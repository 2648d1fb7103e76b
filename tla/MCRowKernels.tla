--------------------------- MODULE MCRowKernels ---------------------------
(* Forward kernels with one and two reductions, clustered or not, among    *)
(* them cross entropy with its gradient in place; backward kernels whose   *)
(* stages are each reused, clustered (one barrier for the two values of    *)
(* LayerNorm) or not, on both kinds of tile ring, with a fold of one or    *)
(* both gradients, and with no row at all.                                 *)
EXTENDS RowKernels

Forward(ctas, warps, perRow, rounds, inPlace) ==
  [backward |-> FALSE, ctas |-> ctas, warps |-> warps, perRow |-> perRow, rounds |-> rounds,
   values |-> 1, inPlace |-> inPlace, tma |-> FALSE, tileStages |-> 2, grads |-> 0]
Backward(ctas, warps, perRow, rounds, values, tma, tileStages, grads) ==
  [backward |-> TRUE, ctas |-> ctas, warps |-> warps, perRow |-> perRow, rounds |-> rounds,
   values |-> values, inPlace |-> FALSE, tma |-> tma, tileStages |-> tileStages, grads |-> grads]

MCLaunches ==
  {Forward(c, 2, 2, 2, TRUE) : c \in {1, 2}} \cup {Forward(2, 2, 1, 1, FALSE), Forward(1, 2, 1, 2, TRUE)}
  \cup {Backward(2, 1, 1, n, 1, FALSE, 2, 2) : n \in {0, 1, 4}}
  \cup {Backward(2, 1, 1, 3, 2, TRUE, 3, 0)}
  \cup {Backward(1, 2, 2, 5, 2, FALSE, 2, 1), Backward(1, 2, 2, 5, 1, TRUE, 3, 1)}
  \cup {Backward(1, 2, 1, 3, 1, TRUE, 2, g) : g \in {1, 2}}
  \cup {Backward(2, 2, 1, 0, 1, FALSE, 2, 2)}
=============================================================================
