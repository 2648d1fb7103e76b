--------------------------- MODULE MCHostDispatch ---------------------------
(***************************************************************************)
(* Programs of two calls, a base call of each front and a twin that        *)
(* differs from it in one argument, repeated in any order.                 *)
(***************************************************************************)
EXTENDS HostDispatch

G(tile, swap, dyn, split) == [tile |-> tile, swap |-> swap, dyn |-> dyn, split |-> split]
MCConfig == {G(1, FALSE, FALSE, 1), G(2, TRUE, FALSE, 1), G(3, FALSE, TRUE, 2)}
MCSquare == [a \in {9, 10} |-> G(1, FALSE, FALSE, 1)]
MCRanked == G(1, FALSE, FALSE, 1)
MCLibrary == G(2, TRUE, FALSE, 1)
MCDefault == G(1, FALSE, FALSE, 1)

Plain(front) ==
    [front |-> front, shape |-> "s", rank2 |-> TRUE, ragged |-> "no", gather |-> FALSE,
     concat |-> FALSE, traced |-> FALSE, bias |-> "none", c |-> "none", alpha |-> 0,
     beta |-> 0, seed |-> "nearest", split |-> 1, separate |-> FALSE, dynamic |-> FALSE,
     mode |-> "STATIC", pin |-> NoConfig, sink |-> FALSE, width |-> 0, empty |-> "no"]

Split == [Plain("gemm") EXCEPT !.split = 2, !.separate = TRUE, !.bias = "vector"]
InPlace == [Plain("add") EXCEPT !.c = "out"]
Sunk == [Plain("epi") EXCEPT !.sink = TRUE]
Bases == {Plain("gemm"), Split, InPlace, Sunk, Plain("symmetric")}

Twins(b) ==
    {[b EXCEPT !.shape = "t"], [b EXCEPT !.rank2 = FALSE], [b EXCEPT !.alpha = 1],
     [b EXCEPT !.alpha = 2], [b EXCEPT !.dynamic = TRUE]}
    \cup (IF b.front # "symmetric" THEN {[b EXCEPT !.bias = "batched"]} ELSE {})
    \cup (IF b.front = "gemm"
          THEN {[b EXCEPT !.split = 0], [b EXCEPT !.separate = ~@], [b EXCEPT !.seed = "tensor"],
                [b EXCEPT !.seed = "int"], [b EXCEPT !.traced = TRUE],
                [b EXCEPT !.concat = TRUE], [b EXCEPT !.mode = "TUNED"],
                [b EXCEPT !.mode = "RUNNING"], [b EXCEPT !.empty = "k"]} ELSE {})
    \cup (IF b.front = "add"
          THEN {[b EXCEPT !.beta = 1], [b EXCEPT !.c = "tensor"],
                [b EXCEPT !.split = 2, !.separate = TRUE], Plain("gemm")} ELSE {})
    \cup (IF b.front = "epi"
          THEN {[b EXCEPT !.ragged = "m"], [b EXCEPT !.seed = "int"],
                [b EXCEPT !.sink = FALSE],
                [b EXCEPT !.pin = G(2, TRUE, FALSE, 1), !.sink = FALSE],
                [b EXCEPT !.pin = G(3, FALSE, TRUE, 2)]} ELSE {})
    \cup (IF b.front = "symmetric"
          THEN {[b EXCEPT !.c = "tensor"], [b EXCEPT !.c = "tensor", !.beta = 1]} ELSE {})

MCPrograms == UNION {{{b, t} : t \in Twins(b)} : b \in Bases}

\* Two calls of one shape that differ in a constexpr operand.
WidthPrograms == {{[Plain("epi") EXCEPT !.width = 64], [Plain("epi") EXCEPT !.width = 128]}}
=============================================================================
