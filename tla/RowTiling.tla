------------------------------ MODULE RowTiling ------------------------------
(***************************************************************************)
(* How a row of n elements is cut over the CTAs and warps that reduce it   *)
(* (reduction_base.py, and the tables of softmax.py, cross_entropy.py and  *)
(* rmsnorm_config.py), and what the part of a warp contributes to the      *)
(* row's softmax (reduce.online_softmax_reduce).  Sizes are exact; of an   *)
(* element only its kind is kept: a finite number, minus infinity (what a  *)
(* position past the row is filled with) or not a number.                  *)
(***************************************************************************)
EXTENDS Integers

CONSTANT Rows   \* the rows softmax is called with: n, its width in bits, the SM family

VARIABLE row
vars == <<row>>

CeilDiv(a, b) == (a + b - 1) \div b
K == 1024

-----------------------------------------------------------------------------
(* The launch.                                                             *)

ThreadsPerRow(n) ==
  IF n <= 64 THEN 8 ELSE IF n <= 128 THEN 16 ELSE IF n <= 3 * K THEN 32
  ELSE IF n <= 6 * K THEN 64 ELSE IF n <= 16 * K THEN 128 ELSE 256

(* Rows up to small are one CTA's; twice that are two CTAs', and so on.    *)
Limit(r) == IF r.width = 16 \/ r.family = 12 THEN 16 * K ELSE 32 * K
MaxCluster(r) == IF r.family = 12 THEN 8 ELSE 16
Cluster(r) ==
  IF r.family < 9 \/ r.n <= Limit(r) THEN 1
  ELSE IF r.n <= 2 * Limit(r) THEN 2 ELSE IF r.n <= 4 * Limit(r) THEN 4
  ELSE IF r.n <= 8 * Limit(r) THEN 8 ELSE MaxCluster(r)

Vector(r) == 128 \div r.width
Vectors(r) == r.n \div Vector(r)

(* A CTA's tile, in vectors: the same number of vectors for every thread.  *)
Depth(vectors, threads, ctas) == CeilDiv(vectors, threads * ctas)
TileOf(vectors, threads, ctas) == Depth(vectors, threads, ctas) * threads
Threads(r) == ThreadsPerRow(r.n)
WarpsOf(r) == IF Threads(r) < 32 THEN 1 ELSE Threads(r) \div 32

(* The vectors of the row that a warp of a CTA holds.                      *)
Owned(r, cta, warp) ==
  {v \in {cta * TileOf(Vectors(r), Threads(r), Cluster(r)) + j * Threads(r) + 32 * warp + lane :
            j \in 0..Depth(Vectors(r), Threads(r), Cluster(r)) - 1, lane \in 0..31} :
     v < Vectors(r)}

-----------------------------------------------------------------------------
(* The arithmetic of the online softmax, on kinds.                         *)

Finite == "finite"
MinusInf == "minus infinity"
NaN == "not a number"
Diff(a, b) ==
  IF NaN \in {a, b} \/ (a = MinusInf /\ b = MinusInf) THEN NaN
  ELSE IF a = MinusInf THEN MinusInf ELSE Finite
Exp(a) == IF a = NaN THEN NaN ELSE Finite
Times(a, b) == IF NaN \in {a, b} THEN NaN ELSE Finite

\* A warp's maximum, and its sum of the exponentials relative to it.
Largest(r, cta, warp) == IF Owned(r, cta, warp) = {} THEN MinusInf ELSE Finite
WarpSum(r, cta, warp) ==
  Exp(Diff(Largest(r, cta, warp), Largest(r, cta, warp)))

\* What it adds to the row's sum: rescaled to the row's maximum, a number.
Term(r, cta, warp) == Times(WarpSum(r, cta, warp), Exp(Diff(Largest(r, cta, warp), Finite)))

Init == row \in Rows
Next == UNCHANGED row
Spec == Init /\ [][Next]_vars

(* "torch.testing.assert_close(sums, torch.ones_like(sums))": a row of     *)
(* numbers has a softmax, so no warp's share of its sum is not a number.   *)
SoftmaxIsNumber ==
  \A cta \in 0..Cluster(row) - 1, warp \in 0..WarpsOf(row) - 1 : Term(row, cta, warp) # NaN

-----------------------------------------------------------------------------
(* What _cap_cluster_n guarantees to the kernels that call it (RMSNorm and *)
(* LayerNorm): with at most vectors \div threads CTAs, no CTA's tile spans *)
(* the row, so peers do not all reduce the same columns.  It does not      *)
(* guarantee that every CTA's tile starts within the row.                  *)
Capped(ctas, vectors, threads) ==
  LET most == IF vectors \div threads > 1 THEN vectors \div threads ELSE 1 IN
  IF ctas <= most THEN ctas ELSE most
=============================================================================
