---------------------------- MODULE MCRowTiling ----------------------------
(* The row sizes of the repository's softmax test, in both widths, and one *)
(* between two of them.                                                    *)
EXTENDS RowTiling
MCRows ==
  {[n |-> n, width |-> width, family |-> 9] :
     n \in {192, 760, 1128, 4096, 32768, 131072, 151936, 262144}, width \in {16, 32}}
=============================================================================
