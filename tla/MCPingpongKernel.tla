------------------------- MODULE MCPingpongKernel -------------------------
(* Work lists of a cluster, none to five tiles long: equal tiles, tiles of *)
(* unequal k (varlen_k, with an empty one), and split-K lists in which     *)
(* finalizers and partial splits alternate irregularly.                    *)
EXTENDS PingpongKernel

Tile(k, e) == [k |-> k, epilogue |-> e]
Loop(mma, slow, decode, promote, blocks) ==
  [mma |-> mma, slow |-> slow, decode |-> decode, promote |-> promote, blocks |-> blocks]
Ss == Loop("ss", FALSE, FALSE, FALSE, 1)
Slow == Loop("ss", TRUE, FALSE, FALSE, 1)
Rs(decode, promote) == Loop("rs", FALSE, decode, promote, 4)
Warp(decode) == Loop("warp", FALSE, decode, FALSE, 2)

LaunchOf(loop, clc, pp, split, dyn, e, cs, es, work) ==
  [loop |-> loop, clc |-> clc, pingpong |-> pp, split |-> split, dynamic |-> dyn,
   subtiles |-> e, cStages |-> cs, epiStages |-> es, work |-> work]
Launch(pp, split, dyn, e, cs, es, work) == LaunchOf(Ss, FALSE, pp, split, dyn, e, cs, es, work)
Simple(loop, clc, pp, split, dyn, work) == LaunchOf(loop, clc, pp, split, dyn, 1, 1, 2, work)
Equal(n, k) == [t \in 1..n |-> Tile(k, TRUE)]
Varlen == <<Tile(2, TRUE), Tile(0, TRUE), Tile(3, TRUE), Tile(1, TRUE), Tile(1, TRUE)>>
Splits == <<Tile(1, TRUE), Tile(2, FALSE), Tile(1, TRUE), Tile(0, FALSE), Tile(1, FALSE), Tile(1, TRUE)>>

MCLaunches ==
  {Launch(TRUE, FALSE, FALSE, e[1], e[2], e[3], Equal(n, k)) :
     e \in {<<1, 1, 2>>, <<2, 1, 3>>}, n \in 0..4, k \in {1, 2, 5}}
  \cup {Launch(TRUE, FALSE, TRUE, 1, 1, 2, SubSeq(Varlen, 1, n)) : n \in 1..5}
  \cup {Launch(TRUE, TRUE, TRUE, 1, 1, 2, SubSeq(Splits, i, 6)) : i \in 1..6}
  \cup {Launch(FALSE, TRUE, TRUE, e, 1, e + 1, SubSeq(Splits, i, 6)) : e \in {1, 2}, i \in {1, 2}}
  \cup {Launch(FALSE, FALSE, d, 2, 2, 3, SubSeq(Varlen, 1, n)) : d \in {TRUE}, n \in 1..3}
  \cup {Simple(loop, FALSE, FALSE, FALSE, TRUE, SubSeq(Varlen, 1, 4)) :
          loop \in {Slow, Rs(FALSE, FALSE), Rs(TRUE, FALSE), Rs(TRUE, TRUE), Warp(FALSE), Warp(TRUE)}}
  \cup {Simple(loop, FALSE, TRUE, FALSE, FALSE, Equal(3, 2)) : loop \in {Rs(FALSE, FALSE), Warp(FALSE)}}
  \cup {Simple(Warp(FALSE), clc, TRUE, FALSE, FALSE, Equal(n, 1)) : clc \in BOOLEAN, n \in 0..2}
  \cup {Simple(Warp(FALSE), TRUE, TRUE, TRUE, TRUE, SubSeq(Splits, 2, 6))}
=============================================================================
