--------------------------- MODULE MCTileSchedule ---------------------------
(* Launches small enough to enumerate: dense ones with a tail group, an      *)
(* AllGather rotation, a batch permutation and more splits than k-tiles, and *)
(* varlen_m ones with empty batches that span several scan windows.          *)
EXTENDS TileSchedule, TLC

Identity(l) == [b \in 0..l - 1 |-> b]
Swap(l) == [b \in 0..l - 1 |-> l - 1 - b]

Dense(m, n, l, split, group, raster, k) ==
  [varlen |-> FALSE, m |-> m, n |-> n, l |-> l, split |-> split, group |-> group,
   raster |-> raster, k |-> k, block |-> 1, lens |-> <<>>, perm |-> Identity(l),
   shards |-> 1, first |-> 0]

Varlen(lens, block, n, group, raster) ==
  [varlen |-> TRUE, m |-> 0, n |-> n, l |-> Len(lens), split |-> 1, group |-> group,
   raster |-> raster, k |-> 1, block |-> block, lens |-> lens, perm |-> Identity(Len(lens)),
   shards |-> 1, first |-> 0]

Shapes ==
  {Dense(3, 2, 1, 1, 2, r, 2) : r \in {"AlongM", "AlongN", "Heuristic"}}
  \cup {Dense(2, 3, 1, 1, 2, "AlongN", 1), Dense(1, 2, 2, 2, 8, "Heuristic", 3),
        Dense(2, 1, 1, 3, 1, "AlongM", 2), [Dense(1, 1, 2, 2, 1, "AlongN", 5) EXCEPT !.perm = Swap(2)],
        [Dense(4, 2, 1, 1, 1, "AlongM", 1) EXCEPT !.shards = 2, !.first = 1]}
  \cup {Varlen(<<1, 0, 3, 0, 2>>, 2, 1, 1, "AlongM"), Varlen(<<3, 1, 0>>, 2, 2, 2, "AlongN"),
        Varlen(<<2, 0, 0, 0, 4>>, 2, 1, 3, "AlongM"), Varlen(<<3, 0, 0, 3>>, 3, 2, 1, "AlongN"), Varlen(<<0, 5>>, 2, 2, 2, "AlongM")}

MCProblems == {[mode |-> md] @@ s : md \in Modes, s \in Shapes}
=============================================================================
