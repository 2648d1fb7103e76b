----------------------------- MODULE MCAllGather -----------------------------
(* Two ranks with two chunks per shard and three ranks with one; eager calls *)
(* only, replays of graphs of one to three calls in both schedules between   *)
(* eager calls, an odd graph replayed back to back, and an epoch that wraps. *)
EXTENDS AllGather

Call(kind, p, first, lock) == [kind |-> kind, parity |-> p, first |-> first, lockstep |-> lock]
Eager == <<Call("eager", Discover, FALSE, FALSE)>>
Fence(p) == <<Call("quiesce", p, FALSE, FALSE)>>

\* A graph of n calls captured when the host's last parity was seed.
Replay(seed, n, lock) == [j \in 1..n |-> Call("captured", (seed + j) % 2, j = 1, lock)]

Group(ranks, chunks, scaled, e, program) ==
  [ranks |-> ranks, chunks |-> chunks, scaled |-> scaled, epoch |-> e, program |-> program]

MCSetups ==
  {Group(2, 2, FALSE, 0, Eager \o Eager \o Eager),
   Group(2, 1, TRUE, 30, Eager \o Eager \o Eager \o Eager),
   Group(3, 1, FALSE, 0, Eager \o Eager \o Eager)}
  \cup {Group(2, 1, p = 1, e, Eager \o Fence(1) \o Replay(0, 1, FALSE) \o Replay(0, 1, FALSE)
                              \o Fence(p) \o Eager) : e \in {0, 30}, p \in {1, Discover}}
  \cup {Group(2, 1, FALSE, 30, Replay(1, 3, l) \o Replay(1, 3, l) \o Fence(Discover) \o Eager) :
          l \in BOOLEAN}
==============================================================================
