------------------------------ MODULE AllGather ------------------------------
(***************************************************************************)
(* AllGatherRunner (distributed/all_gather_gemm.py): the ranks of a group  *)
(* gather the shards of A into two rotating symmetric buffers while their  *)
(* GEMMs already consume them.  Each rank drives three streams: the        *)
(* ambient one stages and multiplies, the push stream copies the staged    *)
(* shard and then its arrival flags to the peers, the barrier stream       *)
(* returns the buffer once every rank's GEMM is done with it.  Calls are   *)
(* eager or replayed from a captured graph, with quiesce() in between.     *)
(*                                                                         *)
(* The host is always ahead of the device, so its part of a call is taken  *)
(* with the call's first device step.  Every rank issues the same program. *)
(***************************************************************************)
EXTENDS Integers, Sequences, FiniteSets

CONSTANTS
    Setups,     \* the groups and programs considered
    EpochMod    \* 2^32 in the code: epochs wrap

Kinds == {"eager", "captured", "quiesce"}
Discover == 2   \* quiesce(last_parity=None)

\* One step of the ranks' common program: a gather() call, run eagerly or as
\* part of a replay (whose first call is marked, whose parity was baked at
\* capture), or quiesce() with the parity the caller names.
Op == [kind : Kinds, parity : {0, 1, Discover}, first : BOOLEAN, lockstep : BOOLEAN]

\* newest[i] is the buffer of the last call among the first i operations, when
\* every quiesce() that names a parity names that one.
NewestAfter(program, newest) ==
    /\ newest[0] = 0
    /\ \A i \in 1..Len(program) :
          \/ program[i].kind = "eager" /\ newest[i] = 1 - newest[i - 1]
          \/ program[i].kind = "captured" /\ newest[i] = program[i].parity
          \/ /\ program[i].kind = "quiesce" /\ newest[i] = newest[i - 1]
             /\ program[i].parity \in {newest[i], Discover}

\* What the runner asks of its callers: a replay runs as a whole, eager calls
\* and replays meet only at quiesce(), and quiesce() is told no wrong parity.
Contract(program) ==
    /\ \A i \in 1..Len(program) : program[i].kind = "captured" =>
          \E j \in 1..i : /\ program[j].first
                          /\ \A k \in j..i : program[k].kind = "captured"
    /\ \A j \in 1..Len(program) : \A i \in 1..j - 1 :
          {program[i].kind, program[j].kind} = {"eager", "captured"} =>
              \E k \in i + 1..j - 1 : program[k].kind = "quiesce"
    /\ \E newest \in [0..Len(program) -> {0, 1}] : NewestAfter(program, newest)

ASSUME SetupsAssumption ==
    /\ EpochMod \in Nat
    /\ \A s \in Setups :
        /\ s.ranks \in Nat /\ s.ranks > 1 /\ s.chunks \in Nat \ {0}
        /\ s.scaled \in BOOLEAN       \* BlockScaledAllGatherRunner's scale lane
        /\ s.epoch \in 0..EpochMod - 1
        /\ s.program \in Seq(Op) /\ Contract(s.program)
        /\ Len(s.program) < EpochMod \div 2

VARIABLES
    setup,
    lastParity,   \* lastParity[r]: the host's idea of the newest buffer
    parity,       \* parity[r][i]: the buffer of the i-th operation
    compute,      \* compute[r]: the operation the ambient stream is at
    gemm,         \* gemm[r]: it is staged and its GEMM runs
    passed,       \* passed[r]: the gates the GEMM has been through
    push, sent,   \* the push stream's operation and the copies it has done
    barrier,      \* the barrier stream's operation
    counter,      \* counter[r]: epoch row 2
    epoch,        \* epoch[r][p]: the snapshot rows
    flags,        \* flags[r][s][c]: r's replica of the arrival flags
    bufs,         \* bufs[r][p][s][c]: whose call the bytes in r's buffer are
    scales        \* scales[r][p][s]: the same for the scale factors

vars == <<setup, lastParity, parity, compute, gemm, passed, push, sent, barrier,
          counter, epoch, flags, bufs, scales>>

host == <<lastParity, parity>>
memory == <<counter, epoch, flags, bufs, scales>>

Rank == 0..setup.ranks - 1
Chunk == 1..setup.chunks
Ops == 1..Len(setup.program)
End == Len(setup.program) + 1
IsCall(i) == i \in Ops /\ setup.program[i].kind # "quiesce"
Captured(i) == i \in Ops /\ setup.program[i].kind = "captured"
Stamp == 0..Len(setup.program)

TypeOK ==
    /\ setup \in Setups
    /\ lastParity \in [Rank -> {0, 1}]
    /\ \A r \in Rank :
          /\ compute[r] \in 1..End
          /\ push[r] = End \/ IsCall(push[r])
          /\ barrier[r] = End \/ IsCall(barrier[r])
          /\ Len(parity[r]) = (IF gemm[r] THEN compute[r] ELSE compute[r] - 1)
          /\ sent[r] \in 0..(2 * setup.chunks + 1) * setup.ranks
    /\ gemm \in [Rank -> BOOLEAN]
    /\ passed \in [Rank -> SUBSET (Rank \X Chunk)]
    /\ counter \in [Rank -> 0..EpochMod - 1]
    /\ epoch \in [Rank -> [{0, 1} -> 0..EpochMod - 1]]
    /\ flags \in [Rank -> [Rank -> [Chunk -> 0..EpochMod - 1]]]
    /\ bufs \in [Rank -> [{0, 1} -> [Rank -> [Chunk -> Stamp]]]]
    /\ scales \in [Rank -> [{0, 1} -> [Rank -> Stamp]]]

\* The first call at or after i: quiesce() is no work of the side streams.
NextCall(i) == CHOOSE j \in i..End : (j = End \/ IsCall(j)) /\ \A k \in i..j - 1 : ~IsCall(k)

\* A fresh runner, or one whose counter is about to wrap.
Init ==
    /\ setup \in Setups
    /\ lastParity = [r \in Rank |-> 0]
    /\ parity = [r \in Rank |-> <<>>]
    /\ compute = [r \in Rank |-> 1]
    /\ gemm = [r \in Rank |-> FALSE]
    /\ passed = [r \in Rank |-> {}]
    /\ push = [r \in Rank |-> NextCall(1)]
    /\ sent = [r \in Rank |-> 0]
    /\ barrier = [r \in Rank |-> NextCall(1)]
    /\ counter = [r \in Rank |-> setup.epoch]
    /\ epoch = [r \in Rank |-> [p \in {0, 1} |->
                   IF setup.epoch = 0 \/ p = 0 THEN setup.epoch ELSE setup.epoch - 1]]
    /\ flags = [r \in Rank |-> [s \in Rank |-> [c \in Chunk |-> setup.epoch]]]
    /\ bufs = [r \in Rank |-> [p \in {0, 1} |-> [s \in Rank |-> [c \in Chunk |-> 0]]]]
    /\ scales = [r \in Rank |-> [p \in {0, 1} |-> [s \in Rank |-> 0]]]

-----------------------------------------------------------------------------
(* What a stream waits for. *)

\* The replay that operation i belongs to begins here.
ReplayStart(i) == CHOOSE j \in 1..i : /\ setup.program[j].first
                                      /\ \A k \in j + 1..i : ~setup.program[k].first

\* The recorded releases of a buffer that a call may wait for: an eager call
\* those of eager calls, a captured one those of its own capture.
Users(r, i, p) ==
    IF Captured(i) THEN {j \in ReplayStart(i)..i - 1 : parity[r][j] = p}
    ELSE {j \in 1..i - 1 : IsCall(j) /\ ~Captured(j) /\ parity[r][j] = p}

\* ev_reuse[p]: the last call on the buffer was released by every rank.
Empty(r, i, p) == \A j \in Users(r, i, p) : barrier[r] > j

Finished(r, i) == compute[r] > i /\ push[r] > i /\ barrier[r] > i

\* A launched graph is one operation of its stream: what follows it on the
\* stream starts when all its nodes are done.
GraphsDone(r, i) ==
    \A j \in 1..i - 1 :
        Captured(j) /\ (Captured(i) => j < ReplayStart(i)) => Finished(r, j)

\* Captured with capture_lockstep, a call also waits for its predecessor's
\* side streams.
Paced(r, i) ==
    Captured(i) /\ setup.program[i].lockstep /\ ~setup.program[i].first => Finished(r, i - 1)

-----------------------------------------------------------------------------
(* The ambient stream. *)

\* The buffer of a call: baked at capture, or the one not used last.
BufferOf(r, i) == IF Captured(i) THEN setup.program[i].parity ELSE 1 - lastParity[r]

\* Variation: the snapshots are chained instead of drawn from one counter.
BumpChained(r, p) ==
    /\ counter' = counter
    /\ epoch' = [epoch EXCEPT ![r][p] = (epoch[r][1 - p] + 1) % EpochMod]

\* One counter for all calls; the snapshot stays put while the call lives.
Bump(r, p) ==
    /\ counter' = [counter EXCEPT ![r] = (@ + 1) % EpochMod]
    /\ epoch' = [epoch EXCEPT ![r][p] = counter'[r]]

\* gather() up to its yield: acquire the buffer, bump the epoch, stage the
\* local shard and raise its flags.
Stage(r) ==
    /\ IsCall(compute[r]) /\ ~gemm[r]
    /\ LET i == compute[r]
           p == BufferOf(r, i)
       IN /\ Empty(r, i, p) /\ GraphsDone(r, i) /\ Paced(r, i)
          /\ parity' = [parity EXCEPT ![r] = Append(@, p)]
          /\ lastParity' = [lastParity EXCEPT ![r] = IF Captured(i) THEN @ ELSE p]
          /\ Bump(r, p)
          /\ bufs' = [bufs EXCEPT ![r][p][r] = [c \in Chunk |-> i]]
          /\ scales' = IF setup.scaled THEN [scales EXCEPT ![r][p][r] = i] ELSE scales
          /\ flags' = [flags EXCEPT ![r][r] = [c \in Chunk |-> epoch'[r][p]]]
    /\ gemm' = [gemm EXCEPT ![r] = TRUE]
    /\ UNCHANGED <<setup, compute, passed, push, sent, barrier>>

\* Variation: the gate waits for its own epoch and no other.
ReachedExactly(flag, e) == flag = e

\* Modular "flag is at or beyond the epoch", as the load warp tests it.
Reached(flag, e) == (flag - e + EpochMod) % EpochMod < EpochMod \div 2

\* ag_wait_m_tile: the first tile of this chunk may be loaded.
Gate(r, s, c) ==
    /\ gemm[r] /\ <<s, c>> \notin passed[r]
    /\ Reached(flags[r][s][c], epoch[r][parity[r][compute[r]]])
    /\ passed' = [passed EXCEPT ![r] = @ \cup {<<s, c>>}]
    /\ UNCHANGED <<setup, host, compute, gemm, push, sent, barrier, memory>>

GemmEnd(r) ==
    /\ gemm[r] /\ passed[r] = Rank \X Chunk
    /\ gemm' = [gemm EXCEPT ![r] = FALSE]
    /\ passed' = [passed EXCEPT ![r] = {}]
    /\ compute' = [compute EXCEPT ![r] = @ + 1]
    /\ UNCHANGED <<setup, host, push, sent, barrier, memory>>

\* Variation: the snapshots are compared as plain integers.
DiscoveredPlain(r) == IF epoch[r][1] > epoch[r][0] THEN 1
                      ELSE IF epoch[r][1] < epoch[r][0] THEN 0 ELSE lastParity[r]

\* The modular-newest snapshot names the buffer written last.
Discovered(r) ==
    LET difference == (epoch[r][1] - epoch[r][0] + EpochMod) % EpochMod
    IN IF difference = 0 THEN lastParity[r]
       ELSE IF difference < EpochMod \div 2 THEN 1 ELSE 0

\* Both eager release events, and both side streams, before anything else.
Quiesce(r) ==
    /\ compute[r] \in Ops /\ ~IsCall(compute[r])
    /\ LET i == compute[r]
           named == setup.program[i].parity
       IN /\ \A j \in 1..i - 1 : IsCall(j) /\ ~Captured(j) => Finished(r, j)
          /\ GraphsDone(r, i)
          /\ lastParity' = [lastParity EXCEPT ![r] =
                                IF named = Discover THEN Discovered(r) ELSE named]
    /\ parity' = [parity EXCEPT ![r] = Append(@, Discover)]
    /\ compute' = [compute EXCEPT ![r] = @ + 1]
    /\ UNCHANGED <<setup, gemm, passed, push, sent, barrier, memory>>

-----------------------------------------------------------------------------
(* The push stream. *)

Step(what, to, c) == [what |-> what, to |-> to, chunk |-> c]

\* Variation: a chunk's flag is raised before its data is copied.
CopiesFlagFirst ==
    LET two == 2 * setup.chunks
    IN (IF setup.scaled THEN [k \in 1..setup.ranks - 1 |-> Step("scales", k, 1)] ELSE <<>>)
       \o [k \in 1..(setup.ranks - 1) * two |->
              Step(IF k % 2 = 1 THEN "flag" ELSE "data",
                   1 + (k - 1) \div two, 1 + ((k - 1) % two) \div 2)]

\* The copies of one call in stream order: every peer's scale factors during
\* the body, then, in reverse ring order, each chunk and right after it its flag.
Copies ==
    LET two == 2 * setup.chunks
    IN (IF setup.scaled THEN [k \in 1..setup.ranks - 1 |-> Step("scales", k, 1)] ELSE <<>>)
       \o [k \in 1..(setup.ranks - 1) * two |->
              Step(IF k % 2 = 1 THEN "data" ELSE "flag",
                   1 + (k - 1) \div two, 1 + ((k - 1) % two) \div 2)]

Staged(r, i) == compute[r] > i \/ (compute[r] = i /\ gemm[r])

Send(r) ==
    /\ IsCall(push[r]) /\ Staged(r, push[r])
    /\ LET i == push[r]
           p == parity[r][i]
           copy == Copies[sent[r] + 1]
           peer == (r - copy.to) % setup.ranks
           last == sent[r] + 1 = Len(Copies)
       IN /\ Empty(r, i, p)
          /\ bufs' = IF copy.what # "data" THEN bufs
                     ELSE [bufs EXCEPT ![peer][p][r][copy.chunk] = bufs[r][p][r][copy.chunk]]
          /\ scales' = IF copy.what # "scales" THEN scales
                       ELSE [scales EXCEPT ![peer][p][r] = scales[r][p][r]]
          /\ flags' = IF copy.what # "flag" THEN flags
                      ELSE [flags EXCEPT ![peer][r][copy.chunk] = epoch[r][p]]
          /\ sent' = [sent EXCEPT ![r] = IF last THEN 0 ELSE @ + 1]
          /\ push' = [push EXCEPT ![r] = IF last THEN NextCall(i + 1) ELSE @]
    /\ UNCHANGED <<setup, host, compute, gemm, passed, barrier, counter, epoch>>

-----------------------------------------------------------------------------
(* The barrier stream. *)

\* Variation: the barrier is not ordered behind the GEMM.
EnteredEarly(q, i) == barrier[q] >= i

\* A rank's barrier stream enters the barrier of call i behind ev_gemm_end.
Entered(q, i) == barrier[q] >= i /\ compute[q] > i

\* handle.barrier(channel=parity) returns once every rank has entered it; then
\* the buffer's release is recorded.
Release(r) ==
    /\ IsCall(barrier[r])
    /\ \A q \in Rank : Entered(q, barrier[r])
    /\ barrier' = [barrier EXCEPT ![r] = NextCall(@ + 1)]
    /\ UNCHANGED <<setup, host, compute, gemm, passed, push, sent, memory>>

Next == \E r \in Rank :
            \/ Stage(r) \/ GemmEnd(r) \/ Quiesce(r) \/ Send(r) \/ Release(r)
            \/ \E s \in Rank, c \in Chunk : Gate(r, s, c)

Spec == Init /\ [][Next]_vars /\ WF_vars(Next)

-----------------------------------------------------------------------------
\* From the moment a gate lets a GEMM through until that GEMM is done, the bytes
\* and the scale factors behind it are those of this very call: they had all
\* arrived, and no faster rank writes the next but one call over them.
ReadsItsOwnCall ==
    \A r \in Rank : gemm[r] =>
        \A g \in passed[r] :
            LET p == parity[r][compute[r]]
            IN /\ bufs[r][p][g[1]][g[2]] = compute[r]
               /\ setup.scaled => scales[r][p][g[1]] = compute[r]

\* The epoch of the i-th operation, on every rank.
EpochOf(i) == (setup.epoch + Cardinality({j \in 1..i : IsCall(j)})) % EpochMod

\* While a call's gates or its late flag copies may still read the snapshot, it
\* holds this call's epoch, the same on every rank and never one used before.
EpochIsStable ==
    \A r \in Rank :
        /\ gemm[r] => epoch[r][parity[r][compute[r]]] = EpochOf(compute[r])
        /\ IsCall(push[r]) /\ Staged(r, push[r])
              => epoch[r][parity[r][push[r]]] = EpochOf(push[r])

\* The last call among the first i operations.
LastCall(i) == CHOOSE j \in 1..i : IsCall(j) /\ \A k \in j + 1..i : ~IsCall(k)

\* Whose bytes and scale factors of shard s gathered_a() finds at r.
Gathered(r, s) ==
    LET p == lastParity[r]
    IN {bufs[r][p][s][c] : c \in Chunk} \cup (IF setup.scaled THEN {scales[r][p][s]} ELSE {})

\* A rank between calls, and not inside a replay, may look at what it gathered.
MayLook(r) ==
    LET i == compute[r] - 1
    IN ~gemm[r] /\ ~Captured(i) /\ \E j \in 1..i : IsCall(j)

\* The next call is baked onto the newest buffer and s has begun it: quiesce()
\* made s wait for the GEMMs on that buffer, not for r's other readers.
Overtakes(s, r) ==
    LET next == NextCall(compute[r])
    IN Captured(next) /\ setup.program[next].parity = lastParity[r] /\ Staged(s, next)

\* gathered_a(): after an eager call, or a replay and quiesce(), the buffer the
\* host calls newest holds the shards and scale factors of the last call and of
\* no other until the rank's next call begins -- but where that call is a replay
\* into this very buffer, each shard only until its owner begins the replay.
GatheredStays ==
    \A r, s \in Rank : MayLook(r) =>
        \A call \in Gathered(r, s) :
            \/ call = LastCall(compute[r] - 1)
            \/ call = NextCall(compute[r]) /\ Overtakes(s, r)

\* What the docstring of gathered_a() says of every caller: the gathered A is
\* that of the last call until the next call.  No run checks it: it does not hold
\* where a peer overtakes (README, section 7).
GatheredUntilNextCall ==
    \A r, s \in Rank : MayLook(r) =>
        \A call \in Gathered(r, s) : call = LastCall(compute[r] - 1)

\* Gates, events and barriers of three streams on every rank never wait in a
\* circle: every program ends with all streams drained.
EveryCallEnds ==
    <>(\A r \in Rank : compute[r] = End /\ push[r] = End /\ barrier[r] = End)
==============================================================================
