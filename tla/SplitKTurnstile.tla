-------------------------- MODULE SplitKTurnstile --------------------------
(***************************************************************************)
(* Serial and parallel split-K (gemm_base.py, sync/barrier.py): S CTAs or  *)
(* passes of CTAs compute partial sums of one output tile.  All but the    *)
(* last split commit theirs to the tile's stripe of a global workspace and *)
(* count up the tile's flag; the last split waits for the count, adds the  *)
(* stripe to its own accumulator, runs the epilogue and clears the flag.   *)
(*                                                                         *)
(* The epilogue group of a CTA is a set of threads.  Each writes and reads *)
(* its own part of the stripe; one, thread 0, spins on the flag and        *)
(* publishes.  What orders the others' writes before its release is the    *)
(* group barrier alone.  A reduction to global memory is performed some    *)
(* time after it is issued.  gemm_w4 keeps flags and workspace and uses    *)
(* them again for the next call.                                           *)
(***************************************************************************)
EXTENDS Integers, Sequences, FiniteSets

CONSTANTS
  Launches,   \* the configurations Init chooses from
  Threads     \* the threads of an epilogue group, 0 among them

(* splits, tiles, ctas: their numbers; order: how CTAs draw work; calls:   *)
(* how often the same buffers are used; overlap: the calls are on streams  *)
(* of their own, so that nothing orders them.                              *)
LaunchType ==
  [mode : {"SERIAL", "PARALLEL"}, splits : Nat \ {0, 1}, tiles : Nat \ {0},
   ctas : Nat \ {0}, order : {"static", "dynamic", "grid"}, calls : Nat \ {0},
   overlap : BOOLEAN]
ASSUME LaunchesAssumption ==
  /\ Launches \subseteq LaunchType
  /\ \A l \in Launches : l.mode = "PARALLEL" => l.calls = 1   \* fresh, zeroed buffers
ASSUME ThreadsAssumption == 0 \in Threads /\ Threads \subseteq Nat

VARIABLES
  launch,
  counter,   \* counter[q]: work ids of call q drawn so far (dynamic, grid)
  drawn,     \* drawn[<<q, x>>]: the work ids CTA x of call q has drawn
  thread,    \* thread[<<q, x, t>>]: at which drawn item, and where in it
  flag,      \* flag[tile]: the tile's completion flag
  stripe,    \* stripe[tile][t]: the partials summed into t's part, in order
  issued,    \* commits issued and not yet performed
  result     \* result[q][tile][t]: the sum the epilogue ran on
vars == <<launch, counter, drawn, thread, flag, stripe, issued, result>>

S == launch.splits
Tiles == 0..launch.tiles - 1
Calls == 1..launch.calls
Ctas == 0..launch.ctas - 1
Serial == launch.mode = "SERIAL"
Last(s) == s = S - 1
NumWork == S * launch.tiles

-----------------------------------------------------------------------------
(* The splits of a tile have ascending work ids: adjacent ones when a      *)
(* cluster counts them out, a plane of the grid each when the hardware     *)
(* does.  A CTA draws ascending ids, the first by its own position.        *)
TileOf(id) == IF launch.order = "grid" THEN id % launch.tiles ELSE id \div S
\* Variation: the last split has the lowest id.
Descending(id) == S - 1 - (IF launch.order = "grid" THEN id \div launch.tiles ELSE id % S)
SplitOf(id) == IF launch.order = "grid" THEN id \div launch.tiles ELSE id % S
First(q, x) == drawn[<<q, x>>] = <<>>
Counts(q, x) == launch.order = "grid" \/ (launch.order = "dynamic" /\ ~First(q, x))
NextId(q, x) ==
  IF launch.order = "grid" THEN counter[q]
  ELSE IF launch.order = "static" \/ First(q, x) THEN x + Len(drawn[<<q, x>>]) * launch.ctas
  ELSE launch.ctas + counter[q]

Idle == 0
Acquire == 1
Granted == 2
Contribute == 3
Collect == 4
Publish == 5

(* The workspace is torch.empty for SERIAL, zeroed for PARALLEL.           *)
Garbage == <<0, 0>>
\* Variation: the workspace is never zeroed.
Uninitialized(l) == <<Garbage>>
InitialStripe(l) == IF l.mode = "SERIAL" THEN <<Garbage>> ELSE <<>>

Init ==
  /\ launch \in Launches
  /\ counter = [q \in Calls |-> 0]
  /\ drawn = [qx \in Calls \X Ctas |-> <<>>]
  /\ thread = [p \in Calls \X Ctas \X Threads |-> [item |-> 1, at |-> Idle]]
  /\ flag = [tile \in Tiles |-> 0]
  /\ stripe = [tile \in Tiles |-> [t \in Threads |-> InitialStripe(launch)]]
  /\ issued = {}
  /\ result = [q \in Calls |-> [tile \in Tiles |-> [t \in Threads |-> <<>>]]]

Exhausted(q) == \A x \in Ctas : NextId(q, x) >= NumWork
Rests(q, x, t) == thread[<<q, x, t>>].at = Idle /\ thread[<<q, x, t>>].item = Len(drawn[<<q, x>>]) + 1
Done(q) == Exhausted(q) /\ \A x \in Ctas, t \in Threads : Rests(q, x, t)
MayRun(q) == launch.overlap \/ \A r \in 1..q - 1 : Done(r)

(* The scheduler warp is one tile ahead of the epilogue at most.           *)
Draw(q, x) ==
  /\ MayRun(q)
  /\ NextId(q, x) < NumWork
  /\ Len(drawn[<<q, x>>]) <= thread[<<q, x, 0>>].item
  /\ drawn' = [drawn EXCEPT ![<<q, x>>] = Append(@, NextId(q, x))]
  /\ counter' = [counter EXCEPT ![q] = IF Counts(q, x) THEN @ + 1 ELSE @]
  /\ UNCHANGED <<launch, thread, flag, stripe, issued, result>>

-----------------------------------------------------------------------------
Id(p) == drawn[<<p[1], p[2]>>][thread[p].item]
Tile(p) == TileOf(Id(p))
Split(p) == SplitOf(Id(p))
At(p, where) == thread[p].at = where
Elected(p) == p[3] = 0
Go(p, where) == thread' = [thread EXCEPT ![p].at = where]

(* A barrier of the group: every thread has come at least this far.        *)
AllAt(p, where) ==
  \A t \in Threads :
    LET other == thread[<<p[1], p[2], t>>] IN
    \/ other.item > thread[p].item
    \/ other.item = thread[p].item /\ other.at >= where

(* A parallel partial waits for nobody.                                    *)
Waits(s) == Serial \/ Last(s)
Begin(p) ==
  /\ At(p, Idle) /\ thread[p].item <= Len(drawn[<<p[1], p[2]>>])
  /\ Go(p, IF Waits(Split(p)) THEN Acquire ELSE Contribute)
  /\ UNCHANGED <<launch, counter, drawn, flag, stripe, issued, result>>

FlagGrants(s, f) == s = 0 \/ f = s     \* wait_eq; split 0 has nobody to wait for
WaitEq(p) ==
  /\ At(p, Acquire)
  /\ Elected(p) => FlagGrants(Split(p), flag[Tile(p)])
  /\ Go(p, Granted)
  /\ UNCHANGED <<launch, counter, drawn, flag, stripe, issued, result>>

WaitSync(p) ==
  /\ At(p, Granted) /\ AllAt(p, Granted)
  /\ Go(p, Contribute)
  /\ UNCHANGED <<launch, counter, drawn, flag, stripe, issued, result>>

(* split_k_partial_commit: split 0 of SERIAL stores, all others add.       *)
Commit(p) ==
  /\ At(p, Contribute) /\ ~Last(Split(p))
  /\ issued' = issued \cup {[by |-> p, item |-> thread[p].item, tile |-> Tile(p), split |-> Split(p)]}
  /\ Go(p, Collect)
  /\ UNCHANGED <<launch, counter, drawn, flag, stripe, result>>

\* Variation: split 0 adds to the workspace like the others.
AddsAlways(part, s, old) == Append(old, part)
Combine(part, s, old) == IF Serial /\ s = 0 THEN <<part>> ELSE Append(old, part)
Perform(w) ==
  /\ stripe' = [stripe EXCEPT ![w.tile][w.by[3]] = Combine(<<w.by[1], w.split>>, w.split, @)]
  /\ issued' = issued \ {w}
  /\ UNCHANGED <<launch, counter, drawn, thread, flag, result>>

(* The finalizer: load_acc_and_fold, then the epilogue on the sum.         *)
Finalize(p) ==
  /\ At(p, Contribute) /\ Last(Split(p))
  /\ result' = [result EXCEPT ![p[1]][Tile(p)][p[3]] =
                  Append(stripe[Tile(p)][p[3]], <<p[1], Split(p)>>)]
  /\ Go(p, Collect)
  /\ UNCHANGED <<launch, counter, drawn, flag, stripe, issued>>

\* Variation: thread 0 releases without collecting its group.
Alone(p) == TRUE
Collected(p) == AllAt(p, Collect)
ReleaseSync(p) ==
  /\ At(p, Collect) /\ Collected(p)
  /\ Go(p, Publish)
  /\ UNCHANGED <<launch, counter, drawn, flag, stripe, issued, result>>

(* A release performs what the barrier ordered before it: the writes of    *)
(* every thread that has passed it, and the releasing thread's own.        *)
Performed(p) ==
  ~\E w \in issued :
     /\ w.by[1] = p[1] /\ w.by[2] = p[2] /\ w.item <= thread[p].item
     /\ w.by = p \/ AllAt(p, Collect)

NewFlag(s, f) == IF Last(s) THEN 0 ELSE IF Serial THEN s + 1 ELSE f + 1
Release(p) ==
  /\ At(p, Publish)
  /\ Elected(p) => Performed(p)
  /\ flag' = IF Elected(p) THEN [flag EXCEPT ![Tile(p)] = NewFlag(Split(p), @)] ELSE flag
  /\ thread' = [thread EXCEPT ![p] = [item |-> @.item + 1, at |-> Idle]]
  /\ UNCHANGED <<launch, counter, drawn, stripe, issued, result>>

ThreadNext(p) ==
  \/ Begin(p) \/ WaitEq(p) \/ WaitSync(p) \/ Commit(p) \/ Finalize(p) \/ ReleaseSync(p)
  \/ Release(p)
DrawNext == \E q \in Calls, x \in Ctas : Draw(q, x)
PerformNext == \E w \in issued : Perform(w)

Next == DrawNext \/ PerformNext \/ \E p \in DOMAIN thread : ThreadNext(p)

(* Resident warps are all scheduled, so while anything can move something  *)
(* does; no behaviour goes round for ever, and more is not needed.         *)
Fairness == WF_vars(Next)
Spec == Init /\ [][Next]_vars /\ Fairness

-----------------------------------------------------------------------------
(* Every drawn id names a split of a tile, only splits before the last     *)
(* commit to the workspace, and each thread is at a place of an item.      *)
TypeOK ==
  /\ \A qx \in DOMAIN drawn : drawn[qx] \in Seq(0..S * launch.tiles - 1)
  /\ flag \in [Tiles -> Nat]
  /\ thread \in [Calls \X Ctas \X Threads -> [item : Nat \ {0}, at : Idle..Publish]]
  /\ \A w \in issued : w.tile \in Tiles /\ w.split \in 0..S - 2 /\ w.by \in DOMAIN thread

(* The epilogue runs on a sum that has every split's partial exactly once, *)
(* of this call and no other, and nothing of what the workspace held.      *)
FoldIsComplete ==
  \A q \in Calls, tile \in Tiles, t \in Threads :
    LET sum == result[q][tile][t] IN
    sum # <<>> => /\ Len(sum) = S
                  /\ \A s \in 0..S - 1 : \E i \in 1..S : sum[i] = <<q, s>>

(* SERIAL is "turnstile-ordered by split index (bitwise deterministic)":   *)
(* the floating-point additions happen in split order.                     *)
SerialOrder ==
  Serial => \A q \in Calls, tile \in Tiles, t \in Threads :
    result[q][tile][t] # <<>> => result[q][tile][t] = [i \in 1..S |-> <<q, i - 1>>]

(* Whatever the number of CTAs, nobody waits for a split that is queued    *)
(* behind it: every call ends.                                             *)
EveryCallEnds == <>(\A q \in Calls : Done(q))
=============================================================================
