--------------------------- MODULE HostCacheProofs ---------------------------
(***************************************************************************)
(* The two caches a host call relies on.                                   *)
(*                                                                         *)
(* The plan caches of HostDispatch, for every set of calls, configurations *)
(* and devices: a launch out of any layer's cache is the launch its call   *)
(* asks for.  The argument is that each key subsumes what the plan below   *)
(* it depends on (the two Subsumes lemmas); the invariant then says that   *)
(* every entry is right for every call that would find it.                 *)
(*                                                                         *)
(* The persistent kernel cache (ArtifactCache), for any set of callers:    *)
(* the second half of the module.  Its state is disjoint from the first's. *)
(***************************************************************************)
EXTENDS HostDispatch, ArtifactCache, TLAPS

PlanFor(plan, c, g) ==
    /\ plan.kernel = Kernel(c, g)
    /\ plan.reducesOut = (AddsToOut(c) /\ ~OutAsC(c))
    /\ plan.kernel.staged => arch >= 9

\* The winner of the call's key is g, and stays so.
Won(c, g) == TunerKey(c) \in DOMAIN winner /\ winner[TunerKey(c)] = g

EntryFor(e, c) ==
    /\ e.config \in Config
    /\ PlanFor(e.plan, c, e.config)
    /\ e.views = Views(c, e.config)
    /\ e.sinkTile = e.config.tile
    /\ Tuned(c) => e.source = "reused" \/ Won(c, e.config)

InnerInv ==
    \A c \in Call, g \in Config :
        InnerKey(c, g) \in DOMAIN inner => PlanFor(inner[InnerKey(c, g)], c, g)

OuterInv ==
    \A c \in Call :
        Keyed(c) /\ OuterKey(c) \in DOMAIN outer => EntryFor(outer[OuterKey(c)], c)

Maybe == Config \cup {NoConfig}
Asking == [stage : {"resolve"}, call : Call, known : Maybe]
Launching == [stage : {"dispatch", "record"}, call : Call, known : Maybe,
              config : Config, source : {"fixed", "winner", "reused", "fallback"}]

CurInv ==
    \/ cur = Idle
    \/ /\ cur \in Asking
       /\ cur.known # NoConfig => Visible(cur.call) = cur.known
    \/ /\ cur \in Launching
       /\ cur.known # NoConfig => cur.config = cur.known
       /\ Tuned(cur.call) => cur.source \in {"reused", "fallback"}
                             \/ Won(cur.call, cur.config)

LaunchFor(c, g) ==
    /\ PlanFor(done.plan, c, g)
    /\ done.views = Views(c, g)
    /\ done.sinkTile = g.tile

DoneInv ==
    /\ Launched => /\ done.call \in Call /\ done.config \in Config
                   /\ LaunchFor(done.call, done.config)
                   /\ WinnerRuns
    /\ cur # Idle /\ cur.stage = "record" => Launched /\ LaunchFor(cur.call, cur.config)

MapsOK ==
    /\ arch \in Archs /\ program \in Programs
    /\ \A k \in DOMAIN winner : winner[k] \in Config
    /\ \A k \in DOMAIN published : published[k] \in Config
    /\ \A k \in DOMAIN reused : reused[k] \in Config

IInv == MapsOK /\ InnerInv /\ OuterInv /\ CurInv /\ DoneInv

(***************************************************************************)
(* Keys subsume.                                                           *)
(***************************************************************************)
LEMMA InnerKeySubsumes ==
    ASSUME NEW c \in Call, NEW d \in Call, NEW g \in Config, NEW h \in Config,
           InnerKey(c, g) = InnerKey(d, h)
    PROVE  /\ Kernel(c, g) = Kernel(d, h)
           /\ (AddsToOut(c) /\ ~OutAsC(c)) = (AddsToOut(d) /\ ~OutAsC(d))
  <1>1. /\ Op(c) = Op(d) /\ c.shape = d.shape /\ Views(c, g) = Views(d, h) /\ g.tile = h.tile
        /\ GivenC(c) = GivenC(d) /\ BiasPort(c, g) = BiasPort(d, h)
        /\ c.ragged = d.ragged /\ c.gather = d.gather /\ c.concat = d.concat
        /\ Dynamic(c, g) = Dynamic(d, h)
        /\ AddsToOut(c) = AddsToOut(d) /\ c.alpha = d.alpha /\ c.beta = d.beta
        /\ c.seed = d.seed
        /\ SplitOf(c, g) = SplitOf(d, h) /\ c.separate = d.separate
    BY DEF InnerKey
  <1>2. OutAsC(c) = OutAsC(d)
    BY <1>1 DEF OutAsC
  <1>3. Staged(c, g) = Staged(d, h) /\ Semaphore(c, g) = Semaphore(d, h)
    BY <1>1 DEF Staged, Semaphore
  <1> QED
    BY <1>1, <1>2, <1>3, Zenon DEF Kernel

LEMMA OuterKeySubsumes ==
    ASSUME NEW c \in Call, NEW d \in Call, Keyed(c), Keyed(d), OuterKey(c) = OuterKey(d)
    PROVE  /\ \A g \in Config : Kernel(c, g) = Kernel(d, g) /\ Views(c, g) = Views(d, g)
           /\ (AddsToOut(c) /\ ~OutAsC(c)) = (AddsToOut(d) /\ ~OutAsC(d))
           /\ Tuned(c) = Tuned(d) /\ (Tuned(c) => TunerKey(c) = TunerKey(d))
  <1>1. Metadata(c) = Metadata(d)
    BY DEF OuterKey, GemmKey, SymmetricKey, CallKey
  <1>2. /\ c.front = d.front /\ c.shape = d.shape /\ c.rank2 = d.rank2 /\ c.bias = d.bias
        /\ c.c = d.c /\ c.dynamic = d.dynamic
    BY <1>1 DEF Metadata
  <1>3. /\ c.front \in {"gemm", "symmetric", "epi"} /\ Admissible(c) /\ Admissible(d)
        /\ c.gather \in BOOLEAN /\ d.gather \in BOOLEAN
        /\ c.concat \in BOOLEAN /\ d.concat \in BOOLEAN
        /\ c.separate \in BOOLEAN /\ d.separate \in BOOLEAN
    BY DEF Call, CallSet, Fronts, Keyed
  <1>4. /\ c.ragged = d.ragged /\ c.gather = d.gather /\ c.concat = d.concat
        /\ c.alpha = d.alpha /\ c.beta = d.beta /\ c.seed = d.seed
        /\ c.front = "gemm" => c.split = d.split /\ c.separate = d.separate
        /\ c.front = "epi" => c.pin = d.pin /\ c.split = d.split /\ c.separate = d.separate
    <2>1. CASE c.front = "gemm"
      BY <1>2, <1>3, <2>1 DEF OuterKey, GemmKey, Keyed, Ragged, Admissible
    <2>2. CASE c.front = "symmetric"
      BY <1>2, <1>3, <2>2 DEF OuterKey, SymmetricKey, Admissible
    <2>3. CASE c.front = "epi"
      BY <1>2, <1>3, <2>3 DEF OuterKey, CallKey, Keyed, Admissible
    <2> QED
      BY <1>3, <2>1, <2>2, <2>3
  <1>5. ASSUME NEW g \in Config PROVE Kernel(c, g) = Kernel(d, g) /\ Views(c, g) = Views(d, g)
    <2>1. /\ SplitOf(c, g) = SplitOf(d, g) /\ Dynamic(c, g) = Dynamic(d, g)
          /\ AddsToOut(c) = AddsToOut(d) /\ Op(c) = Op(d)
      BY <1>2, <1>3, <1>4 DEF SplitOf, Dynamic, AddsToOut, Op
    <2>2. /\ Staged(c, g) = Staged(d, g) /\ Semaphore(c, g) = Semaphore(d, g)
          /\ GivenC(c) = GivenC(d) /\ OutAsC(c) = OutAsC(d) /\ BiasPort(c, g) = BiasPort(d, g)
      <3>1. CASE c.front = "gemm"
        BY <1>2, <1>4, <2>1, <3>1 DEF Staged, Semaphore, GivenC, OutAsC, BiasPort
      <3>2. CASE c.front # "gemm"
        BY <1>2, <1>3, <2>1, <3>2 DEF Staged, Semaphore, GivenC, OutAsC, BiasPort, SplitOf
      <3> QED BY <3>1, <3>2
    <2>3. NativeB(c, g) = NativeB(d, g) /\ Rank2(c, g) = Rank2(d, g)
      BY <1>2, <1>4, <2>1 DEF NativeB, Rank2, Ragged
    <2>4. Views(c, g) = Views(d, g)
      BY <2>3 DEF Views
    <2> QED
      BY <1>2, <1>4, <2>1, <2>2, <2>4, Zenon DEF Kernel
  <1>6. (AddsToOut(c) /\ ~OutAsC(c)) = (AddsToOut(d) /\ ~OutAsC(d))
    BY <1>2, <1>4 DEF AddsToOut, OutAsC
  <1>7. Tuned(c) = Tuned(d)
    BY <1>2, <1>3, <1>4 DEF Tuned, Admissible
  <1>8. ASSUME Tuned(c) PROVE TunerKey(c) = TunerKey(d)
    <2>1. Op(c) = Op(d) /\ GivenC(c) = GivenC(d)
      BY <1>2, <1>4 DEF Op, GivenC, AddsToOut
    <2>2. c.split = d.split /\ c.separate = d.separate
      BY <1>3, <1>4, <1>8 DEF Tuned
    <2> QED
      BY <1>2, <1>4, <2>1, <2>2 DEF TunerKey
  <1> QED
    BY <1>5, <1>6, <1>7, <1>8

(***************************************************************************)
(* Steps.                                                                  *)
(***************************************************************************)
LEMMA PutFacts ==
    ASSUME NEW f, NEW k, NEW v
    PROVE  /\ DOMAIN Put(f, k, v) = DOMAIN f \cup {k}
           /\ Put(f, k, v)[k] = v
           /\ \A x \in DOMAIN f : x # k => Put(f, k, v)[x] = f[x]
  BY DEF Put

\* The device never changes, so neither do kernels, views and keys.
LEMMA Stationary ==
    ASSUME Next \/ UNCHANGED vars
    PROVE  /\ arch' = arch /\ program' = program
           /\ \A c, g : /\ Kernel(c, g)' = Kernel(c, g) /\ Views(c, g)' = Views(c, g)
                        /\ InnerKey(c, g)' = InnerKey(c, g)
                        /\ OutAsC(c)' = OutAsC(c)
  <1>1. arch' = arch /\ program' = program
    BY DEF Next, vars, tuning, Replay, ReturnEmpty, Begin, PeerPublishes, PeerTransfers,
           Untuned, MemoryHit, DiskHit, ReuseMemo, Sweep, SweepFails, Reuse, Fallback,
           Refuse, DispatchHit, DispatchMiss, Record, SetNumSms
  <1> QED
    BY <1>1 DEF Kernel, Views, InnerKey, OutAsC, NativeB, Rank2, Dynamic, Semaphore,
                SplitOf, Staged, AddsToOut, GivenC, BiasPort, Op, Ragged

\* A winner in memory is never replaced.
LEMMA WonStays ==
    ASSUME Next \/ UNCHANGED vars, NEW c, NEW g, Won(c, g)
    PROVE  Won(c, g)'
  <1>1. CASE winner' = winner
    BY <1>1 DEF Won
  <1>2. ASSUME NEW v, K \notin DOMAIN winner, winner' = Put(winner, K, v)
        PROVE  Won(c, g)'
    <2>1. TunerKey(c) \in DOMAIN winner /\ TunerKey(c) # K /\ winner[TunerKey(c)] = g
      BY <1>2 DEF Won
    <2>2. TunerKey(c) \in DOMAIN winner' /\ winner'[TunerKey(c)] = winner[TunerKey(c)]
      BY <1>2, <2>1 DEF Put
    <2> QED
      BY <2>1, <2>2 DEF Won
  <1>3. CASE DiskHit
    BY <1>2, <1>3 DEF DiskHit
  <1>4. CASE Sweep
    BY <1>2, <1>4 DEF Sweep, Measures, NoWinner
  <1> QED
    BY <1>1, <1>3, <1>4
    DEF Next, vars, tuning, Replay, ReturnEmpty, Begin, PeerPublishes, PeerTransfers,
        Untuned, MemoryHit, ReuseMemo, SweepFails, Reuse, Fallback,
        Refuse, DispatchHit, DispatchMiss, Record, SetNumSms

LEMMA BuiltPlan ==
    ASSUME NEW c, NEW g, Accepts(c, g)
    PROVE  PlanFor(BuildPlan(c, g), c, g)
  <1>1. Kernel(c, g).staged => arch >= 9
    BY DEF Kernel, Staged, Accepts
  <1> QED
    BY <1>1 DEF PlanFor, BuildPlan

LEMMA MapsStep ==
    ASSUME IInv, Next \/ UNCHANGED vars
    PROVE  MapsOK'
  <1> USE DEF IInv, MapsOK
  <1>1. arch' = arch /\ program' = program
    BY Stationary
  <1>2. CASE DiskHit
    BY <1>1, <1>2 DEF DiskHit, Put
  <1>3. CASE Sweep
    BY <1>1, <1>3 DEF Sweep, Put, Space
  <1>4. CASE Reuse
    BY <1>1, <1>4 DEF Reuse, Put, Space
  <1>5. ASSUME NEW c \in program, PeerPublishes(c) PROVE MapsOK'
    BY <1>1, <1>5 DEF PeerPublishes, Put, Space
  <1>6. CASE UNCHANGED <<winner, published, reused>>
    BY <1>1, <1>6
  <1> QED
    BY <1>2, <1>3, <1>4, <1>5, <1>6
    DEF Next, vars, tuning, Replay, ReturnEmpty, Begin, PeerTransfers,
        Untuned, MemoryHit, ReuseMemo, SweepFails, Fallback,
        Refuse, DispatchHit, DispatchMiss, Record, SetNumSms

LEMMA InnerStep ==
    ASSUME IInv, Next \/ UNCHANGED vars
    PROVE  InnerInv'
  <1> SUFFICES ASSUME NEW c \in Call, NEW g \in Config, InnerKey(c, g)' \in DOMAIN inner'
               PROVE  PlanFor(inner[InnerKey(c, g)], c, g)'
    BY DEF InnerInv
  <1> DEFINE k == InnerKey(c, g)
  <1>1. k \in DOMAIN inner' /\ InnerKey(c, g)' = k
    BY Stationary
  <1>2. SUFFICES PlanFor(inner'[k], c, g)
    BY <1>1, Stationary DEF PlanFor, AddsToOut
  <1>3. k \in DOMAIN inner => PlanFor(inner[k], c, g)
    BY DEF IInv, InnerInv
  <1>4. ASSUME NEW d \in Call, NEW h \in Config, Accepts(d, h),
               inner'[k] = BuildPlan(d, h), InnerKey(d, h) = k
        PROVE  PlanFor(inner'[k], c, g)
    BY <1>4, InnerKeySubsumes, BuiltPlan DEF PlanFor
  <1>5. CASE inner' = inner
    BY <1>1, <1>3, <1>5
  <1>6. cur # Idle => cur.call \in Call
    BY DEF IInv, CurInv, Asking, Launching
  <1>7. CASE Sweep
    <2>1. cur.call \in Call /\ Space(cur.call) \subseteq Config
      BY <1>6, <1>7 DEF Sweep, Measures, Asks, Idle, Space
    <2>2. CASE k \in DOMAIN inner
      BY <1>3, <1>7, <2>2 DEF Sweep
    <2>3. CASE k \notin DOMAIN inner
      <3> DEFINE h == CHOOSE x \in Space(cur.call) : InnerKey(cur.call, x) = k
      <3>1. (\E x \in Space(cur.call) : InnerKey(cur.call, x) = k)
            /\ inner'[k] = BuildPlan(cur.call, h)
        BY <1>1, <1>7, <2>3 DEF Sweep
      <3>2. h \in Space(cur.call) /\ InnerKey(cur.call, h) = k
        BY <3>1
      <3>3. Accepts(cur.call, h)
        BY <3>2 DEF Space
      <3> QED
        BY <1>4, <2>1, <3>1, <3>2, <3>3
    <2> QED
      BY <2>2, <2>3
  <1>8. CASE DispatchMiss
    <2>1. cur.call \in Call /\ cur.config \in Config
      BY <1>8 DEF IInv, CurInv, Asking, Launching, DispatchMiss, Idle
    <2>2. /\ inner' = Put(inner, InnerKey(cur.call, cur.config), BuildPlan(cur.call, cur.config))
          /\ Accepts(cur.call, cur.config)
      BY <1>8 DEF DispatchMiss
    <2>3. CASE k = InnerKey(cur.call, cur.config)
      BY <1>4, <2>1, <2>2, <2>3 DEF Put
    <2>4. CASE k # InnerKey(cur.call, cur.config)
      BY <1>1, <1>3, <2>2, <2>4 DEF Put
    <2> QED
      BY <2>3, <2>4
  <1> QED
    BY <1>5, <1>7, <1>8
    DEF Next, vars, tuning, Replay, ReturnEmpty, Begin, PeerPublishes, PeerTransfers,
        Untuned, MemoryHit, DiskHit, ReuseMemo, SweepFails, Reuse, Fallback,
        Refuse, DispatchHit, Record, SetNumSms

LEMMA OuterStep ==
    ASSUME IInv, Next \/ UNCHANGED vars
    PROVE  OuterInv'
  <1> SUFFICES ASSUME NEW c \in Call, Keyed(c), OuterKey(c) \in DOMAIN outer'
               PROVE  EntryFor(outer[OuterKey(c)], c)'
    BY DEF OuterInv
  <1> DEFINE k == OuterKey(c)
             e == outer'[k]
  <1>1. ASSUME EntryFor(e, c)
        PROVE  EntryFor(outer[OuterKey(c)], c)'
    BY <1>1, Stationary, WonStays DEF EntryFor, PlanFor, AddsToOut
  <1>2. k \in DOMAIN outer => EntryFor(outer[k], c)
    BY DEF IInv, OuterInv
  <1>3. CASE outer' = outer
    BY <1>1, <1>2, <1>3
  <1>4. CASE Record /\ outer' # outer
    <2>1. /\ cur \in Launching /\ cur.stage = "record" /\ Records
          /\ outer' = Put(outer, OuterKey(cur.call), Entry)
      BY <1>4 DEF Record, IInv, CurInv, Idle, Asking
    <2>2. /\ cur.call \in Call /\ Keyed(cur.call) /\ cur.config \in Config
          /\ cur.source # "fallback" /\ LaunchFor(cur.call, cur.config)
      BY <2>1 DEF Launching, Records, IInv, DoneInv, Idle
    <2>3. CASE k = OuterKey(cur.call)
      <3>1. e = Entry
        BY <2>1, <2>3 DEF Put
      <3>2. /\ Kernel(c, cur.config) = Kernel(cur.call, cur.config)
            /\ Views(c, cur.config) = Views(cur.call, cur.config)
            /\ (AddsToOut(c) /\ ~OutAsC(c)) = (AddsToOut(cur.call) /\ ~OutAsC(cur.call))
            /\ Tuned(c) = Tuned(cur.call)
            /\ Tuned(c) => TunerKey(c) = TunerKey(cur.call)
        BY <2>2, <2>3, OuterKeySubsumes
      <3>3. Tuned(cur.call) => cur.source = "reused" \/ Won(cur.call, cur.config)
        BY <2>1, <2>2 DEF IInv, CurInv, Idle, Asking
      <3>4. EntryFor(Entry, c)
        BY <2>2, <3>2, <3>3 DEF EntryFor, Entry, PlanFor, LaunchFor, Won
      <3> QED
        BY <1>1, <3>1, <3>4
    <2>4. CASE k # OuterKey(cur.call)
      BY <1>1, <1>2, <2>1, <2>4 DEF Put
    <2> QED
      BY <2>3, <2>4
  <1> QED
    BY <1>3, <1>4
    DEF Next, vars, tuning, Replay, ReturnEmpty, Begin, PeerPublishes, PeerTransfers,
        Untuned, MemoryHit, DiskHit, ReuseMemo, Sweep, SweepFails, Reuse, Fallback,
        Refuse, DispatchHit, DispatchMiss, Record, SetNumSms

\* The configuration a call falls back to, and the call it hands down.
LEMMA FallbackFacts ==
    ASSUME NEW c \in Call
    PROVE  /\ FallbackConfig(c) \in Config
           /\ Delegated(c) \in Call
  <1>1. FallbackConfig(c) \in Config
    BY DispatchAssumption DEF FallbackConfig
  <1>2. [c EXCEPT !.dynamic = FALSE] \in Call
    <2> DEFINE d == [c EXCEPT !.dynamic = FALSE]
    <2>1. c \in CallSet /\ Admissible(c)
      BY DEF Call
    <2>2. d \in CallSet
      BY <2>1 DEF CallSet
    <2>3. /\ d.front = c.front /\ d.pin = c.pin /\ d.traced = c.traced /\ d.split = c.split
          /\ d.separate = c.separate /\ d.c = c.c /\ d.beta = c.beta /\ d.ragged = c.ragged
          /\ d.gather = c.gather /\ d.concat = c.concat /\ d.seed = c.seed /\ d.bias = c.bias
      BY <2>1 DEF CallSet
    <2>4. Admissible(d)
      BY <2>1, <2>3 DEF Admissible
    <2> QED
      BY <2>2, <2>4 DEF Call
  <1> QED
    BY <1>1, <1>2 DEF Delegated

\* A winner somebody can see stays the one that is seen.
LEMMA VisibleStays ==
    ASSUME IInv, Next \/ UNCHANGED vars, NEW c, Visible(c) # NoConfig
    PROVE  Visible(c)' = Visible(c)
  <1> DEFINE k == TunerKey(c)
  <1>1. k' = k /\ Tuned(c)' = Tuned(c)
    BY DEF Tuned, TunerKey, GivenC, AddsToOut, Op
  <1>2. /\ Tuned(c)
        /\ k \in DOMAIN winner \/ k \in DOMAIN published
        /\ Visible(c) = IF k \in DOMAIN winner THEN winner[k] ELSE published[k]
    BY DEF Visible, Known
  <1>3. ASSUME IF k \in DOMAIN winner THEN k \in DOMAIN winner' /\ winner'[k] = winner[k]
               ELSE IF k \in DOMAIN winner'
               THEN winner'[k] = published[k]
               ELSE k \in DOMAIN published' /\ published'[k] = published[k]
        PROVE  Visible(c)' = Visible(c)
    BY <1>1, <1>2, <1>3 DEF Visible, Known
  <1>4. CASE winner' = winner /\ published' = published
    BY <1>2, <1>3, <1>4
  <1>5. CASE DiskHit
    <2>1. winner' = Put(winner, K, published[K]) /\ published' = published /\ K \notin DOMAIN winner
      BY <1>5 DEF DiskHit
    <2> QED
      BY <1>2, <1>3, <2>1 DEF Put
  <1>6. CASE Sweep
    <2>1. PICK g : winner' = Put(winner, K, g) /\ published' = Put(published, K, g)
      BY <1>6 DEF Sweep
    <2>2. K \notin DOMAIN winner /\ K \notin DOMAIN published
      BY <1>6 DEF Sweep, Measures, NoWinner
    <2> QED
      BY <1>2, <1>3, <2>1, <2>2 DEF Put
  <1>7. ASSUME NEW d \in program, PeerPublishes(d)
        PROVE  Visible(c)' = Visible(c)
    <2>1. PICK g : published' = Put(published, TunerKey(d), g)
      BY <1>7 DEF PeerPublishes
    <2>2. winner' = winner /\ TunerKey(d) \notin DOMAIN published
      BY <1>7 DEF PeerPublishes
    <2> QED
      BY <1>2, <1>3, <2>1, <2>2 DEF Put
  <1> QED
    BY <1>4, <1>5, <1>6, <1>7
    DEF Next, vars, tuning, Replay, ReturnEmpty, Begin, PeerTransfers,
        Untuned, MemoryHit, ReuseMemo, SweepFails, Reuse, Fallback,
        Refuse, DispatchHit, DispatchMiss, Record, SetNumSms

\* What a resolution hands down is right for its call.
LEMMA ResolvedCur ==
    ASSUME IInv, Next \/ UNCHANGED vars, cur # Idle, cur.stage = "resolve",
           NEW g \in Config, NEW source \in {"fixed", "winner", "reused", "fallback"},
           Resolved(g, source),
           cur.known # NoConfig => g = cur.known,
           NEW d, d = cur.call,
           Tuned(d) => source \in {"reused", "fallback"} \/ Won(d, g)'
    PROVE  CurInv'
  <1>1. cur \in Asking
    BY DEF IInv, CurInv, Launching
  <1>2. cur' = [stage |-> "dispatch", call |-> cur.call, known |-> cur.known,
                config |-> g, source |-> source]
    BY DEF Resolved
  <1>3. cur' \in Launching
    BY <1>1, <1>2 DEF Asking, Launching
  <1>4. cur'.call = d /\ cur'.config = g /\ cur'.known = cur.known /\ cur'.source = source
    BY <1>2
  <1>5. Tuned(cur.call)' => cur'.source \in {"reused", "fallback"} \/ Won(cur.call, cur.config)'
    BY <1>4 DEF Won, Tuned, TunerKey, GivenC, AddsToOut, Op
  <1> QED
    BY <1>3, <1>4, <1>5 DEF CurInv

LEMMA CurStep ==
    ASSUME IInv, Next \/ UNCHANGED vars
    PROVE  CurInv'
  <1> DEFINE c == cur.call
  <1>1. cur = Idle \/ cur \in Asking \/ cur \in Launching
    BY DEF IInv, CurInv
  <1>2. ASSUME Asks
        PROVE  /\ cur # Idle /\ cur.stage = "resolve" /\ c \in Call /\ cur \in Asking
               /\ Tuned(c) /\ K = TunerKey(c)
               /\ cur.known # NoConfig => Visible(c) = cur.known
               /\ NoWinner => cur.known = NoConfig
    <2>1. cur # Idle /\ cur.stage = "resolve" /\ Tuned(c) /\ cur \in Asking
      BY <1>1, <1>2 DEF Asks, Idle, Launching
    <2>2. c \in Call /\ (cur.known # NoConfig => Visible(c) = cur.known)
      BY <2>1 DEF IInv, CurInv, Asking, Launching
    <2>3. NoWinner => Visible(c) = NoConfig
      BY DEF NoWinner, Visible, Known, K
    <2> QED
      BY <2>1, <2>2, <2>3 DEF K
  <1>3. CASE cur' = cur /\ UNCHANGED winner
    <2>1. CASE cur \in Asking /\ cur # Idle
      <3>1. cur.known # NoConfig => Visible(c) = cur.known
        BY <2>1 DEF IInv, CurInv, Asking, Launching
      <3> PICK d : d = cur.call
        OBVIOUS
      <3>2. cur.known # NoConfig => Visible(d)' = cur.known
        BY <3>1, VisibleStays
      <3>3. Visible(cur.call)' = Visible(d)'
        BY <1>3 DEF Visible, Tuned, TunerKey, GivenC, AddsToOut, Op
      <3> QED
        BY <1>3, <2>1, <3>2, <3>3 DEF CurInv
    <2>2. CASE cur \in Launching
      BY <1>3, <2>2 DEF IInv, CurInv, Asking, Launching, Idle, Won, Tuned, TunerKey, GivenC,
                        AddsToOut, Op
    <2>3. CASE cur = Idle
      BY <1>3, <2>3 DEF CurInv
    <2> QED
      BY <1>1, <2>1, <2>2, <2>3
  <1>4. CASE cur' = Idle
    BY <1>4 DEF CurInv, Idle
  <1>5. ASSUME NEW d \in program, Begin(d) PROVE CurInv'
    <2>1. d \in Call
      BY <1>5, DispatchAssumption DEF IInv, MapsOK, Calls
    <2>2. Visible(d) \in Maybe
      BY DEF IInv, MapsOK, Visible, Known, Maybe
    <2>3. cur' = [stage |-> "resolve", call |-> d, known |-> Visible(d)]
          /\ winner' = winner /\ published' = published
      BY <1>5 DEF Begin, tuning
    <2>4. cur' \in Asking /\ Visible(cur.call)' = Visible(d)
      BY <2>1, <2>2, <2>3 DEF Asking, Visible, Tuned, TunerKey, GivenC, AddsToOut, Op, Known
    <2> QED
      BY <2>3, <2>4 DEF CurInv
  <1>6. CASE Untuned
    <2>1. cur \in Asking /\ cur # Idle /\ cur.stage = "resolve" /\ ~Tuned(c) /\ c \in Call
      BY <1>1, <1>6 DEF Untuned, Idle, Asking, Launching
    <2>2. cur.known = NoConfig
      BY <2>1 DEF IInv, CurInv, Visible, Launching
    <2>3. c.pin \in Config \cup {NoConfig} /\ Square[arch] \in Config
      BY <2>1, DispatchAssumption DEF Call, CallSet, IInv, MapsOK
    <2>4. PICK g \in Config : Resolved(g, "fixed")
      BY <1>6, <2>3, DispatchAssumption DEF Untuned
    <2> QED
      BY <2>1, <2>2, <2>4, ResolvedCur
  <1>7. CASE MemoryHit
    <2>1. Asks /\ K \in DOMAIN winner /\ Resolved(winner[K], "winner") /\ winner' = winner
      BY <1>7 DEF MemoryHit, tuning
    <2>2. winner[K] \in Config /\ Won(c, winner[K]) /\ Visible(c) = winner[K]
      BY <1>2, <2>1 DEF IInv, MapsOK, Won, Visible
    <2>3. PICK d, g : d = c /\ g = winner[K]
      OBVIOUS
    <2>4. Won(d, g)'
      BY <2>2, <2>3, WonStays
    <2> QED
      BY <1>2, <2>1, <2>2, <2>3, <2>4, ResolvedCur
  <1>8. CASE DiskHit
    <2>1. Asks /\ K \in DOMAIN published /\ K \notin DOMAIN winner
          /\ Resolved(published[K], "winner") /\ winner' = Put(winner, K, published[K])
      BY <1>8 DEF DiskHit
    <2>2. published[K] \in Config /\ Visible(c) = published[K]
      BY <1>2, <2>1 DEF IInv, MapsOK, Visible, Known
    <2>3. PICK d, g : d = c /\ g = published[K]
      OBVIOUS
    <2>4. Won(d, g)'
      BY <1>2, <2>1, <2>3 DEF Won, Put, TunerKey, GivenC, AddsToOut, Op
    <2> QED
      BY <1>2, <2>1, <2>2, <2>3, <2>4, ResolvedCur
  <1>9. CASE ReuseMemo
    <2>1. Asks /\ NoWinner /\ K \in DOMAIN reused /\ Resolved(reused[K], "reused")
      BY <1>9 DEF ReuseMemo
    <2> QED
      BY <1>2, <2>1, ResolvedCur DEF IInv, MapsOK
  <1>10. CASE Sweep
    <2>1. Asks /\ NoWinner
      BY <1>10 DEF Sweep, Measures
    <2>2. PICK g \in Space(c) : winner' = Put(winner, K, g) /\ Resolved(g, "winner")
      BY <1>10 DEF Sweep
    <2>3. g \in Config
      BY DEF Space
    <2>4. PICK d : d = c
      OBVIOUS
    <2>5. Won(d, g)'
      BY <1>2, <2>1, <2>2, <2>4 DEF Won, Put, TunerKey, GivenC, AddsToOut, Op
    <2> QED
      BY <1>2, <2>1, <2>2, <2>3, <2>4, <2>5, ResolvedCur
  <1>11. CASE Reuse
    <2>1. Asks /\ NoWinner
      BY <1>11 DEF Reuse, Misses
    <2>2. PICK g \in Space(c) : Resolved(g, "reused")
      BY <1>11 DEF Reuse
    <2> QED
      BY <1>2, <2>1, <2>2, ResolvedCur DEF Space
  <1>12. CASE Fallback
    <2>1. /\ Asks /\ NoWinner
          /\ cur' = [stage |-> "dispatch", call |-> Delegated(c), known |-> cur.known,
                     config |-> FallbackConfig(c), source |-> "fallback"]
      BY <1>12 DEF Fallback, Misses
    <2>2. cur' \in Launching
      BY <1>2, <2>1, FallbackFacts DEF Launching, Maybe
    <2> QED
      BY <1>2, <2>1, <2>2 DEF CurInv
  <1>13. CASE DispatchHit \/ DispatchMiss
    <2>1. cur \in Launching /\ cur' = [cur EXCEPT !.stage = "record"]
      <3>1. cur.stage = "dispatch" /\ cur' = [cur EXCEPT !.stage = "record"]
        BY <1>13 DEF DispatchHit, DispatchMiss, Run
      <3> QED
        BY <1>1, <3>1 DEF Idle, Asking
    <2>2. winner' = winner
      BY <1>13 DEF DispatchHit, DispatchMiss, tuning
    <2>3. /\ cur' \in Launching /\ cur'.call = cur.call /\ cur'.known = cur.known
          /\ cur'.config = cur.config /\ cur'.source = cur.source
      BY <2>1 DEF Launching
    <2> QED
      BY <2>1, <2>2, <2>3 DEF IInv, CurInv, Idle, Asking, Launching, Won, Tuned, TunerKey, GivenC,
                              AddsToOut, Op
  <1> QED
    BY <1>3, <1>4, <1>5, <1>6, <1>7, <1>8, <1>9, <1>10, <1>11, <1>12, <1>13
    DEF Next, vars, tuning, Replay, ReturnEmpty, PeerPublishes, PeerTransfers,
        SweepFails, Refuse, Record, SetNumSms

LEMMA DoneStep ==
    ASSUME IInv, Next \/ UNCHANGED vars
    PROVE  DoneInv'
  <1> DEFINE Good(d) ==
               /\ d.call \in Call /\ d.config \in Config
               /\ PlanFor(d.plan, d.call, d.config)
               /\ d.views = Views(d.call, d.config) /\ d.sinkTile = d.config.tile
               /\ d.known # NoConfig /\ ~(d.replayed /\ d.source = "reused")
                      => d.config = d.known
  <1>1. Launched => Good(done)
    BY DEF IInv, DoneInv, LaunchFor, WinnerRuns
  <1>2. ASSUME done'.stage = "launched" => Good(done'),
               cur' # Idle /\ cur'.stage = "record"
                   => /\ done'.stage = "launched" /\ PlanFor(done'.plan, cur'.call, cur'.config)
                      /\ done'.views = Views(cur'.call, cur'.config)
                      /\ done'.sinkTile = cur'.config.tile
        PROVE  DoneInv'
    <2>1. Launched' => /\ done'.call \in Call /\ done'.config \in Config
                       /\ LaunchFor(done.call, done.config)' /\ WinnerRuns'
      BY <1>2, Stationary DEF Launched, LaunchFor, WinnerRuns, PlanFor, AddsToOut
    <2>2. cur' # Idle /\ cur'.stage = "record" => Launched' /\ LaunchFor(cur.call, cur.config)'
      BY <1>2, Stationary DEF Launched, LaunchFor, PlanFor, AddsToOut
    <2> QED
      BY <2>1, <2>2 DEF DoneInv, Idle
  <1>3. CASE done' = done /\ (cur' = Idle \/ cur' = cur)
    BY <1>1, <1>2, <1>3 DEF IInv, DoneInv, LaunchFor, Launched
  <1>4. CASE done' = done /\ cur # Idle /\ cur.stage = "resolve" /\ cur'.stage = "dispatch"
    BY <1>1, <1>2, <1>4 DEF Launched
  <1>5. CASE done' = NoLaunch /\ (cur' = Idle \/ cur'.stage = "resolve")
    BY <1>2, <1>5 DEF NoLaunch
  <1>6. ASSUME NEW c \in program, Replay(c) PROVE DoneInv'
    <2> DEFINE e == outer[OuterKey(c)]
    <2>1. c \in Call
      BY DispatchAssumption DEF IInv, MapsOK, Calls
    <2>2. EntryFor(e, c)
      BY <1>6, <2>1 DEF Replay, IInv, OuterInv
    <2>3. cur = Idle /\ cur' = Idle
      BY <1>6 DEF Replay, Starts
    <2>4. Visible(c) # NoConfig => e.source = "reused" \/ e.config = Visible(c)
      BY <2>2 DEF EntryFor, Visible, Won
    <2>5. done' = Launch(c, e.config, e.plan, e.views, e.sinkTile, e.source, Visible(c), TRUE)
      BY <1>6, <2>2 DEF Replay, EntryFor
    <2>6. Good(done')
      BY <2>1, <2>2, <2>4, <2>5 DEF Launch, EntryFor
    <2> QED
      BY <1>2, <2>3, <2>6
  <1>7. ASSUME NEW plan, cur \in Launching, PlanFor(plan, cur.call, cur.config), Run(plan)
        PROVE  DoneInv'
    <2>1. /\ cur.call \in Call /\ cur.config \in Config
          /\ cur.known # NoConfig => cur.config = cur.known
      BY <1>7 DEF Launching, IInv, CurInv, Idle, Asking
    <2>2. /\ done' = Launch(cur.call, cur.config, plan, Views(cur.call, cur.config),
                            cur.config.tile, cur.source, cur.known, FALSE)
          /\ cur'.call = cur.call /\ cur'.config = cur.config
      BY <1>7 DEF Run, Launching
    <2>3. Good(done')
      BY <1>7, <2>1, <2>2 DEF Launch
    <2> QED
      BY <1>2, <1>7, <2>2, <2>3 DEF Launch
  <1>8. ASSUME cur.stage = "dispatch"
        PROVE  cur \in Launching /\ cur.call \in Call /\ cur.config \in Config
    BY <1>8 DEF IInv, CurInv, Idle, Asking, Launching
  <1>9. CASE DispatchHit
    <2>1. cur.stage = "dispatch" /\ Run(inner[InnerKey(cur.call, cur.config)])
          /\ InnerKey(cur.call, cur.config) \in DOMAIN inner
      BY <1>9 DEF DispatchHit
    <2>2. PlanFor(inner[InnerKey(cur.call, cur.config)], cur.call, cur.config)
      BY <1>8, <2>1 DEF IInv, InnerInv
    <2> QED
      BY <1>7, <1>8, <2>1, <2>2
  <1>10. CASE DispatchMiss
    <2>1. /\ cur.stage = "dispatch" /\ Run(BuildPlan(cur.call, cur.config))
          /\ Accepts(cur.call, cur.config)
      BY <1>10 DEF DispatchMiss
    <2> QED
      BY <1>7, <1>8, <2>1, BuiltPlan
  <1>11. ASSUME cur.stage = "resolve" PROVE cur # Idle
    BY <1>11 DEF Idle
  <1>12. CASE Untuned \/ MemoryHit \/ DiskHit \/ ReuseMemo
    BY <1>4, <1>11, <1>12 DEF Untuned, MemoryHit, DiskHit, ReuseMemo, Asks, Resolved
  <1>13. CASE Sweep \/ Reuse \/ Fallback
    BY <1>4, <1>11, <1>13 DEF Sweep, Reuse, Fallback, Asks, Misses, Measures, Resolved
  <1>14. CASE SweepFails \/ Refuse \/ Record \/ \E b \in Budgets : SetNumSms(b)
    BY <1>3, <1>5, <1>14 DEF SweepFails, Refuse, Record, SetNumSms
  <1>15. ASSUME NEW c \in program,
                ReturnEmpty(c) \/ Begin(c) \/ PeerPublishes(c) \/ PeerTransfers(c)
         PROVE  DoneInv'
    BY <1>3, <1>5, <1>15 DEF ReturnEmpty, Begin, Starts, PeerPublishes, PeerTransfers
  <1>16. CASE UNCHANGED vars
    BY <1>3, <1>16 DEF vars
  <1> QED
    BY <1>6, <1>9, <1>10, <1>12, <1>13, <1>14, <1>15, <1>16 DEF Next

LEMMA InitInv == Init => IInv
  BY DispatchAssumption
  DEF Init, IInv, MapsOK, InnerInv, OuterInv, CurInv, DoneInv, Nowhere, Idle, NoLaunch, Launched

LEMMA NextInv == IInv /\ [Next]_vars => IInv'
  BY MapsStep, InnerStep, OuterStep, CurStep, DoneStep DEF IInv

LEMMA Inductive == Spec => []IInv
  BY InitInv, NextInv, PTL DEF Spec

(***************************************************************************)
(* Theorems.                                                               *)
(***************************************************************************)
\* Every launch, cold or out of a cache, runs the kernel and the operand views
\* that a plan built for it now would have, for all calls and configurations.
THEOREM Fresh == Spec => []ReplaysAreFresh
  <1>1. IInv => ReplaysAreFresh
    BY DEF IInv, DoneInv, LaunchFor, PlanFor, ReplaysAreFresh
  <1> QED
    BY <1>1, Inductive, PTL

\* A winner in memory or published when the call began is what the call runs.
THEOREM Winner == Spec => []WinnerRuns
  <1>1. IInv => WinnerRuns
    BY DEF IInv, DoneInv, WinnerRuns
  <1> QED
    BY <1>1, Inductive, PTL

\* The sink buffers of every launch are cut for the tile of its kernel.
THEOREM Sinks == Spec => []SinksFitKernel
  <1>1. IInv => SinksFitKernel
    BY DEF IInv, DoneInv, LaunchFor, PlanFor, SinksFitKernel, Kernel
  <1> QED
    BY <1>1, Inductive, PTL

\* Alpha, the C term and the bias reach the output exactly once, split or not,
\* in place or not, on every launch.
THEOREM Terms == Spec => []TermsAppliedOnce
  <1>1. IInv => TermsAppliedOnce
    <2> SUFFICES ASSUME IInv, Launched PROVE TermsAppliedOnce
      BY DEF TermsAppliedOnce
    <2> DEFINE c == done.call
               k == done.plan.kernel
    <2>1. c \in Call /\ k = Kernel(c, done.config) /\ (k.staged => arch >= 9)
          /\ done.plan.reducesOut = (AddsToOut(c) /\ ~OutAsC(c))
      BY DEF IInv, DoneInv, LaunchFor, PlanFor
    <2>2. /\ k.staged = Staged(c, done.config)
          /\ k.alpha = IF k.staged THEN 0 ELSE c.alpha
          /\ k.bias = IF k.staged THEN "none" ELSE BiasPort(c, done.config)
          /\ k.c = (~k.staged /\ (GivenC(c) \/ OutAsC(c)))
          /\ k.accumulate = (~k.staged /\ AddsToOut(c) /\ ~OutAsC(c))
      BY <2>1 DEF Kernel
    <2>3. Times(k.alpha # 0) + Times(k.staged /\ c.alpha # 0) = Times(c.alpha # 0)
      BY <2>2 DEF Times
    <2>4. BiasPort(c, done.config) # "none" <=> c.bias # "none"
      BY DEF BiasPort
    <2>5. Times(k.bias # "none") + Times(k.staged /\ c.bias # "none") = Times(c.bias # "none")
      BY <2>2, <2>4 DEF Times
    <2>6. /\ AddsToOut(c) => c.c = "out"
          /\ GivenC(c) <=> (c.c # "none" /\ ~AddsToOut(c))
          /\ OutAsC(c) <=> (AddsToOut(c) /\ arch = 8)
      BY DEF AddsToOut, GivenC, OutAsC
    <2>7. Times(k.c) + Times(k.accumulate) + Times(k.staged /\ GivenC(c))
            + Times(k.staged /\ done.plan.reducesOut) = Times(c.c # "none")
      <3>1. /\ Times(k.c) = Times(~Staged(c, done.config) /\ (GivenC(c) \/ OutAsC(c)))
            /\ Times(k.accumulate)
                 = Times(~Staged(c, done.config) /\ AddsToOut(c) /\ ~OutAsC(c))
            /\ Times(k.staged /\ GivenC(c)) = Times(Staged(c, done.config) /\ GivenC(c))
            /\ Times(k.staged /\ done.plan.reducesOut)
                 = Times(Staged(c, done.config) /\ AddsToOut(c) /\ ~OutAsC(c))
        BY <2>1, <2>2, Zenon DEF Times
      <3>2. Staged(c, done.config) => arch >= 9
        BY <2>1, <2>2
      <3> HIDE DEF k, c
      <3> QED
        BY <3>1, <3>2, <2>6 DEF Times
    <2> QED
      BY <2>3, <2>5, <2>7 DEF TermsAppliedOnce
  <1> QED
    BY <1>1, Inductive, PTL

\* Type correctness: the caches hold plans of known configurations.
THEOREM Typed == Spec => []TypeOK
  <1>1. Init => TypeOK
    BY DispatchAssumption DEF Init, TypeOK, Nowhere, Idle
  <1>2. ASSUME IInv, IInv', TypeOK, [Next]_vars PROVE TypeOK'
    <2>1. arch' \in Archs /\ program' \in Programs
      BY <1>2 DEF IInv, MapsOK
    <2>2. \A k \in DOMAIN winner' : winner'[k] \in Config
      BY <1>2 DEF IInv, MapsOK
    <2>3. \A k \in DOMAIN published' : published'[k] \in Config
      BY <1>2 DEF IInv, MapsOK
    <2>4. \A k \in DOMAIN reused' : reused'[k] \in Config
      BY <1>2 DEF IInv, MapsOK
    <2>5. /\ cur' = Idle \/ cur'.stage \in {"resolve", "dispatch", "record"}
          /\ cur'.stage \in {"dispatch", "record"} => cur'.config \in Config
      BY <1>2 DEF IInv, CurInv, Idle, Asking, Launching
    <2>6. \A o \in DOMAIN transferred' : transferred'[o] \in Config
      <3>1. CASE transferred' = transferred
        BY <1>2, <3>1 DEF TypeOK
      <3>2. CASE DiskHit
        BY <1>2, <3>2 DEF TypeOK, DiskHit, Put
      <3>3. CASE Sweep
        BY <1>2, <3>3 DEF TypeOK, Sweep, Space, Put
      <3>4. ASSUME NEW c \in program, PeerTransfers(c)
            PROVE  \A o \in DOMAIN transferred' : transferred'[o] \in Config
        BY <1>2, <3>4 DEF TypeOK, PeerTransfers, Put
      <3> QED
        BY <1>2, <3>1, <3>2, <3>3, <3>4
        DEF Next, vars, tuning, Replay, ReturnEmpty, Begin, PeerPublishes,
            Untuned, MemoryHit, ReuseMemo, SweepFails, Reuse, Fallback,
            Refuse, DispatchHit, DispatchMiss, Record, SetNumSms
    <2>7. \A k \in DOMAIN outer' : outer'[k].config \in Config
      <3>1. CASE outer' = outer
        BY <1>2, <3>1 DEF TypeOK
      <3>2. CASE Record
        BY <1>2, <3>2 DEF TypeOK, Record, Entry, Put
      <3> QED
        BY <1>2, <3>1, <3>2
        DEF Next, vars, tuning, Replay, ReturnEmpty, Begin, PeerPublishes, PeerTransfers,
            Untuned, MemoryHit, DiskHit, ReuseMemo, Sweep, SweepFails, Reuse, Fallback,
            Refuse, DispatchHit, DispatchMiss, SetNumSms
    <2>8. budget' \in Budgets \cup {0} /\ calls' \in 0 .. MaxCalls
      <3>1. calls \in 0 .. MaxCalls /\ budget \in Budgets \cup {0} /\ MaxCalls \in Nat
        BY <1>2, DispatchAssumption DEF TypeOK
      <3>2. CASE UNCHANGED <<budget, calls>>
        BY <3>1, <3>2
      <3>3. ASSUME NEW c \in program, Starts(c), budget' = budget
            PROVE  budget' \in Budgets \cup {0} /\ calls' \in 0 .. MaxCalls
        BY <3>1, <3>3 DEF Starts
      <3>4. ASSUME NEW b \in Budgets, SetNumSms(b)
            PROVE  budget' \in Budgets \cup {0} /\ calls' \in 0 .. MaxCalls
        BY <3>1, <3>4 DEF SetNumSms
      <3> QED
        BY <1>2, <3>2, <3>3, <3>4
        DEF Next, vars, tuning, Replay, ReturnEmpty, Begin, PeerPublishes,
          PeerTransfers, Untuned, MemoryHit, DiskHit, ReuseMemo, Sweep, SweepFails, Reuse,
          Fallback, Refuse, DispatchHit, DispatchMiss, Record, SetNumSms
    <2> QED
      BY <2>1, <2>2, <2>3, <2>4, <2>5, <2>6, <2>7, <2>8 DEF TypeOK
  <1> QED
    BY <1>1, <1>2, Inductive, PTL DEF Spec

(***************************************************************************)
(* The jit_cache wrapper.  Its safety properties are not inductive.        *)
(* CacheInv adds what they rest on: program counters and the two flocks    *)
(* agree, an object seen under a lock stays while it is being used, and,   *)
(* until a mishap, only the exclusive holder is between the decision to    *)
(* compile and the publication.                                            *)
(***************************************************************************)
LockDiscipline ==
    /\ \A c \in Caller : pc[c] \in Locked <=> writer = c
    /\ \A c \in Caller : pc[c] \in Shared <=> c \in readers
    /\ writer # NoOne => readers = {}

SeenObject ==
    \A c \in Caller :
        /\ pc[c] \in {"fastLoad", "lockedLoad", "unlink"} => obj # Absent
        /\ pc[c] = "unlink" /\ ~FlakyLoad => obj = Corrupt

Unhurt ==
    ~mishap =>
        \A c \in Caller :
            /\ pc[c] \notin Solo
            /\ pc[c] = "unlink" => obj = Corrupt
            /\ pc[c] \in {"lockedCompile", "lockedExport", "lockedPublish"}
                 => obj = Absent

CacheInv == CacheTypeOK /\ LockDiscipline /\ SeenObject /\ Unhurt
               /\ CompilesAreBanked /\ OneAuthor

-----------------------------------------------------------------------------
\* Types: every variable keeps its type under every step.
LEMMA CacheTypeStep == CacheTypeOK /\ [CacheNext]_cacheVars => CacheTypeOK'
<1> SUFFICES ASSUME CacheTypeOK, [CacheNext]_cacheVars PROVE CacheTypeOK'
  OBVIOUS
<1> USE DEF CacheTypeOK, Goto, Loads, LeaveFast, InCall, Locked, Shared, Waiting, Solo
<1>1. CASE UNCHANGED cacheVars
  BY <1>1 DEF cacheVars
<1>2. ASSUME NEW c \in Caller, Step(c) PROVE CacheTypeOK'
  <2>1. CASE CompileDisabled(c) BY <2>1 DEF CompileDisabled
  <2>2. CASE Probe(c) BY <2>2 DEF Probe
  <2>3. CASE AcquireShared(c) BY <2>3 DEF AcquireShared
  <2>4. CASE TimeoutShared(c) BY <2>4 DEF TimeoutShared
  <2>5. CASE FastCheck(c) BY <2>5 DEF FastCheck
  <2>6. CASE FastHit(c) BY <2>6 DEF FastHit
  <2>7. CASE FastMiss(c) BY <2>7 DEF FastMiss
  <2>8. CASE AcquireExclusive(c) BY <2>8 DEF AcquireExclusive
  <2>9. CASE TimeoutExclusive(c) BY <2>9 DEF TimeoutExclusive
  <2>10. CASE LockedCheck(c) BY <2>10 DEF LockedCheck
  <2>11. CASE LockedHit(c) BY <2>11 DEF LockedHit
  <2>12. CASE LockedMiss(c) BY <2>12 DEF LockedMiss
  <2>13. CASE Quarantine(c) BY <2>13 DEF Quarantine
  <2>14. CASE Compile(c) BY <2>14 DEF Compile
  <2>15. CASE CompileRaises(c) BY <2>15 DEF CompileRaises
  <2>16. CASE ReserveTmp(c) BY <2>16 DEF ReserveTmp
  <2>17. CASE WriteTmp(c) BY <2>17 DEF WriteTmp
  <2>18. CASE PublishArtifact(c) BY <2>18 DEF PublishArtifact, Link, AfterExport
  <2>19. CASE ExportFails(c) BY <2>19 DEF ExportFails, AfterExport
  <2>20. CASE Keep(c) BY <2>20 DEF Keep
  <2>21. CASE Unlock(c) BY <2>21 DEF Unlock
  <2>22. CASE QuarantineFails(c) BY <2>22 DEF QuarantineFails
  <2> QED
    BY <1>2, <2>1, <2>2, <2>3, <2>4, <2>5, <2>6, <2>7, <2>8, <2>9, <2>10, <2>11,
       <2>12, <2>13, <2>14, <2>15, <2>16, <2>17, <2>18, <2>19, <2>20, <2>21,
       <2>22 DEF Step
<1>3. ASSUME NEW c \in Caller, CacheCall(c) PROVE CacheTypeOK'
  BY <1>3 DEF CacheCall
<1>4. ASSUME NEW c \in Caller, Discard(c) \/ Crash(c) \/ Restart(c) PROVE CacheTypeOK'
  BY <1>4 DEF Discard, Crash, Restart
<1> QED
  BY <1>1, <1>2, <1>3, <1>4 DEF CacheNext

\* CacheTypeOK: the type invariant of the wrapper, for any set of callers.
THEOREM CacheTypeCorrect == CacheSpec => []CacheTypeOK
<1>1. CacheInit => CacheTypeOK
  BY DEF CacheInit, CacheTypeOK, InCall
<1> QED
  BY <1>1, CacheTypeStep, PTL DEF CacheSpec

-----------------------------------------------------------------------------
\* The program counters agree with who holds the flock, and in which mode.
LEMMA LockStep ==
  CacheTypeOK /\ LockDiscipline /\ [CacheNext]_cacheVars => LockDiscipline'
<1> SUFFICES ASSUME CacheTypeOK, LockDiscipline, [CacheNext]_cacheVars PROVE LockDiscipline'
  OBVIOUS
<1> USE SentinelAssumption
    DEF CacheTypeOK, LockDiscipline, Goto, Loads, LeaveFast, InCall, Locked, Shared,
        Waiting, Solo
<1>1. CASE UNCHANGED cacheVars
  BY <1>1 DEF cacheVars
<1>2. ASSUME NEW c \in Caller, Step(c) PROVE LockDiscipline'
  <2>1. CASE CompileDisabled(c) BY <2>1 DEF CompileDisabled
  <2>2. CASE Probe(c) BY <2>2 DEF Probe
  <2>3. CASE AcquireShared(c) BY <2>3 DEF AcquireShared
  <2>4. CASE TimeoutShared(c) BY <2>4 DEF TimeoutShared
  <2>5. CASE FastCheck(c) BY <2>5 DEF FastCheck
  <2>6. CASE FastHit(c) BY <2>6 DEF FastHit
  <2>7. CASE FastMiss(c) BY <2>7 DEF FastMiss
  <2>8. CASE AcquireExclusive(c) BY <2>8 DEF AcquireExclusive
  <2>9. CASE TimeoutExclusive(c) BY <2>9 DEF TimeoutExclusive
  <2>10. CASE LockedCheck(c) BY <2>10 DEF LockedCheck
  <2>11. CASE LockedHit(c) BY <2>11 DEF LockedHit
  <2>12. CASE LockedMiss(c) BY <2>12 DEF LockedMiss
  <2>13. CASE Quarantine(c) BY <2>13 DEF Quarantine
  <2>14. CASE Compile(c) BY <2>14 DEF Compile
  <2>15. CASE CompileRaises(c) BY <2>15 DEF CompileRaises
  <2>16. CASE ReserveTmp(c) BY <2>16 DEF ReserveTmp
  <2>17. CASE WriteTmp(c) BY <2>17 DEF WriteTmp
  <2>18. CASE PublishArtifact(c) BY <2>18 DEF PublishArtifact, Link, AfterExport
  <2>19. CASE ExportFails(c) BY <2>19 DEF ExportFails, AfterExport
  <2>20. CASE Keep(c) BY <2>20 DEF Keep
  <2>21. CASE Unlock(c) BY <2>21 DEF Unlock
  <2>22. CASE QuarantineFails(c) BY <2>22 DEF QuarantineFails
  <2> QED
    BY <1>2, <2>1, <2>2, <2>3, <2>4, <2>5, <2>6, <2>7, <2>8, <2>9, <2>10, <2>11,
       <2>12, <2>13, <2>14, <2>15, <2>16, <2>17, <2>18, <2>19, <2>20, <2>21,
       <2>22 DEF Step
<1>3. ASSUME NEW c \in Caller, CacheCall(c) PROVE LockDiscipline'
  BY <1>3 DEF CacheCall
<1>4. ASSUME NEW c \in Caller, Discard(c) PROVE LockDiscipline'
  BY <1>4 DEF Discard
<1>5. ASSUME NEW c \in Caller, Crash(c) PROVE LockDiscipline'
  BY <1>5 DEF Crash
<1>6. ASSUME NEW c \in Caller, Restart(c) PROVE LockDiscipline'
  BY <1>6 DEF Restart
<1> QED
  BY <1>1, <1>2, <1>3, <1>4, <1>5, <1>6 DEF CacheNext

\* An object seen under a lock stays until its reader is done with it.
LEMMA SeenStep ==
  CacheTypeOK /\ LockDiscipline /\ SeenObject /\ [CacheNext]_cacheVars => SeenObject'
<1> SUFFICES ASSUME CacheTypeOK, LockDiscipline, SeenObject, [CacheNext]_cacheVars
             PROVE  SeenObject'
  OBVIOUS
<1> USE SentinelAssumption
    DEF CacheTypeOK, LockDiscipline, SeenObject, Goto, Loads, LeaveFast, Locked, Shared
<1>1. CASE UNCHANGED cacheVars
  BY <1>1 DEF cacheVars
<1>2. ASSUME NEW c \in Caller, Step(c) PROVE SeenObject'
  <2>1. CASE CompileDisabled(c) BY <2>1 DEF CompileDisabled
  <2>2. CASE Probe(c) BY <2>2 DEF Probe
  <2>3. CASE AcquireShared(c) BY <2>3 DEF AcquireShared
  <2>4. CASE TimeoutShared(c) BY <2>4 DEF TimeoutShared
  <2>5. CASE FastCheck(c) BY <2>5 DEF FastCheck
  <2>6. CASE FastHit(c) BY <2>6 DEF FastHit
  <2>7. CASE FastMiss(c) BY <2>7 DEF FastMiss
  <2>8. CASE AcquireExclusive(c) BY <2>8 DEF AcquireExclusive
  <2>9. CASE TimeoutExclusive(c) BY <2>9 DEF TimeoutExclusive
  <2>10. CASE LockedCheck(c) BY <2>10 DEF LockedCheck
  <2>11. CASE LockedHit(c) BY <2>11 DEF LockedHit
  <2>12. CASE LockedMiss(c) BY <2>12 DEF LockedMiss
  <2>13. CASE Quarantine(c) BY <2>13 DEF Quarantine
  <2>14. CASE Compile(c) BY <2>14 DEF Compile
  <2>15. CASE CompileRaises(c) BY <2>15 DEF CompileRaises
  <2>16. CASE ReserveTmp(c) BY <2>16 DEF ReserveTmp
  <2>17. CASE WriteTmp(c) BY <2>17 DEF WriteTmp
  <2>18. CASE PublishArtifact(c) BY <2>18 DEF PublishArtifact, Link, AfterExport
  <2>19. CASE ExportFails(c) BY <2>19 DEF ExportFails, AfterExport
  <2>20. CASE Keep(c) BY <2>20 DEF Keep
  <2>21. CASE Unlock(c) BY <2>21 DEF Unlock
  <2>22. CASE QuarantineFails(c) BY <2>22 DEF QuarantineFails
  <2> QED
    BY <1>2, <2>1, <2>2, <2>3, <2>4, <2>5, <2>6, <2>7, <2>8, <2>9, <2>10, <2>11,
       <2>12, <2>13, <2>14, <2>15, <2>16, <2>17, <2>18, <2>19, <2>20, <2>21,
       <2>22 DEF Step
<1>3. ASSUME NEW c \in Caller, CacheCall(c) PROVE SeenObject'
  BY <1>3 DEF CacheCall
<1>4. ASSUME NEW c \in Caller, Discard(c) PROVE SeenObject'
  BY <1>4 DEF Discard
<1>5. ASSUME NEW c \in Caller, Crash(c) PROVE SeenObject'
  BY <1>5 DEF Crash
<1>6. ASSUME NEW c \in Caller, Restart(c) PROVE SeenObject'
  BY <1>6 DEF Restart
<1> QED
  BY <1>1, <1>2, <1>3, <1>4, <1>5, <1>6 DEF CacheNext

\* Until a mishap, compile and publication run only under the exclusive lock.
LEMMA UnhurtStep ==
  CacheTypeOK /\ LockDiscipline /\ SeenObject /\ Unhurt /\ [CacheNext]_cacheVars => Unhurt'
<1> SUFFICES ASSUME CacheTypeOK, LockDiscipline, SeenObject, Unhurt, [CacheNext]_cacheVars
             PROVE  Unhurt'
  OBVIOUS
<1> USE SentinelAssumption
    DEF CacheTypeOK, LockDiscipline, SeenObject, Unhurt, Goto, Loads, LeaveFast, Locked,
        Shared, Solo
<1>1. CASE UNCHANGED cacheVars
  BY <1>1 DEF cacheVars
<1>2. ASSUME NEW c \in Caller, Step(c) PROVE Unhurt'
  <2>1. CASE CompileDisabled(c) BY <2>1 DEF CompileDisabled
  <2>2. CASE Probe(c) BY <2>2 DEF Probe
  <2>3. CASE AcquireShared(c) BY <2>3 DEF AcquireShared
  <2>4. CASE TimeoutShared(c) BY <2>4 DEF TimeoutShared
  <2>5. CASE FastCheck(c) BY <2>5 DEF FastCheck
  <2>6. CASE FastHit(c) BY <2>6 DEF FastHit
  <2>7. CASE FastMiss(c) BY <2>7 DEF FastMiss
  <2>8. CASE AcquireExclusive(c) BY <2>8 DEF AcquireExclusive
  <2>9. CASE TimeoutExclusive(c) BY <2>9 DEF TimeoutExclusive
  <2>10. CASE LockedCheck(c) BY <2>10 DEF LockedCheck
  <2>11. CASE LockedHit(c) BY <2>11 DEF LockedHit
  <2>12. CASE LockedMiss(c) BY <2>12 DEF LockedMiss
  <2>13. CASE Quarantine(c) BY <2>13 DEF Quarantine
  <2>14. CASE Compile(c) BY <2>14 DEF Compile
  <2>15. CASE CompileRaises(c) BY <2>15 DEF CompileRaises
  <2>16. CASE ReserveTmp(c) BY <2>16 DEF ReserveTmp
  <2>17. CASE WriteTmp(c) BY <2>17 DEF WriteTmp
  <2>18. CASE PublishArtifact(c) BY <2>18 DEF PublishArtifact, Link, AfterExport
  <2>19. CASE ExportFails(c) BY <2>19 DEF ExportFails, AfterExport
  <2>20. CASE Keep(c) BY <2>20 DEF Keep
  <2>21. CASE Unlock(c) BY <2>21 DEF Unlock
  <2>22. CASE QuarantineFails(c) BY <2>22 DEF QuarantineFails
  <2> QED
    BY <1>2, <2>1, <2>2, <2>3, <2>4, <2>5, <2>6, <2>7, <2>8, <2>9, <2>10, <2>11,
       <2>12, <2>13, <2>14, <2>15, <2>16, <2>17, <2>18, <2>19, <2>20, <2>21,
       <2>22 DEF Step
<1>3. ASSUME NEW c \in Caller, CacheCall(c) PROVE Unhurt'
  BY <1>3 DEF CacheCall
<1>4. ASSUME NEW c \in Caller, Discard(c) PROVE Unhurt'
  BY <1>4 DEF Discard
<1>5. ASSUME NEW c \in Caller, Crash(c) PROVE Unhurt'
  BY <1>5 DEF Crash
<1>6. ASSUME NEW c \in Caller, Restart(c) PROVE Unhurt'
  BY <1>6 DEF Restart
<1> QED
  BY <1>1, <1>2, <1>3, <1>4, <1>5, <1>6 DEF CacheNext

\* Until a mishap, a recorded compile is published or about to be.
LEMMA BankedStep ==
  CacheTypeOK /\ LockDiscipline /\ SeenObject /\ Unhurt /\ CompilesAreBanked
  /\ [CacheNext]_cacheVars => CompilesAreBanked'
<1> SUFFICES ASSUME CacheTypeOK, LockDiscipline, SeenObject, Unhurt, CompilesAreBanked,
                    [CacheNext]_cacheVars
             PROVE  CompilesAreBanked'
  OBVIOUS
<1> USE SentinelAssumption
    DEF CacheTypeOK, LockDiscipline, SeenObject, Unhurt, CompilesAreBanked, Goto, Loads,
        LeaveFast, Locked, Shared, Solo
<1>1. CASE UNCHANGED cacheVars
  BY <1>1 DEF cacheVars
<1>2. ASSUME NEW c \in Caller, Step(c) PROVE CompilesAreBanked'
  <2>1. CASE CompileDisabled(c) BY <2>1 DEF CompileDisabled
  <2>2. CASE Probe(c) BY <2>2 DEF Probe
  <2>3. CASE AcquireShared(c) BY <2>3 DEF AcquireShared
  <2>4. CASE TimeoutShared(c) BY <2>4 DEF TimeoutShared
  <2>5. CASE FastCheck(c) BY <2>5 DEF FastCheck
  <2>6. CASE FastHit(c) BY <2>6 DEF FastHit
  <2>7. CASE FastMiss(c) BY <2>7 DEF FastMiss
  <2>8. CASE AcquireExclusive(c) BY <2>8 DEF AcquireExclusive
  <2>9. CASE TimeoutExclusive(c) BY <2>9 DEF TimeoutExclusive
  <2>10. CASE LockedCheck(c) BY <2>10 DEF LockedCheck
  <2>11. CASE LockedHit(c) BY <2>11 DEF LockedHit
  <2>12. CASE LockedMiss(c) BY <2>12 DEF LockedMiss
  <2>13. CASE Quarantine(c) BY <2>13 DEF Quarantine
  <2>14. CASE Compile(c) BY <2>14 DEF Compile
  <2>15. CASE CompileRaises(c) BY <2>15 DEF CompileRaises
  <2>16. CASE ReserveTmp(c) BY <2>16 DEF ReserveTmp
  <2>17. CASE WriteTmp(c) BY <2>17 DEF WriteTmp
  <2>18. CASE PublishArtifact(c) BY <2>18 DEF PublishArtifact, Link, AfterExport
  <2>19. CASE ExportFails(c) BY <2>19 DEF ExportFails, AfterExport
  <2>20. CASE Keep(c) BY <2>20 DEF Keep
  <2>21. CASE Unlock(c) BY <2>21 DEF Unlock
  <2>22. CASE QuarantineFails(c) BY <2>22 DEF QuarantineFails
  <2> QED
    BY <1>2, <2>1, <2>2, <2>3, <2>4, <2>5, <2>6, <2>7, <2>8, <2>9, <2>10, <2>11,
       <2>12, <2>13, <2>14, <2>15, <2>16, <2>17, <2>18, <2>19, <2>20, <2>21,
       <2>22 DEF Step
<1>3. ASSUME NEW c \in Caller, CacheCall(c) PROVE CompilesAreBanked'
  BY <1>3 DEF CacheCall
<1>4. ASSUME NEW c \in Caller, Discard(c) PROVE CompilesAreBanked'
  BY <1>4 DEF Discard
<1>5. ASSUME NEW c \in Caller, Crash(c) PROVE CompilesAreBanked'
  BY <1>5 DEF Crash
<1>6. ASSUME NEW c \in Caller, Restart(c) PROVE CompilesAreBanked'
  BY <1>6 DEF Restart
<1> QED
  BY <1>1, <1>2, <1>3, <1>4, <1>5, <1>6 DEF CacheNext

\* Until a mishap, the step that records a compile finds no other author.
LEMMA AuthorStep ==
  CacheTypeOK /\ LockDiscipline /\ Unhurt /\ CompilesAreBanked /\ OneAuthor
  /\ [CacheNext]_cacheVars => OneAuthor'
<1> SUFFICES ASSUME CacheTypeOK, LockDiscipline, Unhurt, CompilesAreBanked, OneAuthor,
                    [CacheNext]_cacheVars
             PROVE  OneAuthor'
  OBVIOUS
<1> USE SentinelAssumption
    DEF CacheTypeOK, LockDiscipline, Unhurt, CompilesAreBanked, OneAuthor, Goto,
        LeaveFast, Locked, Solo
<1>1. CASE UNCHANGED cacheVars
  BY <1>1 DEF cacheVars
<1>2. ASSUME NEW c \in Caller, Step(c) PROVE OneAuthor'
  <2>1. CASE CompileDisabled(c) BY <2>1 DEF CompileDisabled
  <2>2. CASE Probe(c) BY <2>2 DEF Probe
  <2>3. CASE AcquireShared(c) BY <2>3 DEF AcquireShared
  <2>4. CASE TimeoutShared(c) BY <2>4 DEF TimeoutShared
  <2>5. CASE FastCheck(c) BY <2>5 DEF FastCheck
  <2>6. CASE FastHit(c) BY <2>6 DEF FastHit
  <2>7. CASE FastMiss(c) BY <2>7 DEF FastMiss
  <2>8. CASE AcquireExclusive(c) BY <2>8 DEF AcquireExclusive
  <2>9. CASE TimeoutExclusive(c) BY <2>9 DEF TimeoutExclusive
  <2>10. CASE LockedCheck(c) BY <2>10 DEF LockedCheck
  <2>11. CASE LockedHit(c) BY <2>11 DEF LockedHit
  <2>12. CASE LockedMiss(c) BY <2>12 DEF LockedMiss
  <2>13. CASE Quarantine(c) BY <2>13 DEF Quarantine
  <2>14. CASE Compile(c) BY <2>14 DEF Compile
  <2>15. CASE CompileRaises(c) BY <2>15 DEF CompileRaises
  <2>16. CASE ReserveTmp(c) BY <2>16 DEF ReserveTmp
  <2>17. CASE WriteTmp(c) BY <2>17 DEF WriteTmp
  <2>18. CASE PublishArtifact(c) BY <2>18 DEF PublishArtifact, Link, AfterExport
  <2>19. CASE ExportFails(c) BY <2>19 DEF ExportFails, AfterExport
  <2>20. CASE Keep(c) BY <2>20 DEF Keep
  <2>21. CASE Unlock(c) BY <2>21 DEF Unlock
  <2>22. CASE QuarantineFails(c) BY <2>22 DEF QuarantineFails
  <2> QED
    BY <1>2, <2>1, <2>2, <2>3, <2>4, <2>5, <2>6, <2>7, <2>8, <2>9, <2>10, <2>11,
       <2>12, <2>13, <2>14, <2>15, <2>16, <2>17, <2>18, <2>19, <2>20, <2>21,
       <2>22 DEF Step
<1>3. ASSUME NEW c \in Caller, CacheCall(c) PROVE OneAuthor'
  BY <1>3 DEF CacheCall
<1>4. ASSUME NEW c \in Caller, Discard(c) PROVE OneAuthor'
  BY <1>4 DEF Discard
<1>5. ASSUME NEW c \in Caller, Crash(c) PROVE OneAuthor'
  BY <1>5 DEF Crash
<1>6. ASSUME NEW c \in Caller, Restart(c) PROVE OneAuthor'
  BY <1>6 DEF Restart
<1> QED
  BY <1>1, <1>2, <1>3, <1>4, <1>5, <1>6 DEF CacheNext

-----------------------------------------------------------------------------
\* The strengthened invariant holds initially and is kept by every step.
LEMMA CacheInvariant == CacheSpec => []CacheInv
<1>1. CacheInit => CacheInv
  BY SentinelAssumption
  DEF CacheInit, CacheInv, CacheTypeOK, InCall, Locked, Shared, Waiting, Solo, LockDiscipline,
      SeenObject, Unhurt, CompilesAreBanked, OneAuthor
<1>2. CacheInv /\ [CacheNext]_cacheVars => CacheInv'
  BY CacheTypeStep, LockStep, SeenStep, UnhurtStep, BankedStep, AuthorStep DEF CacheInv
<1> QED
  BY <1>1, <1>2, PTL DEF CacheSpec

\* LoadsFindTheirFile: the existence check under a flock is never stale.
THEOREM LoadsAreSafe == CacheSpec => []LoadsFindTheirFile
<1>1. CacheInv => LoadsFindTheirFile
  BY DEF CacheInv, SeenObject, LoadsFindTheirFile
<1> QED
  BY <1>1, CacheInvariant, PTL

\* OneAuthor: without mishaps a key is compiled by at most one caller.
THEOREM CompileOnce == CacheSpec => []OneAuthor
<1>1. CacheInv => OneAuthor
  BY DEF CacheInv
<1> QED
  BY <1>1, CacheInvariant, PTL

\* CompilesAreBanked: without mishaps a finished compile is on disk.
THEOREM Banked == CacheSpec => []CompilesAreBanked
<1>1. CacheInv => CompilesAreBanked
  BY DEF CacheInv
<1> QED
  BY <1>1, CacheInvariant, PTL

\* SoundObjectStays: no step replaces or deletes a sound object.
THEOREM SoundObjectsStay == CacheSpec => SoundObjectStays
<1>1. CacheInv
  /\ [CacheNext]_cacheVars => [~FlakyLoad /\ obj \in Caller => obj' = obj]_cacheVars
  <2> SUFFICES ASSUME CacheInv, [CacheNext]_cacheVars, ~FlakyLoad, obj \in Caller
               PROVE  obj' = obj
    OBVIOUS
  <2>1. CASE UNCHANGED cacheVars
    BY <2>1 DEF cacheVars
  <2>2. ASSUME NEW c \in Caller, Step(c) PROVE obj' = obj
    <3>1. CASE Quarantine(c)
      BY <3>1, SentinelAssumption DEF Quarantine, CacheInv, SeenObject
    <3>2. CASE PublishArtifact(c)
      BY <3>2, SentinelAssumption DEF PublishArtifact, Link
    <3> QED
      BY <2>2, <3>1, <3>2
      DEF Step, CompileDisabled, Probe, AcquireShared, TimeoutShared, FastCheck,
          FastHit, FastMiss, AcquireExclusive, TimeoutExclusive, LockedCheck,
          LockedHit, LockedMiss, Compile, CompileRaises, ReserveTmp, WriteTmp,
          ExportFails, Keep, Unlock, QuarantineFails
  <2>3. ASSUME NEW c \in Caller, CacheCall(c) \/ Discard(c) \/ Crash(c) \/ Restart(c)
        PROVE  obj' = obj
    BY <2>3 DEF CacheCall, Discard, Crash, Restart
  <2> QED
    BY <2>1, <2>2, <2>3 DEF CacheNext
<1> QED
  BY <1>1, CacheInvariant, PTL DEF CacheSpec, SoundObjectStays

\* StoreSpec: provided sound objects load, every step of the wrapper is a step
\* of ArtifactStore or invisible to it.
THEOREM ImplementsStore == ASSUME ~FlakyLoad PROVE CacheSpec => StoreSpec
<1>1. CacheInit => Store!AInit
  BY DEF CacheInit, Store!AInit
<1>2. CacheInv /\ [CacheNext]_cacheVars => [Store!ANext]_Store!avars
  <2> SUFFICES ASSUME CacheInv, [CacheNext]_cacheVars
               PROVE  Store!ANext \/ UNCHANGED <<obj, mem>>
    BY DEF Store!avars
  <2>1. CASE UNCHANGED cacheVars
    BY <2>1 DEF cacheVars
  <2>2. ASSUME NEW c \in Caller, Step(c)
        PROVE  Store!ANext \/ UNCHANGED <<obj, mem>>
    <3>1. CASE Quarantine(c)
      BY <3>1 DEF Quarantine, CacheInv, SeenObject, Store!ANext, Store!Quarantine
    <3>2. CASE PublishArtifact(c)
      BY <3>2 DEF PublishArtifact, Link, Store!ANext, Store!Publish
    <3>3. CASE FastHit(c) \/ LockedHit(c)
      <4>1. /\ mem' = [mem EXCEPT ![c] = obj]
            /\ obj \in Caller
            /\ obj' = obj
        BY <3>3 DEF FastHit, LockedHit, Loads
      <4> QED
        BY <4>1 DEF Store!ANext, Store!Obtain
    <3>4. CASE Keep(c) \/ CompileDisabled(c)
      <4>1. /\ mem' = [mem EXCEPT ![c] = c] \/ mem' = mem
            /\ obj' = obj
        BY <3>4 DEF Keep, CompileDisabled
      <4> QED
        BY <4>1 DEF Store!ANext, Store!Obtain
    <3> QED
      BY <2>2, <3>1, <3>2, <3>3, <3>4
      DEF Step, Probe, AcquireShared, TimeoutShared, FastCheck, FastMiss,
          AcquireExclusive, TimeoutExclusive, LockedCheck, LockedMiss, Compile,
          CompileRaises, ReserveTmp, WriteTmp, ExportFails, Unlock, QuarantineFails
  <2>3. ASSUME NEW c \in Caller, Discard(c) \/ Crash(c)
        PROVE  Store!ANext
    BY <2>3 DEF Discard, Crash, Store!ANext, Store!Forget
  <2>4. ASSUME NEW c \in Caller, CacheCall(c) \/ Restart(c)
        PROVE  UNCHANGED <<obj, mem>>
    BY <2>4 DEF CacheCall, Restart
  <2> QED
    BY <2>1, <2>2, <2>3, <2>4 DEF CacheNext
<1> QED
  BY <1>1, <1>2, CacheInvariant, PTL DEF CacheSpec, StoreSpec, Store!ASpec
==============================================================================
