---------------------------- MODULE HostDispatch ----------------------------
(***************************************************************************)
(* The host side of a GEMM call, from the variant functions down to the    *)
(* launch (gemm_interface.py, gemm_iface.py, gemm.py, gemm_symmetric.py,   *)
(* epilogue/frontend.py, gemm_runtime/).  A call is served by three layers *)
(* that each remember what the one below decided:                          *)
(*   outer plans   one per metadata key of the public function: a hit      *)
(*                 launches at once, without checks or tuner;              *)
(*   resolution    the Autotuner's winner for the key, or a fallback;      *)
(*   inner plans   one per metadata key of the dispatch layer: the         *)
(*                 compiled kernel and what its launch bakes in.           *)
(* One process calls, one call at a time; its peers publish winner files   *)
(* and contract winners at any moment.  Tensors are their metadata class.  *)
(***************************************************************************)
EXTENDS Integers, FiniteSets

CONSTANTS
    Programs,    \* the sets of calls a program repeats
    Config,      \* kernel configurations [tile, swap, dyn, split]
    Square,      \* the fixed configuration of the symmetric GEMM, by arch
    Ranked,      \* the analytical ranker's configuration
    Library,     \* the vendor heuristic's configuration
    Default,     \* the per-arch default configuration
    NoConfig,
    Archs,       \* device generations: 8, 9, 10, 11, 12
    Budgets,     \* multiprocessors the process allows itself; 0 is the device
    MaxCalls     \* bound: calls of one run

Calls == UNION Programs
Fronts == {"gemm", "add", "symmetric", "epi"}
Tunings == {"TUNED", "RUNNING", "STATIC"}
CallSet ==
    [front : Fronts,
     shape : STRING,           \* shapes, strides, types and device of A, B, out
     rank2 : BOOLEAN,          \* unbatched operands
     ragged : {"no", "m", "k"},\* cu_seqlens_m / cu_seqlens_k given
     gather : BOOLEAN,         \* A_idx given
     concat : BOOLEAN,         \* concat_layout given
     traced : BOOLEAN,         \* under torch.compile
     bias : {"none", "vector", "batched"},
     c : {"none", "tensor", "out"},
     alpha : 0 .. 2, beta : 0 .. 2,          \* scalar_mode: 1.0, float, tensor
     seed : {"nearest", "int", "tensor"},    \* rounding mode and seed form
     split : Nat,              \* split_k; 0 is None, the tuner chooses
     separate : BOOLEAN,       \* SplitKMode.SEPARATE
     dynamic : BOOLEAN, mode : Tunings,
     pin : Config \cup {NoConfig},           \* config= of the caller
     sink : BOOLEAN,           \* the epilogue has a reduce sink of its own
     width : Nat,              \* an int epilogue operand, constexpr in the kernel
     empty : {"no", "out", "k"}]             \* M or N is 0; K is 0

ConfigSet == [tile : Nat, swap : BOOLEAN, dyn : BOOLEAN, split : Nat \ {0}]

\* What the signatures of the fronts allow: only an epilogue call takes a
\* configuration, plain gemm takes no C, the symmetric GEMM is dense.  The traced
\* epilogue call (gemm_runtime/torch_op.py) is not modelled.
Admissible(c) ==
    /\ c.pin # NoConfig => c.front = "epi"
    /\ c.front = "epi" => (~c.traced /\ c.split = 1 /\ ~c.separate)
    /\ c.front = "gemm" => (c.c = "none" /\ c.beta = 0)
    /\ c.front = "symmetric" => (/\ c.ragged = "no" /\ ~c.gather /\ ~c.concat
                                 /\ c.seed = "nearest" /\ c.bias = "none")
Call == {c \in CallSet : Admissible(c)}

ASSUME DispatchAssumption ==
    /\ Calls \subseteq Call
    /\ Config \subseteq ConfigSet
    /\ Archs \subseteq 8 .. 12
    /\ Square \in [Archs -> Config]
    /\ {Ranked, Library, Default} \subseteq Config
    /\ NoConfig \notin Config
    /\ MaxCalls \in Nat

VARIABLES
    arch,        \* get_device_capacity, the same for ever
    program,     \* the calls this program makes
    budget,      \* set_num_sms
    winner,      \* the Autotuner's memory of winners, by tuner key
    published,   \* the winner files, by tuner key
    transferred, \* the contract winner file, by operator
    reused,      \* _reuse_resolved: contract winners taken for a key
    measured,    \* operators RUNNING has measured (_measured_contracts)
    outer,       \* interface plans and call recipes, by outer key
    inner,       \* dispatch plans, by inner key
    cur,         \* the call in progress
    done,        \* the last launch
    calls        \* calls begun

tuning == <<winner, published, transferred, reused, measured>>
vars == <<arch, program, budget, winner, published, transferred, reused, measured,
          outer, inner, cur, done, calls>>

Known(f, k) == IF k \in DOMAIN f THEN f[k] ELSE NoConfig
Put(f, k, v) == [x \in DOMAIN f \cup {k} |-> IF x = k THEN v ELSE f[x]]
Nowhere == [x \in {} |-> NoConfig]

(***************************************************************************)
(* What a call asks of a configuration.                                    *)
(***************************************************************************)
Op(c) == IF c.front = "add" THEN "gemm" ELSE c.front
Ragged(c) == c.ragged # "no"
AddsToOut(c) == c.front = "add" /\ c.c = "out" /\ c.beta = 0 /\ c.ragged # "m"
Pure(c) == ~Ragged(c) /\ ~c.gather /\ c.c = "none" /\ c.bias = "none" /\ ~AddsToOut(c)
SplitOf(c, g) == IF c.front \in {"symmetric", "epi"} THEN 1
                 ELSE IF c.split = 0 THEN g.split ELSE c.split
Dynamic(c, g) == IF c.front = "symmetric" THEN arch >= 10 ELSE c.dynamic \/ g.dyn
Semaphore(c, g) == Dynamic(c, g) /\ arch = 9
Staged(c, g) == SplitOf(c, g) > 1 /\ c.separate

\* The views of the operands: B native (k, n), rank 2 kept, A and B exchanged,
\* output transposed.
NativeB(c, g) ==
    /\ arch >= 9 /\ ~c.concat /\ c.front # "symmetric"
    /\ c.front # "epi" => ~Ragged(c) /\ ~g.swap
Rank2(c, g) ==
    /\ arch >= 9 /\ c.rank2 /\ ~Ragged(c) /\ ~c.concat
    /\ SplitOf(c, g) = 1 /\ c.front # "epi"
Views(c, g) == [native |-> NativeB(c, g), rank2 |-> Rank2(c, g), swap |-> g.swap]
BiasPort(c, g) == IF c.bias = "none" THEN "none" ELSE IF g.swap THEN "col" ELSE "row"
\* What crosses as the C operand: nothing when the store adds to the output,
\* except on SM8x, where the output is read as C.
OutAsC(c) == AddsToOut(c) /\ arch = 8
GivenC(c) == c.c # "none" /\ ~AddsToOut(c)

\* What the plan build refuses (asserts and ValueErrors).
Accepts(c, g) ==
    /\ c.ragged = "m" => ~g.swap
    /\ c.gather => Ragged(c)
    /\ SplitOf(c, g) > 1 => ~Ragged(c) /\ ~c.gather /\ c.seed = "nearest" /\ arch >= 9
    /\ Dynamic(c, g) /\ arch <= 9 => Semaphore(c, g)
    /\ c.front = "epi" /\ g.swap => NativeB(c, g) /\ ~Ragged(c) /\ ~c.sink

(***************************************************************************)
(* Plans.  The kernel is what is compiled and validated: SEPARATE split-K  *)
(* leaves the whole epilogue to the reduction kernel.  The grid is the SM  *)
(* budget of the build; the width is a constexpr of the epilogue.          *)
(***************************************************************************)

\* Variation: SEPARATE split-K leaves the bias in the GEMM.
KernelKeepsBias(c, g) ==
    LET bare == Staged(c, g) IN
    [op |-> Op(c), shape |-> c.shape, views |-> Views(c, g), tile |-> g.tile,
     ragged |-> c.ragged, gather |-> c.gather, concat |-> c.concat,
     dynamic |-> Dynamic(c, g), semaphore |-> Semaphore(c, g),
     c |-> ~bare /\ (GivenC(c) \/ OutAsC(c)),
     accumulate |-> ~bare /\ AddsToOut(c) /\ ~OutAsC(c),
     bias |-> BiasPort(c, g),
     alpha |-> IF bare THEN 0 ELSE c.alpha,
     beta |-> IF bare THEN 0 ELSE c.beta,
     seed |-> IF bare THEN "nearest" ELSE c.seed,
     split |-> SplitOf(c, g), staged |-> bare]

Kernel(c, g) ==
    LET bare == Staged(c, g) IN
    [op |-> Op(c), shape |-> c.shape, views |-> Views(c, g), tile |-> g.tile,
     ragged |-> c.ragged, gather |-> c.gather, concat |-> c.concat,
     dynamic |-> Dynamic(c, g), semaphore |-> Semaphore(c, g),
     c |-> ~bare /\ (GivenC(c) \/ OutAsC(c)),
     accumulate |-> ~bare /\ AddsToOut(c) /\ ~OutAsC(c),
     bias |-> IF bare THEN "none" ELSE BiasPort(c, g),
     alpha |-> IF bare THEN 0 ELSE c.alpha,
     beta |-> IF bare THEN 0 ELSE c.beta,
     seed |-> IF bare THEN "nearest" ELSE c.seed,
     split |-> SplitOf(c, g), staged |-> bare]

BuildPlan(c, g) ==
    [kernel |-> Kernel(c, g), reducesOut |-> AddsToOut(c) /\ ~OutAsC(c),
     width |-> c.width, grid |-> budget]

InnerKey(c, g) ==
    [op |-> Op(c), shape |-> c.shape, views |-> Views(c, g), tile |-> g.tile,
     c |-> GivenC(c), bias |-> <<c.bias, BiasPort(c, g)>>,
     ragged |-> c.ragged, gather |-> c.gather, concat |-> c.concat,
     semaphore |-> IF c.front = "symmetric" THEN c.dynamic ELSE Semaphore(c, g),
     dynamic |-> Dynamic(c, g),
     addsToOut |-> AddsToOut(c), alpha |-> c.alpha, beta |-> c.beta, seed |-> c.seed,
     split |-> SplitOf(c, g), separate |-> c.separate, width |-> c.width]

\* Which calls have an outer plan, and what its key names.
Keyed(c) ==
    /\ c.front # "add" /\ ~c.traced
    /\ c.front \in {"gemm", "epi"} => ~c.concat
    /\ c.front = "gemm" => ~Ragged(c) /\ ~c.gather

Metadata(c) == <<c.front, c.shape, c.rank2, c.bias, c.c, c.dynamic>>
\* Variation: the scalar modes are left to the dispatch layer's key.
GemmKeyNoScalars(c) == <<Metadata(c), c.mode, c.seed, c.split, c.separate>>

GemmKey(c) == <<Metadata(c), c.mode, c.alpha, c.seed, c.split, c.separate>>
SymmetricKey(c) == <<Metadata(c), c.alpha, c.beta>>
CallKey(c) == <<Metadata(c), c.mode, c.alpha, c.beta, c.seed, c.ragged, c.gather,
                c.sink, c.pin, IF c.width = 0 THEN "absent" ELSE "present">>

OuterKey(c) ==
    IF c.front = "gemm" THEN GemmKey(c)
    ELSE IF c.front = "symmetric" THEN SymmetricKey(c) ELSE CallKey(c)

TunerKey(c) ==
    <<Op(c), c.shape, c.rank2, c.bias, GivenC(c), c.ragged, c.gather, c.dynamic,
      c.split, c.separate, IF c.front = "epi" THEN c.concat ELSE FALSE>>
Tuned(c) == /\ c.front # "symmetric" /\ c.pin = NoConfig
            /\ c.front = "epi" => c.seed = "nearest"
Space(c) == {g \in Config : Accepts(c, g) /\ (c.split # 0 => g.split = 1)}

(***************************************************************************)
(* The call in progress.                                                   *)
(***************************************************************************)
Idle == [stage |-> "idle"]
NoLaunch == [stage |-> "none"]

Init ==
    /\ arch \in Archs /\ program \in Programs
    /\ budget = 0
    /\ winner = Nowhere /\ published = Nowhere /\ transferred = Nowhere
    /\ reused = Nowhere /\ measured = {}
    /\ outer = Nowhere /\ inner = Nowhere
    /\ cur = Idle /\ done = NoLaunch /\ calls = 0

\* What is launched: the plan, the views of the operands, the tile the sink
\* buffers were cut for.
Launch(c, g, plan, views, sinkTile, source, known, replayed) ==
    [stage |-> "launched", call |-> c, config |-> g, plan |-> plan, views |-> views,
     sinkTile |-> sinkTile, sms |-> budget, source |-> source, known |-> known, replayed |-> replayed]

Starts(c) ==
    /\ cur = Idle /\ calls < MaxCalls
    /\ c \in program
    /\ calls' = calls + 1

\* The winner any reader of the files would use for this call.
Visible(c) ==
    IF ~Tuned(c) THEN NoConfig
    ELSE IF TunerKey(c) \in DOMAIN winner THEN winner[TunerKey(c)]
    ELSE Known(published, TunerKey(c))

\* A plan hit: straight to the launch.  gemm() derives the views again from the
\* captured configuration, the others replay the captured views.
Replay(c) ==
    LET e == outer[OuterKey(c)] IN
    /\ Starts(c) /\ Keyed(c) /\ OuterKey(c) \in DOMAIN outer
    /\ done' = Launch(c, e.config, e.plan,
                      IF c.front = "gemm" THEN Views(c, e.config) ELSE e.views,
                      e.sinkTile, e.source, Visible(c), TRUE)
    /\ UNCHANGED <<arch, program, budget, tuning, outer, inner, cur>>

Missed(c) == ~(Keyed(c) /\ OuterKey(c) \in DOMAIN outer)

\* Nothing to multiply: no launch, and no plan is recorded.
ReturnEmpty(c) ==
    /\ Starts(c) /\ Missed(c) /\ c.empty # "no"
    /\ done' = NoLaunch
    /\ UNCHANGED <<arch, program, budget, tuning, outer, inner, cur>>

Begin(c) ==
    /\ Starts(c) /\ Missed(c) /\ c.empty = "no"
    /\ cur' = [stage |-> "resolve", call |-> c, known |-> Visible(c)]
    /\ done' = NoLaunch
    /\ UNCHANGED <<arch, program, budget, tuning, outer, inner>>

Resolved(g, source) ==
    cur' = [stage |-> "dispatch", call |-> cur.call, known |-> cur.known,
            config |-> g, source |-> source]

(***************************************************************************)
(* Resolution.                                                             *)
(***************************************************************************)
\* No tuner: a fixed square tile, the caller's configuration, the default.
Untuned ==
    LET c == cur.call IN
    /\ cur.stage = "resolve" /\ ~Tuned(c)
    /\ Resolved(IF c.front = "symmetric" THEN Square[arch]
                ELSE IF c.pin # NoConfig THEN c.pin
                ELSE IF arch = 9 /\ Ragged(c) /\ ~c.gather THEN Ranked ELSE Default,
                "fixed")
    /\ UNCHANGED <<arch, program, budget, tuning, outer, inner, done, calls>>

Asks == cur.stage = "resolve" /\ Tuned(cur.call)
K == TunerKey(cur.call)
NoWinner == K \notin DOMAIN winner /\ K \notin DOMAIN published

MemoryHit ==
    /\ Asks /\ K \in DOMAIN winner
    /\ Resolved(winner[K], "winner")
    /\ UNCHANGED <<arch, program, budget, tuning, outer, inner, done, calls>>

DiskHit ==
    /\ Asks /\ K \notin DOMAIN winner /\ K \in DOMAIN published
    /\ winner' = Put(winner, K, published[K])
    /\ transferred' = Put(transferred, Op(cur.call), published[K])
    /\ Resolved(published[K], "winner")
    /\ UNCHANGED <<arch, program, budget, published, reused, measured,
                   outer, inner, done, calls>>

\* A contract winner taken earlier answers while no winner file exists.
ReuseMemo ==
    /\ Asks /\ NoWinner /\ K \in DOMAIN reused /\ cur.call.mode # "TUNED"
    /\ Resolved(reused[K], "reused")
    /\ UNCHANGED <<arch, program, budget, tuning, outer, inner, done, calls>>

Measures ==
    /\ Asks /\ NoWinner
    /\ \/ cur.call.mode = "TUNED"
       \/ cur.call.mode = "RUNNING" /\ K \notin DOMAIN reused
                                    /\ Op(cur.call) \notin measured

\* The sweep builds a dispatch plan per candidate it times, and the best one
\* becomes the winner in memory and on disk.
Sweep ==
    /\ Measures
    /\ \E g \in Space(cur.call) :
         /\ winner' = Put(winner, K, g)
         /\ published' = Put(published, K, g)
         /\ transferred' = Put(transferred, Op(cur.call), g)
         /\ Resolved(g, "winner")
    /\ measured' = measured \cup {Op(cur.call)}
    /\ LET keys == {InnerKey(cur.call, g) : g \in Space(cur.call)} IN
       inner' = [k \in DOMAIN inner \cup keys |->
                   IF k \in DOMAIN inner THEN inner[k]
                   ELSE BuildPlan(cur.call,
                                  CHOOSE g \in Space(cur.call) : InnerKey(cur.call, g) = k)]
    /\ UNCHANGED <<arch, program, budget, reused, outer, done, calls>>

\* Every candidate failed: the call raises.
SweepFails ==
    /\ Measures
    /\ cur' = Idle /\ done' = NoLaunch
    /\ UNCHANGED <<arch, program, budget, tuning, outer, inner, calls>>

Misses == Asks /\ NoWinner /\ K \notin DOMAIN reused /\ ~Measures

\* Another bucket's winner of the same operator contract, if it can run here.
Reuse ==
    LET g == Known(transferred, Op(cur.call)) IN
    /\ Misses /\ g \in Space(cur.call)
    /\ reused' = Put(reused, K, g)
    /\ Resolved(g, "reused")
    /\ UNCHANGED <<arch, program, budget, winner, published, transferred, measured,
                   outer, inner, done, calls>>

FallbackConfig(c) ==
    IF c.front # "epi" /\ Pure(c) THEN Library
    ELSE IF arch = 9 /\ ~c.gather /\ Ragged(c) THEN Ranked ELSE Default

\* The epilogue's own default call takes the tile from its parameters' defaults
\* and hands no scheduler flag down.
Delegated(c) ==
    IF c.front = "epi" /\ ~c.sink /\ FallbackConfig(c) # Ranked
    THEN [c EXCEPT !.dynamic = FALSE] ELSE c

Fallback ==
    /\ Misses /\ Known(transferred, Op(cur.call)) \notin Space(cur.call)
    /\ cur' = [stage |-> "dispatch", call |-> Delegated(cur.call), known |-> cur.known,
               config |-> FallbackConfig(cur.call), source |-> "fallback"]
    /\ UNCHANGED <<arch, program, budget, tuning, outer, inner, done, calls>>

(***************************************************************************)
(* Dispatch and record.                                                    *)
(***************************************************************************)
Refuse ==
    /\ cur.stage = "dispatch" /\ ~Accepts(cur.call, cur.config)
    /\ InnerKey(cur.call, cur.config) \notin DOMAIN inner
    /\ cur' = Idle /\ done' = NoLaunch
    /\ UNCHANGED <<arch, program, budget, tuning, outer, inner, calls>>

Run(plan) ==
    /\ done' = Launch(cur.call, cur.config, plan, Views(cur.call, cur.config),
                      cur.config.tile, cur.source, cur.known, FALSE)
    /\ cur' = [cur EXCEPT !.stage = "record"]

DispatchHit ==
    LET k == InnerKey(cur.call, cur.config) IN
    /\ cur.stage = "dispatch" /\ k \in DOMAIN inner
    /\ Run(inner[k])
    /\ UNCHANGED <<arch, program, budget, tuning, outer, inner, calls>>

DispatchMiss ==
    LET k == InnerKey(cur.call, cur.config)
        plan == BuildPlan(cur.call, cur.config) IN
    /\ cur.stage = "dispatch" /\ k \notin DOMAIN inner
    /\ Accepts(cur.call, cur.config)
    /\ inner' = Put(inner, k, plan)
    /\ Run(plan)
    /\ UNCHANGED <<arch, program, budget, tuning, outer, calls>>

\* Variation: the recipe keeps the worst-case sink shape of the sweep.
EntryWorstCase ==
    [plan |-> done.plan, config |-> cur.config, views |-> done.views,
     sinkTile |-> (CHOOSE g \in Config : \A h \in Config : g.tile <= h.tile).tile,
     source |-> cur.source]

Entry == [plan |-> done.plan, config |-> cur.config, views |-> done.views,
          sinkTile |-> done.sinkTile, source |-> cur.source]

\* Variation: every resolved call is recorded.
RecordsAll == Keyed(cur.call)

\* A fallback is never recorded: its plan would hide a later winner.
Records == Keyed(cur.call) /\ cur.source # "fallback"

Record ==
    /\ cur.stage = "record"
    /\ outer' = IF Records THEN Put(outer, OuterKey(cur.call), Entry) ELSE outer
    /\ cur' = Idle
    /\ UNCHANGED <<arch, program, budget, tuning, inner, done, calls>>

(***************************************************************************)
(* Around the process.                                                     *)
(***************************************************************************)
PeerPublishes(c) ==
    /\ Tuned(c) /\ TunerKey(c) \notin DOMAIN published
    /\ \E g \in Space(c) : published' = Put(published, TunerKey(c), g)
    /\ UNCHANGED <<arch, program, budget, winner, transferred, reused, measured,
                   outer, inner, cur, done, calls>>

PeerTransfers(c) ==
    /\ Tuned(c) /\ Op(c) \notin DOMAIN transferred
    /\ \E g \in Config : transferred' = Put(transferred, Op(c), g)
    /\ UNCHANGED <<arch, program, budget, winner, published, reused, measured,
                   outer, inner, cur, done, calls>>

\* set_num_sms, between two calls.  Bound: one change of the budget.
SetNumSms(b) ==
    /\ cur = Idle /\ budget = 0 /\ b # 0
    /\ budget' = b /\ done' = NoLaunch
    /\ UNCHANGED <<arch, program, tuning, outer, inner, cur, calls>>

Next ==
    \/ \E c \in program : Replay(c) \/ ReturnEmpty(c) \/ Begin(c)
                          \/ PeerPublishes(c) \/ PeerTransfers(c)
    \/ Untuned \/ MemoryHit \/ DiskHit \/ ReuseMemo \/ Sweep \/ SweepFails \/ Reuse \/ Fallback
    \/ Refuse \/ DispatchHit \/ DispatchMiss \/ Record
    \/ \E b \in Budgets : SetNumSms(b)
    \/ calls = MaxCalls /\ cur = Idle /\ UNCHANGED vars

Spec == Init /\ [][Next]_vars

(***************************************************************************)
(* Properties.                                                             *)
(***************************************************************************)
\* The plan caches hold plans of known configurations, and the last launch and
\* the call in progress are calls of this program (_gemm_iface_plan_cache,
\* _call_cache, _gemm_plan_cache).
TypeOK ==
    /\ arch \in Archs /\ program \in Programs /\ budget \in Budgets \cup {0}
    /\ \A k \in DOMAIN winner : winner[k] \in Config
    /\ \A k \in DOMAIN published : published[k] \in Config
    /\ \A o \in DOMAIN transferred : transferred[o] \in Config
    /\ \A k \in DOMAIN reused : reused[k] \in Config
    /\ \A k \in DOMAIN outer : outer[k].config \in Config
    /\ cur = Idle \/ cur.stage \in {"resolve", "dispatch", "record"}
    /\ cur.stage \in {"dispatch", "record"} => cur.config \in Config
    /\ calls \in 0 .. MaxCalls

Launched == done.stage = "launched"

\* A launch out of a plan cache runs exactly the kernel, over exactly the
\* operand views, that building the plan now would give: each outer key subsumes
\* what the captured inner plan's key covers (gemm_interface.py:888-895,
\* gemm.py:456, gemm_iface.py:143), whatever calls came between.
ReplaysAreFresh ==
    Launched => /\ done.plan.kernel = Kernel(done.call, done.config)
                /\ done.views = Views(done.call, done.config)

\* A winner that was in memory or published when the call began is the
\* configuration that runs: neither a fallback, nor a memo, nor a plan recorded
\* for an earlier fallback hides it (gemm_interface.py:1234, autotuner.py:786).
\* Plans recorded for a transferred winner do hide it and are excepted.
WinnerRuns ==
    Launched /\ done.known # NoConfig /\ ~(done.replayed /\ done.source = "reused")
        => done.config = done.known

\* A sink buffer is cut for the tile of the kernel that fills it, on a cold
\* call, on a fallback and on a replay (frontend.py _alloc_sinks, sink_shapes).
SinksFitKernel ==
    Launched /\ done.call.sink => done.sinkTile = done.plan.kernel.tile

Times(b) == IF b THEN 1 ELSE 0

\* Whatever mix of split-K mode, in-place accumulation and cached plan serves
\* the call, the kernel and the SEPARATE reduction together apply alpha, the C
\* term and the bias exactly once (gemm.py: run_gemm_plan, staged_split_k).
TermsAppliedOnce ==
    Launched =>
    LET k == done.plan.kernel  c == done.call IN
    /\ Times(k.alpha # 0) + Times(k.staged /\ c.alpha # 0) = Times(c.alpha # 0)
    /\ Times(k.c) + Times(k.accumulate) + Times(k.staged /\ GivenC(c))
         + Times(k.staged /\ done.plan.reducesOut) = Times(c.c # "none")
    /\ Times(k.bias # "none") + Times(k.staged /\ c.bias # "none") = Times(c.bias # "none")

\* A replay runs a kernel whose constexpr epilogue operand is the one this call
\* passed ("a constexpr-form width has no runtime footprint to check",
\* frontend.py:875-880).
ReplaysKeepTheWidth == Launched => done.plan.width = done.call.width

\* A launch's persistent grid follows the SM budget in force (README.md:80-88).
GridFollowsBudget == Launched => done.plan.grid = done.sms
=============================================================================
