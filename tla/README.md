# DLKernel in TLA+

DLKernel is a library of CUDA kernels written in the CuTe DSL: GEMMs with fused
epilogues, MoE grouped GEMMs, split-K, AllGather+GEMM, reductions, quantisation.
Most of its lines generate code or compute addresses. This project is about the
rest: the protocols between processes (compile cache, compile pool, autotuner), the
caches a call is dispatched through, the protocols between the warps, CTAs and clusters
of one launch (tile scheduler, pipelines, split-K turnstile, cluster reductions), and
between the ranks of a group (AllGather transport). They are short, they decide whether a kernel hangs, reads foreign data or is compiled
once per process, and their tests exercise one interleaving at a time.

All paths below are relative to `src/DLKernel/` unless they start with `docs/` or
`tests/`.

1. [Inventory](#1-inventory)
2. [Modules](#2-modules)
3. [Runs](#3-runs)
4. [Bounds](#4-bounds)
5. [Fairness](#5-fairness)
6. [Proofs](#6-proofs)
7. [Findings and remarks](#7-findings-and-remarks)
8. [Not modelled](#8-not-modelled)
9. [Plan](#9-plan)

## 1. Inventory

How the parts meet. A public operator (`mlp.py`, `linear.py`, `gemm_interface.py`,
`fused_grouped_gemm/`) asks the **autotuner** for a configuration, takes a **plan**
from a plan cache or builds one (`gemm.py`, `gemm_runtime/host.py`), and building it
calls a `@jit_cache` function. The **kernel cache** loads the object another process
published or compiles it, possibly in a worker of the **compile pool**. The launched
kernel draws its tiles from the **tile scheduler**, moves them through the
**pipelines** of its SM layer, folds split-K partials through the **turnstile**, and,
under AllGather, waits at gates that the **transport** of other ranks opens.
Processes communicate through files and flocks only; CTAs through global flags and
mbarriers; ranks through symmetric memory and stream order.

| Component | State it keeps | Operations | What is hard | What makes it correct |
|---|---|---|---|---|
| Kernel cache, `cache/jit.py` | `{sha}.o` and `{sha}.lock` per key, private temporary files, in-memory kernels, the ledger of own compiles | call, discard | processes race for a key; stuck or dead lock holders; half-written exports; corrupt objects | compile once, publish whole, never hurt a sound object, never wait for ever |
| Compile pool and prewarm, `cache/async_compile.py`, `cache/precompile.py` | futures per sha, keys marked external, executor, attribution window | submit, poll, mark_external, materialize, worker task | workers die, results arrive after the object they announce, processes defer to one another | prewarm ends, success means objects exist, counts are each process's own |
| Autotuner, `autotuner.py`, `gemm_tune_policy.py` | winners in memory, per key and per contract on disk, reuse memo, RUNNING quota and prepared buckets, benchmark lock | tuned call in four modes, record, prepare | ranks tune the same key; stale reads around the lock; failed sweeps and writes | ranks agree, published winners stay, quotas hold, no foreign configuration |
| Tile scheduler, `tile_scheduler.py` | work counter, CLC grants, decode window | initial work, advance, decode, drain | several clusters draw at once; spurious CLC failures; padded varlen grids; tails | each tile once, no real tile cancelled, the counter resets |
| SM90 kernel, `gemm_sm90.py`, `gemm_base.py`, `pipeline.py` | rings with one-bit mbarriers, order barriers, store buffers | load, mma, epilogue, store, schedule | warpgroups predict each other's ring positions; asynchronous copies | reads its own tile, buffers not rewritten under a store, no hang |
| Split-K turnstile, `gemm_base.py`, `sync/barrier.py`, `gemm.py`, `gemm_w4.py` | flag per tile, workspace stripe | wait, commit, release, finalize, reset | relaxed reductions, spinning CTAs, reuse of the buffers | every partial once, in order under SERIAL, no self-wait |
| AllGather transport, `distributed/all_gather_gemm.py` | epoch rows, arrival flags, two symmetric buffers, events, last parity | gather, replay, quiesce, gate | three streams per rank, graphs with baked parity, wrapping epochs | a GEMM reads its own call's data, no circular wait |
| Test plugin, `testing/pytest_plugin.py` | deferred items, attempts, deadlines | protocol, drain, session finish | reports later than completion, wedged pools, dead workers | each test reports once |
| Host dispatch, `gemm_interface.py`, `gemm_iface.py`, `gemm.py`, `gemm_symmetric.py`, `epilogue/frontend.py`, `gemm_runtime/` | outer plans by call metadata, resolved configurations, inner plans by dispatch metadata | look up, resolve, build, record, launch | three nested caches, each replaying what the one below decided; peers publish winners meanwhile | a replay is what a fresh build would give, winners are not hidden, terms are applied once |
| Registries, `gemm_runtime/identity.py` | digest to object, some consumed on resolve | register, ship, install, resolve | worker processes, call-time globals | a digest resolves to the object it names |
| Row kernels, `reduce.py`, `reduction_base.py`, `rmsnorm.py`, `softmax.py`, `cross_entropy.py` | reduction slots, transaction barriers, prefetched tile ring, fold scratch | exchange, release, prefetch, fold, tail | all-to-all remote stores, aliased shared memory, early exit, rows cut unevenly | sums are of one row and round, no arrival at an exited CTA |
| SM100 kernel, `gemm_sm100.py` | five rings: A/B, gather indices, accumulators in tensor memory, C, work slots; throttle | load, gather, prefetch, mma, forward, epilogue, schedule | 2-CTA MMAs over both CTAs' memories, accumulators overlaid by scale factors | as SM90, and no sum overwritten before it is read |
| SM120 and SM80 kernels, `gemm_sm120.py`, `gemm_sm80.py` | as SM90 | as SM90 | padding clusters, hardware draws under pingpong | as SM90 |
| Epilogues, operand transforms, rounding, block scaling, rotary, Hadamard, sorting, layout helpers, DSL patches, heuristics, `spec/` | none that two actors share | code generation, arithmetic | numerics, index maps | numerical |

`PROJECT.json` lists every part of the repository with its status, and the hazards of
the code with the properties that answer them; a hazard without a property says what
is still missing.

## 2. Modules

A run uses the module itself or an `MC` module that extends it with the instance.
Operators preceded by a comment `Variation:` are the plausible mistakes against which
the properties are tested; no specification uses them.

### ArtifactStore, ArtifactCache, HostCacheProofs (second part): `cache/jit.py`

`ArtifactCache` is the wrapper that `jit_cache` puts around a compile function, as
any number of processes call it for one key without a pool. Keys share nothing, so
one key is enough. A build is named by the caller that made it, which is what lets a
property speak of one object being replaced by another. `pc[c]` is the position in the
wrapper: memory probe (`CacheCall`), existence probe (`Probe`), the shared-lock fast path
(`AcquireShared` to `FastMiss`), the exclusive slow path with its second look
(`AcquireExclusive` to `Quarantine`), compile, `mkstemp`, export, `os.link` and the
memory entry (`Compile` to `Unlock`), and the same without the lock after a timeout.
`Crash` may strike at every point: the kernel releases flocks, the private file
remains. `obj` survives, and starts absent, sound or corrupt. The unlink of a corrupt
object may fail, and the call then compiles all the same (`QuarantineFails`,
`jit.py:487`): the link finds the name taken, nothing is banked, and the next caller
compiles again. `mishap` is a history flag for a timeout, a death, a failed export, a
failed unlink or a sound object that failed to load.

`ArtifactStore` is the promise: a store that is filled once, is emptied only when
corrupt, and serves the stored build or the caller's own. The wrapper refines it with
`store <- obj`, `kernel <- mem`. (The names of the module's specification, `CacheSpec` and
the like, let its proofs share a module with those of HostDispatch.)

### Prewarm, PrewarmProofs: `cache/precompile.py`, `cache/async_compile.py`, the pool branch of `jit.py`

Each process rotates a deque of keys (`Return`, `Defer`); a call takes the fast path,
polls the key's future, defers on a peer (`ext`), ships the key (`Claim`) or compiles
in-process. Workers are the same wrapper in another process. `Attribute` merges
finished futures, counts, and leaves the pool; `Verify` is the final existence check.
`WorkerDies` breaks the executor, `StallGuard` is the 600 s guard; `Clear` is the unlink
of a corrupt object, which may fail in process and worker alike. `case` fixes the
wanted keys and which faults may happen, so that one run covers fault-free prewarms of
two keys and faulty prewarms of one. The file protocol is coarser than in
ArtifactCache, which has it in detail.

### Autotuner, AutotunerProofs: `autotuner.py`, `gemm_tune_policy.py`

One tuned call per process: memory and reuse memo (`Lookup`, `Memo`), dispatch by mode,
`check_disk_cache` with its lock, second look and sweep, the transfer of a contract's
winner to another bucket (`Reuse`), the record of a winner in memory and in the
contract's file, and the preparation of all RUNNING buckets (`Prepare`, `Publish`). The
sweep is one step after which any candidate may have won. `due` remembers what was
published when the call began, `sweeps` how often RUNNING measured.

### HostDispatch, HostCacheProofs: the way of a call to its launch

A call is served by three layers. `outer` holds the plans of the public functions
(`_gemm_iface_plan_cache`, the symmetric front's, `EpiMod._call_cache`); `inner` those of
the dispatch layer (`_gemm_plan_cache`), which own the kernel and what the launch
bakes in; between them a configuration is resolved, from the tuner's winners (`winner`,
`published`), from the memo of transferred winners (`transferred`, `reused`), or by the
fallbacks of the front. `Replay` is an outer hit; `Begin`, the resolution actions
(`MemoryHit`, `DiskHit`, `ReuseMemo`, `Sweep`, `SweepFails`, `Reuse`, `Fallback`,
`Untuned`), `DispatchHit` or `DispatchMiss`, and `Record` are a miss. `PeerPublishes` and
`PeerTransfers` are the other processes, `SetNumSms` the SM budget. `Kernel(c, g)` and
`Views(c, g)` are what building call `c` with configuration `g` gives; the keys
(`GemmKey`, `SymmetricKey`, `CallKey`, `InnerKey`) list exactly the fields the code's
tuples hold, so a property of replays compares two independent translations.

### TileSchedule, SplitKTurnstileProofs (second part): `tile_scheduler.py`

One launch: the grid the host asks for, the decode of a work index (swizzle with its
serpentine and tail group, split and batch in either order, AllGather rotation, batch
permutation), and the four ways a cluster gets its next index. For varlen_m the decode
scans windows of batches from the position kept since the last tile, as the lanes of a
warp do, and the grid is the worst case for the total row count. CLC's
`try_cancel` may fail although clusters are pending
(docs/notes/clc_spurious_invalid_investigation.md); the drain of the padding tail is
the code's, with its gate and its cap. `done` is a bag of computed tiles. `ProblemShape` takes
from the callers that a batch permutation is one (`gemm.py:404`) and that the first shard is
one of the shards.

### PingpongKernel, MmaMainloop, PingpongKernelProofs: `gemm_sm90.py`, `gemm_sm120.py`, `gemm_base.py`, `pipeline.py`, `operand_transform/transform.py`

One CTA: a load warp that also schedules, and one (cooperative) or two (pingpong)
consumers. Rings of A/B stages, work slots and C stages have full and empty mbarriers
of one parity bit, so a wrong phase passes early or never, as on the device. A
warpgroup advances its states past its peer's tiles by prediction. TMA loads land and
TMA stores retire some time after they are issued (`Land`, `StoreRetires`). The order
barriers of main loop and epilogue are counts of pending arrivals. SM120 differs in its
main loop, in a bootstrap that checks the first tile (`ChecksFirst`) and in hardware draws
under pingpong (`clc`), whose slots are read one at a time.

MmaMainloop has no state of its own: `Program(loop, count)` is the sequence of steps a
consumer executes for a tile of `count` k-tiles, and PingpongKernel's `MmaFeed`,
`MmaRetire` and `MmaHandOver` execute it one step at a time beside the other warps. The
programs unroll `mma` (plain and with a slow accumulator) and `mma_rs_interleaved` (plain,
decoding, promoting) of SM90 and `mma` of SM120, block by block. The record `Registers`
keeps what they leave in registers: the fetched words and their scale, which k-tile each
block of A holds, the MMAs that may still run, and the sums, as sequences of blocks.

### Sm100Kernel, Sm100KernelProofs: `gemm_sm100.py`, `pipeline.py`, `tile_scheduler.py`

One CTA, or the two CTAs of a 2-CTA MMA, and every warp of them a process: load warps
(one, or several that gather rows of A by TMA or by cp.async), the index prefetcher, the
MMA warp, the epilogue warps, the C warp, the scheduler. The work list is given;
TileSchedule says how it is drawn. Barriers have parities, pending counts and transaction
bytes, with the arrive counts the code computes (`AbArrivals`, `TxParts`, `IdxReaders`,
`SlotReaders`); `flying` holds loads that have not landed, and a landed cp.async arrives
at its own CTA's barrier while TMA bytes go to the leader's. `Forward` is the other CTA's
MMA warp, which passes its CTA's cp.async arrivals on. `tmem` says what each subtile of
each accumulator holds; with scale factors at 256 columns `Multiplied` also overwrites the
other accumulator's first subtiles, and `ReleaseAt` is `iter_acc_early_release`. A launch
without gathered rows has one load warp per CTA and no TMA gather (`LaunchesAssumption`; the
constructor sees to both, `gemm_sm100.py:279` and `:295`).

### SplitKTurnstile, SplitKTurnstileProofs: `gemm_base.py`, `sync/barrier.py`, `gemm.py`, `gemm_w4.py`

Threads of an epilogue group each own a part of the stripe; thread 0 spins on the flag
and publishes, and the group barrier alone orders the others. A reduction is performed
some time after it is issued. Work ids are drawn statically, dynamically or by the grid.
The buffers can serve another call, after the first one or, on another stream, beside
it.

### AllGather, AllGatherProofs: `distributed/all_gather_gemm.py`

Ranks run one program of eager calls, replays and `quiesce()`. Each has an ambient
stream (stage, gates, GEMM), a push stream (copies, then flags) and a barrier stream.
Epoch row 2 counts, rows 0 and 1 are the snapshots that late readers use. `bufs` and
`scales` hold the number of the call whose bytes they are. A captured call's parity was
fixed at capture; the host's `lastParity` does not move on replay. `Gathered(r, s)` is what
`gathered_a()` finds at r of s's shard; `GatheredStays` gives its contents exactly, with the
one case in which a peer's replay is already in it (`Overtakes`). `Contract` is what the
runner's docstrings ask of a program: a replay runs as a whole, eager calls and replays
meet only at `quiesce()`, and an explicit parity given to `quiesce()` is the right one.

### RowKernels, RowKernelsProofs: `reduce.py`, `rmsnorm.py`, `softmax.py`, `cross_entropy.py`

A warp stores its partial into every CTA's slots by remote stores that also credit the
barrier there; messages in `flying` are performed in any order. The forward kernels make
one or two reductions; the backward one is persistent, prefetches rows through a ring of
tiles (TMA or cp.async), reuses two stages of the exchange under empty barriers the
peers arrive on, folds dW and dB through scratch that aliases the tiles (`Fold` lists the
reads, writes and barriers of that fold), and drains its stages before it exits.

### RowTiling: `reduction_base.py`, the tables of `softmax.py`

How a row is cut over CTAs and warps, in exact sizes, and what a warp adds to the online
softmax, with an element abstracted to finite, minus infinity or NaN.

## 3. Runs

| Run | Shows |
|---|---|
| `artifact_cache` | Three processes, any initial object, every fault except flaky loads: loads find their file, a key is compiled once and banked until something goes wrong, every step is one of ArtifactStore, and a process that keeps running returns although the others may stop anywhere. |
| `prewarm` | Two processes that prewarm in either order: the counts never claim a compile twice or one that is not theirs, miss only late results, success means sound objects unless a lock wait ran out or an unlink failed, and every prewarm ends although processes and full pools wait for one another. |
| `autotuner` | Two ranks, two buckets, three kinds of operator (unwritable and ignored winner files and demanded measurements among them), all modes, crashes: winners agree with the published file, reach peers, are never foreign, RUNNING measures once, and no step waits for ever. |
| `host_dispatch` | Three calls over a base call and a twin that differs in one argument, for five base calls on two architectures, while peers publish: a replay runs the kernel and views of a fresh build, a known winner runs, sinks fit the kernel's tile, alpha, C and bias are applied once. |
| `host_stale` | A constexpr operand the call cache does not key, see section 7. |
| `schedule` | Twelve shapes in four modes: each tile once, the drain spares real work, k-tiles are folded once, the counter is left at zero. |
| `pingpong` | Work lists of none to six tiles under six main loops: an MMA reads its own tile from stages and registers while it may run, the epilogue finds every block of the tile once and rightly scaled, epilogues alternate, store buffers are free, every tile is finished exactly once, nothing is in flight at the end, and it ends. |
| `sm100` | Eleven launches of one and two CTAs: the operands an MMA reads are its k-tile's in both CTAs, a subtile holds exactly its tile's sum when it is read, and every warp leaves. |
| `split_k` | Partials are folded completely and, under SERIAL, in order; a second call finds the buffers usable; no CTA waits for work queued behind it. |
| `all_gather` | A passed gate means this call's bytes until its GEMM ends, epochs are stable while they may be read, between calls the newest buffer holds the last call and nothing else unless a peer's replay into it has begun (section 7), and the streams drain. |
| `row_kernels` | Thirteen launches of one and two CTAs: what a warp combines, reads from a tile and folds is of its own round, nothing arrives at a CTA that is not there, the target logit is read before the gradient overwrites it, and every warp exits. |
| `row_tiling` | A row size at which online softmax gives NaN, see section 7. |

A type invariant is stated in every module; it is proved where section 6 says so and
otherwise serves while a model is being changed. Each property of a passing run is also checked against a changed definition
(`mutants` in PROJECT.json): for example an unlink by the shared reader, a rename in
place of the link, a quota that is not consulted, a phase that flips once however
often a ring is crossed, flags sent before the data, an epoch gate that compares for
equality, a key without the scalars, a compile after the lock was dropped, an existence check in
place of a load, an accumulator released one subtile early, one more
MMA in flight than may read the registers about to be filled.

## 4. Bounds

- **ArtifactCache**: three callers under symmetry, unlimited calls, crashes and
  restarts. Two race; the third is the reader that sees the object between two steps of
  the others. The proofs of section 6 hold for every set of callers.
- **Prewarm**: two processes, two keys, `Slots = 1` worker each: one slot is what makes
  a pool full, two keys in opposite orders are what a circular wait needs. Faults are
  combined on one key, where the histories stay finite and every fault meets every
  other; a further case leaves out lock timeouts and failed unlinks, the two faults that
  `SuccessMeansSound` excepts, so that it is checked against all the rest.
- **Autotuner**: two ranks, two buckets of one contract, two configurations of which one
  is illegal for the second bucket. Contracts share no state except memory maps.
- **HostDispatch**: `MaxCalls = 3` calls over a pair: a miss, its replay or a hit of the
  twin, and one more after a peer published. A key that forgets a field shows in two calls
  that differ in that field; the proofs hold for all calls and configurations.
- **TileSchedule**: `MaxActive = 2` clusters at a time, `WarpLanes = 3` batches to a
  scan window so that five batches span windows, `DrainCap = 2` so that the cap is
  reached. The shapes have tail groups, odd serpentine groups, more splits than k-tiles,
  empty batches at the ends of windows.
- **PingpongKernel**: `AbStages = 2`, k-tile counts up to 5, so that a prediction
  crosses a ring more than once and not at all; up to six tiles, so that every ring
  phase repeats. A k-tile has the four blocks SM90's register loops ask for at least, or
  two on SM120; tiles of none to three k-tiles reach the first, the steady and the last
  k-tile of a program and the tile that has none.
- **Sm100Kernel**: `AbStages = 2` with up to three k-tiles, so that the A/B ring wraps in
  and across tiles; two or three subtiles with scale factors that end inside the
  first, at and past the boundary of a subtile (`sfCols` 1, 3, 4 at `epiCols = 2`); four
  tiles where one accumulator barrier guards both buffers, so that each buffer is reused;
  pairs of CTAs with two tiles or three k-tiles by TMA. The pair that loads by cp.async has
  one k-tile: with three, which wrap its rings, the same properties hold too (292,638
  states), but the run takes minutes. Two load warps stand for the code's four.
- **RowKernels**: two CTAs, two warps, up to five rounds over two stages, so that every
  stage is reused, and over two or three tile stages.
- **SplitKTurnstile**: two threads (thread 0 and one other), up to three splits, three
  CTAs, two tiles, two calls.
- **AllGather**: two ranks with two chunks, three ranks with one; programs up to seven
  calls; `EpochMod = 32` with an initial epoch of 30 so that epochs wrap. The code's
  comparison is signed over 32 bits and needs programs shorter than half the modulus,
  which `SetupsAssumption` states.

## 5. Fairness

- **ArtifactCache**: only `WF_vars(Step(p1))` (`MCLoneSpec`), one process that keeps
  running. A step is enabled wherever it stands because lock waits have deadlines; the
  others have no fairness at all, so they include the stuck holder.
- **Autotuner, HostDispatch** have no liveness. `NeverBlocks` says instead that a process
  inside a call can always take a step of its own, and a call is a finite path.
- **Prewarm**: weak fairness of every process and of every worker task, that is, the
  operating system schedules them. The flock gives its waiters no order and needs
  none: each key is locked finitely often. `StallGuard` and `WorkerDies` have no
  fairness.
- **PingpongKernel**: resident warps are scheduled and issued asynchronous copies
  complete; weak fairness of the load warp, of each warpgroup, of landing and of
  retiring.
- **RowKernels**: weak fairness of some warp's progress, of landing fetches and of
  performing remote operations.
- **Sm100Kernel, SplitKTurnstile, AllGather**: `WF_vars(Next)`: while something can move, something
  does. Their behaviours are finite, so this is the weakest assumption under which
  "never stuck" can be stated. A spinning CTA is a disabled step, which is
  sound as resident CTAs do not starve one another.
- **TileSchedule** has no liveness: its deadlock check is on, and `ScheduleDone` is the only way
  to stop.

Deadlock is unchecked where a system really stops: prewarms end, kernels exit,
programs finish.

## 6. Proofs

The second part of `HostCacheProofs` proves of ArtifactCache, for every set of callers (finite or not) and either value
of `FlakyLoad`:

| Theorem | Statement |
|---|---|
| `CacheTypeCorrect` | `CacheSpec => []CacheTypeOK` |
| `LoadsAreSafe` | `CacheSpec => []LoadsFindTheirFile` |
| `CompileOnce` | `CacheSpec => []OneAuthor` |
| `Banked` | `CacheSpec => []CompilesAreBanked` |
| `SoundObjectsStay` | `CacheSpec => SoundObjectStays` |
| `ImplementsStore` | `CacheSpec => StoreSpec`, provided sound objects load |

Assumptions: `SentinelAssumption` (the sentinels are not callers and differ) and
`FlakyAssumption` (a Boolean); TLC evaluates both in every run of the module.

None of the properties is inductive. `OneAuthor` needs to know that nobody else is
between the decision to compile and the publication; this needs the lock; and the lock
is only in the program counters. The inductive invariant is

    CacheInv == CacheTypeOK /\ LockDiscipline /\ SeenObject /\ Unhurt
                            /\ CompilesAreBanked /\ OneAuthor

`LockDiscipline` ties program counters to the two flocks and makes them exclude each
other. `SeenObject` says that an object found under a lock is still there when it is
loaded or unlinked, and is corrupt when it is to be unlinked (unless sound objects may
fail to load). `Unhurt` says that without a mishap nobody is on the unlocked path and
whoever holds the lock between compile and publication does so over an absent object.
A failed unlink is a mishap because `Unhurt` ends there: its caller compiles over the
corrupt object. From `Unhurt` a second author would have to start under the lock while the first one's
object is on disk, or while the first one holds that lock. There is one lemma per part
(`CacheTypeStep`, `LockStep`, `SeenStep`, `UnhurtStep`, `BankedStep`, `AuthorStep`), each
with one step per action; `CacheInvariant` combines them. The action property and the refinement
follow from `CacheInv`: the only steps that change `obj` are the link, which fills an absent
path with a whole build, and the quarantine, which meets a corrupt object.

The first part of `HostCacheProofs` proves of HostDispatch, for all programs, configurations, architectures and SM
budgets that satisfy `DispatchAssumption`:

| Theorem | Statement |
|---|---|
| `Fresh` | `Spec => []ReplaysAreFresh` |
| `Winner` | `Spec => []WinnerRuns` |
| `Sinks` | `Spec => []SinksFitKernel` |
| `Terms` | `Spec => []TermsAppliedOnce` |
| `Typed` | `Spec => []TypeOK` |

Two lemmas carry it and are about the code's keys alone: `InnerKeySubsumes` (calls with
one dispatch key build one kernel) and `OuterKeySubsumes` (calls with one public key have
one kernel and one set of views for every configuration). `IInv` says what each cache
holds: an inner plan is the plan of some call with that key (`InnerInv`), an outer plan
that of some keyed call under a configuration that was its winner or was transferred to
it (`OuterInv`), and the call in progress and the last launch carry configurations that
remain justified while peers publish (`CurInv`, `DoneInv`; `WonStays`, `VisibleStays`).
Each part has a step lemma.

`AutotunerProofs` proves, for all processes, buckets, contracts, configurations and
workloads that satisfy `ModelAssumption`:

| Theorem | Statement |
|---|---|
| `WinnersAlwaysAgree` | `Spec => []WinnersAgree` |
| `WinnersAreFinal` | `Spec => [][Honest => WinnersStay]_vars` |
| `PublishedWinnerRuns` | `Spec => []PeerWinnerIsPickedUp` |
| `NothingForeignRuns` | `Spec => []NeverForeign` |
| `RunningMeasuresOnce` | `Spec => []RunningQuota` |
| `TypesHold` | `Spec => []TypeOK` |

`Honest` says that winner files are looked at and can be written. The benchmark lock is
again only in the program counters: `LockInv` says that whoever looks again, sweeps or
puts holds the lock of its key, and that past the second look no winner of that key is
published. With it a `Put` meets an empty entry, so a published winner is final
(`WinnersAreFinal`) and memory agrees with the file. `DueInv` follows a call from there:
what was published when it began still is, and the branches that do without a winner are
reached only when there was none. `ForeignInv` says that every place that hands a key a
configuration holds one of its candidates, `QuotaInv` that a sweep done is a contract
measured or about to be. A step changes one process (`StepIsLocal`), so each part is
shown for that process, one step per action, and carried for the others by a lemma
(`ApartKeeps`, `OwnPartIsEnough`, `OwnQuotaIsEnough`, `OwnDueIsEnough`).

`PrewarmProofs` proves, for all processes, keys, pool sizes and cases that satisfy
`SlotsAssumption` and `CasesAssumption`:

| Theorem | Statement |
|---|---|
| `SuccessIsSound` | `Spec => []SuccessMeansSound` |
| `CountIsMine` | `Spec => []CountsAreMineOrLate` |

`IInv` has one part per process: where its deque may be empty (`Place`), that a key that
left the deque has no corrupt object (`Sound`, unless lock waits may run out or unlinks
fail, `Bypassed`), that what is credited was made (`Mine`),
and, without faults, where every compile is accounted for (`Counted`): in the ledger, in
a future on its way home, or, after the count, among the late ones. Two things carry
it. Objects only get better (`Better`): a sound one stays and a corrupt one is cleared
before the path is filled, so what a process knows of its finished keys outlives every
step of its peers; the flock is not needed for it. And without faults everything is sound
once the deque is empty, so a worker that starts after the count finds its object and
compiles nothing. The rotation itself rests on a lemma on sequences (`Rotation`), its
beginning on the pigeonhole (`AllWanted`).

`PingpongKernelProofs` proves, for every launch that satisfies `LaunchesAssumption`:

| Theorem | Statement |
|---|---|
| `PingpongTakesTurns` | `Spec => []TakeTurns` |
| `StoresDoNotCollide` | `Spec => []StoreBufferFree` |
| `PingpongTilesOnce` | `Spec => []TilesOnce` |

For the turns, the invariant `OneTurn` counts, for each stage, the signals on their way and the
warpgroups inside: there is at most one, and none before warpgroup 0 has started.
A step of a consumer either enters no stage (`KeepsTurns`), takes a signal for the stage
it enters (`TakesTurn`) or signals its peer as it leaves one (`GivesTurn`); the actions
are sorted into these, and the load warp and the TMA engine touch neither side.

`producer_acquire` only bounds the number of stores in flight; which buffers they read it
does not know, so that the buffer about to be written is free is a matter of numbering.
`Buffers` numbers the subtiles a warpgroup stores (`Count`, from the tiles it has gone past)
and says that its stores in flight are of the numbers just before the next (`Run`), at most
as many as there are buffers, and fewer when it writes. Two numbers less than the modulus
apart have different buffers (`Apart`). The numbering skips where a pingpong warpgroup
passes over its peer's tiles and where a split stores nothing; there the queue is empty,
since those launches drain it at the end of each tile (`Drained`), which also keeps the peer's
stores out of the way: it is not in its epilogue, by `TakeTurns`.

That every tile is finished once is a matter of the slots, since a warp learns of its
tiles from nothing else. `Slots` numbers them: how many the load warp has written and
read (`Written`, `LoadsRead`), which one a warpgroup reads next (`Position`; a skipped slot
is counted as the tile before it ends), which ones are its own (`Mine`). `SlotRing` says of
the last slots written, one for each stage, that slot n carries the tile after the n before
it, that its full barrier has the parity of its round, and that its empty barrier has
counted those who read it, and flips with the last (`Slotted`); and that no slot is overwritten before its
readers have read it. A read can then only be of the slot it is meant for, since the other
round of the stage has the other parity (`RingRead`), and a write waits for the last
reader of the round before (`RingWrite`). `AtTiles` says that with two warpgroups the first
works the odd tiles and the second the even ones, and where each stands on its way to the
end; an odd and an even number of tiles, none, and the extra slot for the warpgroup that
skips are the cases of its steps. `RanOnce` says from there which tiles are finished.

`Sm100KernelProofs` proves, for every launch that satisfies `LaunchesAssumption` (any number
of load warps, tiles, k-tiles, subtiles and C stages, one CTA or two, TMA or cp.async loads,
gathered rows or none, static or drawn tiles, overlaid accumulators or not) and every depth of
the A/B ring from two:

| Theorem | Statement |
|---|---|
| `OperandsAreOwn` | `Spec => []ReadsOwnOperands` |
| `AccumulatorsAreOwn` | `Spec => []ReadsOwnAccumulator` |
| `TypeCorrect` | `Spec => []TypeOK` |
| `Invariant` | `Spec => []IInv` |

A barrier's parity tells a warp that an even or an odd number of rounds is complete, never
which; that the round is its own is a matter of counting over five rings at once. `IInv`
counts positions, without history variables:

    IInv == Types /\ RingTypes /\ Places /\ SlotsOK /\ CRingOK /\ IndexRingOK
            /\ AccRingOK /\ TmemOK /\ AbRingOK /\ AbDataOK /\ MetOK

`Places` gives, from the tile a process is at, how often it has used each of its rings: all
processes of a CTA walk the same list, so position p of a ring means the same tile and k-tile
(or subtile) to producer and consumer. `SlotsOK`, `CRingOK`, `IndexRingOK`, `AccRingOK` and
`AbRingOK` say that every barrier's state is a function of those positions: `Settled` for a
barrier of one arrival, `Emptying` for one with several readers, each at its own position at
most a round apart (`Within`), `FullAt` for the A/B ring, whose leader barrier counts load
warps and the transactions of both CTAs, and `OtherFullAt` for the follower's, which the
cp.async path completes first and `Forward` then passes on. Writer and readers of a ring are
thus never a round apart, and the parity seen decides.

The contents follow. `AbDataOK`: every flight is that of a position in the ring's window, and
a unit that has landed put there what the position asks for (`At`), the gather index having been
right when the load was issued (`IndexRingOK`). `TmemOK`: what an epilogue has not read yet
(`Unread`) is its tile's whole sum, and the accumulator being written has exactly the k-tiles
so far. For overlaid accumulators this rests on arithmetic: the epilogue releases the buffer
after subtile `ReleaseAt`, by which time every subtile that the scale factors of the
next tile overlay has been read, and `sfCols < subtiles * epiCols`, the last conjunct of
`LaunchesAssumption`, is why there is such a subtile. The load warps of one CTA are shown not to
block one another's counts by cardinalities of the sets still to arrive (`Waiting`, `MetOK`).

How many k-tiles or C subtiles come before a tile (`KBefore`, `CBefore`) is a sum over a list,
which the model itself never forms; the proofs name a function with the sum's recurrence, and
`SumsExist` shows by least counterexample (`Least`) that every list has one. A step changes
one process or ring; `PlacesStep`, `SlotsStep`, `CRingStep`, `IndexRingStep`, `AccRingStep`,
`TmemStep`, `AbStep` and `MetStep` show that each part survives every action, and `NextInv`
combines them. Every conjunct held as an invariant of a TLC run on the launches of
`MCSm100Kernel` before it was proved.

`SplitKTurnstileProofs` proves, for every launch and every set of threads that satisfy
`LaunchesAssumption` and `ThreadsAssumption`:

| Theorem | Statement |
|---|---|
| `TypesHold` | `Spec => []TypeOK` |
| `NothingDrawnTwice` | `Spec => []Distinct` |
| `SumsAreInSplitOrder` | `Spec => [](~launch.overlap => SerialOrder)` |
| `SumsAreWhole` | `Spec => [](~(Serial /\ launch.overlap) => FoldIsComplete)` |

The flag alone says little: it is one counter that thread 0 reads and writes, while the
stripe is written by every thread, later than it says so, and the next call starts with
the last one's leavings. The invariant goes in layers. `DrawInv`: a CTA's k-th id is
a function of its position or of the counter, so ids are distinct, and by division with
remainder a tile and a split name one item of one CTA. `GroupInv`, in every mode: the two
group barriers keep a group's threads together, and a pending commit belongs to an item
its CTA has not released. Then SERIAL and PARALLEL part.

SERIAL. `FlagInv`: of the latest call, the splits whose thread 0 has released are exactly
those below the flag, or all of them and the flag is 0 again; between its wait and its
release a thread 0 finds the flag at its own split. `PartInv`: a pending commit belongs to
the item that holds the flag, hence each thread's part holds the splits below the flag in
order and, once its commit is performed, one more; split 0 overwrites, so what the buffer
held before does not matter. Overlapping SERIAL calls break both properties (section 7)
and are excluded.

PARALLEL, on fresh buffers (`LaunchesAssumption`). `CountInv`: until the last split
clears it the flag is the number of released splits (`Counted`), it stands at S - 1 from
the last split's wait to its release (`Awaited`), and a thread's part has one element for
each split it has added, in any order (`Sums`). So the finalizer, which finds S - 1, finds
all others released; what is released has been added by every thread; S - 1 elements with
S - 1 splits among them hold each once (`Wholes`).

The second part of the module is about where the ids come from. It proves of TileSchedule,
for all problems that satisfy `ProblemsAssumption`, every device that holds at least one
cluster (`ActiveAssumption`) and every warp of at least two lanes (`LanesAssumption`):

| Theorem | Statement |
|---|---|
| `EachTileOnce` | `ScheduleSpec => []EveryTileOnce` |
| `DrainCancelsPadding` | `ScheduleSpec => []DrainSparesRealWork` |
| `CounterComesBack` | `ScheduleSpec => []SemaphoreResets` |
| `EveryKTileFoldedOnce` | `ScheduleSpec => []KTilesFoldedOnce` |

One half is arithmetic. Dense launches first. The decoding of a dense work index is a bijection onto the output
tiles and splits (`TilesAre`): a group of the swizzle is a rectangle that the serpentine
walks without leaving it (`SwizzleIn`) or missing a cell (`SwizzleOnto`, which computes the
id of a given cell), the narrower tail group included; the AllGather rotation is one of the
shards, each a whole number of rows; and the index is a number of three digits (spot, split,
batch) in the order the scheduler chose, whose last digit the permutation relabels. The other
half is about the steps. `Ledger(f)`, for `f` draws so far, names the indices that clusters
have begun on (`Taken`) and says that their tiles are exactly those done, once each, and
those that clusters still hold (`Accounts`). A grid cluster takes its own
index, a static one every `GridX`-th, a CLC one what it was granted, a dynamic one what the
counter said. For the last, `Draws` relates counter and clusters: a cluster that has no tile
and was launched drew past the work, once (`Empty`), so the draw that wraps the counter is
the last one of the launch, and with it every cluster has ended. SplitKTurnstile starts
each call's counter at zero; `CounterComesBack` is why a launch may.

A varlen_m index is decoded by folding the batches' work and scanning the folds. `Starts`
is the work before each batch, a function that exists because every finite piece of it can
be extended (`PrefixesExist`); a fold over an interval of batches is a difference of two of
its values (`SumOfInterval`, by a least counterexample, as every induction here), and rises.
So the scan, from whatever window the last call kept, ends in the window of the index
(`ScanExists`, `ScanEnds`), the lanes of the ballot that count are an initial piece of the
window (`BallotIs`), and the batch found is the one that holds the index, or none when the
index is past the work (`BatchIsFound`). With the swizzle of that batch this is a bijection
from the indices below `Real`, the launch's work, onto the output (`UnevenIndexed`), and
`GridCovers` shows that the worst-case grid, which knows the total of the rows only, has at
least `Real` clusters. `UnevenInv` is then about the steps: `RealTaken` are the indices begun
on, `Accounts` is as before, and `Lot(g)` keeps of each cluster a window that serves all
later indices, which the counter, the stride and the grants hand out in rising order. It
also carries the drain: a phantom's index is past the work, grants and cancellations
move `next` in one order, so what is still pending is past the work too
(`DrainCancelsPadding`). The counter of a varlen_m launch does not wrap.

`EveryKTileFoldedOnce` adds that the ranges of the splits share out the k-tiles (`OneOwner`:
the first `k % split` splits have one more), and `UnsplitInv`, that a varlen_m tile is always
of split 0. `DenseInv`, `UnevenInv` and `UnsplitInv` held as invariants of the `schedule` run
before they were proved.

`AllGatherProofs` proves, for every group of ranks, number of chunks, first epoch and
program that satisfy `SetupsAssumption` (whose `Contract` is above, and whose bound on the
length of a program says that the counter does not lap itself while one runs):

| Theorem | Statement |
|---|---|
| `EpochStable` | `Spec => []EpochIsStable` |
| `OwnCall` | `Spec => []ReadsItsOwnCall` |
| `GatheredStay` | `Spec => []GatheredStays` |
| `TypesCorrect` | `Spec => []TypeOK` |

None of the three is inductive: what makes a buffer safe to write is known to other ranks
and other streams. `IInv` follows the order of one call. A call takes a buffer only once
its own barrier stream has released every earlier call on it (`Reuse`, from `Host`, which
keeps the host's parity true, and `Quiesced`); a barrier lets a rank pass only when every
rank's GEMM is done (`Met`); a GEMM is done only behind its gates, so each peer's flags of
that call had come (`Arrived`) and, in stream order, the copies before them (`Pushed`,
`Bytes`, `ScaleBytes`). `Counts`, `Snapshots`, `Older` and `Flags` say which call's epoch
is in the counter, in the two snapshots and in each flag, modulo `EpochMod`; that the two
snapshots and the flags are less than half the modulus apart is why the signed comparison
of a gate means "not older".

`GatheredStay` is exact. What a rank finds between calls is not older than its last call,
because its gates saw every flag of that call (`Arrived`, `Bytes`). It is no later call
either (`NoLater`), but for the next: a peer whose bytes are of the next call but one had
ended the GEMM of the next, for which it needed this rank's flag, which is not raised yet.
And the next call writes this buffer only when it is a replay, since an eager one takes the
other, and `quiesce()` calls in between leave the newest buffer the newest (`Still`).
Statements about the last call, the next one, or the last on a buffer use least elements of
bounded sets of numbers (`Least`), which needs no induction.

`RowKernelsProofs` proves, for every launch that satisfies `LaunchesAssumption` (any
cluster, warps, rows of warps, values, rounds, either kind of tile ring and depth):

| Theorem | Statement |
|---|---|
| `OwnRound` | `Spec => []ReadsItsRound` |
| `PeersStay` | `Spec => []PeersAreThere` |
| `TargetRead` | `Spec => []TargetIsLogit` |
| `TypesCorrect` | `Spec => []TypeOK` |

A barrier has one parity bit, and CTAs share no counter of rounds. `IInv` restores the
counter: from a warp's place and round follow the rounds it has acquired, stored, seen and
released, from these and `flying` the stores (`Got`) and arrivals (`Arrived`) a CTA has
received of each round, and a barrier that is through round n - 2 and not through n counts
exactly those of n (`FullCounts`, `EmptyCounts`). The argument is then a chain. A warp that
has acquired round n + 2 found its own CTA's empty barrier through n (`AcquiredFree`), so
every warp of the cluster had released n, so each had seen its own full barrier through n
(`SeenFull`), so no store of n is on its way to any CTA: a store that is performed is the
first of its stage, and overwrites only a round every reader has left (`Slots`). The same
holds of the drain before exit (`DoneFree`), hence that nobody is sent to who has left.
`Folds` counts the CTA's barriers, of the exchange within one CTA and of the dW and dB fold,
and what each warp has left in the scratch; `Ring` has the tile ring, whose barriers count
landings and readings by stage and lap for any number of stages, with the TMA ring fetched
by one warp and the cp.async ring by each warp for itself.

It also proves `CappedTileIsProper` of RowTiling's definitions: where `_cap_cluster_n` lets
a row have several CTAs, no CTA's tile spans it. What the cap does not give, that every tile
starts within the row, is the subject of the `row_tiling` run.

Only model-checked: what PingpongKernel says of its rings
of A/B and C stages (`ReadsOwnTile`), and
`NeverBlocks` of Autotuner (a statement about ENABLED). Only proved: `WinnersAreFinal`, type correctness,
`SoundObjectStays`, and ArtifactCache with loads that fail on sound objects. Liveness stays
with TLC throughout (fairness and ENABLED are beyond the prover), and so do statements about
what folds and recursive functions compute, except the sums and the scan of the varlen_m
decode.

## 7. Findings and remarks

Shown by a run whose property quotes the code's own words:

- **`host_stale`** (`epilogue/frontend.py:1555`). The integer width of a grouped statistic
  is a compile-time constant of the kernel, and the call cache keys non-tensor operands by
  presence: a second call with equal tensors and another width replays the first kernel.
- **`row_tiling`** (`reduce.py:294`). For some row sizes (in 16 bits 65544 to 73472, 81928
  to 87808, 131080 to 155392 and others, on SM90 and later) the last CTA of a
  softmax or cross-entropy cluster owns no column; its maximum is minus infinity, its
  rescaled sum NaN, and the combine keeps NaN. `reduction_base.py:29` promises distinct,
  non-empty tiles; RMSNorm's capped clusters may have an empty one too (n = 65544), where
  it is harmless.

Seen while modelling and not made a run:

- After a lock timeout a caller publishes without clobbering, so a corrupt object that
  the stuck holder has not removed stays (`jit.py:593`). It also stays when it cannot be
  unlinked (`jit.py:487` ignores the error): every process that meets it compiles the key
  again and banks nothing. A prewarm reports success in both cases (`precompile.py:79`
  names existence only), so `SuccessMeansSound` excepts them, and `OneAuthor` and
  `CompilesAreBanked` count a failed unlink as a mishap.
- A worker drops the flock before its result reaches the parent; a retry that loads the
  object ends the rotation, and that compile is counted by nobody, although counts are
  documented to sum to the compiles (`precompile.py:90`, `:104`). `CountsAreMineOrLate`
  bounds the loss to exactly those.
- Comments promise that pool failures fall through to an in-process compile (`jit.py:518`,
  `precompile.py:86`). After a worker is killed the next submission raises
  `BrokenProcessPool` out of the wrapper (`jit.py:531`), and the executor stays broken.
- `gathered_a()` is documented as valid until the next call
  (`distributed/all_gather_gemm.py:426`). The release events for which `quiesce()` waits
  (`:506`) say that every rank's GEMM is done with a buffer, not that nobody reads its view
  between calls. After an eager call on buffer 1 and `quiesce(1)`, a replay baked onto
  buffer 1 that a fast rank has begun overwrites shards in a slow rank's newest buffer
  before that rank has even passed its own `quiesce()`. `GatheredUntilNextCall` states the
  docstring; as an INVARIANT of MCAllGather.cfg TLC violates it in 17 states. The
  property that is checked and proved, `GatheredStays`, says exactly how far the docstring
  holds: only a replay onto the newest buffer, only the shards of ranks that have begun it,
  and never a later call. A caller who reads the view between an eager call and such a
  replay must agree with the peers first.
- `gemm_w4.py:113` caches flags and workspace by shape, tile and device, not by stream:
  equal calls on two streams share them, and one call's output is its own last split plus
  the other's partial. With `Launches <- MCStreams` in MCSplitKTurnstile.cfg TLC shows it
  as a violation of `FoldIsComplete`.
- A plan recorded for a winner that was transferred from another bucket hides a winner a
  peer publishes later for this one (`gemm_interface.py:1233`; `autotuner.py:786` is
  careful not to). `WinnerRuns` excepts it.
- `gemm_add` with K = 0 in place drops the bias (`gemm_interface.py:1556`), and `gemm` with
  K = 0 and a batched bias broadcasts it along the wrong axis.
- `EpiMod.__call__` keys a configuration by its `id` without keeping it alive;
  `EpiMod.gemm`'s key holds `A_idx` only as given or not and leaves out whether a tile
  counter was given.
- docs/notes/clc_spurious_invalid_investigation.md describes a drain that aborts with a
  diagnostic on a grant below the baseline and a larger shared record; the code retires
  silently and keeps six words.
- In programs of eager calls only, the cross-rank release barrier of AllGather is implied
  by the gates: passing the gates of call i+1 needs every peer's flags of i+1, which
  that peer stages after its GEMM of call i. It becomes necessary when replays put
  two calls of one parity back to back.
- SM120 accepts a tile K of one MMA instruction (`gemm_sm120.py:709` asks for a multiple);
  its loop then refills block 0 for the next k-tile before the MMA of this one
  (`gemm_sm120.py:1726`), and k-tile 0 is never multiplied. `LoopOK` asks for two blocks;
  with `blocks = 1` admitted TLC shows the violation of `ReadsOwnTile`. SM90 asserts four.
- Persistent plans bake `max_active_clusters` (`gemm.py:961`) under a key without the
  SM budget, while `cute_dsl_utils.py:123` warns against exactly that for its own cache.
  `GridFollowsBudget` states it in HostDispatch; no run checks it, and it does not hold.

## 8. Not modelled

- Arithmetic, rounding, layouts and code generation: numerical properties of tensors
  are not state-machine properties.
- Multicast clusters beyond the pair of a 2-CTA MMA, the cp.async gather producer of SM90
  and SM120; block-scale fragments of SM120 and the instructions its last k-tile skips;
  tensor-memory allocation, the epilogue prepass, the store buffers (PingpongKernel has
  them) and programmatic launch of SM100; its single accumulator stage for tiles wider than
  256 columns (`gemm_sm100.py:2728`; `AccStages` gives every launch without scale factors
  two), which is less concurrent; SM80, which double-buffers by cp.async.
- The traced epilogue call (`gemm_runtime/torch_op.py`), several threads in one process,
  and payload pickling on the host side.
- The configuration heuristics, bucket enumeration, sorting networks, Hadamard and rotary
  kernels: functions of one caller's inputs.
- `TriangularTileScheduler`: it decodes through a floating-point square root.
- SEPARATE split-K: disjoint slices and a second kernel on the same stream.
- Worker configuration of the pool (GPU-blind device attributes, forkserver set-up),
  the sweep's timing protocol, graph capture itself, the memory model below the
  granularity of "issued" and "performed".
- AllGather with one rank (no transport), a body that raises (declared fatal), and
  programs that mix eager calls and replays without `quiesce()` (outside the contract).

## 9. Plan

Order: what most callers depend on first. Done: ArtifactStore, ArtifactCache and its
proofs; Prewarm, which uses the same file protocol; Autotuner; HostDispatch, which
consumes the tuner's winners; each with proofs; on the device TileSchedule
with its proofs, PingpongKernel and the proofs of its turns, of its
store buffers and of its tile slots, Sm100Kernel with its proofs, SplitKTurnstile and the proof of
its order, RowKernels with its proofs and RowTiling; and AllGather, at whose gates the load
warps of the kernels wait, with its proofs.

Next, in this order:

1. Proofs: the A/B and C rings of PingpongKernel (`ReadsOwnTile`).
2. `XdistDefer`: `testing/pytest_plugin.py` with a master, two workers, pool results in
   any order, wedges and worker deaths. Property: every collected test reports exactly
   once or the session fails. `BenchLoop`, the sweep's rotation, has the same shape.
3. Abstract specifications: an exactly-once work dispenser implemented by TileSchedule;
   an ordered reduction implemented by SplitKTurnstile. (That Autotuner's winner table is
   written once per key is the theorem `WinnersAreFinal`.)
4. `RunningBuckets` and `SortingNetworks` as pure operators against reference
   definitions; `ModRegistry`.
