------------------------------- MODULE Prewarm -------------------------------
(***************************************************************************)
(* precompile.materialize over the asynchronous compile pool: several      *)
(* processes prewarm the same keys on one shared cache directory, each     *)
(* with its own pool of compile workers (cache/precompile.py,              *)
(* cache/async_compile.py and the pool branch of the jit_cache wrapper in  *)
(* cache/jit.py).  Processes and workers meet on the per-key flock and on  *)
(* the object file only; ArtifactCache has the file protocol in detail.    *)
(***************************************************************************)
EXTENDS Naturals, FiniteSets, Sequences, SequencesExt

CONSTANTS
    Proc,          \* processes that prewarm
    Key,           \* cache keys
    Slots,         \* workers in one process's executor
    Cases          \* the circumstances considered, see below

Faults == {"lockTimeouts",  \* a flock acquisition may run into its deadline
           "exportFails",   \* an export may fail
           "unlinkFails",   \* a quarantined object may resist its unlink
           "workersDie",    \* a worker may be killed, which breaks its executor
           "mayStall"}      \* the 600 s stall guard may fire

ASSUME SlotsAssumption == Slots \in Nat \ {0}
ASSUME CasesAssumption ==
    /\ IsFiniteSet(Key)
    /\ Cases \subseteq
         [wanted : SUBSET Key,       \* the keys every process prewarms
          unshippable : SUBSET Key,  \* cannot be sent to a worker (<locals>, unpicklable)
          sessionPools : BOOLEAN,    \* a process may reuse a pool that has futures
          faults : SUBSET Faults]

VARIABLES
    case,       \* the circumstances of this behaviour
    obj,        \* obj[k]: "absent", "corrupt" or "sound"
    lock,       \* lock[k]: who holds LOCK_EX on the key, as <<process, role>>
    queue,      \* queue[p]: the rotation deque of materialize
    pc,         \* where materialize, or the wrapper it called, stands
    fut,        \* fut[p][k]: the key's future in p's pool
    early,      \* early[p]: futures submitted before p's attribution window
    ext,        \* ext[p]: keys marked as compiled by another process
    ledger,     \* ledger[p]: _LOCAL_COMPILES since the window opened
    carried,    \* carried[p]: keys whose worker compiled them for its task
    credited,   \* credited[p]: worker results read back by poll
    broken,     \* executors broken by the death of a worker
    authored,   \* authored[p]: what materialize counted
    made,       \* history: keys p or p's own submissions really compiled
    late        \* history: futures not finished when the results were merged

vars == <<case, obj, lock, queue, pc, fut, early, ext, ledger, carried, credited,
          broken, authored, made, late>>

disk == <<obj, lock>>
pool == <<fut, early, ext, carried, credited, broken>>
result == <<authored, late>>

Free == <<>>
Main(p) == <<p, "main">>
Worker(p) == <<p, "worker">>

Running == {"taken", "repairing", "compiling", "published", "returning"}
Stages == {"none", "queued", "done", "failed"} \cup Running
Ended == {"ok", "raised"}

TypeOK ==
    /\ case \in Cases
    /\ obj \in [Key -> {"absent", "corrupt", "sound"}]
    /\ lock \in [Key -> {Free} \cup {Main(p) : p \in Proc} \cup {Worker(p) : p \in Proc}]
    /\ \A p \in Proc : ToSet(queue[p]) \subseteq Key /\ IsInjective(queue[p])
    /\ pc \in [Proc -> {"loop", "poll", "external", "claim", "reload", "wantLock",
                        "quarantine", "compile", "unlock", "solo", "verify"} \cup Ended]
    /\ fut \in [Proc -> [Key -> Stages]]
    /\ early \in [Proc -> SUBSET Key] /\ ext \in [Proc -> SUBSET Key]
    /\ ledger \in [Proc -> SUBSET Key] /\ carried \in [Proc -> SUBSET Key]
    /\ credited \in [Proc -> SUBSET Key] /\ broken \in SUBSET Proc
    /\ authored \in [Proc -> SUBSET Key] /\ made \in [Proc -> SUBSET Key]
    /\ late \in [Proc -> SUBSET Key]

(***************************************************************************)
(* Every process has dropped its memory entries and its old ledger and     *)
(* opened the pool; a reused session pool already has futures in it.       *)
(***************************************************************************)
Init ==
    /\ case \in Cases
    /\ obj \in {o \in [Key -> {"absent", "corrupt", "sound"}] :
                   \A k \in Key \ case.wanted : o[k] = "sound"}
    /\ lock = [k \in Key |-> Free]
    /\ queue \in [Proc -> SetToSeqs(case.wanted)]
    /\ pc = [p \in Proc |-> "loop"]
    /\ early \in [Proc -> IF case.sessionPools THEN SUBSET (case.wanted \ case.unshippable) ELSE {{}}]
    /\ fut = [p \in Proc |-> [k \in Key |-> IF k \in early[p] THEN "queued" ELSE "none"]]
    /\ ext = [p \in Proc |-> {}]
    /\ ledger = [p \in Proc |-> {}] /\ carried = [p \in Proc |-> {}]
    /\ credited = [p \in Proc |-> {}] /\ broken = {}
    /\ authored = [p \in Proc |-> {}] /\ made = [p \in Proc |-> {}]
    /\ late = [p \in Proc |-> {}]

-----------------------------------------------------------------------------
(* The wrapper, called by the rotation loop for the key at the head. *)

Cur(p) == Head(queue[p])
May(fault) == fault \in case.faults
Goto(p, label) == pc' = [pc EXCEPT ![p] = label]

\* The call returned: the spec leaves the deque.
Return(p) == /\ queue' = [queue EXCEPT ![p] = Tail(@)]
             /\ Goto(p, "loop")

\* CompilePending: the spec goes to the back of the deque.
Defer(p) == /\ queue' = [queue EXCEPT ![p] = Append(Tail(@), Head(@))]
            /\ Goto(p, "loop")

Raise(p) == Goto(p, "raised")

\* A shared-lock load of an object that exists: wait for any exclusive holder.
SharedLoad(p, otherwise) ==
    \/ /\ lock[Cur(p)] = Free
       /\ IF obj[Cur(p)] = "sound" THEN Return(p)
                                  ELSE Goto(p, otherwise) /\ UNCHANGED queue
    \/ /\ May("lockTimeouts") /\ lock[Cur(p)] # Free
       /\ Goto(p, otherwise) /\ UNCHANGED queue

FastPath(p) ==
    /\ pc[p] = "loop" /\ queue[p] # <<>>
    /\ IF obj[Cur(p)] = "absent" THEN Goto(p, "poll") /\ UNCHANGED queue
                                 ELSE SharedLoad(p, "poll")
    /\ UNCHANGED <<disk, pool, ledger, made, result>>

\* Read a finished future back: its ledger is credited to its submission.
Credit(p, ks) == credited' = [credited EXCEPT ![p] = @ \cup (ks \cap carried[p])]

Poll(p) ==
    /\ pc[p] = "poll"
    /\ LET k == Cur(p) IN
       \/ /\ fut[p][k] = "none"
          /\ IF k \notin ext[p] THEN Goto(p, "claim") /\ UNCHANGED ext
             ELSE IF obj[k] # "absent"
                  THEN Goto(p, "reload") /\ ext' = [ext EXCEPT ![p] = @ \ {k}]
                  ELSE Goto(p, "external") /\ UNCHANGED ext
          /\ UNCHANGED <<queue, credited>>
       \/ /\ fut[p][k] \in {"queued"} \cup Running
          /\ Defer(p) /\ UNCHANGED <<ext, credited>>
       \/ /\ fut[p][k] = "done"
          /\ Credit(p, {k}) /\ Goto(p, "reload") /\ UNCHANGED <<queue, ext>>
       \/ /\ fut[p][k] = "failed"
          /\ Goto(p, "wantLock") /\ UNCHANGED <<queue, ext, credited>>
    /\ UNCHANGED <<disk, fut, early, carried, broken, ledger, made, result>>

\* Variation: an external key stays external until its object shows up.
PollExternalWaits(p) ==
    /\ pc[p] = "external"
    /\ Defer(p)
    /\ UNCHANGED <<disk, pool, ledger, made, result>>

\* The other process still holds the flock, or it went away without an object.
PollExternal(p) ==
    /\ pc[p] = "external"
    /\ IF lock[Cur(p)] # Free
       THEN Defer(p) /\ UNCHANGED ext
       ELSE /\ ext' = [ext EXCEPT ![p] = @ \ {Cur(p)}]
            /\ Goto(p, "claim") /\ UNCHANGED queue
    /\ UNCHANGED <<disk, fut, early, carried, credited, broken, ledger, made, result>>

\* A new key: defer on a peer that is compiling it, else ship it to a worker.
Claim(p) ==
    /\ pc[p] = "claim"
    /\ LET k == Cur(p) IN
       IF lock[k] # Free
       THEN /\ ext' = [ext EXCEPT ![p] = @ \cup {k}]
            /\ Defer(p) /\ UNCHANGED <<fut>>
       ELSE IF k \in case.unshippable
       THEN Goto(p, "wantLock") /\ UNCHANGED <<ext, queue, fut>>
       ELSE IF p \in broken
       THEN Raise(p) /\ UNCHANGED <<ext, queue, fut>>
       ELSE /\ fut' = [fut EXCEPT ![p][k] = "queued"]
            /\ Defer(p) /\ UNCHANGED <<ext>>
    /\ UNCHANGED <<disk, early, carried, credited, broken, ledger, made, authored, late>>

Reload(p) ==
    /\ pc[p] = "reload"
    /\ IF obj[Cur(p)] = "absent" THEN Goto(p, "wantLock") /\ UNCHANGED queue
                                 ELSE SharedLoad(p, "wantLock")
    /\ UNCHANGED <<disk, pool, ledger, made, result>>

-----------------------------------------------------------------------------
(* The in-process slow path. *)

\* Variation: the second look asks only whether the object exists.
LockAndCheckExists(p) ==
    /\ pc[p] = "wantLock"
    /\ lock[Cur(p)] = Free
    /\ IF obj[Cur(p)] # "absent"
       THEN Return(p) /\ UNCHANGED disk
       ELSE /\ lock' = [lock EXCEPT ![Cur(p)] = Main(p)]
            /\ Goto(p, "quarantine") /\ UNCHANGED <<obj, queue>>
    /\ UNCHANGED <<pool, ledger, made, result>>

\* Under the exclusive lock: load what is there, or clear it away and compile.
LockAndCheck(p) ==
    /\ pc[p] = "wantLock"
    /\ lock[Cur(p)] = Free
    /\ IF obj[Cur(p)] = "sound"
       THEN Return(p) /\ UNCHANGED disk
       ELSE /\ lock' = [lock EXCEPT ![Cur(p)] = Main(p)]
            /\ Goto(p, "quarantine") /\ UNCHANGED <<obj, queue>>
    /\ UNCHANGED <<pool, ledger, made, result>>

\* _quarantine_corrupt: an object that does not load is unlinked; an OSError is
\* swallowed and leaves it where it is.
Clear(k) ==
    \/ obj' = [obj EXCEPT ![k] = IF @ = "corrupt" THEN "absent" ELSE @]
    \/ May("unlinkFails") /\ UNCHANGED obj

Quarantine(p) ==
    /\ pc[p] = "quarantine"
    /\ Clear(Cur(p))
    /\ Goto(p, "compile")
    /\ UNCHANGED <<lock, queue, pool, ledger, made, result>>

LockTimeout(p) ==
    /\ pc[p] = "wantLock"
    /\ May("lockTimeouts") /\ lock[Cur(p)] # Free
    /\ Goto(p, "solo")
    /\ UNCHANGED <<disk, queue, pool, ledger, made, result>>

\* os.link fills an empty path and leaves anything else alone.
Link(k) == obj' = [obj EXCEPT ![k] = IF @ = "absent" THEN "sound" ELSE @]

MayExport(k) == Link(k) \/ (May("exportFails") /\ UNCHANGED obj)

Author(p, k) == /\ ledger' = [ledger EXCEPT ![p] = @ \cup {k}]
                /\ made' = [made EXCEPT ![p] = @ \cup {k}]

CompileLocked(p) ==
    /\ pc[p] = "compile"
    /\ Author(p, Cur(p))
    /\ MayExport(Cur(p))
    /\ Goto(p, "unlock")
    /\ UNCHANGED <<lock, queue, pool, result>>

\* fn raises: `finally` drops the lock and materialize passes the error on.
CompileRaises(p) ==
    /\ pc[p] \in {"compile", "solo"}
    /\ lock' = [lock EXCEPT ![Cur(p)] = IF @ = Main(p) THEN Free ELSE @]
    /\ Raise(p)
    /\ UNCHANGED <<obj, queue, pool, ledger, made, authored, late>>

Unlock(p) ==
    /\ pc[p] = "unlock"
    /\ lock' = [lock EXCEPT ![Cur(p)] = Free]
    /\ Return(p)
    /\ UNCHANGED <<obj, pool, ledger, made, result>>

CompileSolo(p) ==
    /\ pc[p] = "solo"
    /\ Author(p, Cur(p))
    /\ MayExport(Cur(p))
    /\ Return(p)
    /\ UNCHANGED <<lock, pool, result>>

-----------------------------------------------------------------------------
(* A pool worker: the same wrapper in another process, with no pool. *)

Stage(p, k, s) == fut' = [fut EXCEPT ![p][k] = s]

WorkerTake(p, k) ==
    /\ fut[p][k] = "queued"
    /\ Cardinality({j \in Key : fut[p][j] \in Running}) < Slots
    /\ Stage(p, k, "taken")
    /\ UNCHANGED <<disk, queue, pc, early, ext, carried, credited, broken,
                   ledger, made, result>>

WorkerLock(p, k) ==
    /\ fut[p][k] = "taken"
    /\ lock[k] = Free
    /\ IF obj[k] = "sound"
       THEN Stage(p, k, "returning") /\ UNCHANGED disk
       ELSE /\ lock' = [lock EXCEPT ![k] = Worker(p)]
            /\ Stage(p, k, "repairing") /\ UNCHANGED obj
    /\ UNCHANGED <<queue, pc, early, ext, carried, credited, broken, ledger, made, result>>

WorkerQuarantine(p, k) ==
    /\ fut[p][k] = "repairing"
    /\ Clear(k)
    /\ Stage(p, k, "compiling")
    /\ UNCHANGED <<lock, queue, pc, early, ext, carried, credited, broken,
                   ledger, made, result>>

\* The worker compiled for its task; a task of the window counts as p's.
WorkerMade(p, k) ==
    /\ carried' = [carried EXCEPT ![p] = @ \cup {k}]
    /\ made' = [made EXCEPT ![p] = IF k \in early[p] THEN @ ELSE @ \cup {k}]

WorkerTimeout(p, k) ==
    /\ fut[p][k] = "taken"
    /\ May("lockTimeouts") /\ lock[k] # Free
    /\ WorkerMade(p, k)
    /\ MayExport(k)
    /\ Stage(p, k, "returning")
    /\ UNCHANGED <<lock, queue, pc, early, ext, credited, broken, ledger, result>>

WorkerCompile(p, k) ==
    /\ fut[p][k] = "compiling"
    /\ WorkerMade(p, k)
    /\ MayExport(k)
    /\ Stage(p, k, "published")
    /\ UNCHANGED <<lock, queue, pc, early, ext, credited, broken, ledger, result>>

\* fn raises in the worker; the lock goes with the exception.
WorkerRaises(p, k) ==
    /\ fut[p][k] = "compiling"
    /\ lock' = [lock EXCEPT ![k] = Free]
    /\ Stage(p, k, "failed")
    /\ UNCHANGED <<obj, queue, pc, early, ext, carried, credited, broken,
                   ledger, made, result>>

WorkerUnlock(p, k) ==
    /\ fut[p][k] = "published"
    /\ lock' = [lock EXCEPT ![k] = Free]
    /\ Stage(p, k, "returning")
    /\ UNCHANGED <<obj, queue, pc, early, ext, carried, credited, broken,
                   ledger, made, result>>

\* _pool_worker checks the object, drains its ledger and ships both back; the
\* error path reports no compiled keys.
WorkerReturn(p, k) ==
    /\ fut[p][k] = "returning"
    /\ IF obj[k] # "absent"
       THEN Stage(p, k, "done") /\ UNCHANGED carried
       ELSE Stage(p, k, "failed") /\ carried' = [carried EXCEPT ![p] = @ \ {k}]
    /\ UNCHANGED <<disk, queue, pc, early, ext, credited, broken, ledger, made, result>>

\* One worker is killed: the executor breaks, every unfinished future fails,
\* its siblings are terminated and the kernel drops their flocks.
WorkerDies(p) ==
    /\ May("workersDie") /\ p \notin broken
    /\ \E k \in Key : fut[p][k] \in Running
    /\ fut' = [fut EXCEPT ![p] = [k \in Key |->
                   IF @[k] \in {"queued"} \cup Running THEN "failed" ELSE @[k]]]
    /\ carried' = [carried EXCEPT ![p] = {k \in @ : fut[p][k] \in {"done", "failed"}}]
    /\ lock' = [k \in Key |-> IF lock[k] = Worker(p) THEN Free ELSE lock[k]]
    /\ broken' = broken \cup {p}
    /\ UNCHANGED <<case, obj, queue, pc, early, ext, credited, ledger, made, result>>

-----------------------------------------------------------------------------
(* materialize around the calls. *)

\* Nothing completed for 600 s and the whole deque is outstanding.
StallGuard(p) ==
    /\ May("mayStall")
    /\ pc[p] = "loop" /\ queue[p] # <<>>
    /\ \A i \in 1..Len(queue[p]) :
          \/ fut[p][queue[p][i]] \in {"queued"} \cup Running
          \/ queue[p][i] \in ext[p]
    /\ Raise(p)
    /\ UNCHANGED <<case, disk, queue, pool, ledger, made, authored, late>>

\* Variation: only what poll happened to see during the rotation is counted.
AttributeUnmerged(p) ==
    /\ pc[p] = "loop" /\ queue[p] = <<>>
    /\ authored' = [authored EXCEPT ![p] = ledger[p] \cup (credited[p] \ early[p])]
    /\ late' = [late EXCEPT ![p] = {k \in Key : fut[p][k] \in Running}]
    /\ Goto(p, "verify")
    /\ UNCHANGED <<disk, queue, pool, ledger, made>>

\* Variation: the pool's cumulative set stands for this window's compiles.
AttributeCumulative(p) ==
    /\ pc[p] = "loop" /\ queue[p] = <<>>
    /\ LET done == {k \in Key : fut[p][k] = "done"}
       IN authored' = [authored EXCEPT ![p] = ledger[p] \cup (done \cap carried[p])]
    /\ late' = [late EXCEPT ![p] = {k \in Key : fut[p][k] \in Running}]
    /\ Goto(p, "verify")
    /\ UNCHANGED <<disk, queue, pool, ledger, made>>

\* Merge the finished futures, count, and leave the pool: the futures of a
\* temporary pool that have not started are cancelled.
Attribute(p) ==
    /\ pc[p] = "loop" /\ queue[p] = <<>>
    /\ LET finished == {k \in Key : fut[p][k] = "done"}
           merged == credited[p] \cup (finished \cap carried[p])
       IN /\ credited' = [credited EXCEPT ![p] = merged]
          /\ authored' = [authored EXCEPT ![p] = ledger[p] \cup (merged \ early[p])]
          /\ late' = [late EXCEPT ![p] = {k \in Key : fut[p][k] \in Running}]
    /\ fut' = [fut EXCEPT ![p] = [k \in Key |->
                   IF early[p] = {} /\ @[k] = "queued" THEN "failed" ELSE @[k]]]
    /\ Goto(p, "verify")
    /\ UNCHANGED <<disk, queue, early, ext, carried, broken, ledger, made>>

Verify(p) ==
    /\ pc[p] = "verify"
    /\ IF \A k \in Key : obj[k] # "absent" THEN Goto(p, "ok") ELSE Raise(p)
    /\ UNCHANGED <<disk, queue, pool, ledger, made, authored, late>>

MainStep(p) ==
    /\ \/ FastPath(p) \/ Poll(p) \/ PollExternal(p) \/ Claim(p) \/ Reload(p)
       \/ LockAndCheck(p) \/ LockTimeout(p) \/ Quarantine(p) \/ CompileLocked(p)
       \/ CompileRaises(p) \/ Unlock(p) \/ CompileSolo(p) \/ Attribute(p) \/ Verify(p)
    /\ UNCHANGED case

WorkerStep(p, k) ==
    /\ \/ WorkerTake(p, k) \/ WorkerLock(p, k) \/ WorkerTimeout(p, k)
       \/ WorkerQuarantine(p, k) \/ WorkerCompile(p, k) \/ WorkerRaises(p, k)
       \/ WorkerUnlock(p, k) \/ WorkerReturn(p, k)
    /\ UNCHANGED case

Next == \E p \in Proc :
            \/ MainStep(p) \/ StallGuard(p) \/ WorkerDies(p)
            \/ \E k \in Key : WorkerStep(p, k)

Spec == Init /\ [][Next]_vars

\* Every process runs and every worker gets its turn.  Weak fairness is enough
\* for the flock, which its waiters poll: it is taken finitely often.
Fairness ==
    \A p \in Proc :
        /\ WF_vars(MainStep(p))
        /\ \A k \in Key : WF_vars(WorkerStep(p, k))

FairSpec == Spec /\ Fairness

-----------------------------------------------------------------------------
Faultless == case.faults \subseteq {"mayStall"}

\* A prewarm never counts a compile that is not its own, not a peer's and not
\* one that an earlier user of the same pool submitted; and what it fails to
\* count is only what its workers had published but not yet reported when the
\* results were merged.
CountsAreMineOrLate ==
    \A p \in Proc :
        /\ authored[p] \subseteq made[p]
        /\ Faultless /\ pc[p] = "ok" => made[p] \ authored[p] \subseteq late[p]

\* materialize succeeds only with a loadable object for every key: a corrupt
\* one is quarantined and recompiled instead of being bypassed, unless its lock
\* could not be had in time or its file could not be unlinked.  In those two
\* cases the existence that materialize verifies is all that is left.
SuccessMeansSound ==
    ~May("lockTimeouts") /\ ~May("unlinkFails") =>
        \A p \in Proc : pc[p] = "ok" => \A k \in Key : obj[k] = "sound"

\* Processes that defer to one another's workers, and workers that queue behind
\* one another's locks in full pools, never wait in a circle: every prewarm
\* ends, without the stall guard.
EveryPrewarmEnds == \A p \in Proc : <>(pc[p] \in Ended)
==============================================================================
