------------------------------ MODULE Autotuner ------------------------------
(***************************************************************************)
(* How a tuned operator call resolves its configuration (autotuner.py):    *)
(* the per-process memory of winners, the winner file of each key, the     *)
(* winner file of each operator contract, the benchmark lock between       *)
(* processes, the RUNNING quota and the prepared RUNNING buckets.  A key   *)
(* is one shape bucket; a contract is what its buckets have in common.     *)
(* The benchmark itself is one step here: which configuration it picks is  *)
(* a measurement, so any candidate may win.                                *)
(***************************************************************************)
EXTENDS FiniteSets

CONSTANTS
    Proc,        \* processes (ranks) sharing one cache directory
    Key,         \* shape buckets
    Contract,    \* operator contracts
    Config,      \* kernel configurations
    None,
    ContractOf,  \* the contract of each key
    Space,       \* the candidate list of each key, as a set
    Ranked,      \* the analytical ranker's choice for each key
    Modes,       \* tune modes: "TUNED", "RUNNING", "STATIC", "legacy"
    Workloads    \* the cases considered: the modes and buckets callers use,
                 \* whether the operator's policy prepares every bucket for
                 \* RUNNING, the processes under DLKERNEL_REQUIRE_TUNE_CACHE=1,
                 \* whether DLKERNEL_FORCE_CACHE_UPDATE is set, and whether
                 \* writing a winner file may fail

ASSUME ModelAssumption ==
    /\ ContractOf \in [Key -> Contract]
    /\ Space \in [Key -> SUBSET Config]
    /\ Ranked \in [Key -> Config]
    /\ Workloads \subseteq [prepares : BOOLEAN, modes : SUBSET Modes, keys : SUBSET Key,
                              require : SUBSET Proc, force : BOOLEAN, putFails : BOOLEAN]
    /\ None \notin Config \cup Proc
    /\ Key # {} /\ Modes # {}

VARIABLES
    workload,    \* the operator and its callers, the same for ever
    winner,      \* winner[k]: the published {fn}.autotune.json of the key
    contractFile,\* contractFile[c]: the published contract_winners file
    lock,        \* lock[k]: holder of the benchmark lock
    cache,       \* cache[p][k]: winners in memory
    contractWin, \* contractWin[p][c]: _contract_winners
    memo,        \* memo[p][k]: _reuse_resolved
    measured,    \* measured[p]: _measured_contracts
    prepared,    \* prepared[p][k]: _running_cache
    ready,       \* ready[p]: _running_ready
    pc, key, mode, config,   \* the call in progress in each process
    plan,        \* plan[p]: the choices _prewarm_running is compiling
    due,         \* history: the winner published for the key when the call began
    sweeps       \* history: RUNNING sweeps done by the process, per contract

disk == <<winner, contractFile>>
memory == <<cache, contractWin, memo, measured, prepared, ready>>
call == <<key, mode, plan, due>>
vars == <<workload, winner, contractFile, lock, cache, contractWin, memo, measured,
          prepared, ready, pc, key, mode, config, plan, due, sweeps>>

Maybe(S) == S \cup {None}
Labels == {"idle", "lookup", "memo", "dispatch", "diskRead", "wantLock", "recheck",
           "sweep", "put", "loadDisk", "reuse", "record", "recordFile",
           "prepare", "publish", "returned", "raised"}

TypeOK ==
    /\ workload \in Workloads
    /\ winner \in [Key -> Maybe(Config)]
    /\ contractFile \in [Contract -> Maybe(Config)]
    /\ lock \in [Key -> Maybe(Proc)]
    /\ cache \in [Proc -> [Key -> Maybe(Config)]]
    /\ contractWin \in [Proc -> [Contract -> Maybe(Config)]]
    /\ memo \in [Proc -> [Key -> Maybe(Config)]]
    /\ measured \in [Proc -> SUBSET Contract]
    /\ prepared \in [Proc -> [Key -> Maybe(Config)]]
    /\ ready \in [Proc -> SUBSET Contract]
    /\ pc \in [Proc -> Labels]
    /\ key \in [Proc -> Key] /\ mode \in [Proc -> Modes]
    /\ config \in [Proc -> Maybe(Config)]
    /\ plan \in [Proc -> [Key -> Maybe(Config)]]
    /\ due \in [Proc -> Maybe(Config)]
    /\ sweeps \in [Proc -> [Contract -> {"none", "once", "again"}]]

Nothing == [k \in Key |-> None]

Init ==
    /\ workload \in Workloads
    /\ winner = Nothing
    /\ contractFile = [c \in Contract |-> None]
    /\ lock = Nothing
    /\ cache = [p \in Proc |-> Nothing]
    /\ contractWin = [p \in Proc |-> [c \in Contract |-> None]]
    /\ memo = [p \in Proc |-> Nothing]
    /\ measured = [p \in Proc |-> {}]
    /\ prepared = [p \in Proc |-> Nothing]
    /\ ready = [p \in Proc |-> {}]
    /\ pc = [p \in Proc |-> "idle"]
    /\ key \in [Proc -> {CHOOSE k \in Key : TRUE}]
    /\ mode \in [Proc -> {CHOOSE m \in Modes : TRUE}]
    /\ config = [p \in Proc |-> None]
    /\ plan = [p \in Proc |-> Nothing]
    /\ due = [p \in Proc |-> None]
    /\ sweeps = [p \in Proc |-> [c \in Contract |-> "none"]]

Goto(p, label) == pc' = [pc EXCEPT ![p] = label]
Use(p, c) == config' = [config EXCEPT ![p] = c]
Con(p) == ContractOf[key[p]]
PreparedCall(p) == mode[p] = "RUNNING" /\ workload.prepares

\* Once the configuration is known: prepare the other buckets, or run.
Resolved(p) == Goto(p, IF PreparedCall(p) THEN "prepare" ELSE "returned")

Call(p, k, m) ==
    /\ pc[p] = "idle" /\ m \in workload.modes /\ k \in workload.keys
    /\ key' = [key EXCEPT ![p] = k]
    /\ mode' = [mode EXCEPT ![p] = m]
    /\ due' = [due EXCEPT ![p] = winner[k]]
    /\ Goto(p, "lookup")
    /\ UNCHANGED <<workload, disk, lock, memory, config, plan, sweeps>>

(***************************************************************************)
(* Memory: the prepared bucket, the winner, the reuse memo.                *)
(***************************************************************************)
Lookup(p) ==
    /\ pc[p] = "lookup"
    /\ LET k == key[p] IN
       \/ /\ PreparedCall(p) /\ prepared[p][k] # None
          /\ Use(p, IF cache[p][k] # None THEN cache[p][k] ELSE prepared[p][k])
          /\ Goto(p, "returned")
       \/ /\ ~(PreparedCall(p) /\ prepared[p][k] # None)
          /\ cache[p][k] # None
          /\ Use(p, cache[p][k]) /\ Resolved(p)
       \/ /\ ~(PreparedCall(p) /\ prepared[p][k] # None)
          /\ cache[p][k] = None
          /\ Goto(p, IF memo[p][k] # None /\ mode[p] \in {"STATIC", "RUNNING"}
                        /\ ~PreparedCall(p)
                     THEN "memo" ELSE "dispatch")
          /\ UNCHANGED config
    /\ UNCHANGED <<workload, disk, lock, memory, call, sweeps>>

\* Variation: the memo is trusted without looking for a published winner.
MemoSticks(p) ==
    /\ pc[p] = "memo"
    /\ Use(p, memo[p][key[p]]) /\ Goto(p, "returned")
    /\ UNCHANGED <<workload, disk, lock, memory, call, sweeps>>

\* One stat per call: the memo dies when a winner file for the key appears.
Memo(p) ==
    /\ pc[p] = "memo"
    /\ LET k == key[p] IN
       IF winner[k] # None
       THEN /\ memo' = [memo EXCEPT ![p][k] = None]
            /\ Goto(p, "dispatch") /\ UNCHANGED config
       ELSE /\ Use(p, memo[p][k]) /\ Goto(p, "returned") /\ UNCHANGED memo
    /\ UNCHANGED <<workload, disk, lock, cache, contractWin, measured, prepared, ready, call, sweeps>>

\* Variation: the spent quota is not looked at.
TuneAlways(p) == mode[p] # "STATIC"

TuneNow(p) ==
    \/ mode[p] \in {"legacy", "TUNED"}
    \/ mode[p] = "RUNNING" /\ Con(p) \notin measured[p] \cup ready[p]

Dispatch(p) ==
    /\ pc[p] = "dispatch"
    /\ Goto(p, IF TuneNow(p) THEN "diskRead" ELSE "loadDisk")
    /\ UNCHANGED <<workload, disk, lock, memory, config, call, sweeps>>

(***************************************************************************)
(* check_disk_cache: load the winner, or measure it under the lock.        *)
(***************************************************************************)
OnDisk(k) == winner[k] # None /\ ~workload.force

LoadInto(p, k) == cache' = [cache EXCEPT ![p][k] = winner[k]]

Raise(p) == Goto(p, "raised") /\ Use(p, None)

DiskRead(p) ==
    /\ pc[p] = "diskRead"
    /\ IF OnDisk(key[p])
       THEN LoadInto(p, key[p]) /\ Goto(p, "record") /\ UNCHANGED config
       ELSE IF p \in workload.require THEN Raise(p) /\ UNCHANGED cache
                       ELSE Goto(p, "wantLock") /\ UNCHANGED <<cache, config>>
    /\ UNCHANGED <<workload, disk, lock, contractWin, memo, measured, prepared, ready, call, sweeps>>

Acquire(p) ==
    /\ pc[p] = "wantLock"
    /\ lock[key[p]] = None
    /\ lock' = [lock EXCEPT ![key[p]] = p]
    /\ Goto(p, "recheck")
    /\ UNCHANGED <<workload, disk, memory, config, call, sweeps>>

\* Variation: the wait for the lock is unbounded.
LockTimeoutNever(p) ==
    /\ FALSE
    /\ UNCHANGED vars

LockTimeout(p) ==
    /\ pc[p] = "wantLock"
    /\ lock[key[p]] # None
    /\ Raise(p)
    /\ UNCHANGED <<workload, disk, lock, memory, call, sweeps>>

Release(p) == lock' = [lock EXCEPT ![key[p]] = None]

\* Variation: the winner is not looked up again under the lock.
RecheckSkipped(p) ==
    /\ pc[p] = "recheck"
    /\ Goto(p, "sweep")
    /\ UNCHANGED <<workload, disk, lock, memory, config, call, sweeps>>

Recheck(p) ==
    /\ pc[p] = "recheck"
    /\ IF OnDisk(key[p])
       THEN LoadInto(p, key[p]) /\ Release(p) /\ Goto(p, "record")
       ELSE Goto(p, "sweep") /\ UNCHANGED <<cache, lock>>
    /\ UNCHANGED <<workload, disk, contractWin, memo, measured, prepared, ready, config, call, sweeps>>

\* The benchmark picks a finite minimum, or every candidate failed and it raises.
Sweep(p) ==
    /\ pc[p] = "sweep"
    /\ \E c \in Space[key[p]] : cache' = [cache EXCEPT ![p][key[p]] = c]
    /\ sweeps' = IF mode[p] # "RUNNING" THEN sweeps
                 ELSE [sweeps EXCEPT ![p][Con(p)] = IF @ = "none" THEN "once" ELSE "again"]
    /\ Goto(p, "put")
    /\ UNCHANGED <<workload, disk, lock, contractWin, memo, measured, prepared, ready, config, call>>

SweepFails(p) ==
    /\ pc[p] = "sweep"
    /\ Release(p) /\ Raise(p)
    /\ UNCHANGED <<workload, disk, memory, call, sweeps>>

\* cache.put, the end of the locked region, and the quota.
Put(p) ==
    /\ pc[p] = "put"
    /\ winner' = [winner EXCEPT ![key[p]] = cache[p][key[p]]]
    /\ Release(p)
    /\ measured' = IF mode[p] = "legacy" THEN measured
                   ELSE [measured EXCEPT ![p] = @ \cup {Con(p)}]
    /\ Goto(p, "record")
    /\ UNCHANGED <<workload, contractFile, cache, contractWin, memo, prepared, ready, config, call, sweeps>>

PutRaises(p) ==
    /\ workload.putFails
    /\ pc[p] = "put"
    /\ Release(p) /\ Raise(p)
    /\ UNCHANGED <<workload, disk, memory, call, sweeps>>

(***************************************************************************)
(* A miss that may not measure: the published winner, the ranker's choice  *)
(* for a prepared bucket, the contract's winner, the analytical fallback.  *)
(***************************************************************************)
LoadDisk(p) ==
    /\ pc[p] = "loadDisk"
    /\ LET k == key[p] IN
       IF OnDisk(k)
       THEN LoadInto(p, k) /\ Goto(p, "record") /\ UNCHANGED config
       ELSE /\ UNCHANGED cache
            /\ IF PreparedCall(p) THEN Use(p, Ranked[k]) /\ Goto(p, "prepare")
                                  ELSE Goto(p, "reuse") /\ UNCHANGED config
    /\ UNCHANGED <<workload, disk, lock, contractWin, memo, measured, prepared, ready, call, sweeps>>

Transfer(p, c) ==
    /\ Use(p, c)
    /\ memo' = [memo EXCEPT ![p][key[p]] = c]
    /\ Goto(p, "returned")

\* No winner anywhere: the operator resolves its own configuration, unless the
\* caller demanded a measured one.
Fallback(p) ==
    IF p \in workload.require THEN Raise(p) ELSE Use(p, None) /\ Goto(p, "returned")

\* Variation: the recorded winner is transferred whatever the bucket's space.
ReuseAnywhere(p) ==
    /\ pc[p] = "reuse"
    /\ LET c == contractWin[p][Con(p)] IN
       IF c # None THEN Transfer(p, c) ELSE Fallback(p) /\ UNCHANGED memo
    /\ UNCHANGED <<workload, disk, lock, cache, contractWin, measured, prepared, ready, call, sweeps>>

\* Memory first, then the contract's file; a configuration outside this key's
\* candidates is not run.  The fallback is neither remembered nor published.
Reuse(p) ==
    /\ pc[p] = "reuse"
    /\ LET mem == contractWin[p][Con(p)]
           file == contractFile[Con(p)]
           found == IF mem # None THEN mem ELSE file
       IN /\ IF found \in Space[key[p]]
             THEN Transfer(p, found)
             ELSE Fallback(p) /\ UNCHANGED memo
          /\ contractWin' = [contractWin EXCEPT ![p][Con(p)] =
                 IF mem # None THEN mem
                 ELSE IF file \in Space[key[p]] THEN file ELSE None]
    /\ UNCHANGED <<workload, disk, lock, cache, measured, prepared, ready, call, sweeps>>

(***************************************************************************)
(* A winner landed: it becomes the contract's, in memory and then on disk. *)
(***************************************************************************)
Record(p) ==
    /\ pc[p] = "record"
    /\ Use(p, cache[p][key[p]])
    /\ IF mode[p] = "legacy"
       THEN Resolved(p) /\ UNCHANGED contractWin
       ELSE /\ contractWin' = [contractWin EXCEPT ![p][Con(p)] = cache[p][key[p]]]
            /\ Goto(p, "recordFile")
    /\ UNCHANGED <<workload, disk, lock, cache, memo, measured, prepared, ready, call, sweeps>>

\* mkstemp and os.replace, last writer wins; an OSError is swallowed.
RecordFile(p) ==
    /\ pc[p] = "recordFile"
    /\ \/ contractFile' = [contractFile EXCEPT ![Con(p)] = contractWin[p][Con(p)]]
       \/ UNCHANGED contractFile
    /\ Resolved(p)
    /\ UNCHANGED <<workload, winner, lock, memory, config, call, sweeps>>

(***************************************************************************)
(* _prewarm_running: choose for every bucket of the contract, compile, and *)
(* only then publish the choices.                                          *)
(***************************************************************************)
Buckets(p) == {k \in Key : ContractOf[k] = Con(p)}

Prepare(p) ==
    /\ pc[p] = "prepare"
    /\ LET found(k) == IF cache[p][k] # None THEN cache[p][k]
                       ELSE IF OnDisk(k) THEN winner[k] ELSE None
           choice(k) == IF k = key[p] THEN config[p]
                        ELSE IF found(k) # None THEN found(k) ELSE Ranked[k]
       IN /\ cache' = [cache EXCEPT ![p] =
                 [k \in Key |-> IF k \in Buckets(p) THEN found(k) ELSE @[k]]]
          /\ plan' = [plan EXCEPT ![p] =
                 [k \in Key |-> IF k \in Buckets(p) THEN choice(k) ELSE None]]
    /\ Goto(p, "publish")
    /\ UNCHANGED <<workload, disk, lock, contractWin, memo, measured, prepared, ready,
                   key, mode, config, due, sweeps>>

Publish(p) ==
    /\ pc[p] = "publish"
    /\ prepared' = [prepared EXCEPT ![p] =
           [k \in Key |-> IF k \in Buckets(p) THEN plan[p][k] ELSE @[k]]]
    /\ ready' = [ready EXCEPT ![p] = @ \cup {Con(p)}]
    /\ plan' = [plan EXCEPT ![p] = Nothing]
    /\ Goto(p, "returned")
    /\ UNCHANGED <<workload, disk, lock, cache, contractWin, memo, measured,
                   key, mode, config, due, sweeps>>

\* precompile raised: nothing of the preparation is kept.
PrepareFails(p) ==
    /\ pc[p] = "publish"
    /\ plan' = [plan EXCEPT ![p] = Nothing]
    /\ Raise(p)
    /\ UNCHANGED <<workload, disk, lock, memory, key, mode, due, sweeps>>

\* The operator ran (or the call raised); forget the call.
Return(p) ==
    /\ pc[p] \in {"returned", "raised"}
    /\ Goto(p, "idle")
    /\ Use(p, None)
    /\ key' = [key EXCEPT ![p] = CHOOSE k \in Key : TRUE]
    /\ mode' = [mode EXCEPT ![p] = CHOOSE m \in Modes : TRUE]
    /\ due' = [due EXCEPT ![p] = None]
    /\ UNCHANGED <<workload, disk, lock, memory, plan, sweeps>>

\* The process dies and a new one takes its place; the kernel drops its lock.
Crash(p) ==
    /\ pc' = [pc EXCEPT ![p] = "idle"]
    /\ lock' = [k \in Key |-> IF lock[k] = p THEN None ELSE lock[k]]
    /\ cache' = [cache EXCEPT ![p] = Nothing]
    /\ contractWin' = [contractWin EXCEPT ![p] = [c \in Contract |-> None]]
    /\ memo' = [memo EXCEPT ![p] = Nothing]
    /\ measured' = [measured EXCEPT ![p] = {}]
    /\ prepared' = [prepared EXCEPT ![p] = Nothing]
    /\ ready' = [ready EXCEPT ![p] = {}]
    /\ Use(p, None)
    /\ key' = [key EXCEPT ![p] = CHOOSE k \in Key : TRUE]
    /\ mode' = [mode EXCEPT ![p] = CHOOSE m \in Modes : TRUE]
    /\ plan' = [plan EXCEPT ![p] = Nothing]
    /\ due' = [due EXCEPT ![p] = None]
    /\ sweeps' = [sweeps EXCEPT ![p] = [c \in Contract |-> "none"]]
    /\ UNCHANGED <<workload, disk>>

Step(p) ==
    \/ Lookup(p) \/ Memo(p) \/ Dispatch(p)
    \/ DiskRead(p) \/ Acquire(p) \/ LockTimeout(p) \/ Recheck(p)
    \/ Sweep(p) \/ SweepFails(p) \/ Put(p) \/ PutRaises(p)
    \/ LoadDisk(p) \/ Reuse(p) \/ Record(p) \/ RecordFile(p)
    \/ Prepare(p) \/ Publish(p) \/ PrepareFails(p) \/ Return(p)

Next == \E p \in Proc :
            \/ Step(p) \/ Crash(p)
            \/ \E k \in Key, m \in Modes : Call(p, k, m)

Spec == Init /\ [][Next]_vars

-----------------------------------------------------------------------------
\* Every winner in memory is the published one, so ranks that share a cache
\* directory run the same configuration and nobody replaces a winner that others
\* have loaded; only the process that has just measured a key, and still holds
\* its lock, is ahead of the file.
WinnersAgree ==
    ~workload.force /\ ~workload.putFails =>
        \A p \in Proc, k \in Key :
            cache[p][k] # None =>
                \/ winner[k] = cache[p][k]
                \/ pc[p] = "put" /\ key[p] = k /\ lock[k] = p /\ winner[k] = None

\* RUNNING measures a contract at most once per process, however its calls mix
\* with other modes, disk loads and other buckets.
RunningQuota ==
    ~workload.putFails => \A p \in Proc, c \in Contract : sweeps[p][c] # "again"

\* A winner another process has published before a call begins is the one the
\* call runs: no memo, fallback or transferred winner hides it.  (A bucket that
\* RUNNING has prepared answers from memory by design.)
PeerWinnerIsPickedUp ==
    ~workload.force /\ ~workload.putFails =>
        \A p \in Proc : pc[p] = "returned" /\ due[p] # None /\ ~PreparedCall(p)
                            => config[p] = due[p]

\* A call never runs a configuration outside its key's candidates, although
\* winners travel between the buckets of a contract and between processes.
NeverForeign ==
    \A p \in Proc : pc[p] = "returned" /\ ~PreparedCall(p)
                        => config[p] \in Maybe(Space[key[p]])

\* A process inside a call can always take its next step by itself, even when
\* the holder of the benchmark lock is stuck: a call is a finite path, so it ends.
NeverBlocks == \A p \in Proc : pc[p] # "idle" => ENABLED Step(p)
=============================================================================
