---------------------------- MODULE ArtifactCache ----------------------------
(***************************************************************************)
(* The jit_cache wrapper (cache/jit.py) as many processes call it for one  *)
(* key with no compile pool active: memory probe, shared-lock fast path,   *)
(* exclusive-lock slow path, the unlocked path taken after a lock timeout, *)
(* and publication of the exported object by a no-clobber hard link.       *)
(*                                                                         *)
(* Locks, objects and temporary files are per key and keys never contend,  *)
(* so one key is the whole story.  A build is identified with the caller   *)
(* that compiled it: two builds of one key are interchangeable kernels but *)
(* different files.                                                        *)
(***************************************************************************)
CONSTANTS
    Caller,       \* the processes (or threads) that request the key
    Absent,       \* no object at the final path / nothing in memory
    Corrupt,      \* an object at the final path that does not load
    NoOne,        \* nobody holds the exclusive flock
    FlakyLoad     \* TRUE when loading a sound object may still raise

ASSUME SentinelAssumption ==
    /\ Absent \notin Caller
    /\ Corrupt \notin Caller
    /\ NoOne \notin Caller
    /\ Absent # Corrupt
ASSUME FlakyAssumption == FlakyLoad \in BOOLEAN

VARIABLES
    obj,          \* what {sha}.o holds: Absent, Corrupt or a whole build
    writer,       \* holder of LOCK_EX on {sha}.lock
    readers,      \* holders of LOCK_SH on {sha}.lock
    pc,           \* where each caller is in the wrapper
    mem,          \* the wrapper's in-process cache entry
    tmp,          \* the caller's private mkstemp file
    ledger,       \* callers whose process recorded a local compile
    mishap        \* history: a lock timeout, crash, failed export, failed unlink
                  \* of a quarantined object, or flaky load

cacheVars == <<obj, writer, readers, pc, mem, tmp, ledger, mishap>>

Locked == {"lockedCheck", "lockedLoad", "unlink", "lockedCompile",
           "lockedExport", "lockedPublish", "lockedKeep", "unlock"}
Shared == {"fastCheck", "fastLoad"}
Waiting == {"probe", "wantShared", "wantExclusive"}
Solo == {"soloCompile", "soloExport", "soloPublish", "soloKeep"}
InCall == Locked \cup Shared \cup Waiting \cup Solo \cup {"disabled"}

CacheTypeOK ==
    /\ obj \in {Absent, Corrupt} \cup Caller
    /\ writer \in {NoOne} \cup Caller
    /\ readers \in SUBSET Caller
    /\ pc \in [Caller -> InCall \cup {"idle", "dead"}]
    /\ mem \in [Caller -> {Absent} \cup Caller]
    /\ tmp \in [Caller -> {"none", "partial", "whole"}]
    /\ ledger \in SUBSET Caller
    /\ mishap \in BOOLEAN

CacheInit ==
    /\ obj \in {Absent, Corrupt} \cup Caller     \* the cache outlives processes
    /\ writer = NoOne
    /\ readers = {}
    /\ pc = [c \in Caller |-> "idle"]
    /\ mem = [c \in Caller |-> Absent]
    /\ tmp = [c \in Caller |-> "none"]
    /\ ledger = {}
    /\ mishap = FALSE

Goto(c, label) == pc' = [pc EXCEPT ![c] = label]

Loads(ok) == IF ok THEN obj \in Caller
             ELSE obj \notin Caller \/ FlakyLoad

(***************************************************************************)
(* Entry: memory hit, disabled cache, or the disk path.                    *)
(***************************************************************************)
CacheCall(c) ==
    /\ pc[c] = "idle"
    /\ mem[c] = Absent
    /\ \E label \in {"probe", "disabled"} : Goto(c, label)
    /\ UNCHANGED <<obj, writer, readers, mem, tmp, ledger, mishap>>

CompileDisabled(c) ==
    /\ pc[c] = "disabled"
    /\ mem' \in {mem, [mem EXCEPT ![c] = c]}      \* fn may raise
    /\ Goto(c, "idle")
    /\ UNCHANGED <<obj, writer, readers, tmp, ledger, mishap>>

Probe(c) ==
    /\ pc[c] = "probe"
    /\ Goto(c, IF obj # Absent THEN "wantShared" ELSE "wantExclusive")
    /\ UNCHANGED <<obj, writer, readers, mem, tmp, ledger, mishap>>

(***************************************************************************)
(* Fast path, under the shared lock.                                       *)
(***************************************************************************)
AcquireShared(c) ==
    /\ pc[c] = "wantShared"
    /\ writer = NoOne
    /\ readers' = readers \cup {c}
    /\ Goto(c, "fastCheck")
    /\ UNCHANGED <<obj, writer, mem, tmp, ledger, mishap>>

TimeoutShared(c) ==
    /\ pc[c] = "wantShared"
    /\ Goto(c, "wantExclusive")
    /\ UNCHANGED <<obj, writer, readers, mem, tmp, ledger, mishap>>

LeaveFast(c, label) ==
    /\ readers' = readers \ {c}
    /\ Goto(c, label)

FastCheck(c) ==
    /\ pc[c] = "fastCheck"
    /\ IF obj # Absent THEN Goto(c, "fastLoad") /\ UNCHANGED readers
                       ELSE LeaveFast(c, "wantExclusive")
    /\ UNCHANGED <<obj, writer, mem, tmp, ledger, mishap>>

FastHit(c) ==
    /\ pc[c] = "fastLoad"
    /\ Loads(TRUE)
    /\ mem' = [mem EXCEPT ![c] = obj]
    /\ LeaveFast(c, "idle")
    /\ UNCHANGED <<obj, writer, tmp, ledger, mishap>>

\* Variation: a shared reader repairs the entry on the spot.
FastMissUnlinks(c) ==
    /\ pc[c] = "fastLoad"
    /\ Loads(FALSE)
    /\ LeaveFast(c, "wantExclusive")
    /\ obj' = Absent
    /\ mishap' = (mishap \/ obj \in Caller)
    /\ UNCHANGED <<writer, mem, tmp, ledger>>

\* A shared reader never unlinks; the exclusive path re-examines the object.
FastMiss(c) ==
    /\ pc[c] = "fastLoad"
    /\ Loads(FALSE)
    /\ LeaveFast(c, "wantExclusive")
    /\ mishap' = (mishap \/ obj \in Caller)
    /\ UNCHANGED <<obj, writer, mem, tmp, ledger>>

(***************************************************************************)
(* Slow path, under the exclusive lock.                                    *)
(***************************************************************************)
AcquireExclusive(c) ==
    /\ pc[c] = "wantExclusive"
    /\ writer = NoOne /\ readers = {}
    /\ writer' = c
    /\ Goto(c, "lockedCheck")
    /\ UNCHANGED <<obj, readers, mem, tmp, ledger, mishap>>

\* Variation: the exclusive acquisition has no deadline.
TimeoutExclusiveNever(c) == FALSE /\ UNCHANGED cacheVars

TimeoutExclusive(c) ==
    /\ pc[c] = "wantExclusive"
    /\ Goto(c, "soloCompile")
    /\ mishap' = TRUE
    /\ UNCHANGED <<obj, writer, readers, mem, tmp, ledger>>

\* Variation: no second existence check once the lock is held.
LockedCheckSkipped(c) ==
    /\ pc[c] = "lockedCheck"
    /\ Goto(c, "lockedCompile")
    /\ UNCHANGED <<obj, writer, readers, mem, tmp, ledger, mishap>>

LockedCheck(c) ==
    /\ pc[c] = "lockedCheck"
    /\ Goto(c, IF obj # Absent THEN "lockedLoad" ELSE "lockedCompile")
    /\ UNCHANGED <<obj, writer, readers, mem, tmp, ledger, mishap>>

LockedHit(c) ==
    /\ pc[c] = "lockedLoad"
    /\ Loads(TRUE)
    /\ mem' = [mem EXCEPT ![c] = obj]
    /\ Goto(c, "unlock")
    /\ UNCHANGED <<obj, writer, readers, tmp, ledger, mishap>>

LockedMiss(c) ==
    /\ pc[c] = "lockedLoad"
    /\ Loads(FALSE)
    /\ Goto(c, "unlink")
    /\ mishap' = (mishap \/ obj \in Caller)
    /\ UNCHANGED <<obj, writer, readers, mem, tmp, ledger>>

Quarantine(c) ==
    /\ pc[c] = "unlink"
    /\ obj' = Absent
    /\ Goto(c, "lockedCompile")
    /\ UNCHANGED <<writer, readers, mem, tmp, ledger, mishap>>

\* unlink() raised: the OSError is swallowed and the compile goes ahead with the
\* object that did not load still at the final path.
QuarantineFails(c) ==
    /\ pc[c] = "unlink"
    /\ Goto(c, "lockedCompile")
    /\ mishap' = TRUE
    /\ UNCHANGED <<obj, writer, readers, mem, tmp, ledger>>

(***************************************************************************)
(* Compile, export to a private file, publish, keep.  The same four steps  *)
(* run with the exclusive lock held and, after a timeout, without it.      *)
(***************************************************************************)
\* Variation: the lock is dropped before the export instead of after it.
CompileUnlocks(c) ==
    /\ pc[c] \in {"lockedCompile", "soloCompile"}
    /\ Goto(c, "soloExport")
    /\ writer' = IF writer = c THEN NoOne ELSE writer
    /\ ledger' = ledger \cup {c}
    /\ UNCHANGED <<obj, readers, mem, tmp, mishap>>

Compile(c) ==
    /\ pc[c] \in {"lockedCompile", "soloCompile"}
    /\ Goto(c, IF pc[c] = "lockedCompile" THEN "lockedExport" ELSE "soloExport")
    /\ ledger' = ledger \cup {c}
    /\ UNCHANGED <<obj, writer, readers, mem, tmp, mishap>>

\* fn raises: the exception leaves through `finally: lock.__exit__`.
CompileRaises(c) ==
    /\ pc[c] \in {"lockedCompile", "soloCompile"}
    /\ Goto(c, IF pc[c] = "lockedCompile" THEN "unlock" ELSE "idle")
    /\ UNCHANGED <<obj, writer, readers, mem, tmp, ledger, mishap>>

ReserveTmp(c) ==
    /\ pc[c] \in {"lockedExport", "soloExport"}
    /\ Goto(c, IF pc[c] = "lockedExport" THEN "lockedPublish" ELSE "soloPublish")
    /\ tmp' = [tmp EXCEPT ![c] = "partial"]
    /\ UNCHANGED <<obj, writer, readers, mem, ledger, mishap>>

AfterExport(c) == IF pc[c] = "lockedPublish" THEN "lockedKeep" ELSE "soloKeep"

WriteTmp(c) ==
    /\ pc[c] \in {"lockedPublish", "soloPublish"}
    /\ tmp[c] = "partial"
    /\ tmp' = [tmp EXCEPT ![c] = "whole"]
    /\ UNCHANGED <<obj, writer, readers, pc, mem, ledger, mishap>>

\* Variation: publication by rename, which replaces what is there.
LinkReplaces(c) == obj' = IF tmp[c] = "whole" THEN c ELSE Corrupt

\* os.link: EEXIST leaves the object that is already there in place.
Link(c) == obj' = IF obj # Absent THEN obj
                  ELSE IF tmp[c] = "whole" THEN c ELSE Corrupt

\* Variation: the private file is linked before the exporter is done with it.
PublishPartial(c) ==
    /\ pc[c] \in {"lockedPublish", "soloPublish"}
    /\ Link(c)
    /\ tmp' = [tmp EXCEPT ![c] = "none"]
    /\ Goto(c, AfterExport(c))
    /\ UNCHANGED <<writer, readers, mem, ledger, mishap>>

PublishArtifact(c) ==
    /\ pc[c] \in {"lockedPublish", "soloPublish"}
    /\ tmp[c] = "whole"
    /\ Link(c)
    /\ tmp' = [tmp EXCEPT ![c] = "none"]
    /\ Goto(c, AfterExport(c))
    /\ UNCHANGED <<writer, readers, mem, ledger, mishap>>

\* The exporter or os.link raised: warn, drop the private file, go on.
ExportFails(c) ==
    /\ pc[c] \in {"lockedPublish", "soloPublish"}
    /\ tmp' = [tmp EXCEPT ![c] = "none"]
    /\ Goto(c, AfterExport(c))
    /\ mishap' = TRUE
    /\ UNCHANGED <<obj, writer, readers, mem, ledger>>

Keep(c) ==
    /\ pc[c] \in {"lockedKeep", "soloKeep"}
    /\ mem' = [mem EXCEPT ![c] = c]
    /\ Goto(c, IF pc[c] = "lockedKeep" THEN "unlock" ELSE "idle")
    /\ UNCHANGED <<obj, writer, readers, tmp, ledger, mishap>>

Unlock(c) ==
    /\ pc[c] = "unlock"
    /\ writer' = NoOne
    /\ Goto(c, "idle")
    /\ UNCHANGED <<obj, readers, mem, tmp, ledger, mishap>>

(***************************************************************************)
(* Environment: eviction of the memory entry, process death, a new process.*)
(***************************************************************************)
Discard(c) ==
    /\ pc[c] = "idle"
    /\ mem[c] # Absent
    /\ mem' = [mem EXCEPT ![c] = Absent]
    /\ UNCHANGED <<obj, writer, readers, pc, tmp, ledger, mishap>>

\* The kernel drops a dead process's flocks; its private file stays behind.
Crash(c) ==
    /\ pc[c] # "dead"
    /\ Goto(c, "dead")
    /\ writer' = IF writer = c THEN NoOne ELSE writer
    /\ readers' = readers \ {c}
    /\ mem' = [mem EXCEPT ![c] = Absent]
    /\ ledger' = ledger \ {c}
    /\ mishap' = TRUE
    /\ UNCHANGED <<obj, tmp>>

Restart(c) ==
    /\ pc[c] = "dead"
    /\ Goto(c, "idle")
    /\ UNCHANGED <<obj, writer, readers, mem, tmp, ledger, mishap>>

Step(c) ==
    \/ CompileDisabled(c) \/ Probe(c)
    \/ AcquireShared(c) \/ TimeoutShared(c)
    \/ FastCheck(c) \/ FastHit(c) \/ FastMiss(c)
    \/ AcquireExclusive(c) \/ TimeoutExclusive(c)
    \/ LockedCheck(c) \/ LockedHit(c) \/ LockedMiss(c)
    \/ Quarantine(c) \/ QuarantineFails(c)
    \/ Compile(c) \/ CompileRaises(c)
    \/ ReserveTmp(c) \/ WriteTmp(c) \/ PublishArtifact(c) \/ ExportFails(c)
    \/ Keep(c) \/ Unlock(c)

CacheNext == \E c \in Caller :
            Step(c) \/ CacheCall(c) \/ Discard(c) \/ Crash(c) \/ Restart(c)

CacheSpec == CacheInit /\ [][CacheNext]_cacheVars

-----------------------------------------------------------------------------
\* Under either flock, an object found to exist is still there when it is
\* loaded: the unlink of the quarantine never runs beside a load.
LoadsFindTheirFile ==
    \A c \in Caller : pc[c] \in {"fastLoad", "lockedLoad"} => obj # Absent

\* Until something goes wrong (a lock timeout, a dead process, a failed export,
\* a quarantined object that cannot be unlinked, a load that fails on a sound
\* object) the key is compiled at most once, by all the processes together.
OneAuthor ==
    ~mishap => \A a, b \in ledger : a = b

\* Until something goes wrong (as above), a recorded compile is on disk for
\* everybody, or its author still holds the exclusive lock on the way to
\* publishing it.
CompilesAreBanked ==
    ~mishap => \A c \in ledger :
        \/ obj \in Caller
        \/ writer = c /\ pc[c] \in {"lockedExport", "lockedPublish"}

\* A sound object is never replaced and never deleted: not by a late publisher
\* that timed out, and not by a quarantine decided on an earlier look.
SoundObjectStays ==
    [][~FlakyLoad /\ obj \in Caller => obj' = obj]_cacheVars

\* Every publication, quarantine and served kernel is one that ArtifactStore
\* allows: no torn object reaches the final path, whether an export fails
\* half-way or a process dies inside it, and kernels come from the store or
\* from the caller's own compile.
Store == INSTANCE ArtifactStore WITH store <- obj, kernel <- mem
StoreSpec == Store!ASpec

\* The deadlines make the wrapper wait-free: a caller that keeps running
\* returns (or raises) even if every other process stops for ever, holding
\* the lock or not.
Returns(self) == pc[self] \in InCall ~> pc[self] \in {"idle", "dead"}
==============================================================================
