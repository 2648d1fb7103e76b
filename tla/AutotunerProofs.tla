--------------------------- MODULE AutotunerProofs ---------------------------
(***************************************************************************)
(* The properties of Autotuner for every number of processes, buckets,     *)
(* contracts and configurations: types, agreement on winners, no foreign   *)
(* configuration, the RUNNING quota, and the published winner that runs.   *)
(* Each part has its strengthening; a step changes one process, so a part  *)
(* that speaks of each process is checked for that one and carried for the *)
(* others by a lemma.                                                      *)
(***************************************************************************)
EXTENDS Autotuner, TLAPS

\* What a typed state holds for the call in progress.
LEMMA Values ==
    ASSUME TypeOK, NEW p \in Proc
    PROVE  /\ key[p] \in Key /\ mode[p] \in Modes /\ Con(p) \in Contract
           /\ Ranked[key[p]] \in Maybe(Config) /\ Space[key[p]] \subseteq Maybe(Config)
           /\ cache[p][key[p]] \in Maybe(Config) /\ winner[key[p]] \in Maybe(Config)
           /\ memo[p][key[p]] \in Maybe(Config) /\ prepared[p][key[p]] \in Maybe(Config)
           /\ contractWin[p][Con(p)] \in Maybe(Config)
           /\ contractFile[Con(p)] \in Maybe(Config)
           /\ None \in Maybe(Config) /\ None \in Maybe(Proc) /\ p \in Maybe(Proc)
BY ModelAssumption DEF TypeOK, Con, Maybe

\* The same for every bucket.
LEMMA BucketValues ==
    ASSUME TypeOK, NEW p \in Proc, NEW k \in Key
    PROVE  /\ cache[p][k] \in Maybe(Config) /\ winner[k] \in Maybe(Config)
           /\ Ranked[k] \in Maybe(Config) /\ config[p] \in Maybe(Config)
           /\ None \in Maybe(Config)
BY ModelAssumption DEF TypeOK, Maybe

\* The placeholders of an idle process.
LEMMA Chosen == (CHOOSE k \in Key : TRUE) \in Key /\ (CHOOSE m \in Modes : TRUE) \in Modes
BY ModelAssumption

LEMMA NothingType == Nothing \in [Key -> Maybe(Config)]
BY DEF Nothing, Maybe

LEMMA InitTypeOK == Init => TypeOK
<1> USE ModelAssumption, NothingType, Chosen DEF Maybe
<1> QED  BY DEF Init, TypeOK, Labels, Nothing

LEMMA NextTypeOK == TypeOK /\ [Next]_vars => TypeOK'
<1> SUFFICES ASSUME TypeOK, [Next]_vars PROVE TypeOK'  OBVIOUS
<1>1. CASE UNCHANGED vars  BY <1>1 DEF TypeOK, vars
<1>2. ASSUME NEW p \in Proc, NEW k \in Key, NEW m \in Modes, Call(p, k, m) PROVE TypeOK'
  <2>1. pc' \in [Proc -> Labels]  BY <1>2 DEF TypeOK, Call, Goto, Labels
  <2>2. /\ key' \in [Proc -> Key] /\ mode' \in [Proc -> Modes]
        /\ due' \in [Proc -> Maybe(Config)]
    BY <1>2 DEF TypeOK, Call
  <2> QED  BY <1>2, <2>1, <2>2 DEF TypeOK, Call, disk, memory
<1>3. ASSUME NEW p \in Proc, Crash(p) PROVE TypeOK'
  <2>1. pc' \in [Proc -> Labels]  BY <1>3 DEF TypeOK, Crash, Labels
  <2>2. lock' \in [Key -> Maybe(Proc)]  BY <1>3, Values DEF TypeOK, Crash
  <2>3. /\ cache' \in [Proc -> [Key -> Maybe(Config)]]
        /\ memo' \in [Proc -> [Key -> Maybe(Config)]]
        /\ prepared' \in [Proc -> [Key -> Maybe(Config)]]
        /\ plan' \in [Proc -> [Key -> Maybe(Config)]]
    BY <1>3, NothingType DEF TypeOK, Crash
  <2>4. contractWin' \in [Proc -> [Contract -> Maybe(Config)]]
    BY <1>3, Values DEF TypeOK, Crash
  <2>5. measured' \in [Proc -> SUBSET Contract] /\ ready' \in [Proc -> SUBSET Contract]
    BY <1>3 DEF TypeOK, Crash
  <2>6. key' \in [Proc -> Key] /\ mode' \in [Proc -> Modes]
    BY <1>3, Chosen DEF TypeOK, Crash
  <2>7. config' \in [Proc -> Maybe(Config)] /\ due' \in [Proc -> Maybe(Config)]
    BY <1>3, Values DEF TypeOK, Crash, Use
  <2>8. sweeps' \in [Proc -> [Contract -> {"none", "once", "again"}]]
    BY <1>3 DEF TypeOK, Crash
  <2> QED  BY <1>3, <2>1, <2>2, <2>3, <2>4, <2>5, <2>6, <2>7, <2>8 DEF TypeOK, Crash, disk
<1>4. ASSUME NEW p \in Proc, Step(p) PROVE TypeOK'
  <2>1. CASE Lookup(p)
    <3>1. pc' \in [Proc -> Labels]
      <4>1. pc \in [Proc -> Labels]  BY DEF TypeOK
      <4>2. \E l \in Labels : pc' = [pc EXCEPT ![p] = l]
        BY <2>1 DEF Lookup, Goto, Resolved, Raise, Labels
      <4> QED  BY <4>1, <4>2
    <3>2. config' \in [Proc -> Maybe(Config)]
      BY <2>1, Values DEF TypeOK, Lookup, Use
    <3> QED
      BY <2>1, <3>1, <3>2 DEF TypeOK, Lookup, disk, memory, call
  <2>2. CASE Memo(p)
    <3>1. pc' \in [Proc -> Labels]
      <4>1. pc \in [Proc -> Labels]  BY DEF TypeOK
      <4>2. \E l \in Labels : pc' = [pc EXCEPT ![p] = l]
        BY <2>2 DEF Memo, Goto, Labels
      <4> QED  BY <4>1, <4>2
    <3>2. config' \in [Proc -> Maybe(Config)]
      BY <2>2, Values DEF TypeOK, Memo, Use
    <3>3. memo' \in [Proc -> [Key -> Maybe(Config)]]
      <4>1. memo \in [Proc -> [Key -> Maybe(Config)]]  BY DEF TypeOK
      <4>2. memo' = memo \/ memo' = [memo EXCEPT ![p][key[p]] = None]  BY <2>2 DEF Memo
      <4> QED  BY <4>1, <4>2, Values
    <3> QED
      BY <2>2, <3>1, <3>2, <3>3 DEF TypeOK, Memo, disk, memory, call
  <2>3. CASE Dispatch(p)
    <3>1. pc' \in [Proc -> Labels]
      <4>1. pc \in [Proc -> Labels]  BY DEF TypeOK
      <4>2. \E l \in Labels : pc' = [pc EXCEPT ![p] = l]
        BY <2>3 DEF Dispatch, Goto, Resolved, Raise, Labels
      <4> QED  BY <4>1, <4>2
    <3> QED
      BY <2>3, <3>1 DEF TypeOK, Dispatch, disk, memory, call
  <2>4. CASE DiskRead(p)
    <3>1. pc' \in [Proc -> Labels]
      <4>1. pc \in [Proc -> Labels]  BY DEF TypeOK
      <4>2. \E l \in Labels : pc' = [pc EXCEPT ![p] = l]
        BY <2>4 DEF DiskRead, Goto, Resolved, Raise, Labels
      <4> QED  BY <4>1, <4>2
    <3>2. config' \in [Proc -> Maybe(Config)]
      BY <2>4, Values DEF TypeOK, DiskRead, Use, Raise
    <3>3. cache' \in [Proc -> [Key -> Maybe(Config)]]
      <4>1. cache \in [Proc -> [Key -> Maybe(Config)]]  BY DEF TypeOK
      <4>2. cache' = cache \/ LoadInto(p, key[p])  BY <2>4 DEF DiskRead
      <4> QED  BY <4>1, <4>2, Values DEF LoadInto
    <3> QED
      BY <2>4, <3>1, <3>2, <3>3 DEF TypeOK, DiskRead, disk, memory, call
  <2>5. CASE Acquire(p)
    <3>1. pc' \in [Proc -> Labels]
      <4>1. pc \in [Proc -> Labels]  BY DEF TypeOK
      <4>2. \E l \in Labels : pc' = [pc EXCEPT ![p] = l]
        BY <2>5 DEF Acquire, Goto, Resolved, Raise, Labels
      <4> QED  BY <4>1, <4>2
    <3>2. lock' \in [Key -> Maybe(Proc)]
      BY <2>5, Values DEF TypeOK, Acquire, Release
    <3> QED
      BY <2>5, <3>1, <3>2 DEF TypeOK, Acquire, disk, memory, call
  <2>6. CASE LockTimeout(p)
    <3>1. pc' \in [Proc -> Labels]
      <4>1. pc \in [Proc -> Labels]  BY DEF TypeOK
      <4>2. \E l \in Labels : pc' = [pc EXCEPT ![p] = l]
        BY <2>6 DEF LockTimeout, Goto, Resolved, Raise, Labels
      <4> QED  BY <4>1, <4>2
    <3>2. config' \in [Proc -> Maybe(Config)]
      BY <2>6, Values DEF TypeOK, LockTimeout, Use, Raise
    <3> QED
      BY <2>6, <3>1, <3>2 DEF TypeOK, LockTimeout, disk, memory, call
  <2>7. CASE Recheck(p)
    <3>1. pc' \in [Proc -> Labels]
      <4>1. pc \in [Proc -> Labels]  BY DEF TypeOK
      <4>2. \E l \in Labels : pc' = [pc EXCEPT ![p] = l]
        BY <2>7 DEF Recheck, Goto, Resolved, Raise, Labels
      <4> QED  BY <4>1, <4>2
    <3>2. cache' \in [Proc -> [Key -> Maybe(Config)]]
      <4>1. cache \in [Proc -> [Key -> Maybe(Config)]]  BY DEF TypeOK
      <4>2. cache' = cache \/ LoadInto(p, key[p])  BY <2>7 DEF Recheck
      <4> QED  BY <4>1, <4>2, Values DEF LoadInto
    <3>3. lock' \in [Key -> Maybe(Proc)]
      BY <2>7, Values DEF TypeOK, Recheck, Release
    <3> QED
      BY <2>7, <3>1, <3>2, <3>3 DEF TypeOK, Recheck, disk, memory, call
  <2>8. CASE Sweep(p)
    <3>1. pc' \in [Proc -> Labels]
      <4>1. pc \in [Proc -> Labels]  BY DEF TypeOK
      <4>2. \E l \in Labels : pc' = [pc EXCEPT ![p] = l]
        BY <2>8 DEF Sweep, Goto, Resolved, Raise, Labels
      <4> QED  BY <4>1, <4>2
    <3>2. cache' \in [Proc -> [Key -> Maybe(Config)]]
      BY <2>8, Values DEF TypeOK, Sweep
    <3>3. sweeps' \in [Proc -> [Contract -> {"none", "once", "again"}]]
      BY <2>8, Values DEF TypeOK, Sweep
    <3> QED
      BY <2>8, <3>1, <3>2, <3>3 DEF TypeOK, Sweep, disk, memory, call
  <2>9. CASE SweepFails(p)
    <3>1. pc' \in [Proc -> Labels]
      <4>1. pc \in [Proc -> Labels]  BY DEF TypeOK
      <4>2. \E l \in Labels : pc' = [pc EXCEPT ![p] = l]
        BY <2>9 DEF SweepFails, Goto, Resolved, Raise, Labels
      <4> QED  BY <4>1, <4>2
    <3>2. config' \in [Proc -> Maybe(Config)]
      BY <2>9, Values DEF TypeOK, SweepFails, Use, Raise
    <3>3. lock' \in [Key -> Maybe(Proc)]
      BY <2>9, Values DEF TypeOK, SweepFails, Release
    <3> QED
      BY <2>9, <3>1, <3>2, <3>3 DEF TypeOK, SweepFails, disk, memory, call
  <2>10. CASE Put(p)
    <3>1. pc' \in [Proc -> Labels]
      <4>1. pc \in [Proc -> Labels]  BY DEF TypeOK
      <4>2. \E l \in Labels : pc' = [pc EXCEPT ![p] = l]
        BY <2>10 DEF Put, Goto, Resolved, Raise, Labels
      <4> QED  BY <4>1, <4>2
    <3>2. winner' \in [Key -> Maybe(Config)]
      BY <2>10, Values DEF TypeOK, Put
    <3>3. lock' \in [Key -> Maybe(Proc)]
      BY <2>10, Values DEF TypeOK, Put, Release
    <3>4. measured' \in [Proc -> SUBSET Contract]
      BY <2>10, Values DEF TypeOK, Put
    <3> QED
      BY <2>10, <3>1, <3>2, <3>3, <3>4 DEF TypeOK, Put, disk, memory, call
  <2>11. CASE PutRaises(p)
    <3>1. pc' \in [Proc -> Labels]
      <4>1. pc \in [Proc -> Labels]  BY DEF TypeOK
      <4>2. \E l \in Labels : pc' = [pc EXCEPT ![p] = l]
        BY <2>11 DEF PutRaises, Goto, Resolved, Raise, Labels
      <4> QED  BY <4>1, <4>2
    <3>2. config' \in [Proc -> Maybe(Config)]
      BY <2>11, Values DEF TypeOK, PutRaises, Use, Raise
    <3>3. lock' \in [Key -> Maybe(Proc)]
      BY <2>11, Values DEF TypeOK, PutRaises, Release
    <3> QED
      BY <2>11, <3>1, <3>2, <3>3 DEF TypeOK, PutRaises, disk, memory, call
  <2>12. CASE LoadDisk(p)
    <3>1. pc' \in [Proc -> Labels]
      <4>1. pc \in [Proc -> Labels]  BY DEF TypeOK
      <4>2. \E l \in Labels : pc' = [pc EXCEPT ![p] = l]
        BY <2>12 DEF LoadDisk, Goto, Resolved, Raise, Labels
      <4> QED  BY <4>1, <4>2
    <3>2. config' \in [Proc -> Maybe(Config)]
      BY <2>12, Values DEF TypeOK, LoadDisk, Use
    <3>3. cache' \in [Proc -> [Key -> Maybe(Config)]]
      <4>1. cache \in [Proc -> [Key -> Maybe(Config)]]  BY DEF TypeOK
      <4>2. cache' = cache \/ LoadInto(p, key[p])  BY <2>12 DEF LoadDisk
      <4> QED  BY <4>1, <4>2, Values DEF LoadInto
    <3> QED
      BY <2>12, <3>1, <3>2, <3>3 DEF TypeOK, LoadDisk, disk, memory, call
  <2>13. CASE Reuse(p)
    <3>1. pc' \in [Proc -> Labels]
      <4>1. pc \in [Proc -> Labels]  BY DEF TypeOK
      <4>2. \E l \in Labels : pc' = [pc EXCEPT ![p] = l]
        BY <2>13 DEF Reuse, Goto, Raise, Labels, Transfer, Fallback
      <4> QED  BY <4>1, <4>2
    <3>2. config' \in [Proc -> Maybe(Config)]
      <4>1. config \in [Proc -> Maybe(Config)]  BY DEF TypeOK
      <4>2. config' = config \/ \E c \in Maybe(Config) : config' = [config EXCEPT ![p] = c]
        BY <2>13, Values DEF Reuse, Transfer, Fallback, Use, Raise
      <4> QED  BY <4>1, <4>2
    <3>3. memo' \in [Proc -> [Key -> Maybe(Config)]]
      <4>1. memo \in [Proc -> [Key -> Maybe(Config)]]  BY DEF TypeOK
      <4>2. memo' = memo \/ \E c \in Maybe(Config) : memo' = [memo EXCEPT ![p][key[p]] = c]
        BY <2>13, Values DEF Reuse, Transfer
      <4> QED  BY <4>1, <4>2, Values
    <3>4. contractWin' \in [Proc -> [Contract -> Maybe(Config)]]
      <4>1. contractWin \in [Proc -> [Contract -> Maybe(Config)]]  BY DEF TypeOK
      <4>2. \E c \in Maybe(Config) : contractWin' = [contractWin EXCEPT ![p][Con(p)] = c]
        BY <2>13, Values DEF Reuse
      <4> QED  BY <4>1, <4>2, Values
    <3> QED
      BY <2>13, <3>1, <3>2, <3>3, <3>4 DEF TypeOK, Reuse, disk, memory, call
  <2>14. CASE Record(p)
    <3>1. pc' \in [Proc -> Labels]
      <4>1. pc \in [Proc -> Labels]  BY DEF TypeOK
      <4>2. \E l \in Labels : pc' = [pc EXCEPT ![p] = l]
        BY <2>14 DEF Record, Goto, Resolved, Raise, Labels
      <4> QED  BY <4>1, <4>2
    <3>2. config' \in [Proc -> Maybe(Config)]
      BY <2>14, Values DEF TypeOK, Record, Use
    <3>3. contractWin' \in [Proc -> [Contract -> Maybe(Config)]]
      <4>1. contractWin \in [Proc -> [Contract -> Maybe(Config)]]  BY DEF TypeOK
      <4>2. \/ contractWin' = contractWin
            \/ \E c \in Maybe(Config) : contractWin' = [contractWin EXCEPT ![p][Con(p)] = c]
        BY <2>14, Values DEF Record
      <4> QED  BY <4>1, <4>2, Values
    <3> QED
      BY <2>14, <3>1, <3>2, <3>3 DEF TypeOK, Record, disk, memory, call
  <2>15. CASE RecordFile(p)
    <3>1. pc' \in [Proc -> Labels]
      <4>1. pc \in [Proc -> Labels]  BY DEF TypeOK
      <4>2. \E l \in Labels : pc' = [pc EXCEPT ![p] = l]
        BY <2>15 DEF RecordFile, Goto, Resolved, Raise, Labels
      <4> QED  BY <4>1, <4>2
    <3>2. contractFile' \in [Contract -> Maybe(Config)]
      BY <2>15, Values DEF TypeOK, RecordFile
    <3> QED
      BY <2>15, <3>1, <3>2 DEF TypeOK, RecordFile, disk, memory, call
  <2>16. CASE Prepare(p)
    <3>1. pc' \in [Proc -> Labels]
      <4>1. pc \in [Proc -> Labels]  BY DEF TypeOK
      <4>2. \E l \in Labels : pc' = [pc EXCEPT ![p] = l]
        BY <2>16 DEF Prepare, Goto, Resolved, Raise, Labels
      <4> QED  BY <4>1, <4>2
    <3>2. cache' \in [Proc -> [Key -> Maybe(Config)]]
      BY <2>16, Values DEF TypeOK, Prepare
    <3>3. plan' \in [Proc -> [Key -> Maybe(Config)]]
      BY <2>16, BucketValues, Values DEF TypeOK, Prepare
    <3> QED
      BY <2>16, <3>1, <3>2, <3>3 DEF TypeOK, Prepare, disk, memory, call
  <2>17. CASE Publish(p)
    <3>1. pc' \in [Proc -> Labels]
      <4>1. pc \in [Proc -> Labels]  BY DEF TypeOK
      <4>2. \E l \in Labels : pc' = [pc EXCEPT ![p] = l]
        BY <2>17 DEF Publish, Goto, Resolved, Raise, Labels
      <4> QED  BY <4>1, <4>2
    <3>2. prepared' \in [Proc -> [Key -> Maybe(Config)]]
      BY <2>17, Values DEF TypeOK, Publish
    <3>3. ready' \in [Proc -> SUBSET Contract]
      BY <2>17, Values DEF TypeOK, Publish
    <3>4. plan' \in [Proc -> [Key -> Maybe(Config)]]
      BY <2>17, Values DEF TypeOK, Publish, Buckets, Nothing
    <3> QED
      BY <2>17, <3>1, <3>2, <3>3, <3>4 DEF TypeOK, Publish, disk, memory, call
  <2>18. CASE PrepareFails(p)
    <3>1. pc' \in [Proc -> Labels]
      <4>1. pc \in [Proc -> Labels]  BY DEF TypeOK
      <4>2. \E l \in Labels : pc' = [pc EXCEPT ![p] = l]
        BY <2>18 DEF PrepareFails, Goto, Resolved, Raise, Labels
      <4> QED  BY <4>1, <4>2
    <3>2. config' \in [Proc -> Maybe(Config)]
      BY <2>18, Values DEF TypeOK, PrepareFails, Use, Raise
    <3>3. plan' \in [Proc -> [Key -> Maybe(Config)]]
      BY <2>18, Values DEF TypeOK, PrepareFails, Buckets, Nothing
    <3> QED
      BY <2>18, <3>1, <3>2, <3>3 DEF TypeOK, PrepareFails, disk, memory, call
  <2>19. CASE Return(p)
    <3>1. pc' \in [Proc -> Labels]
      <4>1. pc \in [Proc -> Labels]  BY DEF TypeOK
      <4>2. \E l \in Labels : pc' = [pc EXCEPT ![p] = l]
        BY <2>19 DEF Return, Goto, Resolved, Raise, Labels
      <4> QED  BY <4>1, <4>2
    <3>2. config' \in [Proc -> Maybe(Config)]
      BY <2>19, Values DEF TypeOK, Return, Use
    <3>3. key' \in [Proc -> Key]
      BY <2>19, Values DEF TypeOK, Return
    <3>4. mode' \in [Proc -> Modes]
      BY <2>19, Values DEF TypeOK, Return
    <3>5. due' \in [Proc -> Maybe(Config)]
      BY <2>19, Values DEF TypeOK, Return
    <3> QED
      BY <2>19, <3>1, <3>2, <3>3, <3>4, <3>5 DEF TypeOK, Return, disk, memory, call
  <2> QED
    BY <1>4, <2>1, <2>2, <2>3, <2>4, <2>5, <2>6, <2>7, <2>8, <2>9, <2>10, <2>11,
       <2>12, <2>13, <2>14, <2>15, <2>16, <2>17, <2>18, <2>19 DEF Step
<1> QED  BY <1>1, <1>2, <1>3, <1>4 DEF Next

\* The tables, the locks and the calls in progress stay well formed.
THEOREM TypesHold == Spec => []TypeOK
BY InitTypeOK, NextTypeOK, PTL DEF Spec

-----------------------------------------------------------------------------
(***************************************************************************)
(* A step belongs to one process: what the others hold does not change.    *)
(***************************************************************************)
Others(p) ==
    /\ workload' = workload
    /\ \A q \in Proc \ {p} :
          /\ pc'[q] = pc[q] /\ key'[q] = key[q] /\ mode'[q] = mode[q]
          /\ config'[q] = config[q] /\ due'[q] = due[q]
          /\ cache'[q] = cache[q] /\ memo'[q] = memo[q]
          /\ measured'[q] = measured[q] /\ sweeps'[q] = sweeps[q]

LEMMA CallIsLocal ==
    ASSUME TypeOK, NEW p \in Proc, NEW k \in Key, NEW m \in Modes, Call(p, k, m)
    PROVE  Others(p)
BY DEF TypeOK, Others, Call, Goto, memory

LEMMA CrashIsLocal == ASSUME TypeOK, NEW p \in Proc, Crash(p) PROVE Others(p)
BY DEF TypeOK, Others, Crash, Use

LEMMA StepIsLocal == ASSUME TypeOK, NEW p \in Proc, Step(p) PROVE Others(p)
<1>1. CASE Lookup(p)
  BY <1>1 DEF TypeOK, Others, Lookup, Goto, disk, memory, call, Use, Resolved
<1>2. CASE Memo(p)
  BY <1>2 DEF TypeOK, Others, Memo, Goto, disk, memory, call, Use
<1>3. CASE Dispatch(p)
  BY <1>3 DEF TypeOK, Others, Dispatch, Goto, disk, memory, call
<1>4. CASE DiskRead(p)
  BY <1>4 DEF TypeOK, Others, DiskRead, Goto, disk, memory, call, LoadInto, Use, Raise
<1>5. CASE Acquire(p)
  BY <1>5 DEF TypeOK, Others, Acquire, Goto, disk, memory, call
<1>6. CASE LockTimeout(p)
  BY <1>6 DEF TypeOK, Others, LockTimeout, Goto, disk, memory, call, Use, Raise
<1>7. CASE Recheck(p)
  BY <1>7 DEF TypeOK, Others, Recheck, Goto, disk, memory, call, LoadInto, Release
<1>8. CASE Sweep(p)
  BY <1>8 DEF TypeOK, Others, Sweep, Goto, disk, memory, call
<1>9. CASE SweepFails(p)
  BY <1>9 DEF TypeOK, Others, SweepFails, Goto, disk, memory, call, Use, Raise, Release
<1>10. CASE Put(p)
  BY <1>10 DEF TypeOK, Others, Put, Goto, disk, memory, call, Release
<1>11. CASE PutRaises(p)
  BY <1>11 DEF TypeOK, Others, PutRaises, Goto, disk, memory, call, Use, Raise, Release
<1>12. CASE LoadDisk(p)
  BY <1>12 DEF TypeOK, Others, LoadDisk, Goto, disk, memory, call, LoadInto, Use
<1>13. CASE Reuse(p)
  BY <1>13 DEF TypeOK, Others, Reuse, Goto, disk, memory, call, Transfer, Fallback,
     Use, Raise
<1>14. CASE Record(p)
  BY <1>14 DEF TypeOK, Others, Record, Goto, disk, memory, call, Use, Resolved
<1>15. CASE RecordFile(p)
  BY <1>15 DEF TypeOK, Others, RecordFile, Goto, disk, memory, call, Resolved
<1>16. CASE Prepare(p)
  BY <1>16 DEF TypeOK, Others, Prepare, Goto, disk, memory, call
<1>17. CASE Publish(p)
  BY <1>17 DEF TypeOK, Others, Publish, Goto, disk, memory, call
<1>18. CASE PrepareFails(p)
  BY <1>18 DEF TypeOK, Others, PrepareFails, Goto, disk, memory, call, Use, Raise
<1>19. CASE Return(p)
  BY <1>19 DEF TypeOK, Others, Return, Goto, disk, memory, call, Use
<1> QED
  BY <1>1, <1>2, <1>3, <1>4, <1>5, <1>6, <1>7, <1>8, <1>9, <1>10, <1>11, <1>12, <1>13,
     <1>14, <1>15, <1>16, <1>17, <1>18, <1>19 DEF Step

-----------------------------------------------------------------------------
(***************************************************************************)
(* Winners agree.  The strengthening says what the benchmark lock is for:  *)
(* whoever is inside the locked region holds the lock of its key, and past *)
(* the second look no winner of that key is published.                     *)
(***************************************************************************)
Inside == {"recheck", "sweep", "put"}

LockInv ==
    \A p \in Proc :
        /\ pc[p] \in Inside => lock[key[p]] = p
        /\ pc[p] \in {"sweep", "put"} /\ ~workload.force => winner[key[p]] = None

WinnersInv == LockInv /\ WinnersAgree

\* A step of p that publishes nothing, frees no other process's lock, fills its
\* memory only from the files, and ends outside the locked region.
Apart(p) ==
    /\ winner' = winner
    /\ \A k \in Key : lock[k] # p => lock'[k] = lock[k]
    /\ \A k \in Key : \/ cache'[p][k] = cache[p][k] /\ (pc[p] = "put" => workload.putFails)
                      \/ cache'[p][k] \in {None, winner[k]}
    /\ pc'[p] \notin Inside

LEMMA ApartKeeps ==
    ASSUME TypeOK, WinnersInv, NEW p \in Proc, Others(p), Apart(p)
    PROVE  WinnersInv'
<1>1. LockInv'
  <2> SUFFICES ASSUME NEW q \in Proc, q # p, pc[q] \in Inside
               PROVE  /\ lock'[key[q]] = q
                      /\ pc[q] \in {"sweep", "put"} /\ ~workload.force => winner[key[q]] = None
    BY DEF LockInv, Others, Apart, Inside
  <2> QED  BY DEF WinnersInv, LockInv, Apart, TypeOK, Inside
<1>2. WinnersAgree'
  <2> SUFFICES ASSUME ~workload.force, ~workload.putFails,
                      NEW q \in Proc, NEW k \in Key, cache'[q][k] # None
               PROVE  \/ winner[k] = cache'[q][k]
                      \/ pc'[q] = "put" /\ key'[q] = k /\ lock'[k] = q /\ winner[k] = None
    BY DEF WinnersAgree, Others, Apart
  <2>1. CASE q = p
    BY <2>1 DEF WinnersInv, WinnersAgree, Apart
  <2>2. CASE q # p
    BY <2>2 DEF WinnersInv, WinnersAgree, Apart, Others, TypeOK
  <2> QED  BY <2>1, <2>2
<1> QED  BY <1>1, <1>2 DEF WinnersInv

\* The steps that take the lock, look again under it, measure and publish.
LEMMA AcquireKeeps ==
    ASSUME TypeOK, WinnersInv, NEW p \in Proc, Acquire(p) PROVE WinnersInv'
<1>1. /\ UNCHANGED <<workload, winner, cache, key>> /\ pc' = [pc EXCEPT ![p] = "recheck"]
      /\ lock' = [lock EXCEPT ![key[p]] = p] /\ lock[key[p]] = None
  BY DEF Acquire, Goto, disk, memory, call
<1>2. LockInv'
  BY <1>1, ModelAssumption DEF WinnersInv, LockInv, Inside, TypeOK
<1>3. WinnersAgree'
  BY <1>1, ModelAssumption DEF WinnersInv, WinnersAgree, TypeOK, Acquire
<1> QED  BY <1>2, <1>3 DEF WinnersInv

LEMMA RecheckKeeps ==
    ASSUME TypeOK, WinnersInv, NEW p \in Proc, Recheck(p) PROVE WinnersInv'
<1>1. CASE OnDisk(key[p])
  <2>1. Others(p)  BY StepIsLocal DEF Step
  <2>2. lock[key[p]] = p  BY DEF WinnersInv, LockInv, Recheck, Inside
  <2>3. Apart(p)
    <3>1. winner' = winner /\ pc'[p] \notin Inside
      BY <1>1 DEF Recheck, Goto, TypeOK, disk, Inside
    <3>2. \A k \in Key : lock[k] # p => lock'[k] = lock[k]
      BY <1>1, <2>2 DEF Recheck, Release, TypeOK
    <3>3. \A k \in Key : cache'[p][k] = cache[p][k] \/ cache'[p][k] = winner[k]
      <4>1. cache \in [Proc -> [Key -> Maybe(Config)]]  BY DEF TypeOK
      <4>2. cache' = [cache EXCEPT ![p][key[p]] = winner[key[p]]]
        BY <1>1 DEF Recheck, LoadInto
      <4> QED  BY <4>1, <4>2
    <3>4. pc[p] # "put"  BY DEF Recheck
    <3> QED  BY <3>1, <3>2, <3>3, <3>4 DEF Apart
  <2> QED  BY <2>1, <2>3, ApartKeeps
<1>2. CASE ~OnDisk(key[p])
  <2>1. UNCHANGED <<workload, winner, lock, cache, key>> /\ pc' = [pc EXCEPT ![p] = "sweep"]
    BY <1>2 DEF Recheck, Goto, disk, call
  <2>2. ~workload.force => winner[key[p]] = None  BY <1>2 DEF OnDisk
  <2>3. pc[p] = "recheck"  BY DEF Recheck
  <2>4. LockInv'
    BY <2>1, <2>2, <2>3 DEF WinnersInv, LockInv, Inside, TypeOK
  <2>5. WinnersAgree'
    BY <2>1, <2>3 DEF WinnersInv, WinnersAgree, TypeOK
  <2> QED  BY <2>4, <2>5 DEF WinnersInv
<1> QED  BY <1>1, <1>2

LEMMA SweepKeeps ==
    ASSUME TypeOK, WinnersInv, NEW p \in Proc, Sweep(p) PROVE WinnersInv'
<1>1. /\ UNCHANGED <<workload, winner, lock, key>> /\ pc' = [pc EXCEPT ![p] = "put"]
      /\ pc[p] = "sweep"
  BY DEF Sweep, Goto, disk, call
<1>2. PICK c : cache' = [cache EXCEPT ![p][key[p]] = c]
  BY DEF Sweep
<1>3. lock[key[p]] = p /\ (~workload.force => winner[key[p]] = None)
  BY <1>1 DEF WinnersInv, LockInv, Inside
<1>4. LockInv'
  BY <1>1 DEF WinnersInv, LockInv, Inside, TypeOK
<1>5. WinnersAgree'
  <2> SUFFICES ASSUME ~workload.force, ~workload.putFails,
                      NEW q \in Proc, NEW k \in Key, cache'[q][k] # None
               PROVE  \/ winner[k] = cache'[q][k]
                      \/ pc'[q] = "put" /\ key[q] = k /\ lock[k] = q /\ winner[k] = None
    BY <1>1 DEF WinnersAgree
  <2>1. CASE q = p /\ k = key[p]
    BY <1>1, <1>3, <2>1 DEF TypeOK
  <2>2. CASE ~(q = p /\ k = key[p])
    <3>1. cache'[q][k] = cache[q][k]
      <4>1. cache \in [Proc -> [Key -> Maybe(Config)]]  BY DEF TypeOK
      <4> QED  BY <1>2, <2>2, <4>1
    <3> QED  BY <1>1, <3>1 DEF WinnersInv, WinnersAgree, TypeOK
  <2> QED  BY <2>1, <2>2
<1> QED  BY <1>4, <1>5 DEF WinnersInv

LEMMA PutKeeps ==
    ASSUME TypeOK, WinnersInv, NEW p \in Proc, Put(p) PROVE WinnersInv'
<1>1. /\ UNCHANGED <<workload, cache, key>> /\ pc' = [pc EXCEPT ![p] = "record"]
      /\ winner' = [winner EXCEPT ![key[p]] = cache[p][key[p]]]
      /\ lock' = [lock EXCEPT ![key[p]] = None]
      /\ pc[p] = "put"
  BY DEF Put, Goto, Release, call
<1>2. lock[key[p]] = p /\ (~workload.force => winner[key[p]] = None)
  BY <1>1 DEF WinnersInv, LockInv, Inside
<1>3. LockInv'
  BY <1>1, <1>2 DEF WinnersInv, LockInv, Inside, TypeOK
<1>4. WinnersAgree'
  <2> SUFFICES ASSUME ~workload.force, ~workload.putFails,
                      NEW q \in Proc, NEW k \in Key, cache[q][k] # None
               PROVE  \/ winner'[k] = cache[q][k]
                      \/ pc'[q] = "put" /\ key[q] = k /\ lock'[k] = q /\ winner'[k] = None
    BY <1>1 DEF WinnersAgree
  <2>1. CASE k = key[p]
    <3>1. q = p
      BY <1>2, <2>1, ModelAssumption DEF WinnersInv, WinnersAgree
    <3> QED  BY <1>1, <2>1, <3>1 DEF TypeOK
  <2>2. CASE k # key[p]
    BY <1>1, <2>2 DEF WinnersInv, WinnersAgree, TypeOK
  <2> QED  BY <2>1, <2>2
<1> QED  BY <1>3, <1>4 DEF WinnersInv

LEMMA InitWinnersInv == Init => WinnersInv
BY DEF Init, WinnersInv, LockInv, WinnersAgree, Inside, Nothing

LEMMA NextWinnersInv == TypeOK /\ WinnersInv /\ [Next]_vars => WinnersInv'
<1> SUFFICES ASSUME TypeOK, WinnersInv, [Next]_vars PROVE WinnersInv'  OBVIOUS
<1>1. CASE UNCHANGED vars
  BY <1>1 DEF vars, WinnersInv, LockInv, WinnersAgree
<1>2. ASSUME NEW p \in Proc, NEW k \in Key, NEW m \in Modes, Call(p, k, m) PROVE WinnersInv'
  <2>1. Others(p)  BY <1>2, CallIsLocal
  <2>2. Apart(p)  BY <1>2 DEF Apart, Call, Goto, TypeOK, Inside, disk, memory
  <2> QED  BY <2>1, <2>2, ApartKeeps
<1>3. ASSUME NEW p \in Proc, Crash(p) PROVE WinnersInv'
  <2>1. Others(p)  BY <1>3, CrashIsLocal
  <2>2. Apart(p)  BY <1>3 DEF Apart, Crash, TypeOK, Inside, Nothing, disk
  <2> QED  BY <2>1, <2>2, ApartKeeps
<1>4. ASSUME NEW p \in Proc, Step(p) PROVE WinnersInv'
  <2>1. Others(p)  BY <1>4, StepIsLocal
  <2>2. CASE Acquire(p)  BY <2>2, AcquireKeeps
  <2>3. CASE Recheck(p)  BY <2>3, RecheckKeeps
  <2>4. CASE Sweep(p)    BY <2>4, SweepKeeps
  <2>5. CASE Put(p)      BY <2>5, PutKeeps
  <2>6. CASE Lookup(p)
    <3>1. Apart(p)  BY <2>6 DEF Apart, Lookup, Goto, TypeOK, Inside, disk, memory, Resolved
    <3> QED  BY <2>1, <3>1, ApartKeeps
  <2>7. CASE Memo(p)
    <3>1. Apart(p)  BY <2>7 DEF Apart, Memo, Goto, TypeOK, Inside, disk, memory
    <3> QED  BY <2>1, <3>1, ApartKeeps
  <2>8. CASE Dispatch(p)
    <3>1. Apart(p)  BY <2>8 DEF Apart, Dispatch, Goto, TypeOK, Inside, disk, memory
    <3> QED  BY <2>1, <3>1, ApartKeeps
  <2>9. CASE DiskRead(p)
    <3>1. \A k \in Key : cache'[p][k] = cache[p][k] \/ cache'[p][k] = winner[k]
      <4>1. cache \in [Proc -> [Key -> Maybe(Config)]]  BY DEF TypeOK
      <4>2. cache' = cache \/ cache' = [cache EXCEPT ![p][key[p]] = winner[key[p]]]
        BY <2>9 DEF DiskRead, LoadInto
      <4> QED  BY <4>1, <4>2
    <3>2. winner' = winner /\ lock' = lock /\ pc'[p] \notin Inside /\ pc[p] # "put"
      BY <2>9 DEF DiskRead, Goto, Raise, TypeOK, Inside, disk
    <3>3. Apart(p)  BY <3>1, <3>2 DEF Apart
    <3> QED  BY <2>1, <3>3, ApartKeeps
  <2>10. CASE LockTimeout(p)
    <3>1. Apart(p)
      BY <2>10 DEF Apart, LockTimeout, Goto, TypeOK, Inside, disk, memory, Raise
    <3> QED  BY <2>1, <3>1, ApartKeeps
  <2>11. CASE SweepFails(p)
    <3>1. lock[key[p]] = p  BY <2>11 DEF WinnersInv, LockInv, SweepFails, Inside
    <3>2. Apart(p)
      BY <2>11, <3>1 DEF Apart, SweepFails, Goto, Raise, Release, TypeOK, Inside,
         disk, memory
    <3> QED  BY <2>1, <3>2, ApartKeeps
  <2>12. CASE PutRaises(p)
    <3>1. lock[key[p]] = p  BY <2>12 DEF WinnersInv, LockInv, PutRaises, Inside
    <3>2. Apart(p)
      BY <2>12, <3>1 DEF Apart, PutRaises, Goto, Raise, Release, TypeOK, Inside, disk,
         memory
    <3> QED  BY <2>1, <3>2, ApartKeeps
  <2>13. CASE LoadDisk(p)
    <3>1. \A k \in Key : cache'[p][k] = cache[p][k] \/ cache'[p][k] = winner[k]
      <4>1. cache \in [Proc -> [Key -> Maybe(Config)]]  BY DEF TypeOK
      <4>2. cache' = cache \/ cache' = [cache EXCEPT ![p][key[p]] = winner[key[p]]]
        BY <2>13 DEF LoadDisk, LoadInto
      <4> QED  BY <4>1, <4>2
    <3>2. winner' = winner /\ lock' = lock /\ pc'[p] \notin Inside /\ pc[p] # "put"
      BY <2>13 DEF LoadDisk, Goto, Raise, TypeOK, Inside, disk
    <3>3. Apart(p)  BY <3>1, <3>2 DEF Apart
    <3> QED  BY <2>1, <3>3, ApartKeeps
  <2>14. CASE Reuse(p)
    <3>1. Apart(p)
      BY <2>14 DEF Apart, Reuse, Goto, TypeOK, Inside, disk, memory, Transfer,
         Fallback, Raise
    <3> QED  BY <2>1, <3>1, ApartKeeps
  <2>15. CASE Record(p)
    <3>1. Apart(p)  BY <2>15 DEF Apart, Record, Goto, TypeOK, Inside, disk, memory, Resolved
    <3> QED  BY <2>1, <3>1, ApartKeeps
  <2>16. CASE RecordFile(p)
    <3>1. Apart(p)
      BY <2>16 DEF Apart, RecordFile, Goto, TypeOK, Inside, disk, memory, Resolved
    <3> QED  BY <2>1, <3>1, ApartKeeps
  <2>17. CASE Prepare(p)
    <3>1. \A k \in Key : cache'[p][k] = cache[p][k] \/ cache'[p][k] \in {None, winner[k]}
      BY <2>17 DEF Prepare, TypeOK
    <3>2. winner' = winner /\ lock' = lock /\ pc'[p] \notin Inside /\ pc[p] # "put"
      BY <2>17 DEF Prepare, Goto, TypeOK, Inside, disk
    <3>3. Apart(p)  BY <3>1, <3>2 DEF Apart
    <3> QED  BY <2>1, <3>3, ApartKeeps
  <2>18. CASE Publish(p)
    <3>1. Apart(p)  BY <2>18 DEF Apart, Publish, Goto, TypeOK, Inside, disk, memory
    <3> QED  BY <2>1, <3>1, ApartKeeps
  <2>19. CASE PrepareFails(p)
    <3>1. Apart(p)
      BY <2>19 DEF Apart, PrepareFails, Goto, TypeOK, Inside, disk, memory, Raise
    <3> QED  BY <2>1, <3>1, ApartKeeps
  <2>20. CASE Return(p)
    <3>1. Apart(p)  BY <2>20 DEF Apart, Return, Goto, TypeOK, Inside, disk, memory
    <3> QED  BY <2>1, <3>1, ApartKeeps
  <2> QED
    BY <1>4, <2>2, <2>3, <2>4, <2>5, <2>6, <2>7, <2>8, <2>9, <2>10, <2>11, <2>12,
       <2>13, <2>14, <2>15, <2>16, <2>17, <2>18, <2>19, <2>20 DEF Step
<1> QED  BY <1>1, <1>2, <1>3, <1>4 DEF Next

\* Winners in memory are the published ones.
THEOREM WinnersAlwaysAgree == Spec => []WinnersAgree
<1>1. Init => TypeOK /\ WinnersInv  BY InitTypeOK, InitWinnersInv
<1>2. TypeOK /\ WinnersInv /\ [Next]_vars => (TypeOK /\ WinnersInv)'
  BY NextTypeOK, NextWinnersInv
<1>3. WinnersInv => WinnersAgree  BY DEF WinnersInv
<1> QED  BY <1>1, <1>2, <1>3, PTL DEF Spec

-----------------------------------------------------------------------------
(***************************************************************************)
(* No foreign configuration: every place that hands a configuration to a   *)
(* key holds one of its candidates or nothing.                             *)
(***************************************************************************)
Held(p) == \A k \in Key : cache[p][k] \in Maybe(Space[k]) /\ memo[p][k] \in Maybe(Space[k])

OwnCall(p) ==
    /\ pc[p] \in {"prepare", "publish"} => PreparedCall(p)
    /\ pc[p] \in {"recordFile", "returned"} /\ ~PreparedCall(p)
           => config[p] \in Maybe(Space[key[p]])

Published == \A k \in Key : winner[k] \in Maybe(Space[k])

ForeignInv == Published /\ \A p \in Proc : Held(p) /\ OwnCall(p)

\* What one process does keeps the invariant when its own part holds afterwards.
LEMMA OwnPartIsEnough ==
    ASSUME ForeignInv, NEW p \in Proc, Others(p), Published', Held(p)', OwnCall(p)'
    PROVE  ForeignInv'
BY DEF ForeignInv, Others, Held, OwnCall, PreparedCall

LEMMA InitForeignInv == Init => ForeignInv
BY ModelAssumption DEF Init, ForeignInv, Published, Held, OwnCall, PreparedCall,
   Nothing, Maybe

\* What the invariant says of the call in progress.
LEMMA Candidates ==
    ASSUME TypeOK, ForeignInv, NEW p \in Proc
    PROVE  LET own == Maybe(Space[key[p]]) IN
           /\ cache[p][key[p]] \in own /\ memo[p][key[p]] \in own /\ winner[key[p]] \in own
           /\ None \in own /\ Space[key[p]] \subseteq own
BY DEF TypeOK, ForeignInv, Published, Held, Maybe

LEMMA NextForeignInv == TypeOK /\ ForeignInv /\ [Next]_vars => ForeignInv'
<1> SUFFICES ASSUME TypeOK, ForeignInv, [Next]_vars PROVE ForeignInv'  OBVIOUS
<1>1. CASE UNCHANGED vars
  BY <1>1 DEF vars, ForeignInv, Published, Held, OwnCall, PreparedCall
<1>2. ASSUME NEW p \in Proc, NEW k \in Key, NEW m \in Modes, Call(p, k, m) PROVE ForeignInv'
  <2>1. Others(p)  BY <1>2, CallIsLocal
  <2>2. Published' /\ Held(p)'
    BY <1>2 DEF ForeignInv, Published, Held, Call, disk, memory
  <2>3. OwnCall(p)'  BY <1>2 DEF OwnCall, Call, Goto, TypeOK
  <2> QED  BY <2>1, <2>2, <2>3, OwnPartIsEnough
<1>3. ASSUME NEW p \in Proc, Crash(p) PROVE ForeignInv'
  <2>1. Others(p)  BY <1>3, CrashIsLocal
  <2>2. Published'  BY <1>3 DEF ForeignInv, Published, Crash, disk
  <2>3. Held(p)'  BY <1>3 DEF Held, Crash, TypeOK, Nothing, Maybe
  <2>4. OwnCall(p)'  BY <1>3 DEF OwnCall, Crash, TypeOK
  <2> QED  BY <2>1, <2>2, <2>3, <2>4, OwnPartIsEnough
<1>4. ASSUME NEW p \in Proc, Step(p) PROVE ForeignInv'
  <2> DEFINE own == Maybe(Space[key[p]])
  <2>a. Others(p)  BY <1>4, StepIsLocal
  <2>b. /\ cache[p][key[p]] \in own /\ memo[p][key[p]] \in own /\ winner[key[p]] \in own
        /\ None \in own /\ Space[key[p]] \subseteq own
    BY Candidates
  <2>c. /\ cache \in [Proc -> [Key -> Maybe(Config)]] /\ memo \in [Proc -> [Key -> Maybe(Config)]]
        /\ winner \in [Key -> Maybe(Config)] /\ key[p] \in Key
    BY DEF TypeOK
  <2>d. Published /\ Held(p) /\ OwnCall(p)  BY DEF ForeignInv
  <2> HIDE DEF own
  <2>1. CASE Lookup(p)
    <3>1. Published'  BY <2>1, <2>d DEF Published, Lookup, disk
    <3>2. Held(p)'  BY <2>1, <2>d DEF Held, Lookup, memory
    <3>3. OwnCall(p)'
      BY <2>1, <2>b, <2>c, <2>d DEF TypeOK, OwnCall, PreparedCall, Lookup, Goto, call,
         own, Use, Resolved
    <3> QED  BY <2>a, <3>1, <3>2, <3>3, OwnPartIsEnough
  <2>2. CASE Memo(p)
    <3>1. Published'  BY <2>2, <2>d DEF Published, Memo, disk
    <3>2. Held(p)'
      <4>1. memo' = memo \/ \E c \in own : memo' = [memo EXCEPT ![p][key[p]] = c]
        BY <2>2, <2>b DEF Memo, Transfer
      <4>2. cache' = cache  BY <2>2 DEF Memo
      <4> QED  BY <4>1, <4>2, <2>c, <2>d DEF Held, own
    <3>3. OwnCall(p)'
      BY <2>2, <2>b, <2>c, <2>d DEF TypeOK, OwnCall, PreparedCall, Memo, Goto, call,
         own, Use
    <3> QED  BY <2>a, <3>1, <3>2, <3>3, OwnPartIsEnough
  <2>3. CASE Dispatch(p)
    <3>1. Published'  BY <2>3, <2>d DEF Published, Dispatch, disk
    <3>2. Held(p)'  BY <2>3, <2>d DEF Held, Dispatch, memory
    <3>3. OwnCall(p)'
      BY <2>3, <2>b, <2>c, <2>d DEF TypeOK, OwnCall, PreparedCall, Dispatch, Goto, call, own
    <3> QED  BY <2>a, <3>1, <3>2, <3>3, OwnPartIsEnough
  <2>4. CASE DiskRead(p)
    <3>1. Published'  BY <2>4, <2>d DEF Published, DiskRead, disk
    <3>2. Held(p)'
      <4>1. cache' = cache \/ cache' = [cache EXCEPT ![p][key[p]] = winner[key[p]]]
        BY <2>4 DEF DiskRead, LoadInto
      <4>2. memo' = memo  BY <2>4 DEF DiskRead
      <4> QED  BY <4>1, <4>2, <2>b, <2>c, <2>d DEF Held, own
    <3>3. OwnCall(p)'
      BY <2>4, <2>b, <2>c, <2>d DEF TypeOK, OwnCall, PreparedCall, DiskRead, Goto,
         call, own, Use, Raise
    <3> QED  BY <2>a, <3>1, <3>2, <3>3, OwnPartIsEnough
  <2>5. CASE Acquire(p)
    <3>1. Published'  BY <2>5, <2>d DEF Published, Acquire, disk
    <3>2. Held(p)'  BY <2>5, <2>d DEF Held, Acquire, memory
    <3>3. OwnCall(p)'
      BY <2>5, <2>b, <2>c, <2>d DEF TypeOK, OwnCall, PreparedCall, Acquire, Goto, call, own
    <3> QED  BY <2>a, <3>1, <3>2, <3>3, OwnPartIsEnough
  <2>6. CASE LockTimeout(p)
    <3>1. Published'  BY <2>6, <2>d DEF Published, LockTimeout, disk
    <3>2. Held(p)'  BY <2>6, <2>d DEF Held, LockTimeout, memory
    <3>3. OwnCall(p)'
      BY <2>6, <2>b, <2>c, <2>d DEF TypeOK, OwnCall, PreparedCall, LockTimeout, Goto,
         call, own, Use, Raise
    <3> QED  BY <2>a, <3>1, <3>2, <3>3, OwnPartIsEnough
  <2>7. CASE Recheck(p)
    <3>1. Published'  BY <2>7, <2>d DEF Published, Recheck, disk
    <3>2. Held(p)'
      <4>1. cache' = cache \/ cache' = [cache EXCEPT ![p][key[p]] = winner[key[p]]]
        BY <2>7 DEF Recheck, LoadInto
      <4>2. memo' = memo  BY <2>7 DEF Recheck
      <4> QED  BY <4>1, <4>2, <2>b, <2>c, <2>d DEF Held, own
    <3>3. OwnCall(p)'
      BY <2>7, <2>b, <2>c, <2>d DEF TypeOK, OwnCall, PreparedCall, Recheck, Goto, call, own
    <3> QED  BY <2>a, <3>1, <3>2, <3>3, OwnPartIsEnough
  <2>8. CASE Sweep(p)
    <3>1. Published'  BY <2>8, <2>d DEF Published, Sweep, disk
    <3>2. Held(p)'
      <4>1. PICK c \in Space[key[p]] : cache' = [cache EXCEPT ![p][key[p]] = c]
        BY <2>8 DEF Sweep
      <4>2. memo' = memo /\ c \in own  BY <2>8, <2>b DEF Sweep
      <4> QED  BY <4>1, <4>2, <2>c, <2>d DEF Held, own
    <3>3. OwnCall(p)'
      BY <2>8, <2>b, <2>c, <2>d DEF TypeOK, OwnCall, PreparedCall, Sweep, Goto, call, own
    <3> QED  BY <2>a, <3>1, <3>2, <3>3, OwnPartIsEnough
  <2>9. CASE SweepFails(p)
    <3>1. Published'  BY <2>9, <2>d DEF Published, SweepFails, disk
    <3>2. Held(p)'  BY <2>9, <2>d DEF Held, SweepFails, memory
    <3>3. OwnCall(p)'
      BY <2>9, <2>b, <2>c, <2>d DEF TypeOK, OwnCall, PreparedCall, SweepFails, Goto,
         call, own, Use, Raise
    <3> QED  BY <2>a, <3>1, <3>2, <3>3, OwnPartIsEnough
  <2>10. CASE Put(p)
    <3>1. Published'
      <4>1. winner' = [winner EXCEPT ![key[p]] = cache[p][key[p]]]  BY <2>10 DEF Put
      <4> QED  BY <4>1, <2>b, <2>c, <2>d DEF Published, own
    <3>2. Held(p)'  BY <2>10, <2>d DEF Held, Put, memory
    <3>3. OwnCall(p)'
      BY <2>10, <2>b, <2>c, <2>d DEF TypeOK, OwnCall, PreparedCall, Put, Goto, call, own
    <3> QED  BY <2>a, <3>1, <3>2, <3>3, OwnPartIsEnough
  <2>11. CASE PutRaises(p)
    <3>1. Published'  BY <2>11, <2>d DEF Published, PutRaises, disk
    <3>2. Held(p)'  BY <2>11, <2>d DEF Held, PutRaises, memory
    <3>3. OwnCall(p)'
      BY <2>11, <2>b, <2>c, <2>d DEF TypeOK, OwnCall, PreparedCall, PutRaises, Goto,
         call, own, Use, Raise
    <3> QED  BY <2>a, <3>1, <3>2, <3>3, OwnPartIsEnough
  <2>12. CASE LoadDisk(p)
    <3>1. Published'  BY <2>12, <2>d DEF Published, LoadDisk, disk
    <3>2. Held(p)'
      <4>1. cache' = cache \/ cache' = [cache EXCEPT ![p][key[p]] = winner[key[p]]]
        BY <2>12 DEF LoadDisk, LoadInto
      <4>2. memo' = memo  BY <2>12 DEF LoadDisk
      <4> QED  BY <4>1, <4>2, <2>b, <2>c, <2>d DEF Held, own
    <3>3. OwnCall(p)'
      BY <2>12, <2>b, <2>c, <2>d DEF TypeOK, OwnCall, PreparedCall, LoadDisk, Goto,
         call, own, Use
    <3> QED  BY <2>a, <3>1, <3>2, <3>3, OwnPartIsEnough
  <2>13. CASE Reuse(p)
    <3>1. Published'  BY <2>13, <2>d DEF Published, Reuse, disk
    <3>2. Held(p)'
      <4>1. memo' = memo \/ \E c \in own : memo' = [memo EXCEPT ![p][key[p]] = c]
        BY <2>13, <2>b DEF Reuse, Transfer
      <4>2. cache' = cache  BY <2>13 DEF Reuse
      <4> QED  BY <4>1, <4>2, <2>c, <2>d DEF Held, own
    <3>3. OwnCall(p)'
      BY <2>13, <2>b, <2>c, <2>d DEF TypeOK, OwnCall, PreparedCall, Reuse, Goto, call,
         own, Transfer, Fallback, Use, Raise
    <3> QED  BY <2>a, <3>1, <3>2, <3>3, OwnPartIsEnough
  <2>14. CASE Record(p)
    <3>1. Published'  BY <2>14, <2>d DEF Published, Record, disk
    <3>2. Held(p)'  BY <2>14, <2>d DEF Held, Record, memory
    <3>3. OwnCall(p)'
      BY <2>14, <2>b, <2>c, <2>d DEF TypeOK, OwnCall, PreparedCall, Record, Goto,
         call, own, Use, Resolved
    <3> QED  BY <2>a, <3>1, <3>2, <3>3, OwnPartIsEnough
  <2>15. CASE RecordFile(p)
    <3>1. Published'  BY <2>15, <2>d DEF Published, RecordFile, disk
    <3>2. Held(p)'  BY <2>15, <2>d DEF Held, RecordFile, memory
    <3>3. OwnCall(p)'
      BY <2>15, <2>b, <2>c, <2>d DEF TypeOK, OwnCall, PreparedCall, RecordFile, Goto,
         call, own, Resolved
    <3> QED  BY <2>a, <3>1, <3>2, <3>3, OwnPartIsEnough
  <2>16. CASE Prepare(p)
    <3>1. Published'  BY <2>16, <2>d DEF Published, Prepare, disk
    <3>2. Held(p)'
      <4>1. \A k \in Key : cache'[p][k] = cache[p][k] \/ cache'[p][k] \in {None, winner[k]}
        BY <2>16 DEF Prepare, TypeOK
      <4>2. memo' = memo  BY <2>16 DEF Prepare
      <4> QED  BY <4>1, <4>2, <2>d DEF Held, Published, Maybe
    <3>3. OwnCall(p)'
      BY <2>16, <2>b, <2>c, <2>d DEF TypeOK, OwnCall, PreparedCall, Prepare, Goto, call, own
    <3> QED  BY <2>a, <3>1, <3>2, <3>3, OwnPartIsEnough
  <2>17. CASE Publish(p)
    <3>1. Published'  BY <2>17, <2>d DEF Published, Publish, disk
    <3>2. Held(p)'  BY <2>17, <2>d DEF Held, Publish, memory
    <3>3. OwnCall(p)'
      BY <2>17, <2>b, <2>c, <2>d DEF TypeOK, OwnCall, PreparedCall, Publish, Goto, call, own
    <3> QED  BY <2>a, <3>1, <3>2, <3>3, OwnPartIsEnough
  <2>18. CASE PrepareFails(p)
    <3>1. Published'  BY <2>18, <2>d DEF Published, PrepareFails, disk
    <3>2. Held(p)'  BY <2>18, <2>d DEF Held, PrepareFails, memory
    <3>3. OwnCall(p)'
      BY <2>18, <2>b, <2>c, <2>d DEF TypeOK, OwnCall, PreparedCall, PrepareFails,
         Goto, call, own, Use, Raise
    <3> QED  BY <2>a, <3>1, <3>2, <3>3, OwnPartIsEnough
  <2>19. CASE Return(p)
    <3>1. Published'  BY <2>19, <2>d DEF Published, Return, disk
    <3>2. Held(p)'  BY <2>19, <2>d DEF Held, Return, memory
    <3>3. OwnCall(p)'
      BY <2>19, <2>b, <2>c, <2>d DEF TypeOK, OwnCall, PreparedCall, Return, Goto,
         call, own, Use
    <3> QED  BY <2>a, <3>1, <3>2, <3>3, OwnPartIsEnough
  <2> QED
    BY <1>4, <2>1, <2>2, <2>3, <2>4, <2>5, <2>6, <2>7, <2>8, <2>9, <2>10, <2>11,
       <2>12, <2>13, <2>14, <2>15, <2>16, <2>17, <2>18, <2>19 DEF Step
<1> QED  BY <1>1, <1>2, <1>3, <1>4 DEF Next

\* A call runs one of its key's candidates, whatever travels between buckets.
THEOREM NothingForeignRuns == Spec => []NeverForeign
<1>1. Init => TypeOK /\ ForeignInv  BY InitTypeOK, InitForeignInv
<1>2. TypeOK /\ ForeignInv /\ [Next]_vars => (TypeOK /\ ForeignInv)'
  BY NextTypeOK, NextForeignInv
<1>3. ForeignInv => NeverForeign  BY DEF ForeignInv, OwnCall, NeverForeign
<1> QED  BY <1>1, <1>2, <1>3, PTL DEF Spec

-----------------------------------------------------------------------------
(***************************************************************************)
(* The RUNNING quota: a sweep done is a contract measured, or one whose    *)
(* winner is about to be put; a call on its way to a sweep has quota left. *)
(***************************************************************************)
QuotaOf(p) ==
    /\ \A c \in Contract :
          /\ sweeps[p][c] # "again"
          /\ sweeps[p][c] # "none" =>
                c \in measured[p] \/ (pc[p] = "put" /\ mode[p] = "RUNNING" /\ Con(p) = c)
    /\ pc[p] \in {"diskRead", "wantLock", "recheck", "sweep"} /\ mode[p] = "RUNNING"
          => Con(p) \notin measured[p]

QuotaInv == ~workload.putFails => \A p \in Proc : QuotaOf(p)

LEMMA OwnQuotaIsEnough ==
    ASSUME QuotaInv, NEW p \in Proc, Others(p), ~workload.putFails => QuotaOf(p)'
    PROVE  QuotaInv'
BY DEF QuotaInv, Others, QuotaOf, Con

LEMMA InitQuotaInv == Init => QuotaInv
BY DEF Init, QuotaInv, QuotaOf

LEMMA NextQuotaInv == TypeOK /\ QuotaInv /\ [Next]_vars => QuotaInv'
<1> SUFFICES ASSUME TypeOK, QuotaInv, [Next]_vars PROVE QuotaInv'  OBVIOUS
<1>1. CASE UNCHANGED vars
  BY <1>1 DEF vars, QuotaInv, QuotaOf, Con
<1>2. ASSUME NEW p \in Proc, NEW k \in Key, NEW m \in Modes, Call(p, k, m) PROVE QuotaInv'
  <2>1. Others(p)  BY <1>2, CallIsLocal
  <2>2. ~workload.putFails => QuotaOf(p)'
    <3>1. /\ pc[p] = "idle" /\ pc'[p] = "lookup"
          /\ sweeps' = sweeps /\ measured' = measured
      BY <1>2 DEF Call, Goto, TypeOK, memory
    <3> QED  BY <3>1 DEF QuotaInv, QuotaOf
  <2> QED  BY <2>1, <2>2, OwnQuotaIsEnough
<1>3. ASSUME NEW p \in Proc, Crash(p) PROVE QuotaInv'
  <2>1. Others(p)  BY <1>3, CrashIsLocal
  <2>2. QuotaOf(p)'
    <3>1. pc'[p] = "idle" /\ sweeps'[p] = [c \in Contract |-> "none"]
      BY <1>3 DEF Crash, TypeOK
    <3> QED  BY <3>1 DEF QuotaOf
  <2> QED  BY <2>1, <2>2, OwnQuotaIsEnough
<1>4. ASSUME NEW p \in Proc, Step(p) PROVE QuotaInv'
  <2>a. Others(p)  BY <1>4, StepIsLocal
  <2>b. ~workload.putFails => QuotaOf(p)  BY DEF QuotaInv
  <2>c. /\ sweeps \in [Proc -> [Contract -> {"none", "once", "again"}]]
        /\ measured \in [Proc -> SUBSET Contract] /\ pc \in [Proc -> Labels]
        /\ Con(p) \in Contract
    BY Values DEF TypeOK
  <2>1. CASE Lookup(p)
    <3>1. ~workload.putFails => QuotaOf(p)'
      BY <2>1, <2>b, <2>c DEF QuotaOf, Con, Lookup, Goto, memory, call, Resolved
    <3> QED  BY <3>1, <2>a, OwnQuotaIsEnough
  <2>2. CASE Memo(p)
    <3>1. ~workload.putFails => QuotaOf(p)'
      BY <2>2, <2>b, <2>c DEF QuotaOf, Con, Memo, Goto, memory, call
    <3> QED  BY <3>1, <2>a, OwnQuotaIsEnough
  <2>3. CASE Dispatch(p)
    <3>1. ~workload.putFails => QuotaOf(p)'
      BY <2>3, <2>b, <2>c DEF QuotaOf, Con, Dispatch, Goto, memory, call, TuneNow
    <3> QED  BY <3>1, <2>a, OwnQuotaIsEnough
  <2>4. CASE DiskRead(p)
    <3>1. ~workload.putFails => QuotaOf(p)'
      BY <2>4, <2>b, <2>c DEF QuotaOf, Con, DiskRead, Goto, memory, call, Raise
    <3> QED  BY <3>1, <2>a, OwnQuotaIsEnough
  <2>5. CASE Acquire(p)
    <3>1. ~workload.putFails => QuotaOf(p)'
      BY <2>5, <2>b, <2>c DEF QuotaOf, Con, Acquire, Goto, memory, call
    <3> QED  BY <3>1, <2>a, OwnQuotaIsEnough
  <2>6. CASE LockTimeout(p)
    <3>1. ~workload.putFails => QuotaOf(p)'
      BY <2>6, <2>b, <2>c DEF QuotaOf, Con, LockTimeout, Goto, memory, call, Raise
    <3> QED  BY <3>1, <2>a, OwnQuotaIsEnough
  <2>7. CASE Recheck(p)
    <3>1. ~workload.putFails => QuotaOf(p)'
      BY <2>7, <2>b, <2>c DEF QuotaOf, Con, Recheck, Goto, memory, call
    <3> QED  BY <3>1, <2>a, OwnQuotaIsEnough
  <2>8. CASE Sweep(p)
    <3>1. /\ pc[p] = "sweep" /\ pc'[p] = "put" /\ UNCHANGED <<key, mode, measured>>
          /\ sweeps' = IF mode[p] # "RUNNING" THEN sweeps
                       ELSE [sweeps EXCEPT ![p][Con(p)] = IF @ = "none" THEN "once" ELSE "again"]
      BY <2>8, <2>c DEF Sweep, Goto, call
    <3>2. CASE mode[p] # "RUNNING"
      BY <3>1, <3>2, <2>a, <2>b, OwnQuotaIsEnough DEF QuotaOf, Con
    <3>3. CASE mode[p] = "RUNNING"
      <4> SUFFICES ASSUME ~workload.putFails PROVE QuotaOf(p)'
        BY <2>a, OwnQuotaIsEnough
      <4>1. sweeps[p][Con(p)] = "none"
        BY <3>1, <3>3, <2>b, <2>c DEF QuotaOf
      <4>2. sweeps'[p][Con(p)] = "once"
            /\ \A c \in Contract : c # Con(p) => sweeps'[p][c] = sweeps[p][c]
        BY <3>1, <3>3, <4>1, <2>c
      <4>3. ASSUME NEW c \in Contract
            PROVE  /\ sweeps'[p][c] # "again"
                   /\ sweeps'[p][c] # "none" =>
                         c \in measured[p] \/ (pc'[p] = "put" /\ mode[p] = "RUNNING" /\ Con(p) = c)
        BY <3>1, <3>3, <4>2, <2>b DEF QuotaOf
      <4> QED  BY <3>1, <4>3 DEF QuotaOf, Con
    <3> QED  BY <3>2, <3>3, <2>a, OwnQuotaIsEnough
  <2>9. CASE SweepFails(p)
    <3>1. ~workload.putFails => QuotaOf(p)'
      BY <2>9, <2>b, <2>c DEF QuotaOf, Con, SweepFails, Goto, memory, call, Raise
    <3> QED  BY <3>1, <2>a, OwnQuotaIsEnough
  <2>10. CASE Put(p)
    <3>1. /\ pc'[p] = "record" /\ UNCHANGED <<key, mode, sweeps>>
          /\ mode[p] = "RUNNING" => measured'[p] = measured[p] \cup {Con(p)}
          /\ measured[p] \subseteq measured'[p]
      BY <2>10, <2>c DEF Put, Goto, call
    <3>2. ~workload.putFails => QuotaOf(p)'
      BY <3>1, <2>b DEF QuotaOf, Con
    <3> QED  BY <3>2, <2>a, OwnQuotaIsEnough
  <2>11. CASE PutRaises(p)
    <3> QED  BY <2>11, <2>a, OwnQuotaIsEnough DEF PutRaises
  <2>12. CASE LoadDisk(p)
    <3>1. ~workload.putFails => QuotaOf(p)'
      BY <2>12, <2>b, <2>c DEF QuotaOf, Con, LoadDisk, Goto, memory, call
    <3> QED  BY <3>1, <2>a, OwnQuotaIsEnough
  <2>13. CASE Reuse(p)
    <3>1. /\ pc[p] # "put" /\ pc'[p] \in {"returned", "raised"}
          /\ sweeps' = sweeps /\ measured' = measured
      BY <2>13, <2>c DEF Reuse, Goto, memory, Transfer, Fallback, Raise
    <3>2. ~workload.putFails => QuotaOf(p)'  BY <3>1, <2>b DEF QuotaOf
    <3> QED  BY <3>2, <2>a, OwnQuotaIsEnough
  <2>14. CASE Record(p)
    <3>1. ~workload.putFails => QuotaOf(p)'
      BY <2>14, <2>b, <2>c DEF QuotaOf, Con, Record, Goto, memory, call, Resolved
    <3> QED  BY <3>1, <2>a, OwnQuotaIsEnough
  <2>15. CASE RecordFile(p)
    <3>1. ~workload.putFails => QuotaOf(p)'
      BY <2>15, <2>b, <2>c DEF QuotaOf, Con, RecordFile, Goto, memory, call, Resolved
    <3> QED  BY <3>1, <2>a, OwnQuotaIsEnough
  <2>16. CASE Prepare(p)
    <3>1. ~workload.putFails => QuotaOf(p)'
      BY <2>16, <2>b, <2>c DEF QuotaOf, Con, Prepare, Goto, memory, call
    <3> QED  BY <3>1, <2>a, OwnQuotaIsEnough
  <2>17. CASE Publish(p)
    <3>1. ~workload.putFails => QuotaOf(p)'
      BY <2>17, <2>b, <2>c DEF QuotaOf, Con, Publish, Goto, memory, call
    <3> QED  BY <3>1, <2>a, OwnQuotaIsEnough
  <2>18. CASE PrepareFails(p)
    <3>1. ~workload.putFails => QuotaOf(p)'
      BY <2>18, <2>b, <2>c DEF QuotaOf, Con, PrepareFails, Goto, memory, call, Raise
    <3> QED  BY <3>1, <2>a, OwnQuotaIsEnough
  <2>19. CASE Return(p)
    <3>1. /\ pc[p] # "put" /\ pc'[p] \in {"idle"}
          /\ sweeps' = sweeps /\ measured' = measured
      BY <2>19, <2>c DEF Return, Goto, memory
    <3>2. ~workload.putFails => QuotaOf(p)'  BY <3>1, <2>b DEF QuotaOf
    <3> QED  BY <3>2, <2>a, OwnQuotaIsEnough
  <2> QED
    BY <1>4, <2>1, <2>2, <2>3, <2>4, <2>5, <2>6, <2>7, <2>8, <2>9, <2>10, <2>11,
       <2>12, <2>13, <2>14, <2>15, <2>16, <2>17, <2>18, <2>19 DEF Step
<1> QED  BY <1>1, <1>2, <1>3, <1>4 DEF Next

\* RUNNING measures a contract at most once per process.
THEOREM RunningMeasuresOnce == Spec => []RunningQuota
<1>1. Init => TypeOK /\ QuotaInv  BY InitTypeOK, InitQuotaInv
<1>2. TypeOK /\ QuotaInv /\ [Next]_vars => (TypeOK /\ QuotaInv)'
  BY NextTypeOK, NextQuotaInv
<1>3. QuotaInv => RunningQuota  BY DEF QuotaInv, QuotaOf, RunningQuota
<1> QED  BY <1>1, <1>2, <1>3, PTL DEF Spec

-----------------------------------------------------------------------------
(***************************************************************************)
(* A winner published before the call is the winner until it returns: the  *)
(* lock keeps anyone from replacing it, and the branches of the call that  *)
(* do without it are taken only when there is none.                        *)
(***************************************************************************)
DueOf(p) ==
    /\ pc[p] # "idle" /\ due[p] # None => winner[key[p]] = due[p]
    /\ pc[p] \in {"put", "record"} => cache[p][key[p]] # None
    /\ pc[p] = "reuse" => due[p] = None
    /\ pc[p] \in {"prepare", "publish"} => PreparedCall(p)
    /\ pc[p] \in {"recordFile", "returned"} /\ due[p] # None /\ ~PreparedCall(p)
          => config[p] = due[p]

Honest == ~workload.force /\ ~workload.putFails

DueInv == Honest => \A p \in Proc : DueOf(p)

\* Publishing adds a winner and never replaces one.
WinnersStay == \A k \in Key : winner[k] # None => winner'[k] = winner[k]

LEMMA OwnDueIsEnough ==
    ASSUME DueInv, TypeOK, NEW p \in Proc, Others(p), Honest => WinnersStay /\ DueOf(p)'
    PROVE  DueInv'
<1> SUFFICES ASSUME Honest, NEW q \in Proc, q # p PROVE DueOf(q)'
  BY DEF DueInv, Honest, Others
<1>1. DueOf(q)  BY DEF DueInv
<1>2. q \in Proc \ {p} /\ key[q] \in Key  BY DEF TypeOK
<1>3. due[q] # None => (winner[key[q]] = due[q] => winner'[key[q]] = due[q])
  BY <1>2 DEF WinnersStay
<1> QED  BY <1>1, <1>2, <1>3 DEF DueOf, Others, PreparedCall

LEMMA InitDueInv == Init => DueInv
BY DEF Init, DueInv, DueOf, Honest

LEMMA NextDueInv == TypeOK /\ WinnersInv /\ DueInv /\ [Next]_vars => DueInv'
<1> SUFFICES ASSUME TypeOK, WinnersInv, DueInv, [Next]_vars PROVE DueInv'  OBVIOUS
<1>1. CASE UNCHANGED vars
  BY <1>1 DEF vars, DueInv, DueOf, Honest, PreparedCall
<1>2. ASSUME NEW p \in Proc, NEW k \in Key, NEW m \in Modes, Call(p, k, m) PROVE DueInv'
  <2>1. Others(p)  BY <1>2, CallIsLocal
  <2>2. WinnersStay  BY <1>2 DEF WinnersStay, Call, disk
  <2>3. /\ pc'[p] = "lookup" /\ key'[p] = k /\ due'[p] = winner[k] /\ winner' = winner
    BY <1>2 DEF Call, Goto, TypeOK, disk
  <2>4. DueOf(p)'  BY <2>3 DEF DueOf
  <2> QED  BY <2>1, <2>2, <2>4, OwnDueIsEnough
<1>3. ASSUME NEW p \in Proc, Crash(p) PROVE DueInv'
  <2>1. Others(p)  BY <1>3, CrashIsLocal
  <2>2. WinnersStay  BY <1>3 DEF WinnersStay, Crash, disk
  <2>3. pc'[p] = "idle"  BY <1>3 DEF Crash, TypeOK
  <2>4. DueOf(p)'  BY <2>3 DEF DueOf
  <2> QED  BY <2>1, <2>2, <2>4, OwnDueIsEnough
<1>4. ASSUME NEW p \in Proc, Step(p) PROVE DueInv'
  <2>a. Others(p)  BY <1>4, StepIsLocal
  <2> SUFFICES ASSUME Honest PROVE WinnersStay /\ DueOf(p)'
    BY <2>a, OwnDueIsEnough
  <2>b. DueOf(p) /\ workload' = workload  BY <2>a DEF DueInv, Others
  <2>c. /\ pc \in [Proc -> Labels] /\ config \in [Proc -> Maybe(Config)]
        /\ cache \in [Proc -> [Key -> Maybe(Config)]] /\ key[p] \in Key
    BY DEF TypeOK
  <2>d. pc[p] # "put" /\ cache[p][key[p]] # None => winner[key[p]] = cache[p][key[p]]
    BY <2>c DEF WinnersInv, WinnersAgree, Honest
  <2>e. OnDisk(key[p]) <=> winner[key[p]] # None  BY DEF OnDisk, Honest
  <2>1. CASE Lookup(p)
    <3>1. winner' = winner /\ UNCHANGED due
      BY <2>1 DEF Lookup, disk, call
    <3>2. DueOf(p)'
      BY <2>1, <3>1, <2>b, <2>c, <2>d DEF DueOf, PreparedCall, Lookup, Goto, memory,
         call, Use, Resolved
    <3> QED  BY <3>1, <3>2 DEF WinnersStay
  <2>2. CASE Memo(p)
    <3>1. winner' = winner /\ UNCHANGED due
      BY <2>2 DEF Memo, disk, call
    <3>2. DueOf(p)'
      BY <2>2, <3>1, <2>b, <2>c, <2>d DEF DueOf, PreparedCall, Memo, Goto, memory, call, Use
    <3> QED  BY <3>1, <3>2 DEF WinnersStay
  <2>3. CASE Dispatch(p)
    <3>1. winner' = winner /\ UNCHANGED due
      BY <2>3 DEF Dispatch, disk, call
    <3>2. DueOf(p)'
      BY <2>3, <3>1, <2>b, <2>c, <2>d DEF DueOf, PreparedCall, Dispatch, Goto, memory, call
    <3> QED  BY <3>1, <3>2 DEF WinnersStay
  <2>4. CASE DiskRead(p)
    <3>1. winner' = winner /\ UNCHANGED due
      BY <2>4 DEF DiskRead, disk, call
    <3>2. OnDisk(key[p]) => cache'[p][key[p]] # None
      <4>1. OnDisk(key[p]) => cache' = [cache EXCEPT ![p][key[p]] = winner[key[p]]]
        BY <2>4 DEF DiskRead, LoadInto
      <4> QED  BY <4>1, <2>c, <2>e
    <3>3. DueOf(p)'
      BY <2>4, <3>1, <3>2, <2>b, <2>c, <2>e DEF DueOf, PreparedCall, DiskRead, Goto,
         call, Raise
    <3> QED  BY <3>1, <3>3 DEF WinnersStay
  <2>5. CASE Acquire(p)
    <3>1. winner' = winner /\ UNCHANGED due
      BY <2>5 DEF Acquire, disk, call
    <3>2. DueOf(p)'
      BY <2>5, <3>1, <2>b, <2>c, <2>d DEF DueOf, PreparedCall, Acquire, Goto, memory, call
    <3> QED  BY <3>1, <3>2 DEF WinnersStay
  <2>6. CASE LockTimeout(p)
    <3>1. winner' = winner /\ UNCHANGED due
      BY <2>6 DEF LockTimeout, disk, call
    <3>2. pc[p] # "idle" /\ pc'[p] = "raised" /\ key' = key
      BY <2>6, <2>c DEF LockTimeout, Goto, call, Raise
    <3>3. DueOf(p)'  BY <3>1, <3>2, <2>b DEF DueOf
    <3> QED  BY <3>1, <3>3 DEF WinnersStay
  <2>7. CASE Recheck(p)
    <3>1. winner' = winner /\ UNCHANGED due
      BY <2>7 DEF Recheck, disk, call
    <3>2. OnDisk(key[p]) => cache'[p][key[p]] # None
      <4>1. OnDisk(key[p]) => cache' = [cache EXCEPT ![p][key[p]] = winner[key[p]]]
        BY <2>7 DEF Recheck, LoadInto
      <4> QED  BY <4>1, <2>c, <2>e
    <3>3. DueOf(p)'
      BY <2>7, <3>1, <3>2, <2>b, <2>c, <2>e DEF DueOf, PreparedCall, Recheck, Goto, call
    <3> QED  BY <3>1, <3>3 DEF WinnersStay
  <2>8. CASE Sweep(p)
    <3>1. winner' = winner /\ UNCHANGED due
      BY <2>8 DEF Sweep, disk, call
    <3>2. PICK c \in Space[key[p]] : cache' = [cache EXCEPT ![p][key[p]] = c]
      BY <2>8 DEF Sweep
    <3>3. c # None  BY <2>c, ModelAssumption
    <3>4. cache'[p][key[p]] # None  BY <3>2, <3>3, <2>c
    <3>5. pc[p] = "sweep" /\ pc'[p] = "put" /\ key' = key
      BY <2>8, <2>c DEF Sweep, Goto, call
    <3>6. DueOf(p)'  BY <3>1, <3>4, <3>5, <2>b DEF DueOf
    <3> QED  BY <3>1, <3>6 DEF WinnersStay
  <2>9. CASE SweepFails(p)
    <3>1. winner' = winner /\ UNCHANGED due
      BY <2>9 DEF SweepFails, disk, call
    <3>2. pc[p] # "idle" /\ pc'[p] = "raised" /\ key' = key
      BY <2>9, <2>c DEF SweepFails, Goto, call, Raise
    <3>3. DueOf(p)'  BY <3>1, <3>2, <2>b DEF DueOf
    <3> QED  BY <3>1, <3>3 DEF WinnersStay
  <2>10. CASE Put(p)
    <3>1. /\ pc[p] = "put" /\ pc'[p] = "record" /\ UNCHANGED <<key, due, cache>>
          /\ winner' = [winner EXCEPT ![key[p]] = cache[p][key[p]]]
      BY <2>10, <2>c DEF Put, Goto, call
    <3>2. winner[key[p]] = None  BY <3>1 DEF WinnersInv, LockInv, Honest
    <3>3. WinnersStay  BY <3>1, <3>2 DEF WinnersStay, TypeOK
    <3>4. DueOf(p)'  BY <3>1, <3>2, <2>b DEF DueOf
    <3> QED  BY <3>3, <3>4
  <2>11. CASE PutRaises(p)
    <3> QED  BY <2>11 DEF PutRaises, Honest
  <2>12. CASE LoadDisk(p)
    <3>1. winner' = winner /\ UNCHANGED due
      BY <2>12 DEF LoadDisk, disk, call
    <3>2. OnDisk(key[p]) => cache'[p][key[p]] # None
      <4>1. OnDisk(key[p]) => cache' = [cache EXCEPT ![p][key[p]] = winner[key[p]]]
        BY <2>12 DEF LoadDisk, LoadInto
      <4> QED  BY <4>1, <2>c, <2>e
    <3>3. DueOf(p)'
      BY <2>12, <3>1, <3>2, <2>b, <2>c, <2>e DEF DueOf, PreparedCall, LoadDisk, Goto, call
    <3> QED  BY <3>1, <3>3 DEF WinnersStay
  <2>13. CASE Reuse(p)
    <3>1. winner' = winner /\ UNCHANGED due
      BY <2>13 DEF Reuse, disk, call
    <3>2. DueOf(p)'
      BY <2>13, <3>1, <2>b, <2>c, <2>d DEF DueOf, PreparedCall, Reuse, Goto, memory,
         call, Transfer, Fallback, Use, Raise
    <3> QED  BY <3>1, <3>2 DEF WinnersStay
  <2>14. CASE Record(p)
    <3>1. winner' = winner /\ UNCHANGED due
      BY <2>14 DEF Record, disk, call
    <3>2. DueOf(p)'
      BY <2>14, <3>1, <2>b, <2>c, <2>d DEF DueOf, PreparedCall, Record, Goto, memory,
         call, Use, Resolved
    <3> QED  BY <3>1, <3>2 DEF WinnersStay
  <2>15. CASE RecordFile(p)
    <3>1. winner' = winner /\ UNCHANGED due
      BY <2>15 DEF RecordFile, disk, call
    <3>2. DueOf(p)'
      BY <2>15, <3>1, <2>b, <2>c, <2>d DEF DueOf, PreparedCall, RecordFile, Goto,
         memory, call, Resolved
    <3> QED  BY <3>1, <3>2 DEF WinnersStay
  <2>16. CASE Prepare(p)
    <3>1. winner' = winner /\ UNCHANGED due
      BY <2>16 DEF Prepare, disk, call
    <3>2. DueOf(p)'
      BY <2>16, <3>1, <2>b, <2>c, <2>d DEF DueOf, PreparedCall, Prepare, Goto, memory, call
    <3> QED  BY <3>1, <3>2 DEF WinnersStay
  <2>17. CASE Publish(p)
    <3>1. winner' = winner /\ UNCHANGED due
      BY <2>17 DEF Publish, disk, call
    <3>2. DueOf(p)'
      BY <2>17, <3>1, <2>b, <2>c, <2>d DEF DueOf, PreparedCall, Publish, Goto, memory, call
    <3> QED  BY <3>1, <3>2 DEF WinnersStay
  <2>18. CASE PrepareFails(p)
    <3>1. winner' = winner /\ UNCHANGED due
      BY <2>18 DEF PrepareFails, disk, call
    <3>2. pc[p] # "idle" /\ pc'[p] = "raised" /\ key' = key
      BY <2>18, <2>c DEF PrepareFails, Goto, call, Raise
    <3>3. DueOf(p)'  BY <3>1, <3>2, <2>b DEF DueOf
    <3> QED  BY <3>1, <3>3 DEF WinnersStay
  <2>19. CASE Return(p)
    <3>1. winner' = winner  BY <2>19 DEF Return, disk
    <3>2. pc[p] # "idle" /\ pc'[p] = "idle"
      BY <2>19, <2>c DEF Return, Goto, call
    <3>3. DueOf(p)'  BY <3>1, <3>2, <2>b DEF DueOf
    <3> QED  BY <3>1, <3>3 DEF WinnersStay
  <2> QED
    BY <1>4, <2>1, <2>2, <2>3, <2>4, <2>5, <2>6, <2>7, <2>8, <2>9, <2>10, <2>11,
       <2>12, <2>13, <2>14, <2>15, <2>16, <2>17, <2>18, <2>19 DEF Step
<1> QED  BY <1>1, <1>2, <1>3, <1>4 DEF Next

\* No memo, fallback or transferred winner hides a winner that was published
\* before the call began.
THEOREM PublishedWinnerRuns == Spec => []PeerWinnerIsPickedUp
<1>1. Init => TypeOK /\ WinnersInv /\ DueInv  BY InitTypeOK, InitWinnersInv, InitDueInv
<1>2. TypeOK /\ WinnersInv /\ DueInv /\ [Next]_vars => (TypeOK /\ WinnersInv /\ DueInv)'
  BY NextTypeOK, NextWinnersInv, NextDueInv
<1>3. DueInv => PeerWinnerIsPickedUp
  BY DEF DueInv, DueOf, Honest, PeerWinnerIsPickedUp
<1> QED  BY <1>1, <1>2, <1>3, PTL DEF Spec

\* The winner table is written once per key: while winner files are looked at
\* and can be written, no step replaces a published winner, whichever processes
\* race, crash or time out.
THEOREM WinnersAreFinal == Spec => [][Honest => WinnersStay]_vars
<1>1. Init => TypeOK /\ WinnersInv  BY InitTypeOK, InitWinnersInv
<1>2. TypeOK /\ WinnersInv /\ [Next]_vars => (TypeOK /\ WinnersInv)'
  BY NextTypeOK, NextWinnersInv
<1>3. TypeOK /\ WinnersInv /\ [Next]_vars => [Honest => WinnersStay]_vars
  <2> SUFFICES ASSUME TypeOK, WinnersInv, Next, Honest PROVE WinnersStay
    BY DEF vars
  <2>1. PICK p \in Proc : Step(p) \/ Crash(p) \/ \E k \in Key, m \in Modes : Call(p, k, m)
    BY DEF Next
  <2>2. CASE Put(p)
    <3>1. winner[key[p]] = None /\ winner' = [winner EXCEPT ![key[p]] = cache[p][key[p]]]
      BY <2>2 DEF Put, WinnersInv, LockInv, Honest
    <3> QED  BY <3>1 DEF WinnersStay, TypeOK
  <2>3. CASE ~Put(p)
    <3>1. winner' = winner
      BY <2>1, <2>3 DEF Step, Call, Crash, disk,
         Lookup, Memo, Dispatch, DiskRead, Acquire, LockTimeout, Recheck, Sweep, SweepFails,
         PutRaises, LoadDisk, Reuse, Record, RecordFile, Prepare, Publish, PrepareFails, Return
    <3> QED  BY <3>1 DEF WinnersStay
  <2> QED  BY <2>2, <2>3
<1> QED  BY <1>1, <1>2, <1>3, PTL DEF Spec
=============================================================================
