---------------------------- MODULE PrewarmProofs ----------------------------
(***************************************************************************)
(* What a prewarm reports and counts, for every number of processes, keys, *)
(* pool sizes and circumstances.                                           *)
(***************************************************************************)
EXTENDS Prewarm, FiniteSetTheorems, SequenceTheorems, TLAPS

MainLabels == {"loop", "poll", "external", "claim", "reload", "wantLock",
               "quarantine", "compile", "unlock", "solo", "verify"} \cup Ended

Shape ==
    /\ case \in Cases
    /\ obj \in [Key -> {"absent", "corrupt", "sound"}]
    /\ queue \in [Proc -> Seq(Key)]
    /\ pc \in [Proc -> MainLabels]
    /\ fut \in [Proc -> [Key -> Stages]]
    /\ early \in [Proc -> SUBSET Key] /\ ext \in [Proc -> SUBSET Key]
    /\ ledger \in [Proc -> SUBSET Key] /\ carried \in [Proc -> SUBSET Key]
    /\ credited \in [Proc -> SUBSET Key]
    /\ authored \in [Proc -> SUBSET Key] /\ made \in [Proc -> SUBSET Key]
    /\ late \in [Proc -> SUBSET Key]

(***************************************************************************)
(* The parts of the invariant, each about one process.                     *)
(***************************************************************************)
\* Where the deque is empty and where it is not; the call in progress is about
\* its head, and only a key without a future is claimed.
Place(p) ==
    /\ pc[p] \notin {"loop", "verify"} \cup Ended => queue[p] # <<>>
    /\ pc[p] \in {"verify", "ok"} => queue[p] = <<>>
    /\ pc[p] \in {"external", "claim"} => fut[p][Cur(p)] = "none"

\* A lock may be given up on, or a corrupt object left where it is.
Bypassed == May("lockTimeouts") \/ May("unlinkFails")

\* A key that left the deque has no corrupt object, and never will again.
Sound(p) ==
    ~Bypassed =>
        /\ pc[p] # "solo"
        /\ pc[p] \in {"compile", "unlock"} => obj[Cur(p)] # "corrupt"
        /\ \A k \in Key : k \notin ToSet(queue[p]) => obj[k] # "corrupt"
        /\ pc[p] = "ok" => \A k \in Key : obj[k] = "sound"

\* What is credited to the window was compiled in it, by the process or for it.
Mine(p) ==
    /\ ledger[p] \subseteq made[p]
    /\ (credited[p] \cup carried[p]) \ early[p] \subseteq made[p]
    /\ authored[p] \subseteq made[p]

\* Without faults a key that left the deque is sound; whatever was made is in
\* the ledger or on its way home in a future; and what is made after the count
\* was running when the count was taken.
Counted(p) ==
    Faultless =>
        /\ pc[p] = "unlock" => obj[Cur(p)] = "sound"
        /\ \A k \in Key :
              /\ k \notin ToSet(queue[p]) => obj[k] = "sound"
              /\ fut[p][k] = "compiling" => obj[k] # "corrupt"
              /\ fut[p][k] \in {"published", "returning"} => obj[k] = "sound"
              /\ k \in made[p] =>
                    \/ k \in ledger[p]
                    \/ /\ k \in carried[p] /\ k \notin early[p]
                       /\ fut[p][k] \in {"published", "returning", "done"}
              /\ pc[p] \in {"verify", "ok"} =>
                    /\ k \in made[p] => k \in authored[p] \cup late[p]
                    /\ fut[p][k] \in {"repairing", "compiling"} => k \in late[p]

Own(p) == Place(p) /\ Sound(p) /\ Mine(p) /\ Counted(p)
IInv == Shape /\ \A p \in Proc : Own(p)

(***************************************************************************)
(* The deque.                                                              *)
(***************************************************************************)
LEMMA Rotation ==
    ASSUME NEW q \in Seq(Key), q # <<>>
    PROVE  /\ Head(q) \in Key
           /\ Tail(q) \in Seq(Key) /\ Append(Tail(q), Head(q)) \in Seq(Key)
           /\ \A k \in Key : k \notin ToSet(Tail(q)) => k \notin ToSet(q) \/ k = Head(q)
           /\ ToSet(q) \subseteq ToSet(Append(Tail(q), Head(q)))
<1>1. Len(q) \in Nat \ {0} /\ Head(q) = q[1] /\ Head(q) \in Key /\ Tail(q) \in Seq(Key)
  BY EmptySeq, HeadTailProperties
<1>2. Len(Tail(q)) = Len(q) - 1 /\ \A i \in 1..Len(q) - 1 : Tail(q)[i] = q[i + 1]
  BY <1>1
<1>3. /\ Append(Tail(q), Head(q)) \in Seq(Key)
      /\ Len(Append(Tail(q), Head(q))) = Len(q)
      /\ \A i \in 1..Len(q) - 1 : Append(Tail(q), Head(q))[i] = q[i + 1]
      /\ Append(Tail(q), Head(q))[Len(q)] = q[1]
  BY <1>1, <1>2, AppendProperties
<1>4. \A s \in Seq(Key) : \A k : k \in ToSet(s) <=> \E i \in 1..Len(s) : s[i] = k
  BY DEF ToSet
<1>5. ASSUME NEW k, k \in ToSet(q), k # q[1] PROVE \E i \in 1..Len(q) - 1 : q[i + 1] = k
  <2>1. PICK j \in 1..Len(q) : q[j] = k  BY <1>4, <1>5
  <2>2. j # 1 /\ j - 1 \in 1..Len(q) - 1 /\ (j - 1) + 1 = j  BY <1>1, <1>5, <2>1
  <2> QED  BY <2>1, <2>2
<1>6. ASSUME NEW k \in Key, k \in ToSet(q), k # Head(q) PROVE k \in ToSet(Tail(q))
  BY <1>1, <1>2, <1>4, <1>5, <1>6
<1>7. ASSUME NEW k \in ToSet(q) PROVE k \in ToSet(Append(Tail(q), Head(q)))
  <2>1. CASE k = q[1]
    <3>1. Len(q) \in 1..Len(q)  BY <1>1
    <3> QED  BY <1>3, <1>4, <2>1, <3>1
  <2>2. CASE k # q[1]
    <3>1. PICK i \in 1..Len(q) - 1 : q[i + 1] = k  BY <1>5, <2>2
    <3>2. i \in 1..Len(q)  BY <1>1, <3>1
    <3> QED  BY <1>3, <1>4, <3>1, <3>2
  <2> QED  BY <2>1, <2>2
<1> QED  BY <1>1, <1>3, <1>6, <1>7

\* A deque of all wanted keys holds every wanted key.
LEMMA AllWanted ==
    ASSUME NEW S, IsFiniteSet(S), NEW q \in SetToSeqs(S)
    PROVE  q \in Seq(S) /\ ToSet(q) = S
<1> DEFINE D == 1..Cardinality(S)
<1>1. Cardinality(S) \in Nat  BY FS_CardinalityType
<1>2. q \in [D -> S] /\ \A i, j \in D : i # j => q[i] # q[j]  BY DEF SetToSeqs
<1>3. q \in Injection(D, S)  BY <1>2 DEF Injection, IsInjective
<1>4. IsFiniteSet(D) /\ Cardinality(D) = Cardinality(S)  BY <1>1, FS_Interval
<1>5. q \in Surjection(D, S)  BY <1>3, <1>4, FS_Injection
<1>6. \A x \in S : \E i \in D : q[i] = x  BY <1>5 DEF Surjection
<1> QED  BY <1>1, <1>2, <1>6 DEF ToSet

(***************************************************************************)
(* A step is one process's, or its pool's: the others keep what they have. *)
(* Objects only get better: a sound one stays, a corrupt one is cleared    *)
(* before the path is filled.                                              *)
(***************************************************************************)
Better ==
    \A k \in Key : \/ obj'[k] = obj[k]
                   \/ obj[k] # "sound" /\ obj'[k] # "corrupt"
Others(p) ==
    /\ case' = case /\ early' = early
    /\ Better
    /\ \A q \in Proc \ {p} :
          /\ queue'[q] = queue[q] /\ pc'[q] = pc[q] /\ fut'[q] = fut[q]
          /\ ledger'[q] = ledger[q] /\ carried'[q] = carried[q] /\ credited'[q] = credited[q]
          /\ authored'[q] = authored[q] /\ made'[q] = made[q] /\ late'[q] = late[q]

\* So the others' parts of the invariant stand.
LEMMA OwnIsEnough ==
    ASSUME IInv, NEW p \in Proc, Others(p), Shape', Own(p)'
    PROVE  IInv'
<1> SUFFICES ASSUME NEW q \in Proc, q # p PROVE Own(q)'  BY DEF IInv
<1>1. /\ case' = case /\ queue'[q] = queue[q] /\ pc'[q] = pc[q] /\ fut'[q] = fut[q]
      /\ early'[q] = early[q] /\ ledger'[q] = ledger[q] /\ carried'[q] = carried[q]
      /\ credited'[q] = credited[q] /\ authored'[q] = authored[q] /\ made'[q] = made[q]
      /\ late'[q] = late[q]
  BY DEF Others
<1>2. Own(q) /\ queue[q] \in Seq(Key)  BY DEF IInv, Shape
<1>3. \A k \in Key : /\ obj[k] = "sound" => obj'[k] = "sound"
                     /\ obj[k] # "corrupt" => obj'[k] # "corrupt"
  BY DEF Others, Better
<1>4. Place(q)'  BY <1>1, <1>2 DEF Own, Place, Cur
<1>5. Sound(q)'
  <2>1. pc[q] \in {"compile", "unlock"} => Cur(q) \in Key
    BY <1>2, Rotation DEF Own, Place, Cur, Ended
  <2> QED  BY <1>1, <1>2, <1>3, <2>1 DEF Own, Sound, Bypassed, Cur, May
<1>6. Mine(q)'  BY <1>1, <1>2 DEF Own, Mine
<1>7. Counted(q)'
  <2>1. pc[q] = "unlock" => Cur(q) \in Key
    BY <1>2, Rotation DEF Own, Place, Cur, Ended
  <2> QED  BY <1>1, <1>2, <1>3, <2>1 DEF Own, Counted, Cur, Faultless
<1> QED  BY <1>4, <1>5, <1>6, <1>7 DEF Own

\* The main loop keeps the shape of the state.
LEMMA MainShape == ASSUME Shape, \A p \in Proc : Place(p), NEW p \in Proc, MainStep(p) PROVE Shape'
<1>1. queue[p] # <<>> => /\ Cur(p) \in Key /\ Tail(queue[p]) \in Seq(Key)
                         /\ Append(Tail(queue[p]), Head(queue[p])) \in Seq(Key)
  BY Rotation DEF Shape, Cur
<1>2. pc[p] \notin {"loop", "verify"} \cup Ended => queue[p] # <<>>  BY DEF Place
<1>3. case' = case  BY DEF MainStep
<1>4. CASE FastPath(p)
  <2>1. pc' \in [Proc -> MainLabels]
    <3>1. pc \in [Proc -> MainLabels]  BY DEF Shape
    <3>2. \E l \in MainLabels : pc' = [pc EXCEPT ![p] = l]
      BY <1>4 DEF FastPath, Goto, MainLabels, Ended, SharedLoad, Return
    <3> QED  BY <3>1, <3>2
  <2>2. queue' \in [Proc -> Seq(Key)]
    <3>1. queue \in [Proc -> Seq(Key)]  BY DEF Shape
    <3>2. \/ queue' = queue \/ queue' = [queue EXCEPT ![p] = Tail(@)]
          \/ queue' = [queue EXCEPT ![p] = Append(Tail(@), Head(@))]
      BY <1>4 DEF FastPath, SharedLoad, Return
    <3>3. queue[p] # <<>>  BY <1>4, <1>2 DEF FastPath, Ended
    <3> QED  BY <1>1, <3>1, <3>2, <3>3
  <2> QED  BY <1>4, <1>3, <2>1, <2>2 DEF Shape, FastPath, disk, pool, result
<1>5. CASE Poll(p)
  <2>1. pc' \in [Proc -> MainLabels]
    <3>1. pc \in [Proc -> MainLabels]  BY DEF Shape
    <3>2. \E l \in MainLabels : pc' = [pc EXCEPT ![p] = l]
      BY <1>5 DEF Poll, Goto, MainLabels, Ended, Defer, Credit
    <3> QED  BY <3>1, <3>2
  <2>2. queue' \in [Proc -> Seq(Key)]
    <3>1. queue \in [Proc -> Seq(Key)]  BY DEF Shape
    <3>2. \/ queue' = queue \/ queue' = [queue EXCEPT ![p] = Tail(@)]
          \/ queue' = [queue EXCEPT ![p] = Append(Tail(@), Head(@))]
      BY <1>5 DEF Poll, Defer, Credit
    <3>3. queue[p] # <<>>  BY <1>5, <1>2 DEF Poll, Ended
    <3> QED  BY <1>1, <3>1, <3>2, <3>3
  <2>3. ext' \in [Proc -> SUBSET Key]
    <3>1. ext \in [Proc -> SUBSET Key] /\ ext[p] \in SUBSET Key  BY DEF Shape
    <3>2. ext' = ext \/ \E s \in SUBSET Key : ext' = [ext EXCEPT ![p] = s]
      BY <1>5, <1>1, <1>2, <3>1 DEF Poll, Ended, Defer, Credit
    <3> QED  BY <3>1, <3>2
  <2>4. credited' \in [Proc -> SUBSET Key]
    <3>1. credited \in [Proc -> SUBSET Key] /\ credited[p] \in SUBSET Key  BY DEF Shape
    <3>2. credited' = credited \/ \E s \in SUBSET Key : credited' = [credited EXCEPT ![p] = s]
      BY <1>5, <1>1, <1>2, <3>1 DEF Poll, Ended, Defer, Credit
    <3> QED  BY <3>1, <3>2
  <2> QED  BY <1>5, <1>3, <2>1, <2>2, <2>3, <2>4 DEF Shape, Poll, disk, pool, result
<1>6. CASE PollExternal(p)
  <2>1. pc' \in [Proc -> MainLabels]
    <3>1. pc \in [Proc -> MainLabels]  BY DEF Shape
    <3>2. \E l \in MainLabels : pc' = [pc EXCEPT ![p] = l]
      BY <1>6 DEF PollExternal, Goto, MainLabels, Ended, Defer
    <3> QED  BY <3>1, <3>2
  <2>2. queue' \in [Proc -> Seq(Key)]
    <3>1. queue \in [Proc -> Seq(Key)]  BY DEF Shape
    <3>2. \/ queue' = queue \/ queue' = [queue EXCEPT ![p] = Tail(@)]
          \/ queue' = [queue EXCEPT ![p] = Append(Tail(@), Head(@))]
      BY <1>6 DEF PollExternal, Defer
    <3>3. queue[p] # <<>>  BY <1>6, <1>2 DEF PollExternal, Ended
    <3> QED  BY <1>1, <3>1, <3>2, <3>3
  <2>3. ext' \in [Proc -> SUBSET Key]
    <3>1. ext \in [Proc -> SUBSET Key] /\ ext[p] \in SUBSET Key  BY DEF Shape
    <3>2. ext' = ext \/ \E s \in SUBSET Key : ext' = [ext EXCEPT ![p] = s]
      BY <1>6, <1>1, <1>2, <3>1 DEF PollExternal, Ended, Defer
    <3> QED  BY <3>1, <3>2
  <2> QED  BY <1>6, <1>3, <2>1, <2>2, <2>3 DEF Shape, PollExternal, disk, pool, result
<1>7. CASE Claim(p)
  <2>1. pc' \in [Proc -> MainLabels]
    <3>1. pc \in [Proc -> MainLabels]  BY DEF Shape
    <3>2. \E l \in MainLabels : pc' = [pc EXCEPT ![p] = l]
      BY <1>7 DEF Claim, Goto, MainLabels, Ended, Defer, Raise
    <3> QED  BY <3>1, <3>2
  <2>2. queue' \in [Proc -> Seq(Key)]
    <3>1. queue \in [Proc -> Seq(Key)]  BY DEF Shape
    <3>2. \/ queue' = queue \/ queue' = [queue EXCEPT ![p] = Tail(@)]
          \/ queue' = [queue EXCEPT ![p] = Append(Tail(@), Head(@))]
      BY <1>7 DEF Claim, Defer, Raise
    <3>3. queue[p] # <<>>  BY <1>7, <1>2 DEF Claim, Ended
    <3> QED  BY <1>1, <3>1, <3>2, <3>3
  <2>3. ext' \in [Proc -> SUBSET Key]
    <3>1. ext \in [Proc -> SUBSET Key] /\ ext[p] \in SUBSET Key  BY DEF Shape
    <3>2. ext' = ext \/ \E s \in SUBSET Key : ext' = [ext EXCEPT ![p] = s]
      BY <1>7, <1>1, <1>2, <3>1 DEF Claim, Ended, Defer, Raise
    <3> QED  BY <3>1, <3>2
  <2>4. fut' \in [Proc -> [Key -> Stages]]
    <3>1. fut \in [Proc -> [Key -> Stages]]  BY DEF Shape
    <3>2. fut' = fut \/ fut' = [fut EXCEPT ![p][Cur(p)] = "queued"]  BY <1>7 DEF Claim
    <3> QED  BY <3>1, <3>2 DEF Stages
  <2> QED  BY <1>7, <1>3, <2>1, <2>2, <2>3, <2>4 DEF Shape, Claim, disk, pool, result
<1>8. CASE Reload(p)
  <2>1. pc' \in [Proc -> MainLabels]
    <3>1. pc \in [Proc -> MainLabels]  BY DEF Shape
    <3>2. \E l \in MainLabels : pc' = [pc EXCEPT ![p] = l]
      BY <1>8 DEF Reload, Goto, MainLabels, Ended, SharedLoad, Return
    <3> QED  BY <3>1, <3>2
  <2>2. queue' \in [Proc -> Seq(Key)]
    <3>1. queue \in [Proc -> Seq(Key)]  BY DEF Shape
    <3>2. \/ queue' = queue \/ queue' = [queue EXCEPT ![p] = Tail(@)]
          \/ queue' = [queue EXCEPT ![p] = Append(Tail(@), Head(@))]
      BY <1>8 DEF Reload, SharedLoad, Return
    <3>3. queue[p] # <<>>  BY <1>8, <1>2 DEF Reload, Ended
    <3> QED  BY <1>1, <3>1, <3>2, <3>3
  <2> QED  BY <1>8, <1>3, <2>1, <2>2 DEF Shape, Reload, disk, pool, result
<1>9. CASE LockAndCheck(p)
  <2>1. pc' \in [Proc -> MainLabels]
    <3>1. pc \in [Proc -> MainLabels]  BY DEF Shape
    <3>2. \E l \in MainLabels : pc' = [pc EXCEPT ![p] = l]
      BY <1>9 DEF LockAndCheck, Goto, MainLabels, Ended, Return
    <3> QED  BY <3>1, <3>2
  <2>2. queue' \in [Proc -> Seq(Key)]
    <3>1. queue \in [Proc -> Seq(Key)]  BY DEF Shape
    <3>2. \/ queue' = queue \/ queue' = [queue EXCEPT ![p] = Tail(@)]
          \/ queue' = [queue EXCEPT ![p] = Append(Tail(@), Head(@))]
      BY <1>9 DEF LockAndCheck, Return
    <3>3. queue[p] # <<>>  BY <1>9, <1>2 DEF LockAndCheck, Ended
    <3> QED  BY <1>1, <3>1, <3>2, <3>3
  <2> QED  BY <1>9, <1>3, <2>1, <2>2 DEF Shape, LockAndCheck, disk, pool, result
<1>10. CASE LockTimeout(p)
  <2>1. pc' \in [Proc -> MainLabels]
    <3>1. pc \in [Proc -> MainLabels]  BY DEF Shape
    <3>2. \E l \in MainLabels : pc' = [pc EXCEPT ![p] = l]
      BY <1>10 DEF LockTimeout, Goto, MainLabels, Ended
    <3> QED  BY <3>1, <3>2
  <2> QED  BY <1>10, <1>3, <2>1 DEF Shape, LockTimeout, disk, pool, result
<1>11. CASE Quarantine(p)
  <2>1. pc' \in [Proc -> MainLabels]
    <3>1. pc \in [Proc -> MainLabels]  BY DEF Shape
    <3>2. \E l \in MainLabels : pc' = [pc EXCEPT ![p] = l]
      BY <1>11 DEF Quarantine, Goto, MainLabels, Ended
    <3> QED  BY <3>1, <3>2
  <2>2. obj' \in [Key -> {"absent", "corrupt", "sound"}]
    BY <1>11, <1>1, <1>2 DEF Shape, Quarantine, Clear, Ended
  <2> QED  BY <1>11, <1>3, <2>1, <2>2 DEF Shape, Quarantine, disk, pool, result
<1>12. CASE CompileLocked(p)
  <2>1. pc' \in [Proc -> MainLabels]
    <3>1. pc \in [Proc -> MainLabels]  BY DEF Shape
    <3>2. \E l \in MainLabels : pc' = [pc EXCEPT ![p] = l]
      BY <1>12 DEF CompileLocked, Goto, MainLabels, Ended, Author, MayExport, Link
    <3> QED  BY <3>1, <3>2
  <2>2. obj' \in [Key -> {"absent", "corrupt", "sound"}]
    BY <1>12, <1>1, <1>2 DEF Shape, CompileLocked, Ended, Author, MayExport, Link
  <2>3. ledger' \in [Proc -> SUBSET Key]
    BY <1>12, <1>1, <1>2 DEF Shape, CompileLocked, Ended, Author, MayExport, Link
  <2>4. made' \in [Proc -> SUBSET Key]
    BY <1>12, <1>1, <1>2 DEF Shape, CompileLocked, Ended, Author, MayExport, Link
  <2> QED  BY <1>12, <1>3, <2>1, <2>2, <2>3, <2>4 DEF Shape, CompileLocked, disk, pool, result
<1>13. CASE CompileRaises(p)
  <2>1. pc' \in [Proc -> MainLabels]
    <3>1. pc \in [Proc -> MainLabels]  BY DEF Shape
    <3>2. \E l \in MainLabels : pc' = [pc EXCEPT ![p] = l]
      BY <1>13 DEF CompileRaises, Goto, MainLabels, Ended, Raise
    <3> QED  BY <3>1, <3>2
  <2> QED  BY <1>13, <1>3, <2>1 DEF Shape, CompileRaises, disk, pool, result
<1>14. CASE Unlock(p)
  <2>1. pc' \in [Proc -> MainLabels]
    <3>1. pc \in [Proc -> MainLabels]  BY DEF Shape
    <3>2. \E l \in MainLabels : pc' = [pc EXCEPT ![p] = l]
      BY <1>14 DEF Unlock, Goto, MainLabels, Ended, Return
    <3> QED  BY <3>1, <3>2
  <2>2. queue' \in [Proc -> Seq(Key)]
    <3>1. queue \in [Proc -> Seq(Key)]  BY DEF Shape
    <3>2. \/ queue' = queue \/ queue' = [queue EXCEPT ![p] = Tail(@)]
          \/ queue' = [queue EXCEPT ![p] = Append(Tail(@), Head(@))]
      BY <1>14 DEF Unlock, Return
    <3>3. queue[p] # <<>>  BY <1>14, <1>2 DEF Unlock, Ended
    <3> QED  BY <1>1, <3>1, <3>2, <3>3
  <2> QED  BY <1>14, <1>3, <2>1, <2>2 DEF Shape, Unlock, disk, pool, result
<1>15. CASE CompileSolo(p)
  <2>1. pc' \in [Proc -> MainLabels]
    <3>1. pc \in [Proc -> MainLabels]  BY DEF Shape
    <3>2. \E l \in MainLabels : pc' = [pc EXCEPT ![p] = l]
      BY <1>15 DEF CompileSolo, Goto, MainLabels, Ended, Author, MayExport, Link, Return
    <3> QED  BY <3>1, <3>2
  <2>2. queue' \in [Proc -> Seq(Key)]
    <3>1. queue \in [Proc -> Seq(Key)]  BY DEF Shape
    <3>2. \/ queue' = queue \/ queue' = [queue EXCEPT ![p] = Tail(@)]
          \/ queue' = [queue EXCEPT ![p] = Append(Tail(@), Head(@))]
      BY <1>15 DEF CompileSolo, Author, MayExport, Link, Return
    <3>3. queue[p] # <<>>  BY <1>15, <1>2 DEF CompileSolo, Ended
    <3> QED  BY <1>1, <3>1, <3>2, <3>3
  <2>3. obj' \in [Key -> {"absent", "corrupt", "sound"}]
    BY <1>15, <1>1, <1>2 DEF Shape, CompileSolo, Ended, Author, MayExport, Link, Return
  <2>4. ledger' \in [Proc -> SUBSET Key]
    BY <1>15, <1>1, <1>2 DEF Shape, CompileSolo, Ended, Author, MayExport, Link, Return
  <2>5. made' \in [Proc -> SUBSET Key]
    BY <1>15, <1>1, <1>2 DEF Shape, CompileSolo, Ended, Author, MayExport, Link, Return
  <2> QED
    BY <1>15, <1>3, <2>1, <2>2, <2>3, <2>4, <2>5 DEF Shape, CompileSolo, disk, pool,
       result
<1>16. CASE Attribute(p)
  <2>1. pc' \in [Proc -> MainLabels]
    <3>1. pc \in [Proc -> MainLabels]  BY DEF Shape
    <3>2. \E l \in MainLabels : pc' = [pc EXCEPT ![p] = l]
      BY <1>16 DEF Attribute, Goto, MainLabels, Ended
    <3> QED  BY <3>1, <3>2
  <2>2. fut' \in [Proc -> [Key -> Stages]]
    BY <1>16, <1>1, <1>2 DEF Shape, Attribute, Stages, Running, Ended
  <2>3. credited' \in [Proc -> SUBSET Key]
    BY <1>16, <1>1, <1>2 DEF Shape, Attribute, Ended
  <2>4. authored' \in [Proc -> SUBSET Key]
    BY <1>16, <1>1, <1>2 DEF Shape, Attribute, Ended
  <2>5. late' \in [Proc -> SUBSET Key]
    BY <1>16, <1>1, <1>2 DEF Shape, Attribute, Ended
  <2> QED
    BY <1>16, <1>3, <2>1, <2>2, <2>3, <2>4, <2>5 DEF Shape, Attribute, disk, pool,
       result
<1>17. CASE Verify(p)
  <2>1. pc' \in [Proc -> MainLabels]
    <3>1. pc \in [Proc -> MainLabels]  BY DEF Shape
    <3>2. \E l \in MainLabels : pc' = [pc EXCEPT ![p] = l]
      BY <1>17 DEF Verify, Goto, MainLabels, Ended, Raise
    <3> QED  BY <3>1, <3>2
  <2> QED  BY <1>17, <1>3, <2>1 DEF Shape, Verify, disk, pool, result
<1> QED
  BY <1>4, <1>5, <1>6, <1>7, <1>8, <1>9, <1>10, <1>11, <1>12, <1>13, <1>14, <1>15,
     <1>16, <1>17 DEF MainStep

\* So do the workers.
LEMMA WorkerShape ==
    ASSUME Shape, NEW p \in Proc, NEW k \in Key, WorkerStep(p, k) PROVE Shape'
<1>1. case' = case  BY DEF WorkerStep
<1>2. CASE WorkerTake(p, k)
  <2>1. fut' \in [Proc -> [Key -> Stages]]
    <3>1. fut \in [Proc -> [Key -> Stages]]  BY DEF Shape
    <3>2. \E s \in Stages : fut' = [fut EXCEPT ![p][k] = s]
      BY <1>2 DEF WorkerTake, Stage, Stages, Running
    <3> QED  BY <3>1, <3>2
  <2> QED  BY <1>2, <1>1, <2>1 DEF Shape, WorkerTake, disk, pool, result
<1>3. CASE WorkerLock(p, k)
  <2>1. fut' \in [Proc -> [Key -> Stages]]
    <3>1. fut \in [Proc -> [Key -> Stages]]  BY DEF Shape
    <3>2. \E s \in Stages : fut' = [fut EXCEPT ![p][k] = s]
      BY <1>3 DEF WorkerLock, Stage, Stages, Running
    <3> QED  BY <3>1, <3>2
  <2> QED  BY <1>3, <1>1, <2>1 DEF Shape, WorkerLock, disk, pool, result
<1>4. CASE WorkerTimeout(p, k)
  <2>1. fut' \in [Proc -> [Key -> Stages]]
    <3>1. fut \in [Proc -> [Key -> Stages]]  BY DEF Shape
    <3>2. \E s \in Stages : fut' = [fut EXCEPT ![p][k] = s]
      BY <1>4 DEF WorkerTimeout, Stage, Stages, Running
    <3> QED  BY <3>1, <3>2
  <2>2. carried' \in [Proc -> SUBSET Key]
    <3>1. carried \in [Proc -> SUBSET Key] /\ carried[p] \in SUBSET Key  BY DEF Shape
    <3>2. carried' = carried \/ \E s \in SUBSET Key : carried' = [carried EXCEPT ![p] = s]
      BY <1>4, <3>1 DEF WorkerTimeout, WorkerMade, MayExport, Link
    <3> QED  BY <3>1, <3>2
  <2>3. made' \in [Proc -> SUBSET Key]
    <3>1. made \in [Proc -> SUBSET Key] /\ made[p] \in SUBSET Key  BY DEF Shape
    <3>2. made' = made \/ \E s \in SUBSET Key : made' = [made EXCEPT ![p] = s]
      BY <1>4, <3>1 DEF WorkerTimeout, WorkerMade, MayExport, Link
    <3> QED  BY <3>1, <3>2
  <2>4. obj' \in [Key -> {"absent", "corrupt", "sound"}]
    BY <1>4 DEF Shape, WorkerTimeout, WorkerMade, MayExport, Link
  <2> QED  BY <1>4, <1>1, <2>1, <2>2, <2>3, <2>4 DEF Shape, WorkerTimeout, disk, pool, result
<1>5. CASE WorkerQuarantine(p, k)
  <2>1. fut' \in [Proc -> [Key -> Stages]]
    <3>1. fut \in [Proc -> [Key -> Stages]]  BY DEF Shape
    <3>2. \E s \in Stages : fut' = [fut EXCEPT ![p][k] = s]
      BY <1>5 DEF WorkerQuarantine, Stage, Stages, Running
    <3> QED  BY <3>1, <3>2
  <2>2. obj' \in [Key -> {"absent", "corrupt", "sound"}]
    BY <1>5 DEF Shape, WorkerQuarantine, Clear
  <2> QED  BY <1>5, <1>1, <2>1, <2>2 DEF Shape, WorkerQuarantine, disk, pool, result
<1>6. CASE WorkerCompile(p, k)
  <2>1. fut' \in [Proc -> [Key -> Stages]]
    <3>1. fut \in [Proc -> [Key -> Stages]]  BY DEF Shape
    <3>2. \E s \in Stages : fut' = [fut EXCEPT ![p][k] = s]
      BY <1>6 DEF WorkerCompile, Stage, Stages, Running
    <3> QED  BY <3>1, <3>2
  <2>2. carried' \in [Proc -> SUBSET Key]
    <3>1. carried \in [Proc -> SUBSET Key] /\ carried[p] \in SUBSET Key  BY DEF Shape
    <3>2. carried' = carried \/ \E s \in SUBSET Key : carried' = [carried EXCEPT ![p] = s]
      BY <1>6, <3>1 DEF WorkerCompile, WorkerMade, MayExport, Link
    <3> QED  BY <3>1, <3>2
  <2>3. made' \in [Proc -> SUBSET Key]
    <3>1. made \in [Proc -> SUBSET Key] /\ made[p] \in SUBSET Key  BY DEF Shape
    <3>2. made' = made \/ \E s \in SUBSET Key : made' = [made EXCEPT ![p] = s]
      BY <1>6, <3>1 DEF WorkerCompile, WorkerMade, MayExport, Link
    <3> QED  BY <3>1, <3>2
  <2>4. obj' \in [Key -> {"absent", "corrupt", "sound"}]
    BY <1>6 DEF Shape, WorkerCompile, WorkerMade, MayExport, Link
  <2> QED  BY <1>6, <1>1, <2>1, <2>2, <2>3, <2>4 DEF Shape, WorkerCompile, disk, pool, result
<1>7. CASE WorkerRaises(p, k)
  <2>1. fut' \in [Proc -> [Key -> Stages]]
    <3>1. fut \in [Proc -> [Key -> Stages]]  BY DEF Shape
    <3>2. \E s \in Stages : fut' = [fut EXCEPT ![p][k] = s]
      BY <1>7 DEF WorkerRaises, Stage, Stages, Running
    <3> QED  BY <3>1, <3>2
  <2> QED  BY <1>7, <1>1, <2>1 DEF Shape, WorkerRaises, disk, pool, result
<1>8. CASE WorkerUnlock(p, k)
  <2>1. fut' \in [Proc -> [Key -> Stages]]
    <3>1. fut \in [Proc -> [Key -> Stages]]  BY DEF Shape
    <3>2. \E s \in Stages : fut' = [fut EXCEPT ![p][k] = s]
      BY <1>8 DEF WorkerUnlock, Stage, Stages, Running
    <3> QED  BY <3>1, <3>2
  <2> QED  BY <1>8, <1>1, <2>1 DEF Shape, WorkerUnlock, disk, pool, result
<1>9. CASE WorkerReturn(p, k)
  <2>1. fut' \in [Proc -> [Key -> Stages]]
    <3>1. fut \in [Proc -> [Key -> Stages]]  BY DEF Shape
    <3>2. \E s \in Stages : fut' = [fut EXCEPT ![p][k] = s]
      BY <1>9 DEF WorkerReturn, Stage, Stages, Running
    <3> QED  BY <3>1, <3>2
  <2>2. carried' \in [Proc -> SUBSET Key]
    <3>1. carried \in [Proc -> SUBSET Key] /\ carried[p] \in SUBSET Key  BY DEF Shape
    <3>2. carried' = carried \/ \E s \in SUBSET Key : carried' = [carried EXCEPT ![p] = s]
      BY <1>9, <3>1 DEF WorkerReturn
    <3> QED  BY <3>1, <3>2
  <2> QED  BY <1>9, <1>1, <2>1, <2>2 DEF Shape, WorkerReturn, disk, pool, result
<1> QED  BY <1>2, <1>3, <1>4, <1>5, <1>6, <1>7, <1>8, <1>9 DEF WorkerStep

LEMMA DeathShape == ASSUME Shape, NEW p \in Proc, WorkerDies(p) PROVE Shape'
<1>1. fut' \in [Proc -> [Key -> Stages]]
  BY DEF Shape, WorkerDies, Stages, Running
<1>2. carried' \in [Proc -> SUBSET Key]  BY DEF Shape, WorkerDies
<1> QED  BY <1>1, <1>2 DEF Shape, WorkerDies, result

LEMMA StallShape == ASSUME Shape, NEW p \in Proc, StallGuard(p) PROVE Shape'
<1>1. pc' \in [Proc -> MainLabels]  BY DEF Shape, StallGuard, Raise, Goto, MainLabels, Ended
<1> QED  BY <1>1 DEF Shape, StallGuard, disk, pool

-----------------------------------------------------------------------------
\* Every step is somebody's own.
LEMMA MainLocal ==
    ASSUME Shape, \A p \in Proc : Place(p), NEW p \in Proc, MainStep(p) PROVE Others(p)
<1>1. case' = case  BY DEF MainStep
<1>2. CASE FastPath(p)
  <2>1. Better  BY <1>2 DEF Better, Shape, FastPath, disk, SharedLoad, Return
  <2> QED
    BY <1>2, <1>1, <2>1 DEF Others, Shape, FastPath, Goto, disk, pool, result,
       SharedLoad, Return
<1>3. CASE Poll(p)
  <2>1. Better  BY <1>3 DEF Better, Shape, Poll, disk, Defer, Credit
  <2> QED
    BY <1>3, <1>1, <2>1 DEF Others, Shape, Poll, Goto, disk, pool, result, Defer,
       Credit
<1>4. CASE PollExternal(p)
  <2>1. Better  BY <1>4 DEF Better, Shape, PollExternal, disk, Defer
  <2> QED
    BY <1>4, <1>1, <2>1 DEF Others, Shape, PollExternal, Goto, disk, pool, result,
       Defer
<1>5. CASE Claim(p)
  <2>1. Better  BY <1>5 DEF Better, Shape, Claim, disk, Defer, Raise
  <2> QED
    BY <1>5, <1>1, <2>1 DEF Others, Shape, Claim, Goto, disk, pool, result, Defer,
       Raise
<1>6. CASE Reload(p)
  <2>1. Better  BY <1>6 DEF Better, Shape, Reload, disk, SharedLoad, Return
  <2> QED
    BY <1>6, <1>1, <2>1 DEF Others, Shape, Reload, Goto, disk, pool, result,
       SharedLoad, Return
<1>7. CASE LockAndCheck(p)
  <2>1. Better  BY <1>7 DEF Better, Shape, LockAndCheck, disk, Return
  <2> QED
    BY <1>7, <1>1, <2>1 DEF Others, Shape, LockAndCheck, Goto, disk, pool, result,
       Return
<1>8. CASE LockTimeout(p)
  <2>1. Better  BY <1>8 DEF Better, Shape, LockTimeout, disk
  <2> QED  BY <1>8, <1>1, <2>1 DEF Others, Shape, LockTimeout, Goto, disk, pool, result
<1>9. CASE Quarantine(p)
  <2>1. Better  BY <1>9 DEF Better, Shape, Quarantine, Clear, disk, Cur
  <2> QED  BY <1>9, <1>1, <2>1 DEF Others, Shape, Quarantine, Goto, disk, pool, result
<1>10. CASE CompileLocked(p)
  <2>1. Better  BY <1>10 DEF Better, Shape, CompileLocked, disk, Cur, Author, MayExport, Link
  <2> QED
    BY <1>10, <1>1, <2>1 DEF Others, Shape, CompileLocked, Goto, disk, pool, result,
       Author, MayExport, Link
<1>11. CASE CompileRaises(p)
  <2>1. Better  BY <1>11 DEF Better, Shape, CompileRaises, disk, Raise
  <2> QED
    BY <1>11, <1>1, <2>1 DEF Others, Shape, CompileRaises, Goto, disk, pool, result,
       Raise
<1>12. CASE Unlock(p)
  <2>1. Better  BY <1>12 DEF Better, Shape, Unlock, disk, Return
  <2> QED  BY <1>12, <1>1, <2>1 DEF Others, Shape, Unlock, Goto, disk, pool, result, Return
<1>13. CASE CompileSolo(p)
  <2>1. Better
    BY <1>13 DEF Better, Shape, CompileSolo, disk, Cur, Author, MayExport, Link,
       Return
  <2> QED
    BY <1>13, <1>1, <2>1 DEF Others, Shape, CompileSolo, Goto, disk, pool, result,
       Author, MayExport, Link, Return
<1>14. CASE Attribute(p)
  <2>1. Better  BY <1>14 DEF Better, Shape, Attribute, disk
  <2> QED  BY <1>14, <1>1, <2>1 DEF Others, Shape, Attribute, Goto, disk, pool, result
<1>15. CASE Verify(p)
  <2>1. Better  BY <1>15 DEF Better, Shape, Verify, disk, Raise
  <2> QED  BY <1>15, <1>1, <2>1 DEF Others, Shape, Verify, Goto, disk, pool, result, Raise
<1> QED
  BY <1>2, <1>3, <1>4, <1>5, <1>6, <1>7, <1>8, <1>9, <1>10, <1>11, <1>12, <1>13,
     <1>14, <1>15 DEF MainStep

LEMMA WorkerLocal ==
    ASSUME Shape, NEW p \in Proc, NEW k \in Key, WorkerStep(p, k) PROVE Others(p)
<1>1. case' = case  BY DEF WorkerStep
<1>2. CASE WorkerTake(p, k)
  <2>1. Better  BY <1>2 DEF Better, Shape, WorkerTake, disk
  <2> QED  BY <1>2, <1>1, <2>1 DEF Others, Shape, WorkerTake, Stage, disk, result
<1>3. CASE WorkerLock(p, k)
  <2>1. Better  BY <1>3 DEF Better, Shape, WorkerLock, disk
  <2> QED  BY <1>3, <1>1, <2>1 DEF Others, Shape, WorkerLock, Stage, disk, result
<1>4. CASE WorkerTimeout(p, k)
  <2>1. Better  BY <1>4 DEF Better, Shape, WorkerTimeout, disk, WorkerMade, MayExport, Link
  <2> QED
    BY <1>4, <1>1, <2>1 DEF Others, Shape, WorkerTimeout, Stage, disk, result,
       WorkerMade, MayExport, Link
<1>5. CASE WorkerQuarantine(p, k)
  <2>1. Better  BY <1>5 DEF Better, Shape, WorkerQuarantine, Clear, disk
  <2> QED  BY <1>5, <1>1, <2>1 DEF Others, Shape, WorkerQuarantine, Stage, disk, result
<1>6. CASE WorkerCompile(p, k)
  <2>1. Better  BY <1>6 DEF Better, Shape, WorkerCompile, disk, WorkerMade, MayExport, Link
  <2> QED
    BY <1>6, <1>1, <2>1 DEF Others, Shape, WorkerCompile, Stage, disk, result,
       WorkerMade, MayExport, Link
<1>7. CASE WorkerRaises(p, k)
  <2>1. Better  BY <1>7 DEF Better, Shape, WorkerRaises, disk
  <2> QED  BY <1>7, <1>1, <2>1 DEF Others, Shape, WorkerRaises, Stage, disk, result
<1>8. CASE WorkerUnlock(p, k)
  <2>1. Better  BY <1>8 DEF Better, Shape, WorkerUnlock, disk
  <2> QED  BY <1>8, <1>1, <2>1 DEF Others, Shape, WorkerUnlock, Stage, disk, result
<1>9. CASE WorkerReturn(p, k)
  <2>1. Better  BY <1>9 DEF Better, Shape, WorkerReturn, disk
  <2> QED  BY <1>9, <1>1, <2>1 DEF Others, Shape, WorkerReturn, Stage, disk, result
<1> QED  BY <1>2, <1>3, <1>4, <1>5, <1>6, <1>7, <1>8, <1>9 DEF WorkerStep

LEMMA DeathLocal == ASSUME Shape, NEW p \in Proc, WorkerDies(p) PROVE Others(p)
BY DEF Others, Better, Shape, WorkerDies, result

LEMMA StallLocal == ASSUME Shape, NEW p \in Proc, StallGuard(p) PROVE Others(p)
BY DEF Others, Better, Shape, StallGuard, Raise, Goto, disk, pool

-----------------------------------------------------------------------------
(***************************************************************************)
(* The main loop keeps its own part.                                       *)
(***************************************************************************)
LEMMA Deque ==
    ASSUME Shape, NEW p \in Proc
    PROVE  /\ queue[p] # <<>> => Cur(p) \in Key
           /\ queue[p] # <<>> /\ Return(p) =>
                 /\ pc'[p] = "loop"
                 /\ \A k \in Key : k \notin ToSet(queue'[p]) => k \notin ToSet(queue[p]) \/ k = Cur(p)
           /\ queue[p] # <<>> /\ Defer(p) =>
                 /\ pc'[p] = "loop"
                 /\ \A k \in Key : k \notin ToSet(queue'[p]) => k \notin ToSet(queue[p])
           /\ \A l : Goto(p, l) => pc'[p] = l
<1>1. queue \in [Proc -> Seq(Key)] /\ pc \in [Proc -> MainLabels]  BY DEF Shape
<1>2. \A l : Goto(p, l) => pc'[p] = l  BY <1>1 DEF Goto
<1>3. queue[p] # <<>> =>
         /\ Cur(p) \in Key
         /\ \A k \in Key : k \notin ToSet(Tail(queue[p])) => k \notin ToSet(queue[p]) \/ k = Cur(p)
         /\ \A k \in Key : k \notin ToSet(Append(Tail(queue[p]), Head(queue[p])))
                               => k \notin ToSet(queue[p])
  BY <1>1, Rotation DEF Cur
<1>4. Return(p) => queue'[p] = Tail(queue[p]) /\ pc'[p] = "loop"  BY <1>1, <1>2 DEF Return
<1>5. Defer(p) => queue'[p] = Append(Tail(queue[p]), Head(queue[p])) /\ pc'[p] = "loop"
  BY <1>1, <1>2 DEF Defer
<1> QED  BY <1>2, <1>3, <1>4, <1>5

\* A step that is not about to compile or to end keeps soundness when a key that
\* leaves the deque is not corrupt.
LEMMA SoundKept ==
    ASSUME Shape, NEW p \in Proc, Sound(p), Others(p),
           pc'[p] \notin {"solo", "compile", "unlock", "ok"},
           \A k \in Key : k \notin ToSet(queue'[p])
               => k \notin ToSet(queue[p]) \/ (~Bypassed => obj[k] # "corrupt")
    PROVE  Sound(p)'
BY DEF Sound, Bypassed, Others, Better, May

\* The same for the count, which also wants the books untouched.
LEMMA CountedKept ==
    ASSUME Shape, NEW p \in Proc, Counted(p), Others(p),
           pc'[p] \notin {"unlock", "verify", "ok"},
           fut'[p] = fut[p], made'[p] = made[p], ledger'[p] = ledger[p], carried'[p] = carried[p],
           \A k \in Key : k \notin ToSet(queue'[p])
               => k \notin ToSet(queue[p]) \/ (Faultless => obj[k] = "sound")
    PROVE  Counted(p)'
BY DEF Counted, Others, Better, Faultless

LEMMA MainOwn ==
    ASSUME IInv, NEW p \in Proc, MainStep(p), Others(p)
    PROVE  Own(p)'
<1>a. Shape /\ Place(p) /\ Sound(p) /\ Mine(p) /\ Counted(p)  BY DEF IInv, Own
<1>b. /\ pc \in [Proc -> MainLabels] /\ obj \in [Key -> {"absent", "corrupt", "sound"}]
      /\ case' = case /\ early' = early
  BY <1>a DEF Shape, Others
<1>c. Faultless => ~Bypassed /\ ~May("exportFails")  BY DEF Faultless, May, Bypassed
<1>d. pc[p] \notin {"loop", "verify"} \cup Ended => queue[p] # <<>>  BY <1>a DEF Place
<1>1. CASE FastPath(p)
  <2>1. queue[p] # <<>>  BY <1>1, <1>d DEF FastPath, Ended
  <2>2. pc'[p] \in {"loop", "poll"}
    BY <1>1, <1>a, <2>1, Deque DEF FastPath, SharedLoad
  <2>3. Place(p)'
    <3>1. pc'[p] \notin {"loop", "raised"} => queue' = queue
      BY <1>1, <1>a, <2>1, Deque DEF FastPath, SharedLoad
    <3> QED  BY <2>1, <2>2, <3>1 DEF Place, Ended
  <2>4. \A k \in Key : k \notin ToSet(queue'[p]) => k \notin ToSet(queue[p]) \/ obj[k] = "sound"
    BY <1>1, <1>a, <2>1, Deque DEF FastPath, SharedLoad
  <2>5. Sound(p)'  BY <2>2, <2>4, <1>a, SoundKept
  <2>6. Mine(p)'  BY <1>1, <1>a, <1>b DEF Mine, FastPath, pool, result
  <2>8. Counted(p)'
    <3>1. UNCHANGED <<fut, made, ledger, carried>>  BY <1>1 DEF FastPath, pool
    <3> QED  BY <2>2, <2>4, <3>1, <1>a, CountedKept
  <2> QED  BY <2>3, <2>5, <2>6, <2>8 DEF Own
<1>2. CASE Poll(p)
  <2>1. queue[p] # <<>>  BY <1>2, <1>d DEF Poll, Ended
  <2>2. pc'[p] \in {"loop", "claim", "external", "reload", "wantLock"}
    BY <1>2, <1>a, <2>1, Deque DEF Poll, Credit
  <2>3. Place(p)'
    <3>1. fut' = fut /\ (pc'[p] # "loop" => queue' = queue)
      BY <1>2, <1>a, <2>1, Deque DEF Poll, pool
    <3>2. pc'[p] \in {"external", "claim"} => fut[p][Cur(p)] = "none"
      BY <1>2, <1>a, <2>1, Deque DEF Poll, Place
    <3> QED  BY <2>1, <2>2, <3>1, <3>2 DEF Place, Ended, Cur
  <2>4. \A k \in Key : k \notin ToSet(queue'[p]) => k \notin ToSet(queue[p])
    BY <1>2, <1>a, <2>1, Deque DEF Poll
  <2>5. Sound(p)'  BY <2>2, <2>4, <1>a, SoundKept
  <2>6. Mine(p)'
    <3>1. /\ UNCHANGED <<ledger, carried, authored, made>>
          /\ credited'[p] \subseteq credited[p] \cup carried[p]
      BY <1>2, <1>a DEF Poll, Credit, result, Shape
    <3> QED  BY <3>1, <1>a, <1>b DEF Mine
  <2>8. Counted(p)'
    <3>1. UNCHANGED <<fut, made, ledger, carried>>  BY <1>2 DEF Poll, pool
    <3> QED  BY <2>2, <2>4, <3>1, <1>a, CountedKept
  <2> QED  BY <2>3, <2>5, <2>6, <2>8 DEF Own
<1>3. CASE PollExternal(p)
  <2>1. queue[p] # <<>>  BY <1>3, <1>d DEF PollExternal, Ended
  <2>2. pc'[p] \in {"loop", "claim"}
    BY <1>3, <1>a, <2>1, Deque DEF PollExternal
  <2>3. Place(p)'
    <3>1. fut' = fut /\ (pc'[p] # "loop" => queue' = queue)
      BY <1>3, <1>a, <2>1, Deque DEF PollExternal, pool
    <3>2. pc'[p] \in {"external", "claim"} => fut[p][Cur(p)] = "none"
      BY <1>3, <1>a, <2>1, Deque DEF PollExternal, Place
    <3> QED  BY <2>1, <2>2, <3>1, <3>2 DEF Place, Ended, Cur
  <2>4. \A k \in Key : k \notin ToSet(queue'[p]) => k \notin ToSet(queue[p])
    BY <1>3, <1>a, <2>1, Deque DEF PollExternal
  <2>5. Sound(p)'  BY <2>2, <2>4, <1>a, SoundKept
  <2>6. Mine(p)'  BY <1>3, <1>a, <1>b DEF Mine, PollExternal, pool, result
  <2>8. Counted(p)'
    <3>1. UNCHANGED <<fut, made, ledger, carried>>  BY <1>3 DEF PollExternal, pool
    <3> QED  BY <2>2, <2>4, <3>1, <1>a, CountedKept
  <2> QED  BY <2>3, <2>5, <2>6, <2>8 DEF Own
<1>4. CASE Claim(p)
  <2>1. queue[p] # <<>>  BY <1>4, <1>d DEF Claim, Ended
  <2>2. pc'[p] \in {"loop", "wantLock", "raised"}
    BY <1>4, <1>a, <2>1, Deque DEF Claim, Raise
  <2>3. Place(p)'
    <3>1. pc'[p] # "loop" => queue' = queue  BY <1>4, <1>a, <2>1, Deque DEF Claim
    <3> QED  BY <2>1, <2>2, <3>1 DEF Place, Ended
  <2>4. \A k \in Key : k \notin ToSet(queue'[p]) => k \notin ToSet(queue[p])
    BY <1>4, <1>a, <2>1, Deque DEF Claim
  <2>5. Sound(p)'  BY <2>2, <2>4, <1>a, SoundKept
  <2>6. Mine(p)'  BY <1>4, <1>a, <1>b DEF Mine, Claim, pool, result
  <2>8. Counted(p)'
    <3>1. /\ UNCHANGED <<made, ledger, carried>>
          /\ \A k \in Key : \/ fut'[p][k] = fut[p][k]
                            \/ fut[p][k] = "none" /\ fut'[p][k] = "queued"
      <4>1. /\ UNCHANGED <<made, ledger, carried>>
            /\ fut' = fut \/ fut' = [fut EXCEPT ![p][Cur(p)] = "queued"]
            /\ pc[p] = "claim"
        BY <1>4 DEF Claim
      <4>2. fut[p][Cur(p)] = "none" /\ Cur(p) \in Key /\ fut \in [Proc -> [Key -> Stages]]
        BY <4>1, <2>1, <1>a, Deque DEF Place, Shape
      <4> QED  BY <4>1, <4>2
    <3>2. Better  BY DEF Others
    <3> QED  BY <3>1, <3>2, <2>2, <2>4, <1>a, <1>b DEF Counted, Better, Faultless
  <2> QED  BY <2>3, <2>5, <2>6, <2>8 DEF Own
<1>5. CASE Reload(p)
  <2>1. queue[p] # <<>>  BY <1>5, <1>d DEF Reload, Ended
  <2>2. pc'[p] \in {"loop", "wantLock"}
    BY <1>5, <1>a, <2>1, Deque DEF Reload, SharedLoad
  <2>3. Place(p)'
    <3>1. pc'[p] \notin {"loop", "raised"} => queue' = queue
      BY <1>5, <1>a, <2>1, Deque DEF Reload, SharedLoad
    <3> QED  BY <2>1, <2>2, <3>1 DEF Place, Ended
  <2>4. \A k \in Key : k \notin ToSet(queue'[p]) => k \notin ToSet(queue[p]) \/ obj[k] = "sound"
    BY <1>5, <1>a, <2>1, Deque DEF Reload, SharedLoad
  <2>5. Sound(p)'  BY <2>2, <2>4, <1>a, SoundKept
  <2>6. Mine(p)'  BY <1>5, <1>a, <1>b DEF Mine, Reload, pool, result
  <2>8. Counted(p)'
    <3>1. UNCHANGED <<fut, made, ledger, carried>>  BY <1>5 DEF Reload, pool
    <3> QED  BY <2>2, <2>4, <3>1, <1>a, CountedKept
  <2> QED  BY <2>3, <2>5, <2>6, <2>8 DEF Own
<1>6. CASE LockAndCheck(p)
  <2>1. queue[p] # <<>>  BY <1>6, <1>d DEF LockAndCheck, Ended
  <2>2. pc'[p] \in {"loop", "quarantine"}
    BY <1>6, <1>a, <2>1, Deque DEF LockAndCheck
  <2>3. Place(p)'
    <3>1. pc'[p] \notin {"loop", "raised"} => queue' = queue
      BY <1>6, <1>a, <2>1, Deque DEF LockAndCheck
    <3> QED  BY <2>1, <2>2, <3>1 DEF Place, Ended
  <2>4. \A k \in Key : k \notin ToSet(queue'[p]) => k \notin ToSet(queue[p]) \/ obj[k] = "sound"
    BY <1>6, <1>a, <2>1, Deque DEF LockAndCheck
  <2>5. Sound(p)'  BY <2>2, <2>4, <1>a, SoundKept
  <2>6. Mine(p)'  BY <1>6, <1>a, <1>b DEF Mine, LockAndCheck, pool, result
  <2>8. Counted(p)'
    <3>1. UNCHANGED <<fut, made, ledger, carried>>  BY <1>6 DEF LockAndCheck, pool
    <3> QED  BY <2>2, <2>4, <3>1, <1>a, CountedKept
  <2> QED  BY <2>3, <2>5, <2>6, <2>8 DEF Own
<1>7. CASE LockTimeout(p)
  <2>1. queue[p] # <<>>  BY <1>7, <1>d DEF LockTimeout, Ended
  <2>2. pc[p] = "wantLock" /\ pc'[p] = "solo" /\ UNCHANGED <<queue, fut, made, ledger, carried, credited, authored>>
        /\ May("lockTimeouts")
    BY <1>7, <1>a, Deque DEF LockTimeout, pool, result
  <2>3. Place(p)'  BY <2>1, <2>2, <1>a DEF Place
  <2>4. Sound(p)'  BY <2>2, <1>b DEF Sound, Bypassed, May
  <2>5. Mine(p)'  BY <2>2, <1>a, <1>b DEF Mine
  <2>6. Counted(p)'  BY <2>2, <1>a, <1>c, CountedKept
  <2> QED  BY <2>3, <2>4, <2>5, <2>6 DEF Own
<1>8. CASE Quarantine(p)
  <2>1. /\ queue[p] # <<>> /\ Cur(p) \in Key /\ pc'[p] = "compile"
        /\ UNCHANGED <<queue, fut, made, ledger, carried, credited, authored>>
        /\ Clear(Cur(p))
    BY <1>8, <1>a, <1>d, Deque DEF Quarantine, pool, result, Ended
  <2>2. Place(p)'  BY <2>1 DEF Place, Ended
  <2>3. Sound(p)'
    <3>1. ~Bypassed => obj'[Cur(p)] # "corrupt"  BY <2>1, <1>b DEF Clear, Bypassed
    <3>2. pc[p] # "solo" /\ Better  BY <1>8 DEF Quarantine, Others
    <3> QED  BY <2>1, <3>1, <3>2, <1>a, <1>b DEF Sound, Bypassed, Cur, May, Better
  <2>4. Mine(p)'  BY <2>1, <1>a, <1>b DEF Mine
  <2>5. Counted(p)'  BY <2>1, <1>a, CountedKept
  <2> QED  BY <2>2, <2>3, <2>4, <2>5 DEF Own
<1>9. CASE CompileLocked(p)
  <2>1. /\ queue[p] # <<>> /\ Cur(p) \in Key /\ pc[p] = "compile" /\ pc'[p] = "unlock"
        /\ UNCHANGED <<queue, fut, carried, credited, authored>>
        /\ ledger'[p] = ledger[p] \cup {Cur(p)} /\ made'[p] = made[p] \cup {Cur(p)}
    BY <1>9, <1>a, <1>d, Deque DEF CompileLocked, Author, pool, result, Ended, Shape
  <2>2. Place(p)'  BY <2>1 DEF Place, Ended
  <2>3. Better  BY DEF Others
  <2>4. Sound(p)'  BY <2>1, <2>3, <1>a, <1>b DEF Sound, Bypassed, Cur, May, Better
  <2>5. Mine(p)'  BY <2>1, <1>a, <1>b DEF Mine
  <2>6. Counted(p)'
    <3>1. Faultless => obj'[Cur(p)] = "sound"
      <4>1. Faultless => obj[Cur(p)] # "corrupt"  BY <2>1, <1>a, <1>c DEF Sound
      <4>2. Faultless => Link(Cur(p))  BY <1>9, <1>c DEF CompileLocked, MayExport
      <4> QED  BY <2>1, <4>1, <4>2, <1>b DEF Link
    <3> QED  BY <2>1, <2>3, <3>1, <1>a, <1>b DEF Counted, Cur, Better, Faultless
  <2> QED  BY <2>2, <2>4, <2>5, <2>6 DEF Own
<1>10. CASE CompileRaises(p)
  <2>1. queue[p] # <<>>  BY <1>10, <1>d DEF CompileRaises, Ended
  <2>2. pc'[p] \in {"raised"}
    BY <1>10, <1>a, <2>1, Deque DEF CompileRaises, Raise
  <2>3. Place(p)'
    <3>1. pc'[p] \notin {"loop", "raised"} => queue' = queue
      BY <1>10, <1>a, <2>1, Deque DEF CompileRaises, Raise
    <3> QED  BY <2>1, <2>2, <3>1 DEF Place, Ended
  <2>4. \A k \in Key : k \notin ToSet(queue'[p]) => k \notin ToSet(queue[p])
    BY <1>10, <1>a, <2>1, Deque DEF CompileRaises
  <2>5. Sound(p)'  BY <2>2, <2>4, <1>a, SoundKept
  <2>6. Mine(p)'  BY <1>10, <1>a, <1>b DEF Mine, CompileRaises, pool, result
  <2>8. Counted(p)'
    <3>1. UNCHANGED <<fut, made, ledger, carried>>  BY <1>10 DEF CompileRaises, pool
    <3> QED  BY <2>2, <2>4, <3>1, <1>a, CountedKept
  <2> QED  BY <2>3, <2>5, <2>6, <2>8 DEF Own
<1>11. CASE Unlock(p)
  <2>1. queue[p] # <<>>  BY <1>11, <1>d DEF Unlock, Ended
  <2>2. pc'[p] \in {"loop"}
    BY <1>11, <1>a, <2>1, Deque DEF Unlock
  <2>3. Place(p)'
    <3>1. pc'[p] \notin {"loop", "raised"} => queue' = queue
      BY <1>11, <1>a, <2>1, Deque DEF Unlock
    <3> QED  BY <2>1, <2>2, <3>1 DEF Place, Ended
  <2>4. \A k \in Key : k \notin ToSet(queue'[p]) => k \notin ToSet(queue[p]) \/ k = Cur(p)
    BY <1>11, <1>a, <2>1, Deque DEF Unlock
  <2>7. /\ ~Bypassed => obj[Cur(p)] # "corrupt"
        /\ Faultless => obj[Cur(p)] = "sound"
    BY <1>11, <1>a DEF Unlock, Sound, Counted
  <2>5. Sound(p)'  BY <2>2, <2>4, <2>7, <1>a, SoundKept
  <2>6. Mine(p)'  BY <1>11, <1>a, <1>b DEF Mine, Unlock, pool, result
  <2>8. Counted(p)'
    <3>1. UNCHANGED <<fut, made, ledger, carried>>  BY <1>11 DEF Unlock, pool
    <3> QED  BY <2>2, <2>4, <2>7, <3>1, <1>a, CountedKept
  <2> QED  BY <2>3, <2>5, <2>6, <2>8 DEF Own
<1>12. CASE CompileSolo(p)
  <2>1. /\ queue[p] # <<>> /\ Cur(p) \in Key /\ pc[p] = "solo" /\ pc'[p] = "loop"
        /\ UNCHANGED <<fut, carried, credited, authored>>
        /\ ledger'[p] = ledger[p] \cup {Cur(p)} /\ made'[p] = made[p] \cup {Cur(p)}
    BY <1>12, <1>a, <1>d, Deque DEF CompileSolo, Author, pool, result, Ended, Shape
  <2>2. Bypassed  BY <2>1, <1>a DEF Sound
  <2>3. Place(p)'  BY <2>1 DEF Place, Ended
  <2>4. Sound(p)'  BY <2>2, <1>b DEF Sound, Bypassed, May
  <2>5. Mine(p)'  BY <2>1, <1>a, <1>b DEF Mine
  <2>6. Counted(p)'  BY <2>2, <1>b, <1>c DEF Counted, Faultless
  <2> QED  BY <2>3, <2>4, <2>5, <2>6 DEF Own
<1>13. CASE Attribute(p)
  <2> DEFINE merged == credited[p] \cup ({k \in Key : fut[p][k] = "done"} \cap carried[p])
  <2>1. /\ queue[p] = <<>> /\ pc[p] = "loop" /\ pc'[p] = "verify"
        /\ UNCHANGED <<obj, queue, ledger, made, carried>>
        /\ credited'[p] = merged /\ authored'[p] = ledger[p] \cup (merged \ early[p])
        /\ late'[p] = {k \in Key : fut[p][k] \in Running}
    BY <1>13, <1>a, Deque DEF Attribute, disk, Shape
  <2>2. \A k \in Key : fut'[p][k] = fut[p][k] \/ (fut[p][k] = "queued" /\ fut'[p][k] = "failed")
    BY <1>13, <1>a DEF Attribute, Shape
  <2>3. Place(p)'  BY <2>1 DEF Place, Ended
  <2>4. Sound(p)'  BY <2>1, <1>a, <1>b DEF Sound, Bypassed, May
  <2>5. Mine(p)'  BY <2>1, <1>a, <1>b DEF Mine
  <2>6. Counted(p)'
    <3>1. \A k \in Key : fut[p][k] \in Running => k \in late'[p]  BY <2>1
    <3>2. \A k \in Key : k \in ledger[p] \/ (k \in carried[p] /\ k \notin early[p] /\ fut[p][k] = "done")
                             => k \in authored'[p]
      BY <2>1
    <3>3. made[p] \subseteq Key  BY <1>a DEF Shape
    <3> QED  BY <2>1, <2>2, <3>1, <3>2, <3>3, <1>a, <1>b DEF Counted, Faultless, Running
  <2> QED  BY <2>3, <2>4, <2>5, <2>6 DEF Own
<1>14. CASE Verify(p)
  <2>1. /\ queue[p] = <<>> /\ pc[p] = "verify" /\ pc'[p] \in {"ok", "raised"}
        /\ pc'[p] = "ok" => \A k \in Key : obj[k] # "absent"
        /\ UNCHANGED <<obj, queue, fut, ledger, made, carried, credited, authored, late>>
    BY <1>14, <1>a, Deque DEF Verify, Raise, disk, pool, Place
  <2>2. Place(p)'  BY <2>1 DEF Place, Ended
  <2>3. Sound(p)'
    <3>1. \A k : k \notin ToSet(queue[p])  BY <2>1 DEF ToSet
    <3> QED  BY <2>1, <3>1, <1>a, <1>b DEF Sound, Bypassed, May
  <2>4. Mine(p)'  BY <2>1, <1>a, <1>b DEF Mine
  <2>5. Counted(p)'  BY <2>1, <1>a, <1>b DEF Counted, Faultless
  <2> QED  BY <2>2, <2>3, <2>4, <2>5 DEF Own
<1> QED
  BY <1>1, <1>2, <1>3, <1>4, <1>5, <1>6, <1>7, <1>8, <1>9, <1>10, <1>11, <1>12, <1>13,
     <1>14 DEF MainStep

-----------------------------------------------------------------------------
(***************************************************************************)
(* A worker keeps its process's part.                                      *)
(***************************************************************************)
\* What a task changes: its own key, and never the deque or the count.
Task(p, k) ==
    /\ pc' = pc /\ queue' = queue /\ ledger' = ledger
    /\ credited' = credited /\ authored' = authored /\ late' = late
    /\ fut[p][k] \notin {"none", "done"} /\ fut'[p][k] # "none"
    /\ \A j \in Key : j # k => fut'[p][j] = fut[p][j]
    /\ \/ carried' = carried /\ made' = made
       \/ carried'[p] = carried[p] \ {k} /\ made' = made
       \/ carried'[p] = carried[p] \cup {k}
          /\ made'[p] = IF k \in early[p] THEN made[p] ELSE made[p] \cup {k}

LEMMA IsTask ==
    ASSUME Shape, NEW p \in Proc, NEW k \in Key, WorkerStep(p, k) PROVE Task(p, k)
<1>a. /\ fut \in [Proc -> [Key -> Stages]] /\ carried \in [Proc -> SUBSET Key]
      /\ made \in [Proc -> SUBSET Key]
  BY DEF Shape
<1>b. \A s : Stage(p, k, s) => fut'[p][k] = s /\ \A j \in Key : j # k => fut'[p][j] = fut[p][j]
  BY <1>a DEF Stage
<1>1. CASE WorkerTake(p, k)
  BY <1>1, <1>a, <1>b DEF Task, WorkerTake, result
<1>2. CASE WorkerLock(p, k)
  BY <1>2, <1>a, <1>b DEF Task, WorkerLock, result
<1>3. CASE WorkerTimeout(p, k)
  BY <1>3, <1>a, <1>b DEF Task, WorkerTimeout, WorkerMade, result
<1>4. CASE WorkerQuarantine(p, k)
  BY <1>4, <1>a, <1>b DEF Task, WorkerQuarantine, result
<1>5. CASE WorkerCompile(p, k)
  BY <1>5, <1>a, <1>b DEF Task, WorkerCompile, WorkerMade, result
<1>6. CASE WorkerRaises(p, k)
  BY <1>6, <1>a, <1>b DEF Task, WorkerRaises, result
<1>7. CASE WorkerUnlock(p, k)
  BY <1>7, <1>a, <1>b DEF Task, WorkerUnlock, result
<1>8. CASE WorkerReturn(p, k)
  BY <1>8, <1>a, <1>b DEF Task, WorkerReturn, result
<1> QED  BY <1>1, <1>2, <1>3, <1>4, <1>5, <1>6, <1>7, <1>8 DEF WorkerStep

LEMMA WorkerOwn ==
    ASSUME IInv, NEW p \in Proc, NEW k \in Key, WorkerStep(p, k), Others(p)
    PROVE  Own(p)'
<1>a. Shape /\ Place(p) /\ Sound(p) /\ Mine(p) /\ Counted(p)  BY DEF IInv, Own
<1>b. Task(p, k)  BY <1>a, IsTask
<1>c. /\ fut \in [Proc -> [Key -> Stages]] /\ obj \in [Key -> {"absent", "corrupt", "sound"}]
      /\ case' = case /\ early' = early /\ Better
  BY <1>a DEF Shape, Others
<1>d. queue[p] # <<>> => Cur(p) \in Key  BY <1>a, Deque
<1>1. Place(p)'  BY <1>a, <1>b, <1>d DEF Place, Task, Cur, Ended
<1>2. Sound(p)'
  <2>1. pc[p] \in {"compile", "unlock"} => Cur(p) \in Key
    BY <1>a, <1>d DEF Place, Ended
  <2> QED  BY <1>a, <1>b, <1>c, <2>1 DEF Sound, Bypassed, Task, Cur, May, Better
<1>3. Mine(p)'  BY <1>a, <1>b, <1>c DEF Mine, Task
<1>4. Counted(p)'
  <2> SUFFICES ASSUME Faultless PROVE Counted(p)'
    BY <1>c DEF Counted, Faultless
  <2>1. ~May("lockTimeouts") /\ ~May("unlinkFails") /\ ~May("exportFails")
    BY DEF Faultless, May
  <2>2. pc[p] = "unlock" => Cur(p) \in Key /\ obj[Cur(p)] = "sound"
    BY <1>a, <1>d DEF Place, Counted, Ended
  <2>3. pc'[p] = "unlock" => obj'[Cur(p)'] = "sound"
    BY <2>2, <1>b, <1>c DEF Task, Better, Cur
  <2>4. ASSUME NEW j \in Key
        PROVE  /\ j \notin ToSet(queue[p]) => obj'[j] = "sound"
               /\ j # k => /\ fut'[p][j] = "compiling" => obj'[j] # "corrupt"
                           /\ fut'[p][j] \in {"published", "returning"} => obj'[j] = "sound"
                           /\ j \in made'[p] =>
                                 \/ j \in ledger[p]
                                 \/ /\ j \in carried'[p] /\ j \notin early[p]
                                    /\ fut'[p][j] \in {"published", "returning", "done"}
                           /\ pc[p] \in {"verify", "ok"} =>
                                 /\ j \in made'[p] => j \in authored[p] \cup late[p]
                                 /\ fut'[p][j] \in {"repairing", "compiling"} => j \in late[p]
    BY <2>4, <1>a, <1>b, <1>c DEF Counted, Task, Better
  <2>5. /\ fut'[p][k] = "compiling" => obj'[k] # "corrupt"
        /\ fut'[p][k] \in {"published", "returning"} => obj'[k] = "sound"
        /\ k \in made'[p] =>
              \/ k \in ledger[p]
              \/ /\ k \in carried'[p] /\ k \notin early[p]
                 /\ fut'[p][k] \in {"published", "returning", "done"}
        /\ pc[p] \in {"verify", "ok"} =>
              /\ k \in made'[p] => k \in authored[p] \cup late[p]
              /\ fut'[p][k] \in {"repairing", "compiling"} => k \in late[p]
    <3>a. /\ carried \in [Proc -> SUBSET Key] /\ made \in [Proc -> SUBSET Key]
          /\ \A s : Stage(p, k, s) => fut'[p][k] = s
      BY <1>a, <1>c DEF Shape, Stage
    <3>b. /\ fut[p][k] = "compiling" => obj[k] # "corrupt"
          /\ fut[p][k] \in {"published", "returning"} => obj[k] = "sound"
          /\ k \in made[p] =>
                \/ k \in ledger[p]
                \/ /\ k \in carried[p] /\ k \notin early[p]
                   /\ fut[p][k] \in {"published", "returning", "done"}
          /\ pc[p] \in {"verify", "ok"} =>
                /\ obj[k] = "sound"
                /\ k \in made[p] => k \in authored[p] \cup late[p]
                /\ fut[p][k] \in {"repairing", "compiling"} => k \in late[p]
      <4>1. pc[p] \in {"verify", "ok"} => k \notin ToSet(queue[p])
        BY <1>a DEF Place, ToSet
      <4> QED  BY <4>1, <1>a DEF Counted
    <3>1. CASE WorkerTake(p, k)
      BY <3>1, <3>a, <3>b, <1>c, <2>1 DEF WorkerTake, disk, Better
    <3>2. CASE WorkerLock(p, k)
      BY <3>2, <3>a, <3>b, <1>c, <2>1 DEF WorkerLock, disk, Better
    <3>3. CASE WorkerTimeout(p, k)
      BY <3>3, <3>a, <3>b, <1>c, <2>1 DEF WorkerTimeout, Better
    <3>4. CASE WorkerQuarantine(p, k)
      BY <3>4, <3>a, <3>b, <1>c, <2>1 DEF WorkerQuarantine, Clear, Better
    <3>5. CASE WorkerCompile(p, k)
      BY <3>5, <3>a, <3>b, <1>c, <2>1 DEF WorkerCompile, WorkerMade, MayExport, Link, Better
    <3>6. CASE WorkerRaises(p, k)
      BY <3>6, <3>a, <3>b, <1>c, <2>1 DEF WorkerRaises, Better
    <3>7. CASE WorkerUnlock(p, k)
      BY <3>7, <3>a, <3>b, <1>c, <2>1 DEF WorkerUnlock, Better
    <3>8. CASE WorkerReturn(p, k)
      BY <3>8, <3>a, <3>b, <1>c, <2>1 DEF WorkerReturn, disk, Better
    <3> QED  BY <3>1, <3>2, <3>3, <3>4, <3>5, <3>6, <3>7, <3>8 DEF WorkerStep
  <2>6. /\ pc' = pc /\ queue' = queue /\ ledger' = ledger /\ authored' = authored /\ late' = late
    BY <1>b DEF Task
  <2> QED  BY <2>3, <2>4, <2>5, <2>6, <1>c DEF Counted, Faultless
<1> QED  BY <1>1, <1>2, <1>3, <1>4 DEF Own

LEMMA DeathOwn ==
    ASSUME IInv, NEW p \in Proc, WorkerDies(p), Others(p) PROVE Own(p)'
<1>a. Shape /\ Place(p) /\ Sound(p) /\ Mine(p)  BY DEF IInv, Own
<1>b. /\ UNCHANGED <<case, obj, queue, pc, early, credited, ledger, made, authored>>
      /\ carried'[p] \subseteq carried[p]
      /\ \A k \in Key : fut[p][k] = "none" => fut'[p][k] = "none"
  BY <1>a DEF WorkerDies, result, Shape, Running
<1>1. Place(p)'
  <2>1. pc[p] \in {"external", "claim"} => Cur(p) \in Key  BY <1>a, Deque DEF Place, Ended
  <2> QED  BY <1>a, <1>b, <2>1 DEF Place, Cur
<1>2. Sound(p)'  BY <1>a, <1>b DEF Sound, Bypassed, Cur, May
<1>3. Mine(p)'  BY <1>a, <1>b DEF Mine
<1>4. Counted(p)'  BY <1>b DEF WorkerDies, May, Counted, Faultless
<1> QED  BY <1>1, <1>2, <1>3, <1>4 DEF Own

LEMMA StallOwn ==
    ASSUME IInv, NEW p \in Proc, StallGuard(p), Others(p) PROVE Own(p)'
<1>a. Shape /\ Place(p) /\ Sound(p) /\ Mine(p) /\ Counted(p)  BY DEF IInv, Own
<1>1. pc'[p] = "raised" /\ UNCHANGED <<queue, fut, ledger, carried, credited, authored, made>>
  BY <1>a, Deque DEF StallGuard, Raise, pool
<1>2. Place(p)'  BY <1>1 DEF Place, Ended
<1>3. Sound(p)'  BY <1>a, <1>1, SoundKept
<1>4. Mine(p)'  BY <1>a, <1>1 DEF Mine, Others
<1>5. Counted(p)'  BY <1>a, <1>1, CountedKept
<1> QED  BY <1>2, <1>3, <1>4, <1>5 DEF Own

-----------------------------------------------------------------------------
(***************************************************************************)
(* The invariant holds.                                                    *)
(***************************************************************************)
LEMMA InitIInv == Init => IInv
<1> SUFFICES ASSUME Init PROVE IInv  OBVIOUS
<1>1. case \in Cases /\ case.wanted \subseteq Key /\ IsFiniteSet(case.wanted)
  BY CasesAssumption, FS_Subset DEF Init
<1>2. \A p \in Proc : queue[p] \in Seq(Key) /\ ToSet(queue[p]) = case.wanted
  <2> SUFFICES ASSUME NEW p \in Proc
               PROVE  queue[p] \in Seq(Key) /\ ToSet(queue[p]) = case.wanted
    OBVIOUS
  <2>1. queue[p] \in SetToSeqs(case.wanted)  BY DEF Init
  <2>2. queue[p] \in Seq(case.wanted) /\ ToSet(queue[p]) = case.wanted
    BY <1>1, <2>1, AllWanted
  <2>3. queue[p] \in Seq(Key)  BY <1>1, <2>2
  <2> QED  BY <2>2, <2>3
<1>3. queue \in [Proc -> Seq(Key)]
  <2>1. queue \in [Proc -> SetToSeqs(case.wanted)]  BY DEF Init
  <2> QED  BY <1>2, <2>1
<1>4. /\ obj \in [Key -> {"absent", "corrupt", "sound"}]
      /\ \A k \in Key : k \notin case.wanted => obj[k] = "sound"
  BY DEF Init
<1>5. early \in [Proc -> SUBSET Key]
  <2>1. early \in [Proc -> IF case.sessionPools THEN SUBSET (case.wanted \ case.unshippable) ELSE {{}}]
    BY DEF Init
  <2> QED  BY <1>1, <2>1
<1>6. /\ fut \in [Proc -> [Key -> Stages]]
      /\ \A p \in Proc, k \in Key : fut[p][k] \in {"queued", "none"}
  BY DEF Init, Stages
<1>7. Shape
  BY <1>1, <1>3, <1>4, <1>5, <1>6 DEF Init, Shape, MainLabels
<1>8. ASSUME NEW p \in Proc PROVE Own(p)
  <2>1. /\ pc[p] = "loop" /\ ledger[p] = {} /\ carried[p] = {} /\ credited[p] = {}
        /\ authored[p] = {} /\ made[p] = {}
    BY DEF Init
  <2>2. Place(p)  BY <2>1 DEF Place
  <2>3. Sound(p)  BY <2>1, <1>2, <1>4 DEF Sound
  <2>4. Mine(p)  BY <2>1 DEF Mine
  <2>5. Counted(p)  BY <2>1, <1>2, <1>4, <1>6 DEF Counted
  <2> QED  BY <2>2, <2>3, <2>4, <2>5 DEF Own
<1> QED  BY <1>7, <1>8 DEF IInv

LEMMA NextIInv == IInv /\ [Next]_vars => IInv'
<1> SUFFICES ASSUME IInv, [Next]_vars PROVE IInv'  OBVIOUS
<1>a. Shape /\ \A p \in Proc : Place(p)  BY DEF IInv, Own
<1>1. CASE UNCHANGED vars
  <2>1. /\ Shape'  BY <1>1, <1>a DEF Shape, vars
  <2>2. ASSUME NEW p \in Proc PROVE Own(p)'
    <3>1. Own(p)  BY DEF IInv
    <3> QED  BY <1>1, <3>1 DEF Own, Place, Sound, Bypassed, Mine, Counted, Cur, May, Faultless, vars
  <2> QED  BY <2>1, <2>2 DEF IInv
<1>2. ASSUME NEW p \in Proc, MainStep(p) PROVE IInv'
  BY <1>2, <1>a, MainShape, MainLocal, MainOwn, OwnIsEnough
<1>3. ASSUME NEW p \in Proc, NEW k \in Key, WorkerStep(p, k) PROVE IInv'
  BY <1>3, <1>a, WorkerShape, WorkerLocal, WorkerOwn, OwnIsEnough
<1>4. ASSUME NEW p \in Proc, WorkerDies(p) PROVE IInv'
  BY <1>4, <1>a, DeathShape, DeathLocal, DeathOwn, OwnIsEnough
<1>5. ASSUME NEW p \in Proc, StallGuard(p) PROVE IInv'
  BY <1>5, <1>a, StallShape, StallLocal, StallOwn, OwnIsEnough
<1> QED  BY <1>1, <1>2, <1>3, <1>4, <1>5 DEF Next

\* A prewarm that succeeds leaves a loadable object for every key, whatever was
\* on disk before, unless a lock could not be had in time or a corrupt object
\* could not be unlinked.
THEOREM SuccessIsSound == Spec => []SuccessMeansSound
<1>1. IInv => SuccessMeansSound  BY DEF IInv, Own, Sound, Bypassed, SuccessMeansSound
<1> QED  BY <1>1, InitIInv, NextIInv, PTL DEF Spec

\* A prewarm counts its own compiles, all of them but those still on their way
\* when it took the count.
THEOREM CountIsMine == Spec => []CountsAreMineOrLate
<1>1. IInv => CountsAreMineOrLate
  <2> SUFFICES ASSUME IInv, NEW p \in Proc
               PROVE  /\ authored[p] \subseteq made[p]
                      /\ Faultless /\ pc[p] = "ok" => made[p] \ authored[p] \subseteq late[p]
    BY DEF CountsAreMineOrLate
  <2>1. Mine(p) /\ Counted(p) /\ made[p] \subseteq Key  BY DEF IInv, Own, Shape
  <2> QED  BY <2>1 DEF Mine, Counted
<1> QED  BY <1>1, InitIInv, NextIInv, PTL DEF Spec
=============================================================================
