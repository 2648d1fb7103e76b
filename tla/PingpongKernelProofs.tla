------------------------ MODULE PingpongKernelProofs ------------------------
(***************************************************************************)
(* The turns of a pingpong CTA, the buffers of its epilogues' stores and   *)
(* the slots that carry its tiles, for every launch.                       *)
(***************************************************************************)
EXTENDS PingpongKernel, FiniteSetTheorems, TLAPS

(* What holds a stage's turn: a signal on its way to a warpgroup, or the   *)
(* warpgroup that is in the stage.                                         *)
Places(stage) == IF stage = "mma" THEN {"mma"} ELSE InEpilogue
Holds(stage, w) == IF wg[w].at \in Places(stage) THEN 1 ELSE 0
Held(stage) == signal[stage][0] + signal[stage][1] + Holds(stage, 0) + Holds(stage, 1)

Shape ==
  /\ DOMAIN wg = Consumers(launch)
  /\ \A w \in DOMAIN wg : "at" \in DOMAIN wg[w]
  /\ signal \in [{"mma", "epi"} -> [{0, 1} -> Nat]]
(* There is one turn of each stage at most, none before warpgroup 0 has    *)
(* started both.                                                           *)
OneTurn ==
  launch.pingpong =>
    \A stage \in {"mma", "epi"} : Held(stage) <= (IF wg[0].at = "start" THEN 0 ELSE 1)
IInv == Shape /\ OneTurn

(* Nobody holds a turn at the start.                                       *)
LEMMA InitIInv == Init => IInv
<1> SUFFICES ASSUME Init PROVE IInv  OBVIOUS
<1>1. /\ wg = [w \in Consumers(launch) |-> WarpgroupInit]
      /\ signal = [s \in {"mma", "epi"} |-> [w \in {0, 1} |-> 0]]  BY DEF Init
<1>2. WarpgroupInit.at = "start" /\ "at" \in DOMAIN WarpgroupInit  BY DEF WarpgroupInit
<1>3. Shape  BY <1>1, <1>2 DEF Shape
<1>4. OneTurn
  <2> SUFFICES ASSUME launch.pingpong, NEW stage \in {"mma", "epi"}
               PROVE  Held(stage) <= (IF wg[0].at = "start" THEN 0 ELSE 1)  BY DEF OneTurn
  <2>1. Consumers(launch) = {0, 1}  BY DEF Consumers
  <2>2. wg[0].at = "start" /\ wg[1].at = "start"  BY <1>1, <1>2, <2>1
  <2> QED  BY <1>1, <2>2 DEF Held, Holds, Places, InEpilogue
<1> QED  BY <1>3, <1>4 DEF IInv

(* A step of consumer w that starts nothing: where it ends.                *)
Moved(w) ==
  /\ launch' = launch /\ DOMAIN wg' = DOMAIN wg
  /\ \A v \in DOMAIN wg : v # w => wg'[v] = wg[v]
  /\ "at" \in DOMAIN wg'[w] /\ wg'[w].at # "start"
NotInto(stage, w) == wg'[w].at \in Places(stage) => wg[w].at \in Places(stage)

(* Such a step keeps the turns if it enters no stage ...                   *)
LEMMA KeepsTurns ==
  ASSUME IInv, NEW w \in DOMAIN wg, Moved(w), signal' = signal,
         NotInto("mma", w), NotInto("epi", w)
  PROVE  IInv'
<1>1. Shape'  BY DEF IInv, Shape, Moved
<1>2. OneTurn'
  <2> SUFFICES ASSUME launch.pingpong, NEW stage \in {"mma", "epi"}
               PROVE  Held(stage)' <= (IF wg'[0].at = "start" THEN 0 ELSE 1)
    BY DEF OneTurn, Moved
  <2>1. Consumers(launch) = {0, 1} /\ DOMAIN wg = {0, 1}  BY DEF Consumers, IInv, Shape
  <2>2. Held(stage) <= (IF wg[0].at = "start" THEN 0 ELSE 1)  BY DEF IInv, OneTurn
  <2>3. \A v \in {0, 1} : Holds(stage, v)' <= Holds(stage, v)
    BY <2>1 DEF Holds, Places, NotInto, Moved
  <2>4. signal[stage][0] \in Nat /\ signal[stage][1] \in Nat  BY DEF IInv, Shape
  <2>5. \A v \in {0, 1} : Holds(stage, v) \in Nat /\ Holds(stage, v)' \in Nat  BY DEF Holds
  <2>6. wg[0].at # "start" => wg'[0].at # "start"  BY <2>1 DEF Moved
  <2> QED  BY <2>2, <2>3, <2>4, <2>5, <2>6 DEF Held
<1> QED  BY <1>1, <1>2 DEF IInv

(* ... if it takes a signal for the stage it enters ...                    *)
LEMMA TakesTurn ==
  ASSUME IInv, NEW w \in DOMAIN wg, Moved(w), NEW into \in {"mma", "epi"},
         Turn(into, w), wg[w].at \notin Places(into), wg[w].at # "start",
         \A stage \in {"mma", "epi"} : stage # into => NotInto(stage, w)
  PROVE  IInv'
<1>1. w \in {0, 1}  BY DEF IInv, Shape, Consumers
<1>2. Shape'
  <2>1. signal' \in [{"mma", "epi"} -> [{0, 1} -> Nat]]
    BY <1>1 DEF IInv, Shape, Turn
  <2> QED  BY <2>1 DEF IInv, Shape, Moved
<1>3. OneTurn'
  <2> SUFFICES ASSUME launch.pingpong, NEW stage \in {"mma", "epi"}
               PROVE  Held(stage)' <= (IF wg'[0].at = "start" THEN 0 ELSE 1)
    BY DEF OneTurn, Moved
  <2>1. Consumers(launch) = {0, 1} /\ DOMAIN wg = {0, 1}  BY DEF Consumers, IInv, Shape
  <2>2. Held(stage) <= (IF wg[0].at = "start" THEN 0 ELSE 1)  BY DEF IInv, OneTurn
  <2>3. /\ signal[into][w] > 0
        /\ signal' = [signal EXCEPT ![into][w] = @ - 1]  BY DEF Turn
  <2>4. \A s \in {"mma", "epi"}, v \in {0, 1} :
          signal[s][v] \in Nat /\ Holds(s, v) \in Nat /\ Holds(s, v)' \in Nat /\ Holds(s, v)' <= 1
    BY DEF IInv, Shape, Holds
  <2>5. \A v \in {0, 1} : v # w => Holds(stage, v)' = Holds(stage, v)
    BY <2>1 DEF Holds, Places, Moved
  <2>6. wg[0].at # "start" => wg'[0].at # "start"  BY <2>1 DEF Moved
  <2>7. CASE stage = into
    <3>1. Holds(stage, w) = 0  BY <2>7 DEF Holds
    <3>2. \A v \in {0, 1} : signal'[stage][v] = IF v = w THEN signal[stage][v] - 1 ELSE signal[stage][v]
      BY <1>1, <2>3, <2>7 DEF IInv, Shape
    <3> QED  BY <1>1, <2>2, <2>4, <2>5, <2>6, <3>1, <3>2 DEF Held
  <2>8. CASE stage # into
    <3>1. Holds(stage, w)' <= Holds(stage, w)  BY <2>8 DEF Holds, NotInto, Places
    <3>2. signal'[stage] = signal[stage]  BY <2>3, <2>8 DEF IInv, Shape
    <3> QED  BY <1>1, <2>2, <2>4, <2>5, <2>6, <3>1, <3>2 DEF Held
  <2> QED  BY <2>7, <2>8
<1> QED  BY <1>2, <1>3 DEF IInv

(* ... and if it signals the peer as it leaves a stage.                    *)
LEMMA GivesTurn ==
  ASSUME IInv, NEW w \in DOMAIN wg, Moved(w), NEW from \in {"mma", "epi"},
         signal' = Signal(from, Peer(w)),
         wg[w].at \in Places(from), wg'[w].at \notin Places(from), wg[w].at # "start",
         \A stage \in {"mma", "epi"} : stage # from => NotInto(stage, w)
  PROVE  IInv'
<1>1. w \in {0, 1} /\ Peer(w) \in {0, 1} /\ Peer(w) # w  BY DEF IInv, Shape, Consumers, Peer
<1>2. Shape'
  <2>1. signal' \in [{"mma", "epi"} -> [{0, 1} -> Nat]]
    BY <1>1 DEF IInv, Shape, Signal
  <2> QED  BY <2>1 DEF IInv, Shape, Moved
<1>3. OneTurn'
  <2> SUFFICES ASSUME launch.pingpong, NEW stage \in {"mma", "epi"}
               PROVE  Held(stage)' <= (IF wg'[0].at = "start" THEN 0 ELSE 1)
    BY DEF OneTurn, Moved
  <2>1. Consumers(launch) = {0, 1} /\ DOMAIN wg = {0, 1}  BY DEF Consumers, IInv, Shape
  <2>2. Held(stage) <= (IF wg[0].at = "start" THEN 0 ELSE 1)  BY DEF IInv, OneTurn
  <2>3. signal' = [signal EXCEPT ![from][Peer(w)] = @ + 1]  BY DEF Signal
  <2>4. \A s \in {"mma", "epi"}, v \in {0, 1} :
          signal[s][v] \in Nat /\ Holds(s, v) \in Nat /\ Holds(s, v)' \in Nat
    BY DEF IInv, Shape, Holds
  <2>5. \A v \in {0, 1} : v # w => Holds(stage, v)' = Holds(stage, v)
    BY <2>1 DEF Holds, Places, Moved
  <2>6. wg[0].at # "start" => wg'[0].at # "start"  BY <2>1 DEF Moved
  <2>7. CASE stage = from
    <3>1. Holds(stage, w) = 1 /\ Holds(stage, w)' = 0  BY <2>7 DEF Holds, Places
    <3>2. \A v \in {0, 1} : signal'[stage][v] = IF v = w THEN signal[stage][v] ELSE signal[stage][v] + 1
      BY <1>1, <2>3, <2>7 DEF IInv, Shape, Peer
    <3> QED  BY <1>1, <2>2, <2>4, <2>5, <2>6, <3>1, <3>2 DEF Held
  <2>8. CASE stage # from
    <3>1. Holds(stage, w)' <= Holds(stage, w)  BY <2>8 DEF Holds, NotInto, Places
    <3>2. signal'[stage] = signal[stage]  BY <2>3, <2>8 DEF IInv, Shape
    <3> QED  BY <1>1, <2>2, <2>4, <2>5, <2>6, <3>1, <3>2 DEF Held
  <2> QED  BY <2>7, <2>8
<1> QED  BY <1>2, <1>3 DEF IInv

(* Only warpgroup 0 has a first signal to give, before it holds a turn.    *)
LEMMA StartStep == ASSUME IInv, NEW w \in DOMAIN wg, Start(w) PROVE IInv'
<1>1. w \in {0, 1}  BY DEF IInv, Shape, Consumers
<1>2. /\ launch' = launch /\ DOMAIN wg' = DOMAIN wg /\ "at" \in DOMAIN wg'[w]
      /\ \A v \in DOMAIN wg : v # w => wg'[v] = wg[v]
      /\ wg'[w].at \in {"turn", "end", "read"}
      /\ wg[w].at = "start"
  BY DEF Start, IInv, Shape, NextWork, PassPeer, PassRings
<1>3. CASE w = 1
  <2>1. Moved(w) /\ signal' = signal /\ NotInto("mma", w) /\ NotInto("epi", w)
    BY <1>2, <1>3 DEF Start, StartSignal, Moved, NotInto, Places, InEpilogue
  <2> QED  BY <2>1, KeepsTurns
<1>4. CASE w = 0
  <2>1. signal' \in [{"mma", "epi"} -> [{0, 1} -> Nat]]
    BY <1>4 DEF Start, StartSignal, IInv, Shape
  <2>2. Shape'  BY <1>2, <2>1 DEF IInv, Shape
  <2>3. OneTurn'
    <3> SUFFICES ASSUME launch.pingpong, NEW stage \in {"mma", "epi"}
                 PROVE  Held(stage)' <= (IF wg'[0].at = "start" THEN 0 ELSE 1)
      BY <1>2 DEF OneTurn
    <3>1. Consumers(launch) = {0, 1} /\ DOMAIN wg = {0, 1}  BY DEF Consumers, IInv, Shape
    <3>2. Held(stage) <= 0  BY <1>2, <1>4 DEF IInv, OneTurn
    <3>3. /\ signal'[stage][0] = signal[stage][0] + 1
          /\ signal'[stage][1] = signal[stage][1]
      BY <1>4 DEF Start, StartSignal, IInv, Shape
    <3>4. signal[stage][0] \in Nat /\ signal[stage][1] \in Nat  BY DEF IInv, Shape
    <3>5. Holds(stage, 0) = 0 /\ Holds(stage, 0)' = 0 /\ Holds(stage, 1)' = Holds(stage, 1)
      BY <1>2, <1>4, <3>1 DEF Holds, Places, InEpilogue
    <3>6. Holds(stage, 1) \in Nat  BY DEF Holds
    <3>7. wg'[0].at # "start"  BY <1>2, <1>4
    <3> QED  BY <3>2, <3>3, <3>4, <3>5, <3>6, <3>7 DEF Held
  <2> QED  BY <2>2, <2>3 DEF IInv
<1> QED  BY <1>1, <1>3, <1>4

(* The steps that touch no turn: outside the stages, or inside one.        *)
LEMMA QuietStep ==
  ASSUME IInv, NEW w \in DOMAIN wg,
         \/ Read(w) \/ ReadPeer(w) \/ MmaFeed(w) \/ MmaRetire(w) \/ LoadC(w) \/ ReadC(w)
         \/ RefillC(w) \/ AcquireStore(w) \/ Store(w) \/ End(w)
  PROVE  IInv'
<1> DEFINE Quiet == Moved(w) /\ signal' = signal /\ NotInto("mma", w) /\ NotInto("epi", w)
<1> USE DEF IInv, Shape, Moved, NotInto, Places, InEpilogue
<1>1. ASSUME Read(w) PROVE Quiet          BY <1>1 DEF Read
<1>2. ASSUME ReadPeer(w) PROVE Quiet      BY <1>2 DEF ReadPeer, NextWork, PassPeer, PassRings
<1>3. ASSUME MmaFeed(w) PROVE Quiet       BY <1>3 DEF MmaFeed, AtStep, StepDone
<1>4. ASSUME MmaRetire(w) PROVE Quiet     BY <1>4 DEF MmaRetire, AtStep, StepDone
<1>5. ASSUME LoadC(w) PROVE Quiet         BY <1>5 DEF LoadC
<1>6. ASSUME ReadC(w) PROVE Quiet         BY <1>6 DEF ReadC
<1>7. ASSUME RefillC(w) PROVE Quiet       BY <1>7 DEF RefillC
<1>8. ASSUME AcquireStore(w) PROVE Quiet  BY <1>8 DEF AcquireStore
<1>9. ASSUME Store(w) PROVE Quiet         BY <1>9 DEF Store
<1>10. ASSUME End(w) PROVE Quiet          BY <1>10 DEF End
<1> HIDE DEF IInv, Shape, Moved, NotInto, Places, InEpilogue
<1>11. Quiet  BY <1>1, <1>2, <1>3, <1>4, <1>5, <1>6, <1>7, <1>8, <1>9, <1>10
<1> QED  BY <1>11, KeepsTurns

(* The steps that take a turn or pass it on.                               *)
LEMMA TurnStep ==
  ASSUME IInv, NEW w \in DOMAIN wg, MmaTurn(w) \/ EpiTurn(w)
  PROVE  IInv'
<1>1. CASE MmaTurn(w)
  <2>1. Moved(w) /\ Turn("mma", w) /\ wg[w].at = "turn" /\ wg'[w].at = "mma"
    BY <1>1 DEF MmaTurn, Moved, IInv, Shape
  <2>2. NotInto("epi", w) /\ wg[w].at \notin Places("mma")
    BY <2>1 DEF NotInto, Places, InEpilogue
  <2> QED  BY <2>1, <2>2, TakesTurn
<1>2. CASE EpiTurn(w)
  <2>1. Moved(w) /\ Turn("epi", w) /\ wg[w].at = "epiTurn" /\ wg'[w].at \in {"loadC", "drain"}
    BY <1>2 DEF EpiTurn, Moved, IInv, Shape
  <2>2. NotInto("mma", w) /\ wg[w].at \notin Places("epi")
    BY <2>1 DEF NotInto, Places, InEpilogue
  <2> QED  BY <2>1, <2>2, TakesTurn
<1> QED  BY <1>1, <1>2

(* ... and to the peer.                                                    *)
LEMMA PassStep ==
  ASSUME IInv, NEW w \in DOMAIN wg, MmaHandOver(w) \/ EndTile(w)
  PROVE  IInv'
<1>1. CASE MmaHandOver(w)
  <2>1. Moved(w) /\ wg[w].at = "mma" /\ wg'[w].at \in {"lastStage", "epiTurn"}
    BY <1>1 DEF MmaHandOver, StepDone, Moved, IInv, Shape
  <2>2. signal' = Signal("mma", Peer(w))  BY <1>1 DEF MmaHandOver
  <2>3. /\ NotInto("epi", w)
        /\ wg[w].at \in Places("mma") /\ wg'[w].at \notin Places("mma") /\ wg[w].at # "start"
    BY <2>1 DEF NotInto, Places, InEpilogue
  <2> QED  BY <2>1, <2>2, <2>3, GivesTurn
<1>2. CASE EndTile(w)
  <2>1. Moved(w) /\ wg[w].at = "drain" /\ wg'[w].at \in {"peer", "read"}
    BY <1>2 DEF EndTile, NextWork, PassPeer, PassRings, Moved, IInv, Shape
  <2>2. signal' = Signal("epi", Peer(w))  BY <1>2 DEF EndTile
  <2>3. /\ NotInto("mma", w)
        /\ wg[w].at \in Places("epi") /\ wg'[w].at \notin Places("epi") /\ wg[w].at # "start"
    BY <2>1 DEF NotInto, Places, InEpilogue
  <2> QED  BY <2>1, <2>2, <2>3, GivesTurn
<1> QED  BY <1>1, <1>2

(* Every step keeps the turns.                                            *)
LEMMA NextIInv == IInv /\ [Next]_vars => IInv'
<1> SUFFICES ASSUME IInv, [Next]_vars PROVE IInv'  OBVIOUS
<1>1. CASE UNCHANGED <<launch, wg, signal>>
  BY <1>1 DEF IInv, Shape, OneTurn, Held, Holds
<1>2. ASSUME NEW w \in DOMAIN wg, WarpgroupNext(w) PROVE IInv'
  BY <1>2, StartStep, QuietStep, TurnStep, PassStep DEF WarpgroupNext
<1>3. ASSUME LoadNext \/ Land PROVE UNCHANGED <<launch, wg, signal>>
  BY <1>3 DEF LoadNext, LoadKTile, LoadAdvance, LoadRead, LoadReads, LoadLoopEnds, LoadExtra,
              LoadExtraRead, LoadTails, Land
<1>4. ASSUME NEW w, StoreRetires(w) PROVE UNCHANGED <<launch, wg, signal>>
  BY <1>4 DEF StoreRetires
<1> QED  BY <1>1, <1>2, <1>3, <1>4 DEF Next, vars

(* Two warpgroups in a stage would hold two turns.                         *)
LEMMA TurnsApart == IInv => TakeTurns
<1> SUFFICES ASSUME IInv, NEW v \in DOMAIN wg, NEW w \in DOMAIN wg, v # w,
                    NEW stage \in {"mma", "epi"},
                    wg[v].at \in Places(stage), wg[w].at \in Places(stage)
             PROVE  FALSE
  BY DEF TakeTurns, Places
<1>1. launch.pingpong /\ {v, w} = {0, 1}  BY DEF IInv, Shape, Consumers
<1>2. Holds(stage, 0) = 1 /\ Holds(stage, 1) = 1  BY <1>1 DEF Holds
<1>3. Held(stage) <= (IF wg[0].at = "start" THEN 0 ELSE 1)  BY <1>1 DEF IInv, OneTurn
<1>4. signal[stage][0] \in Nat /\ signal[stage][1] \in Nat  BY DEF IInv, Shape
<1> QED  BY <1>2, <1>3, <1>4 DEF Held

(* The two warpgroups of a pingpong CTA are never in their main loops (up  *)
(* to the hand-over) or in their epilogues together: what makes a one-bit  *)
(* parity unambiguous and lets them share the epilogue's shared memory.    *)
THEOREM PingpongTakesTurns == Spec => []TakeTurns
BY TurnsApart, InitIInv, NextIInv, PTL DEF Spec

-----------------------------------------------------------------------------
(* The buffers of the epilogue's stores.                                   *)

(* A warpgroup numbers the subtiles it stores from the tiles it has gone   *)
(* past; it stores them one after another.                                 *)
Writing == {"readC", "refillC", "acquire", "store"}
Working == {"turn", "mma", "lastStage", "epiTurn"} \cup InEpilogue
Fields == {"at", "tile", "step", "first", "ab", "used", "slot", "cRead", "cLoad", "executed", "sub"}
Count(w) ==
  wg[w].executed * launch.subtiles + (IF wg[w].at \in Writing \cup {"drain"} THEN wg[w].sub ELSE 0)

Placed(w) ==
  /\ Fields \subseteq DOMAIN wg[w]
  /\ wg[w].executed \in Nat /\ wg[w].sub \in Nat
  /\ wg[w].at = "start" => wg[w].tile = 1
  /\ wg[w].at = "peer" => launch.pingpong
  /\ wg[w].at \in Working => Valid(wg[w].tile)
  /\ wg[w].at \in {"loadC"} \cup Writing => Epilogue(wg[w].tile)
  /\ wg[w].at \in Writing => wg[w].sub < launch.subtiles
  /\ wg[w].at = "drain" => wg[w].sub = IF Epilogue(wg[w].tile) THEN launch.subtiles ELSE 0

(* The stores in flight are of the subtiles before the next, and are none  *)
(* between tiles where the next tile's numbers may not follow on, nor      *)
(* where the peer may store, nor when the consumer has left.               *)
Drained(w) ==
  /\ launch.pingpong \/ launch.split
  /\ wg[w].at \notin InEpilogue \/ (wg[w].at = "drain" /\ ~Epilogue(wg[w].tile))
  => stores[w] = <<>>
Run(w) ==
  /\ Len(stores[w]) <= launch.epiStages /\ Len(stores[w]) <= Count(w)
  /\ \A i \in 1..Len(stores[w]) :
       stores[w][i] = (Count(w) - Len(stores[w]) + i - 1) % launch.epiStages
Queue(w) ==
  /\ Drained(w) /\ Run(w)
  /\ wg[w].at = "store" => Len(stores[w]) < launch.epiStages
  /\ wg[w].at = "done" => stores[w] = <<>>

Launched ==
  /\ launch \in Launches
  /\ stores \in [Consumers(launch) -> Seq(Int)]
Buffers == Launched /\ \A w \in DOMAIN wg : Placed(w) /\ Queue(w)

(* What a launch is.                                                       *)
LEMMA LaunchIs ==
  ASSUME launch \in Launches
  PROVE  /\ launch.subtiles \in Nat \ {0} /\ launch.epiStages \in Nat \ {0}
         /\ launch.pingpong \in BOOLEAN /\ launch.split \in BOOLEAN
         /\ \A t : ~launch.split /\ Valid(t) => Epilogue(t)
         /\ SkipsPeer(launch) => launch.pingpong
<1>1. launch \in LaunchType /\ (~launch.split => \A t \in DOMAIN launch.work : launch.work[t].epilogue)
  BY LaunchesAssumption
<1>2. DOMAIN launch.work = 1..Len(launch.work)  BY <1>1 DEF LaunchType
<1> QED  BY <1>1, <1>2 DEF LaunchType, SkipsPeer, Valid, Epilogue, N

(* What a warpgroup keeps while it and its stores are left alone.          *)
LEMMA Others ==
  ASSUME launch' = launch, NEW v, wg'[v] = wg[v], stores'[v] = stores[v], Placed(v), Queue(v)
  PROVE  Placed(v)' /\ Queue(v)'
<1>1. Placed(v)'  BY DEF Placed, Valid, N, Epilogue
<1>2. Count(v)' = Count(v)  BY DEF Count
<1> QED  BY <1>1, <1>2 DEF Queue, Drained, Run, Epilogue

(* A step of consumer w that leaves the stores alone.                      *)
LEMMA Waits ==
  ASSUME Shape, Buffers, NEW w \in DOMAIN wg, launch' = launch, stores' = stores,
         DOMAIN wg' = DOMAIN wg, \A v \in DOMAIN wg : v # w => wg'[v] = wg[v],
         Placed(w)', Drained(w)', Count(w)' = Count(w) \/ stores[w] = <<>>, Count(w)' \in Nat,
         wg'[w].at = "store" => Len(stores[w]) < launch.epiStages,
         wg'[w].at = "done" => stores[w] = <<>>
  PROVE  Buffers'
<1>1. Queue(w)'
  <2>1. Run(w) /\ stores[w] \in Seq(Int)  BY DEF Buffers, Queue, Launched, Shape
  <2>2. Run(w)'
    <3>1. CASE Count(w)' = Count(w)  BY <2>1, <3>1 DEF Run
    <3>2. CASE stores[w] = <<>>
      <4>1. Len(stores[w]) = 0 /\ launch.epiStages \in Nat  BY <3>2, LaunchIs DEF Buffers, Launched
      <4> QED  BY <4>1 DEF Run
    <3> QED  BY <3>1, <3>2
  <2> QED  BY <2>2 DEF Queue
<1>2. ASSUME NEW v \in DOMAIN wg, v # w PROVE Placed(v)' /\ Queue(v)'
  BY <1>2, Others DEF Buffers
<1>3. Launched'  BY DEF Buffers, Launched
<1> QED  BY <1>1, <1>2, <1>3 DEF Buffers

(* A number and one less than a modulus away differ by the modulus.        *)
LEMMA Apart ==
  ASSUME NEW e \in Nat \ {0}, NEW a \in Nat, NEW d \in 1..e - 1, d <= a
  PROVE  (a - d) % e # a % e
<1> SUFFICES ASSUME (a - d) % e = a % e PROVE FALSE  OBVIOUS
<1>1. PICK q \in Nat, r \in 0..e - 1 : a = e * q + r /\ a % e = r
  <2>1. a \div e \in Nat /\ a % e \in 0..e - 1 /\ a = e * (a \div e) + (a % e)  BY Z3
  <2> QED  BY <2>1
<1>2. PICK p \in Nat : a - d = e * p + r
  <2>0. a - d \in Nat  OBVIOUS
  <2>1. (a - d) \div e \in Nat /\ a - d = e * ((a - d) \div e) + ((a - d) % e)  BY <2>0, Z3
  <2> QED  BY <1>1, <2>1
<1>3. CASE p >= q
  <2>1. e * q <= e * p  BY <1>3, Z3
  <2>2. e * q \in Nat /\ e * p \in Nat  BY Z3
  <2> QED  BY <1>1, <1>2, <2>1, <2>2
<1>4. CASE p < q
  <2>1. e * (p + 1) <= e * q  BY <1>4, Z3
  <2>2. e * (p + 1) = e * p + e  BY Z3
  <2>3. e * q \in Nat /\ e * p \in Nat  BY Z3
  <2> QED  BY <1>1, <1>2, <2>1, <2>2, <2>3
<1> QED  BY <1>3, <1>4

(* The warpgroups start with no tile done and nothing stored.              *)
LEMMA InitBuffers == ASSUME Init PROVE Buffers
<1>1. /\ launch \in Launches /\ wg = [w \in Consumers(launch) |-> WarpgroupInit]
      /\ stores = [w \in Consumers(launch) |-> <<>>]
  BY DEF Init
<1>2. Launched  BY <1>1 DEF Launched
<1>3. ASSUME NEW w \in DOMAIN wg PROVE Placed(w) /\ Queue(w)
  <2>1. wg[w] = WarpgroupInit /\ stores[w] = <<>>  BY <1>1, <1>3
  <2>2. wg[w].at = "start" /\ wg[w].tile = 1 /\ wg[w].executed = 0 /\ wg[w].sub = 0 /\ Fields \subseteq DOMAIN wg[w]
    BY <2>1 DEF WarpgroupInit, Fields
  <2>3. launch.subtiles \in Nat /\ launch.epiStages \in Nat \ {0}  BY <1>1, LaunchIs
  <2>4. Count(w) = 0  BY <2>2, <2>3 DEF Count, Writing
  <2>5. Len(stores[w]) = 0  BY <2>1
  <2>6. Placed(w)  BY <2>2 DEF Placed, Working, Writing, InEpilogue
  <2>7. Queue(w)  BY <2>1, <2>2, <2>3, <2>4, <2>5 DEF Queue, Drained, Run
  <2> QED  BY <2>6, <2>7
<1> QED  BY <1>2, <1>3 DEF Buffers

(* Going on to the next work counts it, and moves no further.              *)
LEMMA NextWorkIs ==
  ASSUME NEW me, Fields \subseteq DOMAIN me, NEW n
  PROVE  /\ DOMAIN NextWork(me, n) = DOMAIN me
         /\ NextWork(me, n).executed = me.executed + n /\ NextWork(me, n).sub = me.sub
         /\ NextWork(me, n).tile = me.tile /\ NextWork(me, n).at = me.at
BY DEF NextWork, Fields
(* Predicting moves the rings only.                                        *)
LEMMA PassPeerIs ==
  ASSUME NEW me, Fields \subseteq DOMAIN me, NEW t
  PROVE  /\ DOMAIN PassPeer(me, t) = DOMAIN me
         /\ PassPeer(me, t).executed = me.executed /\ PassPeer(me, t).sub = me.sub
         /\ PassPeer(me, t).tile = me.tile /\ PassPeer(me, t).at = me.at
BY DEF PassPeer, PassRings, Fields

(* The steps between tiles and in the main loop.                           *)
LEMMA ElsewhereStep ==
  ASSUME Shape, Buffers, NEW w \in DOMAIN wg,
         \/ Start(w) \/ Read(w) \/ ReadPeer(w) \/ MmaTurn(w) \/ MmaFeed(w) \/ MmaRetire(w)
         \/ MmaHandOver(w) \/ End(w)
  PROVE  Buffers'
<1> DEFINE Outside == {"start", "turn", "mma", "lastStage", "epiTurn", "read", "peer", "end", "done"}
           Same ==
             /\ launch' = launch /\ stores' = stores /\ DOMAIN wg' = DOMAIN wg
             /\ \A v \in DOMAIN wg : v # w => wg'[v] = wg[v]
             /\ DOMAIN wg'[w] = DOMAIN wg[w] /\ wg'[w].sub = wg[w].sub
             /\ wg[w].at \in Outside /\ wg'[w].at \in Outside /\ wg'[w].at \notin {"start", "peer"}
             /\ wg'[w].at \in Working => Valid(wg'[w].tile)
             /\ wg'[w].at = "done" => launch.pingpong \/ stores[w] = <<>>
             /\ \/ wg'[w].executed = wg[w].executed
                \/ launch.pingpong /\ wg'[w].executed = wg[w].executed + 1
<1>1. Placed(w) /\ launch \in Launches  BY DEF Buffers, Launched
<1>2. Fields \subseteq DOMAIN wg[w] /\ (wg[w].at = "start" => wg[w].tile = 1)
      /\ (wg[w].at = "peer" => launch.pingpong)
      /\ (wg[w].at \in Working => Valid(wg[w].tile))
  BY <1>1 DEF Placed
<1>3. w # 0 => launch.pingpong  BY DEF Shape, Consumers
<1>4. ASSUME Start(w) PROVE Same
  <2>1. CASE w = 0
    BY <1>2, <1>4, <2>1 DEF Start, Fields, Working, InEpilogue
  <2>2. CASE w # 0
    <3>1. PICK me : me = PassPeer(wg[w], 1)  OBVIOUS
    <3>2. PICK on : on = NextWork(me, 1)  OBVIOUS
    <3>3. DOMAIN on = DOMAIN wg[w] /\ on.executed = wg[w].executed + 1 /\ on.sub = wg[w].sub
      BY <1>2, <3>1, <3>2, PassPeerIs, NextWorkIs
    <3>4. \/ wg' = [wg EXCEPT ![w] = [wg[w] EXCEPT !.at = "end"]]
          \/ wg' = [wg EXCEPT ![w] = [on EXCEPT !.at = "read"]]
      BY <1>4, <2>2, <3>1, <3>2 DEF Start
    <3>5. launch' = launch /\ stores' = stores /\ wg[w].at = "start"  BY <1>4 DEF Start
    <3> QED  BY <1>2, <1>3, <2>2, <3>3, <3>4, <3>5 DEF Fields, Working, InEpilogue
  <2> QED  BY <2>1, <2>2
<1>5. ASSUME Read(w) PROVE Same  BY <1>2, <1>5 DEF Read, Fields, Working, InEpilogue
<1>6. ASSUME ReadPeer(w) PROVE Same
  <2>1. PICK me : me = [wg[w] EXCEPT !.slot = Advance(@, 1, Depth(slot)), !.tile = slot.data[wg[w].slot.index]]
    OBVIOUS
  <2>2. Fields \subseteq DOMAIN me /\ DOMAIN me = DOMAIN wg[w]
        /\ me.executed = wg[w].executed /\ me.sub = wg[w].sub
    BY <1>2, <2>1 DEF Fields
  <2>3. PICK on : on = PassPeer(me, slot.data[wg[w].slot.index])  OBVIOUS
  <2>4. PICK past : past = NextWork(on, 1)  OBVIOUS
  <2>5. DOMAIN past = DOMAIN wg[w] /\ past.executed = wg[w].executed + 1 /\ past.sub = wg[w].sub
    BY <2>2, <2>3, <2>4, PassPeerIs, NextWorkIs
  <2>6. \/ wg' = [wg EXCEPT ![w] = [me EXCEPT !.at = "end"]]
        \/ wg' = [wg EXCEPT ![w] = [past EXCEPT !.at = "read"]]
    BY <1>6, <2>1, <2>3, <2>4 DEF ReadPeer
  <2>7. launch' = launch /\ stores' = stores /\ wg[w].at = "peer"  BY <1>6 DEF ReadPeer
  <2> QED  BY <1>2, <2>2, <2>5, <2>6, <2>7 DEF Fields, Working, InEpilogue
<1>7. ASSUME MmaTurn(w) PROVE Same  BY <1>2, <1>7 DEF MmaTurn, Fields, Working, InEpilogue
<1>8. ASSUME MmaFeed(w) PROVE Same
  <2>1. PICK me : me = IF Steps(w)[wg[w].step].full THEN [wg[w] EXCEPT !.ab = Advance(@, 1, AbStages)] ELSE wg[w]
    OBVIOUS
  <2>2. DOMAIN me = DOMAIN wg[w] /\ me.executed = wg[w].executed /\ me.sub = wg[w].sub /\ me.tile = wg[w].tile
    BY <1>2, <2>1 DEF Fields
  <2>3. /\ wg' = [wg EXCEPT ![w] = StepDone(w, [wg[w] EXCEPT !.ab =
                   IF Steps(w)[wg[w].step].full THEN Advance(@, 1, AbStages) ELSE @], wg[w].at)]
        /\ launch' = launch /\ stores' = stores /\ wg[w].at \in {"mma", "lastStage"}
    BY <1>8 DEF MmaFeed, AtStep
  <2> QED  BY <1>2, <2>3 DEF StepDone, Fields, Working, InEpilogue
<1>9. ASSUME MmaRetire(w) PROVE Same
  <2>1. /\ wg' = [wg EXCEPT ![w] = StepDone(w, [wg[w] EXCEPT !.used =
                   IF Steps(w)[wg[w].step].release THEN Advance(@, 1, AbStages) ELSE @], wg[w].at)]
        /\ launch' = launch /\ stores' = stores /\ wg[w].at \in {"mma", "lastStage"}
    BY <1>9 DEF MmaRetire, AtStep
  <2> QED  BY <1>2, <2>1 DEF StepDone, Fields, Working, InEpilogue
<1>10. ASSUME MmaHandOver(w) PROVE Same
  BY <1>2, <1>10 DEF MmaHandOver, StepDone, Fields, Working, InEpilogue
<1>11. ASSUME End(w) PROVE Same  BY <1>2, <1>11 DEF End, MayExit, Fields, Working, InEpilogue
<1>12. Same  BY <1>4, <1>5, <1>6, <1>7, <1>8, <1>9, <1>10, <1>11
<1> HIDE DEF Same
<1>13. /\ Placed(w)' /\ Drained(w)' /\ Count(w)' \in Nat /\ wg'[w].at # "store"
       /\ Count(w)' = Count(w) \/ stores[w] = <<>>
       /\ wg'[w].at = "done" => stores[w] = <<>>
  <2> USE DEF Same
  <2>1. wg[w].executed \in Nat /\ wg[w].sub \in Nat  BY <1>1 DEF Placed
  <2>2. wg'[w].executed \in Nat /\ wg'[w].sub \in Nat  BY <1>12, <2>1
  <2>3. Placed(w)'  BY <1>2, <1>12, <2>2 DEF Placed, Writing, InEpilogue, Valid, N
  <2>4. Drained(w)  BY DEF Buffers, Queue
  <2>5. Drained(w)'  BY <1>12, <2>4 DEF Drained, InEpilogue
  <2>6. launch.subtiles \in Nat /\ launch'.subtiles = launch.subtiles  BY <1>1, <1>12, LaunchIs
  <2>7. Count(w) = wg[w].executed * launch.subtiles + 0 /\ Count(w)' = wg'[w].executed * launch.subtiles + 0
    BY <1>12, <2>6 DEF Count, Writing
  <2>8. wg'[w].executed * launch.subtiles \in Nat  BY <2>2, <2>6, Z3
  <2>9. wg'[w].executed = wg[w].executed \/ stores[w] = <<>>  BY <1>12, <2>4 DEF Drained, InEpilogue
  <2>10. wg'[w].at = "done" => stores[w] = <<>>  BY <1>12, <2>4 DEF Drained, InEpilogue
  <2> QED  BY <1>12, <2>3, <2>5, <2>7, <2>8, <2>9, <2>10
<1> QED  BY <1>12, <1>13, Waits DEF Same

(* The steps of the epilogue that store nothing.                           *)
LEMMA EpilogueStep ==
  ASSUME Shape, Buffers, NEW w \in DOMAIN wg,
         EpiTurn(w) \/ LoadC(w) \/ ReadC(w) \/ RefillC(w) \/ AcquireStore(w)
  PROVE  Buffers'
<1> DEFINE Same ==
             /\ launch' = launch /\ stores' = stores /\ DOMAIN wg' = DOMAIN wg
             /\ \A v \in DOMAIN wg : v # w => wg'[v] = wg[v]
             /\ DOMAIN wg'[w] = DOMAIN wg[w] /\ wg'[w].executed = wg[w].executed
             /\ wg'[w].tile = wg[w].tile
           Step(from, to, sub) == wg[w].at = from /\ wg'[w].at = to /\ wg'[w].sub = sub
           epi == Epilogue(wg[w].tile)
<1>1. Placed(w) /\ launch \in Launches /\ Queue(w)  BY DEF Buffers, Launched
<1>2. Fields \subseteq DOMAIN wg[w]  BY <1>1 DEF Placed
<1> DEFINE Opens == Step("epiTurn", IF epi THEN "loadC" ELSE "drain", 0)
           Fetches == Step("loadC", "readC", 0) \/ Step("loadC", "loadC", wg[w].sub + 1)
           Writes ==
             \/ \E from \in {"readC", "refillC"} : \E to \in {"refillC", "acquire"} : Step(from, to, wg[w].sub)
             \/ Step("acquire", "store", wg[w].sub) /\ Len(stores[w]) < launch.epiStages
<1>3. ASSUME EpiTurn(w) PROVE Same /\ Opens  BY <1>2, <1>3 DEF EpiTurn, Fields
<1>4. ASSUME LoadC(w) PROVE Same /\ Fetches  BY <1>2, <1>4 DEF LoadC, Fields
<1>5. ASSUME ReadC(w) PROVE Same /\ Writes  BY <1>2, <1>5 DEF ReadC, Fields
<1>6. ASSUME RefillC(w) PROVE Same /\ Writes  BY <1>2, <1>6 DEF RefillC, Fields
<1>7. ASSUME AcquireStore(w) PROVE Same /\ Writes  BY <1>2, <1>7 DEF AcquireStore, Fields
<1>8. Same /\ (Opens \/ Fetches \/ Writes)  BY <1>3, <1>4, <1>5, <1>6, <1>7
<1> HIDE DEF Opens, Fetches, Writes
<1>9. /\ launch.subtiles \in Nat \ {0} /\ wg[w].executed \in Nat /\ wg[w].sub \in Nat
      /\ Fields \subseteq DOMAIN wg'[w] /\ wg'[w].executed \in Nat
      /\ \A t : (Valid(t)' <=> Valid(t)) /\ Epilogue(t)' = Epilogue(t)
  BY <1>1, <1>2, <1>8, LaunchIs DEF Placed, Valid, N, Epilogue
<1>10. wg[w].executed * launch.subtiles \in Nat  BY <1>9, Z3
<1>11. CASE Opens
  <2>1. wg[w].at = "epiTurn" /\ wg'[w].at = (IF epi THEN "loadC" ELSE "drain") /\ wg'[w].sub = 0
    BY <1>11 DEF Opens
  <2>2. Placed(w)'  BY <1>1, <1>8, <1>9, <2>1 DEF Placed, Working, Writing, InEpilogue
  <2>3. Count(w)' = Count(w) /\ Count(w)' \in Nat  BY <1>8, <1>9, <1>10, <2>1 DEF Count, Writing
  <2>4. Drained(w)'  BY <1>1, <1>8, <1>9, <2>1 DEF Queue, Drained, InEpilogue
  <2> QED  BY <1>8, <2>1, <2>2, <2>3, <2>4, Waits DEF Writing
<1>12. CASE Fetches
  <2>1. /\ wg[w].at = "loadC" /\ wg'[w].at \in {"loadC", "readC"} /\ wg'[w].sub \in Nat
        /\ wg'[w].at = "readC" => wg'[w].sub = 0
    BY <1>9, <1>12 DEF Fetches
  <2>2. Placed(w)'  BY <1>1, <1>8, <1>9, <2>1 DEF Placed, Working, Writing, InEpilogue
  <2>3. Count(w)' = Count(w) /\ Count(w)' \in Nat  BY <1>8, <1>9, <1>10, <2>1 DEF Count, Writing
  <2>4. Drained(w)'  BY <1>1, <1>8, <1>9, <2>1 DEF Queue, Drained, InEpilogue
  <2> QED  BY <1>8, <2>1, <2>2, <2>3, <2>4, Waits DEF Writing
<1>13. CASE Writes
  <2>1. /\ wg[w].at \in Writing /\ wg'[w].at \in Writing /\ wg'[w].sub = wg[w].sub
        /\ wg'[w].at = "store" => Len(stores[w]) < launch.epiStages
    BY <1>13 DEF Writes, Writing
  <2>2. Placed(w)'  BY <1>1, <1>8, <1>9, <2>1 DEF Placed, Working, Writing, InEpilogue
  <2>3. Count(w)' = Count(w) /\ Count(w)' \in Nat  BY <1>8, <1>9, <1>10, <2>1 DEF Count, Writing
  <2>4. Drained(w)'  BY <1>1, <1>8, <1>9, <2>1 DEF Queue, Drained, InEpilogue, Writing
  <2> QED  BY <1>8, <2>1, <2>2, <2>3, <2>4, Waits DEF Writing
<1> QED  BY <1>8, <1>11, <1>12, <1>13

(* The next tile's numbers follow on where stores may still be in flight.  *)
LEMMA EndTileStep == ASSUME Shape, Buffers, NEW w \in DOMAIN wg, EndTile(w) PROVE Buffers'
<1>1. Placed(w) /\ launch \in Launches /\ Queue(w)  BY DEF Buffers, Launched
<1>2. Fields \subseteq DOMAIN wg[w] /\ wg[w].executed \in Nat /\ wg[w].at = "drain"
  BY <1>1 DEF Placed, EndTile
<1>3. /\ launch.subtiles \in Nat /\ launch.pingpong \in BOOLEAN /\ launch.split \in BOOLEAN
      /\ \A t : ~launch.split /\ Valid(t) => Epilogue(t)
      /\ SkipsPeer(launch) => launch.pingpong
  BY <1>1, LaunchIs
<1>4. PICK me : me = IF SkipsPeer(launch) THEN PassPeer(wg[w], wg[w].tile) ELSE wg[w]  OBVIOUS
<1>5. PICK on : on = NextWork(me, Stride(launch))  OBVIOUS
<1>6. Fields \subseteq DOMAIN me /\ DOMAIN me = DOMAIN wg[w] /\ me.executed = wg[w].executed
  BY <1>2, <1>4, PassPeerIs
<1>7. /\ DOMAIN on = DOMAIN wg[w] /\ on.executed = wg[w].executed + Stride(launch) /\ on.sub = me.sub
  BY <1>5, <1>6, NextWorkIs
<1>8. me.sub = wg[w].sub  BY <1>2, <1>4, PassPeerIs
<1>9. wg' = [wg EXCEPT ![w] = [on EXCEPT !.at =
         IF launch.pingpong /\ ~SkipsPeer(launch) THEN "peer" ELSE "read"]]
  BY <1>4, <1>5 DEF EndTile
<1>10. /\ launch' = launch /\ stores' = stores /\ DOMAIN wg' = DOMAIN wg
       /\ \A v \in DOMAIN wg : v # w => wg'[v] = wg[v]
       /\ DOMAIN wg'[w] = DOMAIN wg[w] /\ wg'[w].sub = wg[w].sub
       /\ wg'[w].executed = wg[w].executed + Stride(launch)
       /\ wg'[w].at \in {"read", "peer"} /\ (wg'[w].at = "peer" => launch.pingpong)
  BY <1>2, <1>7, <1>8, <1>9 DEF EndTile, Fields
<1>11. Stride(launch) \in Nat /\ (~launch.pingpong => Stride(launch) = 1)  BY <1>3 DEF Stride
<1>12. Placed(w)'  BY <1>1, <1>2, <1>10, <1>11 DEF Placed, Working, Writing, InEpilogue
<1>13. launch.pingpong \/ launch.split => stores[w] = <<>>
  <2>1. Epilogue(wg[w].tile) => (DrainsStores(wg[w].tile) <=> launch.pingpong \/ launch.split)
    BY DEF DrainsStores
  <2>2. DrainsStores(wg[w].tile) => stores[w] = <<>>  BY DEF EndTile
  <2> QED  BY <1>1, <1>2, <2>1, <2>2 DEF Queue, Drained
<1>14. Drained(w)'  BY <1>10, <1>13 DEF Drained
<1>15. Count(w)' = (wg[w].executed + Stride(launch)) * launch.subtiles + 0
  BY <1>10 DEF Count, Writing
<1>16. (wg[w].executed + Stride(launch)) * launch.subtiles \in Nat  BY <1>2, <1>3, <1>11, Z3
<1>17. Count(w)' = Count(w) \/ stores[w] = <<>>
  <2> SUFFICES ASSUME ~launch.pingpong, ~launch.split PROVE Count(w)' = Count(w)  BY <1>13
  <2>1. Valid(wg[w].tile)  BY <1>1, <1>2 DEF Placed, Working, InEpilogue
  <2>2. wg[w].sub = launch.subtiles  BY <1>1, <1>2, <1>3, <2>1 DEF Placed
  <2>3. Count(w) = wg[w].executed * launch.subtiles + launch.subtiles  BY <1>2, <2>2 DEF Count
  <2>4. (wg[w].executed + 1) * launch.subtiles = wg[w].executed * launch.subtiles + launch.subtiles
    BY <1>2, <1>3, Z3
  <2>5. Stride(launch) = 1  BY <1>11
  <2>6. Count(w)' = (wg[w].executed + 1) * launch.subtiles  BY <1>15, <1>16, <2>5
  <2> QED  BY <2>3, <2>4, <2>6
<1>18. Count(w)' \in Nat /\ wg'[w].at \notin {"store", "done"}  BY <1>10, <1>15, <1>16
<1> QED  BY <1>10, <1>12, <1>14, <1>17, <1>18, Waits

(* A warpgroup that stores takes the next number's buffer, and only it.    *)
LEMMA StoreStep == ASSUME Shape, Buffers, NEW w \in DOMAIN wg, Store(w) PROVE Buffers'
<1>1. Placed(w) /\ launch \in Launches /\ Queue(w) /\ stores \in [DOMAIN wg -> Seq(Int)]
  BY DEF Buffers, Launched, Shape
<1>2. Fields \subseteq DOMAIN wg[w] /\ wg[w].executed \in Nat /\ wg[w].sub \in Nat
      /\ wg[w].at = "store" /\ wg[w].sub < launch.subtiles /\ Len(stores[w]) < launch.epiStages
      /\ Valid(wg[w].tile) /\ Epilogue(wg[w].tile)
  BY <1>1 DEF Placed, Store, Queue, Writing, Working, InEpilogue
<1>3. launch.subtiles \in Nat \ {0} /\ launch.epiStages \in Nat \ {0}  BY <1>1, LaunchIs
<1>4. /\ launch' = launch /\ DOMAIN wg' = DOMAIN wg
      /\ \A v \in DOMAIN wg : v # w => wg'[v] = wg[v] /\ stores'[v] = stores[v]
      /\ DOMAIN wg'[w] = DOMAIN wg[w] /\ wg'[w].executed = wg[w].executed
      /\ wg'[w].tile = wg[w].tile /\ wg'[w].sub = wg[w].sub + 1
      /\ wg'[w].at = (IF wg[w].sub + 1 < launch.subtiles THEN "readC" ELSE "drain")
      /\ DOMAIN stores' = DOMAIN stores /\ stores'[w] = Append(stores[w], Buffer(wg[w]))
  BY <1>1, <1>2 DEF Store, Fields
<1>5. wg[w].executed * launch.subtiles \in Nat  BY <1>2, <1>3, Z3
<1>6. Count(w) = wg[w].executed * launch.subtiles + wg[w].sub /\ Count(w) \in Nat
  BY <1>2, <1>5 DEF Count, Writing
<1>7. Count(w)' = Count(w) + 1  BY <1>2, <1>4, <1>5, <1>6 DEF Count, Writing
<1>8. Buffer(wg[w]) = Count(w) % launch.epiStages  BY <1>6 DEF Buffer
<1>9. Buffer(wg[w]) \in Int  BY <1>3, <1>6, <1>8, Z3
<1>10. \A t : (Valid(t)' <=> Valid(t)) /\ Epilogue(t)' = Epilogue(t)
  BY <1>4 DEF Valid, N, Epilogue
<1>11. Placed(w)'
  BY <1>1, <1>2, <1>3, <1>4, <1>10 DEF Placed, Working, Writing, InEpilogue
<1>12. Drained(w)'
  BY <1>2, <1>4, <1>10 DEF Drained, InEpilogue
<1>13. Run(w)'
  <2>1. stores[w] \in Seq(Int) /\ Len(stores[w]) \in Nat  BY <1>1
  <2>2. Len(stores'[w]) = Len(stores[w]) + 1  BY <1>4, <1>9, <2>1
  <2>3. Len(stores[w]) <= Count(w)  BY <1>1 DEF Queue, Run
  <2>4. ASSUME NEW i \in 1..Len(stores'[w])
        PROVE  stores'[w][i] = (Count(w)' - Len(stores'[w]) + i - 1) % launch.epiStages
    <3>0. PICK n \in Nat, m \in Nat : n = Count(w) /\ m = Len(stores[w])  BY <1>6, <2>1
    <3>1. Count(w)' - Len(stores'[w]) + i - 1 = Count(w) - Len(stores[w]) + i - 1
      <4>1. Count(w)' = n + 1 /\ Len(stores'[w]) = m + 1  BY <1>7, <2>2, <3>0
      <4>2. i \in Int  BY <4>1
      <4>3. (n + 1) - (m + 1) + i - 1 = n - m + i - 1  BY <4>2
      <4> QED  BY <3>0, <4>1, <4>3
    <3>2. CASE i <= Len(stores[w])
      <4>1. i \in 1..Len(stores[w])  BY <2>1, <2>2, <3>2
      <4>2. stores'[w][i] = stores[w][i]  BY <1>4, <1>9, <2>1, <4>1
      <4> QED  BY <1>1, <3>1, <4>1, <4>2 DEF Queue, Run
    <3>3. CASE i > Len(stores[w])
      <4>1. i = Len(stores[w]) + 1  BY <2>1, <2>2, <3>3
      <4>2. stores'[w][i] = Buffer(wg[w])  BY <1>4, <1>9, <2>1, <4>1
      <4>3. Count(w)' - Len(stores'[w]) + i - 1 = Count(w)  BY <1>6, <2>1, <3>1, <4>1
      <4> QED  BY <1>8, <4>2, <4>3
    <3> QED  BY <2>1, <2>2, <3>2, <3>3
  <2>5. Len(stores'[w]) <= launch.epiStages /\ Len(stores'[w]) <= Count(w)'
    BY <1>2, <1>3, <1>6, <1>7, <2>1, <2>2, <2>3
  <2> QED  BY <1>4, <2>4, <2>5 DEF Run
<1>14. Queue(w)'  BY <1>4, <1>12, <1>13 DEF Queue
<1>15. Launched'
  <2>1. stores' = [stores EXCEPT ![w] = Append(@, Buffer(wg[w]))]  BY DEF Store
  <2>2. stores' \in [DOMAIN wg -> Seq(Int)]  BY <1>1, <1>9, <2>1
  <2> QED  BY <1>1, <1>4, <2>2 DEF Launched, Shape
<1>16. ASSUME NEW v \in DOMAIN wg, v # w PROVE Placed(v)' /\ Queue(v)'
  BY <1>4, <1>16, Others DEF Buffers
<1> QED  BY <1>4, <1>11, <1>14, <1>15, <1>16 DEF Buffers

(* A store that retires is the oldest.                                     *)
LEMMA RetireStep == ASSUME Shape, Buffers, NEW w \in DOMAIN wg, StoreRetires(w) PROVE Buffers'
<1>1. Placed(w) /\ launch \in Launches /\ Queue(w) /\ stores \in [DOMAIN wg -> Seq(Int)]
  BY DEF Buffers, Launched, Shape
<1>2. /\ stores[w] # <<>> /\ launch' = launch /\ wg' = wg
      /\ stores' = [stores EXCEPT ![w] = Tail(@)]
  BY DEF StoreRetires
<1>3. launch.subtiles \in Nat \ {0} /\ launch.epiStages \in Nat \ {0}  BY <1>1, LaunchIs
<1>4. stores'[w] = Tail(stores[w]) /\ \A v \in DOMAIN wg : v # w => stores'[v] = stores[v]
  BY <1>1, <1>2
<1>5. PICK s \in Seq(Int) : s = stores[w]  BY <1>1
<1>6. /\ Len(s) \in Nat \ {0} /\ Tail(s) \in Seq(Int) /\ Len(Tail(s)) = Len(s) - 1
      /\ \A i \in 1..Len(s) - 1 : Tail(s)[i] = s[i + 1]
  <2>1. s # <<>>  BY <1>2, <1>5
  <2> QED  BY <2>1
<1>7. Count(w)' = Count(w) /\ Count(w) \in Nat
  <2>1. wg[w].executed \in Nat /\ wg[w].sub \in Nat  BY <1>1 DEF Placed
  <2>2. wg[w].executed * launch.subtiles \in Nat  BY <1>3, <2>1, Z3
  <2> QED  BY <1>2, <2>1, <2>2 DEF Count
<1>8. Placed(w)'  BY <1>1, <1>2 DEF Placed, Valid, N, Epilogue
<1>9. Drained(w)'  BY <1>1, <1>2 DEF Queue, Drained, Epilogue
<1>10. Run(w)'
  <2>1. /\ Len(s) <= launch.epiStages /\ Len(s) <= Count(w)
        /\ \A i \in 1..Len(s) : s[i] = (Count(w) - Len(s) + i - 1) % launch.epiStages
    BY <1>1, <1>5 DEF Queue, Run
  <2>2. ASSUME NEW i \in 1..Len(Tail(s))
        PROVE  Tail(s)[i] = (Count(w) - Len(Tail(s)) + i - 1) % launch.epiStages
    <3>1. i + 1 \in 1..Len(s) /\ Tail(s)[i] = s[i + 1]  BY <1>6
    <3>2. Count(w) - Len(s) + (i + 1) - 1 = Count(w) - Len(Tail(s)) + i - 1  BY <1>6, <1>7
    <3> QED  BY <2>1, <3>1, <3>2
  <2>3. Len(Tail(s)) <= launch.epiStages /\ Len(Tail(s)) <= Count(w)  BY <1>3, <1>6, <1>7, <2>1
  <2> QED  BY <1>2, <1>4, <1>5, <1>7, <2>2, <2>3 DEF Run
<1>11. Queue(w)'  BY <1>1, <1>2, <1>3, <1>4, <1>5, <1>6, <1>9, <1>10 DEF Queue
<1>12. Launched'  BY <1>1, <1>2, <1>5, <1>6 DEF Launched, Shape
<1>13. ASSUME NEW v \in DOMAIN wg, v # w PROVE Placed(v)' /\ Queue(v)'
  BY <1>2, <1>4, <1>13, Others DEF Buffers
<1> QED  BY <1>2, <1>8, <1>11, <1>12, <1>13 DEF Buffers

(* The numbering, the placement and the drains hold throughout.            *)
LEMMA NextBuffers == IInv /\ Buffers /\ [Next]_vars => Buffers'
<1> SUFFICES ASSUME IInv, Buffers, [Next]_vars PROVE Buffers'  OBVIOUS
<1>1. Shape  BY DEF IInv
<1>2. ASSUME UNCHANGED <<launch, wg, stores>> PROVE Buffers'
  <2>1. ASSUME NEW v \in DOMAIN wg PROVE Placed(v)' /\ Queue(v)'
    BY <1>2, <2>1, Others DEF Buffers
  <2> QED  BY <1>2, <2>1 DEF Buffers, Launched
<1>3. ASSUME LoadNext \/ Land PROVE UNCHANGED <<launch, wg, stores>>
  BY <1>3 DEF LoadNext, LoadKTile, LoadAdvance, LoadRead, LoadReads, LoadLoopEnds, LoadExtra,
              LoadExtraRead, LoadTails, Land
<1>4. ASSUME NEW w \in DOMAIN wg, WarpgroupNext(w) PROVE Buffers'
  BY <1>1, <1>4, ElsewhereStep, EpilogueStep, StoreStep, EndTileStep DEF WarpgroupNext
<1>5. ASSUME NEW w \in DOMAIN wg, StoreRetires(w) PROVE Buffers'
  BY <1>1, <1>5, RetireStep
<1> QED  BY <1>2, <1>3, <1>4, <1>5 DEF Next, vars

(* An epilogue writes a subtile to no buffer that a TMA store still reads: *)
(* its own stores in flight are of the subtiles just before, fewer than    *)
(* there are buffers, and a peer drained its stores before the turn came   *)
(* over.  And a consumer leaves only when its stores are done: by          *)
(* producer_tail at its end or, with two warpgroups, by the drain of each  *)
(* tile.  (Epilogue.store_tile, the epilogue_barrier and producer_tail.)   *)
THEOREM StoresDoNotCollide == Spec => []StoreBufferFree
<1>1. IInv /\ Buffers => StoreBufferFree
  <2>0. ASSUME Buffers, NEW w \in DOMAIN wg, wg[w].at = "done" PROVE stores[w] = <<>>
    BY <2>0 DEF Buffers, Queue
  <2> SUFFICES ASSUME IInv, Buffers, NEW w \in DOMAIN wg, wg[w].at = "store",
                      NEW v \in DOMAIN wg, NEW i \in DOMAIN stores[v]
               PROVE  stores[v][i] # Buffer(wg[w])
    BY <2>0 DEF StoreBufferFree
  <2>1. /\ stores[v] \in Seq(Int) /\ Placed(w) /\ Queue(w) /\ Queue(v) /\ launch \in Launches
    BY DEF IInv, Shape, Buffers, Launched
  <2>2. launch.epiStages \in Nat \ {0} /\ launch.subtiles \in Nat \ {0}  BY <2>1, LaunchIs
  <2>3. DOMAIN stores[v] = 1..Len(stores[v]) /\ Len(stores[v]) \in Nat  BY <2>1
  <2>4. CASE v = w
    <3>1. wg[w].executed \in Nat /\ wg[w].sub \in Nat  BY <2>1 DEF Placed
    <3>2. wg[w].executed * launch.subtiles \in Nat  BY <2>2, <3>1, Z3
    <3>3. Count(w) = wg[w].executed * launch.subtiles + wg[w].sub /\ Count(w) \in Nat
      BY <3>1, <3>2 DEF Count, Writing
    <3>4. Buffer(wg[w]) = Count(w) % launch.epiStages  BY <3>3 DEF Buffer
    <3>5. /\ Len(stores[w]) < launch.epiStages /\ Len(stores[w]) <= Count(w)
          /\ stores[w][i] = (Count(w) - Len(stores[w]) + i - 1) % launch.epiStages
      BY <2>1, <2>3, <2>4 DEF Queue, Run
    <3>6. PICK d \in Int : d = Len(stores[w]) - i + 1  BY <2>3, <2>4
    <3>7. d \in 1..launch.epiStages - 1 /\ d <= Count(w)
          /\ Count(w) - Len(stores[w]) + i - 1 = Count(w) - d
      <4>1. PICK n \in Nat, m \in Nat : n = Count(w) /\ m = Len(stores[w])
        BY <2>3, <2>4, <3>3
      <4>2. i \in 1..m /\ d = m - i + 1 /\ m < launch.epiStages /\ m <= n
        BY <2>3, <2>4, <3>5, <3>6, <4>1
      <4>3. d \in 1..launch.epiStages - 1 /\ d <= n /\ n - m + i - 1 = n - d  BY <2>2, <4>2
      <4> QED  BY <4>1, <4>3
    <3>8. (Count(w) - d) % launch.epiStages # Count(w) % launch.epiStages
      BY <2>2, <3>3, <3>7, Apart
    <3> QED  BY <2>4, <3>4, <3>5, <3>7, <3>8
  <2>5. CASE v # w
    <3>1. launch.pingpong  BY <2>5 DEF IInv, Shape, Consumers
    <3>2. wg[v].at \notin InEpilogue
      BY <2>5, TurnsApart DEF TakeTurns, InEpilogue
    <3>3. stores[v] = <<>>  BY <2>1, <3>1, <3>2 DEF Queue, Drained
    <3> QED  BY <2>3, <3>3
  <2> QED  BY <2>4, <2>5
<1>2. Init => IInv /\ Buffers  BY InitIInv, InitBuffers
<1>3. IInv /\ Buffers /\ [Next]_vars => (IInv /\ Buffers)'  BY NextIInv, NextBuffers
<1> QED  BY <1>1, <1>2, <1>3, PTL DEF Spec

-----------------------------------------------------------------------------
(* The slots that carry the tiles.                                         *)

SlotDepth == IF launch.pingpong THEN 2 ELSE 1
(* A consumer's ring state after n slots.                                  *)
SlotAt(n) == [index |-> n % SlotDepth, phase |-> (n \div SlotDepth) % 2]

(* How many slots the load warp has written, and read again; slot n brings *)
(* the tile after the n that came before, or the invalid one.              *)
Written ==
  CASE load.at = "tile" -> load.tile - 1
    [] load.at = "read" -> load.tile
    [] load.at = "extra" -> N
    [] load.at = "extraRead" -> N + 1
    [] OTHER -> IF SkipsPeer(launch) THEN N + 1 ELSE N
LoadsRead == IF load.at \in {"read", "extraRead"} THEN Written - 1 ELSE Written
TileIn(n) == IF n < N THEN n + 2 ELSE N + 1

(* The next slot of a warpgroup: a skipped one is counted as its tile      *)
(* ends.  The second warpgroup reads before its first tile.                *)
First(w) == w = 1 /\ wg[w].tile = 1
Left(w) == wg[w].at \in {"end", "done"}
Position(w) ==
  IF SkipsPeer(launch) /\ wg[w].at = "read" /\ ~First(w) THEN wg[w].tile ELSE wg[w].tile - 1
Mine(w, n) == SkipsPeer(launch) => n % 2 = 1 - w
HasRead(w, n) == w \in DOMAIN wg /\ Mine(w, n) /\ (Left(w) \/ n < Position(w))
One(p) == IF p THEN 1 ELSE 0
Readers(n) == One(n < LoadsRead) + One(HasRead(0, n)) + One(HasRead(1, n))

(* The barriers of the last slots written, one for each stage (before the  *)
(* first round a stage is as if a slot before 0 had been read), and no     *)
(* slot is written over that one of its readers has not read.              *)
Live == Written - SlotDepth..Written - 1
BarrierAt(n, done, count) ==
  [parity |-> (n \div SlotDepth + (IF done THEN 1 ELSE 0)) % 2, arrived |-> IF done THEN 0 ELSE count]
Slotted(n) ==
  /\ n >= 0 => slot.data[n % SlotDepth] = TileIn(n)
  /\ slot.full[n % SlotDepth] = BarrierAt(n, TRUE, 0)
  /\ slot.empty[n % SlotDepth] = BarrierAt(n, Readers(n) = SlotReaders(launch), Readers(n))
Bar == [parity : Int, arrived : Int]
SlotRing ==
  /\ slot \in [data : [0..SlotDepth - 1 -> Int], full : [0..SlotDepth - 1 -> Bar],
               empty : [0..SlotDepth - 1 -> Bar]]
  /\ \A n \in Live : Slotted(n)
  /\ \A w \in DOMAIN wg, n \in Nat : Mine(w, n) /\ n < Written - SlotDepth => HasRead(w, n)

LoadSlots ==
  /\ load.at \in {"tile", "read", "extra", "extraRead", "abTail", "slotTail", "done"}
  /\ {"at", "tile", "k", "ab", "slot"} \subseteq DOMAIN load
  /\ load.tile \in 1..N + 1
  /\ load.at = "read" => load.tile <= N
  /\ load.at \notin {"tile", "read"} => load.tile = N + 1
  /\ load.at \in {"extra", "extraRead"} => SkipsPeer(launch)
  /\ load.slot = SlotAt(LoadsRead)

(* The first warpgroup works the odd tiles, the second the even ones; one  *)
(* that reads every slot stands between tiles at a tile of its peer.       *)
AtTiles(w) ==
  /\ wg[w].at \in {"start", "read", "peer", "end", "done"} \cup Working
  /\ wg[w].tile \in 1..N + 1 /\ wg[w].tile - 1 <= Written
  /\ ~Left(w) => wg[w].slot = SlotAt(Position(w))
  /\ wg[w].at = "start" => wg[w].tile = 1
  /\ wg[w].at \in Working \cup {"peer"} =>
       wg[w].tile <= N /\ (launch.pingpong => wg[w].tile % 2 = 1 - w)
  /\ wg[w].at = "peer" => launch.pingpong /\ ~SkipsPeer(launch)
  /\ wg[w].at = "read" =>
       /\ First(w) \/ wg[w].tile <= N
       /\ ~SkipsPeer(launch) => 1 <= N
       /\ SkipsPeer(launch) => First(w) \/ wg[w].tile % 2 = 1 - w
       /\ launch.pingpong /\ ~SkipsPeer(launch) => wg[w].tile % 2 = w
  /\ Left(w) =>
       wg[w].tile = N + 1 /\ (SkipsPeer(launch) /\ Written <= N => ~Mine(w, N))

Owner(t) == IF launch.pingpong THEN 1 - (t % 2) ELSE 0
Done(w, t) ==
  Left(w) \/ wg[w].tile > t \/ (wg[w].tile = t /\ wg[w].at \in {"read", "peer"})
RanOnce == ran = [t \in 1..N |-> One(Done(Owner(t), t))]

Slots == LoadSlots /\ SlotRing /\ (\A w \in DOMAIN wg : AtTiles(w)) /\ RanOnce

-----------------------------------------------------------------------------
(* Rounds of a ring of one or two stages.                                  *)
LEMMA Rounds ==
  ASSUME NEW d \in {1, 2}, NEW n \in Int
  PROVE  /\ n % d \in 0..d - 1 /\ n \div d \in Int
         /\ (n + d) % d = n % d /\ (n + d) \div d = n \div d + 1
         /\ (n - d) % d = n % d /\ (n - d) \div d = n \div d - 1
         /\ ((n % d) + 1) % d = (n + 1) % d
         /\ (((n \div d) % 2) + ((n % d) + 1) \div d) % 2 = ((n + 1) \div d) % 2
         /\ n \in 0..d - 1 => n % d = n /\ n \div d = 0
<1>1. CASE d = 1  BY <1>1, Z3
<1>2. CASE d = 2  BY <1>2, Z3
<1> QED  BY <1>1, <1>2
LEMMA SameStage ==
  ASSUME NEW d \in {1, 2}, NEW n \in Int, NEW m \in Int, n % d = m % d, n - m < d, m - n < d
  PROVE  n = m
<1>1. CASE d = 1  BY <1>1, Z3
<1>2. CASE d = 2  BY <1>2, Z3
<1> QED  BY <1>1, <1>2
LEMMA Parities ==
  ASSUME NEW q \in Int
  PROVE  /\ q % 2 \in {0, 1} /\ (q + 1) % 2 = 1 - (q % 2) /\ (q - 1) % 2 = 1 - (q % 2)
         /\ (q + 2) % 2 = q % 2 /\ (q - 2) % 2 = q % 2
BY Z3

(* What a launch says of its slots.                                        *)
LEMMA SlotLaunch ==
  ASSUME launch \in Launches, DOMAIN wg = Consumers(launch)
  PROVE  /\ N \in Nat /\ SlotDepth \in {1, 2} /\ launch.pingpong \in BOOLEAN
         /\ SkipsPeer(launch) \in BOOLEAN /\ (SkipsPeer(launch) => launch.pingpong)
         /\ DOMAIN wg = (IF launch.pingpong THEN {0, 1} ELSE {0})
         /\ SlotDepth = (IF launch.pingpong THEN 2 ELSE 1)
         /\ SlotReaders(launch) = (IF launch.pingpong /\ ~SkipsPeer(launch) THEN 3 ELSE 2)
         /\ ~SkipsPeer(launch) /\ launch.pingpong /\ ~Sm120(launch) => N >= 1
<1>1. /\ launch \in LaunchType /\ (launch.dynamic /\ ~Sm120(launch) => launch.work # <<>>)
      /\ (launch.clc => Sm120(launch))
  BY LaunchesAssumption
<1>2. N \in Nat /\ launch.pingpong \in BOOLEAN  BY <1>1 DEF LaunchType, N
<1>3. Cardinality({0}) = 1 /\ Cardinality({0, 1}) = 2
  <2>1. IsFiniteSet({0}) /\ Cardinality({0}) = 1  BY FS_Singleton
  <2>2. {0, 1} = {0} \cup {1} /\ 1 \notin {0}  OBVIOUS
  <2> QED  BY <2>1, <2>2, FS_AddElement
<1>4. ASSUME ~SkipsPeer(launch), launch.pingpong, ~Sm120(launch) PROVE N >= 1
  <2>1. launch.work # <<>>  BY <1>1, <1>4 DEF SkipsPeer, LaunchType
  <2>2. launch.work \in Seq([k : Nat, epilogue : BOOLEAN])  BY <1>1 DEF LaunchType
  <2> QED  BY <2>1, <2>2 DEF N
<1> QED  BY <1>2, <1>3, <1>4 DEF SlotDepth, SkipsPeer, SlotReaders, Consumers

LEMMA DepthIs ==
  ASSUME launch \in Launches, DOMAIN wg = Consumers(launch), SlotRing
  PROVE  Depth(slot) = SlotDepth
<1>1. DOMAIN slot.data = 0..SlotDepth - 1  BY DEF SlotRing
<1>2. SlotDepth \in {1, 2}  BY SlotLaunch
<1>3. Cardinality(0..SlotDepth - 1) = SlotDepth  BY <1>2, FS_Interval
<1> QED  BY <1>1, <1>3 DEF Depth

(* A ring state one slot on.                                               *)
LEMMA SlotOn ==
  ASSUME SlotDepth \in {1, 2}, NEW n \in Int
  PROVE  /\ Advance(SlotAt(n), 1, SlotDepth) = SlotAt(n + 1)
         /\ Advance(SlotAt(n), 0, SlotDepth) = SlotAt(n)
         /\ SlotAt(n).index \in 0..SlotDepth - 1 /\ SlotAt(n).phase \in {0, 1}
<1> DEFINE d == SlotDepth  i == n % d  q == n \div d
<1>1. /\ i \in 0..d - 1 /\ q \in Int /\ (i + 1) % d = (n + 1) % d
      /\ ((q % 2) + (i + 1) \div d) % 2 = ((n + 1) \div d) % 2
  BY Rounds
<1>2. q % 2 \in {0, 1} /\ (q % 2) % 2 = q % 2
  <2>1. q \in Int  BY <1>1
  <2> HIDE DEF q
  <2> QED  BY <2>1, Parities, Z3
<1>3. i % d = i /\ i \div d = 0  BY <1>1, Rounds
<1> HIDE DEF i, q
<1>4. (i + 0) % d = i /\ ((q % 2) + (i + 0) \div d) % 2 = q % 2
  BY <1>1, <1>2, <1>3
<1>5. SlotAt(n) = [index |-> i, phase |-> q % 2]  BY DEF SlotAt, i, q
<1> QED  BY <1>1, <1>2, <1>4, <1>5 DEF Advance, SlotAt, i, q

(* Nobody reads twice, and a slot is read up when each of its readers has. *)
LEMMA ReadersAre ==
  ASSUME launch \in Launches, DOMAIN wg = Consumers(launch), NEW n \in Int
  PROVE  /\ Readers(n) \in 0..SlotReaders(launch)
         /\ (n < LoadsRead) /\ (\A w \in DOMAIN wg : Mine(w, n) => HasRead(w, n))
              <=> Readers(n) = SlotReaders(launch)
<1>1. n % 2 \in {0, 1}  BY Rounds
<1> QED  BY <1>1, SlotLaunch DEF Readers, One, HasRead, Mine

(* The ring while nobody touches it ...                                    *)
LEMMA RingKept ==
  ASSUME SlotRing, launch' = launch, slot' = slot, DOMAIN wg' = DOMAIN wg,
         Written' = Written, LoadsRead' = LoadsRead,
         \A w \in DOMAIN wg, n \in Int : n < Written => (HasRead(w, n)' <=> HasRead(w, n)),
         Written \in Int, SlotDepth \in {1, 2}
  PROVE  SlotRing'
<1>1. SlotDepth' = SlotDepth /\ Live' = Live /\ N' = N /\ SlotReaders(launch)' = SlotReaders(launch)
  BY DEF SlotDepth, Live, N, SlotReaders, SkipsPeer, Consumers
<1>2. ASSUME NEW n \in Int, n < Written
      PROVE  /\ Readers(n)' = Readers(n) /\ TileIn(n)' = TileIn(n)
             /\ \A done, count : BarrierAt(n, done, count)' = BarrierAt(n, done, count)
  BY <1>1, <1>2 DEF Readers, HasRead, TileIn, BarrierAt
<1>3. ASSUME NEW n \in Live' PROVE Slotted(n)'
  <2>1. n \in Live /\ n \in Int /\ n < Written  BY <1>1, <1>3 DEF Live
  <2>2. Slotted(n)  BY <2>1 DEF SlotRing
  <2> QED  BY <1>1, <1>2, <2>1, <2>2 DEF Slotted, BarrierAt
<1>4. ASSUME NEW w \in DOMAIN wg', NEW n \in Nat, Mine(w, n)', n < Written' - SlotDepth'
      PROVE  HasRead(w, n)'
  BY <1>1, <1>4 DEF SlotRing, Mine
<1> QED  BY <1>1, <1>3, <1>4 DEF SlotRing

(* ... when one more reader has read slot p ...                            *)
LEMMA RingRead ==
  ASSUME SlotRing, launch' = launch, DOMAIN wg' = DOMAIN wg, launch \in Launches,
         DOMAIN wg = Consumers(launch), Written' = Written, Written \in Int,
         NEW p \in Live, slot' = Release(slot, SlotAt(p), SlotReaders(launch)),
         \A n \in Live : Readers(n)' = Readers(n) + One(n = p),
         \A w \in DOMAIN wg, n \in Int : HasRead(w, n) => HasRead(w, n)'
  PROVE  SlotRing'
<1>0. SlotDepth \in {1, 2} /\ N \in Nat /\ SlotReaders(launch) \in {2, 3}  BY SlotLaunch
<1>1. /\ SlotDepth' = SlotDepth /\ Live' = Live /\ N' = N
      /\ SlotReaders(launch)' = SlotReaders(launch)
  BY DEF SlotDepth, Live, N, SlotReaders, SkipsPeer, Consumers
<1>2. ASSUME NEW n \in Int
      PROVE  /\ TileIn(n)' = TileIn(n)
             /\ \A done, count : BarrierAt(n, done, count)' = BarrierAt(n, done, count)
  BY <1>1, <1>2 DEF TileIn, BarrierAt
<1>3. p \in Int /\ p % SlotDepth \in 0..SlotDepth - 1 /\ p \div SlotDepth \in Int
  BY <1>0, Rounds DEF Live
<1>4. /\ slot'.data = slot.data /\ slot'.full = slot.full
      /\ slot'.empty = [slot.empty EXCEPT ![p % SlotDepth] = Arrive(@, SlotReaders(launch))]
      /\ slot' = [data |-> slot'.data, full |-> slot'.full, empty |-> slot'.empty]
  BY DEF Release, SlotAt, SlotRing
<1>5. Readers(p)' = Readers(p) + 1 /\ Readers(p)' \in 0..SlotReaders(launch) /\ Readers(p) \in Nat
  <2>1. Readers(p) \in 0..SlotReaders(launch)  BY <1>3, ReadersAre
  <2>2. Readers(p)' \in 0..SlotReaders(launch)
    <3>2. Readers(p)' = One(p < LoadsRead') + One(HasRead(0, p)') + One(HasRead(1, p)')
      BY DEF Readers, One
    <3>3. p % 2 \in {0, 1}  BY <1>3, Rounds
    <3>4. \A w \in {0, 1} : HasRead(w, p)' => w \in DOMAIN wg /\ Mine(w, p)
      BY DEF HasRead, Mine
    <3> QED  BY <3>2, <3>3, <3>4, SlotLaunch DEF One, Mine
  <2> QED  BY <1>3, <2>1, <2>2 DEF One
<1>6. Slotted(p)'
  <2>1. Slotted(p)  BY DEF SlotRing
  <2>2. slot.empty[p % SlotDepth] = BarrierAt(p, FALSE, Readers(p))
    BY <1>0, <1>5, <2>1 DEF Slotted, BarrierAt
  <2>3. slot'.empty[p % SlotDepth] = Arrive(BarrierAt(p, FALSE, Readers(p)), SlotReaders(launch))
    BY <1>3, <1>4, <2>2 DEF SlotRing
  <2>4. (p \div SlotDepth + 1) % 2 = 1 - ((p \div SlotDepth + 0) % 2)  BY <1>3, Parities
  <2>5. Arrive(BarrierAt(p, FALSE, Readers(p)), SlotReaders(launch))
          = BarrierAt(p, Readers(p)' = SlotReaders(launch), Readers(p)')
    BY <1>0, <1>5, <2>4 DEF Arrive, BarrierAt
  <2> QED  BY <1>1, <1>2, <1>3, <1>4, <2>1, <2>3, <2>5 DEF Slotted, BarrierAt
<1>7. ASSUME NEW n \in Live', n # p PROVE Slotted(n)'
  <2>1. n \in Live /\ n \in Int  BY <1>1, <1>7 DEF Live
  <2>2. Slotted(n)  BY <2>1 DEF SlotRing
  <2>3. n % SlotDepth # p % SlotDepth
    <3>1. n - p < SlotDepth /\ p - n < SlotDepth  BY <1>0, <1>3, <2>1 DEF Live
    <3> QED  BY <1>0, <1>3, <1>7, <2>1, <3>1, SameStage
  <2>4. Readers(n)' = Readers(n)
    <3>1. Readers(n) \in Int  BY <2>1, ReadersAre
    <3> QED  BY <1>7, <2>1, <3>1 DEF One
  <2>5. n % SlotDepth \in 0..SlotDepth - 1  BY <1>0, <2>1, Rounds
  <2>6. slot'.empty[n % SlotDepth] = slot.empty[n % SlotDepth]
    BY <1>3, <1>4, <2>3, <2>5 DEF SlotRing
  <2> QED  BY <1>1, <1>2, <1>4, <2>1, <2>2, <2>4, <2>6 DEF Slotted, BarrierAt
<1>8. ASSUME NEW w \in DOMAIN wg', NEW n \in Nat, Mine(w, n)', n < Written' - SlotDepth'
      PROVE  HasRead(w, n)'
  BY <1>1, <1>8 DEF SlotRing, Mine
<1>9. slot' \in [data : [0..SlotDepth - 1 -> Int], full : [0..SlotDepth - 1 -> Bar],
                 empty : [0..SlotDepth - 1 -> Bar]]
  <2>1. slot.empty[p % SlotDepth] \in Bar  BY <1>3 DEF SlotRing
  <2>2. Arrive(slot.empty[p % SlotDepth], SlotReaders(launch)) \in Bar
    BY <1>0, <2>1 DEF Arrive, Bar
  <2> QED  BY <1>4, <2>2, ZenonT(40) DEF SlotRing
<1> QED  BY <1>1, <1>6, <1>7, <1>8, <1>9 DEF SlotRing

(* ... and when the next slot is written over one that has been read up.   *)
LEMMA RingWrite ==
  ASSUME SlotRing, launch' = launch, DOMAIN wg' = DOMAIN wg, launch \in Launches,
         DOMAIN wg = Consumers(launch), Written \in Nat, Written' = Written + 1,
         LoadsRead = Written, LoadsRead' = Written,
         IsFree(slot, SlotProducer(SlotAt(Written))),
         slot' = Fill(slot, SlotAt(Written).index, TileIn(Written)),
         \A w \in DOMAIN wg, n \in Int : HasRead(w, n)' <=> HasRead(w, n),
         \A w \in DOMAIN wg : ~HasRead(w, Written)
  PROVE  SlotRing'
<1> PICK d, p : d = SlotDepth /\ p = Written  OBVIOUS
<1> DEFINE s == p % d  q == p \div d
<1>0. d \in {1, 2} /\ N \in Nat /\ SlotReaders(launch) \in {2, 3} /\ p \in Nat  BY SlotLaunch
<1>1. /\ SlotDepth' = SlotDepth /\ Live' = p + 1 - d..p /\ N' = N
      /\ SlotReaders(launch)' = SlotReaders(launch)
  BY <1>0 DEF SlotDepth, Live, N, SlotReaders, SkipsPeer, Consumers
<1>2. ASSUME NEW n \in Int
      PROVE  /\ TileIn(n)' = TileIn(n)
             /\ \A done, count : BarrierAt(n, done, count)' = BarrierAt(n, done, count)
             /\ Readers(n)' = Readers(n)
  BY <1>1, <1>2 DEF TileIn, BarrierAt, Readers, HasRead
<1>3. s \in 0..d - 1 /\ q \in Int /\ (p - d) % d = s /\ (p - d) \div d = q - 1
  BY <1>0, Rounds
<1>4. p - d \in Live /\ Slotted(p - d)  BY <1>0 DEF SlotRing, Live
<1> HIDE DEF s, q
<1>5. SlotAt(p) = [index |-> s, phase |-> q % 2]  BY DEF SlotAt, s, q
<1>6. q % 2 \in {0, 1} /\ (q + 1) % 2 = 1 - (q % 2) /\ (q - 1) % 2 = 1 - (q % 2)
  BY <1>3, Parities
<1>7. slot.empty[s] = [parity |-> q % 2, arrived |-> 0] /\ \A w \in DOMAIN wg : Mine(w, p - d) => HasRead(w, p - d)
  <2>1. slot.empty[s] = BarrierAt(p - d, Readers(p - d) = SlotReaders(launch), Readers(p - d))
    BY <1>3, <1>4 DEF Slotted
  <2>2. slot.empty[s].parity # 1 - (q % 2)
    BY <1>5 DEF IsFree, Passes, SlotProducer
  <2>3. Readers(p - d) = SlotReaders(launch)
    <3> SUFFICES ASSUME Readers(p - d) # SlotReaders(launch) PROVE FALSE  OBVIOUS
    <3>1. slot.empty[s].parity = (q - 1 + 0) % 2  BY <1>3, <2>1 DEF BarrierAt
    <3>2. q - 1 + 0 = q - 1  BY <1>3
    <3> QED  BY <1>6, <2>2, <3>1, <3>2
  <2>4. q - 1 + 1 = q  BY <1>3
  <2>5. p - d \in Int  BY <1>0
  <2> QED  BY <1>3, <2>1, <2>3, <2>4, <2>5, ReadersAre DEF BarrierAt
<1>8. /\ slot'.data = [slot.data EXCEPT ![s] = TileIn(p)] /\ slot'.empty = slot.empty
      /\ slot'.full = [slot.full EXCEPT ![s] = Arrive(@, 1)]
      /\ slot' = [data |-> slot'.data, full |-> slot'.full, empty |-> slot'.empty]
  <2>1. slot' = [slot EXCEPT !.data[s] = TileIn(p), !.full[s] = Arrive(@, 1)]
    BY <1>5 DEF Fill
  <2> QED  BY <2>1 DEF SlotRing
<1>9. Arrive(slot.full[s], 1) = [parity |-> (q + 1) % 2, arrived |-> 0]
  <2>1. slot.full[s] = BarrierAt(p - d, TRUE, 0)  BY <1>3, <1>4 DEF Slotted
  <2>2. BarrierAt(p - d, TRUE, 0) = [parity |-> (q - 1 + 1) % 2, arrived |-> 0]
    BY <1>3 DEF BarrierAt
  <2>3. q - 1 + 1 = q  BY <1>3
  <2>4. slot.full[s] = [parity |-> q % 2, arrived |-> 0]  BY <2>1, <2>2, <2>3
  <2> QED  BY <1>6, <2>4 DEF Arrive
<1>10. Slotted(p)'
  <2>1. slot'.data[s] = TileIn(p) /\ slot'.full[s] = BarrierAt(p, TRUE, 0)
    BY <1>3, <1>8, <1>9 DEF SlotRing, BarrierAt, q
  <2>2. Readers(p) = 0
    BY DEF Readers, One, HasRead
  <2>3. slot'.empty[s] = BarrierAt(p, Readers(p) = SlotReaders(launch), Readers(p))
    <3>1. q + 0 = q  BY <1>3
    <3> QED  BY <1>0, <1>7, <1>8, <2>2, <3>1 DEF BarrierAt, q
  <2> QED  BY <1>1, <1>2, <2>1, <2>2, <2>3 DEF Slotted, BarrierAt, s
<1>11. ASSUME NEW n \in Live', n # p PROVE Slotted(n)'
  <2>1. n \in Live /\ n \in Int  BY <1>0, <1>1, <1>11 DEF Live
  <2>2. Slotted(n)  BY <2>1 DEF SlotRing
  <2>3. n % d # s
    <3>1. n - p < d /\ p - n < d  BY <1>0, <1>1, <1>11
    <3> QED  BY <1>0, <1>11, <2>1, <3>1, SameStage DEF s
  <2>4. n % d \in 0..d - 1  BY <1>0, <2>1, Rounds
  <2>5. /\ slot'.data[n % d] = slot.data[n % d] /\ slot'.full[n % d] = slot.full[n % d]
        /\ slot'.empty[n % d] = slot.empty[n % d]
    BY <1>3, <1>8, <2>3, <2>4 DEF SlotRing
  <2> QED  BY <1>1, <1>2, <2>1, <2>2, <2>5 DEF Slotted, BarrierAt
<1>12. ASSUME NEW w \in DOMAIN wg', NEW n \in Nat, Mine(w, n)', n < Written' - SlotDepth'
       PROVE  HasRead(w, n)'
  <2>1. Mine(w, n) /\ w \in DOMAIN wg  BY <1>12 DEF Mine, SkipsPeer
  <2>2. n < p - d \/ n = p - d  BY <1>0, <1>1, <1>12
  <2> QED  BY <1>7, <2>1, <2>2 DEF SlotRing
<1>13. slot' \in [data : [0..SlotDepth - 1 -> Int], full : [0..SlotDepth - 1 -> Bar],
                  empty : [0..SlotDepth - 1 -> Bar]]
  <2>1. Arrive(slot.full[s], 1) \in Bar /\ TileIn(p) \in Int
    BY <1>0, <1>6, <1>9 DEF Bar, TileIn
  <2>2. /\ slot.data \in [0..SlotDepth - 1 -> Int] /\ slot.full \in [0..SlotDepth - 1 -> Bar]
        /\ slot.empty \in [0..SlotDepth - 1 -> Bar]
    BY DEF SlotRing
  <2>3. slot'.data \in [0..SlotDepth - 1 -> Int] /\ slot'.full \in [0..SlotDepth - 1 -> Bar]
    BY <1>3, <1>8, <2>1, <2>2
  <2> QED  BY <1>8, <2>2, <2>3
<1> QED  BY <1>1, <1>10, <1>11, <1>12, <1>13 DEF SlotRing

(* A reader passes when its slot is there, and finds its tile in it.       *)
LEMMA PassesWritten ==
  ASSUME SlotRing, SlotDepth \in {1, 2}, N \in Nat, Written \in Int, NEW p \in Nat,
         p >= Written - SlotDepth, p < Written + SlotDepth, IsFull(slot, SlotAt(p))
  PROVE  p \in Live /\ slot.data[SlotAt(p).index] = TileIn(p)
<1> DEFINE d == SlotDepth
<1>1. p < Written
  <2> SUFFICES ASSUME p >= Written PROVE FALSE  OBVIOUS
  <2>1. p - d \in Live /\ Slotted(p - d)  BY DEF Live, SlotRing
  <2>2. /\ p % d \in 0..d - 1 /\ p \div d \in Int
        /\ (p - d) % d = p % d /\ (p - d) \div d = p \div d - 1
    BY Rounds
  <2>3. slot.full[p % d].parity = (p \div d - 1 + 1) % 2
    BY <2>1, <2>2 DEF Slotted, BarrierAt
  <2>4. p \div d - 1 + 1 = p \div d  BY <2>2
  <2> QED  BY <2>3, <2>4 DEF IsFull, Passes, SlotAt
<1>2. p \in Live  BY <1>1 DEF Live
<1>3. Slotted(p)  BY <1>2 DEF SlotRing
<1> QED  BY <1>2, <1>3 DEF Slotted, SlotAt

LEMMA WrittenIs ==
  ASSUME launch \in Launches, DOMAIN wg = Consumers(launch), LoadSlots
  PROVE  /\ Written \in Nat /\ Written <= N + 1 /\ (~SkipsPeer(launch) => Written <= N)
         /\ LoadsRead \in Int /\ LoadsRead <= Written
BY SlotLaunch DEF LoadSlots, Written, LoadsRead

(* A warpgroup that does not move stands where it stood.                   *)
LEMMA Stays ==
  ASSUME launch' = launch, DOMAIN wg' = DOMAIN wg, NEW v \in DOMAIN wg, wg'[v] = wg[v],
         Written \in Int, Written' \in Int, Written <= Written', N \in Nat, AtTiles(v)
  PROVE  /\ AtTiles(v)' /\ \A n : HasRead(v, n)' <=> HasRead(v, n)
         /\ \A t : Done(v, t)' <=> Done(v, t)
<1>1. /\ N' = N /\ SlotDepth' = SlotDepth /\ SkipsPeer(launch)' = SkipsPeer(launch)
      /\ Position(v)' = Position(v) /\ (Left(v)' <=> Left(v)) /\ (First(v)' <=> First(v))
      /\ \A n : (Mine(v, n)' <=> Mine(v, n)) /\ SlotAt(n)' = SlotAt(n)
  BY DEF N, SlotDepth, SkipsPeer, Position, Left, First, Mine, SlotAt
<1>2. \A n : HasRead(v, n)' <=> HasRead(v, n)  BY <1>1 DEF HasRead
<1>3. \A t : Done(v, t)' <=> Done(v, t)  BY <1>1 DEF Done
<1>4. wg[v].tile \in Int /\ (Written' <= N => Written <= N)  BY DEF AtTiles
<1>5. AtTiles(v)'
  BY <1>1, <1>4 DEF AtTiles
<1> QED  BY <1>2, <1>3, <1>5

(* What a step of one warpgroup w leaves to be shown about it.             *)
LEMMA OneMoves ==
  ASSUME Shape, launch \in Launches, Slots, NEW w \in DOMAIN wg, launch' = launch, load' = load,
         DOMAIN wg' = DOMAIN wg, \A v \in DOMAIN wg : v # w => wg'[v] = wg[v],
         AtTiles(w)', SlotRing',
         ran' = [t \in 1..N |->
                   IF Owner(t) = w THEN One(Done(w, t)') ELSE ran[t]]
  PROVE  Slots'
<1>1. N \in Nat /\ Written \in Int /\ N' = N /\ Written' = Written
      /\ LoadsRead' = LoadsRead /\ DOMAIN wg = (IF launch.pingpong THEN {0, 1} ELSE {0})
  BY SlotLaunch, WrittenIs DEF Shape, Slots, N, Written, LoadsRead
<1>2. \A v \in DOMAIN wg : v # w => AtTiles(v)' /\ \A t : Done(v, t)' <=> Done(v, t)
  BY <1>1, Stays DEF Slots
<1>3. LoadSlots'  BY <1>1 DEF Slots, LoadSlots, SkipsPeer, SlotAt, SlotDepth
<1>4. RanOnce'
  <2>1. ASSUME NEW t \in 1..N PROVE Owner(t)' = Owner(t) /\ Owner(t) \in DOMAIN wg
    <3>1. t % 2 \in {0, 1}  BY Parities
    <3> QED  BY <1>1, <3>1 DEF Owner
  <2>2. \A t \in 1..N : ran[t] = One(Done(Owner(t), t))  BY DEF Slots, RanOnce
  <2>3. \A t \in 1..N : ran'[t] = One(Done(Owner(t), t)')
    BY <1>2, <2>1, <2>2 DEF One
  <2> QED  BY <1>1, <2>1, <2>3 DEF RanOnce
<1> QED  BY <1>2, <1>3, <1>4 DEF Slots

(* The steps on a tile, and the exit.                                      *)
LEMMA OnTile ==
  ASSUME Shape, launch \in Launches, Slots, NEW w \in DOMAIN wg, launch' = launch, load' = load,
         slot' = slot, ran' = ran,
         DOMAIN wg' = DOMAIN wg, \A v \in DOMAIN wg : v # w => wg'[v] = wg[v],
         wg'[w].tile = wg[w].tile, wg'[w].slot = wg[w].slot,
         \/ wg[w].at \in Working /\ wg'[w].at \in Working
         \/ wg[w].at = "end" /\ wg'[w].at = "done"
  PROVE  Slots'
<1>1. N \in Nat /\ Written \in Int /\ N' = N /\ Written' = Written /\ LoadsRead' = LoadsRead
      /\ SlotDepth \in {1, 2}
  BY SlotLaunch, WrittenIs DEF Shape, Slots, N, Written, LoadsRead
<1>2. /\ N' = N /\ SlotDepth' = SlotDepth /\ SkipsPeer(launch)' = SkipsPeer(launch)
      /\ Position(w)' = Position(w) /\ (Left(w)' <=> Left(w)) /\ (First(w)' <=> First(w))
      /\ \A n : (Mine(w, n)' <=> Mine(w, n)) /\ SlotAt(n)' = SlotAt(n)
  BY DEF N, SlotDepth, SkipsPeer, Position, Left, First, Mine, SlotAt, Working, InEpilogue
<1>3. \A n : HasRead(w, n)' <=> HasRead(w, n)  BY <1>2 DEF HasRead
<1>4. \A t : Done(w, t)' <=> Done(w, t)  BY <1>2 DEF Done, Working, InEpilogue
<1>5. AtTiles(w)'
  BY <1>1, <1>2 DEF Slots, AtTiles, Working, InEpilogue, Left
<1>6. \A v \in DOMAIN wg, n \in Int : HasRead(v, n)' <=> HasRead(v, n)
  BY <1>1, <1>3, Stays DEF Slots
<1>7. SlotRing'  BY <1>1, <1>6, RingKept DEF Slots
<1>8. ran' = [t \in 1..N |-> IF Owner(t) = w THEN One(Done(w, t)') ELSE ran[t]]
  <2>1. ran = [t \in 1..N |-> One(Done(Owner(t), t))]  BY DEF Slots, RanOnce
  <2>2. \A t \in 1..N : ran[t] = (IF Owner(t) = w THEN One(Done(w, t)') ELSE ran[t])
    BY <1>4, <2>1 DEF One
  <2> QED  BY <2>1, <2>2
<1> QED  BY <1>5, <1>7, <1>8, OneMoves

(* One more reader of slot p.                                              *)
LEMMA OneMoreReader ==
  ASSUME NEW w \in {0, 1}, NEW p \in Int, NEW n \in Int, LoadsRead' = LoadsRead,
         HasRead(w, n)' <=> HasRead(w, n) \/ n = p, ~HasRead(w, p),
         \A v \in {0, 1} : v # w => (HasRead(v, n)' <=> HasRead(v, n))
  PROVE  Readers(n)' = Readers(n) + One(n = p)
<1>1. \A v \in {0, 1} : v # w => (HasRead(v, n)' <=> HasRead(v, n))  OBVIOUS
<1>2. w = 0 \/ w = 1  OBVIOUS
<1>3. CASE w = 0  BY <1>3 DEF Readers, One
<1>4. CASE w = 1  BY <1>4 DEF Readers, One
<1> QED  BY <1>2, <1>3, <1>4

(* A warpgroup takes the tile of its next slot.                            *)
LEMMA TakesSlot ==
  ASSUME Shape, launch \in Launches, Slots, NEW w \in DOMAIN wg, launch' = launch, load' = load,
         ran' = ran, DOMAIN wg' = DOMAIN wg, \A v \in DOMAIN wg : v # w => wg'[v] = wg[v],
         wg[w].at \in {"read", "peer"}, IsFull(slot, wg[w].slot), ReadSlot(wg[w].slot),
         wg'[w].tile = slot.data[wg[w].slot.index],
         wg'[w].slot = Advance(wg[w].slot, 1, Depth(slot)),
         wg'[w].at = (IF ~Valid(wg'[w].tile) THEN "end" ELSE IF wg[w].at = "read" THEN "turn" ELSE "read")
  PROVE  Slots'
<1> DEFINE p == Position(w)  tile == wg[w].tile  new == wg'[w].tile
<1>1. /\ N \in Nat /\ Written \in Int /\ N' = N /\ Written' = Written /\ LoadsRead' = LoadsRead
      /\ SlotDepth \in {1, 2} /\ SlotDepth = (IF launch.pingpong THEN 2 ELSE 1)
      /\ SkipsPeer(launch) \in BOOLEAN /\ (SkipsPeer(launch) => launch.pingpong)
      /\ launch.pingpong \in BOOLEAN
      /\ DOMAIN wg = (IF launch.pingpong THEN {0, 1} ELSE {0})
      /\ Written <= N + 1 /\ (~SkipsPeer(launch) => Written <= N)
  BY SlotLaunch, WrittenIs DEF Shape, Slots, N, Written, LoadsRead
<1>2. /\ SlotDepth' = SlotDepth /\ SkipsPeer(launch)' = SkipsPeer(launch)
      /\ \A n, v : (Mine(v, n)' <=> Mine(v, n)) /\ SlotAt(n)' = SlotAt(n)
  BY DEF SlotDepth, SkipsPeer, Mine, SlotAt
<1>3. w \in {0, 1} /\ (w = 1 => launch.pingpong)  BY <1>1
<1>4. AtTiles(w) /\ SlotRing  BY DEF Slots
<1>5. /\ tile \in 1..N + 1 /\ tile - 1 <= Written /\ ~Left(w) /\ wg[w].slot = SlotAt(p)
      /\ wg[w].at = "peer" => launch.pingpong /\ ~SkipsPeer(launch) /\ tile <= N /\ tile % 2 = 1 - w
      /\ wg[w].at = "read" =>
           /\ First(w) \/ tile <= N
           /\ ~SkipsPeer(launch) => 1 <= N
           /\ SkipsPeer(launch) => First(w) \/ tile % 2 = 1 - w
           /\ launch.pingpong /\ ~SkipsPeer(launch) => tile % 2 = w
  BY <1>4 DEF AtTiles, Left
<1>6. /\ p \in Nat /\ p < Written + SlotDepth /\ Mine(w, p)
      /\ p = IF SkipsPeer(launch) /\ ~First(w) THEN tile ELSE tile - 1
  <2>1. p = IF SkipsPeer(launch) /\ ~First(w) THEN tile ELSE tile - 1
    BY <1>5 DEF Position
  <2>2. First(w) => tile = 1 /\ w = 1  BY DEF First
  <2>3. 0 % 2 = 0  OBVIOUS
  <2> QED  BY <1>1, <1>5, <2>1, <2>2, <2>3 DEF Mine
<1> HIDE DEF p, tile
<1>7. ~HasRead(w, p)  BY <1>5, <1>6 DEF HasRead, p
<1>8. p >= Written - SlotDepth
  <2> SUFFICES ASSUME p < Written - SlotDepth PROVE FALSE  BY <1>1, <1>6
  <2>1. HasRead(w, p)  BY <1>4, <1>6 DEF SlotRing
  <2> QED  BY <1>7, <2>1
<1>9. p \in Live /\ new = TileIn(p)
  BY <1>1, <1>4, <1>5, <1>6, <1>8, PassesWritten
<1>10. p < Written /\ p <= N /\ (~SkipsPeer(launch) => p < N)
  BY <1>1, <1>6, <1>9 DEF Live
<1>11. /\ new \in 1..N + 1 /\ (new <= N => new = p + 2) /\ (new = N + 1 => p >= N - 1)
       /\ Valid(new) <=> new <= N
  BY <1>1, <1>6, <1>9, <1>10 DEF TileIn, Valid
<1> HIDE DEF new
<1>12. /\ Left(w)' <=> new = N + 1
       /\ ~Left(w)' => Position(w)' = p + 1 /\ ~First(w)'
       /\ wg'[w].at = (IF new = N + 1 THEN "end" ELSE IF wg[w].at = "read" THEN "turn" ELSE "read")
       /\ wg'[w].slot = SlotAt(p + 1)
  <2>1. wg'[w].at = (IF new = N + 1 THEN "end" ELSE IF wg[w].at = "read" THEN "turn" ELSE "read")
    BY <1>1, <1>11 DEF new
  <2>2. Left(w)' <=> new = N + 1  BY <1>1, <1>11, <2>1 DEF Left
  <2>3. wg'[w].slot = SlotAt(p + 1)
    <3>1. Depth(slot) = SlotDepth  BY <1>4, DepthIs DEF Shape
    <3> QED  BY <1>1, <1>5, <1>6, <3>1, SlotOn
  <2>4. ASSUME new # N + 1 PROVE Position(w)' = p + 1 /\ ~First(w)'
    <3>1. new = p + 2 /\ new # 1  BY <1>1, <1>6, <1>11, <2>4
    <3>2. wg'[w].at = "read" => ~SkipsPeer(launch)  BY <1>5, <2>1, <2>4
    <3> QED  BY <1>2, <1>6, <3>1, <3>2 DEF Position, First, new
  <2> QED  BY <2>1, <2>2, <2>3, <2>4
<1>13. ASSUME NEW n \in Int PROVE HasRead(w, n) => HasRead(w, n)'
  <2>1. n < p => n < p + 1  BY <1>6, <1>13
  <2> QED  BY <1>2, <1>5, <1>12, <2>1 DEF HasRead, p
<1>14. ASSUME NEW n \in Int, n < Written PROVE HasRead(w, n)' <=> HasRead(w, n) \/ n = p
  <2>1. ASSUME new = N + 1, Mine(w, n) PROVE n < p \/ n = p
    <3>1. n <= N /\ (~SkipsPeer(launch) => n < N)  BY <1>1, <1>14
    <3>2. CASE p >= N  BY <1>1, <1>6, <1>14, <3>1, <3>2
    <3>3. CASE p = N - 1 /\ n = N
      <4>1. SkipsPeer(launch)  BY <1>1, <3>1, <3>3
      <4>2. (N - 1) % 2 = 1 - (N % 2) /\ N % 2 \in {0, 1}  BY <1>1, Parities
      <4> QED  BY <1>3, <1>6, <2>1, <3>3, <4>1, <4>2 DEF Mine
    <3> QED  BY <1>1, <1>6, <1>11, <1>14, <2>1, <3>1, <3>2, <3>3
  <2>2. n < p + 1 <=> n < p \/ n = p  BY <1>6, <1>14
  <2> QED  BY <1>2, <1>5, <1>6, <1>12, <2>1, <2>2 DEF HasRead, p
<1>15. \A v \in {0, 1}, n \in Int : v # w => (HasRead(v, n)' <=> HasRead(v, n))
  <2>1. \A v \in DOMAIN wg : v # w => \A n : HasRead(v, n)' <=> HasRead(v, n)
    BY <1>1, Stays DEF Slots
  <2> QED  BY <2>1 DEF HasRead
<1>16. SlotRing'
  <2>1. \A n \in Live : Readers(n)' = Readers(n) + One(n = p)
    <3> SUFFICES ASSUME NEW n \in Live PROVE Readers(n)' = Readers(n) + One(n = p)  OBVIOUS
    <3>1. n \in Int /\ n < Written  BY <1>1 DEF Live
    <3> QED  BY <1>1, <1>3, <1>6, <1>7, <1>14, <1>15, <3>1, OneMoreReader
  <2>2. slot' = Release(slot, SlotAt(p), SlotReaders(launch))  BY <1>5 DEF ReadSlot
  <2>3. \A v \in DOMAIN wg, n \in Int : HasRead(v, n) => HasRead(v, n)'
    BY <1>1, <1>13, <1>15
  <2> QED  BY <1>1, <1>4, <1>9, <2>1, <2>2, <2>3, RingRead DEF Shape
<1> DEFINE parity == p % 2
<1>17. /\ parity \in {0, 1} /\ (p + 1) % 2 = 1 - parity /\ (p + 2) % 2 = parity
       /\ (p - 1) % 2 = 1 - parity
  BY <1>6, Parities
<1>18. /\ SkipsPeer(launch) => parity = 1 - w
       /\ launch.pingpong /\ ~SkipsPeer(launch) =>
            (wg[w].at = "read" => parity = 1 - w) /\ (wg[w].at = "peer" => parity = w)
  <2>1. SkipsPeer(launch) => parity = 1 - w  BY <1>6 DEF Mine
  <2>2. ~SkipsPeer(launch) => tile = p + 1  BY <1>5, <1>6
  <2> QED  BY <1>3, <1>5, <1>17, <2>1, <2>2
<1> HIDE DEF parity
<1>19. AtTiles(w)'
  <2>1. new - 1 <= Written  BY <1>1, <1>6, <1>10, <1>11
  <2>2. CASE new = N + 1
    <3>1. wg'[w].at = "end"  BY <1>12, <2>2
    <3>2. ASSUME SkipsPeer(launch), Written <= N PROVE ~Mine(w, N)
      <4>1. p = N - 1  BY <1>1, <1>6, <1>10, <1>11, <2>2, <3>2
      <4>2. (N - 1) % 2 = 1 - (N % 2) /\ N % 2 \in {0, 1}  BY <1>1, Parities
      <4> QED  BY <1>3, <1>6, <3>2, <4>1, <4>2 DEF Mine
    <3> QED  BY <1>1, <1>2, <1>11, <1>12, <2>1, <2>2, <3>1, <3>2 DEF AtTiles, new, Working, InEpilogue
  <2>3. CASE new # N + 1
    <3>1. new = p + 2 /\ new <= N /\ 1 <= N  BY <1>1, <1>6, <1>11, <2>3
    <3>2. ~Left(w)' /\ Position(w)' = p + 1 /\ ~First(w)'  BY <1>12, <2>3
    <3>3. wg'[w].at = IF wg[w].at = "read" THEN "turn" ELSE "read"  BY <1>12, <2>3
    <3>4. wg'[w].at = "read" => launch.pingpong /\ ~SkipsPeer(launch) /\ wg[w].at = "peer"
      BY <1>5, <3>3
    <3>5. wg'[w].at = "turn" => wg[w].at = "read"  BY <1>5, <3>3
    <3>6. launch.pingpong => new % 2 = parity  BY <1>17, <3>1 DEF parity
    <3>7. (wg'[w].at = "turn" /\ launch.pingpong => new % 2 = 1 - w)
          /\ (wg'[w].at = "read" => new % 2 = w)
      BY <1>1, <1>18, <3>4, <3>5, <3>6
    <3>8. wg'[w].slot = SlotAt(Position(w))'  BY <1>2, <1>12, <3>2 DEF SlotAt
    <3> QED  BY <1>1, <1>2, <1>11, <2>1, <3>1, <3>2, <3>3, <3>4, <3>7, <3>8 DEF AtTiles, new, Working, InEpilogue
  <2> QED  BY <2>2, <2>3
<1>20. ASSUME NEW t \in 1..N, Owner(t) = w PROVE Done(w, t)' <=> Done(w, t)
  <2>1. Done(w, t) <=> t <= tile
    BY <1>1, <1>5, <1>20 DEF Done, tile
  <2>2. t % 2 \in {0, 1} /\ (launch.pingpong => t % 2 = 1 - w)
    <3>1. t % 2 \in {0, 1}  BY Parities
    <3> QED  BY <1>3, <1>20, <3>1 DEF Owner
  <2>3. tile \in Int /\ tile = IF SkipsPeer(launch) /\ ~First(w) THEN p ELSE p + 1
    BY <1>5, <1>6
  <2>4. First(w) => tile = 1 /\ w = 1  BY DEF First, tile
  <2>5. CASE new = N + 1
    <3>1. Done(w, t)'  BY <1>12, <2>5 DEF Done
    <3>2. t <= tile
      <4> SUFFICES ASSUME t > tile PROVE FALSE  BY <2>3
      <4>1. SkipsPeer(launch) /\ ~First(w) /\ p = N - 1 /\ t = p + 1
        BY <1>1, <1>6, <1>11, <2>3, <2>5, <1>20
      <4>2. t % 2 = 1 - parity  BY <1>17, <4>1
      <4> QED  BY <1>1, <1>3, <1>17, <1>18, <2>2, <4>1, <4>2
    <3> QED  BY <2>1, <3>1, <3>2
  <2>6. CASE new # N + 1 /\ wg[w].at = "read"
    <3>1. wg'[w].at = "turn" /\ ~Left(w)' /\ new = p + 2 /\ new \in Int
      BY <1>1, <1>11, <1>12, <2>6
    <3>2. Done(w, t)' <=> t < p + 2
      BY <3>1, <1>20, <1>6 DEF Done, new
    <3>3. t = p + 1 => t <= tile
      <4> SUFFICES ASSUME t = p + 1, SkipsPeer(launch), ~First(w) PROVE FALSE
        BY <1>1, <1>6, <2>3
      <4>1. t % 2 = 1 - parity  BY <1>17
      <4> QED  BY <1>1, <1>3, <1>17, <1>18, <2>2, <4>1
    <3>4. t < p + 2 <=> t <= tile  BY <1>6, <1>20, <2>3, <3>3
    <3> QED  BY <2>1, <3>2, <3>4
  <2>7. CASE new # N + 1 /\ wg[w].at = "peer"
    <3>1. wg'[w].at = "read" /\ ~Left(w)' /\ new = p + 2 /\ new \in Int
      BY <1>1, <1>11, <1>12, <2>7
    <3>2. Done(w, t)' <=> t <= p + 2
      BY <3>1, <1>20, <1>6 DEF Done, new
    <3>3. tile = p + 1 /\ launch.pingpong /\ ~SkipsPeer(launch)  BY <1>5, <2>3, <2>7
    <3>4. t # p + 2
      <4>1. (p + 2) % 2 = w  BY <1>17, <1>18, <2>7, <3>3
      <4> QED  BY <1>3, <2>2, <3>3, <4>1
    <3> QED  BY <1>6, <1>20, <2>1, <3>2, <3>3, <3>4
  <2> QED  BY <2>5, <2>6, <2>7
<1>21. ran' = [t \in 1..N |-> IF Owner(t) = w THEN One(Done(w, t)') ELSE ran[t]]
  <2>1. ran = [t \in 1..N |-> One(Done(Owner(t), t))]  BY DEF Slots, RanOnce
  <2>2. \A t \in 1..N : ran[t] = (IF Owner(t) = w THEN One(Done(w, t)') ELSE ran[t])
    BY <1>20, <2>1 DEF One
  <2> QED  BY <2>1, <2>2
<1> QED  BY <1>16, <1>19, <1>21, OneMoves

(* What NextWork and PassPeer do to the slots: the first moves past n - 1, *)
(* the second past none.                                                   *)
LEMMA NextWorkSlot ==
  ASSUME NEW me, Fields \subseteq DOMAIN me, NEW n, NEW t
  PROVE  /\ NextWork(me, n).slot = Advance(me.slot, n - 1, Depth(slot))
         /\ PassPeer(me, t).slot = me.slot
BY DEF NextWork, PassPeer, PassRings, Fields

LEMMA ReadSlots ==
  ASSUME Shape, Buffers, Slots, NEW w \in DOMAIN wg, Read(w) \/ ReadPeer(w)
  PROVE  Slots'
<1>1. launch \in Launches /\ Fields \subseteq DOMAIN wg[w]  BY DEF Buffers, Launched, Placed
<1>2. CASE Read(w)
  <2>1. /\ wg'[w].tile = slot.data[wg[w].slot.index]
        /\ wg'[w].slot = Advance(wg[w].slot, 1, Depth(slot))
        /\ wg'[w].at = (IF Valid(wg'[w].tile) THEN "turn" ELSE "end")
        /\ wg[w].at = "read" /\ DOMAIN wg' = DOMAIN wg /\ \A v \in DOMAIN wg : v # w => wg'[v] = wg[v]
    BY <1>1, <1>2 DEF Read, Fields
  <2>2. /\ IsFull(slot, wg[w].slot) /\ ReadSlot(wg[w].slot) /\ launch' = launch /\ load' = load
        /\ ran' = ran
    BY <1>2 DEF Read
  <2> QED  BY <1>1, <2>1, <2>2, TakesSlot
<1>3. CASE ReadPeer(w)
  <2> DEFINE t == slot.data[wg[w].slot.index]
  <2>1. PICK on : on = [wg[w] EXCEPT !.slot = Advance(@, 1, Depth(slot)), !.tile = t]  OBVIOUS
  <2>2. /\ DOMAIN on = DOMAIN wg[w] /\ on.tile = t
        /\ on.slot = Advance(wg[w].slot, 1, Depth(slot))
    BY <1>1, <2>1 DEF Fields
  <2>3. PICK past : past = NextWork(PassPeer(on, t), 1)  OBVIOUS
  <2>4. DOMAIN past = DOMAIN wg[w] /\ past.tile = t /\ past.slot = Advance(on.slot, 0, Depth(slot))
    <3>1. PICK passed : passed = PassPeer(on, t)  OBVIOUS
    <3>2. DOMAIN passed = DOMAIN wg[w] /\ passed.tile = t /\ passed.slot = on.slot
      BY <1>1, <2>2, <3>1, PassPeerIs, NextWorkSlot
    <3>3. past = NextWork(passed, 1)  BY <2>3, <3>1
    <3> QED  BY <1>1, <3>2, <3>3, NextWorkIs, NextWorkSlot
  <2>5. Advance(on.slot, 0, Depth(slot)) = on.slot
    <3>1. PICK n \in Int : wg[w].slot = SlotAt(n)
      <4>1. AtTiles(w) /\ wg[w].at = "peer"  BY <1>3 DEF Slots, ReadPeer
      <4>2. wg[w].slot = SlotAt(Position(w))  BY <4>1 DEF AtTiles, Left
      <4>3. Position(w) \in Int  BY <1>1, <4>1, SlotLaunch DEF AtTiles, Position, Shape
      <4> QED  BY <4>2, <4>3
    <3>2. Depth(slot) = SlotDepth /\ SlotDepth \in {1, 2}
      BY <1>1, DepthIs, SlotLaunch DEF Slots, Shape
    <3>3. on.slot = SlotAt(n + 1) /\ n + 1 \in Int  BY <2>2, <3>1, <3>2, SlotOn
    <3> QED  BY <3>2, <3>3, SlotOn
  <2>6. /\ wg' = [wg EXCEPT ![w] = IF Valid(t) THEN [past EXCEPT !.at = "read"] ELSE [on EXCEPT !.at = "end"]]
        /\ wg[w].at = "peer"
    BY <1>3, <2>1, <2>3 DEF ReadPeer
  <2>7. /\ wg'[w].tile = slot.data[wg[w].slot.index]
        /\ wg'[w].slot = Advance(wg[w].slot, 1, Depth(slot))
        /\ wg'[w].at = (IF Valid(wg'[w].tile) THEN "read" ELSE "end")
        /\ wg[w].at = "peer" /\ DOMAIN wg' = DOMAIN wg /\ \A v \in DOMAIN wg : v # w => wg'[v] = wg[v]
    BY <1>1, <2>2, <2>4, <2>5, <2>6 DEF Fields
  <2>8. /\ IsFull(slot, wg[w].slot) /\ ReadSlot(wg[w].slot) /\ launch' = launch /\ load' = load
        /\ ran' = ran
    BY <1>3 DEF ReadPeer
  <2> QED  BY <1>1, <2>7, <2>8, TakesSlot
<1> QED  BY <1>2, <1>3

(* The start: the first warpgroup has tile 1, the second passes it over.   *)
LEMMA StartSlots == ASSUME Shape, Buffers, Slots, NEW w \in DOMAIN wg, Start(w) PROVE Slots'
<1>1. launch \in Launches /\ Fields \subseteq DOMAIN wg[w]  BY DEF Buffers, Launched, Placed
<1>2. /\ N \in Nat /\ Written \in Int /\ Written <= N + 1 /\ (~SkipsPeer(launch) => Written <= N)
      /\ SlotDepth \in {1, 2} /\ Depth(slot) = SlotDepth
      /\ SkipsPeer(launch) \in BOOLEAN /\ (SkipsPeer(launch) => launch.pingpong)
      /\ launch.pingpong \in BOOLEAN
      /\ ~SkipsPeer(launch) /\ launch.pingpong /\ ~Sm120(launch) => N >= 1
      /\ w \in (IF launch.pingpong THEN {0, 1} ELSE {0})
  BY <1>1, SlotLaunch, WrittenIs, DepthIs DEF Shape, Slots
<1>3. AtTiles(w) /\ wg[w].at = "start" /\ wg[w].tile = 1 /\ wg[w].slot = SlotAt(0)
  <2>1. AtTiles(w) /\ wg[w].at = "start"  BY DEF Slots, Start
  <2>2. wg[w].tile = 1 /\ ~Left(w)  BY <2>1 DEF AtTiles, Left
  <2>3. Position(w) = 0  BY <2>1, <2>2 DEF Position
  <2> QED  BY <2>1, <2>2, <2>3 DEF AtTiles
<1>4. /\ launch' = launch /\ load' = load /\ slot' = slot /\ ran' = ran
      /\ DOMAIN wg' = DOMAIN wg /\ \A v \in DOMAIN wg : v # w => wg'[v] = wg[v]
  BY DEF Start
<1>5. /\ N' = N /\ Written' = Written /\ LoadsRead' = LoadsRead /\ SlotDepth' = SlotDepth
      /\ SkipsPeer(launch)' = SkipsPeer(launch)
      /\ \A n, v : (Mine(v, n)' <=> Mine(v, n)) /\ SlotAt(n)' = SlotAt(n)
  BY <1>4 DEF N, Written, LoadsRead, SlotDepth, SkipsPeer, Mine, SlotAt
<1>6. /\ wg'[w].tile = 1 /\ wg'[w].slot = SlotAt(0)
      /\ \/ w = 0 /\ 1 <= N /\ wg'[w].at = "turn"
         \/ N = 0 /\ wg'[w].at = "end" /\ (w = 0 \/ ~SkipsPeer(launch))
         \/ w = 1 /\ wg'[w].at = "read" /\ (~SkipsPeer(launch) => 1 <= N)
  <2>1. CASE w = 0
    BY <1>1, <1>2, <1>3, <2>1 DEF Start, Fields, Valid
  <2>2. CASE w = 1 /\ ChecksFirst /\ ~Valid(1)
    <3>1. wg'[w] = [wg[w] EXCEPT !.at = "end"]  BY <2>2 DEF Start
    <3> QED  BY <1>1, <1>2, <1>3, <2>2, <3>1 DEF Fields, Valid, ChecksFirst
  <2>3. CASE w = 1 /\ ~(ChecksFirst /\ ~Valid(1))
    <3>1. PICK me : me = PassPeer(wg[w], 1)  OBVIOUS
    <3>2. PICK on : on = NextWork(me, 1)  OBVIOUS
    <3>3. DOMAIN me = DOMAIN wg[w] /\ me.tile = 1 /\ me.slot = SlotAt(0)
      BY <1>1, <1>3, <3>1, PassPeerIs, NextWorkSlot
    <3>4. DOMAIN on = DOMAIN wg[w] /\ on.tile = 1 /\ on.slot = Advance(SlotAt(0), 0, SlotDepth)
      BY <1>1, <1>2, <3>2, <3>3, NextWorkIs, NextWorkSlot
    <3>5. on.slot = SlotAt(0)  BY <1>2, <3>4, SlotOn
    <3>6. wg'[w] = [on EXCEPT !.at = "read"]  BY <2>3, <3>1, <3>2 DEF Start
    <3>7. ~SkipsPeer(launch) => 1 <= N  BY <1>2, <2>3 DEF ChecksFirst, Valid
    <3> QED  BY <1>1, <2>3, <3>4, <3>5, <3>6, <3>7 DEF Fields
  <2> QED  BY <1>2, <2>1, <2>2, <2>3
<1>7. Position(w)' = 0 /\ (Left(w)' <=> wg'[w].at = "end") /\ (First(w)' <=> w = 1)
  BY <1>5, <1>6 DEF Position, Left, First
<1>8. /\ 0 % 2 = 0 /\ 1 % 2 = 1  OBVIOUS
<1>9. AtTiles(w)'
  <2>1. CASE wg'[w].at = "turn"
    BY <1>2, <1>3, <1>5, <1>6, <1>7, <1>8, <2>1 DEF AtTiles, Working, InEpilogue, SlotAt
  <2>2. CASE wg'[w].at = "end"
    <3>1. N = 0 /\ (SkipsPeer(launch) => w = 0)  BY <1>6, <2>2
    <3>2. SkipsPeer(launch) => ~Mine(w, N)  BY <1>8, <3>1 DEF Mine
    <3> QED  BY <1>2, <1>3, <1>5, <1>6, <1>7, <2>2, <3>1, <3>2 DEF AtTiles, Working, InEpilogue
  <2>3. CASE wg'[w].at = "read"
    BY <1>2, <1>3, <1>5, <1>6, <1>7, <1>8, <2>3 DEF AtTiles, Working, InEpilogue, SlotAt
  <2> QED  BY <1>6, <2>1, <2>2, <2>3
<1>10. ASSUME NEW n \in Int, n < Written PROVE HasRead(w, n)' <=> HasRead(w, n)
  <2>1. HasRead(w, n) <=> Mine(w, n) /\ n < 0
    BY <1>3 DEF HasRead, Position, Left
  <2>2. HasRead(w, n)' <=> Mine(w, n) /\ (wg'[w].at = "end" \/ n < 0)
    BY <1>4, <1>5, <1>7 DEF HasRead
  <2>3. wg'[w].at = "end" /\ Mine(w, n) => n < 0
    <3> SUFFICES ASSUME N = 0, w = 0 \/ ~SkipsPeer(launch), Mine(w, n), n >= 0 PROVE FALSE
      BY <1>6, <1>10
    <3>1. SkipsPeer(launch) /\ n = 0  BY <1>2, <1>10
    <3> QED  BY <1>8, <3>1 DEF Mine
  <2> QED  BY <2>1, <2>2, <2>3
<1>11. SlotRing'
  <2>1. \A v \in DOMAIN wg, n \in Int : n < Written => (HasRead(v, n)' <=> HasRead(v, n))
    BY <1>2, <1>4, <1>5, <1>10, Stays DEF Slots
  <2> QED  BY <1>2, <1>4, <1>5, <2>1, RingKept DEF Slots
<1>12. ran' = [t \in 1..N |-> IF Owner(t) = w THEN One(Done(w, t)') ELSE ran[t]]
  <2>1. ran = [t \in 1..N |-> One(Done(Owner(t), t))]  BY DEF Slots, RanOnce
  <2>2. ASSUME NEW t \in 1..N, Owner(t) = w PROVE Done(w, t)' <=> Done(w, t)
    <3>1. Owner(1) = 0  BY <1>8 DEF Owner
    <3>2. w = 1 => t # 1  BY <2>2, <3>1
    <3>3. ~Done(w, t)  BY <1>2, <1>3, <2>2 DEF Done, Left
    <3>4. ~Done(w, t)'  BY <1>2, <1>6, <1>7, <2>2, <3>2 DEF Done
    <3> QED  BY <3>3, <3>4
  <2>3. \A t \in 1..N : ran[t] = (IF Owner(t) = w THEN One(Done(w, t)') ELSE ran[t])
    BY <2>1, <2>2 DEF One
  <2> QED  BY <1>4, <2>1, <2>3
<1> QED  BY <1>1, <1>4, <1>9, <1>11, <1>12, OneMoves

(* A tile is finished by its owner, who then passes the peer's slot over,  *)
(* unread or to be read next.                                              *)
LEMMA EndTileSlots == ASSUME Shape, Buffers, Slots, NEW w \in DOMAIN wg, EndTile(w) PROVE Slots'
<1> DEFINE tile == wg[w].tile
<1>1. launch \in Launches /\ Fields \subseteq DOMAIN wg[w]  BY DEF Buffers, Launched, Placed
<1>2. /\ N \in Nat /\ Written \in Int
      /\ SlotDepth \in {1, 2} /\ Depth(slot) = SlotDepth
      /\ SkipsPeer(launch) \in BOOLEAN /\ (SkipsPeer(launch) => launch.pingpong)
      /\ launch.pingpong \in BOOLEAN
      /\ w \in (IF launch.pingpong THEN {0, 1} ELSE {0})
  BY <1>1, SlotLaunch, WrittenIs, DepthIs DEF Shape, Slots
<1>3. /\ AtTiles(w) /\ wg[w].at = "drain" /\ tile \in 1..N /\ tile - 1 <= Written
      /\ wg[w].slot = SlotAt(tile - 1) /\ (launch.pingpong => tile % 2 = 1 - w)
  <2>1. AtTiles(w) /\ wg[w].at = "drain"  BY DEF Slots, EndTile
  <2>2. Position(w) = tile - 1 /\ ~Left(w)  BY <2>1 DEF Position, Left
  <2> QED  BY <1>2, <2>1, <2>2 DEF AtTiles, Working, InEpilogue
<1>4. /\ launch' = launch /\ load' = load /\ slot' = slot
      /\ ran' = [ran EXCEPT ![tile] = @ + 1]
  BY DEF EndTile
<1>5. /\ N' = N /\ Written' = Written /\ LoadsRead' = LoadsRead /\ SlotDepth' = SlotDepth
      /\ SkipsPeer(launch)' = SkipsPeer(launch)
      /\ \A n, v : (Mine(v, n)' <=> Mine(v, n)) /\ SlotAt(n)' = SlotAt(n)
  BY <1>4 DEF N, Written, LoadsRead, SlotDepth, SkipsPeer, Mine, SlotAt
<1>6. /\ DOMAIN wg' = DOMAIN wg /\ \A v \in DOMAIN wg : v # w => wg'[v] = wg[v]
      /\ wg'[w].tile = tile
      /\ wg'[w].slot = SlotAt(IF SkipsPeer(launch) THEN tile ELSE tile - 1)
      /\ wg'[w].at = IF launch.pingpong /\ ~SkipsPeer(launch) THEN "peer" ELSE "read"
  <2>1. PICK me : me = IF SkipsPeer(launch) THEN PassPeer(wg[w], tile) ELSE wg[w]  OBVIOUS
  <2>2. PICK on : on = NextWork(me, Stride(launch))  OBVIOUS
  <2>3. DOMAIN me = DOMAIN wg[w] /\ me.tile = tile /\ me.slot = SlotAt(tile - 1)
    BY <1>1, <1>3, <2>1, PassPeerIs, NextWorkSlot
  <2>4. DOMAIN on = DOMAIN wg[w] /\ on.tile = tile
        /\ on.slot = Advance(SlotAt(tile - 1), Stride(launch) - 1, SlotDepth)
    BY <1>1, <1>2, <2>2, <2>3, NextWorkIs, NextWorkSlot
  <2>5. on.slot = SlotAt(IF SkipsPeer(launch) THEN tile ELSE tile - 1)
    <3>1. tile - 1 \in Int /\ (tile - 1) + 1 = tile  BY <1>2, <1>3
    <3>2. Stride(launch) - 1 = IF SkipsPeer(launch) THEN 1 ELSE 0  BY DEF Stride
    <3> QED  BY <1>2, <2>4, <3>1, <3>2, SlotOn
  <2>6. wg' = [wg EXCEPT ![w] = [on EXCEPT !.at =
           IF launch.pingpong /\ ~SkipsPeer(launch) THEN "peer" ELSE "read"]]
    BY <2>1, <2>2 DEF EndTile
  <2> QED  BY <1>1, <2>4, <2>5, <2>6 DEF Fields
<1> HIDE DEF tile
<1>7. /\ tile % 2 \in {0, 1} /\ (tile - 1) % 2 = 1 - (tile % 2) /\ 1 % 2 = 1
  BY <1>3, Parities
<1>8. /\ Position(w)' = (IF SkipsPeer(launch) THEN tile ELSE tile - 1) /\ ~Left(w)' /\ ~Left(w)
      /\ Position(w) = tile - 1 /\ (SkipsPeer(launch) => ~First(w)')
  <2>1. SkipsPeer(launch) => ~First(w)'  BY <1>2, <1>3, <1>6, <1>7 DEF First
  <2>2. Position(w)' = (IF SkipsPeer(launch) THEN tile ELSE tile - 1)
    BY <1>2, <1>5, <1>6, <2>1 DEF Position
  <2>3. ~Left(w)' /\ ~Left(w)  BY <1>3, <1>6 DEF Left
  <2>4. Position(w) = tile - 1  BY <1>3 DEF Position, tile
  <2> QED  BY <2>1, <2>2, <2>3, <2>4
<1>9. AtTiles(w)'
  <2>1. wg'[w].slot = SlotAt(Position(w))'  BY <1>5, <1>6, <1>8 DEF SlotAt
  <2> QED  BY <1>2, <1>3, <1>4, <1>5, <1>6, <1>8, <2>1 DEF AtTiles, Working, InEpilogue, First
<1>10. ASSUME NEW n \in Int PROVE HasRead(w, n)' <=> HasRead(w, n)
  <2>1. HasRead(w, n) <=> Mine(w, n) /\ n < tile - 1  BY <1>8 DEF HasRead
  <2>2. HasRead(w, n)' <=> Mine(w, n) /\ n < (IF SkipsPeer(launch) THEN tile ELSE tile - 1)
    BY <1>5, <1>6, <1>8 DEF HasRead
  <2>3. SkipsPeer(launch) => ~Mine(w, tile - 1)  BY <1>2, <1>3, <1>7 DEF Mine, tile
  <2>4. n < tile <=> n < tile - 1 \/ n = tile - 1  BY <1>3, <1>10
  <2> QED  BY <2>1, <2>2, <2>3, <2>4
<1>11. SlotRing'
  <2>1. \A v \in DOMAIN wg, n \in Int : n < Written => (HasRead(v, n)' <=> HasRead(v, n))
    BY <1>2, <1>4, <1>5, <1>6, <1>10, Stays DEF Slots
  <2> QED  BY <1>2, <1>4, <1>5, <1>6, <2>1, RingKept DEF Slots
<1>12. ran' = [t \in 1..N |-> IF Owner(t) = w THEN One(Done(w, t)') ELSE ran[t]]
  <2>1. ran = [t \in 1..N |-> One(Done(Owner(t), t))]  BY DEF Slots, RanOnce
  <2>2. ASSUME NEW t \in 1..N
        PROVE  /\ Done(w, t) <=> tile > t
               /\ Done(w, t)' <=> tile > t \/ tile = t
    BY <1>3, <1>6, <1>8 DEF Done, tile
  <2>3. Owner(tile) = w
    BY <1>2, <1>3, <1>7 DEF Owner, tile
  <2>4. \A t \in 1..N : ran'[t] = (IF Owner(t) = w THEN One(Done(w, t)') ELSE ran[t])
    <3> SUFFICES ASSUME NEW t \in 1..N
                 PROVE  ran'[t] = (IF Owner(t) = w THEN One(Done(w, t)') ELSE ran[t])
      OBVIOUS
    <3>1. CASE t = tile
      <4>1. ran[t] = 0 /\ ran'[t] = ran[t] + 1 /\ One(Done(w, t)') = 1
        BY <1>3, <1>4, <2>1, <2>2, <2>3, <3>1 DEF One
      <4> QED  BY <2>3, <3>1, <4>1
    <3>2. CASE t # tile
      <4>1. ran'[t] = ran[t] /\ ran[t] = One(Done(Owner(t), t))  BY <1>4, <2>1, <3>2
      <4> QED  BY <2>2, <3>2, <4>1 DEF One
    <3> QED  BY <3>1, <3>2
  <2>5. DOMAIN ran' = 1..N  BY <1>4, <2>1
  <2>6. ran' = [t \in 1..N |-> ran'[t]]  BY <1>4, <2>1
  <2> QED  BY <2>4, <2>6
<1> QED  BY <1>1, <1>4, <1>6, <1>9, <1>11, <1>12, OneMoves

(* What a step of the load warp leaves to be shown.                        *)
LEMMA LoadMoves ==
  ASSUME Shape, launch \in Launches, Slots, launch' = launch, wg' = wg, ran' = ran,
         LoadSlots', SlotRing', Written' \in Int, Written <= Written'
  PROVE  Slots'
<1>1. N \in Nat /\ N' = N /\ Written \in Int
      /\ DOMAIN wg = (IF launch.pingpong THEN {0, 1} ELSE {0})
  BY SlotLaunch, WrittenIs DEF Shape, Slots, N
<1>2. \A v \in DOMAIN wg : AtTiles(v)' /\ \A t : Done(v, t)' <=> Done(v, t)
  BY <1>1, Stays DEF Slots
<1>3. RanOnce'
  <2>1. \A t : (\A v : Done(v, t)' <=> Done(v, t)) /\ Owner(t)' = Owner(t)
    BY DEF Done, Left, Owner
  <2>2. \A t \in 1..N : One(Done(Owner(t), t))' = One(Done(Owner(t), t))
    BY <2>1 DEF One
  <2> QED  BY <1>1, <2>2 DEF Slots, RanOnce
<1> QED  BY <1>2, <1>3 DEF Slots

(* The slot about to be written is nobody's past.                          *)
LEMMA NotYetRead ==
  ASSUME Shape, launch \in Launches, Slots, NEW w \in DOMAIN wg,
         Written < N \/ (SkipsPeer(launch) /\ Written = N)
  PROVE  ~HasRead(w, Written)
<1>1. /\ N \in Nat /\ Written \in Nat /\ AtTiles(w) /\ w \in {0, 1}
      /\ SkipsPeer(launch) \in BOOLEAN
      /\ wg[w].tile \in 1..N + 1 /\ wg[w].tile - 1 <= Written
  BY SlotLaunch, WrittenIs DEF Shape, Slots, AtTiles
<1>2. CASE Left(w)
  <2>1. wg[w].tile = N + 1 /\ (SkipsPeer(launch) /\ Written <= N => ~Mine(w, N))
    BY <1>1, <1>2 DEF AtTiles
  <2> QED  BY <1>1, <2>1 DEF HasRead
<1>3. CASE ~Left(w)
  <2> SUFFICES ASSUME Written < Position(w), Mine(w, Written) PROVE FALSE
    BY <1>3 DEF HasRead
  <2>1. /\ SkipsPeer(launch) /\ wg[w].at = "read" /\ ~First(w) /\ wg[w].tile = Written + 1
    BY <1>1 DEF Position
  <2>2. (Written + 1) % 2 = 1 - (Written % 2) /\ Written % 2 \in {0, 1}  BY <1>1, Parities
  <2>3. wg[w].tile % 2 = 1 - w  BY <1>1, <2>1 DEF AtTiles
  <2> QED  BY <1>1, <2>1, <2>2, <2>3 DEF Mine
<1> QED  BY <1>2, <1>3

(* The load warp writes a slot.                                            *)
LEMMA WritesSlot ==
  ASSUME Shape, Buffers, Slots, LoadAdvance \/ LoadExtra
  PROVE  Slots'
<1>1. launch \in Launches  BY DEF Buffers, Launched
<1>2. /\ N \in Nat /\ Written \in Nat /\ LoadSlots /\ SlotRing /\ DOMAIN wg = Consumers(launch)
  BY <1>1, SlotLaunch, WrittenIs DEF Shape, Slots
<1>3. launch' = launch /\ wg' = wg /\ ran' = ran  BY DEF LoadAdvance, LoadExtra
<1>4. /\ N' = N /\ SlotDepth' = SlotDepth /\ SkipsPeer(launch)' = SkipsPeer(launch)
      /\ \A n : SlotAt(n)' = SlotAt(n)
  BY <1>3 DEF N, SlotDepth, SkipsPeer, SlotAt
<1>5. PICK t : /\ IsFree(slot, SlotProducer(load.slot)) /\ slot' = Fill(slot, load.slot.index, t)
               /\ \/ LoadAdvance /\ t = load.tile + 1
                  \/ LoadExtra /\ t = load.tile
  BY DEF LoadAdvance, LoadExtra, WriteSlot
<1>6. /\ LoadsRead = Written /\ load.slot = SlotAt(Written) /\ t = TileIn(Written)
      /\ Written < N \/ (SkipsPeer(launch) /\ Written = N)
      /\ Written' = Written + 1 /\ LoadsRead' = Written /\ LoadSlots'
  <2>1. CASE LoadAdvance /\ t = load.tile + 1
    <3>1. /\ load.at = "tile" /\ load.tile \in 1..N /\ load' = [load EXCEPT !.at = "read"]
      BY <1>2, <2>1 DEF LoadAdvance, Valid
    <3>2. Written = load.tile - 1 /\ LoadsRead = Written /\ load.slot = SlotAt(Written)
      BY <1>2, <3>1 DEF LoadSlots, Written, LoadsRead
    <3>3. /\ load'.at = "read" /\ load'.tile = load.tile /\ load'.slot = load.slot
          /\ DOMAIN load' = DOMAIN load
      BY <1>2, <3>1 DEF LoadSlots
    <3>4. Written' = load.tile /\ LoadsRead' = load.tile - 1
      BY <1>2, <3>1, <3>3 DEF Written, LoadsRead
    <3>5. LoadSlots'
      BY <1>2, <1>4, <3>1, <3>2, <3>3, <3>4 DEF LoadSlots, SlotAt
    <3> QED  BY <1>2, <2>1, <3>1, <3>2, <3>4, <3>5 DEF TileIn
  <2>2. CASE LoadExtra /\ t = load.tile
    <3>1. /\ load.at = "extra" /\ load' = [load EXCEPT !.at = "extraRead"]
      BY <2>2 DEF LoadExtra
    <3>2. /\ Written = N /\ LoadsRead = Written /\ load.slot = SlotAt(Written)
          /\ load.tile = N + 1 /\ SkipsPeer(launch)
      BY <1>2, <3>1 DEF LoadSlots, Written, LoadsRead
    <3>3. /\ load'.at = "extraRead" /\ load'.tile = load.tile /\ load'.slot = load.slot
          /\ DOMAIN load' = DOMAIN load
      BY <1>2, <3>1 DEF LoadSlots
    <3>4. Written' = N + 1 /\ LoadsRead' = N
      BY <1>2, <1>4, <3>3 DEF Written, LoadsRead
    <3>5. LoadSlots'
      BY <1>2, <1>4, <3>2, <3>3, <3>4 DEF LoadSlots, SlotAt
    <3> QED  BY <1>2, <2>2, <3>2, <3>4, <3>5 DEF TileIn
  <2> QED  BY <1>5, <2>1, <2>2
<1>7. \A w \in DOMAIN wg, n \in Int : HasRead(w, n)' <=> HasRead(w, n)
  BY <1>2, <1>3, <1>6, Stays DEF Slots
<1>8. \A w \in DOMAIN wg : ~HasRead(w, Written)  BY <1>1, <1>6, NotYetRead
<1>9. slot' = Fill(slot, SlotAt(Written).index, TileIn(Written))
      /\ IsFree(slot, SlotProducer(SlotAt(Written)))
  BY <1>5, <1>6
<1>10. SlotRing'  BY <1>1, <1>2, <1>3, <1>6, <1>7, <1>8, <1>9, RingWrite
<1> QED  BY <1>1, <1>2, <1>3, <1>6, <1>10, LoadMoves

(* ... and reads it.                                                       *)
LEMMA LoadReadsSlot ==
  ASSUME Shape, Buffers, Slots, LoadRead \/ LoadExtraRead
  PROVE  Slots'
<1> DEFINE p == Written - 1
<1>1. launch \in Launches  BY DEF Buffers, Launched
<1>2. /\ N \in Nat /\ Written \in Nat /\ LoadSlots /\ SlotRing /\ DOMAIN wg = Consumers(launch)
      /\ SlotDepth \in {1, 2} /\ Depth(slot) = SlotDepth
  BY <1>1, SlotLaunch, WrittenIs, DepthIs DEF Shape, Slots
<1>3. launch' = launch /\ wg' = wg /\ ran' = ran
  BY DEF LoadRead, LoadExtraRead, LoadReads
<1>4. /\ N' = N /\ SlotDepth' = SlotDepth /\ SkipsPeer(launch)' = SkipsPeer(launch)
      /\ \A n : SlotAt(n)' = SlotAt(n)
  BY <1>3 DEF N, SlotDepth, SkipsPeer, SlotAt
<1>5. PICK next :
        /\ IsFull(slot, load.slot) /\ ReadSlot(load.slot)
        /\ load' = [load EXCEPT !.at = next, !.tile = slot.data[load.slot.index], !.k = 0,
                                !.slot = Advance(@, 1, Depth(slot))]
        /\ \/ load.at = "read" /\ next = "tile"
           \/ load.at = "extraRead" /\ next = "abTail"
  BY DEF LoadRead, LoadExtraRead, LoadReads
<1>6. /\ load'.at = next /\ load'.tile = slot.data[load.slot.index]
      /\ load'.slot = Advance(load.slot, 1, SlotDepth) /\ DOMAIN load' = DOMAIN load
  BY <1>2, <1>5 DEF LoadSlots
<1>7. /\ LoadsRead = p /\ load.slot = SlotAt(p) /\ p \in Nat
      /\ load.at = "read" => load.tile \in 1..N /\ p = load.tile - 1
      /\ load.at = "extraRead" => p = N /\ SkipsPeer(launch)
  BY <1>2, <1>5 DEF LoadSlots, Written, LoadsRead
<1> HIDE DEF p
<1>8. p \in Live /\ load'.tile = TileIn(p)
  <2>1. p >= Written - SlotDepth /\ p < Written + SlotDepth  BY <1>2 DEF p
  <2> QED  BY <1>2, <1>5, <1>6, <1>7, <2>1, PassesWritten
<1>9. Written' = Written /\ LoadsRead' = Written /\ LoadSlots'
  <2>1. load'.slot = SlotAt(p + 1) /\ p + 1 = Written  BY <1>2, <1>6, <1>7, SlotOn DEF p
  <2>2. CASE load.at = "read"
    <3>1. load'.at = "tile" /\ load'.tile = p + 2  BY <1>2, <1>5, <1>6, <1>7, <1>8, <2>2 DEF TileIn
    <3>2. Written' = Written /\ LoadsRead' = Written
      BY <1>2, <1>7, <2>1, <3>1 DEF Written, LoadsRead
    <3> QED  BY <1>2, <1>4, <1>6, <1>7, <2>1, <2>2, <3>1, <3>2 DEF LoadSlots, SlotAt
  <2>3. CASE load.at = "extraRead"
    <3>1. load'.at = "abTail" /\ load'.tile = N + 1  BY <1>2, <1>5, <1>6, <1>7, <1>8, <2>3 DEF TileIn
    <3>2. Written' = N + 1 /\ LoadsRead' = N + 1
      BY <1>4, <1>7, <2>3, <3>1 DEF Written, LoadsRead
    <3>3. Written = N + 1  BY <1>7, <2>1, <2>3
    <3> QED  BY <1>2, <1>4, <1>6, <1>7, <2>1, <2>3, <3>1, <3>2, <3>3 DEF LoadSlots, SlotAt
  <2> QED  BY <1>5, <2>2, <2>3
<1>10. \A w \in DOMAIN wg, n \in Int : HasRead(w, n)' <=> HasRead(w, n)
  BY <1>2, <1>3, <1>9, Stays DEF Slots
<1>11. \A n \in Live : Readers(n)' = Readers(n) + One(n = p)
  <2> SUFFICES ASSUME NEW n \in Live PROVE Readers(n)' = Readers(n) + One(n = p)  OBVIOUS
  <2>1. n \in Int /\ n < Written  BY <1>2 DEF Live
  <2>2. (HasRead(0, n)' <=> HasRead(0, n)) /\ (HasRead(1, n)' <=> HasRead(1, n))
    BY <1>3, <1>10, <2>1 DEF HasRead
  <2>3. n < p \/ n = p  BY <1>2, <2>1 DEF p
  <2> QED  BY <1>7, <1>9, <2>1, <2>2, <2>3 DEF Readers, One
<1>12. slot' = Release(slot, SlotAt(p), SlotReaders(launch))  BY <1>5, <1>7 DEF ReadSlot
<1>13. SlotRing'  BY <1>1, <1>2, <1>3, <1>8, <1>9, <1>10, <1>11, <1>12, RingRead
<1> QED  BY <1>1, <1>2, <1>3, <1>9, <1>13, LoadMoves

(* The load warp's other steps, and those of the copies.                   *)
LEMMA ElsewhereSlots ==
  ASSUME Shape, Buffers, Slots,
         \/ LoadKTile \/ LoadLoopEnds \/ LoadTails
         \/ UNCHANGED <<launch, load, wg, slot, ran>>
  PROVE  Slots'
<1>1. launch \in Launches  BY DEF Buffers, Launched
<1>2. /\ N \in Nat /\ Written \in Nat /\ LoadSlots /\ SlotRing /\ DOMAIN wg = Consumers(launch)
      /\ SlotDepth \in {1, 2} /\ SkipsPeer(launch) \in BOOLEAN
  BY <1>1, SlotLaunch, WrittenIs DEF Shape, Slots
<1>3. launch' = launch /\ wg' = wg /\ ran' = ran /\ slot' = slot
  BY DEF LoadKTile, LoadLoopEnds, LoadTails
<1>4. /\ N' = N /\ SlotDepth' = SlotDepth /\ SkipsPeer(launch)' = SkipsPeer(launch)
      /\ \A n : SlotAt(n)' = SlotAt(n)
  BY <1>3 DEF N, SlotDepth, SkipsPeer, SlotAt
<1>5. /\ load'.tile = load.tile /\ load'.slot = load.slot /\ DOMAIN load' = DOMAIN load
      /\ \/ load'.at = load.at
         \/ /\ load.at = "tile" /\ load.tile = N + 1
            /\ load'.at = IF SkipsPeer(launch) THEN "extra" ELSE "abTail"
         \/ load.at = "abTail" /\ load'.at = "slotTail"
         \/ load.at = "slotTail" /\ load'.at = "done"
  <2>1. CASE LoadKTile  BY <1>2, <2>1 DEF LoadKTile, LoadSlots
  <2>2. CASE LoadLoopEnds
    <3>1. load.at = "tile" /\ load.tile = N + 1  BY <1>2, <2>2 DEF LoadLoopEnds, LoadSlots, Valid
    <3>2. load' = [load EXCEPT !.at = IF SkipsPeer(launch) THEN "extra" ELSE "abTail"]
      BY <2>2 DEF LoadLoopEnds
    <3> QED  BY <1>2, <3>1, <3>2 DEF LoadSlots
  <2>3. CASE LoadTails
    <3>1. \/ load.at = "abTail" /\ load' = [load EXCEPT !.at = "slotTail"]
          \/ load.at = "slotTail" /\ load' = [load EXCEPT !.at = "done"]
      BY <2>3 DEF LoadTails
    <3> QED  BY <1>2, <3>1 DEF LoadSlots
  <2> QED  BY <2>1, <2>2, <2>3
<1>6. Written' = Written /\ LoadsRead' = LoadsRead
  BY <1>2, <1>4, <1>5 DEF Written, LoadsRead, LoadSlots
<1>7. LoadSlots'  BY <1>2, <1>4, <1>5, <1>6 DEF LoadSlots, SlotAt
<1>8. \A w \in DOMAIN wg, n \in Int : HasRead(w, n)' <=> HasRead(w, n)
  BY <1>2, <1>3, <1>6, Stays DEF Slots
<1>9. SlotRing'  BY <1>2, <1>3, <1>6, <1>8, RingKept
<1> QED  BY <1>1, <1>2, <1>3, <1>6, <1>7, <1>9, LoadMoves

LEMMA InitSlots == ASSUME Init, Shape, Buffers PROVE Slots
<1>1. /\ launch \in Launches /\ wg = [w \in Consumers(launch) |-> WarpgroupInit] /\ load = LoadInit
      /\ slot = Ring(IF launch.pingpong THEN 2 ELSE 1, 0) /\ ran = [t \in 1..Len(launch.work) |-> 0]
  BY DEF Init
<1>2. /\ N \in Nat /\ SlotDepth \in {1, 2} /\ SlotDepth = (IF launch.pingpong THEN 2 ELSE 1)
      /\ DOMAIN wg = (IF launch.pingpong THEN {0, 1} ELSE {0})
  BY <1>1, SlotLaunch DEF Shape
<1>3. \A w \in DOMAIN wg : wg[w].at = "start" /\ wg[w].tile = 1 /\ wg[w].slot = Consumer
  BY <1>1 DEF WarpgroupInit
<1>4. Written = 0 /\ LoadsRead = 0 /\ LoadSlots /\ SlotAt(0) = Consumer
  <2>1. load.at = "tile" /\ load.tile = 1 /\ load.slot = Consumer /\ {"at", "tile", "k", "ab", "slot"} \subseteq DOMAIN load
    BY <1>1 DEF LoadInit
  <2>2. Written = 0 /\ LoadsRead = 0  BY <2>1 DEF Written, LoadsRead
  <2>3. 0 % SlotDepth = 0 /\ 0 \div SlotDepth = 0 /\ 0 % 2 = 0  BY <1>2, Rounds
  <2>4. SlotAt(0) = Consumer  BY <2>3 DEF SlotAt, Consumer
  <2> QED  BY <1>2, <2>1, <2>2, <2>4 DEF LoadSlots
<1>5. ASSUME NEW w \in DOMAIN wg PROVE AtTiles(w) /\ ~Left(w) /\ Position(w) = 0
  <2>1. ~Left(w) /\ Position(w) = 0  BY <1>3 DEF Left, Position
  <2>2. wg[w].at = "start" /\ wg[w].tile = 1 /\ wg[w].slot = SlotAt(Position(w))
    BY <1>3, <1>4, <2>1
  <2> QED  BY <1>2, <1>4, <2>1, <2>2 DEF AtTiles, Working, InEpilogue
<1>6. RanOnce
  <2>1. \A t \in 1..N : Owner(t) \in DOMAIN wg
    <3>1. \A t \in 1..N : t % 2 \in {0, 1}  BY Parities
    <3> QED  BY <1>2, <3>1 DEF Owner
  <2>2. \A t \in 1..N : One(Done(Owner(t), t)) = 0
    BY <1>2, <1>3, <1>5, <2>1 DEF Done, One
  <2> QED  BY <1>1, <2>2 DEF RanOnce, N
<1>7. SlotRing
  <2>1. /\ slot = [data |-> [s \in 0..SlotDepth - 1 |-> 0], full |-> [s \in 0..SlotDepth - 1 |-> Fresh],
                   empty |-> [s \in 0..SlotDepth - 1 |-> Fresh]]
    BY <1>1, <1>2 DEF Ring
  <2>2. Fresh \in Bar  BY DEF Fresh, Bar
  <2>3. ASSUME NEW n \in Live PROVE Slotted(n)
    <3>1. n \in Int /\ n < 0 /\ n + SlotDepth \in 0..SlotDepth - 1  BY <1>2, <1>4, <2>3 DEF Live
    <3>2. n % SlotDepth \in 0..SlotDepth - 1 /\ n \div SlotDepth = -1
      <4>1. n + SlotDepth \in Int  BY <3>1
      <4>2. (n + SlotDepth) \div SlotDepth = 0  BY <1>2, <3>1, <4>1, Rounds
      <4> QED  BY <1>2, <3>1, <4>2, Rounds
    <3>3. Readers(n) = SlotReaders(launch)
      <4>1. \A w \in DOMAIN wg : Mine(w, n) => HasRead(w, n)  BY <1>5, <3>1 DEF HasRead
      <4> QED  BY <1>1, <1>4, <3>1, <4>1, ReadersAre DEF Shape
    <3>4. (-1 + 1) % 2 = 0  OBVIOUS
    <3>5. BarrierAt(n, TRUE, 0) = Fresh /\ BarrierAt(n, TRUE, Readers(n)) = Fresh
      BY <3>2, <3>4 DEF BarrierAt, Fresh
    <3> QED  BY <2>1, <3>1, <3>2, <3>3, <3>5 DEF Slotted, BarrierAt
  <2>4. ASSUME NEW w \in DOMAIN wg, NEW n \in Nat, Mine(w, n), n < Written - SlotDepth
        PROVE  HasRead(w, n)
    BY <1>2, <1>4, <2>4
  <2> QED  BY <2>1, <2>2, <2>3, <2>4 DEF SlotRing
<1> QED  BY <1>4, <1>5, <1>6, <1>7 DEF Slots

(* The steps of a consumer on its tile.                                    *)
LEMMA WorkSlots ==
  ASSUME Shape, Buffers, Slots, NEW w \in DOMAIN wg,
         \/ MmaTurn(w) \/ MmaFeed(w) \/ MmaRetire(w) \/ MmaHandOver(w) \/ EpiTurn(w) \/ LoadC(w)
         \/ ReadC(w) \/ RefillC(w) \/ AcquireStore(w) \/ Store(w) \/ End(w)
  PROVE  Slots'
<1> DEFINE Kept ==
             /\ launch' = launch /\ load' = load /\ slot' = slot /\ ran' = ran
             /\ DOMAIN wg' = DOMAIN wg /\ \A v \in DOMAIN wg : v # w => wg'[v] = wg[v]
             /\ wg'[w].tile = wg[w].tile /\ wg'[w].slot = wg[w].slot
             /\ \/ wg[w].at \in Working /\ wg'[w].at \in Working
                \/ wg[w].at = "end" /\ wg'[w].at = "done"
<1>1. launch \in Launches /\ Fields \subseteq DOMAIN wg[w]  BY DEF Buffers, Launched, Placed
<1>2. ASSUME MmaTurn(w) PROVE Kept  BY <1>1, <1>2 DEF MmaTurn, Fields, Working, InEpilogue
<1>3. ASSUME MmaFeed(w) PROVE Kept  BY <1>1, <1>3 DEF MmaFeed, AtStep, StepDone, Fields, Working, InEpilogue
<1>4. ASSUME MmaRetire(w) PROVE Kept  BY <1>1, <1>4 DEF MmaRetire, AtStep, StepDone, Fields, Working, InEpilogue
<1>5. ASSUME MmaHandOver(w) PROVE Kept  BY <1>1, <1>5 DEF MmaHandOver, StepDone, Fields, Working, InEpilogue
<1>6. ASSUME EpiTurn(w) PROVE Kept  BY <1>1, <1>6 DEF EpiTurn, Fields, Working, InEpilogue
<1>7. ASSUME LoadC(w) PROVE Kept  BY <1>1, <1>7 DEF LoadC, Fields, Working, InEpilogue
<1>8. ASSUME ReadC(w) PROVE Kept  BY <1>1, <1>8 DEF ReadC, Fields, Working, InEpilogue
<1>9. ASSUME RefillC(w) PROVE Kept  BY <1>1, <1>9 DEF RefillC, Fields, Working, InEpilogue
<1>10. ASSUME AcquireStore(w) PROVE Kept  BY <1>1, <1>10 DEF AcquireStore, Fields, Working, InEpilogue
<1>11. ASSUME Store(w) PROVE Kept  BY <1>1, <1>11 DEF Store, Fields, Working, InEpilogue
<1>12. ASSUME End(w) PROVE Kept  BY <1>1, <1>12 DEF End, Fields, Working, InEpilogue
<1>13. Kept  BY <1>2, <1>3, <1>4, <1>5, <1>6, <1>7, <1>8, <1>9, <1>10, <1>11, <1>12
<1> QED  BY <1>1, <1>13, OnTile

LEMMA NextSlots == IInv /\ Buffers /\ Slots /\ [Next]_vars => Slots'
<1> SUFFICES ASSUME IInv, Buffers, Slots, [Next]_vars PROVE Slots'  OBVIOUS
<1>1. Shape  BY DEF IInv
<1>2. ASSUME NEW w \in DOMAIN wg, WarpgroupNext(w) PROVE Slots'
  BY <1>1, <1>2, StartSlots, ReadSlots, WorkSlots, EndTileSlots DEF WarpgroupNext
<1>3. ASSUME LoadNext PROVE Slots'
  BY <1>1, <1>3, WritesSlot, LoadReadsSlot, ElsewhereSlots DEF LoadNext
<1>4. ASSUME UNCHANGED <<launch, load, wg, slot, ran>> PROVE Slots'
  BY <1>1, <1>4, ElsewhereSlots
<1>5. ASSUME NEW w, StoreRetires(w) PROVE UNCHANGED <<launch, load, wg, slot, ran>>
  BY <1>5 DEF StoreRetires
<1>6. ASSUME Land PROVE UNCHANGED <<launch, load, wg, slot, ran>>  BY <1>6 DEF Land
<1> QED  BY <1>2, <1>3, <1>4, <1>5, <1>6 DEF Next, vars

(* No tile is finished twice, and every tile is when all have left: the    *)
(* load warp and the consumers pass tiles through slots whose barriers     *)
(* have one parity bit, and a warpgroup moves past its peer's slots unread *)
(* (tile_scheduler.py get_current_work, advance_to_next_work).             *)
THEOREM PingpongTilesOnce == Spec => []TilesOnce
<1>1. IInv /\ Buffers /\ Slots => TilesOnce
  <2> SUFFICES ASSUME IInv, Buffers, Slots, NEW t \in 1..N
               PROVE  ran[t] <= 1 /\ (Finished => ran[t] = 1)
    BY DEF TilesOnce
  <2>1. ran[t] = One(Done(Owner(t), t))  BY DEF Slots, RanOnce
  <2>2. Owner(t) \in DOMAIN wg
    <3>1. DOMAIN wg = (IF launch.pingpong THEN {0, 1} ELSE {0})
      BY DEF IInv, Shape, Consumers
    <3>2. t % 2 \in {0, 1}  BY Parities
    <3> QED  BY <3>1, <3>2 DEF Owner
  <2> QED  BY <2>1, <2>2 DEF One, Done, Left, Finished
<1>2. Init => IInv /\ Buffers /\ Slots  BY InitIInv, InitBuffers, InitSlots DEF IInv
<1>3. IInv /\ Buffers /\ Slots /\ [Next]_vars => (IInv /\ Buffers /\ Slots)'
  BY NextIInv, NextBuffers, NextSlots
<1> QED  BY <1>1, <1>2, <1>3, PTL DEF Spec
=============================================================================
