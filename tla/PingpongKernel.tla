--------------------------- MODULE PingpongKernel ---------------------------
(***************************************************************************)
(* The persistent loop of one CTA of the SM90 and SM120 GEMMs (gemm_sm90,  *)
(* gemm_sm120.py): a load warp, which is also the scheduler warp,          *)
(* and one consumer (cooperative: all mma warpgroups on one tile) or two   *)
(* (pingpong: two warpgroups on alternate tiles).  They share three rings  *)
(* in shared memory: the A/B stages, the work-tile slots, the C stages;    *)
(* and the ring of epilogue buffers that in-flight TMA stores read.        *)
(*                                                                         *)
(* An mbarrier keeps one parity bit, so a waiter whose own phase bit is    *)
(* wrong does not fail: it passes early or never.  The warpgroups keep no  *)
(* common counter; each predicts how far its peer moves every ring.        *)
(*                                                                         *)
(* One process stands for all warps of a warpgroup: the arrivals of its    *)
(* warps are counted as one, and the arrive counts are scaled alike.       *)
(***************************************************************************)
EXTENDS FiniteSets, MmaMainloop

CONSTANTS
  Launches,   \* the configurations Init chooses from
  AbStages    \* stages of the A/B ring

(* A launch: pingpong or cooperative; split: SERIAL or PARALLEL split-K;   *)
(* dynamic: the k-tile count may differ from tile to tile (varlen_k or     *)
(* split-K); subtiles, cStages, epiStages: epilogue subtiles per tile and  *)
(* the depths of the two epilogue rings; work: the tiles this cluster      *)
(* draws, each with its k-tile count and whether it runs the epilogue (a   *)
(* split that is not the last only commits its partial); loop: the main    *)
(* loop, of SM120 if it multiplies by warps; clc: SM120's draws by         *)
(* hardware, whose slots are always read one at a time.                    *)
LaunchType ==
  [loop : LoopType, clc : BOOLEAN, pingpong : BOOLEAN, split : BOOLEAN, dynamic : BOOLEAN,
   subtiles : Nat \ {0}, cStages : Nat \ {0}, epiStages : Nat \ {0}, work : Seq([k : Nat, epilogue : BOOLEAN])]

Sm120(l) == l.loop.mma = "warp"
ASSUME LaunchesAssumption ==
  \A l \in Launches :
    /\ l \in LaunchType /\ (l.split => l.dynamic)
    /\ (~l.split => \A t \in DOMAIN l.work : l.work[t].epilogue)
    /\ (~l.dynamic => \A t \in DOMAIN l.work : l.work[t].k = l.work[1].k /\ l.work[t].k > 0)
    /\ LoopOK(l.loop) /\ (l.clc => Sm120(l)) /\ (l.pingpong => ~l.loop.decode)
    /\ (l.dynamic /\ ~Sm120(l) => l.work # <<>>)
ASSUME StagesAssumption == AbStages \in Nat \ {0, 1}

VARIABLES
  launch,
  load,     \* the load/scheduler warp: where it is, its tile, its ring states
  wg,       \* the consumers, likewise
  regs,     \* the consumers' registers
  ab, slot, c,   \* the rings: contents and the full and empty mbarriers
  signal,   \* signal[stage][w]: arrivals waiting at w's named barrier
  flying,   \* TMA loads issued and not landed
  stores,   \* stores[w]: buffers that w's TMA stores still read, oldest first
  ran       \* how often each tile was finished
vars == <<launch, load, wg, regs, ab, slot, c, signal, flying, stores, ran>>

N == Len(launch.work)
Valid(t) == t \in 1..N
K(t) == launch.work[t].k
Epilogue(t) == launch.work[t].epilogue
Consumers(l) == IF l.pingpong THEN {0, 1} ELSE {0}
Peer(w) == 1 - w

(* Pingpong with equal tiles: a warpgroup reads every other slot only, and *)
(* skips the peer's share of the rings by a constant; not when the slots   *)
(* hold hardware responses, which nobody could add to at the end.          *)
SkipsPeer(l) == l.pingpong /\ ~l.dynamic /\ ~l.clc

-----------------------------------------------------------------------------
(* Rings, mbarriers and pipeline states.                                   *)

Nothing == <<0, 0>>
Fresh == [parity |-> 0, arrived |-> 0]
Arrive(b, count) ==
  IF b.arrived + 1 = count THEN [parity |-> 1 - b.parity, arrived |-> 0]
                           ELSE [b EXCEPT !.arrived = @ + 1]
Ring(n, d) ==
  [data |-> [s \in 0..n - 1 |-> d], full |-> [s \in 0..n - 1 |-> Fresh],
   empty |-> [s \in 0..n - 1 |-> Fresh]]

Producer == [index |-> 0, phase |-> 1]
Consumer == [index |-> 0, phase |-> 0]
Depth(r) == Cardinality(DOMAIN r.data)
\* Variation: the phase flips once however many times the ring is crossed.
FlipOnce(st, n, stages) ==
  [index |-> (st.index + n) % stages,
   phase |-> IF st.index + n >= stages THEN 1 - st.phase ELSE st.phase]
Advance(st, n, stages) ==
  [index |-> (st.index + n) % stages,
   phase |-> (st.phase + (st.index + n) \div stages) % 2]

Passes(b, st) == b.parity # st.phase
IsFull(r, st) == Passes(r.full[st.index], st)
IsFree(r, st) == Passes(r.empty[st.index], st)
Fill(r, s, d) == [r EXCEPT !.data[s] = d, !.full[s] = Arrive(@, 1)]
Release(r, st, count) == [r EXCEPT !.empty[st.index] = Arrive(@, count)]

(* From the moment a TMA load is issued the stage holds neither the old    *)
(* data nor the new.                                                       *)
Issue(r, st) == [r EXCEPT !.data[st.index] = Nothing]
Flight(ring, st, d) == [ring |-> ring, stage |-> st.index, data |-> d]

\* Variation: both warpgroups are counted although only one reads a slot.
AllWarpgroups(l) == Cardinality(Consumers(l)) + 1
SlotReaders(l) == (IF SkipsPeer(l) THEN 1 ELSE Cardinality(Consumers(l))) + 1
ReadSlot(st) == slot' = Release(slot, st, SlotReaders(launch))

(* The scheduler's producer state is its consumer state with the phase     *)
(* flipped: every slot is filled once per read.                            *)
SlotProducer(st) == [st EXCEPT !.phase = 1 - @]

-----------------------------------------------------------------------------
LoadInit == [at |-> "tile", tile |-> 1, k |-> 0, ab |-> Producer, slot |-> Consumer]
WarpgroupInit ==
  [at |-> "start", tile |-> 1, step |-> 1, first |-> 0, ab |-> Consumer, used |-> Consumer,
   slot |-> Consumer, cRead |-> Consumer, cLoad |-> Producer, executed |-> 0, sub |-> 0]

Init ==
  /\ launch \in Launches
  /\ load = LoadInit
  /\ wg = [w \in Consumers(launch) |-> WarpgroupInit]
  /\ regs = [w \in Consumers(launch) |-> Registers(launch.loop)]
  /\ ab = Ring(AbStages, Nothing)
  /\ slot = Ring(IF launch.pingpong THEN 2 ELSE 1, 0)
  /\ c = Ring(launch.cStages, Nothing)
  /\ signal = [s \in {"mma", "epi"} |-> [w \in {0, 1} |-> 0]]
  /\ flying = {} /\ stores = [w \in Consumers(launch) |-> <<>>]
  /\ ran = [t \in 1..Len(launch.work) |-> 0]

(* The load warp: every k-tile of every tile, then the next tile into the  *)
(* slot ring, which it also reads itself; at the end the two tails.        *)

LoadKTile ==
  /\ load.at = "tile" /\ Valid(load.tile) /\ load.k < K(load.tile)
  /\ IsFree(ab, load.ab)
  /\ ab' = Issue(ab, load.ab)
  /\ flying' = flying \cup {Flight("ab", load.ab, <<load.tile, load.k>>)}
  /\ load' = [load EXCEPT !.k = @ + 1, !.ab = Advance(@, 1, AbStages)]
  /\ UNCHANGED <<launch, wg, regs, slot, c, signal, stores, ran>>

WriteSlot(t) ==
  /\ IsFree(slot, SlotProducer(load.slot))
  /\ slot' = Fill(slot, load.slot.index, t)

(* advance_to_next_work: the cluster's next draw goes into the slot.       *)
LoadAdvance ==
  /\ load.at = "tile" /\ Valid(load.tile) /\ load.k = K(load.tile)
  /\ WriteSlot(load.tile + 1)
  /\ load' = [load EXCEPT !.at = "read"]
  /\ UNCHANGED <<launch, wg, regs, ab, c, signal, flying, stores, ran>>

LoadReads(next) ==
  /\ IsFull(slot, load.slot)
  /\ ReadSlot(load.slot)
  /\ load' = [load EXCEPT !.at = next, !.tile = slot.data[load.slot.index], !.k = 0,
                          !.slot = Advance(@, 1, Depth(slot))]
  /\ UNCHANGED <<launch, wg, regs, ab, c, signal, flying, stores, ran>>

LoadRead == load.at = "read" /\ LoadReads("tile")

LoadLoopEnds ==
  /\ load.at = "tile" /\ ~Valid(load.tile)
  /\ load' = [load EXCEPT !.at = IF SkipsPeer(launch) THEN "extra" ELSE "abTail"]
  /\ UNCHANGED <<launch, wg, regs, ab, slot, c, signal, flying, stores, ran>>

(* One more slot, invalid, for the warpgroup that skips the first one.     *)
LoadExtra ==
  /\ load.at = "extra"
  /\ WriteSlot(load.tile)
  /\ load' = [load EXCEPT !.at = "extraRead"]
  /\ UNCHANGED <<launch, wg, regs, ab, c, signal, flying, stores, ran>>
LoadExtraRead == load.at = "extraRead" /\ LoadReads("abTail")

(* producer_tail waits until the stage filled last has been released.      *)
Tail1(r, st) == IsFree(r, Advance(st, Depth(r) - 1, Depth(r)))
LoadTails ==
  /\ \/ load.at = "abTail" /\ Tail1(ab, load.ab) /\ load' = [load EXCEPT !.at = "slotTail"]
     \/ /\ load.at = "slotTail" /\ Tail1(slot, SlotProducer(load.slot))
        /\ load' = [load EXCEPT !.at = "done"]
  /\ UNCHANGED <<launch, wg, regs, ab, slot, c, signal, flying, stores, ran>>

LoadNext ==
  \/ LoadKTile \/ LoadAdvance \/ LoadRead \/ LoadLoopEnds \/ LoadExtra \/ LoadExtraRead
  \/ LoadTails

-----------------------------------------------------------------------------
(* What a warpgroup predicts of its peer.                                  *)

StaticK == IF N = 0 THEN 1 ELSE K(1)
\* Variation: the peer is taken to load C for every tile it works on.
CLoadsAlways(t) == launch.subtiles
CLoads(t) == IF launch.split /\ ~Epilogue(t) THEN 0 ELSE launch.subtiles
PassRings(me, k, n) ==
  [me EXCEPT !.ab = Advance(@, k, AbStages), !.cRead = Advance(@, n, launch.cStages),
             !.cLoad = Advance(@, n, launch.cStages)]
PassPeer(me, t) ==
  IF SkipsPeer(launch) THEN PassRings(me, StaticK, launch.subtiles)
                       ELSE PassRings(me, K(t), CLoads(t))

(* advance_to_next_work for a consumer: n tiles on, n - 1 slots unread.    *)
NextWork(me, n) ==
  [me EXCEPT !.executed = @ + n, !.slot = Advance(@, n - 1, Depth(slot))]
\* Variation: the peer's slot, though left unread, is counted as no tile.
StrideOne(l) == 1
Stride(l) == IF SkipsPeer(l) THEN 2 ELSE 1

Signal(stage, w) ==
  IF launch.pingpong THEN [signal EXCEPT ![stage][w] = @ + 1] ELSE signal
Turn(stage, w) ==
  /\ launch.pingpong => signal[stage][w] > 0
  /\ signal' = IF launch.pingpong THEN [signal EXCEPT ![stage][w] = @ - 1] ELSE signal

\* Variation: the second warpgroup, too, opens its epilogue at the start.
BothStart(w) ==
  IF w = 0 THEN [stage \in {"mma", "epi"} |-> [signal[stage] EXCEPT ![0] = @ + 1]]
           ELSE [signal EXCEPT !["epi"][1] = @ + 1]
StartSignal(w) ==
  IF w = 0 THEN [stage \in {"mma", "epi"} |-> [signal[stage] EXCEPT ![0] = @ + 1]] ELSE signal

(* The first warpgroup owns tile 1 without reading a slot; the second      *)
(* passes it over and reads its first tile from the ring.  SM120 checks    *)
(* tile 1 unless it skips: a padding cluster draws no other.               *)
ChecksFirst == Sm120(launch) /\ ~SkipsPeer(launch)
Start(w) ==
  /\ wg[w].at = "start"
  /\ signal' = IF launch.pingpong THEN StartSignal(w) ELSE signal
  /\ wg' = [wg EXCEPT ![w] =
       IF w = 0 THEN [@ EXCEPT !.at = IF Valid(1) THEN "turn" ELSE "end"]
                ELSE IF ChecksFirst /\ ~Valid(1) THEN [@ EXCEPT !.at = "end"]
                ELSE [NextWork(PassPeer(@, 1), 1) EXCEPT !.at = "read"]]
  /\ UNCHANGED <<launch, load, regs, ab, slot, c, flying, stores, ran>>

(* get_current_work.                                                       *)
Read(w) ==
  LET me == wg[w]
      t  == slot.data[me.slot.index] IN
  /\ me.at = "read"
  /\ IsFull(slot, me.slot)
  /\ ReadSlot(me.slot)
  /\ wg' = [wg EXCEPT ![w].slot = Advance(@, 1, Depth(slot)), ![w].tile = t,
                      ![w].at = IF Valid(t) THEN "turn" ELSE "end"]
  /\ UNCHANGED <<launch, load, regs, ab, c, signal, flying, stores, ran>>

(* With unequal tiles a warpgroup reads its peer's slot too, to learn how  *)
(* far the peer will move the rings.                                       *)
ReadPeer(w) ==
  LET me == wg[w]
      t  == slot.data[me.slot.index]
      on == [me EXCEPT !.slot = Advance(@, 1, Depth(slot)), !.tile = t] IN
  /\ me.at = "peer"
  /\ IsFull(slot, me.slot)
  /\ ReadSlot(me.slot)
  /\ wg' = [wg EXCEPT ![w] =
       IF Valid(t) THEN [NextWork(PassPeer(on, t), 1) EXCEPT !.at = "read"]
                   ELSE [on EXCEPT !.at = "end"]]
  /\ UNCHANGED <<launch, load, regs, ab, c, signal, flying, stores, ran>>

-----------------------------------------------------------------------------
(* The main loop executes the program of its tile (MmaMainloop).  SM120    *)
(* clears the accumulator before it, SM90 only after a tile without        *)
(* k-tiles.                                                                *)

MmaTurn(w) ==
  /\ wg[w].at = "turn"
  /\ Turn("mma", w)
  /\ wg' = [wg EXCEPT ![w].at = "mma", ![w].step = 1, ![w].first = wg[w].ab.index,
                      ![w].used = wg[w].ab]
  /\ regs' = IF Sm120(launch) THEN [regs EXCEPT ![w] = Zeroed(@)] ELSE regs
  /\ UNCHANGED <<launch, load, ab, slot, c, flying, stores, ran>>

Programs ==
  [p \in UNION {{<<l.loop, l.work[t].k>> : t \in DOMAIN l.work} : l \in Launches} |->
     Program(p[1], p[2])]
Steps(w) == Programs[<<launch.loop, K(wg[w].tile)>>]
AtStep(w, op) ==
  /\ wg[w].at \in {"mma", "lastStage"} /\ wg[w].step <= Len(Steps(w))
  /\ Steps(w)[wg[w].step].op = op
StepDone(w, me, at) ==
  [me EXCEPT !.step = @ + 1, !.at = IF me.step = Len(Steps(w)) THEN "epiTurn" ELSE at]

(* The stage of the tile's k-tile k.                                       *)
StageOf(me, k) == (me.first + k) % AbStages

MmaFeed(w) ==
  LET me == wg[w]  s == Steps(w)[me.step]
      filled == IF s.fill = <<>> THEN regs[w]
                ELSE Filled(launch.loop, regs[w], s.fill[1][2], ab.data[StageOf(me, s.fill[1][1])])
  IN
  /\ AtStep(w, "feed")
  /\ s.full => IsFull(ab, me.ab)
  /\ regs' = [regs EXCEPT ![w] = Issued(launch.loop, filled, s.mma, s.start)]
  /\ wg' = [wg EXCEPT ![w] =
       StepDone(w, [me EXCEPT !.ab = IF s.full THEN Advance(@, 1, AbStages) ELSE @], @.at)]
  /\ UNCHANGED <<launch, load, ab, slot, c, signal, flying, stores, ran>>

MmaRetire(w) ==
  LET me == wg[w]  s == Steps(w)[me.step] IN
  /\ AtStep(w, "retire")
  /\ regs' = [regs EXCEPT ![w] = Folded(Waited(@, s.n), s.fold)]
  /\ ab' = IF s.release THEN Release(ab, me.used, 1) ELSE ab
  /\ wg' = [wg EXCEPT ![w] =
       StepDone(w, [me EXCEPT !.used = IF s.release THEN Advance(@, 1, AbStages) ELSE @], @.at)]
  /\ UNCHANGED <<launch, load, slot, c, signal, flying, stores, ran>>

\* The peer may multiply: once per tile, as the warpgroup leaves its main loop.
MmaHandOver(w) ==
  /\ AtStep(w, "handOver") /\ wg[w].at = "mma"
  /\ signal' = Signal("mma", Peer(w))
  /\ wg' = [wg EXCEPT ![w] = StepDone(w, @, "lastStage")]
  /\ UNCHANGED <<launch, load, regs, ab, slot, c, flying, stores, ran>>

-----------------------------------------------------------------------------
(* The epilogue.  A split that is not the last commits its partial with    *)
(* generic stores and touches neither epilogue ring (SplitKTurnstile).     *)

\* Variation: a tile without k-tiles finds the accumulator as the last one left it.
NeverZeroes(t) == FALSE
ZeroesAfter(t) == ~Sm120(launch) /\ launch.dynamic /\ K(t) = 0
EpiTurn(w) ==
  /\ wg[w].at = "epiTurn"
  /\ Turn("epi", w)
  /\ wg' = [wg EXCEPT ![w].at = IF Epilogue(wg[w].tile) THEN "loadC" ELSE "drain", ![w].sub = 0]
  /\ regs' = IF ZeroesAfter(wg[w].tile) THEN [regs EXCEPT ![w] = Zeroed(@)] ELSE regs
  /\ UNCHANGED <<launch, load, ab, slot, c, flying, stores, ran>>

IssueC(w, sub) ==
  /\ IsFree(c, wg[w].cLoad)
  /\ c' = Issue(c, wg[w].cLoad)
  /\ flying' = flying \cup {Flight("c", wg[w].cLoad, <<wg[w].tile, sub>>)}

(* The first C subtiles, as many as the ring holds.                        *)
LoadC(w) ==
  LET me   == wg[w]
      last == me.sub + 1 = launch.subtiles \/ me.sub + 1 = launch.cStages IN
  /\ me.at = "loadC"
  /\ IssueC(w, me.sub)
  /\ wg' = [wg EXCEPT ![w].cLoad = Advance(@, 1, launch.cStages),
                      ![w].at = IF last THEN "readC" ELSE @,
                      ![w].sub = IF last THEN 0 ELSE @ + 1]
  /\ UNCHANGED <<launch, load, regs, ab, slot, signal, stores, ran>>

ReadC(w) ==
  LET me == wg[w] IN
  /\ me.at = "readC"
  /\ IsFull(c, me.cRead)
  /\ c' = Release(c, me.cRead, 1)
  /\ wg' = [wg EXCEPT ![w].cRead = Advance(@, 1, launch.cStages),
       ![w].at = IF me.sub + launch.cStages < launch.subtiles THEN "refillC" ELSE "acquire"]
  /\ UNCHANGED <<launch, load, regs, ab, slot, signal, flying, stores, ran>>

RefillC(w) ==
  /\ wg[w].at = "refillC"
  /\ IssueC(w, wg[w].sub + launch.cStages)
  /\ wg' = [wg EXCEPT ![w].cLoad = Advance(@, 1, launch.cStages), ![w].at = "acquire"]
  /\ UNCHANGED <<launch, load, regs, ab, slot, signal, stores, ran>>

(* producer_acquire bounds the number of stores in flight; it knows        *)
(* nothing of the buffer this subtile is about to take.                    *)
AcquireStore(w) ==
  /\ wg[w].at = "acquire"
  /\ Len(stores[w]) < launch.epiStages
  /\ wg' = [wg EXCEPT ![w].at = "store"]
  /\ UNCHANGED <<launch, load, regs, ab, slot, c, signal, flying, stores, ran>>

Buffer(me) == (me.executed * launch.subtiles + me.sub) % launch.epiStages

Store(w) ==
  LET me == wg[w] IN
  /\ me.at = "store"
  /\ stores' = [stores EXCEPT ![w] = Append(@, Buffer(me))]
  /\ wg' = [wg EXCEPT ![w].sub = @ + 1,
                      ![w].at = IF me.sub + 1 < launch.subtiles THEN "readC" ELSE "drain"]
  /\ UNCHANGED <<launch, load, regs, ab, slot, c, signal, flying, ran>>

\* Variation: a split-K finalizer goes on without draining its stores.
PingpongDrains(t) == launch.pingpong
DrainsStores(t) == launch.pingpong \/ (launch.split /\ Epilogue(t))

EndTile(w) ==
  LET me == wg[w] IN
  /\ me.at = "drain"
  /\ DrainsStores(me.tile) => stores[w] = <<>>
  /\ signal' = Signal("epi", Peer(w))
  /\ ran' = [ran EXCEPT ![me.tile] = @ + 1]
  /\ wg' = [wg EXCEPT ![w] =
       [NextWork(IF SkipsPeer(launch) THEN PassPeer(@, me.tile) ELSE @, Stride(launch)) EXCEPT
          !.at = IF launch.pingpong /\ ~SkipsPeer(launch) THEN "peer" ELSE "read"]]
  /\ UNCHANGED <<launch, load, regs, ab, slot, c, flying, stores>>

\* Variation: the consumer exits while its stores still read shared memory.
ExitAtOnce(w) == TRUE
MayExit(w) == ~launch.pingpong => stores[w] = <<>>
End(w) ==
  /\ wg[w].at = "end"
  /\ MayExit(w)
  /\ wg' = [wg EXCEPT ![w].at = "done"]
  /\ UNCHANGED <<launch, load, regs, ab, slot, c, signal, flying, stores, ran>>

WarpgroupNext(w) ==
  \/ Start(w) \/ Read(w) \/ ReadPeer(w) \/ MmaTurn(w) \/ MmaFeed(w) \/ MmaRetire(w)
  \/ MmaHandOver(w) \/ EpiTurn(w) \/ LoadC(w) \/ ReadC(w) \/ RefillC(w) \/ AcquireStore(w)
  \/ Store(w) \/ EndTile(w) \/ End(w)

-----------------------------------------------------------------------------
(* The TMA engine: loads land in any order; a store lets go of its buffer. *)

Land ==
  \E f \in flying :
    /\ flying' = flying \ {f}
    /\ \/ f.ring = "ab" /\ ab' = Fill(ab, f.stage, f.data) /\ UNCHANGED c
       \/ f.ring = "c" /\ c' = Fill(c, f.stage, f.data) /\ UNCHANGED ab
    /\ UNCHANGED <<launch, load, wg, regs, slot, signal, stores, ran>>

StoreRetires(w) ==
  /\ stores[w] # <<>>
  /\ stores' = [stores EXCEPT ![w] = Tail(@)]
  /\ UNCHANGED <<launch, load, wg, regs, ab, slot, c, signal, flying, ran>>

Next ==
  \/ LoadNext \/ Land
  \/ \E w \in DOMAIN wg : WarpgroupNext(w) \/ StoreRetires(w)

(* Warps are scheduled independently and every wait is a spin; a TMA       *)
(* operation that was issued completes.                                    *)
Fairness ==
  /\ WF_vars(LoadNext) /\ WF_vars(Land)
  /\ \A w \in {0, 1} : WF_vars(w \in DOMAIN wg /\ WarpgroupNext(w))
  /\ \A w \in {0, 1} : WF_vars(w \in DOMAIN wg /\ StoreRetires(w))
Spec == Init /\ [][Next]_vars /\ Fairness

-----------------------------------------------------------------------------
State == [index : Nat, phase : {0, 1}]
Mbarrier(most) == [parity : {0, 1}, arrived : 0..most - 1]
RingOK(r, readers) ==
  /\ \A s \in DOMAIN r.full : r.full[s] \in Mbarrier(1)
  /\ \A s \in DOMAIN r.empty : r.empty[s] \in Mbarrier(readers)

(* Every barrier's pending arrivals stay below its arrive count, every     *)
(* ring state is an index into its ring with a phase bit, and nobody runs  *)
(* past the one invalid tile after the work.                               *)
TypeOK ==
  /\ load.tile \in 1..N + 1 /\ load.ab \in State /\ load.ab.index \in DOMAIN ab.data
  /\ load.slot.index \in DOMAIN slot.data
  /\ \A w \in DOMAIN wg :
       /\ wg[w].tile \in 1..N + 1 /\ {wg[w].ab, wg[w].used, wg[w].slot} \subseteq State
       /\ {wg[w].ab.index, wg[w].used.index} \subseteq DOMAIN ab.data
       /\ {wg[w].cRead.index, wg[w].cLoad.index} \subseteq DOMAIN c.data
       /\ Len(stores[w]) <= launch.epiStages
  /\ RingOK(ab, 1) /\ RingOK(c, 1) /\ RingOK(slot, SlotReaders(launch))
  /\ \A s \in {"mma", "epi"}, w \in {0, 1} : signal[s][w] \in Nat

(* A consumer multiplies and adds only its own tile's data: an MMA reads   *)
(* its k-tile and block, from the stage and from the registers, for as     *)
(* long as it may run; C likewise; and the epilogue finds in the           *)
(* accumulator every block of the tile once, in order, scaled by its       *)
(* k-tile's scale.  The barrier has one parity bit, so this needs the      *)
(* peer's share predicted exactly and the mma order.  And no load is still *)
(* under way to the shared memory when all warps have left.                *)
InEpilogue == {"loadC", "readC", "refillC", "acquire", "store", "drain"}
OwnOperands(w, mma) ==
  LET own == <<wg[w].tile, mma[1]>> IN
  /\ ~Sm120(launch) => ab.data[StageOf(wg[w], mma[1])] = own
  /\ launch.loop.mma # "ss" => regs[w].frag[mma[2]] = own
Finished == load.at = "done" /\ \A w \in DOMAIN wg : wg[w].at = "done"
ReadsOwnTile ==
  /\ Finished => flying = {}
  /\ \A w \in DOMAIN wg :
    LET me == wg[w] IN
    /\ me.at \in {"mma", "lastStage"} =>
         \A i \in DOMAIN regs[w].running : OwnOperands(w, regs[w].running[i])
    /\ (me.at = "readC" /\ IsFull(c, me.cRead)) =>
         c.data[me.cRead.index] = <<me.tile, me.sub>>
    /\ me.at \in InEpilogue =>
         /\ ~Sm120(launch) => regs[w].running = <<>>
         /\ Result(launch.loop, regs[w]) = Expected(launch.loop, me.tile, K(me.tile))

(* "The two warpgroups' epilogues are strictly exclusive", on which the    *)
(* sharing of the epilogue's shared memory rests; and so are the main      *)
(* loops up to the hand-over.                                              *)
TakeTurns ==
  \A v, w \in DOMAIN wg : v # w =>
    /\ ~(wg[v].at = "mma" /\ wg[w].at = "mma")
    /\ ~(wg[v].at \in InEpilogue /\ wg[w].at \in InEpilogue)

(* The buffer a subtile is written to is read by no TMA store in flight,   *)
(* of this warpgroup or of its peer; acquiring only bounds their number.   *)
(* And no store reads the shared memory of a warpgroup that has left.      *)
StoreBufferFree ==
  \A w \in DOMAIN wg :
    /\ wg[w].at = "store" =>
         \A v \in DOMAIN wg : \A i \in DOMAIN stores[v] : stores[v][i] # Buffer(wg[w])
    /\ wg[w].at = "done" => stores[w] = <<>>

(* No tile is finished twice, and when all warps have left every tile was  *)
(* finished: the slots are passed on by parity bits alone, and a warpgroup *)
(* moves past the slots of its peer unread.                                *)
TilesOnce ==
  \A t \in 1..N : ran[t] <= 1 /\ (Finished => ran[t] = 1)

(* No warp waits for ever: the arrive counts, the extra slot and the       *)
(* predicted phases fit for every number and kind of tiles.                *)
KernelEnds == <>Finished
=============================================================================
