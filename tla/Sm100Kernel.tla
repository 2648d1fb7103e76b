----------------------------- MODULE Sm100Kernel -----------------------------
(***************************************************************************)
(* The persistent loop of the SM100 GEMM (gemm_sm100.py): a CTA, or the    *)
(* pair of CTAs of a 2-CTA MMA, whose warps each run their own loop over   *)
(* the tiles: load warps (one, or several that gather the rows of A), the  *)
(* warp that prefetches gather indices, the MMA warp (only the leader's    *)
(* issues, and its MMAs read and write both CTAs' memories), the epilogue  *)
(* warps, the warp that loads C, and the scheduler.  Five rings join them: *)
(* A/B stages, gather indices, accumulators in tensor memory, C stages and *)
(* work-tile slots.                                                        *)
(*                                                                         *)
(* With block scaling at 256 columns the tensor memory holds two           *)
(* accumulators but not the scale factors beside them: those of one tile   *)
(* overlay the first columns of the other accumulator, which the epilogue  *)
(* releases early, and one barrier guards both.                            *)
(*                                                                         *)
(* Which tiles a cluster draws is TileSchedule's subject: here it is a     *)
(* list.  The epilogue warps of a CTA are one process, the MMAs of a k-tile *)
(* one step, and counts are scaled alike.                                  *)
(***************************************************************************)
EXTENDS Integers, Sequences, FiniteSets

CONSTANTS
  Launches,   \* the configurations Init chooses from
  AbStages    \* stages of the A/B ring

(* A launch: ctas of the MMA; loads: load warps of a CTA; gather: no rows  *)
(* of A, rows by one index per tile row ("m") or per k ("k"); tmaGather or *)
(* cp.async; clc or static draws; scaled: accumulators overlaid by scale   *)
(* factors, sfCols wide; epiCols: columns of a subtile; cStages: 0 without *)
(* C; work: the tiles, each with its k-tiles and whether it runs the       *)
(* epilogue (a split that is not the last only commits its partial).       *)
LaunchType ==
  [ctas : {1, 2}, loads : Nat \ {0}, gather : {"none", "m", "k"}, tmaGather : BOOLEAN,
   clc : BOOLEAN, scaled : BOOLEAN, sfCols : Nat \ {0}, epiCols : Nat \ {0},
   subtiles : Nat \ {0}, cStages : Nat, work : Seq([k : Nat, epilogue : BOOLEAN])]
ASSUME LaunchesAssumption ==
  \A l \in Launches :
    /\ l \in LaunchType /\ (l.gather = "none" => l.loads = 1 /\ ~l.tmaGather)
    /\ l.sfCols < l.subtiles * l.epiCols
ASSUME StagesAssumption == AbStages \in Nat \ {0, 1}

VARIABLES
  launch,
  load,      \* load[c][w]: where the warp is, its tile, k-tile and ring positions
  index, mma, epi, cload, sched,   \* one process of each kind per CTA, likewise
  ab, idx, cring,   \* the rings of each CTA: contents, full and empty barriers
  slot,      \* the work-tile slots: every CTA holds a copy; CTA 0 the empty barriers
  acc,       \* full: each CTA's barriers; empty: the leader's
  tmem,      \* tmem[c][b][i]: what subtile i of accumulator b holds in CTA c
  flying,    \* loads of A and B issued and not landed
  gate,      \* the throttle's named barrier: arrivals and generation
  met        \* load warps that let their CTA's C warp begin
rings == <<ab, idx, cring, slot, acc, tmem, flying, gate, met>>
procs == <<load, index, mma, epi, cload, sched>>
vars == <<launch, procs, rings>>

Ctas == 0..launch.ctas - 1
Loads == 0..launch.loads - 1
Leader == 0
N == Len(launch.work)
Valid(t) == t \in 1..N
K(t) == launch.work[t].k
Epilogue(t) == launch.work[t].epilogue
Subs == 0..launch.subtiles - 1
HasC == launch.cStages > 0
Gathers == launch.gather # "none"
CpAsync == Gathers /\ ~launch.tmaGather
AccStages(l) == IF l.scaled THEN 1 ELSE 2
SlotStages(l) == IF l.clc THEN 3 ELSE 1
IdxStages(l) == CASE l.gather = "m" -> 2 [] l.gather = "k" -> AbStages [] OTHER -> 0

-----------------------------------------------------------------------------
(* A barrier flips when no arrival and no byte is pending; a load that     *)
(* lands before its barrier is armed takes tx below zero.  A process at    *)
(* position n of a ring waits for the parity of n's round.                 *)

Fresh(count) == [parity |-> 0, pending |-> count, tx |-> 0]
Hit(b, count, arrivals, bytes) ==
  LET h == [b EXCEPT !.pending = @ - arrivals, !.tx = @ + bytes] IN
  IF h.pending = 0 /\ h.tx = 0 THEN [Fresh(count) EXCEPT !.parity = 1 - b.parity] ELSE h

Depth(r) == Cardinality(DOMAIN r)
Stage(bars, n) == n % Depth(bars)
Round(bars, n) == (n \div Depth(bars)) % 2
IsFull(bars, n) == bars[Stage(bars, n)].parity # Round(bars, n)
IsFree(bars, n) == bars[Stage(bars, n)].parity = Round(bars, n)
Arrive(bars, n, count) == [bars EXCEPT ![Stage(bars, n)] = Hit(@, count, 1, 0)]

(* producer_tail: the stage used last is free again.                       *)
TailFree(bars, n) == IsFree(bars, n + Depth(bars) - 1)

Bars(depth, count) == [s \in 0..depth - 1 |-> Fresh(count)]
Nothing == <<0, 0>>
Ring(depth, d, fullCount, emptyCount) ==
  [data |-> [s \in 0..depth - 1 |-> d], full |-> Bars(depth, fullCount),
   empty |-> Bars(depth, emptyCount)]
Put(r, n, d) == [r EXCEPT !.data[Stage(r.full, n)] = d, !.full = Arrive(@, n, 1)]

(* make_ab_pipeline: one TMA warp arms the leader's barrier for the bytes  *)
(* of both CTAs; with cp.async every load warp arrives too, and the other  *)
(* CTA's MMA warp once, for its own CTA's warps.                           *)
\* Variation: the leader does not count the other CTA's arrival.
OwnArrivals(l, c) ==
  IF l.gather = "none" \/ l.tmaGather THEN 1 ELSE l.loads + (IF c = Leader THEN 1 ELSE 0)
\* Variation: the other CTA's barrier also expects an arming arrival.
BothArm(l, c) ==
  IF l.gather = "none" \/ l.tmaGather THEN 1
  ELSE l.loads + (IF l.ctas = 1 \/ c # Leader THEN 1 ELSE 2)
AbArrivals(l, c) ==
  IF l.gather = "none" \/ l.tmaGather THEN 1
  ELSE l.loads + (IF l.ctas = 1 THEN 1 ELSE IF c = Leader THEN 2 ELSE 0)
TxParts == launch.ctas * (1 + (IF launch.tmaGather THEN launch.loads ELSE 0))

IdxReaders(l) == l.loads
SlotReaders(l) ==
  l.ctas * (l.loads + 3 + (IF l.gather = "none" THEN 0 ELSE 1) + (IF l.cStages > 0 THEN 1 ELSE 0))

-----------------------------------------------------------------------------
(* Where a load warp goes to begin a tile, and before its k-tile k of t.   *)
Commits(c, w) == launch.clc /\ c = 0 /\ w = 0
Signals(t) == HasC /\ t = 1
KTile(k, t) ==
  IF k = K(t) THEN IF Signals(t) THEN "signal" ELSE "read"
  ELSE IF launch.gather = "k" THEN "index" ELSE "fetch"
Tile(t) == IF launch.gather = "m" THEN "index" ELSE KTile(0, t)
Begin(c, w, t) ==
  IF ~Valid(t) THEN IF w = 0 /\ c = Leader THEN "tail" ELSE "done"
  ELSE IF Commits(c, w) THEN "commit" ELSE Tile(t)
Throttled(c, t) ==
  IF c # 0 THEN IF Valid(t) THEN "read" ELSE "done"
  ELSE IF ~Valid(t) THEN "tail" ELSE IF launch.clc THEN "sync" ELSE "write"
OrDone(t, at) == IF Valid(t) THEN at ELSE "done"
Forwards(t) == CpAsync /\ K(t) > 0
Acquire(c, t) ==
  IF c = Leader THEN IF Valid(t) THEN "acquire" ELSE "tail"
  ELSE IF ~Valid(t) THEN "done" ELSE IF Forwards(t) THEN "k" ELSE "read"

Init ==
  /\ launch \in Launches
  /\ load = [c \in Ctas |-> [w \in Loads |->
       [at |-> Begin(c, w, 1), t |-> 1, k |-> 0, n |-> 0, i |-> 0, got |-> Nothing]]]
  /\ index = [c \in Ctas |-> [at |-> IF Gathers THEN OrDone(1, "put") ELSE "done", t |-> 1, k |-> 0, i |-> 0]]
  /\ mma = [c \in Ctas |-> [at |-> Acquire(c, 1), t |-> 1, k |-> 0, n |-> 0, a |-> 0]]
  /\ epi = [c \in Ctas |-> [at |-> OrDone(1, "peek"), t |-> 1, next |-> 1, sub |-> 0, a |-> 0, r |-> 0]]
  /\ cload = [c \in Ctas |-> [at |-> IF HasC THEN OrDone(1, "begin") ELSE "done", t |-> 1, sub |-> 0, r |-> 0]]
  /\ sched = [c \in Ctas |-> [at |-> Throttled(c, 1), t |-> 1, gen |-> 0]]
  /\ ab = [c \in Ctas |-> Ring(AbStages, [p \in 0..launch.loads |-> Nothing], AbArrivals(launch, c), 1)]
  /\ idx = [c \in Ctas |-> Ring(IdxStages(launch), Nothing, 1, IdxReaders(launch))]
  /\ cring = [c \in Ctas |-> Ring(launch.cStages, Nothing, 1, 1)]
  /\ slot = Ring(SlotStages(launch), 0, 1, SlotReaders(launch))
  /\ acc = [full |-> [c \in Ctas |-> Bars(AccStages(launch), 1)],
            empty |-> Bars(AccStages(launch), launch.ctas)]
  /\ tmem = [c \in Ctas |-> [b \in {0, 1} |-> [i \in Subs |-> Nothing]]]
  /\ flying = {}
  /\ gate = [arrived |-> 0, gen |-> 0]
  /\ met = [c \in Ctas |-> 0]

(* get_current_work of a process at tile t, which has read t - 1 slots.    *)
SlotReady(t) == IsFull(slot.full, t - 1)
SlotTile(t) == slot.data[Stage(slot.full, t - 1)]
ReadSlot(t) == slot' = [slot EXCEPT !.empty = Arrive(@, t - 1, SlotReaders(launch))]

(* bar.arrive of the throttle: the second arrival completes the barrier.   *)
GateArrives ==
  gate' = IF gate.arrived = 1 THEN [arrived |-> 0, gen |-> 1 - gate.gen] ELSE [gate EXCEPT !.arrived = 1]

-----------------------------------------------------------------------------
(* The load warps.                                                         *)

LoadGoes(c, w) == UNCHANGED <<launch, index, mma, epi, cload, sched, cring, acc, tmem>>
ThrottleCommit(c, w) ==
  /\ load[c][w].at = "commit"
  /\ GateArrives
  /\ load' = [load EXCEPT ![c][w].at = Tile(load[c][w].t)]
  /\ LoadGoes(c, w) /\ UNCHANGED <<ab, idx, slot, flying, met>>

(* The indices go to registers: of the tile's rows, once, or of a k-tile,  *)
(* before its stage is free.  The latter are read at the A/B stage's       *)
(* number, not at the index ring's own.                                    *)
IndexStage(c, me) == IF launch.gather = "m" THEN Stage(idx[c].full, me.i) ELSE Stage(ab[c].full, me.n)
ReadIndices(c, w) ==
  LET me == load[c][w] IN
  /\ me.at = "index" /\ IsFull(idx[c].full, me.i)
  /\ idx' = [idx EXCEPT ![c].empty = Arrive(@, me.i, IdxReaders(launch))]
  /\ load' = [load EXCEPT ![c][w] = [me EXCEPT !.got = idx[c].data[IndexStage(c, me)], !.i = @ + 1,
       !.at = IF launch.gather = "m" THEN KTile(0, me.t) ELSE "fetch"]]
  /\ LoadGoes(c, w) /\ UNCHANGED <<ab, slot, flying, gate, met>>

(* Acquire a stage; the TMA warp of this k-tile loads B and, in the        *)
(* leader, arms the barrier; every warp loads its part of A.               *)
Arms(w, k) == w = k % launch.loads
PartA(me) == CASE launch.gather = "none" -> <<me.t, me.k>>
               [] launch.gather = "m" -> <<me.got[1], me.k>>
               [] OTHER -> me.got
PartB == launch.loads
Issues(c, w, me, arms) ==
  LET f(parts, d, tma) ==
        [cta |-> c, stage |-> Stage(ab[c].full, me.n), parts |-> parts, data |-> d, tma |-> tma]
  IN IF ~Gathers THEN {f({w, PartB}, PartA(me), TRUE)}
     ELSE {f({w}, PartA(me), launch.tmaGather)}
            \cup (IF arms THEN {f({PartB}, <<me.t, me.k>>, TRUE)} ELSE {})
Holds(data, parts, d) == [p \in DOMAIN data |-> IF p \in parts THEN d ELSE data[p]]
Fetch(c, w) ==
  LET me == load[c][w]  s == Stage(ab[c].full, me.n)  arms == Arms(w, me.k)
      issued == Issues(c, w, me, arms)
  IN
  /\ me.at = "fetch" /\ IsFree(ab[c].empty, me.n)
  /\ ab' = [ab EXCEPT ![c].data[s] = Holds(@, UNION {f.parts : f \in issued}, Nothing),
                      ![c].full[s] = IF arms /\ c = Leader THEN Hit(@, AbArrivals(launch, c), 1, TxParts) ELSE @]
  /\ flying' = flying \cup issued
  /\ load' = [load EXCEPT ![c][w] = [me EXCEPT !.k = @ + 1, !.n = @ + 1, !.at = KTile(me.k + 1, me.t),
       !.got = IF launch.gather = "k" THEN Nothing ELSE @]]
  /\ LoadGoes(c, w) /\ UNCHANGED <<idx, slot, gate, met>>

(* TMA bytes are counted by the leader's barrier, cp.async arrivals by the *)
(* CTA's own.                                                              *)
Land(f) ==
  LET landed == [ab EXCEPT ![f.cta].data[f.stage] = Holds(@, f.parts, f.data)] IN
  /\ flying' = flying \ {f}
  /\ ab' = IF f.tma
       THEN [landed EXCEPT ![Leader].full[f.stage] = Hit(@, AbArrivals(launch, Leader), 0, -1)]
       ELSE [landed EXCEPT ![f.cta].full[f.stage] = Hit(@, AbArrivals(launch, f.cta), 1, 0)]
  /\ UNCHANGED <<launch, procs, idx, cring, slot, acc, tmem, gate, met>>

(* The first tile's loads are issued: the C warp may begin.                *)
Signal(c, w) ==
  /\ load[c][w].at = "signal"
  /\ met' = [met EXCEPT ![c] = @ + 1]
  /\ load' = [load EXCEPT ![c][w].at = "read"]
  /\ LoadGoes(c, w) /\ UNCHANGED <<ab, idx, slot, flying, gate>>

LoadAdvance(c, w) ==
  LET me == load[c][w]  t == SlotTile(me.t) IN
  /\ me.at = "read" /\ SlotReady(me.t) /\ ReadSlot(me.t)
  /\ load' = [load EXCEPT ![c][w] = [me EXCEPT !.t = t, !.k = 0, !.at = Begin(c, w, t), !.got = Nothing]]
  /\ LoadGoes(c, w) /\ UNCHANGED <<ab, idx, flying, gate, met>>

LoadTail(c, w) ==
  /\ load[c][w].at = "tail" /\ TailFree(ab[c].empty, load[c][w].n)
  /\ load' = [load EXCEPT ![c][w].at = "done"]
  /\ LoadGoes(c, w) /\ UNCHANGED <<ab, idx, slot, flying, gate, met>>

-----------------------------------------------------------------------------
(* The index warp: an entry per tile, or per k-tile.                       *)

Entries(t) == IF launch.gather = "m" THEN 1 ELSE K(t)
IndexRest == UNCHANGED <<launch, load, mma, epi, cload, sched, ab, cring, acc, tmem, flying, gate, met>>
PutIndices(c) ==
  LET me == index[c] IN
  /\ me.at = "put" /\ me.k < Entries(me.t) /\ IsFree(idx[c].empty, me.i)
  /\ idx' = [idx EXCEPT ![c] = Put(@, me.i, <<me.t, me.k>>)]
  /\ index' = [index EXCEPT ![c] = [me EXCEPT !.k = @ + 1, !.i = @ + 1]]
  /\ IndexRest /\ UNCHANGED slot

IndexAdvance(c) ==
  LET me == index[c] IN
  /\ me.at = "put" /\ me.k = Entries(me.t) /\ SlotReady(me.t) /\ ReadSlot(me.t)
  /\ index' = [index EXCEPT ![c] = [me EXCEPT !.t = SlotTile(me.t), !.k = 0, !.at = OrDone(SlotTile(me.t), "put")]]
  /\ IndexRest /\ UNCHANGED idx

-----------------------------------------------------------------------------
(* The MMA warps.                                                          *)

MmaRest == UNCHANGED <<launch, load, index, epi, cload, sched, idx, cring, flying, gate, met>>
AccAcquire ==
  /\ mma[Leader].at = "acquire" /\ IsFree(acc.empty, mma[Leader].a)
  /\ mma' = [mma EXCEPT ![Leader].at = "k"]
  /\ MmaRest /\ UNCHANGED <<ab, slot, acc, tmem>>

(* The accumulator of the tile, by its ring or, when one barrier guards    *)
(* both, by the phase; the scale factors go to the other one's columns.    *)
AccBuffer(a) == a % 2
SfSubs == 0..(launch.sfCols - 1) \div launch.epiCols
Multiplied(m, me) ==
  LET b == AccBuffer(me.a)
      sum(x) == IF me.k = 0 THEN <<me.t, 1>> ELSE IF x = <<me.t, me.k>> THEN <<me.t, me.k + 1>> ELSE Nothing
  IN [m EXCEPT ![b] = [i \in Subs |-> sum(@[i])],
               ![1 - b] = [i \in Subs |-> IF launch.scaled /\ i \in SfSubs THEN Nothing ELSE @[i]]]

(* The leader's MMAs of a k-tile: both CTAs' stages in, both CTAs' tensor  *)
(* memories out, and when done the stage is free in both.                  *)
Multiply ==
  LET me == mma[Leader] IN
  /\ me.at = "k" /\ me.k < K(me.t) /\ IsFull(ab[Leader].full, me.n)
  /\ tmem' = [c \in Ctas |-> Multiplied(tmem[c], me)]
  /\ ab' = [c \in Ctas |-> [ab[c] EXCEPT !.empty = Arrive(@, me.n, 1)]]
  /\ mma' = [mma EXCEPT ![Leader] = [me EXCEPT !.k = @ + 1, !.n = @ + 1]]
  /\ MmaRest /\ UNCHANGED <<slot, acc>>

(* The other CTA's MMA warp waits for its CTA's cp.async loads and arrives *)
(* for them at the leader; with TMA it has nothing to do.                  *)
Forward(c) ==
  LET me == mma[c] IN
  /\ c # Leader /\ me.at = "k" /\ IsFull(ab[c].full, me.n)
  /\ ab' = [ab EXCEPT ![Leader].full = Arrive(@, me.n, AbArrivals(launch, Leader))]
  /\ mma' = [mma EXCEPT ![c] = [me EXCEPT !.k = @ + 1, !.n = @ + 1,
                                  !.at = IF me.k + 1 = K(me.t) THEN "read" ELSE "k"]]
  /\ MmaRest /\ UNCHANGED <<slot, acc, tmem>>

(* Also after no k-tile at all.                                            *)
AccCommit ==
  LET me == mma[Leader] IN
  /\ me.at = "k" /\ me.k = K(me.t)
  /\ acc' = [acc EXCEPT !.full = [c \in Ctas |-> Arrive(@[c], me.a, 1)]]
  /\ mma' = [mma EXCEPT ![Leader] = [me EXCEPT !.a = @ + 1, !.at = "read"]]
  /\ MmaRest /\ UNCHANGED <<ab, slot, tmem>>

MmaAdvance(c) ==
  LET me == mma[c] IN
  /\ me.at = "read" /\ SlotReady(me.t) /\ ReadSlot(me.t)
  /\ mma' = [mma EXCEPT ![c] = [me EXCEPT !.t = SlotTile(me.t), !.k = 0, !.at = Acquire(c, SlotTile(me.t))]]
  /\ MmaRest /\ UNCHANGED <<ab, acc, tmem>>

MmaTail ==
  /\ mma[Leader].at = "tail" /\ TailFree(acc.empty, mma[Leader].a)
  /\ mma' = [mma EXCEPT ![Leader].at = "done"]
  /\ MmaRest /\ UNCHANGED <<ab, slot, acc, tmem>>

-----------------------------------------------------------------------------
(* The epilogue warps of a CTA: they read the next tile's slot before the  *)
(* tile's epilogue, then the accumulator subtile by subtile.               *)

EpiRest == UNCHANGED <<launch, load, index, mma, cload, sched, ab, idx, tmem, flying, gate, met>>
Peek(c) ==
  LET me == epi[c] IN
  /\ me.at = "peek" /\ SlotReady(me.t) /\ ReadSlot(me.t)
  /\ epi' = [epi EXCEPT ![c] = [me EXCEPT !.next = SlotTile(me.t), !.at = "acc"]]
  /\ EpiRest /\ UNCHANGED <<cring, acc>>

(* iter_acc_early_release: the subtile after which the scale factors'      *)
(* columns have been read.                                                 *)
\* Variation: one subtile too early.
TooEarly == IF launch.scaled THEN (launch.sfCols \div launch.epiCols) - 1 ELSE launch.subtiles - 1
ReleaseAt == IF launch.scaled THEN launch.sfCols \div launch.epiCols ELSE launch.subtiles - 1

UsesC(t) == HasC /\ Epilogue(t)
HasAcc(c) == epi[c].at = "acc" /\ (epi[c].sub = 0 => IsFull(acc.full[c], epi[c].a))
NextSub(me) ==
  IF me.sub + 1 < launch.subtiles THEN [me EXCEPT !.sub = @ + 1, !.at = "acc"]
  ELSE [me EXCEPT !.a = @ + 1, !.t = me.next, !.sub = 0, !.at = OrDone(me.next, "peek")]
ReadAcc(c) ==
  LET me == epi[c] IN
  /\ HasAcc(c)
  /\ acc' = IF me.sub = ReleaseAt THEN [acc EXCEPT !.empty = Arrive(@, me.a, launch.ctas)] ELSE acc
  /\ epi' = [epi EXCEPT ![c] = IF UsesC(me.t) THEN [me EXCEPT !.at = "c"] ELSE NextSub(me)]
  /\ EpiRest /\ UNCHANGED <<cring, slot>>

ReadC(c) ==
  LET me == epi[c] IN
  /\ me.at = "c" /\ IsFull(cring[c].full, me.r)
  /\ cring' = [cring EXCEPT ![c].empty = Arrive(@, me.r, 1)]
  /\ epi' = [epi EXCEPT ![c] = [NextSub(me) EXCEPT !.r = @ + 1]]
  /\ EpiRest /\ UNCHANGED <<slot, acc>>

-----------------------------------------------------------------------------
(* The warp that loads C, for the tiles that run the epilogue.             *)

LoadsC(t) == Epilogue(t)
CRest == UNCHANGED <<launch, load, index, mma, epi, sched, ab, idx, acc, tmem, flying, gate, met>>
CBegin(c) ==
  /\ cload[c].at = "begin" /\ met[c] = launch.loads
  /\ cload' = [cload EXCEPT ![c].at = "c"]
  /\ CRest /\ UNCHANGED <<cring, slot>>

FetchC(c) ==
  LET me == cload[c] IN
  /\ me.at = "c" /\ LoadsC(me.t) /\ me.sub < launch.subtiles /\ IsFree(cring[c].empty, me.r)
  /\ cring' = [cring EXCEPT ![c] = Put(@, me.r, <<me.t, me.sub>>)]
  /\ cload' = [cload EXCEPT ![c] = [me EXCEPT !.sub = @ + 1, !.r = @ + 1]]
  /\ CRest /\ UNCHANGED slot

CAdvance(c) ==
  LET me == cload[c] IN
  /\ me.at = "c" /\ (LoadsC(me.t) => me.sub = launch.subtiles) /\ SlotReady(me.t) /\ ReadSlot(me.t)
  /\ cload' = [cload EXCEPT ![c] = [me EXCEPT !.t = SlotTile(me.t), !.sub = 0,
       !.at = IF Valid(SlotTile(me.t)) THEN "c" ELSE "tail"]]
  /\ CRest /\ UNCHANGED cring

CTail(c) ==
  /\ cload[c].at = "tail" /\ TailFree(cring[c].empty, cload[c].r)
  /\ cload' = [cload EXCEPT ![c].at = "done"]
  /\ CRest /\ UNCHANGED <<cring, slot>>

-----------------------------------------------------------------------------
(* The scheduler of CTA 0 draws, by CLC one draw per tile the load warp    *)
(* has started; every CTA's scheduler warp also reads the slots.           *)

SchedRest == UNCHANGED <<launch, load, index, mma, epi, cload, ab, idx, cring, acc, tmem, flying, met>>
ThrottleSync ==
  /\ sched[0].at = "sync"
  /\ GateArrives
  /\ sched' = [sched EXCEPT ![0].at = "synced", ![0].gen = gate.gen]
  /\ SchedRest /\ UNCHANGED slot
ThrottleWait ==
  /\ sched[0].at = "synced" /\ gate.gen # sched[0].gen
  /\ sched' = [sched EXCEPT ![0].at = "write"]
  /\ SchedRest /\ UNCHANGED <<slot, gate>>

WriteSlot ==
  LET me == sched[0] IN
  /\ me.at = "write" /\ IsFree(slot.empty, me.t - 1)
  /\ slot' = Put(slot, me.t - 1, me.t + 1)
  /\ sched' = [sched EXCEPT ![0].at = "read"]
  /\ SchedRest /\ UNCHANGED gate

SchedAdvance(c) ==
  LET me == sched[c] IN
  /\ me.at = "read" /\ SlotReady(me.t) /\ ReadSlot(me.t)
  /\ sched' = [sched EXCEPT ![c] = [me EXCEPT !.t = SlotTile(me.t), !.at = Throttled(c, SlotTile(me.t))]]
  /\ SchedRest /\ UNCHANGED gate

SchedTail ==
  /\ sched[0].at = "tail" /\ TailFree(slot.empty, sched[0].t - 1)
  /\ sched' = [sched EXCEPT ![0].at = "done"]
  /\ SchedRest /\ UNCHANGED <<slot, gate>>

-----------------------------------------------------------------------------
LoadStep(c, w) ==
  \/ ThrottleCommit(c, w) \/ ReadIndices(c, w) \/ Fetch(c, w) \/ Signal(c, w)
  \/ LoadAdvance(c, w) \/ LoadTail(c, w)
CtaStep(c) ==
  \/ \E w \in Loads : LoadStep(c, w)
  \/ PutIndices(c) \/ IndexAdvance(c)
  \/ Forward(c) \/ MmaAdvance(c)
  \/ Peek(c) \/ ReadAcc(c) \/ ReadC(c)
  \/ CBegin(c) \/ FetchC(c) \/ CAdvance(c) \/ CTail(c)
  \/ SchedAdvance(c)
Next ==
  \/ \E c \in Ctas : CtaStep(c)
  \/ \E f \in flying : Land(f)
  \/ AccAcquire \/ Multiply \/ AccCommit \/ MmaTail
  \/ ThrottleSync \/ ThrottleWait \/ WriteSlot \/ SchedTail
Spec == Init /\ [][Next]_vars /\ WF_vars(Next)

-----------------------------------------------------------------------------
(* What the processes and barriers range over.                             *)
BarOK(b) == b.parity \in {0, 1} /\ b.pending \in Nat
TypeOK ==
  /\ launch \in Launches
  /\ \A c \in Ctas :
       /\ \A w \in Loads :
            /\ load[c][w].at \in {"commit", "index", "fetch", "signal", "read", "tail", "done"}
            /\ {load[c][w].k, load[c][w].n, load[c][w].i} \subseteq Nat
       /\ index[c].at \in {"put", "done"}
       /\ mma[c].at \in {"acquire", "k", "read", "tail", "done"}
       /\ epi[c].at \in {"peek", "acc", "c", "done"} /\ epi[c].sub \in Subs
       /\ cload[c].at \in {"begin", "c", "tail", "done"}
       /\ sched[c].at \in {"sync", "synced", "write", "read", "tail", "done"}
       /\ \A s \in 0..AbStages - 1 : BarOK(ab[c].full[s]) /\ BarOK(ab[c].empty[s])
       /\ met[c] \in 0..launch.loads
  /\ gate.arrived \in {0, 1}

(* When the leader's barrier lets it multiply a k-tile, every load warp's  *)
(* part of A and the B of every CTA in that stage are that k-tile's: the   *)
(* indices were those of the tile, the arrive counts miss no one, and a    *)
(* stage is not refilled before both CTAs' halves were read.               *)
ReadsOwnOperands ==
  LET me == mma[Leader] IN
  (me.at = "k" /\ me.k < K(me.t) /\ IsFull(ab[Leader].full, me.n)) =>
    \A c \in Ctas, p \in 0..launch.loads :
      ab[c].data[Stage(ab[c].full, me.n)][p] = <<me.t, me.k>>

(* A subtile about to be read from tensor memory holds all of the tile's   *)
(* k-tiles: no later tile's sum and no later tile's scale factors are in   *)
(* its columns; and a C stage read is the subtile's.  (With no k-tiles the *)
(* epilogue reads zeros instead.)                                          *)
ReadsOwnAccumulator ==
  \A c \in Ctas :
    LET me == epi[c] IN
    /\ (HasAcc(c) /\ K(me.t) > 0) => tmem[c][AccBuffer(me.a)][me.sub] = <<me.t, K(me.t)>>
    /\ (me.at = "c" /\ IsFull(cring[c].full, me.r)) =>
         cring[c].data[Stage(cring[c].full, me.r)] = <<me.t, me.sub>>

(* Every warp of every CTA leaves.  The C warp waits for the loads, the    *)
(* draws for the loads they are credited to, a slot for all its readers,   *)
(* which wait for one another through four other rings.                    *)
Finished ==
  \A c \in Ctas :
    /\ {index[c].at, mma[c].at, epi[c].at, cload[c].at, sched[c].at} = {"done"}
    /\ \A w \in Loads : load[c][w].at = "done"
KernelEnds == <>Finished
=============================================================================
