----------------------------- MODULE RowKernels -----------------------------
(***************************************************************************)
(* The row kernels (rmsnorm.py, softmax.py, cross_entropy.py) and the      *)
(* exchange they reduce with (reduce.py, reduction_base.py,                *)
(* pipeline.PipelineStasAsync).  A row is split over the warps of a CTA    *)
(* and over the CTAs of a cluster.  Every warp stores its partial into     *)
(* every CTA's reduction buffer with an asynchronous remote store, which   *)
(* also credits that CTA's transaction barrier, waits for its own barrier  *)
(* and combines all partials of its row.  With one CTA the same exchange   *)
(* goes through plain shared memory and the CTA barrier.                   *)
(*                                                                         *)
(* The forward kernels run one or two reductions and exit; the backward    *)
(* one (of RMSNorm and LayerNorm) is persistent: it reuses two stages of   *)
(* the buffer under empty barriers the peers arrive on remotely, reads its *)
(* rows through a ring of prefetched tiles, folds the weight gradients of  *)
(* its rows through scratch that aliases that ring, and must not leave     *)
(* while a peer still arrives at its barriers.                             *)
(*                                                                         *)
(* A warp stands for its lanes: lane p's store to peer p is one message.   *)
(***************************************************************************)
EXTENDS Integers, Sequences, FiniteSets

CONSTANT Launches   \* the configurations Init chooses from

(* A launch: ctas (cluster_n), warps of a CTA, perRow of them on one row;  *)
(* rounds: the reductions of a forward kernel, the row iterations of a     *)
(* backward one; values exchanged per round; inPlace: the gradient of the  *)
(* loss overwrites the logits; tma: tiles are fetched by TMA, not by       *)
(* cp.async; tileStages; grads: how many of dW and dB are accumulated.     *)
LaunchType ==
  [backward : BOOLEAN, ctas : Nat \ {0}, warps : Nat \ {0}, perRow : Nat \ {0},
   rounds : Nat, values : Nat \ {0}, inPlace : BOOLEAN, tma : BOOLEAN,
   tileStages : Nat \ {0, 1}, grads : {0, 1, 2}]
ASSUME LaunchesAssumption ==
  \A l \in Launches :
    /\ l \in LaunchType /\ l.warps % l.perRow = 0
    /\ (~l.backward => l.rounds \in {1, 2} /\ l.values = 1)

VARIABLES
  launch,
  warp,            \* warp[c][w]: where it is, its round, its step in the scratch fold
  slots,           \* slots[c][s][v][<<w, d>>]: the round whose partial d's warp w left
  full, empty,     \* the barriers of the exchange, per CTA and stage
  flying,          \* remote stores and remote arrivals issued and not performed
  met,             \* met[c][w]: how many CTA barriers w has arrived at
  tile,            \* tile[c][s][w]: the round of w's part of the tile in stage s
  fetched, freed,  \* the tile ring's mbarriers
  loading,         \* fetches issued and not landed
  scratch          \* scratch[c][w]: which gradient w left there
exchange == <<slots, full, empty, flying>>
ring == <<tile, fetched, freed, loading>>
vars == <<launch, warp, exchange, met, ring, scratch>>

Ctas == 0..launch.ctas - 1
Warps == 0..launch.warps - 1
At(c, w) == warp[c][w].at
Round(c, w) == warp[c][w].n
Row(w) == w \div launch.perRow
SameRow(w) == {v \in Warps : Row(v) = Row(w)}
Clustered == launch.ctas > 1
Exchanges == Clustered \/ launch.perRow > 1

-----------------------------------------------------------------------------
(* A transaction barrier: it flips when no arrival and no byte is pending. *)
(* A store that lands before the barrier is armed takes tx below zero.     *)

Fresh(count) == [parity |-> 0, pending |-> count, tx |-> 0]
Hit(b, count, arrivals, bytes) ==
  LET h == [b EXCEPT !.pending = @ - arrivals, !.tx = @ + bytes] IN
  IF h.pending = 0 /\ h.tx = 0 THEN [Fresh(count) EXCEPT !.parity = 1 - b.parity] ELSE h

Stages == 0..1
StageOf(n) == n % 2
PhaseOf(n) == (n \div 2) % 2

(* The full barrier takes one arrive, its armer's; the empty one an arrive *)
(* of every warp of the cluster.                                           *)
\* Variation: the count is of lanes, as if each arrived.
EveryLane == 32 * launch.warps * launch.ctas
Releases == launch.warps * launch.ctas
\* Variation: only this CTA's own stores are counted.
OwnStores == launch.warps * launch.values
Armed == launch.warps * launch.ctas * launch.values

IsFull(c, n) == full[c][StageOf(n)].parity # PhaseOf(n)
IsFree(c, n) == empty[c][StageOf(n)].parity = PhaseOf(n)

\* Variation: only the stage used last.
LastStage(c, n) == IsFree(c, n + 1)
Drained(c, n) == IsFree(c, n) /\ IsFree(c, n + 1)

-----------------------------------------------------------------------------
Nobody == -1
Init ==
  /\ launch \in Launches
  /\ warp = [c \in Ctas |-> [w \in Warps |-> [at |-> "setup", n |-> 0, k |-> 1]]]
  /\ slots = [c \in Ctas |-> [s \in Stages |-> [v \in 1..launch.values |->
                [x \in Warps \X Ctas |-> Nobody]]]]
  /\ full = [c \in Ctas |-> <<>>] /\ empty = [c \in Ctas |-> <<>>]
  /\ flying = {}
  /\ met = [c \in Ctas |-> [w \in Warps |-> 0]]
  /\ tile = [c \in Ctas |-> [s \in 0..launch.tileStages - 1 |-> [w \in Warps |-> Nobody]]]
  /\ fetched = [c \in Ctas |-> [s \in 0..launch.tileStages - 1 |-> Fresh(1)]]
  /\ freed = [c \in Ctas |-> [s \in 0..launch.tileStages - 1 |-> Fresh(launch.warps)]]
  /\ loading = {}
  /\ scratch = [c \in Ctas |-> [w \in Warps |-> 0]]

Goto(c, w, at) == warp' = [warp EXCEPT ![c][w].at = at]

(* Warp 0 initialises its CTA's barriers; every warp arrives at the        *)
(* cluster's barrier and waits there only before it first stores.          *)
Setup(c, w) ==
  /\ At(c, w) = "setup"
  /\ IF w = 0
       THEN /\ full' = [full EXCEPT ![c] = [s \in Stages |-> Fresh(1)]]
            /\ empty' = [empty EXCEPT ![c] = [s \in Stages |-> Fresh(Releases)]]
       ELSE UNCHANGED <<full, empty>>
  /\ Goto(c, w, IF launch.backward THEN "join" ELSE "load")
  /\ UNCHANGED <<launch, slots, flying, met, ring, scratch>>

(* A forward warp reads its part of the row; the thread that owns column 0 *)
(* also reads the row's target logit, wherever in the row that is.         *)
Load(c, w) ==
  /\ At(c, w) = "load"
  /\ Goto(c, w, "join")
  /\ UNCHANGED <<launch, exchange, met, ring, scratch>>

AllArrived == Clustered => \A d \in Ctas : \A v \in Warps : At(d, v) # "setup"
Join(c, w) ==
  /\ At(c, w) = "join" /\ AllArrived
  /\ Goto(c, w, IF launch.backward THEN "prefetch" ELSE "publish")
  /\ UNCHANGED <<launch, exchange, met, ring, scratch>>

-----------------------------------------------------------------------------
(* The tile ring.  By TMA, warp 0 fetches a tile for the whole CTA under   *)
(* mbarriers; by cp.async every warp fetches the part it will read itself. *)

TileStage(n) == n % launch.tileStages
TilePhase(n) == (n \div launch.tileStages) % 2
Lead == launch.tileStages - 1
Fetches(w) == ~launch.tma \/ w = 0
Part(w) == IF launch.tma THEN Warps ELSE {w}
Fetch(c, w, ns) ==
  /\ loading' = loading \cup {[cta |-> c, part |-> Part(w), n |-> n] : n \in ns}
  /\ tile' = [tile EXCEPT ![c] = [s \in DOMAIN @ |-> [v \in Warps |->
                IF v \in Part(w) /\ \E n \in ns : TileStage(n) = s THEN Nobody ELSE @[s][v]]]]
  /\ UNCHANGED <<fetched, freed>>

Prefetch(c, w) ==
  /\ At(c, w) = "prefetch"
  /\ IF Fetches(w) THEN Fetch(c, w, {n \in 0..Lead - 1 : n < launch.rounds}) ELSE UNCHANGED ring
  /\ Goto(c, w, "ahead")
  /\ UNCHANGED <<launch, exchange, met, scratch>>

(* The start of an iteration: fetch the tile Lead iterations ahead, once   *)
(* every warp has freed its stage (TMA; by cp.async the reader is oneself). *)
TileFree(c, n) == launch.tma => freed[c][TileStage(n)].parity = TilePhase(n)
Ahead(c, w) ==
  /\ At(c, w) = "ahead" /\ Round(c, w) < launch.rounds
  /\ LET n == Round(c, w) + Lead IN
     IF Fetches(w) /\ n < launch.rounds
       THEN TileFree(c, n) /\ Fetch(c, w, {n})
       ELSE UNCHANGED ring
  /\ Goto(c, w, "arrives")
  /\ UNCHANGED <<launch, exchange, met, scratch>>

TileHere(c, w) ==
  IF launch.tma THEN fetched[c][TileStage(Round(c, w))].parity # TilePhase(Round(c, w))
  ELSE \A f \in loading : f.cta = c /\ w \in f.part => f.n > Round(c, w)
WaitTile(c, w) ==
  /\ At(c, w) = "arrives" /\ TileHere(c, w)
  /\ Goto(c, w, "tile")
  /\ UNCHANGED <<launch, exchange, met, ring, scratch>>

Land ==
  \E f \in loading :
    /\ loading' = loading \ {f}
    /\ tile' = [tile EXCEPT ![f.cta][TileStage(f.n)] =
                  [w \in Warps |-> IF w \in f.part THEN f.n ELSE @[w]]]
    /\ fetched' = IF launch.tma THEN [fetched EXCEPT ![f.cta][TileStage(f.n)] = Hit(@, 1, 1, 0)]
                  ELSE fetched
    /\ UNCHANGED <<launch, warp, exchange, met, freed, scratch>>

-----------------------------------------------------------------------------
(* One reduction round.                                                    *)

Acquire(c, w) ==
  /\ At(c, w) = "tile"
  /\ Clustered => IsFree(c, Round(c, w))
  /\ Goto(c, w, "publish")
  /\ UNCHANGED <<launch, exchange, met, ring, scratch>>

Stores(c, w) ==
  {[kind |-> "store", from |-> c, warp |-> w, to |-> d, n |-> Round(c, w), v |-> v] :
     d \in Ctas, v \in 1..launch.values}
Arrivals(c, w) ==
  {[kind |-> "arrive", from |-> c, warp |-> w, to |-> d, n |-> Round(c, w), v |-> 0] : d \in Ctas}

(* cluster_reduce: warp 0 arms its CTA's barrier with the bytes of every   *)
(* warp of the cluster; every warp stores to every CTA.                    *)
PublishCluster(c, w) ==
  /\ At(c, w) = "publish" /\ Clustered
  /\ full' = IF w = 0 THEN [full EXCEPT ![c][StageOf(Round(c, w))] = Hit(@, 1, 1, Armed)] ELSE full
  /\ flying' = flying \cup Stores(c, w)
  /\ Goto(c, w, "wait")
  /\ UNCHANGED <<launch, slots, empty, met, ring, scratch>>

(* block_reduce: one lane writes the warp's slot and arrives.              *)
PublishBlock(c, w) ==
  /\ At(c, w) = "publish" /\ ~Clustered /\ Exchanges
  /\ slots' = [slots EXCEPT ![c][StageOf(Round(c, w))] =
                 [v \in 1..launch.values |-> [@[v] EXCEPT ![<<w, c>>] = Round(c, w)]]]
  /\ met' = [met EXCEPT ![c][w] = @ + 1]
  /\ Goto(c, w, "wait")
  /\ UNCHANGED <<launch, full, empty, flying, ring, scratch>>

AllMet(c, w) == \A v \in Warps : met[c][v] >= met[c][w]
WaitAll(c, w) ==
  /\ At(c, w) = "wait"
  /\ IF Clustered THEN IsFull(c, Round(c, w)) ELSE AllMet(c, w)
  /\ Goto(c, w, "combine")
  /\ UNCHANGED <<launch, exchange, met, ring, scratch>>

(* One warp has the row to itself: the shuffles were the whole reduction.  *)
Alone(c, w) ==
  /\ At(c, w) = "publish" /\ ~Exchanges
  /\ Goto(c, w, "combine")
  /\ UNCHANGED <<launch, exchange, met, ring, scratch>>

(* Having read the partials, a backward warp releases the stage to every   *)
(* CTA and goes on with its tile; a forward one reduces again or ends.     *)
CombineBackward(c, w) ==
  /\ At(c, w) = "combine" /\ launch.backward
  /\ flying' = IF Clustered THEN flying \cup Arrivals(c, w) ELSE flying
  /\ Goto(c, w, "gradient")
  /\ UNCHANGED <<launch, slots, full, empty, met, ring, scratch>>

CombineForward(c, w) ==
  /\ At(c, w) = "combine" /\ ~launch.backward
  /\ IF Round(c, w) + 1 < launch.rounds
       THEN warp' = [warp EXCEPT ![c][w].at = "publish", ![c][w].n = @ + 1]
       ELSE Goto(c, w, "output")
  /\ UNCHANGED <<launch, exchange, met, ring, scratch>>

Output(c, w) ==
  /\ At(c, w) = "output"
  /\ Goto(c, w, "done")
  /\ UNCHANGED <<launch, exchange, met, ring, scratch>>

Perform ==
  \E m \in flying :
    LET s == StageOf(m.n) IN
    /\ flying' = flying \ {m}
    /\ IF m.kind = "store"
         THEN /\ slots' = [slots EXCEPT ![m.to][s][m.v][<<m.warp, m.from>>] = m.n]
              /\ full' = [full EXCEPT ![m.to][s] = Hit(@, 1, 0, -1)]
              /\ UNCHANGED empty
         ELSE /\ empty' = [empty EXCEPT ![m.to][s] = Hit(@, Releases, 1, 0)]
              /\ UNCHANGED <<slots, full>>
    /\ UNCHANGED <<launch, warp, met, ring, scratch>>

(* The row's gradient is stored, from the tile read again, and the tile's  *)
(* stage freed.                                                            *)
Gradient(c, w) ==
  /\ At(c, w) = "gradient"
  /\ warp' = [warp EXCEPT ![c][w].at = "ahead", ![c][w].n = @ + 1]
  /\ freed' = IF launch.tma
                THEN [freed EXCEPT ![c][TileStage(Round(c, w))] = Hit(@, launch.warps, 1, 0)]
                ELSE freed
  /\ UNCHANGED <<launch, exchange, met, tile, fetched, loading, scratch>>

-----------------------------------------------------------------------------
(* After the loop: the rows of a CTA fold their gradients through scratch  *)
(* that aliases the tiles, dW before dB, fenced by CTA barriers.           *)

Meet == [op |-> "meet", g |-> 0]
Write(g) == [op |-> "write", g |-> g]
Read(g) == [op |-> "read", g |-> g]
Fold ==
  IF launch.warps = launch.perRow THEN <<>>
  ELSE SubSeq(<<Meet, Write(1), Meet, Read(1), Meet, Meet, Write(2), Meet, Read(2)>>, 1,
              IF launch.grads = 0 THEN 0 ELSE IF launch.grads = 1 THEN 5 ELSE 9)

Folding(c, w) == At(c, w) = "fold" /\ warp[c][w].k <= Len(Fold)
Op(c, w) == Fold[warp[c][w].k]
LeaveLoop(c, w) ==
  /\ At(c, w) = "ahead" /\ Round(c, w) = launch.rounds
  /\ Goto(c, w, "fold")
  /\ UNCHANGED <<launch, exchange, met, ring, scratch>>

FoldArrive(c, w) ==
  /\ Folding(c, w) /\ Op(c, w).op = "meet"
  /\ met' = [met EXCEPT ![c][w] = @ + 1]
  /\ Goto(c, w, "held")
  /\ UNCHANGED <<launch, exchange, ring, scratch>>
NextOp(c, w) == warp' = [warp EXCEPT ![c][w].at = "fold", ![c][w].k = @ + 1]
FoldLeave(c, w) ==
  /\ At(c, w) = "held" /\ AllMet(c, w)
  /\ NextOp(c, w)
  /\ UNCHANGED <<launch, exchange, met, ring, scratch>>
FoldWrite(c, w) ==
  /\ Folding(c, w) /\ Op(c, w).op = "write"
  /\ IF Row(w) > 0
       THEN /\ scratch' = [scratch EXCEPT ![c][w] = Op(c, w).g]
            /\ tile' = [tile EXCEPT ![c] = [s \in DOMAIN @ |-> [v \in Warps |-> Nobody]]]
       ELSE UNCHANGED <<scratch, tile>>
  /\ NextOp(c, w)
  /\ UNCHANGED <<launch, exchange, met, fetched, freed, loading>>
FoldRead(c, w) ==
  /\ Folding(c, w) /\ Op(c, w).op = "read"
  /\ NextOp(c, w)
  /\ UNCHANGED <<launch, exchange, met, ring, scratch>>

(* producer_tail: every stage is free, so every peer's arrival was seen.   *)
Leave(c, w) ==
  /\ At(c, w) = "fold" /\ ~Folding(c, w)
  /\ Clustered => Drained(c, Round(c, w))
  /\ Goto(c, w, "done")
  /\ UNCHANGED <<launch, exchange, met, ring, scratch>>

WarpNext(c, w) ==
  \/ Setup(c, w) \/ Load(c, w) \/ Join(c, w) \/ Prefetch(c, w) \/ Ahead(c, w)
  \/ WaitTile(c, w) \/ Acquire(c, w) \/ PublishCluster(c, w) \/ PublishBlock(c, w)
  \/ Alone(c, w) \/ WaitAll(c, w) \/ CombineBackward(c, w) \/ CombineForward(c, w)
  \/ Output(c, w) \/ Gradient(c, w) \/ LeaveLoop(c, w) \/ FoldArrive(c, w)
  \/ FoldLeave(c, w) \/ FoldWrite(c, w) \/ FoldRead(c, w) \/ Leave(c, w)

Finished == \A c \in Ctas : \A w \in Warps : At(c, w) = "done"
Next ==
  \/ \E c \in Ctas : \E w \in Warps : WarpNext(c, w)
  \/ Land \/ Perform

(* A launched warp that can go on does, and memory operations complete;    *)
(* no warp can go on for ever, so which one goes first does not matter.    *)
Spec ==
  /\ Init /\ [][Next]_vars
  /\ WF_vars(\E c \in Ctas : \E w \in Warps : WarpNext(c, w)) /\ WF_vars(Land) /\ WF_vars(Perform)

-----------------------------------------------------------------------------
Barriers(b, count) ==
  \A s \in DOMAIN b : b[s].parity \in {0, 1} /\ b[s].pending \in 0..count /\ b[s].tx \in Int

(* Barriers stay between no and all of their arrivals pending, warps stay  *)
(* in their rounds and no stage holds a round that was never reduced.      *)
TypeOK ==
  /\ \A c \in Ctas : Barriers(full[c], 1) /\ Barriers(empty[c], Releases)
  /\ \A c \in Ctas : Barriers(fetched[c], 1) /\ Barriers(freed[c], launch.warps)
  /\ \A c \in Ctas, w \in Warps : Round(c, w) \in 0..launch.rounds

(* What a warp reads is what this round of its own row wrote: from the     *)
(* moment it may combine until it has, every slot of its row holds the     *)
(* partial of this round of every warp of every CTA, and while it reads    *)
(* its tile, first for the reduction and again for the gradient, the stage *)
(* holds this round's tile.  So for the fold after the loop: the CTA's     *)
(* first row adds what every other row left of this very gradient.         *)
ReadsItsRound ==
  \A c \in Ctas : \A w \in Warps :
    /\ (At(c, w) = "combine" /\ Exchanges) =>
         \A v \in 1..launch.values : \A u \in SameRow(w) : \A d \in Ctas :
           slots[c][StageOf(Round(c, w))][v][<<u, d>>] = Round(c, w)
    /\ At(c, w) \in {"tile", "gradient"} =>
         tile[c][TileStage(Round(c, w))][w] = Round(c, w)
    /\ (Folding(c, w) /\ Op(c, w).op = "read" /\ Row(w) = 0) =>
         \A v \in Warps : Row(v) > 0 => scratch[c][v] = Op(c, w).g

(* No store and no arrival is on its way to a CTA whose barriers are not   *)
(* initialised yet or whose shared memory is gone because it has exited.   *)
PeersAreThere ==
  \A m \in flying : full[m.to] # <<>> /\ \E w \in Warps : At(m.to, w) # "done"

(* With the gradient written over the logits, the one thread that reads    *)
(* the row's target logit, which a warp of another CTA may own, reads it   *)
(* before any warp of the row writes its gradient.                         *)
\* Variation: the target is read when the loss is computed.
AtLoss(c, w) == At(c, w) = "output"
ReadsTarget(c, w) == At(c, w) = "load"
TargetIsLogit ==
  launch.inPlace =>
    \A w \in Warps : (w % launch.perRow = 0 /\ ReadsTarget(0, w)) =>
      \A d \in Ctas, v \in SameRow(w) : (d # 0 \/ v # w) => At(d, v) \notin {"output", "done"}

(* Every warp of the cluster exits.                                        *)
KernelEnds == <>Finished
=============================================================================
