-------------------------- MODULE RowKernelsProofs --------------------------
(***************************************************************************)
(* Proofs about RowKernels, for every cluster, every number of warps and   *)
(* values, every row count and both kinds of tile ring.                    *)
(*                                                                         *)
(* A barrier has one parity bit and the peers share no counter: that a     *)
(* stage holds the round a warp waits for rests on a chain.  A warp stores *)
(* a round only when its own CTA's empty barrier has been through the      *)
(* round two before, so when every warp of the cluster has released that;  *)
(* having released it, each had seen its own full barrier through it, so   *)
(* no store of that round is still on its way, to any CTA.                 *)
(***************************************************************************)
EXTENDS RowKernels, FiniteSetTheorems, WellFoundedInduction, TLAPS

(* RowTiling's pure definitions; its behaviours, and so its parameters, are *)
(* not used here.                                                          *)
Tiling == INSTANCE RowTiling WITH Rows <- {}, row <- <<>>

Places ==
  {"setup", "load", "join", "prefetch", "ahead", "arrives", "tile", "publish", "wait",
   "combine", "gradient", "fold", "held", "output", "done"}
Bar(count) == [parity : {0, 1}, pending : 0..count, tx : Int]
TileStages == 0..launch.tileStages - 1
Values == 1..launch.values
Message ==
  [kind : {"store", "arrive"}, from : Ctas, warp : Warps, to : Ctas, n : Nat, v : 0..launch.values]

Types ==
  /\ launch \in Launches
  /\ warp \in [Ctas -> [Warps -> [at : Places, n : 0..launch.rounds, k : 1..10]]]
  /\ slots \in [Ctas -> [Stages -> [Values -> [Warps \X Ctas -> Int]]]]
  /\ full \in [Ctas -> {<<>>} \cup [Stages -> Bar(1)]]
  /\ empty \in [Ctas -> {<<>>} \cup [Stages -> Bar(Releases)]]
  /\ flying \in SUBSET Message
  /\ met \in [Ctas -> [Warps -> Nat]]
  /\ tile \in [Ctas -> [TileStages -> [Warps -> Int]]]
  /\ fetched \in [Ctas -> [TileStages -> Bar(1)]]
  /\ freed \in [Ctas -> [TileStages -> Bar(launch.warps)]]
  /\ loading \in SUBSET [cta : Ctas, part : SUBSET Warps, n : Nat]
  /\ scratch \in [Ctas -> [Warps -> 0..2]]

(* Where a warp can be, of which kernel and in which round.                *)
Loop == {"arrives", "tile", "publish", "wait", "combine", "gradient"}
After == {"fold", "held", "done"}
PlaceOK(c, w) ==
  /\ At(c, w) \in {"prefetch", "ahead", "arrives", "tile", "gradient", "fold", "held"} => launch.backward
  /\ At(c, w) \in {"load", "output"} => ~launch.backward
  /\ At(c, w) \in {"setup", "load", "join", "prefetch"} => Round(c, w) = 0
  /\ At(c, w) \in Loop => Round(c, w) < launch.rounds
  /\ launch.backward /\ At(c, w) \in After => Round(c, w) = launch.rounds
  /\ ~launch.backward /\ At(c, w) \in {"output", "done"} => Round(c, w) = launch.rounds - 1
  /\ At(c, w) = "wait" => Exchanges
  /\ At(c, w) \notin After \/ ~launch.backward => warp[c][w].k = 1
  /\ warp[c][w].k <= Len(Fold) + 1
  /\ At(c, w) = "held" => warp[c][w].k <= Len(Fold) /\ Op(c, w).op = "meet"
PlacesOK == \A c \in Ctas, w \in Warps : PlaceOK(c, w)

(* How many rounds a warp has begun, stored, seen through, released.       *)
Past(c, w, places) == Round(c, w) + (IF At(c, w) \in places THEN 1 ELSE 0)
Ended == IF launch.backward THEN {} ELSE {"output", "done"}
Acquired(c, w) == Past(c, w, {"publish", "wait", "combine", "gradient"})
Stored(c, w) == Past(c, w, {"wait", "combine", "gradient"} \cup Ended)
Seen(c, w) == Past(c, w, {"combine", "gradient"} \cup Ended)
Released(c, w) == Past(c, w, {"gradient"})

(* The stores of round n that c has performed, all it is to get, and the   *)
(* arrivals.                                                               *)
StoreMsg(d, u, c, n, v) == [kind |-> "store", from |-> d, warp |-> u, to |-> c, n |-> n, v |-> v]
ArriveMsg(d, u, c, n) == [kind |-> "arrive", from |-> d, warp |-> u, to |-> c, n |-> n, v |-> 0]
Partials == (Ctas \X Warps) \X Values
Got(c, n) ==
  {x \in Partials : Stored(x[1][1], x[1][2]) > n /\ StoreMsg(x[1][1], x[1][2], c, n, x[2]) \notin flying}
Full(c, n) == Got(c, n) = Partials
Arrived(c, n) ==
  {x \in Ctas \X Warps : Released(x[1], x[2]) > n /\ ArriveMsg(x[1], x[2], c, n) \notin flying}
Emptied(c, n) == Arrived(c, n) = Ctas \X Warps

(* Shared memory is set up before a peer may use it.                       *)
Ready ==
  /\ \A c \in Ctas : /\ full[c] = <<>> <=> At(c, 0) = "setup"
                     /\ empty[c] = <<>> <=> At(c, 0) = "setup"
  /\ Clustered => \A c, d \in Ctas, w, u \in Warps :
       At(c, w) \notin {"setup", "load", "join"} => At(d, u) # "setup"

(* What is on its way was sent.                                            *)
Flying ==
  \A m \in flying :
    /\ Clustered
    /\ m.kind = "store" => Stored(m.from, m.warp) > m.n /\ m.v \in Values
    /\ m.kind = "arrive" => launch.backward /\ Released(m.from, m.warp) > m.n /\ m.v = 0

(* A barrier that has been through the round before on its stage, and not  *)
(* through this one, counts what has come of this one.                     *)
FullCounts ==
  Clustered => \A c \in Ctas : \A n \in Nat :
    full[c] # <<>> /\ (n < 2 \/ Full(c, n - 2)) /\ ~Full(c, n) =>
      full[c][StageOf(n)] =
        [parity |-> PhaseOf(n), pending |-> IF Stored(c, 0) > n THEN 0 ELSE 1,
         tx |-> (IF Stored(c, 0) > n THEN Armed ELSE 0) - Cardinality(Got(c, n))]
EmptyCounts ==
  Clustered /\ launch.backward => \A c \in Ctas : \A n \in Nat :
    empty[c] # <<>> /\ (n < 2 \/ Emptied(c, n - 2)) /\ ~Emptied(c, n) =>
      empty[c][StageOf(n)] =
        [parity |-> PhaseOf(n), pending |-> Releases - Cardinality(Arrived(c, n)), tx |-> 0]

(* A warp goes on from a round only when its own CTA's barrier has been    *)
(* through it, to the next but one only when every warp has released it to *)
(* this CTA, and exits only when all have released all.                    *)
SeenFull == Clustered => \A c \in Ctas, w \in Warps : \A n \in Nat : Seen(c, w) > n => Full(c, n)
AcquiredFree ==
  Clustered /\ launch.backward =>
    \A c \in Ctas, w \in Warps : \A n \in Nat : Acquired(c, w) > n + 2 => Emptied(c, n)
DoneFree ==
  Clustered /\ launch.backward =>
    \A c \in Ctas, w \in Warps : \A n \in Nat : At(c, w) = "done" /\ n < launch.rounds => Emptied(c, n)

(* A slot holds the round performed last.                                  *)
Slots ==
  Exchanges => \A c, d \in Ctas, u \in Warps : \A v \in Values : \A n \in Nat :
    <<<<d, u>>, v>> \in Got(c, n) /\ <<<<d, u>>, v>> \notin Got(c, n + 2)
      => slots[c][StageOf(n)][v][<<u, d>>] = n

Exchange == /\ Ready /\ Flying /\ FullCounts /\ EmptyCounts
            /\ SeenFull /\ AcquiredFree /\ DoneFree /\ Slots

(* The CTA barriers a warp has arrived at: one a round if that is how the  *)
(* CTA exchanges, and those of the fold; and those it has been through.    *)
Meets == <<0, 1, 1, 2, 2, 3, 4, 4, 5, 5>>
Before(c, w) == IF Clustered \/ ~Exchanges THEN 0 ELSE Stored(c, w)
Holding(c, w) == At(c, w) = "held" \/ (At(c, w) = "wait" /\ ~Clustered)
Through(c, w) == met[c][w] - (IF Holding(c, w) THEN 1 ELSE 0)
MetCounts ==
  \A c \in Ctas, w \in Warps :
    met[c][w] = Before(c, w) + Meets[warp[c][w].k] + (IF At(c, w) = "held" THEN 1 ELSE 0)
MetAll == \A c \in Ctas, w, v \in Warps : Through(c, w) <= met[c][v]

(* What each warp has left in the scratch.                                 *)
Left(k) == IF k <= 2 THEN 0 ELSE IF k <= 7 THEN 1 ELSE 2
Scratch == \A c \in Ctas, w \in Warps : Row(w) > 0 => scratch[c][w] = Left(warp[c][w].k)
Folds == MetCounts /\ MetAll /\ Scratch

(* The tiles the fetching warp has issued, and those landed.               *)
Fetcher(w) == IF launch.tma THEN 0 ELSE w
Issued(c, w) ==
  IF ~launch.backward \/ At(c, w) \in {"setup", "load", "join", "prefetch"} THEN 0
  ELSE LET most == Past(c, w, Loop) + Lead IN IF most < launch.rounds THEN most ELSE launch.rounds
Item(c, w, n) == [cta |-> c, part |-> Part(w), n |-> n]
Landed(c, w, n) == n < Issued(c, w) /\ Item(c, w, n) \notin loading
Tiled(c, w) == Past(c, w, Loop \ {"arrives"})

(* What is being fetched was issued by the warp that fetches that part.    *)
Loading ==
  \A f \in loading : \E w \in Warps :
    Fetcher(w) = w /\ f = Item(f.cta, w, f.n) /\ f.n < Issued(f.cta, w)
(* A warp goes on only with a tile that has landed, and a stage is fetched *)
(* again only when its readers are done.                                   *)
TiledLanded ==
  launch.backward => \A c \in Ctas, w \in Warps : \A n \in Nat : Tiled(c, w) > n => Landed(c, Fetcher(w), n)
AgainRead ==
  launch.backward /\ launch.tma => \A c \in Ctas, w \in Warps : \A n \in Nat :
    n + launch.tileStages < Issued(c, 0) => Round(c, w) > n
Readers(c, n) == {w \in Warps : Round(c, w) > n}
FetchedCounts ==
  launch.backward /\ launch.tma => \A c \in Ctas : \A n \in Nat :
    (n < launch.tileStages \/ Landed(c, 0, n - launch.tileStages)) /\ ~Landed(c, 0, n) =>
      fetched[c][TileStage(n)] = [parity |-> TilePhase(n), pending |-> 1, tx |-> 0]
FreedCounts ==
  launch.backward /\ launch.tma => \A c \in Ctas : \A n \in Nat :
    (n < launch.tileStages \/ Readers(c, n - launch.tileStages) = Warps) /\ Readers(c, n) # Warps =>
      freed[c][TileStage(n)] =
        [parity |-> TilePhase(n), pending |-> launch.warps - Cardinality(Readers(c, n)), tx |-> 0]
(* Until all warps are in the fold, a stage holds the tile landed last.    *)
Tiles ==
  \A c \in Ctas, w \in Warps : \A n \in Nat :
    /\ \E v \in Warps : At(c, v) \notin After
    /\ Landed(c, Fetcher(w), n) /\ ~(n + launch.tileStages < Issued(c, Fetcher(w)))
    => tile[c][TileStage(n)][w] = n

Ring == Loading /\ TiledLanded /\ AgainRead /\ FetchedCounts /\ FreedCounts /\ Tiles

IInv == Types /\ PlacesOK /\ Exchange /\ Folds /\ Ring

-----------------------------------------------------------------------------
(* What the launches are.                                                  *)
LEMMA Launched ==
  ASSUME launch \in Launches
  PROVE /\ launch.ctas \in Nat \ {0} /\ launch.warps \in Nat \ {0} /\ launch.perRow \in Nat \ {0}
        /\ launch.rounds \in Nat /\ launch.values \in Nat \ {0}
        /\ launch.tileStages \in Nat \ {0, 1} /\ launch.grads \in {0, 1, 2}
        /\ launch.backward \in BOOLEAN /\ launch.tma \in BOOLEAN /\ launch.inPlace \in BOOLEAN
        /\ ~launch.backward => launch.rounds \in {1, 2}
        /\ Ctas = 0..launch.ctas - 1 /\ Warps = 0..launch.warps - 1 /\ 0 \in Ctas /\ 0 \in Warps
        /\ Clustered \in BOOLEAN /\ Exchanges \in BOOLEAN /\ (Clustered => Exchanges)
        /\ ~Clustered => Ctas = {0}
        /\ Lead \in Nat /\ Lead = launch.tileStages - 1
BY LaunchesAssumption DEF LaunchType, Ctas, Warps, Clustered, Exchanges, Lead

(* The fold after the loop: its k-th operation.                            *)
FoldOps == <<"meet", "write", "meet", "read", "meet", "meet", "write", "meet", "read">>
FoldGs == <<0, 1, 0, 1, 0, 0, 2, 0, 2>>
(* The operations of the fold: at most nine, those of the two tables.      *)
LEMMA FoldIs ==
  ASSUME launch \in Launches
  PROVE /\ Len(Fold) \in 0..9
        /\ \A k \in 1..Len(Fold) : k \in 1..9 /\ Fold[k] = [op |-> FoldOps[k], g |-> FoldGs[k]]
<1> DEFINE all == <<Meet, Write(1), Meet, Read(1), Meet, Meet, Write(2), Meet, Read(2)>>
           n == IF launch.grads = 0 THEN 0 ELSE IF launch.grads = 1 THEN 5 ELSE 9
<1>1. \A k \in 1..9 : all[k] = [op |-> FoldOps[k], g |-> FoldGs[k]]
  BY DEF Meet, Write, Read, FoldOps, FoldGs
<1> DEFINE R == [op : {"meet", "write", "read"}, g : 0..2]
<1>2. all \in Seq(R) /\ Len(all) = 9
  <2>1. Meet \in R /\ Write(1) \in R /\ Write(2) \in R /\ Read(1) \in R /\ Read(2) \in R
    BY DEF Meet, Write, Read
  <2> HIDE DEF R
  <2> QED BY <2>1 DEF all
<1> HIDE DEF R
<1> HIDE DEF all
<1>3. n \in 0..9 OBVIOUS
<1>4. CASE launch.warps = launch.perRow
  <2>1. Fold = <<>> BY <1>4 DEF Fold
  <2> QED BY <2>1
<1>5. CASE launch.warps # launch.perRow
  <2>1. Fold = SubSeq(all, 1, n) BY <1>5 DEF Fold, all
  <2> HIDE DEF n
  <2>2. Len(SubSeq(all, 1, n)) = n /\ \A k \in 1..n : SubSeq(all, 1, n)[k] = all[k] BY <1>2, <1>3
  <2> QED BY <1>1, <1>3, <2>1, <2>2
<1> QED BY <1>4, <1>5

(* A barrier's stage and phase come round every other round.               *)
LEMMA Stage2 ==
  ASSUME NEW n \in Nat
  PROVE /\ StageOf(n) \in Stages /\ PhaseOf(n) \in {0, 1}
        /\ StageOf(n + 2) = StageOf(n) /\ PhaseOf(n + 2) = 1 - PhaseOf(n)
        /\ StageOf(n + 1) # StageOf(n)
        /\ \A m \in Nat : StageOf(m) = StageOf(n) /\ m > n => m >= n + 2
        /\ n < 2 => PhaseOf(n) = 0 /\ StageOf(n) = n
BY DEF StageOf, PhaseOf, Stages

(* A step that changes only one warp changes one element.                  *)
LEMMA Except2 ==
  ASSUME NEW A, NEW B, NEW R, NEW f \in [A -> [B -> R]], NEW a \in A, NEW b \in B, NEW v \in R,
         NEW g, g = [f EXCEPT ![a][b] = v]
  PROVE /\ g \in [A -> [B -> R]] /\ \A x \in A : x # a => g[x] = f[x]
        /\ \A x \in A, y \in B : g[x][y] = IF x = a /\ y = b THEN v ELSE f[x][y]
<1> DEFINE h == [f[a] EXCEPT ![b] = v]
<1>1. h \in [B -> R] /\ \A y \in B : h[y] = IF y = b THEN v ELSE f[a][y] OBVIOUS
<1>2. g = [f EXCEPT ![a] = h] OBVIOUS
<1> HIDE DEF h
<1>3. g \in [A -> [B -> R]] /\ g[a] = h /\ \A x \in A : x # a => g[x] = f[x] BY <1>1, <1>2
<1> QED BY <1>1, <1>3

(* What depends on the launch alone.                                       *)
LEMMA Same ==
  ASSUME launch' = launch
  PROVE /\ Ctas' = Ctas /\ Warps' = Warps /\ (Clustered' <=> Clustered) /\ (Exchanges' <=> Exchanges)
        /\ TileStages' = TileStages /\ Values' = Values /\ Message' = Message /\ Fold' = Fold
        /\ Releases' = Releases /\ Armed' = Armed /\ Lead' = Lead /\ Partials' = Partials
        /\ Ended' = Ended
        /\ \A n \in Nat : TileStage(n)' = TileStage(n) /\ TilePhase(n)' = TilePhase(n)
        /\ \A w : Row(w)' = Row(w) /\ SameRow(w)' = SameRow(w) /\ Fetcher(w)' = Fetcher(w) /\ Part(w)' = Part(w)
BY DEF Ctas, Warps, Clustered, Exchanges, TileStages, Values, Message, Fold, Releases, Armed, Lead,
       Partials, Ended, TileStage, TilePhase, Row, SameRow, Fetcher, Part

(* A step of one warp.                                                     *)
Place == [at : Places, n : 0..launch.rounds, k : 1..10]
Moves(c, w, at, n, k) ==
  /\ launch' = launch
  /\ warp' \in [Ctas -> [Warps -> Place]]
  /\ warp'[c][w] = [at |-> at, n |-> n, k |-> k]
  /\ \A d \in Ctas, u \in Warps : d # c \/ u # w => warp'[d][u] = warp[d][u]

(* A warp given a place, a round and an operation of the fold moves        *)
(* alone.                                                                  *)
LEMMA MovesIs ==
  ASSUME Types, NEW c \in Ctas, NEW w \in Warps, launch' = launch,
         NEW at \in Places, NEW n \in 0..launch.rounds, NEW k \in 1..10,
         warp' = [warp EXCEPT ![c][w] = [at |-> at, n |-> n, k |-> k]]
  PROVE Moves(c, w, at, n, k)
<1> DEFINE v == [at |-> at, n |-> n, k |-> k]
<1>1. v \in Place BY DEF Place
<1>2. warp \in [Ctas -> [Warps -> Place]] BY DEF Types, Place
<1>3. warp' = [warp EXCEPT ![c][w] = v] OBVIOUS
<1> HIDE DEF v
<1>4. /\ warp' \in [Ctas -> [Warps -> Place]]
      /\ \A x \in Ctas, y \in Warps : warp'[x][y] = IF x = c /\ y = w THEN v ELSE warp[x][y]
  BY <1>1, <1>2, <1>3, Except2
<1> QED BY <1>4 DEF Moves, v

(* Where a warp is, and what it may be.                                    *)
LEMMA WarpIs ==
  ASSUME Types, NEW c \in Ctas, NEW w \in Warps
  PROVE /\ At(c, w) \in Places /\ Round(c, w) \in 0..launch.rounds /\ warp[c][w].k \in 1..10
        /\ Round(c, w) \in Nat
<1>1. warp[c][w] \in Place BY DEF Types, Place
<1>2. launch.rounds \in Nat BY Launched DEF Types
<1> QED BY <1>1, <1>2 DEF Place, At, Round

(* What is known of a warp is its place, its round and its operation.      *)
LEMMA RecordIs ==
  ASSUME Types, NEW c \in Ctas, NEW w \in Warps
  PROVE warp[c][w] = [at |-> At(c, w), n |-> Round(c, w), k |-> warp[c][w].k]
<1>1. warp[c][w] \in Place BY DEF Types, Place
<1> QED BY <1>1 DEF Place, At, Round

(* Going to a place leaves the round and the operation of the fold.        *)
LEMMA GotoMoves ==
  ASSUME Types, NEW c \in Ctas, NEW w \in Warps, launch' = launch, NEW at \in Places, Goto(c, w, at)
  PROVE Moves(c, w, at, Round(c, w), warp[c][w].k)
<1>1. warp[c][w] = [at |-> At(c, w), n |-> Round(c, w), k |-> warp[c][w].k] BY RecordIs
<1>2. /\ [warp[c][w] EXCEPT !.at = at] = [at |-> at, n |-> Round(c, w), k |-> warp[c][w].k]
  BY <1>1
<1>3. warp' = [warp EXCEPT ![c][w] = [warp[c][w] EXCEPT !.at = at]]
  <2>1. warp[c] \in [Warps -> Place] /\ warp \in [Ctas -> [Warps -> Place]] BY DEF Types, Place
  <2>2. warp' = [warp EXCEPT ![c][w].at = at] BY DEF Goto
  <2> QED BY <2>1, <2>2
<1>4. warp' = [warp EXCEPT ![c][w] = [at |-> at, n |-> Round(c, w), k |-> warp[c][w].k]] BY <1>2, <1>3
<1>5. Round(c, w) \in 0..launch.rounds /\ warp[c][w].k \in 1..10 BY WarpIs
<1> QED BY <1>4, <1>5, MovesIs

(* Its counts after the step, and those of the other warps.                *)
LEMMA Counters ==
  ASSUME Types, NEW c \in Ctas, NEW w \in Warps, NEW at, NEW n, NEW k, Moves(c, w, at, n, k)
  PROVE /\ At(c, w)' = at /\ Round(c, w)' = n /\ (warp[c][w].k)' = k
        /\ at \in Places /\ n \in 0..launch.rounds /\ n \in Nat /\ k \in 1..10
        /\ Acquired(c, w)' = n + (IF at \in {"publish", "wait", "combine", "gradient"} THEN 1 ELSE 0)
        /\ Stored(c, w)' = n + (IF at \in {"wait", "combine", "gradient"} \cup Ended THEN 1 ELSE 0)
        /\ Seen(c, w)' = n + (IF at \in {"combine", "gradient"} \cup Ended THEN 1 ELSE 0)
        /\ Released(c, w)' = n + (IF at \in {"gradient"} THEN 1 ELSE 0)
        /\ Tiled(c, w)' = n + (IF at \in Loop \ {"arrives"} THEN 1 ELSE 0)
        /\ \A d \in Ctas, u \in Warps : d # c \/ u # w =>
             /\ warp'[d][u] = warp[d][u] /\ At(d, u)' = At(d, u) /\ Round(d, u)' = Round(d, u)
             /\ Acquired(d, u)' = Acquired(d, u) /\ Stored(d, u)' = Stored(d, u)
             /\ Seen(d, u)' = Seen(d, u) /\ Released(d, u)' = Released(d, u)
             /\ Tiled(d, u)' = Tiled(d, u) /\ Issued(d, u)' = Issued(d, u)
<1>1. launch' = launch /\ warp'[c][w] = [at |-> at, n |-> n, k |-> k] /\ warp'[c][w] \in Place
  BY DEF Moves
<1>2. at \in Places /\ n \in 0..launch.rounds /\ k \in 1..10 BY <1>1 DEF Place
<1>3. n \in Nat BY <1>2, Launched DEF Types
<1>4. At(c, w)' = at /\ Round(c, w)' = n /\ (warp[c][w].k)' = k BY <1>1 DEF At, Round
<1>5. Ended' = Ended BY <1>1, Same
<1>6. \A d \in Ctas, u \in Warps : d # c \/ u # w =>
        warp'[d][u] = warp[d][u] /\ At(d, u)' = At(d, u) /\ Round(d, u)' = Round(d, u)
  BY DEF Moves, At, Round
<1>7. Lead' = Lead BY <1>1, Same
<1>8. \A d \in Ctas, u \in Warps : d # c \/ u # w =>
             /\ Acquired(d, u)' = Acquired(d, u) /\ Stored(d, u)' = Stored(d, u)
             /\ Seen(d, u)' = Seen(d, u) /\ Released(d, u)' = Released(d, u)
             /\ Tiled(d, u)' = Tiled(d, u) /\ Issued(d, u)' = Issued(d, u)
  BY <1>1, <1>5, <1>6, <1>7 DEF Acquired, Stored, Seen, Released, Tiled, Issued, Past
<1>9. /\ Acquired(c, w)' = n + (IF at \in {"publish", "wait", "combine", "gradient"} THEN 1 ELSE 0)
      /\ Stored(c, w)' = n + (IF at \in {"wait", "combine", "gradient"} \cup Ended THEN 1 ELSE 0)
      /\ Seen(c, w)' = n + (IF at \in {"combine", "gradient"} \cup Ended THEN 1 ELSE 0)
      /\ Released(c, w)' = n + (IF at \in {"gradient"} THEN 1 ELSE 0)
      /\ Tiled(c, w)' = n + (IF at \in Loop \ {"arrives"} THEN 1 ELSE 0)
  BY <1>4, <1>5 DEF Acquired, Stored, Seen, Released, Tiled, Past
<1> QED BY <1>2, <1>3, <1>4, <1>6, <1>8, <1>9

(* The counts of a warp are in order and within the rounds.                *)
LEMMA InOrder ==
  ASSUME Types, PlacesOK, NEW c \in Ctas, NEW w \in Warps
  PROVE /\ Acquired(c, w) \in Nat /\ Stored(c, w) \in Nat /\ Seen(c, w) \in Nat /\ Released(c, w) \in Nat
        /\ Tiled(c, w) \in Nat /\ Issued(c, w) \in Nat /\ Round(c, w) \in Nat
        /\ Released(c, w) <= Seen(c, w) /\ Seen(c, w) <= Stored(c, w) /\ Stored(c, w) <= launch.rounds
        /\ launch.backward => Stored(c, w) <= Acquired(c, w) /\ Acquired(c, w) <= launch.rounds
        /\ Acquired(c, w) <= Round(c, w) + 1 /\ Round(c, w) <= Released(c, w)
        /\ Issued(c, w) <= launch.rounds
<1>1. /\ At(c, w) \in Places /\ Round(c, w) \in 0..launch.rounds /\ Round(c, w) \in Nat BY WarpIs
<1>2. launch.rounds \in Nat /\ Lead \in Nat /\ launch.backward \in BOOLEAN
      /\ (~launch.backward => launch.rounds > 0) BY Launched, SMTT(40) DEF Types
<1>3. PlaceOK(c, w) BY DEF PlacesOK
<1>4. /\ Acquired(c, w) \in Nat /\ Stored(c, w) \in Nat /\ Seen(c, w) \in Nat /\ Released(c, w) \in Nat
      /\ Tiled(c, w) \in Nat
  BY <1>1 DEF Acquired, Stored, Seen, Released, Tiled, Past
<1>5. Issued(c, w) \in Nat /\ Issued(c, w) <= launch.rounds BY <1>1, <1>2 DEF Issued, Past
<1>6. Released(c, w) <= Seen(c, w) BY <1>1 DEF Released, Seen, Past
<1>7. Seen(c, w) <= Stored(c, w) BY <1>1 DEF Stored, Seen, Past
<1>8. Stored(c, w) <= launch.rounds BY <1>1, <1>2, <1>3 DEF Stored, Past, PlaceOK, Loop, Ended
<1>9. Acquired(c, w) <= Round(c, w) + 1 /\ Round(c, w) <= Released(c, w)
  BY <1>1 DEF Acquired, Released, Past
<1>10. ASSUME launch.backward PROVE Stored(c, w) <= Acquired(c, w) /\ Acquired(c, w) <= launch.rounds
  BY <1>1, <1>2, <1>3, <1>10 DEF Acquired, Stored, Past, PlaceOK, Loop, Ended
<1> QED BY <1>1, <1>4, <1>5, <1>6, <1>7, <1>8, <1>9, <1>10

(* A warp that is where it may be, beside the others.                      *)
LEMMA PlacesMove ==
  ASSUME Types, PlacesOK, NEW c \in Ctas, NEW w \in Warps, NEW at, NEW n, NEW k, Moves(c, w, at, n, k),
         /\ at \in {"prefetch", "ahead", "arrives", "tile", "gradient", "fold", "held"} => launch.backward
         /\ at \in {"load", "output"} => ~launch.backward
         /\ at \in {"setup", "load", "join", "prefetch"} => n = 0
         /\ at \in Loop => n < launch.rounds
         /\ launch.backward /\ at \in After => n = launch.rounds
         /\ ~launch.backward /\ at \in {"output", "done"} => n = launch.rounds - 1
         /\ at = "wait" => Exchanges
         /\ at \notin After \/ ~launch.backward => k = 1
         /\ k <= Len(Fold) + 1
         /\ at = "held" => k <= Len(Fold) /\ Fold[k].op = "meet"
  PROVE PlacesOK'
<1>1. launch' = launch BY DEF Moves
<1>2. Ctas' = Ctas /\ Warps' = Warps /\ (Exchanges' <=> Exchanges) /\ Fold' = Fold BY <1>1, Same
<1>3. At(c, w)' = at /\ Round(c, w)' = n /\ (warp[c][w].k)' = k BY Counters
<1>4. PlaceOK(c, w)' BY <1>1, <1>2, <1>3 DEF PlaceOK, Op
<1>5. ASSUME NEW d \in Ctas, NEW u \in Warps, d # c \/ u # w PROVE PlaceOK(d, u)'
  <2>1. warp'[d][u] = warp[d][u] /\ At(d, u)' = At(d, u) /\ Round(d, u)' = Round(d, u)
    BY <1>5, Counters
  <2>2. PlaceOK(d, u) BY DEF PlacesOK
  <2> QED BY <1>1, <1>2, <2>1, <2>2 DEF PlaceOK, Op
<1> QED BY <1>2, <1>4, <1>5 DEF PlacesOK

(* Where each action takes its warp.                                       *)
LEMMA Moving ==
  ASSUME Types, PlacesOK, NEW c \in Ctas, NEW w \in Warps
  PROVE LET n == Round(c, w)
            k == warp[c][w].k IN
        /\ Setup(c, w) => Moves(c, w, IF launch.backward THEN "join" ELSE "load", n, k)
        /\ Load(c, w) => Moves(c, w, "join", n, k)
        /\ Join(c, w) => Moves(c, w, IF launch.backward THEN "prefetch" ELSE "publish", n, k)
        /\ Prefetch(c, w) => Moves(c, w, "ahead", n, k)
        /\ Ahead(c, w) => Moves(c, w, "arrives", n, k)
        /\ WaitTile(c, w) => Moves(c, w, "tile", n, k)
        /\ Acquire(c, w) => Moves(c, w, "publish", n, k)
        /\ PublishCluster(c, w) => Moves(c, w, "wait", n, k)
        /\ PublishBlock(c, w) => Moves(c, w, "wait", n, k)
        /\ Alone(c, w) => Moves(c, w, "combine", n, k)
        /\ WaitAll(c, w) => Moves(c, w, "combine", n, k)
        /\ CombineBackward(c, w) => Moves(c, w, "gradient", n, k)
        /\ CombineForward(c, w) => IF n + 1 < launch.rounds THEN Moves(c, w, "publish", n + 1, k)
                                                            ELSE Moves(c, w, "output", n, k)
        /\ Output(c, w) => Moves(c, w, "done", n, k)
        /\ Gradient(c, w) => Moves(c, w, "ahead", n + 1, k)
        /\ LeaveLoop(c, w) => Moves(c, w, "fold", n, k)
        /\ FoldArrive(c, w) => Moves(c, w, "held", n, k)
        /\ FoldLeave(c, w) => Moves(c, w, "fold", n, k + 1)
        /\ FoldWrite(c, w) => Moves(c, w, "fold", n, k + 1)
        /\ FoldRead(c, w) => Moves(c, w, "fold", n, k + 1)
        /\ Leave(c, w) => Moves(c, w, "done", n, k)
<1> DEFINE n == Round(c, w)
           k == warp[c][w].k
<1>1. ASSUME launch' = launch, NEW at \in Places, Goto(c, w, at) PROVE Moves(c, w, at, n, k)
  BY <1>1, GotoMoves
<1>2. warp[c][w] = [at |-> At(c, w), n |-> n, k |-> k] /\ n \in 0..launch.rounds /\ n \in Nat /\ k \in 1..10
  BY WarpIs, RecordIs
<1>3. warp[c] \in [Warps -> Place] /\ warp \in [Ctas -> [Warps -> Place]] BY DEF Types, Place
<1>4. PlaceOK(c, w) BY DEF PlacesOK
<1>5. launch.rounds \in Nat /\ Len(Fold) \in 0..9 /\ launch.backward \in BOOLEAN BY Launched, FoldIs DEF Types
<1>6. k \in 1..10 /\ k \in Nat /\ n \in Nat BY <1>2
<1>61. \A b : /\ [warp[c][w] EXCEPT !.at = b] = [at |-> b, n |-> n, k |-> k]
              /\ [warp[c][w] EXCEPT !.at = b, !.k = @ + 1] = [at |-> b, n |-> n, k |-> k + 1]
              /\ [warp[c][w] EXCEPT !.at = b, !.n = @ + 1] = [at |-> b, n |-> n + 1, k |-> k]
              /\ [warp[c][w] EXCEPT !.n = @ + 1, !.at = b] = [at |-> b, n |-> n + 1, k |-> k]
              /\ warp[c][w].n = n
  <2> TAKE b
  <2>1. PICK r : r = warp[c][w] OBVIOUS
  <2>2. r = [at |-> At(c, w), n |-> n, k |-> k] BY <1>2, <2>1
  <2> HIDE DEF n, k
  <2>3. /\ [r EXCEPT !.at = b] = [at |-> b, n |-> n, k |-> k]
        /\ [r EXCEPT !.at = b, !.k = @ + 1] = [at |-> b, n |-> n, k |-> k + 1]
        /\ [r EXCEPT !.at = b, !.n = @ + 1] = [at |-> b, n |-> n + 1, k |-> k]
        /\ [r EXCEPT !.n = @ + 1, !.at = b] = [at |-> b, n |-> n + 1, k |-> k]
        /\ r.n = n
    <3>0. n \in Nat /\ k \in Nat BY <1>6
    <3>1. PICK j : j = k + 1 OBVIOUS
    <3>2. PICK m : m = n + 1 OBVIOUS
    <3>3. r.k + 1 = j /\ r.n + 1 = m /\ r.n = n BY <2>2, <3>1, <3>2
    <3>4. [r EXCEPT !.at = b] = [at |-> b, n |-> n, k |-> k]
      <4>1. PICK s : s = [r EXCEPT !.at = b] OBVIOUS
      <4>2. DOMAIN s = {"at", "n", "k"} /\ s.at = b /\ s.n = n /\ s.k = k BY <2>2, <4>1
      <4> QED BY <4>1, <4>2
    <3>5. [r EXCEPT !.at = b, !.k = @ + 1] = [at |-> b, n |-> n, k |-> j]
      <4>1. PICK s : s = [r EXCEPT !.at = b, !.k = j] OBVIOUS
      <4>2. DOMAIN s = {"at", "n", "k"} /\ s.at = b /\ s.n = n /\ s.k = j BY <2>2, <4>1
      <4>3. s = [at |-> b, n |-> n, k |-> j] BY <4>1, <4>2
      <4>4. [r EXCEPT !.at = b, !.k = @ + 1] = [r EXCEPT !.at = b, !.k = j] BY <3>3
      <4> QED BY <4>1, <4>3, <4>4
    <3>6. [r EXCEPT !.at = b, !.n = @ + 1] = [at |-> b, n |-> m, k |-> k]
      <4>1. PICK s : s = [r EXCEPT !.at = b, !.n = m] OBVIOUS
      <4>2. DOMAIN s = {"at", "n", "k"} /\ s.at = b /\ s.n = m /\ s.k = k BY <2>2, <4>1
      <4>3. s = [at |-> b, n |-> m, k |-> k] BY <4>1, <4>2
      <4>4. [r EXCEPT !.at = b, !.n = @ + 1] = [r EXCEPT !.at = b, !.n = m] BY <3>3
      <4> QED BY <4>1, <4>3, <4>4
    <3>7. [r EXCEPT !.n = @ + 1, !.at = b] = [at |-> b, n |-> m, k |-> k]
      <4>1. PICK s : s = [r EXCEPT !.n = m, !.at = b] OBVIOUS
      <4>2. DOMAIN s = {"at", "n", "k"} /\ s.at = b /\ s.n = m /\ s.k = k BY <2>2, <4>1
      <4>3. s = [at |-> b, n |-> m, k |-> k] BY <4>1, <4>2
      <4>4. [r EXCEPT !.n = @ + 1, !.at = b] = [r EXCEPT !.n = m, !.at = b] BY <3>3
      <4> QED BY <4>1, <4>3, <4>4
    <3> QED BY <3>1, <3>2, <3>3, <3>4, <3>5, <3>6, <3>7
  <2> QED BY <2>1, <2>3
<1>7. ASSUME launch' = launch, NextOp(c, w), k <= Len(Fold) PROVE Moves(c, w, "fold", n, k + 1)
  <2>1. [warp[c][w] EXCEPT !.at = "fold", !.k = @ + 1] = [at |-> "fold", n |-> n, k |-> k + 1] BY <1>61
  <2>2. warp' = [warp EXCEPT ![c][w] = [warp[c][w] EXCEPT !.at = "fold", !.k = @ + 1]]
    BY <1>3, <1>7 DEF NextOp
  <2>3. "fold" \in Places BY DEF Places
  <2>4. k + 1 \in 1..10
    <3>1. k <= Len(Fold) /\ Len(Fold) \in 0..9 /\ k \in 1..10 BY <1>5, <1>6, <1>7
    <3>2. PICK l : l = Len(Fold) OBVIOUS
    <3>3. l \in 0..9 /\ k <= l BY <3>1, <3>2
    <3> HIDE DEF k
    <3> QED BY <3>1, <3>3
  <2>5. warp' = [warp EXCEPT ![c][w] = [at |-> "fold", n |-> n, k |-> k + 1]] BY <2>1, <2>2
  <2> QED BY <1>2, <1>7, <2>3, <2>4, <2>5, MovesIs
<1>8. ASSUME Gradient(c, w) PROVE Moves(c, w, "ahead", n + 1, k)
  <2>1. launch' = launch /\ At(c, w) = "gradient" BY <1>8 DEF Gradient
  <2>2. n + 1 \in 0..launch.rounds BY <1>2, <1>4, <1>5, <2>1 DEF PlaceOK, Loop
  <2>3. [warp[c][w] EXCEPT !.at = "ahead", !.n = @ + 1] = [at |-> "ahead", n |-> n + 1, k |-> k] BY <1>61
  <2>4. warp' = [warp EXCEPT ![c][w] = [warp[c][w] EXCEPT !.at = "ahead", !.n = @ + 1]]
    BY <1>3, <1>8 DEF Gradient
  <2>5. "ahead" \in Places BY DEF Places
  <2>6. warp' = [warp EXCEPT ![c][w] = [at |-> "ahead", n |-> n + 1, k |-> k]] BY <2>3, <2>4
  <2> QED BY <1>2, <2>1, <2>2, <2>5, <2>6, MovesIs
<1>9. ASSUME CombineForward(c, w)
      PROVE IF n + 1 < launch.rounds THEN Moves(c, w, "publish", n + 1, k) ELSE Moves(c, w, "output", n, k)
  <2>1. launch' = launch BY <1>9 DEF CombineForward
  <2>2. "publish" \in Places /\ "output" \in Places BY DEF Places
  <2>3. CASE n + 1 < launch.rounds
    <3>1. warp' = [warp EXCEPT ![c][w].at = "publish", ![c][w].n = @ + 1] BY <1>9, <2>3 DEF CombineForward
    <3>2. warp' = [warp EXCEPT ![c][w] = [warp[c][w] EXCEPT !.at = "publish", !.n = @ + 1]] BY <1>3, <3>1
    <3>3. warp' = [warp EXCEPT ![c][w] = [at |-> "publish", n |-> n + 1, k |-> k]] BY <1>61, <3>2
    <3>4. n + 1 \in 0..launch.rounds BY <1>2, <1>5, <2>3
    <3> QED BY <1>2, <2>1, <2>2, <2>3, <3>3, <3>4, MovesIs
  <2>4. CASE ~(n + 1 < launch.rounds)
    <3>1. Goto(c, w, "output") BY <1>9, <2>4 DEF CombineForward
    <3> QED BY <1>1, <2>1, <2>2, <2>4, <3>1
  <2> QED BY <2>3, <2>4
<1>10. /\ \A at \in {"join", "load", "prefetch", "publish", "ahead", "arrives", "tile", "wait", "combine",
                     "gradient", "done", "fold", "held", "output"} : at \in Places
  BY DEF Places
<1>11. ASSUME FoldLeave(c, w) \/ FoldWrite(c, w) \/ FoldRead(c, w) PROVE Moves(c, w, "fold", n, k + 1)
  <2>1. launch' = launch /\ NextOp(c, w) BY <1>11 DEF FoldLeave, FoldWrite, FoldRead
  <2>2. k <= Len(Fold) BY <1>11, <1>4 DEF FoldLeave, FoldWrite, FoldRead, Folding, PlaceOK
  <2> QED BY <1>7, <2>1, <2>2
<1> HIDE DEF n, k
<1>12. Setup(c, w) => Moves(c, w, IF launch.backward THEN "join" ELSE "load", n, k) BY <1>1, <1>10 DEF Setup
<1>13. Load(c, w) => Moves(c, w, "join", n, k) BY <1>1, <1>10 DEF Load
<1>14. Join(c, w) => Moves(c, w, IF launch.backward THEN "prefetch" ELSE "publish", n, k) BY <1>1, <1>10 DEF Join
<1>15. Prefetch(c, w) => Moves(c, w, "ahead", n, k) BY <1>1, <1>10 DEF Prefetch
<1>16. Ahead(c, w) => Moves(c, w, "arrives", n, k) BY <1>1, <1>10 DEF Ahead
<1>17. WaitTile(c, w) => Moves(c, w, "tile", n, k) BY <1>1, <1>10 DEF WaitTile
<1>18. Acquire(c, w) => Moves(c, w, "publish", n, k) BY <1>1, <1>10 DEF Acquire
<1>19. PublishCluster(c, w) => Moves(c, w, "wait", n, k) BY <1>1, <1>10 DEF PublishCluster
<1>20. PublishBlock(c, w) => Moves(c, w, "wait", n, k) BY <1>1, <1>10 DEF PublishBlock
<1>21. Alone(c, w) => Moves(c, w, "combine", n, k) BY <1>1, <1>10 DEF Alone
<1>22. WaitAll(c, w) => Moves(c, w, "combine", n, k) BY <1>1, <1>10 DEF WaitAll
<1>23. CombineBackward(c, w) => Moves(c, w, "gradient", n, k) BY <1>1, <1>10 DEF CombineBackward
<1>24. Output(c, w) => Moves(c, w, "done", n, k) BY <1>1, <1>10 DEF Output
<1>25. LeaveLoop(c, w) => Moves(c, w, "fold", n, k) BY <1>1, <1>10 DEF LeaveLoop
<1>26. FoldArrive(c, w) => Moves(c, w, "held", n, k) BY <1>1, <1>10 DEF FoldArrive
<1>27. Leave(c, w) => Moves(c, w, "done", n, k) BY <1>1, <1>10 DEF Leave
<1> QED
  BY <1>8, <1>9, <1>11, <1>12, <1>13, <1>14, <1>15, <1>16, <1>17, <1>18, <1>19, <1>20, <1>21, <1>22,
     <1>23, <1>24, <1>25, <1>26, <1>27 DEF n, k

(* Every warp step leaves its warp where it may be.                        *)
LEMMA PlacesStep ==
  ASSUME Types, PlacesOK, NEW c \in Ctas, NEW w \in Warps, WarpNext(c, w)
  PROVE PlacesOK'
<1> DEFINE n == Round(c, w)
           k == warp[c][w].k
<1>1. /\ PlaceOK(c, w) /\ n \in Nat /\ n \in 0..launch.rounds /\ k \in 1..10 /\ At(c, w) \in Places
  BY WarpIs DEF PlacesOK
<1>2. launch.rounds \in Nat /\ Len(Fold) \in 0..9 /\ launch.backward \in BOOLEAN
      /\ (~launch.backward => launch.rounds > 0)
  BY Launched, FoldIs DEF Types
<1>3. \A j \in 1..Len(Fold) : Fold[j] = [op |-> FoldOps[j], g |-> FoldGs[j]] BY FoldIs DEF Types
<1>4. ASSUME NEW at, Moves(c, w, at, n, k),
         /\ at \in {"prefetch", "ahead", "arrives", "tile", "gradient", "fold", "held"} => launch.backward
         /\ at \in {"load", "output"} => ~launch.backward
         /\ at \in {"setup", "load", "join", "prefetch"} => n = 0
         /\ at \in Loop => n < launch.rounds
         /\ launch.backward /\ at \in After => n = launch.rounds
         /\ ~launch.backward /\ at \in {"output", "done"} => n = launch.rounds - 1
         /\ at = "wait" => Exchanges
         /\ at \notin After \/ ~launch.backward => k = 1
         /\ at = "held" => k <= Len(Fold) /\ Fold[k].op = "meet"
      PROVE PlacesOK'
  BY <1>1, <1>4, PlacesMove DEF PlaceOK
<1>5. ASSUME Setup(c, w) PROVE PlacesOK'
  <2>1. At(c, w) = "setup" BY <1>5 DEF Setup
  <2>2. Moves(c, w, IF launch.backward THEN "join" ELSE "load", n, k) BY <1>5, Moving
  <2> QED BY <1>1, <1>2, <1>4, <2>1, <2>2 DEF PlaceOK, Loop, After
<1>6. ASSUME Load(c, w) PROVE PlacesOK'
  <2>1. At(c, w) = "load" BY <1>6 DEF Load
  <2>2. Moves(c, w, "join", n, k) BY <1>6, Moving
  <2> QED BY <1>1, <1>2, <1>4, <2>1, <2>2 DEF PlaceOK, Loop, After
<1>7. ASSUME Join(c, w) PROVE PlacesOK'
  <2>1. At(c, w) = "join" BY <1>7 DEF Join
  <2>2. Moves(c, w, IF launch.backward THEN "prefetch" ELSE "publish", n, k) BY <1>7, Moving
  <2> QED BY <1>1, <1>2, <1>4, <2>1, <2>2 DEF PlaceOK, Loop, After
<1>8. ASSUME Prefetch(c, w) PROVE PlacesOK'
  <2>1. At(c, w) = "prefetch" BY <1>8 DEF Prefetch
  <2>2. Moves(c, w, "ahead", n, k) BY <1>8, Moving
  <2> QED BY <1>1, <1>2, <1>4, <2>1, <2>2 DEF PlaceOK, Loop, After
<1>9. ASSUME Ahead(c, w) PROVE PlacesOK'
  <2>1. At(c, w) = "ahead" /\ n < launch.rounds BY <1>9 DEF Ahead
  <2>2. Moves(c, w, "arrives", n, k) BY <1>9, Moving
  <2> QED BY <1>1, <1>2, <1>4, <2>1, <2>2 DEF PlaceOK, Loop, After
<1>10. ASSUME WaitTile(c, w) PROVE PlacesOK'
  <2>1. At(c, w) = "arrives" BY <1>10 DEF WaitTile
  <2>2. Moves(c, w, "tile", n, k) BY <1>10, Moving
  <2> QED BY <1>1, <1>2, <1>4, <2>1, <2>2 DEF PlaceOK, Loop, After
<1>11. ASSUME Acquire(c, w) PROVE PlacesOK'
  <2>1. At(c, w) = "tile" BY <1>11 DEF Acquire
  <2>2. Moves(c, w, "publish", n, k) BY <1>11, Moving
  <2> QED BY <1>1, <1>2, <1>4, <2>1, <2>2 DEF PlaceOK, Loop, After
<1>12. ASSUME PublishCluster(c, w) \/ PublishBlock(c, w) PROVE PlacesOK'
  <2>1. At(c, w) = "publish" /\ Exchanges BY <1>12 DEF PublishCluster, PublishBlock, Exchanges
  <2>2. Moves(c, w, "wait", n, k) BY <1>12, Moving
  <2> QED BY <1>1, <1>2, <1>4, <2>1, <2>2 DEF PlaceOK, Loop, After
<1>13. ASSUME Alone(c, w) \/ WaitAll(c, w) PROVE PlacesOK'
  <2>1. At(c, w) \in {"publish", "wait"} BY <1>13 DEF Alone, WaitAll
  <2>2. Moves(c, w, "combine", n, k) BY <1>13, Moving
  <2> QED BY <1>1, <1>2, <1>4, <2>1, <2>2 DEF PlaceOK, Loop, After
<1>14. ASSUME CombineBackward(c, w) PROVE PlacesOK'
  <2>1. At(c, w) = "combine" /\ launch.backward BY <1>14 DEF CombineBackward
  <2>2. Moves(c, w, "gradient", n, k) BY <1>14, Moving
  <2> QED BY <1>1, <1>2, <1>4, <2>1, <2>2 DEF PlaceOK, Loop, After
<1>15. ASSUME CombineForward(c, w) PROVE PlacesOK'
  <2>1. At(c, w) = "combine" /\ ~launch.backward BY <1>15 DEF CombineForward
  <2>2. n < launch.rounds BY <1>1, <2>1 DEF PlaceOK, Loop
  <2>3. CASE n + 1 < launch.rounds
    <3>1. Moves(c, w, "publish", n + 1, k) BY <1>15, <2>3, Moving
    <3> QED BY <1>1, <1>2, <2>1, <2>3, <3>1, PlacesMove DEF PlaceOK, Loop, After
  <2>4. CASE ~(n + 1 < launch.rounds)
    <3>1. Moves(c, w, "output", n, k) BY <1>15, <2>4, Moving
    <3>2. n = launch.rounds - 1 BY <1>1, <1>2, <2>2, <2>4
    <3> QED BY <1>1, <1>2, <1>4, <2>1, <2>2, <3>1, <3>2 DEF PlaceOK, Loop, After
  <2> QED BY <2>3, <2>4
<1>16. ASSUME Output(c, w) PROVE PlacesOK'
  <2>1. At(c, w) = "output" BY <1>16 DEF Output
  <2>2. Moves(c, w, "done", n, k) BY <1>16, Moving
  <2> QED BY <1>1, <1>2, <1>4, <2>1, <2>2 DEF PlaceOK, Loop, After
<1>17. ASSUME Gradient(c, w) PROVE PlacesOK'
  <2>1. At(c, w) = "gradient" BY <1>17 DEF Gradient
  <2>2. Moves(c, w, "ahead", n + 1, k) BY <1>17, Moving
  <2> QED BY <1>1, <1>2, <2>1, <2>2, PlacesMove DEF PlaceOK, Loop, After
<1>18. ASSUME LeaveLoop(c, w) PROVE PlacesOK'
  <2>1. At(c, w) = "ahead" /\ n = launch.rounds BY <1>18 DEF LeaveLoop
  <2>2. Moves(c, w, "fold", n, k) BY <1>18, Moving
  <2> QED BY <1>1, <1>2, <1>4, <2>1, <2>2 DEF PlaceOK, Loop, After
<1>19. ASSUME FoldArrive(c, w) PROVE PlacesOK'
  <2>1. At(c, w) = "fold" /\ k <= Len(Fold) /\ Fold[k].op = "meet" BY <1>19 DEF FoldArrive, Folding, Op
  <2>2. Moves(c, w, "held", n, k) BY <1>19, Moving
  <2> QED BY <1>1, <1>2, <1>4, <2>1, <2>2 DEF PlaceOK, Loop, After
<1>20. ASSUME FoldLeave(c, w) \/ FoldWrite(c, w) \/ FoldRead(c, w) PROVE PlacesOK'
  <2>1. At(c, w) \in {"fold", "held"} BY <1>20 DEF FoldLeave, FoldWrite, FoldRead, Folding
  <2>2. k <= Len(Fold) BY <1>1, <1>20 DEF FoldLeave, FoldWrite, FoldRead, Folding, PlaceOK
  <2>3. Moves(c, w, "fold", n, k + 1) BY <1>20, Moving
  <2>4. n = launch.rounds /\ launch.backward BY <1>1, <2>1 DEF PlaceOK, After
  <2>5. k + 1 <= Len(Fold) + 1
    <3>1. PICK l : l = Len(Fold) OBVIOUS
    <3>2. l \in 0..9 /\ k <= l /\ k \in 1..10 BY <1>1, <1>2, <2>2, <3>1
    <3> HIDE DEF k
    <3> QED BY <3>1, <3>2
  <2> HIDE DEF n, k
  <2> QED BY <1>2, <2>3, <2>4, <2>5, PlacesMove DEF Loop, After
<1>21. ASSUME Leave(c, w) PROVE PlacesOK'
  <2>1. At(c, w) = "fold" BY <1>21 DEF Leave
  <2>2. Moves(c, w, "done", n, k) BY <1>21, Moving
  <2> QED BY <1>1, <1>2, <1>4, <2>1, <2>2 DEF PlaceOK, Loop, After
<1> QED
  BY <1>5, <1>6, <1>7, <1>8, <1>9, <1>10, <1>11, <1>12, <1>13, <1>14, <1>15, <1>16, <1>17, <1>18,
     <1>19, <1>20, <1>21 DEF WarpNext

(* A barrier just initialised.                                             *)
LEMMA FreshIs == ASSUME NEW count \in Nat PROVE Fresh(count) \in Bar(count)
BY DEF Fresh, Bar

(* The counts of the two barriers are positive.                            *)
LEMMA Counted ==
  ASSUME launch \in Launches
  PROVE Releases \in Nat \ {0} /\ Armed \in Nat \ {0} /\ Releases = launch.warps * launch.ctas
<1>1. launch.warps \in Nat \ {0} /\ launch.ctas \in Nat \ {0} /\ launch.values \in Nat \ {0} BY Launched
<1>2. PICK p : p = launch.warps * launch.ctas OBVIOUS
<1>3. p \in Nat \ {0} BY <1>1, <1>2, Z3
<1>4. p * launch.values \in Nat \ {0} BY <1>1, <1>3, Z3
<1> QED BY <1>2, <1>3, <1>4 DEF Releases, Armed

(* The steps of a warp that touch no barrier but at the start.             *)
LEMMA TypesStep ==
  ASSUME Types, PlacesOK, NEW c \in Ctas, NEW w \in Warps, WarpNext(c, w),
         ~PublishCluster(c, w), ~Gradient(c, w)
  PROVE Types'
<1>1. launch' = launch /\ warp' \in [Ctas -> [Warps -> Place]]
  <2>1. \E at, n, k : Moves(c, w, at, n, k) BY Moving DEF WarpNext
  <2> QED BY <2>1 DEF Moves
<1>2. /\ Ctas' = Ctas /\ Warps' = Warps /\ TileStages' = TileStages /\ Values' = Values /\ Message' = Message
      /\ Releases' = Releases
  BY <1>1, Same
<1>3. launch \in Launches /\ launch.rounds' = launch.rounds /\ launch.warps' = launch.warps
  BY <1>1 DEF Types
<1>4. 0 \in Warps /\ Releases \in Nat BY <1>3, Launched, Counted
<1> DEFINE Rest ==
       /\ slots' \in [Ctas -> [Stages -> [Values -> [Warps \X Ctas -> Int]]]]
       /\ full' \in [Ctas -> {<<>>} \cup [Stages -> Bar(1)]]
       /\ empty' \in [Ctas -> {<<>>} \cup [Stages -> Bar(Releases)]]
       /\ flying' \in SUBSET Message
       /\ met' \in [Ctas -> [Warps -> Nat]]
       /\ tile' \in [Ctas -> [TileStages -> [Warps -> Int]]]
       /\ fetched' \in [Ctas -> [TileStages -> Bar(1)]]
       /\ freed' \in [Ctas -> [TileStages -> Bar(launch.warps)]]
       /\ loading' \in SUBSET [cta : Ctas, part : SUBSET Warps, n : Nat]
       /\ scratch' \in [Ctas -> [Warps -> 0..2]]
<1>5. ASSUME Rest PROVE Types'
  BY <1>1, <1>2, <1>3, <1>5 DEF Types, Place, Bar
<1>6. ASSUME UNCHANGED <<slots, full, empty, flying, met, tile, fetched, freed, loading, scratch>> PROVE Rest
  BY <1>6 DEF Types
<1>7. ASSUME Load(c, w) \/ Join(c, w) \/ WaitTile(c, w) \/ Acquire(c, w) \/ Alone(c, w) \/ WaitAll(c, w)
             \/ CombineForward(c, w) \/ Output(c, w) \/ LeaveLoop(c, w) \/ FoldLeave(c, w)
             \/ FoldRead(c, w) \/ Leave(c, w)
      PROVE Rest
  BY <1>6, <1>7 DEF Load, Join, WaitTile, Acquire, Alone, WaitAll, CombineForward, Output, LeaveLoop,
     FoldLeave, FoldRead, Leave, exchange, ring
<1>8. ASSUME Setup(c, w) PROVE Rest
  <2>1. UNCHANGED <<slots, flying, met, tile, fetched, freed, loading, scratch>> BY <1>8 DEF Setup, ring
  <2>2. [s \in Stages |-> Fresh(1)] \in [Stages -> Bar(1)] BY FreshIs
  <2>3. [s \in Stages |-> Fresh(Releases)] \in [Stages -> Bar(Releases)] BY <1>4, FreshIs
  <2>4. full' \in [Ctas -> {<<>>} \cup [Stages -> Bar(1)]] BY <1>8, <2>2 DEF Setup, Types
  <2>5. empty' \in [Ctas -> {<<>>} \cup [Stages -> Bar(Releases)]] BY <1>8, <2>3 DEF Setup, Types
  <2> QED BY <2>1, <2>4, <2>5 DEF Types
<1>9. ASSUME NEW ns \in SUBSET Nat, Fetch(c, w, ns)
      PROVE /\ loading' \in SUBSET [cta : Ctas, part : SUBSET Warps, n : Nat]
            /\ tile' \in [Ctas -> [TileStages -> [Warps -> Int]]]
  <2>1. Part(w) \in SUBSET Warps BY DEF Part
  <2>2. {[cta |-> c, part |-> Part(w), n |-> n] : n \in ns}
          \in SUBSET [cta : Ctas, part : SUBSET Warps, n : Nat] BY <2>1
  <2>3. loading' \in SUBSET [cta : Ctas, part : SUBSET Warps, n : Nat] BY <1>9, <2>2 DEF Fetch, Types
  <2>4. tile \in [Ctas -> [TileStages -> [Warps -> Int]]] /\ tile[c] \in [TileStages -> [Warps -> Int]]
    BY DEF Types
  <2>5. [s \in DOMAIN tile[c] |-> [v \in Warps |->
           IF v \in Part(w) /\ \E n \in ns : TileStage(n) = s THEN Nobody ELSE tile[c][s][v]]]
          \in [TileStages -> [Warps -> Int]]
    BY <2>4 DEF Nobody
  <2>6. tile' = [tile EXCEPT ![c] = [s \in DOMAIN tile[c] |-> [v \in Warps |->
           IF v \in Part(w) /\ \E n \in ns : TileStage(n) = s THEN Nobody ELSE tile[c][s][v]]]]
    BY <1>9 DEF Fetch
  <2>7. tile' \in [Ctas -> [TileStages -> [Warps -> Int]]] BY <2>4, <2>5, <2>6
  <2> QED BY <2>3, <2>7
<1>10. ASSUME Prefetch(c, w) PROVE Rest
  <2>1. UNCHANGED <<slots, full, empty, flying, met, scratch>> BY <1>10 DEF Prefetch, exchange
  <2>2. fetched' = fetched /\ freed' = freed BY <1>10 DEF Prefetch, Fetch, ring
  <2>3. Lead \in Nat BY <1>3, Launched
  <2>4. {n \in 0..Lead - 1 : n < launch.rounds} \in SUBSET Nat BY <2>3
  <2>5. UNCHANGED <<loading, tile>> \/ \E ns \in SUBSET Nat : Fetch(c, w, ns)
    BY <1>10, <2>4 DEF Prefetch, ring
  <2> QED BY <1>9, <2>1, <2>2, <2>5 DEF Types
<1>11. ASSUME Ahead(c, w) PROVE Rest
  <2>1. UNCHANGED <<slots, full, empty, flying, met, scratch>> BY <1>11 DEF Ahead, exchange
  <2>2. fetched' = fetched /\ freed' = freed BY <1>11 DEF Ahead, Fetch, ring
  <2>3. Lead \in Nat /\ Round(c, w) \in Nat BY <1>3, Launched, WarpIs
  <2>4. {Round(c, w) + Lead} \in SUBSET Nat BY <2>3
  <2>5. UNCHANGED <<loading, tile>> \/ \E ns \in SUBSET Nat : Fetch(c, w, ns)
    BY <1>11, <2>4 DEF Ahead, ring
  <2> QED BY <1>9, <2>1, <2>2, <2>5 DEF Types
<1>12. ASSUME PublishBlock(c, w) PROVE Rest
  <2>1. UNCHANGED <<full, empty, flying, tile, fetched, freed, loading, scratch>> BY <1>12 DEF PublishBlock, ring
  <2>2. met' \in [Ctas -> [Warps -> Nat]]
    <3>1. met \in [Ctas -> [Warps -> Nat]] /\ met[c][w] + 1 \in Nat BY DEF Types
    <3>2. met' = [met EXCEPT ![c][w] = met[c][w] + 1] BY <1>12, <3>1 DEF PublishBlock
    <3> QED BY <3>1, <3>2, Except2
  <2>3. slots' \in [Ctas -> [Stages -> [Values -> [Warps \X Ctas -> Int]]]]
    <3>0. Round(c, w) \in Nat BY WarpIs
    <3>1. StageOf(Round(c, w)) \in Stages /\ Round(c, w) \in Int BY <3>0, Stage2
    <3>2. slots \in [Ctas -> [Stages -> [Values -> [Warps \X Ctas -> Int]]]] BY DEF Types
    <3>3. PICK s \in Stages : s = StageOf(Round(c, w)) BY <3>1
    <3>4. PICK v : v = [z \in 1..launch.values |-> [slots[c][s][z] EXCEPT ![<<w, c>>] = Round(c, w)]] OBVIOUS
    <3>5. v \in [Values -> [Warps \X Ctas -> Int]]
      <4>0. slots[c] \in [Stages -> [Values -> [Warps \X Ctas -> Int]]] BY <3>2
      <4>00. slots[c][s] \in [Values -> [Warps \X Ctas -> Int]] BY <4>0
      <4>1. \A x \in Values : slots[c][s][x] \in [Warps \X Ctas -> Int] BY <4>00
      <4>2. \A x \in Values : [slots[c][s][x] EXCEPT ![<<w, c>>] = Round(c, w)] \in [Warps \X Ctas -> Int]
        BY <3>1, <4>1
      <4> QED BY <3>4, <4>2 DEF Values
    <3>6. slots' = [slots EXCEPT ![c][s] = v] BY <1>12, <3>2, <3>3, <3>4 DEF PublishBlock
    <3>7. PICK U : U = [Values -> [Warps \X Ctas -> Int]] OBVIOUS
    <3>8. slots \in [Ctas -> [Stages -> U]] /\ v \in U BY <3>2, <3>5, <3>7
    <3>9. slots' \in [Ctas -> [Stages -> U]] BY <3>6, <3>8, Except2
    <3> QED BY <3>7, <3>9
  <2> QED BY <2>1, <2>2, <2>3 DEF Types
<1>13. ASSUME CombineBackward(c, w) PROVE Rest
  <2>1. UNCHANGED <<slots, full, empty, met, tile, fetched, freed, loading, scratch>> BY <1>13 DEF CombineBackward, ring
  <2>2. Arrivals(c, w) \in SUBSET Message
    <3>1. Round(c, w) \in Nat /\ launch.values \in Nat BY <1>3, WarpIs, Launched
    <3> QED BY <3>1 DEF Arrivals, Message
  <2> QED BY <1>13, <2>1, <2>2 DEF CombineBackward, Types
<1>14. ASSUME FoldArrive(c, w) PROVE Rest
  <2>1. UNCHANGED <<slots, full, empty, flying, tile, fetched, freed, loading, scratch>>
    BY <1>14 DEF FoldArrive, exchange, ring
  <2>2. met' \in [Ctas -> [Warps -> Nat]]
    <3>1. met \in [Ctas -> [Warps -> Nat]] /\ met[c][w] + 1 \in Nat BY DEF Types
    <3>2. met' = [met EXCEPT ![c][w] = met[c][w] + 1] BY <1>14, <3>1 DEF FoldArrive
    <3> QED BY <3>1, <3>2, Except2
  <2> QED BY <2>1, <2>2 DEF Types
<1>15. ASSUME FoldWrite(c, w) PROVE Rest
  <2>1. UNCHANGED <<slots, full, empty, flying, met, fetched, freed, loading>> BY <1>15 DEF FoldWrite, exchange
  <2>2. CASE Row(w) > 0
    <3>1. tile \in [Ctas -> [TileStages -> [Warps -> Int]]] /\ tile[c] \in [TileStages -> [Warps -> Int]]
      BY DEF Types
    <3>2. tile' \in [Ctas -> [TileStages -> [Warps -> Int]]] BY <1>15, <2>2, <3>1, SMTT(40) DEF FoldWrite, Nobody
    <3>3. Op(c, w).g \in 0..2
      <4>1. warp[c][w].k \in 1..Len(Fold) /\ Len(Fold) \in 0..9 BY <1>3, <1>15, WarpIs, FoldIs DEF FoldWrite, Folding
      <4>2. PICK k : k = warp[c][w].k OBVIOUS
      <4>3. k \in 1..Len(Fold) /\ Op(c, w) = Fold[k] BY <4>1, <4>2 DEF Op
      <4>4. k \in 1..9 /\ Op(c, w) = [op |-> FoldOps[k], g |-> FoldGs[k]] BY <1>3, <4>3, FoldIs
      <4>5. FoldGs[k] \in 0..2 BY <4>4 DEF FoldGs
      <4> QED BY <4>4, <4>5
    <3>4. scratch \in [Ctas -> [Warps -> 0..2]] BY DEF Types
    <3>5. scratch' = [scratch EXCEPT ![c][w] = Op(c, w).g] BY <1>15, <2>2 DEF FoldWrite
    <3>6. scratch' \in [Ctas -> [Warps -> 0..2]] BY <3>3, <3>4, <3>5, Except2
    <3> QED BY <2>1, <3>2, <3>6 DEF Types
  <2>3. CASE ~(Row(w) > 0)
    <3>1. UNCHANGED <<scratch, tile>> BY <1>15, <2>3 DEF FoldWrite
    <3> QED BY <1>6, <2>1, <3>1
  <2> QED BY <2>2, <2>3
<1> HIDE DEF Rest
<1> QED BY <1>5, <1>7, <1>8, <1>10, <1>11, <1>12, <1>13, <1>14, <1>15 DEF WarpNext

-----------------------------------------------------------------------------
(* The exchange.                                                           *)

(* What there is to count: a partial of every warp and value for a CTA, an *)
(* arrival of every warp.                                                  *)
LEMMA Sizes ==
  ASSUME launch \in Launches
  PROVE /\ IsFiniteSet(Partials) /\ Cardinality(Partials) = Armed
        /\ IsFiniteSet(Ctas \X Warps) /\ Cardinality(Ctas \X Warps) = Releases
<1>1. /\ launch.warps \in Nat \ {0} /\ launch.ctas \in Nat \ {0} /\ launch.values \in Nat \ {0}
      /\ Ctas = 0..launch.ctas - 1 /\ Warps = 0..launch.warps - 1
  BY Launched
<1>2. IsFiniteSet(Ctas) /\ Cardinality(Ctas) = launch.ctas
  <2>1. 0 \in Int /\ launch.ctas - 1 \in Int /\ 0 <= launch.ctas - 1 BY <1>1
  <2>2. IsFiniteSet(0..launch.ctas - 1) /\ Cardinality(0..launch.ctas - 1) = launch.ctas - 1 - 0 + 1
    BY <2>1, FS_Interval, SMTT(40)
  <2> QED BY <1>1, <2>2
<1>3. IsFiniteSet(Warps) /\ Cardinality(Warps) = launch.warps BY <1>1, FS_Interval
<1>4. IsFiniteSet(Values) /\ Cardinality(Values) = launch.values
  <2>1. 1 \in Int /\ launch.values \in Int /\ 1 <= launch.values BY <1>1
  <2>2. IsFiniteSet(1..launch.values) /\ Cardinality(1..launch.values) = launch.values - 1 + 1
    BY <2>1, FS_Interval
  <2> QED BY <1>1, <2>2 DEF Values
<1>5. IsFiniteSet(Ctas \X Warps) /\ Cardinality(Ctas \X Warps) = launch.ctas * launch.warps
  BY <1>2, <1>3, FS_Product
<1>6. launch.ctas * launch.warps = launch.warps * launch.ctas BY <1>1, Z3
<1>7. /\ IsFiniteSet((Ctas \X Warps) \X Values)
      /\ Cardinality((Ctas \X Warps) \X Values) = Cardinality(Ctas \X Warps) * Cardinality(Values)
  BY <1>4, <1>5, FS_Product
<1> QED BY <1>4, <1>5, <1>6, <1>7 DEF Partials, Armed, Releases

(* How many stores of a round have come says whether all have.             *)
LEMMA Parts ==
  ASSUME launch \in Launches, NEW S \in SUBSET Partials
  PROVE /\ IsFiniteSet(S) /\ Cardinality(S) \in 0..Armed /\ (Cardinality(S) = Armed <=> S = Partials)
        /\ \A x \in Partials \ S : Cardinality(S \cup {x}) = Cardinality(S) + 1
        /\ S = {} => Cardinality(S) = 0
<1>1. IsFiniteSet(Partials) /\ Cardinality(Partials) = Armed /\ Armed \in Nat BY Sizes, Counted
<1>2. IsFiniteSet(S) /\ Cardinality(S) <= Armed /\ (Cardinality(Partials) = Cardinality(S) => Partials = S)
  BY <1>1, FS_Subset
<1>3. Cardinality(S) \in Nat BY <1>2, FS_CardinalityType
<1>4. \A x \in Partials \ S : Cardinality(S \cup {x}) = Cardinality(S) + 1 BY <1>2, FS_AddElement
<1>5. S = {} => Cardinality(S) = 0 BY FS_EmptySet
<1>6. S = Partials => Cardinality(S) = Armed BY <1>1
<1> QED BY <1>1, <1>2, <1>3, <1>4, <1>5, <1>6

(* How many arrivals of a round have come says whether all have.           *)
LEMMA Arrivers ==
  ASSUME launch \in Launches, NEW S \in SUBSET (Ctas \X Warps)
  PROVE /\ IsFiniteSet(S) /\ Cardinality(S) \in 0..Releases /\ (Cardinality(S) = Releases <=> S = Ctas \X Warps)
        /\ \A x \in (Ctas \X Warps) \ S : Cardinality(S \cup {x}) = Cardinality(S) + 1
        /\ S = {} => Cardinality(S) = 0
<1>1. IsFiniteSet(Ctas \X Warps) /\ Cardinality(Ctas \X Warps) = Releases /\ Releases \in Nat BY Sizes, Counted
<1>2. IsFiniteSet(S) /\ Cardinality(S) <= Releases
      /\ (Cardinality(Ctas \X Warps) = Cardinality(S) => Ctas \X Warps = S)
  BY <1>1, FS_Subset
<1>3. Cardinality(S) \in Nat BY <1>2, FS_CardinalityType
<1>4. \A x \in (Ctas \X Warps) \ S : Cardinality(S \cup {x}) = Cardinality(S) + 1 BY <1>2, FS_AddElement
<1>5. S = {} => Cardinality(S) = 0 BY FS_EmptySet
<1>6. S = Ctas \X Warps => Cardinality(S) = Releases BY <1>1
<1> QED BY <1>1, <1>2, <1>3, <1>4, <1>5, <1>6

(* What has come, element by element.                                      *)
LEMMA GotIs ==
  ASSUME NEW c, NEW n
  PROVE /\ Got(c, n) \in SUBSET Partials
        /\ \A d \in Ctas, u \in Warps, v \in Values :
             <<<<d, u>>, v>> \in Got(c, n) <=> Stored(d, u) > n /\ StoreMsg(d, u, c, n, v) \notin flying
        /\ Full(c, n) <=> \A d \in Ctas, u \in Warps, v \in Values :
             Stored(d, u) > n /\ StoreMsg(d, u, c, n, v) \notin flying
<1>1. Got(c, n) \in SUBSET Partials BY DEF Got
<1>2. ASSUME NEW d \in Ctas, NEW u \in Warps, NEW v \in Values
      PROVE /\ <<<<d, u>>, v>> \in Partials
            /\ <<<<d, u>>, v>> \in Got(c, n) <=> Stored(d, u) > n /\ StoreMsg(d, u, c, n, v) \notin flying
  BY DEF Got, Partials
<1>3. \A x \in Partials : \E d \in Ctas, u \in Warps, v \in Values : x = <<<<d, u>>, v>> BY DEF Partials
<1>4. Full(c, n) <=> \A x \in Partials : x \in Got(c, n) BY <1>1 DEF Full
<1>5. (\A x \in Partials : x \in Got(c, n))
        <=> \A d \in Ctas, u \in Warps, v \in Values : <<<<d, u>>, v>> \in Got(c, n)
  BY <1>2, <1>3
<1> QED BY <1>1, <1>2, <1>4, <1>5

(* The arrivals of a round, by warp.                                       *)
LEMMA ArrivedIs ==
  ASSUME NEW c, NEW n
  PROVE /\ Arrived(c, n) \in SUBSET (Ctas \X Warps)
        /\ \A d \in Ctas, u \in Warps :
             <<d, u>> \in Arrived(c, n) <=> Released(d, u) > n /\ ArriveMsg(d, u, c, n) \notin flying
        /\ Emptied(c, n) <=> \A d \in Ctas, u \in Warps :
             Released(d, u) > n /\ ArriveMsg(d, u, c, n) \notin flying
<1>1. Arrived(c, n) \in SUBSET (Ctas \X Warps) BY DEF Arrived
<1>2. ASSUME NEW d \in Ctas, NEW u \in Warps
      PROVE /\ <<d, u>> \in Ctas \X Warps
            /\ <<d, u>> \in Arrived(c, n) <=> Released(d, u) > n /\ ArriveMsg(d, u, c, n) \notin flying
  BY DEF Arrived
<1>3. \A x \in Ctas \X Warps : \E d \in Ctas, u \in Warps : x = <<d, u>> OBVIOUS
<1>4. Emptied(c, n) <=> \A x \in Ctas \X Warps : x \in Arrived(c, n) BY <1>1 DEF Emptied
<1>5. (\A x \in Ctas \X Warps : x \in Arrived(c, n)) <=> \A d \in Ctas, u \in Warps : <<d, u>> \in Arrived(c, n)
  BY <1>2, <1>3
<1> QED BY <1>1, <1>2, <1>4, <1>5

(* The same after a step.                                                  *)
LEMMA GotAfter ==
  ASSUME launch' = launch, NEW c, NEW n
  PROVE /\ Got(c, n)' \in SUBSET Partials
        /\ \A d \in Ctas, u \in Warps, v \in Values :
             <<<<d, u>>, v>> \in Got(c, n)' <=> Stored(d, u)' > n /\ StoreMsg(d, u, c, n, v) \notin flying'
        /\ Full(c, n)' <=> Got(c, n)' = Partials
<1>0. Partials' = Partials BY Same
<1>1. Got(c, n)' \in SUBSET Partials BY <1>0 DEF Got
<1>2. ASSUME NEW d \in Ctas, NEW u \in Warps, NEW v \in Values
      PROVE /\ <<<<d, u>>, v>> \in Partials
            /\ <<<<d, u>>, v>> \in Got(c, n)' <=> Stored(d, u)' > n /\ StoreMsg(d, u, c, n, v) \notin flying'
  BY <1>0 DEF Got, Partials, StoreMsg
<1> QED BY <1>0, <1>1, <1>2 DEF Full

(* The arrivals of a round after a step, by warp.                          *)
LEMMA ArrivedAfter ==
  ASSUME launch' = launch, NEW c, NEW n
  PROVE /\ Arrived(c, n)' \in SUBSET (Ctas \X Warps)
        /\ \A d \in Ctas, u \in Warps :
             <<d, u>> \in Arrived(c, n)' <=> Released(d, u)' > n /\ ArriveMsg(d, u, c, n) \notin flying'
        /\ Emptied(c, n)' <=> Arrived(c, n)' = Ctas \X Warps
<1>0. Ctas' = Ctas /\ Warps' = Warps BY Same
<1>1. Arrived(c, n)' \in SUBSET (Ctas \X Warps) BY <1>0 DEF Arrived
<1>2. ASSUME NEW d \in Ctas, NEW u \in Warps
      PROVE /\ <<d, u>> \in Ctas \X Warps
            /\ <<d, u>> \in Arrived(c, n)' <=> Released(d, u)' > n /\ ArriveMsg(d, u, c, n) \notin flying'
  BY <1>0 DEF Arrived, ArriveMsg
<1> QED BY <1>0, <1>1, <1>2 DEF Emptied

(* Sets of partials and of warps are equal if they have the same elements. *)
LEMMA SamePartials ==
  ASSUME NEW S \in SUBSET Partials, NEW R \in SUBSET Partials,
         \A d \in Ctas, u \in Warps, v \in Values : <<<<d, u>>, v>> \in S <=> <<<<d, u>>, v>> \in R
  PROVE S = R
<1>1. \A x \in Partials : \E d \in Ctas, u \in Warps, v \in Values : x = <<<<d, u>>, v>> BY DEF Partials
<1> QED BY <1>1

(* Sets of the cluster's warps with the same warps are equal.              *)
LEMMA SameWarps ==
  ASSUME NEW S \in SUBSET (Ctas \X Warps), NEW R \in SUBSET (Ctas \X Warps),
         \A d \in Ctas, u \in Warps : <<d, u>> \in S <=> <<d, u>> \in R
  PROVE S = R
<1>1. \A x \in Ctas \X Warps : \E d \in Ctas, u \in Warps : x = <<d, u>> OBVIOUS
<1> QED BY <1>1

(* Nothing of a round is on its way to a CTA that has it all.              *)
LEMMA FullMeans ==
  ASSUME Types, NEW c \in Ctas, NEW n \in Nat, Full(c, n)
  PROVE /\ \A d \in Ctas, u \in Warps : Stored(d, u) > n
        /\ \A m \in flying : m.kind = "store" /\ m.v \in Values /\ m.to = c => m.n # n
<1>1. \A d \in Ctas, u \in Warps, v \in Values :
        Stored(d, u) > n /\ StoreMsg(d, u, c, n, v) \notin flying
  BY GotIs
<1>2. 1 \in Values BY Launched DEF Types, Values
<1>3. ASSUME NEW m \in flying, m.kind = "store", m.v \in Values, m.to = c PROVE m.n # n
  <2>1. m \in Message BY DEF Types
  <2>2. m = [kind |-> m.kind, from |-> m.from, warp |-> m.warp, to |-> m.to, n |-> m.n, v |-> m.v]
        /\ m.from \in Ctas /\ m.warp \in Warps
    BY <2>1 DEF Message
  <2>3. m.n = n => m = StoreMsg(m.from, m.warp, c, n, m.v) BY <1>3, <2>2 DEF StoreMsg
  <2> QED BY <1>1, <1>3, <2>2, <2>3
<1> QED BY <1>1, <1>2, <1>3

(* Of a round a CTA's stages are empty of, every warp has released it and  *)
(* no arrival is on its way.                                               *)
LEMMA EmptiedMeans ==
  ASSUME Types, NEW c \in Ctas, NEW n \in Nat, Emptied(c, n)
  PROVE /\ \A d \in Ctas, u \in Warps : Released(d, u) > n
        /\ \A m \in flying : m.kind = "arrive" /\ m.v = 0 /\ m.to = c => m.n # n
<1>1. \A d \in Ctas, u \in Warps : Released(d, u) > n /\ ArriveMsg(d, u, c, n) \notin flying
  BY ArrivedIs
<1>3. ASSUME NEW m \in flying, m.kind = "arrive", m.v = 0, m.to = c PROVE m.n # n
  <2>1. m \in Message BY DEF Types
  <2>2. m = [kind |-> m.kind, from |-> m.from, warp |-> m.warp, to |-> m.to, n |-> m.n, v |-> m.v]
        /\ m.from \in Ctas /\ m.warp \in Warps
    BY <2>1 DEF Message
  <2>3. m.n = n => m = ArriveMsg(m.from, m.warp, c, n) BY <1>3, <2>2 DEF ArriveMsg
  <2> QED BY <1>1, <1>3, <2>2, <2>3
<1> QED BY <1>1, <1>3

(* A warp that has stored the next round but one knows that every CTA has  *)
(* this one; one that has released it, that every CTA has all arrivals.    *)
LEMMA StoredNext ==
  ASSUME Types, PlacesOK, Exchange, Clustered, NEW d \in Ctas, NEW u \in Warps, NEW n \in Nat,
         Stored(d, u) > n + 2, NEW c \in Ctas
  PROVE launch.backward /\ Full(c, n)
<1>1. Stored(d, u) \in Nat /\ Stored(d, u) <= launch.rounds
      /\ (launch.backward => Stored(d, u) <= Acquired(d, u) /\ Acquired(d, u) \in Nat)
  BY InOrder
<1>2. launch.backward
  <2>1. launch.rounds \in Nat /\ (~launch.backward => launch.rounds \in {1, 2}) BY Launched DEF Types
  <2> QED BY <1>1, <2>1
<1>3. Acquired(d, u) > n + 2 BY <1>1, <1>2
<1>4. Emptied(d, n) BY <1>2, <1>3 DEF Exchange, AcquiredFree
<1>5. 0 \in Warps BY Launched DEF Types
<1>6. Released(c, 0) > n BY <1>4, <1>5, EmptiedMeans
<1>7. Released(c, 0) <= Seen(c, 0) /\ Seen(c, 0) \in Nat /\ Released(c, 0) \in Nat BY <1>5, InOrder
<1>8. Seen(c, 0) > n BY <1>6, <1>7
<1> QED BY <1>2, <1>5, <1>8 DEF Exchange, SeenFull

(* A round two before one that some warp has released is empty             *)
(* everywhere.                                                             *)
LEMMA ReleasedNext ==
  ASSUME Types, PlacesOK, Exchange, Clustered, launch.backward, NEW c \in Ctas, NEW w \in Warps,
         NEW n \in Nat, Released(c, w) > n + 2, NEW d \in Ctas
  PROVE Emptied(d, n)
<1>1. Released(c, w) <= Seen(c, w) /\ Seen(c, w) \in Nat /\ Released(c, w) \in Nat BY InOrder
<1>2. n + 2 \in Nat /\ Seen(c, w) > n + 2 BY <1>1
<1>3. Full(c, n + 2) BY <1>2 DEF Exchange, SeenFull
<1>4. 0 \in Warps BY Launched DEF Types
<1>5. Stored(d, 0) > n + 2 BY <1>2, <1>3, <1>4, FullMeans
<1>6. Stored(d, 0) <= Acquired(d, 0) /\ Stored(d, 0) \in Nat /\ Acquired(d, 0) \in Nat BY <1>4, InOrder
<1>7. Acquired(d, 0) > n + 2 BY <1>5, <1>6
<1> QED BY <1>4, <1>7 DEF Exchange, AcquiredFree

-----------------------------------------------------------------------------
(* Steps that disturb neither what has come nor the barriers.              *)
LEMMA FullStays ==
  ASSUME Types, FullCounts, launch' = launch, full' = full,
         \A c \in Ctas : Stored(c, 0)' = Stored(c, 0),
         \A c \in Ctas, n \in Nat : Got(c, n)' = Got(c, n)
  PROVE FullCounts' /\ \A c \in Ctas, n \in Nat : Full(c, n)' <=> Full(c, n)
<1>1. Ctas' = Ctas /\ (Clustered' <=> Clustered) /\ Partials' = Partials /\ Armed' = Armed BY Same
<1>2. \A c \in Ctas, n \in Nat : Full(c, n)' <=> Full(c, n) BY <1>1 DEF Full
<1>3. ASSUME Clustered, NEW c \in Ctas, NEW n \in Nat, full[c] # <<>>, n < 2 \/ Full(c, n - 2)', ~Full(c, n)'
      PROVE full[c][StageOf(n)] =
              [parity |-> PhaseOf(n), pending |-> IF Stored(c, 0)' > n THEN 0 ELSE 1,
               tx |-> (IF Stored(c, 0)' > n THEN Armed ELSE 0) - Cardinality(Got(c, n)')]
  <2>1. n < 2 \/ Full(c, n - 2) BY <1>2, <1>3
  <2>2. ~Full(c, n) BY <1>2, <1>3
  <2>3. Stored(c, 0)' = Stored(c, 0) /\ Got(c, n)' = Got(c, n) OBVIOUS
  <2>4. full[c][StageOf(n)] =
          [parity |-> PhaseOf(n), pending |-> IF Stored(c, 0) > n THEN 0 ELSE 1,
           tx |-> (IF Stored(c, 0) > n THEN Armed ELSE 0) - Cardinality(Got(c, n))]
    BY <1>3, <2>1, <2>2 DEF FullCounts
  <2> QED BY <2>3, <2>4
<1> QED BY <1>1, <1>2, <1>3 DEF FullCounts, StageOf, PhaseOf

(* The empty barriers' counts stay when no arrival comes.                  *)
LEMMA EmptyStays ==
  ASSUME Types, EmptyCounts, launch' = launch, launch.backward => empty' = empty,
         launch.backward => \A c \in Ctas, n \in Nat : Arrived(c, n)' = Arrived(c, n)
  PROVE EmptyCounts' /\ (launch.backward => \A c \in Ctas, n \in Nat : Emptied(c, n)' <=> Emptied(c, n))
<1>1. Ctas' = Ctas /\ Warps' = Warps /\ (Clustered' <=> Clustered) /\ Releases' = Releases BY Same
<1>2. CASE launch.backward
  <2>2. \A c \in Ctas, n \in Nat : Emptied(c, n)' <=> Emptied(c, n) BY <1>1, <1>2 DEF Emptied
  <2>3. ASSUME Clustered, NEW c \in Ctas, NEW n \in Nat, empty[c] # <<>>, n < 2 \/ Emptied(c, n - 2)', ~Emptied(c, n)'
        PROVE empty[c][StageOf(n)] =
                [parity |-> PhaseOf(n), pending |-> Releases - Cardinality(Arrived(c, n)'), tx |-> 0]
    <3>1. n < 2 \/ Emptied(c, n - 2) BY <2>2, <2>3
    <3>2. ~Emptied(c, n) BY <2>2, <2>3
    <3>3. Arrived(c, n)' = Arrived(c, n) BY <1>2
    <3>4. empty[c][StageOf(n)] =
            [parity |-> PhaseOf(n), pending |-> Releases - Cardinality(Arrived(c, n)), tx |-> 0]
      BY <1>2, <2>3, <3>1, <3>2 DEF EmptyCounts
    <3> QED BY <3>3, <3>4
  <2> QED BY <1>1, <1>2, <2>2, <2>3 DEF EmptyCounts, StageOf, PhaseOf
<1>3. CASE ~launch.backward BY <1>3 DEF EmptyCounts
<1> QED BY <1>2, <1>3

(* The slots stay when nothing is stored in them.                          *)
LEMMA SlotsStay ==
  ASSUME Types, Slots, launch' = launch, slots' = slots,
         \A c \in Ctas, n \in Nat : Got(c, n)' = Got(c, n)
  PROVE Slots'
<1>1. Ctas' = Ctas /\ Warps' = Warps /\ Values' = Values /\ (Exchanges' <=> Exchanges) BY Same
<1>2. ASSUME Exchanges, NEW c \in Ctas, NEW d \in Ctas, NEW u \in Warps, NEW v \in Values, NEW n \in Nat,
             <<<<d, u>>, v>> \in Got(c, n)', <<<<d, u>>, v>> \notin Got(c, n + 2)'
      PROVE slots[c][StageOf(n)][v][<<u, d>>] = n
  <2>1. n + 2 \in Nat OBVIOUS
  <2>2. <<<<d, u>>, v>> \in Got(c, n) /\ <<<<d, u>>, v>> \notin Got(c, n + 2) BY <1>2, <2>1
  <2> QED BY <1>2, <2>2 DEF Slots
<1> QED BY <1>1, <1>2 DEF Slots, StageOf

(* What is on its way stays accounted for while the warps go forward.      *)
LEMMA FlyingStays ==
  ASSUME Types, PlacesOK, Flying, launch' = launch,
         \A c \in Ctas, w \in Warps : Stored(c, w)' \in Nat /\ Stored(c, w) <= Stored(c, w)',
         launch.backward =>
           \A c \in Ctas, w \in Warps : Released(c, w)' \in Nat /\ Released(c, w) <= Released(c, w)'
  PROVE \A m \in flying :
          /\ Clustered'
          /\ m.kind = "store" => Stored(m.from, m.warp)' > m.n /\ m.v \in Values'
          /\ m.kind = "arrive" => launch'.backward /\ Released(m.from, m.warp)' > m.n /\ m.v = 0
<1>1. (Clustered' <=> Clustered) /\ Values' = Values BY Same
<1>2. ASSUME NEW m \in flying
      PROVE /\ Clustered
            /\ m.kind = "store" => Stored(m.from, m.warp)' > m.n /\ m.v \in Values
            /\ m.kind = "arrive" => launch.backward /\ Released(m.from, m.warp)' > m.n /\ m.v = 0
  <2>1. m \in Message BY DEF Types
  <2>2. m.from \in Ctas /\ m.warp \in Warps /\ m.n \in Nat BY <2>1 DEF Message
  <2>3. Stored(m.from, m.warp) \in Nat /\ Released(m.from, m.warp) \in Nat BY <2>2, InOrder
  <2>4. /\ Clustered
        /\ m.kind = "store" => Stored(m.from, m.warp) > m.n /\ m.v \in Values
        /\ m.kind = "arrive" => launch.backward /\ Released(m.from, m.warp) > m.n /\ m.v = 0
    BY DEF Flying
  <2>5. m.kind = "store" => Stored(m.from, m.warp)' > m.n BY <2>2, <2>3, <2>4
  <2>6. m.kind = "arrive" => Released(m.from, m.warp)' > m.n BY <2>2, <2>3, <2>4
  <2> QED BY <2>4, <2>5, <2>6
<1> QED BY <1>1, <1>2

(* What a step of one warp must show of how far it has come.               *)
LEMMA GoesOn ==
  ASSUME Types, PlacesOK, SeenFull, AcquiredFree, DoneFree, NEW c \in Ctas, NEW w \in Warps,
         NEW at, NEW n, NEW k, Moves(c, w, at, n, k),
         Clustered => \A d \in Ctas, m \in Nat : Full(d, m) => Full(d, m)',
         Clustered /\ launch.backward => \A d \in Ctas, m \in Nat : Emptied(d, m) => Emptied(d, m)',
         Clustered => \A m \in Nat : Seen(c, w)' > m => Full(c, m),
         Clustered /\ launch.backward => \A m \in Nat : Acquired(c, w)' > m + 2 => Emptied(c, m),
         Clustered /\ launch.backward => \A m \in Nat : at = "done" /\ m < launch.rounds => Emptied(c, m)
  PROVE SeenFull' /\ AcquiredFree' /\ DoneFree'
<1>1. launch' = launch BY DEF Moves
<1>2. Ctas' = Ctas /\ Warps' = Warps /\ (Clustered' <=> Clustered) BY <1>1, Same
<1>3. At(c, w)' = at BY Counters
<1>4. \A d \in Ctas, u \in Warps : d # c \/ u # w =>
        Seen(d, u)' = Seen(d, u) /\ Acquired(d, u)' = Acquired(d, u) /\ At(d, u)' = At(d, u)
  BY Counters
<1>5. SeenFull'
  <2>1. ASSUME Clustered, NEW d \in Ctas, NEW u \in Warps, NEW m \in Nat, Seen(d, u)' > m PROVE Full(d, m)'
    <3>1. Full(d, m)
      <4>1. CASE d = c /\ u = w BY <2>1, <4>1
      <4>2. CASE ~(d = c /\ u = w) BY <1>4, <2>1, <4>2 DEF SeenFull
      <4> QED BY <4>1, <4>2
    <3> QED BY <2>1, <3>1
  <2> QED BY <1>2, <2>1 DEF SeenFull
<1>6. AcquiredFree'
  <2>1. ASSUME Clustered, launch.backward, NEW d \in Ctas, NEW u \in Warps, NEW m \in Nat, Acquired(d, u)' > m + 2
        PROVE Emptied(d, m)'
    <3>1. Emptied(d, m)
      <4>1. CASE d = c /\ u = w BY <2>1, <4>1
      <4>2. CASE ~(d = c /\ u = w) BY <1>4, <2>1, <4>2 DEF AcquiredFree
      <4> QED BY <4>1, <4>2
    <3> QED BY <2>1, <3>1
  <2> QED BY <1>1, <1>2, <2>1 DEF AcquiredFree
<1>7. DoneFree'
  <2>1. ASSUME Clustered, launch.backward, NEW d \in Ctas, NEW u \in Warps, NEW m \in Nat,
               At(d, u)' = "done", m < launch.rounds
        PROVE Emptied(d, m)'
    <3>1. Emptied(d, m)
      <4>1. CASE d = c /\ u = w BY <1>3, <2>1, <4>1
      <4>2. CASE ~(d = c /\ u = w) BY <1>4, <2>1, <4>2 DEF DoneFree
      <4> QED BY <4>1, <4>2
    <3> QED BY <2>1, <3>1
  <2> QED BY <1>1, <1>2, <2>1 DEF DoneFree
<1> QED BY <1>5, <1>6, <1>7

(* A step of a warp that stores and releases nothing: what it must show.   *)
LEMMA QuietExchange ==
  ASSUME Types, PlacesOK, Exchange, NEW c \in Ctas, NEW w \in Warps,
         NEW at, NEW n, NEW k, Moves(c, w, at, n, k), UNCHANGED exchange,
         Ready', Stored(c, w)' = Stored(c, w), launch.backward => Released(c, w)' = Released(c, w),
         Clustered => \A m \in Nat : Seen(c, w)' > m => Full(c, m),
         Clustered /\ launch.backward => \A m \in Nat : Acquired(c, w)' > m + 2 => Emptied(c, m),
         Clustered /\ launch.backward => \A m \in Nat : at = "done" /\ m < launch.rounds => Emptied(c, m)
  PROVE Exchange'
<1>1. launch' = launch BY DEF Moves
<1>2. UNCHANGED <<slots, full, empty, flying>> BY DEF exchange
<1>3. \A d \in Ctas, u \in Warps : Stored(d, u)' = Stored(d, u) BY Counters
<1>4. launch.backward => \A d \in Ctas, u \in Warps : Released(d, u)' = Released(d, u) BY Counters
<1>5. ASSUME NEW d \in Ctas, NEW m \in Nat PROVE Got(d, m)' = Got(d, m)
  <2>1. Got(d, m) \in SUBSET Partials /\ Got(d, m)' \in SUBSET Partials BY <1>1, GotIs, GotAfter
  <2>2. ASSUME NEW e \in Ctas, NEW u \in Warps, NEW v \in Values
        PROVE <<<<e, u>>, v>> \in Got(d, m)' <=> <<<<e, u>>, v>> \in Got(d, m)
    <3>1. <<<<e, u>>, v>> \in Got(d, m) <=> Stored(e, u) > m /\ StoreMsg(e, u, d, m, v) \notin flying BY GotIs
    <3>2. <<<<e, u>>, v>> \in Got(d, m)' <=> Stored(e, u)' > m /\ StoreMsg(e, u, d, m, v) \notin flying'
      BY <1>1, GotAfter
    <3> QED BY <1>2, <1>3, <3>1, <3>2
  <2> QED BY <2>1, <2>2, SamePartials
<1>6. ASSUME launch.backward, NEW d \in Ctas, NEW m \in Nat PROVE Arrived(d, m)' = Arrived(d, m)
  <2>1. Arrived(d, m) \in SUBSET (Ctas \X Warps) /\ Arrived(d, m)' \in SUBSET (Ctas \X Warps)
    BY <1>1, ArrivedIs, ArrivedAfter
  <2>2. ASSUME NEW e \in Ctas, NEW u \in Warps PROVE <<e, u>> \in Arrived(d, m)' <=> <<e, u>> \in Arrived(d, m)
    <3>1. <<e, u>> \in Arrived(d, m) <=> Released(e, u) > m /\ ArriveMsg(e, u, d, m) \notin flying BY ArrivedIs
    <3>2. <<e, u>> \in Arrived(d, m)' <=> Released(e, u)' > m /\ ArriveMsg(e, u, d, m) \notin flying'
      BY <1>1, ArrivedAfter
    <3> QED BY <1>2, <1>4, <1>6, <3>1, <3>2
  <2> QED BY <2>1, <2>2, SameWarps
<1>7. 0 \in Warps BY Launched DEF Types
<1>8. FullCounts' /\ \A d \in Ctas, m \in Nat : Full(d, m)' <=> Full(d, m)
  <2>1. \A d \in Ctas : Stored(d, 0)' = Stored(d, 0) BY <1>3, <1>7
  <2> QED BY <1>1, <1>2, <1>5, <2>1, FullStays DEF Exchange
<1>9. EmptyCounts' /\ (launch.backward => \A d \in Ctas, m \in Nat : Emptied(d, m)' <=> Emptied(d, m))
  BY <1>1, <1>2, <1>6, EmptyStays DEF Exchange
<1>10. Slots' BY <1>1, <1>2, <1>5, SlotsStay DEF Exchange
<1>11. Flying'
  <2>1. \A d \in Ctas, u \in Warps : Stored(d, u) \in Nat /\ Released(d, u) \in Nat BY InOrder
  <2>2. \A d \in Ctas, u \in Warps : Stored(d, u)' \in Nat /\ Stored(d, u) <= Stored(d, u)' BY <1>3, <2>1
  <2>3. launch.backward => \A d \in Ctas, u \in Warps : Released(d, u)' \in Nat /\ Released(d, u) <= Released(d, u)'
    BY <1>4, <2>1
  <2> QED BY <1>1, <1>2, <2>2, <2>3, FlyingStays DEF Exchange, Flying
<1>12. SeenFull' /\ AcquiredFree' /\ DoneFree' BY <1>8, <1>9, GoesOn DEF Exchange
<1> QED BY <1>8, <1>9, <1>10, <1>11, <1>12 DEF Exchange

-----------------------------------------------------------------------------
(* What a parity says.                                                     *)
LEMMA FullIsSeen ==
  ASSUME Types, FullCounts, Clustered, NEW c \in Ctas, NEW n \in Nat, full[c] # <<>>,
         n < 2 \/ Full(c, n - 2), IsFull(c, n)
  PROVE Full(c, n)
<1> SUFFICES ASSUME ~Full(c, n) PROVE FALSE OBVIOUS
<1>1. full[c][StageOf(n)] =
        [parity |-> PhaseOf(n), pending |-> IF Stored(c, 0) > n THEN 0 ELSE 1,
         tx |-> (IF Stored(c, 0) > n THEN Armed ELSE 0) - Cardinality(Got(c, n))]
  BY DEF FullCounts
<1>2. full[c][StageOf(n)].parity = PhaseOf(n) BY <1>1
<1> QED BY <1>2 DEF IsFull

(* A stage whose empty barrier shows it free for a round is empty of the   *)
(* one two before.                                                         *)
LEMMA FreeIsSeen ==
  ASSUME Types, EmptyCounts, Clustered, launch.backward, NEW c \in Ctas, NEW n \in Nat, empty[c] # <<>>,
         n < 2 \/ Emptied(c, n - 2), IsFree(c, n + 2)
  PROVE Emptied(c, n)
<1> SUFFICES ASSUME ~Emptied(c, n) PROVE FALSE OBVIOUS
<1>0. empty[c][StageOf(n)] =
        [parity |-> PhaseOf(n), pending |-> Releases - Cardinality(Arrived(c, n)), tx |-> 0]
  BY DEF EmptyCounts
<1>1. empty[c][StageOf(n)].parity = PhaseOf(n) BY <1>0
<1>2. StageOf(n + 2) = StageOf(n) /\ PhaseOf(n + 2) = 1 - PhaseOf(n) /\ PhaseOf(n) \in {0, 1} BY Stage2
<1> QED BY <1>1, <1>2 DEF IsFree

(* A warp past the cluster's barrier finds all barriers initialised.       *)
LEMMA SetUp ==
  ASSUME Types, Ready, Clustered, NEW c \in Ctas, NEW w \in Warps, At(c, w) \notin {"setup", "load", "join"},
         NEW d \in Ctas
  PROVE full[d] # <<>> /\ empty[d] # <<>> /\ \A u \in Warps : At(d, u) # "setup"
<1>1. 0 \in Warps BY Launched DEF Types
<1>2. \A u \in Warps : At(d, u) # "setup" BY DEF Ready
<1> QED BY <1>1, <1>2 DEF Ready

(* Shared memory stays set up when a warp moves without crossing the       *)
(* cluster's barrier alone.                                                *)
LEMMA ReadyStays ==
  ASSUME Types, Ready, NEW c \in Ctas, NEW w \in Warps, NEW at, NEW n, NEW k, Moves(c, w, at, n, k),
         full' = full, empty' = empty, At(c, w) # "setup", at # "setup",
         \/ at \in {"load", "join"}
         \/ At(c, w) \notin {"load", "join"}
         \/ AllArrived
  PROVE Ready'
<1>1. launch' = launch BY DEF Moves
<1>2. Ctas' = Ctas /\ Warps' = Warps /\ (Clustered' <=> Clustered) BY <1>1, Same
<1>3. At(c, w)' = at BY Counters
<1>4. \A d \in Ctas, u \in Warps : d # c \/ u # w => At(d, u)' = At(d, u) BY Counters
<1>5. 0 \in Warps BY Launched DEF Types
<1>6. \A d \in Ctas, u \in Warps : At(d, u)' = "setup" <=> At(d, u) = "setup" BY <1>3, <1>4
<1>7. \A d \in Ctas : (full'[d] = <<>> <=> At(d, 0)' = "setup") /\ (empty'[d] = <<>> <=> At(d, 0)' = "setup")
  BY <1>5, <1>6 DEF Ready
<1>8. ASSUME Clustered, NEW d \in Ctas, NEW e \in Ctas, NEW u \in Warps, NEW v \in Warps,
             At(d, u)' \notin {"setup", "load", "join"}
      PROVE At(e, v)' # "setup"
  <2>1. At(e, v) # "setup"
    <3>1. CASE d = c /\ u = w
      <4>1. at \notin {"load", "join"} BY <1>3, <1>8, <3>1
      <4>2. CASE AllArrived BY <1>8, <4>2 DEF AllArrived
      <4>3. CASE At(c, w) \notin {"load", "join"} BY <1>8, <4>3 DEF Ready
      <4> QED BY <4>1, <4>2, <4>3
    <3>2. CASE ~(d = c /\ u = w) BY <1>4, <1>8, <3>2 DEF Ready
    <3> QED BY <3>1, <3>2
  <2> QED BY <1>6, <2>1
<1> QED BY <1>2, <1>7, <1>8 DEF Ready

(* The steps that store and release nothing.                               *)
LEMMA ExchangeQuiet ==
  ASSUME Types, PlacesOK, Exchange, NEW c \in Ctas, NEW w \in Warps,
         \/ Load(c, w) \/ Join(c, w) \/ Prefetch(c, w) \/ Ahead(c, w) \/ WaitTile(c, w) \/ Acquire(c, w)
         \/ WaitAll(c, w) \/ CombineForward(c, w) \/ Output(c, w) \/ Gradient(c, w) \/ LeaveLoop(c, w)
         \/ FoldArrive(c, w) \/ FoldLeave(c, w) \/ FoldWrite(c, w) \/ FoldRead(c, w) \/ Leave(c, w)
  PROVE Exchange'
<1> DEFINE n == Round(c, w)
           k == warp[c][w].k
<1>1. n \in Nat /\ n \in 0..launch.rounds /\ At(c, w) \in Places BY WarpIs
<1>2. launch.rounds \in Nat /\ launch.backward \in BOOLEAN /\ 0 \in Warps BY Launched DEF Types
<1>3. PlaceOK(c, w) BY DEF PlacesOK
<1>4. Ready /\ SeenFull /\ AcquiredFree /\ DoneFree /\ FullCounts /\ EmptyCounts BY DEF Exchange
<1>5. Clustered => \A m \in Nat : Seen(c, w) > m => Full(c, m) BY <1>4 DEF SeenFull
<1>6. Clustered /\ launch.backward => \A m \in Nat : Acquired(c, w) > m + 2 => Emptied(c, m)
  BY <1>4 DEF AcquiredFree
<1>7. /\ Acquired(c, w) = n + (IF At(c, w) \in {"publish", "wait", "combine", "gradient"} THEN 1 ELSE 0)
      /\ Stored(c, w) = n + (IF At(c, w) \in {"wait", "combine", "gradient"} \cup Ended THEN 1 ELSE 0)
      /\ Seen(c, w) = n + (IF At(c, w) \in {"combine", "gradient"} \cup Ended THEN 1 ELSE 0)
      /\ Released(c, w) = n + (IF At(c, w) \in {"gradient"} THEN 1 ELSE 0)
  BY DEF Acquired, Stored, Seen, Released, Past
<1>8. Ended = IF launch.backward THEN {} ELSE {"output", "done"} BY DEF Ended
<1>9. ASSUME NEW at, NEW m, NEW j, Moves(c, w, at, m, j), UNCHANGED exchange, At(c, w) # "setup", at # "setup",
             at \in {"load", "join"} \/ At(c, w) \notin {"load", "join"} \/ AllArrived,
             Stored(c, w)' = Stored(c, w), launch.backward => Released(c, w)' = Released(c, w),
             Seen(c, w)' = Seen(c, w), launch.backward => Acquired(c, w)' = Acquired(c, w),
             launch.backward => at # "done"
      PROVE Exchange'
  <2>1. Ready' BY <1>4, <1>9, ReadyStays DEF exchange
  <2>2. Clustered => \A i \in Nat : Seen(c, w)' > i => Full(c, i) BY <1>5, <1>9
  <2>3. Clustered /\ launch.backward => \A i \in Nat : Acquired(c, w)' > i + 2 => Emptied(c, i) BY <1>6, <1>9
  <2>4. Clustered /\ launch.backward => \A i \in Nat : at = "done" /\ i < launch.rounds => Emptied(c, i) BY <1>9
  <2> QED BY <1>9, <2>1, <2>2, <2>3, <2>4, QuietExchange
<1> HIDE DEF n, k
<1>10. ASSUME Load(c, w) PROVE Exchange'
  <2>1. Moves(c, w, "join", n, k) /\ UNCHANGED exchange /\ At(c, w) = "load"
    BY <1>10, Moving DEF Load, n, k
  <2> QED BY <1>2, <1>7, <1>8, <1>9, <2>1, Counters
<1>11. ASSUME Join(c, w) PROVE Exchange'
  <2>1. Moves(c, w, IF launch.backward THEN "prefetch" ELSE "publish", n, k) /\ UNCHANGED exchange
        /\ At(c, w) = "join" /\ AllArrived
    BY <1>11, Moving DEF Join, n, k
  <2>2. launch.backward => Acquired(c, w)' = n BY <2>1, Counters
  <2>3. Stored(c, w)' = n /\ Seen(c, w)' = n /\ Released(c, w)' = n BY <1>1, <1>8, <2>1, Counters
  <2>4. Stored(c, w) = n /\ Seen(c, w) = n /\ Released(c, w) = n /\ Acquired(c, w) = n BY <1>1, <1>7, <1>8, <2>1
  <2> QED BY <1>2, <1>9, <2>1, <2>2, <2>3, <2>4
<1>12. ASSUME Prefetch(c, w) PROVE Exchange'
  <2>1. Moves(c, w, "ahead", n, k) /\ UNCHANGED exchange /\ At(c, w) = "prefetch"
    BY <1>12, Moving DEF Prefetch, n, k
  <2> QED BY <1>2, <1>7, <1>8, <1>9, <2>1, Counters
<1>13. ASSUME Ahead(c, w) PROVE Exchange'
  <2>1. Moves(c, w, "arrives", n, k) /\ UNCHANGED exchange /\ At(c, w) = "ahead"
    BY <1>13, Moving DEF Ahead, n, k
  <2> QED BY <1>2, <1>7, <1>8, <1>9, <2>1, Counters
<1>14. ASSUME WaitTile(c, w) PROVE Exchange'
  <2>1. Moves(c, w, "tile", n, k) /\ UNCHANGED exchange /\ At(c, w) = "arrives"
    BY <1>14, Moving DEF WaitTile, n, k
  <2> QED BY <1>2, <1>7, <1>8, <1>9, <2>1, Counters
<1>15. ASSUME Output(c, w) PROVE Exchange'
  <2>1. Moves(c, w, "done", n, k) /\ UNCHANGED exchange /\ At(c, w) = "output"
    BY <1>15, Moving DEF Output, n, k
  <2>2. ~launch.backward BY <1>3, <2>1 DEF PlaceOK
  <2> QED BY <1>2, <1>7, <1>8, <1>9, <2>1, <2>2, Counters
<1>16. ASSUME Gradient(c, w) PROVE Exchange'
  <2>1. Moves(c, w, "ahead", n + 1, k) /\ UNCHANGED exchange /\ At(c, w) = "gradient"
    BY <1>16, Moving DEF Gradient, n, k
  <2>2. launch.backward BY <1>3, <2>1 DEF PlaceOK
  <2> QED BY <1>1, <1>2, <1>7, <1>8, <1>9, <2>1, <2>2, Counters
<1>17. ASSUME LeaveLoop(c, w) PROVE Exchange'
  <2>1. Moves(c, w, "fold", n, k) /\ UNCHANGED exchange /\ At(c, w) = "ahead"
    BY <1>17, Moving DEF LeaveLoop, n, k
  <2> QED BY <1>2, <1>7, <1>8, <1>9, <2>1, Counters
<1>18. ASSUME FoldArrive(c, w) PROVE Exchange'
  <2>1. Moves(c, w, "held", n, k) /\ UNCHANGED exchange /\ At(c, w) = "fold"
    BY <1>18, Moving DEF FoldArrive, Folding, n, k
  <2> QED BY <1>2, <1>7, <1>8, <1>9, <2>1, Counters
<1>19. ASSUME FoldLeave(c, w) \/ FoldWrite(c, w) \/ FoldRead(c, w) PROVE Exchange'
  <2>1. Moves(c, w, "fold", n, k + 1) /\ UNCHANGED exchange /\ At(c, w) \in {"fold", "held"}
    BY <1>19, Moving DEF FoldLeave, FoldWrite, FoldRead, Folding, n, k
  <2> QED BY <1>2, <1>7, <1>8, <1>9, <2>1, Counters
<1>20. ASSUME CombineForward(c, w) PROVE Exchange'
  <2>1. /\ IF n + 1 < launch.rounds THEN Moves(c, w, "publish", n + 1, k) ELSE Moves(c, w, "output", n, k)
        /\ UNCHANGED exchange /\ At(c, w) = "combine" /\ ~launch.backward
    BY <1>20, Moving DEF CombineForward, n, k
  <2>2. CASE n + 1 < launch.rounds
    <3>1. Moves(c, w, "publish", n + 1, k) BY <2>1, <2>2
    <3> QED BY <1>1, <1>2, <1>7, <1>8, <1>9, <2>1, <3>1, Counters
  <2>3. CASE ~(n + 1 < launch.rounds)
    <3>1. Moves(c, w, "output", n, k) BY <2>1, <2>3
    <3> QED BY <1>1, <1>2, <1>7, <1>8, <1>9, <2>1, <3>1, Counters
  <2> QED BY <2>2, <2>3
<1>21. ASSUME Acquire(c, w) PROVE Exchange'
  <2>1. Moves(c, w, "publish", n, k) /\ UNCHANGED exchange /\ At(c, w) = "tile" /\ (Clustered => IsFree(c, n))
    BY <1>21, Moving DEF Acquire, n, k
  <2>2. launch.backward BY <1>3, <2>1 DEF PlaceOK
  <2>3. Acquired(c, w) = n /\ Stored(c, w) = n /\ Seen(c, w) = n /\ Released(c, w) = n
    BY <1>1, <1>7, <1>8, <2>1
  <2>4. Acquired(c, w)' = n + 1 /\ Stored(c, w)' = n /\ Seen(c, w)' = n /\ Released(c, w)' = n
    BY <1>1, <1>8, <2>1, Counters
  <2>5. Ready' BY <1>4, <2>1, ReadyStays DEF exchange
  <2>6. Clustered => \A i \in Nat : Seen(c, w)' > i => Full(c, i) BY <1>5, <2>3, <2>4
  <2>7. ASSUME Clustered, NEW i \in Nat, Acquired(c, w)' > i + 2 PROVE Emptied(c, i)
    <3>1. CASE n > i + 2 BY <1>6, <2>2, <2>3, <2>7, <3>1
    <3>2. CASE n = i + 2
      <4>1. empty[c] # <<>> BY <1>4, <2>1, <2>7, SetUp
      <4>2. i < 2 \/ Emptied(c, i - 2)
        <5>1. ~(i < 2) => i - 2 \in Nat /\ n > (i - 2) + 2 BY <3>2
        <5> QED BY <1>6, <2>2, <2>3, <2>7, <5>1
      <4>3. IsFree(c, i + 2) BY <2>1, <2>7, <3>2
      <4> QED BY <1>4, <2>2, <2>7, <4>1, <4>2, <4>3, FreeIsSeen
    <3> QED BY <1>1, <2>4, <2>7, <3>1, <3>2
  <2> QED BY <2>1, <2>3, <2>4, <2>5, <2>6, <2>7, QuietExchange
<1>22. ASSUME WaitAll(c, w) PROVE Exchange'
  <2>1. Moves(c, w, "combine", n, k) /\ UNCHANGED exchange /\ At(c, w) = "wait" /\ (Clustered => IsFull(c, n))
    BY <1>22, Moving DEF WaitAll, n, k
  <2>3. Acquired(c, w) = n + 1 /\ Stored(c, w) = n + 1 /\ Seen(c, w) = n /\ Released(c, w) = n
    BY <1>1, <1>7, <1>8, <2>1
  <2>4. Acquired(c, w)' = n + 1 /\ Stored(c, w)' = n + 1 /\ Seen(c, w)' = n + 1 /\ Released(c, w)' = n
    BY <1>1, <1>8, <2>1, Counters
  <2>5. Ready' BY <1>4, <2>1, ReadyStays DEF exchange
  <2>6. ASSUME Clustered, NEW i \in Nat, Seen(c, w)' > i PROVE Full(c, i)
    <3>1. CASE n > i BY <1>5, <2>3, <2>6, <3>1
    <3>2. CASE n = i
      <4>1. full[c] # <<>> BY <1>4, <2>1, <2>6, SetUp
      <4>2. i < 2 \/ Full(c, i - 2)
        <5>1. ~(i < 2) => i - 2 \in Nat /\ n > i - 2 BY <3>2
        <5> QED BY <1>5, <2>3, <2>6, <5>1
      <4>3. IsFull(c, i) BY <2>1, <2>6, <3>2
      <4> QED BY <1>4, <2>6, <4>1, <4>2, <4>3, FullIsSeen
    <3> QED BY <1>1, <2>4, <2>6, <3>1, <3>2
  <2>7. Clustered /\ launch.backward => \A i \in Nat : Acquired(c, w)' > i + 2 => Emptied(c, i) BY <1>6, <2>3, <2>4
  <2> QED BY <2>1, <2>3, <2>4, <2>5, <2>6, <2>7, QuietExchange
<1>23. ASSUME Leave(c, w) PROVE Exchange'
  <2>1. Moves(c, w, "done", n, k) /\ UNCHANGED exchange /\ At(c, w) = "fold" /\ (Clustered => Drained(c, n))
    BY <1>23, Moving DEF Leave, n, k
  <2>2. launch.backward /\ n = launch.rounds BY <1>3, <2>1 DEF PlaceOK, After, n
  <2>3. Acquired(c, w) = n /\ Stored(c, w) = n /\ Seen(c, w) = n /\ Released(c, w) = n
    BY <1>1, <1>7, <1>8, <2>1, <2>2
  <2>4. Acquired(c, w)' = n /\ Stored(c, w)' = n /\ Seen(c, w)' = n /\ Released(c, w)' = n
    BY <1>1, <1>8, <2>1, <2>2, Counters
  <2>5. Ready' BY <1>4, <2>1, ReadyStays DEF exchange
  <2>6. Clustered => \A i \in Nat : Seen(c, w)' > i => Full(c, i) BY <1>5, <2>3, <2>4
  <2>7. Clustered => \A i \in Nat : Acquired(c, w)' > i + 2 => Emptied(c, i) BY <1>6, <2>2, <2>3, <2>4
  <2>8. ASSUME Clustered, NEW i \in Nat, i < n PROVE Emptied(c, i)
    <3>0. IsFree(c, n) /\ IsFree(c, n + 1) BY <2>1, <2>8 DEF Drained
    <3>1. CASE n > i + 2 BY <1>6, <2>2, <2>3, <2>8, <3>1
    <3>2. CASE n = i + 2 \/ n = i + 1
      <4>1. empty[c] # <<>> BY <1>4, <2>1, <2>8, SetUp
      <4>2. i < 2 \/ Emptied(c, i - 2)
        <5>1. ~(i < 2) => i - 2 \in Nat /\ n > (i - 2) + 2 BY <3>2
        <5> QED BY <1>6, <2>2, <2>3, <2>8, <5>1
      <4>3. IsFree(c, i + 2)
        <5>1. i + 2 = n \/ i + 2 = n + 1 BY <1>1, <3>2
        <5> QED BY <3>0, <5>1
      <4> QED BY <1>4, <2>2, <2>8, <4>1, <4>2, <4>3, FreeIsSeen
    <3> QED BY <1>1, <2>8, <3>1, <3>2
  <2> QED BY <2>1, <2>2, <2>3, <2>4, <2>5, <2>6, <2>7, <2>8, QuietExchange
<1> QED
  BY <1>10, <1>11, <1>12, <1>13, <1>14, <1>15, <1>16, <1>17, <1>18, <1>19, <1>20, <1>21, <1>22, <1>23

(* A step of the tile ring, or none.                                       *)
LEMMA ExchangeSame ==
  ASSUME Exchange, UNCHANGED <<launch, warp, exchange>>
  PROVE Exchange'
<1>1. /\ Ctas' = Ctas /\ Warps' = Warps /\ (Clustered' <=> Clustered) /\ (Exchanges' <=> Exchanges)
      /\ Values' = Values /\ Ended' = Ended /\ Partials' = Partials /\ Armed' = Armed /\ Releases' = Releases
  BY Same
<1>2. UNCHANGED <<slots, full, empty, flying>> BY DEF exchange
<1>3. \A c, w : At(c, w)' = At(c, w) /\ Round(c, w)' = Round(c, w) BY DEF At, Round
<1>4. \A c, w : /\ Acquired(c, w)' = Acquired(c, w) /\ Stored(c, w)' = Stored(c, w)
                /\ Seen(c, w)' = Seen(c, w) /\ Released(c, w)' = Released(c, w)
  BY <1>1, <1>3 DEF Acquired, Stored, Seen, Released, Past
<1>5. \A c, n : Got(c, n)' = Got(c, n) BY <1>1, <1>2, <1>4 DEF Got, StoreMsg
<1>6. \A c, n : Arrived(c, n)' = Arrived(c, n) BY <1>1, <1>2, <1>4 DEF Arrived, ArriveMsg
<1>7. \A c, n : (Full(c, n)' <=> Full(c, n)) /\ (Emptied(c, n)' <=> Emptied(c, n))
  BY <1>1, <1>5, <1>6 DEF Full, Emptied
<1>8. Ready' BY <1>1, <1>2, <1>3 DEF Exchange, Ready
<1>9. Flying' BY <1>1, <1>2, <1>4 DEF Exchange, Flying
<1>10. FullCounts' BY <1>1, <1>2, <1>4, <1>5, <1>7 DEF Exchange, FullCounts, StageOf, PhaseOf
<1>11. EmptyCounts' BY <1>1, <1>2, <1>6, <1>7 DEF Exchange, EmptyCounts, StageOf, PhaseOf
<1>12. SeenFull' BY <1>1, <1>4, <1>7 DEF Exchange, SeenFull
<1>13. AcquiredFree' BY <1>1, <1>4, <1>7 DEF Exchange, AcquiredFree
<1>14. DoneFree' BY <1>1, <1>3, <1>7 DEF Exchange, DoneFree
<1>15. Slots' BY <1>1, <1>2, <1>5 DEF Exchange, Slots, StageOf
<1> QED BY <1>8, <1>9, <1>10, <1>11, <1>12, <1>13, <1>14, <1>15 DEF Exchange

-----------------------------------------------------------------------------
(* The steps that set up, store or release.                                *)
LEMMA NotStarted ==
  ASSUME Types, PlacesOK, Ready, Clustered, NEW c \in Ctas, At(c, 0) = "setup", NEW d \in Ctas, NEW u \in Warps
  PROVE /\ At(d, u) \in {"setup", "load", "join"} /\ Round(d, u) = 0
        /\ Stored(d, u) = 0 /\ Released(d, u) = 0 /\ Seen(d, u) = 0 /\ Acquired(d, u) = 0
<1>1. 0 \in Warps BY Launched DEF Types
<1>2. At(d, u) \in {"setup", "load", "join"} BY <1>1 DEF Ready
<1>3. Round(d, u) = 0 BY <1>2 DEF PlacesOK, PlaceOK
<1> QED BY <1>2, <1>3 DEF Stored, Released, Seen, Acquired, Past, Ended

(* A warp that sets up its CTA's barriers keeps the exchange.              *)
LEMMA ExchangeSetup ==
  ASSUME Types, PlacesOK, Exchange, NEW c \in Ctas, NEW w \in Warps, Setup(c, w)
  PROVE Exchange'
<1> DEFINE at == IF launch.backward THEN "join" ELSE "load"
           k == warp[c][w].k
<1>1. /\ At(c, w) = "setup" /\ Round(c, w) = 0 /\ Moves(c, w, at, 0, k) /\ at \in {"join", "load"}
      /\ UNCHANGED <<launch, slots, flying>>
  <2>1. At(c, w) = "setup" /\ UNCHANGED <<launch, slots, flying>> BY DEF Setup
  <2>2. Round(c, w) = 0 BY <2>1 DEF PlacesOK, PlaceOK
  <2>3. Moves(c, w, at, Round(c, w), k) BY Moving
  <2> QED BY <2>1, <2>2, <2>3
<1> HIDE DEF at, k
<1>2. /\ Ctas' = Ctas /\ Warps' = Warps /\ (Clustered' <=> Clustered) /\ Partials' = Partials /\ Armed' = Armed
      /\ Releases' = Releases
  BY <1>1, Same
<1>3. 0 \in Warps /\ launch \in Launches /\ launch.backward \in BOOLEAN BY Launched DEF Types
<1>4. /\ At(c, w)' = at /\ Stored(c, w)' = 0 /\ Released(c, w)' = 0 /\ Seen(c, w)' = 0 /\ Acquired(c, w)' = 0
  BY <1>1, Counters DEF Ended
<1>5. Stored(c, w) = 0 /\ Released(c, w) = 0 /\ Seen(c, w) = 0 /\ Acquired(c, w) = 0
  BY <1>1 DEF Stored, Released, Seen, Acquired, Past, Ended
<1>6. \A d \in Ctas, u \in Warps :
        d # c \/ u # w => At(d, u)' = At(d, u) /\ Stored(d, u)' = Stored(d, u) /\ Released(d, u)' = Released(d, u)
  BY <1>1, Counters
<1>7. \A d \in Ctas, u \in Warps : Stored(d, u)' = Stored(d, u) /\ Released(d, u)' = Released(d, u)
  BY <1>4, <1>5, <1>6
<1>8. /\ full \in [Ctas -> {<<>>} \cup [Stages -> Bar(1)]]
      /\ empty \in [Ctas -> {<<>>} \cup [Stages -> Bar(Releases)]]
  BY DEF Types
<1>9. \A d \in Ctas : d # c \/ w # 0 => full'[d] = full[d] /\ empty'[d] = empty[d]
  BY <1>8 DEF Setup
<1>10. w = 0 => full'[c] = [s \in Stages |-> Fresh(1)] /\ empty'[c] = [s \in Stages |-> Fresh(Releases)]
  BY <1>8 DEF Setup
<1>11. Ready'
  <2>1. ASSUME NEW d \in Ctas
        PROVE (full'[d] = <<>> <=> At(d, 0)' = "setup") /\ (empty'[d] = <<>> <=> At(d, 0)' = "setup")
    <3>1. CASE d # c \/ w # 0
      <4>1. At(d, 0)' = At(d, 0) BY <1>3, <1>6, <3>1
      <4> QED BY <1>9, <3>1, <4>1 DEF Exchange, Ready
    <3>2. CASE d = c /\ w = 0
      <4>1. At(d, 0)' # "setup" BY <1>1, <1>4, <3>2
      <4>2. full'[c] # <<>> /\ empty'[c] # <<>>
        <5>1. full'[c][0] = Fresh(1) /\ DOMAIN full'[c] = {0, 1} BY <1>10, <3>2 DEF Stages
        <5>2. DOMAIN empty'[c] = {0, 1} BY <1>10, <3>2 DEF Stages
        <5>3. DOMAIN <<>> = {} OBVIOUS
        <5> QED BY <5>1, <5>2, <5>3
      <4> QED BY <3>2, <4>1, <4>2
    <3> QED BY <3>1, <3>2
  <2>2. ASSUME Clustered, NEW d \in Ctas, NEW u \in Warps PROVE At(d, u)' \in {"setup", "load", "join"}
    <3>1. At(d, u) \in {"setup", "load", "join"} BY <1>1, <2>2 DEF Exchange, Ready
    <3> QED BY <1>1, <1>4, <1>6, <3>1
  <2> QED BY <1>2, <2>1, <2>2 DEF Ready
<1>12. ASSUME NEW d \in Ctas, NEW m \in Nat PROVE Got(d, m)' = Got(d, m)
  <2>1. Got(d, m) \in SUBSET Partials /\ Got(d, m)' \in SUBSET Partials BY <1>1, GotIs, GotAfter
  <2>2. ASSUME NEW e \in Ctas, NEW u \in Warps, NEW v \in Values
        PROVE <<<<e, u>>, v>> \in Got(d, m)' <=> <<<<e, u>>, v>> \in Got(d, m)
    <3>1. <<<<e, u>>, v>> \in Got(d, m) <=> Stored(e, u) > m /\ StoreMsg(e, u, d, m, v) \notin flying BY GotIs
    <3>2. <<<<e, u>>, v>> \in Got(d, m)' <=> Stored(e, u)' > m /\ StoreMsg(e, u, d, m, v) \notin flying'
      BY <1>1, GotAfter
    <3> QED BY <1>1, <1>7, <3>1, <3>2
  <2> QED BY <2>1, <2>2, SamePartials
<1>13. ASSUME NEW d \in Ctas, NEW m \in Nat PROVE Arrived(d, m)' = Arrived(d, m)
  <2>1. Arrived(d, m) \in SUBSET (Ctas \X Warps) /\ Arrived(d, m)' \in SUBSET (Ctas \X Warps)
    BY <1>1, ArrivedIs, ArrivedAfter
  <2>2. ASSUME NEW e \in Ctas, NEW u \in Warps PROVE <<e, u>> \in Arrived(d, m)' <=> <<e, u>> \in Arrived(d, m)
    <3>1. <<e, u>> \in Arrived(d, m) <=> Released(e, u) > m /\ ArriveMsg(e, u, d, m) \notin flying BY ArrivedIs
    <3>2. <<e, u>> \in Arrived(d, m)' <=> Released(e, u)' > m /\ ArriveMsg(e, u, d, m) \notin flying'
      BY <1>1, ArrivedAfter
    <3> QED BY <1>1, <1>7, <3>1, <3>2
  <2> QED BY <2>1, <2>2, SameWarps
<1>14. \A d \in Ctas, m \in Nat : (Full(d, m)' <=> Full(d, m)) /\ (Emptied(d, m)' <=> Emptied(d, m))
  BY <1>2, <1>12, <1>13 DEF Full, Emptied
<1>15. ASSUME Clustered, w = 0, NEW m \in Nat
       PROVE ~Full(c, m) /\ ~Emptied(c, m) /\ Cardinality(Got(c, m)) = 0 /\ Cardinality(Arrived(c, m)) = 0
  <2>1. \A d \in Ctas, u \in Warps : Stored(d, u) = 0 /\ Released(d, u) = 0
    BY <1>1, <1>15, NotStarted DEF Exchange
  <2>2. ~Full(c, m) /\ ~Emptied(c, m)
    <3>1. ~(0 > m) /\ c \in Ctas /\ 0 \in Warps BY <1>3
    <3>2. ~Full(c, m) BY <2>1, <3>1, FullMeans
    <3>3. ~Emptied(c, m) BY <2>1, <3>1, EmptiedMeans
    <3> QED BY <3>2, <3>3
  <2>3. Got(c, m) = {}
    <3>1. \A x \in Partials : \E d \in Ctas, u \in Warps, v \in Values : x = <<<<d, u>>, v>> BY DEF Partials
    <3>2. \A x \in Got(c, m) : Stored(x[1][1], x[1][2]) > m /\ x \in Partials BY DEF Got
    <3>3. \A x \in Got(c, m) : FALSE
      <4> SUFFICES ASSUME NEW x \in Got(c, m) PROVE FALSE OBVIOUS
      <4>1. x[1][1] \in Ctas /\ x[1][2] \in Warps BY <3>1, <3>2
      <4> QED BY <2>1, <3>2, <4>1
    <3> QED BY <3>3
  <2>4. Arrived(c, m) = {}
    <3>2. \A x \in Arrived(c, m) : Released(x[1], x[2]) > m /\ x \in Ctas \X Warps BY DEF Arrived
    <3>3. \A x \in Arrived(c, m) : FALSE
      <4> SUFFICES ASSUME NEW x \in Arrived(c, m) PROVE FALSE OBVIOUS
      <4>1. x[1] \in Ctas /\ x[2] \in Warps BY <3>2
      <4> QED BY <2>1, <3>2, <4>1
    <3> QED BY <3>3
  <2> QED BY <2>2, <2>3, <2>4, FS_EmptySet
<1>16. FullCounts'
  <2>1. ASSUME Clustered, NEW d \in Ctas, NEW m \in Nat, full'[d] # <<>>, m < 2 \/ Full(d, m - 2)', ~Full(d, m)'
        PROVE full'[d][StageOf(m)] =
                [parity |-> PhaseOf(m), pending |-> IF Stored(d, 0)' > m THEN 0 ELSE 1,
                 tx |-> (IF Stored(d, 0)' > m THEN Armed ELSE 0) - Cardinality(Got(d, m)')]
    <3>0. Stored(d, 0)' = Stored(d, 0) /\ Got(d, m)' = Got(d, m) BY <1>3, <1>7, <1>12
    <3>1. CASE d # c \/ w # 0
      <4>1. full[d] # <<>> /\ full'[d] = full[d] BY <1>9, <2>1, <3>1
      <4>2. m < 2 \/ Full(d, m - 2) BY <1>14, <2>1
      <4>3. ~Full(d, m) BY <1>14, <2>1
      <4>4. full[d][StageOf(m)] =
             [parity |-> PhaseOf(m), pending |-> IF Stored(d, 0) > m THEN 0 ELSE 1,
              tx |-> (IF Stored(d, 0) > m THEN Armed ELSE 0) - Cardinality(Got(d, m))]
        BY <2>1, <4>1, <4>2, <4>3 DEF Exchange, FullCounts
      <4> QED BY <3>0, <4>1, <4>4
    <3>2. CASE d = c /\ w = 0
      <4>1. m < 2 BY <1>14, <1>15, <2>1, <3>2
      <4>2. PhaseOf(m) = 0 /\ StageOf(m) \in Stages BY <4>1, Stage2
      <4>3. full'[d][StageOf(m)] = Fresh(1) BY <1>10, <3>2, <4>2
      <4>4. Stored(d, 0) = 0 /\ Cardinality(Got(d, m)) = 0 BY <1>5, <1>15, <2>1, <3>2
      <4>5. ~(0 > m) /\ 0 - 0 = 0 OBVIOUS
      <4>6. full'[d][StageOf(m)] = [parity |-> PhaseOf(m), pending |-> 1, tx |-> 0] BY <4>2, <4>3 DEF Fresh
      <4> QED BY <3>0, <4>4, <4>5, <4>6
    <3> QED BY <3>1, <3>2
  <2> QED BY <1>2, <2>1 DEF FullCounts, StageOf, PhaseOf
<1>17. EmptyCounts'
  <2>1. ASSUME Clustered, launch.backward, NEW d \in Ctas, NEW m \in Nat, empty'[d] # <<>>,
               m < 2 \/ Emptied(d, m - 2)', ~Emptied(d, m)'
        PROVE empty'[d][StageOf(m)] =
                [parity |-> PhaseOf(m), pending |-> Releases - Cardinality(Arrived(d, m)'), tx |-> 0]
    <3>0. Arrived(d, m)' = Arrived(d, m) BY <1>13
    <3>1. CASE d # c \/ w # 0
      <4>1. empty[d] # <<>> /\ empty'[d] = empty[d] BY <1>9, <2>1, <3>1
      <4>2. m < 2 \/ Emptied(d, m - 2) BY <1>14, <2>1
      <4>3. ~Emptied(d, m) BY <1>14, <2>1
      <4>4. empty[d][StageOf(m)] =
              [parity |-> PhaseOf(m), pending |-> Releases - Cardinality(Arrived(d, m)), tx |-> 0]
        BY <2>1, <4>1, <4>2, <4>3 DEF Exchange, EmptyCounts
      <4> QED BY <3>0, <4>1, <4>4
    <3>2. CASE d = c /\ w = 0
      <4>1. m < 2 BY <1>14, <1>15, <2>1, <3>2
      <4>2. PhaseOf(m) = 0 /\ StageOf(m) \in Stages BY <4>1, Stage2
      <4>3. empty'[d][StageOf(m)] = Fresh(Releases) BY <1>10, <3>2, <4>2
      <4>4. Cardinality(Arrived(d, m)) = 0 BY <1>15, <2>1, <3>2
      <4>5. Releases - 0 = Releases BY <1>3, Counted
      <4>6. empty'[d][StageOf(m)] = [parity |-> PhaseOf(m), pending |-> Releases, tx |-> 0] BY <4>2, <4>3 DEF Fresh
      <4> QED BY <3>0, <4>4, <4>5, <4>6
    <3> QED BY <3>1, <3>2
  <2> QED BY <1>1, <1>2, <2>1 DEF EmptyCounts, StageOf, PhaseOf
<1>18. Slots' BY <1>1, <1>12, SlotsStay DEF Exchange
<1>19. Flying'
  <2>1. \A d \in Ctas, u \in Warps : Stored(d, u) \in Nat /\ Released(d, u) \in Nat BY InOrder
  <2>2. \A d \in Ctas, u \in Warps : Stored(d, u)' \in Nat /\ Stored(d, u) <= Stored(d, u)' BY <1>7, <2>1
  <2>3. \A d \in Ctas, u \in Warps : Released(d, u)' \in Nat /\ Released(d, u) <= Released(d, u)' BY <1>7, <2>1
  <2> QED BY <1>1, <2>2, <2>3, FlyingStays DEF Exchange, Flying
<1>20. SeenFull' /\ AcquiredFree' /\ DoneFree'
  <2>1. \A m \in Nat : ~(0 > m) /\ ~(0 > m + 2) /\ at # "done" BY <1>1
  <2> QED BY <1>1, <1>4, <1>14, <2>1, GoesOn DEF Exchange
<1> QED BY <1>11, <1>16, <1>17, <1>18, <1>19, <1>20 DEF Exchange

(* A CTA by itself has no barriers to count.                               *)
LEMMA ExchangeAlone ==
  ASSUME Types, PlacesOK, Exchange, ~Clustered, NEW c \in Ctas, NEW w \in Warps,
         NEW at, NEW n, NEW k, Moves(c, w, at, n, k), UNCHANGED <<full, empty, flying>>,
         At(c, w) \notin {"setup", "load", "join"}, at # "setup", Slots'
  PROVE Exchange'
<1>1. launch' = launch BY DEF Moves
<1>2. ~Clustered' BY <1>1, Same
<1>3. Ready' BY ReadyStays DEF Exchange
<1>4. flying' = {} BY DEF Exchange, Flying
<1> QED BY <1>2, <1>3, <1>4 DEF Exchange, Flying, FullCounts, EmptyCounts, SeenFull, AcquiredFree, DoneFree

(* A warp that exchanges within its CTA, or not at all, keeps the          *)
(* exchange.                                                               *)
LEMMA ExchangeBlock ==
  ASSUME Types, PlacesOK, Exchange, NEW c \in Ctas, NEW w \in Warps, Alone(c, w) \/ PublishBlock(c, w)
  PROVE Exchange'
<1> DEFINE n == Round(c, w)
           k == warp[c][w].k
<1>1. n \in Nat /\ launch \in Launches /\ launch.backward \in BOOLEAN BY WarpIs, Launched DEF Types
<1> HIDE DEF n, k
<1>2. CASE Alone(c, w)
  <2>1. /\ At(c, w) = "publish" /\ ~Exchanges /\ UNCHANGED <<slots, full, empty, flying>>
        /\ Moves(c, w, "combine", n, k)
    BY <1>2, Moving DEF Alone, exchange, n, k
  <2>2. ~Clustered /\ launch' = launch BY <2>1 DEF Exchanges, Moves
  <2>3. Slots' BY <2>1, <2>2, Same DEF Slots
  <2> QED BY <2>1, <2>2, <2>3, ExchangeAlone
<1>3. CASE PublishBlock(c, w)
  <2>1. /\ At(c, w) = "publish" /\ ~Clustered /\ Exchanges /\ UNCHANGED <<full, empty, flying>>
        /\ Moves(c, w, "wait", n, k)
    BY <1>3, Moving DEF PublishBlock, n, k
  <2>2. launch' = launch BY <2>1 DEF Moves
  <2>3. Ctas' = Ctas /\ Warps' = Warps /\ Values' = Values /\ (Exchanges' <=> Exchanges) BY <2>2, Same
  <2>4. flying = {} /\ flying' = {} BY <2>1 DEF Exchange, Flying
  <2>5. \A d \in Ctas : d = c BY <1>1, <2>1, Launched
  <2>6. Stored(c, w) = n /\ Stored(c, w)' = n + 1
    <3>1. Stored(c, w) = n + 0 BY <2>1 DEF Stored, Past, Ended, n
    <3>2. Stored(c, w)' = n + 1 BY <2>1, Counters
    <3> QED BY <1>1, <3>1, <3>2
  <2>7. \A u \in Warps : u # w => Stored(c, u)' = Stored(c, u) BY <2>1, Counters
  <2>8. ASSUME NEW u \in Warps, NEW v \in Values, NEW m \in Nat
        PROVE /\ <<<<c, u>>, v>> \in Got(c, m) <=> Stored(c, u) > m
              /\ <<<<c, u>>, v>> \in Got(c, m)' <=> Stored(c, u)' > m
    <3>1. <<<<c, u>>, v>> \in Got(c, m) <=> Stored(c, u) > m /\ StoreMsg(c, u, c, m, v) \notin flying BY GotIs
    <3>2. <<<<c, u>>, v>> \in Got(c, m)' <=> Stored(c, u)' > m /\ StoreMsg(c, u, c, m, v) \notin flying'
      BY <2>2, GotAfter
    <3> QED BY <2>4, <3>1, <3>2
  <2>9. slots \in [Ctas -> [Stages -> [Values -> [Warps \X Ctas -> Int]]]] BY DEF Types
  <2>10. slots[c] \in [Stages -> [Values -> [Warps \X Ctas -> Int]]] BY <2>9
  <2>11. StageOf(n) \in Stages BY <1>1, Stage2
  <2>12. slots[c][StageOf(n)] \in [Values -> [Warps \X Ctas -> Int]] BY <2>10, <2>11
  <2>13. PICK f : f = [v \in 1..launch.values |-> [slots[c][StageOf(n)][v] EXCEPT ![<<w, c>>] = n]] OBVIOUS
  <2>14. slots' = [slots EXCEPT ![c][StageOf(n)] = f] BY <1>3, <2>9, <2>10, <2>11, <2>13 DEF PublishBlock, n
  <2>15. slots'[c] = [slots[c] EXCEPT ![StageOf(n)] = f] BY <2>9, <2>14
  <2>16. slots'[c][StageOf(n)] = f /\ \A s \in Stages : s # StageOf(n) => slots'[c][s] = slots[c][s]
    BY <2>10, <2>11, <2>15
  <2>17. ASSUME NEW v \in Values, NEW u \in Warps
         PROVE f[v][<<u, c>>] = IF u = w THEN n ELSE slots[c][StageOf(n)][v][<<u, c>>]
    <3>1. slots[c][StageOf(n)][v] \in [Warps \X Ctas -> Int] BY <2>12
    <3>2. f[v] = [slots[c][StageOf(n)][v] EXCEPT ![<<w, c>>] = n] BY <2>13 DEF Values
    <3>3. <<u, c>> \in Warps \X Ctas /\ (<<u, c>> = <<w, c>> <=> u = w) OBVIOUS
    <3> QED BY <3>1, <3>2, <3>3
  <2>18. ASSUME NEW u \in Warps, NEW v \in Values, NEW m \in Nat, Stored(c, u)' > m, ~(Stored(c, u)' > m + 2)
         PROVE slots'[c][StageOf(m)][v][<<u, c>>] = m
    <3>0. StageOf(m) \in Stages /\ m + 2 \in Nat BY Stage2
    <3>1. CASE u = w
      <4>1. m = n \/ n = m + 1 BY <1>1, <2>6, <2>18, <3>1
      <4>2. CASE m = n BY <2>16, <2>17, <3>1, <4>2
      <4>3. CASE n = m + 1
        <5>1. StageOf(m) # StageOf(n) BY <4>3, Stage2
        <5>2. slots'[c][StageOf(m)] = slots[c][StageOf(m)] BY <2>16, <3>0, <5>1
        <5>3. Stored(c, u) > m /\ ~(Stored(c, u) > m + 2) BY <2>6, <3>1, <4>3
        <5>4. slots[c][StageOf(m)][v][<<u, c>>] = m
          <6>1. <<<<c, u>>, v>> \in Got(c, m) BY <2>8, <5>3
          <6>2. <<<<c, u>>, v>> \notin Got(c, m + 2) BY <2>8, <3>0, <5>3
          <6>3. Slots BY DEF Exchange
          <6> QED BY <2>1, <6>1, <6>2, <6>3 DEF Slots
        <5> QED BY <5>2, <5>4
      <4> QED BY <4>1, <4>2, <4>3
    <3>2. CASE u # w
      <4>1. Stored(c, u) > m /\ ~(Stored(c, u) > m + 2) BY <2>7, <2>18, <3>2
      <4>2. slots[c][StageOf(m)][v][<<u, c>>] = m
        <5>1. <<<<c, u>>, v>> \in Got(c, m) BY <2>8, <4>1
        <5>2. <<<<c, u>>, v>> \notin Got(c, m + 2) BY <2>8, <3>0, <4>1
        <5>3. Slots BY DEF Exchange
        <5> QED BY <2>1, <5>1, <5>2, <5>3 DEF Slots
      <4>3. CASE StageOf(m) = StageOf(n) BY <2>16, <2>17, <3>2, <4>2, <4>3
      <4>4. CASE StageOf(m) # StageOf(n) BY <2>16, <3>0, <4>2, <4>4
      <4> QED BY <4>3, <4>4
    <3> QED BY <3>1, <3>2
  <2>19. ASSUME NEW u \in Warps, NEW v \in Values, NEW m \in Nat,
                <<<<c, u>>, v>> \in Got(c, m)', <<<<c, u>>, v>> \notin Got(c, m + 2)'
         PROVE slots'[c][StageOf(m)][v][<<u, c>>] = m
    <3>1. m + 2 \in Nat OBVIOUS
    <3>2. Stored(c, u)' > m BY <2>8, <2>19
    <3>3. ~(Stored(c, u)' > m + 2) BY <2>8, <2>19, <3>1
    <3> QED BY <2>18, <3>2, <3>3
  <2>20. Slots' BY <2>3, <2>5, <2>19 DEF Slots, StageOf
  <2> QED BY <2>1, <2>20, ExchangeAlone
<1> QED BY <1>2, <1>3

(* A release is counted when it is performed.                              *)
LEMMA ExchangeRelease ==
  ASSUME Types, PlacesOK, Exchange, NEW c \in Ctas, NEW w \in Warps, CombineBackward(c, w)
  PROVE Exchange'
<1> DEFINE n == Round(c, w)
           k == warp[c][w].k
<1>1. n \in Nat /\ launch \in Launches /\ launch.backward \in BOOLEAN /\ 0 \in Warps BY WarpIs, Launched DEF Types
<1> HIDE DEF n, k
<1>2. /\ At(c, w) = "combine" /\ launch.backward /\ UNCHANGED <<slots, full, empty>>
      /\ flying' = (IF Clustered THEN flying \cup Arrivals(c, w) ELSE flying)
      /\ Moves(c, w, "gradient", n, k)
  BY Moving DEF CombineBackward, n, k
<1>3. launch' = launch BY <1>2 DEF Moves
<1>4. /\ Stored(c, w) = n + 1 /\ Stored(c, w)' = n + 1 /\ Released(c, w) = n /\ Released(c, w)' = n + 1
      /\ Seen(c, w) = n + 1 /\ Seen(c, w)' = n + 1 /\ Acquired(c, w) = n + 1 /\ Acquired(c, w)' = n + 1
  <2>1. Stored(c, w) = n + 1 /\ Released(c, w) = n + 0 /\ Seen(c, w) = n + 1 /\ Acquired(c, w) = n + 1
    BY <1>2 DEF Stored, Released, Seen, Acquired, Past, n
  <2>2. Stored(c, w)' = n + 1 /\ Released(c, w)' = n + 1 /\ Seen(c, w)' = n + 1 /\ Acquired(c, w)' = n + 1
    BY <1>2, Counters
  <2> QED BY <1>1, <2>1, <2>2
<1>5. \A d \in Ctas, u \in Warps : d # c \/ u # w =>
        Stored(d, u)' = Stored(d, u) /\ Released(d, u)' = Released(d, u)
  BY <1>2, Counters
<1>6. \A d \in Ctas, u \in Warps : Stored(d, u)' = Stored(d, u) BY <1>4, <1>5
<1>7. \A m : m \in Arrivals(c, w) => m.kind = "arrive" BY DEF Arrivals
<1>8. ASSUME NEW d \in Ctas, NEW m \in Nat PROVE Got(d, m)' = Got(d, m)
  <2>1. Got(d, m) \in SUBSET Partials /\ Got(d, m)' \in SUBSET Partials BY <1>3, GotIs, GotAfter
  <2>2. ASSUME NEW e \in Ctas, NEW u \in Warps, NEW v \in Values
        PROVE <<<<e, u>>, v>> \in Got(d, m)' <=> <<<<e, u>>, v>> \in Got(d, m)
    <3>1. <<<<e, u>>, v>> \in Got(d, m) <=> Stored(e, u) > m /\ StoreMsg(e, u, d, m, v) \notin flying BY GotIs
    <3>2. <<<<e, u>>, v>> \in Got(d, m)' <=> Stored(e, u)' > m /\ StoreMsg(e, u, d, m, v) \notin flying'
      BY <1>3, GotAfter
    <3>3. StoreMsg(e, u, d, m, v) \notin Arrivals(c, w) BY <1>7 DEF StoreMsg
    <3> QED BY <1>2, <1>6, <3>1, <3>2, <3>3
  <2> QED BY <2>1, <2>2, SamePartials
<1>9. FullCounts' /\ \A d \in Ctas, m \in Nat : Full(d, m)' <=> Full(d, m)
  <2>1. \A d \in Ctas : Stored(d, 0)' = Stored(d, 0) BY <1>1, <1>6
  <2> QED BY <1>2, <1>3, <1>8, <2>1, FullStays DEF Exchange
<1>10. Slots' BY <1>2, <1>3, <1>8, SlotsStay DEF Exchange
<1>11. CASE ~Clustered
  <2>1. UNCHANGED <<full, empty, flying>> BY <1>2, <1>11
  <2> QED BY <1>2, <1>10, <1>11, <2>1, ExchangeAlone
<1>12. CASE Clustered
  <2>1. flying' = flying \cup Arrivals(c, w) BY <1>2, <1>12
  <2>2. ASSUME NEW d \in Ctas, NEW m \in Nat PROVE Arrived(d, m)' = Arrived(d, m)
    <3>1. Arrived(d, m) \in SUBSET (Ctas \X Warps) /\ Arrived(d, m)' \in SUBSET (Ctas \X Warps)
      BY <1>3, ArrivedIs, ArrivedAfter
    <3>2. ASSUME NEW e \in Ctas, NEW u \in Warps PROVE <<e, u>> \in Arrived(d, m)' <=> <<e, u>> \in Arrived(d, m)
      <4>1. <<e, u>> \in Arrived(d, m) <=> Released(e, u) > m /\ ArriveMsg(e, u, d, m) \notin flying BY ArrivedIs
      <4>2. <<e, u>> \in Arrived(d, m)' <=> Released(e, u)' > m /\ ArriveMsg(e, u, d, m) \notin flying'
        BY <1>3, ArrivedAfter
      <4>3. ArriveMsg(e, u, d, m) \in Arrivals(c, w) <=> e = c /\ u = w /\ m = n
        BY DEF ArriveMsg, Arrivals, n
      <4>4. CASE e = c /\ u = w
        <5>1. CASE m = n BY <1>1, <1>4, <2>1, <4>1, <4>2, <4>3, <4>4, <5>1
        <5>2. CASE m # n
          <6>1. Released(e, u)' > m <=> Released(e, u) > m BY <1>1, <1>4, <4>4, <5>2
          <6> QED BY <2>1, <4>1, <4>2, <4>3, <5>2, <6>1
        <5> QED BY <5>1, <5>2
      <4>5. CASE ~(e = c /\ u = w) BY <1>5, <2>1, <4>1, <4>2, <4>3, <4>5
      <4> QED BY <4>4, <4>5
    <3> QED BY <3>1, <3>2, SameWarps
  <2>3. EmptyCounts' /\ \A d \in Ctas, m \in Nat : Emptied(d, m)' <=> Emptied(d, m)
    BY <1>2, <1>3, <2>2, EmptyStays DEF Exchange
  <2>4. Flying'
    <3>1. \A d \in Ctas, u \in Warps : Stored(d, u) \in Nat /\ Released(d, u) \in Nat BY InOrder
    <3>2. \A d \in Ctas, u \in Warps : Stored(d, u)' \in Nat /\ Stored(d, u) <= Stored(d, u)' BY <1>6, <3>1
    <3>3. \A d \in Ctas, u \in Warps : Released(d, u)' \in Nat /\ Released(d, u) <= Released(d, u)'
      <4> SUFFICES ASSUME NEW d \in Ctas, NEW u \in Warps
                   PROVE Released(d, u)' \in Nat /\ Released(d, u) <= Released(d, u)' OBVIOUS
      <4>1. CASE d = c /\ u = w BY <1>1, <1>4, <4>1
      <4>2. CASE ~(d = c /\ u = w) BY <1>5, <3>1, <4>2
      <4> QED BY <4>1, <4>2
    <3>4. \A m \in flying :
          /\ Clustered'
          /\ m.kind = "store" => Stored(m.from, m.warp)' > m.n /\ m.v \in Values'
          /\ m.kind = "arrive" => launch'.backward /\ Released(m.from, m.warp)' > m.n /\ m.v = 0
      BY <1>3, <3>2, <3>3, FlyingStays DEF Exchange
    <3>5. Clustered' BY <1>3, <1>12, Same
    <3>6. \A m \in Arrivals(c, w) :
          m.kind = "arrive" /\ m.from = c /\ m.warp = w /\ m.n = n /\ m.v = 0
      BY DEF Arrivals, n
    <3>7. \A m \in Arrivals(c, w) :
          m.kind = "arrive" /\ m.kind # "store" /\ Released(m.from, m.warp)' > m.n /\ m.v = 0
      BY <1>1, <1>4, <3>6
    <3> QED BY <1>2, <1>3, <2>1, <3>4, <3>5, <3>7 DEF Flying
  <2>5. SeenFull' /\ AcquiredFree' /\ DoneFree'
    <3>1. \A m \in Nat : Seen(c, w)' > m => Full(c, m) BY <1>4, <1>12 DEF Exchange, SeenFull
    <3>2. \A m \in Nat : Acquired(c, w)' > m + 2 => Emptied(c, m) BY <1>2, <1>4, <1>12 DEF Exchange, AcquiredFree
    <3> QED BY <1>2, <1>9, <2>3, <3>1, <3>2, GoesOn DEF Exchange
  <2>6. Ready' BY <1>2, ReadyStays DEF Exchange
  <2> QED BY <1>9, <1>10, <2>3, <2>4, <2>5, <2>6 DEF Exchange
<1> QED BY <1>11, <1>12

(* So is a store; the warp that arms the barrier finds it in the stage's   *)
(* round before, and in no later one.                                      *)
LEMMA Arming ==
  ASSUME Types, PlacesOK, Exchange, NEW c \in Ctas, PublishCluster(c, 0)
  PROVE LET n == Round(c, 0) IN
        /\ n \in Nat /\ Stored(c, 0) = n /\ ~Full(c, n) /\ (n < 2 \/ Full(c, n - 2))
        /\ full[c] # <<>>
        /\ full'[c][StageOf(n)] = [parity |-> PhaseOf(n), pending |-> 0, tx |-> Armed - Cardinality(Got(c, n))]
        /\ \A d \in Ctas : d # c => full'[d] = full[d]
        /\ \A s \in Stages : s # StageOf(n) => full'[c][s] = full[c][s]
        /\ full' \in [Ctas -> {<<>>} \cup [Stages -> Bar(1)]]
<1> DEFINE n == Round(c, 0)
<1>1. 0 \in Warps /\ launch \in Launches BY Launched DEF Types
<1>2. n \in Nat BY <1>1, WarpIs
<1>3. At(c, 0) = "publish" /\ Clustered BY DEF PublishCluster
<1>4. Stored(c, 0) = n /\ Seen(c, 0) = n
  <2>1. Stored(c, 0) = n + 0 /\ Seen(c, 0) = n + 0 BY <1>3 DEF Stored, Seen, Past, Ended
  <2> QED BY <1>2, <2>1
<1> DEFINE s == StageOf(n)
           b == full[c][s]
<1>5. full' = [full EXCEPT ![c][s] = Hit(full[c][s], 1, 1, Armed)] BY DEF PublishCluster, Types
<1>6. full \in [Ctas -> {<<>>} \cup [Stages -> Bar(1)]] BY DEF Types
<1>7. full[c] # <<>> BY <1>1, <1>3, SetUp DEF Exchange
<1>8. full[c] \in [Stages -> Bar(1)] BY <1>6, <1>7
<1>9. s \in Stages /\ PhaseOf(n) \in {0, 1} BY <1>2, Stage2
<1> HIDE DEF n, s
<1>10. ~Full(c, n) BY <1>1, <1>2, <1>4, FullMeans
<1>11. n < 2 \/ Full(c, n - 2)
  <2>1. ~(n < 2) => n - 2 \in Nat /\ n > n - 2 BY <1>2
  <2> QED BY <1>1, <1>3, <1>4, <2>1 DEF Exchange, SeenFull
<1> DEFINE g == Cardinality(Got(c, n))
<1>12. g \in Nat /\ Armed \in Nat /\ g # Armed
  <2>1. Got(c, n) \in SUBSET Partials BY GotIs
  <2>2. g \in 0..Armed /\ (g = Armed <=> Got(c, n) = Partials) BY <1>1, <2>1, Parts
  <2>3. Armed \in Nat BY <1>1, Counted
  <2> QED BY <1>10, <2>2, <2>3 DEF Full
<1>13. b = [parity |-> PhaseOf(n), pending |-> 1, tx |-> 0 - g]
  <2>1. ~(Stored(c, 0) > n) BY <1>2, <1>4
  <2>2. b = [parity |-> PhaseOf(n), pending |-> IF Stored(c, 0) > n THEN 0 ELSE 1,
             tx |-> (IF Stored(c, 0) > n THEN Armed ELSE 0) - Cardinality(Got(c, n))]
    BY <1>2, <1>3, <1>7, <1>10, <1>11 DEF Exchange, FullCounts, s
  <2> QED BY <2>1, <2>2
<1> HIDE DEF g, b
<1>14. Hit(b, 1, 1, Armed) = [parity |-> PhaseOf(n), pending |-> 0, tx |-> Armed - g]
  <2>1. PICK a : a = Armed OBVIOUS
  <2>2. a \in Nat /\ g \in Nat /\ g # a BY <1>12, <2>1
  <2>3. 0 - g + a = a - g /\ a - g # 0 BY <2>2
  <2>4. [b EXCEPT !.pending = @ - 1, !.tx = @ + a] = [parity |-> PhaseOf(n), pending |-> 0, tx |-> a - g]
    <3>1. b.pending - 1 = 0 /\ b.tx + a = a - g /\ b.parity = PhaseOf(n) BY <1>13, <2>3
    <3>2. PICK t : t = [b EXCEPT !.pending = 0, !.tx = a - g] OBVIOUS
    <3>3. DOMAIN t = {"parity", "pending", "tx"} /\ t.parity = PhaseOf(n) /\ t.pending = 0 /\ t.tx = a - g
      BY <1>13, <3>2
    <3>4. t = [parity |-> PhaseOf(n), pending |-> 0, tx |-> a - g] BY <3>2, <3>3
    <3>5. [b EXCEPT !.pending = @ - 1, !.tx = @ + a] = [b EXCEPT !.pending = 0, !.tx = a - g] BY <3>1
    <3> QED BY <3>2, <3>4, <3>5
  <2> QED BY <2>1, <2>3, <2>4 DEF Hit
<1>15. PICK h : h = [parity |-> PhaseOf(n), pending |-> 0, tx |-> Armed - g] OBVIOUS
<1>16. h \in Bar(1) BY <1>9, <1>12, <1>15 DEF Bar
<1>17. full' = [full EXCEPT ![c][s] = h] BY <1>5, <1>14, <1>15 DEF b
<1>18. full'[c] = [full[c] EXCEPT ![s] = h] BY <1>6, <1>17
<1>19. full'[c][s] = h /\ \A t \in Stages : t # s => full'[c][t] = full[c][t] BY <1>8, <1>9, <1>18
<1>20. \A d \in Ctas : d # c => full'[d] = full[d] BY <1>6, <1>17
<1>21. full' \in [Ctas -> {<<>>} \cup [Stages -> Bar(1)]]
  <2>1. full'[c] \in [Stages -> Bar(1)] BY <1>8, <1>9, <1>16, <1>18
  <2>2. full' = [full EXCEPT ![c] = full'[c]] BY <1>6, <1>17
  <2> QED BY <1>6, <2>1, <2>2
<1> QED BY <1>2, <1>4, <1>7, <1>10, <1>11, <1>15, <1>19, <1>20, <1>21 DEF n, s, g

(* A warp that stores its values in every CTA of the cluster keeps the     *)
(* exchange.                                                               *)
LEMMA ExchangePublish ==
  ASSUME Types, PlacesOK, Exchange, NEW c \in Ctas, NEW w \in Warps, PublishCluster(c, w)
  PROVE Exchange'
<1> DEFINE n == Round(c, w)
           k == warp[c][w].k
<1>1. n \in Nat /\ launch \in Launches /\ launch.backward \in BOOLEAN /\ 0 \in Warps BY WarpIs, Launched DEF Types
<1> HIDE DEF n, k
<1>2. /\ At(c, w) = "publish" /\ Clustered /\ UNCHANGED <<slots, empty>> /\ flying' = flying \cup Stores(c, w)
      /\ w # 0 => full' = full
      /\ Moves(c, w, "wait", n, k)
  BY Moving DEF PublishCluster, n, k
<1>3. launch' = launch BY <1>2 DEF Moves
<1>4. Ctas' = Ctas /\ Warps' = Warps /\ (Clustered' <=> Clustered) /\ Partials' = Partials /\ Armed' = Armed
      /\ Values' = Values
  BY <1>3, Same
<1>5. /\ Stored(c, w) = n /\ Stored(c, w)' = n + 1 /\ Released(c, w) = n /\ Released(c, w)' = n
      /\ Seen(c, w) = n /\ Seen(c, w)' = n /\ Acquired(c, w) = n + 1 /\ Acquired(c, w)' = n + 1
  <2>1. Stored(c, w) = n + 0 /\ Released(c, w) = n + 0 /\ Seen(c, w) = n + 0 /\ Acquired(c, w) = n + 1
    BY <1>2 DEF Stored, Released, Seen, Acquired, Past, Ended, n
  <2>2. "wait" \notin Ended BY DEF Ended
  <2>3. Stored(c, w)' = n + 1 /\ Released(c, w)' = n + 0 /\ Seen(c, w)' = n + 0 /\ Acquired(c, w)' = n + 1
    BY <1>2, <2>2, Counters
  <2> QED BY <1>1, <2>1, <2>3
<1>6. \A d \in Ctas, u \in Warps : d # c \/ u # w =>
        Stored(d, u)' = Stored(d, u) /\ Released(d, u)' = Released(d, u)
  BY <1>2, Counters
<1>7. \A d \in Ctas, u \in Warps : Released(d, u)' = Released(d, u) BY <1>5, <1>6
<1>8. \A m : m \in Stores(c, w) => m.kind = "store" BY DEF Stores
<1>9. ASSUME NEW d \in Ctas, NEW m \in Nat PROVE Got(d, m)' = Got(d, m)
  <2>1. Got(d, m) \in SUBSET Partials /\ Got(d, m)' \in SUBSET Partials BY <1>3, GotIs, GotAfter
  <2>2. ASSUME NEW e \in Ctas, NEW u \in Warps, NEW v \in Values
        PROVE <<<<e, u>>, v>> \in Got(d, m)' <=> <<<<e, u>>, v>> \in Got(d, m)
    <3>1. <<<<e, u>>, v>> \in Got(d, m) <=> Stored(e, u) > m /\ StoreMsg(e, u, d, m, v) \notin flying BY GotIs
    <3>2. <<<<e, u>>, v>> \in Got(d, m)' <=> Stored(e, u)' > m /\ StoreMsg(e, u, d, m, v) \notin flying'
      BY <1>3, GotAfter
    <3>3. StoreMsg(e, u, d, m, v) \in Stores(c, w) <=> e = c /\ u = w /\ m = n
      <4>1. \A r \in Stores(c, w) : r.from = c /\ r.warp = w /\ r.n = n BY DEF Stores, n
      <4>2. StoreMsg(e, u, d, m, v).from = e /\ StoreMsg(e, u, d, m, v).warp = u /\ StoreMsg(e, u, d, m, v).n = m
        BY DEF StoreMsg
      <4>3. StoreMsg(c, w, d, n, v) \in Stores(c, w)
        <5>1. v \in 1..launch.values BY DEF Values
        <5> QED BY <5>1 DEF StoreMsg, Stores, n
      <4> QED BY <4>1, <4>2, <4>3
    <3>4. CASE e = c /\ u = w
      <4>1. CASE m = n BY <1>1, <1>2, <1>5, <3>1, <3>2, <3>3, <3>4, <4>1
      <4>2. CASE m # n
        <5>1. Stored(e, u)' > m <=> Stored(e, u) > m BY <1>1, <1>5, <3>4, <4>2
        <5> QED BY <1>2, <3>1, <3>2, <3>3, <4>2, <5>1
      <4> QED BY <4>1, <4>2
    <3>5. CASE ~(e = c /\ u = w) BY <1>2, <1>6, <3>1, <3>2, <3>3, <3>5
    <3> QED BY <3>4, <3>5
  <2> QED BY <2>1, <2>2, SamePartials
<1>10. ASSUME NEW d \in Ctas, NEW m \in Nat PROVE Arrived(d, m)' = Arrived(d, m)
  <2>1. Arrived(d, m) \in SUBSET (Ctas \X Warps) /\ Arrived(d, m)' \in SUBSET (Ctas \X Warps)
    BY <1>3, ArrivedIs, ArrivedAfter
  <2>2. ASSUME NEW e \in Ctas, NEW u \in Warps PROVE <<e, u>> \in Arrived(d, m)' <=> <<e, u>> \in Arrived(d, m)
    <3>1. <<e, u>> \in Arrived(d, m) <=> Released(e, u) > m /\ ArriveMsg(e, u, d, m) \notin flying BY ArrivedIs
    <3>2. <<e, u>> \in Arrived(d, m)' <=> Released(e, u)' > m /\ ArriveMsg(e, u, d, m) \notin flying'
      BY <1>3, ArrivedAfter
    <3>3. ArriveMsg(e, u, d, m) \notin Stores(c, w) BY <1>8 DEF ArriveMsg
    <3> QED BY <1>2, <1>7, <3>1, <3>2, <3>3
  <2> QED BY <2>1, <2>2, SameWarps
<1>11. \A d \in Ctas, m \in Nat : (Full(d, m)' <=> Full(d, m)) BY <1>4, <1>9 DEF Full
<1>12. Slots' BY <1>2, <1>3, <1>9, SlotsStay DEF Exchange
<1>13. EmptyCounts' /\ (launch.backward => \A d \in Ctas, m \in Nat : Emptied(d, m)' <=> Emptied(d, m))
  BY <1>2, <1>3, <1>10, EmptyStays DEF Exchange
<1>14. Flying'
  <2>1. \A d \in Ctas, u \in Warps : Stored(d, u) \in Nat /\ Released(d, u) \in Nat BY InOrder
  <2>2. \A d \in Ctas, u \in Warps : Stored(d, u)' \in Nat /\ Stored(d, u) <= Stored(d, u)'
    <3> SUFFICES ASSUME NEW d \in Ctas, NEW u \in Warps
                 PROVE Stored(d, u)' \in Nat /\ Stored(d, u) <= Stored(d, u)' OBVIOUS
    <3>1. CASE d = c /\ u = w BY <1>1, <1>5, <3>1
    <3>2. CASE ~(d = c /\ u = w) BY <1>6, <2>1, <3>2
    <3> QED BY <3>1, <3>2
  <2>3. \A d \in Ctas, u \in Warps : Released(d, u)' \in Nat /\ Released(d, u) <= Released(d, u)' BY <1>7, <2>1
  <2>4. \A m \in flying :
        /\ Clustered'
        /\ m.kind = "store" => Stored(m.from, m.warp)' > m.n /\ m.v \in Values'
        /\ m.kind = "arrive" => launch'.backward /\ Released(m.from, m.warp)' > m.n /\ m.v = 0
    BY <1>3, <2>2, <2>3, FlyingStays DEF Exchange
  <2>5. Clustered' BY <1>2, <1>4
  <2>6. \A m \in Stores(c, w) : m.kind = "store" /\ m.from = c /\ m.warp = w /\ m.n = n /\ m.v \in Values
    BY DEF Stores, Values, n
  <2>7. \A m \in Stores(c, w) :
        m.kind = "store" /\ m.kind # "arrive" /\ Stored(m.from, m.warp)' > m.n /\ m.v \in Values'
    BY <1>1, <1>4, <1>5, <2>6
  <2> QED BY <1>2, <1>3, <2>4, <2>5, <2>7 DEF Flying
<1>15. SeenFull' /\ AcquiredFree' /\ DoneFree'
  <2>1. \A m \in Nat : Seen(c, w)' > m => Full(c, m) BY <1>2, <1>5 DEF Exchange, SeenFull
  <2>2. launch.backward => \A m \in Nat : Acquired(c, w)' > m + 2 => Emptied(c, m)
    BY <1>2, <1>5 DEF Exchange, AcquiredFree
  <2> QED BY <1>2, <1>11, <1>13, <2>1, <2>2, GoesOn DEF Exchange
<1>16. CASE w # 0
  <2>1. FullCounts'
    <3>1. \A d \in Ctas : Stored(d, 0)' = Stored(d, 0) BY <1>1, <1>6, <1>16
    <3> QED BY <1>2, <1>3, <1>9, <1>16, <3>1, FullStays DEF Exchange
  <2>2. Ready' BY <1>2, <1>16, ReadyStays DEF Exchange
  <2> QED BY <1>12, <1>13, <1>14, <1>15, <2>1, <2>2 DEF Exchange
<1>17. CASE w = 0
  <2>0. n = Round(c, 0) BY <1>17 DEF n
  <2>1. /\ ~Full(c, n) /\ (n < 2 \/ Full(c, n - 2)) /\ full[c] # <<>> /\ StageOf(n) \in Stages
        /\ full'[c][StageOf(n)] = [parity |-> PhaseOf(n), pending |-> 0, tx |-> Armed - Cardinality(Got(c, n))]
        /\ \A d \in Ctas : d # c => full'[d] = full[d]
        /\ \A s \in Stages : s # StageOf(n) => full'[c][s] = full[c][s]
        /\ full' \in [Ctas -> {<<>>} \cup [Stages -> Bar(1)]]
    BY <1>1, <1>17, <2>0, Arming, Stage2
  <2>2. FullCounts'
    <3>1. ASSUME NEW d \in Ctas, NEW m \in Nat, full'[d] # <<>>, m < 2 \/ Full(d, m - 2)', ~Full(d, m)'
          PROVE full'[d][StageOf(m)] =
                  [parity |-> PhaseOf(m), pending |-> IF Stored(d, 0)' > m THEN 0 ELSE 1,
                   tx |-> (IF Stored(d, 0)' > m THEN Armed ELSE 0) - Cardinality(Got(d, m)')]
      <4>0. Got(d, m)' = Got(d, m) BY <1>9
      <4>1. m < 2 \/ Full(d, m - 2) BY <1>11, <3>1
      <4>2. ~Full(d, m) BY <1>11, <3>1
      <4>3. full[d] # <<>> => full[d][StageOf(m)] =
              [parity |-> PhaseOf(m), pending |-> IF Stored(d, 0) > m THEN 0 ELSE 1,
               tx |-> (IF Stored(d, 0) > m THEN Armed ELSE 0) - Cardinality(Got(d, m))]
        BY <1>2, <4>1, <4>2 DEF Exchange, FullCounts
      <4>4. CASE d # c
        <5>1. Stored(d, 0)' = Stored(d, 0) BY <1>1, <1>6, <4>4
        <5>2. full'[d] = full[d] /\ full[d] # <<>> BY <2>1, <3>1, <4>4
        <5> QED BY <4>0, <4>3, <5>1, <5>2
      <4>5. CASE d = c /\ StageOf(m) # StageOf(n)
        <5>1. m # n BY <4>5
        <5>2. Stored(d, 0)' > m <=> Stored(d, 0) > m BY <1>1, <1>5, <1>17, <4>5, <5>1
        <5>3. StageOf(m) \in Stages BY Stage2
        <5>4. full'[d][StageOf(m)] = full[d][StageOf(m)] /\ full[d] # <<>> BY <2>1, <4>5, <5>3
        <5> QED BY <4>0, <4>3, <5>2, <5>4
      <4>6. CASE d = c /\ m = n
        <5>1. Stored(d, 0)' > m BY <1>1, <1>5, <1>17, <4>6
        <5> QED BY <2>1, <4>0, <4>6, <5>1
      <4>7. CASE d = c /\ StageOf(m) = StageOf(n) /\ m < n
        <5>1. Full(c, m) BY <1>1, <1>2, <1>5, <4>7 DEF Exchange, SeenFull
        <5> QED BY <4>2, <4>7, <5>1
      <4>8. CASE d = c /\ StageOf(m) = StageOf(n) /\ m > n
        <5>1. m >= n + 2 BY <1>1, <4>8, Stage2
        <5>2. m - 2 \in Nat /\ m - 2 >= n BY <1>1, <5>1
        <5>3. Full(c, m - 2) BY <1>1, <4>1, <4>8, <5>1
        <5>4. Stored(c, 0) > m - 2 BY <1>1, <5>2, <5>3, FullMeans
        <5> QED BY <1>1, <1>5, <1>17, <5>2, <5>4
      <4> QED BY <1>1, <4>4, <4>5, <4>6, <4>7, <4>8
    <3> QED BY <1>4, <3>1 DEF FullCounts, StageOf, PhaseOf
  <2>3. Ready'
    <3>1. At(c, w)' = "wait" /\ \A d \in Ctas, u \in Warps : d # c \/ u # w => At(d, u)' = At(d, u)
      BY <1>2, Counters
    <3>2. \A d \in Ctas, u \in Warps : At(d, u) # "setup" BY <1>2, SetUp DEF Exchange
    <3>3. \A d \in Ctas, u \in Warps : At(d, u)' # "setup" BY <3>1, <3>2
    <3>4. \A d \in Ctas : full[d] # <<>> /\ empty[d] # <<>> BY <1>1, <3>2 DEF Exchange, Ready
    <3>5. full'[c] # <<>>
      <4>1. full'[c] = <<>> => DOMAIN full'[c] = {} OBVIOUS
      <4>2. full \in [Ctas -> {<<>>} \cup [Stages -> Bar(1)]] BY DEF Types
      <4>3. full' = [full EXCEPT ![c][StageOf(n)] = Hit(full[c][StageOf(n)], 1, 1, Armed)]
        BY <1>17, <4>2 DEF PublishCluster, n
      <4>4. DOMAIN full'[c] = DOMAIN full[c] BY <4>2, <4>3
      <4>5. DOMAIN full[c] = Stages BY <2>1, <4>2
      <4> QED BY <4>1, <4>4, <4>5 DEF Stages
    <3>6. \A d \in Ctas : full'[d] # <<>> BY <2>1, <3>4, <3>5
    <3> QED BY <1>1, <1>2, <1>4, <3>3, <3>4, <3>6 DEF Ready
  <2> QED BY <1>12, <1>13, <1>14, <1>15, <2>2, <2>3 DEF Exchange
<1> QED BY <1>16, <1>17

(* A warp that stores its values keeps the types.                          *)
LEMMA TypesPublish ==
  ASSUME Types, PlacesOK, Exchange, NEW c \in Ctas, NEW w \in Warps, PublishCluster(c, w)
  PROVE Types'
<1>1. /\ UNCHANGED <<launch, slots, empty, met, tile, fetched, freed, loading, scratch>>
      /\ flying' = flying \cup Stores(c, w)
      /\ w # 0 => full' = full
  BY DEF PublishCluster, ring
<1>2. warp' \in [Ctas -> [Warps -> Place]]
  <2>1. \E at, n, k : Moves(c, w, at, n, k) BY Moving
  <2> QED BY <2>1 DEF Moves
<1>3. /\ Ctas' = Ctas /\ Warps' = Warps /\ TileStages' = TileStages /\ Values' = Values /\ Message' = Message
      /\ Releases' = Releases
  BY <1>1, Same
<1>4. full' \in [Ctas -> {<<>>} \cup [Stages -> Bar(1)]]
  <2>1. CASE w # 0 BY <1>1, <2>1 DEF Types
  <2>2. CASE w = 0 BY <2>2, Arming
  <2> QED BY <2>1, <2>2
<1>5. Stores(c, w) \in SUBSET Message
  <2>1. Round(c, w) \in Nat /\ launch.values \in Nat \ {0} BY WarpIs, Launched DEF Types
  <2>2. \A v \in 1..launch.values : v \in 0..launch.values BY <2>1
  <2> QED BY <2>1, <2>2 DEF Stores, Message
<1> QED BY <1>1, <1>2, <1>3, <1>4, <1>5 DEF Types, Place

-----------------------------------------------------------------------------
(* What a hit does to a barrier.                                           *)
LEMMA HitIs ==
  ASSUME NEW p, NEW q \in Int, NEW t \in Int, NEW count, NEW arrivals \in Int, NEW bytes \in Int,
         NEW b, b = [parity |-> p, pending |-> q, tx |-> t]
  PROVE Hit(b, count, arrivals, bytes) =
          IF q - arrivals = 0 /\ t + bytes = 0 THEN [parity |-> 1 - p, pending |-> count, tx |-> 0]
          ELSE [parity |-> p, pending |-> q - arrivals, tx |-> t + bytes]
<1>1. PICK x : x = q - arrivals OBVIOUS
<1>2. PICK y : y = t + bytes OBVIOUS
<1>3. PICK z : z = 1 - p OBVIOUS
<1>4. [b EXCEPT !.pending = @ - arrivals, !.tx = @ + bytes] = [parity |-> p, pending |-> x, tx |-> y]
  <2>1. b.pending - arrivals = x /\ b.tx + bytes = y BY <1>1, <1>2
  <2>2. PICK s : s = [b EXCEPT !.pending = x, !.tx = y] OBVIOUS
  <2>3. DOMAIN s = {"parity", "pending", "tx"} /\ s.parity = p /\ s.pending = x /\ s.tx = y BY <2>2
  <2>4. s = [parity |-> p, pending |-> x, tx |-> y] BY <2>2, <2>3
  <2>5. [b EXCEPT !.pending = @ - arrivals, !.tx = @ + bytes] = [b EXCEPT !.pending = x, !.tx = y] BY <2>1
  <2> QED BY <2>2, <2>4, <2>5
<1>5. [Fresh(count) EXCEPT !.parity = 1 - b.parity] = [parity |-> z, pending |-> count, tx |-> 0]
  <2>1. 1 - b.parity = z BY <1>3
  <2>2. PICK s : s = [Fresh(count) EXCEPT !.parity = z] OBVIOUS
  <2>3. DOMAIN s = {"parity", "pending", "tx"} /\ s.parity = z /\ s.pending = count /\ s.tx = 0
    BY <2>2 DEF Fresh
  <2>4. s = [parity |-> z, pending |-> count, tx |-> 0] BY <2>2, <2>3 DEF Fresh
  <2> QED BY <2>1, <2>2, <2>4
<1> DEFINE h == [parity |-> p, pending |-> x, tx |-> y]
<1>6. h.pending = x /\ h.tx = y OBVIOUS
<1>7. Hit(b, count, arrivals, bytes) = IF x = 0 /\ y = 0 THEN [parity |-> z, pending |-> count, tx |-> 0] ELSE h
  BY <1>4, <1>5, <1>6 DEF Hit
<1> QED BY <1>1, <1>2, <1>3, <1>7

(* A barrier of a CTA after a hit.                                         *)
LEMMA HitOne ==
  ASSUME NEW A, NEW B, NEW R, NEW T, [B -> R] \subseteq T, NEW f \in [A -> T], NEW c \in A, NEW s \in B,
         f[c] \in [B -> R], NEW h \in R, NEW g, g = [f EXCEPT ![c][s] = h]
  PROVE /\ g \in [A -> T] /\ g[c] \in [B -> R] /\ g[c][s] = h
        /\ \A d \in A : d # c => g[d] = f[d]
        /\ \A t \in B : t # s => g[c][t] = f[c][t]
<1>1. g[c] = [f[c] EXCEPT ![s] = h] OBVIOUS
<1>2. g[c] \in [B -> R] /\ g[c][s] = h /\ \A t \in B : t # s => g[c][t] = f[c][t] BY <1>1
<1>3. \A d \in A : d # c => g[d] = f[d] OBVIOUS
<1>4. g = [f EXCEPT ![c] = g[c]] BY <1>1
<1>5. g \in [A -> T] BY <1>2, <1>4
<1> QED BY <1>2, <1>3, <1>5

(* A message that is on its way.                                           *)
LEMMA OnItsWay ==
  ASSUME Types, PlacesOK, Exchange, NEW m \in flying
  PROVE /\ Clustered /\ m.from \in Ctas /\ m.warp \in Warps /\ m.to \in Ctas /\ m.n \in Nat
        /\ m.kind \in {"store", "arrive"}
        /\ m.kind = "store" => /\ m = StoreMsg(m.from, m.warp, m.to, m.n, m.v) /\ m.v \in Values
                               /\ Stored(m.from, m.warp) > m.n
        /\ m.kind = "arrive" => /\ m = ArriveMsg(m.from, m.warp, m.to, m.n) /\ launch.backward
                                /\ Released(m.from, m.warp) > m.n
        /\ full[m.to] \in [Stages -> Bar(1)] /\ empty[m.to] \in [Stages -> Bar(Releases)]
        /\ full[m.to] # <<>> /\ empty[m.to] # <<>>
<1>1. m \in Message BY DEF Types
<1>2. /\ m.kind \in {"store", "arrive"} /\ m.from \in Ctas /\ m.warp \in Warps /\ m.to \in Ctas /\ m.n \in Nat
      /\ m = [kind |-> m.kind, from |-> m.from, warp |-> m.warp, to |-> m.to, n |-> m.n, v |-> m.v]
  BY <1>1 DEF Message
<1>3. /\ Clustered
      /\ m.kind = "store" => Stored(m.from, m.warp) > m.n /\ m.v \in Values
      /\ m.kind = "arrive" => launch.backward /\ Released(m.from, m.warp) > m.n /\ m.v = 0
  BY DEF Exchange, Flying
<1>4. m.kind = "store" => m = StoreMsg(m.from, m.warp, m.to, m.n, m.v) BY <1>2 DEF StoreMsg
<1>5. m.kind = "arrive" => m = ArriveMsg(m.from, m.warp, m.to, m.n) BY <1>2, <1>3 DEF ArriveMsg
<1>6. Stored(m.from, m.warp) > m.n
  <2>1. /\ Stored(m.from, m.warp) \in Nat /\ Seen(m.from, m.warp) \in Nat /\ Released(m.from, m.warp) \in Nat
        /\ Released(m.from, m.warp) <= Seen(m.from, m.warp) /\ Seen(m.from, m.warp) <= Stored(m.from, m.warp)
    BY <1>2, InOrder
  <2> QED BY <1>2, <1>3, <2>1
<1>7. At(m.from, m.warp) \notin {"setup", "load", "join"}
  <2> SUFFICES ASSUME At(m.from, m.warp) \in {"setup", "load", "join"} PROVE FALSE OBVIOUS
  <2>1. Round(m.from, m.warp) = 0 BY <1>2 DEF PlacesOK, PlaceOK
  <2>2. Stored(m.from, m.warp) = 0 BY <2>1 DEF Stored, Past, Ended
  <2> QED BY <1>2, <1>6, <2>2
<1>8. full[m.to] # <<>> /\ empty[m.to] # <<>> BY <1>2, <1>3, <1>7, SetUp DEF Exchange
<1>9. full[m.to] \in [Stages -> Bar(1)] /\ empty[m.to] \in [Stages -> Bar(Releases)] BY <1>2, <1>8 DEF Types
<1> QED BY <1>2, <1>3, <1>4, <1>5, <1>8, <1>9

(* A store of a round finds its CTA's barrier through the round before     *)
(* and not through this one.                                               *)
LEMMA StoreInTime ==
  ASSUME Types, PlacesOK, Exchange, NEW m \in flying, m.kind = "store"
  PROVE LET c == m.to
            n == m.n
            x == <<<<m.from, m.warp>>, m.v>> IN
        /\ x \in Partials \ Got(c, n) /\ ~Full(c, n)
        /\ \A i \in Nat : i < n /\ StageOf(i) = StageOf(n) => Full(c, i)
        /\ n < 2 \/ Full(c, n - 2)
        /\ \A d \in Ctas, u \in Warps : ~(Stored(d, u) > n + 2)
<1> DEFINE c == m.to
           n == m.n
           x == <<<<m.from, m.warp>>, m.v>>
<1>1. /\ Clustered /\ m.from \in Ctas /\ m.warp \in Warps /\ c \in Ctas /\ n \in Nat
      /\ m = StoreMsg(m.from, m.warp, c, n, m.v) /\ m.v \in Values /\ Stored(m.from, m.warp) > n
  BY OnItsWay
<1> HIDE DEF c, n
<1>2. x \in Partials BY <1>1 DEF Partials
<1>3. x \notin Got(c, n) BY <1>1, GotIs
<1>4. ~Full(c, n) BY <1>2, <1>3 DEF Full
<1>5. ASSUME NEW i \in Nat, i < n, StageOf(i) = StageOf(n) PROVE Full(c, i)
  <2>1. i + 2 <= n BY <1>1, <1>5, Stage2
  <2>2. Stored(m.from, m.warp) \in Nat BY <1>1, InOrder
  <2>3. Stored(m.from, m.warp) > i + 2 BY <1>1, <2>1, <2>2
  <2> QED BY <1>1, <2>3, StoredNext
<1>6. n < 2 \/ Full(c, n - 2)
  <2>1. CASE ~(n < 2)
    <3>1. n - 2 \in Nat /\ n - 2 < n /\ (n - 2) + 2 = n BY <1>1, <2>1
    <3>2. StageOf(n - 2) = StageOf(n)
      <4>1. PICK j \in Nat : j = n - 2 /\ j + 2 = n BY <3>1
      <4>2. StageOf(j + 2) = StageOf(j) BY Stage2
      <4> QED BY <4>1, <4>2
    <3> QED BY <1>5, <3>1, <3>2
  <2> QED BY <2>1
<1>7. \A d \in Ctas, u \in Warps : ~(Stored(d, u) > n + 2) BY <1>1, <1>4, StoredNext
<1> QED BY <1>2, <1>3, <1>4, <1>5, <1>6, <1>7 DEF c, n

(* An arrival on its way is of a round its CTA waits for, and the first    *)
(* of its stage.                                                           *)
LEMMA ArriveInTime ==
  ASSUME Types, PlacesOK, Exchange, NEW m \in flying, m.kind = "arrive"
  PROVE LET c == m.to
            n == m.n
            x == <<m.from, m.warp>> IN
        /\ x \in (Ctas \X Warps) \ Arrived(c, n) /\ ~Emptied(c, n)
        /\ \A i \in Nat : i < n /\ StageOf(i) = StageOf(n) => Emptied(c, i)
        /\ n < 2 \/ Emptied(c, n - 2)
        /\ \A d \in Ctas, u \in Warps : ~(Released(d, u) > n + 2)
<1> DEFINE c == m.to
           n == m.n
           x == <<m.from, m.warp>>
<1>1. /\ Clustered /\ m.from \in Ctas /\ m.warp \in Warps /\ c \in Ctas /\ n \in Nat /\ launch.backward
      /\ m = ArriveMsg(m.from, m.warp, c, n) /\ Released(m.from, m.warp) > n
  BY OnItsWay
<1> HIDE DEF c, n
<1>2. x \in Ctas \X Warps BY <1>1
<1>3. x \notin Arrived(c, n) BY <1>1, ArrivedIs
<1>4. ~Emptied(c, n) BY <1>2, <1>3 DEF Emptied
<1>5. ASSUME NEW i \in Nat, i < n, StageOf(i) = StageOf(n) PROVE Emptied(c, i)
  <2>1. i + 2 <= n BY <1>1, <1>5, Stage2
  <2>2. Released(m.from, m.warp) \in Nat BY <1>1, InOrder
  <2>3. Released(m.from, m.warp) > i + 2 BY <1>1, <2>1, <2>2
  <2> QED BY <1>1, <2>3, ReleasedNext
<1>6. n < 2 \/ Emptied(c, n - 2)
  <2>1. CASE ~(n < 2)
    <3>1. n - 2 \in Nat /\ n - 2 < n /\ (n - 2) + 2 = n BY <1>1, <2>1
    <3>2. StageOf(n - 2) = StageOf(n)
      <4>1. PICK j \in Nat : j = n - 2 /\ j + 2 = n BY <3>1
      <4>2. StageOf(j + 2) = StageOf(j) BY Stage2
      <4> QED BY <4>1, <4>2
    <3> QED BY <1>5, <3>1, <3>2
  <2> QED BY <2>1
<1>7. \A d \in Ctas, u \in Warps : ~(Released(d, u) > n + 2) BY <1>1, <1>4, ReleasedNext
<1> QED BY <1>2, <1>3, <1>4, <1>5, <1>6, <1>7 DEF c, n

(* A step of the memory moves no warp.                                     *)
LEMMA Still ==
  ASSUME launch' = launch, warp' = warp
  PROVE \A c, w : /\ At(c, w)' = At(c, w) /\ Round(c, w)' = Round(c, w)
                  /\ Acquired(c, w)' = Acquired(c, w) /\ Stored(c, w)' = Stored(c, w)
                  /\ Seen(c, w)' = Seen(c, w) /\ Released(c, w)' = Released(c, w)
<1>1. \A c, w : At(c, w)' = At(c, w) /\ Round(c, w)' = Round(c, w) BY DEF At, Round
<1>2. Ended' = Ended BY Same
<1> QED BY <1>1, <1>2 DEF Acquired, Stored, Seen, Released, Past

(* A store that is performed adds itself to what has come, and nothing     *)
(* else.                                                                   *)
LEMMA StoreGot ==
  ASSUME Types, PlacesOK, Exchange, NEW m \in flying, m.kind = "store", launch' = launch, warp' = warp,
         flying' = flying \ {m}
  PROVE /\ \A d \in Ctas, i \in Nat :
             Got(d, i)' = IF d = m.to /\ i = m.n THEN Got(d, i) \cup {<<<<m.from, m.warp>>, m.v>>} ELSE Got(d, i)
        /\ \A d \in Ctas, i \in Nat : Arrived(d, i)' = Arrived(d, i)
        /\ \A d \in Ctas, i \in Nat : Full(d, i) => Full(d, i)'
        /\ \A d \in Ctas, i \in Nat : d # m.to \/ i # m.n => (Full(d, i)' <=> Full(d, i))
<1> DEFINE x == <<<<m.from, m.warp>>, m.v>>
<1>1. /\ m.from \in Ctas /\ m.warp \in Warps /\ m.to \in Ctas /\ m.n \in Nat /\ m.v \in Values
      /\ m = StoreMsg(m.from, m.warp, m.to, m.n, m.v) /\ Stored(m.from, m.warp) > m.n
  BY OnItsWay
<1>2. \A c, w : Stored(c, w)' = Stored(c, w) /\ Released(c, w)' = Released(c, w) BY Still
<1>3. Partials' = Partials BY Same
<1>4. x \in Partials BY <1>1 DEF Partials
<1>5. ASSUME NEW d \in Ctas, NEW i \in Nat
      PROVE Got(d, i)' = IF d = m.to /\ i = m.n THEN Got(d, i) \cup {x} ELSE Got(d, i)
  <2>1. Got(d, i) \in SUBSET Partials /\ Got(d, i)' \in SUBSET Partials /\ Got(d, i) \cup {x} \in SUBSET Partials
    BY <1>4, GotIs, GotAfter
  <2>2. ASSUME NEW e \in Ctas, NEW u \in Warps, NEW v \in Values
        PROVE <<<<e, u>>, v>> \in Got(d, i)' <=>
                (<<<<e, u>>, v>> \in Got(d, i) \/ (d = m.to /\ i = m.n /\ <<<<e, u>>, v>> = x))
    <3>1. <<<<e, u>>, v>> \in Got(d, i) <=> Stored(e, u) > i /\ StoreMsg(e, u, d, i, v) \notin flying BY GotIs
    <3>2. <<<<e, u>>, v>> \in Got(d, i)' <=> Stored(e, u)' > i /\ StoreMsg(e, u, d, i, v) \notin flying'
      BY GotAfter
    <3>3. StoreMsg(e, u, d, i, v) = m <=> e = m.from /\ u = m.warp /\ d = m.to /\ i = m.n /\ v = m.v
      <4>1. StoreMsg(e, u, d, i, v) = m => e = m.from /\ u = m.warp /\ d = m.to /\ i = m.n /\ v = m.v
        BY DEF StoreMsg
      <4> QED BY <1>1, <4>1
    <3>4. <<<<e, u>>, v>> = x <=> e = m.from /\ u = m.warp /\ v = m.v OBVIOUS
    <3> HIDE DEF x
    <3>5. CASE StoreMsg(e, u, d, i, v) = m BY <1>1, <1>2, <3>1, <3>2, <3>3, <3>4, <3>5
    <3>6. CASE StoreMsg(e, u, d, i, v) # m BY <1>2, <3>1, <3>2, <3>3, <3>4, <3>6
    <3> QED BY <3>5, <3>6
  <2> HIDE DEF x
  <2>3. CASE d = m.to /\ i = m.n
    <3>1. PICK X : X = Got(d, i) \cup {x} OBVIOUS
    <3>2. X \in SUBSET Partials BY <2>1, <2>3, <3>1
    <3>3. \A e \in Ctas, u \in Warps, v \in Values : <<<<e, u>>, v>> \in Got(d, i)' <=> <<<<e, u>>, v>> \in X
      BY <2>2, <2>3, <3>1
    <3>4. Got(d, i)' = X BY <2>1, <3>2, <3>3, SamePartials
    <3> QED BY <2>3, <3>1, <3>4
  <2>4. CASE ~(d = m.to /\ i = m.n) BY <2>1, <2>2, <2>4, SamePartials
  <2> QED BY <2>3, <2>4
<1> HIDE DEF x
<1>6. ASSUME NEW d \in Ctas, NEW i \in Nat PROVE Arrived(d, i)' = Arrived(d, i)
  <2>1. Arrived(d, i) \in SUBSET (Ctas \X Warps) /\ Arrived(d, i)' \in SUBSET (Ctas \X Warps)
    BY ArrivedIs, ArrivedAfter
  <2>2. ASSUME NEW e \in Ctas, NEW u \in Warps PROVE <<e, u>> \in Arrived(d, i)' <=> <<e, u>> \in Arrived(d, i)
    <3>1. <<e, u>> \in Arrived(d, i) <=> Released(e, u) > i /\ ArriveMsg(e, u, d, i) \notin flying BY ArrivedIs
    <3>2. <<e, u>> \in Arrived(d, i)' <=> Released(e, u)' > i /\ ArriveMsg(e, u, d, i) \notin flying'
      BY ArrivedAfter
    <3>3. ArriveMsg(e, u, d, i) # m
      <4>1. ArriveMsg(e, u, d, i).kind = "arrive" BY DEF ArriveMsg
      <4> QED BY <4>1
    <3> QED BY <1>2, <3>1, <3>2, <3>3
  <2> QED BY <2>1, <2>2, SameWarps
<1>7. \A d \in Ctas, i \in Nat : d # m.to \/ i # m.n => (Full(d, i)' <=> Full(d, i)) BY <1>3, <1>5 DEF Full
<1>8. \A d \in Ctas, i \in Nat : Full(d, i) => Full(d, i)'
  <2>1. ~Full(m.to, m.n) BY StoreInTime
  <2> QED BY <1>7, <2>1
<1> QED BY <1>5, <1>6, <1>7, <1>8 DEF x

(* The barrier a store credits.                                            *)
LEMMA StoreHits ==
  ASSUME Types, PlacesOK, Exchange, NEW m \in flying, m.kind = "store", launch' = launch, warp' = warp,
         flying' = flying \ {m}, full' = [full EXCEPT ![m.to][StageOf(m.n)] = Hit(@, 1, 0, -1)]
  PROVE LET c == m.to
            n == m.n
            s == StageOf(n) IN
        /\ full'[c][s] = IF Full(c, n)' THEN [parity |-> 1 - PhaseOf(n), pending |-> 1, tx |-> 0]
                         ELSE [parity |-> PhaseOf(n), pending |-> IF Stored(c, 0) > n THEN 0 ELSE 1,
                               tx |-> (IF Stored(c, 0) > n THEN Armed ELSE 0) - Cardinality(Got(c, n)')]
        /\ full' \in [Ctas -> {<<>>} \cup [Stages -> Bar(1)]] /\ full'[c] # <<>>
        /\ \A d \in Ctas : d # c => full'[d] = full[d]
        /\ \A t \in Stages : t # s => full'[c][t] = full[c][t]
<1> DEFINE c == m.to
           n == m.n
           s == StageOf(n)
           x == <<<<m.from, m.warp>>, m.v>>
<1>1. /\ Clustered /\ c \in Ctas /\ n \in Nat /\ full[c] \in [Stages -> Bar(1)] /\ full[c] # <<>>
  BY OnItsWay
<1>2. x \in Partials \ Got(c, n) /\ ~Full(c, n) /\ (n < 2 \/ Full(c, n - 2)) BY StoreInTime
<1>3. Got(c, n)' = Got(c, n) \cup {x} BY <1>1, StoreGot
<1>4. full' = [full EXCEPT ![c][s] = Hit(full[c][s], 1, 0, -1)] BY DEF Types
<1>5. launch \in Launches /\ 0 \in Warps BY Launched DEF Types
<1> HIDE DEF c, n, x
<1>6. s \in Stages /\ PhaseOf(n) \in {0, 1} BY <1>1, Stage2
<1> DEFINE q == IF Stored(c, 0) > n THEN 0 ELSE 1
           a == IF Stored(c, 0) > n THEN Armed ELSE 0
           g == Cardinality(Got(c, n))
<1>7. full[c][s] = [parity |-> PhaseOf(n), pending |-> q, tx |-> a - g]
  BY <1>1, <1>2 DEF Exchange, FullCounts
<1>8. Armed \in Nat \ {0} /\ g \in 0..Armed /\ Got(c, n) \in SUBSET Partials
  <2>1. Got(c, n) \in SUBSET Partials BY GotIs
  <2>2. Armed \in Nat \ {0} BY <1>5, Counted
  <2> QED BY <1>5, <2>1, <2>2, Parts
<1>9. Cardinality(Got(c, n)') = g + 1 BY <1>2, <1>3, <1>5, <1>8, Parts
<1>10. Full(c, n)' <=> g + 1 = Armed
  <2>1. Got(c, n)' \in SUBSET Partials BY GotAfter
  <2>2. Cardinality(Got(c, n)') = Armed <=> Got(c, n)' = Partials BY <1>5, <2>1, Parts
  <2>3. Partials' = Partials BY Same
  <2> QED BY <1>9, <2>2, <2>3 DEF Full
<1>11. Full(c, n)' => Stored(c, 0) > n
  <2> SUFFICES ASSUME Full(c, n)' PROVE Stored(c, 0) > n OBVIOUS
  <2>1. 1 \in Values BY Launched DEF Types, Values
  <2>2. <<<<c, 0>>, 1>> \in Partials BY <1>1, <1>5, <2>1 DEF Partials
  <2>3. Partials' = Partials BY Same
  <2>4. <<<<c, 0>>, 1>> \in Got(c, n)' BY <2>2, <2>3 DEF Full
  <2>5. Stored(c, 0)' > n BY <1>1, <1>5, <2>1, <2>4, GotAfter
  <2> QED BY <2>5, Still
<1> HIDE DEF s, g
<1>12. q \in Int /\ a \in Int /\ q \in 0..1 BY <1>8
<1> HIDE DEF q, a
<1>13. a - g \in Int BY <1>8, <1>12
<1>14. Hit(full[c][s], 1, 0, -1) =
         IF q - 0 = 0 /\ (a - g) + (-1) = 0 THEN [parity |-> 1 - PhaseOf(n), pending |-> 1, tx |-> 0]
         ELSE [parity |-> PhaseOf(n), pending |-> q - 0, tx |-> (a - g) + (-1)]
  BY <1>7, <1>12, <1>13, HitIs
<1>15. q - 0 = q /\ (a - g) + (-1) = a - (g + 1) BY <1>8, <1>12
<1>16. (q = 0 /\ a - (g + 1) = 0) <=> Full(c, n)'
  <2>1. CASE Stored(c, 0) > n
    <3>1. q = 0 /\ a = Armed BY <2>1 DEF q, a
    <3>2. a - (g + 1) = 0 <=> g + 1 = Armed
      <4>1. PICK r : r = Armed OBVIOUS
      <4>2. r \in Nat /\ g \in 0..r BY <1>8, <4>1
      <4>3. r - (g + 1) = 0 <=> g + 1 = r BY <4>2
      <4> QED BY <3>1, <4>1, <4>3
    <3> QED BY <1>10, <3>1, <3>2
  <2>2. CASE ~(Stored(c, 0) > n)
    <3>1. q = 1 BY <2>2 DEF q
    <3> QED BY <1>11, <2>2, <3>1
  <2> QED BY <2>1, <2>2
<1> DEFINE h == IF Full(c, n)' THEN [parity |-> 1 - PhaseOf(n), pending |-> 1, tx |-> 0]
                ELSE [parity |-> PhaseOf(n), pending |-> q, tx |-> a - (g + 1)]
<1>17. Hit(full[c][s], 1, 0, -1) = h BY <1>14, <1>15, <1>16
<1>18. h \in Bar(1)
  <2>1. 1 - PhaseOf(n) \in {0, 1} BY <1>6
  <2>2. a - (g + 1) \in Int BY <1>8, <1>12
  <2> QED BY <1>6, <1>12, <2>1, <2>2 DEF Bar
<1> HIDE DEF h
<1>19. full' = [full EXCEPT ![c][s] = h] BY <1>4, <1>17 DEF s
<1>20. full \in [Ctas -> {<<>>} \cup [Stages -> Bar(1)]] BY DEF Types
<1>21. s \in Stages BY <1>6 DEF s
<1>22. /\ full' \in [Ctas -> {<<>>} \cup [Stages -> Bar(1)]] /\ full'[c] \in [Stages -> Bar(1)] /\ full'[c][s] = h
       /\ \A d \in Ctas : d # c => full'[d] = full[d]
       /\ \A t \in Stages : t # s => full'[c][t] = full[c][t]
  <2>1. PICK T : T = {<<>>} \cup [Stages -> Bar(1)] OBVIOUS
  <2>2. full \in [Ctas -> T] /\ [Stages -> Bar(1)] \subseteq T BY <1>20, <2>1
  <2>3. PICK f : f = full OBVIOUS
  <2>4. PICK R : R = Bar(1) OBVIOUS
  <2>5. PICK k : k = full' OBVIOUS
  <2>6. f \in [Ctas -> T] /\ [Stages -> R] \subseteq T /\ f[c] \in [Stages -> R] /\ h \in R
        /\ k = [f EXCEPT ![c][s] = h]
    BY <1>1, <1>18, <1>19, <2>2, <2>3, <2>4, <2>5
  <2>7. /\ k \in [Ctas -> T] /\ k[c] \in [Stages -> R] /\ k[c][s] = h
        /\ \A d \in Ctas : d # c => k[d] = f[d]
        /\ \A t \in Stages : t # s => k[c][t] = f[c][t]
    BY <1>1, <1>21, <2>6, HitOne
  <2> QED BY <2>1, <2>3, <2>4, <2>5, <2>7
<1>23. full'[c] # <<>>
  <2>1. DOMAIN full'[c] = {0, 1} /\ DOMAIN <<>> = {} BY <1>22 DEF Stages
  <2> QED BY <2>1
<1> QED BY <1>9, <1>22, <1>23 DEF c, n, s, h, q, a

(* Writing one element of a function, and of one four deep.                *)
LEMMA Put ==
  ASSUME NEW D, NEW R, NEW f \in [D -> R], NEW a \in D, NEW b \in R
  PROVE \A g : g = [f EXCEPT ![a] = b] =>
          g \in [D -> R] /\ g[a] = b /\ \A x \in D : x # a => g[x] = f[x]
OBVIOUS

IsPut4(g, f, C, S, V, Y, R, c, s, v, y, n) ==
  /\ f \in [C -> [S -> [V -> [Y -> R]]]] /\ c \in C /\ s \in S /\ v \in V /\ y \in Y /\ n \in R
  /\ g = [f EXCEPT ![c][s][v][y] = n]
LEMMA Put4 ==
  ASSUME NEW g, NEW f, NEW C, NEW S, NEW V, NEW Y, NEW R, NEW c, NEW s, NEW v, NEW y, NEW n,
         IsPut4(g, f, C, S, V, Y, R, c, s, v, y, n)
  PROVE /\ g \in [C -> [S -> [V -> [Y -> R]]]]
        /\ \A d \in C, t \in S, u \in V, z \in Y :
             g[d][t][u][z] = IF d = c /\ t = s /\ u = v /\ z = y THEN n ELSE f[d][t][u][z]
<1>0. /\ f \in [C -> [S -> [V -> [Y -> R]]]] /\ c \in C /\ s \in S /\ v \in V /\ y \in Y /\ n \in R
      /\ g = [f EXCEPT ![c][s][v][y] = n]
  BY DEF IsPut4
<1>1. PICK U : U = [V -> [Y -> R]] OBVIOUS
<1>2. f[c] \in [S -> U] /\ f[c][s] \in U /\ f[c][s][v] \in [Y -> R] BY <1>0, <1>1
<1>3. PICK p : p = [f[c][s][v] EXCEPT ![y] = n] OBVIOUS
<1>4. PICK q : q = [f[c][s] EXCEPT ![v] = p] OBVIOUS
<1>5. PICK r : r = [f[c] EXCEPT ![s] = q] OBVIOUS
<1>6. p \in [Y -> R] /\ p[y] = n /\ \A z \in Y : z # y => p[z] = f[c][s][v][z] BY <1>0, <1>2, <1>3, Put
<1>7. q \in U /\ q[v] = p /\ \A u \in V : u # v => q[u] = f[c][s][u] BY <1>0, <1>1, <1>2, <1>4, <1>6, Put
<1>8. r \in [S -> U] /\ r[s] = q /\ \A t \in S : t # s => r[t] = f[c][t] BY <1>0, <1>2, <1>5, <1>7, Put
<1>9. g = [f EXCEPT ![c] = r] BY <1>0, <1>3, <1>4, <1>5
<1>10. g \in [C -> [S -> U]] /\ g[c] = r /\ \A d \in C : d # c => g[d] = f[d] BY <1>0, <1>1, <1>8, <1>9, Put
<1>11. ASSUME NEW d \in C, NEW t \in S, NEW u \in V, NEW z \in Y
       PROVE g[d][t][u][z] = IF d = c /\ t = s /\ u = v /\ z = y THEN n ELSE f[d][t][u][z]
  <2>1. CASE d # c BY <1>10, <2>1
  <2>2. CASE d = c /\ t # s BY <1>8, <1>10, <2>2
  <2>3. CASE d = c /\ t = s /\ u # v BY <1>7, <1>8, <1>10, <2>3
  <2>4. CASE d = c /\ t = s /\ u = v BY <1>6, <1>7, <1>8, <1>10, <2>4
  <2> QED BY <2>1, <2>2, <2>3, <2>4
<1> QED BY <1>1, <1>10, <1>11

(* Value z of round n of warp b of CTA a is written into c, nothing else.  *)
Written(a, b, c, n, z) ==
  \A d, e \in Ctas, u \in Warps, v \in Values, t \in Stages :
    slots'[d][t][v][<<u, e>>] =
      IF d = c /\ t = StageOf(n) /\ v = z /\ u = b /\ e = a THEN n ELSE slots[d][t][v][<<u, e>>]
Gains(a, b, c, n, z) ==
  \A d \in Ctas, i \in Nat :
    Got(d, i)' = IF d = c /\ i = n THEN Got(d, i) \cup {<<<<a, b>>, z>>} ELSE Got(d, i)
InTurn(a, b, c, n, z) ==
  /\ <<<<a, b>>, z>> \in Partials /\ ~(Stored(a, b) > n + 2)
  /\ \A i \in Nat : i < n /\ StageOf(i) = StageOf(n) => Full(c, i)

(* A store of a round takes the place of the one two before, and of none   *)
(* that came after it.                                                     *)
LEMMA SlotsStored ==
  ASSUME Types, PlacesOK, Slots, Clustered, launch' = launch,
         NEW c \in Ctas, NEW n \in Nat, NEW a \in Ctas, NEW b \in Warps, NEW z \in Values,
         Written(a, b, c, n, z), Gains(a, b, c, n, z), InTurn(a, b, c, n, z)
  PROVE Slots'
<1>1. Ctas' = Ctas /\ Warps' = Warps /\ Values' = Values /\ (Exchanges' <=> Exchanges) BY Same
<1>2. Exchanges BY DEF Exchanges
<1>3. ASSUME NEW d \in Ctas, NEW e \in Ctas, NEW u \in Warps, NEW v \in Values, NEW i \in Nat,
             <<<<e, u>>, v>> \in Got(d, i)', <<<<e, u>>, v>> \notin Got(d, i + 2)'
      PROVE slots'[d][StageOf(i)][v][<<u, e>>] = i
  <2>1. PICK t \in Stages : t = StageOf(i) BY Stage2
  <2>2. i + 2 \in Nat OBVIOUS
  <2>3. slots'[d][t][v][<<u, e>>] =
          IF d = c /\ t = StageOf(n) /\ v = z /\ u = b /\ e = a THEN n ELSE slots[d][t][v][<<u, e>>]
    BY DEF Written
  <2>4. <<<<e, u>>, v>> = <<<<a, b>>, z>> <=> e = a /\ u = b /\ v = z OBVIOUS
  <2>5. Got(d, i)' = IF d = c /\ i = n THEN Got(d, i) \cup {<<<<a, b>>, z>>} ELSE Got(d, i) BY DEF Gains
  <2>6. Got(d, i + 2)' = IF d = c /\ i + 2 = n THEN Got(d, i + 2) \cup {<<<<a, b>>, z>>} ELSE Got(d, i + 2)
    BY <2>2 DEF Gains
  <2>7. CASE d = c /\ t = StageOf(n) /\ v = z /\ u = b /\ e = a
    <3>1. CASE i = n BY <2>1, <2>3, <2>7, <3>1
    <3>2. CASE i < n
      <4>1. i + 2 <= n BY <2>1, <2>7, <3>2, Stage2
      <4>2. CASE i + 2 = n BY <1>3, <2>6, <2>7, <4>2
      <4>3. CASE i + 2 < n
        <5>1. StageOf(i + 2) = StageOf(n) BY <2>1, <2>7, Stage2
        <5>2. Full(c, i + 2) BY <2>2, <4>3, <5>1 DEF InTurn
        <5>3. <<<<e, u>>, v>> \in Got(c, i + 2) BY <2>4, <2>7, <5>2 DEF Full, InTurn
        <5> QED BY <1>3, <2>6, <2>7, <5>3
      <4> QED BY <4>1, <4>2, <4>3
    <3>3. CASE i > n
      <4>1. i >= n + 2 BY <2>1, <2>7, <3>3, Stage2
      <4>2. <<<<e, u>>, v>> \in Got(d, i) BY <1>3, <2>5, <3>3
      <4>3. Stored(e, u) > i BY <4>2, GotIs
      <4>4. Stored(e, u) \in Nat BY InOrder
      <4>5. ~(Stored(a, b) > n + 2) BY DEF InTurn
      <4> QED BY <2>7, <4>1, <4>3, <4>4, <4>5
    <3> QED BY <3>1, <3>2, <3>3
  <2>8. CASE ~(d = c /\ t = StageOf(n) /\ v = z /\ u = b /\ e = a)
    <3>1. slots'[d][t][v][<<u, e>>] = slots[d][t][v][<<u, e>>] BY <2>3, <2>8
    <3>2. ~(d = c /\ i = n /\ <<<<e, u>>, v>> = <<<<a, b>>, z>>) BY <2>1, <2>4, <2>8
    <3>3. <<<<e, u>>, v>> \in Got(d, i) BY <1>3, <2>5, <3>2
    <3>4. <<<<e, u>>, v>> \notin Got(d, i + 2) BY <1>3, <2>6
    <3>5. slots[d][StageOf(i)][v][<<u, e>>] = i BY <1>2, <3>3, <3>4 DEF Slots
    <3> QED BY <2>1, <3>1, <3>5
  <2> QED BY <2>7, <2>8
<1>4. \A i : StageOf(i)' = StageOf(i) BY DEF StageOf
<1>5. ASSUME Exchanges, NEW d \in Ctas, NEW e \in Ctas, NEW u \in Warps, NEW v \in Values, NEW i \in Nat
      PROVE (<<<<e, u>>, v>> \in Got(d, i) /\ <<<<e, u>>, v>> \notin Got(d, i + 2)
               => slots[d][StageOf(i)][v][<<u, e>>] = i)'
  BY <1>3, <1>4
<1> QED BY <1>1, <1>5 DEF Slots

(* A store that is performed.                                              *)
LEMMA ExchangeStore ==
  ASSUME Types, PlacesOK, Exchange, NEW m \in flying, m.kind = "store", launch' = launch, warp' = warp,
         flying' = flying \ {m}, full' = [full EXCEPT ![m.to][StageOf(m.n)] = Hit(@, 1, 0, -1)],
         empty' = empty, Written(m.from, m.warp, m.to, m.n, m.v)
  PROVE Exchange'
<1> DEFINE c == m.to
           n == m.n
           x == <<<<m.from, m.warp>>, m.v>>
<1>1. /\ Clustered /\ m.from \in Ctas /\ m.warp \in Warps /\ c \in Ctas /\ n \in Nat /\ m.v \in Values
      /\ Stored(m.from, m.warp) > n /\ full[c] # <<>>
  BY OnItsWay
<1>2. /\ Ctas' = Ctas /\ Warps' = Warps /\ Values' = Values /\ (Clustered' <=> Clustered)
      /\ (Exchanges' <=> Exchanges) /\ Armed' = Armed /\ Partials' = Partials
  BY Same
<1>3. launch \in Launches /\ 0 \in Warps /\ launch.backward' = launch.backward BY Launched DEF Types
<1>4. \A d, u : /\ At(d, u)' = At(d, u) /\ Acquired(d, u)' = Acquired(d, u) /\ Stored(d, u)' = Stored(d, u)
                /\ Seen(d, u)' = Seen(d, u) /\ Released(d, u)' = Released(d, u)
  BY Still
<1>5. /\ \A d \in Ctas, i \in Nat : Got(d, i)' = IF d = c /\ i = n THEN Got(d, i) \cup {x} ELSE Got(d, i)
      /\ \A d \in Ctas, i \in Nat : Arrived(d, i)' = Arrived(d, i)
      /\ \A d \in Ctas, i \in Nat : Full(d, i) => Full(d, i)'
      /\ \A d \in Ctas, i \in Nat : d # c \/ i # n => (Full(d, i)' <=> Full(d, i))
  BY StoreGot
<1>6. /\ x \in Partials \ Got(c, n) /\ ~Full(c, n)
      /\ \A i \in Nat : i < n /\ StageOf(i) = StageOf(n) => Full(c, i)
      /\ n < 2 \/ Full(c, n - 2)
      /\ \A d \in Ctas, u \in Warps : ~(Stored(d, u) > n + 2)
  BY StoreInTime
<1>7. /\ full'[c][StageOf(n)] =
             IF Full(c, n)' THEN [parity |-> 1 - PhaseOf(n), pending |-> 1, tx |-> 0]
             ELSE [parity |-> PhaseOf(n), pending |-> IF Stored(c, 0) > n THEN 0 ELSE 1,
                   tx |-> (IF Stored(c, 0) > n THEN Armed ELSE 0) - Cardinality(Got(c, n)')]
      /\ full'[c] # <<>>
      /\ \A d \in Ctas : d # c => full'[d] = full[d]
      /\ \A t \in Stages : t # StageOf(n) => full'[c][t] = full[c][t]
  BY StoreHits
<1> HIDE DEF c, n, x
<1>8. FullCounts'
  <2>1. ASSUME NEW d \in Ctas, NEW i \in Nat, full'[d] # <<>>, i < 2 \/ Full(d, i - 2)', ~Full(d, i)'
        PROVE full'[d][StageOf(i)] =
                [parity |-> PhaseOf(i), pending |-> IF Stored(d, 0) > i THEN 0 ELSE 1,
                 tx |-> (IF Stored(d, 0) > i THEN Armed ELSE 0) - Cardinality(Got(d, i)')]
    <3>1. ASSUME full[d] # <<>>, i < 2 \/ Full(d, i - 2), ~Full(d, i)
          PROVE full[d][StageOf(i)] =
                  [parity |-> PhaseOf(i), pending |-> IF Stored(d, 0) > i THEN 0 ELSE 1,
                   tx |-> (IF Stored(d, 0) > i THEN Armed ELSE 0) - Cardinality(Got(d, i))]
      BY <1>1, <3>1 DEF Exchange, FullCounts
    <3>2. ~Full(d, i) BY <1>5, <2>1
    <3>3. CASE d # c
      <4>1. ~(i < 2) => i - 2 \in Nat OBVIOUS
      <4>2. i < 2 \/ Full(d, i - 2) BY <1>5, <2>1, <3>3, <4>1
      <4>3. full'[d] = full[d] /\ Got(d, i)' = Got(d, i) BY <1>5, <1>7, <3>3
      <4> QED BY <2>1, <3>1, <3>2, <4>2, <4>3
    <3>4. CASE d = c /\ StageOf(i) # StageOf(n)
      <4>1. i # n /\ (~(i < 2) => i - 2 \in Nat /\ i - 2 # n)
        <5>1. ~(i < 2) => i - 2 \in Nat OBVIOUS
        <5>2. i - 2 = n => i = n + 2 OBVIOUS
        <5>3. StageOf(n + 2) = StageOf(n) BY <1>1, Stage2
        <5> QED BY <1>1, <3>4, <5>1, <5>2, <5>3
      <4>2. i < 2 \/ Full(d, i - 2) BY <1>5, <2>1, <4>1
      <4>3. StageOf(i) \in Stages BY Stage2
      <4>4. full'[d][StageOf(i)] = full[d][StageOf(i)] /\ Got(d, i)' = Got(d, i) BY <1>5, <1>7, <3>4, <4>1, <4>3
      <4> QED BY <1>1, <3>1, <3>2, <3>4, <4>2, <4>4
    <3>5. CASE d = c /\ i = n BY <1>7, <2>1, <3>5
    <3>6. CASE d = c /\ StageOf(i) = StageOf(n) /\ i < n BY <1>6, <3>2, <3>6
    <3>7. CASE d = c /\ StageOf(i) = StageOf(n) /\ i > n
      <4>1. i >= n + 2 /\ i - 2 \in Nat BY <1>1, <3>7, Stage2
      <4>2. Full(c, i - 2)' BY <1>1, <2>1, <3>7, <4>1
      <4>3. i = n + 2
        <5> SUFFICES ASSUME i # n + 2 PROVE FALSE OBVIOUS
        <5>1. i - 2 # n /\ i - 2 > n BY <1>1, <4>1
        <5>2. StageOf(i - 2) = StageOf(n)
          <6>1. PICK j \in Nat : j = i - 2 /\ j + 2 = i BY <4>1
          <6> QED BY <3>7, <6>1, Stage2
        <5>3. i - 2 >= n + 2 BY <1>1, <4>1, <5>1, <5>2, Stage2
        <5>4. Full(c, i - 2) BY <1>1, <1>5, <4>1, <4>2, <5>1
        <5>5. Stored(c, 0) > i - 2 BY <1>1, <1>3, <4>1, <5>4, FullMeans
        <5>6. Stored(c, 0) \in Nat BY <1>1, <1>3, InOrder
        <5> QED BY <1>1, <1>3, <1>6, <4>1, <5>3, <5>5, <5>6
      <4>4. Full(c, n)' /\ PhaseOf(i) = 1 - PhaseOf(n)
        <5>1. i - 2 = n BY <1>1, <4>3
        <5> QED BY <1>1, <4>2, <4>3, <5>1, Stage2
      <4>5. ~(Stored(c, 0) > i) BY <1>1, <1>3, <1>6, <4>3
      <4>6. Got(c, i) = {}
        <5>1. \A y \in Partials : y[1][1] \in Ctas /\ y[1][2] \in Warps BY DEF Partials
        <5>2. \A y \in Got(c, i) : y \in Partials /\ Stored(y[1][1], y[1][2]) > i BY DEF Got
        <5> QED BY <1>6, <4>3, <5>1, <5>2
      <4>7. Cardinality(Got(d, i)') = 0
        <5>1. i # n BY <3>7
        <5> QED BY <1>5, <3>7, <4>6, <5>1, FS_EmptySet
      <4>8. full'[d][StageOf(i)] = [parity |-> PhaseOf(i), pending |-> 1, tx |-> 0] BY <1>7, <3>7, <4>4
      <4>9. 0 - 0 = 0 OBVIOUS
      <4> QED BY <3>7, <4>5, <4>7, <4>8, <4>9
    <3> QED BY <1>1, <3>3, <3>4, <3>5, <3>6, <3>7
  <2> QED BY <1>2, <1>4, <2>1 DEF FullCounts, StageOf, PhaseOf
<1>9. EmptyCounts' /\ (launch.backward => \A d \in Ctas, i \in Nat : Emptied(d, i)' <=> Emptied(d, i))
  BY <1>5, EmptyStays DEF Exchange
<1>10. Ready'
  <2>1. \A d \in Ctas : full'[d] = <<>> <=> full[d] = <<>> BY <1>1, <1>7
  <2> QED BY <1>2, <1>4, <2>1 DEF Exchange, Ready
<1>11. Flying'
  <2>1. \A d \in Ctas, u \in Warps : Stored(d, u) \in Nat /\ Released(d, u) \in Nat BY InOrder
  <2>2. \A d \in Ctas, u \in Warps : Stored(d, u)' \in Nat /\ Stored(d, u) <= Stored(d, u)' BY <1>4, <2>1
  <2>3. \A d \in Ctas, u \in Warps : Released(d, u)' \in Nat /\ Released(d, u) <= Released(d, u)' BY <1>4, <2>1
  <2>4. \A f \in flying' : f \in flying OBVIOUS
  <2>5. \A f \in flying :
        /\ Clustered'
        /\ f.kind = "store" => Stored(f.from, f.warp)' > f.n /\ f.v \in Values'
        /\ f.kind = "arrive" => launch'.backward /\ Released(f.from, f.warp)' > f.n /\ f.v = 0
    BY <2>2, <2>3, FlyingStays DEF Exchange
  <2> QED BY <2>4, <2>5 DEF Flying
<1>12. SeenFull' BY <1>2, <1>4, <1>5 DEF Exchange, SeenFull
<1>13. AcquiredFree' BY <1>2, <1>3, <1>4, <1>9 DEF Exchange, AcquiredFree
<1>14. DoneFree' BY <1>2, <1>3, <1>4, <1>9 DEF Exchange, DoneFree
<1>15. Slots'
  <2>1. Written(m.from, m.warp, c, n, m.v) BY DEF c, n
  <2>2. Gains(m.from, m.warp, c, n, m.v) BY <1>5 DEF x, Gains
  <2>3. InTurn(m.from, m.warp, c, n, m.v) BY <1>1, <1>6 DEF x, InTurn
  <2>4. Slots BY DEF Exchange
  <2> QED BY <1>1, <2>1, <2>2, <2>3, <2>4, SlotsStored
<1> QED BY <1>8, <1>9, <1>10, <1>11, <1>12, <1>13, <1>14, <1>15 DEF Exchange

(* An arrival that is performed adds itself to what has come, and nothing  *)
(* else.                                                                   *)
LEMMA ArriveGot ==
  ASSUME Types, PlacesOK, Exchange, NEW m \in flying, m.kind = "arrive", launch' = launch, warp' = warp,
         flying' = flying \ {m}
  PROVE /\ \A d \in Ctas, i \in Nat :
             Arrived(d, i)' = IF d = m.to /\ i = m.n THEN Arrived(d, i) \cup {<<m.from, m.warp>>} ELSE Arrived(d, i)
        /\ \A d \in Ctas, i \in Nat : Got(d, i)' = Got(d, i)
        /\ \A d \in Ctas, i \in Nat : Emptied(d, i) => Emptied(d, i)'
        /\ \A d \in Ctas, i \in Nat : d # m.to \/ i # m.n => (Emptied(d, i)' <=> Emptied(d, i))
<1> DEFINE x == <<m.from, m.warp>>
<1>1. /\ m.from \in Ctas /\ m.warp \in Warps /\ m.to \in Ctas /\ m.n \in Nat
      /\ m = ArriveMsg(m.from, m.warp, m.to, m.n) /\ Released(m.from, m.warp) > m.n
  BY OnItsWay
<1>2. \A c, w : Stored(c, w)' = Stored(c, w) /\ Released(c, w)' = Released(c, w) BY Still
<1>3. Ctas' = Ctas /\ Warps' = Warps BY Same
<1>4. x \in Ctas \X Warps BY <1>1
<1>5. ASSUME NEW d \in Ctas, NEW i \in Nat
      PROVE Arrived(d, i)' = IF d = m.to /\ i = m.n THEN Arrived(d, i) \cup {x} ELSE Arrived(d, i)
  <2>1. Arrived(d, i) \in SUBSET (Ctas \X Warps) /\ Arrived(d, i)' \in SUBSET (Ctas \X Warps)
        /\ Arrived(d, i) \cup {x} \in SUBSET (Ctas \X Warps)
    BY <1>4, ArrivedIs, ArrivedAfter
  <2>2. ASSUME NEW e \in Ctas, NEW u \in Warps
        PROVE <<e, u>> \in Arrived(d, i)' <=> (<<e, u>> \in Arrived(d, i) \/ (d = m.to /\ i = m.n /\ <<e, u>> = x))
    <3>1. <<e, u>> \in Arrived(d, i) <=> Released(e, u) > i /\ ArriveMsg(e, u, d, i) \notin flying BY ArrivedIs
    <3>2. <<e, u>> \in Arrived(d, i)' <=> Released(e, u)' > i /\ ArriveMsg(e, u, d, i) \notin flying'
      BY ArrivedAfter
    <3>3. ArriveMsg(e, u, d, i) = m <=> e = m.from /\ u = m.warp /\ d = m.to /\ i = m.n
      <4>1. ArriveMsg(e, u, d, i) = m => e = m.from /\ u = m.warp /\ d = m.to /\ i = m.n BY DEF ArriveMsg
      <4> QED BY <1>1, <4>1
    <3>4. <<e, u>> = x <=> e = m.from /\ u = m.warp OBVIOUS
    <3> HIDE DEF x
    <3>5. CASE ArriveMsg(e, u, d, i) = m BY <1>1, <1>2, <3>1, <3>2, <3>3, <3>4, <3>5
    <3>6. CASE ArriveMsg(e, u, d, i) # m BY <1>2, <3>1, <3>2, <3>3, <3>4, <3>6
    <3> QED BY <3>5, <3>6
  <2> HIDE DEF x
  <2>3. CASE d = m.to /\ i = m.n BY <2>1, <2>2, <2>3, SameWarps
  <2>4. CASE ~(d = m.to /\ i = m.n) BY <2>1, <2>2, <2>4, SameWarps
  <2> QED BY <2>3, <2>4
<1> HIDE DEF x
<1>6. ASSUME NEW d \in Ctas, NEW i \in Nat PROVE Got(d, i)' = Got(d, i)
  <2>1. Got(d, i) \in SUBSET Partials /\ Got(d, i)' \in SUBSET Partials BY GotIs, GotAfter
  <2>2. ASSUME NEW e \in Ctas, NEW u \in Warps, NEW v \in Values
        PROVE <<<<e, u>>, v>> \in Got(d, i)' <=> <<<<e, u>>, v>> \in Got(d, i)
    <3>1. <<<<e, u>>, v>> \in Got(d, i) <=> Stored(e, u) > i /\ StoreMsg(e, u, d, i, v) \notin flying BY GotIs
    <3>2. <<<<e, u>>, v>> \in Got(d, i)' <=> Stored(e, u)' > i /\ StoreMsg(e, u, d, i, v) \notin flying'
      BY GotAfter
    <3>3. StoreMsg(e, u, d, i, v) # m
      <4>1. StoreMsg(e, u, d, i, v).kind = "store" BY DEF StoreMsg
      <4> QED BY <4>1
    <3> QED BY <1>2, <3>1, <3>2, <3>3
  <2> QED BY <2>1, <2>2, SamePartials
<1>7. \A d \in Ctas, i \in Nat : d # m.to \/ i # m.n => (Emptied(d, i)' <=> Emptied(d, i)) BY <1>3, <1>5 DEF Emptied
<1>8. \A d \in Ctas, i \in Nat : Emptied(d, i) => Emptied(d, i)'
  <2>1. ~Emptied(m.to, m.n) BY ArriveInTime
  <2> QED BY <1>7, <2>1
<1> QED BY <1>5, <1>6, <1>7, <1>8 DEF x

(* An arrival leaves the empty barrier counting the arrivals that have     *)
(* come.                                                                   *)
LEMMA ArriveHits ==
  ASSUME Types, PlacesOK, Exchange, NEW m \in flying, m.kind = "arrive", launch' = launch, warp' = warp,
         flying' = flying \ {m}, empty' = [empty EXCEPT ![m.to][StageOf(m.n)] = Hit(@, Releases, 1, 0)]
  PROVE LET c == m.to
            n == m.n
            s == StageOf(n) IN
        /\ empty'[c][s] = IF Emptied(c, n)' THEN [parity |-> 1 - PhaseOf(n), pending |-> Releases, tx |-> 0]
                          ELSE [parity |-> PhaseOf(n), pending |-> Releases - Cardinality(Arrived(c, n)'), tx |-> 0]
        /\ empty' \in [Ctas -> {<<>>} \cup [Stages -> Bar(Releases)]] /\ empty'[c] # <<>>
        /\ \A d \in Ctas : d # c => empty'[d] = empty[d]
        /\ \A t \in Stages : t # s => empty'[c][t] = empty[c][t]
<1> DEFINE c == m.to
           n == m.n
           s == StageOf(n)
           x == <<m.from, m.warp>>
<1>1. /\ Clustered /\ launch.backward /\ c \in Ctas /\ n \in Nat
      /\ empty[c] \in [Stages -> Bar(Releases)] /\ empty[c] # <<>>
  BY OnItsWay
<1>2. x \in (Ctas \X Warps) \ Arrived(c, n) /\ ~Emptied(c, n) /\ (n < 2 \/ Emptied(c, n - 2)) BY ArriveInTime
<1>3. Arrived(c, n)' = Arrived(c, n) \cup {x} BY <1>1, ArriveGot
<1>4. empty' = [empty EXCEPT ![c][s] = Hit(empty[c][s], Releases, 1, 0)] BY DEF Types
<1>5. launch \in Launches BY DEF Types
<1> HIDE DEF c, n, x
<1>6. s \in Stages /\ PhaseOf(n) \in {0, 1} BY <1>1, Stage2
<1> DEFINE g == Cardinality(Arrived(c, n))
<1>7. empty[c][s] = [parity |-> PhaseOf(n), pending |-> Releases - g, tx |-> 0]
  BY <1>1, <1>2 DEF Exchange, EmptyCounts
<1>8. Releases \in Nat \ {0} /\ g \in 0..Releases /\ Arrived(c, n) \in SUBSET (Ctas \X Warps)
  <2>1. Arrived(c, n) \in SUBSET (Ctas \X Warps) BY ArrivedIs
  <2>2. Releases \in Nat \ {0} BY <1>5, Counted
  <2> QED BY <1>5, <2>1, <2>2, Arrivers
<1>9. Cardinality(Arrived(c, n)') = g + 1 BY <1>2, <1>3, <1>5, <1>8, Arrivers
<1>10. (Emptied(c, n)' <=> g + 1 = Releases) /\ g + 1 \in 0..Releases
  <2>1. Arrived(c, n)' \in SUBSET (Ctas \X Warps) BY ArrivedAfter
  <2>2. /\ Cardinality(Arrived(c, n)') = Releases <=> Arrived(c, n)' = Ctas \X Warps
        /\ Cardinality(Arrived(c, n)') \in 0..Releases
    BY <1>5, <2>1, Arrivers
  <2>3. Emptied(c, n)' <=> Arrived(c, n)' = Ctas \X Warps BY ArrivedAfter
  <2> QED BY <1>9, <2>2, <2>3
<1> HIDE DEF s, g
<1> DEFINE r == Releases
<1>11. r \in Nat \ {0} /\ g \in 0..r /\ r - g \in Int BY <1>8
<1>12. Hit(empty[c][s], r, 1, 0) =
         IF r - g - 1 = 0 /\ 0 + 0 = 0 THEN [parity |-> 1 - PhaseOf(n), pending |-> r, tx |-> 0]
         ELSE [parity |-> PhaseOf(n), pending |-> r - g - 1, tx |-> 0 + 0]
  BY <1>7, <1>11, HitIs
<1> HIDE DEF r
<1>13. 0 + 0 = 0 /\ r - g - 1 = r - (g + 1) /\ (r - g - 1 = 0 <=> g + 1 = r) BY <1>11
<1>14. (r - (g + 1) = 0) <=> Emptied(c, n)' BY <1>10, <1>13 DEF r
<1> DEFINE h == IF Emptied(c, n)' THEN [parity |-> 1 - PhaseOf(n), pending |-> r, tx |-> 0]
                ELSE [parity |-> PhaseOf(n), pending |-> r - (g + 1), tx |-> 0]
<1>15. Hit(empty[c][s], r, 1, 0) = h BY <1>12, <1>13, <1>14
<1>16. h \in Bar(r)
  <2>1. 1 - PhaseOf(n) \in {0, 1} BY <1>6
  <2>2. g + 1 \in 0..r BY <1>10 DEF r
  <2>3. r - (g + 1) \in 0..r /\ r \in 0..r BY <1>11, <2>2
  <2> QED BY <1>6, <2>1, <2>3 DEF Bar
<1> HIDE DEF h
<1>17. empty' = [empty EXCEPT ![c][s] = h] BY <1>4, <1>15 DEF s, r
<1>18. empty \in [Ctas -> {<<>>} \cup [Stages -> Bar(r)]] BY DEF Types, r
<1>19. s \in Stages BY <1>6 DEF s
<1>20. /\ empty' \in [Ctas -> {<<>>} \cup [Stages -> Bar(r)]] /\ empty'[c] \in [Stages -> Bar(r)] /\ empty'[c][s] = h
       /\ \A d \in Ctas : d # c => empty'[d] = empty[d]
       /\ \A t \in Stages : t # s => empty'[c][t] = empty[c][t]
  <2>1. PICK T : T = {<<>>} \cup [Stages -> Bar(r)] OBVIOUS
  <2>2. empty \in [Ctas -> T] /\ [Stages -> Bar(r)] \subseteq T BY <1>18, <2>1
  <2>3. PICK f : f = empty OBVIOUS
  <2>4. PICK R : R = Bar(r) OBVIOUS
  <2>5. PICK g1 : g1 = empty' OBVIOUS
  <2>6. f \in [Ctas -> T] /\ [Stages -> R] \subseteq T /\ f[c] \in [Stages -> R] /\ h \in R
        /\ g1 = [f EXCEPT ![c][s] = h]
    BY <1>1, <1>16, <1>17, <2>2, <2>3, <2>4, <2>5 DEF r
  <2>7. /\ g1 \in [Ctas -> T] /\ g1[c] \in [Stages -> R] /\ g1[c][s] = h
        /\ \A d \in Ctas : d # c => g1[d] = f[d]
        /\ \A t \in Stages : t # s => g1[c][t] = f[c][t]
    BY <1>1, <1>19, <2>6, HitOne
  <2> QED BY <2>1, <2>3, <2>4, <2>5, <2>7
<1>21. empty'[c] # <<>>
  <2>1. DOMAIN empty'[c] = {0, 1} /\ DOMAIN <<>> = {} BY <1>20 DEF Stages
  <2> QED BY <2>1
<1> QED BY <1>9, <1>20, <1>21 DEF c, n, s, h, r

(* An arrival that is performed.                                           *)
LEMMA ExchangeArrive ==
  ASSUME Types, PlacesOK, Exchange, NEW m \in flying, m.kind = "arrive", launch' = launch, warp' = warp,
         flying' = flying \ {m}, empty' = [empty EXCEPT ![m.to][StageOf(m.n)] = Hit(@, Releases, 1, 0)],
         slots' = slots, full' = full
  PROVE Exchange'
<1> DEFINE c == m.to
           n == m.n
<1>1. /\ Clustered /\ launch.backward /\ m.from \in Ctas /\ m.warp \in Warps /\ c \in Ctas /\ n \in Nat
      /\ Released(m.from, m.warp) > n /\ empty[c] # <<>>
  BY OnItsWay
<1>2. /\ Ctas' = Ctas /\ Warps' = Warps /\ (Clustered' <=> Clustered) /\ Releases' = Releases
  BY Same
<1>3. launch \in Launches /\ 0 \in Warps /\ launch.backward' = launch.backward BY Launched DEF Types
<1>4. \A d, u : /\ At(d, u)' = At(d, u) /\ Acquired(d, u)' = Acquired(d, u) /\ Stored(d, u)' = Stored(d, u)
                /\ Seen(d, u)' = Seen(d, u) /\ Released(d, u)' = Released(d, u)
  BY Still
<1>5. /\ \A d \in Ctas, i \in Nat : Got(d, i)' = Got(d, i)
      /\ \A d \in Ctas, i \in Nat : d # c \/ i # n => Arrived(d, i)' = Arrived(d, i)
      /\ \A d \in Ctas, i \in Nat : Emptied(d, i) => Emptied(d, i)'
      /\ \A d \in Ctas, i \in Nat : d # c \/ i # n => (Emptied(d, i)' <=> Emptied(d, i))
  BY ArriveGot
<1>6. /\ ~Emptied(c, n)
      /\ \A i \in Nat : i < n /\ StageOf(i) = StageOf(n) => Emptied(c, i)
      /\ n < 2 \/ Emptied(c, n - 2)
      /\ \A d \in Ctas, u \in Warps : ~(Released(d, u) > n + 2)
  BY ArriveInTime
<1>7. /\ empty'[c][StageOf(n)] =
             IF Emptied(c, n)' THEN [parity |-> 1 - PhaseOf(n), pending |-> Releases, tx |-> 0]
             ELSE [parity |-> PhaseOf(n), pending |-> Releases - Cardinality(Arrived(c, n)'), tx |-> 0]
      /\ empty'[c] # <<>>
      /\ \A d \in Ctas : d # c => empty'[d] = empty[d]
      /\ \A t \in Stages : t # StageOf(n) => empty'[c][t] = empty[c][t]
  BY ArriveHits
<1> HIDE DEF c, n
<1>8. EmptyCounts'
  <2>1. ASSUME NEW d \in Ctas, NEW i \in Nat, empty'[d] # <<>>, i < 2 \/ Emptied(d, i - 2)', ~Emptied(d, i)'
        PROVE empty'[d][StageOf(i)] =
                [parity |-> PhaseOf(i), pending |-> Releases - Cardinality(Arrived(d, i)'), tx |-> 0]
    <3>1. ASSUME empty[d] # <<>>, i < 2 \/ Emptied(d, i - 2), ~Emptied(d, i)
          PROVE empty[d][StageOf(i)] =
                  [parity |-> PhaseOf(i), pending |-> Releases - Cardinality(Arrived(d, i)), tx |-> 0]
      BY <1>1, <3>1 DEF Exchange, EmptyCounts
    <3>2. ~Emptied(d, i) BY <1>5, <2>1
    <3>3. CASE d # c
      <4>1. ~(i < 2) => i - 2 \in Nat OBVIOUS
      <4>2. i < 2 \/ Emptied(d, i - 2) BY <1>5, <2>1, <3>3, <4>1
      <4>3. empty'[d] = empty[d] /\ Arrived(d, i)' = Arrived(d, i) BY <1>5, <1>7, <3>3
      <4> QED BY <2>1, <3>1, <3>2, <4>2, <4>3
    <3>4. CASE d = c /\ StageOf(i) # StageOf(n)
      <4>1. i # n /\ (~(i < 2) => i - 2 \in Nat /\ i - 2 # n)
        <5>1. ~(i < 2) => i - 2 \in Nat OBVIOUS
        <5>2. i - 2 = n => i = n + 2 OBVIOUS
        <5>3. StageOf(n + 2) = StageOf(n) BY <1>1, Stage2
        <5> QED BY <1>1, <3>4, <5>1, <5>2, <5>3
      <4>2. i < 2 \/ Emptied(d, i - 2) BY <1>5, <2>1, <4>1
      <4>3. StageOf(i) \in Stages BY Stage2
      <4>4. empty'[d][StageOf(i)] = empty[d][StageOf(i)] /\ Arrived(d, i)' = Arrived(d, i)
        BY <1>5, <1>7, <3>4, <4>1, <4>3
      <4> QED BY <1>1, <3>1, <3>2, <3>4, <4>2, <4>4
    <3>5. CASE d = c /\ i = n BY <1>7, <2>1, <3>5
    <3>6. CASE d = c /\ StageOf(i) = StageOf(n) /\ i < n BY <1>6, <3>2, <3>6
    <3>7. CASE d = c /\ StageOf(i) = StageOf(n) /\ i > n
      <4>1. i >= n + 2 /\ i - 2 \in Nat BY <1>1, <3>7, Stage2
      <4>2. Emptied(c, i - 2)' BY <1>1, <2>1, <3>7, <4>1
      <4>3. i = n + 2
        <5> SUFFICES ASSUME i # n + 2 PROVE FALSE OBVIOUS
        <5>1. i - 2 # n /\ i - 2 > n BY <1>1, <4>1
        <5>2. StageOf(i - 2) = StageOf(n)
          <6>1. PICK j \in Nat : j = i - 2 /\ j + 2 = i BY <4>1
          <6> QED BY <3>7, <6>1, Stage2
        <5>3. i - 2 >= n + 2 BY <1>1, <4>1, <5>1, <5>2, Stage2
        <5>4. Emptied(c, i - 2) BY <1>1, <1>5, <4>1, <4>2, <5>1
        <5>5. Released(c, 0) > i - 2 BY <1>1, <1>3, <4>1, <5>4, EmptiedMeans
        <5>6. Released(c, 0) \in Nat BY <1>1, <1>3, InOrder
        <5> QED BY <1>1, <1>3, <1>6, <4>1, <5>3, <5>5, <5>6
      <4>4. Emptied(c, n)' /\ PhaseOf(i) = 1 - PhaseOf(n)
        <5>1. i - 2 = n BY <1>1, <4>3
        <5> QED BY <1>1, <4>2, <4>3, <5>1, Stage2
      <4>6. Arrived(c, i) = {}
        <5>2. \A y \in Arrived(c, i) : y[1] \in Ctas /\ y[2] \in Warps /\ Released(y[1], y[2]) > i BY DEF Arrived
        <5> QED BY <1>6, <4>3, <5>2
      <4>7. Cardinality(Arrived(d, i)') = 0
        <5>1. i # n BY <3>7
        <5> QED BY <1>5, <3>7, <4>6, <5>1, FS_EmptySet
      <4>8. empty'[d][StageOf(i)] = [parity |-> PhaseOf(i), pending |-> Releases, tx |-> 0] BY <1>7, <3>7, <4>4
      <4>9. Releases - 0 = Releases BY <1>3, Counted
      <4> QED BY <4>7, <4>8, <4>9
    <3> QED BY <1>1, <3>3, <3>4, <3>5, <3>6, <3>7
  <2> QED BY <1>2, <2>1 DEF EmptyCounts, StageOf, PhaseOf
<1>9. FullCounts' /\ \A d \in Ctas, i \in Nat : Full(d, i)' <=> Full(d, i)
  BY <1>4, <1>5, FullStays DEF Exchange
<1>10. Ready'
  <2>1. \A d \in Ctas : empty'[d] = <<>> <=> empty[d] = <<>> BY <1>1, <1>7
  <2> QED BY <1>2, <1>4, <2>1 DEF Exchange, Ready
<1>11. Flying'
  <2>1. \A d \in Ctas, u \in Warps : Stored(d, u) \in Nat /\ Released(d, u) \in Nat BY InOrder
  <2>2. \A d \in Ctas, u \in Warps : Stored(d, u)' \in Nat /\ Stored(d, u) <= Stored(d, u)' BY <1>4, <2>1
  <2>3. \A d \in Ctas, u \in Warps : Released(d, u)' \in Nat /\ Released(d, u) <= Released(d, u)' BY <1>4, <2>1
  <2>4. \A f \in flying' : f \in flying OBVIOUS
  <2>5. \A f \in flying :
        /\ Clustered'
        /\ f.kind = "store" => Stored(f.from, f.warp)' > f.n /\ f.v \in Values'
        /\ f.kind = "arrive" => launch'.backward /\ Released(f.from, f.warp)' > f.n /\ f.v = 0
    BY <2>2, <2>3, FlyingStays DEF Exchange
  <2> QED BY <2>4, <2>5 DEF Flying
<1>12. SeenFull' BY <1>2, <1>4, <1>9 DEF Exchange, SeenFull
<1>13. AcquiredFree' BY <1>2, <1>3, <1>4, <1>5 DEF Exchange, AcquiredFree
<1>14. DoneFree'
  <2>1. DoneFree BY DEF Exchange
  <2> QED BY <1>2, <1>3, <1>4, <1>5, <2>1 DEF DoneFree
<1>15. Slots'
  <2>1. Slots BY DEF Exchange
  <2> QED BY <1>5, <2>1, SlotsStay
<1> QED BY <1>8, <1>9, <1>10, <1>11, <1>12, <1>13, <1>14, <1>15 DEF Exchange

(* A store or an arrival that is performed keeps the types and the         *)
(* exchange.                                                               *)
LEMMA ExchangePerform ==
  ASSUME Types, PlacesOK, Exchange, Perform
  PROVE Types' /\ Exchange'
<1>1. PICK m \in flying :
        LET s == StageOf(m.n) IN
        /\ flying' = flying \ {m}
        /\ IF m.kind = "store"
             THEN /\ slots' = [slots EXCEPT ![m.to][s][m.v][<<m.warp, m.from>>] = m.n]
                  /\ full' = [full EXCEPT ![m.to][s] = Hit(@, 1, 0, -1)]
                  /\ UNCHANGED empty
             ELSE /\ empty' = [empty EXCEPT ![m.to][s] = Hit(@, Releases, 1, 0)]
                  /\ UNCHANGED <<slots, full>>
        /\ UNCHANGED <<launch, warp, met, ring, scratch>>
  BY DEF Perform
<1>2. UNCHANGED <<launch, warp, met, tile, fetched, freed, loading, scratch>> /\ flying' \in SUBSET Message
  BY <1>1 DEF ring, Types
<1>3. /\ Ctas' = Ctas /\ Warps' = Warps /\ TileStages' = TileStages /\ Values' = Values /\ Message' = Message
      /\ Releases' = Releases
  BY <1>2, Same
<1>4. ASSUME slots' \in [Ctas -> [Stages -> [Values -> [Warps \X Ctas -> Int]]]],
             full' \in [Ctas -> {<<>>} \cup [Stages -> Bar(1)]],
             empty' \in [Ctas -> {<<>>} \cup [Stages -> Bar(Releases)]]
      PROVE Types'
  BY <1>2, <1>3, <1>4 DEF Types
<1>5. CASE m.kind = "store"
  <2>1. /\ slots' = [slots EXCEPT ![m.to][StageOf(m.n)][m.v][<<m.warp, m.from>>] = m.n]
        /\ full' = [full EXCEPT ![m.to][StageOf(m.n)] = Hit(@, 1, 0, -1)] /\ empty' = empty
        /\ flying' = flying \ {m}
    BY <1>1, <1>5
  <2>2. slots' \in [Ctas -> [Stages -> [Values -> [Warps \X Ctas -> Int]]]] /\ Exchange'
    <3>1. /\ m.to \in Ctas /\ m.v \in Values /\ m.warp \in Warps /\ m.from \in Ctas /\ m.n \in Nat
          /\ StageOf(m.n) \in Stages
      BY <1>5, OnItsWay, Stage2
    <3>2. PICK s \in Stages : s = StageOf(m.n) BY <3>1
    <3>3. PICK y : y = <<m.warp, m.from>> OBVIOUS
    <3>4. PICK Y : Y = Warps \X Ctas OBVIOUS
    <3>5. PICK f : f = slots OBVIOUS
    <3>6. PICK g : g = slots' OBVIOUS
    <3>7. y \in Y /\ \A e \in Ctas, u \in Warps :
            <<u, e>> \in Y /\ (<<u, e>> = y <=> u = m.warp /\ e = m.from)
      BY <3>1, <3>3, <3>4
    <3>8. f \in [Ctas -> [Stages -> [Values -> [Y -> Int]]]] BY <3>4, <3>5 DEF Types
    <3>9. IsPut4(g, f, Ctas, Stages, Values, Y, Int, m.to, s, m.v, y, m.n)
      BY <2>1, <3>1, <3>2, <3>3, <3>5, <3>6, <3>7, <3>8 DEF IsPut4
    <3>10. /\ g \in [Ctas -> [Stages -> [Values -> [Y -> Int]]]]
           /\ \A d \in Ctas, t \in Stages, v \in Values, z \in Y :
                g[d][t][v][z] = IF d = m.to /\ t = s /\ v = m.v /\ z = y THEN m.n ELSE f[d][t][v][z]
      BY <3>9, Put4
    <3>11. Written(m.from, m.warp, m.to, m.n, m.v)
      <4>1. ASSUME NEW d \in Ctas, NEW e \in Ctas, NEW u \in Warps, NEW v \in Values, NEW t \in Stages
            PROVE slots'[d][t][v][<<u, e>>] =
                    IF d = m.to /\ t = StageOf(m.n) /\ v = m.v /\ u = m.warp /\ e = m.from THEN m.n
                    ELSE slots[d][t][v][<<u, e>>]
        <5>1. PICK z \in Y : z = <<u, e>> /\ (z = y <=> u = m.warp /\ e = m.from) BY <3>7
        <5>2. g[d][t][v][z] = IF d = m.to /\ t = s /\ v = m.v /\ z = y THEN m.n ELSE f[d][t][v][z] BY <3>10
        <5>3. g[d][t][v][z] = IF d = m.to /\ t = StageOf(m.n) /\ v = m.v /\ u = m.warp /\ e = m.from THEN m.n
                              ELSE f[d][t][v][z]
          BY <3>2, <5>1, <5>2
        <5> QED BY <3>5, <3>6, <5>1, <5>3
      <4> QED BY <4>1 DEF Written
    <3>12. slots' \in [Ctas -> [Stages -> [Values -> [Warps \X Ctas -> Int]]]] BY <3>4, <3>6, <3>10
    <3>13. /\ full' = [full EXCEPT ![m.to][StageOf(m.n)] = Hit(@, 1, 0, -1)] /\ empty' = empty
           /\ flying' = flying \ {m}
      BY <2>1
    <3>14. Exchange' BY <1>2, <1>5, <3>11, <3>13, ExchangeStore
    <3> QED BY <3>12, <3>14
  <2>3. full' \in [Ctas -> {<<>>} \cup [Stages -> Bar(1)]] BY <1>2, <1>5, <2>1, StoreHits
  <2>4. empty' \in [Ctas -> {<<>>} \cup [Stages -> Bar(Releases)]] BY <2>1 DEF Types
  <2> QED BY <1>4, <2>2, <2>3, <2>4
<1>6. CASE m.kind # "store"
  <2>0. m.kind = "arrive" BY <1>6, OnItsWay
  <2>1. /\ empty' = [empty EXCEPT ![m.to][StageOf(m.n)] = Hit(@, Releases, 1, 0)] /\ slots' = slots /\ full' = full
        /\ flying' = flying \ {m}
    BY <1>1, <1>6
  <2>2. Exchange' BY <1>2, <2>0, <2>1, ExchangeArrive
  <2>3. empty' \in [Ctas -> {<<>>} \cup [Stages -> Bar(Releases)]] BY <1>2, <2>0, <2>1, ArriveHits
  <2>4. /\ slots' \in [Ctas -> [Stages -> [Values -> [Warps \X Ctas -> Int]]]]
        /\ full' \in [Ctas -> {<<>>} \cup [Stages -> Bar(1)]]
    BY <2>1 DEF Types
  <2> QED BY <1>4, <2>2, <2>3, <2>4
<1> QED BY <1>5, <1>6, Zenon

-----------------------------------------------------------------------------
(* The CTA barriers and the scratch.                                       *)

(* What each operation of the fold counts and leaves.                      *)
LEMMA FoldCounts ==
  ASSUME launch \in Launches, NEW k \in 1..Len(Fold)
  PROVE /\ k \in 1..9 /\ k + 1 \in 1..10 /\ Fold[k].op \in {"meet", "write", "read"}
        /\ Fold[k].op = "meet" => Meets[k + 1] = Meets[k] + 1 /\ Left(k + 1) = Left(k)
        /\ Fold[k].op = "write" => Meets[k + 1] = Meets[k] /\ Left(k + 1) = Fold[k].g
        /\ Fold[k].op = "read" => Meets[k + 1] = Meets[k] /\ Left(k + 1) = Left(k) /\ Left(k) = Fold[k].g
<1>1. k \in 1..9 /\ Fold[k] = [op |-> FoldOps[k], g |-> FoldGs[k]] BY FoldIs
<1>2. Fold[k].op = FoldOps[k] /\ Fold[k].g = FoldGs[k] BY <1>1
<1>3. \A j \in 1..9 :
        /\ j + 1 \in 1..10 /\ FoldOps[j] \in {"meet", "write", "read"}
        /\ FoldOps[j] = "meet" => Meets[j + 1] = Meets[j] + 1
        /\ FoldOps[j] = "write" => Meets[j + 1] = Meets[j]
        /\ FoldOps[j] = "read" => Meets[j + 1] = Meets[j]
  BY DEF FoldOps, Meets
<1>4. \A j \in 1..9 :
        /\ FoldOps[j] = "meet" => Left(j + 1) = Left(j)
        /\ FoldOps[j] = "write" => Left(j + 1) = FoldGs[j]
        /\ FoldOps[j] = "read" => Left(j + 1) = Left(j) /\ Left(j) = FoldGs[j]
  BY DEF FoldOps, FoldGs, Left
<1> QED BY <1>1, <1>2, <1>3, <1>4

(* How many of the fold's barriers come before an operation is a number.   *)
LEMMA MeetsIs == ASSUME NEW k \in 1..10 PROVE Meets[k] \in Nat
BY DEF Meets

(* What a step of one warp must show of its barriers and its scratch.      *)
LEMMA FoldsMove ==
  ASSUME Types, PlacesOK, Folds, NEW c \in Ctas, NEW w \in Warps,
         NEW at, NEW n, NEW k, Moves(c, w, at, n, k),
         \A d \in Ctas, u \in Warps : d # c \/ u # w => met'[d][u] = met[d][u] /\ scratch'[d][u] = scratch[d][u],
         met'[c][w] \in Nat, met[c][w] <= met'[c][w],
         met'[c][w] = Before(c, w)' + Meets[k] + (IF at = "held" THEN 1 ELSE 0),
         \A v \in Warps : Through(c, w)' <= met[c][v],
         Row(w) > 0 => scratch'[c][w] = Left(k)
  PROVE Folds'
<1>1. launch' = launch BY DEF Moves
<1>2. Ctas' = Ctas /\ Warps' = Warps /\ (Clustered' <=> Clustered) /\ (Exchanges' <=> Exchanges)
      /\ \A u : Row(u)' = Row(u)
  BY <1>1, Same
<1>3. At(c, w)' = at /\ (warp[c][w].k)' = k BY Counters
<1>4. ASSUME NEW d \in Ctas, NEW u \in Warps, d # c \/ u # w
      PROVE /\ warp'[d][u] = warp[d][u] /\ At(d, u)' = At(d, u) /\ Before(d, u)' = Before(d, u)
            /\ Through(d, u)' = Through(d, u) /\ met'[d][u] = met[d][u]
  <2>1. warp'[d][u] = warp[d][u] /\ At(d, u)' = At(d, u) /\ Stored(d, u)' = Stored(d, u) BY <1>4, Counters
  <2>2. met'[d][u] = met[d][u] BY <1>4
  <2>3. Before(d, u)' = Before(d, u) BY <1>2, <2>1 DEF Before
  <2>4. Through(d, u)' = Through(d, u) BY <1>2, <2>1, <2>2 DEF Through, Holding
  <2> QED BY <2>1, <2>2, <2>3, <2>4
<1>5. \A d \in Ctas, u \in Warps : met[d][u] \in Nat /\ met'[d][u] \in Nat /\ met[d][u] <= met'[d][u]
  <2> SUFFICES ASSUME NEW d \in Ctas, NEW u \in Warps
               PROVE met[d][u] \in Nat /\ met'[d][u] \in Nat /\ met[d][u] <= met'[d][u] OBVIOUS
  <2>1. met[d] \in [Warps -> Nat] BY DEF Types
  <2>2. met[d][u] \in Nat BY <2>1
  <2>3. CASE d = c /\ u = w BY <2>2, <2>3
  <2>4. CASE ~(d = c /\ u = w) BY <1>4, <2>2, <2>4
  <2> QED BY <2>3, <2>4
<1>6. MetCounts'
  <2>1. ASSUME NEW d \in Ctas, NEW u \in Warps
        PROVE met'[d][u] = Before(d, u)' + Meets[warp'[d][u].k] + (IF At(d, u)' = "held" THEN 1 ELSE 0)
    <3>1. CASE d = c /\ u = w BY <1>3, <3>1
    <3>2. CASE ~(d = c /\ u = w)
      <4>1. met[d][u] = Before(d, u) + Meets[warp[d][u].k] + (IF At(d, u) = "held" THEN 1 ELSE 0)
        BY DEF Folds, MetCounts
      <4> QED BY <1>4, <3>2, <4>1
    <3> QED BY <3>1, <3>2
  <2> QED BY <1>2, <2>1 DEF MetCounts, Meets
<1>7. MetAll'
  <2>1. ASSUME NEW d \in Ctas, NEW u \in Warps, NEW v \in Warps PROVE Through(d, u)' <= met'[d][v]
    <3>1. Through(d, u)' <= met[d][v] /\ Through(d, u)' \in Int
      <4>1. CASE d = c /\ u = w
        <5>1. Through(c, w)' \in Int BY <1>5 DEF Through
        <5> QED BY <4>1, <5>1
      <4>2. CASE ~(d = c /\ u = w)
        <5>1. Through(d, u)' = Through(d, u) BY <1>4, <4>2
        <5>2. Through(d, u) \in Int BY <1>5 DEF Through
        <5> QED BY <5>1, <5>2 DEF Folds, MetAll
      <4> QED BY <4>1, <4>2
    <3> QED BY <1>5, <3>1
  <2> QED BY <1>2, <2>1 DEF MetAll
<1>8. Scratch'
  <2>1. ASSUME NEW d \in Ctas, NEW u \in Warps, Row(u) > 0 PROVE scratch'[d][u] = Left(warp'[d][u].k)
    <3>1. CASE d = c /\ u = w BY <1>3, <2>1, <3>1
    <3>2. CASE ~(d = c /\ u = w)
      <4>1. warp'[d][u] = warp[d][u] BY <1>4, <3>2
      <4>2. scratch'[d][u] = scratch[d][u] BY <3>2
      <4>3. scratch[d][u] = Left(warp[d][u].k) BY <2>1 DEF Folds, Scratch
      <4> QED BY <4>1, <4>2, <4>3
    <3> QED BY <3>1, <3>2
  <2> QED BY <1>2, <2>1 DEF Scratch, Left
<1> QED BY <1>6, <1>7, <1>8 DEF Folds

(* A step that meets nobody and leaves nothing.                            *)
LEMMA QuietFolds ==
  ASSUME Types, PlacesOK, Folds, NEW c \in Ctas, NEW w \in Warps,
         NEW at, NEW n, NEW k, Moves(c, w, at, n, k), met' = met, scratch' = scratch,
         Before(c, w)' = Before(c, w), Meets[k] = Meets[warp[c][w].k], Left(k) = Left(warp[c][w].k),
         At(c, w) # "held", at # "held", Clustered \/ (at # "wait" /\ At(c, w) # "wait")
  PROVE Folds'
<1>1. launch' = launch BY DEF Moves
<1>2. (Clustered' <=> Clustered) BY <1>1, Same
<1>3. At(c, w)' = at BY Counters
<1>4. met[c] \in [Warps -> Nat] BY DEF Types
<1>5. met[c][w] \in Nat BY <1>4
<1>6. Through(c, w)' = met[c][w] - 0 /\ Through(c, w) = met[c][w] - 0 BY <1>2, <1>3 DEF Through, Holding
<1>7. \A v \in Warps : Through(c, w)' <= met[c][v] BY <1>6 DEF Folds, MetAll
<1>8. met'[c][w] = Before(c, w)' + Meets[k] + (IF at = "held" THEN 1 ELSE 0)
  <2>1. met[c][w] = Before(c, w) + Meets[warp[c][w].k] + (IF At(c, w) = "held" THEN 1 ELSE 0)
    BY DEF Folds, MetCounts
  <2> QED BY <2>1
<1>9. Row(w) > 0 => scratch'[c][w] = Left(k) BY DEF Folds, Scratch
<1>10. met[c][w] <= met'[c][w] BY <1>5
<1>11. \A d \in Ctas, u \in Warps : d # c \/ u # w => met'[d][u] = met[d][u] /\ scratch'[d][u] = scratch[d][u]
  OBVIOUS
<1> QED BY <1>5, <1>7, <1>8, <1>9, <1>10, <1>11, FoldsMove

(* A step of a warp keeps the CTA's barriers and the scratch.              *)
LEMMA FoldsStep ==
  ASSUME Types, PlacesOK, Folds, NEW c \in Ctas, NEW w \in Warps, WarpNext(c, w)
  PROVE Folds'
<1> DEFINE n == Round(c, w)
           k == warp[c][w].k
<1>1. n \in Nat /\ At(c, w) \in Places /\ k \in 1..10 BY WarpIs
<1>2. launch \in Launches /\ launch.backward \in BOOLEAN /\ Clustered \in BOOLEAN /\ (Clustered => Exchanges)
  BY Launched DEF Types
<1>3. PlaceOK(c, w) BY DEF PlacesOK
<1>4. Stored(c, w) = n + (IF At(c, w) \in {"wait", "combine", "gradient"} \cup Ended THEN 1 ELSE 0)
  BY DEF Stored, Past
<1>5. Ended = IF launch.backward THEN {} ELSE {"output", "done"} BY DEF Ended
<1>6. met[c] \in [Warps -> Nat] /\ met \in [Ctas -> [Warps -> Nat]] /\ scratch \in [Ctas -> [Warps -> 0..2]]
  BY DEF Types
<1>7. met[c][w] \in Nat BY <1>6
<1>8. met[c][w] = Before(c, w) + Meets[k] + (IF At(c, w) = "held" THEN 1 ELSE 0) BY DEF Folds, MetCounts
<1>9. Row(w) > 0 => scratch[c][w] = Left(k) BY DEF Folds, Scratch
<1>10. Meets[k] \in Nat BY <1>1, MeetsIs
<1>11. Before(c, w) \in Nat
  <2>1. Stored(c, w) \in Nat BY InOrder
  <2> QED BY <2>1 DEF Before
<1> HIDE DEF n, k
<1>12. ASSUME NEW at, NEW m, Moves(c, w, at, m, k), met' = met, scratch' = scratch,
              Stored(c, w)' = Stored(c, w) \/ Clustered \/ ~Exchanges,
              At(c, w) # "held", at # "held", Clustered \/ (at # "wait" /\ At(c, w) # "wait")
       PROVE Folds'
  <2>1. launch' = launch BY <1>12 DEF Moves
  <2>2. (Clustered' <=> Clustered) /\ (Exchanges' <=> Exchanges) BY <2>1, Same
  <2>3. Before(c, w)' = Before(c, w) BY <1>12, <2>2 DEF Before
  <2>4. Meets[k] = Meets[warp[c][w].k] /\ Left(k) = Left(warp[c][w].k) BY DEF k
  <2> QED BY <1>12, <2>3, <2>4, QuietFolds
<1>13. ASSUME Setup(c, w) PROVE Folds'
  <2>1. Moves(c, w, IF launch.backward THEN "join" ELSE "load", n, k) /\ UNCHANGED <<met, scratch>>
        /\ At(c, w) = "setup"
    BY <1>13, Moving DEF Setup, n, k
  <2> QED BY <1>2, <1>4, <1>5, <1>12, <2>1, Counters
<1>14. ASSUME Load(c, w) PROVE Folds'
  <2>1. Moves(c, w, "join", n, k) /\ UNCHANGED <<met, scratch>> /\ At(c, w) = "load"
    BY <1>14, Moving DEF Load, n, k
  <2> QED BY <1>2, <1>4, <1>5, <1>12, <2>1, Counters
<1>15. ASSUME Join(c, w) PROVE Folds'
  <2>1. Moves(c, w, IF launch.backward THEN "prefetch" ELSE "publish", n, k) /\ UNCHANGED <<met, scratch>>
        /\ At(c, w) = "join"
    BY <1>15, Moving DEF Join, n, k
  <2> QED BY <1>2, <1>4, <1>5, <1>12, <2>1, Counters
<1>16. ASSUME Prefetch(c, w) PROVE Folds'
  <2>1. Moves(c, w, "ahead", n, k) /\ UNCHANGED <<met, scratch>> /\ At(c, w) = "prefetch"
    BY <1>16, Moving DEF Prefetch, n, k
  <2> QED BY <1>2, <1>4, <1>5, <1>12, <2>1, Counters
<1>17. ASSUME Ahead(c, w) PROVE Folds'
  <2>1. Moves(c, w, "arrives", n, k) /\ UNCHANGED <<met, scratch>> /\ At(c, w) = "ahead"
    BY <1>17, Moving DEF Ahead, n, k
  <2> QED BY <1>2, <1>4, <1>5, <1>12, <2>1, Counters
<1>18. ASSUME WaitTile(c, w) PROVE Folds'
  <2>1. Moves(c, w, "tile", n, k) /\ UNCHANGED <<met, scratch>> /\ At(c, w) = "arrives"
    BY <1>18, Moving DEF WaitTile, n, k
  <2> QED BY <1>2, <1>4, <1>5, <1>12, <2>1, Counters
<1>19. ASSUME Acquire(c, w) PROVE Folds'
  <2>1. Moves(c, w, "publish", n, k) /\ UNCHANGED <<met, scratch>> /\ At(c, w) = "tile"
    BY <1>19, Moving DEF Acquire, n, k
  <2> QED BY <1>2, <1>4, <1>5, <1>12, <2>1, Counters
<1>20. ASSUME PublishCluster(c, w) PROVE Folds'
  <2>1. Moves(c, w, "wait", n, k) /\ UNCHANGED <<met, scratch>> /\ At(c, w) = "publish" /\ Clustered
    BY <1>20, Moving DEF PublishCluster, n, k
  <2> QED BY <1>12, <2>1
<1>21. ASSUME Alone(c, w) PROVE Folds'
  <2>1. Moves(c, w, "combine", n, k) /\ UNCHANGED <<met, scratch>> /\ At(c, w) = "publish" /\ ~Exchanges
    BY <1>21, Moving DEF Alone, n, k
  <2> QED BY <1>12, <2>1
<1>22. ASSUME CombineBackward(c, w) PROVE Folds'
  <2>1. Moves(c, w, "gradient", n, k) /\ UNCHANGED <<met, scratch>> /\ At(c, w) = "combine"
    BY <1>22, Moving DEF CombineBackward, n, k
  <2> QED BY <1>2, <1>4, <1>5, <1>12, <2>1, Counters
<1>23. ASSUME CombineForward(c, w) PROVE Folds'
  <2>1. /\ IF n + 1 < launch.rounds THEN Moves(c, w, "publish", n + 1, k) ELSE Moves(c, w, "output", n, k)
        /\ UNCHANGED <<met, scratch>> /\ At(c, w) = "combine" /\ ~launch.backward
    BY <1>23, Moving DEF CombineForward, n, k
  <2>2. CASE n + 1 < launch.rounds
    <3>1. Moves(c, w, "publish", n + 1, k) BY <2>1, <2>2
    <3> QED BY <1>1, <1>4, <1>5, <1>12, <2>1, <3>1, Counters
  <2>3. CASE ~(n + 1 < launch.rounds)
    <3>1. Moves(c, w, "output", n, k) BY <2>1, <2>3
    <3> QED BY <1>1, <1>4, <1>5, <1>12, <2>1, <3>1, Counters
  <2> QED BY <2>2, <2>3
<1>24. ASSUME Output(c, w) PROVE Folds'
  <2>1. Moves(c, w, "done", n, k) /\ UNCHANGED <<met, scratch>> /\ At(c, w) = "output"
    BY <1>24, Moving DEF Output, n, k
  <2>2. ~launch.backward BY <1>3, <2>1 DEF PlaceOK
  <2> QED BY <1>4, <1>5, <1>12, <2>1, <2>2, Counters
<1>25. ASSUME Gradient(c, w) PROVE Folds'
  <2>1. Moves(c, w, "ahead", n + 1, k) /\ UNCHANGED <<met, scratch>> /\ At(c, w) = "gradient"
    BY <1>25, Moving DEF Gradient, n, k
  <2>2. launch.backward BY <1>3, <2>1 DEF PlaceOK
  <2> QED BY <1>1, <1>4, <1>5, <1>12, <2>1, <2>2, Counters
<1>26. ASSUME LeaveLoop(c, w) PROVE Folds'
  <2>1. Moves(c, w, "fold", n, k) /\ UNCHANGED <<met, scratch>> /\ At(c, w) = "ahead"
    BY <1>26, Moving DEF LeaveLoop, n, k
  <2> QED BY <1>2, <1>4, <1>5, <1>12, <2>1, Counters
<1>27. ASSUME Leave(c, w) PROVE Folds'
  <2>1. Moves(c, w, "done", n, k) /\ UNCHANGED <<met, scratch>> /\ At(c, w) = "fold"
    BY <1>27, Moving DEF Leave, n, k
  <2>2. launch.backward BY <1>3, <2>1 DEF PlaceOK
  <2> QED BY <1>4, <1>5, <1>12, <2>1, <2>2, Counters
<1>28. ASSUME PublishBlock(c, w) PROVE Folds'
  <2>1. /\ Moves(c, w, "wait", n, k) /\ scratch' = scratch /\ At(c, w) = "publish" /\ ~Clustered /\ Exchanges
        /\ met' = [met EXCEPT ![c][w] = @ + 1]
    BY <1>28, Moving DEF PublishBlock, n, k
  <2>2. launch' = launch BY <2>1 DEF Moves
  <2>3. (Clustered' <=> Clustered) /\ (Exchanges' <=> Exchanges) BY <2>2, Same
  <2>4. At(c, w)' = "wait" /\ Stored(c, w)' = n + 1 BY <2>1, Counters
  <2>5. Before(c, w) = n /\ Before(c, w)' = n + 1
    <3>1. Stored(c, w) = n + 0 BY <1>4, <1>5, <2>1
    <3>2. Stored(c, w) = n BY <1>1, <3>1
    <3> QED BY <2>1, <2>3, <2>4, <3>2 DEF Before
  <2>6. PICK x : x = met[c][w] + 1 OBVIOUS
  <2>7. x \in Nat /\ met' = [met EXCEPT ![c][w] = x] BY <1>6, <1>7, <2>1, <2>6
  <2>8. \A d \in Ctas, u \in Warps : met'[d][u] = IF d = c /\ u = w THEN x ELSE met[d][u]
    BY <1>6, <2>7, Except2
  <2>9. Through(c, w)' = met[c][w] /\ Through(c, w) = met[c][w]
    <3>1. Through(c, w)' = x - 1 BY <2>1, <2>3, <2>4, <2>8 DEF Through, Holding
    <3>2. Through(c, w) = met[c][w] - 0 BY <2>1 DEF Through, Holding
    <3> QED BY <1>7, <2>6, <3>1, <3>2
  <2>10. \A v \in Warps : Through(c, w)' <= met[c][v] BY <2>9 DEF Folds, MetAll
  <2>11. met'[c][w] = Before(c, w)' + Meets[k] + 0
    <3>1. met[c][w] = n + Meets[k] + 0 BY <1>8, <2>1, <2>5
    <3>2. x = n + 1 + Meets[k] + 0 BY <1>1, <1>10, <2>6, <3>1
    <3> QED BY <2>5, <2>8, <3>2
  <2>12. met[c][w] <= met'[c][w] /\ met'[c][w] \in Nat BY <1>7, <2>6, <2>7, <2>8
  <2> QED BY <1>9, <2>1, <2>8, <2>10, <2>11, <2>12, FoldsMove
<1>29. ASSUME WaitAll(c, w) PROVE Folds'
  <2>1. /\ Moves(c, w, "combine", n, k) /\ UNCHANGED <<met, scratch>> /\ At(c, w) = "wait"
        /\ (~Clustered => AllMet(c, w))
    BY <1>29, Moving DEF WaitAll, n, k
  <2>2. launch' = launch BY <2>1 DEF Moves
  <2>3. (Clustered' <=> Clustered) /\ (Exchanges' <=> Exchanges) BY <2>2, Same
  <2>4. At(c, w)' = "combine" /\ Stored(c, w)' = n + 1 BY <2>1, Counters
  <2>5. CASE Clustered BY <1>12, <2>1, <2>5
  <2>6. CASE ~Clustered
    <3>1. Before(c, w)' = Before(c, w)
      <4>1. Stored(c, w) = n + 1 BY <1>4, <2>1
      <4> QED BY <2>3, <2>4, <4>1 DEF Before
    <3>2. Through(c, w)' = met[c][w]
      <4>1. Through(c, w)' = met[c][w] - 0 BY <2>1, <2>4 DEF Through, Holding
      <4> QED BY <1>7, <4>1
    <3>3. \A v \in Warps : Through(c, w)' <= met[c][v]
      <4>1. \A v \in Warps : met[c][v] >= met[c][w] /\ met[c][v] \in Nat BY <1>6, <2>1, <2>6 DEF AllMet
      <4> QED BY <1>7, <3>2, <4>1
    <3>4. met'[c][w] = Before(c, w)' + Meets[k] + 0 BY <1>8, <2>1, <3>1
    <3>5. met[c][w] <= met'[c][w] /\ met'[c][w] \in Nat BY <1>7, <2>1
    <3> QED BY <1>9, <2>1, <3>3, <3>4, <3>5, FoldsMove
  <2> QED BY <2>5, <2>6
<1>30. ASSUME FoldArrive(c, w) PROVE Folds'
  <2>1. /\ Moves(c, w, "held", n, k) /\ scratch' = scratch /\ At(c, w) = "fold"
        /\ met' = [met EXCEPT ![c][w] = @ + 1]
    BY <1>30, Moving DEF FoldArrive, Folding, n, k
  <2>2. launch' = launch BY <2>1 DEF Moves
  <2>3. (Clustered' <=> Clustered) /\ (Exchanges' <=> Exchanges) BY <2>2, Same
  <2>4. At(c, w)' = "held" /\ Ended' = Ended BY <2>1, <2>2, Counters, Same
  <2>41. launch.backward BY <1>3, <2>1 DEF PlaceOK
  <2>5. Before(c, w)' = Before(c, w)
    <3>1. Stored(c, w) = n + 0 BY <1>4, <1>5, <2>1
    <3>2. Stored(c, w)' = n + 0 BY <1>5, <2>1, <2>41, Counters
    <3> QED BY <2>3, <3>1, <3>2 DEF Before
  <2>6. PICK x : x = met[c][w] + 1 OBVIOUS
  <2>7. x \in Nat /\ met' = [met EXCEPT ![c][w] = x] BY <1>6, <1>7, <2>1, <2>6
  <2>8. \A d \in Ctas, u \in Warps : met'[d][u] = IF d = c /\ u = w THEN x ELSE met[d][u]
    BY <1>6, <2>7, Except2
  <2>9. Through(c, w)' = met[c][w] /\ Through(c, w) = met[c][w]
    <3>1. Through(c, w)' = x - 1 BY <2>4, <2>8 DEF Through, Holding
    <3>2. Through(c, w) = met[c][w] - 0 BY <2>1 DEF Through, Holding
    <3> QED BY <1>7, <2>6, <3>1, <3>2
  <2>10. \A v \in Warps : Through(c, w)' <= met[c][v] BY <2>9 DEF Folds, MetAll
  <2>11. met'[c][w] = Before(c, w)' + Meets[k] + 1
    <3>1. met[c][w] = Before(c, w) + Meets[k] + 0 BY <1>8, <2>1
    <3>2. x = Before(c, w) + Meets[k] + 1 BY <1>10, <1>11, <2>6, <3>1
    <3> QED BY <2>5, <2>8, <3>2
  <2>12. met[c][w] <= met'[c][w] /\ met'[c][w] \in Nat BY <1>7, <2>6, <2>7, <2>8
  <2> QED BY <1>9, <2>1, <2>8, <2>10, <2>11, <2>12, FoldsMove
<1>31. ASSUME FoldLeave(c, w) \/ FoldWrite(c, w) \/ FoldRead(c, w)
       PROVE /\ Moves(c, w, "fold", n, k + 1) /\ met' = met /\ At(c, w) \in {"fold", "held"} /\ launch' = launch
             /\ k \in 1..Len(Fold) /\ Op(c, w) = Fold[k] /\ At(c, w)' = "fold"
             /\ Before(c, w)' = Before(c, w) /\ Through(c, w)' = met[c][w]
             /\ met[c][w] <= met'[c][w] /\ met'[c][w] \in Nat
  <2>1. /\ Moves(c, w, "fold", n, k + 1) /\ met' = met /\ At(c, w) \in {"fold", "held"}
    BY <1>31, Moving DEF FoldLeave, FoldWrite, FoldRead, Folding, n, k
  <2>2. launch' = launch BY <2>1 DEF Moves
  <2>3. (Clustered' <=> Clustered) /\ (Exchanges' <=> Exchanges) BY <2>2, Same
  <2>4. At(c, w)' = "fold" BY <2>1, Counters
  <2>5. launch.backward BY <1>3, <2>1 DEF PlaceOK
  <2>6. k \in 1..Len(Fold) /\ Op(c, w) = Fold[k]
    <3>1. k <= Len(Fold) BY <1>3, <1>31 DEF PlaceOK, FoldLeave, FoldWrite, FoldRead, Folding, k
    <3>2. Len(Fold) \in 0..9 BY <1>2, FoldIs
    <3>3. PICK l : l = Len(Fold) OBVIOUS
    <3>4. k \in 1..l BY <1>1, <3>1, <3>2, <3>3
    <3> QED BY <3>3, <3>4 DEF Op, k
  <2>7. Before(c, w)' = Before(c, w)
    <3>1. Stored(c, w) = n + 0 BY <1>4, <1>5, <2>1, <2>5
    <3>2. Stored(c, w)' = n + 0 BY <1>5, <2>1, <2>5, Counters
    <3> QED BY <2>3, <3>1, <3>2 DEF Before
  <2>8. Through(c, w)' = met[c][w]
    <3>1. Through(c, w)' = met[c][w] - 0 BY <2>1, <2>4 DEF Through, Holding
    <3> QED BY <1>7, <3>1
  <2>9. met[c][w] <= met'[c][w] /\ met'[c][w] \in Nat BY <1>7, <2>1
  <2> QED BY <2>1, <2>2, <2>4, <2>6, <2>7, <2>8, <2>9
<1>32. ASSUME FoldLeave(c, w) PROVE Folds'
  <2>1. At(c, w) = "held" /\ AllMet(c, w) /\ scratch' = scratch /\ Fold[k].op = "meet"
    BY <1>3, <1>32 DEF FoldLeave, PlaceOK, Op, k
  <2>2. Meets[k + 1] = Meets[k] + 1 /\ Left(k + 1) = Left(k) BY <1>2, <1>31, <1>32, <2>1, FoldCounts
  <2>3. met'[c][w] = Before(c, w)' + Meets[k + 1] + 0
    <3>1. met[c][w] = Before(c, w) + Meets[k] + 1 BY <1>8, <2>1
    <3> QED BY <1>10, <1>11, <1>31, <1>32, <2>2, <3>1
  <2>4. \A v \in Warps : Through(c, w)' <= met[c][v]
    <3>1. \A v \in Warps : met[c][v] >= met[c][w] /\ met[c][v] \in Nat BY <1>6, <2>1 DEF AllMet
    <3> QED BY <1>7, <1>31, <1>32, <3>1
  <2>5. Row(w) > 0 => scratch'[c][w] = Left(k + 1) BY <1>9, <2>1, <2>2
  <2> QED BY <1>31, <1>32, <2>1, <2>3, <2>4, <2>5, FoldsMove
<1>33. ASSUME FoldWrite(c, w) \/ FoldRead(c, w)
       PROVE /\ \A v \in Warps : Through(c, w)' <= met[c][v]
             /\ met'[c][w] = Before(c, w)' + Meets[k + 1] + 0
  <2>1. At(c, w) = "fold" /\ Fold[k].op \in {"write", "read"} BY <1>31, <1>33 DEF FoldWrite, FoldRead, Folding
  <2>2. Meets[k + 1] = Meets[k] BY <1>2, <1>31, <1>33, <2>1, FoldCounts
  <2>3. met'[c][w] = Before(c, w)' + Meets[k + 1] + 0 BY <1>8, <1>31, <1>33, <2>1, <2>2
  <2>4. Through(c, w) = met[c][w]
    <3>1. Through(c, w) = met[c][w] - 0 BY <2>1 DEF Through, Holding
    <3> QED BY <1>7, <3>1
  <2>5. \A v \in Warps : Through(c, w)' <= met[c][v] BY <1>31, <1>33, <2>4 DEF Folds, MetAll
  <2> QED BY <2>3, <2>5
<1>34. ASSUME FoldRead(c, w) PROVE Folds'
  <2>1. scratch' = scratch /\ Fold[k].op = "read" BY <1>31, <1>34 DEF FoldRead
  <2>2. Left(k + 1) = Left(k) BY <1>2, <1>31, <1>34, <2>1, FoldCounts
  <2>3. Row(w) > 0 => scratch'[c][w] = Left(k + 1) BY <1>9, <2>1, <2>2
  <2> QED BY <1>31, <1>33, <1>34, <2>1, <2>3, FoldsMove
<1>35. ASSUME FoldWrite(c, w) PROVE Folds'
  <2>1. Fold[k].op = "write" BY <1>31, <1>35 DEF FoldWrite
  <2>2. Left(k + 1) = Fold[k].g BY <1>2, <1>31, <1>35, <2>1, FoldCounts
  <2>3. \A d \in Ctas, u \in Warps : d # c \/ u # w => scratch'[d][u] = scratch[d][u]
    <3>1. CASE Row(w) > 0
      <4>1. scratch' = [scratch EXCEPT ![c][w] = Op(c, w).g] BY <1>35, <3>1 DEF FoldWrite
      <4>2. Left(k + 1) \in 0..2 BY DEF Left
      <4>3. Op(c, w).g \in 0..2 BY <1>31, <1>35, <2>2, <4>2
      <4> QED BY <1>6, <4>1, <4>3, Except2
    <3>2. CASE ~(Row(w) > 0)
      <4>1. scratch' = scratch BY <1>35, <3>2 DEF FoldWrite
      <4> QED BY <4>1
    <3> QED BY <3>1, <3>2
  <2>4. Row(w) > 0 => scratch'[c][w] = Left(k + 1)
    <3> SUFFICES ASSUME Row(w) > 0 PROVE scratch'[c][w] = Left(k + 1) OBVIOUS
    <3>1. scratch' = [scratch EXCEPT ![c][w] = Op(c, w).g] BY <1>35 DEF FoldWrite
    <3>2. Left(k + 1) \in 0..2 BY DEF Left
    <3>3. Op(c, w).g = Left(k + 1) BY <1>31, <1>35, <2>2
    <3> QED BY <1>6, <3>1, <3>2, <3>3, Except2
  <2> QED BY <1>31, <1>33, <1>35, <2>3, <2>4, FoldsMove
<1> QED
  BY <1>13, <1>14, <1>15, <1>16, <1>17, <1>18, <1>19, <1>20, <1>21, <1>22, <1>23, <1>24, <1>25, <1>26, <1>27,
     <1>28, <1>29, <1>30, <1>32, <1>34, <1>35 DEF WarpNext

(* A step that moves no warp keeps the CTA's barriers and the scratch.     *)
LEMMA FoldsSame ==
  ASSUME Folds, UNCHANGED <<launch, warp, met, scratch>>
  PROVE Folds'
<1>1. Ctas' = Ctas /\ Warps' = Warps /\ (Clustered' <=> Clustered) /\ (Exchanges' <=> Exchanges)
      /\ \A u : Row(u)' = Row(u)
  BY Same
<1>2. \A c, w : At(c, w)' = At(c, w) /\ Stored(c, w)' = Stored(c, w) BY Still
<1>3. \A c, w : Before(c, w)' = Before(c, w) /\ Through(c, w)' = Through(c, w)
  BY <1>1, <1>2 DEF Before, Through, Holding
<1>4. MetCounts' BY <1>1, <1>2, <1>3 DEF Folds, MetCounts, Meets
<1>5. MetAll' BY <1>1, <1>3 DEF Folds, MetAll
<1>6. Scratch' BY <1>1 DEF Folds, Scratch, Left
<1> QED BY <1>4, <1>5, <1>6 DEF Folds

-----------------------------------------------------------------------------
(* The tile ring.                                                          *)

(* Division with remainder.                                                *)
LEMMA DivMod == ASSUME NEW a \in Nat, NEW b \in Nat \ {0}
  PROVE /\ a \div b \in Nat /\ a % b \in 0..b-1 /\ a = b * (a \div b) + (a % b)
BY Z3

(* A product grows with its factors.                                       *)
LEMMA MulMono == ASSUME NEW a \in Nat, NEW b \in Nat, NEW c \in Nat, a <= b
  PROVE a * c <= b * c
BY Z3

(* A number has one remainder and one quotient.                            *)
LEMMA Unique == ASSUME NEW c \in Nat \ {0}, NEW x \in 0..c-1, NEW y \in 0..c-1,
   NEW a \in Nat, NEW b \in Nat, x + a * c = y + b * c
  PROVE x = y /\ a = b
<1>1. CASE a < b
  <2>1. a + 1 <= b BY <1>1
  <2>2. (a + 1) * c <= b * c BY <2>1, MulMono
  <2>3. (a + 1) * c = a * c + c BY Z3
  <2> QED BY <2>2, <2>3, Z3
<1>2. CASE b < a
  <2>2. (b + 1) * c <= a * c BY <1>2, MulMono
  <2>3. (b + 1) * c = b * c + c BY Z3
  <2> QED BY <2>2, <2>3, Z3
<1>3. CASE a = b BY <1>3
<1> QED BY <1>1, <1>2, <1>3

(* A lap further the remainder is the same and the quotient one more; two  *)
(* numbers of one remainder are a lap apart.                               *)
LEMMA Lap ==
  ASSUME NEW b \in Nat \ {0}, NEW n \in Nat
  PROVE /\ (n + b) % b = n % b /\ (n + b) \div b = (n \div b) + 1
        /\ \A m \in Nat : m % b = n % b /\ m > n => m >= n + b
        /\ n < b => n % b = n /\ n \div b = 0
<1> DEFINE q == n \div b
           r == n % b
           i == (n + b) \div b
           j == (n + b) % b
<1>1. q \in Nat /\ r \in 0..b-1 /\ n = b * q + r BY DivMod
<1>2. i \in Nat /\ j \in 0..b-1 /\ n + b = b * i + j
  <2>1. n + b \in Nat OBVIOUS
  <2> QED BY <2>1, DivMod
<1> HIDE DEF q, r, i, j
<1>3. b * q = q * b /\ b * i = i * b /\ (q + 1) * b = q * b + b /\ q * b \in Nat /\ i * b \in Nat
  BY <1>1, <1>2, Z3
<1>4. r + (q + 1) * b = j + i * b BY <1>1, <1>2, <1>3
<1>5. r = j /\ q + 1 = i BY <1>1, <1>2, <1>4, Unique
<1>6. ASSUME NEW m \in Nat, m % b = r, m > n PROVE m >= n + b
  <2> DEFINE e == m \div b
  <2>1. e \in Nat /\ m = b * e + r BY <1>6, DivMod
  <2> HIDE DEF e
  <2>2. b * e = e * b /\ e * b \in Nat BY <2>1, Z3
  <2>3. ~(e <= q)
    <3>1. SUFFICES ASSUME e <= q PROVE FALSE OBVIOUS
    <3>2. e * b <= q * b BY <1>1, <2>1, <3>1, MulMono
    <3> QED BY <1>1, <1>3, <1>6, <2>1, <2>2, <3>2
  <2>4. q + 1 <= e BY <1>1, <2>1, <2>3
  <2>5. (q + 1) * b <= e * b BY <1>1, <2>1, <2>4, MulMono
  <2> QED BY <1>1, <1>3, <2>1, <2>2, <2>5
<1>7. ASSUME n < b PROVE r = n /\ q = 0
  <2>1. 0 * b = 0 BY Z3
  <2>2. n + 0 * b = r + q * b BY <1>1, <1>3, <2>1
  <2>3. n \in 0..b-1 BY <1>7
  <2> QED BY <1>1, <2>2, <2>3, Unique
<1> QED BY <1>5, <1>6, <1>7 DEF q, r, i, j

(* A tile's stage and phase come round every lap.                          *)
LEMMA TileRing ==
  ASSUME launch \in Launches, NEW n \in Nat
  PROVE /\ TileStage(n) \in TileStages /\ TilePhase(n) \in {0, 1}
        /\ TileStage(n + launch.tileStages) = TileStage(n)
        /\ TilePhase(n + launch.tileStages) = 1 - TilePhase(n)
        /\ \A m \in Nat : TileStage(m) = TileStage(n) /\ m > n => m >= n + launch.tileStages
        /\ n < launch.tileStages => TileStage(n) = n /\ TilePhase(n) = 0
<1> DEFINE b == launch.tileStages
           q == n \div b
<1>1. b \in Nat \ {0} BY Launched
<1> HIDE DEF b
<1>2. q \in Nat /\ n % b \in 0..b-1 BY <1>1, DivMod
<1>3. /\ (n + b) % b = n % b /\ (n + b) \div b = q + 1
      /\ \A m \in Nat : m % b = n % b /\ m > n => m >= n + b
      /\ n < b => n % b = n /\ q = 0
  BY <1>1, Lap
<1> HIDE DEF q
<1>4. (q + 1) % 2 = 1 - (q % 2) /\ q % 2 \in {0, 1} /\ (q = 0 => q % 2 = 0) BY <1>2
<1>5. \A m : TileStage(m) = m % b BY DEF TileStage, b
<1>6. TilePhase(n) = q % 2 /\ TilePhase(n + b) = ((n + b) \div b) % 2 BY DEF TilePhase, b, q
<1>7. TileStages = 0..b-1 BY DEF TileStages, b
<1>8. TilePhase(n + b) = (q + 1) % 2 BY <1>3, <1>6
<1> QED BY <1>2, <1>3, <1>4, <1>5, <1>6, <1>7, <1>8 DEF b

(* How many tiles a warp has issued after a step of its own.               *)
LEMMA IssuedMove ==
  ASSUME Types, NEW c \in Ctas, NEW w \in Warps, NEW at, NEW n, NEW k, Moves(c, w, at, n, k)
  PROVE Issued(c, w)' =
          IF ~launch.backward \/ at \in {"setup", "load", "join", "prefetch"} THEN 0
          ELSE LET most == n + (IF at \in Loop THEN 1 ELSE 0) + Lead IN
               IF most < launch.rounds THEN most ELSE launch.rounds
<1>1. launch' = launch BY DEF Moves
<1>2. Lead' = Lead BY <1>1, Same
<1>3. At(c, w)' = at /\ Round(c, w)' = n BY Counters
<1> QED BY <1>1, <1>2, <1>3 DEF Issued, Past

(* Which warp fetches for which.                                           *)
LEMMA FetcherIs ==
  ASSUME launch \in Launches, NEW w \in Warps
  PROVE /\ Fetcher(w) \in Warps /\ Fetcher(Fetcher(w)) = Fetcher(w)
        /\ launch.tma => Fetcher(w) = 0
        /\ ~launch.tma => Fetcher(w) = w
        /\ w \in Part(Fetcher(w)) /\ Part(w) \in SUBSET Warps
        /\ \A u \in Warps : Fetcher(u) = u => (w \in Part(u) <=> Fetcher(w) = u)
        /\ Fetches(w) <=> Fetcher(w) = w
<1>1. 0 \in Warps /\ launch.tma \in BOOLEAN BY Launched
<1> QED BY <1>1 DEF Fetcher, Part, Fetches

(* An item tells the CTA, the warp that fetches it and the tile.           *)
LEMMA ItemIs ==
  ASSUME launch \in Launches, NEW c, NEW d, NEW n, NEW m, NEW w \in Warps, NEW u \in Warps,
         Fetcher(w) = w, Fetcher(u) = u, Item(c, w, n) = Item(d, u, m)
  PROVE c = d /\ w = u /\ n = m
<1>1. Item(c, w, n).cta = c /\ Item(c, w, n).n = n /\ Item(c, w, n).part = Part(w) BY DEF Item
<1>2. Item(d, u, m).cta = d /\ Item(d, u, m).n = m /\ Item(d, u, m).part = Part(u) BY DEF Item
<1>3. c = d /\ n = m /\ Part(w) = Part(u) BY <1>1, <1>2
<1>4. launch.tma \in BOOLEAN BY Launched
<1> QED BY <1>3, <1>4 DEF Part, Fetcher

(* What is being fetched.                                                  *)
LEMMA LoadingIs ==
  ASSUME Types, Ring, NEW f \in loading
  PROVE /\ f.cta \in Ctas /\ f.n \in Nat
        /\ \E w \in Warps : Fetcher(w) = w /\ f = Item(f.cta, w, f.n) /\ f.part = Part(w) /\ f.n < Issued(f.cta, w)
<1>1. f \in [cta : Ctas, part : SUBSET Warps, n : Nat] BY DEF Types
<1>2. PICK w \in Warps : Fetcher(w) = w /\ f = Item(f.cta, w, f.n) /\ f.n < Issued(f.cta, w)
  BY DEF Ring, Loading
<1>3. Item(f.cta, w, f.n).part = Part(w) BY DEF Item
<1> QED BY <1>1, <1>2, <1>3

(* A stage is fetched again only when its readers are done, whoever it is  *)
(* that fetches.                                                           *)
LEMMA AgainReadBy ==
  ASSUME Types, PlacesOK, Ring, launch.backward, NEW c \in Ctas, NEW w \in Warps, NEW n \in Nat,
         n + launch.tileStages < Issued(c, Fetcher(w))
  PROVE Round(c, w) > n
<1>1. launch \in Launches BY DEF Types
<1>2. launch.tma \in BOOLEAN /\ Lead \in Nat /\ Lead = launch.tileStages - 1 /\ launch.tileStages \in Nat
      /\ launch.rounds \in Nat
  BY <1>1, Launched
<1>3. CASE launch.tma
  <2>1. Fetcher(w) = 0 BY <1>3 DEF Fetcher
  <2> QED BY <1>3, <2>1 DEF Ring, AgainRead
<1>4. CASE ~launch.tma
  <2>1. n + launch.tileStages < Issued(c, w) BY <1>4 DEF Fetcher
  <2>2. Round(c, w) \in Nat BY WarpIs
  <2>3. Issued(c, w) \in Nat /\ Issued(c, w) <= Round(c, w) + 1 + Lead
    BY <1>2, <2>2 DEF Issued, Past
  <2> QED BY <1>2, <2>1, <2>2, <2>3
<1> QED BY <1>2, <1>3, <1>4

(* Who fetches for a warp does not change.                                 *)
LEMMA FetcherSame ==
  ASSUME launch' = launch, NEW c, NEW w, NEW n
  PROVE \A x : x = Fetcher(w) =>
             /\ Issued(c, Fetcher(w))' = Issued(c, x)'
             /\ Landed(c, Fetcher(w), n)' <=> Landed(c, x, n)'
<1>1. Fetcher(w)' = Fetcher(w) BY Same
<1>2. ASSUME NEW x, x = Fetcher(w)
      PROVE Issued(c, Fetcher(w))' = Issued(c, x)' /\ Item(c, Fetcher(w), n)' = Item(c, x, n)'
  <2>1. Fetcher(w)' = x BY <1>1, <1>2
  <2>2. At(c, Fetcher(w))' = At(c, x)' /\ Round(c, Fetcher(w))' = Round(c, x)' BY <2>1 DEF At, Round
  <2>3. Part(Fetcher(w))' = Part(x)' BY <2>1 DEF Part
  <2>4. Item(c, Fetcher(w), n)' = Item(c, x, n)' BY <2>3 DEF Item
  <2>5. Issued(c, Fetcher(w))' = Issued(c, x)' BY <2>2 DEF Issued, Past
  <2> QED BY <2>4, <2>5
<1>3. ASSUME NEW x, x = Fetcher(w) PROVE Landed(c, Fetcher(w), n)' <=> Landed(c, x, n)'
  BY <1>2, <1>3 DEF Landed
<1> QED BY <1>2, <1>3

(* A step that fetches nothing leaves what was fetched where it was.       *)
LEMMA RingStays ==
  ASSUME Types, Ring, launch' = launch, fetched' = fetched, loading' = loading,
         launch.backward => \A d \in Ctas, u \in Warps : Round(d, u)' \in Nat /\ Round(d, u) <= Round(d, u)',
         \A d \in Ctas, u \in Warps : Fetcher(u) = u => Issued(d, u)' = Issued(d, u),
         launch.backward => \A d \in Ctas, u \in Warps : \A m \in Nat :
           Tiled(d, u)' > m => Landed(d, Fetcher(u), m)
  PROVE /\ Loading' /\ TiledLanded' /\ AgainRead' /\ FetchedCounts'
        /\ \A c \in Ctas, w \in Warps, n \in Nat :
             /\ Landed(c, Fetcher(w), n)' <=> Landed(c, Fetcher(w), n)
             /\ Issued(c, Fetcher(w))' = Issued(c, Fetcher(w))
<1>1. launch \in Launches BY DEF Types
<1>2. /\ Ctas' = Ctas /\ Warps' = Warps
      /\ \A w : Fetcher(w)' = Fetcher(w) /\ Part(w)' = Part(w)
      /\ \A n \in Nat : TileStage(n)' = TileStage(n) /\ TilePhase(n)' = TilePhase(n)
  BY Same
<1>4. \A c, w, n : Item(c, w, n)' = Item(c, w, n) BY <1>2 DEF Item
<1>5. \A d \in Ctas, u \in Warps, n \in Nat : Fetcher(u) = u => (Landed(d, u, n)' <=> Landed(d, u, n))
  BY <1>4 DEF Landed
<1>6. \A u \in Warps : Fetcher(u) \in Warps /\ Fetcher(Fetcher(u)) = Fetcher(u) BY <1>1, FetcherIs
<1>7. ASSUME NEW c \in Ctas, NEW w \in Warps, NEW n \in Nat
      PROVE /\ Landed(c, Fetcher(w), n)' <=> Landed(c, Fetcher(w), n)
            /\ Issued(c, Fetcher(w))' = Issued(c, Fetcher(w))
  <2>1. PICK x : x = Fetcher(w) OBVIOUS
  <2>2. x \in Warps /\ Fetcher(x) = x BY <1>6, <2>1
  <2>3. Issued(c, x)' = Issued(c, x) /\ (Landed(c, x, n)' <=> Landed(c, x, n)) BY <1>5, <2>2
  <2>4. Issued(c, Fetcher(w))' = Issued(c, x)' /\ (Landed(c, Fetcher(w), n)' <=> Landed(c, x, n)')
    BY <2>1, FetcherSame
  <2> QED BY <2>1, <2>3, <2>4
<1>8. 0 \in Warps /\ (launch.tma => Fetcher(0) = 0) BY <1>1, Launched DEF Fetcher
<1>9. Loading'
  <2>1. Loading BY DEF Ring
  <2>2. \A f \in loading : f.cta \in Ctas BY DEF Types
  <2>3. ASSUME NEW f \in loading
        PROVE \E w \in Warps : Fetcher(w)' = w /\ f = Item(f.cta, w, f.n)' /\ f.n < Issued(f.cta, w)'
    <3>1. PICK w \in Warps : Fetcher(w) = w /\ f = Item(f.cta, w, f.n) /\ f.n < Issued(f.cta, w)
      BY <2>1 DEF Loading
    <3>2. Issued(f.cta, w)' = Issued(f.cta, w) BY <2>2, <3>1
    <3>3. Item(f.cta, w, f.n)' = Item(f.cta, w, f.n) BY <1>4
    <3> QED BY <1>2, <3>1, <3>2, <3>3
  <2> QED BY <1>2, <2>3 DEF Loading
<1>10. TiledLanded'
  <2>1. SUFFICES ASSUME launch.backward, NEW c \in Ctas, NEW w \in Warps, NEW n \in Nat, Tiled(c, w)' > n
                 PROVE Landed(c, Fetcher(w), n)'
    BY <1>2 DEF TiledLanded
  <2>2. Landed(c, Fetcher(w), n) BY <2>1
  <2> QED BY <1>7, <2>2
<1>11. AgainRead'
  <2>1. SUFFICES ASSUME launch.backward, launch.tma, NEW c \in Ctas, NEW w \in Warps, NEW n \in Nat,
                        n + launch.tileStages < Issued(c, 0)'
                 PROVE Round(c, w)' > n
    BY <1>2 DEF AgainRead
  <2>2. Round(c, w) > n BY <1>8, <2>1 DEF AgainRead, Ring
  <2>3. Round(c, w) \in Nat BY WarpIs
  <2> QED BY <2>1, <2>2, <2>3
<1>12. FetchedCounts'
  <2>1. SUFFICES ASSUME launch.backward, launch.tma, NEW c \in Ctas, NEW n \in Nat,
                        n < launch.tileStages \/ Landed(c, 0, n - launch.tileStages)', ~Landed(c, 0, n)'
                 PROVE fetched[c][TileStage(n)] = [parity |-> TilePhase(n), pending |-> 1, tx |-> 0]
    BY <1>2 DEF FetchedCounts
  <2>2. ~Landed(c, 0, n) BY <1>5, <1>8, <2>1
  <2>3. n < launch.tileStages \/ Landed(c, 0, n - launch.tileStages)
    <3>1. SUFFICES ASSUME ~(n < launch.tileStages) PROVE Landed(c, 0, n - launch.tileStages) OBVIOUS
    <3>2. launch.tileStages \in Nat BY <1>1, Launched
    <3>3. n - launch.tileStages \in Nat BY <3>1, <3>2
    <3> QED BY <1>5, <1>8, <2>1, <3>1, <3>3
  <2> QED BY <2>1, <2>2, <2>3 DEF FetchedCounts, Ring
<1> QED BY <1>7, <1>9, <1>10, <1>11, <1>12

(* So with the stages freed and the tiles.                                 *)
LEMMA FreedStay ==
  ASSUME Types, FreedCounts, launch' = launch, freed' = freed,
         launch.backward => \A d \in Ctas, u \in Warps : Round(d, u)' = Round(d, u)
  PROVE FreedCounts'
<1>1. launch \in Launches BY DEF Types
<1>2. /\ Ctas' = Ctas /\ Warps' = Warps
      /\ \A n \in Nat : TileStage(n)' = TileStage(n) /\ TilePhase(n)' = TilePhase(n)
  BY Same
<1>3. ASSUME launch.backward, NEW c \in Ctas, NEW n \in Nat PROVE Readers(c, n)' = Readers(c, n)
  BY <1>2, <1>3 DEF Readers
<1>4. SUFFICES ASSUME launch.backward, launch.tma, NEW c \in Ctas, NEW n \in Nat,
                      n < launch.tileStages \/ Readers(c, n - launch.tileStages)' = Warps, Readers(c, n)' # Warps
               PROVE freed[c][TileStage(n)] = [parity |-> TilePhase(n),
                       pending |-> launch.warps - Cardinality(Readers(c, n)'), tx |-> 0]
  BY <1>2 DEF FreedCounts
<1>5. Readers(c, n)' = Readers(c, n) BY <1>3, <1>4
<1>6. n < launch.tileStages \/ Readers(c, n - launch.tileStages) = Warps
  <2>1. SUFFICES ASSUME ~(n < launch.tileStages) PROVE Readers(c, n - launch.tileStages) = Warps OBVIOUS
  <2>2. launch.tileStages \in Nat BY <1>1, Launched
  <2>3. n - launch.tileStages \in Nat BY <2>1, <2>2
  <2> QED BY <1>3, <1>4, <2>1, <2>3
<1> QED BY <1>4, <1>5, <1>6 DEF FreedCounts

(* The tiles stay when nothing lands and nothing is issued.                *)
LEMMA TilesStay ==
  ASSUME Tiles, launch' = launch, tile' = tile,
         \A d \in Ctas, u \in Warps : At(d, u)' \notin After => At(d, u) \notin After,
         \A c \in Ctas, w \in Warps, n \in Nat :
             /\ Landed(c, Fetcher(w), n)' <=> Landed(c, Fetcher(w), n)
             /\ Issued(c, Fetcher(w))' = Issued(c, Fetcher(w))
  PROVE Tiles'
<1>1. /\ Ctas' = Ctas /\ Warps' = Warps /\ \A n \in Nat : TileStage(n)' = TileStage(n) BY Same
<1>2. SUFFICES ASSUME NEW c \in Ctas, NEW w \in Warps, NEW n \in Nat, NEW v \in Warps, At(c, v)' \notin After,
                      Landed(c, Fetcher(w), n)', ~(n + launch.tileStages < Issued(c, Fetcher(w))')
               PROVE tile[c][TileStage(n)][w] = n
  BY <1>1 DEF Tiles
<1>3. At(c, v) \notin After BY <1>2
<1>4. Landed(c, Fetcher(w), n) /\ ~(n + launch.tileStages < Issued(c, Fetcher(w))) BY <1>2
<1> QED BY <1>3, <1>4 DEF Tiles

(* A step that fetches and frees nothing.                                  *)
LEMMA RingKeeps ==
  ASSUME Types, Ring, launch' = launch, UNCHANGED ring,
         launch.backward => \A d \in Ctas, u \in Warps : Round(d, u)' = Round(d, u),
         \A d \in Ctas, u \in Warps : Fetcher(u) = u => Issued(d, u)' = Issued(d, u),
         \A d \in Ctas, u \in Warps : At(d, u)' \notin After => At(d, u) \notin After,
         launch.backward => \A d \in Ctas, u \in Warps : \A m \in Nat :
           Tiled(d, u)' > m => Landed(d, Fetcher(u), m)
  PROVE Ring'
<1>1. tile' = tile /\ fetched' = fetched /\ freed' = freed /\ loading' = loading BY DEF ring
<1>2. launch.backward => \A d \in Ctas, u \in Warps : Round(d, u)' \in Nat /\ Round(d, u) <= Round(d, u)'
  BY WarpIs
<1>3. /\ Loading' /\ TiledLanded' /\ AgainRead' /\ FetchedCounts'
      /\ \A c \in Ctas, w \in Warps, n \in Nat :
           /\ Landed(c, Fetcher(w), n)' <=> Landed(c, Fetcher(w), n)
           /\ Issued(c, Fetcher(w))' = Issued(c, Fetcher(w))
  BY <1>1, <1>2, RingStays
<1>4. FreedCounts' BY <1>1, FreedStay DEF Ring
<1>5. Tiles' BY <1>1, <1>3, TilesStay DEF Ring
<1> QED BY <1>3, <1>4, <1>5 DEF Ring

(* A step of one warp that fetches and frees nothing: what it must show.   *)
LEMMA RingMove ==
  ASSUME Types, PlacesOK, Ring, NEW c \in Ctas, NEW w \in Warps, NEW at, NEW n, NEW k,
         Moves(c, w, at, n, k), UNCHANGED ring,
         launch.backward => n = Round(c, w),
         launch.backward /\ Fetcher(w) = w => Issued(c, w)' = Issued(c, w),
         at \notin After => At(c, w) \notin After,
         launch.backward => \A m \in Nat : Tiled(c, w)' > m => Landed(c, Fetcher(w), m)
  PROVE Ring'
<1>1. launch' = launch BY DEF Moves
<1>2. launch.backward \in BOOLEAN BY Launched DEF Types
<1>3. ASSUME NEW d \in Ctas, NEW u \in Warps
      PROVE /\ launch.backward => Round(d, u)' = Round(d, u)
            /\ Fetcher(u) = u => Issued(d, u)' = Issued(d, u)
            /\ At(d, u)' \notin After => At(d, u) \notin After
            /\ launch.backward => \A m \in Nat : Tiled(d, u)' > m => Landed(d, Fetcher(u), m)
  <2>1. CASE d = c /\ u = w
    <3>1. At(c, w)' = at /\ Round(c, w)' = n BY Counters
    <3>2. ~launch.backward => Issued(c, w)' = 0 /\ Issued(c, w) = 0 BY IssuedMove DEF Issued
    <3> QED BY <1>2, <2>1, <3>1, <3>2
  <2>2. CASE d # c \/ u # w
    <3>1. /\ At(d, u)' = At(d, u) /\ Round(d, u)' = Round(d, u) /\ Tiled(d, u)' = Tiled(d, u)
          /\ Issued(d, u)' = Issued(d, u)
      BY <2>2, Counters
    <3> QED BY <3>1 DEF Ring, TiledLanded
  <2> QED BY <2>1, <2>2
<1> QED BY <1>1, <1>3, RingKeeps

(* A warp that finds its tile there finds its own: the stage's barrier has *)
(* been through the round before.                                          *)
LEMMA TileLanded ==
  ASSUME Types, PlacesOK, Ring, NEW c \in Ctas, NEW w \in Warps, WaitTile(c, w)
  PROVE Landed(c, Fetcher(w), Round(c, w))
<1> DEFINE n == Round(c, w)
           t == launch.tileStages
<1>1. launch \in Launches BY DEF Types
<1>2. At(c, w) = "arrives" /\ TileHere(c, w) BY DEF WaitTile
<1>3. PlaceOK(c, w) BY DEF PlacesOK
<1>4. launch.backward BY <1>2, <1>3 DEF PlaceOK
<1>5. n \in Nat /\ n < launch.rounds BY <1>2, <1>3, WarpIs DEF PlaceOK, Loop
<1>6. t \in Nat /\ t > 1 /\ Lead = t - 1 /\ launch.rounds \in Nat /\ launch.tma \in BOOLEAN BY <1>1, Launched
<1>7. CASE launch.tma
  <2>1. Fetcher(w) = 0 /\ fetched[c][TileStage(n)].parity # TilePhase(n)
    BY <1>2, <1>7 DEF Fetcher, TileHere
  <2>2. n < t \/ Landed(c, 0, n - t)
    <3>1. SUFFICES ASSUME ~(n < t) PROVE Landed(c, 0, n - t) OBVIOUS
    <3>2. PICK i : i = n - t OBVIOUS
    <3>3. i \in Nat /\ i < n BY <1>5, <1>6, <3>1, <3>2
    <3>4. Tiled(c, w) = n + 0 BY <1>2 DEF Tiled, Past, Loop
    <3>5. Tiled(c, w) > i BY <1>5, <3>3, <3>4
    <3> QED BY <1>4, <2>1, <3>2, <3>3, <3>5 DEF Ring, TiledLanded
  <2>3. SUFFICES ASSUME ~Landed(c, 0, n) PROVE FALSE BY <2>1
  <2>4. fetched[c][TileStage(n)] = [parity |-> TilePhase(n), pending |-> 1, tx |-> 0]
    BY <1>4, <1>5, <1>7, <2>2, <2>3 DEF Ring, FetchedCounts
  <2>5. fetched[c][TileStage(n)].parity = TilePhase(n) BY <2>4
  <2> QED BY <2>1, <2>5
<1>8. CASE ~launch.tma
  <2>1. Fetcher(w) = w /\ \A f \in loading : f.cta = c /\ w \in f.part => f.n > n
    BY <1>2, <1>8 DEF Fetcher, TileHere
  <2>2. Issued(c, w) = IF n + 1 + Lead < launch.rounds THEN n + 1 + Lead ELSE launch.rounds
    BY <1>2, <1>4 DEF Issued, Past, Loop
  <2>3. n < Issued(c, w) BY <1>5, <1>6, <2>2
  <2>4. SUFFICES ASSUME Item(c, w, n) \in loading PROVE FALSE BY <2>1, <2>3 DEF Landed
  <2>5. Item(c, w, n).cta = c /\ Item(c, w, n).part = {w} /\ Item(c, w, n).n = n BY <1>8 DEF Item, Part
  <2>6. Item(c, w, n).n > n BY <2>1, <2>4, <2>5
  <2> QED BY <1>5, <2>5, <2>6
<1> QED BY <1>6, <1>7, <1>8

(* The steps that fetch and free nothing.                                  *)
LEMMA RingQuiet ==
  ASSUME Types, PlacesOK, Ring, NEW c \in Ctas, NEW w \in Warps, UNCHANGED ring,
         \/ Setup(c, w) \/ Load(c, w) \/ Join(c, w) \/ (Prefetch(c, w) /\ ~Fetches(w))
         \/ (Ahead(c, w) /\ ~(Fetches(w) /\ Round(c, w) + Lead < launch.rounds))
         \/ WaitTile(c, w) \/ Acquire(c, w) \/ PublishCluster(c, w) \/ PublishBlock(c, w)
         \/ Alone(c, w) \/ WaitAll(c, w) \/ CombineBackward(c, w) \/ CombineForward(c, w)
         \/ Output(c, w) \/ LeaveLoop(c, w) \/ FoldArrive(c, w)
         \/ FoldLeave(c, w) \/ FoldWrite(c, w) \/ FoldRead(c, w) \/ Leave(c, w)
  PROVE Ring'
<1> DEFINE n == Round(c, w)
           k == warp[c][w].k
           early == {"setup", "load", "join", "prefetch"}
<1>1. n \in Nat /\ At(c, w) \in Places BY WarpIs
<1>2. launch \in Launches BY DEF Types
<1>3. launch.backward \in BOOLEAN /\ Lead \in Nat /\ launch.rounds \in Nat BY <1>2, Launched
<1>4. PlaceOK(c, w) BY DEF PlacesOK
<1>5. launch.backward => \A m \in Nat : Tiled(c, w) > m => Landed(c, Fetcher(w), m)
  BY DEF Ring, TiledLanded
<1>6. Tiled(c, w) = n + (IF At(c, w) \in Loop \ {"arrives"} THEN 1 ELSE 0) BY DEF Tiled, Past
<1>7. Issued(c, w) =
        IF ~launch.backward \/ At(c, w) \in early THEN 0
        ELSE LET most == n + (IF At(c, w) \in Loop THEN 1 ELSE 0) + Lead IN
             IF most < launch.rounds THEN most ELSE launch.rounds
  BY DEF Issued, Past
<1> HIDE DEF n, k
<1>8. ASSUME NEW at, NEW j, Moves(c, w, at, n, j), at \notin After => At(c, w) \notin After,
             At(c, w) \in early <=> at \in early, At(c, w) \in Loop <=> at \in Loop,
             (At(c, w) \in Loop \ {"arrives"}) <=> (at \in Loop \ {"arrives"})
      PROVE Ring'
  <2>1. Tiled(c, w)' = Tiled(c, w) BY <1>6, <1>8, Counters
  <2>2. Issued(c, w)' = Issued(c, w) BY <1>7, <1>8, IssuedMove
  <2> QED BY <1>5, <1>8, <2>1, <2>2, RingMove DEF n
<1>9. CASE Setup(c, w)
  <2>1. Moves(c, w, IF launch.backward THEN "join" ELSE "load", n, k) /\ At(c, w) = "setup"
    BY <1>9, Moving DEF Setup, n, k
  <2> QED BY <1>8, <2>1 DEF Loop, After
<1>10. CASE Load(c, w)
  <2>1. Moves(c, w, "join", n, k) /\ At(c, w) = "load" BY <1>10, Moving DEF Load, n, k
  <2> QED BY <1>8, <2>1 DEF Loop, After
<1>11. CASE Join(c, w)
  <2>1. Moves(c, w, IF launch.backward THEN "prefetch" ELSE "publish", n, k) /\ At(c, w) = "join"
    BY <1>11, Moving DEF Join, n, k
  <2>2. CASE launch.backward
    <3>1. Moves(c, w, "prefetch", n, k) BY <2>1, <2>2
    <3> QED BY <1>8, <2>1, <3>1 DEF Loop, After
  <2>3. CASE ~launch.backward
    <3>1. Moves(c, w, "publish", n, k) BY <2>1, <2>3
    <3> QED BY <2>1, <2>3, <3>1, RingMove DEF After
  <2> QED BY <2>2, <2>3
<1>12. CASE Prefetch(c, w) /\ ~Fetches(w)
  <2>1. Moves(c, w, "ahead", n, k) /\ At(c, w) = "prefetch" BY <1>12, Moving DEF Prefetch, n, k
  <2>2. Fetcher(w) # w BY <1>2, <1>12, FetcherIs
  <2>3. Tiled(c, w)' = Tiled(c, w) BY <1>6, <2>1, Counters DEF Loop
  <2> QED BY <1>5, <2>1, <2>2, <2>3, RingMove DEF n, After
<1>13. CASE Ahead(c, w) /\ ~(Fetches(w) /\ Round(c, w) + Lead < launch.rounds)
  <2>1. Moves(c, w, "arrives", n, k) /\ At(c, w) = "ahead" BY <1>13, Moving DEF Ahead, n, k
  <2>2. Tiled(c, w)' = Tiled(c, w) BY <1>6, <2>1, Counters DEF Loop
  <2>3. ASSUME Fetcher(w) = w, launch.backward PROVE Issued(c, w)' = Issued(c, w)
    <3>1. ~(n + Lead < launch.rounds) BY <1>2, <1>13, <2>3, FetcherIs DEF n
    <3>2. Issued(c, w)' = IF n + 1 + Lead < launch.rounds THEN n + 1 + Lead ELSE launch.rounds
      BY <2>1, <2>3, IssuedMove DEF Loop
    <3>3. Issued(c, w) = IF n + 0 + Lead < launch.rounds THEN n + 0 + Lead ELSE launch.rounds
      BY <1>7, <2>1, <2>3 DEF Loop
    <3> QED BY <1>1, <1>3, <3>1, <3>2, <3>3
  <2> QED BY <1>5, <2>1, <2>2, <2>3, RingMove DEF n, After
<1>14. CASE WaitTile(c, w)
  <2>1. Moves(c, w, "tile", n, k) /\ At(c, w) = "arrives" BY <1>14, Moving DEF WaitTile, n, k
  <2>2. Issued(c, w)' = Issued(c, w) BY <1>7, <2>1, IssuedMove DEF Loop
  <2>3. Landed(c, Fetcher(w), n) BY <1>14, TileLanded DEF n
  <2>4. Tiled(c, w)' = n + 1 /\ Tiled(c, w) = n + 0 BY <1>6, <2>1, Counters DEF Loop
  <2>5. launch.backward => \A m \in Nat : Tiled(c, w)' > m => Landed(c, Fetcher(w), m)
    <3>1. SUFFICES ASSUME launch.backward, NEW m \in Nat, Tiled(c, w)' > m
                   PROVE Landed(c, Fetcher(w), m) OBVIOUS
    <3>2. m = n \/ Tiled(c, w) > m BY <1>1, <2>4, <3>1
    <3> QED BY <1>5, <2>3, <3>1, <3>2
  <2> QED BY <2>1, <2>2, <2>5, RingMove DEF n, After
<1>15. CASE Acquire(c, w)
  <2>1. Moves(c, w, "publish", n, k) /\ At(c, w) = "tile" BY <1>15, Moving DEF Acquire, n, k
  <2> QED BY <1>8, <2>1 DEF Loop, After
<1>16. CASE PublishCluster(c, w) \/ PublishBlock(c, w)
  <2>1. Moves(c, w, "wait", n, k) /\ At(c, w) = "publish"
    BY <1>16, Moving DEF PublishCluster, PublishBlock, n, k
  <2> QED BY <1>8, <2>1 DEF Loop, After
<1>17. CASE Alone(c, w)
  <2>1. Moves(c, w, "combine", n, k) /\ At(c, w) = "publish" BY <1>17, Moving DEF Alone, n, k
  <2> QED BY <1>8, <2>1 DEF Loop, After
<1>18. CASE WaitAll(c, w)
  <2>1. Moves(c, w, "combine", n, k) /\ At(c, w) = "wait" BY <1>18, Moving DEF WaitAll, n, k
  <2> QED BY <1>8, <2>1 DEF Loop, After
<1>19. CASE CombineBackward(c, w)
  <2>1. Moves(c, w, "gradient", n, k) /\ At(c, w) = "combine" BY <1>19, Moving DEF CombineBackward, n, k
  <2> QED BY <1>8, <2>1 DEF Loop, After
<1>20. CASE CombineForward(c, w)
  <2>1. /\ IF n + 1 < launch.rounds THEN Moves(c, w, "publish", n + 1, k) ELSE Moves(c, w, "output", n, k)
        /\ At(c, w) = "combine" /\ ~launch.backward
    BY <1>20, Moving DEF CombineForward, n, k
  <2>2. At(c, w) \notin After BY <2>1 DEF After
  <2> QED BY <2>1, <2>2, RingMove
<1>21. CASE Output(c, w)
  <2>1. Moves(c, w, "done", n, k) /\ At(c, w) = "output" BY <1>21, Moving DEF Output, n, k
  <2>2. ~launch.backward BY <1>4, <2>1 DEF PlaceOK
  <2> QED BY <2>1, <2>2, RingMove DEF After
<1>22. CASE LeaveLoop(c, w)
  <2>1. Moves(c, w, "fold", n, k) /\ At(c, w) = "ahead" BY <1>22, Moving DEF LeaveLoop, n, k
  <2> QED BY <1>8, <2>1 DEF Loop, After
<1>23. CASE FoldArrive(c, w)
  <2>1. Moves(c, w, "held", n, k) /\ At(c, w) = "fold" BY <1>23, Moving DEF FoldArrive, Folding, n, k
  <2> QED BY <1>8, <2>1 DEF Loop, After
<1>24. CASE FoldLeave(c, w)
  <2>1. Moves(c, w, "fold", n, k + 1) /\ At(c, w) = "held" BY <1>24, Moving DEF FoldLeave, n, k
  <2> QED BY <1>8, <2>1 DEF Loop, After
<1>25. CASE FoldWrite(c, w) \/ FoldRead(c, w)
  <2>1. Moves(c, w, "fold", n, k + 1) /\ At(c, w) = "fold"
    BY <1>25, Moving DEF FoldWrite, FoldRead, Folding, n, k
  <2> QED BY <1>8, <2>1 DEF Loop, After
<1>26. CASE Leave(c, w)
  <2>1. Moves(c, w, "done", n, k) /\ At(c, w) = "fold" BY <1>26, Moving DEF Leave, n, k
  <2> QED BY <1>8, <2>1 DEF Loop, After
<1> QED BY <1>9, <1>10, <1>11, <1>12, <1>13, <1>14, <1>15, <1>16, <1>17, <1>18, <1>19, <1>20, <1>21,
           <1>22, <1>23, <1>24, <1>25, <1>26

(* A step of the memory, or none.                                          *)
LEMMA RingSame ==
  ASSUME Types, Ring, UNCHANGED <<launch, warp, ring>>
  PROVE Ring'
<1>1. launch' = launch /\ warp' = warp /\ UNCHANGED ring OBVIOUS
<1>2. Lead' = Lead BY <1>1, Same
<1>3. \A d, u : At(d, u)' = At(d, u) /\ Round(d, u)' = Round(d, u) /\ Issued(d, u)' = Issued(d, u)
                /\ Tiled(d, u)' = Tiled(d, u)
  BY <1>1, <1>2 DEF At, Round, Issued, Tiled, Past
<1>4. launch.backward => \A d \in Ctas, u \in Warps : \A m \in Nat :
           Tiled(d, u)' > m => Landed(d, Fetcher(u), m)
  BY <1>3 DEF Ring, TiledLanded
<1> QED BY <1>1, <1>3, <1>4, RingKeeps

(* Counting warps of a CTA.                                                *)
LEMMA Readings ==
  ASSUME launch \in Launches, NEW S \in SUBSET Warps
  PROVE /\ IsFiniteSet(S) /\ Cardinality(S) \in 0..launch.warps /\ (Cardinality(S) = launch.warps <=> S = Warps)
        /\ \A x \in Warps \ S : Cardinality(S \cup {x}) = Cardinality(S) + 1
        /\ S = {} => Cardinality(S) = 0
<1>1. launch.warps \in Nat /\ launch.warps > 0 /\ Warps = 0..launch.warps - 1 BY Launched
<1>2. IsFiniteSet(Warps) /\ Cardinality(Warps) = launch.warps
  <2>1. launch.warps - 1 \in Int /\ 0 \in Int /\ 0 <= launch.warps - 1 BY <1>1
  <2>2. IsFiniteSet(0..launch.warps - 1) /\ Cardinality(0..launch.warps - 1) = launch.warps - 1 - 0 + 1
    BY <2>1, FS_Interval
  <2> QED BY <1>1, <2>2
<1>3. IsFiniteSet(S) /\ Cardinality(S) <= launch.warps /\ (Cardinality(Warps) = Cardinality(S) => Warps = S)
  BY <1>2, FS_Subset
<1>4. Cardinality(S) \in Nat BY <1>3, FS_CardinalityType
<1>5. \A x \in Warps \ S : Cardinality(S \cup {x}) = Cardinality(S) + 1 BY <1>3, FS_AddElement
<1>6. S = {} => Cardinality(S) = 0 BY FS_EmptySet
<1> QED BY <1>1, <1>2, <1>3, <1>4, <1>5, <1>6

(* What a warp that has read its tile again frees: a tile that was issued, *)
(* so all warps are done with the stage's tile before and none with the    *)
(* next.                                                                   *)
LEMMA Freeing ==
  ASSUME Types, PlacesOK, Ring, launch.tma, NEW c \in Ctas, NEW w \in Warps, Gradient(c, w)
  PROVE LET n == Round(c, w)
            t == launch.tileStages IN
        /\ launch.backward /\ n \in Nat /\ n < Issued(c, 0)
        /\ \A i \in Nat : i + t <= n => Readers(c, i) = Warps
        /\ \A i \in Nat : i >= n + t => Readers(c, i) = {}
        /\ w \notin Readers(c, n)
        /\ freed[c][TileStage(n)] =
             [parity |-> TilePhase(n), pending |-> launch.warps - Cardinality(Readers(c, n)), tx |-> 0]
<1> DEFINE n == Round(c, w)
           t == launch.tileStages
<1>1. launch \in Launches BY DEF Types
<1>2. At(c, w) = "gradient" BY DEF Gradient
<1>3. PlaceOK(c, w) BY DEF PlacesOK
<1>4. launch.backward BY <1>2, <1>3 DEF PlaceOK
<1>5. n \in Nat BY WarpIs
<1>6. t \in Nat /\ t > 1 BY <1>1, Launched
<1>7. Tiled(c, w) = n + 1 BY <1>2 DEF Tiled, Past, Loop
<1>8. \A u \in Warps, i \in Nat : Tiled(c, u) > i => Landed(c, 0, i)
  <2>1. \A u \in Warps : Fetcher(u) = 0 BY DEF Fetcher
  <2> QED BY <1>4, <2>1 DEF Ring, TiledLanded
<1>9. 0 \in Warps BY <1>1, Launched
<1>10. Issued(c, 0) \in Nat BY <1>9, InOrder
<1>11. n < Issued(c, 0)
  <2>1. Tiled(c, w) > n BY <1>5, <1>7
  <2> QED BY <1>5, <1>8, <2>1 DEF Landed
<1>12. \A u \in Warps, i \in Nat : i + t < Issued(c, 0) => Round(c, u) > i BY <1>4 DEF Ring, AgainRead
<1>13. ASSUME NEW i \in Nat, i + t <= n PROVE Readers(c, i) = Warps
  <2>1. i + t < Issued(c, 0) BY <1>5, <1>6, <1>10, <1>11, <1>13
  <2> QED BY <1>12, <2>1 DEF Readers
<1>14. ASSUME NEW i \in Nat, i >= n + t PROVE Readers(c, i) = {}
  <2>1. SUFFICES ASSUME NEW u \in Warps, Round(c, u) > i PROVE FALSE BY DEF Readers
  <2>2. Tiled(c, u) = Round(c, u) + (IF At(c, u) \in Loop \ {"arrives"} THEN 1 ELSE 0) BY DEF Tiled, Past
  <2>3. Round(c, u) \in Nat BY WarpIs
  <2>4. Tiled(c, u) > i BY <2>1, <2>2, <2>3
  <2>5. i < Issued(c, 0) BY <1>8, <2>4 DEF Landed
  <2>6. n + t < Issued(c, 0) BY <1>5, <1>6, <1>10, <1>14, <2>5
  <2>7. n > n BY <1>5, <1>12, <2>6
  <2> QED BY <1>5, <2>7
<1>15. w \notin Readers(c, n) BY <1>5 DEF Readers
<1>16. freed[c][TileStage(n)] =
         [parity |-> TilePhase(n), pending |-> launch.warps - Cardinality(Readers(c, n)), tx |-> 0]
  <2>1. Readers(c, n) # Warps BY <1>15
  <2>2. n < t \/ Readers(c, n - t) = Warps
    <3>1. SUFFICES ASSUME ~(n < t) PROVE Readers(c, n - t) = Warps OBVIOUS
    <3>2. PICK i : i = n - t OBVIOUS
    <3>3. i \in Nat /\ i + t <= n BY <1>5, <1>6, <3>1, <3>2
    <3> QED BY <1>13, <3>2, <3>3
  <2> QED BY <1>4, <1>5, <2>1, <2>2 DEF Ring, FreedCounts
<1> QED BY <1>4, <1>5, <1>11, <1>13, <1>14, <1>15, <1>16

(* The stage's barrier after it: flipped if all are done.                  *)
LEMMA FreeHits ==
  ASSUME Types, PlacesOK, Ring, launch.tma, NEW c \in Ctas, NEW w \in Warps, Gradient(c, w),
         NEW n, n = Round(c, w), NEW s, s = TileStage(n)
  PROVE /\ \A d \in Ctas, i \in Nat :
             Readers(d, i)' = IF d = c /\ i = n THEN Readers(d, i) \cup {w} ELSE Readers(d, i)
        /\ freed'[c][s] = IF Readers(c, n)' = Warps
                          THEN [parity |-> 1 - TilePhase(n), pending |-> launch.warps, tx |-> 0]
                          ELSE [parity |-> TilePhase(n), pending |-> launch.warps - Cardinality(Readers(c, n)'),
                                tx |-> 0]
        /\ \A d \in Ctas : d # c => freed'[d] = freed[d]
        /\ \A x \in TileStages : x # s => freed'[c][x] = freed[c][x]
        /\ freed' \in [Ctas -> [TileStages -> Bar(launch.warps)]]
<1> DEFINE q == launch.warps
           R == Readers(c, n)
           h == Hit(freed[c][s], q, 1, 0)
<1>1. launch \in Launches BY DEF Types
<1>2. n \in Nat /\ w \notin R /\ R \in SUBSET Warps
      /\ freed[c][s] = [parity |-> TilePhase(n), pending |-> q - Cardinality(R), tx |-> 0]
  <2>1. R = Readers(c, Round(c, w)) /\ s = TileStage(Round(c, w)) BY DEF R
  <2> QED BY <2>1, Freeing DEF Readers
<1>3. s \in TileStages /\ TilePhase(n) \in {0, 1} BY <1>1, <1>2, TileRing
<1>4. Cardinality(R) \in 0..q /\ Cardinality(R) # q /\ q \in Nat /\ q > 0
  BY <1>1, <1>2, Readings, Launched, SMTT(40)
<1>5. Cardinality(R \cup {w}) = Cardinality(R) + 1 /\ (Cardinality(R \cup {w}) = q <=> R \cup {w} = Warps)
  BY <1>1, <1>2, Readings
<1>6. Moves(c, w, "ahead", n + 1, warp[c][w].k) BY Moving
<1>7. launch' = launch BY <1>6 DEF Moves
<1>8. \A d \in Ctas, i \in Nat :
        Readers(d, i)' = IF d = c /\ i = n THEN Readers(d, i) \cup {w} ELSE Readers(d, i)
  <2>1. SUFFICES ASSUME NEW d \in Ctas, NEW i \in Nat, NEW u \in Warps
                 PROVE Round(d, u)' > i <=> Round(d, u) > i \/ (d = c /\ i = n /\ u = w)
    <3>1. Warps' = Warps BY <1>7, Same
    <3> QED BY <2>1, <3>1 DEF Readers
  <2>2. CASE d = c /\ u = w
    <3>1. Round(d, u)' = n + 1 /\ Round(d, u) = n BY <1>6, <2>2, Counters
    <3> QED BY <1>2, <2>2, <3>1
  <2>3. CASE d # c \/ u # w
    <3>1. Round(d, u)' = Round(d, u) BY <1>6, <2>3, Counters
    <3> QED BY <2>3, <3>1
  <2> QED BY <2>2, <2>3
<1>9. Readers(c, n)' = R \cup {w} BY <1>2, <1>8 DEF R
<1> HIDE DEF q, R
<1>10. PICK j : j = q - Cardinality(R) OBVIOUS
<1>11. j \in Nat /\ j > 0 /\ q - Cardinality(R \cup {w}) = j - 1 BY <1>4, <1>5, <1>10
<1>12. h = IF j - 1 = 0 /\ 0 + 0 = 0 THEN [parity |-> 1 - TilePhase(n), pending |-> q, tx |-> 0]
           ELSE [parity |-> TilePhase(n), pending |-> j - 1, tx |-> 0 + 0]
  <2>1. freed[c][s] = [parity |-> TilePhase(n), pending |-> j, tx |-> 0] BY <1>2, <1>10
  <2>2. j \in Int /\ 0 \in Int /\ 1 \in Int BY <1>11
  <2>3. PICK b : b = freed[c][s] OBVIOUS
  <2>4. b = [parity |-> TilePhase(n), pending |-> j, tx |-> 0] BY <2>1, <2>3
  <2>5. Hit(b, q, 1, 0) = IF j - 1 = 0 /\ 0 + 0 = 0 THEN [parity |-> 1 - TilePhase(n), pending |-> q, tx |-> 0]
           ELSE [parity |-> TilePhase(n), pending |-> j - 1, tx |-> 0 + 0]
    BY <2>2, <2>4, HitIs
  <2> QED BY <2>3, <2>5
<1>13. h = IF R \cup {w} = Warps THEN [parity |-> 1 - TilePhase(n), pending |-> q, tx |-> 0]
           ELSE [parity |-> TilePhase(n), pending |-> q - Cardinality(R \cup {w}), tx |-> 0]
  <2>1. j - 1 = 0 <=> R \cup {w} = Warps BY <1>4, <1>5, <1>11
  <2>2. 0 + 0 = 0 OBVIOUS
  <2> QED BY <1>11, <1>12, <2>1, <2>2
<1>14. h \in Bar(q)
  <2>1. 1 - TilePhase(n) \in {0, 1} BY <1>3
  <2>2. q \in 0..q /\ q - Cardinality(R \cup {w}) \in 0..q BY <1>4, <1>5
  <2> HIDE DEF h
  <2> QED BY <1>3, <1>13, <2>1, <2>2 DEF Bar
<1>15. freed' = [freed EXCEPT ![c][s] = h] BY DEF Gradient, h, q
<1>16. PICK T : T = [TileStages -> Bar(q)] OBVIOUS
<1>17. freed \in [Ctas -> T] /\ freed[c] \in [TileStages -> Bar(q)] /\ [TileStages -> Bar(q)] \subseteq T
  BY <1>16 DEF Types, q
<1>18. PICK g : g = freed' OBVIOUS
<1>19. PICK y : y = h OBVIOUS
<1>20. y \in Bar(q) /\ g = [freed EXCEPT ![c][s] = y] BY <1>14, <1>15, <1>18, <1>19
<1>21. PICK B : B = Bar(q) OBVIOUS
<1>22. [TileStages -> B] \subseteq T /\ freed[c] \in [TileStages -> B] /\ y \in B BY <1>17, <1>20, <1>21
<1>23. /\ g \in [Ctas -> T] /\ g[c][s] = y
       /\ \A d \in Ctas : d # c => g[d] = freed[d]
       /\ \A x \in TileStages : x # s => g[c][x] = freed[c][x]
  BY <1>3, <1>17, <1>20, <1>22, HitOne
<1>24. g[c][s] = IF Readers(c, n)' = Warps THEN [parity |-> 1 - TilePhase(n), pending |-> q, tx |-> 0]
                 ELSE [parity |-> TilePhase(n), pending |-> q - Cardinality(Readers(c, n)'), tx |-> 0]
  <2> HIDE DEF h
  <2> QED BY <1>9, <1>13, <1>19, <1>23
<1>25. freed' \in [Ctas -> [TileStages -> Bar(q)]] BY <1>16, <1>18, <1>23
<1> QED BY <1>8, <1>18, <1>23, <1>24, <1>25 DEF q

(* A warp that frees a tile and goes to the next round keeps the ring.     *)
LEMMA RingGradient ==
  ASSUME Types, PlacesOK, Ring, NEW c \in Ctas, NEW w \in Warps, Gradient(c, w)
  PROVE Ring'
<1>1. launch \in Launches BY DEF Types
<1>2. PICK n : n = Round(c, w) OBVIOUS
<1>3. n \in Nat BY <1>2, WarpIs
<1>4. At(c, w) = "gradient" BY DEF Gradient
<1>5. launch.backward
  <2>1. PlaceOK(c, w) BY DEF PlacesOK
  <2> QED BY <1>4, <2>1 DEF PlaceOK
<1>6. Moves(c, w, "ahead", n + 1, warp[c][w].k) BY <1>2, Moving
<1>7. launch' = launch /\ tile' = tile /\ fetched' = fetched /\ loading' = loading
      /\ (~launch.tma => freed' = freed)
  BY DEF Gradient
<1>8. Lead \in Nat /\ launch.rounds \in Nat /\ launch.tileStages \in Nat /\ launch.tileStages > 1
      /\ launch.tma \in BOOLEAN
  BY <1>1, Launched
<1>9. At(c, w)' = "ahead" /\ Round(c, w)' = n + 1 BY <1>6, Counters
<1>10. Issued(c, w)' = Issued(c, w)
  <2>1. Issued(c, w)' = IF n + 1 + 0 + Lead < launch.rounds THEN n + 1 + 0 + Lead ELSE launch.rounds
    BY <1>5, <1>6, IssuedMove DEF Loop
  <2>2. Issued(c, w) = IF n + 1 + Lead < launch.rounds THEN n + 1 + Lead ELSE launch.rounds
    BY <1>2, <1>4, <1>5 DEF Issued, Past, Loop
  <2> QED BY <1>3, <1>8, <2>1, <2>2
<1>11. Tiled(c, w)' = Tiled(c, w)
  <2>1. Tiled(c, w)' = n + 1 + 0 BY <1>6, Counters DEF Loop
  <2>2. Tiled(c, w) = n + 1 BY <1>2, <1>4 DEF Tiled, Past, Loop
  <2> QED BY <1>3, <2>1, <2>2
<1>12. ASSUME NEW d \in Ctas, NEW u \in Warps
       PROVE /\ Round(d, u)' \in Nat /\ Round(d, u) <= Round(d, u)'
             /\ Issued(d, u)' = Issued(d, u) /\ Tiled(d, u)' = Tiled(d, u)
             /\ At(d, u)' \notin After => At(d, u) \notin After
  <2>1. CASE d = c /\ u = w BY <1>2, <1>3, <1>4, <1>9, <1>10, <1>11, <2>1 DEF After
  <2>2. CASE d # c \/ u # w
    <3>1. Round(d, u) \in Nat BY WarpIs
    <3> QED BY <1>6, <2>2, <3>1, Counters
  <2> QED BY <2>1, <2>2
<1>13. \A d \in Ctas, u \in Warps : \A m \in Nat : Tiled(d, u)' > m => Landed(d, Fetcher(u), m)
  BY <1>5, <1>12 DEF Ring, TiledLanded
<1>14. /\ Loading' /\ TiledLanded' /\ AgainRead' /\ FetchedCounts'
       /\ \A d \in Ctas, u \in Warps, m \in Nat :
            /\ Landed(d, Fetcher(u), m)' <=> Landed(d, Fetcher(u), m)
            /\ Issued(d, Fetcher(u))' = Issued(d, Fetcher(u))
  BY <1>7, <1>12, <1>13, RingStays
<1>15. Tiles' BY <1>7, <1>12, <1>14, TilesStay DEF Ring
<1>16. FreedCounts'
  <2> DEFINE t == launch.tileStages
             s == TileStage(n)
  <2>1. /\ Ctas' = Ctas /\ Warps' = Warps
        /\ \A i \in Nat : TileStage(i)' = TileStage(i) /\ TilePhase(i)' = TilePhase(i)
    BY <1>7, Same
  <2>2. SUFFICES ASSUME launch.tma, NEW d \in Ctas, NEW i \in Nat,
                        i < t \/ Readers(d, i - t)' = Warps, Readers(d, i)' # Warps
                 PROVE freed'[d][TileStage(i)] = [parity |-> TilePhase(i),
                         pending |-> launch.warps - Cardinality(Readers(d, i)'), tx |-> 0]
    BY <1>7, <2>1 DEF FreedCounts
  <2>3. /\ \A b \in Ctas, j \in Nat :
             Readers(b, j)' = IF b = c /\ j = n THEN Readers(b, j) \cup {w} ELSE Readers(b, j)
        /\ freed'[c][s] = IF Readers(c, n)' = Warps
                          THEN [parity |-> 1 - TilePhase(n), pending |-> launch.warps, tx |-> 0]
                          ELSE [parity |-> TilePhase(n), pending |-> launch.warps - Cardinality(Readers(c, n)'),
                                tx |-> 0]
        /\ \A b \in Ctas : b # c => freed'[b] = freed[b]
        /\ \A x \in TileStages : x # s => freed'[c][x] = freed[c][x]
    BY <1>2, <2>2, FreeHits
  <2>4. n < Issued(c, 0) /\ (\A j \in Nat : j + t <= n => Readers(c, j) = Warps)
        /\ (\A j \in Nat : j >= n + t => Readers(c, j) = {})
    BY <1>2, <2>2, Freeing
  <2>5. TileStage(i) \in TileStages /\ TileStage(i + t) = TileStage(i)
        /\ (\A m \in Nat : TileStage(m) = TileStage(i) /\ m > i => m >= i + t)
    BY <1>1, TileRing
  <2>6. ASSUME i >= t PROVE i - t \in Nat /\ TileStage(i - t) = TileStage(i)
    <3>1. PICK j : j = i - t OBVIOUS
    <3>2. j \in Nat /\ j + t = i BY <1>8, <2>6, <3>1
    <3>3. TileStage(j + t) = TileStage(j) BY <1>1, <3>2, TileRing
    <3> QED BY <3>1, <3>2, <3>3
  <2>61. ASSUME NEW j, j = i - t PROVE Readers(d, i - t)' = Readers(d, j)'
    BY <1>7, <2>1, <2>61 DEF Readers
  <2>7. CASE d # c \/ TileStage(i) # s
    <3>1. freed'[d][TileStage(i)] = freed[d][TileStage(i)] BY <2>3, <2>5, <2>7
    <3>2. Readers(d, i)' = Readers(d, i) BY <2>3, <2>7
    <3>3. i < t \/ Readers(d, i - t) = Warps
      <4>1. SUFFICES ASSUME ~(i < t) PROVE Readers(d, i - t) = Warps OBVIOUS
      <4>2. PICK j : j = i - t OBVIOUS
      <4>3. j \in Nat /\ TileStage(j) = TileStage(i) BY <1>8, <2>6, <4>1, <4>2
      <4>4. Readers(d, j)' = Readers(d, j) BY <2>3, <2>7, <4>3
      <4>5. Readers(d, i - t)' = Readers(d, j)' BY <2>61, <4>2
      <4> QED BY <2>2, <4>1, <4>2, <4>4, <4>5
    <3> QED BY <1>5, <2>2, <3>1, <3>2, <3>3 DEF Ring, FreedCounts
  <2>8. CASE d = c /\ TileStage(i) = s /\ i = n
    <3>1. Readers(c, n)' # Warps BY <2>2, <2>8
    <3>2. freed'[c][s] = [parity |-> TilePhase(n), pending |-> launch.warps - Cardinality(Readers(c, n)'), tx |-> 0]
      BY <2>3, <3>1
    <3> QED BY <2>8, <3>2
  <2>9. CASE d = c /\ TileStage(i) = s /\ i > n
    <3>1. i >= n + t
      <4>1. \A m \in Nat : TileStage(m) = TileStage(n) /\ m > n => m >= n + t BY <1>1, <1>3, TileRing
      <4> QED BY <2>9, <4>1
    <3>2. PICK j : j = i - t OBVIOUS
    <3>3. j \in Nat /\ j >= n /\ i = j + t /\ i >= t BY <1>3, <1>8, <3>1, <3>2
    <3>4. Readers(c, j)' = Warps
      <4>1. Readers(d, i - t)' = Readers(d, j)' BY <2>61, <3>2
      <4>2. ~(i < t) BY <1>8, <3>3
      <4> QED BY <2>2, <2>9, <4>1, <4>2
    <3>5. j = n
      <4>1. SUFFICES ASSUME j > n PROVE FALSE BY <1>3, <3>3
      <4>2. TileStage(j) = s BY <2>6, <2>9, <3>2, <3>3
      <4>3. j >= n + t
        <5>1. \A m \in Nat : TileStage(m) = TileStage(n) /\ m > n => m >= n + t BY <1>1, <1>3, TileRing
        <5> QED BY <3>3, <4>1, <4>2, <5>1
      <4>4. Readers(c, j)' = {} BY <1>3, <2>3, <2>4, <3>3, <4>1, <4>3
      <4>5. w \in Warps OBVIOUS
      <4> QED BY <3>4, <4>4, <4>5
    <3>6. Readers(c, i) = {} /\ Readers(c, i)' = {} BY <1>3, <2>3, <2>4, <2>9, <3>1
    <3>7. Cardinality(Readers(c, i)') = 0 /\ launch.warps \in Nat BY <1>1, <3>6, FS_EmptySet, Launched
    <3>8. freed'[c][s] = [parity |-> 1 - TilePhase(n), pending |-> launch.warps, tx |-> 0]
      BY <2>3, <3>4, <3>5
    <3>9. TilePhase(i) = 1 - TilePhase(n) BY <1>1, <1>3, <3>3, <3>5, TileRing
    <3>10. launch.warps - Cardinality(Readers(c, i)') = launch.warps BY <3>7
    <3> QED BY <2>9, <3>8, <3>9, <3>10
  <2>10. CASE d = c /\ TileStage(i) = s /\ i < n
    <3>1. n >= i + t BY <1>3, <2>5, <2>10
    <3>2. Readers(c, i) = Warps BY <1>3, <1>8, <2>4, <3>1
    <3>3. Readers(c, i)' = Readers(c, i) BY <1>3, <2>3, <2>10
    <3> QED BY <2>2, <2>10, <3>2, <3>3
  <2> QED BY <1>3, <2>7, <2>8, <2>9, <2>10
<1> QED BY <1>14, <1>15, <1>16 DEF Ring

(* A warp that frees a tile keeps the types.                               *)
LEMMA TypesGradient ==
  ASSUME Types, PlacesOK, Ring, NEW c \in Ctas, NEW w \in Warps, Gradient(c, w)
  PROVE Types'
<1>1. UNCHANGED <<launch, slots, full, empty, flying, met, tile, fetched, loading, scratch>>
      /\ (~launch.tma => freed' = freed)
  BY DEF Gradient, exchange
<1>2. warp' \in [Ctas -> [Warps -> Place]]
  <2>1. \E at, n, k : Moves(c, w, at, n, k) BY Moving
  <2> QED BY <2>1 DEF Moves
<1>3. /\ Ctas' = Ctas /\ Warps' = Warps /\ TileStages' = TileStages /\ Values' = Values /\ Message' = Message
      /\ Releases' = Releases
  BY <1>1, Same
<1>4. freed' \in [Ctas -> [TileStages -> Bar(launch.warps)]]
  <2>1. PICK n : n = Round(c, w) OBVIOUS
  <2>2. PICK s : s = TileStage(n) OBVIOUS
  <2>3. launch.tma \in BOOLEAN BY Launched DEF Types
  <2>4. CASE launch.tma BY <2>1, <2>2, <2>4, FreeHits
  <2>5. CASE ~launch.tma BY <1>1, <2>5 DEF Types
  <2> QED BY <2>3, <2>4, <2>5
<1> QED BY <1>1, <1>2, <1>3, <1>4 DEF Types, Place

(* A warp that writes scratch over the tiles has met all warps of its CTA  *)
(* after its last round: none has still to read a tile.                    *)
LEMMA RingWrite ==
  ASSUME Types, PlacesOK, Folds, Ring, NEW c \in Ctas, NEW w \in Warps, FoldWrite(c, w)
  PROVE Ring'
<1> DEFINE k == warp[c][w].k
<1>1. CASE ~(Row(w) > 0)
  <2>1. UNCHANGED ring BY <1>1 DEF FoldWrite, ring
  <2> QED BY <2>1, RingQuiet
<1>2. CASE Row(w) > 0
  <2>1. launch \in Launches BY DEF Types
  <2>2. At(c, w) = "fold" /\ k <= Len(Fold) /\ Fold[k].op = "write" /\ launch' = launch
        /\ fetched' = fetched /\ freed' = freed /\ loading' = loading
        /\ tile' = [tile EXCEPT ![c] = [s \in DOMAIN @ |-> [v \in Warps |-> Nobody]]]
    BY <1>2 DEF FoldWrite, Folding, Op
  <2>3. \A v \in Warps : PlaceOK(c, v) BY DEF PlacesOK
  <2>4. launch.backward BY <2>2, <2>3 DEF PlaceOK
  <2>5. k \in 1..10 /\ Len(Fold) \in 0..9 BY <2>1, WarpIs, FoldIs
  <2>6. k \in 1..9 /\ Fold[k].op = FoldOps[k]
    <3>1. k \in 1..Len(Fold) BY <2>2, <2>5
    <3>2. k \in 1..9 /\ Fold[k] = [op |-> FoldOps[k], g |-> FoldGs[k]] BY <2>1, <3>1, FoldIs
    <3> QED BY <3>2
  <2>7. Meets[k] \in Nat /\ Meets[k] > 0
    <3>1. FoldOps[k] = "write" BY <2>2, <2>6
    <3> HIDE DEF k
    <3> QED BY <2>6, <3>1 DEF FoldOps, Meets
  <2>8. ASSUME NEW v \in Warps PROVE At(c, v) \in After
    <3>1. SUFFICES ASSUME At(c, v) \notin After PROVE FALSE OBVIOUS
    <3>2. warp[c][v].k = 1 /\ At(c, v) # "held" BY <2>3, <3>1 DEF PlaceOK, After
    <3>3. met[c][v] = Before(c, v) + Meets[1] + 0 BY <3>2 DEF Folds, MetCounts
    <3>4. met[c][w] = Before(c, w) + Meets[k] + 0 BY <2>2 DEF Folds, MetCounts
    <3>5. Through(c, w) = met[c][w] - 0 BY <2>2 DEF Through, Holding
    <3>6. Through(c, w) <= met[c][v] BY DEF Folds, MetAll
    <3>7. Stored(c, v) \in Nat /\ Stored(c, w) \in Nat /\ Stored(c, v) <= launch.rounds /\ launch.rounds \in Nat
      BY <2>1, InOrder, Launched
    <3>8. Stored(c, w) = launch.rounds
      <4>1. Round(c, w) = launch.rounds BY <2>2, <2>3, <2>4 DEF PlaceOK, After
      <4>2. Ended = {} BY <2>4 DEF Ended
      <4>3. Stored(c, w) = launch.rounds + 0 BY <2>2, <4>1, <4>2 DEF Stored, Past
      <4> QED BY <3>7, <4>3
    <3>9. Before(c, v) \in Nat /\ Before(c, w) \in Nat /\ Before(c, v) <= Before(c, w)
      BY <3>7, <3>8 DEF Before
    <3>10. Meets[1] = 0 BY DEF Meets
    <3>11. Before(c, w) + Meets[k] <= Before(c, v)
      <4> HIDE DEF k
      <4> QED BY <2>7, <3>3, <3>4, <3>5, <3>6, <3>9, <3>10
    <3> HIDE DEF k
    <3> QED BY <2>7, <3>9, <3>11
  <2>9. PICK n : n = Round(c, w) OBVIOUS
  <2>10. Moves(c, w, "fold", n, k + 1) BY <2>9, Moving
  <2>11. At(c, w)' = "fold" /\ Round(c, w)' = n /\ n \in Nat BY <2>10, Counters
  <2>12. Issued(c, w)' = Issued(c, w) /\ Tiled(c, w)' = Tiled(c, w)
    <3>1. Issued(c, w)' = IF n + 0 + Lead < launch.rounds THEN n + 0 + Lead ELSE launch.rounds
      BY <2>4, <2>10, IssuedMove DEF Loop
    <3>2. Issued(c, w) = IF n + 0 + Lead < launch.rounds THEN n + 0 + Lead ELSE launch.rounds
      BY <2>2, <2>4, <2>9 DEF Issued, Past, Loop
    <3>3. Tiled(c, w)' = n + 0 /\ Tiled(c, w) = n + 0 BY <2>2, <2>9, <2>10, Counters DEF Tiled, Past, Loop
    <3> QED BY <3>1, <3>2, <3>3
  <2>13. ASSUME NEW d \in Ctas, NEW u \in Warps
         PROVE /\ Round(d, u)' \in Nat /\ Round(d, u)' = Round(d, u) /\ Round(d, u) <= Round(d, u)'
               /\ Issued(d, u)' = Issued(d, u) /\ Tiled(d, u)' = Tiled(d, u)
               /\ At(d, u)' \notin After => At(d, u) \notin After
               /\ d = c => At(d, u)' \in After
    <3>1. Round(d, u) \in Nat BY WarpIs
    <3>2. CASE d = c /\ u = w BY <2>9, <2>11, <2>12, <3>1, <3>2, <2>8 DEF After
    <3>3. CASE d # c \/ u # w
      <4>1. /\ Round(d, u)' = Round(d, u) /\ Issued(d, u)' = Issued(d, u) /\ Tiled(d, u)' = Tiled(d, u)
            /\ At(d, u)' = At(d, u)
        BY <2>10, <3>3, Counters
      <4> QED BY <2>8, <3>1, <4>1
    <3> QED BY <3>2, <3>3
  <2>14. \A d \in Ctas, u \in Warps : \A m \in Nat : Tiled(d, u)' > m => Landed(d, Fetcher(u), m)
    BY <2>4, <2>13 DEF Ring, TiledLanded
  <2>15. /\ Loading' /\ TiledLanded' /\ AgainRead' /\ FetchedCounts'
         /\ \A d \in Ctas, u \in Warps, m \in Nat :
              /\ Landed(d, Fetcher(u), m)' <=> Landed(d, Fetcher(u), m)
              /\ Issued(d, Fetcher(u))' = Issued(d, Fetcher(u))
    BY <2>2, <2>13, <2>14, RingStays
  <2>16. FreedCounts' BY <2>2, <2>13, FreedStay DEF Ring
  <2>17. Tiles'
    <3>1. /\ Ctas' = Ctas /\ Warps' = Warps /\ \A i \in Nat : TileStage(i)' = TileStage(i) BY <2>2, Same
    <3>2. SUFFICES ASSUME NEW d \in Ctas, NEW u \in Warps, NEW i \in Nat, NEW v \in Warps, At(d, v)' \notin After,
                          Landed(d, Fetcher(u), i)', ~(i + launch.tileStages < Issued(d, Fetcher(u))')
                   PROVE tile'[d][TileStage(i)][u] = i
      BY <2>2, <3>1 DEF Tiles
    <3>3. At(d, v) \notin After /\ d # c BY <2>13, <3>2
    <3>4. Landed(d, Fetcher(u), i) /\ ~(i + launch.tileStages < Issued(d, Fetcher(u))) BY <2>15, <3>2
    <3>5. tile'[d] = tile[d]
      <4>1. tile \in [Ctas -> [TileStages -> [Warps -> Int]]] BY DEF Types
      <4> QED BY <2>2, <3>3, <4>1
    <3> QED BY <3>3, <3>4, <3>5 DEF Ring, Tiles
  <2> QED BY <2>15, <2>16, <2>17 DEF Ring
<1> QED BY <1>1, <1>2

(* A tile that lands was issued once the stage was read, so nothing later  *)
(* has landed in its stage, and of what was issued before nothing else is  *)
(* on its way to it.                                                       *)
LEMMA LandInTime ==
  ASSUME Types, PlacesOK, Ring, NEW c \in Ctas, NEW u \in Warps, Fetcher(u) = u, NEW n \in Nat,
         n < Issued(c, u), Item(c, u, n) \in loading
  PROVE LET t == launch.tileStages IN
        /\ launch.backward /\ ~Landed(c, u, n)
        /\ ~(n + t < Issued(c, u))
        /\ \A i \in Nat : i + t <= n => Landed(c, u, i)
        /\ \A i \in Nat : TileStage(i) = TileStage(n) /\ i > n => ~Landed(c, u, i)
<1> DEFINE t == launch.tileStages
<1>1. launch \in Launches BY DEF Types
<1>2. t \in Nat /\ t > 1 BY <1>1, Launched
<1>3. Issued(c, u) \in Nat BY InOrder
<1>4. launch.backward
  <2>1. SUFFICES ASSUME ~launch.backward PROVE FALSE BY <1>1, Launched
  <2>2. Issued(c, u) = 0 BY <2>1 DEF Issued
  <2> QED BY <1>3, <2>2
<1>5. ~Landed(c, u, n) BY DEF Landed
<1>6. ASSUME NEW i \in Nat, i + t < Issued(c, u) PROVE Landed(c, u, i)
  <2>1. Round(c, u) > i BY <1>4, <1>6, AgainReadBy
  <2>2. Tiled(c, u) = Round(c, u) + (IF At(c, u) \in Loop \ {"arrives"} THEN 1 ELSE 0) BY DEF Tiled, Past
  <2>3. Round(c, u) \in Nat BY WarpIs
  <2>4. Tiled(c, u) > i BY <2>1, <2>2, <2>3
  <2>5. Landed(c, Fetcher(u), i) BY <1>4, <2>4 DEF Ring, TiledLanded
  <2> QED BY <2>5
<1>7. ~(n + t < Issued(c, u)) BY <1>5, <1>6
<1>8. ASSUME NEW i \in Nat, i + t <= n PROVE Landed(c, u, i)
  <2>1. i + t < Issued(c, u) BY <1>2, <1>3, <1>8
  <2> QED BY <1>6, <2>1
<1>9. ASSUME NEW i \in Nat, TileStage(i) = TileStage(n), i > n PROVE ~Landed(c, u, i)
  <2>1. SUFFICES ASSUME Landed(c, u, i) PROVE FALSE OBVIOUS
  <2>2. i >= n + t BY <1>1, <1>9, TileRing
  <2>3. i < Issued(c, u) BY <2>1 DEF Landed
  <2>4. n + t < Issued(c, u) BY <1>2, <1>3, <2>2, <2>3
  <2> QED BY <1>7, <2>4
<1> QED BY <1>4, <1>5, <1>7, <1>8, <1>9

(* A tile that lands keeps the types and the ring.                         *)
LEMMA RingLand ==
  ASSUME Types, PlacesOK, Ring, Land
  PROVE Types' /\ Ring'
<1> DEFINE t == launch.tileStages
<1>1. launch \in Launches BY DEF Types
<1>2. PICK f \in loading :
        /\ loading' = loading \ {f}
        /\ tile' = [tile EXCEPT ![f.cta][TileStage(f.n)] = [w \in Warps |-> IF w \in f.part THEN f.n ELSE @[w]]]
        /\ fetched' = IF launch.tma THEN [fetched EXCEPT ![f.cta][TileStage(f.n)] = Hit(@, 1, 1, 0)]
                      ELSE fetched
        /\ UNCHANGED <<launch, warp, exchange, met, freed, scratch>>
  BY DEF Land
<1>3. PICK c : c = f.cta OBVIOUS
<1>4. PICK n : n = f.n OBVIOUS
<1>5. PICK u \in Warps : Fetcher(u) = u /\ f = Item(c, u, n) /\ f.part = Part(u) /\ n < Issued(c, u)
  BY <1>3, <1>4, LoadingIs
<1>6. c \in Ctas /\ n \in Nat BY <1>3, <1>4, LoadingIs
<1>7. PICK s : s = TileStage(n) OBVIOUS
<1>8. s \in TileStages /\ TilePhase(n) \in {0, 1} BY <1>1, <1>6, <1>7, TileRing
<1>9. t \in Nat /\ t > 1 /\ launch.tma \in BOOLEAN /\ 0 \in Warps /\ launch.backward \in BOOLEAN
  BY <1>1, Launched
<1>10. /\ launch.backward /\ ~Landed(c, u, n)
       /\ ~(n + t < Issued(c, u))
       /\ \A i \in Nat : i + t <= n => Landed(c, u, i)
       /\ \A i \in Nat : TileStage(i) = s /\ i > n => ~Landed(c, u, i)
  BY <1>5, <1>6, <1>7, LandInTime
<1>11. launch' = launch /\ warp' = warp /\ freed' = freed BY <1>2
<1>12. /\ Ctas' = Ctas /\ Warps' = Warps /\ Lead' = Lead
       /\ \A w : Fetcher(w)' = Fetcher(w) /\ Part(w)' = Part(w)
       /\ \A i \in Nat : TileStage(i)' = TileStage(i) /\ TilePhase(i)' = TilePhase(i)
  BY <1>11, Same
<1>13. \A d, w : /\ At(d, w)' = At(d, w) /\ Round(d, w)' = Round(d, w) /\ Issued(d, w)' = Issued(d, w)
                 /\ Tiled(d, w)' = Tiled(d, w)
  BY <1>11, <1>12 DEF At, Round, Issued, Tiled, Past
<1>14. \A d, w, i : Item(d, w, i)' = Item(d, w, i) BY <1>12 DEF Item
<1>15. ASSUME NEW d \in Ctas, NEW x \in Warps, Fetcher(x) = x, NEW i \in Nat
       PROVE Landed(d, x, i)' <=> Landed(d, x, i) \/ (d = c /\ x = u /\ i = n)
  <2>1. Landed(d, x, i)' <=> i < Issued(d, x) /\ Item(d, x, i) \notin loading \ {f}
    BY <1>2, <1>13, <1>14 DEF Landed
  <2>2. Item(d, x, i) = f <=> d = c /\ x = u /\ i = n BY <1>1, <1>5, <1>15, ItemIs
  <2> QED BY <1>5, <2>1, <2>2 DEF Landed
<1>16. \A w \in Warps : Fetcher(w) \in Warps /\ Fetcher(Fetcher(w)) = Fetcher(w) BY <1>1, FetcherIs
<1>17. ASSUME NEW d \in Ctas, NEW w \in Warps, NEW i \in Nat
       PROVE /\ Landed(d, Fetcher(w), i)' <=> Landed(d, Fetcher(w), i) \/ (d = c /\ Fetcher(w) = u /\ i = n)
             /\ Issued(d, Fetcher(w))' = Issued(d, Fetcher(w))
  <2>1. PICK x : x = Fetcher(w) OBVIOUS
  <2>2. x \in Warps /\ Fetcher(x) = x BY <1>16, <2>1
  <2>3. Issued(d, x)' = Issued(d, x) /\ (Landed(d, x, i)' <=> Landed(d, x, i) \/ (d = c /\ x = u /\ i = n))
    BY <1>13, <1>15, <2>2
  <2>4. Issued(d, Fetcher(w))' = Issued(d, x)' /\ (Landed(d, Fetcher(w), i)' <=> Landed(d, x, i)')
    BY <1>11, <2>1, FetcherSame
  <2> QED BY <2>1, <2>3, <2>4
<1>18. Loading'
  <2>1. ASSUME NEW g \in loading'
        PROVE \E w \in Warps : Fetcher(w)' = w /\ g = Item(g.cta, w, g.n)' /\ g.n < Issued(g.cta, w)'
    <3>1. g \in loading BY <1>2, <2>1
    <3>2. PICK w \in Warps : Fetcher(w) = w /\ g = Item(g.cta, w, g.n) /\ g.n < Issued(g.cta, w)
      BY <3>1 DEF Ring, Loading
    <3> QED BY <1>12, <1>13, <1>14, <3>2
  <2> QED BY <1>12, <2>1 DEF Loading
<1>19. TiledLanded'
  <2>1. SUFFICES ASSUME NEW d \in Ctas, NEW w \in Warps, NEW i \in Nat, Tiled(d, w)' > i
                 PROVE Landed(d, Fetcher(w), i)'
    BY <1>12 DEF TiledLanded
  <2>2. Landed(d, Fetcher(w), i) BY <1>10, <1>13, <2>1 DEF Ring, TiledLanded
  <2> QED BY <1>17, <2>2
<1>20. AgainRead'
  <2>1. Issued(c, 0)' = Issued(c, 0) BY <1>13
  <2>2. AgainRead BY DEF Ring
  <2> QED BY <1>11, <1>12, <1>13, <2>2 DEF AgainRead
<1>21. FreedCounts' BY <1>11, <1>13, FreedStay DEF Ring
(* The barrier of its stage flips.                                         *)
<1>22. ASSUME launch.tma
       PROVE /\ u = 0 /\ fetched'[c][s] = [parity |-> 1 - TilePhase(n), pending |-> 1, tx |-> 0]
             /\ \A d \in Ctas : d # c => fetched'[d] = fetched[d]
             /\ \A x \in TileStages : x # s => fetched'[c][x] = fetched[c][x]
             /\ fetched' \in [Ctas -> [TileStages -> Bar(1)]]
  <2>1. u = 0 BY <1>5, <1>22 DEF Fetcher
  <2>2. fetched[c][s] = [parity |-> TilePhase(n), pending |-> 1, tx |-> 0]
    <3>1. n < t \/ Landed(c, 0, n - t)
      <4>1. SUFFICES ASSUME ~(n < t) PROVE Landed(c, 0, n - t) OBVIOUS
      <4>2. PICK j : j = n - t OBVIOUS
      <4>3. j \in Nat /\ j + t <= n BY <1>6, <1>9, <4>1, <4>2
      <4> QED BY <1>10, <2>1, <4>2, <4>3
    <3> QED BY <1>6, <1>7, <1>10, <1>22, <2>1, <3>1 DEF Ring, FetchedCounts
  <2>3. PICK b : b = fetched[c][s] OBVIOUS
  <2>4. Hit(b, 1, 1, 0) = IF 1 - 1 = 0 /\ 0 + 0 = 0 THEN [parity |-> 1 - TilePhase(n), pending |-> 1, tx |-> 0]
                          ELSE [parity |-> TilePhase(n), pending |-> 1 - 1, tx |-> 0 + 0]
    BY <2>2, <2>3, HitIs
  <2>5. PICK h : h = [parity |-> 1 - TilePhase(n), pending |-> 1, tx |-> 0] OBVIOUS
  <2>6. Hit(b, 1, 1, 0) = h BY <2>4, <2>5
  <2>7. PICK B : B = Bar(1) OBVIOUS
  <2>8. h \in B
    <3>1. 1 - TilePhase(n) \in {0, 1} BY <1>8
    <3> QED BY <2>5, <2>7, <3>1 DEF Bar
  <2>9. PICK T : T = [TileStages -> B] OBVIOUS
  <2>10. PICK g : g = fetched' OBVIOUS
  <2>11. g = [fetched EXCEPT ![c][s] = h]
    <3>1. g = [fetched EXCEPT ![c][s] = Hit(@, 1, 1, 0)] BY <1>2, <1>3, <1>4, <1>7, <1>22, <2>10
    <3>2. Hit(fetched[c][s], 1, 1, 0) = h BY <2>3, <2>6
    <3> QED BY <3>1, <3>2
  <2>12. fetched \in [Ctas -> T] /\ fetched[c] \in [TileStages -> B] /\ [TileStages -> B] \subseteq T
    BY <1>6, <2>7, <2>9 DEF Types
  <2>13. /\ g \in [Ctas -> T] /\ g[c][s] = h
         /\ \A d \in Ctas : d # c => g[d] = fetched[d]
         /\ \A x \in TileStages : x # s => g[c][x] = fetched[c][x]
    BY <1>6, <1>8, <2>8, <2>11, <2>12, HitOne
  <2> QED BY <2>1, <2>5, <2>7, <2>9, <2>10, <2>13
<1>23. FetchedCounts'
  <2>1. SUFFICES ASSUME launch.tma, NEW d \in Ctas, NEW i \in Nat,
                        i < t \/ Landed(d, 0, i - t)', ~Landed(d, 0, i)'
                 PROVE fetched'[d][TileStage(i)] = [parity |-> TilePhase(i), pending |-> 1, tx |-> 0]
    BY <1>11, <1>12 DEF FetchedCounts
  <2>2. u = 0 /\ fetched'[c][s] = [parity |-> 1 - TilePhase(n), pending |-> 1, tx |-> 0]
        /\ (\A e \in Ctas : e # c => fetched'[e] = fetched[e])
        /\ (\A x \in TileStages : x # s => fetched'[c][x] = fetched[c][x])
    BY <1>22, <2>1
  <2>3. \A e \in Ctas, j \in Nat : Landed(e, 0, j)' <=> Landed(e, 0, j) \/ (e = c /\ j = n)
    BY <1>5, <1>15, <2>2
  <2>4. ~Landed(d, 0, i) /\ ~(d = c /\ i = n) BY <2>1, <2>3
  <2>5. TileStage(i) \in TileStages BY <1>1, TileRing
  <2>6. ASSUME i >= t PROVE i - t \in Nat /\ TileStage(i - t) = TileStage(i)
    <3>1. PICK j : j = i - t OBVIOUS
    <3>2. j \in Nat /\ j + t = i BY <1>9, <2>6, <3>1
    <3>3. TileStage(j + t) = TileStage(j) BY <1>1, <3>2, TileRing
    <3> QED BY <3>1, <3>2, <3>3
  <2>7. ASSUME NEW j, j = i - t PROVE Landed(d, 0, i - t)' <=> Landed(d, 0, j)'
    BY <1>11, <2>7 DEF Landed, Item
  <2>8. CASE d # c \/ TileStage(i) # s
    <3>1. fetched'[d][TileStage(i)] = fetched[d][TileStage(i)] BY <2>2, <2>5, <2>8
    <3>2. i < t \/ Landed(d, 0, i - t)
      <4>1. SUFFICES ASSUME ~(i < t) PROVE Landed(d, 0, i - t) OBVIOUS
      <4>2. PICK j : j = i - t OBVIOUS
      <4>3. j \in Nat /\ TileStage(j) = TileStage(i) BY <1>9, <2>6, <4>1, <4>2
      <4>4. ~(d = c /\ j = n) BY <1>7, <2>8, <4>3
      <4>5. Landed(d, 0, j)' BY <2>1, <2>7, <4>1, <4>2
      <4> QED BY <2>3, <4>2, <4>3, <4>4, <4>5
    <3> QED BY <1>10, <2>1, <2>4, <3>1, <3>2 DEF Ring, FetchedCounts
  <2>9. CASE d = c /\ TileStage(i) = s /\ i > n
    <3>1. i >= n + t
      <4>1. \A m \in Nat : TileStage(m) = TileStage(n) /\ m > n => m >= n + t BY <1>1, <1>6, TileRing
      <4> QED BY <1>7, <2>9, <4>1
    <3>2. PICK j : j = i - t OBVIOUS
    <3>3. j \in Nat /\ j >= n /\ i = j + t /\ i >= t BY <1>6, <1>9, <3>1, <3>2
    <3>4. Landed(c, 0, j)'
      <4>1. ~(i < t) BY <1>9, <3>3
      <4> QED BY <2>1, <2>7, <2>9, <3>2, <4>1
    <3>5. j = n
      <4>1. SUFFICES ASSUME j > n PROVE FALSE BY <1>6, <3>3
      <4>2. TileStage(j) = s BY <2>6, <2>9, <3>2, <3>3
      <4>3. ~Landed(c, 0, j) BY <1>10, <2>2, <3>3, <4>1, <4>2
      <4>4. j # n BY <1>6, <3>3, <4>1
      <4> QED BY <1>6, <2>3, <3>3, <3>4, <4>3, <4>4
    <3>6. TilePhase(i) = 1 - TilePhase(n) BY <1>1, <1>6, <3>3, <3>5, TileRing
    <3> QED BY <2>2, <2>9, <3>6
  <2>10. CASE d = c /\ TileStage(i) = s /\ i < n
    <3>1. n >= i + t
      <4>1. \A m \in Nat : TileStage(m) = TileStage(i) /\ m > i => m >= i + t BY <1>1, TileRing
      <4> QED BY <1>6, <1>7, <2>10, <4>1
    <3>2. i + t <= n BY <1>6, <1>9, <3>1
    <3> QED BY <1>10, <2>2, <2>4, <2>10, <3>2
  <2>11. CASE d = c /\ TileStage(i) = s /\ i = n BY <2>4, <2>11
  <2> QED BY <1>6, <2>8, <2>9, <2>10, <2>11
(* The tile of its stage is the one that landed.                           *)
<1>24. /\ tile' \in [Ctas -> [TileStages -> [Warps -> Int]]]
       /\ \A d \in Ctas, x \in TileStages, w \in Warps :
            tile'[d][x][w] = IF d = c /\ x = s /\ w \in f.part THEN n ELSE tile[d][x][w]
  <2>1. PICK v : v = [w \in Warps |-> IF w \in f.part THEN n ELSE tile[c][s][w]] OBVIOUS
  <2>2. tile \in [Ctas -> [TileStages -> [Warps -> Int]]] /\ tile[c][s] \in [Warps -> Int]
    BY <1>6, <1>8 DEF Types
  <2>3. v \in [Warps -> Int] /\ \A w \in Warps : v[w] = IF w \in f.part THEN n ELSE tile[c][s][w]
    BY <1>6, <2>1, <2>2
  <2>4. tile' = [tile EXCEPT ![c][s] = v]
    <3>1. tile' = [tile EXCEPT ![c][s] = [w \in Warps |-> IF w \in f.part THEN n ELSE @[w]]]
      BY <1>2, <1>3, <1>4, <1>7
    <3> QED BY <2>1, <3>1
  <2>5. PICK g : g = tile' OBVIOUS
  <2>6. PICK R : R = [Warps -> Int] OBVIOUS
  <2>7. g = [tile EXCEPT ![c][s] = v] /\ v \in R /\ tile \in [Ctas -> [TileStages -> R]]
    BY <2>2, <2>3, <2>4, <2>5, <2>6
  <2>8. /\ g \in [Ctas -> [TileStages -> R]]
        /\ \A d \in Ctas, x \in TileStages : g[d][x] = IF d = c /\ x = s THEN v ELSE tile[d][x]
    BY <1>6, <1>8, <2>7, Except2
  <2> QED BY <2>3, <2>5, <2>6, <2>8
<1>25. Tiles'
  <2>1. SUFFICES ASSUME NEW d \in Ctas, NEW w \in Warps, NEW i \in Nat, NEW v \in Warps, At(d, v)' \notin After,
                        Landed(d, Fetcher(w), i)', ~(i + t < Issued(d, Fetcher(w))')
                 PROVE tile'[d][TileStage(i)][w] = i
    BY <1>11, <1>12 DEF Tiles
  <2>2. At(d, v) \notin After /\ ~(i + t < Issued(d, Fetcher(w)))
        /\ (Landed(d, Fetcher(w), i) \/ (d = c /\ Fetcher(w) = u /\ i = n))
    BY <1>13, <1>17, <2>1
  <2>3. TileStage(i) \in TileStages BY <1>1, TileRing
  <2>4. w \in f.part <=> Fetcher(w) = u BY <1>1, <1>5, FetcherIs
  <2>5. CASE d = c /\ Fetcher(w) = u /\ i = n BY <1>7, <1>24, <2>3, <2>4, <2>5
  <2>6. CASE ~(d = c /\ Fetcher(w) = u /\ i = n)
    <3>1. Landed(d, Fetcher(w), i) BY <2>2, <2>6
    <3>2. tile[d][TileStage(i)][w] = i BY <2>2, <3>1 DEF Ring, Tiles
    <3>3. ~(d = c /\ TileStage(i) = s /\ w \in f.part)
      <4>1. SUFFICES ASSUME d = c, TileStage(i) = s, Fetcher(w) = u PROVE FALSE BY <2>4
      <4>2. i # n BY <2>6, <4>1
      <4>3. CASE i > n BY <1>10, <3>1, <4>1, <4>3
      <4>4. CASE i < n
        <5>1. n >= i + t
          <6>1. \A m \in Nat : TileStage(m) = TileStage(i) /\ m > i => m >= i + t BY <1>1, TileRing
          <6> QED BY <1>6, <1>7, <4>1, <4>4, <6>1
        <5>2. Issued(c, u) \in Nat BY <1>6, InOrder
        <5>3. i + t < Issued(c, u) BY <1>5, <1>6, <1>9, <5>1, <5>2
        <5> QED BY <2>2, <4>1, <5>3
      <4> QED BY <1>6, <4>2, <4>3, <4>4
    <3> QED BY <1>24, <2>3, <3>2, <3>3
  <2> QED BY <2>5, <2>6
<1>26. Types'
  <2>1. UNCHANGED <<launch, warp, slots, full, empty, flying, met, freed, scratch>> BY <1>2 DEF exchange
  <2>2. /\ TileStages' = TileStages /\ Values' = Values /\ Message' = Message /\ Releases' = Releases
    BY <1>11, Same
  <2>3. fetched' \in [Ctas -> [TileStages -> Bar(1)]]
    <3>1. CASE launch.tma BY <1>22, <3>1
    <3>2. CASE ~launch.tma BY <1>2, <3>2 DEF Types
    <3> QED BY <1>9, <3>1, <3>2
  <2>4. loading' \in SUBSET [cta : Ctas, part : SUBSET Warps, n : Nat] BY <1>2 DEF Types
  <2> QED BY <1>11, <1>12, <1>24, <2>1, <2>2, <2>3, <2>4 DEF Types
<1> QED BY <1>18, <1>19, <1>20, <1>21, <1>23, <1>25, <1>26 DEF Ring

(* A warp that issues tiles: what it must show.                            *)
LEMMA RingFetch ==
  ASSUME Types, PlacesOK, Ring, launch.backward, NEW c \in Ctas, NEW w \in Warps, Fetcher(w) = w,
         NEW at, NEW n, NEW k, Moves(c, w, at, n, k), n = Round(c, w),
         at \notin After => At(c, w) \notin After, Tiled(c, w)' = Tiled(c, w),
         NEW ns \in SUBSET Nat, Fetch(c, w, ns),
         NEW low, low = Issued(c, w), NEW high \in Nat, high = Issued(c, w)', low <= high,
         \A i \in Nat : i \in ns <=> low <= i /\ i < high,
         \A v \in Warps, i \in Nat : Fetcher(v) = w /\ i + launch.tileStages < high => Round(c, v) > i
  PROVE Ring'
<1> DEFINE t == launch.tileStages
<1>1. launch \in Launches BY DEF Types
<1>2. launch' = launch BY DEF Moves
<1>3. fetched' = fetched /\ freed' = freed
      /\ loading' = loading \cup {Item(c, w, i) : i \in ns}
      /\ tile' = [tile EXCEPT ![c] = [s \in DOMAIN @ |-> [v \in Warps |->
                    IF v \in Part(w) /\ \E i \in ns : TileStage(i) = s THEN Nobody ELSE @[s][v]]]]
  BY DEF Fetch, Item
<1>4. /\ Ctas' = Ctas /\ Warps' = Warps
      /\ \A x : Fetcher(x)' = Fetcher(x) /\ Part(x)' = Part(x)
      /\ \A i \in Nat : TileStage(i)' = TileStage(i) /\ TilePhase(i)' = TilePhase(i)
  BY <1>2, Same
<1>5. t \in Nat /\ launch.tma \in BOOLEAN /\ 0 \in Warps BY <1>1, Launched
<1>6. low \in Nat BY InOrder
<1>7. At(c, w)' = at /\ Round(c, w)' = n BY Counters
<1>8. ASSUME NEW d \in Ctas, NEW u \in Warps
      PROVE /\ Round(d, u)' = Round(d, u) /\ Tiled(d, u)' = Tiled(d, u)
            /\ At(d, u)' \notin After => At(d, u) \notin After
            /\ Issued(d, u) \in Nat /\ Issued(d, u)' = IF d = c /\ u = w THEN high ELSE Issued(d, u)
  <2>1. CASE d = c /\ u = w BY <1>6, <1>7, <2>1
  <2>2. CASE d # c \/ u # w BY <2>2, Counters, InOrder
  <2> QED BY <2>1, <2>2
<1>9. \A d, u, i : Item(d, u, i)' = Item(d, u, i) BY <1>4 DEF Item
<1>10. ASSUME NEW d \in Ctas, NEW x \in Warps, Fetcher(x) = x, NEW i \in Nat
       PROVE Landed(d, x, i)' <=> Landed(d, x, i)
  <2>1. Landed(d, x, i)' <=> i < Issued(d, x)' /\ Item(d, x, i) \notin loading
                             /\ ~\E j \in ns : Item(d, x, i) = Item(c, w, j)
    BY <1>3, <1>9 DEF Landed
  <2>2. (\E j \in ns : Item(d, x, i) = Item(c, w, j)) <=> d = c /\ x = w /\ i \in ns
    BY <1>1, <1>10, ItemIs
  <2>3. CASE d = c /\ x = w
    <3>1. Landed(d, x, i)' <=> i < high /\ Item(d, x, i) \notin loading /\ i \notin ns
      BY <1>8, <2>1, <2>2, <2>3
    <3>2. i < high /\ i \notin ns <=> i < low BY <1>6
    <3> QED BY <2>3, <3>1, <3>2 DEF Landed
  <2>4. CASE ~(d = c /\ x = w) BY <1>8, <2>1, <2>2, <2>4 DEF Landed
  <2> QED BY <2>3, <2>4
<1>11. \A u \in Warps : Fetcher(u) \in Warps /\ Fetcher(Fetcher(u)) = Fetcher(u) BY <1>1, FetcherIs
<1>12. ASSUME NEW d \in Ctas, NEW u \in Warps, NEW i \in Nat
       PROVE /\ Landed(d, Fetcher(u), i)' <=> Landed(d, Fetcher(u), i)
             /\ Issued(d, Fetcher(u))' = IF d = c /\ Fetcher(u) = w THEN high ELSE Issued(d, Fetcher(u))
             /\ Issued(d, Fetcher(u)) \in Nat
  <2>1. PICK x : x = Fetcher(u) OBVIOUS
  <2>2. x \in Warps /\ Fetcher(x) = x BY <1>11, <2>1
  <2>3. /\ Issued(d, x)' = IF d = c /\ x = w THEN high ELSE Issued(d, x)
        /\ Landed(d, x, i)' <=> Landed(d, x, i)
        /\ Issued(d, x) \in Nat
    BY <1>8, <1>10, <2>2
  <2>4. Issued(d, Fetcher(u))' = Issued(d, x)' /\ (Landed(d, Fetcher(u), i)' <=> Landed(d, x, i)')
    BY <1>2, <2>1, FetcherSame
  <2> QED BY <2>1, <2>3, <2>4
<1>13. Loading'
  <2>1. ASSUME NEW f \in loading'
        PROVE \E x \in Warps : Fetcher(x)' = x /\ f = Item(f.cta, x, f.n)' /\ f.n < Issued(f.cta, x)'
    <3>1. CASE f \in loading
      <4>1. f.cta \in Ctas /\ f.n \in Nat BY <3>1, LoadingIs
      <4>2. PICK x \in Warps : Fetcher(x) = x /\ f = Item(f.cta, x, f.n) /\ f.n < Issued(f.cta, x)
        BY <3>1 DEF Ring, Loading
      <4>3. f.n < Issued(f.cta, x)' BY <1>6, <1>8, <4>1, <4>2
      <4> QED BY <1>4, <1>9, <4>2, <4>3
    <3>2. CASE f \notin loading
      <4>1. PICK j \in ns : f = Item(c, w, j) BY <1>3, <2>1, <3>2
      <4>2. f.cta = c /\ f.n = j BY <4>1 DEF Item
      <4>3. j < high BY <4>1
      <4> QED BY <1>4, <1>8, <1>9, <4>1, <4>2, <4>3
    <3> QED BY <3>1, <3>2
  <2> QED BY <1>4, <2>1 DEF Loading
<1>14. TiledLanded'
  <2>1. SUFFICES ASSUME NEW d \in Ctas, NEW u \in Warps, NEW i \in Nat, Tiled(d, u)' > i
                 PROVE Landed(d, Fetcher(u), i)'
    BY <1>4 DEF TiledLanded
  <2>2. Landed(d, Fetcher(u), i) BY <1>8, <2>1 DEF Ring, TiledLanded
  <2> QED BY <1>12, <2>2
<1>15. AgainRead'
  <2>1. SUFFICES ASSUME launch.tma, NEW d \in Ctas, NEW u \in Warps, NEW i \in Nat, i + t < Issued(d, 0)'
                 PROVE Round(d, u)' > i
    BY <1>2, <1>4 DEF AgainRead
  <2>2. w = 0 /\ Fetcher(u) = w BY <2>1 DEF Fetcher
  <2>3. Round(d, u) > i
    <3>1. CASE d = c BY <1>5, <1>8, <2>1, <2>2, <3>1
    <3>2. CASE d # c
      <4>1. i + t < Issued(d, 0) BY <1>5, <1>8, <2>1, <3>2
      <4> QED BY <2>1, <4>1 DEF Ring, AgainRead
    <3> QED BY <3>1, <3>2
  <2> QED BY <1>8, <2>3
<1>16. FreedCounts' BY <1>2, <1>3, <1>8, FreedStay DEF Ring
<1>17. FetchedCounts'
  <2>1. SUFFICES ASSUME launch.tma, NEW d \in Ctas, NEW i \in Nat,
                        i < t \/ Landed(d, 0, i - t)', ~Landed(d, 0, i)'
                 PROVE fetched[d][TileStage(i)] = [parity |-> TilePhase(i), pending |-> 1, tx |-> 0]
    BY <1>2, <1>3, <1>4 DEF FetchedCounts
  <2>2. Fetcher(0) = 0 BY <2>1 DEF Fetcher
  <2>3. ~Landed(d, 0, i) BY <1>5, <1>10, <2>1, <2>2
  <2>4. i < t \/ Landed(d, 0, i - t)
    <3>1. SUFFICES ASSUME ~(i < t) PROVE Landed(d, 0, i - t) OBVIOUS
    <3>2. PICK j : j = i - t OBVIOUS
    <3>3. j \in Nat BY <1>5, <3>1, <3>2
    <3>4. Landed(d, 0, i - t)' <=> Landed(d, 0, j)' BY <1>2, <3>2 DEF Landed, Item
    <3> QED BY <1>5, <1>10, <2>1, <2>2, <3>1, <3>2, <3>3, <3>4
  <2> QED BY <2>1, <2>3, <2>4 DEF Ring, FetchedCounts
<1>18. Tiles'
  <2>1. SUFFICES ASSUME NEW d \in Ctas, NEW u \in Warps, NEW i \in Nat, NEW v \in Warps, At(d, v)' \notin After,
                        Landed(d, Fetcher(u), i)', ~(i + t < Issued(d, Fetcher(u))')
                 PROVE tile'[d][TileStage(i)][u] = i
    BY <1>2, <1>4 DEF Tiles
  <2>2. At(d, v) \notin After /\ Landed(d, Fetcher(u), i) BY <1>8, <1>12, <2>1
  <2>3. ~(i + t < Issued(d, Fetcher(u))) BY <1>5, <1>12, <2>1
  <2>4. tile[d][TileStage(i)][u] = i BY <2>2, <2>3 DEF Ring, Tiles
  <2>5. TileStage(i) \in TileStages BY <1>1, TileRing
  <2>6. tile \in [Ctas -> [TileStages -> [Warps -> Int]]] BY DEF Types
  <2>7. CASE d # c
    <3>1. tile'[d] = tile[d] BY <1>3, <2>6, <2>7
    <3> QED BY <2>4, <3>1
  <2>8. CASE d = c
    <3>1. tile'[c][TileStage(i)][u] =
            IF u \in Part(w) /\ \E j \in ns : TileStage(j) = TileStage(i) THEN Nobody
            ELSE tile[c][TileStage(i)][u]
      BY <1>3, <2>5, <2>6
    <3>2. ~(u \in Part(w) /\ \E j \in ns : TileStage(j) = TileStage(i))
      <4>1. SUFFICES ASSUME u \in Part(w), NEW j \in ns, TileStage(j) = TileStage(i) PROVE FALSE OBVIOUS
      <4>2. Fetcher(u) = w BY <1>1, <4>1, FetcherIs
      <4>3. i < low BY <2>2, <2>8, <4>2 DEF Landed
      <4>4. j \in Nat /\ low <= j /\ j < high BY <4>1
      <4>5. j > i BY <1>6, <4>3, <4>4
      <4>6. j >= i + t BY <1>1, <4>1, <4>4, <4>5, TileRing
      <4>7. i + t < high BY <1>5, <4>4, <4>6
      <4>8. Issued(d, Fetcher(u))' = high BY <1>12, <2>8, <4>2
      <4> QED BY <2>1, <4>7, <4>8
    <3> QED BY <2>4, <2>8, <3>1, <3>2
  <2> QED BY <2>7, <2>8
<1> QED BY <1>13, <1>14, <1>15, <1>16, <1>17, <1>18 DEF Ring

(* The first tiles are fetched into stages never used.                     *)
LEMMA RingPrefetch ==
  ASSUME Types, PlacesOK, Ring, NEW c \in Ctas, NEW w \in Warps, Prefetch(c, w)
  PROVE Ring'
<1>1. launch \in Launches BY DEF Types
<1>2. At(c, w) = "prefetch" BY DEF Prefetch
<1>3. CASE ~Fetches(w)
  <2>1. UNCHANGED ring BY <1>3 DEF Prefetch
  <2> QED BY <1>3, <2>1, RingQuiet
<1>4. CASE Fetches(w)
  <2>0. PICK ns : ns = {i \in 0..Lead - 1 : i < launch.rounds} OBVIOUS
  <2>1. Fetch(c, w, ns) BY <1>4, <2>0 DEF Prefetch
  <2>2. launch.backward /\ Round(c, w) = 0
    <3>1. PlaceOK(c, w) BY DEF PlacesOK
    <3> QED BY <1>2, <3>1 DEF PlaceOK
  <2>3. PICK n : n = Round(c, w) OBVIOUS
  <2>4. Moves(c, w, "ahead", n, warp[c][w].k) BY <2>3, Moving
  <2>5. Lead \in Nat /\ Lead = launch.tileStages - 1 /\ launch.rounds \in Nat /\ launch.tileStages \in Nat
    BY <1>1, Launched
  <2>6. Tiled(c, w)' = Tiled(c, w)
    <3>1. Tiled(c, w)' = n + 0 BY <2>4, Counters DEF Loop
    <3>2. Tiled(c, w) = n + 0 BY <1>2, <2>3 DEF Tiled, Past, Loop
    <3> QED BY <3>1, <3>2
  <2>7. PICK high : high = Issued(c, w)' OBVIOUS
  <2>8. PICK low : low = Issued(c, w) OBVIOUS
  <2>9. low = 0 BY <1>2, <2>8 DEF Issued
  <2>10. high = IF Lead < launch.rounds THEN Lead ELSE launch.rounds
    <3>1. high = IF n + 0 + Lead < launch.rounds THEN n + 0 + Lead ELSE launch.rounds
      BY <2>2, <2>4, <2>7, IssuedMove DEF Loop
    <3> QED BY <2>2, <2>3, <2>5, <3>1
  <2>11. high \in Nat /\ high < launch.tileStages BY <2>5, <2>10
  <2>12. \A i \in Nat : i \in ns <=> low <= i /\ i < high BY <2>0, <2>5, <2>9, <2>10
  <2>13. ns \in SUBSET Nat /\ low <= high BY <2>0, <2>5, <2>9, <2>11
  <2>14. \A v \in Warps, i \in Nat : Fetcher(v) = w /\ i + launch.tileStages < high => Round(c, v) > i
    BY <2>5, <2>11
  <2>15. Fetcher(w) = w BY <1>1, <1>4, FetcherIs
  <2>16. At(c, w) \notin After BY <1>2 DEF After
  <2>17. launch.backward /\ high \in Nat BY <2>2, <2>11
  <2> QED BY <2>1, <2>3, <2>4, <2>6, <2>7, <2>8, <2>12, <2>13, <2>14, <2>15, <2>16, <2>17, RingFetch
<1> QED BY <1>3, <1>4

(* By TMA a stage is fetched again when its barrier says that all warps    *)
(* freed it, and what it says is of the tile before.                       *)
LEMMA RingAhead ==
  ASSUME Types, PlacesOK, Ring, NEW c \in Ctas, NEW w \in Warps, Ahead(c, w)
  PROVE Ring'
<1>1. launch \in Launches BY DEF Types
<1>2. At(c, w) = "ahead" /\ Round(c, w) < launch.rounds BY DEF Ahead
<1>3. CASE ~(Fetches(w) /\ Round(c, w) + Lead < launch.rounds)
  <2>1. UNCHANGED ring BY <1>3 DEF Ahead
  <2> QED BY <1>3, <2>1, RingQuiet
<1>4. CASE Fetches(w) /\ Round(c, w) + Lead < launch.rounds
  <2> DEFINE t == launch.tileStages
  <2>1. launch.backward
    <3>1. PlaceOK(c, w) BY DEF PlacesOK
    <3> QED BY <1>2, <3>1 DEF PlaceOK
  <2>2. PICK n : n = Round(c, w) OBVIOUS
  <2>3. n \in Nat BY <2>2, WarpIs
  <2>4. PICK m : m = n + Lead OBVIOUS
  <2>5. TileFree(c, m) /\ Fetch(c, w, {m}) /\ m < launch.rounds BY <1>4, <2>2, <2>4 DEF Ahead
  <2>6. Moves(c, w, "arrives", n, warp[c][w].k) BY <2>2, Moving
  <2>7. Lead \in Nat /\ Lead = t - 1 /\ launch.rounds \in Nat /\ t \in Nat /\ t > 1 /\ launch.tma \in BOOLEAN
    BY <1>1, Launched
  <2>8. Tiled(c, w)' = Tiled(c, w)
    <3>1. Tiled(c, w)' = n + 0 BY <2>6, Counters DEF Loop
    <3>2. Tiled(c, w) = n + 0 BY <1>2, <2>2 DEF Tiled, Past, Loop
    <3> QED BY <3>1, <3>2
  <2>9. PICK high : high = Issued(c, w)' OBVIOUS
  <2>10. PICK low : low = Issued(c, w) OBVIOUS
  <2>11. m \in Nat /\ m + 1 = n + t BY <2>3, <2>4, <2>7
  <2>12. low = m
    <3>1. low = IF n + 0 + Lead < launch.rounds THEN n + 0 + Lead ELSE launch.rounds
      BY <1>2, <2>1, <2>2, <2>10 DEF Issued, Past, Loop
    <3> QED BY <2>3, <2>4, <2>5, <2>7, <3>1
  <2>13. high = m + 1
    <3>1. high = IF n + 1 + Lead < launch.rounds THEN n + 1 + Lead ELSE launch.rounds
      BY <2>1, <2>6, <2>9, IssuedMove DEF Loop
    <3> QED BY <2>3, <2>4, <2>5, <2>7, <3>1
  <2>14. Fetcher(w) = w BY <1>1, <1>4, FetcherIs
  <2>15. ASSUME NEW v \in Warps, NEW i \in Nat, Fetcher(v) = w, i + t < high PROVE Round(c, v) > i
    <3>1. CASE ~launch.tma
      <4>1. v = w BY <2>15, <3>1 DEF Fetcher
      <4>2. i < n BY <2>3, <2>7, <2>11, <2>13, <2>15
      <4> QED BY <2>2, <2>3, <4>1, <4>2
    <3>2. CASE launch.tma /\ i + t < m
      <4>1. w = 0 BY <2>14, <3>2 DEF Fetcher
      <4>2. i + t < Issued(c, 0) BY <2>10, <2>12, <3>2, <4>1
      <4> QED BY <2>1, <3>2, <4>2 DEF Ring, AgainRead
    <3>3. CASE launch.tma /\ ~(i + t < m)
      <4>1. i + t = m BY <2>7, <2>11, <2>13, <2>15, <3>3
      <4>2. SUFFICES ASSUME Readers(c, i) # Warps PROVE FALSE BY <4>2 DEF Readers
      <4>3. w = 0 BY <2>14, <3>3 DEF Fetcher
      <4>4. i < t \/ Readers(c, i - t) = Warps
        <5>1. SUFFICES ASSUME ~(i < t) PROVE Readers(c, i - t) = Warps OBVIOUS
        <5>2. PICK j : j = i - t OBVIOUS
        <5>3. j \in Nat /\ j + t < m BY <2>7, <4>1, <5>1, <5>2
        <5>4. j + t < Issued(c, 0) BY <2>10, <2>12, <4>3, <5>3
        <5>5. \A x \in Warps : Round(c, x) > j BY <2>1, <3>3, <5>3, <5>4 DEF Ring, AgainRead
        <5> QED BY <5>2, <5>5 DEF Readers
      <4>5. freed[c][TileStage(i)] =
              [parity |-> TilePhase(i), pending |-> launch.warps - Cardinality(Readers(c, i)), tx |-> 0]
        BY <2>1, <3>3, <4>2, <4>4 DEF Ring, FreedCounts
      <4>6. freed[c][TileStage(i)].parity = TilePhase(i) BY <4>5
      <4>7. TileStage(m) = TileStage(i) /\ TilePhase(m) = 1 - TilePhase(i) /\ TilePhase(i) \in {0, 1}
        BY <1>1, <4>1, TileRing
      <4>8. freed[c][TileStage(m)].parity = TilePhase(m) BY <2>5, <3>3 DEF TileFree
      <4> QED BY <4>6, <4>7, <4>8
    <3> QED BY <2>7, <3>1, <3>2, <3>3
  <2>16. PICK ns : ns = {m} OBVIOUS
  <2>17. \A i \in Nat : i \in ns <=> low <= i /\ i < high BY <2>11, <2>12, <2>13, <2>16
  <2>18. ns \in SUBSET Nat /\ Fetch(c, w, ns) BY <2>5, <2>11, <2>16
  <2>19. high \in Nat /\ low <= high BY <2>11, <2>12, <2>13
  <2>20. At(c, w) \notin After BY <1>2 DEF After
  <2> QED BY <2>1, <2>2, <2>6, <2>8, <2>9, <2>10, <2>14, <2>15, <2>17, <2>18, <2>19, <2>20, RingFetch
<1> QED BY <1>3, <1>4

-----------------------------------------------------------------------------
(* Every step keeps the invariant.                                         *)

(* A step of a warp keeps the ring.                                        *)
LEMMA RingStep ==
  ASSUME Types, PlacesOK, Folds, Ring, NEW c \in Ctas, NEW w \in Warps, WarpNext(c, w)
  PROVE Ring'
<1>1. CASE Prefetch(c, w) BY <1>1, RingPrefetch
<1>2. CASE Ahead(c, w) BY <1>2, RingAhead
<1>3. CASE Gradient(c, w) BY <1>3, RingGradient
<1>4. CASE FoldWrite(c, w) BY <1>4, RingWrite
<1>5. CASE Setup(c, w) \/ Load(c, w) \/ Join(c, w) \/ WaitTile(c, w) \/ Acquire(c, w)
           \/ PublishCluster(c, w) \/ PublishBlock(c, w) \/ Alone(c, w) \/ WaitAll(c, w)
  <2>1. UNCHANGED ring
    BY <1>5 DEF Setup, Load, Join, WaitTile, Acquire, PublishCluster, PublishBlock, Alone, WaitAll
  <2>2. CASE Setup(c, w) \/ Load(c, w) \/ Join(c, w) \/ WaitTile(c, w) \/ Acquire(c, w) BY <2>1, <2>2, RingQuiet
  <2>3. CASE PublishCluster(c, w) \/ PublishBlock(c, w) \/ Alone(c, w) \/ WaitAll(c, w) BY <2>1, <2>3, RingQuiet
  <2> QED BY <1>5, <2>2, <2>3
<1>6. CASE CombineBackward(c, w) \/ CombineForward(c, w) \/ Output(c, w) \/ LeaveLoop(c, w)
           \/ FoldArrive(c, w) \/ FoldLeave(c, w) \/ FoldRead(c, w) \/ Leave(c, w)
  <2>1. UNCHANGED ring
    BY <1>6 DEF CombineBackward, CombineForward, Output, LeaveLoop, FoldArrive, FoldLeave, FoldRead, Leave
  <2>2. CASE CombineBackward(c, w) \/ CombineForward(c, w) \/ Output(c, w) \/ LeaveLoop(c, w)
    BY <2>1, <2>2, RingQuiet
  <2>3. CASE FoldArrive(c, w) \/ FoldLeave(c, w) \/ FoldRead(c, w) \/ Leave(c, w) BY <2>1, <2>3, RingQuiet
  <2> QED BY <1>6, <2>2, <2>3
<1> QED BY <1>1, <1>2, <1>3, <1>4, <1>5, <1>6 DEF WarpNext

(* A step of a warp keeps the exchange.                                    *)
LEMMA ExchangeStep ==
  ASSUME Types, PlacesOK, Exchange, NEW c \in Ctas, NEW w \in Warps, WarpNext(c, w)
  PROVE Exchange'
<1>1. CASE Setup(c, w) BY <1>1, ExchangeSetup
<1>2. CASE Alone(c, w) \/ PublishBlock(c, w) BY <1>2, ExchangeBlock
<1>3. CASE CombineBackward(c, w) BY <1>3, ExchangeRelease
<1>4. CASE PublishCluster(c, w) BY <1>4, ExchangePublish
<1>5. CASE \/ Load(c, w) \/ Join(c, w) \/ Prefetch(c, w) \/ Ahead(c, w) \/ WaitTile(c, w) \/ Acquire(c, w)
           \/ WaitAll(c, w) \/ CombineForward(c, w) \/ Output(c, w) \/ Gradient(c, w) \/ LeaveLoop(c, w)
           \/ FoldArrive(c, w) \/ FoldLeave(c, w) \/ FoldWrite(c, w) \/ FoldRead(c, w) \/ Leave(c, w)
  BY <1>5, ExchangeQuiet
<1> QED BY <1>1, <1>2, <1>3, <1>4, <1>5 DEF WarpNext

(* A step of a warp keeps the types.                                       *)
LEMMA TypesWarp ==
  ASSUME Types, PlacesOK, Exchange, Ring, NEW c \in Ctas, NEW w \in Warps, WarpNext(c, w)
  PROVE Types'
<1>1. CASE PublishCluster(c, w) BY <1>1, TypesPublish
<1>2. CASE Gradient(c, w) BY <1>2, TypesGradient
<1>3. CASE ~PublishCluster(c, w) /\ ~Gradient(c, w) BY <1>3, TypesStep
<1> QED BY <1>1, <1>2, <1>3

(* The warps' places stay when no warp moves.                              *)
LEMMA PlacesSame ==
  ASSUME PlacesOK, UNCHANGED <<launch, warp>>
  PROVE PlacesOK'
<1>1. launch' = launch /\ warp' = warp OBVIOUS
<1>2. Ctas' = Ctas /\ Warps' = Warps /\ (Exchanges' <=> Exchanges) /\ Fold' = Fold BY <1>1, Same
<1>3. ASSUME NEW c \in Ctas, NEW w \in Warps PROVE PlaceOK(c, w)'
  <2>1. PlaceOK(c, w) BY DEF PlacesOK
  <2>2. At(c, w)' = At(c, w) /\ Round(c, w)' = Round(c, w) /\ warp'[c][w] = warp[c][w] /\ (Op(c, w)' = Op(c, w))
    BY <1>1, <1>2 DEF At, Round, Op
  <2> QED BY <1>1, <1>2, <2>1, <2>2 DEF PlaceOK
<1> QED BY <1>2, <1>3 DEF PlacesOK

(* Every step keeps the invariant.                                         *)
LEMMA NextInv ==
  ASSUME IInv, [Next]_vars
  PROVE IInv'
<1>1. Types /\ PlacesOK /\ Exchange /\ Folds /\ Ring BY DEF IInv
<1>2. ASSUME NEW c \in Ctas, NEW w \in Warps, WarpNext(c, w) PROVE IInv'
  <2>1. Types' BY <1>1, <1>2, TypesWarp
  <2>2. PlacesOK' BY <1>1, <1>2, PlacesStep
  <2>3. Exchange' BY <1>1, <1>2, ExchangeStep
  <2>4. Folds' BY <1>1, <1>2, FoldsStep
  <2>5. Ring' BY <1>1, <1>2, RingStep
  <2> QED BY <2>1, <2>2, <2>3, <2>4, <2>5 DEF IInv
<1>3. CASE Land
  <2>1. UNCHANGED <<launch, warp, exchange, met, scratch>> BY <1>3 DEF Land
  <2>2. Types' /\ Ring' BY <1>1, <1>3, RingLand
  <2>3. Exchange' BY <1>1, <2>1, ExchangeSame
  <2>4. Folds' BY <1>1, <2>1, FoldsSame
  <2>5. PlacesOK' BY <1>1, <2>1, PlacesSame
  <2> QED BY <2>2, <2>3, <2>4, <2>5 DEF IInv
<1>4. CASE Perform
  <2>1. UNCHANGED <<launch, warp, met, ring, scratch>> BY <1>4 DEF Perform
  <2>2. Types' /\ Exchange' BY <1>1, <1>4, ExchangePerform
  <2>3. Ring' BY <1>1, <2>1, RingSame
  <2>4. Folds' BY <1>1, <2>1, FoldsSame
  <2>5. PlacesOK' BY <1>1, <2>1, PlacesSame
  <2> QED BY <2>2, <2>3, <2>4, <2>5 DEF IInv
<1>5. CASE UNCHANGED vars
  <2>1. UNCHANGED <<launch, warp, exchange, met, ring, scratch>> BY <1>5 DEF vars
  <2>2. Exchange' BY <1>1, <2>1, ExchangeSame
  <2>3. Ring' BY <1>1, <2>1, RingSame
  <2>4. Folds' BY <1>1, <2>1, FoldsSame
  <2>5. PlacesOK' BY <1>1, <2>1, PlacesSame
  <2>6. Types'
    <3>1. UNCHANGED <<launch, warp, slots, full, empty, flying, met, tile, fetched, freed, loading, scratch>>
      BY <2>1 DEF exchange, ring
    <3>2. /\ Ctas' = Ctas /\ Warps' = Warps /\ TileStages' = TileStages /\ Values' = Values /\ Message' = Message
          /\ Releases' = Releases
      BY <3>1, Same
    <3> QED BY <1>1, <3>1, <3>2 DEF Types
  <2> QED BY <2>2, <2>3, <2>4, <2>5, <2>6 DEF IInv
<1> QED BY <1>2, <1>3, <1>4, <1>5 DEF Next

(* Every launch starts in it.                                              *)
LEMMA InitInv ==
  ASSUME Init
  PROVE IInv
<1>1. launch \in Launches BY DEF Init
<1>2. /\ launch.ctas \in Nat \ {0} /\ launch.warps \in Nat \ {0} /\ launch.rounds \in Nat
      /\ launch.values \in Nat \ {0} /\ launch.tileStages \in Nat \ {0, 1}
      /\ launch.backward \in BOOLEAN /\ launch.tma \in BOOLEAN /\ 0 \in Ctas /\ 0 \in Warps
      /\ Len(Fold) \in 0..9 /\ Releases \in Nat
  BY <1>1, Launched, FoldIs, Counted
<1>3. \A c \in Ctas, w \in Warps : warp[c][w] = [at |-> "setup", n |-> 0, k |-> 1] BY DEF Init
<1>4. \A c \in Ctas, w \in Warps : At(c, w) = "setup" /\ Round(c, w) = 0 /\ warp[c][w].k = 1
  BY <1>3 DEF At, Round
<1>5. ASSUME NEW c \in Ctas, NEW w \in Warps
      PROVE /\ Acquired(c, w) = 0 /\ Stored(c, w) = 0 /\ Seen(c, w) = 0 /\ Released(c, w) = 0
            /\ Tiled(c, w) = 0 /\ Issued(c, w) = 0
  <2>1. At(c, w) = "setup" /\ Round(c, w) = 0 BY <1>4
  <2> QED BY <2>1 DEF Acquired, Stored, Seen, Released, Tiled, Issued, Past, Ended, Loop
<1>6. Types
  <2>1. warp \in [Ctas -> [Warps -> [at : Places, n : 0..launch.rounds, k : 1..10]]]
    <3>1. [at |-> "setup", n |-> 0, k |-> 1] \in [at : Places, n : 0..launch.rounds, k : 1..10]
      BY <1>2 DEF Places
    <3> QED BY <3>1 DEF Init
  <2>2. slots \in [Ctas -> [Stages -> [Values -> [Warps \X Ctas -> Int]]]] BY DEF Init, Nobody, Values
  <2>3. /\ full \in [Ctas -> {<<>>} \cup [Stages -> Bar(1)]]
        /\ empty \in [Ctas -> {<<>>} \cup [Stages -> Bar(Releases)]]
    BY DEF Init
  <2>4. tile \in [Ctas -> [TileStages -> [Warps -> Int]]] BY DEF Init, Nobody, TileStages
  <2>5. fetched \in [Ctas -> [TileStages -> Bar(1)]]
    <3>1. Fresh(1) \in Bar(1) BY FreshIs
    <3> QED BY <3>1 DEF Init, TileStages
  <2>6. freed \in [Ctas -> [TileStages -> Bar(launch.warps)]]
    <3>1. Fresh(launch.warps) \in Bar(launch.warps) BY <1>2, FreshIs
    <3> QED BY <3>1 DEF Init, TileStages
  <2>7. met \in [Ctas -> [Warps -> Nat]] /\ scratch \in [Ctas -> [Warps -> 0..2]] /\ flying = {} /\ loading = {}
    BY DEF Init
  <2> QED BY <1>1, <2>1, <2>2, <2>3, <2>4, <2>5, <2>6, <2>7 DEF Types
<1>7. PlacesOK
  <2>1. SUFFICES ASSUME NEW c \in Ctas, NEW w \in Warps PROVE PlaceOK(c, w) BY DEF PlacesOK
  <2>2. At(c, w) = "setup" /\ Round(c, w) = 0 /\ warp[c][w].k = 1 BY <1>4
  <2> QED BY <1>2, <2>2 DEF PlaceOK, Loop, After
<1>8. Exchange
  <2>1. \A c \in Ctas : full[c] = <<>> /\ empty[c] = <<>> BY DEF Init
  <2>2. flying = {} BY DEF Init
  <2>3. Ready BY <1>2, <1>4, <2>1 DEF Ready
  <2>4. Flying BY <2>2 DEF Flying
  <2>5. FullCounts /\ EmptyCounts BY <2>1 DEF FullCounts, EmptyCounts
  <2>6. SeenFull BY <1>5 DEF SeenFull
  <2>7. AcquiredFree BY <1>5 DEF AcquiredFree
  <2>8. DoneFree BY <1>4 DEF DoneFree
  <2>9. Slots
    <3>1. SUFFICES ASSUME NEW c \in Ctas, NEW d \in Ctas, NEW u \in Warps, NEW v \in Values, NEW n \in Nat,
                          <<<<d, u>>, v>> \in Got(c, n)
                   PROVE FALSE
      BY DEF Slots
    <3>2. Stored(d, u) > n BY <3>1, GotIs
    <3> QED BY <1>5, <3>2
  <2> QED BY <2>3, <2>4, <2>5, <2>6, <2>7, <2>8, <2>9 DEF Exchange
<1>9. Folds
  <2>1. \A c \in Ctas, w \in Warps : met[c][w] = 0 /\ scratch[c][w] = 0 BY DEF Init
  <2>2. ASSUME NEW c \in Ctas, NEW w \in Warps
        PROVE Before(c, w) = 0 /\ ~Holding(c, w) /\ Through(c, w) = 0
    <3>1. Before(c, w) = 0 BY <1>5 DEF Before
    <3>2. ~Holding(c, w) BY <1>4 DEF Holding
    <3>3. Through(c, w) = 0 - 0 BY <2>1, <3>2 DEF Through
    <3> QED BY <3>1, <3>2, <3>3
  <2>3. Meets[1] = 0 /\ Left(1) = 0 BY DEF Meets, Left
  <2>4. MetCounts
    <3>1. SUFFICES ASSUME NEW c \in Ctas, NEW w \in Warps
                   PROVE met[c][w] = Before(c, w) + Meets[warp[c][w].k] + (IF At(c, w) = "held" THEN 1 ELSE 0)
      BY DEF MetCounts
    <3>2. Before(c, w) = 0 /\ Meets[warp[c][w].k] = 0 /\ At(c, w) # "held" /\ met[c][w] = 0
      BY <1>4, <2>1, <2>2, <2>3
    <3> QED BY <3>2
  <2>5. MetAll BY <2>1, <2>2 DEF MetAll
  <2>6. Scratch BY <1>4, <2>1, <2>3 DEF Scratch
  <2> QED BY <2>4, <2>5, <2>6 DEF Folds
<1>10. Ring
  <2>1. loading = {} BY DEF Init
  <2>2. \A c \in Ctas, w \in Warps, n \in Nat : ~Landed(c, w, n) BY <1>5 DEF Landed
  <2>3. \A w \in Warps : Fetcher(w) \in Warps BY <1>1, FetcherIs
  <2>4. Loading BY <2>1 DEF Loading
  <2>5. TiledLanded BY <1>5 DEF TiledLanded
  <2>6. AgainRead
    <3>1. \A c \in Ctas, n \in Nat : ~(n + launch.tileStages < Issued(c, 0)) BY <1>2, <1>5
    <3> QED BY <3>1 DEF AgainRead
  <2>7. Tiles BY <2>2, <2>3 DEF Tiles
  <2>8. FetchedCounts
    <3>1. SUFFICES ASSUME NEW c \in Ctas, NEW n \in Nat, n < launch.tileStages \/ Landed(c, 0, n - launch.tileStages)
                   PROVE fetched[c][TileStage(n)] = [parity |-> TilePhase(n), pending |-> 1, tx |-> 0]
      BY DEF FetchedCounts
    <3>2. n < launch.tileStages
      <4>1. SUFFICES ASSUME ~(n < launch.tileStages) PROVE FALSE OBVIOUS
      <4>2. n - launch.tileStages \in Nat BY <1>2, <4>1
      <4> QED BY <1>2, <2>2, <3>1, <4>1, <4>2
    <3>3. TilePhase(n) = 0 /\ TileStage(n) \in TileStages BY <1>1, <3>2, TileRing
    <3>4. fetched[c][TileStage(n)] = Fresh(1) BY <3>3 DEF Init, TileStages
    <3> QED BY <3>3, <3>4 DEF Fresh
  <2>9. FreedCounts
    <3>1. \A c \in Ctas, n \in Nat : Readers(c, n) = {}
      <4>1. \A c \in Ctas, w \in Warps, n \in Nat : ~(Round(c, w) > n) BY <1>4
      <4> QED BY <4>1 DEF Readers
    <3>2. SUFFICES ASSUME NEW c \in Ctas, NEW n \in Nat,
                          n < launch.tileStages \/ Readers(c, n - launch.tileStages) = Warps
                   PROVE freed[c][TileStage(n)] =
                     [parity |-> TilePhase(n), pending |-> launch.warps - Cardinality(Readers(c, n)), tx |-> 0]
      BY DEF FreedCounts
    <3>3. n < launch.tileStages
      <4>1. SUFFICES ASSUME ~(n < launch.tileStages) PROVE FALSE OBVIOUS
      <4>2. n - launch.tileStages \in Nat BY <1>2, <4>1
      <4> QED BY <1>2, <3>1, <3>2, <4>1, <4>2
    <3>4. TilePhase(n) = 0 /\ TileStage(n) \in TileStages BY <1>1, <3>3, TileRing
    <3>5. freed[c][TileStage(n)] = Fresh(launch.warps) BY <3>4 DEF Init, TileStages
    <3>6. Cardinality(Readers(c, n)) = 0 BY <3>1, FS_EmptySet
    <3>7. launch.warps - Cardinality(Readers(c, n)) = launch.warps BY <1>2, <3>6
    <3> QED BY <3>4, <3>5, <3>7 DEF Fresh
  <2> QED BY <2>4, <2>5, <2>6, <2>7, <2>8, <2>9 DEF Ring
<1> QED BY <1>6, <1>7, <1>8, <1>9, <1>10 DEF IInv

(* The invariant holds of every launch, at every step.                     *)
THEOREM Invariance == Spec => []IInv
<1>1. Init => IInv BY InitInv
<1>2. IInv /\ [Next]_vars => IInv' BY NextInv
<1> QED BY <1>1, <1>2, PTL DEF Spec

-----------------------------------------------------------------------------
(* What the invariant says of the properties.                              *)

(* The invariant has the types the runs check.                             *)
LEMMA BarriersHold == ASSUME IInv PROVE TypeOK
<1>1. Types BY DEF IInv
<1>2. ASSUME NEW c \in Ctas PROVE Barriers(full[c], 1) /\ Barriers(empty[c], Releases)
  <2>1. full[c] \in {<<>>} \cup [Stages -> Bar(1)] /\ empty[c] \in {<<>>} \cup [Stages -> Bar(Releases)]
    BY <1>1 DEF Types
  <2>2. Barriers(full[c], 1)
    <3>1. CASE full[c] = <<>> BY <3>1 DEF Barriers
    <3>2. CASE full[c] \in [Stages -> Bar(1)] BY <3>2 DEF Barriers, Bar
    <3> QED BY <2>1, <3>1, <3>2
  <2>3. Barriers(empty[c], Releases)
    <3>1. CASE empty[c] = <<>> BY <3>1 DEF Barriers
    <3>2. CASE empty[c] \in [Stages -> Bar(Releases)] BY <3>2 DEF Barriers, Bar
    <3> QED BY <2>1, <3>1, <3>2
  <2> QED BY <2>2, <2>3
<1>3. ASSUME NEW c \in Ctas PROVE Barriers(fetched[c], 1) /\ Barriers(freed[c], launch.warps)
  <2>1. fetched[c] \in [TileStages -> Bar(1)] /\ freed[c] \in [TileStages -> Bar(launch.warps)]
    BY <1>1 DEF Types
  <2> QED BY <2>1 DEF Barriers, Bar
<1>4. \A c \in Ctas, w \in Warps : Round(c, w) \in 0..launch.rounds BY <1>1, WarpIs
<1> QED BY <1>2, <1>3, <1>4 DEF TypeOK

(* How many CTA barriers a warp has been through, and at most one more it  *)
(* has arrived at.                                                         *)
LEMMA MetIs ==
  ASSUME IInv, NEW c \in Ctas, NEW w \in Warps
  PROVE LET k == warp[c][w].k
            b == Before(c, w) IN
        /\ b \in Nat /\ k \in 1..10 /\ Meets[k] \in Nat
        /\ met[c][w] = b + Meets[k] + (IF At(c, w) = "held" THEN 1 ELSE 0)
        /\ At(c, w) \notin {"held", "wait"} => Through(c, w) = met[c][w]
        /\ At(c, w) # "wait" => Through(c, w) = b + Meets[k]
        /\ Through(c, w) \in Int /\ b + Meets[k] <= Through(c, w) + 1
        /\ \A v \in Warps : Through(c, w) <= met[c][v]
<1> DEFINE k == warp[c][w].k
           b == Before(c, w)
           m == met[c][w]
<1>1. Types /\ PlacesOK /\ Folds BY DEF IInv
<1>2. k \in 1..10 /\ At(c, w) \in Places BY <1>1, WarpIs
<1>3. Meets[k] \in Nat BY <1>2, MeetsIs
<1>4. b \in Nat
  <2>1. Stored(c, w) \in Nat BY <1>1, InOrder
  <2> QED BY <2>1 DEF Before
<1>5. m = b + Meets[k] + (IF At(c, w) = "held" THEN 1 ELSE 0) BY <1>1 DEF Folds, MetCounts
<1>6. Through(c, w) = m - (IF Holding(c, w) THEN 1 ELSE 0) BY DEF Through
<1>7. At(c, w) = "held" => Holding(c, w) BY DEF Holding
<1>8. At(c, w) \notin {"held", "wait"} => ~Holding(c, w) BY DEF Holding
<1>9. \A v \in Warps : Through(c, w) <= met[c][v] BY <1>1 DEF Folds, MetAll
<1> HIDE DEF k, b, m
<1>10. PICK i : i = Meets[k] OBVIOUS
<1>11. i \in Nat /\ m = b + i + (IF At(c, w) = "held" THEN 1 ELSE 0) BY <1>3, <1>5, <1>10
<1>12. m \in Nat /\ b + i <= m /\ (At(c, w) = "held" => m = b + i + 1) /\ (At(c, w) # "held" => m = b + i)
  BY <1>4, <1>11
<1>13. At(c, w) \notin {"held", "wait"} => Through(c, w) = m BY <1>6, <1>8, <1>12
<1>14. At(c, w) # "wait" => Through(c, w) = b + i BY <1>4, <1>6, <1>7, <1>8, <1>11, <1>12
<1>15. Through(c, w) \in Int /\ b + i <= Through(c, w) + 1 BY <1>4, <1>6, <1>11, <1>12
<1> QED BY <1>2, <1>3, <1>4, <1>5, <1>9, <1>10, <1>13, <1>14, <1>15 DEF k, b, m

(* Until a warp has combined, the slots of the round hold the round.       *)
LEMMA CombinesItsRound ==
  ASSUME IInv, NEW c \in Ctas, NEW w \in Warps, At(c, w) = "combine", Exchanges,
         NEW v \in Values, NEW u \in Warps, NEW d \in Ctas
  PROVE slots[c][StageOf(Round(c, w))][v][<<u, d>>] = Round(c, w)
<1>1. Types /\ PlacesOK /\ Exchange /\ Folds BY DEF IInv
<1>2. PICK n : n = Round(c, w) OBVIOUS
<1>3. n \in Nat BY <1>1, <1>2, WarpIs
<1>4. launch \in Launches BY <1>1 DEF Types
<1>5. launch.rounds \in Nat /\ launch.backward \in BOOLEAN /\ Clustered \in BOOLEAN
      /\ (~launch.backward => launch.rounds \in {1, 2}) /\ (~Clustered => Ctas = {0})
  BY <1>4, Launched
<1>6. PlaceOK(c, w) /\ PlaceOK(d, u) /\ PlaceOK(c, u) BY <1>1 DEF PlacesOK
<1>7. n < launch.rounds BY <1>2, <1>6 DEF PlaceOK, Loop
<1>8. Stored(c, w) = n + 1 /\ Seen(c, w) = n + 1 /\ Released(c, w) = n + 0
  BY <1>2 DEF Stored, Seen, Released, Past
<1>9. Stored(d, u) \in Nat /\ Acquired(d, u) \in Nat /\ Stored(d, u) <= launch.rounds
      /\ (launch.backward => Stored(d, u) <= Acquired(d, u))
  BY <1>1, InOrder
<1>10. <<<<d, u>>, v>> \in Got(c, n) /\ ~(Stored(d, u) > n + 2)
  <2>1. CASE Clustered
    <3>1. Full(c, n)
      <4>1. Seen(c, w) > n BY <1>3, <1>8
      <4> QED BY <1>1, <1>3, <2>1, <4>1 DEF Exchange, SeenFull
    <3>2. <<<<d, u>>, v>> \in Got(c, n) BY <3>1 DEF Full, Partials
    <3>3. ~(Stored(d, u) > n + 2)
      <4>1. SUFFICES ASSUME Stored(d, u) > n + 2 PROVE FALSE OBVIOUS
      <4>2. launch.backward BY <1>3, <1>5, <1>9, <4>1
      <4>3. Acquired(d, u) > n + 2 BY <1>3, <1>9, <4>1, <4>2
      <4>4. Emptied(d, n) BY <1>1, <1>3, <2>1, <4>2, <4>3 DEF Exchange, AcquiredFree
      <4>5. Released(c, w) > n BY <1>1, <1>3, <4>4, EmptiedMeans
      <4> QED BY <1>3, <1>8, <4>5
    <3> QED BY <3>2, <3>3
  <2>2. CASE ~Clustered
    <3>1. d = c BY <1>5, <2>2
    <3>2. flying = {} BY <1>1, <2>2 DEF Exchange, Flying
    <3>3. Before(c, w) = n + 1 /\ Before(c, u) = Stored(c, u) BY <1>8, <2>2 DEF Before
    <3>4. warp[c][w].k = 1 BY <1>6 DEF PlaceOK, After
    <3>5. Meets[1] = 0 BY DEF Meets
    <3>6. Through(c, w) = n + 1 /\ met[c][w] = n + 1
      <4>1. Through(c, w) = Before(c, w) + Meets[1] /\ Through(c, w) = met[c][w] BY <3>4, MetIs
      <4> QED BY <1>3, <3>3, <3>5, <4>1
    <3>7. n + 1 <= met[c][u] BY <3>6, MetIs
    <3>8. Through(c, u) \in Int /\ Through(c, u) <= n + 1 BY <3>6, MetIs
    <3>9. Meets[warp[c][u].k] \in Nat /\ Stored(c, u) + Meets[warp[c][u].k] <= Through(c, u) + 1
      BY <3>3, MetIs
    <3>10. Stored(c, u) <= n + 2 BY <1>3, <1>9, <3>1, <3>8, <3>9
    <3>11. Stored(c, u) > n
      <4>1. CASE At(c, u) \in After /\ launch.backward
        <5>1. Round(c, u) = launch.rounds BY <1>6, <4>1 DEF PlaceOK
        <5>2. Stored(c, u) >= Round(c, u) BY <1>5, <5>1 DEF Stored, Past
        <5> QED BY <1>3, <1>5, <1>7, <1>9, <3>1, <5>1, <5>2
      <4>2. CASE ~(At(c, u) \in After /\ launch.backward)
        <5>1. warp[c][u].k = 1 /\ At(c, u) # "held" BY <1>6, <4>2 DEF PlaceOK, After
        <5>2. met[c][u] = Stored(c, u) + Meets[1] + 0 BY <3>3, <5>1, MetIs
        <5> QED BY <1>3, <1>9, <3>1, <3>5, <3>7, <5>2
      <4> QED BY <4>1, <4>2
    <3>12. <<<<d, u>>, v>> \in Got(c, n) BY <3>1, <3>2, <3>11, GotIs
    <3>13. ~(Stored(d, u) > n + 2) BY <1>3, <1>9, <3>1, <3>10
    <3> QED BY <3>12, <3>13
  <2> QED BY <1>5, <2>1, <2>2
<1>11. <<<<d, u>>, v>> \notin Got(c, n + 2) BY <1>10, GotIs
<1>12. slots[c][StageOf(n)][v][<<u, d>>] = n BY <1>1, <1>3, <1>10, <1>11 DEF Exchange, Slots
<1> QED BY <1>2, <1>12

(* A warp between its tile's arrival and its release finds it there.       *)
LEMMA ReadsItsTile ==
  ASSUME IInv, NEW c \in Ctas, NEW w \in Warps, At(c, w) \in {"tile", "gradient"}
  PROVE tile[c][TileStage(Round(c, w))][w] = Round(c, w)
<1>1. Types /\ PlacesOK /\ Ring BY DEF IInv
<1>2. PICK n : n = Round(c, w) OBVIOUS
<1>3. n \in Nat BY <1>1, <1>2, WarpIs
<1>4. launch.backward
  <2>1. PlaceOK(c, w) BY <1>1 DEF PlacesOK
  <2> QED BY <2>1 DEF PlaceOK
<1>5. Tiled(c, w) = n + 1 BY <1>2 DEF Tiled, Past, Loop
<1>6. Landed(c, Fetcher(w), n)
  <2>1. Tiled(c, w) > n BY <1>3, <1>5
  <2> QED BY <1>1, <1>3, <1>4, <2>1 DEF Ring, TiledLanded
<1>7. ~(n + launch.tileStages < Issued(c, Fetcher(w)))
  <2>1. SUFFICES ASSUME n + launch.tileStages < Issued(c, Fetcher(w)) PROVE FALSE OBVIOUS
  <2>2. Round(c, w) > n BY <1>1, <1>3, <1>4, <2>1, AgainReadBy
  <2> QED BY <1>2, <1>3, <2>2
<1>8. At(c, w) \notin After BY DEF After
<1> QED BY <1>1, <1>2, <1>3, <1>6, <1>7, <1>8 DEF Ring, Tiles

(* A warp that reads the scratch has met all that wrote it, and none can   *)
(* be a barrier further.                                                   *)
LEMMA ReadsItsFold ==
  ASSUME IInv, NEW c \in Ctas, NEW w \in Warps, Folding(c, w), Op(c, w).op = "read",
         NEW v \in Warps, Row(v) > 0
  PROVE scratch[c][v] = Op(c, w).g
<1> DEFINE k == warp[c][w].k
           j == warp[c][v].k
<1>1. Types /\ PlacesOK /\ Folds BY DEF IInv
<1>2. launch \in Launches BY <1>1 DEF Types
<1>3. At(c, w) = "fold" /\ k <= Len(Fold) /\ Fold[k].op = "read" /\ Op(c, w).g = Fold[k].g
  BY DEF Folding, Op
<1>4. k \in 1..10 /\ j \in 1..10 /\ Len(Fold) \in 0..9 BY <1>1, <1>2, WarpIs, FoldIs
<1>5. k \in 1..9 /\ Fold[k].op = FoldOps[k] /\ Fold[k].g = FoldGs[k]
  <2>1. k \in 1..Len(Fold) BY <1>3, <1>4
  <2>2. k \in 1..9 /\ Fold[k] = [op |-> FoldOps[k], g |-> FoldGs[k]] BY <1>2, <2>1, FoldIs
  <2> QED BY <2>2
<1>6. PlaceOK(c, w) /\ PlaceOK(c, v) BY <1>1 DEF PlacesOK
<1>7. launch.backward BY <1>3, <1>6 DEF PlaceOK
<1>8. /\ Stored(c, w) \in Nat /\ Stored(c, v) \in Nat /\ Stored(c, v) <= Stored(c, w)
      /\ At(c, v) \in After => Stored(c, v) = Stored(c, w)
  <2>1. Stored(c, w) \in Nat /\ Stored(c, v) \in Nat /\ Stored(c, v) <= launch.rounds BY <1>1, InOrder
  <2>2. Ended = {} BY <1>7 DEF Ended
  <2>3. ASSUME NEW u \in {w, v}, At(c, u) \in After PROVE Stored(c, u) = launch.rounds
    <3>1. Round(c, u) = launch.rounds BY <1>6, <1>7, <2>3 DEF PlaceOK
    <3>2. Stored(c, u) = launch.rounds + 0 BY <2>2, <2>3, <3>1 DEF Stored, Past, After
    <3>3. launch.rounds \in Nat BY <1>2, Launched
    <3> QED BY <3>2, <3>3
  <2>4. Stored(c, w) = launch.rounds BY <1>3, <2>3 DEF After
  <2> QED BY <2>1, <2>3, <2>4
<1>9. PICK a : a = Before(c, w) OBVIOUS
<1>10. PICK b : b = Before(c, v) OBVIOUS
<1>11. a \in Nat /\ b \in Nat /\ b <= a /\ (At(c, v) \in After => b = a) BY <1>8, <1>9, <1>10 DEF Before
<1>12. PICK held : held = IF At(c, v) = "held" THEN 1 ELSE 0 OBVIOUS
<1>13. a + Meets[k] <= b + Meets[j] + held
  <2>1. Through(c, w) = a + Meets[k] BY <1>3, <1>9, MetIs
  <2>2. Through(c, w) <= met[c][v] BY MetIs
  <2>3. met[c][v] = b + Meets[j] + held BY <1>10, <1>12, MetIs
  <2> QED BY <2>1, <2>2, <2>3
<1>14. At(c, v) # "wait" => b + Meets[j] <= a + Meets[k]
  <2>1. Through(c, v) <= met[c][w] BY MetIs
  <2>2. met[c][w] = a + Meets[k] + 0 /\ Meets[k] \in Nat BY <1>3, <1>9, MetIs
  <2>3. At(c, v) # "wait" => Through(c, v) = b + Meets[j] BY <1>10, MetIs
  <2> QED BY <1>11, <2>1, <2>2, <2>3
<1>15. At(c, v) = "held" => j <= 9 /\ FoldOps[j] = "meet"
  <2>1. SUFFICES ASSUME At(c, v) = "held" PROVE j <= 9 /\ FoldOps[j] = "meet" OBVIOUS
  <2>2. j <= Len(Fold) /\ Fold[j].op = "meet" BY <1>6, <2>1 DEF PlaceOK, Op
  <2>3. j \in 1..Len(Fold) BY <1>4, <2>2
  <2>4. j \in 1..9 /\ Fold[j] = [op |-> FoldOps[j], g |-> FoldGs[j]] BY <1>2, <2>3, FoldIs
  <2> QED BY <2>2, <2>4
<1>16. At(c, v) \notin After => j = 1 BY <1>6 DEF PlaceOK
<1>17. scratch[c][v] = Left(j) BY <1>1 DEF Folds, Scratch
<1> HIDE DEF k, j
<1>18. k \in {4, 9} /\ FoldGs[4] = 1 /\ FoldGs[9] = 2 BY <1>3, <1>5 DEF FoldOps, FoldGs
<1>19. Meets[4] = 2 /\ Meets[9] = 5 BY DEF Meets
<1>20. \A i \in 1..10 : /\ i = 1 => Meets[i] = 0
                        /\ i <= 2 => Meets[i] <= 1
                        /\ i <= 7 => Meets[i] <= 4
                        /\ i <= 9 /\ i <= 7 /\ FoldOps[i] = "meet" => Meets[i] + 1 <= 4
                        /\ i <= 9 /\ i <= 2 /\ FoldOps[i] = "meet" => Meets[i] + 1 <= 1
                        /\ i >= 8 => Meets[i] >= 4
                        /\ Meets[i] \in Nat
  BY DEF Meets, FoldOps
<1>21. At(c, v) \in After
  <2>1. SUFFICES ASSUME At(c, v) \notin After PROVE FALSE OBVIOUS
  <2>2. j = 1 /\ held = 0 BY <1>12, <1>16, <2>1 DEF After
  <2>3. Meets[j] = 0 BY <1>20, <2>2
  <2>4. a + Meets[k] <= b BY <1>11, <1>13, <2>2, <2>3
  <2> QED BY <1>11, <1>18, <1>19, <2>4
<1>22. b = a /\ At(c, v) # "wait" BY <1>11, <1>21 DEF After
<1>23. PICK x : x = Meets[j] OBVIOUS
<1>24. /\ x \in Nat /\ held \in {0, 1}
       /\ j <= 2 => x + held <= 1
       /\ j <= 7 => x + held <= 4
       /\ j >= 8 => x >= 4
  <2>1. j \in 1..10 BY <1>4
  <2>2. /\ x \in Nat /\ (j <= 2 => x <= 1) /\ (j <= 7 => x <= 4) /\ (j >= 8 => x >= 4)
        /\ (j <= 9 /\ j <= 7 /\ FoldOps[j] = "meet" => x + 1 <= 4)
        /\ (j <= 9 /\ j <= 2 /\ FoldOps[j] = "meet" => x + 1 <= 1)
    BY <1>20, <1>23, <2>1
  <2>3. CASE At(c, v) = "held"
    <3>1. j <= 9 /\ FoldOps[j] = "meet" /\ held = 1 BY <1>12, <1>15, <2>3
    <3> QED BY <2>1, <2>2, <3>1
  <2>4. CASE At(c, v) # "held"
    <3>1. held = 0 BY <1>12, <2>4
    <3> QED BY <2>1, <2>2, <3>1
  <2> QED BY <2>3, <2>4
<1>25. PICK y : y = Meets[k] OBVIOUS
<1>26. y \in Nat /\ (k = 4 => y = 2) /\ (k = 9 => y = 5) BY <1>18, <1>19, <1>25
<1>27. y <= x + held /\ x <= y
  <2>1. a + y <= a + x + held BY <1>13, <1>22, <1>23, <1>25
  <2>2. a + x <= a + y BY <1>14, <1>22, <1>23, <1>25
  <2> QED BY <1>11, <1>24, <1>26, <2>1, <2>2
<1>28. CASE k = 4
  <2>1. j \in 1..10 /\ y = 2 BY <1>4, <1>26, <1>28
  <2>2. j > 2 /\ j <= 7 BY <1>24, <1>27, <2>1
  <2>3. Left(j) = 1 BY <2>1, <2>2 DEF Left
  <2> QED BY <1>3, <1>5, <1>17, <1>18, <1>28, <2>3
<1>29. CASE k = 9
  <2>1. j \in 1..10 /\ y = 5 BY <1>4, <1>26, <1>29
  <2>2. j > 7 BY <1>24, <1>27, <2>1
  <2>3. Left(j) = 2 BY <2>1, <2>2 DEF Left
  <2> QED BY <1>3, <1>5, <1>17, <1>18, <1>29, <2>3
<1> QED BY <1>18, <1>28, <1>29

(* Under the invariant a warp reads its own round: of the exchange's       *)
(* slots, of the tile ring and of the scratch.                             *)
LEMMA RoundsHold == ASSUME IInv PROVE ReadsItsRound
<1>1. SUFFICES ASSUME NEW c \in Ctas, NEW w \in Warps
      PROVE
        /\ (At(c, w) = "combine" /\ Exchanges) =>
             \A v \in 1..launch.values : \A u \in SameRow(w) : \A d \in Ctas :
               slots[c][StageOf(Round(c, w))][v][<<u, d>>] = Round(c, w)
        /\ At(c, w) \in {"tile", "gradient"} => tile[c][TileStage(Round(c, w))][w] = Round(c, w)
        /\ (Folding(c, w) /\ Op(c, w).op = "read" /\ Row(w) = 0) =>
             \A v \in Warps : Row(v) > 0 => scratch[c][v] = Op(c, w).g
  BY DEF ReadsItsRound
<1>2. ASSUME At(c, w) = "combine", Exchanges, NEW v \in 1..launch.values, NEW u \in SameRow(w), NEW d \in Ctas
      PROVE slots[c][StageOf(Round(c, w))][v][<<u, d>>] = Round(c, w)
  BY <1>2, CombinesItsRound DEF Values, SameRow
<1>3. At(c, w) \in {"tile", "gradient"} => tile[c][TileStage(Round(c, w))][w] = Round(c, w) BY ReadsItsTile
<1>4. (Folding(c, w) /\ Op(c, w).op = "read" /\ Row(w) = 0) =>
             \A v \in Warps : Row(v) > 0 => scratch[c][v] = Op(c, w).g
  BY ReadsItsFold
<1> QED BY <1>2, <1>3, <1>4

(* What a CTA that has exited was sent it had: each of its warps saw every *)
(* round through, and left only when every arrival was there.              *)
LEMMA PeersHold == ASSUME IInv PROVE PeersAreThere
<1>1. Types /\ PlacesOK /\ Exchange BY DEF IInv
<1>2. SUFFICES ASSUME NEW m \in flying PROVE full[m.to] # <<>> /\ \E w \in Warps : At(m.to, w) # "done"
  BY DEF PeersAreThere
<1>3. /\ Clustered /\ m.from \in Ctas /\ m.warp \in Warps /\ m.to \in Ctas /\ m.n \in Nat
      /\ m.kind \in {"store", "arrive"}
      /\ m.kind = "store" => m.v \in Values /\ Stored(m.from, m.warp) > m.n
      /\ m.kind = "arrive" => launch.backward /\ Released(m.from, m.warp) > m.n
      /\ full[m.to] # <<>>
  BY <1>1, OnItsWay
<1>4. SUFFICES ASSUME \A w \in Warps : At(m.to, w) = "done" PROVE FALSE BY <1>3
<1>5. launch.rounds \in Nat /\ launch.backward \in BOOLEAN /\ 0 \in Warps BY <1>1, Launched DEF Types
<1>6. m.n < launch.rounds
  <2>1. /\ Stored(m.from, m.warp) \in Nat /\ Released(m.from, m.warp) \in Nat
        /\ Released(m.from, m.warp) <= Stored(m.from, m.warp) /\ Stored(m.from, m.warp) <= launch.rounds
    <3>1. /\ Stored(m.from, m.warp) \in Nat /\ Released(m.from, m.warp) \in Nat /\ Seen(m.from, m.warp) \in Nat
          /\ Released(m.from, m.warp) <= Seen(m.from, m.warp) /\ Seen(m.from, m.warp) <= Stored(m.from, m.warp)
          /\ Stored(m.from, m.warp) <= launch.rounds
      BY <1>1, <1>3, InOrder
    <3> QED BY <3>1
  <2> QED BY <1>3, <1>5, <2>1
<1>7. CASE m.kind = "store"
  <2>1. At(m.to, 0) = "done" /\ PlaceOK(m.to, 0) BY <1>1, <1>3, <1>4, <1>5 DEF PlacesOK
  <2>2. Seen(m.to, 0) > m.n
    <3>1. CASE launch.backward
      <4>1. Round(m.to, 0) = launch.rounds BY <2>1, <3>1 DEF PlaceOK, After
      <4>2. Seen(m.to, 0) = launch.rounds + 0 BY <2>1, <3>1, <4>1 DEF Seen, Past, Ended
      <4> QED BY <1>3, <1>5, <1>6, <4>2
    <3>2. CASE ~launch.backward
      <4>1. Round(m.to, 0) = launch.rounds - 1 BY <2>1, <3>2 DEF PlaceOK
      <4>2. Seen(m.to, 0) = launch.rounds - 1 + 1 BY <2>1, <3>2, <4>1 DEF Seen, Past, Ended
      <4> QED BY <1>3, <1>5, <1>6, <4>2
    <3> QED BY <1>5, <3>1, <3>2
  <2>3. Full(m.to, m.n) BY <1>1, <1>3, <1>5, <2>2 DEF Exchange, SeenFull
  <2> QED BY <1>1, <1>3, <1>7, <2>3, FullMeans
<1>8. CASE m.kind = "arrive"
  <2>1. Emptied(m.to, m.n) BY <1>1, <1>3, <1>4, <1>5, <1>6, <1>8 DEF Exchange, DoneFree
  <2>2. m.v = 0 BY <1>1, <1>8 DEF Exchange, Flying
  <2> QED BY <1>1, <1>3, <1>8, <2>1, <2>2, EmptiedMeans
<1> QED BY <1>3, <1>7, <1>8

(* A warp past its reductions has all partials of its row, among them that *)
(* of the warp that reads the target before it reduces.                    *)
LEMMA TargetHolds == ASSUME IInv PROVE TargetIsLogit
<1>1. Types /\ PlacesOK /\ Exchange BY DEF IInv
<1>2. SUFFICES ASSUME NEW w \in Warps, At(0, w) = "load", NEW d \in Ctas, NEW v \in SameRow(w), d # 0 \/ v # w,
                      At(d, v) \in {"output", "done"}
               PROVE FALSE
  BY DEF TargetIsLogit, ReadsTarget
<1>3. launch \in Launches BY <1>1 DEF Types
<1>4. launch.rounds \in Nat /\ launch.backward \in BOOLEAN /\ 0 \in Ctas /\ 0 \in Warps /\ launch.perRow \in Nat \ {0}
      /\ launch.values \in Nat \ {0} /\ Clustered \in BOOLEAN
      /\ (~launch.backward => launch.rounds \in {1, 2}) /\ (~Clustered => Ctas = {0})
  BY <1>3, Launched
<1>5. v \in Warps /\ Row(v) = Row(w) BY DEF SameRow
<1>6. PlaceOK(0, w) /\ PlaceOK(d, v) BY <1>1, <1>4, <1>5 DEF PlacesOK
<1>7. ~launch.backward BY <1>2, <1>6 DEF PlaceOK
<1>8. Ended = {"output", "done"} BY <1>7 DEF Ended
<1>9. Stored(0, w) = 0
  <2>1. Round(0, w) = 0 BY <1>2, <1>6 DEF PlaceOK
  <2>2. Stored(0, w) = 0 + 0 BY <1>2, <1>8, <2>1 DEF Stored, Past
  <2> QED BY <2>2
<1>10. Seen(d, v) > 0 /\ Stored(d, v) > 0
  <2>1. Round(d, v) = launch.rounds - 1 BY <1>2, <1>6, <1>7 DEF PlaceOK
  <2>2. Seen(d, v) = launch.rounds - 1 + 1 /\ Stored(d, v) = launch.rounds - 1 + 1
    BY <1>2, <1>8, <2>1 DEF Seen, Stored, Past
  <2> QED BY <1>4, <1>7, <2>2
<1>11. CASE Clustered
  <2>1. Full(d, 0) BY <1>1, <1>5, <1>10, <1>11 DEF Exchange, SeenFull
  <2>2. Stored(0, w) > 0 BY <1>1, <1>4, <2>1, FullMeans
  <2> QED BY <1>9, <2>2
<1>12. CASE ~Clustered
  <2>1. d = 0 /\ v # w BY <1>2, <1>4, <1>12
  <2>2. Exchanges
    <3>1. SUFFICES ASSUME launch.perRow = 1 PROVE FALSE BY <1>4 DEF Exchanges
    <3>2. \A x \in Warps : Row(x) = x
      <4>1. \A x \in Nat : x \div 1 = x BY Z3
      <4>2. \A x \in Warps : x \in Nat BY <1>3, Launched
      <4> QED BY <3>1, <4>1, <4>2 DEF Row
    <3> QED BY <1>5, <2>1, <3>2
  <2>3. warp[0][v].k = 1 /\ warp[0][w].k = 1 BY <1>6, <1>7, <2>1 DEF PlaceOK
  <2>4. Before(0, w) = 0 /\ Before(0, v) > 0 BY <1>9, <1>10, <1>12, <2>1, <2>2 DEF Before
  <2>5. Meets[1] = 0 BY DEF Meets
  <2>6. met[0][w] = 0 + 0 + 0 BY <1>2, <1>4, <2>3, <2>4, <2>5, MetIs
  <2>7. Through(0, v) = Before(0, v) + 0 /\ Through(0, v) <= met[0][w] /\ Before(0, v) \in Nat
    BY <1>2, <1>4, <1>5, <2>1, <2>3, <2>5, MetIs
  <2> QED BY <2>4, <2>6, <2>7
<1> QED BY <1>4, <1>11, <1>12

-----------------------------------------------------------------------------
(* The barriers of every CTA count between no and all of their arrivals,   *)
(* and warps stay in their rounds.                                         *)
THEOREM TypesCorrect == Spec => []TypeOK
<1>1. IInv => TypeOK BY BarriersHold
<1> QED BY <1>1, Invariance, PTL

(* What a warp combines, reads of its tile and folds is of its own round,  *)
(* whatever the cluster, the ring and the order in which stores, arrivals  *)
(* and fetches are performed.                                              *)
THEOREM OwnRound == Spec => []ReadsItsRound
<1>1. IInv => ReadsItsRound BY RoundsHold
<1> QED BY <1>1, Invariance, PTL

(* No CTA is sent to before its barriers are there, nor once it is gone.   *)
THEOREM PeersStay == Spec => []PeersAreThere
<1>1. IInv => PeersAreThere BY PeersHold
<1> QED BY <1>1, Invariance, PTL

(* The target logit is read before any gradient is written over the row.   *)
THEOREM TargetRead == Spec => []TargetIsLogit
<1>1. IInv => TargetIsLogit BY TargetHolds
<1> QED BY <1>1, Invariance, PTL

-----------------------------------------------------------------------------
(* What RMSNorm and LayerNorm reduce: with the cluster that _cap_cluster_n *)
(* leaves them, no CTA's tile is as wide as the row.                       *)
THEOREM CappedTileIsProper ==
  ASSUME NEW vectors \in Nat \ {0}, NEW threads \in Nat \ {0}, NEW want \in Nat \ {0},
         Tiling!Capped(want, vectors, threads) > 1
  PROVE  Tiling!TileOf(vectors, threads, Tiling!Capped(want, vectors, threads)) < vectors
<1> DEFINE c == Tiling!Capped(want, vectors, threads)
           all == threads * c
           d == Tiling!CeilDiv(vectors, all)
<1>1. vectors \div threads \in Nat
  OBVIOUS
<1>2. c \in Nat /\ c >= 2 /\ c <= vectors \div threads
  BY <1>1 DEF Tiling!Capped
<1> HIDE DEF c
<1>3. threads * (vectors \div threads) <= vectors
  OBVIOUS
<1>4. all \in Nat \ {0} /\ all <= vectors
  <2>1. threads * c <= threads * (vectors \div threads)
    BY <1>1, <1>2
  <2>2. threads * c \in Nat \ {0}
    BY <1>2
  <2> QED
    BY <2>1, <2>2, <1>3, <1>1, <1>2
<1> HIDE DEF all
<1>5. d \in Nat /\ d * all <= vectors + all - 1
  BY <1>4 DEF Tiling!CeilDiv
<1> HIDE DEF d
<1>6. d * all < 2 * vectors
  BY <1>4, <1>5
<1>7. d * all = (d * threads) * c
  BY <1>2, <1>5 DEF all
<1>8. (d * threads) * 2 <= (d * threads) * c
  BY <1>2, <1>5
<1>9. d * threads < vectors
  BY <1>5, <1>6, <1>7, <1>8, <1>4
<1> QED
  BY <1>9 DEF Tiling!TileOf, Tiling!Depth, d, all, c
=============================================================================
