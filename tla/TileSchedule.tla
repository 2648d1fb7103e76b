---------------------------- MODULE TileSchedule ----------------------------
(* How one kernel launch hands out its work: the grid the host asks for, the *)
(* decoding of a linear work index into an output tile and a split, and the  *)
(* four ways a cluster gets its next index (NONE, STATIC, DYNAMIC, CLC),     *)
(* for dense problems and for varlen_m ones, whose grid exceeds the work.    *)
(*                                                                           *)
(* Coordinates are those of clusters; the CTA's offset within its cluster is *)
(* left out. A cluster computes its tile and fetches the next index in one   *)
(* step: its warps are the subject of PingpongKernel.                        *)
(*                                                                           *)
(* SplitKTurnstileProofs has its theorems, beside those of the module whose  *)
(* work ids are drawn here; hence the prefix of ScheduleSpec and its parts.  *)
EXTENDS Integers, Sequences, FiniteSets, FiniteSetsExt, Bags

CONSTANTS
  Problems,      \* the launches considered, see ProblemShape
  MaxActive,     \* clusters the GPU holds at a time, max_active_clusters
  WarpLanes,     \* lanes of a warp (32 on the device)
  DrainCap       \* CLC_DRAIN_MAX_CANCELS

ASSUME ActiveAssumption == MaxActive \in Nat \ {0}
ASSUME LanesAssumption == WarpLanes \in Nat \ {0, 1}
ASSUME DrainAssumption == DrainCap \in Nat

Modes == {"NONE", "STATIC", "DYNAMIC", "CLC"}

IsPermutation(f) ==
  /\ \A a, b \in DOMAIN f : f[a] = f[b] => a = b
  /\ \A b \in DOMAIN f : \E a \in DOMAIN f : f[a] = b

(* m, n, l: cluster rows, cluster columns and batches (m = 0 for varlen_m);  *)
(* lens: the rows of each batch of a varlen_m problem, block rows to a       *)
(* cluster; k: k-tiles of an output tile; perm: batch_idx_permute;           *)
(* shards, first: the AllGather rotation (1 and 0 without it).               *)
ProblemShape(p) ==
  /\ p.mode \in Modes /\ p.raster \in {"AlongM", "AlongN", "Heuristic"}
  /\ {p.n, p.l, p.split, p.group, p.block, p.shards} \subseteq Nat \ {0}
  /\ {p.m, p.k, p.first} \subseteq Nat
  /\ p.perm \in [0..p.l - 1 -> 0..p.l - 1] /\ IsPermutation(p.perm)
  /\ p.varlen => p.lens \in Seq(Nat) /\ Len(p.lens) = p.l /\ p.split = 1 /\ p.shards = 1
  /\ ~p.varlen => p.m > 0 /\ p.m % p.shards = 0 /\ p.first < p.shards

ASSUME ProblemsAssumption == \A p \in Problems : ProblemShape(p)

VARIABLES
  prob,       \* the launch's problem
  semaphore,  \* tile_count_semaphore, zero at launch
  next,       \* lowest grid index neither launched nor granted
  cl,         \* cl[g]: the cluster of grid index g
  done        \* bag of the tiles computed

scheduleVars == <<prob, semaphore, next, cl, done>>

------------------------------------------------------------------------------
(* The work-id space and the grid.                                           *)
CeilDiv(a, b) == (a + b - 1) \div b
Lower(a, b) == IF a < b THEN a ELSE b

BatchRows(p, b) == p.lens[b + 1]
BatchClustersM(p, b) == CeilDiv(BatchRows(p, b), p.block)
TotalM(p) == MapThenSumSet(LAMBDA b : BatchRows(p, b), 0..p.l - 1)

\* Variation: a grid that assumes full blocks.
GridOfFullBlocks(p) == CeilDiv(TotalM(p), p.block) * p.n

WorstVarlenGrid(p) == ((TotalM(p) + p.l * (p.block - 1)) \div p.block) * p.n

WorkIds(p) == IF p.varlen THEN WorstVarlenGrid(p) ELSE p.m * p.n * p.l * p.split

Persistent(p) == p.mode \in {"STATIC", "DYNAMIC"}

GridClusters(p) ==
  IF Persistent(p) THEN Lower(WorkIds(p), MaxActive) ELSE WorkIds(p)

(* The cluster of grid index g starts with this x and z. The hardware        *)
(* launches x fastest, then z.                                               *)
GridX(p, g) == IF Persistent(p) \/ p.varlen THEN g ELSE g % (p.m * p.n)
GridZ(p, g) == IF Persistent(p) \/ p.varlen THEN 0 ELSE g \div (p.m * p.n)

------------------------------------------------------------------------------
(* Decoding a work index.                                                    *)
RoundUp(a, b) == CeilDiv(a, b) * b

(* The dense scheduler resolves Heuristic on the (shard's) shape; the varlen *)
(* one takes AlongN.                                                         *)
RasterOrder(p) ==
  IF p.raster # "Heuristic" THEN p.raster
  ELSE IF ~p.varlen /\ RoundUp(p.n, p.group) > RoundUp(p.m \div p.shards, p.group)
       THEN "AlongM" ELSE "AlongN"

GroupWidth(g, fast, group) ==
  IF g < fast \div group THEN group ELSE IF fast % group > 0 THEN fast % group ELSE 1

\* Variation: the serpentine reflects one past the last row.
TurnTooFar(g, slow, extent) == IF g % 2 = 1 THEN extent - slow ELSE slow

Serpentine(g, slow, extent) == IF g % 2 = 1 THEN extent - 1 - slow ELSE slow

(* _swizzle_cta on a problem (or shard, or varlen batch) of the given rows.  *)
SwizzleCta(p, id, rows) ==
  LET alongM == RasterOrder(p) = "AlongM"
      fast == IF alongM THEN rows ELSE p.n
      slow == IF alongM THEN p.n ELSE rows
      group == IF p.varlen /\ alongM THEN p.group ELSE Lower(p.group, fast)
      g == id \div (group * slow)
      inGroup == id % (group * slow)
      width == GroupWidth(g, fast, group)
      cidSlow == Serpentine(g, inGroup \div width, slow)
      cidFast == g * group + (inGroup % width)
  IN IF alongM THEN [m |-> cidFast, n |-> cidSlow] ELSE [m |-> cidSlow, n |-> cidFast]

(* The combined (l, split) index and the id within a problem: from the grid  *)
(* in NONE and CLC, from the linear id, split fastest, in the others.        *)
CombinedZ(p, x, z) ==
  IF ~Persistent(p) THEN z
  ELSE LET t == x \div p.split
       IN (t \div (p.m * p.n)) * p.split + (x % p.split)
IdInProblem(p, x) == IF ~Persistent(p) THEN x ELSE (x \div p.split) % (p.m * p.n)

BatchOf(p, z) == p.perm[z \div p.split]

DenseTile(p, x, z) ==
  LET perShard == (p.m \div p.shards) * p.n
      id == IdInProblem(p, x)
      arrival == id \div perShard + p.first
      shard == IF arrival >= p.shards THEN arrival - p.shards ELSE arrival
      cid == SwizzleCta(p, id % perShard, p.m \div p.shards)
      zc == CombinedZ(p, x, z)
  IN [m |-> cid.m + shard * (p.m \div p.shards), n |-> cid.n,
      split |-> zc % p.split, b |-> BatchOf(p, zc)]

DenseValid(p, x) == IF Persistent(p) THEN x < WorkIds(p) ELSE x < p.m * p.n

------------------------------------------------------------------------------
(* The varlen_m decode: a warp scans the batches in windows of WarpLanes - 1 *)
(* and keeps the batch it found as the next call's starting point.           *)
NoWindow == [batch |-> 0, before |-> 0, end |-> 0, rows |-> 0]

BatchWork(p, b) == IF b < p.l THEN BatchClustersM(p, b) * p.n ELSE 0
WorkOfBatches(p, from, upto) == MapThenSumSet(LAMBDA b : BatchWork(p, b), from..upto - 1)

(* The first batch of the window that holds idx, or l when none does.        *)
WindowFor(p, win, idx) ==
  LET step == WarpLanes - 1
      scan[b \in 0..p.l] ==
        IF win.before + WorkOfBatches(p, win.batch, b + step) <= idx
        THEN IF b + step >= p.l THEN p.l ELSE scan[b + step]
        ELSE b
  IN scan[win.batch]

NeedScan(win, idx) == idx < win.before \/ idx >= win.end

(* The lanes' ballot: how many batches of the window end at or before idx.   *)
Ballot(p, start, w, idx) ==
  Cardinality({lane \in 0..WarpLanes - 2 :
                 /\ w + lane < p.l
                 /\ start + WorkOfBatches(p, w, w + lane + 1) <= idx})

EndOfBatch(p, w, b, before) == before + BatchWork(p, b)

FindBatch(p, win, idx) ==
  IF ~NeedScan(win, idx) THEN win
  ELSE LET w == WindowFor(p, win, idx)
           start == win.before + WorkOfBatches(p, win.batch, w)
           b == w + Ballot(p, start, w, idx)
           before == start + WorkOfBatches(p, w, b)
       IN IF w = p.l THEN [win EXCEPT !.batch = p.l]
          ELSE [batch |-> b, before |-> before, end |-> EndOfBatch(p, w, b, before),
                rows |-> BatchClustersM(p, b)]

VarlenTile(p, win, x) ==
  LET cid == SwizzleCta(p, x - win.before, win.rows)
  IN [m |-> cid.m, n |-> cid.n, split |-> 0, b |-> win.batch]

------------------------------------------------------------------------------
(* _delinearize_work_idx: cluster c with index (x, z) in hand. granted is    *)
(* the valid bit of the CLC response, TRUE for every other source.           *)
NoTile == [m |-> -1, n |-> -1, split |-> -1, b |-> -1]

Delinearize(p, c, x, z, granted) ==
  LET win == IF granted THEN FindBatch(p, c.win, x) ELSE [c.win EXCEPT !.batch = p.l]
      fresh == p.mode # "NONE" \/ c.executed = 0
      valid == fresh /\ granted /\ IF p.varlen THEN win.batch < p.l ELSE DenseValid(p, x)
  IN [c EXCEPT !.win = IF p.varlen THEN win ELSE @,
               !.tile = IF ~valid THEN NoTile
                        ELSE IF p.varlen THEN VarlenTile(p, win, x) ELSE DenseTile(p, x, z)]

------------------------------------------------------------------------------
Clusters == 0..GridClusters(prob) - 1
PendingClusters == next..GridClusters(prob) - 1
Resident == {g \in Clusters : cl[g].st \in {"run", "drain"}}

Unlaunched ==
  [st |-> "pending", x |-> 0, executed |-> 0, phantom |-> FALSE, budget |-> 0,
   tile |-> NoTile, win |-> NoWindow]

ScheduleInit ==
  /\ prob \in Problems
  /\ semaphore = 0 /\ next = 0
  /\ cl = [g \in 0..GridClusters(prob) - 1 |-> Unlaunched]
  /\ done = EmptyBag

(* External: the GPU starts the next cluster of the grid once it has room.   *)
(* The cluster creates its scheduler and decodes its initial tile.           *)
LaunchCluster ==
  /\ next \in Clusters /\ Cardinality(Resident) < MaxActive
  /\ LET c == [Unlaunched EXCEPT !.st = "run", !.x = GridX(prob, next)]
     IN cl' = [cl EXCEPT ![next] = Delinearize(prob, c, GridX(prob, next), GridZ(prob, next), TRUE)]
  /\ next' = next + 1
  /\ UNCHANGED <<prob, semaphore, done>>

HasTile(g) == g \in Clusters /\ cl[g].st = "run" /\ cl[g].tile # NoTile

(* The tile in hand is computed, and the warps move on with index x.         *)
MoveOn(g, c, x, z, granted) ==
  /\ done' = done (+) SetToBag({cl[g].tile})
  /\ cl' = [cl EXCEPT ![g] = Delinearize(prob, [c EXCEPT !.executed = @ + 1], x, z, granted)]

NextNone(g) ==
  /\ HasTile(g) /\ prob.mode = "NONE"
  /\ MoveOn(g, cl[g], cl[g].x, 0, TRUE)
  /\ UNCHANGED <<prob, semaphore, next>>

NextStatic(g) ==
  /\ HasTile(g) /\ prob.mode = "STATIC"
  /\ LET x == cl[g].x + GridClusters(prob)
     IN MoveOn(g, [cl[g] EXCEPT !.x = x], x, 0, TRUE)
  /\ UNCHANGED <<prob, semaphore, next>>

\* Variation: the counter wraps one increment late.
IncLate(p, v) == IF v >= WorkIds(p) THEN 0 ELSE v + 1

(* atomic INC wraps at its bound; varlen_m adds.                             *)
Inc(p, v) == IF p.varlen \/ v < WorkIds(p) - 1 THEN v + 1 ELSE 0

NextDynamic(g) ==
  /\ HasTile(g) /\ prob.mode = "DYNAMIC"
  /\ semaphore' = Inc(prob, semaphore)
  /\ LET x == semaphore + GridClusters(prob)
     IN MoveOn(g, [cl[g] EXCEPT !.x = x], x, 0, TRUE)
  /\ UNCHANGED <<prob, next>>

(* try_cancel takes the lowest pending cluster, or finds none: also when     *)
(* there are some, which the hardware does under contention. Only a granted  *)
(* index is remembered; a granted index that decodes to padding is a phantom.*)
NextClc(g) ==
  /\ HasTile(g) /\ prob.mode = "CLC"
  /\ \/ /\ next \in Clusters
        /\ LET x == GridX(prob, next)
               c == Delinearize(prob, [cl[g] EXCEPT !.x = x, !.executed = @ + 1], x,
                                GridZ(prob, next), TRUE)
           IN cl' = [cl EXCEPT ![g] = [c EXCEPT !.phantom = c.tile = NoTile]]
        /\ done' = done (+) SetToBag({cl[g].tile})
        /\ next' = next + 1
     \/ /\ MoveOn(g, cl[g], cl[g].x, 0, FALSE)
        /\ UNCHANGED next
  /\ UNCHANGED <<prob, semaphore>>

\* Variation: every retiring cluster drains.
BudgetOfAll(p, c) == IF p.mode = "CLC" /\ p.varlen THEN Lower(DrainCap, WorkIds(p) - c.x) ELSE 0

DrainBudget(p, c) ==
  IF p.mode = "CLC" /\ p.varlen /\ c.phantom THEN Lower(DrainCap, WorkIds(p) - c.x) ELSE 0

(* The persistent loops end. A varlen_m cluster under CLC that retired on a  *)
(* phantom then cancels pending clusters one at a time.                      *)
Retire(g) ==
  /\ g \in Clusters /\ cl[g].st = "run" /\ cl[g].tile = NoTile
  /\ cl' = [cl EXCEPT ![g].st = "drain", ![g].budget = DrainBudget(prob, cl[g])]
  /\ UNCHANGED <<prob, semaphore, next, done>>

CancelOne(g) ==
  /\ g \in Clusters /\ cl[g].st = "drain" /\ cl[g].budget > 0
  /\ \/ /\ next \in Clusters
        /\ cl' = [cl EXCEPT ![next].st = "cancelled", ![g].budget = @ - 1]
        /\ next' = next + 1
     \/ /\ cl' = [cl EXCEPT ![g].budget = 0]
        /\ UNCHANGED next
  /\ UNCHANGED <<prob, semaphore, done>>

ExitCluster(g) ==
  /\ g \in Clusters /\ cl[g].st = "drain" /\ cl[g].budget = 0
  /\ cl' = [cl EXCEPT ![g].st = "gone"]
  /\ UNCHANGED <<prob, semaphore, next, done>>

Finished == next = GridClusters(prob) /\ Resident = {}

ScheduleDone == Finished /\ UNCHANGED scheduleVars

ScheduleNext ==
  \/ LaunchCluster
  \/ \E g \in Clusters :
       NextNone(g) \/ NextStatic(g) \/ NextDynamic(g) \/ NextClc(g)
         \/ Retire(g) \/ CancelOne(g) \/ ExitCluster(g)
  \/ ScheduleDone

ScheduleSpec == ScheduleInit /\ [][ScheduleNext]_scheduleVars

------------------------------------------------------------------------------
(* get_split_k_tile_range: the k-tiles a split owns.                         *)
\* Variation: the starts do not shift by the extra tiles of earlier splits.
StartUnshifted(p, s) == s * (p.k \div p.split)

RangeStart(p, s) == s * (p.k \div p.split) + Lower(s, p.k % p.split)

SplitKTiles(p, s) ==
  LET cnt == p.k \div p.split + (IF s < p.k % p.split THEN 1 ELSE 0)
  IN RangeStart(p, s)..RangeStart(p, s) + cnt - 1

------------------------------------------------------------------------------
(* The tiles of the output, from the problem alone.                          *)
OutputTiles(p) ==
  UNION {[m : 0..(IF p.varlen THEN BatchClustersM(p, b) ELSE p.m) - 1, n : 0..p.n - 1,
          split : 0..p.split - 1, b : {b}] : b \in 0..p.l - 1}

\* The state is made of a problem, one record for each cluster of its grid,
\* a counter that stays within the launch's work, and a bag of output tiles.
ScheduleTypeOK ==
  /\ prob \in Problems
  /\ next \in 0..GridClusters(prob)
  /\ semaphore \in 0..WorkIds(prob) + GridClusters(prob)
  /\ DOMAIN cl = Clusters
  /\ \A g \in Clusters :
       /\ cl[g].st \in {"pending", "run", "drain", "cancelled", "gone"}
       /\ cl[g].tile \in OutputTiles(prob) \cup {NoTile}
       /\ cl[g].budget \in 0..DrainCap
       /\ cl[g].win.batch \in 0..prob.l
  /\ BagToSet(done) \subseteq OutputTiles(prob)

\* No output tile (and split) is computed twice, in any mode; when the launch
\* has ended, every one of them has been computed. A tile that no work index
\* decodes to keeps stale memory, one that two decode to is folded twice.
EveryTileOnce ==
  /\ \A t \in BagToSet(done) : done[t] = 1
  /\ Finished => BagToSet(done) = OutputTiles(prob)

\* The drain of the padding tail never cancels a cluster whose index is real
\* work, though try_cancel may fail while real clusters are pending: its
\* output would silently never be written.
DrainSparesRealWork ==
  \A g \in Clusters : cl[g].st = "cancelled" =>
    ~\E t \in OutputTiles(prob) : Delinearize(prob, Unlaunched, g, 0, TRUE).tile = t

\* Every k-tile of a computed output tile is contributed by exactly one of the
\* splits that ran for it, also when there are more splits than k-tiles.
KTilesFoldedOnce ==
  Finished => \A t \in BagToSet(done), kt \in 0..prob.k - 1 : \E owner \in BagToSet(done) :
    {u \in BagToSet(done) :
       [u EXCEPT !.split = t.split] = t /\ kt \in SplitKTiles(prob, u.split)} = {owner}

\* A dense launch leaves the dynamic counter at zero: the wrap of its
\* increments makes up for the one failed fetch of each cluster, so that the
\* next launch may reuse the counter without a memset.
SemaphoreResets == Finished /\ ~prob.varlen => semaphore = 0
=============================================================================
