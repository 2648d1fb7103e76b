----------------------- MODULE SplitKTurnstileProofs -----------------------
(***************************************************************************)
(* How the work of a launch is handed out, and how the splits of a tile    *)
(* take their turns.                                                       *)
(*                                                                         *)
(* The first part is about SplitKTurnstile: SERIAL split-K is ordered by   *)
(* split index, for every number of splits, tiles, CTAs, threads and calls *)
(* that follow one another, and in both modes a sum is whole.              *)
(*                                                                         *)
(* The argument: the ids of a call are drawn once each (Ids, Distinct), so *)
(* a tile and a split name one item of one CTA.  A tile's flag says which  *)
(* of its splits thread 0 of their CTAs has released (Released), and from  *)
(* its wait to its release thread 0 finds the flag at its own split        *)
(* (Holds).  The group barriers keep the other threads within that time    *)
(* (Group), commits are performed within it (Issued), so a part of the     *)
(* stripe holds the splits before the flag and, once performed, the flag's *)
(* own (Parts).                                                            *)
(* In PARALLEL mode the flag counts the released splits (Counted) and a    *)
(* part of the stripe holds, in any order, what was added to it (Sums).    *)
(* What is released has been added; the last split waits for the count, so *)
(* all others are there when it folds, and none twice (Wholes).            *)
(*                                                                         *)
(* The second part is about TileSchedule, where the work ids come from: in *)
(* every launch each tile and split is computed once and each k-tile is    *)
(* folded once; a dense launch brings the counter the ids are drawn from   *)
(* back to zero; a varlen_m one cancels no cluster that had work.          *)
(*                                                                         *)
(* The argument: the decoding is a bijection from the work indices to the  *)
(* tiles of the output. In a dense launch (TilesAre), because the          *)
(* serpentine swizzle is one on every shard (SwizzleIn, SwizzleOnto), the  *)
(* AllGather rotation one on the shards, and the index the three digits of *)
(* spot, split and batch. In a varlen_m launch (UnevenIndexed), because    *)
(* the sums that the scan folds are the starts of the batches (StartsAre,  *)
(* SumOfInterval), the scan ends in the window of the index (ScanEnds) and *)
(* its ballot counts the window's batches before it (BallotIs).            *)
(* The clusters take each index once (Taken, RealTaken, Accounts); a       *)
(* dynamic one that has no tile drew past the work, in a dense launch once *)
(* (Empty, Draws), so that its draws are as many as the counter counts to. *)
(* A varlen_m grid has a cluster for all of the work (GridCovers), and a   *)
(* cluster that drains was granted an index past it (Lot).                 *)
(***************************************************************************)
EXTENDS SplitKTurnstile, TileSchedule, FiniteSetTheorems, WellFoundedInduction, TLAPS

(* The launches the property is about: calls on one stream.                *)
Ordered == Serial /\ ~launch.overlap

Cta == Calls \X Ctas
Th(q, x, t) == thread[<<q, x, t>>]
Ds(q, x) == drawn[<<q, x>>]
Part == Nat \X Nat

Types ==
  /\ launch \in LaunchType
  /\ counter \in [Calls -> Nat]
  /\ drawn \in [Calls \X Ctas -> Seq(Nat)]
  /\ thread \in [Calls \X Ctas \X Threads -> [item : Nat \ {0}, at : Idle..Publish]]
  /\ flag \in [Tiles -> Nat]
  /\ stripe \in [Tiles -> [Threads -> Seq(Part)]]
  /\ issued \subseteq [by : Calls \X Ctas \X Threads, item : Nat \ {0}, tile : Tiles, split : 0..S - 2]
  /\ result \in [Calls -> [Tiles -> [Threads -> Seq(Part)]]]

(* A drawn id is a work id; a thread works on drawn items, in order.       *)
Bounds ==
  \A q \in Calls, x \in Ctas :
    /\ \A n \in 1..Len(Ds(q, x)) : Ds(q, x)[n] < NumWork
    /\ \A t \in Threads : /\ Th(q, x, t).item <= Len(Ds(q, x)) + 1
                          /\ Th(q, x, t).at # Idle => Th(q, x, t).item <= Len(Ds(q, x))

(* Which ids a CTA has drawn, and that a counter misses none.              *)
Ids ==
  \A q \in Calls :
    /\ \A x \in Ctas : \A n \in 1..Len(Ds(q, x)) :
         /\ launch.order = "static" => Ds(q, x)[n] = x + (n - 1) * launch.ctas
         /\ launch.order = "dynamic" =>
              IF n = 1 THEN Ds(q, x)[n] = x
                       ELSE Ds(q, x)[n] >= launch.ctas /\ Ds(q, x)[n] < launch.ctas + counter[q]
         /\ launch.order = "grid" => Ds(q, x)[n] < counter[q]
    /\ \A j \in Nat : j < counter[q] =>
         \E x \in Ctas : \E n \in 1..Len(Ds(q, x)) :
            Ds(q, x)[n] = IF launch.order = "grid" THEN j ELSE launch.ctas + j

Distinct ==
  \A q \in Calls : \A x, y \in Ctas : \A n \in 1..Len(Ds(q, x)), m \in 1..Len(Ds(q, y)) :
    Ds(q, x)[n] = Ds(q, y)[m] => x = y /\ n = m

Started(q) == \E x \in Ctas : Ds(q, x) # <<>>
Latest(q) == Started(q) /\ \A r \in Calls : r > q => ~Started(r)

(* Calls of one stream follow one another.                                 *)
Turns == \A q, r \in Calls : Started(q) /\ r < q => Done(r)

(* How far a thread has come.                                              *)
Beyond(a, n, where) == a.item > n \/ (a.item = n /\ a.at >= where)

Group ==
  \A q \in Calls, x \in Ctas : \A t, u \in Threads :
    /\ Th(q, x, t).at = Publish => Beyond(Th(q, x, u), Th(q, x, t).item, Collect)
    /\ Th(q, x, t).item > 1 => Beyond(Th(q, x, u), Th(q, x, t).item - 1, Collect)

(* A thread past the wait has its group behind it; a parallel partial does *)
(* not wait.                                                               *)
Entered ==
  \A q \in Calls, x \in Ctas : \A t, u \in Threads :
    Th(q, x, t).at > Granted /\ Waits(SplitOf(Ds(q, x)[Th(q, x, t).item])) =>
      Beyond(Th(q, x, u), Th(q, x, t).item, Granted)

On(q, x, n, tile, s) ==
  n \in 1..Len(Ds(q, x)) /\ TileOf(Ds(q, x)[n]) = tile /\ SplitOf(Ds(q, x)[n]) = s
Fin(q, x, n) == Th(q, x, 0).item > n

Holds ==
  \A q \in Calls, x \in Ctas :
    Th(q, x, 0).at >= Granted =>
      flag[TileOf(Ds(q, x)[Th(q, x, 0).item])] = SplitOf(Ds(q, x)[Th(q, x, 0).item])

FinSplit(q, tile, s) == \E x \in Ctas : \E n \in 1..Len(Ds(q, x)) : On(q, x, n, tile, s) /\ Fin(q, x, n)
Half(q, tile) ==
  /\ flag[tile] < S
  /\ \A s \in 0..S - 1 : FinSplit(q, tile, s) <=> s < flag[tile]
Whole(q, tile) ==
  /\ flag[tile] = 0
  /\ \A s \in 0..S - 1 : FinSplit(q, tile, s)
Released ==
  /\ \A q \in Calls : Latest(q) => \A tile \in Tiles : Half(q, tile) \/ Whole(q, tile)
  /\ (\A q \in Calls : ~Started(q)) => \A tile \in Tiles : flag[tile] = 0

Pending(p, n) == \E w \in issued : w.by = p /\ w.item = n
Issued ==
  \A w \in issued :
    /\ On(w.by[1], w.by[2], w.item, w.tile, w.split)
    /\ Beyond(thread[w.by], w.item, Collect)
    /\ ~Fin(w.by[1], w.by[2], w.item)

(* The partials of the first k splits of call q, in order.                 *)
Run(q, k) == [i \in 1..k |-> <<q, i - 1>>]

(* Thread t of item <<x, n>> has added the item's partial to its part.     *)
Added(q, x, n, t) == Beyond(Th(q, x, t), n, Collect) /\ ~Pending(<<q, x, t>>, n)
Parts ==
  \A q \in Calls : Latest(q) => \A tile \in Tiles, t \in Threads, k \in Nat : flag[tile] = k =>
    /\ \A x \in Ctas : \A n \in 1..Len(Ds(q, x)) :
         On(q, x, n, tile, k) /\ k < S - 1 /\ ~Fin(q, x, n) /\ Added(q, x, n, t)
         => stripe[tile][t] = Run(q, k + 1)
    /\ /\ k > 0
       /\ \A x \in Ctas : \A n \in 1..Len(Ds(q, x)) :
            On(q, x, n, tile, k) /\ k < S - 1 => ~Added(q, x, n, t)
       => stripe[tile][t] = Run(q, k)

Results ==
  \A q \in Calls, tile \in Tiles, t \in Threads :
    result[q][tile][t] # <<>> => result[q][tile][t] = Run(q, S)

(* PARALLEL: the flag counts the splits that arrived, until the last one,  *)
(* which has waited for the others, clears it.                             *)
Awaited ==
  \A q \in Calls, x \in Ctas :
    Th(q, x, 0).at >= Granted /\ SplitOf(Ds(q, x)[Th(q, x, 0).item]) = S - 1 =>
      flag[TileOf(Ds(q, x)[Th(q, x, 0).item])] = S - 1

Arrived(q, tile) == {s \in 0..S - 2 : FinSplit(q, tile, s)}
Counted ==
  \A q \in Calls, tile \in Tiles :
    IF FinSplit(q, tile, S - 1) THEN Arrived(q, tile) = 0..S - 2
                                ELSE flag[tile] = Cardinality(Arrived(q, tile))

(* Which splits thread t has added to its part of the stripe, in any order.*)
Summed(q, tile, t) ==
  {s \in 0..S - 2 :
     \E x \in Ctas : \E n \in 1..Len(Ds(q, x)) : On(q, x, n, tile, s) /\ Added(q, x, n, t)}
Sums ==
  \A q \in Calls, tile \in Tiles, t \in Threads :
    /\ Len(stripe[tile][t]) = Cardinality(Summed(q, tile, t))
    /\ \A s \in Summed(q, tile, t) :
         \E i \in 1..Len(stripe[tile][t]) : stripe[tile][t][i] = <<q, s>>

Complete(q, sum) == Len(sum) = S /\ \A s \in 0..S - 1 : \E i \in 1..S : sum[i] = <<q, s>>
Wholes ==
  \A q \in Calls, tile \in Tiles, t \in Threads :
    result[q][tile][t] # <<>> => Complete(q, result[q][tile][t])

DrawInv == Types /\ Bounds /\ Ids /\ Distinct
GroupInv == Group /\ Entered /\ Issued
FlagInv == Turns /\ Holds /\ Released
PartInv == Parts /\ Results
CountInv == launch.calls = 1 /\ Awaited /\ Counted /\ Sums /\ Wholes
IInv == DrawInv /\ GroupInv /\ (Ordered => FlagInv /\ PartInv) /\ (~Serial => CountInv)

-----------------------------------------------------------------------------
(* Division with remainder.                                                *)
LEMMA DivMod == ASSUME NEW a \in Nat, NEW b \in Nat \ {0}
  PROVE /\ a \div b \in Nat /\ a % b \in 0..b-1 /\ a = b * (a \div b) + (a % b)
BY Z3

(* A product grows with its factors.                                       *)
LEMMA MulMono == ASSUME NEW a \in Nat, NEW b \in Nat, NEW c \in Nat, a <= b
  PROVE a * c <= b * c
BY Z3

(* A product of a sum is a sum of products.                                *)
LEMMA Distribute == ASSUME NEW a \in Nat, NEW b \in Nat, NEW c \in Nat
  PROVE (a + b) * c = c * a + b * c /\ c * a \in Nat /\ b * c \in Nat
BY Z3

(* A number has one remainder and one quotient.                            *)
LEMMA Unique == ASSUME NEW c \in Nat \ {0}, NEW x \in 0..c-1, NEW y \in 0..c-1,
   NEW a \in Nat, NEW b \in Nat, x + a * c = y + b * c
  PROVE x = y /\ a = b
<1>1. CASE a < b
  <2>1. a + 1 <= b BY <1>1
  <2>2. (a + 1) * c <= b * c BY <2>1, MulMono
  <2>3. (a + 1) * c = a * c + c BY Z3
  <2> QED BY <2>2, <2>3, Z3
<1>2. CASE b < a
  <2>2. (b + 1) * c <= a * c BY <1>2, MulMono
  <2>3. (b + 1) * c = b * c + c BY Z3
  <2> QED BY <2>2, <2>3, Z3
<1>3. CASE a = b BY <1>3
<1> QED BY <1>1, <1>2, <1>3

(* A number below b * c goes into b fewer than c times.                    *)
LEMMA DivBound == ASSUME NEW a \in Nat, NEW b \in Nat \ {0}, NEW c \in Nat, a < b * c
  PROVE a \div b < c
<1>1. /\ a \div b \in Nat /\ a = b * (a \div b) + (a % b) /\ a % b \in 0..b-1 BY DivMod
<1>2. CASE c <= a \div b
  <2>1. c * b <= (a \div b) * b BY <1>1, <1>2, MulMono
  <2>2. c * b = b * c /\ (a \div b) * b = b * (a \div b) BY <1>1, Z3
  <2> QED BY <1>1, <2>1, <2>2
<1> QED BY <1>1, <1>2

(* Dividing what was multiplied.                                           *)
LEMMA DivOf == ASSUME NEW b \in Nat \ {0}, NEW k \in Nat, NEW r \in 0..b-1
  PROVE (k * b + r) \div b = k /\ (k * b + r) % b = r
<1> DEFINE a == k * b + r
<1> DEFINE d == a \div b
<1> DEFINE m == a % b
<1>1. k * b \in Nat BY Z3
<1>1a. a \in Nat BY <1>1
<1>2. /\ d \in Nat /\ m \in 0..b-1 /\ a = b * d + m BY <1>1a, DivMod
<1>4. a = r + k * b BY <1>1
<1> HIDE DEF a, d, m
<1>3. b * d = d * b /\ d * b \in Nat BY <1>2, Z3
<1>5. m + d * b = r + k * b BY <1>1, <1>2, <1>3, <1>4
<1>6. m = r /\ d = k BY <1>2, <1>5, Unique
<1> QED BY <1>6 DEF a, d, m

(* A work id names a tile and a split.                                     *)
LEMMA Work ==
  ASSUME Types, NEW id \in Nat, id < NumWork
  PROVE TileOf(id) \in Tiles /\ SplitOf(id) \in 0..S - 1
<1> DEFINE T == launch.tiles
<1>1. S \in Nat \ {0, 1} /\ T \in Nat \ {0} /\ Tiles = 0..T - 1 BY DEF Types, LaunchType, S, Tiles
<1>2. S * T \in Nat /\ S * T = T * S BY <1>1, Z3
<1>3. id < S * T BY DEF NumWork
<1> HIDE DEF T
<1>4. id \div S < T BY <1>1, <1>3, DivBound
<1>5. id \div T < S BY <1>1, <1>2, <1>3, DivBound
<1>6. id \div S \in Nat /\ id % S \in 0..S - 1 /\ id \div T \in Nat /\ id % T \in 0..T - 1
  BY <1>1, DivMod
<1>7. TileOf(id) = (IF launch.order = "grid" THEN id % T ELSE id \div S) BY DEF TileOf, T
<1>8. SplitOf(id) = (IF launch.order = "grid" THEN id \div T ELSE id % S) BY DEF SplitOf, T
<1> QED BY <1>1, <1>4, <1>5, <1>6, <1>7, <1>8

(* No two work ids name the same split of a tile.                          *)
LEMMA WorkIsOne ==
  ASSUME Types, NEW id \in Nat, NEW other \in Nat,
         TileOf(id) = TileOf(other), SplitOf(id) = SplitOf(other)
  PROVE id = other
<1> DEFINE T == launch.tiles
<1>1. S \in Nat \ {0, 1} /\ T \in Nat \ {0} BY DEF Types, LaunchType, S
<1>2. CASE launch.order = "grid"
  <2>1. id % T = other % T /\ id \div T = other \div T BY <1>2 DEF TileOf, SplitOf
  <2> HIDE DEF T
  <2>2. id = T * (id \div T) + (id % T) /\ other = T * (other \div T) + (other % T) BY <1>1, DivMod
  <2> QED BY <2>1, <2>2
<1>3. CASE launch.order # "grid"
  <2>1. id % S = other % S /\ id \div S = other \div S BY <1>3 DEF TileOf, SplitOf
  <2>2. id = S * (id \div S) + (id % S) /\ other = S * (other \div S) + (other % S) BY <1>1, DivMod
  <2> QED BY <2>1, <2>2
<1> QED BY <1>2, <1>3

(* Each split of each tile has a work id.                                  *)
LEMMA WorkExists ==
  ASSUME Types, NEW tile \in Tiles, NEW s \in 0..S - 1
  PROVE \E id \in Nat : id < NumWork /\ TileOf(id) = tile /\ SplitOf(id) = s
<1> DEFINE T == launch.tiles
<1>1. S \in Nat \ {0, 1} /\ T \in Nat \ {0} /\ tile \in 0..T - 1 BY DEF Types, LaunchType, S, Tiles
<1>2. NumWork = S * T BY DEF NumWork
<1>3. S * T = T * S /\ S * T \in Nat BY <1>1, Z3
<1>4. CASE launch.order = "grid"
  <2> DEFINE id == s * T + tile
  <2> HIDE DEF T
  <2>1. id \div T = s /\ id % T = tile BY <1>1, DivOf
  <2>2. s * T \in Nat /\ (s + 1) * T = s * T + T BY <1>1, Z3
  <2>3. (s + 1) * T <= S * T BY <1>1, MulMono
  <2>4. id \in Nat /\ id < NumWork BY <1>1, <1>2, <1>3, <2>2, <2>3
  <2> QED BY <1>4, <2>1, <2>4 DEF TileOf, SplitOf, T
<1>5. CASE launch.order # "grid"
  <2> DEFINE id == tile * S + s
  <2> HIDE DEF T
  <2>1. id \div S = tile /\ id % S = s BY <1>1, DivOf
  <2>2. tile * S \in Nat /\ (tile + 1) * S = tile * S + S BY <1>1, Z3
  <2>3. (tile + 1) * S <= T * S BY <1>1, MulMono
  <2>4. id \in Nat /\ id < NumWork BY <1>1, <1>2, <1>3, <2>2, <2>3
  <2> QED BY <1>5, <2>1, <2>4 DEF TileOf, SplitOf
<1> QED BY <1>4, <1>5

(* A drawn item is a split of a tile, and where a thread works is drawn.   *)
LEMMA Drawn ==
  ASSUME Types, Bounds, NEW q \in Calls, NEW x \in Ctas, NEW n \in 1..Len(Ds(q, x))
  PROVE /\ Ds(q, x) \in Seq(Nat) /\ Ds(q, x)[n] \in Nat
        /\ TileOf(Ds(q, x)[n]) \in Tiles /\ SplitOf(Ds(q, x)[n]) \in 0..S - 1
<1>1. Ds(q, x) \in Seq(Nat) BY DEF Types, Ds
<1>2. Ds(q, x)[n] \in Nat BY <1>1
<1>3. Ds(q, x)[n] < NumWork BY DEF Bounds
<1> QED BY <1>1, <1>2, <1>3, Work

(* A call with nothing left to draw has drawn every id.                    *)
LEMMA Exhaustive ==
  ASSUME Types, Ids, NEW q \in Calls, Exhausted(q), NEW id \in Nat, id < NumWork
  PROVE \E x \in Ctas : \E n \in 1..Len(Ds(q, x)) : Ds(q, x)[n] = id
<1> DEFINE C == launch.ctas
<1>1. C \in Nat \ {0} /\ Ctas = 0..C - 1 /\ launch.order \in {"static", "dynamic", "grid"}
  BY DEF Types, LaunchType, Ctas
<1>2. \A x \in Ctas : Ds(q, x) \in Seq(Nat) /\ Len(Ds(q, x)) \in Nat /\ drawn[<<q, x>>] = Ds(q, x)
  BY DEF Types, Ds
<1>3. counter[q] \in Nat BY DEF Types
<1>4. \A x \in Ctas : NextId(q, x) >= NumWork BY DEF Exhausted
<1>5. CASE launch.order = "static"
  <2> DEFINE x == id % C
  <2> DEFINE d == id \div C
  <2> HIDE DEF C
  <2>1. x \in 0..C - 1 /\ d \in Nat /\ id = C * d + x BY <1>1, DivMod
  <2> HIDE DEF x, d
  <2>2. x \in Ctas BY <1>1, <2>1
  <2>3. C * d = d * C /\ d * C \in Nat BY <1>1, <2>1, Z3
  <2>4. NextId(q, x) = x + Len(Ds(q, x)) * C BY <1>1, <1>2, <1>5, <2>2 DEF NextId, C
  <2>4a. Len(Ds(q, x)) * C \in Nat BY <1>1, <1>2, <2>2, Z3
  <2>4b. NumWork \in Nat BY Z3 DEF NumWork, Types, LaunchType, S
  <2>5. id < x + Len(Ds(q, x)) * C BY <1>1, <1>4, <2>1, <2>2, <2>4, <2>4a, <2>4b
  <2>6. d * C < Len(Ds(q, x)) * C BY <2>1, <2>3, <2>4a, <2>5
  <2>7. d < Len(Ds(q, x))
    <3>1. CASE Len(Ds(q, x)) <= d
      <4>1. Len(Ds(q, x)) * C <= d * C BY <1>1, <1>2, <2>1, <2>2, <3>1, MulMono
      <4> QED BY <2>3, <2>4a, <2>6, <4>1
    <3> QED BY <1>2, <2>1, <2>2, <3>1
  <2>8. d + 1 \in 1..Len(Ds(q, x)) BY <1>2, <2>1, <2>2, <2>7
  <2>9. Ds(q, x)[d + 1] = x + ((d + 1) - 1) * launch.ctas BY <1>5, <2>2, <2>8 DEF Ids
  <2>10. (d + 1) - 1 = d BY <2>1
  <2>11. Ds(q, x)[d + 1] = x + d * C BY <2>9, <2>10 DEF C
  <2>12. Ds(q, x)[d + 1] = id BY <2>1, <2>3, <2>11
  <2> QED BY <2>2, <2>8, <2>12
<1>6. CASE launch.order = "grid"
  <2>1. 0 \in Ctas BY <1>1
  <2>2. counter[q] >= NumWork BY <1>4, <1>6, <2>1 DEF NextId
  <2>2b. NumWork \in Nat BY Z3 DEF NumWork, Types, LaunchType, S
  <2>3. id < counter[q] BY <1>3, <2>2, <2>2b
  <2> QED BY <1>6, <2>3 DEF Ids
<1>7. CASE launch.order = "dynamic"
  <2>1. NumWork \in Nat BY Z3 DEF NumWork, Types, LaunchType, S
  <2>2. \A x \in Ctas : x < NumWork => Len(Ds(q, x)) >= 1 /\ C + counter[q] >= NumWork
    <3> SUFFICES ASSUME NEW x \in Ctas, x < NumWork
                 PROVE Len(Ds(q, x)) >= 1 /\ C + counter[q] >= NumWork
      OBVIOUS
    <3>1. CASE Ds(q, x) = <<>>
      <4>1. Len(Ds(q, x)) * C = 0 BY <1>1, <3>1
      <4>2. NextId(q, x) = x BY <1>1, <1>2, <1>7, <3>1, <4>1 DEF NextId, First
      <4> QED BY <1>1, <1>4, <2>1, <4>2
    <3>2. CASE Ds(q, x) # <<>>
      <4>1. NextId(q, x) = C + counter[q] BY <1>2, <1>7, <3>2 DEF NextId, First
      <4>2. C + counter[q] >= NumWork BY <1>4, <4>1
      <4> QED BY <1>2, <3>2, <4>2
    <3> QED BY <3>1, <3>2
  <2>3. CASE id < C
    <3>1. id \in Ctas BY <1>1, <2>3
    <3>2. 1 \in 1..Len(Ds(q, id)) BY <1>2, <2>2, <3>1
    <3>3. Ds(q, id)[1] = id BY <1>7, <3>1, <3>2 DEF Ids
    <3> QED BY <3>1, <3>2, <3>3
  <2>4. CASE id >= C
    <3>1. 0 \in Ctas /\ 0 < NumWork BY <1>1, <2>1
    <3>2. C + counter[q] >= NumWork BY <2>2, <3>1
    <3>3. id - C \in Nat /\ id - C < counter[q] BY <1>1, <1>3, <2>1, <2>4, <3>2
    <3>4. \E x \in Ctas : \E n \in 1..Len(Ds(q, x)) : Ds(q, x)[n] = launch.ctas + (id - C)
      BY <1>7, <3>3 DEF Ids
    <3>5. launch.ctas + (id - C) = id BY <1>1
    <3> QED BY <3>4, <3>5
  <2> QED BY <1>1, <2>3, <2>4
<1> QED BY <1>1, <1>5, <1>6, <1>7

-----------------------------------------------------------------------------
(* What a step leaves alone.                                               *)
LEMMA Same ==
  ASSUME launch' = launch
  PROVE /\ Calls' = Calls /\ Ctas' = Ctas /\ Tiles' = Tiles /\ S' = S /\ NumWork' = NumWork
        /\ Serial' = Serial /\ Ordered' = Ordered
BY DEF Calls, Ctas, Tiles, S, NumWork, Serial, Ordered

(* What an item is changes with the draws alone.                           *)
LEMMA OnSame ==
  ASSUME UNCHANGED <<launch, drawn>>
  PROVE \A q, x, n, tile, s : On(q, x, n, tile, s)' = On(q, x, n, tile, s)
BY DEF On, Ds, TileOf, SplitOf, S

(* The numbers a launch is made of.                                        *)
LEMMA Sizes ==
  ASSUME Types
  PROVE /\ S \in Nat /\ S > 1 /\ Calls \subseteq Nat \ {0} /\ Ctas \subseteq Nat /\ 0 \in Ctas
        /\ launch.ctas \in Nat \ {0} /\ Ctas = 0..launch.ctas - 1
        /\ NumWork \in Nat /\ NumWork > 0 /\ 0 \in Threads
        /\ launch.order \in {"static", "dynamic", "grid"}
<1>1. /\ launch.splits \in Nat \ {0, 1} /\ launch.tiles \in Nat \ {0} /\ launch.ctas \in Nat \ {0}
      /\ launch.calls \in Nat \ {0} /\ launch.order \in {"static", "dynamic", "grid"}
  BY DEF Types, LaunchType
<1>2. launch.splits * launch.tiles \in Nat /\ launch.splits * launch.tiles > 0 BY <1>1, Z3
<1> QED BY <1>1, <1>2, ThreadsAssumption DEF S, Calls, Ctas, NumWork

(* The kinds of step.                                                      *)
LEMMA NextCases ==
  ASSUME Types, Next
  PROVE \/ \E q \in Calls, x \in Ctas : Draw(q, x)
        \/ \E w \in issued : Perform(w)
        \/ \E q \in Calls, x \in Ctas, t \in Threads : ThreadNext(<<q, x, t>>)
<1>1. CASE \E p \in DOMAIN thread : ThreadNext(p)
  <2>1. PICK p \in Calls \X Ctas \X Threads : ThreadNext(p) BY <1>1 DEF Types
  <2>2. PICK q \in Calls, x \in Ctas, t \in Threads : p = <<q, x, t>> OBVIOUS
  <2> QED BY <2>1, <2>2
<1> QED BY <1>1 DEF Next, DrawNext, PerformNext

(* A thread that steps is at a drawn item, and goes forward.               *)
LEMMA ThreadStep ==
  ASSUME Types, Bounds, NEW q \in Calls, NEW x \in Ctas, NEW t \in Threads, ThreadNext(<<q, x, t>>)
  PROVE /\ UNCHANGED <<launch, counter, drawn>>
        /\ Th(q, x, t).item \in 1..Len(Ds(q, x))
        /\ thread' \in [Calls \X Ctas \X Threads -> [item : Nat \ {0}, at : Idle..Publish]]
        /\ \A r \in Calls, y \in Ctas, u \in Threads :
             r # q \/ y # x \/ u # t => Th(r, y, u)' = Th(r, y, u)
        /\ \/ Th(q, x, t)'.item = Th(q, x, t).item /\ Th(q, x, t)'.at > Th(q, x, t).at
           \/ /\ Th(q, x, t).at = Publish
              /\ Th(q, x, t)'.item = Th(q, x, t).item + 1 /\ Th(q, x, t)'.at = Idle
<1> DEFINE p == <<q, x, t>>
<1>1. p \in Calls \X Ctas \X Threads /\ p[1] = q /\ p[2] = x /\ p[3] = t OBVIOUS
<1>2. thread[p] \in [item : Nat \ {0}, at : Idle..Publish] /\ Th(q, x, t) = thread[p]
  BY <1>1 DEF Types, Th
<1>3. UNCHANGED <<launch, counter, drawn>>
  BY DEF ThreadNext, Begin, WaitEq, WaitSync, Commit, Finalize, ReleaseSync, Release
<1>4. Ds(q, x) \in Seq(Nat) /\ Len(Ds(q, x)) \in Nat BY DEF Types, Ds
<1>5. thread[p].item \in 1..Len(Ds(q, x))
  <2>1. CASE Begin(p) BY <1>1, <1>2, <1>4, <2>1 DEF Begin, Ds
  <2>2. CASE ~Begin(p)
    <3>1. At(p, Acquire) \/ At(p, Granted) \/ At(p, Contribute) \/ At(p, Collect) \/ At(p, Publish)
      BY <2>2 DEF ThreadNext, WaitEq, WaitSync, Commit, Finalize, ReleaseSync, Release
    <3>2. thread[p].at # Idle
      BY <3>1 DEF At, Idle, Acquire, Granted, Contribute, Collect, Publish
    <3>3. Th(q, x, t).item \in Nat \ {0} /\ Th(q, x, t).item <= Len(Ds(q, x)) BY <1>2, <3>2 DEF Bounds
    <3> QED BY <1>2, <1>4, <3>3
  <2> QED BY <2>1, <2>2
<1>6. PICK e \in [item : Nat \ {0}, at : Idle..Publish] :
        /\ thread' = [thread EXCEPT ![p] = e]
        /\ \/ e.item = thread[p].item /\ e.at > thread[p].at
           \/ thread[p].at = Publish /\ e.item = thread[p].item + 1 /\ e.at = Idle
  <2>1. ASSUME NEW from \in Idle..Publish, NEW to \in Idle..Publish, At(p, from), Go(p, to), from < to
        PROVE \E e \in [item : Nat \ {0}, at : Idle..Publish] :
          /\ thread' = [thread EXCEPT ![p] = e] /\ e.item = thread[p].item /\ e.at > thread[p].at
    <3> DEFINE e == [thread[p] EXCEPT !.at = to]
    <3>1. e \in [item : Nat \ {0}, at : Idle..Publish] /\ e.item = thread[p].item /\ e.at = to
      BY <1>2
    <3>2. thread' = [thread EXCEPT ![p] = e] BY <2>1 DEF Go
    <3> QED BY <2>1, <3>1, <3>2 DEF At
  <2>2. CASE Begin(p)
    <3>1. At(p, Idle) /\ (Go(p, Acquire) \/ Go(p, Contribute)) BY <2>2 DEF Begin
    <3> QED BY <2>1, <3>1 DEF Idle, Acquire, Contribute, Publish
  <2>3. CASE WaitEq(p) BY <2>1, <2>3 DEF WaitEq, Idle, Acquire, Granted, Publish
  <2>4. CASE WaitSync(p) BY <2>1, <2>4 DEF WaitSync, Idle, Granted, Contribute, Publish
  <2>5. CASE Commit(p) BY <2>1, <2>5 DEF Commit, Idle, Contribute, Collect, Publish
  <2>6. CASE Finalize(p) BY <2>1, <2>6 DEF Finalize, Idle, Contribute, Collect, Publish
  <2>7. CASE ReleaseSync(p) BY <2>1, <2>7 DEF ReleaseSync, Idle, Collect, Publish
  <2>8. CASE Release(p)
    <3> DEFINE e == [item |-> thread[p].item + 1, at |-> Idle]
    <3>1. e \in [item : Nat \ {0}, at : Idle..Publish] BY <1>2 DEF Idle, Publish
    <3>2. thread' = [thread EXCEPT ![p] = e] BY <2>8 DEF Release
    <3> QED BY <2>8, <3>1, <3>2 DEF Release, At
  <2> QED BY <2>2, <2>3, <2>4, <2>5, <2>6, <2>7, <2>8 DEF ThreadNext
<1>7. thread \in [Calls \X Ctas \X Threads -> [item : Nat \ {0}, at : Idle..Publish]] BY DEF Types
<1>8. thread'[p] = e /\ thread' \in [Calls \X Ctas \X Threads -> [item : Nat \ {0}, at : Idle..Publish]]
  BY <1>1, <1>6, <1>7
<1>9. \A r \in Calls, y \in Ctas, u \in Threads :
        r # q \/ y # x \/ u # t => thread'[<<r, y, u>>] = thread[<<r, y, u>>]
  BY <1>6, <1>7
<1>10. Th(q, x, t)' = e BY <1>3, <1>8 DEF Th
<1> QED BY <1>2, <1>3, <1>5, <1>6, <1>8, <1>9, <1>10 DEF Th

(* A draw appends one id to the items of one CTA.                          *)
LEMMA DrawStep ==
  ASSUME Types, NEW q \in Calls, NEW x \in Ctas, Draw(q, x)
  PROVE /\ UNCHANGED <<launch, thread, flag, stripe, issued, result>>
        /\ \A r \in Calls, y \in Ctas : r # q \/ y # x => Ds(r, y)' = Ds(r, y)
        /\ \A r \in Calls : r # q => counter'[r] = counter[r]
        /\ counter'[q] = IF Counts(q, x) THEN counter[q] + 1 ELSE counter[q]
        /\ Len(Ds(q, x)') = Len(Ds(q, x)) + 1
        /\ \A n \in 1..Len(Ds(q, x)) : Ds(q, x)'[n] = Ds(q, x)[n]
        /\ Ds(q, x)'[Len(Ds(q, x)) + 1] = NextId(q, x)
        /\ NextId(q, x) \in Nat /\ NextId(q, x) < NumWork
        /\ drawn' \in [Calls \X Ctas -> Seq(Nat)] /\ counter' \in [Calls -> Nat]
<1>1. UNCHANGED <<launch, thread, flag, stripe, issued, result>> BY DEF Draw
<1>2. Ds(q, x) \in Seq(Nat) /\ Len(Ds(q, x)) \in Nat /\ drawn[<<q, x>>] = Ds(q, x) BY DEF Types, Ds
<1>3. drawn' = [drawn EXCEPT ![<<q, x>>] = Append(@, NextId(q, x))] /\ NextId(q, x) < NumWork
  BY DEF Draw
<1>4. NextId(q, x) \in Nat
  <2>1. PICK n \in Nat, c \in Nat : n = Len(Ds(q, x)) /\ c = launch.ctas BY <1>2, Sizes
  <2>2. n * c \in Nat BY Z3
  <2>3. PICK p \in Nat : p = Len(Ds(q, x)) * launch.ctas BY <2>1, <2>2
  <2>4. counter[q] \in Nat /\ x \in Nat BY Sizes DEF Types
  <2>5. x + p \in Nat /\ c + counter[q] \in Nat BY <2>4
  <2> QED BY <1>2, <2>1, <2>3, <2>4, <2>5 DEF NextId
<1>5. drawn \in [Calls \X Ctas -> Seq(Nat)] BY DEF Types
<1>6. /\ drawn' \in [Calls \X Ctas -> Seq(Nat)] /\ drawn'[<<q, x>>] = Append(Ds(q, x), NextId(q, x))
      /\ \A r \in Calls, y \in Ctas : r # q \/ y # x => drawn'[<<r, y>>] = drawn[<<r, y>>]
  BY <1>2, <1>3, <1>4, <1>5
<1>7. Ds(q, x)' = Append(Ds(q, x), NextId(q, x)) BY <1>6 DEF Ds
<1>8. /\ counter' \in [Calls -> Nat] /\ counter'[q] = IF Counts(q, x) THEN counter[q] + 1 ELSE counter[q]
      /\ \A r \in Calls : r # q => counter'[r] = counter[r]
  BY DEF Draw, Types
<1> QED BY <1>1, <1>2, <1>3, <1>4, <1>6, <1>7, <1>8 DEF Ds

(* At the start nothing is drawn.                                          *)
LEMMA InitDraw == Init => DrawInv
<1> SUFFICES ASSUME Init PROVE DrawInv OBVIOUS
<1>1. launch \in LaunchType BY LaunchesAssumption DEF Init
<1>2. S \in Nat /\ Calls \subseteq Nat BY <1>1 DEF LaunchType, S, Calls
<1>3. <<>> \in Seq(Nat) /\ <<>> \in Seq(Part) /\ InitialStripe(launch) \in Seq(Part)
  BY DEF InitialStripe, Garbage, Part
<1>4. Types BY <1>1, <1>3 DEF Init, Types, Idle, Publish
<1>5. \A q \in Calls, x \in Ctas : Ds(q, x) = <<>> /\ counter[q] = 0 BY DEF Init, Ds
<1>6. \A q \in Calls, x \in Ctas, t \in Threads : Th(q, x, t) = [item |-> 1, at |-> Idle]
  BY DEF Init, Th
<1>7. Bounds BY <1>5, <1>6 DEF Bounds
<1>8. Ids BY <1>5 DEF Ids, Init
<1>9. Distinct BY <1>5 DEF Distinct
<1> QED BY <1>4, <1>7, <1>8, <1>9 DEF DrawInv

(* No id is drawn twice.                                                   *)
LEMMA NewId ==
  ASSUME Types, Ids, NEW q \in Calls, NEW x \in Ctas, Draw(q, x),
         NEW y \in Ctas, NEW m \in 1..Len(Ds(q, y))
  PROVE Ds(q, y)[m] # NextId(q, x)
<1> DEFINE C == launch.ctas
<1>1. /\ C \in Nat \ {0} /\ x \in 0..C - 1 /\ y \in 0..C - 1
      /\ launch.order \in {"static", "dynamic", "grid"}
  BY Sizes
<1>2. /\ Ds(q, x) \in Seq(Nat) /\ Len(Ds(q, x)) \in Nat /\ drawn[<<q, x>>] = Ds(q, x)
      /\ Ds(q, y) \in Seq(Nat) /\ Len(Ds(q, y)) \in Nat /\ counter[q] \in Nat /\ m \in Nat \ {0}
  BY DEF Types, Ds
<1>3. CASE launch.order = "static"
  <2>1. NextId(q, x) = x + Len(Ds(q, x)) * C BY <1>2, <1>3 DEF NextId
  <2>2. Ds(q, y)[m] = y + (m - 1) * C BY <1>3 DEF Ids
  <2> DEFINE L == Len(Ds(q, x))
  <2> DEFINE k == m - 1
  <2>3. k \in Nat /\ L \in Nat BY <1>2
  <2> HIDE DEF C, L, k
  <2>3a. y + k * C = x + L * C => y = x /\ k = L BY <1>1, <2>3, Unique
  <2>4. y + (m - 1) * C = x + Len(Ds(q, x)) * C => y = x /\ m - 1 = Len(Ds(q, x))
    BY <2>3a DEF L, k
  <2> QED BY <1>2, <2>1, <2>2, <2>4
<1>4. CASE launch.order = "grid"
  BY <1>2, <1>4 DEF NextId, Ids
<1>5. CASE launch.order = "dynamic"
  <2>1. IF m = 1 THEN Ds(q, y)[m] = y ELSE Ds(q, y)[m] >= C /\ Ds(q, y)[m] < C + counter[q]
    BY <1>5 DEF Ids
  <2>2. CASE Ds(q, x) = <<>>
    <3>1. Len(Ds(q, x)) * C = 0 BY <1>1, <2>2
    <3>2. NextId(q, x) = x BY <1>1, <1>2, <1>5, <2>2, <3>1 DEF NextId, First
    <3>3. y # x BY <1>2, <2>2
    <3> QED BY <1>1, <1>2, <2>1, <3>2, <3>3
  <2>3. CASE Ds(q, x) # <<>>
    <3>1. NextId(q, x) = C + counter[q] BY <1>2, <1>5, <2>3 DEF NextId, First
    <3> QED BY <1>1, <1>2, <2>1, <3>1
  <2> QED BY <2>2, <2>3
<1> QED BY <1>1, <1>3, <1>4, <1>5

(* A draw draws a new id of the call, and its counter counts it.           *)
LEMMA DrawKeepsDraw ==
  ASSUME DrawInv, NEW q \in Calls, NEW x \in Ctas, Draw(q, x)
  PROVE DrawInv'
<1> USE DEF DrawInv
<1>0. /\ Calls' = Calls /\ Ctas' = Ctas /\ Tiles' = Tiles /\ S' = S /\ NumWork' = NumWork
      /\ launch' = launch
  BY DrawStep, Same
<1>1. Types'
  BY <1>0, DrawStep DEF Types
<1>2. \A r \in Calls, y \in Ctas, t \in Threads : Th(r, y, t)' = Th(r, y, t)
  BY DrawStep DEF Th
<1>3. \A r \in Calls, y \in Ctas : Len(Ds(r, y)) \in Nat /\ Len(Ds(r, y)') >= Len(Ds(r, y))
  <2> TAKE r \in Calls, y \in Ctas
  <2>1. Len(Ds(r, y)) \in Nat BY DEF Types, Ds
  <2>2. Len(Ds(r, y)') = Len(Ds(r, y)) \/ Len(Ds(r, y)') = Len(Ds(r, y)) + 1 BY DrawStep
  <2> QED BY <2>1, <2>2
<1>3b. \A r \in Calls, y \in Ctas : \A n \in 1..Len(Ds(r, y)) : Ds(r, y)'[n] = Ds(r, y)[n]
  <2> TAKE r \in Calls, y \in Ctas
  <2>1. CASE r = q /\ y = x BY <2>1, DrawStep
  <2>2. CASE r # q \/ y # x BY <2>2, DrawStep
  <2> QED BY <2>1, <2>2
<1>3a. \A r \in Calls, y \in Ctas, t \in Threads : Th(r, y, t).item \in Nat \ {0} BY DEF Types, Th
<1>4. \A r \in Calls, y \in Ctas : \A n \in 1..Len(Ds(r, y)') :
        \/ n \in 1..Len(Ds(r, y)) /\ Ds(r, y)'[n] = Ds(r, y)[n]
        \/ r = q /\ y = x /\ n = Len(Ds(q, x)) + 1 /\ Ds(r, y)'[n] = NextId(q, x)
  <2> SUFFICES ASSUME NEW r \in Calls, NEW y \in Ctas, NEW n \in 1..Len(Ds(r, y)'),
                      n \notin 1..Len(Ds(r, y))
               PROVE r = q /\ y = x /\ n = Len(Ds(q, x)) + 1 /\ Ds(r, y)'[n] = NextId(q, x)
    BY <1>3b
  <2>1. r = q /\ y = x BY DrawStep
  <2>2. n = Len(Ds(q, x)) + 1 BY <1>3, <2>1, DrawStep
  <2> QED BY <2>1, <2>2, DrawStep
<1>5. Bounds'
  <2>1. \A r \in Calls, y \in Ctas : \A n \in 1..Len(Ds(r, y)') : Ds(r, y)'[n] < NumWork
    BY <1>4, DrawStep, SMTT(40) DEF Bounds
  <2>2. \A r \in Calls, y \in Ctas, t \in Threads :
          /\ Th(r, y, t).item <= Len(Ds(r, y)') + 1
          /\ Th(r, y, t).at # Idle => Th(r, y, t).item <= Len(Ds(r, y)')
    BY <1>3, <1>3a DEF Bounds
  <2> QED BY <1>0, <1>2, <2>1, <2>2 DEF Bounds, Idle
<1>6. Distinct'
  <2>1. \A r \in Calls : \A y, z \in Ctas : \A n \in 1..Len(Ds(r, y)'), m \in 1..Len(Ds(r, z)') :
          Ds(r, y)'[n] = Ds(r, z)'[m] => y = z /\ n = m
    <3> SUFFICES ASSUME NEW r \in Calls, NEW y \in Ctas, NEW z \in Ctas, NEW n \in 1..Len(Ds(r, y)'),
                        NEW m \in 1..Len(Ds(r, z)'), Ds(r, y)'[n] = Ds(r, z)'[m]
                 PROVE y = z /\ n = m
      OBVIOUS
    <3>1. CASE n \in 1..Len(Ds(r, y)) /\ m \in 1..Len(Ds(r, z))
      <4>1. Ds(r, y)[n] = Ds(r, z)[m] BY <3>1, <1>3b
      <4> QED BY <3>1, <4>1 DEF Distinct
    <3>2. CASE n \notin 1..Len(Ds(r, y)) /\ m \in 1..Len(Ds(r, z))
      <4>1. r = q /\ y = x /\ Ds(r, y)'[n] = NextId(q, x) BY <1>4, <3>2
      <4>2. Ds(r, z)'[m] = Ds(r, z)[m] BY <3>2, <1>3b
      <4>3. Ds(q, z)[m] # NextId(q, x) BY <3>2, <4>1, NewId
      <4> QED BY <4>1, <4>2, <4>3
    <3>3. CASE n \in 1..Len(Ds(r, y)) /\ m \notin 1..Len(Ds(r, z))
      <4>1. r = q /\ z = x /\ Ds(r, z)'[m] = NextId(q, x) BY <1>4, <3>3
      <4>2. Ds(r, y)'[n] = Ds(r, y)[n] BY <3>3, <1>3b
      <4>3. Ds(q, y)[n] # NextId(q, x) BY <3>3, <4>1, NewId
      <4> QED BY <4>1, <4>2, <4>3
    <3>4. CASE n \notin 1..Len(Ds(r, y)) /\ m \notin 1..Len(Ds(r, z))
      BY <1>4, <3>4
    <3> QED BY <3>1, <3>2, <3>3, <3>4
  <2> QED BY <1>0, <2>1 DEF Distinct
<1>7. Ids'
  <2> DEFINE C == launch.ctas
  <2>0. /\ C \in Nat \ {0} /\ x \in 0..C - 1 /\ launch.order \in {"static", "dynamic", "grid"}
    BY Sizes
  <2>0a. \A r \in Calls : counter[r] \in Nat /\ counter'[r] \in Nat /\ counter'[r] >= counter[r]
    <3> TAKE r \in Calls
    <3>1. counter[r] \in Nat BY DEF Types
    <3>2. counter'[r] = counter[r] \/ counter'[r] = counter[r] + 1 BY DrawStep
    <3> QED BY <3>1, <3>2
  <2>1. \A y \in Ctas : Ds(q, y) \in Seq(Nat) /\ Len(Ds(q, y)) \in Nat /\ drawn[<<q, y>>] = Ds(q, y)
    BY DEF Types, Ds
  <2>2. ASSUME NEW r \in Calls, NEW y \in Ctas, NEW n \in 1..Len(Ds(r, y)')
        PROVE /\ launch.order = "static" => Ds(r, y)'[n] = y + (n - 1) * C
              /\ launch.order = "dynamic" =>
                   IF n = 1 THEN Ds(r, y)'[n] = y
                            ELSE Ds(r, y)'[n] >= C /\ Ds(r, y)'[n] < C + counter'[r]
              /\ launch.order = "grid" => Ds(r, y)'[n] < counter'[r]
    <3>1. CASE n \in 1..Len(Ds(r, y)) /\ Ds(r, y)'[n] = Ds(r, y)[n]
      <4>1. Ds(r, y)[n] \in Nat BY <3>1 DEF Types, Ds
      <4>2. /\ launch.order = "static" => Ds(r, y)[n] = y + (n - 1) * C
            /\ launch.order = "dynamic" =>
                   IF n = 1 THEN Ds(r, y)[n] = y
                            ELSE Ds(r, y)[n] >= C /\ Ds(r, y)[n] < C + counter[r]
            /\ launch.order = "grid" => Ds(r, y)[n] < counter[r]
        BY <3>1 DEF Ids
      <4> HIDE DEF C
      <4> QED BY <2>0, <2>0a, <3>1, <4>1, <4>2
    <3>2. CASE r = q /\ y = x /\ n = Len(Ds(q, x)) + 1 /\ Ds(r, y)'[n] = NextId(q, x)
      <4>1. n - 1 = Len(Ds(q, x)) /\ (n = 1 <=> First(q, x)) BY <2>1, <3>2 DEF First
      <4>2. First(q, x) => Len(Ds(q, x)) * C = 0 BY <2>0, <2>1 DEF First
      <4>3. NextId(q, x) = IF launch.order = "grid" THEN counter[q]
                           ELSE IF launch.order = "static" \/ First(q, x) THEN x + Len(Ds(q, x)) * C
                           ELSE C + counter[q]
        BY <2>1 DEF NextId
      <4>4. counter'[q] = IF launch.order = "grid" \/ (launch.order = "dynamic" /\ ~First(q, x))
                          THEN counter[q] + 1 ELSE counter[q]
        BY DrawStep DEF Counts
      <4> HIDE DEF C
      <4>5. launch.order = "static" => Ds(r, y)'[n] = y + (n - 1) * C BY <3>2, <4>1, <4>3
      <4>6. launch.order = "grid" => Ds(r, y)'[n] < counter'[r] BY <2>0a, <3>2, <4>3, <4>4
      <4>7. launch.order = "dynamic" /\ n = 1 => Ds(r, y)'[n] = y
        BY <2>0, <3>2, <4>1, <4>2, <4>3
      <4>8. launch.order = "dynamic" /\ n # 1 => Ds(r, y)'[n] >= C /\ Ds(r, y)'[n] < C + counter'[r]
        BY <2>0, <2>0a, <3>2, <4>1, <4>3, <4>4
      <4> QED BY <4>5, <4>6, <4>7, <4>8
    <3> QED BY <1>4, <3>1, <3>2
  <2>3. ASSUME NEW r \in Calls, NEW j \in Nat, j < counter'[r]
        PROVE \E y \in Ctas : \E n \in 1..Len(Ds(r, y)') :
                Ds(r, y)'[n] = IF launch.order = "grid" THEN j ELSE launch.ctas + j
    <3>1. CASE j < counter[r]
      <4>1. PICK y \in Ctas : \E n \in 1..Len(Ds(r, y)) :
              Ds(r, y)[n] = IF launch.order = "grid" THEN j ELSE launch.ctas + j
        BY <3>1 DEF Ids
      <4>2. PICK n \in 1..Len(Ds(r, y)) :
              Ds(r, y)[n] = IF launch.order = "grid" THEN j ELSE launch.ctas + j
        BY <4>1
      <4>3. n \in 1..Len(Ds(r, y)') BY <1>3
      <4>4. Ds(r, y)'[n] = Ds(r, y)[n] BY <4>2, <1>3b
      <4> QED BY <4>2, <4>3, <4>4
    <3>2. CASE ~(j < counter[r])
      <4>1. r = q /\ Counts(q, x) /\ j = counter[q] BY <2>0a, <2>3, <3>2, DrawStep
      <4>2. NextId(q, x) = IF launch.order = "grid" THEN j ELSE launch.ctas + j
        BY <4>1 DEF NextId, Counts
      <4>3. Len(Ds(q, x)) + 1 \in 1..Len(Ds(q, x)') BY <1>3, <2>1, DrawStep
      <4> QED BY <4>1, <4>2, <4>3, DrawStep
    <3> QED BY <3>1, <3>2
  <2> QED BY <1>0, <2>2, <2>3 DEF Ids
<1> QED BY <1>1, <1>5, <1>6, <1>7

(* A thread works on what is drawn.                                        *)
LEMMA ThreadKeepsDraw ==
  ASSUME DrawInv, NEW q \in Calls, NEW x \in Ctas, NEW t \in Threads, ThreadNext(<<q, x, t>>)
  PROVE DrawInv'
<1> DEFINE p == <<q, x, t>>
<1> USE DEF DrawInv
<1>0. /\ Calls' = Calls /\ Ctas' = Ctas /\ Tiles' = Tiles /\ S' = S /\ NumWork' = NumWork
      /\ launch' = launch /\ counter' = counter /\ drawn' = drawn
  BY ThreadStep, Same
<1>1. \A r \in Calls, y \in Ctas : Ds(r, y)' = Ds(r, y) BY <1>0 DEF Ds
<1>2. Ids' /\ Distinct' BY <1>0, <1>1 DEF Ids, Distinct
<1>3. Bounds'
  <2>1. \A r \in Calls, y \in Ctas, u \in Threads :
          /\ Th(r, y, u)'.item <= Len(Ds(r, y)) + 1
          /\ Th(r, y, u)'.at # Idle => Th(r, y, u)'.item <= Len(Ds(r, y))
    <3> TAKE r \in Calls, y \in Ctas, u \in Threads
    <3>1. CASE r = q /\ y = x /\ u = t
      <4>1. Len(Ds(q, x)) \in Nat BY DEF Types, Ds
      <4> QED BY <3>1, <4>1, ThreadStep
    <3>2. CASE r # q \/ y # x \/ u # t
      BY <3>2, ThreadStep DEF Bounds
    <3> QED BY <3>1, <3>2
  <2> QED BY <1>0, <1>1, <2>1 DEF Bounds, Idle
<1>4. Types'
  <2>1. /\ p \in Calls \X Ctas \X Threads /\ p[1] = q /\ p[2] = x /\ p[3] = t
        /\ thread[p] = Th(q, x, t) /\ thread[p].item \in Nat \ {0}
    BY DEF Th, Types
  <2>2. /\ Id(p) = Ds(q, x)[Th(q, x, t).item] /\ Th(q, x, t).item \in 1..Len(Ds(q, x))
    BY <2>1, ThreadStep DEF Id, Ds
  <2>3. Tile(p) \in Tiles /\ Split(p) \in 0..S - 1 BY <2>2, Drawn DEF Tile, Split
  <2>4. S \in Nat /\ S > 1 /\ Calls \subseteq Nat BY Sizes
  <2>5. /\ launch' \in LaunchType /\ counter' \in [Calls -> Nat]
        /\ drawn' \in [Calls \X Ctas -> Seq(Nat)]
        /\ thread' \in [Calls \X Ctas \X Threads -> [item : Nat \ {0}, at : Idle..Publish]]
    BY <1>0, ThreadStep DEF Types
  <2>6. flag' \in [Tiles -> Nat]
    <3>1. CASE Release(p)
      <4>1. flag \in [Tiles -> Nat] /\ flag[Tile(p)] \in Nat BY <2>3 DEF Types
      <4>2. NewFlag(Split(p), flag[Tile(p)]) \in Nat BY <2>3, <2>4, <4>1 DEF NewFlag
      <4> QED BY <3>1, <4>1, <4>2 DEF Release
    <3>2. CASE ~Release(p)
      <4>1. flag' = flag
        BY <3>2 DEF ThreadNext, Begin, WaitEq, WaitSync, Commit, Finalize, ReleaseSync
      <4> QED BY <4>1 DEF Types
    <3> QED BY <3>1, <3>2
  <2>7. stripe' = stripe
    BY DEF ThreadNext, Begin, WaitEq, WaitSync, Commit, Finalize, ReleaseSync, Release
  <2>8. issued' \subseteq [by : Calls \X Ctas \X Threads, item : Nat \ {0}, tile : Tiles, split : 0..S - 2]
    <3>1. CASE Commit(p)
      <4> DEFINE w == [by |-> p, item |-> thread[p].item, tile |-> Tile(p), split |-> Split(p)]
      <4>1. issued' = issued \cup {w} /\ Split(p) # S - 1 BY <3>1 DEF Commit, Last
      <4>2. Split(p) \in 0..S - 2 BY <2>3, <2>4, <4>1
      <4>3. w \in [by : Calls \X Ctas \X Threads, item : Nat \ {0}, tile : Tiles, split : 0..S - 2]
        BY <2>1, <2>3, <4>2
      <4> QED BY <4>1, <4>3 DEF Types
    <3>2. CASE ~Commit(p)
      <4>1. issued' = issued
        BY <3>2 DEF ThreadNext, Begin, WaitEq, WaitSync, Finalize, ReleaseSync, Release
      <4> QED BY <4>1 DEF Types
    <3> QED BY <3>1, <3>2
  <2>9. result' \in [Calls -> [Tiles -> [Threads -> Seq(Part)]]]
    <3>1. CASE Finalize(p)
      <4> DEFINE sum == Append(stripe[Tile(p)][t], <<q, Split(p)>>)
      <4>1. result' = [result EXCEPT ![q][Tile(p)][t] = sum] BY <2>1, <3>1 DEF Finalize
      <4>2. <<q, Split(p)>> \in Part BY <2>3, <2>4 DEF Part
      <4>3. stripe[Tile(p)][t] \in Seq(Part) BY <2>3 DEF Types
      <4>4. sum \in Seq(Part) BY <4>2, <4>3
      <4> HIDE DEF sum
      <4> QED BY <2>3, <4>1, <4>4 DEF Types
    <3>2. CASE ~Finalize(p)
      <4>1. result' = result
        BY <3>2 DEF ThreadNext, Begin, WaitEq, WaitSync, Commit, ReleaseSync, Release
      <4> QED BY <4>1 DEF Types
    <3> QED BY <3>1, <3>2
  <2>10. stripe' \in [Tiles -> [Threads -> Seq(Part)]] BY <2>7 DEF Types
  <2> QED BY <1>0, <2>5, <2>6, <2>8, <2>9, <2>10 DEF Types
<1> QED BY <1>2, <1>3, <1>4

(* Performing a commit draws nothing.                                      *)
LEMMA PerformKeepsDraw ==
  ASSUME DrawInv, NEW w \in issued, Perform(w)
  PROVE DrawInv'
<1> USE DEF DrawInv
<1>0. /\ launch' = launch /\ counter' = counter /\ drawn' = drawn /\ thread' = thread
      /\ flag' = flag /\ result' = result /\ issued' = issued \ {w}
  BY DEF Perform
<1>1. Calls' = Calls /\ Ctas' = Ctas /\ Tiles' = Tiles /\ S' = S /\ NumWork' = NumWork
  BY <1>0, Same
<1>2a. \A r \in Calls, y \in Ctas : Ds(r, y)' = Ds(r, y) BY <1>0 DEF Ds
<1>2b. \A r \in Calls, y \in Ctas, t \in Threads : Th(r, y, t)' = Th(r, y, t) BY <1>0 DEF Th
<1>2c. Bounds' BY <1>1, <1>2a, <1>2b DEF Bounds, Idle
<1>2d. Ids' BY <1>0, <1>1, <1>2a DEF Ids
<1>2e. Distinct' BY <1>1, <1>2a DEF Distinct
<1>2. Bounds' /\ Ids' /\ Distinct' BY <1>2c, <1>2d, <1>2e
<1>3. /\ w.tile \in Tiles /\ w.by[3] \in Threads /\ <<w.by[1], w.split>> \in Part
      /\ Calls \subseteq Nat /\ S \in Nat
  <2>1. w.tile \in Tiles /\ w.by \in Calls \X Ctas \X Threads /\ w.split \in 0..S - 2 BY DEF Types
  <2>2. Calls \subseteq Nat /\ S \in Nat BY Sizes
  <2>3. w.by[1] \in Calls /\ w.by[3] \in Threads BY <2>1
  <2>4. w.by[1] \in Nat BY <2>2, <2>3
  <2>4a. w.split \in Nat BY <2>1, <2>2
  <2>5. <<w.by[1], w.split>> \in Nat \X Nat BY <2>4, <2>4a
  <2> QED BY <2>1, <2>2, <2>3, <2>5 DEF Part
<1>4. stripe' \in [Tiles -> [Threads -> Seq(Part)]]
  <2> DEFINE part == <<w.by[1], w.split>>
  <2> DEFINE old == stripe[w.tile][w.by[3]]
  <2>1. old \in Seq(Part) BY <1>3 DEF Types
  <2>2. <<part>> \in Seq(Part) /\ Append(old, part) \in Seq(Part) BY <1>3, <2>1
  <2>3. Combine(part, w.split, old) \in Seq(Part) BY <2>2 DEF Combine
  <2>4. stripe' = [stripe EXCEPT ![w.tile][w.by[3]] = Combine(part, w.split, old)]
    BY DEF Perform
  <2> QED BY <1>3, <2>3, <2>4 DEF Types
<1> QED BY <1>0, <1>1, <1>2, <1>4 DEF Types

-----------------------------------------------------------------------------
(* A call that has begun and is not done is the latest, and the only one   *)
(* a step belongs to.                                                      *)
LEMMA ActiveIsLatest ==
  ASSUME DrawInv, Turns, NEW q \in Calls, Started(q), ~Done(q)
  PROVE Latest(q) /\ \A r \in Calls : Latest(r) => r = q
<1>1. \A r \in Calls : r > q => ~Started(r) BY DEF Turns
<1>2. Calls \subseteq Nat BY Sizes DEF DrawInv
<1> QED BY <1>1, <1>2 DEF Latest

(* A call with an item not released is not done.                           *)
LEMMA StepIsActive ==
  ASSUME DrawInv, NEW q \in Calls, NEW x \in Ctas, NEW t \in Threads, NEW n \in 1..Len(Ds(q, x)),
         Th(q, x, t).item <= n
  PROVE Started(q) /\ ~Done(q)
<1>1. Ds(q, x) # <<>> /\ Len(Ds(q, x)) \in Nat BY DEF DrawInv, Types, Ds
<1>2. Th(q, x, t).item \in Nat BY DEF DrawInv, Types, Th
<1>3. ~Rests(q, x, t) BY <1>1, <1>2 DEF Rests, Th, Ds
<1> QED BY <1>1, <1>3 DEF Started, Done

(* A call that is done has drawn and released everything.                  *)
LEMMA DoneIsFinished ==
  ASSUME DrawInv, NEW q \in Calls, Done(q)
  PROVE Started(q) /\ \A tile \in Tiles, s \in 0..S - 1 : FinSplit(q, tile, s)
<1> USE DEF DrawInv
<1>1. Exhausted(q) /\ \A x \in Ctas, t \in Threads : Rests(q, x, t) BY DEF Done
<1>2. ASSUME NEW tile \in Tiles, NEW s \in 0..S - 1 PROVE FinSplit(q, tile, s)
  <2>1. PICK id \in Nat : id < NumWork /\ TileOf(id) = tile /\ SplitOf(id) = s BY WorkExists
  <2>2. PICK x \in Ctas : \E n \in 1..Len(Ds(q, x)) : Ds(q, x)[n] = id BY <1>1, <2>1, Exhaustive
  <2>3. PICK n \in 1..Len(Ds(q, x)) : Ds(q, x)[n] = id BY <2>2
  <2>4. Th(q, x, 0).item = Len(Ds(q, x)) + 1 /\ Len(Ds(q, x)) \in Nat
    BY <1>1, ThreadsAssumption DEF Rests, Th, Ds, Types
  <2>5. On(q, x, n, tile, s) /\ Fin(q, x, n) BY <2>1, <2>3, <2>4 DEF On, Fin
  <2> QED BY <2>5 DEF FinSplit
<1>3. Started(q)
  <2>1. 0 \in Nat /\ 0 < NumWork BY Sizes
  <2>2. PICK x \in Ctas : \E n \in 1..Len(Ds(q, x)) : Ds(q, x)[n] = 0 BY <1>1, <2>1, Exhaustive
  <2>3. Ds(q, x) # <<>> BY <2>2
  <2> QED BY <2>3 DEF Started
<1> QED BY <1>2, <1>3

(* A tile and a split are one item of one CTA of a call.                   *)
LEMMA ItemIsOne ==
  ASSUME DrawInv, NEW q \in Calls, NEW x \in Ctas, NEW y \in Ctas, NEW n, NEW m,
         NEW tile, NEW s, On(q, x, n, tile, s), On(q, y, m, tile, s)
  PROVE x = y /\ n = m
<1> USE DEF DrawInv
<1>1. n \in 1..Len(Ds(q, x)) /\ m \in 1..Len(Ds(q, y)) BY DEF On
<1>2. Ds(q, x)[n] \in Nat /\ Ds(q, y)[m] \in Nat BY <1>1, Drawn
<1>3. TileOf(Ds(q, x)[n]) = TileOf(Ds(q, y)[m]) /\ SplitOf(Ds(q, x)[n]) = SplitOf(Ds(q, y)[m])
  BY DEF On
<1>4. Ds(q, x)[n] = Ds(q, y)[m] BY <1>2, <1>3, WorkIsOne
<1> QED BY <1>1, <1>4 DEF Distinct

(* While thread 0 has not released an item a thread of its CTA has waited  *)
(* for, thread 0 has passed its wait for it.                               *)
LEMMA Within ==
  ASSUME DrawInv, Group, Entered, NEW q \in Calls, NEW x \in Ctas, NEW t \in Threads, NEW n \in Nat \ {0},
         Beyond(Th(q, x, t), n, Contribute), ~Fin(q, x, n), NEW tile, NEW s, On(q, x, n, tile, s), Waits(s)
  PROVE Th(q, x, 0).item = n /\ Th(q, x, 0).at >= Granted
<1>1. Th(q, x, t) \in [item : Nat \ {0}, at : Idle..Publish] /\ 0 \in Threads
      /\ Th(q, x, 0) \in [item : Nat \ {0}, at : Idle..Publish]
  BY ThreadsAssumption DEF DrawInv, Types, Th
<1>2. Th(q, x, 0).item <= n BY <1>1 DEF Fin
<1>3. Beyond(Th(q, x, 0), n, Granted)
  <2>1. CASE Th(q, x, t).item > n
    <3>1. Beyond(Th(q, x, 0), Th(q, x, t).item - 1, Collect) BY <1>1, <2>1 DEF Group
    <3> QED BY <1>1, <2>1, <3>1 DEF Beyond, Idle, Publish, Granted, Collect
  <2>2. CASE Th(q, x, t).item = n /\ Th(q, x, t).at >= Contribute
    <3>1. Th(q, x, t).at > Granted BY <1>1, <2>2 DEF Granted, Contribute, Idle, Publish
    <3>2. Waits(SplitOf(Ds(q, x)[Th(q, x, t).item])) BY <2>2 DEF On
    <3>3. Beyond(Th(q, x, 0), Th(q, x, t).item, Granted) BY <1>1, <3>1, <3>2 DEF Entered
    <3> QED BY <2>2, <3>3
  <2> QED BY <2>1, <2>2 DEF Beyond
<1> QED BY <1>1, <1>2, <1>3 DEF Beyond

(* A thread is not past its group's barrier: thread 0 has not released the *)
(* item another thread is summing.                                         *)
LEMMA NotReleased ==
  ASSUME DrawInv, Group, NEW q \in Calls, NEW x \in Ctas, NEW t \in Threads, Th(q, x, t).at < Collect
  PROVE ~Fin(q, x, Th(q, x, t).item)
<1>1. Th(q, x, t) \in [item : Nat \ {0}, at : Idle..Publish] /\ 0 \in Threads
      /\ Th(q, x, 0) \in [item : Nat \ {0}, at : Idle..Publish]
  BY ThreadsAssumption DEF DrawInv, Types, Th
<1>2. CASE Th(q, x, 0).item > Th(q, x, t).item
  <2>1. Beyond(Th(q, x, t), Th(q, x, 0).item - 1, Collect) BY <1>1, <1>2 DEF Group
  <2> QED BY <1>1, <1>2, <2>1 DEF Beyond, Idle, Publish, Collect
<1> QED BY <1>2 DEF Fin

(* Moving on, a thread stays beyond what it was beyond.                    *)
LEMMA Onwards ==
  ASSUME DrawInv, NEW q \in Calls, NEW x \in Ctas, NEW t \in Threads, ThreadNext(<<q, x, t>>),
         NEW r \in Calls, NEW y \in Ctas, NEW u \in Threads, NEW n \in Int, NEW where \in Idle..Publish,
         Beyond(Th(r, y, u), n, where)
  PROVE Beyond(Th(r, y, u)', n, where)
<1>1. Th(r, y, u) \in [item : Nat \ {0}, at : Idle..Publish] BY DEF DrawInv, Types, Th
<1>2. Th(q, x, t) \in [item : Nat \ {0}, at : Idle..Publish] BY DEF DrawInv, Types, Th
<1>3. CASE r = q /\ y = x /\ u = t
  <2>1. \/ Th(q, x, t)'.item = Th(q, x, t).item /\ Th(q, x, t)'.at > Th(q, x, t).at
        \/ Th(q, x, t)'.item = Th(q, x, t).item + 1
    BY ThreadStep DEF DrawInv
  <2>2. thread' \in [Calls \X Ctas \X Threads -> [item : Nat \ {0}, at : Idle..Publish]]
    BY ThreadStep DEF DrawInv
  <2>3. thread'[<<q, x, t>>] \in [item : Nat \ {0}, at : Idle..Publish] BY <2>2
  <2>4. Th(q, x, t)' \in [item : Nat \ {0}, at : Idle..Publish] BY <2>3 DEF Th
  <2> QED BY <1>2, <1>3, <2>1, <2>4 DEF Beyond, Idle, Publish
<1>4. CASE r # q \/ y # x \/ u # t
  <2>1. Th(r, y, u)' = Th(r, y, u) BY <1>4, ThreadStep DEF DrawInv
  <2> QED BY <2>1
<1> QED BY <1>3, <1>4

-----------------------------------------------------------------------------
(* The item a draw adds is nobody's yet; the others stay what they are.    *)
LEMMA DrawOn ==
  ASSUME DrawInv, NEW q \in Calls, NEW x \in Ctas, Draw(q, x),
         NEW r \in Calls, NEW y \in Ctas, NEW n, NEW tile, NEW s
  PROVE /\ On(r, y, n, tile, s) => On(r, y, n, tile, s)'
        /\ On(r, y, n, tile, s)' =>
             \/ On(r, y, n, tile, s)
             \/ /\ r = q /\ y = x /\ n = Len(Ds(q, x)) + 1
                /\ \A t \in Threads : ~Beyond(Th(q, x, t), n, Collect) /\ Th(q, x, t).item <= n
<1> USE DEF DrawInv
<1>1. \A id : TileOf(id)' = TileOf(id) /\ SplitOf(id)' = SplitOf(id)
  BY DrawStep DEF TileOf, SplitOf, S
<1>2. On(r, y, n, tile, s)' <=>
        n \in 1..Len(Ds(r, y)') /\ TileOf(Ds(r, y)'[n]) = tile /\ SplitOf(Ds(r, y)'[n]) = s
  BY DrawStep DEF On, TileOf, SplitOf, S
<1>3. Len(Ds(r, y)) \in Nat /\ Len(Ds(q, x)) \in Nat BY DEF Types, Ds
<1>4. CASE r = q /\ y = x
  <2>1. /\ Len(Ds(q, x)') = Len(Ds(q, x)) + 1
        /\ \A m \in 1..Len(Ds(q, x)) : Ds(q, x)'[m] = Ds(q, x)[m]
    BY DrawStep
  <2>2. \A t \in Threads : Th(q, x, t).item <= Len(Ds(q, x)) + 1 BY DEF Bounds
  <2>3. \A t \in Threads : ~Beyond(Th(q, x, t), Len(Ds(q, x)) + 1, Collect)
    <3> TAKE t \in Threads
    <3>1. Th(q, x, t) \in [item : Nat \ {0}, at : Idle..Publish] BY DEF Types, Th
    <3>2. Th(q, x, t).at # Idle => Th(q, x, t).item <= Len(Ds(q, x)) BY DEF Bounds
    <3> QED BY <1>3, <2>2, <3>1, <3>2 DEF Beyond, Idle, Collect, Publish
  <2> QED BY <1>2, <1>3, <1>4, <2>1, <2>2, <2>3 DEF On
<1>5. CASE r # q \/ y # x
  <2>1. Ds(r, y)' = Ds(r, y) BY <1>5, DrawStep
  <2> QED BY <1>2, <2>1 DEF On
<1> QED BY <1>4, <1>5

(* A draw finishes nothing.                                                *)
LEMMA DrawFin ==
  ASSUME DrawInv, NEW q \in Calls, NEW x \in Ctas, Draw(q, x),
         NEW r \in Calls, NEW tile, NEW s
  PROVE FinSplit(r, tile, s)' <=> FinSplit(r, tile, s)
<1>1. thread' = thread /\ Ctas' = Ctas BY DrawStep, Same DEF DrawInv
<1>2. \A y \in Ctas : \A n : Fin(r, y, n)' = Fin(r, y, n) BY <1>1 DEF Fin, Th
<1>3. Th(q, x, 0).item \in Nat /\ 0 \in Threads BY ThreadsAssumption DEF DrawInv, Types, Th
<1>4. \A y \in Ctas : \A n : On(r, y, n, tile, s) /\ Fin(r, y, n) => On(r, y, n, tile, s)' BY DrawOn
<1>5. \A y \in Ctas : \A n : On(r, y, n, tile, s)' /\ Fin(r, y, n) => On(r, y, n, tile, s)
  <2> SUFFICES ASSUME NEW y \in Ctas, NEW n, On(r, y, n, tile, s)', Fin(r, y, n), ~On(r, y, n, tile, s)
               PROVE FALSE
    OBVIOUS
  <2>1. r = q /\ y = x /\ n = Len(Ds(q, x)) + 1 /\ Th(q, x, 0).item <= n BY <1>3, DrawOn
  <2>2. Len(Ds(q, x)) \in Nat BY DEF DrawInv, Types, Ds
  <2> QED BY <1>3, <2>1, <2>2 DEF Fin
<1>6. FinSplit(r, tile, s) <=> \E y \in Ctas : \E n : On(r, y, n, tile, s) /\ Fin(r, y, n)
  BY DEF FinSplit, On
<1>7. FinSplit(r, tile, s)' <=> \E y \in Ctas : \E n : On(r, y, n, tile, s)' /\ Fin(r, y, n)'
  <2>1. \A y, n : On(r, y, n, tile, s)' => n \in 1..Len(Ds(r, y)') BY DEF On
  <2> QED BY <1>1, <2>1 DEF FinSplit
<1> QED BY <1>2, <1>4, <1>5, <1>6, <1>7

(* The item a thread is at stays what it is when another is drawn.         *)
LEMMA DrawAt ==
  ASSUME DrawInv, NEW q \in Calls, NEW x \in Ctas, Draw(q, x),
         NEW r \in Calls, NEW y \in Ctas, NEW t \in Threads, Th(r, y, t).at >= Granted
  PROVE /\ TileOf(Ds(r, y)[Th(r, y, t).item])' = TileOf(Ds(r, y)[Th(r, y, t).item])
        /\ SplitOf(Ds(r, y)[Th(r, y, t).item])' = SplitOf(Ds(r, y)[Th(r, y, t).item])
<1> USE DEF DrawInv
<1>1. Th(r, y, t) \in [item : Nat \ {0}, at : Idle..Publish] BY DEF Types, Th
<1>2. Th(r, y, t).at # Idle BY <1>1 DEF Idle, Granted, Publish
<1>3. Th(r, y, t).item <= Len(Ds(r, y)) BY <1>2 DEF Bounds
<1>4. Len(Ds(r, y)) \in Nat BY DEF Types, Ds
<1>5. Th(r, y, t).item \in 1..Len(Ds(r, y)) BY <1>1, <1>3, <1>4
<1>6. Ds(r, y)'[Th(r, y, t).item] = Ds(r, y)[Th(r, y, t).item]
  <2>1. CASE r = q /\ y = x BY <1>5, <2>1, DrawStep
  <2>2. CASE r # q \/ y # x BY <2>2, DrawStep
  <2> QED BY <2>1, <2>2
<1>7. Th(r, y, t)' = Th(r, y, t) /\ launch' = launch BY DrawStep DEF Th
<1> QED BY <1>6, <1>7 DEF TileOf, SplitOf, S

(* A draw keeps what the barriers of the groups order.                     *)
LEMMA DrawKeepsGroup ==
  ASSUME DrawInv, GroupInv, NEW q \in Calls, NEW x \in Ctas, Draw(q, x)
  PROVE GroupInv'
<1> USE DEF GroupInv
<1>0. /\ Calls' = Calls /\ Ctas' = Ctas /\ S' = S /\ (Serial' <=> Serial) /\ launch' = launch
      /\ thread' = thread /\ issued' = issued
  BY DrawStep, Same DEF DrawInv
<1>1. \A r \in Calls, y \in Ctas, t \in Threads : Th(r, y, t)' = Th(r, y, t) BY <1>0 DEF Th
<1>2. Group' BY <1>0, <1>1 DEF Group, Beyond, Collect, Publish
<1>3. Entered'
  <2>1. ASSUME NEW r \in Calls, NEW y \in Ctas, NEW t \in Threads, NEW u \in Threads,
               Th(r, y, t).at > Granted, Waits(SplitOf(Ds(r, y)[Th(r, y, t).item]))'
        PROVE Beyond(Th(r, y, u), Th(r, y, t).item, Granted)
    <3>1. Th(r, y, t) \in [item : Nat \ {0}, at : Idle..Publish] BY DEF DrawInv, Types, Th
    <3>2. Th(r, y, t).at >= Granted BY <2>1, <3>1 DEF Granted, Idle, Publish
    <3>3. SplitOf(Ds(r, y)[Th(r, y, t).item])' = SplitOf(Ds(r, y)[Th(r, y, t).item]) BY <3>2, DrawAt
    <3>4. Waits(SplitOf(Ds(r, y)[Th(r, y, t).item])) BY <1>0, <2>1, <3>3 DEF Waits, Last
    <3> QED BY <2>1, <3>4 DEF Entered
  <2> QED BY <1>0, <1>1, <2>1 DEF Entered, Beyond, Granted
<1>4. Issued'
  <2>1. \A w \in issued : On(w.by[1], w.by[2], w.item, w.tile, w.split)'
    <3> TAKE w \in issued
    <3>1. w.by[1] \in Calls /\ w.by[2] \in Ctas BY DEF DrawInv, Types
    <3>2. On(w.by[1], w.by[2], w.item, w.tile, w.split) BY DEF Issued
    <3> QED BY <3>1, <3>2, DrawOn
  <2> QED BY <1>0, <2>1 DEF Issued, Beyond, Fin, Th, Collect
<1> QED BY <1>2, <1>3, <1>4

(* A draw keeps turns and flags; the first one of a call finds every flag  *)
(* cleared.                                                                *)
LEMMA DrawKeepsFlag ==
  ASSUME DrawInv, Ordered, FlagInv, NEW q \in Calls, NEW x \in Ctas, Draw(q, x)
  PROVE FlagInv'
<1> USE DEF DrawInv, FlagInv
<1>0. /\ Calls' = Calls /\ Ctas' = Ctas /\ Tiles' = Tiles /\ S' = S /\ NumWork' = NumWork
      /\ launch' = launch /\ thread' = thread /\ flag' = flag
  BY DrawStep, Same
<1>0a. Calls \subseteq Nat \ {0} /\ S \in Nat /\ S > 1 /\ 0 \in Threads BY Sizes
<1>1. \A r \in Calls, y \in Ctas, t \in Threads : Th(r, y, t)' = Th(r, y, t) BY <1>0 DEF Th
<1>2. \A r \in 1..q - 1 : Done(r) BY DEF Draw, MayRun, Ordered
<1>3. ~Done(q) /\ \A r \in Calls : r > q => ~Started(r)
  <2>1. ~Exhausted(q)
    <3>1. NextId(q, x) \in Nat /\ NextId(q, x) < NumWork /\ NumWork \in Nat BY DrawStep, Sizes
    <3> QED BY <3>1 DEF Exhausted
  <2> QED BY <2>1 DEF Done, Turns
<1>4. \A r \in Calls : r # q => (Started(r)' <=> Started(r)) /\ (Done(r)' <=> Done(r))
  <2> SUFFICES ASSUME NEW r \in Calls, r # q PROVE (Started(r)' <=> Started(r)) /\ (Done(r)' <=> Done(r))
    OBVIOUS
  <2>1. \A y \in Ctas : drawn'[<<r, y>>] = drawn[<<r, y>>] BY DrawStep DEF Ds
  <2>2. counter'[r] = counter[r] BY DrawStep
  <2>3. Started(r)' <=> Started(r) BY <1>0, <2>1 DEF Started, Ds
  <2>4. \A y \in Ctas : NextId(r, y)' = NextId(r, y) BY <1>0, <2>1, <2>2 DEF NextId, First
  <2>5. \A y \in Ctas, t \in Threads : Rests(r, y, t)' <=> Rests(r, y, t)
    BY <1>0, <2>1 DEF Rests, Idle
  <2> QED BY <1>0, <2>3, <2>4, <2>5 DEF Done, Exhausted
<1>5. Started(q)'
  <2>0. Ds(q, x) \in Seq(Nat) BY DEF Types, Ds
  <2>1. Len(Ds(q, x)') = Len(Ds(q, x)) + 1 /\ Len(Ds(q, x)) \in Nat BY <2>0, DrawStep
  <2>2. Ds(q, x)' # <<>> BY <2>1
  <2> QED BY <1>0, <2>2 DEF Started
<1>6. \A r \in Calls : Latest(r)' <=> r = q BY <1>0, <1>0a, <1>3, <1>4, <1>5 DEF Latest
<1>7. Turns'
  <2>1. \A r, b \in Calls : Started(r)' /\ b < r => Done(b)'
    <3> SUFFICES ASSUME NEW r \in Calls, NEW b \in Calls, Started(r)', b < r PROVE Done(b)' OBVIOUS
    <3>1. CASE r = q
      <4>1. b \in 1..q - 1 BY <1>0a, <3>1
      <4> QED BY <1>0a, <1>2, <1>4, <3>1, <4>1
    <3>2. CASE r # q
      <4>1. Started(r) /\ Done(b) BY <1>4, <3>2 DEF Turns
      <4>2. b # q BY <1>3, <4>1
      <4> QED BY <1>4, <4>1, <4>2
    <3> QED BY <3>1, <3>2
  <2> QED BY <1>0, <2>1 DEF Turns
<1>9. Holds'
  <2>1. \A r \in Calls, y \in Ctas : Th(r, y, 0).at >= Granted =>
          /\ TileOf(Ds(r, y)[Th(r, y, 0).item])' = TileOf(Ds(r, y)[Th(r, y, 0).item])
          /\ SplitOf(Ds(r, y)[Th(r, y, 0).item])' = SplitOf(Ds(r, y)[Th(r, y, 0).item])
    BY <1>0a, DrawAt
  <2>2. \A r \in Calls, y \in Ctas : Th(r, y, 0)' = Th(r, y, 0) BY <1>0a, <1>1
  <2> QED BY <1>0, <2>1, <2>2 DEF Holds, Granted
<1>10. Released'
  <2>1. ~\A r \in Calls : ~Started(r)' BY <1>5
  <2>2. ASSUME NEW tile \in Tiles PROVE Half(q, tile)' \/ Whole(q, tile)'
    <3>0. flag[tile] \in Nat BY DEF Types
    <3>1. CASE Started(q)
      <4>1. Half(q, tile) \/ Whole(q, tile) BY <1>3, <3>1 DEF Released, Latest
      <4> QED BY <1>0, <4>1, DrawFin DEF Half, Whole
    <3>2. CASE ~Started(q)
      <4>1. \A s : ~FinSplit(q, tile, s)
        BY <3>2 DEF Started, FinSplit, On
      <4>2. flag[tile] = 0
        <5>1. CASE \A r \in Calls : ~Started(r) BY <5>1 DEF Released
        <5>2. CASE \E r \in Calls : Started(r)
          <6>1. PICK r \in Calls : Started(r) BY <5>2
          <6>2. r < q BY <1>0a, <1>3, <3>2, <6>1
          <6>3. q - 1 \in Calls /\ q - 1 \in 1..q - 1
            <7>1. launch.calls \in Nat /\ Calls = 1..launch.calls BY DEF Types, LaunchType, Calls
            <7>2. r \in Nat \ {0} /\ q \in Nat \ {0} /\ q <= launch.calls BY <1>0a, <7>1
            <7> QED BY <6>2, <7>1, <7>2
          <6>4. Done(q - 1) BY <1>2, <6>3
          <6>5. /\ Started(q - 1)
                /\ \A s \in 0..S - 1 : FinSplit(q - 1, tile, s)
            BY <6>3, <6>4, DoneIsFinished
          <6>6. Latest(q - 1) BY <1>0a, <1>3, <3>2, <6>3, <6>5 DEF Latest
          <6>7. Half(q - 1, tile) \/ Whole(q - 1, tile) BY <6>3, <6>6 DEF Released
          <6>8. ~Half(q - 1, tile)
            <7>1. flag[tile] < S => flag[tile] \in 0..S - 1 BY <1>0a, <3>0
            <7> QED BY <3>0, <6>5, <7>1 DEF Half
          <6> QED BY <6>7, <6>8 DEF Whole
        <5> QED BY <5>1, <5>2
      <4>3. \A s : ~FinSplit(q, tile, s)' BY <4>1, DrawFin
      <4> QED BY <1>0, <1>0a, <4>2, <4>3 DEF Half
    <3> QED BY <3>1, <3>2
  <2> QED BY <1>0, <1>6, <2>1, <2>2 DEF Released
<1> QED BY <1>7, <1>9, <1>10

-----------------------------------------------------------------------------
(* The steps of a thread, as the proof needs them.                         *)
Quiet(q, x, t) ==
  /\ UNCHANGED <<flag, stripe, issued, result>>
  /\ Th(q, x, t)'.item = Th(q, x, t).item
  /\ Th(q, x, t).at < Collect <=> Th(q, x, t)'.at < Collect
  /\ Th(q, x, t)'.at > Granted =>
       \/ Th(q, x, t).at > Granted
       \/ ~Waits(Split(<<q, x, t>>))
       \/ \A u \in Threads : Beyond(Th(q, x, u), Th(q, x, t).item, Granted)
  /\ Th(q, x, t)'.at = Publish =>
       \A u \in Threads : Beyond(Th(q, x, u), Th(q, x, t).item, Collect)
  /\ t = 0 /\ Th(q, x, t)'.at >= Granted =>
       \/ Th(q, x, t).at >= Granted
       \/ ~Waits(Split(<<q, x, t>>))
       \/ Split(<<q, x, t>>) = 0
       \/ flag[Tile(<<q, x, t>>)] = Split(<<q, x, t>>)
Adds(q, x, t) ==
  /\ UNCHANGED <<flag, stripe>>
  /\ Th(q, x, t)'.item = Th(q, x, t).item /\ Th(q, x, t).at = Contribute /\ Th(q, x, t)'.at = Collect
Commits(q, x, t) ==
  /\ Adds(q, x, t) /\ Split(<<q, x, t>>) # S - 1 /\ result' = result
  /\ issued' = issued \cup {[by |-> <<q, x, t>>, item |-> Th(q, x, t).item,
                             tile |-> Tile(<<q, x, t>>), split |-> Split(<<q, x, t>>)]}
Finalizes(q, x, t) ==
  /\ Adds(q, x, t) /\ Split(<<q, x, t>>) = S - 1 /\ issued' = issued
  /\ result' = [result EXCEPT ![q][Tile(<<q, x, t>>)][t] =
                  Append(stripe[Tile(<<q, x, t>>)][t], <<q, Split(<<q, x, t>>)>>)]
Releases(q, x, t) ==
  /\ UNCHANGED <<stripe, issued, result>>
  /\ Th(q, x, t).at = Publish
  /\ Th(q, x, t)'.item = Th(q, x, t).item + 1 /\ Th(q, x, t)'.at = Idle
  /\ IF t = 0 THEN /\ Performed(<<q, x, t>>)
                   /\ flag' = [flag EXCEPT ![Tile(<<q, x, t>>)] =
                                 NewFlag(Split(<<q, x, t>>), flag[Tile(<<q, x, t>>)])]
              ELSE flag' = flag

(* The barrier, in the terms of the invariant.                             *)
LEMMA AllBeyond ==
  ASSUME NEW q \in Calls, NEW x \in Ctas, NEW t \in Threads, NEW where, AllAt(<<q, x, t>>, where)
  PROVE \A u \in Threads : Beyond(Th(q, x, u), Th(q, x, t).item, where)
<1> DEFINE p == <<q, x, t>>
<1>1. p[1] = q /\ p[2] = x /\ thread[p] = Th(q, x, t) BY DEF Th
<1> QED BY <1>1 DEF AllAt, Beyond, Th

(* A thread moves quietly, commits, finalizes or releases.                 *)
LEMMA ThreadCases ==
  ASSUME DrawInv, NEW q \in Calls, NEW x \in Ctas, NEW t \in Threads, ThreadNext(<<q, x, t>>)
  PROVE Quiet(q, x, t) \/ Commits(q, x, t) \/ Finalizes(q, x, t) \/ Releases(q, x, t)
<1> DEFINE p == <<q, x, t>>
<1>1. p \in Calls \X Ctas \X Threads /\ p[1] = q /\ p[2] = x /\ p[3] = t /\ thread[p] = Th(q, x, t)
  BY DEF Th
<1>2. thread \in [Calls \X Ctas \X Threads -> [item : Nat \ {0}, at : Idle..Publish]]
  BY DEF DrawInv, Types
<1>3. ASSUME NEW from, NEW to, At(p, from), Go(p, to)
      PROVE Th(q, x, t).at = from /\ Th(q, x, t)'.at = to /\ Th(q, x, t)'.item = Th(q, x, t).item
  <2>1. thread'[p] = [thread[p] EXCEPT !.at = to] BY <1>1, <1>2, <1>3 DEF Go
  <2>2. thread[p] \in [item : Nat \ {0}, at : Idle..Publish] BY <1>1, <1>2
  <2>3. thread'[p].at = to /\ thread'[p].item = thread[p].item BY <2>1, <2>2
  <2> QED BY <1>1, <1>3, <2>3 DEF At, Th
<1>4. CASE Begin(p)
  <2>1. UNCHANGED <<flag, stripe, issued, result>> /\ At(p, Idle) BY <1>4 DEF Begin
  <2>2. CASE Waits(Split(p))
    <3>1. Go(p, Acquire) BY <1>4, <2>2 DEF Begin
    <3>2. Th(q, x, t).at = Idle /\ Th(q, x, t)'.at = Acquire /\ Th(q, x, t)'.item = Th(q, x, t).item
      BY <1>3, <2>1, <3>1
    <3> QED BY <2>1, <3>2 DEF Quiet, Idle, Acquire, Granted, Collect, Publish
  <2>3. CASE ~Waits(Split(p))
    <3>1. Go(p, Contribute) BY <1>4, <2>3 DEF Begin
    <3>2. Th(q, x, t).at = Idle /\ Th(q, x, t)'.at = Contribute /\ Th(q, x, t)'.item = Th(q, x, t).item
      BY <1>3, <2>1, <3>1
    <3> QED BY <2>1, <2>3, <3>2 DEF Quiet, Idle, Contribute, Granted, Collect, Publish
  <2> QED BY <2>2, <2>3
<1>5. CASE WaitEq(p)
  <2>1. UNCHANGED <<flag, stripe, issued, result>> /\ At(p, Acquire) /\ Go(p, Granted)
    BY <1>5 DEF WaitEq
  <2>2. t = 0 => Split(p) = 0 \/ flag[Tile(p)] = Split(p) BY <1>1, <1>5 DEF WaitEq, Elected, FlagGrants
  <2>3. Th(q, x, t).at = Acquire /\ Th(q, x, t)'.at = Granted /\ Th(q, x, t)'.item = Th(q, x, t).item
    BY <1>3, <2>1
  <2> QED BY <2>1, <2>2, <2>3 DEF Quiet, Acquire, Granted, Collect, Publish
<1>6. CASE WaitSync(p)
  <2>1. UNCHANGED <<flag, stripe, issued, result>> /\ At(p, Granted) /\ Go(p, Contribute) /\ AllAt(p, Granted)
    BY <1>6 DEF WaitSync
  <2>2. Th(q, x, t).at = Granted /\ Th(q, x, t)'.at = Contribute /\ Th(q, x, t)'.item = Th(q, x, t).item
    BY <1>3, <2>1
  <2>3. \A u \in Threads : Beyond(Th(q, x, u), Th(q, x, t).item, Granted) BY <2>1, AllBeyond
  <2> QED BY <2>1, <2>2, <2>3 DEF Quiet, Granted, Contribute, Collect, Publish
<1>7. CASE ReleaseSync(p)
  <2>1. UNCHANGED <<flag, stripe, issued, result>> /\ At(p, Collect) /\ Go(p, Publish) /\ AllAt(p, Collect)
    BY <1>7 DEF ReleaseSync, Collected
  <2>2. Th(q, x, t).at = Collect /\ Th(q, x, t)'.at = Publish /\ Th(q, x, t)'.item = Th(q, x, t).item
    BY <1>3, <2>1
  <2>3. \A u \in Threads : Beyond(Th(q, x, u), Th(q, x, t).item, Collect) BY <2>1, AllBeyond
  <2> QED BY <2>1, <2>2, <2>3 DEF Quiet, Granted, Collect, Publish
<1>8. CASE Commit(p)
  <2>1. UNCHANGED <<flag, stripe, result>> /\ At(p, Contribute) /\ Go(p, Collect) BY <1>8 DEF Commit
  <2>2. Adds(q, x, t) BY <1>3, <2>1 DEF Adds
  <2>3. /\ Split(p) # S - 1 /\ result' = result
        /\ issued' = issued \cup {[by |-> p, item |-> Th(q, x, t).item, tile |-> Tile(p), split |-> Split(p)]}
    BY <1>1, <1>8 DEF Commit, Last
  <2> QED BY <2>2, <2>3 DEF Commits
<1>9. CASE Finalize(p)
  <2>1. UNCHANGED <<flag, stripe, issued>> /\ At(p, Contribute) /\ Go(p, Collect) BY <1>9 DEF Finalize
  <2>2. Adds(q, x, t) BY <1>3, <2>1 DEF Adds
  <2>3. /\ Split(p) = S - 1 /\ issued' = issued
        /\ result' = [result EXCEPT ![q][Tile(p)][t] = Append(stripe[Tile(p)][t], <<q, Split(p)>>)]
    BY <1>1, <1>9 DEF Finalize, Last
  <2> QED BY <2>2, <2>3 DEF Finalizes
<1>10. CASE Release(p)
  <2>1. UNCHANGED <<stripe, issued, result>> /\ At(p, Publish) BY <1>10 DEF Release
  <2>2. thread' = [thread EXCEPT ![p] = [item |-> thread[p].item + 1, at |-> Idle]] BY <1>10 DEF Release
  <2>3. thread'[p] = [item |-> Th(q, x, t).item + 1, at |-> Idle] BY <1>1, <1>2, <2>2
  <2>4. IF t = 0 THEN /\ Performed(p)
                      /\ flag' = [flag EXCEPT ![Tile(p)] = NewFlag(Split(p), flag[Tile(p)])]
                 ELSE flag' = flag
    BY <1>1, <1>10 DEF Release, Elected
  <2>5. Th(q, x, t).at = Publish BY <1>1, <2>1 DEF At
  <2>6. Th(q, x, t)'.item = Th(q, x, t).item + 1 /\ Th(q, x, t)'.at = Idle BY <2>3 DEF Th
  <2> QED BY <2>1, <2>4, <2>5, <2>6 DEF Releases
<1> QED BY <1>4, <1>5, <1>6, <1>7, <1>8, <1>9, <1>10 DEF ThreadNext

(* The item a thread is at.                                                *)
LEMMA AtItem ==
  ASSUME DrawInv, NEW q \in Calls, NEW x \in Ctas, NEW t \in Threads,
         Th(q, x, t).item \in 1..Len(Ds(q, x))
  PROVE /\ Tile(<<q, x, t>>) = TileOf(Ds(q, x)[Th(q, x, t).item])
        /\ Split(<<q, x, t>>) = SplitOf(Ds(q, x)[Th(q, x, t).item])
        /\ Tile(<<q, x, t>>) \in Tiles /\ Split(<<q, x, t>>) \in 0..S - 1
        /\ On(q, x, Th(q, x, t).item, Tile(<<q, x, t>>), Split(<<q, x, t>>))
<1> DEFINE p == <<q, x, t>>
<1>1. p[1] = q /\ p[2] = x /\ thread[p] = Th(q, x, t) BY DEF Th
<1>2. Id(p) = Ds(q, x)[Th(q, x, t).item] BY <1>1 DEF Id, Ds
<1>3. Tile(p) = TileOf(Ds(q, x)[Th(q, x, t).item]) /\ Split(p) = SplitOf(Ds(q, x)[Th(q, x, t).item])
  BY <1>2 DEF Tile, Split
<1>4. Tile(p) \in Tiles /\ Split(p) \in 0..S - 1 BY <1>3, Drawn DEF DrawInv
<1> QED BY <1>3, <1>4 DEF On

(* A thread goes to the next item from Publish, and from nowhere else.     *)
LEMMA Forward ==
  ASSUME DrawInv, NEW q \in Calls, NEW x \in Ctas, NEW t \in Threads, ThreadNext(<<q, x, t>>)
  PROVE \/ Th(q, x, t)'.item = Th(q, x, t).item /\ Th(q, x, t).at # Publish
        \/ Th(q, x, t)'.item = Th(q, x, t).item + 1 /\ Th(q, x, t).at = Publish
<1>1. Th(q, x, t) \in [item : Nat \ {0}, at : Idle..Publish] BY DEF DrawInv, Types, Th
<1>2. thread'[<<q, x, t>>] \in [item : Nat \ {0}, at : Idle..Publish] BY ThreadStep DEF DrawInv
<1>3. Th(q, x, t)' \in [item : Nat \ {0}, at : Idle..Publish] BY <1>2 DEF Th
<1>4. \/ Th(q, x, t)'.item = Th(q, x, t).item /\ Th(q, x, t)'.at > Th(q, x, t).at
      \/ Th(q, x, t)'.item = Th(q, x, t).item + 1 /\ Th(q, x, t).at = Publish
  BY ThreadStep DEF DrawInv
<1> QED BY <1>1, <1>3, <1>4 DEF Idle, Publish

(* What becomes finished when a thread moves.                              *)
LEMMA ThreadFin ==
  ASSUME DrawInv, NEW q \in Calls, NEW x \in Ctas, NEW t \in Threads, ThreadNext(<<q, x, t>>),
         NEW r \in Calls, NEW y \in Ctas, NEW n \in Nat
  PROVE Fin(r, y, n)' <=> \/ Fin(r, y, n)
                          \/ /\ Th(q, x, t).at = Publish /\ t = 0 /\ r = q /\ y = x
                             /\ n = Th(q, x, t).item
<1>0. 0 \in Threads BY ThreadsAssumption
<1>1. Th(q, x, t).item \in Nat /\ Th(r, y, 0).item \in Nat BY <1>0 DEF DrawInv, Types, Th
<1>2. CASE t = 0 /\ r = q /\ y = x
  <2>1. \/ Th(q, x, t)'.item = Th(q, x, t).item /\ Th(q, x, t).at # Publish
        \/ Th(q, x, t)'.item = Th(q, x, t).item + 1 /\ Th(q, x, t).at = Publish
    BY Forward
  <2> QED BY <1>1, <1>2, <2>1 DEF Fin
<1>3. CASE ~(t = 0 /\ r = q /\ y = x)
  <2>1. Th(r, y, 0)' = Th(r, y, 0) BY <1>0, <1>3, ThreadStep DEF DrawInv
  <2> QED BY <1>3, <2>1 DEF Fin
<1> QED BY <1>2, <1>3

(* A thread past a barrier has its group behind it.                        *)
LEMMA ThreadKeepsGroup ==
  ASSUME DrawInv, Group, Entered, NEW q \in Calls, NEW x \in Ctas, NEW t \in Threads,
         ThreadNext(<<q, x, t>>)
  PROVE Group' /\ Entered'
<1>0. /\ Calls' = Calls /\ Ctas' = Ctas /\ S' = S /\ launch' = launch /\ drawn' = drawn
      /\ (Serial' <=> Serial)
  BY ThreadStep, Same DEF DrawInv
<1>0a. Th(q, x, t).item \in 1..Len(Ds(q, x)) BY ThreadStep DEF DrawInv
<1>0b. Split(<<q, x, t>>) = SplitOf(Ds(q, x)[Th(q, x, t).item]) BY <1>0a, AtItem
<1>1. ASSUME NEW r \in Calls, NEW y \in Ctas, NEW u \in Threads, NEW v \in Threads
      PROVE /\ Th(r, y, u)'.at > Granted /\ Waits(SplitOf(Ds(r, y)[Th(r, y, u)'.item])) =>
                 Beyond(Th(r, y, v)', Th(r, y, u)'.item, Granted)
            /\ Th(r, y, u)'.at = Publish => Beyond(Th(r, y, v)', Th(r, y, u)'.item, Collect)
            /\ Th(r, y, u)'.item > 1 => Beyond(Th(r, y, v)', Th(r, y, u)'.item - 1, Collect)
  <2>1. Th(r, y, u) \in [item : Nat \ {0}, at : Idle..Publish] BY DEF DrawInv, Types, Th
  <2>2. Granted \in Idle..Publish /\ Collect \in Idle..Publish BY DEF Granted, Collect, Idle, Publish
  <2>3. /\ Th(r, y, u).at > Granted /\ Waits(SplitOf(Ds(r, y)[Th(r, y, u).item])) =>
             Beyond(Th(r, y, v), Th(r, y, u).item, Granted)
        /\ Th(r, y, u).at = Publish => Beyond(Th(r, y, v), Th(r, y, u).item, Collect)
        /\ Th(r, y, u).item > 1 => Beyond(Th(r, y, v), Th(r, y, u).item - 1, Collect)
    BY DEF Group, Entered
  <2>4. \A n \in Int : /\ Beyond(Th(r, y, v), n, Granted) => Beyond(Th(r, y, v)', n, Granted)
                       /\ Beyond(Th(r, y, v), n, Collect) => Beyond(Th(r, y, v)', n, Collect)
    BY <2>2, Onwards
  <2>5. CASE r # q \/ y # x \/ u # t
    <3>1. Th(r, y, u)' = Th(r, y, u) BY <2>5, ThreadStep DEF DrawInv
    <3> QED BY <2>1, <2>3, <2>4, <3>1
  <2>6. CASE r = q /\ y = x /\ u = t
    <3>1. CASE Quiet(q, x, t)
      <4>1. Th(r, y, u)'.item = Th(r, y, u).item BY <2>6, <3>1 DEF Quiet
      <4>2. Th(r, y, u)'.at > Granted /\ Waits(SplitOf(Ds(r, y)[Th(r, y, u).item])) =>
              Beyond(Th(r, y, v), Th(r, y, u).item, Granted)
        BY <1>0b, <2>3, <2>6, <3>1 DEF Quiet
      <4>3. Th(r, y, u)'.at = Publish => Beyond(Th(r, y, v), Th(r, y, u).item, Collect)
        BY <2>6, <3>1 DEF Quiet
      <4> QED BY <2>1, <2>3, <2>4, <4>1, <4>2, <4>3
    <3>2. CASE Adds(q, x, t)
      <4>1. /\ Th(r, y, u)'.item = Th(r, y, u).item /\ Th(r, y, u).at = Contribute
            /\ Th(r, y, u)'.at = Collect
        BY <2>6, <3>2 DEF Adds
      <4>2. Th(r, y, u).at > Granted /\ Th(r, y, u)'.at # Publish BY <4>1 DEF Contribute, Granted, Collect, Publish
      <4> QED BY <2>1, <2>3, <2>4, <4>1, <4>2
    <3>3. CASE Releases(q, x, t)
      <4>1. /\ Th(r, y, u)'.item = Th(r, y, u).item + 1 /\ Th(r, y, u).at = Publish
            /\ Th(r, y, u)'.at = Idle
        BY <2>6, <3>3 DEF Releases
      <4>2. ~(Th(r, y, u)'.at > Granted) /\ Th(r, y, u)'.at # Publish BY <4>1 DEF Granted, Idle, Publish
      <4>3. Th(r, y, u)'.item - 1 = Th(r, y, u).item BY <2>1, <4>1
      <4> QED BY <2>1, <2>3, <2>4, <4>1, <4>2, <4>3
    <3> QED BY <3>1, <3>2, <3>3, ThreadCases DEF Commits, Finalizes
  <2> QED BY <2>5, <2>6
<1>2. Group' BY <1>0, <1>1 DEF Group, Collect, Publish, Beyond
<1>3. \A r \in Calls, y \in Ctas, u \in Threads :
        Waits(SplitOf(Ds(r, y)[Th(r, y, u).item]))' <=> Waits(SplitOf(Ds(r, y)[Th(r, y, u)'.item]))
  BY <1>0 DEF Waits, Last, Ds, SplitOf, S
<1>4. Entered' BY <1>0, <1>1, <1>3 DEF Entered, Granted, Beyond
<1> QED BY <1>2, <1>4

(* A thread takes the flag at its split, and hands it on.                  *)
LEMMA ThreadKeepsFlag ==
  ASSUME DrawInv, Ordered, FlagInv, NEW q \in Calls, NEW x \in Ctas, NEW t \in Threads,
         ThreadNext(<<q, x, t>>)
  PROVE FlagInv'
<1> DEFINE p == <<q, x, t>>
<1> USE DEF FlagInv
<1>0. /\ Calls' = Calls /\ Ctas' = Ctas /\ Tiles' = Tiles /\ S' = S /\ NumWork' = NumWork
      /\ launch' = launch /\ drawn' = drawn /\ counter' = counter
  BY ThreadStep, Same DEF DrawInv
<1>0a. 0 \in Threads /\ S \in Nat /\ S > 1 BY Sizes DEF DrawInv
<1>1. PICK n \in 1..Len(Ds(q, x)) : n = Th(q, x, t).item BY ThreadStep DEF DrawInv
<1>2. PICK tile \in Tiles, s \in 0..S - 1 :
        /\ tile = TileOf(Ds(q, x)[n]) /\ s = SplitOf(Ds(q, x)[n])
        /\ On(q, x, n, tile, s) /\ tile = Tile(p) /\ s = Split(p)
  BY <1>1, AtItem
<1>3. Started(q) /\ ~Done(q)
  <2>1. Th(q, x, t).item <= n BY <1>1
  <2> QED BY <1>1, <2>1, StepIsActive
<1>4. Latest(q) /\ \A r \in Calls : Latest(r) => r = q BY <1>3, ActiveIsLatest
<1>5. \A r \in Calls, y \in Ctas : Ds(r, y)' = Ds(r, y) BY <1>0 DEF Ds
<1>6. \A r \in Calls : Started(r)' <=> Started(r) BY <1>0, <1>5 DEF Started
<1>7. Turns'
  <2>1. \A r \in Calls : r # q /\ Done(r) => Done(r)'
    <3> SUFFICES ASSUME NEW r \in Calls, r # q, Done(r) PROVE Done(r)' OBVIOUS
    <3>1. \A y \in Ctas : NextId(r, y)' = NextId(r, y) BY <1>0 DEF NextId, First
    <3>2. \A y \in Ctas, u \in Threads : Th(r, y, u)' = Th(r, y, u) BY ThreadStep DEF DrawInv
    <3>3. \A y \in Ctas, u \in Threads : Rests(r, y, u)' <=> Rests(r, y, u)
      BY <1>0, <3>2 DEF Rests, Th, Idle
    <3> QED BY <1>0, <3>1, <3>3 DEF Done, Exhausted
  <2>2. \A r, b \in Calls : Started(r)' /\ b < r => Done(b)' BY <1>3, <1>6, <2>1 DEF Turns
  <2> QED BY <1>0, <2>2 DEF Turns
<1>9. \A r \in Calls, y \in Ctas : r # q \/ y # x \/ t # 0 => Th(r, y, 0)' = Th(r, y, 0)
  BY <1>0a, ThreadStep DEF DrawInv
<1>10. \A id : TileOf(id)' = TileOf(id) /\ SplitOf(id)' = SplitOf(id)
  BY <1>0 DEF TileOf, SplitOf, S
<1>11. Th(q, x, t) \in [item : Nat \ {0}, at : Idle..Publish] BY DEF DrawInv, Types, Th
<1>12. CASE ~(Releases(q, x, t) /\ t = 0)
  <2>1. flag' = flag /\ (t = 0 => Th(q, x, t)'.item = n /\ Th(q, x, t).at # Publish)
    <3>1. flag' = flag BY <1>12, ThreadCases DEF Quiet, Commits, Finalizes, Adds, Releases
    <3>2. t = 0 => Th(q, x, t).at # Publish
      <4>1. t = 0 => Quiet(q, x, t) \/ Adds(q, x, t) BY <1>12, ThreadCases DEF Commits, Finalizes
      <4>2. t = 0 => Th(q, x, t)'.item = n BY <1>1, <4>1 DEF Quiet, Adds
      <4> QED BY <1>1, <4>2, Forward
    <3> QED BY <1>1, <3>1, <3>2, Forward
  <2>2. Holds'
    <3>1. ASSUME NEW r \in Calls, NEW y \in Ctas, Th(r, y, 0)'.at >= Granted
          PROVE flag[TileOf(Ds(r, y)[Th(r, y, 0)'.item])] = SplitOf(Ds(r, y)[Th(r, y, 0)'.item])
      <4>1. CASE r # q \/ y # x \/ t # 0 BY <1>9, <3>1, <4>1 DEF Holds
      <4>2. CASE r = q /\ y = x /\ t = 0
        <5>1. Th(q, x, 0)'.item = n /\ Th(q, x, 0).item = n BY <1>1, <2>1, <4>2
        <5>2. flag[tile] = s
          <6>1. CASE Th(q, x, 0).at >= Granted
            <7>1. flag[TileOf(Ds(q, x)[Th(q, x, 0).item])] = SplitOf(Ds(q, x)[Th(q, x, 0).item])
              BY <6>1 DEF Holds
            <7> QED BY <1>2, <5>1, <7>1
          <6>2. CASE ~(Th(q, x, 0).at >= Granted)
            <7>1. s = 0 \/ flag[tile] = s
              <8>1. Quiet(q, x, t) \/ Adds(q, x, t) BY <1>12, <4>2, ThreadCases DEF Commits, Finalizes
              <8>2. CASE Quiet(q, x, t) BY <1>2, <3>1, <4>2, <6>2, <8>2 DEF Quiet, Waits, Ordered
              <8>3. CASE Adds(q, x, t) BY <4>2, <6>2, <8>3 DEF Adds, Contribute, Granted
              <8> QED BY <8>1, <8>2, <8>3
            <7>2. CASE s = 0
              <8>1. ~FinSplit(q, tile, 0)
                <9>1. \A y1 \in Ctas : \A m : On(q, y1, m, tile, 0) => y1 = x /\ m = n
                  BY <1>2, <7>2, ItemIsOne
                <9>2. ~Fin(q, x, n) BY <1>1, <1>11, <4>2 DEF Fin
                <9> QED BY <9>1, <9>2 DEF FinSplit
              <8>2. Half(q, tile) \/ Whole(q, tile) BY <1>2, <1>4 DEF Released
              <8>3. 0 \in 0..S - 1 /\ flag[tile] \in Nat BY <1>0a, <1>2 DEF DrawInv, Types
              <8> QED BY <7>2, <8>1, <8>2, <8>3 DEF Half, Whole
            <7> QED BY <7>1, <7>2
          <6> QED BY <6>1, <6>2
        <5> QED BY <1>2, <4>2, <5>1, <5>2
      <4> QED BY <4>1, <4>2
    <3>2. \A r \in Calls, y \in Ctas :
            (flag[TileOf(Ds(r, y)[Th(r, y, 0).item])] = SplitOf(Ds(r, y)[Th(r, y, 0).item]))'
              <=> flag[TileOf(Ds(r, y)[Th(r, y, 0)'.item])] = SplitOf(Ds(r, y)[Th(r, y, 0)'.item])
      BY <1>0, <2>1 DEF TileOf, SplitOf, S, Ds
    <3> QED BY <1>0, <3>1, <3>2 DEF Holds, Granted
  <2>3. \A r \in Calls : \A tl, sp : FinSplit(r, tl, sp)' <=> FinSplit(r, tl, sp)
    <3> SUFFICES ASSUME NEW r \in Calls, NEW tl, NEW sp
                 PROVE FinSplit(r, tl, sp)' <=> FinSplit(r, tl, sp)
      OBVIOUS
    <3>1. \A y \in Ctas : \A m \in 1..Len(Ds(r, y)) : Fin(r, y, m)' <=> Fin(r, y, m)
      <4>1. \A y \in Ctas : \A m \in 1..Len(Ds(r, y)) : m \in Nat OBVIOUS
      <4> QED BY <2>1, <4>1, ThreadFin
    <3>2. \A y, m : On(r, y, m, tl, sp)' = On(r, y, m, tl, sp) BY <1>0, OnSame
    <3> QED BY <1>0, <1>5, <3>1, <3>2 DEF FinSplit
  <2>4. Released' BY <1>0, <1>6, <2>1, <2>3 DEF Released, Latest, Half, Whole
  <2> QED BY <1>7, <2>2, <2>4
<1>13. CASE Releases(q, x, t) /\ t = 0
  <2>1. /\ Th(q, x, 0).at = Publish /\ Th(q, x, 0)'.at = Idle /\ Th(q, x, 0)'.item = n + 1
        /\ flag' = [flag EXCEPT ![tile] = NewFlag(s, flag[tile])]
    BY <1>1, <1>2, <1>13 DEF Releases
  <2>2. flag[tile] = s
    <3>1. Th(q, x, 0).item = n /\ Th(q, x, 0).at >= Granted
      BY <1>1, <1>13, <2>1 DEF Publish, Granted
    <3>2. flag[TileOf(Ds(q, x)[Th(q, x, 0).item])] = SplitOf(Ds(q, x)[Th(q, x, 0).item])
      BY <3>1 DEF Holds
    <3> QED BY <1>2, <3>1, <3>2
  <2>3. flag \in [Tiles -> Nat] BY DEF DrawInv, Types
  <2>4. /\ flag'[tile] = IF s = S - 1 THEN 0 ELSE s + 1
        /\ \A tl \in Tiles : tl # tile => flag'[tl] = flag[tl]
    BY <1>2, <2>1, <2>3 DEF NewFlag, Last, Ordered
  <2>5. Holds'
    <3>1. ASSUME NEW r \in Calls, NEW y \in Ctas, Th(r, y, 0)'.at >= Granted
          PROVE flag'[TileOf(Ds(r, y)[Th(r, y, 0).item])] = SplitOf(Ds(r, y)[Th(r, y, 0).item])
                /\ Th(r, y, 0)' = Th(r, y, 0)
      <4>1. r # q \/ y # x BY <1>13, <2>1, <3>1 DEF Idle, Granted
      <4>2. Th(r, y, 0)' = Th(r, y, 0) /\ Th(r, y, 0).at >= Granted BY <1>9, <3>1, <4>1
      <4> DEFINE m == Th(r, y, 0).item
      <4>3. m \in 1..Len(Ds(r, y))
        <5>1. Th(r, y, 0) \in [item : Nat \ {0}, at : Idle..Publish] BY <1>0a DEF DrawInv, Types, Th
        <5>2. Th(r, y, 0).at # Idle BY <4>2, <5>1 DEF Idle, Granted, Publish
        <5>3. m <= Len(Ds(r, y)) BY <1>0a, <5>2 DEF DrawInv, Bounds
        <5>4. Len(Ds(r, y)) \in Nat BY DEF DrawInv, Types, Ds
        <5> QED BY <5>1, <5>3, <5>4
      <4>4. flag[TileOf(Ds(r, y)[m])] = SplitOf(Ds(r, y)[m]) BY <4>2 DEF Holds
      <4>5. TileOf(Ds(r, y)[m]) \in Tiles BY <4>3, Drawn DEF DrawInv
      <4>6. TileOf(Ds(r, y)[m]) # tile
        <5> SUFFICES ASSUME TileOf(Ds(r, y)[m]) = tile PROVE FALSE OBVIOUS
        <5>1. SplitOf(Ds(r, y)[m]) = s BY <2>2, <4>4
        <5>2. On(r, y, m, tile, s) BY <4>3, <5>1 DEF On
        <5>3. m <= m BY <4>3
        <5>4. Started(r) /\ ~Done(r) BY <1>0a, <4>3, <5>3, StepIsActive
        <5>5. r = q BY <1>4, <5>4, ActiveIsLatest
        <5>6. y = x BY <1>2, <5>2, <5>5, ItemIsOne
        <5> QED BY <4>1, <5>5, <5>6
      <4> QED BY <2>4, <4>2, <4>4, <4>5, <4>6
    <3>2. \A r \in Calls, y \in Ctas :
            (flag[TileOf(Ds(r, y)[Th(r, y, 0).item])] = SplitOf(Ds(r, y)[Th(r, y, 0).item]))'
              <=> flag'[TileOf(Ds(r, y)[Th(r, y, 0)'.item])] = SplitOf(Ds(r, y)[Th(r, y, 0)'.item])
      BY <1>0 DEF TileOf, SplitOf, S, Ds
    <3>3. \A r \in Calls, y \in Ctas : Th(r, y, 0)'.at >= Granted =>
            flag'[TileOf(Ds(r, y)[Th(r, y, 0)'.item])] = SplitOf(Ds(r, y)[Th(r, y, 0)'.item])
      BY <3>1
    <3> QED BY <1>0, <3>2, <3>3 DEF Holds, Granted
  <2>6. \A r \in Calls : \A tl, sp :
          FinSplit(r, tl, sp)' <=> FinSplit(r, tl, sp) \/ (r = q /\ tl = tile /\ sp = s)
    <3> SUFFICES ASSUME NEW r \in Calls, NEW tl, NEW sp
                 PROVE FinSplit(r, tl, sp)' <=> FinSplit(r, tl, sp) \/ (r = q /\ tl = tile /\ sp = s)
      OBVIOUS
    <3>1. \A y \in Ctas : \A m \in 1..Len(Ds(r, y)) :
            Fin(r, y, m)' <=> Fin(r, y, m) \/ (r = q /\ y = x /\ m = n)
      <4>1. \A y \in Ctas : \A m \in 1..Len(Ds(r, y)) : m \in Nat OBVIOUS
      <4> QED BY <1>1, <1>13, <2>1, <4>1, ThreadFin
    <3>2. \A y, m : On(r, y, m, tl, sp)' = On(r, y, m, tl, sp) BY <1>0, OnSame
    <3>3. FinSplit(r, tl, sp)' <=> \E y \in Ctas : \E m \in 1..Len(Ds(r, y)) :
            On(r, y, m, tl, sp) /\ (Fin(r, y, m) \/ (r = q /\ y = x /\ m = n))
      BY <1>0, <1>5, <3>1, <3>2 DEF FinSplit
    <3>4. On(q, x, n, tl, sp) <=> tl = tile /\ sp = s BY <1>1, <1>2 DEF On
    <3> QED BY <1>1, <3>3, <3>4 DEF FinSplit
  <2>7. ~FinSplit(q, tile, s)
    <3>1. \A y \in Ctas : \A m : On(q, y, m, tile, s) => y = x /\ m = n BY <1>2, ItemIsOne
    <3>2. ~Fin(q, x, n) BY <1>1, <1>11, <1>13 DEF Fin
    <3> QED BY <3>1, <3>2 DEF FinSplit
  <2>8. Half(q, tile)
    <3>1. Half(q, tile) \/ Whole(q, tile) BY <1>2, <1>4 DEF Released
    <3> QED BY <1>2, <2>7, <3>1 DEF Whole
  <2>9. \A sp \in 0..S - 1 : FinSplit(q, tile, sp)' <=> sp <= s
    BY <1>2, <2>2, <2>6, <2>8 DEF Half
  <2>10. Half(q, tile)' \/ Whole(q, tile)'
    <3>1. CASE s = S - 1
      <4>1. flag'[tile] = 0 /\ \A sp \in 0..S - 1 : FinSplit(q, tile, sp)' BY <1>0a, <2>4, <2>9, <3>1
      <4> QED BY <1>0, <4>1 DEF Whole
    <3>2. CASE s # S - 1
      <4>1. flag'[tile] = s + 1 /\ s + 1 < S BY <1>0a, <1>2, <2>4, <3>2
      <4>2. \A sp \in 0..S - 1 : FinSplit(q, tile, sp)' <=> sp < flag'[tile]
        BY <1>0a, <1>2, <2>9, <4>1
      <4> QED BY <1>0, <4>1, <4>2 DEF Half
    <3> QED BY <3>1, <3>2
  <2>11. \A tl \in Tiles : tl # tile => Half(q, tl)' \/ Whole(q, tl)'
    <3> SUFFICES ASSUME NEW tl \in Tiles, tl # tile PROVE Half(q, tl)' \/ Whole(q, tl)' OBVIOUS
    <3>1. Half(q, tl) \/ Whole(q, tl) BY <1>4 DEF Released
    <3>2. flag'[tl] = flag[tl] BY <2>4
    <3>3. \A sp : FinSplit(q, tl, sp)' <=> FinSplit(q, tl, sp) BY <2>6
    <3> QED BY <1>0, <3>1, <3>2, <3>3 DEF Half, Whole
  <2>12. \A r \in Calls : Latest(r)' <=> Latest(r) BY <1>0, <1>6 DEF Latest
  <2>13. ~\A r \in Calls : ~Started(r)' BY <1>3, <1>6
  <2>14. Released' BY <1>0, <1>4, <2>10, <2>11, <2>12, <2>13 DEF Released
  <2> QED BY <1>7, <2>5, <2>14
<1> QED BY <1>12, <1>13

-----------------------------------------------------------------------------
(* Who commits a partial is within its turn: a part's item that is not     *)
(* released is the one the flag is at.                                     *)
LEMMA AddedIsAtFlag ==
  ASSUME DrawInv, Ordered, GroupInv, FlagInv, NEW q \in Calls, NEW x \in Ctas, NEW t \in Threads,
         NEW n \in 1..Len(Ds(q, x)), NEW tile, NEW s, On(q, x, n, tile, s),
         Beyond(Th(q, x, t), n, Collect), ~Fin(q, x, n)
  PROVE /\ Th(q, x, 0).item = n /\ flag[tile] = s
        /\ Latest(q) /\ \A r \in Calls : Latest(r) => r = q
<1>1. n \in Nat \ {0} /\ 0 \in Threads BY ThreadsAssumption
<1>1a. Th(q, x, t) \in [item : Nat \ {0}, at : Idle..Publish] BY DEF DrawInv, Types, Th
<1>2. Beyond(Th(q, x, t), n, Contribute) BY <1>1a DEF Beyond, Contribute, Collect, Idle, Publish
<1>3. Th(q, x, 0).item = n /\ flag[tile] = s
  <2>1. Th(q, x, 0).item = n /\ Th(q, x, 0).at >= Granted
    BY <1>1, <1>2, Within DEF GroupInv, Waits, Ordered
  <2> QED BY <2>1 DEF FlagInv, Holds, On
<1>4. Th(q, x, 0).item <= n BY <1>3
<1>5. Started(q) /\ ~Done(q) BY <1>1, <1>4, StepIsActive
<1> QED BY <1>3, <1>5, ActiveIsLatest DEF FlagInv

(* A draw leaves what the stripes hold.                                    *)
LEMMA DrawKeepsPart ==
  ASSUME DrawInv, Ordered, FlagInv, PartInv, NEW q \in Calls, NEW x \in Ctas, Draw(q, x)
  PROVE PartInv'
<1> USE DEF PartInv
<1>0. /\ Calls' = Calls /\ Ctas' = Ctas /\ Tiles' = Tiles /\ S' = S /\ launch' = launch
      /\ thread' = thread /\ flag' = flag /\ issued' = issued /\ stripe' = stripe /\ result' = result
  BY DrawStep, Same DEF DrawInv
<1>0a. S \in Nat /\ S > 1 /\ 0 \in Threads BY Sizes DEF DrawInv
<1>1. FlagInv' /\ DrawInv' BY DrawKeepsFlag, DrawKeepsDraw
<1>2. Results' BY <1>0 DEF Results, Run
<1>4. ASSUME NEW r \in Calls, Latest(r)', NEW tile \in Tiles, NEW t \in Threads,
             NEW k \in Nat, flag[tile] = k
      PROVE /\ \A y \in Ctas : \A n \in 1..Len(Ds(r, y)') :
                 On(r, y, n, tile, k)' /\ k < S - 1 /\ ~Fin(r, y, n) /\ Added(r, y, n, t)
                 => stripe[tile][t] = Run(r, k + 1)
            /\ /\ k > 0
               /\ \A y \in Ctas : \A n \in 1..Len(Ds(r, y)') :
                    On(r, y, n, tile, k)' /\ k < S - 1 => ~Added(r, y, n, t)
               => stripe[tile][t] = Run(r, k)
  <2>1. \A y \in Ctas : \A n : On(r, y, n, tile, k)' /\ Added(r, y, n, t) => On(r, y, n, tile, k)
    <3> SUFFICES ASSUME NEW y \in Ctas, NEW n, On(r, y, n, tile, k)', Added(r, y, n, t)
                 PROVE On(r, y, n, tile, k)
      OBVIOUS
    <3>1. Beyond(Th(r, y, t), n, Collect) BY DEF Added
    <3> QED BY <3>1, DrawOn
  <2>2. CASE Latest(r)
    <3>1. \A y \in Ctas : \A n : On(r, y, n, tile, k) => n \in 1..Len(Ds(r, y)) BY DEF On
    <3>2. \A y \in Ctas : \A n : On(r, y, n, tile, k) => On(r, y, n, tile, k)' BY DrawOn
    <3>3. \A y \in Ctas : \A n \in 1..Len(Ds(r, y)) :
             On(r, y, n, tile, k) /\ k < S - 1 /\ ~Fin(r, y, n) /\ Added(r, y, n, t)
             => stripe[tile][t] = Run(r, k + 1)
      BY <1>4, <2>2 DEF Parts
    <3>4. /\ k > 0
          /\ \A y \in Ctas : \A n \in 1..Len(Ds(r, y)) :
               On(r, y, n, tile, k) /\ k < S - 1 => ~Added(r, y, n, t)
          => stripe[tile][t] = Run(r, k)
      BY <1>4, <2>2 DEF Parts
    <3>5. \A y \in Ctas : \A n : On(r, y, n, tile, k)' => n \in 1..Len(Ds(r, y)') BY DEF On
    <3>6. \A y \in Ctas : \A n \in 1..Len(Ds(r, y)') :
             On(r, y, n, tile, k)' /\ k < S - 1 /\ ~Fin(r, y, n) /\ Added(r, y, n, t)
             => stripe[tile][t] = Run(r, k + 1)
      BY <2>1, <3>1, <3>3
    <3>7. (\A y \in Ctas : \A n \in 1..Len(Ds(r, y)') :
             On(r, y, n, tile, k)' /\ k < S - 1 => ~Added(r, y, n, t))
          => \A y \in Ctas : \A n \in 1..Len(Ds(r, y)) :
               On(r, y, n, tile, k) /\ k < S - 1 => ~Added(r, y, n, t)
      BY <3>2, <3>5
    <3> QED BY <3>4, <3>6, <3>7
  <2>3. CASE ~Latest(r)
    <3>1. \A y \in Ctas : \A n, tl, sp : ~On(r, y, n, tl, sp)
      <4> SUFFICES ASSUME NEW y \in Ctas, NEW n, NEW tl, NEW sp, On(r, y, n, tl, sp) PROVE FALSE
        OBVIOUS
      <4>1. Started(r) BY DEF On, Started
      <4>2. \A b \in Calls : Started(b) => Started(b)'
        <5> TAKE b \in Calls
        <5>1. \A z \in Ctas : Ds(b, z) # <<>> => Ds(b, z)' # <<>>
          <6> TAKE z \in Ctas
          <6>1. CASE b = q /\ z = x
            <7>1. Len(Ds(q, x)') = Len(Ds(q, x)) + 1 /\ Len(Ds(q, x)) \in Nat
              <8>1. Types /\ Len(Ds(q, x)) \in Nat BY DEF DrawInv, Types, Ds
              <8> QED BY <8>1, DrawStep
            <7> QED BY <6>1, <7>1
          <6>2. CASE b # q \/ z # x BY <6>2, DrawStep DEF DrawInv
          <6> QED BY <6>1, <6>2
        <5> QED BY <1>0, <5>1 DEF Started
      <4>3. Latest(r) BY <1>0, <1>4, <4>1, <4>2 DEF Latest
      <4> QED BY <2>3, <4>3
    <3>2. ~FinSplit(r, tile, 0) BY <3>1 DEF FinSplit
    <3>3. ~FinSplit(r, tile, 0)' BY <3>2, DrawFin
    <3>4. Half(r, tile)' \/ Whole(r, tile)' BY <1>0, <1>1, <1>4 DEF FlagInv, Released
    <3>5. 0 \in 0..S - 1 BY <1>0a
    <3>6. k = 0 BY <1>0, <1>4, <3>3, <3>4, <3>5 DEF Half, Whole
    <3> QED BY <2>1, <3>1, <3>6
  <2> QED BY <2>2, <2>3
<1>5. \A r \in Calls, y \in Ctas, t \in Threads : \A n : Added(r, y, n, t)' <=> Added(r, y, n, t)
  BY <1>0 DEF Added, Beyond, Pending, Th, Collect
<1>6. \A r \in Calls, y \in Ctas : \A n : Fin(r, y, n)' <=> Fin(r, y, n) BY <1>0 DEF Fin, Th
<1>7. Parts'
  <2>1. ASSUME NEW r \in Calls, Latest(r)', NEW tile \in Tiles, NEW t \in Threads,
               NEW k \in Nat, flag[tile] = k
        PROVE /\ \A y \in Ctas : \A n \in 1..Len(Ds(r, y)') :
                   On(r, y, n, tile, k)' /\ k < S - 1 /\ ~Fin(r, y, n)' /\ Added(r, y, n, t)'
                   => stripe[tile][t] = Run(r, k + 1)
              /\ /\ k > 0
                 /\ \A y \in Ctas : \A n \in 1..Len(Ds(r, y)') :
                      On(r, y, n, tile, k)' /\ k < S - 1 => ~Added(r, y, n, t)'
                 => stripe[tile][t] = Run(r, k)
    <3> DEFINE Due(y, n) == On(r, y, n, tile, k)' /\ k < S - 1
    <3> DEFINE In(y) == 1..Len(Ds(r, y)')
    <3>1. /\ \A y \in Ctas : \A n \in In(y) :
               Due(y, n) /\ ~Fin(r, y, n) /\ Added(r, y, n, t) => stripe[tile][t] = Run(r, k + 1)
          /\ k > 0 /\ (\A y \in Ctas : \A n \in In(y) : Due(y, n) => ~Added(r, y, n, t))
             => stripe[tile][t] = Run(r, k)
      BY <1>4, <2>1
    <3>2. \A y \in Ctas : \A n : Fin(r, y, n)' <=> Fin(r, y, n) BY <1>6
    <3>2a. \A y \in Ctas : \A n : Added(r, y, n, t)' <=> Added(r, y, n, t) BY <1>5
    <3> HIDE DEF Due, In
    <3>3. ASSUME NEW y \in Ctas, NEW n \in In(y), Due(y, n), ~Fin(r, y, n)', Added(r, y, n, t)'
          PROVE stripe[tile][t] = Run(r, k + 1)
      <4>1. ~Fin(r, y, n) /\ Added(r, y, n, t) BY <3>2, <3>2a, <3>3
      <4> QED BY <3>1, <3>3, <4>1
    <3>4. ASSUME k > 0, \A y \in Ctas : \A n \in In(y) : Due(y, n) => ~Added(r, y, n, t)'
          PROVE stripe[tile][t] = Run(r, k)
      <4>1. \A y \in Ctas : \A n \in In(y) : Due(y, n) => ~Added(r, y, n, t) BY <3>2a, <3>4
      <4> QED BY <3>1, <3>4, <4>1
    <3> QED BY <3>3, <3>4 DEF Due, In
  <2> QED BY <1>0, <2>1 DEF Parts
<1> QED BY <1>2, <1>7

(* Performing a commit moves no flag and no thread.                        *)
LEMMA PerformKeepsFlag ==
  ASSUME DrawInv, FlagInv, NEW w \in issued, Perform(w)
  PROVE FlagInv'
<1>0. /\ launch' = launch /\ counter' = counter /\ drawn' = drawn /\ thread' = thread /\ flag' = flag
  BY DEF Perform
<1>1. Calls' = Calls /\ Ctas' = Ctas /\ Tiles' = Tiles /\ S' = S /\ NumWork' = NumWork
  BY <1>0, Same
<1>2. \A q \in Calls : (Started(q)' <=> Started(q)) BY <1>0, <1>1 DEF Started, Ds
<1>3. \A q \in Calls : (Done(q)' <=> Done(q))
  BY <1>0, <1>1 DEF Done, Exhausted, NextId, First, Rests, Idle
<1>4. Turns' BY <1>1, <1>2, <1>3 DEF FlagInv, Turns
<1>5. \A q \in Calls, x \in Ctas, t \in Threads : Th(q, x, t)' = Th(q, x, t) BY <1>0 DEF Th
<1>7. Holds' BY <1>0, <1>1 DEF FlagInv, Holds, Th, Ds, TileOf, SplitOf, S, Granted
<1>8. \A q, tile, s : FinSplit(q, tile, s)' <=> FinSplit(q, tile, s)
  <2>1. \A q, x, n, tile, s : On(q, x, n, tile, s)' = On(q, x, n, tile, s) BY <1>0, OnSame
  <2>2. \A q, x, n : Fin(q, x, n)' <=> Fin(q, x, n) BY <1>0 DEF Fin, Th
  <2>3. \A q, x : Ds(q, x)' = Ds(q, x) BY <1>0 DEF Ds
  <2> QED BY <1>1, <2>1, <2>2, <2>3 DEF FinSplit
<1>9. Released' BY <1>0, <1>1, <1>2, <1>8 DEF FlagInv, Released, Latest, Half, Whole
<1> QED BY <1>4, <1>7, <1>9 DEF FlagInv

(* Nor does it disturb what the barriers order.                            *)
LEMMA PerformKeepsGroup ==
  ASSUME DrawInv, GroupInv, NEW w \in issued, Perform(w)
  PROVE GroupInv'
<1>0. /\ launch' = launch /\ drawn' = drawn /\ thread' = thread /\ issued' = issued \ {w}
  BY DEF Perform
<1>1. Calls' = Calls /\ Ctas' = Ctas /\ S' = S /\ (Serial' <=> Serial) BY <1>0, Same
<1>2. \A q \in Calls, x \in Ctas, t \in Threads : Th(q, x, t)' = Th(q, x, t) BY <1>0 DEF Th
<1>3. Group' BY <1>1, <1>2 DEF GroupInv, Group, Beyond, Collect, Publish
<1>4. \A q \in Calls, x \in Ctas, t \in Threads :
        Waits(SplitOf(Ds(q, x)[Th(q, x, t).item]))' <=> Waits(SplitOf(Ds(q, x)[Th(q, x, t).item]))
  BY <1>0, <1>1 DEF Waits, Last, Ds, Th, SplitOf, S
<1>5. Entered' BY <1>1, <1>2, <1>4 DEF GroupInv, Entered, Beyond, Granted
<1>6. \A q, x, n, tile, s : On(q, x, n, tile, s)' <=> On(q, x, n, tile, s) BY <1>0, OnSame
<1>7. \A q, x, n : Fin(q, x, n)' <=> Fin(q, x, n) BY <1>0 DEF Fin, Th
<1>8. Issued' BY <1>0, <1>6, <1>7 DEF GroupInv, Issued, Beyond, Collect
<1> QED BY <1>3, <1>5, <1>8 DEF GroupInv

(* The partials run in split order.                                        *)
LEMMA RunGrows ==
  ASSUME NEW q, NEW k \in Nat
  PROVE /\ Append(Run(q, k), <<q, k>>) = Run(q, k + 1)
        /\ <<<<q, 0>>>> = Run(q, 1)
<1>1. Run(q, k) \in Seq({<<q, i>> : i \in Nat}) /\ Len(Run(q, k)) = k BY DEF Run
<1>2. Append(Run(q, k), <<q, k>>) = Run(q, k + 1) BY <1>1 DEF Run
<1>3. <<<<q, 0>>>> = Run(q, 1) BY DEF Run
<1> QED BY <1>2, <1>3

(* A performed commit extends the part's run by the flag's split.          *)
LEMMA PerformKeepsPart ==
  ASSUME DrawInv, Ordered, GroupInv, FlagInv, PartInv, NEW w \in issued, Perform(w)
  PROVE PartInv'
<1> USE DEF PartInv
<1>0. /\ launch' = launch /\ counter' = counter /\ drawn' = drawn /\ thread' = thread /\ flag' = flag
      /\ result' = result /\ issued' = issued \ {w}
      /\ stripe' = [stripe EXCEPT ![w.tile][w.by[3]] = Combine(<<w.by[1], w.split>>, w.split, @)]
  BY DEF Perform
<1>1. Calls' = Calls /\ Ctas' = Ctas /\ Tiles' = Tiles /\ S' = S /\ NumWork' = NumWork
  BY <1>0, Same
<1>2. Results' BY <1>0, <1>1 DEF Results, Run
<1>3. \A q, x, n, tile, s : On(q, x, n, tile, s)' <=> On(q, x, n, tile, s) BY <1>0, OnSame
<1>4. \A q, x, n : Fin(q, x, n)' <=> Fin(q, x, n) BY <1>0 DEF Fin, Th
<1>6. PICK q \in Calls, y \in Ctas, t \in Threads : w.by = <<q, y, t>> BY DEF DrawInv, Types
<1>7. PICK n \in Nat \ {0}, tile \in Tiles, s \in 0..S - 2 : n = w.item /\ tile = w.tile /\ s = w.split
  BY DEF DrawInv, Types
<1>8. /\ w.by[1] = q /\ w.by[2] = y /\ w.by[3] = t BY <1>6
<1>9. On(q, y, n, tile, s) /\ Beyond(Th(q, y, t), n, Collect) /\ ~Fin(q, y, n)
  BY <1>6, <1>7, <1>8 DEF GroupInv, Issued, Th
<1>10. n \in 1..Len(Ds(q, y)) BY <1>9 DEF On
<1>11. flag[tile] = s /\ Latest(q) /\ \A r \in Calls : Latest(r) => r = q
  BY <1>9, <1>10, AddedIsAtFlag
<1>12. S \in Nat /\ S > 1 /\ s \in Nat /\ s < S - 1 BY <1>7, Sizes DEF DrawInv
<1>13. \A x \in Ctas : \A m : On(q, x, m, tile, s) => x = y /\ m = n BY <1>9, ItemIsOne
<1>14. Pending(<<q, y, t>>, n) BY <1>6, <1>7 DEF Pending
<1>15. ~Pending(<<q, y, t>>, n)'
  <2> SUFFICES ASSUME NEW v \in issued, v # w, v.by = <<q, y, t>>, v.item = n PROVE FALSE
    BY <1>0 DEF Pending
  <2>1. On(q, y, n, v.tile, v.split) BY DEF GroupInv, Issued
  <2>2. v.tile = tile /\ v.split = s BY <1>9, <2>1 DEF On
  <2>3. /\ v \in [by : Calls \X Ctas \X Threads, item : Nat \ {0}, tile : Tiles, split : 0..S - 2]
        /\ w \in [by : Calls \X Ctas \X Threads, item : Nat \ {0}, tile : Tiles, split : 0..S - 2]
    BY DEF DrawInv, Types
  <2> QED BY <1>6, <1>7, <2>2, <2>3
<1>16. stripe'[tile][t] = Run(q, s + 1)
  <2>1. stripe \in [Tiles -> [Threads -> Seq(Part)]] BY DEF DrawInv, Types
  <2>2. stripe'[tile][t] = Combine(<<q, s>>, s, stripe[tile][t]) BY <1>0, <1>7, <1>8, <2>1
  <2>3. CASE s = 0 BY <2>2, <2>3, RunGrows DEF Combine, Ordered
  <2>4. CASE s # 0
    <3>1. \A x \in Ctas : \A m \in 1..Len(Ds(q, x)) :
            On(q, x, m, tile, s) /\ s < S - 1 => ~Added(q, x, m, t)
      BY <1>13, <1>14 DEF Added
    <3>2. stripe[tile][t] = Run(q, s) BY <1>11, <1>12, <2>4, <3>1 DEF Parts
    <3>3. stripe'[tile][t] = Append(Run(q, s), <<q, s>>) BY <2>2, <2>4, <3>2 DEF Combine
    <3> QED BY <1>12, <3>3, RunGrows
  <2> QED BY <2>3, <2>4
<1>17. \A tl \in Tiles, u \in Threads : tl # tile \/ u # t => stripe'[tl][u] = stripe[tl][u]
  <2>1. stripe \in [Tiles -> [Threads -> Seq(Part)]] BY DEF DrawInv, Types
  <2> QED BY <1>0, <1>7, <1>8, <2>1
<1>18. \A x \in Ctas : \A m : \A u \in Threads :
         u # t \/ x # y \/ m # n => (Added(q, x, m, u)' <=> Added(q, x, m, u))
  <2>1. \A x \in Ctas : \A m : \A u \in Threads :
          u # t \/ x # y \/ m # n => (Pending(<<q, x, u>>, m)' <=> Pending(<<q, x, u>>, m))
    BY <1>0, <1>6, <1>7 DEF Pending
  <2>2. \A x \in Ctas : \A m : \A u \in Threads :
          Beyond(Th(q, x, u), m, Collect)' <=> Beyond(Th(q, x, u), m, Collect)
    BY <1>0 DEF Beyond, Th, Collect
  <2> QED BY <2>1, <2>2 DEF Added
<1>19. \A r \in Calls : Latest(r)' <=> Latest(r) BY <1>0, <1>1 DEF Latest, Started, Ds
<1>20. \A x : Ds(q, x)' = Ds(q, x) BY <1>0 DEF Ds
<1>21. ASSUME NEW tl \in Tiles, NEW u \in Threads, NEW k \in Nat, flag[tl] = k
       PROVE /\ \A x \in Ctas : \A m \in 1..Len(Ds(q, x)) :
                  On(q, x, m, tl, k) /\ k < S - 1 /\ ~Fin(q, x, m) /\ Added(q, x, m, u)'
                  => stripe'[tl][u] = Run(q, k + 1)
             /\ /\ k > 0
                /\ \A x \in Ctas : \A m \in 1..Len(Ds(q, x)) :
                     On(q, x, m, tl, k) /\ k < S - 1 => ~Added(q, x, m, u)'
                => stripe'[tl][u] = Run(q, k)
  <2>1. CASE tl = tile /\ u = t
    <3>1. k = s /\ stripe'[tl][u] = Run(q, k + 1) BY <1>11, <1>16, <1>21, <2>1
    <3>2. On(q, y, n, tl, k) /\ k < S - 1 /\ Added(q, y, n, u)'
      <4>1. Beyond(Th(q, y, t), n, Collect)' BY <1>0, <1>9 DEF Beyond, Th, Collect
      <4>2. Added(q, y, n, t)' BY <1>15, <4>1 DEF Added
      <4> QED BY <1>9, <1>12, <2>1, <3>1, <4>2
    <3> QED BY <1>10, <3>1, <3>2
  <2>2. CASE tl # tile \/ u # t
    <3>1. stripe'[tl][u] = stripe[tl][u] BY <1>17, <2>2
    <3>2. \A x \in Ctas : \A m : On(q, x, m, tl, k) => u # t \/ x # y \/ m # n
      <4>1. On(q, y, n, tl, k) => tl = tile BY <1>9 DEF On
      <4> QED BY <2>2, <4>1
    <3>3. \A x \in Ctas : \A m : On(q, x, m, tl, k) => (Added(q, x, m, u)' <=> Added(q, x, m, u))
      BY <1>18, <3>2
    <3>4. \A x \in Ctas : \A m \in 1..Len(Ds(q, x)) :
            On(q, x, m, tl, k) /\ k < S - 1 /\ ~Fin(q, x, m) /\ Added(q, x, m, u)
            => stripe[tl][u] = Run(q, k + 1)
      BY <1>11, <1>21 DEF Parts
    <3>5. /\ k > 0
          /\ \A x \in Ctas : \A m \in 1..Len(Ds(q, x)) :
               On(q, x, m, tl, k) /\ k < S - 1 => ~Added(q, x, m, u)
          => stripe[tl][u] = Run(q, k)
      BY <1>11, <1>21 DEF Parts
    <3> QED BY <3>1, <3>3, <3>4, <3>5
  <2> QED BY <2>1, <2>2
<1>22. Parts' BY <1>0, <1>1, <1>3, <1>4, <1>11, <1>19, <1>20, <1>21 DEF Parts
<1> QED BY <1>2, <1>22

(* The record a commit issues.                                             *)
LEMMA Committed ==
  ASSUME NEW q, NEW x, NEW t, Commits(q, x, t)
  PROVE \E w : issued' = issued \cup {w} /\ w.by = <<q, x, t>> /\ w.item = Th(q, x, t).item
<1> DEFINE w == [by |-> <<q, x, t>>, item |-> Th(q, x, t).item,
                 tile |-> Tile(<<q, x, t>>), split |-> Split(<<q, x, t>>)]
<1>1. w.by = <<q, x, t>> /\ w.item = Th(q, x, t).item OBVIOUS
<1>2. issued' = issued \cup {w} BY DEF Commits
<1> HIDE DEF w
<1> QED BY <1>1, <1>2

(* Which commits count as added when a thread moves.                       *)
LEMMA ThreadAdded ==
  ASSUME DrawInv, NEW q \in Calls, NEW x \in Ctas, NEW t \in Threads,
         ThreadNext(<<q, x, t>>),
         NEW r \in Calls, NEW y \in Ctas, NEW u \in Threads, NEW n \in Nat,
         NEW tile, NEW k, k < S - 1, On(r, y, n, tile, k)
  PROVE Added(r, y, n, u)' <=> Added(r, y, n, u)
<1>1. /\ Th(r, y, u) \in [item : Nat \ {0}, at : Idle..Publish]
      /\ Th(q, x, t) \in [item : Nat \ {0}, at : Idle..Publish]
  BY DEF DrawInv, Types, Th
<1>2. Collect \in Idle..Publish BY DEF Idle, Collect, Publish
<1>3. Beyond(Th(r, y, u), n, Collect) => Beyond(Th(r, y, u), n, Collect)'
  <2>1. Beyond(Th(r, y, u), n, Collect)' <=> Beyond(Th(r, y, u)', n, Collect) BY DEF Beyond, Collect
  <2> QED BY <1>2, <2>1, Onwards
<1>4. thread'[<<q, x, t>>] \in [item : Nat \ {0}, at : Idle..Publish] BY ThreadStep DEF DrawInv
<1>5. Th(q, x, t)' \in [item : Nat \ {0}, at : Idle..Publish] BY <1>4 DEF Th
<1>6. CASE r # q \/ y # x \/ u # t
  <2>1. Th(r, y, u)' = Th(r, y, u) BY <1>6, ThreadStep DEF DrawInv
  <2>2. Beyond(Th(r, y, u), n, Collect)' <=> Beyond(Th(r, y, u), n, Collect) BY <2>1 DEF Beyond, Collect
  <2>3. Pending(<<r, y, u>>, n)' <=> Pending(<<r, y, u>>, n)
    <3>1. issued' = issued \/ \E w : issued' = issued \cup {w} /\ w.by = <<q, x, t>>
      BY Committed, ThreadCases DEF Quiet, Finalizes, Releases
    <3> QED BY <1>6, <3>1 DEF Pending
  <2> QED BY <2>2, <2>3 DEF Added
<1>7. CASE r = q /\ y = x /\ u = t
  <2>1. CASE Quiet(q, x, t)
    <3>1. /\ Th(q, x, t)'.item = Th(q, x, t).item /\ issued' = issued
          /\ Th(q, x, t).at < Collect <=> Th(q, x, t)'.at < Collect
      BY <2>1 DEF Quiet
    <3>2. Beyond(Th(r, y, u), n, Collect)' <=> Beyond(Th(r, y, u), n, Collect)
      BY <1>1, <1>5, <1>7, <3>1 DEF Beyond, Collect, Idle, Publish
    <3>3. Pending(<<r, y, u>>, n)' <=> Pending(<<r, y, u>>, n) BY <3>1 DEF Pending
    <3> QED BY <3>2, <3>3 DEF Added
  <2>2. CASE Releases(q, x, t)
    <3>1. /\ Th(q, x, t)'.item = Th(q, x, t).item + 1 /\ issued' = issued
          /\ Th(q, x, t).at = Publish /\ Th(q, x, t)'.at = Idle
      BY <2>2 DEF Releases
    <3>2. Beyond(Th(r, y, u), n, Collect)' <=> Beyond(Th(r, y, u), n, Collect)
      BY <1>1, <1>5, <1>7, <3>1 DEF Beyond, Collect, Idle, Publish
    <3>3. Pending(<<r, y, u>>, n)' <=> Pending(<<r, y, u>>, n) BY <3>1 DEF Pending
    <3> QED BY <3>2, <3>3 DEF Added
  <2>3. CASE Adds(q, x, t)
    <3>1. /\ Th(q, x, t)'.item = Th(q, x, t).item /\ Th(q, x, t).at = Contribute /\ Th(q, x, t)'.at = Collect
      BY <2>3 DEF Adds
    <3>2. issued' = issued \/ \E w : issued' = issued \cup {w} /\ w.item = Th(q, x, t).item
      BY Committed, ThreadCases DEF Quiet, Finalizes, Releases
    <3>3. CASE n # Th(q, x, t).item
      <4>1. Beyond(Th(r, y, u), n, Collect)' <=> Beyond(Th(r, y, u), n, Collect)
        BY <1>1, <1>5, <1>7, <3>1, <3>3 DEF Beyond, Collect, Idle, Publish
      <4>2. Pending(<<r, y, u>>, n)' <=> Pending(<<r, y, u>>, n) BY <3>2, <3>3 DEF Pending
      <4> QED BY <4>1, <4>2 DEF Added
    <3>4. CASE n = Th(q, x, t).item
      <4>1. ~Added(r, y, n, u) BY <1>7, <3>1, <3>4 DEF Added, Beyond, Contribute, Collect
      <4>2. n \in 1..Len(Ds(q, x)) BY <1>7 DEF On
      <4>3. Split(<<q, x, t>>) = k
        <5>1. Split(<<q, x, t>>) = SplitOf(Ds(q, x)[n]) BY <3>4, <4>2, AtItem
        <5> QED BY <1>7, <5>1 DEF On
      <4>4. S \in Nat BY Sizes DEF DrawInv
      <4>5. Commits(q, x, t)
        <5>1. ~Finalizes(q, x, t) BY <4>3, <4>4 DEF Finalizes
        <5>2. ~Quiet(q, x, t) BY <3>1 DEF Quiet, Contribute, Collect
        <5>3. ~Releases(q, x, t) BY <3>1 DEF Releases, Contribute, Publish
        <5> QED BY <5>1, <5>2, <5>3, ThreadCases
      <4>6. \E w \in issued' : w.by = <<q, x, t>> /\ w.item = n BY <3>4, <4>5, Committed
      <4>7. Pending(<<r, y, u>>, n)' BY <1>7, <4>6 DEF Pending
      <4> QED BY <4>1, <4>7 DEF Added
    <3> QED BY <3>3, <3>4
  <2> QED BY <2>1, <2>2, <2>3, ThreadCases DEF Commits, Finalizes
<1> QED BY <1>6, <1>7

(* A finalizer finds the run of all splits before it.                      *)
LEMMA ThreadKeepsResults ==
  ASSUME DrawInv, Ordered, GroupInv, FlagInv, PartInv, NEW q \in Calls, NEW x \in Ctas, NEW t \in Threads,
         ThreadNext(<<q, x, t>>)
  PROVE Results'
<1> DEFINE p == <<q, x, t>>
<1>0. Calls' = Calls /\ Tiles' = Tiles /\ S' = S BY ThreadStep, Same DEF DrawInv
<1>1. CASE ~Finalizes(q, x, t)
  <2>1. result' = result BY <1>1, ThreadCases DEF Quiet, Commits, Releases
  <2> QED BY <1>0, <2>1 DEF PartInv, Results, Run
<1>2. CASE Finalizes(q, x, t)
  <2>1. PICK n \in 1..Len(Ds(q, x)) : n = Th(q, x, t).item BY ThreadStep DEF DrawInv
  <2>2. PICK tile \in Tiles, s \in 0..S - 1 :
          On(q, x, n, tile, s) /\ tile = Tile(p) /\ s = Split(p)
    BY <2>1, AtItem
  <2>3. S \in Nat /\ S > 1 BY Sizes DEF DrawInv
  <2>4. s = S - 1 /\ Th(q, x, t).at = Contribute BY <1>2, <2>2 DEF Finalizes, Adds
  <2>5. ~Fin(q, x, n)
    <3>1. Th(q, x, t).at < Collect BY <2>4 DEF Contribute, Collect
    <3> QED BY <2>1, <3>1, NotReleased DEF GroupInv
  <2>6. Beyond(Th(q, x, t), n, Contribute) BY <2>1, <2>4 DEF Beyond, Contribute
  <2>7. flag[tile] = s /\ Th(q, x, 0).item = n
    <3>1. Th(q, x, 0).item = n /\ Th(q, x, 0).at >= Granted
      BY <2>2, <2>5, <2>6, Within DEF GroupInv, Waits, Ordered
    <3> QED BY <2>2, <3>1 DEF FlagInv, Holds, On
  <2>8. Latest(q)
    <3>1. Th(q, x, t).item <= n BY <2>1
    <3>2. Started(q) /\ ~Done(q) BY <2>1, <3>1, StepIsActive
    <3> QED BY <3>2, ActiveIsLatest DEF FlagInv
  <2>9. s \in Nat /\ s > 0 /\ ~(s < S - 1) BY <2>3, <2>4
  <2>10. stripe[tile][t] = Run(q, s) BY <2>7, <2>8, <2>9 DEF PartInv, Parts
  <2>11. Append(stripe[tile][t], <<q, s>>) = Run(q, S)
    <3>1. s + 1 = S BY <2>3, <2>4
    <3> QED BY <2>9, <2>10, <3>1, RunGrows
  <2>12. result' = [result EXCEPT ![q][tile][t] = Run(q, S)]
    BY <1>2, <2>2, <2>11 DEF Finalizes
  <2>13. result \in [Calls -> [Tiles -> [Threads -> Seq(Part)]]] BY DEF DrawInv, Types
  <2>14. ASSUME NEW r \in Calls, NEW tl \in Tiles, NEW u \in Threads, result'[r][tl][u] # <<>>
         PROVE result'[r][tl][u] = Run(r, S)
    <3>1. result'[r][tl][u] = IF r = q /\ tl = tile /\ u = t THEN Run(q, S) ELSE result[r][tl][u]
      BY <2>12, <2>13
    <3> QED BY <2>14, <3>1 DEF PartInv, Results
  <2>16. \A r : Run(r, S)' = Run(r, S) BY <1>0 DEF Run
  <2> QED BY <1>0, <2>14, <2>16 DEF Results
<1> QED BY <1>1, <1>2

(* Commits are performed before their item is released.                    *)
LEMMA ThreadKeepsIssued ==
  ASSUME DrawInv, GroupInv, NEW q \in Calls, NEW x \in Ctas, NEW t \in Threads,
         ThreadNext(<<q, x, t>>)
  PROVE Issued'
<1> DEFINE p == <<q, x, t>>
<1>0. UNCHANGED <<launch, drawn>> BY ThreadStep DEF DrawInv
<1>1. \A r, y, n, tile, s : On(r, y, n, tile, s)' <=> On(r, y, n, tile, s) BY <1>0, OnSame
<1>2. ASSUME NEW w \in issued
      PROVE /\ On(w.by[1], w.by[2], w.item, w.tile, w.split)
            /\ Beyond(thread'[w.by], w.item, Collect)
            /\ ~Fin(w.by[1], w.by[2], w.item)'
  <2>1. PICK r \in Calls, y \in Ctas, u \in Threads : w.by = <<r, y, u>>
    <3>1. w.by \in Calls \X Ctas \X Threads BY DEF DrawInv, Types
    <3> QED BY <3>1
  <2>2. w.by[1] = r /\ w.by[2] = y BY <2>1
  <2>3. w.item \in Nat BY DEF DrawInv, Types
  <2>4. /\ On(w.by[1], w.by[2], w.item, w.tile, w.split)
        /\ Beyond(Th(r, y, u), w.item, Collect) /\ ~Fin(r, y, w.item)
    BY <2>1, <2>2 DEF GroupInv, Issued, Th
  <2>5. Beyond(thread'[w.by], w.item, Collect)
    <3>1. Collect \in Idle..Publish /\ w.item \in Int BY <2>3 DEF Idle, Collect, Publish
    <3>2. Beyond(Th(r, y, u)', w.item, Collect) BY <2>4, <3>1, Onwards
    <3> QED BY <2>1, <3>2 DEF Th
  <2>6. ~Fin(r, y, w.item)'
    <3> SUFFICES ASSUME Fin(r, y, w.item)' PROVE FALSE OBVIOUS
    <3>1. /\ Th(q, x, t).at = Publish /\ t = 0 /\ r = q /\ y = x /\ w.item = Th(q, x, t).item
      BY <2>3, <2>4, ThreadFin
    <3>2. Releases(q, x, t)
      <4>1. Th(q, x, t)'.item = Th(q, x, t).item + 1 BY <3>1, Forward
      <4>2. Th(q, x, t).item \in Nat BY DEF DrawInv, Types, Th
      <4>3. ~Quiet(q, x, t) BY <4>1, <4>2 DEF Quiet
      <4>4. ~Adds(q, x, t) BY <4>1, <4>2 DEF Adds
      <4> QED BY <4>3, <4>4, ThreadCases DEF Commits, Finalizes
    <3>3. Performed(p) BY <3>1, <3>2 DEF Releases
    <3>4. \A v \in Threads : Beyond(Th(q, x, v), Th(q, x, t).item, Collect)
      BY <3>1 DEF GroupInv, Group
    <3>5. p[1] = q /\ p[2] = x /\ thread[p] = Th(q, x, t) BY DEF Th
    <3>6. AllAt(p, Collect) BY <3>4, <3>5 DEF AllAt, Beyond, Th
    <3>7. w.item <= thread[p].item BY <2>3, <3>1, <3>5
    <3> QED BY <2>2, <3>1, <3>3, <3>5, <3>6, <3>7 DEF Performed
  <2>7. Fin(w.by[1], w.by[2], w.item)' <=> Fin(r, y, w.item)' BY <2>2 DEF Fin
  <2> QED BY <2>4, <2>5, <2>6, <2>7
<1>3. CASE issued' = issued BY <1>1, <1>2, <1>3 DEF Issued, Beyond, Collect
<1>4. CASE Commits(q, x, t)
  <2> DEFINE w == [by |-> p, item |-> Th(q, x, t).item, tile |-> Tile(p), split |-> Split(p)]
  <2>1. issued' = issued \cup {w} BY <1>4 DEF Commits
  <2>2. w.by[1] = q /\ w.by[2] = x /\ w.by = p /\ w.item = Th(q, x, t).item /\ w.tile = Tile(p)
        /\ w.split = Split(p)
    OBVIOUS
  <2>3. Th(q, x, t).item \in 1..Len(Ds(q, x)) BY ThreadStep DEF DrawInv
  <2>4. On(q, x, Th(q, x, t).item, Tile(p), Split(p)) BY <2>3, AtItem
  <2>5. /\ Th(q, x, t).at = Contribute /\ Th(q, x, t)'.at = Collect /\ Th(q, x, t)'.item = Th(q, x, t).item
    BY <1>4 DEF Commits, Adds
  <2>6. Beyond(thread'[p], Th(q, x, t).item, Collect) BY <2>5 DEF Beyond, Th, Collect
  <2>7. ~Fin(q, x, Th(q, x, t).item)
    <3>1. Th(q, x, t).at < Collect BY <2>5 DEF Contribute, Collect
    <3> QED BY <3>1, NotReleased DEF GroupInv
  <2>8. PICK n \in Nat : n = Th(q, x, t).item BY <2>3
  <2>9. ~Fin(q, x, n)' BY <2>5, <2>7, <2>8, ThreadFin DEF Contribute, Publish
  <2> HIDE DEF w
  <2>10. /\ On(w.by[1], w.by[2], w.item, w.tile, w.split)
         /\ Beyond(thread'[w.by], w.item, Collect)
         /\ ~(thread'[<<w.by[1], w.by[2], 0>>].item > w.item)
    BY <2>2, <2>4, <2>6, <2>8, <2>9 DEF Fin, Th
  <2>11. \A v \in issued' : /\ On(v.by[1], v.by[2], v.item, v.tile, v.split)
                            /\ Beyond(thread'[v.by], v.item, Collect)
                            /\ ~(thread'[<<v.by[1], v.by[2], 0>>].item > v.item)
    <3>1. \A v \in issued : /\ On(v.by[1], v.by[2], v.item, v.tile, v.split)
                            /\ Beyond(thread'[v.by], v.item, Collect)
                            /\ ~(thread'[<<v.by[1], v.by[2], 0>>].item > v.item)
      BY <1>2 DEF Fin, Th
    <3> QED BY <2>1, <2>10, <3>1
  <2> QED BY <1>1, <2>11 DEF Issued, Fin, Th, Beyond, Collect
<1> QED BY <1>3, <1>4, ThreadCases DEF Quiet, Finalizes, Releases

(* A released split is in its part of the stripe.                          *)
LEMMA ThreadKeepsParts ==
  ASSUME DrawInv, Ordered, GroupInv, FlagInv, PartInv, NEW q \in Calls, NEW x \in Ctas, NEW t \in Threads,
         ThreadNext(<<q, x, t>>)
  PROVE Parts'
<1> DEFINE p == <<q, x, t>>
<1>0. /\ Calls' = Calls /\ Ctas' = Ctas /\ Tiles' = Tiles /\ S' = S
      /\ launch' = launch /\ drawn' = drawn /\ stripe' = stripe
  BY ThreadStep, Same, ThreadCases DEF DrawInv, Quiet, Commits, Finalizes, Adds, Releases
<1>1. \A r, y, m, tl, k : On(r, y, m, tl, k)' <=> On(r, y, m, tl, k) BY <1>0, OnSame
<1>2. S \in Nat /\ S > 1 /\ 0 \in Threads BY Sizes DEF DrawInv
<1>3. PICK n \in 1..Len(Ds(q, x)) : n = Th(q, x, t).item BY ThreadStep DEF DrawInv
<1>4. PICK tile \in Tiles, s \in 0..S - 1 :
        On(q, x, n, tile, s) /\ tile = Tile(p) /\ s = Split(p)
  BY <1>3, AtItem
<1>5. Latest(q) /\ \A r \in Calls : Latest(r) => r = q
  <2>1. Th(q, x, t).item <= n BY <1>3
  <2>2. Started(q) /\ ~Done(q) BY <1>3, <2>1, StepIsActive
  <2> QED BY <2>2, ActiveIsLatest DEF FlagInv
<1>6. \A r \in Calls : Latest(r)' <=> Latest(r) BY <1>0 DEF Latest, Started, Ds
<1>7. \A y : Ds(q, y)' = Ds(q, y) BY <1>0 DEF Ds
<1>8. \A y \in Ctas : \A m \in 1..Len(Ds(q, y)) : \A u \in Threads : \A tl, k :
        On(q, y, m, tl, k) /\ k < S - 1 => (Added(q, y, m, u)' <=> Added(q, y, m, u))
  <2> SUFFICES ASSUME NEW y \in Ctas, NEW m \in 1..Len(Ds(q, y)), NEW u \in Threads, NEW tl, NEW k,
                      On(q, y, m, tl, k), k < S - 1
               PROVE Added(q, y, m, u)' <=> Added(q, y, m, u)
    OBVIOUS
  <2>1. m \in Nat OBVIOUS
  <2> QED BY <2>1, ThreadAdded
<1>9. \A y \in Ctas : \A m \in 1..Len(Ds(q, y)) : Fin(q, y, m) => Fin(q, y, m)'
  <2> SUFFICES ASSUME NEW y \in Ctas, NEW m \in 1..Len(Ds(q, y)) PROVE Fin(q, y, m) => Fin(q, y, m)'
    OBVIOUS
  <2>1. m \in Nat OBVIOUS
  <2> QED BY <2>1, ThreadFin
<1>10. flag \in [Tiles -> Nat] BY DEF DrawInv, Types
<1>11. ASSUME NEW tl \in Tiles, NEW u \in Threads, NEW k \in Nat, flag'[tl] = k
       PROVE /\ \A y \in Ctas : \A m \in 1..Len(Ds(q, y)) :
                  On(q, y, m, tl, k) /\ k < S - 1 /\ ~Fin(q, y, m)' /\ Added(q, y, m, u)'
                  => stripe[tl][u] = Run(q, k + 1)
             /\ /\ k > 0
                /\ \A y \in Ctas : \A m \in 1..Len(Ds(q, y)) :
                     On(q, y, m, tl, k) /\ k < S - 1 => ~Added(q, y, m, u)'
                => stripe[tl][u] = Run(q, k)
  <2>1. CASE flag'[tl] = flag[tl]
    <3>1. /\ \A y \in Ctas : \A m \in 1..Len(Ds(q, y)) :
                  On(q, y, m, tl, k) /\ k < S - 1 /\ ~Fin(q, y, m) /\ Added(q, y, m, u)
                  => stripe[tl][u] = Run(q, k + 1)
          /\ /\ k > 0
             /\ \A y \in Ctas : \A m \in 1..Len(Ds(q, y)) :
                     On(q, y, m, tl, k) /\ k < S - 1 => ~Added(q, y, m, u)
             => stripe[tl][u] = Run(q, k)
      BY <1>5, <1>11, <2>1 DEF PartInv, Parts
    <3>2. ASSUME NEW y \in Ctas, NEW m \in 1..Len(Ds(q, y)), On(q, y, m, tl, k), k < S - 1,
                 ~Fin(q, y, m)', Added(q, y, m, u)'
          PROVE stripe[tl][u] = Run(q, k + 1)
      BY <1>8, <1>9, <3>1, <3>2
    <3>3. ASSUME k > 0, \A y \in Ctas : \A m \in 1..Len(Ds(q, y)) :
                          On(q, y, m, tl, k) /\ k < S - 1 => ~Added(q, y, m, u)'
          PROVE stripe[tl][u] = Run(q, k)
      BY <1>8, <3>1, <3>3
    <3> QED BY <3>2, <3>3
  <2>2. CASE flag'[tl] # flag[tl]
    <3>1. Releases(q, x, t) /\ t = 0 /\ tl = tile
      <4>1. Releases(q, x, t) /\ t = 0
        BY <2>2, ThreadCases DEF Quiet, Commits, Finalizes, Adds, Releases
      <4>2. flag' = [flag EXCEPT ![tile] = NewFlag(s, flag[tile])] BY <1>4, <4>1 DEF Releases
      <4> QED BY <1>10, <2>2, <4>1, <4>2
    <3>2. /\ Th(q, x, t).at = Publish /\ Performed(p)
          /\ flag' = [flag EXCEPT ![tile] = NewFlag(s, flag[tile])]
      BY <1>4, <3>1 DEF Releases
    <3>3. flag[tile] = s /\ ~Fin(q, x, n)
      <4>1. Th(q, x, 0).item = n /\ Th(q, x, 0).at >= Granted BY <1>3, <3>1, <3>2 DEF Granted, Publish
      <4>2. flag[TileOf(Ds(q, x)[n])] = SplitOf(Ds(q, x)[n]) BY <4>1 DEF FlagInv, Holds
      <4>3. TileOf(Ds(q, x)[n]) = tile /\ SplitOf(Ds(q, x)[n]) = s BY <1>4 DEF On
      <4>4. ~(n > n) OBVIOUS
      <4> QED BY <4>1, <4>2, <4>3, <4>4 DEF Fin
    <3>4. k = IF s = S - 1 THEN 0 ELSE s + 1
      BY <1>4, <1>10, <1>11, <3>1, <3>2 DEF NewFlag, Last, Ordered
    <3>5. ASSUME NEW y \in Ctas, NEW m \in 1..Len(Ds(q, y)), On(q, y, m, tl, k), k < S - 1,
                 ~Fin(q, y, m)', Added(q, y, m, u)'
          PROVE FALSE
      <4>1. Added(q, y, m, u) /\ ~Fin(q, y, m) BY <1>8, <1>9, <3>5
      <4>2. Beyond(Th(q, y, u), m, Collect) BY <4>1 DEF Added
      <4>3. flag[tl] = k BY <3>5, <4>1, <4>2, AddedIsAtFlag
      <4> QED BY <1>11, <2>2, <4>3
    <3>6. ASSUME k > 0 PROVE stripe[tl][u] = Run(q, k)
      <4>1. s < S - 1 /\ k = s + 1 BY <1>2, <1>4, <3>4, <3>6
      <4>2. Beyond(Th(q, x, u), n, Collect) BY <1>3, <3>1, <3>2 DEF GroupInv, Group
      <4>3. ~Pending(<<q, x, u>>, n)
        <5> SUFFICES ASSUME NEW w \in issued, w.by = <<q, x, u>>, w.item = n PROVE FALSE
          BY DEF Pending
        <5>1. p[1] = q /\ p[2] = x /\ thread[p] = Th(q, x, t) BY DEF Th
        <5>2. \A v \in Threads : Beyond(Th(q, x, v), Th(q, x, t).item, Collect)
          BY <3>2 DEF GroupInv, Group
        <5>3. AllAt(p, Collect) BY <5>1, <5>2 DEF AllAt, Beyond, Th
        <5>4. w.by[1] = q /\ w.by[2] = x /\ w.item <= thread[p].item BY <1>3, <5>1
        <5> QED BY <3>2, <5>1, <5>3, <5>4 DEF Performed
      <4>4. Added(q, x, n, u) BY <4>2, <4>3 DEF Added
      <4>5. flag[tl] = s /\ s \in Nat BY <1>4, <3>1, <3>3
      <4> QED BY <1>4, <1>5, <3>1, <3>3, <4>1, <4>4, <4>5 DEF PartInv, Parts
    <3> QED BY <3>5, <3>6
  <2> QED BY <2>1, <2>2
<1>12. Parts' BY <1>0, <1>1, <1>5, <1>6, <1>7, <1>11 DEF Parts
<1> QED BY <1>12

-----------------------------------------------------------------------------
(* PARALLEL: partials are added in any order, and counted.                 *)

(* Sets of the splits before the last one.                                 *)
LEMMA Splits ==
  ASSUME Types, NEW A \in SUBSET (0..S - 2)
  PROVE /\ Cardinality(A) \in Nat
        /\ \A s \in (0..S - 2) \ A : Cardinality(A \cup {s}) = Cardinality(A) + 1
        /\ Cardinality(A) = S - 1 <=> A = 0..S - 2
        /\ A = {} => Cardinality(A) = 0
<1>1. S \in Nat /\ S > 1 BY Sizes
<1>2. IsFiniteSet(0..S - 2) /\ Cardinality(0..S - 2) = S - 1 BY <1>1, FS_Interval
<1>3. IsFiniteSet(A) /\ Cardinality(A) \in Nat BY <1>2, FS_Subset, FS_CardinalityType
<1>4. Cardinality(A) = S - 1 => A = 0..S - 2 BY <1>2, FS_Subset
<1>5. \A s \in (0..S - 2) \ A : Cardinality(A \cup {s}) = Cardinality(A) + 1
  BY <1>3, FS_AddElement
<1> QED BY <1>2, <1>3, <1>4, <1>5, FS_EmptySet

(* There is one call.                                                      *)
LEMMA OneCall ==
  ASSUME launch.calls = 1, NEW q \in Calls, NEW r \in Calls
  PROVE q = r
BY DEF Calls

(* What is released has been added by every thread of the group.           *)
LEMMA FinIsAdded ==
  ASSUME DrawInv, GroupInv, NEW q \in Calls, NEW x \in Ctas, NEW t \in Threads,
         NEW n \in 1..Len(Ds(q, x)), Fin(q, x, n)
  PROVE Added(q, x, n, t)
<1>1. /\ Th(q, x, t) \in [item : Nat \ {0}, at : Idle..Publish] /\ 0 \in Threads
      /\ Th(q, x, 0) \in [item : Nat \ {0}, at : Idle..Publish]
  BY ThreadsAssumption DEF DrawInv, Types, Th
<1>2. Th(q, x, 0).item > n BY DEF Fin
<1>3. Beyond(Th(q, x, t), Th(q, x, 0).item - 1, Collect) BY <1>1, <1>2 DEF GroupInv, Group
<1>4. Beyond(Th(q, x, t), n, Collect) BY <1>1, <1>2, <1>3 DEF Beyond
<1>5. ~Pending(<<q, x, t>>, n)
  <2> SUFFICES ASSUME NEW w \in issued, w.by = <<q, x, t>>, w.item = n PROVE FALSE BY DEF Pending
  <2>1. w.by[1] = q /\ w.by[2] = x OBVIOUS
  <2> QED BY <2>1 DEF GroupInv, Issued
<1> QED BY <1>4, <1>5 DEF Added

(* At a split's own item, whether the split is released or added is to be  *)
(* seen.                                                                   *)
LEMMA AtSplit ==
  ASSUME DrawInv, NEW q \in Calls, NEW x \in Ctas, NEW n, NEW tile, NEW s, On(q, x, n, tile, s)
  PROVE /\ FinSplit(q, tile, s) <=> Fin(q, x, n)
        /\ \A t : s \in Summed(q, tile, t) <=> s \in 0..S - 2 /\ Added(q, x, n, t)
<1>1. \A y \in Ctas : \A m : On(q, y, m, tile, s) => y = x /\ m = n BY ItemIsOne
<1>2. n \in 1..Len(Ds(q, x)) BY DEF On
<1> QED BY <1>1, <1>2 DEF FinSplit, Summed

(* What the sums and the results say does not change with other variables. *)
LEMMA SumsSame ==
  ASSUME Sums, Calls' = Calls, Tiles' = Tiles, stripe' = stripe,
         \A q \in Calls, tile \in Tiles, t \in Threads : Summed(q, tile, t)' = Summed(q, tile, t)
  PROVE Sums'
<1> SUFFICES ASSUME NEW q \in Calls, NEW tile \in Tiles, NEW t \in Threads
             PROVE (/\ Len(stripe[tile][t]) = Cardinality(Summed(q, tile, t))
                    /\ \A s \in Summed(q, tile, t) :
                         \E i \in 1..Len(stripe[tile][t]) : stripe[tile][t][i] = <<q, s>>)'
  BY DEF Sums
<1>1. /\ Len(stripe[tile][t]) = Cardinality(Summed(q, tile, t))
      /\ \A s \in Summed(q, tile, t) :
           \E i \in 1..Len(stripe[tile][t]) : stripe[tile][t][i] = <<q, s>>
  BY DEF Sums
<1> QED BY <1>1

LEMMA WholesSame ==
  ASSUME Wholes, Calls' = Calls, Tiles' = Tiles, S' = S, result' = result
  PROVE Wholes'
<1>1. \A q, sum : Complete(q, sum)' <=> Complete(q, sum) BY DEF Complete
<1> SUFFICES ASSUME NEW q \in Calls, NEW tile \in Tiles, NEW t \in Threads, result[q][tile][t] # <<>>
             PROVE Complete(q, result[q][tile][t])'
  BY DEF Wholes
<1>2. Complete(q, result[q][tile][t]) BY DEF Wholes
<1> QED BY <1>1, <1>2 DEF Complete

(* A draw releases and adds nothing.                                       *)
LEMMA DrawKeepsCount ==
  ASSUME DrawInv, CountInv, NEW q \in Calls, NEW x \in Ctas, Draw(q, x)
  PROVE CountInv'
<1> USE DEF CountInv
<1>0. /\ Calls' = Calls /\ Ctas' = Ctas /\ Tiles' = Tiles /\ S' = S /\ launch' = launch
      /\ thread' = thread /\ flag' = flag /\ issued' = issued /\ stripe' = stripe /\ result' = result
  BY DrawStep, Same DEF DrawInv
<1>1. \A r \in Calls, y \in Ctas, t \in Threads : Th(r, y, t)' = Th(r, y, t) BY <1>0 DEF Th
<1>2. Awaited'
  <2>1. ASSUME NEW r \in Calls, NEW y \in Ctas, Th(r, y, 0).at >= Granted,
               SplitOf(Ds(r, y)[Th(r, y, 0).item])' = S - 1
        PROVE flag[TileOf(Ds(r, y)[Th(r, y, 0).item])'] = S - 1
    <3>1. /\ TileOf(Ds(r, y)[Th(r, y, 0).item])' = TileOf(Ds(r, y)[Th(r, y, 0).item])
          /\ SplitOf(Ds(r, y)[Th(r, y, 0).item])' = SplitOf(Ds(r, y)[Th(r, y, 0).item])
      BY <2>1, DrawAt, ThreadsAssumption
    <3> QED BY <2>1, <3>1 DEF Awaited
  <2> QED BY <1>0, <1>1, <2>1, ThreadsAssumption DEF Awaited, Granted
<1>3. \A r \in Calls : \A tile, s : FinSplit(r, tile, s)' <=> FinSplit(r, tile, s) BY DrawFin
<1>4. \A r \in Calls : \A tile : Arrived(r, tile)' = Arrived(r, tile) BY <1>0, <1>3 DEF Arrived
<1>5. Counted' BY <1>0, <1>3, <1>4 DEF Counted
<1>6. \A r \in Calls, tile \in Tiles, t \in Threads : Summed(r, tile, t)' = Summed(r, tile, t)
  <2> SUFFICES ASSUME NEW r \in Calls, NEW tile \in Tiles, NEW t \in Threads, NEW s
               PROVE (\E y \in Ctas : \E n \in 1..Len(Ds(r, y)) : On(r, y, n, tile, s) /\ Added(r, y, n, t))'
                     <=> \E y \in Ctas : \E n \in 1..Len(Ds(r, y)) : On(r, y, n, tile, s) /\ Added(r, y, n, t)
    BY <1>0 DEF Summed
  <2>1. \A y \in Ctas : \A n : Added(r, y, n, t)' <=> Added(r, y, n, t)
    BY <1>0, <1>1 DEF Added, Beyond, Pending, Collect
  <2>2. \A y \in Ctas : \A n : Added(r, y, n, t) => (On(r, y, n, tile, s)' <=> On(r, y, n, tile, s))
    <3> SUFFICES ASSUME NEW y \in Ctas, NEW n, Added(r, y, n, t)
                 PROVE On(r, y, n, tile, s)' <=> On(r, y, n, tile, s)
      OBVIOUS
    <3>1. Beyond(Th(r, y, t), n, Collect) BY DEF Added
    <3> QED BY <3>1, DrawOn
  <2>3. \A y : \A n : On(r, y, n, tile, s) => n \in 1..Len(Ds(r, y)) BY DEF On
  <2>4. \A y : \A n : On(r, y, n, tile, s)' => n \in 1..Len(Ds(r, y)') BY DEF On
  <2> QED BY <1>0, <2>1, <2>2, <2>3, <2>4
<1>7. Sums' BY <1>0, <1>6, SumsSame
<1>8. Wholes' BY <1>0, WholesSame
<1> QED BY <1>0, <1>2, <1>5, <1>7, <1>8

(* A performed commit adds its split, which was not there.                 *)
LEMMA PerformKeepsCount ==
  ASSUME DrawInv, ~Serial, GroupInv, CountInv, NEW w \in issued, Perform(w)
  PROVE CountInv'
<1> USE DEF CountInv
<1>0. /\ launch' = launch /\ counter' = counter /\ drawn' = drawn /\ thread' = thread /\ flag' = flag
      /\ result' = result /\ issued' = issued \ {w}
      /\ stripe' = [stripe EXCEPT ![w.tile][w.by[3]] = Append(@, <<w.by[1], w.split>>)]
  BY DEF Perform, Combine
<1>1. Calls' = Calls /\ Ctas' = Ctas /\ Tiles' = Tiles /\ S' = S BY <1>0, Same
<1>2. PICK q \in Calls, y \in Ctas, t \in Threads : w.by = <<q, y, t>> BY DEF DrawInv, Types
<1>3. PICK n \in Nat \ {0}, tile \in Tiles, s \in 0..S - 2 : n = w.item /\ tile = w.tile /\ s = w.split
  BY DEF DrawInv, Types
<1>4. /\ w.by[1] = q /\ w.by[2] = y /\ w.by[3] = t BY <1>2
<1>5. On(q, y, n, tile, s) /\ Beyond(Th(q, y, t), n, Collect)
  BY <1>2, <1>3, <1>4 DEF GroupInv, Issued, Th
<1>6. \A r, x, m, tl, sp : On(r, x, m, tl, sp)' <=> On(r, x, m, tl, sp) BY <1>0, OnSame
<1>7. \A r, x, m : Fin(r, x, m)' <=> Fin(r, x, m) BY <1>0 DEF Fin, Th
<1>8. \A r, x : Ds(r, x)' = Ds(r, x) BY <1>0 DEF Ds
<1>9. Awaited' BY <1>0, <1>1 DEF Awaited, Th, Ds, TileOf, SplitOf, S, Granted
<1>10. \A r, tl, sp : FinSplit(r, tl, sp)' <=> FinSplit(r, tl, sp)
  BY <1>1, <1>6, <1>7, <1>8 DEF FinSplit
<1>11. \A r, tl : Arrived(r, tl)' = Arrived(r, tl) BY <1>1, <1>10 DEF Arrived
<1>12. Counted' BY <1>0, <1>1, <1>10, <1>11 DEF Counted
<1>13. ~Added(q, y, n, t) BY <1>2, <1>3 DEF Added, Pending
<1>14. Added(q, y, n, t)'
  <2> SUFFICES ASSUME NEW v \in issued, v # w, v.by = <<q, y, t>>, v.item = n PROVE FALSE
    BY <1>0, <1>5 DEF Added, Pending, Beyond, Th, Collect
  <2>1. On(q, y, n, v.tile, v.split) BY DEF GroupInv, Issued
  <2>2. v.tile = tile /\ v.split = s BY <1>5, <2>1 DEF On
  <2>3. /\ v \in [by : Calls \X Ctas \X Threads, item : Nat \ {0}, tile : Tiles, split : 0..S - 2]
        /\ w \in [by : Calls \X Ctas \X Threads, item : Nat \ {0}, tile : Tiles, split : 0..S - 2]
    BY DEF DrawInv, Types
  <2> QED BY <1>2, <1>3, <2>2, <2>3
<1>15. \A x, m : \A u \in Threads :
         u # t \/ x # y \/ m # n => (Added(q, x, m, u)' <=> Added(q, x, m, u))
  BY <1>0, <1>2, <1>3 DEF Added, Pending, Beyond, Th, Collect
<1>16. ASSUME NEW tl \in Tiles, NEW u \in Threads
       PROVE Summed(q, tl, u)' = IF tl = tile /\ u = t THEN Summed(q, tl, u) \cup {s} ELSE Summed(q, tl, u)
  <2>1. Summed(q, tl, u)' =
          {sp \in 0..S - 2 : \E x \in Ctas : \E m \in 1..Len(Ds(q, x)) : On(q, x, m, tl, sp) /\ Added(q, x, m, u)'}
    BY <1>1, <1>6, <1>8 DEF Summed
  <2>2. \A sp : On(q, y, n, tl, sp) <=> tl = tile /\ sp = s BY <1>5 DEF On
  <2>3. CASE tl = tile /\ u = t
    <3>1. \A x \in Ctas : \A m \in 1..Len(Ds(q, x)) : \A sp :
            On(q, x, m, tl, sp) /\ Added(q, x, m, u)' <=>
              (On(q, x, m, tl, sp) /\ Added(q, x, m, u)) \/ (x = y /\ m = n /\ sp = s)
      BY <1>13, <1>14, <1>15, <2>2, <2>3
    <3>2. n \in 1..Len(Ds(q, y)) BY <1>5 DEF On
    <3> QED BY <2>1, <2>3, <3>1, <3>2 DEF Summed
  <2>4. CASE ~(tl = tile /\ u = t)
    <3>1. \A x \in Ctas : \A m \in 1..Len(Ds(q, x)) : \A sp :
            On(q, x, m, tl, sp) /\ Added(q, x, m, u)' <=> On(q, x, m, tl, sp) /\ Added(q, x, m, u)
      BY <1>15, <2>2, <2>4
    <3> QED BY <2>1, <2>4, <3>1 DEF Summed
  <2> QED BY <2>3, <2>4
<1>17. s \notin Summed(q, tile, t) BY <1>5, <1>13, AtSplit
<1>18. /\ stripe'[tile][t] = Append(stripe[tile][t], <<q, s>>) /\ stripe[tile][t] \in Seq(Part)
       /\ \A tl \in Tiles, u \in Threads : ~(tl = tile /\ u = t) => stripe'[tl][u] = stripe[tl][u]
  <2>1. stripe \in [Tiles -> [Threads -> Seq(Part)]] BY DEF DrawInv, Types
  <2> QED BY <1>0, <1>3, <1>4, <2>1
<1>19. ASSUME NEW tl \in Tiles, NEW u \in Threads
       PROVE /\ Len(stripe'[tl][u]) = Cardinality(Summed(q, tl, u)')
             /\ \A sp \in Summed(q, tl, u)' :
                  \E i \in 1..Len(stripe'[tl][u]) : stripe'[tl][u][i] = <<q, sp>>
  <2>1. /\ Len(stripe[tl][u]) = Cardinality(Summed(q, tl, u))
        /\ \A sp \in Summed(q, tl, u) : \E i \in 1..Len(stripe[tl][u]) : stripe[tl][u][i] = <<q, sp>>
    BY DEF Sums
  <2>2. CASE tl = tile /\ u = t
    <3>1. Cardinality(Summed(q, tl, u)') = Cardinality(Summed(q, tl, u)) + 1
      <4>1. Summed(q, tl, u) \in SUBSET (0..S - 2) BY DEF Summed
      <4> QED BY <1>16, <1>17, <2>2, <4>1, Splits DEF DrawInv
    <3>2. Len(stripe[tl][u]) \in Nat BY <1>18, <2>2
    <3>3. /\ Len(stripe'[tl][u]) = Len(stripe[tl][u]) + 1
          /\ \A i \in 1..Len(stripe[tl][u]) : stripe'[tl][u][i] = stripe[tl][u][i]
          /\ stripe'[tl][u][Len(stripe[tl][u]) + 1] = <<q, s>>
      BY <1>18, <2>2
    <3>4. \A sp \in Summed(q, tl, u)' :
            \E i \in 1..Len(stripe[tl][u]) + 1 : stripe'[tl][u][i] = <<q, sp>>
      <4> TAKE sp \in Summed(q, tl, u)'
      <4>1. CASE sp = s
        <5>1. Len(stripe[tl][u]) + 1 \in 1..Len(stripe[tl][u]) + 1 BY <3>2
        <5> QED BY <3>3, <4>1, <5>1
      <4>2. CASE sp # s
        <5>1. sp \in Summed(q, tl, u) BY <1>16, <2>2, <4>2
        <5>2. PICK i \in 1..Len(stripe[tl][u]) : stripe[tl][u][i] = <<q, sp>> BY <2>1, <5>1
        <5>3. i \in 1..Len(stripe[tl][u]) + 1 BY <3>2
        <5> QED BY <3>3, <5>2, <5>3
      <4> QED BY <4>1, <4>2
    <3> QED BY <2>1, <3>1, <3>3, <3>4
  <2>3. CASE ~(tl = tile /\ u = t) BY <1>16, <1>18, <2>1, <2>3
  <2> QED BY <2>2, <2>3
<1>20. \A r \in Calls : r = q BY OneCall
<1>21. Sums'
  <2> SUFFICES ASSUME NEW r \in Calls, NEW tl \in Tiles, NEW u \in Threads
               PROVE (/\ Len(stripe[tl][u]) = Cardinality(Summed(r, tl, u))
                      /\ \A sp \in Summed(r, tl, u) :
                           \E i \in 1..Len(stripe[tl][u]) : stripe[tl][u][i] = <<r, sp>>)'
    BY <1>1 DEF Sums
  <2>1. r = q BY <1>20
  <2>2. (/\ Len(stripe[tl][u]) = Cardinality(Summed(q, tl, u))
         /\ \A sp \in Summed(q, tl, u) :
              \E i \in 1..Len(stripe[tl][u]) : stripe[tl][u][i] = <<q, sp>>)'
    BY <1>19
  <2> QED BY <2>1, <2>2
<1>22. Wholes' BY <1>0, <1>1, WholesSame
<1> QED BY <1>0, <1>9, <1>12, <1>21, <1>22

(* A thread's own steps add nothing to the stripe: performing does.        *)
LEMMA ThreadKeepsSums ==
  ASSUME DrawInv, Sums, NEW q \in Calls, NEW x \in Ctas, NEW t \in Threads, ThreadNext(<<q, x, t>>)
  PROVE Sums'
<1>0. Calls' = Calls /\ Ctas' = Ctas /\ Tiles' = Tiles /\ S' = S /\ launch' = launch /\ drawn' = drawn
  BY ThreadStep, Same DEF DrawInv
<1>1. stripe' = stripe BY ThreadCases DEF Quiet, Commits, Finalizes, Adds, Releases
<1>2. S \in Nat BY Sizes DEF DrawInv
<1>3. ASSUME NEW r \in Calls, NEW tile \in Tiles, NEW u \in Threads
      PROVE Summed(r, tile, u)' = Summed(r, tile, u)
  <2>1. \A y, n, s : On(r, y, n, tile, s)' <=> On(r, y, n, tile, s) BY <1>0, OnSame
  <2>2. \A y : Ds(r, y)' = Ds(r, y) BY <1>0 DEF Ds
  <2>3. Summed(r, tile, u)' =
          {s \in 0..S - 2 : \E y \in Ctas : \E n \in 1..Len(Ds(r, y)) : On(r, y, n, tile, s) /\ Added(r, y, n, u)'}
    BY <1>0, <2>1, <2>2 DEF Summed
  <2>4. \A s \in 0..S - 2 : \A y \in Ctas : \A n \in 1..Len(Ds(r, y)) :
          On(r, y, n, tile, s) => (Added(r, y, n, u)' <=> Added(r, y, n, u))
    <3> SUFFICES ASSUME NEW s \in 0..S - 2, NEW y \in Ctas, NEW n \in 1..Len(Ds(r, y)), On(r, y, n, tile, s)
                 PROVE Added(r, y, n, u)' <=> Added(r, y, n, u)
      OBVIOUS
    <3>1. s < S - 1 /\ n \in Nat BY <1>2
    <3> QED BY <3>1, ThreadAdded
  <2> QED BY <2>3, <2>4 DEF Summed
<1> QED BY <1>0, <1>1, <1>3, SumsSame

(* The finalizer has waited until every other split was released, and what *)
(* is released is in the stripe.                                           *)
LEMMA ThreadKeepsWholes ==
  ASSUME DrawInv, ~Serial, GroupInv, CountInv, NEW q \in Calls, NEW x \in Ctas, NEW t \in Threads,
         ThreadNext(<<q, x, t>>)
  PROVE Wholes'
<1> DEFINE p == <<q, x, t>>
<1> USE DEF CountInv
<1>0. Calls' = Calls /\ Tiles' = Tiles /\ S' = S BY ThreadStep, Same DEF DrawInv
<1>1. CASE ~Finalizes(q, x, t)
  <2>1. result' = result BY <1>1, ThreadCases DEF Quiet, Commits, Releases
  <2> QED BY <1>0, <2>1, WholesSame
<1>2. CASE Finalizes(q, x, t)
  <2>1. PICK n \in 1..Len(Ds(q, x)) : n = Th(q, x, t).item BY ThreadStep DEF DrawInv
  <2>2. PICK tile \in Tiles : On(q, x, n, tile, S - 1) /\ tile = Tile(p)
    BY <1>2, <2>1, AtItem DEF Finalizes
  <2>3. S \in Nat /\ S > 1 BY Sizes DEF DrawInv
  <2>4. Th(q, x, t).at = Contribute BY <1>2 DEF Finalizes, Adds
  <2>5. ~Fin(q, x, n)
    <3>1. Th(q, x, t).at < Collect BY <2>4 DEF Contribute, Collect
    <3> QED BY <2>1, <3>1, NotReleased DEF GroupInv
  <2>6. Beyond(Th(q, x, t), n, Contribute) BY <2>1, <2>4 DEF Beyond, Contribute
  <2>7. flag[tile] = S - 1
    <3>1. Waits(S - 1) BY DEF Waits, Last
    <3>2. Th(q, x, 0).item = n /\ Th(q, x, 0).at >= Granted
      BY <2>2, <2>5, <2>6, <3>1, Within DEF GroupInv
    <3> QED BY <2>2, <3>2 DEF Awaited, On
  <2>8. Arrived(q, tile) = 0..S - 2
    <3>1. ~FinSplit(q, tile, S - 1) BY <2>2, <2>5, AtSplit
    <3>2. Cardinality(Arrived(q, tile)) = S - 1 BY <2>7, <3>1 DEF Counted
    <3>3. Arrived(q, tile) \in SUBSET (0..S - 2) BY DEF Arrived
    <3> QED BY <3>2, <3>3, Splits DEF DrawInv
  <2>9. Summed(q, tile, t) = 0..S - 2
    <3>1. ASSUME NEW s \in 0..S - 2 PROVE s \in Summed(q, tile, t)
      <4>1. FinSplit(q, tile, s) BY <2>8 DEF Arrived
      <4>2. PICK y \in Ctas : \E m \in 1..Len(Ds(q, y)) : On(q, y, m, tile, s) /\ Fin(q, y, m)
        BY <4>1 DEF FinSplit
      <4>3. PICK m \in 1..Len(Ds(q, y)) : On(q, y, m, tile, s) /\ Fin(q, y, m) BY <4>2
      <4>4. Added(q, y, m, t) BY <4>3, FinIsAdded
      <4> QED BY <4>3, <4>4 DEF Summed
    <3> QED BY <3>1 DEF Summed
  <2>10. Len(stripe[tile][t]) = S - 1
    <3>1. Cardinality(0..S - 2) = S - 1 BY Splits DEF DrawInv
    <3> QED BY <2>9, <3>1 DEF Sums
  <2>11. \A s \in 0..S - 2 : \E i \in 1..S - 1 : stripe[tile][t][i] = <<q, s>>
    BY <2>9, <2>10, ZenonT(40) DEF Sums
  <2> DEFINE new == Append(stripe[tile][t], <<q, S - 1>>)
  <2>12. Complete(q, new)
    <3>1. stripe[tile][t] \in Seq(Part) BY DEF DrawInv, Types
    <3>2. /\ Len(new) = S /\ new[S] = <<q, S - 1>>
          /\ \A i \in 1..S - 1 : new[i] = stripe[tile][t][i]
      BY <2>3, <2>10, <3>1
    <3> HIDE DEF new
    <3>3. ASSUME NEW s \in 0..S - 1 PROVE \E i \in 1..S : new[i] = <<q, s>>
      <4>1. CASE s = S - 1
        <5>1. S \in 1..S BY <2>3
        <5> QED BY <3>2, <4>1, <5>1
      <4>2. CASE s # S - 1
        <5>1. s \in 0..S - 2 BY <2>3, <4>2
        <5>2. PICK i \in 1..S - 1 : stripe[tile][t][i] = <<q, s>> BY <2>11, <5>1
        <5>3. i \in 1..S BY <2>3
        <5> QED BY <3>2, <5>2, <5>3
      <4> QED BY <4>1, <4>2
    <3> QED BY <3>2, <3>3 DEF Complete
  <2>13. result' = [result EXCEPT ![q][tile][t] = new] BY <1>2, <2>2 DEF Finalizes
  <2>14. result \in [Calls -> [Tiles -> [Threads -> Seq(Part)]]] BY DEF DrawInv, Types
  <2> HIDE DEF new
  <2>15. ASSUME NEW r \in Calls, NEW tl \in Tiles, NEW u \in Threads, result'[r][tl][u] # <<>>
         PROVE Complete(r, result'[r][tl][u])
    <3>1. result'[r][tl][u] = IF r = q /\ tl = tile /\ u = t THEN new ELSE result[r][tl][u]
      BY <2>13, <2>14
    <3>2. CASE r = q /\ tl = tile /\ u = t BY <2>12, <3>1, <3>2
    <3>3. CASE ~(r = q /\ tl = tile /\ u = t)
      <4>1. result'[r][tl][u] = result[r][tl][u] BY <3>1, <3>3
      <4> QED BY <2>15, <4>1 DEF Wholes
    <3> QED BY <3>2, <3>3
  <2>16. \A r, tl, u : Complete(r, result[r][tl][u])' <=> Complete(r, result'[r][tl][u])
    BY <1>0 DEF Complete
  <2> QED BY <1>0, <2>15, <2>16 DEF Wholes
<1> QED BY <1>1, <1>2

(* Only a release by thread 0 moves a flag or releases a split.            *)
LEMMA ThreadKeepsFlags ==
  ASSUME DrawInv, CountInv, NEW q \in Calls, NEW x \in Ctas, NEW t \in Threads,
         ThreadNext(<<q, x, t>>), ~(t = 0 /\ Releases(q, x, t))
  PROVE Awaited' /\ Counted'
<1> USE DEF CountInv
<1>0. Calls' = Calls /\ Ctas' = Ctas /\ Tiles' = Tiles /\ S' = S /\ launch' = launch /\ drawn' = drawn
  BY ThreadStep, Same DEF DrawInv
<1>1. flag' = flag BY ThreadCases DEF Quiet, Commits, Finalizes, Adds, Releases
<1>2. S \in Nat /\ S > 1 /\ 0 \in Threads BY Sizes, ThreadsAssumption DEF DrawInv
<1>3. Th(q, x, t).item \in 1..Len(Ds(q, x)) BY ThreadStep DEF DrawInv
<1>4. Th(q, x, t) \in [item : Nat \ {0}, at : Idle..Publish] BY DEF DrawInv, Types, Th
<1>5. ~(t = 0 /\ Th(q, x, t).at = Publish)
  <2> SUFFICES ASSUME t = 0, Th(q, x, t).at = Publish PROVE FALSE OBVIOUS
  <2>1. Th(q, x, t)'.item = Th(q, x, t).item + 1 BY Forward
  <2>2. Th(q, x, t)'.item # Th(q, x, t).item BY <1>4, <2>1
  <2> QED BY <2>2, ThreadCases DEF Quiet, Commits, Finalizes, Adds
<1>6. Awaited'
  <2>1. ASSUME NEW r \in Calls, NEW y \in Ctas, Th(r, y, 0)'.at >= Granted,
               SplitOf(Ds(r, y)[Th(r, y, 0)'.item]) = S - 1
        PROVE flag[TileOf(Ds(r, y)[Th(r, y, 0)'.item])] = S - 1
    <3>1. CASE r # q \/ y # x \/ t # 0
      <4>1. Th(r, y, 0)' = Th(r, y, 0) BY <1>2, <3>1, ThreadStep DEF DrawInv
      <4> QED BY <2>1, <4>1 DEF Awaited
    <3>2. CASE r = q /\ y = x /\ t = 0
      <4>1. CASE Quiet(q, x, t)
        <5>1. Th(q, x, 0)'.item = Th(q, x, 0).item BY <3>2, <4>1 DEF Quiet
        <5>2. /\ Split(<<q, x, t>>) = S - 1 /\ Waits(Split(<<q, x, t>>)) /\ Split(<<q, x, t>>) # 0
              /\ Tile(<<q, x, t>>) = TileOf(Ds(q, x)[Th(q, x, 0).item])
          BY <1>2, <1>3, <2>1, <3>2, <5>1, AtItem DEF Waits, Last
        <5>3. Th(q, x, 0).at >= Granted \/ flag[Tile(<<q, x, t>>)] = S - 1
          BY <2>1, <3>2, <4>1, <5>2 DEF Quiet
        <5> QED BY <2>1, <3>2, <5>1, <5>2, <5>3 DEF Awaited
      <4>2. CASE Adds(q, x, t)
        <5>1. Th(q, x, 0)'.item = Th(q, x, 0).item /\ Th(q, x, 0).at = Contribute BY <3>2, <4>2 DEF Adds
        <5>2. Th(q, x, 0).at >= Granted BY <5>1 DEF Contribute, Granted
        <5> QED BY <2>1, <3>2, <5>1, <5>2 DEF Awaited
      <4> QED BY <3>2, <4>1, <4>2, ThreadCases DEF Commits, Finalizes
    <3> QED BY <3>1, <3>2
  <2>2. \A r, y : /\ TileOf(Ds(r, y)[Th(r, y, 0).item])' = TileOf(Ds(r, y)[Th(r, y, 0)'.item])
                  /\ SplitOf(Ds(r, y)[Th(r, y, 0).item])' = SplitOf(Ds(r, y)[Th(r, y, 0)'.item])
    BY <1>0 DEF Ds, TileOf, SplitOf, S
  <2> QED BY <1>0, <1>1, <2>1, <2>2 DEF Awaited, Granted
<1>7. ASSUME NEW r \in Calls, NEW tile, NEW s PROVE FinSplit(r, tile, s)' <=> FinSplit(r, tile, s)
  <2>1. \A y \in Ctas : \A n \in Nat : Fin(r, y, n)' <=> Fin(r, y, n) BY <1>5, ThreadFin
  <2>2. \A y, n : On(r, y, n, tile, s)' <=> On(r, y, n, tile, s) BY <1>0, OnSame
  <2>3. \A y : Ds(r, y)' = Ds(r, y) BY <1>0 DEF Ds
  <2> QED BY <1>0, <2>1, <2>2, <2>3 DEF FinSplit
<1>8. \A r \in Calls : \A tile : Arrived(r, tile)' = Arrived(r, tile) BY <1>0, <1>7 DEF Arrived
<1>9. Counted' BY <1>0, <1>1, <1>7, <1>8 DEF Counted
<1> QED BY <1>6, <1>9

(* A release counts its split, or clears the flag of a whole tile.         *)
LEMMA ReleaseKeepsFlags ==
  ASSUME DrawInv, ~Serial, CountInv, NEW q \in Calls, NEW x \in Ctas,
         0 \in Threads, ThreadNext(<<q, x, 0>>), Releases(q, x, 0)
  PROVE Awaited' /\ Counted'
<1> DEFINE p == <<q, x, 0>>
<1> USE DEF CountInv
<1>0. Calls' = Calls /\ Ctas' = Ctas /\ Tiles' = Tiles /\ S' = S /\ launch' = launch /\ drawn' = drawn
  BY ThreadStep, Same DEF DrawInv
<1>1. S \in Nat /\ S > 1 BY Sizes DEF DrawInv
<1>2. PICK n \in 1..Len(Ds(q, x)) : n = Th(q, x, 0).item BY ThreadStep DEF DrawInv
<1>3. PICK tile \in Tiles, s \in 0..S - 1 : On(q, x, n, tile, s) /\ tile = Tile(p) /\ s = Split(p)
  BY <1>2, AtItem
<1>4. flag' = [flag EXCEPT ![tile] = NewFlag(s, flag[tile])] BY <1>3 DEF Releases
<1>5. Th(q, x, 0).at = Publish /\ Th(q, x, 0)'.at = Idle BY DEF Releases
<1>6. flag \in [Tiles -> Nat] BY DEF DrawInv, Types
<1>7. ~FinSplit(q, tile, s)
  <2>1. ~Fin(q, x, n) BY <1>2 DEF Fin
  <2> QED BY <1>3, <2>1, AtSplit
<1>8. \A r \in Calls : r = q BY OneCall
<1>9. ASSUME NEW tl, NEW sp
      PROVE FinSplit(q, tl, sp)' <=> FinSplit(q, tl, sp) \/ (tl = tile /\ sp = s)
  <2>1. \A y \in Ctas : \A m \in Nat : Fin(q, y, m)' <=> Fin(q, y, m) \/ (y = x /\ m = n)
    BY <1>2, <1>5, ThreadFin
  <2>2. \A y, m : On(q, y, m, tl, sp)' <=> On(q, y, m, tl, sp) BY <1>0, OnSame
  <2>3. \A y : Ds(q, y)' = Ds(q, y) BY <1>0 DEF Ds
  <2>4. On(q, x, n, tl, sp) <=> tl = tile /\ sp = s BY <1>3 DEF On
  <2> QED BY <1>0, <2>1, <2>2, <2>3, <2>4 DEF FinSplit
<1>10. /\ Arrived(q, tile)' = Arrived(q, tile) \cup ({s} \cap 0..S - 2)
       /\ \A tl : tl # tile => Arrived(q, tl)' = Arrived(q, tl)
  BY <1>0, <1>9 DEF Arrived
<1>11. Arrived(q, tile) \in SUBSET (0..S - 2) BY DEF Arrived
<1>12. /\ s \in 0..S - 2 => s \notin Arrived(q, tile)
  BY <1>7 DEF Arrived
<1>13. \A tl \in Tiles : tl # tile => flag'[tl] = flag[tl] BY <1>4, <1>6
<1>14. \A tl \in Tiles : tl # tile =>
         (IF FinSplit(q, tl, S - 1) THEN Arrived(q, tl) = 0..S - 2
                                    ELSE flag[tl] = Cardinality(Arrived(q, tl)))'
  <2> SUFFICES ASSUME NEW tl \in Tiles, tl # tile
               PROVE (IF FinSplit(q, tl, S - 1) THEN Arrived(q, tl) = 0..S - 2
                                                ELSE flag[tl] = Cardinality(Arrived(q, tl)))'
    OBVIOUS
  <2>1. FinSplit(q, tl, S - 1)' <=> FinSplit(q, tl, S - 1) BY <1>0, <1>9
  <2> QED BY <1>0, <1>10, <1>13, <2>1 DEF Counted
<1>15. ASSUME NEW y \in Ctas, Th(q, y, 0)'.at >= Granted, SplitOf(Ds(q, y)[Th(q, y, 0)'.item]) = S - 1
       PROVE /\ y # x /\ flag[TileOf(Ds(q, y)[Th(q, y, 0)'.item])] = S - 1
             /\ On(q, y, Th(q, y, 0)'.item, TileOf(Ds(q, y)[Th(q, y, 0)'.item]), S - 1)
             /\ TileOf(Ds(q, y)[Th(q, y, 0)'.item]) \in Tiles
  <2>1. y # x BY <1>5, <1>15 DEF Idle, Granted
  <2>2. Th(q, y, 0)' = Th(q, y, 0) BY <2>1, ThreadStep DEF DrawInv
  <2>3. Th(q, y, 0) \in [item : Nat \ {0}, at : Idle..Publish] /\ Len(Ds(q, y)) \in Nat
    BY DEF DrawInv, Types, Th, Ds
  <2>4. Th(q, y, 0).at # Idle BY <1>15, <2>2 DEF Idle, Granted
  <2>5. Th(q, y, 0).item \in 1..Len(Ds(q, y)) BY <2>3, <2>4 DEF DrawInv, Bounds
  <2>6. TileOf(Ds(q, y)[Th(q, y, 0).item]) \in Tiles BY <2>5, Drawn DEF DrawInv
  <2> QED BY <1>15, <2>1, <2>2, <2>5, <2>6 DEF Awaited, On
<1>16. \A r, y : /\ TileOf(Ds(r, y)[Th(r, y, 0).item])' = TileOf(Ds(r, y)[Th(r, y, 0)'.item])
                 /\ SplitOf(Ds(r, y)[Th(r, y, 0).item])' = SplitOf(Ds(r, y)[Th(r, y, 0)'.item])
  BY <1>0 DEF Ds, TileOf, SplitOf, S
<1>17. CASE s # S - 1
  <2>1. s \in 0..S - 2 BY <1>1, <1>17
  <2>2. ~FinSplit(q, tile, S - 1) BY <1>12, <2>1 DEF Counted
  <2>3. flag[tile] = Cardinality(Arrived(q, tile)) BY <2>2 DEF Counted
  <2>4. flag'[tile] = flag[tile] + 1 BY <1>4, <1>6, <1>17 DEF NewFlag, Last
  <2>5. Arrived(q, tile)' = Arrived(q, tile) \cup {s} BY <1>10, <2>1
  <2>6. Cardinality(Arrived(q, tile) \cup {s}) = Cardinality(Arrived(q, tile)) + 1
    BY <1>11, <1>12, <2>1, Splits DEF DrawInv
  <2>7. ~FinSplit(q, tile, S - 1)' BY <1>0, <1>9, <1>17, <2>2
  <2>8. Counted' BY <1>0, <1>8, <1>14, <2>3, <2>4, <2>5, <2>6, <2>7 DEF Counted
  <2>9. flag[tile] # S - 1
    <3> SUFFICES ASSUME flag[tile] = S - 1 PROVE FALSE OBVIOUS
    <3>1. Arrived(q, tile) = 0..S - 2 BY <1>11, <2>3, Splits DEF DrawInv
    <3> QED BY <1>12, <2>1, <3>1
  <2>10. Awaited' BY <1>0, <1>8, <1>13, <1>15, <1>16, <2>9 DEF Awaited, Granted
  <2> QED BY <2>8, <2>10
<1>18. CASE s = S - 1
  <2>1. flag[tile] = S - 1
    <3>1. Th(q, x, 0).at >= Granted BY <1>5 DEF Publish, Granted
    <3> QED BY <1>2, <1>3, <1>18, <3>1 DEF Awaited, On
  <2>2. Arrived(q, tile) = 0..S - 2
    <3>1. Cardinality(Arrived(q, tile)) = S - 1 BY <1>7, <1>18, <2>1 DEF Counted
    <3> QED BY <1>11, <3>1, Splits DEF DrawInv
  <2>3. Arrived(q, tile)' = 0..S - 2 BY <1>10, <2>2
  <2>4. FinSplit(q, tile, S - 1)' BY <1>0, <1>9, <1>18
  <2>5. Counted' BY <1>0, <1>8, <1>14, <2>3, <2>4 DEF Counted
  <2>6. \A y \in Ctas : \A m : y # x => ~On(q, y, m, tile, S - 1) BY <1>3, <1>18, ItemIsOne
  <2>7. Awaited' BY <1>0, <1>8, <1>13, <1>15, <1>16, <2>6 DEF Awaited, Granted
  <2> QED BY <2>5, <2>7
<1> QED BY <1>17, <1>18

(* A thread's step keeps the count.                                        *)
LEMMA ThreadKeepsCount ==
  ASSUME DrawInv, ~Serial, GroupInv, CountInv, NEW q \in Calls, NEW x \in Ctas, NEW t \in Threads,
         ThreadNext(<<q, x, t>>)
  PROVE CountInv'
<1>1. launch' = launch BY ThreadStep DEF DrawInv
<1>2. Awaited' /\ Counted'
  BY ThreadKeepsFlags, ReleaseKeepsFlags, ThreadsAssumption
<1> QED BY <1>1, <1>2, ThreadKeepsSums, ThreadKeepsWholes DEF CountInv

-----------------------------------------------------------------------------
(* The invariant holds initially.                                          *)
LEMMA InitInv == Init => IInv
<1> SUFFICES ASSUME Init PROVE IInv OBVIOUS
<1>1. DrawInv BY InitDraw
<1>2. \A q \in Calls : ~Started(q)
  <2>1. \A q \in Calls, x \in Ctas : Ds(q, x) = <<>> BY DEF Init, Ds
  <2> QED BY <2>1 DEF Started
<1>3. \A q \in Calls, x \in Ctas, t \in Threads : Th(q, x, t) = [item |-> 1, at |-> Idle]
  BY DEF Init, Th
<1>4. Turns BY <1>2 DEF Turns
<1>5. Group /\ Entered BY <1>3 DEF Group, Entered, Idle, Granted, Publish
<1>6. Holds BY <1>3, ThreadsAssumption DEF Holds, Idle, Granted
<1>7. Released BY <1>2 DEF Released, Latest, Init
<1>8. Issued BY DEF Issued, Init
<1>9. Parts BY <1>2 DEF Parts, Latest
<1>10. Results BY DEF Results, Init
<1>11. ASSUME ~Serial PROVE CountInv
  <2>1. launch \in Launches /\ launch \in LaunchType BY LaunchesAssumption DEF Init
  <2>2. launch.mode = "PARALLEL" BY <1>11, <2>1 DEF Serial, LaunchType
  <2>3. launch.calls = 1 BY <2>1, <2>2, LaunchesAssumption
  <2>4. Awaited BY <1>3, ThreadsAssumption DEF Awaited, Idle, Granted
  <2>5. \A q \in Calls, x \in Ctas : Ds(q, x) = <<>> BY DEF Init, Ds
  <2>6. \A q \in Calls, x \in Ctas : \A n \in 1..Len(Ds(q, x)) : FALSE BY <2>5
  <2>7. \A q \in Calls : \A tile, s : ~FinSplit(q, tile, s) BY <2>6 DEF FinSplit
  <2>8. \A q \in Calls : \A tile : Arrived(q, tile) = {} BY <2>7 DEF Arrived
  <2>9. \A q \in Calls : \A tile, t : Summed(q, tile, t) = {}
    <3> SUFFICES ASSUME NEW q \in Calls, NEW tile, NEW t, NEW s \in Summed(q, tile, t) PROVE FALSE
      OBVIOUS
    <3> QED BY <2>6 DEF Summed
  <2>10. Cardinality({}) = 0 BY FS_EmptySet
  <2>11. \A tile \in Tiles : flag[tile] = 0 BY DEF Init
  <2>12. Counted BY <2>7, <2>8, <2>10, <2>11 DEF Counted
  <2>13. \A tile \in Tiles, t \in Threads : stripe[tile][t] = <<>>
    BY <2>2 DEF Init, InitialStripe
  <2>14. Sums
    <3>1. Len(<<>>) = 0 OBVIOUS
    <3> SUFFICES ASSUME NEW q \in Calls, NEW tile \in Tiles, NEW t \in Threads
                 PROVE /\ Len(stripe[tile][t]) = Cardinality(Summed(q, tile, t))
                       /\ \A s \in Summed(q, tile, t) :
                            \E i \in 1..Len(stripe[tile][t]) : stripe[tile][t][i] = <<q, s>>
      BY DEF Sums
    <3>2. stripe[tile][t] = <<>> /\ Summed(q, tile, t) = {} BY <2>9, <2>13
    <3> QED BY <2>10, <3>1, <3>2
  <2>15. \A q \in Calls, tile \in Tiles, t \in Threads : result[q][tile][t] = <<>> BY DEF Init
  <2>16. Wholes BY <2>15 DEF Wholes
  <2> QED BY <2>3, <2>4, <2>12, <2>14, <2>16 DEF CountInv
<1> QED BY <1>1, <1>4, <1>5, <1>6, <1>7, <1>8, <1>9, <1>10, <1>11 DEF IInv, GroupInv, FlagInv, PartInv

(* Every step keeps the invariant.                                         *)
LEMMA NextInv == IInv /\ [Next]_vars => IInv'
<1> SUFFICES ASSUME IInv, [Next]_vars PROVE IInv' OBVIOUS
<1> USE DEF IInv
<1>1. CASE UNCHANGED vars
  <2>1. UNCHANGED <<launch, counter, drawn, thread, flag, stripe, issued, result>> BY <1>1 DEF vars
  <2>2. /\ Calls' = Calls /\ Ctas' = Ctas /\ Tiles' = Tiles /\ S' = S /\ NumWork' = NumWork
        /\ (Ordered' <=> Ordered)
    BY <2>1, Same
  <2>3. \A q, x : Ds(q, x)' = Ds(q, x) BY <2>1 DEF Ds
  <2>4. \A q, x, t : Th(q, x, t)' = Th(q, x, t) BY <2>1 DEF Th
  <2>5. Types' BY <2>1, <2>2 DEF DrawInv, Types
  <2>6. Bounds' /\ Distinct' BY <2>1, <2>2, <2>3, <2>4 DEF DrawInv, Bounds, Distinct, Idle
  <2>7. Ids' BY <2>1, <2>2, <2>3 DEF DrawInv, Ids
  <2>7a. \A q, x, n, tile, s : On(q, x, n, tile, s)' <=> On(q, x, n, tile, s) BY <2>1, OnSame
  <2>7b. \A q, x, n : Fin(q, x, n)' <=> Fin(q, x, n) BY <2>1 DEF Fin, Th
  <2>7c. Group' BY <2>2, <2>4 DEF GroupInv, Group, Beyond, Collect, Publish
  <2>7d. Entered'
    BY <2>1, <2>2 DEF GroupInv, Entered, Waits, Serial, Last, SplitOf, S, Th, Ds, Beyond, Granted
  <2>7e. Issued' BY <2>1, <2>7a, <2>7b DEF GroupInv, Issued, Beyond, Collect
  <2>8. ASSUME Ordered PROVE FlagInv' /\ PartInv'
    <3>1. \A q : Started(q)' <=> Started(q) BY <2>2, <2>3 DEF Started
    <3>2. \A q : Done(q)' <=> Done(q)
      BY <2>1, <2>2 DEF Done, Exhausted, NextId, First, Rests, Idle
    <3>3. Turns' BY <2>2, <2>8, <3>1, <3>2 DEF FlagInv, Turns
    <3>5. Holds' BY <2>1, <2>2, <2>8 DEF FlagInv, Holds, Th, Ds, TileOf, SplitOf, S, Granted
    <3>8. \A q, tile, s : FinSplit(q, tile, s)' <=> FinSplit(q, tile, s)
      BY <2>2, <2>3, <2>7a, <2>7b DEF FinSplit
    <3>9. \A q : Latest(q)' <=> Latest(q) BY <2>2, <3>1 DEF Latest
    <3>10. Released' BY <2>1, <2>2, <2>8, <3>1, <3>8, <3>9 DEF FlagInv, Released, Half, Whole
    <3>12. \A q, x, n, t : Added(q, x, n, t)' <=> Added(q, x, n, t)
      BY <2>1 DEF Added, Pending, Beyond, Th, Collect
    <3>13. Parts' BY <2>1, <2>2, <2>3, <2>8, <2>7a, <2>7b, <3>9, <3>12 DEF PartInv, Parts
    <3>14. Results' BY <2>1, <2>2, <2>8 DEF PartInv, Results, Run
    <3> QED BY <3>3, <3>5, <3>10, <3>13, <3>14 DEF FlagInv, PartInv
  <2>9. ASSUME ~Serial PROVE CountInv'
    <3> USE <2>9 DEF CountInv
    <3>1. \A q, tile, s : FinSplit(q, tile, s)' <=> FinSplit(q, tile, s)
      BY <2>2, <2>3, <2>7a, <2>7b DEF FinSplit
    <3>2. \A q, tile : Arrived(q, tile)' = Arrived(q, tile) BY <2>2, <3>1 DEF Arrived
    <3>3. \A q, x, n, t : Added(q, x, n, t)' <=> Added(q, x, n, t)
      BY <2>1 DEF Added, Pending, Beyond, Th, Collect
    <3>4. \A q, tile, t : Summed(q, tile, t)' = Summed(q, tile, t)
      BY <2>2, <2>3, <2>7a, <3>3 DEF Summed
    <3>5. Awaited' BY <2>1, <2>2 DEF Awaited, Th, Ds, TileOf, SplitOf, S, Granted
    <3>6. Counted' BY <2>1, <2>2, <3>1, <3>2 DEF Counted
    <3>7. Sums' /\ Wholes' BY <2>1, <2>2, <3>4, SumsSame, WholesSame
    <3> QED BY <2>1, <3>5, <3>6, <3>7
  <2>10. Serial' <=> Serial BY <2>1, Same
  <2> QED BY <2>2, <2>5, <2>6, <2>7, <2>7c, <2>7d, <2>7e, <2>8, <2>9, <2>10 DEF DrawInv, GroupInv
<1>2. CASE Next
  <2>1. CASE \E q \in Calls, x \in Ctas : Draw(q, x)
    <3>1. PICK q \in Calls, x \in Ctas : Draw(q, x) BY <2>1
    <3>2. (Ordered' <=> Ordered) /\ (Serial' <=> Serial)
      <4>1. launch' = launch BY <3>1 DEF Draw
      <4> QED BY <4>1, Same
    <3> QED BY <3>1, <3>2, DrawKeepsDraw, DrawKeepsGroup, DrawKeepsFlag, DrawKeepsPart,
             DrawKeepsCount
  <2>2. CASE \E w \in issued : Perform(w)
    <3>1. PICK w \in issued : Perform(w) BY <2>2
    <3>2. (Ordered' <=> Ordered) /\ (Serial' <=> Serial)
      <4>1. launch' = launch BY <3>1 DEF Perform
      <4> QED BY <4>1, Same
    <3> QED BY <3>1, <3>2, PerformKeepsDraw, PerformKeepsGroup, PerformKeepsFlag,
             PerformKeepsPart, PerformKeepsCount
  <2>3. CASE \E q \in Calls, x \in Ctas, t \in Threads : ThreadNext(<<q, x, t>>)
    <3>1. PICK q \in Calls, x \in Ctas, t \in Threads : ThreadNext(<<q, x, t>>) BY <2>3
    <3>2. (Ordered' <=> Ordered) /\ (Serial' <=> Serial)
      <4>1. launch' = launch BY <3>1, ThreadStep DEF DrawInv
      <4> QED BY <4>1, Same
    <3>3. DrawInv' BY <3>1, ThreadKeepsDraw
    <3>4. Ordered => FlagInv' /\ PartInv'
      BY <3>1, ThreadKeepsFlag, ThreadKeepsParts, ThreadKeepsResults DEF PartInv
    <3>5. GroupInv' BY <3>1, ThreadKeepsGroup, ThreadKeepsIssued DEF GroupInv
    <3>6. ~Serial => CountInv' BY <3>1, ThreadKeepsCount
    <3> QED BY <3>2, <3>3, <3>4, <3>5, <3>6
  <2> QED BY <1>2, <2>1, <2>2, <2>3, NextCases DEF DrawInv
<1> QED BY <1>1, <1>2

(* Every drawn id names a split of a tile, only splits before the last     *)
(* commit, and threads are at places of items, in every mode and order.    *)
THEOREM TypesHold == Spec => []TypeOK
<1>1. IInv => TypeOK
  <2> SUFFICES ASSUME IInv PROVE TypeOK OBVIOUS
  <2>1. Types /\ Bounds BY DEF IInv, DrawInv
  <2>2. ASSUME NEW q \in Calls, NEW x \in Ctas PROVE Ds(q, x) \in Seq(0..S * launch.tiles - 1)
    <3>1. Ds(q, x) \in Seq(Nat) /\ Len(Ds(q, x)) \in Nat BY <2>1 DEF Types, Ds
    <3>2. \A n \in 1..Len(Ds(q, x)) : Ds(q, x)[n] \in Nat /\ Ds(q, x)[n] < NumWork
      BY <2>1, <3>1 DEF Bounds
    <3>3. NumWork \in Nat /\ NumWork = S * launch.tiles BY <2>1, Sizes DEF NumWork
    <3>4. \A n \in 1..Len(Ds(q, x)) : Ds(q, x)[n] \in 0..NumWork - 1 BY <3>2, <3>3
    <3>5. Ds(q, x) \in [1..Len(Ds(q, x)) -> 0..NumWork - 1]
      <4>1. Ds(q, x) \in [1..Len(Ds(q, x)) -> Nat] BY <3>1
      <4> QED BY <3>4, <4>1
    <3>6. \A T : [1..Len(Ds(q, x)) -> T] \subseteq Seq(T) BY <3>1
    <3> QED BY <3>3, <3>5, <3>6
  <2>3. \A qx \in DOMAIN drawn : drawn[qx] \in Seq(0..S * launch.tiles - 1)
    BY <2>1, <2>2 DEF Types, Ds
  <2>4. \A w \in issued : w.tile \in Tiles /\ w.split \in 0..S - 2 /\ w.by \in DOMAIN thread
    BY <2>1 DEF Types
  <2> QED BY <2>1, <2>3, <2>4 DEF Types, TypeOK
<1> QED BY InitInv, NextInv, <1>1, PTL DEF Spec

(* No work id is drawn twice in a call, so no split is counted twice.      *)
THEOREM NothingDrawnTwice == Spec => []Distinct
<1>1. IInv => Distinct BY DEF IInv, DrawInv
<1> QED BY InitInv, NextInv, <1>1, PTL DEF Spec

(* While calls follow one another, the additions of every part of every    *)
(* tile happen in split order, however many CTAs, splits, threads, tiles   *)
(* and calls there are and in whatever order CTAs draw their work.         *)
THEOREM SumsAreInSplitOrder == Spec => [](~launch.overlap => SerialOrder)
<1>1. IInv => (~launch.overlap => SerialOrder)
  <2> SUFFICES ASSUME IInv, Ordered PROVE SerialOrder BY DEF SerialOrder, Ordered
  <2> QED BY DEF IInv, PartInv, Results, Run, SerialOrder
<1> QED BY InitInv, NextInv, <1>1, PTL DEF Spec

(* The sum the epilogue runs on holds every split of its own call once: in *)
(* SERIAL mode while calls follow one another, and in PARALLEL mode.       *)
THEOREM SumsAreWhole == Spec => [](~(Serial /\ launch.overlap) => FoldIsComplete)
<1>1. IInv => (~(Serial /\ launch.overlap) => FoldIsComplete)
  <2> SUFFICES ASSUME IInv, ~(Serial /\ launch.overlap),
                      NEW q \in Calls, NEW tile \in Tiles, NEW t \in Threads,
                      result[q][tile][t] # <<>>
               PROVE /\ Len(result[q][tile][t]) = S
                     /\ \A s \in 0..S - 1 : \E i \in 1..S : result[q][tile][t][i] = <<q, s>>
    BY DEF FoldIsComplete
  <2>1. CASE Serial
    <3>1. result[q][tile][t] = Run(q, S) BY <2>1 DEF IInv, Ordered, PartInv, Results
    <3>2. S \in Nat BY Sizes DEF IInv, DrawInv
    <3>3. Len(Run(q, S)) = S BY <3>2 DEF Run
    <3>4. ASSUME NEW s \in 0..S - 1 PROVE \E i \in 1..S : Run(q, S)[i] = <<q, s>>
      <4>1. s + 1 \in 1..S /\ (s + 1) - 1 = s BY <3>2
      <4>2. Run(q, S)[s + 1] = <<q, s>> BY <4>1 DEF Run
      <4> QED BY <4>1, <4>2
    <3> QED BY <3>1, <3>3, <3>4
  <2>2. CASE ~Serial
    <3>1. Complete(q, result[q][tile][t]) BY <2>2 DEF IInv, CountInv, Wholes
    <3> QED BY <3>1 DEF Complete
  <2> QED BY <2>1, <2>2
<1> QED BY InitInv, NextInv, <1>1, PTL DEF Spec

-----------------------------------------------------------------------------
(* How the work is handed out: TileSchedule.                                 *)

-----------------------------------------------------------------------------
(* The swizzle: an id within a problem of fast times slow clusters, with     *)
(* groups of group along the fast side.                                      *)
GroupOf(slow, group, id) == id \div (group * slow)
InGroup(slow, group, id) == id % (group * slow)
Width(fast, group, g) == GroupWidth(g, fast, group)
SlowOf(fast, slow, group, id) ==
  LET g == GroupOf(slow, group, id)
  IN Serpentine(g, InGroup(slow, group, id) \div Width(fast, group, g), slow)
FastOf(fast, slow, group, id) ==
  LET g == GroupOf(slow, group, id)
  IN g * group + (InGroup(slow, group, id) % Width(fast, group, g))
IdOf(fast, slow, group, a, b) ==
  LET g == a \div group
  IN g * (group * slow) + (Serpentine(g, b, slow) * Width(fast, group, g) + (a % group))

(* A row of a group is as wide as the group, but in the last group as what   *)
(* is left of the fast side.                                                 *)
LEMMA WidthIs ==
  ASSUME NEW fast \in Nat \ {0}, NEW group \in 1..fast, NEW g \in Nat, NEW r \in 0..group - 1,
         g * group + r < fast
  PROVE  /\ Width(fast, group, g) \in 1..group /\ r < Width(fast, group, g)
         /\ g * group + Width(fast, group, g) <= fast
         /\ Width(fast, group, g) = group \/ g * group + Width(fast, group, g) = fast
<1>1. PICK q \in Nat, t \in 0..group - 1 : fast = group * q + t /\ q = fast \div group /\ t = fast % group
  BY DivMod
<1>2. PICK w : w = Width(fast, group, g)  OBVIOUS
<1>3. w = IF g < q THEN group ELSE IF t > 0 THEN t ELSE 1
  BY <1>1, <1>2 DEF Width, GroupWidth
<1>0. group \in Nat \ {0}  OBVIOUS
<1>4. PICK gg \in Nat, qq \in Nat : gg = g * group /\ qq = q * group /\ group * q = qq
  <2>1. g * group \in Nat /\ q * group \in Nat /\ group * q = q * group  BY <1>1, Z3
  <2> QED  BY <2>1
<1>5. CASE g < q
  <2>1. (g + 1) * group <= q * group  BY <1>1, <1>5, MulMono
  <2>2. (g + 1) * group = gg + group  BY <1>4, Z3
  <2> QED  BY <1>1, <1>2, <1>3, <1>4, <1>5, <2>1, <2>2
<1>6. CASE g = q
  <2>0. gg = qq  BY <1>4, <1>6
  <2>1. r < t  BY <1>1, <1>4, <2>0
  <2>2. w = t  BY <1>1, <1>3, <1>6, <2>1
  <2>3. w \in 1..group /\ r < w /\ gg + w = fast  BY <1>1, <1>4, <2>0, <2>1, <2>2
  <2> QED  BY <1>2, <1>4, <2>3
<1>7. CASE g > q
  <2>1. (q + 1) * group <= g * group  BY <1>1, <1>7, MulMono
  <2>2. (q + 1) * group = qq + group  BY <1>1, <1>4, Z3
  <2> QED  BY <1>1, <1>4, <2>1, <2>2
<1> QED  BY <1>1, <1>5, <1>6, <1>7

(* A pair below its factors is below their product.                          *)
LEMMA PairBelow ==
  ASSUME NEW b \in Nat \ {0}, NEW c \in Nat, NEW k \in Nat, k < c, NEW r \in 0..b - 1
  PROVE  k * b + r \in Nat /\ k * b + r < c * b
<1>1. (k + 1) * b <= c * b  BY MulMono
<1>2. (k + 1) * b = k * b + b /\ k * b \in Nat /\ c * b \in Nat  BY Z3
<1> QED  BY <1>1, <1>2

(* Reflecting twice changes nothing.                                         *)
LEMMA Reflected ==
  ASSUME NEW slow \in Nat \ {0}, NEW g, NEW s \in 0..slow - 1
  PROVE  /\ Serpentine(g, s, slow) \in 0..slow - 1
         /\ Serpentine(g, Serpentine(g, s, slow), slow) = s
BY DEF Serpentine

(* Every id is a place in the problem, from which it can be read off ...     *)
LEMMA SwizzleIn ==
  ASSUME NEW fast \in Nat \ {0}, NEW slow \in Nat \ {0}, NEW group \in 1..fast,
         NEW id \in Nat, id < fast * slow
  PROVE  LET a == FastOf(fast, slow, group, id)
             b == SlowOf(fast, slow, group, id)
         IN a \in 0..fast - 1 /\ b \in 0..slow - 1 /\ IdOf(fast, slow, group, a, b) = id
<1>1. PICK gs \in Nat \ {0} : gs = group * slow  BY Z3
<1>2. PICK g \in Nat, i \in 0..gs - 1 :
        id = gs * g + i /\ g = GroupOf(slow, group, id) /\ i = InGroup(slow, group, id)
  BY <1>1, DivMod DEF GroupOf, InGroup
<1>3. gs * g = (g * group) * slow /\ gs * g \in Nat /\ g * group \in Nat /\ g * gs = gs * g
  BY <1>1, <1>2, Z3
<1>4. g * group < fast
  <2>1. CASE fast <= g * group
    <3>1. fast * slow <= (g * group) * slow  BY <1>3, <2>1, MulMono
    <3>2. fast * slow \in Nat  BY Z3
    <3> QED  BY <1>2, <1>3, <3>1, <3>2
  <2> QED  BY <1>3, <2>1
<1>5. PICK w : w = Width(fast, group, g)  OBVIOUS
<1>6. w \in 1..group /\ g * group + w <= fast /\ (w = group \/ g * group + w = fast)
  <2>1. 0 \in 0..group - 1 /\ g * group + 0 < fast  BY <1>3, <1>4
  <2> QED  BY <1>2, <1>5, <2>1, WidthIs
<1>7. i < w * slow
  <2>1. CASE w = group  BY <1>1, <1>2, <2>1
  <2>2. CASE g * group + w = fast
    <3>1. (g * group + w) * slow = (g * group) * slow + w * slow  BY <1>3, <1>6, Z3
    <3>2. (g * group) * slow \in Nat /\ w * slow \in Nat  BY <1>3, <1>6, Z3
    <3> QED  BY <1>2, <1>3, <2>2, <3>1, <3>2
  <2> QED  BY <1>6, <2>1, <2>2
<1>7a. w \in Nat \ {0} /\ i \in Nat /\ group \in Nat \ {0}  BY <1>1, <1>2, <1>6
<1>8. PICK s \in Nat, r \in 0..w - 1 : i = w * s + r /\ s = i \div w /\ r = i % w  BY <1>7a, DivMod
<1>9. s \in 0..slow - 1
  <2>1. i \div w < slow  BY <1>7, <1>7a, DivBound
  <2> QED  BY <1>8, <2>1
<1>10. PICK a, b : a = FastOf(fast, slow, group, id) /\ b = SlowOf(fast, slow, group, id)  OBVIOUS
<1>11. a = g * group + r /\ b = Serpentine(g, s, slow)
  BY <1>2, <1>5, <1>8, <1>10 DEF FastOf, SlowOf
<1>12. a \in 0..fast - 1 /\ r \in 0..group - 1  BY <1>3, <1>6, <1>8, <1>11
<1>13. b \in 0..slow - 1 /\ Serpentine(g, b, slow) = s  BY <1>9, <1>11, Reflected
<1>14. a \div group = g /\ a % group = r  BY <1>2, <1>7a, <1>11, <1>12, DivOf
<1>15. IdOf(fast, slow, group, a, b) = g * gs + (s * w + r)
  BY <1>1, <1>5, <1>13, <1>14 DEF IdOf
<1>16. s * w = w * s  BY <1>6, <1>8, Z3
<1>17. IdOf(fast, slow, group, a, b) = id  BY <1>2, <1>3, <1>8, <1>15, <1>16
<1> QED  BY <1>10, <1>12, <1>13, <1>17

(* ... and every place is some id's.                                         *)
LEMMA SwizzleOnto ==
  ASSUME NEW fast \in Nat \ {0}, NEW slow \in Nat \ {0}, NEW group \in 1..fast,
         NEW a \in 0..fast - 1, NEW b \in 0..slow - 1
  PROVE  LET id == IdOf(fast, slow, group, a, b)
         IN id \in Nat /\ id < fast * slow
            /\ FastOf(fast, slow, group, id) = a /\ SlowOf(fast, slow, group, id) = b
<1>1. PICK gs \in Nat \ {0} : gs = group * slow  BY Z3
<1>2. PICK g \in Nat, r \in 0..group - 1 : a = group * g + r /\ g = a \div group /\ r = a % group
  BY DivMod
<1>3. group * g = g * group /\ g * group \in Nat  BY <1>2, Z3
<1>4. PICK w : w = Width(fast, group, g)  OBVIOUS
<1>5. w \in 1..group /\ r < w /\ g * group + w <= fast
  <2>1. g * group + r < fast  BY <1>2, <1>3
  <2> QED  BY <1>2, <1>4, <2>1, WidthIs
<1>5a. w \in Nat \ {0} /\ r \in 0..w - 1 /\ group \in Nat \ {0}  BY <1>2, <1>5
<1>6. PICK s \in 0..slow - 1 : s = Serpentine(g, b, slow)  BY Reflected
<1>7. Serpentine(g, s, slow) = b  BY <1>6, Reflected
<1>8. PICK i \in Nat : i = s * w + r /\ i < slow * w
  <2>1. s \in Nat /\ s < slow  BY <1>6
  <2> QED  BY <1>5a, <2>1, PairBelow
<1>9. slow * w <= gs /\ slow * w \in Nat
  <2>1. w * slow <= group * slow  BY <1>5, MulMono
  <2>2. w * slow = slow * w /\ slow * w \in Nat  BY <1>5, Z3
  <2> QED  BY <1>1, <2>1, <2>2
<1>10. i \in 0..gs - 1  BY <1>8, <1>9
<1>11. PICK id : id = IdOf(fast, slow, group, a, b)  OBVIOUS
<1>12. id = g * gs + i  BY <1>1, <1>2, <1>4, <1>6, <1>8, <1>11 DEF IdOf
<1>13. id \div gs = g /\ id % gs = i  BY <1>2, <1>10, <1>12, DivOf
<1>14. i \div w = s /\ i % w = r
  <2>1. s \in Nat  BY <1>6
  <2> QED  BY <1>5a, <1>8, <2>1, DivOf
<1>15. FastOf(fast, slow, group, id) = a  BY <1>1, <1>2, <1>3, <1>4, <1>13, <1>14 DEF FastOf, GroupOf, InGroup
<1>16. SlowOf(fast, slow, group, id) = b
  BY <1>1, <1>4, <1>7, <1>13, <1>14 DEF SlowOf, GroupOf, InGroup
<1>17. id \in Nat /\ id < fast * slow
  <2>1. g * gs = (g * group) * slow /\ g * gs \in Nat /\ (g * group) * slow \in Nat  BY <1>1, <1>2, <1>3, Z3
  <2>2. (g * group + w) * slow = (g * group) * slow + w * slow /\ w * slow = slow * w
    BY <1>3, <1>5, Z3
  <2>3. (g * group + w) * slow <= fast * slow  BY <1>3, <1>5, MulMono
  <2>4. fast * slow \in Nat  BY Z3
  <2> QED  BY <1>8, <1>9, <1>12, <2>1, <2>2, <2>3, <2>4
<1> QED  BY <1>11, <1>15, <1>16, <1>17

(* A dense launch.                                                           *)
Shapes == (\A p \in Problems : ProblemShape(p)) /\ MaxActive \in Nat \ {0}
Dense == prob \in Problems /\ ~prob.varlen
W == WorkIds(prob)
G == GridClusters(prob)

(* What ProblemShape says of a dense launch.                                *)
LEMMA DenseShape ==
  ASSUME Shapes, Dense
  PROVE  /\ prob.m \in Nat \ {0} /\ prob.n \in Nat \ {0} /\ prob.l \in Nat \ {0}
         /\ prob.split \in Nat \ {0} /\ prob.group \in Nat \ {0} /\ prob.shards \in Nat \ {0}
         /\ prob.first \in 0..prob.shards - 1 /\ prob.m % prob.shards = 0 /\ prob.k \in Nat
         /\ prob.mode \in {"NONE", "STATIC", "DYNAMIC", "CLC"}
         /\ prob.perm \in [0..prob.l - 1 -> 0..prob.l - 1]
         /\ \A a, b \in 0..prob.l - 1 : prob.perm[a] = prob.perm[b] => a = b
         /\ \A b \in 0..prob.l - 1 : \E a \in 0..prob.l - 1 : prob.perm[a] = b
<1>1. ProblemShape(prob)  BY DEF Shapes, Dense
<1>2. {prob.n, prob.l, prob.split, prob.group, prob.shards} \subseteq Nat \ {0}
      /\ {prob.m, prob.k, prob.first} \subseteq Nat
      /\ prob.m > 0 /\ prob.m % prob.shards = 0 /\ prob.first < prob.shards
  BY <1>1 DEF ProblemShape, Dense
<1>3. prob.mode \in {"NONE", "STATIC", "DYNAMIC", "CLC"}
  BY <1>1 DEF ProblemShape, Modes
<1>4. prob.perm \in [0..prob.l - 1 -> 0..prob.l - 1] /\ IsPermutation(prob.perm)
  BY <1>1 DEF ProblemShape
<1>5. DOMAIN prob.perm = 0..prob.l - 1  BY <1>4
<1>6. /\ \A a, b \in 0..prob.l - 1 : prob.perm[a] = prob.perm[b] => a = b
      /\ \A b \in 0..prob.l - 1 : \E a \in 0..prob.l - 1 : prob.perm[a] = b
  BY <1>4, <1>5 DEF IsPermutation
<1>7. prob.first \in 0..prob.shards - 1
  <2>1. prob.first \in Nat /\ prob.shards \in Nat /\ prob.first < prob.shards  BY <1>2
  <2> QED  BY <2>1
<1>8. prob.m \in Nat \ {0}  BY <1>2
<1> QED  BY <1>2, <1>3, <1>4, <1>6, <1>7, <1>8

(* A group wider than the fast side is as wide as it.                        *)
LEMMA WideGroup ==
  ASSUME NEW fast \in Nat \ {0}, NEW slow \in Nat \ {0}, NEW wide \in Nat \ {0}, fast <= wide,
         NEW id \in Nat, id < fast * slow
  PROVE  FastOf(fast, slow, wide, id) = FastOf(fast, slow, fast, id)
         /\ SlowOf(fast, slow, wide, id) = SlowOf(fast, slow, fast, id)
<1>1. PICK fs \in Nat \ {0} : fs = fast * slow  BY Z3
<1>2. PICK ws \in Nat \ {0} : ws = wide * slow  BY Z3
<1>3. fs <= ws  BY <1>1, <1>2, MulMono
<1>4. \A d \in Nat \ {0} : id < d => id \div d = 0 /\ id % d = id
  <2> TAKE d \in Nat \ {0}
  <2>1. 0 * d + id = id  OBVIOUS
  <2>2. id < d => id \in 0..d - 1  OBVIOUS
  <2> QED  BY <2>1, <2>2, DivOf
<1>5. /\ GroupOf(slow, fast, id) = 0 /\ InGroup(slow, fast, id) = id
      /\ GroupOf(slow, wide, id) = 0 /\ InGroup(slow, wide, id) = id
  BY <1>1, <1>2, <1>3, <1>4 DEF GroupOf, InGroup
<1>6. Width(fast, fast, 0) = fast
  <2>1. fast \div fast = 1
    <3>1. 1 * fast + 0 = fast /\ 0 \in 0..fast - 1  OBVIOUS
    <3> QED  BY <3>1, DivOf
  <2> QED  BY <2>1 DEF Width, GroupWidth
<1>7. Width(fast, wide, 0) = fast
  <2>1. CASE fast = wide  BY <1>6, <2>1
  <2>2. CASE fast < wide
    <3>1. 0 * wide + fast = fast /\ fast \in 0..wide - 1  BY <2>2
    <3>2. fast \div wide = 0 /\ fast % wide = fast  BY <3>1, DivOf
    <3> QED  BY <3>2 DEF Width, GroupWidth
  <2> QED  BY <2>1, <2>2
<1>8. PICK q, r : q = Serpentine(0, id \div fast, slow) /\ r = id % fast  OBVIOUS
<1>9. /\ SlowOf(fast, slow, wide, id) = q /\ SlowOf(fast, slow, fast, id) = q
  BY <1>5, <1>6, <1>7, <1>8 DEF SlowOf
<1>10. FastOf(fast, slow, wide, id) = 0 * wide + r /\ FastOf(fast, slow, fast, id) = 0 * fast + r
  BY <1>5, <1>6, <1>7, <1>8 DEF FastOf
<1>11. 0 * wide = 0 /\ 0 * fast = 0  OBVIOUS
<1> QED  BY <1>9, <1>10, <1>11

(* The swizzle of a problem of some rows.                                    *)
LEMMA SwizzleIs ==
  ASSUME Shapes, prob \in Problems, NEW rows \in Nat \ {0}
  PROVE  /\ \A id \in Nat : id < rows * prob.n =>
              /\ SwizzleCta(prob, id, rows) \in [m : 0..rows - 1, n : 0..prob.n - 1]
              /\ \A other \in Nat : other < rows * prob.n
                   /\ SwizzleCta(prob, other, rows) = SwizzleCta(prob, id, rows)
                   => other = id
         /\ \A m \in 0..rows - 1, n \in 0..prob.n - 1 : \E id \in Nat :
              id < rows * prob.n /\ SwizzleCta(prob, id, rows) = [m |-> m, n |-> n]
<1>0. prob.n \in Nat \ {0} /\ prob.group \in Nat \ {0}
  <2>1. ProblemShape(prob)  BY DEF Shapes
  <2> QED  BY <2>1 DEF ProblemShape
<1>1. PICK alongM : alongM = (RasterOrder(prob) = "AlongM")  OBVIOUS
<1>2. PICK fast \in Nat \ {0}, slow \in Nat \ {0} :
        fast = (IF alongM THEN rows ELSE prob.n) /\ slow = (IF alongM THEN prob.n ELSE rows)
  BY <1>0, <1>1
<1>3. PICK group \in 1..fast : group = Lower(prob.group, fast)
  BY <1>0 DEF Lower
<1>4. fast * slow = rows * prob.n
  <2>1. prob.n * rows = rows * prob.n  BY <1>0, Z3
  <2> QED  BY <1>2, <2>1
<1>5. ASSUME NEW id \in Nat, id < rows * prob.n
      PROVE  SwizzleCta(prob, id, rows) =
        IF alongM THEN [m |-> FastOf(fast, slow, group, id), n |-> SlowOf(fast, slow, group, id)]
                  ELSE [m |-> SlowOf(fast, slow, group, id), n |-> FastOf(fast, slow, group, id)]
  <2>1. PICK wide \in Nat \ {0} : wide = IF prob.varlen /\ alongM THEN prob.group ELSE group
    BY <1>0, <1>3
  <2>2. SwizzleCta(prob, id, rows) =
          IF alongM THEN [m |-> FastOf(fast, slow, wide, id), n |-> SlowOf(fast, slow, wide, id)]
                    ELSE [m |-> SlowOf(fast, slow, wide, id), n |-> FastOf(fast, slow, wide, id)]
    BY <1>1, <1>2, <1>3, <2>1 DEF SwizzleCta, FastOf, SlowOf, GroupOf, InGroup, Width
  <2>3. wide = group \/ (group = fast /\ fast <= wide)  BY <1>0, <1>3, <2>1 DEF Lower
  <2>4. CASE wide = group  BY <2>2, <2>4
  <2>5. CASE group = fast /\ fast <= wide
    <3>1. id < fast * slow  BY <1>4, <1>5
    <3> QED  BY <2>2, <2>5, <3>1, WideGroup
  <2> QED  BY <2>3, <2>4, <2>5
<1>6. ASSUME NEW id \in Nat, id < rows * prob.n
      PROVE  SwizzleCta(prob, id, rows) \in [m : 0..rows - 1, n : 0..prob.n - 1]
  <2>1. PICK a, b : a = FastOf(fast, slow, group, id) /\ b = SlowOf(fast, slow, group, id)  OBVIOUS
  <2>2. a \in 0..fast - 1 /\ b \in 0..slow - 1  BY <1>4, <1>6, <2>1, SwizzleIn
  <2> QED  BY <1>2, <1>5, <1>6, <2>1, <2>2
<1>7. ASSUME NEW id \in Nat, id < rows * prob.n, NEW other \in Nat, other < rows * prob.n,
             SwizzleCta(prob, other, rows) = SwizzleCta(prob, id, rows)
      PROVE  other = id
  <2>1. /\ FastOf(fast, slow, group, id) = FastOf(fast, slow, group, other)
        /\ SlowOf(fast, slow, group, id) = SlowOf(fast, slow, group, other)
    <3>1. PICK a, b, c, d : /\ a = FastOf(fast, slow, group, id) /\ b = SlowOf(fast, slow, group, id)
                            /\ c = FastOf(fast, slow, group, other) /\ d = SlowOf(fast, slow, group, other)
      OBVIOUS
    <3>2. /\ SwizzleCta(prob, id, rows) = IF alongM THEN [m |-> a, n |-> b] ELSE [m |-> b, n |-> a]
          /\ SwizzleCta(prob, other, rows) = IF alongM THEN [m |-> c, n |-> d] ELSE [m |-> d, n |-> c]
      BY <1>5, <1>7, <3>1
    <3>3. a = c /\ b = d
      <4>1. CASE alongM  BY <1>7, <3>2, <4>1
      <4>2. CASE ~alongM  BY <1>7, <3>2, <4>2
      <4> QED  BY <4>1, <4>2
    <3> QED  BY <3>1, <3>3
  <2>2. IdOf(fast, slow, group, FastOf(fast, slow, group, id), SlowOf(fast, slow, group, id)) = id
    BY <1>4, <1>7, SwizzleIn
  <2>3. IdOf(fast, slow, group, FastOf(fast, slow, group, other), SlowOf(fast, slow, group, other)) = other
    BY <1>4, <1>7, SwizzleIn
  <2> QED  BY <2>1, <2>2, <2>3
<1>8. ASSUME NEW m \in 0..rows - 1, NEW n \in 0..prob.n - 1
      PROVE  \E id \in Nat : id < rows * prob.n /\ SwizzleCta(prob, id, rows) = [m |-> m, n |-> n]
  <2>1. PICK a \in 0..fast - 1, b \in 0..slow - 1 :
          a = (IF alongM THEN m ELSE n) /\ b = (IF alongM THEN n ELSE m)
    BY <1>2
  <2>2. PICK id : id = IdOf(fast, slow, group, a, b)  OBVIOUS
  <2>3. /\ id \in Nat /\ id < fast * slow
        /\ FastOf(fast, slow, group, id) = a /\ SlowOf(fast, slow, group, id) = b
    BY <2>2, SwizzleOnto
  <2> QED  BY <1>4, <1>5, <2>1, <2>3
<1> QED  BY <1>6, <1>7, <1>8

(* A product of three.                                                       *)
LEMMA Assoc == ASSUME NEW a \in Nat, NEW b \in Nat, NEW c \in Nat PROVE (a * b) * c = a * (b * c)
BY Z3

(* The rotation of the AllGather: an id's shard and its place in it.         *)
Rows == prob.m \div prob.shards
Rotated(j) == IF j + prob.first >= prob.shards THEN j + prob.first - prob.shards ELSE j + prob.first
Spot(id) ==
  [m |-> SwizzleCta(prob, id % (Rows * prob.n), Rows).m
           + Rotated(id \div (Rows * prob.n)) * Rows,
   n |-> SwizzleCta(prob, id % (Rows * prob.n), Rows).n]
Area == prob.m * prob.n

(* Every shard has as many rows of clusters.                                 *)
LEMMA RowsAre == ASSUME Shapes, Dense
  PROVE  Rows \in Nat \ {0} /\ prob.m = prob.shards * Rows /\ Rows * prob.n \in Nat \ {0}
<1>1. PICK sh \in Nat \ {0} : sh = prob.shards  BY DenseShape
<1>2. PICK rows \in Nat : rows = prob.m \div sh /\ prob.m = sh * rows
  <2>1. PICK m \in Nat : m = prob.m /\ m % sh = 0  BY <1>1, DenseShape
  <2>2. m \div sh \in Nat /\ m = sh * (m \div sh) + (m % sh)  BY <2>1, DivMod
  <2>3. PICK d \in Nat : d = m \div sh  BY <2>2
  <2>4. sh * d \in Nat  BY Z3
  <2>5. m = sh * d  BY <2>1, <2>2, <2>3, <2>4
  <2> QED  BY <2>1, <2>3, <2>5
<1>3. rows = 0 => prob.m = 0  BY <1>1, <1>2, Z3
<1>4. rows \in Nat \ {0}  BY <1>2, <1>3, DenseShape
<1>5. PICK n \in Nat \ {0} : n = prob.n  BY DenseShape
<1>6. rows * n \in Nat \ {0}  BY <1>4, Z3
<1> QED  BY <1>1, <1>2, <1>4, <1>5, <1>6 DEF Rows

(* The ids and the cluster tiles of an output correspond one to one.        *)
LEMMA SpotIs ==
  ASSUME Shapes, Dense
  PROVE  /\ Area \in Nat \ {0}
         /\ \A id \in 0..Area - 1 : Spot(id) \in [m : 0..prob.m - 1, n : 0..prob.n - 1]
         /\ \A id, other \in 0..Area - 1 : Spot(id) = Spot(other) => id = other
         /\ \A m \in 0..prob.m - 1, n \in 0..prob.n - 1 : \E id \in 0..Area - 1 :
              Spot(id) = [m |-> m, n |-> n]
<1>1. PICK sh \in Nat \ {0} : sh = prob.shards  BY DenseShape
<1>2. PICK rows \in Nat : rows = prob.m \div sh /\ prob.m = sh * rows /\ rows = Rows
  BY <1>1, RowsAre DEF Rows
<1>3. rows \in Nat \ {0}  BY <1>2, RowsAre
<1>4. PICK per \in Nat \ {0} : per = rows * prob.n  BY <1>2, RowsAre
<1>5. Area \in Nat \ {0} /\ Area = sh * per
  <2>1. prob.m * prob.n \in Nat \ {0}  BY DenseShape, Z3
  <2>2. (sh * rows) * prob.n = sh * (rows * prob.n)  BY <1>3, DenseShape, Assoc
  <2> QED  BY <1>2, <1>4, <2>1, <2>2 DEF Area
<1> DEFINE Turn(j) == IF j + prob.first >= sh THEN j + prob.first - sh ELSE j + prob.first
<1>6. /\ \A j \in 0..sh - 1 : Turn(j) \in 0..sh - 1
      /\ \A i, j \in 0..sh - 1 : Turn(i) = Turn(j) => i = j
      /\ \A t \in 0..sh - 1 : \E j \in 0..sh - 1 : Turn(j) = t
  <2>1. prob.first \in 0..sh - 1  BY <1>1, DenseShape
  <2>2. ASSUME NEW t \in 0..sh - 1 PROVE \E j \in 0..sh - 1 : Turn(j) = t
    <3>1. CASE t >= prob.first
      <4>1. t - prob.first \in 0..sh - 1 /\ Turn(t - prob.first) = t  BY <1>1, <2>1, <3>1
      <4> QED  BY <4>1
    <3>2. CASE t < prob.first
      <4>1. t - prob.first + sh \in 0..sh - 1 /\ Turn(t - prob.first + sh) = t  BY <1>1, <2>1, <3>2
      <4> QED  BY <4>1
    <3> QED  BY <2>1, <3>1, <3>2
  <2> QED  BY <1>1, <2>1, <2>2
<1> DEFINE Cid(i) == SwizzleCta(prob, i, rows)
<1>7. \A id : Spot(id) = [m |-> Cid(id % per).m + Turn(id \div per) * rows, n |-> Cid(id % per).n]
  <2> SUFFICES ASSUME NEW id
               PROVE  Spot(id) = [m |-> Cid(id % per).m + Turn(id \div per) * rows, n |-> Cid(id % per).n]
    OBVIOUS
  <2>1. Rows = rows /\ Rows * prob.n = per  BY <1>1, <1>2, <1>4 DEF Rows
  <2>2. \A j : Rotated(j) = Turn(j)  BY <1>1 DEF Rotated
  <2> QED  BY <2>1, <2>2 DEF Spot
<1>8. /\ \A i \in 0..per - 1 : Cid(i) \in [m : 0..rows - 1, n : 0..prob.n - 1]
      /\ \A i, j \in 0..per - 1 : Cid(i) = Cid(j) => i = j
      /\ \A m \in 0..rows - 1, n \in 0..prob.n - 1 : \E i \in 0..per - 1 : Cid(i) = [m |-> m, n |-> n]
  <2>1. \A i \in Nat : i < rows * prob.n <=> i \in 0..per - 1  BY <1>4
  <2>2. prob \in Problems  BY DEF Dense
  <2> QED  BY <1>3, <2>1, <2>2, SwizzleIs
<1> HIDE DEF Turn, Cid
<1>9. ASSUME NEW id \in 0..Area - 1
      PROVE  id \div per \in 0..sh - 1 /\ id % per \in 0..per - 1 /\ id = per * (id \div per) + (id % per)
  <2>1. id \in Nat /\ id < per * sh
    <3>1. sh * per = per * sh  BY <1>1, <1>4, Z3
    <3> QED  BY <1>5, <3>1
  <2>2. id \div per < sh  BY <1>1, <1>4, <2>1, DivBound
  <2>3. PICK q, i : q = id \div per /\ i = id % per  OBVIOUS
  <2>4. q \in Nat /\ i \in 0..per - 1 /\ id = per * q + i  BY <1>4, <2>1, <2>3, DivMod
  <2>5. q \in 0..sh - 1  BY <1>1, <2>2, <2>3, <2>4
  <2> QED  BY <2>3, <2>4, <2>5
<1>10. ASSUME NEW id \in 0..Area - 1 PROVE Spot(id) \in [m : 0..prob.m - 1, n : 0..prob.n - 1]
  <2>1. PICK t \in 0..sh - 1 : t = Turn(id \div per)  BY <1>6, <1>9
  <2>2. PICK c \in [m : 0..rows - 1, n : 0..prob.n - 1] : c = Cid(id % per)  BY <1>8, <1>9
  <2>3. t * rows + c.m \in Nat /\ t * rows + c.m < sh * rows
    <3>1. t \in Nat /\ t < sh /\ c.m \in 0..rows - 1  BY <2>1, <2>2
    <3> QED  BY <1>1, <1>3, <3>1, PairBelow
  <2>4. t \in Nat /\ t * rows \in Nat /\ c.m \in Nat
    <3>1. t \in Nat /\ c.m \in Nat  BY <2>1, <2>2
    <3> QED  BY <1>3, <3>1, Z3
  <2>5. c.m + t * rows \in 0..prob.m - 1
    <3>1. PICK y \in Nat, z \in Nat : y = t * rows /\ z = prob.m  BY <2>4, DenseShape
    <3>2. y + c.m < z  BY <1>2, <2>3, <3>1
    <3> QED  BY <2>4, <3>1, <3>2
  <2> QED  BY <1>7, <2>1, <2>2, <2>5
<1>11. ASSUME NEW id \in 0..Area - 1, NEW other \in 0..Area - 1, Spot(id) = Spot(other) PROVE id = other
  <2>1. PICK t \in 0..sh - 1, u \in 0..sh - 1 : t = Turn(id \div per) /\ u = Turn(other \div per)
    BY <1>6, <1>9
  <2>2. PICK c \in [m : 0..rows - 1, n : 0..prob.n - 1], d \in [m : 0..rows - 1, n : 0..prob.n - 1] :
          c = Cid(id % per) /\ d = Cid(other % per)
    BY <1>8, <1>9
  <2>3. c.m + t * rows = d.m + u * rows /\ c.n = d.n  BY <1>7, <1>11, <2>1, <2>2
  <2>4. c.m = d.m /\ t = u
    <3>1. c.m \in 0..rows - 1 /\ d.m \in 0..rows - 1 /\ t \in Nat /\ u \in Nat  BY <2>1, <2>2
    <3> QED  BY <1>3, <2>3, <3>1, Unique
  <2>5. c = d  BY <2>2, <2>3, <2>4
  <2>6. id \div per = other \div per /\ id % per = other % per
    BY <1>6, <1>8, <1>9, <2>1, <2>2, <2>4, <2>5
  <2> QED  BY <1>9, <2>6
<1>12. ASSUME NEW m \in 0..prob.m - 1, NEW n \in 0..prob.n - 1
       PROVE  \E id \in 0..Area - 1 : Spot(id) = [m |-> m, n |-> n]
  <2>0. m \in Nat /\ m < rows * sh
    <3>1. rows * sh = sh * rows  BY <1>1, <1>3, Z3
    <3> QED  BY <1>2, <3>1, DenseShape
  <2>1. PICK t \in 0..sh - 1, a \in 0..rows - 1 : m = rows * t + a
    <3>1. m \div rows < sh  BY <1>1, <1>3, <2>0, DivBound
    <3>2. m \div rows \in Nat /\ m % rows \in 0..rows - 1 /\ m = rows * (m \div rows) + (m % rows)
      BY <1>3, <2>0, DivMod
    <3>3. PICK q, i : q = m \div rows /\ i = m % rows  OBVIOUS
    <3>4. q \in 0..sh - 1 /\ i \in 0..rows - 1 /\ m = rows * q + i  BY <1>1, <3>1, <3>2, <3>3
    <3> QED  BY <3>4
  <2>2. PICK j \in 0..sh - 1 : Turn(j) = t  BY <1>6
  <2>3. PICK i \in 0..per - 1 : Cid(i) = [m |-> a, n |-> n]  BY <1>8
  <2>4. PICK id : id = j * per + i  OBVIOUS
  <2>5. id \in 0..Area - 1
    <3>1. j \in Nat /\ j < sh  BY <2>2
    <3>2. id \in Nat /\ id < sh * per  BY <1>1, <1>4, <2>3, <2>4, <3>1, PairBelow
    <3> QED  BY <1>5, <3>2
  <2>6. id \div per = j /\ id % per = i
    <3>1. j \in Nat /\ i \in 0..per - 1 /\ per \in Nat \ {0}  BY <1>4, <2>2, <2>3
    <3>2. (j * per + i) \div per = j /\ (j * per + i) % per = i  BY <3>1, DivOf
    <3> QED  BY <2>4, <3>2
  <2>7. a + t * rows = m
    <3>1. t * rows = rows * t /\ rows * t \in Nat  BY <1>3, <2>1, Z3
    <3> QED  BY <2>1, <3>1
  <2>8. Spot(id) = [m |-> a + t * rows, n |-> n]  BY <1>7, <2>2, <2>3, <2>6
  <2> QED  BY <2>5, <2>7, <2>8
<1> QED  BY <1>5, <1>10, <1>11, <1>12
(* The tile of an index, by its spot.                                       *)
LEMMA TileHas == ASSUME Shapes, Dense, NEW x, NEW z, IdInProblem(prob, x) \in Nat
  PROVE LET id == IdInProblem(prob, x)  IN
     DenseTile(prob, x, z) = [m |-> Spot(id).m, n |-> Spot(id).n,
      split |-> CombinedZ(prob, x, z) % prob.split,
      b |-> BatchOf(prob, CombinedZ(prob, x, z))]
<1>1. PICK id, zc : id = IdInProblem(prob, x) /\ zc = CombinedZ(prob, x, z)  OBVIOUS
<1>2. PICK r, q : r = prob.m \div prob.shards /\ q = r * prob.n  OBVIOUS
<1>3. PICK j, i : j = id \div q /\ i = id % q  OBVIOUS
<1>4. PICK a : a = j + prob.first  OBVIOUS
<1>5. PICK c : c = SwizzleCta(prob, i, r) OBVIOUS
<1>6. PICK sh : sh = IF a >= prob.shards THEN a - prob.shards ELSE a OBVIOUS
<1>7. PICK g, h : g = zc % prob.split /\ h = BatchOf(prob, zc) OBVIOUS
<1>8. DenseTile(prob, x, z) = [m |-> c.m + sh * r, n |-> c.n, split |-> g, b |-> h]
  BY <1>1, <1>2, <1>3, <1>4, <1>5, <1>6, <1>7, Z3 DEF DenseTile
<1>9. Spot(id) = [m |-> c.m + sh * r, n |-> c.n]
  <2>1. Rows = r  BY <1>2 DEF Rows
  <2>2. Rows * prob.n = q  BY <1>2, <2>1
  <2>a. Rows * prob.n \in Nat \ {0}  BY RowsAre
  <2>b. j \in Nat  BY <1>1, <1>3, <2>2, <2>a, DivMod
  <2>3. sh = Rotated(j)  BY <1>4, <1>6, <2>b, DenseShape DEF Rotated
  <2> QED  BY <1>3, <1>5, <2>1, <2>2, <2>3 DEF Spot
<1> QED BY <1>1, <1>7, <1>8, <1>9


(* The three digits of a number of mixed radix.                              *)
Low(p, i) == i % p
Mid(p, q, i) == (i \div p) % q
Top(p, q, i) == (i \div p) \div q
Number(p, q, a, b, d) == (d * q + b) * p + a

(* A number below the product of the three radices is its digits ...        *)
LEMMA DigitsIn ==
  ASSUME NEW p \in Nat \ {0}, NEW q \in Nat \ {0}, NEW r \in Nat \ {0}, NEW i \in Nat, i < r * q * p
  PROVE  /\ Low(p, i) \in 0..p - 1 /\ Mid(p, q, i) \in 0..q - 1 /\ Top(p, q, i) \in 0..r - 1
         /\ Number(p, q, Low(p, i), Mid(p, q, i), Top(p, q, i)) = i
<1>1. PICK j, a : j = i \div p /\ a = i % p  OBVIOUS
<1>2. j \in Nat /\ a \in 0..p - 1 /\ i = p * j + a  BY <1>1, DivMod
<1>3. PICK rq \in Nat \ {0} : rq = r * q
  <2>1. r * q \in Nat \ {0}  BY Z3
  <2> QED  BY <2>1
<1>4. i < p * rq
  <2>1. rq * p = p * rq  BY <1>3, Z3
  <2> QED  BY <1>3, <2>1
<1>5. j < rq
  <2>1. rq * p = p * rq  BY <1>3, Z3
  <2>2. i \div p < rq  BY <1>3, <1>4, <2>1, DivBound
  <2> QED  BY <1>1, <2>2
<1>6. PICK d, b : d = j \div q /\ b = j % q  OBVIOUS
<1>7. d \in Nat /\ b \in 0..q - 1 /\ j = q * d + b  BY <1>2, <1>6, DivMod
<1>8. j \div q < r  BY <1>2, <1>3, <1>5, DivBound
<1>9. d \in 0..r - 1  BY <1>6, <1>7, <1>8
<1>10. q * d = d * q /\ p * j = j * p  BY <1>2, <1>7, Z3
<1>11. Number(p, q, a, b, d) = i  BY <1>2, <1>7, <1>10 DEF Number
<1> QED  BY <1>1, <1>2, <1>6, <1>7, <1>9, <1>11 DEF Low, Mid, Top

EachNumbered(p, q, r) ==
  \A a \in 0..p - 1, b \in 0..q - 1, d \in 0..r - 1 : \E i \in 0..r * q * p - 1 :
    Low(p, i) = a /\ Mid(p, q, i) = b /\ Top(p, q, i) = d

(* ... and all digits are those of such a number.                           *)
LEMMA DigitsOnto == \A p, q, r \in Nat \ {0} : EachNumbered(p, q, r)
<1> SUFFICES ASSUME NEW p \in Nat \ {0}, NEW q \in Nat \ {0}, NEW r \in Nat \ {0},
                    NEW a \in 0..p - 1, NEW b \in 0..q - 1, NEW d \in 0..r - 1
             PROVE  \E i \in 0..r * q * p - 1 : Low(p, i) = a /\ Mid(p, q, i) = b /\ Top(p, q, i) = d
  BY DEF EachNumbered
<1>1. PICK j : j = d * q + b  OBVIOUS
<1>2. j \in Nat /\ j < r * q
  <2>1. d \in Nat /\ d < r  OBVIOUS
  <2> QED  BY <1>1, <2>1, PairBelow
<1>3. PICK rq \in Nat \ {0} : rq = r * q
  <2>1. r * q \in Nat \ {0}  BY Z3
  <2> QED  BY <2>1
<1>4. PICK i : i = j * p + a  OBVIOUS
<1>5. i \in Nat /\ i < rq * p  BY <1>2, <1>3, <1>4, PairBelow
<1>6. i \div p = j /\ i % p = a
  <2>1. (j * p + a) \div p = j /\ (j * p + a) % p = a  BY <1>2, DivOf
  <2> QED  BY <1>4, <2>1
<1>7. j \div q = d /\ j % q = b
  <2>1. d \in Nat  OBVIOUS
  <2>2. (d * q + b) \div q = d /\ (d * q + b) % q = b  BY <2>1, DivOf
  <2> QED  BY <1>1, <2>2
<1>8. i \in 0..r * q * p - 1
  <2>1. PICK n \in Nat : n = rq * p  BY <1>3, Z3
  <2> QED  BY <1>3, <1>5, <2>1
<1> QED  BY <1>6, <1>7, <1>8 DEF Low, Mid, Top

-----------------------------------------------------------------------------
(* A nonempty set of naturals has a least element.                           *)
LEMMA Least == ASSUME NEW T \in SUBSET Nat, T # {} PROVE \E x \in T : \A y \in T : x <= y
<1> DEFINE R == {ss \in Nat \X Nat : ss[1] < ss[2]}
<1>1. R = OpToRel(<, Nat) BY DEF OpToRel
<1>2. IsWellFoundedOn(R, Nat) BY <1>1, NatLessThanWellFounded
<1>3. \A a, b \in Nat : a < b => <<a, b>> \in R OBVIOUS
<1> HIDE DEF R
<1>4. PICK x \in T : \A y \in T : ~(<<y, x>> \in R) BY <1>2, WFMin
<1>5. \A y \in T : x <= y
  <2> TAKE y \in T
  <2>1. x \in Nat /\ y \in Nat OBVIOUS
  <2>2. ~(y < x) BY <2>1, <1>3, <1>4
  <2> QED BY <2>1, <2>2
<1> QED BY <1>5

-----------------------------------------------------------------------------
(* Sums. The partial sums of f up to n; those of its values on s alone.      *)
Prefixes(f, n) == {b \in [0..n -> Nat] : b[0] = 0 /\ \A i \in 0..n - 1 : b[i + 1] = b[i] + f[i]}
Only(f, s) == [i \in Nat |-> IF i \in s THEN f[i] ELSE 0]

LEMMA PrefixesExist == ASSUME NEW f \in [Nat -> Nat], NEW n \in Nat PROVE Prefixes(f, n) # {}
<1> DEFINE T == {m \in Nat : Prefixes(f, m) = {}}
<1>1. SUFFICES ASSUME T # {} PROVE FALSE OBVIOUS
<1>2. T \in SUBSET Nat OBVIOUS
<1>3. PICK m \in T : \A y \in T : m <= y BY <1>1, <1>2, Least
<1>4. m # 0
  <2>1. [i \in 0..0 |-> 0] \in Prefixes(f, 0) BY DEF Prefixes
  <2> QED BY <2>1
<1>5. PICK k \in Nat : m = k + 1
  <2>1. m - 1 \in Nat /\ m = (m - 1) + 1 BY <1>4
  <2> QED BY <2>1
<1>6. PICK b : b \in Prefixes(f, k) BY <1>3, <1>5
<1>7. b \in [0..k -> Nat] /\ b[0] = 0 /\ \A i \in 0..k - 1 : b[i + 1] = b[i] + f[i] BY <1>6 DEF Prefixes
<1> DEFINE g == [i \in 0..k + 1 |-> IF i = k + 1 THEN b[k] + f[k] ELSE b[i]]
<1>8. b[k] \in Nat /\ f[k] \in Nat BY <1>7
<1>9. g \in [0..k + 1 -> Nat]
  <2>1. \A i \in 0..k + 1 : i # k + 1 => b[i] \in Nat BY <1>7
  <2> QED BY <1>8, <2>1
<1>10. g[0] = 0 BY <1>7
<1>11. ASSUME NEW i \in 0..k PROVE g[i + 1] = g[i] + f[i]
  <2>1. CASE i = k BY <2>1
  <2>2. CASE i # k
    <3>1. i \in 0..k - 1 /\ i + 1 # k + 1 /\ i # k + 1 /\ i + 1 \in 0..k + 1 /\ i \in 0..k + 1 BY <2>2
    <3> QED BY <1>7, <3>1
  <2> QED BY <2>1, <2>2
<1> HIDE DEF g
<1>12. g \in Prefixes(f, k + 1)
  <2>1. \A i \in 0..(k + 1) - 1 : i \in 0..k OBVIOUS
  <2> QED BY <1>9, <1>10, <1>11, <2>1 DEF Prefixes
<1> QED BY <1>3, <1>5, <1>12

SumOf(f, s, n) == (CHOOSE b : b \in Prefixes(Only(f, s), n))[n]

Partial(b, f, s, n) ==
  /\ b \in [0..n -> Nat] /\ b[0] = 0
  /\ \A i \in 0..n - 1 : b[i + 1] = b[i] + (IF i \in s THEN f[i] ELSE 0)

LEMMA SumIs ==
  ASSUME NEW f \in [Nat -> Nat], NEW s, NEW n \in Nat
  PROVE  \E b : Partial(b, f, s, n) /\ SumOf(f, s, n) = b[n]
<1>1. Only(f, s) \in [Nat -> Nat] BY DEF Only
<1>2. Prefixes(Only(f, s), n) # {} BY <1>1, PrefixesExist
<1>3. PICK e : e = Prefixes(Only(f, s), n) OBVIOUS
<1>4. PICK b : b = CHOOSE c : c \in e OBVIOUS
<1>5. b \in Prefixes(Only(f, s), n) BY <1>2, <1>3, <1>4
<1>6. SumOf(f, s, n) = b[n] BY <1>3, <1>4 DEF SumOf
<1>7. \A i \in 0..n - 1 : Only(f, s)[i] = IF i \in s THEN f[i] ELSE 0
  <2>1. \A i \in 0..n - 1 : i \in Nat OBVIOUS
  <2> QED BY <2>1 DEF Only
<1>8. Partial(b, f, s, n) BY <1>5, <1>7 DEF Prefixes, Partial
<1> QED BY <1>6, <1>8

(* The sum over nothing.                                                     *)
LEMMA SumOfNone == ASSUME NEW f \in [Nat -> Nat], NEW n \in Nat PROVE SumOf(f, {}, n) = 0
<1>1. PICK b : Partial(b, f, {}, n) /\ SumOf(f, {}, n) = b[n] BY SumIs
<1>2. /\ b \in [0..n -> Nat] /\ b[0] = 0
      /\ \A i \in 0..n - 1 : b[i + 1] = b[i] + (IF i \in {} THEN f[i] ELSE 0)
  BY <1>1 DEF Partial
<1>2a. \A i \in 0..n - 1 : b[i + 1] = b[i] + 0 BY <1>2
<1> DEFINE T == {i \in 0..n : b[i] # 0}
<1>3. T = {}
  <2>1. SUFFICES ASSUME T # {} PROVE FALSE OBVIOUS
  <2>2. T \in SUBSET Nat OBVIOUS
  <2>3. PICK m \in T : \A y \in T : m <= y BY <2>1, <2>2, Least
  <2>4. m # 0 BY <1>2
  <2>5. m - 1 \in 0..n - 1 /\ (m - 1) + 1 = m /\ m - 1 \in 0..n BY <2>3, <2>4
  <2>6. m - 1 \notin T BY <2>3, <2>5
  <2> QED BY <1>2a, <1>2, <2>3, <2>5, <2>6
<1> QED BY <1>1, <1>3

(* An element adds its value.                                                *)
LEMMA SumOfWith ==
  ASSUME NEW f \in [Nat -> Nat], NEW n \in Nat, NEW s \in SUBSET (0..n - 1), NEW x \in s
  PROVE  SumOf(f, s, n) = f[x] + SumOf(f, s \ {x}, n)
<1>1. PICK b : Partial(b, f, s, n) /\ SumOf(f, s, n) = b[n] BY SumIs
<1>2. PICK c : Partial(c, f, s \ {x}, n) /\ SumOf(f, s \ {x}, n) = c[n] BY SumIs
<1>3. /\ b \in [0..n -> Nat] /\ b[0] = 0
      /\ \A i \in 0..n - 1 : b[i + 1] = b[i] + (IF i \in s THEN f[i] ELSE 0)
  BY <1>1 DEF Partial
<1>4. /\ c \in [0..n -> Nat] /\ c[0] = 0
      /\ \A i \in 0..n - 1 : c[i + 1] = c[i] + (IF i \in s \ {x} THEN f[i] ELSE 0)
  BY <1>2 DEF Partial
<1>5. x \in 0..n - 1 /\ f[x] \in Nat OBVIOUS
<1> DEFINE T == {i \in 0..n : b[i] # c[i] + (IF i > x THEN f[x] ELSE 0)}
<1>6. T = {}
  <2>1. SUFFICES ASSUME T # {} PROVE FALSE OBVIOUS
  <2>2. T \in SUBSET Nat OBVIOUS
  <2>3. PICK m \in T : \A y \in T : m <= y BY <2>1, <2>2, Least
  <2>4. m # 0 BY <1>3, <1>4, <1>5
  <2>5. PICK k \in 0..n - 1 : m = k + 1 /\ k \in 0..n
    <3>1. m - 1 \in 0..n - 1 /\ (m - 1) + 1 = m /\ m - 1 \in 0..n BY <2>3, <2>4
    <3> QED BY <3>1
  <2>6. k \notin T BY <2>3, <2>5
  <2>7. b[k] = c[k] + (IF k > x THEN f[x] ELSE 0) BY <2>5, <2>6
  <2>8. b[k] \in Nat /\ c[k] \in Nat /\ f[k] \in Nat
    <3>1. k \in 0..n /\ k \in Nat BY <2>5
    <3> QED BY <1>3, <1>4, <3>1
  <2>9. b[m] = c[m] + (IF m > x THEN f[x] ELSE 0)
    <3>1. b[m] = b[k] + (IF k \in s THEN f[k] ELSE 0) /\ c[m] = c[k] + (IF k \in s \ {x} THEN f[k] ELSE 0)
      BY <1>3, <1>4, <2>5
    <3>2. CASE k = x BY <1>5, <2>5, <2>7, <2>8, <3>1, <3>2
    <3>3. CASE k # x BY <1>5, <2>5, <2>7, <2>8, <3>1, <3>3
    <3> QED BY <3>2, <3>3
  <2> QED BY <2>3, <2>9
<1>7. b[n] = c[n] + f[x] BY <1>5, <1>6
<1>8. c[n] \in Nat BY <1>4
<1> QED BY <1>1, <1>2, <1>5, <1>7, <1>8

LEMMA SumIsNat == ASSUME NEW f \in [Nat -> Nat], NEW n \in Nat, NEW s PROVE SumOf(f, s, n) \in Nat
<1>1. PICK b : Partial(b, f, s, n) /\ SumOf(f, s, n) = b[n] BY SumIs
<1> QED BY <1>1 DEF Partial

(* The fold over a set of naturals is its sum: it exists, and the order in   *)
(* which it takes the elements does not matter.                              *)
Solves(h, f, dom) ==
  h = [s \in SUBSET dom |-> IF s = {} THEN 0 ELSE f[CHOOSE x \in s : TRUE] + h[s \ {CHOOSE x \in s : TRUE}]]

LEMMA FoldExists ==
  ASSUME NEW f \in [Nat -> Nat], NEW n \in Nat, NEW dom \in SUBSET (0..n - 1)
  PROVE  \E h : Solves(h, f, dom)
<1> DEFINE h == [s \in SUBSET dom |-> SumOf(f, s, n)]
           step(s) == IF s = {} THEN 0 ELSE f[CHOOSE x \in s : TRUE] + h[s \ {CHOOSE x \in s : TRUE}]
<1>1. ASSUME NEW s \in SUBSET dom PROVE h[s] = step(s)
  <2>1. CASE s = {} BY <2>1, SumOfNone
  <2>2. CASE s # {}
    <3>1. PICK x : x = CHOOSE y \in s : TRUE OBVIOUS
    <3>2. x \in s BY <2>2, <3>1
    <3>3. s \in SUBSET (0..n - 1) /\ s \ {x} \in SUBSET dom OBVIOUS
    <3>4. SumOf(f, s, n) = f[x] + SumOf(f, s \ {x}, n) BY <3>2, <3>3, SumOfWith
    <3>5. h[s] = f[x] + h[s \ {x}] BY <3>3, <3>4
    <3> QED BY <2>2, <3>1, <3>5
  <2> QED BY <2>1, <2>2
<1>2. h = [s \in SUBSET dom |-> h[s]] OBVIOUS
<1> HIDE DEF h
<1>3. h = [s \in SUBSET dom |-> step(s)] BY <1>1, <1>2, Zenon
<1> QED BY <1>3 DEF Solves

LEMMA FoldIs ==
  ASSUME NEW f \in [Nat -> Nat], NEW n \in Nat, NEW dom \in SUBSET (0..n - 1), NEW h, Solves(h, f, dom)
  PROVE  h[dom] = SumOf(f, dom, n)
<1>1. \A s \in SUBSET dom :
         h[s] = IF s = {} THEN 0 ELSE f[CHOOSE x \in s : TRUE] + h[s \ {CHOOSE x \in s : TRUE}]
  <2>1. PICK g : g = [s \in SUBSET dom |-> IF s = {} THEN 0 ELSE f[CHOOSE x \in s : TRUE] + h[s \ {CHOOSE x \in s : TRUE}]]
    OBVIOUS
  <2>2. h = g BY <2>1 DEF Solves
  <2> QED BY <2>1, <2>2
<1>2. \A s \in SUBSET dom : IsFiniteSet(s) /\ Cardinality(s) \in Nat
  <2>1. IsFiniteSet(0..n - 1) BY FS_Interval
  <2>2. \A s \in SUBSET dom : s \subseteq 0..n - 1 OBVIOUS
  <2> QED BY <2>1, <2>2, FS_Subset, FS_CardinalityType
<1> DEFINE Bad == {s \in SUBSET dom : h[s] # SumOf(f, s, n)}
           T == {Cardinality(s) : s \in Bad}
<1>3. Bad = {}
  <2>1. SUFFICES ASSUME Bad # {} PROVE FALSE OBVIOUS
  <2>2. T \in SUBSET Nat /\ T # {} BY <1>2, <2>1
  <2>3. PICK c \in T : \A y \in T : c <= y BY <2>2, Least
  <2>4. PICK s \in Bad : c = Cardinality(s) BY <2>3
  <2>5. s \in SUBSET dom /\ h[s] # SumOf(f, s, n) BY <2>4
  <2>6. s # {} BY <1>1, <2>5, SumOfNone
  <2>7. PICK x : x = CHOOSE y \in s : TRUE OBVIOUS
  <2>8. x \in s /\ h[s] = f[x] + h[s \ {x}] BY <1>1, <2>5, <2>6, <2>7
  <2>9. s \ {x} \in SUBSET dom /\ Cardinality(s \ {x}) = c - 1
    BY <1>2, <2>4, <2>5, <2>8, FS_RemoveElement
  <2>10. s \ {x} \notin Bad
    <3>1. c \in Nat BY <2>2
    <3>2. ~(c <= c - 1) BY <3>1
    <3> QED BY <2>3, <2>9, <3>2
  <2>11. h[s \ {x}] = SumOf(f, s \ {x}, n) BY <2>9, <2>10
  <2>12. s \in SUBSET (0..n - 1) BY <2>5
  <2> QED BY <2>5, <2>8, <2>11, <2>12, SumOfWith
<1> QED BY <1>3

(* Over an interval it is the difference of two partial sums.                *)
LEMMA SumOfInterval ==
  ASSUME NEW f \in [Nat -> Nat], NEW n \in Nat, NEW P \in Prefixes(f, n),
         NEW a \in 0..n, NEW b \in 0..n, a <= b
  PROVE  SumOf(f, a..b - 1, n) = P[b] - P[a]
<1>1. P \in [0..n -> Nat] /\ \A i \in 0..n - 1 : P[i + 1] = P[i] + f[i] BY DEF Prefixes
<1> DEFINE T == {c \in a..b : SumOf(f, a..c - 1, n) # P[c] - P[a]}
<1>2. T = {}
  <2>1. SUFFICES ASSUME T # {} PROVE FALSE OBVIOUS
  <2>2. T \in SUBSET Nat OBVIOUS
  <2>3. PICK m \in T : \A y \in T : m <= y BY <2>1, <2>2, Least
  <2>4. m # a
    <3>1. a..a - 1 = {} OBVIOUS
    <3>2. P[a] - P[a] = 0 BY <1>1
    <3> QED BY <2>3, <3>1, <3>2, SumOfNone
  <2>5. PICK k \in a..b : m = k + 1 /\ k \in 0..n - 1
    <3>1. m - 1 \in a..b /\ m = (m - 1) + 1 /\ m - 1 \in 0..n - 1 BY <2>3, <2>4
    <3> QED BY <3>1
  <2>6. k \notin T BY <2>3, <2>5
  <2>7. SumOf(f, a..k - 1, n) = P[k] - P[a] BY <2>5, <2>6
  <2>8. m - 1 = k /\ (a..k) \ {k} = a..k - 1 /\ k \in a..k /\ a..k \in SUBSET (0..n - 1)
    <3>1. a \in Nat /\ k \in Nat /\ a <= k /\ k <= n - 1 /\ m = k + 1 BY <2>5
    <3>2. (a..k) \ {k} = a..k - 1
      <4>2. \A i : i \in (a..k) \ {k} => i \in a..k - 1 BY <3>1
      <4>3. \A i : i \in a..k - 1 => i \in (a..k) \ {k} BY <3>1
      <4> QED BY <4>2, <4>3
    <3>3. \A i \in a..k : i \in 0..n - 1 BY <3>1
    <3>4. k \in a..k /\ m - 1 = k BY <3>1
    <3>5. a..k \in SUBSET (0..n - 1) BY <3>3
    <3> QED BY <3>2, <3>4, <3>5
  <2>9. SumOf(f, a..k, n) = f[k] + SumOf(f, a..k - 1, n)
    <3>1. PICK s \in SUBSET (0..n - 1) : s = a..k BY <2>8
    <3>2. k \in s /\ s \ {k} = a..k - 1 BY <2>8, <3>1
    <3>3. SumOf(f, s, n) = f[k] + SumOf(f, s \ {k}, n) BY <3>2, SumOfWith
    <3> QED BY <3>1, <3>2, <3>3
  <2>10. P[m] = P[k] + f[k] /\ P[k] \in Nat /\ P[a] \in Nat /\ f[k] \in Nat BY <1>1, <2>5
  <2>11. SumOf(f, a..m - 1, n) # P[m] - P[a] BY <2>3
  <2>12. SumOf(f, a..m - 1, n) = f[k] + (P[k] - P[a]) BY <2>7, <2>8, <2>9
  <2>13. PICK u \in Nat, v \in Nat, w \in Nat : u = P[k] /\ v = P[a] /\ w = f[k] BY <2>10
  <2>14. (u + w) - v = w + (u - v) OBVIOUS
  <2> QED BY <2>10, <2>11, <2>12, <2>13, <2>14
<1>3. b \in a..b OBVIOUS
<1> QED BY <1>2, <1>3

-----------------------------------------------------------------------------
(* A varlen_m launch.                                                        *)
Lanes == WarpLanes \in Nat \ {0, 1}
Uneven == prob \in Problems /\ prob.varlen
Bound == prob.l + WarpLanes
BatchWorks == [b \in Nat |-> BatchWork(prob, b)]

LEMMA UnevenShape ==
  ASSUME Shapes, Uneven
  PROVE  /\ {prob.l, prob.n, prob.block, prob.group} \subseteq Nat \ {0} /\ prob.split = 1 /\ prob.shards = 1
         /\ \A b \in 0..prob.l - 1 : BatchRows(prob, b) \in Nat /\ BatchClustersM(prob, b) \in Nat
         /\ BatchWorks \in [Nat -> Nat]
<1>1. ProblemShape(prob) BY DEF Shapes, Uneven
<1>2. /\ {prob.l, prob.n, prob.block, prob.group} \subseteq Nat \ {0} /\ prob.split = 1 /\ prob.shards = 1
      /\ prob.lens \in Seq(Nat) /\ Len(prob.lens) = prob.l
  BY <1>1 DEF ProblemShape, Uneven
<1>3. ASSUME NEW b \in 0..prob.l - 1
      PROVE  BatchRows(prob, b) \in Nat /\ BatchClustersM(prob, b) \in Nat
  <2>1. b + 1 \in 1..Len(prob.lens) BY <1>2
  <2>2. BatchRows(prob, b) \in Nat BY <1>2, <2>1 DEF BatchRows
  <2>3. PICK a \in Nat : a = BatchRows(prob, b) + prob.block - 1 BY <1>2, <2>2
  <2>4. a \div prob.block \in Nat BY <1>2, <2>3, DivMod
  <2> QED BY <2>2, <2>3, <2>4 DEF BatchClustersM, CeilDiv
<1>4. ASSUME NEW b \in Nat PROVE BatchWork(prob, b) \in Nat
  <2>1. CASE b < prob.l
    <3>1. PICK c \in Nat : c = BatchClustersM(prob, b)
      <4>1. b \in 0..prob.l - 1 BY <1>2, <2>1
      <4> QED BY <1>3, <4>1
    <3>2. c * prob.n \in Nat BY <1>2, <3>1
    <3> QED BY <2>1, <3>1, <3>2 DEF BatchWork
  <2> QED BY <2>1 DEF BatchWork
<1> QED BY <1>2, <1>3, <1>4 DEF BatchWorks

(* Starts[b] is the work before batch b, which is what Starts[prob.l] is to  *)
(* the launch.                                                               *)
Starts == CHOOSE b : b \in Prefixes(BatchWorks, Bound)
Real == Starts[prob.l]

LEMMA WorkFolds ==
  ASSUME Shapes, Uneven, NEW n \in Nat, NEW a \in 0..n, NEW b \in 0..n
  PROVE  WorkOfBatches(prob, a, b) = SumOf(BatchWorks, a..b - 1, n)
<1> DEFINE dom == a..b - 1
           C(h) == h = [s \in SUBSET dom |-> IF s = {} THEN 0 ELSE BatchWork(prob, CHOOSE x \in s : TRUE) + h[s \ {CHOOSE x \in s : TRUE}]]
           it == CHOOSE h : C(h)
<1>0. BatchWorks \in [Nat -> Nat] BY UnevenShape
<1>1. WorkOfBatches(prob, a, b) = it[dom] BY DEF WorkOfBatches, MapThenSumSet, MapThenFoldSet
<1>2. dom \in SUBSET (0..n - 1) OBVIOUS
<1>3. \A x \in dom : BatchWork(prob, x) = BatchWorks[x]
  <2>1. \A x \in dom : x \in Nat OBVIOUS
  <2> QED BY <2>1 DEF BatchWorks
<1>4. ASSUME NEW h PROVE Solves(h, BatchWorks, dom) <=> C(h)
  <2> HIDE DEF dom
  <2>1. \A s \in SUBSET dom : s # {} => BatchWork(prob, CHOOSE x \in s : TRUE) = BatchWorks[CHOOSE x \in s : TRUE]
    BY <1>3
  <2>2. \A s \in SUBSET dom :
          (IF s = {} THEN 0 ELSE BatchWorks[CHOOSE x \in s : TRUE] + h[s \ {CHOOSE x \in s : TRUE}])
          = (IF s = {} THEN 0 ELSE BatchWork(prob, CHOOSE x \in s : TRUE) + h[s \ {CHOOSE x \in s : TRUE}])
    BY <2>1
  <2>3. [s \in SUBSET dom |-> IF s = {} THEN 0 ELSE BatchWorks[CHOOSE x \in s : TRUE] + h[s \ {CHOOSE x \in s : TRUE}]]
        = [s \in SUBSET dom |-> IF s = {} THEN 0 ELSE BatchWork(prob, CHOOSE x \in s : TRUE) + h[s \ {CHOOSE x \in s : TRUE}]]
    BY <2>2, Zenon
  <2> QED BY <2>3 DEF Solves
<1>5. PICK g : Solves(g, BatchWorks, dom) BY <1>0, <1>2, FoldExists
<1>6. C(g) BY <1>4, <1>5
<1> HIDE DEF C
<1>7. C(it) BY <1>6
<1>8. Solves(it, BatchWorks, dom) BY <1>4, <1>7
<1> HIDE DEF it
<1> QED BY <1>0, <1>1, <1>2, <1>8, FoldIs

LEMMA StartsAre ==
  ASSUME Shapes, Uneven, Lanes
  PROVE  /\ Starts \in [0..Bound -> Nat] /\ Starts[0] = 0
         /\ \A b \in 0..Bound - 1 : Starts[b + 1] = Starts[b] + BatchWork(prob, b)
         /\ \A a, b \in 0..Bound : a <= b =>
              Starts[a] <= Starts[b] /\ WorkOfBatches(prob, a, b) = Starts[b] - Starts[a]
         /\ \A b \in prob.l..Bound : Starts[b] = Starts[prob.l]
<1>1. BatchWorks \in [Nat -> Nat] /\ prob.l \in Nat \ {0} BY UnevenShape
<1>2. PICK n \in Nat : n = Bound /\ prob.l < n BY <1>1 DEF Bound, Lanes
<1>3. Prefixes(BatchWorks, n) # {} BY <1>1, PrefixesExist
<1>4. PICK e : e = Prefixes(BatchWorks, n) OBVIOUS
<1>5. PICK P : P = CHOOSE b : b \in e OBVIOUS
<1>6. P \in Prefixes(BatchWorks, n) BY <1>3, <1>4, <1>5
<1>7. P = Starts BY <1>2, <1>4, <1>5 DEF Starts
<1>8. P \in [0..n -> Nat] /\ P[0] = 0 /\ \A b \in 0..n - 1 : P[b + 1] = P[b] + BatchWorks[b]
  BY <1>6 DEF Prefixes
<1>9. ASSUME NEW b \in 0..n - 1 PROVE P[b + 1] = P[b] + BatchWork(prob, b)
  <2>1. b \in Nat OBVIOUS
  <2> QED BY <1>8, <2>1 DEF BatchWorks
<1>10. ASSUME NEW a \in 0..n, NEW b \in 0..n, a <= b
       PROVE  P[a] <= P[b] /\ WorkOfBatches(prob, a, b) = P[b] - P[a]
  <2>1. PICK s \in Nat : s = SumOf(BatchWorks, a..b - 1, n)
    <3>1. PICK f \in [Nat -> Nat] : f = BatchWorks BY <1>1
    <3>2. PICK d : d = a..b - 1 OBVIOUS
    <3>3. SumOf(f, d, n) \in Nat BY SumIsNat
    <3> QED BY <3>1, <3>2, <3>3
  <2>2. s = P[b] - P[a]
    <3>1. PICK f \in [Nat -> Nat] : f = BatchWorks BY <1>1
    <3>2. P \in Prefixes(f, n) BY <1>6, <3>1
    <3>3. SumOf(f, a..b - 1, n) = P[b] - P[a] BY <1>10, <3>2, SumOfInterval
    <3> QED BY <2>1, <3>1, <3>3
  <2>3. P[a] \in Nat /\ P[b] \in Nat BY <1>8
  <2>4. s = WorkOfBatches(prob, a, b) BY <2>1, WorkFolds
  <2> QED BY <2>1, <2>2, <2>3, <2>4
<1>11. ASSUME NEW b \in prob.l..n PROVE P[b] = P[prob.l]
  <2> DEFINE T == {i \in prob.l..n : P[i] # P[prob.l]}
  <2>1. T = {}
    <3>1. SUFFICES ASSUME T # {} PROVE FALSE OBVIOUS
    <3>2. T \in SUBSET Nat BY <1>1
    <3>3. PICK m \in T : \A y \in T : m <= y BY <3>1, <3>2, Least
    <3>4. m # prob.l OBVIOUS
    <3>5. PICK k \in prob.l..n - 1 : m = k + 1 /\ k \in prob.l..n
      <4>1. m - 1 \in prob.l..n - 1 /\ m = (m - 1) + 1 /\ m - 1 \in prob.l..n BY <1>1, <3>3, <3>4
      <4> QED BY <4>1
    <3>6. P[k] = P[prob.l] BY <3>3, <3>5
    <3>7. k \in 0..n - 1 /\ ~(k < prob.l) BY <1>1, <3>5
    <3>8. P[k + 1] = P[k] + 0 BY <1>9, <3>7 DEF BatchWork
    <3>9. P[k] \in Nat BY <1>8, <3>7
    <3> QED BY <3>3, <3>5, <3>6, <3>8, <3>9
  <2> QED BY <2>1
<1> QED BY <1>2, <1>7, <1>8, <1>9, <1>10, <1>11

(* The scan over the windows: from b, in strides, to the first batch that is *)
(* not past, or to the end. There is such a function.                        *)
Scans(h, l, step, past) ==
  h = [b \in 0..l |-> IF b \in past THEN IF b + step >= l THEN l ELSE h[b + step] ELSE b]
ScanAt(h, l, step, past, b) ==
  h[b] = IF b \in past THEN IF b + step >= l THEN l ELSE h[b + step] ELSE b

LEMMA ScanExists ==
  ASSUME NEW l \in Nat, NEW step \in Nat \ {0}, NEW past
  PROVE  \E h : Scans(h, l, step, past)
<1> DEFINE Some(m) == \E h \in [l - m..l -> 0..l] : \A b \in l - m..l : ScanAt(h, l, step, past, b)
           T == {m \in 0..l : ~Some(m)}
<1>1. T = {}
  <2>1. SUFFICES ASSUME T # {} PROVE FALSE OBVIOUS
  <2>2. T \in SUBSET Nat OBVIOUS
  <2>3. PICK m \in T : \A y \in T : m <= y BY <2>1, <2>2, Least
  <2>4. m # 0
    <3> DEFINE h == [b \in l..l |-> l]
    <3>1. h \in [l..l -> 0..l] OBVIOUS
    <3>2. ASSUME NEW b \in l..l PROVE ScanAt(h, l, step, past, b)
      <4>1. b = l /\ h[b] = l /\ b + step >= l OBVIOUS
      <4> HIDE DEF h
      <4> QED BY <4>1 DEF ScanAt
    <3> HIDE DEF h
    <3>3. l - 0 = l OBVIOUS
    <3>4. Some(0) BY <3>1, <3>2, <3>3
    <3> QED BY <3>4
  <2>5. PICK k \in 0..l : m = k + 1
    <3>1. m - 1 \in 0..l /\ m = (m - 1) + 1 BY <2>3, <2>4
    <3> QED BY <3>1
  <2>6. k \notin T BY <2>3, <2>5
  <2>7. PICK h \in [l - k..l -> 0..l] : \A b \in l - k..l : ScanAt(h, l, step, past, b) BY <2>6
  <2>8. PICK a \in 0..l : a = l - m /\ a + 1 = l - k /\ a < l
    <3>1. l - m \in 0..l /\ (l - m) + 1 = l - k /\ l - m < l BY <2>3, <2>5
    <3> QED BY <3>1
  <2> DEFINE new == IF a \in past THEN IF a + step >= l THEN l ELSE h[a + step] ELSE a
             g == [b \in a..l |-> IF b = a THEN new ELSE h[b]]
  <2>9. a + step < l => a + step \in a + 1..l OBVIOUS
  <2>10. new \in 0..l BY <2>7, <2>8, <2>9
  <2> HIDE DEF new
  <2>11. \A b \in a..l : b # a => b \in l - k..l BY <2>8
  <2>12. g \in [a..l -> 0..l] BY <2>7, <2>10, <2>11
  <2>13. ASSUME NEW b \in a..l PROVE ScanAt(g, l, step, past, b)
    <3>1. CASE b = a
      <4>1. g[a] = new BY <2>8
      <4>2. a + step < l => g[a + step] = h[a + step] OBVIOUS
      <4> HIDE DEF g
      <4> QED BY <3>1, <4>1, <4>2 DEF ScanAt, new
    <3>2. CASE b # a
      <4>1. b \in l - k..l BY <2>11, <3>2
      <4>2. g[b] = h[b] /\ (b + step < l => g[b + step] = h[b + step]) BY <3>2
      <4>3. ScanAt(h, l, step, past, b) BY <2>7, <4>1
      <4> HIDE DEF g
      <4> QED BY <4>2, <4>3 DEF ScanAt
    <3> QED BY <3>1, <3>2
  <2> HIDE DEF g
  <2>14. Some(m) BY <2>8, <2>12, <2>13
  <2> QED BY <2>3, <2>14
<1>2. Some(l) BY <1>1
<1>3. PICK h \in [0..l -> 0..l] : \A b \in 0..l : ScanAt(h, l, step, past, b)
  <2>1. l - l = 0 OBVIOUS
  <2> QED BY <1>2, <2>1
<1>4. h = [b \in 0..l |-> h[b]] OBVIOUS
<1>5. h = [b \in 0..l |-> IF b \in past THEN IF b + step >= l THEN l ELSE h[b + step] ELSE b]
  BY <1>3, <1>4, Zenon DEF ScanAt
<1> QED BY <1>5 DEF Scans

(* Where it ends.                                                            *)
LEMMA ScanEnds ==
  ASSUME NEW l \in Nat, NEW step \in Nat \ {0}, NEW past, NEW h, Scans(h, l, step, past), NEW b \in 0..l
  PROVE  /\ h[b] \in b..l /\ (h[b] # l => h[b] \notin past)
         /\ \/ h[b] = b
            \/ \E c \in b..l : c \in past /\ IF c + step >= l THEN h[b] = l ELSE h[b] = c + step
<1>1. \A c \in 0..l : ScanAt(h, l, step, past, c)
  <2>1. PICK g : g = [c \in 0..l |-> IF c \in past THEN IF c + step >= l THEN l ELSE h[c + step] ELSE c]
    OBVIOUS
  <2>2. h = g BY <2>1 DEF Scans
  <2> QED BY <2>1, <2>2 DEF ScanAt
<1> DEFINE Good(c) == /\ h[c] \in c..l /\ (h[c] # l => h[c] \notin past)
                      /\ \/ h[c] = c
                         \/ \E d \in c..l : d \in past /\ IF d + step >= l THEN h[c] = l ELSE h[c] = d + step
           T == {m \in 0..l : ~Good(l - m)}
<1>2. T = {}
  <2>1. SUFFICES ASSUME T # {} PROVE FALSE OBVIOUS
  <2>2. T \in SUBSET Nat OBVIOUS
  <2>3. PICK m \in T : \A y \in T : m <= y BY <2>1, <2>2, Least
  <2>4. PICK a \in 0..l : a = l - m
    <3>1. l - m \in 0..l OBVIOUS
    <3> QED BY <3>1
  <2>5. ScanAt(h, l, step, past, a) BY <1>1
  <2>6. CASE a \notin past
    <3>1. h[a] = a BY <2>5, <2>6 DEF ScanAt
    <3>2. Good(a) BY <2>6, <3>1
    <3> QED BY <2>3, <2>4, <3>2
  <2>7. CASE a \in past /\ a + step >= l
    <3>1. h[a] = l BY <2>5, <2>7 DEF ScanAt
    <3>2. a \in a..l /\ l \in a..l OBVIOUS
    <3>3. Good(a) BY <2>7, <3>1, <3>2
    <3> QED BY <2>3, <2>4, <3>3
  <2>8. CASE a \in past /\ ~(a + step >= l)
    <3>1. h[a] = h[a + step] BY <2>5, <2>8 DEF ScanAt
    <3>2. PICK e \in 0..l : e = a + step /\ a < e BY <2>8
    <3>3. l - e \in 0..l /\ l - e < m /\ l - (l - e) = e BY <2>4, <3>2
    <3>4. Good(e)
      <4>1. ~(m <= l - e) BY <3>3
      <4>2. l - e \notin T BY <2>3, <4>1
      <4> QED BY <3>3, <4>2
    <3>5. h[a] = h[e] BY <3>1, <3>2
    <3>6. h[a] \in a..l /\ (h[a] # l => h[a] \notin past) BY <3>2, <3>4, <3>5
    <3>7. CASE h[e] = e
      <4>1. h[a] = a + step /\ a \in a..l BY <3>2, <3>5, <3>7
      <4> QED BY <2>3, <2>4, <2>8, <3>6, <4>1
    <3>8. CASE h[e] # e
      <4>1. PICK d \in e..l : d \in past /\ IF d + step >= l THEN h[e] = l ELSE h[e] = d + step BY <3>4, <3>8
      <4>2. d \in a..l BY <3>2
      <4>3. \E i \in a..l : i \in past /\ IF i + step >= l THEN h[a] = l ELSE h[a] = i + step BY <3>5, <4>1, <4>2
      <4>4. Good(a) BY <3>6, <4>3
      <4> QED BY <2>3, <2>4, <4>4
    <3> QED BY <3>7, <3>8
  <2> QED BY <2>6, <2>7, <2>8
<1>3. l - b \in 0..l /\ l - (l - b) = b OBVIOUS
<1>4. Good(b)
  <2>1. l - b \notin T BY <1>2
  <2> QED BY <1>3, <2>1
<1> QED BY <1>4

(* A window that holds batch b, and one from which an index can be found.    *)
Holding(b) ==
  [batch |-> b, before |-> Starts[b], end |-> Starts[b + 1], rows |-> BatchClustersM(prob, b)]
InBatch(b, idx) == b \in 0..prob.l - 1 /\ Starts[b] <= idx /\ idx < Starts[b + 1]
Usable(win, idx) == win = NoWindow \/ \E b \in 0..prob.l - 1 : win = Holding(b) /\ Starts[b] <= idx

(* The window whose batches end after idx, or none.                          *)
LEMMA WindowIs ==
  ASSUME Shapes, Uneven, Lanes, NEW win, NEW b \in 0..prob.l, win.batch = b, win.before = Starts[b],
         NEW idx \in Nat, Starts[b] <= idx
  PROVE  \E w \in b..prob.l : /\ w = WindowFor(prob, win, idx) /\ Starts[w] <= idx
                              /\ w < prob.l => idx < Starts[w + (WarpLanes - 1)]
<1>1. prob.l \in Nat BY UnevenShape
<1>2. PICK step \in Nat \ {0} : step = WarpLanes - 1
  <2>1. WarpLanes - 1 \in Nat \ {0} BY DEF Lanes
  <2> QED BY <2>1
<1>3. PICK l \in Nat : l = prob.l BY <1>1
<1>4. /\ Starts \in [0..Bound -> Nat]
      /\ \A c, d \in 0..Bound : c <= d =>
           Starts[c] <= Starts[d] /\ WorkOfBatches(prob, c, d) = Starts[d] - Starts[c]
      /\ \A c \in l..Bound : Starts[c] = Starts[l]
  BY <1>3, StartsAre
<1>5. \A c \in 0..l : c \in 0..Bound /\ c + step \in 0..Bound /\ (c + step >= l => c + step \in l..Bound)
  BY <1>2, <1>3 DEF Bound, Lanes
<1> DEFINE past == {c \in 0..l : win.before + WorkOfBatches(prob, win.batch, c + step) <= idx}
           C(h) == h = [c \in 0..prob.l |->
                          IF win.before + WorkOfBatches(prob, win.batch, c + (WarpLanes - 1)) <= idx
                          THEN IF c + (WarpLanes - 1) >= prob.l THEN prob.l ELSE h[c + (WarpLanes - 1)]
                          ELSE c]
           scan == CHOOSE h : C(h)
<1>6. WindowFor(prob, win, idx) = scan[win.batch] BY DEF WindowFor
<1>7. ASSUME NEW h PROVE Scans(h, l, step, past) <=> C(h)
  <2>1. ASSUME NEW c \in 0..l
        PROVE  (IF c \in past THEN IF c + step >= l THEN l ELSE h[c + step] ELSE c)
               = (IF win.before + WorkOfBatches(prob, win.batch, c + (WarpLanes - 1)) <= idx
                  THEN IF c + (WarpLanes - 1) >= prob.l THEN prob.l ELSE h[c + (WarpLanes - 1)]
                  ELSE c)
    BY <1>2, <1>3, Zenon
  <2>2. [c \in 0..l |-> IF c \in past THEN IF c + step >= l THEN l ELSE h[c + step] ELSE c]
        = [c \in 0..prob.l |->
              IF win.before + WorkOfBatches(prob, win.batch, c + (WarpLanes - 1)) <= idx
              THEN IF c + (WarpLanes - 1) >= prob.l THEN prob.l ELSE h[c + (WarpLanes - 1)]
              ELSE c]
    BY <1>3, <2>1, Zenon
  <2> QED BY <2>2, Zenon DEF Scans
<1> HIDE DEF C
<1>8. PICK g : Scans(g, l, step, past)
  <2> HIDE DEF past
  <2> QED BY ScanExists
<1>9. C(g) BY <1>7, <1>8
<1>10. C(scan) BY <1>9
<1>11. PICK h : h = scan /\ Scans(h, l, step, past) BY <1>7, <1>10
<1>12. b \in 0..l BY <1>3
<1>13. \A c \in b..l : c \in past <=> Starts[c + step] <= idx
  <2> TAKE c \in b..l
  <2>1. c \in 0..l /\ c + step \in 0..Bound /\ b \in 0..Bound /\ b <= c + step BY <1>5, <1>12
  <2>2. WorkOfBatches(prob, b, c + step) = Starts[c + step] - Starts[b] BY <1>4, <2>1
  <2>3. Starts[c + step] \in Nat /\ Starts[b] \in Nat BY <1>4, <2>1
  <2>4. Starts[b] + (Starts[c + step] - Starts[b]) = Starts[c + step] BY <2>3
  <2> QED BY <2>1, <2>2, <2>4
<1>14. /\ h[b] \in b..l /\ (h[b] # l => h[b] \notin past)
       /\ \/ h[b] = b
          \/ \E c \in b..l : c \in past /\ IF c + step >= l THEN h[b] = l ELSE h[b] = c + step
  <2> HIDE DEF past
  <2>1. Scans(h, l, step, past) BY <1>11
  <2> HIDE DEF scan
  <2> QED BY <1>12, <2>1, ScanEnds
<1> HIDE DEF past, scan
<1>15. PICK w \in b..l : w = h[b] BY <1>14
<1>16. Starts[w] <= idx
  <2>1. CASE w = b BY <2>1
  <2>2. CASE w # b
    <3>1. PICK c \in b..l : c \in past /\ IF c + step >= l THEN h[b] = l ELSE h[b] = c + step
      BY <1>14, <1>15, <2>2
    <3>2. Starts[c + step] <= idx BY <1>13, <3>1
    <3>3. c \in 0..l BY <1>12
    <3>4. CASE c + step >= l
      <4>1. Starts[c + step] = Starts[l] BY <1>4, <1>5, <3>3, <3>4
      <4> QED BY <1>15, <3>1, <3>2, <3>4, <4>1
    <3>5. CASE ~(c + step >= l) BY <1>15, <3>1, <3>2, <3>5
    <3> QED BY <3>4, <3>5
  <2> QED BY <2>1, <2>2
<1>17. w < l => idx < Starts[w + step]
  <2>1. SUFFICES ASSUME w < l PROVE idx < Starts[w + step] OBVIOUS
  <2>2. w \notin past BY <1>14, <1>15, <2>1
  <2>3. ~(Starts[w + step] <= idx) BY <1>13, <2>2
  <2>4. w \in 0..l BY <1>12
  <2>5. Starts[w + step] \in Nat BY <1>4, <1>5, <2>4
  <2> QED BY <2>3, <2>5
<1> QED BY <1>2, <1>3, <1>6, <1>11, <1>15, <1>16, <1>17

(* The ballot counts up to the batch that holds idx.                         *)
LEMMA BallotIs ==
  ASSUME Shapes, Uneven, Lanes, NEW w \in 0..prob.l - 1, NEW idx \in Nat,
         Starts[w] <= idx, idx < Starts[w + (WarpLanes - 1)]
  PROVE  \E k \in 0..WarpLanes - 2 : /\ Ballot(prob, Starts[w], w, idx) = k
                                     /\ InBatch(w + k, idx)
<1>1. prob.l \in Nat \ {0} BY UnevenShape
<1>2. PICK step \in Nat \ {0} : step = WarpLanes - 1 /\ WarpLanes - 2 = step - 1
  <2>1. WarpLanes - 1 \in Nat \ {0} /\ WarpLanes - 2 = (WarpLanes - 1) - 1 BY DEF Lanes
  <2> QED BY <2>1
<1>3. PICK l \in Nat \ {0} : l = prob.l BY <1>1
<1>4. /\ Starts \in [0..Bound -> Nat]
      /\ \A c, d \in 0..Bound : c <= d =>
           Starts[c] <= Starts[d] /\ WorkOfBatches(prob, c, d) = Starts[d] - Starts[c]
      /\ \A c \in l..Bound : Starts[c] = Starts[l]
  BY <1>3, StartsAre
<1>5. \A c \in 0..step : w + c \in 0..Bound /\ (w + c >= l => w + c \in l..Bound)
  BY <1>2, <1>3 DEF Bound, Lanes
<1>6. PICK n \in Nat : n = Bound /\ l <= n BY <1>2, <1>3 DEF Bound, Lanes
<1> DEFINE lanes == {lane \in 0..WarpLanes - 2 : /\ w + lane < prob.l
                                   /\ Starts[w] + WorkOfBatches(prob, w, w + lane + 1) <= idx}
           T == {c \in 0..step : idx < Starts[w + c]}
<1>7. ASSUME NEW c \in 0..step - 1
      PROVE  c \in lanes <=> w + c < l /\ Starts[w + (c + 1)] <= idx
  <2>1. c + 1 \in 0..step /\ w + c + 1 = w + (c + 1) /\ c \in Nat OBVIOUS
  <2>2. w + (c + 1) \in 0..Bound /\ w \in 0..Bound /\ w <= w + (c + 1) BY <1>5, <1>6, <2>1
  <2>3. WorkOfBatches(prob, w, w + (c + 1)) = Starts[w + (c + 1)] - Starts[w] BY <1>4, <2>2
  <2>4. Starts[w + (c + 1)] \in Nat /\ Starts[w] \in Nat BY <1>4, <2>2
  <2>5. Starts[w] + (Starts[w + (c + 1)] - Starts[w]) = Starts[w + (c + 1)] BY <2>4
  <2> QED BY <1>2, <1>3, <2>1, <2>3, <2>5
<1>8. T \in SUBSET Nat /\ step \in T BY <1>2
<1>9. PICK m \in T : \A y \in T : m <= y BY <1>8, Least
<1>10. m # 0
  <2>1. Starts[w] \in Nat /\ w + 0 = w
    <3>1. w \in 0..Bound BY <1>3, <1>6
    <3> QED BY <1>4, <3>1
  <2> QED BY <2>1
<1>11. PICK k \in 0..step - 1 : m = k + 1 /\ idx < Starts[w + (k + 1)]
  <2>1. m \in 0..step /\ idx < Starts[w + m] OBVIOUS
  <2>2. m - 1 \in 0..step - 1 /\ m = (m - 1) + 1 BY <1>10, <2>1
  <2> QED BY <2>1, <2>2
<1>12. Starts[w + k] <= idx
  <2>1. k \in 0..step /\ ~(m <= k) BY <1>11
  <2>2. k \notin T BY <1>9, <2>1
  <2>3. w + k \in 0..Bound BY <1>5, <2>1
  <2>4. Starts[w + k] \in Nat BY <1>4, <2>3
  <2> QED BY <2>1, <2>2, <2>4
<1>13. w + k < l
  <2>1. SUFFICES ASSUME w + k >= l PROVE FALSE BY <1>3
  <2>2. k \in 0..step /\ k + 1 \in 0..step BY <1>11
  <2>3. w + k \in l..Bound /\ w + (k + 1) \in l..Bound
    <3>1. w + (k + 1) >= l BY <1>3, <2>1, <2>2
    <3> QED BY <1>5, <2>1, <2>2, <3>1
  <2>4. Starts[w + k] = Starts[w + (k + 1)] BY <1>4, <2>3
  <2>5. l \in 0..Bound BY <1>6
  <2>6. Starts[l] \in Nat BY <1>4, <2>5
  <2>7. Starts[w + k] \in Nat /\ Starts[w + (k + 1)] \in Nat BY <1>4, <2>3, <2>6
  <2> QED BY <1>11, <1>12, <2>4, <2>7
<1>14. \A c \in 0..step - 1 : c \in lanes <=> c \in 0..k - 1
  <2> TAKE c \in 0..step - 1
  <2>1. c \in 0..step /\ c + 1 \in 0..step /\ k \in 0..step /\ k + 1 \in 0..step OBVIOUS
  <2>2. w + c \in 0..Bound /\ w + (c + 1) \in 0..Bound /\ w + k \in 0..Bound /\ w + (k + 1) \in 0..Bound
    BY <1>5, <2>1
  <2>3. Starts[w + (c + 1)] \in Nat /\ Starts[w + k] \in Nat /\ Starts[w + (k + 1)] \in Nat BY <1>4, <2>2
  <2>4. CASE c < k
    <3>1. w + (c + 1) <= w + k BY <1>3, <2>1, <2>4
    <3>2. Starts[w + (c + 1)] <= Starts[w + k] BY <1>4, <2>2, <3>1
    <3>3. Starts[w + (c + 1)] <= idx BY <1>12, <2>3, <3>2
    <3>4. w + c < l BY <1>3, <1>13, <2>1, <2>4
    <3> QED BY <1>7, <2>1, <2>4, <3>3, <3>4
  <2>5. CASE c >= k
    <3>1. w + (k + 1) <= w + (c + 1) BY <1>3, <2>1, <2>5
    <3>2. Starts[w + (k + 1)] <= Starts[w + (c + 1)] BY <1>4, <2>2, <3>1
    <3>3. ~(Starts[w + (c + 1)] <= idx) BY <1>11, <2>3, <3>2
    <3> QED BY <1>7, <2>1, <2>5, <3>3
  <2> QED BY <2>1, <2>4, <2>5
<1>15. lanes = 0..k - 1
  <2>1. \A c : c \in lanes => c \in 0..step - 1 BY <1>2
  <2> HIDE DEF lanes
  <2>2. \A c : c \in 0..k - 1 => c \in 0..step - 1 BY <1>11
  <2> QED BY <1>14, <2>1, <2>2
<1>16. Ballot(prob, Starts[w], w, idx) = Cardinality(lanes) BY DEF Ballot
<1> HIDE DEF lanes
<1>17. Cardinality(lanes) = k
  <2>1. Cardinality(0..k - 1) = IF 0 > k - 1 THEN 0 ELSE (k - 1) - 0 + 1 BY FS_Interval
  <2> QED BY <1>15, <2>1
<1>18. InBatch(w + k, idx)
  <2>1. w + k \in 0..prob.l - 1 /\ (w + k) + 1 = w + (k + 1) BY <1>3, <1>13
  <2> QED BY <1>11, <1>12, <2>1 DEF InBatch
<1>19. k \in 0..WarpLanes - 2 BY <1>2
<1> QED BY <1>16, <1>17, <1>18, <1>19

(* From a usable window the batch of every index of the work is found, and   *)
(* no batch for an index past it.                                            *)
LEMMA BatchIsFound ==
  ASSUME Shapes, Uneven, Lanes, NEW win, NEW idx \in Nat, Usable(win, idx)
  PROVE  IF idx < Real THEN \E b : FindBatch(prob, win, idx) = Holding(b) /\ InBatch(b, idx)
         ELSE FindBatch(prob, win, idx).batch = prob.l
<1>1. PICK l \in Nat \ {0} : l = prob.l BY UnevenShape
<1>2. /\ Starts \in [0..Bound -> Nat] /\ Starts[0] = 0
      /\ \A b \in 0..Bound - 1 : Starts[b + 1] = Starts[b] + BatchWork(prob, b)
      /\ \A c, d \in 0..Bound : c <= d =>
           Starts[c] <= Starts[d] /\ WorkOfBatches(prob, c, d) = Starts[d] - Starts[c]
  BY StartsAre
<1>3. \A c \in 0..l : c \in 0..Bound /\ Starts[c] \in Nat
  <2>1. \A c \in 0..l : c \in 0..Bound BY <1>1 DEF Bound, Lanes
  <2> QED BY <1>2, <2>1
<1>4. Real = Starts[l] /\ Real \in Nat BY <1>1, <1>3 DEF Real
<1>5. PICK a \in 0..l - 1 : win.batch = a /\ win.before = Starts[a] /\ Starts[a] <= idx
                            /\ (win = NoWindow \/ win = Holding(a))
  <2>1. CASE win = NoWindow
    <3>1. win.batch = 0 /\ win.before = 0 BY <2>1 DEF NoWindow
    <3>2. 0 \in 0..l - 1 OBVIOUS
    <3> QED BY <1>2, <2>1, <3>1, <3>2
  <2>2. CASE \E b \in 0..prob.l - 1 : win = Holding(b) /\ Starts[b] <= idx
    <3>1. PICK b \in 0..prob.l - 1 : win = Holding(b) /\ Starts[b] <= idx BY <2>2
    <3>2. win.batch = b /\ win.before = Starts[b] BY <3>1 DEF Holding
    <3> QED BY <1>1, <3>1, <3>2
  <2> QED BY <2>1, <2>2 DEF Usable
<1>6. \A b : InBatch(b, idx) => idx < Real
  <2> SUFFICES ASSUME NEW b, InBatch(b, idx) PROVE idx < Real OBVIOUS
  <2>1. b \in 0..l - 1 /\ idx < Starts[b + 1] BY <1>1 DEF InBatch
  <2>2. b + 1 \in 0..l /\ l \in 0..l BY <2>1
  <2>3. Starts[b + 1] <= Starts[l] /\ Starts[b + 1] \in Nat /\ Starts[l] \in Nat BY <1>2, <1>3, <2>2
  <2> QED BY <1>4, <2>1, <2>3
<1>7. CASE ~NeedScan(win, idx)
  <2>1. win.before <= idx /\ idx < win.end
    <3>1. win.end \in Nat
      <4>1. CASE win = NoWindow BY <4>1 DEF NoWindow
      <4>2. CASE win = Holding(a)
        <5>1. win.end = Starts[a + 1] /\ a + 1 \in 0..l BY <4>2 DEF Holding
        <5> QED BY <1>3, <5>1
      <4> QED BY <1>5, <4>1, <4>2
    <3>2. win.before \in Nat BY <1>3, <1>5
    <3> QED BY <1>7, <3>1, <3>2 DEF NeedScan
  <2>2. win = Holding(a) BY <1>5, <2>1 DEF NoWindow
  <2>3. win.end = Starts[a + 1] BY <2>2 DEF Holding
  <2>4. InBatch(a, idx) BY <1>1, <1>5, <2>1, <2>3 DEF InBatch
  <2>5. FindBatch(prob, win, idx) = win BY <1>7 DEF FindBatch
  <2> QED BY <1>6, <2>2, <2>4, <2>5
<1>8. CASE NeedScan(win, idx)
  <2>1. a \in 0..prob.l BY <1>1
  <2>2. PICK w \in a..prob.l : /\ w = WindowFor(prob, win, idx) /\ Starts[w] <= idx
                               /\ w < prob.l => idx < Starts[w + (WarpLanes - 1)]
    BY <1>5, <2>1, WindowIs
  <2>3. PICK start : start = win.before + WorkOfBatches(prob, win.batch, w) OBVIOUS
  <2>4. start = Starts[w]
    <3>1. a \in 0..l /\ w \in 0..l /\ a <= w BY <1>1, <2>2
    <3>2. WorkOfBatches(prob, a, w) = Starts[w] - Starts[a] BY <1>2, <1>3, <3>1
    <3>3. Starts[a] \in Nat /\ Starts[w] \in Nat BY <1>3, <3>1
    <3>4. Starts[a] + (Starts[w] - Starts[a]) = Starts[w] BY <3>3
    <3> QED BY <1>5, <2>3, <3>2, <3>4
  <2>5. PICK b, before : b = w + Ballot(prob, start, w, idx) /\ before = start + WorkOfBatches(prob, w, b)
    OBVIOUS
  <2>6. FindBatch(prob, win, idx) =
          IF w = prob.l THEN [win EXCEPT !.batch = prob.l]
          ELSE [batch |-> b, before |-> before, end |-> EndOfBatch(prob, w, b, before),
                rows |-> BatchClustersM(prob, b)]
    BY <1>8, <2>2, <2>3, <2>5 DEF FindBatch
  <2>7. CASE w = prob.l
    <3>1. ~(idx < Real) BY <1>1, <1>4, <2>2, <2>7
    <3>2. DOMAIN win = {"batch", "before", "end", "rows"} BY <1>5 DEF NoWindow, Holding
    <3>3. [win EXCEPT !.batch = prob.l].batch = prob.l BY <3>2
    <3> QED BY <2>6, <2>7, <3>1, <3>3
  <2>8. CASE w # prob.l
    <3>1. w \in 0..prob.l - 1 /\ w < prob.l BY <1>1, <2>2, <2>8
    <3>2. PICK k \in 0..WarpLanes - 2 : Ballot(prob, Starts[w], w, idx) = k /\ InBatch(w + k, idx)
      BY <2>2, <3>1, BallotIs
    <3>3. b = w + k /\ b \in 0..l - 1 /\ w <= b /\ InBatch(b, idx)
      <4>1. b = w + k BY <2>4, <2>5, <3>2
      <4>2. b \in 0..l - 1 BY <1>1, <3>2, <4>1 DEF InBatch
      <4>3. w <= w + k BY <1>1, <3>1, <3>2 DEF Lanes
      <4> QED BY <3>2, <4>1, <4>2, <4>3
    <3>4. w \in 0..l /\ b \in 0..l /\ b + 1 \in 0..l BY <1>1, <3>1, <3>3
    <3>5. before = Starts[b]
      <4>1. WorkOfBatches(prob, w, b) = Starts[b] - Starts[w] BY <1>2, <1>3, <3>3, <3>4
      <4>2. Starts[w] \in Nat /\ Starts[b] \in Nat BY <1>3, <3>4
      <4>3. Starts[w] + (Starts[b] - Starts[w]) = Starts[b] BY <4>2
      <4> QED BY <2>4, <2>5, <4>1, <4>3
    <3>6. EndOfBatch(prob, w, b, before) = Starts[b + 1]
      <4>1. b \in 0..Bound - 1 BY <1>1, <3>3 DEF Bound, Lanes
      <4> QED BY <1>2, <3>5, <4>1 DEF EndOfBatch
    <3>7. FindBatch(prob, win, idx) = Holding(b) BY <2>6, <2>8, <3>5, <3>6 DEF Holding
    <3> QED BY <1>6, <3>3, <3>7
  <2> QED BY <2>7, <2>8
<1> QED BY <1>7, <1>8

-----------------------------------------------------------------------------
(* The tile of a work index.                                                 *)
BatchWith(i) == CHOOSE b : InBatch(b, i)
TileAt(i) ==
  IF prob.varlen THEN VarlenTile(prob, Holding(BatchWith(i)), i)
  ELSE DenseTile(prob, GridX(prob, i), GridZ(prob, i))

SpotOf(i) == IF Persistent(prob) THEN Mid(prob.split, Area, i) ELSE Low(Area, i)
PartOf(i) == IF Persistent(prob) THEN Low(prob.split, i) ELSE Mid(Area, prob.split, i)
BatchIn(i) == IF Persistent(prob) THEN Top(prob.split, Area, i) ELSE Top(Area, prob.split, i)

(* There is an index for every spot, split and batch.                       *)
LEMMA WorkIs ==
  ASSUME Shapes, Dense
  PROVE  /\ W \in Nat \ {0} /\ W = prob.l * Area * prob.split /\ W = prob.l * prob.split * Area
<1>1. PICK a \in Nat \ {0}, l \in Nat \ {0}, s \in Nat \ {0} : a = Area /\ l = prob.l /\ s = prob.split
  BY SpotIs, DenseShape
<1>2. W = a * l * s  BY <1>1 DEF W, WorkIds, Dense, Area
<1>3. a * l * s = l * a * s /\ a * l * s = l * s * a  BY Z3
<1>4. a * l \in Nat \ {0}  BY Z3
<1>5. a * l * s \in Nat \ {0}  BY <1>4, Z3
<1> QED  BY <1>1, <1>2, <1>3, <1>5

(* A work index is its spot, its split and its batch.                        *)
LEMMA IndexIs ==
  ASSUME Shapes, Dense
  PROVE  /\ \A i \in 0..W - 1 :
              /\ SpotOf(i) \in 0..Area - 1 /\ PartOf(i) \in 0..prob.split - 1 /\ BatchIn(i) \in 0..prob.l - 1
              /\ \A j \in 0..W - 1 :
                   SpotOf(i) = SpotOf(j) /\ PartOf(i) = PartOf(j) /\ BatchIn(i) = BatchIn(j) => i = j
         /\ \A a \in 0..Area - 1, s \in 0..prob.split - 1, d \in 0..prob.l - 1 :
              \E i \in 0..W - 1 : SpotOf(i) = a /\ PartOf(i) = s /\ BatchIn(i) = d
<1>1. PICK a \in Nat \ {0}, l \in Nat \ {0}, s \in Nat \ {0} : a = Area /\ l = prob.l /\ s = prob.split
  BY SpotIs, DenseShape
<1>2. W \in Nat \ {0} /\ W = l * a * s /\ W = l * s * a  BY <1>1, WorkIs
<1>3. \A i \in 0..W - 1 : i \in Nat /\ i < l * a * s /\ i < l * s * a  BY <1>2
<1>4. CASE Persistent(prob)
  <2>1. \A i : SpotOf(i) = Mid(s, a, i) /\ PartOf(i) = Low(s, i) /\ BatchIn(i) = Top(s, a, i)
    BY <1>1, <1>4 DEF SpotOf, PartOf, BatchIn
  <2>2. ASSUME NEW i \in 0..W - 1
        PROVE  /\ Mid(s, a, i) \in 0..a - 1 /\ Low(s, i) \in 0..s - 1 /\ Top(s, a, i) \in 0..l - 1
               /\ Number(s, a, Low(s, i), Mid(s, a, i), Top(s, a, i)) = i
    BY <1>3, DigitsIn
  <2>3. ASSUME NEW x \in 0..a - 1, NEW y \in 0..s - 1, NEW d \in 0..l - 1
        PROVE  \E i \in 0..W - 1 : Mid(s, a, i) = x /\ Low(s, i) = y /\ Top(s, a, i) = d
    <3>0. EachNumbered(s, a, l)  BY DigitsOnto
    <3>1. \A u \in 0..s - 1, v \in 0..a - 1, w \in 0..l - 1 : \E i \in 0..l * a * s - 1 :
            Low(s, i) = u /\ Mid(s, a, i) = v /\ Top(s, a, i) = w
      BY <3>0 DEF EachNumbered
    <3> QED  BY <1>2, <3>1
  <2>4. ASSUME NEW i \in 0..W - 1, NEW j \in 0..W - 1,
               Mid(s, a, i) = Mid(s, a, j), Low(s, i) = Low(s, j), Top(s, a, i) = Top(s, a, j)
        PROVE  i = j
    <3>1. Number(s, a, Low(s, i), Mid(s, a, i), Top(s, a, i)) = i  BY <2>2
    <3>2. Number(s, a, Low(s, j), Mid(s, a, j), Top(s, a, j)) = j  BY <2>2
    <3> QED  BY <2>4, <3>1, <3>2
  <2> QED  BY <1>1, <2>1, <2>2, <2>3, <2>4
<1>5. CASE ~Persistent(prob)
  <2>1. \A i : SpotOf(i) = Low(a, i) /\ PartOf(i) = Mid(a, s, i) /\ BatchIn(i) = Top(a, s, i)
    BY <1>1, <1>5 DEF SpotOf, PartOf, BatchIn
  <2>2. ASSUME NEW i \in 0..W - 1
        PROVE  /\ Low(a, i) \in 0..a - 1 /\ Mid(a, s, i) \in 0..s - 1 /\ Top(a, s, i) \in 0..l - 1
               /\ Number(a, s, Low(a, i), Mid(a, s, i), Top(a, s, i)) = i
    BY <1>3, DigitsIn
  <2>3. ASSUME NEW x \in 0..a - 1, NEW y \in 0..s - 1, NEW d \in 0..l - 1
        PROVE  \E i \in 0..W - 1 : Low(a, i) = x /\ Mid(a, s, i) = y /\ Top(a, s, i) = d
    <3>0. EachNumbered(a, s, l)  BY DigitsOnto
    <3>1. \A u \in 0..a - 1, v \in 0..s - 1, w \in 0..l - 1 : \E i \in 0..l * s * a - 1 :
            Low(a, i) = u /\ Mid(a, s, i) = v /\ Top(a, s, i) = w
      BY <3>0 DEF EachNumbered
    <3> QED  BY <1>2, <3>1
  <2>4. ASSUME NEW i \in 0..W - 1, NEW j \in 0..W - 1,
               Low(a, i) = Low(a, j), Mid(a, s, i) = Mid(a, s, j), Top(a, s, i) = Top(a, s, j)
        PROVE  i = j
    <3>1. Number(a, s, Low(a, i), Mid(a, s, i), Top(a, s, i)) = i  BY <2>2
    <3>2. Number(a, s, Low(a, j), Mid(a, s, j), Top(a, s, j)) = j  BY <2>2
    <3> QED  BY <2>4, <3>1, <3>2
  <2> QED  BY <1>1, <2>1, <2>2, <2>3, <2>4
<1> QED  BY <1>4, <1>5

(* The tile of an index, from the three.                                    *)
LEMMA TileParts ==
  ASSUME Shapes, Dense, NEW i \in 0..W - 1
  PROVE  TileAt(i) = [m |-> Spot(SpotOf(i)).m, n |-> Spot(SpotOf(i)).n, split |-> PartOf(i),
                      b |-> prob.perm[BatchIn(i)]]
<1>1. PICK a \in Nat \ {0}, l \in Nat \ {0}, s \in Nat \ {0} : a = Area /\ l = prob.l /\ s = prob.split
  BY SpotIs, DenseShape
<1>2. SpotOf(i) \in 0..a - 1 /\ PartOf(i) \in 0..s - 1 /\ BatchIn(i) \in Nat  BY <1>1, IndexIs, DenseShape
<1>3. PICK x, z : x = GridX(prob, i) /\ z = GridZ(prob, i)  OBVIOUS
<1>4. IdInProblem(prob, x) = SpotOf(i)
  BY <1>1, <1>3 DEF Dense, SpotOf, Low, Mid, Area, IdInProblem, GridX
<1>5. CombinedZ(prob, x, z) = BatchIn(i) * s + PartOf(i)
  <2>1. CASE Persistent(prob)
    BY <1>1, <1>3, <2>1
    DEF Dense, BatchIn, PartOf, Low, Top, Area, CombinedZ, GridX, GridZ
  <2>2. CASE ~Persistent(prob)
    <3>1. PICK y : y = i \div a  OBVIOUS
    <3>2. i \in Nat /\ y \in Nat
      <4>1. i \in Nat  BY WorkIs
      <4>2. i \div a \in Nat  BY <4>1, DivMod
      <4> QED  BY <3>1, <4>1, <4>2
    <3>3. CombinedZ(prob, x, z) = y
      BY <1>1, <1>3, <2>2, <3>1 DEF Dense, Area, CombinedZ, GridX, GridZ
    <3>4. BatchIn(i) = y \div s /\ PartOf(i) = y % s
      BY <1>1, <2>2, <3>1 DEF BatchIn, PartOf, Mid, Top
    <3>5. y = s * (y \div s) + (y % s)  BY <3>2, DivMod
    <3>6. PICK d \in Nat, r \in Nat : d = y \div s /\ r = y % s
      <4>1. y \div s \in Nat /\ y % s \in 0..s - 1  BY <3>2, DivMod
      <4>2. y % s \in Nat  BY <4>1
      <4> QED  BY <4>1, <4>2
    <3>7. s * d = d * s  BY <3>6, Z3
    <3> QED  BY <3>3, <3>4, <3>5, <3>6, <3>7
  <2> QED  BY <2>1, <2>2
<1>6. PICK zc : zc = BatchIn(i) * s + PartOf(i)  OBVIOUS
<1>7. zc % s = PartOf(i) /\ zc \div s = BatchIn(i)
  <2>1. PICK d \in Nat, r \in 0..s - 1 : d = BatchIn(i) /\ r = PartOf(i)  BY <1>2
  <2>2. (d * s + r) \div s = d /\ (d * s + r) % s = r  BY DivOf
  <2> QED  BY <1>6, <2>1, <2>2
<1>8. BatchOf(prob, zc) = prob.perm[BatchIn(i)]  BY <1>1, <1>7 DEF BatchOf
<1>9. IdInProblem(prob, x) \in Nat  BY <1>1, <1>2, <1>4
<1> QED  BY <1>1, <1>3, <1>4, <1>5, <1>6, <1>7, <1>8, <1>9, TileHas DEF TileAt, Dense

(* The output tiles of a dense problem.                                      *)
LEMMA OutputIs ==
  ASSUME Dense
  PROVE  \A t : t \in OutputTiles(prob) <=>
           t \in [m : 0..prob.m - 1, n : 0..prob.n - 1, split : 0..prob.split - 1, b : 0..prob.l - 1]
<1> SUFFICES ASSUME NEW t
    PROVE  t \in OutputTiles(prob) <=>
             t \in [m : 0..prob.m - 1, n : 0..prob.n - 1, split : 0..prob.split - 1, b : 0..prob.l - 1]
  OBVIOUS
<1>1. t \in OutputTiles(prob) <=> \E b \in 0..prob.l - 1 :
        t \in [m : 0..prob.m - 1, n : 0..prob.n - 1, split : 0..prob.split - 1, b : {b}]
  BY DEF Dense, OutputTiles
<1> QED  BY <1>1

(* Every output tile is that of exactly one work index.                      *)
LEMMA TilesAre ==
  ASSUME Shapes, Dense
  PROVE  /\ \A i \in 0..W - 1 : TileAt(i) \in OutputTiles(prob) /\ TileAt(i) # NoTile
         /\ \A i, j \in 0..W - 1 : TileAt(i) = TileAt(j) => i = j
         /\ \A t \in OutputTiles(prob) : \E i \in 0..W - 1 : TileAt(i) = t
<1>2. ASSUME NEW i \in 0..W - 1
      PROVE  TileAt(i) \in
               [m : 0..prob.m - 1, n : 0..prob.n - 1, split : 0..prob.split - 1, b : 0..prob.l - 1]
  <2>1. PICK c \in [m : 0..prob.m - 1, n : 0..prob.n - 1] : c = Spot(SpotOf(i))  BY IndexIs, SpotIs
  <2>2. PartOf(i) \in 0..prob.split - 1 /\ prob.perm[BatchIn(i)] \in 0..prob.l - 1
    BY IndexIs, DenseShape
  <2>3. TileAt(i) = [m |-> c.m, n |-> c.n, split |-> PartOf(i), b |-> prob.perm[BatchIn(i)]]
    BY <2>1, TileParts
  <2> QED  BY <2>1, <2>2, <2>3
<1>3. ASSUME NEW i \in 0..W - 1, NEW j \in 0..W - 1, TileAt(i) = TileAt(j)
      PROVE  i = j
  <2>1. PICK c \in [m : 0..prob.m - 1, n : 0..prob.n - 1], d \in [m : 0..prob.m - 1, n : 0..prob.n - 1] :
          c = Spot(SpotOf(i)) /\ d = Spot(SpotOf(j))
    BY IndexIs, SpotIs
  <2>2. TileAt(i) = [m |-> c.m, n |-> c.n, split |-> PartOf(i), b |-> prob.perm[BatchIn(i)]]
    BY <2>1, TileParts
  <2>3. TileAt(j) = [m |-> d.m, n |-> d.n, split |-> PartOf(j), b |-> prob.perm[BatchIn(j)]]
    BY <2>1, TileParts
  <2>4. c.m = d.m /\ c.n = d.n /\ PartOf(i) = PartOf(j) /\ prob.perm[BatchIn(i)] = prob.perm[BatchIn(j)]
    <3>1. /\ TileAt(i).m = c.m /\ TileAt(i).n = c.n /\ TileAt(i).split = PartOf(i)
          /\ TileAt(i).b = prob.perm[BatchIn(i)]
      BY <2>2
    <3>2. /\ TileAt(j).m = d.m /\ TileAt(j).n = d.n /\ TileAt(j).split = PartOf(j)
          /\ TileAt(j).b = prob.perm[BatchIn(j)]
      BY <2>3
    <3> QED  BY <1>3, <3>1, <3>2
  <2>5. c = d  BY <2>1, <2>4
  <2>6. BatchIn(i) = BatchIn(j)  BY <2>4, IndexIs, DenseShape
  <2>7. SpotOf(i) = SpotOf(j)
    <3>1. SpotOf(i) \in 0..Area - 1 /\ SpotOf(j) \in 0..Area - 1  BY IndexIs
    <3> QED  BY <2>1, <2>5, <3>1, SpotIs
  <2> QED  BY <2>4, <2>6, <2>7, IndexIs
<1>4. ASSUME NEW t \in [m : 0..prob.m - 1, n : 0..prob.n - 1, split : 0..prob.split - 1, b : 0..prob.l - 1]
      PROVE  \E i \in 0..W - 1 : TileAt(i) = t
  <2>1. PICK a \in 0..Area - 1 : Spot(a) = [m |-> t.m, n |-> t.n]
    <3>1. t.m \in 0..prob.m - 1 /\ t.n \in 0..prob.n - 1  OBVIOUS
    <3> QED  BY <3>1, SpotIs
  <2>2. PICK d \in 0..prob.l - 1 : prob.perm[d] = t.b  BY DenseShape
  <2>3. PICK i \in 0..W - 1 : SpotOf(i) = a /\ PartOf(i) = t.split /\ BatchIn(i) = d  BY IndexIs
  <2>4. TileAt(i) = [m |-> t.m, n |-> t.n, split |-> t.split, b |-> t.b]  BY <2>1, <2>2, <2>3, TileParts
  <2> QED  BY <2>4
<1>5. \A i \in 0..W - 1 : TileAt(i) # NoTile
  <2> SUFFICES ASSUME NEW i \in 0..W - 1 PROVE TileAt(i) # NoTile  OBVIOUS
  <2>1. TileAt(i).n \in 0..prob.n - 1  BY <1>2
  <2> QED  BY <2>1, DenseShape DEF NoTile
<1> QED  BY <1>2, <1>3, <1>4, <1>5, OutputIs

-----------------------------------------------------------------------------
(* A dense launch, step by step. G clusters start, in order; the others of   *)
(* the W indices are drawn, strided to or, under CLC, granted.               *)
Dynamic == prob.mode = "DYNAMIC"
Strided == prob.mode = "STATIC"

ClusterFields == {"st", "x", "executed", "phantom", "budget", "tile", "win"}
Clustered ==
  /\ next \in 0..G
  /\ DOMAIN cl = Clusters
  /\ \A g \in Clusters : DOMAIN cl[g] = ClusterFields

(* Only a running cluster has a tile; under CLC a pending one may have been  *)
(* granted away. A strided cluster without a tile has passed the work.       *)
Stage(g) ==
  /\ cl[g].st \in {"pending", "run", "drain", "gone"}
  /\ cl[g].tile # NoTile => cl[g].st = "run"
  /\ cl[g].st # "pending" => g < next
  /\ prob.mode # "CLC" /\ g < next => cl[g].st # "pending"
  /\ cl[g].st = "drain" => cl[g].budget = 0
  /\ cl[g].executed \in Nat
  /\ Strided /\ g < next =>
       cl[g].x \in Nat /\ cl[g].x % G = g /\ (cl[g].tile = NoTile => cl[g].x >= W)
Stages == \A g \in Clusters : Stage(g)

(* A dynamic cluster that has been launched and has no tile drew an index    *)
(* past the work. Such draws are the last ones. f is the number of draws.    *)
Empty == {g \in Clusters : g < next /\ cl[g].tile = NoTile}
Draws(f) ==
  /\ IF f = W THEN semaphore = 0 ELSE semaphore = f
  /\ Cardinality(Empty) = IF f <= W - G THEN 0 ELSE f - (W - G)

(* The indices that clusters have begun on, after f draws.                   *)
Taken(f) == {i \in 0..W - 1 :
  IF Strided THEN i % G < next /\ i <= cl[i % G].x
  ELSE i < next \/ (Dynamic /\ G <= i /\ i < G + f)}

(* Every index begun on is in the hands of one cluster, or done once.        *)
Accounts(D) ==
  /\ \A g, h \in Clusters :
       cl[g].tile = cl[h].tile /\ cl[g].tile # NoTile => g = h
  /\ \A g \in Clusters : cl[g].tile # NoTile =>
       cl[g].tile \notin DOMAIN done /\ \E i \in D : cl[g].tile = TileAt(i)
  /\ \A t \in DOMAIN done : done[t] = 1 /\ \E i \in D : t = TileAt(i)
  /\ \A i \in D : TileAt(i) \in DOMAIN done \/ \E g \in Clusters : cl[g].tile = TileAt(i)

Ledger(f) ==
  /\ IF Dynamic THEN Draws(f) ELSE semaphore = 0
  /\ \E D \in SUBSET (0..W - 1) : D = Taken(f) /\ Accounts(D)
DenseInv ==
  /\ prob \in Problems
  /\ ~prob.varlen => Clustered /\ Stages /\ \E f \in 0..W : Ledger(f)

(* The grid of a dense launch.                                               *)
LEMMA GridIs ==
  ASSUME Shapes, Dense
  PROVE  /\ W \in Nat \ {0} /\ G \in Nat \ {0} /\ G <= W /\ Clusters = 0..G - 1
         /\ ~Persistent(prob) => G = W
<1>1. W \in Nat \ {0}  BY WorkIs
<1>2. MaxActive \in Nat \ {0}  BY DEF Shapes
<1> QED  BY <1>1, <1>2 DEF G, W, GridClusters, Lower, Clusters

(* A step of cluster g: it hands in the tile it had, if it had one.          *)
OthersKeep(g) ==
  /\ prob' = prob /\ Clusters' = Clusters
  /\ \A h \in Clusters : h # g => cl'[h].tile = cl[h].tile
HandsIn(g) ==
  IF cl[g].tile = NoTile THEN done' = done
  ELSE done' = done (+) SetToBag({cl[g].tile})

(* The first n indices are those of the tiles of the output, one to one.     *)
Indexed(n) ==
  /\ \A i \in 0..n - 1 : TileAt(i) \in OutputTiles(prob) /\ TileAt(i) # NoTile
  /\ \A i, j \in 0..n - 1 : TileAt(i) = TileAt(j) => i = j
  /\ \A t \in OutputTiles(prob) : \E i \in 0..n - 1 : TileAt(i) = t

LEMMA DenseIndexed == ASSUME Shapes, Dense PROVE Indexed(W)
BY TilesAre DEF Indexed

(* The tile of an index is the problem's.                                    *)
LEMMA TileKeeps == ASSUME prob' = prob PROVE \A i : TileAt(i)' = TileAt(i)
<1>1. Starts' = Starts  BY DEF Starts, BatchWorks, Bound
<1>2. \A b : Holding(b)' = Holding(b)  BY <1>1 DEF Holding
<1>3. \A i : BatchWith(i)' = BatchWith(i)  BY <1>1 DEF BatchWith, InBatch
<1> QED  BY <1>2, <1>3 DEF TileAt

(* What is done after it.                                                   *)
LEMMA DoneIs ==
  ASSUME NEW D, Accounts(D), NEW g \in Clusters, HandsIn(g)
  PROVE  /\ DOMAIN done' = DOMAIN done \cup ({cl[g].tile} \ {NoTile})
         /\ \A u \in DOMAIN done' : done'[u] = 1
<1>1. CASE cl[g].tile = NoTile  BY <1>1 DEF HandsIn, Accounts
<1>2. CASE cl[g].tile # NoTile
  <2>1. PICK t, one : t = cl[g].tile /\ one = [e \in {t} |-> 1]  OBVIOUS
  <2>2. SetToBag({t}) = one  BY <2>1 DEF SetToBag
  <2>3. done' = done (+) one  BY <1>2, <2>1, <2>2 DEF HandsIn
  <2>4. done' = [e \in DOMAIN done \cup DOMAIN one |->
                   (IF e \in DOMAIN done THEN done[e] ELSE 0) + (IF e \in DOMAIN one THEN one[e] ELSE 0)]
    BY <2>3 DEF (+)
  <2>5. DOMAIN one = {t} /\ one[t] = 1  BY <2>1
  <2>6. t \notin DOMAIN done /\ \A u \in DOMAIN done : done[u] = 1  BY <1>2, <2>1 DEF Accounts
  <2>7. DOMAIN done' = DOMAIN done \cup {t}  BY <2>4, <2>5
  <2>8. done'[t] = 1
    <3>1. done'[t] = 0 + 1  BY <2>4, <2>5, <2>6
    <3> QED  BY <3>1
  <2>9. ASSUME NEW u \in DOMAIN done PROVE done'[u] = 1
    <3>1. u # t /\ done[u] = 1  BY <2>6
    <3>2. done'[u] = 1 + 0  BY <2>4, <2>5, <3>1
    <3> QED  BY <3>2
  <2> QED  BY <1>2, <2>1, <2>7, <2>8, <2>9
<1> QED  BY <1>1, <1>2

(* The cluster begins on an index that was not taken.                       *)
LEMMA TileBegins ==
  ASSUME NEW n, Indexed(n), NEW D \in SUBSET (0..n - 1), Accounts(D), NEW g \in Clusters,
         OthersKeep(g), HandsIn(g), NEW i \in (0..n - 1) \ D, cl'[g].tile = TileAt(i)
  PROVE  Accounts(D \cup {i})'
<1>1. /\ DOMAIN done' = DOMAIN done \cup ({cl[g].tile} \ {NoTile})
      /\ \A u \in DOMAIN done' : done'[u] = 1
  BY DoneIs
<1>2. \A j : TileAt(j)' = TileAt(j)  BY TileKeeps DEF OthersKeep
<1>3. \A j \in D : TileAt(j) # TileAt(i)  BY DEF Indexed
<1>4. TileAt(i) # NoTile  BY DEF Indexed
<1>5. \A h \in Clusters : cl[h].tile # TileAt(i)  BY <1>3, <1>4 DEF Accounts
<1>6. TileAt(i) \notin DOMAIN done  BY <1>3 DEF Accounts
<1>7. ASSUME NEW a \in Clusters, NEW b \in Clusters,
             cl'[a].tile = cl'[b].tile, cl'[a].tile # NoTile
      PROVE  a = b
  BY <1>5, <1>7 DEF Accounts, OthersKeep
<1>8. ASSUME NEW a \in Clusters, cl'[a].tile # NoTile
      PROVE  cl'[a].tile \notin DOMAIN done' /\ \E j \in D \cup {i} : cl'[a].tile = TileAt(j)
  <2>1. CASE a = g  BY <1>1, <1>5, <1>6, <2>1
  <2>2. CASE a # g
    <3>1. cl'[a].tile = cl[a].tile  BY <2>2 DEF OthersKeep
    <3>2. cl[a].tile \notin DOMAIN done /\ \E j \in D : cl[a].tile = TileAt(j)
      BY <1>8, <3>1 DEF Accounts
    <3>3. cl[a].tile # cl[g].tile  BY <1>8, <2>2, <3>1 DEF Accounts
    <3> QED  BY <1>1, <3>1, <3>2, <3>3
  <2> QED  BY <2>1, <2>2
<1>9. ASSUME NEW t \in DOMAIN done' PROVE \E j \in D \cup {i} : t = TileAt(j)
  BY <1>1 DEF Accounts
<1>10. ASSUME NEW j \in D \cup {i}
       PROVE  TileAt(j) \in DOMAIN done' \/ \E h \in Clusters : cl'[h].tile = TileAt(j)
  <2>1. CASE j = i  BY <2>1
  <2>2. CASE j \in D
    <3>1. CASE TileAt(j) \in DOMAIN done  BY <1>1, <3>1
    <3>2. CASE \E h \in Clusters : cl[h].tile = TileAt(j)
      <4>1. PICK h \in Clusters : cl[h].tile = TileAt(j)  BY <3>2
      <4>2. TileAt(j) # NoTile  BY <2>2 DEF Indexed
      <4>3. CASE h = g  BY <1>1, <4>1, <4>2, <4>3
      <4>4. CASE h # g  BY <4>1, <4>4 DEF OthersKeep
      <4> QED  BY <4>3, <4>4
    <3> QED  BY <2>2, <3>1, <3>2 DEF Accounts
  <2> QED  BY <2>1, <2>2
<1>11. Clusters' = Clusters /\ NoTile' = NoTile
  BY DEF OthersKeep, NoTile
<1> QED  BY <1>1, <1>2, <1>7, <1>8, <1>9, <1>10, <1>11 DEF Accounts

(* A cluster hands its tile in and has no next one.                          *)
LEMMA TileEnds ==
  ASSUME NEW n, Indexed(n), NEW D \in SUBSET (0..n - 1), Accounts(D), NEW g \in Clusters,
         OthersKeep(g), HandsIn(g), cl'[g].tile = NoTile
  PROVE  Accounts(D)'
<1>1. /\ DOMAIN done' = DOMAIN done \cup ({cl[g].tile} \ {NoTile})
      /\ \A u \in DOMAIN done' : done'[u] = 1
  BY DoneIs
<1>2. \A j : TileAt(j)' = TileAt(j)  BY TileKeeps DEF OthersKeep
<1>7. ASSUME NEW a \in Clusters, NEW b \in Clusters,
             cl'[a].tile = cl'[b].tile, cl'[a].tile # NoTile
      PROVE  a = b
  BY <1>7 DEF Accounts, OthersKeep
<1>8. ASSUME NEW a \in Clusters, cl'[a].tile # NoTile
      PROVE  cl'[a].tile \notin DOMAIN done' /\ \E j \in D : cl'[a].tile = TileAt(j)
  <2>1. a # g  BY <1>8
  <2>2. cl'[a].tile = cl[a].tile  BY <2>1 DEF OthersKeep
  <2>3. cl[a].tile \notin DOMAIN done /\ \E j \in D : cl[a].tile = TileAt(j)
    BY <1>8, <2>2 DEF Accounts
  <2>4. cl[a].tile # cl[g].tile  BY <1>8, <2>1, <2>2 DEF Accounts
  <2> QED  BY <1>1, <2>2, <2>3, <2>4
<1>9. ASSUME NEW t \in DOMAIN done' PROVE \E j \in D : t = TileAt(j)
  BY <1>1 DEF Accounts
<1>10. ASSUME NEW j \in D
       PROVE  TileAt(j) \in DOMAIN done' \/ \E h \in Clusters : cl'[h].tile = TileAt(j)
  <2>1. CASE TileAt(j) \in DOMAIN done  BY <1>1, <2>1
  <2>2. CASE \E h \in Clusters : cl[h].tile = TileAt(j)
    <3>1. PICK h \in Clusters : cl[h].tile = TileAt(j)  BY <2>2
    <3>2. TileAt(j) # NoTile  BY DEF Indexed
    <3>3. CASE h = g  BY <1>1, <3>1, <3>2, <3>3
    <3>4. CASE h # g  BY <3>1, <3>4 DEF OthersKeep
    <3> QED  BY <3>3, <3>4
  <2> QED  BY <2>1, <2>2 DEF Accounts
<1>11. Clusters' = Clusters /\ NoTile' = NoTile
  BY DEF OthersKeep, NoTile
<1> QED  BY <1>1, <1>2, <1>7, <1>8, <1>9, <1>10, <1>11 DEF Accounts

(* Numbers with the same remainder are a divisor apart, or more.             *)
LEMMA Strides ==
  ASSUME NEW b \in Nat \ {0}, NEW x \in Nat
  PROVE  /\ (x + b) % b = x % b
         /\ \A i \in Nat : i % b = x % b /\ x < i /\ i <= x + b => i = x + b
<1>1. PICK d \in Nat, r \in 0..b - 1 : x = b * d + r /\ r = x % b  BY DivMod
<1>2. PICK y \in Nat : y = b * d /\ d * b = y
  <2>1. b * d \in Nat /\ d * b = b * d  BY <1>1, Z3
  <2> QED  BY <2>1
<1>3. (x + b) % b = r
  <2>1. (d + 1) * b = y + b  BY <1>2, Z3
  <2>2. (d + 1) * b + r = x + b  BY <1>1, <1>2, <2>1
  <2>3. PICK k \in Nat : k = d + 1  BY <1>1
  <2>4. (k * b + r) % b = r  BY <1>1, DivOf
  <2> QED  BY <2>2, <2>3, <2>4
<1>4. ASSUME NEW i \in Nat, i % b = x % b, x < i, i <= x + b PROVE i = x + b
  <2>1. PICK e \in Nat : i = b * e + r
    <3>1. i \div b \in Nat /\ i = b * (i \div b) + (i % b)  BY DivMod
    <3>2. PICK e \in Nat : e = i \div b  BY <3>1
    <3> QED  BY <1>1, <1>4, <3>1, <3>2
  <2>2. PICK z \in Nat : z = b * e /\ e * b = z
    <3>1. b * e \in Nat /\ e * b = b * e  BY <2>1, Z3
    <3> QED  BY <3>1
  <2>3. d < e
    <3>1. CASE e <= d
      <4>1. e * b <= d * b  BY <3>1, MulMono
      <4> QED  BY <1>1, <1>2, <1>4, <2>1, <2>2, <4>1
    <3> QED  BY <3>1
  <2>4. (d + 1) * b <= e * b  BY <2>3, MulMono
  <2>5. (d + 1) * b = y + b  BY <1>2, Z3
  <2> QED  BY <1>1, <1>2, <1>4, <2>1, <2>2, <2>4, <2>5
<1> QED  BY <1>1, <1>3, <1>4

(* What an index decodes to in a dense launch.                               *)
LEMMA Decoded ==
  ASSUME Dense, NEW c, DOMAIN c = ClusterFields, NEW x, NEW z, NEW granted \in BOOLEAN,
         NEW d, d = Delinearize(prob, c, x, z, granted)
  PROVE  /\ DOMAIN d = ClusterFields /\ d.st = c.st /\ d.budget = c.budget
         /\ d.executed = c.executed /\ d.x = c.x
         /\ d.tile = IF (prob.mode # "NONE" \/ c.executed = 0) /\ granted /\ DenseValid(prob, x)
                     THEN DenseTile(prob, x, z) ELSE NoTile
BY DEF Dense, Delinearize, ClusterFields

(* Where work index i is in the grid of the launch, it decodes to its tile.  *)
LEMMA AtIndex ==
  ASSUME Shapes, Dense, NEW i \in 0..W - 1
  PROVE  /\ DenseValid(prob, GridX(prob, i))
         /\ DenseTile(prob, GridX(prob, i), GridZ(prob, i)) = TileAt(i)
         /\ Persistent(prob) => GridX(prob, i) = i /\ GridZ(prob, i) = 0
<1>1. CASE Persistent(prob)
  BY <1>1, WorkIs DEF W, TileAt, Dense, DenseValid, GridX, GridZ
<1>2. CASE ~Persistent(prob)
  <2>1. PICK a \in Nat \ {0} : a = prob.m * prob.n  BY SpotIs DEF Area
  <2>2. i \in Nat  BY WorkIs
  <2>3. i % a \in 0..a - 1  BY <2>2, DivMod
  <2>4. GridX(prob, i) = i % a  BY <1>2, <2>1 DEF Dense, GridX
  <2>5. PICK y \in 0..a - 1 : y = i % a  BY <2>3
  <2> QED  BY <1>2, <2>1, <2>4, <2>5 DEF TileAt, Dense, DenseValid
<1> QED  BY <1>1, <1>2

(* What one cluster's step, or a launch or grant of the next one, leaves be. *)
LEMMA StagesKeep ==
  ASSUME Shapes, Dense, Clustered, Stages, prob' = prob, NEW g \in Clusters,
         NEW d, cl' = [cl EXCEPT ![g] = d], DOMAIN d = ClusterFields,
         next' \in 0..G, next' = next \/ (next' = next + 1 /\ (g = next \/ prob.mode = "CLC")),
         Stage(g)'
  PROVE  /\ Clustered' /\ Stages' /\ W' = W /\ G' = G /\ Clusters' = Clusters
         /\ cl'[g] = d /\ \A h \in Clusters : h # g => cl'[h] = cl[h]
<1>1. W' = W /\ G' = G /\ Clusters' = Clusters /\ Strided' = Strided
  BY DEF W, G, Clusters, Strided
<1>2. /\ DOMAIN cl' = DOMAIN cl /\ cl'[g] = d
      /\ \A h \in Clusters : h # g => cl'[h] = cl[h]
  BY DEF Clustered
<1>3. Clustered'  BY <1>1, <1>2 DEF Clustered
<1>4. ASSUME NEW h \in Clusters, h # g PROVE Stage(h)'
  <2>1. Stage(h) /\ cl'[h] = cl[h]  BY <1>2, <1>4 DEF Stages
  <2>2. next \in Int /\ h \in Int /\ next' \in Int /\ next <= next'
    <3>1. G \in Nat /\ Clusters = 0..G - 1  BY GridIs
    <3> QED  BY <3>1 DEF Clustered
  <2>3. prob.mode # "CLC" /\ h < next' => h < next  BY <1>4, <2>2
  <2>4. h < next => h < next'  BY <2>2
  <2>5. Strided => prob.mode # "CLC"  BY DEF Strided
  <2>6. NoTile' = NoTile  BY DEF NoTile
  <2> QED  BY <1>1, <2>1, <2>3, <2>4, <2>5, <2>6 DEF Stage
<1>5. Stages'  BY <1>1, <1>4 DEF Stages
<1> QED  BY <1>1, <1>2, <1>3, <1>5

(* Nothing is taken at the start.                                           *)
LEMMA InitDense ==
  ASSUME Shapes, ScheduleInit
  PROVE  DenseInv
<1>1. /\ prob \in Problems /\ semaphore = 0 /\ next = 0 /\ done = EmptyBag
      /\ cl = [g \in Clusters |-> Unlaunched]
  BY DEF ScheduleInit, Clusters
<1>2. CASE prob.varlen  BY <1>1, <1>2 DEF DenseInv
<1>3. CASE ~prob.varlen
  <2>0. Dense  BY <1>1, <1>3 DEF Dense
  <2>1. W \in Nat \ {0} /\ G \in Nat \ {0} /\ G <= W /\ Clusters = 0..G - 1  BY <2>0, GridIs
  <2>2. Clustered  BY <1>1, <2>1 DEF Clustered, ClusterFields, Unlaunched
  <2>3. Stages  BY <1>1, <2>1 DEF Stages, Stage, Unlaunched
  <2>4. Empty = {}  BY <1>1, <2>1 DEF Empty
  <2>5. Draws(0)  BY <1>1, <2>1, <2>4, FS_EmptySet DEF Draws
  <2>6. Taken(0) = {}
    <3> SUFFICES ASSUME NEW i \in 0..W - 1
                 PROVE  ~(IF Strided THEN i % G < next /\ i <= cl[i % G].x
                          ELSE i < next \/ (Dynamic /\ G <= i /\ i < G + 0))
      BY DEF Taken
    <3>1. i % G \in 0..G - 1 /\ i \in Nat  BY <2>1, DivMod
    <3>2. PICK r \in Nat : r = i % G  BY <3>1
    <3> QED  BY <1>1, <2>1, <3>1, <3>2
  <2>7. Accounts({})
    <3>1. DOMAIN done = {}  BY <1>1 DEF EmptyBag, SetToBag
    <3>2. \A g \in Clusters : cl[g].tile = NoTile  BY <1>1 DEF Unlaunched
    <3> QED  BY <3>1, <3>2 DEF Accounts
  <2>8. Ledger(0)  BY <1>1, <2>5, <2>6, <2>7 DEF Ledger
  <2>9. 0 \in 0..W  BY <2>1
  <2> QED  BY <1>1, <2>2, <2>3, <2>8, <2>9 DEF DenseInv
<1> QED  BY <1>2, <1>3

(* A step that changes no tile and takes no index.                           *)
LEMMA LedgerKeeps ==
  ASSUME Shapes, Dense, NEW f \in 0..W, Ledger(f),
         prob' = prob, next' = next, semaphore' = semaphore, done' = done,
         Clustered, Stages, W' = W, G' = G, Clusters' = Clusters,
         NEW g \in Clusters, cl'[g].tile = cl[g].tile, cl'[g].x = cl[g].x,
         \A h \in Clusters : h # g => cl'[h] = cl[h]
  PROVE  Ledger(f)'
<1>0. \A h \in Clusters : cl'[h].tile = cl[h].tile /\ cl'[h].x = cl[h].x  OBVIOUS
<1>1. Empty' = Empty  BY <1>0 DEF Empty, NoTile
<1>2. Draws(f)' <=> Draws(f)  BY <1>1 DEF Draws
<1>3. Taken(f)' = Taken(f)
  <2>1. G \in Nat \ {0} /\ W \in Nat \ {0} /\ Clusters = 0..G - 1  BY GridIs
  <2>2. \A i \in 0..W - 1 : i % G \in Clusters
    <3> SUFFICES ASSUME NEW i \in 0..W - 1 PROVE i % G \in Clusters  OBVIOUS
    <3>1. i \in Nat  BY <2>1
    <3> QED  BY <2>1, <3>1, DivMod
  <2>3. \A i \in 0..W - 1 : cl'[i % G].x = cl[i % G].x  BY <1>0, <2>2
  <2> QED  BY <2>3 DEF Taken, Strided, Dynamic
<1>4. ASSUME NEW D, Accounts(D) PROVE Accounts(D)'
  <2>1. \A j : TileAt(j)' = TileAt(j)  BY TileKeeps
  <2> QED  BY <1>0, <1>4, <2>1 DEF Accounts, NoTile
<1> QED  BY <1>2, <1>3, <1>4 DEF Ledger, Dynamic

(* A cluster without a tile retires, drains nothing and leaves.              *)
LEMMA LeaveDense ==
  ASSUME Shapes, DenseInv, Dense, NEW g \in Clusters,
         Retire(g) \/ CancelOne(g) \/ ExitCluster(g)
  PROVE  DenseInv'
<1>1. Clustered /\ Stages  BY DEF DenseInv, Dense
<1>2. PICK f \in 0..W : Ledger(f)  BY DEF DenseInv, Dense
<1>3. Stage(g) /\ DOMAIN cl[g] = ClusterFields  BY <1>1 DEF Stages, Clustered
<1>4. ~CancelOne(g)  BY <1>3 DEF Stage, CancelOne
<1>5. PICK st, budget : st \in {"drain", "gone"} /\ (st = "drain" => budget = 0)
        /\ cl' = [cl EXCEPT ![g].st = st, ![g].budget = budget]
        /\ cl[g].st # "pending" /\ cl[g].tile = NoTile
  <2>1. CASE Retire(g)
    <3>1. DrainBudget(prob, cl[g]) = 0  BY DEF DrainBudget, Dense
    <3> QED  BY <2>1, <3>1 DEF Retire
  <2>2. CASE ExitCluster(g)
    <3>1. cl' = [cl EXCEPT ![g].st = "gone"] /\ cl[g].st = "drain"  BY <2>2 DEF ExitCluster
    <3>2. PICK b : b = cl[g].budget  OBVIOUS
    <3>3. cl' = [cl EXCEPT ![g].st = "gone", ![g].budget = b]
      BY <1>1, <1>3, <3>1, <3>2 DEF Clustered, ClusterFields
    <3>4. cl[g].tile = NoTile  BY <1>3, <3>1 DEF Stage
    <3> QED  BY <3>1, <3>3, <3>4
  <2> QED  BY <1>4, <2>1, <2>2
<1>6. next' = next /\ prob' = prob /\ semaphore' = semaphore /\ done' = done
  BY <1>4 DEF Retire, ExitCluster
<1>7. PICK d : d = [cl[g] EXCEPT !.st = st, !.budget = budget]  OBVIOUS
<1>8. /\ DOMAIN d = ClusterFields /\ d.st = st /\ d.budget = budget /\ d.tile = cl[g].tile
      /\ d.x = cl[g].x /\ d.executed = cl[g].executed
  BY <1>3, <1>7 DEF ClusterFields
<1>9. cl' = [cl EXCEPT ![g] = d]  BY <1>1, <1>5, <1>7 DEF Clustered
<1>10. cl'[g] = d  BY <1>1, <1>9 DEF Clustered
<1>11. Stage(g)'
  BY <1>3, <1>5, <1>6, <1>8, <1>10 DEF Stage, Strided, W, G, NoTile
<1>12. next' \in 0..G  BY <1>1, <1>6 DEF Clustered
<1>13. /\ Clustered' /\ Stages' /\ W' = W /\ G' = G /\ Clusters' = Clusters
       /\ \A h \in Clusters : h # g => cl'[h] = cl[h]
  BY <1>1, <1>6, <1>8, <1>9, <1>11, <1>12, StagesKeep
<1>14. Ledger(f)'  BY <1>1, <1>2, <1>6, <1>8, <1>10, <1>13, LedgerKeeps
<1>15. f \in 0..W'  BY <1>13
<1> QED  BY <1>6, <1>13, <1>14, <1>15 DEF DenseInv, Dense

(* A launched cluster begins on the tile of its own index.                   *)
LEMMA LaunchDense ==
  ASSUME Shapes, DenseInv, Dense, LaunchCluster
  PROVE  DenseInv'
<1>1. Clustered /\ Stages  BY DEF DenseInv, Dense
<1>2. PICK f \in 0..W : Ledger(f)  BY DEF DenseInv, Dense
<1>3. W \in Nat \ {0} /\ G \in Nat \ {0} /\ G <= W /\ Clusters = 0..G - 1  BY GridIs
<1>4. /\ next \in 0..G - 1 /\ next' = next + 1 /\ prob' = prob /\ semaphore' = semaphore /\ done' = done
  BY <1>1, <1>3 DEF LaunchCluster, Clustered
<1>5. PICK g \in 0..G - 1 : g = next  BY <1>4
<1>6. g \in Clusters /\ g \in 0..W - 1  BY <1>3
<1>7. PICK c : c = [Unlaunched EXCEPT !.st = "run", !.x = GridX(prob, g)]  OBVIOUS
<1>8. DOMAIN c = ClusterFields /\ c.st = "run" /\ c.executed = 0 /\ c.x = GridX(prob, g)
  BY <1>7 DEF Unlaunched, ClusterFields
<1>9. PICK d : d = Delinearize(prob, c, GridX(prob, g), GridZ(prob, g), TRUE)
  OBVIOUS
<1>10. /\ DOMAIN d = ClusterFields /\ d.st = "run" /\ d.executed = 0 /\ d.x = GridX(prob, g)
       /\ d.tile = TileAt(g) /\ d.tile # NoTile
  <2>0. PICK ok \in BOOLEAN : ok = TRUE  OBVIOUS
  <2>1. PICK x, z : x = GridX(prob, g) /\ z = GridZ(prob, g)  OBVIOUS
  <2>2. d = Delinearize(prob, c, x, z, ok)  BY <1>9, <2>0, <2>1
  <2>3. /\ DOMAIN d = ClusterFields /\ d.st = c.st /\ d.executed = c.executed /\ d.x = c.x
        /\ d.tile = IF (prob.mode # "NONE" \/ c.executed = 0) /\ ok /\ DenseValid(prob, x)
                    THEN DenseTile(prob, x, z) ELSE NoTile
    BY <1>8, <2>2, Decoded
  <2>4. DenseValid(prob, x) /\ DenseTile(prob, x, z) = TileAt(g)
    BY <1>6, <2>1, AtIndex
  <2> QED  BY <1>6, <1>8, <2>0, <2>1, <2>3, <2>4, TilesAre
<1>11. cl' = [cl EXCEPT ![g] = d]  BY <1>5, <1>7, <1>9 DEF LaunchCluster
<1>12. cl'[g] = d  BY <1>1, <1>6, <1>11 DEF Clustered
<1>13. Stage(g)'
  <2>1. Strided => d.x = g  BY <1>6, <1>10, AtIndex DEF Strided, Persistent
  <2>2. g % G = g  BY <1>3
  <2> QED  BY <1>3, <1>4, <1>5, <1>10, <1>12, <2>1, <2>2 DEF Stage, Strided, W, G, NoTile
<1>14. next' \in 0..G  BY <1>3, <1>4
<1>15. /\ Clustered' /\ Stages' /\ W' = W /\ G' = G /\ Clusters' = Clusters
       /\ \A h \in Clusters : h # g => cl'[h] = cl[h]
  BY <1>1, <1>4, <1>5, <1>6, <1>10, <1>11, <1>13, <1>14, StagesKeep
<1>16. Empty' = Empty
  <2>1. \A h \in Clusters : h # g => (h < next' <=> h < next)  BY <1>3, <1>4, <1>5
  <2>2. g \notin Empty /\ g \notin Empty'  BY <1>4, <1>5, <1>10, <1>12 DEF Empty, NoTile
  <2> QED  BY <1>15, <2>1, <2>2 DEF Empty, NoTile
<1>17. Draws(f)' <=> Draws(f)  BY <1>4, <1>15, <1>16 DEF Draws
<1>18. PICK D \in SUBSET (0..W - 1) : D = Taken(f) /\ Accounts(D)  BY <1>2 DEF Ledger
<1>19. g \notin D /\ Taken(f)' = D \cup {g}
  <2>0. g % G = g  BY <1>3
  <2>1. g \notin Taken(f)  BY <1>3, <1>5, <2>0 DEF Taken
  <2>2. ASSUME NEW i \in 0..W - 1
        PROVE  i \in Taken(f)' <=> i \in Taken(f) \/ i = g
    <3>1. i \in Nat /\ i % G \in 0..G - 1 /\ i % G <= i
      <4>1. i \in Nat  BY <1>3
      <4>2. i % G \in 0..G - 1 /\ i \div G \in Nat /\ i = G * (i \div G) + (i % G)  BY <1>3, <4>1, DivMod
      <4>3. PICK q \in Nat, r \in 0..G - 1 : q = i \div G /\ r = i % G  BY <4>2
      <4>4. PICK p \in Nat : p = G * q  BY <1>3, Z3
      <4> QED  BY <1>3, <4>1, <4>2, <4>3, <4>4
    <3>2. PICK r \in 0..G - 1 : r = i % G  BY <3>1
    <3>3. CASE Strided
      <4>1. i \in Taken(f) <=> r < next /\ i <= cl[r].x  BY <1>15, <3>2, <3>3 DEF Taken
      <4>2. i \in Taken(f)' <=> r < next + 1 /\ i <= cl'[r].x
        BY <1>4, <1>15, <3>2, <3>3 DEF Taken, Strided
      <4>3. CASE r = g
        <5>1. cl'[r].x = g  BY <1>6, <1>10, <1>12, <3>3, <4>3, AtIndex DEF Strided, Persistent
        <5> QED  BY <1>3, <1>4, <1>5, <3>1, <3>2, <4>1, <4>2, <4>3, <5>1
      <4>4. CASE r # g
        <5>1. cl'[r] = cl[r]  BY <1>3, <1>15, <4>4
        <5>2. i # g  BY <2>0, <3>2, <4>4
        <5>3. r < next + 1 <=> r < next  BY <1>3, <1>4, <1>5, <4>4
        <5> QED  BY <4>1, <4>2, <5>1, <5>2, <5>3
      <4> QED  BY <4>3, <4>4
    <3>4. CASE ~Strided
      <4>1. i \in Taken(f) <=> i < next \/ (Dynamic /\ G <= i /\ i < G + f)  BY <3>4 DEF Taken
      <4>2. i \in Taken(f)' <=> i < next + 1 \/ (Dynamic /\ G <= i /\ i < G + f)
        BY <1>4, <1>15, <3>4 DEF Taken, Strided, Dynamic
      <4> QED  BY <1>4, <1>5, <3>1, <4>1, <4>2
    <3> QED  BY <3>3, <3>4
  <2>3. \A i : i \in Taken(f)' => i \in 0..W - 1  BY <1>15 DEF Taken
  <2> QED  BY <1>6, <1>18, <2>1, <2>2, <2>3
<1>20. Accounts(D \cup {g})'
  <2>1. cl[g].tile = NoTile
    <3>1. Stage(g)  BY <1>1, <1>6 DEF Stages
    <3>2. ~(g < next)  BY <1>4, <1>5
    <3> QED  BY <3>1, <3>2 DEF Stage
  <2>2. HandsIn(g)  BY <1>4, <2>1 DEF HandsIn
  <2>3. OthersKeep(g)  BY <1>4, <1>15 DEF OthersKeep
  <2>4. g \in (0..W - 1) \ D /\ cl'[g].tile = TileAt(g)  BY <1>6, <1>10, <1>12, <1>19
  <2> QED  BY <1>6, <1>18, <2>2, <2>3, <2>4, DenseIndexed, TileBegins
<1>21. Ledger(f)'
  <2>1. (D \cup {g}) \in SUBSET (0..W' - 1)  BY <1>6, <1>15
  <2> QED  BY <1>2, <1>4, <1>17, <1>19, <1>20, <2>1 DEF Ledger, Dynamic
<1> QED  BY <1>2, <1>4, <1>15, <1>21 DEF DenseInv, Dense

(* Without a next index, in the modes that draw none, the cluster stops.     *)
LEMMA StopDense ==
  ASSUME Shapes, DenseInv, Dense, NEW g \in Clusters, HasTile(g),
         prob.mode \in {"NONE", "CLC"}, UNCHANGED <<prob, semaphore, next>>,
         NextNone(g) \/ MoveOn(g, cl[g], cl[g].x, 0, FALSE)
  PROVE  DenseInv'
<1>1. Clustered /\ Stages  BY DEF DenseInv, Dense
<1>2. PICK f \in 0..W : Ledger(f)  BY DEF DenseInv, Dense
<1>3. /\ Stage(g) /\ DOMAIN cl[g] = ClusterFields /\ cl[g].st = "run" /\ cl[g].tile # NoTile
      /\ cl[g].executed \in Nat
  BY <1>1 DEF Stages, Stage, Clustered, HasTile
<1>4. PICK c : c = [cl[g] EXCEPT !.executed = @ + 1]  OBVIOUS
<1>5. DOMAIN c = ClusterFields /\ c.st = "run" /\ c.executed = cl[g].executed + 1 /\ c.x = cl[g].x
  BY <1>3, <1>4 DEF ClusterFields
<1>6. PICK ok \in BOOLEAN : /\ MoveOn(g, cl[g], cl[g].x, 0, ok)
                            /\ prob.mode = "NONE" \/ ok = FALSE
  BY DEF NextNone
<1>7. PICK d : d = Delinearize(prob, c, cl[g].x, 0, ok)  OBVIOUS
<1>8. /\ DOMAIN d = ClusterFields /\ d.st = "run" /\ d.executed \in Nat /\ d.tile = NoTile
  <2>1. PICK x : x = cl[g].x  OBVIOUS
  <2>2. d = Delinearize(prob, c, x, 0, ok)  BY <1>7, <2>1
  <2>3. /\ DOMAIN d = ClusterFields /\ d.st = c.st /\ d.executed = c.executed
        /\ d.tile = IF (prob.mode # "NONE" \/ c.executed = 0) /\ ok /\ DenseValid(prob, x)
                    THEN DenseTile(prob, x, 0) ELSE NoTile
    BY <1>5, <2>2, Decoded
  <2>4. c.executed \in Nat /\ c.executed # 0  BY <1>3, <1>5
  <2> QED  BY <1>5, <1>6, <2>3, <2>4
<1>9. /\ cl' = [cl EXCEPT ![g] = d]
      /\ done' = done (+) SetToBag({cl[g].tile})
  BY <1>4, <1>6, <1>7 DEF MoveOn
<1>10. cl'[g] = d  BY <1>1, <1>9 DEF Clustered
<1>11. Stage(g)'  BY <1>3, <1>8, <1>10 DEF Stage, Strided, W, G, NoTile
<1>12. next' \in 0..G  BY <1>1 DEF Clustered
<1>13. /\ Clustered' /\ Stages' /\ W' = W /\ G' = G /\ Clusters' = Clusters
       /\ \A h \in Clusters : h # g => cl'[h] = cl[h]
  BY <1>1, <1>8, <1>9, <1>11, <1>12, StagesKeep
<1>14. PICK D \in SUBSET (0..W - 1) : D = Taken(f) /\ Accounts(D)  BY <1>2 DEF Ledger
<1>15. Taken(f)' = Taken(f)  BY <1>13 DEF Taken, Strided, Dynamic
<1>16. Accounts(D)'
  <2>1. OthersKeep(g) /\ HandsIn(g)  BY <1>3, <1>9, <1>13 DEF OthersKeep, HandsIn
  <2> QED  BY <1>8, <1>10, <1>14, <2>1, DenseIndexed, TileEnds
<1>17. Ledger(f)'  BY <1>2, <1>13, <1>14, <1>15, <1>16 DEF Ledger, Dynamic
<1> QED  BY <1>13, <1>17 DEF DenseInv, Dense

(* A cluster goes on to an index it was granted or drew: it is a new one.    *)
LEMMA GoOnDense ==
  ASSUME Shapes, Dense, NEW f \in 0..W, Ledger(f), NEW e \in 0..W, NEW g \in Clusters,
         cl[g].tile # NoTile, prob' = prob, W' = W, Clusters' = Clusters,
         \A h \in Clusters : h # g => cl'[h] = cl[h],
         done' = done (+) SetToBag({cl[g].tile}),
         \/ cl'[g].tile = NoTile /\ Taken(e)' = Taken(f)
         \/ \E i \in (0..W - 1) \ Taken(f) :
              cl'[g].tile = TileAt(i) /\ Taken(e)' = Taken(f) \cup {i},
         IF Dynamic THEN Draws(e)' ELSE semaphore' = 0
  PROVE  Ledger(e)'
<1>1. PICK D \in SUBSET (0..W - 1) : D = Taken(f) /\ Accounts(D)  BY DEF Ledger
<1>2. OthersKeep(g) /\ HandsIn(g)  BY DEF OthersKeep, HandsIn
<1>3. CASE cl'[g].tile = NoTile /\ Taken(e)' = Taken(f)
  <2>1. Accounts(D)'  BY <1>1, <1>2, <1>3, DenseIndexed, TileEnds
  <2> QED  BY <1>1, <1>3, <2>1 DEF Ledger, Dynamic
<1>4. CASE \E i \in (0..W - 1) \ Taken(f) : cl'[g].tile = TileAt(i) /\ Taken(e)' = Taken(f) \cup {i}
  <2>1. PICK i \in (0..W - 1) \ D : cl'[g].tile = TileAt(i) /\ Taken(e)' = D \cup {i}  BY <1>1, <1>4
  <2>2. Accounts(D \cup {i})'  BY <1>1, <1>2, <2>1, DenseIndexed, TileBegins
  <2>3. (D \cup {i}) \in SUBSET (0..W' - 1)  OBVIOUS
  <2> QED  BY <2>1, <2>2, <2>3 DEF Ledger, Dynamic
<1> QED  BY <1>3, <1>4

(* A grant of the pending cluster of lowest index.                           *)
LEMMA GrantDense ==
  ASSUME Shapes, DenseInv, Dense, NEW g \in Clusters, HasTile(g), prob.mode = "CLC",
         next \in Clusters, next' = next + 1, UNCHANGED <<prob, semaphore>>,
         done' = done (+) SetToBag({cl[g].tile}),
         LET x == GridX(prob, next)
             c == Delinearize(prob, [cl[g] EXCEPT !.x = x, !.executed = @ + 1], x,
                                       GridZ(prob, next), TRUE)
         IN cl' = [cl EXCEPT ![g] = [c EXCEPT !.phantom = c.tile = NoTile]]
  PROVE  DenseInv'
<1>1. Clustered /\ Stages  BY DEF DenseInv, Dense
<1>2. PICK f \in 0..W : Ledger(f)  BY DEF DenseInv, Dense
<1>3. /\ Stage(g) /\ DOMAIN cl[g] = ClusterFields /\ cl[g].st = "run" /\ cl[g].tile # NoTile
      /\ cl[g].executed \in Nat
  BY <1>1 DEF Stages, Stage, Clustered, HasTile
<1>4. W \in Nat \ {0} /\ G \in Nat \ {0} /\ G <= W /\ Clusters = 0..G - 1  BY GridIs
<1>5. PICK i \in 0..W - 1 : i = next  BY <1>4
<1>6. PICK x, z : x = GridX(prob, i) /\ z = GridZ(prob, i)  OBVIOUS
<1>7. PICK c : c = [cl[g] EXCEPT !.x = x, !.executed = @ + 1]  OBVIOUS
<1>8. DOMAIN c = ClusterFields /\ c.st = "run" /\ c.executed = cl[g].executed + 1
  BY <1>3, <1>7 DEF ClusterFields
<1>9. PICK ok \in BOOLEAN : ok = TRUE  OBVIOUS
<1>10. PICK b : b = Delinearize(prob, c, x, z, ok)  OBVIOUS
<1>11. DOMAIN b = ClusterFields /\ b.st = "run" /\ b.executed \in Nat /\ b.tile = TileAt(i)
  <2>1. /\ DOMAIN b = ClusterFields /\ b.st = c.st /\ b.executed = c.executed
        /\ b.tile = IF (prob.mode # "NONE" \/ c.executed = 0) /\ ok /\ DenseValid(prob, x)
                    THEN DenseTile(prob, x, z) ELSE NoTile
    BY <1>8, <1>10, Decoded
  <2>2. DenseValid(prob, x) /\ DenseTile(prob, x, z) = TileAt(i)  BY <1>6, AtIndex
  <2> QED  BY <1>3, <1>8, <1>9, <2>1, <2>2
<1>12. PICK d : d = [b EXCEPT !.phantom = b.tile = NoTile]  OBVIOUS
<1>13. DOMAIN d = ClusterFields /\ d.st = "run" /\ d.executed \in Nat /\ d.tile = TileAt(i)
  BY <1>11, <1>12 DEF ClusterFields
<1>14. cl' = [cl EXCEPT ![g] = d]  BY <1>5, <1>6, <1>7, <1>9, <1>10, <1>12
<1>15. cl'[g] = d  BY <1>1, <1>14 DEF Clustered
<1>16. next \in Int /\ g < next /\ g < next'
  BY <1>3, <1>4 DEF Stage
<1>17. Stage(g)'  BY <1>3, <1>13, <1>15, <1>16 DEF Stage, Strided, W, G, NoTile
<1>18. next' \in 0..G  BY <1>4
<1>19. /\ Clustered' /\ Stages' /\ W' = W /\ G' = G /\ Clusters' = Clusters
       /\ \A h \in Clusters : h # g => cl'[h] = cl[h]
  BY <1>1, <1>13, <1>14, <1>17, <1>18, StagesKeep
<1>20. i \notin Taken(f) /\ Taken(f)' = Taken(f) \cup {i}
  <2>1. Taken(f) = {j \in 0..W - 1 : j < next}  BY DEF Taken, Strided, Dynamic
  <2>2. Taken(f)' = {j \in 0..W - 1 : j < next + 1}  BY <1>19 DEF Taken, Strided, Dynamic
  <2> QED  BY <1>4, <1>5, <2>1, <2>2
<1>21. Ledger(f)'
  <2>1. ~Dynamic /\ semaphore' = 0  BY <1>2 DEF Dynamic, Ledger
  <2>2. cl'[g].tile = TileAt(i) /\ i \in (0..W - 1) \ Taken(f)  BY <1>13, <1>15, <1>20
  <2> QED  BY <1>2, <1>3, <1>19, <1>20, <2>1, <2>2, GoOnDense
<1> QED  BY <1>2, <1>19, <1>21 DEF DenseInv, Dense

(* A static cluster strides over the grid.                                   *)
LEMMA StrideDense ==
  ASSUME Shapes, DenseInv, Dense, NEW g \in Clusters, NextStatic(g)
  PROVE  DenseInv'
<1>1. Clustered /\ Stages  BY DEF DenseInv, Dense
<1>2. PICK f \in 0..W : Ledger(f)  BY DEF DenseInv, Dense
<1>3. /\ Stage(g) /\ DOMAIN cl[g] = ClusterFields /\ cl[g].st = "run" /\ cl[g].tile # NoTile
      /\ cl[g].executed \in Nat /\ Strided
  BY <1>1 DEF Stages, Stage, Clustered, NextStatic, HasTile, Strided
<1>4. W \in Nat \ {0} /\ G \in Nat \ {0} /\ G <= W /\ Clusters = 0..G - 1  BY GridIs
<1>5. g < next /\ next' = next /\ prob' = prob /\ semaphore' = semaphore
  BY <1>3 DEF Stage, NextStatic
<1>6. PICK x \in Nat : x = cl[g].x /\ x % G = g  BY <1>3, <1>5 DEF Stage
<1>7. PICK y \in Nat : y = x + G  BY <1>4
<1>8. y % G = g /\ \A i \in Nat : i % G = g /\ x < i /\ i <= y => i = y
  BY <1>4, <1>6, <1>7, Strides
<1>9. PICK c : c = [[cl[g] EXCEPT !.x = y] EXCEPT !.executed = @ + 1]  OBVIOUS
<1>10. DOMAIN c = ClusterFields /\ c.st = "run" /\ c.executed = cl[g].executed + 1 /\ c.x = y
  BY <1>3, <1>9 DEF ClusterFields
<1>11. PICK ok \in BOOLEAN : ok = TRUE  OBVIOUS
<1>12. PICK d : d = Delinearize(prob, c, y, 0, ok)  OBVIOUS
<1>13. /\ DOMAIN d = ClusterFields /\ d.st = "run" /\ d.executed \in Nat /\ d.x = y
       /\ d.tile = IF y < W THEN TileAt(y) ELSE NoTile
  <2>1. /\ DOMAIN d = ClusterFields /\ d.st = c.st /\ d.executed = c.executed /\ d.x = c.x
        /\ d.tile = IF (prob.mode # "NONE" \/ c.executed = 0) /\ ok /\ DenseValid(prob, y)
                    THEN DenseTile(prob, y, 0) ELSE NoTile
    BY <1>10, <1>12, Decoded
  <2>2. prob.mode = "STATIC" /\ Persistent(prob)  BY <1>3 DEF Strided, Persistent
  <2>3. DenseValid(prob, y) <=> y < W  BY <2>2 DEF DenseValid, W
  <2>4. y < W => DenseTile(prob, y, 0) = TileAt(y)
    BY <2>2 DEF TileAt, Dense, GridX, GridZ
  <2> QED  BY <1>3, <1>10, <1>11, <2>1, <2>2, <2>3, <2>4
<1>14. /\ cl' = [cl EXCEPT ![g] = d]
       /\ done' = done (+) SetToBag({cl[g].tile})
  BY <1>6, <1>7, <1>9, <1>11, <1>12 DEF NextStatic, MoveOn, G
<1>15. cl'[g] = d  BY <1>1, <1>14 DEF Clustered
<1>16. W' = W /\ G' = G  BY <1>5 DEF W, G
<1>17. Stage(g)'
  <2>1. d.tile = NoTile => y >= W
    <3>1. y < W => y \in 0..W - 1  BY <1>4
    <3>2. y < W => TileAt(y) # NoTile  BY <3>1, TilesAre
    <3> QED  BY <1>4, <1>13, <3>2
  <2>2. /\ d.st = "run" /\ d.executed \in Nat /\ d.x \in Nat /\ d.x % G = g
        /\ d.tile = NoTile => d.x >= W
    BY <1>8, <1>13, <2>1
  <2>3. NoTile' = NoTile  BY DEF NoTile
  <2> QED  BY <1>5, <1>15, <1>16, <2>2, <2>3 DEF Stage, Strided
<1>18. next' \in 0..G  BY <1>1, <1>5 DEF Clustered
<1>19. /\ Clustered' /\ Stages' /\ Clusters' = Clusters
       /\ \A h \in Clusters : h # g => cl'[h] = cl[h]
  BY <1>1, <1>5, <1>13, <1>14, <1>17, <1>18, StagesKeep
<1>20. ASSUME NEW i \in 0..W - 1 PROVE i \in Taken(f)' <=> i \in Taken(f) \/ i = y
  <2>1. i \in Nat  BY <1>4
  <2>2. PICK r \in 0..G - 1 : r = i % G
    <3>1. i % G \in 0..G - 1  BY <1>4, <2>1, DivMod
    <3> QED  BY <3>1
  <2>3. i \in Taken(f) <=> r < next /\ i <= cl[r].x  BY <1>3, <2>2 DEF Taken
  <2>4. i \in Taken(f)' <=> r < next /\ i <= cl'[r].x
    BY <1>3, <1>5, <1>16, <2>2 DEF Taken, Strided
  <2>5. CASE r = g
    <3>1. cl[r].x = x /\ cl'[r].x = y  BY <1>6, <1>13, <1>15, <2>5
    <3>2. i <= y <=> i <= x \/ i = y
      <4>1. x < i /\ i <= y => i = y  BY <1>8, <2>1, <2>2, <2>5
      <4> QED  BY <1>4, <1>7, <2>1, <4>1
    <3>3. g < next  BY <1>5
    <3> QED  BY <2>3, <2>4, <2>5, <3>1, <3>2, <3>3
  <2>6. CASE r # g
    <3>1. cl'[r] = cl[r]  BY <1>4, <1>19, <2>6
    <3>2. i # y  BY <1>8, <2>2, <2>6
    <3> QED  BY <2>3, <2>4, <3>1, <3>2
  <2> QED  BY <2>5, <2>6
<1>21. Taken(f) \subseteq 0..W - 1 /\ Taken(f)' \subseteq 0..W - 1  BY <1>16 DEF Taken
<1>22. \/ cl'[g].tile = NoTile /\ Taken(f)' = Taken(f)
       \/ \E i \in (0..W - 1) \ Taken(f) : cl'[g].tile = TileAt(i) /\ Taken(f)' = Taken(f) \cup {i}
  <2>1. CASE y < W
    <3>1. y \in 0..W - 1  BY <1>4, <2>1
    <3>2. y \notin Taken(f)
      <4>1. y <= x <=> FALSE  BY <1>4, <1>7
      <4> QED  BY <1>3, <1>6, <1>8, <4>1 DEF Taken
    <3>3. Taken(f)' = Taken(f) \cup {y}  BY <1>20, <1>21, <3>1
    <3>4. cl'[g].tile = TileAt(y)  BY <1>13, <1>15, <2>1
    <3> QED  BY <3>1, <3>2, <3>3, <3>4
  <2>2. CASE ~(y < W)
    <3>1. y \notin 0..W - 1  BY <1>4, <2>2
    <3>2. Taken(f)' = Taken(f)  BY <1>20, <1>21, <3>1
    <3>3. cl'[g].tile = NoTile  BY <1>13, <1>15, <2>2
    <3> QED  BY <3>2, <3>3
  <2> QED  BY <2>1, <2>2
<1>23. ~Dynamic /\ semaphore' = 0  BY <1>2, <1>3, <1>5 DEF Ledger, Dynamic, Strided
<1>24. Ledger(f)'  BY <1>2, <1>3, <1>5, <1>14, <1>16, <1>19, <1>22, <1>23, GoOnDense
<1> QED  BY <1>2, <1>5, <1>16, <1>19, <1>24 DEF DenseInv, Dense

(* A dynamic cluster draws: the next index, or one past the work, and only   *)
(* the last of these brings the counter back to zero.                        *)
LEMMA DrawDense ==
  ASSUME Shapes, DenseInv, Dense, NEW g \in Clusters, NextDynamic(g)
  PROVE  DenseInv'
<1>1. Clustered /\ Stages  BY DEF DenseInv, Dense
<1>2. PICK f \in 0..W : Ledger(f)  BY DEF DenseInv, Dense
<1>3. /\ Stage(g) /\ DOMAIN cl[g] = ClusterFields /\ cl[g].st = "run" /\ cl[g].tile # NoTile
      /\ cl[g].executed \in Nat /\ Dynamic /\ ~Strided
  BY <1>1 DEF Stages, Stage, Clustered, NextDynamic, HasTile, Strided, Dynamic
<1>4. W \in Nat \ {0} /\ G \in Nat \ {0} /\ G <= W /\ Clusters = 0..G - 1  BY GridIs
<1>5. /\ g < next /\ next' = next /\ prob' = prob /\ semaphore' = Inc(prob, semaphore)
      /\ next \in 0..G
  BY <1>1, <1>3 DEF Stage, NextDynamic, Clustered
<1>6. Draws(f)  BY <1>2, <1>3 DEF Ledger
<1>7. g \notin Empty /\ IsFiniteSet(Empty) /\ Cardinality(Empty) <= G - 1
  <2>1. Empty \subseteq Clusters \ {g}  BY <1>3 DEF Empty
  <2>2. IsFiniteSet(Clusters) /\ Cardinality(Clusters) = G
    BY <1>4, FS_Interval
  <2>3. /\ IsFiniteSet(Clusters \ {g})
        /\ Cardinality(Clusters \ {g}) = G - 1
    BY <2>2, FS_RemoveElement
  <2> QED  BY <2>1, <2>3, FS_Subset
<1>8. f < W /\ semaphore = f
  <2>1. f # W  BY <1>4, <1>6, <1>7 DEF Draws
  <2> QED  BY <1>4, <1>6, <2>1 DEF Draws
<1>9. semaphore' = IF f + 1 = W THEN 0 ELSE f + 1
  <2>1. semaphore' = IF f < W - 1 THEN f + 1 ELSE 0
    BY <1>5, <1>8 DEF Dense, Inc, W
  <2> QED  BY <1>4, <1>8, <2>1
<1>10. PICK x \in Nat : x = semaphore + G  BY <1>4, <1>8
<1>11. PICK c : c = [[cl[g] EXCEPT !.x = x] EXCEPT !.executed = @ + 1]  OBVIOUS
<1>12. DOMAIN c = ClusterFields /\ c.st = "run" /\ c.executed = cl[g].executed + 1
  BY <1>3, <1>11 DEF ClusterFields
<1>13. PICK ok \in BOOLEAN : ok = TRUE  OBVIOUS
<1>14. PICK d : d = Delinearize(prob, c, x, 0, ok)  OBVIOUS
<1>15. /\ DOMAIN d = ClusterFields /\ d.st = "run" /\ d.executed \in Nat
       /\ d.tile = IF x < W THEN TileAt(x) ELSE NoTile
  <2>1. /\ DOMAIN d = ClusterFields /\ d.st = c.st /\ d.executed = c.executed
        /\ d.tile = IF (prob.mode # "NONE" \/ c.executed = 0) /\ ok /\ DenseValid(prob, x)
                    THEN DenseTile(prob, x, 0) ELSE NoTile
    BY <1>12, <1>14, Decoded
  <2>2. prob.mode = "DYNAMIC" /\ Persistent(prob)  BY <1>3 DEF Dynamic, Persistent
  <2>3. DenseValid(prob, x) <=> x < W  BY <2>2 DEF DenseValid, W
  <2>4. x < W => DenseTile(prob, x, 0) = TileAt(x)
    BY <2>2 DEF TileAt, Dense, GridX, GridZ
  <2> QED  BY <1>3, <1>12, <1>13, <2>1, <2>2, <2>3, <2>4
<1>16. /\ cl' = [cl EXCEPT ![g] = d]
       /\ done' = done (+) SetToBag({cl[g].tile})
  BY <1>10, <1>11, <1>13, <1>14 DEF NextDynamic, MoveOn, G
<1>17. cl'[g] = d  BY <1>1, <1>16 DEF Clustered
<1>18. Stage(g)'  BY <1>3, <1>5, <1>15, <1>17 DEF Stage, Strided, W, G, NoTile
<1>19. next' \in 0..G  BY <1>5
<1>20. /\ Clustered' /\ Stages' /\ W' = W /\ G' = G /\ Clusters' = Clusters
       /\ \A h \in Clusters : h # g => cl'[h] = cl[h]
  BY <1>1, <1>5, <1>15, <1>16, <1>18, <1>19, StagesKeep
<1>21. f + 1 \in 0..W  BY <1>4, <1>8
<1>22. d.tile = NoTile <=> x >= W
  <2>1. x < W => x \in 0..W - 1  BY <1>4
  <2>2. x < W => TileAt(x) # NoTile  BY <2>1, TilesAre
  <2> QED  BY <1>4, <1>15, <2>2
<1>23. Draws(f + 1)'
  <2>1. Cardinality(Empty) = IF f <= W - G THEN 0 ELSE f - (W - G)  BY <1>6 DEF Draws
  <2>2. CASE x < W
    <3>0. cl'[g].tile # NoTile  BY <1>4, <1>17, <1>22, <2>2
    <3>1. Empty' = Empty  BY <1>5, <1>7, <1>20, <3>0 DEF Empty, NoTile
    <3>2. f + 1 <= W - G  BY <1>4, <1>8, <1>10, <2>2
    <3>3. Cardinality(Empty') = 0  BY <1>4, <2>1, <3>1, <3>2
    <3> QED  BY <1>9, <1>20, <3>2, <3>3 DEF Draws
  <2>3. CASE x >= W
    <3>1. Empty' = Empty \cup {g}
      BY <1>5, <1>7, <1>17, <1>20, <1>22, <2>3 DEF Empty, NoTile
    <3>2. Cardinality(Empty') = Cardinality(Empty) + 1  BY <1>7, <3>1, FS_AddElement
    <3>3. f >= W - G  BY <1>4, <1>8, <1>10, <2>3
    <3>4. Cardinality(Empty') = f + 1 - (W - G) /\ ~(f + 1 <= W - G)  BY <1>4, <2>1, <3>2, <3>3
    <3>5. /\ Cardinality(Empty') = f + 1 - (W' - G') /\ ~(f + 1 <= W' - G')
          /\ W' \in Nat /\ G' \in Nat /\ f + 1 \in Nat
      BY <1>4, <1>20, <3>4
    <3>6. IF f + 1 = W' THEN semaphore' = 0 ELSE semaphore' = f + 1  BY <1>9, <1>20
    <3> QED  BY <3>5, <3>6 DEF Draws
  <2> QED  BY <1>4, <1>10, <2>2, <2>3
<1>24. Taken(f) = {i \in 0..W - 1 : i < next \/ (G <= i /\ i < G + f)}  BY <1>3 DEF Taken
<1>25. Taken(f + 1)' = {i \in 0..W - 1 : i < next \/ (G <= i /\ i < G + (f + 1))}
  BY <1>3, <1>5, <1>20 DEF Taken, Strided, Dynamic
<1>26. \/ cl'[g].tile = NoTile /\ Taken(f + 1)' = Taken(f)
       \/ \E i \in (0..W - 1) \ Taken(f) : cl'[g].tile = TileAt(i) /\ Taken(f + 1)' = Taken(f) \cup {i}
  <2>0. x = f + G  BY <1>8, <1>10
  <2>1. CASE x < W
    <3>1. x \in (0..W - 1) \ Taken(f)  BY <1>4, <1>5, <1>24, <2>0, <2>1
    <3>2. Taken(f + 1)' = Taken(f) \cup {x}  BY <1>4, <1>5, <1>24, <1>25, <2>0, <2>1
    <3>3. cl'[g].tile = TileAt(x)  BY <1>15, <1>17, <2>1
    <3> QED  BY <3>1, <3>2, <3>3
  <2>2. CASE ~(x < W)
    <3>1. Taken(f + 1)' = Taken(f)  BY <1>4, <1>5, <1>24, <1>25, <2>0, <2>2
    <3>2. cl'[g].tile = NoTile  BY <1>15, <1>17, <2>2
    <3> QED  BY <3>1, <3>2
  <2> QED  BY <2>1, <2>2
<1>27. PICK e \in 0..W : e = f + 1  BY <1>21
<1>28. Ledger(e)'
  <2>1. /\ \/ cl'[g].tile = NoTile /\ Taken(e)' = Taken(f)
           \/ \E i \in (0..W - 1) \ Taken(f) : cl'[g].tile = TileAt(i) /\ Taken(e)' = Taken(f) \cup {i}
        /\ Draws(e)'
    BY <1>23, <1>26, <1>27
  <2> QED  BY <1>2, <1>3, <1>5, <1>16, <1>20, <2>1, GoOnDense
<1> QED  BY <1>5, <1>20, <1>27, <1>28 DEF DenseInv, Dense

(* Every step keeps the invariant.                                          *)
LEMMA NextDense ==
  ASSUME Shapes, DenseInv, [ScheduleNext]_(scheduleVars)
  PROVE  DenseInv'
<1>1. prob' = prob
  BY DEF ScheduleNext, LaunchCluster, NextNone, NextStatic,
         NextDynamic, NextClc, Retire, CancelOne,
         ExitCluster, ScheduleDone, scheduleVars
<1>2. CASE prob.varlen  BY <1>1, <1>2 DEF DenseInv
<1>3. CASE Dense
  <2>1. CASE UNCHANGED scheduleVars
    <3>1. UNCHANGED <<prob, semaphore, next, cl, done>>  BY <2>1 DEF scheduleVars
    <3>2. W' = W /\ G' = G /\ Clusters' = Clusters
      BY <3>1 DEF W, G, Clusters
    <3>3. Clustered' /\ Stages'
      BY <1>3, <3>1, <3>2 DEF DenseInv, Dense, Clustered, Stages, Stage, Strided, NoTile
    <3>4. PICK f \in 0..W : Ledger(f)  BY <1>3 DEF DenseInv, Dense
    <3>5. ASSUME NEW g \in Clusters PROVE Ledger(f)'
      <4>1. Clustered /\ Stages  BY <1>3 DEF DenseInv, Dense
      <4> QED  BY <1>3, <3>1, <3>2, <3>4, <4>1, LedgerKeeps
    <3>6. 0 \in Clusters  BY <1>3, GridIs
    <3> QED  BY <1>1, <1>3, <3>2, <3>3, <3>5, <3>6 DEF DenseInv, Dense
  <2>2. CASE LaunchCluster  BY <1>3, <2>2, LaunchDense
  <2>3. ASSUME NEW g \in Clusters, NextNone(g) PROVE DenseInv'
    BY <1>3, <2>3, StopDense DEF NextNone
  <2>4. ASSUME NEW g \in Clusters, NextStatic(g) PROVE DenseInv'
    BY <1>3, <2>4, StrideDense
  <2>5. ASSUME NEW g \in Clusters, NextDynamic(g) PROVE DenseInv'
    BY <1>3, <2>5, DrawDense
  <2>6. ASSUME NEW g \in Clusters, NextClc(g) PROVE DenseInv'
    <3>1. HasTile(g) /\ prob.mode = "CLC" /\ UNCHANGED <<prob, semaphore>>
      BY <2>6 DEF NextClc
    <3>2. CASE MoveOn(g, cl[g], cl[g].x, 0, FALSE) /\ UNCHANGED next
      BY <1>3, <3>1, <3>2, StopDense
    <3>3. CASE ~(MoveOn(g, cl[g], cl[g].x, 0, FALSE) /\ UNCHANGED next)
      <4>1. /\ next \in Clusters /\ next' = next + 1
            /\ done' = done (+) SetToBag({cl[g].tile})
            /\ LET x == GridX(prob, next)
                   c == Delinearize(prob, [cl[g] EXCEPT !.x = x, !.executed = @ + 1], x,
                                             GridZ(prob, next), TRUE)
               IN cl' = [cl EXCEPT ![g] = [c EXCEPT !.phantom = c.tile = NoTile]]
        BY <2>6, <3>3 DEF NextClc
      <4> QED  BY <1>3, <3>1, <4>1, GrantDense
    <3> QED  BY <3>2, <3>3
  <2>7. ASSUME NEW g \in Clusters,
               Retire(g) \/ CancelOne(g) \/ ExitCluster(g)
        PROVE  DenseInv'
    BY <1>3, <2>7, LeaveDense
  <2> QED  BY <2>1, <2>2, <2>3, <2>4, <2>5, <2>6, <2>7 DEF ScheduleNext, ScheduleDone
<1> QED  BY <1>2, <1>3 DEF DenseInv, Dense

(* The invariant of dense launches holds.                                   *)
LEMMA DenseInvariance == ASSUME Shapes PROVE ScheduleSpec => []DenseInv
<1>1. ScheduleInit => DenseInv  BY InitDense
<1>2. DenseInv /\ [ScheduleNext]_(scheduleVars) => DenseInv'  BY NextDense
<1> QED  BY <1>1, <1>2, PTL DEF ScheduleSpec

(* When the launch has ended every cluster has run out of work, so that      *)
(* every index has been taken; a dynamic launch has made all its draws.      *)
LEMMA AllTaken ==
  ASSUME Shapes, Dense, DenseInv, Finished
  PROVE  \E f \in 0..W : /\ Ledger(f) /\ Taken(f) = 0..W - 1 /\ (Dynamic => f = W)
                         /\ \A g \in Clusters : cl[g].tile = NoTile
<1>1. Clustered /\ Stages  BY DEF DenseInv, Dense
<1>2. PICK f \in 0..W : Ledger(f)  BY DEF DenseInv, Dense
<1>3. /\ W \in Nat \ {0} /\ G \in Nat \ {0} /\ G <= W /\ Clusters = 0..G - 1
      /\ ~Persistent(prob) => G = W
  BY GridIs
<1>4. next = G /\ \A g \in Clusters : cl[g].st \notin {"run", "drain"}
  BY DEF Finished, Resident, G
<1>5. \A g \in Clusters : g < next /\ cl[g].tile = NoTile
  BY <1>1, <1>3, <1>4 DEF Stages, Stage
<1>6. Dynamic => f = W
  <2>1. Empty = Clusters  BY <1>5 DEF Empty
  <2>2. Cardinality(Empty) = G  BY <1>3, <2>1, FS_Interval
  <2> QED  BY <1>2, <1>3, <2>2 DEF Ledger, Draws
<1>7. ASSUME NEW i \in 0..W - 1 PROVE i \in Taken(f)
  <2>1. i \in Nat  BY <1>3
  <2>2. CASE Strided
    <3>1. PICK r \in 0..G - 1 : r = i % G
      <4>1. i % G \in 0..G - 1  BY <1>3, <2>1, DivMod
      <4> QED  BY <4>1
    <3>2. r < next /\ cl[r].x \in Nat /\ cl[r].x >= W
      BY <1>1, <1>3, <1>5, <2>2 DEF Stages, Stage
    <3> QED  BY <1>3, <2>2, <3>1, <3>2 DEF Taken
  <2>3. CASE Dynamic
    <3>1. i < next \/ (G <= i /\ i < G + f)  BY <1>3, <1>4, <1>6, <2>1, <2>3
    <3> QED  BY <2>3, <3>1 DEF Taken, Strided, Dynamic
  <2>4. CASE ~Strided /\ ~Dynamic
    <3>1. ~Persistent(prob)  BY <2>4 DEF Persistent, Strided, Dynamic
    <3>2. i < next  BY <1>3, <1>4, <3>1
    <3> QED  BY <2>4, <3>2 DEF Taken
  <2> QED  BY <2>2, <2>3, <2>4
<1>8. Taken(f) = 0..W - 1  BY <1>7 DEF Taken
<1> QED  BY <1>2, <1>5, <1>6, <1>8

(* It makes the tiles done those of the output.                             *)
LEMMA DenseOnce == ASSUME Shapes, Dense, DenseInv PROVE EveryTileOnce
<1>1. BagToSet(done) = DOMAIN done  BY DEF BagToSet
<1>2. \A t \in DOMAIN done : done[t] = 1  BY DEF DenseInv, Dense, Ledger, Accounts
<1>3. ASSUME Finished PROVE DOMAIN done = OutputTiles(prob)
  <2>1. PICK f \in 0..W : /\ Ledger(f) /\ Taken(f) = 0..W - 1
                          /\ \A g \in Clusters : cl[g].tile = NoTile
    BY <1>3, AllTaken
  <2>2. Accounts(0..W - 1)  BY <2>1 DEF Ledger
  <2>3. \A i \in 0..W - 1 : TileAt(i) \in DOMAIN done  BY <2>1, <2>2, TilesAre DEF Accounts
  <2>4. \A t \in DOMAIN done : \E i \in 0..W - 1 : t = TileAt(i)  BY <2>2 DEF Accounts
  <2>5. DOMAIN done \subseteq OutputTiles(prob)  BY <2>4, TilesAre
  <2>6. OutputTiles(prob) \subseteq DOMAIN done  BY <2>3, TilesAre
  <2> QED  BY <2>5, <2>6
<1> QED  BY <1>1, <1>2, <1>3 DEF EveryTileOnce

(* A dense launch leaves the counter at zero: of its draws, those within the *)
(* work and one past it for each cluster are as many as it counts to. The    *)
(* next launch uses the counter without clearing it, and its work ids, which *)
(* the turnstile needs, start from zero again.  (atomic INC and its bound,   *)
(* tile_scheduler.py.)                                                       *)
THEOREM CounterComesBack == ScheduleSpec => []SemaphoreResets
<1>1. Shapes  BY ProblemsAssumption, ActiveAssumption DEF Shapes
<1>2. DenseInv => SemaphoreResets
  <2> SUFFICES ASSUME DenseInv, Finished, ~prob.varlen PROVE semaphore = 0
    BY DEF SemaphoreResets
  <2>1. Dense  BY DEF Dense, DenseInv
  <2>2. PICK f \in 0..W : Ledger(f) /\ (Dynamic => f = W)  BY <1>1, <2>1, AllTaken
  <2> QED  BY <2>2 DEF Ledger, Draws
<1> QED  BY <1>1, <1>2, DenseInvariance, PTL

-----------------------------------------------------------------------------
(* The work of a varlen_m launch.                                            *)
LEMMA RealIs ==
  ASSUME Shapes, Uneven, Lanes
  PROVE  /\ Real \in Nat /\ \A b \in 0..prob.l : Starts[b] \in Nat /\ Starts[b] <= Real
         /\ \A b \in 0..prob.l - 1 : Starts[b + 1] = Starts[b] + BatchClustersM(prob, b) * prob.n
         /\ \A b, c \in 0..prob.l : b <= c => Starts[b] <= Starts[c]
<1>1. PICK l \in Nat \ {0} : l = prob.l  BY UnevenShape
<1>2. /\ Starts \in [0..Bound -> Nat]
      /\ \A b \in 0..Bound - 1 : Starts[b + 1] = Starts[b] + BatchWork(prob, b)
      /\ \A b, c \in 0..Bound : b <= c => Starts[b] <= Starts[c]
  BY StartsAre
<1>3. PICK n \in Nat : n = Bound /\ l < n  BY <1>1 DEF Bound, Lanes
<1>4. \A b \in 0..l : b \in 0..n  BY <1>3
<1>5. \A b \in 0..l : Starts[b] \in Nat /\ Starts[b] <= Starts[l]
  <2>1. l \in 0..l /\ \A b \in 0..l : b <= l  OBVIOUS
  <2> QED  BY <1>2, <1>3, <1>4, <2>1
<1>6. ASSUME NEW b \in 0..l - 1 PROVE Starts[b + 1] = Starts[b] + BatchClustersM(prob, b) * prob.n
  <2>1. b \in 0..n - 1 /\ b < l  BY <1>3
  <2> QED  BY <1>1, <1>2, <1>3, <2>1 DEF BatchWork
<1>7. Real \in Nat /\ Real = Starts[l]
  <2>1. l \in 0..l  OBVIOUS
  <2> QED  BY <1>1, <1>5, <2>1 DEF Real
<1> QED  BY <1>1, <1>2, <1>3, <1>4, <1>5, <1>6, <1>7

(* A work index is in one batch.                                             *)
LEMMA OneBatch ==
  ASSUME Shapes, Uneven, Lanes, NEW i \in Nat, NEW b, NEW c, InBatch(b, i), InBatch(c, i)
  PROVE  b = c
<1>1. PICK l \in Nat \ {0} : l = prob.l  BY UnevenShape
<1>2. ASSUME NEW d, NEW e, InBatch(d, i), InBatch(e, i) PROVE ~(d < e)
  <2>1. /\ d \in 0..l - 1 /\ e \in 0..l - 1 /\ i < Starts[d + 1] /\ Starts[e] <= i
    BY <1>1, <1>2 DEF InBatch
  <2>2. d + 1 \in 0..l /\ e \in 0..l  BY <2>1
  <2>3. Starts[d + 1] \in Nat /\ Starts[e] \in Nat  BY <1>1, <2>2, RealIs
  <2>4. d < e => Starts[d + 1] <= Starts[e]
    <3>1. d < e => d + 1 <= e  BY <2>1
    <3> QED  BY <1>1, <2>2, <3>1, RealIs
  <2> QED  BY <2>1, <2>3, <2>4
<1>3. b \in 0..l - 1 /\ c \in 0..l - 1  BY <1>1 DEF InBatch
<1>4. ~(b < c) /\ ~(c < b)  BY <1>2
<1> QED  BY <1>3, <1>4

(* Its tile is a place in that batch.                                        *)
LEMMA UnevenTile ==
  ASSUME Shapes, Uneven, Lanes, NEW i \in Nat, NEW b, InBatch(b, i)
  PROVE  \E rows \in Nat \ {0}, id \in Nat :
           /\ rows = BatchClustersM(prob, b) /\ id < rows * prob.n /\ i = Starts[b] + id
           /\ TileAt(i) = VarlenTile(prob, Holding(b), i)
           /\ TileAt(i) = [m |-> SwizzleCta(prob, id, rows).m, n |-> SwizzleCta(prob, id, rows).n,
                           split |-> 0, b |-> b]
<1>1. PICK l \in Nat \ {0}, n \in Nat \ {0} : l = prob.l /\ n = prob.n  BY UnevenShape
<1>2. b \in 0..l - 1 /\ Starts[b] <= i /\ i < Starts[b + 1]  BY <1>1 DEF InBatch
<1>3. PICK rows \in Nat : rows = BatchClustersM(prob, b)  BY <1>1, <1>2, UnevenShape
<1>4. PICK area \in Nat : area = rows * n /\ (rows = 0 => area = 0)
  <2>1. rows * n \in Nat /\ (rows = 0 => rows * n = 0)  BY Z3
  <2> QED  BY <2>1
<1>5. PICK s \in Nat : s = Starts[b] /\ Starts[b + 1] = s + area
  <2>1. b \in 0..l  BY <1>2
  <2>2. Starts[b] \in Nat  BY <1>1, <2>1, RealIs
  <2> QED  BY <1>1, <1>2, <1>3, <1>4, <2>2, RealIs
<1>6. PICK id \in Nat : id = i - s /\ id < area /\ i = s + id  BY <1>2, <1>5
<1>7. rows # 0  BY <1>4, <1>6
<1>8. BatchWith(i) = b
  <2>1. \E c : InBatch(c, i)  OBVIOUS
  <2>2. InBatch(BatchWith(i), i)  BY <2>1 DEF BatchWith
  <2> QED  BY <2>2, OneBatch
<1>9. TileAt(i) = VarlenTile(prob, Holding(b), i)  BY <1>8 DEF TileAt, Uneven
<1>10. Holding(b).before = s /\ Holding(b).rows = rows /\ Holding(b).batch = b
  BY <1>3, <1>5 DEF Holding
<1>11. VarlenTile(prob, Holding(b), i) =
         [m |-> SwizzleCta(prob, id, rows).m, n |-> SwizzleCta(prob, id, rows).n, split |-> 0, b |-> b]
  BY <1>6, <1>10 DEF VarlenTile
<1> QED  BY <1>1, <1>3, <1>4, <1>5, <1>6, <1>7, <1>9, <1>11

(* Every index of the work is in a batch.                                    *)
LEMMA SomeBatch ==
  ASSUME Shapes, Uneven, Lanes, NEW i \in 0..Real - 1
  PROVE  \E b : InBatch(b, i)
<1>1. i \in Nat /\ i < Real  BY RealIs
<1>2. Usable(NoWindow, i)  BY DEF Usable
<1> QED  BY <1>1, <1>2, BatchIsFound

(* The tiles of the output, again one to one with the indices of the work.   *)
LEMMA UnevenIndexed == ASSUME Shapes, Uneven, Lanes PROVE Indexed(Real)
<1>1. PICK l \in Nat \ {0}, n \in Nat \ {0} : l = prob.l /\ n = prob.n /\ prob.split = 1  BY UnevenShape
<1>2. prob \in Problems  BY DEF Uneven
<1>3. Real \in Nat  BY RealIs
<1>4. \A t : t \in OutputTiles(prob) <=> \E b \in 0..l - 1 :
        t \in [m : 0..BatchClustersM(prob, b) - 1, n : 0..n - 1, split : 0..0, b : {b}]
  BY <1>1 DEF OutputTiles, Uneven
<1>5. ASSUME NEW i \in 0..Real - 1
      PROVE  TileAt(i) \in OutputTiles(prob) /\ TileAt(i) # NoTile
  <2>1. i \in Nat  BY <1>3
  <2>2. PICK b : InBatch(b, i)  BY SomeBatch
  <2>3. b \in 0..l - 1  BY <1>1, <2>2 DEF InBatch
  <2>4. PICK rows \in Nat \ {0}, id \in Nat :
           /\ rows = BatchClustersM(prob, b) /\ id < rows * prob.n
           /\ TileAt(i) = [m |-> SwizzleCta(prob, id, rows).m, n |-> SwizzleCta(prob, id, rows).n,
                           split |-> 0, b |-> b]
    BY <2>1, <2>2, UnevenTile
  <2>5. PICK c \in [m : 0..rows - 1, n : 0..prob.n - 1] : c = SwizzleCta(prob, id, rows)
    BY <1>2, <2>4, SwizzleIs
  <2>6. TileAt(i) = [m |-> c.m, n |-> c.n, split |-> 0, b |-> b]  BY <2>4, <2>5
  <2>7. TileAt(i) \in [m : 0..rows - 1, n : 0..n - 1, split : 0..0, b : {b}]  BY <1>1, <2>6
  <2>8. TileAt(i).split = 0  BY <2>6
  <2> QED  BY <1>4, <2>3, <2>4, <2>7, <2>8 DEF NoTile
<1>6. ASSUME NEW i \in 0..Real - 1, NEW j \in 0..Real - 1, TileAt(i) = TileAt(j)
      PROVE  i = j
  <2>1. i \in Nat /\ j \in Nat  BY <1>3
  <2>2. PICK b, d : InBatch(b, i) /\ InBatch(d, j)  BY SomeBatch
  <2>3. PICK rows \in Nat \ {0}, id \in Nat :
           /\ rows = BatchClustersM(prob, b) /\ id < rows * prob.n /\ i = Starts[b] + id
           /\ TileAt(i) = [m |-> SwizzleCta(prob, id, rows).m, n |-> SwizzleCta(prob, id, rows).n,
                           split |-> 0, b |-> b]
    BY <2>1, <2>2, UnevenTile
  <2>4. PICK other \in Nat \ {0}, it \in Nat :
           /\ other = BatchClustersM(prob, d) /\ it < other * prob.n /\ j = Starts[d] + it
           /\ TileAt(j) = [m |-> SwizzleCta(prob, it, other).m, n |-> SwizzleCta(prob, it, other).n,
                           split |-> 0, b |-> d]
    BY <2>1, <2>2, UnevenTile
  <2>5. b = d
    <3>1. TileAt(i).b = b  BY <2>3
    <3>2. TileAt(j).b = d  BY <2>4
    <3> QED  BY <1>6, <3>1, <3>2
  <2>6. rows = other  BY <2>3, <2>4, <2>5
  <2>7. PICK c \in [m : 0..rows - 1, n : 0..prob.n - 1], e \in [m : 0..rows - 1, n : 0..prob.n - 1] :
          c = SwizzleCta(prob, id, rows) /\ e = SwizzleCta(prob, it, rows)
    BY <1>2, <2>3, <2>4, <2>6, SwizzleIs
  <2>8. c.m = e.m /\ c.n = e.n
    <3>1. TileAt(i).m = c.m /\ TileAt(i).n = c.n  BY <2>3, <2>7
    <3>2. TileAt(j).m = e.m /\ TileAt(j).n = e.n  BY <2>4, <2>6, <2>7
    <3> QED  BY <1>6, <3>1, <3>2
  <2>9. c = e  BY <2>8
  <2>10. id = it  BY <1>2, <2>3, <2>4, <2>6, <2>7, <2>9, SwizzleIs
  <2> QED  BY <2>3, <2>4, <2>5, <2>10
<1>7. ASSUME NEW t \in OutputTiles(prob) PROVE \E i \in 0..Real - 1 : TileAt(i) = t
  <2>1. PICK b \in 0..l - 1 :
          t \in [m : 0..BatchClustersM(prob, b) - 1, n : 0..n - 1, split : 0..0, b : {b}]
    BY <1>4
  <2>2. PICK rows \in Nat : rows = BatchClustersM(prob, b)  BY <1>1, <2>1, UnevenShape
  <2>3. t.m \in 0..rows - 1 /\ t.n \in 0..prob.n - 1 /\ t = [m |-> t.m, n |-> t.n, split |-> 0, b |-> b]
    BY <1>1, <2>1, <2>2
  <2>4. rows \in Nat \ {0}  BY <2>2, <2>3
  <2>5. PICK id \in Nat : id < rows * prob.n /\ SwizzleCta(prob, id, rows) = [m |-> t.m, n |-> t.n]
    BY <1>2, <2>3, <2>4, SwizzleIs
  <2>6. PICK s \in Nat, e \in Nat : s = Starts[b] /\ e = Starts[b + 1] /\ e <= Real
    <3>1. b \in 0..l /\ b + 1 \in 0..l  BY <2>1
    <3>2. Starts[b] \in Nat /\ Starts[b + 1] \in Nat /\ Starts[b + 1] <= Real  BY <1>1, <3>1, RealIs
    <3> QED  BY <3>2
  <2>7. e = s + rows * prob.n  BY <1>1, <2>1, <2>2, <2>6, RealIs
  <2>8. PICK area \in Nat : area = rows * prob.n
    <3>1. rows * n \in Nat  BY Z3
    <3> QED  BY <1>1, <3>1
  <2>9. PICK i \in 0..Real - 1 : i = s + id  BY <1>3, <2>5, <2>6, <2>7, <2>8
  <2>10. InBatch(b, i)  BY <1>1, <2>1, <2>5, <2>6, <2>7, <2>8, <2>9 DEF InBatch
  <2>11. i \in Nat  BY <1>3
  <2>12. PICK other \in Nat \ {0}, it \in Nat :
           /\ other = BatchClustersM(prob, b) /\ it < other * prob.n /\ i = Starts[b] + it
           /\ TileAt(i) = [m |-> SwizzleCta(prob, it, other).m, n |-> SwizzleCta(prob, it, other).n,
                           split |-> 0, b |-> b]
    BY <2>10, <2>11, UnevenTile
  <2>13. it = id /\ other = rows  BY <2>2, <2>6, <2>9, <2>12
  <2>14. TileAt(i) = [m |-> t.m, n |-> t.n, split |-> 0, b |-> b]  BY <2>5, <2>12, <2>13
  <2> QED  BY <2>3, <2>14
<1> QED  BY <1>5, <1>6, <1>7 DEF Indexed

(* The rows of the batches, added up.                                        *)
LEMMA RowsFold ==
  ASSUME Shapes, Uneven
  PROVE  \E f \in [Nat -> Nat] : /\ \A b \in 0..prob.l - 1 : f[b] = BatchRows(prob, b)
                                 /\ TotalM(prob) = SumOf(f, 0..prob.l - 1, prob.l)
<1>1. PICK l \in Nat \ {0} : l = prob.l  BY UnevenShape
<1> DEFINE f == [b \in Nat |-> IF b \in 0..l - 1 THEN BatchRows(prob, b) ELSE 0]
           dom == 0..l - 1
           C(h) == h = [s \in SUBSET (0..prob.l - 1) |->
                          IF s = {} THEN 0
                          ELSE BatchRows(prob, CHOOSE x \in s : TRUE) + h[s \ {CHOOSE x \in s : TRUE}]]
           it == CHOOSE h : C(h)
<1>2. f \in [Nat -> Nat]
  <2>1. \A b \in 0..l - 1 : BatchRows(prob, b) \in Nat  BY <1>1, UnevenShape
  <2> QED  BY <2>1
<1>3. \A x \in dom : f[x] = BatchRows(prob, x)
  <2>1. \A x \in dom : x \in Nat  OBVIOUS
  <2> QED  BY <2>1
<1>4. TotalM(prob) = it[dom]  BY <1>1 DEF TotalM, MapThenSumSet, MapThenFoldSet
<1> HIDE DEF f
<1>5. ASSUME NEW h PROVE Solves(h, f, dom) <=> C(h)
  <2>0. dom = 0..prob.l - 1  BY <1>1
  <2> HIDE DEF dom
  <2>1. \A s \in SUBSET dom : s # {} => BatchRows(prob, CHOOSE x \in s : TRUE) = f[CHOOSE x \in s : TRUE]
    BY <1>3
  <2>2. \A s \in SUBSET dom :
          (IF s = {} THEN 0 ELSE f[CHOOSE x \in s : TRUE] + h[s \ {CHOOSE x \in s : TRUE}])
          = (IF s = {} THEN 0 ELSE BatchRows(prob, CHOOSE x \in s : TRUE) + h[s \ {CHOOSE x \in s : TRUE}])
    BY <2>1
  <2>3. [s \in SUBSET dom |-> IF s = {} THEN 0 ELSE f[CHOOSE x \in s : TRUE] + h[s \ {CHOOSE x \in s : TRUE}]]
        = [s \in SUBSET (0..prob.l - 1) |->
             IF s = {} THEN 0 ELSE BatchRows(prob, CHOOSE x \in s : TRUE) + h[s \ {CHOOSE x \in s : TRUE}]]
    BY <2>0, <2>2, Zenon
  <2> QED  BY <2>3 DEF Solves
<1>6. dom \in SUBSET (0..l - 1)  OBVIOUS
<1>7. PICK g : Solves(g, f, dom)  BY <1>2, <1>6, FoldExists
<1>8. C(g)  BY <1>5, <1>7
<1> HIDE DEF C
<1>9. C(it)  BY <1>8
<1>10. Solves(it, f, dom)  BY <1>5, <1>9
<1> HIDE DEF it, dom
<1>11. it[dom] = SumOf(f, dom, l)  BY <1>2, <1>6, <1>10, FoldIs
<1> QED  BY <1>1, <1>2, <1>3, <1>4, <1>11 DEF dom

(* The grid of a varlen_m launch, made for the worst split of the rows, is   *)
(* not smaller than the work.                                                *)
LEMMA GridCovers ==
  ASSUME Shapes, Uneven, Lanes
  PROVE  W \in Nat /\ Real <= W
<1>1. PICK l \in Nat \ {0}, n \in Nat \ {0}, k \in Nat \ {0} : l = prob.l /\ n = prob.n /\ k = prob.block
  BY UnevenShape
<1>2. PICK f \in [Nat -> Nat] : /\ \A b \in 0..l - 1 : f[b] = BatchRows(prob, b)
                                /\ TotalM(prob) = SumOf(f, 0..l - 1, l)
  BY <1>1, RowsFold
<1>3. PICK e : e = Prefixes(f, l)  OBVIOUS
<1>4. PICK P : P \in e  BY <1>3, PrefixesExist
<1>5. P \in Prefixes(f, l)  BY <1>3, <1>4
<1>6. P \in [0..l -> Nat] /\ P[0] = 0 /\ \A i \in 0..l - 1 : P[i + 1] = P[i] + f[i]  BY <1>5 DEF Prefixes
<1>7. TotalM(prob) = P[l] /\ P[l] \in Nat
  <2>1. 0 \in 0..l /\ l \in 0..l /\ 0 <= l  OBVIOUS
  <2>2. SumOf(f, 0..l - 1, l) = P[l] - P[0]  BY <1>5, <2>1, SumOfInterval
  <2> QED  BY <1>2, <1>6, <2>2
<1> DEFINE Covered(b) == \E c \in Nat : Starts[b] = c * n /\ c * k <= P[b] + b * (k - 1)
           T == {b \in 0..l : ~Covered(b)}
<1>8. T = {}
  <2>1. SUFFICES ASSUME T # {} PROVE FALSE  OBVIOUS
  <2>2. T \in SUBSET Nat  OBVIOUS
  <2>3. PICK m \in T : \A y \in T : m <= y  BY <2>1, <2>2, Least
  <2>4. m # 0
    <3>1. Starts[0] = 0  BY StartsAre
    <3>2. 0 * n = 0 /\ 0 * k = 0 /\ 0 * (k - 1) = 0  OBVIOUS
    <3>3. Covered(0)  BY <1>6, <3>1, <3>2
    <3> QED  BY <3>3
  <2>5. PICK b \in 0..l - 1 : m = b + 1 /\ b \in 0..l
    <3>1. m - 1 \in 0..l - 1 /\ m = (m - 1) + 1 /\ m - 1 \in 0..l  BY <2>3, <2>4
    <3> QED  BY <3>1
  <2>6. b \notin T
    <3>1. ~(m <= b)  BY <2>5
    <3> HIDE DEF T
    <3> QED  BY <2>3, <3>1
  <2>7. PICK c \in Nat : Starts[b] = c * n /\ c * k <= P[b] + b * (k - 1)  BY <2>5, <2>6
  <2>8. PICK r \in Nat, p \in Nat : r = f[b] /\ r = BatchRows(prob, b) /\ p = P[b] /\ P[m] = p + r
    <3>1. b \in Nat /\ b \in 0..l /\ b \in 0..l - 1  BY <2>5
    <3>2. f[b] \in Nat /\ P[b] \in Nat /\ P[b + 1] = P[b] + f[b]  BY <1>6, <3>1
    <3> QED  BY <1>2, <2>5, <3>1, <3>2
  <2>9. PICK q \in Nat : q = BatchClustersM(prob, b)  BY <1>1, UnevenShape
  <2>10. q * k <= r + (k - 1)
    <3>1. q = (r + k - 1) \div k  BY <1>1, <2>8, <2>9 DEF BatchClustersM, CeilDiv
    <3>2. PICK x \in Nat : x = r + k - 1  OBVIOUS
    <3>3. x \div k \in Nat /\ x % k \in 0..k - 1 /\ x = k * (x \div k) + (x % k)  BY <3>2, DivMod
    <3>4. PICK y \in Nat : y = x % k  BY <3>3
    <3>5. x = k * q + y  BY <3>1, <3>2, <3>3, <3>4
    <3>6. k * q = q * k /\ q * k \in Nat  BY Z3
    <3> QED  BY <3>2, <3>4, <3>5, <3>6
  <2>11. (c + q) * n = Starts[m]
    <3>1. Starts[b + 1] = Starts[b] + q * n  BY <1>1, <2>5, <2>9, RealIs
    <3>2. (c + q) * n = n * c + q * n  BY Distribute
    <3>3. n * c = c * n  BY Z3
    <3> QED  BY <2>5, <2>7, <3>1, <3>2, <3>3
  <2>12. (c + q) * k <= P[m] + m * (k - 1)
    <3>1. PICK j \in Nat : j = k - 1  OBVIOUS
    <3>2. PICK ck \in Nat, qk \in Nat, bj \in Nat : ck = c * k /\ qk = q * k /\ bj = b * j
      <4>1. c * k \in Nat /\ q * k \in Nat  BY Z3
      <4>2. b \in Nat  BY <2>5
      <4>3. b * j \in Nat  BY <4>2, Z3
      <4> QED  BY <4>1, <4>3
    <3>3. (c + q) * k = ck + qk
      <4>1. (c + q) * k = k * c + q * k  BY Distribute
      <4>2. k * c = c * k  BY Z3
      <4> QED  BY <3>2, <4>1, <4>2
    <3>4. m * j = bj + j
      <4>1. b \in Nat /\ 1 \in Nat  BY <2>5
      <4>2. (b + 1) * j = j * b + 1 * j  BY <4>1, Distribute
      <4>3. j * b = b * j  BY <4>1, Z3
      <4> QED  BY <2>5, <3>1, <3>2, <4>2, <4>3
    <3>5. ck <= p + bj /\ qk <= r + j  BY <2>7, <2>8, <2>10, <3>1, <3>2
    <3>6. ck + qk <= (p + r) + (bj + j)  BY <3>5
    <3> QED  BY <2>8, <3>1, <3>3, <3>4, <3>6
  <2>13. Covered(m)
    <3>1. PICK d \in Nat : d = c + q  OBVIOUS
    <3>2. Starts[m] = d * n /\ d * k <= P[m] + m * (k - 1)  BY <2>11, <2>12, <3>1
    <3> QED  BY <3>2
  <2> QED  BY <2>3, <2>13
<1>9. PICK c \in Nat : Starts[l] = c * n /\ c * k <= P[l] + l * (k - 1)
  <2>1. l \in 0..l  OBVIOUS
  <2> QED  BY <1>8, <2>1
<1>10. PICK x \in Nat : x = P[l] + l * (k - 1)
  <2>1. k - 1 \in Nat  OBVIOUS
  <2>2. PICK j \in Nat : j = k - 1  BY <2>1
  <2>3. l * j \in Nat  BY Z3
  <2> QED  BY <1>7, <2>2, <2>3
<1>11. PICK q \in Nat : q = x \div k /\ c <= q
  <2>1. x \div k \in Nat /\ x % k \in 0..k - 1 /\ x = k * (x \div k) + (x % k)  BY DivMod
  <2>2. PICK q \in Nat, r \in 0..k - 1 : q = x \div k /\ r = x % k  BY <2>1
  <2>3. x = k * q + r  BY <2>1, <2>2
  <2>4. c * k <= x  BY <1>9, <1>10
  <2>5. CASE q < c
    <3>1. (q + 1) * k <= c * k  BY <2>5, MulMono
    <3>2. (q + 1) * k = k * q + k /\ k * q \in Nat /\ c * k \in Nat  BY Z3
    <3> QED  BY <2>2, <2>3, <2>4, <3>1, <3>2
  <2> QED  BY <2>2, <2>5
<1>12. W = q * n
  <2>1. WorstVarlenGrid(prob) = q * n  BY <1>1, <1>7, <1>10, <1>11 DEF WorstVarlenGrid
  <2> QED  BY <2>1 DEF W, WorkIds, Uneven
<1>13. c * n <= q * n /\ q * n \in Nat
  <2>1. c * n <= q * n  BY <1>11, MulMono
  <2>2. q * n \in Nat  BY Z3
  <2> QED  BY <2>1, <2>2
<1> QED  BY <1>1, <1>9, <1>12, <1>13 DEF Real

-----------------------------------------------------------------------------
(* A varlen_m launch, step by step. Its grid has padding behind the work:    *)
(* a cluster there has no tile, and only there may one be cancelled.         *)
Clc == prob.mode = "CLC"

(* A running cluster with a tile has its index's, and a window to find the   *)
(* next one from. A phantom has been granted padding, so that what is still  *)
(* pending when it drains is padding too.                                    *)
Lot(g) ==
  /\ cl[g].executed \in Nat
  /\ cl[g].st # "pending" => g < next
  /\ g < next /\ ~Clc => cl[g].st # "pending"
  /\ cl[g].tile # NoTile => /\ cl[g].st = "run" /\ ~cl[g].phantom
                            /\ cl[g].x \in Nat /\ cl[g].x < Real /\ Usable(cl[g].win, cl[g].x)
  /\ cl[g].st = "cancelled" => Clc /\ Real <= g
  /\ Strided /\ g < next =>
       cl[g].x \in Nat /\ cl[g].x % G = g /\ (cl[g].tile = NoTile => Real <= cl[g].x)
  /\ Dynamic /\ cl[g].tile # NoTile => cl[g].x < semaphore + G
  /\ Dynamic /\ g < next /\ cl[g].tile = NoTile => Real <= g \/ Real < semaphore + G
  /\ Clc /\ cl[g].st = "run" => cl[g].x \in Nat /\ cl[g].x < next
  /\ cl[g].st = "run" /\ cl[g].phantom => Clc /\ Real <= cl[g].x
  /\ cl[g].st = "drain" /\ cl[g].budget > 0 => Clc /\ Real < next
Lots == \A g \in Clusters : Lot(g)

(* The indices of the work that clusters have begun on.                      *)
RealTaken == {i \in 0..Real - 1 :
  IF Strided THEN i % G < next /\ i <= cl[i % G].x
  ELSE i < next \/ (Dynamic /\ G <= i /\ i < G + semaphore)}

UnevenInv ==
  /\ prob \in Problems
  /\ prob.varlen => Clustered /\ Lots /\ semaphore \in Nat /\ Accounts(RealTaken)

(* The grid of a varlen_m launch.                                            *)
LEMMA UnevenGrid ==
  ASSUME Shapes, Uneven, Lanes
  PROVE  /\ W \in Nat /\ G \in Nat /\ G <= W /\ Clusters = 0..G - 1
         /\ Real \in Nat /\ Real <= W /\ (G = 0 => Real = 0)
         /\ ~Persistent(prob) => G = W
<1>1. W \in Nat /\ Real \in Nat /\ Real <= W  BY GridCovers, RealIs
<1>2. MaxActive \in Nat \ {0}  BY DEF Shapes
<1>3. G = IF Persistent(prob) /\ MaxActive <= W THEN MaxActive ELSE W
  BY <1>1, <1>2 DEF G, W, GridClusters, Lower
<1> QED  BY <1>1, <1>2, <1>3 DEF G, Clusters

(* Nothing of the problem changes in a step.                                 *)
LEMMA ProblemKeeps ==
  ASSUME prob' = prob
  PROVE  /\ W' = W /\ G' = G /\ Clusters' = Clusters /\ Real' = Real /\ NoTile' = NoTile
         /\ Strided' = Strided /\ Dynamic' = Dynamic /\ Clc' = Clc
         /\ \A win, i : Usable(win, i)' <=> Usable(win, i)
<1>1. Starts' = Starts  BY DEF Starts, BatchWorks, Bound
<1>2. \A b : Holding(b)' = Holding(b)  BY <1>1 DEF Holding
<1>3. \A win, i : Usable(win, i)' <=> Usable(win, i)  BY <1>1, <1>2 DEF Usable, NoWindow
<1> QED  BY <1>1, <1>3 DEF W, G, Clusters, Real, NoTile, Strided, Dynamic, Clc

(* What an index decodes to.                                                 *)
LEMMA UnevenDecoded ==
  ASSUME Shapes, Uneven, Lanes, NEW c, DOMAIN c = ClusterFields, NEW x \in Nat, NEW z,
         NEW granted \in BOOLEAN, Usable(c.win, x),
         NEW d, d = Delinearize(prob, c, x, z, granted)
  PROVE  /\ DOMAIN d = ClusterFields /\ d.st = c.st /\ d.budget = c.budget
         /\ d.executed = c.executed /\ d.x = c.x /\ d.phantom = c.phantom
         /\ IF (prob.mode # "NONE" \/ c.executed = 0) /\ granted /\ x < Real
            THEN d.tile = TileAt(x) /\ d.tile # NoTile /\ Usable(d.win, x)
            ELSE d.tile = NoTile
<1>1. PICK win : win = IF granted THEN FindBatch(prob, c.win, x) ELSE [c.win EXCEPT !.batch = prob.l]
  OBVIOUS
<1>2. PICK valid : valid = ((prob.mode # "NONE" \/ c.executed = 0) /\ granted /\ win.batch < prob.l)
  OBVIOUS
<1>3. /\ DOMAIN d = ClusterFields /\ d.st = c.st /\ d.budget = c.budget
      /\ d.executed = c.executed /\ d.x = c.x /\ d.phantom = c.phantom
      /\ d.win = win /\ d.tile = IF ~valid THEN NoTile ELSE VarlenTile(prob, win, x)
  BY <1>1, <1>2 DEF Uneven, Delinearize, ClusterFields
<1>4. prob.l \in Nat  BY UnevenShape
<1>5. CASE granted = FALSE
  <2>1. ~valid  BY <1>2, <1>5
  <2>2. d.tile = NoTile  BY <1>3, <2>1
  <2> QED  BY <1>3, <1>5, <2>2
<1>6. CASE granted /\ ~(x < Real)
  <2>1. win.batch = prob.l  BY <1>1, <1>6, BatchIsFound
  <2>2. ~(win.batch < prob.l)  BY <1>4, <2>1
  <2>3. ~valid  BY <1>2, <2>2
  <2>4. d.tile = NoTile  BY <1>3, <2>3
  <2> QED  BY <1>3, <1>6, <2>4
<1>7. CASE granted /\ x < Real
  <2>1. PICK b : win = Holding(b) /\ InBatch(b, x)  BY <1>1, <1>7, BatchIsFound
  <2>2. win.batch = b /\ b < prob.l /\ b \in 0..prob.l - 1 /\ Starts[b] <= x
    BY <1>4, <2>1 DEF Holding, InBatch
  <2>3. Usable(win, x)  BY <2>1, <2>2 DEF Usable
  <2>4. TileAt(x) = VarlenTile(prob, win, x)  BY <2>1, UnevenTile
  <2>5. TileAt(x) # NoTile
    <3>1. Real \in Nat  BY RealIs
    <3>2. x \in 0..Real - 1  BY <1>7, <3>1
    <3> QED  BY <3>2, UnevenIndexed DEF Indexed
  <2> QED  BY <1>2, <1>3, <1>7, <2>2, <2>3, <2>4, <2>5
<1> QED  BY <1>5, <1>6, <1>7

(* A window serves the later indices too.                                    *)
LEMMA UsableOn ==
  ASSUME Shapes, Uneven, Lanes, NEW win, NEW x \in Nat, NEW y \in Nat, Usable(win, x), x <= y
  PROVE  Usable(win, y)
<1>1. ASSUME NEW b \in 0..prob.l - 1, Starts[b] <= x PROVE Starts[b] <= y
  <2>1. prob.l \in Nat  BY UnevenShape
  <2>2. b \in 0..prob.l  BY <2>1
  <2>3. Starts[b] \in Nat  BY <2>2, RealIs
  <2> QED  BY <1>1, <2>3
<1> QED  BY <1>1 DEF Usable

(* The lot of a cluster that a step leaves alone.                            *)
LEMMA LotKeeps ==
  ASSUME Shapes, Uneven, Lanes, Clustered, prob' = prob, semaphore \in Nat, semaphore' \in Nat,
         semaphore <= semaphore', NEW h \in Clusters, Lot(h), cl'[h] = cl[h],
         next' = next \/ (next' = next + 1 /\ (h # next \/ Clc))
  PROVE  Lot(h)'
<1>1. G \in Nat /\ Clusters = 0..G - 1 /\ Real \in Nat  BY UnevenGrid
<1>2. next \in Nat /\ h \in Nat  BY <1>1 DEF Clustered
<1>3. next <= next' /\ next' \in Nat /\ (h < next => h < next') /\ (~Clc /\ h < next' => h < next)
  BY <1>2
<1>4. Strided => ~Clc  BY DEF Strided, Clc
<1>5. Dynamic => ~Clc  BY DEF Dynamic, Clc
<1>6. /\ W' = W /\ G' = G /\ Clusters' = Clusters /\ Real' = Real /\ NoTile' = NoTile
      /\ Strided' = Strided /\ Dynamic' = Dynamic /\ Clc' = Clc
      /\ \A win, i : Usable(win, i)' <=> Usable(win, i)
  BY ProblemKeeps
<1>7. /\ cl[h].executed \in Nat
      /\ cl[h].st # "pending" => h < next'
      /\ h < next' /\ ~Clc => cl[h].st # "pending"
      /\ cl[h].tile # NoTile => /\ cl[h].st = "run" /\ ~cl[h].phantom
                                /\ cl[h].x \in Nat /\ cl[h].x < Real /\ Usable(cl[h].win, cl[h].x)
      /\ cl[h].st = "cancelled" => Clc /\ Real <= h
  BY <1>3 DEF Lot
<1>8. Strided /\ h < next' =>
         cl[h].x \in Nat /\ cl[h].x % G = h /\ (cl[h].tile = NoTile => Real <= cl[h].x)
  BY <1>3, <1>4 DEF Lot
<1>9. /\ Dynamic /\ cl[h].tile # NoTile => cl[h].x < semaphore' + G
      /\ Dynamic /\ h < next' /\ cl[h].tile = NoTile => Real <= h \/ Real < semaphore' + G
  <2>1. Dynamic /\ cl[h].tile # NoTile => cl[h].x \in Nat /\ cl[h].x < semaphore + G  BY DEF Lot
  <2>2. Dynamic /\ h < next' /\ cl[h].tile = NoTile => Real <= h \/ Real < semaphore + G
    BY <1>3, <1>5 DEF Lot
  <2> QED  BY <1>1, <1>2, <2>1, <2>2
<1>10. Clc /\ cl[h].st = "run" => cl[h].x \in Nat /\ cl[h].x < next'
  <2>1. Clc /\ cl[h].st = "run" => cl[h].x \in Nat /\ cl[h].x < next  BY DEF Lot
  <2> QED  BY <1>2, <1>3, <2>1
<1>11. /\ cl[h].st = "run" /\ cl[h].phantom => Clc /\ Real <= cl[h].x
       /\ cl[h].st = "drain" /\ cl[h].budget > 0 => Clc /\ Real < next'
  <2>1. cl[h].st = "drain" /\ cl[h].budget > 0 => Clc /\ Real < next  BY DEF Lot
  <2>2. Real < next => Real < next'  BY <1>1, <1>2, <1>3
  <2> QED  BY <2>1, <2>2 DEF Lot
<1> QED  BY <1>6, <1>7, <1>8, <1>9, <1>10, <1>11 DEF Lot

(* One cluster's step.                                                       *)
LEMMA UnevenStep ==
  ASSUME Shapes, Uneven, Lanes, UnevenInv, NEW g \in Clusters, NEW d,
         cl' = [cl EXCEPT ![g] = d], DOMAIN d = ClusterFields, prob' = prob,
         next' \in 0..G, next' = next \/ (next' = next + 1 /\ (g = next \/ Clc)),
         semaphore' \in Nat, semaphore <= semaphore', HandsIn(g), Lot(g)',
         \/ d.tile = NoTile /\ RealTaken' = RealTaken
         \/ \E i \in (0..Real - 1) \ RealTaken : d.tile = TileAt(i) /\ RealTaken' = RealTaken \cup {i}
  PROVE  UnevenInv'
<1>1. Clustered /\ Lots /\ semaphore \in Nat /\ Accounts(RealTaken)  BY DEF UnevenInv, Uneven
<1>2. Clusters' = Clusters /\ G' = G /\ Real' = Real  BY ProblemKeeps
<1>3. DOMAIN cl' = DOMAIN cl /\ cl'[g] = d /\ \A h \in Clusters : h # g => cl'[h] = cl[h]
  BY <1>1 DEF Clustered
<1>4. Clustered'  BY <1>1, <1>2, <1>3 DEF Clustered
<1>5. Lots'
  <2>1. ASSUME NEW h \in Clusters, h # g PROVE Lot(h)'
    <3>1. Lot(h) /\ cl'[h] = cl[h]  BY <1>1, <1>3, <2>1 DEF Lots
    <3>2. next' = next \/ (next' = next + 1 /\ (h # next \/ Clc))  BY <2>1
    <3> QED  BY <1>1, <3>1, <3>2, LotKeeps
  <2> QED  BY <1>2, <2>1 DEF Lots
<1>6. OthersKeep(g)  BY <1>2, <1>3 DEF OthersKeep
<1>7. PICK n : n = Real /\ Indexed(n)  BY UnevenIndexed
<1>8. PICK D \in SUBSET (0..n - 1) : D = RealTaken /\ Accounts(D)  BY <1>1, <1>7 DEF RealTaken
<1>9. Accounts(RealTaken)'
  <2>1. CASE d.tile = NoTile /\ RealTaken' = RealTaken
    <3>1. Accounts(D)'  BY <1>3, <1>6, <1>7, <1>8, <2>1, TileEnds
    <3> QED  BY <1>8, <2>1, <3>1
  <2>2. CASE \E i \in (0..Real - 1) \ RealTaken : d.tile = TileAt(i) /\ RealTaken' = RealTaken \cup {i}
    <3>1. PICK i \in (0..n - 1) \ D : cl'[g].tile = TileAt(i) /\ RealTaken' = D \cup {i}
      BY <1>3, <1>7, <1>8, <2>2
    <3>2. Accounts(D \cup {i})'  BY <1>6, <1>7, <1>8, <3>1, TileBegins
    <3> QED  BY <3>1, <3>2
  <2> QED  BY <2>1, <2>2
<1> QED  BY <1>1, <1>4, <1>5, <1>9 DEF UnevenInv, Uneven

(* What the invariant says of a cluster.                                     *)
LEMMA UnevenHas ==
  ASSUME Shapes, Lanes, Uneven, UnevenInv, NEW g \in Clusters
  PROVE  /\ W \in Nat /\ G \in Nat \ {0} /\ Clusters = 0..G - 1 /\ Real \in Nat
         /\ Clustered /\ Lots /\ semaphore \in Nat /\ Accounts(RealTaken)
         /\ g \in Nat /\ g < G /\ next \in 0..G /\ next \in Nat
         /\ DOMAIN cl[g] = ClusterFields /\ Lot(g)
<1>1. W \in Nat /\ G \in Nat /\ Clusters = 0..G - 1 /\ Real \in Nat  BY UnevenGrid
<1>2. Clustered /\ Lots /\ semaphore \in Nat /\ Accounts(RealTaken)  BY DEF UnevenInv, Uneven
<1>3. g \in Nat /\ g < G /\ next \in 0..G /\ next \in Nat  BY <1>1, <1>2 DEF Clustered
<1> QED  BY <1>1, <1>2, <1>3 DEF Clustered, Lots

(* Nothing is taken at the start.                                            *)
LEMMA InitUneven ==
  ASSUME Shapes, Lanes, ScheduleInit
  PROVE  UnevenInv
<1>1. /\ prob \in Problems /\ semaphore = 0 /\ next = 0 /\ done = EmptyBag
      /\ cl = [g \in Clusters |-> Unlaunched]
  BY DEF ScheduleInit, Clusters
<1>2. CASE ~prob.varlen  BY <1>1, <1>2 DEF UnevenInv
<1>3. CASE prob.varlen
  <2>0. Uneven  BY <1>1, <1>3 DEF Uneven
  <2>1. G \in Nat /\ Clusters = 0..G - 1 /\ Real \in Nat /\ (G = 0 => Real = 0)  BY <2>0, UnevenGrid
  <2>2. Clustered  BY <1>1, <2>1 DEF Clustered, ClusterFields, Unlaunched
  <2>3. Lots  BY <1>1, <2>1 DEF Lots, Lot, Unlaunched
  <2>4. RealTaken = {}
    <3> SUFFICES ASSUME NEW i \in 0..Real - 1
                 PROVE  ~(IF Strided THEN i % G < next /\ i <= cl[i % G].x
                          ELSE i < next \/ (Dynamic /\ G <= i /\ i < G + semaphore))
      BY DEF RealTaken
    <3>1. i \in Nat /\ G \in Nat \ {0}  BY <2>1
    <3>2. PICK r \in Nat : r = i % G
      <4>1. i % G \in 0..G - 1  BY <3>1, DivMod
      <4> QED  BY <4>1
    <3> QED  BY <1>1, <3>1, <3>2
  <2>5. Accounts({})
    <3>1. DOMAIN done = {}  BY <1>1 DEF EmptyBag, SetToBag
    <3>2. \A g \in Clusters : cl[g].tile = NoTile  BY <1>1 DEF Unlaunched
    <3> QED  BY <3>1, <3>2 DEF Accounts
  <2>6. Accounts(RealTaken)  BY <2>4, <2>5
  <2>7. semaphore \in Nat  BY <1>1
  <2> QED  BY <1>1, <2>2, <2>3, <2>6, <2>7 DEF UnevenInv
<1> QED  BY <1>2, <1>3

(* A launched cluster begins on the tile of its own index, or has none.      *)
LEMMA LaunchUneven ==
  ASSUME Shapes, Lanes, Uneven, UnevenInv, LaunchCluster
  PROVE  UnevenInv'
<1>1. PICK g \in Clusters : g = next  BY DEF LaunchCluster
<1>2. /\ G \in Nat \ {0} /\ Clusters = 0..G - 1 /\ Real \in Nat /\ Clustered /\ semaphore \in Nat
      /\ g \in Nat /\ g < G /\ Lot(g)
  BY UnevenHas
<1>3. /\ next' = next + 1 /\ prob' = prob /\ semaphore' = semaphore /\ done' = done
      /\ next' \in 0..G
  BY <1>1, <1>2 DEF LaunchCluster
<1>4. GridX(prob, next) = g /\ GridZ(prob, next) = 0  BY <1>1 DEF GridX, GridZ, Uneven
<1>5. PICK c : c = [Unlaunched EXCEPT !.st = "run", !.x = g]  OBVIOUS
<1>6. /\ DOMAIN c = ClusterFields /\ c.st = "run" /\ c.executed = 0 /\ c.x = g /\ ~c.phantom
      /\ c.win = NoWindow
  BY <1>5 DEF Unlaunched, ClusterFields
<1>7. PICK ok \in BOOLEAN, z \in Nat : ok = TRUE /\ z = 0  OBVIOUS
<1>8. PICK d : d = Delinearize(prob, c, g, z, ok)  OBVIOUS
<1>9. /\ DOMAIN d = ClusterFields /\ d.st = "run" /\ d.executed = 0 /\ d.x = g /\ ~d.phantom
      /\ IF g < Real THEN d.tile = TileAt(g) /\ d.tile # NoTile /\ Usable(d.win, g)
         ELSE d.tile = NoTile
  <2>1. Usable(c.win, g)  BY <1>6 DEF Usable
  <2>2. /\ DOMAIN d = ClusterFields /\ d.st = c.st /\ d.executed = c.executed /\ d.x = c.x
        /\ d.phantom = c.phantom
        /\ IF (prob.mode # "NONE" \/ c.executed = 0) /\ ok /\ g < Real
           THEN d.tile = TileAt(g) /\ d.tile # NoTile /\ Usable(d.win, g)
           ELSE d.tile = NoTile
    BY <1>2, <1>6, <1>8, <2>1, UnevenDecoded
  <2> QED  BY <1>6, <1>7, <2>2
<1>10. cl' = [cl EXCEPT ![g] = d]  BY <1>1, <1>4, <1>5, <1>7, <1>8 DEF LaunchCluster
<1>11. cl'[g] = d /\ \A h \in Clusters : h # g => cl'[h] = cl[h]  BY <1>2, <1>10 DEF Clustered
<1>12. /\ G' = G /\ Real' = Real /\ NoTile' = NoTile /\ Strided' = Strided /\ Dynamic' = Dynamic
       /\ Clc' = Clc /\ \A win, i : Usable(win, i)' <=> Usable(win, i)
  BY <1>3, ProblemKeeps
<1>13. Lot(g)'
  <2>1. g % G = g  BY <1>2
  <2>2. g < next' /\ g < semaphore + G  BY <1>1, <1>2, <1>3
  <2>3. d.tile # NoTile => g < Real  BY <1>9
  <2>4. d.tile = NoTile => Real <= g  BY <1>2, <1>9
  <2> QED  BY <1>2, <1>3, <1>9, <1>11, <1>12, <2>1, <2>2, <2>3, <2>4 DEF Lot
<1>14. HandsIn(g)
  <2>1. ~(g < next)  BY <1>1, <1>2
  <2>2. cl[g].tile = NoTile  BY <1>2, <2>1 DEF Lot
  <2> QED  BY <1>3, <2>2 DEF HandsIn
<1>15. ASSUME NEW i \in 0..Real - 1
       PROVE  (i \in RealTaken' <=> i \in RealTaken \/ i = g) /\ g \notin RealTaken
  <2>1. i \in Nat /\ i % G \in 0..G - 1 /\ i % G <= i
    <3>1. i \in Nat  BY <1>2
    <3>2. i % G \in 0..G - 1 /\ i \div G \in Nat /\ i = G * (i \div G) + (i % G)  BY <1>2, <3>1, DivMod
    <3>3. PICK q \in Nat, r \in 0..G - 1 : q = i \div G /\ r = i % G  BY <3>2
    <3>4. PICK p \in Nat : p = G * q  BY <1>2, Z3
    <3> QED  BY <1>2, <3>1, <3>2, <3>3, <3>4
  <2>2. PICK r \in 0..G - 1 : r = i % G  BY <2>1
  <2>3. g % G = g  BY <1>2
  <2>4. CASE Strided
    <3>1. i \in RealTaken <=> r < next /\ i <= cl[r].x  BY <2>2, <2>4 DEF RealTaken
    <3>2. i \in RealTaken' <=> r < next + 1 /\ i <= cl'[r].x
      BY <1>3, <1>12, <2>2, <2>4 DEF RealTaken
    <3>3. g \notin RealTaken  BY <1>1, <1>2, <2>3, <2>4 DEF RealTaken
    <3>4. CASE r = g
      <4>1. cl'[r].x = g  BY <1>9, <1>11, <3>4
      <4> QED  BY <1>1, <1>2, <2>1, <2>2, <3>1, <3>2, <3>3, <3>4, <4>1
    <3>5. CASE r # g
      <4>1. cl'[r] = cl[r]  BY <1>2, <1>11, <3>5
      <4>2. i # g  BY <2>2, <2>3, <3>5
      <4>3. r < next + 1 <=> r < next  BY <1>1, <1>2, <3>5
      <4> QED  BY <3>1, <3>2, <3>3, <4>1, <4>2, <4>3
    <3> QED  BY <3>4, <3>5
  <2>5. CASE ~Strided
    <3>1. i \in RealTaken <=> i < next \/ (Dynamic /\ G <= i /\ i < G + semaphore)
      BY <2>5 DEF RealTaken
    <3>2. i \in RealTaken' <=> i < next + 1 \/ (Dynamic /\ G <= i /\ i < G + semaphore)
      BY <1>3, <1>12, <2>5 DEF RealTaken
    <3>3. g \notin RealTaken  BY <1>1, <1>2, <2>5 DEF RealTaken
    <3> QED  BY <1>1, <1>2, <2>1, <3>1, <3>2, <3>3
  <2> QED  BY <2>4, <2>5
<1>16. RealTaken \subseteq 0..Real - 1 /\ RealTaken' \subseteq 0..Real - 1  BY <1>12 DEF RealTaken
<1>17. \/ d.tile = NoTile /\ RealTaken' = RealTaken
       \/ \E i \in (0..Real - 1) \ RealTaken : d.tile = TileAt(i) /\ RealTaken' = RealTaken \cup {i}
  <2>1. CASE g < Real
    <3>1. g \in 0..Real - 1  BY <1>2, <2>1
    <3>2. g \notin RealTaken /\ RealTaken' = RealTaken \cup {g}  BY <1>15, <1>16, <3>1
    <3> QED  BY <1>9, <2>1, <3>1, <3>2
  <2>2. CASE ~(g < Real)
    <3>1. g \notin 0..Real - 1  BY <1>2, <2>2
    <3>2. RealTaken' = RealTaken  BY <1>15, <1>16, <3>1
    <3> QED  BY <1>9, <2>2, <3>2
  <2> QED  BY <2>1, <2>2
<1>18. next' = next \/ (next' = next + 1 /\ (g = next \/ Clc))  BY <1>1, <1>3
<1>19. semaphore' \in Nat /\ semaphore <= semaphore'  BY <1>2, <1>3
<1> QED  BY <1>3, <1>9, <1>10, <1>13, <1>14, <1>17, <1>18, <1>19, UnevenStep

(* Without a next index, in the modes that draw none, the cluster stops.     *)
LEMMA StopUneven ==
  ASSUME Shapes, Lanes, Uneven, UnevenInv, NEW g \in Clusters, HasTile(g),
         prob.mode \in {"NONE", "CLC"}, UNCHANGED <<prob, semaphore, next>>,
         NextNone(g) \/ MoveOn(g, cl[g], cl[g].x, 0, FALSE)
  PROVE  UnevenInv'
<1>1. /\ G \in Nat \ {0} /\ Clusters = 0..G - 1 /\ Real \in Nat /\ Clustered /\ semaphore \in Nat
      /\ g \in Nat /\ g < G /\ next \in 0..G /\ next \in Nat /\ DOMAIN cl[g] = ClusterFields /\ Lot(g)
  BY UnevenHas
<1>2. /\ cl[g].st = "run" /\ cl[g].tile # NoTile /\ cl[g].executed \in Nat /\ ~cl[g].phantom
      /\ Usable(cl[g].win, cl[g].x) /\ g < next /\ ~Strided /\ ~Dynamic
  BY <1>1 DEF HasTile, Lot, Strided, Dynamic
<1>3. PICK x \in Nat : x = cl[g].x  BY <1>1, <1>2 DEF Lot
<1>4. PICK c : c = [cl[g] EXCEPT !.executed = @ + 1]  OBVIOUS
<1>5. /\ DOMAIN c = ClusterFields /\ c.st = "run" /\ c.executed = cl[g].executed + 1 /\ c.x = x
      /\ ~c.phantom /\ c.win = cl[g].win
  BY <1>1, <1>2, <1>3, <1>4 DEF ClusterFields
<1>6. PICK ok \in BOOLEAN : MoveOn(g, cl[g], cl[g].x, 0, ok) /\ (prob.mode = "NONE" \/ ok = FALSE)
  BY DEF NextNone
<1>7. PICK z, d : z = 0 /\ d = Delinearize(prob, c, x, z, ok)  OBVIOUS
<1>8. /\ DOMAIN d = ClusterFields /\ d.st = "run" /\ d.executed \in Nat /\ d.tile = NoTile
      /\ d.x = x /\ ~d.phantom
  <2>1. Usable(c.win, x)  BY <1>2, <1>3, <1>5
  <2>2. /\ DOMAIN d = ClusterFields /\ d.st = c.st /\ d.executed = c.executed /\ d.x = c.x
        /\ d.phantom = c.phantom
        /\ IF (prob.mode # "NONE" \/ c.executed = 0) /\ ok /\ x < Real
           THEN d.tile = TileAt(x) /\ d.tile # NoTile /\ Usable(d.win, x)
           ELSE d.tile = NoTile
    BY <1>5, <1>7, <2>1, UnevenDecoded
  <2>3. c.executed \in Nat /\ c.executed # 0  BY <1>2, <1>5
  <2>4. ~((prob.mode # "NONE" \/ c.executed = 0) /\ ok /\ x < Real)  BY <1>6, <2>3
  <2> QED  BY <1>5, <2>2, <2>3, <2>4
<1>9. cl' = [cl EXCEPT ![g] = d] /\ HandsIn(g)
  BY <1>2, <1>3, <1>4, <1>6, <1>7 DEF MoveOn, HandsIn
<1>10. cl'[g] = d  BY <1>1, <1>9 DEF Clustered
<1>11. /\ G' = G /\ Real' = Real /\ NoTile' = NoTile /\ Strided' = Strided /\ Dynamic' = Dynamic
       /\ Clc' = Clc
  BY ProblemKeeps
<1>12. Lot(g)'
  <2>1. Clc => x < next  BY <1>1, <1>2, <1>3 DEF Lot
  <2> QED  BY <1>2, <1>8, <1>10, <1>11, <2>1 DEF Lot
<1>13. RealTaken' = RealTaken  BY <1>2, <1>11 DEF RealTaken
<1>14. next' \in 0..G /\ next' = next /\ semaphore' \in Nat /\ semaphore <= semaphore'  BY <1>1
<1> QED  BY <1>8, <1>9, <1>12, <1>13, <1>14, UnevenStep

(* A grant of the pending cluster of lowest index, which may be padding.     *)
LEMMA GrantUneven ==
  ASSUME Shapes, Lanes, Uneven, UnevenInv, NEW g \in Clusters, HasTile(g), Clc,
         next \in Clusters, next' = next + 1, UNCHANGED <<prob, semaphore>>,
         done' = done (+) SetToBag({cl[g].tile}),
         LET x == GridX(prob, next)
             c == Delinearize(prob, [cl[g] EXCEPT !.x = x, !.executed = @ + 1], x,
                              GridZ(prob, next), TRUE)
         IN cl' = [cl EXCEPT ![g] = [c EXCEPT !.phantom = c.tile = NoTile]]
  PROVE  UnevenInv'
<1>1. /\ G \in Nat \ {0} /\ Clusters = 0..G - 1 /\ Real \in Nat /\ Clustered /\ semaphore \in Nat
      /\ g \in Nat /\ g < G /\ next \in 0..G /\ next \in Nat /\ DOMAIN cl[g] = ClusterFields /\ Lot(g)
  BY UnevenHas
<1>2. /\ cl[g].st = "run" /\ cl[g].tile # NoTile /\ cl[g].executed \in Nat
      /\ Usable(cl[g].win, cl[g].x) /\ g < next /\ ~Strided /\ ~Dynamic
      /\ cl[g].x \in Nat /\ cl[g].x < next
  BY <1>1 DEF HasTile, Lot, Strided, Dynamic, Clc
<1>3. PICK x \in Nat : x = next  BY <1>1
<1>4. GridX(prob, next) = x /\ GridZ(prob, next) = 0  BY <1>3 DEF GridX, GridZ, Uneven
<1>5. PICK c : c = [cl[g] EXCEPT !.x = x, !.executed = @ + 1]  OBVIOUS
<1>6. /\ DOMAIN c = ClusterFields /\ c.st = "run" /\ c.executed = cl[g].executed + 1 /\ c.x = x
      /\ c.win = cl[g].win
  BY <1>1, <1>2, <1>5 DEF ClusterFields
<1>7. PICK ok \in BOOLEAN, z \in Nat : ok = TRUE /\ z = 0  OBVIOUS
<1>8. PICK b : b = Delinearize(prob, c, x, z, ok)  OBVIOUS
<1>9. /\ DOMAIN b = ClusterFields /\ b.st = "run" /\ b.executed \in Nat /\ b.x = x
      /\ IF x < Real THEN b.tile = TileAt(x) /\ b.tile # NoTile /\ Usable(b.win, x)
         ELSE b.tile = NoTile
  <2>1. Usable(c.win, x)
    <3>0. PICK w : w = cl[g].win  OBVIOUS
    <3>1. PICK y \in Nat : y = cl[g].x  BY <1>2
    <3>2. Usable(w, y) /\ y <= x  BY <1>1, <1>2, <1>3, <3>0, <3>1
    <3>3. Usable(w, x)  BY <3>2, UsableOn
    <3> QED  BY <1>6, <3>0, <3>3
  <2>2. /\ DOMAIN b = ClusterFields /\ b.st = c.st /\ b.executed = c.executed /\ b.x = c.x
        /\ IF (prob.mode # "NONE" \/ c.executed = 0) /\ ok /\ x < Real
           THEN b.tile = TileAt(x) /\ b.tile # NoTile /\ Usable(b.win, x)
           ELSE b.tile = NoTile
    BY <1>6, <1>8, <2>1, UnevenDecoded
  <2>3. prob.mode # "NONE"  BY DEF Clc
  <2> QED  BY <1>2, <1>6, <1>7, <2>2, <2>3
<1>10. PICK d : d = [b EXCEPT !.phantom = b.tile = NoTile]  OBVIOUS
<1>11. /\ DOMAIN d = ClusterFields /\ d.st = "run" /\ d.executed \in Nat /\ d.x = x
       /\ d.tile = b.tile /\ d.win = b.win /\ (d.phantom <=> d.tile = NoTile)
  BY <1>9, <1>10 DEF ClusterFields
<1>12. cl' = [cl EXCEPT ![g] = d]  BY <1>4, <1>5, <1>7, <1>8, <1>10
<1>13. cl'[g] = d  BY <1>1, <1>12 DEF Clustered
<1>14. /\ G' = G /\ Real' = Real /\ NoTile' = NoTile /\ Strided' = Strided /\ Dynamic' = Dynamic
       /\ Clc' = Clc /\ \A win, i : Usable(win, i)' <=> Usable(win, i)
  BY ProblemKeeps
<1>15. Lot(g)'
  <2>1. g < next' /\ x < next'  BY <1>1, <1>2, <1>3
  <2>2. d.tile # NoTile => x < Real /\ Usable(d.win, x) /\ ~d.phantom  BY <1>9, <1>11
  <2>3. d.phantom => Real <= x  BY <1>1, <1>9, <1>11
  <2> QED  BY <1>2, <1>11, <1>13, <1>14, <2>1, <2>2, <2>3 DEF Lot
<1>16. RealTaken = {i \in 0..Real - 1 : i < next}  BY <1>2 DEF RealTaken
<1>17. RealTaken' = {i \in 0..Real - 1 : i < next + 1}  BY <1>2, <1>14 DEF RealTaken
<1>18. \/ d.tile = NoTile /\ RealTaken' = RealTaken
       \/ \E i \in (0..Real - 1) \ RealTaken : d.tile = TileAt(i) /\ RealTaken' = RealTaken \cup {i}
  <2>1. CASE x < Real
    <3>1. x \in (0..Real - 1) \ RealTaken  BY <1>1, <1>3, <1>16, <2>1
    <3>2. RealTaken' = RealTaken \cup {x}  BY <1>1, <1>3, <1>16, <1>17, <2>1
    <3> QED  BY <1>9, <1>11, <2>1, <3>1, <3>2
  <2>2. CASE ~(x < Real)
    <3>1. RealTaken' = RealTaken  BY <1>1, <1>3, <1>16, <1>17, <2>2
    <3> QED  BY <1>9, <1>11, <2>2, <3>1
  <2> QED  BY <2>1, <2>2
<1>19. HandsIn(g)  BY <1>2 DEF HandsIn
<1>20. next' \in 0..G /\ semaphore' \in Nat /\ semaphore <= semaphore'  BY <1>1
<1> QED  BY <1>11, <1>12, <1>15, <1>18, <1>19, <1>20, UnevenStep

(* A static cluster strides over the grid.                                   *)
LEMMA StrideUneven ==
  ASSUME Shapes, Lanes, Uneven, UnevenInv, NEW g \in Clusters, NextStatic(g)
  PROVE  UnevenInv'
<1>1. /\ G \in Nat \ {0} /\ Clusters = 0..G - 1 /\ Real \in Nat /\ Clustered /\ semaphore \in Nat
      /\ g \in Nat /\ g < G /\ next \in 0..G /\ next \in Nat /\ DOMAIN cl[g] = ClusterFields /\ Lot(g)
  BY UnevenHas
<1>2. /\ cl[g].st = "run" /\ cl[g].tile # NoTile /\ cl[g].executed \in Nat /\ ~cl[g].phantom
      /\ Usable(cl[g].win, cl[g].x) /\ g < next /\ Strided /\ ~Dynamic /\ ~Clc
  BY <1>1 DEF HasTile, Lot, Strided, Dynamic, Clc, NextStatic
<1>3. PICK x \in Nat : x = cl[g].x /\ x % G = g  BY <1>1, <1>2 DEF Lot
<1>4. PICK y \in Nat : y = x + G  BY <1>1
<1>5. y % G = g /\ \A i \in Nat : i % G = g /\ x < i /\ i <= y => i = y
  BY <1>1, <1>3, <1>4, Strides
<1>6. PICK c : c = [[cl[g] EXCEPT !.x = y] EXCEPT !.executed = @ + 1]  OBVIOUS
<1>7. /\ DOMAIN c = ClusterFields /\ c.st = "run" /\ c.executed = cl[g].executed + 1 /\ c.x = y
      /\ ~c.phantom /\ c.win = cl[g].win
  BY <1>1, <1>2, <1>6 DEF ClusterFields
<1>8. PICK ok \in BOOLEAN, z \in Nat : ok = TRUE /\ z = 0  OBVIOUS
<1>9. PICK d : d = Delinearize(prob, c, y, z, ok)  OBVIOUS
<1>10. /\ DOMAIN d = ClusterFields /\ d.st = "run" /\ d.executed \in Nat /\ d.x = y /\ ~d.phantom
       /\ IF y < Real THEN d.tile = TileAt(y) /\ d.tile # NoTile /\ Usable(d.win, y)
          ELSE d.tile = NoTile
  <2>1. Usable(c.win, y)
    <3>1. PICK w : w = cl[g].win  OBVIOUS
    <3>2. Usable(w, x) /\ x <= y  BY <1>1, <1>2, <1>3, <1>4, <3>1
    <3>3. Usable(w, y)  BY <3>2, UsableOn
    <3> QED  BY <1>7, <3>1, <3>3
  <2>2. /\ DOMAIN d = ClusterFields /\ d.st = c.st /\ d.executed = c.executed /\ d.x = c.x
        /\ d.phantom = c.phantom
        /\ IF (prob.mode # "NONE" \/ c.executed = 0) /\ ok /\ y < Real
           THEN d.tile = TileAt(y) /\ d.tile # NoTile /\ Usable(d.win, y)
           ELSE d.tile = NoTile
    BY <1>7, <1>9, <2>1, UnevenDecoded
  <2>3. prob.mode # "NONE"  BY <1>2 DEF Strided
  <2> QED  BY <1>2, <1>7, <1>8, <2>2, <2>3
<1>11. /\ cl' = [cl EXCEPT ![g] = d] /\ HandsIn(g)
       /\ next' = next /\ prob' = prob /\ semaphore' = semaphore
  BY <1>2, <1>3, <1>4, <1>6, <1>8, <1>9 DEF NextStatic, MoveOn, HandsIn, G
<1>12. cl'[g] = d /\ \A h \in Clusters : h # g => cl'[h] = cl[h]  BY <1>1, <1>11 DEF Clustered
<1>13. /\ G' = G /\ Real' = Real /\ NoTile' = NoTile /\ Strided' = Strided /\ Dynamic' = Dynamic
       /\ Clc' = Clc /\ \A win, i : Usable(win, i)' <=> Usable(win, i)
  BY <1>11, ProblemKeeps
<1>14. Lot(g)'
  <2>1. d.tile # NoTile => y < Real /\ Usable(d.win, y)  BY <1>10
  <2>2. d.tile = NoTile => Real <= y  BY <1>1, <1>10
  <2> QED  BY <1>2, <1>5, <1>10, <1>11, <1>12, <1>13, <2>1, <2>2 DEF Lot
<1>15. ASSUME NEW i \in 0..Real - 1 PROVE i \in RealTaken' <=> i \in RealTaken \/ i = y
  <2>1. i \in Nat  BY <1>1
  <2>2. PICK r \in 0..G - 1 : r = i % G
    <3>1. i % G \in 0..G - 1  BY <1>1, <2>1, DivMod
    <3> QED  BY <3>1
  <2>3. i \in RealTaken <=> r < next /\ i <= cl[r].x  BY <1>2, <2>2 DEF RealTaken
  <2>4. i \in RealTaken' <=> r < next /\ i <= cl'[r].x
    BY <1>2, <1>11, <1>13, <2>2 DEF RealTaken
  <2>5. CASE r = g
    <3>1. cl[r].x = x /\ cl'[r].x = y  BY <1>3, <1>10, <1>12, <2>5
    <3>2. i <= y <=> i <= x \/ i = y
      <4>1. x < i /\ i <= y => i = y  BY <1>5, <2>1, <2>2, <2>5
      <4> QED  BY <1>1, <1>4, <2>1, <4>1
    <3>3. g < next  BY <1>2
    <3> QED  BY <2>3, <2>4, <2>5, <3>1, <3>2, <3>3
  <2>6. CASE r # g
    <3>1. cl'[r] = cl[r]  BY <1>1, <1>12, <2>6
    <3>2. i # y  BY <1>5, <2>2, <2>6
    <3> QED  BY <2>3, <2>4, <3>1, <3>2
  <2> QED  BY <2>5, <2>6
<1>16. RealTaken \subseteq 0..Real - 1 /\ RealTaken' \subseteq 0..Real - 1  BY <1>13 DEF RealTaken
<1>17. \/ d.tile = NoTile /\ RealTaken' = RealTaken
       \/ \E i \in (0..Real - 1) \ RealTaken : d.tile = TileAt(i) /\ RealTaken' = RealTaken \cup {i}
  <2>1. CASE y < Real
    <3>1. y \in 0..Real - 1  BY <1>1, <2>1
    <3>2. y \notin RealTaken
      <4>1. y <= x <=> FALSE  BY <1>1, <1>4
      <4> QED  BY <1>2, <1>3, <1>5, <4>1 DEF RealTaken
    <3>3. RealTaken' = RealTaken \cup {y}  BY <1>15, <1>16, <3>1
    <3> QED  BY <1>10, <2>1, <3>1, <3>2, <3>3
  <2>2. CASE ~(y < Real)
    <3>1. y \notin 0..Real - 1  BY <1>1, <2>2
    <3>2. RealTaken' = RealTaken  BY <1>15, <1>16, <3>1
    <3> QED  BY <1>10, <2>2, <3>2
  <2> QED  BY <2>1, <2>2
<1>18. next' \in 0..G /\ semaphore' \in Nat /\ semaphore <= semaphore'  BY <1>1, <1>11
<1> QED  BY <1>10, <1>11, <1>14, <1>17, <1>18, UnevenStep

(* A dynamic cluster draws; the counter of a varlen_m launch does not wrap.  *)
LEMMA DrawUneven ==
  ASSUME Shapes, Lanes, Uneven, UnevenInv, NEW g \in Clusters, NextDynamic(g)
  PROVE  UnevenInv'
<1>1. /\ G \in Nat \ {0} /\ Clusters = 0..G - 1 /\ Real \in Nat /\ Clustered /\ semaphore \in Nat
      /\ g \in Nat /\ g < G /\ next \in 0..G /\ next \in Nat /\ DOMAIN cl[g] = ClusterFields /\ Lot(g)
  BY UnevenHas
<1>2. /\ cl[g].st = "run" /\ cl[g].tile # NoTile /\ cl[g].executed \in Nat /\ ~cl[g].phantom
      /\ Usable(cl[g].win, cl[g].x) /\ g < next /\ ~Strided /\ Dynamic /\ ~Clc
      /\ cl[g].x \in Nat /\ cl[g].x < semaphore + G
  BY <1>1 DEF HasTile, Lot, Strided, Dynamic, Clc, NextDynamic
<1>3. PICK y \in Nat : y = semaphore + G  BY <1>1
<1>4. /\ next' = next /\ prob' = prob /\ semaphore' = semaphore + 1
  BY DEF NextDynamic, Inc, Uneven
<1>6. PICK c : c = [[cl[g] EXCEPT !.x = y] EXCEPT !.executed = @ + 1]  OBVIOUS
<1>7. /\ DOMAIN c = ClusterFields /\ c.st = "run" /\ c.executed = cl[g].executed + 1 /\ c.x = y
      /\ ~c.phantom /\ c.win = cl[g].win
  BY <1>1, <1>2, <1>6 DEF ClusterFields
<1>8. PICK ok \in BOOLEAN, z \in Nat : ok = TRUE /\ z = 0  OBVIOUS
<1>9. PICK d : d = Delinearize(prob, c, y, z, ok)  OBVIOUS
<1>10. /\ DOMAIN d = ClusterFields /\ d.st = "run" /\ d.executed \in Nat /\ d.x = y /\ ~d.phantom
       /\ IF y < Real THEN d.tile = TileAt(y) /\ d.tile # NoTile /\ Usable(d.win, y)
          ELSE d.tile = NoTile
  <2>1. Usable(c.win, y)
    <3>0. PICK w : w = cl[g].win  OBVIOUS
    <3>1. PICK x \in Nat : x = cl[g].x  BY <1>2
    <3>2. Usable(w, x) /\ x <= y  BY <1>1, <1>2, <1>3, <3>0, <3>1
    <3>3. Usable(w, y)  BY <3>2, UsableOn
    <3> QED  BY <1>7, <3>0, <3>3
  <2>2. /\ DOMAIN d = ClusterFields /\ d.st = c.st /\ d.executed = c.executed /\ d.x = c.x
        /\ d.phantom = c.phantom
        /\ IF (prob.mode # "NONE" \/ c.executed = 0) /\ ok /\ y < Real
           THEN d.tile = TileAt(y) /\ d.tile # NoTile /\ Usable(d.win, y)
           ELSE d.tile = NoTile
    BY <1>7, <1>9, <2>1, UnevenDecoded
  <2>3. prob.mode # "NONE"  BY <1>2 DEF Dynamic
  <2> QED  BY <1>2, <1>7, <1>8, <2>2, <2>3
<1>11. cl' = [cl EXCEPT ![g] = d] /\ HandsIn(g)
  BY <1>2, <1>3, <1>6, <1>8, <1>9 DEF NextDynamic, MoveOn, HandsIn, G
<1>12. cl'[g] = d  BY <1>1, <1>11 DEF Clustered
<1>13. /\ G' = G /\ Real' = Real /\ NoTile' = NoTile /\ Strided' = Strided /\ Dynamic' = Dynamic
       /\ Clc' = Clc /\ \A win, i : Usable(win, i)' <=> Usable(win, i)
  BY <1>4, ProblemKeeps
<1>14. Lot(g)'
  <2>1. d.tile # NoTile => y < Real /\ Usable(d.win, y)  BY <1>10
  <2>2. d.tile = NoTile => Real < semaphore' + G  BY <1>1, <1>3, <1>4, <1>10
  <2>3. y < semaphore' + G  BY <1>1, <1>3, <1>4
  <2> QED  BY <1>2, <1>4, <1>10, <1>12, <1>13, <2>1, <2>2, <2>3 DEF Lot
<1>15. RealTaken = {i \in 0..Real - 1 : i < next \/ (G <= i /\ i < G + semaphore)}
  BY <1>2 DEF RealTaken
<1>16. RealTaken' = {i \in 0..Real - 1 : i < next \/ (G <= i /\ i < G + (semaphore + 1))}
  BY <1>2, <1>4, <1>13 DEF RealTaken
<1>17. \/ d.tile = NoTile /\ RealTaken' = RealTaken
       \/ \E i \in (0..Real - 1) \ RealTaken : d.tile = TileAt(i) /\ RealTaken' = RealTaken \cup {i}
  <2>1. CASE y < Real
    <3>1. y \in (0..Real - 1) \ RealTaken  BY <1>1, <1>3, <1>15, <2>1
    <3>2. RealTaken' = RealTaken \cup {y}  BY <1>1, <1>3, <1>15, <1>16, <2>1
    <3> QED  BY <1>10, <2>1, <3>1, <3>2
  <2>2. CASE ~(y < Real)
    <3>1. RealTaken' = RealTaken  BY <1>1, <1>3, <1>15, <1>16, <2>2
    <3> QED  BY <1>10, <2>2, <3>1
  <2> QED  BY <2>1, <2>2
<1>18. next' \in 0..G /\ semaphore' \in Nat /\ semaphore <= semaphore'  BY <1>1, <1>4
<1> QED  BY <1>4, <1>10, <1>11, <1>14, <1>17, <1>18, UnevenStep

(* A cluster without a tile retires, finds nothing to cancel, or leaves. The *)
(* budget to cancel is a phantom's, whose grant was padding.                 *)
LEMMA LeaveUneven ==
  ASSUME Shapes, Lanes, Uneven, UnevenInv, NEW g \in Clusters,
         Retire(g) \/ ExitCluster(g) \/ (CancelOne(g) /\ next' = next)
  PROVE  UnevenInv'
<1>1. /\ G \in Nat \ {0} /\ Clusters = 0..G - 1 /\ Real \in Nat /\ Clustered /\ semaphore \in Nat
      /\ g \in Nat /\ g < G /\ next \in 0..G /\ next \in Nat /\ DOMAIN cl[g] = ClusterFields /\ Lot(g)
  BY UnevenHas
<1>2. PICK st, budget : /\ st \in {"drain", "gone"} /\ (st = "drain" /\ budget > 0 => Clc /\ Real < next)
                        /\ cl' = [cl EXCEPT ![g] = [cl[g] EXCEPT !.st = st, !.budget = budget]]
                        /\ cl[g].st # "pending" /\ cl[g].tile = NoTile
  <2>1. CASE Retire(g)
    <3>1. DrainBudget(prob, cl[g]) > 0 => Clc /\ Real < next
      <4>1. DrainBudget(prob, cl[g]) > 0 => Clc /\ cl[g].phantom  BY DEF DrainBudget, Clc
      <4>2. Clc /\ cl[g].phantom => Real <= cl[g].x /\ cl[g].x \in Nat /\ cl[g].x < next
        BY <1>1, <2>1 DEF Lot, Retire
      <4>3. Clc /\ cl[g].phantom => Real < next  BY <1>1, <4>2
      <4> QED  BY <4>1, <4>3
    <3> QED  BY <1>1, <2>1, <3>1 DEF Retire, Clustered
  <2>2. CASE ExitCluster(g)
    <3>1. cl' = [cl EXCEPT ![g] = [cl[g] EXCEPT !.st = "gone"]] /\ cl[g].st = "drain"
      BY <1>1, <2>2 DEF ExitCluster, Clustered
    <3>2. PICK b : b = cl[g].budget  OBVIOUS
    <3>3. [cl[g] EXCEPT !.st = "gone"] = [cl[g] EXCEPT !.st = "gone", !.budget = b]
      BY <1>1, <3>2 DEF ClusterFields
    <3>4. cl[g].tile = NoTile  BY <1>1, <3>1 DEF Lot
    <3>5. cl' = [cl EXCEPT ![g] = [cl[g] EXCEPT !.st = "gone", !.budget = b]]  BY <3>1, <3>3
    <3>6. PICK st : st = "gone"  OBVIOUS
    <3>7. st \in {"drain", "gone"} /\ st # "drain" /\ cl[g].st # "pending"  BY <3>1, <3>6
    <3> QED  BY <3>4, <3>5, <3>6, <3>7
  <2>3. CASE CancelOne(g) /\ next' = next
    <3>1. cl' = [cl EXCEPT ![g].budget = 0] /\ cl[g].st = "drain"
      <4>1. next # next + 1  BY <1>1
      <4> QED  BY <2>3, <4>1 DEF CancelOne
    <3>2. cl' = [cl EXCEPT ![g] = [cl[g] EXCEPT !.budget = 0]]  BY <1>1, <3>1 DEF Clustered
    <3>3. PICK st \in {"drain"}, b \in Nat : b = 0  OBVIOUS
    <3>4. [cl[g] EXCEPT !.budget = 0] = [cl[g] EXCEPT !.st = st, !.budget = b]
      BY <1>1, <3>1, <3>3 DEF ClusterFields
    <3>5. cl' = [cl EXCEPT ![g] = [cl[g] EXCEPT !.st = st, !.budget = b]]  BY <3>2, <3>4
    <3>6. cl[g].tile = NoTile  BY <1>1, <3>1 DEF Lot
    <3>7. ~(b > 0) /\ st \in {"drain", "gone"} /\ cl[g].st # "pending"  BY <3>1, <3>3
    <3> QED  BY <3>5, <3>6, <3>7
  <2> QED  BY <2>1, <2>2, <2>3
<1>3. next' = next /\ prob' = prob /\ semaphore' = semaphore /\ done' = done
  BY DEF Retire, ExitCluster, CancelOne
<1>4. PICK d : d = [cl[g] EXCEPT !.st = st, !.budget = budget]  OBVIOUS
<1>5. /\ DOMAIN d = ClusterFields /\ d.st = st /\ d.budget = budget /\ d.tile = NoTile
      /\ d.x = cl[g].x /\ d.executed = cl[g].executed
  BY <1>1, <1>2, <1>4 DEF ClusterFields
<1>6. cl' = [cl EXCEPT ![g] = d]  BY <1>2, <1>4
<1>7. cl'[g] = d /\ \A h \in Clusters : h # g => cl'[h] = cl[h]  BY <1>1, <1>6 DEF Clustered
<1>8. /\ G' = G /\ Real' = Real /\ NoTile' = NoTile /\ Strided' = Strided /\ Dynamic' = Dynamic
      /\ Clc' = Clc
  BY <1>3, ProblemKeeps
<1>9. Lot(g)'
  <2>1. g < next /\ cl[g].executed \in Nat  BY <1>1, <1>2 DEF Lot
  <2>2. Strided => d.x \in Nat /\ d.x % G = g /\ Real <= d.x  BY <1>1, <1>2, <1>5, <2>1 DEF Lot
  <2>3. Dynamic => Real <= g \/ Real < semaphore + G  BY <1>1, <1>2, <2>1 DEF Lot
  <2> QED  BY <1>2, <1>3, <1>5, <1>7, <1>8, <2>1, <2>2, <2>3 DEF Lot
<1>10. RealTaken' = RealTaken
  <2>1. \A h \in Clusters : cl'[h].x = cl[h].x  BY <1>5, <1>7
  <2>2. \A i \in 0..Real - 1 : i % G \in Clusters
    <3> SUFFICES ASSUME NEW i \in 0..Real - 1 PROVE i % G \in Clusters  OBVIOUS
    <3>1. i \in Nat  BY <1>1
    <3> QED  BY <1>1, <3>1, DivMod
  <2>3. \A i \in 0..Real - 1 : cl'[i % G].x = cl[i % G].x  BY <2>1, <2>2
  <2> QED  BY <1>3, <1>8, <2>3 DEF RealTaken
<1>11. HandsIn(g)  BY <1>2, <1>3 DEF HandsIn
<1>12. next' \in 0..G /\ semaphore' \in Nat /\ semaphore <= semaphore'  BY <1>1, <1>3
<1> QED  BY <1>3, <1>5, <1>6, <1>9, <1>10, <1>11, <1>12, UnevenStep

(* A drain cancels the pending cluster of lowest index, which is padding.    *)
LEMMA CancelUneven ==
  ASSUME Shapes, Lanes, Uneven, UnevenInv, NEW g \in Clusters, CancelOne(g), next' # next
  PROVE  UnevenInv'
<1>1. /\ G \in Nat \ {0} /\ Clusters = 0..G - 1 /\ Real \in Nat /\ Clustered /\ Lots /\ semaphore \in Nat
      /\ g \in Nat /\ g < G /\ next \in 0..G /\ next \in Nat /\ DOMAIN cl[g] = ClusterFields /\ Lot(g)
      /\ Accounts(RealTaken)
  BY UnevenHas
<1>2. /\ next \in Clusters /\ next' = next + 1 /\ prob' = prob /\ semaphore' = semaphore /\ done' = done
      /\ cl' = [cl EXCEPT ![next].st = "cancelled", ![g].budget = @ - 1]
      /\ cl[g].st = "drain" /\ cl[g].budget > 0
  BY DEF CancelOne
<1>3. Clc /\ Real < next /\ g < next /\ cl[g].tile = NoTile /\ ~Strided /\ ~Dynamic
  BY <1>1, <1>2 DEF Lot, Clc, Strided, Dynamic
<1>4. PICK k \in Clusters : k = next  BY <1>2
<1>5. k # g /\ k \in Nat /\ Real <= k  BY <1>1, <1>3, <1>4
<1>6. Lot(k) /\ DOMAIN cl[k] = ClusterFields  BY <1>1 DEF Lots, Clustered
<1>7. cl[k].tile = NoTile /\ cl[k].executed \in Nat
  <2>1. ~(k < next)  BY <1>4, <1>5
  <2> QED  BY <1>6, <2>1 DEF Lot
<1>8. PICK c, d : c = [cl[k] EXCEPT !.st = "cancelled"] /\ d = [cl[g] EXCEPT !.budget = @ - 1]
  OBVIOUS
<1>9. /\ DOMAIN cl' = DOMAIN cl /\ cl'[k] = c /\ cl'[g] = d
      /\ \A h \in Clusters : h # k /\ h # g => cl'[h] = cl[h]
  BY <1>1, <1>2, <1>4, <1>5, <1>8 DEF Clustered
<1>10. /\ DOMAIN c = ClusterFields /\ c.st = "cancelled" /\ c.tile = NoTile /\ c.executed \in Nat
       /\ DOMAIN d = ClusterFields /\ d.st = "drain" /\ d.tile = NoTile /\ d.executed = cl[g].executed
  BY <1>1, <1>2, <1>3, <1>6, <1>7, <1>8 DEF ClusterFields
<1>11. /\ G' = G /\ Clusters' = Clusters /\ Real' = Real /\ NoTile' = NoTile /\ Strided' = Strided
       /\ Dynamic' = Dynamic /\ Clc' = Clc
  BY <1>2, ProblemKeeps
<1>12. next' \in 0..G /\ k < next' /\ g < next' /\ Real < next'  BY <1>1, <1>2, <1>3, <1>4
<1>13. Clustered'  BY <1>1, <1>9, <1>10, <1>11, <1>12 DEF Clustered
<1>14. Lot(k)'  BY <1>3, <1>5, <1>9, <1>10, <1>11, <1>12 DEF Lot
<1>15. Lot(g)'
  <2>1. cl[g].executed \in Nat  BY <1>1 DEF Lot
  <2> QED  BY <1>3, <1>9, <1>10, <1>11, <1>12, <2>1 DEF Lot
<1>16. ASSUME NEW h \in Clusters, h # k, h # g PROVE Lot(h)'
  <2>1. Lot(h) /\ cl'[h] = cl[h]  BY <1>1, <1>9, <1>16 DEF Lots
  <2>2. next' = next \/ (next' = next + 1 /\ (h # next \/ Clc))  BY <1>2, <1>3
  <2>3. semaphore' \in Nat /\ semaphore <= semaphore'  BY <1>1, <1>2
  <2> QED  BY <1>1, <1>2, <2>1, <2>2, <2>3, LotKeeps
<1>17. Lots'  BY <1>11, <1>14, <1>15, <1>16 DEF Lots
<1>18. RealTaken' = RealTaken
  <2>1. RealTaken = {i \in 0..Real - 1 : i < next}  BY <1>3 DEF RealTaken
  <2>2. RealTaken' = {i \in 0..Real - 1 : i < next + 1}  BY <1>2, <1>3, <1>11 DEF RealTaken
  <2> QED  BY <1>1, <1>3, <2>1, <2>2
<1>19. Accounts(RealTaken)'
  <2>1. OthersKeep(g)
    <3>1. \A h \in Clusters : h # g => cl'[h].tile = cl[h].tile  BY <1>7, <1>9, <1>10
    <3> QED  BY <1>2, <1>11, <3>1 DEF OthersKeep
  <2>2. HandsIn(g) /\ cl'[g].tile = NoTile  BY <1>2, <1>3, <1>9, <1>10 DEF HandsIn
  <2>3. PICK n : n = Real /\ Indexed(n)  BY UnevenIndexed
  <2>4. PICK D \in SUBSET (0..n - 1) : D = RealTaken /\ Accounts(D)  BY <1>1, <2>3 DEF RealTaken
  <2>5. Accounts(D)'  BY <2>1, <2>2, <2>3, <2>4, TileEnds
  <2> QED  BY <1>18, <2>4, <2>5
<1>20. prob' \in Problems /\ semaphore' \in Nat  BY <1>1, <1>2 DEF Uneven
<1> QED  BY <1>13, <1>17, <1>19, <1>20 DEF UnevenInv

(* Every step keeps the invariant.                                           *)
LEMMA NextUneven ==
  ASSUME Shapes, Lanes, UnevenInv, [ScheduleNext]_(scheduleVars)
  PROVE  UnevenInv'
<1>1. prob' = prob
  BY DEF ScheduleNext, LaunchCluster, NextNone, NextStatic,
         NextDynamic, NextClc, Retire, CancelOne,
         ExitCluster, ScheduleDone, scheduleVars
<1>2. CASE ~prob.varlen  BY <1>1, <1>2 DEF UnevenInv
<1>3. CASE Uneven
  <2>1. CASE UNCHANGED scheduleVars
    <3>1. UNCHANGED <<prob, semaphore, next, cl, done>>  BY <2>1 DEF scheduleVars
    <3>2. /\ G' = G /\ Clusters' = Clusters /\ Real' = Real /\ NoTile' = NoTile /\ Strided' = Strided
          /\ Dynamic' = Dynamic /\ Clc' = Clc /\ \A win, i : Usable(win, i)' <=> Usable(win, i)
      BY <1>1, ProblemKeeps
    <3>3. Clustered' <=> Clustered  BY <3>1, <3>2 DEF Clustered
    <3>4. ASSUME NEW g \in Clusters PROVE Lot(g)' <=> Lot(g)  BY <3>1, <3>2 DEF Lot
    <3>5. Lots' <=> Lots  BY <3>2, <3>4 DEF Lots
    <3>6. RealTaken' = RealTaken  BY <3>1, <3>2 DEF RealTaken
    <3>7. \A i : TileAt(i)' = TileAt(i)  BY <1>1, TileKeeps
    <3>8. PICK D : D = RealTaken  OBVIOUS
    <3>9. Accounts(D)' <=> Accounts(D)  BY <3>1, <3>2, <3>7 DEF Accounts
    <3>10. Accounts(RealTaken)' <=> Accounts(RealTaken)  BY <3>6, <3>8, <3>9
    <3> QED  BY <3>1, <3>3, <3>5, <3>10 DEF UnevenInv
  <2>2. CASE LaunchCluster  BY <1>3, <2>2, LaunchUneven
  <2>3. ASSUME NEW g \in Clusters, NextNone(g) PROVE UnevenInv'
    BY <1>3, <2>3, StopUneven DEF NextNone
  <2>4. ASSUME NEW g \in Clusters, NextStatic(g) PROVE UnevenInv'
    BY <1>3, <2>4, StrideUneven
  <2>5. ASSUME NEW g \in Clusters, NextDynamic(g) PROVE UnevenInv'
    BY <1>3, <2>5, DrawUneven
  <2>6. ASSUME NEW g \in Clusters, NextClc(g) PROVE UnevenInv'
    <3>1. HasTile(g) /\ prob.mode = "CLC" /\ Clc /\ UNCHANGED <<prob, semaphore>>
      BY <2>6 DEF NextClc, Clc
    <3>2. CASE MoveOn(g, cl[g], cl[g].x, 0, FALSE) /\ UNCHANGED next
      BY <1>3, <3>1, <3>2, StopUneven
    <3>3. CASE ~(MoveOn(g, cl[g], cl[g].x, 0, FALSE) /\ UNCHANGED next)
      <4>1. /\ next \in Clusters /\ next' = next + 1
            /\ done' = done (+) SetToBag({cl[g].tile})
            /\ LET x == GridX(prob, next)
                   c == Delinearize(prob, [cl[g] EXCEPT !.x = x, !.executed = @ + 1], x,
                                             GridZ(prob, next), TRUE)
               IN cl' = [cl EXCEPT ![g] = [c EXCEPT !.phantom = c.tile = NoTile]]
        BY <2>6, <3>3 DEF NextClc
      <4> QED  BY <1>3, <3>1, <4>1, GrantUneven
    <3> QED  BY <3>2, <3>3
  <2>7. ASSUME NEW g \in Clusters, Retire(g) \/ ExitCluster(g) PROVE UnevenInv'
    BY <1>3, <2>7, LeaveUneven
  <2>8. ASSUME NEW g \in Clusters, CancelOne(g) PROVE UnevenInv'
    BY <1>3, <2>8, LeaveUneven, CancelUneven
  <2> QED  BY <2>1, <2>2, <2>3, <2>4, <2>5, <2>6, <2>7, <2>8 DEF ScheduleNext, ScheduleDone
<1> QED  BY <1>2, <1>3 DEF UnevenInv, Uneven

(* The invariant of varlen_m launches holds.                                 *)
LEMMA UnevenInvariance == ASSUME Shapes, Lanes PROVE ScheduleSpec => []UnevenInv
<1>1. ScheduleInit => UnevenInv  BY InitUneven
<1>2. UnevenInv /\ [ScheduleNext]_(scheduleVars) => UnevenInv'  BY NextUneven
<1> QED  BY <1>1, <1>2, PTL DEF ScheduleSpec

(* When the launch has ended all of its work has been taken.                 *)
LEMMA UnevenAllTaken ==
  ASSUME Shapes, Lanes, Uneven, UnevenInv, Finished
  PROVE  RealTaken = 0..Real - 1 /\ \A g \in Clusters : cl[g].tile = NoTile
<1>1. Clustered /\ Lots /\ semaphore \in Nat  BY DEF UnevenInv, Uneven
<1>2. /\ W \in Nat /\ G \in Nat /\ Clusters = 0..G - 1 /\ Real \in Nat /\ Real <= W
      /\ (G = 0 => Real = 0) /\ (~Persistent(prob) => G = W)
  BY UnevenGrid
<1>3. next = G /\ \A g \in Clusters : cl[g].st \notin {"run", "drain"}
  BY DEF Finished, Resident, G
<1>4. \A g \in Clusters : g < next /\ cl[g].tile = NoTile  BY <1>1, <1>2, <1>3 DEF Lots, Lot
<1>5. ASSUME NEW i \in 0..Real - 1 PROVE i \in RealTaken
  <2>1. i \in Nat /\ i < Real /\ G \in Nat \ {0}  BY <1>2
  <2>2. CASE Strided
    <3>1. PICK r \in 0..G - 1 : r = i % G
      <4>1. i % G \in 0..G - 1  BY <2>1, DivMod
      <4> QED  BY <4>1
    <3>2. r < next /\ cl[r].x \in Nat /\ Real <= cl[r].x
      BY <1>1, <1>2, <1>4, <2>2 DEF Lots, Lot
    <3>3. i <= cl[r].x  BY <1>2, <2>1, <3>2
    <3> QED  BY <2>2, <3>1, <3>2, <3>3 DEF RealTaken
  <2>3. CASE Dynamic
    <3>1. PICK g \in Clusters : g = 0  BY <1>2, <2>1
    <3>2. Real <= g \/ Real < semaphore + G  BY <1>1, <1>4, <2>3 DEF Lots, Lot
    <3>3. Real < semaphore + G  BY <1>2, <2>1, <3>1, <3>2
    <3>4. i < next \/ (G <= i /\ i < G + semaphore)  BY <1>1, <1>2, <1>3, <2>1, <3>3
    <3> QED  BY <2>3, <3>4 DEF RealTaken, Strided, Dynamic
  <2>4. CASE ~Strided /\ ~Dynamic
    <3>1. ~Persistent(prob)  BY <2>4 DEF Persistent, Strided, Dynamic
    <3>2. i < next  BY <1>2, <1>3, <2>1, <3>1
    <3> QED  BY <2>4, <3>2 DEF RealTaken
  <2> QED  BY <2>2, <2>3, <2>4
<1>6. RealTaken = 0..Real - 1  BY <1>5 DEF RealTaken
<1> QED  BY <1>4, <1>6

(* It makes the tiles done those of the output.                              *)
LEMMA UnevenOnce == ASSUME Shapes, Lanes, Uneven, UnevenInv PROVE EveryTileOnce
<1>1. BagToSet(done) = DOMAIN done  BY DEF BagToSet
<1>2. \A t \in DOMAIN done : done[t] = 1  BY DEF UnevenInv, Uneven, Accounts
<1>3. ASSUME Finished PROVE DOMAIN done = OutputTiles(prob)
  <2>1. PICK n : n = Real /\ Indexed(n)  BY UnevenIndexed
  <2>2. RealTaken = 0..n - 1 /\ \A g \in Clusters : cl[g].tile = NoTile  BY <1>3, <2>1, UnevenAllTaken
  <2>3. Accounts(0..n - 1)  BY <2>2 DEF UnevenInv, Uneven
  <2>4. \A i \in 0..n - 1 : TileAt(i) \in DOMAIN done  BY <2>1, <2>2, <2>3 DEF Accounts, Indexed
  <2>5. \A t \in DOMAIN done : \E i \in 0..n - 1 : t = TileAt(i)  BY <2>3 DEF Accounts
  <2>6. DOMAIN done \subseteq OutputTiles(prob)  BY <2>1, <2>5 DEF Indexed
  <2>7. OutputTiles(prob) \subseteq DOMAIN done  BY <2>1, <2>4 DEF Indexed
  <2> QED  BY <2>6, <2>7
<1> QED  BY <1>1, <1>2, <1>3 DEF EveryTileOnce

(* In every launch, dense or varlen_m, no output tile and split is computed  *)
(* twice, and all are by its end, under every scheduler. For varlen_m the    *)
(* warp's scan finds the batch of every index from whatever window the last  *)
(* call left, whatever the batches' rows and however many windows it         *)
(* crosses; and the worst-case grid has a cluster for all of the work.       *)
(* (tile_scheduler.py's decode, fetch and get_grid_shape.)                   *)
THEOREM EachTileOnce == ScheduleSpec => []EveryTileOnce
<1>1. Shapes /\ Lanes  BY ProblemsAssumption, ActiveAssumption, LanesAssumption DEF Shapes, Lanes
<1>2. DenseInv /\ UnevenInv => EveryTileOnce
  BY <1>1, DenseOnce, UnevenOnce DEF DenseInv, UnevenInv, Dense, Uneven
<1> QED  BY <1>1, <1>2, DenseInvariance, UnevenInvariance, PTL

(* A drain cancels padding only, for every length of the batches and every   *)
(* DrainCap: a phantom was granted an index past the work, and indices are   *)
(* granted and cancelled in order, so that those still pending are past it   *)
(* too, whatever try_cancel answers.  (CLC_DRAIN_MAX_CANCELS and the drain   *)
(* of tile_scheduler.py.)                                                    *)
THEOREM DrainCancelsPadding == ScheduleSpec => []DrainSparesRealWork
<1>1. Shapes /\ Lanes  BY ProblemsAssumption, ActiveAssumption, LanesAssumption DEF Shapes, Lanes
<1>2. DenseInv /\ UnevenInv => DrainSparesRealWork
  <2> SUFFICES ASSUME DenseInv, UnevenInv, NEW g \in Clusters, cl[g].st = "cancelled",
                      NEW t \in OutputTiles(prob)
               PROVE  Delinearize(prob, Unlaunched, g, 0, TRUE).tile # t
    BY DEF DrainSparesRealWork
  <2>1. prob.varlen  BY DEF DenseInv, Stages, Stage
  <2>2. Uneven /\ Lots  BY <2>1 DEF UnevenInv, Uneven
  <2>3. Real \in Nat /\ g \in Nat  BY <1>1, <2>2, UnevenGrid
  <2>4. ~(g < Real)  BY <2>2, <2>3 DEF Lots, Lot
  <2>5. PICK ok \in BOOLEAN, z \in Nat : ok = TRUE /\ z = 0  OBVIOUS
  <2>6. PICK c, d : c = Unlaunched /\ d = Delinearize(prob, c, g, z, ok)  OBVIOUS
  <2>7. DOMAIN c = ClusterFields /\ Usable(c.win, g)
    BY <2>6 DEF Unlaunched, ClusterFields, Usable
  <2>8. d.tile = NoTile
    <3>1. IF (prob.mode # "NONE" \/ c.executed = 0) /\ ok /\ g < Real
          THEN d.tile = TileAt(g) /\ d.tile # NoTile /\ Usable(d.win, g)
          ELSE d.tile = NoTile
      BY <1>1, <2>2, <2>3, <2>6, <2>7, UnevenDecoded
    <3> QED  BY <2>4, <3>1
  <2>9. t # NoTile  BY <1>1, <2>2, UnevenIndexed DEF Indexed
  <2> QED  BY <2>5, <2>6, <2>8, <2>9
<1> QED  BY <1>1, <1>2, DenseInvariance, UnevenInvariance, PTL

------------------------------------------------------------------------------
(* The k-tiles of an output tile and the splits that own them.               *)
LEMMA KShape ==
  ASSUME Shapes, prob \in Problems
  PROVE  prob.k \in Nat /\ prob.split \in Nat \ {0} /\ (prob.varlen => prob.split = 1)
<1>1. ProblemShape(prob)  BY DEF Shapes
<1> QED  BY <1>1 DEF ProblemShape

(* Every k-tile is owned by exactly one split.                               *)
LEMMA OneOwner ==
  ASSUME Shapes, prob \in Problems, NEW kt \in 0..prob.k - 1
  PROVE  \E s \in 0..prob.split - 1 :
           /\ kt \in SplitKTiles(prob, s)
           /\ \A u \in 0..prob.split - 1 : kt \in SplitKTiles(prob, u) => u = s
<1>1. PICK k \in Nat, n \in Nat \ {0} : k = prob.k /\ n = prob.split  BY KShape
<1>2. PICK q \in Nat, r \in 0..n - 1 : k = n * q + r /\ q = k \div n /\ r = k % n  BY DivMod
<1>3. kt \in Nat /\ kt < k  BY <1>1
<1> DEFINE Start(s) == s * q + (IF s < r THEN s ELSE r)
           Length(s) == IF s < r THEN q + 1 ELSE q
<1>4. ASSUME NEW s \in 0..n - 1
      PROVE  /\ Start(s) \in Nat /\ Length(s) \in Nat
             /\ kt \in SplitKTiles(prob, s) <=> Start(s) <= kt /\ kt < Start(s) + Length(s)
  <2>0. s \in Nat /\ r \in Nat  BY <1>2
  <2>1. PICK y \in Nat : y = s * q
    <3>1. s * q \in Nat  BY <1>2, <2>0, Z3
    <3> QED  BY <3>1
  <2>2. Start(s) \in Nat /\ Length(s) \in Nat  BY <1>2, <2>0, <2>1
  <2>3. RangeStart(prob, s) = Start(s)
    BY <1>1, <1>2 DEF RangeStart, Lower
  <2>4. SplitKTiles(prob, s) = Start(s)..Start(s) + (q + (IF s < r THEN 1 ELSE 0)) - 1
    BY <1>1, <1>2, <2>3 DEF SplitKTiles
  <2>5. q + (IF s < r THEN 1 ELSE 0) = Length(s)  BY <1>2
  <2>6. PICK a \in Nat, c \in Nat : a = Start(s) /\ c = Length(s)  BY <2>2
  <2>7. SplitKTiles(prob, s) = a..a + c - 1  BY <2>4, <2>5, <2>6
  <2>8. kt \in a..a + c - 1 <=> a <= kt /\ kt < a + c  BY <1>3, <2>6
  <2> QED  BY <2>2, <2>6, <2>7, <2>8
<1>5. ASSUME NEW s \in 0..n - 1, NEW u \in 0..n - 1, s < u
      PROVE  Start(s) + Length(s) <= Start(u)
  <2>0. s \in Nat /\ u \in Nat /\ r \in Nat /\ q \in Nat  BY <1>2
  <2>1. (s + 1) * q <= u * q
    <3>1. s + 1 \in Nat /\ s + 1 <= u  BY <1>5, <2>0
    <3> QED  BY <1>2, <2>0, <3>1, MulMono
  <2>2. (s + 1) * q = s * q + q  BY <2>0, Z3
  <2>3. PICK y \in Nat, z \in Nat : y = s * q /\ z = u * q
    <3>1. s * q \in Nat /\ u * q \in Nat  BY <1>2, <2>0, Z3
    <3> QED  BY <3>1
  <2> QED  BY <1>2, <1>5, <2>0, <2>1, <2>2, <2>3
<1>6. ASSUME NEW s \in 0..n - 1, NEW u \in 0..n - 1,
             kt \in SplitKTiles(prob, s), kt \in SplitKTiles(prob, u), s < u
      PROVE  FALSE
  <2>1. PICK a \in Nat, b \in Nat, c \in Nat : a = Start(s) /\ b = Length(s) /\ c = Start(u)  BY <1>4
  <2>2. kt < a + b /\ c <= kt  BY <1>4, <1>6, <2>1
  <2>3. a + b <= c  BY <1>5, <1>6, <2>1
  <2> QED  BY <1>3, <2>1, <2>2, <2>3
<1>7. \E s \in 0..n - 1 : kt \in SplitKTiles(prob, s)
  <2>1. PICK w \in Nat \ {0} : w = q + 1  BY <1>2
  <2>2. PICK rw \in Nat : rw = r * w /\ w * r = rw /\ rw = r * q + r
    <3>1. r * w \in Nat /\ w * r = r * w  BY <1>2, <2>1, Z3
    <3>2. r * (q + 1) = r * q + r  BY <1>2, Z3
    <3> QED  BY <2>1, <3>1, <3>2
  <2>3. CASE kt < rw
    <3>1. PICK s \in Nat, i \in 0..w - 1 : kt = w * s + i /\ s = kt \div w  BY <1>3, <2>1, DivMod
    <3>2. s < r
      <4>1. r \in Nat /\ kt < w * r  BY <1>2, <2>2, <2>3
      <4>2. kt \div w < r  BY <1>3, <4>1, DivBound
      <4> QED  BY <3>1, <4>2
    <3>3. PICK y \in Nat : y = s * q /\ w * s = y + s
      <4>1. s * q \in Nat  BY <1>2, <3>1, Z3
      <4>2. (q + 1) * s = s * q + s  BY <1>2, <3>1, Z3
      <4> QED  BY <2>1, <4>1, <4>2
    <3>4. s \in 0..n - 1  BY <1>2, <3>1, <3>2
    <3>5. Start(s) = y + s /\ Length(s) = w  BY <2>1, <3>2, <3>3
    <3>6. kt = y + s + i  BY <3>1, <3>3
    <3>7. y + s <= kt /\ kt < y + s + w  BY <2>1, <3>1, <3>3, <3>6
    <3> QED  BY <1>4, <3>4, <3>5, <3>7
  <2>4. CASE kt >= rw
    <3>1. PICK v \in Nat : v = kt - rw  BY <1>3, <2>2, <2>4
    <3>2. PICK e \in Nat : e = n - r  BY <1>2
    <3>3. PICK eq \in Nat : eq = e * q /\ q * e = eq /\ n * q = eq + r * q
      <4>1. (e + r) * q = e * q + r * q /\ e * q \in Nat /\ q * e = e * q  BY <1>2, <3>2, Z3
      <4>2. e + r = n  BY <1>2, <3>2
      <4> QED  BY <4>1, <4>2
    <3>4. PICK rq \in Nat : rq = r * q
      <4>1. r * q \in Nat  BY <1>2, Z3
      <4> QED  BY <4>1
    <3>5. v < q * e  BY <1>2, <1>3, <2>2, <3>1, <3>3, <3>4
    <3>6. q \in Nat \ {0}
      <4>1. q = 0 => q * e = 0  BY <3>2, Z3
      <4> QED  BY <1>2, <3>1, <3>5, <4>1
    <3>7. PICK d \in Nat, i \in 0..q - 1 : v = q * d + i /\ d = v \div q  BY <3>1, <3>6, DivMod
    <3>8. d < e
      <4>1. v \div q < e  BY <3>1, <3>2, <3>5, <3>6, DivBound
      <4> QED  BY <3>7, <4>1
    <3>9. PICK s \in 0..n - 1 : s = d + r /\ ~(s < r)  BY <1>2, <3>2, <3>7, <3>8
    <3>10. PICK dq \in Nat : dq = q * d /\ s * q = dq + rq
      <4>1. r \in Nat /\ q \in Nat /\ d \in Nat  BY <1>2, <3>7
      <4>2. (d + r) * q = q * d + r * q /\ q * d \in Nat  BY <4>1, Distribute
      <4> QED  BY <3>4, <3>9, <4>2
    <3>11. Start(s) = dq + rq + r /\ Length(s) = q  BY <3>9, <3>10
    <3>12. kt = rq + r + (dq + i)
      <4>1. rw = rq + r  BY <2>2, <3>4
      <4>2. v = dq + i  BY <3>7, <3>10
      <4>3. kt = rw + v  BY <1>3, <2>2, <3>1
      <4> QED  BY <1>2, <3>4, <3>7, <3>10, <4>1, <4>2, <4>3
    <3>13. dq + rq + r <= kt /\ kt < dq + rq + r + q
      <4>1. r \in Nat /\ i \in 0..q - 1 /\ q \in Nat  BY <1>2, <3>7
      <4> QED  BY <3>4, <3>10, <3>12, <4>1
    <3> QED  BY <1>4, <3>9, <3>11, <3>13
  <2> QED  BY <1>3, <2>2, <2>3, <2>4
<1>8. PICK s \in 0..n - 1 : kt \in SplitKTiles(prob, s)  BY <1>7
<1>9. ASSUME NEW u \in 0..n - 1, kt \in SplitKTiles(prob, u) PROVE u = s
  BY <1>6, <1>8, <1>9
<1> QED  BY <1>1, <1>8, <1>9

(* The computed tiles that fold k-tile kt into the output tile of t.        *)
FoldingIt(t, kt) ==
  {u \in BagToSet(done) :
     [u EXCEPT !.split = t.split] = t /\ kt \in SplitKTiles(prob, u.split)}

(* At the end of a dense launch one split of the tile has folded the k-tile.*)
LEMMA DenseFolds ==
  ASSUME Shapes, Dense, DenseInv, Finished,
         NEW t \in BagToSet(done), NEW kt \in 0..prob.k - 1
  PROVE  \E owner \in BagToSet(done) : FoldingIt(t, kt) = {owner}
<1>1. BagToSet(done) = OutputTiles(prob)  BY DenseOnce DEF EveryTileOnce
<1>2. \A u : u \in OutputTiles(prob) <=>
               u \in [m : 0..prob.m - 1, n : 0..prob.n - 1, split : 0..prob.split - 1, b : 0..prob.l - 1]
  BY OutputIs
<1>3. PICK s \in 0..prob.split - 1 :
        /\ kt \in SplitKTiles(prob, s)
        /\ \A u \in 0..prob.split - 1 : kt \in SplitKTiles(prob, u) => u = s
  BY OneOwner DEF Dense
<1>4. PICK v : v = [t EXCEPT !.split = s]  OBVIOUS
<1>5. t \in [m : 0..prob.m - 1, n : 0..prob.n - 1, split : 0..prob.split - 1, b : 0..prob.l - 1]
  BY <1>1, <1>2
<1>6. /\ v \in [m : 0..prob.m - 1, n : 0..prob.n - 1, split : 0..prob.split - 1, b : 0..prob.l - 1]
      /\ v.split = s /\ [v EXCEPT !.split = t.split] = t
  BY <1>4, <1>5
<1>7. v \in FoldingIt(t, kt)  BY <1>1, <1>2, <1>3, <1>6 DEF FoldingIt
<1>8. ASSUME NEW u \in FoldingIt(t, kt) PROVE u = v
  <2>1. /\ u \in [m : 0..prob.m - 1, n : 0..prob.n - 1, split : 0..prob.split - 1, b : 0..prob.l - 1]
        /\ [u EXCEPT !.split = t.split] = t /\ kt \in SplitKTiles(prob, u.split)
    BY <1>1, <1>2 DEF FoldingIt
  <2>2. u.split = s  BY <1>3, <2>1
  <2>3. u.m = t.m /\ u.n = t.n /\ u.b = t.b  BY <2>1
  <2>4. v.m = t.m /\ v.n = t.n /\ v.b = t.b  BY <1>4, <1>5
  <2> QED  BY <1>6, <2>1, <2>2, <2>3, <2>4
<1>9. FoldingIt(t, kt) = {v} /\ v \in BagToSet(done)  BY <1>7, <1>8 DEF FoldingIt
<1> QED  BY <1>9

(* The tiles of a varlen_m launch are of the one split it has.               *)
Unsplit(t) == t = [m |-> t.m, n |-> t.n, split |-> 0, b |-> t.b]
UnsplitInv ==
  /\ prob \in Problems
  /\ prob.varlen =>
       /\ next \in Nat
       /\ DOMAIN cl = Clusters /\ \A g \in Clusters : DOMAIN cl[g] = ClusterFields
       /\ \A g \in Clusters : cl[g].tile = NoTile \/ Unsplit(cl[g].tile)
       /\ \A t \in DOMAIN done : Unsplit(t)

(* A varlen_m index decodes to a tile of split 0, or to none.               *)
LEMMA DecodedUnsplit ==
  ASSUME prob.varlen, NEW c, DOMAIN c = ClusterFields, NEW x, NEW z, NEW granted,
         NEW d, d = Delinearize(prob, c, x, z, granted)
  PROVE  DOMAIN d = ClusterFields /\ (d.tile = NoTile \/ Unsplit(d.tile))
<1>1. PICK win :
        win = IF granted THEN FindBatch(prob, c.win, x) ELSE [c.win EXCEPT !.batch = prob.l]
  OBVIOUS
<1>2. DOMAIN d = ClusterFields /\ (d.tile = NoTile \/ d.tile = VarlenTile(prob, win, x))
  BY <1>1 DEF Delinearize, ClusterFields
<1>3. PICK t : t = VarlenTile(prob, win, x)  OBVIOUS
<1>4. PICK cid : cid = SwizzleCta(prob, x - win.before, win.rows)  OBVIOUS
<1>5. t = [m |-> cid.m, n |-> cid.n, split |-> 0, b |-> win.batch]
  BY <1>3, <1>4 DEF VarlenTile
<1>6. Unsplit(t)  BY <1>5 DEF Unsplit
<1> QED  BY <1>2, <1>3, <1>6

(* A cluster's step: it hands its tile in and decodes another, or neither.   *)
LEMMA UnsplitStep ==
  ASSUME UnsplitInv, prob.varlen, prob' = prob, NEW g \in Clusters, NEW d,
         cl' = [cl EXCEPT ![g] = d], DOMAIN d = ClusterFields,
         d.tile = NoTile \/ Unsplit(d.tile), next' \in Nat,
         \/ done' = done
         \/ /\ cl[g].tile # NoTile
            /\ done' = done (+) SetToBag({cl[g].tile})
  PROVE  UnsplitInv'
<1>1. Clusters' = Clusters  BY DEF Clusters
<1>2. /\ DOMAIN cl' = DOMAIN cl /\ cl'[g] = d
      /\ \A h \in Clusters : h # g => cl'[h] = cl[h]
  BY DEF UnsplitInv
<1>3. \A t \in DOMAIN done' : Unsplit(t)
  <2>1. CASE done' = done  BY <2>1 DEF UnsplitInv
  <2>2. CASE /\ cl[g].tile # NoTile
             /\ done' = done (+) SetToBag({cl[g].tile})
    <3>1. PICK t, one : t = cl[g].tile /\ one = [e \in {t} |-> 1]  OBVIOUS
    <3>2. SetToBag({t}) = one  BY <3>1 DEF SetToBag
    <3>3. done' = done (+) one  BY <2>2, <3>1, <3>2
    <3>4. DOMAIN done' = DOMAIN done \cup DOMAIN one  BY <3>3 DEF (+)
    <3>5. DOMAIN one = {t}  BY <3>1
    <3>6. Unsplit(t)  BY <2>2, <3>1 DEF UnsplitInv
    <3> QED  BY <3>4, <3>5, <3>6 DEF UnsplitInv
  <2> QED  BY <2>1, <2>2
<1>4. \A h \in Clusters :
        DOMAIN cl'[h] = ClusterFields /\ (cl'[h].tile = NoTile \/ Unsplit(cl'[h].tile))
  BY <1>2 DEF UnsplitInv
<1> QED  BY <1>1, <1>2, <1>3, <1>4 DEF UnsplitInv, NoTile

(* So does moving on to any index.                                          *)
LEMMA UnsplitMove ==
  ASSUME UnsplitInv, prob.varlen, prob' = prob, next' \in Nat, NEW g \in Clusters,
         HasTile(g), NEW c, DOMAIN c = ClusterFields, NEW x, NEW z, NEW granted,
         MoveOn(g, c, x, z, granted)
  PROVE  UnsplitInv'
<1>1. PICK b : b = [c EXCEPT !.executed = @ + 1]  OBVIOUS
<1>2. DOMAIN b = ClusterFields  BY <1>1
<1>3. PICK d : d = Delinearize(prob, b, x, z, granted)  OBVIOUS
<1>4. DOMAIN d = ClusterFields /\ (d.tile = NoTile \/ Unsplit(d.tile))
  BY <1>2, <1>3, DecodedUnsplit
<1>5. cl' = [cl EXCEPT ![g] = d] /\ done' = done (+) SetToBag({cl[g].tile})
      /\ cl[g].tile # NoTile
  BY <1>1, <1>3 DEF MoveOn, HasTile
<1> QED  BY <1>4, <1>5, UnsplitStep

(* The invariant of varlen_m launches holds.                                *)
LEMMA UnsplitInvariance == ASSUME Shapes PROVE ScheduleSpec => []UnsplitInv
<1>1. ScheduleInit => UnsplitInv
  <2> SUFFICES ASSUME ScheduleInit PROVE UnsplitInv  OBVIOUS
  <2>1. cl = [g \in Clusters |-> Unlaunched] /\ next = 0 /\ prob \in Problems
        /\ done = EmptyBag
    BY DEF ScheduleInit, Clusters
  <2>2. DOMAIN done = {}  BY <2>1 DEF EmptyBag, SetToBag
  <2> QED  BY <2>1, <2>2 DEF UnsplitInv, Unlaunched, ClusterFields
<1>2. UnsplitInv /\ [ScheduleNext]_(scheduleVars) => UnsplitInv'
  <2> SUFFICES ASSUME UnsplitInv, [ScheduleNext]_(scheduleVars) PROVE UnsplitInv'  OBVIOUS
  <2>1. prob' = prob
    BY DEF ScheduleNext, LaunchCluster, NextNone, NextStatic,
           NextDynamic, NextClc, Retire, CancelOne,
           ExitCluster, ScheduleDone, scheduleVars
  <2>2. CASE ~prob.varlen  BY <2>1, <2>2 DEF UnsplitInv
  <2>3. CASE prob.varlen
    <3>0. /\ DOMAIN cl = Clusters /\ next \in Nat
          /\ \A g \in Clusters : DOMAIN cl[g] = ClusterFields
      BY <2>3 DEF UnsplitInv
    <3>1. CASE UNCHANGED scheduleVars
      BY <3>1 DEF scheduleVars, UnsplitInv, Clusters, NoTile
    <3>2. CASE LaunchCluster
      <4>1. PICK g \in Clusters : g = next  BY <3>2 DEF LaunchCluster
      <4>2. PICK c : c = [Unlaunched EXCEPT !.st = "run", !.x = GridX(prob, g)]  OBVIOUS
      <4>3. DOMAIN c = ClusterFields  BY <4>2 DEF Unlaunched, ClusterFields
      <4>4. PICK x, z : x = GridX(prob, g) /\ z = GridZ(prob, g)  OBVIOUS
      <4>5. PICK d : d = Delinearize(prob, c, x, z, TRUE)  OBVIOUS
      <4>6. DOMAIN d = ClusterFields /\ (d.tile = NoTile \/ Unsplit(d.tile))
        BY <2>3, <4>3, <4>5, DecodedUnsplit
      <4>7. cl' = [cl EXCEPT ![g] = d] /\ next' \in Nat /\ done' = done
        BY <3>0, <3>2, <4>1, <4>2, <4>4, <4>5 DEF LaunchCluster
      <4> QED  BY <2>1, <2>3, <4>6, <4>7, UnsplitStep
    <3>3. ASSUME NEW g \in Clusters, NextNone(g) PROVE UnsplitInv'
      <4>1. PICK c, x : c = cl[g] /\ x = cl[g].x  OBVIOUS
      <4>2. HasTile(g) /\ MoveOn(g, c, x, 0, TRUE) /\ next' = next
        BY <3>3, <4>1 DEF NextNone
      <4> QED  BY <2>1, <2>3, <3>0, <4>1, <4>2, UnsplitMove
    <3>4. ASSUME NEW g \in Clusters, NextStatic(g) PROVE UnsplitInv'
      <4>1. PICK x : x = cl[g].x + GridClusters(prob)  OBVIOUS
      <4>2. PICK c : c = [cl[g] EXCEPT !.x = x]  OBVIOUS
      <4>3. HasTile(g) /\ MoveOn(g, c, x, 0, TRUE) /\ next' = next
        BY <3>4, <4>1, <4>2 DEF NextStatic
      <4>4. DOMAIN c = ClusterFields  BY <3>0, <4>2
      <4> QED  BY <2>1, <2>3, <3>0, <4>3, <4>4, UnsplitMove
    <3>5. ASSUME NEW g \in Clusters, NextDynamic(g) PROVE UnsplitInv'
      <4>1. PICK x : x = semaphore + GridClusters(prob)  OBVIOUS
      <4>2. PICK c : c = [cl[g] EXCEPT !.x = x]  OBVIOUS
      <4>3. HasTile(g) /\ MoveOn(g, c, x, 0, TRUE) /\ next' = next
        BY <3>5, <4>1, <4>2 DEF NextDynamic
      <4>4. DOMAIN c = ClusterFields  BY <3>0, <4>2
      <4> QED  BY <2>1, <2>3, <3>0, <4>3, <4>4, UnsplitMove
    <3>6. ASSUME NEW g \in Clusters, NextClc(g) PROVE UnsplitInv'
      <4>1. HasTile(g)  BY <3>6 DEF NextClc
      <4>2. CASE MoveOn(g, cl[g], cl[g].x, 0, FALSE) /\ UNCHANGED next
        <5>1. PICK c, x : c = cl[g] /\ x = cl[g].x  OBVIOUS
        <5>2. MoveOn(g, c, x, 0, FALSE)  BY <4>2, <5>1
        <5> QED  BY <2>1, <2>3, <3>0, <4>1, <4>2, <5>1, <5>2, UnsplitMove
      <4>3. CASE ~(MoveOn(g, cl[g], cl[g].x, 0, FALSE) /\ UNCHANGED next)
        <5>1. PICK x, z : x = GridX(prob, next) /\ z = GridZ(prob, next)  OBVIOUS
        <5>2. PICK c : c = [cl[g] EXCEPT !.x = x, !.executed = @ + 1]  OBVIOUS
        <5>3. PICK b : b = Delinearize(prob, c, x, z, TRUE)  OBVIOUS
        <5>4. PICK d : d = [b EXCEPT !.phantom = b.tile = NoTile]  OBVIOUS
        <5>5. /\ next' = next + 1 /\ done' = done (+) SetToBag({cl[g].tile})
              /\ cl' = [cl EXCEPT ![g] = d]
          BY <3>6, <4>3, <5>1, <5>2, <5>3, <5>4 DEF NextClc
        <5>6. DOMAIN c = ClusterFields  BY <3>0, <5>2
        <5>7. DOMAIN b = ClusterFields /\ (b.tile = NoTile \/ Unsplit(b.tile))
          BY <2>3, <5>3, <5>6, DecodedUnsplit
        <5>8. DOMAIN d = ClusterFields /\ d.tile = b.tile  BY <5>4, <5>7 DEF ClusterFields
        <5>9. next' \in Nat /\ cl[g].tile # NoTile  BY <3>0, <4>1, <5>5 DEF HasTile
        <5> QED  BY <2>1, <2>3, <5>5, <5>7, <5>8, <5>9, UnsplitStep
      <4> QED  BY <4>2, <4>3
    <3>7. ASSUME NEW g \in Clusters, Retire(g) PROVE UnsplitInv'
      <4>1. PICK d : d = [cl[g] EXCEPT !.st = "drain", !.budget = DrainBudget(prob, cl[g])]  OBVIOUS
      <4>2. cl' = [cl EXCEPT ![g] = d] /\ next' = next /\ done' = done
        BY <3>0, <3>7, <4>1 DEF Retire
      <4>3. DOMAIN d = ClusterFields /\ d.tile = cl[g].tile  BY <3>0, <4>1 DEF ClusterFields
      <4>4. d.tile = NoTile \/ Unsplit(d.tile)  BY <2>3, <4>3 DEF UnsplitInv
      <4> QED  BY <2>1, <2>3, <3>0, <4>2, <4>3, <4>4, UnsplitStep
    <3>8. ASSUME NEW g \in Clusters, CancelOne(g) PROVE UnsplitInv'
      <4>1. /\ DOMAIN cl' = DOMAIN cl /\ next' \in Nat /\ done' = done
            /\ \A h \in Clusters : DOMAIN cl'[h] = ClusterFields /\ cl'[h].tile = cl[h].tile
        BY <3>0, <3>8 DEF CancelOne, ClusterFields
      <4> QED  BY <2>1, <2>3, <4>1 DEF UnsplitInv, Clusters, NoTile
    <3>9. ASSUME NEW g \in Clusters, ExitCluster(g) PROVE UnsplitInv'
      <4>1. PICK d : d = [cl[g] EXCEPT !.st = "gone"]  OBVIOUS
      <4>2. cl' = [cl EXCEPT ![g] = d] /\ next' = next /\ done' = done
        BY <3>0, <3>9, <4>1 DEF ExitCluster
      <4>3. DOMAIN d = ClusterFields /\ d.tile = cl[g].tile  BY <3>0, <4>1 DEF ClusterFields
      <4>4. d.tile = NoTile \/ Unsplit(d.tile)  BY <2>3, <4>3 DEF UnsplitInv
      <4> QED  BY <2>1, <2>3, <3>0, <4>2, <4>3, <4>4, UnsplitStep
    <3> QED  BY <3>1, <3>2, <3>3, <3>4, <3>5, <3>6, <3>7, <3>8, <3>9 DEF ScheduleNext, ScheduleDone
  <2> QED  BY <2>2, <2>3
<1> QED  BY <1>1, <1>2, PTL DEF ScheduleSpec

(* One split: the tile itself folds the k-tile.                             *)
LEMMA UnsplitFolds ==
  ASSUME Shapes, UnsplitInv, prob.varlen,
         NEW t \in BagToSet(done), NEW kt \in 0..prob.k - 1
  PROVE  \E owner \in BagToSet(done) : FoldingIt(t, kt) = {owner}
<1>1. prob.split = 1 /\ prob \in Problems  BY KShape DEF UnsplitInv
<1>2. \A u \in BagToSet(done) : Unsplit(u)  BY DEF UnsplitInv, BagToSet
<1>3. kt \in SplitKTiles(prob, 0)
  <2>1. PICK s \in 0..1 - 1 : kt \in SplitKTiles(prob, s)  BY <1>1, OneOwner
  <2> QED  BY <2>1
<1>4. t.split = 0 /\ [t EXCEPT !.split = t.split] = t  BY <1>2 DEF Unsplit
<1>5. t \in FoldingIt(t, kt)  BY <1>3, <1>4 DEF FoldingIt
<1>6. ASSUME NEW u \in FoldingIt(t, kt) PROVE u = t
  <2>1. Unsplit(u) /\ [u EXCEPT !.split = t.split] = t  BY <1>2 DEF FoldingIt
  <2>2. u.split = 0  BY <2>1 DEF Unsplit
  <2>3. [u EXCEPT !.split = t.split] = u  BY <1>4, <2>1, <2>2 DEF Unsplit
  <2> QED  BY <2>1, <2>3
<1>7. FoldingIt(t, kt) = {t}  BY <1>5, <1>6
<1> QED  BY <1>7

(* When the launch has ended, each k-tile of an output tile was contributed  *)
(* by one split of it, no more and no fewer: the ranges of the splits, which *)
(* share out what does not divide, cover the k-tiles without overlap, and    *)
(* every split of the tile ran, also one whose range is empty.               *)
(* (get_split_k_tile_range, tile_scheduler.py, and the decode.)              *)
THEOREM EveryKTileFoldedOnce == ScheduleSpec => []KTilesFoldedOnce
<1>1. Shapes  BY ProblemsAssumption, ActiveAssumption DEF Shapes
<1>2. DenseInv /\ UnsplitInv => KTilesFoldedOnce
  <2> SUFFICES ASSUME DenseInv, UnsplitInv, Finished,
                      NEW t \in BagToSet(done), NEW kt \in 0..prob.k - 1
               PROVE  \E owner \in BagToSet(done) : FoldingIt(t, kt) = {owner}
    BY DEF KTilesFoldedOnce, FoldingIt
  <2>1. CASE prob.varlen  BY <1>1, <2>1, UnsplitFolds
  <2>2. CASE ~prob.varlen
    <3>1. Dense  BY <2>2 DEF Dense, DenseInv
    <3> QED  BY <1>1, <3>1, DenseFolds
  <2> QED  BY <2>1, <2>2
<1>3. ScheduleSpec => []DenseInv  BY <1>1, DenseInvariance
<1>4. ScheduleSpec => []UnsplitInv  BY <1>1, UnsplitInvariance
<1> QED  BY <1>2, <1>3, <1>4, PTL
=============================================================================
