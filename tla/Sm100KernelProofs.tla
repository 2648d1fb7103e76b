-------------------------- MODULE Sm100KernelProofs --------------------------
(***************************************************************************)
(* What holds of Sm100Kernel for every launch: any number of load warps,   *)
(* stages, tiles, k-tiles and subtiles, one CTA or two, TMA or cp.async    *)
(* loads, gathered rows or none, static or drawn tiles, block scaling.     *)
(*                                                                         *)
(* Everything follows from one inductive invariant, IInv.  It counts       *)
(* positions: the tile a process is at tells how often it has used each of *)
(* its rings (Places), a ring's barriers are a function of what was        *)
(* written and read (Settled, Emptying, FullAt), and the contents of the   *)
(* stages in use are those of their positions.  A process that sees a      *)
(* barrier's parity then knows how far the other side is, because the two  *)
(* are never more than a round apart.                                      *)
(***************************************************************************)
EXTENDS Sm100Kernel, FiniteSetTheorems, WellFoundedInduction, TLAPS
-----------------------------------------------------------------------------
(* Arithmetic of rings.                                                    *)

(* Division with remainder.                                                *)
LEMMA DivMod == ASSUME NEW a \in Nat, NEW b \in Nat \ {0}
  PROVE /\ a \div b \in Nat /\ a % b \in 0..b-1 /\ a = b * (a \div b) + (a % b)
BY Z3

(* A product grows with its factors.                                       *)
LEMMA MulMono == ASSUME NEW a \in Nat, NEW b \in Nat, NEW c \in Nat, a <= b
  PROVE a * c <= b * c
BY Z3

(* A number has one remainder and one quotient.                            *)
LEMMA Unique == ASSUME NEW c \in Nat \ {0}, NEW x \in 0..c-1, NEW y \in 0..c-1,
   NEW a \in Nat, NEW b \in Nat, x + a * c = y + b * c
  PROVE x = y /\ a = b
<1>1. CASE a < b
  <2>1. a + 1 <= b BY <1>1
  <2>2. (a + 1) * c <= b * c BY <2>1, MulMono
  <2>3. (a + 1) * c = a * c + c BY Z3
  <2> QED BY <2>2, <2>3, Z3
<1>2. CASE b < a
  <2>2. (b + 1) * c <= a * c BY <1>2, MulMono
  <2>3. (b + 1) * c = b * c + c BY Z3
  <2> QED BY <2>2, <2>3, Z3
<1>3. CASE a = b BY <1>3
<1> QED BY <1>1, <1>2, <1>3

(* The parity of the round of position n.                                  *)
Turn(n, d) == (n \div d) % 2

(* A round later a position is in the same stage with the other parity,    *)
(* and two positions of a stage are a round apart.                         *)
LEMMA Lap ==
  ASSUME NEW d \in Nat \ {0}, NEW n \in Nat
  PROVE /\ n % d \in 0..d-1 /\ Turn(n, d) \in {0, 1}
        /\ (n + d) % d = n % d /\ Turn(n + d, d) = 1 - Turn(n, d)
        /\ \A m \in Nat : m % d = n % d /\ m > n => m >= n + d
        /\ n < d => n % d = n /\ Turn(n, d) = 0
<1> DEFINE q == n \div d
           r == n % d
           i == (n + d) \div d
           j == (n + d) % d
<1>1. q \in Nat /\ r \in 0..d-1 /\ n = d * q + r BY DivMod
<1>2. i \in Nat /\ j \in 0..d-1 /\ n + d = d * i + j
  <2>1. n + d \in Nat OBVIOUS
  <2> QED BY <2>1, DivMod
<1> HIDE DEF q, r, i, j
<1>3. d * q = q * d /\ d * i = i * d /\ (q + 1) * d = q * d + d /\ q * d \in Nat /\ i * d \in Nat
  BY <1>1, <1>2, Z3
<1>4. r + (q + 1) * d = j + i * d BY <1>1, <1>2, <1>3
<1>5. r = j /\ q + 1 = i BY <1>1, <1>2, <1>4, Unique
<1>6. ASSUME NEW m \in Nat, m % d = r, m > n PROVE m >= n + d
  <2> DEFINE e == m \div d
  <2>1. e \in Nat /\ m = d * e + r BY <1>6, DivMod
  <2> HIDE DEF e
  <2>2. d * e = e * d /\ e * d \in Nat BY <2>1, Z3
  <2>3. ~(e <= q)
    <3>1. SUFFICES ASSUME e <= q PROVE FALSE OBVIOUS
    <3>2. e * d <= q * d BY <1>1, <2>1, <3>1, MulMono
    <3> QED BY <1>1, <1>3, <1>6, <2>1, <2>2, <3>2
  <2>4. q + 1 <= e BY <1>1, <2>1, <2>3
  <2>5. (q + 1) * d <= e * d BY <1>1, <2>1, <2>4, MulMono
  <2> QED BY <1>1, <1>3, <2>1, <2>2, <2>5
<1>7. ASSUME n < d PROVE r = n /\ q = 0
  <2>1. 0 * d = 0 BY Z3
  <2>2. n + 0 * d = r + q * d BY <1>1, <1>3, <2>1
  <2>3. n \in 0..d-1 BY <1>7
  <2> QED BY <1>1, <2>2, <2>3, Unique
<1>8. q % 2 \in {0, 1} /\ (q + 1) % 2 = 1 - (q % 2) /\ (q = 0 => q % 2 = 0) BY <1>1
<1>9. Turn(n, d) = q % 2 /\ Turn(n + d, d) = i % 2 BY DEF Turn, q, i
<1> QED BY <1>1, <1>5, <1>6, <1>7, <1>8, <1>9 DEF r, j

(* Positions less than a round apart are in stages of their own.           *)
LEMMA Apart ==
  ASSUME NEW d \in Nat \ {0}, NEW m \in Nat, NEW p \in m..m+d-1, NEW q \in m..m+d-1, p # q
  PROVE  p % d # q % d
<1>1. p \in Nat /\ q \in Nat OBVIOUS
<1>2. /\ p % d = q % d /\ p > q => p >= q + d
      /\ q % d = p % d /\ q > p => q >= p + d
  BY <1>1, Lap
<1>3. p < q + d /\ q < p + d OBVIOUS
<1> QED BY <1>1, <1>2, <1>3

(* A nonempty set of naturals has a least element.                         *)
LEMMA Least == ASSUME NEW T \in SUBSET Nat, T # {} PROVE \E x \in T : \A y \in T : x <= y
<1> DEFINE R == {ss \in Nat \X Nat : ss[1] < ss[2]}
<1>1. R = OpToRel(<, Nat) BY DEF OpToRel
<1>2. IsWellFoundedOn(R, Nat) BY <1>1, NatLessThanWellFounded
<1>3. \A a, b \in Nat : a < b => <<a, b>> \in R OBVIOUS
<1> HIDE DEF R
<1>4. PICK x \in T : \A y \in T : ~(<<y, x>> \in R) BY <1>2, WFMin
<1>5. \A y \in T : x <= y
  <2> TAKE y \in T
  <2>1. x \in Nat /\ y \in Nat OBVIOUS
  <2>2. ~(y < x) BY <2>1, <1>3, <1>4
  <2> QED BY <2>1, <2>2
<1> QED BY <1>5

-----------------------------------------------------------------------------
(* Sums over the tiles before a tile.                                      *)
Sums(f, n) ==
  {b \in [1..n + 1 -> Nat] :
     /\ b[1] = 0 /\ \A t \in 1..n : b[t + 1] = b[t] + f[t]
     /\ \A t \in 1..n, u \in 1..n + 1 : t < u => b[t] + f[t] <= b[u]}

(* Such sums exist for every list of counts.                               *)
LEMMA SumsExist == ASSUME NEW n \in Nat, NEW f \in [1..n -> Nat] PROVE Sums(f, n) # {}
<1> DEFINE T == {m \in 0..n : Sums(f, m) = {}}
<1>1. SUFFICES ASSUME T # {} PROVE FALSE OBVIOUS
<1>2. T \in SUBSET Nat OBVIOUS
<1> HIDE DEF T
<1>3. PICK m \in T : \A y \in T : m <= y BY <1>1, <1>2, Least
<1>4. m \in 0..n /\ Sums(f, m) = {} BY <1>3 DEF T
<1>5. m # 0
  <2>1. SUFFICES ASSUME m = 0 PROVE FALSE OBVIOUS
  <2> DEFINE b == [t \in 1..1 |-> 0]
  <2>2. b \in Sums(f, 0) BY DEF Sums
  <2> QED BY <1>4, <2>1, <2>2
<1>6. PICK k \in Nat : m = k + 1 /\ k \in 0..n
  <2>1. m - 1 \in Nat /\ m - 1 \in 0..n /\ m = (m - 1) + 1 BY <1>4, <1>5
  <2> QED BY <2>1
<1>7. k \notin T BY <1>3, <1>6
<1>8. PICK b : b \in Sums(f, k) BY <1>6, <1>7 DEF T
<1>9. /\ b \in [1..k + 1 -> Nat] /\ b[1] = 0 /\ \A t \in 1..k : b[t + 1] = b[t] + f[t]
      /\ \A t \in 1..k, u \in 1..k + 1 : t < u => b[t] + f[t] <= b[u]
  BY <1>8 DEF Sums
<1>10. \A t \in 1..k+1 : f[t] \in Nat BY <1>4, <1>6
<1> DEFINE g == [t \in 1..k + 2 |-> IF t = k + 2 THEN b[k + 1] + f[k + 1] ELSE b[t]]
<1>11. g \in [1..k + 2 -> Nat]
  <2>1. b[k + 1] + f[k + 1] \in Nat BY <1>6, <1>9, <1>10
  <2>2. \A t \in 1..k + 2 : t # k + 2 => b[t] \in Nat BY <1>6, <1>9
  <2> QED BY <2>1, <2>2
<1>12. \A t \in 1..k + 1 : g[t] = b[t] BY <1>6
<1>13. g[k + 2] = b[k + 1] + f[k + 1] BY <1>6
<1> HIDE DEF g
<1>14. g[1] = 0 BY <1>6, <1>9, <1>12
<1>15. \A t \in 1..k + 1 : g[t + 1] = g[t] + f[t]
  <2> TAKE t \in 1..k + 1
  <2>1. CASE t = k + 1 BY <1>6, <1>12, <1>13, <2>1
  <2>2. CASE t \in 1..k BY <1>6, <1>9, <1>12, <2>2
  <2> QED BY <1>6, <2>1, <2>2
<1>16. ASSUME NEW t \in 1..k + 1, NEW u \in 1..k + 2, t < u PROVE g[t] + f[t] <= g[u]
  <2>1. CASE u = k + 2 /\ t = k + 1
    <3>1. b[k + 1] \in Nat /\ f[k + 1] \in Nat BY <1>6, <1>9, <1>10
    <3> QED BY <1>6, <1>12, <1>13, <2>1, <3>1
  <2>2. CASE u = k + 2 /\ t \in 1..k
    <3>1. b[t] + f[t] <= b[k + 1] BY <1>6, <1>9, <2>2
    <3>2. b[t] \in Nat /\ f[t] \in Nat /\ b[k + 1] \in Nat /\ f[k + 1] \in Nat BY <1>6, <1>9, <1>10, <2>2
    <3>3. g[t] = b[t] /\ g[u] = b[k + 1] + f[k + 1] BY <1>12, <1>13, <2>2
    <3> QED BY <3>1, <3>2, <3>3
  <2>3. CASE u \in 1..k + 1
    <3>1. t \in 1..k BY <1>6, <1>16, <2>3
    <3>2. g[t] = b[t] /\ g[u] = b[u] BY <1>12, <2>3
    <3> QED BY <1>9, <1>16, <2>3, <3>1, <3>2
  <2>4. u = k + 2 \/ u \in 1..k + 1 BY <1>6
  <2>5. t = k + 1 \/ t \in 1..k BY <1>6
  <2> QED BY <2>1, <2>2, <2>3, <2>4, <2>5
<1>17. k + 2 = m + 1 /\ k + 1 = m BY <1>6
<1>18. g \in Sums(f, m) BY <1>11, <1>14, <1>15, <1>16, <1>17 DEF Sums
<1> QED BY <1>4, <1>18
-----------------------------------------------------------------------------
(* Barriers of a ring.                                                     *)
Bar == [parity : {0, 1}, pending : Int, tx : Int]
State(y, p, x) == [parity |-> y, pending |-> p, tx |-> x]

(* What a hit leaves of a barrier: the next round's when nothing is        *)
(* pending any more.                                                       *)
LEMMA HitIs ==
  ASSUME NEW y \in {0, 1}, NEW p \in Int, NEW x \in Int, NEW count, NEW a \in Int, NEW z \in Int,
         NEW b, b = State(y, p, x)
  PROVE  Hit(b, count, a, z) =
           IF p - a = 0 /\ x + z = 0 THEN State(1 - y, count, 0) ELSE State(y, p - a, x + z)
<1>1. PICK u : u = p - a OBVIOUS
<1>2. PICK v : v = x + z OBVIOUS
<1>3. PICK f : f = 1 - y OBVIOUS
<1>4. [b EXCEPT !.pending = @ - a, !.tx = @ + z] = State(y, u, v)
  <2>1. b.pending - a = u /\ b.tx + z = v BY <1>1, <1>2 DEF State
  <2>2. PICK s : s = [b EXCEPT !.pending = u, !.tx = v] OBVIOUS
  <2>3. DOMAIN s = {"parity", "pending", "tx"} /\ s.parity = y /\ s.pending = u /\ s.tx = v
    BY <2>2 DEF State
  <2>4. s = State(y, u, v) BY <2>2, <2>3 DEF State
  <2>5. [b EXCEPT !.pending = @ - a, !.tx = @ + z] = [b EXCEPT !.pending = u, !.tx = v] BY <2>1
  <2> QED BY <2>2, <2>4, <2>5
<1>5. [Fresh(count) EXCEPT !.parity = 1 - b.parity] = State(f, count, 0)
  <2>1. 1 - b.parity = f BY <1>3 DEF State
  <2>2. PICK s : s = [Fresh(count) EXCEPT !.parity = f] OBVIOUS
  <2>3. DOMAIN s = {"parity", "pending", "tx"} /\ s.parity = f /\ s.pending = count /\ s.tx = 0
    BY <2>2 DEF Fresh
  <2>4. s = State(f, count, 0) BY <2>2, <2>3 DEF Fresh, State
  <2> QED BY <2>1, <2>2, <2>4
<1> DEFINE h == State(y, u, v)
<1>6. h.pending = u /\ h.tx = v BY DEF State
<1> HIDE DEF h
<1>7. Hit(b, count, a, z) = IF u = 0 /\ v = 0 THEN State(f, count, 0) ELSE h
  <2>1. [b EXCEPT !.pending = @ - a, !.tx = @ + z] = h BY <1>4 DEF h
  <2> QED BY <2>1, <1>5, <1>6 DEF Hit
<1> QED BY <1>1, <1>2, <1>3, <1>7 DEF h

(* The stage and round of a position.                                      *)
LEMMA StageIs ==
  ASSUME NEW d \in Nat \ {0}, NEW bars, DOMAIN bars = 0..d-1, NEW n \in Nat
  PROVE  /\ Depth(bars) = d /\ Stage(bars, n) = n % d /\ n % d \in 0..d-1
         /\ IsFull(bars, n) <=> bars[n % d].parity # Turn(n, d)
         /\ IsFree(bars, n) <=> bars[n % d].parity = Turn(n, d)
         /\ \A count : Arrive(bars, n, count) = [bars EXCEPT ![n % d] = Hit(bars[n % d], count, 1, 0)]
<1>1. Cardinality(0..d-1) = d BY FS_Interval
<1>2. Depth(bars) = d BY <1>1 DEF Depth
<1>3. Stage(bars, n) = n % d /\ n % d \in 0..d-1 BY <1>2, Lap DEF Stage
<1>4. Round(bars, n) = Turn(n, d) BY <1>2 DEF Round, Turn
<1> QED BY <1>2, <1>3, <1>4 DEF IsFull, IsFree, Arrive

(* Barriers of one arrival of which m positions have completed.            *)
Settled(bars, m, d) ==
  /\ bars \in [0..d-1 -> Bar]
  /\ \A q \in m..m+d-1 : bars[q % d] = State(Turn(q, d), 1, 0)

(* At the start no position has completed.                                 *)
LEMMA SettledInit == ASSUME NEW d \in Nat PROVE Settled(Bars(d, 1), 0, d)
<1>1. Fresh(1) = State(0, 1, 0) /\ State(0, 1, 0) \in Bar BY DEF Fresh, State, Bar
<1>2. Bars(d, 1) \in [0..d-1 -> Bar] /\ \A s \in 0..d-1 : Bars(d, 1)[s] = State(0, 1, 0) BY <1>1 DEF Bars
<1>3. ASSUME NEW q \in 0..0+d-1 PROVE Bars(d, 1)[q % d] = State(Turn(q, d), 1, 0)
  <2>1. d \in Nat \ {0} /\ q \in Nat /\ q < d BY <1>3
  <2>2. q % d = q /\ Turn(q, d) = 0 BY <2>1, Lap
  <2> QED BY <1>2, <2>2
<1> QED BY <1>2, <1>3 DEF Settled

(* An arrival completes the next position.                                 *)
LEMMA SettledArrive ==
  ASSUME NEW d \in Nat \ {0}, NEW m \in Nat, NEW bars, Settled(bars, m, d)
  PROVE  Settled(Arrive(bars, m, 1), m + 1, d)
<1>1. bars \in [0..d-1 -> Bar] /\ DOMAIN bars = 0..d-1 BY DEF Settled
<1>2. /\ m % d \in 0..d-1 /\ Turn(m, d) \in {0, 1}
      /\ (m + d) % d = m % d /\ Turn(m + d, d) = 1 - Turn(m, d) BY Lap
<1>3. bars[m % d] = State(Turn(m, d), 1, 0)
  <2>1. m \in m..m + d - 1 OBVIOUS
  <2>2. \A q \in m..m + d - 1 : bars[q % d] = State(Turn(q, d), 1, 0) BY DEF Settled
  <2> QED BY <2>1, <2>2
<1>4. Hit(bars[m % d], 1, 1, 0) = State(Turn(m + d, d), 1, 0)
  <2>1. Hit(bars[m % d], 1, 1, 0) = IF 1 - 1 = 0 /\ 0 + 0 = 0 THEN State(1 - Turn(m, d), 1, 0) ELSE State(Turn(m, d), 1 - 1, 0 + 0)
    BY <1>2, <1>3, HitIs
  <2>2. Turn(m + d, d) = 1 - Turn(m, d) BY <1>2
  <2>3. Hit(bars[m % d], 1, 1, 0) = State(1 - Turn(m, d), 1, 0) BY <2>1
  <2> QED BY <2>2, <2>3
<1>5. Arrive(bars, m, 1) = [bars EXCEPT ![m % d] = State(Turn(m + d, d), 1, 0)]
  <2>1. Arrive(bars, m, 1) = [bars EXCEPT ![m % d] = Hit(bars[m % d], 1, 1, 0)] BY <1>1, StageIs
  <2> QED BY <1>4, <2>1
<1>6. State(Turn(m + d, d), 1, 0) \in Bar BY <1>2 DEF State, Bar
<1>7. ASSUME NEW q \in m+1..m+1+d-1 PROVE Arrive(bars, m, 1)[q % d] = State(Turn(q, d), 1, 0)
  <2>1. CASE q = m + d BY <1>1, <1>2, <1>5, <2>1
  <2>2. CASE q # m + d
    <3>1. q \in m..m+d-1 /\ m \in m..m+d-1 /\ q # m /\ q \in Nat BY <1>7, <2>2
    <3>2. q % d # m % d BY <3>1, Apart
    <3>3. q % d \in 0..d-1 BY <3>1, Lap
    <3> QED BY <1>1, <1>5, <3>1, <3>2, <3>3 DEF Settled
  <2> QED BY <2>1, <2>2
<1> QED BY <1>1, <1>5, <1>6, <1>7 DEF Settled

(* What a process sees of them that is at most a round away.               *)
LEMMA SettledSees ==
  ASSUME NEW d \in Nat \ {0}, NEW m \in Nat, NEW bars, Settled(bars, m, d), NEW n \in Nat
  PROVE  /\ m <= n + d /\ n < m + d => (IsFull(bars, n) <=> n < m)
         /\ m <= n /\ n <= m + d => (IsFree(bars, n) <=> n < m + d)
<1>1. DOMAIN bars = 0..d-1 BY DEF Settled
<1>2. /\ n % d \in 0..d-1 /\ Turn(n, d) \in {0, 1}
      /\ (n + d) % d = n % d /\ Turn(n + d, d) = 1 - Turn(n, d) BY Lap
<1>3. /\ IsFull(bars, n) <=> bars[n % d].parity # Turn(n, d)
      /\ IsFree(bars, n) <=> bars[n % d].parity = Turn(n, d) BY <1>1, StageIs
<1>4. ASSUME NEW q \in m..m+d-1 PROVE bars[q % d].parity = Turn(q, d)
  <2>1. bars[q % d] = State(Turn(q, d), 1, 0) BY DEF Settled
  <2> QED BY <2>1 DEF State
<1>5. n \in m..m+d-1 => bars[n % d].parity = Turn(n, d) BY <1>4
<1>6. n + d \in m..m+d-1 => bars[n % d].parity = 1 - Turn(n, d)
  <2> SUFFICES ASSUME n + d \in m..m+d-1 PROVE bars[n % d].parity = 1 - Turn(n, d) OBVIOUS
  <2>1. bars[(n + d) % d].parity = Turn(n + d, d) BY <1>4
  <2> QED BY <1>2, <2>1
<1>7. n = m + d => bars[n % d].parity = 1 - Turn(n, d)
  <2> SUFFICES ASSUME n = m + d PROVE bars[n % d].parity = 1 - Turn(n, d) OBVIOUS
  <2>1. bars[m % d].parity = Turn(m, d) BY <1>4
  <2>2. (m + d) % d = m % d /\ Turn(m + d, d) = 1 - Turn(m, d) /\ Turn(m, d) \in {0, 1} BY Lap
  <2> QED BY <2>1, <2>2
<1>8. Turn(n, d) # 1 - Turn(n, d) BY <1>2
<1>9. m <= n + d /\ n < m + d => (n < m /\ n + d \in m..m+d-1) \/ (~(n < m) /\ n \in m..m+d-1) OBVIOUS
<1>10. m <= n /\ n <= m + d => (n < m + d /\ n \in m..m+d-1) \/ (~(n < m + d) /\ n = m + d) OBVIOUS
<1> QED BY <1>3, <1>5, <1>6, <1>7, <1>8, <1>9, <1>10

-----------------------------------------------------------------------------
(* The empty barriers of a ring with w positions written and the readers   *)
(* of R, who have read r of them each: what position q waits for.          *)
Late(R, r, d, q) == {x \in R : r[x] + d <= q}
EmptyAt(R, r, d, q) ==
  IF Late(R, r, d, q) = {} THEN State(Turn(q, d), Cardinality(R), 0)
  ELSE State(1 - Turn(q, d), Cardinality(Late(R, r, d, q)), 0)
Emptying(bars, R, r, w, d) ==
  /\ bars \in [0..d-1 -> Bar]
  /\ \A q \in w..w+d-1 : bars[q % d] = EmptyAt(R, r, d, q)
Within(R, r, w, d) == \A x \in R : r[x] \in Nat /\ r[x] <= w /\ w <= r[x] + d

(* At the start nothing is written or read.                                *)
LEMMA EmptyingInit ==
  ASSUME NEW d \in Nat, NEW R, IsFiniteSet(R), NEW r, \A x \in R : r[x] = 0
  PROVE  Emptying(Bars(d, Cardinality(R)), R, r, 0, d) /\ Within(R, r, 0, d)
<1>0. Cardinality(R) \in Nat BY FS_CardinalityType
<1> DEFINE c == Cardinality(R)
<1> HIDE DEF c
<1>1. Fresh(c) = State(0, c, 0) /\ State(0, c, 0) \in Bar BY <1>0 DEF Fresh, State, Bar, c
<1>2. Bars(d, c) \in [0..d-1 -> Bar] /\ \A s \in 0..d-1 : Bars(d, c)[s] = State(0, c, 0) BY <1>1 DEF Bars
<1>3. ASSUME NEW q \in 0..0+d-1 PROVE Bars(d, c)[q % d] = EmptyAt(R, r, d, q)
  <2>1. d \in Nat \ {0} /\ q \in Nat /\ q < d BY <1>3
  <2>2. q % d = q /\ Turn(q, d) = 0 BY <2>1, Lap
  <2>3. Late(R, r, d, q) = {} BY <2>1 DEF Late
  <2> QED BY <1>2, <2>2, <2>3 DEF EmptyAt, c
<1> QED BY <1>2, <1>3 DEF Emptying, Within, c

(* The writer's position: it is free when every reader has come round.     *)
LEMMA EmptyingSees ==
  ASSUME NEW d \in Nat \ {0}, NEW w \in Nat, NEW R, NEW r, NEW bars, Emptying(bars, R, r, w, d),
         Within(R, r, w, d)
  PROVE  IsFree(bars, w) => \A x \in R : w + 1 <= r[x] + d
<1>1. DOMAIN bars = 0..d-1 BY DEF Emptying
<1>2. Turn(w, d) \in {0, 1} BY Lap
<1>3. bars[w % d] = EmptyAt(R, r, d, w) BY DEF Emptying
<1>4. IsFree(bars, w) <=> bars[w % d].parity = Turn(w, d) BY <1>1, StageIs
<1>5. IsFree(bars, w) => Late(R, r, d, w) = {}
  <2>1. Late(R, r, d, w) # {} => EmptyAt(R, r, d, w).parity = 1 - Turn(w, d) BY DEF EmptyAt, State
  <2> QED BY <1>2, <1>3, <1>4, <2>1
<1>6. \A x \in R : x \notin Late(R, r, d, w) => ~(r[x] + d <= w) BY DEF Late
<1> QED BY <1>5, <1>6 DEF Within

(* It writes there.                                                        *)
LEMMA EmptyingWrite ==
  ASSUME NEW d \in Nat \ {0}, NEW w \in Nat, NEW R, R # {}, NEW r, NEW bars, Emptying(bars, R, r, w, d),
         Within(R, r, w, d), \A x \in R : w + 1 <= r[x] + d
  PROVE  Emptying(bars, R, r, w + 1, d) /\ Within(R, r, w + 1, d)
<1>1. bars \in [0..d-1 -> Bar] BY DEF Emptying
<1>2. /\ w % d \in 0..d-1 /\ Turn(w, d) \in {0, 1}
      /\ (w + d) % d = w % d /\ Turn(w + d, d) = 1 - Turn(w, d) BY Lap
<1>3. Late(R, r, d, w) = {} BY DEF Late, Within
<1>4. bars[w % d] = State(Turn(w, d), Cardinality(R), 0) BY <1>3 DEF Emptying, EmptyAt
<1>5. Late(R, r, d, w + d) = R BY DEF Late, Within
<1>6. EmptyAt(R, r, d, w + d) = State(Turn(w, d), Cardinality(R), 0)
  <2>1. 1 - Turn(w + d, d) = Turn(w, d) BY <1>2
  <2> QED BY <1>5, <2>1 DEF EmptyAt
<1>7. ASSUME NEW q \in w+1..w+1+d-1 PROVE bars[q % d] = EmptyAt(R, r, d, q)
  <2>1. CASE q = w + d BY <1>2, <1>4, <1>6, <2>1
  <2>2. CASE q # w + d
    <3>1. q \in w..w+d-1 BY <1>7, <2>2
    <3> QED BY <3>1 DEF Emptying
  <2> QED BY <2>1, <2>2
<1>8. Emptying(bars, R, r, w + 1, d) BY <1>1, <1>7 DEF Emptying
<1>9. Within(R, r, w + 1, d) BY DEF Within
<1> QED BY <1>8, <1>9

(* A reader has read its position: it arrives, with all or last.           *)
LEMMA EmptyingRead ==
  ASSUME NEW d \in Nat \ {0}, NEW w \in Nat, NEW R, IsFiniteSet(R), NEW r, NEW bars,
         Emptying(bars, R, r, w, d), Within(R, r, w, d), NEW y \in R, r[y] < w,
         NEW s, s[y] = r[y] + 1, \A x \in R : x # y => s[x] = r[x]
  PROVE  Emptying(Arrive(bars, r[y], Cardinality(R)), R, s, w, d) /\ Within(R, s, w, d)
<1>1. bars \in [0..d-1 -> Bar] /\ DOMAIN bars = 0..d-1 BY DEF Emptying
<1>2. PICK n \in Nat : n = r[y] BY DEF Within
<1>3. /\ n % d \in 0..d-1 /\ Turn(n, d) \in {0, 1}
      /\ (n + d) % d = n % d /\ Turn(n + d, d) = 1 - Turn(n, d) BY Lap
<1>4. n < w /\ w <= n + d /\ n + d \in w..w+d-1 BY <1>2 DEF Within
<1> DEFINE L == Late(R, r, d, n + d)
           M == Late(R, s, d, n + d)
           c == Cardinality(R)
<1>5. \A x \in R : r[x] \in Nat BY DEF Within
<1>6. y \in L /\ L \subseteq R BY <1>2 DEF Late
<1>7. M = L \ {y} BY <1>2, <1>5 DEF Late
<1>8. IsFiniteSet(L) /\ IsFiniteSet(M) BY <1>6, <1>7, FS_Subset
<1>9. Cardinality(L) \in Nat /\ Cardinality(M) = Cardinality(L) - 1 /\ (Cardinality(M) = 0 <=> M = {})
  <2>1. Cardinality(L) \in Nat BY <1>8, FS_CardinalityType
  <2>2. Cardinality(L \ {y}) = Cardinality(L) - 1 BY <1>6, <1>8, FS_RemoveElement
  <2>3. Cardinality(M) = 0 <=> M = {} BY <1>8, FS_EmptySet
  <2> QED BY <1>7, <2>1, <2>2, <2>3
<1>10. c \in Nat BY FS_CardinalityType
<1>11. bars[n % d] = State(1 - Turn(n + d, d), Cardinality(L), 0)
  <2>1. bars[(n + d) % d] = EmptyAt(R, r, d, n + d) BY <1>4 DEF Emptying
  <2> QED BY <1>3, <1>6, <2>1 DEF EmptyAt
<1> HIDE DEF L, M, c
<1>12. 1 - Turn(n + d, d) = Turn(n, d) /\ 1 - Turn(n, d) = Turn(n + d, d) BY <1>3
<1>13. Hit(bars[n % d], c, 1, 0) =
         IF Cardinality(L) - 1 = 0 /\ 0 + 0 = 0 THEN State(1 - Turn(n, d), c, 0)
         ELSE State(Turn(n, d), Cardinality(L) - 1, 0 + 0)
  BY <1>3, <1>9, <1>11, <1>12, HitIs
<1>14. Hit(bars[n % d], c, 1, 0) = EmptyAt(R, s, d, n + d)
  <2>1. EmptyAt(R, s, d, n + d) = IF M = {} THEN State(Turn(n + d, d), c, 0)
          ELSE State(1 - Turn(n + d, d), Cardinality(M), 0) BY DEF EmptyAt, M, c
  <2>2. CASE M = {} BY <1>9, <1>12, <1>13, <2>1, <2>2
  <2>3. CASE M # {} BY <1>9, <1>12, <1>13, <2>1, <2>3
  <2> QED BY <2>2, <2>3
<1>15. PICK a : a = Arrive(bars, n, c) OBVIOUS
<1>16. a = [bars EXCEPT ![n % d] = EmptyAt(R, s, d, n + d)]
  <2>1. DOMAIN bars = 0..d-1 BY <1>1
  <2>2. \A k : Arrive(bars, n, k) = [bars EXCEPT ![n % d] = Hit(bars[n % d], k, 1, 0)] BY <2>1, StageIs
  <2> QED BY <1>14, <1>15, <2>2
<1>17. EmptyAt(R, s, d, n + d) \in Bar
  <2>1. Cardinality(M) \in Int BY <1>8, FS_CardinalityType
  <2>2. Turn(n + d, d) \in {0, 1} BY <1>3
  <2> QED BY <1>10, <2>1, <2>2 DEF EmptyAt, State, Bar, M, c
<1>18. a \in [0..d-1 -> Bar] BY <1>1, <1>16, <1>17
<1>19. ASSUME NEW q \in w..w+d-1 PROVE a[q % d] = EmptyAt(R, s, d, q)
  <2>1. CASE q = n + d BY <1>1, <1>3, <1>16, <2>1
  <2>2. CASE q # n + d
    <3>1. q % d # (n + d) % d BY <1>4, <2>2, Apart
    <3>2. q \in Nat /\ q % d \in 0..d-1
      <4>1. q \in Nat BY <1>4
      <4> QED BY <4>1, Lap
    <3>3. a[q % d] = bars[q % d] BY <1>1, <1>3, <1>16, <3>1, <3>2
    <3>4. Late(R, s, d, q) = Late(R, r, d, q)
      <4>1. \A x \in R : s[x] + d <= q <=> r[x] + d <= q BY <1>2, <1>5, <2>2, <3>2
      <4> QED BY <4>1 DEF Late
    <3> QED BY <3>3, <3>4 DEF Emptying, EmptyAt
  <2> QED BY <2>1, <2>2
<1>20. Emptying(a, R, s, w, d) BY <1>18, <1>19 DEF Emptying
<1>21. Within(R, s, w, d)
  <2> SUFFICES ASSUME NEW x \in R PROVE s[x] \in Nat /\ s[x] <= w /\ w <= s[x] + d BY DEF Within
  <2>1. CASE x = y BY <1>2, <1>4, <2>1
  <2>2. CASE x # y BY <2>2 DEF Within
  <2> QED BY <2>1, <2>2
<1> QED BY <1>2, <1>15, <1>20, <1>21 DEF c
-----------------------------------------------------------------------------
(* What the processes are, in a launch l.                                  *)
Pair == Nat \X Nat
Count(l) == Len(l.work)
KOf(l, t) == l.work[t].k
COf(l, t) == l.cStages > 0 /\ l.work[t].epilogue
TilesOf(l) == 1..Count(l) + 1
LoadRec(l) ==
  [at : {"commit", "index", "fetch", "signal", "read", "tail", "done"},
   t : TilesOf(l), k : Nat, n : Nat, i : Nat, got : Pair]
IndexRec(l) == [at : {"put", "done"}, t : TilesOf(l), k : Nat, i : Nat]
MmaRec(l) == [at : {"acquire", "k", "read", "tail", "done"}, t : TilesOf(l), k : Nat, n : Nat, a : Nat]
EpiRec(l) ==
  [at : {"peek", "acc", "c", "done"}, t : TilesOf(l), next : TilesOf(l), sub : 0..l.subtiles - 1, a : Nat, r : Nat]
CLoadRec(l) == [at : {"begin", "c", "tail", "done"}, t : TilesOf(l), sub : Nat, r : Nat]
SchedRec(l) == [at : {"sync", "synced", "write", "read", "tail", "done"}, t : TilesOf(l), gen : {0, 1}]
RingOf(d, D) == [data : [0..d - 1 -> D], full : [0..d - 1 -> Bar], empty : [0..d - 1 -> Bar]]
Types ==
  /\ launch \in Launches
  /\ load \in [Ctas -> [Loads -> LoadRec(launch)]]
  /\ index \in [Ctas -> IndexRec(launch)] /\ mma \in [Ctas -> MmaRec(launch)]
  /\ epi \in [Ctas -> EpiRec(launch)] /\ cload \in [Ctas -> CLoadRec(launch)]
  /\ sched \in [Ctas -> SchedRec(launch)]
RingTypes ==
  /\ ab \in [Ctas -> RingOf(AbStages, [0..launch.loads -> Pair])]
  /\ idx \in [Ctas -> RingOf(IdxStages(launch), Pair)]
  /\ cring \in [Ctas -> RingOf(launch.cStages, Pair)]
  /\ slot \in RingOf(SlotStages(launch), Nat)
  /\ acc \in [full : [Ctas -> [0..AccStages(launch) - 1 -> Bar]], empty : [0..AccStages(launch) - 1 -> Bar]]
  /\ tmem \in [Ctas -> [{0, 1} -> [Subs -> Pair]]]
  /\ gate \in [arrived : {0, 1}, gen : {0, 1}]
  /\ met \in [Ctas -> Nat]

(* The k-tiles, and the subtiles of C, of the tiles before a tile.         *)
SumsBefore(f, n) == CHOOSE b : b \in Sums(f, n)
KBefore(l) == SumsBefore([t \in 1..Count(l) |-> KOf(l, t)], Count(l))
CBefore(l) == SumsBefore([t \in 1..Count(l) |-> IF COf(l, t) THEN l.subtiles ELSE 0], Count(l))

(* The k-tile at a position of the A/B ring, and what an index ring holds. *)
KTilesAt(l, q) ==
  {x \in Pair : x[1] \in 1..Count(l) /\ x[2] < KOf(l, x[1]) /\ q = KBefore(l)[x[1]] + x[2]}
At(l, q) == IF KTilesAt(l, q) = {} THEN Nothing ELSE CHOOSE x \in KTilesAt(l, q) : TRUE
EntriesOf(l, t) == IF l.gather = "m" THEN 1 ELSE KOf(l, t)
IBefore(l, t) == IF l.gather = "m" THEN t - 1 ELSE KBefore(l)[t]
IndexAt(l, q) == IF l.gather = "m" THEN <<q + 1, 0>> ELSE At(l, q)

(* Where each process is.                                                  *)
Out == {"tail", "done"}
Among(l, me) ==
  /\ me.at \in Out => me.t = Count(l) + 1
  /\ me.at \notin Out => me.t \in 1..Count(l)
LoadPlace(l, me) ==
  /\ Among(l, me)
  /\ me.at \in Out \cup {"commit"} => me.k = 0
  /\ me.at = "index" => IF l.gather = "m" THEN me.k = 0 ELSE l.gather = "k" /\ me.k < KOf(l, me.t)
  /\ me.at = "fetch" => me.k < KOf(l, me.t)
  /\ me.at \in {"signal", "read"} => me.k = KOf(l, me.t)
  /\ me.at = "signal" => l.cStages > 0 /\ me.t = 1
  /\ me.n = KBefore(l)[me.t] + me.k
  /\ l.gather = "m" => me.i = IF me.at \in {"fetch", "signal", "read"} THEN me.t ELSE me.t - 1
  /\ l.gather = "k" => me.i = IF me.at = "fetch" THEN me.n + 1 ELSE me.n
  /\ me.at = "fetch" => /\ l.gather = "m" => me.got = <<me.t, 0>>
                        /\ l.gather = "k" => me.got = <<me.t, me.k>>
IndexPlace(l, me) ==
  /\ l.gather = "none" => me.at = "done"
  /\ l.gather # "none" =>
       /\ Among(l, me)
       /\ me.at = "done" => me.k = 0
       /\ me.at = "put" => me.k <= EntriesOf(l, me.t)
       /\ me.i = IBefore(l, me.t) + me.k
MmaPlace(l, me) ==
  /\ Among(l, me)
  /\ me.at \in Out \cup {"acquire"} => me.k = 0
  /\ me.at = "k" => me.k <= KOf(l, me.t)
  /\ me.at = "read" => me.k = KOf(l, me.t)
  /\ me.a = IF me.at = "read" THEN me.t ELSE me.t - 1
  /\ me.n = KBefore(l)[me.t] + me.k
ForwardPlace(l, me) ==
  /\ Among(l, me)
  /\ me.at \notin {"acquire", "tail"}
  /\ me.at = "done" => me.k = 0
  /\ me.at = "k" => l.gather # "none" /\ ~l.tmaGather /\ me.k < KOf(l, me.t)
  /\ l.gather # "none" /\ ~l.tmaGather => /\ me.n = KBefore(l)[me.t] + me.k
                                          /\ me.at = "read" => me.k = KOf(l, me.t)
EpiPlace(l, me) ==
  /\ Among(l, me)
  /\ me.at \in {"peek", "done"} => me.sub = 0
  /\ me.at \in {"acc", "c"} => me.next = me.t + 1
  /\ me.at = "c" => COf(l, me.t)
  /\ me.a = me.t - 1
  /\ me.r = CBefore(l)[me.t] + IF me.at # "done" /\ COf(l, me.t) THEN me.sub ELSE 0
CLoadPlace(l, me) ==
  /\ l.cStages = 0 => me.at = "done"
  /\ l.cStages > 0 =>
       /\ Among(l, me)
       /\ me.at # "c" => me.sub = 0
       /\ me.at = "c" => me.sub <= l.subtiles /\ (~COf(l, me.t) => me.sub = 0)
       /\ me.r = CBefore(l)[me.t] + me.sub
SchedPlace(l, me) == Among(l, me)
Places ==
  /\ \A c \in Ctas, w \in Loads : LoadPlace(launch, load[c][w])
  /\ \A c \in Ctas : IndexPlace(launch, index[c]) /\ EpiPlace(launch, epi[c])
                     /\ CLoadPlace(launch, cload[c]) /\ SchedPlace(launch, sched[c])
  /\ MmaPlace(launch, mma[Leader])
  /\ \A c \in Ctas \ {Leader} : ForwardPlace(launch, mma[c]) /\ sched[c].at \in {"read", "done"}

(* The work-tile slots: sched of CTA 0 has written W, each reader read     *)
(* those before its tile, the epilogue warps one more while they compute.  *)
Once == {"mma", "epi", "sched"} \cup (IF Gathers THEN {"index"} ELSE {}) \cup (IF HasC THEN {"cload"} ELSE {})
Readers == ({"load"} \X (Ctas \X Loads)) \cup (Once \X (Ctas \X {0}))
TileOf(x) ==
  LET c == x[2][1] IN
  CASE x[1] = "load" -> load[c][x[2][2]].t
    [] x[1] = "mma" -> mma[c].t
    [] x[1] = "epi" -> IF epi[c].at \in {"acc", "c"} THEN epi[c].t + 1 ELSE epi[c].t
    [] x[1] = "sched" -> sched[c].t
    [] x[1] = "index" -> index[c].t
    [] x[1] = "cload" -> cload[c].t
SlotsRead == [x \in Readers |-> TileOf(x) - 1]
Written == IF sched[Leader].at = "read" THEN sched[Leader].t ELSE sched[Leader].t - 1
SlotsOK ==
  LET d == SlotStages(launch) IN
  /\ Settled(slot.full, Written, d)
  /\ Emptying(slot.empty, Readers, SlotsRead, Written, d) /\ Within(Readers, SlotsRead, Written, d)
  /\ \A q \in 0..Written - 1 : Written <= q + d => slot.data[q % d] = q + 2

(* The C stages.                                                           *)
CRingOK ==
  LET d == launch.cStages IN
  HasC => \A c \in Ctas :
    /\ Settled(cring[c].full, cload[c].r, d) /\ Settled(cring[c].empty, epi[c].r, d)
    /\ epi[c].r <= cload[c].r /\ cload[c].r <= epi[c].r + d
    /\ \A t \in 1..N, s \in Subs :
         LET q == CBefore(launch)[t] + s IN
         UsesC(t) /\ q < cload[c].r /\ cload[c].r <= q + d => cring[c].data[q % d] = <<t, s>>

(* The index ring.                                                         *)
IndexesRead(c) == [w \in Loads |-> load[c][w].i]
IndexRingOK ==
  LET d == IdxStages(launch) IN
  Gathers => \A c \in Ctas :
    /\ Settled(idx[c].full, index[c].i, d)
    /\ Emptying(idx[c].empty, Loads, IndexesRead(c), index[c].i, d)
    /\ Within(Loads, IndexesRead(c), index[c].i, d)
    /\ \A q \in 0..index[c].i - 1 : index[c].i <= q + d => idx[c].data[q % d] = IndexAt(launch, q)

(* The accumulators.                                                       *)
Freed == [c \in Ctas |->
  epi[c].a + IF epi[c].sub > ReleaseAt \/ (epi[c].sub = ReleaseAt /\ epi[c].at = "c") THEN 1 ELSE 0]
Unread(c, p, i) ==
  /\ epi[c].a <= p /\ p < mma[Leader].a
  /\ p = epi[c].a => epi[c].sub <= i /\ (epi[c].at = "c" => epi[c].sub < i)
AccRingOK ==
  LET d == AccStages(launch)  me == mma[Leader] IN
  /\ \A c \in Ctas : Settled(acc.full[c], me.a, d)
  /\ Emptying(acc.empty, Ctas, Freed, me.a, d) /\ Within(Ctas, Freed, me.a, d)
  /\ me.at = "k" => \A c \in Ctas : me.a + 1 <= Freed[c] + d
  /\ \A c \in Ctas : epi[c].sub > 0 \/ epi[c].at = "c" => epi[c].a < me.a
TmemOK ==
  LET me == mma[Leader] IN
  /\ \A c \in Ctas, p \in 0..N - 1, i \in Subs :
       Unread(c, p, i) /\ K(p + 1) > 0 => tmem[c][p % 2][i] = <<p + 1, K(p + 1)>>
  /\ me.at = "k" /\ me.k > 0 => \A c \in Ctas, i \in Subs : tmem[c][me.a % 2][i] = <<me.t, me.k>>

(* The A/B ring: what is sent, and here, of the k-tile at a position.      *)
Units == IF Gathers THEN 0..launch.loads ELSE {PartB}
PartsOf(p) == IF Gathers THEN {p} ELSE {0, PartB}
ByTma(p) == ~Gathers \/ p = PartB \/ launch.tmaGather
Flight(c, q, p) ==
  [cta |-> c, stage |-> q % AbStages, parts |-> PartsOf(p), data |-> At(launch, q), tma |-> ByTma(p)]
Armer(q) == At(launch, q)[2] % launch.loads
Issuer(q, p) == IF p = PartB THEN Armer(q) ELSE p
Sent(c, q, p) == q < load[c][Issuer(q, p)].n
Here(c, q, p) == Sent(c, q, p) /\ Flight(c, q, p) \notin flying
Multiplies == mma[Leader].n
Window == Multiplies..Multiplies + AbStages - 1
Armed(q) == Sent(Leader, q, PartB)
Owed(q) == {u \in Ctas \X {p \in Units : ByTma(p)} : ~Here(u[1], q, u[2])}
Waiting(c, q) == {w \in Loads : ~Here(c, q, w)}
TxAt(q) == Cardinality(Owed(q)) - IF Armed(q) THEN 0 ELSE TxParts
PendingAt(q) ==
  (IF Armed(q) THEN 0 ELSE 1)
    + IF CpAsync THEN Cardinality(Waiting(Leader, q)) + IF launch.ctas = 2 /\ mma[1].n <= q THEN 1 ELSE 0
      ELSE 0
FullAt(q) ==
  IF PendingAt(q) = 0 /\ TxAt(q) = 0 THEN State(1 - Turn(q, AbStages), AbArrivals(launch, Leader), 0)
  ELSE State(Turn(q, AbStages), PendingAt(q), TxAt(q))
OtherFullAt(q) ==
  IF ~CpAsync THEN State(0, 1, 0)
  ELSE IF Waiting(1, q) = {} THEN State(1 - Turn(q, AbStages), launch.loads, 0)
  ELSE State(Turn(q, AbStages), Cardinality(Waiting(1, q)), 0)
AbRingOK ==
  /\ \A c \in Ctas, w \in Loads : Multiplies <= load[c][w].n /\ load[c][w].n <= Multiplies + AbStages
  /\ \A c \in Ctas : Settled(ab[c].empty, Multiplies, AbStages)
  /\ \A q \in Window : ab[Leader].full[q % AbStages] = FullAt(q)
  /\ launch.ctas = 2 =>
       /\ \A q \in Window : ab[1].full[q % AbStages] = OtherFullAt(q)
       /\ CpAsync => /\ Multiplies <= mma[1].n /\ mma[1].n <= Multiplies + AbStages
                     /\ \A q \in Window : q < mma[1].n => Waiting(1, q) = {}
AbDataOK ==
  /\ \A f \in flying : \E c \in Ctas, q \in Window, p \in Units : f = Flight(c, q, p) /\ Sent(c, q, p)
  /\ \A c \in Ctas, q \in Window, p \in Units :
       Here(c, q, p) => \A x \in PartsOf(p) : ab[c].data[q % AbStages][x] = At(launch, q)

(* The load warps that have let their CTA's C warp begin.                  *)
Signalled(l, me) == l.cStages > 0 /\ (me.t > 1 \/ me.at = "read")
MetOK == \A c \in Ctas : met[c] = Cardinality({w \in Loads : Signalled(launch, load[c][w])})

IInv == /\ Types /\ RingTypes /\ Places /\ SlotsOK /\ CRingOK /\ IndexRingOK /\ AccRingOK /\ TmemOK
        /\ AbRingOK /\ AbDataOK /\ MetOK
-----------------------------------------------------------------------------
(* What a launch is.                                                       *)
LEMMA LaunchIs ==
  ASSUME NEW l \in Launches
  PROVE  /\ l.ctas \in {1, 2} /\ l.loads \in Nat \ {0} /\ l.gather \in {"none", "m", "k"}
         /\ l.tmaGather \in BOOLEAN /\ l.clc \in BOOLEAN /\ l.scaled \in BOOLEAN
         /\ l.sfCols \in Nat \ {0} /\ l.epiCols \in Nat \ {0}
         /\ l.subtiles \in Nat \ {0} /\ l.cStages \in Nat
         /\ Count(l) \in Nat
         /\ \A t \in 1..Count(l) : KOf(l, t) \in Nat /\ COf(l, t) \in BOOLEAN /\ EntriesOf(l, t) \in Nat
         /\ l.gather = "none" => l.loads = 1 /\ ~l.tmaGather
         /\ l.sfCols < l.subtiles * l.epiCols
<1>1. /\ l \in LaunchType /\ (l.gather = "none" => l.loads = 1 /\ ~l.tmaGather)
      /\ l.sfCols < l.subtiles * l.epiCols
  BY LaunchesAssumption
<1>2. l.work \in Seq([k : Nat, epilogue : BOOLEAN]) BY <1>1 DEF LaunchType
<1>3. Count(l) \in Nat /\ \A t \in 1..Count(l) : l.work[t] \in [k : Nat, epilogue : BOOLEAN]
  <2>1. PICK R : R = [k : Nat, epilogue : BOOLEAN] OBVIOUS
  <2>2. PICK s : s = l.work OBVIOUS
  <2>3. s \in Seq(R) BY <1>2, <2>1, <2>2
  <2>4. Len(s) \in Nat /\ \A t \in 1..Len(s) : s[t] \in R BY <2>3
  <2> QED BY <2>1, <2>2, <2>4 DEF Count
<1>4. \A t \in 1..Count(l) : KOf(l, t) \in Nat /\ COf(l, t) \in BOOLEAN BY <1>3 DEF KOf, COf
<1>5. \A t \in 1..Count(l) : EntriesOf(l, t) \in Nat BY <1>4 DEF EntriesOf
<1> QED BY <1>1, <1>3, <1>4, <1>5 DEF LaunchType

(* The model's names for what a launch is.                                 *)
LEMMA Names ==
  /\ N = Count(launch) /\ (\A t : K(t) = KOf(launch, t)) /\ (\A t : UsesC(t) <=> COf(launch, t))
  /\ (\A t : Entries(t) = EntriesOf(launch, t))
  /\ (Gathers <=> launch.gather # "none") /\ (CpAsync <=> launch.gather # "none" /\ ~launch.tmaGather)
  /\ (HasC <=> launch.cStages > 0) /\ (\A t : HasC => (LoadsC(t) <=> COf(launch, t)))
  /\ (\A t : Valid(t) <=> t \in 1..Count(launch))
BY DEF N, K, UsesC, HasC, Epilogue, LoadsC, Entries, Gathers, CpAsync, Count, KOf, COf, TilesOf, EntriesOf, Valid

(* The CTAs and the load warps of a launch, and how many there are.        *)
LEMMA CtasAre ==
  ASSUME launch \in Launches
  PROVE  /\ Ctas = IF launch.ctas = 1 THEN {0} ELSE {0, 1}
         /\ 0 \in Ctas /\ Ctas \subseteq {0, 1} /\ (1 \in Ctas <=> launch.ctas = 2) /\ Leader = 0
         /\ Loads = 0..launch.loads - 1 /\ 0 \in Loads
         /\ IsFiniteSet(Ctas) /\ IsFiniteSet(Loads)
         /\ Cardinality(Ctas) = launch.ctas /\ Cardinality(Loads) = launch.loads
<1>1. launch.ctas \in {1, 2} /\ launch.loads \in Nat \ {0} BY LaunchIs
<1>2. Ctas = IF launch.ctas = 1 THEN {0} ELSE {0, 1}
  <2>1. PICK n \in {1, 2} : n = launch.ctas BY <1>1
  <2>2. 0..0 = {0} /\ 0..1 = {0, 1} OBVIOUS
  <2>3. n - 1 = IF n = 1 THEN 0 ELSE 1 OBVIOUS
  <2> QED BY <2>1, <2>2, <2>3 DEF Ctas
<1>3. Loads = 0..launch.loads - 1 /\ 0 \in Loads BY <1>1 DEF Loads
<1>4. /\ IsFiniteSet(0..launch.ctas - 1) /\ Cardinality(0..launch.ctas - 1) = launch.ctas
      /\ IsFiniteSet(0..launch.loads - 1) /\ Cardinality(0..launch.loads - 1) = launch.loads
  <2>1. PICK n \in Nat \ {0} : n = launch.ctas BY <1>1
  <2>2. PICK m \in Nat \ {0} : m = launch.loads BY <1>1
  <2>3. IsFiniteSet(0..n-1) /\ Cardinality(0..n-1) = n BY FS_Interval
  <2>4. IsFiniteSet(0..m-1) /\ Cardinality(0..m-1) = m BY FS_Interval
  <2> QED BY <2>1, <2>2, <2>3, <2>4
<1> QED BY <1>1, <1>2, <1>3, <1>4 DEF Ctas, Leader

(* The rings have the depths that their names say.                         *)
LEMMA Depths ==
  ASSUME launch \in Launches
  PROVE  /\ AbStages \in Nat \ {0} /\ SlotStages(launch) \in Nat \ {0} /\ AccStages(launch) \in {1, 2}
         /\ IdxStages(launch) \in Nat /\ (Gathers => IdxStages(launch) \in Nat \ {0})
         /\ launch.gather = "k" => IdxStages(launch) = AbStages
         /\ launch.gather = "m" => IdxStages(launch) = 2
         /\ launch.cStages \in Nat /\ (HasC => launch.cStages \in Nat \ {0})
BY LaunchIs, StagesAssumption DEF SlotStages, AccStages, IdxStages, Gathers, HasC

(* What comes before a tile.                                               *)
LEMMA KBeforeIs ==
  ASSUME NEW l \in Launches
  PROVE  /\ KBefore(l) \in [1..Count(l) + 1 -> Nat] /\ KBefore(l)[1] = 0
         /\ \A t \in 1..Count(l) : KBefore(l)[t + 1] = KBefore(l)[t] + KOf(l, t)
         /\ \A t \in 1..Count(l), u \in 1..Count(l) + 1 : t < u => KBefore(l)[t] + KOf(l, t) <= KBefore(l)[u]
<1> DEFINE n == Count(l)
           f == [t \in 1..n |-> KOf(l, t)]
           b == KBefore(l)
<1>1. n \in Nat /\ \A t \in 1..n : KOf(l, t) \in Nat BY LaunchIs
<1>2. f \in [1..n -> Nat] /\ \A t \in 1..n : f[t] = KOf(l, t) BY <1>1
<1>4. b = CHOOSE x : x \in Sums(f, n) BY DEF KBefore, SumsBefore
<1> HIDE DEF f, b, n
<1>3. Sums(f, n) # {} BY <1>1, <1>2, SumsExist
<1>5. b \in Sums(f, n) BY <1>3, <1>4
<1>6. /\ b \in [1..n + 1 -> Nat] /\ b[1] = 0
      /\ \A t \in 1..n : b[t + 1] = b[t] + f[t]
      /\ \A t \in 1..n, u \in 1..n + 1 : t < u => b[t] + f[t] <= b[u]
  BY <1>5 DEF Sums
<1>7. /\ \A t \in 1..n : b[t + 1] = b[t] + KOf(l, t)
      /\ \A t \in 1..n, u \in 1..n + 1 : t < u => b[t] + KOf(l, t) <= b[u]
  BY <1>2, <1>6
<1> QED BY <1>6, <1>7 DEF b, n

CsIn(l, t) == IF COf(l, t) THEN l.subtiles ELSE 0

(* And so for the subtiles of C.                                           *)
LEMMA CBeforeIs ==
  ASSUME NEW l \in Launches
  PROVE  /\ CBefore(l) \in [1..Count(l) + 1 -> Nat] /\ CBefore(l)[1] = 0
         /\ \A t \in 1..Count(l) : CBefore(l)[t + 1] = CBefore(l)[t] + CsIn(l, t)
         /\ \A t \in 1..Count(l), u \in 1..Count(l) + 1 : t < u => CBefore(l)[t] + CsIn(l, t) <= CBefore(l)[u]
<1> DEFINE n == Count(l)
           f == [t \in 1..n |-> CsIn(l, t)]
           b == CBefore(l)
<1>1. n \in Nat /\ \A t \in 1..n : CsIn(l, t) \in Nat BY LaunchIs DEF CsIn
<1>2. f \in [1..n -> Nat] /\ \A t \in 1..n : f[t] = CsIn(l, t) BY <1>1
<1>4. b = CHOOSE x : x \in Sums(f, n) BY DEF CBefore, SumsBefore, CsIn
<1> HIDE DEF f, b, n
<1>3. Sums(f, n) # {} BY <1>1, <1>2, SumsExist
<1>5. b \in Sums(f, n) BY <1>3, <1>4
<1>6. /\ b \in [1..n + 1 -> Nat] /\ b[1] = 0
      /\ \A t \in 1..n : b[t + 1] = b[t] + f[t]
      /\ \A t \in 1..n, u \in 1..n + 1 : t < u => b[t] + f[t] <= b[u]
  BY <1>5 DEF Sums
<1>7. /\ \A t \in 1..n : b[t + 1] = b[t] + CsIn(l, t)
      /\ \A t \in 1..n, u \in 1..n + 1 : t < u => b[t] + CsIn(l, t) <= b[u]
  BY <1>2, <1>6
<1> QED BY <1>6, <1>7 DEF b, n

(* Every position is of one k-tile.                                        *)
LEMMA AtIs ==
  ASSUME NEW l \in Launches
  PROVE  /\ \A q : At(l, q) \in Pair
         /\ \A t \in 1..Count(l), k \in Nat : k < KOf(l, t) => At(l, KBefore(l)[t] + k) = <<t, k>>
<1> DEFINE n == Count(l)
           b == KBefore(l)
<1>1. n \in Nat /\ \A t \in 1..n : KOf(l, t) \in Nat BY LaunchIs
<1>2. ASSUME NEW q PROVE At(l, q) \in Pair
  <2>1. Nothing \in Pair BY DEF Nothing, Pair
  <2>2. KTilesAt(l, q) \subseteq Pair BY DEF KTilesAt
  <2> QED BY <2>1, <2>2 DEF At
<1>3. ASSUME NEW t \in 1..n, NEW k \in Nat, k < KOf(l, t) PROVE At(l, b[t] + k) = <<t, k>>
  <2>1. PICK q : q = b[t] + k OBVIOUS
  <2>2. /\ b \in [1..n + 1 -> Nat]
        /\ \A s \in 1..n, u \in 1..n + 1 : s < u => b[s] + KOf(l, s) <= b[u]
    BY KBeforeIs
  <2>3. \A x : x \in KTilesAt(l, q) <=>
          x \in Pair /\ x[1] \in 1..n /\ x[2] < KOf(l, x[1]) /\ q = b[x[1]] + x[2]
    BY DEF KTilesAt
  <2> HIDE DEF b, n
  <2>4. <<t, k>> \in KTilesAt(l, q) BY <1>1, <1>3, <2>1, <2>3 DEF Pair
  <2>5. ASSUME NEW x \in KTilesAt(l, q) PROVE x = <<t, k>>
    <3>1. PICK s \in 1..n, j \in Nat : x = <<s, j>> /\ j < KOf(l, s) /\ q = b[s] + j
      BY <2>3, <2>5 DEF Pair
    <3>2. b[s] \in Nat /\ b[t] \in Nat /\ KOf(l, s) \in Nat /\ KOf(l, t) \in Nat /\ s \in 1..n + 1 /\ t \in 1..n + 1
      <4>1. s \in 1..n + 1 /\ t \in 1..n + 1 BY <1>1
      <4>2. b[s] \in Nat /\ b[t] \in Nat BY <2>2, <4>1
      <4> QED BY <1>1, <4>1, <4>2
    <3>3. (s < t => b[s] + KOf(l, s) <= b[t]) /\ (t < s => b[t] + KOf(l, t) <= b[s]) BY <2>2, <3>2
    <3>4. s = t BY <1>3, <2>1, <3>1, <3>2, <3>3
    <3>5. j = k BY <2>1, <3>1, <3>2, <3>4
    <3> QED BY <3>1, <3>4, <3>5
  <2>6. At(l, q) = CHOOSE x \in KTilesAt(l, q) : TRUE BY <2>4 DEF At
  <2> QED BY <2>1, <2>4, <2>5, <2>6 DEF b
<1> QED BY <1>2, <1>3

(* A launch does not change.                                               *)
LEMMA Same ==
  ASSUME launch' = launch
  PROVE  /\ Ctas' = Ctas /\ Loads' = Loads /\ N' = N /\ Subs' = Subs
         /\ Gathers' = Gathers /\ CpAsync' = CpAsync /\ HasC' = HasC
         /\ ReleaseAt' = ReleaseAt /\ TxParts' = TxParts /\ Readers' = Readers /\ Once' = Once /\ Units' = Units
         /\ \A t : K(t)' = K(t) /\ Epilogue(t)' = Epilogue(t) /\ UsesC(t)' = UsesC(t) /\ LoadsC(t)' = LoadsC(t)
                   /\ Entries(t)' = Entries(t) /\ Forwards(t)' = Forwards(t) /\ Valid(t)' = Valid(t)
BY DEF Ctas, Loads, N, Subs, Gathers, CpAsync, HasC, ReleaseAt, TxParts, Readers, Once, Units, PartB,
       K, Epilogue, UsesC, LoadsC, Entries, Forwards, Valid

(* Nor do the units of its k-tiles.                                        *)
LEMMA SameParts ==
  ASSUME launch' = launch
  PROVE  /\ \A p : PartsOf(p)' = PartsOf(p) /\ (ByTma(p)' <=> ByTma(p))
         /\ \A c, q, p : Flight(c, q, p)' = Flight(c, q, p)
         /\ \A q : Armer(q)' = Armer(q)
         /\ \A q, p : Issuer(q, p)' = Issuer(q, p)
         /\ PartB' = PartB
BY DEF PartsOf, ByTma, Flight, Armer, Issuer, PartB, Gathers
-----------------------------------------------------------------------------
(* The work-tile slots.                                                    *)

(* SlotReaders, the count of the slots' empty barriers, misses no reader.  *)
LEMMA ReadersCounted ==
  ASSUME launch \in Launches
  PROVE  /\ IsFiniteSet(Readers) /\ Readers # {} /\ Cardinality(Readers) = SlotReaders(launch)
<1> DEFINE A == {"load"} \X (Ctas \X Loads)
           B == Once \X (Ctas \X {0})
           g == IF Gathers THEN 1 ELSE 0
           h == IF HasC THEN 1 ELSE 0
<1>1. /\ IsFiniteSet(Ctas) /\ IsFiniteSet(Loads) /\ 0 \in Ctas
      /\ Cardinality(Ctas) = launch.ctas /\ Cardinality(Loads) = launch.loads
  BY CtasAre
<1>2. launch.ctas \in Nat /\ launch.loads \in Nat BY LaunchIs
<1>3. IsFiniteSet(Ctas \X Loads) /\ Cardinality(Ctas \X Loads) = launch.ctas * launch.loads
  BY <1>1, FS_Product
<1>4. IsFiniteSet({"load"}) /\ Cardinality({"load"}) = 1 BY FS_Singleton
<1>5. IsFiniteSet(A) /\ Cardinality(A) = 1 * (launch.ctas * launch.loads) BY <1>3, <1>4, FS_Product
<1>6. IsFiniteSet({0}) /\ Cardinality({0}) = 1 BY FS_Singleton
<1>7. IsFiniteSet(Ctas \X {0}) /\ Cardinality(Ctas \X {0}) = launch.ctas * 1 BY <1>1, <1>6, FS_Product
<1>8. IsFiniteSet(Once) /\ Cardinality(Once) = 3 + g + h
  <2> DEFINE S1 == {"mma"}
             S2 == S1 \cup {"epi"}
             S3 == S2 \cup {"sched"}
             S4 == IF Gathers THEN S3 \cup {"index"} ELSE S3
             S5 == IF HasC THEN S4 \cup {"cload"} ELSE S4
  <2>1. IsFiniteSet(S1) /\ Cardinality(S1) = 1 BY FS_Singleton
  <2>2. IsFiniteSet(S2) /\ Cardinality(S2) = 2
    <3>1. "epi" \notin S1 OBVIOUS
    <3> HIDE DEF S1
    <3> QED BY <2>1, <3>1, FS_AddElement
  <2>3. IsFiniteSet(S3) /\ Cardinality(S3) = 3
    <3>1. "sched" \notin S2 OBVIOUS
    <3> HIDE DEF S2
    <3> QED BY <2>2, <3>1, FS_AddElement
  <2>4. IsFiniteSet(S4) /\ Cardinality(S4) = 3 + g
    <3>1. "index" \notin S3 OBVIOUS
    <3> HIDE DEF S3
    <3> QED BY <2>3, <3>1, FS_AddElement
  <2>5. IsFiniteSet(S5) /\ Cardinality(S5) = 3 + g + h
    <3>1. "cload" \notin S4 OBVIOUS
    <3> HIDE DEF S4
    <3>2. 3 + g \in Nat /\ 3 + g + 1 = 1 + 3 + g OBVIOUS
    <3> QED BY <2>4, <3>1, <3>2, FS_AddElement
  <2>6. Once = S5 BY DEF Once
  <2> QED BY <2>5, <2>6
<1>9. IsFiniteSet(B) /\ Cardinality(B) = (3 + g + h) * (launch.ctas * 1) BY <1>7, <1>8, FS_Product
<1>10. A \cap B = {} BY DEF Once
<1>11. Readers = A \cup B BY DEF Readers
<1>12. /\ IsFiniteSet(Readers)
       /\ Cardinality(Readers) = Cardinality(A) + Cardinality(B) - Cardinality(A \cap B)
  BY <1>5, <1>9, <1>11, FS_Union
<1>13. Cardinality(A \cap B) = 0 BY <1>10, FS_EmptySet
<1>14. <<"mma", <<0, 0>>>> \in Readers BY <1>1 DEF Readers, Once
<1>15. Cardinality(Readers) = launch.ctas * launch.loads + (3 + g + h) * launch.ctas
  <2>1. PICK p \in Nat : p = launch.ctas * launch.loads BY <1>2
  <2>2. PICK q \in Nat : q = (3 + g + h) * launch.ctas BY <1>2
  <2>3. (3 + g + h) * (launch.ctas * 1) = q BY <1>2, <2>2
  <2> QED BY <1>5, <1>9, <1>12, <1>13, <2>1, <2>2, <2>3
<1>16. SlotReaders(launch) = launch.ctas * (launch.loads + 3 + g + h) BY DEF SlotReaders, Gathers, HasC
<1>17. \A a, b, c, d \in Nat : a * b + (3 + c + d) * a = a * (b + 3 + c + d) BY Z3
<1>18. g \in Nat /\ h \in Nat OBVIOUS
<1> HIDE DEF g, h
<1> QED BY <1>2, <1>12, <1>14, <1>15, <1>16, <1>17, <1>18
-----------------------------------------------------------------------------
(* The tile each reader is at, by kind.                                    *)
LEMMA ReadersAre ==
  /\ \A c \in Ctas, w \in Loads : <<"load", <<c, w>>>> \in Readers
  /\ \A c \in Ctas : /\ <<"mma", <<c, 0>>>> \in Readers /\ <<"epi", <<c, 0>>>> \in Readers
                     /\ <<"sched", <<c, 0>>>> \in Readers
                     /\ Gathers => <<"index", <<c, 0>>>> \in Readers
                     /\ HasC => <<"cload", <<c, 0>>>> \in Readers
  /\ \A x \in Readers :
       \/ \E c \in Ctas, w \in Loads : x = <<"load", <<c, w>>>>
       \/ \E c \in Ctas, kind \in {"mma", "epi", "sched", "index", "cload"} : x = <<kind, <<c, 0>>>>
<1>1. \A c \in Ctas, w \in Loads : <<"load", <<c, w>>>> \in Readers BY DEF Readers
<1>2. \A c \in Ctas, kind \in Once : <<kind, <<c, 0>>>> \in Readers BY DEF Readers
<1>3. /\ {"mma", "epi", "sched"} \subseteq Once /\ (Gathers => "index" \in Once) /\ (HasC => "cload" \in Once)
      /\ Once \subseteq {"mma", "epi", "sched", "index", "cload"}
  BY DEF Once
<1>4. ASSUME NEW x \in Readers PROVE
       \/ \E c \in Ctas, w \in Loads : x = <<"load", <<c, w>>>>
       \/ \E c \in Ctas, kind \in {"mma", "epi", "sched", "index", "cload"} : x = <<kind, <<c, 0>>>>
  <2>1. CASE x \in {"load"} \X (Ctas \X Loads)
    <3>1. PICK c \in Ctas, w \in Loads : x = <<"load", <<c, w>>>> BY <2>1
    <3> QED BY <3>1
  <2>2. CASE x \in Once \X (Ctas \X {0})
    <3>1. PICK c \in Ctas, kind \in Once : x = <<kind, <<c, 0>>>> BY <2>2
    <3> QED BY <1>3, <3>1
  <2> QED BY <2>1, <2>2 DEF Readers
<1> QED BY <1>1, <1>2, <1>3, <1>4

EpiTile(c) == IF epi[c].at \in {"acc", "c"} THEN epi[c].t + 1 ELSE epi[c].t

(* The tile of each.                                                       *)
LEMMA TilesAre ==
  /\ \A c, w : TileOf(<<"load", <<c, w>>>>) = load[c][w].t
  /\ \A c : /\ TileOf(<<"mma", <<c, 0>>>>) = mma[c].t /\ TileOf(<<"epi", <<c, 0>>>>) = EpiTile(c)
            /\ TileOf(<<"sched", <<c, 0>>>>) = sched[c].t /\ TileOf(<<"index", <<c, 0>>>>) = index[c].t
            /\ TileOf(<<"cload", <<c, 0>>>>) = cload[c].t
BY DEF TileOf, EpiTile

(* Tiles are numbered from 1.                                              *)
LEMMA TileIn ==
  ASSUME Types
  PROVE \A x \in Readers : TileOf(x) \in Nat \ {0}
<1>1. launch \in Launches BY DEF Types
<1>2. Count(launch) \in Nat BY <1>1, LaunchIs
<1> DEFINE Tiles == TilesOf(launch)
<1>3. Tiles \subseteq Nat \ {0} /\ \A t \in Tiles : t + 1 \in Nat \ {0} BY <1>2 DEF TilesOf
<1>4. \A c \in Ctas, w \in Loads : load[c][w].t \in Tiles BY DEF Types, LoadRec
<1>5. \A c \in Ctas : mma[c].t \in Tiles /\ epi[c].t \in Tiles /\ sched[c].t \in Tiles
  BY DEF Types, MmaRec, EpiRec, SchedRec
<1>6. \A c \in Ctas : index[c].t \in Tiles /\ cload[c].t \in Tiles BY DEF Types, IndexRec, CLoadRec
<1>7. \A c \in Ctas : EpiTile(c) \in Nat \ {0} BY <1>3, <1>5 DEF EpiTile
<1> SUFFICES ASSUME NEW x \in Readers PROVE TileOf(x) \in Nat \ {0} OBVIOUS
<1>8. CASE \E c \in Ctas, w \in Loads : x = <<"load", <<c, w>>>> BY <1>3, <1>4, <1>8, TilesAre
<1>9. CASE \E c \in Ctas, kind \in {"mma", "epi", "sched", "index", "cload"} : x = <<kind, <<c, 0>>>>
  <2>1. PICK c \in Ctas, kind \in {"mma", "epi", "sched", "index", "cload"} : x = <<kind, <<c, 0>>>> BY <1>9
  <2>2. CASE kind = "mma" BY <1>3, <1>5, <2>1, <2>2, TilesAre
  <2>3. CASE kind = "epi"
    <3>1. TileOf(x) = EpiTile(c) BY <2>1, <2>3, TilesAre
    <3> QED BY <1>7, <3>1
  <2>4. CASE kind = "sched" BY <1>3, <1>5, <2>1, <2>4, TilesAre
  <2>5. CASE kind = "index" BY <1>3, <1>6, <2>1, <2>5, TilesAre
  <2>6. CASE kind = "cload" BY <1>3, <1>6, <2>1, <2>6, TilesAre
  <2> QED BY <2>1, <2>2, <2>3, <2>4, <2>5, <2>6
<1> QED BY <1>8, <1>9, ReadersAre

(* The scheduler has written no more slots than there are tiles.           *)
LEMMA WrittenIs ==
  ASSUME Types, Places
  PROVE  /\ Written \in Nat /\ Written <= N /\ N \in Nat
         /\ sched[Leader].t \in Nat \ {0}
<1>1. launch \in Launches BY DEF Types
<1>2. N = Count(launch) /\ N \in Nat /\ 0 \in Ctas /\ Leader = 0 BY <1>1, LaunchIs, Names, CtasAre
<1>3. sched[0].t \in 1..N+1 BY <1>2 DEF Types, SchedRec, TilesOf
<1>4. SchedPlace(launch, sched[0]) BY <1>2 DEF Places
<1>5. sched[0].at = "read" => sched[0].t \in 1..N BY <1>2, <1>4 DEF SchedPlace, Among, Out
<1> QED BY <1>2, <1>3, <1>5 DEF Written

(* What a reader finds in its slot is the next tile.                       *)
LEMMA SlotSeen ==
  ASSUME Types, Places, SlotsOK, NEW x \in Readers, NEW t, t = TileOf(x), SlotReady(t)
  PROVE  t \in 1..N /\ SlotTile(t) = t + 1 /\ t <= Written
<1> DEFINE d == SlotStages(launch)
<1>1. launch \in Launches BY DEF Types
<1>2. d \in Nat \ {0} BY <1>1, Depths
<1> HIDE DEF d
<1>3. Written \in Nat /\ Written <= N /\ N \in Nat BY WrittenIs
<1>4. t \in Nat \ {0} BY TileIn
<1>5. /\ Settled(slot.full, Written, d)
      /\ Within(Readers, SlotsRead, Written, d)
      /\ \A q \in 0..Written - 1 : Written <= q + d => slot.data[q % d] = q + 2
  BY DEF SlotsOK, d
<1>6. PICK n \in Nat : n = t - 1 BY <1>4
<1>7. n <= Written /\ Written <= n + d BY <1>5, <1>6 DEF Within, SlotsRead
<1>8. IsFull(slot.full, n) BY <1>6 DEF SlotReady
<1>9. n < Written BY <1>2, <1>3, <1>5, <1>7, <1>8, SettledSees
<1>10. DOMAIN slot.full = 0..d-1 BY <1>5 DEF Settled
<1>11. SlotTile(t) = slot.data[n % d] BY <1>2, <1>6, <1>10, StageIs DEF SlotTile
<1>12. slot.data[n % d] = n + 2 BY <1>3, <1>5, <1>7, <1>9
<1> QED BY <1>3, <1>4, <1>6, <1>9, <1>11, <1>12

(* It reads its slot ...                                                   *)
LEMMA SlotIsRead ==
  ASSUME Types, RingTypes, Places, SlotsOK, launch' = launch, NEW x \in Readers, NEW t, t = TileOf(x), SlotReady(t),
         ReadSlot(t), TileOf(x)' = t + 1, \A y \in Readers : y # x => TileOf(y)' = TileOf(y),
         Written' = Written
  PROVE  SlotsOK'
<1> DEFINE d == SlotStages(launch)
           R == Readers
           r == SlotsRead
<1>1. launch \in Launches BY DEF Types
<1>2. d \in Nat \ {0} BY <1>1, Depths
<1>3. IsFiniteSet(R) /\ Cardinality(R) = SlotReaders(launch) BY <1>1, ReadersCounted
<1>4. Readers' = R BY Same
<1>5. PICK s : s = SlotsRead' OBVIOUS
<1>6. s = [y \in R |-> TileOf(y)' - 1] BY <1>4, <1>5 DEF SlotsRead
<1>7. \A y \in R : r[y] = TileOf(y) - 1 BY DEF SlotsRead
<1>8. t \in 1..N /\ t <= Written /\ Written \in Nat BY SlotSeen, WrittenIs
<1>9. r[x] = t - 1 /\ s[x] = r[x] + 1 BY <1>6, <1>7, <1>8
<1>10. \A y \in R : y # x => s[y] = r[y] BY <1>6, <1>7
<1>11. /\ Settled(slot.full, Written, d)
       /\ Emptying(slot.empty, R, r, Written, d) /\ Within(R, r, Written, d)
       /\ \A q \in 0..Written - 1 : Written <= q + d => slot.data[q % d] = q + 2
  BY DEF SlotsOK
<1>12. r[x] < Written BY <1>8, <1>9
<1> HIDE DEF d, R, r
<1>13. /\ Emptying(Arrive(slot.empty, r[x], Cardinality(R)), R, s, Written, d)
       /\ Within(R, s, Written, d)
  BY <1>2, <1>3, <1>8, <1>9, <1>10, <1>11, <1>12, EmptyingRead DEF R
<1>14. slot' = [slot EXCEPT !.empty = Arrive(slot.empty, t - 1, SlotReaders(launch))] BY DEF ReadSlot
<1>15. slot \in RingOf(SlotStages(launch), Nat) BY DEF RingTypes
<1>16. slot'.full = slot.full /\ slot'.data = slot.data
       /\ slot'.empty = Arrive(slot.empty, t - 1, SlotReaders(launch))
  BY <1>14, <1>15 DEF RingOf
<1>17. /\ Settled(slot'.full, Written, d)
       /\ Emptying(slot'.empty, R, s, Written, d) /\ Within(R, s, Written, d)
       /\ \A q \in 0..Written - 1 : Written <= q + d => slot'.data[q % d] = q + 2
  BY <1>3, <1>9, <1>11, <1>13, <1>16
<1>18. SlotStages(launch)' = d BY DEF d, SlotStages
<1> QED BY <1>4, <1>5, <1>17, <1>18 DEF SlotsOK, R

(* ... or the slots and everyone's tile stay.                              *)
LEMMA SlotsStay ==
  ASSUME SlotsOK, launch' = launch, slot' = slot, \A y \in Readers : TileOf(y)' = TileOf(y), Written' = Written
  PROVE  SlotsOK'
<1>1. Readers' = Readers BY Same
<1>2. SlotsRead' = SlotsRead BY <1>1 DEF SlotsRead
<1>3. SlotStages(launch)' = SlotStages(launch) BY DEF SlotStages
<1> QED BY <1>1, <1>2, <1>3 DEF SlotsOK
-----------------------------------------------------------------------------
(* Where the load warps go.                                                *)
LoadMoves(c, w) ==
  /\ launch' = launch
  /\ load' \in [Ctas -> [Loads -> LoadRec(launch)]]
  /\ LoadPlace(launch, load'[c][w])
  /\ \A d \in Ctas, v \in Loads : ~(d = c /\ v = w) => load'[d][v] = load[d][v]

(* A load warp moved to a place of its own, and no other moved.            *)
LEMMA LoadMovesTo ==
  ASSUME Types, NEW c \in Ctas, NEW w \in Loads, launch' = launch, NEW new,
         new \in LoadRec(launch), LoadPlace(launch, new), load' = [load EXCEPT ![c][w] = new]
  PROVE  LoadMoves(c, w) /\ load'[c][w] = new
<1> PICK R : R = LoadRec(launch) OBVIOUS
<1>1. load \in [Ctas -> [Loads -> R]] BY DEF Types
<1>2. /\ load' \in [Ctas -> [Loads -> R]] /\ load'[c][w] = new
      /\ \A d \in Ctas, v \in Loads : ~(d = c /\ v = w) => load'[d][v] = load[d][v]
  BY <1>1
<1> QED BY <1>2 DEF LoadMoves

(* A load warp before its k-tile k, or before the tile.                    *)
LEMMA KTilePlace ==
  ASSUME launch \in Launches, NEW me, me.t \in 1..Count(launch), me.k \in Nat, me.k <= KOf(launch, me.t),
         me.n = KBefore(launch)[me.t] + me.k, me.at = KTile(me.k, me.t),
         launch.gather = "m" => me.i = me.t /\ me.got = <<me.t, 0>>,
         launch.gather = "k" => me.i = me.n
  PROVE  LoadPlace(launch, me) /\ me.at \in {"index", "fetch", "signal", "read"}
<1>1. /\ \A t : K(t) = KOf(launch, t)
      /\ HasC <=> launch.cStages > 0 BY Names
<1>2. KOf(launch, me.t) \in Nat BY LaunchIs
<1>3. me.at = IF me.k = KOf(launch, me.t) THEN IF launch.cStages > 0 /\ me.t = 1 THEN "signal" ELSE "read"
              ELSE IF launch.gather = "k" THEN "index" ELSE "fetch"
  BY <1>1 DEF KTile, Signals
<1> QED BY <1>2, <1>3 DEF LoadPlace, Among, Out

(* ... or before the tile ...                                              *)
LEMMA TilePlace ==
  ASSUME launch \in Launches, NEW me, me.t \in 1..Count(launch), me.k = 0,
         me.n = KBefore(launch)[me.t], me.at = Tile(me.t),
         launch.gather = "m" => me.i = me.t - 1,
         launch.gather = "k" => me.i = me.n
  PROVE  LoadPlace(launch, me) /\ me.at \in {"index", "fetch", "signal", "read"}
<1>1. KBefore(launch)[me.t] \in Nat /\ KOf(launch, me.t) \in Nat
  <2>1. me.t \in 1..Count(launch)+1 BY LaunchIs
  <2> QED BY <2>1, LaunchIs, KBeforeIs
<1>2. CASE launch.gather = "m"
  <2>1. me.at = "index" BY <1>2 DEF Tile
  <2> QED BY <1>1, <1>2, <2>1 DEF LoadPlace, Among, Out
<1>3. CASE launch.gather # "m"
  <2>1. me.at = KTile(me.k, me.t) BY <1>3 DEF Tile
  <2> QED BY <1>1, <1>3, <2>1, KTilePlace
<1> QED BY <1>2, <1>3

(* ... or where it begins a tile or leaves.                                *)
LEMMA BeginPlace ==
  ASSUME launch \in Launches, NEW c, NEW w, NEW me, me.t \in TilesOf(launch), me.k = 0,
         me.n = KBefore(launch)[me.t], me.at = Begin(c, w, me.t),
         launch.gather = "m" => me.i = me.t - 1,
         launch.gather = "k" => me.i = me.n
  PROVE  LoadPlace(launch, me) /\ me.at \in {"commit", "index", "fetch", "signal", "read", "tail", "done"}
<1>1. KBefore(launch)[me.t] \in Nat BY KBeforeIs DEF TilesOf
<1>2. CASE ~Valid(me.t)
  <2>1. me.at \in Out BY <1>2 DEF Begin, Out
  <2>2. me.t = Count(launch) + 1 BY <1>2, Names, LaunchIs DEF TilesOf
  <2> QED BY <1>1, <2>1, <2>2 DEF LoadPlace, Among, Out
<1>3. CASE Valid(me.t)
  <2>1. me.t \in 1..Count(launch) BY <1>3, Names
  <2>2. CASE Commits(c, w)
    <3>1. me.at = "commit" BY <1>3, <2>2 DEF Begin
    <3> QED BY <1>1, <2>1, <3>1 DEF LoadPlace, Among, Out
  <2>3. CASE ~Commits(c, w)
    <3>1. me.at = Tile(me.t) BY <1>3, <2>3 DEF Begin
    <3> QED BY <2>1, <3>1, TilePlace
  <2> QED BY <2>2, <2>3
<1> QED BY <1>2, <1>3

-----------------------------------------------------------------------------
(* Each action.                                                            *)
LEMMA LoadIs ==
  ASSUME Types, Places, NEW c \in Ctas, NEW w \in Loads
  PROVE  /\ launch \in Launches /\ load[c][w] \in LoadRec(launch) /\ LoadPlace(launch, load[c][w])
         /\ c \in {0, 1} /\ Leader = 0 /\ Leader \in Ctas
         /\ Loads = 0..launch.loads - 1 /\ launch.loads \in Nat \ {0} /\ w \in Nat
<1>1. launch \in Launches BY DEF Types
<1>2. launch.loads \in Nat \ {0} /\ Loads = 0..launch.loads - 1 BY <1>1, LaunchIs, CtasAre
<1>3. w \in Nat BY <1>2
<1>4. c \in {0, 1} /\ Leader = 0 /\ Leader \in Ctas BY <1>1, CtasAre
<1>5. load[c][w] \in LoadRec(launch) BY DEF Types
<1> QED BY <1>1, <1>2, <1>3, <1>4, <1>5 DEF Places

(* It has let the scheduler draw.                                          *)
LEMMA ThrottleCommitTo ==
  ASSUME Types, Places, NEW c \in Ctas, NEW w \in Loads, ThrottleCommit(c, w)
  PROVE  LET me == load[c][w]  new == load'[c][w] IN
         /\ LoadMoves(c, w)
         /\ me.at = "commit" /\ new.at \in {"index", "fetch", "signal", "read"}
         /\ new.t = me.t /\ new.k = me.k /\ new.n = me.n /\ new.i = me.i
<1> DEFINE me == load[c][w]
           new == [me EXCEPT !.at = Tile(me.t)]
<1>1. launch \in Launches /\ me \in LoadRec(launch) /\ LoadPlace(launch, me) BY LoadIs
<1>2. me.at = "commit" /\ launch' = launch /\ load' = [load EXCEPT ![c][w] = new]
  BY DEF ThrottleCommit, LoadGoes
<1>3. new.at = Tile(me.t) /\ new.t = me.t /\ new.k = me.k /\ new.n = me.n /\ new.i = me.i /\ new.got = me.got
  BY <1>1 DEF LoadRec
<1>4. me.t \in 1..Count(launch) /\ me.k = 0 /\ me.n = KBefore(launch)[me.t] + me.k
      /\ (launch.gather = "m" => me.i = me.t - 1) /\ (launch.gather = "k" => me.i = me.n)
  BY <1>1, <1>2 DEF LoadPlace, Among, Out
<1>5. me.n = KBefore(launch)[me.t]
  <2>1. KBefore(launch)[me.t] \in Nat BY <1>1, KBeforeIs DEF LoadRec, TilesOf
  <2> QED BY <1>4, <2>1
<1> HIDE DEF me
<1>6. PICK x : x = new OBVIOUS
<1>7. LoadPlace(launch, x) /\ x.at \in {"index", "fetch", "signal", "read"}
  BY <1>1, <1>3, <1>4, <1>5, <1>6, TilePlace
<1>8. new \in LoadRec(launch) BY <1>1, <1>6, <1>7 DEF LoadRec
<1> HIDE DEF new
<1>9. LoadPlace(launch, new) /\ new.at \in {"index", "fetch", "signal", "read"} BY <1>6, <1>7
<1>10. LoadMoves(c, w) /\ load'[c][w] = new BY <1>2, <1>8, <1>9, LoadMovesTo
<1> QED BY <1>2, <1>3, <1>9, <1>10 DEF me

(* It has let the C warp begin.                                            *)
LEMMA SignalTo ==
  ASSUME Types, Places, NEW c \in Ctas, NEW w \in Loads, Signal(c, w)
  PROVE  LET me == load[c][w]  new == load'[c][w] IN
         /\ LoadMoves(c, w)
         /\ me.at = "signal" /\ HasC /\ me.t = 1 /\ new.at = "read"
         /\ new.t = me.t /\ new.k = me.k /\ new.n = me.n /\ new.i = me.i
<1> DEFINE me == load[c][w]
           new == [me EXCEPT !.at = "read"]
<1>1. launch \in Launches /\ me \in LoadRec(launch) /\ LoadPlace(launch, me) BY LoadIs
<1>2. me.at = "signal" /\ launch' = launch /\ load' = [load EXCEPT ![c][w] = new]
  BY DEF Signal, LoadGoes
<1>3. new.at = "read" /\ new.t = me.t /\ new.k = me.k /\ new.n = me.n /\ new.i = me.i /\ new.got = me.got
      /\ new \in LoadRec(launch)
  BY <1>1 DEF LoadRec
<1>4. LoadPlace(launch, new) /\ me.t = 1 /\ HasC
  <2> HIDE DEF me, new
  <2> QED BY <1>1, <1>2, <1>3, Names DEF LoadPlace, Among, Out
<1> HIDE DEF new, me
<1>5. LoadMoves(c, w) /\ load'[c][w] = new BY <1>2, <1>3, <1>4, LoadMovesTo
<1> QED BY <1>2, <1>3, <1>4, <1>5 DEF me

(* It leaves.                                                              *)
LEMMA LoadTailTo ==
  ASSUME Types, Places, NEW c \in Ctas, NEW w \in Loads, LoadTail(c, w)
  PROVE  LET me == load[c][w]  new == load'[c][w] IN
         /\ LoadMoves(c, w)
         /\ me.at = "tail" /\ new.at = "done"
         /\ new.t = me.t /\ new.k = me.k /\ new.n = me.n /\ new.i = me.i
<1> DEFINE me == load[c][w]
           new == [me EXCEPT !.at = "done"]
<1>1. launch \in Launches /\ me \in LoadRec(launch) /\ LoadPlace(launch, me) BY LoadIs
<1>2. me.at = "tail" /\ launch' = launch /\ load' = [load EXCEPT ![c][w] = new]
  BY DEF LoadTail, LoadGoes
<1>3. new.at = "done" /\ new.t = me.t /\ new.k = me.k /\ new.n = me.n /\ new.i = me.i /\ new.got = me.got
      /\ new \in LoadRec(launch)
  BY <1>1 DEF LoadRec
<1>4. LoadPlace(launch, new)
  <2> HIDE DEF me, new
  <2> QED BY <1>1, <1>2, <1>3 DEF LoadPlace, Among, Out
<1> HIDE DEF new, me
<1>5. LoadMoves(c, w) /\ load'[c][w] = new BY <1>2, <1>3, <1>4, LoadMovesTo
<1> QED BY <1>2, <1>3, <1>4, <1>5 DEF me

(* It takes the next tile, which its slot holds.                           *)
LEMMA LoadAdvanceTo ==
  ASSUME Types, Places, SlotsOK, NEW c \in Ctas, NEW w \in Loads, LoadAdvance(c, w)
  PROVE  LET me == load[c][w]  new == load'[c][w] IN
         /\ LoadMoves(c, w)
         /\ me.at = "read" /\ me.t \in 1..Count(launch) /\ SlotReady(me.t) /\ ReadSlot(me.t)
         /\ new.t = me.t + 1 /\ new.k = 0 /\ new.n = me.n /\ new.i = me.i
         /\ new.at \in {"commit", "index", "fetch", "signal", "read", "tail", "done"}
<1> DEFINE me == load[c][w]
           t == SlotTile(me.t)
           new == [me EXCEPT !.t = t, !.k = 0, !.at = Begin(c, w, t), !.got = Nothing]
<1>1. launch \in Launches /\ me \in LoadRec(launch) /\ LoadPlace(launch, me) BY LoadIs
<1>2. me.at = "read" /\ SlotReady(me.t) /\ ReadSlot(me.t) /\ launch' = launch /\ load' = [load EXCEPT ![c][w] = new]
  BY DEF LoadAdvance, LoadGoes
<1>3. me.t \in 1..Count(launch) /\ t = me.t + 1
  <2>1. <<"load", <<c, w>>>> \in Readers BY ReadersAre
  <2>2. TileOf(<<"load", <<c, w>>>>) = me.t BY TilesAre
  <2> QED BY <1>2, <2>1, <2>2, SlotSeen, Names
<1> HIDE DEF t
<1>4. new.at = Begin(c, w, new.t) /\ new.t = me.t + 1 /\ new.k = 0 /\ new.n = me.n /\ new.i = me.i /\ new.got = Nothing
  BY <1>1, <1>3 DEF LoadRec
<1>5. me.k = KOf(launch, me.t) /\ me.n = KBefore(launch)[me.t] + me.k
      /\ (launch.gather = "m" => me.i = me.t) /\ (launch.gather = "k" => me.i = me.n)
  BY <1>1, <1>2 DEF LoadPlace
<1>6. Count(launch) \in Nat BY <1>1, LaunchIs
<1>7. me.t + 1 \in TilesOf(launch) BY <1>3, <1>6 DEF TilesOf
<1>8. new.n = KBefore(launch)[new.t] BY <1>1, <1>3, <1>4, <1>5, KBeforeIs
<1> HIDE DEF me
<1>9. PICK x : x = new OBVIOUS
<1>10. LoadPlace(launch, x) /\ x.at \in {"commit", "index", "fetch", "signal", "read", "tail", "done"}
  <2>1. launch.gather = "m" => x.i = x.t - 1 BY <1>3, <1>4, <1>5, <1>9
  <2>2. launch.gather = "k" => x.i = x.n BY <1>4, <1>5, <1>9
  <2> HIDE DEF new
  <2>3. x.t \in TilesOf(launch) /\ x.k = 0 /\ x.n = KBefore(launch)[x.t] /\ x.at = Begin(c, w, x.t)
    BY <1>4, <1>7, <1>8, <1>9
  <2> QED BY <1>1, <2>1, <2>2, <2>3, BeginPlace
<1>11. new \in LoadRec(launch)
  <2>1. Nothing \in Pair BY DEF Nothing, Pair
  <2> QED BY <1>1, <1>3, <1>4, <1>7, <1>9, <1>10, <2>1 DEF LoadRec
<1> HIDE DEF new
<1> QED BY <1>2, <1>3, <1>4, <1>9, <1>10, <1>11, LoadMovesTo DEF me

(* It has issued the k-tile whose indices it holds.                        *)
LEMMA FetchTo ==
  ASSUME Types, Places, NEW c \in Ctas, NEW w \in Loads, Fetch(c, w)
  PROVE  LET me == load[c][w]  new == load'[c][w] IN
         /\ LoadMoves(c, w)
         /\ me.at = "fetch" /\ me.t \in 1..Count(launch) /\ me.k < KOf(launch, me.t)
         /\ me.n = KBefore(launch)[me.t] + me.k
         /\ launch.gather = "m" => me.got = <<me.t, 0>>
         /\ launch.gather = "k" => me.got = <<me.t, me.k>> /\ new.i = me.n + 1
         /\ new.at \in {"index", "fetch", "signal", "read"}
         /\ new.t = me.t /\ new.k = me.k + 1 /\ new.n = me.n + 1 /\ new.i = me.i
<1> DEFINE me == load[c][w]
           got == IF launch.gather = "k" THEN Nothing ELSE me.got
           new == [me EXCEPT !.k = @ + 1, !.n = @ + 1, !.at = KTile(me.k + 1, me.t), !.got = got]
<1>1. launch \in Launches /\ me \in LoadRec(launch) /\ LoadPlace(launch, me) BY LoadIs
<1>2. me.at = "fetch" /\ launch' = launch /\ load' = [load EXCEPT ![c][w] = new]
  BY DEF Fetch, LoadGoes
<1>3. got \in Pair
  <2>1. Nothing \in Pair BY DEF Nothing, Pair
  <2>2. me.got \in Pair BY <1>1 DEF LoadRec
  <2> QED BY <2>1, <2>2
<1>4. me.k \in Nat /\ me.n \in Nat /\ me.t \in TilesOf(launch) BY <1>1 DEF LoadRec
<1> HIDE DEF got
<1>5. new.at = KTile(me.k + 1, me.t) /\ new.t = me.t /\ new.k = me.k + 1 /\ new.n = me.n + 1 /\ new.i = me.i
      /\ new.got = got
  BY <1>1 DEF LoadRec
<1>6. /\ me.t \in 1..Count(launch) /\ me.k < KOf(launch, me.t) /\ me.n = KBefore(launch)[me.t] + me.k
      /\ launch.gather = "m" => me.got = <<me.t, 0>> /\ me.i = me.t
      /\ launch.gather = "k" => me.got = <<me.t, me.k>> /\ me.i = me.n + 1
  BY <1>1, <1>2 DEF LoadPlace, Among, Out
<1>7. KBefore(launch)[me.t] \in Nat /\ KOf(launch, me.t) \in Nat
  BY <1>1, <1>4, <1>6, KBeforeIs, LaunchIs DEF TilesOf
<1> HIDE DEF me
<1>8. PICK x : x = new OBVIOUS
<1>9. LoadPlace(launch, x) /\ x.at \in {"index", "fetch", "signal", "read"}
  <2>1. x.t = me.t /\ x.k = me.k + 1 /\ x.n = me.n + 1 /\ x.i = me.i /\ x.got = got
        /\ x.at = KTile(x.k, x.t)
    BY <1>5, <1>8
  <2>2. launch.gather = "m" => x.i = x.t /\ x.got = <<x.t, 0>> BY <1>6, <2>1 DEF got
  <2>3. launch.gather = "k" => x.i = x.n BY <1>6, <2>1
  <2>4. x.t \in 1..Count(launch) /\ x.k \in Nat /\ x.k <= KOf(launch, x.t) /\ x.n = KBefore(launch)[x.t] + x.k
    BY <1>4, <1>6, <1>7, <2>1
  <2>5. x.at = KTile(x.k, x.t) BY <2>1
  <2> HIDE DEF new
  <2> QED BY <1>1, <2>2, <2>3, <2>4, <2>5, KTilePlace
<1>10. new \in LoadRec(launch)
  <2>1. KTile(me.k + 1, me.t) \in {"index", "fetch", "signal", "read"} BY <1>5, <1>8, <1>9
  <2>2. PICK a \in {"index", "fetch", "signal", "read"} : a = KTile(me.k + 1, me.t) BY <2>1
  <2>3. PICK j \in Nat, n \in Nat : j = me.k + 1 /\ n = me.n + 1 BY <1>4
  <2>4. new = [me EXCEPT !.k = j, !.n = n, !.at = a, !.got = got] BY <2>2, <2>3
  <2> QED BY <1>1, <1>3, <2>4 DEF LoadRec
<1> HIDE DEF new
<1>11. LoadMoves(c, w) /\ load'[c][w] = new BY <1>2, <1>8, <1>9, <1>10, LoadMovesTo
<1> QED BY <1>2, <1>5, <1>6, <1>8, <1>9, <1>11 DEF me
-----------------------------------------------------------------------------
(* What a load warp finds in the index ring is its tile's or its k-tile's. *)
LEMMA IndexSeen ==
  ASSUME Types, RingTypes, Places, IndexRingOK, NEW c \in Ctas, NEW w \in Loads,
         load[c][w].at = "index", IsFull(idx[c].full, load[c][w].i)
  PROVE  LET me == load[c][w] IN
         /\ Gathers /\ me.i < index[c].i
         /\ launch.gather = "m" => idx[c].data[IndexStage(c, me)] = <<me.t, 0>>
         /\ launch.gather = "k" => idx[c].data[IndexStage(c, me)] = <<me.t, me.k>>
<1> DEFINE me == load[c][w]
           d == IdxStages(launch)
           w0 == index[c].i
<1>1. launch \in Launches /\ me \in LoadRec(launch) /\ LoadPlace(launch, me) BY LoadIs
<1>2. /\ launch.gather \in {"m", "k"} /\ me.t \in 1..Count(launch)
      /\ launch.gather = "m" => me.k = 0 /\ me.i = me.t - 1
      /\ launch.gather = "k" => me.k < KOf(launch, me.t) /\ me.i = me.n /\ me.n = KBefore(launch)[me.t] + me.k
  BY <1>1, LaunchIs DEF LoadPlace, Among, Out
<1>3. Gathers BY <1>2, Names
<1>4. d \in Nat \ {0} /\ AbStages \in Nat \ {0} /\ (launch.gather = "k" => d = AbStages) BY <1>1, <1>3, Depths
<1>5. me.i \in Nat /\ me.n \in Nat /\ me.k \in Nat BY <1>1 DEF LoadRec
<1>6. w0 \in Nat BY DEF Types, IndexRec
<1> HIDE DEF w0
<1>7. /\ Settled(idx[c].full, w0, d) /\ Within(Loads, IndexesRead(c), w0, d)
      /\ \A q \in 0..w0 - 1 : w0 <= q + d => idx[c].data[q % d] = IndexAt(launch, q)
  BY <1>3 DEF IndexRingOK, w0
<1>8. me.i <= w0 /\ w0 <= me.i + d BY <1>7 DEF Within, IndexesRead
<1>9. IsFull(idx[c].full, me.i) OBVIOUS
<1> HIDE DEF me, d
<1>10. me.i < w0 BY <1>4, <1>5, <1>6, <1>7, <1>8, <1>9, SettledSees
<1>11. idx[c].data[me.i % d] = IndexAt(launch, me.i) BY <1>5, <1>6, <1>7, <1>8, <1>10
<1>12. IndexStage(c, me) = me.i % d
  <2>1. DOMAIN idx[c].full = 0..d-1 BY <1>7 DEF Settled
  <2>2. Stage(idx[c].full, me.i) = me.i % d BY <1>4, <1>5, <2>1, StageIs
  <2>3. DOMAIN ab[c].full = 0..AbStages-1 BY DEF RingTypes, RingOf
  <2>4. Stage(ab[c].full, me.n) = me.n % AbStages BY <1>4, <1>5, <2>3, StageIs
  <2> QED BY <1>2, <1>4, <2>2, <2>4 DEF IndexStage
<1>13. launch.gather = "m" => IndexAt(launch, me.i) = <<me.t, 0>>
  <2> SUFFICES ASSUME launch.gather = "m" PROVE IndexAt(launch, me.i) = <<me.t, 0>> OBVIOUS
  <2>1. IndexAt(launch, me.i) = <<me.i + 1, 0>> BY DEF IndexAt
  <2>2. me.i + 1 = me.t BY <1>2
  <2> QED BY <2>1, <2>2
<1>14. launch.gather = "k" => IndexAt(launch, me.i) = <<me.t, me.k>>
  <2> SUFFICES ASSUME launch.gather = "k" PROVE IndexAt(launch, me.i) = <<me.t, me.k>> OBVIOUS
  <2>1. IndexAt(launch, me.i) = At(launch, me.i) BY DEF IndexAt
  <2>2. me.i = KBefore(launch)[me.t] + me.k /\ me.k < KOf(launch, me.t) BY <1>2
  <2>3. At(launch, KBefore(launch)[me.t] + me.k) = <<me.t, me.k>> BY <1>1, <1>2, <1>5, <2>2, AtIs
  <2> QED BY <2>1, <2>2, <2>3
<1> QED BY <1>3, <1>10, <1>11, <1>12, <1>13, <1>14 DEF me, w0

(* It has read the indices that its k-tiles need.                          *)
LEMMA ReadIndicesTo ==
  ASSUME Types, RingTypes, Places, IndexRingOK, NEW c \in Ctas, NEW w \in Loads, ReadIndices(c, w)
  PROVE  LET me == load[c][w]  new == load'[c][w] IN
         /\ LoadMoves(c, w) /\ Gathers
         /\ me.at = "index" /\ me.i < index[c].i
         /\ idx' = [idx EXCEPT ![c].empty = Arrive(idx[c].empty, me.i, IdxReaders(launch))]
         /\ new.at \in {"fetch", "signal", "read"}
         /\ new.t = me.t /\ new.k = me.k /\ new.n = me.n /\ new.i = me.i + 1
<1> DEFINE me == load[c][w]
           got == idx[c].data[IndexStage(c, me)]
           at == IF launch.gather = "m" THEN KTile(0, me.t) ELSE "fetch"
           new == [me EXCEPT !.got = got, !.i = @ + 1, !.at = at]
<1>1. launch \in Launches /\ me \in LoadRec(launch) /\ LoadPlace(launch, me) BY LoadIs
<1>2. /\ me.at = "index" /\ IsFull(idx[c].full, me.i)
      /\ launch' = launch /\ load' = [load EXCEPT ![c][w] = new]
      /\ idx' = [idx EXCEPT ![c].empty = Arrive(idx[c].empty, me.i, IdxReaders(launch))]
  BY DEF ReadIndices, LoadGoes
<1>3. /\ Gathers /\ me.i < index[c].i
      /\ launch.gather = "m" => got = <<me.t, 0>>
      /\ launch.gather = "k" => got = <<me.t, me.k>>
  BY <1>2, IndexSeen
<1>4. me.k \in Nat /\ me.n \in Nat /\ me.i \in Nat /\ me.t \in TilesOf(launch) BY <1>1 DEF LoadRec
<1>5. /\ launch.gather \in {"m", "k"} /\ me.t \in 1..Count(launch)
      /\ me.n = KBefore(launch)[me.t] + me.k
      /\ launch.gather = "m" => me.k = 0 /\ me.i = me.t - 1
      /\ launch.gather = "k" => me.k < KOf(launch, me.t) /\ me.i = me.n
  BY <1>1, <1>2, LaunchIs DEF LoadPlace, Among, Out
<1>6. KOf(launch, me.t) \in Nat BY <1>1, <1>5, LaunchIs
<1>7. got \in Pair
  <2>1. me.t \in Nat BY <1>1, <1>5, LaunchIs
  <2>2. \A k \in Nat : <<me.t, k>> \in Pair BY <2>1 DEF Pair
  <2> QED BY <1>3, <1>4, <1>5, <2>2
<1> HIDE DEF got, at
<1>8. new.at = at /\ new.t = me.t /\ new.k = me.k /\ new.n = me.n /\ new.i = me.i + 1 /\ new.got = got
  BY <1>1 DEF LoadRec
<1> HIDE DEF me
<1>9. PICK x : x = new OBVIOUS
<1>10. x.at = at /\ x.t = me.t /\ x.k = me.k /\ x.n = me.n /\ x.i = me.i + 1 /\ x.got = got BY <1>8, <1>9
<1> HIDE DEF new
<1>11. LoadPlace(launch, x) /\ x.at \in {"fetch", "signal", "read"}
  <2>1. CASE launch.gather = "m"
    <3>1. x.at = KTile(x.k, x.t) BY <1>5, <1>10, <2>1 DEF at
    <3>2. x.i = x.t /\ x.got = <<x.t, 0>> BY <1>3, <1>5, <1>10, <2>1
    <3>3. x.t \in 1..Count(launch) /\ x.k \in Nat /\ x.k <= KOf(launch, x.t) /\ x.n = KBefore(launch)[x.t] + x.k
      BY <1>4, <1>5, <1>6, <1>10, <2>1
    <3>4. LoadPlace(launch, x) BY <1>1, <2>1, <3>1, <3>2, <3>3, KTilePlace
    <3>5. x.at # "index" /\ x.at \in {"index", "fetch", "signal", "read"} BY <2>1, <3>1 DEF KTile
    <3> QED BY <3>4, <3>5
  <2>2. CASE launch.gather = "k"
    <3>1. x.at = "fetch" BY <1>10, <2>2 DEF at
    <3>2. x.i = x.n + 1 /\ x.got = <<x.t, x.k>> BY <1>3, <1>5, <1>10, <2>2
    <3> QED BY <1>5, <1>10, <2>2, <3>1, <3>2 DEF LoadPlace, Among, Out
  <2> QED BY <1>5, <2>1, <2>2
<1>12. new \in LoadRec(launch)
  <2>1. PICK a \in {"fetch", "signal", "read"} : a = at BY <1>10, <1>11
  <2>2. PICK j \in Nat : j = me.i + 1 BY <1>4
  <2>3. new = [me EXCEPT !.got = got, !.i = j, !.at = a] BY <2>1, <2>2 DEF new
  <2> QED BY <1>1, <1>7, <2>3 DEF LoadRec
<1>13. LoadMoves(c, w) /\ load'[c][w] = x BY <1>2, <1>9, <1>11, <1>12, LoadMovesTo
<1> QED BY <1>2, <1>3, <1>10, <1>11, <1>13 DEF me
-----------------------------------------------------------------------------
(* Where the other processes go: process c of a kind becomes g[c].         *)
Moved(f, g, c, S) == g \in [Ctas -> S] /\ \A d \in Ctas : d # c => g[d] = f[d]

(* An update of one process moves no other.                                *)
LEMMA MovedTo ==
  ASSUME NEW S, NEW f \in [Ctas -> S], NEW c \in Ctas, NEW new \in S, NEW g, g = [f EXCEPT ![c] = new]
  PROVE  Moved(f, g, c, S) /\ g[c] = new
BY DEF Moved

(* The tile that a process other than a load warp finds in its slot.       *)
LEMMA NextTile ==
  ASSUME Types, Places, SlotsOK, NEW c \in Ctas, NEW kind \in {"mma", "epi", "sched", "index", "cload"},
         kind = "index" => Gathers, kind = "cload" => HasC,
         NEW t, t = TileOf(<<kind, <<c, 0>>>>), SlotReady(t)
  PROVE  /\ SlotTile(t) = t + 1 /\ t \in 1..Count(launch) /\ t + 1 \in TilesOf(launch)
         /\ t + 1 \in 1..Count(launch) \/ t + 1 = Count(launch) + 1
         /\ Valid(t + 1) <=> t + 1 \in 1..Count(launch)
<1>1. <<kind, <<c, 0>>>> \in Readers BY ReadersAre
<1>2. launch \in Launches BY DEF Types
<1>3. Count(launch) \in Nat BY <1>2, LaunchIs
<1>4. t \in 1..Count(launch) /\ SlotTile(t) = t + 1 BY <1>1, SlotSeen, Names
<1>5. Valid(t + 1) <=> t + 1 \in 1..Count(launch) BY Names
<1> QED BY <1>3, <1>4, <1>5 DEF TilesOf

-----------------------------------------------------------------------------
(* The index warp.                                                         *)
LEMMA PutIndicesTo ==
  ASSUME Types, Places, NEW c \in Ctas, PutIndices(c)
  PROVE  LET me == index[c]  new == index'[c] IN
         /\ Moved(index, index', c, IndexRec(launch)) /\ IndexPlace(launch, new) /\ launch' = launch
         /\ Gathers /\ IsFree(idx[c].empty, me.i)
         /\ idx' = [idx EXCEPT ![c] = Put(idx[c], me.i, IndexAt(launch, me.i))]
         /\ me.i \in Nat /\ IndexAt(launch, me.i) \in Pair
         /\ new.t = me.t /\ new.i = me.i + 1
<1> DEFINE me == index[c]
           new == [me EXCEPT !.k = @ + 1, !.i = @ + 1]
<1>1. launch \in Launches /\ me \in IndexRec(launch) /\ IndexPlace(launch, me) BY DEF Types, Places
<1>2. /\ me.at = "put" /\ me.k < EntriesOf(launch, me.t) /\ IsFree(idx[c].empty, me.i)
      /\ launch' = launch /\ index' = [index EXCEPT ![c] = new]
      /\ idx' = [idx EXCEPT ![c] = Put(idx[c], me.i, <<me.t, me.k>>)]
  BY Names DEF PutIndices, IndexRest
<1>3. index \in [Ctas -> IndexRec(launch)] BY DEF Types
<1>4. me.k \in Nat /\ me.i \in Nat /\ me.t \in TilesOf(launch) BY <1>1 DEF IndexRec
<1>5. launch.gather # "none" /\ me.t \in 1..Count(launch) /\ me.i = IBefore(launch, me.t) + me.k
  BY <1>1, <1>2 DEF IndexPlace, Among, Out
<1>6. EntriesOf(launch, me.t) \in Nat /\ KOf(launch, me.t) \in Nat /\ launch.gather \in {"m", "k"} /\ me.t \in Nat
  BY <1>1, <1>5, LaunchIs
<1>7. IndexAt(launch, me.i) = <<me.t, me.k>>
  <2>1. CASE launch.gather = "m"
    <3>1. me.k = 0 /\ me.i = me.t - 1 BY <1>2, <1>4, <1>5, <1>6, <2>1 DEF EntriesOf, IBefore
    <3> QED BY <1>6, <2>1, <3>1 DEF IndexAt
  <2>2. CASE launch.gather = "k"
    <3>1. me.k < KOf(launch, me.t) /\ me.i = KBefore(launch)[me.t] + me.k BY <1>2, <1>5, <2>2 DEF EntriesOf, IBefore
    <3>2. At(launch, KBefore(launch)[me.t] + me.k) = <<me.t, me.k>> BY <1>1, <1>4, <1>5, <3>1, AtIs
    <3> QED BY <2>2, <3>1, <3>2 DEF IndexAt
  <2> QED BY <1>6, <2>1, <2>2
<1>8. IndexAt(launch, me.i) \in Pair BY <1>4, <1>6, <1>7 DEF Pair
<1>9. new.at = "put" /\ new.t = me.t /\ new.k = me.k + 1 /\ new.i = me.i + 1 /\ new \in IndexRec(launch)
  <2>1. PICK j \in Nat, i \in Nat : j = me.k + 1 /\ i = me.i + 1 BY <1>4
  <2>2. new = [me EXCEPT !.k = j, !.i = i] BY <2>1
  <2> HIDE DEF new
  <2> QED BY <1>1, <1>2, <2>1, <2>2 DEF IndexRec
<1> HIDE DEF me
<1>10. IndexPlace(launch, new)
  <2>1. IBefore(launch, me.t) \in Nat
    <3>1. KBefore(launch)[me.t] \in Nat BY <1>1, <1>4, KBeforeIs DEF TilesOf
    <3> QED BY <1>5, <1>6, <3>1 DEF IBefore
  <2> HIDE DEF new
  <2> QED BY <1>2, <1>4, <1>5, <1>6, <1>9, <2>1 DEF IndexPlace, Among, Out
<1>11. PICK x : x = new OBVIOUS
<1> HIDE DEF new
<1>12. Moved(index, index', c, IndexRec(launch)) /\ index'[c] = x BY <1>2, <1>3, <1>9, <1>11, MovedTo
<1> QED BY <1>2, <1>4, <1>5, <1>7, <1>8, <1>9, <1>10, <1>11, <1>12, Names DEF me

(* It takes the next tile when the entries of this one are put.            *)
LEMMA IndexAdvanceTo ==
  ASSUME Types, Places, SlotsOK, NEW c \in Ctas, IndexAdvance(c)
  PROVE  LET me == index[c]  new == index'[c] IN
         /\ Moved(index, index', c, IndexRec(launch)) /\ IndexPlace(launch, new) /\ launch' = launch
         /\ Gathers /\ SlotReady(me.t) /\ ReadSlot(me.t) /\ me.t \in 1..Count(launch)
         /\ new.t = me.t + 1 /\ new.i = me.i
<1> DEFINE me == index[c]
           t == SlotTile(me.t)
           at == OrDone(t, "put")
           new == [me EXCEPT !.t = t, !.k = 0, !.at = at]
<1>1. launch \in Launches /\ me \in IndexRec(launch) /\ IndexPlace(launch, me) BY DEF Types, Places
<1>2. /\ me.at = "put" /\ me.k = EntriesOf(launch, me.t) /\ SlotReady(me.t) /\ ReadSlot(me.t)
      /\ launch' = launch /\ index' = [index EXCEPT ![c] = new]
  BY Names DEF IndexAdvance, IndexRest
<1>3. index \in [Ctas -> IndexRec(launch)] BY DEF Types
<1>4. launch.gather # "none" /\ me.t \in 1..Count(launch) /\ me.i = IBefore(launch, me.t) + me.k
  BY <1>1, <1>2 DEF IndexPlace, Among, Out
<1>5. me.t \in Nat /\ me.k \in Nat /\ me.i \in Nat /\ Count(launch) \in Nat BY <1>1, <1>4, LaunchIs DEF IndexRec
<1>6. /\ t = me.t + 1 /\ me.t + 1 \in TilesOf(launch)
      /\ at = IF me.t + 1 \in 1..Count(launch) THEN "put" ELSE "done"
      /\ me.t + 1 \in 1..Count(launch) \/ me.t + 1 = Count(launch) + 1
  <2>1. me.t = TileOf(<<"index", <<c, 0>>>>) BY TilesAre
  <2>2. Gathers BY <1>4, Names
  <2>3. PICK u : u = me.t OBVIOUS
  <2> HIDE DEF me
  <2>4. /\ SlotTile(u) = u + 1 /\ u + 1 \in TilesOf(launch)
        /\ u + 1 \in 1..Count(launch) \/ u + 1 = Count(launch) + 1
        /\ Valid(u + 1) <=> u + 1 \in 1..Count(launch)
    BY <1>2, <2>1, <2>2, <2>3, NextTile
  <2> QED BY <2>3, <2>4 DEF OrDone, t, at
<1> HIDE DEF t, at
<1>7. new \in IndexRec(launch)
  <2>1. PICK u \in TilesOf(launch), a \in {"put", "done"} : u = t /\ a = at BY <1>6
  <2>2. new = [me EXCEPT !.t = u, !.k = 0, !.at = a] BY <2>1
  <2> QED BY <1>1, <2>2 DEF IndexRec
<1>8. new.at = at /\ new.t = me.t + 1 /\ new.k = 0 /\ new.i = me.i BY <1>1, <1>6 DEF IndexRec
<1>9. new.i = IBefore(launch, new.t)
  <2>1. CASE launch.gather = "m"
    <3>1. me.k = 1 /\ me.i = me.t - 1 + me.k BY <1>2, <1>4, <2>1 DEF EntriesOf, IBefore
    <3>2. IBefore(launch, new.t) = new.t - 1 BY <2>1 DEF IBefore
    <3> HIDE DEF new, me
    <3> QED BY <1>5, <1>8, <3>1, <3>2
  <2>2. CASE launch.gather # "m"
    <3>1. me.k = KOf(launch, me.t) /\ me.i = KBefore(launch)[me.t] + me.k BY <1>2, <1>4, <2>2 DEF EntriesOf, IBefore
    <3>2. IBefore(launch, new.t) = KBefore(launch)[me.t + 1] BY <1>8, <2>2 DEF IBefore
    <3> QED BY <1>1, <1>4, <1>8, <3>1, <3>2, KBeforeIs
  <2> QED BY <2>1, <2>2
<1>10. PICK x : x = new OBVIOUS
<1> HIDE DEF new, me
<1>11. IndexPlace(launch, x)
  <2>1. IBefore(launch, x.t) \in Nat BY <1>5, <1>8, <1>9, <1>10
  <2>2. x.at = "put" => 0 <= EntriesOf(launch, x.t)
    <3> SUFFICES ASSUME x.at = "put" PROVE 0 <= EntriesOf(launch, x.t) OBVIOUS
    <3>1. x.t \in 1..Count(launch) BY <1>6, <1>8, <1>10
    <3> QED BY <1>1, <3>1, LaunchIs
  <2>3. x.i = IBefore(launch, x.t) + x.k BY <1>8, <1>9, <1>10, <2>1
  <2>4. Among(launch, x) BY <1>6, <1>8, <1>10 DEF Among, Out
  <2> QED BY <1>4, <1>8, <1>10, <2>2, <2>3, <2>4 DEF IndexPlace
<1>12. Moved(index, index', c, IndexRec(launch)) /\ index'[c] = x BY <1>2, <1>3, <1>7, <1>10, MovedTo
<1> QED BY <1>2, <1>4, <1>8, <1>10, <1>11, <1>12, Names DEF me
-----------------------------------------------------------------------------
(* The warp that loads C.                                                  *)
CLoadMoves(c) ==
  Moved(cload, cload', c, CLoadRec(launch)) /\ CLoadPlace(launch, cload'[c]) /\ launch' = launch

(* It begins.                                                              *)
LEMMA CBeginTo ==
  ASSUME Types, Places, NEW c \in Ctas, CBegin(c)
  PROVE  LET me == cload[c]  new == cload'[c] IN
         CLoadMoves(c) /\ HasC /\ new.t = me.t /\ new.r = me.r
<1> DEFINE me == cload[c]
           new == [me EXCEPT !.at = "c"]
<1>1. launch \in Launches /\ me \in CLoadRec(launch) /\ CLoadPlace(launch, me) BY DEF Types, Places
<1>2. me.at = "begin" /\ launch' = launch /\ cload' = [cload EXCEPT ![c] = new]
  <2>1. cload' = [cload EXCEPT ![c].at = "c"] /\ me.at = "begin" /\ launch' = launch BY DEF CBegin, CRest
  <2> QED BY <2>1
<1>3. cload \in [Ctas -> CLoadRec(launch)] BY DEF Types
<1>4. new.at = "c" /\ new.t = me.t /\ new.sub = me.sub /\ new.r = me.r /\ new \in CLoadRec(launch)
  BY <1>1 DEF CLoadRec
<1>5. launch.cStages \in Nat /\ launch.subtiles \in Nat BY <1>1, LaunchIs
<1> HIDE DEF me
<1>6. PICK x : x = new OBVIOUS
<1> HIDE DEF new
<1>7. CLoadPlace(launch, x) /\ HasC
  <2>1. launch.cStages > 0 BY <1>1, <1>2, <1>5 DEF CLoadPlace
  <2>2. Among(launch, me) /\ me.sub = 0 /\ me.r = CBefore(launch)[me.t] + me.sub BY <1>1, <1>2, <2>1 DEF CLoadPlace
  <2> QED BY <1>2, <1>4, <1>5, <1>6, <2>1, <2>2, Names DEF CLoadPlace, Among, Out
<1>8. Moved(cload, cload', c, CLoadRec(launch)) /\ cload'[c] = x BY <1>2, <1>3, <1>4, <1>6, MovedTo
<1> QED BY <1>2, <1>4, <1>6, <1>7, <1>8 DEF me, CLoadMoves

(* It fills the stage of the subtile it is at.                             *)
LEMMA FetchCTo ==
  ASSUME Types, Places, NEW c \in Ctas, FetchC(c)
  PROVE  LET me == cload[c]  new == cload'[c] IN
         /\ CLoadMoves(c) /\ HasC /\ new.t = me.t /\ new.r = me.r + 1
         /\ IsFree(cring[c].empty, me.r) /\ me.r \in Nat /\ me.sub \in Subs
         /\ cring' = [cring EXCEPT ![c] = Put(cring[c], me.r, <<me.t, me.sub>>)]
         /\ me.t \in 1..N /\ UsesC(me.t) /\ me.r = CBefore(launch)[me.t] + me.sub
<1> DEFINE me == cload[c]
           new == [me EXCEPT !.sub = @ + 1, !.r = @ + 1]
<1>1. launch \in Launches /\ me \in CLoadRec(launch) /\ CLoadPlace(launch, me) BY DEF Types, Places
<1>2. /\ me.at = "c" /\ LoadsC(me.t) /\ me.sub < launch.subtiles /\ IsFree(cring[c].empty, me.r)
      /\ launch' = launch /\ cload' = [cload EXCEPT ![c] = new]
      /\ cring' = [cring EXCEPT ![c] = Put(cring[c], me.r, <<me.t, me.sub>>)]
  BY DEF FetchC, CRest
<1>3. cload \in [Ctas -> CLoadRec(launch)] BY DEF Types
<1>4. me.sub \in Nat /\ me.r \in Nat BY <1>1 DEF CLoadRec
<1>5. new.at = me.at /\ new.t = me.t /\ new.sub = me.sub + 1 /\ new.r = me.r + 1 /\ new \in CLoadRec(launch)
  <2>1. PICK j \in Nat, i \in Nat : j = me.sub + 1 /\ i = me.r + 1 BY <1>4
  <2>2. new = [me EXCEPT !.sub = j, !.r = i] BY <2>1
  <2> HIDE DEF new
  <2> QED BY <1>1, <1>2, <2>1, <2>2 DEF CLoadRec
<1>6. launch.cStages \in Nat /\ launch.subtiles \in Nat BY <1>1, LaunchIs
<1> HIDE DEF me
<1>7. launch.cStages > 0 BY <1>1, <1>2, <1>6 DEF CLoadPlace
<1>8. Among(launch, me) /\ me.r = CBefore(launch)[me.t] + me.sub /\ me.t \in 1..Count(launch) /\ COf(launch, me.t)
      /\ HasC
  BY <1>1, <1>2, <1>7, Names DEF CLoadPlace, Among, Out
<1>9. CBefore(launch)[me.t] \in Nat
  <2>1. me.t \in 1..Count(launch) + 1 BY <1>1, <1>8, LaunchIs
  <2> QED BY <1>1, <2>1, CBeforeIs
<1>10. PICK x : x = new OBVIOUS
<1> HIDE DEF new
<1>11. CLoadPlace(launch, x)
  <2>1. x.r = CBefore(launch)[x.t] + x.sub BY <1>4, <1>5, <1>8, <1>9, <1>10
  <2>2. x.sub <= launch.subtiles BY <1>2, <1>4, <1>5, <1>6, <1>10
  <2> QED BY <1>2, <1>5, <1>7, <1>8, <1>10, <2>1, <2>2 DEF CLoadPlace, Among, Out
<1>12. Moved(cload, cload', c, CLoadRec(launch)) /\ cload'[c] = x BY <1>2, <1>3, <1>5, <1>10, MovedTo
<1>13. me.sub \in Subs BY <1>2, <1>4, <1>6 DEF Subs
<1> QED BY <1>2, <1>4, <1>5, <1>8, <1>10, <1>11, <1>12, <1>13, Names DEF me, CLoadMoves

(* It takes the next tile when the subtiles of this one are loaded.        *)
LEMMA CAdvanceTo ==
  ASSUME Types, Places, SlotsOK, NEW c \in Ctas, CAdvance(c)
  PROVE  LET me == cload[c]  new == cload'[c] IN
         /\ CLoadMoves(c) /\ HasC /\ new.t = me.t + 1 /\ new.r = me.r
         /\ SlotReady(me.t) /\ ReadSlot(me.t) /\ me.t \in 1..Count(launch)
<1> DEFINE me == cload[c]
           t == SlotTile(me.t)
           at == IF Valid(t) THEN "c" ELSE "tail"
           new == [me EXCEPT !.t = t, !.sub = 0, !.at = at]
<1>1. launch \in Launches /\ me \in CLoadRec(launch) /\ CLoadPlace(launch, me) BY DEF Types, Places
<1>2. /\ me.at = "c" /\ (LoadsC(me.t) => me.sub = launch.subtiles) /\ SlotReady(me.t) /\ ReadSlot(me.t)
      /\ launch' = launch /\ cload' = [cload EXCEPT ![c] = new]
  BY DEF CAdvance, CRest
<1>3. cload \in [Ctas -> CLoadRec(launch)] BY DEF Types
<1>4. launch.cStages \in Nat /\ launch.subtiles \in Nat /\ Count(launch) \in Nat BY <1>1, LaunchIs
<1>5. launch.cStages > 0 /\ HasC BY <1>1, <1>2, <1>4, Names DEF CLoadPlace
<1>6. me.t \in 1..Count(launch) /\ me.r = CBefore(launch)[me.t] + me.sub /\ me.sub = CsIn(launch, me.t)
  <2> HIDE DEF me, new
  <2>1. Among(launch, me) /\ me.r = CBefore(launch)[me.t] + me.sub /\ (~COf(launch, me.t) => me.sub = 0)
    BY <1>1, <1>2, <1>5 DEF CLoadPlace
  <2>2. COf(launch, me.t) => me.sub = launch.subtiles BY <1>2, <1>5, Names
  <2> QED BY <1>2, <2>1, <2>2 DEF Among, Out, CsIn
<1>7. /\ t = me.t + 1 /\ me.t + 1 \in TilesOf(launch)
      /\ at = IF me.t + 1 \in 1..Count(launch) THEN "c" ELSE "tail"
      /\ me.t + 1 \in 1..Count(launch) \/ me.t + 1 = Count(launch) + 1
  <2>1. me.t = TileOf(<<"cload", <<c, 0>>>>) BY TilesAre
  <2>2. PICK u : u = me.t OBVIOUS
  <2> HIDE DEF me
  <2>3. /\ SlotTile(u) = u + 1 /\ u + 1 \in TilesOf(launch)
        /\ u + 1 \in 1..Count(launch) \/ u + 1 = Count(launch) + 1
        /\ Valid(u + 1) <=> u + 1 \in 1..Count(launch)
    BY <1>2, <1>5, <2>1, <2>2, NextTile
  <2> QED BY <2>2, <2>3 DEF t, at
<1> HIDE DEF t, at
<1>8. new \in CLoadRec(launch)
  <2>1. PICK u \in TilesOf(launch), a \in {"c", "tail"} : u = t /\ a = at BY <1>7
  <2>2. new = [me EXCEPT !.t = u, !.sub = 0, !.at = a] BY <2>1
  <2> QED BY <1>1, <2>2 DEF CLoadRec
<1>9. new.at = at /\ new.t = me.t + 1 /\ new.sub = 0 /\ new.r = me.r BY <1>1, <1>7 DEF CLoadRec
<1>10. new.r = CBefore(launch)[new.t] BY <1>1, <1>6, <1>9, CBeforeIs
<1>11. new.r \in Nat BY <1>8 DEF CLoadRec
<1>12. PICK x : x = new OBVIOUS
<1> HIDE DEF new, me
<1>13. CLoadPlace(launch, x)
  <2>1. x.r = CBefore(launch)[x.t] + x.sub BY <1>9, <1>10, <1>11, <1>12
  <2>2. Among(launch, x) BY <1>7, <1>9, <1>12 DEF Among, Out
  <2> QED BY <1>4, <1>5, <1>9, <1>12, <2>1, <2>2 DEF CLoadPlace
<1>14. Moved(cload, cload', c, CLoadRec(launch)) /\ cload'[c] = x BY <1>2, <1>3, <1>8, <1>12, MovedTo
<1> QED BY <1>2, <1>5, <1>6, <1>9, <1>12, <1>13, <1>14 DEF me, CLoadMoves

(* It leaves.                                                              *)
LEMMA CTailTo ==
  ASSUME Types, Places, NEW c \in Ctas, CTail(c)
  PROVE  LET me == cload[c]  new == cload'[c] IN
         CLoadMoves(c) /\ new.t = me.t /\ new.r = me.r
<1> DEFINE me == cload[c]
           new == [me EXCEPT !.at = "done"]
<1>1. launch \in Launches /\ me \in CLoadRec(launch) /\ CLoadPlace(launch, me) BY DEF Types, Places
<1>2. me.at = "tail" /\ launch' = launch /\ cload' = [cload EXCEPT ![c] = new]
  <2>1. cload' = [cload EXCEPT ![c].at = "done"] /\ me.at = "tail" /\ launch' = launch BY DEF CTail, CRest
  <2> QED BY <2>1
<1>3. cload \in [Ctas -> CLoadRec(launch)] BY DEF Types
<1>4. new.at = "done" /\ new.t = me.t /\ new.sub = me.sub /\ new.r = me.r /\ new \in CLoadRec(launch)
  BY <1>1 DEF CLoadRec
<1> HIDE DEF me
<1>6. PICK x : x = new OBVIOUS
<1> HIDE DEF new
<1>7. CLoadPlace(launch, x) BY <1>1, <1>2, <1>4, <1>6 DEF CLoadPlace, Among, Out
<1>8. Moved(cload, cload', c, CLoadRec(launch)) /\ cload'[c] = x BY <1>2, <1>3, <1>4, <1>6, MovedTo
<1> QED BY <1>2, <1>4, <1>6, <1>7, <1>8 DEF me, CLoadMoves

-----------------------------------------------------------------------------
(* The schedulers.                                                         *)
SchedMoves(c) ==
  /\ Moved(sched, sched', c, SchedRec(launch)) /\ launch' = launch
  /\ SchedPlace(launch, sched'[c]) /\ (c # Leader => sched'[c].at \in {"read", "done"})

(* A step of the leader's scheduler that stays at its tile.                *)
LEMMA SchedIs ==
  ASSUME Types, Places, NEW c \in Ctas, NEW g \in {0, 1},
         NEW from \in {"sync", "synced", "write", "tail"}, NEW to \in {"synced", "write", "read", "done"},
         sched[c].at = from, to = "done" <=> from = "tail", launch' = launch, c = Leader,
         sched' = [sched EXCEPT ![c] = [sched[c] EXCEPT !.at = to, !.gen = g]]
  PROVE  SchedMoves(c) /\ sched'[c].t = sched[c].t /\ sched'[c].at = to
<1> DEFINE me == sched[c]
           new == [me EXCEPT !.at = to, !.gen = g]
<1>1. launch \in Launches /\ me \in SchedRec(launch) /\ SchedPlace(launch, me) BY DEF Types, Places
<1>2. sched' = [sched EXCEPT ![c] = new] /\ me.at = from OBVIOUS
<1>3. sched \in [Ctas -> SchedRec(launch)] BY DEF Types
<1>4. new.at = to /\ new.t = me.t /\ new \in SchedRec(launch) BY <1>1 DEF SchedRec
<1> HIDE DEF me
<1>6. PICK x : x = new OBVIOUS
<1> HIDE DEF new
<1>7. SchedPlace(launch, x) BY <1>1, <1>2, <1>4, <1>6 DEF SchedPlace, Among, Out
<1>8. Moved(sched, sched', c, SchedRec(launch)) /\ sched'[c] = x BY <1>2, <1>3, <1>4, <1>6, MovedTo
<1> QED BY <1>2, <1>4, <1>6, <1>7, <1>8 DEF me, SchedMoves

(* Of its steps only WriteSlot counts a slot as written.                   *)
LEMMA SchedTo ==
  ASSUME Types, Places, gate \in [arrived : {0, 1}, gen : {0, 1}],
         ThrottleSync \/ ThrottleWait \/ WriteSlot \/ SchedTail
  PROVE  /\ SchedMoves(0) /\ 0 \in Ctas /\ Leader = 0
         /\ sched'[0].t = sched[0].t
         /\ WriteSlot => sched[0].at = "write" /\ sched'[0].at = "read"
         /\ ~WriteSlot => sched[0].at # "read" /\ sched'[0].at # "read"
<1> DEFINE me == sched[0]
<1>1. launch \in Launches BY DEF Types
<1>2. 0 \in Ctas /\ Leader = 0 BY <1>1, CtasAre
<1>3. me \in SchedRec(launch) /\ sched \in [Ctas -> SchedRec(launch)] BY <1>2 DEF Types
<1>4. me.gen \in {0, 1} /\ me = [me EXCEPT !.gen = me.gen] BY <1>3 DEF SchedRec
<1>5. ThrottleSync => SchedMoves(0) /\ sched'[0].t = sched[0].t /\ sched[0].at # "read" /\ sched'[0].at # "read" /\ ~WriteSlot
  <2> SUFFICES ASSUME ThrottleSync
      PROVE SchedMoves(0) /\ sched'[0].t = sched[0].t /\ sched[0].at # "read" /\ sched'[0].at # "read" /\ ~WriteSlot
    OBVIOUS
  <2>1. me.at = "sync" /\ launch' = launch /\ gate.gen \in {0, 1} BY DEF ThrottleSync, SchedRest
  <2>2. sched' = [sched EXCEPT ![0] = [me EXCEPT !.at = "synced", !.gen = gate.gen]]
    <3>1. sched' = [sched EXCEPT ![0].at = "synced", ![0].gen = gate.gen] BY DEF ThrottleSync
    <3> QED BY <1>2, <1>3, <3>1
  <2>3. SchedMoves(0) /\ sched'[0].t = sched[0].t /\ sched'[0].at = "synced" BY <1>2, <2>1, <2>2, SchedIs
  <2> QED BY <2>1, <2>3 DEF WriteSlot
<1>6. ThrottleWait => SchedMoves(0) /\ sched'[0].t = sched[0].t /\ sched[0].at # "read" /\ sched'[0].at # "read" /\ ~WriteSlot
  <2> SUFFICES ASSUME ThrottleWait
      PROVE SchedMoves(0) /\ sched'[0].t = sched[0].t /\ sched[0].at # "read" /\ sched'[0].at # "read" /\ ~WriteSlot
    OBVIOUS
  <2>1. me.at = "synced" /\ launch' = launch BY DEF ThrottleWait, SchedRest
  <2>2. sched' = [sched EXCEPT ![0] = [me EXCEPT !.at = "write", !.gen = me.gen]]
    <3>1. sched' = [sched EXCEPT ![0].at = "write"] BY DEF ThrottleWait
    <3> QED BY <1>2, <1>3, <1>4, <3>1 DEF SchedRec
  <2>3. SchedMoves(0) /\ sched'[0].t = sched[0].t /\ sched'[0].at = "write" BY <1>2, <1>4, <2>1, <2>2, SchedIs
  <2> QED BY <2>1, <2>3 DEF WriteSlot
<1>7. WriteSlot => SchedMoves(0) /\ sched'[0].t = sched[0].t /\ sched[0].at = "write" /\ sched'[0].at = "read"
  <2> SUFFICES ASSUME WriteSlot
      PROVE SchedMoves(0) /\ sched'[0].t = sched[0].t /\ sched[0].at = "write" /\ sched'[0].at = "read"
    OBVIOUS
  <2>1. me.at = "write" /\ launch' = launch BY DEF WriteSlot, SchedRest
  <2>2. sched' = [sched EXCEPT ![0] = [me EXCEPT !.at = "read", !.gen = me.gen]]
    <3>1. sched' = [sched EXCEPT ![0].at = "read"] BY DEF WriteSlot
    <3> QED BY <1>2, <1>3, <1>4, <3>1 DEF SchedRec
  <2>3. SchedMoves(0) /\ sched'[0].t = sched[0].t /\ sched'[0].at = "read" BY <1>2, <1>4, <2>1, <2>2, SchedIs
  <2> QED BY <2>1, <2>3
<1>8. SchedTail => SchedMoves(0) /\ sched'[0].t = sched[0].t /\ sched[0].at # "read" /\ sched'[0].at # "read" /\ ~WriteSlot
  <2> SUFFICES ASSUME SchedTail
      PROVE SchedMoves(0) /\ sched'[0].t = sched[0].t /\ sched[0].at # "read" /\ sched'[0].at # "read" /\ ~WriteSlot
    OBVIOUS
  <2>1. me.at = "tail" /\ launch' = launch BY DEF SchedTail, SchedRest
  <2>2. sched' = [sched EXCEPT ![0] = [me EXCEPT !.at = "done", !.gen = me.gen]]
    <3>1. sched' = [sched EXCEPT ![0].at = "done"] BY DEF SchedTail
    <3> QED BY <1>2, <1>3, <1>4, <3>1 DEF SchedRec
  <2>3. SchedMoves(0) /\ sched'[0].t = sched[0].t /\ sched'[0].at = "done" BY <1>2, <1>4, <2>1, <2>2, SchedIs
  <2> QED BY <2>1, <2>3 DEF WriteSlot
<1> QED BY <1>2, <1>5, <1>6, <1>7, <1>8

(* A scheduler takes the next tile.                                        *)
LEMMA SchedAdvanceTo ==
  ASSUME Types, Places, SlotsOK, NEW c \in Ctas, SchedAdvance(c)
  PROVE  LET me == sched[c]  new == sched'[c] IN
         /\ SchedMoves(c) /\ new.t = me.t + 1 /\ me.at = "read"
         /\ SlotReady(me.t) /\ ReadSlot(me.t) /\ me.t \in 1..Count(launch)
         /\ c = Leader => new.at # "read"
<1> DEFINE me == sched[c]
           t == SlotTile(me.t)
           at == Throttled(c, t)
           new == [me EXCEPT !.t = t, !.at = at]
<1>1. launch \in Launches /\ me \in SchedRec(launch) /\ SchedPlace(launch, me) BY DEF Types, Places
<1>2. /\ me.at = "read" /\ SlotReady(me.t) /\ ReadSlot(me.t)
      /\ launch' = launch /\ sched' = [sched EXCEPT ![c] = new]
  BY DEF SchedAdvance, SchedRest
<1>3. sched \in [Ctas -> SchedRec(launch)] BY DEF Types
<1>4. Leader = 0 BY <1>1, CtasAre
<1>5. /\ t = me.t + 1 /\ me.t + 1 \in TilesOf(launch) /\ me.t \in 1..Count(launch)
      /\ me.t + 1 \in 1..Count(launch) \/ me.t + 1 = Count(launch) + 1
      /\ Valid(t) <=> me.t + 1 \in 1..Count(launch)
  <2>1. me.t = TileOf(<<"sched", <<c, 0>>>>) BY TilesAre
  <2>2. PICK u : u = me.t OBVIOUS
  <2> HIDE DEF me
  <2>3. /\ SlotTile(u) = u + 1 /\ u + 1 \in TilesOf(launch) /\ u \in 1..Count(launch)
        /\ u + 1 \in 1..Count(launch) \/ u + 1 = Count(launch) + 1
        /\ Valid(u + 1) <=> u + 1 \in 1..Count(launch)
    BY <1>2, <2>1, <2>2, NextTile
  <2> QED BY <2>2, <2>3 DEF t
<1> HIDE DEF t
<1>6. /\ at \in {"sync", "write", "read", "tail", "done"}
      /\ at \in Out <=> ~Valid(t)
      /\ c # Leader => at \in {"read", "done"}
      /\ c = Leader => at # "read"
  BY <1>4 DEF Throttled, Out
<1> HIDE DEF at
<1>7. new \in SchedRec(launch)
  <2>1. PICK u \in TilesOf(launch), a \in {"sync", "write", "read", "tail", "done"} : u = t /\ a = at BY <1>5, <1>6
  <2>2. new = [me EXCEPT !.t = u, !.at = a] BY <2>1
  <2> QED BY <1>1, <2>2 DEF SchedRec
<1>8. new.at = at /\ new.t = me.t + 1 BY <1>1, <1>5 DEF SchedRec
<1>9. PICK x : x = new OBVIOUS
<1> HIDE DEF new, me
<1>10. SchedPlace(launch, x) BY <1>5, <1>6, <1>8, <1>9 DEF SchedPlace, Among
<1>11. Moved(sched, sched', c, SchedRec(launch)) /\ sched'[c] = x BY <1>2, <1>3, <1>7, <1>9, MovedTo
<1> QED BY <1>2, <1>5, <1>6, <1>8, <1>9, <1>10, <1>11 DEF me, SchedMoves
-----------------------------------------------------------------------------
(* The epilogue warps.                                                     *)
EpiMoves(c) ==
  Moved(epi, epi', c, EpiRec(launch)) /\ EpiPlace(launch, epi'[c]) /\ launch' = launch

(* They have read the next tile's slot.                                    *)
LEMMA PeekTo ==
  ASSUME Types, Places, SlotsOK, NEW c \in Ctas, Peek(c)
  PROVE  LET me == epi[c]  new == epi'[c] IN
         /\ EpiMoves(c) /\ SlotReady(me.t) /\ ReadSlot(me.t) /\ me.t \in 1..Count(launch)
         /\ me.at = "peek" /\ new.at = "acc" /\ new.t = me.t /\ new.a = me.a /\ new.r = me.r
         /\ me.sub = 0 /\ new.sub = 0
<1> DEFINE me == epi[c]
           t == SlotTile(me.t)
           new == [me EXCEPT !.next = t, !.at = "acc"]
<1>1. launch \in Launches /\ me \in EpiRec(launch) /\ EpiPlace(launch, me) BY DEF Types, Places
<1>2. /\ me.at = "peek" /\ SlotReady(me.t) /\ ReadSlot(me.t)
      /\ launch' = launch /\ epi' = [epi EXCEPT ![c] = new]
  BY DEF Peek, EpiRest
<1>3. epi \in [Ctas -> EpiRec(launch)] BY DEF Types
<1>4. t = me.t + 1 /\ me.t + 1 \in TilesOf(launch) /\ me.t \in 1..Count(launch)
  <2>1. EpiTile(c) = me.t BY <1>2 DEF EpiTile
  <2>2. me.t = TileOf(<<"epi", <<c, 0>>>>) BY <2>1, TilesAre
  <2>3. PICK u : u = me.t OBVIOUS
  <2> HIDE DEF me
  <2>4. SlotTile(u) = u + 1 /\ u + 1 \in TilesOf(launch) /\ u \in 1..Count(launch)
    BY <1>2, <2>2, <2>3, NextTile
  <2> QED BY <2>3, <2>4 DEF t
<1> HIDE DEF t
<1>5. new \in EpiRec(launch)
  <2>1. PICK u \in TilesOf(launch) : u = t BY <1>4
  <2>2. new = [me EXCEPT !.next = u, !.at = "acc"] BY <2>1
  <2> QED BY <1>1, <2>2 DEF EpiRec
<1>6. new.at = "acc" /\ new.t = me.t /\ new.next = me.t + 1 /\ new.sub = me.sub /\ new.a = me.a /\ new.r = me.r
  BY <1>1, <1>4 DEF EpiRec
<1>7. PICK x : x = new OBVIOUS
<1> HIDE DEF new, me
<1>8. EpiPlace(launch, x) /\ me.sub = 0
  <2>1. me.sub = 0 /\ me.a = me.t - 1 /\ me.r = CBefore(launch)[me.t] + IF COf(launch, me.t) THEN 0 ELSE 0
    BY <1>1, <1>2 DEF EpiPlace
  <2> QED BY <1>4, <1>6, <1>7, <2>1 DEF EpiPlace, Among, Out
<1>9. Moved(epi, epi', c, EpiRec(launch)) /\ epi'[c] = x BY <1>2, <1>3, <1>5, <1>7, MovedTo
<1> QED BY <1>2, <1>4, <1>6, <1>7, <1>8, <1>9 DEF me, EpiMoves

(* The next subtile, or the next tile.                                     *)
NextIs(me, new) ==
  \/ /\ me.sub + 1 < launch.subtiles /\ new.sub = me.sub + 1 /\ new.at = "acc"
     /\ new.t = me.t /\ new.a = me.a
  \/ /\ me.sub + 1 = launch.subtiles /\ new.sub = 0 /\ new.at \in {"peek", "done"}
     /\ new.t = me.t + 1 /\ new.a = me.a + 1

(* NextSub goes there, and counts the C stage it read.                     *)
LEMMA NextSubIs ==
  ASSUME launch \in Launches, NEW me \in EpiRec(launch), EpiPlace(launch, me), me.at \in {"acc", "c"},
         NEW r \in Nat, r = me.r + IF COf(launch, me.t) THEN 1 ELSE 0,
         NEW new, new = [NextSub(me) EXCEPT !.r = r]
  PROVE  /\ new \in EpiRec(launch) /\ EpiPlace(launch, new) /\ NextIs(me, new) /\ new.r = r
         /\ me.t \in 1..Count(launch)
<1>1. /\ me.t \in 1..Count(launch) /\ me.next = me.t + 1 /\ me.a = me.t - 1
      /\ me.r = CBefore(launch)[me.t] + IF COf(launch, me.t) THEN me.sub ELSE 0
  BY DEF EpiPlace, Among, Out
<1>2. launch.subtiles \in Nat \ {0} /\ Count(launch) \in Nat /\ COf(launch, me.t) \in BOOLEAN BY <1>1, LaunchIs
<1>3. me.sub \in 0..launch.subtiles - 1 /\ me.a \in Nat /\ me.next \in TilesOf(launch) /\ me.t \in Nat /\ me.r \in Nat
  BY <1>1, <1>2 DEF EpiRec
<1>4. /\ CBefore(launch)[me.t] \in Nat /\ CBefore(launch)[me.t + 1] \in Nat
      /\ CBefore(launch)[me.t + 1] = CBefore(launch)[me.t] + CsIn(launch, me.t)
  <2>1. me.t \in 1..Count(launch) + 1 /\ me.t + 1 \in 1..Count(launch) + 1 BY <1>1, <1>2
  <2> QED BY <1>1, <2>1, CBeforeIs
<1>5. CASE me.sub + 1 < launch.subtiles
  <2>1. NextSub(me) = [me EXCEPT !.sub = me.sub + 1, !.at = "acc"] BY <1>5 DEF NextSub
  <2>2. PICK j \in 0..launch.subtiles - 1 : j = me.sub + 1 BY <1>2, <1>3, <1>5
  <2>3. new = [[me EXCEPT !.sub = j, !.at = "acc"] EXCEPT !.r = r] BY <2>1, <2>2
  <2>4. new \in EpiRec(launch) BY <2>3 DEF EpiRec
  <2>5. new.at = "acc" /\ new.t = me.t /\ new.sub = me.sub + 1 /\ new.a = me.a /\ new.r = r /\ new.next = me.next
    BY <2>2, <2>3 DEF EpiRec
  <2>6. EpiPlace(launch, new) BY <1>1, <1>2, <1>3, <1>4, <2>5 DEF EpiPlace, Among, Out
  <2> QED BY <1>1, <1>5, <2>4, <2>5, <2>6 DEF NextIs
<1>6. CASE ~(me.sub + 1 < launch.subtiles)
  <2>1. NextSub(me) = [me EXCEPT !.a = me.a + 1, !.t = me.next, !.sub = 0, !.at = OrDone(me.next, "peek")]
    BY <1>6 DEF NextSub
  <2>11. OrDone(me.next, "peek") \in {"peek", "done"} /\ me.a + 1 \in Nat BY <1>3 DEF OrDone
  <2>2. PICK j \in Nat, at \in {"peek", "done"} : j = me.a + 1 /\ at = OrDone(me.next, "peek")
    BY <2>11
  <2>3. new = [[me EXCEPT !.a = j, !.t = me.next, !.sub = 0, !.at = at] EXCEPT !.r = r] BY <2>1, <2>2
  <2>4. 0 \in 0..launch.subtiles - 1 BY <1>2
  <2>5. new \in EpiRec(launch) BY <1>3, <2>3, <2>4 DEF EpiRec
  <2>6. new.at = at /\ new.t = me.t + 1 /\ new.sub = 0 /\ new.a = me.a + 1 /\ new.r = r
    BY <1>1, <2>2, <2>3 DEF EpiRec
  <2>7. me.sub + 1 = launch.subtiles BY <1>2, <1>3, <1>6
  <2>8. Among(launch, new)
    <3>1. at = IF me.t + 1 \in 1..Count(launch) THEN "peek" ELSE "done" BY <1>1, <2>2, Names DEF OrDone
    <3>2. me.t + 1 \in 1..Count(launch) \/ me.t + 1 = Count(launch) + 1 BY <1>1, <1>2
    <3> QED BY <2>6, <3>1, <3>2 DEF Among, Out
  <2>9. new.r = CBefore(launch)[new.t] BY <1>1, <1>2, <1>3, <1>4, <2>6, <2>7 DEF CsIn
  <2>10. EpiPlace(launch, new) BY <1>1, <1>3, <1>4, <2>2, <2>6, <2>8, <2>9 DEF EpiPlace
  <2> QED BY <1>1, <2>2, <2>5, <2>6, <2>7, <2>10 DEF NextIs
<1> QED BY <1>5, <1>6

(* They have read a subtile of the accumulator.                            *)
LEMMA ReadAccTo ==
  ASSUME Types, Places, NEW c \in Ctas, ReadAcc(c)
  PROVE  LET me == epi[c]  new == epi'[c] IN
         /\ EpiMoves(c) /\ me.at = "acc" /\ me.t \in 1..Count(launch) /\ me \in EpiRec(launch)
         /\ me.sub = 0 => IsFull(acc.full[c], me.a)
         /\ acc' = IF me.sub = ReleaseAt THEN [acc EXCEPT !.empty = Arrive(acc.empty, me.a, launch.ctas)] ELSE acc
         /\ new.r = me.r
         /\ \/ UsesC(me.t) /\ new.at = "c" /\ new.t = me.t /\ new.sub = me.sub /\ new.a = me.a
            \/ ~UsesC(me.t) /\ NextIs(me, new)
<1> DEFINE me == epi[c]
           new == IF UsesC(me.t) THEN [me EXCEPT !.at = "c"] ELSE NextSub(me)
<1>1. launch \in Launches /\ me \in EpiRec(launch) /\ EpiPlace(launch, me) BY DEF Types, Places
<1>2. /\ me.at = "acc" /\ (me.sub = 0 => IsFull(acc.full[c], me.a))
      /\ launch' = launch /\ epi' = [epi EXCEPT ![c] = new]
      /\ acc' = IF me.sub = ReleaseAt THEN [acc EXCEPT !.empty = Arrive(acc.empty, me.a, launch.ctas)] ELSE acc
  BY DEF ReadAcc, EpiRest, HasAcc
<1>3. epi \in [Ctas -> EpiRec(launch)] BY DEF Types
<1>4. me.t \in 1..Count(launch) BY <1>1, <1>2 DEF EpiPlace, Among, Out
<1>5. UsesC(me.t) <=> COf(launch, me.t) BY Names
<1>6. /\ new \in EpiRec(launch) /\ EpiPlace(launch, new) /\ new.r = me.r
      /\ \/ UsesC(me.t) /\ new.at = "c" /\ new.t = me.t /\ new.sub = me.sub /\ new.a = me.a
         \/ ~UsesC(me.t) /\ NextIs(me, new)
  <2>1. CASE COf(launch, me.t)
    <3>1. new = [me EXCEPT !.at = "c"] BY <1>5, <2>1
    <3> HIDE DEF new
    <3>2. new \in EpiRec(launch) /\ new.at = "c" /\ new.t = me.t /\ new.sub = me.sub /\ new.a = me.a /\ new.r = me.r
          /\ new.next = me.next
      BY <1>1, <3>1 DEF EpiRec
    <3> HIDE DEF me
    <3>3. EpiPlace(launch, new) BY <1>1, <1>2, <1>4, <2>1, <3>2 DEF EpiPlace, Among, Out
    <3> QED BY <1>5, <2>1, <3>2, <3>3
  <2>2. CASE ~COf(launch, me.t)
    <3> HIDE DEF me
    <3>1. me.r \in Nat /\ me.r = me.r + IF COf(launch, me.t) THEN 1 ELSE 0 BY <1>1, <2>2 DEF EpiRec
    <3>2. me = [me EXCEPT !.r = me.r] BY <1>1 DEF EpiRec
    <3>3. new = NextSub(me) BY <1>5, <2>2
    <3>4. NextSub(me) = [NextSub(me) EXCEPT !.r = me.r]
      <4>1. NextSub(me) = [me EXCEPT !.sub = me.sub + 1, !.at = "acc"]
              \/ NextSub(me) = [me EXCEPT !.a = me.a + 1, !.t = me.next, !.sub = 0, !.at = OrDone(me.next, "peek")]
        BY DEF NextSub
      <4> QED BY <1>1, <4>1 DEF EpiRec
    <3> HIDE DEF new
    <3>5. new = [NextSub(me) EXCEPT !.r = me.r] BY <3>3, <3>4
    <3> QED BY <1>1, <1>2, <1>5, <2>2, <3>1, <3>5, NextSubIs
  <2> QED BY <2>1, <2>2
<1>7. PICK x : x = new OBVIOUS
<1> HIDE DEF new, me
<1>8. Moved(epi, epi', c, EpiRec(launch)) /\ epi'[c] = x BY <1>2, <1>3, <1>6, <1>7, MovedTo
<1> QED BY <1>1, <1>2, <1>4, <1>6, <1>7, <1>8 DEF me, EpiMoves

(* They have read a C stage.                                               *)
LEMMA ReadCTo ==
  ASSUME Types, Places, NEW c \in Ctas, ReadC(c)
  PROVE  LET me == epi[c]  new == epi'[c] IN
         /\ EpiMoves(c) /\ HasC /\ me.at = "c" /\ me.t \in 1..Count(launch) /\ me \in EpiRec(launch)
         /\ IsFull(cring[c].full, me.r)
         /\ cring' = [cring EXCEPT ![c].empty = Arrive(cring[c].empty, me.r, 1)]
         /\ new.r = me.r + 1 /\ NextIs(me, new)
<1> DEFINE me == epi[c]
           new == [NextSub(me) EXCEPT !.r = @ + 1]
<1>1. launch \in Launches /\ me \in EpiRec(launch) /\ EpiPlace(launch, me) BY DEF Types, Places
<1>2. /\ me.at = "c" /\ IsFull(cring[c].full, me.r)
      /\ launch' = launch /\ epi' = [epi EXCEPT ![c] = new]
      /\ cring' = [cring EXCEPT ![c].empty = Arrive(cring[c].empty, me.r, 1)]
  BY DEF ReadC, EpiRest
<1>3. epi \in [Ctas -> EpiRec(launch)] BY DEF Types
<1>4. me.t \in 1..Count(launch) /\ COf(launch, me.t) BY <1>1, <1>2 DEF EpiPlace, Among, Out
<1>5. HasC BY <1>4, Names DEF COf
<1> HIDE DEF me
<1>6. PICK r \in Nat : r = me.r + 1 BY <1>1 DEF EpiRec
<1>7. new = [NextSub(me) EXCEPT !.r = r]
  <2>1. NextSub(me).r = me.r BY <1>1 DEF EpiRec, NextSub
  <2> QED BY <1>6, <2>1
<1>8. PICK x : x = new OBVIOUS
<1> HIDE DEF new
<1>9. x \in EpiRec(launch) /\ EpiPlace(launch, x) /\ x.r = r /\ NextIs(me, x)
  BY <1>1, <1>2, <1>4, <1>6, <1>7, <1>8, NextSubIs
<1>10. Moved(epi, epi', c, EpiRec(launch)) /\ epi'[c] = x BY <1>2, <1>3, <1>8, <1>9, MovedTo
<1> QED BY <1>1, <1>2, <1>4, <1>5, <1>6, <1>8, <1>9, <1>10 DEF me, EpiMoves
-----------------------------------------------------------------------------
(* The MMA warps.                                                          *)
MmaMoves(c) ==
  /\ Moved(mma, mma', c, MmaRec(launch)) /\ launch' = launch
  /\ IF c = Leader THEN MmaPlace(launch, mma'[c]) ELSE ForwardPlace(launch, mma'[c])

(* The leader's warp issues the MMAs, the other one forwards.              *)
LEMMA MmaIs ==
  ASSUME Types, Places
  PROVE  /\ launch \in Launches /\ Leader \in Ctas /\ Leader = 0 /\ mma[Leader] \in MmaRec(launch)
         /\ MmaPlace(launch, mma[Leader]) /\ mma \in [Ctas -> MmaRec(launch)]
         /\ \A c \in Ctas : c # Leader => ForwardPlace(launch, mma[c]) /\ mma[c] \in MmaRec(launch)
BY CtasAre DEF Types, Places

(* The leader has an accumulator.                                          *)
LEMMA AccAcquireTo ==
  ASSUME Types, Places, AccAcquire
  PROVE  LET me == mma[Leader]  new == mma'[Leader] IN
         /\ MmaMoves(Leader) /\ me.at = "acquire" /\ new.at = "k" /\ IsFree(acc.empty, me.a)
         /\ new.t = me.t /\ new.k = 0 /\ new.n = me.n /\ new.a = me.a /\ me.k = 0
<1> DEFINE me == mma[Leader]
           new == [me EXCEPT !.at = "k"]
<1>1. launch \in Launches /\ Leader \in Ctas /\ me \in MmaRec(launch) /\ MmaPlace(launch, me)
      /\ mma \in [Ctas -> MmaRec(launch)] BY MmaIs
<1>2. me.at = "acquire" /\ IsFree(acc.empty, me.a) /\ launch' = launch /\ mma' = [mma EXCEPT ![Leader] = new]
  BY DEF AccAcquire, MmaRest
<1>3. /\ new.at = "k" /\ new.t = me.t /\ new.k = me.k /\ new.n = me.n /\ new.a = me.a
      /\ new \in MmaRec(launch)
  BY <1>1 DEF MmaRec
<1> HIDE DEF me
<1>4. me.t \in 1..Count(launch) /\ me.k = 0 BY <1>1, <1>2 DEF MmaPlace, Among, Out
<1>5. KOf(launch, me.t) \in Nat BY <1>1, <1>4, LaunchIs
<1>6. PICK x : x = new OBVIOUS
<1> HIDE DEF new
<1>7. MmaPlace(launch, x) BY <1>1, <1>2, <1>3, <1>4, <1>5, <1>6 DEF MmaPlace, Among, Out
<1>8. Moved(mma, mma', Leader, MmaRec(launch)) /\ mma'[Leader] = x BY <1>1, <1>2, <1>3, <1>6, MovedTo
<1> QED BY <1>2, <1>3, <1>4, <1>6, <1>7, <1>8 DEF me, MmaMoves

(* It has multiplied a k-tile of its tile.                                 *)
LEMMA MultiplyTo ==
  ASSUME Types, Places, Multiply
  PROVE  LET me == mma[Leader]  new == mma'[Leader] IN
         /\ MmaMoves(Leader) /\ me.at = "k" /\ new.at = "k" /\ me.t \in 1..Count(launch)
         /\ me.k < KOf(launch, me.t) /\ IsFull(ab[Leader].full, me.n)
         /\ me \in MmaRec(launch) /\ me.n = KBefore(launch)[me.t] + me.k
         /\ new.t = me.t /\ new.k = me.k + 1 /\ new.n = me.n + 1 /\ new.a = me.a /\ me.a = me.t - 1
<1> DEFINE me == mma[Leader]
           new == [me EXCEPT !.k = @ + 1, !.n = @ + 1]
<1>1. launch \in Launches /\ Leader \in Ctas /\ me \in MmaRec(launch) /\ MmaPlace(launch, me)
      /\ mma \in [Ctas -> MmaRec(launch)] BY MmaIs
<1>2. /\ me.at = "k" /\ me.k < KOf(launch, me.t) /\ IsFull(ab[Leader].full, me.n) /\ launch' = launch
      /\ mma' = [mma EXCEPT ![Leader] = new]
  BY Names DEF Multiply, MmaRest
<1>3. me.k \in Nat /\ me.n \in Nat BY <1>1 DEF MmaRec
<1>4. /\ new.at = "k" /\ new.t = me.t /\ new.k = me.k + 1 /\ new.n = me.n + 1 /\ new.a = me.a
      /\ new \in MmaRec(launch)
  <2>1. PICK j \in Nat, i \in Nat : j = me.k + 1 /\ i = me.n + 1 BY <1>3
  <2>2. new = [me EXCEPT !.k = j, !.n = i] BY <2>1
  <2> HIDE DEF new
  <2> QED BY <1>1, <1>2, <2>1, <2>2 DEF MmaRec
<1> HIDE DEF me
<1>5. me.t \in 1..Count(launch) /\ me.n = KBefore(launch)[me.t] + me.k /\ me.a = me.t - 1
  BY <1>1, <1>2 DEF MmaPlace, Among, Out
<1>6. KOf(launch, me.t) \in Nat /\ KBefore(launch)[me.t] \in Nat
  BY <1>1, <1>5, LaunchIs, KBeforeIs DEF MmaRec, TilesOf
<1>7. PICK x : x = new OBVIOUS
<1> HIDE DEF new
<1>8. MmaPlace(launch, x) BY <1>1, <1>2, <1>3, <1>4, <1>5, <1>6, <1>7 DEF MmaPlace, Among, Out
<1>9. Moved(mma, mma', Leader, MmaRec(launch)) /\ mma'[Leader] = x BY <1>1, <1>2, <1>4, <1>7, MovedTo
<1> QED BY <1>1, <1>2, <1>4, <1>5, <1>7, <1>8, <1>9 DEF me, MmaMoves

(* It has committed the accumulator after the tile's last k-tile.          *)
LEMMA AccCommitTo ==
  ASSUME Types, Places, AccCommit
  PROVE  LET me == mma[Leader]  new == mma'[Leader] IN
         /\ MmaMoves(Leader) /\ me.at = "k" /\ new.at = "read" /\ me.t \in 1..Count(launch)
         /\ me.k = KOf(launch, me.t) /\ me \in MmaRec(launch)
         /\ new.t = me.t /\ new.n = me.n /\ new.a = me.a + 1 /\ me.a = me.t - 1
<1> DEFINE me == mma[Leader]
           new == [me EXCEPT !.a = @ + 1, !.at = "read"]
<1>1. launch \in Launches /\ Leader \in Ctas /\ me \in MmaRec(launch) /\ MmaPlace(launch, me)
      /\ mma \in [Ctas -> MmaRec(launch)] BY MmaIs
<1>2. /\ me.at = "k" /\ me.k = KOf(launch, me.t) /\ launch' = launch
      /\ mma' = [mma EXCEPT ![Leader] = new]
  BY Names DEF AccCommit, MmaRest
<1>3. me.a \in Nat BY <1>1 DEF MmaRec
<1>4. /\ new.at = "read" /\ new.t = me.t /\ new.k = me.k /\ new.n = me.n /\ new.a = me.a + 1
      /\ new \in MmaRec(launch)
  <2>1. PICK i \in Nat : i = me.a + 1 BY <1>3
  <2>2. new = [me EXCEPT !.a = i, !.at = "read"] BY <2>1
  <2> HIDE DEF new
  <2> QED BY <1>1, <1>2, <2>1, <2>2 DEF MmaRec
<1> HIDE DEF me
<1>5. me.t \in 1..Count(launch) /\ me.n = KBefore(launch)[me.t] + me.k /\ me.a = me.t - 1
  BY <1>1, <1>2 DEF MmaPlace, Among, Out
<1>6. Count(launch) \in Nat BY <1>1, LaunchIs
<1>7. PICK x : x = new OBVIOUS
<1> HIDE DEF new
<1>8. MmaPlace(launch, x) BY <1>1, <1>2, <1>3, <1>4, <1>5, <1>6, <1>7 DEF MmaPlace, Among, Out
<1>9. Moved(mma, mma', Leader, MmaRec(launch)) /\ mma'[Leader] = x BY <1>1, <1>2, <1>4, <1>7, MovedTo
<1> QED BY <1>1, <1>2, <1>4, <1>5, <1>7, <1>8, <1>9 DEF me, MmaMoves

(* It leaves.                                                              *)
LEMMA MmaTailTo ==
  ASSUME Types, Places, MmaTail
  PROVE  LET me == mma[Leader]  new == mma'[Leader] IN
         /\ MmaMoves(Leader) /\ me.at = "tail" /\ new.at = "done"
         /\ new.t = me.t /\ new.n = me.n /\ new.a = me.a
<1> DEFINE me == mma[Leader]
           new == [me EXCEPT !.at = "done"]
<1>1. launch \in Launches /\ Leader \in Ctas /\ me \in MmaRec(launch) /\ MmaPlace(launch, me)
      /\ mma \in [Ctas -> MmaRec(launch)] BY MmaIs
<1>2. me.at = "tail" /\ launch' = launch /\ mma' = [mma EXCEPT ![Leader] = new]
  BY DEF MmaTail, MmaRest
<1>3. /\ new.at = "done" /\ new.t = me.t /\ new.k = me.k /\ new.n = me.n /\ new.a = me.a
      /\ new \in MmaRec(launch)
  BY <1>1 DEF MmaRec
<1> HIDE DEF me
<1>4. PICK x : x = new OBVIOUS
<1> HIDE DEF new
<1>5. MmaPlace(launch, x) BY <1>1, <1>2, <1>3, <1>4 DEF MmaPlace, Among, Out
<1>6. Moved(mma, mma', Leader, MmaRec(launch)) /\ mma'[Leader] = x BY <1>1, <1>2, <1>3, <1>4, MovedTo
<1> QED BY <1>2, <1>3, <1>4, <1>5, <1>6 DEF me, MmaMoves

(* An MMA warp takes the next tile.                                        *)
LEMMA MmaAdvanceTo ==
  ASSUME Types, Places, SlotsOK, NEW c \in Ctas, MmaAdvance(c)
  PROVE  LET me == mma[c]  new == mma'[c] IN
         /\ MmaMoves(c) /\ me.at = "read" /\ me.t \in 1..Count(launch)
         /\ SlotReady(me.t) /\ ReadSlot(me.t)
         /\ new.t = me.t + 1 /\ new.k = 0 /\ new.n = me.n /\ new.a = me.a
         /\ c = Leader => new.at # "k"
<1> DEFINE me == mma[c]
           t == SlotTile(me.t)
           at == Acquire(c, t)
           new == [me EXCEPT !.t = t, !.k = 0, !.at = at]
<1>1. launch \in Launches /\ me \in MmaRec(launch) /\ mma \in [Ctas -> MmaRec(launch)] /\ Leader = 0 BY MmaIs
<1>2. /\ me.at = "read" /\ SlotReady(me.t) /\ ReadSlot(me.t) /\ launch' = launch
      /\ mma' = [mma EXCEPT ![c] = new]
  BY DEF MmaAdvance, MmaRest
<1>3. /\ t = me.t + 1 /\ me.t + 1 \in TilesOf(launch) /\ me.t \in 1..Count(launch)
      /\ me.t + 1 \in 1..Count(launch) \/ me.t + 1 = Count(launch) + 1
      /\ Valid(t) <=> me.t + 1 \in 1..Count(launch)
  <2>1. me.t = TileOf(<<"mma", <<c, 0>>>>) BY TilesAre
  <2>2. PICK u : u = me.t OBVIOUS
  <2> HIDE DEF me
  <2>3. /\ SlotTile(u) = u + 1 /\ u + 1 \in TilesOf(launch) /\ u \in 1..Count(launch)
        /\ u + 1 \in 1..Count(launch) \/ u + 1 = Count(launch) + 1
        /\ Valid(u + 1) <=> u + 1 \in 1..Count(launch)
    BY <1>2, <2>1, <2>2, NextTile
  <2> QED BY <2>2, <2>3 DEF t
<1> HIDE DEF t
<1>4. /\ at \in {"acquire", "tail", "done", "k", "read"}
      /\ at \in Out <=> ~Valid(t)
      /\ c = Leader => at \in {"acquire", "tail"}
      /\ c # Leader => at \in {"k", "read", "done"} /\ (at = "k" => Forwards(t)) /\ (at = "read" => ~Forwards(t))
  BY <1>1 DEF Acquire, Out
<1> HIDE DEF at
<1>5. new \in MmaRec(launch)
  <2>1. PICK u \in TilesOf(launch), a \in {"acquire", "tail", "done", "k", "read"} : u = t /\ a = at BY <1>3, <1>4
  <2>2. new = [me EXCEPT !.t = u, !.k = 0, !.at = a] BY <2>1
  <2> QED BY <1>1, <2>2 DEF MmaRec
<1>6. new.at = at /\ new.t = me.t + 1 /\ new.k = 0 /\ new.n = me.n /\ new.a = me.a BY <1>1, <1>3 DEF MmaRec
<1>7. PICK x : x = new OBVIOUS
<1>8. me.t \in Nat /\ me.a \in Nat /\ me.n \in Nat BY <1>1, <1>3, LaunchIs DEF MmaRec
<1> HIDE DEF new, me
<1>9. Among(launch, x) BY <1>3, <1>4, <1>6, <1>7 DEF Among
<1>10. /\ KBefore(launch)[me.t + 1] = KBefore(launch)[me.t] + KOf(launch, me.t)
       /\ KBefore(launch)[me.t + 1] \in Nat
  BY <1>1, <1>3, KBeforeIs DEF TilesOf
<1>11. IF c = Leader THEN MmaPlace(launch, x) ELSE ForwardPlace(launch, x)
  <2>1. CASE c = Leader
    <3>1. MmaPlace(launch, me) BY <2>1, MmaIs DEF me
    <3>2. me.k = KOf(launch, me.t) /\ me.a = me.t /\ me.n = KBefore(launch)[me.t] + me.k
      BY <1>2, <3>1 DEF MmaPlace
    <3>3. x.at \in {"acquire", "tail"} /\ x.k = 0 /\ x.a = x.t - 1 /\ x.n = KBefore(launch)[x.t] + x.k
      BY <1>4, <1>6, <1>7, <1>8, <1>10, <2>1, <3>2
    <3> QED BY <1>9, <2>1, <3>3 DEF MmaPlace
  <2>2. CASE c # Leader
    <3>1. ForwardPlace(launch, me) BY <2>2, MmaIs DEF me
    <3>2. x.at \in {"k", "read", "done"} /\ x.k = 0 BY <1>4, <1>6, <1>7, <2>2
    <3>3. x.at = "k" => CpAsync /\ KOf(launch, x.t) > 0 BY <1>3, <1>4, <1>6, <1>7, <2>2, Names DEF Forwards
    <3>4. launch.gather # "none" /\ ~launch.tmaGather =>
            /\ x.n = KBefore(launch)[x.t] + x.k
            /\ x.at = "read" => KOf(launch, x.t) = 0
      <4> SUFFICES ASSUME launch.gather # "none" /\ ~launch.tmaGather
                   PROVE x.n = KBefore(launch)[x.t] + x.k /\ (x.at = "read" => KOf(launch, x.t) = 0)
        OBVIOUS
      <4>1. me.k = KOf(launch, me.t) /\ me.n = KBefore(launch)[me.t] + me.k
        BY <1>2, <3>1 DEF ForwardPlace
      <4>2. x.n = KBefore(launch)[x.t] + x.k BY <1>6, <1>7, <1>10, <4>1
      <4>3. x.at = "read" => KOf(launch, x.t) = 0
        <5> SUFFICES ASSUME x.at = "read" PROVE KOf(launch, x.t) = 0 OBVIOUS
        <5>1. ~(K(x.t) > 0) BY <1>3, <1>4, <1>6, <1>7, <2>2, Names DEF Forwards
        <5>2. x.t \in 1..Count(launch) BY <1>9 DEF Among, Out
        <5>3. KOf(launch, x.t) \in Nat BY <1>1, <5>2, LaunchIs
        <5> QED BY <5>1, <5>3, Names
      <4> QED BY <4>2, <4>3
    <3> QED BY <1>9, <2>2, <3>2, <3>3, <3>4, Names DEF ForwardPlace
  <2> QED BY <2>1, <2>2
<1>12. Moved(mma, mma', c, MmaRec(launch)) /\ mma'[c] = x BY <1>1, <1>2, <1>5, <1>7, MovedTo
<1> QED BY <1>2, <1>3, <1>4, <1>6, <1>7, <1>11, <1>12 DEF me, MmaMoves

(* The other CTA's warp has arrived for the k-tile it is at.               *)
LEMMA ForwardTo ==
  ASSUME Types, Places, NEW c \in Ctas, Forward(c)
  PROVE  LET me == mma[c]  new == mma'[c] IN
         /\ MmaMoves(c) /\ c # Leader /\ me.at = "k" /\ CpAsync
         /\ me.n \in Nat /\ IsFull(ab[c].full, me.n)
         /\ ab' = [ab EXCEPT ![Leader].full = Arrive(ab[Leader].full, me.n, AbArrivals(launch, Leader))]
         /\ new.t = me.t /\ new.n = me.n + 1
<1> DEFINE me == mma[c]
           at == IF me.k + 1 = K(me.t) THEN "read" ELSE "k"
           new == [me EXCEPT !.k = @ + 1, !.n = @ + 1, !.at = at]
<1>1. launch \in Launches /\ me \in MmaRec(launch) /\ mma \in [Ctas -> MmaRec(launch)] /\ Leader = 0 BY MmaIs
<1>2. /\ c # Leader /\ me.at = "k" /\ IsFull(ab[c].full, me.n) /\ launch' = launch
      /\ mma' = [mma EXCEPT ![c] = new]
      /\ ab' = [ab EXCEPT ![Leader].full = Arrive(ab[Leader].full, me.n, AbArrivals(launch, Leader))]
  BY DEF Forward, MmaRest
<1>3. ForwardPlace(launch, me) BY <1>2, MmaIs
<1>4. me.k \in Nat /\ me.n \in Nat BY <1>1 DEF MmaRec
<1>5. at \in {"read", "k"} /\ (at = "read" <=> me.k + 1 = KOf(launch, me.t)) BY Names
<1> HIDE DEF at
<1>6. /\ new.at = at /\ new.t = me.t /\ new.k = me.k + 1 /\ new.n = me.n + 1
      /\ new \in MmaRec(launch)
  <2>1. PICK j \in Nat, i \in Nat, a \in {"read", "k"} : j = me.k + 1 /\ i = me.n + 1 /\ a = at BY <1>4, <1>5
  <2>2. new = [me EXCEPT !.k = j, !.n = i, !.at = a] BY <2>1
  <2> HIDE DEF new
  <2> QED BY <1>1, <1>2, <2>1, <2>2 DEF MmaRec
<1> HIDE DEF me
<1>7. /\ me.t \in 1..Count(launch) /\ me.n = KBefore(launch)[me.t] + me.k /\ me.k < KOf(launch, me.t)
      /\ launch.gather # "none" /\ ~launch.tmaGather
  BY <1>2, <1>3 DEF ForwardPlace, Among, Out
<1>8. KOf(launch, me.t) \in Nat /\ KBefore(launch)[me.t] \in Nat
  BY <1>1, <1>7, LaunchIs, KBeforeIs DEF MmaRec, TilesOf
<1>9. PICK x : x = new OBVIOUS
<1> HIDE DEF new
<1>10. ForwardPlace(launch, x)
  <2>1. x.at \in {"read", "k"} /\ x.k = me.k + 1 /\ x.t = me.t BY <1>5, <1>6, <1>9
  <2>2. x.n = KBefore(launch)[x.t] + x.k BY <1>4, <1>6, <1>7, <1>8, <1>9
  <2>3. (x.at = "read" => x.k = KOf(launch, x.t)) /\ (x.at = "k" => x.k < KOf(launch, x.t))
    BY <1>4, <1>5, <1>6, <1>7, <1>8, <1>9
  <2> QED BY <1>7, <2>1, <2>2, <2>3 DEF ForwardPlace, Among, Out
<1>11. Moved(mma, mma', c, MmaRec(launch)) /\ mma'[c] = x BY <1>1, <1>2, <1>6, <1>9, MovedTo
<1> QED BY <1>2, <1>4, <1>6, <1>7, <1>9, <1>10, <1>11, Names DEF me, MmaMoves
-----------------------------------------------------------------------------
(* Every process is where it should be after a step of one of them.        *)
Good ==
  /\ load \in [Ctas -> [Loads -> LoadRec(launch)]]
  /\ \A c \in Ctas, w \in Loads : LoadPlace(launch, load[c][w])
IndexGood ==
  index \in [Ctas -> IndexRec(launch)] /\ \A c \in Ctas : IndexPlace(launch, index[c])
MmaGood ==
  /\ mma \in [Ctas -> MmaRec(launch)]
  /\ MmaPlace(launch, mma[Leader]) /\ \A c \in Ctas \ {Leader} : ForwardPlace(launch, mma[c])
EpiGood ==
  epi \in [Ctas -> EpiRec(launch)] /\ \A c \in Ctas : EpiPlace(launch, epi[c])
CLoadGood ==
  cload \in [Ctas -> CLoadRec(launch)] /\ \A c \in Ctas : CLoadPlace(launch, cload[c])
SchedGood ==
  /\ sched \in [Ctas -> SchedRec(launch)] /\ \A c \in Ctas : SchedPlace(launch, sched[c])
  /\ \A c \in Ctas \ {Leader} : sched[c].at \in {"read", "done"}

(* Types and Places, by kind of process.                                   *)
LEMMA AllGood ==
  Types /\ Places <=>
    launch \in Launches /\ Good /\ IndexGood /\ MmaGood /\ EpiGood /\ CLoadGood /\ SchedGood
BY DEF Types, Places, Good, IndexGood, MmaGood, EpiGood, CLoadGood, SchedGood

(* A kind none of which moves stays good ...                               *)
LEMMA GoodKept ==
  ASSUME launch' = launch
  PROVE  /\ Good /\ load' = load => Good'
         /\ IndexGood /\ index' = index => IndexGood'
         /\ MmaGood /\ mma' = mma => MmaGood'
         /\ EpiGood /\ epi' = epi => EpiGood'
         /\ CLoadGood /\ cload' = cload => CLoadGood'
         /\ SchedGood /\ sched' = sched => SchedGood'
<1>1. Ctas' = Ctas /\ Loads' = Loads BY Same
<1>2. Leader' = Leader BY DEF Leader
<1>3. Good /\ load' = load => Good' BY <1>1 DEF Good
<1>4. IndexGood /\ index' = index => IndexGood' BY <1>1 DEF IndexGood
<1>5. MmaGood /\ mma' = mma => MmaGood' BY <1>1, <1>2 DEF MmaGood
<1>6. EpiGood /\ epi' = epi => EpiGood' BY <1>1 DEF EpiGood
<1>7. CLoadGood /\ cload' = cload => CLoadGood' BY <1>1 DEF CLoadGood
<1>8. SchedGood /\ sched' = sched => SchedGood' BY <1>1, <1>2 DEF SchedGood
<1> QED BY <1>3, <1>4, <1>5, <1>6, <1>7, <1>8

(* ... and so does one of which one process moves.                         *)
LEMMA GoodMoved ==
  ASSUME Leader \in Ctas, NEW c \in Ctas
  PROVE  /\ \A w \in Loads : Good /\ LoadMoves(c, w) => Good'
         /\ IndexGood /\ Moved(index, index', c, IndexRec(launch)) /\ IndexPlace(launch, index'[c]) /\ launch' = launch
              => IndexGood'
         /\ MmaGood /\ MmaMoves(c) => MmaGood'
         /\ EpiGood /\ EpiMoves(c) => EpiGood'
         /\ CLoadGood /\ CLoadMoves(c) => CLoadGood'
         /\ SchedGood /\ SchedMoves(c) => SchedGood'
<1>1. launch' = launch => Ctas' = Ctas /\ Loads' = Loads BY Same
<1>2. Leader' = Leader BY DEF Leader
<1>3. ASSUME NEW w \in Loads, Good, LoadMoves(c, w) PROVE Good'
  <2>1. launch' = launch /\ load' \in [Ctas -> [Loads -> LoadRec(launch)]] /\ LoadPlace(launch, load'[c][w])
        /\ \A d \in Ctas, v \in Loads : ~(d = c /\ v = w) => load'[d][v] = load[d][v]
    BY <1>3 DEF LoadMoves
  <2>2. \A d \in Ctas, v \in Loads : LoadPlace(launch, load[d][v]) BY <1>3 DEF Good
  <2>3. \A d \in Ctas, v \in Loads : LoadPlace(launch, load'[d][v])
    <3> TAKE d \in Ctas, v \in Loads
    <3> QED BY <2>1, <2>2
  <2> QED BY <1>1, <2>1, <2>3 DEF Good
<1>4. IndexGood /\ Moved(index, index', c, IndexRec(launch)) /\ IndexPlace(launch, index'[c]) /\ launch' = launch
        => IndexGood'
  BY <1>1 DEF IndexGood, Moved
<1>5. MmaGood /\ MmaMoves(c) => MmaGood' BY <1>1, <1>2 DEF MmaGood, MmaMoves, Moved
<1>6. EpiGood /\ EpiMoves(c) => EpiGood' BY <1>1 DEF EpiGood, EpiMoves, Moved
<1>7. CLoadGood /\ CLoadMoves(c) => CLoadGood' BY <1>1 DEF CLoadGood, CLoadMoves, Moved
<1>8. SchedGood /\ SchedMoves(c) => SchedGood' BY <1>1, <1>2 DEF SchedGood, SchedMoves, Moved
<1> QED BY <1>3, <1>4, <1>5, <1>6, <1>7, <1>8

(* Every step.                                                             *)
LEMMA PlacesStep ==
  ASSUME Types, RingTypes, Places, SlotsOK, IndexRingOK, [Next]_vars
  PROVE  Types' /\ Places' /\ launch' = launch
<1>1. launch \in Launches /\ Good /\ IndexGood /\ MmaGood /\ EpiGood /\ CLoadGood /\ SchedGood BY AllGood
<1>2. Leader \in Ctas /\ Leader = 0 BY <1>1, CtasAre
<1>3. SUFFICES launch' = launch /\ Good' /\ IndexGood' /\ MmaGood' /\ EpiGood' /\ CLoadGood' /\ SchedGood'
  <2>1. Types' /\ Places' <=>
          (launch \in Launches /\ Good /\ IndexGood /\ MmaGood /\ EpiGood /\ CLoadGood /\ SchedGood)'
    BY DEF Types, Places, Good, IndexGood, MmaGood, EpiGood, CLoadGood, SchedGood
  <2> QED BY <1>1, <1>3, <2>1
<1>4. CASE UNCHANGED vars BY <1>1, <1>4, GoodKept DEF vars, procs
<1>5. ASSUME NEW c \in Ctas, NEW w \in Loads, LoadStep(c, w)
      PROVE  launch' = launch /\ Good' /\ IndexGood' /\ MmaGood' /\ EpiGood' /\ CLoadGood' /\ SchedGood'
  <2>1. LoadMoves(c, w)
    <3>1. CASE ThrottleCommit(c, w) BY <3>1, ThrottleCommitTo
    <3>2. CASE ReadIndices(c, w) BY <3>2, ReadIndicesTo
    <3>3. CASE Fetch(c, w) BY <3>3, FetchTo
    <3>4. CASE Signal(c, w) BY <3>4, SignalTo
    <3>5. CASE LoadAdvance(c, w) BY <3>5, LoadAdvanceTo
    <3>6. CASE LoadTail(c, w) BY <3>6, LoadTailTo
    <3> QED BY <1>5, <3>1, <3>2, <3>3, <3>4, <3>5, <3>6 DEF LoadStep
  <2>2. UNCHANGED <<index, mma, epi, cload, sched>>
    BY <1>5 DEF LoadStep, ThrottleCommit, ReadIndices, Fetch, Signal, LoadAdvance, LoadTail, LoadGoes
  <2>3. launch' = launch BY <2>1 DEF LoadMoves
  <2> QED BY <1>1, <1>2, <2>1, <2>2, <2>3, GoodKept, GoodMoved
<1>6. ASSUME NEW c \in Ctas, PutIndices(c) \/ IndexAdvance(c)
      PROVE  launch' = launch /\ Good' /\ IndexGood' /\ MmaGood' /\ EpiGood' /\ CLoadGood' /\ SchedGood'
  <2>1. Moved(index, index', c, IndexRec(launch)) /\ IndexPlace(launch, index'[c]) /\ launch' = launch
    BY <1>6, PutIndicesTo, IndexAdvanceTo
  <2>2. UNCHANGED <<load, mma, epi, cload, sched>> BY <1>6 DEF PutIndices, IndexAdvance, IndexRest
  <2> QED BY <1>1, <1>2, <2>1, <2>2, GoodKept, GoodMoved
<1>7. ASSUME NEW c \in Ctas, Forward(c) \/ MmaAdvance(c)
      PROVE  launch' = launch /\ Good' /\ IndexGood' /\ MmaGood' /\ EpiGood' /\ CLoadGood' /\ SchedGood'
  <2>1. MmaMoves(c) BY <1>7, ForwardTo, MmaAdvanceTo
  <2>2. UNCHANGED <<load, index, epi, cload, sched>> BY <1>7 DEF Forward, MmaAdvance, MmaRest
  <2>3. launch' = launch BY <2>1 DEF MmaMoves
  <2> QED BY <1>1, <1>2, <2>1, <2>2, <2>3, GoodKept, GoodMoved
<1>8. ASSUME NEW c \in Ctas, Peek(c) \/ ReadAcc(c) \/ ReadC(c)
      PROVE  launch' = launch /\ Good' /\ IndexGood' /\ MmaGood' /\ EpiGood' /\ CLoadGood' /\ SchedGood'
  <2>1. EpiMoves(c)
    <3>1. CASE Peek(c) BY <3>1, PeekTo
    <3>2. CASE ReadAcc(c) BY <3>2, ReadAccTo
    <3>3. CASE ReadC(c) BY <3>3, ReadCTo
    <3> QED BY <1>8, <3>1, <3>2, <3>3
  <2>2. UNCHANGED <<load, index, mma, cload, sched>> BY <1>8 DEF Peek, ReadAcc, ReadC, EpiRest
  <2>3. launch' = launch BY <2>1 DEF EpiMoves
  <2> QED BY <1>1, <1>2, <2>1, <2>2, <2>3, GoodKept, GoodMoved
<1>9. ASSUME NEW c \in Ctas, CBegin(c) \/ FetchC(c) \/ CAdvance(c) \/ CTail(c)
      PROVE  launch' = launch /\ Good' /\ IndexGood' /\ MmaGood' /\ EpiGood' /\ CLoadGood' /\ SchedGood'
  <2>1. CLoadMoves(c)
    <3>1. CASE CBegin(c) BY <3>1, CBeginTo
    <3>2. CASE FetchC(c) BY <3>2, FetchCTo
    <3>3. CASE CAdvance(c) BY <3>3, CAdvanceTo
    <3>4. CASE CTail(c) BY <3>4, CTailTo
    <3> QED BY <1>9, <3>1, <3>2, <3>3, <3>4
  <2>2. UNCHANGED <<load, index, mma, epi, sched>> BY <1>9 DEF CBegin, FetchC, CAdvance, CTail, CRest
  <2>3. launch' = launch BY <2>1 DEF CLoadMoves
  <2> QED BY <1>1, <1>2, <2>1, <2>2, <2>3, GoodKept, GoodMoved
<1>10. ASSUME NEW c \in Ctas, SchedAdvance(c) \/ (c = 0 /\ (ThrottleSync \/ ThrottleWait \/ WriteSlot \/ SchedTail))
      PROVE  launch' = launch /\ Good' /\ IndexGood' /\ MmaGood' /\ EpiGood' /\ CLoadGood' /\ SchedGood'
  <2>1. SchedMoves(c)
    <3>1. CASE SchedAdvance(c) BY <3>1, SchedAdvanceTo
    <3>2. CASE c = 0 /\ (ThrottleSync \/ ThrottleWait \/ WriteSlot \/ SchedTail)
      <4>1. gate \in [arrived : {0, 1}, gen : {0, 1}] BY DEF RingTypes
      <4> QED BY <3>2, <4>1, SchedTo
    <3> QED BY <1>10, <3>1, <3>2
  <2>2. UNCHANGED <<load, index, mma, epi, cload>>
    BY <1>10 DEF SchedAdvance, ThrottleSync, ThrottleWait, WriteSlot, SchedTail, SchedRest
  <2>3. launch' = launch BY <2>1 DEF SchedMoves
  <2> QED BY <1>1, <1>2, <2>1, <2>2, <2>3, GoodKept, GoodMoved
<1>11. ASSUME AccAcquire \/ Multiply \/ AccCommit \/ MmaTail
      PROVE  launch' = launch /\ Good' /\ IndexGood' /\ MmaGood' /\ EpiGood' /\ CLoadGood' /\ SchedGood'
  <2>1. MmaMoves(Leader)
    <3>1. CASE AccAcquire BY <3>1, AccAcquireTo
    <3>2. CASE Multiply BY <3>2, MultiplyTo
    <3>3. CASE AccCommit BY <3>3, AccCommitTo
    <3>4. CASE MmaTail BY <3>4, MmaTailTo
    <3> QED BY <1>11, <3>1, <3>2, <3>3, <3>4
  <2>2. UNCHANGED <<load, index, epi, cload, sched>> BY <1>11 DEF AccAcquire, Multiply, AccCommit, MmaTail, MmaRest
  <2>3. launch' = launch BY <2>1 DEF MmaMoves
  <2> QED BY <1>1, <1>2, <2>1, <2>2, <2>3, GoodKept, GoodMoved
<1>12. ASSUME NEW f \in flying, Land(f)
      PROVE  launch' = launch /\ Good' /\ IndexGood' /\ MmaGood' /\ EpiGood' /\ CLoadGood' /\ SchedGood'
  BY <1>1, <1>12, GoodKept DEF Land, procs
<1>13. CASE Next BY <1>2, <1>5, <1>6, <1>7, <1>8, <1>9, <1>10, <1>11, <1>12, <1>13 DEF Next, CtaStep
<1> QED BY <1>4, <1>13
-----------------------------------------------------------------------------
(* What is put in a ring, and what stays there.                            *)
LEMMA PutIs ==
  ASSUME NEW d \in Nat \ {0}, NEW D, NEW r \in RingOf(d, D), NEW n \in Nat, NEW x
  PROVE  /\ Put(r, n, x).data = [r.data EXCEPT ![n % d] = x]
         /\ Put(r, n, x).full = Arrive(r.full, n, 1) /\ Put(r, n, x).empty = r.empty
<1>1. DOMAIN r.full = 0..d-1 /\ r = [data |-> r.data, full |-> r.full, empty |-> r.empty] BY DEF RingOf
<1>2. Stage(r.full, n) = n % d BY <1>1, StageIs
<1>3. PICK s : s = Stage(r.full, n) OBVIOUS
<1>4. PICK a : a = Arrive(r.full, n, 1) OBVIOUS
<1>5. Put(r, n, x) = [r EXCEPT !.data[s] = x, !.full = a] BY <1>3, <1>4 DEF Put
<1> QED BY <1>1, <1>2, <1>3, <1>4, <1>5

(* What was put less than a round ago is in a stage of its own.            *)
LEMMA PutKeeps ==
  ASSUME NEW d \in Nat \ {0}, NEW w \in Nat, NEW q \in 0..w, w + 1 <= q + d
  PROVE  q % d \in 0..d-1 /\ w % d \in 0..d-1 /\ (q # w => q % d # w % d)
<1>1. q \in Nat /\ w % d \in 0..d-1 /\ q % d \in 0..d-1
  <2>1. q \in Nat OBVIOUS
  <2> QED BY <2>1, Lap
<1>2. CASE q # w
  <2>1. q \in q..q+d-1 /\ w \in q..q+d-1 OBVIOUS
  <2>2. q % d # w % d BY <1>1, <1>2, <2>1, Apart
  <2> QED BY <1>1, <2>2
<1> QED BY <1>1, <1>2

(* Whose tiles stay.                                                       *)
LEMMA TilesAreNext ==
  /\ \A c, w : TileOf(<<"load", <<c, w>>>>)' = load'[c][w].t
  /\ \A c : /\ TileOf(<<"mma", <<c, 0>>>>)' = mma'[c].t /\ TileOf(<<"epi", <<c, 0>>>>)' = EpiTile(c)'
            /\ TileOf(<<"sched", <<c, 0>>>>)' = sched'[c].t /\ TileOf(<<"index", <<c, 0>>>>)' = index'[c].t
            /\ TileOf(<<"cload", <<c, 0>>>>)' = cload'[c].t
BY DEF TileOf, EpiTile

(* Readers outside X stay at their tile when each kind's do.               *)
LEMMA OthersStay ==
  ASSUME NEW X,
         \A c \in Ctas, w \in Loads : <<"load", <<c, w>>>> \notin X => load'[c][w].t = load[c][w].t,
         \A c \in Ctas : <<"mma", <<c, 0>>>> \notin X => mma'[c].t = mma[c].t,
         \A c \in Ctas : <<"epi", <<c, 0>>>> \notin X => EpiTile(c)' = EpiTile(c),
         \A c \in Ctas : <<"sched", <<c, 0>>>> \notin X => sched'[c].t = sched[c].t,
         \A c \in Ctas : <<"index", <<c, 0>>>> \notin X => index'[c].t = index[c].t,
         \A c \in Ctas : <<"cload", <<c, 0>>>> \notin X => cload'[c].t = cload[c].t
  PROVE  \A y \in Readers : y \notin X => TileOf(y)' = TileOf(y)
<1> SUFFICES ASSUME NEW x \in Readers, x \notin X PROVE TileOf(x)' = TileOf(x) OBVIOUS
<1>1. CASE \E c \in Ctas, w \in Loads : x = <<"load", <<c, w>>>>
  <2>1. PICK c \in Ctas, w \in Loads : x = <<"load", <<c, w>>>> BY <1>1
  <2> QED BY <2>1, TilesAre, TilesAreNext
<1>2. CASE \E c \in Ctas, kind \in {"mma", "epi", "sched", "index", "cload"} : x = <<kind, <<c, 0>>>>
  <2>1. PICK c \in Ctas, kind \in {"mma", "epi", "sched", "index", "cload"} : x = <<kind, <<c, 0>>>> BY <1>2
  <2>2. CASE kind = "mma" BY <2>1, <2>2, TilesAre, TilesAreNext
  <2>3. CASE kind = "epi"
    <3>1. TileOf(x) = EpiTile(c) /\ TileOf(x)' = EpiTile(c)' /\ EpiTile(c)' = EpiTile(c)
      BY <2>1, <2>3, TilesAre, TilesAreNext
    <3> QED BY <3>1
  <2>4. CASE kind = "sched" BY <2>1, <2>4, TilesAre, TilesAreNext
  <2>5. CASE kind = "index" BY <2>1, <2>5, TilesAre, TilesAreNext
  <2>6. CASE kind = "cload" BY <2>1, <2>6, TilesAre, TilesAreNext
  <2> QED BY <2>1, <2>2, <2>3, <2>4, <2>5, <2>6
<1> QED BY <1>1, <1>2, ReadersAre

(* All readers do.                                                         *)
LEMMA AllStay ==
  ASSUME \A c \in Ctas, w \in Loads : load'[c][w].t = load[c][w].t,
         \A c \in Ctas : /\ mma'[c].t = mma[c].t /\ EpiTile(c)' = EpiTile(c) /\ sched'[c].t = sched[c].t
                         /\ index'[c].t = index[c].t /\ cload'[c].t = cload[c].t
  PROVE  \A y \in Readers : TileOf(y)' = TileOf(y)
<1>1. PICK X : X = {} OBVIOUS
<1>2. \A y \in Readers : y \notin X => TileOf(y)' = TileOf(y) BY OthersStay
<1> QED BY <1>1, <1>2

(* The epilogue warps' tile stays with them.                               *)
LEMMA EpiTileStays == epi' = epi => \A c : EpiTile(c)' = EpiTile(c)
BY DEF EpiTile

(* So do the slots written with the scheduler.                             *)
LEMMA WrittenStays == sched' = sched => Written' = Written
BY DEF Written, Leader

(* The scheduler writes a slot.                                            *)
LEMMA WriteSlotKeeps ==
  ASSUME Types, RingTypes, Places, SlotsOK, WriteSlot
  PROVE  SlotsOK'
<1> DEFINE d == SlotStages(launch)
           me == sched[0]
           R == Readers
           r == SlotsRead
<1>1. launch \in Launches /\ gate \in [arrived : {0, 1}, gen : {0, 1}] BY DEF Types, RingTypes
<1>2. d \in Nat \ {0} BY <1>1, Depths
<1>3. IsFiniteSet(R) /\ R # {} BY <1>1, ReadersCounted
<1>4. /\ SchedMoves(0) /\ Leader = 0 /\ 0 \in Ctas
      /\ sched'[0].t = me.t /\ me.at = "write" /\ sched'[0].at = "read"
  BY <1>1, SchedTo
<1>5. /\ launch' = launch /\ IsFree(slot.empty, me.t - 1) /\ slot' = Put(slot, me.t - 1, me.t + 1)
      /\ UNCHANGED <<load, index, mma, epi, cload>>
  BY DEF WriteSlot, SchedRest
<1>6. Written = me.t - 1 /\ Written \in Nat /\ me.t \in Nat BY <1>4, WrittenIs DEF Written
<1>7. Written' = me.t BY <1>4 DEF Written, Leader
<1>8. PICK w \in Nat : w = Written BY <1>6
<1>9. me.t - 1 = w /\ me.t + 1 = w + 2 /\ Written' = w + 1 BY <1>6, <1>7, <1>8
<1> HIDE DEF me, d, R, r
<1>10. /\ Settled(slot.full, w, d)
       /\ Emptying(slot.empty, R, r, w, d) /\ Within(R, r, w, d)
       /\ \A q \in 0..w - 1 : w <= q + d => slot.data[q % d] = q + 2
  BY <1>8 DEF SlotsOK, R, r, d
<1>11. slot \in RingOf(d, Nat) BY DEF RingTypes, d
<1>12. /\ slot'.data = [slot.data EXCEPT ![w % d] = w + 2]
       /\ slot'.full = Arrive(slot.full, w, 1) /\ slot'.empty = slot.empty
  BY <1>2, <1>5, <1>9, <1>11, PutIs
<1>13. Settled(slot'.full, w + 1, d) BY <1>2, <1>10, <1>12, SettledArrive
<1>14. \A x \in R : w + 1 <= r[x] + d BY <1>2, <1>5, <1>9, <1>10, EmptyingSees
<1>15. Emptying(slot'.empty, R, r, w + 1, d) /\ Within(R, r, w + 1, d)
  BY <1>2, <1>3, <1>10, <1>12, <1>14, EmptyingWrite
<1>16. ASSUME NEW q \in 0..w + 1 - 1, w + 1 <= q + d PROVE slot'.data[q % d] = q + 2
  <2>1. DOMAIN slot.data = 0..d-1 BY <1>11 DEF RingOf
  <2>2. q \in 0..w BY <1>16
  <2>5. w + 1 <= q + d BY <1>16
  <2>6. q % d \in 0..d-1 /\ w % d \in 0..d-1 /\ (q # w => q % d # w % d) BY <1>2, <2>2, <2>5, PutKeeps
  <2>7. slot'.data[q % d] = IF q = w THEN w + 2 ELSE slot.data[q % d] BY <1>12, <2>1, <2>6
  <2>8. q # w => slot.data[q % d] = q + 2
    <3>1. q # w => q \in 0..w - 1 /\ w <= q + d BY <1>2, <2>2, <2>5
    <3> QED BY <1>10, <3>1
  <2> QED BY <2>7, <2>8
<1>17. Readers' = R /\ SlotStages(launch)' = d BY <1>5, Same DEF R, d, SlotStages
<1>18. \A y \in Readers : TileOf(y)' = TileOf(y)
  <2>1. \A c \in Ctas : sched'[c].t = sched[c].t BY <1>4 DEF SchedMoves, Moved, me
  <2> QED BY <1>5, <2>1, EpiTileStays, AllStay
<1>19. SlotsRead' = r BY <1>17, <1>18 DEF SlotsRead, r, R
<1> QED BY <1>9, <1>13, <1>15, <1>16, <1>17, <1>19 DEF SlotsOK

(* Every step.                                                             *)
LEMMA SlotsStep ==
  ASSUME Types, RingTypes, Places, SlotsOK, IndexRingOK, [Next]_vars
  PROVE  SlotsOK'
<1>1. launch' = launch BY PlacesStep
<1>2. launch \in Launches /\ gate \in [arrived : {0, 1}, gen : {0, 1}] BY DEF Types, RingTypes
<1>3. Leader \in Ctas /\ Leader = 0 BY <1>2, CtasAre
<1>4. CASE UNCHANGED vars
  <2>1. \A y \in Readers : TileOf(y)' = TileOf(y) BY <1>4, EpiTileStays, AllStay DEF vars, procs
  <2> QED BY <1>1, <1>4, <2>1, SlotsStay, WrittenStays DEF vars, procs, rings
<1>5. ASSUME NEW c \in Ctas, NEW w \in Loads, LoadStep(c, w) PROVE SlotsOK'
  <2>1. UNCHANGED <<index, mma, epi, cload, sched>>
    BY <1>5 DEF LoadStep, ThrottleCommit, ReadIndices, Fetch, Signal, LoadAdvance, LoadTail, LoadGoes
  <2>2. Written' = Written BY <2>1, WrittenStays
  <2>3. CASE LoadAdvance(c, w)
    <3>1. /\ LoadMoves(c, w) /\ SlotReady(load[c][w].t) /\ ReadSlot(load[c][w].t)
          /\ load'[c][w].t = load[c][w].t + 1
      BY <2>3, LoadAdvanceTo
    <3>2. PICK x \in Readers : x = <<"load", <<c, w>>>> BY ReadersAre
    <3>3. \A d \in Ctas, v \in Loads : <<"load", <<d, v>>>> \notin {x} => load'[d][v].t = load[d][v].t
      BY <3>1, <3>2 DEF LoadMoves
    <3>4. \A y \in Readers : y \notin {x} => TileOf(y)' = TileOf(y) BY <2>1, <3>3, EpiTileStays, OthersStay
    <3>5. TileOf(x) = load[c][w].t /\ TileOf(x)' = load'[c][w].t BY <3>2, TilesAre, TilesAreNext
    <3>6. PICK t : t = TileOf(x) OBVIOUS
    <3>7. TileOf(x)' = t + 1 /\ SlotReady(t) /\ ReadSlot(t) BY <3>1, <3>5, <3>6
    <3> QED BY <1>1, <2>2, <3>4, <3>6, <3>7, SlotIsRead
  <2>4. CASE ~LoadAdvance(c, w)
    <3>1. LoadMoves(c, w) /\ load'[c][w].t = load[c][w].t
      <4>1. CASE ThrottleCommit(c, w) BY <4>1, ThrottleCommitTo
      <4>2. CASE ReadIndices(c, w) BY <4>2, ReadIndicesTo
      <4>3. CASE Fetch(c, w) BY <4>3, FetchTo
      <4>4. CASE Signal(c, w) BY <4>4, SignalTo
      <4>5. CASE LoadTail(c, w) BY <4>5, LoadTailTo
      <4> QED BY <1>5, <2>4, <4>1, <4>2, <4>3, <4>4, <4>5 DEF LoadStep
    <3>2. \A d \in Ctas, v \in Loads : load'[d][v].t = load[d][v].t BY <3>1 DEF LoadMoves
    <3>3. \A y \in Readers : TileOf(y)' = TileOf(y) BY <2>1, <3>2, EpiTileStays, AllStay
    <3>4. slot' = slot BY <1>5, <2>4 DEF LoadStep, ThrottleCommit, ReadIndices, Fetch, Signal, LoadTail
    <3> QED BY <1>1, <2>2, <3>3, <3>4, SlotsStay
  <2> QED BY <2>3, <2>4
<1>6. ASSUME NEW c \in Ctas, PutIndices(c) \/ IndexAdvance(c) PROVE SlotsOK'
  <2>1. UNCHANGED <<load, mma, epi, cload, sched>> BY <1>6 DEF PutIndices, IndexAdvance, IndexRest
  <2>2. Written' = Written BY <2>1, WrittenStays
  <2>3. CASE IndexAdvance(c)
    <3>1. /\ Moved(index, index', c, IndexRec(launch)) /\ Gathers
          /\ SlotReady(index[c].t) /\ ReadSlot(index[c].t) /\ index'[c].t = index[c].t + 1
      BY <2>3, IndexAdvanceTo
    <3>2. PICK x \in Readers : x = <<"index", <<c, 0>>>> BY <3>1, ReadersAre
    <3>3. \A d \in Ctas : <<"index", <<d, 0>>>> \notin {x} => index'[d].t = index[d].t BY <3>1, <3>2 DEF Moved
    <3>4. \A y \in Readers : y \notin {x} => TileOf(y)' = TileOf(y) BY <2>1, <3>3, EpiTileStays, OthersStay
    <3>5. TileOf(x) = index[c].t /\ TileOf(x)' = index'[c].t BY <3>2, TilesAre, TilesAreNext
    <3>6. PICK t : t = TileOf(x) OBVIOUS
    <3>7. TileOf(x)' = t + 1 /\ SlotReady(t) /\ ReadSlot(t) BY <3>1, <3>5, <3>6
    <3> QED BY <1>1, <2>2, <3>4, <3>6, <3>7, SlotIsRead
  <2>4. CASE PutIndices(c)
    <3>1. Moved(index, index', c, IndexRec(launch)) /\ index'[c].t = index[c].t BY <2>4, PutIndicesTo
    <3>2. \A d \in Ctas : index'[d].t = index[d].t BY <3>1 DEF Moved
    <3>3. \A y \in Readers : TileOf(y)' = TileOf(y) BY <2>1, <3>2, EpiTileStays, AllStay
    <3>4. slot' = slot BY <2>4 DEF PutIndices
    <3> QED BY <1>1, <2>2, <3>3, <3>4, SlotsStay
  <2> QED BY <1>6, <2>3, <2>4
<1>7. ASSUME NEW c \in Ctas, MmaAdvance(c) PROVE SlotsOK'
  <2>1. UNCHANGED <<load, index, epi, cload, sched>> BY <1>7 DEF MmaAdvance, MmaRest
  <2>2. Written' = Written BY <2>1, WrittenStays
  <2>3. /\ MmaMoves(c) /\ SlotReady(mma[c].t) /\ ReadSlot(mma[c].t) /\ mma'[c].t = mma[c].t + 1
    BY <1>7, MmaAdvanceTo
  <2>4. PICK x \in Readers : x = <<"mma", <<c, 0>>>> BY ReadersAre
  <2>5. \A d \in Ctas : <<"mma", <<d, 0>>>> \notin {x} => mma'[d].t = mma[d].t BY <2>3, <2>4 DEF MmaMoves, Moved
  <2>6. \A y \in Readers : y \notin {x} => TileOf(y)' = TileOf(y) BY <2>1, <2>5, EpiTileStays, OthersStay
  <2>7. TileOf(x) = mma[c].t /\ TileOf(x)' = mma'[c].t BY <2>4, TilesAre, TilesAreNext
  <2>8. PICK t : t = TileOf(x) OBVIOUS
  <2>9. TileOf(x)' = t + 1 /\ SlotReady(t) /\ ReadSlot(t) BY <2>3, <2>7, <2>8
  <2> QED BY <1>1, <2>2, <2>6, <2>8, <2>9, SlotIsRead
<1>8. ASSUME NEW c \in Ctas, MmaMoves(c), mma'[c].t = mma[c].t, UNCHANGED <<load, index, epi, cload, sched, slot>>
      PROVE  SlotsOK'
  <2>1. \A d \in Ctas : mma'[d].t = mma[d].t BY <1>8 DEF MmaMoves, Moved
  <2>2. \A y \in Readers : TileOf(y)' = TileOf(y) BY <1>8, <2>1, EpiTileStays, AllStay
  <2> QED BY <1>1, <1>8, <2>2, SlotsStay, WrittenStays
<1>9. ASSUME NEW c \in Ctas, Peek(c) PROVE SlotsOK'
  <2>1. UNCHANGED <<load, index, mma, cload, sched>> BY <1>9 DEF Peek, EpiRest
  <2>2. Written' = Written BY <2>1, WrittenStays
  <2>3. /\ EpiMoves(c) /\ SlotReady(epi[c].t) /\ ReadSlot(epi[c].t) /\ epi'[c].t = epi[c].t
        /\ epi[c].at = "peek" /\ epi'[c].at = "acc"
    BY <1>9, PeekTo
  <2>4. PICK x \in Readers : x = <<"epi", <<c, 0>>>> BY ReadersAre
  <2>5. \A d \in Ctas : <<"epi", <<d, 0>>>> \notin {x} => EpiTile(d)' = EpiTile(d)
    BY <2>3, <2>4 DEF EpiMoves, Moved, EpiTile
  <2>6. \A y \in Readers : y \notin {x} => TileOf(y)' = TileOf(y) BY <2>1, <2>5, OthersStay
  <2>7. EpiTile(c) = epi[c].t /\ EpiTile(c)' = epi[c].t + 1 BY <2>3 DEF EpiTile
  <2>8. TileOf(x) = EpiTile(c) /\ TileOf(x)' = EpiTile(c)' BY <2>4, TilesAre, TilesAreNext
  <2>9. PICK t : t = TileOf(x) OBVIOUS
  <2>10. TileOf(x)' = t + 1 /\ SlotReady(t) /\ ReadSlot(t) BY <2>3, <2>7, <2>8, <2>9
  <2> QED BY <1>1, <2>2, <2>6, <2>9, <2>10, SlotIsRead
<1>10. ASSUME NEW c \in Ctas, ReadAcc(c) \/ ReadC(c) PROVE SlotsOK'
  <2>1. UNCHANGED <<load, index, mma, cload, sched, slot>> BY <1>10 DEF ReadAcc, ReadC, EpiRest
  <2>2. /\ EpiMoves(c) /\ epi[c].at \in {"acc", "c"}
        /\ (epi'[c].at \in {"acc", "c"} /\ epi'[c].t = epi[c].t) \/ (epi'[c].at \in {"peek", "done"} /\ epi'[c].t = epi[c].t + 1)
    <3>1. CASE ReadAcc(c) BY <3>1, ReadAccTo DEF NextIs
    <3>2. CASE ReadC(c) BY <3>2, ReadCTo DEF NextIs
    <3> QED BY <1>10, <3>1, <3>2
  <2>3. EpiTile(c)' = EpiTile(c) BY <2>2 DEF EpiTile
  <2>4. \A d \in Ctas : EpiTile(d)' = EpiTile(d) BY <2>2, <2>3 DEF EpiMoves, Moved, EpiTile
  <2>5. \A y \in Readers : TileOf(y)' = TileOf(y) BY <2>1, <2>4, AllStay
  <2> QED BY <1>1, <2>1, <2>5, SlotsStay, WrittenStays
<1>11. ASSUME NEW c \in Ctas, CAdvance(c) PROVE SlotsOK'
  <2>1. UNCHANGED <<load, index, mma, epi, sched>> BY <1>11 DEF CAdvance, CRest
  <2>2. Written' = Written BY <2>1, WrittenStays
  <2>3. /\ CLoadMoves(c) /\ HasC /\ SlotReady(cload[c].t) /\ ReadSlot(cload[c].t) /\ cload'[c].t = cload[c].t + 1
    BY <1>11, CAdvanceTo
  <2>4. PICK x \in Readers : x = <<"cload", <<c, 0>>>> BY <2>3, ReadersAre
  <2>5. \A d \in Ctas : <<"cload", <<d, 0>>>> \notin {x} => cload'[d].t = cload[d].t BY <2>3, <2>4 DEF CLoadMoves, Moved
  <2>6. \A y \in Readers : y \notin {x} => TileOf(y)' = TileOf(y) BY <2>1, <2>5, EpiTileStays, OthersStay
  <2>7. TileOf(x) = cload[c].t /\ TileOf(x)' = cload'[c].t BY <2>4, TilesAre, TilesAreNext
  <2>8. PICK t : t = TileOf(x) OBVIOUS
  <2>9. TileOf(x)' = t + 1 /\ SlotReady(t) /\ ReadSlot(t) BY <2>3, <2>7, <2>8
  <2> QED BY <1>1, <2>2, <2>6, <2>8, <2>9, SlotIsRead
<1>12. ASSUME NEW c \in Ctas, CBegin(c) \/ FetchC(c) \/ CTail(c) PROVE SlotsOK'
  <2>1. UNCHANGED <<load, index, mma, epi, sched, slot>> BY <1>12 DEF CBegin, FetchC, CTail, CRest
  <2>2. CLoadMoves(c) /\ cload'[c].t = cload[c].t BY <1>12, CBeginTo, FetchCTo, CTailTo
  <2>3. \A d \in Ctas : cload'[d].t = cload[d].t BY <2>2 DEF CLoadMoves, Moved
  <2>4. \A y \in Readers : TileOf(y)' = TileOf(y) BY <2>1, <2>3, EpiTileStays, AllStay
  <2> QED BY <1>1, <2>1, <2>4, SlotsStay, WrittenStays
<1>13. ASSUME NEW c \in Ctas, SchedAdvance(c) PROVE SlotsOK'
  <2>1. UNCHANGED <<load, index, mma, epi, cload>> BY <1>13 DEF SchedAdvance, SchedRest
  <2>3. /\ SchedMoves(c) /\ SlotReady(sched[c].t) /\ ReadSlot(sched[c].t) /\ sched'[c].t = sched[c].t + 1
        /\ sched[c].at = "read" /\ (c = Leader => sched'[c].at # "read") /\ sched[c].t \in 1..Count(launch)
    BY <1>13, SchedAdvanceTo
  <2>2. Written' = Written
    <3>1. sched[c].t \in Nat BY <1>2, <2>3, LaunchIs
    <3>2. CASE c = Leader
      <4>1. Written = sched[c].t /\ Written' = sched'[c].t - 1 BY <2>3, <3>2 DEF Written, Leader
      <4> QED BY <2>3, <3>1, <4>1
    <3>3. CASE c # Leader
      <4>1. sched'[Leader] = sched[Leader] BY <1>3, <2>3, <3>3 DEF SchedMoves, Moved
      <4> QED BY <4>1 DEF Written, Leader
    <3> QED BY <3>2, <3>3
  <2>4. PICK x \in Readers : x = <<"sched", <<c, 0>>>> BY ReadersAre
  <2>5. \A d \in Ctas : <<"sched", <<d, 0>>>> \notin {x} => sched'[d].t = sched[d].t BY <2>3, <2>4 DEF SchedMoves, Moved
  <2>6. \A y \in Readers : y \notin {x} => TileOf(y)' = TileOf(y) BY <2>1, <2>5, EpiTileStays, OthersStay
  <2>7. TileOf(x) = sched[c].t /\ TileOf(x)' = sched'[c].t BY <2>4, TilesAre, TilesAreNext
  <2>8. PICK t : t = TileOf(x) OBVIOUS
  <2>9. TileOf(x)' = t + 1 /\ SlotReady(t) /\ ReadSlot(t) BY <2>3, <2>7, <2>8
  <2> QED BY <1>1, <2>2, <2>6, <2>8, <2>9, SlotIsRead
<1>14. ASSUME ThrottleSync \/ ThrottleWait \/ SchedTail, ~WriteSlot PROVE SlotsOK'
  <2>1. UNCHANGED <<load, index, mma, epi, cload, slot>> BY <1>14 DEF ThrottleSync, ThrottleWait, SchedTail, SchedRest
  <2>2. SchedMoves(0) /\ sched'[0].t = sched[0].t /\ sched[0].at # "read" /\ sched'[0].at # "read"
    BY <1>2, <1>14, SchedTo
  <2>3. \A d \in Ctas : sched'[d].t = sched[d].t BY <2>2 DEF SchedMoves, Moved
  <2>4. \A y \in Readers : TileOf(y)' = TileOf(y) BY <2>1, <2>3, EpiTileStays, AllStay
  <2>5. Written' = Written BY <2>2 DEF Written, Leader
  <2> QED BY <1>1, <2>1, <2>4, <2>5, SlotsStay
<1>15. ASSUME NEW f \in flying, Land(f) PROVE SlotsOK'
  <2>1. UNCHANGED <<procs, slot>> BY <1>15 DEF Land
  <2>2. \A y \in Readers : TileOf(y)' = TileOf(y) BY <2>1, EpiTileStays, AllStay DEF procs
  <2> QED BY <1>1, <2>1, <2>2, SlotsStay, WrittenStays DEF procs
<1>16. ASSUME NEW c \in Ctas, Forward(c) PROVE SlotsOK'
  <2>1. MmaMoves(c) /\ mma'[c].t = mma[c].t BY <1>16, ForwardTo
  <2>2. UNCHANGED <<load, index, epi, cload, sched, slot>> BY <1>16 DEF Forward, MmaRest
  <2> QED BY <1>8, <2>1, <2>2
<1>17. ASSUME AccAcquire \/ Multiply \/ AccCommit \/ MmaTail PROVE SlotsOK'
  <2>1. MmaMoves(Leader) /\ mma'[Leader].t = mma[Leader].t
    <3>1. CASE AccAcquire BY <3>1, AccAcquireTo
    <3>2. CASE Multiply BY <3>2, MultiplyTo
    <3>3. CASE AccCommit BY <3>3, AccCommitTo
    <3>4. CASE MmaTail BY <3>4, MmaTailTo
    <3> QED BY <1>17, <3>1, <3>2, <3>3, <3>4
  <2>2. UNCHANGED <<load, index, epi, cload, sched, slot>>
    BY <1>17 DEF AccAcquire, Multiply, AccCommit, MmaTail, MmaRest
  <2> QED BY <1>3, <1>8, <2>1, <2>2
<1>18. CASE Next
 
    BY <1>5, <1>6, <1>7, <1>9, <1>10, <1>11, <1>12, <1>13, <1>14, <1>15, <1>16, <1>17, <1>18, WriteSlotKeeps DEF Next, CtaStep
<1> QED BY <1>4, <1>18
-----------------------------------------------------------------------------
(* The C stages of one CTA, of which w have been filled and e read.        *)
CRingAt(l, r, w, e) ==
  LET d == l.cStages IN
  /\ Settled(r.full, w, d) /\ Settled(r.empty, e, d) /\ e <= w /\ w <= e + d
  /\ \A t \in 1..Count(l), s \in 0..l.subtiles - 1 :
       LET q == CBefore(l)[t] + s IN
       COf(l, t) /\ q < w /\ w <= q + d => r.data[q % d] = <<t, s>>

(* CRingOK says this of every CTA.                                         *)
LEMMA CRingIs ==
  /\ CRingOK <=> (HasC => \A c \in Ctas : CRingAt(launch, cring[c], cload[c].r, epi[c].r))
  /\ CRingOK' <=> (HasC' => \A c \in Ctas' : CRingAt(launch', cring'[c], cload'[c].r, epi'[c].r))
<1>1. N = Count(launch) /\ (\A t : UsesC(t) <=> COf(launch, t)) /\ Subs = 0..launch.subtiles - 1
  BY Names DEF Subs
<1>2. N' = Count(launch') /\ (\A t : UsesC(t)' <=> COf(launch', t)) /\ Subs' = 0..launch'.subtiles - 1
  BY DEF N, UsesC, HasC, Epilogue, Count, COf, Subs
<1> QED BY <1>1, <1>2 DEF CRingOK, CRingAt

(* Each C stage position is of one subtile.                                *)
LEMMA OneSubtile ==
  ASSUME NEW l \in Launches, NEW t \in 1..Count(l), NEW u \in 1..Count(l), NEW s \in 0..l.subtiles - 1,
         NEW v \in 0..l.subtiles - 1, COf(l, t), COf(l, u), CBefore(l)[t] + s = CBefore(l)[u] + v
  PROVE  t = u /\ s = v /\ CBefore(l)[t] + s \in Nat
<1>1. l.subtiles \in Nat /\ Count(l) \in Nat BY LaunchIs
<1>2. t \in 1..Count(l) + 1 /\ u \in 1..Count(l) + 1 BY <1>1
<1>3. PICK a \in Nat, b \in Nat : a = CBefore(l)[t] /\ b = CBefore(l)[u] BY <1>2, CBeforeIs
<1>4. CsIn(l, t) = l.subtiles /\ CsIn(l, u) = l.subtiles BY DEF CsIn
<1>5. (t < u => a + l.subtiles <= b) /\ (u < t => b + l.subtiles <= a) BY <1>2, <1>3, <1>4, CBeforeIs
<1>6. t = u BY <1>1, <1>3, <1>5
<1> QED BY <1>1, <1>3, <1>6

(* A stage is filled with the subtile of the next position.                *)
LEMMA CRingFilled ==
  ASSUME NEW l \in Launches, NEW d \in Nat \ {0}, d = l.cStages, NEW w \in Nat, NEW e \in Nat,
         NEW r \in RingOf(d, Pair), CRingAt(l, r, w, e), IsFree(r.empty, w),
         NEW t \in 1..Count(l), NEW s \in 0..l.subtiles - 1, COf(l, t), w = CBefore(l)[t] + s,
         NEW new, new = Put(r, w, <<t, s>>)
  PROVE  CRingAt(l, new, w + 1, e)
<1>1. /\ Settled(r.full, w, d) /\ Settled(r.empty, e, d) /\ e <= w /\ w <= e + d
      /\ \A u \in 1..Count(l), v \in 0..l.subtiles - 1 :
           COf(l, u) /\ CBefore(l)[u] + v < w /\ w <= CBefore(l)[u] + v + d =>
             r.data[(CBefore(l)[u] + v) % d] = <<u, v>>
  BY DEF CRingAt
<1>2. new.data = [r.data EXCEPT ![w % d] = <<t, s>>] /\ new.full = Arrive(r.full, w, 1) /\ new.empty = r.empty
  BY PutIs
<1>3. Settled(new.full, w + 1, d) BY <1>1, <1>2, SettledArrive
<1>4. w < e + d BY <1>1, SettledSees
<1>5. ASSUME NEW u \in 1..Count(l), NEW v \in 0..l.subtiles - 1, NEW q, q = CBefore(l)[u] + v,
             COf(l, u), q < w + 1, w + 1 <= q + d
      PROVE  new.data[q % d] = <<u, v>>
  <2>1. q \in Nat BY <1>5, OneSubtile
  <2>6. q \in 0..w /\ w + 1 <= q + d BY <1>5, <2>1
  <2>2. q % d \in 0..d-1 /\ w % d \in 0..d-1 /\ (q # w => q % d # w % d) BY <2>6, PutKeeps
  <2>3. DOMAIN r.data = 0..d-1 BY DEF RingOf
  <2>4. CASE q = w
    <3>1. u = t /\ v = s BY <1>5, <2>4, OneSubtile
    <3> QED BY <1>2, <2>2, <2>3, <2>4, <3>1
  <2>5. CASE q # w
    <3>1. q < w /\ w <= q + d BY <1>5, <2>1, <2>5
    <3>2. r.data[q % d] = <<u, v>> BY <1>1, <1>5, <3>1
    <3> QED BY <1>2, <2>2, <2>3, <2>5, <3>2
  <2> QED BY <2>4, <2>5
<1>6. e <= w + 1 /\ w + 1 <= e + d BY <1>1, <1>4
<1>7. \A u \in 1..Count(l), v \in 0..l.subtiles - 1 :
        COf(l, u) /\ CBefore(l)[u] + v < w + 1 /\ w + 1 <= CBefore(l)[u] + v + d =>
          new.data[(CBefore(l)[u] + v) % d] = <<u, v>>
  BY <1>5
<1> QED BY <1>1, <1>2, <1>3, <1>6, <1>7 DEF CRingAt

(* A stage is read.                                                        *)
LEMMA CRingEmptied ==
  ASSUME NEW l, NEW d \in Nat \ {0}, d = l.cStages, NEW w \in Nat, NEW e \in Nat,
         NEW r, CRingAt(l, r, w, e), IsFull(r.full, e),
         NEW new, new.data = r.data, new.full = r.full, new.empty = Arrive(r.empty, e, 1)
  PROVE  CRingAt(l, new, w, e + 1)
<1>1. Settled(r.full, w, d) /\ Settled(r.empty, e, d) /\ e <= w /\ w <= e + d BY DEF CRingAt
<1>2. e < w BY <1>1, SettledSees
<1>3. Settled(new.empty, e + 1, d) BY <1>1, SettledArrive
<1>4. e + 1 <= w /\ w <= e + 1 + d BY <1>1, <1>2
<1> QED BY <1>1, <1>3, <1>4 DEF CRingAt

(* Every step keeps the C stages.                                          *)
LEMMA CRingStep ==
  ASSUME Types, RingTypes, Places, SlotsOK, IndexRingOK, CRingOK, [Next]_vars
  PROVE  CRingOK'
<1>1. launch' = launch BY PlacesStep
<1>2. launch \in Launches BY DEF Types
<1>3. SUFFICES ASSUME HasC PROVE \A c \in Ctas : CRingAt(launch, cring'[c], cload'[c].r, epi'[c].r)
  BY <1>1, CRingIs, Same
<1> DEFINE d == launch.cStages
<1>4. d \in Nat \ {0} BY <1>2, <1>3, Depths
<1>5. \A c \in Ctas : CRingAt(launch, cring[c], cload[c].r, epi[c].r) BY <1>3, CRingIs
<1>6. \A c \in Ctas : cload[c].r \in Nat /\ epi[c].r \in Nat /\ cring[c] \in RingOf(d, Pair)
  BY DEF Types, RingTypes, CLoadRec, EpiRec
<1> HIDE DEF d
<1>7. ASSUME cring' = cring, \A c \in Ctas : cload'[c].r = cload[c].r /\ epi'[c].r = epi[c].r
      PROVE  \A c \in Ctas : CRingAt(launch, cring'[c], cload'[c].r, epi'[c].r)
  BY <1>5, <1>7
<1>8. ASSUME NEW c \in Ctas, FetchC(c)
      PROVE  \A e \in Ctas : CRingAt(launch, cring'[e], cload'[e].r, epi'[e].r)
  <2>1. LET me == cload[c]  new == cload'[c] IN
         /\ CLoadMoves(c) /\ new.r = me.r + 1
         /\ IsFree(cring[c].empty, me.r) /\ me.r \in Nat /\ me.sub \in Subs
         /\ cring' = [cring EXCEPT ![c] = Put(cring[c], me.r, <<me.t, me.sub>>)]
         /\ me.t \in 1..N /\ UsesC(me.t) /\ me.r = CBefore(launch)[me.t] + me.sub
    BY <1>8, FetchCTo
  <2>2. epi' = epi BY <1>8 DEF FetchC, CRest
  <2>3. PICK t, s, w : t = cload[c].t /\ s = cload[c].sub /\ w = cload[c].r OBVIOUS
  <2>4. /\ t \in 1..Count(launch) /\ s \in 0..launch.subtiles - 1 /\ COf(launch, t) /\ w = CBefore(launch)[t] + s
        /\ w \in Nat /\ IsFree(cring[c].empty, w)
    BY <2>1, <2>3, Names DEF Subs
  <2>5. PICK x : x = Put(cring[c], w, <<t, s>>) OBVIOUS
  <2>6. CRingAt(launch, x, w + 1, epi[c].r)
    <3>1. PICK r \in RingOf(d, Pair), e \in Nat : r = cring[c] /\ e = epi[c].r BY <1>6
    <3>2. CRingAt(launch, r, w, e) BY <1>5, <2>3, <3>1
    <3>3. IsFree(r.empty, w) /\ x = Put(r, w, <<t, s>>) BY <2>4, <2>5, <3>1
    <3>4. CRingAt(launch, x, w + 1, e) BY <1>2, <1>4, <2>4, <3>2, <3>3, CRingFilled DEF d
    <3> QED BY <3>1, <3>4
  <2>7. cring' = [cring EXCEPT ![c] = x] BY <2>1, <2>3, <2>5
  <2>8. cring \in [Ctas -> RingOf(d, Pair)] BY DEF RingTypes, d
  <2>9. cring'[c] = x /\ \A e \in Ctas : e # c => cring'[e] = cring[e] BY <2>7, <2>8
  <2>10. cload'[c].r = w + 1 /\ \A e \in Ctas : e # c => cload'[e] = cload[e] BY <2>1, <2>3 DEF CLoadMoves, Moved
  <2> QED BY <1>5, <2>2, <2>6, <2>9, <2>10
<1>9. ASSUME NEW c \in Ctas, ReadC(c)
      PROVE  \A e \in Ctas : CRingAt(launch, cring'[e], cload'[e].r, epi'[e].r)
  <2>1. LET me == epi[c]  new == epi'[c] IN
         /\ EpiMoves(c) /\ IsFull(cring[c].full, me.r)
         /\ cring' = [cring EXCEPT ![c].empty = Arrive(cring[c].empty, me.r, 1)]
         /\ new.r = me.r + 1
    BY <1>9, ReadCTo
  <2>2. cload' = cload BY <1>9 DEF ReadC, EpiRest
  <2>3. PICK r \in RingOf(d, Pair), e \in Nat, w \in Nat : r = cring[c] /\ e = epi[c].r /\ w = cload[c].r BY <1>6
  <2>4. PICK b : b = Arrive(r.empty, e, 1) OBVIOUS
  <2>5. PICK x : x = [r EXCEPT !.empty = b] OBVIOUS
  <2>6. x.data = r.data /\ x.full = r.full /\ x.empty = b BY <2>5 DEF RingOf
  <2>7. CRingAt(launch, x, w, e + 1)
    <3>1. CRingAt(launch, r, w, e) /\ IsFull(r.full, e) BY <1>5, <2>1, <2>3
    <3> QED BY <1>4, <2>4, <2>6, <3>1, CRingEmptied DEF d
  <2>8. cring' = [cring EXCEPT ![c] = x]
    <3>1. cring' = [cring EXCEPT ![c].empty = b] BY <2>1, <2>3, <2>4
    <3> QED BY <2>3, <2>5, <3>1
  <2>9. cring \in [Ctas -> RingOf(d, Pair)] BY DEF RingTypes, d
  <2>10. cring'[c] = x /\ \A a \in Ctas : a # c => cring'[a] = cring[a] BY <2>8, <2>9
  <2>11. epi'[c].r = e + 1 /\ \A a \in Ctas : a # c => epi'[a] = epi[a] BY <2>1, <2>3 DEF EpiMoves, Moved
  <2> QED BY <1>5, <2>2, <2>3, <2>7, <2>10, <2>11
<1>10. CASE UNCHANGED vars BY <1>7, <1>10 DEF vars, procs, rings
<1>11. ASSUME NEW c \in Ctas, CtaStep(c), ~FetchC(c), ~ReadC(c)
       PROVE cring' = cring /\ \A a \in Ctas : cload'[a].r = cload[a].r /\ epi'[a].r = epi[a].r
  <2>1. CASE \E w \in Loads : LoadStep(c, w)
    BY <2>1 DEF LoadStep, ThrottleCommit, ReadIndices, Fetch, Signal, LoadAdvance, LoadTail, LoadGoes
  <2>2. CASE PutIndices(c) \/ IndexAdvance(c) BY <2>2 DEF PutIndices, IndexAdvance, IndexRest
  <2>3. CASE Forward(c) \/ MmaAdvance(c) BY <2>3 DEF Forward, MmaAdvance, MmaRest
  <2>4. CASE Peek(c)
    <3>1. EpiMoves(c) /\ epi'[c].r = epi[c].r BY <2>4, PeekTo
    <3>2. cload' = cload /\ cring' = cring BY <2>4 DEF Peek, EpiRest
    <3> QED BY <3>1, <3>2 DEF EpiMoves, Moved
  <2>5. CASE ReadAcc(c)
    <3>1. EpiMoves(c) /\ epi'[c].r = epi[c].r BY <2>5, ReadAccTo
    <3>2. cload' = cload /\ cring' = cring BY <2>5 DEF ReadAcc, EpiRest
    <3> QED BY <3>1, <3>2 DEF EpiMoves, Moved
  <2>6. CASE CBegin(c) \/ CAdvance(c) \/ CTail(c)
    <3>1. CLoadMoves(c) /\ cload'[c].r = cload[c].r BY <2>6, CBeginTo, CAdvanceTo, CTailTo
    <3>2. epi' = epi /\ cring' = cring BY <2>6 DEF CBegin, CAdvance, CTail, CRest
    <3> QED BY <3>1, <3>2 DEF CLoadMoves, Moved
  <2>7. CASE SchedAdvance(c) BY <2>7 DEF SchedAdvance, SchedRest
  <2> QED BY <1>11, <2>1, <2>2, <2>3, <2>4, <2>5, <2>6, <2>7 DEF CtaStep
<1>12. CASE \E f \in flying : Land(f) BY <1>7, <1>12 DEF Land, procs
<1>13. CASE AccAcquire \/ Multiply \/ AccCommit \/ MmaTail
  BY <1>7, <1>13 DEF AccAcquire, Multiply, AccCommit, MmaTail, MmaRest
<1>14. CASE ThrottleSync \/ ThrottleWait \/ WriteSlot \/ SchedTail
  BY <1>7, <1>14 DEF ThrottleSync, ThrottleWait, WriteSlot, SchedTail, SchedRest
<1> QED BY <1>7, <1>8, <1>9, <1>10, <1>11, <1>12, <1>13, <1>14 DEF Next
-----------------------------------------------------------------------------
(* The index ring of one CTA, of which w entries are put and rd[x] read by *)
(* reader x of R.                                                          *)
IdxAt(l, r, w, R, rd) ==
  LET d == IdxStages(l) IN
  /\ Settled(r.full, w, d) /\ Emptying(r.empty, R, rd, w, d) /\ Within(R, rd, w, d)
  /\ \A q \in 0..w - 1 : w <= q + d => r.data[q % d] = IndexAt(l, q)

(* IndexRingOK says this of every CTA.                                     *)
LEMMA IdxIs ==
  /\ IndexRingOK <=> (Gathers => \A c \in Ctas : IdxAt(launch, idx[c], index[c].i, Loads, IndexesRead(c)))
  /\ IndexRingOK' <=>
       (Gathers' => \A c \in Ctas' : IdxAt(launch', idx'[c], index'[c].i, Loads', IndexesRead(c)'))
BY DEF IndexRingOK, IdxAt

(* The next entry is put.                                                  *)
LEMMA IdxPut ==
  ASSUME NEW l \in Launches, NEW d \in Nat \ {0}, d = IdxStages(l), NEW w \in Nat, NEW R, R # {}, NEW rd,
         NEW r \in RingOf(d, Pair), IdxAt(l, r, w, R, rd), IsFree(r.empty, w),
         NEW new, new = Put(r, w, IndexAt(l, w))
  PROVE  IdxAt(l, new, w + 1, R, rd)
<1>1. /\ Settled(r.full, w, d) /\ Emptying(r.empty, R, rd, w, d) /\ Within(R, rd, w, d)
      /\ \A q \in 0..w - 1 : w <= q + d => r.data[q % d] = IndexAt(l, q)
  BY DEF IdxAt
<1>2. new.data = [r.data EXCEPT ![w % d] = IndexAt(l, w)] /\ new.full = Arrive(r.full, w, 1) /\ new.empty = r.empty
  <2>1. PICK x : x = IndexAt(l, w) OBVIOUS
  <2> QED BY <2>1, PutIs
<1>3. Settled(new.full, w + 1, d) BY <1>1, <1>2, SettledArrive
<1>4. \A x \in R : w + 1 <= rd[x] + d BY <1>1, EmptyingSees
<1>5. Emptying(new.empty, R, rd, w + 1, d) /\ Within(R, rd, w + 1, d) BY <1>1, <1>2, <1>4, EmptyingWrite
<1>6. ASSUME NEW q \in 0..w + 1 - 1, w + 1 <= q + d PROVE new.data[q % d] = IndexAt(l, q)
  <2>1. q \in 0..w /\ w + 1 <= q + d BY <1>6
  <2>2. q % d \in 0..d-1 /\ w % d \in 0..d-1 /\ (q # w => q % d # w % d) BY <2>1, PutKeeps
  <2>3. DOMAIN r.data = 0..d-1 BY DEF RingOf
  <2>4. q # w => r.data[q % d] = IndexAt(l, q)
    <3>1. q # w => q \in 0..w - 1 /\ w <= q + d BY <2>1
    <3> QED BY <1>1, <3>1
  <2> QED BY <1>2, <2>2, <2>3, <2>4
<1> QED BY <1>3, <1>5, <1>6 DEF IdxAt

(* A load warp reads its next entry.                                       *)
LEMMA IdxRead ==
  ASSUME NEW l, NEW d \in Nat \ {0}, d = IdxStages(l), NEW w \in Nat, NEW R, IsFiniteSet(R), NEW rd,
         NEW r, IdxAt(l, r, w, R, rd), NEW y \in R, rd[y] < w,
         NEW s, s[y] = rd[y] + 1, \A x \in R : x # y => s[x] = rd[x],
         NEW new, new.data = r.data, new.full = r.full, new.empty = Arrive(r.empty, rd[y], Cardinality(R))
  PROVE  IdxAt(l, new, w, R, s)
<1>1. /\ Settled(r.full, w, d) /\ Emptying(r.empty, R, rd, w, d) /\ Within(R, rd, w, d)
      /\ \A q \in 0..w - 1 : w <= q + d => r.data[q % d] = IndexAt(l, q)
  BY DEF IdxAt
<1>2. Emptying(new.empty, R, s, w, d) /\ Within(R, s, w, d)
  <2>1. Emptying(Arrive(r.empty, rd[y], Cardinality(R)), R, s, w, d) /\ Within(R, s, w, d) BY <1>1, EmptyingRead
  <2> QED BY <2>1
<1> QED BY <1>1, <1>2 DEF IdxAt

(* The entries that a CTA's load warps have read.                          *)
LEMMA IndexesReadAre ==
  /\ \A c, w : w \in Loads => IndexesRead(c)[w] = load[c][w].i
  /\ Loads' = Loads => \A c : /\ \A w \in Loads : IndexesRead(c)'[w] = load'[c][w].i
                              /\ (\A w \in Loads : load'[c][w].i = load[c][w].i) => IndexesRead(c)' = IndexesRead(c)
BY DEF IndexesRead

(* Every step keeps the index ring.                                        *)
LEMMA IndexRingStep ==
  ASSUME Types, RingTypes, Places, SlotsOK, IndexRingOK, [Next]_vars
  PROVE  IndexRingOK'
<1>1. launch' = launch /\ Ctas' = Ctas /\ Loads' = Loads /\ Gathers' = Gathers BY PlacesStep, Same
<1>2. launch \in Launches BY DEF Types
<1>3. SUFFICES ASSUME Gathers
               PROVE  \A c \in Ctas : IdxAt(launch, idx'[c], index'[c].i, Loads, IndexesRead(c)')
  BY <1>1, IdxIs
<1> DEFINE d == IdxStages(launch)
<1>4. d \in Nat \ {0} BY <1>2, <1>3, Depths
<1>5. \A c \in Ctas : IdxAt(launch, idx[c], index[c].i, Loads, IndexesRead(c)) BY <1>3, IdxIs
<1>6. /\ \A c \in Ctas : index[c].i \in Nat /\ idx[c] \in RingOf(d, Pair)
      /\ idx \in [Ctas -> RingOf(d, Pair)]
  BY DEF Types, RingTypes, IndexRec
<1>13. IsFiniteSet(Loads) /\ Loads # {} /\ Cardinality(Loads) = IdxReaders(launch) BY <1>2, CtasAre DEF IdxReaders
<1> HIDE DEF d
<1>7. ASSUME idx' = idx, \A c \in Ctas : index'[c].i = index[c].i,
             \A c \in Ctas, w \in Loads : load'[c][w].i = load[c][w].i
      PROVE  \A c \in Ctas : IdxAt(launch, idx'[c], index'[c].i, Loads, IndexesRead(c)')
  <2>1. \A c \in Ctas : IndexesRead(c)' = IndexesRead(c) BY <1>1, <1>7, IndexesReadAre
  <2> QED BY <1>5, <1>7, <2>1
<1>8. ASSUME NEW c \in Ctas, PutIndices(c)
      PROVE  \A e \in Ctas : IdxAt(launch, idx'[e], index'[e].i, Loads, IndexesRead(e)')
  <2>1. LET me == index[c]  new == index'[c] IN
         /\ Moved(index, index', c, IndexRec(launch))
         /\ IsFree(idx[c].empty, me.i)
         /\ idx' = [idx EXCEPT ![c] = Put(idx[c], me.i, IndexAt(launch, me.i))]
         /\ new.i = me.i + 1
    BY <1>8, PutIndicesTo
  <2>2. load' = load BY <1>8 DEF PutIndices, IndexRest
  <2>3. \A e \in Ctas : IndexesRead(e)' = IndexesRead(e) BY <1>1, <2>2, IndexesReadAre
  <2>4. PICK r \in RingOf(d, Pair), w \in Nat : r = idx[c] /\ w = index[c].i BY <1>6
  <2>5. PICK x : x = Put(r, w, IndexAt(launch, w)) OBVIOUS
  <2>6. PICK rd : rd = IndexesRead(c) OBVIOUS
  <2>7. IdxAt(launch, x, w + 1, Loads, rd)
    <3>1. IdxAt(launch, r, w, Loads, rd) /\ IsFree(r.empty, w) BY <1>5, <2>1, <2>4, <2>6
    <3> QED BY <1>2, <1>4, <1>13, <2>5, <3>1, IdxPut DEF d
  <2>8. idx' = [idx EXCEPT ![c] = x] BY <2>1, <2>4, <2>5
  <2>9. idx'[c] = x /\ \A e \in Ctas : e # c => idx'[e] = idx[e] BY <1>6, <2>8
  <2>10. index'[c].i = w + 1 /\ \A e \in Ctas : e # c => index'[e] = index[e] BY <2>1, <2>4 DEF Moved
  <2> QED BY <1>5, <2>3, <2>6, <2>7, <2>9, <2>10
<1>9. ASSUME NEW c \in Ctas, NEW v \in Loads, ReadIndices(c, v)
      PROVE  \A e \in Ctas : IdxAt(launch, idx'[e], index'[e].i, Loads, IndexesRead(e)')
  <2>1. LET me == load[c][v]  new == load'[c][v] IN
         /\ LoadMoves(c, v) /\ me.i < index[c].i
         /\ idx' = [idx EXCEPT ![c].empty = Arrive(idx[c].empty, me.i, IdxReaders(launch))]
         /\ new.i = me.i + 1
    BY <1>9, ReadIndicesTo
  <2>2. index' = index BY <1>9 DEF ReadIndices, LoadGoes
  <2>3. PICK r \in RingOf(d, Pair), w \in Nat : r = idx[c] /\ w = index[c].i BY <1>6
  <2>4. PICK rd, s : rd = IndexesRead(c) /\ s = IndexesRead(c)' OBVIOUS
  <2>5. rd[v] = load[c][v].i /\ rd[v] < w /\ s[v] = rd[v] + 1 /\ \A x \in Loads : x # v => s[x] = rd[x]
    <3>1. \A x \in Loads : rd[x] = load[c][x].i /\ s[x] = load'[c][x].i BY <1>1, <2>4, IndexesReadAre
    <3>2. \A x \in Loads : x # v => load'[c][x] = load[c][x] BY <2>1 DEF LoadMoves
    <3> QED BY <2>1, <2>3, <3>1, <3>2
  <2>6. PICK b : b = Arrive(r.empty, rd[v], Cardinality(Loads)) OBVIOUS
  <2>7. PICK x : x = [r EXCEPT !.empty = b] OBVIOUS
  <2>8. x.data = r.data /\ x.full = r.full /\ x.empty = b BY <2>7 DEF RingOf
  <2>9. IdxAt(launch, x, w, Loads, s)
    <3>1. IdxAt(launch, r, w, Loads, rd) BY <1>5, <2>3, <2>4
    <3>2. x.empty = Arrive(r.empty, rd[v], Cardinality(Loads)) BY <2>6, <2>8
    <3> QED BY <1>4, <1>13, <2>5, <2>8, <3>1, <3>2, IdxRead DEF d
  <2>10. idx' = [idx EXCEPT ![c] = x]
    <3>1. idx' = [idx EXCEPT ![c].empty = b] BY <1>13, <2>1, <2>3, <2>5, <2>6
    <3> QED BY <2>3, <2>7, <3>1
  <2>11. idx'[c] = x /\ \A e \in Ctas : e # c => idx'[e] = idx[e] BY <1>6, <2>10
  <2>12. \A e \in Ctas : e # c => IndexesRead(e)' = IndexesRead(e)
    <3>1. \A e \in Ctas, u \in Loads : e # c => load'[e][u] = load[e][u] BY <2>1 DEF LoadMoves
    <3> QED BY <1>1, <3>1, IndexesReadAre
  <2> QED BY <1>5, <2>2, <2>3, <2>4, <2>9, <2>11, <2>12
<1>10. CASE UNCHANGED vars BY <1>7, <1>10 DEF vars, procs, rings
<1>11. ASSUME NEW c \in Ctas, CtaStep(c), ~PutIndices(c), \A w \in Loads : ~ReadIndices(c, w)
       PROVE  /\ idx' = idx /\ \A e \in Ctas : index'[e].i = index[e].i
              /\ \A e \in Ctas, w \in Loads : load'[e][w].i = load[e][w].i
  <2>1. ASSUME NEW w \in Loads, LoadStep(c, w)
        PROVE  /\ idx' = idx /\ \A e \in Ctas : index'[e].i = index[e].i
               /\ \A e \in Ctas, v \in Loads : load'[e][v].i = load[e][v].i
    <3>1. idx' = idx /\ index' = index
      BY <1>11, <2>1 DEF LoadStep, ThrottleCommit, Fetch, Signal, LoadAdvance, LoadTail, LoadGoes
    <3>2. LoadMoves(c, w) /\ load'[c][w].i = load[c][w].i
      <4>1. CASE ThrottleCommit(c, w) BY <4>1, ThrottleCommitTo
      <4>2. CASE LoadAdvance(c, w) BY <4>2, LoadAdvanceTo
      <4>3. CASE Fetch(c, w) BY <4>3, FetchTo
      <4>4. CASE Signal(c, w) BY <4>4, SignalTo
      <4>5. CASE LoadTail(c, w) BY <4>5, LoadTailTo
      <4> QED BY <1>11, <2>1, <4>1, <4>2, <4>3, <4>4, <4>5 DEF LoadStep
    <3> QED BY <3>1, <3>2 DEF LoadMoves
  <2>2. CASE IndexAdvance(c)
    <3>1. Moved(index, index', c, IndexRec(launch)) /\ index'[c].i = index[c].i BY <2>2, IndexAdvanceTo
    <3>2. idx' = idx /\ load' = load BY <2>2 DEF IndexAdvance, IndexRest
    <3> QED BY <3>1, <3>2 DEF Moved
  <2>3. CASE Forward(c) \/ MmaAdvance(c) BY <2>3 DEF Forward, MmaAdvance, MmaRest
  <2>4. CASE Peek(c) \/ ReadAcc(c) \/ ReadC(c) BY <2>4 DEF Peek, ReadAcc, ReadC, EpiRest
  <2>5. CASE CBegin(c) \/ FetchC(c) \/ CAdvance(c) \/ CTail(c) BY <2>5 DEF CBegin, FetchC, CAdvance, CTail, CRest
  <2>6. CASE SchedAdvance(c) BY <2>6 DEF SchedAdvance, SchedRest
  <2> QED BY <1>11, <2>1, <2>2, <2>3, <2>4, <2>5, <2>6 DEF CtaStep
<1>12. CASE \E f \in flying : Land(f) BY <1>7, <1>12 DEF Land, procs
<1>14. CASE AccAcquire \/ Multiply \/ AccCommit \/ MmaTail
  BY <1>7, <1>14 DEF AccAcquire, Multiply, AccCommit, MmaTail, MmaRest
<1>15. CASE ThrottleSync \/ ThrottleWait \/ WriteSlot \/ SchedTail
  BY <1>7, <1>15 DEF ThrottleSync, ThrottleWait, WriteSlot, SchedTail, SchedRest
<1> QED BY <1>7, <1>8, <1>9, <1>10, <1>11, <1>12, <1>14, <1>15 DEF Next
-----------------------------------------------------------------------------
(* The accumulators.                                                       *)
LEMMA Quotients ==
  ASSUME NEW a \in Nat \ {0}, NEW b \in Nat \ {0}, NEW n \in Nat, a < n * b
  PROVE  a \div b \in 0..n-1 /\ (a - 1) \div b \in Nat /\ (a - 1) \div b <= a \div b
<1>1. PICK q \in Nat, r \in 0..b-1 : q = a \div b /\ a = b * q + r
  <2>1. a \div b \in Nat /\ a % b \in 0..b-1 /\ a = b * (a \div b) + (a % b) BY DivMod
  <2> QED BY <2>1
<1>2. PICK p \in Nat, s \in 0..b-1 : p = (a - 1) \div b /\ a - 1 = b * p + s
  <2>1. PICK c \in Nat : c = a - 1 OBVIOUS
  <2>2. c \div b \in Nat /\ c % b \in 0..b-1 /\ c = b * (c \div b) + (c % b) BY DivMod
  <2> QED BY <2>1, <2>2
<1>3. b * q = q * b /\ b * p = p * b /\ q * b \in Nat /\ p * b \in Nat /\ n * b \in Nat /\ (q + 1) * b = q * b + b BY Z3
<1>4. q <= n - 1
  <2>1. SUFFICES ASSUME n <= q PROVE FALSE OBVIOUS
  <2>2. n * b <= q * b BY <2>1, MulMono
  <2> QED BY <1>1, <1>3, <2>2
<1>5. p <= q
  <2>1. SUFFICES ASSUME q + 1 <= p PROVE FALSE OBVIOUS
  <2>2. (q + 1) * b <= p * b BY <2>1, MulMono
  <2> QED BY <1>1, <1>2, <1>3, <2>2
<1> QED BY <1>1, <1>2, <1>4, <1>5

(* The subtile after which the columns are released is one of them, and    *)
(* covers the scale factors'.                                              *)
LEMMA ReleaseIs ==
  ASSUME launch \in Launches
  PROVE  /\ ReleaseAt \in 0..launch.subtiles - 1
         /\ launch.subtiles \in Nat \ {0} /\ Subs = 0..launch.subtiles - 1
         /\ ~launch.scaled => ReleaseAt = launch.subtiles - 1 /\ AccStages(launch) = 2
         /\ launch.scaled => AccStages(launch) = 1 /\ \A i \in SfSubs : i <= ReleaseAt
<1>1. /\ launch.sfCols \in Nat \ {0} /\ launch.epiCols \in Nat \ {0} /\ launch.subtiles \in Nat \ {0}
      /\ launch.sfCols < launch.subtiles * launch.epiCols BY LaunchIs
<1>2. PICK a \in Nat \ {0}, b \in Nat \ {0}, n \in Nat \ {0} : a = launch.sfCols /\ b = launch.epiCols /\ n = launch.subtiles
  BY <1>1
<1>3. a \div b \in 0..n-1 /\ (a - 1) \div b \in Nat /\ (a - 1) \div b <= a \div b
  BY <1>1, <1>2, Quotients
<1>4. PICK p \in Nat, q \in 0..n-1 : p = (a - 1) \div b /\ q = a \div b /\ p <= q BY <1>3
<1>5. ReleaseAt = IF launch.scaled THEN q ELSE n - 1 BY <1>2, <1>4 DEF ReleaseAt
<1>6. SfSubs = 0..p BY <1>2, <1>4 DEF SfSubs
<1>7. n - 1 \in 0..n - 1 BY <1>2
<1>8. ReleaseAt \in 0..n - 1 /\ (~launch.scaled => ReleaseAt = n - 1) BY <1>4, <1>5, <1>7
<1>9. launch.scaled => \A i \in SfSubs : i <= ReleaseAt BY <1>4, <1>5, <1>6
<1>10. AccStages(launch) = IF launch.scaled THEN 1 ELSE 2 BY DEF AccStages
<1>11. n = launch.subtiles /\ Subs = 0..launch.subtiles - 1 BY <1>2 DEF Subs
<1> QED BY <1>1, <1>8, <1>9, <1>10, <1>11

(* The tiles whose columns the epilogue at me has released.                *)
FreedBy(r, me) == me.a + IF me.sub > r \/ (me.sub = r /\ me.at = "c") THEN 1 ELSE 0

(* Freed counts them.                                                      *)
LEMMA FreedIs ==
  /\ \A c \in Ctas : Freed[c] = FreedBy(ReleaseAt, epi[c])
  /\ launch' = launch => \A c \in Ctas : Freed'[c] = FreedBy(ReleaseAt, epi'[c])
BY Same DEF Freed, FreedBy

(* AccRingOK, and what of it is the leader's at mma me.                    *)
AccAt(d, a, R, freed, epis, me) ==
  /\ \A c \in R : Settled(a.full[c], me.a, d)
  /\ Emptying(a.empty, R, freed, me.a, d) /\ Within(R, freed, me.a, d)
  /\ me.at = "k" => \A c \in R : me.a + 1 <= freed[c] + d
  /\ \A c \in R : epis[c].sub > 0 \/ epis[c].at = "c" => epis[c].a < me.a

(* AccRingOK is AccAt of the model's variables.                            *)
LEMMA AccIs ==
  /\ AccRingOK <=> AccAt(AccStages(launch), acc, Ctas, Freed, epi, mma[Leader])
  /\ launch' = launch =>
       (AccRingOK' <=> AccAt(AccStages(launch), acc', Ctas, Freed', epi', mma'[Leader]))
<1>1. AccRingOK <=> AccAt(AccStages(launch), acc, Ctas, Freed, epi, mma[Leader])
  BY DEF AccRingOK, AccAt
<1>2. ASSUME launch' = launch
      PROVE AccRingOK' <=> AccAt(AccStages(launch), acc', Ctas, Freed', epi', mma'[Leader])
  BY <1>2, Same DEF AccRingOK, AccAt, Leader
<1> QED BY <1>1, <1>2

(* What an epilogue step releases.                                         *)
LEMMA ReadAccFrees ==
  ASSUME launch \in Launches, NEW me \in EpiRec(launch), me.at = "acc", NEW new,
         \/ new.at = "c" /\ new.t = me.t /\ new.sub = me.sub /\ new.a = me.a
         \/ NextIs(me, new)
  PROVE  /\ me.sub = ReleaseAt => FreedBy(ReleaseAt, me) = me.a /\ FreedBy(ReleaseAt, new) = me.a + 1
         /\ me.sub # ReleaseAt => FreedBy(ReleaseAt, new) = FreedBy(ReleaseAt, me)
         /\ new.sub > 0 \/ new.at = "c" => new.a = me.a
<1>1. PICK r \in 0..launch.subtiles - 1 : r = ReleaseAt BY ReleaseIs
<1>2. launch.subtiles \in Nat \ {0} /\ me.sub \in 0..launch.subtiles - 1 /\ me.a \in Nat BY ReleaseIs DEF EpiRec
<1>3. CASE new.at = "c" /\ new.t = me.t /\ new.sub = me.sub /\ new.a = me.a
  BY <1>1, <1>2, <1>3 DEF FreedBy
<1>4. CASE NextIs(me, new) BY <1>1, <1>2, <1>4 DEF FreedBy, NextIs
<1> QED BY <1>3, <1>4

(* Reading C releases nothing more.                                        *)
LEMMA ReadCFrees ==
  ASSUME launch \in Launches, NEW me \in EpiRec(launch), me.at = "c", NEW new, NextIs(me, new)
  PROVE  /\ FreedBy(ReleaseAt, new) = FreedBy(ReleaseAt, me)
         /\ new.sub > 0 \/ new.at = "c" => new.a = me.a
<1>1. PICK r \in 0..launch.subtiles - 1 : r = ReleaseAt BY ReleaseIs
<1>2. launch.subtiles \in Nat \ {0} /\ me.sub \in 0..launch.subtiles - 1 /\ me.a \in Nat BY ReleaseIs DEF EpiRec
<1> QED BY <1>1, <1>2 DEF FreedBy, NextIs
-----------------------------------------------------------------------------
(* Every step keeps the accumulators' barriers: an accumulator is acquired *)
(* when the epilogue of every CTA has released it, by the early release or *)
(* at the end.                                                             *)
LEMMA AccRingStep ==
  ASSUME Types, RingTypes, Places, SlotsOK, IndexRingOK, AccRingOK, [Next]_vars
  PROVE  AccRingOK'
<1>1. launch' = launch /\ Ctas' = Ctas /\ ReleaseAt' = ReleaseAt BY PlacesStep, Same
<1>2. launch \in Launches /\ Leader \in Ctas /\ Leader = 0 /\ IsFiniteSet(Ctas) /\ Ctas # {}
      /\ Cardinality(Ctas) = launch.ctas
  <2>1. launch \in Launches BY DEF Types
  <2> QED BY <2>1, CtasAre
<1> DEFINE d == AccStages(launch)
           me == mma[Leader]
<1>3. d \in Nat \ {0} BY <1>2, Depths
<1>4. AccAt(d, acc, Ctas, Freed, epi, me) BY AccIs
<1>5. me.a \in Nat /\ \A c \in Ctas : epi[c] \in EpiRec(launch) /\ epi[c].a \in Nat BY <1>2 DEF Types, MmaRec, EpiRec
<1>6. SUFFICES AccAt(d, acc', Ctas, Freed', epi', mma'[Leader]) BY <1>1, AccIs
<1>7. \A c \in Ctas : Freed[c] = FreedBy(ReleaseAt, epi[c]) /\ Freed'[c] = FreedBy(ReleaseAt, epi'[c])
  BY <1>1, FreedIs
<1>8. /\ \A c \in Ctas : Settled(acc.full[c], me.a, d)
      /\ Emptying(acc.empty, Ctas, Freed, me.a, d) /\ Within(Ctas, Freed, me.a, d)
      /\ me.at = "k" => \A c \in Ctas : me.a + 1 <= Freed[c] + d
      /\ \A c \in Ctas : epi[c].sub > 0 \/ epi[c].at = "c" => epi[c].a < me.a
  BY <1>4 DEF AccAt
<1>20. acc \in [full : [Ctas -> [0..d - 1 -> Bar]], empty : [0..d - 1 -> Bar]] BY DEF RingTypes
<1> HIDE DEF d, me
<1>9. ASSUME epi' = epi PROVE Freed' = Freed BY <1>1, <1>9 DEF Freed
<1>10. ASSUME acc' = acc, epi' = epi, mma'[Leader].a = me.a, mma'[Leader].at = "k" => me.at = "k"
       PROVE  AccAt(d, acc', Ctas, Freed', epi', mma'[Leader])
  <2>1. Freed' = Freed BY <1>9, <1>10
  <2>2. mma'[Leader].at = "k" => \A c \in Ctas : me.a + 1 <= Freed[c] + d BY <1>8, <1>10
  <2> QED BY <1>8, <1>10, <2>1, <2>2 DEF AccAt
<1>11. ASSUME UNCHANGED <<acc, epi, mma>> PROVE AccAt(d, acc', Ctas, Freed', epi', mma'[Leader])
  BY <1>10, <1>11 DEF me
<1>12. CASE UNCHANGED vars BY <1>11, <1>12 DEF vars, procs, rings
<1>13. CASE AccAcquire
  <2>1. IsFree(acc.empty, me.a) /\ mma'[Leader].a = me.a BY <1>13, AccAcquireTo DEF me
  <2>2. UNCHANGED <<acc, epi>> BY <1>13 DEF AccAcquire, MmaRest
  <2>3. \A c \in Ctas : me.a + 1 <= Freed[c] + d BY <1>3, <1>5, <1>8, <2>1, EmptyingSees
  <2>4. Freed' = Freed BY <1>9, <2>2
  <2> QED BY <1>8, <2>1, <2>2, <2>3, <2>4 DEF AccAt
<1>14. CASE Multiply \/ MmaTail
  <2>1. mma'[Leader].a = me.a /\ (mma'[Leader].at = "k" => me.at = "k") BY <1>14, MultiplyTo, MmaTailTo DEF me
  <2>2. UNCHANGED <<acc, epi>> BY <1>14 DEF Multiply, MmaTail, MmaRest
  <2> QED BY <1>10, <2>1, <2>2
<1>15. CASE AccCommit
  <2>1. me.at = "k" /\ mma'[Leader].at = "read" /\ mma'[Leader].a = me.a + 1 BY <1>15, AccCommitTo DEF me
  <2>2. epi' = epi /\ acc' = [acc EXCEPT !.full = [c \in Ctas |-> Arrive(acc.full[c], me.a, 1)]]
    BY <1>15 DEF AccCommit, MmaRest, me
  <2>3. acc'.full = [c \in Ctas |-> Arrive(acc.full[c], me.a, 1)] /\ acc'.empty = acc.empty BY <1>20, <2>2
  <2>4. Freed' = Freed BY <1>9, <2>2
  <2>5. \A c \in Ctas : me.a + 1 <= Freed[c] + d BY <1>8, <2>1
  <2>6. ASSUME NEW c \in Ctas PROVE Settled(acc'.full[c], me.a + 1, d)
    <3>1. PICK b : b = acc.full[c] OBVIOUS
    <3>2. Settled(Arrive(b, me.a, 1), me.a + 1, d) BY <1>3, <1>5, <1>8, <3>1, SettledArrive
    <3> QED BY <2>3, <3>1, <3>2
  <2>7. Emptying(acc'.empty, Ctas, Freed', me.a + 1, d) /\ Within(Ctas, Freed', me.a + 1, d)
    BY <1>2, <1>3, <1>5, <1>8, <2>3, <2>4, <2>5, EmptyingWrite
  <2>8. \A c \in Ctas : epi'[c].sub > 0 \/ epi'[c].at = "c" => epi'[c].a < me.a + 1
    BY <1>5, <1>8, <2>2
  <2> QED BY <2>1, <2>6, <2>7, <2>8 DEF AccAt
<1>16. ASSUME NEW c \in Ctas, Peek(c) PROVE AccAt(d, acc', Ctas, Freed', epi', mma'[Leader])
  <2>1. /\ EpiMoves(c) /\ epi[c].at = "peek" /\ epi'[c].at = "acc" /\ epi'[c].a = epi[c].a
        /\ epi[c].sub = 0 /\ epi'[c].sub = 0
    BY <1>16, PeekTo
  <2>2. UNCHANGED <<acc, mma>> BY <1>16 DEF Peek, EpiRest
  <2>3. \A e \in Ctas : e # c => epi'[e] = epi[e] BY <2>1 DEF EpiMoves, Moved
  <2>4. \A e \in Ctas : Freed'[e] = Freed[e] BY <1>7, <2>1, <2>3 DEF FreedBy
  <2>5. Freed' = Freed BY <1>1, <2>4 DEF Freed
  <2>6. \A e \in Ctas : epi'[e].sub > 0 \/ epi'[e].at = "c" => epi'[e].a < me.a BY <1>8, <2>1, <2>3
  <2>7. mma'[Leader] = me BY <2>2 DEF me
  <2> QED BY <1>8, <2>2, <2>5, <2>6, <2>7 DEF AccAt
<1>17. ASSUME NEW c \in Ctas, ReadC(c) PROVE AccAt(d, acc', Ctas, Freed', epi', mma'[Leader])
  <2>1. EpiMoves(c) /\ epi[c].at = "c" /\ NextIs(epi[c], epi'[c]) BY <1>17, ReadCTo
  <2>2. UNCHANGED <<acc, mma>> BY <1>17 DEF ReadC, EpiRest
  <2>3. \A e \in Ctas : e # c => epi'[e] = epi[e] BY <2>1 DEF EpiMoves, Moved
  <2>4. /\ FreedBy(ReleaseAt, epi'[c]) = FreedBy(ReleaseAt, epi[c])
        /\ epi'[c].sub > 0 \/ epi'[c].at = "c" => epi'[c].a = epi[c].a
    BY <1>2, <1>5, <2>1, ReadCFrees
  <2>5. \A e \in Ctas : Freed'[e] = Freed[e] BY <1>7, <2>3, <2>4
  <2>6. Freed' = Freed BY <1>1, <2>5 DEF Freed
  <2>7. \A e \in Ctas : epi'[e].sub > 0 \/ epi'[e].at = "c" => epi'[e].a < me.a BY <1>8, <2>1, <2>3, <2>4
  <2>8. mma'[Leader] = me BY <2>2 DEF me
  <2> QED BY <1>8, <2>2, <2>6, <2>7, <2>8 DEF AccAt
<1>18. ASSUME NEW c \in Ctas, ReadAcc(c) PROVE AccAt(d, acc', Ctas, Freed', epi', mma'[Leader])
  <2> DEFINE e0 == epi[c]
             e1 == epi'[c]
  <2>1. /\ EpiMoves(c) /\ e0.at = "acc" /\ e0 \in EpiRec(launch)
        /\ e0.sub = 0 => IsFull(acc.full[c], e0.a)
        /\ acc' = IF e0.sub = ReleaseAt THEN [acc EXCEPT !.empty = Arrive(acc.empty, e0.a, launch.ctas)] ELSE acc
        /\ \/ e1.at = "c" /\ e1.t = e0.t /\ e1.sub = e0.sub /\ e1.a = e0.a
           \/ NextIs(e0, e1)
    BY <1>18, ReadAccTo
  <2>2. mma' = mma BY <1>18 DEF ReadAcc, EpiRest
  <2>3. \A e \in Ctas : e # c => epi'[e] = epi[e] BY <2>1 DEF EpiMoves, Moved
  <2>4. /\ e0.sub = ReleaseAt => FreedBy(ReleaseAt, e0) = e0.a /\ FreedBy(ReleaseAt, e1) = e0.a + 1
        /\ e0.sub # ReleaseAt => FreedBy(ReleaseAt, e1) = FreedBy(ReleaseAt, e0)
        /\ e1.sub > 0 \/ e1.at = "c" => e1.a = e0.a
    BY <1>2, <2>1, ReadAccFrees
  <2>5. PICK a0 \in Nat, s0 \in Nat : a0 = e0.a /\ s0 = e0.sub
    <3>1. launch.subtiles \in Nat BY <1>2, LaunchIs
    <3> QED BY <2>1, <3>1 DEF EpiRec
  <2>6. a0 < me.a
    <3>1. CASE s0 = 0
      <4>1. Freed[c] \in Nat /\ Freed[c] <= me.a /\ me.a <= Freed[c] + d BY <1>8 DEF Within
      <4>2. Freed[c] = a0 \/ Freed[c] = a0 + 1 BY <1>7, <2>5 DEF FreedBy
      <4>3. IsFull(acc.full[c], a0) BY <2>1, <2>5, <3>1
      <4>4. CASE Freed[c] = a0
        <5>1. me.a <= a0 + d /\ a0 < me.a + d BY <1>3, <1>5, <4>1, <4>4
        <5>2. PICK b : b = acc.full[c] OBVIOUS
        <5>3. Settled(b, me.a, d) /\ IsFull(b, a0) BY <1>8, <4>3, <5>2
        <5> QED BY <1>3, <1>5, <5>1, <5>3, SettledSees
      <4>5. CASE Freed[c] = a0 + 1 BY <1>5, <4>1, <4>5
      <4> QED BY <4>2, <4>4, <4>5
    <3>2. CASE s0 # 0 BY <1>8, <2>5, <3>2
    <3> QED BY <3>1, <3>2
  <2>7. \A e \in Ctas : epi'[e].sub > 0 \/ epi'[e].at = "c" => epi'[e].a < me.a BY <1>8, <2>3, <2>4, <2>5, <2>6
  <2>8. mma'[Leader] = me BY <2>2 DEF me
  <2>9. CASE e0.sub = ReleaseAt
    <3>1. Freed[c] = a0 /\ Freed'[c] = Freed[c] + 1 /\ \A e \in Ctas : e # c => Freed'[e] = Freed[e]
      BY <1>7, <2>3, <2>4, <2>5, <2>9
    <3>2. acc' = [acc EXCEPT !.empty = Arrive(acc.empty, a0, launch.ctas)] BY <2>1, <2>5, <2>9
    <3>3. acc'.full = acc.full /\ acc'.empty = Arrive(acc.empty, Freed[c], Cardinality(Ctas))
      <4>1. PICK b : b = Arrive(acc.empty, a0, launch.ctas) OBVIOUS
      <4>2. acc'.full = acc.full /\ acc'.empty = b BY <1>20, <3>2, <4>1
      <4> QED BY <1>2, <3>1, <4>1, <4>2
    <3>4. PICK s : s = Freed' OBVIOUS
    <3>5. Emptying(Arrive(acc.empty, Freed[c], Cardinality(Ctas)), Ctas, s, me.a, d) /\ Within(Ctas, s, me.a, d)
      BY <1>2, <1>3, <1>5, <1>8, <2>6, <3>1, <3>4, EmptyingRead
    <3>6. me.at = "k" => \A e \in Ctas : me.a + 1 <= s[e] + d
      <4> SUFFICES ASSUME me.at = "k", NEW e \in Ctas PROVE me.a + 1 <= s[e] + d OBVIOUS
      <4>1. me.a + 1 <= Freed[e] + d BY <1>8
      <4>2. Freed[e] \in Nat BY <1>8 DEF Within
      <4>3. s[e] = Freed[e] \/ s[e] = Freed[e] + 1 BY <3>1, <3>4
      <4> QED BY <1>3, <1>5, <4>1, <4>2, <4>3
    <3> QED BY <1>8, <2>7, <2>8, <3>3, <3>4, <3>5, <3>6 DEF AccAt
  <2>10. CASE e0.sub # ReleaseAt
    <3>1. \A e \in Ctas : Freed'[e] = Freed[e] BY <1>7, <2>3, <2>4, <2>10
    <3>2. Freed' = Freed BY <1>1, <3>1 DEF Freed
    <3>3. acc' = acc BY <2>1, <2>10
    <3> QED BY <1>8, <2>7, <2>8, <3>2, <3>3 DEF AccAt
  <2> QED BY <2>9, <2>10
<1>19. ASSUME NEW c \in Ctas, Forward(c) \/ MmaAdvance(c) PROVE AccAt(d, acc', Ctas, Freed', epi', mma'[Leader])
  <2>1. UNCHANGED <<acc, epi>> BY <1>19 DEF Forward, MmaAdvance, MmaRest
  <2>2. MmaMoves(c) BY <1>19, ForwardTo, MmaAdvanceTo
  <2>3. c # Leader => mma'[Leader] = me BY <1>2, <2>2 DEF MmaMoves, Moved, me
  <2>4. c = Leader => mma'[Leader].a = me.a /\ mma'[Leader].at # "k" BY <1>19, ForwardTo, MmaAdvanceTo DEF me
  <2> QED BY <1>10, <2>1, <2>3, <2>4
<1>21. ASSUME NEW c \in Ctas, \/ \E w \in Loads : LoadStep(c, w)
                              \/ PutIndices(c) \/ IndexAdvance(c)
                              \/ CBegin(c) \/ FetchC(c) \/ CAdvance(c) \/ CTail(c)
                              \/ SchedAdvance(c)
       PROVE UNCHANGED <<acc, epi, mma>>
  <2>1. CASE \E w \in Loads : LoadStep(c, w)
    BY <2>1 DEF LoadStep, ThrottleCommit, ReadIndices, Fetch, Signal, LoadAdvance, LoadTail, LoadGoes
  <2>2. CASE PutIndices(c) \/ IndexAdvance(c) BY <2>2 DEF PutIndices, IndexAdvance, IndexRest
  <2>3. CASE CBegin(c) \/ FetchC(c) \/ CAdvance(c) \/ CTail(c) BY <2>3 DEF CBegin, FetchC, CAdvance, CTail, CRest
  <2>4. CASE SchedAdvance(c) BY <2>4 DEF SchedAdvance, SchedRest
  <2> QED BY <1>21, <2>1, <2>2, <2>3, <2>4
<1>22. CASE \E f \in flying : Land(f) BY <1>11, <1>22 DEF Land, procs
<1>23. CASE ThrottleSync \/ ThrottleWait \/ WriteSlot \/ SchedTail
  BY <1>11, <1>23 DEF ThrottleSync, ThrottleWait, WriteSlot, SchedTail, SchedRest
<1> QED BY <1>11, <1>12, <1>13, <1>14, <1>15, <1>16, <1>17, <1>18, <1>19, <1>21, <1>22, <1>23 DEF Next, CtaStep
-----------------------------------------------------------------------------
(* What the epilogue at e still has to read of the accumulator of tile p.  *)
UnreadBy(e, a, p, i) ==
  /\ e.a <= p /\ p < a
  /\ p = e.a => e.sub <= i /\ (e.at = "c" => e.sub < i)

(* TmemOK, and what of it is the leader's at mma me.                       *)
TmemAt(l, R, S, tm, epis, me) ==
  /\ \A c \in R, p \in 0..Count(l) - 1, i \in S :
       UnreadBy(epis[c], me.a, p, i) /\ KOf(l, p + 1) > 0 => tm[c][p % 2][i] = <<p + 1, KOf(l, p + 1)>>
  /\ me.at = "k" /\ me.k > 0 => \A c \in R, i \in S : tm[c][me.a % 2][i] = <<me.t, me.k>>

(* TmemOK is TmemAt of the model's variables.                              *)
LEMMA TmemIs ==
  /\ TmemOK <=> TmemAt(launch, Ctas, Subs, tmem, epi, mma[Leader])
  /\ launch' = launch => (TmemOK' <=> TmemAt(launch, Ctas, Subs, tmem', epi', mma'[Leader]))
<1>1. TmemOK <=> TmemAt(launch, Ctas, Subs, tmem, epi, mma[Leader])
  BY DEF TmemOK, TmemAt, Unread, UnreadBy, N, K, Count, KOf
<1>2. ASSUME launch' = launch
      PROVE TmemOK' <=> TmemAt(launch, Ctas, Subs, tmem', epi', mma'[Leader])
  BY <1>2, Same DEF TmemOK, TmemAt, Unread, UnreadBy, Leader, N, K, Count, KOf
<1> QED BY <1>1, <1>2

(* The step of a k-tile of me on the tensor memory m of a CTA.             *)
Summed(m, me, b, new) ==
  /\ \A i \in Subs : new[b][i] = IF me.k = 0 THEN <<me.t, 1>>
                       ELSE IF m[b][i] = <<me.t, me.k>> THEN <<me.t, me.k + 1>> ELSE Nothing
  /\ \A i \in Subs : ~(launch.scaled /\ i \in SfSubs) => new[1 - b][i] = m[1 - b][i]

(* Multiplied is such a step.                                              *)
LEMMA MultipliedIs ==
  ASSUME launch \in Launches, NEW me \in MmaRec(launch),
         NEW m \in [{0, 1} -> [Subs -> Pair]], NEW b \in {0, 1}, b = me.a % 2,
         NEW new, new = Multiplied(m, me)
  PROVE  new \in [{0, 1} -> [Subs -> Pair]] /\ Summed(m, me, b, new)
<1>1. me.t \in Nat /\ me.k \in Nat BY LaunchIs DEF MmaRec, TilesOf
<1> DEFINE sum(x) == IF me.k = 0 THEN <<me.t, 1>> ELSE IF x = <<me.t, me.k>> THEN <<me.t, me.k + 1>> ELSE Nothing
           f == [i \in Subs |-> sum(m[b][i])]
           g == [i \in Subs |-> IF launch.scaled /\ i \in SfSubs THEN Nothing ELSE m[1 - b][i]]
<1>2. \A x : sum(x) \in Pair BY <1>1 DEF Pair, Nothing
<1>3. f \in [Subs -> Pair] BY <1>2
<1>4. Nothing \in Pair BY DEF Pair, Nothing
<1>5. 1 - b \in {0, 1} /\ 1 - b # b OBVIOUS
<1>6. g \in [Subs -> Pair] BY <1>4, <1>5
<1>7. Multiplied(m, me) = [m EXCEPT ![b] = f, ![1 - b] = g]
  <2>1. PICK o \in {0, 1} : o = 1 - b /\ o # b BY <1>5
  <2>2. Multiplied(m, me) = [m EXCEPT ![b] = [i \in Subs |-> sum(@[i])],
          ![o] = [i \in Subs |-> IF launch.scaled /\ i \in SfSubs THEN Nothing ELSE @[i]]]
    BY <2>1 DEF Multiplied, AccBuffer
  <2> QED BY <2>1, <2>2
<1>8. /\ \A i \in Subs : f[i] = sum(m[b][i])
      /\ \A i \in Subs : ~(launch.scaled /\ i \in SfSubs) => g[i] = m[1 - b][i]
  OBVIOUS
<1> HIDE DEF f, g, sum
<1>10. new \in [{0, 1} -> [Subs -> Pair]] /\ new[b] = f /\ new[1 - b] = g
  BY <1>3, <1>5, <1>6, <1>7
<1> QED BY <1>8, <1>10 DEF sum, Summed

(* The columns a k-tile of the leader writes are read of every older tile. *)
LEMMA WritesRead ==
  ASSUME launch \in Launches, NEW e \in EpiRec(launch), NEW a \in Nat,
         a + 1 <= FreedBy(ReleaseAt, e) + AccStages(launch),
         NEW p \in Nat, NEW i \in Subs, UnreadBy(e, a, p, i)
  PROVE  p % 2 = 1 - (a % 2) /\ ~(launch.scaled /\ i \in SfSubs)
<1>1. PICK r \in 0..launch.subtiles - 1 : r = ReleaseAt BY ReleaseIs
<1>2. launch.subtiles \in Nat \ {0} /\ e.sub \in 0..launch.subtiles - 1 /\ e.a \in Nat /\ i \in 0..launch.subtiles - 1
  BY ReleaseIs DEF EpiRec
<1>3. PICK s \in 0..launch.subtiles - 1, b \in Nat : s = e.sub /\ b = e.a BY <1>2
<1>4. /\ b <= p /\ p < a /\ (p = b => s <= i /\ (e.at = "c" => s < i))
      /\ FreedBy(ReleaseAt, e) = b + IF s > r \/ (s = r /\ e.at = "c") THEN 1 ELSE 0
  BY <1>1, <1>3 DEF UnreadBy, FreedBy
<1>5. CASE launch.scaled
  <2>1. AccStages(launch) = 1 /\ \A j \in SfSubs : j <= r BY <1>1, <1>5, ReleaseIs
  <2>2. p = a - 1 /\ p = b /\ (s > r \/ (s = r /\ e.at = "c")) BY <1>1, <1>3, <1>4, <2>1
  <2>3. i > r BY <1>1, <1>2, <1>3, <1>4, <2>2
  <2>4. i \notin SfSubs BY <1>1, <1>2, <2>1, <2>3
  <2>5. p % 2 = 1 - (a % 2) BY <2>2
  <2> QED BY <2>4, <2>5
<1>6. CASE ~launch.scaled
  <2>1. AccStages(launch) = 2 /\ r = launch.subtiles - 1 BY <1>1, <1>6, ReleaseIs
  <2>2. p = a - 1
    <3> SUFFICES ASSUME p # a - 1 PROVE FALSE OBVIOUS
    <3>1. p = a - 2 /\ p = b /\ (s > r \/ (s = r /\ e.at = "c")) BY <1>1, <1>3, <1>4, <2>1
    <3>2. i > r BY <1>1, <1>2, <1>3, <1>4, <3>1
    <3> QED BY <1>2, <2>1, <3>2
  <2>3. p % 2 = 1 - (a % 2) BY <2>2
  <2> QED BY <1>6, <2>3
<1> QED BY <1>5, <1>6

(* Every step keeps the tensor memory: no k-tile writes columns that an    *)
(* epilogue still has to read.                                             *)
LEMMA TmemStep ==
  ASSUME Types, RingTypes, Places, SlotsOK, IndexRingOK, AccRingOK, TmemOK, [Next]_vars
  PROVE  TmemOK'
<1>1. launch' = launch BY PlacesStep
<1>2. launch \in Launches /\ Leader \in Ctas /\ Leader = 0
  <2>1. launch \in Launches BY DEF Types
  <2> QED BY <2>1, CtasAre
<1> DEFINE l == launch
           me == mma[Leader]
           OK == TmemAt(l, Ctas, Subs, tmem', epi', mma'[Leader])
<1>3. SUFFICES OK BY <1>1, TmemIs
<1>4. TmemAt(l, Ctas, Subs, tmem, epi, me) BY TmemIs
<1>5. me \in MmaRec(l) /\ me.a \in Nat /\ me.k \in Nat /\ \A c \in Ctas : epi[c] \in EpiRec(l)
  BY <1>2 DEF Types, MmaRec
<1>6. /\ \A c \in Ctas, p \in 0..Count(l) - 1, i \in Subs :
           UnreadBy(epi[c], me.a, p, i) /\ KOf(l, p + 1) > 0 => tmem[c][p % 2][i] = <<p + 1, KOf(l, p + 1)>>
      /\ me.at = "k" /\ me.k > 0 => \A c \in Ctas, i \in Subs : tmem[c][me.a % 2][i] = <<me.t, me.k>>
  BY <1>4 DEF TmemAt
<1> HIDE DEF l, me
<1>7. ASSUME tmem' = tmem, mma'[Leader] = me,
             \A c \in Ctas, p \in 0..Count(l) - 1, i \in Subs :
               UnreadBy(epi'[c], me.a, p, i) => UnreadBy(epi[c], me.a, p, i)
      PROVE  OK
  BY <1>6, <1>7 DEF TmemAt
<1>8. ASSUME UNCHANGED <<tmem, epi, mma>> PROVE OK BY <1>7, <1>8 DEF me
<1>9. ASSUME tmem' = tmem, epi' = epi, mma'[Leader].a = me.a,
             mma'[Leader].at = "k" /\ mma'[Leader].k > 0 => FALSE
      PROVE  OK
  BY <1>6, <1>9 DEF TmemAt
<1>10. CASE UNCHANGED vars BY <1>8, <1>10 DEF vars, procs, rings
<1>11. CASE AccAcquire \/ MmaTail
  <2>1. mma'[Leader].a = me.a /\ ~(mma'[Leader].at = "k" /\ mma'[Leader].k > 0)
    BY <1>11, AccAcquireTo, MmaTailTo DEF me
  <2>2. UNCHANGED <<tmem, epi>> BY <1>11 DEF AccAcquire, MmaTail, MmaRest
  <2> QED BY <1>9, <2>1, <2>2
<1>12. CASE AccCommit
  <2>1. /\ me.at = "k" /\ me.k = KOf(l, me.t) /\ me.t \in 1..Count(l) /\ me.a = me.t - 1
        /\ mma'[Leader].at = "read" /\ mma'[Leader].a = me.a + 1
    BY <1>12, AccCommitTo DEF me, l
  <2>2. UNCHANGED <<tmem, epi>> BY <1>12 DEF AccCommit, MmaRest
  <2>3. ASSUME NEW c \in Ctas, NEW p \in 0..Count(l) - 1, NEW i \in Subs,
               UnreadBy(epi[c], me.a + 1, p, i), KOf(l, p + 1) > 0
        PROVE  tmem[c][p % 2][i] = <<p + 1, KOf(l, p + 1)>>
    <3>1. CASE p = me.a
      <4>1. p + 1 = me.t BY <2>1, <3>1
      <4>2. tmem[c][me.a % 2][i] = <<me.t, me.k>> BY <1>6, <2>1, <2>3, <4>1
      <4> QED BY <2>1, <3>1, <4>1, <4>2
    <3>2. CASE p # me.a
      <4>1. UnreadBy(epi[c], me.a, p, i)
        <5>1. p < me.a + 1 BY <2>3 DEF UnreadBy
        <5>2. p < me.a BY <1>5, <3>2, <5>1
        <5> QED BY <2>3, <5>2 DEF UnreadBy
      <4> QED BY <1>6, <2>3, <4>1
    <3> QED BY <3>1, <3>2
  <2> QED BY <2>1, <2>2, <2>3 DEF TmemAt
<1>13. CASE Multiply
  <2>1. /\ me.at = "k" /\ me.t \in 1..Count(l) /\ mma'[Leader].at = "k" /\ mma'[Leader].t = me.t
        /\ mma'[Leader].k = me.k + 1 /\ mma'[Leader].a = me.a
    BY <1>13, MultiplyTo DEF me, l
  <2>2. epi' = epi /\ tmem' = [c \in Ctas |-> Multiplied(tmem[c], me)] BY <1>13 DEF Multiply, MmaRest, me
  <2>3. PICK b \in {0, 1} : b = me.a % 2 BY <1>5
  <2>4. ASSUME NEW c \in Ctas
        PROVE  Summed(tmem[c], me, b, tmem'[c])
    <3>1. PICK m : m = tmem[c] OBVIOUS
    <3>2. m \in [{0, 1} -> [Subs -> Pair]] BY <3>1 DEF RingTypes
    <3>3. tmem'[c] = Multiplied(m, me) BY <2>2, <3>1
    <3>4. PICK x : x = me /\ x \in MmaRec(launch) BY <1>5 DEF l
    <3>5. PICK new : new = Multiplied(m, x) OBVIOUS
    <3>6. b = x.a % 2 BY <2>3, <3>4
    <3>7. Summed(m, x, b, new)
      BY <1>2, <3>2, <3>4, <3>5, <3>6, MultipliedIs
    <3> QED BY <3>1, <3>3, <3>4, <3>5, <3>7
  <2>5. ASSUME NEW c \in Ctas, NEW p \in 0..Count(l) - 1, NEW i \in Subs,
               UnreadBy(epi[c], me.a, p, i), KOf(l, p + 1) > 0
        PROVE  tmem'[c][p % 2][i] = <<p + 1, KOf(l, p + 1)>>
    <3>1. me.a + 1 <= FreedBy(ReleaseAt, epi[c]) + AccStages(launch)
      <4>1. Freed[c] = FreedBy(ReleaseAt, epi[c]) BY FreedIs
      <4> QED BY <2>1, <4>1 DEF AccRingOK, me
    <3>2. p \in Nat OBVIOUS
    <3>3. p % 2 = 1 - b /\ ~(l.scaled /\ i \in SfSubs)
      <4>1. PICK a \in Nat : a = me.a BY <1>5
      <4>2. PICK e \in EpiRec(launch) : e = epi[c] BY <1>5 DEF l
      <4>3. a + 1 <= FreedBy(ReleaseAt, e) + AccStages(launch) /\ UnreadBy(e, a, p, i) BY <2>5, <3>1, <4>1, <4>2
      <4>4. p % 2 = 1 - (a % 2) /\ ~(launch.scaled /\ i \in SfSubs) BY <1>2, <3>2, <4>3, WritesRead
      <4> QED BY <2>3, <4>1, <4>4 DEF l
    <3>4. tmem'[c][1 - b][i] = tmem[c][1 - b][i]
      <4>1. Summed(tmem[c], me, b, tmem'[c]) BY <2>4
      <4> QED BY <3>3, <4>1 DEF Summed, l
    <3> QED BY <1>6, <2>5, <3>3, <3>4
  <2>6. ASSUME NEW c \in Ctas, NEW i \in Subs PROVE tmem'[c][b][i] = <<me.t, me.k + 1>>
    <3>3. tmem'[c][b][i] = IF me.k = 0 THEN <<me.t, 1>>
            ELSE IF tmem[c][b][i] = <<me.t, me.k>> THEN <<me.t, me.k + 1>> ELSE Nothing
      <4>1. Summed(tmem[c], me, b, tmem'[c]) BY <2>4
      <4> QED BY <4>1 DEF Summed
    <3>1. CASE me.k = 0 BY <1>5, <3>1, <3>3
    <3>2. CASE me.k # 0
      <4>1. tmem[c][b][i] = <<me.t, me.k>> BY <1>5, <1>6, <2>1, <2>3, <3>2
      <4> QED BY <3>2, <3>3, <4>1
    <3> QED BY <3>1, <3>2
  <2> QED BY <2>1, <2>2, <2>3, <2>5, <2>6 DEF TmemAt
<1>14. ASSUME NEW c \in Ctas, Peek(c) \/ ReadAcc(c) \/ ReadC(c) PROVE OK
  <2>1. UNCHANGED <<tmem, mma>> BY <1>14 DEF Peek, ReadAcc, ReadC, EpiRest
  <2> DEFINE e == epi[c]
             new == epi'[c]
  <2>2. /\ EpiMoves(c)
        /\ \/ new.a = e.a /\ new.sub = e.sub /\ e.at # "c"
           \/ NextIs(e, new)
    <3>1. CASE Peek(c)
      <4>1. EpiMoves(c) /\ e.at = "peek" /\ new.a = e.a /\ e.sub = 0 /\ new.sub = 0 BY <3>1, PeekTo
      <4> QED BY <4>1
    <3>2. CASE ReadAcc(c)
      <4>1. /\ EpiMoves(c) /\ e.at = "acc"
            /\ \/ new.at = "c" /\ new.sub = e.sub /\ new.a = e.a
               \/ NextIs(e, new)
        BY <3>2, ReadAccTo
      <4> QED BY <4>1
    <3>3. CASE ReadC(c) BY <3>3, ReadCTo
    <3> QED BY <1>14, <3>1, <3>2, <3>3
  <2>3. \A d \in Ctas : d # c => epi'[d] = epi[d] BY <2>2 DEF EpiMoves, Moved
  <2>4. e \in EpiRec(l) BY <1>5
  <2>5. e.a \in Nat /\ e.sub \in Nat /\ l.subtiles \in Nat
    <3>1. l.subtiles \in Nat BY <1>2, LaunchIs DEF l
    <3> QED BY <2>4, <3>1 DEF EpiRec
  <2> HIDE DEF e, new
  <2>6. ASSUME NEW p \in 0..Count(l) - 1, NEW i \in Subs, UnreadBy(new, me.a, p, i) PROVE UnreadBy(e, me.a, p, i)
    <3>1. CASE new.a = e.a /\ new.sub = e.sub /\ e.at # "c" BY <2>6, <3>1 DEF UnreadBy
    <3>2. CASE NextIs(e, new)
      <4>1. i \in Nat /\ p \in Nat
        <5>1. launch.subtiles \in Nat \ {0} /\ Subs = 0..launch.subtiles - 1 BY <1>2, ReleaseIs
        <5> QED BY <5>1
      <4>2. CASE new.sub = e.sub + 1 /\ new.at = "acc" /\ new.a = e.a BY <2>5, <2>6, <4>1, <4>2 DEF UnreadBy
      <4>3. CASE new.a = e.a + 1 BY <1>5, <2>5, <2>6, <4>1, <4>3 DEF UnreadBy
      <4> QED BY <3>2, <4>2, <4>3 DEF NextIs
    <3> QED BY <2>2, <3>1, <3>2
  <2> QED BY <1>7, <2>1, <2>3, <2>6 DEF e, new, me
<1>15. ASSUME NEW c \in Ctas, Forward(c) \/ MmaAdvance(c) PROVE OK
  <2>1. UNCHANGED <<tmem, epi>> BY <1>15 DEF Forward, MmaAdvance, MmaRest
  <2>2. MmaMoves(c) BY <1>15, ForwardTo, MmaAdvanceTo
  <2>3. c # Leader => mma'[Leader] = me BY <1>2, <2>2 DEF MmaMoves, Moved, me
  <2>4. c = Leader => mma'[Leader].a = me.a /\ mma'[Leader].at # "k" BY <1>15, ForwardTo, MmaAdvanceTo DEF me
  <2> QED BY <1>7, <1>9, <2>1, <2>3, <2>4
<1>16. ASSUME NEW c \in Ctas, \/ \E w \in Loads : LoadStep(c, w)
                              \/ PutIndices(c) \/ IndexAdvance(c)
                              \/ CBegin(c) \/ FetchC(c) \/ CAdvance(c) \/ CTail(c)
                              \/ SchedAdvance(c)
       PROVE UNCHANGED <<tmem, epi, mma>>
  <2>1. CASE \E w \in Loads : LoadStep(c, w)
    BY <2>1 DEF LoadStep, ThrottleCommit, ReadIndices, Fetch, Signal, LoadAdvance, LoadTail, LoadGoes
  <2>2. CASE PutIndices(c) \/ IndexAdvance(c) BY <2>2 DEF PutIndices, IndexAdvance, IndexRest
  <2>3. CASE CBegin(c) \/ FetchC(c) \/ CAdvance(c) \/ CTail(c) BY <2>3 DEF CBegin, FetchC, CAdvance, CTail, CRest
  <2>4. CASE SchedAdvance(c) BY <2>4 DEF SchedAdvance, SchedRest
  <2> QED BY <1>16, <2>1, <2>2, <2>3, <2>4
<1>17. CASE \E f \in flying : Land(f) BY <1>8, <1>17 DEF Land, procs
<1>18. CASE ThrottleSync \/ ThrottleWait \/ WriteSlot \/ SchedTail
  BY <1>8, <1>18 DEF ThrottleSync, ThrottleWait, WriteSlot, SchedTail, SchedRest
<1> HIDE DEF OK
<1> QED BY <1>8, <1>10, <1>11, <1>12, <1>13, <1>14, <1>15, <1>16, <1>17, <1>18 DEF Next, CtaStep
-----------------------------------------------------------------------------
(* The A/B ring, where ld are the load warps, fl the loads in flight, M the *)
(* leader's position and F the other CTA's.                                *)
SentIn(ld, c, q, p) == q < ld[c][Issuer(q, p)].n
HereIn(ld, fl, c, q, p) == SentIn(ld, c, q, p) /\ Flight(c, q, p) \notin fl
OwedIn(ld, fl, q) == {u \in Ctas \X {p \in Units : ByTma(p)} : ~HereIn(ld, fl, u[1], q, u[2])}
WaitingIn(ld, fl, c, q) == {w \in Loads : ~HereIn(ld, fl, c, q, w)}
ArmedIn(ld, q) == SentIn(ld, Leader, q, PartB)
TxIn(ld, fl, q) == Cardinality(OwedIn(ld, fl, q)) - IF ArmedIn(ld, q) THEN 0 ELSE TxParts
PendingIn(ld, fl, F, q) ==
  (IF ArmedIn(ld, q) THEN 0 ELSE 1)
    + IF CpAsync THEN Cardinality(WaitingIn(ld, fl, Leader, q)) + IF launch.ctas = 2 /\ F <= q THEN 1 ELSE 0
      ELSE 0
(* A barrier in the round of parity y, of which p arrivals and x bytes are *)
(* pending, or complete.                                                   *)
Filling(y, p, x, count) == IF p = 0 /\ x = 0 THEN State(1 - y, count, 0) ELSE State(y, p, x)
LeaderFull(ld, fl, F, q) ==
  Filling(Turn(q, AbStages), PendingIn(ld, fl, F, q), TxIn(ld, fl, q), AbArrivals(launch, Leader))
OtherFull(ld, fl, q) ==
  IF CpAsync THEN Filling(Turn(q, AbStages), Cardinality(WaitingIn(ld, fl, 1, q)), 0, launch.loads)
  ELSE State(0, 1, 0)

Rounds(M) == M..M + AbStages - 1
Ahead(ld, M) == \A c \in Ctas, w \in Loads : M <= ld[c][w].n /\ ld[c][w].n <= M + AbStages
LeaderOK(a, ld, fl, F, M) == \A q \in Rounds(M) : a[Leader].full[q % AbStages] = LeaderFull(ld, fl, F, q)
OtherOK(a, ld, fl, F, M) ==
  launch.ctas = 2 =>
    /\ \A q \in Rounds(M) : a[1].full[q % AbStages] = OtherFull(ld, fl, q)
    /\ CpAsync => /\ M <= F /\ F <= M + AbStages
                  /\ \A q \in Rounds(M) : q < F => WaitingIn(ld, fl, 1, q) = {}
EmptyOK(a, M) == \A c \in Ctas : Settled(a[c].empty, M, AbStages)
FlyingOK(ld, fl, M) ==
  \A f \in fl : \E c \in Ctas, q \in Rounds(M), p \in Units : f = Flight(c, q, p) /\ SentIn(ld, c, q, p)
DataOK(a, ld, fl, M) ==
  \A c \in Ctas, q \in Rounds(M), p \in Units :
    HereIn(ld, fl, c, q, p) => \A x \in PartsOf(p) : a[c].data[q % AbStages][x] = At(launch, q)
AbAt(a, ld, fl, F, M) ==
  /\ Ahead(ld, M) /\ EmptyOK(a, M) /\ LeaderOK(a, ld, fl, F, M) /\ OtherOK(a, ld, fl, F, M)
  /\ FlyingOK(ld, fl, M) /\ DataOK(a, ld, fl, M)

(* The units of a k-tile.                                                  *)
LEMMA UnitsAre ==
  ASSUME launch \in Launches
  PROVE  /\ PartB = launch.loads /\ PartB \in Nat /\ PartB \in Units /\ ByTma(PartB) /\ PartB \notin Loads
         /\ ~Gathers => Units = {PartB} /\ Loads = {0} /\ ~CpAsync /\ ~launch.tmaGather
         /\ Gathers => Units = Loads \cup {PartB}
         /\ Units \subseteq 0..launch.loads /\ IsFiniteSet(Units)
         /\ CpAsync => Gathers /\ \A p \in Loads : p \in Units /\ ~ByTma(p)
         /\ ~CpAsync => \A p \in Units : ByTma(p)
         /\ \A p \in Units : p \in PartsOf(p) /\ PartsOf(p) \subseteq 0..launch.loads
         /\ \A p \in Units, u \in Units : \A x \in PartsOf(p) : x \in PartsOf(u) => p = u
<1>1. launch.loads \in Nat \ {0} /\ (launch.gather = "none" => launch.loads = 1 /\ ~launch.tmaGather)
  BY LaunchIs
<1>2. PICK n \in Nat \ {0} : n = launch.loads BY <1>1
<1>3. PartB = n /\ Loads = 0..n - 1 /\ Units = IF Gathers THEN 0..n ELSE {n} BY <1>2 DEF PartB, Loads, Units
<1>4. n \notin 0..n - 1 /\ 0..n = (0..n - 1) \cup {n} /\ n \in 0..n /\ 0 \in 0..n OBVIOUS
<1>5. ~Gathers => n = 1 /\ 0..n - 1 = {0} /\ ~launch.tmaGather BY <1>1, <1>2 DEF Gathers
<1>6. IsFiniteSet(0..n) BY FS_Interval
<1>7. Units \subseteq 0..n BY <1>3, <1>4
<1>8. IsFiniteSet(Units) BY <1>6, <1>7, FS_Subset
<1>9. CpAsync => Gathers /\ \A p \in Loads : p \in Units /\ ~ByTma(p) BY <1>3, <1>4 DEF CpAsync, ByTma
<1>10. ~CpAsync => \A p \in Units : ByTma(p) BY <1>3 DEF CpAsync, ByTma
<1>11. \A p \in Units : p \in PartsOf(p) /\ PartsOf(p) \subseteq 0..n BY <1>3, <1>4 DEF PartsOf
<1>12. \A p \in Units, u \in Units : \A x \in PartsOf(p) : x \in PartsOf(u) => p = u BY <1>3 DEF PartsOf
<1> QED BY <1>2, <1>3, <1>4, <1>5, <1>7, <1>8, <1>9, <1>10, <1>11, <1>12 DEF ByTma, CpAsync

(* Each is one load warp's, and a load tells which it is.                  *)
LEMMA IssuerIs ==
  ASSUME launch \in Launches
  PROVE  /\ \A q, p : p \in Units => Issuer(q, p) \in Loads
         /\ \A q : Armer(q) \in Loads /\ Issuer(q, PartB) = Armer(q)
         /\ \A q, p : p \in Loads => Issuer(q, p) = p
<1>1. PICK n \in Nat \ {0} : n = launch.loads
  <2>1. launch.loads \in Nat \ {0} BY LaunchIs
  <2> QED BY <2>1
<1>2. ASSUME NEW q PROVE Armer(q) \in Loads
  <2>1. At(launch, q) \in Pair BY AtIs
  <2>2. PICK k \in Nat : k = At(launch, q)[2] BY <2>1 DEF Pair
  <2>3. k % n \in 0..n - 1 BY DivMod
  <2> QED BY <1>1, <2>2, <2>3 DEF Armer, Loads
<1>3. \A q : Issuer(q, PartB) = Armer(q) BY DEF Issuer
<1>4. PartB \notin Loads /\ \A p \in Units : p \in Loads \/ p = PartB BY UnitsAre
<1>5. \A q, p : p \in Loads => Issuer(q, p) = p BY <1>4 DEF Issuer
<1> QED BY <1>2, <1>3, <1>4, <1>5

(* Loads of a round of positions are told apart by their stage and parts.  *)
LEMMA FlightsApart ==
  ASSUME launch \in Launches, NEW M \in Nat, NEW q \in Rounds(M), NEW r \in Rounds(M),
         NEW c, NEW d, NEW p \in Units, NEW u \in Units, Flight(c, q, p) = Flight(d, r, u)
  PROVE  c = d /\ q = r /\ p = u
<1>1. c = d /\ q % AbStages = r % AbStages /\ PartsOf(p) = PartsOf(u) BY DEF Flight
<1>2. AbStages \in Nat \ {0} BY Depths
<1>3. q = r
  <2>1. q \in M..M + AbStages - 1 /\ r \in M..M + AbStages - 1 BY DEF Rounds
  <2> QED BY <1>1, <1>2, <2>1, Apart
<1>4. p = u BY <1>1, UnitsAre
<1> QED BY <1>1, <1>3, <1>4

(* What is owed and waited for, counted.                                   *)
LEMMA OwedFinite ==
  ASSUME launch \in Launches, NEW ld, NEW fl, NEW q
  PROVE  /\ IsFiniteSet(OwedIn(ld, fl, q)) /\ Cardinality(OwedIn(ld, fl, q)) \in Nat
         /\ Cardinality(OwedIn(ld, fl, q)) = 0 => OwedIn(ld, fl, q) = {}
         /\ \A c : /\ IsFiniteSet(WaitingIn(ld, fl, c, q)) /\ Cardinality(WaitingIn(ld, fl, c, q)) \in Nat
                   /\ Cardinality(WaitingIn(ld, fl, c, q)) = 0 <=> WaitingIn(ld, fl, c, q) = {}
<1>1. IsFiniteSet(Ctas) /\ IsFiniteSet(Loads) /\ IsFiniteSet(Units) BY CtasAre, UnitsAre
<1>2. IsFiniteSet({p \in Units : ByTma(p)})
  <2>1. {p \in Units : ByTma(p)} \subseteq Units OBVIOUS
  <2> QED BY <1>1, <2>1, FS_Subset
<1>3. IsFiniteSet(Ctas \X {p \in Units : ByTma(p)}) BY <1>1, <1>2, FS_Product
<1>4. OwedIn(ld, fl, q) \subseteq Ctas \X {p \in Units : ByTma(p)} BY DEF OwedIn
<1>5. IsFiniteSet(OwedIn(ld, fl, q)) BY <1>3, <1>4, FS_Subset
<1>6. ASSUME NEW c PROVE IsFiniteSet(WaitingIn(ld, fl, c, q))
  <2>1. WaitingIn(ld, fl, c, q) \subseteq Loads BY DEF WaitingIn
  <2> QED BY <1>1, <2>1, FS_Subset
<1> QED BY <1>5, <1>6, FS_CardinalityType, FS_EmptySet

(* TxParts, the bytes the leader's barrier is armed for, are those of      *)
(* every unit loaded by TMA.                                               *)
LEMMA TxPartsAre ==
  ASSUME launch \in Launches
  PROVE  /\ Cardinality(Ctas \X {p \in Units : ByTma(p)}) = TxParts /\ TxParts \in Nat
<1>1. PICK n \in Nat \ {0}, m \in {1, 2} : n = launch.loads /\ m = launch.ctas
  <2>1. launch.loads \in Nat \ {0} /\ launch.ctas \in {1, 2} BY LaunchIs
  <2> QED BY <2>1
<1> DEFINE U == {p \in Units : ByTma(p)}
<1>2. IsFiniteSet(Ctas) /\ Cardinality(Ctas) = m BY <1>1, CtasAre
<1>3. IsFiniteSet(U) /\ Cardinality(U) = 1 + (IF launch.tmaGather THEN n ELSE 0)
  <2>1. CASE launch.tmaGather
    <3>1. U = 0..n
      <4>1. Gathers /\ ~CpAsync BY <2>1, UnitsAre DEF CpAsync
      <4>2. U = Units BY <4>1, UnitsAre
      <4> QED BY <1>1, <4>1, <4>2 DEF Units
    <3>2. IsFiniteSet(0..n) /\ Cardinality(0..n) = n + 1 BY FS_Interval
    <3>3. U = 0..n => IsFiniteSet(U) /\ Cardinality(U) = n + 1 BY <3>2
    <3> HIDE DEF U
    <3> QED BY <2>1, <3>1, <3>3
  <2>2. CASE ~launch.tmaGather
    <3>1. U = {PartB}
      <4>1. CASE Gathers
        <5>1. CpAsync BY <2>2, <4>1 DEF CpAsync
        <5> QED BY <4>1, <5>1, UnitsAre
      <4>2. CASE ~Gathers BY <4>2, UnitsAre
      <4> QED BY <4>1, <4>2
    <3>2. IsFiniteSet({PartB}) /\ Cardinality({PartB}) = 1 BY FS_Singleton
    <3> QED BY <2>2, <3>1, <3>2
  <2> QED BY <2>1, <2>2
<1>4. TxParts = m * (1 + (IF launch.tmaGather THEN n ELSE 0)) BY <1>1 DEF TxParts
<1> HIDE DEF U
<1>5. Cardinality(Ctas \X U) = Cardinality(Ctas) * Cardinality(U) BY <1>2, <1>3, FS_Product
<1>6. PICK k \in Nat : k = 1 + (IF launch.tmaGather THEN n ELSE 0) OBVIOUS
<1>7. m * k \in Nat OBVIOUS
<1> QED BY <1>2, <1>3, <1>4, <1>5, <1>6, <1>7 DEF U

(* An arrival at a barrier that is not complete.                           *)
LEMMA FillingHit ==
  ASSUME NEW y \in {0, 1}, NEW p \in Int, NEW x \in Int, p # 0 \/ x # 0, NEW count,
         NEW a \in Int, NEW z \in Int, NEW b, b = Filling(y, p, x, count)
  PROVE  Hit(b, count, a, z) = Filling(y, p - a, x + z, count)
<1>1. b = State(y, p, x) BY DEF Filling
<1>2. Hit(b, count, a, z) = IF p - a = 0 /\ x + z = 0 THEN State(1 - y, count, 0) ELSE State(y, p - a, x + z)
  BY <1>1, HitIs
<1> QED BY <1>2 DEF Filling

(* Such a barrier is one.                                                  *)
LEMMA FillingIs ==
  ASSUME NEW y \in {0, 1}, NEW p \in Int, NEW x \in Int, NEW count \in Int
  PROVE  Filling(y, p, x, count) \in Bar
BY DEF Filling, State, Bar
-----------------------------------------------------------------------------
(* AbRingOK and AbDataOK, in one.                                          *)
OtherAt(m) == IF launch.ctas = 2 THEN m[1].n ELSE 0

(* They are AbAt of the model's variables ...                              *)
LEMMA AbIs ==
  ASSUME launch \in Launches
  PROVE  AbRingOK /\ AbDataOK <=> AbAt(ab, load, flying, OtherAt(mma), mma[Leader].n)
<1>1. \A c, q, p : (Sent(c, q, p) <=> SentIn(load, c, q, p)) /\ (Here(c, q, p) <=> HereIn(load, flying, c, q, p))
  BY DEF Here, Sent, HereIn, SentIn
<1>2. \A q : /\ Owed(q) = OwedIn(load, flying, q) /\ (Armed(q) <=> ArmedIn(load, q))
             /\ \A c : Waiting(c, q) = WaitingIn(load, flying, c, q)
  BY <1>1 DEF Owed, OwedIn, Armed, ArmedIn, Waiting, WaitingIn
<1>3. \A q : TxAt(q) = TxIn(load, flying, q) BY <1>2 DEF TxAt, TxIn
<1>4. \A q : PendingAt(q) = PendingIn(load, flying, OtherAt(mma), q) BY <1>2 DEF PendingAt, PendingIn, OtherAt
<1>5. \A q : FullAt(q) = LeaderFull(load, flying, OtherAt(mma), q) BY <1>3, <1>4 DEF FullAt, LeaderFull, Filling
<1>6. ASSUME NEW q PROVE OtherFullAt(q) = OtherFull(load, flying, q)
  <2>1. Cardinality(WaitingIn(load, flying, 1, q)) = 0 <=> WaitingIn(load, flying, 1, q) = {} BY OwedFinite
  <2> QED BY <1>2, <2>1 DEF OtherFullAt, OtherFull, Filling
<1>7. AbRingOK <=> /\ Ahead(load, mma[Leader].n) /\ EmptyOK(ab, mma[Leader].n)
                   /\ LeaderOK(ab, load, flying, OtherAt(mma), mma[Leader].n)
                   /\ OtherOK(ab, load, flying, OtherAt(mma), mma[Leader].n)
  <2>1. launch.ctas = 2 => OtherAt(mma) = mma[1].n BY DEF OtherAt
  <2>3. Window = Rounds(mma[Leader].n) /\ Multiplies = mma[Leader].n BY DEF Window, Multiplies, Rounds
  <2> QED BY <1>2, <1>5, <1>6, <2>1, <2>3 DEF AbRingOK, Ahead, EmptyOK, LeaderOK, OtherOK
<1>8. AbDataOK <=> FlyingOK(load, flying, mma[Leader].n) /\ DataOK(ab, load, flying, mma[Leader].n)
  BY <1>1 DEF AbDataOK, FlyingOK, DataOK, Multiplies, Window, Rounds
<1> QED BY <1>7, <1>8 DEF AbAt

(* ... also after a step.                                                  *)
LEMMA AbWillBe ==
  ASSUME launch \in Launches, launch' = launch
  PROVE  AbRingOK' /\ AbDataOK' <=> AbAt(ab', load', flying', OtherAt(mma'), mma'[Leader].n)
<1>0. Ctas' = Ctas /\ Loads' = Loads /\ Units' = Units /\ (CpAsync' <=> CpAsync) /\ TxParts' = TxParts BY Same
<1>1. \A c, q, p : (Sent(c, q, p)' <=> SentIn(load', c, q, p)) /\ (Here(c, q, p)' <=> HereIn(load', flying', c, q, p))
  BY SameParts DEF Here, Sent, HereIn, SentIn
<1>2. \A q : /\ Owed(q)' = OwedIn(load', flying', q) /\ (Armed(q)' <=> ArmedIn(load', q))
             /\ \A c : Waiting(c, q)' = WaitingIn(load', flying', c, q)
  <2>1. ASSUME NEW q PROVE Owed(q)' = OwedIn(load', flying', q)
    BY <1>0, <1>1, SameParts DEF Owed, OwedIn
  <2>2. ASSUME NEW q PROVE Armed(q)' <=> ArmedIn(load', q)
    BY <1>1, SameParts DEF Armed, ArmedIn, Leader
  <2>3. ASSUME NEW q, NEW c PROVE Waiting(c, q)' = WaitingIn(load', flying', c, q)
    BY <1>0, <1>1 DEF Waiting, WaitingIn
  <2> QED BY <2>1, <2>2, <2>3
<1>3. \A q : TxAt(q)' = TxIn(load', flying', q) BY <1>0, <1>2 DEF TxAt, TxIn
<1>4. \A q : PendingAt(q)' = PendingIn(load', flying', OtherAt(mma'), q)
  BY <1>0, <1>2 DEF PendingAt, PendingIn, OtherAt, Leader
<1>5. \A q : FullAt(q)' = LeaderFull(load', flying', OtherAt(mma'), q)
  BY <1>3, <1>4 DEF FullAt, LeaderFull, Filling, AbArrivals, Leader
<1>6. ASSUME NEW q PROVE OtherFullAt(q)' = OtherFull(load', flying', q)
  <2>1. Cardinality(WaitingIn(load', flying', 1, q)) = 0 <=> WaitingIn(load', flying', 1, q) = {} BY OwedFinite
  <2> QED BY <1>0, <1>2, <2>1 DEF OtherFullAt, OtherFull, Filling
<1>7. AbRingOK' <=> /\ Ahead(load', mma'[Leader].n) /\ EmptyOK(ab', mma'[Leader].n)
                    /\ LeaderOK(ab', load', flying', OtherAt(mma'), mma'[Leader].n)
                    /\ OtherOK(ab', load', flying', OtherAt(mma'), mma'[Leader].n)
  <2>1. launch.ctas = 2 => OtherAt(mma') = mma'[1].n BY DEF OtherAt
  <2>3. Window' = Rounds(mma'[Leader].n) /\ Multiplies' = mma'[Leader].n BY DEF Window, Multiplies, Rounds, Leader
  <2> QED BY <1>0, <1>2, <1>5, <1>6, <2>1, <2>3 DEF AbRingOK, Ahead, EmptyOK, LeaderOK, OtherOK, Leader
<1>8. AbDataOK' <=> FlyingOK(load', flying', mma'[Leader].n) /\ DataOK(ab', load', flying', mma'[Leader].n)
  <2>1. \A p : PartsOf(p)' = PartsOf(p) /\ \A c, q : Flight(c, q, p)' = Flight(c, q, p) BY SameParts
  <2> QED BY <1>0, <1>1, <2>1 DEF AbDataOK, FlyingOK, DataOK, Multiplies, Window, Rounds, Leader
<1> QED BY <1>7, <1>8 DEF AbAt

(* Steps that issue nothing.                                               *)
LEMMA SameAhead ==
  ASSUME launch \in Launches, NEW ld, NEW nld, \A c \in Ctas, w \in Loads : nld[c][w].n = ld[c][w].n,
         NEW a, NEW fl, NEW F, NEW M, AbAt(a, ld, fl, F, M)
  PROVE  AbAt(a, nld, fl, F, M)
<1>1. \A c \in Ctas : \A q, p : p \in Units \cup Loads => (SentIn(nld, c, q, p) <=> SentIn(ld, c, q, p))
  BY IssuerIs DEF SentIn
<1>2. \A c \in Ctas : \A q, p : p \in Units \cup Loads => (HereIn(nld, fl, c, q, p) <=> HereIn(ld, fl, c, q, p))
  BY <1>1 DEF HereIn
<1>3. \A q : /\ OwedIn(nld, fl, q) = OwedIn(ld, fl, q) /\ (ArmedIn(nld, q) <=> ArmedIn(ld, q))
             /\ \A c \in Ctas : WaitingIn(nld, fl, c, q) = WaitingIn(ld, fl, c, q)
  <2>1. Leader \in Ctas /\ PartB \in Units BY CtasAre, UnitsAre
  <2> QED BY <1>1, <1>2, <2>1 DEF OwedIn, ArmedIn, WaitingIn
<1>4. \A q : TxIn(nld, fl, q) = TxIn(ld, fl, q) /\ PendingIn(nld, fl, F, q) = PendingIn(ld, fl, F, q)
  <2>1. Leader \in Ctas BY CtasAre
  <2> QED BY <1>3, <2>1 DEF TxIn, PendingIn
<1>5. \A q : LeaderFull(nld, fl, F, q) = LeaderFull(ld, fl, F, q) BY <1>4 DEF LeaderFull
<1>6. launch.ctas = 2 => \A q : /\ OtherFull(nld, fl, q) = OtherFull(ld, fl, q)
                                /\ WaitingIn(nld, fl, 1, q) = WaitingIn(ld, fl, 1, q)
  <2>1. launch.ctas = 2 => 1 \in Ctas BY CtasAre
  <2> QED BY <1>3, <2>1 DEF OtherFull
<1>7. Ahead(nld, M) BY DEF AbAt, Ahead
<1>8. LeaderOK(a, nld, fl, F, M) BY <1>5 DEF AbAt, LeaderOK
<1>9. OtherOK(a, nld, fl, F, M) BY <1>6 DEF AbAt, OtherOK
<1>10. FlyingOK(nld, fl, M) BY <1>1 DEF AbAt, FlyingOK
<1>11. DataOK(a, nld, fl, M) BY <1>2 DEF AbAt, DataOK
<1> QED BY <1>7, <1>8, <1>9, <1>10, <1>11 DEF AbAt

(* What is at a barrier.                                                   *)
LEMMA FullIs ==
  ASSUME launch \in Launches, NEW ld, NEW fl, NEW F \in Nat, NEW q \in Nat
  PROVE  /\ Turn(q, AbStages) \in {0, 1} /\ q % AbStages \in 0..AbStages - 1
         /\ PendingIn(ld, fl, F, q) \in Nat /\ TxIn(ld, fl, q) \in Int
         /\ AbArrivals(launch, Leader) \in Nat /\ LeaderFull(ld, fl, F, q) \in Bar
         /\ OtherFull(ld, fl, q) \in Bar
<1>1. AbStages \in Nat \ {0} BY Depths
<1>2. Turn(q, AbStages) \in {0, 1} /\ q % AbStages \in 0..AbStages - 1 BY <1>1, Lap
<1>3. /\ Cardinality(OwedIn(ld, fl, q)) \in Nat /\ TxParts \in Nat
      /\ \A c : Cardinality(WaitingIn(ld, fl, c, q)) \in Nat BY OwedFinite, TxPartsAre
<1>4. TxIn(ld, fl, q) \in Int BY <1>3 DEF TxIn
<1>5. PendingIn(ld, fl, F, q) \in Nat BY <1>3 DEF PendingIn
<1>6. launch.loads \in Nat BY LaunchIs
<1>7. AbArrivals(launch, Leader) \in Nat BY <1>6 DEF AbArrivals
<1>8. LeaderFull(ld, fl, F, q) \in Bar
  <2>1. PICK y \in {0, 1}, p \in Int, x \in Int, n \in Int :
          y = Turn(q, AbStages) /\ p = PendingIn(ld, fl, F, q) /\ x = TxIn(ld, fl, q) /\ n = AbArrivals(launch, Leader)
    BY <1>2, <1>4, <1>5, <1>7
  <2>2. Filling(y, p, x, n) \in Bar BY FillingIs
  <2> QED BY <2>1, <2>2 DEF LeaderFull
<1>9. OtherFull(ld, fl, q) \in Bar
  <2>1. State(0, 1, 0) \in Bar BY DEF State, Bar
  <2>2. PICK y \in {0, 1}, n \in Int, m \in Int :
          y = Turn(q, AbStages) /\ n = Cardinality(WaitingIn(ld, fl, 1, q)) /\ m = launch.loads BY <1>2, <1>3, <1>6
  <2>3. Filling(y, n, 0, m) \in Bar BY FillingIs
  <2> QED BY <2>1, <2>2, <2>3 DEF OtherFull
<1> QED BY <1>2, <1>4, <1>5, <1>7, <1>8, <1>9

(* A barrier that is complete: all of its k-tile is here.                  *)
LEMMA CompleteIs ==
  ASSUME launch \in Launches, NEW ld, NEW fl, NEW F \in Nat, NEW q \in Nat,
         LeaderFull(ld, fl, F, q).parity # Turn(q, AbStages),
         CpAsync /\ launch.ctas = 2 /\ q < F => WaitingIn(ld, fl, 1, q) = {}
  PROVE  /\ LeaderFull(ld, fl, F, q) = State(1 - Turn(q, AbStages), AbArrivals(launch, Leader), 0)
         /\ \A c \in Ctas, p \in Units : HereIn(ld, fl, c, q, p)
         /\ CpAsync /\ launch.ctas = 2 => q < F
<1> DEFINE p == PendingIn(ld, fl, F, q)
           x == TxIn(ld, fl, q)
           y == Turn(q, AbStages)
           o == Cardinality(OwedIn(ld, fl, q))
           m == Cardinality(WaitingIn(ld, fl, Leader, q))
<1>1. y \in {0, 1} /\ p \in Nat /\ x \in Int /\ AbArrivals(launch, Leader) \in Nat BY FullIs
<1>2. p = 0 /\ x = 0
  <2>1. Filling(y, p, x, AbArrivals(launch, Leader)).parity # y BY DEF LeaderFull
  <2> HIDE DEF p, x, y
  <2>2. PICK u \in {0, 1}, v \in Int, w \in Int, n \in Int : u = y /\ v = p /\ w = x /\ n = AbArrivals(launch, Leader)
    BY <1>1
  <2>3. Filling(u, v, w, n).parity # u => v = 0 /\ w = 0 BY DEF Filling, State
  <2> QED BY <2>1, <2>2, <2>3
<1>3. LeaderFull(ld, fl, F, q) = State(1 - y, AbArrivals(launch, Leader), 0) BY <1>2 DEF LeaderFull, Filling
<1>4. o \in Nat /\ m \in Nat BY OwedFinite
<1>5. ArmedIn(ld, q) /\ (CpAsync => m = 0 /\ ~(launch.ctas = 2 /\ F <= q))
  <2> HIDE DEF m
  <2>1. p = (IF ArmedIn(ld, q) THEN 0 ELSE 1) + IF CpAsync THEN m + IF launch.ctas = 2 /\ F <= q THEN 1 ELSE 0 ELSE 0
    BY DEF PendingIn, m
  <2> HIDE DEF p
  <2> QED BY <1>2, <1>4, <2>1
<1>6. o = 0
  <2>1. x = o - 0 BY <1>5 DEF TxIn
  <2> HIDE DEF x, o
  <2> QED BY <1>2, <1>4, <2>1
<1>7. OwedIn(ld, fl, q) = {} BY <1>6, OwedFinite
<1>8. CpAsync => q < F \/ launch.ctas # 2 BY <1>5
<1>9. CpAsync => \A c \in Ctas : WaitingIn(ld, fl, c, q) = {}
  <2> SUFFICES ASSUME CpAsync, NEW c \in Ctas PROVE WaitingIn(ld, fl, c, q) = {} OBVIOUS
  <2>1. CASE c = Leader BY <1>5, <2>1, OwedFinite
  <2>2. CASE c # Leader
    <3>1. c = 1 /\ launch.ctas = 2 BY <2>2, CtasAre
    <3> QED BY <1>8, <3>1
  <2> QED BY <2>1, <2>2
<1>10. ASSUME NEW c \in Ctas, NEW u \in Units PROVE HereIn(ld, fl, c, q, u)
  <2>1. CASE ByTma(u)
    <3> SUFFICES ASSUME ~HereIn(ld, fl, c, q, u) PROVE FALSE OBVIOUS
    <3>1. <<c, u>> \in Ctas \X {z \in Units : ByTma(z)} BY <2>1
    <3>2. <<c, u>> \in OwedIn(ld, fl, q) BY <3>1 DEF OwedIn
    <3> QED BY <1>7, <3>2
  <2>2. CASE ~ByTma(u)
    <3>1. CpAsync /\ u \in Loads BY <2>2, UnitsAre
    <3> QED BY <1>9, <3>1 DEF WaitingIn
  <2> QED BY <2>1, <2>2
<1> QED BY <1>3, <1>8, <1>10
-----------------------------------------------------------------------------
(* A step that writes h in stage s of CTA c and leaves the full barrier b  *)
(* at that stage of CTA e.                                                 *)
AbTo(a, new, c, s, h, e, b) ==
  /\ \A d \in Ctas : new[d].empty = a[d].empty
  /\ \A d \in Ctas, r \in 0..AbStages - 1 :
       /\ new[d].data[r] = IF d = c /\ r = s THEN h ELSE a[d].data[r]
       /\ new[d].full[r] = IF d = e /\ r = s THEN b ELSE a[d].full[r]

(* The load of a unit lands: it is here, and the barrier counts it.        *)
LEMMA LandsHere ==
  ASSUME launch \in Launches, NEW ld, NEW fl, NEW M \in Nat, NEW c \in Ctas, NEW q \in Rounds(M),
         NEW p \in Units, Flight(c, q, p) \in fl, SentIn(ld, c, q, p),
         NEW nfl, nfl = fl \ {Flight(c, q, p)}
  PROVE  /\ ~HereIn(ld, fl, c, q, p)
         /\ \A d \in Ctas, r \in Rounds(M), u \in Units :
              HereIn(ld, nfl, d, r, u) <=> HereIn(ld, fl, d, r, u) \/ (d = c /\ r = q /\ u = p)
<1>1. ~HereIn(ld, fl, c, q, p) BY DEF HereIn
<1>2. ASSUME NEW d \in Ctas, NEW r \in Rounds(M), NEW u \in Units
      PROVE  HereIn(ld, nfl, d, r, u) <=> HereIn(ld, fl, d, r, u) \/ (d = c /\ r = q /\ u = p)
  <2>1. CASE d = c /\ r = q /\ u = p BY <2>1 DEF HereIn
  <2>2. CASE ~(d = c /\ r = q /\ u = p)
    <3>1. Flight(c, q, p) # Flight(d, r, u) BY <2>2, FlightsApart
    <3> QED BY <2>2, <3>1 DEF HereIn
  <2> QED BY <2>1, <2>2
<1> QED BY <1>1, <1>2

(* What changes in the barriers.                                           *)
Lands(ld, fl, nfl, F, M, c, q, p) ==
  /\ \A r \in Rounds(M) : r # q => LeaderFull(ld, nfl, F, r) = LeaderFull(ld, fl, F, r)
  /\ launch.ctas = 2 => \A r \in Rounds(M) : r # q => OtherFull(ld, nfl, r) = OtherFull(ld, fl, r)
  /\ ByTma(p) => LeaderFull(ld, nfl, F, q) = Hit(LeaderFull(ld, fl, F, q), AbArrivals(launch, Leader), 0, -1)
  /\ ~ByTma(p) /\ c = Leader => LeaderFull(ld, nfl, F, q) = Hit(LeaderFull(ld, fl, F, q), AbArrivals(launch, Leader), 1, 0)
  /\ ~ByTma(p) /\ c # Leader => LeaderFull(ld, nfl, F, q) = LeaderFull(ld, fl, F, q)
  /\ launch.ctas = 2 /\ (ByTma(p) \/ c = Leader) => OtherFull(ld, nfl, q) = OtherFull(ld, fl, q)
  /\ launch.ctas = 2 /\ ~ByTma(p) /\ c # Leader =>
       OtherFull(ld, nfl, q) = Hit(OtherFull(ld, fl, q), AbArrivals(launch, c), 1, 0)
  /\ CpAsync => \A d \in Ctas, r \in Rounds(M) : WaitingIn(ld, nfl, d, r) \subseteq WaitingIn(ld, fl, d, r)
  /\ \A d \in Ctas, r \in Rounds(M), u \in Units :
       HereIn(ld, nfl, d, r, u) <=> HereIn(ld, fl, d, r, u) \/ (d = c /\ r = q /\ u = p)

(* Each landed unit is counted once, at the barrier that waits for it.     *)
LEMMA LandsCounted ==
  ASSUME launch \in Launches, NEW ld, NEW fl, NEW F \in Nat, NEW M \in Nat, NEW c \in Ctas, NEW q \in Rounds(M),
         NEW p \in Units, Flight(c, q, p) \in fl, SentIn(ld, c, q, p),
         NEW nfl, nfl = fl \ {Flight(c, q, p)}
  PROVE  Lands(ld, fl, nfl, F, M, c, q, p)
<1>1. /\ ~HereIn(ld, fl, c, q, p)
      /\ \A d \in Ctas, r \in Rounds(M), u \in Units :
           HereIn(ld, nfl, d, r, u) <=> HereIn(ld, fl, d, r, u) \/ (d = c /\ r = q /\ u = p)
  BY LandsHere
<1>2. Leader \in Ctas /\ (launch.ctas = 2 => 1 \in Ctas) /\ Ctas \subseteq {0, 1} /\ Leader = 0 BY CtasAre
<1>3. CpAsync => \A u \in Loads : u \in Units BY UnitsAre
<1>4. ASSUME NEW r \in Rounds(M), \A d \in Ctas : WaitingIn(ld, nfl, d, r) = WaitingIn(ld, fl, d, r) \/ ~CpAsync
      PROVE  /\ OwedIn(ld, nfl, r) = OwedIn(ld, fl, r) => LeaderFull(ld, nfl, F, r) = LeaderFull(ld, fl, F, r)
             /\ launch.ctas = 2 => OtherFull(ld, nfl, r) = OtherFull(ld, fl, r)
  <2>1. PendingIn(ld, nfl, F, r) = PendingIn(ld, fl, F, r) BY <1>2, <1>4 DEF PendingIn
  <2>2. OwedIn(ld, nfl, r) = OwedIn(ld, fl, r) => TxIn(ld, nfl, r) = TxIn(ld, fl, r) BY DEF TxIn
  <2>3. launch.ctas = 2 => OtherFull(ld, nfl, r) = OtherFull(ld, fl, r) BY <1>2, <1>4 DEF OtherFull
  <2> QED BY <2>1, <2>2, <2>3 DEF LeaderFull
<1>5. ASSUME NEW r \in Rounds(M), r # q
      PROVE  /\ LeaderFull(ld, nfl, F, r) = LeaderFull(ld, fl, F, r)
             /\ launch.ctas = 2 => OtherFull(ld, nfl, r) = OtherFull(ld, fl, r)
  <2>1. /\ OwedIn(ld, nfl, r) = OwedIn(ld, fl, r)
        /\ CpAsync => \A d \in Ctas : WaitingIn(ld, nfl, d, r) = WaitingIn(ld, fl, d, r)
    <3>1. \A d \in Ctas, u \in Units : HereIn(ld, nfl, d, r, u) <=> HereIn(ld, fl, d, r, u) BY <1>1, <1>5
    <3>2. OwedIn(ld, nfl, r) = OwedIn(ld, fl, r) BY <3>1 DEF OwedIn
    <3> QED BY <1>3, <3>1, <3>2 DEF WaitingIn
  <2> QED BY <1>4, <2>1
<1>6. CpAsync => \A d \in Ctas, r \in Rounds(M) : WaitingIn(ld, nfl, d, r) \subseteq WaitingIn(ld, fl, d, r)
  BY <1>1, <1>3 DEF WaitingIn
<1> DEFINE y == Turn(q, AbStages)
           P == PendingIn(ld, fl, F, q)
           X == TxIn(ld, fl, q)
           A == AbArrivals(launch, Leader)
<1>7. q \in Nat /\ y \in {0, 1} /\ P \in Nat /\ X \in Int
  <2>1. q \in Nat BY DEF Rounds
  <2> QED BY <2>1, FullIs
<1>8. /\ LeaderFull(ld, fl, F, q) = Filling(y, P, X, A)
      /\ LeaderFull(ld, nfl, F, q) = Filling(y, PendingIn(ld, nfl, F, q), TxIn(ld, nfl, q), A)
  BY DEF LeaderFull
<1>9. TxParts \in Nat BY TxPartsAre
<1>10. CASE ByTma(p)
  <2>1. \A d \in Ctas : WaitingIn(ld, nfl, d, q) = WaitingIn(ld, fl, d, q) \/ ~CpAsync
    <3>1. CpAsync => p \notin Loads BY <1>10, UnitsAre
    <3> QED BY <1>1, <1>3, <3>1 DEF WaitingIn
  <2>2. PendingIn(ld, nfl, F, q) = P BY <1>2, <2>1 DEF PendingIn
  <2>3. OwedIn(ld, nfl, q) = OwedIn(ld, fl, q) \ {<<c, p>>} /\ <<c, p>> \in OwedIn(ld, fl, q)
    <3>1. <<c, p>> \in OwedIn(ld, fl, q)
      <4>1. <<c, p>> \in Ctas \X {z \in Units : ByTma(z)} BY <1>10
      <4> QED BY <1>1, <4>1 DEF OwedIn
    <3>2. ASSUME NEW u \in Ctas \X {z \in Units : ByTma(z)}
          PROVE  u \in OwedIn(ld, nfl, q) <=> u \in OwedIn(ld, fl, q) /\ u # <<c, p>>
      <4>1. PICK d \in Ctas, v \in Units : u = <<d, v>> BY <3>2
      <4>2. u \in OwedIn(ld, nfl, q) <=> ~HereIn(ld, nfl, d, q, v) BY <3>2, <4>1 DEF OwedIn
      <4>3. u \in OwedIn(ld, fl, q) <=> ~HereIn(ld, fl, d, q, v) BY <3>2, <4>1 DEF OwedIn
      <4> QED BY <1>1, <4>1, <4>2, <4>3
    <3>3. OwedIn(ld, nfl, q) \subseteq Ctas \X {z \in Units : ByTma(z)}
          /\ OwedIn(ld, fl, q) \subseteq Ctas \X {z \in Units : ByTma(z)} BY DEF OwedIn
    <3> QED BY <3>1, <3>2, <3>3
  <2>4. IsFiniteSet(OwedIn(ld, fl, q)) /\ Cardinality(OwedIn(ld, fl, q)) \in Nat BY OwedFinite
  <2>5. Cardinality(OwedIn(ld, nfl, q)) = Cardinality(OwedIn(ld, fl, q)) - 1 /\ Cardinality(OwedIn(ld, nfl, q)) \in Nat
    <3>1. Cardinality(OwedIn(ld, fl, q) \ {<<c, p>>}) = Cardinality(OwedIn(ld, fl, q)) - 1
      BY <2>3, <2>4, FS_RemoveElement
    <3>2. Cardinality(OwedIn(ld, nfl, q)) \in Nat BY OwedFinite
    <3> QED BY <2>3, <3>1, <3>2
  <2>6. TxIn(ld, nfl, q) = X - 1 /\ (P # 0 \/ X # 0)
    <3>1. PICK n \in Nat, m \in Nat : n = Cardinality(OwedIn(ld, fl, q)) /\ m = Cardinality(OwedIn(ld, nfl, q)) /\ n = m + 1
      BY <2>4, <2>5
    <3>2. CASE ArmedIn(ld, q)
      <4>1. X = n /\ TxIn(ld, nfl, q) = m BY <3>1, <3>2 DEF TxIn
      <4> HIDE DEF X, P
      <4> QED BY <3>1, <4>1
    <3>3. CASE ~ArmedIn(ld, q)
      <4>1. X = n - TxParts /\ TxIn(ld, nfl, q) = m - TxParts BY <3>1, <3>3 DEF TxIn
      <4>2. P = 1 + IF CpAsync THEN Cardinality(WaitingIn(ld, fl, Leader, q)) + IF launch.ctas = 2 /\ F <= q THEN 1 ELSE 0
                    ELSE 0
        BY <3>3 DEF PendingIn
      <4>3. Cardinality(WaitingIn(ld, fl, Leader, q)) \in Nat BY OwedFinite
      <4> HIDE DEF X, P
      <4>4. P # 0 BY <4>2, <4>3
      <4> QED BY <1>9, <3>1, <4>1, <4>4
    <3> QED BY <3>2, <3>3
  <2>7. OtherFull(ld, nfl, q) = OtherFull(ld, fl, q) \/ launch.ctas # 2 BY <1>4, <2>1
  <2>8. LeaderFull(ld, nfl, F, q) = Hit(LeaderFull(ld, fl, F, q), A, 0, -1)
    <3> HIDE DEF y, P, X, A
    <3>1. PICK b : b = Filling(y, P, X, A) OBVIOUS
    <3>2. Hit(b, A, 0, -1) = Filling(y, P - 0, X + (-1), A) BY <1>7, <2>6, <3>1, FillingHit
    <3>3. P - 0 = P /\ X + (-1) = X - 1 BY <1>7
    <3> QED BY <1>8, <2>2, <2>6, <3>1, <3>2, <3>3
  <2> QED BY <1>1, <1>5, <1>6, <1>10, <2>7, <2>8 DEF Lands
<1>11. CASE ~ByTma(p)
  <2>1. CpAsync /\ p \in Loads BY <1>11, UnitsAre
  <2>2. OwedIn(ld, nfl, q) = OwedIn(ld, fl, q)
    <3>1. ASSUME NEW u \in Ctas \X {z \in Units : ByTma(z)}
          PROVE  HereIn(ld, nfl, u[1], q, u[2]) <=> HereIn(ld, fl, u[1], q, u[2])
      <4>1. PICK d \in Ctas, v \in Units : u = <<d, v>> /\ ByTma(v) BY <3>1
      <4> QED BY <1>1, <1>11, <4>1
    <3> QED BY <3>1 DEF OwedIn
  <2>3. \A d \in Ctas : d # c => WaitingIn(ld, nfl, d, q) = WaitingIn(ld, fl, d, q) BY <1>1, <1>3, <2>1 DEF WaitingIn
  <2>4. WaitingIn(ld, nfl, c, q) = WaitingIn(ld, fl, c, q) \ {p} /\ p \in WaitingIn(ld, fl, c, q)
    BY <1>1, <1>3, <2>1 DEF WaitingIn
  <2>5. PICK n \in Nat, m \in Nat : /\ n = Cardinality(WaitingIn(ld, fl, c, q)) /\ m = Cardinality(WaitingIn(ld, nfl, c, q))
                                    /\ n = m + 1
    <3>1. IsFiniteSet(WaitingIn(ld, fl, c, q)) /\ Cardinality(WaitingIn(ld, fl, c, q)) \in Nat
          /\ Cardinality(WaitingIn(ld, nfl, c, q)) \in Nat BY OwedFinite
    <3>2. Cardinality(WaitingIn(ld, fl, c, q) \ {p}) = Cardinality(WaitingIn(ld, fl, c, q)) - 1
      BY <2>4, <3>1, FS_RemoveElement
    <3>3. PICK n \in Nat, m \in Nat : n = Cardinality(WaitingIn(ld, fl, c, q)) /\ m = Cardinality(WaitingIn(ld, nfl, c, q))
      BY <3>1
    <3>4. m = n - 1 BY <2>4, <3>2, <3>3
    <3> QED BY <3>3, <3>4
  <2>6. TxIn(ld, nfl, q) = X BY <2>2 DEF TxIn
  <2>7. CASE c = Leader
    <3>1. launch.ctas = 2 => OtherFull(ld, nfl, q) = OtherFull(ld, fl, q) BY <1>2, <2>3, <2>7 DEF OtherFull
    <3>2. PendingIn(ld, nfl, F, q) = P - 1 /\ P # 0
      <4> DEFINE i == IF ArmedIn(ld, q) THEN 0 ELSE 1
                 j == IF launch.ctas = 2 /\ F <= q THEN 1 ELSE 0
      <4>1. P = i + (n + j) /\ PendingIn(ld, nfl, F, q) = i + (m + j) BY <2>1, <2>5, <2>7 DEF PendingIn
      <4>2. i \in Nat /\ j \in Nat OBVIOUS
      <4> HIDE DEF P, i, j
      <4> QED BY <2>5, <4>1, <4>2
    <3>3. LeaderFull(ld, nfl, F, q) = Hit(LeaderFull(ld, fl, F, q), A, 1, 0)
      <4> HIDE DEF y, P, X, A
      <4>1. PICK b : b = Filling(y, P, X, A) OBVIOUS
      <4>2. Hit(b, A, 1, 0) = Filling(y, P - 1, X + 0, A) BY <1>7, <3>2, <4>1, FillingHit
      <4>3. X + 0 = X BY <1>7
      <4> QED BY <1>8, <2>6, <3>2, <4>1, <4>2, <4>3
    <3> QED BY <1>1, <1>5, <1>6, <1>11, <2>7, <3>1, <3>3 DEF Lands
  <2>8. CASE c # Leader
    <3>1. c = 1 /\ launch.ctas = 2 BY <1>2, <2>8, CtasAre
    <3>2. LeaderFull(ld, nfl, F, q) = LeaderFull(ld, fl, F, q)
      <4>1. PendingIn(ld, nfl, F, q) = P BY <1>2, <2>3, <2>8 DEF PendingIn
      <4> QED BY <1>8, <2>6, <4>1
    <3>3. AbArrivals(launch, c) = launch.loads
      <4>1. launch.loads \in Nat BY LaunchIs
      <4> QED BY <2>1, <3>1, <4>1 DEF AbArrivals, CpAsync, Gathers, Leader
    <3>4. OtherFull(ld, nfl, q) = Hit(OtherFull(ld, fl, q), AbArrivals(launch, c), 1, 0)
      <4>1. OtherFull(ld, fl, q) = Filling(y, n, 0, launch.loads) /\ OtherFull(ld, nfl, q) = Filling(y, m, 0, launch.loads)
        BY <2>1, <2>5, <3>1 DEF OtherFull
      <4> HIDE DEF y
      <4>2. PICK b : b = Filling(y, n, 0, launch.loads) OBVIOUS
      <4>3. Hit(b, launch.loads, 1, 0) = Filling(y, n - 1, 0 + 0, launch.loads) BY <1>7, <2>5, <4>2, FillingHit
      <4>4. n - 1 = m /\ 0 + 0 = 0 BY <2>5
      <4> QED BY <3>3, <4>1, <4>2, <4>3, <4>4
    <3> QED BY <1>1, <1>5, <1>6, <1>11, <2>8, <3>2, <3>4 DEF Lands
  <2> QED BY <2>7, <2>8
<1> QED BY <1>10, <1>11
-----------------------------------------------------------------------------
(* A landing keeps the ring.                                               *)
LEMMA LandAt ==
  ASSUME launch \in Launches, NEW a, NEW ld, NEW fl, NEW F \in Nat, NEW M \in Nat, AbAt(a, ld, fl, F, M),
         NEW c \in Ctas, NEW q \in Rounds(M), NEW p \in Units, NEW nfl, nfl \subseteq fl, Lands(ld, fl, nfl, F, M, c, q, p),
         NEW h, \A x \in PartsOf(p) : h[x] = At(launch, q),
         \A x \in 0..launch.loads : x \notin PartsOf(p) => h[x] = a[c].data[q % AbStages][x],
         NEW e, e = IF ByTma(p) THEN Leader ELSE c, NEW b,
         b = IF ByTma(p) THEN Hit(a[Leader].full[q % AbStages], AbArrivals(launch, Leader), 0, -1)
             ELSE Hit(a[c].full[q % AbStages], AbArrivals(launch, c), 1, 0),
         NEW new, AbTo(a, new, c, q % AbStages, h, e, b)
  PROVE  AbAt(new, ld, nfl, F, M)
<1> DEFINE S == AbStages
           s == q % S
<1>1. S \in Nat \ {0} /\ \A r \in Rounds(M) : r \in Nat /\ r % S \in 0..S - 1 /\ (r # q => r % S # s)
  <2>1. S \in Nat \ {0} BY Depths
  <2>2. ASSUME NEW r \in Rounds(M) PROVE r \in Nat /\ r % S \in 0..S - 1 /\ (r # q => r % S # s)
    <3>1. r \in Nat /\ r \in M..M + S - 1 /\ q \in M..M + S - 1 BY DEF Rounds
    <3>2. r % S \in 0..S - 1 BY <2>1, <3>1, Lap
    <3>3. r # q => r % S # q % S BY <2>1, <3>1, Apart
    <3> QED BY <3>1, <3>2, <3>3
  <2> QED BY <2>1, <2>2
<1>2. Leader \in Ctas /\ (launch.ctas = 2 => 1 \in Ctas) /\ Ctas \subseteq {0, 1} /\ Leader = 0 BY CtasAre
<1>3. /\ Ahead(ld, M) /\ EmptyOK(a, M) /\ LeaderOK(a, ld, fl, F, M) /\ OtherOK(a, ld, fl, F, M)
      /\ FlyingOK(ld, fl, M) /\ DataOK(a, ld, fl, M) BY DEF AbAt
<1>4. /\ \A d \in Ctas : new[d].empty = a[d].empty
      /\ \A d \in Ctas, r \in 0..S - 1 :
           /\ new[d].data[r] = IF d = c /\ r = s THEN h ELSE a[d].data[r]
           /\ new[d].full[r] = IF d = e /\ r = s THEN b ELSE a[d].full[r] BY DEF AbTo
<1>5. s \in 0..S - 1 BY <1>1
<1> HIDE DEF s
<1>6. EmptyOK(new, M) BY <1>3, <1>4 DEF EmptyOK
<1>7. LeaderOK(new, ld, nfl, F, M)
  <2> SUFFICES ASSUME NEW r \in Rounds(M) PROVE new[Leader].full[r % S] = LeaderFull(ld, nfl, F, r) BY DEF LeaderOK
  <2>1. a[Leader].full[r % S] = LeaderFull(ld, fl, F, r) BY <1>3 DEF LeaderOK
  <2>2. r % S \in 0..S - 1 BY <1>1
  <2>3. CASE r # q
    <3>1. LeaderFull(ld, nfl, F, r) = LeaderFull(ld, fl, F, r) BY <2>3 DEF Lands
    <3>2. new[Leader].full[r % S] = a[Leader].full[r % S] BY <1>1, <1>2, <1>4, <2>2, <2>3 DEF s
    <3> QED BY <2>1, <3>1, <3>2
  <2>4. CASE r = q
    <3>2. new[Leader].full[s] = IF Leader = e THEN b ELSE a[Leader].full[s] BY <1>2, <1>4, <1>5
    <3>3. a[Leader].full[s] = LeaderFull(ld, fl, F, q) BY <2>1, <2>4 DEF s
    <3>4. CASE ByTma(p) BY <2>4, <3>2, <3>3, <3>4 DEF s, Lands
    <3>5. CASE ~ByTma(p) /\ c = Leader BY <2>4, <3>2, <3>3, <3>5 DEF s, Lands
    <3>6. CASE ~ByTma(p) /\ c # Leader BY <2>4, <3>2, <3>3, <3>6 DEF s, Lands
    <3> QED BY <3>4, <3>5, <3>6
  <2> QED BY <2>3, <2>4
<1>8. OtherOK(new, ld, nfl, F, M)
  <2> SUFFICES ASSUME launch.ctas = 2
               PROVE  /\ \A r \in Rounds(M) : new[1].full[r % S] = OtherFull(ld, nfl, r)
                      /\ CpAsync => /\ M <= F /\ F <= M + S
                                    /\ \A r \in Rounds(M) : r < F => WaitingIn(ld, nfl, 1, r) = {}
    BY DEF OtherOK
  <2>1. ASSUME NEW r \in Rounds(M) PROVE new[1].full[r % S] = OtherFull(ld, nfl, r)
    <3>1. a[1].full[r % S] = OtherFull(ld, fl, r) BY <1>3 DEF OtherOK
    <3>2. r % S \in 0..S - 1 BY <1>1
    <3>3. CASE r # q
      <4>1. OtherFull(ld, nfl, r) = OtherFull(ld, fl, r) BY <3>3 DEF Lands
      <4>2. new[1].full[r % S] = a[1].full[r % S] BY <1>1, <1>2, <1>4, <3>2, <3>3 DEF s
      <4> QED BY <3>1, <4>1, <4>2
    <3>4. CASE r = q
      <4>2. new[1].full[s] = IF 1 = e THEN b ELSE a[1].full[s] BY <1>2, <1>4, <1>5
      <4>3. a[1].full[s] = OtherFull(ld, fl, q) BY <3>1, <3>4 DEF s
      <4>4. CASE ByTma(p) \/ c = Leader
        <5>1. e # 1 BY <1>2, <4>4
        <5> QED BY <3>4, <4>2, <4>3, <4>4, <5>1 DEF s, Lands
      <4>5. CASE ~ByTma(p) /\ c # Leader
        <5>1. e = 1 /\ c = 1 BY <1>2, <4>5
        <5> QED BY <3>4, <4>2, <4>3, <4>5, <5>1 DEF s, Lands
      <4> QED BY <4>4, <4>5
    <3> QED BY <3>3, <3>4
  <2>2. CpAsync => \A r \in Rounds(M) : WaitingIn(ld, nfl, 1, r) \subseteq WaitingIn(ld, fl, 1, r) BY <1>2 DEF Lands
  <2> QED BY <1>3, <2>1, <2>2 DEF OtherOK
<1>9. FlyingOK(ld, nfl, M) BY <1>3 DEF FlyingOK
<1>10. DataOK(new, ld, nfl, M)
  <2> SUFFICES ASSUME NEW d \in Ctas, NEW r \in Rounds(M), NEW u \in Units, HereIn(ld, nfl, d, r, u),
                      NEW x \in PartsOf(u)
               PROVE  new[d].data[r % S][x] = At(launch, r)
    BY DEF DataOK
  <2>1. HereIn(ld, fl, d, r, u) \/ (d = c /\ r = q /\ u = p) BY DEF Lands
  <2>2. new[d].data[r % S] = IF d = c /\ r % S = s THEN h ELSE a[d].data[r % S] BY <1>1, <1>4
  <2>3. CASE d = c /\ r = q /\ u = p
    <3>1. new[c].data[s] = h BY <1>4, <1>5
    <3> QED BY <2>3, <3>1 DEF s
  <2>4. CASE ~(d = c /\ r = q /\ u = p)
    <3>1. a[d].data[r % S][x] = At(launch, r) BY <1>3, <2>1, <2>4 DEF DataOK
    <3>2. CASE d = c /\ r = q
      <4>1. u # p BY <2>4, <3>2
      <4>2. x \notin PartsOf(p) /\ x \in 0..launch.loads BY <4>1, UnitsAre
      <4>3. h[x] = a[c].data[s][x] BY <4>2 DEF s
      <4> QED BY <2>2, <3>1, <3>2, <4>3 DEF s
    <3>3. CASE ~(d = c /\ r = q)
      <4>1. ~(d = c /\ r % S = s) BY <1>1, <3>3 DEF s
      <4> QED BY <2>2, <3>1, <4>1
    <3> QED BY <3>2, <3>3
  <2> QED BY <2>3, <2>4
<1> QED BY <1>3, <1>6, <1>7, <1>8, <1>9, <1>10 DEF AbAt

(* The other CTA's MMA warp arrives at the leader for its CTA's loads.     *)
LEMMA ForwardAt ==
  ASSUME launch \in Launches, launch.ctas = 2, CpAsync,
         NEW a, NEW ld, NEW fl, NEW F \in Nat, NEW M \in Nat, AbAt(a, ld, fl, F, M),
         a[1].full \in [0..AbStages - 1 -> Bar], IsFull(a[1].full, F),
         NEW b, b = Hit(a[Leader].full[F % AbStages], AbArrivals(launch, Leader), 1, 0),
         NEW new, AbTo(a, new, Leader, F % AbStages, a[Leader].data[F % AbStages], Leader, b)
  PROVE  AbAt(new, ld, fl, F + 1, M)
<1> DEFINE S == AbStages
           s == F % S
<1>1. S \in Nat \ {0} BY Depths
<1>2. Leader \in Ctas /\ 1 \in Ctas /\ Leader = 0 BY CtasAre
<1>3. /\ Ahead(ld, M) /\ EmptyOK(a, M) /\ LeaderOK(a, ld, fl, F, M) /\ OtherOK(a, ld, fl, F, M)
      /\ FlyingOK(ld, fl, M) /\ DataOK(a, ld, fl, M) BY DEF AbAt
<1>4. /\ \A d \in Ctas : new[d].empty = a[d].empty
      /\ \A d \in Ctas, r \in 0..S - 1 :
           /\ new[d].data[r] = a[d].data[r]
           /\ new[d].full[r] = IF d = Leader /\ r = s THEN b ELSE a[d].full[r] BY DEF AbTo
<1>5. /\ \A r \in Rounds(M) : a[1].full[r % S] = OtherFull(ld, fl, r)
      /\ M <= F /\ F <= M + S
      /\ \A r \in Rounds(M) : r < F => WaitingIn(ld, fl, 1, r) = {}
  BY <1>3 DEF OtherOK
<1>6. s \in 0..S - 1 /\ Turn(F, S) \in {0, 1} BY <1>1, Lap
<1>7. a[1].full[s].parity # Turn(F, S)
  <2>1. DOMAIN a[1].full = 0..S - 1 OBVIOUS
  <2> QED BY <1>1, <2>1, StageIs
<1>8. ASSUME NEW r \in Rounds(M) PROVE (OtherFull(ld, fl, r).parity # Turn(r, S)) <=> WaitingIn(ld, fl, 1, r) = {}
  <2>1. r \in Nat BY DEF Rounds
  <2>2. PICK y \in {0, 1}, n \in Nat : y = Turn(r, S) /\ n = Cardinality(WaitingIn(ld, fl, 1, r))
    BY <1>1, <2>1, Lap, OwedFinite
  <2>3. OtherFull(ld, fl, r) = Filling(y, n, 0, launch.loads) BY <2>2 DEF OtherFull
  <2>4. n = 0 <=> WaitingIn(ld, fl, 1, r) = {} BY <2>2, OwedFinite
  <2>5. (Filling(y, n, 0, launch.loads).parity # y) <=> n = 0 BY DEF Filling, State
  <2> QED BY <2>2, <2>3, <2>4, <2>5
<1> HIDE DEF s, S
<1>9. F < M + S
  <2> SUFFICES ASSUME F = M + S PROVE FALSE BY <1>1, <1>5
  <2>1. M \in Rounds(M) /\ M < F BY <1>1 DEF Rounds, S
  <2>2. s = M % S /\ Turn(F, S) = 1 - Turn(M, S) /\ Turn(M, S) \in {0, 1} BY <1>1, Lap DEF s
  <2>3. WaitingIn(ld, fl, 1, M) = {} BY <1>5, <2>1
  <2>4. OtherFull(ld, fl, M) = State(1 - Turn(M, S), launch.loads, 0)
    <3>1. Cardinality(WaitingIn(ld, fl, 1, M)) = 0 BY <2>3, OwedFinite
    <3> QED BY <3>1 DEF OtherFull, Filling, S
  <2>5. a[1].full[s].parity = 1 - Turn(M, S) BY <1>5, <2>1, <2>2, <2>4 DEF State
  <2> QED BY <1>7, <2>2, <2>5
<1>10. F \in Rounds(M) /\ \A r \in Rounds(M) : r \in Nat /\ r % S \in 0..S - 1 /\ (r # F => r % S # s)
  <2>1. F \in Rounds(M) BY <1>1, <1>5, <1>9 DEF Rounds, S
  <2>2. ASSUME NEW r \in Rounds(M) PROVE r \in Nat /\ r % S \in 0..S - 1 /\ (r # F => r % S # s)
    <3>1. r \in Nat /\ r \in M..M + S - 1 /\ F \in M..M + S - 1 BY <2>1 DEF Rounds, S
    <3>2. r % S \in 0..S - 1 BY <1>1, <3>1, Lap
    <3>3. r # F => r % S # F % S BY <1>1, <3>1, Apart
    <3> QED BY <3>1, <3>2, <3>3 DEF s
  <2> QED BY <2>1, <2>2
<1>11. WaitingIn(ld, fl, 1, F) = {}
  <2>1. a[1].full[s] = OtherFull(ld, fl, F) BY <1>5, <1>10 DEF s
  <2> QED BY <1>7, <1>8, <1>10, <2>1
<1>12. LeaderOK(new, ld, fl, F + 1, M)
  <2> SUFFICES ASSUME NEW r \in Rounds(M) PROVE new[Leader].full[r % S] = LeaderFull(ld, fl, F + 1, r)
    BY DEF LeaderOK, S
  <2>1. a[Leader].full[r % S] = LeaderFull(ld, fl, F, r) BY <1>3 DEF LeaderOK, S
  <2>2. r \in Nat /\ r % S \in 0..S - 1 BY <1>10
  <2>3. CASE r # F
    <3>1. F <= r <=> F + 1 <= r BY <2>2, <2>3
    <3>2. PendingIn(ld, fl, F + 1, r) = PendingIn(ld, fl, F, r) BY <3>1 DEF PendingIn
    <3>3. LeaderFull(ld, fl, F + 1, r) = LeaderFull(ld, fl, F, r) BY <3>2 DEF LeaderFull
    <3>4. new[Leader].full[r % S] = a[Leader].full[r % S] BY <1>2, <1>4, <1>10, <2>2, <2>3
    <3> QED BY <2>1, <3>3, <3>4
  <2>4. CASE r = F
    <3> DEFINE y == Turn(F, S)
               P == PendingIn(ld, fl, F, F)
               X == TxIn(ld, fl, F)
               A == AbArrivals(launch, Leader)
    <3>1. y \in {0, 1} /\ P \in Nat /\ X \in Int BY <1>6, FullIs
    <3>2. PendingIn(ld, fl, F + 1, F) = P - 1 /\ P # 0
      <4> DEFINE i == IF ArmedIn(ld, F) THEN 0 ELSE 1
                 j == Cardinality(WaitingIn(ld, fl, Leader, F))
      <4>1. P = i + (j + IF F <= F THEN 1 ELSE 0) /\ PendingIn(ld, fl, F + 1, F) = i + (j + IF F + 1 <= F THEN 1 ELSE 0)
        BY DEF PendingIn
      <4>2. i \in Nat /\ j \in Nat BY OwedFinite
      <4> HIDE DEF P, i, j
      <4> QED BY <4>1, <4>2
    <3>3. LeaderFull(ld, fl, F, F) = Filling(y, P, X, A) /\ LeaderFull(ld, fl, F + 1, F) = Filling(y, P - 1, X, A)
      BY <3>2 DEF LeaderFull, S
    <3> HIDE DEF y, P, X, A
    <3>4. PICK z : z = Filling(y, P, X, A) OBVIOUS
    <3>5. Hit(z, A, 1, 0) = Filling(y, P - 1, X + 0, A) BY <3>1, <3>2, <3>4, FillingHit
    <3>6. X + 0 = X BY <3>1
    <3>7. b = LeaderFull(ld, fl, F + 1, F) BY <2>1, <2>4, <3>3, <3>4, <3>5, <3>6 DEF A, S
    <3>8. new[Leader].full[s] = b BY <1>2, <1>4, <1>6
    <3> QED BY <2>4, <3>7, <3>8 DEF s
  <2> QED BY <2>3, <2>4
<1>13. OtherOK(new, ld, fl, F + 1, M)
  <2>1. \A r \in Rounds(M) : new[1].full[r % S] = OtherFull(ld, fl, r) BY <1>2, <1>4, <1>5, <1>10
  <2>2. M <= F + 1 /\ F + 1 <= M + S BY <1>1, <1>5, <1>9
  <2>3. ASSUME NEW r \in Rounds(M), r < F + 1 PROVE WaitingIn(ld, fl, 1, r) = {}
    <3>1. r < F \/ r = F BY <1>10, <2>3
    <3> QED BY <1>5, <1>11, <3>1
  <2> QED BY <2>1, <2>2, <2>3 DEF OtherOK, S
<1>14. EmptyOK(new, M) BY <1>3, <1>4 DEF EmptyOK
<1>15. DataOK(new, ld, fl, M) BY <1>3, <1>4, <1>10 DEF DataOK, S
<1> QED BY <1>3, <1>12, <1>13, <1>14, <1>15 DEF AbAt
-----------------------------------------------------------------------------
(* The units of a k-tile that a load warp issues.                          *)
Mine(q, w) == {p \in Units : Issuer(q, p) = w}
Sends(ld, fl, nld, nfl, M, c, w, q) ==
  /\ \A d \in Ctas, r \in Rounds(M), u \in Units : HereIn(nld, nfl, d, r, u) <=> HereIn(ld, fl, d, r, u)
  /\ \A d \in Ctas, r \in Rounds(M), u \in Units :
       SentIn(nld, d, r, u) <=> SentIn(ld, d, r, u) \/ (d = c /\ r = q /\ u \in Mine(q, w))
  /\ \A u \in Mine(q, w) : ~SentIn(ld, c, q, u)

(* What a load warp issues at its position was not sent before, and is not *)
(* here yet.                                                               *)
LEMMA SendsThem ==
  ASSUME launch \in Launches, NEW ld, NEW fl, NEW M \in Nat, NEW c \in Ctas, NEW w \in Loads, NEW q \in Rounds(M),
         \A d \in Ctas, v \in Loads : ld[d][v].n \in Nat, q = ld[c][w].n,
         NEW nld, nld[c][w].n = q + 1,
         \A d \in Ctas, v \in Loads : ~(d = c /\ v = w) => nld[d][v].n = ld[d][v].n,
         NEW nfl, nfl = fl \cup {Flight(c, q, p) : p \in Mine(q, w)}
  PROVE  Sends(ld, fl, nld, nfl, M, c, w, q)
<1>1. \A r \in Rounds(M) : r \in Nat BY DEF Rounds
<1>2. \A r, u : u \in Units => Issuer(r, u) \in Loads BY IssuerIs
<1>3. ASSUME NEW d \in Ctas, NEW r \in Rounds(M), NEW u \in Units
      PROVE  SentIn(nld, d, r, u) <=> SentIn(ld, d, r, u) \/ (d = c /\ r = q /\ u \in Mine(q, w))
  <2>1. PICK v \in Loads : v = Issuer(r, u) BY <1>2
  <2>2. r \in Nat /\ q \in Nat /\ ld[d][v].n \in Nat BY <1>1
  <2>3. CASE d = c /\ v = w
    <3>1. SentIn(nld, d, r, u) <=> r < q + 1 BY <2>1, <2>3 DEF SentIn
    <3>2. SentIn(ld, d, r, u) <=> r < q BY <2>1, <2>3 DEF SentIn
    <3>3. r = q => u \in Mine(q, w) BY <2>1, <2>3 DEF Mine
    <3> QED BY <2>2, <2>3, <3>1, <3>2, <3>3
  <2>4. CASE ~(d = c /\ v = w)
    <3>1. SentIn(nld, d, r, u) <=> SentIn(ld, d, r, u) BY <2>1, <2>4 DEF SentIn
    <3>2. ~(d = c /\ r = q /\ u \in Mine(q, w)) BY <2>1, <2>4 DEF Mine
    <3> QED BY <3>1, <3>2
  <2> QED BY <2>3, <2>4
<1>4. \A u \in Mine(q, w) : ~SentIn(ld, c, q, u)
  <2> SUFFICES ASSUME NEW u \in Mine(q, w), SentIn(ld, c, q, u) PROVE FALSE OBVIOUS
  <2>1. Issuer(q, u) = w BY DEF Mine
  <2>2. q < q BY <2>1 DEF SentIn
  <2> QED BY <1>1, <2>2
<1>5. ASSUME NEW d \in Ctas, NEW r \in Rounds(M), NEW u \in Units
      PROVE  HereIn(nld, nfl, d, r, u) <=> HereIn(ld, fl, d, r, u)
  <2>1. CASE d = c /\ r = q /\ u \in Mine(q, w)
    <3>1. ~SentIn(ld, c, q, u) BY <1>4, <2>1
    <3>2. Flight(c, q, u) \in nfl BY <2>1
    <3> QED BY <2>1, <3>1, <3>2 DEF HereIn
  <2>2. CASE ~(d = c /\ r = q /\ u \in Mine(q, w))
    <3>1. SentIn(nld, d, r, u) <=> SentIn(ld, d, r, u) BY <1>3, <2>2
    <3>2. Flight(d, r, u) \in nfl <=> Flight(d, r, u) \in fl
      <4> SUFFICES ASSUME Flight(d, r, u) \in {Flight(c, q, p) : p \in Mine(q, w)} PROVE FALSE OBVIOUS
      <4>1. PICK p \in Mine(q, w) : Flight(d, r, u) = Flight(c, q, p) OBVIOUS
      <4>2. p \in Units BY DEF Mine
      <4>3. d = c /\ r = q /\ u = p BY <4>1, <4>2, FlightsApart
      <4> QED BY <2>2, <4>3
    <3> QED BY <3>1, <3>2 DEF HereIn
  <2> QED BY <2>1, <2>2
<1> QED BY <1>3, <1>4, <1>5 DEF Sends

(* What changes in the barriers: the leader's is armed for the bytes.      *)
Arming(ld, fl, nld, nfl, F, M, c, w, q) ==
  /\ \A r \in Rounds(M) : r # q => LeaderFull(nld, nfl, F, r) = LeaderFull(ld, fl, F, r)
  /\ c = Leader /\ Armer(q) = w =>
       LeaderFull(nld, nfl, F, q) = Hit(LeaderFull(ld, fl, F, q), AbArrivals(launch, Leader), 1, TxParts)
  /\ ~(c = Leader /\ Armer(q) = w) => LeaderFull(nld, nfl, F, q) = LeaderFull(ld, fl, F, q)
  /\ launch.ctas = 2 => \A r \in Rounds(M) : OtherFull(nld, nfl, r) = OtherFull(ld, fl, r)
  /\ CpAsync => \A d \in Ctas, r \in Rounds(M) : WaitingIn(nld, nfl, d, r) = WaitingIn(ld, fl, d, r)

(* Issuing arms the leader's barrier when it is the armer's, and changes   *)
(* no other.                                                               *)
LEMMA SendsArm ==
  ASSUME launch \in Launches, NEW ld, NEW fl, NEW nld, NEW nfl, NEW F \in Nat, NEW M \in Nat,
         NEW c \in Ctas, NEW w \in Loads, NEW q \in Rounds(M), Sends(ld, fl, nld, nfl, M, c, w, q)
  PROVE  Arming(ld, fl, nld, nfl, F, M, c, w, q)
<1>1. /\ \A d \in Ctas, r \in Rounds(M), u \in Units : HereIn(nld, nfl, d, r, u) <=> HereIn(ld, fl, d, r, u)
      /\ \A d \in Ctas, r \in Rounds(M), u \in Units :
           SentIn(nld, d, r, u) <=> SentIn(ld, d, r, u) \/ (d = c /\ r = q /\ u \in Mine(q, w))
      /\ \A u \in Mine(q, w) : ~SentIn(ld, c, q, u) BY DEF Sends
<1>2. Leader \in Ctas /\ (launch.ctas = 2 => 1 \in Ctas) BY CtasAre
<1>3. /\ PartB \in Units /\ Issuer(q, PartB) = Armer(q)
      /\ CpAsync => \A u \in Loads : u \in Units BY UnitsAre, IssuerIs
<1>4. \A r \in Rounds(M) : OwedIn(nld, nfl, r) = OwedIn(ld, fl, r) BY <1>1 DEF OwedIn
<1>5. CpAsync => \A d \in Ctas, r \in Rounds(M) : WaitingIn(nld, nfl, d, r) = WaitingIn(ld, fl, d, r)
  BY <1>1, <1>3 DEF WaitingIn
<1>6. launch.ctas = 2 => \A r \in Rounds(M) : OtherFull(nld, nfl, r) = OtherFull(ld, fl, r)
  BY <1>2, <1>5 DEF OtherFull
<1>7. ASSUME NEW r \in Rounds(M), ArmedIn(nld, r) <=> ArmedIn(ld, r)
      PROVE  LeaderFull(nld, nfl, F, r) = LeaderFull(ld, fl, F, r)
  <2>1. TxIn(nld, nfl, r) = TxIn(ld, fl, r) BY <1>4, <1>7 DEF TxIn
  <2>2. PendingIn(nld, nfl, F, r) = PendingIn(ld, fl, F, r) BY <1>2, <1>5, <1>7 DEF PendingIn
  <2> QED BY <2>1, <2>2 DEF LeaderFull
<1>8. \A r \in Rounds(M) : ArmedIn(nld, r) <=> ArmedIn(ld, r) \/ (Leader = c /\ r = q /\ PartB \in Mine(q, w))
  BY <1>1, <1>2, <1>3 DEF ArmedIn
<1>9. PartB \in Mine(q, w) <=> Armer(q) = w BY <1>3 DEF Mine
<1>10. CASE c = Leader /\ Armer(q) = w
  <2> DEFINE y == Turn(q, AbStages)
             P == PendingIn(ld, fl, F, q)
             X == TxIn(ld, fl, q)
             A == AbArrivals(launch, Leader)
  <2>1. y \in {0, 1} /\ P \in Nat /\ X \in Int /\ TxParts \in Nat
    <3>1. q \in Nat BY DEF Rounds
    <3> QED BY <3>1, FullIs, TxPartsAre
  <2>2. ~ArmedIn(ld, q) /\ ArmedIn(nld, q) BY <1>1, <1>8, <1>9, <1>10 DEF ArmedIn
  <2>3. PendingIn(nld, nfl, F, q) = P - 1 /\ P # 0
    <3> DEFINE j == IF CpAsync THEN Cardinality(WaitingIn(ld, fl, Leader, q)) + IF launch.ctas = 2 /\ F <= q THEN 1 ELSE 0
                    ELSE 0
    <3>1. P = 1 + j BY <2>2 DEF PendingIn
    <3>2. PendingIn(nld, nfl, F, q) = 0 + j BY <1>2, <1>5, <2>2 DEF PendingIn
    <3>3. j \in Nat
      <4>1. Cardinality(WaitingIn(ld, fl, Leader, q)) \in Nat BY OwedFinite
      <4> QED BY <4>1
    <3> HIDE DEF P, j
    <3> QED BY <3>1, <3>2, <3>3
  <2>4. TxIn(nld, nfl, q) = X + TxParts
    <3> DEFINE o == Cardinality(OwedIn(ld, fl, q))
    <3>1. X = o - TxParts /\ TxIn(nld, nfl, q) = o - 0 BY <1>4, <2>2 DEF TxIn
    <3>2. o \in Nat BY OwedFinite
    <3> HIDE DEF X, o
    <3> QED BY <2>1, <3>1, <3>2
  <2>5. LeaderFull(ld, fl, F, q) = Filling(y, P, X, A) /\ LeaderFull(nld, nfl, F, q) = Filling(y, P - 1, X + TxParts, A)
    BY <2>3, <2>4 DEF LeaderFull
  <2> HIDE DEF y, P, X, A
  <2>6. PICK b : b = Filling(y, P, X, A) OBVIOUS
  <2>7. Hit(b, A, 1, TxParts) = Filling(y, P - 1, X + TxParts, A) BY <2>1, <2>3, <2>6, FillingHit
  <2>8. LeaderFull(nld, nfl, F, q) = Hit(LeaderFull(ld, fl, F, q), AbArrivals(launch, Leader), 1, TxParts)
    BY <2>5, <2>6, <2>7 DEF A
  <2>9. \A r \in Rounds(M) : r # q => LeaderFull(nld, nfl, F, r) = LeaderFull(ld, fl, F, r) BY <1>7, <1>8
  <2> QED BY <1>5, <1>6, <1>10, <2>8, <2>9 DEF Arming
<1>11. CASE ~(c = Leader /\ Armer(q) = w)
  <2>1. \A r \in Rounds(M) : LeaderFull(nld, nfl, F, r) = LeaderFull(ld, fl, F, r) BY <1>7, <1>8, <1>9, <1>11
  <2> QED BY <1>5, <1>6, <1>11, <2>1 DEF Arming
<1> QED BY <1>10, <1>11

(* The load warps stay within a round of the leader's multiplications.     *)
LEMMA SendsAhead ==
  ASSUME launch \in Launches, NEW ld, NEW fl, NEW M \in Nat, NEW c \in Ctas, NEW w \in Loads, NEW q \in Rounds(M),
         Ahead(ld, M), FlyingOK(ld, fl, M),
         NEW nld, nld[c][w].n = q + 1,
         \A d \in Ctas, v \in Loads : ~(d = c /\ v = w) => nld[d][v].n = ld[d][v].n,
         NEW nfl, nfl = fl \cup {Flight(c, q, p) : p \in Mine(q, w)},
         Sends(ld, fl, nld, nfl, M, c, w, q)
  PROVE  Ahead(nld, M) /\ FlyingOK(nld, nfl, M)
<1>1. AbStages \in Nat \ {0} BY Depths
<1>2. Ahead(nld, M)
  <2> SUFFICES ASSUME NEW d \in Ctas, NEW v \in Loads PROVE M <= nld[d][v].n /\ nld[d][v].n <= M + AbStages
    BY DEF Ahead
  <2>1. CASE d = c /\ v = w
    <3>1. q \in M..M + AbStages - 1 BY DEF Rounds
    <3>2. M <= q + 1 /\ q + 1 <= M + AbStages BY <1>1, <3>1
    <3> QED BY <2>1, <3>2
  <2>2. CASE ~(d = c /\ v = w)
    <3>1. M <= ld[d][v].n /\ ld[d][v].n <= M + AbStages BY DEF Ahead
    <3> QED BY <2>2, <3>1
  <2> QED BY <2>1, <2>2
<1>3. FlyingOK(nld, nfl, M)
  <2> SUFFICES ASSUME NEW f \in nfl
               PROVE  \E d \in Ctas, r \in Rounds(M), u \in Units : f = Flight(d, r, u) /\ SentIn(nld, d, r, u)
    BY DEF FlyingOK
  <2>1. CASE f \in fl
    <3>1. PICK d \in Ctas, r \in Rounds(M), u \in Units : f = Flight(d, r, u) /\ SentIn(ld, d, r, u)
      BY <2>1 DEF FlyingOK
    <3>2. SentIn(nld, d, r, u) BY <3>1 DEF Sends
    <3> QED BY <3>1, <3>2
  <2>2. CASE f \notin fl
    <3>1. PICK u \in Mine(q, w) : f = Flight(c, q, u) BY <2>2
    <3>2. u \in Units BY DEF Mine
    <3>3. SentIn(nld, c, q, u) BY <3>2 DEF Sends
    <3> QED BY <3>1, <3>2, <3>3
  <2> QED BY <2>1, <2>2
<1> QED BY <1>2, <1>3

(* An issue keeps the ring.                                                *)
LEMMA FetchAt ==
  ASSUME launch \in Launches, NEW a, NEW ld, NEW fl, NEW F \in Nat, NEW M \in Nat, AbAt(a, ld, fl, F, M),
         NEW c \in Ctas, NEW w \in Loads, NEW q \in Rounds(M), NEW nld, NEW nfl,
         Ahead(nld, M), FlyingOK(nld, nfl, M),
         Sends(ld, fl, nld, nfl, M, c, w, q), Arming(ld, fl, nld, nfl, F, M, c, w, q),
         NEW h, \A x \in 0..launch.loads :
                  (\A p \in Mine(q, w) : x \notin PartsOf(p)) => h[x] = a[c].data[q % AbStages][x],
         NEW b, b = IF c = Leader /\ Armer(q) = w
                    THEN Hit(a[c].full[q % AbStages], AbArrivals(launch, Leader), 1, TxParts)
                    ELSE a[c].full[q % AbStages],
         NEW new, AbTo(a, new, c, q % AbStages, h, c, b)
  PROVE  AbAt(new, nld, nfl, F, M)
<1> DEFINE S == AbStages
           s == q % S
<1>1. S \in Nat \ {0} /\ \A r \in Rounds(M) : r \in Nat /\ r % S \in 0..S - 1 /\ (r # q => r % S # s)
  <2>1. S \in Nat \ {0} BY Depths
  <2>2. ASSUME NEW r \in Rounds(M) PROVE r \in Nat /\ r % S \in 0..S - 1 /\ (r # q => r % S # s)
    <3>1. r \in Nat /\ r \in M..M + S - 1 /\ q \in M..M + S - 1 BY <2>1 DEF Rounds
    <3>2. r % S \in 0..S - 1 BY <2>1, <3>1, Lap
    <3>3. r # q => r % S # q % S BY <2>1, <3>1, Apart
    <3> QED BY <3>1, <3>2, <3>3
  <2> QED BY <2>1, <2>2
<1>2. Leader \in Ctas /\ (launch.ctas = 2 => 1 \in Ctas) /\ Ctas \subseteq {0, 1} /\ Leader = 0 BY CtasAre
<1>3. /\ Ahead(ld, M) /\ EmptyOK(a, M) /\ LeaderOK(a, ld, fl, F, M) /\ OtherOK(a, ld, fl, F, M)
      /\ FlyingOK(ld, fl, M) /\ DataOK(a, ld, fl, M) BY DEF AbAt
<1>4. /\ \A d \in Ctas : new[d].empty = a[d].empty
      /\ \A d \in Ctas, r \in 0..S - 1 :
           /\ new[d].data[r] = IF d = c /\ r = s THEN h ELSE a[d].data[r]
           /\ new[d].full[r] = IF d = c /\ r = s THEN b ELSE a[d].full[r] BY DEF AbTo
<1>5. s \in 0..S - 1 BY <1>1
<1> HIDE DEF s
<1>6. EmptyOK(new, M) BY <1>3, <1>4 DEF EmptyOK
<1>8. LeaderOK(new, nld, nfl, F, M)
  <2> SUFFICES ASSUME NEW r \in Rounds(M) PROVE new[Leader].full[r % S] = LeaderFull(nld, nfl, F, r) BY DEF LeaderOK
  <2>1. a[Leader].full[r % S] = LeaderFull(ld, fl, F, r) BY <1>3 DEF LeaderOK
  <2>2. r % S \in 0..S - 1 BY <1>1
  <2>3. CASE r # q
    <3>1. LeaderFull(nld, nfl, F, r) = LeaderFull(ld, fl, F, r) BY <2>3 DEF Arming
    <3>2. new[Leader].full[r % S] = a[Leader].full[r % S] BY <1>1, <1>2, <1>4, <2>2, <2>3 DEF s
    <3> QED BY <2>1, <3>1, <3>2
  <2>4. CASE r = q
    <3>1. new[Leader].full[s] = IF Leader = c THEN b ELSE a[Leader].full[s] BY <1>2, <1>4, <1>5
    <3>2. a[Leader].full[s] = LeaderFull(ld, fl, F, q) BY <2>1, <2>4 DEF s
    <3>3. CASE c = Leader /\ Armer(q) = w BY <2>4, <3>1, <3>2, <3>3 DEF Arming, s
    <3>4. CASE ~(c = Leader /\ Armer(q) = w)
      <4>1. LeaderFull(nld, nfl, F, q) = LeaderFull(ld, fl, F, q) BY <3>4 DEF Arming
      <4>2. new[Leader].full[s] = a[Leader].full[s] BY <3>1, <3>4 DEF s
      <4> QED BY <2>4, <3>2, <4>1, <4>2 DEF s
    <3> QED BY <3>3, <3>4
  <2> QED BY <2>3, <2>4
<1>9. OtherOK(new, nld, nfl, F, M)
  <2> SUFFICES ASSUME launch.ctas = 2
               PROVE  /\ \A r \in Rounds(M) : new[1].full[r % S] = OtherFull(nld, nfl, r)
                      /\ CpAsync => /\ M <= F /\ F <= M + S
                                    /\ \A r \in Rounds(M) : r < F => WaitingIn(nld, nfl, 1, r) = {}
    BY DEF OtherOK
  <2>1. ASSUME NEW r \in Rounds(M) PROVE new[1].full[r % S] = OtherFull(nld, nfl, r)
    <3>1. a[1].full[r % S] = OtherFull(ld, fl, r) BY <1>3 DEF OtherOK
    <3>2. OtherFull(nld, nfl, r) = OtherFull(ld, fl, r) BY DEF Arming
    <3>3. new[1].full[r % S] = a[1].full[r % S]
      <4>1. r % S \in 0..S - 1 BY <1>1
      <4>2. new[1].full[r % S] = IF 1 = c /\ r % S = s THEN b ELSE a[1].full[r % S] BY <1>2, <1>4, <4>1
      <4>3. c = 1 => b = a[1].full[s]
        <5>1. c = 1 => ~(c = Leader /\ Armer(q) = w) BY <1>2
        <5> QED BY <5>1 DEF s
      <4> QED BY <4>2, <4>3
    <3> QED BY <3>1, <3>2, <3>3
  <2>2. CpAsync => \A r \in Rounds(M) : WaitingIn(nld, nfl, 1, r) = WaitingIn(ld, fl, 1, r) BY <1>2 DEF Arming
  <2> QED BY <1>3, <2>1, <2>2 DEF OtherOK
<1>11. DataOK(new, nld, nfl, M)
  <2> SUFFICES ASSUME NEW d \in Ctas, NEW r \in Rounds(M), NEW u \in Units, HereIn(nld, nfl, d, r, u),
                      NEW x \in PartsOf(u)
               PROVE  new[d].data[r % S][x] = At(launch, r)
    BY DEF DataOK
  <2>1. HereIn(ld, fl, d, r, u) BY DEF Sends
  <2>2. a[d].data[r % S][x] = At(launch, r) BY <1>3, <2>1 DEF DataOK
  <2>3. new[d].data[r % S] = IF d = c /\ r % S = s THEN h ELSE a[d].data[r % S] BY <1>1, <1>4
  <2>4. CASE d = c /\ r = q
    <3>1. u \notin Mine(q, w) BY <2>1, <2>4 DEF Sends, HereIn
    <3>2. x \in 0..launch.loads BY UnitsAre
    <3>3. \A p \in Mine(q, w) : x \notin PartsOf(p)
      <4> SUFFICES ASSUME NEW p \in Mine(q, w), x \in PartsOf(p) PROVE FALSE OBVIOUS
      <4>1. p \in Units BY DEF Mine
      <4>2. u = p BY <4>1, UnitsAre
      <4> QED BY <3>1, <4>2
    <3>4. h[x] = a[c].data[s][x] BY <3>2, <3>3 DEF s
    <3> QED BY <2>2, <2>3, <2>4, <3>4 DEF s
  <2>5. CASE ~(d = c /\ r = q)
    <3>1. ~(d = c /\ r % S = s) BY <1>1, <2>5 DEF s
    <3> QED BY <2>2, <2>3, <3>1
  <2> QED BY <2>4, <2>5
<1> QED BY <1>6, <1>8, <1>9, <1>11 DEF AbAt
-----------------------------------------------------------------------------
(* Of a position that no load warp has reached nothing is sent or here,    *)
(* and its barriers wait for everything.                                   *)
LEMMA NothingSent ==
  ASSUME launch \in Launches, NEW ld, NEW fl, NEW q \in Nat,
         \A c \in Ctas, w \in Loads : ld[c][w].n \in Nat /\ ld[c][w].n <= q
  PROVE  /\ \A c \in Ctas, p \in Units : ~SentIn(ld, c, q, p) /\ ~HereIn(ld, fl, c, q, p)
         /\ ~ArmedIn(ld, q) /\ TxIn(ld, fl, q) = 0
         /\ CpAsync => \A c \in Ctas : WaitingIn(ld, fl, c, q) = Loads
<1>2. ASSUME NEW c \in Ctas, NEW p \in Units PROVE ~SentIn(ld, c, q, p) /\ ~HereIn(ld, fl, c, q, p)
  <2>1. PICK w \in Loads : w = Issuer(q, p) BY IssuerIs
  <2>2. ld[c][w].n <= q /\ ld[c][w].n \in Nat OBVIOUS
  <2>3. ~(q < ld[c][w].n) BY <2>2
  <2>4. ~SentIn(ld, c, q, p) BY <2>1, <2>3 DEF SentIn
  <2> QED BY <2>4 DEF HereIn
<1>3. ~ArmedIn(ld, q) BY <1>2, CtasAre, UnitsAre DEF ArmedIn
<1>4. OwedIn(ld, fl, q) = Ctas \X {p \in Units : ByTma(p)} BY <1>2 DEF OwedIn
<1>5. TxIn(ld, fl, q) = 0
  <2>1. PICK n \in Nat : n = TxParts /\ n = Cardinality(OwedIn(ld, fl, q)) BY <1>4, TxPartsAre
  <2>2. TxIn(ld, fl, q) = n - n BY <1>3, <2>1 DEF TxIn
  <2> QED BY <2>2
<1>6. CpAsync => \A c \in Ctas : WaitingIn(ld, fl, c, q) = Loads BY <1>2, UnitsAre DEF WaitingIn
<1> QED BY <1>2, <1>3, <1>5, <1>6

(* So its barriers wait for all arrivals.                                  *)
LEMMA NothingFull ==
  ASSUME launch \in Launches, NEW ld, NEW fl, NEW q \in Nat, NEW F \in Nat,
         \A c \in Ctas, w \in Loads : ld[c][w].n \in Nat /\ ld[c][w].n <= q,
         CpAsync /\ launch.ctas = 2 => F <= q
  PROVE  /\ LeaderFull(ld, fl, F, q) = State(Turn(q, AbStages), AbArrivals(launch, Leader), 0)
         /\ launch.ctas = 2 => OtherFull(ld, fl, q) =
              IF CpAsync THEN State(Turn(q, AbStages), launch.loads, 0) ELSE State(0, 1, 0)
<1> DEFINE A == AbArrivals(launch, Leader)
<1>1. /\ ~ArmedIn(ld, q) /\ TxIn(ld, fl, q) = 0
      /\ CpAsync => \A c \in Ctas : WaitingIn(ld, fl, c, q) = Loads
  BY NothingSent
<1>2. Leader \in Ctas /\ (launch.ctas = 2 => 1 \in Ctas) BY CtasAre
<1>3. PICK n \in Nat \ {0} : n = launch.loads /\ n = Cardinality(Loads)
  <2>1. launch.loads \in Nat \ {0} /\ Cardinality(Loads) = launch.loads BY LaunchIs, CtasAre
  <2> QED BY <2>1
<1>4. PendingIn(ld, fl, F, q) = A
  <2>1. CASE CpAsync
    <3>1. WaitingIn(ld, fl, Leader, q) = Loads BY <1>1, <1>2, <2>1
    <3>2. launch.ctas \in {1, 2} BY LaunchIs
    <3>3. PendingIn(ld, fl, F, q) = 1 + (n + IF launch.ctas = 2 THEN 1 ELSE 0)
      BY <1>1, <1>3, <2>1, <3>1 DEF PendingIn
    <3>4. A = n + (IF launch.ctas = 1 THEN 1 ELSE 2) BY <1>3, <2>1 DEF AbArrivals, CpAsync, Gathers, Leader
    <3> HIDE DEF A
    <3>5. CASE launch.ctas = 1 BY <1>3, <3>3, <3>4, <3>5
    <3>6. CASE launch.ctas = 2 BY <1>3, <3>3, <3>4, <3>6
    <3> QED BY <3>2, <3>5, <3>6
  <2>2. CASE ~CpAsync
    <3>1. PendingIn(ld, fl, F, q) = 1 BY <1>1, <2>2 DEF PendingIn
    <3>2. A = 1 BY <2>2 DEF AbArrivals, CpAsync, Gathers
    <3> QED BY <3>1, <3>2
  <2> QED BY <2>1, <2>2
<1>5. A # 0 BY <1>3 DEF AbArrivals
<1>6. LeaderFull(ld, fl, F, q) = State(Turn(q, AbStages), A, 0) BY <1>1, <1>4, <1>5 DEF LeaderFull, Filling
<1>7. ASSUME launch.ctas = 2, CpAsync PROVE OtherFull(ld, fl, q) = State(Turn(q, AbStages), launch.loads, 0)
  <2>1. WaitingIn(ld, fl, 1, q) = Loads BY <1>1, <1>2, <1>7
  <2> QED BY <1>3, <1>7, <2>1 DEF OtherFull, Filling
<1>8. ~CpAsync => OtherFull(ld, fl, q) = State(0, 1, 0) BY DEF OtherFull
<1> QED BY <1>6, <1>7, <1>8

(* The leader's barrier lets it multiply: all of its k-tile is here.       *)
Complete(a, ld, fl, F, M) ==
  /\ M \in Rounds(M) /\ a[Leader].full[M % AbStages] = LeaderFull(ld, fl, F, M)
  /\ LeaderFull(ld, fl, F, M) = State(1 - Turn(M, AbStages), AbArrivals(launch, Leader), 0)
  /\ \A c \in Ctas, p \in Units : HereIn(ld, fl, c, M, p)
  /\ CpAsync /\ launch.ctas = 2 => M < F /\ F <= M + AbStages /\ WaitingIn(ld, fl, 1, M) = {}
LetsMultiply(a, M) == DOMAIN a[Leader].full = 0..AbStages - 1 /\ IsFull(a[Leader].full, M)

(* Then every unit of it is here in every CTA, and with cp.async the other *)
(* CTA has forwarded.                                                      *)
LEMMA CompleteAt ==
  ASSUME launch \in Launches, NEW a, NEW ld, NEW fl, NEW F \in Nat, NEW M \in Nat, AbAt(a, ld, fl, F, M),
         LetsMultiply(a, M)
  PROVE  Complete(a, ld, fl, F, M)
<1>1. AbStages \in Nat \ {0} BY Depths
<1>2. LeaderOK(a, ld, fl, F, M) /\ OtherOK(a, ld, fl, F, M) BY DEF AbAt
<1>3. M \in Rounds(M) BY <1>1 DEF Rounds
<1>4. a[Leader].full[M % AbStages] = LeaderFull(ld, fl, F, M) BY <1>2, <1>3 DEF LeaderOK
<1>5. LeaderFull(ld, fl, F, M).parity # Turn(M, AbStages)
  <2>1. PICK bars : bars = a[Leader].full OBVIOUS
  <2>2. DOMAIN bars = 0..AbStages - 1 /\ IsFull(bars, M) BY <2>1 DEF LetsMultiply
  <2>0. PICK d \in Nat \ {0} : d = AbStages BY <1>1
  <2>3. bars[M % d].parity # Turn(M, d)
    <3>1. DOMAIN bars = 0..d - 1 BY <2>0, <2>2
    <3>2. IsFull(bars, M) <=> bars[M % d].parity # Turn(M, d) BY <3>1, StageIs
    <3> QED BY <2>2, <3>2
  <2> QED BY <1>4, <2>0, <2>1, <2>3
<1>6. CpAsync /\ launch.ctas = 2 => M <= F /\ F <= M + AbStages /\ (M < F => WaitingIn(ld, fl, 1, M) = {})
  BY <1>2, <1>3 DEF OtherOK
<1>7. /\ LeaderFull(ld, fl, F, M) = State(1 - Turn(M, AbStages), AbArrivals(launch, Leader), 0)
      /\ \A c \in Ctas, p \in Units : HereIn(ld, fl, c, M, p)
      /\ CpAsync /\ launch.ctas = 2 => M < F
  BY <1>5, <1>6, CompleteIs
<1> QED BY <1>3, <1>4, <1>6, <1>7 DEF Complete

(* The leader multiplies: the stage of its k-tile is the next round's.     *)
LEMMA MultiplyAt ==
  ASSUME launch \in Launches, NEW a, NEW ld, NEW fl, NEW F \in Nat, NEW M \in Nat, AbAt(a, ld, fl, F, M),
         \A c \in Ctas, w \in Loads : ld[c][w].n \in Nat,
         DOMAIN a[Leader].full = 0..AbStages - 1, IsFull(a[Leader].full, M),
         NEW new, \A d \in Ctas : /\ new[d].full = a[d].full /\ new[d].data = a[d].data
                                  /\ new[d].empty = Arrive(a[d].empty, M, 1)
  PROVE  AbAt(new, ld, fl, F, M + 1)
<1> DEFINE S == AbStages
           A == AbArrivals(launch, Leader)
<1>1. S \in Nat \ {0} BY Depths
<1>2. Leader \in Ctas /\ (launch.ctas = 2 => 1 \in Ctas) BY CtasAre
<1>3. /\ Ahead(ld, M) /\ EmptyOK(a, M) /\ LeaderOK(a, ld, fl, F, M) /\ OtherOK(a, ld, fl, F, M)
      /\ FlyingOK(ld, fl, M) /\ DataOK(a, ld, fl, M) BY DEF AbAt
<1>4. M \in Rounds(M) /\ \A r \in Rounds(M + 1) : r = M + S \/ r \in Rounds(M) BY <1>1 DEF Rounds
<1>5. /\ Turn(M, S) \in {0, 1} /\ M % S \in 0..S - 1
      /\ (M + S) % S = M % S /\ Turn(M + S, S) = 1 - Turn(M, S) BY <1>1, Lap
<1>6. /\ a[Leader].full[M % S] = LeaderFull(ld, fl, F, M)
      /\ LeaderFull(ld, fl, F, M) = State(1 - Turn(M, S), A, 0)
      /\ \A c \in Ctas, p \in Units : HereIn(ld, fl, c, M, p)
      /\ CpAsync /\ launch.ctas = 2 => M < F /\ F <= M + S /\ WaitingIn(ld, fl, 1, M) = {}
  <2>1. LetsMultiply(a, M) BY DEF LetsMultiply
  <2>2. Complete(a, ld, fl, F, M) BY <2>1, CompleteAt
  <2> QED BY <2>2 DEF Complete
<1>10. /\ \A c \in Ctas, p \in Units : ~SentIn(ld, c, M + S, p) /\ ~HereIn(ld, fl, c, M + S, p)
       /\ CpAsync => \A c \in Ctas : WaitingIn(ld, fl, c, M + S) = Loads
       /\ LeaderFull(ld, fl, F, M + S) = State(1 - Turn(M, S), A, 0)
       /\ launch.ctas = 2 => OtherFull(ld, fl, M + S) =
            IF CpAsync THEN State(1 - Turn(M, S), launch.loads, 0) ELSE State(0, 1, 0)
  <2>1. PICK q \in Nat : q = M + AbStages BY <1>1
  <2>2. \A c \in Ctas, w \in Loads : ld[c][w].n \in Nat /\ ld[c][w].n <= q BY <1>3, <2>1 DEF Ahead
  <2>3. CpAsync /\ launch.ctas = 2 => F <= q BY <1>6, <2>1
  <2>4. /\ \A c \in Ctas, p \in Units : ~SentIn(ld, c, q, p) /\ ~HereIn(ld, fl, c, q, p)
        /\ CpAsync => \A c \in Ctas : WaitingIn(ld, fl, c, q) = Loads
    BY <2>2, NothingSent
  <2>5. /\ LeaderFull(ld, fl, F, q) = State(Turn(q, AbStages), AbArrivals(launch, Leader), 0)
        /\ launch.ctas = 2 => OtherFull(ld, fl, q) =
             IF CpAsync THEN State(Turn(q, AbStages), launch.loads, 0) ELSE State(0, 1, 0)
    BY <2>2, <2>3, NothingFull
  <2> QED BY <1>5, <2>1, <2>4, <2>5
<1>11. Ahead(ld, M + 1)
  <2> SUFFICES ASSUME NEW c \in Ctas, NEW w \in Loads PROVE M + 1 <= ld[c][w].n /\ ld[c][w].n <= M + 1 + S
    BY DEF Ahead
  <2>1. PICK p \in Units : Issuer(M, p) = w
    <3>1. CASE Gathers BY <3>1, UnitsAre, IssuerIs
    <3>2. CASE ~Gathers BY <3>2, UnitsAre, IssuerIs
    <3> QED BY <3>1, <3>2
  <2>2. M < ld[c][w].n BY <1>6, <2>1 DEF HereIn, SentIn
  <2>3. ld[c][w].n <= M + S /\ ld[c][w].n \in Nat BY <1>3 DEF Ahead
  <2> QED BY <1>1, <2>2, <2>3
<1>12. EmptyOK(new, M + 1)
  <2> SUFFICES ASSUME NEW d \in Ctas PROVE Settled(new[d].empty, M + 1, S) BY DEF EmptyOK
  <2>1. Settled(a[d].empty, M, S) BY <1>3 DEF EmptyOK
  <2> QED BY <1>1, <2>1, SettledArrive
<1>13. launch.loads \in Nat \ {0} BY LaunchIs
<1>14. LeaderFull(ld, fl, F, M + S) = LeaderFull(ld, fl, F, M) BY <1>6, <1>10
<1>15. LeaderOK(new, ld, fl, F, M + 1)
  <2> SUFFICES ASSUME NEW r \in Rounds(M + 1) PROVE new[Leader].full[r % S] = LeaderFull(ld, fl, F, r) BY DEF LeaderOK
  <2>1. CASE r \in Rounds(M) BY <1>2, <1>3, <2>1 DEF LeaderOK
  <2>2. CASE r = M + S BY <1>2, <1>5, <1>6, <1>14, <2>2
  <2> QED BY <1>4, <2>1, <2>2
<1>16. OtherOK(new, ld, fl, F, M + 1)
  <2> SUFFICES ASSUME launch.ctas = 2
               PROVE  /\ \A r \in Rounds(M + 1) : new[1].full[r % S] = OtherFull(ld, fl, r)
                      /\ CpAsync => /\ M + 1 <= F /\ F <= M + 1 + S
                                    /\ \A r \in Rounds(M + 1) : r < F => WaitingIn(ld, fl, 1, r) = {}
    BY DEF OtherOK
  <2>0. launch.ctas = 2 OBVIOUS
  <2>1. OtherFull(ld, fl, M + S) = OtherFull(ld, fl, M)
    <3>1. CASE CpAsync
      <4>1. WaitingIn(ld, fl, 1, M) = {} BY <1>6, <3>1
      <4>2. PICK n \in Nat \ {0} : n = launch.loads BY <1>13
      <4>3. Cardinality(WaitingIn(ld, fl, 1, M)) = 0 BY <4>1, FS_EmptySet
      <4>4. OtherFull(ld, fl, M) = State(1 - Turn(M, S), n, 0) BY <3>1, <4>2, <4>3 DEF OtherFull, Filling
      <4> QED BY <1>6, <1>10, <2>0, <3>1, <4>2, <4>4
    <3>2. CASE ~CpAsync BY <3>2 DEF OtherFull
    <3> QED BY <3>1, <3>2
  <2>2. ASSUME NEW r \in Rounds(M + 1) PROVE new[1].full[r % S] = OtherFull(ld, fl, r)
    <3>1. CASE r \in Rounds(M) BY <1>2, <1>3, <3>1 DEF OtherOK
    <3>2. CASE r = M + S
      <4>1. a[1].full[M % S] = OtherFull(ld, fl, M) BY <1>3, <1>4 DEF OtherOK
      <4> QED BY <1>2, <1>5, <2>1, <3>2, <4>1
    <3> QED BY <1>4, <3>1, <3>2
  <2>3. ASSUME CpAsync PROVE M + 1 <= F /\ F <= M + 1 + S BY <1>1, <1>6, <2>3
  <2>4. ASSUME CpAsync, NEW r \in Rounds(M + 1), r < F PROVE WaitingIn(ld, fl, 1, r) = {}
    <3>1. r # M + S BY <1>1, <1>6, <2>4
    <3>2. r \in Rounds(M) BY <1>4, <3>1
    <3> QED BY <1>3, <2>4, <3>2 DEF OtherOK
  <2> QED BY <2>2, <2>3, <2>4
<1>17. FlyingOK(ld, fl, M + 1)
  <2> SUFFICES ASSUME NEW f \in fl
               PROVE  \E c \in Ctas, q \in Rounds(M + 1), p \in Units : f = Flight(c, q, p) /\ SentIn(ld, c, q, p)
    BY DEF FlyingOK
  <2>1. PICK c \in Ctas, q \in Rounds(M), p \in Units : f = Flight(c, q, p) /\ SentIn(ld, c, q, p)
    BY <1>3 DEF FlyingOK
  <2>2. q # M BY <1>6, <2>1 DEF HereIn
  <2>3. q \in Rounds(M + 1) BY <1>1, <2>2 DEF Rounds
  <2> QED BY <2>1, <2>3
<1>18. DataOK(new, ld, fl, M + 1)
  <2> SUFFICES ASSUME NEW c \in Ctas, NEW q \in Rounds(M + 1), NEW p \in Units, HereIn(ld, fl, c, q, p),
                      NEW x \in PartsOf(p)
               PROVE  new[c].data[q % S][x] = At(launch, q)
    BY DEF DataOK
  <2>1. q # M + S BY <1>10
  <2>2. q \in Rounds(M) BY <1>4, <2>1
  <2> QED BY <1>3, <2>2 DEF DataOK
<1> QED BY <1>11, <1>12, <1>15, <1>16, <1>17, <1>18 DEF AbAt
-----------------------------------------------------------------------------
AbRing == RingOf(AbStages, [0..launch.loads -> Pair])
(* A barrier that is hit is a barrier.                                     *)
LEMMA HitBar ==
  ASSUME NEW b \in Bar, NEW count \in Int, NEW a \in Int, NEW z \in Int
  PROVE  Hit(b, count, a, z) \in Bar
<1>1. PICK y \in {0, 1}, p \in Int, x \in Int : b = State(y, p, x)
  <2>1. b = State(b.parity, b.pending, b.tx) /\ b.parity \in {0, 1} /\ b.pending \in Int /\ b.tx \in Int
    BY DEF Bar, State
  <2> QED BY <2>1
<1>2. Hit(b, count, a, z) = IF p - a = 0 /\ x + z = 0 THEN State(1 - y, count, 0) ELSE State(y, p - a, x + z)
  BY <1>1, HitIs
<1>3. State(1 - y, count, 0) \in Bar /\ State(y, p - a, x + z) \in Bar BY DEF State, Bar
<1> QED BY <1>2, <1>3

(* A write of a stage, and a hit of a barrier.                             *)
Stored(a, c, s, h) == [a EXCEPT ![c].data[s] = h]
Marked(a, c, s, b) == [a EXCEPT ![c].full[s] = b]
StoredTo(S, a, new, c, s, h) ==
  /\ \A d \in Ctas : new[d].empty = a[d].empty /\ new[d].full = a[d].full
  /\ \A d \in Ctas, i \in 0..S - 1 : new[d].data[i] = IF d = c /\ i = s THEN h ELSE a[d].data[i]
MarkedTo(S, a, new, c, s, b) ==
  /\ \A d \in Ctas : new[d].empty = a[d].empty /\ new[d].data = a[d].data
  /\ \A d \in Ctas, i \in 0..S - 1 : new[d].full[i] = IF d = c /\ i = s THEN b ELSE a[d].full[i]

(* A write of a stage, at each stage of each CTA ...                       *)
LEMMA DataWrites ==
  ASSUME NEW D, NEW S, NEW a \in [Ctas -> RingOf(S, D)], NEW c \in Ctas, NEW s \in 0..S - 1, NEW h \in D
  PROVE  /\ Stored(a, c, s, h) \in [Ctas -> RingOf(S, D)]
         /\ StoredTo(S, a, Stored(a, c, s, h), c, s, h)
<1>0. PICK new : new = Stored(a, c, s, h) OBVIOUS
<1>1. PICK r \in RingOf(S, D) : r = a[c] OBVIOUS
<1>2. PICK x : x = [r EXCEPT !.data[s] = h] OBVIOUS
<1>3. /\ x \in RingOf(S, D) /\ x.full = r.full /\ x.empty = r.empty
      /\ \A i \in 0..S - 1 : x.data[i] = IF i = s THEN h ELSE r.data[i]
  BY <1>1, <1>2 DEF RingOf
<1>4. new = [a EXCEPT ![c] = x] BY <1>0, <1>1, <1>2 DEF Stored
<1>5. new \in [Ctas -> RingOf(S, D)] /\ \A d \in Ctas : new[d] = IF d = c THEN x ELSE a[d] BY <1>3, <1>4
<1>6. StoredTo(S, a, new, c, s, h) BY <1>1, <1>3, <1>5 DEF StoredTo
<1> QED BY <1>0, <1>5, <1>6

(* ... a hit of a barrier ...                                              *)
LEMMA FullWrites ==
  ASSUME NEW D, NEW S, NEW a \in [Ctas -> RingOf(S, D)], NEW c \in Ctas, NEW s \in 0..S - 1, NEW b \in Bar
  PROVE  /\ Marked(a, c, s, b) \in [Ctas -> RingOf(S, D)]
         /\ MarkedTo(S, a, Marked(a, c, s, b), c, s, b)
<1>0. PICK new : new = Marked(a, c, s, b) OBVIOUS
<1>1. PICK r \in RingOf(S, D) : r = a[c] OBVIOUS
<1>2. PICK x : x = [r EXCEPT !.full[s] = b] OBVIOUS
<1>3. /\ x \in RingOf(S, D) /\ x.data = r.data /\ x.empty = r.empty
      /\ \A i \in 0..S - 1 : x.full[i] = IF i = s THEN b ELSE r.full[i]
  BY <1>1, <1>2 DEF RingOf
<1>4. new = [a EXCEPT ![c] = x] BY <1>0, <1>1, <1>2 DEF Marked
<1>5. new \in [Ctas -> RingOf(S, D)] /\ \A d \in Ctas : new[d] = IF d = c THEN x ELSE a[d] BY <1>3, <1>4
<1>6. MarkedTo(S, a, new, c, s, b) BY <1>1, <1>3, <1>5 DEF MarkedTo
<1> QED BY <1>0, <1>5, <1>6

(* ... and both.                                                           *)
LEMMA AbWrites ==
  ASSUME launch \in Launches, NEW a \in [Ctas -> AbRing], NEW c \in Ctas, NEW e \in Ctas,
         NEW s \in 0..AbStages - 1, NEW h \in [0..launch.loads -> Pair], NEW b \in Bar,
         NEW new, new = Marked(Stored(a, c, s, h), e, s, b)
  PROVE  AbTo(a, new, c, s, h, e, b) /\ new \in [Ctas -> AbRing]
<1> DEFINE mid == Stored(a, c, s, h)
<1>1. mid \in [Ctas -> AbRing] /\ StoredTo(AbStages, a, mid, c, s, h) BY DataWrites DEF AbRing
<1> HIDE DEF mid
<1>2. new \in [Ctas -> AbRing] /\ MarkedTo(AbStages, mid, new, e, s, b) BY <1>1, FullWrites DEF AbRing, mid
<1>3. AbTo(a, new, c, s, h, e, b)
  <2>1. \A d \in Ctas : new[d].empty = a[d].empty BY <1>1, <1>2 DEF StoredTo, MarkedTo
  <2>2. ASSUME NEW d \in Ctas, NEW i \in 0..AbStages - 1
        PROVE  /\ new[d].data[i] = IF d = c /\ i = s THEN h ELSE a[d].data[i]
               /\ new[d].full[i] = IF d = e /\ i = s THEN b ELSE a[d].full[i]
    <3>1. new[d].data[i] = mid[d].data[i] /\ mid[d].full = a[d].full BY <1>1, <1>2 DEF StoredTo, MarkedTo
    <3>2. mid[d].data[i] = IF d = c /\ i = s THEN h ELSE a[d].data[i] BY <1>1 DEF StoredTo
    <3>3. new[d].full[i] = IF d = e /\ i = s THEN b ELSE mid[d].full[i] BY <1>2 DEF MarkedTo
    <3> QED BY <3>1, <3>2, <3>3
  <2> QED BY <2>1, <2>2 DEF AbTo
<1> QED BY <1>2, <1>3
-----------------------------------------------------------------------------
AbNow == AbAt(ab, load, flying, OtherAt(mma), mma[Leader].n)
AbThen == AbAt(ab', load', flying', OtherAt(mma'), mma'[Leader].n) /\ ab' \in [Ctas -> AbRing]

(* What the ring and its positions range over.                             *)
LEMMA AbTyped ==
  ASSUME Types, RingTypes, Places
  PROVE  /\ launch \in Launches /\ ab \in [Ctas -> AbRing] /\ AbStages \in Nat \ {0}
         /\ Leader \in Ctas /\ Leader = 0 /\ (launch.ctas = 2 => 1 \in Ctas) /\ Ctas \subseteq {0, 1}
         /\ mma[Leader].n \in Nat /\ OtherAt(mma) \in Nat
         /\ \A c \in Ctas : ab[c] \in AbRing /\ DOMAIN ab[c].full = 0..AbStages - 1 /\ DOMAIN ab[c].empty = 0..AbStages - 1
         /\ \A c \in Ctas, s \in 0..AbStages - 1 : ab[c].full[s] \in Bar /\ ab[c].data[s] \in [0..launch.loads -> Pair]
         /\ \A c \in Ctas, w \in Loads : load[c][w].n \in Nat
         /\ \A c : AbArrivals(launch, c) \in Nat
<1>1. launch \in Launches /\ ab \in [Ctas -> AbRing] BY DEF Types, RingTypes, AbRing
<1>2. AbStages \in Nat \ {0} BY <1>1, Depths
<1>3. Leader \in Ctas /\ Leader = 0 /\ (launch.ctas = 2 => 1 \in Ctas) /\ Ctas \subseteq {0, 1} BY <1>1, CtasAre
<1>4. \A c \in Ctas : mma[c].n \in Nat BY DEF Types, MmaRec
<1>5. OtherAt(mma) \in Nat BY <1>3, <1>4 DEF OtherAt
<1>6. \A c \in Ctas : ab[c] \in AbRing BY <1>1
<1>7. \A c \in Ctas : DOMAIN ab[c].full = 0..AbStages - 1 /\ DOMAIN ab[c].empty = 0..AbStages - 1
  BY <1>6 DEF AbRing, RingOf
<1>8. \A c \in Ctas, s \in 0..AbStages - 1 : ab[c].full[s] \in Bar /\ ab[c].data[s] \in [0..launch.loads -> Pair]
  BY <1>6 DEF AbRing, RingOf
<1>9. \A c \in Ctas, w \in Loads : load[c][w].n \in Nat
  <2>1. \A c \in Ctas, w \in Loads : load[c][w] \in LoadRec(launch) BY DEF Types
  <2> QED BY <2>1 DEF LoadRec
<1>10. ASSUME NEW c PROVE AbArrivals(launch, c) \in Nat
  <2>1. launch.loads \in Nat BY <1>1, LaunchIs
  <2> QED BY <2>1 DEF AbArrivals
<1> QED BY <1>1, <1>2, <1>3, <1>4, <1>5, <1>6, <1>7, <1>8, <1>9, <1>10

(* The other CTA's MMA warp forwards.                                      *)
LEMMA ForwardKeeps ==
  ASSUME Types, RingTypes, Places, AbNow, NEW c \in Ctas, Forward(c)
  PROVE  AbThen
<1>1. /\ launch \in Launches /\ ab \in [Ctas -> AbRing] /\ AbStages \in Nat \ {0}
      /\ Leader \in Ctas /\ Leader = 0 /\ (launch.ctas = 2 => 1 \in Ctas) /\ Ctas \subseteq {0, 1}
      /\ mma[Leader].n \in Nat
      /\ \A d \in Ctas : ab[d] \in AbRing /\ DOMAIN ab[d].full = 0..AbStages - 1
      /\ \A d \in Ctas, s \in 0..AbStages - 1 : ab[d].full[s] \in Bar
      /\ AbArrivals(launch, Leader) \in Nat
  BY AbTyped
<1>2. /\ MmaMoves(c) /\ c # Leader /\ CpAsync /\ mma[c].n \in Nat /\ IsFull(ab[c].full, mma[c].n)
      /\ ab' = [ab EXCEPT ![Leader].full = Arrive(ab[Leader].full, mma[c].n, AbArrivals(launch, Leader))]
      /\ mma'[c].n = mma[c].n + 1
  BY ForwardTo
<1>3. c = 1 /\ launch.ctas = 2 BY <1>1, <1>2, CtasAre
<1>4. load' = load /\ flying' = flying BY DEF Forward, MmaRest
<1>5. mma'[Leader] = mma[Leader] /\ launch' = launch BY <1>1, <1>2 DEF MmaMoves, Moved
<1>6. PICK F \in Nat : F = mma[c].n BY <1>2
<1>7. OtherAt(mma) = F /\ OtherAt(mma') = F + 1 BY <1>2, <1>3, <1>6 DEF OtherAt
<1>8. PICK s : s = F % AbStages OBVIOUS
<1>9. s \in 0..AbStages - 1 BY <1>1, <1>8, Lap
<1>10. PICK b : b = Hit(ab[Leader].full[s], AbArrivals(launch, Leader), 1, 0) OBVIOUS
<1>11. b \in Bar
  <2>1. ab[Leader].full[s] \in Bar /\ AbArrivals(launch, Leader) \in Int BY <1>1, <1>9
  <2> QED BY <1>10, <2>1, HitBar
<1>12. ab' = Marked(ab, Leader, s, b)
  <2>1. PICK bars : bars = ab[Leader].full OBVIOUS
  <2>2. PICK n : n = AbArrivals(launch, Leader) OBVIOUS
  <2>3. DOMAIN bars = 0..AbStages - 1 BY <1>1, <2>1
  <2>4. Arrive(bars, F, n) = [bars EXCEPT ![F % AbStages] = Hit(bars[F % AbStages], n, 1, 0)] BY <1>1, <2>3, StageIs
  <2>5. Arrive(bars, F, n) = [bars EXCEPT ![s] = b] BY <1>8, <1>10, <2>1, <2>2, <2>4
  <2>6. ab' = [ab EXCEPT ![Leader].full = [bars EXCEPT ![s] = b]] BY <1>2, <1>6, <2>1, <2>2, <2>5
  <2> QED BY <2>1, <2>6 DEF Marked
<1>13. ab' \in [Ctas -> AbRing] /\ MarkedTo(AbStages, ab, ab', Leader, s, b)
  BY <1>1, <1>9, <1>11, <1>12, FullWrites DEF AbRing
<1>14. AbTo(ab, ab', Leader, s, ab[Leader].data[s], Leader, b) BY <1>13 DEF AbTo, MarkedTo
<1>15. PICK M \in Nat : M = mma[Leader].n BY <1>1
<1>16. AbAt(ab, load, flying, F, M) BY <1>7, <1>15 DEF AbNow
<1>17. ab[1].full \in [0..AbStages - 1 -> Bar] BY <1>1, <1>3 DEF AbRing, RingOf
<1>18. PICK new : new = ab' OBVIOUS
<1>19. AbAt(new, load, flying, F + 1, M)
  <2>1. IsFull(ab[1].full, F) BY <1>2, <1>3, <1>6
  <2>2. AbTo(ab, new, Leader, F % AbStages, ab[Leader].data[F % AbStages], Leader, b) BY <1>8, <1>14, <1>18
  <2>3. b = Hit(ab[Leader].full[F % AbStages], AbArrivals(launch, Leader), 1, 0) BY <1>8, <1>10
  <2> QED BY <1>1, <1>2, <1>3, <1>16, <1>17, <2>1, <2>2, <2>3, ForwardAt
<1> QED BY <1>4, <1>5, <1>7, <1>13, <1>15, <1>18, <1>19 DEF AbThen

(* The leader multiplies.                                                  *)
LEMMA MultiplyKeeps ==
  ASSUME Types, RingTypes, Places, AbNow, Multiply
  PROVE  AbThen
<1>1. /\ launch \in Launches /\ ab \in [Ctas -> AbRing] /\ AbStages \in Nat \ {0}
      /\ Leader \in Ctas /\ Leader = 0 /\ (launch.ctas = 2 => 1 \in Ctas) /\ Ctas \subseteq {0, 1}
      /\ mma[Leader].n \in Nat /\ OtherAt(mma) \in Nat
      /\ \A d \in Ctas : ab[d] \in AbRing /\ DOMAIN ab[d].full = 0..AbStages - 1
      /\ \A d \in Ctas, w \in Loads : load[d][w].n \in Nat
  BY AbTyped
<1>2. MmaMoves(Leader) /\ IsFull(ab[Leader].full, mma[Leader].n) /\ mma'[Leader].n = mma[Leader].n + 1 BY MultiplyTo
<1>3. load' = load /\ flying' = flying /\ ab' = [d \in Ctas |-> [ab[d] EXCEPT !.empty = Arrive(@, mma[Leader].n, 1)]]
  BY DEF Multiply, MmaRest
<1>4. PICK M \in Nat, F \in Nat : M = mma[Leader].n /\ F = OtherAt(mma) BY <1>1
<1>5. OtherAt(mma') = F
  <2>1. launch.ctas = 2 => mma'[1] = mma[1] /\ launch' = launch BY <1>1, <1>2 DEF MmaMoves, Moved
  <2> QED BY <1>4, <2>1 DEF OtherAt
<1>6. AbAt(ab, load, flying, F, M) BY <1>4 DEF AbNow
<1>7. ASSUME NEW d \in Ctas
      PROVE  /\ ab'[d] \in AbRing /\ ab'[d].full = ab[d].full /\ ab'[d].data = ab[d].data
             /\ ab'[d].empty = Arrive(ab[d].empty, M, 1)
  <2>1. PICK e : e = Arrive(ab[d].empty, M, 1) OBVIOUS
  <2>2. Settled(ab[d].empty, M, AbStages) BY <1>6 DEF AbAt, EmptyOK
  <2>3. Settled(e, M + 1, AbStages) BY <1>1, <2>1, <2>2, SettledArrive
  <2>4. e \in [0..AbStages - 1 -> Bar] BY <2>3 DEF Settled
  <2>5. ab'[d] = [ab[d] EXCEPT !.empty = e] BY <1>3, <1>4, <2>1
  <2>6. PICK r \in AbRing : r = ab[d] BY <1>1
  <2>7. [r EXCEPT !.empty = e] \in AbRing /\ [r EXCEPT !.empty = e].full = r.full
        /\ [r EXCEPT !.empty = e].data = r.data /\ [r EXCEPT !.empty = e].empty = e
    BY <2>4, <2>6 DEF AbRing, RingOf
  <2> QED BY <2>1, <2>5, <2>6, <2>7
<1>8. ab' \in [Ctas -> AbRing] BY <1>3, <1>7
<1>9. PICK new : new = ab' OBVIOUS
<1>10. AbAt(new, load, flying, F, M + 1) BY <1>1, <1>2, <1>4, <1>6, <1>7, <1>9, MultiplyAt
<1> QED BY <1>2, <1>3, <1>4, <1>5, <1>8, <1>9, <1>10 DEF AbThen
-----------------------------------------------------------------------------
(* What a stage holds when some of its parts are written.                  *)
LEMMA HoldsIs ==
  ASSUME NEW n, NEW x \in [0..n -> Pair], NEW P, NEW d \in Pair
  PROVE  /\ Holds(x, P, d) \in [0..n -> Pair]
         /\ \A i \in 0..n : /\ i \in P => Holds(x, P, d)[i] = d
                            /\ i \notin P => Holds(x, P, d)[i] = x[i]
BY DEF Holds

(* A load lands.                                                           *)
LEMMA LandKeeps ==
  ASSUME Types, RingTypes, Places, AbNow, NEW f \in flying, Land(f)
  PROVE  AbThen
<1>1. /\ launch \in Launches /\ ab \in [Ctas -> AbRing] /\ AbStages \in Nat \ {0}
      /\ Leader \in Ctas
      /\ mma[Leader].n \in Nat /\ OtherAt(mma) \in Nat
      /\ \A d \in Ctas, s \in 0..AbStages - 1 : ab[d].full[s] \in Bar /\ ab[d].data[s] \in [0..launch.loads -> Pair]
      /\ \A d : AbArrivals(launch, d) \in Nat
  BY AbTyped
<1>2. PICK M \in Nat, F \in Nat : M = mma[Leader].n /\ F = OtherAt(mma) BY <1>1
<1>3. AbAt(ab, load, flying, F, M) BY <1>2 DEF AbNow
<1>4. PICK c \in Ctas, q \in Rounds(M), p \in Units : f = Flight(c, q, p) /\ SentIn(load, c, q, p)
  BY <1>3 DEF AbAt, FlyingOK
<1>5. PICK s : s = q % AbStages OBVIOUS
<1>6. s \in 0..AbStages - 1
  <2>1. q \in Nat BY DEF Rounds
  <2> QED BY <1>1, <1>5, <2>1, Lap
<1>7. f.cta = c /\ f.stage = s /\ f.parts = PartsOf(p) /\ f.data = At(launch, q) /\ (f.tma <=> ByTma(p))
  BY <1>4, <1>5 DEF Flight
<1>8. PICK h : h = Holds(ab[c].data[s], PartsOf(p), At(launch, q)) OBVIOUS
<1>9. /\ h \in [0..launch.loads -> Pair]
      /\ \A x \in PartsOf(p) : h[x] = At(launch, q)
      /\ \A x \in 0..launch.loads : x \notin PartsOf(p) => h[x] = ab[c].data[s][x]
  <2>1. At(launch, q) \in Pair BY <1>1, AtIs
  <2>2. ab[c].data[s] \in [0..launch.loads -> Pair] BY <1>1, <1>6
  <2>3. PartsOf(p) \subseteq 0..launch.loads BY <1>1, UnitsAre
  <2> QED BY <1>8, <2>1, <2>2, <2>3, HoldsIs
<1>10. PICK e : e = IF ByTma(p) THEN Leader ELSE c OBVIOUS
<1>11. PICK b : b = IF ByTma(p) THEN Hit(ab[Leader].full[s], AbArrivals(launch, Leader), 0, -1)
                    ELSE Hit(ab[c].full[s], AbArrivals(launch, c), 1, 0) OBVIOUS
<1>12. e \in Ctas /\ b \in Bar
  <2>1. Hit(ab[Leader].full[s], AbArrivals(launch, Leader), 0, -1) \in Bar
    <3>1. ab[Leader].full[s] \in Bar /\ AbArrivals(launch, Leader) \in Int BY <1>1, <1>6
    <3> QED BY <3>1, HitBar
  <2>2. Hit(ab[c].full[s], AbArrivals(launch, c), 1, 0) \in Bar
    <3>1. ab[c].full[s] \in Bar /\ AbArrivals(launch, c) \in Int BY <1>1, <1>6
    <3> QED BY <3>1, HitBar
  <2> QED BY <1>1, <1>10, <1>11, <2>1, <2>2
<1>13. ab' = Marked(Stored(ab, c, s, h), e, s, b)
  <2>1. PICK landed : landed = Stored(ab, c, s, h) OBVIOUS
  <2>2. \A d \in Ctas : landed[d].full = ab[d].full BY <1>1, <1>6, <1>9, <2>1, DataWrites DEF AbRing, StoredTo
  <2>3. [ab EXCEPT ![f.cta].data[f.stage] = Holds(@, f.parts, f.data)] = landed
    BY <1>7, <1>8, <2>1 DEF Stored
  <2>4. ab' = IF f.tma
              THEN [landed EXCEPT ![Leader].full[f.stage] = Hit(@, AbArrivals(launch, Leader), 0, -1)]
              ELSE [landed EXCEPT ![f.cta].full[f.stage] = Hit(@, AbArrivals(launch, f.cta), 1, 0)]
    BY <2>3 DEF Land
  <2>5. CASE ByTma(p)
    <3>1. ab' = [landed EXCEPT ![Leader].full[s] = Hit(landed[Leader].full[s], AbArrivals(launch, Leader), 0, -1)]
      BY <1>7, <2>4, <2>5
    <3>2. Hit(landed[Leader].full[s], AbArrivals(launch, Leader), 0, -1) = b BY <1>1, <1>11, <2>2, <2>5
    <3> QED BY <1>10, <2>1, <2>5, <3>1, <3>2 DEF Marked
  <2>6. CASE ~ByTma(p)
    <3>1. ab' = [landed EXCEPT ![c].full[s] = Hit(landed[c].full[s], AbArrivals(launch, c), 1, 0)]
      BY <1>7, <2>4, <2>6
    <3>2. Hit(landed[c].full[s], AbArrivals(launch, c), 1, 0) = b BY <1>11, <2>2, <2>6
    <3> QED BY <1>10, <2>1, <2>6, <3>1, <3>2 DEF Marked
  <2> QED BY <2>5, <2>6
<1>14. PICK new : new = ab' OBVIOUS
<1>15. AbTo(ab, new, c, s, h, e, b) /\ new \in [Ctas -> AbRing] BY <1>1, <1>6, <1>9, <1>12, <1>13, <1>14, AbWrites
<1>16. PICK nfl : nfl = flying \ {f} OBVIOUS
<1>17. Lands(load, flying, nfl, F, M, c, q, p)
  <2>1. Flight(c, q, p) \in flying /\ nfl = flying \ {Flight(c, q, p)} BY <1>4, <1>16
  <2> QED BY <1>1, <1>4, <2>1, LandsCounted
<1>18. AbAt(new, load, nfl, F, M)
  <2>1. AbTo(ab, new, c, q % AbStages, h, e, b) BY <1>5, <1>15
  <2>2. nfl \subseteq flying BY <1>16
  <2>3. \A x \in 0..launch.loads : x \notin PartsOf(p) => h[x] = ab[c].data[q % AbStages][x] BY <1>5, <1>9
  <2>4. b = IF ByTma(p) THEN Hit(ab[Leader].full[q % AbStages], AbArrivals(launch, Leader), 0, -1)
            ELSE Hit(ab[c].full[q % AbStages], AbArrivals(launch, c), 1, 0) BY <1>5, <1>11
  <2> QED BY <1>1, <1>3, <1>9, <1>10, <1>17, <2>1, <2>2, <2>3, <2>4, LandAt
<1>19. load' = load /\ mma' = mma /\ flying' = nfl /\ launch' = launch BY <1>16 DEF Land, procs
<1> QED BY <1>2, <1>14, <1>15, <1>18, <1>19 DEF AbThen, OtherAt
-----------------------------------------------------------------------------
Issued(c, q, w) == {Flight(c, q, p) : p \in Mine(q, w)}
(* A load warp issues its units of the k-tile at its position.             *)
Before(c, me, q) ==
  /\ me.t \in 1..Count(launch) /\ me.k \in Nat /\ At(launch, q) = <<me.t, me.k>>
  /\ Stage(ab[c].full, me.n) = q % AbStages
  /\ launch.gather = "m" => me.got = <<me.t, 0>>
  /\ launch.gather = "k" => me.got = <<me.t, me.k>>

(* What Fetch issues are the flights of those units.                       *)
LEMMA IssuesMine ==
  ASSUME launch \in Launches, NEW c, NEW w \in Loads, NEW me, NEW q, Before(c, me, q),
         NEW I, I = Issues(c, w, me, Arms(w, me.k))
  PROVE  (Arms(w, me.k) <=> Armer(q) = w) /\ I = Issued(c, q, w)
<1>0. PICK t \in 1..Count(launch), k \in Nat :
        /\ At(launch, q) = <<t, k>> /\ me.t = t /\ me.k = k /\ Stage(ab[c].full, me.n) = q % AbStages
        /\ launch.gather = "m" => me.got = <<t, 0>>
        /\ launch.gather = "k" => me.got = <<t, k>>
  BY DEF Before
<1>1. launch.gather \in {"none", "m", "k"} /\ launch.tmaGather \in BOOLEAN BY LaunchIs
<1>2. Armer(q) = k % launch.loads BY <1>0 DEF Armer
<1>3. Arms(w, me.k) <=> Armer(q) = w BY <1>0, <1>2 DEF Arms
<1>4. PartA(me) = <<t, k>>
  <2>1. CASE launch.gather = "none" BY <1>0, <2>1 DEF PartA
  <2>2. CASE launch.gather = "m" BY <1>0, <2>2 DEF PartA
  <2>3. CASE launch.gather = "k" BY <1>0, <2>3 DEF PartA
  <2> QED BY <1>1, <2>1, <2>2, <2>3
<1> DEFINE fl(parts, tma) == [cta |-> c, stage |-> q % AbStages, parts |-> parts, data |-> <<t, k>>, tma |-> tma]
<1>5. I =
        IF ~Gathers THEN {fl({w, PartB}, TRUE)}
        ELSE {fl({w}, launch.tmaGather)} \cup (IF Arms(w, me.k) THEN {fl({PartB}, TRUE)} ELSE {})
  BY <1>0, <1>4 DEF Issues
<1>6. \A p : Flight(c, q, p) = fl(PartsOf(p), ByTma(p)) BY <1>0 DEF Flight
<1>7. \A q1 : Armer(q1) \in Loads /\ Issuer(q1, PartB) = Armer(q1) BY IssuerIs
<1>8. CASE ~Gathers
  <2>1. Units = {PartB} /\ Loads = {0} BY <1>8, UnitsAre
  <2>2. w = 0 /\ Mine(q, w) = {PartB} BY <1>7, <2>1 DEF Mine
  <2>3. PartsOf(PartB) = {w, PartB} /\ (ByTma(PartB) = TRUE) BY <1>8, <2>2 DEF PartsOf, ByTma
  <2>4. Flight(c, q, PartB) = fl({w, PartB}, TRUE) BY <1>6, <2>3
  <2>5. {Flight(c, q, p) : p \in Mine(q, w)} = {Flight(c, q, PartB)} BY <2>2
  <2> QED BY <1>3, <1>5, <1>8, <2>4, <2>5 DEF Issued
<1>9. CASE Gathers
  <2>1. Units = Loads \cup {PartB} /\ PartB \notin Loads BY <1>9, UnitsAre
  <2>2. \A p \in Loads : Issuer(q, p) = p BY IssuerIs
  <2>3. Mine(q, w) = {w} \cup (IF Armer(q) = w THEN {PartB} ELSE {}) BY <1>7, <2>1, <2>2 DEF Mine
  <2>4. PartsOf(w) = {w} /\ PartsOf(PartB) = {PartB} BY <1>9 DEF PartsOf
  <2>5. Flight(c, q, w) = fl({w}, launch.tmaGather)
    <3>1. w # PartB BY <2>1
    <3>2. ByTma(w) = launch.tmaGather
      <4>1. CASE launch.tmaGather = TRUE BY <4>1 DEF ByTma
      <4>2. CASE launch.tmaGather = FALSE BY <1>9, <3>1, <4>2 DEF ByTma
      <4> QED BY <1>1, <4>1, <4>2
    <3> QED BY <1>6, <2>4, <3>2
  <2>6. Flight(c, q, PartB) = fl({PartB}, TRUE)
    <3>1. ByTma(PartB) = TRUE BY DEF ByTma
    <3> QED BY <1>6, <2>4, <3>1
  <2> HIDE DEF fl
  <2>7. {Flight(c, q, p) : p \in Mine(q, w)} = {Flight(c, q, w)} \cup (IF Armer(q) = w THEN {Flight(c, q, PartB)} ELSE {})
    <3>1. CASE Armer(q) = w
      <4>1. Mine(q, w) = {w, PartB} BY <2>3, <3>1
      <4>2. {Flight(c, q, p) : p \in Mine(q, w)} = {Flight(c, q, w), Flight(c, q, PartB)} BY <4>1
      <4> QED BY <3>1, <4>2
    <3>2. CASE Armer(q) # w
      <4>1. Mine(q, w) = {w} BY <2>3, <3>2
      <4>2. {Flight(c, q, p) : p \in Mine(q, w)} = {Flight(c, q, w)} BY <4>1
      <4> QED BY <3>2, <4>2
    <3> QED BY <3>1, <3>2
  <2> QED BY <1>3, <1>5, <1>9, <2>5, <2>6, <2>7 DEF Issued
<1> QED BY <1>3, <1>8, <1>9
-----------------------------------------------------------------------------
(* A load warp fetches.                                                    *)
LEMMA FetchKeeps ==
  ASSUME Types, RingTypes, Places, AbNow, NEW c \in Ctas, NEW w \in Loads, Fetch(c, w)
  PROVE  AbThen
<1>1. /\ launch \in Launches /\ ab \in [Ctas -> AbRing] /\ AbStages \in Nat \ {0}
      /\ Leader \in Ctas
      /\ mma[Leader].n \in Nat /\ OtherAt(mma) \in Nat
      /\ \A d \in Ctas : DOMAIN ab[d].full = 0..AbStages - 1 /\ DOMAIN ab[d].empty = 0..AbStages - 1
      /\ \A d \in Ctas, s \in 0..AbStages - 1 : ab[d].full[s] \in Bar /\ ab[d].data[s] \in [0..launch.loads -> Pair]
      /\ \A d \in Ctas, v \in Loads : load[d][v].n \in Nat
      /\ \A d : AbArrivals(launch, d) \in Nat
  BY AbTyped
<1>2. PICK M \in Nat, F \in Nat : M = mma[Leader].n /\ F = OtherAt(mma) BY <1>1
<1>3. AbAt(ab, load, flying, F, M) BY <1>2 DEF AbNow
<1>4. PICK me \in LoadRec(launch) : me = load[c][w] BY DEF Types
<1>5. /\ LoadMoves(c, w) /\ me.t \in 1..Count(launch) /\ me.k < KOf(launch, me.t)
      /\ me.n = KBefore(launch)[me.t] + me.k
      /\ launch.gather = "m" => me.got = <<me.t, 0>>
      /\ launch.gather = "k" => me.got = <<me.t, me.k>>
      /\ load'[c][w].n = me.n + 1
  BY <1>4, FetchTo
<1>6. PICK t \in 1..Count(launch), k \in Nat : t = me.t /\ k = me.k BY <1>5 DEF LoadRec
<1>7. PICK q \in Nat : q = me.n BY DEF LoadRec
<1>8. At(launch, q) = <<t, k>>
  <2>1. At(launch, KBefore(launch)[t] + k) = <<t, k>> BY <1>1, <1>5, <1>6, AtIs
  <2> QED BY <1>5, <1>6, <1>7, <2>1
<1>9. q \in Rounds(M)
  <2>1. M <= q /\ q <= M + AbStages BY <1>3, <1>4, <1>7 DEF AbAt, Ahead
  <2>2. Settled(ab[c].empty, M, AbStages) BY <1>3 DEF AbAt, EmptyOK
  <2>3. PICK bars : bars = ab[c].empty OBVIOUS
  <2>4. IsFree(bars, q) BY <1>4, <1>7, <2>3 DEF Fetch
  <2>5. q < M + AbStages BY <1>1, <2>1, <2>2, <2>3, <2>4, SettledSees
  <2> QED BY <1>1, <2>1, <2>5 DEF Rounds
<1>10. PICK s : s = q % AbStages OBVIOUS
<1>11. s \in 0..AbStages - 1 BY <1>1, <1>10, Lap
<1>12. Stage(ab[c].full, me.n) = s
  <2>1. PICK bars : bars = ab[c].full OBVIOUS
  <2>2. DOMAIN bars = 0..AbStages - 1 BY <1>1, <2>1
  <2>3. Stage(bars, q) = q % AbStages BY <1>1, <2>2, StageIs
  <2> QED BY <1>7, <1>10, <2>1, <2>3
<1>13. PICK I : I = Issues(c, w, me, Arms(w, me.k)) OBVIOUS
<1>14. (Arms(w, me.k) <=> Armer(q) = w) /\ I = {Flight(c, q, p) : p \in Mine(q, w)}
  <2>1. Before(c, me, q) BY <1>5, <1>6, <1>8, <1>10, <1>12 DEF Before
  <2>2. (Arms(w, me.k) <=> Armer(q) = w) /\ I = Issued(c, q, w) BY <1>1, <1>13, <2>1, IssuesMine
  <2> QED BY <2>2 DEF Issued
<1>15. PICK P : P = UNION {f.parts : f \in I} OBVIOUS
<1>16. \A x : (\A p \in Mine(q, w) : x \notin PartsOf(p)) => x \notin P
  <2> SUFFICES ASSUME NEW x, x \in P PROVE \E p \in Mine(q, w) : x \in PartsOf(p) OBVIOUS
  <2>1. PICK f \in I : x \in f.parts BY <1>15
  <2>2. PICK p \in Mine(q, w) : f = Flight(c, q, p) BY <1>14
  <2>3. f.parts = PartsOf(p) BY <2>2 DEF Flight
  <2> QED BY <2>1, <2>2, <2>3
<1>17. PICK h : h = Holds(ab[c].data[s], P, Nothing) OBVIOUS
<1>18. /\ h \in [0..launch.loads -> Pair]
       /\ \A x \in 0..launch.loads : x \notin P => h[x] = ab[c].data[s][x]
  <2>1. Nothing \in Pair BY DEF Nothing, Pair
  <2>2. ab[c].data[s] \in [0..launch.loads -> Pair] BY <1>1, <1>11
  <2> QED BY <1>17, <2>1, <2>2, HoldsIs
<1>19. PICK b : b = IF c = Leader /\ Armer(q) = w THEN Hit(ab[c].full[s], AbArrivals(launch, Leader), 1, TxParts)
                    ELSE ab[c].full[s] OBVIOUS
<1>20. b \in Bar
  <2>1. ab[c].full[s] \in Bar /\ AbArrivals(launch, Leader) \in Int BY <1>1, <1>11
  <2>2. TxParts \in Int BY <1>1, TxPartsAre
  <2>3. Hit(ab[c].full[s], AbArrivals(launch, Leader), 1, TxParts) \in Bar BY <2>1, <2>2, HitBar
  <2> QED BY <1>19, <2>1, <2>3
<1>21. ab' = Marked(Stored(ab, c, s, h), c, s, b)
  <2>1. PICK mid : mid = Stored(ab, c, s, h) OBVIOUS
  <2>2. mid[c].full = ab[c].full BY <1>1, <1>11, <1>18, <2>1, DataWrites DEF AbRing, StoredTo
  <2>3. ab' = [ab EXCEPT ![c].data[s] = Holds(@, P, Nothing),
                 ![c].full[s] = IF Arms(w, me.k) /\ c = Leader THEN Hit(@, AbArrivals(launch, c), 1, TxParts) ELSE @]
    BY <1>4, <1>12, <1>13, <1>15 DEF Fetch
  <2>4. [ab EXCEPT ![c].data[s] = Holds(@, P, Nothing)] = mid BY <1>17, <2>1 DEF Stored
  <2>5. ab' = [mid EXCEPT ![c].full[s] = IF Arms(w, me.k) /\ c = Leader THEN Hit(@, AbArrivals(launch, c), 1, TxParts) ELSE @]
    BY <2>3, <2>4
  <2>6. ab' = [mid EXCEPT ![c].full[s] = b]
    <3>1. b = IF Arms(w, me.k) /\ c = Leader THEN Hit(mid[c].full[s], AbArrivals(launch, c), 1, TxParts) ELSE mid[c].full[s]
      BY <1>14, <1>19, <2>2
    <3> QED BY <2>5, <3>1
  <2> QED BY <2>1, <2>6 DEF Marked
<1>22. PICK new : new = ab' OBVIOUS
<1>23. AbTo(ab, new, c, s, h, c, b) /\ new \in [Ctas -> AbRing] BY <1>1, <1>11, <1>18, <1>20, <1>21, <1>22, AbWrites
<1>24. PICK nld : nld = load' OBVIOUS
<1>25. PICK nfl : nfl = flying \cup I OBVIOUS
<1>26. nld[c][w].n = q + 1 /\ \A d \in Ctas, v \in Loads : ~(d = c /\ v = w) => nld[d][v].n = load[d][v].n
  BY <1>5, <1>7, <1>24 DEF LoadMoves
<1>27. nfl = flying \cup {Flight(c, q, p) : p \in Mine(q, w)} BY <1>14, <1>25
<1>28. q = load[c][w].n BY <1>4, <1>7
<1>29. Sends(load, flying, nld, nfl, M, c, w, q) BY <1>1, <1>9, <1>26, <1>27, <1>28, SendsThem
<1>30. Arming(load, flying, nld, nfl, F, M, c, w, q) BY <1>1, <1>9, <1>29, SendsArm
<1>31. Ahead(nld, M) /\ FlyingOK(nld, nfl, M)
  <2>1. Ahead(load, M) /\ FlyingOK(load, flying, M) BY <1>3 DEF AbAt
  <2> QED BY <1>1, <1>9, <1>26, <1>27, <1>29, <2>1, SendsAhead
<1>32. AbAt(new, nld, nfl, F, M)
  <2>1. \A x \in 0..launch.loads : (\A p \in Mine(q, w) : x \notin PartsOf(p)) => h[x] = ab[c].data[q % AbStages][x]
    BY <1>10, <1>16, <1>18
  <2>2. b = IF c = Leader /\ Armer(q) = w THEN Hit(ab[c].full[q % AbStages], AbArrivals(launch, Leader), 1, TxParts)
            ELSE ab[c].full[q % AbStages] BY <1>10, <1>19
  <2>3. AbTo(ab, new, c, q % AbStages, h, c, b) BY <1>10, <1>23
  <2> HIDE <1>14, <1>27
  <2> QED BY <1>1, <1>3, <1>9, <1>29, <1>30, <1>31, <2>1, <2>2, <2>3, FetchAt
<1>33. mma' = mma /\ launch' = launch BY DEF Fetch, LoadGoes
<1>34. flying' = nfl BY <1>4, <1>12, <1>13, <1>25 DEF Fetch
<1> QED BY <1>2, <1>22, <1>23, <1>24, <1>32, <1>33, <1>34 DEF AbThen, OtherAt
-----------------------------------------------------------------------------
(* Steps that move no position of the ring.                                *)
LEMMA AbStays ==
  ASSUME Types, RingTypes, Places, AbNow, launch' = launch, ab' = ab, flying' = flying,
         \A c \in Ctas, w \in Loads : load'[c][w].n = load[c][w].n,
         \A c \in Ctas : mma'[c].n = mma[c].n
  PROVE  AbThen
<1>1. /\ launch \in Launches /\ ab \in [Ctas -> AbRing] /\ Leader \in Ctas /\ (launch.ctas = 2 => 1 \in Ctas)
  BY AbTyped
<1>2. OtherAt(mma') = OtherAt(mma) /\ mma'[Leader].n = mma[Leader].n BY <1>1 DEF OtherAt
<1>3. PICK M, F : M = mma[Leader].n /\ F = OtherAt(mma) OBVIOUS
<1>4. PICK nld : nld = load' OBVIOUS
<1>5. AbAt(ab, load, flying, F, M) BY <1>3 DEF AbNow
<1>6. \A c \in Ctas, w \in Loads : nld[c][w].n = load[c][w].n BY <1>4
<1>7. AbAt(ab, nld, flying, F, M) BY <1>1, <1>5, <1>6, SameAhead
<1> QED BY <1>1, <1>2, <1>3, <1>4, <1>7 DEF AbThen

(* Every step keeps the A/B ring.                                          *)
LEMMA AbStep ==
  ASSUME Types, RingTypes, Places, SlotsOK, IndexRingOK, AbRingOK, AbDataOK, [Next]_vars
  PROVE  AbRingOK' /\ AbDataOK' /\ ab' \in [Ctas -> AbRing]
<1>0. launch' = launch BY PlacesStep
<1>1. launch \in Launches /\ Leader \in Ctas /\ Leader = 0 BY AbTyped
<1>2. AbNow BY <1>1, AbIs DEF AbNow
<1>3. SUFFICES AbThen BY <1>0, <1>1, AbWillBe DEF AbThen
<1>4. ASSUME NEW c \in Ctas, NEW w \in Loads, LoadStep(c, w) PROVE AbThen
  <2>1. CASE Fetch(c, w) BY <1>2, <2>1, FetchKeeps
  <2>2. ASSUME ab' = ab, flying' = flying, mma' = mma, LoadMoves(c, w), load'[c][w].n = load[c][w].n
        PROVE  AbThen
    <3>1. \A d \in Ctas, v \in Loads : load'[d][v].n = load[d][v].n BY <2>2 DEF LoadMoves
    <3>2. \A d \in Ctas : mma'[d].n = mma[d].n BY <2>2
    <3> QED BY <1>0, <1>2, <2>2, <3>1, <3>2, AbStays
  <2>3. CASE ThrottleCommit(c, w)
    <3>1. LoadMoves(c, w) /\ load'[c][w].n = load[c][w].n BY <2>3, ThrottleCommitTo
    <3>2. ab' = ab /\ flying' = flying /\ mma' = mma BY <2>3 DEF ThrottleCommit, LoadGoes
    <3> QED BY <2>2, <3>1, <3>2
  <2>4. CASE ReadIndices(c, w)
    <3>1. LoadMoves(c, w) /\ load'[c][w].n = load[c][w].n BY <2>4, ReadIndicesTo
    <3>2. ab' = ab /\ flying' = flying /\ mma' = mma BY <2>4 DEF ReadIndices, LoadGoes
    <3> QED BY <2>2, <3>1, <3>2
  <2>5. CASE Signal(c, w)
    <3>1. LoadMoves(c, w) /\ load'[c][w].n = load[c][w].n BY <2>5, SignalTo
    <3>2. ab' = ab /\ flying' = flying /\ mma' = mma BY <2>5 DEF Signal, LoadGoes
    <3> QED BY <2>2, <3>1, <3>2
  <2>6. CASE LoadAdvance(c, w)
    <3>1. LoadMoves(c, w) /\ load'[c][w].n = load[c][w].n BY <2>6, LoadAdvanceTo
    <3>2. ab' = ab /\ flying' = flying /\ mma' = mma BY <2>6 DEF LoadAdvance, LoadGoes
    <3> QED BY <2>2, <3>1, <3>2
  <2>7. CASE LoadTail(c, w)
    <3>1. LoadMoves(c, w) /\ load'[c][w].n = load[c][w].n BY <2>7, LoadTailTo
    <3>2. ab' = ab /\ flying' = flying /\ mma' = mma BY <2>7 DEF LoadTail, LoadGoes
    <3> QED BY <2>2, <3>1, <3>2
  <2> QED BY <1>4, <2>1, <2>3, <2>4, <2>5, <2>6, <2>7 DEF LoadStep
<1>5. ASSUME ab' = ab, flying' = flying, load' = load, NEW c \in Ctas, MmaMoves(c), mma'[c].n = mma[c].n
      PROVE  AbThen
  <2>1. \A d \in Ctas, v \in Loads : load'[d][v].n = load[d][v].n BY <1>5
  <2>2. \A d \in Ctas : mma'[d].n = mma[d].n BY <1>5 DEF MmaMoves, Moved
  <2> QED BY <1>0, <1>2, <1>5, <2>1, <2>2, AbStays
<1>6. CASE AccAcquire
  <2>1. MmaMoves(Leader) /\ mma'[Leader].n = mma[Leader].n BY <1>6, AccAcquireTo
  <2>2. ab' = ab /\ flying' = flying /\ load' = load BY <1>6 DEF AccAcquire, MmaRest
  <2> QED BY <1>1, <1>5, <2>1, <2>2
<1>7. CASE AccCommit
  <2>1. MmaMoves(Leader) /\ mma'[Leader].n = mma[Leader].n BY <1>7, AccCommitTo
  <2>2. ab' = ab /\ flying' = flying /\ load' = load BY <1>7 DEF AccCommit, MmaRest
  <2> QED BY <1>1, <1>5, <2>1, <2>2
<1>8. CASE MmaTail
  <2>1. MmaMoves(Leader) /\ mma'[Leader].n = mma[Leader].n BY <1>8, MmaTailTo
  <2>2. ab' = ab /\ flying' = flying /\ load' = load BY <1>8 DEF MmaTail, MmaRest
  <2> QED BY <1>1, <1>5, <2>1, <2>2
<1>9. ASSUME NEW c \in Ctas, MmaAdvance(c) PROVE AbThen
  <2>1. MmaMoves(c) /\ mma'[c].n = mma[c].n BY <1>9, MmaAdvanceTo
  <2>2. ab' = ab /\ flying' = flying /\ load' = load BY <1>9 DEF MmaAdvance, MmaRest
  <2> QED BY <1>5, <2>1, <2>2
<1>10. ASSUME ab' = ab, flying' = flying, load' = load, mma' = mma PROVE AbThen
  <2>1. \A d \in Ctas, v \in Loads : load'[d][v].n = load[d][v].n BY <1>10
  <2>2. \A d \in Ctas : mma'[d].n = mma[d].n BY <1>10
  <2> QED BY <1>0, <1>2, <1>10, <2>1, <2>2, AbStays
<1>11. ASSUME NEW c \in Ctas, CtaStep(c) PROVE AbThen
  <2>1. CASE \E w \in Loads : LoadStep(c, w) BY <1>4, <2>1
  <2>2. CASE PutIndices(c) \/ IndexAdvance(c) BY <1>10, <2>2 DEF PutIndices, IndexAdvance, IndexRest
  <2>3. CASE Forward(c) BY <1>2, <2>3, ForwardKeeps
  <2>4. CASE MmaAdvance(c) BY <1>9, <2>4
  <2>5. CASE Peek(c) \/ ReadAcc(c) \/ ReadC(c) BY <1>10, <2>5 DEF Peek, ReadAcc, ReadC, EpiRest
  <2>6. CASE CBegin(c) \/ FetchC(c) \/ CAdvance(c) \/ CTail(c)
    BY <1>10, <2>6 DEF CBegin, FetchC, CAdvance, CTail, CRest
  <2>7. CASE SchedAdvance(c) BY <1>10, <2>7 DEF SchedAdvance, SchedRest
  <2> QED BY <1>11, <2>1, <2>2, <2>3, <2>4, <2>5, <2>6, <2>7 DEF CtaStep
<1>12. CASE Multiply BY <1>2, <1>12, MultiplyKeeps
<1>13. ASSUME NEW f \in flying, Land(f) PROVE AbThen BY <1>2, <1>13, LandKeeps
<1>14. CASE ThrottleSync \/ ThrottleWait \/ WriteSlot \/ SchedTail
  BY <1>10, <1>14 DEF ThrottleSync, ThrottleWait, WriteSlot, SchedTail, SchedRest
<1>15. CASE UNCHANGED vars BY <1>10, <1>15 DEF vars, procs, rings
<1> QED BY <1>6, <1>7, <1>8, <1>11, <1>12, <1>13, <1>14, <1>15 DEF Next
-----------------------------------------------------------------------------
(* What each step may change.                                              *)
Changes ==
  /\ \/ idx' = idx \/ \E c \in Ctas : PutIndices(c) \/ \E w \in Loads : ReadIndices(c, w)
  /\ \/ cring' = cring \/ \E c \in Ctas : ReadC(c) \/ FetchC(c)
  /\ \/ slot' = slot \/ WriteSlot \/ \E t \in 1..Count(launch) : ReadSlot(t)
  /\ \/ acc' = acc \/ AccCommit \/ \E c \in Ctas : ReadAcc(c)
  /\ \/ tmem' = tmem \/ Multiply
  /\ \/ gate' = gate \/ GateArrives
  /\ \/ met' = met \/ \E c \in Ctas, w \in Loads : Signal(c, w)
  /\ \/ load' = load \/ \E c \in Ctas, w \in Loads : LoadStep(c, w)

(* No step changes more.                                                   *)
LEMMA OnlyChanges ==
  ASSUME Types, RingTypes, Places, SlotsOK, IndexRingOK, [Next]_vars
  PROVE  Changes
<1>1. ASSUME NEW c \in Ctas, NEW w \in Loads, LoadStep(c, w) PROVE Changes
  <2>1. CASE ThrottleCommit(c, w) BY <1>1, <2>1 DEF ThrottleCommit, LoadGoes, Changes
  <2>2. CASE ReadIndices(c, w)
    <3>1. UNCHANGED <<cring, slot, acc, tmem, gate, met>> BY <2>2 DEF ReadIndices, LoadGoes
    <3> QED BY <1>1, <2>2, <3>1 DEF Changes
  <2>3. CASE Fetch(c, w)
    <3>1. UNCHANGED <<idx, cring, slot, acc, tmem, gate, met>> BY <2>3 DEF Fetch, LoadGoes
    <3> QED BY <1>1, <3>1 DEF Changes
  <2>4. CASE Signal(c, w)
    <3>1. UNCHANGED <<idx, cring, slot, acc, tmem, gate>> BY <2>4 DEF Signal, LoadGoes
    <3> QED BY <1>1, <2>4, <3>1 DEF Changes
  <2>5. CASE LoadAdvance(c, w)
    <3>1. UNCHANGED <<idx, cring, acc, tmem, gate, met>> BY <2>5 DEF LoadAdvance, LoadGoes
    <3>2. \E t \in 1..Count(launch) : ReadSlot(t) BY <2>5, LoadAdvanceTo
    <3> QED BY <1>1, <3>1, <3>2 DEF Changes
  <2>6. CASE LoadTail(c, w)
    <3>1. UNCHANGED <<idx, cring, slot, acc, tmem, gate, met>> BY <2>6 DEF LoadTail, LoadGoes
    <3> QED BY <1>1, <3>1 DEF Changes
  <2> QED BY <1>1, <2>1, <2>2, <2>3, <2>4, <2>5, <2>6 DEF LoadStep
<1>2. ASSUME NEW c \in Ctas, PutIndices(c) PROVE Changes
  <2>1. UNCHANGED <<load, cring, slot, acc, tmem, gate, met>> BY <1>2 DEF PutIndices, IndexRest
  <2> QED BY <1>2, <2>1 DEF Changes
<1>3. ASSUME NEW c \in Ctas, IndexAdvance(c) PROVE Changes
  <2>1. UNCHANGED <<load, idx, cring, acc, tmem, gate, met>> BY <1>3 DEF IndexAdvance, IndexRest
  <2>2. \E t \in 1..Count(launch) : ReadSlot(t) BY <1>3, IndexAdvanceTo
  <2> QED BY <2>1, <2>2 DEF Changes
<1>4. ASSUME NEW c \in Ctas, Forward(c) PROVE Changes BY <1>4 DEF Forward, MmaRest, Changes
<1>5. ASSUME NEW c \in Ctas, MmaAdvance(c) PROVE Changes
  <2>1. UNCHANGED <<load, idx, cring, acc, tmem, gate, met>> BY <1>5 DEF MmaAdvance, MmaRest
  <2>2. \E t \in 1..Count(launch) : ReadSlot(t) BY <1>5, MmaAdvanceTo
  <2> QED BY <2>1, <2>2 DEF Changes
<1>6. ASSUME NEW c \in Ctas, Peek(c) PROVE Changes
  <2>1. UNCHANGED <<load, idx, cring, acc, tmem, gate, met>> BY <1>6 DEF Peek, EpiRest
  <2>2. \E t \in 1..Count(launch) : ReadSlot(t) BY <1>6, PeekTo
  <2> QED BY <2>1, <2>2 DEF Changes
<1>7. ASSUME NEW c \in Ctas, ReadAcc(c) PROVE Changes
  <2>1. UNCHANGED <<load, idx, cring, slot, tmem, gate, met>> BY <1>7 DEF ReadAcc, EpiRest
  <2> QED BY <1>7, <2>1 DEF Changes
<1>8. ASSUME NEW c \in Ctas, ReadC(c) PROVE Changes
  <2>1. UNCHANGED <<load, idx, slot, acc, tmem, gate, met>> BY <1>8 DEF ReadC, EpiRest
  <2> QED BY <1>8, <2>1 DEF Changes
<1>9. ASSUME NEW c \in Ctas, CBegin(c) \/ CTail(c) PROVE Changes BY <1>9 DEF CBegin, CTail, CRest, Changes
<1>10. ASSUME NEW c \in Ctas, FetchC(c) PROVE Changes
  <2>1. UNCHANGED <<load, idx, slot, acc, tmem, gate, met>> BY <1>10 DEF FetchC, CRest
  <2> QED BY <1>10, <2>1 DEF Changes
<1>11. ASSUME NEW c \in Ctas, CAdvance(c) PROVE Changes
  <2>1. UNCHANGED <<load, idx, cring, acc, tmem, gate, met>> BY <1>11 DEF CAdvance, CRest
  <2>2. \E t \in 1..Count(launch) : ReadSlot(t) BY <1>11, CAdvanceTo
  <2> QED BY <2>1, <2>2 DEF Changes
<1>12. ASSUME NEW c \in Ctas, SchedAdvance(c) PROVE Changes
  <2>1. UNCHANGED <<load, idx, cring, acc, tmem, gate, met>> BY <1>12 DEF SchedAdvance, SchedRest
  <2>2. \E t \in 1..Count(launch) : ReadSlot(t) BY <1>12, SchedAdvanceTo
  <2> QED BY <2>1, <2>2 DEF Changes
<1>13. CASE AccAcquire \/ MmaTail BY <1>13 DEF AccAcquire, MmaTail, MmaRest, Changes
<1>14. CASE Multiply
  <2>1. UNCHANGED <<load, idx, cring, slot, acc, gate, met>> BY <1>14 DEF Multiply, MmaRest
  <2> QED BY <1>14, <2>1 DEF Changes
<1>15. CASE AccCommit
  <2>1. UNCHANGED <<load, idx, cring, slot, tmem, gate, met>> BY <1>15 DEF AccCommit, MmaRest
  <2> QED BY <1>15, <2>1 DEF Changes
<1>16. CASE ThrottleSync BY <1>16 DEF ThrottleSync, SchedRest, Changes
<1>17. CASE ThrottleWait \/ SchedTail BY <1>17 DEF ThrottleWait, SchedTail, SchedRest, Changes
<1>18. CASE WriteSlot
  <2>1. UNCHANGED <<load, idx, cring, acc, tmem, gate, met>> BY <1>18 DEF WriteSlot, SchedRest
  <2> QED BY <1>18, <2>1 DEF Changes
<1>19. ASSUME NEW f \in flying, Land(f) PROVE Changes
  <2>1. UNCHANGED <<load, idx, cring, slot, acc, tmem, gate, met>> BY <1>19 DEF Land, procs
  <2> QED BY <2>1 DEF Changes
<1>20. CASE UNCHANGED vars BY <1>20 DEF vars, procs, rings, Changes
<1> QED BY <1>1, <1>2, <1>3, <1>4, <1>5, <1>6, <1>7, <1>8, <1>9, <1>10, <1>11, <1>12, <1>13, <1>14, <1>15, <1>16,
           <1>17, <1>18, <1>19, <1>20 DEF Next, CtaStep
-----------------------------------------------------------------------------
(* Barriers that are arrived at are barriers, and a ring stays a ring.     *)
LEMMA ArriveTyped ==
  ASSUME NEW d \in Nat \ {0}, NEW bars \in [0..d - 1 -> Bar], NEW n \in Nat, NEW count \in Int
  PROVE  Arrive(bars, n, count) \in [0..d - 1 -> Bar]
<1>1. /\ n % d \in 0..d - 1
      /\ Arrive(bars, n, count) = [bars EXCEPT ![n % d] = Hit(bars[n % d], count, 1, 0)]
  BY StageIs
<1>2. bars[n % d] \in Bar BY <1>1
<1>3. Hit(bars[n % d], count, 1, 0) \in Bar BY <1>2, HitBar
<1> QED BY <1>1, <1>3

(* ... when it is put to ...                                               *)
LEMMA PutTyped ==
  ASSUME NEW d \in Nat \ {0}, NEW D, NEW r \in RingOf(d, D), NEW n \in Nat, NEW x \in D
  PROVE  Put(r, n, x) \in RingOf(d, D)
<1>1. r.full \in [0..d - 1 -> Bar] BY DEF RingOf
<1>2. PICK s : s = Stage(r.full, n) OBVIOUS
<1>3. PICK b : b = Arrive(r.full, n, 1) OBVIOUS
<1>4. s \in 0..d - 1
  <2>1. DOMAIN r.full = 0..d - 1 BY <1>1
  <2> QED BY <1>2, <2>1, StageIs
<1>5. b \in [0..d - 1 -> Bar] BY <1>1, <1>3, ArriveTyped
<1>6. PICK e : e = [r.data EXCEPT ![s] = x] OBVIOUS
<1>7. e \in [0..d - 1 -> D]
  <2>1. r.data \in [0..d - 1 -> D] BY DEF RingOf
  <2> QED BY <1>6, <2>1
<1>8. Put(r, n, x) = [r EXCEPT !.data = e, !.full = b] BY <1>2, <1>3, <1>6 DEF Put
<1>9. [r EXCEPT !.data = e, !.full = b] \in RingOf(d, D) BY <1>5, <1>7 DEF RingOf
<1> QED BY <1>8, <1>9

(* ... and when it is read.                                                *)
LEMMA ReadTyped ==
  ASSUME NEW d \in Nat \ {0}, NEW D, NEW r \in RingOf(d, D), NEW n \in Nat, NEW count \in Int,
         NEW b, b = Arrive(r.empty, n, count)
  PROVE  [r EXCEPT !.empty = b] \in RingOf(d, D)
<1>1. r.empty \in [0..d - 1 -> Bar] BY DEF RingOf
<1>2. b \in [0..d - 1 -> Bar] BY <1>1, ArriveTyped
<1> QED BY <1>2 DEF RingOf

(* The index ring after a step.                                            *)
LEMMA IdxTyped ==
  ASSUME Types, RingTypes, Places, SlotsOK, IndexRingOK, Changes
  PROVE  idx' \in [Ctas -> RingOf(IdxStages(launch), Pair)]
<1>1. launch \in Launches /\ idx \in [Ctas -> RingOf(IdxStages(launch), Pair)] BY DEF Types, RingTypes
<1> DEFINE d == IdxStages(launch)
<1>2. Gathers => d \in Nat \ {0} BY <1>1, Depths
<1>3. CASE idx' = idx BY <1>1, <1>3
<1>4. ASSUME NEW c \in Ctas, PutIndices(c) PROVE idx' \in [Ctas -> RingOf(d, Pair)]
  <2>1. /\ Gathers /\ index[c].i \in Nat /\ IndexAt(launch, index[c].i) \in Pair
        /\ idx' = [idx EXCEPT ![c] = Put(idx[c], index[c].i, IndexAt(launch, index[c].i))]
    BY <1>4, PutIndicesTo
  <2>2. PICK r \in RingOf(d, Pair), n \in Nat, x \in Pair : r = idx[c] /\ n = index[c].i /\ x = IndexAt(launch, index[c].i)
    BY <1>1, <2>1
  <2> HIDE DEF d
  <2>3. Put(r, n, x) \in RingOf(d, Pair) BY <1>2, <2>1, PutTyped
  <2> QED BY <1>1, <2>1, <2>2, <2>3 DEF d
<1>5. ASSUME NEW c \in Ctas, NEW w \in Loads, ReadIndices(c, w) PROVE idx' \in [Ctas -> RingOf(d, Pair)]
  <2>1. /\ Gathers /\ idx' = [idx EXCEPT ![c].empty = Arrive(idx[c].empty, load[c][w].i, IdxReaders(launch))]
    BY <1>5, ReadIndicesTo
  <2>2. load[c][w].i \in Nat /\ IdxReaders(launch) \in Int
    <3>1. load[c][w] \in LoadRec(launch) BY DEF Types
    <3>2. launch.loads \in Nat BY <1>1, LaunchIs
    <3> QED BY <3>1, <3>2 DEF LoadRec, IdxReaders
  <2>3. PICK r \in RingOf(d, Pair), n \in Nat, m \in Int : r = idx[c] /\ n = load[c][w].i /\ m = IdxReaders(launch)
    BY <1>1, <2>2
  <2>4. PICK b : b = Arrive(r.empty, n, m) OBVIOUS
  <2>5. PICK x : x = [r EXCEPT !.empty = b] OBVIOUS
  <2> HIDE DEF d
  <2>6. x \in RingOf(d, Pair) BY <1>2, <2>1, <2>4, <2>5, ReadTyped
  <2>7. idx' = [idx EXCEPT ![c] = x] BY <2>1, <2>3, <2>4, <2>5
  <2> QED BY <1>1, <2>6, <2>7 DEF d
<1> QED BY <1>3, <1>4, <1>5 DEF Changes

(* The C stages after a step.                                              *)
LEMMA CRingTyped ==
  ASSUME Types, RingTypes, Places, SlotsOK, Changes
  PROVE  cring' \in [Ctas -> RingOf(launch.cStages, Pair)]
<1>1. launch \in Launches /\ cring \in [Ctas -> RingOf(launch.cStages, Pair)] BY DEF Types, RingTypes
<1> DEFINE d == launch.cStages
<1>2. HasC => d \in Nat \ {0} BY <1>1, Depths
<1>3. CASE cring' = cring BY <1>1, <1>3
<1>4. ASSUME NEW c \in Ctas, FetchC(c) PROVE cring' \in [Ctas -> RingOf(d, Pair)]
  <2>1. /\ HasC /\ cload[c].r \in Nat /\ cload[c].sub \in Subs /\ cload[c].t \in 1..N
        /\ cring' = [cring EXCEPT ![c] = Put(cring[c], cload[c].r, <<cload[c].t, cload[c].sub>>)]
    BY <1>4, FetchCTo
  <2>2. <<cload[c].t, cload[c].sub>> \in Pair
    <3>1. cload[c] \in CLoadRec(launch) BY DEF Types
    <3>2. cload[c].sub \in Nat BY <3>1 DEF CLoadRec
    <3>3. N \in Nat BY <1>1, LaunchIs, Names
    <3> QED BY <2>1, <3>2, <3>3 DEF Pair
  <2>3. PICK r \in RingOf(d, Pair), n \in Nat, x \in Pair : r = cring[c] /\ n = cload[c].r /\ x = <<cload[c].t, cload[c].sub>>
    BY <1>1, <2>1, <2>2
  <2> HIDE DEF d
  <2>4. Put(r, n, x) \in RingOf(d, Pair) BY <1>2, <2>1, PutTyped
  <2> QED BY <1>1, <2>1, <2>3, <2>4 DEF d
<1>5. ASSUME NEW c \in Ctas, ReadC(c) PROVE cring' \in [Ctas -> RingOf(d, Pair)]
  <2>1. HasC /\ epi[c] \in EpiRec(launch) /\ cring' = [cring EXCEPT ![c].empty = Arrive(cring[c].empty, epi[c].r, 1)]
    BY <1>5, ReadCTo
  <2>2. PICK r \in RingOf(d, Pair), n \in Nat : r = cring[c] /\ n = epi[c].r BY <1>1, <2>1 DEF EpiRec
  <2>3. PICK b : b = Arrive(r.empty, n, 1) OBVIOUS
  <2>4. PICK x : x = [r EXCEPT !.empty = b] OBVIOUS
  <2> HIDE DEF d
  <2>5. x \in RingOf(d, Pair) BY <1>2, <2>1, <2>3, <2>4, ReadTyped
  <2>6. cring' = [cring EXCEPT ![c] = x] BY <2>1, <2>2, <2>3, <2>4
  <2> QED BY <1>1, <2>5, <2>6 DEF d
<1> QED BY <1>3, <1>4, <1>5 DEF Changes
-----------------------------------------------------------------------------
(* The slots after a step.                                                 *)
LEMMA SlotTyped ==
  ASSUME Types, RingTypes, Places, SlotsOK, Changes
  PROVE  slot' \in RingOf(SlotStages(launch), Nat)
<1>1. launch \in Launches /\ slot \in RingOf(SlotStages(launch), Nat) BY DEF Types, RingTypes
<1>2. PICK d \in Nat \ {0} : d = SlotStages(launch) BY <1>1, Depths
<1>3. PICK r \in RingOf(d, Nat) : r = slot BY <1>1, <1>2
<1>4. CASE slot' = slot BY <1>1, <1>4
<1>5. CASE WriteSlot
  <2>1. slot' = Put(slot, sched[Leader].t - 1, sched[Leader].t + 1) BY <1>5 DEF WriteSlot, Leader
  <2>2. PICK t \in Nat \ {0} : t = sched[Leader].t
    <3>1. Leader \in Ctas /\ Count(launch) \in Nat BY <1>1, CtasAre, LaunchIs
    <3>2. sched[Leader] \in SchedRec(launch) BY <3>1 DEF Types
    <3>3. sched[Leader].t \in 1..Count(launch) + 1 BY <3>2 DEF SchedRec, TilesOf
    <3> QED BY <3>1, <3>3
  <2>3. PICK n \in Nat, x \in Nat : n = t - 1 /\ x = t + 1
    <3>1. t - 1 \in Nat /\ t + 1 \in Nat OBVIOUS
    <3> QED BY <3>1
  <2>4. Put(r, n, x) \in RingOf(d, Nat) BY PutTyped
  <2> QED BY <1>2, <1>3, <2>1, <2>2, <2>3, <2>4
<1>6. ASSUME NEW t \in 1..Count(launch), ReadSlot(t) PROVE slot' \in RingOf(SlotStages(launch), Nat)
  <2>1. Count(launch) \in Nat BY <1>1, LaunchIs
  <2>2. PICK n \in Nat : n = t - 1 BY <2>1
  <2>3. SlotReaders(launch) \in Int
    <3>1. IsFiniteSet(Readers) /\ Cardinality(Readers) = SlotReaders(launch) BY <1>1, ReadersCounted
    <3> QED BY <3>1, FS_CardinalityType
  <2>4. PICK m \in Int : m = SlotReaders(launch) BY <2>3
  <2>5. PICK b : b = Arrive(r.empty, n, m) OBVIOUS
  <2>6. slot' = [r EXCEPT !.empty = b] BY <1>3, <1>6, <2>2, <2>4, <2>5 DEF ReadSlot
  <2>7. [r EXCEPT !.empty = b] \in RingOf(d, Nat) BY <2>5, ReadTyped
  <2> QED BY <1>2, <2>6, <2>7
<1> QED BY <1>4, <1>5, <1>6 DEF Changes

(* The accumulators' barriers after a step.                                *)
LEMMA AccTyped ==
  ASSUME Types, RingTypes, Places, Changes
  PROVE  acc' \in [full : [Ctas -> [0..AccStages(launch) - 1 -> Bar]], empty : [0..AccStages(launch) - 1 -> Bar]]
<1>1. launch \in Launches BY DEF Types
<1>2. PICK d \in Nat \ {0} : d = AccStages(launch)
  <2>1. AccStages(launch) \in {1, 2} BY <1>1, Depths
  <2> QED BY <2>1
<1> DEFINE R == [0..d - 1 -> Bar]
<1>3. acc \in [full : [Ctas -> R], empty : R] BY <1>2 DEF RingTypes
<1>4. CASE acc' = acc BY <1>2, <1>3, <1>4
<1>5. CASE AccCommit
  <2>1. PICK n \in Nat : n = mma[Leader].a
    <3>1. mma[Leader] \in MmaRec(launch) BY <1>5, AccCommitTo
    <3> QED BY <3>1 DEF MmaRec
  <2>2. acc' = [acc EXCEPT !.full = [c \in Ctas |-> Arrive(acc.full[c], n, 1)]] BY <1>5, <2>1 DEF AccCommit
  <2>3. PICK f : f = [c \in Ctas |-> Arrive(acc.full[c], n, 1)] OBVIOUS
  <2>4. ASSUME NEW c \in Ctas PROVE Arrive(acc.full[c], n, 1) \in R
    <3>1. PICK b \in R : b = acc.full[c] BY <1>3
    <3> QED BY <3>1, ArriveTyped
  <2>5. f \in [Ctas -> R] BY <2>3, <2>4
  <2>6. acc' = [acc EXCEPT !.full = f] BY <2>2, <2>3
  <2> HIDE DEF R
  <2>7. [acc EXCEPT !.full = f] \in [full : [Ctas -> R], empty : R] BY <1>3, <2>5
  <2> QED BY <1>2, <2>6, <2>7 DEF R
<1>6. ASSUME NEW c \in Ctas, ReadAcc(c) PROVE acc' \in [full : [Ctas -> R], empty : R]
  <2>1. /\ epi[c] \in EpiRec(launch)
        /\ acc' = IF epi[c].sub = ReleaseAt THEN [acc EXCEPT !.empty = Arrive(acc.empty, epi[c].a, launch.ctas)] ELSE acc
    BY <1>6, ReadAccTo
  <2>2. PICK n \in Nat, m \in Int : n = epi[c].a /\ m = launch.ctas
    <3>1. launch.ctas \in {1, 2} BY <1>1, LaunchIs
    <3> QED BY <2>1, <3>1 DEF EpiRec
  <2>3. PICK b : b = Arrive(acc.empty, n, m) OBVIOUS
  <2>4. b \in R
    <3>1. PICK e \in R : e = acc.empty BY <1>3
    <3> QED BY <2>3, <3>1, ArriveTyped
  <2>5. acc' = [acc EXCEPT !.empty = b] \/ acc' = acc BY <2>1, <2>2, <2>3
  <2> HIDE DEF R
  <2> QED BY <1>3, <2>4, <2>5
<1> QED BY <1>2, <1>4, <1>5, <1>6 DEF Changes

(* The tensor memory after a step.                                         *)
LEMMA TmemTyped ==
  ASSUME Types, RingTypes, Places, Changes
  PROVE  tmem' \in [Ctas -> [{0, 1} -> [Subs -> Pair]]]
<1>1. launch \in Launches /\ tmem \in [Ctas -> [{0, 1} -> [Subs -> Pair]]] BY DEF Types, RingTypes
<1>2. CASE tmem' = tmem BY <1>1, <1>2
<1>3. CASE Multiply
  <2>1. PICK me \in MmaRec(launch) : me = mma[Leader]
    <3>1. mma[Leader] \in MmaRec(launch) BY <1>3, MultiplyTo
    <3> QED BY <3>1
  <2>2. tmem' = [c \in Ctas |-> Multiplied(tmem[c], me)] BY <1>3, <2>1 DEF Multiply
  <2>3. PICK b \in {0, 1} : b = me.a % 2
    <3>1. me.a \in Nat BY DEF MmaRec
    <3>2. me.a % 2 \in {0, 1} BY <3>1
    <3> QED BY <3>2
  <2>4. ASSUME NEW c \in Ctas PROVE Multiplied(tmem[c], me) \in [{0, 1} -> [Subs -> Pair]]
    <3>1. PICK m \in [{0, 1} -> [Subs -> Pair]] : m = tmem[c] BY <1>1
    <3>2. PICK new : new = Multiplied(m, me) OBVIOUS
    <3>3. new \in [{0, 1} -> [Subs -> Pair]] BY <1>1, <2>3, <3>2, MultipliedIs
    <3> QED BY <3>1, <3>2, <3>3
  <2> QED BY <2>2, <2>4
<1> QED BY <1>2, <1>3 DEF Changes

(* Every step keeps the types of the rings.                                *)
LEMMA RingTypesStep ==
  ASSUME Types, RingTypes, Places, SlotsOK, IndexRingOK, AbRingOK, AbDataOK, [Next]_vars
  PROVE  RingTypes'
<1>1. launch' = launch /\ Changes BY PlacesStep, OnlyChanges
<1>2. Ctas' = Ctas /\ Loads' = Loads /\ Subs' = Subs BY <1>1, Same
<1>3. ab' \in [Ctas -> RingOf(AbStages, [0..launch.loads -> Pair])] BY AbStep DEF AbRing
<1>4. idx' \in [Ctas -> RingOf(IdxStages(launch), Pair)] BY <1>1, IdxTyped
<1>5. cring' \in [Ctas -> RingOf(launch.cStages, Pair)] BY <1>1, CRingTyped
<1>6. slot' \in RingOf(SlotStages(launch), Nat) BY <1>1, SlotTyped
<1>7. acc' \in [full : [Ctas -> [0..AccStages(launch) - 1 -> Bar]], empty : [0..AccStages(launch) - 1 -> Bar]]
  BY <1>1, AccTyped
<1>8. tmem' \in [Ctas -> [{0, 1} -> [Subs -> Pair]]] BY <1>1, TmemTyped
<1>9. gate' \in [arrived : {0, 1}, gen : {0, 1}]
  <2>1. gate \in [arrived : {0, 1}, gen : {0, 1}] BY DEF RingTypes
  <2>2. CASE gate' = gate BY <2>1, <2>2
  <2>3. CASE GateArrives BY <2>1, <2>3 DEF GateArrives
  <2> QED BY <1>1, <2>2, <2>3 DEF Changes
<1>10. met' \in [Ctas -> Nat]
  <2>1. met \in [Ctas -> Nat] BY DEF RingTypes
  <2>2. ASSUME NEW c \in Ctas, NEW w \in Loads, Signal(c, w) PROVE met' \in [Ctas -> Nat]
    <3>1. met' = [met EXCEPT ![c] = met[c] + 1] BY <2>2 DEF Signal
    <3> QED BY <2>1, <3>1
  <2> QED BY <1>1, <2>1, <2>2 DEF Changes
<1> QED BY <1>1, <1>2, <1>3, <1>4, <1>5, <1>6, <1>7, <1>8, <1>9, <1>10 DEF RingTypes
-----------------------------------------------------------------------------
(* A load warp at the first tile of a launch with C reads the next slot    *)
(* only after Signal: no other step of it counts.                          *)
LEMMA OthersDoNotSignal ==
  ASSUME Types, RingTypes, Places, SlotsOK, IndexRingOK, NEW c \in Ctas, NEW w \in Loads, LoadStep(c, w),
         ~Signal(c, w)
  PROVE  met' = met /\ LoadMoves(c, w) /\ (Signalled(launch, load'[c][w]) <=> Signalled(launch, load[c][w]))
<1> DEFINE me == load[c][w]
           new == load'[c][w]
<1>1. launch \in Launches /\ me \in LoadRec(launch) /\ LoadPlace(launch, me) BY LoadIs
<1>2. Count(launch) \in Nat /\ me.t \in 1..Count(launch) + 1 BY <1>1, LaunchIs DEF LoadRec, TilesOf
<1>3. \A k, t : HasC /\ t = 1 => KTile(k, t) # "read" /\ Tile(t) # "read"
  BY DEF Tile, KTile, Signals
<1>4. HasC <=> launch.cStages > 0 BY Names
<1>5. load \in [Ctas -> [Loads -> LoadRec(launch)]] BY DEF Types
<1>6. CASE ThrottleCommit(c, w)
  <2>1. met' = met /\ load' = [load EXCEPT ![c][w].at = Tile(me.t)] BY <1>6 DEF ThrottleCommit
  <2>2. new.at = Tile(me.t) BY <1>5, <2>1
  <2>3. LoadMoves(c, w) /\ me.at = "commit" /\ new.t = me.t BY <1>6, ThrottleCommitTo
  <2> QED BY <1>2, <1>3, <1>4, <2>1, <2>2, <2>3 DEF Signalled
<1>7. CASE ReadIndices(c, w)
  <2>1. PICK g, i : g = idx[c].data[IndexStage(c, me)] /\ i = me.i + 1 OBVIOUS
  <2>2. PICK a : a = IF launch.gather = "m" THEN KTile(0, me.t) ELSE "fetch" OBVIOUS
  <2>3. met' = met /\ load' = [load EXCEPT ![c][w] = [me EXCEPT !.got = g, !.i = i, !.at = a]]
    BY <1>7, <2>1, <2>2 DEF ReadIndices
  <2>4. new = [me EXCEPT !.got = g, !.i = i, !.at = a] BY <1>5, <2>3
  <2>5. new.at = a BY <1>1, <2>4 DEF LoadRec
  <2>6. LoadMoves(c, w) /\ me.at = "index" /\ new.t = me.t BY <1>7, ReadIndicesTo
  <2> QED BY <1>2, <1>3, <1>4, <2>2, <2>3, <2>5, <2>6 DEF Signalled
<1>8. CASE Fetch(c, w)
  <2>1. PICK g, k, n : g = (IF launch.gather = "k" THEN Nothing ELSE me.got) /\ k = me.k + 1 /\ n = me.n + 1 OBVIOUS
  <2>2. PICK a : a = KTile(k, me.t) OBVIOUS
  <2>3. met' = met /\ load' = [load EXCEPT ![c][w] = [me EXCEPT !.k = k, !.n = n, !.at = a, !.got = g]]
    BY <1>8, <2>1, <2>2 DEF Fetch
  <2>4. new = [me EXCEPT !.k = k, !.n = n, !.at = a, !.got = g] BY <1>5, <2>3
  <2>5. new.at = a BY <1>1, <2>4 DEF LoadRec
  <2>6. LoadMoves(c, w) /\ me.at = "fetch" /\ new.t = me.t BY <1>8, FetchTo
  <2> QED BY <1>2, <1>3, <1>4, <2>2, <2>3, <2>5, <2>6 DEF Signalled
<1>9. CASE LoadAdvance(c, w)
  <2>1. met' = met BY <1>9 DEF LoadAdvance
  <2>2. LoadMoves(c, w) /\ me.at = "read" /\ me.t \in 1..Count(launch) /\ new.t = me.t + 1 BY <1>9, LoadAdvanceTo
  <2>3. new.t > 1 BY <1>2, <2>2
  <2> QED BY <1>1, <2>1, <2>2, <2>3 DEF Signalled
<1>10. CASE LoadTail(c, w)
  <2>1. met' = met BY <1>10 DEF LoadTail
  <2>2. LoadMoves(c, w) /\ me.at = "tail" /\ new.at = "done" /\ new.t = me.t BY <1>10, LoadTailTo
  <2> QED BY <2>1, <2>2 DEF Signalled
<1> QED BY <1>6, <1>7, <1>8, <1>9, <1>10 DEF LoadStep

(* met counts the load warps that have signalled.                          *)
LEMMA MetStep ==
  ASSUME Types, RingTypes, Places, SlotsOK, IndexRingOK, MetOK, [Next]_vars
  PROVE  MetOK'
<1>1. launch' = launch /\ Ctas' = Ctas /\ Loads' = Loads BY PlacesStep, Same
<1>2. launch \in Launches /\ met \in [Ctas -> Nat] BY DEF Types, RingTypes
<1> DEFINE S(f, c) == {w \in Loads : Signalled(launch, f[c][w])}
<1>3. SUFFICES \A c \in Ctas : met'[c] = Cardinality(S(load', c)) BY <1>1 DEF MetOK
<1>4. \A c \in Ctas : met[c] = Cardinality(S(load, c)) BY DEF MetOK
<1>5. ASSUME met' = met, load' = load PROVE \A c \in Ctas : met'[c] = Cardinality(S(load', c)) BY <1>4, <1>5
<1>6. ASSUME NEW c \in Ctas, NEW w \in Loads, Signal(c, w) PROVE \A d \in Ctas : met'[d] = Cardinality(S(load', d))
  <2>1. /\ LoadMoves(c, w) /\ load[c][w].at = "signal" /\ HasC /\ load[c][w].t = 1 /\ load'[c][w].at = "read"
    BY <1>6, SignalTo
  <2>2. met' = [met EXCEPT ![c] = met[c] + 1] BY <1>6 DEF Signal
  <2>3. \A d \in Ctas, v \in Loads : ~(d = c /\ v = w) => load'[d][v] = load[d][v] BY <2>1 DEF LoadMoves
  <2>4. HasC <=> launch.cStages > 0 BY Names
  <2>5. w \notin S(load, c) BY <2>1 DEF Signalled
  <2>6. S(load', c) = S(load, c) \cup {w} BY <2>1, <2>3, <2>4 DEF Signalled
  <2>7. \A d \in Ctas : d # c => S(load', d) = S(load, d) BY <2>3
  <2>8. IsFiniteSet(S(load, c))
    <3>1. IsFiniteSet(Loads) BY <1>2, CtasAre
    <3>2. S(load, c) \subseteq Loads OBVIOUS
    <3> QED BY <3>1, <3>2, FS_Subset
  <2> HIDE DEF S
  <2>9. Cardinality(S(load, c) \cup {w}) = Cardinality(S(load, c)) + 1 BY <2>5, <2>8, FS_AddElement
  <2>10. met'[c] = Cardinality(S(load', c)) BY <1>2, <1>4, <2>2, <2>6, <2>9
  <2>11. \A d \in Ctas : d # c => met'[d] = Cardinality(S(load', d)) BY <1>2, <1>4, <2>2, <2>7
  <2> QED BY <2>10, <2>11
<1>7. ASSUME NEW c \in Ctas, NEW w \in Loads, LoadStep(c, w), ~Signal(c, w)
      PROVE  \A d \in Ctas : met'[d] = Cardinality(S(load', d))
  <2>1. met' = met /\ LoadMoves(c, w) /\ (Signalled(launch, load'[c][w]) <=> Signalled(launch, load[c][w]))
    BY <1>7, OthersDoNotSignal
  <2>2. \A d \in Ctas, v \in Loads : ~(d = c /\ v = w) => load'[d][v] = load[d][v] BY <2>1 DEF LoadMoves
  <2>3. \A d \in Ctas : S(load', d) = S(load, d) BY <2>1, <2>2
  <2> QED BY <1>4, <2>1, <2>3
<1>8. ASSUME ~\E c \in Ctas, w \in Loads : LoadStep(c, w) PROVE met' = met /\ load' = load
  <2>1. Changes BY OnlyChanges
  <2>2. \A c \in Ctas, w \in Loads : Signal(c, w) => LoadStep(c, w) BY DEF LoadStep
  <2> QED BY <1>8, <2>1, <2>2 DEF Changes
<1> QED BY <1>5, <1>6, <1>7, <1>8
-----------------------------------------------------------------------------
(* A process begins at the first tile, or leaves when there is none.       *)
LEMMA FirstTile ==
  ASSUME NEW l \in Launches
  PROVE  /\ Count(l) \in Nat /\ 1 \in TilesOf(l) /\ KBefore(l)[1] = 0 /\ CBefore(l)[1] = 0
         /\ 1 \in 1..Count(l) \/ Count(l) = 0
         /\ l.subtiles \in Nat \ {0} /\ 0 \in 0..l.subtiles - 1
         /\ Count(l) > 0 => KOf(l, 1) \in Nat
BY LaunchIs, KBeforeIs, CBeforeIs DEF TilesOf

(* The processes of Init.                                                  *)
LEMMA InitPlaces ==
  ASSUME Init
  PROVE  Types /\ Places
<1>1. /\ launch \in Launches /\ Count(launch) \in Nat /\ 1 \in TilesOf(launch)
      /\ KBefore(launch)[1] = 0 /\ CBefore(launch)[1] = 0 /\ (1 \in 1..Count(launch) \/ Count(launch) = 0)
      /\ 0 \in 0..launch.subtiles - 1 /\ (Count(launch) > 0 => KOf(launch, 1) \in Nat)
  BY FirstTile DEF Init
<1>2. Leader \in Ctas /\ Leader = 0 /\ Ctas \subseteq {0, 1} BY <1>1, CtasAre
<1>3. /\ Valid(1) <=> Count(launch) > 0
      /\ (Gathers <=> launch.gather # "none") /\ (CpAsync <=> launch.gather # "none" /\ ~launch.tmaGather)
      /\ (HasC <=> launch.cStages > 0) /\ \A t : K(t) = KOf(launch, t)
  BY <1>1, Names
<1>4. launch.cStages \in Nat /\ (launch.gather = "none" \/ launch.gather = "m" \/ launch.gather = "k") BY <1>1, LaunchIs
<1>5. ASSUME NEW c \in Ctas, NEW w \in Loads
      PROVE  load[c][w] \in LoadRec(launch) /\ LoadPlace(launch, load[c][w])
  <2>1. PICK a : a = Begin(c, w, 1) OBVIOUS
  <2>2. PICK me : me = [at |-> a, t |-> 1, k |-> 0, n |-> 0, i |-> 0, got |-> Nothing] OBVIOUS
  <2>3. load[c][w] = me BY <1>5, <2>1, <2>2 DEF Init
  <2>4. me.t = 1 /\ me.k = 0 /\ me.n = 0 /\ me.i = 0 /\ me.at = a BY <2>2
  <2>5. LoadPlace(launch, me) /\ me.at \in {"commit", "index", "fetch", "signal", "read", "tail", "done"}
    BY <1>1, <2>1, <2>4, BeginPlace
  <2>6. me \in LoadRec(launch) BY <1>1, <2>2, <2>5 DEF LoadRec, Pair, Nothing
  <2> QED BY <2>3, <2>5, <2>6
<1>6. ASSUME NEW c \in Ctas PROVE index[c] \in IndexRec(launch) /\ IndexPlace(launch, index[c])
  <2>1. PICK a : a = IF Gathers THEN OrDone(1, "put") ELSE "done" OBVIOUS
  <2>2. PICK me : me = [at |-> a, t |-> 1, k |-> 0, i |-> 0] OBVIOUS
  <2>3. index[c] = me BY <1>6, <2>1, <2>2 DEF Init
  <2>4. a = IF launch.gather # "none" /\ Count(launch) > 0 THEN "put" ELSE "done" BY <1>1, <1>3, <2>1 DEF OrDone
  <2>5. me \in IndexRec(launch) /\ me.t = 1 /\ me.k = 0 /\ me.i = 0 /\ me.at = a BY <1>1, <2>2, <2>4 DEF IndexRec
  <2>6. Count(launch) > 0 => 0 <= EntriesOf(launch, 1) BY <1>1 DEF EntriesOf
  <2>7. IBefore(launch, 1) = 0 BY <1>1 DEF IBefore
  <2>8. IndexPlace(launch, me) BY <1>1, <2>4, <2>5, <2>6, <2>7 DEF IndexPlace, Among, Out
  <2> QED BY <2>3, <2>5, <2>8
<1>7. ASSUME NEW c \in Ctas
      PROVE  mma[c] \in MmaRec(launch) /\ IF c = Leader THEN MmaPlace(launch, mma[c]) ELSE ForwardPlace(launch, mma[c])
  <2>1. PICK a : a = Acquire(c, 1) OBVIOUS
  <2>2. PICK me : me = [at |-> a, t |-> 1, k |-> 0, n |-> 0, a |-> 0] OBVIOUS
  <2>3. mma[c] = me BY <1>7, <2>1, <2>2 DEF Init
  <2>4. a = IF c = Leader THEN IF Count(launch) > 0 THEN "acquire" ELSE "tail"
            ELSE IF Count(launch) = 0 THEN "done"
            ELSE IF launch.gather # "none" /\ ~launch.tmaGather /\ KOf(launch, 1) > 0 THEN "k" ELSE "read"
    BY <1>1, <1>3, <2>1 DEF Acquire, Forwards
  <2>5. me \in MmaRec(launch) /\ me.t = 1 /\ me.k = 0 /\ me.n = 0 /\ me.a = 0 /\ me.at = a
    BY <1>1, <2>2, <2>4 DEF MmaRec
  <2>6. CASE c = Leader
    <3>1. MmaPlace(launch, me) BY <1>1, <2>4, <2>5, <2>6 DEF MmaPlace, Among, Out
    <3> QED BY <2>3, <2>5, <2>6, <3>1
  <2>7. CASE c # Leader
    <3>1. ForwardPlace(launch, me) BY <1>1, <2>4, <2>5, <2>7 DEF ForwardPlace, Among, Out
    <3> QED BY <2>3, <2>5, <2>7, <3>1
  <2> QED BY <2>6, <2>7
<1>8. ASSUME NEW c \in Ctas PROVE epi[c] \in EpiRec(launch) /\ EpiPlace(launch, epi[c])
  <2>1. PICK a : a = OrDone(1, "peek") OBVIOUS
  <2>2. PICK me : me = [at |-> a, t |-> 1, next |-> 1, sub |-> 0, a |-> 0, r |-> 0] OBVIOUS
  <2>3. epi[c] = me BY <1>8, <2>1, <2>2 DEF Init
  <2>4. a = IF Count(launch) > 0 THEN "peek" ELSE "done" BY <1>3, <2>1 DEF OrDone
  <2>5. /\ me \in EpiRec(launch) /\ me.t = 1 /\ me.next = 1 /\ me.sub = 0 /\ me.a = 0 /\ me.r = 0 /\ me.at = a
    BY <1>1, <2>2, <2>4 DEF EpiRec
  <2>6. EpiPlace(launch, me) BY <1>1, <2>4, <2>5 DEF EpiPlace, Among, Out
  <2> QED BY <2>3, <2>5, <2>6
<1>9. ASSUME NEW c \in Ctas PROVE cload[c] \in CLoadRec(launch) /\ CLoadPlace(launch, cload[c])
  <2>1. PICK a : a = IF HasC THEN OrDone(1, "begin") ELSE "done" OBVIOUS
  <2>2. PICK me : me = [at |-> a, t |-> 1, sub |-> 0, r |-> 0] OBVIOUS
  <2>3. cload[c] = me BY <1>9, <2>1, <2>2 DEF Init
  <2>4. a = IF launch.cStages > 0 /\ Count(launch) > 0 THEN "begin" ELSE "done" BY <1>1, <1>3, <2>1 DEF OrDone
  <2>5. me \in CLoadRec(launch) /\ me.t = 1 /\ me.sub = 0 /\ me.r = 0 /\ me.at = a BY <1>1, <2>2, <2>4 DEF CLoadRec
  <2>6. CLoadPlace(launch, me) BY <1>1, <1>4, <2>4, <2>5 DEF CLoadPlace, Among, Out
  <2> QED BY <2>3, <2>5, <2>6
<1>10. ASSUME NEW c \in Ctas
       PROVE  /\ sched[c] \in SchedRec(launch) /\ SchedPlace(launch, sched[c])
              /\ c # Leader => sched[c].at \in {"read", "done"}
  <2>1. PICK a : a = Throttled(c, 1) OBVIOUS
  <2>2. PICK me : me = [at |-> a, t |-> 1, gen |-> 0] OBVIOUS
  <2>3. sched[c] = me BY <1>10, <2>1, <2>2 DEF Init
  <2>4. a = IF c # 0 THEN IF Count(launch) > 0 THEN "read" ELSE "done"
            ELSE IF Count(launch) = 0 THEN "tail" ELSE IF launch.clc THEN "sync" ELSE "write"
    BY <1>1, <1>3, <2>1 DEF Throttled
  <2>5. me \in SchedRec(launch) /\ me.t = 1 /\ me.at = a BY <1>1, <2>2, <2>4 DEF SchedRec
  <2>6. SchedPlace(launch, me) BY <1>1, <2>4, <2>5 DEF SchedPlace, Among, Out
  <2> QED BY <1>2, <2>3, <2>4, <2>5, <2>6
<1>11. Types
  <2>1. load \in [Ctas -> [Loads -> LoadRec(launch)]]
    <3>1. PICK f : f = [c \in Ctas |-> [w \in Loads |-> load[c][w]]] OBVIOUS
    <3>2. load = f BY <3>1 DEF Init
    <3> QED BY <1>5, <3>1, <3>2
  <2>2. index \in [Ctas -> IndexRec(launch)] BY <1>6 DEF Init
  <2>3. mma \in [Ctas -> MmaRec(launch)] BY <1>7 DEF Init
  <2>4. epi \in [Ctas -> EpiRec(launch)] BY <1>8 DEF Init
  <2>5. cload \in [Ctas -> CLoadRec(launch)] BY <1>9 DEF Init
  <2>6. sched \in [Ctas -> SchedRec(launch)] BY <1>10 DEF Init
  <2> QED BY <1>1, <2>1, <2>2, <2>3, <2>4, <2>5, <2>6 DEF Types
<1>12. Places BY <1>2, <1>5, <1>6, <1>7, <1>8, <1>9, <1>10 DEF Places
<1> QED BY <1>11, <1>12
-----------------------------------------------------------------------------
(* The rings of Init.                                                      *)
LEMMA BarsTyped ==
  ASSUME NEW d, NEW n \in Int
  PROVE  Bars(d, n) \in [0..d - 1 -> Bar] /\ \A s \in 0..d - 1 : Bars(d, n)[s] = State(0, n, 0)
BY DEF Bars, Fresh, State, Bar

(* A fresh ring is a ring, with fresh barriers.                            *)
LEMMA RingTyped ==
  ASSUME NEW d, NEW D, NEW x \in D, NEW n \in Int, NEW m \in Int
  PROVE  /\ Ring(d, x, n, m) \in RingOf(d, D)
         /\ Ring(d, x, n, m).full = Bars(d, n) /\ Ring(d, x, n, m).empty = Bars(d, m)
<1>1. Bars(d, n) \in [0..d - 1 -> Bar] /\ Bars(d, m) \in [0..d - 1 -> Bar] BY BarsTyped
<1> QED BY <1>1 DEF Ring, RingOf

(* The rings and barriers of Init.                                         *)
LEMMA InitRings ==
  ASSUME Init
  PROVE  /\ RingTypes
         /\ \A c \in Ctas : /\ ab[c].full = Bars(AbStages, AbArrivals(launch, c)) /\ ab[c].empty = Bars(AbStages, 1)
                            /\ idx[c].full = Bars(IdxStages(launch), 1)
                            /\ idx[c].empty = Bars(IdxStages(launch), Cardinality(Loads))
                            /\ cring[c].full = Bars(launch.cStages, 1) /\ cring[c].empty = Bars(launch.cStages, 1)
                            /\ acc.full[c] = Bars(AccStages(launch), 1)
         /\ slot.full = Bars(SlotStages(launch), 1) /\ slot.empty = Bars(SlotStages(launch), Cardinality(Readers))
         /\ acc.empty = Bars(AccStages(launch), Cardinality(Ctas))
<1>1. launch \in Launches BY DEF Init
<1>2. /\ IdxReaders(launch) = Cardinality(Loads) /\ launch.ctas = Cardinality(Ctas)
      /\ SlotReaders(launch) = Cardinality(Readers)
      /\ Cardinality(Loads) \in Int /\ Cardinality(Ctas) \in Int /\ Cardinality(Readers) \in Int
  <2>1. IsFiniteSet(Loads) /\ IsFiniteSet(Ctas) /\ IsFiniteSet(Readers) BY <1>1, CtasAre, ReadersCounted
  <2>2. Cardinality(Loads) \in Int /\ Cardinality(Ctas) \in Int /\ Cardinality(Readers) \in Int
    BY <2>1, FS_CardinalityType
  <2> QED BY <1>1, <2>2, CtasAre, ReadersCounted DEF IdxReaders
<1>3. Nothing \in Pair BY DEF Nothing, Pair
<1>4. [p \in 0..launch.loads |-> Nothing] \in [0..launch.loads -> Pair] BY <1>3
<1>5. \A c : AbArrivals(launch, c) \in Int
  <2>1. launch.loads \in Nat BY <1>1, LaunchIs
  <2> QED BY <2>1 DEF AbArrivals
<1>6. ASSUME NEW c \in Ctas
      PROVE  /\ ab[c] \in RingOf(AbStages, [0..launch.loads -> Pair])
             /\ ab[c].full = Bars(AbStages, AbArrivals(launch, c)) /\ ab[c].empty = Bars(AbStages, 1)
  <2>1. PICK D : D = [0..launch.loads -> Pair] OBVIOUS
  <2>2. PICK x \in D : x = [p \in 0..launch.loads |-> Nothing] BY <1>4, <2>1
  <2>3. PICK n \in Int : n = AbArrivals(launch, c) BY <1>5
  <2>0. PICK d : d = AbStages OBVIOUS
  <2>9. PICK m \in Int : m = 1 OBVIOUS
  <2>4. ab[c] = Ring(d, x, n, m) BY <2>0, <2>2, <2>3, <2>9 DEF Init
  <2>5. PICK r : r = Ring(d, x, n, m) OBVIOUS
  <2>6. r \in RingOf(d, D) /\ r.full = Bars(d, n) /\ r.empty = Bars(d, m) BY <2>5, RingTyped
  <2> QED BY <2>0, <2>9, <2>1, <2>3, <2>4, <2>5, <2>6
<1>7. ASSUME NEW c \in Ctas
      PROVE  /\ idx[c] \in RingOf(IdxStages(launch), Pair)
             /\ idx[c].full = Bars(IdxStages(launch), 1) /\ idx[c].empty = Bars(IdxStages(launch), Cardinality(Loads))
  <2>1. PICK n \in Int : n = Cardinality(Loads) BY <1>2
  <2>2. idx[c] = Ring(IdxStages(launch), Nothing, 1, n) BY <1>2, <2>1 DEF Init
  <2> QED BY <1>3, <2>1, <2>2, RingTyped
<1>8. ASSUME NEW c \in Ctas
      PROVE  /\ cring[c] \in RingOf(launch.cStages, Pair)
             /\ cring[c].full = Bars(launch.cStages, 1) /\ cring[c].empty = Bars(launch.cStages, 1)
  <2>1. cring[c] = Ring(launch.cStages, Nothing, 1, 1) BY DEF Init
  <2> QED BY <1>3, <2>1, RingTyped
<1>9. /\ slot \in RingOf(SlotStages(launch), Nat)
      /\ slot.full = Bars(SlotStages(launch), 1) /\ slot.empty = Bars(SlotStages(launch), Cardinality(Readers))
  <2>1. PICK n \in Int : n = Cardinality(Readers) BY <1>2
  <2>0. PICK x \in Nat : x = 0 OBVIOUS
  <2>2. PICK d : d = SlotStages(launch) OBVIOUS
  <2>3. slot = Ring(d, x, 1, n) BY <1>2, <2>0, <2>1, <2>2 DEF Init
  <2>4. PICK r : r = Ring(d, x, 1, n) OBVIOUS
  <2>5. r \in RingOf(d, Nat) /\ r.full = Bars(d, 1) /\ r.empty = Bars(d, n) BY <2>4, RingTyped
  <2> QED BY <2>1, <2>2, <2>3, <2>4, <2>5
<1>10. /\ acc.full = [c \in Ctas |-> Bars(AccStages(launch), 1)]
       /\ acc.empty = Bars(AccStages(launch), Cardinality(Ctas))
       /\ acc \in [full : [Ctas -> [0..AccStages(launch) - 1 -> Bar]], empty : [0..AccStages(launch) - 1 -> Bar]]
  <2>1. PICK e, f : e = Bars(AccStages(launch), Cardinality(Ctas)) /\ f = [c \in Ctas |-> Bars(AccStages(launch), 1)]
    OBVIOUS
  <2>2. acc = [full |-> f, empty |-> e] BY <1>2, <2>1 DEF Init
  <2>3. e \in [0..AccStages(launch) - 1 -> Bar] BY <1>2, <2>1, BarsTyped
  <2>4. Bars(AccStages(launch), 1) \in [0..AccStages(launch) - 1 -> Bar] BY BarsTyped
  <2>5. f \in [Ctas -> [0..AccStages(launch) - 1 -> Bar]] BY <2>1, <2>4
  <2> QED BY <2>1, <2>2, <2>3, <2>5
<1>11. ab \in [Ctas -> RingOf(AbStages, [0..launch.loads -> Pair])] BY <1>6 DEF Init
<1>12. idx \in [Ctas -> RingOf(IdxStages(launch), Pair)] BY <1>7 DEF Init
<1>13. cring \in [Ctas -> RingOf(launch.cStages, Pair)] BY <1>8 DEF Init
<1>14. tmem \in [Ctas -> [{0, 1} -> [Subs -> Pair]]] BY <1>3 DEF Init
<1>15. gate \in [arrived : {0, 1}, gen : {0, 1}] /\ met \in [Ctas -> Nat] BY DEF Init
<1>16. RingTypes BY <1>9, <1>10, <1>11, <1>12, <1>13, <1>14, <1>15 DEF RingTypes
<1> QED BY <1>6, <1>7, <1>8, <1>9, <1>10, <1>16

(* Every reader is at the first tile.                                      *)
LEMMA InitSlots ==
  ASSUME Init, Types, Places
  PROVE  SlotsOK
<1>1. launch \in Launches BY DEF Init
<1>2. Leader \in Ctas /\ IsFiniteSet(Readers) BY <1>1, CtasAre, ReadersCounted
<1>3. Written = 0
  <2>1. sched[Leader].at # "read" /\ sched[Leader].t = 1 BY <1>2 DEF Init, Throttled, Leader
  <2> QED BY <2>1 DEF Written
<1>4. ASSUME NEW x \in Readers PROVE TileOf(x) = 1
  <2>1. CASE \E c \in Ctas, w \in Loads : x = <<"load", <<c, w>>>>
    <3>1. PICK c \in Ctas, w \in Loads : x = <<"load", <<c, w>>>> BY <2>1
    <3>2. load[c][w].t = 1 BY DEF Init
    <3> QED BY <3>1, <3>2, TilesAre
  <2>2. CASE \E c \in Ctas, kind \in {"mma", "epi", "sched", "index", "cload"} : x = <<kind, <<c, 0>>>>
    <3>1. PICK c \in Ctas, kind \in {"mma", "epi", "sched", "index", "cload"} : x = <<kind, <<c, 0>>>> BY <2>2
    <3>2. mma[c].t = 1 /\ epi[c].t = 1 /\ sched[c].t = 1 /\ index[c].t = 1 /\ cload[c].t = 1 BY DEF Init
    <3>3. epi[c].at \notin {"acc", "c"} BY DEF Init, OrDone
    <3>4. EpiTile(c) = 1 BY <3>2, <3>3 DEF EpiTile
    <3> QED BY <3>1, <3>2, <3>4, TilesAre
  <2> QED BY <2>1, <2>2, ReadersAre
<1>5. \A x \in Readers : SlotsRead[x] = 0 BY <1>4 DEF SlotsRead
<1>6. PICK d \in Nat \ {0} : d = SlotStages(launch) BY <1>1, Depths
<1>7. PICK R, r : R = Readers /\ r = SlotsRead OBVIOUS
<1>8. Emptying(Bars(d, Cardinality(R)), R, r, 0, d) /\ Within(R, r, 0, d) BY <1>2, <1>5, <1>7, EmptyingInit
<1>9. Settled(Bars(d, 1), 0, d) BY SettledInit
<1>10. slot.full = Bars(d, 1) /\ slot.empty = Bars(d, Cardinality(R)) BY <1>6, <1>7, InitRings
<1>11. \A q \in 0..0 - 1 : FALSE OBVIOUS
<1> QED BY <1>3, <1>6, <1>7, <1>8, <1>9, <1>10, <1>11 DEF SlotsOK

(* No C stage is filled.                                                   *)
LEMMA InitC ==
  ASSUME Init, Types
  PROVE  CRingOK
<1>1. launch \in Launches BY DEF Init
<1>2. PICK d \in Nat : d = launch.cStages BY <1>1, Depths
<1>3. Settled(Bars(d, 1), 0, d) BY SettledInit
<1>4. \A c \in Ctas : cring[c].full = Bars(d, 1) /\ cring[c].empty = Bars(d, 1) BY <1>2, InitRings
<1>5. \A c \in Ctas : cload[c].r = 0 /\ epi[c].r = 0 BY DEF Init
<1>6. ASSUME NEW t \in 1..N, NEW s \in Subs PROVE ~(CBefore(launch)[t] + s < 0)
  <2>1. t \in 1..Count(launch) + 1 /\ s \in Nat
    <3>1. Count(launch) \in Nat /\ launch.subtiles \in Nat BY <1>1, LaunchIs
    <3> QED BY <3>1, Names DEF Subs
  <2>2. CBefore(launch)[t] \in Nat BY <1>1, <2>1, CBeforeIs
  <2> QED BY <2>1, <2>2
<1> QED BY <1>2, <1>3, <1>4, <1>5, <1>6 DEF CRingOK

(* No index is put.                                                        *)
LEMMA InitIndexes ==
  ASSUME Init, Types
  PROVE  IndexRingOK
<1>1. launch \in Launches BY DEF Init
<1>2. IsFiniteSet(Loads) BY <1>1, CtasAre
<1>3. PICK d \in Nat : d = IdxStages(launch) BY <1>1, Depths
<1>4. Settled(Bars(d, 1), 0, d) BY SettledInit
<1>5. ASSUME NEW c \in Ctas
      PROVE  /\ Settled(idx[c].full, index[c].i, d) /\ index[c].i = 0
             /\ Emptying(idx[c].empty, Loads, IndexesRead(c), index[c].i, d)
             /\ Within(Loads, IndexesRead(c), index[c].i, d)
  <2>1. PICK r : r = IndexesRead(c) OBVIOUS
  <2>2. \A w \in Loads : r[w] = 0
    <3>1. \A w \in Loads : load[c][w].i = 0 BY DEF Init
    <3> QED BY <2>1, <3>1 DEF IndexesRead
  <2>3. Emptying(Bars(d, Cardinality(Loads)), Loads, r, 0, d) /\ Within(Loads, r, 0, d) BY <1>2, <2>2, EmptyingInit
  <2>4. idx[c].full = Bars(d, 1) /\ idx[c].empty = Bars(d, Cardinality(Loads)) BY <1>3, InitRings
  <2>5. index[c].i = 0 BY DEF Init
  <2> QED BY <1>4, <2>1, <2>3, <2>4, <2>5
<1>6. \A q \in 0..0 - 1 : FALSE OBVIOUS
<1> QED BY <1>3, <1>5, <1>6 DEF IndexRingOK
-----------------------------------------------------------------------------
(* No accumulator is committed.                                            *)
LEMMA InitAcc ==
  ASSUME Init, Types
  PROVE  AccRingOK /\ TmemOK
<1>1. launch \in Launches BY DEF Init
<1>2. Leader \in Ctas /\ IsFiniteSet(Ctas) /\ launch.subtiles \in Nat \ {0} BY <1>1, CtasAre, LaunchIs
<1>3. PICK d \in Nat : d = AccStages(launch)
  <2>1. AccStages(launch) \in {1, 2} BY <1>1, Depths
  <2> QED BY <2>1
<1>4. mma[Leader].a = 0 /\ mma[Leader].at # "k" BY <1>2 DEF Init, Acquire
<1>5. \A c \in Ctas : epi[c].a = 0 /\ epi[c].sub = 0 /\ epi[c].at # "c" BY DEF Init, OrDone
<1>6. PICK r : r = Freed OBVIOUS
<1>7. \A c \in Ctas : r[c] = 0
  <2>1. ReleaseAt \in Nat BY <1>1, ReleaseIs
  <2>2. \A c \in Ctas : FreedBy(ReleaseAt, epi[c]) = 0 BY <1>5, <2>1 DEF FreedBy
  <2> QED BY <1>6, <2>2, FreedIs
<1>8. Settled(Bars(d, 1), 0, d) BY SettledInit
<1>9. Emptying(Bars(d, Cardinality(Ctas)), Ctas, r, 0, d) /\ Within(Ctas, r, 0, d) BY <1>2, <1>7, EmptyingInit
<1>10. (\A c \in Ctas : acc.full[c] = Bars(d, 1)) /\ acc.empty = Bars(d, Cardinality(Ctas)) BY <1>3, InitRings
<1>11. AccRingOK BY <1>3, <1>4, <1>5, <1>6, <1>8, <1>9, <1>10 DEF AccRingOK
<1>12. TmemOK
  <2>1. ASSUME NEW c \in Ctas, NEW p \in 0..N - 1, NEW i PROVE ~Unread(c, p, i)
    <3>1. Count(launch) \in Nat BY <1>1, LaunchIs
    <3>2. p \in Nat BY <3>1, Names
    <3> QED BY <1>4, <3>2 DEF Unread
  <2> QED BY <1>4, <2>1 DEF TmemOK
<1> QED BY <1>11, <1>12

(* Nothing has been issued.                                                *)
LEMMA InitAb ==
  ASSUME Init, Types, RingTypes, Places
  PROVE  AbRingOK /\ AbDataOK
<1>1. launch \in Launches /\ Leader \in Ctas /\ Leader = 0 /\ AbStages \in Nat \ {0} /\ (launch.ctas = 2 => 1 \in Ctas)
  BY AbTyped
<1>2. flying = {} /\ mma[Leader].n = 0 /\ OtherAt(mma) = 0 BY <1>1 DEF Init, OtherAt
<1>3. \A c \in Ctas, w \in Loads : load[c][w].n = 0 BY DEF Init
<1>4. ASSUME NEW q \in Rounds(0)
      PROVE  /\ q \in Nat /\ q % AbStages = q /\ Turn(q, AbStages) = 0 /\ q \in 0..AbStages - 1
             /\ LeaderFull(load, {}, 0, q) = State(0, AbArrivals(launch, Leader), 0)
             /\ launch.ctas = 2 => OtherFull(load, {}, q) = State(0, AbArrivals(launch, 1), 0)
             /\ \A c \in Ctas, p \in Units : ~HereIn(load, {}, c, q, p)
  <2>1. q \in Nat /\ q < AbStages /\ q \in 0..AbStages - 1 BY <1>1, <1>4 DEF Rounds
  <2>2. q % AbStages = q /\ Turn(q, AbStages) = 0 BY <1>1, <2>1, Lap
  <2>3. \A c \in Ctas, w \in Loads : load[c][w].n \in Nat /\ load[c][w].n <= q BY <1>3, <2>1
  <2>4. CpAsync /\ launch.ctas = 2 => 0 <= q BY <2>1
  <2>5. PICK ld, fl : ld = load /\ fl = {} OBVIOUS
  <2>9. PICK F \in Nat : F = 0 OBVIOUS
  <2>6. /\ LeaderFull(ld, fl, F, q) = State(Turn(q, AbStages), AbArrivals(launch, Leader), 0)
        /\ launch.ctas = 2 => OtherFull(ld, fl, q) =
             IF CpAsync THEN State(Turn(q, AbStages), launch.loads, 0) ELSE State(0, 1, 0)
    BY <1>1, <2>1, <2>3, <2>4, <2>5, <2>9, NothingFull
  <2>7. \A c \in Ctas, p \in Units : ~HereIn(ld, fl, c, q, p) BY <1>1, <2>1, <2>3, <2>5, NothingSent
  <2>8. launch.ctas = 2 => AbArrivals(launch, 1) = IF CpAsync THEN launch.loads ELSE 1
    <3>1. PICK n \in Nat : n = launch.loads
      <4>1. launch.loads \in Nat BY <1>1, LaunchIs
      <4> QED BY <4>1
    <3> QED BY <3>1 DEF AbArrivals, CpAsync, Gathers, Leader
  <2> QED BY <2>1, <2>2, <2>5, <2>6, <2>7, <2>8, <2>9
<1>5. ASSUME NEW c \in Ctas, NEW q \in Rounds(0) PROVE ab[c].full[q % AbStages] = State(0, AbArrivals(launch, c), 0)
  <2>1. PICK n \in Int : n = AbArrivals(launch, c)
    <3>1. AbArrivals(launch, c) \in Nat BY AbTyped
    <3> QED BY <3>1
  <2>2. ab[c].full = Bars(AbStages, n) BY <2>1, InitRings
  <2> QED BY <1>4, <2>1, <2>2, BarsTyped
<1>6. Settled(Bars(AbStages, 1), 0, AbStages) BY <1>1, SettledInit
<1>7. \A c \in Ctas : ab[c].empty = Bars(AbStages, 1) BY InitRings
<1>8. AbAt(ab, load, {}, 0, 0)
  <2>1. Ahead(load, 0) BY <1>1, <1>3 DEF Ahead
  <2>2. EmptyOK(ab, 0) BY <1>6, <1>7 DEF EmptyOK
  <2>3. LeaderOK(ab, load, {}, 0, 0) BY <1>1, <1>4, <1>5 DEF LeaderOK
  <2>4. OtherOK(ab, load, {}, 0, 0)
    <3>1. \A q \in Rounds(0) : ~(q < 0) BY <1>4
    <3> QED BY <1>1, <1>4, <1>5, <3>1 DEF OtherOK
  <2>5. FlyingOK(load, {}, 0) BY DEF FlyingOK
  <2>6. DataOK(ab, load, {}, 0) BY <1>4 DEF DataOK
  <2> QED BY <2>1, <2>2, <2>3, <2>4, <2>5, <2>6 DEF AbAt
<1> QED BY <1>1, <1>2, <1>8, AbIs

(* No load warp has signalled.                                             *)
LEMMA InitMet ==
  ASSUME Init
  PROVE  MetOK
<1>1. launch \in Launches BY DEF Init
<1> SUFFICES ASSUME NEW c \in Ctas PROVE met[c] = Cardinality({w \in Loads : Signalled(launch, load[c][w])})
  BY DEF MetOK
<1>2. \A k : HasC => KTile(k, 1) # "read" /\ Tile(1) # "read" BY DEF Tile, KTile, Signals
<1>3. ASSUME NEW w \in Loads PROVE ~Signalled(launch, load[c][w])
  <2>1. load[c][w].t = 1 /\ load[c][w].at = Begin(c, w, 1) BY DEF Init
  <2>2. HasC => Begin(c, w, 1) # "read" BY <1>2 DEF Begin
  <2> QED BY <2>1, <2>2, Names DEF Signalled
<1>4. {w \in Loads : Signalled(launch, load[c][w])} = {} BY <1>3
<1>5. met[c] = 0 BY DEF Init
<1> QED BY <1>4, <1>5, FS_EmptySet

(* The inductive invariant holds at the start.                             *)
LEMMA InitInv == Init => IInv
<1> SUFFICES ASSUME Init PROVE IInv OBVIOUS
<1>1. Types /\ Places BY InitPlaces
<1>2. RingTypes BY InitRings
<1>3. SlotsOK /\ CRingOK /\ IndexRingOK /\ AccRingOK /\ TmemOK BY <1>1, InitSlots, InitC, InitIndexes, InitAcc
<1>4. AbRingOK /\ AbDataOK /\ MetOK BY <1>1, <1>2, InitAb, InitMet
<1> QED BY <1>1, <1>2, <1>3, <1>4 DEF IInv

(* Every step keeps the inductive invariant.                               *)
LEMMA NextInv == IInv /\ [Next]_vars => IInv'
<1> SUFFICES ASSUME Types, RingTypes, Places, SlotsOK, CRingOK, IndexRingOK, AccRingOK, TmemOK,
                    AbRingOK, AbDataOK, MetOK, [Next]_vars
             PROVE  IInv'
  BY DEF IInv
<1>1. Types' /\ Places' BY PlacesStep
<1>2. RingTypes' BY RingTypesStep
<1>3. SlotsOK' BY SlotsStep
<1>4. CRingOK' BY CRingStep
<1>5. IndexRingOK' BY IndexRingStep
<1>6. AccRingOK' BY AccRingStep
<1>7. TmemOK' BY TmemStep
<1>8. AbRingOK' /\ AbDataOK' BY AbStep
<1>9. MetOK' BY MetStep
<1> QED BY <1>1, <1>2, <1>3, <1>4, <1>5, <1>6, <1>7, <1>8, <1>9 DEF IInv

(* The inductive invariant holds in every reachable state of every launch. *)
THEOREM Invariant == Spec => []IInv
<1>1. Init => IInv BY InitInv
<1>2. IInv /\ [Next]_vars => IInv' BY NextInv
<1> QED BY <1>1, <1>2, PTL DEF Spec
-----------------------------------------------------------------------------
(* What the invariant is for.                                              *)

(* All of a stage that is multiplied is the k-tile's.                      *)
LEMMA OwnOperands == IInv => ReadsOwnOperands
<1> SUFFICES ASSUME IInv, mma[Leader].at = "k", mma[Leader].k < K(mma[Leader].t),
                    IsFull(ab[Leader].full, mma[Leader].n),
                    NEW c \in Ctas, NEW p \in 0..launch.loads
             PROVE  ab[c].data[Stage(ab[c].full, mma[Leader].n)][p] = <<mma[Leader].t, mma[Leader].k>>
  BY DEF ReadsOwnOperands
<1> DEFINE me == mma[Leader]
           F == OtherAt(mma)
<1>1. launch \in Launches /\ Types /\ Places /\ RingTypes BY DEF IInv, Types
<1>2. Leader \in Ctas /\ (launch.ctas = 2 => 1 \in Ctas) BY <1>1, CtasAre
<1>3. me \in MmaRec(launch) /\ MmaPlace(launch, me) BY <1>1, <1>2 DEF Types, Places
<1>4. PICK M \in Nat, t \in TilesOf(launch), k \in Nat : M = me.n /\ t = me.t /\ k = me.k
  BY <1>3 DEF MmaRec
<1>5. t \in 1..Count(launch) /\ M = KBefore(launch)[t] + k /\ k < KOf(launch, t)
  BY <1>3, <1>4, Names DEF MmaPlace, Among, Out
<1>6. At(launch, M) = <<t, k>> BY <1>1, <1>4, <1>5, AtIs
<1>7. F \in Nat
  <2>1. launch.ctas = 2 => mma[1].n \in Nat BY <1>1, <1>2 DEF Types, MmaRec
  <2> QED BY <2>1 DEF OtherAt
<1>8. AbAt(ab, load, flying, F, M) BY <1>1, <1>4, AbIs DEF IInv
<1>9. \A d \in Ctas : DOMAIN ab[d].full = 0..AbStages - 1 BY <1>1 DEF RingTypes, RingOf
<1>10. LetsMultiply(ab, M) BY <1>2, <1>4, <1>9 DEF LetsMultiply
<1> HIDE DEF F
<1>11. Complete(ab, load, flying, F, M) BY <1>1, <1>7, <1>8, <1>10, CompleteAt
<1>12. PICK u \in Units : p \in PartsOf(u)
  <2>1. CASE Gathers BY <2>1 DEF Units, PartsOf
  <2>2. CASE ~Gathers
    <3>1. launch.loads = 1 BY <1>1, <2>2, LaunchIs DEF Gathers
    <3>2. p = 0 \/ p = PartB BY <3>1 DEF PartB
    <3> QED BY <2>2, <3>2 DEF Units, PartsOf
  <2> QED BY <2>1, <2>2
<1>13. HereIn(load, flying, c, M, u) /\ M \in Rounds(M) BY <1>11 DEF Complete
<1>14. ab[c].data[M % AbStages][p] = At(launch, M) BY <1>8, <1>12, <1>13 DEF AbAt, DataOK
<1>15. Stage(ab[c].full, M) = M % AbStages
  <2>1. PICK d \in Nat \ {0} : d = AbStages BY <1>1, Depths
  <2>2. PICK bars : bars = ab[c].full OBVIOUS
  <2>3. DOMAIN bars = 0..d - 1 BY <1>9, <2>1, <2>2
  <2>4. Stage(bars, M) = M % d BY <2>3, StageIs
  <2> QED BY <2>1, <2>2, <2>4
<1> QED BY <1>4, <1>6, <1>14, <1>15

(* An accumulator that the epilogue reads has been committed.              *)
LEMMA Committed ==
  ASSUME IInv, NEW c \in Ctas, HasAcc(c)
  PROVE  epi[c].a < mma[Leader].a
<1> DEFINE d == AccStages(launch)
<1>1. launch \in Launches /\ Types BY DEF IInv, Types
<1>2. d \in Nat \ {0} /\ Leader \in Ctas BY <1>1, CtasAre, Depths
<1>3. PICK m \in Nat, a0 \in Nat, s0 \in Nat : m = mma[Leader].a /\ a0 = epi[c].a /\ s0 = epi[c].sub
  <2>1. launch.subtiles \in Nat BY <1>1, LaunchIs
  <2>2. mma[Leader] \in MmaRec(launch) /\ epi[c] \in EpiRec(launch) BY <1>1, <1>2 DEF Types
  <2> QED BY <2>1, <2>2 DEF EpiRec, MmaRec
<1>4. /\ Settled(acc.full[c], m, d) /\ Within(Ctas, Freed, m, d)
      /\ epi[c].sub > 0 => epi[c].a < m
  BY <1>3 DEF IInv, AccRingOK
<1> HIDE DEF d
<1>5. CASE s0 = 0
  <2>1. Freed[c] \in Nat /\ Freed[c] <= m /\ m <= Freed[c] + d BY <1>4 DEF Within
  <2>2. Freed[c] = a0 \/ Freed[c] = a0 + 1 BY <1>3, FreedIs DEF FreedBy
  <2>3. IsFull(acc.full[c], a0) BY <1>3, <1>5 DEF HasAcc
  <2>4. CASE Freed[c] = a0
    <3>1. m <= a0 + d /\ a0 < m + d BY <1>2, <1>3, <2>1, <2>4
    <3>2. PICK b : b = acc.full[c] OBVIOUS
    <3>3. Settled(b, m, d) /\ IsFull(b, a0) BY <1>4, <2>3, <3>2
    <3>4. a0 < m BY <1>2, <3>1, <3>3, SettledSees
    <3> QED BY <1>3, <3>4
  <2>5. CASE Freed[c] = a0 + 1 BY <1>3, <2>1, <2>5
  <2> QED BY <2>2, <2>4, <2>5
<1>6. CASE s0 # 0 BY <1>3, <1>4, <1>6
<1> QED BY <1>5, <1>6

(* What the epilogue reads, of the accumulator and of C, is its tile's.    *)
LEMMA OwnAccumulator == IInv => ReadsOwnAccumulator
<1> SUFFICES ASSUME IInv, NEW c \in Ctas
             PROVE  LET me == epi[c] IN
                    /\ (HasAcc(c) /\ K(me.t) > 0) => tmem[c][AccBuffer(me.a)][me.sub] = <<me.t, K(me.t)>>
                    /\ (me.at = "c" /\ IsFull(cring[c].full, me.r)) =>
                         cring[c].data[Stage(cring[c].full, me.r)] = <<me.t, me.sub>>
  BY DEF ReadsOwnAccumulator
<1> DEFINE me == epi[c]
<1>1. launch \in Launches /\ Types /\ Places /\ RingTypes BY DEF IInv, Types
<1>2. me \in EpiRec(launch) /\ EpiPlace(launch, me) BY <1>1 DEF Types, Places
<1>3. Count(launch) \in Nat BY <1>1, LaunchIs
<1>4. PICK t \in TilesOf(launch), s \in Subs, a \in Nat, r \in Nat : t = me.t /\ s = me.sub /\ a = me.a /\ r = me.r
  BY <1>2 DEF EpiRec, Subs
<1>5. ASSUME HasAcc(c), K(t) > 0 PROVE tmem[c][AccBuffer(a)][s] = <<t, K(t)>>
  <2>1. me.at = "acc" BY <1>5 DEF HasAcc
  <2>2. t \in 1..Count(launch) /\ a = t - 1 BY <1>2, <1>4, <2>1 DEF EpiPlace, Among, Out
  <2>3. N = Count(launch) BY Names
  <2>4. a \in 0..N - 1 /\ a + 1 = t BY <1>3, <2>2, <2>3
  <2>5. a < mma[Leader].a BY <1>4, <1>5, Committed
  <2>6. s <= s
    <3>1. launch.subtiles \in Nat BY <1>1, LaunchIs
    <3> QED BY <3>1 DEF Subs
  <2>7. Unread(c, a, s) BY <1>4, <2>1, <2>5, <2>6 DEF Unread
  <2>8. tmem[c][a % 2][s] = <<a + 1, K(a + 1)>> BY <1>5, <2>4, <2>7 DEF IInv, TmemOK
  <2> QED BY <2>4, <2>8 DEF AccBuffer
<1>6. ASSUME me.at = "c", IsFull(cring[c].full, r)
      PROVE  cring[c].data[Stage(cring[c].full, r)] = <<t, s>>
  <2>1. t \in 1..Count(launch) /\ COf(launch, t) /\ r = CBefore(launch)[t] + s
    BY <1>2, <1>4, <1>6 DEF EpiPlace, Among, Out
  <2>2. HasC /\ UsesC(t) /\ N = Count(launch) BY <2>1, Names DEF COf
  <2>3. PICK d \in Nat \ {0} : d = launch.cStages BY <1>1, <2>2, Depths
  <2>4. PICK w \in Nat : w = cload[c].r BY <1>1 DEF Types, CLoadRec
  <2>5. PICK bars : bars = cring[c].full OBVIOUS
  <2>6. Settled(bars, w, d) /\ r <= w /\ w <= r + d BY <1>4, <2>2, <2>3, <2>4, <2>5 DEF IInv, CRingOK
  <2>7. r < w
    <3>1. w <= r + d /\ r < w + d BY <2>6
    <3>2. IsFull(bars, r) BY <1>6, <2>5
    <3> QED BY <2>6, <3>1, <3>2, SettledSees
  <2>8. cring[c].data[r % d] = <<t, s>>
    BY <2>1, <2>2, <2>3, <2>4, <2>6, <2>7 DEF IInv, CRingOK
  <2>9. Stage(bars, r) = r % d
    <3>1. DOMAIN bars = 0..d - 1 BY <2>6 DEF Settled
    <3> QED BY <3>1, StageIs
  <2> QED BY <2>5, <2>8, <2>9
<1> QED BY <1>4, <1>5, <1>6
-----------------------------------------------------------------------------
(* A round of positions comes by every stage.                              *)
LEMMA Covers ==
  ASSUME NEW d \in Nat \ {0}, NEW m \in Nat, NEW s \in 0..d - 1
  PROVE  \E q \in m..m + d - 1 : q % d = s
<1>1. PICK i \in Nat, r \in 0..d - 1 : r = m % d /\ m = d * i + r
  <2>1. m \div d \in Nat /\ m % d \in 0..d - 1 /\ m = d * (m \div d) + (m % d) BY DivMod
  <2> QED BY <2>1
<1>2. PICK x \in Nat, y \in Nat : x = d * i /\ y = d * (i + 1)
  <2>1. d * i \in Nat /\ d * (i + 1) \in Nat BY Z3
  <2> QED BY <2>1
<1>3. y = x + d
  <2>1. d * (i + 1) = d * i + d BY Z3
  <2> QED BY <1>2, <2>1
<1>4. (x + s) % d = s /\ (y + s) % d = s
  <2>1. ASSUME NEW j \in Nat, NEW z \in Nat, z = d * j PROVE (z + s) % d = s
    <3>1. PICK n \in Nat : n = z + s OBVIOUS
    <3>2. PICK u \in Nat, v \in 0..d - 1 : v = n % d /\ n = d * u + v
      <4>1. n \div d \in Nat /\ n % d \in 0..d - 1 /\ n = d * (n \div d) + (n % d) BY DivMod
      <4> QED BY <4>1
    <3>3. d * u = u * d /\ d * j = j * d /\ u * d \in Nat /\ j * d \in Nat BY Z3
    <3>4. v + u * d = s + j * d BY <2>1, <3>1, <3>2, <3>3
    <3>5. v = s BY <3>4, Unique
    <3> QED BY <3>1, <3>2, <3>5
  <2>2. i + 1 \in Nat OBVIOUS
  <2> QED BY <1>2, <2>1, <2>2
<1>5. CASE r <= s
  <2>1. x + s \in m..m + d - 1 BY <1>1, <1>2, <1>5
  <2> QED BY <1>4, <2>1
<1>6. CASE ~(r <= s)
  <2>1. y + s \in m..m + d - 1 BY <1>1, <1>2, <1>3, <1>6
  <2> QED BY <1>4, <2>1
<1> QED BY <1>5, <1>6

(* No barrier waits for less than nothing.                                 *)
LEMMA FillingOK ==
  ASSUME NEW y \in {0, 1}, NEW p \in Nat, NEW x, NEW count \in Nat
  PROVE  BarOK(Filling(y, p, x, count))
BY DEF Filling, State, BarOK

(* So for the barriers of the A/B ring: every stage's is that of a         *)
(* position of the round.                                                  *)
LEMMA AbBarsOK ==
  ASSUME IInv, NEW c \in Ctas, NEW s \in 0..AbStages - 1
  PROVE  BarOK(ab[c].full[s]) /\ BarOK(ab[c].empty[s])
<1>1. Types /\ RingTypes /\ Places BY DEF IInv
<1>2. launch \in Launches /\ AbStages \in Nat \ {0} BY <1>1, AbTyped
<1>3. PICK M \in Nat, F \in Nat : M = mma[Leader].n /\ F = OtherAt(mma) BY <1>1, AbTyped
<1>4. AbAt(ab, load, flying, F, M) BY <1>2, <1>3, AbIs DEF IInv
<1>5. PICK q \in Rounds(M) : q % AbStages = s
  <2>1. PICK d \in Nat \ {0} : d = AbStages BY <1>2
  <2>2. s \in 0..d - 1 BY <2>1
  <2>3. \E q \in M..M + d - 1 : q % d = s BY <2>2, Covers
  <2> QED BY <2>1, <2>3 DEF Rounds
<1>6. q \in Nat BY <1>2 DEF Rounds
<1>7. PICK y \in {0, 1} : y = Turn(q, AbStages) BY <1>2, <1>6, Lap
<1>8. BarOK(ab[c].empty[s])
  <2>1. Settled(ab[c].empty, M, AbStages) BY <1>4 DEF AbAt, EmptyOK
  <2>2. ab[c].empty[s] = State(y, 1, 0) BY <1>5, <1>7, <2>1 DEF Settled, Rounds
  <2> QED BY <2>2 DEF State, BarOK
<1>9. CASE c = Leader
  <2>1. ab[c].full[s] = LeaderFull(load, flying, F, q) BY <1>4, <1>5, <1>9 DEF AbAt, LeaderOK
  <2>2. PICK p \in Nat, n \in Nat : p = PendingIn(load, flying, F, q) /\ n = AbArrivals(launch, Leader)
    BY <1>2, <1>6, FullIs
  <2>3. LeaderFull(load, flying, F, q) = Filling(y, p, TxIn(load, flying, q), n) BY <1>7, <2>2 DEF LeaderFull
  <2>4. BarOK(Filling(y, p, TxIn(load, flying, q), n)) BY FillingOK
  <2> QED BY <1>8, <2>1, <2>3, <2>4
<1>10. CASE c # Leader
  <2>1. c = 1 /\ launch.ctas = 2 BY <1>2, <1>10, CtasAre
  <2>2. ab[c].full[s] = OtherFull(load, flying, q) BY <1>4, <1>5, <2>1 DEF AbAt, OtherOK
  <2>3. PICK n \in Nat, m \in Nat : n = Cardinality(WaitingIn(load, flying, 1, q)) /\ m = launch.loads
    BY <1>2, OwedFinite, LaunchIs
  <2>4. BarOK(Filling(y, n, 0, m)) BY FillingOK
  <2>5. BarOK(State(0, 1, 0)) BY DEF State, BarOK
  <2> QED BY <1>7, <1>8, <2>2, <2>3, <2>4, <2>5 DEF OtherFull
<1> QED BY <1>9, <1>10

(* The model's types.                                                      *)
LEMMA Typed == IInv => TypeOK
<1> SUFFICES ASSUME IInv PROVE TypeOK OBVIOUS
<1>1. launch \in Launches /\ Types /\ RingTypes BY DEF IInv, Types
<1>2. ASSUME NEW c \in Ctas, NEW w \in Loads
      PROVE  /\ load[c][w].at \in {"commit", "index", "fetch", "signal", "read", "tail", "done"}
             /\ {load[c][w].k, load[c][w].n, load[c][w].i} \subseteq Nat
  BY <1>1 DEF Types, LoadRec
<1>3. ASSUME NEW c \in Ctas
      PROVE  /\ index[c].at \in {"put", "done"}
             /\ mma[c].at \in {"acquire", "k", "read", "tail", "done"}
             /\ epi[c].at \in {"peek", "acc", "c", "done"} /\ epi[c].sub \in Subs
             /\ cload[c].at \in {"begin", "c", "tail", "done"}
             /\ sched[c].at \in {"sync", "synced", "write", "read", "tail", "done"}
  <2>1. index[c].at \in {"put", "done"} /\ mma[c].at \in {"acquire", "k", "read", "tail", "done"}
    BY <1>1 DEF Types, IndexRec, MmaRec
  <2>2. epi[c].at \in {"peek", "acc", "c", "done"} /\ epi[c].sub \in Subs BY <1>1 DEF Types, EpiRec, Subs
  <2>3. /\ cload[c].at \in {"begin", "c", "tail", "done"}
        /\ sched[c].at \in {"sync", "synced", "write", "read", "tail", "done"}
    BY <1>1 DEF Types, CLoadRec, SchedRec
  <2> QED BY <2>1, <2>2, <2>3
<1>4. ASSUME NEW c \in Ctas PROVE met[c] \in 0..launch.loads
  <2> DEFINE S == {w \in Loads : Signalled(launch, load[c][w])}
  <2>1. met[c] = Cardinality(S) BY DEF IInv, MetOK
  <2>2. S \subseteq Loads /\ IsFiniteSet(Loads) /\ Cardinality(Loads) = launch.loads BY <1>1, CtasAre
  <2>3. PICK n \in Nat : n = launch.loads BY <1>1, LaunchIs
  <2> HIDE DEF S
  <2>4. Cardinality(S) <= Cardinality(Loads) /\ IsFiniteSet(S) BY <2>2, FS_Subset
  <2>5. PICK m \in Nat : m = Cardinality(S) BY <2>4, FS_CardinalityType
  <2> QED BY <2>1, <2>2, <2>3, <2>4, <2>5
<1>5. gate.arrived \in {0, 1} BY <1>1 DEF RingTypes
<1>6. \A c \in Ctas, s \in 0..AbStages - 1 : BarOK(ab[c].full[s]) /\ BarOK(ab[c].empty[s]) BY AbBarsOK
<1> QED BY <1>1, <1>2, <1>3, <1>4, <1>5, <1>6 DEF TypeOK

(* Processes, barriers and counters stay within their types: no barrier of *)
(* the A/B ring is arrived at more often than it counts                    *)
(* (make_ab_pipeline).                                                     *)
THEOREM TypeCorrect == Spec => []TypeOK
BY Invariant, Typed, PTL

(* When the leader's barrier lets it multiply, the A and B of every CTA in *)
(* that stage are the tile's k-tile, for every number of load warps,       *)
(* stages and tiles, with TMA or cp.async gathers, by one CTA or two.      *)
THEOREM OperandsAreOwn == Spec => []ReadsOwnOperands
BY Invariant, OwnOperands, PTL

(* The epilogue of every CTA reads the sum of all k-tiles of its own tile, *)
(* also where scale factors overlay the other accumulator and it is        *)
(* released early (iter_acc_early_release), and its own subtile of C.      *)
THEOREM AccumulatorsAreOwn == Spec => []ReadsOwnAccumulator
BY Invariant, OwnAccumulator, PTL
=============================================================================
