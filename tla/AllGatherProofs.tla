--------------------------- MODULE AllGatherProofs ---------------------------
(***************************************************************************)
(* Proofs about AllGather, for every group of ranks, every number of       *)
(* chunks, every first epoch and every program that keeps the Contract.    *)
(*                                                                         *)
(* The argument: a call takes a buffer only when its own rank's barrier    *)
(* stream has released every earlier call on that buffer (Reuse), and the  *)
(* barrier lets a rank pass only when every rank's GEMM is done (Met).  A  *)
(* GEMM is done only behind its gates, so every peer's flag of that call   *)
(* had arrived (Arrived), and with it, in stream order, the copies before  *)
(* it.  So when a buffer, a snapshot or a flag is written for the next     *)
(* call that uses it, nobody on any rank still reads it for this one.      *)
(***************************************************************************)
EXTENDS AllGather, FiniteSetTheorems, WellFoundedInduction, TLAPS

Last(r) == Len(parity[r])

(* Which buffer is newest after each operation, by the Contract.           *)
Newest == CHOOSE newest \in [0..Len(setup.program) -> {0, 1}] : NewestAfter(setup.program, newest)

Count(i) == Cardinality({j \in 1..i : IsCall(j)})

(* Where q comes in s's ring, and s's copies of a call to q.               *)
To(s, q) == (s - q) % setup.ranks
Data(s, q, c) == Step("data", To(s, q), c)
Flag(s, q, c) == Step("flag", To(s, q), c)
Scale(s, q) == Step("scales", To(s, q), 1)

(* The push stream of s has done this copy of call j.                      *)
Did(s, j, copy) == push[s] > j \/ (push[s] = j /\ \E k \in 1..sent[s] : Copies[k] = copy)

(* The same for any rank: what stays at home is there once staged.         *)
Here(s, q, j, copy) == IF q = s THEN j <= Last(s) ELSE Did(s, j, copy)

Types ==
  /\ setup \in Setups
  /\ lastParity \in [Rank -> {0, 1}]
  /\ parity \in [Rank -> Seq({0, 1, Discover})]
  /\ compute \in [Rank -> 1..End]
  /\ gemm \in [Rank -> BOOLEAN]
  /\ passed \in [Rank -> SUBSET (Rank \X Chunk)]
  /\ push \in [Rank -> 1..End]
  /\ sent \in [Rank -> Nat]
  /\ barrier \in [Rank -> 1..End]
  /\ counter \in [Rank -> 0..EpochMod - 1]
  /\ epoch \in [Rank -> [{0, 1} -> 0..EpochMod - 1]]
  /\ flags \in [Rank -> [Rank -> [Chunk -> 0..EpochMod - 1]]]
  /\ bufs \in [Rank -> [{0, 1} -> [Rank -> [Chunk -> Stamp]]]]
  /\ scales \in [Rank -> [{0, 1} -> [Rank -> Stamp]]]
  /\ \A r \in Rank :
       /\ Last(r) = IF gemm[r] THEN compute[r] ELSE compute[r] - 1
       /\ gemm[r] => IsCall(compute[r])
       /\ passed[r] # {} => gemm[r]
       /\ push[r] = End \/ IsCall(push[r])
       /\ barrier[r] = End \/ IsCall(barrier[r])
       /\ sent[r] < Len(Copies)

(* A push stream has done the calls before its own, all staged.            *)
Pushed ==
  \A r \in Rank :
    /\ \A j \in Ops : IsCall(j) /\ j < push[r] => j <= Last(r)
    /\ sent[r] > 0 => IsCall(push[r]) /\ push[r] <= Last(r)

(* The host's parity is true but during replays.                           *)
Host ==
  \A r \in Rank :
    /\ \A i \in 1..Last(r) : IsCall(i) => parity[r][i] = Newest[i]
    /\ ~Captured(Last(r)) => lastParity[r] = Newest[Last(r)]

(* quiesce() waited for the eager calls before it.                         *)
Quiesced ==
  \A r \in Rank : \A k \in 1..Last(r) : \A j \in 1..k - 1 :
    ~IsCall(k) /\ IsCall(j) /\ ~Captured(j) => barrier[r] > j

(* A buffer is taken again only after its last call was released.          *)
Reuse ==
  \A r \in Rank : \A k \in 1..Last(r) : \A j \in 1..k - 1 :
    IsCall(j) /\ IsCall(k) /\ Newest[j] = Newest[k] => barrier[r] > j

(* Released on one rank, a call is done on all.                            *)
Met == \A r, q \in Rank : \A j \in Ops : IsCall(j) /\ barrier[r] > j => compute[q] > j

(* The counter, the newest snapshot and that of every call not overtaken   *)
(* on its buffer; the other buffer's snapshot is older.                    *)
Counts == \A r \in Rank : counter[r] = EpochOf(Last(r)) /\ epoch[r][Newest[Last(r)]] = EpochOf(Last(r))
Snapshots ==
  \A r \in Rank : \A j \in 1..Last(r) :
    IsCall(j) /\ (\A k \in j + 1..Last(r) : IsCall(k) => Newest[k] # Newest[j])
    => epoch[r][Newest[j]] = EpochOf(j)
Older ==
  \A r \in Rank :
    \/ \E d \in Newest[Last(r)]..Count(Last(r)) :
         /\ setup.epoch + d > 0
         /\ epoch[r][1 - Newest[Last(r)]] = (setup.epoch + d - 1) % EpochMod
    \/ setup.epoch = 0 /\ Count(Last(r)) = 0 /\ epoch[r][1 - Newest[Last(r)]] = 0

(* The flags at q from s are of s's last call to have raised them there.   *)
FlagOf(q, s, c) ==
  IF q = s THEN Last(s) ELSE IF Did(s, push[s], Flag(s, q, c)) THEN push[s] ELSE push[s] - 1
Flags == \A q, s \in Rank : \A c \in Chunk : flags[q][s][c] = EpochOf(FlagOf(q, s, c))

(* Behind its gates a GEMM has the flags of its call.                      *)
Arrived ==
  \A q, s \in Rank : \A c \in Chunk : \A j \in Ops :
    IsCall(j) /\ (compute[q] > j \/ (compute[q] = j /\ <<s, c>> \in passed[q]))
    => Here(s, q, j, Flag(s, q, c))

(* What is copied is there or was overwritten by a later call, and what is *)
(* there was copied.                                                       *)
Bytes ==
  \A q, s \in Rank : \A c \in Chunk :
    /\ \A j \in Ops : IsCall(j) /\ Here(s, q, j, Data(s, q, c)) => bufs[q][Newest[j]][s][c] >= j
    /\ \A p \in {0, 1} : \A k \in Ops : bufs[q][p][s][c] = k =>
         IsCall(k) /\ Newest[k] = p /\ Here(s, q, k, Data(s, q, c))
ScaleBytes ==
  setup.scaled => \A q, s \in Rank :
    /\ \A j \in Ops : IsCall(j) /\ Here(s, q, j, Scale(s, q)) => scales[q][Newest[j]][s] >= j
    /\ \A p \in {0, 1} : \A k \in Ops : scales[q][p][s] = k =>
         IsCall(k) /\ Newest[k] = p /\ Here(s, q, k, Scale(s, q))

IInv == /\ Types /\ Pushed /\ Host /\ Quiesced /\ Reuse /\ Met
        /\ Counts /\ Snapshots /\ Older /\ Flags /\ Arrived /\ Bytes /\ ScaleBytes

-----------------------------------------------------------------------------
(* A nonempty set of naturals has a least element.                         *)
LEMMA Least == ASSUME NEW T \in SUBSET Nat, T # {} PROVE \E x \in T : \A y \in T : x <= y
<1> DEFINE R == {ss \in Nat \X Nat : ss[1] < ss[2]}
<1>1. R = OpToRel(<, Nat) BY DEF OpToRel
<1>2. IsWellFoundedOn(R, Nat) BY <1>1, NatLessThanWellFounded
<1>3. \A a, b \in Nat : a < b => <<a, b>> \in R OBVIOUS
<1> HIDE DEF R
<1>4. PICK x \in T : \A y \in T : ~(<<y, x>> \in R) BY <1>2, WFMin
<1>5. \A y \in T : x <= y
  <2> TAKE y \in T
  <2>1. x \in Nat /\ y \in Nat OBVIOUS
  <2>2. ~(y < x) BY <2>1, <1>3, <1>4
  <2> QED BY <2>1, <2>2
<1> QED BY <1>5

(* Division with remainder.                                                *)
LEMMA DivMod == ASSUME NEW a \in Nat, NEW b \in Nat \ {0}
  PROVE /\ a \div b \in Nat /\ a % b \in 0..b-1 /\ a = b * (a \div b) + (a % b)
BY Z3

(* A product grows with its factors.                                       *)
LEMMA MulMono == ASSUME NEW a \in Nat, NEW b \in Nat, NEW c \in Nat, a <= b
  PROVE a * c <= b * c
BY Z3

(* A number has one remainder and one quotient.                            *)
LEMMA Unique == ASSUME NEW c \in Nat \ {0}, NEW x \in 0..c-1, NEW y \in 0..c-1,
   NEW a \in Nat, NEW b \in Nat, x + a * c = y + b * c
  PROVE x = y /\ a = b
<1>1. CASE a < b
  <2>1. a + 1 <= b BY <1>1
  <2>2. (a + 1) * c <= b * c BY <2>1, MulMono
  <2>3. (a + 1) * c = a * c + c BY Z3
  <2> QED BY <2>2, <2>3, Z3
<1>2. CASE b < a
  <2>2. (b + 1) * c <= a * c BY <1>2, MulMono
  <2>3. (b + 1) * c = b * c + c BY Z3
  <2> QED BY <2>2, <2>3, Z3
<1>3. CASE a = b BY <1>3
<1> QED BY <1>1, <1>2, <1>3

(* Dividing what was multiplied.                                           *)
LEMMA DivOf == ASSUME NEW b \in Nat \ {0}, NEW k \in Nat, NEW r \in 0..b-1
  PROVE (k * b + r) \div b = k /\ (k * b + r) % b = r
<1> DEFINE a == k * b + r
<1> DEFINE d == a \div b
<1> DEFINE m == a % b
<1>1. k * b \in Nat BY Z3
<1>1a. a \in Nat BY <1>1
<1>2. /\ d \in Nat /\ m \in 0..b-1 /\ a = b * d + m BY <1>1a, DivMod
<1>4. a = r + k * b BY <1>1
<1> HIDE DEF a, d, m
<1>3. b * d = d * b /\ d * b \in Nat BY <1>2, Z3
<1>5. m + d * b = r + k * b BY <1>1, <1>2, <1>3, <1>4
<1>6. m = r /\ d = k BY <1>2, <1>5, Unique
<1> QED BY <1>6 DEF a, d, m

(* Taking the remainder of a number below twice the modulus.               *)
LEMMA ModOnce == ASSUME NEW m \in Nat \ {0}, NEW x \in 0..2 * m - 1
  PROVE x % m = IF x < m THEN x ELSE x - m
<1>1. /\ x \div m \in Nat /\ x % m \in 0..m-1 /\ x = m * (x \div m) + (x % m) BY Z3
<1> DEFINE d == x \div m
<1>2. d \in Nat BY <1>1
<1> HIDE DEF d
<1>3. CASE d = 0 BY <1>1, <1>3 DEF d
<1>4. CASE d = 1 BY <1>1, <1>4 DEF d
<1>5. CASE d > 1
  <2>1. m * d >= m * 2 BY <1>2, <1>5, Z3
  <2> QED BY <1>1, <2>1 DEF d
<1> QED BY <1>2, <1>3, <1>4, <1>5

(* What the setups are.                                                    *)
LEMMA Setup ==
  ASSUME setup \in Setups
  PROVE /\ EpochMod \in Nat /\ EpochMod > 1 /\ setup.epoch \in 0..EpochMod - 1
        /\ setup.ranks \in Nat /\ setup.ranks > 1 /\ setup.chunks \in Nat \ {0}
        /\ setup.scaled \in BOOLEAN
        /\ Len(setup.program) \in Nat /\ Len(setup.program) < EpochMod \div 2
        /\ End = Len(setup.program) + 1 /\ End \in Nat \ {0} /\ Ops = 1..End - 1
        /\ \A i \in Ops : setup.program[i] \in Op
        /\ Rank = 0..setup.ranks - 1 /\ Chunk = 1..setup.chunks
<1>1. setup.program \in Seq(Op) BY SetupsAssumption
<1>2. Len(setup.program) \in Nat /\ \A i \in 1..Len(setup.program) : setup.program[i] \in Op
  BY <1>1
<1>3. EpochMod \in Nat /\ Len(setup.program) < EpochMod \div 2 BY SetupsAssumption
<1>4. EpochMod > 1 BY <1>2, <1>3
<1> QED BY <1>2, <1>3, <1>4, SetupsAssumption DEF End, Ops, Rank, Chunk

(* The Contract, in the words of the model.                                *)
LEMMA Programs ==
  ASSUME setup \in Setups
  PROVE /\ Newest \in [0..End - 1 -> {0, 1}] /\ Newest[0] = 0
        /\ \A i \in Ops :
             /\ IsCall(i) /\ ~Captured(i) => Newest[i] = 1 - Newest[i - 1]
             /\ Captured(i) => IsCall(i) /\ Newest[i] = setup.program[i].parity
             /\ ~IsCall(i) => /\ Newest[i] = Newest[i - 1]
                              /\ setup.program[i].parity \in {Newest[i], Discover}
             /\ Captured(i) => \E j \in 1..i : /\ setup.program[j].first
                                               /\ \A k \in j..i : Captured(k)
        /\ \A j \in Ops : \A i \in 1..j - 1 :
             IsCall(i) /\ IsCall(j) /\ ~(Captured(i) <=> Captured(j))
             => \E k \in i + 1..j - 1 : ~IsCall(k)
<1> DEFINE P == setup.program
<1>1. Contract(P) BY SetupsAssumption
<1>2. /\ Len(P) \in Nat /\ End = Len(P) + 1 /\ Ops = 1..Len(P) /\ \A i \in Ops : P[i] \in Op
  BY Setup DEF Ops
<1>3. Newest \in [0..Len(P) -> {0, 1}] /\ NewestAfter(P, Newest)
  BY <1>1 DEF Contract, Newest
<1>4. \A i \in Ops : P[i].kind \in Kinds BY <1>2 DEF Op
<1>5. \A i : /\ IsCall(i) <=> i \in Ops /\ P[i].kind # "quiesce"
             /\ Captured(i) <=> i \in Ops /\ P[i].kind = "captured"
  BY DEF IsCall, Captured
<1> HIDE DEF P
<1>6. \A i \in Ops :
             /\ IsCall(i) /\ ~Captured(i) => Newest[i] = 1 - Newest[i - 1]
             /\ Captured(i) => IsCall(i) /\ Newest[i] = P[i].parity
             /\ ~IsCall(i) => /\ Newest[i] = Newest[i - 1]
                              /\ P[i].parity \in {Newest[i], Discover}
  BY <1>2, <1>3, <1>4, <1>5 DEF NewestAfter, Kinds
<1>7. \A i \in Ops : Captured(i) => \E j \in 1..i : P[j].first /\ \A k \in j..i : Captured(k)
  <2> TAKE i \in Ops
  <2> HAVE Captured(i)
  <2>1. PICK j \in 1..i : P[j].first /\ \A k \in j..i : P[k].kind = "captured"
    BY <1>1, <1>2, <1>5 DEF Contract
  <2>2. \A k \in j..i : k \in Ops BY <1>2
  <2> QED BY <2>1, <2>2, <1>5
<1>8. \A j \in Ops : \A i \in 1..j - 1 :
             IsCall(i) /\ IsCall(j) /\ ~(Captured(i) <=> Captured(j))
             => \E k \in i + 1..j - 1 : ~IsCall(k)
  <2> TAKE j \in Ops
  <2> TAKE i \in 1..j - 1
  <2> HAVE IsCall(i) /\ IsCall(j) /\ ~(Captured(i) <=> Captured(j))
  <2>1. i \in Ops BY <1>2
  <2>2. {P[i].kind, P[j].kind} = {"eager", "captured"} BY <1>4, <1>5, <2>1 DEF Kinds
  <2>3. PICK k \in i + 1..j - 1 : P[k].kind = "quiesce" BY <1>1, <1>2, <2>2 DEF Contract
  <2> QED BY <2>3, <1>5
<1> QED BY <1>2, <1>3, <1>6, <1>7, <1>8 DEF P, NewestAfter

(* Counting the calls so far.                                              *)
LEMMA Counting ==
  ASSUME setup \in Setups
  PROVE /\ Count(0) = 0
        /\ \A i \in 0..End - 1 : Count(i) \in 0..i /\ EpochOf(i) = (setup.epoch + Count(i)) % EpochMod
        /\ \A i \in Ops : Count(i) = IF IsCall(i) THEN Count(i - 1) + 1 ELSE Count(i - 1)
        /\ \A i, j \in 0..End - 1 : i <= j => Count(i) <= Count(j)
        /\ \A i \in 0..End - 1, j \in Ops : i < j /\ IsCall(j) => Count(i) < Count(j)
<1> DEFINE C(i) == {j \in 1..i : IsCall(j)}
<1>1. End \in Nat \ {0} /\ Ops = 1..End - 1 BY Setup
<1>2. \A i \in 0..End - 1 : IsFiniteSet(C(i)) /\ Count(i) \in Nat /\ Count(i) <= i
  <2> TAKE i \in 0..End - 1
  <2>1. IsFiniteSet(1..i) /\ Cardinality(1..i) = i BY <1>1, FS_Interval
  <2>2. C(i) \in SUBSET (1..i) OBVIOUS
  <2>3. IsFiniteSet(C(i)) /\ Cardinality(C(i)) <= i BY <2>1, <2>2, FS_Subset
  <2>4. Cardinality(C(i)) \in Nat BY <2>3, FS_CardinalityType
  <2> QED BY <2>3, <2>4 DEF Count
<1>3. \A i, j \in 0..End - 1 : i <= j => Count(i) <= Count(j)
  <2> TAKE i, j \in 0..End - 1
  <2> HAVE i <= j
  <2>1. C(i) \in SUBSET C(j) OBVIOUS
  <2>2. IsFiniteSet(C(j)) BY <1>2
  <2>3. Cardinality(C(i)) <= Cardinality(C(j)) BY <2>1, <2>2, FS_Subset
  <2> QED BY <2>3 DEF Count
<1>4. \A i \in Ops : Count(i) = IF IsCall(i) THEN Count(i - 1) + 1 ELSE Count(i - 1)
  <2> TAKE i \in Ops
  <2>0. i \in Nat \ {0} /\ i - 1 \in 0..End - 1 BY <1>1
  <2>1. CASE IsCall(i)
    <3>1. C(i) = C(i - 1) \cup {i} /\ i \notin C(i - 1) BY <2>0, <2>1
    <3>2. IsFiniteSet(C(i - 1)) BY <1>2, <2>0
    <3>3. Cardinality(C(i)) = Cardinality(C(i - 1)) + 1
      <4> HIDE DEF C
      <4> QED BY <3>1, <3>2, FS_AddElement
    <3> QED BY <2>1, <3>3 DEF Count
  <2>2. CASE ~IsCall(i)
    <3>1. C(i) = C(i - 1) BY <2>0, <2>2
    <3> QED BY <2>2, <3>1 DEF Count
  <2> QED BY <2>1, <2>2
<1> HIDE DEF C
<1>5. \A i \in 0..End - 1, j \in Ops : i < j /\ IsCall(j) => Count(i) < Count(j)
  <2> TAKE i \in 0..End - 1, j \in Ops
  <2> HAVE i < j /\ IsCall(j)
  <2>1. j - 1 \in 0..End - 1 /\ i <= j - 1 /\ j \in 0..End - 1 BY <1>1
  <2>2. Count(i) <= Count(j - 1) BY <1>3, <2>1
  <2>3. Count(j) = Count(j - 1) + 1 BY <1>4
  <2>4. Count(i) \in Nat /\ Count(j - 1) \in Nat BY <1>2, <2>1
  <2> QED BY <2>2, <2>3, <2>4
<1>6. Count(0) = 0
  <2>1. 0 \in 0..End - 1 BY <1>1
  <2>2. Count(0) \in Nat /\ Count(0) <= 0 BY <1>2, <2>1
  <2> QED BY <2>2
<1>7. \A i \in 0..End - 1 : EpochOf(i) = (setup.epoch + Count(i)) % EpochMod
  BY DEF EpochOf, Count
<1> QED BY <1>1, <1>2, <1>3, <1>4, <1>5, <1>6, <1>7

(* The remainder of a number below twice the modulus.                      *)
Wrap(a, m) == IF a < m THEN a ELSE a - m

(* The epoch of an operation as a number.                                  *)
LEMMA EpochIs ==
  ASSUME setup \in Setups, NEW i \in 0..End - 1
  PROVE /\ EpochOf(i) = Wrap(setup.epoch + Count(i), EpochMod)
        /\ EpochOf(i) \in 0..EpochMod - 1
        /\ setup.epoch + Count(i) \in 0..2 * EpochMod - 1
        /\ Count(i) < EpochMod \div 2
<1>1. /\ EpochMod \in Nat /\ EpochMod > 1 /\ setup.epoch \in 0..EpochMod - 1
      /\ End \in Nat \ {0} /\ End - 1 < EpochMod \div 2
  BY Setup
<1>2. Count(i) \in 0..i /\ EpochOf(i) = (setup.epoch + Count(i)) % EpochMod BY Counting
<1>3. setup.epoch + Count(i) \in 0..2 * EpochMod - 1 /\ Count(i) < EpochMod \div 2 BY <1>1, <1>2
<1>4. EpochMod \in Nat \ {0} BY <1>1
<1>5. EpochOf(i) = Wrap(setup.epoch + Count(i), EpochMod) BY <1>2, <1>3, <1>4, ModOnce DEF Wrap
<1>6. Wrap(setup.epoch + Count(i), EpochMod) \in 0..EpochMod - 1 BY <1>3, <1>4 DEF Wrap
<1> QED BY <1>3, <1>5, <1>6

(* The modular distance of two numbers that are close.                     *)
LEMMA Distance ==
  ASSUME NEW m \in Nat \ {0}, NEW a \in 0..2 * m - 1, NEW b \in 0..2 * m - 1, b < a, a - b < m
  PROVE /\ (Wrap(a, m) - Wrap(b, m) + m) % m = a - b
        /\ (Wrap(b, m) - Wrap(a, m) + m) % m = m - (a - b)
        /\ Wrap(a, m) # Wrap(b, m)
<1>1. a - b \in Nat /\ a - b > 0 OBVIOUS
<1>2. Wrap(a, m) - Wrap(b, m) \in {a - b, a - b - m} BY DEF Wrap
<1>3. Wrap(a, m) \in Int /\ Wrap(b, m) \in Int BY DEF Wrap
<1>4. Wrap(a, m) - Wrap(b, m) + m \in {a - b + m, a - b} BY <1>2, <1>3
<1>5. Wrap(b, m) - Wrap(a, m) + m \in {m - (a - b), 2 * m - (a - b)} BY <1>2, <1>3
<1>6. (a - b + m) % m = a - b /\ (a - b) % m = a - b
  <2>1. a - b + m \in 0..2 * m - 1 /\ a - b \in 0..2 * m - 1 OBVIOUS
  <2>2. a - b < m /\ ~(a - b + m < m) /\ a - b + m - m = a - b BY <1>1
  <2>3. (a - b) % m = a - b BY <2>1, <2>2, ModOnce
  <2>4. (a - b + m) % m = a - b + m - m BY <2>1, <2>2, ModOnce
  <2> QED BY <2>2, <2>3, <2>4
<1>7. (m - (a - b)) % m = m - (a - b) /\ (2 * m - (a - b)) % m = m - (a - b)
  <2>1. m - (a - b) \in 0..2 * m - 1 /\ 2 * m - (a - b) \in 0..2 * m - 1 BY <1>1
  <2>2. m - (a - b) < m /\ ~(2 * m - (a - b) < m) BY <1>1
  <2>3. (m - (a - b)) % m = m - (a - b) BY <2>1, <2>2, ModOnce
  <2>4. (2 * m - (a - b)) % m = 2 * m - (a - b) - m BY <2>1, <2>2, ModOnce
  <2> QED BY <2>3, <2>4
<1> QED BY <1>1, <1>2, <1>3, <1>4, <1>5, <1>6, <1>7

(* A flag is at or beyond a call's epoch when it is of no earlier call.    *)
LEMMA ReachedIs ==
  ASSUME setup \in Setups, NEW f \in 0..End - 1, NEW i \in Ops, IsCall(i),
         Reached(EpochOf(f), EpochOf(i))
  PROVE f >= i
<1>1. /\ EpochMod \in Nat \ {0} /\ setup.epoch \in 0..EpochMod - 1
      /\ End \in Nat \ {0} /\ End - 1 < EpochMod \div 2 /\ Ops = 1..End - 1
  BY Setup
<1> SUFFICES ASSUME f < i PROVE FALSE BY <1>1
<1>2. i \in 0..End - 1 BY <1>1
<1>3. Count(f) \in 0..f /\ Count(i) \in 0..i /\ Count(f) < Count(i) BY <1>2, Counting
<1>4. /\ EpochOf(f) = Wrap(setup.epoch + Count(f), EpochMod)
      /\ EpochOf(i) = Wrap(setup.epoch + Count(i), EpochMod)
      /\ setup.epoch + Count(f) \in 0..2 * EpochMod - 1
      /\ setup.epoch + Count(i) \in 0..2 * EpochMod - 1
      /\ Count(i) < EpochMod \div 2
  BY <1>2, EpochIs
<1> DEFINE a == setup.epoch + Count(i)
<1> DEFINE b == setup.epoch + Count(f)
<1>5. /\ a - b = Count(i) - Count(f) /\ a - b < EpochMod \div 2 /\ b < a
  <2>1. Count(i) \in Nat /\ Count(f) \in Nat /\ setup.epoch \in Nat BY <1>1, <1>2, <1>3
  <2>2. a - b = Count(i) - Count(f) BY <2>1
  <2>3. a - b <= Count(i) BY <2>1
  <2>4. b < a BY <1>3, <2>1
  <2>5. EpochMod \div 2 \in Nat BY <1>1
  <2>6. a - b < EpochMod \div 2 BY <1>4, <2>1, <2>2, <2>5
  <2> QED BY <2>2, <2>4, <2>6
<1>7. EpochMod \div 2 <= EpochMod - EpochMod \div 2 /\ EpochMod \div 2 \in Nat BY <1>1
<1>8. a \in 0..2 * EpochMod - 1 /\ b \in 0..2 * EpochMod - 1 BY <1>4
<1>9. Reached(Wrap(b, EpochMod), Wrap(a, EpochMod)) BY <1>4
<1> HIDE DEF a, b
<1>10. a - b < EpochMod /\ EpochMod - (a - b) >= EpochMod \div 2
  <2> DEFINE half == EpochMod \div 2
  <2>1. half \in Nat /\ half <= EpochMod - half /\ a - b < half BY <1>5, <1>7
  <2>2. a \in Int /\ b \in Int /\ EpochMod \in Int BY <1>1, <1>8
  <2> HIDE DEF half
  <2>3. a - b < EpochMod /\ EpochMod - (a - b) >= half BY <2>1, <2>2
  <2> QED BY <2>3 DEF half
<1>6. (Wrap(b, EpochMod) - Wrap(a, EpochMod) + EpochMod) % EpochMod = EpochMod - (a - b)
  BY <1>1, <1>5, <1>8, <1>10, Distance
<1>11. EpochMod - (a - b) < EpochMod \div 2 BY <1>6, <1>9 DEF Reached
<1>12. EpochMod - (a - b) \in Int /\ EpochMod \div 2 \in Int BY <1>1, <1>7, <1>8
<1> QED BY <1>10, <1>11, <1>12

(* The first call from an operation on.                                    *)
LEMMA NextCallIs ==
  ASSUME setup \in Setups, NEW i \in 1..End
  PROVE /\ NextCall(i) \in i..End
        /\ NextCall(i) = End \/ IsCall(NextCall(i))
        /\ \A k \in i..NextCall(i) - 1 : ~IsCall(k)
<1>1. End \in Nat \ {0} BY Setup
<1> DEFINE T == {j \in i..End : j = End \/ IsCall(j)}
<1>2. T \in SUBSET Nat /\ End \in T BY <1>1
<1>3. PICK x \in T : \A y \in T : x <= y
  <2> HIDE DEF T
  <2> QED BY <1>2, Least
<1>4. x \in i..End /\ (x = End \/ IsCall(x)) OBVIOUS
<1>5. \A k \in i..x - 1 : ~IsCall(k)
  <2> TAKE k \in i..x - 1
  <2>1. k \in i..End /\ ~(x <= k) BY <1>1, <1>4
  <2> QED BY <1>3, <2>1
<1> QED BY <1>4, <1>5 DEF NextCall

(* The replay of a captured call is captured, up to the call.              *)
LEMMA ReplayStartIs ==
  ASSUME setup \in Setups, NEW i \in Ops, Captured(i)
  PROVE ReplayStart(i) \in 1..i /\ \A k \in ReplayStart(i)..i : Captured(k)
<1>1. End \in Nat \ {0} /\ Ops = 1..End - 1 BY Setup
<1> DEFINE P == setup.program
<1>2. PICK j \in 1..i : P[j].first /\ \A k \in j..i : Captured(k) BY Programs
<1> DEFINE T == {d \in 0..i : i - d >= j /\ P[i - d].first}
<1>3. T \in SUBSET Nat /\ i - j \in T BY <1>1, <1>2
<1>4. PICK x \in T : \A y \in T : x <= y
  <2> HIDE DEF T
  <2> QED BY <1>3, Least
<1>5. x \in 0..i /\ i - x >= j /\ P[i - x].first OBVIOUS
<1>6. i - x \in 1..i BY <1>1, <1>5
<1>7. \A k \in (i - x) + 1..i : ~P[k].first
  <2> TAKE k \in (i - x) + 1..i
  <2>1. i - k \in 0..i /\ i - (i - k) = k /\ k >= j /\ ~(x <= i - k) BY <1>1, <1>5
  <2> QED BY <1>4, <2>1
<1>8. /\ ReplayStart(i) \in 1..i /\ P[ReplayStart(i)].first
      /\ \A k \in ReplayStart(i) + 1..i : ~P[k].first
  <2> DEFINE Start(y) == y \in 1..i /\ P[y].first /\ \A k \in y + 1..i : ~P[k].first
  <2>1. Start(i - x) BY <1>5, <1>6, <1>7
  <2> QED BY <1>5, <1>6, <1>7 DEF ReplayStart
<1>9. ReplayStart(i) >= j
  <2> SUFFICES ASSUME ReplayStart(i) < j PROVE FALSE BY <1>1, <1>8
  <2>1. j \in ReplayStart(i) + 1..i BY <1>1, <1>8
  <2> QED BY <1>2, <1>8, <2>1
<1> QED BY <1>1, <1>2, <1>8, <1>9

(* A rank is within its program.                                           *)
LEMMA Lasts ==
  ASSUME Types, NEW r \in Rank
  PROVE /\ Last(r) \in 0..End - 1 /\ compute[r] \in 1..End
        /\ Last(r) = IF gemm[r] THEN compute[r] ELSE compute[r] - 1
        /\ gemm[r] \in BOOLEAN
<1>1. End \in Nat \ {0} /\ Ops = 1..End - 1 BY Setup DEF Types
<1>2. /\ compute[r] \in 1..End /\ gemm[r] \in BOOLEAN
      /\ Last(r) = IF gemm[r] THEN compute[r] ELSE compute[r] - 1
      /\ gemm[r] => compute[r] \in Ops
  BY DEF Types, IsCall
<1>3. CASE gemm[r] BY <1>1, <1>2, <1>3
<1>4. CASE ~gemm[r] BY <1>1, <1>2, <1>4
<1> QED BY <1>2, <1>3, <1>4

(* Where quiesce() finds the newest call's snapshot.                       *)
LEMMA DiscoveredIs ==
  ASSUME Types, Host, Counts, Older, NEW r \in Rank
  PROVE Discovered(r) = Newest[Last(r)]
<1> DEFINE n == Last(r)
<1> DEFINE half == EpochMod \div 2
<1>1. /\ EpochMod \in Nat \ {0} /\ EpochMod > 1 /\ setup.epoch \in 0..EpochMod - 1
      /\ End \in Nat \ {0} /\ Ops = 1..End - 1
  BY Setup DEF Types
<1>2. half \in Nat /\ half <= EpochMod - half /\ half < EpochMod /\ half > 0
  BY <1>1
<1>3. n \in 0..End - 1 BY Lasts
<1>4. /\ epoch[r][Newest[n]] = EpochOf(n)
      /\ EpochOf(n) = Wrap(setup.epoch + Count(n), EpochMod)
      /\ setup.epoch + Count(n) \in 0..2 * EpochMod - 1 /\ Count(n) < half
  BY <1>3, EpochIs DEF Types, Counts
<1>5. Newest[n] \in {0, 1} /\ Count(n) \in 0..n BY <1>3, Programs, Counting DEF Types
<1>6. Discovered(r) = LET difference == (epoch[r][1] - epoch[r][0] + EpochMod) % EpochMod
                      IN IF difference = 0 THEN lastParity[r]
                         ELSE IF difference < half THEN 1 ELSE 0
  BY DEF Discovered
<1> HIDE DEF n, half
<1>7. CASE setup.epoch = 0 /\ Count(n) = 0 /\ epoch[r][1 - Newest[n]] = 0
  <2>1. EpochOf(n) = 0 BY <1>1, <1>4, <1>7 DEF Wrap
  <2>2. epoch[r][0] = 0 /\ epoch[r][1] = 0 BY <1>4, <1>5, <1>7, <2>1
  <2>3. EpochMod \in 0..2 * EpochMod - 1 /\ EpochMod - EpochMod = 0 /\ ~(EpochMod < EpochMod) BY <1>1
  <2>4. EpochMod % EpochMod = 0 BY <1>1, <2>3, ModOnce
  <2>5. (epoch[r][1] - epoch[r][0] + EpochMod) % EpochMod = 0 BY <1>1, <2>2, <2>4
  <2>6. Discovered(r) = lastParity[r] BY <1>6, <2>5
  <2>7. ~IsCall(n)
    <3> SUFFICES ASSUME IsCall(n) PROVE FALSE OBVIOUS
    <3>1. n \in Ops /\ 0 < n /\ 0 \in 0..End - 1 BY <1>1 DEF IsCall
    <3>2. Count(0) < Count(n) /\ Count(0) = 0 BY <3>1, Counting DEF Types
    <3> QED BY <1>7, <3>2
  <2>8. ~Captured(n)
    <3> SUFFICES ASSUME Captured(n) PROVE FALSE OBVIOUS
    <3>1. n \in Ops BY DEF Captured
    <3> QED BY <2>7, <3>1, Programs DEF Types
  <2> QED BY <2>6, <2>8 DEF Host, n
<1>8. CASE \E d \in Newest[n]..Count(n) :
             setup.epoch + d > 0 /\ epoch[r][1 - Newest[n]] = (setup.epoch + d - 1) % EpochMod
  <2>1. PICK d \in Newest[n]..Count(n) :
             setup.epoch + d > 0 /\ epoch[r][1 - Newest[n]] = (setup.epoch + d - 1) % EpochMod
    BY <1>8
  <2> DEFINE a == setup.epoch + Count(n)
  <2> DEFINE b == setup.epoch + d - 1
  <2>2. n \in Nat /\ Count(n) \in Nat /\ d \in Nat /\ d <= Count(n) /\ Newest[n] <= d
    BY <1>1, <1>3, <1>5
  <2>3. /\ a \in 0..2 * EpochMod - 1 /\ b \in 0..2 * EpochMod - 1 /\ b < a
        /\ a - b = Count(n) + 1 - d
    <3>1. setup.epoch \in Nat /\ b \in Nat BY <1>1, <2>1, <2>2
    <3>2. a - b = Count(n) + 1 - d /\ b < a BY <2>2, <3>1
    <3>3. a \in 0..2 * EpochMod - 1 BY <1>4
    <3> HIDE DEF a, b
    <3> QED BY <1>1, <3>1, <3>2, <3>3
  <2>4. b % EpochMod = Wrap(b, EpochMod)
    <3> HIDE DEF b
    <3> QED BY <1>1, <2>3, ModOnce DEF Wrap
  <2>5. epoch[r][Newest[n]] = Wrap(a, EpochMod) /\ epoch[r][1 - Newest[n]] = Wrap(b, EpochMod)
    BY <1>4, <2>1, <2>4
  <2>6. a - b <= half /\ (Newest[n] = 1 => a - b < half) BY <1>2, <1>4, <2>2, <2>3
  <2> HIDE DEF a, b
  <2>7. a - b < EpochMod /\ a - b > 0 /\ a \in Int /\ b \in Int BY <1>1, <1>2, <2>3, <2>6
  <2>8. /\ (Wrap(a, EpochMod) - Wrap(b, EpochMod) + EpochMod) % EpochMod = a - b
        /\ (Wrap(b, EpochMod) - Wrap(a, EpochMod) + EpochMod) % EpochMod = EpochMod - (a - b)
    BY <1>1, <2>3, <2>7, Distance
  <2>9. CASE Newest[n] = 1
    <3>1. (epoch[r][1] - epoch[r][0] + EpochMod) % EpochMod = a - b BY <2>5, <2>8, <2>9
    <3> QED BY <1>6, <2>6, <2>7, <2>9, <3>1 DEF n
  <2>10. CASE Newest[n] = 0
    <3>1. (epoch[r][1] - epoch[r][0] + EpochMod) % EpochMod = EpochMod - (a - b)
      BY <2>5, <2>8, <2>10
    <3>2. EpochMod - (a - b) # 0 /\ ~(EpochMod - (a - b) < half) BY <1>1, <1>2, <2>6, <2>7
    <3> QED BY <1>6, <2>10, <3>1, <3>2 DEF n
  <2> QED BY <1>5, <2>9, <2>10
<1> QED BY <1>7, <1>8 DEF Older, n

-----------------------------------------------------------------------------
(* The copies of a call.                                                   *)

(* A number below c * n, in its two digits.                                *)
LEMMA Digits ==
  ASSUME NEW n \in Nat \ {0}, NEW c \in Nat \ {0}
  PROVE /\ n * (2 * c) \in Nat \ {0}
        /\ \A m \in 1..n * (2 * c) :
             /\ (m - 1) \div (2 * c) \in 0..n - 1 /\ (m - 1) % (2 * c) \in 0..2 * c - 1
             /\ m = ((m - 1) \div (2 * c)) * (2 * c) + ((m - 1) % (2 * c)) + 1
        /\ \A q \in 0..n - 1, h \in 0..2 * c - 1 :
             /\ q * (2 * c) + h + 1 \in 1..n * (2 * c)
             /\ (q * (2 * c) + h) \div (2 * c) = q /\ (q * (2 * c) + h) % (2 * c) = h
             /\ (q * (2 * c) + h + 1) % 2 = IF h % 2 = 0 THEN 1 ELSE 0
<1> DEFINE t == 2 * c
<1>1. t \in Nat \ {0} OBVIOUS
<1>2. n * t \in Nat \ {0} BY Z3
<1>3. ASSUME NEW m \in 1..n * t
      PROVE /\ (m - 1) \div t \in 0..n - 1 /\ (m - 1) % t \in 0..t - 1
            /\ m = ((m - 1) \div t) * t + ((m - 1) % t) + 1
  <2> HIDE DEF t
  <2>1. m \in Nat /\ m - 1 \in Nat /\ m - 1 < n * t BY <1>2
  <2>2. PICK d \in Nat, e \in 0..t - 1 :
          d = (m - 1) \div t /\ e = (m - 1) % t /\ m - 1 = t * d + e
    BY <1>1, <2>1, DivMod
  <2>3. t * d = d * t /\ d * t \in Nat BY <1>1, <2>2, Z3
  <2>4. d < n
    <3> SUFFICES ASSUME n <= d PROVE FALSE BY <2>2
    <3>1. n * t <= d * t BY <1>1, <2>2, MulMono
    <3> QED BY <1>1, <1>2, <2>1, <2>2, <2>3, <3>1
  <2>5. m = d * t + e + 1 BY <2>1, <2>2, <2>3
  <2>6. d \in 0..n - 1 BY <2>2, <2>4
  <2> QED BY <2>2, <2>5, <2>6
<1>4. ASSUME NEW q \in 0..n - 1, NEW h \in 0..t - 1
      PROVE /\ q * t + h + 1 \in 1..n * t
            /\ (q * t + h) \div t = q /\ (q * t + h) % t = h
            /\ (q * t + h + 1) % 2 = IF h % 2 = 0 THEN 1 ELSE 0
  <2>1. q \in Nat /\ q + 1 <= n /\ q + 1 \in Nat OBVIOUS
  <2>2. q * t \in Nat /\ (q + 1) * t = q * t + t BY <1>1, <2>1, Z3
  <2>3. (q + 1) * t <= n * t BY <1>1, <2>1, MulMono
  <2>4. (q * t + h) \div t = q /\ (q * t + h) % t = h BY <1>1, <2>1, DivOf
  <2>5. q * t = 2 * (q * c) /\ q * c \in Nat BY <2>1, Z3
  <2>6. (q * t + h + 1) % 2 = IF h % 2 = 0 THEN 1 ELSE 0
    <3> DEFINE g == q * c
    <3>1. g \in Nat /\ h \in Nat BY <2>5
    <3> HIDE DEF g
    <3>2. (2 * g + h + 1) % 2 = IF h % 2 = 0 THEN 1 ELSE 0 BY <3>1
    <3> QED BY <2>5, <3>2 DEF g
  <2> HIDE DEF t
  <2> QED BY <1>1, <1>2, <2>2, <2>3, <2>4, <2>6
<1> QED BY <1>2, <1>3, <1>4

(* Odd numbers.                                                            *)
LEMMA OddIs == ASSUME NEW h \in Nat, h % 2 # 0
  PROVE h > 0 /\ h % 2 = 1 /\ (h - 1) % 2 = 0 /\ (h - 1) \div 2 = h \div 2
OBVIOUS
(* The same of the odd number below an even one.                           *)
LEMMA OddOf == ASSUME NEW c \in Nat \ {0}
  PROVE (2 * (c - 1) + 1) % 2 = 1 /\ (2 * (c - 1) + 1) \div 2 = c - 1 /\ 2 * (c - 1) + 1 = 2 * c - 1
OBVIOUS
(* A product with one factor less.                                         *)
LEMMA OneLess == ASSUME NEW n \in Nat \ {0}, NEW t \in Nat
  PROVE (n - 1) * t = n * t - t /\ n * t \in Nat
BY Z3

(* The copies of a call, in order: every peer's scale factors come before  *)
(* every flag, a chunk's data right before its flag, and the last copy is  *)
(* a flag that is raised once.                                             *)
IsCopy(copy) ==
  copy \in [what : {"scales", "data", "flag"}, to : 1..setup.ranks - 1, chunk : Chunk]
(* Every step of the push stream's list is a copy to some peer.            *)
LEMMA CopiesAre ==
  ASSUME setup \in Setups
  PROVE /\ Len(Copies) \in Nat \ {0} /\ Len(Copies) <= (2 * setup.chunks + 1) * setup.ranks
        /\ \A k \in 1..Len(Copies) :
             /\ IsCopy(Copies[k])
             /\ Copies[k].what = "scales" => setup.scaled /\ Copies[k].chunk = 1
             /\ Copies[k].what = "flag" =>
                  /\ \E j \in 1..k - 1 : Copies[j] = Step("data", Copies[k].to, Copies[k].chunk)
                  /\ setup.scaled => \E j \in 1..k - 1 : Copies[j] = Step("scales", Copies[k].to, 1)
        /\ \A to \in 1..setup.ranks - 1, c \in Chunk :
             \E k \in 1..Len(Copies) : Copies[k] = Step("flag", to, c)
        /\ Copies[Len(Copies)].what = "flag"
        /\ \A k \in 1..Len(Copies) - 1 : Copies[k] # Copies[Len(Copies)]
<1> DEFINE n == setup.ranks - 1
<1> DEFINE c == setup.chunks
<1> DEFINE A == IF setup.scaled THEN [k \in 1..n |-> Step("scales", k, 1)] ELSE <<>>
<1> DEFINE b(k) == Step(IF k % 2 = 1 THEN "data" ELSE "flag",
                        1 + (k - 1) \div (2 * c), 1 + ((k - 1) % (2 * c)) \div 2)
<1> DEFINE a == IF setup.scaled THEN n ELSE 0
<1> DEFINE m == n * (2 * c)
<1> DEFINE B == [k \in 1..m |-> b(k)]
<1>1. /\ n \in Nat \ {0} /\ c \in Nat \ {0} /\ Chunk = 1..c /\ setup.scaled \in BOOLEAN
      /\ setup.ranks - 1 = n
  BY Setup
<1>2. Copies = A \o B BY DEF Copies
<1> HIDE DEF n, c
<1>0. /\ m \in Nat \ {0}
      /\ \A k \in 1..m :
           /\ (k - 1) \div (2 * c) \in 0..n - 1 /\ (k - 1) % (2 * c) \in 0..2 * c - 1
           /\ k = ((k - 1) \div (2 * c)) * (2 * c) + ((k - 1) % (2 * c)) + 1
      /\ \A q \in 0..n - 1, h \in 0..2 * c - 1 :
           /\ q * (2 * c) + h + 1 \in 1..m
           /\ (q * (2 * c) + h) \div (2 * c) = q /\ (q * (2 * c) + h) % (2 * c) = h
           /\ (q * (2 * c) + h + 1) % 2 = IF h % 2 = 0 THEN 1 ELSE 0
  BY <1>1, Digits, ZenonT(60)
<1>3. a \in Nat /\ Len(A) = a /\ \A k \in 1..a : A[k] = Step("scales", k, 1) BY <1>1
<1>4. m \in Nat \ {0} BY <1>0
<1>5. A \in Seq([what : {"scales", "data", "flag"}, to : Nat, chunk : Nat])
  <2>1. \A k \in 1..n : Step("scales", k, 1) \in [what : {"scales", "data", "flag"}, to : Nat, chunk : Nat]
    BY <1>1 DEF Step
  <2>2. [k \in 1..n |-> Step("scales", k, 1)]
          \in Seq([what : {"scales", "data", "flag"}, to : Nat, chunk : Nat])
    BY <1>1, <2>1
  <2> QED BY <2>2
<1>6. \A k \in 1..m : \E q \in 0..n - 1, h \in 0..2 * c - 1 :
        /\ k = q * (2 * c) + h + 1
        /\ b(k) = Step(IF h % 2 = 0 THEN "data" ELSE "flag", 1 + q, 1 + h \div 2)
  <2> TAKE k \in 1..m
  <2>0. /\ (k - 1) \div (2 * c) \in 0..n - 1 /\ (k - 1) % (2 * c) \in 0..2 * c - 1
        /\ k = ((k - 1) \div (2 * c)) * (2 * c) + ((k - 1) % (2 * c)) + 1
    BY <1>0
  <2>1. PICK q \in 0..n - 1, h \in 0..2 * c - 1 :
          /\ q = (k - 1) \div (2 * c) /\ h = (k - 1) % (2 * c) /\ k = q * (2 * c) + h + 1
    BY <2>0
  <2>2. k % 2 = IF h % 2 = 0 THEN 1 ELSE 0
    <3>1. (q * (2 * c) + h + 1) % 2 = IF h % 2 = 0 THEN 1 ELSE 0 BY <1>0
    <3> QED BY <2>1, <3>1
  <2>3. b(k) = Step(IF h % 2 = 0 THEN "data" ELSE "flag", 1 + q, 1 + h \div 2) BY <2>1, <2>2
  <2> QED BY <2>1, <2>3
<1>7. \A q \in 0..n - 1, h \in 0..2 * c - 1 :
        /\ q * (2 * c) + h + 1 \in 1..m
        /\ b(q * (2 * c) + h + 1) = Step(IF h % 2 = 0 THEN "data" ELSE "flag", 1 + q, 1 + h \div 2)
  <2> TAKE q \in 0..n - 1, h \in 0..2 * c - 1
  <2> DEFINE k == q * (2 * c) + h + 1
  <2>1. /\ k \in 1..m
        /\ (q * (2 * c) + h) \div (2 * c) = q /\ (q * (2 * c) + h) % (2 * c) = h
        /\ k % 2 = IF h % 2 = 0 THEN 1 ELSE 0
    <3>1. /\ q * (2 * c) + h + 1 \in 1..n * (2 * c)
          /\ (q * (2 * c) + h) \div (2 * c) = q /\ (q * (2 * c) + h) % (2 * c) = h
          /\ (q * (2 * c) + h + 1) % 2 = IF h % 2 = 0 THEN 1 ELSE 0
      BY <1>0
    <3> QED BY <3>1
  <2>2. q * (2 * c) \in Nat BY <1>1, Z3
  <2>3. k - 1 = q * (2 * c) + h BY <2>2
  <2> HIDE DEF k
  <2>4. b(k) = Step(IF h % 2 = 0 THEN "data" ELSE "flag", 1 + q, 1 + h \div 2) BY <2>1, <2>3
  <2> QED BY <2>1, <2>4 DEF k
<1>8. \A k \in 1..m : IsCopy(b(k)) /\ b(k).what \in {"data", "flag"}
  <2> TAKE k \in 1..m
  <2>1. PICK q \in 0..n - 1, h \in 0..2 * c - 1 :
          b(k) = Step(IF h % 2 = 0 THEN "data" ELSE "flag", 1 + q, 1 + h \div 2)
    BY <1>6
  <2>2. 1 + q \in 1..n /\ 1 + h \div 2 \in Chunk BY <1>1
  <2> HIDE DEF b
  <2> QED BY <1>1, <2>1, <2>2 DEF IsCopy, Step
<1> HIDE DEF b, m
<1>9. B \in Seq([what : {"scales", "data", "flag"}, to : Nat, chunk : Nat]) /\ Len(B) = m
  <2>1. \A k \in 1..m : b(k) \in [what : {"scales", "data", "flag"}, to : Nat, chunk : Nat]
    BY <1>1, <1>8 DEF IsCopy
  <2> QED BY <1>4, <2>1
<1> HIDE DEF A, B, a
<1>10. /\ Len(Copies) = a + m
       /\ \A k \in 1..a : Copies[k] = Step("scales", k, 1)
       /\ \A k \in 1..m : Copies[a + k] = B[k]
  <2> DEFINE T == [what : {"scales", "data", "flag"}, to : Nat, chunk : Nat]
  <2>0. A \in Seq(T) /\ B \in Seq(T) BY <1>5, <1>9
  <2> HIDE DEF T
  <2>1. Len(Copies) = Len(A) + Len(B) BY <1>2, <2>0
  <2>2. \A k \in 1..a : Copies[k] = A[k] BY <1>2, <1>3, <1>5, <1>9
  <2>3. \A k \in 1..m : Copies[a + k] = B[k] BY <1>2, <1>3, <1>4, <1>5, <1>9, SMTT(30)
  <2> QED BY <1>3, <1>9, <2>1, <2>2, <2>3
<1>11. \A k \in 1..m : B[k] = b(k) BY DEF B
<1>12. \A k \in 1..a : IsCopy(Copies[k]) /\ Copies[k].what = "scales" /\ Copies[k].chunk = 1 /\ setup.scaled
  <2> TAKE k \in 1..a
  <2>1. setup.scaled /\ k \in 1..n BY <1>1 DEF a
  <2>2. Copies[k] = Step("scales", k, 1) /\ 1 \in Chunk BY <1>1, <1>10
  <2> QED BY <1>1, <2>1, <2>2 DEF IsCopy, Step
<1>13. \A k \in a + 1..a + m : k - a \in 1..m /\ Copies[k] = b(k - a)
  <2> TAKE k \in a + 1..a + m
  <2>1. k - a \in 1..m /\ a + (k - a) = k BY <1>3, <1>4
  <2> QED BY <1>10, <1>11, <2>1
<1>14. Len(Copies) \in Nat \ {0} /\ Len(Copies) <= (2 * c + 1) * setup.ranks
  <2>1. Len(Copies) \in Nat \ {0} BY <1>3, <1>4, <1>10
  <2>2. a <= n /\ m = n * (2 * c) BY <1>1, <1>3 DEF a, m
  <2>3. n * (2 * c) + n <= (2 * c + 1) * (n + 1) BY <1>1, Z3
  <2>4. setup.ranks = n + 1 BY <1>1, Setup DEF n
  <2> QED BY <1>1, <1>3, <1>4, <1>10, <2>1, <2>2, <2>3, <2>4
<1>15. ASSUME NEW k \in 1..Len(Copies)
       PROVE /\ IsCopy(Copies[k])
             /\ Copies[k].what = "scales" => setup.scaled /\ Copies[k].chunk = 1
             /\ Copies[k].what = "flag" =>
                  /\ \E j \in 1..k - 1 : Copies[j] = Step("data", Copies[k].to, Copies[k].chunk)
                  /\ setup.scaled => \E j \in 1..k - 1 : Copies[j] = Step("scales", Copies[k].to, 1)
  <2>1. CASE k \in 1..a BY <1>12, <2>1
  <2>2. CASE k \in a + 1..a + m
    <3>1. k - a \in 1..m /\ Copies[k] = b(k - a) /\ IsCopy(Copies[k]) /\ Copies[k].what # "scales"
      BY <1>8, <1>13, <2>2
    <3>2. PICK q \in 0..n - 1, h \in 0..2 * c - 1 :
            /\ k - a = q * (2 * c) + h + 1
            /\ b(k - a) = Step(IF h % 2 = 0 THEN "data" ELSE "flag", 1 + q, 1 + h \div 2)
      BY <1>6, <3>1
    <3>3. ASSUME Copies[k].what = "flag"
          PROVE /\ \E j \in 1..k - 1 : Copies[j] = Step("data", Copies[k].to, Copies[k].chunk)
                /\ setup.scaled => \E j \in 1..k - 1 : Copies[j] = Step("scales", Copies[k].to, 1)
      <4>1. h % 2 = 1 /\ h - 1 \in 0..2 * c - 1 /\ (h - 1) % 2 = 0 /\ (h - 1) \div 2 = h \div 2
        <5>1. h % 2 # 0 BY <3>1, <3>2, <3>3 DEF Step
        <5>2. h \in Nat BY <1>1
        <5>3. h > 0 /\ h % 2 = 1 /\ (h - 1) % 2 = 0 /\ (h - 1) \div 2 = h \div 2 BY <5>1, <5>2, OddIs
        <5> QED BY <1>1, <5>3
      <4>2. Copies[k].to = 1 + q /\ Copies[k].chunk = 1 + h \div 2 BY <3>1, <3>2 DEF Step
      <4>3. /\ q * (2 * c) + (h - 1) + 1 \in 1..m
            /\ b(q * (2 * c) + (h - 1) + 1) = Step("data", 1 + q, 1 + h \div 2)
        BY <1>7, <4>1
      <4>4. q * (2 * c) \in Nat BY <1>1, Z3
      <4>5. k \in Int /\ k - 1 = a + (q * (2 * c) + (h - 1) + 1) /\ k - 1 \in a + 1..a + m
        <5> DEFINE z == q * (2 * c)
        <5>1. z \in Nat /\ k - a = z + h + 1 /\ z + (h - 1) + 1 \in 1..m BY <3>2, <4>3, <4>4
        <5>2. h \in Nat /\ a \in Nat /\ m \in Nat /\ k \in Int BY <1>1, <1>3, <1>4, <2>2
        <5> HIDE DEF z
        <5>3. k - 1 = a + (z + (h - 1) + 1) /\ k - 1 \in a + 1..a + m BY <5>1, <5>2
        <5> QED BY <5>2, <5>3 DEF z
      <4>6. k - 1 - a = q * (2 * c) + (h - 1) + 1 BY <1>3, <4>4, <4>5
      <4>7. Copies[k - 1] = Step("data", Copies[k].to, Copies[k].chunk)
        BY <1>13, <4>2, <4>3, <4>5, <4>6
      <4>8. k - 1 \in 1..k - 1 BY <1>3, <4>5
      <4>9. setup.scaled => a = n /\ 1 + q \in 1..a /\ 1 + q \in 1..k - 1
        BY <1>1, <1>3, <4>5 DEF a
      <4>10. setup.scaled => Copies[1 + q] = Step("scales", Copies[k].to, 1) BY <1>10, <4>2, <4>9
      <4> QED BY <4>7, <4>8, <4>9, <4>10
    <3> QED BY <3>1, <3>3
  <2> QED BY <1>3, <1>4, <1>10, <2>1, <2>2
<1>16. ASSUME NEW to \in 1..n, NEW d \in Chunk
       PROVE \E k \in 1..Len(Copies) : Copies[k] = Step("flag", to, d)
  <2> DEFINE q == to - 1
  <2> DEFINE h == 2 * (d - 1) + 1
  <2>1. q \in 0..n - 1 /\ h \in 0..2 * c - 1 /\ h % 2 = 1 /\ 1 + q = to /\ 1 + h \div 2 = d BY <1>1
  <2> DEFINE k == q * (2 * c) + h + 1
  <2> HIDE DEF q, h
  <2>2. k \in 1..m /\ b(k) = Step("flag", to, d) BY <1>7, <2>1
  <2> HIDE DEF k
  <2>3. a + k \in 1..Len(Copies) /\ Copies[a + k] = Step("flag", to, d)
    BY <1>3, <1>4, <1>10, <1>11, <2>2
  <2> QED BY <2>3
<1>17. Copies[Len(Copies)] = Step("flag", n, c)
  <2>1. n - 1 \in 0..n - 1 /\ 2 * c - 1 \in 0..2 * c - 1 /\ (2 * c - 1) % 2 = 1 /\ (2 * c - 1) \div 2 = c - 1
    <3>1. (2 * c - 1) % 2 = 1 /\ (2 * c - 1) \div 2 = c - 1 BY <1>1, OddOf
    <3>2. n - 1 \in 0..n - 1 /\ 2 * c - 1 \in 0..2 * c - 1 BY <1>1
    <3> QED BY <3>1, <3>2
  <2>2. b((n - 1) * (2 * c) + (2 * c - 1) + 1) = Step("flag", 1 + (n - 1), 1 + (c - 1))
    BY <1>7, <2>1
  <2>3. (n - 1) * (2 * c) + (2 * c - 1) + 1 = m
    <3> DEFINE t == 2 * c
    <3>1. (n - 1) * t = n * t - t /\ n * t \in Nat /\ t \in Nat
      <4>1. t \in Nat BY <1>1
      <4> HIDE DEF t
      <4> QED BY <1>1, <4>1, OneLess
    <3> HIDE DEF t
    <3>2. (n - 1) * t + (t - 1) + 1 = n * t BY <3>1
    <3> QED BY <3>2 DEF t, m
  <2>4. 1 + (n - 1) = n /\ 1 + (c - 1) = c BY <1>1
  <2>5. m \in 1..m BY <1>4
  <2> QED BY <1>10, <1>11, <2>2, <2>3, <2>4, <2>5
<1>18. ASSUME NEW k \in 1..Len(Copies) - 1, Copies[k] = Copies[Len(Copies)] PROVE FALSE
  <2>1. k \in a + 1..a + m /\ k < a + m
    <3>1. ~(k \in 1..a) BY <1>12, <1>17, <1>18 DEF Step
    <3> QED BY <1>3, <1>4, <1>10, <3>1
  <2>2. k - a \in 1..m /\ b(k - a) = Step("flag", n, c) BY <1>13, <1>17, <1>18, <2>1
  <2>3. PICK q \in 0..n - 1, h \in 0..2 * c - 1 :
            /\ k - a = q * (2 * c) + h + 1
            /\ b(k - a) = Step(IF h % 2 = 0 THEN "data" ELSE "flag", 1 + q, 1 + h \div 2)
    BY <1>6, <2>2
  <2>4. 1 + q = n /\ h % 2 # 0 /\ 1 + h \div 2 = c BY <2>2, <2>3 DEF Step
  <2>5. q = n - 1 /\ h = 2 * c - 1 BY <1>1, <2>4
  <2>6. k - a = m
    <3> DEFINE t == 2 * c
    <3>1. (n - 1) * t = n * t - t /\ n * t \in Nat /\ t \in Nat
      <4>1. t \in Nat BY <1>1
      <4> HIDE DEF t
      <4> QED BY <1>1, <4>1, OneLess
    <3>2. k - a = (n - 1) * t + (t - 1) + 1 BY <2>3, <2>5
    <3> HIDE DEF t
    <3>3. k - a = n * t BY <3>1, <3>2
    <3> QED BY <3>3 DEF t, m
  <2> QED BY <1>3, <1>4, <2>1, <2>6
<1> QED BY <1>1, <1>14, <1>15, <1>16, <1>17, <1>18 DEF Step, c

(* The ring of a rank.                                                     *)
LEMMA ModSigned == ASSUME NEW m \in Nat \ {0}, NEW x \in Int, 0 - m <= x, x < m
  PROVE x % m = IF x < 0 THEN x + m ELSE x
<1>1. PICK d \in Int : x % m \in 0..m - 1 /\ x = m * d + (x % m)
  <2>1. x \div m \in Int /\ x % m \in 0..m-1 /\ x = m * (x \div m) + (x % m) BY Z3
  <2> QED BY <2>1
<1>2. CASE d = 0 BY <1>1, <1>2
<1>3. CASE d = 0 - 1 BY <1>1, <1>3
<1>4. CASE d > 0
  <2>1. m * d >= m BY <1>1, <1>4, Z3
  <2> QED BY <1>1, <2>1
<1>5. CASE d < 0 - 1
  <2>1. m * d <= 0 - 2 * m BY <1>1, <1>5, Z3
  <2> QED BY <1>1, <2>1
<1> QED BY <1>1, <1>2, <1>3, <1>4, <1>5

(* A rank finds each other rank at one place of its ring.                   *)
LEMMA Ring ==
  ASSUME setup \in Setups, NEW s \in Rank
  PROVE /\ \A q \in Rank : q # s =>
             /\ To(s, q) \in 1..setup.ranks - 1
             /\ (s - To(s, q)) % setup.ranks = q
        /\ \A to \in 1..setup.ranks - 1 :
             /\ (s - to) % setup.ranks \in Rank /\ (s - to) % setup.ranks # s
             /\ To(s, (s - to) % setup.ranks) = to
<1> DEFINE n == setup.ranks
<1>1. n \in Nat \ {0} /\ Rank = 0..n - 1 /\ n > 1 BY Setup
<1> HIDE DEF n
<1>2. \A x \in Int : 0 - n <= x /\ x < n => x % n = IF x < 0 THEN x + n ELSE x
  BY <1>1, ModSigned
<1>3. \A a, b \in 0..n - 1 : (a - b) % n = IF a < b THEN a - b + n ELSE a - b
  <2> TAKE a, b \in 0..n - 1
  <2>1. a - b \in Int /\ 0 - n <= a - b /\ a - b < n /\ (a - b < 0 <=> a < b) BY <1>1
  <2> QED BY <1>2, <2>1
<1>4. ASSUME NEW q \in Rank, q # s
      PROVE (s - q) % n \in 1..n - 1 /\ (s - ((s - q) % n)) % n = q
  <2>1. (s - q) % n = IF s < q THEN s - q + n ELSE s - q BY <1>1, <1>3
  <2>2. (s - q) % n \in 1..n - 1 BY <1>1, <1>4, <2>1
  <2>3. PICK t \in 1..n - 1 : t = (s - q) % n BY <2>2
  <2>4. (s - t) % n = IF s < t THEN s - t + n ELSE s - t BY <1>1, <1>3
  <2>5. (s - t) % n = q BY <1>1, <1>4, <2>1, <2>3, <2>4
  <2> QED BY <2>2, <2>3, <2>5
<1>5. ASSUME NEW to \in 1..n - 1
      PROVE /\ (s - to) % n \in Rank /\ (s - to) % n # s
            /\ (s - ((s - to) % n)) % n = to
  <2>1. (s - to) % n = IF s < to THEN s - to + n ELSE s - to BY <1>1, <1>3
  <2>2. (s - to) % n \in Rank /\ (s - to) % n # s BY <1>1, <2>1
  <2>3. PICK t \in 0..n - 1 : t = (s - to) % n BY <1>1, <2>2
  <2>4. (s - t) % n = IF s < t THEN s - t + n ELSE s - t BY <1>1, <1>3
  <2>5. (s - t) % n = to BY <1>1, <2>1, <2>3, <2>4
  <2> QED BY <2>2, <2>3, <2>5
<1> QED BY <1>1, <1>4, <1>5 DEF To, n

-----------------------------------------------------------------------------
(* What no step changes.                                                   *)
LEMMA Same ==
  ASSUME setup' = setup
  PROVE /\ Rank' = Rank /\ Chunk' = Chunk /\ Ops' = Ops /\ End' = End /\ Stamp' = Stamp
        /\ Newest' = Newest /\ Copies' = Copies
        /\ \A i : /\ IsCall(i)' = IsCall(i) /\ Captured(i)' = Captured(i)
                  /\ EpochOf(i)' = EpochOf(i) /\ Count(i)' = Count(i)
        /\ \A s, q : To(s, q)' = To(s, q) /\ Scale(s, q)' = Scale(s, q)
        /\ \A s, q, c : Data(s, q, c)' = Data(s, q, c) /\ Flag(s, q, c)' = Flag(s, q, c)
BY DEF Rank, Chunk, Ops, End, Stamp, Newest, Copies, IsCall, Captured, EpochOf, Count, To,
       Scale, Data, Flag

(* A copy that was done stays done.                                        *)
LEMMA HereStays ==
  ASSUME setup' = setup, NEW s, NEW q, NEW j, NEW copy,
         push'[s] = push[s], sent'[s] = sent[s], Last(s)' = Last(s)
  PROVE Here(s, q, j, copy)' = Here(s, q, j, copy)
BY Same DEF Here, Did

(* So does its not being done.                                             *)
LEMMA DidStays ==
  ASSUME setup' = setup, NEW s, NEW j, NEW copy, push'[s] = push[s], sent'[s] = sent[s]
  PROVE Did(s, j, copy)' = Did(s, j, copy)
BY Same DEF Did

(* What the invariant is at the start.                                     *)
LEMMA InitTypes == Init => Types
<1> SUFFICES ASSUME Init PROVE Types OBVIOUS
<1>1. setup \in Setups BY DEF Init
<1>2. /\ EpochMod \in Nat /\ EpochMod > 1 /\ setup.epoch \in 0..EpochMod - 1
      /\ End \in Nat \ {0} /\ Ops = 1..End - 1 /\ Len(setup.program) = End - 1
  BY <1>1, Setup
<1>3. NextCall(1) \in 1..End /\ (NextCall(1) = End \/ IsCall(NextCall(1)))
  <2>1. 1 \in 1..End BY <1>2
  <2> QED BY <1>1, <2>1, NextCallIs
<1>4. setup.epoch - 1 \in 0..EpochMod - 1 \/ setup.epoch = 0 BY <1>2
<1>5. 0 < Len(Copies) BY <1>1, CopiesAre
<1>6. 0 \in Stamp /\ 1 \in 1..End /\ 0 \in {0, 1} BY <1>2 DEF Stamp
<1>7. \A r \in Rank : Last(r) = 0
  BY DEF Init, Last
<1>8. parity \in [Rank -> Seq({0, 1, Discover})] BY DEF Init
<1>9. epoch \in [Rank -> [{0, 1} -> 0..EpochMod - 1]]
  <2>1. \A p \in {0, 1} : (IF setup.epoch = 0 \/ p = 0 THEN setup.epoch ELSE setup.epoch - 1) \in 0..EpochMod - 1
    BY <1>2, <1>4
  <2> QED BY <2>1 DEF Init
<1>10. /\ lastParity \in [Rank -> {0, 1}] /\ compute \in [Rank -> 1..End] /\ gemm \in [Rank -> BOOLEAN]
       /\ passed \in [Rank -> SUBSET (Rank \X Chunk)] /\ push \in [Rank -> 1..End]
       /\ sent \in [Rank -> Nat] /\ barrier \in [Rank -> 1..End]
       /\ counter \in [Rank -> 0..EpochMod - 1]
       /\ flags \in [Rank -> [Rank -> [Chunk -> 0..EpochMod - 1]]]
       /\ bufs \in [Rank -> [{0, 1} -> [Rank -> [Chunk -> Stamp]]]]
       /\ scales \in [Rank -> [{0, 1} -> [Rank -> Stamp]]]
  BY <1>2, <1>3, <1>6 DEF Init
<1>11. \A r \in Rank :
       /\ Last(r) = IF gemm[r] THEN compute[r] ELSE compute[r] - 1
       /\ gemm[r] => IsCall(compute[r])
       /\ passed[r] # {} => gemm[r]
       /\ push[r] = End \/ IsCall(push[r])
       /\ barrier[r] = End \/ IsCall(barrier[r])
       /\ sent[r] < Len(Copies)
  BY <1>3, <1>5, <1>7 DEF Init
<1> QED BY <1>1, <1>8, <1>9, <1>10, <1>11 DEF Types

(* What the whole invariant is at the start.                               *)
LEMMA InitInv == Init => IInv
<1> SUFFICES ASSUME Init PROVE IInv OBVIOUS
<1>1. Types /\ setup \in Setups BY InitTypes DEF Types
<1>2. /\ EpochMod \in Nat \ {0} /\ EpochMod > 1 /\ setup.epoch \in 0..EpochMod - 1
      /\ End \in Nat \ {0} /\ Ops = 1..End - 1
  BY <1>1, Setup
<1>3. \A r \in Rank : Last(r) = 0 BY DEF Init, Last
<1>4. Newest[0] = 0 /\ ~IsCall(0) /\ ~Captured(0) BY <1>1, <1>2, Programs DEF IsCall, Captured
<1>5. Count(0) = 0 /\ EpochOf(0) = setup.epoch
  <2>1. 0 \in 0..End - 1 BY <1>2
  <2>2. Count(0) = 0 /\ EpochOf(0) = Wrap(setup.epoch + Count(0), EpochMod) BY <1>1, <2>1, Counting, EpochIs
  <2> QED BY <1>2, <2>2 DEF Wrap
<1>6. /\ NextCall(1) \in 1..End /\ (NextCall(1) = End \/ IsCall(NextCall(1)))
      /\ \A k \in 1..NextCall(1) - 1 : ~IsCall(k)
  <2>1. 1 \in 1..End BY <1>2
  <2> QED BY <1>1, <2>1, NextCallIs
<1>7. \A r \in Rank : push[r] = NextCall(1) /\ sent[r] = 0 /\ barrier[r] = NextCall(1)
  BY DEF Init
<1>8. ASSUME NEW j \in Ops, IsCall(j) PROVE NextCall(1) <= j
  <2> SUFFICES ASSUME j < NextCall(1) PROVE FALSE BY <1>2, <1>6
  <2>1. j \in 1..NextCall(1) - 1 BY <1>2, <1>6
  <2> QED BY <1>6, <1>8, <2>1
<1>9. Pushed BY <1>2, <1>6, <1>7, <1>8 DEF Pushed
<1>10. Host BY <1>3, <1>4 DEF Host, Init
<1>11. Quiesced /\ Reuse /\ Snapshots BY <1>3 DEF Quiesced, Reuse, Snapshots
<1>12. Met BY <1>2, <1>6, <1>7, <1>8 DEF Met
<1>13. Counts BY <1>3, <1>4, <1>5 DEF Counts, Init
<1>14. Older
  <2> SUFFICES ASSUME NEW r \in Rank
               PROVE \/ \E d \in 0..0 : setup.epoch + d > 0 /\ epoch[r][1] = (setup.epoch + d - 1) % EpochMod
                     \/ setup.epoch = 0 /\ epoch[r][1] = 0
    BY <1>3, <1>4, <1>5 DEF Older
  <2>1. epoch[r][1] = IF setup.epoch = 0 THEN setup.epoch ELSE setup.epoch - 1 BY DEF Init
  <2>2. CASE setup.epoch = 0 BY <2>1, <2>2
  <2>3. CASE setup.epoch > 0
    <3>1. setup.epoch - 1 \in 0..2 * EpochMod - 1 /\ setup.epoch - 1 < EpochMod BY <1>2, <2>3
    <3>2. (setup.epoch - 1) % EpochMod = setup.epoch - 1 BY <1>2, <3>1, ModOnce
    <3>3. setup.epoch + 0 > 0 /\ setup.epoch + 0 - 1 = setup.epoch - 1 BY <1>2, <2>3
    <3> QED BY <1>2, <2>1, <2>3, <3>2, <3>3
  <2> QED BY <1>2, <2>2, <2>3
<1>15. \A s, j, copy : s \in Rank /\ j \in Ops /\ IsCall(j) => ~Did(s, j, copy)
  BY <1>2, <1>6, <1>7, <1>8 DEF Did
<1>16. Flags
  <2> SUFFICES ASSUME NEW q \in Rank, NEW s \in Rank, NEW c \in Chunk
               PROVE flags[q][s][c] = EpochOf(FlagOf(q, s, c))
    BY DEF Flags
  <2>1. flags[q][s][c] = setup.epoch BY DEF Init
  <2>2. CASE q = s BY <1>3, <1>5, <2>1, <2>2 DEF FlagOf
  <2>3. CASE q # s
    <3>1. ~Did(s, push[s], Flag(s, q, c)) BY <1>2, <1>6, <1>7 DEF Did
    <3>2. FlagOf(q, s, c) = NextCall(1) - 1 BY <1>7, <2>3, <3>1 DEF FlagOf
    <3>3. NextCall(1) - 1 \in 0..End - 1 BY <1>2, <1>6
    <3>4. Count(NextCall(1) - 1) = 0
      <4>1. {j \in 1..NextCall(1) - 1 : IsCall(j)} = {} BY <1>6
      <4> QED BY <4>1, FS_EmptySet DEF Count
    <3>5. EpochOf(NextCall(1) - 1) = Wrap(setup.epoch + 0, EpochMod) BY <1>1, <3>3, <3>4, EpochIs
    <3> QED BY <1>2, <2>1, <3>2, <3>5 DEF Wrap
  <2> QED BY <2>2, <2>3
<1>17. Arrived
  BY <1>2 DEF Init, Arrived
<1>18. \A s, q, j, copy : s \in Rank /\ j \in Ops /\ IsCall(j) => ~Here(s, q, j, copy)
  BY <1>2, <1>3, <1>15 DEF Here
<1>19. \A q, s \in Rank : \A p \in {0, 1} : scales[q][p][s] = 0 /\ \A c \in Chunk : bufs[q][p][s][c] = 0
  BY DEF Init
<1>20. 0 \notin Ops BY <1>2
<1>21. Bytes BY <1>18, <1>19, <1>20 DEF Bytes
<1>22. ScaleBytes BY <1>18, <1>19, <1>20 DEF ScaleBytes
<1> QED BY <1>1, <1>9, <1>10, <1>11, <1>12, <1>13, <1>14, <1>16, <1>17, <1>21, <1>22 DEF IInv

(* Changing one place of nested functions.                                 *)
LEMMA Except2 ==
  ASSUME NEW A, NEW B, NEW T, NEW f \in [A -> [B -> T]], NEW a \in A, NEW b \in B, NEW v \in T,
         NEW g, g = [f EXCEPT ![a][b] = v]
  PROVE /\ g \in [A -> [B -> T]] /\ \A x \in A : x # a => g[x] = f[x]
        /\ \A x \in A, y \in B : g[x][y] = IF x = a /\ y = b THEN v ELSE f[x][y]
<1> DEFINE h == [f[a] EXCEPT ![b] = v]
<1>1. h \in [B -> T] /\ \A y \in B : h[y] = IF y = b THEN v ELSE f[a][y] OBVIOUS
<1>2. g = [f EXCEPT ![a] = h] OBVIOUS
<1> HIDE DEF h
<1>3. g \in [A -> [B -> T]] /\ g[a] = h /\ \A x \in A : x # a => g[x] = f[x] BY <1>1, <1>2
<1> QED BY <1>1, <1>3

(* Where the streams of a rank are.                                        *)
LEMMA Streams ==
  ASSUME Types, NEW r \in Rank
  PROVE /\ push[r] \in 1..End /\ barrier[r] \in 1..End /\ push[r] \in Nat /\ barrier[r] \in Nat
        /\ (push[r] = End \/ IsCall(push[r])) /\ (barrier[r] = End \/ IsCall(barrier[r]))
        /\ sent[r] \in 0..Len(Copies) - 1 /\ Len(Copies) \in Nat \ {0}
        /\ passed[r] \in SUBSET (Rank \X Chunk) /\ (passed[r] # {} => gemm[r])
        /\ (gemm[r] => IsCall(compute[r]))
<1>1. Len(Copies) \in Nat \ {0} /\ End \in Nat \ {0} BY Setup, CopiesAre DEF Types
<1>2. push[r] \in 1..End /\ barrier[r] \in 1..End /\ sent[r] \in Nat /\ sent[r] < Len(Copies)
  BY DEF Types
<1> QED BY <1>1, <1>2 DEF Types

(* What a buffer can hold.                                                 *)
LEMMA StampsAre ==
  ASSUME Types
  PROVE /\ Stamp = 0..End - 1 /\ \A x \in Stamp : x \in Nat /\ (x = 0 \/ x \in Ops)
        /\ \A q, s \in Rank : \A p \in {0, 1} :
             scales[q][p][s] \in Stamp /\ \A c \in Chunk : bufs[q][p][s][c] \in Stamp
<1>1. bufs \in [Rank -> [{0, 1} -> [Rank -> [Chunk -> Stamp]]]] /\ scales \in [Rank -> [{0, 1} -> [Rank -> Stamp]]]
  BY DEF Types
<1>2. /\ Stamp = 0..End - 1 /\ Ops = 1..End - 1 /\ End \in Nat \ {0}
  BY Setup DEF Types, Stamp
<1>3. \A q, s \in Rank : \A p \in {0, 1} :
             scales[q][p][s] \in Stamp /\ \A c \in Chunk : bufs[q][p][s][c] \in Stamp
  BY <1>1
<1> QED BY <1>2, <1>3

-----------------------------------------------------------------------------
(* Staging a call.                                                         *)

(* A call takes the newest-after buffer, free of all earlier calls.        *)
LEMMA Taken ==
  ASSUME Types, Host, Quiesced, NEW r \in Rank, IsCall(compute[r]), ~gemm[r],
         Empty(r, compute[r], BufferOf(r, compute[r])), GraphsDone(r, compute[r])
  PROVE /\ BufferOf(r, compute[r]) = Newest[compute[r]]
        /\ \A j \in 1..compute[r] - 1 :
             IsCall(j) /\ Newest[j] = Newest[compute[r]] => barrier[r] > j
<1> DEFINE i == compute[r]
<1>1. i \in Ops /\ Last(r) = i - 1 /\ End \in Nat \ {0} /\ Ops = 1..End - 1 /\ setup \in Setups
  BY Lasts, Setup DEF Types, IsCall
<1>2. IsCall(i) /\ Empty(r, i, BufferOf(r, i)) /\ GraphsDone(r, i) OBVIOUS
<1> HIDE DEF i
<1>3. BufferOf(r, i) = Newest[i]
  <2>1. CASE Captured(i) BY <1>1, <2>1, Programs DEF BufferOf
  <2>2. CASE ~Captured(i)
    <3>1. ~Captured(i - 1)
      <4> SUFFICES ASSUME Captured(i - 1) PROVE FALSE OBVIOUS
      <4>1. i - 1 \in Ops /\ i - 1 \in 1..i - 1 BY <1>1 DEF Captured
      <4>2. \E k \in (i - 1) + 1..i - 1 : ~IsCall(k) BY <1>1, <1>2, <2>2, <4>1, Programs
      <4> QED BY <1>1, <4>2
    <3>2. lastParity[r] = Newest[i - 1] BY <1>1, <3>1 DEF Host
    <3>3. Newest[i] = 1 - Newest[i - 1] BY <1>1, <1>2, <2>2, Programs
    <3> QED BY <2>2, <3>2, <3>3 DEF BufferOf
  <2> QED BY <2>1, <2>2
<1>4. ASSUME NEW j \in 1..i - 1, IsCall(j), Newest[j] = Newest[i] PROVE barrier[r] > j
  <2>1. j \in Ops /\ i \in Nat /\ parity[r][j] = Newest[j] BY <1>1, <1>4 DEF Host
  <2>2. CASE Captured(i)
    <3>1. ReplayStart(i) \in 1..i BY <1>1, <2>2, ReplayStartIs
    <3>2. CASE ~Captured(j)
      <4>1. PICK k \in j + 1..i - 1 : ~IsCall(k) BY <1>1, <1>2, <1>4, <2>1, <2>2, <3>2, Programs
      <4>2. k \in 1..Last(r) /\ j \in 1..k - 1 BY <1>1, <2>1, <4>1
      <4> QED BY <1>4, <3>2, <4>1, <4>2 DEF Quiesced
    <3>3. CASE Captured(j) /\ j < ReplayStart(i) BY <1>2, <3>3 DEF GraphsDone, Finished
    <3>4. CASE Captured(j) /\ j >= ReplayStart(i)
      <4>1. j \in ReplayStart(i)..i - 1 BY <1>1, <2>1, <3>1, <3>4
      <4>2. j \in Users(r, i, Newest[i]) BY <1>4, <2>1, <2>2, <4>1 DEF Users
      <4> QED BY <1>2, <1>3, <4>2 DEF Empty
    <3> QED BY <1>1, <2>1, <3>1, <3>2, <3>3, <3>4
  <2>3. CASE ~Captured(i)
    <3>1. CASE Captured(j) BY <1>2, <2>3, <3>1 DEF GraphsDone, Finished
    <3>2. CASE ~Captured(j)
      <4>1. j \in Users(r, i, Newest[i]) BY <1>4, <2>1, <2>3, <3>2 DEF Users
      <4> QED BY <1>2, <1>3, <4>1 DEF Empty
    <3> QED BY <3>1, <3>2
  <2> QED BY <2>2, <2>3
<1> QED BY <1>3, <1>4 DEF i

(* The epoch after the last call's is the next call's.                     *)
LEMMA NextEpoch ==
  ASSUME setup \in Setups, NEW i \in Ops, IsCall(i)
  PROVE (EpochOf(i - 1) + 1) % EpochMod = EpochOf(i)
<1>1. /\ EpochMod \in Nat \ {0} /\ End \in Nat \ {0} /\ Ops = 1..End - 1
      /\ setup.epoch \in 0..EpochMod - 1
  BY Setup
<1>2. i - 1 \in 0..End - 1 /\ i \in 0..End - 1 BY <1>1
<1> DEFINE a == setup.epoch + Count(i - 1)
<1>3. Count(i - 1) \in Nat /\ Count(i) = Count(i - 1) + 1 BY <1>2, Counting
<1>4. setup.epoch + Count(i) = a + 1 BY <1>1, <1>3
<1>5. /\ EpochOf(i - 1) = Wrap(a, EpochMod) /\ a \in 0..2 * EpochMod - 1
      /\ EpochOf(i) = Wrap(a + 1, EpochMod) /\ a + 1 \in 0..2 * EpochMod - 1
  BY <1>2, <1>4, EpochIs
<1> HIDE DEF a
<1>6. CASE a < EpochMod
  <2>1. (a + 1) % EpochMod = Wrap(a + 1, EpochMod) BY <1>1, <1>5, ModOnce DEF Wrap
  <2> QED BY <1>5, <1>6, <2>1 DEF Wrap
<1>7. CASE ~(a < EpochMod)
  <2>1. a - EpochMod + 1 \in 0..2 * EpochMod - 1 /\ a - EpochMod + 1 < EpochMod
        /\ a + 1 - EpochMod = a - EpochMod + 1
    BY <1>1, <1>5, <1>7
  <2>2. (a - EpochMod + 1) % EpochMod = a - EpochMod + 1 BY <1>1, <2>1, ModOnce
  <2>3. ~(a + 1 < EpochMod) BY <1>1, <1>5, <1>7
  <2>4. EpochOf(i - 1) = a - EpochMod BY <1>5, <1>7 DEF Wrap
  <2>5. Wrap(a + 1, EpochMod) = a + 1 - EpochMod BY <1>1, <1>5, <1>7, <2>3 DEF Wrap
  <2> QED BY <1>5, <2>1, <2>2, <2>4, <2>5
<1> QED BY <1>6, <1>7

(* What staging a call does.                                               *)
LEMMA StageIs ==
  ASSUME Types, Host, Quiesced, Counts, NEW r \in Rank, Stage(r), NEW i, i = compute[r]
  PROVE /\ UNCHANGED <<setup, compute, passed, push, sent, barrier>>
        /\ ~gemm[r] /\ i \in Ops /\ IsCall(i) /\ Last(r) = i - 1 /\ Last(r)' = i
        /\ \A q \in Rank : q # r =>
             /\ Last(q)' = Last(q) /\ parity'[q] = parity[q] /\ lastParity'[q] = lastParity[q]
             /\ counter'[q] = counter[q] /\ epoch'[q] = epoch[q]
             /\ bufs'[q] = bufs[q] /\ flags'[q] = flags[q] /\ scales'[q] = scales[q]
        /\ parity'[r][i] = Newest[i] /\ \A k \in 1..i - 1 : parity'[r][k] = parity[r][k]
        /\ ~Captured(i) => lastParity'[r] = Newest[i]
        /\ Newest[i] \in {0, 1}
        /\ \A j \in 1..i - 1 : IsCall(j) /\ Newest[j] = Newest[i] => barrier[r] > j
        /\ counter'[r] = EpochOf(i) /\ epoch'[r][Newest[i]] = EpochOf(i)
        /\ epoch'[r][1 - Newest[i]] = epoch[r][1 - Newest[i]]
        /\ \A c \in Chunk : \A p \in {0, 1} : \A s \in Rank :
             bufs'[r][p][s][c] = IF p = Newest[i] /\ s = r THEN i ELSE bufs[r][p][s][c]
        /\ \A c \in Chunk : \A s \in Rank :
             flags'[r][s][c] = IF s = r THEN EpochOf(i) ELSE flags[r][s][c]
        /\ setup.scaled => \A p \in {0, 1} : \A s \in Rank :
             scales'[r][p][s] = IF p = Newest[i] /\ s = r THEN i ELSE scales[r][p][s]
        /\ Types'
<1>1. /\ IsCall(i) /\ ~gemm[r] /\ Empty(r, i, BufferOf(r, i)) /\ GraphsDone(r, i)
      /\ UNCHANGED <<setup, compute, passed, push, sent, barrier>>
  BY DEF Stage
<1>2. i \in Ops /\ Last(r) = i - 1 /\ End \in Nat \ {0} /\ Ops = 1..End - 1 /\ setup \in Setups
  BY <1>1, Lasts, Setup DEF Types, IsCall
<1>3. /\ BufferOf(r, i) = Newest[i]
      /\ \A j \in 1..i - 1 : IsCall(j) /\ Newest[j] = Newest[i] => barrier[r] > j
  BY <1>1, Taken
<1>4. Newest[i] \in {0, 1} BY <1>2, Programs
<1> DEFINE p == Newest[i]
<1>5. /\ parity' = [parity EXCEPT ![r] = Append(@, p)]
      /\ lastParity' = [lastParity EXCEPT ![r] = IF Captured(i) THEN @ ELSE p]
      /\ counter' = [counter EXCEPT ![r] = (@ + 1) % EpochMod]
      /\ epoch' = [epoch EXCEPT ![r][p] = counter'[r]]
      /\ bufs' = [bufs EXCEPT ![r][p][r] = [c \in Chunk |-> i]]
      /\ scales' = IF setup.scaled THEN [scales EXCEPT ![r][p][r] = i] ELSE scales
      /\ flags' = [flags EXCEPT ![r][r] = [c \in Chunk |-> epoch'[r][p]]]
      /\ gemm' = [gemm EXCEPT ![r] = TRUE]
  BY <1>1, <1>3 DEF Stage, Bump
<1> HIDE DEF p
<1>6. p \in {0, 1} BY <1>4 DEF p
<1>7. counter'[r] = EpochOf(i) /\ EpochOf(i) \in 0..EpochMod - 1 /\ EpochMod \in Nat
  <2>1. counter[r] = EpochOf(i - 1) /\ counter \in [Rank -> 0..EpochMod - 1] BY <1>2 DEF Counts, Types
  <2>2. counter'[r] = (counter[r] + 1) % EpochMod BY <1>5, <2>1
  <2>3. i \in 0..End - 1 BY <1>2
  <2> QED BY <1>1, <1>2, <2>1, <2>2, <2>3, NextEpoch, EpochIs, Setup
<1>8. /\ parity' \in [Rank -> Seq({0, 1, Discover})] /\ parity'[r] = Append(parity[r], p)
      /\ \A q \in Rank : q # r => parity'[q] = parity[q]
  <2>1. parity \in [Rank -> Seq({0, 1, Discover})] BY DEF Types
  <2>2. Append(parity[r], p) \in Seq({0, 1, Discover}) BY <1>6, <2>1
  <2> QED BY <1>5, <2>1, <2>2
<1>9. Last(r)' = i /\ parity'[r][i] = p /\ \A k \in 1..i - 1 : parity'[r][k] = parity[r][k]
  <2>1. parity[r] \in Seq({0, 1, Discover}) /\ Len(parity[r]) = i - 1 BY <1>2 DEF Types, Last
  <2>2. i - 1 \in Nat /\ (i - 1) + 1 = i BY <1>2
  <2>3. Len(Append(parity[r], p)) = i /\ Append(parity[r], p)[i] = p
    BY <1>6, <2>1, <2>2
  <2>4. \A k \in 1..i - 1 : Append(parity[r], p)[k] = parity[r][k] BY <2>1
  <2> QED BY <1>8, <2>3, <2>4 DEF Last
<1>10. \A q \in Rank : q # r => Last(q)' = Last(q) BY <1>8 DEF Last
<1>11. /\ epoch' \in [Rank -> [{0, 1} -> 0..EpochMod - 1]] /\ epoch'[r][p] = EpochOf(i)
       /\ epoch'[r][1 - p] = epoch[r][1 - p] /\ \A q \in Rank : q # r => epoch'[q] = epoch[q]
  <2>1. epoch \in [Rank -> [{0, 1} -> 0..EpochMod - 1]] BY DEF Types
  <2>2. epoch' = [epoch EXCEPT ![r][p] = EpochOf(i)] BY <1>5, <1>7
  <2>3. /\ epoch' \in [Rank -> [{0, 1} -> 0..EpochMod - 1]]
        /\ \A q \in Rank : q # r => epoch'[q] = epoch[q]
        /\ \A q \in Rank, o \in {0, 1} :
             epoch'[q][o] = IF q = r /\ o = p THEN EpochOf(i) ELSE epoch[q][o]
    BY <1>6, <1>7, <2>1, <2>2, Except2
  <2>4. 1 - p \in {0, 1} /\ 1 - p # p BY <1>6
  <2> QED BY <1>6, <2>3, <2>4
<1>12. /\ counter' \in [Rank -> 0..EpochMod - 1] /\ \A q \in Rank : q # r => counter'[q] = counter[q]
       /\ lastParity' \in [Rank -> {0, 1}]
       /\ \A q \in Rank : q # r => lastParity'[q] = lastParity[q]
       /\ ~Captured(i) => lastParity'[r] = p
       /\ gemm' \in [Rank -> BOOLEAN] /\ gemm'[r] /\ \A q \in Rank : q # r => gemm'[q] = gemm[q]
  <2>1. counter' \in [Rank -> 0..EpochMod - 1] /\ \A q \in Rank : q # r => counter'[q] = counter[q]
    <3>1. counter' = [counter EXCEPT ![r] = EpochOf(i)]
      BY <1>5, <1>7 DEF Types
    <3> QED BY <1>7, <3>1 DEF Types
  <2> QED BY <1>5, <1>6, <2>1 DEF Types
<1>13. i \in Stamp BY <1>2 DEF Stamp, Ops
<1>14. /\ bufs' \in [Rank -> [{0, 1} -> [Rank -> [Chunk -> Stamp]]]]
       /\ \A q \in Rank : q # r => bufs'[q] = bufs[q]
       /\ \A c \in Chunk : \A o \in {0, 1} : \A s \in Rank :
             bufs'[r][o][s][c] = IF o = p /\ s = r THEN i ELSE bufs[r][o][s][c]
  <2>1. bufs \in [Rank -> [{0, 1} -> [Rank -> [Chunk -> Stamp]]]] BY DEF Types
  <2> DEFINE v == [c \in Chunk |-> i]
  <2>2. v \in [Chunk -> Stamp] /\ \A c \in Chunk : v[c] = i BY <1>13
  <2> HIDE DEF v
  <2> DEFINE w == [bufs[r][p] EXCEPT ![r] = v]
  <2>3. bufs' = [bufs EXCEPT ![r][p] = w] BY <1>5 DEF v
  <2>5. w \in [Rank -> [Chunk -> Stamp]] /\ \A s \in Rank : w[s] = IF s = r THEN v ELSE bufs[r][p][s]
    <3>1. bufs[r][p] \in [Rank -> [Chunk -> Stamp]] BY <1>6, <2>1
    <3> QED BY <2>2, <3>1
  <2> HIDE DEF w
  <2>6. /\ bufs' \in [Rank -> [{0, 1} -> [Rank -> [Chunk -> Stamp]]]]
        /\ \A q \in Rank : q # r => bufs'[q] = bufs[q]
        /\ \A q \in Rank, o \in {0, 1} : bufs'[q][o] = IF q = r /\ o = p THEN w ELSE bufs[q][o]
    BY <1>6, <2>1, <2>3, <2>5, Except2, ZenonT(60)
  <2>4. /\ bufs' \in [Rank -> [{0, 1} -> [Rank -> [Chunk -> Stamp]]]]
        /\ \A q \in Rank : q # r => bufs'[q] = bufs[q]
        /\ \A q \in Rank, o \in {0, 1}, s \in Rank :
             bufs'[q][o][s] = IF q = r /\ o = p /\ s = r THEN v ELSE bufs[q][o][s]
    BY <1>6, <2>5, <2>6
  <2> QED BY <2>2, <2>4
<1>15. /\ flags' \in [Rank -> [Rank -> [Chunk -> 0..EpochMod - 1]]]
       /\ \A q \in Rank : q # r => flags'[q] = flags[q]
       /\ \A c \in Chunk : \A s \in Rank :
             flags'[r][s][c] = IF s = r THEN EpochOf(i) ELSE flags[r][s][c]
  <2>1. flags \in [Rank -> [Rank -> [Chunk -> 0..EpochMod - 1]]] BY DEF Types
  <2> DEFINE v == [c \in Chunk |-> EpochOf(i)]
  <2>2. v \in [Chunk -> 0..EpochMod - 1] /\ \A c \in Chunk : v[c] = EpochOf(i) BY <1>7
  <2>3. flags' = [flags EXCEPT ![r][r] = v] BY <1>5, <1>11, ZenonT(60)
  <2> HIDE DEF v
  <2>4. /\ flags' \in [Rank -> [Rank -> [Chunk -> 0..EpochMod - 1]]]
        /\ \A q \in Rank : q # r => flags'[q] = flags[q]
        /\ \A q, s \in Rank : flags'[q][s] = IF q = r /\ s = r THEN v ELSE flags[q][s]
    BY <2>1, <2>2, <2>3, Except2
  <2> QED BY <2>2, <2>4
<1>16. /\ scales' \in [Rank -> [{0, 1} -> [Rank -> Stamp]]]
       /\ \A q \in Rank : q # r => scales'[q] = scales[q]
       /\ setup.scaled => \A o \in {0, 1} : \A s \in Rank :
             scales'[r][o][s] = IF o = p /\ s = r THEN i ELSE scales[r][o][s]
  <2>1. CASE setup.scaled
    <3>1. scales \in [Rank -> [{0, 1} -> [Rank -> Stamp]]] BY DEF Types
    <3> DEFINE w == [scales[r][p] EXCEPT ![r] = i]
    <3>2. scales' = [scales EXCEPT ![r][p] = w] BY <1>5, <2>1
    <3>4. w \in [Rank -> Stamp] /\ \A s \in Rank : w[s] = IF s = r THEN i ELSE scales[r][p][s]
      <4>1. scales[r][p] \in [Rank -> Stamp] BY <1>6, <3>1
      <4> QED BY <1>13, <4>1
    <3> HIDE DEF w
    <3>5. /\ scales' \in [Rank -> [{0, 1} -> [Rank -> Stamp]]]
          /\ \A q \in Rank : q # r => scales'[q] = scales[q]
          /\ \A q \in Rank, o \in {0, 1} : scales'[q][o] = IF q = r /\ o = p THEN w ELSE scales[q][o]
      BY <1>6, <3>1, <3>2, <3>4, Except2, ZenonT(60)
    <3>3. /\ scales' \in [Rank -> [{0, 1} -> [Rank -> Stamp]]]
          /\ \A q \in Rank : q # r => scales'[q] = scales[q]
          /\ \A q \in Rank, o \in {0, 1}, s \in Rank :
               scales'[q][o][s] = IF q = r /\ o = p /\ s = r THEN i ELSE scales[q][o][s]
      BY <1>6, <3>4, <3>5
    <3> QED BY <3>3
  <2>2. CASE ~setup.scaled BY <1>5, <2>2 DEF Types
  <2> QED BY <2>1, <2>2
<1>17. Types'
  <2>1. \A q \in Rank :
       /\ Last(q)' = IF gemm'[q] THEN compute'[q] ELSE compute'[q] - 1
       /\ gemm'[q] => IsCall(compute'[q])
       /\ passed'[q] # {} => gemm'[q]
       /\ push'[q] = End \/ IsCall(push'[q])
       /\ barrier'[q] = End \/ IsCall(barrier'[q])
       /\ sent'[q] < Len(Copies)
    BY <1>1, <1>9, <1>10, <1>12, ZenonT(60) DEF Types
  <2>2. /\ setup' = setup /\ compute' = compute /\ passed' = passed /\ push' = push
        /\ sent' = sent /\ barrier' = barrier
    BY <1>1
  <2> QED BY <1>8, <1>11, <1>12, <1>14, <1>15, <1>16, <2>1, <2>2, Same DEF Types
<1> QED BY <1>1, <1>2, <1>3, <1>4, <1>7, <1>8, <1>9, <1>10, <1>11, <1>12, <1>14, <1>15, <1>16, <1>17
     DEF p

(* What holds of a copy stays, as streams only go on.                      *)
LEMMA HereGrows ==
  ASSUME setup' = setup, NEW s, NEW q, NEW j \in Int, NEW copy, Last(s) \in Int, Last(s)' \in Int,
         push'[s] = push[s], sent'[s] = sent[s], Last(s) <= Last(s)', Here(s, q, j, copy)
  PROVE Here(s, q, j, copy)'
<1>1. Did(s, j, copy)' = Did(s, j, copy) BY DidStays
<1> QED BY <1>1 DEF Here

(* Staging a call keeps the invariant.                                     *)
LEMMA StageInv == ASSUME IInv, NEW r \in Rank, Stage(r) PROVE IInv'
<1>1. PICK i : i = compute[r] OBVIOUS
<1>2. /\ Types /\ Pushed /\ Host /\ Quiesced /\ Reuse /\ Met
      /\ Counts /\ Snapshots /\ Older /\ Flags /\ Arrived /\ Bytes /\ ScaleBytes
  BY DEF IInv
<1>3. /\ setup' = setup /\ compute' = compute /\ passed' = passed /\ push' = push /\ sent' = sent
      /\ barrier' = barrier
      /\ i \in Ops /\ IsCall(i) /\ Last(r) = i - 1 /\ Last(r)' = i /\ Newest[i] \in {0, 1}
      /\ \A q \in Rank : q # r => Last(q)' = Last(q)
      /\ Types'
  BY <1>1, <1>2, StageIs
<1>4. /\ \A q \in Rank : q # r => parity'[q] = parity[q] /\ lastParity'[q] = lastParity[q]
      /\ parity'[r][i] = Newest[i] /\ \A k \in 1..i - 1 : parity'[r][k] = parity[r][k]
      /\ ~Captured(i) => lastParity'[r] = Newest[i]
      /\ \A j \in 1..i - 1 : IsCall(j) /\ Newest[j] = Newest[i] => barrier[r] > j
  BY <1>1, <1>2, StageIs
<1>5. /\ \A q \in Rank : q # r => counter'[q] = counter[q] /\ epoch'[q] = epoch[q] /\ flags'[q] = flags[q]
      /\ counter'[r] = EpochOf(i) /\ epoch'[r][Newest[i]] = EpochOf(i)
      /\ epoch'[r][1 - Newest[i]] = epoch[r][1 - Newest[i]]
      /\ \A c \in Chunk : \A s \in Rank :
             flags'[r][s][c] = IF s = r THEN EpochOf(i) ELSE flags[r][s][c]
  BY <1>1, <1>2, StageIs
<1>6. /\ \A q \in Rank : q # r => bufs'[q] = bufs[q] /\ scales'[q] = scales[q]
      /\ \A c \in Chunk : \A p \in {0, 1} : \A s \in Rank :
             bufs'[r][p][s][c] = IF p = Newest[i] /\ s = r THEN i ELSE bufs[r][p][s][c]
      /\ setup.scaled => \A p \in {0, 1} : \A s \in Rank :
             scales'[r][p][s] = IF p = Newest[i] /\ s = r THEN i ELSE scales[r][p][s]
  BY <1>1, <1>2, StageIs
<1>7. /\ End \in Nat \ {0} /\ Ops = 1..End - 1 /\ setup \in Setups /\ EpochMod \in Nat \ {0}
      /\ setup.epoch \in 0..EpochMod - 1
  BY <1>2, Setup DEF Types
<1>8. \A q \in Rank : Last(q) \in 0..End - 1 /\ Last(q)' \in 0..End - 1 /\ Last(q) <= Last(q)'
  BY <1>2, <1>3, <1>7, Lasts
<1>9. /\ Newest \in [0..End - 1 -> {0, 1}] /\ i - 1 \in 0..End - 1 /\ i \in 0..End - 1 /\ i \in 1..End - 1
  BY <1>3, <1>7, Programs
<1>10. /\ Rank' = Rank /\ Chunk' = Chunk /\ Ops' = Ops /\ End' = End /\ Newest' = Newest
       /\ \A k : IsCall(k)' = IsCall(k) /\ Captured(k)' = Captured(k) /\ EpochOf(k)' = EpochOf(k)
                 /\ Count(k)' = Count(k)
  BY <1>3, Same
<1>11. Pushed'
  <2> SUFFICES ASSUME NEW q \in Rank
               PROVE /\ \A j \in Ops : IsCall(j) /\ j < push[q] => j <= Last(q)'
                     /\ sent[q] > 0 => IsCall(push[q]) /\ push[q] <= Last(q)'
    BY <1>3, <1>10 DEF Pushed
  <2>1. /\ \A j \in Ops : IsCall(j) /\ j < push[q] => j <= Last(q)
        /\ sent[q] > 0 => IsCall(push[q]) /\ push[q] <= Last(q)
    BY <1>2 DEF Pushed
  <2>2. push[q] \in Nat /\ \A j \in Ops : j \in Nat BY <1>2, <1>7, Streams
  <2> QED BY <1>8, <2>1, <2>2
<1>12. Host'
  <2> SUFFICES ASSUME NEW q \in Rank
               PROVE /\ \A k \in 1..Last(q)' : IsCall(k) => parity'[q][k] = Newest[k]
                     /\ ~Captured(Last(q)') => lastParity'[q] = Newest[Last(q)']
    BY <1>10 DEF Host
  <2>1. CASE q # r BY <1>2, <1>3, <1>4, <2>1 DEF Host
  <2>2. CASE q = r
    <3>1. \A k \in 1..i : k = i \/ k \in 1..Last(r) BY <1>3, <1>9
    <3> QED BY <1>2, <1>3, <1>4, <2>2, <3>1 DEF Host
  <2> QED BY <2>1, <2>2
<1>13. Quiesced' /\ Reuse'
  <2> SUFFICES ASSUME NEW q \in Rank, NEW k \in 1..Last(q)', NEW j \in 1..k - 1, IsCall(j)
               PROVE /\ ~IsCall(k) /\ ~Captured(j) => barrier[q] > j
                     /\ IsCall(k) /\ Newest[j] = Newest[k] => barrier[q] > j
    BY <1>3, <1>10 DEF Quiesced, Reuse
  <2>1. CASE k \in 1..Last(q) BY <1>2, <2>1 DEF Quiesced, Reuse
  <2>2. CASE k \notin 1..Last(q)
    <3>1. q = r /\ k = i BY <1>3, <1>8, <1>9, <2>2
    <3> QED BY <1>3, <1>4, <3>1
  <2> QED BY <2>1, <2>2
<1>14. Met' BY <1>2, <1>3, <1>10 DEF Met
<1>15. Counts' BY <1>2, <1>3, <1>5, <1>10 DEF Counts
<1>16. Snapshots'
  <2> SUFFICES ASSUME NEW q \in Rank, NEW j \in 1..Last(q)', IsCall(j),
                      \A k \in j + 1..Last(q)' : IsCall(k) => Newest[k] # Newest[j]
               PROVE epoch'[q][Newest[j]] = EpochOf(j)
    BY <1>10 DEF Snapshots
  <2>1. CASE q # r BY <1>2, <1>3, <1>5, <2>1 DEF Snapshots
  <2>2. CASE q = r /\ j = i BY <1>5, <2>2
  <2>3. CASE q = r /\ j # i
    <3>1. j \in 1..i - 1 /\ i \in j + 1..i BY <1>3, <1>9, <2>3
    <3>2. Newest[i] # Newest[j] /\ Newest[j] \in {0, 1} BY <1>3, <1>7, <1>9, <2>3, <3>1
    <3>3. Newest[j] = 1 - Newest[i] BY <1>3, <3>2
    <3>4. \A k \in j + 1..i - 1 : k \in j + 1..i BY <1>9
    <3>5. epoch[r][Newest[j]] = EpochOf(j) BY <1>2, <1>3, <2>3, <3>1, <3>4 DEF Snapshots
    <3> QED BY <1>5, <2>3, <3>3, <3>5
  <2> QED BY <2>1, <2>2, <2>3
<1>17. Older'
  <2> SUFFICES ASSUME NEW q \in Rank
               PROVE \/ \E d \in Newest[Last(q)']..Count(Last(q)') :
                          /\ setup.epoch + d > 0
                          /\ epoch'[q][1 - Newest[Last(q)']] = (setup.epoch + d - 1) % EpochMod
                     \/ /\ setup.epoch = 0 /\ Count(Last(q)') = 0
                        /\ epoch'[q][1 - Newest[Last(q)']] = 0
    BY <1>3, <1>10 DEF Older
  <2>1. CASE q # r BY <1>2, <1>3, <1>5, <2>1 DEF Older
  <2>2. CASE q = r
    <3>1. /\ Count(i) = Count(i - 1) + 1 /\ Count(i - 1) \in Nat
          /\ EpochOf(i - 1) = (setup.epoch + Count(i - 1)) % EpochMod
      BY <1>3, <1>7, <1>9, Counting
    <3> SUFFICES \E d \in Newest[i]..Count(i) :
                   /\ setup.epoch + d > 0
                   /\ epoch[r][1 - Newest[i]] = (setup.epoch + d - 1) % EpochMod
      BY <1>3, <1>5, <2>2
    <3>2. Newest[i - 1] \in {0, 1} BY <1>9
    <3>3. CASE Newest[i] # Newest[i - 1]
      <4>1. 1 - Newest[i] = Newest[i - 1] BY <1>3, <3>2, <3>3
      <4>2. epoch[r][Newest[i - 1]] = (setup.epoch + Count(i - 1)) % EpochMod
        BY <1>2, <1>3, <3>1 DEF Counts
      <4>3. /\ Count(i) \in Newest[i]..Count(i) /\ setup.epoch + Count(i) > 0
            /\ setup.epoch + Count(i) - 1 = setup.epoch + Count(i - 1)
        <5>1. Newest[i] \in {0, 1} BY <1>3
        <5>2. setup.epoch \in Nat BY <1>7
        <5>3. Count(i) = Count(i - 1) + 1 /\ Count(i - 1) \in Nat BY <3>1
        <5> QED BY <5>1, <5>2, <5>3
      <4> QED BY <4>1, <4>2, <4>3
    <3>4. CASE Newest[i] = Newest[i - 1]
      <4>1. CASE \E d \in Newest[i - 1]..Count(i - 1) :
                   /\ setup.epoch + d > 0
                   /\ epoch[r][1 - Newest[i - 1]] = (setup.epoch + d - 1) % EpochMod
        <5>1. \A d \in Newest[i - 1]..Count(i - 1) : d \in Newest[i]..Count(i)
          BY <1>3, <3>1, <3>4
        <5> QED BY <3>4, <4>1, <5>1
      <4>2. CASE setup.epoch = 0 /\ Count(i - 1) = 0 /\ epoch[r][1 - Newest[i - 1]] = 0
        <5>1. 1 \in Newest[i]..Count(i) /\ setup.epoch + 1 > 0 /\ setup.epoch + 1 - 1 = 0
          <6>1. Newest[i] \in {0, 1} BY <1>3
          <6>2. Count(i) = 1 BY <3>1, <4>2
          <6> QED BY <4>2, <6>1, <6>2
        <5>2. 0 % EpochMod = 0 BY <1>7
        <5> QED BY <3>4, <4>2, <5>1, <5>2
      <4> QED BY <1>2, <1>3, <4>1, <4>2 DEF Older
    <3> QED BY <3>3, <3>4
  <2> QED BY <2>1, <2>2
<1>18. \A s, j, copy : s \in Rank => Did(s, j, copy)' = Did(s, j, copy) BY <1>3, DidStays
<1>19. \A s, q : \A c \in Chunk :
         Flag(s, q, c)' = Flag(s, q, c) /\ Data(s, q, c)' = Data(s, q, c) /\ Scale(s, q)' = Scale(s, q)
  BY <1>3, Same
<1>20. Flags'
  <2> SUFFICES ASSUME NEW q \in Rank, NEW s \in Rank, NEW c \in Chunk
               PROVE flags'[q][s][c] = EpochOf(FlagOf(q, s, c)')
    BY <1>10 DEF Flags
  <2>1. flags[q][s][c] = EpochOf(FlagOf(q, s, c)) BY <1>2 DEF Flags
  <2>2. CASE q # s
    <3>1. FlagOf(q, s, c)' = FlagOf(q, s, c) BY <1>3, <1>18, <1>19, <2>2 DEF FlagOf
    <3>2. flags'[q][s][c] = flags[q][s][c] BY <1>5, <2>2
    <3> QED BY <2>1, <3>1, <3>2
  <2>3. CASE q = s
    <3>1. FlagOf(q, s, c)' = Last(s)' /\ FlagOf(q, s, c) = Last(s) BY <2>3 DEF FlagOf
    <3> QED BY <1>3, <1>5, <2>1, <2>3, <3>1
  <2> QED BY <2>2, <2>3
<1>21. \A s, q \in Rank : \A j \in Ops : \A copy : Here(s, q, j, copy) => Here(s, q, j, copy)'
  BY <1>3, <1>7, <1>8, HereGrows
<1>22. Arrived' BY <1>2, <1>3, <1>10, <1>19, <1>21 DEF Arrived
<1>23. \A s, q \in Rank : \A j \in Ops : \A copy :
         Here(s, q, j, copy)' => Here(s, q, j, copy) \/ (s = r /\ q = r /\ j = i)
  BY <1>3, <1>7, <1>18 DEF Here
<1>24. Here(r, r, i, Scale(r, r))' /\ \A c \in Chunk : Here(r, r, i, Data(r, r, c))'
  BY <1>3, <1>7 DEF Here
<1>25. Bytes'
  <2> SUFFICES ASSUME NEW q \in Rank, NEW s \in Rank, NEW c \in Chunk
               PROVE /\ \A j \in Ops : IsCall(j) /\ Here(s, q, j, Data(s, q, c))'
                          => bufs'[q][Newest[j]][s][c] >= j
                     /\ \A p \in {0, 1} : \A k \in Ops : bufs'[q][p][s][c] = k =>
                          IsCall(k) /\ Newest[k] = p /\ Here(s, q, k, Data(s, q, c))'
    BY <1>10 DEF Bytes
  <2>1. /\ \A j \in Ops : IsCall(j) /\ Here(s, q, j, Data(s, q, c)) => bufs[q][Newest[j]][s][c] >= j
        /\ \A p \in {0, 1} : \A k \in Ops : bufs[q][p][s][c] = k =>
             IsCall(k) /\ Newest[k] = p /\ Here(s, q, k, Data(s, q, c))
    BY <1>2 DEF Bytes
  <2>2. \A p \in {0, 1} :
          bufs'[q][p][s][c] = IF q = r /\ p = Newest[i] /\ s = r THEN i ELSE bufs[q][p][s][c]
    BY <1>6
  <2>3. \A j \in Ops : Newest[j] \in {0, 1} /\ j \in Nat BY <1>7, <1>9
  <2>4. ASSUME NEW j \in Ops, IsCall(j), Here(s, q, j, Data(s, q, c))'
        PROVE bufs'[q][Newest[j]][s][c] >= j
    <3>1. CASE q = r /\ s = r /\ Newest[j] = Newest[i]
      <4>1. j <= i BY <1>3, <2>4, <3>1 DEF Here
      <4> QED BY <1>3, <2>2, <2>3, <3>1, <4>1
    <3>2. CASE ~(q = r /\ s = r /\ Newest[j] = Newest[i])
      <4>1. Here(s, q, j, Data(s, q, c)) BY <1>19, <1>23, <2>4, <3>2
      <4> QED BY <2>1, <2>2, <2>3, <2>4, <3>2, <4>1
    <3> QED BY <3>1, <3>2
  <2>5. ASSUME NEW p \in {0, 1}, NEW k \in Ops, bufs'[q][p][s][c] = k
        PROVE IsCall(k) /\ Newest[k] = p /\ Here(s, q, k, Data(s, q, c))'
    <3>1. CASE q = r /\ p = Newest[i] /\ s = r
      BY <1>3, <1>24, <2>2, <2>5, <3>1
    <3>2. CASE ~(q = r /\ p = Newest[i] /\ s = r)
      BY <1>19, <1>21, <2>1, <2>2, <2>5, <3>2
    <3> QED BY <3>1, <3>2
  <2> QED BY <2>4, <2>5
<1>26. ScaleBytes'
  <2> SUFFICES ASSUME setup.scaled, NEW q \in Rank, NEW s \in Rank
               PROVE /\ \A j \in Ops : IsCall(j) /\ Here(s, q, j, Scale(s, q))'
                          => scales'[q][Newest[j]][s] >= j
                     /\ \A p \in {0, 1} : \A k \in Ops : scales'[q][p][s] = k =>
                          IsCall(k) /\ Newest[k] = p /\ Here(s, q, k, Scale(s, q))'
    BY <1>3, <1>10 DEF ScaleBytes
  <2>1. /\ \A j \in Ops : IsCall(j) /\ Here(s, q, j, Scale(s, q)) => scales[q][Newest[j]][s] >= j
        /\ \A p \in {0, 1} : \A k \in Ops : scales[q][p][s] = k =>
             IsCall(k) /\ Newest[k] = p /\ Here(s, q, k, Scale(s, q))
    BY <1>2 DEF ScaleBytes
  <2>2. \A p \in {0, 1} :
          scales'[q][p][s] = IF q = r /\ p = Newest[i] /\ s = r THEN i ELSE scales[q][p][s]
    BY <1>6
  <2>3. \A j \in Ops : Newest[j] \in {0, 1} /\ j \in Nat BY <1>7, <1>9
  <2>0. Scale(s, q)' = Scale(s, q) BY <1>3, Same
  <2>4. ASSUME NEW j \in Ops, IsCall(j), Here(s, q, j, Scale(s, q))'
        PROVE scales'[q][Newest[j]][s] >= j
    <3>1. CASE q = r /\ s = r /\ Newest[j] = Newest[i]
      <4>1. j <= i BY <1>3, <2>4, <3>1 DEF Here
      <4> QED BY <1>3, <2>2, <2>3, <3>1, <4>1
    <3>2. CASE ~(q = r /\ s = r /\ Newest[j] = Newest[i])
      <4>1. Here(s, q, j, Scale(s, q)) BY <2>0, <1>23, <2>4, <3>2
      <4> QED BY <2>1, <2>2, <2>3, <2>4, <3>2, <4>1
    <3> QED BY <3>1, <3>2
  <2>5. ASSUME NEW p \in {0, 1}, NEW k \in Ops, scales'[q][p][s] = k
        PROVE IsCall(k) /\ Newest[k] = p /\ Here(s, q, k, Scale(s, q))'
    <3>1. CASE q = r /\ p = Newest[i] /\ s = r
      BY <1>3, <1>24, <2>2, <2>5, <3>1
    <3>2. CASE ~(q = r /\ p = Newest[i] /\ s = r)
      BY <2>0, <1>21, <2>1, <2>2, <2>5, <3>2
    <3> QED BY <3>1, <3>2
  <2> QED BY <2>4, <2>5
<1> QED BY <1>3, <1>11, <1>12, <1>13, <1>14, <1>15, <1>16, <1>17, <1>20, <1>22, <1>25, <1>26 DEF IInv

-----------------------------------------------------------------------------
(* The GEMM and the barrier.                                               *)

(* Every copy a flag stands for is one of the call's, done before it.      *)
LEMMA DataFirst ==
  ASSUME Types, NEW s \in Rank, NEW q \in Rank, NEW c \in Chunk, NEW j, Here(s, q, j, Flag(s, q, c))
  PROVE Here(s, q, j, Data(s, q, c)) /\ (setup.scaled => Here(s, q, j, Scale(s, q)))
<1>1. CASE q = s BY <1>1 DEF Here
<1>2. CASE q # s /\ push[s] > j BY <1>2 DEF Here, Did
<1>3. CASE q # s /\ ~(push[s] > j)
  <2>1. push[s] = j /\ \E k \in 1..sent[s] : Copies[k] = Flag(s, q, c) BY <1>3 DEF Here, Did
  <2>2. PICK k \in 1..sent[s] : Copies[k] = Flag(s, q, c) BY <2>1
  <2>3. setup \in Setups BY DEF Types
  <2>4. k \in 1..Len(Copies) /\ sent[s] \in Nat BY Streams
  <2>5. Copies[k].what = "flag" /\ Copies[k].to = To(s, q) /\ Copies[k].chunk = c
    BY <2>2 DEF Flag, Step
  <2>6. /\ \E i \in 1..k - 1 : Copies[i] = Data(s, q, c)
        /\ setup.scaled => \E i \in 1..k - 1 : Copies[i] = Scale(s, q)
    BY <2>3, <2>4, <2>5, CopiesAre DEF Data, Scale
  <2>7. \A i \in 1..k - 1 : i \in 1..sent[s] BY <2>4
  <2> QED BY <1>3, <2>1, <2>6, <2>7 DEF Here, Did
<1> QED BY <1>1, <1>2, <1>3

(* Whose flag is at a rank.                                                *)
LEMMA FlagOfIs ==
  ASSUME Types, Pushed, NEW q \in Rank, NEW s \in Rank, NEW c \in Chunk
  PROVE /\ FlagOf(q, s, c) \in 0..End - 1
        /\ \A j \in Ops : FlagOf(q, s, c) >= j => Here(s, q, j, Flag(s, q, c))
<1>1. End \in Nat \ {0} /\ Ops = 1..End - 1 BY Setup DEF Types
<1>2. push[s] \in 1..End /\ sent[s] \in Nat /\ Last(s) \in 0..End - 1 BY Streams, Lasts
<1>3. CASE q = s BY <1>1, <1>2, <1>3 DEF FlagOf, Here
<1>4. CASE q # s /\ Did(s, push[s], Flag(s, q, c))
  <2>1. sent[s] > 0 BY <1>2, <1>4 DEF Did
  <2>2. push[s] \in Ops BY <2>1 DEF Pushed, IsCall
  <2>3. FlagOf(q, s, c) = push[s] BY <1>4 DEF FlagOf
  <2>4. ASSUME NEW j \in Ops, push[s] >= j PROVE Here(s, q, j, Flag(s, q, c))
    <3>1. push[s] = j \/ push[s] > j BY <1>1, <1>2, <2>4
    <3> QED BY <1>4, <3>1 DEF Here, Did
  <2> QED BY <1>1, <2>2, <2>3, <2>4
<1>5. CASE q # s /\ ~Did(s, push[s], Flag(s, q, c))
  <2>1. FlagOf(q, s, c) = push[s] - 1 BY <1>5 DEF FlagOf
  <2>2. \A j \in Ops : push[s] - 1 >= j => push[s] > j BY <1>1, <1>2
  <2> QED BY <1>1, <1>2, <1>5, <2>1, <2>2 DEF Here, Did
<1> QED BY <1>3, <1>4, <1>5

(* What the steps that leave memory alone leave true.                      *)
LEMMA QuietInv ==
  ASSUME IInv, UNCHANGED <<setup, host, push, sent, memory>>
  PROVE /\ Pushed' /\ Host' /\ Counts' /\ Snapshots' /\ Older' /\ Flags' /\ Bytes' /\ ScaleBytes'
        /\ \A q \in Rank : Last(q)' = Last(q)
        /\ \A s, q, j, copy : Here(s, q, j, copy)' = Here(s, q, j, copy)
        /\ \A s, q : \A c \in Chunk : Flag(s, q, c)' = Flag(s, q, c)
<1>1. /\ setup' = setup /\ lastParity' = lastParity /\ parity' = parity /\ push' = push /\ sent' = sent
      /\ counter' = counter /\ epoch' = epoch /\ flags' = flags /\ bufs' = bufs /\ scales' = scales
  BY DEF host, memory
<1>2. /\ Rank' = Rank /\ Chunk' = Chunk /\ Ops' = Ops /\ End' = End /\ Newest' = Newest
      /\ \A k : IsCall(k)' = IsCall(k) /\ Captured(k)' = Captured(k) /\ EpochOf(k)' = EpochOf(k)
                /\ Count(k)' = Count(k)
      /\ \A s, q : Scale(s, q)' = Scale(s, q)
      /\ \A s, q, c : Flag(s, q, c)' = Flag(s, q, c) /\ Data(s, q, c)' = Data(s, q, c)
  BY <1>1, Same
<1>3. \A q : Last(q)' = Last(q) BY <1>1 DEF Last
<1>4. \A s, q, j, copy : Here(s, q, j, copy)' = Here(s, q, j, copy) BY <1>1, <1>3, HereStays
<1>5. \A s, j, copy : Did(s, j, copy)' = Did(s, j, copy) BY <1>1, DidStays
<1>6. \A q, s, c : FlagOf(q, s, c)' = FlagOf(q, s, c) BY <1>1, <1>2, <1>3, <1>5 DEF FlagOf
<1>7. Pushed' /\ Host' BY <1>1, <1>2, <1>3 DEF IInv, Pushed, Host
<1>8. Counts' /\ Snapshots' BY <1>1, <1>2, <1>3 DEF IInv, Counts, Snapshots
<1>9. Older' BY <1>1, <1>2, <1>3 DEF IInv, Older
<1>10. Flags' BY <1>1, <1>2, <1>6 DEF IInv, Flags
<1>11. Bytes' BY <1>1, <1>2, <1>4 DEF IInv, Bytes
<1>12. ScaleBytes' BY <1>1, <1>2, <1>4 DEF IInv, ScaleBytes
<1> QED BY <1>2, <1>3, <1>4, <1>7, <1>8, <1>9, <1>10, <1>11, <1>12

(* So does a gate: the flag it saw was raised by this call or a later one. *)
LEMMA GateInv ==
  ASSUME IInv, NEW r \in Rank, NEW s \in Rank, NEW c \in Chunk, Gate(r, s, c) PROVE IInv'
<1>1. /\ gemm[r] /\ Reached(flags[r][s][c], epoch[r][parity[r][compute[r]]])
      /\ passed' = [passed EXCEPT ![r] = @ \cup {<<s, c>>}]
      /\ UNCHANGED <<setup, host, push, sent, memory>>
      /\ setup' = setup /\ compute' = compute /\ gemm' = gemm /\ barrier' = barrier
  BY DEF Gate
<1>2. /\ Pushed' /\ Host' /\ Counts' /\ Snapshots' /\ Older' /\ Flags' /\ Bytes' /\ ScaleBytes'
      /\ \A q \in Rank : Last(q)' = Last(q)
      /\ \A o, q, j, copy : Here(o, q, j, copy)' = Here(o, q, j, copy)
      /\ \A o, q : \A d \in Chunk : Flag(o, q, d)' = Flag(o, q, d)
  BY <1>1, QuietInv
<1>3. /\ Types /\ Pushed /\ Host /\ Quiesced /\ Reuse /\ Met /\ Snapshots /\ Flags /\ Arrived
  BY DEF IInv
<1>4. /\ Rank' = Rank /\ Chunk' = Chunk /\ Ops' = Ops /\ End' = End /\ Newest' = Newest
      /\ Stamp' = Stamp /\ Copies' = Copies
      /\ \A k : IsCall(k)' = IsCall(k) /\ Captured(k)' = Captured(k)
  BY <1>1, Same
<1>5. /\ End \in Nat \ {0} /\ Ops = 1..End - 1 /\ setup \in Setups
  BY <1>3, Setup DEF Types
<1>6. passed' \in [Rank -> SUBSET (Rank \X Chunk)]
      /\ \A q \in Rank : passed'[q] = IF q = r THEN passed[r] \cup {<<s, c>>} ELSE passed[q]
  <2>1. passed \in [Rank -> SUBSET (Rank \X Chunk)] BY <1>3 DEF Types
  <2>2. passed[r] \cup {<<s, c>>} \in SUBSET (Rank \X Chunk) BY <2>1
  <2> QED BY <1>1, <2>1, <2>2
<1>7. Types'
  <2>1. \A q \in Rank :
       /\ Last(q)' = IF gemm'[q] THEN compute'[q] ELSE compute'[q] - 1
       /\ gemm'[q] => IsCall(compute'[q])
       /\ passed'[q] # {} => gemm'[q]
       /\ push'[q] = End \/ IsCall(push'[q])
       /\ barrier'[q] = End \/ IsCall(barrier'[q])
       /\ sent'[q] < Len(Copies)
    BY <1>1, <1>2, <1>3, <1>6 DEF Types
  <2>2. /\ lastParity' = lastParity /\ parity' = parity /\ push' = push /\ sent' = sent
        /\ counter' = counter /\ epoch' = epoch /\ flags' = flags /\ bufs' = bufs /\ scales' = scales
    BY <1>1 DEF host, memory
  <2> QED BY <1>1, <1>3, <1>4, <1>6, <2>1, <2>2 DEF Types
<1>8. Quiesced' /\ Reuse' BY <1>1, <1>2, <1>3, <1>4 DEF Quiesced, Reuse
<1>9. Met' BY <1>1, <1>3, <1>4 DEF Met
<1>11. Arrived'
  <2>1. PICK i : i = compute[r] OBVIOUS
  <2>2. IsCall(i) /\ i \in Ops /\ Last(r) = i BY <1>1, <1>3, <2>1, Lasts, Streams DEF IsCall
  <2>3. parity[r][i] = Newest[i]
    <3>1. i \in 1..Last(r) BY <1>5, <2>2
    <3> QED BY <1>3, <2>2, <3>1 DEF Host
  <2>4. epoch[r][Newest[i]] = EpochOf(i)
    <3>1. i \in 1..Last(r) /\ \A k \in i + 1..Last(r) : FALSE BY <1>5, <2>2
    <3> QED BY <1>3, <2>2, <3>1 DEF Snapshots
  <2>5. flags[r][s][c] = EpochOf(FlagOf(r, s, c)) BY <1>3 DEF Flags
  <2>6. Reached(EpochOf(FlagOf(r, s, c)), EpochOf(i)) BY <1>1, <2>1, <2>3, <2>4, <2>5
  <2>7. FlagOf(r, s, c) >= i BY <1>3, <1>5, <2>2, <2>6, FlagOfIs, ReachedIs
  <2>8. Here(s, r, i, Flag(s, r, c)) BY <1>3, <2>2, <2>7, FlagOfIs
  <2> SUFFICES ASSUME NEW q \in Rank, NEW o \in Rank, NEW d \in Chunk, NEW j \in Ops, IsCall(j),
                      compute[q] > j \/ (compute[q] = j /\ <<o, d>> \in passed'[q])
               PROVE Here(o, q, j, Flag(o, q, d))
    BY <1>1, <1>2, <1>4 DEF Arrived
  <2>9. CASE q = r /\ o = s /\ d = c /\ j = i BY <2>8, <2>9
  <2>10. CASE ~(q = r /\ o = s /\ d = c /\ j = i)
    <3>1. compute[q] > j \/ (compute[q] = j /\ <<o, d>> \in passed[q]) BY <1>6, <2>1, <2>10
    <3> QED BY <1>3, <3>1 DEF Arrived
  <2> QED BY <2>9, <2>10
<1> QED BY <1>2, <1>7, <1>8, <1>9, <1>11 DEF IInv

(* So does the end of a GEMM: all its gates are behind it.                 *)
LEMMA GemmEndInv == ASSUME IInv, NEW r \in Rank, GemmEnd(r) PROVE IInv'
<1>1. /\ gemm[r] /\ passed[r] = Rank \X Chunk
      /\ gemm' = [gemm EXCEPT ![r] = FALSE] /\ passed' = [passed EXCEPT ![r] = {}]
      /\ compute' = [compute EXCEPT ![r] = @ + 1]
      /\ UNCHANGED <<setup, host, push, sent, memory>>
      /\ setup' = setup /\ barrier' = barrier /\ parity' = parity /\ lastParity' = lastParity
      /\ push' = push /\ sent' = sent
      /\ counter' = counter /\ epoch' = epoch /\ flags' = flags /\ bufs' = bufs /\ scales' = scales
  BY DEF GemmEnd, host, memory
<1>2. /\ Pushed' /\ Host' /\ Counts' /\ Snapshots' /\ Older' /\ Flags' /\ Bytes' /\ ScaleBytes'
      /\ \A q \in Rank : Last(q)' = Last(q)
      /\ \A o, q, j, copy : Here(o, q, j, copy)' = Here(o, q, j, copy)
      /\ \A o, q : \A d \in Chunk : Flag(o, q, d)' = Flag(o, q, d)
  BY <1>1, QuietInv
<1>3. /\ Types /\ Host /\ Quiesced /\ Reuse /\ Met /\ Arrived /\ Bytes
  BY DEF IInv
<1>4. /\ Rank' = Rank /\ Chunk' = Chunk /\ Ops' = Ops /\ End' = End /\ Newest' = Newest
      /\ Stamp' = Stamp /\ Copies' = Copies
      /\ \A k : IsCall(k)' = IsCall(k) /\ Captured(k)' = Captured(k)
  BY <1>1, Same
<1>5. /\ End \in Nat \ {0} /\ Ops = 1..End - 1 /\ setup \in Setups
  BY <1>3, Setup DEF Types
<1>6. PICK i : i = compute[r] OBVIOUS
<1>7. IsCall(i) /\ i \in Ops /\ Last(r) = i /\ i \in Nat
  BY <1>1, <1>3, <1>5, <1>6, Lasts, Streams DEF IsCall
<1>8. /\ compute' \in [Rank -> 1..End] /\ compute'[r] = i + 1
      /\ \A q \in Rank : q # r => compute'[q] = compute[q]
  <2>1. compute \in [Rank -> 1..End] BY <1>3 DEF Types
  <2>2. i + 1 \in 1..End BY <1>5, <1>7
  <2>3. compute' = [compute EXCEPT ![r] = i + 1] BY <1>1, <1>6, <2>1
  <2> QED BY <2>1, <2>2, <2>3
<1>9. /\ gemm' \in [Rank -> BOOLEAN] /\ ~gemm'[r] /\ \A q \in Rank : q # r => gemm'[q] = gemm[q]
      /\ passed' \in [Rank -> SUBSET (Rank \X Chunk)] /\ passed'[r] = {}
      /\ \A q \in Rank : q # r => passed'[q] = passed[q]
  <2>1. gemm \in [Rank -> BOOLEAN] /\ passed \in [Rank -> SUBSET (Rank \X Chunk)] BY <1>3 DEF Types
  <2> QED BY <1>1, <2>1
<1>10. Types'
  <2>1. \A q \in Rank :
       /\ Last(q)' = IF gemm'[q] THEN compute'[q] ELSE compute'[q] - 1
       /\ gemm'[q] => IsCall(compute'[q])
       /\ passed'[q] # {} => gemm'[q]
    <3> TAKE q \in Rank
    <3>1. CASE q = r BY <1>2, <1>7, <1>8, <1>9, <3>1
    <3>2. CASE q # r BY <1>2, <1>3, <1>8, <1>9, <3>2, Lasts, Streams
    <3> QED BY <3>1, <3>2
  <2>2. \A q \in Rank :
       /\ push'[q] = End \/ IsCall(push'[q])
       /\ barrier'[q] = End \/ IsCall(barrier'[q])
       /\ sent'[q] < Len(Copies)
    BY <1>1, <1>3 DEF Types
  <2> QED BY <1>1, <1>3, <1>4, <1>8, <1>9, <2>1, <2>2 DEF Types
<1>11. Quiesced' /\ Reuse' BY <1>1, <1>2, <1>3, <1>4 DEF Quiesced, Reuse
<1>12. \A q \in Rank : compute[q] \in Nat /\ compute'[q] \in Nat /\ compute[q] <= compute'[q]
  BY <1>3, <1>5, <1>6, <1>7, <1>8, Lasts
<1>13. Met'
  <2> SUFFICES ASSUME NEW o \in Rank, NEW q \in Rank, NEW j \in Ops, IsCall(j), barrier[o] > j
               PROVE compute'[q] > j
    BY <1>1, <1>4 DEF Met
  <2>1. compute[q] > j /\ j \in Nat BY <1>3, <1>5 DEF Met
  <2> QED BY <1>12, <2>1
<1>14. \A o \in Rank : \A d \in Chunk : Here(o, r, i, Flag(o, r, d))
  BY <1>1, <1>3, <1>6, <1>7 DEF Arrived
<1>15. Arrived'
  <2> SUFFICES ASSUME NEW q \in Rank, NEW o \in Rank, NEW d \in Chunk, NEW j \in Ops, IsCall(j),
                      compute'[q] > j \/ (compute'[q] = j /\ <<o, d>> \in passed'[q])
               PROVE Here(o, q, j, Flag(o, q, d))
    BY <1>1, <1>2, <1>4 DEF Arrived
  <2>1. CASE q # r BY <1>3, <1>8, <1>9, <2>1 DEF Arrived
  <2>2. CASE q = r /\ j = i BY <1>14, <2>2
  <2>3. CASE q = r /\ j # i
    <3>1. compute[r] > j BY <1>5, <1>6, <1>7, <1>8, <1>9, <2>3
    <3> QED BY <1>3, <2>3, <3>1 DEF Arrived
  <2> QED BY <2>1, <2>2, <2>3
<1> QED BY <1>2, <1>10, <1>11, <1>13, <1>15 DEF IInv

(* So does a release: all ranks had entered the barrier.                   *)
LEMMA ReleaseInv == ASSUME IInv, NEW r \in Rank, Release(r) PROVE IInv'
<1>1. /\ IsCall(barrier[r]) /\ \A q \in Rank : Entered(q, barrier[r])
      /\ barrier' = [barrier EXCEPT ![r] = NextCall(@ + 1)]
      /\ UNCHANGED <<setup, host, push, sent, memory>>
      /\ setup' = setup /\ compute' = compute /\ gemm' = gemm /\ passed' = passed
      /\ parity' = parity /\ lastParity' = lastParity /\ push' = push /\ sent' = sent
      /\ counter' = counter /\ epoch' = epoch /\ flags' = flags /\ bufs' = bufs /\ scales' = scales
  BY DEF Release, host, memory
<1>2. /\ Pushed' /\ Host' /\ Counts' /\ Snapshots' /\ Older' /\ Flags' /\ Bytes' /\ ScaleBytes'
      /\ \A q \in Rank : Last(q)' = Last(q)
      /\ \A o, q, j, copy : Here(o, q, j, copy)' = Here(o, q, j, copy)
      /\ \A o, q : \A d \in Chunk : Flag(o, q, d)' = Flag(o, q, d)
  BY <1>1, QuietInv
<1>3. Types /\ Quiesced /\ Reuse /\ Met /\ Arrived BY DEF IInv
<1>4. /\ Rank' = Rank /\ Chunk' = Chunk /\ Ops' = Ops /\ End' = End /\ Newest' = Newest
      /\ Stamp' = Stamp /\ Copies' = Copies
      /\ \A k : IsCall(k)' = IsCall(k) /\ Captured(k)' = Captured(k)
  BY <1>1, Same
<1>5. /\ End \in Nat \ {0} /\ Ops = 1..End - 1 /\ setup \in Setups
  BY <1>3, Setup DEF Types
<1>6. PICK b : b = barrier[r] OBVIOUS
<1>7. IsCall(b) /\ b \in Ops /\ b + 1 \in 1..End BY <1>1, <1>5, <1>6 DEF IsCall
<1>8. PICK n \in b + 1..End : n = NextCall(b + 1) /\ (n = End \/ IsCall(n)) /\ \A k \in b + 1..n - 1 : ~IsCall(k)
  BY <1>5, <1>7, NextCallIs
<1>9. /\ barrier' \in [Rank -> 1..End] /\ barrier'[r] = n
      /\ \A q \in Rank : q # r => barrier'[q] = barrier[q]
  <2>1. barrier \in [Rank -> 1..End] BY <1>3 DEF Types
  <2>2. n \in 1..End BY <1>5, <1>7
  <2>3. barrier' = [barrier EXCEPT ![r] = n] BY <1>1, <1>6, <1>8, <2>1
  <2> QED BY <2>1, <2>2, <2>3
<1>10. Types'
  <2>1. \A q \in Rank :
       /\ Last(q)' = IF gemm'[q] THEN compute'[q] ELSE compute'[q] - 1
       /\ gemm'[q] => IsCall(compute'[q])
       /\ passed'[q] # {} => gemm'[q]
       /\ push'[q] = End \/ IsCall(push'[q])
       /\ sent'[q] < Len(Copies)
    BY <1>1, <1>2, <1>3 DEF Types
  <2>2. \A q \in Rank : barrier'[q] = End \/ IsCall(barrier'[q]) BY <1>3, <1>8, <1>9, Streams
  <2> QED BY <1>1, <1>3, <1>4, <1>9, <2>1, <2>2 DEF Types
<1>11. \A q \in Rank : \A j \in Nat : barrier[q] > j => barrier'[q] > j
  BY <1>3, <1>5, <1>6, <1>7, <1>8, <1>9, Streams, SMTT(30)
<1>12. Quiesced' /\ Reuse'
  <2> SUFFICES ASSUME NEW q \in Rank, NEW k \in 1..Last(q), NEW j \in 1..k - 1, IsCall(j)
               PROVE /\ ~IsCall(k) /\ ~Captured(j) => barrier'[q] > j
                     /\ IsCall(k) /\ Newest[j] = Newest[k] => barrier'[q] > j
    BY <1>2, <1>4 DEF Quiesced, Reuse
  <2>1. j \in Nat OBVIOUS
  <2> QED BY <1>3, <1>11, <2>1 DEF Quiesced, Reuse
<1>13. Met'
  <2> SUFFICES ASSUME NEW o \in Rank, NEW q \in Rank, NEW j \in Ops, IsCall(j), barrier'[o] > j
               PROVE compute[q] > j
    BY <1>1, <1>4 DEF Met
  <2>1. CASE o # r BY <1>3, <1>9, <2>1 DEF Met
  <2>2. CASE o = r
    <3>1. ~(j \in b + 1..n - 1) BY <1>8
    <3>2. j = b \/ b > j BY <1>5, <1>7, <1>8, <1>9, <2>2, <3>1
    <3>3. compute[q] > b BY <1>1, <1>6 DEF Entered
    <3> QED BY <1>3, <1>6, <2>2, <3>2, <3>3 DEF Met
  <2> QED BY <2>1, <2>2
<1>14. Arrived' BY <1>1, <1>2, <1>3, <1>4 DEF Arrived
<1> QED BY <1>2, <1>10, <1>12, <1>13, <1>14 DEF IInv

-----------------------------------------------------------------------------
(* quiesce().                                                              *)
LEMMA QuiesceInv == ASSUME IInv, NEW r \in Rank, Quiesce(r) PROVE IInv'
<1>1. PICK i : i = compute[r] OBVIOUS
<1>2. /\ Types /\ Pushed /\ Host /\ Quiesced /\ Reuse /\ Met
      /\ Counts /\ Snapshots /\ Older /\ Flags /\ Arrived /\ Bytes /\ ScaleBytes
  BY DEF IInv
<1>3. /\ i \in Ops /\ ~IsCall(i)
      /\ \A j \in 1..i - 1 : IsCall(j) /\ ~Captured(j) => Finished(r, j)
      /\ parity' = [parity EXCEPT ![r] = Append(@, Discover)]
      /\ lastParity' = [lastParity EXCEPT ![r] =
            IF setup.program[i].parity = Discover THEN Discovered(r) ELSE setup.program[i].parity]
      /\ compute' = [compute EXCEPT ![r] = @ + 1]
      /\ setup' = setup /\ gemm' = gemm /\ passed' = passed /\ push' = push /\ sent' = sent
      /\ barrier' = barrier /\ counter' = counter /\ epoch' = epoch /\ flags' = flags
      /\ bufs' = bufs /\ scales' = scales
  BY <1>1 DEF Quiesce, memory
<1>4. /\ End \in Nat \ {0} /\ Ops = 1..End - 1 /\ setup \in Setups /\ i \in Nat
      /\ i - 1 \in 0..End - 1 /\ i \in 0..End - 1 /\ i + 1 \in 1..End
  <2>1. End \in Nat \ {0} /\ Ops = 1..End - 1 /\ setup \in Setups BY <1>2, Setup DEF Types
  <2> QED BY <1>3, <2>1
<1>5. ~gemm[r] /\ passed[r] = {} /\ Last(r) = i - 1 BY <1>1, <1>2, <1>3, <1>4, Lasts, Streams
<1>6. /\ Rank' = Rank /\ Chunk' = Chunk /\ Ops' = Ops /\ End' = End /\ Newest' = Newest
      /\ Stamp' = Stamp /\ Copies' = Copies
      /\ \A k : IsCall(k)' = IsCall(k) /\ Captured(k)' = Captured(k) /\ EpochOf(k)' = EpochOf(k)
                /\ Count(k)' = Count(k)
      /\ \A s, q : Scale(s, q)' = Scale(s, q)
      /\ \A s, q, c : Flag(s, q, c)' = Flag(s, q, c) /\ Data(s, q, c)' = Data(s, q, c)
  BY <1>3, Same
<1>7. /\ Newest \in [0..End - 1 -> {0, 1}] /\ Newest[i] = Newest[i - 1]
      /\ setup.program[i].parity \in {Newest[i], Discover}
  BY <1>3, <1>4, Programs
<1>8. /\ parity' \in [Rank -> Seq({0, 1, Discover})] /\ parity'[r] = Append(parity[r], Discover)
      /\ \A q \in Rank : q # r => parity'[q] = parity[q]
  <2>1. parity \in [Rank -> Seq({0, 1, Discover})] BY <1>2 DEF Types
  <2>2. Append(parity[r], Discover) \in Seq({0, 1, Discover}) BY <2>1
  <2> QED BY <1>3, <2>1, <2>2
<1>9. Last(r)' = i /\ \A k \in 1..i - 1 : parity'[r][k] = parity[r][k]
  <2>1. parity[r] \in Seq({0, 1, Discover}) /\ Len(parity[r]) = i - 1 BY <1>2, <1>5 DEF Types, Last
  <2>2. i - 1 \in Nat /\ (i - 1) + 1 = i BY <1>4
  <2>3. Len(Append(parity[r], Discover)) = i BY <2>1, <2>2
  <2>4. \A k \in 1..i - 1 : Append(parity[r], Discover)[k] = parity[r][k] BY <2>1
  <2> QED BY <1>8, <2>3, <2>4 DEF Last
<1>10. \A q \in Rank : q # r => Last(q)' = Last(q) BY <1>8 DEF Last
<1>11. /\ compute' \in [Rank -> 1..End] /\ compute'[r] = i + 1
       /\ \A q \in Rank : q # r => compute'[q] = compute[q]
  <2>1. compute \in [Rank -> 1..End] BY <1>2 DEF Types
  <2>2. compute' = [compute EXCEPT ![r] = i + 1] BY <1>1, <1>3, <2>1
  <2> QED BY <1>4, <2>1, <2>2
<1>12. /\ lastParity' \in [Rank -> {0, 1}] /\ lastParity'[r] = Newest[i]
       /\ \A q \in Rank : q # r => lastParity'[q] = lastParity[q]
  <2>1. Discovered(r) = Newest[i] BY <1>2, <1>5, <1>7, DiscoveredIs
  <2>2. Newest[i] \in {0, 1} BY <1>4, <1>7
  <2>3. lastParity \in [Rank -> {0, 1}] BY <1>2 DEF Types
  <2>4. (IF setup.program[i].parity = Discover THEN Discovered(r) ELSE setup.program[i].parity) = Newest[i]
    BY <1>7, <2>1
  <2>5. lastParity' = [lastParity EXCEPT ![r] = Newest[i]] BY <1>3, <2>4
  <2> QED BY <2>2, <2>3, <2>5
<1>13. Types'
  <2>1. \A q \in Rank :
       /\ Last(q)' = IF gemm'[q] THEN compute'[q] ELSE compute'[q] - 1
       /\ gemm'[q] => IsCall(compute'[q])
       /\ passed'[q] # {} => gemm'[q]
    <3> TAKE q \in Rank
    <3>1. CASE q = r BY <1>3, <1>4, <1>5, <1>9, <1>11, <3>1
    <3>2. CASE q # r BY <1>2, <1>3, <1>10, <1>11, <3>2, Lasts, Streams
    <3> QED BY <3>1, <3>2
  <2>2. \A q \in Rank :
       /\ push'[q] = End \/ IsCall(push'[q])
       /\ barrier'[q] = End \/ IsCall(barrier'[q])
       /\ sent'[q] < Len(Copies)
    BY <1>2, <1>3 DEF Types
  <2> QED BY <1>2, <1>3, <1>6, <1>8, <1>11, <1>12, <2>1, <2>2 DEF Types
<1>14. \A q \in Rank : Last(q) \in 0..End - 1 /\ Last(q)' \in 0..End - 1 /\ Last(q) <= Last(q)'
  BY <1>2, <1>4, <1>5, <1>9, <1>10, Lasts
<1>15. \A q \in Rank : \A k \in 1..Last(q)' : k \in 1..Last(q) \/ (q = r /\ k = i)
  BY <1>4, <1>5, <1>9, <1>10
<1>16. Pushed'
  <2> SUFFICES ASSUME NEW q \in Rank
               PROVE /\ \A j \in Ops : IsCall(j) /\ j < push[q] => j <= Last(q)'
                     /\ sent[q] > 0 => IsCall(push[q]) /\ push[q] <= Last(q)'
    BY <1>3, <1>6 DEF Pushed
  <2>1. /\ \A j \in Ops : IsCall(j) /\ j < push[q] => j <= Last(q)
        /\ sent[q] > 0 => IsCall(push[q]) /\ push[q] <= Last(q)
    BY <1>2 DEF Pushed
  <2>2. push[q] \in Nat /\ \A j \in Ops : j \in Nat BY <1>2, <1>4, Streams
  <2> QED BY <1>14, <2>1, <2>2
<1>17. Host'
  <2> SUFFICES ASSUME NEW q \in Rank
               PROVE /\ \A k \in 1..Last(q)' : IsCall(k) => parity'[q][k] = Newest[k]
                     /\ ~Captured(Last(q)') => lastParity'[q] = Newest[Last(q)']
    BY <1>6 DEF Host
  <2>1. CASE q # r BY <1>2, <1>8, <1>10, <1>12, <2>1 DEF Host
  <2>2. CASE q = r
    <3>1. \A k \in 1..i : k = i \/ k \in 1..i - 1 BY <1>4
    <3> QED BY <1>2, <1>3, <1>5, <1>9, <1>12, <2>2, <3>1, ZenonT(60) DEF Host
  <2> QED BY <2>1, <2>2
<1>18. Quiesced' /\ Reuse'
  <2> SUFFICES ASSUME NEW q \in Rank, NEW k \in 1..Last(q)', NEW j \in 1..k - 1, IsCall(j)
               PROVE /\ ~IsCall(k) /\ ~Captured(j) => barrier[q] > j
                     /\ IsCall(k) /\ Newest[j] = Newest[k] => barrier[q] > j
    BY <1>3, <1>6 DEF Quiesced, Reuse
  <2>1. CASE k \in 1..Last(q) BY <1>2, <2>1 DEF Quiesced, Reuse
  <2>2. CASE q = r /\ k = i BY <1>3, <2>2 DEF Finished
  <2> QED BY <1>15, <2>1, <2>2
<1>19. \A q \in Rank : compute[q] \in Nat /\ compute'[q] \in Nat /\ compute[q] <= compute'[q]
  BY <1>1, <1>2, <1>4, <1>11, Lasts, SMTT(30)
<1>20. Met'
  <2> SUFFICES ASSUME NEW o \in Rank, NEW q \in Rank, NEW j \in Ops, IsCall(j), barrier[o] > j
               PROVE compute'[q] > j
    BY <1>3, <1>6 DEF Met
  <2>1. compute[q] > j /\ j \in Nat BY <1>2, <1>4 DEF Met
  <2> QED BY <1>19, <2>1
<1>21. Count(i) = Count(i - 1) /\ EpochOf(i) = EpochOf(i - 1) BY <1>3, <1>4, Counting
<1>22. Counts'
  <2> SUFFICES ASSUME NEW q \in Rank
               PROVE counter[q] = EpochOf(Last(q)') /\ epoch[q][Newest[Last(q)']] = EpochOf(Last(q)')
    BY <1>3, <1>6 DEF Counts
  <2>1. EpochOf(Last(q)') = EpochOf(Last(q)) /\ Newest[Last(q)'] = Newest[Last(q)]
    BY <1>5, <1>7, <1>9, <1>10, <1>21
  <2> QED BY <1>2, <2>1 DEF Counts
<1>23. Snapshots'
  <2> SUFFICES ASSUME NEW q \in Rank, NEW j \in 1..Last(q)', IsCall(j),
                      \A k \in j + 1..Last(q)' : IsCall(k) => Newest[k] # Newest[j]
               PROVE epoch[q][Newest[j]] = EpochOf(j)
    BY <1>3, <1>6 DEF Snapshots
  <2>1. j \in 1..Last(q) BY <1>3, <1>15
  <2>2. \A k \in j + 1..Last(q) : k \in j + 1..Last(q)' BY <1>14, <2>1
  <2> QED BY <1>2, <2>1, <2>2 DEF Snapshots
<1>24. Older'
  <2>1. \A q \in Rank : Newest[Last(q)'] = Newest[Last(q)] /\ Count(Last(q)') = Count(Last(q))
    BY <1>5, <1>7, <1>9, <1>10, <1>21
  <2> SUFFICES ASSUME NEW q \in Rank
               PROVE \/ \E d \in Newest[Last(q)']..Count(Last(q)') :
                          /\ setup.epoch + d > 0
                          /\ epoch[q][1 - Newest[Last(q)']] = (setup.epoch + d - 1) % EpochMod
                     \/ /\ setup.epoch = 0 /\ Count(Last(q)') = 0
                        /\ epoch[q][1 - Newest[Last(q)']] = 0
    BY <1>3, <1>6 DEF Older
  <2> QED BY <1>2, <2>1 DEF Older
<1>25. \A s, j, copy : s \in Rank => Did(s, j, copy)' = Did(s, j, copy) BY <1>3, DidStays
<1>26. Flags'
  <2> SUFFICES ASSUME NEW q \in Rank, NEW s \in Rank, NEW c \in Chunk
               PROVE flags[q][s][c] = EpochOf(FlagOf(q, s, c)')
    BY <1>3, <1>6 DEF Flags
  <2>1. flags[q][s][c] = EpochOf(FlagOf(q, s, c)) BY <1>2 DEF Flags
  <2>2. CASE q # s BY <1>3, <1>6, <1>25, <2>1, <2>2 DEF FlagOf
  <2>3. CASE q = s
    <3>1. FlagOf(q, s, c)' = Last(s)' /\ FlagOf(q, s, c) = Last(s) BY <2>3 DEF FlagOf
    <3> QED BY <1>5, <1>9, <1>10, <1>21, <2>1, <2>3, <3>1
  <2> QED BY <2>2, <2>3
<1>27. \A s, q \in Rank : \A j \in Ops : \A copy : Here(s, q, j, copy) => Here(s, q, j, copy)'
  BY <1>3, <1>4, <1>14, HereGrows
<1>28. \A s, q \in Rank : \A j \in Ops : \A copy :
         IsCall(j) /\ Here(s, q, j, copy)' => Here(s, q, j, copy)
  BY <1>3, <1>4, <1>5, <1>9, <1>10, <1>25 DEF Here
<1>29. Arrived'
  <2> SUFFICES ASSUME NEW q \in Rank, NEW o \in Rank, NEW d \in Chunk, NEW j \in Ops, IsCall(j),
                      compute'[q] > j \/ (compute'[q] = j /\ <<o, d>> \in passed[q])
               PROVE Here(o, q, j, Flag(o, q, d))
    BY <1>3, <1>6, <1>27 DEF Arrived
  <2>1. CASE q # r BY <1>2, <1>11, <2>1 DEF Arrived
  <2>2. CASE q = r
    <3>1. j # i /\ j \in Nat BY <1>3, <1>4
    <3>2. compute[r] > j BY <1>1, <1>4, <1>5, <1>11, <2>2, <3>1
    <3> QED BY <1>2, <2>2, <3>2 DEF Arrived
  <2> QED BY <2>1, <2>2
<1>30. Bytes' BY <1>2, <1>3, <1>6, <1>27, <1>28 DEF Bytes
<1>31. ScaleBytes' BY <1>2, <1>3, <1>6, <1>27, <1>28 DEF ScaleBytes
<1> QED BY <1>13, <1>16, <1>17, <1>18, <1>20, <1>22, <1>23, <1>24, <1>26, <1>29, <1>30, <1>31 DEF IInv

-----------------------------------------------------------------------------
(* The push stream.                                                        *)

(* A call whose copies are not all done has not been overtaken on its      *)
(* buffer: its snapshot and its rank's own bytes are still its own.        *)
LEMMA Live ==
  ASSUME IInv, NEW r \in Rank, NEW i, i = push[r], IsCall(i), i <= Last(r)
  PROVE /\ parity[r][i] = Newest[i] /\ Newest[i] \in {0, 1}
        /\ epoch[r][Newest[i]] = EpochOf(i)
        /\ \A c \in Chunk : bufs[r][Newest[i]][r][c] = i
        /\ setup.scaled => scales[r][Newest[i]][r] = i
<1>1. /\ Types /\ Host /\ Reuse /\ Met /\ Snapshots /\ Arrived /\ Bytes /\ ScaleBytes
      /\ setup \in Setups
  BY DEF IInv, Types
<1>2. /\ End \in Nat \ {0} /\ Ops = 1..End - 1 /\ i \in Ops /\ Newest[i] \in {0, 1}
  BY <1>1, Setup, Programs DEF IsCall
<1>3. Last(r) \in 0..End - 1 /\ i \in 1..Last(r)
  <2>1. Last(r) \in 0..End - 1 BY <1>1, Lasts
  <2> QED BY <1>2, <2>1
<1>4. ~(barrier[r] > i)
  <2> SUFFICES ASSUME barrier[r] > i PROVE FALSE OBVIOUS
  <2>1. \A q \in Rank : compute[q] > i BY <1>1, <1>2 DEF Met
  <2>2. \A q \in Rank : \A c \in Chunk : Here(r, q, i, Flag(r, q, c))
    BY <1>1, <1>2, <2>1 DEF Arrived
  <2>3. /\ Len(Copies) \in Nat \ {0} /\ IsCopy(Copies[Len(Copies)]) /\ Copies[Len(Copies)].what = "flag"
        /\ \A k \in 1..Len(Copies) - 1 : Copies[k] # Copies[Len(Copies)]
    BY <1>1, CopiesAre
  <2>4. PICK copy : copy = Copies[Len(Copies)] OBVIOUS
  <2>5. copy.to \in 1..setup.ranks - 1 /\ copy.chunk \in Chunk
        /\ copy = [what |-> "flag", to |-> copy.to, chunk |-> copy.chunk]
    BY <2>3, <2>4 DEF IsCopy
  <2>6. PICK q \in Rank : q # r /\ To(r, q) = copy.to BY <1>1, <2>5, Ring
  <2>7. Flag(r, q, copy.chunk) = copy BY <2>5, <2>6 DEF Flag, Step
  <2>8. Did(r, i, copy) BY <2>2, <2>5, <2>6, <2>7 DEF Here
  <2>9. push[r] \in Nat /\ sent[r] \in 0..Len(Copies) - 1 BY <1>1, Streams
  <2>10. PICK k \in 1..sent[r] : Copies[k] = copy BY <2>8, <2>9 DEF Did
  <2> QED BY <2>3, <2>4, <2>9, <2>10
<1>5. \A k \in i + 1..Last(r) : IsCall(k) => Newest[k] # Newest[i]
  <2> SUFFICES ASSUME NEW k \in i + 1..Last(r), IsCall(k), Newest[k] = Newest[i] PROVE FALSE
    OBVIOUS
  <2>1. k \in 1..Last(r) /\ i \in 1..k - 1 BY <1>3
  <2> QED BY <1>1, <1>4, <2>1 DEF Reuse
<1>6. parity[r][i] = Newest[i] BY <1>1, <1>3 DEF Host
<1>7. epoch[r][Newest[i]] = EpochOf(i) BY <1>1, <1>3, <1>5 DEF Snapshots
<1>8. \A copy : \A k \in Ops : IsCall(k) /\ Newest[k] = Newest[i] /\ Here(r, r, k, copy) => k <= i
  <2> SUFFICES ASSUME NEW k \in Ops, IsCall(k), Newest[k] = Newest[i], k <= Last(r), ~(k <= i) PROVE FALSE
    BY DEF Here
  <2>1. k \in i + 1..Last(r) BY <1>2, <1>3
  <2> QED BY <1>5, <2>1
<1>9. \A copy : Here(r, r, i, copy) BY <1>3 DEF Here
<1>10. ASSUME NEW c \in Chunk PROVE bufs[r][Newest[i]][r][c] = i
  <2>1. PICK x : x = bufs[r][Newest[i]][r][c] OBVIOUS
  <2>2. x \in Nat /\ (x = 0 \/ x \in Ops) BY <1>1, <1>2, <2>1, StampsAre
  <2>3. x >= i BY <1>1, <1>2, <1>9, <2>1 DEF Bytes
  <2>4. x \in Ops BY <1>2, <2>2, <2>3
  <2>5. IsCall(x) /\ Newest[x] = Newest[i] /\ Here(r, r, x, Data(r, r, c))
    BY <1>1, <1>2, <2>1, <2>4 DEF Bytes
  <2>6. x <= i BY <1>8, <2>4, <2>5
  <2> QED BY <1>2, <2>1, <2>2, <2>3, <2>6
<1>11. ASSUME setup.scaled PROVE scales[r][Newest[i]][r] = i
  <2>1. PICK x : x = scales[r][Newest[i]][r] OBVIOUS
  <2>2. x \in Nat /\ (x = 0 \/ x \in Ops) BY <1>1, <1>2, <2>1, StampsAre
  <2>3. x >= i BY <1>1, <1>2, <1>9, <1>11, <2>1 DEF ScaleBytes
  <2>4. x \in Ops BY <1>2, <2>2, <2>3
  <2>5. IsCall(x) /\ Newest[x] = Newest[i] /\ Here(r, r, x, Scale(r, r))
    BY <1>1, <1>2, <1>11, <2>1, <2>4 DEF ScaleBytes
  <2>6. x <= i BY <1>8, <2>4, <2>5
  <2> QED BY <1>2, <2>1, <2>2, <2>3, <2>6
<1> QED BY <1>2, <1>6, <1>7, <1>10, <1>11

(* Between two calls no call is counted.                                   *)
LEMMA NoneBetween ==
  ASSUME setup \in Setups, NEW i \in Ops
  PROVE /\ NextCall(i + 1) \in i + 1..End /\ i + 1 \in 1..End
        /\ NextCall(i + 1) = End \/ IsCall(NextCall(i + 1))
        /\ EpochOf(NextCall(i + 1) - 1) = EpochOf(i)
        /\ \A j \in Ops : IsCall(j) /\ j < NextCall(i + 1) => j <= i
<1>1. End \in Nat \ {0} /\ Ops = 1..End - 1 BY Setup
<1>2. i + 1 \in 1..End BY <1>1
<1>3. PICK n \in i + 1..End : n = NextCall(i + 1) /\ (n = End \/ IsCall(n)) /\ \A k \in i + 1..n - 1 : ~IsCall(k)
  BY <1>2, NextCallIs
<1>4. {j \in 1..n - 1 : IsCall(j)} = {j \in 1..i : IsCall(j)}
  <2>1. \A j \in 1..n - 1 : IsCall(j) => j \in 1..i BY <1>1, <1>3
  <2>2. \A j \in 1..i : j \in 1..n - 1 BY <1>1, <1>3
  <2> QED BY <2>1, <2>2
<1>5. EpochOf(n - 1) = EpochOf(i) BY <1>4 DEF EpochOf
<1>6. \A j \in Ops : IsCall(j) /\ j < n => j <= i
  <2> SUFFICES ASSUME NEW j \in Ops, IsCall(j), j < n, ~(j <= i) PROVE FALSE OBVIOUS
  <2>1. j \in i + 1..n - 1 BY <1>1, <1>3
  <2> QED BY <1>3, <2>1
<1> QED BY <1>2, <1>3, <1>5, <1>6

(* The copies of a call are among its steps.                               *)
LEMMA AreCopies ==
  ASSUME setup \in Setups, NEW s \in Rank, NEW q \in Rank, q # s, NEW c \in Chunk
  PROVE /\ \E k \in 1..Len(Copies) : Copies[k] = Flag(s, q, c)
        /\ \E k \in 1..Len(Copies) : Copies[k] = Data(s, q, c)
        /\ setup.scaled => \E k \in 1..Len(Copies) : Copies[k] = Scale(s, q)
<1>1. To(s, q) \in 1..setup.ranks - 1 BY Ring
<1>2. PICK k \in 1..Len(Copies) : Copies[k] = Flag(s, q, c) BY <1>1, CopiesAre DEF Flag
<1>3. Copies[k].what = "flag" /\ Copies[k].to = To(s, q) /\ Copies[k].chunk = c
  BY <1>2 DEF Flag, Step
<1>4. /\ \E j \in 1..k - 1 : Copies[j] = Data(s, q, c)
      /\ setup.scaled => \E j \in 1..k - 1 : Copies[j] = Scale(s, q)
  BY <1>3, CopiesAre DEF Data, Scale
<1>5. Len(Copies) \in Nat BY CopiesAre
<1>6. \A j \in 1..k - 1 : j \in 1..Len(Copies) BY <1>5
<1> QED BY <1>2, <1>4, <1>6

(* What sending the next copy does.                                        *)
LEMMA SendIs ==
  ASSUME IInv, NEW r \in Rank, Send(r), NEW i, i = push[r], NEW copy, copy = Copies[sent[r] + 1],
         NEW peer, peer = (r - copy.to) % setup.ranks
  PROVE /\ UNCHANGED <<setup, host, compute, gemm, passed, barrier, counter, epoch>>
        /\ IsCall(i) /\ i <= Last(r) /\ Newest[i] \in {0, 1}
        /\ peer \in Rank /\ peer # r /\ To(r, peer) = copy.to /\ copy.chunk \in Chunk
        /\ copy = Step(copy.what, copy.to, copy.chunk)
        /\ \A q, s \in Rank : \A p \in {0, 1} : \A c \in Chunk :
             bufs'[q][p][s][c] = IF q = peer /\ p = Newest[i] /\ s = r /\ copy = Data(r, peer, c)
                                 THEN i ELSE bufs[q][p][s][c]
        /\ setup.scaled => \A q, s \in Rank : \A p \in {0, 1} :
             scales'[q][p][s] = IF q = peer /\ p = Newest[i] /\ s = r /\ copy = Scale(r, peer)
                                THEN i ELSE scales[q][p][s]
        /\ \A q, s \in Rank : \A c \in Chunk :
             flags'[q][s][c] = IF q = peer /\ s = r /\ copy = Flag(r, peer, c)
                               THEN EpochOf(i) ELSE flags[q][s][c]
        /\ IF sent[r] + 1 = Len(Copies) THEN push'[r] = NextCall(i + 1) /\ sent'[r] = 0
           ELSE push'[r] = i /\ sent'[r] = sent[r] + 1
        /\ \A q \in Rank : q # r => push'[q] = push[q] /\ sent'[q] = sent[q]
        /\ Types'
<1>1. Types /\ setup \in Setups BY DEF IInv, Types
<1>2. /\ End \in Nat \ {0} /\ Ops = 1..End - 1 /\ setup.scaled \in BOOLEAN /\ EpochMod \in Nat
  BY <1>1, Setup
<1>3. /\ IsCall(i) /\ Staged(r, i)
      /\ UNCHANGED <<setup, host, compute, gemm, passed, barrier, counter, epoch>>
      /\ setup' = setup /\ lastParity' = lastParity /\ parity' = parity /\ compute' = compute
      /\ gemm' = gemm /\ passed' = passed /\ barrier' = barrier /\ counter' = counter /\ epoch' = epoch
  BY DEF Send, host
<1>4. i \in Ops /\ i \in Nat /\ Last(r) \in Nat /\ i <= Last(r)
  <2>1. i \in Ops /\ i \in Nat BY <1>2, <1>3 DEF IsCall
  <2>2. Last(r) \in 0..End - 1 /\ compute[r] \in 1..End
        /\ Last(r) = IF gemm[r] THEN compute[r] ELSE compute[r] - 1
    BY <1>1, Lasts
  <2> QED BY <1>2, <1>3, <2>1, <2>2 DEF Staged
<1>5. /\ parity[r][i] = Newest[i] /\ Newest[i] \in {0, 1} /\ epoch[r][Newest[i]] = EpochOf(i)
      /\ \A c \in Chunk : bufs[r][Newest[i]][r][c] = i
      /\ setup.scaled => scales[r][Newest[i]][r] = i
  BY <1>3, <1>4, Live
<1>6. sent[r] \in 0..Len(Copies) - 1 /\ Len(Copies) \in Nat \ {0} /\ sent[r] + 1 \in 1..Len(Copies)
  <2>1. sent[r] \in 0..Len(Copies) - 1 /\ Len(Copies) \in Nat \ {0} BY <1>1, Streams
  <2> QED BY <2>1
<1>7. /\ IsCopy(copy) /\ (copy.what = "scales" => setup.scaled /\ copy.chunk = 1)
  BY <1>1, <1>6, CopiesAre
<1>8. /\ copy.what \in {"scales", "data", "flag"} /\ copy.to \in 1..setup.ranks - 1 /\ copy.chunk \in Chunk
      /\ copy = Step(copy.what, copy.to, copy.chunk)
  BY <1>7 DEF IsCopy, Step
<1>9. peer \in Rank /\ peer # r /\ To(r, peer) = copy.to BY <1>1, <1>8, Ring
<1>10. \A c \in Chunk : /\ copy = Data(r, peer, c) <=> copy.what = "data" /\ c = copy.chunk
                        /\ copy = Flag(r, peer, c) <=> copy.what = "flag" /\ c = copy.chunk
  BY <1>8, <1>9 DEF Data, Flag, Step
<1>11. copy = Scale(r, peer) <=> copy.what = "scales" BY <1>7, <1>8, <1>9 DEF Scale, Step
<1> DEFINE p0 == Newest[i]
<1> DEFINE ch == copy.chunk
<1>12. /\ bufs' = IF copy.what # "data" THEN bufs
                  ELSE [bufs EXCEPT ![peer][p0][r][ch] = bufs[r][p0][r][ch]]
       /\ scales' = IF copy.what # "scales" THEN scales
                    ELSE [scales EXCEPT ![peer][p0][r] = scales[r][p0][r]]
       /\ flags' = IF copy.what # "flag" THEN flags
                   ELSE [flags EXCEPT ![peer][r][ch] = epoch[r][p0]]
       /\ sent' = [sent EXCEPT ![r] = IF sent[r] + 1 = Len(Copies) THEN 0 ELSE @ + 1]
       /\ push' = [push EXCEPT ![r] = IF sent[r] + 1 = Len(Copies) THEN NextCall(i + 1) ELSE @]
  BY <1>5 DEF Send
<1>13. /\ ch \in Chunk /\ p0 \in {0, 1} /\ i \in Stamp /\ EpochOf(i) \in 0..EpochMod - 1
       /\ bufs[r][p0][r][ch] = i /\ (setup.scaled => scales[r][p0][r] = i) /\ epoch[r][p0] = EpochOf(i)
  <2>1. i \in 0..End - 1 BY <1>2, <1>4
  <2>2. i \in Stamp BY <1>1, <2>1, StampsAre
  <2>3. EpochOf(i) \in 0..EpochMod - 1 BY <1>1, <2>1, EpochIs
  <2> QED BY <1>5, <1>8, <2>2, <2>3
<1> HIDE DEF p0, ch
<1>14. /\ bufs' \in [Rank -> [{0, 1} -> [Rank -> [Chunk -> Stamp]]]]
       /\ \A q, s \in Rank : \A p \in {0, 1} : \A c \in Chunk :
             bufs'[q][p][s][c] = IF copy.what = "data" /\ q = peer /\ p = p0 /\ s = r /\ c = ch
                                 THEN i ELSE bufs[q][p][s][c]
  <2>1. bufs \in [Rank -> [{0, 1} -> [Rank -> [Chunk -> Stamp]]]] BY <1>1 DEF Types
  <2>2. CASE copy.what # "data" BY <1>12, <2>1, <2>2
  <2>3. CASE copy.what = "data"
    <3> DEFINE w == [bufs[peer][p0] EXCEPT ![r][ch] = i]
    <3>1. bufs' = [bufs EXCEPT ![peer][p0] = w] BY <1>12, <1>13, <2>3
    <3> DEFINE o == bufs[peer][p0]
    <3>2. o \in [Rank -> [Chunk -> Stamp]] /\ w = [o EXCEPT ![r][ch] = i] BY <1>9, <1>13, <2>1
    <3> HIDE DEF o, w
    <3>3. /\ w \in [Rank -> [Chunk -> Stamp]]
          /\ \A s \in Rank, c \in Chunk : w[s][c] = IF s = r /\ c = ch THEN i ELSE o[s][c]
      BY <1>13, <3>2, Except2
    <3>4. /\ bufs' \in [Rank -> [{0, 1} -> [Rank -> [Chunk -> Stamp]]]]
          /\ \A q \in Rank, p \in {0, 1} : bufs'[q][p] = IF q = peer /\ p = p0 THEN w ELSE bufs[q][p]
      BY <1>9, <1>13, <2>1, <3>1, <3>3, Except2, ZenonT(60)
    <3>5. \A s \in Rank, c \in Chunk : w[s][c] = IF s = r /\ c = ch THEN i ELSE bufs[peer][p0][s][c]
      BY <3>3 DEF o
    <3>6. ASSUME NEW q \in Rank, NEW s \in Rank, NEW p \in {0, 1}, NEW c \in Chunk
          PROVE bufs'[q][p][s][c] = IF q = peer /\ p = p0 /\ s = r /\ c = ch
                                    THEN i ELSE bufs[q][p][s][c]
      <4>1. CASE q = peer /\ p = p0
        <5>1. bufs'[q][p] = w BY <3>4, <4>1
        <5> QED BY <3>5, <4>1, <5>1
      <4>2. CASE ~(q = peer /\ p = p0)
        <5>1. bufs'[q][p] = bufs[q][p] BY <3>4, <4>2
        <5> QED BY <4>2, <5>1
      <4> QED BY <4>1, <4>2
    <3> QED BY <2>3, <3>4, <3>6
  <2> QED BY <2>2, <2>3
<1>15. /\ scales' \in [Rank -> [{0, 1} -> [Rank -> Stamp]]]
       /\ \A q, s \in Rank : \A p \in {0, 1} :
             scales'[q][p][s] = IF copy.what = "scales" /\ q = peer /\ p = p0 /\ s = r
                                THEN i ELSE scales[q][p][s]
  <2>1. scales \in [Rank -> [{0, 1} -> [Rank -> Stamp]]] BY <1>1 DEF Types
  <2>2. CASE copy.what # "scales" BY <1>12, <2>1, <2>2
  <2>3. CASE copy.what = "scales"
    <3> DEFINE o == scales[peer][p0]
    <3> DEFINE w == [o EXCEPT ![r] = i]
    <3>1. scales' = [scales EXCEPT ![peer][p0] = w] BY <1>7, <1>12, <1>13, <2>3
    <3>2. o \in [Rank -> Stamp] BY <1>9, <1>13, <2>1
    <3>3. w \in [Rank -> Stamp] /\ \A s \in Rank : w[s] = IF s = r THEN i ELSE scales[peer][p0][s]
      BY <1>13, <3>2
    <3> HIDE DEF w
    <3>4. /\ scales' \in [Rank -> [{0, 1} -> [Rank -> Stamp]]]
          /\ \A q \in Rank, p \in {0, 1} : scales'[q][p] = IF q = peer /\ p = p0 THEN w ELSE scales[q][p]
      BY <1>9, <1>13, <2>1, <3>1, <3>3, Except2, ZenonT(60)
    <3> QED BY <2>3, <3>3, <3>4
  <2> QED BY <2>2, <2>3
<1>16. /\ flags' \in [Rank -> [Rank -> [Chunk -> 0..EpochMod - 1]]]
       /\ \A q, s \in Rank : \A c \in Chunk :
             flags'[q][s][c] = IF copy.what = "flag" /\ q = peer /\ s = r /\ c = ch
                               THEN EpochOf(i) ELSE flags[q][s][c]
  <2>1. flags \in [Rank -> [Rank -> [Chunk -> 0..EpochMod - 1]]] BY <1>1 DEF Types
  <2>2. CASE copy.what # "flag" BY <1>12, <2>1, <2>2
  <2>3. CASE copy.what = "flag"
    <3> DEFINE o == flags[peer][r]
    <3> DEFINE w == [o EXCEPT ![ch] = EpochOf(i)]
    <3>1. flags' = [flags EXCEPT ![peer][r] = w] BY <1>12, <1>13, <2>3
    <3>2. o \in [Chunk -> 0..EpochMod - 1] BY <1>9, <2>1
    <3>3. /\ w \in [Chunk -> 0..EpochMod - 1]
          /\ \A c \in Chunk : w[c] = IF c = ch THEN EpochOf(i) ELSE flags[peer][r][c]
      BY <1>13, <3>2
    <3> HIDE DEF w
    <3>4. /\ flags' \in [Rank -> [Rank -> [Chunk -> 0..EpochMod - 1]]]
          /\ \A q \in Rank, s \in Rank : flags'[q][s] = IF q = peer /\ s = r THEN w ELSE flags[q][s]
      BY <1>9, <2>1, <3>1, <3>3, Except2
    <3> QED BY <2>3, <3>3, <3>4
  <2> QED BY <2>2, <2>3
<1>17. PICK n \in 1..End : n = NextCall(i + 1) /\ (n = End \/ IsCall(n))
  BY <1>1, <1>2, <1>4, NoneBetween
<1>18. /\ push' \in [Rank -> 1..End] /\ sent' \in [Rank -> Nat]
       /\ IF sent[r] + 1 = Len(Copies) THEN push'[r] = n /\ sent'[r] = 0
          ELSE push'[r] = i /\ sent'[r] = sent[r] + 1
       /\ \A q \in Rank : q # r => push'[q] = push[q] /\ sent'[q] = sent[q]
  <2>1. push \in [Rank -> 1..End] /\ sent \in [Rank -> Nat] BY <1>1 DEF Types
  <2>2. CASE sent[r] + 1 = Len(Copies)
    <3>1. push' = [push EXCEPT ![r] = n] /\ sent' = [sent EXCEPT ![r] = 0] BY <1>12, <1>17, <2>2
    <3> QED BY <2>1, <2>2, <3>1
  <2>3. CASE sent[r] + 1 # Len(Copies)
    <3>1. push' = push /\ sent' = [sent EXCEPT ![r] = sent[r] + 1] BY <1>12, <2>1, <2>3
    <3>2. sent[r] + 1 \in Nat BY <2>1
    <3> QED BY <2>1, <2>3, <3>1, <3>2
  <2> QED BY <2>2, <2>3
<1>19. \A q \in Rank : /\ push'[q] = End \/ IsCall(push'[q])
                       /\ sent'[q] < Len(Copies)
  <2> TAKE q \in Rank
  <2>1. CASE q # r BY <1>1, <1>6, <1>18, <2>1, Streams
  <2>2. CASE q = r BY <1>3, <1>6, <1>17, <1>18, <2>2
  <2> QED BY <2>1, <2>2
<1>20. Types'
  <2>1. \A q \in Rank :
       /\ Last(q)' = IF gemm'[q] THEN compute'[q] ELSE compute'[q] - 1
       /\ gemm'[q] => IsCall(compute'[q])
       /\ passed'[q] # {} => gemm'[q]
       /\ barrier'[q] = End \/ IsCall(barrier'[q])
    BY <1>1, <1>3 DEF Types, Last
  <2> QED BY <1>1, <1>3, <1>14, <1>15, <1>16, <1>18, <1>19, <2>1, Same DEF Types
<1>21. \A q, s \in Rank : \A p \in {0, 1} : \A c \in Chunk :
         bufs'[q][p][s][c] = IF q = peer /\ p = Newest[i] /\ s = r /\ copy = Data(r, peer, c)
                             THEN i ELSE bufs[q][p][s][c]
  <2> TAKE q, s \in Rank
  <2> TAKE p \in {0, 1}
  <2> TAKE c \in Chunk
  <2>1. copy = Data(r, peer, c) <=> copy.what = "data" /\ c = ch BY <1>10 DEF ch
  <2> QED BY <1>14, <2>1 DEF p0
<1>22. \A q, s \in Rank : \A p \in {0, 1} :
         scales'[q][p][s] = IF q = peer /\ p = Newest[i] /\ s = r /\ copy = Scale(r, peer)
                            THEN i ELSE scales[q][p][s]
  BY <1>11, <1>15 DEF p0
<1>23. \A q, s \in Rank : \A c \in Chunk :
         flags'[q][s][c] = IF q = peer /\ s = r /\ copy = Flag(r, peer, c)
                           THEN EpochOf(i) ELSE flags[q][s][c]
  <2> TAKE q, s \in Rank
  <2> TAKE c \in Chunk
  <2>1. copy = Flag(r, peer, c) <=> copy.what = "flag" /\ c = ch BY <1>10 DEF ch
  <2> QED BY <1>16, <2>1
<1> QED BY <1>3, <1>4, <1>5, <1>8, <1>9, <1>17, <1>18, <1>20, <1>21, <1>22, <1>23

(* The copies done after one more.                                         *)
LEMMA DidAfter ==
  ASSUME IInv, NEW r \in Rank, Send(r), NEW i, i = push[r], NEW copy, copy = Copies[sent[r] + 1],
         NEW s \in Rank, NEW j \in Ops, IsCall(j), NEW cp, \E k \in 1..Len(Copies) : Copies[k] = cp
  PROVE Did(s, j, cp)' <=> Did(s, j, cp) \/ (s = r /\ j = i /\ cp = copy)
<1>1. Types /\ setup \in Setups BY DEF IInv, Types
<1>2. /\ setup' = setup /\ IsCall(i)
      /\ IF sent[r] + 1 = Len(Copies) THEN push'[r] = NextCall(i + 1) /\ sent'[r] = 0
         ELSE push'[r] = i /\ sent'[r] = sent[r] + 1
      /\ \A q \in Rank : q # r => push'[q] = push[q] /\ sent'[q] = sent[q]
  <2>1. PICK peer : peer = (r - copy.to) % setup.ranks OBVIOUS
  <2> QED BY <2>1, SendIs
<1>3. /\ End \in Nat \ {0} /\ Ops = 1..End - 1 /\ i \in Ops /\ i \in Nat /\ j \in Nat
  <2>1. End \in Nat \ {0} /\ Ops = 1..End - 1 BY <1>1, Setup
  <2> QED BY <1>2, <2>1 DEF IsCall
<1>4. sent[r] \in 0..Len(Copies) - 1 /\ Len(Copies) \in Nat \ {0} BY <1>1, Streams
<1>5. CASE s # r
  <2>1. Did(s, j, cp)' = Did(s, j, cp) BY <1>2, <1>5, DidStays
  <2> QED BY <1>5, <2>1
<1>6. CASE s = r
  <2>1. Did(s, j, cp) <=> i > j \/ (i = j /\ \E k \in 1..sent[r] : Copies[k] = cp)
    BY <1>6 DEF Did
  <2>2. Copies' = Copies BY <1>2, Same
  <2>3. Did(s, j, cp)' <=> push'[r] > j \/ (push'[r] = j /\ \E k \in 1..sent'[r] : Copies[k] = cp)
    BY <1>6, <2>2 DEF Did
  <2>4. CASE sent[r] + 1 = Len(Copies)
    <3>1. PICK n \in i + 1..End : n = NextCall(i + 1) /\ \A k \in Ops : IsCall(k) /\ k < n => k <= i
      BY <1>1, <1>3, NoneBetween
    <3>2. n > j <=> i >= j BY <1>3, <3>1
    <3>3. Did(s, j, cp)' <=> n > j
      <4>1. push'[r] = n /\ sent'[r] = 0 BY <1>2, <2>4, <3>1
      <4>2. ~\E k \in 1..sent'[r] : Copies[k] = cp BY <4>1
      <4> QED BY <2>3, <4>1, <4>2
    <3>4. PICK k \in 1..Len(Copies) : Copies[k] = cp OBVIOUS
    <3>5. k \in 1..sent[r] \/ cp = copy BY <1>4, <2>4, <3>4
    <3>6. i = j => (\E m \in 1..sent[r] : Copies[m] = cp) \/ cp = copy BY <3>4, <3>5
    <3>7. i >= j <=> i > j \/ i = j BY <1>3
    <3> QED BY <1>6, <2>1, <3>2, <3>3, <3>6, <3>7
  <2>5. CASE sent[r] + 1 # Len(Copies)
    <3>1. push'[r] = i /\ sent'[r] = sent[r] + 1 BY <1>2, <2>5
    <3>2. \A k : k \in 1..sent[r] + 1 <=> k \in 1..sent[r] \/ k = sent[r] + 1 BY <1>4
    <3>3. (\E k \in 1..sent'[r] : Copies[k] = cp) <=> (\E k \in 1..sent[r] : Copies[k] = cp) \/ cp = copy
      BY <3>1, <3>2
    <3> QED BY <1>6, <2>1, <2>3, <3>1, <3>3
  <2> QED BY <2>4, <2>5
<1> QED BY <1>5, <1>6

(* Sending a copy keeps the invariant.                                     *)
LEMMA SendInv == ASSUME IInv, NEW r \in Rank, Send(r) PROVE IInv'
<1>1. PICK i : i = push[r] OBVIOUS
<1>2. PICK copy : copy = Copies[sent[r] + 1] OBVIOUS
<1>3. PICK peer : peer = (r - copy.to) % setup.ranks OBVIOUS
<1>4. /\ UNCHANGED <<setup, host, compute, gemm, passed, barrier, counter, epoch>>
      /\ IsCall(i) /\ i <= Last(r) /\ Newest[i] \in {0, 1}
      /\ peer \in Rank /\ peer # r /\ To(r, peer) = copy.to /\ copy.chunk \in Chunk
      /\ IF sent[r] + 1 = Len(Copies) THEN push'[r] = NextCall(i + 1) /\ sent'[r] = 0
         ELSE push'[r] = i /\ sent'[r] = sent[r] + 1
      /\ \A q \in Rank : q # r => push'[q] = push[q] /\ sent'[q] = sent[q]
      /\ Types'
  BY <1>1, <1>2, <1>3, SendIs
<1>5. /\ setup' = setup /\ lastParity' = lastParity /\ parity' = parity /\ compute' = compute
      /\ gemm' = gemm /\ passed' = passed /\ barrier' = barrier /\ counter' = counter /\ epoch' = epoch
  BY <1>4 DEF host
<1>6. \A q, s \in Rank : \A p \in {0, 1} : \A c \in Chunk :
         bufs'[q][p][s][c] = IF q = peer /\ p = Newest[i] /\ s = r /\ copy = Data(r, peer, c)
                             THEN i ELSE bufs[q][p][s][c]
  BY <1>1, <1>2, <1>3, SendIs
<1>7. setup.scaled => \A q, s \in Rank : \A p \in {0, 1} :
         scales'[q][p][s] = IF q = peer /\ p = Newest[i] /\ s = r /\ copy = Scale(r, peer)
                            THEN i ELSE scales[q][p][s]
  BY <1>1, <1>2, <1>3, SendIs
<1>8. \A q, s \in Rank : \A c \in Chunk :
         flags'[q][s][c] = IF q = peer /\ s = r /\ copy = Flag(r, peer, c)
                           THEN EpochOf(i) ELSE flags[q][s][c]
  BY <1>1, <1>2, <1>3, SendIs
<1>9. /\ Types /\ Pushed /\ Host /\ Quiesced /\ Reuse /\ Met
      /\ Counts /\ Snapshots /\ Older /\ Flags /\ Arrived /\ Bytes /\ ScaleBytes
  BY DEF IInv
<1>10. /\ End \in Nat \ {0} /\ Ops = 1..End - 1 /\ setup \in Setups /\ i \in Ops /\ i \in Nat
  <2>1. End \in Nat \ {0} /\ Ops = 1..End - 1 /\ setup \in Setups BY <1>9, Setup DEF Types
  <2> QED BY <1>4, <2>1 DEF IsCall
<1>11. /\ Rank' = Rank /\ Chunk' = Chunk /\ Ops' = Ops /\ End' = End /\ Newest' = Newest
       /\ \A k : IsCall(k)' = IsCall(k) /\ Captured(k)' = Captured(k) /\ EpochOf(k)' = EpochOf(k)
                 /\ Count(k)' = Count(k)
       /\ \A s, q : Scale(s, q)' = Scale(s, q)
       /\ \A s, q, c : Flag(s, q, c)' = Flag(s, q, c) /\ Data(s, q, c)' = Data(s, q, c)
  BY <1>5, Same
<1>12. \A q : Last(q)' = Last(q) BY <1>5 DEF Last
<1>13. \A j \in Ops : Newest[j] \in {0, 1} /\ j \in Nat
  <2>1. Newest \in [0..End - 1 -> {0, 1}] BY <1>10, Programs
  <2> QED BY <1>10, <2>1
<1>14. PICK n \in i + 1..End : /\ n = NextCall(i + 1) /\ (n = End \/ IsCall(n))
                               /\ EpochOf(n - 1) = EpochOf(i)
                               /\ \A k \in Ops : IsCall(k) /\ k < n => k <= i
  BY <1>10, NoneBetween
<1>15. sent[r] \in 0..Len(Copies) - 1 /\ Len(Copies) \in Nat \ {0} BY <1>9, Streams

(* The copies done, by what they are.                                      *)
<1>16. \A s, q \in Rank, c \in Chunk, j \in Ops : q # s /\ IsCall(j) =>
         /\ Did(s, j, Data(s, q, c))' <=> Did(s, j, Data(s, q, c)) \/ (s = r /\ j = i /\ Data(s, q, c) = copy)
         /\ Did(s, j, Flag(s, q, c))' <=> Did(s, j, Flag(s, q, c)) \/ (s = r /\ j = i /\ Flag(s, q, c) = copy)
         /\ setup.scaled =>
              (Did(s, j, Scale(s, q))' <=> Did(s, j, Scale(s, q)) \/ (s = r /\ j = i /\ Scale(s, q) = copy))
  <2> SUFFICES ASSUME NEW s \in Rank, NEW q \in Rank, NEW c \in Chunk, NEW j \in Ops, q # s, IsCall(j)
               PROVE
         /\ Did(s, j, Data(s, q, c))' <=> Did(s, j, Data(s, q, c)) \/ (s = r /\ j = i /\ Data(s, q, c) = copy)
         /\ Did(s, j, Flag(s, q, c))' <=> Did(s, j, Flag(s, q, c)) \/ (s = r /\ j = i /\ Flag(s, q, c) = copy)
         /\ setup.scaled =>
              (Did(s, j, Scale(s, q))' <=> Did(s, j, Scale(s, q)) \/ (s = r /\ j = i /\ Scale(s, q) = copy))
    OBVIOUS
  <2>1. PICK d, f, e : d = Data(s, q, c) /\ f = Flag(s, q, c) /\ e = Scale(s, q) OBVIOUS
  <2>2. d' = d /\ f' = f /\ e' = e OBVIOUS
  <2>7. /\ \E k \in 1..Len(Copies) : Copies[k] = d
        /\ \E k \in 1..Len(Copies) : Copies[k] = f
        /\ setup.scaled => \E k \in 1..Len(Copies) : Copies[k] = e
    BY <1>10, <2>1, AreCopies
  <2>3. Did(s, j, d)' <=> Did(s, j, d) \/ (s = r /\ j = i /\ d = copy)
    BY <1>1, <1>2, <2>7, DidAfter
  <2>4. Did(s, j, f)' <=> Did(s, j, f) \/ (s = r /\ j = i /\ f = copy)
    BY <1>1, <1>2, <2>7, DidAfter
  <2>5. setup.scaled => (Did(s, j, e)' <=> Did(s, j, e) \/ (s = r /\ j = i /\ e = copy))
    BY <1>1, <1>2, <2>7, DidAfter
  <2>6. /\ Did(s, j, Data(s, q, c))' <=> Did(s, j, d)'
        /\ Did(s, j, Flag(s, q, c))' <=> Did(s, j, f)'
        /\ Did(s, j, Scale(s, q))' <=> Did(s, j, e)'
    BY <1>11, <2>1 DEF Did
  <2> QED BY <2>1, <2>3, <2>4, <2>5, <2>6
<1>17. \A q \in Rank, c \in Chunk :
         q # r /\ (Data(r, q, c) = copy \/ Flag(r, q, c) = copy \/ Scale(r, q) = copy) => q = peer
  <2> SUFFICES ASSUME NEW q \in Rank, NEW c \in Chunk, q # r,
                      Data(r, q, c) = copy \/ Flag(r, q, c) = copy \/ Scale(r, q) = copy
               PROVE q = peer
    OBVIOUS
  <2>1. To(r, q) = copy.to BY DEF Data, Flag, Scale, Step
  <2>2. (r - To(r, q)) % setup.ranks = q BY <1>10, Ring
  <2> QED BY <1>3, <2>1, <2>2
<1>18. Data(r, peer, copy.chunk) # Flag(r, peer, copy.chunk) BY DEF Data, Flag, Step

(* What is there stays there.                                              *)
<1>19. \A s, q \in Rank, c \in Chunk, j \in Ops : IsCall(j) =>
         /\ Here(s, q, j, Data(s, q, c))' <=>
              Here(s, q, j, Data(s, q, c)) \/ (s = r /\ q = peer /\ j = i /\ copy = Data(r, peer, c))
         /\ Here(s, q, j, Flag(s, q, c)) => Here(s, q, j, Flag(s, q, c))'
         /\ setup.scaled =>
              (Here(s, q, j, Scale(s, q))' <=>
                 Here(s, q, j, Scale(s, q)) \/ (s = r /\ q = peer /\ j = i /\ copy = Scale(r, peer)))
  <2> SUFFICES ASSUME NEW s \in Rank, NEW q \in Rank, NEW c \in Chunk, NEW j \in Ops, IsCall(j)
               PROVE
         /\ Here(s, q, j, Data(s, q, c))' <=>
              Here(s, q, j, Data(s, q, c)) \/ (s = r /\ q = peer /\ j = i /\ copy = Data(r, peer, c))
         /\ Here(s, q, j, Flag(s, q, c)) => Here(s, q, j, Flag(s, q, c))'
         /\ setup.scaled =>
              (Here(s, q, j, Scale(s, q))' <=>
                 Here(s, q, j, Scale(s, q)) \/ (s = r /\ q = peer /\ j = i /\ copy = Scale(r, peer)))
    OBVIOUS
  <2>1. CASE q = s BY <1>4, <1>12, <2>1 DEF Here
  <2>2. CASE q # s
    <3>1. /\ Here(s, q, j, Data(s, q, c)) <=> Did(s, j, Data(s, q, c))
          /\ Here(s, q, j, Flag(s, q, c)) <=> Did(s, j, Flag(s, q, c))
          /\ Here(s, q, j, Scale(s, q)) <=> Did(s, j, Scale(s, q))
          /\ Here(s, q, j, Data(s, q, c))' <=> Did(s, j, Data(s, q, c))'
          /\ Here(s, q, j, Flag(s, q, c))' <=> Did(s, j, Flag(s, q, c))'
          /\ Here(s, q, j, Scale(s, q))' <=> Did(s, j, Scale(s, q))'
      BY <2>2 DEF Here
    <3>2. /\ s = r /\ Data(s, q, c) = copy <=> s = r /\ q = peer /\ copy = Data(r, peer, c)
          /\ s = r /\ Scale(s, q) = copy <=> s = r /\ q = peer /\ copy = Scale(r, peer)
      BY <1>17, <2>2
    <3> QED BY <1>16, <2>2, <3>1, <3>2
  <2> QED BY <2>1, <2>2
(* No call past i is on its way to a peer.                                 *)
<1>20. \A q \in Rank, j \in Ops : \A cp : q # r /\ Here(r, q, j, cp) => j <= i
  BY <1>1, <1>10, <1>13 DEF Here, Did
<1>21. Pushed'
  <2> SUFFICES ASSUME NEW q \in Rank
               PROVE /\ \A j \in Ops : IsCall(j) /\ j < push'[q] => j <= Last(q)
                     /\ sent'[q] > 0 => IsCall(push'[q]) /\ push'[q] <= Last(q)
    BY <1>11, <1>12 DEF Pushed
  <2>1. /\ \A j \in Ops : IsCall(j) /\ j < push[q] => j <= Last(q)
        /\ sent[q] > 0 => IsCall(push[q]) /\ push[q] <= Last(q)
    BY <1>9 DEF Pushed
  <2>2. CASE q # r BY <1>4, <2>1, <2>2
  <2>3. CASE q = r /\ sent[r] + 1 = Len(Copies)
    <3>1. push'[q] = n /\ sent'[q] = 0 BY <1>4, <1>14, <2>3
    <3>2. Last(r) \in 0..End - 1 BY <1>9, Lasts
    <3> QED BY <1>4, <1>10, <1>13, <1>14, <2>3, <3>1, <3>2
  <2>4. CASE q = r /\ sent[r] + 1 # Len(Copies) BY <1>1, <1>4, <2>1, <2>4
  <2> QED BY <2>2, <2>3, <2>4
<1>22. Host' BY <1>5, <1>9, <1>11, <1>12 DEF Host
<1>23. Quiesced' /\ Reuse' BY <1>5, <1>9, <1>11, <1>12 DEF Quiesced, Reuse
<1>24. Met' BY <1>5, <1>9, <1>11 DEF Met
<1>25. Counts' /\ Snapshots' BY <1>5, <1>9, <1>11, <1>12 DEF Counts, Snapshots
<1>26. Older' BY <1>5, <1>9, <1>11, <1>12 DEF Older
<1>27. Arrived'
  <2> SUFFICES ASSUME NEW q \in Rank, NEW s \in Rank, NEW c \in Chunk, NEW j \in Ops, IsCall(j),
                      compute[q] > j \/ (compute[q] = j /\ <<s, c>> \in passed[q])
               PROVE Here(s, q, j, Flag(s, q, c))'
    BY <1>5, <1>11 DEF Arrived
  <2>1. Here(s, q, j, Flag(s, q, c)) BY <1>9 DEF Arrived
  <2> QED BY <1>19, <2>1
<1>28. Bytes'
  <2> SUFFICES ASSUME NEW q \in Rank, NEW s \in Rank, NEW c \in Chunk
               PROVE /\ \A j \in Ops : IsCall(j) /\ Here(s, q, j, Data(s, q, c))'
                          => bufs'[q][Newest[j]][s][c] >= j
                     /\ \A p \in {0, 1} : \A k \in Ops : bufs'[q][p][s][c] = k =>
                          IsCall(k) /\ Newest[k] = p /\ Here(s, q, k, Data(s, q, c))'
    BY <1>11 DEF Bytes
  <2>1. /\ \A j \in Ops : IsCall(j) /\ Here(s, q, j, Data(s, q, c)) => bufs[q][Newest[j]][s][c] >= j
        /\ \A p \in {0, 1} : \A k \in Ops : bufs[q][p][s][c] = k =>
             IsCall(k) /\ Newest[k] = p /\ Here(s, q, k, Data(s, q, c))
    BY <1>9 DEF Bytes
  <2>2. \A p \in {0, 1} :
          bufs'[q][p][s][c] = IF q = peer /\ p = Newest[i] /\ s = r /\ copy = Data(r, peer, c)
                              THEN i ELSE bufs[q][p][s][c]
    BY <1>6
  <2>3. ASSUME NEW j \in Ops, IsCall(j), Here(s, q, j, Data(s, q, c))'
        PROVE bufs'[q][Newest[j]][s][c] >= j
    <3>1. CASE q = peer /\ Newest[j] = Newest[i] /\ s = r /\ copy = Data(r, peer, c)
      <4>1. j = i \/ Here(s, q, j, Data(s, q, c)) BY <1>19, <2>3
      <4>2. j <= i BY <1>4, <1>10, <1>20, <3>1, <4>1
      <4>3. bufs'[q][Newest[j]][s][c] = i BY <1>13, <2>2, <3>1
      <4> QED BY <1>10, <1>13, <4>2, <4>3
    <3>2. CASE ~(q = peer /\ Newest[j] = Newest[i] /\ s = r /\ copy = Data(r, peer, c))
      <4>1. Here(s, q, j, Data(s, q, c)) BY <1>19, <2>3, <3>2
      <4> QED BY <1>13, <2>1, <2>2, <2>3, <3>2, <4>1
    <3> QED BY <3>1, <3>2
  <2>4. ASSUME NEW p \in {0, 1}, NEW k \in Ops, bufs'[q][p][s][c] = k
        PROVE IsCall(k) /\ Newest[k] = p /\ Here(s, q, k, Data(s, q, c))'
    <3>1. CASE q = peer /\ p = Newest[i] /\ s = r /\ copy = Data(r, peer, c)
      <4>1. k = i BY <2>2, <2>4, <3>1
      <4> QED BY <1>4, <1>10, <1>19, <3>1, <4>1
    <3>2. CASE ~(q = peer /\ p = Newest[i] /\ s = r /\ copy = Data(r, peer, c))
      BY <1>19, <2>1, <2>2, <2>4, <3>2
    <3> QED BY <3>1, <3>2
  <2> QED BY <2>3, <2>4
<1>29. ScaleBytes'
  <2> SUFFICES ASSUME setup.scaled, NEW q \in Rank, NEW s \in Rank
               PROVE /\ \A j \in Ops : IsCall(j) /\ Here(s, q, j, Scale(s, q))'
                          => scales'[q][Newest[j]][s] >= j
                     /\ \A p \in {0, 1} : \A k \in Ops : scales'[q][p][s] = k =>
                          IsCall(k) /\ Newest[k] = p /\ Here(s, q, k, Scale(s, q))'
    BY <1>5, <1>11 DEF ScaleBytes
  <2>0. \E c : c \in Chunk BY <1>4
  <2>1. /\ \A j \in Ops : IsCall(j) /\ Here(s, q, j, Scale(s, q)) => scales[q][Newest[j]][s] >= j
        /\ \A p \in {0, 1} : \A k \in Ops : scales[q][p][s] = k =>
             IsCall(k) /\ Newest[k] = p /\ Here(s, q, k, Scale(s, q))
    BY <1>9 DEF ScaleBytes
  <2>2. \A p \in {0, 1} :
          scales'[q][p][s] = IF q = peer /\ p = Newest[i] /\ s = r /\ copy = Scale(r, peer)
                             THEN i ELSE scales[q][p][s]
    BY <1>7
  <2>3. ASSUME NEW j \in Ops, IsCall(j), Here(s, q, j, Scale(s, q))'
        PROVE scales'[q][Newest[j]][s] >= j
    <3>1. CASE q = peer /\ Newest[j] = Newest[i] /\ s = r /\ copy = Scale(r, peer)
      <4>1. j = i \/ Here(s, q, j, Scale(s, q)) BY <1>19, <2>0, <2>3
      <4>2. j <= i BY <1>4, <1>10, <1>20, <3>1, <4>1
      <4>3. scales'[q][Newest[j]][s] = i BY <1>13, <2>2, <3>1
      <4> QED BY <1>10, <1>13, <4>2, <4>3
    <3>2. CASE ~(q = peer /\ Newest[j] = Newest[i] /\ s = r /\ copy = Scale(r, peer))
      <4>1. Here(s, q, j, Scale(s, q)) BY <1>19, <2>0, <2>3, <3>2
      <4> QED BY <1>13, <2>1, <2>2, <2>3, <3>2, <4>1
    <3> QED BY <3>1, <3>2
  <2>4. ASSUME NEW p \in {0, 1}, NEW k \in Ops, scales'[q][p][s] = k
        PROVE IsCall(k) /\ Newest[k] = p /\ Here(s, q, k, Scale(s, q))'
    <3>1. CASE q = peer /\ p = Newest[i] /\ s = r /\ copy = Scale(r, peer)
      <4>1. k = i BY <2>2, <2>4, <3>1
      <4> QED BY <1>4, <1>10, <1>19, <2>0, <3>1, <4>1
    <3>2. CASE ~(q = peer /\ p = Newest[i] /\ s = r /\ copy = Scale(r, peer))
      BY <1>19, <2>0, <2>1, <2>2, <2>4, <3>2
    <3> QED BY <3>1, <3>2
  <2> QED BY <2>3, <2>4
<1>31. Flags'
  <2> SUFFICES ASSUME NEW q \in Rank, NEW s \in Rank, NEW c \in Chunk
               PROVE flags'[q][s][c] = EpochOf(FlagOf(q, s, c)')
    BY <1>11 DEF Flags
  <2>1. flags[q][s][c] = EpochOf(FlagOf(q, s, c)) BY <1>9 DEF Flags
  <2>2. Flag(s, q, c)' = Flag(s, q, c) BY <1>11
  <2>3. CASE q = s
    <3>1. FlagOf(q, s, c)' = FlagOf(q, s, c) BY <1>12, <2>3 DEF FlagOf
    <3> QED BY <1>4, <1>8, <2>1, <2>3, <3>1
  <2>4. CASE q # s /\ s # r
    <3>1. Did(s, push[s], Flag(s, q, c))' <=> Did(s, push[s], Flag(s, q, c))
      BY <1>4, <1>5, <2>2, <2>4, Same DEF Did
    <3>2. FlagOf(q, s, c)' = FlagOf(q, s, c)
      BY <1>4, <2>2, <2>4, <3>1 DEF FlagOf
    <3> QED BY <1>8, <2>1, <2>4, <3>2
  <2>5. CASE q # s /\ s = r
    <3>1. PICK f : f = Flag(r, q, c) OBVIOUS
    <3>2. copy = f <=> q = peer /\ copy = Flag(r, peer, c) BY <1>17, <2>5, <3>1
    <3>3. flags'[q][s][c] = IF copy = f THEN EpochOf(i) ELSE EpochOf(FlagOf(q, s, c))
      BY <1>8, <2>1, <2>5, <3>2
    <3>4. FlagOf(q, s, c) = IF Did(r, i, f) THEN i ELSE i - 1 BY <1>1, <2>5, <3>1 DEF FlagOf
    <3>5. Did(r, i, f) <=> \E k \in 1..sent[r] : Copies[k] = f BY <1>1, <1>10 DEF Did
    <3>6. PICK k \in 1..Len(Copies) : Copies[k] = f BY <1>10, <2>5, <3>1, AreCopies
    <3>7. CASE sent[r] + 1 = Len(Copies)
      <4>1. copy = f \/ Did(r, i, f) BY <1>2, <1>15, <3>5, <3>6, <3>7
      <4>2. flags'[q][s][c] = EpochOf(i) BY <3>3, <3>4, <4>1
      <4>3. push'[r] = n /\ sent'[r] = 0 BY <1>4, <1>14, <3>7
      <4>4. ~Did(s, push[s], Flag(s, q, c))'
        <5>1. ~(push'[r] > push'[r]) /\ ~\E m \in 1..sent'[r] : TRUE BY <1>10, <1>14, <4>3
        <5> QED BY <2>5, <5>1 DEF Did
      <4>5. FlagOf(q, s, c)' = n - 1 BY <2>5, <4>3, <4>4 DEF FlagOf
      <4> QED BY <1>14, <4>2, <4>5
    <3>8. CASE sent[r] + 1 # Len(Copies)
      <4>1. push'[r] = i /\ sent'[r] = sent[r] + 1 BY <1>4, <3>8
      <4>2. Did(s, push[s], Flag(s, q, c))' <=> Did(r, i, f) \/ copy = f
        <5>1. \A m : m \in 1..sent[r] + 1 <=> m \in 1..sent[r] \/ m = sent[r] + 1 BY <1>15
        <5>2. Copies' = Copies BY <1>5, Same
        <5>3. Did(s, push[s], Flag(s, q, c))' <=> \E m \in 1..sent[r] + 1 : Copies[m] = f
          BY <1>10, <2>2, <2>5, <3>1, <4>1, <5>2 DEF Did
        <5> QED BY <1>2, <3>5, <5>1, <5>3
      <4>3. FlagOf(q, s, c)' = IF Did(r, i, f) \/ copy = f THEN i ELSE i - 1
        BY <2>5, <4>1, <4>2 DEF FlagOf
      <4> QED BY <3>3, <3>4, <4>3
    <3> QED BY <3>7, <3>8
  <2> QED BY <2>3, <2>4, <2>5
<1> QED BY <1>4, <1>21, <1>22, <1>23, <1>24, <1>25, <1>26, <1>27, <1>28, <1>29, <1>31 DEF IInv

-----------------------------------------------------------------------------
(* The invariant and what follows from it.                                 *)
LEMMA StutterInv == ASSUME IInv, UNCHANGED vars PROVE IInv'
<1>1. /\ UNCHANGED <<setup, host, push, sent, memory>>
      /\ setup' = setup /\ lastParity' = lastParity /\ parity' = parity /\ compute' = compute
      /\ gemm' = gemm /\ passed' = passed /\ push' = push /\ sent' = sent /\ barrier' = barrier
      /\ counter' = counter /\ epoch' = epoch /\ flags' = flags /\ bufs' = bufs /\ scales' = scales
  BY DEF vars, host, memory
<1>2. /\ Pushed' /\ Host' /\ Counts' /\ Snapshots' /\ Older' /\ Flags' /\ Bytes' /\ ScaleBytes'
      /\ \A q \in Rank : Last(q)' = Last(q)
      /\ \A o, q, j, copy : Here(o, q, j, copy)' = Here(o, q, j, copy)
      /\ \A o, q : \A d \in Chunk : Flag(o, q, d)' = Flag(o, q, d)
  BY <1>1, QuietInv
<1>3. Types /\ Quiesced /\ Reuse /\ Met /\ Arrived BY DEF IInv
<1>4. /\ Rank' = Rank /\ Chunk' = Chunk /\ Ops' = Ops /\ End' = End /\ Newest' = Newest
      /\ Stamp' = Stamp /\ Copies' = Copies
      /\ \A k : IsCall(k)' = IsCall(k) /\ Captured(k)' = Captured(k)
  BY <1>1, Same
<1>5. Types' BY <1>1, <1>2, <1>3, <1>4 DEF Types
<1>6. Quiesced' /\ Reuse' BY <1>1, <1>2, <1>3, <1>4 DEF Quiesced, Reuse
<1>7. Met' BY <1>1, <1>3, <1>4 DEF Met
<1>8. Arrived' BY <1>1, <1>2, <1>3, <1>4 DEF Arrived
<1> QED BY <1>2, <1>5, <1>6, <1>7, <1>8 DEF IInv

(* Every step keeps the invariant.                                         *)
LEMMA NextInv == IInv /\ [Next]_vars => IInv'
BY StageInv, GateInv, GemmEndInv, QuiesceInv, SendInv, ReleaseInv, StutterInv DEF Next

(* Every state a run reaches has the invariant.                            *)
THEOREM Invariance == Spec => []IInv
BY InitInv, NextInv, PTL DEF Spec

(* A staged call is within its rank's program.                             *)
LEMMA StagedIs ==
  ASSUME Types, NEW r \in Rank, NEW i \in Ops, Staged(r, i)
  PROVE i \in Nat /\ i <= Last(r)
<1>1. End \in Nat \ {0} /\ Ops = 1..End - 1 BY Setup DEF Types
<1>2. /\ Last(r) \in 0..End - 1 /\ compute[r] \in 1..End /\ gemm[r] \in BOOLEAN
      /\ Last(r) = IF gemm[r] THEN compute[r] ELSE compute[r] - 1
  BY Lasts
<1> QED BY <1>1, <1>2 DEF Staged

(* A GEMM's call is its rank's last.                                       *)
LEMMA Running ==
  ASSUME IInv, NEW r \in Rank, gemm[r], NEW i, i = compute[r]
  PROVE /\ IsCall(i) /\ i \in Ops /\ i \in Nat /\ i \in 1..Last(r) /\ Last(r) = i
        /\ parity[r][i] = Newest[i] /\ Newest[i] \in {0, 1} /\ epoch[r][Newest[i]] = EpochOf(i)
<1>1. Types /\ Host /\ Snapshots /\ setup \in Setups BY DEF IInv, Types
<1>2. /\ End \in Nat \ {0} /\ Ops = 1..End - 1 BY <1>1, Setup
<1>3. IsCall(i) /\ i \in Ops /\ Last(r) = i BY <1>1, Lasts, Streams DEF IsCall
<1>4. i \in Nat /\ i \in 1..Last(r) /\ \A k \in i + 1..Last(r) : FALSE BY <1>2, <1>3
<1>5. parity[r][i] = Newest[i] BY <1>1, <1>3, <1>4 DEF Host
<1>6. Newest[i] \in {0, 1}
  <2>1. Newest \in [0..End - 1 -> {0, 1}] BY <1>1, Programs
  <2> QED BY <1>2, <1>3, <2>1
<1>7. epoch[r][Newest[i]] = EpochOf(i) BY <1>1, <1>3, <1>4 DEF Snapshots
<1> QED BY <1>3, <1>4, <1>5, <1>6, <1>7

(* The properties that follow from it.                                     *)
LEMMA InvTypes == IInv => TypeOK
<1> SUFFICES ASSUME IInv PROVE TypeOK OBVIOUS
<1>1. Types /\ setup \in Setups BY DEF IInv, Types
<1>2. \A r \in Rank : sent[r] \in 0..(2 * setup.chunks + 1) * setup.ranks
  <2> TAKE r \in Rank
  <2>1. sent[r] \in 0..Len(Copies) - 1 /\ Len(Copies) \in Nat BY <1>1, Streams
  <2>2. Len(Copies) <= (2 * setup.chunks + 1) * setup.ranks BY <1>1, CopiesAre
  <2>3. PICK b \in Nat : b = (2 * setup.chunks + 1) * setup.ranks
    <3>1. setup.chunks \in Nat /\ setup.ranks \in Nat BY <1>1, Setup
    <3>2. (2 * setup.chunks + 1) * setup.ranks \in Nat BY <3>1, Z3
    <3> QED BY <3>2
  <2> QED BY <2>1, <2>2, <2>3
<1>3. \A r \in Rank : /\ compute[r] \in 1..End
                      /\ push[r] = End \/ IsCall(push[r])
                      /\ barrier[r] = End \/ IsCall(barrier[r])
                      /\ Len(parity[r]) = (IF gemm[r] THEN compute[r] ELSE compute[r] - 1)
  BY <1>1, Lasts, Streams DEF Last
<1> QED BY <1>1, <1>2, <1>3 DEF Types, TypeOK

(* The snapshot of a call being read was taken for it.                     *)
LEMMA InvEpoch == IInv => EpochIsStable
<1> SUFFICES ASSUME IInv, NEW r \in Rank
             PROVE /\ gemm[r] => epoch[r][parity[r][compute[r]]] = EpochOf(compute[r])
                   /\ IsCall(push[r]) /\ Staged(r, push[r])
                        => epoch[r][parity[r][push[r]]] = EpochOf(push[r])
  BY DEF EpochIsStable
<1>1. ASSUME gemm[r] PROVE epoch[r][parity[r][compute[r]]] = EpochOf(compute[r])
  BY <1>1, Running
<1>2. ASSUME IsCall(push[r]), Staged(r, push[r]) PROVE epoch[r][parity[r][push[r]]] = EpochOf(push[r])
  <2>1. PICK i : i = push[r] OBVIOUS
  <2>2. Types /\ i \in Ops BY <1>2, <2>1 DEF IInv, IsCall
  <2>3. i <= Last(r) BY <1>2, <2>1, <2>2, StagedIs
  <2> QED BY <1>2, <2>1, <2>3, Live
<1> QED BY <1>1, <1>2

(* Nothing of a call is anywhere before its rank has begun it.             *)
LEMMA Begun ==
  ASSUME Types, Pushed, NEW s \in Rank, NEW q \in Rank, NEW x \in Ops, NEW copy,
         IsCall(x), Here(s, q, x, copy)
  PROVE x \in Nat /\ x <= Last(s)
<1>1. End \in Nat \ {0} /\ Ops = 1..End - 1 BY Setup DEF Types
<1>2. push[s] \in Nat /\ sent[s] \in Nat BY Streams
<1>3. CASE q = s BY <1>1, <1>3 DEF Here
<1>4. CASE q # s /\ push[s] > x
  <2>1. x < push[s] BY <1>1, <1>2, <1>4
  <2> QED BY <1>1, <2>1 DEF Pushed
<1>5. CASE q # s /\ ~(push[s] > x)
  <2>1. push[s] = x /\ \E k \in 1..sent[s] : Copies[k] = copy BY <1>5 DEF Here, Did
  <2>2. sent[s] > 0 BY <1>2, <2>1
  <2> QED BY <1>1, <2>1, <2>2 DEF Pushed
<1> QED BY <1>3, <1>4, <1>5

(* What a rank behind its gates reads was not overwritten: the writer of a *)
(* later call on the buffer would have waited for this GEMM.               *)
LEMMA NotYet ==
  ASSUME IInv, NEW r \in Rank, gemm[r], NEW i, i = compute[r], NEW s \in Rank, NEW x \in Ops, NEW copy,
         IsCall(x), Newest[x] = Newest[i], Here(s, r, x, copy)
  PROVE x <= i
<1> SUFFICES ASSUME ~(x <= i) PROVE FALSE OBVIOUS
<1>1. Types /\ Pushed /\ Reuse /\ Met /\ setup \in Setups BY DEF IInv, Types
<1>2. /\ IsCall(i) /\ i \in Ops /\ i \in Nat /\ i \in 1..Last(r) /\ Last(r) = i BY Running
<1>3. End \in Nat \ {0} /\ Ops = 1..End - 1 BY <1>1, Setup
<1>4. Last(s) \in Nat BY <1>1, <1>3, Lasts
<1>5. x <= Last(s) BY <1>1, Begun
<1>6. x \in 1..Last(s) /\ i \in 1..x - 1 BY <1>2, <1>3, <1>4, <1>5
<1>7. barrier[s] > i BY <1>1, <1>2, <1>6 DEF Reuse
<1>8. compute[r] > i BY <1>1, <1>2, <1>7 DEF Met
<1> QED BY <1>2, <1>8

(* Neither too early nor too late to read.                                 *)
LEMMA InvReads == IInv => ReadsItsOwnCall
<1> SUFFICES ASSUME IInv, NEW r \in Rank, gemm[r], NEW g \in passed[r]
             PROVE LET p == parity[r][compute[r]]
                   IN /\ bufs[r][p][g[1]][g[2]] = compute[r]
                      /\ setup.scaled => scales[r][p][g[1]] = compute[r]
  BY DEF ReadsItsOwnCall
<1>1. PICK i : i = compute[r] OBVIOUS
<1>2. /\ Types /\ Arrived /\ Bytes /\ ScaleBytes /\ setup \in Setups BY DEF IInv, Types
<1>3. /\ IsCall(i) /\ i \in Ops /\ i \in Nat /\ parity[r][i] = Newest[i] /\ Newest[i] \in {0, 1}
  BY <1>1, Running
<1>4. PICK s \in Rank, c \in Chunk : g = <<s, c>>
  <2>1. g \in Rank \X Chunk BY <1>2, Streams
  <2> QED BY <2>1
<1>5. Here(s, r, i, Flag(s, r, c)) BY <1>1, <1>2, <1>3, <1>4 DEF Arrived
<1>6. Here(s, r, i, Data(s, r, c)) /\ (setup.scaled => Here(s, r, i, Scale(s, r)))
  BY <1>2, <1>5, DataFirst
<1>7. bufs[r][Newest[i]][s][c] = i
  <2>1. PICK x : x = bufs[r][Newest[i]][s][c] OBVIOUS
  <2>2. x >= i BY <1>2, <1>3, <1>6, <2>1 DEF Bytes
  <2>3. x \in Nat /\ (x = 0 \/ x \in Ops) /\ Ops = 1..End - 1 BY <1>2, <1>3, <2>1, StampsAre DEF Ops, End
  <2>4. x \in Ops BY <1>3, <2>2, <2>3
  <2>5. IsCall(x) /\ Newest[x] = Newest[i] /\ Here(s, r, x, Data(s, r, c))
    BY <1>2, <1>3, <2>1, <2>4 DEF Bytes
  <2>6. x <= i BY <1>1, <2>4, <2>5, NotYet
  <2> QED BY <1>3, <2>1, <2>2, <2>3, <2>6
<1>8. ASSUME setup.scaled PROVE scales[r][Newest[i]][s] = i
  <2>1. PICK x : x = scales[r][Newest[i]][s] OBVIOUS
  <2>2. x >= i BY <1>2, <1>3, <1>6, <1>8, <2>1 DEF ScaleBytes
  <2>3. x \in Nat /\ (x = 0 \/ x \in Ops) /\ Ops = 1..End - 1 BY <1>2, <1>3, <2>1, StampsAre DEF Ops, End
  <2>4. x \in Ops BY <1>3, <2>2, <2>3
  <2>5. IsCall(x) /\ Newest[x] = Newest[i] /\ Here(s, r, x, Scale(s, r))
    BY <1>2, <1>3, <1>8, <2>1, <2>4 DEF ScaleBytes
  <2>6. x <= i BY <1>1, <2>4, <2>5, NotYet
  <2> QED BY <1>3, <2>1, <2>2, <2>3, <2>6
<1> QED BY <1>1, <1>3, <1>4, <1>7, <1>8

(* quiesce() leaves the newest buffer the newest.                          *)
LEMMA Still ==
  ASSUME setup \in Setups, NEW i \in 0..End - 1, NEW n \in i..End - 1, \A k \in i + 1..n : ~IsCall(k)
  PROVE Newest[n] = Newest[i]
<1>1. End \in Nat \ {0} /\ Ops = 1..End - 1 BY Setup
<1> DEFINE T == {k \in i..n : Newest[k] # Newest[i]}
<1> SUFFICES ASSUME n \in T PROVE FALSE BY <1>1
<1>2. T \in SUBSET Nat BY <1>1
<1>3. PICK x \in T : \A y \in T : x <= y
  <2> HIDE DEF T
  <2> QED BY <1>2, Least
<1>4. x \in i + 1..n /\ x \in Ops /\ x - 1 \in i..n /\ ~(x <= x - 1) BY <1>1
<1>5. Newest[x - 1] = Newest[i] BY <1>3, <1>4
<1>6. Newest[x] = Newest[x - 1] BY <1>4, Programs
<1> QED BY <1>5, <1>6

(* The last call so far, and its buffer.                                   *)
LEMMA LastCallIs ==
  ASSUME setup \in Setups, NEW i \in 0..End - 1, NEW j \in 1..i, IsCall(j)
  PROVE /\ LastCall(i) \in 1..i /\ LastCall(i) \in Ops /\ IsCall(LastCall(i))
        /\ \A k \in LastCall(i) + 1..i : ~IsCall(k)
        /\ Newest[i] = Newest[LastCall(i)]
<1>1. End \in Nat \ {0} /\ Ops = 1..End - 1 BY Setup
<1> DEFINE T == {d \in 0..i - 1 : IsCall(i - d)}
<1>2. T \in SUBSET Nat /\ i - j \in T BY <1>1
<1>3. PICK x \in T : \A y \in T : x <= y
  <2> HIDE DEF T
  <2> QED BY <1>2, Least
<1>4. i - x \in 1..i /\ IsCall(i - x) BY <1>1
<1>5. \A k \in (i - x) + 1..i : ~IsCall(k)
  <2> SUFFICES ASSUME NEW k \in (i - x) + 1..i, IsCall(k) PROVE FALSE OBVIOUS
  <2>1. i - k \in 0..i - 1 /\ i - (i - k) = k /\ ~(x <= i - k) BY <1>1, <1>4
  <2>2. i - k \in T BY <2>1
  <2> QED BY <1>3, <2>1, <2>2
<1>6. PICK l : l = LastCall(i) OBVIOUS
<1>7. l \in 1..i /\ IsCall(l) /\ \A k \in l + 1..i : ~IsCall(k) BY <1>4, <1>5, <1>6 DEF LastCall
<1>8. l \in Ops /\ l \in 0..End - 1 /\ i \in l..End - 1 BY <1>1, <1>7
<1>9. Newest[i] = Newest[l] BY <1>7, <1>8, Still
<1> QED BY <1>6, <1>7, <1>8, <1>9

(* What a rank finds in its newest buffer between calls is no later call's *)
(* than its own last, or it is the very next one's: a peer that is further *)
(* had this rank's flag of that call.  An eager next call takes the other  *)
(* buffer, so it is a replay, and its owner has begun it.                  *)
LEMMA NoLater ==
  ASSUME IInv, NEW r \in Rank, ~gemm[r], NEW i, i = compute[r] - 1, NEW l \in 1..i, IsCall(l),
         \A k \in l + 1..i : ~IsCall(k), ~Captured(i),
         NEW s \in Rank, NEW x \in Ops, NEW copy,
         x > l, IsCall(x), Newest[x] = Newest[i], Here(s, r, x, copy)
  PROVE x = NextCall(compute[r]) /\ Overtakes(s, r)
<1>1. Types /\ Pushed /\ Host /\ Arrived /\ setup \in Setups BY DEF IInv, Types
<1>2. End \in Nat \ {0} /\ Ops = 1..End - 1 BY <1>1, Setup
<1>3. compute[r] \in 1..End /\ Last(r) = i BY <1>1, Lasts
<1>4. i \in Ops /\ i \in Nat /\ i + 1 = compute[r] /\ i \in 0..End - 1 BY <1>2, <1>3
<1>5. PICK n : n = NextCall(compute[r]) OBVIOUS
<1>6. /\ n \in i + 1..End /\ (n = End \/ IsCall(n))
      /\ \A j \in Ops : IsCall(j) /\ j < n => j <= i
  BY <1>1, <1>4, <1>5, NoneBetween
<1>7. x > i
  <2> SUFFICES ASSUME x <= i PROVE FALSE BY <1>2, <1>4
  <2>1. x \in l + 1..i BY <1>2, <1>4
  <2> QED BY <2>1
<1>8. x >= n /\ n \in Ops /\ IsCall(n)
  <2>1. ~(x < n) BY <1>2, <1>4, <1>6, <1>7
  <2> QED BY <1>2, <1>4, <1>6, <2>1
<1>9. x \in Nat /\ x <= Last(s) BY <1>1, Begun
<1>10. /\ Last(s) \in 0..End - 1 /\ compute[s] \in 1..End /\ gemm[s] \in BOOLEAN
       /\ Last(s) = IF gemm[s] THEN compute[s] ELSE compute[s] - 1
  BY <1>1, Lasts
<1>11. ~(x > n)
  <2> SUFFICES ASSUME x > n PROVE FALSE OBVIOUS
  <2>1. compute[s] > n BY <1>2, <1>4, <1>6, <1>9, <1>10
  <2>2. PICK c : c \in Chunk
    <3>1. setup.chunks \in Nat \ {0} /\ Chunk = 1..setup.chunks BY <1>1, Setup
    <3> QED BY <3>1
  <2>3. Here(r, s, n, Flag(r, s, c)) BY <1>1, <1>8, <2>1, <2>2 DEF Arrived
  <2>4. n <= Last(r) BY <1>1, <1>8, <2>3, Begun
  <2> QED BY <1>3, <1>4, <1>6, <2>4
<1>12. x = n BY <1>2, <1>4, <1>6, <1>8, <1>11
<1>13. Newest[n - 1] = Newest[i]
  <2>1. n - 1 \in i..End - 1 /\ i \in 0..End - 1 BY <1>2, <1>4, <1>6
  <2>2. \A k \in i + 1..n - 1 : ~IsCall(k)
    <3> SUFFICES ASSUME NEW k \in i + 1..n - 1, IsCall(k) PROVE FALSE OBVIOUS
    <3>1. k \in Ops /\ k < n /\ ~(k <= i) BY <1>2, <1>4, <1>6
    <3> QED BY <1>6, <3>1
  <2> QED BY <1>1, <2>1, <2>2, Still
<1>14. Newest[i] \in {0, 1}
  <2>1. Newest \in [0..End - 1 -> {0, 1}] BY <1>1, Programs
  <2> QED BY <1>4, <2>1
<1>15. Captured(n)
  <2> SUFFICES ASSUME ~Captured(n) PROVE FALSE OBVIOUS
  <2>1. Newest[n] = 1 - Newest[n - 1] BY <1>1, <1>8, Programs
  <2> QED BY <1>12, <1>13, <1>14, <2>1
<1>16. setup.program[n].parity = lastParity[r]
  <2>1. Newest[n] = setup.program[n].parity BY <1>1, <1>8, <1>15, Programs
  <2>2. lastParity[r] = Newest[i] BY <1>1, <1>3 DEF Host
  <2> QED BY <1>12, <2>1, <2>2
<1>17. Staged(s, n)
  <2>1. n <= Last(s) /\ n \in Nat BY <1>2, <1>8, <1>9, <1>12
  <2>2. CASE gemm[s] BY <1>10, <2>1, <2>2 DEF Staged
  <2>3. CASE ~gemm[s] BY <1>10, <2>1, <2>3 DEF Staged
  <2> QED BY <1>10, <2>2, <2>3
<1> QED BY <1>5, <1>12, <1>15, <1>16, <1>17 DEF Overtakes

(* The newest buffer, where the host looks for it.                         *)
LEMMA InvGathered == IInv => GatheredStays
<1> SUFFICES ASSUME IInv, NEW r \in Rank, NEW s \in Rank, MayLook(r), NEW call \in Gathered(r, s)
             PROVE \/ call = LastCall(compute[r] - 1)
                   \/ call = NextCall(compute[r]) /\ Overtakes(s, r)
  BY DEF GatheredStays
<1>1. PICK i : i = compute[r] - 1 OBVIOUS
<1>2. /\ Types /\ Host /\ Arrived /\ Bytes /\ ScaleBytes /\ setup \in Setups BY DEF IInv, Types
<1>3. End \in Nat \ {0} /\ Ops = 1..End - 1 BY <1>2, Setup
<1>4. ~gemm[r] /\ ~Captured(i) BY <1>1 DEF MayLook
<1>5. compute[r] \in 1..End /\ Last(r) = i /\ i \in 0..End - 1 BY <1>1, <1>2, <1>4, Lasts
<1>6. PICK l : /\ l = LastCall(i) /\ l \in 1..i /\ l \in Ops /\ IsCall(l)
               /\ \A k \in l + 1..i : ~IsCall(k)
               /\ Newest[i] = Newest[l]
  <2>1. PICK j \in 1..i : IsCall(j) BY <1>1 DEF MayLook
  <2> QED BY <1>2, <1>5, <2>1, LastCallIs
<1>7. PICK p : p = Newest[l] /\ p \in {0, 1} /\ lastParity[r] = p
  <2>1. lastParity[r] = Newest[i] BY <1>2, <1>4, <1>5 DEF Host
  <2>2. Newest \in [0..End - 1 -> {0, 1}] BY <1>2, Programs
  <2> QED BY <1>5, <1>6, <2>1, <2>2
<1>8. compute[r] > l BY <1>1, <1>3, <1>5, <1>6
<1>9. \A c \in Chunk : Here(s, r, l, Flag(s, r, c)) BY <1>2, <1>6, <1>8 DEF Arrived
<1>10. \A c \in Chunk : Here(s, r, l, Data(s, r, c)) /\ (setup.scaled => Here(s, r, l, Scale(s, r)))
  BY <1>2, <1>9, DataFirst
<1>11. /\ call \in Nat /\ (call = 0 \/ call \in Ops) /\ call >= l
       /\ call \in Ops => /\ IsCall(call) /\ Newest[call] = p
                          /\ \E copy : Here(s, r, call, copy)
  <2>1. ASSUME NEW c \in Chunk, call = bufs[r][p][s][c]
        PROVE <1>11!:
    <3>1. Here(s, r, l, Data(s, r, c)) BY <1>10
    <3>2. call >= l BY <1>2, <1>6, <1>7, <2>1, <3>1 DEF Bytes
    <3>3. call \in Nat /\ (call = 0 \/ call \in Ops) BY <1>2, <1>7, <2>1, StampsAre
    <3>4. call \in Ops => IsCall(call) /\ Newest[call] = p /\ Here(s, r, call, Data(s, r, c))
      BY <1>2, <1>7, <2>1 DEF Bytes
    <3> QED BY <3>2, <3>3, <3>4
  <2>2. ASSUME setup.scaled, call = scales[r][p][s]
        PROVE <1>11!:
    <3>1. PICK c : c \in Chunk
      <4>1. setup.chunks \in Nat \ {0} /\ Chunk = 1..setup.chunks BY <1>2, Setup
      <4> QED BY <4>1
    <3>2. Here(s, r, l, Scale(s, r)) BY <1>10, <2>2, <3>1
    <3>3. call >= l BY <1>2, <1>6, <1>7, <2>2, <3>2 DEF ScaleBytes
    <3>4. call \in Nat /\ (call = 0 \/ call \in Ops) BY <1>2, <1>7, <2>2, StampsAre
    <3>5. call \in Ops => IsCall(call) /\ Newest[call] = p /\ Here(s, r, call, Scale(s, r))
      BY <1>2, <1>7, <2>2 DEF ScaleBytes
    <3> QED BY <3>3, <3>4, <3>5
  <2> QED BY <1>7, <2>1, <2>2 DEF Gathered
<1>12. CASE call = l BY <1>1, <1>6, <1>12
<1>13. CASE call # l
  <2>1. call > l /\ call \in Ops BY <1>3, <1>6, <1>11, <1>13
  <2>2. PICK copy : Here(s, r, call, copy) BY <1>11, <2>1
  <2>3. call = NextCall(compute[r]) /\ Overtakes(s, r)
    BY <1>1, <1>4, <1>6, <1>7, <1>11, <2>1, <2>2, NoLater
  <2> QED BY <2>3
<1> QED BY <1>12, <1>13

(* Every component is of its type, and the streams of a rank agree on how  *)
(* far it is.                                                              *)
THEOREM TypesCorrect == Spec => []TypeOK
BY Invariance, InvTypes, PTL

(* A live call's epoch snapshot is its own: _acquire()'s wait for the      *)
(* buffer's release also keeps the row from the next bump.                 *)
THEOREM EpochStable == Spec => []EpochIsStable
BY Invariance, InvEpoch, PTL

(* A GEMM behind its gates reads the shards and the scale factors of its   *)
(* own call, on every rank: none is still to come, none is overwritten.    *)
THEOREM OwnCall == Spec => []ReadsItsOwnCall
BY Invariance, InvReads, PTL

(* gathered_a() finds the last call's shards and scale factors, and no     *)
(* other call's, in the buffer the host calls newest, also after replays   *)
(* it did not count, until the rank's next call begins -- but where that   *)
(* call is a replay into this buffer, each shard only until its owner has  *)
(* begun the replay.                                                       *)
THEOREM GatheredStay == Spec => []GatheredStays
BY Invariance, InvGathered, PTL
=============================================================================
