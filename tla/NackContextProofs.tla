-------------------------- MODULE NackContextProofs --------------------------
(***************************************************************************)
(* What the NACK state promises, for every number space, every limit and   *)
(* every order of arrivals: requests are bounded and spaced, and no gap is *)
(* skipped.  makeNack's loop is met by induction over its turns, on a set  *)
(* of results that each turn stays in.                                     *)
(***************************************************************************)
EXTENDS NackRequests, FiniteSetTheorems, WellFoundedInduction, TLAPS

(* A non-empty set of naturals has a least element. *)
LEMMA LeastElement ==
  ASSUME NEW T \in SUBSET Nat, T # {}
  PROVE  \E x \in T : \A y \in T : x <= y
<1> DEFINE F == {0 .. x : x \in T}
<1>1. F \subseteq FiniteSubsetsOf(Nat) /\ F # {}
  <2>1. ASSUME NEW x \in T
        PROVE  0 .. x \in SUBSET Nat /\ IsFiniteSet(0 .. x)
    <3>1. 0 \in Int /\ x \in Int
      OBVIOUS
    <3> QED
      BY <3>1, FS_Interval
  <2> QED
    BY <2>1 DEF FiniteSubsetsOf
<1>2. PICK I \in F : \A J \in F : ~ (<<J, I>> \in StrictSubsetOrdering(Nat))
  BY <1>1, FS_StrictSubsetOrderingWellFounded, WFMin
<1>3. PICK x \in T : I = 0 .. x
  BY <1>2
<1>4. ASSUME NEW y \in T, y < x
      PROVE  FALSE
  <2>1. 0 .. y \in F /\ 0 .. y \subseteq 0 .. x /\ x \in 0 .. x /\ x \notin 0 .. y
    BY <1>4
  <2>2. <<0 .. y, 0 .. x>> \in StrictSubsetOrdering(Nat)
    BY <2>1, <1>1, <1>2, <1>3 DEF StrictSubsetOrdering
  <2> QED
    BY <2>1, <2>2, <1>2, <1>3
<1> QED
  BY <1>4

(* A non-empty bounded set of naturals has a largest element. *)
LEMMA LargestElement ==
  ASSUME NEW bound \in Nat, NEW T \in SUBSET (0 .. bound), T # {}
  PROVE  \E x \in T : \A y \in T : y <= x
<1> DEFINE Below == {bound - x : x \in T}
<1>1. Below \in SUBSET Nat /\ Below # {}
  <2>1. ASSUME NEW x \in T PROVE bound - x \in Nat
    OBVIOUS
  <2>2. QED
    BY <2>1
<1>2. PICK b \in Below : \A y \in Below : b <= y
  BY <1>1, LeastElement
<1>3. PICK x \in T : b = bound - x
  BY <1>2
<1>4. ASSUME NEW y \in T PROVE y <= x
  <2>1. bound - y \in Below
    OBVIOUS
  <2>2. bound - x <= bound - y
    BY <1>2, <1>3, <2>1
  <2>3. QED
    BY <2>2
<1>5. QED
  BY <1>4

(* Induction: a set of naturals that has 0 and every successor up to a     *)
(* bound has all numbers up to it.                                         *)
LEMMA SetInduction ==
  ASSUME NEW bound \in Nat, NEW T \in SUBSET Nat, 0 \in T,
         \A n \in T : n < bound => n + 1 \in T
  PROVE  0 .. bound \subseteq T
<1> DEFINE Out == (0 .. bound) \ T
<1>1. SUFFICES ASSUME Out # {} PROVE FALSE
  OBVIOUS
<1> Out \in SUBSET Nat
  OBVIOUS
<1>2. PICK k \in Out : \A y \in Out : k <= y
  BY <1>1, LeastElement
<1>3. k \in 0 .. bound /\ k # 0 /\ k \notin T
  BY <1>2
<1>4. k - 1 \in 0 .. bound /\ k - 1 \notin Out
  BY <1>2, <1>3
<1>5. k - 1 \in T /\ k - 1 < bound
  BY <1>3, <1>4
<1>6. (k - 1) + 1 \in T
  BY <1>5
<1>7. QED
  BY <1>3, <1>6

-----------------------------------------------------------------------------
(* makeNack's loop                                                         *)

IsLoop(turn, n, max, flush) ==
  turn = [i \in 0 .. MaxNack |-> IF i = 0 THEN Result(EraseFrontSeq(n), {})
                                 ELSE MakeNackTurn(turn[i - 1], max, flush)]

(* The turns of the loop exist: each is made from the one before.          *)
LEMMA TurnsExist ==
  ASSUME NEW n, NEW max, NEW flush
  PROVE  \E turn : IsLoop(turn, n, max, flush)
<1> DEFINE First == Result(EraseFrontSeq(n), {})
           Made(turn, k) == turn = [i \in 0 .. k |->
                              IF i = 0 THEN First ELSE MakeNackTurn(turn[i - 1], max, flush)]
           T == {k \in Nat : \E turn : Made(turn, k)}
<1> HIDE DEF First
<1>1. MaxNack \in Nat
  BY NackAssumption
<1>2. 0 \in T
  <2> DEFINE turn == [i \in 0 .. 0 |-> First]
  <2>1. Made(turn, 0)
    OBVIOUS
  <2>2. QED
    BY <2>1
<1>3. ASSUME NEW k \in T PROVE k + 1 \in T
  <2>1. k \in Nat
    OBVIOUS
  <2>2. PICK turn : Made(turn, k)
    OBVIOUS
  <2> DEFINE next == [i \in 0 .. k + 1 |->
                        IF i = 0 THEN First ELSE MakeNackTurn(turn[i - 1], max, flush)]
  <2>3. \A i \in 0 .. k : next[i] = turn[i]
    <3>1. ASSUME NEW i \in 0 .. k PROVE next[i] = turn[i]
      <4>1. i \in 0 .. k + 1
        BY <2>1
      <4>2. turn[i] = IF i = 0 THEN First ELSE MakeNackTurn(turn[i - 1], max, flush)
        BY <2>2
      <4>3. QED
        BY <4>1, <4>2
    <3>2. QED
      BY <3>1
  <2>4. \A i \in 0 .. k + 1 : i # 0 => i - 1 \in 0 .. k
    BY <2>1
  <2>5. next = [i \in 0 .. k + 1 |->
                  IF i = 0 THEN First ELSE MakeNackTurn(next[i - 1], max, flush)]
    <3>1. ASSUME NEW i \in 0 .. k + 1, i # 0
          PROVE  MakeNackTurn(turn[i - 1], max, flush) = MakeNackTurn(next[i - 1], max, flush)
      <4>1. next[i - 1] = turn[i - 1]
        BY <2>3, <2>4, <3>1
      <4> HIDE DEF next
      <4>2. QED
        BY <4>1
    <3>2. QED
      BY <3>1, Zenon
  <2>6. Made(next, k + 1)
    BY <2>5
  <2> HIDE DEF next, Made
  <2>7. k + 1 \in Nat /\ \E t : Made(t, k + 1)
    BY <2>1, <2>6
  <2>8. QED
    BY <2>7
<1>4. MaxNack \in T
  <2>1. T \in SUBSET Nat
    OBVIOUS
  <2> HIDE DEF T
  <2>2. 0 .. MaxNack \subseteq T
    BY <1>1, <1>2, <1>3, <2>1, SetInduction
  <2>3. QED
    BY <1>1, <2>2
<1>5. PICK turn : Made(turn, MaxNack)
  BY <1>4
<1>6. IsLoop(turn, n, max, flush)
  BY <1>5 DEF IsLoop, First
<1>7. QED
  BY <1>6

(* The rule for the loop: what holds first and is kept by each turn holds  *)
(* of what makeNack returns.                                               *)
LEMMA LoopRule ==
  ASSUME NEW n, NEW max, NEW flush, NEW S,
         Result(EraseFrontSeq(n), {}) \in S,
         \A r \in S : MakeNackTurn(r, max, flush) \in S
  PROVE  MakeNack(n, max, flush) \in S
<1> DEFINE turn == CHOOSE t : IsLoop(t, n, max, flush)
           T == {i \in 0 .. MaxNack : turn[i] \in S}
<1>1. MaxNack \in Nat
  BY NackAssumption
<1>2. MakeNack(n, max, flush) = turn[MaxNack]
  BY DEF MakeNack, IsLoop
<1>3. IsLoop(turn, n, max, flush)
  BY TurnsExist
<1> HIDE DEF turn
<1>4. T \in SUBSET Nat
  BY <1>1
<1>5. 0 \in T
  BY <1>1, <1>3 DEF IsLoop
<1>6. \A i \in T : i < MaxNack => i + 1 \in T
  <2>1. ASSUME NEW i \in T, i < MaxNack PROVE i + 1 \in T
    <3>1. i + 1 \in 0 .. MaxNack /\ i + 1 # 0 /\ (i + 1) - 1 = i
      BY <1>1, <2>1
    <3>2. turn[i + 1] = MakeNackTurn(turn[i], max, flush)
      BY <1>3, <3>1 DEF IsLoop
    <3>3. QED
      BY <3>1, <3>2
  <2>2. QED
    BY <2>1
<1>7. MaxNack \in T
  <2> HIDE DEF T
  <2>1. 0 .. MaxNack \subseteq T
    BY <1>1, <1>4, <1>5, <1>6, SetInduction
  <2>2. QED
    BY <1>1, <2>1
<1>8. QED
  BY <1>2, <1>7

-----------------------------------------------------------------------------
(* Numbers that wrap                                                       *)

(* What the number space is. *)
LEMMA Numbers ==
  /\ SeqMod \in Nat \ {0} /\ SeqMax \in Nat /\ SeqMax = SeqMod - 1
  /\ Seqs = 0 .. SeqMax /\ Seqs \in SUBSET Nat /\ IsFiniteSet(Seqs)
  /\ BitSize \in Nat \ {0} /\ NackMaxSize \in Nat \ {0}
<1>1. /\ SeqMod \in Nat \ {0} /\ SeqMax \in Nat /\ SeqMax = SeqMod - 1
      /\ Seqs = 0 .. SeqMax /\ Seqs \in SUBSET Nat
      /\ BitSize \in Nat \ {0} /\ NackMaxSize \in Nat \ {0}
  BY NackAssumption DEF SeqMax, Seqs
<1>2. IsFiniteSet(0 .. SeqMax)
  BY <1>1, FS_Interval
<1>3. QED
  BY <1>1, <1>2

(* What a number that is j ahead is. *)
LEMMA Wrapping ==
  ASSUME NEW m \in Nat \ {0}, NEW a \in 0 .. m - 1, NEW j \in 0 .. m - 1
  PROVE  (a + j) % m = IF a + j < m THEN a + j ELSE a + j - m
<1>1. CASE a + j < m
  BY <1>1
<1>2. CASE ~(a + j < m)
  BY <1>2
<1>3. QED
  BY <1>1, <1>2

(* What follows the last number, and what follows by nothing. *)
LEMMA WrappingAtEnd ==
  ASSUME NEW m \in Nat \ {0}
  PROVE  /\ \A j \in 1 .. m - 1 : ((m - 1) + j) % m = j - 1
         /\ \A a \in 0 .. m - 1 : (a + 0) % m = a
<1>1. ASSUME NEW j \in 1 .. m - 1 PROVE ((m - 1) + j) % m = j - 1
  <2>1. (m - 1) + j = m + (j - 1) /\ j - 1 \in 0 .. m - 1
    OBVIOUS
  <2>2. QED
    BY <2>1
<1>2. ASSUME NEW a \in 0 .. m - 1 PROVE (a + 0) % m = a
  OBVIOUS
<1>3. QED
  BY <1>1, <1>2

(* The distance of a number that is j ahead is j. *)
LEMMA Turned ==
  ASSUME NEW m \in Nat \ {0}, NEW a \in 0 .. m - 1, NEW j \in 0 .. m - 1
  PROVE  /\ (a + j) % m \in 0 .. m - 1
         /\ (((a + j) % m) - a) % m = j
<1>1. CASE a + j < m
  <2>1. (a + j) % m = a + j
    BY <1>1
  <2>2. j % m = j
    OBVIOUS
  <2>3. QED
    BY <2>1, <2>2, <1>1
<1>2. CASE ~(a + j < m)
  <2>1. (a + j) % m = a + j - m
    BY <1>2
  <2>2. (j - m) % m = j
    OBVIOUS
  <2>3. (a + j - m) - a = j - m
    OBVIOUS
  <2>4. QED
    BY <2>1, <2>2, <2>3, <1>2
<1>3. QED
  BY <1>1, <1>2

(* Steps ahead add up. *)
LEMMA TurnedTwice ==
  ASSUME NEW m \in Nat \ {0}, NEW a \in 0 .. m - 1, NEW j \in Nat, NEW k \in Nat, j + k < m
  PROVE  (((a + j) % m) + k) % m = (a + (j + k)) % m
<1>1. CASE a + j < m
  <2>1. (a + j) % m = a + j
    BY <1>1
  <2>2. (a + j) + k = a + (j + k)
    OBVIOUS
  <2>3. QED
    BY <2>1, <2>2
<1>2. CASE ~(a + j < m)
  <2>1. (a + j) % m = a + j - m
    BY <1>2
  <2>2. (a + j - m + k) % m = a + j - m + k
    BY <1>2
  <2>3. (a + (j + k)) % m = a + (j + k) - m
    BY <1>2
  <2>4. QED
    BY <2>1, <2>2, <2>3
<1>3. QED
  BY <1>1, <1>2

(* How far it is to the end after j steps towards it. *)
LEMMA Rest ==
  ASSUME NEW m \in Nat \ {0}, NEW a \in 0 .. m - 1, NEW end \in 0 .. m - 1,
         NEW j \in 0 .. (end - a) % m, (a + j) % m # end
  PROVE  /\ (end - a) % m \in 0 .. m - 1
         /\ (end - (((a + j) % m) + 1)) % m = ((end - a) % m) - j - 1
         /\ j + 1 <= (end - a) % m
<1>1. (end - a) % m \in 0 .. m - 1
  OBVIOUS
<1>2. CASE end >= a
  <2>1. (end - a) % m = end - a
    BY <1>2
  <2>2. (a + j) % m = a + j
    BY <1>2, <2>1
  <2>3. j < end - a
    BY <2>1, <2>2
  <2>4. (end - (a + j + 1)) % m = end - (a + j + 1)
    BY <2>3
  <2>5. QED
    BY <1>1, <2>1, <2>2, <2>3, <2>4
<1>3. CASE ~(end >= a)
  <2>1. (end - a) % m = end - a + m
    BY <1>3
  <2>2. CASE a + j < m
    <3>1. (a + j) % m = a + j
      BY <2>2
    <3>2. (end - (a + j + 1)) % m = end - (a + j + 1) + m
      BY <1>3, <2>1, <2>2
    <3>3. QED
      BY <1>1, <1>3, <2>1, <2>2, <3>1, <3>2
  <2>3. CASE ~(a + j < m)
    <3>1. (a + j) % m = a + j - m
      BY <2>1, <2>3, <1>3
    <3>2. a + j - m < end
      BY <2>1, <3>1
    <3>3. (end - (a + j - m + 1)) % m = end - (a + j - m + 1)
      BY <2>3, <3>2
    <3>4. QED
      BY <1>1, <2>1, <3>1, <3>2, <3>3
  <2>4. QED
    BY <2>2, <2>3
<1>4. QED
  BY <1>2, <1>3

-----------------------------------------------------------------------------
(* Types of the operators                                                  *)

Statuses ==
  {f \in UNION {[D -> NackStatus] : D \in SUBSET Seqs} : Cardinality(DOMAIN f) <= NackMaxSize}

Contexts == [started : BOOLEAN, seq : SUBSET Seqs, nackSeq : Seqs,
             rtt : RttMin .. RttMax, status : Statuses]

Results == [ctx : Contexts, asks : SUBSET Seqs]

(* What the limits of requests are. *)
LEMMA Limits ==
  /\ RttMin \in Nat /\ RttMax \in Nat /\ RttMin <= RttMax /\ NackMaxMS \in Nat
  /\ NackMaxCount \in Nat /\ NackMaxCount > 1
  BY NackAssumption

(* A function on few numbers that gives statuses. *)
LEMMA StatusesIntro ==
  ASSUME NEW D \in SUBSET Seqs, NEW f \in [D -> NackStatus], Cardinality(D) <= NackMaxSize
  PROVE  f \in Statuses
  BY DEF Statuses

(* And what such a function is known to be. *)
LEMMA StatusesElim ==
  ASSUME NEW f \in Statuses
  PROVE  /\ DOMAIN f \in SUBSET Seqs /\ f \in [DOMAIN f -> NackStatus]
         /\ Cardinality(DOMAIN f) <= NackMaxSize
         /\ IsFiniteSet(DOMAIN f) /\ Cardinality(DOMAIN f) \in Nat
<1>1. /\ DOMAIN f \in SUBSET Seqs /\ f \in [DOMAIN f -> NackStatus]
      /\ Cardinality(DOMAIN f) <= NackMaxSize
  BY DEF Statuses
<1>2. IsFiniteSet(DOMAIN f)
  BY <1>1, Numbers, FS_Subset
<1>3. QED
  BY <1>1, <1>2, FS_CardinalityType

(* Statuses of a part of the packets. *)
LEMMA PartType ==
  ASSUME NEW f \in Statuses, NEW D \in SUBSET DOMAIN f, NEW g \in [D -> NackStatus]
  PROVE  g \in Statuses
<1>1. D \in SUBSET Seqs
  BY StatusesElim
<1>2. Cardinality(D) \in Nat /\ Cardinality(D) <= Cardinality(DOMAIN f)
  BY StatusesElim, FS_Subset, FS_CardinalityType
<1>3. Cardinality(D) <= NackMaxSize
  BY <1>2, StatusesElim, Numbers
<1>4. QED
  BY <1>1, <1>3, StatusesIntro

(* Record keeps the largest numbers, and not too many of them. *)
LEMMA RecordType ==
  ASSUME NEW status \in Statuses, NEW asked \in SUBSET Seqs
  PROVE  Record(status, asked) \in Statuses
<1> DEFINE all  == DOMAIN status \union asked
           from(s) == {t \in all : t >= s}
           kept == {s \in all : Cardinality(from(s)) <= NackMaxSize}
           fresh == [age |-> 0, idle |-> 0, count |-> 1]
<1>1. all \in SUBSET Seqs /\ all \in SUBSET Nat
  BY StatusesElim, Numbers
<1>2. Record(status, asked) = [s \in kept |-> IF s \in asked THEN fresh ELSE status[s]]
  BY DEF Record
<1>3. fresh \in NackStatus
  BY Limits DEF NackStatus
<1>4. ASSUME NEW s \in kept PROVE (IF s \in asked THEN fresh ELSE status[s]) \in NackStatus
  BY <1>3, StatusesElim
<1>5. Cardinality(kept) <= NackMaxSize
  <2>1. CASE kept = {}
    <3>1. Cardinality({}) = 0
      BY FS_EmptySet
    <3> HIDE DEF kept
    <3>2. QED
      BY <2>1, <3>1, Numbers
  <2>2. CASE kept # {}
    <3>1. kept \in SUBSET Nat
      BY <1>1
    <3>2. PICK least \in kept : \A s \in kept : least <= s
      BY <2>2, <3>1, LeastElement
    <3>3. kept \subseteq from(least)
      BY <1>1, <3>2
    <3>4. IsFiniteSet(from(least))
      BY <1>1, Numbers, FS_Subset
    <3>5. Cardinality(kept) \in Nat /\ Cardinality(from(least)) \in Nat
          /\ Cardinality(kept) <= Cardinality(from(least))
      BY <3>3, <3>4, FS_Subset, FS_CardinalityType
    <3>6. Cardinality(from(least)) <= NackMaxSize
      BY <3>2
    <3>7. QED
      BY <3>5, <3>6, Numbers
  <2>3. QED
    BY <2>1, <2>2
<1> HIDE DEF fresh
<1>6. kept \in SUBSET Seqs
  BY <1>1
<1> HIDE DEF kept
<1>7. [s \in kept |-> IF s \in asked THEN fresh ELSE status[s]] \in [kept -> NackStatus]
  BY <1>4
<1>8. QED
  BY <1>2, <1>5, <1>6, <1>7, StatusesIntro

(* clearNackStatus keeps the rtt in its range. *)
LEMMA ClearType ==
  ASSUME NEW n \in Contexts, NEW s \in Seqs
  PROVE  /\ ClearNackStatus(n, s) \in Contexts
         /\ ClearNackStatus(n, s).nackSeq = n.nackSeq
<1>1. CASE s \notin DOMAIN n.status
  BY <1>1 DEF ClearNackStatus
<1>2. CASE s \in DOMAIN n.status
  <2> DEFINE age  == n.status[s].age
             low  == IF age > RttMax THEN RttMax ELSE age
             rtt  == IF low < RttMin THEN RttMin ELSE low
             rest == [t \in DOMAIN n.status \ {s} |-> n.status[t]]
  <2>1. n.status \in Statuses
    BY DEF Contexts
  <2>2. age \in Nat
    BY <1>2, <2>1, StatusesElim, Limits DEF NackStatus
  <2>3. rtt \in RttMin .. RttMax
    BY <2>2, Limits
  <2>4. rest \in [DOMAIN n.status \ {s} -> NackStatus]
    BY <2>1, StatusesElim
  <2>5. rest \in Statuses
    BY <2>1, <2>4, PartType
  <2>6. ClearNackStatus(n, s) = [n EXCEPT !.status = rest, !.rtt = rtt]
    BY <1>2 DEF ClearNackStatus
  <2> HIDE DEF rest, rtt
  <2>7. QED
    BY <2>3, <2>5, <2>6 DEF Contexts
<1>3. QED
  BY <1>1, <1>2

(* eraseFrontSeq steps to the last of the numbers received in a row. *)
LEMMA EraseFrontProperty ==
  ASSUME NEW n \in Contexts
  PROVE  /\ EraseFrontSeq(n) \in Contexts
         /\ \/ EraseFrontSeq(n) = n
            \/ \E gap \in 1 .. SeqMod :
                 LET next == (n.nackSeq + 1) % SeqMod
                 IN  /\ next < gap /\ next .. (gap - 1) \subseteq n.seq
                     /\ \A s \in n.seq : next <= s
                     /\ EraseFrontSeq(n).nackSeq = gap - 1
                     /\ EraseFrontSeq(n).seq = n.seq \ (next .. (gap - 1))
                     /\ EraseFrontSeq(n).status = n.status
                     /\ EraseFrontSeq(n).started = n.started
<1> DEFINE next == (n.nackSeq + 1) % SeqMod
           IsGap(k) == k \notin n.seq /\ next .. (k - 1) \subseteq n.seq
           gap  == CHOOSE k \in next .. SeqMod : IsGap(k)
<1>1. CASE n.seq = {} \/ next # Smallest(n.seq)
  BY <1>1 DEF EraseFrontSeq
<1>2. CASE ~(n.seq = {} \/ next # Smallest(n.seq))
  <2>1. n.seq \in SUBSET Seqs /\ n.nackSeq \in Seqs
    BY DEF Contexts
  <2>2. n.seq \in SUBSET Nat /\ n.seq # {} /\ next \in 0 .. SeqMod - 1
    BY <1>2, <2>1, Numbers
  <2>3. next \in n.seq /\ \A s \in n.seq : next <= s
    <3>1. \E s \in n.seq : \A t \in n.seq : s <= t
      BY <2>2, LeastElement
    <3>2. Smallest(n.seq) \in n.seq /\ \A t \in n.seq : Smallest(n.seq) <= t
      BY <3>1 DEF Smallest
    <3>3. QED
      BY <1>2, <3>2
  <2>4. gap \in next .. SeqMod /\ IsGap(gap)
    <3> DEFINE T == {k \in next .. SeqMod : k \notin n.seq}
    <3>1. T \in SUBSET Nat /\ SeqMod \in T
      BY <2>1, <2>2, Numbers
    <3> HIDE DEF next
    <3>2. PICK k \in T : \A y \in T : k <= y
      <4>1. T # {}
        BY <3>1
      <4> HIDE DEF T
      <4>2. QED
        BY <3>1, <4>1, LeastElement
    <3>3. next .. (k - 1) \subseteq n.seq
      BY <2>2, <3>1, <3>2, Numbers
    <3>4. \E j \in next .. SeqMod : IsGap(j)
      BY <3>2, <3>3
    <3> HIDE DEF IsGap
    <3>5. QED
      BY <3>4
  <2>5. EraseFrontSeq(n) = [n EXCEPT !.nackSeq = gap - 1, !.seq = n.seq \ (next .. gap - 1)]
    BY <1>2 DEF EraseFrontSeq
  <2> HIDE DEF gap, next
  <2>6. gap # next
    BY <2>3, <2>4
  <2>7. gap \in 1 .. SeqMod /\ next < gap /\ gap - 1 \in Seqs
    BY <2>2, <2>4, <2>6, Numbers
  <2>8. EraseFrontSeq(n) \in Contexts
    BY <2>1, <2>5, <2>7 DEF Contexts
  <2>9. /\ EraseFrontSeq(n).nackSeq = gap - 1
        /\ EraseFrontSeq(n).seq = n.seq \ (next .. (gap - 1))
        /\ EraseFrontSeq(n).status = n.status /\ EraseFrontSeq(n).started = n.started
    BY <2>1, <2>5 DEF Contexts
  <2>10. QED
    BY <2>3, <2>4, <2>7, <2>8, <2>9 DEF next
<1>3. QED
  BY <1>1, <1>2

-----------------------------------------------------------------------------
(* What makeNack has done after some turns: it has got a places ahead, not *)
(* past the end, and each number on the way was received or asked for.     *)
Passed(n, r, a) ==
  \A k \in 1 .. a : (n.nackSeq + k) % SeqMod \in n.seq \union r.asks

Reached(n, max) ==
  {r \in Results :
     /\ r.ctx.seq \subseteq n.seq
     /\ \E a \in 0 .. (max - n.nackSeq) % SeqMod :
          r.ctx.nackSeq = (n.nackSeq + a) % SeqMod /\ Passed(n, r, a)}

(* The end is not below what was received, and not where makeNack begins   *)
(* when it would begin with stepping over number 0.                        *)
EndsAt(n, max) ==
  /\ max \in Seqs /\ \A s \in n.seq : s <= max
  /\ n.nackSeq = SeqMax /\ max = SeqMax => 0 \notin n.seq

(* The first turn is eraseFrontSeq: it passes over received numbers only. *)
LEMMA FirstTurn ==
  ASSUME NEW n \in Contexts, NEW max, EndsAt(n, max)
  PROVE  Result(EraseFrontSeq(n), {}) \in Reached(n, max)
<1> DEFINE e == EraseFrontSeq(n)
           r == Result(e, {})
<1>1. /\ n.nackSeq \in 0 .. SeqMod - 1 /\ max \in 0 .. SeqMod - 1
      /\ n.seq \in SUBSET (0 .. SeqMod - 1) /\ SeqMod \in Nat \ {0}
  BY Numbers DEF Contexts, EndsAt
<1>2. e \in Contexts
  BY EraseFrontProperty
<1>3. r \in Results /\ r.ctx = e /\ r.asks = {}
  BY <1>2 DEF Result, Results
<1>4. (max - n.nackSeq) % SeqMod \in 0 .. SeqMod - 1
  BY <1>1
<1>5. CASE e = n
  <2>1. (n.nackSeq + 0) % SeqMod = n.nackSeq
    BY <1>1
  <2>2. 0 \in 0 .. (max - n.nackSeq) % SeqMod /\ Passed(n, r, 0)
    BY <1>4 DEF Passed
  <2> HIDE DEF r, e
  <2>3. r.ctx.seq \subseteq n.seq /\ r.ctx.nackSeq = (n.nackSeq + 0) % SeqMod
    BY <1>3, <1>5, <2>1
  <2>4. r \in Reached(n, max)
    BY <1>3, <2>2, <2>3 DEF Reached
  <2>5. QED
    BY <2>4 DEF r, e
<1>6. ASSUME NEW gap \in 1 .. SeqMod,
             (n.nackSeq + 1) % SeqMod < gap,
             (n.nackSeq + 1) % SeqMod .. (gap - 1) \subseteq n.seq,
             e.nackSeq = gap - 1, e.seq \subseteq n.seq
      PROVE  r \in Reached(n, max)
  <2> DEFINE next == (n.nackSeq + 1) % SeqMod
             a == gap - next
  <2>1. next \in 0 .. SeqMod - 1 /\ gap - 1 \in n.seq /\ next \in n.seq
    BY <1>1, <1>6
  <2>2. gap - 1 <= max
    BY <2>1 DEF EndsAt
  <2>3. /\ a \in 0 .. (max - n.nackSeq) % SeqMod /\ a >= 1
        /\ \A k \in 1 .. a : (n.nackSeq + k) % SeqMod = next + (k - 1)
    <3>1. a \in 1 .. SeqMod
      BY <1>1, <1>6, <2>1
    <3>2. CASE n.nackSeq = SeqMod - 1
      <4>1. next = 0
        BY <1>1, <3>2
      <4>2. max # SeqMod - 1
        BY <1>1, <2>1, <3>2, <4>1 DEF EndsAt, SeqMax
      <4>3. (max - n.nackSeq) % SeqMod = max + 1
        BY <1>1, <3>2, <4>2
      <4>4. a <= max + 1 /\ max + 1 < SeqMod
        BY <1>1, <2>2, <4>1, <4>2
      <4>5. ASSUME NEW k \in 1 .. a PROVE (n.nackSeq + k) % SeqMod = k - 1
        <5>1. k \in Int /\ 1 <= k /\ k < SeqMod
          BY <1>1, <3>1, <4>4
        <5>2. ((SeqMod - 1) + k) % SeqMod = k - 1
          BY <1>1, <5>1
        <5>3. QED
          BY <3>2, <5>2
      <4> HIDE DEF a, next
      <4>6. QED
        BY <1>1, <3>1, <4>1, <4>3, <4>4, <4>5
    <3>3. CASE n.nackSeq # SeqMod - 1
      <4>1. next = n.nackSeq + 1
        BY <1>1, <3>3
      <4>2. n.nackSeq <= max
        BY <1>1, <1>6, <2>2, <4>1
      <4>3. (max - n.nackSeq) % SeqMod = max - n.nackSeq
        BY <1>1, <4>2
      <4>4. a <= max - n.nackSeq
        BY <1>1, <2>2, <4>1
      <4>5. ASSUME NEW k \in 1 .. a PROVE (n.nackSeq + k) % SeqMod = n.nackSeq + 1 + (k - 1)
        <5>1. k \in Int /\ 1 <= k /\ n.nackSeq + k < SeqMod
          BY <1>1, <3>1, <4>4
        <5>2. QED
          BY <1>1, <5>1
      <4> HIDE DEF a, next
      <4>6. QED
        BY <1>1, <3>1, <4>1, <4>3, <4>4, <4>5
    <3>4. QED
      BY <3>2, <3>3
  <2>4. (n.nackSeq + a) % SeqMod = gap - 1
    BY <2>1, <2>3, <1>6
  <2>5. Passed(n, r, a)
    <3>1. ASSUME NEW k \in 1 .. a PROVE next + (k - 1) \in n.seq
      BY <1>6, <2>1
    <3>2. QED
      BY <2>3, <3>1 DEF Passed
  <2> HIDE DEF a, r, e
  <2>8. QED
    BY <1>3, <1>6, <2>3, <2>4, <2>5 DEF Reached
<1>7. QED
  BY <1>5, <1>6, EraseFrontProperty

(* One FCI: it goes no farther than the end, and asks for what it passes.  *)
LEMMA TurnKeeps ==
  ASSUME NEW n \in Contexts, NEW max \in Seqs, NEW flush, NEW r \in Reached(n, max)
  PROVE  MakeNackTurn(r, max, flush) \in Reached(n, max)
<1> DEFINE at    == r.ctx.nackSeq
           count == FciCount(r.ctx, max)
           asked == FciNack(r.ctx, max)
           upTo  == (at + count + 1) % SeqMod
           far   == (max - n.nackSeq) % SeqMod
           ctx   == [r.ctx EXCEPT !.status  = Record(r.ctx.status, asked),
                                  !.nackSeq = upTo,
                                  !.seq     = {s \in r.ctx.seq : s > upTo}]
           res   == Result(ctx, r.asks \union asked)
<1>1. /\ SeqMod \in Nat \ {0} /\ max \in 0 .. SeqMod - 1
      /\ n.nackSeq \in 0 .. SeqMod - 1 /\ Seqs = 0 .. SeqMod - 1 /\ BitSize \in Nat \ {0}
  BY Numbers DEF Contexts
<1>2. /\ r \in Results /\ r.ctx \in Contexts /\ r.asks \in SUBSET Seqs
      /\ r.ctx.seq \subseteq n.seq /\ at \in 0 .. SeqMod - 1
  BY <1>1 DEF Reached, Results, Contexts
<1>3. PICK a \in 0 .. far : at = (n.nackSeq + a) % SeqMod /\ Passed(n, r, a)
  BY DEF Reached
<1>4. CASE at = max \/ (~flush /\ count < NackRtpSize)
  BY <1>4 DEF MakeNackTurn
<1>5. CASE ~(at = max \/ (~flush /\ count < NackRtpSize))
  <2>1. MakeNackTurn(r, max, flush) = res
    BY <1>5 DEF MakeNackTurn
  <2>2. /\ far \in 0 .. SeqMod - 1 /\ a + 1 <= far
        /\ (max - (at + 1)) % SeqMod = far - a - 1
    <3>1. (n.nackSeq + a) % SeqMod # max
      BY <1>3, <1>5
    <3>2. /\ (max - n.nackSeq) % SeqMod \in 0 .. SeqMod - 1
          /\ (max - (((n.nackSeq + a) % SeqMod) + 1)) % SeqMod = ((max - n.nackSeq) % SeqMod) - a - 1
          /\ a + 1 <= (max - n.nackSeq) % SeqMod
      BY <1>1, <3>1, Rest
    <3> HIDE DEF at
    <3>3. QED
      BY <1>3, <3>2
  <2>3. count \in Nat /\ count <= far - a - 1
    <3> HIDE DEF far
    <3>1. count = IF far - a - 1 < BitSize THEN far - a - 1 ELSE BitSize
      BY <2>2 DEF FciCount
    <3>2. QED
      BY <1>1, <1>3, <2>2, <3>1
  <2>4. upTo \in Seqs
    BY <1>1, <1>2, <2>3
  <2>5. asked \in SUBSET Seqs
    <3>1. ASSUME NEW i \in Nat PROVE (at + i + 1) % SeqMod \in Seqs
      BY <1>1, <1>2
    <3>2. (at + 1) % SeqMod \in Seqs
      BY <1>1, <1>2
    <3> HIDE DEF at, count
    <3>3. \A i \in 1 .. count : (at + i + 1) % SeqMod \in Seqs
      BY <2>3, <3>1
    <3>4. QED
      BY <3>2, <3>3 DEF FciNack, at, count
  <2> DEFINE status == Record(r.ctx.status, asked)
             seq    == {s \in r.ctx.seq : s > upTo}
  <2>6. status \in Statuses
    <3>1. r.ctx.status \in Statuses
      BY <1>2 DEF Contexts
    <3> HIDE DEF asked
    <3>2. QED
      BY <2>5, <3>1, RecordType
  <2>7. ctx \in Contexts /\ ctx.nackSeq = upTo /\ ctx.seq = seq
    <3>1. seq \in SUBSET Seqs
      BY <1>2 DEF Contexts
    <3>2. ctx = [r.ctx EXCEPT !.status = status, !.nackSeq = upTo, !.seq = seq]
      OBVIOUS
    <3> HIDE DEF ctx, status, upTo, seq
    <3>3. QED
      BY <1>2, <2>4, <2>6, <3>1, <3>2 DEF Contexts
  <2> HIDE DEF ctx
  <2>8. res \in Results /\ res.ctx = ctx /\ res.asks = r.asks \union asked
    <3> HIDE DEF asked
    <3>1. QED
      BY <1>2, <2>5, <2>7 DEF Result, Results
  <2> DEFINE b == a + (count + 1)
  <2>9. b \in 0 .. far /\ b < SeqMod /\ a \in Nat
    <3> HIDE DEF count, far
    <3>1. QED
      BY <1>1, <1>3, <2>2, <2>3
  <2>10. upTo = (n.nackSeq + b) % SeqMod
    <3>1. (((n.nackSeq + a) % SeqMod) + (count + 1)) % SeqMod = (n.nackSeq + (a + (count + 1))) % SeqMod
      <4> HIDE DEF count, far
      <4>1. count + 1 \in Nat /\ a + (count + 1) < SeqMod
        BY <2>3, <2>9
      <4>2. QED
        BY <1>1, <2>9, <4>1, TurnedTwice
    <3>2. at + count + 1 = at + (count + 1)
      <4> HIDE DEF count, at
      <4>1. QED
        BY <1>1, <1>2, <2>3
    <3> HIDE DEF count, far
    <3>3. QED
      BY <1>3, <3>1, <3>2
  <2>11. Passed(n, res, b)
    <3>1. SUFFICES ASSUME NEW k \in 1 .. b
                   PROVE  (n.nackSeq + k) % SeqMod \in n.seq \union res.asks
      BY DEF Passed
    <3>2. CASE k <= a
      <4> HIDE DEF count, far, asked, res
      <4>1. k \in 1 .. a
        BY <2>3, <2>9, <3>2
      <4>2. QED
        BY <1>3, <2>8, <4>1 DEF Passed
    <3>3. CASE ~(k <= a)
      <4>1. PICK i \in 0 .. count : k = a + (i + 1)
        <5> HIDE DEF count, far
        <5>1. k - a - 1 \in 0 .. count /\ k = a + ((k - a - 1) + 1)
          BY <2>3, <2>9, <3>3
        <5>2. QED
          BY <5>1
      <4>2. (n.nackSeq + k) % SeqMod = (at + (i + 1)) % SeqMod
        <5> HIDE DEF count, far
        <5>1. i + 1 \in Nat /\ a + (i + 1) < SeqMod
          BY <1>1, <2>3, <2>9, <4>1
        <5>2. (((n.nackSeq + a) % SeqMod) + (i + 1)) % SeqMod = (n.nackSeq + (a + (i + 1))) % SeqMod
          BY <1>1, <2>9, <5>1, TurnedTwice
        <5> HIDE DEF at
        <5>3. QED
          BY <1>3, <4>1, <5>2
      <4>3. (at + (i + 1)) % SeqMod \in r.ctx.seq \union asked
        <5>1. CASE i = 0
          BY <1>2, <5>1 DEF FciNack
        <5>2. CASE i # 0
          <6>1. i \in 1 .. count /\ at + i + 1 = at + (i + 1)
            <7> HIDE DEF count, at
            <7>1. QED
              BY <1>1, <1>2, <2>3, <5>2
          <6>2. QED
            BY <6>1 DEF FciNack
        <5>3. QED
          BY <5>1, <5>2
      <4> HIDE DEF asked, res, at
      <4>4. QED
        BY <1>2, <2>8, <4>2, <4>3
    <3>4. QED
      BY <3>2, <3>3
  <2>12. res.ctx.seq \subseteq n.seq /\ res.ctx.nackSeq = (n.nackSeq + b) % SeqMod
    <3> HIDE DEF res
    <3>1. QED
      BY <1>2, <2>7, <2>8, <2>10
  <2> HIDE DEF res, b, far
  <2>13. QED
    BY <2>1, <2>8, <2>9, <2>11, <2>12 DEF Reached, far
<1>6. QED
  BY <1>4, <1>5

(* makeNack: all it advances over was received, or is asked for. *)
LEMMA MakeNackProperty ==
  ASSUME NEW n \in Contexts, NEW max, NEW flush, EndsAt(n, max)
  PROVE  /\ MakeNack(n, max, flush) \in Results
         /\ LET r == MakeNack(n, max, flush)
            IN  \A k \in 1 .. (r.ctx.nackSeq - n.nackSeq) % SeqMod :
                  (n.nackSeq + k) % SeqMod \in n.seq \union r.asks
<1> DEFINE r == MakeNack(n, max, flush)
<1>1. r \in Reached(n, max)
  <2>1. Result(EraseFrontSeq(n), {}) \in Reached(n, max)
    BY FirstTurn
  <2>2. \A x \in Reached(n, max) : MakeNackTurn(x, max, flush) \in Reached(n, max)
    BY TurnKeeps DEF EndsAt
  <2>3. QED
    BY <2>1, <2>2, LoopRule
<1>2. PICK a \in 0 .. (max - n.nackSeq) % SeqMod :
        r.ctx.nackSeq = (n.nackSeq + a) % SeqMod /\ Passed(n, r, a)
  BY <1>1 DEF Reached
<1>3. /\ SeqMod \in Nat \ {0} /\ n.nackSeq \in 0 .. SeqMod - 1 /\ max \in 0 .. SeqMod - 1
  BY Numbers DEF Contexts, EndsAt
<1>4. a \in 0 .. SeqMod - 1
  BY <1>3
<1>5. (r.ctx.nackSeq - n.nackSeq) % SeqMod = a
  <2>1. (((n.nackSeq + a) % SeqMod) - n.nackSeq) % SeqMod = a
    BY <1>3, <1>4, Turned
  <2> HIDE DEF r
  <2>2. QED
    BY <1>2, <2>1
<1>6. QED
  BY <1>1, <1>2, <1>5 DEF Reached, Passed

-----------------------------------------------------------------------------
(* received                                                                *)

(* Nothing is passed over from one position to another. *)
SkipsNothing(from, to, known) ==
  \A k \in 1 .. (to - from) % SeqMod : (from + k) % SeqMod \in known

(* Nothing is skipped where nackSeq stays. *)
LEMMA StandingStill ==
  ASSUME NEW at \in Seqs, NEW known
  PROVE  SkipsNothing(at, at, known)
<1>1. (at - at) % SeqMod = 0
  BY Numbers
<1>2. QED
  BY <1>1 DEF SkipsNothing

(* The smallest and the largest of the numbers received. *)
LEMMA Ends ==
  ASSUME NEW seq \in SUBSET Seqs, seq # {}
  PROVE  /\ Smallest(seq) \in seq /\ Largest(seq) \in seq
         /\ \A s \in seq : Smallest(seq) <= s /\ s <= Largest(seq)
<1>1. seq \in SUBSET Nat /\ seq \in SUBSET (0 .. SeqMax) /\ SeqMax \in Nat
  BY Numbers
<1>2. \E s \in seq : \A t \in seq : s <= t
  BY <1>1, LeastElement
<1>3. \E s \in seq : \A t \in seq : t <= s
  BY <1>1, LargestElement
<1>4. Smallest(seq) \in seq /\ \A t \in seq : Smallest(seq) <= t
  BY <1>2 DEF Smallest
<1>5. Largest(seq) \in seq /\ \A t \in seq : t <= Largest(seq)
  BY <1>3 DEF Largest
<1>6. QED
  BY <1>4, <1>5

(* As many numbers as there are between two ends are all between them. *)
LEMMA NoneMissing ==
  ASSUME NEW min \in Nat, NEW max \in Nat, NEW seq \in SUBSET (min .. max),
         min <= max, Cardinality(seq) = max - min + 1
  PROVE  seq = min .. max
<1>1. IsFiniteSet(min .. max) /\ Cardinality(min .. max) = max - min + 1
  BY FS_Interval
<1>2. QED
  BY <1>1, FS_Subset

(* All that is received comes in a row from nackSeq on. *)
LEMMA RowSkipsNothing ==
  ASSUME NEW at \in Seqs, NEW min \in Seqs, NEW max \in Seqs, min <= max,
         min = (at + 1) % SeqMod, max - min <= SeqMax \div 2
  PROVE  SkipsNothing(at, max, min .. max)
<1>1. /\ SeqMod \in Nat \ {0} /\ SeqMax = SeqMod - 1 /\ at \in 0 .. SeqMod - 1
      /\ min \in 0 .. SeqMod - 1 /\ max \in 0 .. SeqMod - 1
  BY Numbers
<1>2. CASE at = SeqMod - 1
  <2>1. min = 0
    BY <1>1, <1>2
  <2>2. CASE max = SeqMod - 1
    <3>1. (max - at) % SeqMod = 0
      BY <1>1, <1>2, <2>2
    <3>2. QED
      BY <3>1 DEF SkipsNothing
  <2>3. CASE max # SeqMod - 1
    <3>1. (max - at) % SeqMod = max + 1
      BY <1>1, <1>2, <2>3
    <3>2. ASSUME NEW k \in 1 .. max + 1 PROVE (at + k) % SeqMod = k - 1
      <4>1. ((SeqMod - 1) + k) % SeqMod = k - 1
        BY <1>1, <2>3
      <4>2. QED
        BY <1>2, <4>1
    <3>3. QED
      BY <1>1, <2>1, <3>1, <3>2 DEF SkipsNothing
  <2>4. QED
    BY <2>2, <2>3
<1>3. CASE at # SeqMod - 1
  <2>1. min = at + 1
    BY <1>1, <1>3
  <2>2. (max - at) % SeqMod = max - at
    BY <1>1, <2>1
  <2>3. ASSUME NEW k \in 1 .. max - at PROVE (at + k) % SeqMod = at + k
    BY <1>1
  <2>4. QED
    BY <1>1, <2>1, <2>2, <2>3 DEF SkipsNothing
<1>4. QED
  BY <1>2, <1>3

(* Where makeNack may end after a number that is new.                       *)
LEMMA NewEndsAt ==
  ASSUME NEW n \in Contexts, NEW s \in Seqs,
         LET seq == n.seq \union {s}
             max == Largest(seq)
             min == Smallest(seq)
         IN  /\ ~(max - min > SeqMax \div 2)
             /\ ~(min = (n.nackSeq + 1) % SeqMod /\ Cardinality(seq) = max - min + 1)
  PROVE  EndsAt([n EXCEPT !.seq = n.seq \union {s}], Largest(n.seq \union {s}))
<1> DEFINE seq  == n.seq \union {s}
           max  == Largest(seq)
           min  == Smallest(seq)
           m    == [n EXCEPT !.seq = seq]
<1>1. n.nackSeq \in Seqs /\ seq \in SUBSET Seqs /\ seq # {}
  BY DEF Contexts
<1>2. /\ min \in seq /\ max \in seq /\ min \in Seqs /\ max \in Seqs
      /\ \A t \in seq : min <= t /\ t <= max
  <2> HIDE DEF seq
  <2>1. QED
    BY <1>1, Ends
<1>3. m.seq = seq /\ m.nackSeq = n.nackSeq
  BY DEF Contexts
<1>4. SUFFICES ASSUME n.nackSeq = SeqMax, max = SeqMax, 0 \in seq PROVE FALSE
  BY <1>2, <1>3 DEF EndsAt
<1> HIDE DEF seq, max, min
<1>5. min = 0
  BY <1>2, <1>4, Numbers
<1>6. /\ ~(max - min > SeqMax \div 2)
      /\ ~(min = (n.nackSeq + 1) % SeqMod /\ Cardinality(seq) = max - min + 1)
  BY DEF seq, max, min
<1>7. SeqMax = 0
  BY <1>4, <1>5, <1>6, Numbers
<1>8. seq = {0}
  <2>1. ASSUME NEW t \in seq PROVE t = 0
    <3>1. t \in 0 .. SeqMax
      BY <1>1, Numbers
    <3>2. QED
      BY <1>7, <3>1
  <2>2. QED
    BY <1>4, <2>1
<1>9. Cardinality(seq) = 1
  BY <1>8, FS_Singleton
<1>10. (n.nackSeq + 1) % SeqMod = 0
  BY <1>4, <1>7, Numbers
<1>11. QED
  BY <1>4, <1>5, <1>6, <1>7, <1>9, <1>10

(* A number that is new: put aside, taken with all that is in a row, or    *)
(* followed by makeNack.                                                   *)
LEMMA ReceiveNewProperty ==
  ASSUME NEW n \in Contexts, NEW s \in Seqs
  PROVE  LET r == ReceiveNew(n, s)
         IN  r \in Results /\ SkipsNothing(n.nackSeq, r.ctx.nackSeq, n.seq \union {s} \union r.asks)
<1> DEFINE seq  == n.seq \union {s}
           max  == Largest(seq)
           min  == Smallest(seq)
           m    == [n EXCEPT !.seq = seq]
           r    == ReceiveNew(n, s)
<1>1. n.nackSeq \in Seqs /\ seq \in SUBSET Seqs /\ seq # {}
  BY DEF Contexts
<1>2. /\ min \in seq /\ max \in seq /\ min \in Seqs /\ max \in Seqs
      /\ \A t \in seq : min <= t /\ t <= max
  <2> HIDE DEF seq
  <2>1. QED
    BY <1>1, Ends
<1>3. CASE max - min > SeqMax \div 2
  <2>1. r = Result([n EXCEPT !.seq = seq \ {max}], {})
    BY <1>3 DEF ReceiveNew
  <2> HIDE DEF seq, max, r
  <2>2. r \in Results /\ r.ctx.nackSeq = n.nackSeq
    BY <1>1, <2>1 DEF Results, Result, Contexts
  <2>3. QED
    BY <1>1, <2>2, StandingStill DEF seq, r
<1>4. CASE /\ ~(max - min > SeqMax \div 2)
           /\ min = (n.nackSeq + 1) % SeqMod /\ Cardinality(seq) = max - min + 1
  <2>1. r = Result([n EXCEPT !.seq = {}, !.nackSeq = max], {})
    BY <1>4 DEF ReceiveNew
  <2> HIDE DEF r, min, max, seq
  <2>2. r \in Results /\ r.ctx.nackSeq = max
    BY <1>2, <2>1 DEF Results, Result, Contexts
  <2>3. min \in Nat /\ max \in Nat /\ min <= max /\ seq \in SUBSET (min .. max)
    BY <1>1, <1>2, Numbers
  <2>4. seq = min .. max
    BY <1>4, <2>3, NoneMissing
  <2>5. max - min <= SeqMax \div 2
    BY <1>4, <2>3, Numbers
  <2>6. SkipsNothing(n.nackSeq, max, seq)
    BY <1>1, <1>2, <1>4, <2>3, <2>4, <2>5, RowSkipsNothing
  <2>7. QED
    BY <2>2, <2>6 DEF SkipsNothing, seq, r
<1>5. CASE /\ ~(max - min > SeqMax \div 2)
           /\ ~(min = (n.nackSeq + 1) % SeqMod /\ Cardinality(seq) = max - min + 1)
  <2>1. r = MakeNack(m, max, FALSE)
    BY <1>5 DEF ReceiveNew
  <2>2. m \in Contexts /\ m.seq = seq /\ m.nackSeq = n.nackSeq
    BY <1>1 DEF Contexts
  <2>3. EndsAt(m, max)
    BY <1>5, NewEndsAt
  <2> HIDE DEF m, max
  <2>4. /\ r \in Results
        /\ \A k \in 1 .. (r.ctx.nackSeq - m.nackSeq) % SeqMod :
             (m.nackSeq + k) % SeqMod \in m.seq \union r.asks
    BY <2>1, <2>2, <2>3, MakeNackProperty
  <2> HIDE DEF r
  <2>5. QED
    BY <2>2, <2>4 DEF SkipsNothing, seq, r
<1>6. QED
  BY <1>3, <1>4, <1>5

(* What received does from a context that has started. *)
LEMMA ReceivedProperty ==
  ASSUME NEW ctx \in Contexts, NEW s \in Seqs, NEW isRtx \in BOOLEAN
  PROVE  LET r == Received(ctx, s, isRtx)
         IN  /\ r \in Results
             /\ ctx.started => SkipsNothing(ctx.nackSeq, r.ctx.nackSeq,
                                            ctx.seq \union {s} \union r.asks)
<1> DEFINE n == IF ctx.started THEN ctx
                ELSE [ctx EXCEPT !.started = TRUE, !.nackSeq = (s - 1) % SeqMod]
           flushed == MakeNack(n, SeqMax, TRUE)
           r == Received(ctx, s, isRtx)
           Fine(x) == x \in Results /\ SkipsNothing(n.nackSeq, x.ctx.nackSeq,
                                                    n.seq \union {s} \union x.asks)
<1>1. n \in Contexts
  <2>1. (s - 1) % SeqMod \in Seqs
    BY Numbers
  <2>2. QED
    BY <2>1 DEF Contexts
<1>2. n.nackSeq \in Seqs /\ n.seq \in SUBSET Seqs
  BY <1>1 DEF Contexts
<1> HIDE DEF n
<1>3. CASE Wrapped(n, s)
  <2> DEFINE x == [flushed EXCEPT !.ctx.seq = flushed.ctx.seq \union {s}]
  <2>1. r = x
    BY <1>3 DEF Received, n
  <2>2. EndsAt(n, SeqMax)
    BY <1>2, <1>3, Numbers DEF EndsAt, Wrapped
  <2>3. /\ flushed \in Results
        /\ \A k \in 1 .. (flushed.ctx.nackSeq - n.nackSeq) % SeqMod :
             (n.nackSeq + k) % SeqMod \in n.seq \union flushed.asks
    BY <1>1, <2>2, MakeNackProperty
  <2> HIDE DEF flushed
  <2>4. x \in Results /\ x.ctx.nackSeq = flushed.ctx.nackSeq /\ x.asks = flushed.asks
    BY <2>3 DEF Results, Contexts
  <2> HIDE DEF x, r
  <2>5. Fine(r)
    BY <2>1, <2>3, <2>4 DEF SkipsNothing
  <2>6. QED
    BY <2>5 DEF n, r
<1>4. CASE ~Wrapped(n, s) /\ Recovered(n, s, isRtx)
  <2>1. r = Result(ClearNackStatus(n, s), {})
    BY <1>4 DEF Received, n
  <2>2. ClearNackStatus(n, s) \in Contexts /\ ClearNackStatus(n, s).nackSeq = n.nackSeq
    BY <1>1, ClearType
  <2> HIDE DEF r
  <2>3. r \in Results /\ r.ctx.nackSeq = n.nackSeq
    BY <2>1, <2>2 DEF Result, Results
  <2>4. Fine(r)
    BY <1>2, <2>3, StandingStill
  <2>5. QED
    BY <2>4 DEF n, r
<1>5. CASE ~Wrapped(n, s) /\ ~Recovered(n, s, isRtx) /\ s \in n.seq
  <2>1. r = Result(n, {})
    BY <1>5 DEF Received, n
  <2> HIDE DEF r
  <2>2. r \in Results /\ r.ctx.nackSeq = n.nackSeq
    BY <1>1, <2>1 DEF Result, Results
  <2>3. Fine(r)
    BY <1>2, <2>2, StandingStill
  <2>4. QED
    BY <2>3 DEF n, r
<1>6. CASE ~Wrapped(n, s) /\ ~Recovered(n, s, isRtx) /\ s \notin n.seq
  <2>1. r = ReceiveNew(n, s)
    BY <1>6 DEF Received, n
  <2> HIDE DEF r
  <2>2. Fine(r)
    BY <1>1, <2>1, ReceiveNewProperty
  <2>3. QED
    BY <2>2 DEF n, r
<1>7. QED
  BY <1>3, <1>4, <1>5, <1>6

-----------------------------------------------------------------------------
(* reSendNack and time                                                     *)

(* A status with other parts is a record of the same kind. *)
LEMMA StatusParts ==
  ASSUME NEW A, NEW B, NEW C, NEW st \in [age : A, idle : B, count : C],
         NEW a \in A, NEW i \in B, NEW c \in C
  PROVE  /\ [st EXCEPT !.idle = i, !.count = c] \in [age : A, idle : B, count : C]
         /\ [st EXCEPT !.age = a, !.idle = i] \in [age : A, idle : B, count : C]
  OBVIOUS

(* reSendNack keeps the types. *)
LEMMA ReSendType ==
  ASSUME NEW n \in Contexts
  PROVE  ReSendNack(n) \in Results
<1> DEFINE alive == {s \in DOMAIN n.status : n.status[s].age <= NackMaxMS}
           due   == {s \in alive : n.status[s].idle >= n.rtt}
           spent == {s \in due : n.status[s].count + 1 = NackMaxCount}
           again(st) == [st EXCEPT !.idle = 0, !.count = st.count + 1]
           left  == [s \in alive \ spent |-> IF s \in due THEN again(n.status[s]) ELSE n.status[s]]
<1>1. n.status \in Statuses /\ \A s \in DOMAIN n.status : n.status[s] \in NackStatus
  BY StatusesElim DEF Contexts
<1>2. ASSUME NEW st \in NackStatus, st.count + 1 # NackMaxCount PROVE again(st) \in NackStatus
  <2>1. st.count \in 1 .. NackMaxCount - 1 /\ st.age \in 0 .. NackMaxMS + 1
    BY DEF NackStatus
  <2>2. st.count + 1 \in 1 .. NackMaxCount - 1 /\ 0 \in 0 .. RttMax
    BY <1>2, <2>1, Limits
  <2>3. QED
    BY <2>2, StatusParts DEF NackStatus
<1>3. ASSUME NEW s \in alive \ spent
      PROVE  (IF s \in due THEN again(n.status[s]) ELSE n.status[s]) \in NackStatus
  <2>1. n.status[s] \in NackStatus
    BY <1>1
  <2>2. CASE s \in due
    <3>1. n.status[s].count + 1 # NackMaxCount
      BY <1>3, <2>2
    <3>2. QED
      BY <1>2, <2>1, <2>2, <3>1
  <2>3. QED
    BY <2>1, <2>2
<1>4. left \in Statuses
  <2>1. alive \ spent \in SUBSET DOMAIN n.status
    OBVIOUS
  <2>2. left \in [alive \ spent -> NackStatus]
    BY <1>3
  <2> HIDE DEF alive, spent, left
  <2>3. QED
    BY <1>1, <2>1, <2>2, PartType
<1>5. due \in SUBSET Seqs
  BY <1>1, StatusesElim
<1>6. ReSendNack(n) = Result([n EXCEPT !.status = left], due)
  BY DEF ReSendNack
<1> HIDE DEF left, due
<1>7. QED
  BY <1>4, <1>5, <1>6 DEF Result, Results, Contexts

(* So does time. *)
LEMMA OlderType ==
  ASSUME NEW n \in Contexts
  PROVE  Older(n) \in Contexts
<1> DEFINE up(x, bound) == IF x < bound THEN x + 1 ELSE bound
           grown(st) == [st EXCEPT !.age = up(st.age, NackMaxMS + 1), !.idle = up(st.idle, RttMax)]
           old == [s \in DOMAIN n.status |-> grown(n.status[s])]
<1>1. n.status \in Statuses /\ \A s \in DOMAIN n.status : n.status[s] \in NackStatus
  BY StatusesElim DEF Contexts
<1>2. ASSUME NEW st \in NackStatus PROVE grown(st) \in NackStatus
  <2>1. /\ st.age \in 0 .. NackMaxMS + 1 /\ st.idle \in 0 .. RttMax
        /\ st.count \in 1 .. NackMaxCount - 1
    BY DEF NackStatus
  <2>2. up(st.age, NackMaxMS + 1) \in 0 .. NackMaxMS + 1
    BY <2>1, Limits
  <2>3. up(st.idle, RttMax) \in 0 .. RttMax
    BY <2>1, Limits
  <2> HIDE DEF up
  <2>4. QED
    BY <2>2, <2>3, StatusParts DEF NackStatus
<1>3. old \in [DOMAIN n.status -> NackStatus]
  <2> HIDE DEF grown
  <2>1. QED
    BY <1>1, <1>2
<1>4. Older(n) = [n EXCEPT !.status = old]
  BY DEF Older
<1> HIDE DEF old
<1>5. old \in Statuses
  BY <1>1, <1>3, PartType
<1>6. QED
  BY <1>4, <1>5 DEF Contexts

-----------------------------------------------------------------------------
(* How far the NACK state goes: with h packets sent after nackSeq it has   *)
(* received none but these, and asks for none but these.                   *)
After(at, i, j) == {(at + k) % SeqMod : k \in i .. j}

(* Where makeNack may end: the numbers do not wrap between nackSeq and     *)
(* there, and 0 comes after the largest.                                   *)
Straight(n, max) == n.nackSeq <= max \/ (n.nackSeq = SeqMax /\ SeqMax \notin n.seq)

(* What a call has done by then: it is a places farther, what it has       *)
(* received is not behind it, and it asked for what was sent.              *)
Within(n, h, r, a) ==
  /\ r.ctx.nackSeq = (n.nackSeq + a) % SeqMod
  /\ r.ctx.seq \subseteq After(n.nackSeq, a, h)
  /\ r.asks \subseteq After(n.nackSeq, 1, h)
  /\ DOMAIN r.ctx.status \subseteq DOMAIN n.status \union r.asks
  /\ r.ctx.started = n.started

Advanced(n, max, h) ==
  {r \in Reached(n, max) : \E a \in 0 .. (max - n.nackSeq) % SeqMod : Within(n, h, r, a)}

(* Requests that are recorded are old ones or the ones just made.          *)
LEMMA RecordDomain ==
  ASSUME NEW status, NEW asked
  PROVE  DOMAIN Record(status, asked) \subseteq DOMAIN status \union asked
  BY DEF Record

(* eraseFrontSeq: what it steps over is not kept.                          *)
LEMMA FirstTurnWithin ==
  ASSUME NEW n \in Contexts, NEW max, EndsAt(n, max), Straight(n, max), NEW h \in Nat,
         n.seq \subseteq After(n.nackSeq, 0, h)
  PROVE  Result(EraseFrontSeq(n), {}) \in Advanced(n, max, h)
<1> DEFINE e == EraseFrontSeq(n)
           r == Result(e, {})
           at == n.nackSeq
           next == (at + 1) % SeqMod
<1>1. /\ at \in 0 .. SeqMod - 1 /\ max \in 0 .. SeqMod - 1
      /\ n.seq \in SUBSET (0 .. SeqMod - 1) /\ SeqMod \in Nat \ {0} /\ SeqMax = SeqMod - 1
  BY Numbers DEF Contexts, EndsAt
<1>2. r \in Reached(n, max) /\ r.ctx = e /\ r.asks = {}
  BY FirstTurn DEF Result
<1>3. CASE e = n
  <2>1. (at + 0) % SeqMod = at /\ 0 \in 0 .. (max - at) % SeqMod
    BY <1>1
  <2> HIDE DEF r, e
  <2>2. Within(n, h, r, 0)
    BY <1>2, <1>3, <2>1 DEF Within
  <2>3. QED
    BY <1>2, <2>1, <2>2 DEF Advanced, r, e
<1>4. ASSUME NEW gap \in 1 .. SeqMod, next < gap,
             next .. (gap - 1) \subseteq n.seq, \A s \in n.seq : next <= s,
             e.nackSeq = gap - 1, e.seq = n.seq \ (next .. (gap - 1)),
             e.status = n.status, e.started = n.started
      PROVE  r \in Advanced(n, max, h)
  <2> DEFINE a == gap - next
  <2>1. next \in 0 .. SeqMod - 1 /\ gap - 1 <= max /\ next \in n.seq
    BY <1>1, <1>4 DEF EndsAt
  <2>2. CASE at = SeqMax
    <3>1. next = 0 /\ a = gap
      BY <1>1, <2>2
    <3>2. max # SeqMax
      BY <1>1, <2>1, <2>2, <3>1 DEF EndsAt
    <3>3. (max - at) % SeqMod = max + 1
      BY <1>1, <2>2, <3>2
    <3>4. at \notin n.seq
      BY <1>1, <2>2, <3>2 DEF Straight
    <3>5. a \in 1 .. max + 1 /\ a < SeqMod
      BY <1>1, <1>4, <2>1, <3>1, <3>2
    <3>6. (at + a) % SeqMod = gap - 1
      <4>1. ((SeqMod - 1) + gap) % SeqMod = gap - 1
        <5>1. gap \in 1 .. SeqMod - 1
          BY <1>1, <3>1, <3>5
        <5>2. QED
          BY <1>1, <5>1, WrappingAtEnd
      <4>2. QED
        BY <1>1, <2>2, <3>1, <4>1
    <3>7. e.seq \subseteq After(at, a, h)
      <4>1. ASSUME NEW s \in e.seq PROVE s \in After(at, a, h)
        <5>1. s \in n.seq /\ s \in 0 .. SeqMod - 1 /\ s >= gap
          BY <1>1, <1>4, <3>1, <4>1
        <5>2. PICK i \in 0 .. h : s = (at + i) % SeqMod
          BY <5>1 DEF After
        <5>3. i >= a
          <6>1. i # 0
            BY <1>1, <3>4, <5>1, <5>2
          <6>2. i < SeqMod => (SeqMod - 1 + i) % SeqMod = i - 1
            BY <1>1, <5>2, <6>1
          <6>3. QED
            BY <1>1, <2>2, <3>1, <3>5, <5>1, <5>2, <6>2
        <5>4. QED
          BY <1>4, <3>1, <5>2, <5>3 DEF After
      <4>2. QED
        BY <4>1
    <3> HIDE DEF a, r, e, next
    <3>8. Within(n, h, r, a) /\ a \in 0 .. (max - at) % SeqMod
      BY <1>2, <1>4, <3>3, <3>5, <3>6, <3>7 DEF Within
    <3>9. QED
      BY <1>2, <3>8 DEF Advanced
  <2>3. CASE at # SeqMax
    <3>1. next = at + 1
      BY <1>1, <2>3
    <3>2. (max - at) % SeqMod = max - at /\ at <= max
      BY <1>1, <1>4, <2>1, <3>1
    <3>3. a \in 1 .. max - at
      BY <1>1, <1>4, <2>1, <3>1
    <3>4. (at + a) % SeqMod = gap - 1
      BY <1>1, <1>4, <2>1, <3>1
    <3>5. e.seq \subseteq After(at, a, h)
      <4>1. ASSUME NEW s \in e.seq PROVE s \in After(at, a, h)
        <5>1. s \in n.seq /\ s \in 0 .. SeqMod - 1 /\ s >= gap
          BY <1>1, <1>4, <3>1, <4>1
        <5>2. PICK i \in 0 .. h : s = (at + i) % SeqMod
          BY <5>1 DEF After
        <5>3. i >= a
          <6>1. at + i < SeqMod => (at + i) % SeqMod = at + i
            BY <1>1, <5>2
          <6>2. QED
            BY <1>1, <1>4, <3>1, <3>3, <5>1, <5>2, <6>1
        <5>4. QED
          BY <1>1, <1>4, <3>1, <5>2, <5>3 DEF After
      <4>2. QED
        BY <4>1
    <3> HIDE DEF a, r, e, next
    <3>6. Within(n, h, r, a) /\ a \in 0 .. (max - at) % SeqMod
      BY <1>1, <1>2, <1>4, <3>2, <3>3, <3>4, <3>5 DEF Within
    <3>7. QED
      BY <1>2, <3>6 DEF Advanced
  <2>4. QED
    BY <2>2, <2>3
<1>5. QED
  BY <1>3, <1>4, EraseFrontProperty

(* One FCI: it forgets what it steps over, and asks up to the end only.    *)
LEMMA TurnWithin ==
  ASSUME NEW n \in Contexts, NEW max \in Seqs, NEW flush, Straight(n, max),
         NEW h \in Nat, (max - n.nackSeq) % SeqMod <= h,
         NEW r \in Advanced(n, max, h)
  PROVE  MakeNackTurn(r, max, flush) \in Advanced(n, max, h)
<1> DEFINE from  == n.nackSeq
           at    == r.ctx.nackSeq
           count == FciCount(r.ctx, max)
           asked == FciNack(r.ctx, max)
           upTo  == (at + count + 1) % SeqMod
           far   == (max - from) % SeqMod
           left  == {s \in r.ctx.seq : s > upTo}
           ctx   == [r.ctx EXCEPT !.status  = Record(r.ctx.status, asked),
                                  !.nackSeq = upTo,
                                  !.seq     = left]
           res   == Result(ctx, r.asks \union asked)
<1>1. /\ SeqMod \in Nat \ {0} /\ max \in 0 .. SeqMod - 1 /\ SeqMax = SeqMod - 1
      /\ from \in 0 .. SeqMod - 1 /\ Seqs = 0 .. SeqMod - 1 /\ BitSize \in Nat \ {0}
  BY Numbers DEF Contexts
<1>2. r \in Reached(n, max) /\ r \in Results /\ r.ctx \in Contexts /\ r.ctx.seq \subseteq n.seq
      /\ at \in 0 .. SeqMod - 1 /\ r.ctx.seq \in SUBSET Seqs
  BY <1>1 DEF Advanced, Reached, Results, Contexts
<1>3. PICK a \in 0 .. far : Within(n, h, r, a)
  BY DEF Advanced
<1>4. CASE at = max \/ (~flush /\ count < NackRtpSize)
  BY <1>4 DEF MakeNackTurn
<1>5. CASE ~(at = max \/ (~flush /\ count < NackRtpSize))
  <2>1. MakeNackTurn(r, max, flush) = res
    BY <1>5 DEF MakeNackTurn
  <2>2. at = (from + a) % SeqMod
    BY <1>3 DEF Within
  <2>3. /\ far \in 0 .. SeqMod - 1 /\ a + 1 <= far
        /\ (max - (at + 1)) % SeqMod = far - a - 1
    <3>1. (from + a) % SeqMod # max
      BY <2>2, <1>5
    <3>2. /\ (max - from) % SeqMod \in 0 .. SeqMod - 1
          /\ (max - (((from + a) % SeqMod) + 1)) % SeqMod = ((max - from) % SeqMod) - a - 1
          /\ a + 1 <= (max - from) % SeqMod
      BY <1>1, <3>1, Rest
    <3> HIDE DEF at
    <3>3. QED
      BY <2>2, <3>2
  <2>4. count \in Nat /\ count <= far - a - 1
    <3> HIDE DEF far
    <3>1. count = IF far - a - 1 < BitSize THEN far - a - 1 ELSE BitSize
      BY <2>3 DEF FciCount
    <3>2. QED
      BY <1>1, <1>3, <2>3, <3>1
  <2> HIDE DEF far
  <2>5. ASSUME NEW i \in 0 .. count
        PROVE  /\ (at + i + 1) % SeqMod = (from + (a + i + 1)) % SeqMod
               /\ a + i + 1 \in 1 .. h
    <3> HIDE DEF count
    <3>1. a \in Nat /\ i + 1 \in Nat /\ a + (i + 1) < SeqMod /\ a + i + 1 = a + (i + 1)
      BY <1>1, <1>3, <2>3, <2>4
    <3>2. (((from + a) % SeqMod) + (i + 1)) % SeqMod = (from + (a + (i + 1))) % SeqMod
      BY <1>1, <3>1, TurnedTwice
    <3>3. a + i + 1 \in 1 .. h
      BY <1>1, <1>3, <2>3, <2>4 DEF far
    <3>4. at + i + 1 = at + (i + 1)
      BY <1>2
    <3> HIDE DEF at
    <3>5. QED
      BY <2>2, <3>1, <3>2, <3>3, <3>4
  <2>6. asked \subseteq After(from, 1, h)
    <3>1. ASSUME NEW i \in 0 .. count PROVE (at + i + 1) % SeqMod \in After(from, 1, h)
      BY <2>5 DEF After
    <3>2. (at + 1) % SeqMod \in After(from, 1, h)
      <4>1. 0 \in 0 .. count /\ at + 0 + 1 = at + 1
        BY <1>2, <2>4
      <4> HIDE DEF at, count
      <4>2. QED
        BY <3>1, <4>1
    <3>3. 1 .. count \subseteq 0 .. count
      BY <2>4
    <3> HIDE DEF at, count
    <3>4. QED
      BY <3>1, <3>2, <3>3 DEF FciNack, at, count
  <2> DEFINE b == a + count + 1
  <2>7. b \in 1 .. far /\ b <= SeqMod - 1 /\ upTo = (from + b) % SeqMod /\ a < b
    <3>1. count \in 0 .. count
      BY <2>4
    <3>2. upTo = (from + b) % SeqMod
      BY <2>5, <3>1
    <3> HIDE DEF count, upTo
    <3>3. QED
      BY <1>1, <1>3, <2>3, <2>4, <3>2
  <2> HIDE DEF b, upTo, asked, count
  <2>8. left \subseteq After(from, b, h)
    <3>1. ASSUME NEW s \in left PROVE s \in After(from, b, h)
      <4>1. s \in r.ctx.seq /\ s > upTo /\ s \in n.seq /\ s \in 0 .. SeqMod - 1
        BY <1>1, <1>2, <3>1
      <4>2. PICK i \in a .. h : s = (from + i) % SeqMod
        BY <1>3, <4>1 DEF Within, After
      <4>3. ASSUME i < b PROVE FALSE
        <5>1. CASE from <= max
          <6>1. far = max - from
            BY <1>1, <5>1 DEF far
          <6>2. i \in 0 .. SeqMod - 1 /\ b \in 0 .. SeqMod - 1 /\ from + b < SeqMod
            <7> HIDE DEF from
            <7>1. far \in 0 .. SeqMod - 1 /\ a \in Nat /\ i \in Nat
              BY <1>3, <2>3, <4>2
            <7>2. QED
              BY <1>1, <2>7, <4>3, <6>1, <7>1
          <6>3. (from + i) % SeqMod = from + i /\ (from + b) % SeqMod = from + b
            <7> HIDE DEF from
            <7>1. from + i < SeqMod
              BY <1>1, <4>3, <6>2
            <7>2. QED
              BY <1>1, <6>2, <7>1, Wrapping
          <6>4. s = from + i /\ upTo = from + b
            BY <2>7, <4>2, <6>3
          <6>5. QED
            <7> HIDE DEF from
            <7>1. QED
              BY <1>1, <4>1, <4>3, <6>2, <6>4
        <5>2. CASE from = SeqMax /\ SeqMax \notin n.seq
          <6>1. i # 0
            BY <1>1, <4>1, <4>2, <5>2
          <6>2. i \in 1 .. SeqMod - 1 /\ b \in 1 .. SeqMod - 1
            BY <1>1, <1>3, <2>7, <4>2, <4>3, <6>1
          <6>3. /\ ((SeqMod - 1) + i) % SeqMod = i - 1
                /\ ((SeqMod - 1) + b) % SeqMod = b - 1
            BY <1>1, <6>2, WrappingAtEnd
          <6>4. s = i - 1 /\ upTo = b - 1
            BY <1>1, <2>7, <4>2, <5>2, <6>3
          <6>5. QED
            BY <4>1, <4>3, <6>2, <6>4
        <5>3. QED
          BY <5>1, <5>2 DEF Straight
      <4>4. i \in b .. h
        BY <1>1, <1>3, <2>7, <4>2, <4>3
      <4>5. QED
        BY <4>2, <4>4 DEF After
    <3>2. QED
      BY <3>1
  <2> HIDE DEF left
  <2>9. /\ ctx.nackSeq = upTo /\ ctx.seq = left /\ ctx.started = n.started
        /\ ctx.status = Record(r.ctx.status, asked)
    BY <1>2, <1>3 DEF Contexts, Within
  <2> HIDE DEF ctx
  <2>10. res.ctx = ctx /\ res.asks = r.asks \union asked
    BY DEF Result
  <2>11. res.asks \subseteq After(from, 1, h)
    BY <1>3, <2>6, <2>10 DEF Within
  <2>12. DOMAIN res.ctx.status \subseteq DOMAIN n.status \union res.asks
    BY <1>3, <2>9, <2>10, RecordDomain DEF Within
  <2> HIDE DEF res, at
  <2>13. Within(n, h, res, b)
    BY <2>7, <2>8, <2>9, <2>10, <2>11, <2>12 DEF Within
  <2>14. res \in Reached(n, max)
    BY <1>2, <2>1, TurnKeeps
  <2>15. b \in 0 .. far
    BY <2>3, <2>7
  <2>16. QED
    BY <2>1, <2>13, <2>14, <2>15 DEF Advanced, far
<1>6. QED
  BY <1>4, <1>5

(* So does the whole loop. *)
LEMMA MakeNackWithin ==
  ASSUME NEW n \in Contexts, NEW max, NEW flush, EndsAt(n, max), Straight(n, max),
         NEW h \in Nat, (max - n.nackSeq) % SeqMod <= h,
         n.seq \subseteq After(n.nackSeq, 0, h)
  PROVE  /\ MakeNack(n, max, flush) \in Results
         /\ \E a \in 0 .. (max - n.nackSeq) % SeqMod : Within(n, h, MakeNack(n, max, flush), a)
<1>1. Result(EraseFrontSeq(n), {}) \in Advanced(n, max, h)
  BY FirstTurnWithin
<1>2. \A x \in Advanced(n, max, h) : MakeNackTurn(x, max, flush) \in Advanced(n, max, h)
  BY TurnWithin DEF EndsAt
<1>3. MakeNack(n, max, flush) \in Advanced(n, max, h)
  BY <1>1, <1>2, LoopRule
<1>4. QED
  BY <1>3 DEF Advanced, Reached

(* A number that is new, and not from before a wrap.                       *)
LEMMA ReceiveNewWithin ==
  ASSUME NEW n \in Contexts, NEW s \in Seqs, NEW h \in 0 .. SeqMod - 1,
         n.seq \union {s} \subseteq After(n.nackSeq, 0, h),
         n.nackSeq = SeqMax \/ \A t \in n.seq \union {s} : n.nackSeq <= t
  PROVE  \E a \in 0 .. h : Within(n, h, ReceiveNew(n, s), a)
<1> DEFINE seq  == n.seq \union {s}
           max  == Largest(seq)
           min  == Smallest(seq)
           m    == [n EXCEPT !.seq = seq]
           r    == ReceiveNew(n, s)
           at   == n.nackSeq
<1>1. /\ at \in Seqs /\ seq \in SUBSET Seqs /\ seq # {} /\ at \in 0 .. SeqMod - 1
      /\ SeqMod \in Nat \ {0} /\ Seqs = 0 .. SeqMod - 1 /\ SeqMax = SeqMod - 1
  BY Numbers DEF Contexts
<1>2. /\ min \in seq /\ max \in seq /\ min \in Seqs /\ max \in Seqs
      /\ \A t \in seq : min <= t /\ t <= max
  <2> HIDE DEF seq
  <2>1. QED
    BY <1>1, Ends
<1>3. seq \subseteq After(at, 0, h)
  OBVIOUS
<1>4. PICK i \in 0 .. h : max = (at + i) % SeqMod
  BY <1>2, <1>3 DEF After
<1>5. (at + 0) % SeqMod = at /\ 0 \in 0 .. h
  <2>1. (at + 0) % SeqMod = at
    BY <1>1, WrappingAtEnd
  <2>2. 0 \in 0 .. h
    OBVIOUS
  <2>3. QED
    BY <2>1, <2>2
<1>6. CASE max - min > SeqMax \div 2
  <2>1. r = Result([n EXCEPT !.seq = seq \ {max}], {})
    BY <1>6 DEF ReceiveNew
  <2> HIDE DEF seq, max, r
  <2>2. /\ r.ctx.nackSeq = at /\ r.ctx.seq \subseteq seq /\ r.asks = {}
        /\ r.ctx.status = n.status /\ r.ctx.started = n.started
    BY <1>1, <2>1 DEF Result, Contexts
  <2>3. Within(n, h, r, 0)
    BY <1>3, <1>5, <2>2 DEF Within
  <2>4. QED
    BY <1>5, <2>3 DEF r
<1>7. CASE /\ ~(max - min > SeqMax \div 2)
           /\ min = (n.nackSeq + 1) % SeqMod /\ Cardinality(seq) = max - min + 1
  <2>1. r = Result([n EXCEPT !.seq = {}, !.nackSeq = max], {})
    BY <1>7 DEF ReceiveNew
  <2> HIDE DEF r, min, max, seq
  <2>2. /\ r.ctx.nackSeq = max /\ r.ctx.seq = {} /\ r.asks = {}
        /\ r.ctx.status = n.status /\ r.ctx.started = n.started
    BY <1>1, <2>1 DEF Result, Contexts
  <2>3. Within(n, h, r, i)
    BY <1>4, <2>2 DEF Within
  <2>4. QED
    BY <2>3 DEF r
<1>8. CASE /\ ~(max - min > SeqMax \div 2)
           /\ ~(min = (n.nackSeq + 1) % SeqMod /\ Cardinality(seq) = max - min + 1)
  <2>1. r = MakeNack(m, max, FALSE)
    BY <1>8 DEF ReceiveNew
  <2>2. /\ m \in Contexts /\ m.seq = seq /\ m.nackSeq = at
        /\ m.status = n.status /\ m.started = n.started
    BY <1>1 DEF Contexts
  <2>3. EndsAt(m, max)
    <3>1. SUFFICES ASSUME at = SeqMax, max = SeqMax, 0 \in seq PROVE FALSE
      BY <1>2, <2>2 DEF EndsAt
    <3> HIDE DEF seq, max, min
    <3>2. min = 0
      BY <1>1, <1>2, <3>1
    <3>3. SeqMax = 0
      BY <1>1, <1>8, <3>1, <3>2
    <3>4. seq = {0}
      <4>1. ASSUME NEW t \in seq PROVE t = 0
        BY <1>1, <3>3, <4>1
      <4>2. QED
        BY <3>1, <4>1
    <3>5. Cardinality(seq) = 1
      BY <3>4, FS_Singleton
    <3>6. (at + 1) % SeqMod = 0
      BY <1>1, <3>1, <3>3
    <3>7. QED
      BY <1>8, <3>1, <3>2, <3>3, <3>5, <3>6
  <2>4. Straight(m, max)
    <3> HIDE DEF seq, max, min, m
    <3>1. CASE at = SeqMax
      <4>1. SeqMax \in seq => SeqMax <= max
        BY <1>2
      <4>2. QED
        BY <2>2, <3>1, <4>1 DEF Straight
    <3>2. CASE at # SeqMax
      <4>1. at <= max
        BY <1>2, <3>2 DEF seq
      <4>2. QED
        BY <2>2, <4>1 DEF Straight
    <3>3. QED
      BY <3>1, <3>2
  <2>5. (max - at) % SeqMod = i
    <3>1. (((at + i) % SeqMod) - at) % SeqMod = i
      <4>1. i \in 0 .. SeqMod - 1
        BY <1>1
      <4> HIDE DEF max
      <4>2. QED
        BY <1>1, <4>1, Turned
    <3> HIDE DEF max
    <3>2. QED
      BY <1>4, <3>1
  <2> HIDE DEF m, max, seq, min
  <2>6. PICK a \in 0 .. i : Within(m, h, r, a)
    <3>1. i <= h /\ h \in Nat
      BY <1>1
    <3>2. (max - m.nackSeq) % SeqMod = i
      BY <2>2, <2>5
    <3> HIDE DEF r
    <3>3. QED
      BY <1>3, <2>1, <2>2, <2>3, <2>4, <3>1, <3>2, MakeNackWithin
  <2>7. Within(n, h, r, a)
    BY <2>2, <2>6 DEF Within
  <2>8. a \in 0 .. h
    BY <1>1
  <2>9. QED
    BY <2>7, <2>8
<1>9. QED
  BY <1>6, <1>7, <1>8

(* A retransmission only clears its request.                               *)
LEMMA ClearDomain ==
  ASSUME NEW n \in Contexts, NEW s
  PROVE  /\ ClearNackStatus(n, s).nackSeq = n.nackSeq /\ ClearNackStatus(n, s).seq = n.seq
         /\ ClearNackStatus(n, s).started = n.started
         /\ DOMAIN ClearNackStatus(n, s).status \subseteq DOMAIN n.status
<1>1. CASE s \notin DOMAIN n.status
  BY <1>1 DEF ClearNackStatus
<1>2. CASE s \in DOMAIN n.status
  <2> DEFINE age  == n.status[s].age
             low  == IF age > RttMax THEN RttMax ELSE age
             rtt  == IF low < RttMin THEN RttMin ELSE low
             rest == [t \in DOMAIN n.status \ {s} |-> n.status[t]]
  <2>1. ClearNackStatus(n, s) = [n EXCEPT !.status = rest, !.rtt = rtt]
    BY <1>2 DEF ClearNackStatus
  <2>2. DOMAIN rest \subseteq DOMAIN n.status
    OBVIOUS
  <2> HIDE DEF rest, rtt
  <2>3. QED
    BY <2>1, <2>2 DEF Contexts
<1>3. QED
  BY <1>1, <1>2

(* Where received begins: the first packet follows nackSeq.                *)
Begun(ctx, s) ==
  IF ctx.started THEN ctx ELSE [ctx EXCEPT !.started = TRUE, !.nackSeq = (s - 1) % SeqMod]

(* received stays within what was sent, if the packet is the newest one,   *)
(* or a retransmission that is taken for a wrap only when it comes after.  *)
LEMMA ReceivedWithin ==
  ASSUME NEW ctx \in Contexts, NEW s \in Seqs, NEW isRtx \in BOOLEAN, NEW h \in 0 .. SeqMod - 1,
         Begun(ctx, s).seq \subseteq After(Begun(ctx, s).nackSeq, 0, h),
         Wrapped(Begun(ctx, s), s) => s \in After(Begun(ctx, s).nackSeq, 0, h),
         ~isRtx => s = (Begun(ctx, s).nackSeq + h) % SeqMod
  PROVE  \E a \in 0 .. h : Within(Begun(ctx, s), h, Received(ctx, s, isRtx), a)
<1> DEFINE n == Begun(ctx, s)
           flushed == MakeNack(n, SeqMax, TRUE)
           r == Received(ctx, s, isRtx)
           at == n.nackSeq
<1>1. n \in Contexts
  <2>1. (s - 1) % SeqMod \in Seqs
    BY Numbers
  <2>2. QED
    BY <2>1 DEF Contexts, Begun
<1>2. /\ at \in 0 .. SeqMod - 1 /\ n.seq \in SUBSET Seqs /\ s \in 0 .. SeqMod - 1
      /\ SeqMod \in Nat \ {0} /\ Seqs = 0 .. SeqMod - 1 /\ SeqMax = SeqMod - 1 /\ h \in Nat
  BY <1>1, Numbers DEF Contexts
<1>3. (at + 0) % SeqMod = at /\ 0 \in 0 .. h
  BY <1>2
<1> HIDE DEF n
<1>4. CASE Wrapped(n, s)
  <2> DEFINE x == [flushed EXCEPT !.ctx.seq = flushed.ctx.seq \union {s}]
  <2>1. r = x
    BY <1>4 DEF Received, n, Begun
  <2>2. s < at /\ at < SeqMax
    BY <1>2, <1>4 DEF Wrapped
  <2>3. EndsAt(n, SeqMax) /\ Straight(n, SeqMax)
    BY <1>2, <2>2 DEF EndsAt, Straight
  <2>4. PICK p \in 0 .. h : s = (at + p) % SeqMod
    BY <1>4 DEF After, n
  <2>5. (SeqMax - at) % SeqMod = SeqMax - at /\ SeqMax - at < p
    <3>1. p \in 0 .. SeqMod - 1
      BY <1>2, <2>4
    <3>2. s = IF at + p < SeqMod THEN at + p ELSE at + p - SeqMod
      BY <1>2, <2>4, <3>1, Wrapping
    <3>3. at + p >= SeqMod
      BY <1>2, <2>2, <3>1, <3>2
    <3> DEFINE rest == SeqMax - at
    <3>4. rest \in 0 .. SeqMod - 1 /\ rest < p
      BY <1>2, <2>2, <3>1, <3>3
    <3> HIDE DEF rest
    <3>5. rest % SeqMod = rest
      BY <1>2, <3>4
    <3>6. QED
      BY <3>4, <3>5 DEF rest
  <2>6. (SeqMax - at) % SeqMod <= h
    BY <1>2, <2>5
  <2>7. PICK a \in 0 .. (SeqMax - at) % SeqMod : Within(n, h, flushed, a)
    <3>1. n.seq \subseteq After(n.nackSeq, 0, h)
      BY DEF n
    <3>2. QED
      BY <1>1, <1>2, <2>3, <2>6, <3>1, MakeNackWithin
  <2>8. flushed \in Results
    <3>1. n.seq \subseteq After(n.nackSeq, 0, h)
      BY DEF n
    <3>2. QED
      BY <1>1, <1>2, <2>3, <2>6, <3>1, MakeNackWithin
  <2>9. a \in 0 .. h /\ p \in a .. h
    BY <1>2, <2>5, <2>6
  <2>10. s \in After(at, a, h)
    BY <2>4, <2>9 DEF After
  <2> HIDE DEF flushed, at
  <2>11. /\ x.ctx.nackSeq = flushed.ctx.nackSeq /\ x.ctx.seq = flushed.ctx.seq \union {s}
         /\ x.ctx.status = flushed.ctx.status /\ x.asks = flushed.asks
         /\ x.ctx.started = flushed.ctx.started
    BY <2>8 DEF Results, Contexts
  <2> HIDE DEF x, r
  <2>12. Within(n, h, r, a)
    BY <2>1, <2>7, <2>10, <2>11 DEF Within, at
  <2>13. QED
    BY <2>9, <2>12 DEF r, n
<1>5. CASE ~Wrapped(n, s) /\ Recovered(n, s, isRtx)
  <2>1. r = Result(ClearNackStatus(n, s), {})
    BY <1>5 DEF Received, n, Begun
  <2>2. r.ctx = ClearNackStatus(n, s) /\ r.asks = {}
    BY <2>1 DEF Result
  <2> HIDE DEF r
  <2>3. n.seq \subseteq After(n.nackSeq, 0, h)
    BY DEF n
  <2>4. Within(n, h, r, 0)
    BY <1>1, <1>3, <2>2, <2>3, ClearDomain DEF Within
  <2>5. QED
    BY <1>3, <2>4 DEF r, n
<1>6. CASE ~Wrapped(n, s) /\ ~Recovered(n, s, isRtx) /\ s \in n.seq
  <2>1. r = Result(n, {})
    BY <1>6 DEF Received, n, Begun
  <2> HIDE DEF r
  <2>2. r.ctx = n /\ r.asks = {}
    BY <2>1 DEF Result
  <2>3. n.seq \subseteq After(n.nackSeq, 0, h)
    BY DEF n
  <2>4. Within(n, h, r, 0)
    BY <1>3, <2>2, <2>3 DEF Within
  <2>5. QED
    BY <1>3, <2>4 DEF r, n
<1>7. CASE ~Wrapped(n, s) /\ ~Recovered(n, s, isRtx) /\ s \notin n.seq
  <2>1. r = ReceiveNew(n, s)
    BY <1>7 DEF Received, n, Begun
  <2> HIDE DEF r
  <2>2. ~isRtx /\ (s >= at \/ at = SeqMax)
    BY <1>2, <1>7 DEF Recovered
  <2>3. s = (at + h) % SeqMod
    BY <2>2 DEF n
  <2>4. n.seq \union {s} \subseteq After(at, 0, h)
    <3>1. n.seq \subseteq After(n.nackSeq, 0, h)
      BY DEF n
    <3>2. h \in 0 .. h
      BY <1>2
    <3>3. QED
      BY <2>3, <3>1, <3>2 DEF After
  <2>5. at = SeqMax \/ \A t \in n.seq \union {s} : at <= t
    <3>1. SUFFICES ASSUME at # SeqMax, NEW t \in n.seq \union {s} PROVE at <= t
      OBVIOUS
    <3>2. PICK i \in 0 .. h : t = (at + i) % SeqMod
      BY <2>4 DEF After
    <3>3. at + h < SeqMod
      <4>1. at + h >= SeqMod => (at + h) % SeqMod = at + h - SeqMod
        <5>1. (at + h) % SeqMod = IF at + h < SeqMod THEN at + h ELSE at + h - SeqMod
          BY <1>2, Wrapping
        <5>2. QED
          BY <1>2, <5>1
      <4>2. QED
        BY <1>2, <2>2, <2>3, <3>1, <4>1
    <3>4. t = at + i
      <4>1. i \in 0 .. SeqMod - 1 /\ at + i < SeqMod
        BY <1>2, <3>2, <3>3
      <4>2. QED
        BY <1>2, <3>2, <4>1, Wrapping
    <3>5. QED
      BY <1>2, <3>4
  <2>6. PICK a \in 0 .. h : Within(n, h, r, a)
    BY <1>1, <2>1, <2>4, <2>5, ReceiveNewWithin
  <2>7. QED
    BY <2>6 DEF r, n
<1>8. QED
  BY <1>4, <1>5, <1>6, <1>7

(* reSendNack asks again for what is waiting, and moves nothing.           *)
LEMMA ReSendWithin ==
  ASSUME NEW n \in Contexts
  PROVE  LET r == ReSendNack(n)
         IN  /\ r.ctx.nackSeq = n.nackSeq /\ r.ctx.seq = n.seq /\ r.ctx.started = n.started
             /\ r.asks \subseteq DOMAIN n.status /\ DOMAIN r.ctx.status \subseteq DOMAIN n.status
<1> DEFINE alive == {s \in DOMAIN n.status : n.status[s].age <= NackMaxMS}
           due   == {s \in alive : n.status[s].idle >= n.rtt}
           spent == {s \in due : n.status[s].count + 1 = NackMaxCount}
           again(st) == [st EXCEPT !.idle = 0, !.count = st.count + 1]
           left  == [s \in alive \ spent |-> IF s \in due THEN again(n.status[s]) ELSE n.status[s]]
<1>1. ReSendNack(n) = Result([n EXCEPT !.status = left], due)
  BY DEF ReSendNack
<1>2. due \subseteq DOMAIN n.status /\ DOMAIN left \subseteq DOMAIN n.status
  OBVIOUS
<1> HIDE DEF left, due
<1>3. QED
  BY <1>1, <1>2 DEF Result, Contexts

(* Time moves nothing either. *)
LEMMA OlderWithin ==
  ASSUME NEW n \in Contexts
  PROVE  /\ Older(n).nackSeq = n.nackSeq /\ Older(n).seq = n.seq /\ Older(n).started = n.started
         /\ DOMAIN Older(n).status = DOMAIN n.status
<1> DEFINE up(x, bound) == IF x < bound THEN x + 1 ELSE bound
           grown(st) == [st EXCEPT !.age = up(st.age, NackMaxMS + 1), !.idle = up(st.idle, RttMax)]
           old == [s \in DOMAIN n.status |-> grown(n.status[s])]
<1>1. Older(n) = [n EXCEPT !.status = old]
  BY DEF Older
<1>2. DOMAIN old = DOMAIN n.status
  OBVIOUS
<1> HIDE DEF old
<1>3. QED
  BY <1>1, <1>2 DEF Contexts

-----------------------------------------------------------------------------
(* The NACK state at all times. *)
IInv == nack \in Contexts /\ asks \in SUBSET Seqs

(* The invariant holds at first. *)
LEMMA InitInv == Init => IInv
<1>1. EmptyNack \in Contexts
  <2> DEFINE none == << >>
  <2>1. none \in [{} -> NackStatus] /\ Cardinality({}) = 0
    BY FS_EmptySet
  <2>2. none \in Statuses
    <3> HIDE DEF none
    <3>1. {} \in SUBSET Seqs /\ Cardinality({}) <= NackMaxSize
      BY <2>1, Limits, NackAssumption
    <3>2. QED
      BY <2>1, <3>1, StatusesIntro
  <2>3. RttInit \in RttMin .. RttMax /\ 0 \in Seqs
    BY NackAssumption, Numbers
  <2> HIDE DEF none
  <2>4. EmptyNack = [started |-> FALSE, seq |-> {}, nackSeq |-> 0, rtt |-> RttInit, status |-> none]
    BY DEF EmptyNack, none
  <2>5. QED
    BY <2>2, <2>3, <2>4 DEF Contexts
<1>2. QED
  BY <1>1 DEF Init, IInv

(* A result of the right kind may become the state. *)
LEMMA BecomeInv ==
  ASSUME NEW r \in Results, Become(r)
  PROVE  IInv'
  BY DEF Become, Results, IInv

(* Every operation keeps the invariant. *)
LEMMA NextInv == IInv /\ [Next]_nackVars => IInv'
<1> SUFFICES ASSUME IInv, [Next]_nackVars PROVE IInv'
  OBVIOUS
<1>1. ASSUME NEW s \in Seqs, NEW isRtx \in BOOLEAN, Receive(s, isRtx) PROVE IInv'
  BY <1>1, ReceivedProperty, BecomeInv DEF Receive, IInv
<1>2. CASE ReSend
  BY <1>2, ReSendType, BecomeInv DEF ReSend, IInv
<1>3. CASE Tick
  <2>1. Result(Older(nack), {}) \in Results
    BY OlderType DEF IInv, Result, Results
  <2>2. QED
    BY <1>3, <2>1, BecomeInv DEF Tick
<1>4. CASE UNCHANGED nackVars
  BY <1>4 DEF nackVars, IInv
<1>5. QED
  BY <1>1, <1>2, <1>3, <1>4 DEF Next

(* The NACK state is a context at all times (NackContext). *)
THEOREM Invariants == Spec => []IInv
<1>1. QED
  BY InitInv, NextInv, PTL DEF Spec

(* A context has the types that are claimed. *)
LEMMA InvTypes == IInv => TypeOK
<1> SUFFICES ASSUME IInv PROVE TypeOK
  OBVIOUS
<1>1. nack.status \in Statuses
  BY DEF IInv, Contexts
<1>2. QED
  BY <1>1, StatusesElim DEF IInv, Contexts, TypeOK

(* The NACK state keeps its types, and remembers at most NackMaxSize       *)
(* requests (recordNack).                                                  *)
THEOREM NackTypeCorrect == Spec => []TypeOK
<1>1. QED
  BY InvTypes, Invariants, PTL

(* No loss is passed over in silence, however numbers wrap and however the *)
(* losses fit into FCIs (received, makeNack, eraseFrontSeq).               *)
THEOREM NoGapIsSkipped == Spec => NoGapSkipped
<1>1. IInv =>
        (nack.started /\ nack'.nackSeq # nack.nackSeq =>
          \A s \in Seqs, isRtx \in BOOLEAN : Receive(s, isRtx) =>
            \A k \in 1 .. (nack'.nackSeq - nack.nackSeq) % SeqMod :
              (nack.nackSeq + k) % SeqMod \in nack.seq \union {s} \union asks')
  <2> SUFFICES ASSUME IInv, nack.started, NEW s \in Seqs, NEW isRtx \in BOOLEAN,
                      Receive(s, isRtx)
               PROVE  SkipsNothing(nack.nackSeq, nack'.nackSeq, nack.seq \union {s} \union asks')
    BY DEF SkipsNothing
  <2>1. nack' = Received(nack, s, isRtx).ctx /\ asks' = Received(nack, s, isRtx).asks
    BY DEF Receive, Become
  <2>2. QED
    BY <2>1, ReceivedProperty DEF IInv
<1>2. QED
  BY <1>1, Invariants, PTL DEF NoGapSkipped

-----------------------------------------------------------------------------
(* The requests for one number                                             *)

(* A status is as it was, or the number is just asked for.                  *)
Just(n, r) ==
  /\ r.ctx.started = n.started
  /\ \A w \in DOMAIN r.ctx.status :
       IF w \in r.asks THEN r.ctx.status[w] = [age |-> 0, idle |-> 0, count |-> 1]
       ELSE w \in DOMAIN n.status /\ r.ctx.status[w] = n.status[w]

(* Each turn of makeNack records what it asks for, and only that.           *)
LEMMA TurnRecords ==
  ASSUME NEW n, NEW r \in Results, Just(n, r), NEW max, NEW flush
  PROVE  Just(n, MakeNackTurn(r, max, flush))
<1> DEFINE count == FciCount(r.ctx, max)
           asked == FciNack(r.ctx, max)
           upTo  == (r.ctx.nackSeq + count + 1) % SeqMod
           ctx   == [r.ctx EXCEPT !.status  = Record(r.ctx.status, asked),
                                  !.nackSeq = upTo,
                                  !.seq     = {s \in r.ctx.seq : s > upTo}]
           res   == Result(ctx, r.asks \union asked)
<1>1. CASE r.ctx.nackSeq = max \/ (~flush /\ count < NackRtpSize)
  BY <1>1 DEF MakeNackTurn
<1>2. CASE ~(r.ctx.nackSeq = max \/ (~flush /\ count < NackRtpSize))
  <2>1. MakeNackTurn(r, max, flush) = res
    BY <1>2 DEF MakeNackTurn
  <2> HIDE DEF asked
  <2>2. /\ res.asks = r.asks \union asked /\ res.ctx.status = Record(r.ctx.status, asked)
        /\ res.ctx.started = r.ctx.started
    BY DEF Result, Results, Contexts
  <2> HIDE DEF res
  <2>3. ASSUME NEW w \in DOMAIN res.ctx.status
        PROVE  IF w \in res.asks THEN res.ctx.status[w] = [age |-> 0, idle |-> 0, count |-> 1]
               ELSE w \in DOMAIN n.status /\ res.ctx.status[w] = n.status[w]
    <3>1. /\ w \in DOMAIN r.ctx.status \union asked
          /\ res.ctx.status[w] = IF w \in asked THEN [age |-> 0, idle |-> 0, count |-> 1]
                                ELSE r.ctx.status[w]
      BY <2>2, <2>3 DEF Record
    <3>2. QED
      BY <2>2, <3>1 DEF Just
  <2>4. QED
    BY <2>1, <2>2, <2>3 DEF Just
<1>3. QED
  BY <1>1, <1>2

(* So does the whole loop.                                                 *)
LEMMA MakeNackRecords ==
  ASSUME NEW n \in Contexts, NEW max, NEW flush, EndsAt(n, max)
  PROVE  Just(n, MakeNack(n, max, flush))
<1> DEFINE S == {r \in Reached(n, max) : Just(n, r)}
<1>1. Result(EraseFrontSeq(n), {}) \in S
  <2>1. EraseFrontSeq(n).status = n.status /\ EraseFrontSeq(n).started = n.started
    BY DEF EraseFrontSeq, Contexts
  <2>2. Just(n, Result(EraseFrontSeq(n), {}))
    BY <2>1 DEF Just, Result
  <2>3. QED
    BY <2>2, FirstTurn
<1>2. ASSUME NEW r \in S PROVE MakeNackTurn(r, max, flush) \in S
  <2>1. r \in Reached(n, max) /\ r \in Results /\ Just(n, r) /\ max \in Seqs
    BY DEF Reached, EndsAt
  <2>2. QED
    BY <2>1, TurnKeeps, TurnRecords
<1> HIDE DEF S
<1>3. MakeNack(n, max, flush) \in S
  BY <1>1, <1>2, LoopRule
<1>4. QED
  BY <1>3 DEF S

(* And a number that is new.                                               *)
LEMMA ReceiveNewRecords ==
  ASSUME NEW n \in Contexts, NEW s \in Seqs
  PROVE  Just(n, ReceiveNew(n, s))
<1> DEFINE seq  == n.seq \union {s}
           max  == Largest(seq)
           min  == Smallest(seq)
           m    == [n EXCEPT !.seq = seq]
<1>1. CASE max - min > SeqMax \div 2
  <2>1. ReceiveNew(n, s) = Result([n EXCEPT !.seq = seq \ {max}], {})
    BY <1>1 DEF ReceiveNew
  <2> DEFINE left == seq \ {max}
  <2>2. ReceiveNew(n, s) = Result([n EXCEPT !.seq = left], {})
    BY <2>1
  <2> DEFINE put == [n EXCEPT !.seq = left]
  <2>3. put.started = n.started /\ put.status = n.status
    <3> HIDE DEF left
    <3>1. QED
      BY DEF Contexts
  <2> HIDE DEF put
  <2>4. ReceiveNew(n, s).ctx = put /\ ReceiveNew(n, s).asks = {}
    BY <2>2 DEF Result, put
  <2>5. QED
    BY <2>3, <2>4 DEF Just
<1>2. CASE /\ ~(max - min > SeqMax \div 2)
           /\ min = (n.nackSeq + 1) % SeqMod /\ Cardinality(seq) = max - min + 1
  <2>1. ReceiveNew(n, s) = Result([n EXCEPT !.seq = {}, !.nackSeq = max], {})
    BY <1>2 DEF ReceiveNew
  <2> DEFINE put == [n EXCEPT !.seq = {}, !.nackSeq = max]
  <2>2. put.started = n.started /\ put.status = n.status
    <3> HIDE DEF max
    <3>1. QED
      BY DEF Contexts
  <2> HIDE DEF put
  <2>3. ReceiveNew(n, s).ctx = put /\ ReceiveNew(n, s).asks = {}
    BY <2>1 DEF Result, put
  <2>4. QED
    BY <2>2, <2>3 DEF Just
<1>3. CASE /\ ~(max - min > SeqMax \div 2)
           /\ ~(min = (n.nackSeq + 1) % SeqMod /\ Cardinality(seq) = max - min + 1)
  <2>1. ReceiveNew(n, s) = MakeNack(m, max, FALSE)
    BY <1>3 DEF ReceiveNew
  <2>2. EndsAt(m, max)
    BY <1>3, NewEndsAt
  <2>3. m \in Contexts /\ m.status = n.status /\ m.started = n.started
    <3>1. seq \in SUBSET Seqs
      BY DEF Contexts
    <3> HIDE DEF seq
    <3>2. QED
      BY <3>1 DEF Contexts
  <2> HIDE DEF m, max
  <2>4. Just(m, ReceiveNew(n, s))
    BY <2>1, <2>2, <2>3, MakeNackRecords
  <2>5. QED
    BY <2>3, <2>4 DEF Just
<1>4. QED
  BY <1>1, <1>2, <1>3

(* received: the status of a packet that answers is gone.                   *)
LEMMA ReceivedRecords ==
  ASSUME NEW ctx \in Contexts, ctx.started \/ ctx.nackSeq = 0,
         NEW s \in Seqs, NEW isRtx \in BOOLEAN
  PROVE  /\ Just(Begun(ctx, s), Received(ctx, s, isRtx))
         /\ ~Wrapped(ctx, s) /\ Recovered(ctx, s, isRtx)
              => s \notin DOMAIN Received(ctx, s, isRtx).ctx.status
<1> DEFINE n == Begun(ctx, s)
           flushed == MakeNack(n, SeqMax, TRUE)
           r == Received(ctx, s, isRtx)
<1>1. n \in Contexts /\ n.status = ctx.status
  <2>1. (s - 1) % SeqMod \in Seqs
    BY Numbers
  <2>2. QED
    BY <2>1 DEF Contexts, Begun
<1>2. n.nackSeq \in Seqs /\ n.seq \in SUBSET Seqs
  BY <1>1 DEF Contexts
<1> HIDE DEF n
<1>3. CASE Wrapped(n, s)
  <2> DEFINE x == [flushed EXCEPT !.ctx.seq = flushed.ctx.seq \union {s}]
  <2>1. r = x
    BY <1>3 DEF Received, n, Begun
  <2>2. EndsAt(n, SeqMax)
    BY <1>2, <1>3, Numbers DEF EndsAt, Wrapped
  <2>3. flushed \in Results /\ Just(n, flushed)
    BY <1>1, <2>2, MakeNackProperty, MakeNackRecords
  <2> HIDE DEF flushed
  <2>4. x.ctx.status = flushed.ctx.status /\ x.ctx.started = flushed.ctx.started /\ x.asks = flushed.asks
    BY <2>3 DEF Results, Contexts
  <2> HIDE DEF x, r
  <2>5. Just(n, r)
    BY <1>1, <2>1, <2>3, <2>4 DEF Just
  <2>6. ctx.started
    <3>1. SUFFICES ASSUME ~ctx.started PROVE FALSE
      OBVIOUS
    <3>2. n.nackSeq = (s - 1) % SeqMod
      BY <3>1 DEF n, Begun, Contexts
    <3>3. /\ SeqMod \in Nat \ {0} /\ SeqMax = SeqMod - 1 /\ s \in 0 .. SeqMod - 1
          /\ s < n.nackSeq /\ n.nackSeq # SeqMax
      BY <1>3, Numbers DEF Wrapped
    <3>4. CASE s = 0
      BY <3>2, <3>3, <3>4
    <3>5. CASE s # 0
      <4>1. (s - 1) % SeqMod = s - 1
        BY <3>3, <3>5
      <4>2. QED
        BY <3>2, <3>3, <4>1
    <3>6. QED
      BY <3>4, <3>5
  <2>7. Wrapped(ctx, s)
    BY <1>3, <2>6 DEF n, Begun
  <2>8. QED
    BY <2>5, <2>7 DEF r, n
<1>4. CASE ~Wrapped(n, s) /\ Recovered(n, s, isRtx)
  <2> DEFINE cleared == ClearNackStatus(n, s)
  <2>1. r = Result(cleared, {})
    BY <1>4 DEF Received, n, Begun
  <2>2. /\ s \notin DOMAIN cleared.status /\ cleared.started = n.started
        /\ \A w \in DOMAIN cleared.status :
             w \in DOMAIN n.status /\ cleared.status[w] = n.status[w]
    <3>1. CASE s \notin DOMAIN n.status
      BY <3>1 DEF ClearNackStatus
    <3>2. CASE s \in DOMAIN n.status
      <4> DEFINE age  == n.status[s].age
                 low  == IF age > RttMax THEN RttMax ELSE age
                 rtt  == IF low < RttMin THEN RttMin ELSE low
                 rest == [t \in DOMAIN n.status \ {s} |-> n.status[t]]
      <4>1. cleared = [n EXCEPT !.status = rest, !.rtt = rtt]
        BY <3>2 DEF ClearNackStatus
      <4>2. /\ s \notin DOMAIN rest
            /\ \A w \in DOMAIN rest : w \in DOMAIN n.status /\ rest[w] = n.status[w]
        OBVIOUS
      <4> HIDE DEF rest, rtt
      <4>3. cleared.status = rest /\ cleared.started = n.started
        BY <1>1, <4>1 DEF Contexts
      <4>4. QED
        BY <4>2, <4>3
    <3>3. QED
      BY <3>1, <3>2
  <2> HIDE DEF cleared, r
  <2>3. r.ctx.status = cleared.status /\ r.ctx.started = cleared.started /\ r.asks = {}
    BY <2>1 DEF Result
  <2>4. Just(n, r) /\ s \notin DOMAIN r.ctx.status
    BY <1>1, <2>2, <2>3 DEF Just
  <2>5. QED
    BY <2>4 DEF r, n
<1>5. CASE ~Wrapped(n, s) /\ ~Recovered(n, s, isRtx)
  <2>1. Just(n, r)
    <3>1. CASE s \in n.seq
      <4>1. r = Result(n, {})
        BY <1>5, <3>1 DEF Received, n, Begun
      <4> HIDE DEF r
      <4>2. QED
        BY <1>1, <4>1 DEF Just, Result
    <3>2. CASE s \notin n.seq
      <4>1. r = ReceiveNew(n, s)
        BY <1>5, <3>2 DEF Received, n, Begun
      <4> HIDE DEF r
      <4>2. QED
        BY <1>1, <4>1, ReceiveNewRecords
    <3>3. QED
      BY <3>1, <3>2
  <2>2. ~Recovered(ctx, s, isRtx)
    <3>1. CASE ctx.started
      BY <1>5, <3>1 DEF n, Begun
    <3>2. CASE ~ctx.started
      <4>1. ctx.nackSeq = 0 /\ ~isRtx
        BY <1>5, <3>2 DEF Recovered
      <4>2. QED
        BY <4>1, Numbers DEF Recovered
    <3>3. QED
      BY <3>1, <3>2
  <2>3. QED
    BY <2>1, <2>2 DEF r, n
<1>6. QED
  BY <1>3, <1>4, <1>5

(* What is remembered of the watched number is what became of it.          *)
FollowedBy(req, status) ==
  watched \in DOMAIN status /\ status[watched].age <= NackMaxMS =>
    /\ req.times = status[watched].count
    /\ req.first = status[watched].age
    /\ req.since = status[watched].idle

Requests == [times : Nat, first : Nat, since : Nat, crowded : BOOLEAN]

Again(q, a, b) == [q EXCEPT !.times = a, !.since = b]
Later(q, a, b) == [q EXCEPT !.first = a, !.since = b]

(* Another request, and another tick: only these parts change.             *)
LEMMA RequestChanges ==
  ASSUME NEW q \in Requests, NEW a \in Nat, NEW b \in Nat
  PROVE  /\ Again(q, a, b) \in Requests /\ Again(q, a, b).times = a
         /\ Again(q, a, b).first = q.first /\ Again(q, a, b).since = b
         /\ Later(q, a, b) \in Requests /\ Later(q, a, b).times = q.times
         /\ Later(q, a, b).first = a /\ Later(q, a, b).since = b
  BY DEF Requests, Again, Later

(* The history agrees with _nack_send_status at all times.                 *)
RInv ==
  /\ IInv
  /\ watched \in Seqs
  /\ nack.started \/ nack.nackSeq = 0
  /\ request \in Requests
  /\ FollowedBy(request, nack.status)

(* Nothing is remembered at first. *)
LEMMA WatchedInitInv == WatchedInit => RInv
<1> SUFFICES ASSUME WatchedInit PROVE RInv
  OBVIOUS
<1>1. IInv /\ watched \in Seqs
  BY InitInv DEF WatchedInit
<1>2. nack.nackSeq = 0 /\ DOMAIN nack.status = {}
  BY DEF WatchedInit, Init, EmptyNack
<1>3. request \in Requests
  BY DEF WatchedInit, Nothing, Requests
<1>4. QED
  BY <1>1, <1>2, <1>3 DEF RInv, FollowedBy

(* A status that is remembered has the parts of a status.                  *)
LEMMA WatchedStatus ==
  ASSUME IInv, watched \in DOMAIN nack.status
  PROVE  LET st == nack.status[watched]
         IN  /\ st \in NackStatus
             /\ st.age \in 0 .. NackMaxMS + 1 /\ st.idle \in 0 .. RttMax
             /\ st.count \in 1 .. NackMaxCount - 1
<1>1. nack.status \in Statuses
  BY DEF IInv, Contexts
<1>2. nack.status[watched] \in NackStatus
  BY <1>1, StatusesElim
<1>3. QED
  BY <1>2 DEF NackStatus

(* A packet arrives: the watched number is asked for, answered or left.    *)
LEMMA WatchedReceiveInv ==
  ASSUME RInv, NEW s \in Seqs, NEW isRtx \in BOOLEAN, WatchedReceive(s, isRtx)
  PROVE  RInv'
<1> DEFINE r == Received(nack, s, isRtx)
<1>1. nack' = r.ctx /\ asks' = r.asks /\ watched' = watched
  BY DEF WatchedReceive, Receive, Become
<1>2. IInv' /\ watched' \in Seqs
  <2>1. Next
    BY DEF WatchedReceive, Next
  <2>2. QED
    BY <1>1, <2>1, NextInv DEF RInv
<1>3. /\ Just(Begun(nack, s), r)
      /\ ~Wrapped(nack, s) /\ Recovered(nack, s, isRtx) => s \notin DOMAIN r.ctx.status
  BY ReceivedRecords DEF RInv, IInv
<1>4. Begun(nack, s).started /\ Begun(nack, s).status = nack.status
  BY DEF Begun, RInv, IInv, Contexts
<1> HIDE DEF r
<1>5. nack'.started
  BY <1>1, <1>3, <1>4 DEF Just
<1>6. /\ watched \in DOMAIN nack'.status /\ watched \in asks'
           => nack'.status[watched] = [age |-> 0, idle |-> 0, count |-> 1]
      /\ watched \in DOMAIN nack'.status /\ watched \notin asks'
           => watched \in DOMAIN nack.status /\ nack'.status[watched] = nack.status[watched]
  BY <1>1, <1>3, <1>4 DEF Just
<1>7. Crowds \in BOOLEAN
  BY DEF Crowds
<1>8. CASE watched \in asks'
  <2>1. request' = [Nothing EXCEPT !.times = 1, !.crowded = Crowds]
    BY <1>8 DEF WatchedReceive
  <2>2. request' = [times |-> 1, first |-> 0, since |-> 0, crowded |-> Crowds]
    BY <2>1 DEF Nothing
  <2>3. request' \in Requests
    BY <1>7, <2>2 DEF Requests
  <2>4. FollowedBy(request', nack'.status)
    BY <1>6, <1>8, <2>2 DEF FollowedBy
  <2>5. QED
    BY <1>1, <1>2, <1>5, <2>3, <2>4 DEF RInv, FollowedBy
<1>9. CASE watched \notin asks' /\ (~IsOpen \/ Answers(s, isRtx))
  <2>1. request' = Nothing
    BY <1>9 DEF WatchedReceive
  <2>2. request' \in Requests
    BY <2>1 DEF Nothing, Requests
  <2>3. FollowedBy(request', nack'.status)
    <3>1. CASE Answers(s, isRtx)
      <4>1. watched \notin DOMAIN nack'.status
        BY <1>1, <1>3, <3>1 DEF Answers, Recovered
      <4>2. QED
        BY <4>1 DEF FollowedBy
    <3>2. CASE ~IsOpen
      <4>1. SUFFICES ASSUME watched \in DOMAIN nack'.status, nack'.status[watched].age <= NackMaxMS
                     PROVE  FALSE
        BY DEF FollowedBy
      <4>2. watched \in DOMAIN nack.status /\ nack.status[watched].age <= NackMaxMS
        BY <1>6, <1>9, <4>1
      <4>3. request.times = nack.status[watched].count
        BY <4>2 DEF RInv, FollowedBy
      <4>4. nack.status[watched].count \in 1 .. NackMaxCount - 1
        BY <4>2, WatchedStatus DEF RInv
      <4>5. QED
        BY <3>2, <4>3, <4>4 DEF IsOpen
    <3>3. QED
      BY <1>9, <3>1, <3>2
  <2>4. QED
    BY <1>1, <1>2, <1>5, <2>2, <2>3 DEF RInv, FollowedBy
<1>10. CASE watched \notin asks' /\ ~(~IsOpen \/ Answers(s, isRtx))
  <2>1. request' = [request EXCEPT !.crowded = @ \/ Crowds]
    BY <1>10 DEF WatchedReceive
  <2>2. request \in Requests
    BY DEF RInv
  <2>3. /\ request' \in Requests /\ request'.times = request.times
        /\ request'.first = request.first /\ request'.since = request.since
    BY <1>7, <2>1, <2>2 DEF Requests
  <2>4. FollowedBy(request', nack'.status)
    BY <1>6, <1>10, <2>3 DEF RInv, FollowedBy
  <2>5. QED
    BY <1>1, <1>2, <1>5, <2>3, <2>4 DEF RInv, FollowedBy
<1>11. QED
  BY <1>8, <1>9, <1>10

(* What reSendNack asks for, and what it leaves of the watched number.      *)
LEMMA ReSendRecords ==
  ASSUME NEW n \in Contexts, NEW w
  PROVE  LET r == ReSendNack(n)
         IN  /\ r.ctx.started = n.started /\ r.ctx.nackSeq = n.nackSeq
             /\ w \in r.asks => /\ w \in DOMAIN n.status
                               /\ n.status[w].age <= NackMaxMS
                               /\ n.status[w].idle >= n.rtt
             /\ w \in DOMAIN r.ctx.status =>
                  /\ w \in DOMAIN n.status
                  /\ w \notin r.asks => r.ctx.status[w] = n.status[w]
                  /\ w \in r.asks =>
                       /\ n.status[w].count + 1 # NackMaxCount
                       /\ r.ctx.status[w] = [n.status[w] EXCEPT !.idle = 0,
                                                !.count = n.status[w].count + 1]
<1> DEFINE alive == {s \in DOMAIN n.status : n.status[s].age <= NackMaxMS}
           due   == {s \in alive : n.status[s].idle >= n.rtt}
           spent == {s \in due : n.status[s].count + 1 = NackMaxCount}
           again(st) == [st EXCEPT !.idle = 0, !.count = st.count + 1]
           left  == [s \in alive \ spent |-> IF s \in due THEN again(n.status[s]) ELSE n.status[s]]
           r == ReSendNack(n)
<1>1. r = Result([n EXCEPT !.status = left], due)
  BY DEF ReSendNack
<1>2. w \in DOMAIN left =>
        /\ w \in alive \ spent
        /\ left[w] = IF w \in due THEN again(n.status[w]) ELSE n.status[w]
  OBVIOUS
<1> HIDE DEF left, r
<1>3. /\ r.ctx.started = n.started /\ r.ctx.nackSeq = n.nackSeq
      /\ r.ctx.status = left /\ r.asks = due
  BY <1>1 DEF Result, Contexts
<1>4. QED
  BY <1>2, <1>3 DEF r

(* The watched number is asked for again, given up, or left alone.         *)
LEMMA WatchedReSendInv ==
  ASSUME RInv, WatchedReSend
  PROVE  RInv'
<1> DEFINE r == ReSendNack(nack)
           st == nack.status[watched]
<1>1. nack' = r.ctx /\ asks' = r.asks /\ watched' = watched
  BY DEF WatchedReSend, ReSend, Become
<1>2. IInv' /\ watched' \in Seqs
  <2>1. Next
    BY DEF WatchedReSend, Next
  <2>2. QED
    BY <1>1, <2>1, NextInv DEF RInv
<1>3. /\ nack'.started = nack.started /\ nack'.nackSeq = nack.nackSeq
      /\ watched \in asks' => watched \in DOMAIN nack.status /\ st.age <= NackMaxMS
      /\ watched \in DOMAIN nack'.status =>
           /\ watched \in DOMAIN nack.status
           /\ watched \notin asks' => nack'.status[watched] = st
           /\ watched \in asks' =>
                /\ st.count + 1 # NackMaxCount
                /\ nack'.status[watched] = [st EXCEPT !.idle = 0, !.count = st.count + 1]
  <2>1. nack \in Contexts
    BY DEF RInv, IInv
  <2> HIDE DEF st
  <2>2. QED
    BY <1>1, <2>1, ReSendRecords DEF st
<1>4. nack'.started \/ nack'.nackSeq = 0
  BY <1>3 DEF RInv
<1>5. request \in Requests
  BY DEF RInv
<1>6. CASE watched \notin asks'
  <2>1. request' = request
    BY <1>6 DEF WatchedReSend
  <2>2. FollowedBy(request', nack'.status)
    BY <1>3, <1>6, <2>1 DEF RInv, FollowedBy
  <2>3. QED
    BY <1>1, <1>2, <1>4, <1>5, <2>1, <2>2 DEF RInv, FollowedBy
<1>7. CASE watched \in asks'
  <2>1. /\ watched \in DOMAIN nack.status /\ st.age <= NackMaxMS
        /\ st \in NackStatus /\ st.count \in 1 .. NackMaxCount - 1
    BY <1>3, <1>7, WatchedStatus DEF RInv
  <2>2. request.times = st.count /\ request.first = st.age
    BY <2>1 DEF RInv, FollowedBy
  <2>3. CASE request.times + 1 >= NackMaxCount
    <3>1. request' = Nothing
      BY <1>7, <2>3 DEF WatchedReSend
    <3>2. request' \in Requests
      BY <3>1 DEF Nothing, Requests
    <3>3. st.count + 1 = NackMaxCount
      BY <2>1, <2>2, <2>3, Limits
    <3>4. watched \notin DOMAIN nack'.status
      BY <1>3, <1>7, <3>3
    <3>5. QED
      BY <1>1, <1>2, <1>4, <3>2, <3>4 DEF RInv, FollowedBy
  <2>4. CASE ~(request.times + 1 >= NackMaxCount)
    <3>1. request' = [request EXCEPT !.times = @ + 1, !.since = 0]
      BY <1>7, <2>4 DEF WatchedReSend
    <3>2. /\ request' \in Requests /\ request'.times = request.times + 1
          /\ request'.first = request.first /\ request'.since = 0
      <4> DEFINE more == request.times + 1
                 zero == 0
      <4>1. more \in Nat /\ zero \in Nat
        BY <1>5 DEF Requests
      <4>2. request' = Again(request, more, zero)
        BY <3>1 DEF Again
      <4> HIDE DEF more, zero
      <4>3. /\ request' \in Requests /\ request'.times = more
            /\ request'.first = request.first /\ request'.since = zero
        <5>1. /\ Again(request, more, zero) \in Requests
              /\ Again(request, more, zero).times = more
              /\ Again(request, more, zero).first = request.first
              /\ Again(request, more, zero).since = zero
          BY <1>5, <4>1, RequestChanges
        <5>2. QED
          BY <4>2, <5>1
      <4>4. QED
        BY <4>3 DEF more, zero
    <3>3. ASSUME watched \in DOMAIN nack'.status
          PROVE  /\ nack'.status[watched].age = st.age /\ nack'.status[watched].idle = 0
                 /\ nack'.status[watched].count = st.count + 1
      BY <1>3, <1>7, <2>1, <3>3 DEF NackStatus
    <3>4. FollowedBy(request', nack'.status)
      BY <2>2, <3>2, <3>3 DEF FollowedBy
    <3>5. QED
      BY <1>1, <1>2, <1>4, <3>2, <3>4 DEF RInv, FollowedBy
  <2>5. QED
    BY <2>3, <2>4
<1>8. QED
  BY <1>6, <1>7

(* Time passes for the history as it does for the status.                  *)
LEMMA WatchedTickInv ==
  ASSUME RInv, WatchedTick
  PROVE  RInv'
<1> DEFINE st == nack.status[watched]
           up(x, bound) == IF x < bound THEN x + 1 ELSE bound
           grown == [st EXCEPT !.age = up(st.age, NackMaxMS + 1), !.idle = up(st.idle, RttMax)]
<1>1. nack' = Older(nack) /\ asks' = {} /\ watched' = watched
  BY DEF WatchedTick, Tick, Become, Result
<1>2. IInv' /\ watched' \in Seqs
  <2>1. Next
    BY DEF WatchedTick, Next
  <2>2. QED
    BY <1>1, <2>1, NextInv DEF RInv
<1>3. /\ nack'.started = nack.started /\ nack'.nackSeq = nack.nackSeq
      /\ DOMAIN nack'.status = DOMAIN nack.status
      /\ watched \in DOMAIN nack.status => nack'.status[watched] = grown
  <2> DEFINE old == [s \in DOMAIN nack.status |->
                      [nack.status[s] EXCEPT !.age  = up(nack.status[s].age, NackMaxMS + 1),
                                             !.idle = up(nack.status[s].idle, RttMax)]]
  <2>1. Older(nack) = [nack EXCEPT !.status = old]
    BY DEF Older
  <2>2. /\ DOMAIN old = DOMAIN nack.status
        /\ watched \in DOMAIN nack.status => old[watched] = grown
    OBVIOUS
  <2> HIDE DEF old, grown
  <2>3. nack \in Contexts
    BY DEF RInv, IInv
  <2>4. QED
    BY <1>1, <2>1, <2>2, <2>3 DEF Contexts
<1>4. nack'.started \/ nack'.nackSeq = 0
  BY <1>3 DEF RInv
<1>5. request \in Requests
  BY DEF RInv
<1>6. ASSUME watched \in DOMAIN nack'.status, nack'.status[watched].age <= NackMaxMS
      PROVE  /\ st.age \in 0 .. NackMaxMS - 1
             /\ nack'.status[watched].age = st.age + 1
             /\ nack'.status[watched].idle = up(st.idle, RttMax)
             /\ nack'.status[watched].count = st.count
             /\ request.times = st.count /\ request.first = st.age /\ request.since = st.idle
             /\ st.count \in 1 .. NackMaxCount - 1
  <2>1. /\ watched \in DOMAIN nack.status /\ nack'.status[watched] = grown
        /\ st \in NackStatus /\ st.age \in 0 .. NackMaxMS + 1
        /\ st.count \in 1 .. NackMaxCount - 1
    BY <1>3, <1>6, WatchedStatus DEF RInv
  <2>2. /\ grown.age = up(st.age, NackMaxMS + 1) /\ grown.idle = up(st.idle, RttMax)
        /\ grown.count = st.count
    BY <2>1 DEF NackStatus
  <2> HIDE DEF grown
  <2>3. st.age \in 0 .. NackMaxMS - 1 /\ up(st.age, NackMaxMS + 1) = st.age + 1
    BY <1>6, <2>1, <2>2, Limits
  <2>4. request.times = st.count /\ request.first = st.age /\ request.since = st.idle
    BY <2>1, <2>3, Limits DEF RInv, FollowedBy
  <2> HIDE DEF up, st
  <2>5. QED
    BY <2>1, <2>2, <2>3, <2>4
<1>7. CASE ~IsOpen \/ request.first = NackMaxMS
  <2>1. request' = Nothing
    BY <1>7 DEF WatchedTick
  <2>2. request' \in Requests
    BY <2>1 DEF Nothing, Requests
  <2>3. ~(watched \in DOMAIN nack'.status /\ nack'.status[watched].age <= NackMaxMS)
    BY <1>6, <1>7, Limits DEF IsOpen
  <2>4. QED
    BY <1>1, <1>2, <1>4, <2>2, <2>3 DEF RInv, FollowedBy
<1>8. CASE ~(~IsOpen \/ request.first = NackMaxMS)
  <2>1. request' = [request EXCEPT !.first = @ + 1,
                                   !.since = IF @ < RttMax THEN @ + 1 ELSE RttMax]
    BY <1>8 DEF WatchedTick
  <2>2. /\ request' \in Requests /\ request'.times = request.times
        /\ request'.first = request.first + 1 /\ request'.since = up(request.since, RttMax)
    <3> DEFINE more == request.first + 1
               wait == up(request.since, RttMax)
    <3>1. more \in Nat /\ wait \in Nat
      BY <1>5, Limits DEF Requests
    <3>2. request' = Later(request, more, wait)
      BY <2>1 DEF Later
    <3> HIDE DEF more, wait
    <3>3. /\ request' \in Requests /\ request'.times = request.times
          /\ request'.first = more /\ request'.since = wait
      <4>1. /\ Later(request, more, wait) \in Requests
            /\ Later(request, more, wait).times = request.times
            /\ Later(request, more, wait).first = more
            /\ Later(request, more, wait).since = wait
        BY <1>5, <3>1, RequestChanges
      <4>2. QED
        BY <3>2, <4>1
    <3>4. QED
      BY <3>3 DEF more, wait
  <2> HIDE DEF up
  <2>3. FollowedBy(request', nack'.status)
    BY <1>6, <2>2 DEF FollowedBy
  <2>4. QED
    BY <1>1, <1>2, <1>4, <2>2, <2>3 DEF RInv, FollowedBy
<1>9. QED
  BY <1>7, <1>8

(* The history and the status agree at all times (NackRequests).           *)
LEMMA WatchedNextInv == RInv /\ [WatchedNext]_requestVars => RInv'
<1> SUFFICES ASSUME RInv, [WatchedNext]_requestVars PROVE RInv'
  OBVIOUS
<1>1. ASSUME NEW s \in Seqs, NEW isRtx \in BOOLEAN, WatchedReceive(s, isRtx) PROVE RInv'
  BY <1>1, WatchedReceiveInv
<1>2. CASE WatchedReSend
  BY <1>2, WatchedReSendInv
<1>3. CASE WatchedTick
  BY <1>3, WatchedTickInv
<1>4. CASE UNCHANGED requestVars
  BY <1>4 DEF requestVars, nackVars, RInv, IInv, FollowedBy
<1>5. QED
  BY <1>1, <1>2, <1>3, <1>4 DEF WatchedNext

(* Whatever number is followed, it is asked for again only while its loss  *)
(* is open, and at least an rtt after the last request (reSendNack,        *)
(* clearNackStatus, recordNack).                                           *)
THEOREM RequestsAreSpaced == WatchedSpec => RetriesAreSpaced
<1>1. RInv => (ReSend /\ watched \in asks' => IsOpen /\ request.since >= nack.rtt)
  <2> SUFFICES ASSUME RInv, ReSend, watched \in asks'
               PROVE  IsOpen /\ request.since >= nack.rtt
    OBVIOUS
  <2>1. asks' = ReSendNack(nack).asks /\ nack \in Contexts
    BY DEF ReSend, Become, RInv, IInv
  <2>2. /\ watched \in DOMAIN nack.status /\ nack.status[watched].age <= NackMaxMS
        /\ nack.status[watched].idle >= nack.rtt
    BY <2>1, ReSendRecords
  <2>3. request.times = nack.status[watched].count /\ request.since = nack.status[watched].idle
    BY <2>2 DEF RInv, FollowedBy
  <2>4. nack.status[watched].count \in 1 .. NackMaxCount - 1
    BY <2>2, WatchedStatus DEF RInv
  <2>5. QED
    BY <2>2, <2>3, <2>4 DEF IsOpen
<1>2. QED
  BY <1>1, WatchedInitInv, WatchedNextInv, PTL DEF WatchedSpec, RetriesAreSpaced
=============================================================================
