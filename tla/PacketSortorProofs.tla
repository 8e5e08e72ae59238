-------------------------- MODULE PacketSortorProofs --------------------------
(***************************************************************************)
(* Machine-checked proofs about the reorder buffer, for every SeqMod,      *)
(* MaxDistance and MaxBufferSize that satisfy SortorAssumption.            *)
(***************************************************************************)
EXTENDS PacketSortor, FiniteSetTheorems, WellFoundedInduction, TLAPS

(* A non-empty set of naturals has a least element. *)
LEMMA LeastElement ==
  ASSUME NEW T \in SUBSET Nat, T # {}
  PROVE  \E x \in T : \A y \in T : x <= y
<1> DEFINE F == {0 .. x : x \in T}
<1>1. F \subseteq FiniteSubsetsOf(Nat) /\ F # {}
  <2>1. ASSUME NEW x \in T
        PROVE  0 .. x \in SUBSET Nat /\ IsFiniteSet(0 .. x)
    <3>1. 0 \in Int /\ x \in Int
      OBVIOUS
    <3> QED
      BY <3>1, FS_Interval
  <2> QED
    BY <2>1 DEF FiniteSubsetsOf
<1>2. PICK I \in F : \A J \in F : ~ (<<J, I>> \in StrictSubsetOrdering(Nat))
  BY <1>1, FS_StrictSubsetOrderingWellFounded, WFMin
<1>3. PICK x \in T : I = 0 .. x
  BY <1>2
<1>4. ASSUME NEW y \in T, y < x
      PROVE  FALSE
  <2>1. 0 .. y \in F /\ 0 .. y \subseteq 0 .. x /\ x \in 0 .. x /\ x \notin 0 .. y
    BY <1>4
  <2>2. <<0 .. y, 0 .. x>> \in StrictSubsetOrdering(Nat)
    BY <2>1, <1>1, <1>2, <1>3 DEF StrictSubsetOrdering
  <2> QED
    BY <2>1, <2>2, <1>2, <1>3
<1> QED
  BY <1>4

-----------------------------------------------------------------------------
(* The loop of flushPacket stops at a gap: the first number from next on   *)
(* that the map does not hold, or the end of the number space.             *)
LEMMA FirstGapProperty ==
  ASSUME NEW c \in SUBSET Seqs, NEW next \in Seqs
  PROVE  /\ FirstGap(c, next) \in next .. SeqMod
         /\ FirstGap(c, next) \notin c
         /\ next .. (FirstGap(c, next) - 1) \subseteq c
<1> DEFINE T == {k \in next .. SeqMod : k \notin c}
<1>1. T \in SUBSET Nat /\ SeqMod \in T
  BY SortorAssumption DEF SortorAssumption, Seqs
<1>2. PICK k \in T : \A y \in T : k <= y
  BY <1>1, LeastElement
<1>3. next .. (k - 1) \subseteq c
  BY <1>1, <1>2, SortorAssumption DEF SortorAssumption, Seqs
<1>4. \E j \in next .. SeqMod : j \notin c /\ next .. (j - 1) \subseteq c
  BY <1>2, <1>3
<1> QED
  BY <1>4 DEF FirstGap

(* forceFlush's target is a number the map holds, the least one not below  *)
(* next if there is any, and else the least of all.                        *)
LEMMA FlushTargetProperty ==
  ASSUME NEW c \in SUBSET Seqs, c # {}, NEW next \in Seqs
  PROVE  LET t == FlushTarget(c, next)
         IN  /\ t \in c
             /\ \A s \in c : s >= next => next <= t /\ t <= s
             /\ (\A s \in c : s < next) => \A s \in c : t <= s
<1> DEFINE above == {s \in c : s >= next}
           from  == IF above # {} THEN above ELSE c
<1>1. from \in SUBSET Nat /\ from # {}
  <2>1. c \subseteq Nat
    BY SortorAssumption DEF SortorAssumption, Seqs
  <2>2. CASE above # {}
    BY <2>1, <2>2
  <2>3. CASE above = {}
    BY <2>1, <2>3
  <2> QED
    BY <2>2, <2>3
<1> HIDE DEF from
<1>2. PICK x \in from : \A y \in from : x <= y
  BY <1>1, LeastElement
<1>3. FlushTarget(c, next) = CHOOSE s \in from : \A t \in from : s <= t
  BY DEF FlushTarget, from
<1>4. FlushTarget(c, next) \in from /\ \A y \in from : FlushTarget(c, next) <= y
  BY <1>2, <1>3
<1> QED
  BY <1>4, SortorAssumption DEF SortorAssumption, from, Seqs

-----------------------------------------------------------------------------
(* The successor of a sequence number is a sequence number. *)
LEMMA NextSeqType ==
  ASSUME NEW last \in Seqs
  PROVE  NextSeq(last) \in Seqs /\ NextSeq(last) = IF last = SeqMax THEN 0 ELSE last + 1
BY SortorAssumption DEF SortorAssumption, NextSeq, Seqs, SeqMax

(* sortPacket works from a sequence number, before the first packet too. *)
LEMMA BaseType ==
  ASSUME TypeOK, NEW seq \in Seqs
  PROVE  Base(seq) \in Seqs
BY SortorAssumption DEF SortorAssumption, Base, TypeOK, Seqs

(* A run of consecutive numbers of the map is a sequence of numbers. *)
LEMMA NumbersType ==
  ASSUME NEW from \in Seqs, NEW to \in Int, to < SeqMod
  PROVE  Numbers(from, to) \in Seq(Seqs)
<1>1. CASE to < from
  <2>1. Numbers(from, to) = << >>
    BY <1>1 DEF Numbers, Seqs
  <2> QED
    BY <2>1
<1>2. CASE from <= to
  <2>1. to - from + 1 \in Nat
    BY <1>2 DEF Seqs
  <2>2. \A i \in 1 .. (to - from + 1) : from + i - 1 \in Seqs
    BY <1>2, SortorAssumption DEF SortorAssumption, Seqs
  <2>3. Numbers(from, to) \in [1 .. (to - from + 1) -> Seqs]
    BY <2>2 DEF Numbers
  <2> QED
    BY <2>1, <2>3
<1> QED
  BY <1>1, <1>2, SortorAssumption DEF SortorAssumption, Seqs

(* What output() and flushPacket() leave: a position, a part of the map    *)
(* that does not hold the next number unless that number is 0.             *)
LEMMA EmitProperty ==
  ASSUME NEW c \in SUBSET Seqs, NEW seq \in Seqs
  PROVE  LET e == Emit(c, seq)
         IN  /\ e.last \in Seqs
             /\ e.cache \in SUBSET c
             /\ e.out \in Seq(Seqs)
             /\ e.out # << >> /\ e.out[1] = seq
             /\ NextSeq(e.last) \in e.cache => NextSeq(e.last) = 0
<1> DEFINE next == NextSeq(seq)
           kept == Kept(c, next)
           gap  == FirstGap(kept, next)
           e    == Emit(c, seq)
<1>1. next \in Seqs
  BY NextSeqType
<1>2. kept \in SUBSET c
  BY DEF Kept
<1>3. gap \in next .. SeqMod /\ gap \notin kept
  BY <1>1, <1>2, FirstGapProperty
<1>4. /\ e.last = IF gap = next THEN seq ELSE gap - 1
      /\ e.cache = kept \ (next .. gap - 1)
      /\ e.out = <<seq>> \o Numbers(next, gap - 1)
  BY DEF Emit
<1> HIDE DEF e, gap, kept
<1>5. e.last \in Seqs
  BY <1>1, <1>3, <1>4, SortorAssumption DEF SortorAssumption, Seqs
<1>6. e.out \in Seq(Seqs) /\ e.out # << >> /\ e.out[1] = seq
  <2>1. gap - 1 \in Int /\ gap - 1 < SeqMod
    BY <1>1, <1>3, SortorAssumption DEF SortorAssumption, Seqs
  <2>2. Numbers(next, gap - 1) \in Seq(Seqs)
    BY <1>1, <2>1, NumbersType
  <2>3. <<seq>> \in Seq(Seqs) /\ Len(<<seq>>) = 1 /\ <<seq>>[1] = seq
    OBVIOUS
  <2> QED
    BY <1>4, <2>2, <2>3
<1>7. NextSeq(e.last) = IF gap = SeqMod THEN 0 ELSE gap
  BY <1>1, <1>3, <1>4, <1>5, NextSeqType, SortorAssumption
     DEF SortorAssumption, Seqs, SeqMax
<1> QED
  BY <1>2, <1>3, <1>4, <1>5, <1>6, <1>7 DEF e

(* What forceFlush leaves: as above, and at least one packet less. *)
LEMMA ForceFlushProperty ==
  ASSUME NEW c \in SUBSET Seqs, c # {}, NEW next \in Seqs
  PROVE  LET f == ForceFlush(c, next)
         IN  /\ f.last \in Seqs
             /\ f.cache \in SUBSET (c \ {FlushTarget(c, next)})
             /\ f.out \in Seq(Seqs)
             /\ f.out # << >> /\ f.out[1] = FlushTarget(c, next)
             /\ NextSeq(f.last) \in f.cache => NextSeq(f.last) = 0
<1> DEFINE target == FlushTarget(c, next)
           rest == c \ {target}
           e == Emit(rest, target)
<1>1. target \in c
  BY FlushTargetProperty
<1> HIDE DEF target
<1>2. rest \in SUBSET Seqs /\ target \in Seqs
  BY <1>1
<1> HIDE DEF rest
<1>3. /\ e.last \in Seqs
      /\ e.cache \in SUBSET rest
      /\ e.out \in Seq(Seqs)
      /\ e.out # << >> /\ e.out[1] = target
      /\ NextSeq(e.last) \in e.cache => NextSeq(e.last) = 0
  BY <1>2, EmitProperty
<1> HIDE DEF e
<1>4. ForceFlush(c, next) =
        [last  |-> e.last,
         cache |-> {s \in e.cache : Distance(e.last, s) <= MaxDistance},
         out   |-> e.out]
  BY DEF ForceFlush, e, rest, target
<1> QED
  BY <1>3, <1>4 DEF target, rest

(* The buffer is finite: it holds some of finitely many numbers. *)
LEMMA FiniteCache ==
  ASSUME NEW c \in SUBSET Seqs
  PROVE  IsFiniteSet(c) /\ Cardinality(c) \in Nat
<1>1. 0 \in Int /\ SeqMod - 1 \in Int
  BY SortorAssumption DEF SortorAssumption
<1>2. IsFiniteSet(Seqs)
  BY <1>1, FS_Interval DEF Seqs
<1> QED
  BY <1>2, FS_Subset, FS_CardinalityType

-----------------------------------------------------------------------------
(* The invariant the proofs carry: what a step preserves needs, beside the *)
(* properties themselves, that nothing waits before a first packet.        *)
NothingHeldBeforeStart == ~started => cache = {}

Inv ==
  /\ TypeOK
  /\ NothingHeldBeforeStart
  /\ OnlyZeroIsHeld
  /\ BufferBound

(* An empty buffer is within the bound: clear() and flush() leave one. *)
LEMMA EmptyIsBounded == Cardinality({}) <= MaxBufferSize
<1>1. Cardinality({}) = 0
  BY FS_EmptySet
<1> QED
  BY <1>1, SortorAssumption DEF SortorAssumption

(* The constructor's state satisfies the invariant. *)
LEMMA InitInv == Init => Inv
<1> SUFFICES ASSUME Init
             PROVE  Inv
  OBVIOUS
<1>1. TypeOK
  <2>1. << >> \in Seq(Seqs) /\ {} \in SUBSET Seqs
    OBVIOUS
  <2>2. 0 \in Seqs
    BY SortorAssumption DEF SortorAssumption, Seqs
  <2> QED
    BY <2>1, <2>2 DEF Init, TypeOK
<1>2. NothingHeldBeforeStart /\ OnlyZeroIsHeld
  BY DEF Init, NothingHeldBeforeStart, OnlyZeroIsHeld
<1>3. BufferBound
  BY EmptyIsBounded DEF Init, BufferBound
<1> QED
  BY <1>1, <1>2, <1>3 DEF Inv

(* What holds after a call that went through output() holds in general. *)
LEMMA ApplyInv ==
  ASSUME NEW e, Apply(e), started' = TRUE,
         e.last \in Seqs, e.cache \in SUBSET Seqs, e.out \in Seq(Seqs),
         NextSeq(e.last) \in e.cache => NextSeq(e.last) = 0,
         Cardinality(e.cache) <= MaxBufferSize
  PROVE  Inv'
BY DEF Apply, Inv, TypeOK, NothingHeldBeforeStart, OnlyZeroIsHeld, BufferBound

(* sortPacket on the number that is next keeps the invariant. *)
LEMMA OutputNextInv ==
  ASSUME Inv, NEW seq \in Seqs, OutputNext(seq)
  PROVE  Inv'
<1> DEFINE e == Emit(cache, seq)
<1>1. cache \in SUBSET Seqs /\ Apply(e) /\ started' = TRUE
  BY DEF OutputNext, Inv, TypeOK
<1>2. /\ e.last \in Seqs
      /\ e.cache \in SUBSET cache
      /\ e.out \in Seq(Seqs)
      /\ NextSeq(e.last) \in e.cache => NextSeq(e.last) = 0
  BY <1>1, EmitProperty
<1> HIDE DEF e
<1>3. Cardinality(e.cache) <= MaxBufferSize
  <2>1. IsFiniteSet(cache) /\ Cardinality(cache) \in Nat /\ Cardinality(e.cache) \in Nat
    BY <1>1, <1>2, FiniteCache
  <2>2. Cardinality(e.cache) <= Cardinality(cache)
    BY <1>2, <2>1, FS_Subset
  <2> QED
    BY <2>1, <2>2, SortorAssumption DEF SortorAssumption, Inv, BufferBound
<1> QED
  BY <1>1, <1>2, <1>3, ApplyInv

(* sortPacket on a packet that is buffered, flush forced or not, keeps it. *)
LEMMA BufferInv ==
  ASSUME Inv, NEW seq \in Seqs, Buffer(seq)
  PROVE  Inv'
<1> DEFINE c == cache \union {seq}
           next == NextSeq(lastOut)
           f == ForceFlush(c, next)
<1>1. /\ started /\ started' = TRUE /\ seq # next
      /\ c \in SUBSET Seqs /\ c # {}
      /\ next \in Seqs /\ lastOut \in Seqs
  BY NextSeqType DEF Buffer, Inv, TypeOK
<1>2. IsFiniteSet(c) /\ Cardinality(c) \in Nat /\ IsFiniteSet(cache)
      /\ Cardinality(cache) \in Nat
  BY <1>1, FiniteCache DEF Inv, TypeOK
<1>3. Cardinality(c) <= MaxBufferSize + 1
  BY <1>2, FS_AddElement, SortorAssumption DEF SortorAssumption, Inv, BufferBound
<1>4. CASE NeedForceFlush(c, lastOut, seq)
  <2>1. Apply(f)
    BY <1>4 DEF Buffer
  <2>2. /\ f.last \in Seqs
        /\ f.cache \in SUBSET (c \ {FlushTarget(c, next)})
        /\ f.out \in Seq(Seqs)
        /\ NextSeq(f.last) \in f.cache => NextSeq(f.last) = 0
    BY <1>1, ForceFlushProperty
  <2>3. FlushTarget(c, next) \in c
    BY <1>1, FlushTargetProperty
  <2> HIDE DEF f, c
  <2>4. /\ IsFiniteSet(c \ {FlushTarget(c, next)})
        /\ Cardinality(c \ {FlushTarget(c, next)}) = Cardinality(c) - 1
    BY <1>2, <2>3, FS_RemoveElement
  <2>5. Cardinality(f.cache) <= Cardinality(c) - 1
    BY <2>2, <2>4, FS_Subset
  <2>6. Cardinality(f.cache) \in Nat
    BY <1>1, <2>2, FiniteCache
  <2>7. Cardinality(f.cache) <= MaxBufferSize
    BY <1>2, <1>3, <2>5, <2>6, SortorAssumption DEF SortorAssumption
  <2> QED
    BY <1>1, <2>1, <2>2, <2>7, ApplyInv
<1>5. CASE ~NeedForceFlush(c, lastOut, seq)
  <2>1. cache' = c /\ out' = << >> /\ UNCHANGED <<started, lastOut, stale>>
    BY <1>5 DEF Buffer
  <2>2. Cardinality(c) <= MaxBufferSize
    BY <1>1, <1>2, <1>5, SortorAssumption DEF SortorAssumption, NeedForceFlush
  <2> QED
    BY <1>1, <2>1, <2>2
       DEF Inv, TypeOK, NothingHeldBeforeStart, OnlyZeroIsHeld, BufferBound
<1> QED
  BY <1>4, <1>5

(* flush() keeps the invariant. *)
LEMMA FlushInv == Inv /\ Flush => Inv'
<1> SUFFICES ASSUME Inv, Flush
             PROVE  Inv'
  OBVIOUS
<1> DEFINE next == NextSeq(lastOut)
           f == ForceFlush(cache, next)
<1>1. cache \in SUBSET Seqs /\ cache # {} /\ next \in Seqs /\ started' = TRUE
  BY NextSeqType DEF Flush, Inv, TypeOK, NothingHeldBeforeStart
<1>2. f.last \in Seqs /\ f.out \in Seq(Seqs)
  BY <1>1, ForceFlushProperty
<1>3. Apply([f EXCEPT !.cache = {}])
  BY DEF Flush
<1>4. f = [last |-> f.last, cache |-> f.cache, out |-> f.out]
  BY DEF ForceFlush
<1> HIDE DEF f
<1>5. [f EXCEPT !.cache = {}] = [last |-> f.last, cache |-> {}, out |-> f.out]
  BY <1>4
<1>6. Cardinality({}) <= MaxBufferSize
  BY EmptyIsBounded
<1> QED
  BY <1>1, <1>2, <1>3, <1>5, <1>6, ApplyInv

(* Every operation of the buffer keeps the invariant. *)
LEMMA NextInv == Inv /\ [Next]_sortVars => Inv'
<1> SUFFICES ASSUME Inv, [Next]_sortVars
             PROVE  Inv'
  OBVIOUS
<1> USE DEF Inv, TypeOK, NothingHeldBeforeStart, OnlyZeroIsHeld, BufferBound
<1>1. ASSUME NEW seq \in Seqs, SortPacket(seq)
      PROVE  Inv'
  <2>1. CASE OutputNext(seq)
    BY <2>1, OutputNextInv
  <2>2. CASE DropOld(seq)
    BY <2>2 DEF DropOld
  <2>3. CASE Buffer(seq)
    BY <2>3, BufferInv
  <2> QED
    BY <1>1, <2>1, <2>2, <2>3 DEF SortPacket
<1>2. CASE Flush
  BY <1>2, FlushInv
<1>3. CASE Clear
  <2>1. TypeOK'
    <3>1. << >> \in Seq(Seqs) /\ {} \in SUBSET Seqs
      OBVIOUS
    <3> QED
      BY <1>3, <3>1 DEF Clear
  <2>2. NothingHeldBeforeStart' /\ OnlyZeroIsHeld'
    BY <1>3 DEF Clear
  <2>3. BufferBound'
    BY <1>3, EmptyIsBounded DEF Clear
  <2> QED
    BY <2>1, <2>2, <2>3
<1>4. CASE Elapse
  BY <1>4 DEF Elapse
<1>5. CASE UNCHANGED sortVars
  BY <1>5 DEF sortVars
<1> QED
  BY <1>1, <1>2, <1>3, <1>4, <1>5 DEF Next

(* The invariant holds after any sequence of operations. *)
THEOREM InvHolds == Spec => []Inv
BY InitInv, NextInv, PTL DEF Spec

(* The state keeps its types, whatever arrives in whatever order. *)
THEOREM TypeCorrect == Spec => []TypeOK
<1>1. Inv => TypeOK
  BY DEF Inv
<1> QED
  BY <1>1, InvHolds, PTL

(* The jitter buffer is bounded by _max_buffer_size between two calls. *)
THEOREM BufferIsBounded == Spec => []BufferBound
<1>1. Inv => BufferBound
  BY DEF Inv
<1> QED
  BY <1>1, InvHolds, PTL

(* Only packet 0 can be next in line and still wait in the buffer. *)
THEOREM HeldOnlyAtWrap == Spec => []OnlyZeroIsHeld
<1>1. Inv => OnlyZeroIsHeld
  BY DEF Inv
<1> QED
  BY <1>1, InvHolds, PTL

-----------------------------------------------------------------------------
(* How far ahead a number is, without the modulus. *)
LEMMA AheadByValue ==
  ASSUME NEW n \in Seqs, NEW s \in Seqs
  PROVE  AheadBy(n, s) = IF s >= n THEN s - n ELSE s - n + SeqMod
BY SortorAssumption DEF SortorAssumption, AheadBy, Seqs

(* An ahead arrival makes forceFlush choose a target that is ahead: with   *)
(* something at or above the position in the map the least such number is  *)
(* no farther than the arrival, and without it the arrival has wrapped, so *)
(* has everything below it.                                                *)
LEMMA TargetIsAhead ==
  ASSUME NEW c \in SUBSET Seqs, NEW seq \in c, NEW next \in Seqs, Ahead(next, seq)
  PROVE  Ahead(next, FlushTarget(c, next))
<1> DEFINE t == FlushTarget(c, next)
<1>1. /\ t \in c
      /\ \A s \in c : s >= next => next <= t /\ t <= s
      /\ (\A s \in c : s < next) => \A s \in c : t <= s
  BY FlushTargetProperty
<1> HIDE DEF t
<1>2. /\ AheadBy(next, t) = IF t >= next THEN t - next ELSE t - next + SeqMod
      /\ AheadBy(next, seq) = IF seq >= next THEN seq - next ELSE seq - next + SeqMod
  BY <1>1, AheadByValue
<1>3. /\ SeqMod \in Nat /\ next \in 0 .. SeqMod - 1
      /\ t \in 0 .. SeqMod - 1 /\ seq \in 0 .. SeqMod - 1
  BY <1>1, SortorAssumption DEF SortorAssumption, Seqs
<1>4. AheadBy(next, t) <= AheadBy(next, seq)
  <2>1. CASE seq >= next
    BY <2>1, <1>1, <1>2, <1>3
  <2>2. CASE seq < next /\ t >= next
    BY <2>2, <1>2, <1>3
  <2>3. CASE seq < next /\ t < next
    <3>1. \A s \in c : s < next
      BY <2>3, <1>1, <1>3, SortorAssumption DEF SortorAssumption, Seqs
    <3> QED
      BY <3>1, <2>3, <1>1, <1>2, <1>3
  <2> QED
    BY <2>1, <2>2, <2>3, <1>3
<1>5. AheadBy(next, t) \in Int /\ AheadBy(next, seq) \in Int /\ SeqMax \div 2 \in Int
  BY <1>2, <1>3 DEF SeqMax
<1> QED
  BY <1>4, <1>5 DEF Ahead, t

(* A step on a packet that is ahead of the position releases numbers from *)
(* one that is ahead of the position.                                      *)
LEMMA StepStartsAhead ==
  ASSUME Inv, NEW seq \in Seqs, started, SortPacket(seq), Ahead(NextSeq(lastOut), seq)
  PROVE  StartsAhead
<1> DEFINE next == NextSeq(lastOut)
<1>1. next \in Seqs /\ cache \in SUBSET Seqs
  BY NextSeqType DEF Inv, TypeOK
<1>2. CASE OutputNext(seq)
  <2>1. out' = Emit(cache, seq).out
    BY <1>2 DEF OutputNext, Apply
  <2>2. out'[1] = seq
    BY <2>1, <1>1, EmitProperty
  <2> QED
    BY <2>2 DEF StartsAhead
<1>3. CASE DropOld(seq)
  BY <1>3 DEF DropOld, StartsAhead
<1>4. CASE Buffer(seq)
  <2> DEFINE c == cache \union {seq}
  <2>1. CASE NeedForceFlush(c, lastOut, seq)
    <3>1. out' = ForceFlush(c, next).out
      BY <1>4, <2>1 DEF Buffer, Apply
    <3>2. out'[1] = FlushTarget(c, next)
      BY <3>1, <1>1, ForceFlushProperty
    <3>3. Ahead(next, FlushTarget(c, next))
      BY <1>1, TargetIsAhead
    <3> QED
      BY <3>2, <3>3 DEF StartsAhead
  <2>2. CASE ~NeedForceFlush(c, lastOut, seq)
    BY <1>4, <2>2 DEF Buffer, StartsAhead
  <2> QED
    BY <2>1, <2>2
<1> QED
  BY <1>2, <1>3, <1>4 DEF SortPacket

(* A packet that arrives ahead of the position never makes the output move *)
(* back, whatever the buffer holds.                                        *)
THEOREM OutputMovesForward == Spec => ForwardOnly
<1>1. Inv /\ [Next]_sortVars =>
        [\A seq \in Seqs : started /\ SortPacket(seq) /\ Ahead(NextSeq(lastOut), seq)
           => StartsAhead]_sortVars
  BY StepStartsAhead
<1> QED
  BY <1>1, InvHolds, PTL DEF Spec, ForwardOnly

-----------------------------------------------------------------------------
(* Where output() and flushPacket() stop, and what they neither hand out   *)
(* nor keep: only what is below the number handed out, and only where that *)
(* is away from the wrap.                                                  *)
LEMMA EmitLoses ==
  ASSUME NEW c \in SUBSET Seqs, NEW seq \in Seqs
  PROVE  LET e == Emit(c, seq)
             m == NextSeq(e.last)
         IN  /\ \A s \in c : s \notin e.cache /\ (\A i \in DOMAIN e.out : e.out[i] # s)
                  => s < seq /\ seq < SeqMax - MaxDistance
             /\ \A s \in e.cache : s # seq /\ (s > seq \/ seq = SeqMax)
                  => s >= m /\ (m > seq \/ seq = SeqMax)
             /\ m > seq \/ m = 0 \/ seq = SeqMax
<1> DEFINE next == NextSeq(seq)
           kept == Kept(c, next)
           gap  == FirstGap(kept, next)
           e    == Emit(c, seq)
<1>1. next \in Seqs /\ next = IF seq = SeqMax THEN 0 ELSE seq + 1
  BY NextSeqType
<1>2. kept \in SUBSET c /\ \A s \in c \ kept : s < next /\ ~MayLooped(next, next)
  <2>1. next \in Int /\ \A s \in c : s \in Int
    BY <1>1, SortorAssumption DEF SortorAssumption, Seqs
  <2> HIDE DEF next
  <2>2. CASE MayLooped(next, next)
    BY <2>2 DEF Kept
  <2>3. CASE ~MayLooped(next, next)
    BY <2>1, <2>3 DEF Kept
  <2>4. QED
    BY <2>2, <2>3
<1>3. gap \in next .. SeqMod /\ gap \notin kept
  BY <1>1, <1>2, FirstGapProperty
<1>4. /\ e.last = IF gap = next THEN seq ELSE gap - 1
      /\ e.cache = kept \ (next .. gap - 1)
      /\ e.out = <<seq>> \o Numbers(next, gap - 1)
  BY DEF Emit
<1>5. e.last \in Seqs
  BY EmitProperty
<1> HIDE DEF e, gap, kept
<1>6. NextSeq(e.last) = IF gap = SeqMod THEN 0 ELSE gap
  BY <1>1, <1>3, <1>4, <1>5, NextSeqType, SortorAssumption, SMTT(30)
     DEF SortorAssumption, Seqs, SeqMax
<1> HIDE DEF next
<1>7. ASSUME NEW s \in next .. gap - 1
      PROVE  \E i \in DOMAIN e.out : e.out[i] = s
  <2> DEFINE run == Numbers(next, gap - 1)
             i == s - next + 1
  <2>1. next \in Int /\ gap \in Int /\ s \in Int /\ gap - next \in Nat
    BY <1>1, <1>3, <1>7, SortorAssumption DEF SortorAssumption, Seqs
  <2>2. run = [k \in 1 .. gap - next |-> next + k - 1]
    BY <2>1 DEF Numbers
  <2>3. run \in Seq(Int) /\ Len(run) = gap - next /\ run[i] = s /\ i \in 1 .. gap - next
    BY <1>7, <2>1, <2>2
  <2> HIDE DEF run, i
  <2>4. /\ i + 1 \in DOMAIN (<<seq>> \o run) /\ (<<seq>> \o run)[i + 1] = run[i]
    BY <2>1, <2>3
  <2>5. QED
    BY <1>4, <2>3, <2>4 DEF run
<1>8. \E i \in DOMAIN e.out : e.out[i] = seq
  <2>1. Numbers(next, gap - 1) \in Seq(Seqs)
    <3>1. gap - 1 \in Int /\ gap - 1 < SeqMod
      BY <1>1, <1>3, SortorAssumption DEF SortorAssumption, Seqs
    <3>2. QED
      BY <1>1, <3>1, NumbersType
  <2>2. 1 \in DOMAIN (<<seq>> \o Numbers(next, gap - 1))
        /\ (<<seq>> \o Numbers(next, gap - 1))[1] = seq
    BY <2>1
  <2>3. QED
    BY <1>4, <2>2
<1>9. ASSUME NEW s \in c, s \notin e.cache, \A i \in DOMAIN e.out : e.out[i] # s
      PROVE  s < seq /\ seq < SeqMax - MaxDistance
  <2>1. s \notin kept /\ s # seq
    BY <1>4, <1>7, <1>8, <1>9
  <2>2. s < next /\ ~MayLooped(next, next)
    BY <1>2, <2>1
  <2>3. QED
    BY <1>1, <2>1, <2>2, SortorAssumption
    DEF SortorAssumption, MayLooped, Seqs, SeqMax
<1>10. ASSUME NEW s \in e.cache, s # seq, s > seq \/ seq = SeqMax
       PROVE  s >= NextSeq(e.last) /\ (NextSeq(e.last) > seq \/ seq = SeqMax)
  <2>1. s \in Seqs /\ s \notin next .. gap - 1 /\ s >= next
    <3>1. s \in kept /\ s \notin next .. gap - 1
      BY <1>4, <1>10
    <3>2. s \in Seqs
      BY <1>2, <3>1
    <3>3. s >= next
      BY <1>1, <1>10, <3>2, SortorAssumption DEF SortorAssumption, Seqs, SeqMax
    <3>4. QED
      BY <3>1, <3>2, <3>3
  <2>2. s >= gap
    BY <1>1, <1>3, <2>1, SortorAssumption DEF SortorAssumption, Seqs
  <2>3. QED
    BY <1>1, <1>3, <1>6, <1>10, <2>1, <2>2, SortorAssumption DEF SortorAssumption, Seqs, SeqMax
<1>11. NextSeq(e.last) > seq \/ NextSeq(e.last) = 0 \/ seq = SeqMax
  BY <1>1, <1>3, <1>6, SortorAssumption DEF SortorAssumption, Seqs, SeqMax
<1> QED
  BY <1>9, <1>10, <1>11 DEF e

(* The map's numbers that forceFlush gives up are far ahead of the         *)
(* position the call started from, or behind the one it ends in.           *)
LEMMA FlushLosesFar ==
  ASSUME NEW c \in SUBSET Seqs, NEW next \in Seqs, NEW s \in c,
         s \notin ForceFlush(c, next).cache,
         \A i \in DOMAIN ForceFlush(c, next).out : ForceFlush(c, next).out[i] # s
  PROVE  \/ Behind(NextSeq(ForceFlush(c, next).last), s)
         \/ AheadBy(next, s) > MaxDistance
<1> DEFINE t == FlushTarget(c, next)
           e == Emit(c \ {t}, t)
           m == NextSeq(e.last)
<1>1. /\ t \in c
      /\ \A x \in c : x >= next => next <= t /\ t <= x
      /\ (\A x \in c : x < next) => \A x \in c : t <= x
  BY FlushTargetProperty
<1>2. ForceFlush(c, next) =
        [last  |-> e.last,
         cache |-> {x \in e.cache : Distance(e.last, x) <= MaxDistance},
         out   |-> e.out]
  BY DEF ForceFlush
<1> HIDE DEF t
<1>3. /\ e.last \in Seqs /\ e.cache \in SUBSET (c \ {t})
      /\ e.out \in Seq(Seqs) /\ e.out # << >> /\ e.out[1] = t
  BY <1>1, EmitProperty
<1>4. /\ s # t /\ s \in c \ {t}
      /\ \A x \in c \ {t} : x \notin e.cache /\ (\A i \in DOMAIN e.out : e.out[i] # x)
           => x < t /\ t < SeqMax - MaxDistance
      /\ \A x \in e.cache : x # t /\ (x > t \/ t = SeqMax)
           => x >= m /\ (m > t \/ t = SeqMax)
      /\ m > t \/ m = 0 \/ t = SeqMax
  <2>1. 1 \in DOMAIN e.out
    BY <1>3
  <2>2. s # t
    <3>1. ForceFlush(c, next).out = e.out
      BY <1>2
    <3>2. ForceFlush(c, next).out[1] # s
      BY <2>1, <3>1
    <3>3. QED
      BY <1>3, <3>1, <3>2
  <2>3. QED
    BY <1>1, <2>2, EmitLoses
<1>5. m \in Seqs
  BY <1>3, NextSeqType
<1>6. /\ SeqMod \in Nat /\ MaxDistance \in Nat \ {0} /\ 4 * MaxDistance < SeqMod
      /\ next \in 0 .. SeqMax /\ s \in 0 .. SeqMax /\ t \in 0 .. SeqMax /\ m \in 0 .. SeqMax
      /\ SeqMax = SeqMod - 1
      /\ AheadBy(next, s) = (IF s >= next THEN s - next ELSE s - next + SeqMod)
      /\ AheadBy(m, s) = (IF s >= m THEN s - m ELSE s - m + SeqMod)
      /\ Behind(m, s) <=> AheadBy(m, s) > SeqMax \div 2
  <2>1. s \in Seqs /\ t \in Seqs
    BY <1>1
  <2>2. AheadBy(m, s) = (IF s >= m THEN s - m ELSE s - m + SeqMod)
    BY <1>5, <2>1, AheadByValue
  <2>3. Behind(m, s) <=> AheadBy(m, s) > SeqMax \div 2
    BY <1>5, <2>1, <2>2, SortorAssumption
    DEF SortorAssumption, Behind, Ahead, Seqs, SeqMax
  <2>4. QED
    BY <1>5, <2>1, <2>2, <2>3, AheadByValue, SortorAssumption
    DEF SortorAssumption, Seqs, SeqMax
<1>7. s >= next => next <= t /\ t < s
  BY <1>1, <1>4, <1>6
<1>8. s < next /\ t < next => t < s
  <2> SUFFICES ASSUME s < next, t < next PROVE t < s
    OBVIOUS
  <2>1. \A x \in c : x < next
    BY <1>1, <1>6, SortorAssumption DEF SortorAssumption, Seqs
  <2>2. QED
    BY <1>1, <1>4, <1>6, <2>1
<1>9. CASE s \notin e.cache
  <2>1. s < t /\ t < SeqMax - MaxDistance
    BY <1>2, <1>4, <1>9, SMTT(30)
  <2>2. s < next /\ next <= t
    BY <1>6, <1>7, <1>8, <2>1
  <2>3. QED
    BY <1>6, <2>1, <2>2
<1>10. CASE s \in e.cache
  <2>1. Distance(e.last, s) > MaxDistance
    <3>1. ~(Distance(e.last, s) <= MaxDistance)
      BY <1>2, <1>10
    <3>2. Distance(e.last, s) \in Int
      BY <1>6 DEF Distance
    <3>3. QED
      BY <1>6, <3>1, <3>2
  <2>2. LET ret == IF s > m THEN s - m ELSE m - s
        IN  MaxDistance < ret /\ ret < SeqMax - MaxDistance
    <3> DEFINE ret == IF s > m THEN s - m ELSE m - s
    <3>1. Distance(e.last, s) = IF ret > SeqMax \div 2 THEN SeqMax - ret ELSE ret
      BY DEF Distance
    <3>2. ret \in Nat
      BY <1>6
    <3> HIDE DEF ret
    <3>3. QED
      BY <1>6, <2>1, <3>1, <3>2 DEF ret
  <2>3. AheadBy(m, s) > MaxDistance
    BY <1>6, <2>2
  <2> HIDE DEF m, e
  <2>4. CASE t = SeqMax
    <3>1. s >= m /\ s < next
      BY <1>4, <1>6, <1>7, <1>10, <2>4
    <3>2. QED
      BY <1>6, <2>3, <3>1
  <2>5. CASE t # SeqMax /\ s > t
    <3>1. s >= m /\ m > t
      BY <1>4, <1>10, <2>5
    <3>2. CASE s >= next
      BY <1>4, <1>6, <1>7, <2>3, <2>5, <3>1, <3>2
    <3>3. CASE s < next
      BY <1>4, <1>6, <2>3, <2>5, <3>1, <3>3
    <3>4. QED
      BY <1>6, <3>2, <3>3
  <2>6. CASE t # SeqMax /\ s < t
    <3>1. s < next /\ next <= t
      BY <1>6, <1>7, <1>8, <2>6
    <3>2. QED
      BY <1>4, <1>6, <2>3, <2>6, <3>1
  <2>7. QED
    BY <1>4, <1>6, <2>4, <2>5, <2>6
<1>11. QED
  BY <1>2, <1>9, <1>10

(* A packet that a step neither hands out nor keeps is far or passed. *)
LEMMA StepLosesFar ==
  ASSUME Inv, NEW seq \in Seqs, SortPacket(seq), NEW s \in Lost(seq)
  PROVE  \/ Behind(NextSeq(lastOut'), s)
         \/ AheadBy(NextSeq(Base(seq)), s) > MaxDistance
<1> DEFINE next == NextSeq(Base(seq))
<1>1. next \in Seqs /\ cache \in SUBSET Seqs /\ s \in Seqs
  BY BaseType, NextSeqType DEF Inv, TypeOK, Lost
<1>2. /\ s \in cache \union {seq} /\ s \notin cache'
      /\ \A i \in DOMAIN out' : out'[i] # s
  BY DEF Lost, Emitted
<1>3. AheadBy(next, s) = IF s >= next THEN s - next ELSE s - next + SeqMod
  BY <1>1, AheadByValue
<1>4. CASE OutputNext(seq)
  <2> DEFINE e == Emit(cache, seq)
  <2>1. out' = e.out /\ cache' = e.cache /\ seq = next
    BY <1>4 DEF OutputNext, Apply
  <2>2. s # seq
    <3>1. e.out \in Seq(Seqs) /\ e.out # << >> /\ e.out[1] = seq
      BY <1>1, EmitProperty
    <3>2. 1 \in DOMAIN out' /\ out'[1] = seq
      BY <2>1, <3>1
    <3>3. QED
      BY <1>2, <3>2
  <2>3. s < seq /\ seq < SeqMax - MaxDistance
    BY <1>1, <1>2, <2>1, <2>2, EmitLoses
  <2>4. AheadBy(next, s) > MaxDistance
    BY <1>1, <1>3, <2>1, <2>3, SortorAssumption DEF SortorAssumption, Seqs, SeqMax
  <2>5. QED
    BY <2>4
<1>5. CASE DropOld(seq)
  <2>1. s = seq /\ next = NextSeq(lastOut)
    BY <1>2, <1>5 DEF DropOld, Base
  <2>2. s < next /\ ~MayLooped(next, s)
    BY <1>5, <2>1 DEF DropOld, IsOld
  <2>3. AheadBy(next, s) > MaxDistance
    BY <1>1, <1>3, <2>2, SortorAssumption
    DEF SortorAssumption, MayLooped, Seqs, SeqMax
  <2>4. QED
    BY <2>3
<1>6. CASE Buffer(seq)
  <2> DEFINE c == cache \union {seq}
             f == ForceFlush(c, next)
  <2>1. next = NextSeq(lastOut) /\ s \in c /\ c \in SUBSET Seqs
    BY <1>1, <1>2, <1>6 DEF Buffer, Base
  <2>2. NeedForceFlush(c, lastOut, seq)
    BY <1>2, <1>6, <2>1 DEF Buffer
  <2>3. out' = f.out /\ cache' = f.cache /\ lastOut' = f.last
    BY <1>6, <2>1, <2>2 DEF Buffer, Apply
  <2> HIDE DEF c
  <2>4. s \notin f.cache /\ \A i \in DOMAIN f.out : f.out[i] # s
    BY <1>2, <2>3
  <2>5. Behind(NextSeq(f.last), s) \/ AheadBy(next, s) > MaxDistance
    BY <1>1, <2>1, <2>4, FlushLosesFar
  <2>6. QED
    BY <2>3, <2>5
<1>7. QED
  BY <1>4, <1>5, <1>6 DEF SortPacket

(* Nothing within reach of the position is thrown away, whatever the buffer *)
(* holds and wherever the numbers wrap (flushPacket, forceFlush and the    *)
(* filter of packets that go back).                                        *)
THEOREM NothingWithinReachIsLost == Spec => NoLossWithinReach
<1>1. Inv /\ [Next]_sortVars =>
        [\A seq \in Seqs : SortPacket(seq) =>
           \A s \in Lost(seq) : \/ Behind(NextSeq(lastOut'), s)
                                \/ AheadBy(NextSeq(Base(seq)), s) > MaxDistance
        ]_sortVars
  BY StepLosesFar
<1>2. QED
  BY <1>1, InvHolds, PTL DEF Spec, NoLossWithinReach

-----------------------------------------------------------------------------
(* output() and flushPacket() hand out the number they were called for and *)
(* the k consecutive numbers of the map after it.  What is behind them is  *)
(* only left in the map near a wrap.                                       *)
LEMMA EmitRuns ==
  ASSUME NEW c \in SUBSET Seqs, NEW seq \in Seqs
  PROVE  LET e == Emit(c, seq)
             next == NextSeq(seq)
         IN  \E k \in Nat :
               /\ next + k <= SeqMod
               /\ \A j \in 0 .. k - 1 : next + j \in c
               /\ e.last = IF k = 0 THEN seq ELSE next + k - 1
               /\ Len(e.out) = k + 1 /\ e.out[1] = seq
               /\ \A i \in 1 .. k : e.out[i + 1] = next + i - 1
               /\ \A s \in e.cache : /\ s \in c /\ s \notin next .. next + k - 1
                                     /\ s >= next \/ MayLooped(next, next)
<1> DEFINE next == NextSeq(seq)
           kept == Kept(c, next)
           gap  == FirstGap(kept, next)
           run  == Numbers(next, gap - 1)
           k    == gap - next
           e    == Emit(c, seq)
<1>1. next \in Seqs /\ kept \in SUBSET c
  BY NextSeqType DEF Kept
<1>2. gap \in next .. SeqMod /\ next .. (gap - 1) \subseteq kept
  BY <1>1, FirstGapProperty
<1>3. /\ e.last = IF gap = next THEN seq ELSE gap - 1
      /\ e.cache = kept \ (next .. gap - 1)
      /\ e.out = <<seq>> \o run
  BY DEF Emit
<1>4. \A s \in kept : s >= next \/ MayLooped(next, next)
  BY <1>1 DEF Kept
<1> HIDE DEF next, kept, gap, e
<1>5. k \in Nat /\ next \in Int /\ gap \in Int /\ next + k = gap /\ SeqMod \in Nat
  BY <1>1, <1>2, SortorAssumption DEF SortorAssumption, Seqs
<1>6. run = [i \in 1 .. k |-> next + i - 1]
  BY <1>5 DEF Numbers
<1> HIDE DEF k
<1>7. run \in Seq(Int) /\ Len(run) = k /\ \A i \in 1 .. k : run[i] = next + i - 1
  BY <1>5, <1>6
<1> HIDE DEF run
<1>8. /\ Len(e.out) = k + 1 /\ e.out[1] = seq
      /\ \A i \in 1 .. k : e.out[i + 1] = next + i - 1
  <2>1. seq \in Int
    BY SortorAssumption DEF SortorAssumption, Seqs
  <2>2. <<seq>> \in Seq(Int) /\ Len(<<seq>>) = 1 /\ <<seq>>[1] = seq
    BY <2>1
  <2>3. Len(<<seq>> \o run) = k + 1 /\ (<<seq>> \o run)[1] = seq
    BY <1>5, <1>7, <2>2
  <2>4. \A i \in 1 .. k : (<<seq>> \o run)[i + 1] = run[i]
    BY <1>5, <1>7, <2>2
  <2>5. QED
    BY <1>3, <1>7, <2>3, <2>4
<1>9. \A j \in 0 .. k - 1 : next + j \in c
  <2>1. ASSUME NEW j \in 0 .. k - 1 PROVE next + j \in next .. (gap - 1)
    BY <1>5
  <2>2. QED
    BY <1>1, <1>2, <2>1
<1>10. \A s \in e.cache : /\ s \in c /\ s \notin next .. next + k - 1
                          /\ s >= next \/ MayLooped(next, next)
  <2>1. next + k - 1 = gap - 1
    BY <1>5
  <2>2. e.cache = kept \ (next .. next + k - 1)
    BY <1>3, <2>1
  <2>3. QED
    BY <1>1, <1>4, <2>2
<1>11. next + k <= SeqMod /\ e.last = IF k = 0 THEN seq ELSE next + k - 1
  BY <1>2, <1>3, <1>5
<1>12. QED
  BY <1>5, <1>8, <1>9, <1>10, <1>11 DEF e, next

(* So they hand out nothing but what is in the map and that number.        *)
LEMMA EmitHandsOut ==
  ASSUME NEW c \in SUBSET Seqs, NEW seq \in Seqs
  PROVE  \A i \in DOMAIN Emit(c, seq).out : Emit(c, seq).out[i] \in c \union {seq}
<1> DEFINE e == Emit(c, seq)
           next == NextSeq(seq)
<1>1. PICK k \in Nat :
        /\ next + k <= SeqMod
        /\ \A j \in 0 .. k - 1 : next + j \in c
        /\ e.last = IF k = 0 THEN seq ELSE next + k - 1
        /\ Len(e.out) = k + 1 /\ e.out[1] = seq
        /\ \A i \in 1 .. k : e.out[i + 1] = next + i - 1
        /\ \A s \in e.cache : /\ s \in c /\ s \notin next .. next + k - 1
                              /\ s >= next \/ MayLooped(next, next)
  BY EmitRuns
<1>2. e.out \in Seq(Seqs)
  BY EmitProperty
<1>3. next \in Int
  BY NextSeqType, SortorAssumption DEF SortorAssumption, Seqs
<1> HIDE DEF e, next
<1>4. ASSUME NEW i \in 2 .. k + 1 PROVE e.out[i] \in c
  <2>1. i - 1 \in 1 .. k /\ (i - 1) + 1 = i /\ (i - 1) - 1 \in 0 .. k - 1
    BY <1>1
  <2>2. e.out[i] = next + (i - 1) - 1 /\ next + (i - 1) - 1 = next + ((i - 1) - 1)
    BY <1>1, <1>3, <2>1
  <2>3. QED
    BY <1>1, <2>1, <2>2
<1>5. DOMAIN e.out = 1 .. k + 1
  BY <1>1, <1>2
<1>6. QED
  BY <1>1, <1>4, <1>5 DEF e

(* The buffer makes nothing up: what it holds or hands out after a packet  *)
(* it held before, or is that packet.                                      *)
LEMMA NothingIsMadeUp ==
  ASSUME Inv, NEW seq \in Seqs, SortPacket(seq)
  PROVE  cache' \union Emitted \subseteq cache \union {seq}
<1>1. cache \in SUBSET Seqs /\ lastOut \in Seqs
  BY DEF Inv, TypeOK
<1>2. CASE OutputNext(seq)
  <2>1. cache' = Emit(cache, seq).cache /\ out' = Emit(cache, seq).out
    BY <1>2 DEF OutputNext, Apply
  <2>2. Emit(cache, seq).cache \subseteq cache
    BY <1>1, EmitProperty
  <2>3. QED
    BY <1>1, <2>1, <2>2, EmitHandsOut DEF Emitted
<1>3. CASE DropOld(seq)
  BY <1>3 DEF DropOld, Emitted
<1>4. CASE Buffer(seq)
  <2> DEFINE c == cache \union {seq}
             t == FlushTarget(c, NextSeq(lastOut))
             f == ForceFlush(c, NextSeq(lastOut))
  <2>1. CASE NeedForceFlush(c, lastOut, seq)
    <3>1. cache' = f.cache /\ out' = f.out
      BY <1>4, <2>1 DEF Buffer, Apply
    <3>2. c \in SUBSET Seqs /\ c # {} /\ NextSeq(lastOut) \in Seqs
      BY <1>1, NextSeqType
    <3>3. f.cache \subseteq c /\ t \in c
      BY <3>2, ForceFlushProperty, FlushTargetProperty
    <3>4. f.out = Emit(c \ {t}, t).out
      BY DEF ForceFlush
    <3> HIDE DEF f, c, t
    <3>5. \A i \in DOMAIN f.out : f.out[i] \in c
      <4>1. c \ {t} \in SUBSET Seqs /\ t \in Seqs
        BY <3>2, <3>3
      <4>2. QED
        BY <3>3, <3>4, <4>1, EmitHandsOut
    <3>6. QED
      BY <3>1, <3>3, <3>5 DEF Emitted, c
  <2>2. CASE ~NeedForceFlush(c, lastOut, seq)
    BY <1>4, <2>2 DEF Buffer, Emitted
  <2>3. QED
    BY <2>1, <2>2
<1>5. QED
  BY <1>2, <1>3, <1>4 DEF SortPacket
=============================================================================
