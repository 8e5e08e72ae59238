------------------------------ MODULE LogProofs ------------------------------
(***************************************************************************)
(* Theorems about Log, for any number of threads, buffers, lines and days. *)
(* The types and the assertion hold also when the logger's thread is       *)
(* preempted for as long as one likes: the invariant is Inv. That lines    *)
(* reach the files in order needs more: what a reader makes of the files   *)
(* (LinesOf, by induction over their indices), and IInv, which says how    *)
(* the buffers share the lines that are taken and not yet written.         *)
(***************************************************************************)
EXTENDS Log, FiniteSetTheorems, SequenceTheorems, WellFoundedInduction, TLAPS

(* The lines that are not in FULL buffers are in the current one.           *)
OthersAreEmpty ==
  \A i \in 1 .. Len(ring) : i # curr /\ ~ring[i].full => ring[i].used = 0

Inv == TypeOK /\ OthersAreEmpty

-----------------------------------------------------------------------------
(* Typing of the operators on buffers                                      *)

(* Put keeps the type of a buffer, and FULL as it is. *)
LEMMA PutType ==
  ASSUME NEW buf \in Buffers, NEW line \in Nat, NEW len \in Lengths
  PROVE  /\ Put(buf, line, len) \in Buffers
         /\ Put(buf, line, len).full = buf.full
<1>1. len \in Nat /\ Room \in Nat
  BY LogAssumption
<1>2. CASE Fits(buf, len)
  <2>1. buf.used + len \in 0 .. Room
    BY <1>1, <1>2 DEF Fits, Buffers
  <2>2. Append(buf.data, line) \in Seq(Nat)
    BY DEF Buffers
  <2>3. QED
    BY <1>2, <2>1, <2>2 DEF Put, Buffers
<1>3. CASE ~Fits(buf, len)
  BY <1>3 DEF Put
<1>4. QED
  BY <1>2, <1>3

(* So does a buffer's first line. *)
LEMMA StartedType ==
  ASSUME TypeOK, NEW buf \in Buffers, NEW len \in Lengths
  PROVE  /\ Started(buf, len) \in Buffers
         /\ Started(buf, len).full = buf.full
<1>1. taken + 1 \in Nat
  BY DEF TypeOK
<1>2. QED
  BY <1>1, PutType DEF Started

(* An empty buffer. *)
LEMMA EmptyType == EmptyBuffer \in Buffers /\ ~EmptyBuffer.full /\ EmptyBuffer.used = 0
  BY LogAssumption DEF EmptyBuffer, Buffers

(* The lines that are taken are counted. *)
LEMMA TakenType ==
  ASSUME TypeOK, NEW took \in BOOLEAN, TakenIf(took)
  PROVE  taken' \in Nat
  BY DEF TakenIf, TypeOK

(* The ring has two buffers at least, and curr is one of them. *)
LEMMA RingProperty ==
  ASSUME TypeOK
  PROVE  /\ Len(ring) \in Nat /\ Len(ring) >= 2
         /\ \A i \in 1 .. Len(ring) : ring[i] \in Buffers
         /\ curr \in 1 .. Len(ring)
  BY LogAssumption DEF TypeOK

(* The last buffer is followed by the first. *)
LEMMA AfterValue ==
  ASSUME TypeOK, NEW i \in 1 .. Len(ring)
  PROVE  After(i) = IF i = Len(ring) THEN 1 ELSE i + 1
<1>1. Len(ring) \in Nat /\ Len(ring) >= 2
  BY RingProperty
<1>2. CASE i = Len(ring)
  <2>1. i % Len(ring) = 0
    BY <1>1, <1>2
  <2>2. QED
    BY <1>1, <1>2, <2>1 DEF After
<1>3. CASE i # Len(ring)
  <2>1. i % Len(ring) = i
    BY <1>1, <1>3
  <2>2. QED
    BY <1>1, <1>3, <2>1 DEF After
<1>4. QED
  BY <1>2, <1>3

(* What follows a buffer is another one. *)
LEMMA AfterProperty ==
  ASSUME TypeOK, NEW i \in 1 .. Len(ring)
  PROVE  After(i) \in 1 .. Len(ring) /\ After(i) # i
BY RingProperty, AfterValue

(* A function on 1 .. n is a ring. *)
LEMMA SequenceOfBuffers ==
  ASSUME NEW n \in Nat, NEW f \in [1 .. n -> Buffers]
  PROVE  f \in Seq(Buffers) /\ Len(f) = n
<1>1. f \in Seq(Buffers)
  BY SeqDef
<1>2. QED
  BY <1>1, LenProperties

(* Marking a buffer as FULL changes no other one. *)
LEMMA FilledProperty ==
  ASSUME TypeOK, NEW k \in 1 .. Len(ring)
  PROVE  /\ Filled(k) \in Seq(Buffers) /\ Len(Filled(k)) = Len(ring)
         /\ \A i \in 1 .. Len(ring) : i # k => Filled(k)[i] = ring[i]
         /\ Filled(k)[k].full
<1>1. ring \in [1 .. Len(ring) -> Buffers] /\ Len(ring) \in Nat
  BY RingProperty, LenProperties DEF TypeOK
<1>2. [ring[k] EXCEPT !.full = TRUE] \in Buffers
  BY <1>1 DEF Buffers
<1>3. Filled(k) \in [1 .. Len(ring) -> Buffers]
  BY <1>1, <1>2 DEF Filled
<1>4. QED
  BY <1>1, <1>3, SequenceOfBuffers DEF Filled, Buffers

(* Nor does it change lines. *)
LEMMA FilledLines ==
  ASSUME TypeOK, NEW k \in 1 .. Len(ring)
  PROVE  \A i \in 1 .. Len(ring) : Filled(k)[i].data = ring[i].data
<1>1. ring \in [1 .. Len(ring) -> Buffers] /\ Len(ring) \in Nat
  BY RingProperty, LenProperties DEF TypeOK
<1>2. QED
  BY <1>1 DEF Filled, Buffers

-----------------------------------------------------------------------------
(* One step per branch of append(), then one per statement of persist().    *)

(* A line goes to the current buffer. *)
LEMMA AppendHereStep ==
  ASSUME Inv, NEW t \in Threads, NEW len \in Lengths,
         AppendHere(t, len), UNCHANGED <<persist, faults>>
  PROVE  Inv'
<1> DEFINE buf == Put(ring[curr], taken + 1, len)
<1>1. ring[curr] \in Buffers /\ curr \in 1 .. Len(ring) /\ taken + 1 \in Nat
  BY RingProperty DEF Inv, TypeOK
<1>2. buf \in Buffers /\ buf.full = ring[curr].full
  BY <1>1, PutType
<1> HIDE DEF buf
<1>3. ring' = [ring EXCEPT ![curr] = buf]
  BY DEF AppendHere, buf
<1>4. /\ ring' \in Seq(Buffers) /\ Len(ring') = Len(ring)
      /\ \A i \in 1 .. Len(ring) : ring'[i] = IF i = curr THEN buf ELSE ring[i]
  BY <1>1, <1>2, <1>3, ExceptSeq DEF Inv, TypeOK
<1>5. taken' \in Nat
  BY TakenType DEF Inv, AppendHere
<1>6. TypeOK'
  <2>1. pc' \in [Threads -> {"idle", "entered", "locking", "refused"}]
    BY DEF AppendHere, Inv, TypeOK
  <2>2. persist' \in {"writing", "clearing"} => ring'[1].full
    BY <1>2, <1>4, RingProperty DEF Inv, TypeOK
  <2>3. QED
    BY <1>4, <1>5, <2>1, <2>2 DEF AppendHere, Inv, TypeOK
<1>7. OthersAreEmpty'
  BY <1>4 DEF AppendHere, Inv, OthersAreEmpty
<1>8. QED
  BY <1>6, <1>7 DEF Inv

(* The next buffer becomes the current one. *)
LEMMA MoveOnStep ==
  ASSUME Inv, NEW t \in Threads, NEW len \in Lengths,
         MoveOn(t, len), UNCHANGED <<persist, faults>>
  PROVE  Inv'
<1> DEFINE next == After(curr)
           buf == Started(ring[next], len)
<1>1. /\ curr \in 1 .. Len(ring) /\ next \in 1 .. Len(ring) /\ next # curr
      /\ ring[next] \in Buffers /\ Len(ring) \in Nat
  BY RingProperty, AfterProperty DEF Inv
<1> HIDE DEF next
<1>2. buf \in Buffers /\ buf.full = ring[next].full
  BY <1>1, StartedType DEF Inv
<1>3. Filled(curr)[next] = ring[next]
  BY <1>1, FilledProperty DEF Inv
<1>4. ring' = [Filled(curr) EXCEPT ![next] = buf] /\ curr' = next
  BY <1>3 DEF MoveOn, next
<1> HIDE DEF buf
<1>5. /\ ring' \in Seq(Buffers) /\ Len(ring') = Len(ring)
      /\ \A i \in 1 .. Len(ring) : ring'[i] = IF i = next THEN buf ELSE Filled(curr)[i]
  BY <1>1, <1>2, <1>4, FilledProperty, ExceptSeq DEF Inv
<1>6. ring'[curr].full /\ \A i \in 1 .. Len(ring) : i \notin {curr, next} => ring'[i] = ring[i]
  BY <1>1, <1>5, FilledProperty DEF Inv
<1>7. taken' \in Nat
  <2>1. TakenIf(lastDrop = "never" /\ Fits(ring[curr'], len))
    BY DEF MoveOn
  <2>2. QED
    BY <2>1, TakenType DEF Inv
<1>8. TypeOK'
  <2>1. pc' \in [Threads -> {"idle", "entered", "locking", "refused"}]
    BY DEF MoveOn, Inv, TypeOK
  <2>2. ASSUME persist' \in {"writing", "clearing"} PROVE ring'[1].full
    <3>1. ring[1].full /\ 1 \in 1 .. Len(ring)
      BY <2>2, RingProperty DEF Inv, TypeOK
    <3>2. QED
      BY <1>2, <1>5, <1>6, <3>1
  <2>3. QED
    BY <1>1, <1>4, <1>5, <1>7, <2>1, <2>2 DEF MoveOn, Inv, TypeOK
<1>9. OthersAreEmpty'
  BY <1>1, <1>4, <1>5, <1>6 DEF Inv, OthersAreEmpty
<1>10. QED
  BY <1>8, <1>9 DEF Inv

(* The ring grows by a buffer. *)
LEMMA GrowStep ==
  ASSUME Inv, NEW t \in Threads, NEW len \in Lengths,
         Grow(t, len), UNCHANGED <<persist, faults>>
  PROVE  Inv'
<1> DEFINE buf == Started(EmptyBuffer, len)
<1>1. curr \in 1 .. Len(ring) /\ Len(ring) \in Nat /\ Len(ring) >= 2
      /\ \A i \in 1 .. Len(ring) : ring[i] \in Buffers
  BY RingProperty DEF Inv
<1>2. buf \in Buffers
  BY EmptyType, StartedType DEF Inv
<1> HIDE DEF buf
<1>3. /\ curr' = curr + 1
      /\ ring' = [i \in 1 .. Len(ring) + 1 |->
                    IF i < curr + 1 THEN Filled(curr)[i]
                    ELSE IF i = curr + 1 THEN buf ELSE ring[i - 1]]
  BY DEF Grow, buf
<1>4. \A i \in 1 .. Len(ring) : Filled(curr)[i] \in Buffers
  BY <1>1, FilledProperty, ElementOfSeq DEF Inv
<1>5. ring' \in [1 .. Len(ring) + 1 -> Buffers]
  BY <1>1, <1>2, <1>3, <1>4
<1>6. ring' \in Seq(Buffers) /\ Len(ring') = Len(ring) + 1
  BY <1>1, <1>5, SequenceOfBuffers
<1>7. taken' \in Nat
  <2>1. TakenIf(lastDrop = "never")
    BY DEF Grow
  <2>2. QED
    BY <2>1, TakenType DEF Inv
<1>8. TypeOK'
  <2>1. pc' \in [Threads -> {"idle", "entered", "locking", "refused"}]
    BY DEF Grow, Inv, TypeOK
  <2>2. ASSUME persist' \in {"writing", "clearing"} PROVE ring'[1].full
    <3>1. ring[1].full
      BY <2>2 DEF Inv, TypeOK
    <3>2. ring'[1] = Filled(curr)[1]
      BY <1>1, <1>3
    <3>3. QED
      BY <1>1, <3>1, <3>2, FilledProperty DEF Inv
  <2>3. Len(ring') \in FirstBuffers .. MaxBuffers
    BY <1>1, <1>6, LogAssumption DEF Grow, Inv, TypeOK
  <2>4. curr' \in 1 .. Len(ring')
    BY <1>1, <1>3, <1>6
  <2>5. QED
    BY <1>6, <1>7, <2>1, <2>2, <2>3, <2>4 DEF Grow, Inv, TypeOK
<1>9. OthersAreEmpty'
  <2> SUFFICES ASSUME NEW i \in 1 .. Len(ring) + 1, i # curr + 1, ~ring'[i].full
               PROVE  ring'[i].used = 0
    BY <1>3, <1>6 DEF OthersAreEmpty
  <2>1. CASE i < curr + 1
    BY <1>1, <1>3, <2>1, FilledProperty DEF Inv, OthersAreEmpty
  <2>2. CASE i > curr + 1
    BY <1>1, <1>3, <2>2 DEF Inv, OthersAreEmpty
  <2>3. QED
    BY <1>1, <2>1, <2>2
<1>10. QED
  BY <1>8, <1>9 DEF Inv

(* All buffers are FULL: the line is refused. *)
LEMMA NoMoreSpaceStep ==
  ASSUME Inv, NEW t \in Threads, NEW len \in Lengths,
         NoMoreSpace(t, len), UNCHANGED <<persist, faults>>
  PROVE  Inv'
<1> DEFINE next == After(curr)
<1>1. /\ curr \in 1 .. Len(ring) /\ next \in 1 .. Len(ring) /\ next # curr
      /\ ring[next] \in Buffers /\ ring[next].full /\ Len(ring) \in Nat
  BY RingProperty, AfterProperty DEF Inv, NoMoreSpace
<1>2. curr' = next /\ ring' = Filled(curr) /\ UNCHANGED taken
  BY DEF NoMoreSpace
<1> HIDE DEF next
<1>3. /\ ring' \in Seq(Buffers) /\ Len(ring') = Len(ring)
      /\ ring'[curr].full /\ ring'[next].full
      /\ \A i \in 1 .. Len(ring) : i # curr => ring'[i] = ring[i]
  BY <1>1, <1>2, FilledProperty DEF Inv
<1>4. TypeOK'
  <2>1. pc' \in [Threads -> {"idle", "entered", "locking", "refused"}]
    BY DEF NoMoreSpace, Inv, TypeOK
  <2>2. lastDrop' \in {"never", "now", "old"} /\ refused' \in Lengths \union {0}
    BY DEF NoMoreSpace
  <2>3. persist' \in {"writing", "clearing"} => ring'[1].full
    BY <1>1, <1>3, RingProperty DEF Inv, TypeOK
  <2>4. QED
    BY <1>1, <1>2, <1>3, <2>1, <2>2, <2>3 DEF Inv, TypeOK
<1>5. OthersAreEmpty'
  BY <1>1, <1>2, <1>3 DEF Inv, OthersAreEmpty
<1>6. QED
  BY <1>4, <1>5 DEF Inv

(* What a buffer is when a line got in that was refused.                    *)
LEMMA IntrudedType ==
  ASSUME TypeOK, NEW old \in Buffers, Fits(old, refused), NEW buf \in Intruded(old)
  PROVE  buf \in Buffers /\ buf.full = old.full /\ buf.data = Append(old.data, Stray)
<1>1. Room \in Nat /\ refused \in Nat /\ old.used \in Nat /\ old.used + refused <= Room
  <2>1. Room \in Nat /\ \A len \in Lengths : len \in Nat
    BY LogAssumption
  <2>2. refused \in Nat
    BY <2>1 DEF TypeOK
  <2>3. old.used \in Nat
    BY <2>1 DEF Buffers
  <2>4. QED
    BY <2>1, <2>2, <2>3 DEF Fits
<1>2. Append(old.data, Stray) \in Seq(Nat)
  BY DEF Buffers, Stray
<1>3. PICK n \in 0 .. Room : buf = [old EXCEPT !.data = Append(old.data, Stray), !.used = n]
  <2>1. PICK n \in old.used + refused .. (IF persist = "leaving" /\ curr = 1 THEN Room
                                         ELSE old.used + refused) :
          buf = [old EXCEPT !.data = Append(@, Stray), !.used = n]
    BY DEF Intruded
  <2>2. n \in 0 .. Room
    BY <1>1, <2>1
  <2>3. QED
    BY <2>1, <2>2
<1>4. QED
  BY <1>2, <1>3 DEF Buffers

(* The refused line is gone, or gets into the current buffer. *)
LEMMA SettleStep ==
  ASSUME Inv, NEW t \in Threads, Settle(t)
  PROVE  Inv'
<1>1. /\ pc' \in [Threads -> {"idle", "entered", "locking", "refused"}]
      /\ refused' \in Lengths \union {0}
      /\ UNCHANGED <<curr, lastDrop, persist, taken, faults>>
  BY DEF Settle, Inv, TypeOK
<1>2. /\ ring' \in Seq(Buffers) /\ Len(ring') = Len(ring)
      /\ \A i \in 1 .. Len(ring) : /\ i # curr => ring'[i] = ring[i]
                                  /\ ring'[i].full = ring[i].full
  <2>1. CASE lastDrop = "never" /\ Fits(ring[curr], refused)
    <3>1. PICK buf \in Intruded(ring[curr]) : ring' = [ring EXCEPT ![curr] = buf]
      BY <2>1 DEF Settle
    <3>2. ring[curr] \in Buffers /\ curr \in 1 .. Len(ring)
      BY RingProperty DEF Inv
    <3>3. buf \in Buffers /\ buf.full = ring[curr].full
      BY <2>1, <3>2, IntrudedType DEF Inv
    <3>4. QED
      BY <3>1, <3>2, <3>3, ExceptSeq DEF Inv, TypeOK
  <2>2. CASE ~(lastDrop = "never" /\ Fits(ring[curr], refused))
    BY <2>2 DEF Settle, Inv, TypeOK
  <2>3. QED
    BY <2>1, <2>2
<1>3. TypeOK'
  BY <1>1, <1>2, RingProperty DEF Inv, TypeOK
<1>4. OthersAreEmpty'
  BY <1>1, <1>2 DEF Inv, OthersAreEmpty
<1>5. QED
  BY <1>3, <1>4 DEF Inv

(* The current buffer is FULL, and the line is dropped. *)
LEMMA CurrentIsFullStep ==
  ASSUME Inv, NEW t \in Threads, NEW len \in Lengths,
         CurrentIsFull(t, len), UNCHANGED <<persist, faults>>
  PROVE  Inv'
<1>1. pc' \in [Threads -> {"idle", "entered", "locking", "refused"}]
  BY DEF CurrentIsFull, Inv, TypeOK
<1>2. TypeOK'
  BY <1>1 DEF CurrentIsFull, ringVars, Inv, TypeOK
<1>3. OthersAreEmpty'
  BY DEF CurrentIsFull, ringVars, Inv, OthersAreEmpty
<1>4. QED
  BY <1>2, <1>3 DEF Inv

(* When the buffer that is picked is not FULL, it is the current one: the  *)
(* assertion in persist(). So it is marked, whichever of the two is marked. *)
LEMMA AssertionHolds == Inv => PersistsTheCurrent
<1>1. Inv => 1 \in 1 .. Len(ring)
  BY RingProperty DEF Inv
<1>2. QED
  BY <1>1 DEF Inv, OthersAreEmpty, PersistsTheCurrent

(* A buffer is picked, and marked where it was not FULL. *)
LEMMA PickStep == Inv /\ Pick => Inv'
<1> SUFFICES ASSUME Inv, Pick PROVE Inv'
  OBVIOUS
<1>1. /\ curr \in 1 .. Len(ring) /\ Len(ring) \in Nat /\ Len(ring) >= 2
      /\ persist' = "writing" /\ UNCHANGED <<lastDrop, pc, refused, taken, faults>>
  BY RingProperty DEF Inv, Pick, appendVars, logVars
<1>2. CASE ring[1].full
  <2>1. UNCHANGED <<ring, curr>>
    BY <1>2 DEF Pick, ringVars
  <2>2. TypeOK'
    BY <1>1, <1>2, <2>1 DEF Inv, TypeOK
  <2>3. OthersAreEmpty'
    BY <2>1 DEF Inv, OthersAreEmpty
  <2>4. QED
    BY <2>2, <2>3 DEF Inv
<1>3. CASE ~ring[1].full
  <2>1. curr = 1
    BY <1>3, AssertionHolds DEF Pick, PersistsTheCurrent
  <2>2. ring' = Filled(curr) /\ curr' = After(curr)
    BY <1>3 DEF Pick
  <2>3. curr' \in 1 .. Len(ring)
    BY <1>1, <2>2, AfterProperty DEF Inv
  <2>4. /\ ring' \in Seq(Buffers) /\ Len(ring') = Len(ring) /\ ring'[1].full
        /\ \A i \in 1 .. Len(ring) : i # 1 => ring'[i] = ring[i]
    BY <1>1, <2>1, <2>2, FilledProperty DEF Inv
  <2>5. TypeOK'
    BY <1>1, <2>3, <2>4 DEF Inv, TypeOK
  <2>6. OthersAreEmpty'
    BY <2>1, <2>4 DEF Inv, OthersAreEmpty
  <2>7. QED
    BY <2>5, <2>6 DEF Inv
<1>4. QED
  BY <1>2, <1>3

(* The buffer that was written is cleared. *)
LEMMA ClearStep == Inv /\ ClearBuffer => Inv'
<1> SUFFICES ASSUME Inv, ClearBuffer PROVE Inv'
  OBVIOUS
<1>1. 1 \in 1 .. Len(ring) /\ Len(ring) \in Nat
  BY RingProperty DEF Inv
<1>2. /\ ring' \in Seq(Buffers) /\ Len(ring') = Len(ring)
      /\ \A i \in 1 .. Len(ring) : ring'[i] = IF i = 1 THEN EmptyBuffer ELSE ring[i]
  BY <1>1, EmptyType, ExceptSeq DEF ClearBuffer, Inv, TypeOK
<1>3. TypeOK'
  BY <1>2 DEF ClearBuffer, appendVars, logVars, Inv, TypeOK
<1>4. OthersAreEmpty'
  BY <1>2, EmptyType DEF ClearBuffer, Inv, OthersAreEmpty
<1>5. QED
  BY <1>3, <1>4 DEF Inv

(* The ring is seen from the next buffer on. *)
LEMMA LeaveStep == Inv /\ LeaveBuffer => Inv'
<1> SUFFICES ASSUME Inv, LeaveBuffer PROVE Inv'
  OBVIOUS
<1>1. /\ curr \in 1 .. Len(ring) /\ Len(ring) \in Nat /\ Len(ring) >= 2
      /\ \A i \in 1 .. Len(ring) : ring[i] \in Buffers /\ After(i) \in 1 .. Len(ring)
      /\ DOMAIN ring = 1 .. Len(ring)
  BY RingProperty, AfterProperty, LenProperties DEF Inv, TypeOK
<1>2. ring' = [i \in 1 .. Len(ring) |-> ring[After(i)]]
  BY <1>1 DEF LeaveBuffer
<1>3. ring' \in [1 .. Len(ring) -> Buffers]
  BY <1>1, <1>2
<1>4. ring' \in Seq(Buffers) /\ Len(ring') = Len(ring)
  BY <1>1, <1>3, SequenceOfBuffers
<1>5. curr' \in 1 .. Len(ring)
  <2>1. CASE curr = 1
    BY <1>1, <2>1 DEF LeaveBuffer
  <2>2. CASE curr # 1
    BY <1>1, <2>2 DEF LeaveBuffer
  <2>3. QED
    BY <2>1, <2>2
<1>6. ASSUME NEW i \in 1 .. Len(ring), After(i) = curr PROVE i = curr'
  <2>1. CASE i = Len(ring)
    <3>1. curr = 1
      BY <1>6, <2>1, AfterValue DEF Inv
    <3>2. QED
      BY <2>1, <3>1 DEF LeaveBuffer
  <2>2. CASE i # Len(ring)
    <3>1. curr = i + 1
      BY <1>6, <2>2, AfterValue DEF Inv
    <3>2. curr # 1 /\ curr - 1 = i
      BY <1>1, <3>1
    <3>3. QED
      BY <3>2 DEF LeaveBuffer
  <2>3. QED
    BY <2>1, <2>2
<1>7. TypeOK'
  BY <1>1, <1>4, <1>5 DEF LeaveBuffer, appendVars, logVars, Inv, TypeOK
<1>8. OthersAreEmpty'
  BY <1>1, <1>2, <1>4, <1>6 DEF Inv, OthersAreEmpty
<1>9. QED
  BY <1>7, <1>8 DEF Inv

-----------------------------------------------------------------------------
(* The ring that the logger starts with. *)
LEMMA InitInv == Init => Inv
<1> SUFFICES ASSUME Init PROVE Inv
  OBVIOUS
<1>1. FirstBuffers \in Nat /\ FirstBuffers >= 2 /\ MaxBuffers \in Nat /\ FirstBuffers <= MaxBuffers
  BY LogAssumption
<1>2. ring \in [1 .. FirstBuffers -> Buffers] /\ \A i \in 1 .. FirstBuffers : ring[i].used = 0
  BY EmptyType DEF Init
<1>3. ring \in Seq(Buffers) /\ Len(ring) = FirstBuffers
  BY <1>1, <1>2, SequenceOfBuffers
<1>4. TypeOK
  BY <1>1, <1>3 DEF Init, TypeOK
<1>5. QED
  BY <1>2, <1>3, <1>4 DEF Inv, OthersAreEmpty

(* Every step keeps the types, and the lines in FULL buffers or the        *)
(* current one.                                                            *)
LEMMA StepInv == Inv /\ [Next]_vars => Inv'
<1> SUFFICES ASSUME Inv, [Next]_vars PROVE Inv'
  OBVIOUS
<1>1. ASSUME NEW t \in Threads, Enter(t) \/ ForgetDrop(t) PROVE Inv'
  <2>1. pc' \in [Threads -> {"idle", "entered", "locking", "refused"}]
    BY <1>1 DEF Enter, ForgetDrop, Inv, TypeOK
  <2>2. QED
    BY <1>1, <2>1 DEF Enter, ForgetDrop, ringVars, logVars, Inv, TypeOK, OthersAreEmpty
<1>2. ASSUME NEW t \in Threads, NEW len \in Lengths, AppendLine(t, len) PROVE Inv'
  BY <1>2, AppendHereStep, MoveOnStep, GrowStep, NoMoreSpaceStep, CurrentIsFullStep DEF AppendLine
<1>3. CASE Pick
  BY <1>3, PickStep
<1>4. CASE OpenFails \/ WriteOut
  <2>1. faults' \in Nat
    BY <1>4 DEF OpenFails, WriteOut, logVars, Inv, TypeOK
  <2>2. QED
    BY <1>4, <2>1 DEF OpenFails, WriteOut, ringVars, appendVars, logVars, Inv, TypeOK, OthersAreEmpty
<1>5. CASE ClearBuffer
  BY <1>5, ClearStep
<1>6. CASE LeaveBuffer
  BY <1>6, LeaveStep
<1>7. CASE DropAges \/ Midnight
  BY <1>7 DEF DropAges, Midnight, ringVars, appendVars, logVars, Inv, TypeOK, OthersAreEmpty
<1>8. CASE UNCHANGED vars
  BY <1>8 DEF vars, ringVars, appendVars, logVars, Inv, TypeOK, OthersAreEmpty
<1>9. ASSUME NEW t \in Threads, Settle(t) PROVE Inv'
  BY <1>9, SettleStep
<1>10. QED
  BY <1>1, <1>2, <1>3, <1>4, <1>5, <1>6, <1>7, <1>8, <1>9 DEF Next, Logger, Release

(***************************************************************************)
(* The logger's state keeps its types; what its thread works on outside    *)
(* the mutex is FULL, so that no other thread writes to it.                *)
(***************************************************************************)
THEOREM LogTypeCorrect == Spec => []TypeOK
<1>1. Inv => TypeOK
  BY DEF Inv
<1>2. QED
  BY <1>1, InitInv, StepInv, PTL DEF Spec

(***************************************************************************)
(* assert(_currBuf == _prstBuf) never fails, in rings of any size and      *)
(* wherever the logger's thread is preempted.                              *)
(***************************************************************************)
THEOREM AssertionNeverFails == Spec => []PersistsTheCurrent
<1>1. QED
  BY InitInv, StepInv, AssertionHolds, PTL DEF Spec

-----------------------------------------------------------------------------
(* The lines of files                                                      *)

(* A non-empty set of naturals has a least element. *)
LEMMA LeastElement ==
  ASSUME NEW T \in SUBSET Nat, T # {}
  PROVE  \E x \in T : \A y \in T : x <= y
<1> DEFINE F == {0 .. x : x \in T}
<1>1. F \subseteq FiniteSubsetsOf(Nat) /\ F # {}
  <2>1. ASSUME NEW x \in T
        PROVE  0 .. x \in SUBSET Nat /\ IsFiniteSet(0 .. x)
    <3>1. 0 \in Int /\ x \in Int
      OBVIOUS
    <3> QED
      BY <3>1, FS_Interval
  <2> QED
    BY <2>1 DEF FiniteSubsetsOf
<1>2. PICK I \in F : \A J \in F : ~ (<<J, I>> \in StrictSubsetOrdering(Nat))
  BY <1>1, FS_StrictSubsetOrderingWellFounded, WFMin
<1>3. PICK x \in T : I = 0 .. x
  BY <1>2
<1>4. ASSUME NEW y \in T, y < x
      PROVE  FALSE
  <2>1. 0 .. y \in F /\ 0 .. y \subseteq 0 .. x /\ x \in 0 .. x /\ x \notin 0 .. y
    BY <1>4
  <2>2. <<0 .. y, 0 .. x>> \in StrictSubsetOrdering(Nat)
    BY <2>1, <1>1, <1>2, <1>3 DEF StrictSubsetOrdering
  <2> QED
    BY <2>1, <2>2, <1>2, <1>3
<1> QED
  BY <1>4

(* Induction: a set of naturals that has 0 and every successor up to a     *)
(* bound has all numbers up to it.                                         *)
LEMMA SetInduction ==
  ASSUME NEW bound \in Nat, NEW T \in SUBSET Nat, 0 \in T,
         \A n \in T : n < bound => n + 1 \in T
  PROVE  0 .. bound \subseteq T
<1> DEFINE Out == (0 .. bound) \ T
<1>1. SUFFICES ASSUME Out # {} PROVE FALSE
  OBVIOUS
<1> Out \in SUBSET Nat
  OBVIOUS
<1>2. PICK k \in Out : \A y \in Out : k <= y
  BY <1>1, LeastElement
<1>3. k \in 0 .. bound /\ k # 0 /\ k \notin T
  BY <1>2
<1>4. k - 1 \in 0 .. bound /\ k - 1 \notin Out
  BY <1>2, <1>3
<1>5. k - 1 \in T /\ k - 1 < bound
  BY <1>3, <1>4
<1>6. (k - 1) + 1 \in T
  BY <1>5
<1>7. QED
  BY <1>3, <1>6

FileOf(fs, i) == IF i \in DOMAIN fs THEN fs[i] ELSE <<>>

Holds(fs) == \A i \in DOMAIN fs : fs[i] \in Seq(Nat)

(* below[n] are the lines of the files under the index n.                   *)
AreBelow(below, fs, top) ==
  below = [n \in 0 .. top + 1 |->
             IF n = 0 THEN <<>> ELSE FileOf(fs, n - 1) \o below[n - 1]]

(* They exist, file by file. *)
LEMMA BelowExists ==
  ASSUME NEW fs, NEW top \in Nat
  PROVE  \E below : AreBelow(below, fs, top)
<1> DEFINE Made(below, k) == below = [n \in 0 .. k |->
                               IF n = 0 THEN <<>> ELSE FileOf(fs, n - 1) \o below[n - 1]]
           T == {k \in Nat : \E below : Made(below, k)}
<1>1. 0 \in T
  <2> DEFINE below == [n \in 0 .. 0 |-> <<>>]
  <2>1. Made(below, 0)
    OBVIOUS
  <2>2. QED
    BY <2>1
<1>2. ASSUME NEW k \in T PROVE k + 1 \in T
  <2>1. k \in Nat
    OBVIOUS
  <2>2. PICK below : Made(below, k)
    OBVIOUS
  <2> DEFINE next == [n \in 0 .. k + 1 |->
                        IF n = 0 THEN <<>> ELSE FileOf(fs, n - 1) \o below[n - 1]]
  <2>3. ASSUME NEW n \in 0 .. k PROVE next[n] = below[n]
    <3>1. n \in 0 .. k + 1
      BY <2>1
    <3>2. below[n] = IF n = 0 THEN <<>> ELSE FileOf(fs, n - 1) \o below[n - 1]
      BY <2>2
    <3>3. QED
      BY <3>1, <3>2
  <2>4. \A n \in 0 .. k + 1 : n # 0 => n - 1 \in 0 .. k
    BY <2>1
  <2>5. next = [n \in 0 .. k + 1 |->
                  IF n = 0 THEN <<>> ELSE FileOf(fs, n - 1) \o next[n - 1]]
    <3>1. ASSUME NEW n \in 0 .. k + 1, n # 0
          PROVE  FileOf(fs, n - 1) \o below[n - 1] = FileOf(fs, n - 1) \o next[n - 1]
      <4>1. next[n - 1] = below[n - 1]
        BY <2>3, <2>4, <3>1
      <4> HIDE DEF next
      <4>2. QED
        BY <4>1
    <3>2. QED
      BY <3>1, Zenon
  <2>6. Made(next, k + 1)
    BY <2>5
  <2> HIDE DEF next, Made
  <2>7. k + 1 \in Nat /\ \E t : Made(t, k + 1)
    BY <2>1, <2>6
  <2>8. QED
    BY <2>7
<1>3. top + 1 \in T
  <2>1. T \in SUBSET Nat
    OBVIOUS
  <2> HIDE DEF T, Made
  <2>2. top + 1 \in Nat
    OBVIOUS
  <2>3. 0 .. top + 1 \subseteq T
    BY <1>1, <1>2, <2>1, <2>2, SetInduction
  <2>4. QED
    BY <2>2, <2>3
<1>4. PICK below : Made(below, top + 1)
  BY <1>3
<1>5. AreBelow(below, fs, top)
  BY <1>4 DEF AreBelow
<1>6. QED
  BY <1>5

(* LinesOf is the last of them. *)
LEMMA LinesAreBelow ==
  ASSUME NEW fs, NEW top \in Nat
  PROVE  \E below :
           /\ LinesOf(fs, top) = below[top + 1]
           /\ below[0] = <<>>
           /\ \A n \in 0 .. top : below[n + 1] = FileOf(fs, n) \o below[n]
<1> DEFINE below == CHOOSE b : AreBelow(b, fs, top)
<1>1. LinesOf(fs, top) = below[top + 1]
  BY DEF LinesOf, AreBelow, FileOf
<1>2. AreBelow(below, fs, top)
  BY BelowExists
<1> HIDE DEF below
<1>3. \A n \in 0 .. top + 1 :
        below[n] = IF n = 0 THEN <<>> ELSE FileOf(fs, n - 1) \o below[n - 1]
  BY <1>2 DEF AreBelow
<1>4. below[0] = <<>>
  BY <1>3
<1>5. ASSUME NEW n \in 0 .. top PROVE below[n + 1] = FileOf(fs, n) \o below[n]
  <2>1. n + 1 \in 0 .. top + 1 /\ n + 1 # 0 /\ (n + 1) - 1 = n
    OBVIOUS
  <2>2. QED
    BY <1>3, <2>1
<1>6. QED
  BY <1>1, <1>4, <1>5

(* What an index stands for is a sequence of lines, also where no file     *)
(* has it.                                                                 *)
LEMMA FileType ==
  ASSUME NEW fs, Holds(fs), NEW i
  PROVE  FileOf(fs, i) \in Seq(Nat)
<1>1. <<>> \in Seq(Nat)
  BY EmptySeq
<1>2. QED
  BY <1>1 DEF FileOf, Holds

(* The lines under every index are a sequence. *)
LEMMA BelowType ==
  ASSUME NEW fs, Holds(fs), NEW top \in Nat, NEW below,
         below[0] = <<>>,
         \A n \in 0 .. top : below[n + 1] = FileOf(fs, n) \o below[n]
  PROVE  \A n \in 0 .. top + 1 : below[n] \in Seq(Nat)
<1> DEFINE T == {n \in 0 .. top + 1 : below[n] \in Seq(Nat)}
<1>1. T \in SUBSET Nat /\ top + 1 \in Nat
  OBVIOUS
<1>2. 0 \in T
  <2>1. 0 \in 0 .. top + 1 /\ <<>> \in Seq(Nat)
    BY EmptySeq
  <2>2. QED
    BY <2>1
<1>3. ASSUME NEW n \in T, n < top + 1 PROVE n + 1 \in T
  <2>1. n \in 0 .. top /\ n + 1 \in 0 .. top + 1
    BY <1>3
  <2>2. FileOf(fs, n) \o below[n] \in Seq(Nat)
    BY FileType, ConcatProperties
  <2>3. QED
    BY <2>1, <2>2
<1> HIDE DEF T
<1>4. 0 .. top + 1 \subseteq T
  BY <1>1, <1>2, <1>3, SetInduction
<1>5. QED
  BY <1>4 DEF T

(* So are the lines of all files. *)
LEMMA LinesType ==
  ASSUME NEW fs, Holds(fs), NEW top \in Nat
  PROVE  LinesOf(fs, top) \in Seq(Nat)
<1>0. top + 1 \in 0 .. top + 1
  OBVIOUS
<1>1. PICK below :
        /\ LinesOf(fs, top) = below[top + 1]
        /\ below[0] = <<>>
        /\ \A n \in 0 .. top : below[n + 1] = FileOf(fs, n) \o below[n]
  BY LinesAreBelow
<1>2. QED
  BY <1>0, <1>1, BelowType

(* No files, no lines. *)
LEMMA NoFilesNoLines ==
  ASSUME NEW fs, NEW top \in Nat, \A i \in 0 .. top : FileOf(fs, i) = <<>>
  PROVE  LinesOf(fs, top) = <<>>
<1>1. PICK below :
        /\ LinesOf(fs, top) = below[top + 1]
        /\ below[0] = <<>>
        /\ \A n \in 0 .. top : below[n + 1] = FileOf(fs, n) \o below[n]
  BY LinesAreBelow
<1> DEFINE T == {n \in 0 .. top + 1 : below[n] = <<>>}
<1>2. T \in SUBSET Nat /\ top + 1 \in Nat /\ 0 \in T
  BY <1>1
<1>3. <<>> \o <<>> = <<>>
  BY EmptySeq, ConcatEmptySeq
<1>4. ASSUME NEW n \in T, n < top + 1 PROVE n + 1 \in T
  <2>1. n \in 0 .. top /\ n + 1 \in 0 .. top + 1
    BY <1>4
  <2>2. QED
    BY <1>1, <1>3, <2>1
<1> HIDE DEF T
<1>5. 0 .. top + 1 \subseteq T
  BY <1>2, <1>4, SetInduction
<1>6. QED
  BY <1>1, <1>5 DEF T

(* A higher bound changes nothing where there is no file. *)
LEMMA HigherTop ==
  ASSUME NEW fs, Holds(fs), NEW top \in Nat, FileOf(fs, top + 1) = <<>>
  PROVE  LinesOf(fs, top + 1) = LinesOf(fs, top)
<1>1. PICK low :
        /\ LinesOf(fs, top) = low[top + 1]
        /\ low[0] = <<>>
        /\ \A n \in 0 .. top : low[n + 1] = FileOf(fs, n) \o low[n]
  BY LinesAreBelow
<1>0. top + 1 \in Nat
  OBVIOUS
<1>2. PICK high :
        /\ LinesOf(fs, top + 1) = high[(top + 1) + 1]
        /\ high[0] = <<>>
        /\ \A n \in 0 .. top + 1 : high[n + 1] = FileOf(fs, n) \o high[n]
  BY <1>0, LinesAreBelow
<1> DEFINE T == {n \in 0 .. top + 1 : high[n] = low[n]}
<1>3. T \in SUBSET Nat /\ top + 1 \in Nat /\ 0 \in T
  BY <1>1, <1>2
<1>4. ASSUME NEW n \in T, n < top + 1 PROVE n + 1 \in T
  <2>1. n \in 0 .. top /\ n \in 0 .. top + 1 /\ n + 1 \in 0 .. top + 1
    BY <1>4
  <2>2. QED
    BY <1>1, <1>2, <2>1
<1> HIDE DEF T
<1>5. 0 .. top + 1 \subseteq T
  BY <1>3, <1>4, SetInduction
<1>6. high[top + 1] = low[top + 1] /\ low[top + 1] \in Seq(Nat)
  BY <1>1, <1>5, LinesType DEF T
<1>7. high[(top + 1) + 1] = <<>> \o high[top + 1]
  <2>1. top + 1 \in 0 .. top + 1
    OBVIOUS
  <2>2. QED
    BY <1>2, <2>1
<1>8. QED
  BY <1>1, <1>2, <1>6, <1>7, ConcatEmptySeq

(* Concatenation is associative. *)
LEMMA Regroup ==
  ASSUME NEW a \in Seq(Nat), NEW b \in Seq(Nat), NEW c \in Seq(Nat)
  PROVE  (a \o b) \o c = a \o (b \o c)
  BY ConcatAssociative

(* What is put at the end of the youngest file is put at the end of all.    *)
LEMMA LinesAtTheEnd ==
  ASSUME NEW fs, Holds(fs), NEW gs, NEW top \in Nat, NEW lines \in Seq(Nat),
         FileOf(gs, 0) = FileOf(fs, 0) \o lines,
         \A i \in 1 .. top : FileOf(gs, i) = FileOf(fs, i)
  PROVE  LinesOf(gs, top) = LinesOf(fs, top) \o lines
<1>1. PICK old :
        /\ LinesOf(fs, top) = old[top + 1]
        /\ old[0] = <<>>
        /\ \A n \in 0 .. top : old[n + 1] = FileOf(fs, n) \o old[n]
  BY LinesAreBelow
<1>2. PICK new :
        /\ LinesOf(gs, top) = new[top + 1]
        /\ new[0] = <<>>
        /\ \A n \in 0 .. top : new[n + 1] = FileOf(gs, n) \o new[n]
  BY LinesAreBelow
<1>3. \A n \in 0 .. top + 1 : old[n] \in Seq(Nat)
  BY <1>1, BelowType
<1> DEFINE T == {n \in 0 .. top + 1 : n # 0 => new[n] = old[n] \o lines}
<1>4. T \in SUBSET Nat /\ top + 1 \in Nat /\ 0 \in T
  OBVIOUS
<1>5. ASSUME NEW n \in T, n < top + 1 PROVE n + 1 \in T
  <2>1. n \in 0 .. top /\ n + 1 \in 0 .. top + 1
    BY <1>5
  <2>2. CASE n = 0
    <3>1. FileOf(fs, 0) \in Seq(Nat) /\ FileOf(gs, 0) \in Seq(Nat)
      BY FileType, ConcatProperties
    <3>2. old[0 + 1] = FileOf(fs, 0) \o <<>> /\ new[0 + 1] = FileOf(gs, 0) \o <<>>
      BY <1>1, <1>2, <2>1, <2>2
    <3>3. old[0 + 1] = FileOf(fs, 0) /\ new[0 + 1] = FileOf(gs, 0)
      BY <3>1, <3>2, ConcatEmptySeq
    <3>4. QED
      BY <2>1, <2>2, <3>3
  <2>3. CASE n # 0
    <3>1. new[n] = old[n] \o lines /\ n \in 1 .. top
      BY <2>1, <2>3
    <3>2. new[n + 1] = FileOf(fs, n) \o (old[n] \o lines) /\ old[n + 1] = FileOf(fs, n) \o old[n]
      BY <1>1, <1>2, <2>1, <3>1
    <3>3. FileOf(fs, n) \in Seq(Nat) /\ old[n] \in Seq(Nat) /\ lines \in Seq(Nat)
      BY <1>3, <2>1, FileType
    <3>4. (FileOf(fs, n) \o old[n]) \o lines = FileOf(fs, n) \o (old[n] \o lines)
      BY <3>3, Regroup
    <3>5. QED
      BY <2>1, <3>2, <3>4
  <2>4. QED
    BY <2>2, <2>3
<1> HIDE DEF T
<1>6. 0 .. top + 1 \subseteq T
  BY <1>4, <1>5, SetInduction
<1>7. new[top + 1] = old[top + 1] \o lines
  BY <1>6 DEF T
<1>8. QED
  BY <1>1, <1>2, <1>7

(* Files that all move one index up keep their lines. *)
LEMMA LinesOfMoved ==
  ASSUME NEW fs, Holds(fs), NEW gs, NEW top \in Nat,
         FileOf(gs, 0) = <<>>,
         \A i \in 0 .. top : FileOf(gs, i + 1) = FileOf(fs, i)
  PROVE  LinesOf(gs, top + 1) = LinesOf(fs, top)
<1>1. PICK old :
        /\ LinesOf(fs, top) = old[top + 1]
        /\ old[0] = <<>>
        /\ \A n \in 0 .. top : old[n + 1] = FileOf(fs, n) \o old[n]
  BY LinesAreBelow
<1>0. top + 1 \in Nat
  OBVIOUS
<1>2. PICK new :
        /\ LinesOf(gs, top + 1) = new[(top + 1) + 1]
        /\ new[0] = <<>>
        /\ \A n \in 0 .. top + 1 : new[n + 1] = FileOf(gs, n) \o new[n]
  BY <1>0, LinesAreBelow
<1> DEFINE T == {n \in 0 .. top + 1 : new[n + 1] = old[n]}
<1>3. 0 \in T
  <2>1. new[0 + 1] = <<>> \o <<>>
    BY <1>2
  <2>2. new[0 + 1] = <<>>
    BY <2>1, EmptySeq, ConcatEmptySeq
  <2>3. QED
    BY <1>1, <2>2
<1>4. T \in SUBSET Nat /\ top + 1 \in Nat
  OBVIOUS
<1>5. ASSUME NEW n \in T, n < top + 1 PROVE n + 1 \in T
  <2>1. n \in 0 .. top /\ n + 1 \in 0 .. top + 1
    BY <1>5
  <2>2. new[(n + 1) + 1] = FileOf(gs, n + 1) \o new[n + 1]
    BY <1>2, <2>1
  <2>3. new[(n + 1) + 1] = FileOf(fs, n) \o old[n]
    BY <2>1, <2>2
  <2>4. QED
    BY <1>1, <2>1, <2>3
<1> HIDE DEF T
<1>6. 0 .. top + 1 \subseteq T
  BY <1>3, <1>4, <1>5, SetInduction
<1>7. QED
  BY <1>1, <1>2, <1>6 DEF T

-----------------------------------------------------------------------------
(* The files, step by step                                                 *)

(* The indices are used from 0 on, or from 1 on while no file is open.      *)
FilesFit ==
  /\ logCnt \in Nat /\ archive \in Seq(Nat) /\ newDay \in BOOLEAN
  /\ DOMAIN files \subseteq 0 .. (IF IsOpen THEN logCnt - 1 ELSE logCnt)
  /\ Holds(files)
  /\ newDay => IsOpen

(* FilesFit after a step that sets newDay to FALSE. *)
LEMMA FitsAgain ==
  ASSUME logCnt' \in Nat, archive' \in Seq(Nat), newDay' = FALSE, Holds(files'),
         DOMAIN files' \subseteq 0 .. logCnt',
         0 \in DOMAIN files' => DOMAIN files' \subseteq 0 .. logCnt' - 1
  PROVE  FilesFit'
<1>1. Holds(files)'
  BY DEF Holds
<1>2. (DOMAIN files \subseteq 0 .. (IF IsOpen THEN logCnt - 1 ELSE logCnt))'
  BY DEF IsOpen
<1>3. (newDay => IsOpen)' /\ (newDay \in BOOLEAN)'
  OBVIOUS
<1>4. QED
  BY <1>1, <1>2, <1>3 DEF FilesFit

(* There is no file over the highest index. *)
LEMMA BeyondTop ==
  ASSUME FilesFit
  PROVE  FileOf(files, logCnt + 1) = <<>>
  BY DEF FilesFit, FileOf

(* Every file of today moves one index up, and none is overwritten.         *)
LEMMA RolledFiles ==
  ASSUME FilesFit, IsOpen
  PROVE  /\ DOMAIN Rolled \subseteq 1 .. logCnt /\ Holds(Rolled)
         /\ FileOf(Rolled, 0) = <<>>
         /\ LinesOf(Rolled, logCnt) = LinesOf(files, logCnt)
         /\ LinesOf(Rolled, logCnt + 1) = LinesOf(files, logCnt)
<1> DEFINE moved == {i \in DOMAIN files : i < logCnt}
           up == {j + 1 : j \in DOMAIN files}
<1>1. DOMAIN files \subseteq 0 .. logCnt - 1 /\ logCnt \in Nat /\ Holds(files)
  BY DEF FilesFit
<1>2. moved = DOMAIN files
  BY <1>1
<1>3. {j + 1 : j \in moved} \union (DOMAIN files \ moved) = up
  BY <1>2
<1>4. \A i \in up : i - 1 \in moved /\ i \in 1 .. logCnt
  BY <1>1, <1>2
<1>5. Rolled = [i \in up |-> files[i - 1]]
  <2>1. Rolled = [i \in {j + 1 : j \in moved} \union (DOMAIN files \ moved) |->
                    IF i - 1 \in moved THEN files[i - 1] ELSE files[i]]
    BY DEF Rolled
  <2>2. Rolled = [i \in up |-> IF i - 1 \in moved THEN files[i - 1] ELSE files[i]]
    BY <1>3, <2>1
  <2> HIDE DEF moved, up
  <2>3. QED
    BY <1>4, <2>2
<1>6. \A i \in 0 .. logCnt : i + 1 \in up <=> i \in DOMAIN files
  BY <1>1
<1>7. DOMAIN Rolled = up /\ up \subseteq 1 .. logCnt
  BY <1>4, <1>5
<1>8. Holds(Rolled)
  <2>1. ASSUME NEW i \in up PROVE Rolled[i] \in Seq(Nat)
    <3>1. Rolled[i] = files[i - 1] /\ i - 1 \in DOMAIN files
      BY <1>2, <1>4, <1>5, <2>1
    <3>2. QED
      BY <1>1, <3>1 DEF Holds
  <2>2. QED
    BY <1>7, <2>1 DEF Holds
<1>9. ASSUME NEW i \in 0 .. logCnt PROVE FileOf(Rolled, i + 1) = FileOf(files, i)
  <2>1. CASE i \in DOMAIN files
    <3>1. i + 1 \in up /\ (i + 1) - 1 = i
      BY <1>6, <2>1
    <3> HIDE DEF up
    <3>2. Rolled[i + 1] = files[i]
      BY <1>5, <3>1
    <3>3. QED
      BY <1>7, <2>1, <3>1, <3>2 DEF FileOf
  <2>2. CASE i \notin DOMAIN files
    <3>1. i + 1 \notin up
      BY <1>6, <2>2
    <3> HIDE DEF up
    <3>2. QED
      BY <1>7, <2>2, <3>1 DEF FileOf
  <2>3. QED
    BY <2>1, <2>2
<1> HIDE DEF moved, up
<1>10. 0 \notin up /\ logCnt + 1 \notin up
  BY <1>1, <1>7
<1>11. FileOf(Rolled, 0) = <<>> /\ FileOf(Rolled, logCnt + 1) = <<>>
  BY <1>7, <1>10 DEF FileOf
<1>12. LinesOf(Rolled, logCnt + 1) = LinesOf(files, logCnt)
  BY <1>1, <1>9, <1>11, LinesOfMoved
<1>13. LinesOf(Rolled, logCnt + 1) = LinesOf(Rolled, logCnt)
  BY <1>1, <1>8, <1>11, HigherTop
<1>14. QED
  BY <1>7, <1>8, <1>11, <1>12, <1>13

(* Without files there are no lines. *)
LEMMA NoFile == DOMAIN << >> = {} /\ Holds(<< >>) /\ \A top \in Nat : LinesOf(<< >>, top) = <<>>
<1>1. << >> \in Seq(Nat) /\ Len(<< >>) = 0
  BY EmptySeq
<1>2. DOMAIN << >> = 1 .. 0
  BY <1>1, LenProperties
<1>3. DOMAIN << >> = {}
  BY <1>2
<1>4. \A i : FileOf(<< >>, i) = <<>>
  BY <1>3 DEF FileOf
<1>5. QED
  BY <1>3, <1>4, NoFilesNoLines DEF Holds

(* What is written is a sequence. *)
LEMMA WrittenType == FilesFit => Written \in Seq(Nat) /\ LinesOf(files, logCnt) \in Seq(Nat)
<1> SUFFICES ASSUME FilesFit PROVE Written \in Seq(Nat) /\ LinesOf(files, logCnt) \in Seq(Nat)
  OBVIOUS
<1>1. LinesOf(files, logCnt) \in Seq(Nat) /\ archive \in Seq(Nat)
  BY LinesType DEF FilesFit
<1>2. QED
  BY <1>1, ConcatProperties DEF Written

(* When no file can be opened, none has been lost. *)
LEMMA OpenFailsKeeps ==
  ASSUME FilesFit, OpenFails
  PROVE  FilesFit' /\ Written' = Written
<1>1. /\ logCnt' = logCnt /\ logCnt \in Nat /\ newDay' = FALSE /\ files' = Closed
      /\ archive' = IF newDay THEN archive \o LinesOf(files, logCnt) ELSE archive
      /\ archive \in Seq(Nat)
  BY DEF OpenFails, Archived, FilesFit
<1>2. CASE newDay
  <2>1. files' = << >> /\ archive' = Written
    BY <1>1, <1>2 DEF Closed, Written
  <2>2. Written' = Written \o LinesOf(<< >>, logCnt)
    BY <1>1, <2>1 DEF Written
  <2>3. Written' = Written
    BY <1>1, <2>2, NoFile, WrittenType, ConcatEmptySeq
  <2>4. FilesFit'
    BY <1>1, <2>1, NoFile, WrittenType DEF FilesFit, IsOpen
  <2>5. QED
    BY <2>3, <2>4
<1>3. CASE ~newDay /\ IsOpen
  <2>1. files' = Rolled /\ archive' = archive
    BY <1>1, <1>3 DEF Closed
  <2>2. Written' = Written
    BY <1>1, <1>3, <2>1, RolledFiles DEF Written
  <2>3. DOMAIN files' \subseteq 1 .. logCnt' /\ Holds(files')
    BY <1>1, <1>3, <2>1, RolledFiles
  <2>4. DOMAIN files' \subseteq 0 .. logCnt' /\ 0 \notin DOMAIN files'
    BY <1>1, <2>3
  <2>5. FilesFit'
    BY <1>1, <2>1, <2>3, <2>4, FitsAgain
  <2>6. QED
    BY <2>2, <2>5
<1>4. CASE ~newDay /\ ~IsOpen
  <2>1. files' = files /\ archive' = archive /\ newDay' = newDay
    BY <1>1, <1>4 DEF Closed, FilesFit
  <2>2. QED
    BY <1>1, <2>1 DEF FilesFit, Written, IsOpen
<1>5. QED
  BY <1>2, <1>3, <1>4 DEF FilesFit

(* What is written comes after everything that was.                        *)
LEMMA StoredAppends ==
  ASSUME FilesFit, NEW lines \in Seq(Nat), Stored(lines)
  PROVE  FilesFit' /\ Written' = Written \o lines
<1> DEFINE Opened(fs) == [i \in DOMAIN fs \union {0} |-> IF i = 0 THEN lines ELSE fs[i]]
<1>1. /\ logCnt \in Nat /\ newDay' = FALSE
      /\ archive' = IF newDay THEN archive \o LinesOf(files, logCnt) ELSE archive
      /\ archive \in Seq(Nat) /\ Holds(files)
  BY DEF Stored, Archived, FilesFit
<1>2. lines \in Seq(Nat)
  OBVIOUS
<1>3. ASSUME NEW fs, Holds(fs), NEW top \in Nat, FileOf(fs, 0) = <<>>
      PROVE  /\ LinesOf(Opened(fs), top) = LinesOf(fs, top) \o lines
             /\ Holds(Opened(fs)) /\ DOMAIN Opened(fs) = DOMAIN fs \union {0}
  <2>1. DOMAIN Opened(fs) = DOMAIN fs \union {0}
    OBVIOUS
  <2>2. Holds(Opened(fs))
    BY <1>2, <1>3 DEF Holds
  <2>3. FileOf(Opened(fs), 0) = FileOf(fs, 0) \o lines
    <3>1. FileOf(Opened(fs), 0) = lines
      BY DEF FileOf
    <3>2. QED
      BY <1>2, <1>3, <3>1, ConcatEmptySeq
  <2>4. \A i \in 1 .. top : FileOf(Opened(fs), i) = FileOf(fs, i)
    BY DEF FileOf
  <2> HIDE DEF Opened
  <2>5. QED
    BY <1>2, <1>3, <2>1, <2>2, <2>3, <2>4, LinesAtTheEnd
<1>4. ASSUME NeedsFile PROVE files' = Opened(Closed) /\ logCnt' = CountedAgain
  BY <1>4 DEF Stored
<1> HIDE DEF Opened
<1>5. CASE newDay
  <2>1. IsOpen /\ NeedsFile
    BY <1>5 DEF FilesFit, NeedsFile
  <2>2. files' = Opened(<< >>) /\ logCnt' = 1 /\ archive' = Written
    BY <1>1, <1>4, <1>5, <2>1 DEF Closed, CountedAgain, Written
  <2>3. 0 \notin DOMAIN << >>
    BY NoFile
  <2>4. FileOf(<< >>, 0) = <<>>
    BY <2>3 DEF FileOf
  <2>5. /\ LinesOf(files', 1) = LinesOf(<< >>, 1) \o lines
        /\ Holds(files') /\ DOMAIN files' = {0}
    BY <1>3, <2>2, <2>4, NoFile
  <2>6. LinesOf(files', logCnt') = lines
    BY <1>2, <2>2, <2>5, NoFile, ConcatEmptySeq
  <2>7. Written' = Written \o lines
    BY <2>2, <2>6 DEF Written
  <2>8. FilesFit'
    <3>1. archive' \in Seq(Nat) /\ DOMAIN files' \subseteq 0 .. logCnt' - 1
      BY <2>2, <2>5, WrittenType
    <3>2. logCnt' \in Nat /\ DOMAIN files' \subseteq 0 .. logCnt'
      BY <2>2, <2>5
    <3>3. QED
      BY <1>1, <2>5, <3>1, <3>2, FitsAgain
  <2>9. QED
    BY <2>7, <2>8
<1>6. ASSUME ~newDay, NEW lines0, lines0 = LinesOf(files', logCnt'),
             lines0 = LinesOf(files, logCnt) \o lines
      PROVE  Written' = Written \o lines
  <2>1. Written' = archive \o (LinesOf(files, logCnt) \o lines)
    BY <1>1, <1>6 DEF Written
  <2>2. QED
    BY <1>1, <1>2, <2>1, WrittenType, Regroup DEF Written
<1>7. CASE ~newDay /\ IsOpen /\ NeedsFile
  <2>1. files' = Opened(Rolled) /\ logCnt' = logCnt + 1 /\ archive' = archive
    BY <1>1, <1>4, <1>7 DEF Closed, CountedAgain
  <2>0. logCnt + 1 \in Nat /\ Holds(Rolled) /\ FileOf(Rolled, 0) = <<>>
    BY <1>1, <1>7, RolledFiles
  <2>2. /\ LinesOf(files', logCnt + 1) = LinesOf(Rolled, logCnt + 1) \o lines
        /\ Holds(files') /\ DOMAIN files' = DOMAIN Rolled \union {0}
    BY <1>3, <2>0, <2>1
  <2>3. LinesOf(files', logCnt') = LinesOf(files, logCnt) \o lines
    BY <1>7, <2>1, <2>2, RolledFiles
  <2>4. DOMAIN files' \subseteq 0 .. logCnt' - 1
    BY <1>1, <1>7, <2>1, <2>2, RolledFiles
  <2>5. FilesFit'
    <3>1. logCnt' \in Nat /\ archive' \in Seq(Nat)
      <4>1. logCnt + 1 \in Nat
        BY <1>1
      <4>2. archive \in Seq(Nat)
        BY <1>1
      <4>3. QED
        BY <2>1, <4>1, <4>2, Zenon
    <3>2. DOMAIN files' \subseteq 0 .. logCnt'
      BY <2>4, <3>1
    <3>3. QED
      BY <1>1, <2>2, <2>4, <3>1, <3>2, FitsAgain
  <2>6. QED
    BY <1>6, <1>7, <2>3, <2>5
<1>8. CASE ~newDay /\ ~IsOpen
  <2>1. files' = Opened(files) /\ logCnt' = logCnt + 1 /\ archive' = archive
    BY <1>1, <1>4, <1>8 DEF Closed, CountedAgain, NeedsFile
  <2>2. FileOf(files, 0) = <<>> /\ logCnt + 1 \in Nat
    BY <1>1, <1>8 DEF IsOpen, FileOf
  <2>3. /\ LinesOf(files', logCnt + 1) = LinesOf(files, logCnt + 1) \o lines
        /\ Holds(files') /\ DOMAIN files' = DOMAIN files \union {0}
    BY <1>1, <1>3, <2>1, <2>2
  <2>4. LinesOf(files', logCnt') = LinesOf(files, logCnt) \o lines
    BY <1>1, <2>1, <2>3, BeyondTop, HigherTop
  <2>5. DOMAIN files' \subseteq 0 .. logCnt' - 1
    BY <1>1, <1>8, <2>1, <2>3 DEF FilesFit
  <2>6. FilesFit'
    <3>1. logCnt' \in Nat /\ archive' \in Seq(Nat)
      <4>1. logCnt + 1 \in Nat
        BY <1>1
      <4>2. archive \in Seq(Nat)
        BY <1>1
      <4>3. QED
        BY <2>1, <4>1, <4>2, Zenon
    <3>2. DOMAIN files' \subseteq 0 .. logCnt'
      BY <2>5, <3>1
    <3>3. QED
      BY <1>1, <2>3, <2>5, <3>1, <3>2, FitsAgain
  <2>7. QED
    BY <1>6, <1>8, <2>4, <2>6
<1>9. CASE ~newDay /\ IsOpen /\ ~NeedsFile
  <2>1. files' = [files EXCEPT ![0] = @ \o lines] /\ logCnt' = logCnt /\ archive' = archive
    BY <1>1, <1>9 DEF Stored
  <2>2. files[0] \in Seq(Nat) /\ 0 \in DOMAIN files
    BY <1>1, <1>9 DEF Holds, IsOpen
  <2>3. DOMAIN files' = DOMAIN files /\ files'[0] = files[0] \o lines
        /\ \A i \in DOMAIN files : i # 0 => files'[i] = files[i]
    BY <2>1, <2>2
  <2>4. files[0] \o lines \in Seq(Nat)
    BY <1>2, <2>2, ConcatProperties
  <2>5. Holds(files')
    BY <1>1, <2>3, <2>4 DEF Holds
  <2>6. /\ FileOf(files', 0) = FileOf(files, 0) \o lines
        /\ \A i \in 1 .. logCnt : FileOf(files', i) = FileOf(files, i)
    BY <2>2, <2>3 DEF FileOf
  <2>7. LinesOf(files', logCnt') = LinesOf(files, logCnt) \o lines
    BY <1>1, <1>2, <2>1, <2>6, LinesAtTheEnd
  <2>8. FilesFit'
    BY <1>1, <1>9, <2>1, <2>3, <2>5 DEF FilesFit, IsOpen
  <2>9. QED
    BY <1>6, <1>9, <2>7, <2>8
<1>10. QED
  BY <1>5, <1>7, <1>8, <1>9 DEF FilesFit

-----------------------------------------------------------------------------
(* Where the lines of the log are cut                                      *)

(* The lines are those of all that come after the place from.              *)
PartOf(lines, all, from) == \A j \in 1 .. Len(lines) : lines[j] = all[from + j]

(* The lines of data[i] are those from cut[i - 1] on up to cut[i]: cut goes *)
(* from the lines that are written to the end of all lines, and all come   *)
(* before the end of data[last].                                           *)
IsCut(cut, data, n, last, written, all) ==
  /\ cut \in [0 .. n -> Nat]
  /\ cut[0] = written
  /\ \A i \in 0 .. n : cut[i] <= Len(all)
  /\ \A i \in last .. n : cut[i] = Len(all)
  /\ \A i \in 1 .. n : cut[i] = cut[i - 1] + Len(data[i]) /\ PartOf(data[i], all, cut[i - 1])

InRow(data, n, last, written, all) == \E cut : IsCut(cut, data, n, last, written, all)

(* No lines are a part of all, wherever. *)
LEMMA NothingIsPart == \A all, from : PartOf(<<>>, all, from)
<1>1. Len(<<>>) = 0
  OBVIOUS
<1>2. QED
  BY <1>1 DEF PartOf

(* A part stays one when a line comes to the end of all. *)
LEMMA PartOfMore ==
  ASSUME NEW all \in Seq(Nat), NEW line \in Nat, NEW lines \in Seq(Nat), NEW from \in Nat,
         from + Len(lines) <= Len(all), PartOf(lines, all, from)
  PROVE  PartOf(lines, Append(all, line), from)
<1>1. Len(all) \in Nat /\ Len(lines) \in Nat
  BY LenProperties
<1>2. \A i \in 1 .. Len(all) : Append(all, line)[i] = all[i]
  BY AppendProperties
<1>3. \A j \in 1 .. Len(lines) : from + j \in 1 .. Len(all)
  BY <1>1
<1>4. QED
  BY <1>2, <1>3 DEF PartOf

(* The part at the end gets the line that comes to the end of all. *)
LEMMA NextIsPart ==
  ASSUME NEW all \in Seq(Nat), NEW line \in Nat, NEW lines \in Seq(Nat), NEW from \in Nat,
         from + Len(lines) = Len(all), PartOf(lines, all, from)
  PROVE  /\ Append(lines, line) \in Seq(Nat) /\ Len(Append(lines, line)) = Len(lines) + 1
         /\ PartOf(Append(lines, line), Append(all, line), from)
<1> DEFINE more == Append(lines, line)
           now == Append(all, line)
<1>1. Len(lines) \in Nat /\ Len(all) \in Nat
  BY LenProperties
<1>2. /\ more \in Seq(Nat) /\ Len(more) = Len(lines) + 1
      /\ \A j \in 1 .. Len(lines) : more[j] = lines[j]
      /\ more[Len(lines) + 1] = line
      /\ \A j \in 1 .. Len(all) : now[j] = all[j]
      /\ now[Len(all) + 1] = line
  BY <1>1, AppendProperties
<1> HIDE DEF more, now
<1>3. ASSUME NEW j \in 1 .. Len(more) PROVE more[j] = now[from + j]
  <2>1. CASE j \in 1 .. Len(lines)
    <3>1. from + j \in 1 .. Len(all)
      BY <1>1, <2>1
    <3>2. QED
      BY <1>2, <2>1, <3>1 DEF PartOf
  <2>2. CASE j = Len(lines) + 1
    <3>1. from + j = Len(all) + 1
      BY <1>1, <2>2
    <3>2. QED
      BY <1>2, <2>2, <3>1
  <2>3. QED
    BY <1>1, <1>2, <1>3, <2>1, <2>2
<1>4. QED
  BY <1>2, <1>3 DEF PartOf, more, now

(* Two sequences in a row. *)
LEMMA JoinFacts ==
  ASSUME NEW a \in Seq(Nat), NEW b \in Seq(Nat)
  PROVE  /\ a \o b \in Seq(Nat) /\ Len(a \o b) = Len(a) + Len(b)
         /\ \A j \in 1 .. Len(a) : (a \o b)[j] = a[j]
         /\ \A i \in Len(a) + 1 .. Len(a) + Len(b) : (a \o b)[i] = b[i - Len(a)]
<1>1. /\ a \o b \in Seq(Nat) /\ Len(a \o b) = Len(a) + Len(b)
      /\ Len(a) \in Nat /\ Len(b) \in Nat
      /\ \A j \in 1 .. Len(a) + Len(b) : (a \o b)[j] = IF j <= Len(a) THEN a[j] ELSE b[j - Len(a)]
  BY LenProperties, ConcatProperties
<1>2. ASSUME NEW j \in 1 .. Len(a) PROVE (a \o b)[j] = a[j]
  BY <1>1
<1>3. ASSUME NEW i \in Len(a) + 1 .. Len(a) + Len(b) PROVE (a \o b)[i] = b[i - Len(a)]
  <2>1. i \in 1 .. Len(a) + Len(b) /\ ~(i <= Len(a))
    BY <1>1
  <2>2. QED
    BY <1>1, <2>1
<1>4. QED
  BY <1>1, <1>2, <1>3

(* The lines from one place to another. *)
LEMMA SliceFacts ==
  ASSUME NEW s \in Seq(Nat), NEW m \in Nat, NEW n \in Nat, m <= n, n <= Len(s)
  PROVE  /\ SubSeq(s, m + 1, n) \in Seq(Nat) /\ Len(SubSeq(s, m + 1, n)) = n - m
         /\ \A j \in 1 .. n - m : SubSeq(s, m + 1, n)[j] = s[m + j]
<1>1. Len(s) \in Nat
  BY LenProperties
<1>2. \A i \in (m + 1) .. n : s[i] \in Nat
  <2>1. ASSUME NEW i \in (m + 1) .. n PROVE s[i] \in Nat
    <3>1. i \in 1 .. Len(s)
      BY <1>1
    <3>2. QED
      BY <3>1, ElementOfSeq
  <2>2. QED
    BY <2>1
<1>3. /\ SubSeq(s, m + 1, n) \in Seq(Nat)
      /\ Len(SubSeq(s, m + 1, n)) = IF m + 1 <= n THEN n - (m + 1) + 1 ELSE 0
      /\ \A i \in 1 .. n - (m + 1) + 1 : SubSeq(s, m + 1, n)[i] = s[(m + 1) + i - 1]
  BY <1>2, SubSeqProperties
<1>4. n - (m + 1) + 1 = n - m /\ \A i \in Int : (m + 1) + i - 1 = m + i
  OBVIOUS
<1>5. QED
  BY <1>3, <1>4

(* The first lines. *)
LEMMA FirstFacts ==
  ASSUME NEW s \in Seq(Nat), NEW n \in 0 .. Len(s)
  PROVE  /\ SubSeq(s, 1, n) \in Seq(Nat) /\ Len(SubSeq(s, 1, n)) = n
         /\ \A j \in 1 .. n : SubSeq(s, 1, n)[j] = s[j]
         /\ n = Len(s) => SubSeq(s, 1, n) = s
<1>1. Len(s) \in Nat /\ 0 \in Nat /\ n \in Nat /\ 0 <= n /\ n <= Len(s)
  BY LenProperties
<1>2. /\ SubSeq(s, 0 + 1, n) \in Seq(Nat) /\ Len(SubSeq(s, 0 + 1, n)) = n - 0
      /\ \A j \in 1 .. n - 0 : SubSeq(s, 0 + 1, n)[j] = s[0 + j]
  BY <1>1, SliceFacts
<1>3. 0 + 1 = 1 /\ n - 0 = n /\ \A j \in Int : 0 + j = j
  BY <1>1
<1>4. /\ SubSeq(s, 1, n) \in Seq(Nat) /\ Len(SubSeq(s, 1, n)) = n
      /\ \A j \in 1 .. n : SubSeq(s, 1, n)[j] = s[j]
  BY <1>2, <1>3
<1>5. n = Len(s) => SubSeq(s, 1, n) = s
  BY <1>4, SeqEqual
<1>6. QED
  BY <1>4, <1>5

(* What is left when k lines are taken out. *)
LEMMA WithoutFacts ==
  ASSUME NEW s \in Seq(Nat), NEW n \in Nat, NEW k \in Nat, n + k <= Len(s)
  PROVE  /\ Without(s, n, k) \in Seq(Nat) /\ Len(Without(s, n, k)) = Len(s) - k
         /\ \A j \in 1 .. n : Without(s, n, k)[j] = s[j]
         /\ \A i \in n + 1 .. Len(s) - k : Without(s, n, k)[i] = s[i + k]
         /\ k = 0 => Without(s, n, k) = s
<1> DEFINE a == SubSeq(s, 1, n)
           b == SubSeq(s, n + k + 1, Len(s))
<1>1. Len(s) \in Nat /\ n \in 0 .. Len(s) /\ n + k \in Nat
  BY LenProperties
<1>2. a \in Seq(Nat) /\ Len(a) = n /\ \A j \in 1 .. n : a[j] = s[j]
  BY <1>1, FirstFacts
<1>3. /\ b \in Seq(Nat) /\ Len(b) = Len(s) - (n + k)
      /\ \A j \in 1 .. Len(s) - (n + k) : b[j] = s[n + k + j]
  BY <1>1, SliceFacts
<1>4. Without(s, n, k) = a \o b
  BY DEF Without
<1> HIDE DEF a, b
<1>5. /\ a \o b \in Seq(Nat) /\ Len(a \o b) = n + (Len(s) - (n + k))
      /\ \A j \in 1 .. n : (a \o b)[j] = a[j]
      /\ \A j \in 1 .. Len(s) - (n + k) : (a \o b)[n + j] = b[j]
  <2>1. /\ a \o b \in Seq(Nat) /\ Len(a \o b) = Len(a) + Len(b)
        /\ \A j \in 1 .. Len(a) : (a \o b)[j] = a[j]
        /\ \A i \in Len(a) + 1 .. Len(a) + Len(b) : (a \o b)[i] = b[i - Len(a)]
    BY <1>2, <1>3, JoinFacts
  <2>2. ASSUME NEW j \in 1 .. Len(s) - (n + k) PROVE (a \o b)[n + j] = b[j]
    <3>1. n + j \in Len(a) + 1 .. Len(a) + Len(b) /\ (n + j) - Len(a) = j
      BY <1>1, <1>2, <1>3
    <3>2. QED
      BY <2>1, <3>1
  <2>3. QED
    BY <1>2, <1>3, <2>1, <2>2
<1>6. n + (Len(s) - (n + k)) = Len(s) - k
  BY <1>1
<1>7. /\ Without(s, n, k) \in Seq(Nat) /\ Len(Without(s, n, k)) = Len(s) - k
      /\ \A j \in 1 .. n : Without(s, n, k)[j] = s[j]
      /\ \A j \in 1 .. Len(s) - (n + k) : Without(s, n, k)[n + j] = s[n + k + j]
  BY <1>2, <1>3, <1>4, <1>5, <1>6
<1>8. ASSUME k = 0 PROVE Without(s, n, k) = s
  <2> DEFINE w == Without(s, n, k)
  <2>1. w \in Seq(Nat) /\ Len(w) = Len(s)
    BY <1>1, <1>7, <1>8
  <2>2. /\ \A j \in 1 .. n : w[j] = s[j]
        /\ \A j \in 1 .. Len(s) - n : w[n + j] = s[n + j]
    <3>1. n + k = n
      BY <1>8
    <3>2. QED
      BY <1>7, <3>1
  <2> HIDE DEF w
  <2>3. ASSUME NEW i \in 1 .. Len(s) PROVE w[i] = s[i]
    <3>1. CASE i \in 1 .. n
      BY <2>2, <3>1
    <3>2. CASE i \notin 1 .. n
      <4>1. i - n \in 1 .. Len(s) - n /\ n + (i - n) = i
        BY <1>1, <3>2
      <4>2. QED
        BY <2>2, <4>1
    <3>3. QED
      BY <3>1, <3>2
  <2>4. w = s
    BY <2>1, <2>3, SeqEqual
  <2>5. QED
    BY <2>4 DEF w
<1>9. ASSUME NEW i \in n + 1 .. Len(s) - k PROVE Without(s, n, k)[i] = s[i + k]
  <2> DEFINE h == i - n
  <2>1. h \in 1 .. Len(s) - (n + k) /\ n + h = i /\ n + k + h = i + k
    BY <1>1
  <2> HIDE DEF h
  <2>2. Without(s, n, k)[n + h] = s[n + k + h]
    BY <1>7, <2>1
  <2>3. QED
    BY <2>1, <2>2
<1>10. QED
  BY <1>7, <1>8, <1>9

(* Where the lines are when one is inserted. *)
LEMMA InsertedFacts ==
  ASSUME NEW s \in Seq(Nat), NEW n \in 0 .. Len(s), NEW line \in Nat
  PROVE  /\ Inserted(s, n, line) \in Seq(Nat) /\ Len(Inserted(s, n, line)) = Len(s) + 1
         /\ \A j \in 1 .. n : Inserted(s, n, line)[j] = s[j]
         /\ Inserted(s, n, line)[n + 1] = line
         /\ \A i \in n + 2 .. Len(s) + 1 : Inserted(s, n, line)[i] = s[i - 1]
         /\ n = Len(s) => Inserted(s, n, line) = Append(s, line)
<1> DEFINE a == SubSeq(s, 1, n)
           b == SubSeq(s, n + 1, Len(s))
           one == <<line>>
<1>1. Len(s) \in Nat /\ n \in Nat
  BY LenProperties
<1>2. a \in Seq(Nat) /\ Len(a) = n /\ \A j \in 1 .. n : a[j] = s[j]
  BY <1>1, FirstFacts
<1>3. /\ b \in Seq(Nat) /\ Len(b) = Len(s) - n
      /\ \A j \in 1 .. Len(s) - n : b[j] = s[n + j]
  BY <1>1, SliceFacts
<1>4. one \in Seq(Nat) /\ Len(one) = 1 /\ one[1] = line
  OBVIOUS
<1>5. Inserted(s, n, line) = (a \o one) \o b
  BY DEF Inserted
<1> HIDE DEF a, b, one
<1>6. /\ a \o one \in Seq(Nat) /\ Len(a \o one) = n + 1
      /\ \A j \in 1 .. n : (a \o one)[j] = a[j]
      /\ (a \o one)[n + 1] = line
  <2>1. /\ a \o one \in Seq(Nat) /\ Len(a \o one) = Len(a) + Len(one)
        /\ \A j \in 1 .. Len(a) : (a \o one)[j] = a[j]
        /\ \A i \in Len(a) + 1 .. Len(a) + Len(one) : (a \o one)[i] = one[i - Len(a)]
    BY <1>2, <1>4, JoinFacts
  <2>2. n + 1 \in Len(a) + 1 .. Len(a) + Len(one) /\ (n + 1) - Len(a) = 1
    BY <1>1, <1>2, <1>4
  <2>3. (a \o one)[n + 1] = line
    BY <1>4, <2>1, <2>2
  <2>4. QED
    BY <1>2, <1>4, <2>1, <2>3
<1> DEFINE w == (a \o one) \o b
<1>7. /\ w \in Seq(Nat) /\ Len(w) = (n + 1) + (Len(s) - n)
      /\ \A j \in 1 .. n + 1 : w[j] = (a \o one)[j]
      /\ \A j \in 1 .. Len(s) - n : w[n + 1 + j] = b[j]
  <2> DEFINE c == a \o one
  <2>0. c \in Seq(Nat) /\ Len(c) = n + 1 /\ w = c \o b
    BY <1>6
  <2> HIDE DEF c, w
  <2>1. /\ c \o b \in Seq(Nat) /\ Len(c \o b) = Len(c) + Len(b)
        /\ \A j \in 1 .. Len(c) : (c \o b)[j] = c[j]
        /\ \A i \in Len(c) + 1 .. Len(c) + Len(b) : (c \o b)[i] = b[i - Len(c)]
    BY <1>3, <2>0, JoinFacts
  <2>2. ASSUME NEW j \in 1 .. Len(s) - n PROVE w[n + 1 + j] = b[j]
    <3>1. n + 1 + j \in Len(c) + 1 .. Len(c) + Len(b) /\ (n + 1 + j) - Len(c) = j
      BY <1>1, <1>3, <2>0
    <3>2. QED
      BY <2>0, <2>1, <3>1
  <2>3. QED
    BY <1>3, <2>0, <2>1, <2>2 DEF c
<1>8. (n + 1) + (Len(s) - n) = Len(s) + 1 /\ n + 1 \in 1 .. n + 1 /\ \A j \in 1 .. n : j \in 1 .. n + 1
  BY <1>1
<1> HIDE DEF w
<1>9. /\ w \in Seq(Nat) /\ Len(w) = Len(s) + 1
      /\ \A j \in 1 .. n : w[j] = s[j]
      /\ w[n + 1] = line
      /\ \A j \in 1 .. Len(s) - n : w[n + 1 + j] = s[n + j]
  BY <1>2, <1>3, <1>6, <1>7, <1>8
<1>10. ASSUME n = Len(s) PROVE w = Append(s, line)
  <2> DEFINE v == Append(s, line)
  <2>1. /\ v \in Seq(Nat) /\ Len(v) = Len(s) + 1
        /\ \A i \in 1 .. Len(s) : v[i] = s[i]
        /\ v[Len(s) + 1] = line
    BY AppendProperties
  <2> HIDE DEF v
  <2>2. ASSUME NEW i \in 1 .. Len(s) + 1 PROVE w[i] = v[i]
    <3>1. CASE i \in 1 .. Len(s)
      BY <1>9, <1>10, <2>1, <3>1
    <3>2. CASE i = Len(s) + 1
      BY <1>9, <1>10, <2>1, <3>2
    <3>3. QED
      BY <1>1, <3>1, <3>2
  <2>3. w = v
    BY <1>9, <2>1, <2>2, SeqEqual
  <2>4. QED
    BY <2>3 DEF v
<1>11. ASSUME NEW i \in n + 2 .. Len(s) + 1 PROVE w[i] = s[i - 1]
  <2> DEFINE h == i - (n + 1)
  <2>1. h \in 1 .. Len(s) - n /\ n + 1 + h = i /\ n + h = i - 1
    BY <1>1
  <2> HIDE DEF h
  <2>2. w[n + 1 + h] = s[n + h]
    BY <1>9, <2>1
  <2>3. QED
    BY <2>1, <2>2
<1>12. QED
  BY <1>5, <1>9, <1>10, <1>11 DEF w

(* Whatever comes after the last place with lines is empty.                 *)
LEMMA EmptyAfterLast ==
  ASSUME NEW n \in Nat, NEW data, \A i \in 1 .. n : data[i] \in Seq(Nat),
         NEW cut, NEW last \in 1 .. n, NEW written, NEW all \in Seq(Nat),
         IsCut(cut, data, n, last, written, all),
         NEW i \in 1 .. n, i > last
  PROVE  data[i] = <<>>
<1>1. i \in last .. n /\ i - 1 \in last .. n /\ i - 1 \in 0 .. n
  OBVIOUS
<1>2. cut[i] = Len(all) /\ cut[i - 1] = Len(all) /\ cut[i] = cut[i - 1] + Len(data[i])
  BY <1>1 DEF IsCut
<1>3. data[i] \in Seq(Nat) /\ Len(data[i]) \in Nat /\ Len(all) \in Nat
  BY LenProperties
<1>4. Len(data[i]) = 0
  BY <1>2, <1>3
<1>5. QED
  BY <1>3, <1>4, EmptySeq

(* A line comes to the end of one place, or none does. *)
GoesOn(old, more, all, now, line) ==
  \/ more = old /\ now = all
  \/ more = Append(old, line) /\ now = Append(all, line)

(* A line goes to the end of the last place, or of a later one, which may   *)
(* be new; or there is a later last place and no line.                     *)
LEMMA CutGoesOn ==
  ASSUME NEW n \in Nat, NEW data, \A i \in 1 .. n : data[i] \in Seq(Nat),
         NEW last \in 1 .. n, NEW written \in Nat, NEW all \in Seq(Nat), NEW line \in Nat,
         InRow(data, n, last, written, all),
         NEW size, size = n \/ size = n + 1,
         NEW here \in last .. size, NEW more, NEW now,
         \A i \in 1 .. size : i # here => more[i] = IF i <= n THEN data[i] ELSE <<>>,
         GoesOn(IF here <= n THEN data[here] ELSE <<>>, more[here], all, now, line)
  PROVE  InRow(more, size, here, written, now)
<1>0. PICK cut : IsCut(cut, data, n, last, written, all)
  BY DEF InRow
<1> DEFINE new == [i \in 0 .. size |-> IF i < here THEN cut[i] ELSE Len(now)]
           old == IF here <= n THEN data[here] ELSE <<>>
<1>1. /\ size \in Nat /\ here \in 1 .. size
      /\ here - 1 \in 0 .. n /\ n <= size
      /\ \/ more[here] = old /\ now = all
         \/ more[here] = Append(old, line) /\ now = Append(all, line)
  BY DEF GoesOn
<1>2. /\ now \in Seq(Nat) /\ Len(now) \in Nat /\ Len(all) \in Nat
      /\ now = all \/ (now = Append(all, line) /\ Len(now) = Len(all) + 1)
      /\ Len(all) <= Len(now)
  <2>1. CASE now = all
    BY <2>1, LenProperties
  <2>2. CASE now = Append(all, line)
    BY <2>2, AppendProperties, LenProperties
  <2>3. QED
    BY <1>1, <2>1, <2>2
<1>3. ASSUME NEW lines \in Seq(Nat), NEW from \in Nat,
              from + Len(lines) <= Len(all), PartOf(lines, all, from)
       PROVE  PartOf(lines, now, from)
  BY <1>2, <1>3, PartOfMore
<1>4. /\ cut \in [0 .. n -> Nat] /\ cut[0] = written
      /\ \A i \in 0 .. n : cut[i] <= Len(all)
      /\ \A i \in last .. n : cut[i] = Len(all)
      /\ \A i \in 1 .. n : cut[i] = cut[i - 1] + Len(data[i]) /\ PartOf(data[i], all, cut[i - 1])
  BY <1>0 DEF IsCut
<1>5. \A i \in 0 .. size : i < here => i \in 0 .. n
  BY <1>1
<1>6. new \in [0 .. size -> Nat] /\ new[0] = written
  <2>1. ASSUME NEW i \in 0 .. size PROVE (IF i < here THEN cut[i] ELSE Len(now)) \in Nat
    BY <1>2, <1>4, <1>5
  <2>2. 0 \in 0 .. size /\ 0 < here
    BY <1>1
  <2>3. QED
    BY <1>4, <2>1, <2>2
<1>7. \A i \in 0 .. size : new[i] <= Len(now)
  BY <1>1, <1>4, <1>5, <1>2
<1>8. \A i \in here .. size : new[i] = Len(now)
  BY <1>1
<1>9. /\ old \in Seq(Nat) /\ Len(old) \in Nat /\ cut[here - 1] \in Nat
      /\ Len(all) = cut[here - 1] + Len(old) /\ PartOf(old, all, cut[here - 1])
  <2>1. CASE here <= n
    <3>1. here \in 1 .. n /\ here \in last .. n
      BY <1>1, <2>1
    <3>2. old = data[here] /\ data[here] \in Seq(Nat)
      BY <2>1, <3>1
    <3>3. QED
      BY <1>1, <1>4, <3>1, <3>2, LenProperties
  <2>2. CASE here > n
    <3>1. old = <<>>
      BY <2>2
    <3> HIDE DEF old
    <3>2. here \in Int /\ here - 1 \in 0 .. n
      BY <1>1
    <3>3. here - 1 = n /\ n \in last .. n
      BY <2>2, <3>2
    <3>4. cut[here - 1] = Len(all)
      BY <1>4, <3>3
    <3>5. QED
      BY <3>1, <3>4, EmptySeq, NothingIsPart
  <2>3. QED
    BY <1>1, <2>1, <2>2
<1>10. ASSUME NEW i \in 1 .. size
      PROVE  new[i] = new[i - 1] + Len(more[i]) /\ PartOf(more[i], now, new[i - 1])
  <2>1. i \in 0 .. size /\ i - 1 \in 0 .. size
    BY <1>1
  <2>2. CASE i < here
    <3>1. i \in 1 .. n /\ more[i] = data[i]
      BY <1>1, <1>5, <2>1, <2>2
    <3>2. new[i] = cut[i] /\ new[i - 1] = cut[i - 1]
      BY <1>1, <2>1, <2>2
    <3>3. /\ data[i] \in Seq(Nat) /\ cut[i - 1] \in Nat /\ cut[i - 1] + Len(data[i]) <= Len(all)
          /\ cut[i] = cut[i - 1] + Len(data[i]) /\ PartOf(data[i], all, cut[i - 1])
      <4>1. i \in 0 .. n /\ i - 1 \in 0 .. n
        BY <3>1
      <4>2. QED
        BY <1>4, <3>1, <4>1
    <3>4. PartOf(data[i], now, cut[i - 1])
      BY <1>3, <3>3
    <3>5. QED
      BY <3>1, <3>2, <3>3, <3>4
  <2>3. CASE i = here
    <3>1. new[i] = Len(now) /\ new[i - 1] = cut[here - 1]
      BY <1>1, <2>1, <2>3
    <3> HIDE DEF new
    <3>2. CASE more[here] = old /\ now = all
      BY <1>9, <2>3, <3>1, <3>2
    <3>3. CASE more[here] = Append(old, line) /\ now = Append(all, line)
      <4> HIDE DEF old
      <4>1. Len(more[here]) = Len(old) + 1 /\ PartOf(more[here], now, cut[here - 1])
        BY <1>9, <3>3, NextIsPart
      <4>2. Len(now) = cut[here - 1] + Len(more[here])
        <5>1. Len(now) = Len(all) + 1
          BY <3>3, AppendProperties
        <5>2. /\ Len(old) \in Nat /\ cut[here - 1] \in Nat
              /\ Len(all) = cut[here - 1] + Len(old)
          BY <1>9
        <5>3. Len(more[here]) = Len(old) + 1
          BY <4>1
        <5>4. QED
          BY <5>1, <5>2, <5>3
      <4>3. QED
        BY <2>3, <3>1, <4>1, <4>2
    <3>4. QED
      BY <1>1, <3>2, <3>3
  <2>4. CASE i > here
    <3>1. new[i] = Len(now) /\ new[i - 1] = Len(now)
      BY <1>1, <2>1, <2>4
    <3>2. more[i] = <<>>
      <4>1. more[i] = IF i <= n THEN data[i] ELSE <<>>
        BY <1>1, <2>4
      <4>2. CASE i <= n
        <5>1. i \in 1 .. n /\ i > last
          BY <1>1, <2>4, <4>2
        <5>2. QED
          BY <1>0, <4>1, <4>2, <5>1, EmptyAfterLast
      <4>3. QED
        BY <4>1, <4>2
    <3>3. QED
      BY <1>2, <3>1, <3>2, NothingIsPart
  <2>5. QED
    BY <1>1, <2>2, <2>3, <2>4
<1> HIDE DEF new
<1>11. IsCut(new, more, size, here, written, now)
  BY <1>6, <1>7, <1>8, <1>10 DEF IsCut
<1>12. QED
  BY <1>11 DEF InRow

(* The cuts come one after the other. *)
LEMMA CutsGrow ==
  ASSUME NEW n \in Nat, NEW data, \A i \in 1 .. n : data[i] \in Seq(Nat),
         NEW cut \in [0 .. n -> Nat],
         \A i \in 1 .. n : cut[i] = cut[i - 1] + Len(data[i])
  PROVE  \A i \in 1 .. n : cut[i] >= cut[1]
<1> DEFINE T == {i \in 0 .. n : i >= 1 => cut[i] >= cut[1]}
<1>1. T \in SUBSET Nat /\ 0 \in T
  OBVIOUS
<1>2. ASSUME NEW i \in T, i < n PROVE i + 1 \in T
  <2>1. i + 1 \in 1 .. n /\ i \in 0 .. n /\ (i + 1) - 1 = i
    BY <1>2
  <2>2. /\ cut[i + 1] = cut[i] + Len(data[i + 1])
        /\ Len(data[i + 1]) \in Nat /\ cut[i] \in Nat
    BY <2>1, LenProperties
  <2>3. CASE i = 0
    BY <2>1, <2>2, <2>3
  <2>4. CASE i # 0
    <3>1. cut[i] >= cut[1] /\ cut[1] \in Nat
      BY <2>1, <2>4
    <3>2. cut[i + 1] >= cut[1]
      BY <2>2, <3>1
    <3>3. QED
      BY <2>1, <3>2
  <2>5. QED
    BY <2>3, <2>4
<1> HIDE DEF T
<1>3. 0 .. n \subseteq T
  BY <1>1, <1>2, SetInduction
<1>4. QED
  BY <1>3 DEF T

(* The first place is gone: k of its lines are written, the others are lost. *)
LEMMA CutIsWritten ==
  ASSUME NEW n \in Nat, NEW data, \A i \in 1 .. n : data[i] \in Seq(Nat),
         NEW last \in 1 .. n, NEW written \in Nat, NEW all \in Seq(Nat),
         InRow(data, n, last, written, all),
         NEW k \in 0 .. Len(data[1]), NEW now,
         now = Without(all, written + k, Len(data[1]) - k),
         NEW rest, rest[1] = <<>>, \A i \in 2 .. n : rest[i] = data[i]
  PROVE  /\ InRow(rest, n, last, written + k, now)
         /\ PartOf(data[1], all, written) /\ written + Len(data[1]) <= Len(all)
<1>0. PICK cut : IsCut(cut, data, n, last, written, all)
  BY DEF InRow
<1> DEFINE size == Len(data[1])
           total == Len(all)
           lost == size - k
           at == written + k
           new == [i \in 0 .. n |-> IF i = 0 THEN at ELSE cut[i] - lost]
<1>1. /\ cut \in [0 .. n -> Nat] /\ cut[0] = written
      /\ \A i \in 0 .. n : cut[i] <= total
      /\ \A i \in last .. n : cut[i] = total
      /\ \A i \in 1 .. n : cut[i] = cut[i - 1] + Len(data[i]) /\ PartOf(data[i], all, cut[i - 1])
      /\ 1 \in 1 .. n /\ 1 \in 0 .. n /\ 0 \in 0 .. n
  BY <1>0 DEF IsCut
<1>2. total \in Nat /\ size \in Nat /\ k \in 0 .. size /\ \A i \in 1 .. n : Len(data[i]) \in Nat
  BY <1>1, LenProperties
<1>3. cut[1] = written + size /\ PartOf(data[1], all, written) /\ cut[1] <= total
  <2>1. 1 - 1 = 0
    OBVIOUS
  <2>2. QED
    BY <1>1, <2>1
<1>4. /\ lost \in Nat /\ at \in Nat /\ cut[1] = at + lost /\ at + lost <= total
      /\ now = Without(all, at, lost)
  BY <1>2, <1>3
<1>5. \A i \in 1 .. n : cut[i] >= at + lost
  <2>1. \A i \in 1 .. n : cut[i] = cut[i - 1] + Len(data[i])
    BY <1>1
  <2>2. \A i \in 1 .. n : cut[i] >= cut[1]
    BY <1>1, <2>1, CutsGrow
  <2>3. cut[1] = at + lost
    BY <1>4
  <2> HIDE DEF at, lost
  <2>4. QED
    BY <2>2, <2>3
<1> HIDE DEF size, lost, at
<1>6. /\ now \in Seq(Nat) /\ Len(now) = total - lost
      /\ \A i \in at + 1 .. total - lost : now[i] = all[i + lost]
  <2> DEFINE left == Without(all, at, lost)
  <2>1. at \in Nat /\ lost \in Nat /\ at + lost <= Len(all)
    BY <1>4
  <2>2. /\ left \in Seq(Nat) /\ Len(left) = Len(all) - lost
        /\ \A i \in at + 1 .. Len(all) - lost : left[i] = all[i + lost]
    BY <2>1, WithoutFacts
  <2> HIDE DEF left
  <2>3. now = left
    BY <1>4 DEF left
  <2>4. QED
    BY <2>2, <2>3
<1> HIDE DEF total
<1>7. /\ new \in [0 .. n -> Nat] /\ new[0] = at /\ new[1] = at
      /\ \A i \in 1 .. n : new[i] = cut[i] - lost
  <2>1. ASSUME NEW i \in 1 .. n PROVE cut[i] - lost \in Nat
    <3>1. cut[i] \in Nat /\ cut[i] >= at + lost
      BY <1>1, <1>5
    <3>2. QED
      BY <1>4, <3>1
  <2>2. cut[1] - lost = at
    BY <1>4
  <2>3. \A i \in 0 .. n : (IF i = 0 THEN at ELSE cut[i] - lost) \in Nat
    BY <1>4, <2>1
  <2>4. new \in [0 .. n -> Nat]
    BY <2>3
  <2>5. QED
    BY <1>1, <2>2, <2>4
<1> HIDE DEF new
<1>8. ASSUME NEW i \in 1 .. n
      PROVE  new[i] = new[i - 1] + Len(rest[i]) /\ PartOf(rest[i], now, new[i - 1])
  <2>1. CASE i = 1
    <3>1. new[i] = at /\ new[i - 1] = at /\ rest[i] = <<>>
      BY <1>7, <2>1
    <3>2. QED
      BY <1>4, <3>1, NothingIsPart
  <2>2. CASE i \in 2 .. n
    <3>1. i - 1 \in 1 .. n /\ i - 1 \in 0 .. n /\ i \in 0 .. n
      BY <2>2
    <3> DEFINE low == cut[i - 1]
               high == cut[i]
               length == Len(data[i])
    <3>2. /\ new[i] = high - lost /\ new[i - 1] = low - lost /\ rest[i] = data[i]
          /\ high = low + length /\ PartOf(data[i], all, low)
      BY <1>1, <1>7, <2>2, <3>1
    <3>3. high <= total /\ low >= at + lost /\ low \in Nat /\ high \in Nat /\ length \in Nat
      BY <1>1, <1>2, <1>5, <3>1
    <3>4. new[i] = new[i - 1] + Len(rest[i])
      <4>1. Len(rest[i]) = length
        BY <3>2
      <4> HIDE DEF low, high, length
      <4>2. QED
        BY <1>4, <3>2, <3>3, <4>1
    <3>5. ASSUME NEW j \in 1 .. length PROVE data[i][j] = now[new[i - 1] + j]
      <4>1. data[i][j] = all[low + j]
        BY <3>2 DEF PartOf
      <4> DEFINE h == (low - lost) + j
      <4> HIDE DEF low, high, length
      <4>2. h \in at + 1 .. total - lost /\ h = (low - lost) + j /\ h + lost = low + j
        BY <1>2, <1>4, <3>2, <3>3
      <4> HIDE DEF h
      <4>3. now[h] = all[h + lost]
        BY <1>6, <4>2
      <4>4. QED
        BY <3>2, <4>1, <4>2, <4>3
    <3>6. QED
      BY <3>2, <3>4, <3>5 DEF PartOf
  <2>3. QED
    BY <2>1, <2>2
<1>9. ASSUME NEW i \in 0 .. n PROVE new[i] <= Len(now)
  <2>1. CASE i = 0
    BY <1>2, <1>4, <1>6, <1>7, <2>1
  <2>2. CASE i # 0
    <3>1. i \in 1 .. n /\ cut[i] <= total /\ cut[i] \in Nat
      BY <1>1, <2>2
    <3>2. new[i] = cut[i] - lost
      BY <1>7, <3>1
    <3>3. QED
      BY <1>2, <1>4, <1>6, <3>1, <3>2
  <2>3. QED
    BY <2>1, <2>2
<1>10. ASSUME NEW i \in last .. n PROVE new[i] = Len(now)
  <2>1. i \in 1 .. n /\ cut[i] = total
    BY <1>1
  <2>2. QED
    BY <1>6, <1>7, <2>1
<1>11. IsCut(new, rest, n, last, at, now)
  BY <1>7, <1>8, <1>9, <1>10 DEF IsCut
<1>12. InRow(rest, n, last, at, now)
  BY <1>11 DEF InRow
<1>13. QED
  BY <1>3, <1>12 DEF at, size, total

(* A line comes to the end of the first place.                             *)
LEMMA CutIntruded ==
  ASSUME NEW n \in Nat, NEW data, \A i \in 1 .. n : data[i] \in Seq(Nat),
         NEW last \in 1 .. n, NEW written \in Nat, NEW all \in Seq(Nat),
         InRow(data, n, last, written, all),
         NEW line \in Nat, NEW at \in Nat, Len(data[1]) = at - written,
         NEW more, more[1] = Append(data[1], line), \A i \in 2 .. n : more[i] = data[i]
  PROVE  InRow(more, n, last, written, Inserted(all, at, line))
<1>0. PICK cut : IsCut(cut, data, n, last, written, all)
  BY DEF InRow
<1> DEFINE size == Len(data[1])
           total == Len(all)
           now == Inserted(all, at, line)
           new == [i \in 0 .. n |-> IF i = 0 THEN written ELSE cut[i] + 1]
           long == Append(data[1], line)
<1>1. /\ cut \in [0 .. n -> Nat] /\ cut[0] = written
      /\ \A i \in 0 .. n : cut[i] <= total
      /\ \A i \in last .. n : cut[i] = total
      /\ \A i \in 1 .. n : cut[i] = cut[i - 1] + Len(data[i]) /\ PartOf(data[i], all, cut[i - 1])
      /\ 1 \in 1 .. n /\ 1 \in 0 .. n /\ 0 \in 0 .. n
  BY <1>0 DEF IsCut
<1>2. total \in Nat /\ size \in Nat /\ \A i \in 1 .. n : Len(data[i]) \in Nat
  BY <1>1, LenProperties
<1>3. cut[1] = at /\ PartOf(data[1], all, written) /\ at <= total
  <2>1. 1 - 1 = 0
    OBVIOUS
  <2>2. QED
    BY <1>1, <2>1
<1>4. at \in Nat /\ at \in 0 .. total /\ at = written + size /\ now = Inserted(all, at, line)
  BY <1>2, <1>3
<1>5. \A i \in 1 .. n : cut[i] >= at
  <2>1. \A i \in 1 .. n : cut[i] = cut[i - 1] + Len(data[i])
    BY <1>1
  <2>2. \A i \in 1 .. n : cut[i] >= cut[1]
    BY <1>1, <2>1, CutsGrow
  <2>3. QED
    BY <1>3, <2>2
<1>6. /\ long \in Seq(Nat) /\ Len(long) = size + 1
      /\ \A j \in 1 .. size : long[j] = data[1][j]
      /\ long[size + 1] = line
  <2> DEFINE lines == data[1]
  <2>1. lines \in Seq(Nat) /\ line \in Nat
    BY <1>1
  <2> HIDE DEF lines
  <2>2. /\ Append(lines, line) \in Seq(Nat) /\ Len(Append(lines, line)) = Len(lines) + 1
        /\ \A j \in 1 .. Len(lines) : Append(lines, line)[j] = lines[j]
        /\ Append(lines, line)[Len(lines) + 1] = line
    BY <2>1, AppendProperties
  <2>3. QED
    BY <2>2 DEF lines
<1> HIDE DEF now
<1>7. /\ now \in Seq(Nat) /\ Len(now) = total + 1
      /\ \A j \in 1 .. at : now[j] = all[j]
      /\ now[at + 1] = line
      /\ \A i \in at + 2 .. total + 1 : now[i] = all[i - 1]
  <2> DEFINE wide == Inserted(all, at, line)
  <2>1. at \in 0 .. Len(all) /\ line \in Nat
    BY <1>4
  <2>2. /\ wide \in Seq(Nat) /\ Len(wide) = Len(all) + 1
        /\ \A j \in 1 .. at : wide[j] = all[j]
        /\ wide[at + 1] = line
        /\ \A i \in at + 2 .. Len(all) + 1 : wide[i] = all[i - 1]
    BY <2>1, InsertedFacts
  <2> HIDE DEF wide
  <2>3. now = wide
    BY <1>4 DEF wide
  <2>4. QED
    BY <2>2, <2>3
<1>8. \A j \in 1 .. size : data[1][j] = all[written + j]
  BY <1>3 DEF PartOf
<1> HIDE DEF total, size, long
<1>9. /\ new \in [0 .. n -> Nat] /\ new[0] = written
      /\ \A i \in 1 .. n : new[i] = cut[i] + 1
  <2>1. ASSUME NEW i \in 0 .. n PROVE new[i] \in Nat
    BY <1>1
  <2>2. ASSUME NEW i \in 1 .. n PROVE i \in 0 .. n /\ i # 0 /\ new[i] = cut[i] + 1
    OBVIOUS
  <2>3. new[0] = written
    BY <1>1
  <2>4. QED
    BY <2>1, <2>2, <2>3
<1> HIDE DEF new
<1>10. ASSUME NEW i \in 1 .. n
       PROVE  new[i] = new[i - 1] + Len(more[i]) /\ PartOf(more[i], now, new[i - 1])
  <2>1. CASE i = 1
    <3>1. new[i] = at + 1 /\ new[i - 1] = written /\ more[i] = long
      BY <1>1, <1>3, <1>9, <2>1 DEF long
    <3>2. new[i] = new[i - 1] + Len(more[i])
      <4>1. at = written + size /\ size \in Nat /\ Len(long) = size + 1
        BY <1>2, <1>4, <1>6
      <4>2. QED
        BY <3>1, <4>1
    <3>3. ASSUME NEW j \in 1 .. size + 1 PROVE long[j] = now[written + j]
      <4>1. CASE j \in 1 .. size
        <5>1. written + j \in 1 .. at
          BY <1>2, <1>4, <4>1
        <5>2. QED
          BY <1>6, <1>7, <1>8, <4>1, <5>1
      <4>2. CASE j = size + 1
        <5>1. written + j = at + 1
          <6>1. at = written + size /\ size \in Nat
            BY <1>2, <1>4
          <6>2. QED
            BY <4>2, <6>1
        <5>2. QED
          BY <1>6, <1>7, <4>2, <5>1
      <4>3. QED
        BY <1>2, <4>1, <4>2
    <3>4. QED
      BY <1>6, <3>1, <3>2, <3>3 DEF PartOf
  <2>2. CASE i \in 2 .. n
    <3>1. i - 1 \in 1 .. n /\ i - 1 \in 0 .. n /\ i \in 0 .. n
      BY <2>2
    <3> DEFINE low == cut[i - 1]
               high == cut[i]
               length == Len(data[i])
    <3>2. /\ new[i] = high + 1 /\ new[i - 1] = low + 1 /\ more[i] = data[i]
          /\ high = low + length /\ PartOf(data[i], all, low)
      BY <1>1, <1>9, <2>2, <3>1
    <3>3. high <= total /\ low >= at /\ low \in Nat /\ high \in Nat /\ length \in Nat
      BY <1>1, <1>2, <1>5, <3>1
    <3>4. new[i] = new[i - 1] + Len(more[i])
      <4>1. Len(more[i]) = length
        BY <3>2
      <4> HIDE DEF low, high, length
      <4>2. QED
        BY <3>2, <3>3, <4>1
    <3>5. ASSUME NEW j \in 1 .. length PROVE data[i][j] = now[new[i - 1] + j]
      <4>1. data[i][j] = all[low + j]
        BY <3>2 DEF PartOf
      <4> DEFINE h == (low + 1) + j
      <4> HIDE DEF low, high, length
      <4>2. h \in at + 2 .. total + 1 /\ h = (low + 1) + j /\ h - 1 = low + j
        BY <1>2, <1>4, <3>2, <3>3
      <4> HIDE DEF h
      <4>3. now[h] = all[h - 1]
        BY <1>7, <4>2
      <4>4. QED
        BY <3>2, <4>1, <4>2, <4>3
    <3>6. QED
      BY <3>2, <3>4, <3>5 DEF PartOf
  <2>3. QED
    BY <2>1, <2>2
<1>11. ASSUME NEW i \in 0 .. n PROVE new[i] <= Len(now)
  <2>1. CASE i = 0
    BY <1>2, <1>4, <1>7, <1>9, <2>1
  <2>2. CASE i # 0
    <3>1. i \in 1 .. n /\ cut[i] <= total /\ cut[i] \in Nat
      BY <1>1, <2>2
    <3>2. QED
      BY <1>2, <1>7, <1>9, <3>1
  <2>3. QED
    BY <2>1, <2>2
<1>12. ASSUME NEW i \in last .. n PROVE new[i] = Len(now)
  <2>1. i \in 1 .. n /\ cut[i] = total
    BY <1>1
  <2>2. QED
    BY <1>7, <1>9, <2>1
<1>13. IsCut(new, more, n, last, written, now)
  BY <1>9, <1>10, <1>11, <1>12 DEF IsCut
<1>14. InRow(more, n, last, written, now)
  BY <1>13 DEF InRow
<1>15. QED
  BY <1>14 DEF now

(* The first place, which is empty, becomes the last one.                   *)
LEMMA CutTurns ==
  ASSUME NEW n \in Nat, NEW data, \A i \in 1 .. n : data[i] \in Seq(Nat),
         NEW last \in 1 .. n, NEW written \in Nat, NEW all \in Seq(Nat),
         InRow(data, n, last, written, all), data[1] = <<>>,
         NEW turned, turned[n] = <<>>, \A i \in 1 .. n - 1 : turned[i] = data[i + 1],
         NEW here \in 1 .. n, here >= last - 1
  PROVE  InRow(turned, n, here, written, all)
<1>0. PICK cut : IsCut(cut, data, n, last, written, all)
  BY DEF InRow
<1> DEFINE new == [i \in 0 .. n |-> IF i < n THEN cut[i + 1] ELSE Len(all)]
<1>1. /\ cut \in [0 .. n -> Nat] /\ cut[0] = written
      /\ \A i \in 0 .. n : cut[i] <= Len(all)
      /\ \A i \in last .. n : cut[i] = Len(all)
      /\ \A i \in 1 .. n : cut[i] = cut[i - 1] + Len(data[i]) /\ PartOf(data[i], all, cut[i - 1])
      /\ 1 \in 1 .. n /\ n \in last .. n /\ Len(all) \in Nat
  BY <1>0, LenProperties DEF IsCut
<1>2. cut[1] = written
  <2>1. cut[1] = cut[1 - 1] + Len(<<>>) /\ 1 - 1 = 0
    BY <1>1
  <2>2. QED
    BY <1>1, <2>1
<1>3. new \in [0 .. n -> Nat] /\ new[0] = written
  BY <1>1, <1>2
<1>4. \A i \in 0 .. n : new[i] <= Len(all)
  BY <1>1
<1>5. \A i \in here .. n : new[i] = Len(all)
  <2>1. ASSUME NEW i \in here .. n PROVE new[i] = Len(all)
    <3>1. i \in 0 .. n /\ (i = n \/ i + 1 \in last .. n)
      OBVIOUS
    <3>2. QED
      BY <1>1, <3>1
  <2>2. QED
    BY <2>1
<1>6. ASSUME NEW i \in 1 .. n
      PROVE  new[i] = new[i - 1] + Len(turned[i]) /\ PartOf(turned[i], all, new[i - 1])
  <2>1. CASE i = n
    <3>1. new[i] = Len(all) /\ new[i - 1] = Len(all) /\ turned[i] = <<>>
      BY <1>1, <2>1
    <3>2. QED
      BY <3>1, NothingIsPart
  <2>2. CASE i \in 1 .. n - 1
    <3>1. i + 1 \in 1 .. n /\ new[i] = cut[i + 1] /\ new[i - 1] = cut[i] /\ turned[i] = data[i + 1]
      BY <2>2
    <3>2. (i + 1) - 1 = i
      OBVIOUS
    <3>3. QED
      BY <1>1, <3>1, <3>2
  <2>3. QED
    BY <2>1, <2>2
<1> HIDE DEF new
<1>7. IsCut(new, turned, n, here, written, all)
  BY <1>3, <1>4, <1>5, <1>6 DEF IsCut
<1>8. QED
  BY <1>7 DEF InRow


(* The lines of the first place are those that are to be written next.      *)
LEMMA FirstInRow ==
  ASSUME NEW n \in Nat, n >= 1, NEW data, NEW last, NEW written, NEW all,
         InRow(data, n, last, written, all)
  PROVE  PartOf(data[1], all, written) /\ written + Len(data[1]) <= Len(all) /\ written <= Len(all)
<1>1. PICK cut : IsCut(cut, data, n, last, written, all)
  BY DEF InRow
<1>2. 1 \in 1 .. n /\ 1 \in 0 .. n /\ 0 \in 0 .. n /\ 1 - 1 = 0
  OBVIOUS
<1>3. /\ cut[0] = written /\ cut[0] <= Len(all) /\ cut[1] <= Len(all)
      /\ cut[1] = cut[0] + Len(data[1]) /\ PartOf(data[1], all, cut[0])
  BY <1>1, <1>2 DEF IsCut
<1>4. QED
  BY <1>3

(* The first k lines are added to what is written, which is n lines then,   *)
(* and the others are taken out.                                           *)
GrowsTo(all, written, lines, k, lost, n) ==
  /\ written \o SubSeq(lines, 1, k) = SubSeq(all, 1, n) /\ Len(SubSeq(all, 1, n)) = n
  /\ Without(all, n, lost) \in Seq(Nat)
  /\ PartOf(SubSeq(all, 1, n), Without(all, n, lost), 0)

(* When the first of the lines that come next are written and the others   *)
(* taken out, what is written is still the beginning of all lines.          *)
LEMMA WrittenGrows ==
  ASSUME NEW all \in Seq(Nat), NEW written \in Seq(Nat), NEW lines \in Seq(Nat),
         PartOf(written, all, 0), PartOf(lines, all, Len(written)),
         NEW k \in Nat, NEW lost \in Nat, NEW n \in Nat,
         Len(lines) = k + lost, Len(written) = n - k, n + lost <= Len(all)
  PROVE  GrowsTo(all, written, lines, k, lost, n)
<1> DEFINE first == SubSeq(lines, 1, k)
           more == written \o first
           part == SubSeq(all, 1, n)
           now == Without(all, n, lost)
<1>1. /\ Len(all) \in Nat /\ Len(written) \in Nat /\ n \in 0 .. Len(all) /\ k \in 0 .. Len(lines)
      /\ Len(written) + k = n
  BY LenProperties
<1>2. first \in Seq(Nat) /\ Len(first) = k /\ \A j \in 1 .. k : first[j] = lines[j]
  BY <1>1, FirstFacts
<1>3. part \in Seq(Nat) /\ Len(part) = n /\ \A j \in 1 .. n : part[j] = all[j]
  BY <1>1, FirstFacts
<1>4. now \in Seq(Nat) /\ \A j \in 1 .. n : now[j] = all[j]
  BY <1>1, WithoutFacts
<1> HIDE DEF first, part, now
<1>5. /\ more \in Seq(Nat) /\ Len(more) = n
      /\ \A j \in 1 .. Len(written) : more[j] = written[j]
      /\ \A i \in Len(written) + 1 .. n : more[i] = first[i - Len(written)]
  BY <1>1, <1>2, JoinFacts
<1> HIDE DEF more
<1>6. ASSUME NEW i \in 1 .. n PROVE more[i] = all[i]
  <2>1. CASE i \in 1 .. Len(written)
    <3>1. written[i] = all[0 + i] /\ 0 + i = i
      BY <2>1 DEF PartOf
    <3>2. QED
      BY <1>5, <2>1, <3>1
  <2>2. CASE i \in Len(written) + 1 .. n
    <3> DEFINE j == i - Len(written)
    <3>1. j \in 1 .. k /\ j \in 1 .. Len(lines) /\ Len(written) + j = i
      BY <1>1, <2>2
    <3>2. lines[j] = all[Len(written) + j]
      BY <3>1 DEF PartOf
    <3>3. more[i] = first[j] /\ first[j] = lines[j]
      BY <1>2, <1>5, <2>2, <3>1
    <3>4. QED
      BY <3>1, <3>2, <3>3
  <2>3. QED
    BY <1>1, <2>1, <2>2
<1>7. more = part
  BY <1>3, <1>5, <1>6, SeqEqual
<1>8. PartOf(part, now, 0)
  <2>1. ASSUME NEW j \in 1 .. n PROVE part[j] = now[0 + j]
    <3>1. 0 + j = j
      OBVIOUS
    <3>2. QED
      BY <1>3, <1>4, <3>1
  <2>2. QED
    BY <1>3, <2>1 DEF PartOf
<1>9. QED
  BY <1>3, <1>4, <1>7, <1>8 DEF more, first, part, now, GrowsTo

(* What is written stays the beginning when a line comes in behind it.      *)
LEMMA BeginningStays ==
  ASSUME NEW all \in Seq(Nat), NEW written \in Seq(Nat), PartOf(written, all, 0),
         NEW line \in Nat, NEW n \in Len(written) .. Len(all)
  PROVE  Inserted(all, n, line) \in Seq(Nat) /\ PartOf(written, Inserted(all, n, line), 0)
<1> DEFINE now == Inserted(all, n, line)
<1>1. Len(all) \in Nat /\ Len(written) \in Nat /\ n \in 0 .. Len(all)
  BY LenProperties
<1>2. now \in Seq(Nat) /\ \A j \in 1 .. n : now[j] = all[j]
  BY <1>1, InsertedFacts
<1> HIDE DEF now
<1>3. \A j \in 1 .. Len(written) : j \in 1 .. n /\ 0 + j = j
  BY <1>1
<1>4. PartOf(written, now, 0)
  BY <1>2, <1>3 DEF PartOf
<1>5. QED
  BY <1>2, <1>4 DEF now

-----------------------------------------------------------------------------
(* The lines on their way from the log to Written                          *)

(* Position i of the ring in the order in which it is written: what is      *)
(* cleared and not left yet comes last.                                    *)
At(i) == IF persist # "leaving" THEN i ELSE IF i = Len(ring) THEN 1 ELSE i + 1
View == [i \in 1 .. Len(ring) |-> ring[At(i)]]
Here == IF persist # "leaving" THEN curr ELSE IF curr = 1 THEN Len(ring) ELSE curr - 1

(* The FULL buffers are those before the current one; or all are, and the   *)
(* current one is the next to be written, and not cleared yet.             *)
Shape ==
  \/ \A i \in 1 .. Len(ring) : View[i].full <=> i < Here
  \/ /\ \A i \in 1 .. Len(ring) : ring[i].full
     /\ curr = 1 /\ persist # "leaving"

(* The lines that are not written: none in the buffer that is not cleared.  *)
Data == [i \in 1 .. Len(ring) |-> IF i = 1 /\ persist = "clearing" THEN <<>> ELSE View[i].data]
Last == IF ring[curr].full THEN Len(ring) ELSE Here

InOrder ==
  /\ FilesFit
  /\ Shape
  /\ log \in Seq(Nat)
  /\ PartOf(Written, log, 0)
  /\ InRow(Data, Len(ring), Last, Len(Written), log)

IInv == Inv /\ InOrder

(* The order is one of all buffers, and the current one is Here. *)
LEMMA ViewFacts ==
  ASSUME Inv
  PROVE  /\ Len(ring) \in Nat /\ Len(ring) >= 2 /\ Here \in 1 .. Len(ring)
         /\ \A i \in 1 .. Len(ring) :
              /\ At(i) \in 1 .. Len(ring) /\ View[i] = ring[At(i)]
              /\ ring[i] \in Buffers /\ View[i] \in Buffers
              /\ At(i) = curr <=> i = Here
         /\ At(Here) = curr /\ curr \in 1 .. Len(ring)
<1>1. /\ Len(ring) \in Nat /\ Len(ring) >= 2 /\ curr \in 1 .. Len(ring)
      /\ \A i \in 1 .. Len(ring) : ring[i] \in Buffers
  BY RingProperty DEF Inv
<1>2. Here \in 1 .. Len(ring)
  BY <1>1 DEF Here
<1>3. ASSUME NEW i \in 1 .. Len(ring)
      PROVE  At(i) \in 1 .. Len(ring) /\ (At(i) = curr <=> i = Here)
  BY <1>1 DEF At, Here
<1>4. \A i \in 1 .. Len(ring) : View[i] = ring[At(i)]
  BY DEF View
<1>5. QED
  BY <1>1, <1>2, <1>3, <1>4

(* The lines in the buffers are sequences. *)
LEMMA DataFacts ==
  ASSUME Inv
  PROVE  /\ \A i \in 1 .. Len(ring) : Data[i] \in Seq(Nat) /\ ring[i].data \in Seq(Nat)
         /\ Last \in 1 .. Len(ring) /\ taken \in Nat
<1>1. \A i \in 1 .. Len(ring) : View[i].data \in Seq(Nat) /\ ring[i].data \in Seq(Nat)
  BY ViewFacts DEF Buffers
<1>2. <<>> \in Seq(Nat)
  BY EmptySeq
<1>3. \A i \in 1 .. Len(ring) : Data[i] \in Seq(Nat)
  BY <1>1, <1>2 DEF Data
<1>4. Last \in 1 .. Len(ring)
  BY ViewFacts DEF Last
<1>5. taken \in Nat
  BY DEF Inv, TypeOK
<1>6. QED
  BY <1>1, <1>3, <1>4, <1>5

(* Where a line can be put, the FULL buffers are those before.             *)
LEMMA NotFullHere ==
  ASSUME IInv, ~ring[curr].full
  PROVE  /\ \A i \in 1 .. Len(ring) : View[i].full <=> i < Here
         /\ Last = Here
         /\ persist = "clearing" => Here # 1
         /\ Data[Here] = ring[curr].data
<1>1. \A i \in 1 .. Len(ring) : View[i].full <=> i < Here
  BY ViewFacts DEF IInv, InOrder, Shape
<1>2. persist = "clearing" => Here # 1
  <2>1. ASSUME persist = "clearing" PROVE Here # 1
    <3>1. ring[1].full /\ Here = curr
      BY <2>1 DEF IInv, Inv, TypeOK, Here
    <3>2. QED
      BY <3>1
  <2>2. QED
    BY <2>1
<1>3. Data[Here] = ring[curr].data
  BY <1>2, ViewFacts DEF IInv, Data
<1>4. QED
  BY <1>1, <1>2, <1>3 DEF Last

(* What comes after the current buffer when it overflows.                  *)
LEMMA NextInView ==
  ASSUME IInv, ~Preempted, NEW len \in Lengths, Overflows(len)
  PROVE  \/ /\ Here < Len(ring) /\ After(curr) = At(Here + 1)
            /\ ~ring[After(curr)].full
         \/ /\ Here = Len(ring) /\ curr = Len(ring) /\ After(curr) = 1
            /\ persist # "leaving" /\ ring[1].full
<1>1. ~ring[curr].full /\ ~(persist = "leaving" /\ curr = 1)
  BY DEF Overflows
<1>2. \A i \in 1 .. Len(ring) : View[i].full <=> i < Here
  BY <1>1, NotFullHere
<1>3. After(curr) = IF curr = Len(ring) THEN 1 ELSE curr + 1
  BY AfterValue, ViewFacts DEF IInv, Inv
<1>4. CASE Here < Len(ring)
  <2>1. Here + 1 \in 1 .. Len(ring)
    BY <1>4, ViewFacts DEF IInv
  <2>2. After(curr) = At(Here + 1)
    BY <1>1, <1>3, <1>4, ViewFacts DEF At, Here, IInv
  <2>3. ~View[Here + 1].full
    BY <1>2, <2>1, ViewFacts DEF IInv
  <2>4. QED
    BY <1>4, <2>1, <2>2, <2>3, ViewFacts DEF IInv
<1>5. CASE Here = Len(ring)
  <2>1. persist # "leaving" /\ curr = Len(ring)
    BY <1>1, <1>5, ViewFacts DEF Here, IInv
  <2>2. View[1] = ring[1] /\ 1 \in 1 .. Len(ring) /\ 1 < Here
    BY <1>5, <2>1, ViewFacts DEF At, IInv
  <2>3. QED
    BY <1>2, <1>3, <1>5, <2>1, <2>2
<1>6. QED
  BY <1>4, <1>5, ViewFacts DEF IInv

(* A line that is taken, by a place that is the last one or a later one.    *)
LEMMA LinesGoOn ==
  ASSUME IInv, Inv', UNCHANGED fileVars, Shape', NEW line \in Nat,
         Len(ring') = Len(ring) \/ Len(ring') = Len(ring) + 1,
         Last' \in Last .. Len(ring'),
         \A i \in 1 .. Len(ring') :
           i # Last' => Data'[i] = IF i <= Len(ring) THEN Data[i] ELSE <<>>,
         LET before == IF Last' <= Len(ring) THEN Data[Last'] ELSE <<>>
         IN  \/ Data'[Last'] = before /\ log' = log
             \/ Data'[Last'] = Append(before, line) /\ log' = Append(log, line)
  PROVE  IInv'
<1>1. /\ Len(ring) \in Nat /\ \A i \in 1 .. Len(ring) : Data[i] \in Seq(Nat)
      /\ Last \in 1 .. Len(ring) /\ log \in Seq(Nat) /\ Len(log) \in Nat
  BY ViewFacts, DataFacts, LenProperties DEF IInv, InOrder
<1>2. Written \in Seq(Nat) /\ Len(Written) \in Nat /\ FilesFit
  BY WrittenType, LenProperties DEF IInv, InOrder
<1>3. Written' = Written /\ FilesFit'
  BY <1>2 DEF fileVars, Written, FilesFit, IsOpen
<1>4. InRow(Data, Len(ring), Last, Len(Written), log)
  BY DEF IInv, InOrder
<1>5. InRow(Data', Len(ring'), Last', Len(Written), log')
  <2> DEFINE data == Data
             more == Data'
             written == Len(Written)
             all == log
             now == log'
             n == Len(ring)
             size == Len(ring')
             last == Last
             here == Last'
  <2>1. /\ n \in Nat /\ \A i \in 1 .. n : data[i] \in Seq(Nat)
        /\ last \in 1 .. n /\ written \in Nat /\ all \in Seq(Nat)
        /\ InRow(data, n, last, written, all)
    BY <1>1, <1>2, <1>4
  <2>2. /\ size = n \/ size = n + 1
        /\ here \in last .. size
        /\ \A i \in 1 .. size : i # here => more[i] = IF i <= n THEN data[i] ELSE <<>>
        /\ GoesOn(IF here <= n THEN data[here] ELSE <<>>, more[here], all, now, line)
    BY DEF GoesOn
  <2> HIDE DEF data, more, written, all, now, n, size, last, here
  <2>3. InRow(more, size, here, written, now)
    BY <2>1, <2>2, CutGoesOn
  <2>4. QED
    BY <2>3 DEF more, size, here, written, now
<1>6. InRow(Data, Len(ring), Last, Len(Written), log)'
  BY <1>3, <1>5
<1>7. log' \in Seq(Nat) /\ PartOf(Written, log', 0)
  <2>1. PartOf(Written, log, 0) /\ 0 + Len(Written) <= Len(log)
    <3>1. PICK cut : IsCut(cut, Data, Len(ring), Last, Len(Written), log)
      BY <1>4 DEF InRow
    <3>2. cut[0] = Len(Written) /\ cut[0] <= Len(log)
      BY <1>1, <3>1 DEF IsCut
    <3>3. QED
      BY <1>2, <3>2 DEF IInv, InOrder
  <2>2. PartOf(Written, Append(log, line), 0) /\ Append(log, line) \in Seq(Nat)
    BY <1>1, <1>2, <2>1, PartOfMore, AppendProperties
  <2>3. log' = log \/ log' = Append(log, line)
    OBVIOUS
  <2>4. QED
    BY <1>1, <2>1, <2>2, <2>3
<1>8. QED
  BY <1>3, <1>6, <1>7 DEF IInv, InOrder

-----------------------------------------------------------------------------
(* Each branch of append() keeps the order                                 *)

(* The first line of a buffer, where it is put. *)
LEMMA StartedLines ==
  ASSUME NEW buf \in Buffers, NEW len
  PROVE  Started(buf, len).data =
           IF lastDrop = "never" /\ Fits(buf, len) THEN Append(buf.data, taken + 1)
           ELSE buf.data
  BY DEF Started, Put, Buffers

(* A line goes to the end of the current buffer, which is not FULL. *)
LEMMA PutHereInOrder ==
  ASSUME IInv, Inv', ~ring[curr].full, UNCHANGED <<curr, persist, fileVars>>,
         NEW line \in Nat, NEW buf \in Buffers, ~buf.full,
         buf.data = Append(ring[curr].data, line),
         ring' = [ring EXCEPT ![curr] = buf], log' = Append(log, line)
  PROVE  IInv'
<1>1. /\ \A i \in 1 .. Len(ring) : View[i].full <=> i < Here
      /\ Last = Here
      /\ persist = "clearing" => Here # 1
      /\ Data[Here] = ring[curr].data
  BY NotFullHere
<1>2. /\ Len(ring) \in Nat /\ Here \in 1 .. Len(ring) /\ curr \in 1 .. Len(ring)
      /\ At(Here) = curr
      /\ \A i \in 1 .. Len(ring) :
           /\ At(i) \in 1 .. Len(ring) /\ View[i] = ring[At(i)]
           /\ ring[i] \in Buffers /\ (At(i) = curr <=> i = Here)
  BY ViewFacts DEF IInv
<1>3. /\ Len(ring') = Len(ring)
      /\ \A i \in 1 .. Len(ring) : ring'[i] = IF i = curr THEN buf ELSE ring[i]
  <2>1. ring \in Seq(Buffers)
    BY DEF IInv, Inv, TypeOK
  <2>2. QED
    BY <1>2, <2>1, ExceptSeq
<1>4. curr' = curr /\ persist' = persist
  OBVIOUS
<1>5. Here' = Here /\ \A i \in 1 .. Len(ring) : At(i)' = At(i)
  BY <1>3, <1>4 DEF Here, At
<1>6. \A i \in 1 .. Len(ring) : View'[i] = IF i = Here THEN buf ELSE View[i]
  BY <1>2, <1>3, <1>5 DEF View
<1>7. Shape'
  <2>1. ASSUME NEW i \in 1 .. Len(ring) PROVE View'[i].full <=> i < Here
    <3>1. CASE i = Here
      BY <1>2, <1>6, <3>1
    <3>2. CASE i # Here
      BY <1>1, <1>6, <3>2
    <3>3. QED
      BY <3>1, <3>2
  <2>2. QED
    BY <1>3, <1>5, <2>1 DEF Shape
<1>8. Last' = Here
  BY <1>2, <1>3, <1>4, <1>5 DEF Last
<1>9. ASSUME NEW i \in 1 .. Len(ring)
       PROVE  Data'[i] = IF i = Here THEN Append(Data[i], line) ELSE Data[i]
  <2>1. Data'[i] = IF i = 1 /\ persist = "clearing" THEN <<>> ELSE View'[i].data
    BY <1>3, <1>4 DEF Data
  <2>2. Data[i] = IF i = 1 /\ persist = "clearing" THEN <<>> ELSE View[i].data
    BY DEF Data
  <2>3. CASE i = Here
    BY <1>1, <1>2, <1>6, <2>1, <2>3
  <2>4. CASE i # Here
    BY <1>6, <2>1, <2>2, <2>4
  <2>5. QED
    BY <2>3, <2>4
<1>10. Last' \in Last .. Len(ring') /\ Last' <= Len(ring)
  BY <1>1, <1>2, <1>3, <1>8
<1>11. \A i \in 1 .. Len(ring') :
         i # Last' => Data'[i] = IF i <= Len(ring) THEN Data[i] ELSE <<>>
  BY <1>2, <1>3, <1>8, <1>9
<1>12. Data'[Last'] = Append(IF Last' <= Len(ring) THEN Data[Last'] ELSE <<>>, line)
  BY <1>2, <1>8, <1>9, <1>10
<1>13. QED
  BY <1>3, <1>4, <1>7, <1>10, <1>11, <1>12, LinesGoOn

(* A line is taken by the current buffer. *)
LEMMA AppendHereInOrder ==
  ASSUME IInv, NEW t \in Threads, NEW len \in Lengths,
         AppendHere(t, len), UNCHANGED <<persist, fileVars, faults>>
  PROVE  IInv'
<1>1. Inv'
  BY AppendHereStep DEF IInv
<1>2. ring[curr] \in Buffers /\ taken + 1 \in Nat /\ ~ring[curr].full
  BY RingProperty, DataFacts DEF IInv, Inv, AppendHere
<1> DEFINE buf == Put(ring[curr], taken + 1, len)
<1>3. buf \in Buffers /\ buf.full = ring[curr].full
  BY <1>2, PutType
<1>4. buf.data = Append(ring[curr].data, taken + 1)
  BY <1>2 DEF Put, AppendHere, Buffers
<1>5. /\ ring' = [ring EXCEPT ![curr] = buf] /\ log' = Append(log, taken + 1)
      /\ UNCHANGED <<curr, persist, fileVars>>
  BY DEF AppendHere, TakenIf
<1> HIDE DEF buf
<1>6. QED
  BY <1>1, <1>2, <1>3, <1>4, <1>5, PutHereInOrder

(* The current buffer is given up as FULL for the one that comes next.      *)
LEMMA AdvanceInOrder ==
  ASSUME IInv, Inv', UNCHANGED fileVars,
         persist' = "clearing" <=> persist = "clearing",
         persist' = "leaving" <=> persist = "leaving",
         ~ring[curr].full, Here < Len(ring), Len(ring') = Len(ring), curr' = At(Here + 1),
         ring'[curr].full, ring'[curr].data = ring[curr].data, ~ring'[curr'].full,
         \A i \in 1 .. Len(ring) : i \notin {curr, curr'} => ring'[i] = ring[i],
         \/ ring'[curr'].data = ring[curr'].data /\ log' = log
         \/ /\ ring'[curr'].data = Append(ring[curr'].data, taken + 1)
            /\ log' = Append(log, taken + 1)
  PROVE  IInv'
<1>1. /\ \A i \in 1 .. Len(ring) : View[i].full <=> i < Here
      /\ Last = Here
      /\ persist = "clearing" => Here # 1
      /\ Data[Here] = ring[curr].data
  BY NotFullHere
<1>2. /\ Len(ring) \in Nat /\ Here \in 1 .. Len(ring) /\ curr \in 1 .. Len(ring)
      /\ Here + 1 \in 1 .. Len(ring) /\ At(Here) = curr
      /\ \A i \in 1 .. Len(ring) :
           /\ At(i) \in 1 .. Len(ring) /\ View[i] = ring[At(i)]
           /\ At(i) = curr <=> i = Here
  <2>1. Inv
    BY DEF IInv
  <2>2. /\ Len(ring) \in Nat /\ Here \in 1 .. Len(ring) /\ curr \in 1 .. Len(ring)
        /\ At(Here) = curr
        /\ \A i \in 1 .. Len(ring) :
             At(i) \in 1 .. Len(ring) /\ View[i] = ring[At(i)] /\ (At(i) = curr <=> i = Here)
    BY <2>1, ViewFacts
  <2>3. QED
    BY <2>2
<1>3. \A i \in 1 .. Len(ring) : At(i) = curr' <=> i = Here + 1
  BY <1>2 DEF At
<1>4. Here' = Here + 1 /\ \A i \in 1 .. Len(ring) : At(i)' = At(i)
  <2>1. \A i \in 1 .. Len(ring) : At(i)' = At(i)
    BY DEF At
  <2>2. CASE persist # "leaving"
    BY <1>2, <2>2 DEF Here, At
  <2>3. CASE persist = "leaving"
    BY <1>2, <2>3 DEF Here, At
  <2>4. QED
    BY <2>1, <2>2, <2>3
<1>5. \A i \in 1 .. Len(ring) : View'[i] = ring'[At(i)]
  BY <1>4 DEF View
<1>6. /\ View'[Here].full /\ View'[Here].data = View[Here].data
      /\ ~View'[Here + 1].full /\ View'[Here + 1] = ring'[curr'] /\ View[Here + 1] = ring[curr']
      /\ \A i \in 1 .. Len(ring) : i \notin {Here, Here + 1} => View'[i] = View[i]
  <2>1. View'[Here] = ring'[curr] /\ View[Here] = ring[curr]
    BY <1>2, <1>5
  <2>2. View'[Here + 1] = ring'[curr'] /\ View[Here + 1] = ring[curr']
    BY <1>2, <1>3, <1>5
  <2>3. ASSUME NEW i \in 1 .. Len(ring), i \notin {Here, Here + 1}
        PROVE  View'[i] = View[i]
    <3>1. At(i) \in 1 .. Len(ring) /\ At(i) \notin {curr, curr'}
      BY <1>2, <1>3, <2>3
    <3>2. ring'[At(i)] = ring[At(i)]
      BY <3>1
    <3>3. QED
      BY <1>2, <1>5, <3>2
  <2>4. QED
    BY <2>1, <2>2, <2>3
<1>7. Shape'
  <2>1. ASSUME NEW i \in 1 .. Len(ring) PROVE View'[i].full <=> i < Here + 1
    <3>1. CASE i \in {Here, Here + 1}
      BY <1>2, <1>6, <3>1
    <3>2. CASE i \notin {Here, Here + 1}
      <4>1. View'[i].full <=> i < Here
        BY <1>1, <1>6, <3>2
      <4>2. i < Here <=> i < Here + 1
        BY <1>2, <3>2
      <4>3. QED
        BY <4>1, <4>2
    <3>3. QED
      BY <3>1, <3>2
  <2>2. QED
    BY <1>4, <2>1 DEF Shape
<1>8. Last' = Here + 1
  BY <1>4 DEF Last
<1>9. ASSUME NEW i \in 1 .. Len(ring)
      PROVE  Data'[i] = IF i = 1 /\ persist = "clearing" THEN <<>> ELSE View'[i].data
  BY DEF Data
<1>10. \A i \in 1 .. Len(ring) : i # Here + 1 => Data'[i] = Data[i]
  <2>1. ASSUME NEW i \in 1 .. Len(ring), i # Here + 1 PROVE View'[i].data = View[i].data
    BY <1>6, <2>1
  <2>2. QED
    BY <1>9, <2>1 DEF Data
<1>11. Data'[Here + 1] = ring'[curr'].data /\ Data[Here + 1] = ring[curr'].data
  <2>1. Here + 1 # 1
    BY <1>2
  <2>2. QED
    BY <1>2, <1>6, <1>9, <2>1 DEF Data
<1>12. Last' \in Last .. Len(ring') /\ Last' <= Len(ring)
  BY <1>1, <1>2, <1>8
<1>13. \A i \in 1 .. Len(ring') :
         i # Last' => Data'[i] = IF i <= Len(ring) THEN Data[i] ELSE <<>>
  BY <1>2, <1>8, <1>10
<1>14. \/ /\ Data'[Last'] = IF Last' <= Len(ring) THEN Data[Last'] ELSE <<>>
          /\ log' = log
       \/ /\ Data'[Last'] = Append(IF Last' <= Len(ring) THEN Data[Last'] ELSE <<>>, taken + 1)
          /\ log' = Append(log, taken + 1)
  BY <1>8, <1>11, <1>12
<1>15. taken + 1 \in Nat
  BY DataFacts DEF IInv
<1>16. QED
  BY <1>7, <1>12, <1>13, <1>14, <1>15, LinesGoOn

(* The next buffer is the next one in the order too. *)
LEMMA MoveOnInOrder ==
  ASSUME IInv, ~Preempted, NEW t \in Threads, NEW len \in Lengths,
         MoveOn(t, len), UNCHANGED <<persist, fileVars, faults>>
  PROVE  IInv'
<1>1. Inv'
  BY MoveOnStep DEF IInv
<1>2. Here < Len(ring) /\ curr' = At(Here + 1) /\ curr' = After(curr) /\ ~ring[curr].full
  BY NextInView DEF MoveOn, Overflows
<1>3. /\ curr \in 1 .. Len(ring) /\ curr' \in 1 .. Len(ring) /\ curr' # curr
      /\ ring[curr'] \in Buffers
  BY <1>2, RingProperty, AfterProperty DEF IInv, Inv
<1> DEFINE buf == Started(ring[curr'], len)
<1>4. /\ buf \in Buffers /\ ~buf.full
      /\ buf.data = IF lastDrop = "never" /\ Fits(ring[curr'], len)
                    THEN Append(ring[curr'].data, taken + 1) ELSE ring[curr'].data
  BY <1>2, <1>3, StartedType, StartedLines DEF IInv, Inv, MoveOn
<1>5. ring' = [Filled(curr) EXCEPT ![curr'] = buf]
  <2>1. Filled(curr)[curr'] = ring[curr']
    BY <1>3, FilledProperty DEF IInv, Inv
  <2>2. QED
    BY <2>1 DEF MoveOn
<1> HIDE DEF buf
<1>6. /\ Len(ring') = Len(ring)
      /\ \A i \in 1 .. Len(ring) : ring'[i] = IF i = curr' THEN buf ELSE Filled(curr)[i]
  BY <1>3, <1>4, <1>5, FilledProperty, ExceptSeq DEF IInv, Inv
<1>7. /\ ring'[curr].full /\ ring'[curr].data = ring[curr].data /\ ring'[curr'] = buf
      /\ \A i \in 1 .. Len(ring) : i \notin {curr, curr'} => ring'[i] = ring[i]
  BY <1>3, <1>6, FilledProperty, FilledLines DEF IInv, Inv
<1>8. \/ ring'[curr'].data = ring[curr'].data /\ log' = log
      \/ /\ ring'[curr'].data = Append(ring[curr'].data, taken + 1)
         /\ log' = Append(log, taken + 1)
  BY <1>4, <1>7 DEF MoveOn, TakenIf
<1>9. QED
  BY <1>1, <1>2, <1>4, <1>6, <1>7, <1>8, AdvanceInOrder

(* The ring grows by a buffer that comes after all others.                  *)
LEMMA GrowInOrder ==
  ASSUME IInv, ~Preempted, NEW t \in Threads, NEW len \in Lengths,
         Grow(t, len), UNCHANGED <<persist, fileVars, faults>>
  PROVE  IInv'
<1> DEFINE n == Len(ring)
           buf == Started(EmptyBuffer, len)
<1>1. Inv'
  BY GrowStep DEF IInv
<1>2. /\ Here = n /\ curr = n /\ persist # "leaving" /\ ~ring[curr].full
      /\ n \in Nat /\ n >= 2
      /\ \A i \in 1 .. n : View[i] = ring[i] /\ ring[i] \in Buffers
  BY NextInView, ViewFacts DEF IInv, Grow, Overflows, At
<1>3. /\ \A i \in 1 .. n : View[i].full <=> i < Here
      /\ Last = n
  BY <1>2, NotFullHere
<1>4. /\ buf \in Buffers /\ ~buf.full
      /\ buf.data = IF lastDrop = "never" THEN Append(<<>>, taken + 1) ELSE <<>>
  <2>1. Fits(EmptyBuffer, len) /\ EmptyBuffer.data = <<>>
    BY LogAssumption DEF Fits, EmptyBuffer
  <2>2. QED
    BY <2>1, EmptyType, StartedType, StartedLines DEF IInv, Inv
<1>5. /\ curr' = n + 1
      /\ ring' = [i \in 1 .. n + 1 |->
                    IF i < curr + 1 THEN Filled(curr)[i]
                    ELSE IF i = curr + 1 THEN buf ELSE ring[i - 1]]
  BY <1>2 DEF Grow
<1> HIDE DEF buf
<1>6. Len(ring') = n + 1
  <2>1. ring' \in Seq(Buffers) /\ DOMAIN ring' = 1 .. n + 1 /\ n + 1 \in Nat
    BY <1>1, <1>2, <1>5 DEF Inv, TypeOK
  <2>2. Len(ring') \in Nat /\ DOMAIN ring' = 1 .. Len(ring')
    BY <2>1, LenProperties
  <2>3. QED
    BY <2>1, <2>2
<1>7. /\ ring'[n + 1] = buf
      /\ \A i \in 1 .. n : ring'[i] = Filled(curr)[i]
  BY <1>2, <1>5
<1>8. \A i \in 1 .. n : ring'[i].full /\ ring'[i].data = ring[i].data
  <2>1. /\ \A i \in 1 .. n : i # curr => Filled(curr)[i] = ring[i]
        /\ Filled(curr)[curr].full
        /\ \A i \in 1 .. n : Filled(curr)[i].data = ring[i].data
    BY <1>2, FilledProperty, FilledLines DEF IInv, Inv
  <2>2. QED
    BY <1>2, <1>3, <1>7, <2>1
<1>9. /\ persist' = persist /\ UNCHANGED fileVars
      /\ Here' = n + 1 /\ \A i \in 1 .. n + 1 : View'[i] = ring'[i]
  BY <1>2, <1>5, <1>6 DEF Here, View, At
<1>10. Shape'
  <2>1. \A i \in 1 .. n + 1 : View'[i].full <=> i < n + 1
    BY <1>2, <1>4, <1>7, <1>8, <1>9
  <2>2. QED
    BY <1>6, <1>9, <2>1 DEF Shape
<1>11. Last' = n + 1
  BY <1>4, <1>5, <1>7, <1>9 DEF Last
<1>12. \A i \in 1 .. n + 1 :
         Data'[i] = IF i = 1 /\ persist = "clearing" THEN <<>> ELSE ring'[i].data
  BY <1>6, <1>9 DEF Data
<1>13. \A i \in 1 .. Len(ring') : i # Last' => Data'[i] = IF i <= Len(ring) THEN Data[i] ELSE <<>>
  <2>1. ASSUME NEW i \in 1 .. n PROVE Data'[i] = Data[i]
    <3>1. Data'[i] = IF i = 1 /\ persist = "clearing" THEN <<>> ELSE ring'[i].data
      BY <1>2, <1>12
    <3>2. Data[i] = IF i = 1 /\ persist = "clearing" THEN <<>> ELSE ring[i].data
      BY <1>2 DEF Data
    <3>3. QED
      BY <1>8, <3>1, <3>2
  <2>2. QED
    BY <1>2, <1>6, <1>11, <2>1
<1>14. Data'[n + 1] = buf.data
  BY <1>2, <1>7, <1>12
<1>15. \/ /\ Data'[Last'] = IF Last' <= Len(ring) THEN Data[Last'] ELSE <<>>
          /\ log' = log
       \/ /\ Data'[Last'] = Append(IF Last' <= Len(ring) THEN Data[Last'] ELSE <<>>, taken + 1)
          /\ log' = Append(log, taken + 1)
  <2>1. ~(Last' <= Len(ring))
    BY <1>2, <1>11
  <2>2. QED
    BY <1>4, <1>11, <1>14, <2>1 DEF Grow, TakenIf
<1>16. Last' \in Last .. Len(ring')
  BY <1>2, <1>3, <1>6, <1>11
<1>17. taken + 1 \in Nat
  BY DataFacts DEF IInv
<1>18. QED
  BY <1>1, <1>6, <1>9, <1>10, <1>13, <1>15, <1>16, <1>17, LinesGoOn

(* All buffers are FULL: the line is refused.                              *)
LEMMA NoMoreSpaceInOrder ==
  ASSUME IInv, ~Preempted, NEW t \in Threads, NEW len \in Lengths,
         NoMoreSpace(t, len), UNCHANGED <<persist, fileVars, faults>>
  PROVE  IInv'
<1> DEFINE n == Len(ring)
<1>1. Inv'
  BY NoMoreSpaceStep DEF IInv
<1>2. /\ Here = n /\ curr = n /\ persist # "leaving" /\ ~ring[curr].full
      /\ n \in Nat /\ n >= 2 /\ curr' = 1
      /\ \A i \in 1 .. n : View[i] = ring[i] /\ ring[i] \in Buffers
  BY NextInView, ViewFacts DEF IInv, NoMoreSpace, Overflows, At
<1>3. /\ \A i \in 1 .. n : View[i].full <=> i < Here
      /\ Last = n
  BY <1>2, NotFullHere
<1>4. /\ Filled(curr) \in [1 .. n -> Buffers]
      /\ \A i \in 1 .. n : Filled(curr)[i].full /\ Filled(curr)[i].data = ring[i].data
  <2>1. /\ Filled(curr) \in Seq(Buffers) /\ Len(Filled(curr)) = n
        /\ \A i \in 1 .. n : i # curr => Filled(curr)[i] = ring[i]
        /\ Filled(curr)[curr].full
        /\ \A i \in 1 .. n : Filled(curr)[i].data = ring[i].data
    BY <1>2, FilledProperty, FilledLines DEF IInv, Inv
  <2>2. \A i \in 1 .. n : Filled(curr)[i].full
    BY <1>2, <1>3, <2>1
  <2>3. QED
    BY <2>1, <2>2, LenProperties
<1>5. /\ DOMAIN ring' = 1 .. n
      /\ \A i \in 1 .. n : ring'[i].full /\ ring'[i].data = ring[i].data
  BY <1>4 DEF NoMoreSpace
<1>6. Len(ring') = n
  <2>1. ring' \in Seq(Buffers)
    BY <1>1 DEF Inv, TypeOK
  <2>2. Len(ring') \in Nat /\ DOMAIN ring' = 1 .. Len(ring')
    BY <2>1, LenProperties
  <2>3. QED
    BY <1>2, <1>5, <2>2
<1>7. persist' = persist /\ UNCHANGED fileVars /\ log' = log
  BY DEF NoMoreSpace
<1>8. Shape'
  BY <1>2, <1>5, <1>6, <1>7 DEF Shape
<1>9. Last' = n
  BY <1>2, <1>5, <1>6 DEF Last
<1>10. \A i \in 1 .. n : View'[i] = ring'[i]
  BY <1>2, <1>6, <1>7 DEF View, At
<1>11. ASSUME NEW i \in 1 .. n PROVE Data'[i] = Data[i]
  <2>1. Data'[i] = IF i = 1 /\ persist = "clearing" THEN <<>> ELSE View'[i].data
    BY <1>6, <1>7 DEF Data
  <2>2. Data[i] = IF i = 1 /\ persist = "clearing" THEN <<>> ELSE View[i].data
    BY DEF Data
  <2>3. View'[i].data = View[i].data
    BY <1>2, <1>5, <1>10
  <2>4. QED
    BY <2>1, <2>2, <2>3
<1>12. \A i \in 1 .. Len(ring') : i # Last' => Data'[i] = IF i <= Len(ring) THEN Data[i] ELSE <<>>
  BY <1>2, <1>6, <1>11
<1>13. Data'[Last'] = IF Last' <= Len(ring) THEN Data[Last'] ELSE <<>>
  BY <1>2, <1>9, <1>11
<1>14. Last' \in Last .. Len(ring')
  BY <1>2, <1>3, <1>6, <1>9
<1>15. QED
  BY <1>1, <1>6, <1>7, <1>8, <1>12, <1>13, <1>14, LinesGoOn

(* Nothing happens to the lines.                                           *)
LEMMA NothingMoves ==
  ASSUME IInv, Inv', UNCHANGED <<ring, curr, files, logCnt, archive, log>>, FilesFit',
         persist' = "clearing" <=> persist = "clearing",
         persist' = "leaving" <=> persist = "leaving"
  PROVE  IInv'
<1>1. Here' = Here /\ View' = View /\ Written' = Written
  BY DEF Here, View, At, Written
<1>2. Data' = Data /\ Last' = Last
  BY <1>1 DEF Data, Last
<1>3. Shape'
  BY <1>1 DEF IInv, InOrder, Shape
<1>4. InRow(Data, Len(ring), Last, Len(Written), log)'
  BY <1>1, <1>2 DEF IInv, InOrder
<1>5. (log \in Seq(Nat))' /\ PartOf(Written, log, 0)'
  BY <1>1 DEF IInv, InOrder
<1>6. QED
  BY <1>3, <1>4, <1>5 DEF IInv, InOrder

-----------------------------------------------------------------------------
(* Each statement of persist() keeps the order                             *)

(* A buffer that is picked unmarked is the current one, and is passed on   *)
(* from.                                                                   *)
LEMMA PickInOrder == IInv /\ Pick => IInv'
<1> SUFFICES ASSUME IInv, Pick PROVE IInv'
  OBVIOUS
<1>1. Inv' /\ persist = "waiting" /\ persist' = "writing" /\ UNCHANGED fileVars /\ log' = log
  BY PickStep DEF IInv, Pick, logVars
<1>2. Len(ring) \in Nat /\ Len(ring) >= 2 /\ At(2) = 2
  BY <1>1, ViewFacts DEF IInv, At
<1>3. CASE ring[1].full
  <2>1. UNCHANGED <<ring, curr>>
    BY <1>3 DEF Pick, ringVars
  <2>2. FilesFit'
    BY <1>1 DEF fileVars, IInv, InOrder, FilesFit, IsOpen
  <2>3. QED
    BY <1>1, <2>1, <2>2, NothingMoves DEF fileVars
<1>4. CASE ~ring[1].full
  <2>1. curr = 1 /\ Here = 1
    BY <1>1, <1>4, AssertionHolds DEF Pick, PersistsTheCurrent, IInv, Here
  <2>2. ring' = Filled(curr) /\ curr' = 2
    <3>1. After(1) = 2
      BY <1>2, AfterValue DEF IInv, Inv
    <3>2. QED
      BY <1>4, <2>1, <3>1 DEF Pick
  <2>3. /\ Len(ring') = Len(ring) /\ ring'[1].full
        /\ \A i \in 1 .. Len(ring) : ring'[i].data = ring[i].data /\ (i # 1 => ring'[i] = ring[i])
    BY <1>2, <2>1, <2>2, FilledProperty, FilledLines DEF IInv, Inv
  <2>4. ~View[2].full /\ View[2] = ring[2] /\ 2 \in 1 .. Len(ring)
    BY <1>2, <1>4, <2>1, NotFullHere, ViewFacts DEF IInv
  <2>5. ~ring'[2].full
    BY <2>3, <2>4
  <2>6. QED
    BY <1>1, <1>2, <1>4, <2>1, <2>2, <2>3, <2>4, <2>5, AdvanceInOrder
<1>5. QED
  BY <1>3, <1>4

(* Without a file, all stays where it is. *)
LEMMA OpenFailsInOrder ==
  ASSUME IInv, Inv', OpenFails
  PROVE  IInv'
<1>1. FilesFit' /\ Written' = Written
  BY OpenFailsKeeps DEF IInv, InOrder
<1>2. /\ ring' = ring /\ curr' = curr /\ log' = log
      /\ persist = "writing" /\ persist' = "waiting"
  BY DEF OpenFails, ringVars, logVars
<1>3. Here' = Here /\ View' = View
  BY <1>2 DEF Here, View, At
<1>4. Data' = Data /\ Last' = Last
  BY <1>2, <1>3 DEF Data, Last
<1>5. Shape'
  BY <1>2, <1>3 DEF IInv, InOrder, Shape
<1>6. InRow(Data, Len(ring), Last, Len(Written), log)'
  BY <1>1, <1>2, <1>4 DEF IInv, InOrder
<1>7. (log \in Seq(Nat))' /\ PartOf(Written, log, 0)'
  BY <1>1, <1>2 DEF IInv, InOrder
<1>8. QED
  BY <1>1, <1>5, <1>6, <1>7 DEF IInv, InOrder

(* A line that was refused is gone, or it is behind those that are written. *)
SettlesIn(n) == n \in Len(Written) .. Len(log) /\ log' = Inserted(log, n, Stray)

LEMMA SettleInOrder ==
  ASSUME IInv, NEW t \in Threads, Settle(t)
  PROVE  IInv' /\ (log' = log \/ \E n : SettlesIn(n))
<1> DEFINE size == Len(ring)
<1>1. Inv'
  BY SettleStep DEF IInv
<1>2. UNCHANGED <<curr, persist, fileVars>>
  BY DEF Settle
<1>3. /\ Len(ring) \in Nat /\ Len(ring) >= 2 /\ 1 \in 1 .. size
      /\ curr \in 1 .. size /\ ring[curr] \in Buffers
      /\ \A i \in 1 .. size : Data[i] \in Seq(Nat)
      /\ Last \in 1 .. size
  <2>1. Inv
    BY DEF IInv
  <2>2. Len(ring) \in Nat /\ Len(ring) >= 2 /\ curr \in 1 .. size /\ ring[curr] \in Buffers
    BY <2>1, RingProperty DEF Inv
  <2>3. Last \in 1 .. size /\ \A i \in 1 .. size : Data[i] \in Seq(Nat)
    BY <2>1, DataFacts
  <2>4. QED
    BY <2>2, <2>3
<1>4. /\ Written \in Seq(Nat) /\ Len(Written) \in Nat /\ FilesFit
      /\ log \in Seq(Nat) /\ Len(log) \in Nat /\ PartOf(Written, log, 0)
      /\ InRow(Data, size, Last, Len(Written), log)
  BY WrittenType, LenProperties DEF IInv, InOrder
<1>5. Written' = Written /\ FilesFit' /\ Stray \in Nat
  BY <1>2, <1>4 DEF fileVars, Written, FilesFit, IsOpen, Stray
<1>6. Len(Written) <= Len(log)
  BY <1>3, <1>4, FirstInRow
<1>7. CASE ~(lastDrop = "never" /\ Fits(ring[curr], refused))
  <2>1. UNCHANGED <<ring, log>>
    BY <1>7 DEF Settle
  <2>2. UNCHANGED <<ring, curr, files, logCnt, archive, log>>
    BY <1>2, <2>1 DEF fileVars
  <2>3. QED
    BY <1>1, <1>2, <1>5, <2>2, NothingMoves
<1>8. CASE lastDrop = "never" /\ Fits(ring[curr], refused)
  <2>1. PICK buf \in Intruded(ring[curr]) : ring' = [ring EXCEPT ![curr] = buf]
    BY <1>8 DEF Settle
  <2>2. buf \in Buffers /\ buf.full = ring[curr].full /\ buf.data = Append(ring[curr].data, Stray)
    BY <1>3, <1>8, IntrudedType DEF IInv, Inv
  <2>3. log' = IF persist = "clearing" /\ curr = 1 THEN log ELSE Inserted(log, EndOfCurrent, Stray)
    BY <1>8 DEF Settle
  <2>4. CASE ~ring[curr].full
    <3>1. ~(persist = "clearing" /\ curr = 1)
      BY <2>4 DEF IInv, Inv, TypeOK
    <3>2. log' = Inserted(log, Len(log), Stray)
      BY <2>3, <2>4, <3>1 DEF EndOfCurrent
    <3>3. Len(log) \in 0 .. Len(log)
      BY <1>4
    <3>4. log' = Append(log, Stray)
      BY <1>4, <1>5, <3>2, <3>3, InsertedFacts
    <3>5. IInv'
      BY <1>1, <1>2, <1>5, <2>1, <2>2, <2>4, <3>4, PutHereInOrder
    <3>6. SettlesIn(Len(log))
      BY <1>4, <1>6, <3>2 DEF SettlesIn
    <3>7. QED
      BY <3>5, <3>6
  <2>5. CASE ring[curr].full
    <3>1. /\ curr = 1 /\ persist # "leaving" /\ Here = 1
          /\ \A i \in 1 .. size : ring[i].full
      <4>1. ~(\A i \in 1 .. size : View[i].full <=> i < Here)
        <5>1. Inv
          BY DEF IInv
        <5>2. ring[curr] = View[Here] /\ Here \in 1 .. size /\ Here \in Nat
          <6>1. Here \in 1 .. size /\ View[Here] = ring[At(Here)] /\ At(Here) = curr
            BY <5>1, ViewFacts
          <6>2. QED
            BY <1>3, <6>1
        <5>3. ~(Here < Here)
          BY <5>2
        <5>4. QED
          BY <2>5, <5>2, <5>3
      <4>2. QED
        BY <4>1 DEF IInv, InOrder, Shape, Here
    <3>2. /\ Len(ring') = size
          /\ \A i \in 1 .. size : ring'[i] = IF i = 1 THEN buf ELSE ring[i]
      BY <1>3, <2>1, <2>2, <3>1, ExceptSeq DEF IInv, Inv, TypeOK
    <3>3. Shape'
      BY <1>2, <2>2, <2>5, <3>1, <3>2 DEF Shape
    <3>4. Last = size /\ Last' = size
      BY <1>2, <1>3, <2>2, <2>5, <3>1, <3>2 DEF Last
    <3>5. \A i \in 1 .. size : View[i] = ring[i] /\ View'[i] = ring'[i]
      BY <1>2, <3>1, <3>2 DEF View, At
    <3>6. \A i \in 2 .. size : Data'[i] = Data[i]
      <4>1. ASSUME NEW i \in 2 .. size PROVE Data'[i] = Data[i]
        <5>1. i \in 1 .. size /\ i # 1
          BY <4>1
        <5>2. View'[i].data = View[i].data
          BY <3>2, <3>5, <5>1
        <5>3. QED
          BY <1>2, <3>2, <5>1, <5>2 DEF Data
      <4>2. QED
        BY <4>1
    <3>7. CASE persist = "clearing"
      <4>1. log' = log
        BY <2>3, <3>1, <3>7
      <4>2. Data[1] = <<>> /\ Data'[1] = <<>>
        BY <1>2, <1>3, <3>2, <3>7 DEF Data
      <4>3. \A i \in 1 .. size : Data'[i] = Data[i]
        BY <1>3, <3>6, <4>2
      <4>4. Last' \in Last .. Len(ring') /\ Last' <= size /\ Last' \in 1 .. size
        BY <1>3, <3>2, <3>4
      <4>5. /\ \A i \in 1 .. Len(ring') :
                 i # Last' => Data'[i] = IF i <= size THEN Data[i] ELSE <<>>
            /\ Data'[Last'] = IF Last' <= size THEN Data[Last'] ELSE <<>>
        BY <1>3, <3>2, <4>3, <4>4
      <4>6. IInv'
        BY <1>1, <1>2, <1>5, <3>2, <3>3, <4>1, <4>4, <4>5, LinesGoOn
      <4>7. QED
        BY <4>1, <4>6
    <3>8. CASE persist # "clearing"
      <4>1. Data[1] = ring[1].data /\ Data'[1] = Append(Data[1], Stray)
        <5>1. Data[1] = View[1].data /\ Data'[1] = View'[1].data
          BY <1>2, <1>3, <3>2, <3>8 DEF Data
        <5>2. ring'[1] = buf
          BY <1>3, <3>2
        <5>3. QED
          BY <1>3, <2>2, <3>1, <3>5, <5>1, <5>2
      <4> DEFINE n == Len(Written) + Len(Data[1])
      <4>2. log' = Inserted(log, n, Stray)
        BY <2>3, <2>5, <3>1, <3>8, <4>1 DEF EndOfCurrent
      <4>3. InRow(Data', size, Last, Len(Written), log') /\ n \in Len(Written) .. Len(log)
        <5> DEFINE data == Data
                   more == Data'
                   written == Len(Written)
                   all == log
                   now == log'
                   last == Last
        <5>1. /\ size \in Nat /\ \A i \in 1 .. size : data[i] \in Seq(Nat)
              /\ last \in 1 .. size /\ written \in Nat /\ all \in Seq(Nat)
              /\ InRow(data, size, last, written, all)
              /\ Stray \in Nat /\ n \in Nat /\ Len(data[1]) = n - written /\ size >= 1
              /\ now = Inserted(all, n, Stray)
              /\ more[1] = Append(data[1], Stray) /\ \A i \in 2 .. size : more[i] = data[i]
          <6>1. Len(data[1]) \in Nat
            BY <1>3, LenProperties
          <6>2. QED
            BY <1>3, <1>4, <1>5, <3>6, <4>1, <4>2, <6>1
        <5> HIDE DEF data, more, written, all, now, last, size, n
        <5>2. InRow(more, size, last, written, Inserted(all, n, Stray))
          BY <5>1, CutIntruded
        <5>3. InRow(more, size, last, written, now)
          BY <5>1, <5>2
        <5>4. written + Len(data[1]) <= Len(all)
          BY <5>1, FirstInRow
        <5>5. n \in written .. Len(all)
          <6> DEFINE length == Len(data[1])
                     total == Len(all)
          <6>1. length \in Nat /\ total \in Nat
            BY <1>3, <1>4 DEF data, all, size
          <6>2. length = n - written /\ written + length <= total /\ n \in Nat /\ written \in Nat
            BY <5>1, <5>4
          <6> HIDE DEF length, total
          <6>3. n \in written .. total
            BY <6>1, <6>2
          <6>4. QED
            BY <6>3 DEF total
        <5>6. QED
          BY <5>3, <5>5 DEF data, more, written, all, now, last
      <4>4. log' \in Seq(Nat) /\ PartOf(Written, log', 0)
        <5> HIDE DEF n
        <5>1. QED
          BY <1>4, <1>5, <4>2, <4>3, BeginningStays
      <4>5. SettlesIn(n)
        BY <4>2, <4>3 DEF SettlesIn
      <4>6. InRow(Data, Len(ring), Last, Len(Written), log)'
        BY <1>5, <3>2, <3>4, <4>3
      <4>7. IInv'
        BY <1>1, <1>5, <3>3, <4>4, <4>6 DEF IInv, InOrder
      <4>8. QED
        BY <4>5, <4>7
    <3>9. QED
      BY <3>7, <3>8
  <2>6. QED
    BY <2>4, <2>5
<1>9. QED
  BY <1>7, <1>8

(* The first k of the lines that come next are written, the others lost.    *)
WritesFirst(k) ==
  /\ k \in 0 .. Len(ring[1].data)
  /\ Stored(SubSeq(ring[1].data, 1, k))
  /\ log' = Without(log, Len(Written) + k, Len(ring[1].data) - k)
  /\ IF k = Len(ring[1].data) THEN faults' = faults /\ log' = log ELSE faults' = faults + 1

(* What is written next, and where it is in the log. *)
LEMMA WriteFacts ==
  ASSUME IInv, WriteOut
  PROVE  /\ Len(ring) \in Nat /\ 1 \in 1 .. Len(ring) /\ ring[1].data \in Seq(Nat)
         /\ Len(ring[1].data) \in Nat /\ Data[1] = ring[1].data
         /\ \A i \in 1 .. Len(ring) : Data[i] \in Seq(Nat)
         /\ Last \in 1 .. Len(ring) /\ log \in Seq(Nat) /\ Len(log) \in Nat
         /\ Written \in Seq(Nat) /\ Len(Written) \in Nat /\ FilesFit
         /\ PartOf(Written, log, 0) /\ PartOf(ring[1].data, log, Len(Written))
         /\ Len(Written) + Len(ring[1].data) <= Len(log)
         /\ InRow(Data, Len(ring), Last, Len(Written), log)
         /\ \E k : WritesFirst(k)
<1> DEFINE lines == ring[1].data
<1>1. /\ Len(ring) \in Nat /\ Len(ring) >= 1 /\ 1 \in 1 .. Len(ring) /\ lines \in Seq(Nat)
      /\ \A i \in 1 .. Len(ring) : Data[i] \in Seq(Nat) /\ View[i] = ring[At(i)]
      /\ Last \in 1 .. Len(ring) /\ persist = "writing"
  BY ViewFacts, DataFacts DEF IInv, WriteOut
<1>2. /\ log \in Seq(Nat) /\ Len(log) \in Nat /\ Len(lines) \in Nat
      /\ Written \in Seq(Nat) /\ Len(Written) \in Nat /\ FilesFit
      /\ PartOf(Written, log, 0) /\ InRow(Data, Len(ring), Last, Len(Written), log)
  BY <1>1, WrittenType, LenProperties DEF IInv, InOrder
<1>3. Data[1] = lines
  BY <1>1 DEF Data, At
<1>4. PartOf(lines, log, Len(Written)) /\ Len(Written) + Len(lines) <= Len(log)
  BY <1>1, <1>2, <1>3, FirstInRow
<1>5. CASE Stored(lines) /\ UNCHANGED <<faults, log>>
  <2> DEFINE size == Len(lines)
             n == Len(Written) + size
  <2>1. size \in 0 .. Len(lines) /\ n \in Nat /\ 0 \in Nat /\ n + 0 <= Len(log) /\ size - size = 0
    BY <1>2, <1>4
  <2>2. SubSeq(lines, 1, size) = lines
    BY <1>1, <2>1, FirstFacts
  <2>3. Without(log, n, 0) = log
    <3> HIDE DEF n
    <3>1. QED
      BY <1>2, <2>1, WithoutFacts
  <2>4. WritesFirst(size)
    BY <1>5, <2>1, <2>2, <2>3 DEF WritesFirst
  <2>5. QED
    BY <1>1, <1>2, <1>3, <1>4, <2>4
<1>6. CASE ~(Stored(lines) /\ UNCHANGED <<faults, log>>)
  <2>1. PICK k \in 0 .. Len(lines) - 1 :
          /\ faults' = faults + 1 /\ Stored(SubSeq(lines, 1, k))
          /\ log' = Without(log, Len(Written) + k, Len(lines) - k)
    BY <1>6 DEF WriteOut
  <2>2. k \in 0 .. Len(lines) /\ k # Len(lines)
    BY <1>2
  <2>3. WritesFirst(k)
    BY <2>1, <2>2 DEF WritesFirst
  <2>4. QED
    BY <1>1, <1>2, <1>3, <1>4, <2>3
<1>7. QED
  BY <1>5, <1>6

(* What is written stays the beginning of the log, and is as much more.     *)
LEMMA WriteOutInOrder ==
  ASSUME IInv, Inv', WriteOut, NEW k, WritesFirst(k)
  PROVE  IInv' /\ Written' = SubSeq(log, 1, Len(Written) + k)
<1> DEFINE lines == ring[1].data
           first == SubSeq(lines, 1, k)
           size == Len(Written)
           lost == Len(lines) - k
<1>1. /\ Len(ring) \in Nat /\ 1 \in 1 .. Len(ring) /\ lines \in Seq(Nat)
      /\ Len(lines) \in Nat /\ Data[1] = lines
      /\ \A i \in 1 .. Len(ring) : Data[i] \in Seq(Nat)
      /\ Last \in 1 .. Len(ring) /\ log \in Seq(Nat) /\ Len(log) \in Nat
      /\ Written \in Seq(Nat) /\ size \in Nat /\ FilesFit
      /\ PartOf(Written, log, 0) /\ PartOf(lines, log, size)
      /\ size + Len(lines) <= Len(log)
      /\ InRow(Data, Len(ring), Last, size, log)
  BY WriteFacts
<1>2. /\ ring' = ring /\ curr' = curr
      /\ persist = "writing" /\ persist' = "clearing"
  BY DEF WriteOut, ringVars
<1>3. k \in 0 .. Len(lines) /\ Stored(first) /\ log' = Without(log, size + k, lost)
  BY DEF WritesFirst
<1>4. first \in Seq(Nat)
  BY <1>1, <1>3, FirstFacts
<1>5. FilesFit' /\ Written' = Written \o first
  BY <1>1, <1>3, <1>4, StoredAppends
<1>6. /\ Written' \in Seq(Nat) /\ Len(Written') = size + k
      /\ Written' = SubSeq(log, 1, size + k)
      /\ log' \in Seq(Nat) /\ PartOf(Written', log', 0)
  <2> DEFINE written == Written
             all == log
             more == Written'
             now == log'
             next == lines
             n == size + k
  <2>1. /\ all \in Seq(Nat) /\ written \in Seq(Nat) /\ next \in Seq(Nat)
        /\ PartOf(written, all, 0) /\ PartOf(next, all, Len(written))
        /\ more = written \o SubSeq(next, 1, k) /\ now = Without(all, n, lost)
    BY <1>1, <1>3, <1>5
  <2>2. /\ n \in Nat /\ lost \in Nat /\ k \in Nat
        /\ Len(next) = k + lost /\ Len(written) = n - k /\ n + lost <= Len(all)
    <3> DEFINE length == Len(lines)
               total == Len(log)
    <3>1. size \in Nat /\ length \in Nat /\ total \in Nat /\ size + length <= total
      BY <1>1
    <3>2. k \in 0 .. length /\ n = size + k /\ lost = length - k
      BY <1>3
    <3> HIDE DEF size, length, total, n, lost
    <3>3. /\ n \in Nat /\ lost \in Nat /\ k \in Nat
          /\ length = k + lost /\ size = n - k /\ n + lost <= total
      BY <3>1, <3>2
    <3>4. QED
      BY <3>3 DEF size, length, total
  <2> HIDE DEF written, all, more, now, next, n, lost
  <2>3. GrowsTo(all, written, next, k, lost, n)
    BY <2>1, <2>2, WrittenGrows
  <2>4. /\ more = SubSeq(all, 1, n) /\ Len(more) = n
        /\ now \in Seq(Nat) /\ PartOf(more, now, 0)
    BY <2>1, <2>3 DEF GrowsTo
  <2>5. more \in Seq(Nat)
    BY <1>1, <1>4, <1>5, ConcatProperties DEF more
  <2>6. QED
    BY <2>4, <2>5 DEF written, all, more, now, n
<1>7. Here' = Here /\ View' = View
  BY <1>2 DEF Here, View, At
<1>8. Last' = Last
  BY <1>2, <1>7 DEF Last
<1>9. Data'[1] = <<>> /\ \A i \in 2 .. Len(ring) : Data'[i] = Data[i]
  <2>1. Data'[1] = <<>>
    BY <1>1, <1>2 DEF Data
  <2>2. ASSUME NEW i \in 2 .. Len(ring) PROVE Data'[i] = Data[i]
    <3>1. i \in 1 .. Len(ring) /\ i # 1
      BY <2>2
    <3>2. QED
      BY <1>2, <1>7, <3>1 DEF Data
  <2>3. QED
    BY <2>1, <2>2
<1>10. InRow(Data', Len(ring), Last, size + k, log')
  <2> DEFINE data == Data
             rest == Data'
             n == Len(ring)
             last == Last
             all == log
             now == log'
  <2>1. /\ n \in Nat /\ \A i \in 1 .. n : data[i] \in Seq(Nat)
        /\ last \in 1 .. n /\ size \in Nat /\ all \in Seq(Nat)
        /\ InRow(data, n, last, size, all)
        /\ k \in 0 .. Len(data[1]) /\ now = Without(all, size + k, Len(data[1]) - k)
        /\ rest[1] = <<>> /\ \A i \in 2 .. n : rest[i] = data[i]
    BY <1>1, <1>3, <1>9
  <2> HIDE DEF data, rest, n, last, size, all, now
  <2>2. InRow(rest, n, last, size + k, now)
    BY <2>1, CutIsWritten
  <2>3. QED
    BY <2>2 DEF rest, n, last, now
<1>11. InRow(Data, Len(ring), Last, Len(Written), log)'
  BY <1>2, <1>6, <1>8, <1>10
<1>12. Shape'
  BY <1>2, <1>7 DEF IInv, InOrder, Shape
<1>13. QED
  BY <1>5, <1>6, <1>11, <1>12 DEF IInv, InOrder

(* The buffer that is cleared becomes the last one.                        *)
LEMMA ClearInOrder == IInv /\ ClearBuffer => IInv'
<1> SUFFICES ASSUME IInv, ClearBuffer PROVE IInv'
  OBVIOUS
<1> DEFINE n == Len(ring)
<1>1. Inv'
  BY ClearStep DEF IInv
<1>2. /\ n \in Nat /\ n >= 2 /\ 1 \in 1 .. n /\ curr \in 1 .. n
      /\ \A i \in 1 .. n : /\ Data[i] \in Seq(Nat) /\ View[i] = ring[At(i)]
                           /\ ring[i] \in Buffers
      /\ Last \in 1 .. n /\ log \in Seq(Nat)
  <2>1. Inv /\ log \in Seq(Nat)
    BY DEF IInv, InOrder
  <2>2. n \in Nat /\ n >= 2 /\ curr \in 1 .. n
    BY <2>1, RingProperty DEF Inv
  <2>3. \A i \in 1 .. n : View[i] = ring[At(i)] /\ ring[i] \in Buffers
    BY <2>1, ViewFacts
  <2>4. Last \in 1 .. n /\ \A i \in 1 .. n : Data[i] \in Seq(Nat)
    BY <2>1, DataFacts
  <2>5. QED
    BY <2>1, <2>2, <2>3, <2>4
<1>3. /\ curr' = curr /\ log' = log /\ UNCHANGED fileVars
      /\ persist = "clearing" /\ persist' = "leaving" /\ ring[1].full
  BY DEF ClearBuffer, logVars, IInv, Inv, TypeOK
<1>4. Written' = Written /\ FilesFit' /\ Len(Written) \in Nat
  BY <1>3, WrittenType, LenProperties DEF fileVars, Written, IInv, InOrder, FilesFit, IsOpen
<1>5. /\ Len(ring') = n
      /\ \A i \in 1 .. n : ring'[i] = IF i = 1 THEN EmptyBuffer ELSE ring[i]
  BY <1>2, EmptyType, ExceptSeq DEF ClearBuffer, IInv, Inv, TypeOK
<1>6. \A i \in 1 .. n : View[i] = ring[i]
  BY <1>2, <1>3 DEF At
<1>7. \A i \in 1 .. n : View'[i] = IF i = n THEN EmptyBuffer ELSE ring[i + 1]
  <2>1. ASSUME NEW i \in 1 .. n
        PROVE  View'[i] = IF i = n THEN ring'[1] ELSE ring'[i + 1]
    BY <1>3, <1>5 DEF View, At
  <2>2. ASSUME NEW i \in 1 .. n, i # n PROVE i + 1 \in 1 .. n /\ i + 1 # 1
    BY <1>2, <2>2
  <2>3. QED
    BY <1>2, <1>5, <2>1, <2>2
<1>8. Here = curr /\ Here' = IF curr = 1 THEN n ELSE curr - 1
  BY <1>3, <1>5 DEF Here
<1>9. /\ ~EmptyBuffer.full /\ EmptyBuffer.data = <<>>
  BY DEF EmptyBuffer
<1>10. \/ /\ curr # 1 /\ ~ring[curr].full /\ Last = curr
          /\ \A i \in 1 .. n : ring[i].full <=> i < curr
       \/ curr = 1 /\ \A i \in 1 .. n : ring[i].full
  <2>1. CASE \A i \in 1 .. n : ring[i].full <=> i < curr
    BY <1>2, <1>3, <1>8, <2>1 DEF Last
  <2>2. CASE curr = 1 /\ \A i \in 1 .. n : ring[i].full
    BY <2>2
  <2>3. QED
    BY <1>6, <1>8, <2>1, <2>2 DEF IInv, InOrder, Shape
<1>11. Here' \in 1 .. n /\ \A i \in 1 .. n : View'[i].full <=> i < Here'
  <2>1. Here' \in 1 .. n
    BY <1>2, <1>8
  <2>2. ASSUME NEW i \in 1 .. n PROVE View'[i].full <=> i < Here'
    <3>1. CASE i = n
      BY <1>2, <1>7, <1>9, <2>1, <3>1
    <3>2. CASE i # n
      <4>1. View'[i] = ring[i + 1] /\ i + 1 \in 1 .. n
        BY <1>2, <1>7, <3>2
      <4>2. CASE curr = 1
        BY <1>2, <1>3, <1>8, <1>10, <3>2, <4>1, <4>2
      <4>3. CASE curr # 1
        <5>1. ring[i + 1].full <=> i + 1 < curr
          BY <1>10, <4>1, <4>3
        <5>2. i + 1 < curr <=> i < curr - 1
          BY <1>2
        <5>3. QED
          BY <1>8, <4>1, <4>3, <5>1, <5>2
      <4>4. QED
        BY <4>2, <4>3
    <3>3. QED
      BY <3>1, <3>2
  <2>3. QED
    BY <2>1, <2>2
<1>12. Shape'
  BY <1>5, <1>11 DEF Shape
<1>13. Last' = Here' /\ Here' >= Last - 1
  <2>1. CASE curr = 1
    BY <1>2, <1>3, <1>5, <1>8, <1>9, <2>1 DEF Last
  <2>2. CASE curr # 1
    BY <1>2, <1>3, <1>5, <1>8, <1>10, <2>2 DEF Last
  <2>3. QED
    BY <2>1, <2>2
<1>14. Data[1] = <<>> /\ Data'[n] = <<>> /\ \A i \in 1 .. n - 1 : Data'[i] = Data[i + 1]
  <2>1. Data[1] = <<>>
    BY <1>2, <1>3 DEF Data
  <2>2. \A i \in 1 .. n : Data'[i] = View'[i].data
    BY <1>3, <1>5 DEF Data
  <2>3. Data'[n] = <<>>
    <3>1. n \in 1 .. n
      BY <1>2
    <3>2. View'[n] = EmptyBuffer
      BY <1>7, <3>1
    <3>3. QED
      BY <1>9, <2>2, <3>1, <3>2
  <2>4. ASSUME NEW i \in 1 .. n - 1 PROVE Data'[i] = Data[i + 1]
    <3>1. i \in 1 .. n /\ i # n /\ i + 1 \in 1 .. n /\ i + 1 # 1
      BY <1>2
    <3>2. Data[i + 1] = View[i + 1].data
      BY <3>1 DEF Data
    <3>3. QED
      BY <1>6, <1>7, <2>2, <3>1, <3>2
  <2>5. QED
    BY <2>1, <2>3, <2>4
<1>15. InRow(Data', n, Here', Len(Written), log)
  <2> DEFINE data == Data
             turned == Data'
             here == Here'
  <2>1. /\ \A i \in 1 .. n : data[i] \in Seq(Nat)
        /\ InRow(data, n, Last, Len(Written), log) /\ data[1] = <<>>
        /\ turned[n] = <<>> /\ \A i \in 1 .. n - 1 : turned[i] = data[i + 1]
        /\ here \in 1 .. n /\ here >= Last - 1
    BY <1>2, <1>11, <1>13, <1>14 DEF IInv, InOrder
  <2> HIDE DEF data, turned, here
  <2>2. InRow(turned, n, here, Len(Written), log)
    BY <1>2, <1>4, <2>1, CutTurns
  <2>3. QED
    BY <2>2 DEF turned, here
<1>16. InRow(Data, Len(ring), Last, Len(Written), log)'
  BY <1>3, <1>4, <1>5, <1>13, <1>15
<1>17. (log \in Seq(Nat))' /\ PartOf(Written, log, 0)'
  BY <1>3, <1>4 DEF IInv, InOrder
<1>18. QED
  BY <1>1, <1>4, <1>12, <1>16, <1>17 DEF IInv, InOrder

(* The ring is seen from the next buffer on, as the order was already.      *)
LEMMA LeaveInOrder == IInv /\ LeaveBuffer => IInv'
<1> SUFFICES ASSUME IInv, LeaveBuffer PROVE IInv'
  OBVIOUS
<1> DEFINE n == Len(ring)
<1>1. Inv'
  BY LeaveStep DEF IInv
<1>2. /\ n \in Nat /\ n >= 2 /\ curr \in 1 .. n /\ Here \in 1 .. n /\ At(Here) = curr
      /\ \A i \in 1 .. n : View[i] = ring[At(i)]
      /\ DOMAIN ring = 1 .. n
  BY ViewFacts, LenProperties DEF IInv, Inv, TypeOK
<1>3. /\ log' = log /\ UNCHANGED fileVars
      /\ persist = "leaving" /\ persist' = "waiting"
  BY DEF LeaveBuffer, logVars
<1>4. Written' = Written /\ FilesFit'
  BY <1>3 DEF fileVars, Written, IInv, InOrder, FilesFit, IsOpen
<1>5. \A i \in 1 .. n : After(i) = At(i)
  BY <1>3, AfterValue DEF At, IInv, Inv
<1>6. curr' = Here /\ ring' = View
  <2>1. ring' = [i \in 1 .. n |-> ring[After(i)]]
    BY <1>2 DEF LeaveBuffer
  <2>2. QED
    BY <1>3, <1>5, <2>1 DEF View, LeaveBuffer, Here
<1>7. Len(ring') = n
  <2>1. ring' \in Seq(Buffers) /\ DOMAIN ring' = 1 .. n
    BY <1>1, <1>6 DEF Inv, TypeOK, View
  <2>2. Len(ring') \in Nat /\ DOMAIN ring' = 1 .. Len(ring')
    BY <2>1, LenProperties
  <2>3. QED
    BY <1>2, <2>1, <2>2
<1>8. Here' = Here /\ \A i \in 1 .. n : View'[i] = View[i]
  BY <1>3, <1>6, <1>7 DEF Here, View, At
<1>9. View' = View
  <2>1. View' = [i \in 1 .. n |-> View'[i]] /\ View = [i \in 1 .. n |-> View[i]]
    BY <1>7 DEF View
  <2>2. QED
    BY <1>8, <2>1
<1>10. Data' = Data
  BY <1>3, <1>7, <1>9 DEF Data
<1>11. Last' = Last
  BY <1>2, <1>6, <1>7, <1>8 DEF Last
<1>12. Shape'
  <2>1. \A i \in 1 .. n : View[i].full <=> i < Here
    BY <1>3 DEF IInv, InOrder, Shape
  <2>2. QED
    BY <1>7, <1>8, <2>1 DEF Shape
<1>13. InRow(Data, Len(ring), Last, Len(Written), log)'
  BY <1>3, <1>4, <1>7, <1>10, <1>11 DEF IInv, InOrder
<1>14. (log \in Seq(Nat))' /\ PartOf(Written, log, 0)'
  BY <1>3, <1>4 DEF IInv, InOrder
<1>15. QED
  BY <1>1, <1>4, <1>12, <1>13, <1>14 DEF IInv, InOrder

-----------------------------------------------------------------------------
(* The refinement                                                          *)

(* At the start there are no lines. *)
LEMMA InitInOrder == Init => IInv
<1> SUFFICES ASSUME Init PROVE IInv
  OBVIOUS
<1>1. Inv /\ FirstBuffers \in Nat /\ FirstBuffers >= 2
  BY InitInv, LogAssumption
<1>2. /\ Len(ring) \in Nat /\ Len(ring) >= 2
      /\ \A i \in 1 .. Len(ring) : View[i] = ring[At(i)] /\ At(i) \in 1 .. Len(ring)
  BY <1>1, ViewFacts
<1>3. DOMAIN ring = 1 .. Len(ring)
  BY <1>1, LenProperties DEF Inv, TypeOK
<1>4. \A i \in 1 .. Len(ring) : ring[i] = EmptyBuffer
  BY <1>3 DEF Init
<1>5. \A i \in 1 .. Len(ring) : ~View[i].full /\ View[i].data = <<>> /\ Data[i] = <<>>
  BY <1>2, <1>4 DEF EmptyBuffer, Data
<1>6. Here = 1 /\ Last = 1
  <2>1. ~ring[1].full
    BY <1>2, <1>4 DEF EmptyBuffer
  <2>2. QED
    BY <2>1 DEF Init, Here, Last
<1>7. Shape
  BY <1>2, <1>5, <1>6 DEF Shape
<1>8. FilesFit
  <2>1. <<>> \in Seq(Nat)
    BY EmptySeq
  <2>2. QED
    BY <2>1, NoFile DEF Init, FilesFit, IsOpen
<1>9. Written = <<>> /\ Len(<<>>) = 0
  <2>1. <<>> \in Seq(Nat) /\ Len(<<>>) = 0 /\ <<>> \o <<>> = <<>>
    BY EmptySeq, ConcatEmptySeq
  <2>2. LinesOf(<< >>, 0) = <<>>
    BY NoFile
  <2>3. QED
    BY <2>1, <2>2 DEF Init, Written
<1>10. log = <<>> /\ log \in Seq(Nat) /\ Len(log) = 0
  BY EmptySeq DEF Init
<1>11. InRow(Data, Len(ring), Last, Len(Written), log)
  <2> DEFINE data == Data
             cut == [i \in 0 .. Len(ring) |-> 0]
  <2>1. \A i \in 1 .. Len(ring) : data[i] = <<>>
    BY <1>5
  <2> HIDE DEF data
  <2>2. IsCut(cut, data, Len(ring), 1, 0, log)
    BY <1>2, <1>9, <1>10, <2>1, NothingIsPart DEF IsCut
  <2>3. InRow(data, Len(ring), 1, 0, log)
    BY <2>2 DEF InRow
  <2>4. QED
    BY <1>6, <1>9, <2>3 DEF data
<1>12. PartOf(Written, log, 0)
  BY <1>9, NothingIsPart
<1>13. QED
  BY <1>1, <1>7, <1>8, <1>10, <1>11, <1>12 DEF IInv, InOrder

(* The branches of append() put together. *)
LEMMA AppendLineInOrder ==
  ASSUME IInv, ~Preempted, NEW t \in Threads, NEW len \in Lengths, AppendLine(t, len)
  PROVE  IInv'
<1>1. UNCHANGED <<persist, fileVars, faults>>
  BY DEF AppendLine
<1>2. CASE AppendHere(t, len)
  BY <1>1, <1>2, AppendHereInOrder
<1>3. CASE MoveOn(t, len)
  BY <1>1, <1>3, MoveOnInOrder
<1>4. CASE Grow(t, len)
  BY <1>1, <1>4, GrowInOrder
<1>5. CASE NoMoreSpace(t, len)
  BY <1>1, <1>5, NoMoreSpaceInOrder
<1>6. CASE CurrentIsFull(t, len)
  <2>1. Inv'
    BY <1>1, <1>6, CurrentIsFullStep DEF IInv
  <2>2. FilesFit'
    BY <1>1 DEF fileVars, IInv, InOrder, FilesFit, IsOpen
  <2>3. QED
    BY <1>1, <1>6, <2>1, <2>2, NothingMoves DEF CurrentIsFull, ringVars, fileVars
<1>7. QED
  BY <1>2, <1>3, <1>4, <1>5, <1>6 DEF AppendLine

(* The steps of all put together. *)
LEMMA StepInOrder ==
  ASSUME IInv, ~Preempted, [Next]_vars
  PROVE  IInv'
<1>1. Inv'
  BY StepInv DEF IInv
<1>2. ASSUME UNCHANGED <<ringVars, persist, fileVars, log>> PROVE IInv'
  <2>1. FilesFit'
    BY <1>2 DEF fileVars, IInv, InOrder, FilesFit, IsOpen
  <2>2. QED
    BY <1>1, <1>2, <2>1, NothingMoves DEF ringVars, fileVars
<1>3. ASSUME NEW t \in Threads, Enter(t) \/ ForgetDrop(t) PROVE IInv'
  BY <1>2, <1>3 DEF Enter, ForgetDrop, logVars
<1>4. ASSUME NEW t \in Threads, NEW len \in Lengths, AppendLine(t, len) PROVE IInv'
  BY <1>4, AppendLineInOrder
<1>5. ASSUME NEW t \in Threads, Settle(t) PROVE IInv'
  BY <1>5, SettleInOrder
<1>6. CASE Pick
  BY <1>6, PickInOrder
<1>7. CASE OpenFails
  BY <1>1, <1>7, OpenFailsInOrder
<1>8. CASE WriteOut
  BY <1>1, <1>8, WriteFacts, WriteOutInOrder
<1>9. CASE ClearBuffer
  BY <1>9, ClearInOrder
<1>10. CASE LeaveBuffer
  BY <1>10, LeaveInOrder
<1>11. CASE DropAges \/ UNCHANGED vars
  BY <1>2, <1>11 DEF DropAges, vars, logVars
<1>12. CASE Midnight
  <2>1. FilesFit'
    BY <1>12 DEF Midnight, IInv, InOrder, FilesFit, IsOpen
  <2>2. QED
    BY <1>1, <1>12, <2>1, NothingMoves DEF Midnight, ringVars, logVars
<1>13. QED
  BY <1>3, <1>4, <1>5, <1>6, <1>7, <1>8, <1>9, <1>10, <1>11, <1>12 DEF Next, Logger, Release

(* One thread at a time has _mutex and a line that was refused.             *)
OneRefused ==
  /\ \A t \in Threads : pc[t] = "refused" => refused # 0
  /\ \A t \in Threads, u \in Threads : pc[t] = "refused" /\ pc[u] = "refused" => t = u

LEMMA RefusedStep ==
  ASSUME Inv, OneRefused, [Next]_vars
  PROVE  OneRefused'
<1>1. pc \in [Threads -> {"idle", "entered", "locking", "refused"}] /\ \A len \in Lengths : len # 0
  BY LogAssumption DEF Inv, TypeOK
<1>2. ASSUME refused' = refused, NEW t \in Threads, NEW place,
             pc' = [pc EXCEPT ![t] = place], place # "refused"
      PROVE  OneRefused'
  BY <1>1, <1>2 DEF OneRefused
<1>3. ASSUME NEW t \in Threads, Enter(t) \/ ForgetDrop(t) PROVE OneRefused'
  BY <1>2, <1>3 DEF Enter, ForgetDrop
<1>4. ASSUME NEW t \in Threads, NEW len \in Lengths, AppendLine(t, len) PROVE OneRefused'
  <2>1. CASE AppendHere(t, len) \/ MoveOn(t, len) \/ Grow(t, len) \/ CurrentIsFull(t, len)
    BY <1>2, <2>1 DEF AppendHere, MoveOn, Grow, CurrentIsFull
  <2>2. CASE NoMoreSpace(t, len)
    <3>1. \A u \in Threads : pc[u] # "refused"
      BY <1>4 DEF AppendLine, OneRefused
    <3>2. pc' = [pc EXCEPT ![t] = "refused"] /\ refused' = len /\ len # 0
      BY <1>1, <2>2 DEF NoMoreSpace
    <3>3. QED
      BY <1>1, <3>1, <3>2 DEF OneRefused
  <2>3. QED
    BY <1>4, <2>1, <2>2 DEF AppendLine
<1>5. ASSUME NEW t \in Threads, Settle(t) PROVE OneRefused'
  <2>1. pc[t] = "refused" /\ pc' = [pc EXCEPT ![t] = "idle"]
    BY <1>5 DEF Settle
  <2>2. \A u \in Threads : pc'[u] # "refused"
    BY <1>1, <2>1 DEF OneRefused
  <2>3. QED
    BY <2>2 DEF OneRefused
<1>6. CASE Logger \/ DropAges \/ Midnight \/ UNCHANGED vars
  <2>1. UNCHANGED <<pc, refused>>
    BY <1>6 DEF Logger, Pick, OpenFails, WriteOut, ClearBuffer, LeaveBuffer, DropAges, Midnight,
                vars, appendVars
  <2>2. QED
    BY <2>1 DEF OneRefused
<1>7. QED
  BY <1>3, <1>4, <1>5, <1>6 DEF Next, Release

(* Every step is one that a reader of the files may see.                   *)
LEMMA StepIsRead ==
  ASSUME IInv, OneRefused, ~Preempted, [Next]_vars
  PROVE  [Reader!Next]_<<log, Written, refused # 0, faults>>
<1> DEFINE view == <<log, Written, refused # 0, faults>>
<1>1. IInv'
  BY StepInOrder
<1>2. ASSUME UNCHANGED <<refused, faults, log, Written>> PROVE UNCHANGED view
  BY <1>2
<1>3. ASSUME NEW t \in Threads, NEW len \in Lengths, AppendLine(t, len)
      PROVE  [Reader!Next]_view
  <2>1. Written' = Written /\ faults' = faults /\ refused = 0
    BY <1>3 DEF AppendLine, fileVars, Written
  <2>2. CASE NoMoreSpace(t, len)
    <3>1. log' = log /\ refused' = len /\ len # 0
      BY <2>2, LogAssumption DEF NoMoreSpace
    <3>2. Reader!Refuse
      BY <2>1, <3>1 DEF Reader!Refuse, Written
    <3>3. QED
      BY <3>2 DEF Reader!Next
  <2>3. CASE ~NoMoreSpace(t, len)
    <3>1. refused' = refused /\ (log' = log \/ log' = Append(log, taken + 1))
      BY <1>3, <2>3 DEF AppendLine, AppendHere, MoveOn, Grow, CurrentIsFull, TakenIf
    <3>2. taken + 1 \in 1 .. MaxLines
      <4>1. taken \in Nat /\ taken < MaxLines /\ MaxLines \in Nat
        BY <1>3, DataFacts, LogAssumption DEF AppendLine, IInv
      <4>2. QED
        BY <4>1
    <3>3. CASE log' = log
      BY <2>1, <3>1, <3>3
    <3>4. CASE log' = Append(log, taken + 1)
      <4>1. Reader!Take
        BY <2>1, <3>1, <3>2, <3>4 DEF Reader!Take, Written
      <4>2. QED
        BY <4>1 DEF Reader!Next
    <3>5. QED
      BY <3>1, <3>3, <3>4
  <2>4. QED
    BY <2>2, <2>3
<1>4. ASSUME NEW t \in Threads, Settle(t)
      PROVE  [Reader!Next]_view
  <2>1. Written' = Written /\ faults' = faults /\ refused # 0 /\ refused' = 0
    BY <1>4 DEF Settle, fileVars, Written, OneRefused
  <2>2. log' = log \/ \E n \in Len(Written) .. Len(log) : log' = Inserted(log, n, Stray)
    BY <1>4, SettleInOrder DEF SettlesIn
  <2>3. Reader!Settle
    BY <2>1, <2>2 DEF Reader!Settle, Inserted, Written
  <2>4. QED
    BY <2>3 DEF Reader!Next
<1>5. CASE WriteOut
  <2> DEFINE lines == ring[1].data
  <2>1. PICK k : WritesFirst(k)
    BY <1>5, WriteFacts
  <2> DEFINE n == Len(Written) + k
             m == Len(Written) + Len(lines)
  <2>2. /\ Len(Written) \in Nat /\ k \in 0 .. Len(lines) /\ Len(lines) \in Nat
        /\ Len(log) \in Nat /\ m <= Len(log) /\ log \in Seq(Nat)
        /\ Written \in Seq(Nat) /\ PartOf(Written, log, 0)
    BY <1>5, <2>1, WriteFacts DEF WritesFirst
  <2>3. Written' = SubSeq(log, 1, n) /\ refused' = refused
    BY <1>1, <1>5, <2>1, WriteOutInOrder DEF WriteOut, appendVars, IInv
  <2>4. CASE k = Len(lines)
    <3>1. log' = log /\ faults' = faults
      BY <2>1, <2>4 DEF WritesFirst
    <3>2. CASE k = 0
      <4>1. Written' = Written
        <5> DEFINE part == SubSeq(log, 1, Len(Written))
        <5>1. Len(Written) \in 0 .. Len(log) /\ n = Len(Written)
          BY <2>2, <3>2
        <5>2. /\ part \in Seq(Nat) /\ Len(part) = Len(Written)
              /\ \A j \in 1 .. Len(Written) : part[j] = log[j]
          BY <2>2, <5>1, FirstFacts
        <5>3. \A j \in 1 .. Len(Written) : Written[j] = log[j]
          <6>1. \A j \in 1 .. Len(Written) : 0 + j = j
            BY <2>2
          <6>2. QED
            BY <2>2, <6>1 DEF PartOf
        <5>4. Written' = part
          BY <2>3, <5>1
        <5> HIDE DEF part
        <5>5. part = Written
          BY <2>2, <5>2, <5>3, SeqEqual
        <5>6. QED
          BY <5>4, <5>5
      <4>2. QED
        BY <2>3, <3>1, <4>1
    <3>3. CASE k # 0
      <4>1. n \in Len(Written) + 1 .. Len(log)
        BY <2>2, <2>4, <3>3
      <4>2. Reader!Write
        BY <2>3, <3>1, <4>1 DEF Reader!Write, Written
      <4>3. QED
        BY <4>2 DEF Reader!Next
    <3>4. QED
      BY <3>2, <3>3
  <2>5. CASE k # Len(lines)
    <3>1. faults' = faults + 1 /\ log' = Without(log, n, Len(lines) - k)
      BY <2>1, <2>5 DEF WritesFirst
    <3> DEFINE before == Len(Written)
               size == Len(lines)
               all == Len(log)
    <3>2. before \in Nat /\ size \in Nat /\ k \in 0 .. size /\ all \in Nat /\ before + size <= all
      BY <2>2
    <3>3. n \in before .. all /\ m \in n .. all /\ n + (size - k) = m
      <4>1. n = before + k /\ m = before + size
        OBVIOUS
      <4> HIDE DEF before, size, all, n, m
      <4>2. QED
        BY <3>2, <4>1
    <3>4. log' = SubSeq(log, 1, n) \o SubSeq(log, m + 1, Len(log))
      BY <3>1, <3>3 DEF Without
    <3> HIDE DEF n, m
    <3>5. Reader!WriteLess
      BY <2>3, <3>1, <3>3, <3>4 DEF Reader!WriteLess, Written
    <3>6. QED
      BY <3>5 DEF Reader!Next
  <2>6. QED
    BY <2>4, <2>5
<1>6. CASE OpenFails
  <2>1. Written' = Written /\ UNCHANGED <<refused, faults, log>>
    BY <1>6, OpenFailsKeeps DEF OpenFails, IInv, InOrder, appendVars, logVars
  <2>2. QED
    BY <1>2, <2>1
<1>7. ASSUME NEW t \in Threads, Enter(t) \/ ForgetDrop(t)
      PROVE  UNCHANGED <<refused, faults, log, Written>>
  BY <1>7 DEF Enter, ForgetDrop, fileVars, logVars, Written
<1>8. CASE Pick \/ ClearBuffer \/ LeaveBuffer \/ DropAges \/ Midnight \/ UNCHANGED vars
  <2>1. UNCHANGED <<refused, faults, log, Written>>
    BY <1>8 DEF Pick, ClearBuffer, LeaveBuffer, DropAges, Midnight, vars, fileVars, logVars,
                appendVars, Written
  <2>2. QED
    BY <1>2, <2>1
<1>9. QED
  BY <1>2, <1>3, <1>4, <1>5, <1>6, <1>7, <1>8 DEF Next, Logger, Release

(***************************************************************************)
(* The reader of the files sees what LogFile promises: lines come in the    *)
(* order in which they were taken, each once, and none is left out before  *)
(* a later one but by a write that failed, across buffers that are reused, *)
(* rings that grow, files that are rolled or cannot be opened, and          *)
(* midnights, for any number of threads, buffers and lines; a line that    *)
(* append() gave up and that gets in all the same changes no order.  It is *)
(* the safety part of KeepsTheLog. A whole buffer must not fill up between *)
(* two neighbouring statements of persist().                               *)
(***************************************************************************)
THEOREM LogIsInOrder ==
  ASSUME ~Preempted
  PROVE  Spec => Reader!Safety
<1>1. Init => Reader!Init /\ OneRefused
  <2> SUFFICES ASSUME Init PROVE Written = <<>> /\ log = <<>> /\ refused = 0 /\ faults = 0
                                /\ OneRefused
    BY DEF Reader!Init, Written
  <2>1. archive = <<>> /\ LinesOf(files, logCnt) = <<>>
    BY NoFile DEF Init
  <2>2. Written = <<>>
    BY <2>1, EmptySeq, ConcatEmptySeq DEF Written
  <2>3. QED
    BY <2>2 DEF Init, OneRefused
<1>2. /\ IInv /\ OneRefused /\ [Next]_vars => IInv' /\ OneRefused'
      /\ IInv /\ OneRefused /\ [Next]_vars
           => [Reader!Next]_<<log, archive \o LinesOf(files, logCnt), refused # 0, faults>>
  BY StepInOrder, RefusedStep, StepIsRead DEF IInv, Written
<1>3. QED
  BY <1>1, <1>2, InitInOrder, PTL DEF Spec, Reader!Safety, Reader!vars, Written
=============================================================================
