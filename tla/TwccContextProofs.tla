--------------------------- MODULE TwccContextProofs ---------------------------
(***************************************************************************)
(* What waits for a feedback message is bounded, and a message says what   *)
(* arrived, for every number space, every limit and every order of         *)
(* arrivals.  The times that wait are tied together by _min_stamp: none is *)
(* older, and none is too far after it.  The statuses of a message are     *)
(* followed through its chunks and deltas and back, and the reader's sums  *)
(* to the times of arrival.                                                *)
(***************************************************************************)
EXTENDS TwccContext, FiniteSetTheorems, SequenceTheorems, WellFoundedInduction, TLAPS

WaitsSince(status, min) ==
  \A seq \in DOMAIN status : status[seq] \in Nat /\ min <= status[seq] /\ status[seq] <= now
                             /\ status[seq] - min < MaxTimeDelta
Waits(status, min) ==
  /\ DOMAIN status \subseteq 0 .. SeqMod - 1
  /\ IsFiniteSet(DOMAIN status) /\ Cardinality(DOMAIN status) < MaxSeqSize
  /\ WaitsSince(status, min)
  /\ min \in Nat /\ min <= now /\ (min = 0 <=> DOMAIN status = {})

IInv ==
  /\ now \in Nat \ {0}
  /\ pktCount \in 0 .. PktCountMod - 1
  /\ Waits(recvStatus, minStamp)

LEMMA NothingWaits ==
  ASSUME now \in Nat
  PROVE  DOMAIN NoStatus = {} /\ Waits(NoStatus, 0)
<1>1. DOMAIN NoStatus = {}
  BY DEF NoStatus
<1>2. IsFiniteSet({}) /\ Cardinality({}) = 0
  BY FS_EmptySet
<1> QED
  BY <1>1, <1>2, TwccAssumption DEF Waits, WaitsSince

(* A number noted in an empty map waits alone. *)
LEMMA OneWaits ==
  ASSUME now \in Nat \ {0}, NEW seq \in 0 .. SeqMod - 1
  PROVE  Waits(Note(NoStatus, seq), now)
<1>1. DOMAIN NoStatus = {}
  BY NothingWaits
<1>2. DOMAIN Note(NoStatus, seq) = {seq} /\ Note(NoStatus, seq)[seq] = now
  BY <1>1 DEF Note
<1>3. IsFiniteSet({seq}) /\ Cardinality({seq}) = 1
  BY FS_Singleton
<1> QED
  BY <1>2, <1>3, TwccAssumption DEF Waits, WaitsSince

(* A number noted while no message is due waits with the others. *)
LEMMA OneMoreWaits ==
  ASSUME now \in Nat \ {0}, NEW seq \in 0 .. SeqMod - 1,
         Waits(recvStatus, minStamp),
         NEW min, min = IF minStamp = 0 THEN now ELSE minStamp,
         ~NeedSendTwcc(Note(recvStatus, seq), min)
  PROVE  Waits(Note(recvStatus, seq), min)
<1> DEFINE noted == Note(recvStatus, seq)
<1>1. /\ DOMAIN noted = DOMAIN recvStatus \union {seq}
      /\ \A s \in DOMAIN noted : noted[s] = IF s \in DOMAIN recvStatus THEN recvStatus[s] ELSE now
  BY DEF Note
<1>2. IsFiniteSet(DOMAIN noted)
  <2>1. IsFiniteSet(DOMAIN recvStatus)
    BY DEF Waits
  <2>2. IsFiniteSet(DOMAIN recvStatus \union {seq})
    BY ONLY <2>1, FS_AddElement, Zenon
  <2> QED
    BY ONLY <2>2, <1>1, SMT DEF noted
<1>3. Cardinality(DOMAIN noted) \in Nat
  BY <1>2, FS_CardinalityType
<1>4. min \in Nat /\ min # 0 /\ min <= now
  BY DEF Waits
<1>5. Cardinality(DOMAIN noted) < MaxSeqSize /\ now - min < MaxTimeDelta
  BY <1>3, <1>4, TwccAssumption DEF NeedSendTwcc
<1>6. WaitsSince(noted, min)
  <2>1. now \in Nat /\ MaxTimeDelta \in Nat
    BY TwccAssumption
  <2>2. min <= now /\ now - min < MaxTimeDelta
    BY <1>4, <1>5
  <2>3. QED
    BY <1>1, <1>4, <2>1, <2>2 DEF Waits, WaitsSince
<1> HIDE DEF noted
<1>7. DOMAIN noted \subseteq 0 .. SeqMod - 1 /\ DOMAIN noted # {}
  BY <1>1 DEF Waits
<1> QED
  BY <1>2, <1>4, <1>5, <1>6, <1>7 DEF Waits, noted

(* A later clock changes nothing of it. *)
LEMMA WaitsLater ==
  ASSUME now \in Nat, now' \in Nat, now <= now', NEW min, NEW status,
         Waits(status, min), recvStatus' = status, minStamp' = min
  PROVE  Waits(recvStatus, minStamp)'
  BY DEF Waits, WaitsSince

(* Whatever arrives, the invariant is kept. *)
LEMMA ArriveInv ==
  ASSUME IInv, NEW packet \in 0 .. LastPacket, NEW pause \in Pauses, Arrive(packet, pause)
  PROVE  IInv'
<1> DEFINE seq == SeqOf(packet)
<1>1. now' \in Nat \ {0} /\ now <= now' /\ seq \in 0 .. SeqMod - 1
  <2>1. now' = now + pause /\ pause \in Nat /\ now \in Nat \ {0}
    BY TwccAssumption DEF IInv, Arrive
  <2>2. Start + packet \in Nat /\ SeqMod \in Nat \ {0}
    BY TwccAssumption
  <2> QED
    BY <2>1, <2>2 DEF SeqOf
<1>2. (pktCount + 1) % PktCountMod \in 0 .. PktCountMod - 1
  BY TwccAssumption DEF IInv
<1>3. CASE Ignore
  <2>1. recvStatus' = recvStatus /\ minStamp' = minStamp /\ pktCount' = pktCount
    BY <1>3 DEF Ignore, contextVars
  <2> QED
    BY <2>1, <1>1, WaitsLater DEF IInv
<1>4. CASE OnRtpLooped(seq)
  <2>1. recvStatus' = Note(NoStatus, seq) /\ minStamp' = now
    BY <1>4 DEF OnRtpLooped
  <2>2. Waits(Note(NoStatus, seq), now)
    BY <1>1, OneWaits DEF IInv
  <2> HIDE DEF seq
  <2> QED
    BY <2>1, <2>2, <1>1, <1>2, <1>4, WaitsLater DEF IInv, OnRtpLooped, OnSendTwcc
<1>5. CASE OnRtpNormal(seq)
  <2> DEFINE noted == Note(recvStatus, seq)
             min   == IF minStamp = 0 THEN now ELSE minStamp
  <2>1. CASE NeedSendTwcc(noted, min)
    <3>1. recvStatus' = NoStatus /\ minStamp' = 0 /\ pktCount' = (pktCount + 1) % PktCountMod
      BY <1>5, <2>1 DEF OnRtpNormal, OnSendTwcc, ClearStatus
    <3> QED
      BY <3>1, <1>1, <1>2, NothingWaits, WaitsLater DEF IInv
  <2>2. CASE ~NeedSendTwcc(noted, min)
    <3>1. recvStatus' = noted /\ minStamp' = min /\ pktCount' = pktCount
      BY <1>5, <2>2 DEF OnRtpNormal
    <3>2. Waits(noted, min)
      BY <1>1, <2>2, OneMoreWaits DEF IInv
    <3> HIDE DEF noted, min
    <3> QED
      BY <3>1, <3>2, <1>1, WaitsLater DEF IInv
  <2> QED
    BY <2>1, <2>2
<1>6. Ignore \/ OnRtpLooped(seq) \/ OnRtpNormal(seq)
  BY DEF Arrive, OnRtp
<1> QED
  BY <1>3, <1>4, <1>5, <1>6

(* The state TwccContext starts in, and every step, keep the invariant. *)
LEMMA Inductive == Spec => []IInv
<1>1. Init => IInv
  BY NothingWaits, TwccAssumption DEF Init, IInv
<1>2. IInv /\ [Next]_vars => IInv'
  <2> SUFFICES ASSUME IInv, [Next]_vars PROVE IInv'
    OBVIOUS
  <2>1. CASE Next
    BY <2>1, ArriveInv DEF Next
  <2>2. CASE UNCHANGED vars
    BY <2>2 DEF vars, contextVars, IInv, Waits, WaitsSince
  <2> QED
    BY <2>1, <2>2
<1> QED
  BY <1>1, <1>2, PTL DEF Spec

(* Every stamp lies between _min_stamp and the clock, and _min_stamp is    *)
(* set exactly while something waits.                                      *)
THEOREM TwccTypeCorrect == Spec => []TypeOK
<1>1. IInv => TypeOK
  BY DEF IInv, Waits, WaitsSince, TypeOK
<1> QED
  BY <1>1, Inductive, PTL

(* Fewer packets wait than make a message, and no two of them are as far   *)
(* apart in time as make one (needSendTwcc).                               *)
THEOREM WaitingStaysBounded == Spec => []WaitingIsBounded
<1>1. IInv => WaitingIsBounded
  <2> SUFFICES ASSUME IInv, NEW s \in DOMAIN recvStatus, NEW t \in DOMAIN recvStatus
               PROVE  recvStatus[s] - recvStatus[t] < MaxTimeDelta
    BY DEF IInv, Waits, WaitingIsBounded
  <2>1. /\ recvStatus[s] \in Nat /\ recvStatus[s] - minStamp < MaxTimeDelta
        /\ recvStatus[t] \in Nat /\ minStamp <= recvStatus[t]
        /\ minStamp \in Nat /\ MaxTimeDelta \in Nat
    BY TwccAssumption DEF IInv, Waits, WaitsSince
  <2> QED
    BY <2>1
<1> QED
  BY <1>1, Inductive, PTL

-----------------------------------------------------------------------------
(* The number of a packet, without the modulus: the stream wraps once.     *)
LEMMA ModOnce ==
  ASSUME NEW n \in Nat, NEW m \in Nat \ {0}, n < m + m
  PROVE  n % m = IF n < m THEN n ELSE n - m
  OBVIOUS

LEMMA SeqOfValue ==
  ASSUME NEW packet \in 0 .. LastPacket
  PROVE  SeqOf(packet) = IF Start + packet < SeqMod THEN Start + packet
                                                    ELSE Start + packet - SeqMod
<1>1. PICK place : place = Start + packet
  OBVIOUS
<1>2. place \in Nat /\ SeqMod \in Nat \ {0} /\ place < SeqMod + SeqMod
  BY <1>1, TwccAssumption
<1>3. SeqOf(packet) = place % SeqMod
  BY <1>1 DEF SeqOf
<1>4. place % SeqMod = IF place < SeqMod THEN place ELSE place - SeqMod
  BY <1>2, ModOnce
<1>5. QED
  BY <1>1, <1>2, <1>3, <1>4, TwccAssumption

LEMMA MaxProperty ==
  ASSUME NEW S \in SUBSET Int, NEW m \in S, \A y \in S : y <= m
  PROVE  Max(S) = m
<1>1. \A y \in S : m >= y
  OBVIOUS
<1>2. Max(S) \in S /\ \A y \in S : Max(S) >= y
  BY <1>1 DEF Max
<1>3. Max(S) \in Int /\ m \in Int /\ Max(S) >= m /\ Max(S) <= m
  BY <1>2
<1>4. QED
  BY <1>3

LEMMA MaxOfTwo ==
  ASSUME NEW a \in Int, NEW b \in Int
  PROVE  Max({a, b}) = IF a >= b THEN a ELSE b
<1>1. CASE a >= b
  BY <1>1, MaxProperty
<1>2. CASE ~(a >= b)
  BY <1>2, MaxProperty
<1>3. QED
  BY <1>1, <1>2

(* The largest number that waits belongs to a packet that is not far from  *)
(* the newest one, also where a late packet waits alone after a message.   *)
IsLast(status, last) ==
  /\ SeqOf(last) \in DOMAIN status
  /\ \A seq \in DOMAIN status : seq <= SeqOf(last)
Near(last, latest) == last <= latest /\ latest <= last + MaxLate
Follows(status, latest) ==
  DOMAIN status # {} =>
    \E last \in 0 .. LastPacket : IsLast(status, last) /\ Near(last, latest)

Place == newest \in -1 .. LastPacket /\ Follows(recvStatus, newest)

(* A step of the stream on either side of the wrap is told from a wrap.    *)
LEMMA StepIsTold ==
  ASSUME NEW packet \in 0 .. LastPacket, NEW last \in 0 .. LastPacket,
         NEW latest \in 0 .. LastPacket, Near(last, latest),
         latest <= packet + MaxLate, packet <= latest + 1 + MaxLost
  PROVE  LET delta == SeqOf(packet) - SeqOf(last)
         IN  \/ delta = packet - last /\ -Wrap <= delta /\ delta <= Wrap
             \/ delta < -Wrap /\ packet > last
             \/ delta > Wrap /\ packet < last
<1>1. /\ {SeqMod, Start, Wrap, MaxLate, MaxLost, LastPacket} \subseteq Nat
      /\ MaxLate + MaxLost + 1 <= Wrap /\ Wrap + MaxLate + MaxLost + 1 < SeqMod
  BY TwccAssumption
<1>2. /\ packet \in Nat /\ last \in Nat /\ latest \in Nat
      /\ SeqMod \in Nat /\ Wrap \in Nat /\ MaxLate \in Nat /\ MaxLost \in Nat
  BY <1>1
<1>3. /\ packet - last <= MaxLate + MaxLost + 1
      /\ last - packet <= MaxLate + MaxLost + 1
  BY <1>1, <1>2 DEF Near
<1>4. /\ SeqOf(packet) \in {Start + packet, Start + packet - SeqMod}
      /\ SeqOf(last) \in {Start + last, Start + last - SeqMod}
      /\ Start + packet < SeqMod <=> SeqOf(packet) = Start + packet
      /\ Start + last < SeqMod <=> SeqOf(last) = Start + last
  BY <1>1, <1>2, SeqOfValue
<1> DEFINE delta == SeqOf(packet) - SeqOf(last)
<1>5. CASE Start + packet < SeqMod /\ ~(Start + last < SeqMod)
  <2>1. delta = packet - last + SeqMod /\ packet < last
    BY <1>1, <1>2, <1>4, <1>5
  <2>2. packet - last + SeqMod > Wrap
    BY <1>1, <1>2, <1>3
  <2>3. QED
    BY <2>1, <2>2
<1>6. CASE ~(Start + packet < SeqMod) /\ Start + last < SeqMod
  <2>1. delta = packet - last - SeqMod /\ packet > last
    BY <1>1, <1>2, <1>4, <1>6
  <2>2. packet - last - SeqMod < -Wrap
    BY <1>1, <1>2, <1>3
  <2>3. delta < -Wrap
    BY <2>1, <2>2
  <2>4. QED
    BY <2>1, <2>3
<1>7. CASE Start + packet < SeqMod <=> Start + last < SeqMod
  <2>1. delta = packet - last
    BY <1>1, <1>2, <1>4, <1>7
  <2>2. -Wrap <= packet - last /\ packet - last <= Wrap
    BY <1>1, <1>2, <1>3
  <2>3. -Wrap <= delta /\ delta <= Wrap
    BY <2>1, <2>2
  <2>4. QED
    BY <2>1, <2>3
<1>8. QED
  BY <1>5, <1>6, <1>7

(* What waits is numbers, and its last one is the largest. *)
LEMMA LastSeqValue ==
  ASSUME NEW status, DOMAIN status \subseteq 0 .. SeqMod - 1,
         NEW last \in 0 .. LastPacket, IsLast(status, last)
  PROVE  LastSeq(status) = SeqOf(last) /\ SeqOf(last) \in 0 .. SeqMod - 1
<1>1. DOMAIN status \in SUBSET Int
  BY TwccAssumption
<1>2. QED
  BY <1>1, MaxProperty DEF IsLast, LastSeq

(* A packet that waits alone is the last one, and not far from the newest. *)
LEMMA AloneFollows ==
  ASSUME NEW packet \in 0 .. LastPacket, NEW latest \in 0 .. LastPacket, Near(packet, latest)
  PROVE  Follows(Note(NoStatus, SeqOf(packet)), latest)
<1>1. DOMAIN Note(NoStatus, SeqOf(packet)) = {SeqOf(packet)}
  BY DEF Note, NoStatus
<1>2. SeqOf(packet) \in Int
  BY SeqOfValue, TwccAssumption
<1>3. QED
  BY <1>1, <1>2 DEF Follows, IsLast

(* A normal number is noted, or sent with what waits. *)
LEMMA NormalNotes ==
  ASSUME NEW seq, OnRtpNormal(seq)
  PROVE  /\ recvStatus' \in {NoStatus, Note(recvStatus, seq)}
         /\ out' # << >> \/ recvStatus' = Note(recvStatus, seq)
<1> DEFINE noted == Note(recvStatus, seq)
           min   == IF minStamp = 0 THEN now ELSE minStamp
<1>1. CASE NeedSendTwcc(noted, min)
  <2>1. out' = <<Fci(noted)>> /\ recvStatus' = NoStatus
    BY <1>1 DEF OnRtpNormal, OnSendTwcc, ClearStatus
  <2>2. QED
    BY <2>1
<1>2. CASE ~NeedSendTwcc(noted, min)
  BY <1>2 DEF OnRtpNormal
<1>3. QED
  BY <1>1, <1>2

(* What checkSeqStatus makes of a distance from the last number. *)
LEMMA StatusValue ==
  ASSUME NEW seq \in Int, NEW last \in Int, LastSeq(recvStatus) = last,
         DOMAIN recvStatus # {}
  PROVE  /\ -Wrap <= seq - last /\ seq - last <= Wrap => CheckSeqStatus(seq) = "normal"
         /\ seq - last < -Wrap => CheckSeqStatus(seq) = "looped"
         /\ seq - last > Wrap => CheckSeqStatus(seq) = "jumped"
<1>1. Ahead \in Nat /\ Wrap \in Nat /\ Ahead < Wrap
  BY TwccAssumption
<1>2. seq - last < -Wrap \/ seq - last > Wrap => seq - last \notin 1 .. Ahead - 1
  BY <1>1
<1>3. QED
  BY <1>1, <1>2 DEF CheckSeqStatus

(* Every arrival keeps the place, and notes a packet that is newer than all. *)
LEMMA ArriveKeepsPlace ==
  ASSUME IInv, Place, NEW packet \in 0 .. LastPacket, NEW pause \in Pauses,
         Arrive(packet, pause)
  PROVE  Place' /\ (newest' # newest => Accepted)
<1> DEFINE seq == SeqOf(packet)
<1>1. /\ {SeqMod, Start, Wrap, MaxLate, MaxLost, LastPacket} \subseteq Nat
      /\ MaxLate + MaxLost + 1 <= Wrap /\ Wrap + MaxLate + MaxLost + 1 < SeqMod
  BY TwccAssumption
<1>2. /\ newest \in Int /\ -1 <= newest /\ newest <= LastPacket
      /\ packet >= newest - MaxLate /\ packet <= newest + 1 + MaxLost
  BY <1>1 DEF Place, Arrive
<1>3. newest' = IF newest >= packet THEN newest ELSE packet
  BY <1>2, MaxOfTwo DEF Arrive
<1>4. newest' \in 0 .. LastPacket /\ newest <= newest' /\ Near(packet, newest')
  BY <1>1, <1>2, <1>3 DEF Near
<1>5. seq \in 0 .. SeqMod - 1
  BY <1>1, SeqOfValue, TwccAssumption
<1>6. DOMAIN recvStatus \subseteq 0 .. SeqMod - 1
  BY DEF IInv, Waits
<1>7. CASE DOMAIN recvStatus = {}
  <2>1. OnRtpNormal(seq)
    BY <1>7 DEF Arrive, OnRtp, CheckSeqStatus
  <2>2. recvStatus' \in {NoStatus, Note(recvStatus, seq)}
        /\ (out' # << >> \/ recvStatus' = Note(recvStatus, seq))
    BY <2>1, NormalNotes
  <2>3. DOMAIN Note(recvStatus, seq) = {seq} /\ DOMAIN NoStatus = {}
    BY <1>7 DEF Note, NoStatus
  <2>4. Accepted
    BY <1>7, <2>2, <2>3 DEF Accepted
  <2>5. Follows(recvStatus', newest')
    BY <1>1, <1>4, <1>5, <2>2, <2>3 DEF Follows, IsLast
  <2>6. QED
    BY <1>4, <2>4, <2>5 DEF Place
<1>8. CASE DOMAIN recvStatus # {}
  <2>1. PICK last \in 0 .. LastPacket : IsLast(recvStatus, last) /\ Near(last, newest)
    BY <1>8 DEF Place, Follows
  <2>2. newest \in 0 .. LastPacket
    BY <1>1, <1>2, <2>1 DEF Near
  <2>3. LastSeq(recvStatus) = SeqOf(last) /\ SeqOf(last) \in 0 .. SeqMod - 1
    BY <1>6, <2>1, LastSeqValue
  <2> DEFINE delta == seq - SeqOf(last)
  <2>4. \/ delta = packet - last /\ -Wrap <= delta /\ delta <= Wrap
        \/ delta < -Wrap /\ packet > last
        \/ delta > Wrap /\ packet < last
    BY <1>1, <1>2, <2>1, <2>2, StepIsTold
  <2>5. CASE delta = packet - last /\ -Wrap <= delta /\ delta <= Wrap
    <3>1. CheckSeqStatus(seq) = "normal"
      BY <1>1, <1>5, <1>8, <2>3, <2>5 DEF CheckSeqStatus
    <3>2. CASE seq \in DOMAIN recvStatus
      <4>1. Ignore
        BY <3>1, <3>2 DEF Arrive, OnRtp
      <4>2. recvStatus' = recvStatus
        BY <4>1 DEF Ignore, contextVars
      <4>3. packet <= last
        BY <1>5, <2>1, <2>3, <2>5, <3>2 DEF IsLast
      <4>4. newest' = newest
        BY <1>3, <2>1, <2>2, <4>3 DEF Near
      <4>5. QED
        BY <4>2, <4>4 DEF Place
    <3>3. CASE seq \notin DOMAIN recvStatus
      <4> DEFINE noted == Note(recvStatus, seq)
      <4>1. OnRtpNormal(seq)
        BY <3>1, <3>3 DEF Arrive, OnRtp
      <4>2. recvStatus' \in {NoStatus, noted} /\ (out' # << >> \/ recvStatus' = noted)
        BY <4>1, NormalNotes
      <4>3. DOMAIN noted = DOMAIN recvStatus \union {seq} /\ DOMAIN NoStatus = {}
        BY DEF Note, NoStatus
      <4>4. Accepted
        BY <3>3, <4>2, <4>3 DEF Accepted
      <4> HIDE DEF noted
      <4>5. CASE packet > last
        <5>1. IsLast(noted, packet)
          BY <1>5, <1>6, <2>1, <2>3, <2>5, <4>3, <4>5 DEF IsLast
        <5>2. QED
          BY <1>4, <4>2, <4>3, <4>4, <5>1 DEF Place, Follows
      <4>6. CASE packet <= last
        <5>1. IsLast(noted, last)
          BY <1>5, <2>1, <2>3, <2>5, <4>3, <4>6 DEF IsLast
        <5>2. newest' = newest
          BY <1>3, <2>1, <2>2, <4>6 DEF Near
        <5>3. QED
          BY <1>4, <2>1, <4>2, <4>3, <4>4, <5>1, <5>2 DEF Place, Follows
      <4>7. QED
        BY <4>5, <4>6
    <3>4. QED
      BY <3>2, <3>3
  <2>6. CASE delta < -Wrap /\ packet > last
    <3>1. CheckSeqStatus(seq) = "looped"
      BY <1>1, <1>5, <1>8, <2>3, <2>6, StatusValue
    <3>2. OnRtpLooped(seq)
      BY <3>1 DEF Arrive, OnRtp
    <3>3. recvStatus' = Note(NoStatus, seq) /\ out' = <<Fci(recvStatus)>>
      BY <3>2 DEF OnRtpLooped, OnSendTwcc
    <3>4. Accepted
      BY <3>3 DEF Accepted
    <3>5. Follows(recvStatus', newest')
      BY <1>4, <3>3, AloneFollows
    <3>6. QED
      BY <1>4, <3>4, <3>5 DEF Place
  <2>7. CASE delta > Wrap /\ packet < last
    <3>1. CheckSeqStatus(seq) = "jumped"
      BY <1>1, <1>5, <1>8, <2>3, <2>7, StatusValue
    <3>2. recvStatus' = recvStatus
      BY <3>1 DEF Arrive, OnRtp, Ignore, contextVars
    <3>3. newest' = newest
      BY <1>3, <2>1, <2>2, <2>7 DEF Near
    <3>4. QED
      BY <3>2, <3>3 DEF Place
  <2>8. QED
    BY <2>4, <2>5, <2>6, <2>7
<1>9. QED
  BY <1>7, <1>8

(* The newest packet is never ignored, however the wrap, losses and late   *)
(* packets meet, as long as a packet is not as late as a wrap is far       *)
(* (checkSeqStatus).                                                       *)
THEOREM NewestIsAlwaysNoted == Spec => NewestIsNoted
<1>1. Init => Place
  BY TwccAssumption DEF Init, Place, Follows, NoStatus
<1>2. IInv /\ Place /\ [Next]_vars => Place' /\ [newest' # newest => Accepted]_vars
  <2>1. ASSUME IInv, Place, Next PROVE Place' /\ (newest' # newest => Accepted)
    BY <2>1, ArriveKeepsPlace DEF Next
  <2>2. ASSUME Place, UNCHANGED vars PROVE Place' /\ UNCHANGED vars
    BY <2>2 DEF vars, contextVars, Place, Follows, IsLast, Near
  <2>3. QED
    BY <2>1, <2>2
<1>3. QED
  BY <1>1, <1>2, Inductive, PTL DEF Spec, NewestIsNoted

-----------------------------------------------------------------------------
(* What a message says: induction over statuses                            *)

(* A non-empty set of naturals has a least element. *)
LEMMA LeastElement ==
  ASSUME NEW T \in SUBSET Nat, T # {}
  PROVE  \E x \in T : \A y \in T : x <= y
<1> DEFINE F == {0 .. x : x \in T}
<1>1. F \subseteq FiniteSubsetsOf(Nat) /\ F # {}
  <2>1. ASSUME NEW x \in T
        PROVE  0 .. x \in SUBSET Nat /\ IsFiniteSet(0 .. x)
    <3>1. 0 \in Int /\ x \in Int
      OBVIOUS
    <3> QED
      BY <3>1, FS_Interval
  <2> QED
    BY <2>1 DEF FiniteSubsetsOf
<1>2. PICK I \in F : \A J \in F : ~ (<<J, I>> \in StrictSubsetOrdering(Nat))
  BY <1>1, FS_StrictSubsetOrderingWellFounded, WFMin
<1>3. PICK x \in T : I = 0 .. x
  BY <1>2
<1>4. ASSUME NEW y \in T, y < x
      PROVE  FALSE
  <2>1. 0 .. y \in F /\ 0 .. y \subseteq 0 .. x /\ x \in 0 .. x /\ x \notin 0 .. y
    BY <1>4
  <2>2. <<0 .. y, 0 .. x>> \in StrictSubsetOrdering(Nat)
    BY <2>1, <1>1, <1>2, <1>3 DEF StrictSubsetOrdering
  <2> QED
    BY <2>1, <2>2, <1>2, <1>3
<1> QED
  BY <1>4

(* Induction from the first place on. *)
LEMMA Upwards ==
  ASSUME NEW n \in Nat, NEW T,
         \A i \in 0 .. n : (\A j \in 0 .. i - 1 : j \in T) => i \in T
  PROVE  \A i \in 0 .. n : i \in T
<1> DEFINE Out == {i \in 0 .. n : i \notin T}
<1>1. SUFFICES ASSUME Out # {} PROVE FALSE
  OBVIOUS
<1>2. Out \in SUBSET Nat
  OBVIOUS
<1>3. PICK i \in Out : \A y \in Out : i <= y
  BY <1>1, <1>2, LeastElement
<1>4. \A j \in 0 .. i - 1 : j \in T
  <2>1. ASSUME NEW j \in 0 .. i - 1 PROVE j \in T
    <3>1. j \in 0 .. n /\ ~(i <= j)
      BY <1>3
    <3>2. QED
      BY <1>3, <3>1
  <2>2. QED
    BY <2>1
<1>5. QED
  BY <1>3, <1>4

(* Induction from the last place back. *)
LEMMA Downwards ==
  ASSUME NEW n \in Nat, NEW T,
         \A i \in 1 .. n + 1 : (\A j \in i + 1 .. n + 1 : j \in T) => i \in T
  PROVE  \A i \in 1 .. n + 1 : i \in T
<1> DEFINE Out == {k \in 0 .. n : n + 1 - k \notin T}
<1>1. SUFFICES ASSUME Out # {} PROVE FALSE
  <2>1. ASSUME Out = {}, NEW i \in 1 .. n + 1 PROVE i \in T
    <3>1. n + 1 - i \in 0 .. n /\ n + 1 - (n + 1 - i) = i
      OBVIOUS
    <3>2. QED
      BY <2>1, <3>1
  <2>2. QED
    BY <2>1
<1>2. Out \in SUBSET Nat
  OBVIOUS
<1>3. PICK k \in Out : \A y \in Out : k <= y
  BY <1>1, <1>2, LeastElement
<1>4. PICK i \in 1 .. n + 1 : i = n + 1 - k
  BY <1>3
<1>5. \A j \in i + 1 .. n + 1 : j \in T
  <2>1. ASSUME NEW j \in i + 1 .. n + 1 PROVE j \in T
    <3>1. n + 1 - j \in 0 .. n /\ ~(k <= n + 1 - j) /\ n + 1 - (n + 1 - j) = j
      BY <1>3, <1>4
    <3>2. QED
      BY <1>3, <3>1
  <2>2. QED
    BY <2>1
<1>6. QED
  BY <1>3, <1>4, <1>5

(* from[i] are the pieces from place i on, joined. *)
AreJoined(from, pieces, next, n) ==
  /\ from[n + 1] = << >>
  /\ \A i \in 1 .. n : from[i] = pieces[i] \o from[next[i]]
From(from, pieces, next, n, k) ==
  from = [i \in k .. n + 1 |-> IF i > n THEN << >> ELSE pieces[i] \o from[next[i]]]

(* They exist, from the last place back, if each place names a later one. *)
LEMMA FromExists ==
  ASSUME NEW n \in Nat, NEW pieces, NEW next, \A i \in 1 .. n : next[i] \in i + 1 .. n + 1
  PROVE  \E from : From(from, pieces, next, n, 1)
<1> DEFINE T == {k \in 1 .. n + 1 : \E from : From(from, pieces, next, n, k)}
<1>1. ASSUME NEW k \in 1 .. n + 1, \A j \in k + 1 .. n + 1 : j \in T
      PROVE  \E from : From(from, pieces, next, n, k)
  <2>1. CASE k = n + 1
    <3> DEFINE from == [i \in n + 1 .. n + 1 |-> << >>]
    <3>1. \A i \in n + 1 .. n + 1 : i > n
      OBVIOUS
    <3>2. from = [i \in n + 1 .. n + 1 |-> IF i > n THEN << >> ELSE pieces[i] \o from[next[i]]]
      BY <3>1
    <3>3. QED
      BY <2>1, <3>2 DEF From
  <2>2. CASE k # n + 1
    <3>1. k \in 1 .. n /\ k + 1 \in k + 1 .. n + 1
      BY <2>2
    <3>2. k + 1 \in T
      BY <1>1, <3>1
    <3>3. PICK old : From(old, pieces, next, n, k + 1)
      BY <3>2
    <3> DEFINE from == [i \in k .. n + 1 |-> IF i > n THEN << >> ELSE pieces[i] \o old[next[i]]]
    <3>4. ASSUME NEW i \in k + 1 .. n + 1 PROVE from[i] = old[i]
      <4>1. i \in k .. n + 1
        BY <3>1
      <4>2. old[i] = IF i > n THEN << >> ELSE pieces[i] \o old[next[i]]
        BY <3>3 DEF From
      <4>3. QED
        BY <4>1, <4>2
    <3>5. \A i \in k .. n + 1 : i > n \/ next[i] \in k + 1 .. n + 1
      <4>1. ASSUME NEW i \in k .. n + 1, ~(i > n) PROVE next[i] \in k + 1 .. n + 1
        <5>1. i \in 1 .. n /\ i >= k
          BY <3>1, <4>1
        <5>2. next[i] \in i + 1 .. n + 1
          BY <5>1
        <5>3. QED
          BY <5>1, <5>2, <3>1
      <4>2. QED
        BY <4>1
    <3>6. \A i \in k .. n + 1 :
            (IF i > n THEN << >> ELSE pieces[i] \o old[next[i]])
              = (IF i > n THEN << >> ELSE pieces[i] \o from[next[i]])
      <4>1. ASSUME NEW i \in k .. n + 1, ~(i > n) PROVE old[next[i]] = from[next[i]]
        BY <3>4, <3>5, <4>1
      <4> HIDE DEF from
      <4>2. QED
        BY <4>1
    <3>7. from = [i \in k .. n + 1 |-> IF i > n THEN << >> ELSE pieces[i] \o from[next[i]]]
      BY <3>6, Zenon
    <3> HIDE DEF from
    <3>8. QED
      BY <3>7 DEF From
  <2>3. QED
    BY <2>1, <2>2
<1>2. \A i \in 1 .. n + 1 : (\A j \in i + 1 .. n + 1 : j \in T) => i \in T
  BY <1>1
<1> HIDE DEF T
<1>3. 1 \in T
  <2>1. 1 \in 1 .. n + 1
    OBVIOUS
  <2>2. \A i \in 1 .. n + 1 : i \in T
    BY <1>2, Downwards
  <2>3. QED
    BY <2>1, <2>2
<1>4. QED
  BY <1>3 DEF T

(* Joined is the first of them. *)
LEMMA JoinedProperty ==
  ASSUME NEW n \in Nat, NEW pieces, NEW next, Len(pieces) = n,
         \A i \in 1 .. n : next[i] \in i + 1 .. n + 1
  PROVE  \E from : Joined(pieces, next) = from[1] /\ AreJoined(from, pieces, next, n)
<1> DEFINE from == CHOOSE f : From(f, pieces, next, n, 1)
<1>1. Joined(pieces, next) = from[1]
  BY DEF Joined, From
<1>2. From(from, pieces, next, n, 1)
  BY FromExists
<1> HIDE DEF from
<1>3. \A i \in 1 .. n + 1 : from[i] = IF i > n THEN << >> ELSE pieces[i] \o from[next[i]]
  BY <1>2 DEF From
<1>4. from[n + 1] = << >>
  BY <1>3
<1>5. ASSUME NEW i \in 1 .. n PROVE from[i] = pieces[i] \o from[next[i]]
  <2>1. i \in 1 .. n + 1 /\ ~(i > n)
    OBVIOUS
  <2>2. QED
    BY <1>3, <2>1
<1>6. QED
  BY <1>1, <1>4, <1>5 DEF AreJoined

(* Flat joins sequences one after the other. *)
LEMMA FlatProperty ==
  ASSUME NEW X, NEW pieces \in Seq(Seq(X))
  PROVE  \E from :
           /\ Flat(pieces) = from[1]
           /\ from[Len(pieces) + 1] = << >>
           /\ \A i \in 1 .. Len(pieces) : from[i] = pieces[i] \o from[i + 1]
           /\ \A i \in 1 .. Len(pieces) + 1 : from[i] \in Seq(X)
<1> DEFINE n    == Len(pieces)
           next == [i \in DOMAIN pieces |-> i + 1]
<1>1. n \in Nat /\ DOMAIN pieces = 1 .. n /\ \A i \in 1 .. n : pieces[i] \in Seq(X)
  BY LenProperties, ElementOfSeq
<1>2. \A i \in 1 .. n : next[i] = i + 1 /\ next[i] \in i + 1 .. n + 1
  BY <1>1
<1>3. PICK from : Joined(pieces, next) = from[1] /\ AreJoined(from, pieces, next, n)
  <2> HIDE DEF next
  <2>1. QED
    BY <1>1, <1>2, JoinedProperty
<1>4. Flat(pieces) = from[1]
  BY <1>3 DEF Flat
<1>5. from[n + 1] = << >> /\ \A i \in 1 .. n : from[i] = pieces[i] \o from[i + 1]
  BY <1>2, <1>3 DEF AreJoined
<1> DEFINE T == {i \in 1 .. n + 1 : from[i] \in Seq(X)}
<1>6. ASSUME NEW i \in 1 .. n + 1, \A j \in i + 1 .. n + 1 : j \in T PROVE from[i] \in Seq(X)
  <2>1. CASE i = n + 1
    <3>1. << >> \in Seq(X)
      BY EmptySeq
    <3>2. QED
      BY <1>5, <2>1, <3>1
  <2>2. CASE i # n + 1
    <3>1. i \in 1 .. n /\ i + 1 \in i + 1 .. n + 1
      BY <1>1, <2>2
    <3>2. from[i + 1] \in Seq(X) /\ pieces[i] \in Seq(X)
      BY <1>1, <1>6, <3>1
    <3>3. pieces[i] \o from[i + 1] \in Seq(X)
      BY <3>2, ConcatProperties
    <3>4. QED
      BY <1>5, <3>1, <3>3
  <2>3. QED
    BY <2>1, <2>2
<1>7. \A i \in 1 .. n + 1 : (\A j \in i + 1 .. n + 1 : j \in T) => i \in T
  BY <1>6
<1>8. \A i \in 1 .. n + 1 : i \in T
  <2> HIDE DEF T
  <2>1. QED
    BY <1>1, <1>7, Downwards
<1>9. QED
  BY <1>4, <1>5, <1>8

(* One piece before others. *)
LEMMA FlatFirst ==
  ASSUME NEW X, NEW long \in Seq(Seq(X)), NEW short \in Seq(Seq(X)),
         Len(long) = Len(short) + 1, \A i \in 1 .. Len(short) : long[i + 1] = short[i]
  PROVE  Flat(long) = long[1] \o Flat(short) /\ Flat(short) \in Seq(X)
<1> DEFINE n == Len(short)
<1>0. n \in Nat /\ Len(long) = n + 1
  BY LenProperties
<1>1. PICK f :
        /\ Flat(short) = f[1] /\ f[n + 1] = << >>
        /\ \A i \in 1 .. n : f[i] = short[i] \o f[i + 1]
        /\ \A i \in 1 .. n + 1 : f[i] \in Seq(X)
  BY FlatProperty
<1>2. PICK g :
        /\ Flat(long) = g[1] /\ g[n + 1 + 1] = << >>
        /\ \A i \in 1 .. n + 1 : g[i] = long[i] \o g[i + 1]
  <2>1. PICK g :
          /\ Flat(long) = g[1] /\ g[Len(long) + 1] = << >>
          /\ \A i \in 1 .. Len(long) : g[i] = long[i] \o g[i + 1]
          /\ \A i \in 1 .. Len(long) + 1 : g[i] \in Seq(X)
    BY FlatProperty
  <2>2. QED
    BY <1>0, <2>1
<1> DEFINE T == {i \in 1 .. n + 1 : g[i + 1] = f[i]}
<1>3. ASSUME NEW i \in 1 .. n + 1, \A j \in i + 1 .. n + 1 : j \in T PROVE g[i + 1] = f[i]
  <2>1. CASE i = n + 1
    BY <1>1, <1>2, <2>1
  <2>2. CASE i # n + 1
    <3>1. i \in 1 .. n /\ i + 1 \in i + 1 .. n + 1 /\ i + 1 \in 1 .. n + 1
      BY <1>0, <2>2
    <3>2. g[i + 1 + 1] = f[i + 1]
      BY <1>3, <3>1
    <3>3. g[i + 1] = long[i + 1] \o g[i + 1 + 1] /\ f[i] = short[i] \o f[i + 1]
      BY <1>1, <1>2, <3>1
    <3>4. long[i + 1] = short[i]
      BY <3>1
    <3>5. QED
      BY <3>2, <3>3, <3>4
  <2>3. QED
    BY <2>1, <2>2
<1>4. \A i \in 1 .. n + 1 : (\A j \in i + 1 .. n + 1 : j \in T) => i \in T
  BY <1>3
<1>5. 1 \in 1 .. n + 1
  BY <1>0
<1>6. 1 \in T
  <2> HIDE DEF T, n
  <2>1. QED
    BY <1>0, <1>4, <1>5, Downwards
<1>7. g[2] = f[1] /\ g[1] = long[1] \o g[2]
  <2>1. g[1 + 1] = f[1]
    BY <1>6
  <2>2. QED
    BY <1>2, <1>5, <2>1
<1>8. f[1] \in Seq(X)
  BY <1>1, <1>5
<1>9. QED
  BY <1>1, <1>2, <1>7, <1>8

(* Nothing joined is nothing. *)
LEMMA FlatNothing == Flat(<< >>) = << >>
<1>1. << >> \in Seq(Seq({})) /\ Len(<< >>) = 0
  BY EmptySeq
<1>2. PICK from :
        /\ Flat(<< >>) = from[1] /\ from[Len(<< >>) + 1] = << >>
        /\ \A i \in 1 .. Len(<< >>) : from[i] = << >>[i] \o from[i + 1]
        /\ \A i \in 1 .. Len(<< >>) + 1 : from[i] \in Seq({})
  BY <1>1, FlatProperty
<1>3. QED
  BY <1>1, <1>2

(* The least of naturals, and the greatest of those up to a bound. *)
LEMMA MinExists ==
  ASSUME NEW S \in SUBSET Nat, S # {}
  PROVE  Min(S) \in S /\ \A y \in S : Min(S) <= y
<1>1. \E x \in S : \A y \in S : x <= y
  BY LeastElement
<1>2. QED
  BY <1>1 DEF Min

LEMMA MaxExists ==
  ASSUME NEW m \in Nat, NEW S \in SUBSET (0 .. m), S # {}
  PROVE  Max(S) \in S /\ \A y \in S : y <= Max(S)
<1> DEFINE T == {k \in 0 .. m : m - k \in S}
<1>1. T # {}
  <2>1. PICK x \in S : TRUE
    OBVIOUS
  <2>2. m - x \in 0 .. m /\ m - (m - x) = x
    OBVIOUS
  <2>3. QED
    BY <2>1, <2>2
<1>2. PICK k \in T : \A y \in T : k <= y
  <2>1. T \in SUBSET Nat
    OBVIOUS
  <2> HIDE DEF T
  <2>2. QED
    BY <1>1, <2>1, LeastElement
<1>3. ASSUME NEW y \in S PROVE m - k >= y
  <2>1. m - y \in 0 .. m /\ m - (m - y) = y
    OBVIOUS
  <2>2. k <= m - y
    BY <1>2, <2>1
  <2>3. QED
    BY <1>2, <2>2
<1>4. \E x \in S : \A y \in S : x >= y
  BY <1>2, <1>3
<1>5. Max(S) \in S /\ \A y \in S : Max(S) >= y
  BY <1>4 DEF Max
<1>6. QED
  BY <1>5

(* What create and getPacketChunkList work on. *)
Symbols  == {NotReceived, SmallDelta, LargeDelta}
Statuses == [symbol : Symbols, delta : Int]
ChunkSet == [run : BOOLEAN, symbols : Seq(Symbols), width : {1, 2}]

(* A run is one status at least, and no more than there are. *)
LEMMA RunProperty ==
  ASSUME NEW ss \in Seq(Statuses), NEW i \in 1 .. Len(ss)
  PROVE  /\ RunLength(ss, i) \in 1 .. Len(ss) - i + 1
         /\ \A j \in i .. i + RunLength(ss, i) - 1 : ss[j].symbol = ss[i].symbol
<1> DEFINE most == Min({MaxRun, Len(ss) - i + 1})
           S    == {n \in 1 .. most : \A j \in i .. i + n - 1 : ss[j].symbol = ss[i].symbol}
<1>1. Len(ss) \in Nat /\ Len(ss) - i + 1 \in Nat /\ Len(ss) - i + 1 >= 1
  BY LenProperties
<1>2. MaxRun \in Int /\ MaxRun >= 1
  BY FciAssumption
<1>3. most \in {MaxRun, Len(ss) - i + 1} /\ most <= Len(ss) - i + 1
  <2>1. {MaxRun, Len(ss) - i + 1} \in SUBSET Nat /\ {MaxRun, Len(ss) - i + 1} # {}
    BY <1>1, <1>2
  <2>2. Len(ss) - i + 1 \in {MaxRun, Len(ss) - i + 1}
    OBVIOUS
  <2>3. most \in {MaxRun, Len(ss) - i + 1} /\ \A y \in {MaxRun, Len(ss) - i + 1} : most <= y
    BY <2>1, MinExists
  <2>4. QED
    BY <2>2, <2>3
<1>4. most \in Nat /\ most >= 1
  BY <1>1, <1>2, <1>3
<1> HIDE DEF most
<1>5. 1 \in S
  BY <1>4
<1>6. S \in SUBSET (0 .. most) /\ S # {}
  <2>1. S \subseteq 1 .. most /\ 1 .. most \subseteq 0 .. most
    BY <1>4
  <2> HIDE DEF S
  <2>2. QED
    BY <1>5, <2>1
<1>7. RunLength(ss, i) = Max(S)
  BY DEF RunLength, most
<1>8. RunLength(ss, i) \in S
  <2> HIDE DEF S
  <2>1. QED
    BY <1>4, <1>6, <1>7, MaxExists
<1>9. QED
  BY <1>1, <1>3, <1>4, <1>8

(* A vector ends with the statuses, or with a full field. *)
LEMMA VectorProperty ==
  ASSUME NEW ss \in Seq(Statuses), NEW i \in 1 .. Len(ss)
  PROVE  LET end == VectorEnd(ss, i)
         IN  /\ end \in i .. Len(ss)
             /\ \/ end = Len(ss)
                \/ (end - i + 1) * Width(SymbolsOf(SubSeq(ss, i, end))) >= VectorBits
<1> DEFINE Full(j) == (j - i + 1) * Width(SymbolsOf(SubSeq(ss, i, j))) >= VectorBits
           S == {Len(ss)} \union {j \in i .. Len(ss) : Full(j)}
<1> HIDE DEF Full
<1>1. Len(ss) \in Nat /\ Len(ss) >= i
  BY LenProperties
<1>2. S \in SUBSET Nat /\ S # {}
  BY <1>1
<1>3. VectorEnd(ss, i) = Min(S)
  BY DEF VectorEnd, Full
<1>4. VectorEnd(ss, i) \in S
  <2> HIDE DEF S
  <2>1. QED
    BY <1>2, <1>3, MinExists
<1>5. VectorEnd(ss, i) \in i .. Len(ss) /\ (VectorEnd(ss, i) = Len(ss) \/ Full(VectorEnd(ss, i)))
  BY <1>1, <1>4
<1>6. QED
  BY <1>5 DEF Full

(* The fields of a status sequence. *)
LEMMA SymbolsProperty ==
  ASSUME NEW ss \in Seq(Statuses), NEW i \in 1 .. Len(ss), NEW end \in i .. Len(ss)
  PROVE  LET symbols == SymbolsOf(SubSeq(ss, i, end))
         IN  /\ symbols \in Seq(Symbols) /\ Len(symbols) = end - i + 1
             /\ \A j \in 1 .. end - i + 1 : symbols[j] = ss[i + j - 1].symbol
<1> DEFINE sub == SubSeq(ss, i, end)
           symbols == SymbolsOf(sub)
<1>1. Len(ss) \in Nat /\ \A j \in 1 .. Len(ss) : ss[j] \in Statuses
  BY LenProperties, ElementOfSeq
<1>2. /\ sub \in Seq(Statuses) /\ Len(sub) = end - i + 1
      /\ \A j \in 1 .. end - i + 1 : sub[j] = ss[i + j - 1]
  BY <1>1, SubSeqProperties
<1>3. end - i + 1 \in Nat /\ DOMAIN sub = 1 .. end - i + 1
  BY <1>1, <1>2, LenProperties
<1>4. \A j \in 1 .. end - i + 1 : i + j - 1 \in 1 .. Len(ss)
  BY <1>1
<1> HIDE DEF sub
<1>5. symbols = [j \in 1 .. end - i + 1 |-> sub[j].symbol]
  BY <1>3 DEF SymbolsOf
<1>6. \A j \in 1 .. end - i + 1 : sub[j].symbol \in Symbols
  BY <1>1, <1>2, <1>4 DEF Statuses
<1>7. symbols \in [1 .. end - i + 1 -> Symbols]
  BY <1>5, <1>6
<1> HIDE DEF symbols
<1>8. symbols \in Seq(Symbols) /\ Len(symbols) = end - i + 1
  <2>1. symbols \in Seq(Symbols)
    BY <1>3, <1>7, SeqDef
  <2>2. QED
    BY <1>3, <1>7, <2>1, LenProperties
<1>9. \A j \in 1 .. end - i + 1 : symbols[j] = ss[i + j - 1].symbol
  BY <1>2, <1>5
<1>10. QED
  BY <1>8, <1>9 DEF symbols, sub

(* A chunk holds the symbols of the statuses from a place on, as many as   *)
(* its field takes if there are as many left.                              *)
LEMMA ChunkProperty ==
  ASSUME NEW ss \in Seq(Statuses), NEW i \in 1 .. Len(ss)
  PROVE  LET chunk == ChunkAt(ss, i)
             len   == Len(chunk.symbols)
         IN  /\ chunk \in ChunkSet
             /\ len \in 1 .. Len(ss) - i + 1
             /\ \A j \in 1 .. len : chunk.symbols[j] = ss[i + j - 1].symbol
             /\ chunk.run \/ i + len - 1 = Len(ss) \/ len >= Capacity(chunk)
<1> DEFINE chunk == ChunkAt(ss, i)
           len   == Len(chunk.symbols)
<1>1. Len(ss) \in Nat /\ \A j \in 1 .. Len(ss) : ss[j] \in Statuses
  BY LenProperties, ElementOfSeq
<1>2. CASE RunLength(ss, i) >= MinRun
  <2> DEFINE n == RunLength(ss, i)
             symbols == [j \in 1 .. n |-> ss[i].symbol]
  <2>1. n \in 1 .. Len(ss) - i + 1 /\ \A j \in i .. i + n - 1 : ss[j].symbol = ss[i].symbol
    BY RunProperty
  <2>2. chunk = [run |-> TRUE, symbols |-> symbols, width |-> 2]
    BY <1>2 DEF ChunkAt, Run
  <2> HIDE DEF n
  <2>3. symbols \in [1 .. n -> Symbols] /\ n \in Nat
    BY <1>1, <2>1 DEF Statuses
  <2>4. symbols \in Seq(Symbols)
    BY <2>3, SeqDef
  <2>5. Len(symbols) = n
    BY <2>3, <2>4, LenProperties
  <2>6. \A j \in 1 .. n : i + j - 1 \in i .. i + n - 1
    BY <2>3
  <2>7. \A j \in 1 .. n : symbols[j] = ss[i + j - 1].symbol
    BY <2>1, <2>6
  <2> HIDE DEF symbols
  <2>8. chunk \in ChunkSet /\ chunk.run /\ chunk.symbols = symbols
    BY <2>2, <2>4 DEF ChunkSet
  <2> HIDE DEF chunk
  <2>9. QED
    BY <2>1, <2>5, <2>7, <2>8 DEF chunk
<1>3. CASE ~(RunLength(ss, i) >= MinRun)
  <2> DEFINE end     == VectorEnd(ss, i)
             symbols == SymbolsOf(SubSeq(ss, i, end))
  <2>1. end \in i .. Len(ss) /\ (end = Len(ss) \/ (end - i + 1) * Width(symbols) >= VectorBits)
    BY VectorProperty
  <2>2. chunk = [run |-> FALSE, symbols |-> symbols, width |-> Width(symbols)]
    BY <1>3 DEF ChunkAt, Vector
  <2>3. /\ symbols \in Seq(Symbols) /\ Len(symbols) = end - i + 1
        /\ \A j \in 1 .. end - i + 1 : symbols[j] = ss[i + j - 1].symbol
    <3> HIDE DEF end
    <3>1. QED
      BY <2>1, SymbolsProperty
  <2> HIDE DEF end, symbols
  <2>4. Width(symbols) \in {1, 2}
    BY DEF Width
  <2>5. chunk \in ChunkSet /\ chunk.symbols = symbols /\ chunk.width = Width(symbols)
    BY <2>2, <2>3, <2>4 DEF ChunkSet
  <2>6. end - i + 1 \in 1 .. Len(ss) - i + 1 /\ i + (end - i + 1) - 1 = end
    BY <1>1, <2>1
  <2>7. end = Len(ss) \/ end - i + 1 >= Capacity(chunk)
    <3>1. Capacity(chunk) = VectorBits \div Width(symbols) /\ VectorBits \in Nat
      BY <2>5, FciAssumption DEF Capacity
    <3>2. CASE Width(symbols) = 1
      BY <1>1, <2>1, <2>6, <3>1, <3>2
    <3>3. CASE Width(symbols) = 2
      BY <1>1, <2>1, <2>6, <3>1, <3>3
    <3>4. QED
      BY <2>4, <3>2, <3>3
  <2> HIDE DEF chunk
  <2>8. QED
    BY <2>3, <2>5, <2>6, <2>7 DEF chunk
<1>4. QED
  BY <1>2, <1>3

(* A chunk that fits is read as it was written, and a vector that is not   *)
(* full as if it were, with what was not received.                         *)
LEMMA ReadProperty ==
  ASSUME NEW chunk \in ChunkSet, Fits(chunk)
  PROVE  /\ ReadChunk(chunk) \in Seq(Symbols)
         /\ Len(ReadChunk(chunk)) =
              IF chunk.run THEN Len(chunk.symbols) ELSE Capacity(chunk)
         /\ Len(ReadChunk(chunk)) >= Len(chunk.symbols)
         /\ \A j \in 1 .. Len(chunk.symbols) : ReadChunk(chunk)[j] = chunk.symbols[j]
<1>1. /\ chunk.symbols \in Seq(Symbols) /\ Len(chunk.symbols) \in Nat
      /\ \A j \in 1 .. Len(chunk.symbols) : chunk.symbols[j] \in Symbols
      /\ DOMAIN chunk.symbols = 1 .. Len(chunk.symbols)
  <2>1. chunk.symbols \in Seq(Symbols)
    BY DEF ChunkSet
  <2>2. QED
    BY <2>1, LenProperties, ElementOfSeq
<1>2. CASE chunk.run
  BY <1>1, <1>2 DEF ReadChunk
<1>3. CASE ~chunk.run
  <2>1. Capacity(chunk) \in Nat /\ Len(chunk.symbols) <= Capacity(chunk)
    <3>1. chunk.width = 1 \/ chunk.width = 2
      BY DEF ChunkSet
    <3>2. VectorBits \div 1 \in Nat /\ VectorBits \div 2 \in Nat
      BY FciAssumption
    <3>3. QED
      BY <1>3, <3>1, <3>2 DEF Capacity, Fits
  <2>2. ReadChunk(chunk) \in [1 .. Capacity(chunk) -> Symbols]
    BY <1>1, <1>3 DEF ReadChunk, Symbols
  <2>3. ReadChunk(chunk) \in Seq(Symbols)
    BY <2>1, <2>2, SeqDef
  <2>4. Len(ReadChunk(chunk)) = Capacity(chunk)
    BY <2>1, <2>2, <2>3, LenProperties
  <2>5. ASSUME NEW j \in 1 .. Len(chunk.symbols) PROVE ReadChunk(chunk)[j] = chunk.symbols[j]
    <3>1. j \in 1 .. Capacity(chunk) /\ j \in DOMAIN chunk.symbols
      BY <1>1, <2>1
    <3>2. QED
      BY <1>3, <3>1 DEF ReadChunk
  <2>6. QED
    BY <1>3, <2>1, <2>3, <2>4, <2>5
<1>4. QED
  BY <1>2, <1>3

-----------------------------------------------------------------------------
(* What is written in chunks is read from them                             *)

Read(chunks) == Flat([k \in 1 .. Len(chunks) |-> ReadChunk(chunks[k])])
AreFit(chunks) == \A k \in 1 .. Len(chunks) : Fits(chunks[k])

(* The chunks of the statuses from place i on, if they fit, are read as    *)
(* the symbols of these statuses, and what fills the last vector.          *)
Tells(chunks, ss, i) ==
  /\ Read(chunks) \in Seq(Symbols)
  /\ Len(Read(chunks)) >= Len(ss) - i + 1
  /\ \A j \in 1 .. Len(ss) - i + 1 : Read(chunks)[j] = ss[i + j - 1].symbol

(* Reading a chunk and then the others. *)
LEMMA ReadFirst ==
  ASSUME NEW chunk \in ChunkSet, NEW chunks \in Seq(ChunkSet), AreFit(<<chunk>> \o chunks)
  PROVE  /\ Read(<<chunk>> \o chunks) = ReadChunk(chunk) \o Read(chunks)
         /\ Read(chunks) \in Seq(Symbols)
         /\ Fits(chunk) /\ AreFit(chunks)
<1> DEFINE n     == Len(chunks)
           all   == <<chunk>> \o chunks
           long  == [k \in 1 .. Len(all) |-> ReadChunk(all[k])]
           short == [k \in 1 .. n |-> ReadChunk(chunks[k])]
<1>1. n \in Nat /\ \A k \in 1 .. n : chunks[k] \in ChunkSet
  BY LenProperties, ElementOfSeq
<1>2. <<chunk>> \in Seq(ChunkSet) /\ Len(<<chunk>>) = 1 /\ <<chunk>>[1] = chunk
  OBVIOUS
<1>3. /\ Len(all) = n + 1 /\ all[1] = chunk
      /\ \A k \in 1 .. n : all[k + 1] = chunks[k]
  <2>1. /\ all \in Seq(ChunkSet) /\ Len(all) = 1 + n
        /\ \A k \in 1 .. 1 + n : all[k] = IF k <= 1 THEN <<chunk>>[k] ELSE chunks[k - 1]
    BY <1>2, ConcatProperties
  <2>2. \A k \in 1 .. n : k + 1 \in 1 .. 1 + n /\ ~(k + 1 <= 1) /\ (k + 1) - 1 = k
    BY <1>1
  <2>3. 1 \in 1 .. 1 + n
    BY <1>1
  <2> HIDE DEF all
  <2>4. QED
    BY <1>1, <1>2, <2>1, <2>2, <2>3
<1> HIDE DEF all
<1>4. Fits(chunk) /\ AreFit(chunks)
  <2>1. \A k \in 1 .. n + 1 : Fits(all[k])
    BY <1>3 DEF AreFit, all
  <2>2. 1 \in 1 .. n + 1 /\ \A k \in 1 .. n : k + 1 \in 1 .. n + 1
    BY <1>1
  <2>3. QED
    BY <1>3, <2>1, <2>2 DEF AreFit
<1>5. short \in Seq(Seq(Symbols)) /\ Len(short) = n
  <2>1. \A k \in 1 .. n : ReadChunk(chunks[k]) \in Seq(Symbols)
    BY <1>1, <1>4, ReadProperty DEF AreFit
  <2>2. short \in [1 .. n -> Seq(Symbols)]
    BY <2>1
  <2> HIDE DEF short
  <2>3. short \in Seq(Seq(Symbols))
    BY <1>1, <2>2, SeqDef
  <2>4. QED
    BY <1>1, <2>2, <2>3, LenProperties
<1>6. long \in Seq(Seq(Symbols)) /\ Len(long) = n + 1
  <2>1. \A k \in 1 .. n + 1 : ReadChunk(all[k]) \in Seq(Symbols)
    <3>1. ASSUME NEW k \in 1 .. n + 1 PROVE all[k] \in ChunkSet /\ Fits(all[k])
      <4>1. CASE k = 1
        BY <1>3, <1>4, <4>1
      <4>2. CASE k # 1
        <5>1. k - 1 \in 1 .. n /\ (k - 1) + 1 = k
          BY <1>1, <4>2
        <5>2. QED
          BY <1>1, <1>3, <1>4, <5>1 DEF AreFit
      <4>3. QED
        BY <4>1, <4>2
    <3>2. QED
      BY <3>1, ReadProperty
  <2>2. long \in [1 .. n + 1 -> Seq(Symbols)]
    BY <1>3, <2>1
  <2> HIDE DEF long
  <2>3. n + 1 \in Nat
    BY <1>1
  <2>4. long \in Seq(Seq(Symbols))
    BY <2>2, <2>3, SeqDef
  <2>5. QED
    BY <2>2, <2>3, <2>4, LenProperties
<1>7. long[1] = ReadChunk(chunk) /\ \A k \in 1 .. n : long[k + 1] = short[k]
  <2>1. 1 \in 1 .. n + 1 /\ \A k \in 1 .. n : k + 1 \in 1 .. n + 1
    BY <1>1
  <2>2. QED
    BY <1>3, <2>1
<1>8. Read(chunks) = Flat(short) /\ Read(all) = Flat(long)
  BY DEF Read
<1> HIDE DEF long, short
<1>9. Flat(long) = long[1] \o Flat(short) /\ Flat(short) \in Seq(Symbols)
  BY <1>5, <1>6, <1>7, FlatFirst
<1>10. QED
  BY <1>4, <1>7, <1>8, <1>9 DEF all

(* No chunks tell of no statuses. *)
LEMMA NothingTells ==
  ASSUME NEW ss \in Seq(Statuses)
  PROVE  Tells(<< >>, ss, Len(ss) + 1)
<1>1. Len(ss) \in Nat
  BY LenProperties
<1>2. Read(<< >>) = << >>
  <2>1. [k \in 1 .. Len(<< >>) |-> ReadChunk(<< >>[k])] = << >>
    OBVIOUS
  <2>2. QED
    BY <2>1, FlatNothing DEF Read
<1>3. << >> \in Seq(Symbols) /\ Len(<< >>) = 0
  BY EmptySeq
<1>4. Len(ss) - (Len(ss) + 1) + 1 = 0
  BY <1>1
<1>5. /\ Read(<< >>) \in Seq(Symbols) /\ Len(Read(<< >>)) >= Len(ss) - (Len(ss) + 1) + 1
      /\ \A j \in 1 .. Len(ss) - (Len(ss) + 1) + 1 :
            Read(<< >>)[j] = ss[(Len(ss) + 1) + j - 1].symbol
  <2>1. ASSUME NEW j \in 1 .. Len(ss) - (Len(ss) + 1) + 1 PROVE FALSE
    <3>1. PICK total \in Nat : total = Len(ss)
      BY <1>1
    <3>2. total - (total + 1) + 1 = 0
      OBVIOUS
    <3>3. j \in 1 .. 0
      BY <3>1, <3>2
    <3>4. QED
      BY <3>3
  <2>2. Len(Read(<< >>)) >= Len(ss) - (Len(ss) + 1) + 1
    BY <1>2, <1>3, <1>4
  <2>3. QED
    BY <1>2, <1>3, <2>1, <2>2
<1>6. QED
  BY <1>5 DEF Tells

(* The place of a status among those after a chunk. *)
LEMMA RestOf ==
  ASSUME NEW total \in Nat, NEW i \in Int, NEW len \in Int, NEW j \in Int,
         j <= total - i + 1, ~(j <= len)
  PROVE  /\ j - len \in 1 .. total - (i + len) + 1
         /\ (i + len) + (j - len) - 1 = i + j - 1
OBVIOUS

(* One more chunk before those that tell. *)
LEMMA ChunkTells ==
  ASSUME NEW ss \in Seq(Statuses), NEW i \in 1 .. Len(ss), NEW chunks \in Seq(ChunkSet),
         NEW next, next = i + Len(ChunkAt(ss, i).symbols),
         next = Len(ss) + 1 => chunks = << >>,
         AreFit(<<ChunkAt(ss, i)>> \o chunks), Tells(chunks, ss, next)
  PROVE  Tells(<<ChunkAt(ss, i)>> \o chunks, ss, i)
<1> DEFINE chunk == ChunkAt(ss, i)
           all   == <<chunk>> \o chunks
           len   == Len(chunk.symbols)
           first == ReadChunk(chunk)
           rest  == Read(chunks)
           n     == Len(ss) - i + 1
<1>1. Len(ss) \in Nat /\ n \in Nat
  BY LenProperties
<1>2. /\ chunk \in ChunkSet /\ len \in 1 .. n
      /\ \A j \in 1 .. len : chunk.symbols[j] = ss[i + j - 1].symbol
      /\ chunk.run \/ i + len - 1 = Len(ss) \/ len >= Capacity(chunk)
  BY ChunkProperty
<1> HIDE DEF chunk
<1>3. Read(all) = first \o rest /\ rest \in Seq(Symbols) /\ Fits(chunk)
  BY <1>2, ReadFirst DEF chunk
<1>4. /\ first \in Seq(Symbols) /\ Len(first) \in Nat
      /\ Len(first) = IF chunk.run THEN len ELSE Capacity(chunk)
      /\ Len(first) >= len
      /\ \A j \in 1 .. len : first[j] = chunk.symbols[j]
  BY <1>2, <1>3, ReadProperty, LenProperties
<1> HIDE DEF first, rest
<1>5. /\ Read(all) \in Seq(Symbols) /\ Len(Read(all)) = Len(first) + Len(rest)
      /\ \A j \in 1 .. Len(first) + Len(rest) :
            Read(all)[j] = IF j <= Len(first) THEN first[j] ELSE rest[j - Len(first)]
  <2>1. /\ first \o rest \in Seq(Symbols) /\ Len(first \o rest) = Len(first) + Len(rest)
        /\ \A j \in 1 .. Len(first) + Len(rest) :
              (first \o rest)[j] = IF j <= Len(first) THEN first[j] ELSE rest[j - Len(first)]
    BY <1>3, <1>4, ConcatProperties
  <2> HIDE DEF all
  <2>2. QED
    BY <1>3, <2>1
<1> HIDE DEF all
<1>6. /\ next = i + len /\ Len(rest) \in Nat /\ Len(rest) >= Len(ss) - next + 1
      /\ \A j \in 1 .. Len(ss) - next + 1 : rest[j] = ss[next + j - 1].symbol
  BY <1>3, LenProperties DEF Tells, rest, chunk
<1>7. Len(first) = len \/ i + len - 1 = Len(ss)
  <2>1. len \in Nat /\ (Capacity(chunk) = Len(first) \/ Len(first) = len)
    BY <1>1, <1>2, <1>4
  <2>2. QED
    BY <1>2, <1>4, <2>1
<1>8. ASSUME NEW j \in 1 .. n
      PROVE  j <= Len(first) + Len(rest) /\ Read(all)[j] = ss[i + j - 1].symbol
  <2>1. CASE j <= len
    <3>1. j \in 1 .. len /\ j \in 1 .. Len(first) + Len(rest) /\ j <= Len(first)
      BY <1>1, <1>2, <1>4, <1>6, <2>1
    <3>2. Read(all)[j] = chunk.symbols[j]
      BY <1>4, <1>5, <3>1
    <3>3. QED
      BY <1>2, <3>1, <3>2
  <2>2. CASE ~(j <= len)
    <3>1. Len(first) = len
      BY <1>1, <1>2, <1>7, <2>2
    <3>2. j - len \in 1 .. Len(ss) - next + 1 /\ next + (j - len) - 1 = i + j - 1
      <4>1. len \in Int /\ j \in Int /\ j <= Len(ss) - i + 1 /\ ~(j <= len)
        BY <1>1, <1>2, <2>2
      <4>2. next = i + len
        BY <1>6
      <4> HIDE DEF len, n
      <4>3. /\ j - len \in 1 .. Len(ss) - (i + len) + 1
            /\ (i + len) + (j - len) - 1 = i + j - 1
        BY <1>1, <4>1, RestOf
      <4>4. QED
        BY <4>2, <4>3
    <3>3. j \in 1 .. Len(first) + Len(rest) /\ ~(j <= Len(first))
      BY <1>1, <1>2, <1>6, <2>2, <3>1, <3>2
    <3>4. Read(all)[j] = rest[j - len]
      BY <1>5, <3>1, <3>3
    <3>5. rest[j - len] = ss[i + j - 1].symbol
      BY <1>6, <3>2
    <3>6. QED
      BY <3>3, <3>4, <3>5
  <2>3. QED
    BY <2>1, <2>2
<1>9. Len(Read(all)) >= n
  <2>1. CASE n = 0
    BY <1>1, <1>2, <2>1
  <2>2. CASE n # 0
    <3>1. n \in 1 .. n
      BY <1>1, <2>2
    <3>2. QED
      BY <1>5, <1>8, <3>1
  <2>3. QED
    BY <2>1, <2>2
<1>10. Tells(all, ss, i)
  BY <1>5, <1>8, <1>9 DEF Tells
<1>11. QED
  BY <1>10 DEF all, chunk

(* The chunks of a message tell of all its statuses, chunk by chunk from   *)
(* the last one back.                                                      *)
LEMMA ChunksTell ==
  ASSUME NEW ss \in Seq(Statuses)
  PROVE  Chunks(ss) \in Seq(ChunkSet) /\ (AreFit(Chunks(ss)) => Tells(Chunks(ss), ss, 1))
<1> DEFINE n      == Len(ss)
           pieces == [i \in 1 .. n |-> <<ChunkAt(ss, i)>>]
           next   == [i \in 1 .. n |-> i + Len(ChunkAt(ss, i).symbols)]
<1>1. n \in Nat
  BY LenProperties
<1>2. ASSUME NEW i \in 1 .. n
      PROVE  /\ ChunkAt(ss, i) \in ChunkSet /\ pieces[i] = <<ChunkAt(ss, i)>>
             /\ next[i] = i + Len(ChunkAt(ss, i).symbols) /\ next[i] \in i + 1 .. n + 1
  <2>1. ChunkAt(ss, i) \in ChunkSet /\ Len(ChunkAt(ss, i).symbols) \in 1 .. n - i + 1
    BY ChunkProperty
  <2>2. QED
    BY <1>1, <2>1
<1>3. Len(pieces) = n
  <2>1. pieces \in [1 .. n -> Seq(ChunkSet)]
    <3>1. ASSUME NEW i \in 1 .. n PROVE <<ChunkAt(ss, i)>> \in Seq(ChunkSet)
      <4>1. ChunkAt(ss, i) \in ChunkSet
        BY <1>2
      <4>2. QED
        BY <4>1
    <3>2. QED
      BY <3>1
  <2> HIDE DEF pieces
  <2>2. pieces \in Seq(Seq(ChunkSet))
    BY <1>1, <2>1, SeqDef
  <2>3. QED
    BY <1>1, <2>1, <2>2, LenProperties
<1>4. Chunks(ss) = Joined(pieces, next)
  BY DEF Chunks
<1> HIDE DEF pieces, next
<1>5. PICK from : Chunks(ss) = from[1] /\ AreJoined(from, pieces, next, n)
  BY <1>1, <1>2, <1>3, <1>4, JoinedProperty
<1>6. from[n + 1] = << >> /\ \A i \in 1 .. n : from[i] = <<ChunkAt(ss, i)>> \o from[next[i]]
  BY <1>2, <1>5 DEF AreJoined
<1> DEFINE Good(i) == /\ from[i] \in Seq(ChunkSet)
                      /\ AreFit(from[i]) => Tells(from[i], ss, i)
           T == {i \in 1 .. n + 1 : Good(i)}
<1>7. ASSUME NEW i \in 1 .. n + 1, \A j \in i + 1 .. n + 1 : j \in T PROVE Good(i)
  <2>1. CASE i = n + 1
    <3>1. << >> \in Seq(ChunkSet)
      BY EmptySeq
    <3>2. Tells(<< >>, ss, n + 1)
      BY NothingTells
    <3>3. QED
      BY <1>6, <2>1, <3>1, <3>2
  <2>2. CASE i # n + 1
    <3>1. i \in 1 .. n
      BY <1>1, <2>2
    <3>2. next[i] \in i + 1 .. n + 1 /\ next[i] = i + Len(ChunkAt(ss, i).symbols)
      BY <1>2, <3>1
    <3>3. Good(next[i])
      BY <1>7, <3>2
    <3>4. from[i] = <<ChunkAt(ss, i)>> \o from[next[i]]
      BY <1>6, <3>1
    <3>5. from[i] \in Seq(ChunkSet)
      <4>1. ChunkAt(ss, i) \in ChunkSet
        BY <1>2, <3>1
      <4>2. <<ChunkAt(ss, i)>> \in Seq(ChunkSet)
        BY <4>1
      <4>3. QED
        BY <3>3, <3>4, <4>2, ConcatProperties
    <3>6. ASSUME AreFit(from[i]) PROVE Tells(from[i], ss, i)
      <4>1. ChunkAt(ss, i) \in ChunkSet
        BY <1>2, <3>1
      <4>2. AreFit(<<ChunkAt(ss, i)>> \o from[next[i]]) /\ from[next[i]] \in Seq(ChunkSet)
        BY <3>3, <3>4, <3>6
      <4>3. AreFit(from[next[i]])
        BY <4>1, <4>2, ReadFirst
      <4>4. Tells(from[next[i]], ss, next[i])
        BY <3>3, <4>3
      <4>5. next[i] = Len(ss) + 1 => from[next[i]] = << >>
        BY <1>6
      <4>6. Tells(<<ChunkAt(ss, i)>> \o from[next[i]], ss, i)
        BY <3>1, <3>2, <4>2, <4>4, <4>5, ChunkTells
      <4>7. QED
        BY <3>4, <4>6
    <3>7. QED
      BY <3>5, <3>6
  <2>3. QED
    BY <2>1, <2>2
<1>8. \A i \in 1 .. n + 1 : (\A j \in i + 1 .. n + 1 : j \in T) => i \in T
  BY <1>7
<1>9. 1 \in 1 .. n + 1
  BY <1>1
<1>10. 1 \in T
  <2> HIDE DEF T, n
  <2>1. QED
    BY <1>1, <1>8, <1>9, Downwards
<1>11. QED
  BY <1>5, <1>10

-----------------------------------------------------------------------------
(* The deltas, and the place of each among them                            *)

CountIn(ss, a, b) == Cardinality({j \in a .. b : Received(ss[j])})

(* Counting from the first place. *)
LEMMA CountFirst ==
  ASSUME NEW ss, NEW a \in Int, NEW b \in Int
  PROVE  /\ CountIn(ss, a, b) \in Nat
         /\ a > b => CountIn(ss, a, b) = 0
         /\ a <= b => CountIn(ss, a, b) =
                        (IF Received(ss[a]) THEN 1 ELSE 0) + CountIn(ss, a + 1, b)
<1> DEFINE S(x) == {j \in x .. b : Received(ss[j])}
<1>1. ASSUME NEW x \in Int PROVE IsFiniteSet(S(x)) /\ Cardinality(S(x)) \in Nat
  <2>1. IsFiniteSet(x .. b)
    BY FS_Interval
  <2>2. S(x) \subseteq x .. b
    OBVIOUS
  <2>3. IsFiniteSet(S(x))
    BY <2>1, <2>2, FS_Subset
  <2>4. QED
    BY <2>3, FS_CardinalityType
<1>2. CASE a > b
  <2>1. S(a) = {}
    BY <1>2
  <2>2. QED
    BY <1>2, <2>1, FS_EmptySet DEF CountIn
<1>3. CASE a <= b
  <2>1. IsFiniteSet(S(a + 1)) /\ a \notin S(a + 1) /\ Cardinality(S(a + 1)) \in Nat
    BY <1>1
  <2>2. CASE Received(ss[a])
    <3>1. S(a) = S(a + 1) \union {a}
      <4>1. a .. b = (a + 1 .. b) \union {a}
        BY <1>3
      <4>2. QED
        BY <2>2, <4>1
    <3>2. Cardinality(S(a + 1) \union {a}) = Cardinality(S(a + 1)) + 1
      <4> HIDE DEF S
      <4>1. QED
        BY <2>1, FS_AddElement
    <3>3. CountIn(ss, a, b) = Cardinality(S(a)) /\ CountIn(ss, a + 1, b) = Cardinality(S(a + 1))
      BY DEF CountIn
    <3> HIDE DEF S
    <3>4. CountIn(ss, a, b) = 1 + CountIn(ss, a + 1, b) /\ CountIn(ss, a, b) \in Nat
      BY <2>1, <3>1, <3>2, <3>3
    <3>5. QED
      BY <1>3, <2>2, <3>4
  <2>3. CASE ~Received(ss[a])
    <3>1. S(a) = S(a + 1)
      <4>1. a .. b = (a + 1 .. b) \union {a}
        BY <1>3
      <4>2. QED
        BY <2>3, <4>1
    <3>2. QED
      BY <1>1, <1>3, <2>1, <2>3, <3>1 DEF CountIn
  <2>4. QED
    BY <2>2, <2>3
<1>4. QED
  BY <1>1, <1>2, <1>3 DEF CountIn

(* From place i on, the deltas are those of the statuses received, each at *)
(* its place.                                                              *)
Placed(deltas, ss, i) ==
  /\ deltas \in Seq(Statuses)
  /\ Len(deltas) = CountIn(ss, i, Len(ss))
  /\ \A j \in i .. Len(ss) :
       Received(ss[j]) => /\ CountIn(ss, i, j) \in 1 .. Len(deltas)
                          /\ deltas[CountIn(ss, i, j)] = ss[j]

(* One more status, received or not. *)
LEMMA OneMorePlaced ==
  ASSUME NEW ss \in Seq(Statuses), NEW i \in 1 .. Len(ss), NEW deltas,
         Placed(deltas, ss, i + 1)
  PROVE  Placed((IF Received(ss[i]) THEN <<ss[i]>> ELSE << >>) \o deltas, ss, i)
<1>1. Len(ss) \in Nat /\ i \in Int /\ i <= Len(ss) /\ ss[i] \in Statuses
  BY LenProperties, ElementOfSeq
<1>2. deltas \in Seq(Statuses) /\ Len(deltas) \in Nat /\ Len(deltas) = CountIn(ss, i + 1, Len(ss))
  BY LenProperties DEF Placed
<1>3. ASSUME NEW j \in i .. Len(ss)
      PROVE  /\ CountIn(ss, i, j) = (IF Received(ss[i]) THEN 1 ELSE 0) + CountIn(ss, i + 1, j)
             /\ CountIn(ss, i + 1, j) \in Nat
             /\ i = j => CountIn(ss, i + 1, j) = 0
  BY <1>1, CountFirst
<1>4. ASSUME NEW j \in i .. Len(ss), i # j, Received(ss[j])
      PROVE  /\ CountIn(ss, i + 1, j) \in 1 .. Len(deltas)
             /\ deltas[CountIn(ss, i + 1, j)] = ss[j]
  <2>1. j \in i + 1 .. Len(ss)
    BY <1>4
  <2>2. QED
    BY <1>4, <2>1 DEF Placed
<1>5. Len(ss) \in i .. Len(ss)
  BY <1>1
<1>6. CASE ~Received(ss[i])
  <2>1. << >> \o deltas = deltas
    BY <1>2, ConcatEmptySeq
  <2>2. Len(deltas) = CountIn(ss, i, Len(ss))
    <3>1. /\ CountIn(ss, i, Len(ss)) = 0 + CountIn(ss, i + 1, Len(ss))
          /\ CountIn(ss, i + 1, Len(ss)) \in Nat
      BY <1>3, <1>5, <1>6
    <3>2. QED
      BY <1>2, <3>1
  <2>3. ASSUME NEW j \in i .. Len(ss), Received(ss[j])
        PROVE  CountIn(ss, i, j) \in 1 .. Len(deltas) /\ deltas[CountIn(ss, i, j)] = ss[j]
    <3>1. i # j
      BY <1>6, <2>3
    <3>2. CountIn(ss, i, j) = CountIn(ss, i + 1, j)
      BY <1>3, <1>6
    <3>3. QED
      BY <1>4, <2>3, <3>1, <3>2
  <2>4. Placed(deltas, ss, i)
    BY <1>2, <2>2, <2>3 DEF Placed
  <2>5. QED
    BY <1>6, <2>1, <2>4
<1>7. CASE Received(ss[i])
  <2> DEFINE all == <<ss[i]>> \o deltas
  <2>1. <<ss[i]>> \in Seq(Statuses) /\ Len(<<ss[i]>>) = 1 /\ <<ss[i]>>[1] = ss[i]
    BY <1>1
  <2>2. /\ all \in Seq(Statuses) /\ Len(all) = 1 + Len(deltas)
        /\ \A k \in 1 .. 1 + Len(deltas) :
              all[k] = IF k <= 1 THEN <<ss[i]>>[k] ELSE deltas[k - 1]
    BY <1>2, <2>1, ConcatProperties
  <2> HIDE DEF all
  <2>3. Len(all) = CountIn(ss, i, Len(ss))
    BY <1>2, <1>3, <1>5, <1>7, <2>2
  <2>4. ASSUME NEW j \in i .. Len(ss), Received(ss[j])
        PROVE  CountIn(ss, i, j) \in 1 .. Len(all) /\ all[CountIn(ss, i, j)] = ss[j]
    <3>1. CountIn(ss, i, j) = 1 + CountIn(ss, i + 1, j) /\ CountIn(ss, i + 1, j) \in Nat
      BY <1>3, <1>7
    <3>2. CASE i = j
      <4>1. CountIn(ss, i, j) = 1
        BY <1>3, <3>1, <3>2
      <4>2. 1 \in 1 .. 1 + Len(deltas) /\ all[1] = ss[i]
        BY <1>2, <2>1, <2>2
      <4>3. QED
        BY <2>2, <3>2, <4>1, <4>2
    <3>3. CASE i # j
      <4> DEFINE k == CountIn(ss, i + 1, j)
      <4>1. k \in 1 .. Len(deltas) /\ deltas[k] = ss[j]
        BY <1>4, <2>4, <3>3
      <4> HIDE DEF k
      <4>2. 1 + k \in 1 .. 1 + Len(deltas) /\ ~(1 + k <= 1) /\ (1 + k) - 1 = k
        BY <1>2, <4>1
      <4>3. all[1 + k] = deltas[k]
        BY <2>2, <4>2
      <4>4. QED
        BY <2>2, <3>1, <4>1, <4>2, <4>3 DEF k
    <3>4. QED
      BY <3>2, <3>3
  <2>5. Placed(all, ss, i)
    BY <2>2, <2>3, <2>4 DEF Placed
  <2>6. QED
    BY <1>7, <2>5 DEF all
<1>8. QED
  BY <1>6, <1>7

(* The deltas of a message. *)
LEMMA DeltasPlaced ==
  ASSUME NEW ss \in Seq(Statuses)
  PROVE  Placed(Deltas(ss), ss, 1)
<1> DEFINE n      == Len(ss)
           pieces == [i \in 1 .. n |-> IF Received(ss[i]) THEN <<ss[i]>> ELSE << >>]
<1>1. n \in Nat /\ \A i \in 1 .. n : ss[i] \in Statuses
  BY LenProperties, ElementOfSeq
<1>2. pieces \in Seq(Seq(Statuses)) /\ Len(pieces) = n
  <2>1. \A i \in 1 .. n : <<ss[i]>> \in Seq(Statuses)
    BY <1>1
  <2>2. << >> \in Seq(Statuses)
    BY EmptySeq
  <2>3. pieces \in [1 .. n -> Seq(Statuses)]
    BY <2>1, <2>2
  <2> HIDE DEF pieces
  <2>4. pieces \in Seq(Seq(Statuses))
    BY <1>1, <2>3, SeqDef
  <2>5. QED
    BY <1>1, <2>3, <2>4, LenProperties
<1>3. \A i \in 1 .. n : pieces[i] = IF Received(ss[i]) THEN <<ss[i]>> ELSE << >>
  OBVIOUS
<1>4. Deltas(ss) = Flat(pieces)
  BY DEF Deltas
<1> HIDE DEF pieces
<1>5. PICK from :
        /\ Flat(pieces) = from[1] /\ from[Len(pieces) + 1] = << >>
        /\ \A i \in 1 .. Len(pieces) : from[i] = pieces[i] \o from[i + 1]
        /\ \A i \in 1 .. Len(pieces) + 1 : from[i] \in Seq(Statuses)
  BY <1>2, FlatProperty
<1>6. /\ from[n + 1] = << >>
      /\ \A i \in 1 .. n :
           from[i] = (IF Received(ss[i]) THEN <<ss[i]>> ELSE << >>) \o from[i + 1]
  <2>1. ASSUME NEW i \in 1 .. n
        PROVE  from[i] = (IF Received(ss[i]) THEN <<ss[i]>> ELSE << >>) \o from[i + 1]
    <3>1. from[i] = pieces[i] \o from[i + 1]
      BY <1>2, <1>5
    <3>2. QED
      BY <1>3, <3>1
  <2>2. QED
    BY <1>2, <1>5, <2>1
<1> DEFINE T == {i \in 1 .. n + 1 : Placed(from[i], ss, i)}
<1>7. ASSUME NEW i \in 1 .. n + 1, \A j \in i + 1 .. n + 1 : j \in T
      PROVE  Placed(from[i], ss, i)
  <2>1. CASE i = n + 1
    <3>1. << >> \in Seq(Statuses) /\ Len(<< >>) = 0
      BY EmptySeq
    <3>2. n + 1 > n /\ n + 1 \in Int
      BY <1>1
    <3>3. CountIn(ss, n + 1, n) = 0
      BY <1>1, <3>2, CountFirst
    <3>4. \A j \in n + 1 .. n : FALSE
      BY <1>1
    <3>5. Placed(<< >>, ss, n + 1)
      BY <3>1, <3>3, <3>4 DEF Placed
    <3>6. QED
      BY <1>6, <2>1, <3>5
  <2>2. CASE i # n + 1
    <3>1. i \in 1 .. n /\ i + 1 \in i + 1 .. n + 1
      BY <1>1, <2>2
    <3>2. Placed(from[i + 1], ss, i + 1)
      BY <1>7, <3>1
    <3>3. QED
      BY <1>6, <3>1, <3>2, OneMorePlaced
  <2>3. QED
    BY <2>1, <2>2
<1>8. \A i \in 1 .. n + 1 : (\A j \in i + 1 .. n + 1 : j \in T) => i \in T
  BY <1>7
<1>9. 1 \in 1 .. n + 1
  BY <1>1
<1>10. 1 \in T
  <2> HIDE DEF T, n
  <2>1. QED
    BY <1>1, <1>8, <1>9, Downwards
<1>11. QED
  BY <1>4, <1>5, <1>10

(***************************************************************************)
(* A message whose chunks fit is read as it was written: getPacketChunkList*)
(* gives back each status that create was called with, symbol and delta,   *)
(* whatever runs and vectors they were packed into.                        *)
(***************************************************************************)
Plain(ss) == \A i \in 1 .. Len(ss) : ~Received(ss[i]) => ss[i].delta = 0

THEOREM ReadsWhatIsWritten ==
  ASSUME NEW ss \in Seq(Statuses), Plain(ss), AreFit(Chunks(ss)),
         NEW base, NEW refTime, NEW count
  PROVE  ReadFci(CreateFci(base, refTime, count, ss)) = ss
<1> DEFINE fci     == CreateFci(base, refTime, count, ss)
           n       == Len(ss)
           symbols == ReadSymbols(fci)
           deltas  == Deltas(ss)
           place(i) == Cardinality({j \in 1 .. i : symbols[j] # NotReceived})
<1>1. n \in Nat /\ \A i \in 1 .. n : ss[i] \in Statuses
  BY LenProperties, ElementOfSeq
<1>2. fci.count = n /\ fci.chunks = Chunks(ss) /\ fci.deltas = deltas
  BY DEF CreateFci
<1> HIDE DEF fci
<1>3. Len(symbols) >= n /\ \A i \in 1 .. n : symbols[i] = ss[i].symbol
  <2>1. Read(Chunks(ss)) = symbols
    BY <1>2 DEF Read, ReadSymbols
  <2>2. Tells(Chunks(ss), ss, 1)
    BY ChunksTell
  <2>3. Len(ss) - 1 + 1 = n /\ \A j \in 1 .. n : 1 + j - 1 = j
    BY <1>1
  <2> HIDE DEF symbols
  <2>4. /\ Len(symbols) >= Len(ss) - 1 + 1
        /\ \A j \in 1 .. Len(ss) - 1 + 1 : symbols[j] = ss[1 + j - 1].symbol
    BY <2>1, <2>2 DEF Tells
  <2>5. ASSUME NEW j \in 1 .. n PROVE symbols[j] = ss[j].symbol
    <3>1. j \in 1 .. Len(ss) - 1 + 1 /\ 1 + j - 1 = j
      BY <1>1, <2>3
    <3>2. QED
      BY <2>4, <3>1
  <2>6. QED
    BY <1>1, <2>3, <2>4, <2>5
<1> HIDE DEF symbols, deltas
<1>4. \A i \in 1 .. n : symbols[i] # NotReceived <=> Received(ss[i])
  BY <1>3 DEF Received
<1>5. ASSUME NEW i \in 0 .. n PROVE place(i) = CountIn(ss, 1, i)
  <2>1. 1 .. i \subseteq 1 .. n
    BY <1>1
  <2>2. {j \in 1 .. i : symbols[j] # NotReceived} = {j \in 1 .. i : Received(ss[j])}
    BY <1>4, <2>1
  <2>3. QED
    BY <2>2 DEF CountIn
<1>6. /\ deltas \in Seq(Statuses) /\ Len(deltas) = CountIn(ss, 1, n)
      /\ \A j \in 1 .. n : Received(ss[j]) => deltas[CountIn(ss, 1, j)] = ss[j]
  BY DeltasPlaced DEF Placed, deltas
<1>7. place(n) = Len(deltas)
  <2>1. n \in 0 .. n
    BY <1>1
  <2> HIDE DEF place
  <2>2. QED
    BY <1>5, <1>6, <2>1
<1>8. \A i \in 1 .. n : Received(ss[i]) => deltas[place(i)] = ss[i]
  <2>1. \A i \in 1 .. n : i \in 0 .. n
    BY <1>1
  <2> HIDE DEF place
  <2>2. QED
    BY <1>5, <1>6, <2>1
<1>9. \A i \in {j \in 1 .. n : symbols[j] # NotReceived} : deltas[place(i)].symbol = symbols[i]
  <2> HIDE DEF place
  <2>1. QED
    BY <1>3, <1>4, <1>8
<1>10. ReadFci(fci) = [i \in 1 .. n |->
          IF symbols[i] = NotReceived THEN Status(NotReceived, 0) ELSE deltas[place(i)]]
  <2>1. ReadFci(fci) =
          IF \/ Len(symbols) < n \/ place(n) # Len(deltas)
             \/ \E i \in {j \in 1 .. n : symbols[j] # NotReceived} :
                  deltas[place(i)].symbol # symbols[i]
          THEN Garbled
          ELSE [i \in 1 .. n |->
                  IF symbols[i] = NotReceived THEN Status(NotReceived, 0) ELSE deltas[place(i)]]
    BY <1>2, Zenon DEF ReadFci, symbols
  <2>2. ~(Len(symbols) < n)
    <3>1. Len(symbols) \in Nat
      <4>1. Read(Chunks(ss)) \in Seq(Symbols) /\ symbols = Read(Chunks(ss))
        BY <1>2, ChunksTell DEF Tells, Read, ReadSymbols, symbols
      <4>2. QED
        BY <4>1, LenProperties
    <3>2. QED
      BY <1>1, <1>3, <3>1
  <2> HIDE DEF place
  <2>3. QED
    BY <1>7, <1>9, <2>1, <2>2
<1>11. ASSUME NEW i \in 1 .. n
       PROVE  (IF symbols[i] = NotReceived THEN Status(NotReceived, 0) ELSE deltas[place(i)])
                = ss[i]
  <2> HIDE DEF place
  <2>1. CASE Received(ss[i])
    BY <1>4, <1>8, <2>1
  <2>2. CASE ~Received(ss[i])
    <3>1. ss[i].symbol = NotReceived /\ ss[i].delta = 0 /\ symbols[i] = NotReceived
      BY <1>4, <2>2 DEF Plain, Received
    <3>2. ss[i] \in Statuses
      BY <1>1
    <3>3. ss[i] = [symbol |-> NotReceived, delta |-> 0]
      BY <3>1, <3>2 DEF Statuses
    <3>4. QED
      BY <3>1, <3>3 DEF Status
  <2>3. QED
    BY <2>1, <2>2
<1>12. ss = [i \in 1 .. n |-> ss[i]]
  <2>1. ss \in [1 .. n -> Statuses]
    BY LenProperties
  <2>2. QED
    BY <2>1
<1> HIDE DEF place
<1>13. ReadFci(fci) = [i \in 1 .. n |-> ss[i]]
  BY <1>10, <1>11, Zenon
<1>14. QED
  BY <1>12, <1>13 DEF fci

-----------------------------------------------------------------------------
(* What a message says of the packets it was made from                     *)

(* A status to send: numbers, with times from low on and up to now.        *)
Sendable(status, low) ==
  /\ DOMAIN status \subseteq 0 .. SeqMod - 1 /\ DOMAIN status # {}
  /\ \A s \in DOMAIN status : status[s] \in Nat /\ low <= status[s] /\ status[s] <= now
OneLap(status) == \A s, t \in DOMAIN status : s >= Start <=> t >= Start
NotedIn(status) == {[packet |-> PacketOf(s), time |-> status[s]] : s \in DOMAIN status}

(* Its first and last numbers. *)
LEMMA Ends ==
  ASSUME NEW status, NEW low, Sendable(status, low)
  PROVE  /\ FirstSeq(status) \in DOMAIN status /\ LastSeq(status) \in DOMAIN status
         /\ FirstSeq(status) \in Nat /\ LastSeq(status) \in Nat
         /\ \A s \in DOMAIN status :
              s \in Nat /\ FirstSeq(status) <= s /\ s <= LastSeq(status)
<1>1. SeqMod - 1 \in Nat
  BY TwccAssumption
<1>2. DOMAIN status \in SUBSET (0 .. SeqMod - 1) /\ DOMAIN status \in SUBSET Nat
  BY <1>1 DEF Sendable
<1>3. DOMAIN status # {}
  BY DEF Sendable
<1>4. FirstSeq(status) \in DOMAIN status /\ \A y \in DOMAIN status : FirstSeq(status) <= y
  BY <1>2, <1>3, MinExists DEF FirstSeq
<1>5. LastSeq(status) \in DOMAIN status /\ \A y \in DOMAIN status : y <= LastSeq(status)
  BY <1>1, <1>2, <1>3, MaxExists DEF LastSeq
<1>6. QED
  BY <1>2, <1>4, <1>5

(* Division by a number that is not zero. *)
LEMMA Division ==
  ASSUME NEW t \in Nat, NEW k \in Nat \ {0}, NEW q \in Int, q = t \div k
  PROVE  q * k <= t /\ t < q * k + k /\ q * k \in Nat
OBVIOUS

(* The reference time is no more than a tick before the first time. *)
LEMMA RefProperty ==
  ASSUME NEW t \in Nat
  PROVE  LET ref == (t \div RefTick) * RefTick
         IN  ref \in Nat /\ ref <= t /\ t - ref < RefTick
<1>1. RefTick \in Nat \ {0}
  BY TwccAssumption
<1>2. PICK q \in Int : q = t \div RefTick
  BY <1>1
<1>3. q * RefTick <= t /\ t < q * RefTick + RefTick /\ q * RefTick \in Nat
  BY <1>1, <1>2, Division
<1>4. t - q * RefTick < RefTick
  BY <1>1, <1>3
<1>5. QED
  BY <1>2, <1>3, <1>4

(* The time a delta counts from, number by number. *)
LEMMA LastTimeFirst ==
  ASSUME NEW status, NEW low, Sendable(status, low)
  PROVE  /\ LastTime(status, FirstSeq(status)) = RefTime(status) * RefTick
         /\ RefTime(status) * RefTick \in Nat
         /\ LET delta == status[FirstSeq(status)] - RefTime(status) * RefTick
            IN  0 <= delta /\ delta < RefTick
<1>1. {s \in DOMAIN status : s < FirstSeq(status)} = {}
  BY Ends
<1>2. LastTime(status, FirstSeq(status)) = RefTime(status) * RefTick
  BY <1>1 DEF LastTime
<1>3. status[FirstSeq(status)] \in Nat
  BY Ends DEF Sendable
<1> DEFINE ref == RefTime(status) * RefTick
<1>4. ref \in Nat /\ ref <= status[FirstSeq(status)] /\ status[FirstSeq(status)] - ref < RefTick
  BY <1>3, RefProperty DEF RefTime
<1> HIDE DEF ref
<1>5. 0 <= status[FirstSeq(status)] - ref
  BY <1>3, <1>4
<1>6. QED
  BY <1>2, <1>4, <1>5 DEF ref

LEMMA LastTimeNext ==
  ASSUME NEW status, NEW low, Sendable(status, low), NEW s \in Nat
  PROVE  LastTime(status, s + 1) = IF s \in DOMAIN status THEN status[s] ELSE LastTime(status, s)
<1> DEFINE below(x) == {r \in DOMAIN status : r < x}
<1>1. \A r \in DOMAIN status : r \in Nat
  BY Ends
<1>2. CASE s \in DOMAIN status
  <2>1. s \in below(s + 1) /\ below(s + 1) \in SUBSET Int /\ \A y \in below(s + 1) : y <= s
    BY <1>1, <1>2
  <2>2. Max(below(s + 1)) = s /\ below(s + 1) # {}
    <3> HIDE DEF below
    <3>1. QED
      BY <2>1, MaxProperty
  <2>3. LastTime(status, s + 1) =
          IF below(s + 1) = {} THEN RefTime(status) * RefTick ELSE status[Max(below(s + 1))]
    BY DEF LastTime
  <2> HIDE DEF below
  <2>4. QED
    BY <1>2, <2>2, <2>3
<1>3. CASE s \notin DOMAIN status
  <2>1. {r \in DOMAIN status : r < s + 1} = {r \in DOMAIN status : r < s}
    BY <1>1, <1>3
  <2>2. QED
    BY <1>3, <2>1 DEF LastTime
<1>4. QED
  BY <1>2, <1>3

(* Past the first number it is the time of one of the numbers. *)
LEMMA LastTimeIsATime ==
  ASSUME NEW status, NEW low, Sendable(status, low),
         NEW s \in Nat, s > FirstSeq(status)
  PROVE  \E r \in DOMAIN status : LastTime(status, s) = status[r]
<1> DEFINE before == {r \in DOMAIN status : r < s}
<1>1. before \in SUBSET (0 .. s) /\ FirstSeq(status) \in before
  BY Ends
<1>2. Max(before) \in before /\ before # {}
  <2> HIDE DEF before
  <2>1. QED
    BY <1>1, MaxExists
<1>3. LastTime(status, s) = status[Max(before)]
  BY <1>2 DEF LastTime
<1>4. QED
  BY <1>2, <1>3

(* A delta that is not too long is not cut. *)
LEMMA CutFits ==
  ASSUME NEW delta \in Int, -(DeltaMod \div 2) <= delta, delta < DeltaMod \div 2
  PROVE  Cut(delta) = delta
<1>1. PICK mod \in Nat \ {0} : mod = DeltaMod
  BY TwccAssumption
<1>2. PICK half \in Nat : half = mod \div 2
  OBVIOUS
<1>3. half + half <= mod
  BY <1>2
<1>4. PICK x \in Int : x = delta + half
  OBVIOUS
<1>5. 0 <= x /\ x < mod
  BY <1>1, <1>2, <1>3, <1>4
<1>6. x % mod = x
  BY <1>5
<1>7. Cut(delta) = (x % mod) - half
  BY <1>1, <1>2, <1>4 DEF Cut
<1>8. QED
  BY <1>4, <1>6, <1>7

(* The deltas that are sent soon enough are the times between arrivals. *)
LEMMA StatusOfProperty ==
  ASSUME NEW status, NEW low \in Nat, Sendable(status, low), now \in Nat,
         now - low < DeltaMod \div 2, NEW s \in Nat, FirstSeq(status) <= s
  PROVE  /\ StatusOf(status, s) \in Statuses
         /\ Received(StatusOf(status, s)) <=> s \in DOMAIN status
         /\ ~Received(StatusOf(status, s)) => StatusOf(status, s).delta = 0
         /\ s \in DOMAIN status =>
              StatusOf(status, s).delta = status[s] - LastTime(status, s)
         /\ LastTime(status, s) \in Int
<1>1. PICK half \in Nat : half = DeltaMod \div 2
  BY TwccAssumption
<1>2. RefTick \in Nat /\ RefTick <= half
  BY <1>1, TwccAssumption
<1>3. LastTime(status, s) \in Int
  <2>1. CASE s = FirstSeq(status)
    BY <2>1, LastTimeFirst
  <2>2. CASE s # FirstSeq(status)
    <3>1. s > FirstSeq(status)
      BY <2>2, Ends
    <3>2. PICK r \in DOMAIN status : LastTime(status, s) = status[r]
      BY <3>1, LastTimeIsATime
    <3>3. QED
      BY <3>2 DEF Sendable
  <2>3. QED
    BY <2>1, <2>2
<1>4. CASE s \notin DOMAIN status
  <2>1. StatusOf(status, s) = [symbol |-> NotReceived, delta |-> 0]
    BY <1>4 DEF StatusOf, Status
  <2>2. QED
    BY <1>3, <1>4, <2>1 DEF Statuses, Symbols, Received
<1>5. CASE s \in DOMAIN status
  <2> DEFINE delta == status[s] - LastTime(status, s)
  <2>1. status[s] \in Nat /\ low <= status[s] /\ status[s] <= now
    BY <1>5 DEF Sendable
  <2>2. delta \in Int /\ -half <= delta /\ delta < half
    <3>1. CASE s = FirstSeq(status)
      <4>1. 0 <= delta /\ delta < RefTick
        BY <3>1, LastTimeFirst
      <4>2. QED
        BY <1>2, <1>3, <2>1, <4>1
    <3>2. CASE s # FirstSeq(status)
      <4>1. s > FirstSeq(status)
        BY <3>2, Ends
      <4>2. PICK r \in DOMAIN status : LastTime(status, s) = status[r]
        BY <4>1, LastTimeIsATime
      <4>3. status[r] \in Nat /\ low <= status[r] /\ status[r] <= now
        BY DEF Sendable
      <4>4. now - low < half
        BY <1>1
      <4>5. QED
        BY <2>1, <4>2, <4>3, <4>4
    <3>3. QED
      BY <3>1, <3>2
  <2>3. Cut(delta) = delta
    BY <1>1, <2>2, CutFits
  <2>4. StatusOf(status, s) =
          [symbol |-> IF delta \in 0 .. SmallMax THEN SmallDelta ELSE LargeDelta, delta |-> delta]
    BY <1>5, <2>3 DEF StatusOf, Status
  <2> HIDE DEF delta
  <2>5. StatusOf(status, s) \in Statuses /\ Received(StatusOf(status, s))
        /\ StatusOf(status, s).delta = delta
    BY <2>2, <2>4 DEF Statuses, Symbols, Received, NotReceived, SmallDelta, LargeDelta
  <2>6. QED
    BY <1>3, <1>5, <2>5 DEF delta
<1>6. QED
  BY <1>4, <1>5

(* The statuses of a message are those of its numbers, from the first to   *)
(* the last one.                                                           *)
LEMMA TwccStatusProperty ==
  ASSUME NEW status, NEW low \in Nat, Sendable(status, low), now \in Nat,
         now - low < DeltaMod \div 2
  PROVE  LET ss == TwccStatus(status)
         IN  /\ ss \in Seq(Statuses) /\ Plain(ss)
             /\ Len(ss) = LastSeq(status) - FirstSeq(status) + 1
             /\ Len(ss) \in Nat
             /\ \A i \in 1 .. Len(ss) :
                  /\ ss[i] = StatusOf(status, FirstSeq(status) + i - 1)
                  /\ FirstSeq(status) + i - 1 \in Nat
                  /\ FirstSeq(status) <= FirstSeq(status) + i - 1
<1> DEFINE ss    == TwccStatus(status)
           first == FirstSeq(status)
           n     == LastSeq(status) - first + 1
<1>1. n \in Nat /\ first \in Nat
  BY Ends
<1>2. ss = [i \in 1 .. n |-> StatusOf(status, first + i - 1)]
  BY DEF TwccStatus
<1>3. ASSUME NEW i \in 1 .. n
      PROVE  /\ first + i - 1 \in Nat /\ first <= first + i - 1
             /\ StatusOf(status, first + i - 1) \in Statuses
             /\ ~Received(StatusOf(status, first + i - 1)) =>
                  StatusOf(status, first + i - 1).delta = 0
  <2>1. first + i - 1 \in Nat /\ first <= first + i - 1
    BY <1>1
  <2>2. QED
    BY <2>1, StatusOfProperty
<1> HIDE DEF ss, first, n
<1>4. ss \in [1 .. n -> Statuses]
  BY <1>2, <1>3
<1>5. ss \in Seq(Statuses)
  BY <1>1, <1>4, SeqDef
<1>6. Len(ss) = n
  BY <1>1, <1>4, <1>5, LenProperties
<1>7. \A i \in 1 .. n : ss[i] = StatusOf(status, first + i - 1)
  BY <1>2
<1>8. Plain(ss)
  BY <1>3, <1>6, <1>7 DEF Plain
<1>9. QED
  BY <1>1, <1>3, <1>5, <1>6, <1>7, <1>8 DEF ss, first, n

(* The times that a reader adds up are the times deltas count from.        *)
LEMMA TimesAddUp ==
  ASSUME NEW status, NEW low \in Nat, Sendable(status, low), now \in Nat,
         now - low < DeltaMod \div 2,
         NEW ss, ss = TwccStatus(status), NEW ref, ref = RefTime(status) * RefTick
  PROVE  LET time[i \in 0 .. Len(ss)] == IF i = 0 THEN ref ELSE time[i - 1] + ss[i].delta
         IN  \A i \in 0 .. Len(ss) : time[i] = LastTime(status, FirstSeq(status) + i)
<1> DEFINE n       == Len(ss)
           first   == FirstSeq(status)
           Adds(t) == t = [i \in 0 .. n |-> IF i = 0 THEN ref ELSE t[i - 1] + ss[i].delta]
           known   == [i \in 0 .. n |-> LastTime(status, first + i)]
           time    == CHOOSE t : Adds(t)
<1>1. /\ n \in Nat /\ first \in Nat
      /\ \A i \in 1 .. n : ss[i] = StatusOf(status, first + i - 1)
  BY TwccStatusProperty, Ends
<1>2. LastTime(status, first + 0) = ref
  <2>1. first + 0 = first
    BY <1>1
  <2>2. QED
    BY <2>1, LastTimeFirst
<1>3. ASSUME NEW i \in 1 .. n
      PROVE  LastTime(status, first + i) = LastTime(status, first + (i - 1)) + ss[i].delta
  <2> DEFINE s == first + (i - 1)
  <2>1. s \in Nat /\ first <= s /\ s = first + i - 1 /\ s + 1 = first + i
    BY <1>1
  <2> HIDE DEF s
  <2>2. ss[i] = StatusOf(status, s)
    BY <1>1, <2>1
  <2>3. /\ ~Received(StatusOf(status, s)) => StatusOf(status, s).delta = 0
        /\ Received(StatusOf(status, s)) <=> s \in DOMAIN status
        /\ s \in DOMAIN status =>
              StatusOf(status, s).delta = status[s] - LastTime(status, s)
        /\ LastTime(status, s) \in Int
    BY <2>1, StatusOfProperty
  <2>4. LastTime(status, s + 1) = IF s \in DOMAIN status THEN status[s] ELSE LastTime(status, s)
    BY <2>1, LastTimeNext
  <2>5. s \in DOMAIN status => status[s] \in Int
    BY DEF Sendable
  <2>6. LastTime(status, s + 1) = LastTime(status, s) + ss[i].delta
    BY <2>2, <2>3, <2>4, <2>5
  <2>7. QED
    BY <2>1, <2>6 DEF s
<1>4. Adds(known)
  <2>1. ASSUME NEW i \in 0 .. n
        PROVE  known[i] = IF i = 0 THEN ref ELSE known[i - 1] + ss[i].delta
    <3>1. CASE i = 0
      BY <1>2, <3>1
    <3>2. CASE i # 0
      <4>1. i \in 1 .. n /\ i - 1 \in 0 .. n
        BY <1>1, <3>2
      <4>2. known[i] = LastTime(status, first + i)
            /\ known[i - 1] = LastTime(status, first + (i - 1))
        BY <4>1
      <4>3. QED
        BY <1>3, <3>2, <4>1, <4>2
    <3>3. QED
      BY <3>1, <3>2
  <2>2. known = [i \in 0 .. n |-> known[i]]
    OBVIOUS
  <2> HIDE DEF known
  <2>3. known = [i \in 0 .. n |-> IF i = 0 THEN ref ELSE known[i - 1] + ss[i].delta]
    BY <2>1, <2>2, Zenon
  <2>4. QED
    BY <2>3
<1>5. Adds(time)
  <2> HIDE DEF Adds, known
  <2>1. QED
    BY <1>4
<1> HIDE DEF time
<1>6. \A i \in 0 .. n : time[i] = IF i = 0 THEN ref ELSE time[i - 1] + ss[i].delta
  BY <1>5
<1> DEFINE T == {i \in 0 .. n : time[i] = LastTime(status, first + i)}
<1>7. ASSUME NEW i \in 0 .. n, \A j \in 0 .. i - 1 : j \in T
      PROVE  time[i] = LastTime(status, first + i)
  <2>1. CASE i = 0
    BY <1>2, <1>6, <2>1
  <2>2. CASE i # 0
    <3>1. i \in 1 .. n /\ i - 1 \in 0 .. i - 1
      BY <1>1, <2>2
    <3>2. time[i - 1] = LastTime(status, first + (i - 1))
      BY <1>7, <3>1
    <3>3. QED
      BY <1>3, <1>6, <2>2, <3>1, <3>2
  <2>3. QED
    BY <2>1, <2>2
<1>8. \A i \in 0 .. n : (\A j \in 0 .. i - 1 : j \in T) => i \in T
  BY <1>7
<1>9. \A i \in 0 .. n : i \in T
  <2> HIDE DEF T, n
  <2>1. QED
    BY <1>1, <1>8, Upwards
<1>10. \A i \in 0 .. n : time[i] = LastTime(status, first + i)
  BY <1>9
<1>11. QED
  BY <1>10 DEF time

(* The packet of a number, without the modulus. *)
LEMMA PacketOfValue ==
  ASSUME NEW s \in 0 .. SeqMod - 1
  PROVE  PacketOf(s) = IF s >= Start THEN s - Start ELSE s - Start + SeqMod
<1>1. PICK mod \in Nat \ {0} : mod = SeqMod
  BY TwccAssumption
<1>2. PICK d \in Int : d = s - Start
  BY TwccAssumption
<1>3. -mod < d /\ d < mod
  BY <1>1, <1>2, TwccAssumption
<1>4. d % mod = IF d >= 0 THEN d ELSE d + mod
  BY <1>3
<1>5. QED
  BY <1>1, <1>2, <1>4, TwccAssumption DEF PacketOf

(* A message is read as the packets it was made from, with their times.    *)
LEMMA MessageTells ==
  ASSUME NEW status, NEW low \in Nat, Sendable(status, low), now \in Nat,
         now - low < DeltaMod \div 2, OneLap(status), AllFit(Fci(status))
  PROVE  Reported(Fci(status)) = NotedIn(status)
<1> DEFINE fci   == Fci(status)
           ss    == TwccStatus(status)
           first == FirstSeq(status)
           ref   == RefTime(status) * RefTick
           n     == Len(ss)
           time  == CHOOSE t : t = [i \in 0 .. n |-> IF i = 0 THEN ref ELSE t[i - 1] + ss[i].delta]
<1>1. /\ ss \in Seq(Statuses) /\ Plain(ss) /\ n = LastSeq(status) - first + 1 /\ n \in Nat
      /\ \A i \in 1 .. n : ss[i] = StatusOf(status, first + i - 1)
  BY TwccStatusProperty
<1>2. /\ first \in DOMAIN status /\ first \in Nat /\ LastSeq(status) \in Nat
      /\ \A s \in DOMAIN status : s \in Nat /\ first <= s /\ s <= LastSeq(status)
  BY Ends
<1>3. fci = CreateFci(first, RefTime(status), pktCount, ss)
  BY DEF Fci
<1>4. fci.base = first /\ fci.refTime * RefTick = ref /\ fci.chunks = Chunks(ss)
  BY <1>3 DEF CreateFci
<1>5. AreFit(Chunks(ss))
  BY <1>4 DEF AllFit, AreFit
<1> HIDE DEF ss, first
<1>6. ReadFci(fci) = ss
  BY <1>1, <1>3, <1>5, ReadsWhatIsWritten
<1>7. \A i \in 0 .. n : time[i] = LastTime(status, first + i)
  BY TimesAddUp DEF ss, first
<1> HIDE DEF fci, ref
<1>8. Reported(fci) = {[packet |-> PacketOf(first) + i - 1, time |-> time[i]] :
                         i \in {j \in 1 .. n : Received(ss[j])}}
  BY <1>4, <1>6, ZenonT(30) DEF Reported
<1> HIDE DEF time
<1>9. ASSUME NEW i \in 1 .. n
      PROVE  LET s == first + i - 1
             IN  /\ Received(ss[i]) <=> s \in DOMAIN status
                 /\ s \in DOMAIN status =>
                      /\ time[i] = status[s] /\ PacketOf(first) + i - 1 = PacketOf(s)
  <2> DEFINE s == first + i - 1
  <2>1. s \in Nat /\ first <= s /\ s + 1 = first + i /\ i \in 0 .. n
    BY <1>1, <1>2
  <2>2. Received(ss[i]) <=> s \in DOMAIN status
    BY <1>1, <2>1, StatusOfProperty DEF first
  <2>3. ASSUME s \in DOMAIN status PROVE time[i] = status[s]
    <3>1. LastTime(status, s + 1) = status[s]
      BY <2>1, <2>3, LastTimeNext
    <3>2. time[i] = LastTime(status, first + i)
      BY <1>7, <2>1
    <3>3. QED
      BY <2>1, <3>1, <3>2
  <2>4. ASSUME s \in DOMAIN status PROVE PacketOf(first) + i - 1 = PacketOf(s)
    <3>1. /\ PacketOf(first) = IF first >= Start THEN first - Start ELSE first - Start + SeqMod
          /\ PacketOf(s) = IF s >= Start THEN s - Start ELSE s - Start + SeqMod
      BY <1>2, <2>4, PacketOfValue DEF Sendable
    <3>2. s >= Start <=> first >= Start
      BY <1>2, <2>4 DEF OneLap
    <3>3. Start \in Int /\ SeqMod \in Int
      BY TwccAssumption
    <3>4. QED
      BY <1>2, <2>1, <3>1, <3>2, <3>3
  <2>5. QED
    BY <2>2, <2>3, <2>4
<1>10. \A x \in Reported(fci) : x \in NotedIn(status)
  <2>1. ASSUME NEW i \in 1 .. n, Received(ss[i])
        PROVE  [packet |-> PacketOf(first) + i - 1, time |-> time[i]] \in NotedIn(status)
    BY <1>9, <2>1 DEF NotedIn
  <2>2. QED
    BY <1>8, <2>1
<1>11. \A x \in NotedIn(status) : x \in Reported(fci)
  <2>1. ASSUME NEW s \in DOMAIN status
        PROVE  [packet |-> PacketOf(s), time |-> status[s]] \in Reported(fci)
    <3>1. s - first + 1 \in 1 .. n
      BY <1>1, <1>2
    <3>2. PICK i \in 1 .. n : i = s - first + 1
      BY <3>1
    <3>3. first + i - 1 = s
      BY <1>2, <3>2
    <3>4. /\ Received(ss[i]) /\ time[i] = status[s]
          /\ PacketOf(first) + i - 1 = PacketOf(s)
      BY <1>9, <3>3
    <3>5. QED
      BY <1>8, <3>4
  <2>2. QED
    BY <2>1 DEF NotedIn
<1>12. QED
  BY <1>10, <1>11 DEF fci

-----------------------------------------------------------------------------
(* What is noted is what will be reported                                  *)

(* The packets noted since the last message are those that wait, and they  *)
(* are all on one side of the wrap.                                        *)
Told == unreported = NotedIn(recvStatus) /\ OneLap(recvStatus)

LEMMA NotedInNothing == NotedIn(NoStatus) = {} /\ OneLap(NoStatus)
<1>1. DOMAIN NoStatus = {}
  BY DEF NoStatus
<1>2. QED
  BY <1>1 DEF NotedIn, OneLap

(* The packet of the number of a packet is that packet. *)
LEMMA PacketOfSeqOf ==
  ASSUME NEW packet \in 0 .. LastPacket
  PROVE  PacketOf(SeqOf(packet)) = packet /\ SeqOf(packet) \in 0 .. SeqMod - 1
<1>1. /\ SeqMod \in Nat /\ Start \in 0 .. SeqMod - 1 /\ LastPacket \in 0 .. SeqMod - 1
  BY TwccAssumption
<1>2. SeqOf(packet) = IF Start + packet < SeqMod THEN Start + packet ELSE Start + packet - SeqMod
  BY SeqOfValue
<1>3. SeqOf(packet) \in 0 .. SeqMod - 1
  BY <1>1, <1>2
<1>4. PacketOf(SeqOf(packet)) =
        IF SeqOf(packet) >= Start THEN SeqOf(packet) - Start ELSE SeqOf(packet) - Start + SeqMod
  BY <1>3, PacketOfValue
<1>5. QED
  BY <1>1, <1>2, <1>3, <1>4

(* One more packet is noted. *)
LEMMA NotedInOneMore ==
  ASSUME NEW status, NEW packet \in 0 .. LastPacket, SeqOf(packet) \notin DOMAIN status
  PROVE  NotedIn(Note(status, SeqOf(packet))) = NotedIn(status) \union {Noted(packet)}
<1> DEFINE seq   == SeqOf(packet)
           noted == Note(status, seq)
<1>1. /\ DOMAIN noted = DOMAIN status \union {seq} /\ noted[seq] = now
      /\ \A s \in DOMAIN status : noted[s] = status[s]
  BY DEF Note
<1>2. Noted(packet) = [packet |-> PacketOf(seq), time |-> now]
  BY PacketOfSeqOf DEF Noted
<1> HIDE DEF noted, seq
<1>3. \A x \in NotedIn(noted) : x \in NotedIn(status) \union {Noted(packet)}
  <2>1. ASSUME NEW s \in DOMAIN noted
        PROVE  [packet |-> PacketOf(s), time |-> noted[s]] \in NotedIn(status) \union {Noted(packet)}
    BY <1>1, <1>2 DEF NotedIn
  <2>2. QED
    BY <2>1 DEF NotedIn
<1>4. \A x \in NotedIn(status) : x \in NotedIn(noted)
  <2>1. ASSUME NEW s \in DOMAIN status
        PROVE  [packet |-> PacketOf(s), time |-> status[s]] \in NotedIn(noted)
    BY <1>1 DEF NotedIn
  <2>2. QED
    BY <2>1 DEF NotedIn
<1>5. Noted(packet) \in NotedIn(noted)
  BY <1>1, <1>2 DEF NotedIn
<1>6. QED
  BY <1>3, <1>4, <1>5 DEF noted, seq

(* A number that is told from a wrap is on the side of those that wait. *)
LEMMA SameLap ==
  ASSUME NEW packet \in 0 .. LastPacket, NEW last \in 0 .. LastPacket,
         SeqOf(packet) - SeqOf(last) = packet - last
  PROVE  SeqOf(packet) >= Start <=> SeqOf(last) >= Start
<1>1. SeqMod \in Nat /\ Start \in 0 .. SeqMod - 1 /\ LastPacket \in 0 .. SeqMod - 1
      /\ SeqMod > 0
  BY TwccAssumption
<1>2. /\ SeqOf(packet) = IF Start + packet < SeqMod THEN Start + packet ELSE Start + packet - SeqMod
      /\ SeqOf(last) = IF Start + last < SeqMod THEN Start + last ELSE Start + last - SeqMod
  BY SeqOfValue
<1>3. QED
  BY <1>1, <1>2

(* What arrives is ignored, noted on the same side of the wrap, or past it. *)
LEMMA WhatArrives ==
  ASSUME IInv, Place, Told, NEW packet \in 0 .. LastPacket, NEW pause \in Pauses,
         Arrive(packet, pause)
  PROVE  LET seq == SeqOf(packet)
         IN  \/ Ignore
             \/ /\ OnRtpNormal(seq) /\ seq \notin DOMAIN recvStatus
                /\ OneLap(Note(recvStatus, seq))
             \/ OnRtpLooped(seq) /\ DOMAIN recvStatus # {}
<1> DEFINE seq == SeqOf(packet)
<1>1. /\ {SeqMod, Start, Wrap, MaxLate, MaxLost, LastPacket} \subseteq Nat
      /\ MaxLate + MaxLost + 1 <= Wrap /\ Wrap + MaxLate + MaxLost + 1 < SeqMod
  BY TwccAssumption
<1>2. /\ newest \in Int /\ -1 <= newest /\ newest <= LastPacket
      /\ packet >= newest - MaxLate /\ packet <= newest + 1 + MaxLost
  BY <1>1 DEF Place, Arrive
<1>3. seq \in 0 .. SeqMod - 1 /\ DOMAIN recvStatus \subseteq 0 .. SeqMod - 1
  BY PacketOfSeqOf DEF IInv, Waits
<1>4. DOMAIN Note(recvStatus, seq) = DOMAIN recvStatus \union {seq}
  BY DEF Note
<1>5. CASE DOMAIN recvStatus = {}
  <2>1. OnRtpNormal(seq)
    BY <1>5 DEF Arrive, OnRtp, CheckSeqStatus
  <2>2. OneLap(Note(recvStatus, seq))
    BY <1>4, <1>5 DEF OneLap
  <2>3. QED
    BY <1>5, <2>1, <2>2
<1>6. CASE DOMAIN recvStatus # {}
  <2>1. PICK last \in 0 .. LastPacket : IsLast(recvStatus, last) /\ Near(last, newest)
    BY <1>6 DEF Place, Follows
  <2>2. newest \in 0 .. LastPacket
    BY <1>1, <1>2, <2>1 DEF Near
  <2>3. LastSeq(recvStatus) = SeqOf(last) /\ SeqOf(last) \in 0 .. SeqMod - 1
    BY <1>3, <2>1, LastSeqValue
  <2> DEFINE delta == seq - SeqOf(last)
  <2>4. \/ delta = packet - last /\ -Wrap <= delta /\ delta <= Wrap
        \/ delta < -Wrap /\ packet > last
        \/ delta > Wrap /\ packet < last
    BY <1>1, <1>2, <2>1, <2>2, StepIsTold
  <2>5. CASE delta = packet - last /\ -Wrap <= delta /\ delta <= Wrap
    <3>1. CheckSeqStatus(seq) = "normal"
      BY <1>1, <1>3, <1>6, <2>3, <2>5, StatusValue
    <3>2. Ignore \/ (OnRtpNormal(seq) /\ seq \notin DOMAIN recvStatus)
      BY <3>1 DEF Arrive, OnRtp
    <3>3. seq >= Start <=> SeqOf(last) >= Start
      BY <2>5, SameLap
    <3>4. \A s \in DOMAIN recvStatus : s >= Start <=> seq >= Start
      BY <2>1, <3>3 DEF Told, OneLap, IsLast
    <3>5. OneLap(Note(recvStatus, seq))
      <4> HIDE DEF seq
      <4>1. QED
        BY <1>4, <3>4 DEF OneLap
    <3>6. QED
      BY <3>2, <3>5
  <2>6. CASE delta < -Wrap /\ packet > last
    <3>1. CheckSeqStatus(seq) = "looped"
      BY <1>1, <1>3, <1>6, <2>3, <2>6, StatusValue
    <3>2. QED
      BY <1>6, <3>1 DEF Arrive, OnRtp
  <2>7. CASE delta > Wrap /\ packet < last
    <3>1. CheckSeqStatus(seq) = "jumped"
      BY <1>1, <1>3, <1>6, <2>3, <2>7, StatusValue
    <3>2. QED
      BY <3>1 DEF Arrive, OnRtp
  <2>8. QED
    BY <2>4, <2>5, <2>6, <2>7
<1>7. QED
  BY <1>5, <1>6

(* What MessagesTellTheTruth says of a step. *)
Truthful(sent, noted, also) ==
  \A i \in 1 .. Len(sent) :
    AllFit(sent[i]) /\ now - minStamp < DeltaMod \div 2 =>
      Reported(sent[i]) \in {noted, noted \union {also}}

(* A message made of what waits, or of that and one more. *)
LEMMA MessageIsTruthful ==
  ASSUME now \in Nat, minStamp \in Nat, NEW status, Sendable(status, minStamp),
         OneLap(status), NEW noted, NEW also,
         NotedIn(status) \in {noted, noted \union {also}}
  PROVE  Truthful(<<Fci(status)>>, noted, also)
<1>1. AllFit(Fci(status)) /\ now - minStamp < DeltaMod \div 2 =>
        Reported(Fci(status)) = NotedIn(status)
  BY MessageTells
<1> DEFINE fci == Fci(status)
<1> HIDE DEF fci
<1>2. Len(<<fci>>) = 1 /\ <<fci>>[1] = fci
  OBVIOUS
<1>3. QED
  BY <1>1, <1>2 DEF Truthful, fci

(* Every arrival keeps what is noted in step with what waits, and a message*)
(* says it.                                                                *)
LEMMA ArriveTells ==
  ASSUME IInv, Place, Told, NEW packet \in 0 .. LastPacket, NEW pause \in Pauses,
         Arrive(packet, pause)
  PROVE  Told' /\ Truthful(out', unreported, arrival')
<1> DEFINE seq == SeqOf(packet)
<1>1. /\ now \in Nat /\ minStamp \in Nat /\ minStamp <= now
      /\ Waits(recvStatus, minStamp) /\ seq \in 0 .. SeqMod - 1
  BY PacketOfSeqOf DEF IInv, Waits
<1>2. /\ unreported = NotedIn(recvStatus) /\ OneLap(recvStatus)
      /\ arrival' = Noted(packet)
      /\ unreported' = (IF out' = << >> THEN unreported ELSE {})
                         \union (IF Accepted /\ recvStatus' # NoStatus THEN {Noted(packet)} ELSE {})
  BY DEF Told, Arrive
<1>3. Told' <=> unreported' = NotedIn(recvStatus') /\ OneLap(recvStatus')
  BY DEF Told, NotedIn, OneLap, PacketOf
<1>4. Len(<< >>) = 0
  OBVIOUS
<1>5. CASE Ignore
  <2>1. out' = << >> /\ recvStatus' = recvStatus
    BY <1>5 DEF Ignore, contextVars
  <2>2. ~Accepted
    BY <2>1 DEF Accepted
  <2>3. unreported' = unreported
    BY <1>2, <2>1, <2>2
  <2>4. Truthful(out', unreported, arrival')
    BY <1>4, <2>1 DEF Truthful
  <2>5. QED
    BY <1>2, <1>3, <2>1, <2>3, <2>4
<1>6. CASE OnRtpLooped(seq) /\ DOMAIN recvStatus # {}
  <2>1. out' = <<Fci(recvStatus)>> /\ recvStatus' = Note(NoStatus, seq)
    BY <1>6 DEF OnRtpLooped, OnSendTwcc
  <2>2. DOMAIN Note(NoStatus, seq) = {seq} /\ DOMAIN NoStatus = {}
    BY DEF Note, NoStatus
  <2>3. unreported' = {Noted(packet)}
    <3>1. out' # << >> /\ recvStatus' # NoStatus
      BY <2>1, <2>2
    <3>2. Accepted
      BY <3>1 DEF Accepted
    <3>3. QED
      BY <1>2, <3>1, <3>2
  <2>4. NotedIn(Note(NoStatus, seq)) = {Noted(packet)}
    BY <2>2, NotedInNothing, NotedInOneMore
  <2>5. OneLap(Note(NoStatus, seq))
    BY <2>2 DEF OneLap
  <2>6. Sendable(recvStatus, minStamp)
    BY <1>1, <1>6 DEF Waits, WaitsSince, Sendable
  <2>7. Truthful(<<Fci(recvStatus)>>, unreported, Noted(packet))
    BY <1>1, <1>2, <2>6, MessageIsTruthful
  <2>8. QED
    BY <1>2, <1>3, <2>1, <2>3, <2>4, <2>5, <2>7
<1>7. CASE /\ OnRtpNormal(seq) /\ seq \notin DOMAIN recvStatus
           /\ OneLap(Note(recvStatus, seq))
  <2> DEFINE noted == Note(recvStatus, seq)
             min   == IF minStamp = 0 THEN now ELSE minStamp
  <2>1. NotedIn(noted) = unreported \union {Noted(packet)}
    BY <1>2, <1>7, NotedInOneMore
  <2>2. /\ DOMAIN noted = DOMAIN recvStatus \union {seq} /\ DOMAIN NoStatus = {}
        /\ \A s \in DOMAIN recvStatus : noted[s] = recvStatus[s]
        /\ noted[seq] = now
    BY <1>7 DEF Note, NoStatus
  <2>3. CASE NeedSendTwcc(noted, min)
    <3>1. out' = <<Fci(noted)>> /\ recvStatus' = NoStatus
      BY <1>7, <2>3 DEF OnRtpNormal, OnSendTwcc, ClearStatus
    <3>2. unreported' = {}
      <4>1. out' # << >>
        BY <3>1
      <4>2. QED
        BY <1>2, <3>1, <4>1
    <3> HIDE DEF noted
    <3>3. Sendable(noted, minStamp)
      BY <1>1, <2>2 DEF Waits, WaitsSince, Sendable
    <3>4. Truthful(<<Fci(noted)>>, unreported, Noted(packet))
      BY <1>1, <1>7, <2>1, <3>3, MessageIsTruthful DEF noted
    <3>5. QED
      BY <1>2, <1>3, <3>1, <3>2, <3>4, NotedInNothing
  <2>4. CASE ~NeedSendTwcc(noted, min)
    <3>1. out' = << >> /\ recvStatus' = noted
      BY <1>7, <2>4 DEF OnRtpNormal
    <3>2. recvStatus' # NoStatus /\ recvStatus' # recvStatus
      <4> HIDE DEF noted
      <4>1. QED
        BY <1>7, <2>2, <3>1
    <3>3. Accepted
      BY <3>2 DEF Accepted
    <3>4. unreported' = unreported \union {Noted(packet)}
      BY <1>2, <3>1, <3>2, <3>3
    <3>5. Truthful(out', unreported, arrival')
      BY <1>4, <3>1 DEF Truthful
    <3>6. QED
      BY <1>3, <1>7, <2>1, <3>1, <3>4, <3>5
  <2>5. QED
    BY <2>3, <2>4
<1>8. QED
  BY <1>5, <1>6, <1>7, WhatArrives

(***************************************************************************)
(* A message that fits tells the truth, for any numbers, limits, losses,   *)
(* late packets and copies: read back, it names the packets noted since    *)
(* the last one with their times of arrival, and no other (onSendTwcc,     *)
(* FCI_TWCC::create and getPacketChunkList together).                      *)
(***************************************************************************)
THEOREM MessagesAlwaysTellTheTruth == Spec => MessagesTellTheTruth
<1>1. Init => Place /\ Told
  <2>1. Init => Place
    BY TwccAssumption DEF Init, Place, Follows, NoStatus
  <2>2. Init => Told
    BY NotedInNothing DEF Init, Told
  <2>3. QED
    BY <2>1, <2>2
<1>2. IInv /\ Place /\ Told /\ [Next]_vars =>
        Place' /\ Told' /\ [Truthful(out', unreported, arrival')]_vars
  <2>1. ASSUME IInv, Place, Told, Next
        PROVE  Place' /\ Told' /\ Truthful(out', unreported, arrival')
    BY <2>1, ArriveKeepsPlace, ArriveTells DEF Next
  <2>2. ASSUME Place, Told, UNCHANGED vars PROVE Place' /\ Told' /\ UNCHANGED vars
    <3>1. Place'
      BY <2>2 DEF vars, contextVars, Place, Follows, IsLast, Near
    <3>2. Told'
      BY <2>2 DEF vars, contextVars, Told, NotedIn, OneLap, PacketOf
    <3>3. QED
      BY <2>2, <3>1, <3>2
  <2>3. QED
    BY <2>1, <2>2
<1>3. [Truthful(out', unreported, arrival')]_vars =>
        [\A i \in 1 .. Len(out') :
           AllFit(out'[i]) /\ now - minStamp < DeltaMod \div 2 =>
             Reported(out'[i]) \in {unreported, unreported \union {arrival'}}]_vars
  BY Zenon DEF Truthful
<1>4. QED
  BY <1>1, <1>2, <1>3, Inductive, PTL DEF Spec, MessagesTellTheTruth
================================================================================
