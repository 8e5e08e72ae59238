----------------------------- MODULE TwccContext -----------------------------
(***************************************************************************)
(* Transport-wide congestion feedback: TwccContext notes when each number  *)
(* of the transport-wide sequence arrived, over all tracks of the session, *)
(* and sends what it has noted when enough has come or enough time has     *)
(* passed.  Everything happens in onRtp: there is no timer.                *)
(*                                                                         *)
(* The sender numbers its packets one after the other; the network loses,  *)
(* delays and copies them.  A packet is known by its place in the stream,  *)
(* so that the wrap of its number can be told from a step back.            *)
(***************************************************************************)
EXTENDS TwccFci

CONSTANTS
  SeqMod,         \* 2^16 in the code
  Ahead,          \* how far a number may step ahead, 0xFFFF / 2 in the code
  Wrap,           \* a larger distance is a wrap, 0xFF00 in the code
  MaxSeqSize,     \* kMaxSeqSize
  MaxTimeDelta,   \* kMaxTimeDelta, in milliseconds
  RefTick,        \* milliseconds of one step of the reference time, 64
  SmallMax,       \* largest small delta in milliseconds, 63
  DeltaMod,       \* range of the delta in milliseconds, 2^14
  PktCountMod,    \* 2^8, values of _twcc_pkt_count
  Start,          \* the number of packet 0
  LastPacket,     \* bound: packets the sender sends
  MaxArrivals,    \* bound: arrivals, late ones and copies included
  MaxLate,        \* bound: places a packet may be late
  MaxLost,        \* bound: packets lost in a row
  Pauses          \* bound: milliseconds between two arrivals

ASSUME TwccAssumption ==
  /\ SeqMod \in Nat \ {0} /\ Start \in 0 .. SeqMod - 1 /\ LastPacket \in 0 .. SeqMod - 1
  /\ Ahead \in Nat /\ Wrap \in Nat /\ Ahead < Wrap /\ Wrap < SeqMod
  /\ MaxSeqSize > 1 /\ RefTick <= DeltaMod \div 2
  /\ {MaxSeqSize, MaxTimeDelta, RefTick, SmallMax, DeltaMod, PktCountMod} \subseteq Nat \ {0}
  /\ {MaxArrivals, MaxLate, MaxLost} \subseteq Nat /\ Pauses \subseteq Nat
  /\ MaxLate + MaxLost + 1 <= Wrap /\ Wrap + MaxLate + MaxLost + 1 < SeqMod

VARIABLES
  recvStatus,   \* _rtp_recv_status: number |-> time of arrival
  minStamp,     \* _min_stamp, 0 if nothing was noted
  pktCount,     \* _twcc_pkt_count
  now,          \* the clock
  newest,       \* newest packet that arrived, -1 if none
  arrivals,     \* packets that arrived, late ones and copies included
  unreported,   \* packets noted since the last message, with their times
  arrival,      \* the last packet that arrived, with its time
  out           \* messages sent by the last call

contextVars == <<recvStatus, minStamp, pktCount>>
vars == <<contextVars, now, newest, arrivals, unreported, arrival, out>>

SeqOf(packet) == (Start + packet) % SeqMod
PacketOf(seq) == (seq - Start) % SeqMod
Noted(packet) == [packet |-> packet, time |-> now]
FirstSeq(status) == Min(DOMAIN status)
LastSeq(status) == Max(DOMAIN status)

-----------------------------------------------------------------------------
(* The range test below it is always true: any other step is normal.       *)
CheckSeqStatusBackwards(seq) ==
  LET delta == seq - LastSeq(recvStatus)
  IN  IF DOMAIN recvStatus = {} THEN "normal"
      ELSE IF delta > Wrap THEN "looped" ELSE IF delta < -Wrap THEN "jumped" ELSE "normal"
CheckSeqStatus(seq) ==
  LET delta == seq - LastSeq(recvStatus)
  IN  IF DOMAIN recvStatus = {} \/ delta \in 1 .. Ahead - 1 THEN "normal"
      ELSE IF delta < -Wrap THEN "looped"
      ELSE IF delta > Wrap THEN "jumped"
      ELSE "normal"

NeedSendTwccNoSize(status, min) == now - min >= MaxTimeDelta
NeedSendTwcc(status, min) ==
  Cardinality(DOMAIN status) >= MaxSeqSize \/ now - min >= MaxTimeDelta

(* A delta is cut to 16 bits; its symbol is chosen after that. *)
Cut(delta) == ((delta + DeltaMod \div 2) % DeltaMod) - DeltaMod \div 2

(* A delta counts from the arrival of the number before, the first one     *)
(* from the reference time.                                                *)
RefTime(status) == status[FirstSeq(status)] \div RefTick
LastTimeFromRef(status, seq) == RefTime(status) * RefTick
LastTime(status, seq) ==
  LET before == {s \in DOMAIN status : s < seq}
  IN  IF before = {} THEN RefTime(status) * RefTick ELSE status[Max(before)]

StatusOf(status, seq) ==
  LET delta == Cut(status[seq] - LastTime(status, seq))
  IN  IF seq \notin DOMAIN status THEN Status(NotReceived, 0)
      ELSE Status(IF delta \in 0 .. SmallMax THEN SmallDelta ELSE LargeDelta, delta)

TwccStatus(status) ==
  [i \in 1 .. LastSeq(status) - FirstSeq(status) + 1 |-> StatusOf(status, FirstSeq(status) + i - 1)]

(* The wrap of the 24-bit reference time, every twelve days, is left out. *)
Fci(status) ==
  CreateFci(FirstSeq(status), RefTime(status), pktCount, TwccStatus(status))

-----------------------------------------------------------------------------
(* onSendTwcc and clearStatus: what is noted is sent, and then cleared. *)
NoStatus == << >>
OnSendTwcc(status) ==
  /\ out' = <<Fci(status)>>
  /\ pktCount' = (pktCount + 1) % PktCountMod

ClearStatusKeepMin == recvStatus' = NoStatus /\ UNCHANGED minStamp
ClearStatus == recvStatus' = NoStatus /\ minStamp' = 0

Ignore == out' = << >> /\ UNCHANGED contextVars

(* The number is noted; min is _min_stamp before that. *)
Note(status, seq) ==
  [s \in DOMAIN status \union {seq} |-> IF s \in DOMAIN status THEN status[s] ELSE now]

OnRtpNormal(seq) ==
  LET noted == Note(recvStatus, seq)
      min   == IF minStamp = 0 THEN now ELSE minStamp
  IN  IF NeedSendTwcc(noted, min)
      THEN OnSendTwcc(noted) /\ ClearStatus
      ELSE out' = << >> /\ recvStatus' = noted /\ minStamp' = min /\ UNCHANGED pktCount

(* After a wrap the map holds the new number alone, which is too little    *)
(* for a second message (MaxSeqSize > 1).                                  *)
OnRtpLooped(seq) ==
  OnSendTwcc(recvStatus) /\ recvStatus' = Note(NoStatus, seq) /\ minStamp' = now

OnRtp(seq) ==
  CASE CheckSeqStatus(seq) = "jumped" -> Ignore
    [] CheckSeqStatus(seq) = "looped" -> OnRtpLooped(seq)
    [] OTHER -> IF seq \in DOMAIN recvStatus THEN Ignore ELSE OnRtpNormal(seq)

-----------------------------------------------------------------------------
Accepted == out' # << >> \/ recvStatus' # recvStatus

Arrive(packet, pause) ==
  /\ arrivals < MaxArrivals
  /\ packet \in 0 .. LastPacket /\ packet \in newest - MaxLate .. newest + 1 + MaxLost
  /\ arrivals' = arrivals + 1
  /\ newest' = Max({newest, packet})
  /\ OnRtp(SeqOf(packet))
  /\ arrival' = Noted(packet)
  /\ unreported' = (IF out' = << >> THEN unreported ELSE {})
                     \union (IF Accepted /\ recvStatus' # NoStatus THEN {Noted(packet)} ELSE {})
  /\ now' = now + pause

Init ==
  /\ recvStatus = NoStatus /\ minStamp = 0 /\ pktCount = 0
  /\ now = 1 /\ newest = -1 /\ arrivals = 0
  /\ unreported = {} /\ arrival = [packet |-> -1, time |-> 0] /\ out = << >>

Next == \E packet \in 0 .. LastPacket, pause \in Pauses : Arrive(packet, pause)

Spec == Init /\ [][Next]_vars
-----------------------------------------------------------------------------
(* The oldest time of arrival is known exactly when something is noted.    *)
TypeOK ==
  /\ DOMAIN recvStatus \subseteq 0 .. SeqMod - 1
  /\ \A seq \in DOMAIN recvStatus : recvStatus[seq] \in minStamp .. now
  /\ minStamp \in 0 .. now /\ (minStamp = 0 <=> DOMAIN recvStatus = {})
  /\ pktCount \in 0 .. PktCountMod - 1

(***************************************************************************)
(* What waits is bounded: never as many packets as make a message, and     *)
(* never two of them as far apart in time as make one.                     *)
(***************************************************************************)
WaitingIsBounded ==
  /\ Cardinality(DOMAIN recvStatus) < MaxSeqSize
  /\ \A s, t \in DOMAIN recvStatus : recvStatus[s] - recvStatus[t] < MaxTimeDelta

(***************************************************************************)
(* Every number of a chunk is in its field: "at most 7 statuses when the   *)
(* symbol is 1", the comment of FCI_TWCC::create says.                     *)
(***************************************************************************)
AllFit(fci) == \A j \in 1 .. Len(fci.chunks) : Fits(fci.chunks[j])
ChunksFit == \A i \in 1 .. Len(out) : AllFit(out[i])

(***************************************************************************)
(* A message whose chunks and deltas fit tells the truth: read back, it    *)
(* names each packet noted since the last message, with its time of        *)
(* arrival, and no other, across losses, late packets, copies and the wrap *)
(* of the number.  Its deltas fit if it is sent soon after its oldest      *)
(* packet: copies and jumped numbers do not send it, however late it is.   *)
(***************************************************************************)
Reported(fci) ==
  LET read == ReadFci(fci)
      time[i \in 0 .. Len(read)] ==
        IF i = 0 THEN fci.refTime * RefTick ELSE time[i - 1] + read[i].delta
  IN  {[packet |-> PacketOf(fci.base) + i - 1, time |-> time[i]] :
         i \in {j \in 1 .. Len(read) : Received(read[j])}}
MessagesTellTheTruth ==
  [][\A i \in 1 .. Len(out') :
       AllFit(out'[i]) /\ now - minStamp < DeltaMod \div 2 =>
         Reported(out'[i]) \in {unreported, unreported \union {arrival'}}]_vars

(***************************************************************************)
(* The newest packet is never ignored, on either side of the wrap.         *)
(***************************************************************************)
NewestIsNoted == [][newest' # newest => Accepted]_vars
=============================================================================
