----------------------------- MODULE RtpChannel -----------------------------
(***************************************************************************)
(* One receive channel: RtpTrack::inputRtp (src/rtp/RtpTrack.cpp) locks    *)
(* the payload type and the SSRC and feeds the reorder buffer, and         *)
(* RtpChannel::inputRtp (src/rtp/RtpChannel.h) feeds the NACK state with   *)
(* the same packet.  The sender and the network are the environment: the   *)
(* packets of the stream are counted 1, 2, ... in sending order, carry     *)
(* (Start + count) % SeqMod, and get lost, late or duplicated on the way.  *)
(***************************************************************************)
EXTENDS Integers, Sequences, FiniteSets

CONSTANTS
  SeqMod, MaxDistance, MaxBufferSize,
  BitSize, NackRtpSize, MaxNack, WrapWindow,
  NackMaxSize, NackMaxMS, NackMaxCount, RttInit, RttMin, RttMax,
  Source, Others,   \* the stream's SSRC, and SSRCs that are not it
  Start,            \* where the sender's numbering starts
  LastPacket,       \* bound: packets the sender sends
  MaxSkip,          \* bound: how far ahead of the newest a packet may be when it arrives
  MaxLate,          \* bound: how late a packet may be, counted in packets
  Reach,            \* bound: how far ahead of the output a packet may be when it arrives
  AfterGivenUp,     \* bound: positions of the output at which packets it is past may arrive
  MaxAge,           \* bound: how far the output may be past them
  Stalls,           \* may a second pass without an output?
  OtherNumbers,     \* bound: the numbers packets of other sources carry
  NoSsrc            \* _ssrc = 0

ASSUME ChannelAssumption ==
  /\ {MaxDistance, MaxBufferSize} \subseteq Nat \ {0}
  /\ 4 * MaxDistance < SeqMod
  /\ {SeqMod, BitSize, MaxNack, WrapWindow, NackMaxSize} \subseteq Nat \ {0}
  /\ {NackMaxMS, NackRtpSize} \subseteq Nat
  /\ NackMaxCount \in Nat \ {0, 1}
  /\ RttMin \in Nat /\ RttInit \in RttMin .. RttMax /\ RttMax \in Nat
  /\ {LastPacket, MaxSkip} \subseteq Nat \ {0} /\ {Start, MaxLate} \subseteq Nat
  /\ Stalls \in BOOLEAN
  /\ Reach \in Nat /\ 2 * Reach <= SeqMod /\ Reach + 3 * MaxDistance <= SeqMod
  /\ MaxAge \in Nat \ {0}
  /\ AfterGivenUp \subseteq MaxDistance + MaxAge - 1 .. SeqMod - MaxDistance - 2
  /\ OtherNumbers \subseteq 0 .. SeqMod - 1
  /\ Source \notin Others /\ NoSsrc \notin Others \union {Source}

VARIABLES
  started, lastOut, cache, stale, out,   \* the PacketSortor
  nack, asks,                            \* the NackContext
  ssrc,       \* _ssrc
  silent,     \* _ssrc_alive->elapsedTime() >= 3000
  nackDue,    \* _nack_ticker->elapsedTime() > 200
  held,       \* which packet sits in the buffer under a number (0: another source's)
  newest,     \* the newest packet of the stream that arrived
  delivered,  \* the last packet of the stream that was output
  output,     \* the packets output by the last call, in order
  askedFor,   \* the packets of the stream that were asked for again
  widest,     \* the most packets that were missing in a row when one arrived
  mixed       \* was another source accepted before the stream's, or while it was silent?

sortVars == <<started, lastOut, cache, stale, out>>
nackVars == <<nack, asks>>
trackVars == <<ssrc, silent, nackDue>>
streamVars == <<held, newest, delivered, output, askedFor, widest, mixed>>
vars == <<sortVars, nackVars, trackVars, streamVars>>

Sortor   == INSTANCE PacketSortor
Nack     == INSTANCE NackContext
Delivery == INSTANCE OrderedDelivery WITH delivered <- delivered, handed <- output

Number(p) == (Start + p) % SeqMod

-----------------------------------------------------------------------------
(* The SSRC check of RtpTrack::inputRtp: lock the first one, follow it,    *)
(* and move to another only when the locked one has been silent.           *)
AcceptsAny(id) == TRUE
Accepts(id) == ssrc = NoSsrc \/ ssrc = id \/ silent

(* sortPacket(n) as it moves packet p of the stream (0: of another source):  *)
(* emplace keeps what is in the buffer under n already, output() is handed *)
(* p itself when n is next in line.                                        *)
Sort(n, p) ==
  LET inBuffer == [k \in DOMAIN held \union {n} |-> IF k \in DOMAIN held THEN held[k] ELSE p]
      direct   == n = Sortor!NextSeq(Sortor!Base(n))
  IN  /\ Sortor!SortPacket(n)
      /\ held' = [k \in cache' |-> inBuffer[k]]
      /\ output' = [i \in DOMAIN out' |-> IF i = 1 /\ direct THEN p ELSE inBuffer[out'[i]]]
      /\ delivered' = LET own == {i \in DOMAIN output' : output'[i] # 0}
                      IN  IF own = {} THEN delivered
                          ELSE output'[CHOOSE i \in own : \A j \in own : j <= i]

(* The packets of the stream up to the newest whose numbers are asked for: *)
(* the latest one under each number.                                       *)
Newest(p) == IF p > newest THEN p ELSE newest
Meant(numbers, p) ==
  {q \in 1 .. Newest(p) : Number(q) \in numbers /\ q + SeqMod > Newest(p)}

(* How many packets are missing between p and the newest before it.        *)
Missing(p) == p - newest - 1

(* RtpChannel::inputRtp on a packet the SSRC check accepts: sort it, then  *)
(* update the NACK state, then ask again if 200 ms went by since last time *)
Process(n, p, isRtx) ==
  /\ Sort(n, p)
  /\ LET r == Nack!Received(nack, n, isRtx)
         a == Nack!ReSendNack(r.ctx)
     IN  Nack!Become(IF nackDue THEN [a EXCEPT !.asks = a.asks \union r.asks] ELSE r)
  /\ nackDue' = FALSE
  /\ newest' = Newest(p)
  /\ askedFor' = askedFor \union Meant(asks', p)
  /\ widest' = IF Missing(p) > widest THEN Missing(p) ELSE widest
  /\ mixed' = (mixed \/ (p = 0 /\ (silent \/ ssrc # Source)))
  /\ silent' = FALSE

(* What the network may deliver: packets ahead of the output by less than   *)
(* half of the numbers, and late ones and copies the output is past while   *)
(* it stands far enough from both ends of the numbers: sortPacket takes a   *)
(* number near the ends for a wrap, and outputs it again.                  *)
MayStillArrive(p) ==
  \/ p \in delivered + 1 .. delivered + Reach
  \/ p \in delivered - MaxAge + 1 .. delivered /\ lastOut \in AfterGivenUp

(* A packet of the stream arrives: on time, late, or a copy. *)
Arrive(p) ==
  /\ p <= newest + MaxSkip /\ (newest = 0 => p = 1)
  /\ p + MaxLate >= newest
  /\ MayStillArrive(p)
  /\ Accepts(Source)
  /\ ssrc' = Source
  /\ Process(Number(p), p, FALSE)

(* A packet that was asked for arrives on the RTX stream: it is rewritten  *)
(* to the SSRC the channel has locked, so the SSRC check lets it pass.     *)
ArriveRtx(p) ==
  /\ p \in askedFor
  /\ MayStillArrive(p)
  /\ ssrc # NoSsrc
  /\ UNCHANGED ssrc
  /\ Process(Number(p), p, TRUE)

(* A packet of another source: dropped while the locked one is alive.      *)
ForeignDropped(id) ==
  /\ ~Accepts(id)
  /\ UNCHANGED vars

ForeignAccepted(id, n) ==
  /\ Accepts(id)
  /\ ssrc' = id
  /\ Process(n, 0, FALSE)

(* Time passes: a tick is more than the 200 ms that make the NACKs due,    *)
(* 1000 ms without an output make the buffer stale, and 3000 ms without a  *)
(* packet, which is kNackMaxMS, make the SSRC silent.                      *)
Tick ==
  /\ nackDue' = TRUE
  /\ nack' = Nack!Older(nack)
  /\ asks' = {} /\ output' = <<>>
  /\ UNCHANGED <<sortVars, ssrc, silent, held, newest, delivered, askedFor, widest, mixed>>

Stall ==
  /\ Stalls /\ nackDue
  /\ Sortor!Elapse
  /\ asks' = {} /\ output' = <<>>
  /\ UNCHANGED <<nack, trackVars, held, newest, delivered, askedFor, widest, mixed>>

Silence ==
  /\ nackDue /\ stale /\ ~silent
  /\ ssrc # NoSsrc
  /\ \A s \in DOMAIN nack.status : nack.status[s].age >= NackMaxMS
  /\ silent' = TRUE
  /\ UNCHANGED <<sortVars, nackVars, ssrc, nackDue, streamVars>>

Init ==
  /\ Sortor!Init
  /\ Nack!Init
  /\ ssrc = NoSsrc /\ silent = FALSE /\ nackDue = FALSE
  /\ held = << >> /\ newest = 0 /\ delivered = 0
  /\ output = <<>> /\ askedFor = {} /\ widest = 0 /\ mixed = FALSE

Next ==
  \/ \E p \in 1 .. LastPacket : Arrive(p) \/ ArriveRtx(p)
  \/ \E id \in Others : ForeignDropped(id)
  \/ \E id \in Others, n \in OtherNumbers : ForeignAccepted(id, n)
  \/ Tick
  \/ Stall
  \/ Silence

Spec == Init /\ [][Next]_vars

-----------------------------------------------------------------------------
(* The map and the ghost that says what is in it agree. *)
TypeOK ==
  /\ Sortor!TypeOK
  /\ Nack!TypeOK
  /\ DOMAIN held = cache
  /\ \A n \in cache : held[n] # 0 => held[n] \in 1 .. newest /\ Number(held[n]) = n
  /\ delivered \in 0 .. newest
  /\ askedFor \subseteq 1 .. newest

(***************************************************************************)
(* The channel keeps its promise: each packet of the stream at most once,  *)
(* in sending order, across losses, reordering, stalls, forced flushes and *)
(* wraps of the number, and within one call as well as between calls.      *)
(***************************************************************************)
InOrder == Delivery!Spec

(***************************************************************************)
(* The NACK state never runs ahead of the stream: what it asks for was     *)
(* sent before the newest packet that arrived (a wrap is not taken for a   *)
(* huge loss, nor a loss for a wrap), and numbers of another source do not *)
(* disturb it while the stream's is alive.  Once the lock has moved to     *)
(* another and back nothing is promised: the NACK state is not cleared.    *)
(***************************************************************************)
AsksOnlyForThePast ==
  ~mixed /\ newest < SeqMod => \A n \in asks : \E p \in 1 .. newest : Number(p) = n

(***************************************************************************)
(* The reorder buffer waits for the NACK state: a packet is passed over    *)
(* only when it was asked for at least once (buffer sizes and NACK         *)
(* thresholds live in two classes that never meet).  This holds until the  *)
(* buffer's time limit runs out, which counts from the last output, and    *)
(* until more packets are lost in a row than one call asks for: the buffer *)
(* sorts first, and a loss longer than MaxDistance is given up at once.    *)
(***************************************************************************)
AskedAtOnce == MaxNack * (BitSize + 1) - NackRtpSize

PassedOver ==
  {s \in delivered + 1 .. delivered' : \A i \in DOMAIN output' : output'[i] # s}

GivenUpOnlyAfterAsking ==
  [][delivered # 0 /\ ~stale /\ ~mixed /\ widest' <= AskedAtOnce
       => PassedOver \subseteq askedFor]_vars
=============================================================================
