------------------------------ MODULE VideoPath ------------------------------
(***************************************************************************)
(* A video stream from the receive channel to the application: RtcDemuxer  *)
(* gives each packet to the depacketizer that the answer's codec asks for, *)
(* and what that outputs goes through the track to the callbacks, all in   *)
(* the call that brought the packet.                                       *)
(*                                                                         *)
(* The sender and the channel are the environment: the sender cuts units   *)
(* into packets and numbers them one after the other, and starts anywhere  *)
(* in a group of pictures; parameter sets are followed by a key picture.   *)
(* The channel hands over some packets, in order; the rest is lost.        *)
(***************************************************************************)
EXTENDS VideoTrack

CONSTANTS
  SeqMod,       \* 2^16 in the code
  Start,        \* number before the first packet of the stream
  LastPacket,   \* bound: packets the sender sends
  MaxLoss,      \* bound: packets that may be lost in a row
  MaxPieces,    \* bound: fragments of one unit
  Kinds,        \* bound: kinds of units the sender sends, parameter sets aside
  Odd           \* bound: structures without use the sender sends

ASSUME PathAssumption ==
  /\ SeqMod \in Nat \ {0} /\ Start \in 0 .. SeqMod - 1
  /\ LastPacket \in Nat /\ MaxPieces \in Nat \ {0, 1}
  /\ MaxLoss \in Nat /\ MaxLoss < SeqMod
  /\ Kinds \subseteq SliceKinds \union OtherKinds
  /\ Odd \subseteq {"empty", "unsupported", "cut"}

VARIABLES
  codec,        \* the codec of the answer's first payload
  decoder,      \* RtcDemuxer::_videoDecoder
  track,        \* the video track, and what the application was given
  sent,         \* packets sent
  units,        \* NAL units begun
  cutting,      \* the unit the sender is cutting into fragments, or NoUnit
  leading,      \* parameter sets were sent, and their key picture not yet
  missed,       \* packets lost since the last that arrived
  torn,         \* a packet was lost since the last key frame was begun
  unseen,       \* ... right after number 0, where the decoder cannot see it
  shunned,      \* the last key frame came whole in the first packet after a loss
  keyShown      \* the last key frame was shown to the application

senderVars == <<sent, units, cutting, leading>>
historyVars == <<missed, torn, unseen, shunned, keyShown>>
vars == <<codec, decoder, track, senderVars, historyVars>>

H264 == INSTANCE H264RtpDecoder
H265 == INSTANCE H265RtpDecoder

-----------------------------------------------------------------------------
(* RtcDemuxer: createVideoDecoder and inputRtp *)
NewVideoDecoder(c) == IF c = "h264" THEN H264!NewDecoder ELSE H265!NewDecoder
InputRtp(seq, p) ==
  IF codec = "h264" THEN H264!InputRtp(decoder, seq, p) ELSE H265!InputRtp(decoder, seq, p)

(* What the sender may send next: a fragment of the unit it is cutting, or *)
(* units of their own, or a packet without use.                            *)
Units(kinds) == [i \in DOMAIN kinds |-> Whole(units + i, kinds[i])]
Fresh(structure, kinds) ==
  [packet |-> Packet(structure, Units(kinds)), units |-> units + Len(kinds), cutting |-> NoUnit]
Fragment(piece) ==
  [packet |-> Packet("fragment", <<piece>>), units |-> piece.unit,
   cutting |-> IF piece.last THEN NoUnit ELSE piece]

NextPieces ==
  {Fragment(Piece(cutting.unit, cutting.kind, cutting.no + 1, last)) :
     last \in {b \in BOOLEAN : cutting.no + 1 < MaxPieces \/ b}}

MayStart == IF leading THEN Kinds \ {"idrRest", "slice"} ELSE Kinds
SetsOf(c) == {Sets(c)[i] : i \in DOMAIN Sets(c)}

Choices ==
  IF cutting # NoUnit THEN NextPieces
  ELSE   {Fresh("single", <<k>>) : k \in MayStart \union SetsOf(codec)}
    \union {Fresh("aggregate", Sets(codec) \o more) : more \in {<< >>, <<"idr">>}}
    \union {Fragment(Piece(units + 1, k, 1, FALSE)) : k \in MayStart}
    \union {Fresh(s, IF s = "cut" THEN <<Sets(codec)[1]>> ELSE << >>) : s \in Odd}

lostBefore == missed # 0
Ended(p, kinds) == \E k \in kinds : Ends(p, k)

(* The sender sends its next packet, which is lost or reaches the client.  *)
(* A packet the decoder cannot read to its end is as good as lost.         *)
Send(choice, lost) ==
  LET p == choice.packet
      idr == Begins(p, "idr")
  IN  /\ sent < LastPacket /\ (lost => missed < MaxLoss)
      /\ sent' = sent + 1
      /\ units' = choice.units
      /\ cutting' = choice.cutting
      /\ leading' = (~idr /\ (leading \/ Ended(p, SetKinds)))
      /\ IF lost
         THEN /\ track' = [track EXCEPT !.shown = << >>]
              /\ decoder' = [decoder EXCEPT !.frames = << >>]
         ELSE /\ decoder' = InputRtp((Start + sent') % SeqMod, p)
              /\ track' = InputFrames(codec, track, decoder'.frames)
      /\ missed' = IF lost THEN missed + 1 ELSE 0
      /\ torn' = (lost \/ p.structure \in {"unsupported", "cut"} \/ (torn /\ ~idr))
      /\ unseen' = ((lost /\ decoder.last = 0) \/ (unseen /\ ~idr))
      /\ shunned' = IF Ends(p, "idr") /\ ~lost THEN lostBefore ELSE shunned
      /\ keyShown' = ((keyShown /\ ~idr) \/ \E i \in DOMAIN track'.shown : KeyFrame(track'.shown[i]))
      /\ UNCHANGED codec

Init ==
  /\ codec \in Codecs
  /\ decoder = NewVideoDecoder(codec)
  /\ track = NewTrack
  /\ sent = 0 /\ units = 0 /\ cutting = NoUnit /\ leading = FALSE
  /\ missed = 0 /\ torn = FALSE /\ unseen = FALSE /\ shunned = FALSE
  /\ keyShown = FALSE

Next == \E choice \in Choices, lost \in BOOLEAN : Send(choice, lost)

Spec == Init /\ [][Next]_vars
-----------------------------------------------------------------------------
(* Pieces wait in the buffer only while their unit can still be completed. *)
TypeOK ==
  /\ codec \in Codecs
  /\ decoder.gop \in BOOLEAN /\ decoder.fu \in BOOLEAN
  /\ decoder.last \in 0 .. SeqMod - 1
  /\ decoder.fu => decoder.buffer = << >>
  /\ \A i \in DOMAIN decoder.buffer :
       decoder.buffer[i].no = i /\ decoder.buffer[i].unit = decoder.buffer[1].unit
  /\ track.sets \in [SetKinds -> 0 .. units] /\ track.told \in BOOLEAN
  /\ sent \in 0 .. LastPacket

(***************************************************************************)
(* No frame is torn: whatever is lost inside a unit or between two units,  *)
(* a frame that is output is one unit, with all its fragments, in order.   *)
(***************************************************************************)
NoTornFrame == \A i \in DOMAIN decoder.frames : IsWhole(decoder.frames[i])

(***************************************************************************)
(* Once a loss is seen, no slice of the torn group of pictures reaches the *)
(* track, except those in the very packet that showed the loss.            *)
(***************************************************************************)
OutputsSlice == \E i \in DOMAIN decoder'.frames : Kind(decoder'.frames[i]) \in {"idrRest", "slice"}

GopIsWhole == [][OutputsSlice => ~torn' \/ unseen' \/ lostBefore]_vars

(***************************************************************************)
(* Nothing is dropped without need: in a group of pictures that lost no    *)
(* packet, each unit that arrives in a packet of its own is output, unless *)
(* the key frame itself came in the packet that showed an earlier loss.    *)
(***************************************************************************)
OutputsSingle(choice) ==
  Send(choice, FALSE) /\ choice.packet.structure = "single" /\ ~torn' => decoder'.frames # << >>

OnlyTornGopsAreDropped ==
  [][\A choice \in Choices : ~shunned' => OutputsSingle(choice)]_vars

(***************************************************************************)
(* The application gets no slice it cannot decode: the key frame of its    *)
(* group was shown, and the parameters were told before, though the        *)
(* decoder knows nothing of parameter sets and the track nothing of losses *)
(* (again except in the packet that shows a loss).                         *)
(***************************************************************************)
ShowsSlice == \E i \in DOMAIN track'.shown : Kind(track'.shown[i]) \in {"idrRest", "slice"}

SlicesFollowTheirKeyFrame ==
  [][ShowsSlice => (track'.told /\ keyShown') \/ unseen' \/ lostBefore]_vars

(***************************************************************************)
(* The parameters are told with each parameter set of the codec once, in   *)
(* order, as last received when the first key frame is shown, and the      *)
(* buffer of the API they are told in never grows after that.              *)
(***************************************************************************)
ToldWithItsSets ==
  [][track'.extra # track.extra =>
       /\ track'.told
       /\ track'.extra = [i \in DOMAIN Sets(codec) |->
                            Whole(track'.sets[Sets(codec)[i]], Sets(codec)[i])]]_vars
=============================================================================
