---------------------------- MODULE RtcTransport ----------------------------
(***************************************************************************)
(* From the answers and the RTP packets to the decoders, and the feedback  *)
(* that goes back: RtcTransport and RtcDemuxer of src/peer, the tracks of   *)
(* src/media/MediaTrack.cpp.  Of a channel there is the SSRC lock, the      *)
(* receiver report's counts, and what it has accepted: when it outputs     *)
(* that is RtpChannel's matter, so here it may at any later arrival.       *)
(* The server sends one video stream under the payload types of its last   *)
(* answer, counted 1, 2, ...; its packets get lost or late, but copies are *)
(* SRTP replays and never get here.  A payload type is not media in one     *)
(* answer and retransmission in another.  _ssrc_to_track, which only onRtcp *)
(* reads that nobody calls, and the rid, which is always empty because no   *)
(* extension is ever registered, are left out.                             *)
(***************************************************************************)
EXTENDS Integers, Sequences, FiniteSets, SessionDescription

CONSTANTS
  Answers,     \* the answers the server may give
  MaxAnswers,  \* bound: answers that are given
  SeqMod, HighEdge, LowEdge, MinCycle,
  Source, Other,  \* the SSRC of the stream, and another source's
  OtherNumbers,   \* bound: the numbers packets of the other source carry
  MixBound,    \* bound: packets of the stream until sources change, and after
  Start,       \* where the stream's numbering starts
  LastPacket,  \* bound: packets of the stream
  MaxSkip,     \* bound: packets that may go missing in a row
  MaxLate      \* bound: how late a packet may be

ASSUME TransportAssumption ==
  /\ {SeqMod, HighEdge, LowEdge, MinCycle} \subseteq Nat
  /\ LowEdge <= HighEdge /\ HighEdge < SeqMod
  /\ {MaxAnswers, MixBound, Start, LastPacket, MaxSkip, MaxLate} \subseteq Nat
  /\ 0 \notin {Source, Other} /\ Source # Other
  /\ OtherNumbers \subseteq 0 .. SeqMod - 1
  /\ MaxSkip + MaxLate + 1 < SeqMod - HighEdge /\ MaxSkip < LowEdge
  /\ LowEdge + MaxLate <= HighEdge
  /\ MinCycle * (MaxSkip + 1) + MaxSkip < SeqMod

(* The payload types of media, of retransmissions and of audio are three   *)
(* kinds, over all answers; and no answer prefers PCMU, which the offer     *)
(* names second.                                                           *)
MediaPts == {Parse(a)[1].payloads[1].pt : a \in {b \in Answers : Parse(b)[1].payloads # <<>>}}
RtxPts   == {Parse(a)[1].payloads[2].pt : a \in {b \in Answers : Parse(b)[1].rtx}}
AudioPts == {Parse(a)[2].payloads[1].pt : a \in {b \in Answers : Parse(b)[2].payloads # <<>>}}

ASSUME AnswersAssumption ==
  /\ Answers \subseteq Seq(Lines)
  /\ \A a \in Answers : Parse(a)[1].rtx => Len(Parse(a)[1].payloads) > 1
  /\ MediaPts \intersect RtxPts = {}
  /\ AudioPts \intersect (MediaPts \union RtxPts) = {}
  /\ \A a \in Answers : Parse(a)[2].payloads # <<>> => Parse(a)[2].payloads[1].name # "PCMU"

RR == INSTANCE ReceiverReport

VARIABLES
  medias,    \* Sdp::medias, over all answers
  loads,     \* how often loadSdp was called
  ptToTrack, \* _pt_to_track: [track, rtx, payload, from] by payload type
  decoders,  \* the codecs the demuxer has decoders for, by media type
  channels,  \* the tracks' channels: [ssrc, madeFor, silent, accepted, report]
  rrDue,     \* _rr_ticker->elapsedTime() >= 5000
  decoded,   \* what the last arrival handed to decoders: [decoder, content]
  sent,      \* the feedback the last arrival made the transport send
  stream     \* the server's stream: [newest, first, window, counted, mixed, crossed]

sessionVars == <<medias, loads, ptToTrack, decoders>>
vars == <<sessionVars, channels, rrDue, decoded, sent, stream>>

-----------------------------------------------------------------------------
(* loadSdp: a track for each description of medias, old ones included; a   *)
(* payload type that has a track keeps it (emplace).                       *)
Tracked(desc) ==
  IF desc.type \notin {"video", "audio"} THEN {}
  ELSE {desc.payloads[k].pt : k \in 1 .. (IF desc.rtx THEN 2 ELSE 1)}

EntryUnwrapped(track, desc, pt) ==
  [track |-> track, type |-> desc.type, rtx |-> FALSE, from |-> desc.ssrc,
   media |-> desc.payloads[1],
   payload |-> IF pt = desc.payloads[1].pt THEN desc.payloads[1] ELSE desc.payloads[2]]
Entry(track, desc, pt) ==
  [track |-> track, type |-> desc.type, rtx |-> pt # desc.payloads[1].pt, from |-> desc.ssrc,
   media |-> desc.payloads[1],
   payload |-> IF pt = desc.payloads[1].pt THEN desc.payloads[1] ELSE desc.payloads[2]]

(* The description whose track a payload type gets first.                  *)
FirstWith(pt) ==
  CHOOSE i \in DOMAIN medias' :
    pt \in Tracked(medias'[i]) /\ \A j \in 1 .. i - 1 : pt \notin Tracked(medias'[j])

(* createVideoDecoder and createAudioDecoder, once each; "" where the codec *)
(* has no decoder.                                                         *)
Codecs == [video |-> {"h264", "h265"}, audio |-> {"PCMA", "PCMU"}]
Created(type) ==
  LET named == {desc.payloads[1].name : desc \in FirstOf(medias', type)}
  IN  IF decoders[type] # "" \/ named \intersect Codecs[type] = {} THEN decoders[type]
      ELSE CHOOSE codec \in named : TRUE

LoadSdp(answer) ==
  /\ loads < MaxAnswers /\ channels = << >>
  /\ medias' = medias \o Parse(answer)
  /\ loads' = loads + 1
  /\ ptToTrack' =
       [pt \in DOMAIN ptToTrack \union UNION {Tracked(medias'[i]) : i \in DOMAIN medias'} |->
          IF pt \in DOMAIN ptToTrack THEN ptToTrack[pt]
          ELSE Entry(<<loads + 1, FirstWith(pt)>>, medias'[FirstWith(pt)], pt)]
  /\ decoders' = [type \in {"video", "audio"} |-> Created(type)]
  /\ UNCHANGED <<channels, rrDue, decoded, sent, stream>>

-----------------------------------------------------------------------------
(* createRtpChannel, when a media packet of the track comes first.         *)
NewChannel(ssrc) ==
  [ssrc |-> 0, madeFor |-> ssrc, silent |-> FALSE, accepted |-> {}, report |-> RR!NoneCounted]

Channel(track, ssrc) ==
  IF track \in DOMAIN channels THEN channels[track] ELSE NewChannel(ssrc)

(* Without a clock rate nothing is accepted, nor from another source while *)
(* the locked one is alive.                                                *)
AcceptsUnclocked(entry, chn, ssrc) == chn.ssrc \in {0, ssrc} \/ chn.silent
Accepts(entry, chn, ssrc) ==
  entry.media.clock # 0 /\ (chn.ssrc \in {0, ssrc} \/ chn.silent)

(* onSortedRtp, for what the sort outputs: each goes to the decoder of its *)
(* media type, and the first may make a report, of a video track only.     *)
Decode(type, outs) ==
  decoded' = IF decoders[type] = "" THEN {}
             ELSE {[decoder |-> decoders[type], content |-> c] : c \in outs}

Report(entry, chn) ==
  [kind |-> "rr", from |-> entry.from, media |-> chn.ssrc, cycles |-> chn.report.cycles,
   max |-> chn.report.max, lost |-> RR!LostPackets(chn.report)]

(* onSendNack: the source the channel was made for.                        *)
NackRequest(entry, chn) ==
  [kind |-> "nack", from |-> entry.from, media |-> chn.madeFor]

(* RtpChannel::inputRtp on a packet that is accepted: the sort comes        *)
(* before the count, a retransmission is not counted.                      *)
InputRtp(entry, ssrc, content, counted) ==
  LET was  == Channel(entry.track, ssrc)
      lock == [was EXCEPT !.ssrc = ssrc, !.silent = FALSE, !.accepted = @ \union {content}]
      reports == IF rrDue /\ entry.type = "video" THEN {Report(entry, lock)} ELSE {}
  IN  \E outs \in SUBSET lock.accepted, nacks \in SUBSET {NackRequest(entry, lock)} :
        /\ Decode(entry.type, outs)
        /\ sent' = nacks \union (IF outs = {} THEN {} ELSE reports)
        /\ rrDue' = (rrDue /\ (outs = {} \/ entry.type # "video"))
        /\ channels' = [t \in DOMAIN channels \union {entry.track} |->
                          IF t # entry.track THEN channels[t]
                          ELSE [lock EXCEPT !.report = counted]]

(* A packet that is not accepted still makes the channel.                  *)
Refuse(entry, ssrc) ==
  /\ channels' = [t \in DOMAIN channels \union {entry.track} |->
                    IF t = entry.track THEN Channel(t, ssrc) ELSE channels[t]]
  /\ decoded' = {} /\ sent' = {} /\ UNCHANGED rrDue

-----------------------------------------------------------------------------
(* The server's stream, under the payload types of its last answer.        *)
Number(p) == (Start + p) % SeqMod
Cycle(p) == (Start + p) \div SeqMod
LastAnswer == medias[Len(medias) - 1]
LastAudio == medias[Len(medias)]
VideoPts == IF medias = <<>> THEN <<>> ELSE LastAnswer.payloads
NewestOf(p) == IF p > stream.newest THEN p ELSE stream.newest

(* The packet is known to onRtp by its payload type.                       *)
Known(pt) == pt \in DOMAIN ptToTrack

Counts(p) ==
  [ newest  |-> NewestOf(p),
    first   |-> IF stream.counted = 0 \/ p < stream.first THEN p ELSE stream.first,
    window  |-> {q \in stream.window \union {p} : q + MaxLate >= NewestOf(p)},
    counted |-> stream.counted + 1,
    mixed   |-> stream.mixed,
    crossed |-> stream.crossed \/ Cycle(p) < Cycle(stream.newest) ]

(* A media packet of the stream: new, or late, but not twice.              *)
Arrive(p) ==
  /\ VideoPts # <<>> /\ Known(VideoPts[1].pt)
  /\ p <= stream.newest + 1 + MaxSkip /\ p + MaxLate >= stream.newest
  /\ p \notin stream.window /\ (stream.mixed => p <= MixBound)
  /\ UNCHANGED sessionVars
  /\ LET entry == ptToTrack[VideoPts[1].pt]
         chn   == Channel(entry.track, Source)
     IN  /\ ~entry.rtx
         /\ IF Accepts(entry, chn, Source)
            THEN /\ InputRtp(entry, Source, VideoPts[1].name, RR!Counted(chn.report, Number(p)))
                 /\ stream' = Counts(p)
            ELSE Refuse(entry, Source) /\ UNCHANGED stream

(* A packet of the stream that was lost comes again on the RTX stream: it   *)
(* is rewritten to what the track of its payload type was made for, or     *)
(* dropped where that has no channel yet.                                  *)
ArriveRtx ==
  /\ Len(VideoPts) > 1 /\ LastAnswer.rtx /\ Known(VideoPts[2].pt)
  /\ stream.newest > 0
  /\ UNCHANGED <<sessionVars, stream>>
  /\ LET entry == ptToTrack[VideoPts[2].pt]
     IN  /\ entry.track \in DOMAIN channels
         /\ LET chn == channels[entry.track]
            IN  IF entry.rtx
                THEN /\ Accepts(entry, chn, chn.ssrc) /\ chn.ssrc # 0
                     /\ InputRtp(entry, chn.ssrc, VideoPts[1].name, chn.report)
                ELSE /\ Accepts(entry, chn, Source)
                     /\ InputRtp(entry, Source, "rtx", chn.report)

(* A packet of the other source, under the same payload type; one that is   *)
(* accepted is enough.                                                     *)
Foreign(n) ==
  /\ VideoPts # <<>> /\ Known(VideoPts[1].pt)
  /\ UNCHANGED sessionVars
  /\ LET entry == ptToTrack[VideoPts[1].pt]
         chn   == Channel(entry.track, Other)
     IN  /\ ~entry.rtx /\ ~stream.mixed
         /\ IF Accepts(entry, chn, Other)
            THEN /\ InputRtp(entry, Other, VideoPts[1].name, RR!Counted(chn.report, n))
                 /\ stream' = [stream EXCEPT !.mixed = TRUE]
            ELSE Refuse(entry, Other) /\ UNCHANGED stream

(* Audio, which the server sends as PCMA: its counts are never reported     *)
(* and are left out.                                                       *)
ArriveAudio ==
  /\ medias # <<>> /\ LastAudio.payloads # <<>>
  /\ UNCHANGED <<sessionVars, stream>>
  /\ LET payload == LastAudio.payloads[1]
     IN  /\ Known(payload.pt)
         /\ LET entry == ptToTrack[payload.pt]
                chn   == Channel(entry.track, Source)
            IN  IF Accepts(entry, chn, Source)
                THEN InputRtp(entry, Source, "PCMA", chn.report)
                ELSE Refuse(entry, Source)

(* onRtp finds no track for the payload type. *)
Unknown ==
  /\ \E i \in DOMAIN VideoPts : ~Known(VideoPts[i].pt)
  /\ decoded' = {} /\ sent' = {}
  /\ UNCHANGED <<sessionVars, channels, rrDue, stream>>

(* Time: five seconds since the last report, three without a packet.       *)
ReportDue ==
  /\ ~rrDue /\ rrDue' = TRUE
  /\ decoded' = {} /\ sent' = {}
  /\ UNCHANGED <<sessionVars, channels, stream>>

Silence(track) ==
  /\ track \in DOMAIN channels /\ channels[track].ssrc # 0
  /\ stream.newest <= MixBound
  /\ channels' = [channels EXCEPT ![track].silent = TRUE]
  /\ decoded' = {} /\ sent' = {}
  /\ UNCHANGED <<sessionVars, rrDue, stream>>

Init ==
  /\ medias = <<>> /\ loads = 0 /\ ptToTrack = << >>
  /\ decoders = [video |-> "", audio |-> ""]
  /\ channels = << >> /\ rrDue = FALSE /\ decoded = {} /\ sent = {}
  /\ stream = [newest |-> 0, first |-> 0, window |-> {}, counted |-> 0,
               mixed |-> FALSE, crossed |-> FALSE]

Next ==
  \/ \E answer \in Answers : LoadSdp(answer)
  \/ \E p \in 1 .. LastPacket : Arrive(p)
  \/ ArriveRtx
  \/ \E n \in OtherNumbers : Foreign(n)
  \/ ArriveAudio
  \/ Unknown
  \/ ReportDue
  \/ \E track \in DOMAIN channels : Silence(track)

Spec == Init /\ [][Next]_vars

-----------------------------------------------------------------------------
(* Channels belong to tracks that packets find, and accept what the last   *)
(* answer names.                                                           *)
Contents == {"PCMA", "rtx"} \union {VideoPts[i].name : i \in DOMAIN VideoPts}
TypeOK ==
  /\ Len(medias) = 2 * loads
  /\ \A pt \in DOMAIN ptToTrack : ptToTrack[pt].payload.pt = pt
  /\ \A t \in DOMAIN channels :
       /\ \E pt \in DOMAIN ptToTrack :
            ptToTrack[pt].track = t /\ (channels[t].ssrc # 0 => ptToTrack[pt].media.clock # 0)
       /\ channels[t].ssrc \in {0, Source, Other}
       /\ channels[t].accepted \subseteq Contents
       /\ channels[t].ssrc = 0 <=> channels[t].accepted = {}
  /\ stream.first <= stream.newest /\ stream.counted <= stream.newest

(***************************************************************************)
(* What reaches a decoder is media of its codec: never a retransmission    *)
(* that was not restored, nor another codec's, as long as the answers name *)
(* the same video codec first.                                             *)
(***************************************************************************)
Videos == {medias[i] : i \in {k \in DOMAIN medias : medias[k].type = "video"}}
Agreed == \A a, b \in Videos : a.payloads[1].name = b.payloads[1].name

OnlyMediaIsDecoded ==
  Agreed => \A d \in decoded : d.decoder = d.content

(***************************************************************************)
(* Feedback tells the truth about the stream: it names its source, and a   *)
(* receiver report tells how far the stream has got, over wraps of the     *)
(* number, and how much of it is missing, retransmissions not counted.     *)
(* Nothing is promised of a report before the first packet is counted, of  *)
(* counts that begin with number 0, which stands for none, of a packet      *)
(* from before a wrap that comes after it, and of two sources mixed.       *)
(***************************************************************************)
IsRight(report) ==
  LET cycles == Cycle(stream.newest) - Cycle(stream.first)
  IN  /\ report.cycles = cycles /\ report.max = Number(stream.newest)
      /\ report.lost = stream.newest - stream.first + 1 - stream.counted

Countable ==
  stream.counted > 0 /\ ~stream.crossed /\ Number(stream.first) # 0

FeedbackTellsTheTruth ==
  [][\A f \in sent' : ~stream'.mixed =>
       f.media = Source /\ (f.kind = "rr" /\ Countable => IsRight(f))]_vars
=============================================================================
