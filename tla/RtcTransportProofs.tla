------------------------- MODULE RtcTransportProofs --------------------------
(***************************************************************************)
(* The properties of RtcTransport for all answers, number spaces and       *)
(* streams: what reaches a decoder is of its codec, and the feedback tells *)
(* the truth about the stream.                                             *)
(*                                                                         *)
(* First what parse makes of an answer (Parsed), then the invariant IInv,  *)
(* the arithmetic of the counts (CountedFollows), and one lemma for each   *)
(* kind of step.                                                           *)
(***************************************************************************)
EXTENDS RtcTransport, FiniteSetTheorems, SequenceTheorems, WellFoundedInduction, TLAPS

(* A non-empty set of naturals has a least element. *)
LEMMA LeastElement ==
  ASSUME NEW T \in SUBSET Nat, T # {}
  PROVE  \E x \in T : \A y \in T : x <= y
<1> DEFINE F == {0 .. x : x \in T}
<1>1. F \subseteq FiniteSubsetsOf(Nat) /\ F # {}
  <2>1. ASSUME NEW x \in T
        PROVE  0 .. x \in SUBSET Nat /\ IsFiniteSet(0 .. x)
    <3>1. 0 \in Int /\ x \in Int
      OBVIOUS
    <3> QED
      BY <3>1, FS_Interval
  <2> QED
    BY <2>1 DEF FiniteSubsetsOf
<1>2. PICK I \in F : \A J \in F : ~ (<<J, I>> \in StrictSubsetOrdering(Nat))
  BY <1>1, FS_StrictSubsetOrderingWellFounded, WFMin
<1>3. PICK x \in T : I = 0 .. x
  BY <1>2
<1>4. ASSUME NEW y \in T, y < x
      PROVE  FALSE
  <2>1. 0 .. y \in F /\ 0 .. y \subseteq 0 .. x /\ x \in 0 .. x /\ x \notin 0 .. y
    BY <1>4
  <2>2. <<0 .. y, 0 .. x>> \in StrictSubsetOrdering(Nat)
    BY <2>1, <1>1, <1>2, <1>3 DEF StrictSubsetOrdering
  <2> QED
    BY <2>1, <2>2, <1>2, <1>3
<1> QED
  BY <1>4

(* Induction: a set of naturals that has 0 and every successor up to a     *)
(* bound has all numbers up to it.                                         *)
LEMMA SetInduction ==
  ASSUME NEW bound \in Nat, NEW T \in SUBSET Nat, 0 \in T,
         \A n \in T : n < bound => n + 1 \in T
  PROVE  0 .. bound \subseteq T
<1> DEFINE Out == (0 .. bound) \ T
<1>1. SUFFICES ASSUME Out # {} PROVE FALSE
  OBVIOUS
<1> Out \in SUBSET Nat
  OBVIOUS
<1>2. PICK k \in Out : \A y \in Out : k <= y
  BY <1>1, LeastElement
<1>3. k \in 0 .. bound /\ k # 0 /\ k \notin T
  BY <1>2
<1>4. k - 1 \in 0 .. bound /\ k - 1 \notin Out
  BY <1>2, <1>3
<1>5. k - 1 \in T /\ k - 1 < bound
  BY <1>3, <1>4
<1>6. (k - 1) + 1 \in T
  BY <1>5
<1>7. QED
  BY <1>3, <1>6

(* What is known of a sequence. *)
LEMMA IsSeq ==
  ASSUME NEW S, NEW s \in Seq(S)
  PROVE  /\ Len(s) \in Nat /\ s \in [1 .. Len(s) -> S] /\ DOMAIN s = 1 .. Len(s)
         /\ s = <<>> <=> Len(s) = 0
  BY LenProperties, EmptySeq

(* The empty sequence is the function of nothing. *)
LEMMA EmptyDomain == DOMAIN << >> = {}
<1>1. << >> \in Seq({}) /\ Len(<< >>) = 0
  BY EmptySeq
<1>2. DOMAIN << >> = 1 .. 0
  BY <1>1, IsSeq
<1>3. QED
  BY <1>2

(* A function on 1 .. n is a sequence of length n. *)
LEMMA MakesSeq ==
  ASSUME NEW S, NEW n \in Nat, NEW f \in [1 .. n -> S]
  PROVE  f \in Seq(S) /\ Len(f) = n
<1>1. f \in Seq(S)
  BY SeqDef
<1>2. QED
  BY <1>1

-----------------------------------------------------------------------------
(* What parse makes of an answer                                           *)

IsRead(read, answer, video) ==
  read = [i \in 0 .. Len(answer) |->
            IF i = 0 THEN NoDesc ELSE Turn(read[i - 1], answer, i, video)]

(* The descriptions that the lines make one after the other exist.         *)
LEMMA ReadExists ==
  ASSUME NEW answer \in Seq(Lines), NEW video
  PROVE  \E read : IsRead(read, answer, video)
<1> DEFINE n == Len(answer)
           Made(read, k) == read = [i \in 0 .. k |->
                              IF i = 0 THEN NoDesc ELSE Turn(read[i - 1], answer, i, video)]
           T == {k \in Nat : \E read : Made(read, k)}
<1>1. n \in Nat
  OBVIOUS
<1>2. 0 \in T
  <2> DEFINE read == [i \in 0 .. 0 |-> NoDesc]
  <2> HIDE DEF NoDesc
  <2>1. Made(read, 0)
    OBVIOUS
  <2>2. QED
    BY <2>1
<1>3. ASSUME NEW k \in T PROVE k + 1 \in T
  <2>1. k \in Nat
    OBVIOUS
  <2>2. PICK read : Made(read, k)
    OBVIOUS
  <2> DEFINE next == [i \in 0 .. k + 1 |->
                        IF i = 0 THEN NoDesc ELSE Turn(read[i - 1], answer, i, video)]
  <2>3. \A i \in 0 .. k : next[i] = read[i]
    <3>1. ASSUME NEW i \in 0 .. k PROVE next[i] = read[i]
      <4>1. i \in 0 .. k + 1
        BY <2>1
      <4>2. read[i] = IF i = 0 THEN NoDesc ELSE Turn(read[i - 1], answer, i, video)
        BY <2>2
      <4>3. QED
        BY <4>1, <4>2
    <3>2. QED
      BY <3>1
  <2>4. \A i \in 0 .. k + 1 : i # 0 => i - 1 \in 0 .. k
    BY <2>1
  <2>5. next = [i \in 0 .. k + 1 |->
                  IF i = 0 THEN NoDesc ELSE Turn(next[i - 1], answer, i, video)]
    <3>1. ASSUME NEW i \in 0 .. k + 1, i # 0
          PROVE  Turn(read[i - 1], answer, i, video) = Turn(next[i - 1], answer, i, video)
      <4>1. next[i - 1] = read[i - 1]
        BY <2>3, <2>4, <3>1
      <4> HIDE DEF next
      <4>2. QED
        BY <4>1
    <3>2. QED
      BY <3>1, Zenon
  <2>6. Made(next, k + 1)
    BY <2>5
  <2> HIDE DEF next, Made
  <2>7. k + 1 \in Nat /\ \E t : Made(t, k + 1)
    BY <2>1, <2>6
  <2>8. QED
    BY <2>7
<1>4. n \in T
  <2>1. T \in SUBSET Nat
    OBVIOUS
  <2> HIDE DEF T
  <2>2. 0 .. n \subseteq T
    BY <1>1, <1>2, <1>3, <2>1, SetInduction
  <2>3. QED
    BY <1>1, <2>2
<1>5. PICK read : Made(read, n)
  BY <1>4
<1>6. IsRead(read, answer, video)
  BY <1>5 DEF IsRead
<1>7. QED
  BY <1>6

(* The rule for it: what holds before the first line and is kept by every   *)
(* line holds of the description.                                          *)
LEMMA ReadRule ==
  ASSUME NEW answer \in Seq(Lines), NEW video, NEW S,
         NoDesc \in S,
         \A desc \in S, i \in 1 .. Len(answer) : Turn(desc, answer, i, video) \in S
  PROVE  DescOf(answer, video) \in S
<1> DEFINE n == Len(answer)
           read == CHOOSE t : IsRead(t, answer, video)
           T == {i \in 0 .. n : read[i] \in S}
<1>1. n \in Nat
  OBVIOUS
<1>2. DescOf(answer, video) = read[n]
  BY DEF DescOf, IsRead
<1>3. IsRead(read, answer, video)
  BY ReadExists
<1> HIDE DEF read
<1>4. T \in SUBSET Nat
  BY <1>1
<1>5. 0 \in T
  BY <1>1, <1>3 DEF IsRead
<1>6. \A i \in T : i < n => i + 1 \in T
  <2>1. ASSUME NEW i \in T, i < n PROVE i + 1 \in T
    <3>1. i + 1 \in 0 .. n /\ i + 1 # 0 /\ (i + 1) - 1 = i
      BY <1>1, <2>1
    <3>2. read[i + 1] = Turn(read[i], answer, i + 1, video)
      BY <1>3, <3>1 DEF IsRead
    <3>3. QED
      BY <3>1, <3>2
  <2>2. QED
    BY <2>1
<1>7. n \in T
  <2> HIDE DEF T
  <2>1. 0 .. n \subseteq T
    BY <1>1, <1>4, <1>5, <1>6, SetInduction
  <2>2. QED
    BY <1>1, <2>1
<1>8. QED
  BY <1>2, <1>7

(* Literals are named apart, which the provers do not know to be strings.   *)
Names == STRING \union {"", "PCMA", "rtx"}
Payloads == [pt : Nat, clock : Nat, name : Names]
Descs == [type : Names, payloads : Seq(Payloads), rtx : BOOLEAN, ssrc : Nat, rtxSsrc : Nat]
Named(desc) == desc.type = "" <=> desc.payloads = <<>>
VideoDescs == {desc \in Descs : desc.type \in {"", "video"} /\ Named(desc)}
AudioDescs == {desc \in Descs : desc.type # "video" /\ desc.rtx = FALSE /\ Named(desc)}

(* Where line i is an m-line, the last m-line up to it is that one.         *)
LEMMA MediaHere ==
  ASSUME NEW answer \in Seq(Lines), NEW i \in 1 .. Len(answer), answer[i].tag = "m"
  PROVE  MediaAt(answer, i) = answer[i].media
<1> DEFINE section == {j \in 1 .. i : answer[j].tag = "m"}
           last == CHOOSE last \in section : \A j \in section : j <= last
<1>1. i \in section /\ section \subseteq 1 .. i
  OBVIOUS
<1>2. \A j \in section : j <= i
  OBVIOUS
<1>3. last \in section /\ \A j \in section : j <= last
  BY <1>1, <1>2, Zenon
<1>4. last = i
  <2> HIDE DEF last
  <2>1. i <= last /\ last <= i /\ last \in Int /\ i \in Int
    BY <1>1, <1>3
  <2>2. QED
    BY <2>1
<1>5. QED
  BY <1>1, <1>4 DEF MediaAt

(* What a line does to a description. *)
LEMMA MediaLine ==
  ASSUME NEW desc \in Descs, NEW line \in Lines, line.tag = "m"
  PROVE  /\ WithMedia(desc, line) \in Descs
         /\ WithMedia(desc, line).type = line.media /\ line.media # ""
         /\ WithMedia(desc, line).payloads # <<>>
         /\ WithMedia(desc, line).rtx = desc.rtx
<1>1. line.media \in STRING \ {""} /\ line.pts \in Seq(Nat) \ {<<>>}
  BY DEF Lines
<1> DEFINE added == [i \in DOMAIN line.pts |-> [pt |-> line.pts[i], clock |-> 0, name |-> ""]]
<1>2. added \in Seq(Payloads) /\ Len(added) > 0
  <2>1. /\ Len(line.pts) \in Nat /\ Len(line.pts) # 0
        /\ line.pts \in [1 .. Len(line.pts) -> Nat]
        /\ DOMAIN line.pts = 1 .. Len(line.pts)
    BY <1>1, IsSeq
  <2>2. \A i \in 1 .. Len(line.pts) : [pt |-> line.pts[i], clock |-> 0, name |-> ""] \in Payloads
    BY <2>1 DEF Payloads, Names
  <2>3. added \in [1 .. Len(line.pts) -> Payloads]
    BY <2>1, <2>2
  <2> HIDE DEF added
  <2>4. QED
    BY <2>1, <2>3, MakesSeq
<1> HIDE DEF added
<1>3. /\ desc.payloads \o added \in Seq(Payloads)
      /\ Len(desc.payloads \o added) > 0
  BY <1>2 DEF Descs
<1>4. desc.payloads \o added # <<>>
  BY <1>3
<1>5. WithMedia(desc, line) = [desc EXCEPT !.type = line.media, !.payloads = @ \o added]
  BY DEF WithMedia, added
<1>6. QED
  BY <1>1, <1>3, <1>4, <1>5 DEF Descs, Names

(* An rtpmap line changes neither the type nor how many payloads there are. *)
LEMMA RtpmapLine ==
  ASSUME NEW desc \in Descs, NEW line \in Lines, line.tag = "rtpmap", NEW parts
  PROVE  /\ WithRtpmap(desc, line, parts) \in Descs
         /\ WithRtpmap(desc, line, parts).type = desc.type
         /\ WithRtpmap(desc, line, parts).rtx = desc.rtx
         /\ WithRtpmap(desc, line, parts).payloads = <<>> <=> desc.payloads = <<>>
<1>1. line.clock \in Nat /\ line.name \in STRING
  BY DEF Lines
<1> DEFINE p == desc.payloads
           named == [i \in DOMAIN p |->
              IF p[i].pt = line.pt THEN [p[i] EXCEPT !.clock = line.clock, !.name = line.name]
                                   ELSE p[i]]
<1>2. p \in Seq(Payloads)
  BY DEF Descs
<1>3. named \in Seq(Payloads) /\ Len(named) = Len(p)
  <2>1. Len(p) \in Nat /\ DOMAIN p = 1 .. Len(p) /\ p \in [1 .. Len(p) -> Payloads]
    BY <1>2, IsSeq
  <2>2. ASSUME NEW x \in Payloads
        PROVE  [x EXCEPT !.clock = line.clock, !.name = line.name] \in Payloads
    BY <1>1 DEF Payloads, Names
  <2>3. named \in [1 .. Len(p) -> Payloads]
    BY <2>1, <2>2
  <2> HIDE DEF named
  <2>4. QED
    BY <2>1, <2>3, MakesSeq
<1>4. named = <<>> <=> p = <<>>
  BY <1>2, <1>3, IsSeq
<1>5. WithRtpmap(desc, line, parts) \in {desc, [desc EXCEPT !.payloads = named]}
  BY DEF WithRtpmap
<1> HIDE DEF named
<1>6. QED
  BY <1>3, <1>4, <1>5 DEF Descs

(* The two descriptions an answer is read into. *)
LEMMA Parsed ==
  ASSUME NEW answer \in Answers
  PROVE  /\ Parse(answer) = << Parse(answer)[1], Parse(answer)[2] >>
         /\ Parse(answer)[1] \in VideoDescs /\ Parse(answer)[2] \in AudioDescs
<1>1. answer \in Seq(Lines)
  BY AnswersAssumption
<1>2. NoDesc \in VideoDescs /\ NoDesc \in AudioDescs
  BY EmptySeq DEF NoDesc, VideoDescs, AudioDescs, Descs, Named, Names
<1>3. \A i \in 1 .. Len(answer) :
        /\ answer[i] \in Lines
        /\ answer[i].tag = "m" => MediaAt(answer, i) = answer[i].media
  BY <1>1, MediaHere
<1>4. ASSUME NEW desc \in VideoDescs, NEW i \in 1 .. Len(answer)
      PROVE  Turn(desc, answer, i, TRUE) \in VideoDescs
  <2> DEFINE line == answer[i]
  <2>1. desc \in Descs /\ line \in Lines
    BY <1>3 DEF VideoDescs
  <2>2. CASE MediaAt(answer, i) # "video"
    BY <2>2 DEF Turn
  <2>3. CASE MediaAt(answer, i) = "video"
    <3>1. Turn(desc, answer, i, TRUE) = VideoLine(desc, line)
      BY <2>3 DEF Turn
    <3>2. CASE line.tag = "m"
      BY <1>3, <2>1, <2>3, <3>1, <3>2, MediaLine DEF VideoLine, VideoDescs, Named
    <3>3. CASE line.tag = "rtpmap"
      <4> DEFINE read == WithRtpmap(desc, line, 2)
      <4>1. /\ read \in Descs /\ read.type = desc.type /\ read.rtx = desc.rtx
            /\ read.payloads = <<>> <=> desc.payloads = <<>>
        BY <2>1, <3>3, RtpmapLine
      <4>2. Turn(desc, answer, i, TRUE) = read
        BY <3>1, <3>3 DEF VideoLine
      <4> HIDE DEF read
      <4>3. QED
        BY <4>1, <4>2 DEF VideoDescs, Named
    <3>4. CASE line.tag = "FID"
      <4>1. line.ssrc \in Nat /\ line.rtx \in Nat
        BY <2>1, <3>4 DEF Lines
      <4>2. VideoLine(desc, line)
              = [desc EXCEPT !.rtx = TRUE, !.ssrc = line.ssrc, !.rtxSsrc = line.rtx]
        BY <3>4 DEF VideoLine
      <4>3. QED
        BY <2>1, <3>1, <4>1, <4>2 DEF VideoDescs, Descs, Named
    <3>5. CASE line.tag \notin {"m", "rtpmap", "FID"}
      BY <3>1, <3>5 DEF VideoLine
    <3>6. QED
      BY <3>2, <3>3, <3>4, <3>5
  <2>4. QED
    BY <2>2, <2>3
<1>5. ASSUME NEW desc \in AudioDescs, NEW i \in 1 .. Len(answer)
      PROVE  Turn(desc, answer, i, FALSE) \in AudioDescs
  <2> DEFINE line == answer[i]
  <2>1. desc \in Descs /\ line \in Lines
    BY <1>3 DEF AudioDescs
  <2>2. CASE MediaAt(answer, i) \in {"", "video"}
    BY <2>2 DEF Turn
  <2>3. CASE MediaAt(answer, i) \notin {"", "video"}
    <3>1. Turn(desc, answer, i, FALSE) = AudioLine(desc, line)
      BY <2>3 DEF Turn
    <3>2. CASE line.tag = "m"
      BY <1>3, <2>1, <2>3, <3>1, <3>2, MediaLine, ZenonT(30) DEF AudioLine, AudioDescs, Named
    <3>3. CASE line.tag = "rtpmap"
      <4> DEFINE read == WithRtpmap(desc, line, 3)
      <4>1. /\ read \in Descs /\ read.type = desc.type /\ read.rtx = desc.rtx
            /\ read.payloads = <<>> <=> desc.payloads = <<>>
        BY <2>1, <3>3, RtpmapLine
      <4>2. Turn(desc, answer, i, FALSE) = read
        BY <3>1, <3>3 DEF AudioLine
      <4> HIDE DEF read
      <4>3. QED
        BY <4>1, <4>2 DEF AudioDescs, Named
    <3>4. CASE line.tag = "ssrc"
      <4>1. line.ssrc \in Nat
        BY <2>1, <3>4 DEF Lines
      <4>2. AudioLine(desc, line) = [desc EXCEPT !.ssrc = line.ssrc]
        BY <3>4 DEF AudioLine
      <4>3. QED
        BY <2>1, <3>1, <4>1, <4>2 DEF AudioDescs, Descs, Named
    <3>5. CASE line.tag \notin {"m", "rtpmap", "ssrc"}
      BY <3>1, <3>5 DEF AudioLine
    <3>6. QED
      BY <3>2, <3>3, <3>4, <3>5
  <2>4. QED
    BY <2>2, <2>3
<1> HIDE DEF VideoDescs, AudioDescs
<1>6. DescOf(answer, TRUE) \in VideoDescs
  BY <1>1, <1>2, <1>4, ReadRule
<1>7. DescOf(answer, FALSE) \in AudioDescs
  BY <1>1, <1>2, <1>5, ReadRule
<1>8. QED
  BY <1>6, <1>7 DEF Parse

-----------------------------------------------------------------------------
(***************************************************************************)
(* The inductive invariant.  What is known of an answer is what parse      *)
(* makes of it (part 1); each payload type finds the track of a            *)
(* description that has it (2), and the decoders are for codecs that some   *)
(* description names (3).  Once there is a channel the answers are fixed,   *)
(* so that a channel is that of the last answer's video or audio (4), and   *)
(* what is decoded is of one of the two (5).  The stream's counts fit its   *)
(* numbers (6), and until sources mix the report of the video channel       *)
(* says where the stream is (7).                                           *)
(***************************************************************************)
Reports == [base : Nat, max : Nat, cycles : Nat, lastCycle : Nat, last : Nat, packets : Nat]
Chans == [ssrc : {0, Source, Other}, madeFor : {Source, Other}, silent : BOOLEAN,
          accepted : SUBSET Names, report : Reports]
Streams == [newest : Nat, first : Nat, window : SUBSET Nat, counted : Nat,
            mixed : BOOLEAN, crossed : BOOLEAN]

AllFrom(all, n) ==
  /\ n \in Nat /\ all \in Seq(Descs) /\ Len(all) = 2 * n
  /\ \A l \in 1 .. n : \E a \in Answers :
       all[2 * l - 1] = Parse(a)[1] /\ all[2 * l] = Parse(a)[2]
FromAnswers == AllFrom(medias, loads)

Finds(pt, i) ==
  /\ i \in DOMAIN medias /\ pt \in Tracked(medias[i])
  /\ \E l \in Nat : ptToTrack[pt] = Entry(<<l, i>>, medias[i], pt)
TracksFit == \A pt \in DOMAIN ptToTrack : \E i \in Nat : Finds(pt, i)

DecodersFit ==
  /\ DOMAIN decoders = {"video", "audio"}
  /\ decoders.video # "" => \E desc \in Videos : desc.payloads[1].name = decoders.video
  /\ decoders.audio \in {"", "PCMA"}

MediaOf(t) == medias[t[2]].payloads[1]
OfVideo(t) ==
  /\ VideoPts # <<>> /\ Known(VideoPts[1].pt)
  /\ t = ptToTrack[VideoPts[1].pt].track
OfAudio(t) ==
  /\ medias # <<>> /\ LastAudio.payloads # <<>> /\ Known(LastAudio.payloads[1].pt)
  /\ t = ptToTrack[LastAudio.payloads[1].pt].track

ChannelFits(t) ==
  /\ \/ OfVideo(t) /\ channels[t].accepted \subseteq {VideoPts[1].name}
     \/ OfAudio(t) /\ channels[t].accepted \subseteq {"PCMA"}
  /\ channels[t].ssrc = 0 <=> channels[t].accepted = {}
  /\ channels[t].ssrc # 0 => MediaOf(t).clock # 0
  /\ ~stream.mixed =>
       /\ channels[t].ssrc # Other
       /\ channels[t].madeFor = Source \/ MediaOf(t).clock = 0
ChannelsFit ==
  /\ channels \in [DOMAIN channels -> Chans]
  /\ \A t \in DOMAIN channels : ChannelFits(t)
  /\ channels = << >> => ~stream.mixed /\ stream.counted = 0 /\ sent = {} /\ decoded = {}

DecodedFits ==
  \A d \in decoded :
    \/ d.decoder = decoders.video /\ VideoPts # <<>> /\ d.content = VideoPts[1].name
       /\ decoders.video # ""
    \/ d.decoder = "PCMA" /\ d.content = "PCMA"

Missing == {q \in 1 .. stream.newest : q + MaxLate >= stream.newest} \ stream.window
StreamFits ==
  /\ stream \in Streams
  /\ stream.first <= stream.newest
  /\ stream.counted + Cardinality(Missing) <= stream.newest
  /\ stream.counted = 0 => stream.newest = 0

(* Until a late packet from before a wrap comes. A lower number than the    *)
(* last one is a wrap; the packets since the last wrap are enough for the   *)
(* next one to be told, however many were lost.                            *)
Follows(ctx, newest, first, counted) ==
  /\ ctx.packets = counted
  /\ ctx.max = Number(newest)
  /\ ctx.cycles = Cycle(newest) - Cycle(first)
  /\ Number(first) # 0 => ctx.base = Number(first)
  /\ \E l \in 1 .. newest :
       l + MaxLate >= newest /\ Cycle(l) = Cycle(newest) /\ ctx.last = Number(l)
  /\ ctx.cycles # 0 => Number(newest) < (ctx.packets - ctx.lastCycle) * (MaxSkip + 1)
FollowsStream(ctx) == Follows(ctx, stream.newest, stream.first, stream.counted)
ReportFits ==
  ~stream.mixed =>
    /\ stream.counted = 0 =>
         \A t \in DOMAIN channels : OfVideo(t) => channels[t].report = RR!NoneCounted
    /\ stream.counted > 0 /\ ~stream.crossed =>
         \E t \in DOMAIN channels : OfVideo(t) /\ FollowsStream(channels[t].report)

IInv ==
  /\ FromAnswers /\ TracksFit /\ DecodersFit /\ ChannelsFit /\ DecodedFits
  /\ StreamFits /\ ReportFits

-----------------------------------------------------------------------------
(* Numbers that wrap, and how they are counted                             *)

(* What a number is of its remainder and its quotient. *)
LEMMA Division ==
  ASSUME NEW x \in Nat, NEW m \in Nat \ {0}
  PROVE  /\ x % m \in 0 .. m - 1 /\ x \div m \in Nat
         /\ x = m * (x \div m) + (x % m)
  BY Z3


(* Products grow with their factors. *)
LEMMA TimesGoUp ==
  ASSUME NEW t \in Nat \ {0}, NEW x \in Int, NEW y \in Int
  PROVE  /\ t * x \in Int /\ t * y \in Int
         /\ x < y => t * x < t * y /\ t * x + t <= t * y
         /\ x <= y => t * x <= t * y
<1>1. ASSUME x <= y
      PROVE  t * x <= t * y
  <2>1. t * y = t * x + t * (y - x)
    BY Z3
  <2>2. t * (y - x) >= 0
    BY <1>1, Z3
  <2>3. QED
    BY <2>1, <2>2
<1>2. ASSUME x < y
      PROVE  t * x + t <= t * y
  <2>1. t * y = t * x + t + t * (y - x - 1)
    BY Z3
  <2>2. t * (y - x - 1) >= 0
    BY <1>2, Z3
  <2>3. QED
    BY <2>1, <2>2
<1>3. t * x \in Int /\ t * y \in Int
  OBVIOUS
<1>4. QED
  BY <1>1, <1>2, <1>3

(* What is known of the constants, one by one. *)
LEMMA Bounds ==
  /\ SeqMod \in Nat \ {0} /\ HighEdge \in Nat /\ LowEdge \in Nat /\ MinCycle \in Nat
  /\ Start \in Nat /\ MaxSkip \in Nat /\ MaxLate \in Nat /\ MixBound \in Nat
  /\ LowEdge <= HighEdge /\ HighEdge < SeqMod /\ MaxSkip < LowEdge
  /\ MaxSkip + MaxLate + 1 < SeqMod - HighEdge /\ LowEdge + MaxLate <= HighEdge
  BY TransportAssumption

(* The number of a packet and the wraps before it. *)
LEMMA Numbered ==
  ASSUME NEW p \in Nat
  PROVE  /\ Number(p) \in Nat /\ Number(p) < SeqMod /\ Cycle(p) \in Nat
         /\ Start + p = SeqMod * Cycle(p) + Number(p)
<1>1. Start + p \in Nat
  BY Bounds
<1>2. /\ (Start + p) % SeqMod \in 0 .. SeqMod - 1 /\ (Start + p) \div SeqMod \in Nat
      /\ Start + p = SeqMod * ((Start + p) \div SeqMod) + ((Start + p) % SeqMod)
  BY <1>1, Bounds, Division
<1>3. QED
  BY <1>2, Bounds DEF Number, Cycle

(* Of two packets the later one's number is higher by what is between them, *)
(* less a whole round where there is a wrap between the two.               *)
LEMMA LaterNumber ==
  ASSUME NEW a \in Nat, NEW b \in Nat, a <= b
  PROVE  /\ Cycle(a) <= Cycle(b)
         /\ Cycle(a) = Cycle(b) => Number(b) = Number(a) + (b - a)
         /\ b - a < SeqMod /\ Cycle(a) # Cycle(b) =>
              Cycle(b) = Cycle(a) + 1 /\ Number(b) = Number(a) + (b - a) - SeqMod
<1> DEFINE x == Cycle(a)  y == Cycle(b)  m == Number(a)  n == Number(b)
           tx == SeqMod * x  ty == SeqMod * y
<1>1. SeqMod \in Nat \ {0} /\ Start \in Nat
  BY Bounds
<1>2. /\ x \in Nat /\ y \in Nat /\ m \in Nat /\ n \in Nat /\ m < SeqMod /\ n < SeqMod
      /\ Start + a = tx + m /\ Start + b = ty + n
  BY Numbered
<1> HIDE DEF x, y, m, n
<1>3. /\ tx \in Int /\ ty \in Int
      /\ y < x => ty + SeqMod <= tx
      /\ x < y => tx + SeqMod <= ty
      /\ x = y => tx = ty
  BY <1>1, <1>2, TimesGoUp
<1>4. x + 1 < y => tx + SeqMod + SeqMod <= ty
  <2>1. x + 1 \in Int /\ SeqMod * (x + 1) = tx + SeqMod
    BY <1>1, <1>2
  <2>2. x + 1 < y => SeqMod * (x + 1) + SeqMod <= ty
    BY <1>1, <1>2, <2>1, TimesGoUp
  <2> HIDE DEF tx, ty
  <2>3. QED
    BY <2>1, <2>2
<1>5. y = x + 1 => ty = tx + SeqMod
  BY <1>1, <1>2
<1> HIDE DEF tx, ty
<1>6. x <= y
  BY <1>1, <1>2, <1>3
<1>7. x = y => n = m + (b - a)
  BY <1>1, <1>2, <1>3
<1>8. b - a < SeqMod /\ x # y => y = x + 1 /\ n = m + (b - a) - SeqMod
  BY <1>1, <1>2, <1>3, <1>4, <1>5, <1>6
<1>9. QED
  BY <1>6, <1>7, <1>8 DEF x, y, m, n

(* The first packet of a stream makes a report that says where it is.      *)
LEMMA FirstFollows ==
  ASSUME NEW p \in Nat \ {0}, p <= 1 + MaxSkip, Cycle(p) >= Cycle(0)
  PROVE  Follows(RR!Counted(RR!NoneCounted, Number(p)), p, p, 1)
<1> DEFINE n == Number(p)
           made == RR!Counted(RR!NoneCounted, n)
<1>1. n \in Nat /\ n < SeqMod /\ Cycle(p) \in Nat
  BY Numbered
<1>2. ~RR!Wraps(RR!NoneCounted, n)
  BY <1>1, Bounds DEF RR!Wraps, RR!NoneCounted
<1> HIDE DEF n
<1>3. made = [cycles |-> 0, lastCycle |-> 0, max |-> n, base |-> n, last |-> n, packets |-> 1]
  <2>1. made = [ cycles |-> 0, lastCycle |-> 0, max |-> IF n > 0 THEN n ELSE 0,
                 base |-> n, last |-> n, packets |-> 0 + 1 ]
    BY <1>2, Zenon DEF RR!Counted, RR!NoneCounted
  <2>2. (IF n > 0 THEN n ELSE 0) = n /\ 0 + 1 = 1
    BY <1>1
  <2>3. QED
    BY <2>1, <2>2, Zenon
<1> HIDE DEF made
<1>4. p \in 1 .. p /\ p + MaxLate >= p
  BY Bounds
<1>5. QED
  BY <1>1, <1>3, <1>4 DEF Follows, n, made

(* Each further one, new or late, whose number is not from before a wrap    *)
(* that was counted, keeps it so.                                          *)
LEMMA CountedFollows ==
  ASSUME NEW ctx \in Reports, NEW N \in Nat, NEW F \in Nat, NEW counted \in Nat,
         NEW p \in Nat \ {0}, F <= N, p <= N + 1 + MaxSkip, p + MaxLate >= N,
         Cycle(p) >= Cycle(N), Follows(ctx, N, F, counted)
  PROVE  Follows(RR!Counted(ctx, Number(p)), IF p > N THEN p ELSE N,
                 IF p < F THEN p ELSE F, counted + 1)
<1> DEFINE n == Number(p)
           wraps == RR!Wraps(ctx, n)
           made == RR!Counted(ctx, n)
<1>1. PICK l \in 1 .. N : l + MaxLate >= N /\ Cycle(l) = Cycle(N) /\ ctx.last = Number(l)
  BY DEF Follows
<1>2. /\ n \in Nat /\ n < SeqMod /\ Cycle(p) \in Nat
      /\ Number(N) \in Nat /\ Number(N) < SeqMod /\ Cycle(N) \in Nat
      /\ Number(F) \in Nat /\ Number(F) < SeqMod /\ Cycle(F) \in Nat
      /\ Number(l) \in Nat /\ l \in Nat /\ l <= N
  BY <1>1, Numbered
<1>3. Number(N) = Number(l) + (N - l)
  BY <1>1, <1>2, LaterNumber
<1>4. Cycle(F) <= Cycle(N) /\ (Cycle(F) = Cycle(N) => Number(N) = Number(F) + (N - F))
  BY LaterNumber
<1>5. /\ ctx.packets = counted /\ ctx.max = Number(N)
      /\ ctx.cycles = Cycle(N) - Cycle(F)
      /\ Number(F) # 0 => ctx.base = Number(F)
      /\ ctx.last = Number(l)
  BY <1>1 DEF Follows
<1> DEFINE since == ctx.packets - ctx.lastCycle
<1>6. ctx.cycles # 0 => Number(N) < since * (MaxSkip + 1)
  BY DEF Follows
<1>7. since \in Int /\ ctx.packets \in Nat /\ ctx.lastCycle \in Nat /\ ctx.base \in Nat
  BY DEF Reports
<1>8. /\ made.packets = ctx.packets + 1 /\ made.last = n
      /\ made.cycles = IF wraps THEN ctx.cycles + 1 ELSE ctx.cycles
      /\ made.lastCycle = IF wraps THEN ctx.packets ELSE ctx.lastCycle
      /\ made.max = IF wraps \/ n > ctx.max THEN n ELSE ctx.max
      /\ made.base = IF ctx.base = 0 \/ ((IF wraps THEN ctx.cycles + 1 ELSE ctx.cycles) = 0
                                          /\ n < ctx.base)
                     THEN n ELSE ctx.base
  BY DEF RR!Counted
<1>9. wraps <=> /\ Number(l) > HighEdge /\ n < LowEdge
                /\ ctx.cycles = 0 \/ since > MinCycle
  BY <1>5 DEF RR!Wraps
<1> HIDE DEF n, wraps, made
(* More packets counted make the bound no smaller.                         *)
<1>10. /\ MaxSkip + 1 \in Nat \ {0}
       /\ (since + 1) * (MaxSkip + 1) = since * (MaxSkip + 1) + (MaxSkip + 1)
       /\ since * (MaxSkip + 1) \in Int
  BY <1>7, Bounds
<1>11. (ctx.packets + 1) - ctx.lastCycle = since + 1 /\ (ctx.packets + 1) - ctx.packets = 1
  BY <1>7
<1>12. CASE p > N /\ Cycle(p) = Cycle(N)
  <2>1. n = Number(N) + (p - N)
    BY <1>12, LaterNumber DEF n
  <2>2. ~wraps
    BY <1>2, <1>3, <1>9, <2>1, <1>12, Bounds
  <2>3. ~(p < F) /\ Cycle(F) <= Cycle(p)
    BY <1>2, <1>4, <1>12
  <2>4. made.max = n /\ made.cycles = ctx.cycles
    BY <1>2, <1>5, <1>8, <1>12, <2>1, <2>2
  <2>5. Number(F) # 0 => made.base = Number(F)
    BY <1>2, <1>4, <1>5, <1>8, <1>12, <2>1, <2>2
  <2>6. ctx.cycles # 0 => n < (since + 1) * (MaxSkip + 1)
    <3> DEFINE X == since * (MaxSkip + 1)
               Y == (since + 1) * (MaxSkip + 1)
    <3>1. /\ X \in Int /\ Y = X + (MaxSkip + 1) /\ (ctx.cycles # 0 => Number(N) < X)
          /\ MaxSkip \in Nat
      BY <1>6, <1>10, Bounds
    <3>2. n <= Number(N) + (MaxSkip + 1)
      BY <1>2, <2>1, <3>1
    <3> HIDE DEF X, Y
    <3>3. ctx.cycles # 0 => n < Y
      BY <1>2, <3>1, <3>2
    <3>4. QED
      BY <3>3 DEF Y
  <2>7. made.lastCycle = ctx.lastCycle
    BY <1>8, <2>2
  <2>8. p \in 1 .. p /\ p + MaxLate >= p
    BY Bounds
  <2>9. Follows(made, p, F, counted + 1)
    BY <1>5, <1>8, <1>11, <1>12, <2>4, <2>5, <2>6, <2>7, <2>8 DEF Follows, n
  <2>10. QED
    BY <1>12, <2>3, <2>9 DEF made, n
<1>13. CASE p > N /\ Cycle(p) # Cycle(N)
  <2>1. p - N < SeqMod
    BY <1>2, <1>13, Bounds
  <2>2. Cycle(p) = Cycle(N) + 1 /\ n = Number(N) + (p - N) - SeqMod
    BY <1>13, <2>1, LaterNumber DEF n
  <2>3. n <= MaxSkip /\ Number(N) >= SeqMod - 1 - MaxSkip
    BY <1>2, <2>2, Bounds
  <2>4. Number(l) > HighEdge /\ n < LowEdge
    BY <1>1, <1>2, <1>3, <2>3, Bounds
  <2>5. ctx.cycles # 0 => since > MinCycle
    <3>1. ASSUME ctx.cycles # 0, ~(since > MinCycle) PROVE FALSE
      <4> DEFINE X == since * (MaxSkip + 1)
                 Z == MinCycle * (MaxSkip + 1)
      <4>1. (MaxSkip + 1) * since <= (MaxSkip + 1) * MinCycle
        BY <1>7, <1>10, <3>1, TimesGoUp, Bounds
      <4>2. X = (MaxSkip + 1) * since /\ Z = (MaxSkip + 1) * MinCycle
        BY <1>7, <1>10, Bounds
      <4>3. X \in Int /\ Z \in Int
        BY <1>7, <1>10, Bounds
      <4>4. Z + MaxSkip < SeqMod /\ Number(N) < X
        BY <1>6, <3>1, TransportAssumption
      <4>5. X <= Z
        BY <4>1, <4>2
      <4> HIDE DEF X, Z
      <4>6. QED
        BY <1>2, <2>3, <4>3, <4>4, <4>5, Bounds
    <3>2. QED
      BY <3>1
  <2>6. wraps
    BY <1>9, <2>4, <2>5
  <2>7. ~(p < F)
    BY <1>2, <1>13
  <2>8. /\ made.max = n /\ made.cycles = ctx.cycles + 1 /\ made.lastCycle = ctx.packets
        /\ ctx.cycles + 1 # 0
    BY <1>2, <1>4, <1>5, <1>8, <2>6
  <2>9. made.cycles = Cycle(p) - Cycle(F)
    BY <1>2, <1>5, <2>2, <2>8
  <2>10. Number(F) # 0 => made.base = Number(F)
    BY <1>5, <1>8, <2>6, <2>8
  <2>11. n < 1 * (MaxSkip + 1)
    BY <1>2, <2>3, Bounds
  <2>12. p \in 1 .. p /\ p + MaxLate >= p
    BY Bounds
  <2>13. made.packets - made.lastCycle = 1
    BY <1>8, <1>11, <2>8
  <2>14. Follows(made, p, F, counted + 1)
    BY <1>5, <1>8, <2>8, <2>9, <2>10, <2>11, <2>12, <2>13 DEF Follows, n
  <2>15. QED
    BY <1>13, <2>7, <2>14 DEF made, n
<1>14. CASE ~(p > N)
  <2>1. p <= N /\ p \in Nat /\ p \in 1 .. N
    BY <1>14
  <2>2. Cycle(p) = Cycle(N) /\ Number(N) = n + (N - p)
    <3>1. Cycle(p) <= Cycle(N)
      BY <2>1, LaterNumber
    <3>2. Cycle(p) = Cycle(N)
      BY <1>2, <3>1
    <3>3. QED
      BY <2>1, <3>2, LaterNumber DEF n
  <2>3. ~wraps
    BY <1>2, <1>3, <1>9, <2>1, <2>2, Bounds
  <2>4. made.max = Number(N) /\ made.cycles = ctx.cycles /\ made.lastCycle = ctx.lastCycle
    BY <1>2, <1>5, <1>8, <2>1, <2>2, <2>3
  <2>5. ctx.cycles # 0 => Number(N) < (since + 1) * (MaxSkip + 1)
    <3> DEFINE X == since * (MaxSkip + 1)
               Y == (since + 1) * (MaxSkip + 1)
    <3>1. /\ X \in Int /\ Y = X + (MaxSkip + 1) /\ (ctx.cycles # 0 => Number(N) < X)
          /\ MaxSkip \in Nat
      BY <1>6, <1>10, Bounds
    <3> HIDE DEF X, Y
    <3>2. ctx.cycles # 0 => Number(N) < Y
      BY <1>2, <3>1
    <3>3. QED
      BY <3>2 DEF Y
  <2>6. CASE p < F
    <3>1. Cycle(p) <= Cycle(F) /\ (Cycle(p) = Cycle(F) => Number(F) = n + (F - p))
      BY <2>1, <2>6, LaterNumber DEF n
    <3>2. Cycle(F) = Cycle(p) /\ Number(F) = n + (F - p)
      BY <1>2, <1>4, <2>2, <3>1
    <3>3. ctx.cycles = 0 /\ Number(F) # 0 /\ n < Number(F)
      BY <1>2, <1>5, <2>1, <2>2, <2>6, <3>2
    <3>4. made.base = n
      BY <1>5, <1>8, <2>3, <3>3
    <3>5. ctx.cycles = Cycle(N) - Cycle(p)
      BY <1>5, <3>2
    <3>6. Follows(made, N, p, counted + 1)
      BY <1>5, <1>8, <1>11, <2>1, <2>2, <2>4, <2>5, <3>4, <3>5 DEF Follows, n
    <3>7. QED
      BY <1>14, <2>6, <3>6 DEF made, n
  <2>7. CASE ~(p < F)
    <3>1. Cycle(F) <= Cycle(p) /\ (Cycle(F) = Cycle(p) => n = Number(F) + (p - F))
      <4>1. F <= p
        BY <2>7
      <4>2. QED
        BY <2>1, <4>1, LaterNumber DEF n
    <3>2. Number(F) # 0 => made.base = Number(F)
      BY <1>2, <1>5, <1>8, <2>1, <2>2, <2>3, <2>7, <3>1
    <3>3. Follows(made, N, F, counted + 1)
      BY <1>5, <1>8, <1>11, <2>1, <2>2, <2>4, <2>5, <3>2 DEF Follows, n
    <3>4. QED
      BY <1>14, <2>7, <3>3 DEF made, n
  <2>8. QED
    BY <2>6, <2>7
<1>15. QED
  BY <1>12, <1>13, <1>14

(* What a report that follows the stream says of it. *)
LEMMA LostIsRight ==
  ASSUME NEW ctx \in Reports, NEW N \in Nat, NEW F \in Nat, NEW counted \in Nat,
         Number(F) # 0, Follows(ctx, N, F, counted)
  PROVE  RR!LostPackets(ctx) = N - F + 1 - counted
<1> DEFINE x == Cycle(N)  y == Cycle(F)  m == Number(N)  n == Number(F)
<1>1. /\ x \in Nat /\ y \in Nat /\ m \in Nat /\ n \in Nat /\ SeqMod \in Nat /\ Start \in Nat
      /\ Start + N = SeqMod * x + m /\ Start + F = SeqMod * y + n
  BY Numbered, Bounds
<1>2. ctx.packets = counted /\ ctx.max = m /\ ctx.cycles = x - y /\ ctx.base = n
  BY DEF Follows
<1> HIDE DEF x, y, m, n
<1>3. (x - y) * SeqMod = SeqMod * x - SeqMod * y
  BY <1>1
<1> DEFINE X == SeqMod * x  Y == SeqMod * y
<1>4. X \in Int /\ Y \in Int
  BY <1>1
<1>5. RR!LostPackets(ctx) = X - Y + m - n + 1 - counted
  <2>1. RR!LostPackets(ctx) = (ctx.cycles * SeqMod + ctx.max - ctx.base + 1) - ctx.packets
    BY Zenon DEF RR!LostPackets, RR!ExpectedPackets
  <2>2. ctx.cycles * SeqMod = X - Y
    BY <1>2, <1>3
  <2> HIDE DEF X, Y
  <2>3. QED
    BY <1>1, <1>2, <1>4, <2>1, <2>2
<1>6. X = Start + N - m /\ Y = Start + F - n
  BY <1>1
<1> HIDE DEF X, Y
<1>7. QED
  BY <1>1, <1>4, <1>5, <1>6

(* Counting keeps a report's type. *)
LEMMA CountedTyped ==
  ASSUME NEW ctx \in Reports, NEW n \in Nat
  PROVE  RR!Counted(ctx, n) \in Reports
  BY DEF RR!Counted, Reports

-----------------------------------------------------------------------------
(* The session's part of the invariant                                     *)

(* Descriptions come in pairs, each pair from an answer.                    *)
LEMMA InPairs ==
  ASSUME NEW all, NEW n, AllFrom(all, n), NEW i \in DOMAIN all
  PROVE  \E l \in 1 .. n, answer \in Answers :
           \/ i = 2 * l - 1 /\ all[i] = Parse(answer)[1]
           \/ i = 2 * l /\ all[i] = Parse(answer)[2]
<1>1. n \in Nat /\ DOMAIN all = 1 .. 2 * n
  BY IsSeq DEF AllFrom
<1>2. PICK l \in 1 .. n : i = 2 * l - 1 \/ i = 2 * l
  <2>1. i \in Nat /\ 1 <= i /\ i <= 2 * n
    BY <1>1
  <2>2. \E l \in Nat : i = 2 * l - 1 \/ i = 2 * l
    <3> DEFINE h == (i + 1) \div 2
    <3>1. i + 1 \in Nat
      BY <2>1
    <3>2. /\ (i + 1) % 2 \in 0 .. 1 /\ h \in Nat
          /\ i + 1 = 2 * h + ((i + 1) % 2)
      BY <3>1, Division
    <3>3. h \in Nat /\ (i = 2 * h - 1 \/ i = 2 * h)
      BY <2>1, <3>2
    <3>4. QED
      BY <3>3
  <2>3. PICK l \in Nat : i = 2 * l - 1 \/ i = 2 * l
    BY <2>2
  <2>4. l \in 1 .. n
    BY <1>1, <2>1, <2>3
  <2>5. QED
    BY <2>3, <2>4
<1>3. PICK answer \in Answers :
        all[2 * l - 1] = Parse(answer)[1] /\ all[2 * l] = Parse(answer)[2]
  BY <1>2 DEF AllFrom
<1>4. QED
  BY <1>2, <1>3

(* What is known of a description, and of the payload types that find its   *)
(* track.                                                                  *)
LEMMA Described ==
  ASSUME NEW all, NEW n, AllFrom(all, n), NEW i \in DOMAIN all
  PROVE  /\ all[i] \in VideoDescs \union AudioDescs
         /\ all[i].type = "video" => all[i] \in VideoDescs
         /\ all[i].type = "audio" =>
              /\ all[i] \in AudioDescs
              /\ all[i].payloads[1].pt \in AudioPts /\ all[i].payloads[1].name # "PCMU"
         /\ all[i].type = "video" =>
              /\ all[i].payloads[1].pt \in MediaPts
              /\ all[i].rtx => all[i].payloads[2].pt \in RtxPts
<1>1. PICK answer \in Answers : all[i] \in {Parse(answer)[1], Parse(answer)[2]}
  BY InPairs
<1>2. Parse(answer)[1] \in VideoDescs /\ Parse(answer)[2] \in AudioDescs
  BY Parsed
<1>3. /\ Parse(answer)[1].payloads # <<>> => Parse(answer)[1].payloads[1].pt \in MediaPts
      /\ Parse(answer)[1].rtx => Parse(answer)[1].payloads[2].pt \in RtxPts
      /\ Parse(answer)[2].payloads # <<>> =>
           /\ Parse(answer)[2].payloads[1].pt \in AudioPts
           /\ Parse(answer)[2].payloads[1].name # "PCMU"
  BY AnswersAssumption DEF MediaPts, RtxPts, AudioPts
<1> DEFINE v == Parse(answer)[1]
           a == Parse(answer)[2]
<1>4. /\ v.type \in {"", "video"} /\ (v.type = "" <=> v.payloads = <<>>)
      /\ a.type # "video" /\ (a.type = "" <=> a.payloads = <<>>)
  BY <1>2 DEF VideoDescs, AudioDescs, Named
<1> HIDE DEF v, a
<1>5. CASE all[i] = v
  BY <1>2, <1>3, <1>4, <1>5 DEF v
<1>6. CASE all[i] = a
  BY <1>2, <1>3, <1>4, <1>6 DEF a
<1>7. QED
  BY <1>1, <1>5, <1>6 DEF v, a

(* What is known of the track a payload type finds: it is the kind of the   *)
(* payload type that says whether it is unwrapped.                          *)
LEMMA EntryFits ==
  ASSUME FromAnswers, TracksFit, NEW pt \in DOMAIN ptToTrack
  PROVE  LET e == ptToTrack[pt]
         IN  /\ e.payload.pt = pt /\ e.type = medias[e.track[2]].type
             /\ e.media = MediaOf(e.track)
             /\ \/ e.type = "video" /\ e.rtx = FALSE /\ pt \in MediaPts
                \/ e.type = "video" /\ e.rtx = TRUE /\ pt \in RtxPts
                \/ e.type = "audio" /\ e.rtx = FALSE /\ pt \in AudioPts
<1>1. PICK i \in Nat : Finds(pt, i)
  BY DEF TracksFit
<1>2. PICK l \in Nat : ptToTrack[pt] = Entry(<<l, i>>, medias[i], pt)
  BY <1>1 DEF Finds
<1>3. i \in DOMAIN medias /\ pt \in Tracked(medias[i])
  BY <1>1 DEF Finds
<1> DEFINE e == ptToTrack[pt]
           d == medias[i]
<1>4. /\ e.track = <<l, i>> /\ e.type = d.type /\ e.rtx = (pt # d.payloads[1].pt)
      /\ e.media = d.payloads[1]
      /\ e.payload = IF pt = d.payloads[1].pt THEN d.payloads[1] ELSE d.payloads[2]
  BY <1>2 DEF Entry
<1>5. /\ d.type \in {"video", "audio"}
      /\ pt = d.payloads[1].pt \/ (d.rtx /\ pt = d.payloads[2].pt)
  BY <1>3 DEF Tracked
<1>6. e.track[2] = i
  BY <1>4
<1>7. e.payload.pt = pt
  BY <1>4, <1>5
<1>8. CASE d.type = "video"
  <2>1. d.payloads[1].pt \in MediaPts /\ (d.rtx => d.payloads[2].pt \in RtxPts)
    BY <1>3, <1>8, Described DEF FromAnswers
  <2> HIDE DEF e, d
  <2>2. \/ e.type = "video" /\ e.rtx = FALSE /\ pt \in MediaPts
        \/ e.type = "video" /\ e.rtx = TRUE /\ pt \in RtxPts
    BY <1>4, <1>5, <1>8, <2>1
  <2>3. QED
    BY <1>4, <1>6, <1>7, <2>2 DEF MediaOf, e, d
<1>9. CASE d.type = "audio"
  <2>1. d.payloads[1].pt \in AudioPts /\ d.rtx = FALSE
    BY <1>3, <1>9, Described DEF AudioDescs, FromAnswers
  <2> HIDE DEF e, d
  <2>2. e.type = "audio" /\ e.rtx = FALSE /\ pt \in AudioPts
    BY <1>4, <1>5, <1>9, <2>1
  <2>3. QED
    BY <1>4, <1>6, <1>7, <2>2 DEF MediaOf, e, d
<1>10. QED
  BY <1>5, <1>8, <1>9

(* What is known of the last answer's video and audio.                     *)
LEMMA LastFits ==
  ASSUME FromAnswers
  PROVE  /\ VideoPts # <<>> =>
              /\ LastAnswer \in Videos /\ VideoPts = LastAnswer.payloads
              /\ VideoPts \in Seq(Payloads) /\ VideoPts[1].pt \in MediaPts
              /\ VideoPts[1].name \in Names
              /\ LastAnswer.rtx => VideoPts[2].pt \in RtxPts
         /\ medias # <<>> /\ LastAudio.payloads # <<>> => LastAudio.payloads[1].pt \in AudioPts
<1>1. medias \in Seq(Descs) /\ Len(medias) = 2 * loads /\ loads \in Nat
      /\ DOMAIN medias = 1 .. 2 * loads
  BY IsSeq DEF FromAnswers, AllFrom
<1>2. CASE medias = <<>>
  BY <1>2 DEF VideoPts
<1>3. CASE medias # <<>>
  <2>1. loads \in 1 .. loads
    BY <1>1, <1>3, IsSeq
  <2>2. PICK answer \in Answers :
          medias[2 * loads - 1] = Parse(answer)[1] /\ medias[2 * loads] = Parse(answer)[2]
    BY <2>1 DEF FromAnswers, AllFrom
  <2>3. LastAnswer = Parse(answer)[1] /\ LastAudio = Parse(answer)[2]
    BY <1>1, <2>2 DEF LastAnswer, LastAudio
  <2>4. LastAnswer \in VideoDescs
    BY <2>3, Parsed
  <2>5. VideoPts = LastAnswer.payloads
    BY <1>3 DEF VideoPts
  <2>6. ASSUME VideoPts # <<>>
        PROVE  /\ LastAnswer \in Videos /\ VideoPts \in Seq(Payloads)
               /\ VideoPts[1].pt \in MediaPts /\ VideoPts[1].name \in Names
               /\ LastAnswer.rtx => VideoPts[2].pt \in RtxPts
    <3>1. LastAnswer.type = "video" /\ VideoPts \in Seq(Payloads)
      BY <2>4, <2>5, <2>6 DEF VideoDescs, Named, Descs
    <3>2. LastAnswer \in Videos
      <4>1. 2 * loads - 1 \in DOMAIN medias /\ LastAnswer = medias[2 * loads - 1]
        BY <1>1, <2>1 DEF LastAnswer
      <4>2. QED
        BY <3>1, <4>1 DEF Videos
    <3>3. VideoPts[1] \in Payloads
      <4>1. VideoPts \in [1 .. Len(VideoPts) -> Payloads] /\ 1 \in 1 .. Len(VideoPts)
        BY <2>6, <3>1, IsSeq
      <4>2. QED
        BY <4>1
    <3>4. VideoPts[1].pt \in MediaPts
      BY <2>3, <2>5, <2>6 DEF MediaPts
    <3>5. LastAnswer.rtx => VideoPts[2].pt \in RtxPts
      BY <2>3, <2>5 DEF RtxPts
    <3>6. QED
      BY <3>1, <3>2, <3>3, <3>4, <3>5 DEF Payloads
  <2>7. LastAudio.payloads # <<>> => LastAudio.payloads[1].pt \in AudioPts
    BY <2>3 DEF AudioPts
  <2>8. QED
    BY <2>5, <2>6, <2>7
<1>4. QED
  BY <1>2, <1>3

(* The tracks that the server's packets find.                              *)
LEMMA VideoEntry ==
  ASSUME FromAnswers, TracksFit, NEW t, OfVideo(t)
  PROVE  LET e == ptToTrack[VideoPts[1].pt]
         IN  /\ t = e.track /\ e.type = "video" /\ e.rtx = FALSE
             /\ medias[t[2]].type = "video" /\ e.media = MediaOf(t)
<1>1. VideoPts[1].pt \in MediaPts /\ VideoPts[1].pt \in DOMAIN ptToTrack
  BY LastFits DEF OfVideo, Known
<1>2. VideoPts[1].pt \notin RtxPts /\ VideoPts[1].pt \notin AudioPts
  BY <1>1, AnswersAssumption
<1>3. QED
  BY <1>1, <1>2, EntryFits DEF OfVideo

(* The second payload type of an answer with retransmissions is theirs.     *)
LEMMA RtxEntry ==
  ASSUME FromAnswers, TracksFit, VideoPts # <<>>, LastAnswer.rtx, Known(VideoPts[2].pt)
  PROVE  LET e == ptToTrack[VideoPts[2].pt]
         IN  /\ e.type = "video" /\ e.rtx = TRUE
             /\ medias[e.track[2]].type = "video" /\ e.media = MediaOf(e.track)
<1>1. VideoPts[2].pt \in RtxPts /\ VideoPts[2].pt \in DOMAIN ptToTrack
  BY LastFits DEF Known
<1>2. VideoPts[2].pt \notin MediaPts /\ VideoPts[2].pt \notin AudioPts
  BY <1>1, AnswersAssumption
<1>3. QED
  BY <1>1, <1>2, EntryFits

(* The payload type of the audio finds the audio track.                    *)
LEMMA AudioEntry ==
  ASSUME FromAnswers, TracksFit, NEW t, OfAudio(t)
  PROVE  LET e == ptToTrack[LastAudio.payloads[1].pt]
         IN  /\ t = e.track /\ e.type = "audio" /\ e.rtx = FALSE
             /\ medias[t[2]].type = "audio" /\ e.media = MediaOf(t)
<1>1. LastAudio.payloads[1].pt \in AudioPts /\ LastAudio.payloads[1].pt \in DOMAIN ptToTrack
  BY LastFits DEF OfAudio, Known
<1>2. LastAudio.payloads[1].pt \notin RtxPts /\ LastAudio.payloads[1].pt \notin MediaPts
  BY <1>1, AnswersAssumption
<1>3. QED
  BY <1>1, <1>2, EntryFits DEF OfAudio

(* An answer adds a pair and changes none of those before.                 *)
LEMMA OneMore ==
  ASSUME NEW all, NEW n, AllFrom(all, n), NEW answer \in Answers
  PROVE  /\ AllFrom(all \o Parse(answer), n + 1)
         /\ \A i \in DOMAIN all :
              i \in DOMAIN (all \o Parse(answer)) /\ (all \o Parse(answer))[i] = all[i]
<1> DEFINE two == Parse(answer)
           more == all \o two
<1>1. n \in Nat /\ all \in Seq(Descs) /\ Len(all) = 2 * n /\ DOMAIN all = 1 .. 2 * n
  BY IsSeq DEF AllFrom
<1>2. /\ two = << two[1], two[2] >> /\ two[1] \in Descs /\ two[2] \in Descs
  BY Parsed DEF VideoDescs, AudioDescs
<1> HIDE DEF two
<1>3. two \in Seq(Descs) /\ Len(two) = 2
  <2>1. << two[1], two[2] >> \in Seq(Descs) /\ Len(<< two[1], two[2] >>) = 2
    BY <1>2
  <2>2. QED
    BY <1>2, <2>1
<1>4. /\ more \in Seq(Descs) /\ Len(more) = 2 * n + 2
      /\ \A i \in 1 .. 2 * n + 2 : more[i] = IF i <= 2 * n THEN all[i] ELSE two[i - 2 * n]
  <2>1. /\ all \o two \in Seq(Descs) /\ Len(all \o two) = Len(all) + Len(two)
        /\ \A i \in 1 .. Len(all) + Len(two) :
             (all \o two)[i] = IF i <= Len(all) THEN all[i] ELSE two[i - Len(all)]
    BY <1>1, <1>3, ConcatProperties, Zenon
  <2>2. QED
    BY <1>1, <1>3, <2>1, Zenon
<1>5. DOMAIN more = 1 .. 2 * n + 2
  BY <1>4, IsSeq
<1> HIDE DEF more
<1>6. ASSUME NEW l \in 1 .. n + 1
      PROVE  \E a \in Answers : more[2 * l - 1] = Parse(a)[1] /\ more[2 * l] = Parse(a)[2]
  <2>1. CASE l <= n
    <3>1. l \in 1 .. n /\ 2 * l - 1 <= 2 * n /\ 2 * l <= 2 * n
      BY <1>1, <2>1
    <3>2. more[2 * l - 1] = all[2 * l - 1] /\ more[2 * l] = all[2 * l]
      BY <1>1, <1>4, <3>1
    <3>3. QED
      BY <3>1, <3>2 DEF AllFrom
  <2>2. CASE l = n + 1
    <3>1. /\ 2 * l - 1 = 2 * n + 1 /\ 2 * l = 2 * n + 2
          /\ (2 * n + 1) - 2 * n = 1 /\ (2 * n + 2) - 2 * n = 2
          /\ 2 * n + 1 \in 1 .. 2 * n + 2 /\ 2 * n + 2 \in 1 .. 2 * n + 2
          /\ ~(2 * n + 1 <= 2 * n) /\ ~(2 * n + 2 <= 2 * n)
      BY <1>1, <2>2
    <3>2. more[2 * l - 1] = two[1] /\ more[2 * l] = two[2]
      BY <1>4, <3>1
    <3>3. QED
      BY <3>2 DEF two
  <2>3. QED
    BY <1>1, <2>1, <2>2
<1>7. AllFrom(more, n + 1)
  <2>1. n + 1 \in Nat /\ 2 * n + 2 = 2 * (n + 1)
    BY <1>1
  <2>2. QED
    BY <1>4, <1>6, <2>1 DEF AllFrom
<1>8. \A i \in DOMAIN all : i \in DOMAIN more /\ more[i] = all[i]
  <2>1. ASSUME NEW i \in 1 .. 2 * n PROVE i \in 1 .. 2 * n + 2 /\ i <= 2 * n
    BY <1>1
  <2>2. QED
    BY <1>1, <1>4, <1>5, <2>1
<1>9. QED
  BY <1>7, <1>8 DEF more, two

(* There is at most one first description of a type.                       *)
LEMMA OneIsFirst ==
  ASSUME NEW all, NEW n, AllFrom(all, n), NEW type, NEW a \in FirstOf(all, type),
         NEW b \in FirstOf(all, type)
  PROVE  a = b
<1>1. DOMAIN all = 1 .. 2 * n /\ n \in Nat
  BY IsSeq DEF AllFrom
<1>2. PICK i \in DOMAIN all :
        a = all[i] /\ all[i].type = type /\ \A j \in 1 .. i - 1 : all[j].type # type
  BY DEF FirstOf
<1>3. PICK k \in DOMAIN all :
        b = all[k] /\ all[k].type = type /\ \A j \in 1 .. k - 1 : all[j].type # type
  BY DEF FirstOf
<1>4. ~(i < k) /\ ~(k < i)
  <2>1. i \in Nat /\ k \in Nat /\ 1 <= i /\ 1 <= k
    BY <1>1
  <2>2. i < k => i \in 1 .. k - 1
    BY <2>1
  <2>3. k < i => k \in 1 .. i - 1
    BY <2>1
  <2>4. QED
    BY <1>2, <1>3, <2>2, <2>3
<1>5. i = k
  BY <1>1, <1>4
<1>6. QED
  BY <1>2, <1>3, <1>5

(* Another answer: its tracks are found by the payload types that find      *)
(* none yet, and its first codecs may get decoders.                        *)
LEMMA LoadKeeps ==
  ASSUME IInv, NEW answer \in Answers, LoadSdp(answer)
  PROVE  IInv'
<1>1. /\ channels = << >> /\ medias' = medias \o Parse(answer) /\ loads' = loads + 1
      /\ UNCHANGED <<channels, rrDue, decoded, sent, stream>>
  BY DEF LoadSdp
<1>2. /\ AllFrom(medias', loads')
      /\ \A i \in DOMAIN medias : i \in DOMAIN medias' /\ medias'[i] = medias[i]
  BY <1>1, OneMore DEF IInv, FromAnswers
<1>3. loads \in Nat /\ DOMAIN medias' = 1 .. 2 * (loads + 1)
  BY <1>1, <1>2, IsSeq DEF AllFrom, IInv, FromAnswers
<1>4. TracksFit'
  <2> SUFFICES ASSUME NEW pt \in DOMAIN ptToTrack' PROVE \E i \in Nat : Finds(pt, i)'
    BY DEF TracksFit
  <2>1. ptToTrack' = [q \in DOMAIN ptToTrack \union
                               UNION {Tracked(medias'[i]) : i \in DOMAIN medias'} |->
          IF q \in DOMAIN ptToTrack THEN ptToTrack[q]
          ELSE Entry(<<loads + 1, FirstWith(q)>>, medias'[FirstWith(q)], q)]
    BY DEF LoadSdp
  <2>2. CASE pt \in DOMAIN ptToTrack
    <3>1. PICK i \in Nat : Finds(pt, i)
      BY <2>2 DEF IInv, TracksFit
    <3>2. ptToTrack'[pt] = ptToTrack[pt]
      BY <2>1, <2>2
    <3>3. Finds(pt, i)'
      BY <1>2, <3>1, <3>2 DEF Finds
    <3>4. QED
      BY <3>3
  <2>3. CASE pt \notin DOMAIN ptToTrack
    <3> DEFINE T == {i \in DOMAIN medias' : pt \in Tracked(medias'[i])}
    <3>1. T \in SUBSET Nat /\ T # {}
      BY <1>3, <2>1, <2>3
    <3>2. PICK f \in T : \A j \in T : f <= j
      BY <3>1, LeastElement
    <3>3. \A j \in 1 .. f - 1 : pt \notin Tracked(medias'[j])
      BY <1>3, <3>2
    <3>4. PICK i \in DOMAIN medias' : i = FirstWith(pt) /\ pt \in Tracked(medias'[i])
      BY <3>2, <3>3 DEF FirstWith
    <3>5. ptToTrack'[pt] = Entry(<<loads + 1, i>>, medias'[i], pt)
      BY <2>1, <2>3, <3>4
    <3>6. loads + 1 \in Nat /\ i \in Nat
      BY <1>3, <3>4
    <3>7. Finds(pt, i)'
      BY <3>4, <3>5, <3>6 DEF Finds
    <3>8. QED
      BY <3>6, <3>7
  <2>4. QED
    BY <2>2, <2>3
<1>5. DecodersFit'
  <2>1. /\ decoders' = [type \in {"video", "audio"} |-> Created(type)]
        /\ DecodersFit
    BY DEF LoadSdp, IInv
  <2> DEFINE named(type) == {desc.payloads[1].name : desc \in FirstOf(medias', type)}
  <2>2. /\ Created("video") = decoders["video"] \/ Created("video") \in named("video")
        /\ \/ Created("audio") = decoders["audio"]
           \/ Created("audio") \in named("audio") /\ named("audio") \intersect {"PCMA", "PCMU"} # {}
    <3>1. ASSUME NEW type \in {"video", "audio"}
          PROVE  \/ Created(type) = decoders[type]
                 \/ Created(type) \in named(type) /\ named(type) \intersect Codecs[type] # {}
      <4> DEFINE S == named(type)
      <4>1. Created(type) = IF decoders[type] # "" \/ S \intersect Codecs[type] = {}
                            THEN decoders[type] ELSE CHOOSE codec \in S : TRUE
        BY DEF Created
      <4> HIDE DEF S
      <4>2. S \intersect Codecs[type] # {} => (CHOOSE codec \in S : TRUE) \in S
        <5>1. S \intersect Codecs[type] # {} => \E codec \in S : TRUE
          OBVIOUS
        <5>2. QED
          BY <5>1
      <4>3. \/ Created(type) = decoders[type]
            \/ Created(type) \in S /\ S \intersect Codecs[type] # {}
        BY <4>1, <4>2
      <4>4. QED
        BY <4>3 DEF S
    <3>2. Codecs["audio"] = {"PCMA", "PCMU"}
      BY DEF Codecs
    <3>3. QED
      BY <3>1, <3>2
  <2>3. DOMAIN decoders' = {"video", "audio"}
        /\ decoders'.video = Created("video") /\ decoders'.audio = Created("audio")
    BY <2>1
  <2>4. Videos \subseteq Videos'
    BY <1>2 DEF Videos
  <2>5. ASSUME decoders'.video # ""
        PROVE  \E desc \in Videos' : desc.payloads[1].name = decoders'.video
    <3>1. CASE decoders'.video = decoders.video
      <4>1. PICK desc \in Videos : desc.payloads[1].name = decoders.video
        BY <2>1, <2>5, <3>1 DEF DecodersFit
      <4>2. QED
        BY <2>4, <3>1, <4>1
    <3>2. CASE decoders'.video \in named("video")
      <4>1. PICK desc \in FirstOf(medias', "video") : decoders'.video = desc.payloads[1].name
        BY <3>2
      <4>2. desc \in Videos'
        BY DEF FirstOf, Videos
      <4>3. QED
        BY <4>1, <4>2
    <3>3. QED
      BY <2>2, <2>3, <3>1, <3>2
  <2>6. decoders'.audio \in {"", "PCMA"}
    <3>1. CASE decoders'.audio = decoders.audio
      BY <2>1, <3>1 DEF DecodersFit
    <3>2. CASE /\ decoders'.audio \in named("audio")
               /\ named("audio") \intersect {"PCMA", "PCMU"} # {}
      <4>1. PICK x \in FirstOf(medias', "audio") : x.payloads[1].name = decoders'.audio
        BY <3>2
      <4>2. PICK y \in FirstOf(medias', "audio") : y.payloads[1].name \in {"PCMA", "PCMU"}
        BY <3>2
      <4>3. x = y
        BY <1>2, OneIsFirst
      <4>4. PICK i \in DOMAIN medias' : x = medias'[i] /\ medias'[i].type = "audio"
        BY DEF FirstOf
      <4>5. x.payloads[1].name # "PCMU"
        BY <1>2, <4>4, Described
      <4>6. QED
        BY <4>1, <4>2, <4>3, <4>5
    <3>3. QED
      BY <2>2, <2>3, <3>1, <3>2
  <2>7. QED
    BY <2>3, <2>5, <2>6 DEF DecodersFit
<1>6. DOMAIN channels = {} /\ decoded = {} /\ stream.counted = 0 /\ ~stream.mixed /\ sent = {}
  BY <1>1, EmptyDomain DEF IInv, ChannelsFit
<1>7. ChannelsFit'
  BY <1>1, <1>6 DEF IInv, ChannelsFit
<1>8. DecodedFits'
  BY <1>1, <1>6 DEF DecodedFits
<1>9. StreamFits'
  BY <1>1 DEF IInv, StreamFits, Missing
<1>10. ReportFits'
  BY <1>1, <1>6 DEF ReportFits
<1>11. QED
  BY <1>2, <1>4, <1>5, <1>7, <1>8, <1>9, <1>10 DEF IInv, FromAnswers

-----------------------------------------------------------------------------
(* What packets do                                                         *)

(* All but LoadSdp leave the session as it is. *)
LEMMA SameSession ==
  ASSUME FromAnswers, TracksFit, DecodersFit, UNCHANGED sessionVars
  PROVE  /\ FromAnswers' /\ TracksFit' /\ DecodersFit'
         /\ medias' = medias /\ decoders' = decoders
         /\ VideoPts' = VideoPts /\ LastAudio' = LastAudio
         /\ \A t : OfVideo(t)' = OfVideo(t) /\ OfAudio(t)' = OfAudio(t) /\ MediaOf(t)' = MediaOf(t)
<1>1. medias' = medias /\ loads' = loads /\ ptToTrack' = ptToTrack /\ decoders' = decoders
  BY DEF sessionVars
<1>2. VideoPts' = VideoPts /\ LastAudio' = LastAudio
  BY <1>1 DEF VideoPts, LastAnswer, LastAudio
<1>3. ASSUME NEW t
      PROVE  OfVideo(t)' = OfVideo(t) /\ OfAudio(t)' = OfAudio(t) /\ MediaOf(t)' = MediaOf(t)
  BY <1>1, <1>2 DEF OfVideo, OfAudio, MediaOf, Known
<1>4. FromAnswers'
  BY <1>1 DEF FromAnswers
<1>5. TracksFit'
  BY <1>1 DEF TracksFit, Finds
<1>6. DecodersFit'
  BY <1>1 DEF DecodersFit, Videos
<1>7. QED
  BY <1>1, <1>2, <1>3, <1>4, <1>5, <1>6

(* No track is both the video's and the audio's. *)
LEMMA VideoOrAudio ==
  ASSUME FromAnswers, TracksFit, NEW t
  PROVE  ~(OfVideo(t) /\ OfAudio(t))
<1>1. SUFFICES ASSUME OfVideo(t), OfAudio(t) PROVE FALSE
  OBVIOUS
<1>2. medias[t[2]].type = "video"
  BY <1>1, VideoEntry
<1>3. medias[t[2]].type = "audio"
  BY <1>1, AudioEntry
<1>4. QED
  BY <1>2, <1>3

(* The channel a packet finds or makes. *)
LEMMA ChannelTyped ==
  ASSUME ChannelsFit, NEW t, NEW ssrc \in {Source, Other}
  PROVE  /\ Channel(t, ssrc) \in Chans
         /\ t \in DOMAIN channels => Channel(t, ssrc) = channels[t] /\ ChannelFits(t)
         /\ t \notin DOMAIN channels =>
              /\ Channel(t, ssrc).ssrc = 0 /\ Channel(t, ssrc).madeFor = ssrc
              /\ Channel(t, ssrc).accepted = {} /\ Channel(t, ssrc).report = RR!NoneCounted
<1>1. CASE t \in DOMAIN channels
  BY <1>1 DEF ChannelsFit, Channel
<1>2. CASE t \notin DOMAIN channels
  <2>1. Channel(t, ssrc) = NewChannel(ssrc)
    BY <1>2 DEF Channel
  <2>2. RR!NoneCounted \in Reports
    BY DEF RR!NoneCounted, Reports
  <2>3. NewChannel(ssrc) \in Chans
    BY <2>2 DEF NewChannel, Chans
  <2>4. QED
    BY <1>2, <2>1, <2>3 DEF NewChannel
<1>3. QED
  BY <1>1, <1>2

Feeds(entry, content) ==
  \/ OfVideo(entry.track) /\ entry.type = "video" /\ content = VideoPts[1].name
  \/ OfAudio(entry.track) /\ entry.type = "audio" /\ content = "PCMA"

(* A packet that is accepted: its channel stays that of its track, what is  *)
(* decoded is its content, and what is sent is about the source.           *)
LEMMA Fed ==
  ASSUME IInv, UNCHANGED sessionVars, NEW entry, NEW ssrc \in {Source, Other}, NEW content,
         NEW counted \in Reports, Feeds(entry, content), MediaOf(entry.track).clock # 0,
         InputRtp(entry, ssrc, content, counted),
         ~stream'.mixed => ~stream.mixed /\ ssrc = Source
  PROVE  /\ ChannelsFit' /\ DecodedFits'
         /\ DOMAIN channels' = DOMAIN channels \union {entry.track}
         /\ channels'[entry.track].report = counted
         /\ \A u \in DOMAIN channels : u # entry.track => channels'[u] = channels[u]
         /\ ~stream'.mixed =>
              \A f \in sent' :
                /\ f.media = Source
                /\ f.kind = "rr" =>
                     LET report == Channel(entry.track, ssrc).report
                     IN  /\ entry.type = "video" /\ f.cycles = report.cycles
                         /\ f.max = report.max /\ f.lost = RR!LostPackets(report)
<1> DEFINE t == entry.track
           was == Channel(t, ssrc)
           lock == [was EXCEPT !.ssrc = ssrc, !.silent = FALSE, !.accepted = @ \union {content}]
           now == [lock EXCEPT !.report = counted]
<1>1. FromAnswers /\ TracksFit /\ DecodersFit /\ ChannelsFit
  BY DEF IInv
<1>2. /\ was \in Chans
      /\ t \in DOMAIN channels => was = channels[t] /\ ChannelFits(t)
      /\ t \notin DOMAIN channels => was.ssrc = 0 /\ was.madeFor = ssrc /\ was.accepted = {}
  BY <1>1, ChannelTyped
<1>3. content \in Names
  BY <1>1, LastFits DEF Feeds, OfVideo, Names
<1>4. /\ was.accepted \subseteq {content}
      /\ t \in DOMAIN channels /\ ~stream.mixed => was.madeFor = Source
  BY <1>1, <1>2, VideoOrAudio DEF Feeds, ChannelFits
<1> HIDE DEF was
<1>5. lock \in Chans /\ lock.ssrc = ssrc /\ lock.madeFor = was.madeFor /\ lock.report = was.report
      /\ lock.accepted = {content}
  BY <1>2, <1>3, <1>4 DEF Chans
<1>6. now \in Chans /\ now.ssrc = ssrc /\ now.madeFor = was.madeFor /\ now.report = counted
      /\ now.accepted = {content}
  <2> HIDE DEF lock
  <2>1. now \in Chans
    BY <1>5 DEF Chans
  <2>2. QED
    BY <1>5, <2>1 DEF Chans
<1> DEFINE reports == IF rrDue /\ entry.type = "video" THEN {Report(entry, lock)} ELSE {}
<1>7. PICK outs \in SUBSET lock.accepted, nacks \in SUBSET {NackRequest(entry, lock)} :
        /\ Decode(entry.type, outs)
        /\ sent' = nacks \union (IF outs = {} THEN {} ELSE reports)
        /\ channels' = [u \in DOMAIN channels \union {t} |->
                          IF u # t THEN channels[u] ELSE now]
  BY DEF InputRtp, was
<1> HIDE DEF lock, now
<1>8. /\ VideoPts' = VideoPts /\ decoders' = decoders
      /\ \A u : OfVideo(u)' = OfVideo(u) /\ OfAudio(u)' = OfAudio(u) /\ MediaOf(u)' = MediaOf(u)
  BY <1>1, SameSession
<1>9. /\ DOMAIN channels' = DOMAIN channels \union {t} /\ channels'[t] = now
      /\ \A u \in DOMAIN channels : u # t => channels'[u] = channels[u]
  BY <1>7
<1>10. ~stream'.mixed => was.madeFor = Source
  BY <1>2, <1>4
<1>11. ChannelsFit'
  <2>1. channels' \in [DOMAIN channels' -> Chans]
    BY <1>1, <1>6, <1>7 DEF ChannelsFit
  <2>2. ASSUME NEW u \in DOMAIN channels' PROVE ChannelFits(u)'
    <3>1. CASE u = t
      <4>1. channels'[u] = now
        BY <1>9, <3>1
      <4>2. \/ OfVideo(u) /\ channels'[u].accepted \subseteq {VideoPts[1].name}
            \/ OfAudio(u) /\ channels'[u].accepted \subseteq {"PCMA"}
        BY <1>6, <3>1, <4>1 DEF Feeds
      <4>3. channels'[u].ssrc # 0 /\ channels'[u].accepted # {}
        BY <1>6, <4>1, TransportAssumption
      <4>4. MediaOf(u).clock # 0
        BY <3>1
      <4>5. ~stream'.mixed => channels'[u].ssrc # Other /\ channels'[u].madeFor = Source
        BY <1>6, <1>10, <4>1, TransportAssumption
      <4>6. QED
        BY <1>8, <4>2, <4>3, <4>4, <4>5 DEF ChannelFits
    <3>2. CASE u # t
      <4>1. u \in DOMAIN channels /\ channels'[u] = channels[u]
        BY <1>9, <3>2
      <4>2. ChannelFits(u)
        BY <1>1, <4>1 DEF ChannelsFit
      <4>3. QED
        BY <1>8, <4>1, <4>2 DEF ChannelFits
    <3>3. QED
      BY <3>1, <3>2
  <2>3. channels' # << >>
    BY <1>9, EmptyDomain
  <2>4. QED
    BY <2>1, <2>2, <2>3 DEF ChannelsFit
<1>12. DecodedFits'
  <2>1. outs \subseteq {content}
    BY <1>5, <1>7
  <2>2. ASSUME NEW d \in decoded'
        PROVE  d.decoder = decoders[entry.type] /\ decoders[entry.type] # "" /\ d.content = content
    <3>1. decoded' = IF decoders[entry.type] = "" THEN {}
                     ELSE {[decoder |-> decoders[entry.type], content |-> c] : c \in outs}
      BY <1>7 DEF Decode
    <3>2. decoders[entry.type] # ""
      BY <2>2, <3>1
    <3>3. PICK c \in outs : d = [decoder |-> decoders[entry.type], content |-> c]
      BY <2>2, <3>1, <3>2
    <3>4. c = content
      BY <2>1
    <3>5. QED
      BY <3>2, <3>3, <3>4
  <2>3. VideoPts # <<>> \/ entry.type = "audio"
    BY DEF Feeds, OfVideo
  <2>4. ASSUME NEW d \in decoded'
        PROVE  \/ d.decoder = decoders.video /\ VideoPts # <<>> /\ d.content = VideoPts[1].name
                  /\ decoders.video # ""
               \/ d.decoder = "PCMA" /\ d.content = "PCMA"
    BY <1>1, <2>2, <2>3 DEF Feeds, DecodersFit
  <2>5. QED
    BY <1>8, <2>4 DEF DecodedFits
<1>13. ASSUME ~stream'.mixed, NEW f \in sent'
       PROVE  /\ f.media = Source
              /\ f.kind = "rr" =>
                   /\ entry.type = "video" /\ f.cycles = was.report.cycles
                   /\ f.max = was.report.max /\ f.lost = RR!LostPackets(was.report)
  <2>1. lock.ssrc = Source /\ lock.madeFor = Source /\ lock.report = was.report
    BY <1>5, <1>10, <1>13
  <2>2. f = NackRequest(entry, lock) \/ (f = Report(entry, lock) /\ entry.type = "video")
    BY <1>7, <1>13
  <2>3. CASE f = NackRequest(entry, lock)
    BY <2>1, <2>3 DEF NackRequest
  <2>4. CASE f = Report(entry, lock) /\ entry.type = "video"
    BY <2>1, <2>4 DEF Report
  <2>5. QED
    BY <2>2, <2>3, <2>4
<1>14. QED
  BY <1>6, <1>9, <1>11, <1>12, <1>13 DEF was

(* A packet that is refused at most makes the channel of its track.        *)
LEMMA Refused ==
  ASSUME IInv, UNCHANGED sessionVars, NEW entry, NEW ssrc \in {Source, Other},
         OfVideo(entry.track) \/ OfAudio(entry.track), Refuse(entry, ssrc),
         stream' = stream,
         ssrc = Other /\ entry.track \notin DOMAIN channels => MediaOf(entry.track).clock = 0
  PROVE  /\ ChannelsFit' /\ DecodedFits' /\ sent' = {}
         /\ DOMAIN channels' = DOMAIN channels \union {entry.track}
         /\ channels'[entry.track].report = Channel(entry.track, ssrc).report
         /\ \A u \in DOMAIN channels : channels'[u] = channels[u]
<1> DEFINE t == entry.track
           was == Channel(t, ssrc)
<1>1. FromAnswers /\ TracksFit /\ DecodersFit /\ ChannelsFit
  BY DEF IInv
<1>2. /\ was \in Chans
      /\ t \in DOMAIN channels => was = channels[t] /\ ChannelFits(t)
      /\ t \notin DOMAIN channels => was.ssrc = 0 /\ was.madeFor = ssrc /\ was.accepted = {}
  BY <1>1, ChannelTyped
<1>3. channels' = [u \in DOMAIN channels \union {t} |-> IF u = t THEN was ELSE channels[u]]
      /\ decoded' = {} /\ sent' = {}
  BY Zenon DEF Refuse
<1> HIDE DEF was
<1>4. /\ VideoPts' = VideoPts
      /\ \A u : OfVideo(u)' = OfVideo(u) /\ OfAudio(u)' = OfAudio(u) /\ MediaOf(u)' = MediaOf(u)
  BY <1>1, SameSession
<1>5. /\ DOMAIN channels' = DOMAIN channels \union {t} /\ channels'[t] = was
      /\ \A u \in DOMAIN channels : channels'[u] = channels[u]
  BY <1>2, <1>3
<1>6. ChannelsFit'
  <2>1. channels' \in [DOMAIN channels' -> Chans]
    BY <1>1, <1>2, <1>3 DEF ChannelsFit
  <2>2. ASSUME NEW u \in DOMAIN channels' PROVE ChannelFits(u)'
    <3>1. CASE u \in DOMAIN channels
      <4>1. ChannelFits(u) /\ channels'[u] = channels[u]
        BY <1>1, <1>5, <3>1 DEF ChannelsFit
      <4>2. QED
        BY <1>4, <4>1 DEF ChannelFits
    <3>2. CASE u \notin DOMAIN channels
      <4>1. u = t /\ channels'[u] = was
        BY <1>5, <3>2
      <4>2. was.ssrc = 0 /\ was.madeFor = ssrc /\ was.accepted = {}
        BY <1>2, <3>2, <4>1
      <4>3. ssrc = Source \/ MediaOf(u).clock = 0
        BY <3>2, <4>1
      <4>4. 0 # Other
        BY TransportAssumption
      <4>5. QED
        BY <1>4, <4>1, <4>2, <4>3, <4>4 DEF ChannelFits
    <3>3. QED
      BY <3>1, <3>2
  <2>3. channels' # << >>
    BY <1>5, EmptyDomain
  <2>4. QED
    BY <2>1, <2>2, <2>3 DEF ChannelsFit
<1>7. DecodedFits'
  BY <1>3 DEF DecodedFits
<1>8. QED
  BY <1>3, <1>5, <1>6, <1>7 DEF was

(* The stream's own counts: what is counted and what may still come late    *)
(* are no more than what the server has sent.                              *)
LEMMA CountsFit ==
  ASSUME StreamFits, NEW p \in Nat \ {0}, p <= stream.newest + 1 + MaxSkip,
         p + MaxLate >= stream.newest, p \notin stream.window, stream' = Counts(p)
  PROVE  StreamFits'
<1> DEFINE N == stream.newest
           late == {q \in 1 .. N : q + MaxLate >= N}
           M == late \ stream.window
           N1 == IF p > N THEN p ELSE N
           W1 == {q \in stream.window \union {p} : q + MaxLate >= N1}
           M1 == {q \in 1 .. N1 : q + MaxLate >= N1} \ W1
<1>1. /\ stream \in Streams /\ stream.first <= N /\ stream.counted + Cardinality(M) <= N
      /\ stream.counted = 0 => N = 0
      /\ N \in Nat /\ stream.counted \in Nat /\ stream.first \in Nat /\ MaxLate \in Nat
  BY Bounds DEF StreamFits, Missing, Streams
<1>2. /\ stream'.newest = N1 /\ stream'.window = W1 /\ stream'.counted = stream.counted + 1
      /\ stream'.first = IF stream.counted = 0 \/ p < stream.first THEN p ELSE stream.first
  BY DEF Counts, NewestOf
<1>3. stream' \in Streams
  <2>1. NewestOf(p) \in Nat /\ p \in Nat
    BY <1>1 DEF NewestOf
  <2>2. {q \in stream.window \union {p} : q + MaxLate >= NewestOf(p)} \in SUBSET Nat
    BY <1>1 DEF Streams
  <2>3. QED
    BY <1>1, <2>1, <2>2 DEF Counts, Streams
<1>4. stream'.first <= stream'.newest
  BY <1>1, <1>2
<1>5. IsFiniteSet(M) /\ Cardinality(M) \in Nat
  <2>1. IsFiniteSet(1 .. N)
    <3>1. 1 \in Int /\ N \in Int
      BY <1>1
    <3>2. QED
      BY <3>1, FS_Interval
  <2>2. M \subseteq 1 .. N
    OBVIOUS
  <2>3. QED
    BY <2>1, <2>2, FS_Subset, FS_CardinalityType
<1>6. Cardinality(M1) + stream.counted + 1 <= N1
  <2>1. CASE p > N
    <3> DEFINE Gap == N + 1 .. p - 1
    <3>1. N1 = p
      BY <2>1
    <3>2. M1 \subseteq M \union Gap
      <4>1. ASSUME NEW q \in M1 PROVE q \in M \union Gap
        <5>1. q \in 1 .. p /\ q + MaxLate >= p /\ q \notin stream.window /\ q # p
          BY <1>1, <3>1, <4>1
        <5>2. CASE q <= N
          BY <1>1, <2>1, <5>1, <5>2
        <5>3. CASE q > N
          BY <1>1, <2>1, <5>1, <5>3
        <5>4. QED
          BY <1>1, <5>1, <5>2, <5>3
      <4>2. QED
        BY <4>1
    <3>3. IsFiniteSet(Gap) /\ Cardinality(Gap) = p - 1 - N
      <4>1. N + 1 \in Int /\ p - 1 \in Int
        BY <1>1
      <4>2. IsFiniteSet(Gap) /\ Cardinality(Gap) = IF N + 1 > p - 1 THEN 0 ELSE (p - 1) - (N + 1) + 1
        BY <4>1, FS_Interval
      <4>3. QED
        BY <1>1, <2>1, <4>2
    <3> HIDE DEF M, M1, Gap
    <3>4. /\ IsFiniteSet(M \union Gap)
          /\ Cardinality(M \union Gap)
               = Cardinality(M) + Cardinality(Gap) - Cardinality(M \intersect Gap)
      BY <1>5, <3>3, FS_Union
    <3>5. Cardinality(M \intersect Gap) \in Nat
      BY <1>5, FS_Intersection, FS_CardinalityType
    <3>6. Cardinality(M1) <= Cardinality(M \union Gap) /\ Cardinality(M1) \in Nat
      BY <3>2, <3>4, FS_Subset, FS_CardinalityType
    <3>7. Cardinality(M \union Gap) <= Cardinality(M) + (p - 1 - N)
      BY <1>1, <1>5, <3>3, <3>4, <3>5
    <3>8. Cardinality(M \union Gap) \in Nat
      BY <3>4, FS_CardinalityType
    <3>9. QED
      BY <1>1, <1>5, <2>1, <3>1, <3>6, <3>7, <3>8
  <2>2. CASE ~(p > N)
    <3>1. N1 = N /\ p \in M
      BY <1>1, <2>2
    <3>2. M1 \subseteq M \ {p}
      BY <1>1, <2>2
    <3> HIDE DEF M, M1
    <3>3. IsFiniteSet(M \ {p}) /\ Cardinality(M \ {p}) = Cardinality(M) - 1
      BY <1>5, <3>1, FS_RemoveElement
    <3>4. Cardinality(M1) <= Cardinality(M \ {p}) /\ Cardinality(M1) \in Nat
      BY <3>2, <3>3, FS_Subset, FS_CardinalityType
    <3>5. QED
      BY <1>1, <1>5, <3>1, <3>3, <3>4
  <2>3. QED
    BY <2>1, <2>2
<1>7. stream'.counted + Cardinality(Missing') <= stream'.newest
  <2>1. Missing' = M1
    BY <1>2 DEF Missing
  <2>2. IsFiniteSet(M1) /\ Cardinality(M1) \in Nat
    <3>1. IsFiniteSet(1 .. N1)
      <4>1. 1 \in Int /\ N1 \in Int
        BY <1>1
      <4> HIDE DEF N1
      <4>2. QED
        BY <4>1, FS_Interval
    <3>2. M1 \subseteq 1 .. N1
      OBVIOUS
    <3>3. QED
      BY <3>1, <3>2, FS_Subset, FS_CardinalityType
  <2> HIDE DEF M1
  <2>3. QED
    BY <1>1, <1>2, <1>6, <2>1, <2>2
<1>8. stream'.counted # 0
  BY <1>1, <1>2
<1>9. QED
  BY <1>3, <1>4, <1>7, <1>8 DEF StreamFits

(* A packet that is not counted changes no report.                         *)
LEMMA ReportsKept ==
  ASSUME IInv, UNCHANGED sessionVars, stream' = stream, NEW t, NEW ssrc \in {Source, Other},
         DOMAIN channels' = DOMAIN channels \union {t},
         channels'[t].report = Channel(t, ssrc).report,
         \A u \in DOMAIN channels : u # t => channels'[u] = channels[u]
  PROVE  StreamFits' /\ ReportFits'
<1>1. FromAnswers /\ TracksFit /\ DecodersFit /\ ChannelsFit /\ StreamFits /\ ReportFits
  BY DEF IInv
<1>2. \A u : OfVideo(u)' = OfVideo(u)
  BY <1>1, SameSession
<1>3. /\ t \in DOMAIN channels => Channel(t, ssrc) = channels[t]
      /\ t \notin DOMAIN channels => Channel(t, ssrc).report = RR!NoneCounted
  BY <1>1, ChannelTyped
<1>4. StreamFits'
  BY <1>1 DEF StreamFits, Missing
<1>5. \A u \in DOMAIN channels : channels'[u].report = channels[u].report
  BY <1>3
<1>6. ASSUME ~stream.mixed, stream.counted = 0, NEW u \in DOMAIN channels', OfVideo(u)
      PROVE  channels'[u].report = RR!NoneCounted
  <2>1. CASE u \in DOMAIN channels
    BY <1>1, <1>5, <1>6, <2>1 DEF ReportFits
  <2>2. CASE u \notin DOMAIN channels
    BY <1>3, <1>6, <2>2
  <2>3. QED
    BY <2>1, <2>2
<1>7. ASSUME ~stream.mixed, stream.counted > 0 /\ ~stream.crossed
      PROVE  \E u \in DOMAIN channels' : OfVideo(u) /\ FollowsStream(channels'[u].report)
  <2>1. PICK u \in DOMAIN channels : OfVideo(u) /\ FollowsStream(channels[u].report)
    BY <1>1, <1>7 DEF ReportFits
  <2>2. u \in DOMAIN channels' /\ channels'[u].report = channels[u].report
    BY <1>5
  <2>3. QED
    BY <2>1, <2>2
<1>8. ReportFits'
  <2>1. ASSUME ~stream'.mixed, stream'.counted = 0, NEW u \in DOMAIN channels', OfVideo(u)'
        PROVE  channels'[u].report = RR!NoneCounted
    BY <1>2, <1>6, <2>1
  <2>2. ASSUME ~stream'.mixed, stream'.counted > 0 /\ ~stream'.crossed
        PROVE  \E u \in DOMAIN channels' : OfVideo(u)' /\ FollowsStream(channels'[u].report)
    BY <1>2, <1>7, <2>2
  <2>3. QED
    BY <2>1, <2>2 DEF ReportFits, FollowsStream
<1>9. QED
  BY <1>4, <1>8

(* What the stream's counts make true of its video channel's report.       *)
LEMMA ReportRight ==
  ASSUME IInv, ~stream.mixed, Countable, NEW t, OfVideo(t), NEW ssrc \in {Source, Other}
  PROVE  LET report == Channel(t, ssrc).report
         IN  /\ report.cycles = Cycle(stream.newest) - Cycle(stream.first)
             /\ report.max = Number(stream.newest)
             /\ RR!LostPackets(report) = stream.newest - stream.first + 1 - stream.counted
<1>1. /\ stream.newest \in Nat /\ stream.first \in Nat /\ stream.counted \in Nat
      /\ stream.counted > 0 /\ ~stream.crossed /\ Number(stream.first) # 0
  BY DEF IInv, StreamFits, Streams, Countable
<1>2. PICK u \in DOMAIN channels : OfVideo(u) /\ FollowsStream(channels[u].report)
  BY <1>1 DEF IInv, ReportFits
<1>3. u = t
  BY <1>2 DEF OfVideo
<1> DEFINE report == Channel(t, ssrc).report
<1>4. report = channels[t].report /\ report \in Reports
  <2>1. ChannelsFit /\ t \in DOMAIN channels
    BY <1>2, <1>3 DEF IInv
  <2>2. Channel(t, ssrc) \in Chans /\ Channel(t, ssrc) = channels[t]
    BY <2>1, ChannelTyped
  <2>3. QED
    BY <2>2 DEF Chans
<1> HIDE DEF report
<1>5. Follows(report, stream.newest, stream.first, stream.counted)
  BY <1>2, <1>3, <1>4 DEF FollowsStream
<1>6. RR!LostPackets(report) = stream.newest - stream.first + 1 - stream.counted
  BY <1>1, <1>4, <1>5, LostIsRight
<1>7. report.cycles = Cycle(stream.newest) - Cycle(stream.first)
      /\ report.max = Number(stream.newest)
  BY <1>5 DEF Follows
<1>8. QED
  BY <1>6, <1>7 DEF report

Truthful ==
  \A f \in sent' : ~stream'.mixed =>
       f.media = Source /\ (f.kind = "rr" /\ Countable => IsRight(f))

(* Feedback on an accepted packet is right.                                *)
LEMMA FedTruthful ==
  ASSUME IInv, UNCHANGED sessionVars, NEW entry, NEW ssrc \in {Source, Other}, NEW content,
         NEW counted \in Reports, Feeds(entry, content), MediaOf(entry.track).clock # 0,
         InputRtp(entry, ssrc, content, counted),
         ~stream'.mixed => ~stream.mixed /\ ssrc = Source
  PROVE  Truthful
<1>1. SUFFICES ASSUME ~stream'.mixed, NEW f \in sent'
               PROVE  f.media = Source /\ (f.kind = "rr" /\ Countable => IsRight(f))
  BY DEF Truthful
<1> DEFINE report == Channel(entry.track, ssrc).report
<1>2. /\ f.media = Source
      /\ f.kind = "rr" => /\ entry.type = "video" /\ f.cycles = report.cycles
                          /\ f.max = report.max /\ f.lost = RR!LostPackets(report)
  BY <1>1, Fed
<1>3. ASSUME f.kind = "rr", Countable PROVE IsRight(f)
  <2>1. OfVideo(entry.track)
    BY <1>2, <1>3 DEF Feeds
  <2>2. /\ report.cycles = Cycle(stream.newest) - Cycle(stream.first)
        /\ report.max = Number(stream.newest)
        /\ RR!LostPackets(report) = stream.newest - stream.first + 1 - stream.counted
    BY <1>1, <1>3, <2>1, ReportRight
  <2> HIDE DEF report
  <2>3. QED
    BY <1>2, <1>3, <2>2 DEF IsRight
<1>4. QED
  BY <1>2, <1>3

(* A packet that is refused keeps the invariant and sends nothing.         *)
LEMMA RefusedKeeps ==
  ASSUME IInv, UNCHANGED sessionVars, NEW entry, NEW ssrc \in {Source, Other},
         OfVideo(entry.track) \/ OfAudio(entry.track), Refuse(entry, ssrc),
         stream' = stream,
         ssrc = Other /\ entry.track \notin DOMAIN channels => MediaOf(entry.track).clock = 0
  PROVE  IInv' /\ Truthful
<1>1. /\ ChannelsFit' /\ DecodedFits' /\ sent' = {}
      /\ DOMAIN channels' = DOMAIN channels \union {entry.track}
      /\ channels'[entry.track].report = Channel(entry.track, ssrc).report
      /\ \A u \in DOMAIN channels : channels'[u] = channels[u]
  BY Refused
<1>2. StreamFits' /\ ReportFits'
  BY <1>1, ReportsKept
<1>3. FromAnswers' /\ TracksFit' /\ DecodersFit'
  BY SameSession DEF IInv
<1>4. QED
  BY <1>1, <1>2, <1>3 DEF IInv, Truthful

(* So does one that is accepted but not counted. *)
LEMMA UncountedKeeps ==
  ASSUME IInv, UNCHANGED sessionVars, NEW entry, NEW ssrc \in {Source, Other}, NEW content,
         Feeds(entry, content), MediaOf(entry.track).clock # 0,
         InputRtp(entry, ssrc, content, Channel(entry.track, ssrc).report),
         stream' = stream, ~stream.mixed => ssrc = Source
  PROVE  IInv' /\ Truthful
<1> DEFINE t == entry.track
           counted == Channel(t, ssrc).report
<1>1. counted \in Reports
  BY ChannelTyped DEF IInv, Chans
<1>2. /\ ChannelsFit' /\ DecodedFits'
      /\ DOMAIN channels' = DOMAIN channels \union {t} /\ channels'[t].report = counted
      /\ \A u \in DOMAIN channels : u # t => channels'[u] = channels[u]
  BY <1>1, Fed
<1>3. StreamFits' /\ ReportFits'
  BY <1>2, ReportsKept
<1>4. FromAnswers' /\ TracksFit' /\ DecodersFit'
  BY SameSession DEF IInv
<1>5. Truthful
  BY <1>1, FedTruthful
<1>6. QED
  BY <1>2, <1>3, <1>4, <1>5 DEF IInv

(* A media packet of the stream.                                           *)
LEMMA ArriveKeeps ==
  ASSUME IInv, NEW p \in 1 .. LastPacket, Arrive(p)
  PROVE  IInv' /\ Truthful
<1> DEFINE entry == ptToTrack[VideoPts[1].pt]
           t == entry.track
           chn == Channel(t, Source)
           name == VideoPts[1].name
           made == RR!Counted(chn.report, Number(p))
<1>1. FromAnswers /\ TracksFit /\ DecodersFit /\ ChannelsFit /\ StreamFits /\ ReportFits
  BY DEF IInv
<1>2. /\ OfVideo(t) /\ UNCHANGED sessionVars /\ p \in Nat \ {0}
      /\ p <= stream.newest + 1 + MaxSkip /\ p + MaxLate >= stream.newest
      /\ p \notin stream.window
  BY DEF Arrive, OfVideo
<1>3. entry.type = "video" /\ entry.media = MediaOf(t)
  BY <1>1, <1>2, VideoEntry
<1>4. /\ chn \in Chans /\ Source \in {Source, Other}
      /\ t \in DOMAIN channels => chn = channels[t]
      /\ t \notin DOMAIN channels => chn.report = RR!NoneCounted
  BY <1>1, ChannelTyped
<1>5. \/ /\ Accepts(entry, chn, Source) /\ InputRtp(entry, Source, name, made)
         /\ stream' = Counts(p)
      \/ Refuse(entry, Source) /\ stream' = stream
  BY DEF Arrive
<1> HIDE DEF entry
<1>6. CASE Refuse(entry, Source) /\ stream' = stream
  <2>1. Source # Other
    BY TransportAssumption
  <2>2. QED
    BY <1>2, <1>4, <1>6, <2>1, RefusedKeeps
<1>7. CASE Accepts(entry, chn, Source) /\ InputRtp(entry, Source, name, made) /\ stream' = Counts(p)
  <2>1. MediaOf(t).clock # 0
    BY <1>3, <1>7 DEF Accepts
  <2>2. Feeds(entry, name)
    BY <1>2, <1>3 DEF Feeds
  <2>3. made \in Reports
    <3>1. chn.report \in Reports /\ Number(p) \in Nat
      BY <1>2, <1>4, Numbered DEF Chans
    <3>2. QED
      BY <3>1, CountedTyped
  <2>4. ~stream'.mixed => ~stream.mixed
    BY <1>7 DEF Counts
  <2> HIDE DEF name, made
  <2>5. /\ ChannelsFit' /\ DecodedFits'
        /\ DOMAIN channels' = DOMAIN channels \union {t} /\ channels'[t].report = made
    BY <1>2, <1>4, <1>7, <2>1, <2>2, <2>3, <2>4, Fed
  <2>6. Truthful
    BY <1>2, <1>4, <1>7, <2>1, <2>2, <2>3, <2>4, FedTruthful
  <2>7. StreamFits'
    BY <1>1, <1>2, <1>7, CountsFit
  <2>8. FromAnswers' /\ TracksFit' /\ DecodersFit' /\ \A u : OfVideo(u)' = OfVideo(u)
    BY <1>1, <1>2, SameSession
  <2>9. ReportFits'
    <3>1. /\ stream.newest \in Nat /\ stream.first \in Nat /\ stream.counted \in Nat
          /\ stream.first <= stream.newest /\ (stream.counted = 0 => stream.newest = 0)
      BY <1>1 DEF StreamFits, Streams
    <3>2. /\ stream'.newest = IF p > stream.newest THEN p ELSE stream.newest
          /\ stream'.first = IF stream.counted = 0 \/ p < stream.first THEN p ELSE stream.first
          /\ stream'.counted = stream.counted + 1
          /\ stream'.crossed = (stream.crossed \/ Cycle(p) < Cycle(stream.newest))
      BY <1>7 DEF Counts, NewestOf
    <3>3. stream'.counted # 0
      BY <3>1, <3>2
    <3>4. ASSUME ~stream.mixed, ~stream'.crossed
          PROVE  Follows(made, stream'.newest, stream'.first, stream'.counted)
      <4>1. Cycle(p) >= Cycle(stream.newest) /\ ~stream.crossed
        <5>1. ~(Cycle(p) < Cycle(stream.newest)) /\ ~stream.crossed
          BY <3>2, <3>4
        <5>2. Cycle(p) \in Nat /\ Cycle(stream.newest) \in Nat
          BY <1>2, <3>1, Numbered
        <5>3. QED
          BY <5>1, <5>2
      <4>2. CASE stream.counted = 0
        <5>1. chn.report = RR!NoneCounted
          BY <1>1, <1>2, <1>4, <3>4, <4>2 DEF ReportFits
        <5>2. stream'.newest = p /\ stream'.first = p /\ stream'.counted = 1 /\ p <= 1 + MaxSkip
          BY <1>2, <3>1, <3>2, <4>2, Bounds
        <5>3. Follows(RR!Counted(RR!NoneCounted, Number(p)), p, p, 1)
          BY <1>2, <3>1, <4>1, <4>2, <5>2, FirstFollows
        <5>4. QED
          BY <5>1, <5>2, <5>3 DEF made
      <4>3. CASE stream.counted # 0
        <5>1. PICK u \in DOMAIN channels : OfVideo(u) /\ FollowsStream(channels[u].report)
          BY <1>1, <3>1, <3>4, <4>1, <4>3 DEF ReportFits
        <5>2. u = t
          BY <1>2, <5>1 DEF OfVideo
        <5>3. /\ Follows(chn.report, stream.newest, stream.first, stream.counted)
              /\ chn.report \in Reports
          BY <1>4, <5>1, <5>2 DEF FollowsStream, Chans
        <5>4. Follows(made, IF p > stream.newest THEN p ELSE stream.newest,
                      IF p < stream.first THEN p ELSE stream.first, stream.counted + 1)
          BY <1>2, <3>1, <4>1, <5>3, CountedFollows DEF made
        <5>5. QED
          BY <3>2, <4>3, <5>4
      <4>4. QED
        BY <4>2, <4>3
    <3>5. PICK u : u = t
      OBVIOUS
    <3>6. u \in DOMAIN channels' /\ OfVideo(u)' /\ channels'[u].report = made
      BY <1>2, <2>5, <2>8, <3>5
    <3>7. QED
      BY <2>4, <3>3, <3>4, <3>6 DEF ReportFits, FollowsStream
  <2>10. QED
    BY <2>5, <2>6, <2>7, <2>8, <2>9 DEF IInv
<1>8. QED
  BY <1>5, <1>6, <1>7

(* A retransmission is fed to the video's channel, under the source that    *)
(* channel is locked to.                                                   *)
LEMMA ArriveRtxKeeps ==
  ASSUME IInv, ArriveRtx
  PROVE  IInv' /\ Truthful
<1> DEFINE entry == ptToTrack[VideoPts[2].pt]
           t == entry.track
           chn == channels[t]
<1>1. FromAnswers /\ TracksFit /\ DecodersFit /\ ChannelsFit
  BY DEF IInv
<1>2. /\ Len(VideoPts) > 1 /\ LastAnswer.rtx /\ Known(VideoPts[2].pt)
      /\ UNCHANGED sessionVars /\ stream' = stream /\ t \in DOMAIN channels
  BY DEF ArriveRtx
<1>3. VideoPts # <<>>
  BY <1>2, EmptySeq
<1>4. /\ entry.type = "video" /\ entry.rtx = TRUE /\ medias[t[2]].type = "video"
      /\ entry.media = MediaOf(t)
  BY <1>1, <1>2, <1>3, RtxEntry
<1>5. /\ Accepts(entry, chn, chn.ssrc) /\ chn.ssrc # 0
      /\ InputRtp(entry, chn.ssrc, VideoPts[1].name, chn.report)
  BY <1>4 DEF ArriveRtx
<1> HIDE DEF entry
<1>6. ChannelFits(t) /\ chn \in Chans
  BY <1>1, <1>2 DEF ChannelsFit
<1>7. OfVideo(t)
  <2>1. ~OfAudio(t)
    BY <1>1, <1>4, AudioEntry
  <2>2. QED
    BY <1>6, <2>1 DEF ChannelFits
<1>8. chn.ssrc \in {Source, Other} /\ (~stream.mixed => chn.ssrc = Source)
  BY <1>5, <1>6 DEF Chans, ChannelFits
<1>9. chn.report = Channel(t, chn.ssrc).report
  BY <1>2 DEF Channel
<1>10. MediaOf(t).clock # 0 /\ Feeds(entry, VideoPts[1].name)
  BY <1>4, <1>5, <1>7 DEF Accepts, Feeds
<1>11. InputRtp(entry, chn.ssrc, VideoPts[1].name, Channel(t, chn.ssrc).report)
  BY <1>5, <1>9
<1>12. QED
  BY <1>2, <1>8, <1>10, <1>11, UncountedKeeps

(* A packet of the other source: from the first one that is accepted on,   *)
(* nothing is promised of the feedback.                                    *)
LEMMA ForeignKeeps ==
  ASSUME IInv, NEW n \in OtherNumbers, Foreign(n)
  PROVE  IInv' /\ Truthful
<1> DEFINE entry == ptToTrack[VideoPts[1].pt]
           t == entry.track
           chn == Channel(t, Other)
           name == VideoPts[1].name
           made == RR!Counted(chn.report, n)
<1>1. FromAnswers /\ TracksFit /\ DecodersFit /\ ChannelsFit /\ StreamFits
  BY DEF IInv
<1>2. OfVideo(t) /\ UNCHANGED sessionVars
  BY DEF Foreign, OfVideo
<1>3. entry.type = "video" /\ entry.media = MediaOf(t)
  BY <1>1, <1>2, VideoEntry
<1>4. /\ chn \in Chans /\ Other \in {Source, Other}
      /\ t \notin DOMAIN channels => chn.ssrc = 0
  BY <1>1, ChannelTyped
<1>5. \/ /\ Accepts(entry, chn, Other) /\ InputRtp(entry, Other, name, made)
         /\ stream' = [stream EXCEPT !.mixed = TRUE]
      \/ ~Accepts(entry, chn, Other) /\ Refuse(entry, Other) /\ stream' = stream
  BY DEF Foreign
<1> HIDE DEF entry
<1>6. CASE ~Accepts(entry, chn, Other) /\ Refuse(entry, Other) /\ stream' = stream
  <2>1. t \notin DOMAIN channels => MediaOf(t).clock = 0
    BY <1>3, <1>4, <1>6 DEF Accepts
  <2>2. QED
    BY <1>2, <1>4, <1>6, <2>1, RefusedKeeps
<1>7. CASE /\ Accepts(entry, chn, Other) /\ InputRtp(entry, Other, name, made)
           /\ stream' = [stream EXCEPT !.mixed = TRUE]
  <2>1. MediaOf(t).clock # 0 /\ Feeds(entry, name)
    BY <1>2, <1>3, <1>7 DEF Accepts, Feeds
  <2>2. made \in Reports
    <3>1. n \in Nat
      BY TransportAssumption
    <3>2. QED
      BY <1>4, <3>1, CountedTyped DEF Chans
  <2>3. /\ stream'.mixed /\ stream' \in Streams
        /\ stream'.newest = stream.newest /\ stream'.first = stream.first
        /\ stream'.counted = stream.counted /\ stream'.window = stream.window
    BY <1>1, <1>7 DEF StreamFits, Streams
  <2> HIDE DEF name, made
  <2>4. ChannelsFit' /\ DecodedFits'
    BY <1>2, <1>4, <1>7, <2>1, <2>2, <2>3, Fed
  <2>5. StreamFits'
    BY <1>1, <2>3 DEF StreamFits, Missing
  <2>6. FromAnswers' /\ TracksFit' /\ DecodersFit'
    BY <1>1, <1>2, SameSession
  <2>7. QED
    BY <2>3, <2>4, <2>5, <2>6 DEF IInv, ReportFits, Truthful
<1>8. QED
  BY <1>5, <1>6, <1>7

(* Audio.                                                                  *)
LEMMA ArriveAudioKeeps ==
  ASSUME IInv, ArriveAudio
  PROVE  IInv' /\ Truthful
<1> DEFINE entry == ptToTrack[LastAudio.payloads[1].pt]
           t == entry.track
           chn == Channel(t, Source)
<1>1. FromAnswers /\ TracksFit /\ DecodersFit /\ ChannelsFit
  BY DEF IInv
<1>2. OfAudio(t) /\ UNCHANGED sessionVars /\ stream' = stream
  BY DEF ArriveAudio, OfAudio
<1>3. entry.type = "audio" /\ entry.media = MediaOf(t)
  BY <1>1, <1>2, AudioEntry
<1>4. \/ Accepts(entry, chn, Source) /\ InputRtp(entry, Source, "PCMA", chn.report)
      \/ Refuse(entry, Source)
  BY DEF ArriveAudio
<1>5. Source \in {Source, Other} /\ Source # Other
  BY TransportAssumption
<1> HIDE DEF entry
<1>6. CASE Refuse(entry, Source)
  BY <1>2, <1>5, <1>6, RefusedKeeps
<1>7. CASE Accepts(entry, chn, Source) /\ InputRtp(entry, Source, "PCMA", chn.report)
  <2>1. MediaOf(t).clock # 0 /\ Feeds(entry, "PCMA")
    BY <1>2, <1>3, <1>7 DEF Accepts, Feeds
  <2>2. QED
    BY <1>2, <1>5, <1>7, <2>1, UncountedKeeps
<1>8. QED
  BY <1>4, <1>6, <1>7

(* Where no channel changes but by falling silent, and nothing is sent.    *)
LEMMA QuietKeeps ==
  ASSUME IInv, UNCHANGED sessionVars, stream' = stream, decoded' = {}, sent' = {},
         \/ channels' = channels
         \/ \E track \in DOMAIN channels : channels' = [channels EXCEPT ![track].silent = TRUE]
  PROVE  IInv' /\ Truthful
<1>1. FromAnswers /\ TracksFit /\ DecodersFit /\ ChannelsFit /\ StreamFits /\ ReportFits
  BY DEF IInv
<1>2. /\ DOMAIN channels' = DOMAIN channels
      /\ channels' \in [DOMAIN channels' -> Chans]
      /\ \A u \in DOMAIN channels :
           /\ channels'[u].ssrc = channels[u].ssrc
           /\ channels'[u].madeFor = channels[u].madeFor
           /\ channels'[u].accepted = channels[u].accepted
           /\ channels'[u].report = channels[u].report
  <2>1. CASE channels' = channels
    BY <1>1, <2>1 DEF ChannelsFit
  <2>2. CASE \E track \in DOMAIN channels : channels' = [channels EXCEPT ![track].silent = TRUE]
    <3>1. PICK track \in DOMAIN channels : channels' = [channels EXCEPT ![track].silent = TRUE]
      BY <2>2
    <3>2. /\ DOMAIN channels' = DOMAIN channels
          /\ \A u \in DOMAIN channels :
               /\ channels[u] \in Chans
               /\ channels'[u] = IF u = track THEN [channels[u] EXCEPT !.silent = TRUE]
                                 ELSE channels[u]
      BY <1>1, <3>1 DEF ChannelsFit
    <3>3. ASSUME NEW c \in Chans
          PROVE  LET d == [c EXCEPT !.silent = TRUE]
                 IN  /\ d \in Chans /\ d.ssrc = c.ssrc /\ d.madeFor = c.madeFor
                     /\ d.accepted = c.accepted /\ d.report = c.report
      BY DEF Chans
    <3>4. \A u \in DOMAIN channels :
            /\ channels'[u] \in Chans
            /\ channels'[u].ssrc = channels[u].ssrc
            /\ channels'[u].madeFor = channels[u].madeFor
            /\ channels'[u].accepted = channels[u].accepted
            /\ channels'[u].report = channels[u].report
      BY <3>2, <3>3
    <3>5. channels' \in [DOMAIN channels' -> Chans]
      BY <3>1, <3>2, <3>4
    <3>6. QED
      BY <3>2, <3>4, <3>5
  <2>3. QED
    BY <2>1, <2>2
<1>3. /\ FromAnswers' /\ TracksFit' /\ DecodersFit' /\ VideoPts' = VideoPts
      /\ \A u : OfVideo(u)' = OfVideo(u) /\ OfAudio(u)' = OfAudio(u) /\ MediaOf(u)' = MediaOf(u)
  BY <1>1, SameSession
<1>4. ChannelsFit'
  <2>1. ASSUME NEW u \in DOMAIN channels' PROVE ChannelFits(u)'
    <3>1. u \in DOMAIN channels /\ ChannelFits(u)
      BY <1>1, <1>2 DEF ChannelsFit
    <3>2. QED
      BY <1>2, <1>3, <3>1 DEF ChannelFits
  <2>2. channels' = << >> => channels = << >>
    <3>1. ASSUME channels' = << >> PROVE channels = << >>
      <4>1. DOMAIN channels = {} /\ channels \in [DOMAIN channels -> Chans]
        BY <1>1, <1>2, <3>1, EmptyDomain DEF ChannelsFit
      <4>2. << >> \in [{} -> Chans]
        <5>1. << >> \in Seq(Chans)
          BY EmptySeq
        <5>2. << >> \in [1 .. Len(<< >>) -> Chans] /\ DOMAIN << >> = 1 .. Len(<< >>)
          BY <5>1, IsSeq
        <5>3. QED
          BY <5>2, EmptyDomain
      <4>3. QED
        BY <4>1, <4>2
    <3>2. QED
      BY <3>1
  <2>3. QED
    BY <1>1, <1>2, <2>1, <2>2 DEF ChannelsFit
<1>5. DecodedFits' /\ Truthful
  BY DEF DecodedFits, Truthful
<1>6. StreamFits'
  BY <1>1 DEF StreamFits, Missing
<1>7. ReportFits'
  BY <1>1, <1>2, <1>3 DEF ReportFits, FollowsStream
<1>8. QED
  BY <1>3, <1>4, <1>5, <1>6, <1>7 DEF IInv

(* Every step keeps the invariant, and its feedback is right.              *)
LEMMA StepKeeps ==
  ASSUME IInv, Next
  PROVE  IInv' /\ Truthful
<1>1. CASE \E answer \in Answers : LoadSdp(answer)
  <2>1. PICK answer \in Answers : LoadSdp(answer)
    BY <1>1
  <2>2. IInv'
    BY <2>1, LoadKeeps
  <2>3. sent' = {}
    BY <2>1 DEF IInv, ChannelsFit, LoadSdp
  <2>4. QED
    BY <2>2, <2>3 DEF Truthful
<1>2. CASE \E p \in 1 .. LastPacket : Arrive(p)
  BY <1>2, ArriveKeeps
<1>3. CASE ArriveRtx
  BY <1>3, ArriveRtxKeeps
<1>4. CASE \E n \in OtherNumbers : Foreign(n)
  BY <1>4, ForeignKeeps
<1>5. CASE ArriveAudio
  BY <1>5, ArriveAudioKeeps
<1>6. CASE Unknown
  BY <1>6, QuietKeeps DEF Unknown
<1>7. CASE ReportDue
  BY <1>7, QuietKeeps DEF ReportDue
<1>8. CASE \E track \in DOMAIN channels : Silence(track)
  BY <1>8, QuietKeeps DEF Silence
<1>9. QED
  BY <1>1, <1>2, <1>3, <1>4, <1>5, <1>6, <1>7, <1>8 DEF Next

(* The invariant holds first.                                              *)
LEMMA InitFits == Init => IInv
<1> SUFFICES ASSUME Init PROVE IInv
  OBVIOUS
<1>1. /\ medias = << >> /\ loads = 0 /\ ptToTrack = << >> /\ channels = << >>
      /\ decoders = [video |-> "", audio |-> ""] /\ decoded = {} /\ sent = {}
      /\ stream = [newest |-> 0, first |-> 0, window |-> {}, counted |-> 0,
                   mixed |-> FALSE, crossed |-> FALSE]
  BY DEF Init
<1>2. FromAnswers
  <2>1. << >> \in Seq(Descs) /\ Len(<< >>) = 0
    BY EmptySeq
  <2>2. \A l \in 1 .. 0 : FALSE
    OBVIOUS
  <2>3. AllFrom(<< >>, 0)
    BY <2>1, <2>2 DEF AllFrom
  <2>4. QED
    BY <1>1, <2>3 DEF FromAnswers
<1>3. TracksFit /\ DecodersFit /\ DecodedFits
  BY <1>1, EmptyDomain DEF TracksFit, DecodersFit, DecodedFits
<1>4. ChannelsFit
  <2>1. << >> \in Seq(Chans)
    BY EmptySeq
  <2>2. << >> \in [1 .. Len(<< >>) -> Chans] /\ DOMAIN << >> = 1 .. Len(<< >>)
    BY <2>1, IsSeq
  <2>3. QED
    BY <1>1, <2>2, EmptyDomain DEF ChannelsFit
<1>5. StreamFits
  <2>1. stream.newest = 0 /\ stream.first = 0 /\ stream.counted = 0 /\ stream \in Streams
    BY <1>1 DEF Streams
  <2>2. Missing = {}
    <3>1. \A q \in 1 .. 0 : FALSE
      OBVIOUS
    <3>2. QED
      BY <2>1, <3>1 DEF Missing
  <2>3. Cardinality({}) = 0
    BY FS_EmptySet
  <2>4. QED
    BY <2>1, <2>2, <2>3 DEF StreamFits
<1>6. ReportFits
  <2>1. stream.counted = 0 /\ DOMAIN channels = {}
    BY <1>1, EmptyDomain
  <2>2. QED
    BY <2>1 DEF ReportFits
<1>7. QED
  BY <1>2, <1>3, <1>4, <1>5, <1>6 DEF IInv

(* The strengthened invariant holds in every state.                        *)
THEOREM Invariant == Spec => []IInv
<1>1. IInv /\ UNCHANGED vars => IInv'
  <2> SUFFICES ASSUME IInv, UNCHANGED vars PROVE IInv'
    OBVIOUS
  <2>1. UNCHANGED sessionVars /\ UNCHANGED <<channels, decoded, sent, stream>>
    BY DEF vars
  <2>2. /\ FromAnswers' /\ TracksFit' /\ DecodersFit' /\ VideoPts' = VideoPts
        /\ decoders' = decoders
        /\ \A u : OfVideo(u)' = OfVideo(u) /\ OfAudio(u)' = OfAudio(u) /\ MediaOf(u)' = MediaOf(u)
    BY <2>1, SameSession DEF IInv
  <2>3. ChannelsFit' /\ DecodedFits' /\ StreamFits' /\ ReportFits'
    BY <2>1, <2>2 DEF IInv, ChannelsFit, ChannelFits, DecodedFits, StreamFits, Missing,
                      ReportFits, FollowsStream
  <2>4. QED
    BY <2>2, <2>3 DEF IInv
<1>2. IInv /\ [Next]_vars => IInv'
  BY <1>1, StepKeeps
<1>3. QED
  BY InitFits, <1>2, PTL DEF Spec

(* TypeOK: channels belong to tracks that packets find, their lock and     *)
(* what they accepted fit the last answer, and no more packets are counted  *)
(* than were sent.                                                         *)
THEOREM TypeCorrect == Spec => []TypeOK
<1>1. ASSUME IInv PROVE TypeOK
  <2>1. FromAnswers /\ TracksFit /\ ChannelsFit /\ StreamFits
    BY <1>1 DEF IInv
  <2>2. Len(medias) = 2 * loads
    BY <2>1 DEF FromAnswers, AllFrom
  <2>3. \A pt \in DOMAIN ptToTrack : ptToTrack[pt].payload.pt = pt
    BY <2>1, EntryFits
  <2>4. ASSUME NEW t \in DOMAIN channels
        PROVE  /\ \E pt \in DOMAIN ptToTrack :
                    /\ ptToTrack[pt].track = t
                    /\ channels[t].ssrc # 0 => ptToTrack[pt].media.clock # 0
               /\ channels[t].ssrc \in {0, Source, Other}
               /\ channels[t].accepted \subseteq Contents
               /\ channels[t].ssrc = 0 <=> channels[t].accepted = {}
    <3>1. ChannelFits(t) /\ channels[t] \in Chans
      BY <2>1 DEF ChannelsFit
    <3>2. PICK pt \in DOMAIN ptToTrack : ptToTrack[pt].track = t /\ ptToTrack[pt].media = MediaOf(t)
      <4>1. CASE OfVideo(t)
        BY <2>1, <4>1, VideoEntry DEF OfVideo, Known
      <4>2. CASE OfAudio(t)
        BY <2>1, <4>2, AudioEntry DEF OfAudio, Known
      <4>3. QED
        BY <3>1, <4>1, <4>2 DEF ChannelFits
    <3>3. channels[t].accepted \subseteq Contents
      <4>1. CASE OfAudio(t) /\ channels[t].accepted \subseteq {"PCMA"}
        BY <4>1 DEF Contents
      <4>2. CASE OfVideo(t) /\ channels[t].accepted \subseteq {VideoPts[1].name}
        <5>1. VideoPts \in Seq(Payloads) /\ VideoPts # <<>>
          BY <2>1, <4>2, LastFits DEF OfVideo
        <5>2. 1 \in DOMAIN VideoPts
          BY <5>1, IsSeq
        <5>3. QED
          BY <4>2, <5>2 DEF Contents
      <4>3. QED
        BY <3>1, <4>1, <4>2 DEF ChannelFits
    <3>4. QED
      BY <3>1, <3>2, <3>3 DEF ChannelFits, Chans
  <2>5. stream.first <= stream.newest /\ stream.counted <= stream.newest
    <3>1. /\ stream.counted + Cardinality(Missing) <= stream.newest
          /\ stream.first <= stream.newest
          /\ stream.newest \in Nat /\ stream.counted \in Nat
      BY <2>1 DEF StreamFits, Streams
    <3>2. IsFiniteSet(1 .. stream.newest)
      <4>1. 1 \in Int /\ stream.newest \in Int
        BY <3>1
      <4>2. QED
        BY <4>1, FS_Interval
    <3>3. Missing \subseteq 1 .. stream.newest
      BY DEF Missing
    <3>4. Cardinality(Missing) \in Nat
      BY <3>2, <3>3, FS_Subset, FS_CardinalityType
    <3>5. QED
      BY <3>1, <3>4
  <2>6. QED
    BY <2>2, <2>3, <2>4, <2>5 DEF TypeOK
<1>2. QED
  BY <1>1, Invariant, PTL

(* OnlyMediaIsDecoded: where the answers agree on the video codec, what a  *)
(* decoder gets is of its codec, and no retransmission is decoded that was *)
(* not restored.                                                           *)
THEOREM MediaOnly == Spec => []OnlyMediaIsDecoded
<1>1. ASSUME IInv PROVE OnlyMediaIsDecoded
  <2> SUFFICES ASSUME Agreed, NEW d \in decoded PROVE d.decoder = d.content
    BY DEF OnlyMediaIsDecoded
  <2>1. CASE d.decoder = "PCMA" /\ d.content = "PCMA"
    BY <2>1
  <2>2. CASE /\ d.decoder = decoders.video /\ VideoPts # <<>> /\ d.content = VideoPts[1].name
             /\ decoders.video # ""
    <3>1. PICK desc \in Videos : desc.payloads[1].name = decoders.video
      BY <1>1, <2>2 DEF IInv, DecodersFit
    <3>2. LastAnswer \in Videos /\ VideoPts = LastAnswer.payloads
      BY <1>1, <2>2, LastFits DEF IInv
    <3>3. QED
      BY <2>2, <3>1, <3>2 DEF Agreed
  <2>3. QED
    BY <1>1, <2>1, <2>2 DEF IInv, DecodedFits
<1>2. QED
  BY <1>1, Invariant, PTL

(* FeedbackTellsTheTruth: until sources mix, requests and reports name the  *)
(* stream's source, and a report tells how far the stream has got, over     *)
(* wraps of its numbers, and how much of it is missing.                    *)
THEOREM FeedbackIsTrue == Spec => FeedbackTellsTheTruth
<1>1. IInv /\ [Next]_vars => [Truthful]_vars
  BY StepKeeps
<1>2. QED
  BY <1>1, Invariant, PTL DEF Spec, FeedbackTellsTheTruth, Truthful

=============================================================================
