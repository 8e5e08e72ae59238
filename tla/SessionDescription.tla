------------------------- MODULE SessionDescription -------------------------
(***************************************************************************)
(* Reading an answer: Sdp::parse of src/peer/Sdp.cpp.  An answer is the    *)
(* sequence of its lines that matter: m-lines [tag |-> "m", media, pts],   *)
(* rtpmap lines [tag |-> "rtpmap", pt, name, clock, parts], where parts    *)
(* counts what is between the slashes, ssrc-group:FID lines [tag |-> "FID", *)
(* ssrc, rtx] and ssrc lines [tag |-> "ssrc", ssrc].                        *)
(***************************************************************************)
EXTENDS Naturals, Sequences

Lines ==
  [tag : {"m"}, media : STRING \ {""}, pts : Seq(Nat) \ {<<>>}]
    \union [tag : {"rtpmap"}, pt : Nat, name : STRING, clock : Nat, parts : Nat]
    \union [tag : {"FID"}, ssrc : Nat, rtx : Nat]
    \union [tag : {"ssrc"}, ssrc : Nat]

NoDesc == [type |-> "", payloads |-> <<>>, rtx |-> FALSE, ssrc |-> 0, rtxSsrc |-> 0]

(* The media of the last m-line up to line i, "" before the first one.     *)
MediaAt(answer, i) ==
  LET section == {j \in 1 .. i : answer[j].tag = "m"}
  IN  IF section = {} THEN ""
      ELSE answer[CHOOSE last \in section : \A j \in section : j <= last].media

(* An m-line names the type, also where another one has done so already,    *)
(* and adds its payloads.                                                  *)
WithMedia(desc, line) ==
  [desc EXCEPT !.type = line.media,
               !.payloads = @ \o [i \in DOMAIN line.pts |->
                                    [pt |-> line.pts[i], clock |-> 0, name |-> ""]]]

WithRtpmap(desc, line, parts) ==
  IF line.parts # parts THEN desc
  ELSE [desc EXCEPT !.payloads = [i \in DOMAIN @ |->
          IF @[i].pt = line.pt THEN [@[i] EXCEPT !.clock = line.clock, !.name = line.name] ELSE @[i]]]

VideoLine(desc, line) ==
  CASE line.tag = "m"      -> WithMedia(desc, line)
    [] line.tag = "rtpmap" -> WithRtpmap(desc, line, 2)
    [] line.tag = "FID"    -> [desc EXCEPT !.rtx = TRUE, !.ssrc = line.ssrc, !.rtxSsrc = line.rtx]
    [] OTHER -> desc

AudioLine(desc, line) ==
  CASE line.tag = "m"      -> WithMedia(desc, line)
    [] line.tag = "rtpmap" -> WithRtpmap(desc, line, 3)
    [] line.tag = "ssrc"   -> [desc EXCEPT !.ssrc = line.ssrc]
    [] OTHER -> desc

(* From the first m-line on, every line goes to the video description      *)
(* while the last m-line is a video line, to the audio description else.   *)
Turn(desc, answer, i, video) ==
  CASE video /\ MediaAt(answer, i) = "video" -> VideoLine(desc, answer[i])
    [] ~video /\ MediaAt(answer, i) \notin {"", "video"} -> AudioLine(desc, answer[i])
    [] OTHER -> desc

DescOf(answer, video) ==
  LET read[i \in 0 .. Len(answer)] ==
        IF i = 0 THEN NoDesc ELSE Turn(read[i - 1], answer, i, video)
  IN  read[Len(answer)]

(* What parse adds to medias: a video and an audio description, always.    *)
Parse(answer) == << DescOf(answer, TRUE), DescOf(answer, FALSE) >>

(* videoDesc() and audioDesc(): the first one of its type, as a set.       *)
FirstOf(medias, type) ==
  {medias[i] : i \in {k \in DOMAIN medias :
      medias[k].type = type /\ \A j \in 1 .. k - 1 : medias[j].type # type}}
=============================================================================
