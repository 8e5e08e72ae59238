--------------------------- MODULE MCRtcTransport ----------------------------
(* Model-checks RtcTransport with up to two answers of a few shapes. *)
EXTENDS RtcTransport

MLine(media, pts) == [tag |-> "m", media |-> media, pts |-> pts]
Rtpmap(pt, name, clock, parts) ==
  [tag |-> "rtpmap", pt |-> pt, name |-> name, clock |-> clock, parts |-> parts]
SsrcLine == [tag |-> "ssrc", ssrc |-> 3]
Fid == [tag |-> "FID", ssrc |-> 1, rtx |-> 2]

Pcma == << MLine("audio", <<100>>), Rtpmap(100, "PCMA", 8, 3), SsrcLine >>

MCAnswers == {
  \* one video codec with its retransmissions, and audio
  << MLine("video", <<96, 97>>), Rtpmap(96, "h264", 90, 2), Rtpmap(97, "rtx", 90, 2), Fid >>
    \o Pcma,
  \* a payload type for retransmissions without a source of them, audio first
  \* and its rtpmap without channels
  << MLine("audio", <<100>>), Rtpmap(100, "PCMA", 8, 2), SsrcLine,
     MLine("video", <<96, 97>>), Rtpmap(96, "h264", 90, 2), Rtpmap(97, "rtx", 90, 2) >>,
  \* the other codec, and data
  << MLine("video", <<98, 99>>), Rtpmap(98, "h265", 90, 2), Rtpmap(99, "rtx", 90, 2), Fid >>
    \o Pcma \o << MLine("application", <<0>>) >>,
  \* the first codec under the payload types of another answer
  << MLine("video", <<98, 99>>), Rtpmap(98, "h264", 90, 2), Rtpmap(99, "rtx", 90, 2), Fid >>,
  \* audio only
  Pcma }
=============================================================================
