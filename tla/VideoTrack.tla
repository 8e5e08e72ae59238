----------------------------- MODULE VideoTrack -----------------------------
(***************************************************************************)
(* What happens to a frame behind the depacketizer, in one call: H264Track *)
(* or H265Track keeps the parameter sets and puts them in front of each    *)
(* key frame, MediaSource and RtcTransport pass frames on, and the         *)
(* callback of PeerConnection hands them to the application.  The state is *)
(* a record:                                                               *)
(*   sets    _vps, _sps and _pps: the unit each was taken from, 0 if empty *)
(*   told    _setVideoParam: video_param_cb was called                     *)
(*   extra   the parameter sets in _videoParam.extra                       *)
(*   shown   the frames of the last call that video_frame_cb got           *)
(***************************************************************************)
EXTENDS RtpPayload

Codecs == {"h264", "h265"}

(* The order in which insertConfigFrame puts the sets before a key frame.  *)
H264Sets == <<"sps", "pps">>
H265Sets == <<"vps", "sps", "pps">>
Sets(codec) == IF codec = "h264" THEN H264Sets ELSE H265Sets

NewTrack == [sets |-> [k \in SetKinds |-> 0], told |-> FALSE, extra |-> << >>, shown |-> << >>]

H264Ready(t) == t.sets["sps"] # 0 /\ t.sets["pps"] # 0
H265Ready(t) == t.sets["sps"] # 0 /\ t.sets["pps"] # 0 /\ t.sets["vps"] # 0

-----------------------------------------------------------------------------
(* The callback of PeerConnection: the first key frame makes it tell the   *)
(* video parameters, with the sets that came before it; later sets are     *)
(* dropped; any other frame is shown.                                      *)
OnConfigFrameAlways(t, frame) == [t EXCEPT !.extra = Append(@, frame[1])]
OnConfigFrame(t, frame) == IF t.told THEN t ELSE [t EXCEPT !.extra = Append(@, frame[1])]
OnFrame(t, frame) ==
  [t EXCEPT !.told = @ \/ KeyFrame(frame), !.shown = Append(@, frame)]

(* insertConfigFrame: a frame for each parameter set the track has. *)
InsertConfigFrame(t, kinds) ==
  LET inserted[i \in 0 .. Len(kinds)] ==
        IF i = 0 THEN t
        ELSE LET k == kinds[i]  before == inserted[i - 1]
             IN  IF t.sets[k] = 0 THEN before
                 ELSE OnConfigFrame(before, <<Whole(t.sets[k], k)>>)
  IN  inserted[Len(kinds)]

InputFrame1(t, frame, kinds) ==
  CASE ConfigFrame(frame) -> [t EXCEPT !.sets[Kind(frame)] = frame[1].unit]
    [] KeyFrame(frame)    -> OnFrame(InsertConfigFrame(t, kinds), frame)
    [] OTHER              -> OnFrame(t, frame)

(* inputFrame: a frame that needs the parameter sets is dropped without.   *)
NeverWaits(t, frame) == FALSE
H264Waits(t, frame) == Kind(frame) \in SliceKinds /\ ~H264Ready(t)
H265Waits(t, frame) == ~ConfigFrame(frame) /\ Kind(frame) # "sei" /\ ~H265Ready(t)

H264InputFrame(t, frame) ==
  IF H264Waits(t, frame) THEN t ELSE InputFrame1(t, frame, H264Sets)
H265InputFrame(t, frame) ==
  IF H265Waits(t, frame) THEN t ELSE InputFrame1(t, frame, H265Sets)

(* The frames a packet completes go through the track one by one.          *)
InputFrames(codec, track, frames) ==
  LET after[i \in 0 .. Len(frames)] ==
        IF i = 0 THEN [track EXCEPT !.shown = << >>]
        ELSE IF codec = "h264" THEN H264InputFrame(after[i - 1], frames[i])
             ELSE H265InputFrame(after[i - 1], frames[i])
  IN  after[Len(frames)]
=============================================================================
