----------------------------- MODULE MediaPath ------------------------------
(***************************************************************************)
(* Everything behind the receive channels: VideoPath, the audio stream     *)
(* through its depacketizer, and the decoding times that the video         *)
(* depacketizers ask DtsGenerator for.  The three share no state: RtcDemuxer *)
(* gives each packet to the decoder of its media type, and outputFrame     *)
(* asks for a time whether or not the frame is output.  So a behaviour has  *)
(* one of them move, and the others wait.                                  *)
(***************************************************************************)
EXTENDS VideoPath

CONSTANTS
  MaxFrameSize,   \* _max_frame_size of the audio depacketizer, in packets
  LastAudio,      \* bound: packets the audio sender sends
  Groups,         \* bound: orders in which encoders show a group's pictures
  FirstPts,       \* bound: times of the first picture
  PictureTime,    \* time between two pictures
  LastPicture     \* bound: pictures that are sent

ASSUME MediaAssumption ==
  /\ {MaxFrameSize, LastAudio, PictureTime, LastPicture} \subseteq Nat \ {0}
  /\ FirstPts \subseteq Nat /\ Groups \subseteq Seq(Nat)
  /\ \A order \in Groups :
       /\ {order[i] : i \in DOMAIN order} = 1 .. Len(order)
       \* no picture is sent half a group after its turn
       /\ \A i \in DOMAIN order : 2 * (i - 1 - order[i]) < Len(order)

VARIABLES
  audio,      \* RtcDemuxer::_audioDecoder
  audioSent,  \* packets the audio sender sent
  audioStamp, \* their time stamp
  heard,      \* what arrived since the depacketizer began a frame
  generator,  \* _dts_generator
  group,      \* the order in which the encoder's pictures are shown, once chosen
  first,      \* when its first picture is shown
  pictures    \* pictures sent

audioVars == <<audio, audioSent, audioStamp, heard>>
pictureVars == <<generator, group, first, pictures>>
mediaVars == <<vars, audioVars, pictureVars>>

Audio == INSTANCE G711RtpDecoder
Dts   == INSTANCE DtsGenerator

-----------------------------------------------------------------------------
(* The audio sender: packets of one time stamp are a frame, some are empty, *)
(* and some are lost.                                                      *)
SendAudio(next, empty, lost) ==
  LET p == [seq |-> (Start + audioSent') % SeqMod, stamp |-> audioStamp']
  IN  /\ sent = 0 /\ group = << >>
      /\ audioSent < LastAudio /\ audioSent' = audioSent + 1
      /\ audioStamp' = IF next THEN audioStamp + 1 ELSE audioStamp
      /\ IF lost \/ empty
         THEN audio' = Audio!IgnoreEmpty(audio) /\ UNCHANGED heard
         ELSE /\ audio' = Audio!InputRtp(audio, p)
              /\ heard' = IF Audio!EndsFrame(audio, p) THEN <<p>> ELSE Append(heard, p)
      /\ UNCHANGED <<vars, pictureVars>>

(* The encoder: a key picture, then groups of pictures that are sent in one *)
(* order and shown in another.                                             *)
ShownAt(n) ==
  LET place == ((n - 1) % Len(group)) + 1
  IN  IF n = 0 THEN first ELSE first + PictureTime * (n - place + group[place])

ChooseOrder(order, time) ==
  /\ sent = 0 /\ audioSent = 0 /\ group = << >>
  /\ group' = order /\ first' = time
  /\ UNCHANGED <<vars, audioVars, generator, pictures>>

PicturesMayMove == group # << >> /\ UNCHANGED <<vars, audioVars, group, first>>

(* outputFrame on the first unit of a picture, or on another one of it.    *)
Picture ==
  /\ PicturesMayMove
  /\ pictures < LastPicture /\ pictures' = pictures + 1
  /\ generator' = Dts!GetDts(generator, ShownAt(pictures))
PictureAgain ==
  /\ PicturesMayMove
  /\ pictures > 0 /\ generator.lastPts = ShownAt(pictures - 1)
  /\ generator' = Dts!GetDts(generator, generator.lastPts)
  /\ UNCHANGED pictures
PictureLost ==
  /\ PicturesMayMove
  /\ pictures < LastPicture /\ pictures' = pictures + 1
  /\ UNCHANGED generator

SendVideo == audioSent = 0 /\ group = << >> /\ Next /\ UNCHANGED <<audioVars, pictureVars>>

MediaInit ==
  /\ Init
  /\ audio = Audio!NewDecoder /\ audioSent = 0 /\ audioStamp = 0 /\ heard = << >>
  /\ generator = Dts!NewGenerator /\ pictures = 0
  /\ group = << >> /\ first = 0

MediaNext ==
  \/ SendVideo
  \/ \E next, empty, lost \in BOOLEAN : SendAudio(next, empty, lost)
  \/ \E order \in Groups, time \in FirstPts : ChooseOrder(order, time)
  \/ Picture
  \/ PictureAgain
  \/ PictureLost

MediaSpec == MediaInit /\ [][MediaNext]_mediaVars

-----------------------------------------------------------------------------
(* An audio frame does not outgrow its limit by more than its last packet. *)
MediaTypeOK ==
  /\ TypeOK
  /\ audio.last \in 0 .. SeqMod - 1 /\ audio.stamp <= audioStamp
  /\ audio.drop \in BOOLEAN /\ (audio.drop => audio.buffer = << >>)
  /\ Len(audio.buffer) <= MaxFrameSize + 1
  /\ generator.sorter \subseteq Nat /\ generator.known \in BOOLEAN
  /\ group \in Groups \union {<< >>} /\ pictures \in 0 .. LastPicture

(***************************************************************************)
(* No frame is torn, of either medium.  An audio frame is what arrived     *)
(* under its time stamp, and it is dropped exactly when something is       *)
(* missing between, but right after number 0; what is missing at its ends   *)
(* cannot be seen.                                                         *)
(***************************************************************************)
Consecutive(packets) ==
  \A i \in 1 .. Len(packets) - 1 :
    packets[i].seq # 0 => packets[i + 1].seq = (packets[i].seq + 1) % SeqMod

AudioIsWhole ==
  /\ audio'.output # << >> => audio'.output = heard /\ Consecutive(heard)
  /\ audio'.stamp # audio.stamp /\ Consecutive(heard) => audio'.output = heard

NoTornMedia == [][NoTornFrame' /\ AudioIsWhole]_mediaVars

(***************************************************************************)
(* Decoding times never come after the time a picture is shown, and once   *)
(* depth and offset of the reordering were learned from a group that came  *)
(* whole they go up with every picture, whatever is lost from then on.     *)
(***************************************************************************)
Learned ==
  generator.size = Len(group) /\ 2 * generator.offset <= PictureTime * Len(group)

DtsIncreases ==
  [][/\ generator'.dts <= generator'.lastPts
     /\ Learned /\ generator.known /\ generator'.lastPts # generator.lastPts =>
          generator.dts < generator'.dts]_mediaVars
=============================================================================
