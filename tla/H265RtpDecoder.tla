--------------------------- MODULE H265RtpDecoder ---------------------------
(***************************************************************************)
(* H265RtpDecoder of src/rtp/H265Rtp.cpp.  It outputs frames, merges       *)
(* fragments and looks for gaps as H264RtpDecoder does, statement by       *)
(* statement, so those operators are taken from there; what is its own is  *)
(* the aggregation packet and the structures it supports.  The field of    *)
(* decoding order numbers is never used (_using_donl_field is false).      *)
(***************************************************************************)
EXTENDS RtpPayload

CONSTANT SeqMod
H264 == INSTANCE H264RtpDecoder

NewDecoder == H264!NewDecoder

OutputFrame(d, frame) == H264!OutputFrame(d, frame)
SingleFrame(d, piece) == OutputFrame(d, <<piece>>)
MergeFu(d, seq, piece) == H264!MergeFu(d, seq, piece)
GapSeen(d, seq) == H264!GapSeen(d, seq)

(* The loop ends at the end of the packet, or drops the group of pictures  *)
(* at a length that points behind it (CHECK_SIZE).                         *)
UnpackAp(d, pieces, cut) ==
  LET unpacked[i \in 0 .. Len(pieces)] ==
        IF i = 0 THEN d ELSE SingleFrame(unpacked[i - 1], pieces[i])
  IN  [unpacked[Len(pieces)] EXCEPT !.gop = @ \/ cut]

DecodeRtp(d, seq, p) ==
  CASE p.structure = "empty"    -> d
    [] p.structure = "single"   -> SingleFrame(d, p.pieces[1])
    [] p.structure \in {"aggregate", "cut"} -> UnpackAp(d, p.pieces, p.structure = "cut")
    [] p.structure = "fragment" -> MergeFu(d, seq, p.pieces[1])
    [] OTHER                    -> [d EXCEPT !.gop = TRUE]

InputRtp(decoder, seq, p) ==
  LET d == DecodeRtp([decoder EXCEPT !.frames = << >>], seq, p)
  IN  [d EXCEPT !.gop = d.gop \/ GapSeen(d, seq), !.last = seq]
=============================================================================
