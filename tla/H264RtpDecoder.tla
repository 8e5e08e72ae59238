--------------------------- MODULE H264RtpDecoder ---------------------------
(***************************************************************************)
(* How the packets a receive channel outputs become H.264 frames:          *)
(* H264RtpDecoder of src/rtp/H264Rtp.cpp.  The decoder is a record:        *)
(*   gop, fu, last   _gop_dropped, _fu_dropped, _last_seq                  *)
(*   buffer          the pieces in _frame->_buffer                         *)
(*   frames          the frames output by the last call, in order          *)
(* _is_gop is left out: it only feeds the result of inputRtp, which        *)
(* RtcDemuxer ignores.  Time stamps are left out too.                      *)
(***************************************************************************)
EXTENDS RtpPayload

CONSTANT SeqMod   \* 2^16 in the code

NewDecoder == [gop |-> FALSE, fu |-> TRUE, last |-> 0, buffer |-> << >>, frames |-> << >>]

OutputFrameKeepDrop(d, frame) ==
  [d EXCEPT !.buffer = << >>,
            !.frames = IF ~d.gop \/ ConfigFrame(frame) THEN Append(@, frame) ELSE @]
OutputFrame(d, frame) ==
  LET gop == d.gop /\ ~KeyFrame(frame)
  IN  [d EXCEPT !.gop = gop,
                !.buffer = << >>,
                !.frames = IF ~gop \/ ConfigFrame(frame) THEN Append(@, frame) ELSE @]

SingleFrame(d, piece) == OutputFrame(d, <<piece>>)

UnpackStapA(d, pieces) ==
  LET unpacked[i \in 0 .. Len(pieces)] ==
        IF i = 0 THEN d ELSE SingleFrame(unpacked[i - 1], pieces[i])
  IN  unpacked[Len(pieces)]

(* A fragment that does not follow the packet before it ends the unit. *)
MergeFuAnySeq(d, seq, piece) ==
  LET appended == Append(IF piece.no = 1 THEN << >> ELSE d.buffer, piece)
  IN  IF piece.no # 1 /\ d.fu THEN d
      ELSE IF piece.last THEN OutputFrame([d EXCEPT !.fu = TRUE], appended)
      ELSE [d EXCEPT !.fu = FALSE, !.buffer = appended]
MergeFuNoClear(d, seq, piece) ==
  LET appended == Append(IF piece.no = 1 THEN << >> ELSE d.buffer, piece)
  IN  IF piece.no # 1 /\ d.fu THEN d
      ELSE IF piece.no # 1 /\ seq # (d.last + 1) % SeqMod THEN [d EXCEPT !.fu = TRUE]
      ELSE IF piece.last THEN OutputFrame([d EXCEPT !.fu = TRUE], appended)
      ELSE [d EXCEPT !.fu = FALSE, !.buffer = appended]
MergeFu(d, seq, piece) ==
  LET first    == piece.no = 1
      appended == Append(IF first THEN << >> ELSE d.buffer, piece)
  IN  CASE ~first /\ d.fu -> d
        [] ~first /\ ~d.fu /\ seq # (d.last + 1) % SeqMod ->
             [d EXCEPT !.fu = TRUE, !.buffer = << >>]
        [] OTHER ->
             IF piece.last THEN OutputFrame([d EXCEPT !.fu = TRUE], appended)
             ELSE [d EXCEPT !.fu = FALSE, !.buffer = appended]

DecodeRtp(d, seq, p) ==
  CASE p.structure = "empty"     -> d
    [] p.structure = "single"    -> SingleFrame(d, p.pieces[1])
    [] p.structure = "aggregate" -> UnpackStapA(d, p.pieces)
    [] p.structure = "cut"       -> [UnpackStapA(d, p.pieces) EXCEPT !.gop = TRUE]
    [] p.structure = "fragment"  -> MergeFu(d, seq, p.pieces[1])
    [] OTHER                     -> [d EXCEPT !.gop = TRUE]

(* The gap is looked for after the packet was decoded, and not after       *)
(* number 0, which stands for "no packet yet".                             *)
GapSeenNever(d, seq) == FALSE
GapSeen(d, seq) == ~d.gop /\ seq # (d.last + 1) % SeqMod /\ d.last # 0

InputRtp(decoder, seq, p) ==
  LET d == DecodeRtp([decoder EXCEPT !.frames = << >>], seq, p)
  IN  [d EXCEPT !.gop = d.gop \/ GapSeen(d, seq), !.last = seq]
=============================================================================
