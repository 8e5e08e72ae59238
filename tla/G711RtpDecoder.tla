--------------------------- MODULE G711RtpDecoder ---------------------------
(***************************************************************************)
(* How the packets an audio channel outputs become G.711 frames:           *)
(* G711RtpDecoder of src/rtp/G711Rtp.cpp.  The decoder is a record:        *)
(*   drop, last, stamp   _drop_flag, _last_seq, _last_stamp                *)
(*   buffer              the packets in _frame->_buffer                    *)
(*   output              the frame output by the last call, or << >>       *)
(* A packet is its number and its time stamp; each fills one unit of a     *)
(* frame.                                                                  *)
(***************************************************************************)
EXTENDS Naturals, Sequences

CONSTANTS
  SeqMod,       \* 2^16 in the code
  MaxFrameSize  \* _max_frame_size, in units

NewDecoder == [drop |-> FALSE, last |-> 0, stamp |-> 0, buffer |-> << >>, output |-> << >>]

IgnoreEmpty(d) == [d EXCEPT !.output = << >>]

(* A frame ends with its time stamp, or when it is too long.               *)
EndsFrame(d, p) == d.stamp # p.stamp \/ Len(d.buffer) > MaxFrameSize

StartFrame(d, p) ==
  [drop |-> FALSE, last |-> p.seq, stamp |-> p.stamp, buffer |-> <<p>>, output |-> d.buffer]

(* A gap inside a frame costs the rest of it; number 0 stands for none.    *)
GapInsideKeepsOn(d, p) == FALSE
GapInside(d, p) == d.last # 0 /\ p.seq # (d.last + 1) % SeqMod

ContinueFrame(d, p) ==
  LET gap == GapInside(d, p)
  IN  [d EXCEPT !.drop = @ \/ gap, !.last = p.seq, !.output = << >>,
                !.buffer = IF gap THEN << >> ELSE IF d.drop THEN @ ELSE Append(@, p)]

InputRtp(d, p) == IF EndsFrame(d, p) THEN StartFrame(d, p) ELSE ContinueFrame(d, p)
=============================================================================
