------------------------------ MODULE RtpPayload ------------------------------
(***************************************************************************)
(* What the packets of a video stream carry, and how the sender cuts NAL   *)
(* units into them (RFC 6184, RFC 7798).  A unit is its place in the       *)
(* stream, counted from 1, and its kind; a fragment is a piece of a unit.  *)
(***************************************************************************)
EXTENDS Integers, Sequences

(* "idr" is the first slice of a key picture and "idrRest" another one;    *)
(* "slice" is any other slice.                                             *)
SliceKinds == {"idr", "idrRest", "slice"}
SetKinds   == {"vps", "sps", "pps"}
OtherKinds == {"sei", "aud"}

Piece(unit, kind, no, last) == [unit |-> unit, kind |-> kind, no |-> no, last |-> last]
Whole(unit, kind) == Piece(unit, kind, 1, TRUE)
NoUnit == Piece(0, "none", 0, TRUE)

(* The structure of a payload: one unit, several units, a fragment of one, *)
(* nothing, a structure the decoders do not support, or several units with *)
(* a length field that points behind the end of the packet.                *)
Structures == {"single", "aggregate", "fragment", "empty", "unsupported", "cut"}
Packet(structure, pieces) == [structure |-> structure, pieces |-> pieces]

Begins(p, kind) == \E i \in DOMAIN p.pieces : p.pieces[i].kind = kind /\ p.pieces[i].no = 1
Ends(p, kind)   == \E i \in DOMAIN p.pieces : p.pieces[i].kind = kind /\ p.pieces[i].last

(* keyFrame() and configFrame(): a frame is what its first piece says.     *)
Kind(frame)        == frame[1].kind
KeyFrame(frame)    == Kind(frame) = "idr"
ConfigFrame(frame) == Kind(frame) \in SetKinds

IsWhole(frame) ==
  /\ \A i \in DOMAIN frame : /\ frame[i].no = i
                             /\ frame[i].unit = frame[1].unit
                             /\ frame[i].last <=> i = Len(frame)
===============================================================================
