--------------------------- MODULE OrderedDelivery ---------------------------
(***************************************************************************)
(* What a receive channel promises to the decoder behind it: the packets   *)
(* of the sender, each at most once, in the order they were sent.  Packets *)
(* are counted from 1 in that order; some may be missing.                  *)
(***************************************************************************)
EXTENDS Naturals, Sequences

VARIABLES
  delivered,   \* the last packet handed to the decoder, 0 before the first
  handed       \* the packets the last call handed over, in order

Init == delivered = 0 /\ handed = <<>>

(* One call of the channel may hand over several packets in a row. *)
Deliver ==
  /\ handed' \in Seq(Nat) /\ handed' # <<>>
  /\ handed'[1] > delivered
  /\ \A i \in 1 .. Len(handed') - 1 : handed'[i] < handed'[i + 1]
  /\ delivered' = handed'[Len(handed')]

Withhold == handed' = <<>> /\ UNCHANGED delivered

Spec == Init /\ [][Deliver \/ Withhold]_<<delivered, handed>>
=============================================================================
