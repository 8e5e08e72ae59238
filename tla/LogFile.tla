------------------------------- MODULE LogFile -------------------------------
(***************************************************************************)
(* What a log promises to who reads it: the lines it is to hold get to the *)
(* disk in the order in which it took them.  Two things may go wrong, and  *)
(* no third: the disk may not take all it is given, and a line that was    *)
(* refused for want of memory may get in all the same, at any place where  *)
(* nothing is written yet.                                                 *)
(***************************************************************************)
EXTENDS Naturals, Sequences

CONSTANTS
  Lines,   \* the lines there may be
  Stray    \* a line that was refused, and what comes in with it

VARIABLES
  log,      \* the lines the log is to hold, in order
  written,  \* what is on disk, oldest line first
  refusing, \* is a line being refused?
  faults    \* how often the disk took less than it was given

vars == <<log, written, refusing, faults>>

Init == log = <<>> /\ written = <<>> /\ refusing = FALSE /\ faults = 0

Take ==
  /\ \E l \in Lines : log' = Append(log, l)
  /\ UNCHANGED <<written, refusing, faults>>

Refuse ==
  /\ ~refusing /\ refusing' = TRUE
  /\ UNCHANGED <<log, written, faults>>

(* The refusal ends: the line is gone, or it is among those to be written.  *)
Settle ==
  /\ refusing /\ refusing' = FALSE
  /\ \/ UNCHANGED log
     \/ \E n \in Len(written) .. Len(log) :
          log' = SubSeq(log, 1, n) \o <<Stray>> \o SubSeq(log, n + 1, Len(log))
  /\ UNCHANGED <<written, faults>>

(* Lines reach the disk many at a time. *)
Write ==
  /\ \E n \in Len(written) + 1 .. Len(log) : written' = SubSeq(log, 1, n)
  /\ UNCHANGED <<log, refusing, faults>>

(* The disk takes the first lines it is given, the others are lost.         *)
WriteLess ==
  /\ \E n \in Len(written) .. Len(log) : \E m \in n .. Len(log) :
       /\ written' = SubSeq(log, 1, n)
       /\ log' = SubSeq(log, 1, n) \o SubSeq(log, m + 1, Len(log))
  /\ faults' = faults + 1
  /\ UNCHANGED refusing

Next == Take \/ Refuse \/ Settle \/ Write \/ WriteLess

Safety == Init /\ [][Next]_vars

(* A line that was taken reaches the disk, whether or not others follow. *)
Spec == Safety /\ WF_vars(Write)
=============================================================================
