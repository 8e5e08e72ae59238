---------------------------- MODULE MCNackContext ----------------------------
(* Model-checks NackContext: any number, original or retransmitted, at any *)
(* time. The requests that are followed are those for a number that is     *)
(* late in the middle of the numbers and taken for a wrap near their end,  *)
(* and that is among the first to be forgotten.                            *)
EXTENDS NackRequests

MCInit == WatchedInit /\ watched = 1
MCSpec == MCInit /\ [][WatchedNext]_requestVars
=============================================================================
