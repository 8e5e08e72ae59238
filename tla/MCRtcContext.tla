---------------------------- MODULE MCRtcContext ----------------------------
(* Model-checks RtcContext: one application, one peer, a network that loses. *)
EXTENDS RtcContext
=============================================================================
