----------------------------- MODULE MCRtpChannel -----------------------------
(* Model-checks RtpChannel with a stream that wraps after a few packets. *)
EXTENDS RtpChannel
=============================================================================
