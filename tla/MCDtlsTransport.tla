--------------------------- MODULE MCDtlsTransport ----------------------------
(* Model-checks DtlsTransport: calls and OpenSSL events in any order. *)
EXTENDS DtlsTransport
===============================================================================
