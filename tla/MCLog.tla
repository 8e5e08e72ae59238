-------------------------------- MODULE MCLog --------------------------------
(* Model-checks Log with small buffers and files. *)
EXTENDS Log
=============================================================================
