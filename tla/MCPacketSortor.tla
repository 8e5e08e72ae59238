--------------------------- MODULE MCPacketSortor ---------------------------
(* Model-checks PacketSortor: every sequence number may arrive at any time. *)
EXTENDS PacketSortor
=============================================================================
