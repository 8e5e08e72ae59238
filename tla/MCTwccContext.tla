---------------------------- MODULE MCTwccContext ----------------------------
(* Transport-wide feedback on small instances: see the .cfg files for the  *)
(* values of its constants.                                                *)
EXTENDS TwccContext
==============================================================================
