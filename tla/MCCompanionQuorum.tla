------------------------- MODULE MCCompanionQuorum -------------------------
(* One card, more voters than threads. *)
EXTENDS CompanionQuorum
=============================================================================
