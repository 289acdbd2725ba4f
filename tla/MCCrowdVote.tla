---------------------------- MODULE MCCrowdVote ----------------------------
(* More initials than the room holds, and as many threads as it takes to   *)
(* exceed the cap.                                                          *)
EXTENDS CrowdVote
=============================================================================
