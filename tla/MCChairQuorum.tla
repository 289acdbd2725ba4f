--------------------------- MODULE MCChairQuorum ---------------------------
(* Small instances of the quorum: four voters of different kinds. *)
EXTENDS ChairQuorum, TLC

\* 0 strict, 1 lenient, 2 random, 3 an attendee's strict voter with a note.
MCStance == 0 :> "strict" @@ 1 :> "lenient" @@ 2 :> "random" @@ 3 :> "strict"

\* The random voter's coin falls on approve for the largest amount only.
MCEvenDigest == {<<2, 100000>>}

\* One expense in each tier; rounding lifts two of them over a threshold.
MCExpenses == {999950, 9999999, 10000000}
=============================================================================
