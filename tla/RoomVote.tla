------------------------------ MODULE RoomVote ------------------------------
(***************************************************************************)
(* The voting rules of a2a-agents/room/vote.py.  A voter is asked about an *)
(* amount in whole dollars, because its caller writes the prompt with the  *)
(* amount rounded.  The digest behind the "random" stance is a parity bit  *)
(* that the voter's name and the amount determine.                         *)
(***************************************************************************)
EXTENDS Integers

CONSTANT NoCap   \* the owner's note states no number

Stances == {"strict", "lenient", "random"}

STRICT_THRESHOLD == 10000
LENIENT_THRESHOLD == 100000

\* How the prompt renders an amount of cents: to the nearest dollar, an exact
\* half to the even one.
RoundToDollar(cents) ==
  LET d == cents \div 100
      rest == cents % 100
  IN  IF rest > 50 \/ (rest = 50 /\ d % 2 = 1) THEN d + 1 ELSE d

vote_expense(dollars, stance, even) ==
  CASE stance = "strict" -> IF dollars >= STRICT_THRESHOLD THEN "reject" ELSE "approve"
    [] stance = "lenient" -> IF dollars >= LENIENT_THRESHOLD THEN "reject" ELSE "approve"
    [] OTHER -> IF even THEN "approve" ELSE "reject"

(***************************************************************************)
(* What the voter makes of its owner's note: the first amount in it, and   *)
(* whether one of the refusing and one of the consenting words occurs.     *)
(***************************************************************************)
Notes(Caps) == [cap: Caps \cup {NoCap}, refuses: BOOLEAN, consents: BOOLEAN]

Silent == [cap |-> NoCap, refuses |-> FALSE, consents |-> FALSE]

vote_with_corpus(dollars, stance, even, note) ==
  CASE note.cap # NoCap -> IF dollars >= note.cap THEN "reject" ELSE "approve"
    [] note.cap = NoCap /\ note.refuses -> "reject"
    [] note.cap = NoCap /\ ~note.refuses /\ note.consents -> "approve"
    [] OTHER -> vote_expense(dollars, stance, even)
=============================================================================
