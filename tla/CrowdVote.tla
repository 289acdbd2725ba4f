----------------------------- MODULE CrowdVote -----------------------------
(***************************************************************************)
(* The crowd of companion/app.py: attendees vote from their phones, as     *)
(* often as they like, and the presenter freezes the vote.  The votes are  *)
(* a plain dictionary of a threaded server, without a lock: each request   *)
(* has a thread, and between two of its steps other threads run.           *)
(***************************************************************************)
EXTENDS Integers, FiniteSets

CONSTANTS
  Threads,    \* the server's threads, each with one request at a time
  Initials,   \* sanitized initials
  CROWD_CAP,  \* how many voters are to be held
  NoVote

ASSUME CrowdAssumption ==
  /\ CROWD_CAP \in Nat \ {0}
  /\ NoVote \notin {"approve", "reject"}
  /\ IsFiniteSet(Threads) /\ Threads # {}
  /\ IsFiniteSet(Initials)

VARIABLES
  CROWD,          \* the vote held for each of the initials
  CROWD_FROZEN,
  step,           \* where each thread is in vote() or crowd()
  ballot,         \* the vote it carries, if it came to vote
  size,           \* the size of the dictionary when it began to sum it up
  seen,           \* the voters it has come to in the sum
  tally,          \* its approve, reject and count, as far as it has them
  answer          \* what its last request was answered

crowd == <<CROWD, CROWD_FROZEN>>
sums == <<size, seen, tally>>
vars == <<crowd, step, ballot, sums, answer>>

Choices == {"approve", "reject"}
Ballots == [who: Initials, choice: Choices]

NoTally == [approve |-> 0, reject |-> 0, count |-> 0]

Held == {i \in Initials : CROWD[i] # NoVote}
Sizes == 0..Cardinality(Initials)

TypeOK ==
  /\ CROWD \in [Initials -> Choices \cup {NoVote}]
  /\ CROWD_FROZEN \in BOOLEAN
  /\ step \in [Threads -> {"idle", "admitted", "hasRoom", "stored", "summing", "summed", "subtracted"}]
  /\ ballot \in [Threads -> Ballots \cup {NoVote}]
  /\ size \in [Threads -> Sizes]
  /\ seen \in [Threads -> SUBSET Initials]
  /\ tally \in [Threads -> [approve: Sizes, reject: Sizes, count: Sizes]]
  /\ answer \in [Threads -> {"none", "ok", "frozen", "full", "failed", "poll failed"}]

Init ==
  /\ CROWD = [i \in Initials |-> NoVote]
  /\ CROWD_FROZEN = FALSE
  /\ step = [t \in Threads |-> "idle"]
  /\ ballot = [t \in Threads |-> NoVote]
  /\ size = [t \in Threads |-> 0]
  /\ seen = [t \in Threads |-> {}]
  /\ tally = [t \in Threads |-> NoTally]
  /\ answer = [t \in Threads |-> "none"]

Go(t, from, to) == step[t] = from /\ step' = [step EXCEPT ![t] = to]

\* A new request, and the answer to it; what a thread knew is gone with it.
Request(t, to, b) ==
  /\ Go(t, "idle", to)
  /\ ballot' = [ballot EXCEPT ![t] = b]
  /\ answer' = [answer EXCEPT ![t] = "none"]
  /\ tally' = [tally EXCEPT ![t] = NoTally]
  /\ UNCHANGED <<crowd, size, seen>>

Reply(t, from, a) ==
  /\ Go(t, from, "idle")
  /\ answer' = [answer EXCEPT ![t] = a]
  /\ ballot' = [ballot EXCEPT ![t] = NoVote]

----------------------------------------------------------------------------
(* vote(), one step for each access to what the threads share. *)

\* Deviation: whoever opened the page before the freeze may still vote.
Admit_WhileFrozen(t, b) == Request(t, "admitted", b)

Admit(t, b) == ~CROWD_FROZEN /\ Request(t, "admitted", b)

RefuseFrozen(t) ==
  /\ CROWD_FROZEN
  /\ Reply(t, "idle", "frozen")
  /\ tally' = [tally EXCEPT ![t] = NoTally]
  /\ UNCHANGED <<crowd, size, seen>>

\* Deviation: the cap is not tested.
HasRoom_Always(t) == TRUE

HasRoom(t) == ballot[t].who \in Held \/ Cardinality(Held) < CROWD_CAP

PassCap(t) ==
  /\ Go(t, "admitted", "hasRoom")
  /\ HasRoom(t)
  /\ UNCHANGED <<crowd, ballot, sums, answer>>

RefuseFull(t) ==
  /\ Reply(t, "admitted", "full")
  /\ ~HasRoom(t)
  /\ UNCHANGED <<crowd, sums>>

Store(t) ==
  /\ Go(t, "hasRoom", "stored")
  /\ CROWD' = [CROWD EXCEPT ![ballot[t].who] = ballot[t].choice]
  /\ UNCHANGED <<CROWD_FROZEN, ballot, sums, answer>>

(* Both count the votes: a sum over the dictionary's values and then its    *)
(* length, twice.  The order of the values does not matter here.            *)

\* A browser polls /api/crowd.
Poll(t) == Request(t, "stored", NoVote)

BeginSum(t) ==
  /\ Go(t, "stored", "summing")
  /\ size' = [size EXCEPT ![t] = Cardinality(Held)]
  /\ UNCHANGED <<crowd, ballot, seen, tally, answer>>

SameSize(t) == Cardinality(Held) = size[t]

AddVote(t, i) ==
  /\ step[t] = "summing"
  /\ SameSize(t)
  /\ i \in Held \ seen[t]
  /\ seen' = [seen EXCEPT ![t] = @ \cup {i}]
  /\ tally' = [tally EXCEPT ![t].approve = @ + IF CROWD[i] = "approve" THEN 1 ELSE 0]
  /\ UNCHANGED <<crowd, step, ballot, size, answer>>

Forget(t) ==
  /\ size' = [size EXCEPT ![t] = 0]
  /\ seen' = [seen EXCEPT ![t] = {}]

\* Deviation: the failure's text is the answer.
SumFails_OwnAnswer(t) ==
  /\ ~SameSize(t)
  /\ Reply(t, "summing", "dictionary changed size during iteration")
  /\ tally' = [tally EXCEPT ![t] = NoTally]
  /\ Forget(t)
  /\ UNCHANGED crowd

\* The iteration over the dictionary raises when a voter was added under it.
SumFails(t) ==
  /\ ~SameSize(t)
  /\ Reply(t, "summing", IF ballot[t] = NoVote THEN "poll failed" ELSE "failed")
  /\ tally' = [tally EXCEPT ![t] = NoTally]
  /\ Forget(t)
  /\ UNCHANGED crowd

EndSum(t) ==
  /\ Go(t, "summing", "summed")
  /\ SameSize(t) /\ seen[t] = Held
  /\ Forget(t)
  /\ UNCHANGED <<crowd, ballot, tally, answer>>

Subtract(t) ==
  /\ Go(t, "summed", "subtracted")
  /\ tally' = [tally EXCEPT ![t].reject = Cardinality(Held) - tally[t].approve]
  /\ UNCHANGED <<crowd, ballot, size, seen, answer>>

Answer(t) ==
  /\ Reply(t, "subtracted", "ok")
  /\ tally' = [tally EXCEPT ![t].count = Cardinality(Held)]
  /\ UNCHANGED <<crowd, size, seen>>

\* Deviation: a vote that is opened again begins anew.
Freeze_Clears ==
  /\ CROWD_FROZEN' \in BOOLEAN \ {CROWD_FROZEN}
  /\ CROWD' = IF CROWD_FROZEN' THEN CROWD ELSE [i \in Initials |-> NoVote]
  /\ UNCHANGED <<step, ballot, sums, answer>>

\* The presenter freezes or unfreezes the vote.
Freeze ==
  /\ CROWD_FROZEN' \in BOOLEAN \ {CROWD_FROZEN}
  /\ UNCHANGED <<CROWD, step, ballot, sums, answer>>

----------------------------------------------------------------------------
ThreadStep(t) ==
  \/ RefuseFrozen(t)
  \/ PassCap(t)
  \/ RefuseFull(t)
  \/ Store(t)
  \/ BeginSum(t)
  \/ \E i \in Initials : AddVote(t, i)
  \/ SumFails(t)
  \/ EndSum(t)
  \/ Subtract(t)
  \/ Answer(t)

Next ==
  \/ Freeze
  \/ \E t \in Threads : ThreadStep(t) \/ Poll(t) \/ \E b \in Ballots : Admit(t, b)

Spec == Init /\ [][Next]_vars

\* A thread that has a request goes on with it.
Fairness == \A t \in Threads : WF_vars(ThreadStep(t) /\ step[t] # "idle")

FairSpec == Spec /\ Fairness

----------------------------------------------------------------------------
(* Properties that hold. *)

\* app.py:44 calls the cap a hard one.  The check and the insertion are two
\* steps, and every other thread may be between them: the cap is exceeded, by
\* at most that many votes.
CapIsNearlyKept == Cardinality(Held) <= CROWD_CAP + Cardinality(Threads) - 1

\* What voters and the dashboard are told adds up to a vote of no more voters
\* than there are, though the three numbers are read at different times while
\* others vote and change their votes.
TallyIsPossible ==
  \A t \in Threads : answer[t] = "ok" =>
    /\ tally[t].approve >= 0 /\ tally[t].reject >= 0
    /\ tally[t].approve + tally[t].reject <= tally[t].count
    /\ tally[t].count <= Cardinality(Held)

\* Attendees go on tapping after a freeze that is not lifted, and the votes
\* come to rest all the same: only requests under way can still change them.
FreezeTakesHold == <>[]CROWD_FROZEN => <>[][FALSE]_CROWD

----------------------------------------------------------------------------
(* What the file says of the crowd and the code does not do. *)

\* app.py:692: a vote cannot fail.
VotesCannotFail == \A t \in Threads : answer[t] # "failed"
=============================================================================
