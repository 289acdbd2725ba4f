-------------------------- MODULE CompanionQuorum --------------------------
(***************************************************************************)
(* The Companion's own quorum, s_quorum of companion/app.py: a pool of     *)
(* worker threads asks the voters through the gateway, the card waits for  *)
(* them up to a deadline, counts what it has, wires with the outcome as    *)
(* the approval flag, and shows a headline.  The wire is a governed call,  *)
(* composed with Gateway as in ChairQuorum; how a voter votes is RoomVote, *)
(* and here any vote may come back.                                        *)
(***************************************************************************)
EXTENDS Integers, FiniteSets

CONSTANTS
  Cards,       \* requests to run the scenario
  Voters,      \* room-* agents, numbered in the order their names sort
  MaxWorkers,  \* the width of the pool
  NoAmount, NoRequest

ASSUME CompanionAssumption ==
  /\ Voters \subseteq Nat
  /\ MaxWorkers \in Nat \ {0}
  /\ NoAmount \notin Nat

QUORUM_AMOUNT == 5000000
WireTool == "erp-payments-wire"

VARIABLES
  opa, stage, req, reply, client, executed,   \* the gateway's, see Gateway
  phase,     \* where each card is
  task,      \* the future of each voter's vote
  answer,    \* what a finished future holds
  counted,   \* what the card counts for each voter
  headline   \* what the card tells the room

cardVars == <<phase, task, answer, counted, headline>>
gatewayVars == <<opa, stage, req, reply, client, executed>>
vars == <<gatewayVars, cardVars>>

GW == INSTANCE Gateway WITH
  Calls <- Cards, Tools <- {WireTool}, WireNamed <- {WireTool},
  Amounts <- {QUORUM_AMOUNT}

Votes == {"approve", "reject", "abstain"}

TypeOK ==
  /\ GW!TypeOK
  /\ phase \in [Cards -> {"idle", "waiting", "settling", "wiring", "shown"}]
  /\ task \in [Cards -> [Voters -> {"none", "queued", "running", "finished", "cancelled"}]]
  /\ answer \in [Cards -> [Voters -> Votes \cup {"none"}]]
  /\ counted \in [Cards -> [Voters -> Votes \cup {"none"}]]
  /\ headline \in [Cards -> {"none", "APPROVED, executed", "APPROVED, blocked", "REJECTED, blocked"}]

EachVoter(x) == [c \in Cards |-> [v \in Voters |-> x]]

Init ==
  /\ GW!Init
  /\ phase = [c \in Cards |-> "idle"]
  /\ task = EachVoter("none")
  /\ answer = EachVoter("none")
  /\ counted = EachVoter("none")
  /\ headline = [c \in Cards |-> "none"]

Enter(c, from, to) == phase[c] = from /\ phase' = [phase EXCEPT ![c] = to]

Having(c, state) == {v \in Voters : task[c][v] = state}

Asked(c) == {v \in Voters : task[c][v] # "none"}

----------------------------------------------------------------------------
(* Collecting the votes. *)

\* The names in the registry, none when it cannot be read, are submitted to
\* the pool in their order.
Open(c, names) ==
  /\ Enter(c, "idle", "waiting")
  /\ task' = [task EXCEPT ![c] = [v \in Voters |-> IF v \in names THEN "queued" ELSE "none"]]
  /\ UNCHANGED <<gatewayVars, answer, counted, headline>>

\* A free thread takes the oldest future of the queue.
ThreadTakes(c, v) ==
  /\ task[c][v] = "queued"
  /\ \A w \in Having(c, "queued") : v <= w
  /\ Cardinality(Having(c, "running")) < MaxWorkers
  /\ task' = [task EXCEPT ![c][v] = "running"]
  /\ UNCHANGED <<gatewayVars, phase, answer, counted, headline>>

\* _vote_one returns: a vote, or an abstention for an answer without one, an
\* error, or eight seconds.
ThreadReturns(c, v) ==
  /\ task[c][v] = "running"
  /\ task' = [task EXCEPT ![c][v] = "finished"]
  /\ \E vote \in Votes : answer' = [answer EXCEPT ![c][v] = vote]
  /\ UNCHANGED <<gatewayVars, phase, counted, headline>>

\* Deviation: the card waits without a deadline for a first vote.
Collect_FirstCompleted(c) ==
  /\ Having(c, "finished") # {}
  /\ Enter(c, "waiting", "settling")
  /\ counted' = [counted EXCEPT ![c] =
       [v \in Voters |-> IF task[c][v] = "finished" THEN answer[c][v] ELSE "none"]]
  /\ UNCHANGED <<gatewayVars, task, answer, headline>>

\* All futures are done, or fifteen seconds are up: what is done is counted.
Collect(c) ==
  /\ Enter(c, "waiting", "settling")
  /\ counted' = [counted EXCEPT ![c] =
       [v \in Voters |-> IF task[c][v] = "finished" THEN answer[c][v] ELSE "none"]]
  /\ UNCHANGED <<gatewayVars, task, answer, headline>>

\* Deviation: a future that was not done counts as an approval.
Abstain_ByApproving(c, v) ==
  /\ phase[c] = "settling"
  /\ v \in Asked(c)
  /\ counted[c][v] = "none"
  /\ counted' = [counted EXCEPT ![c][v] = "approve"]
  /\ task' = [task EXCEPT ![c][v] = IF @ = "queued" THEN "cancelled" ELSE @]
  /\ UNCHANGED <<gatewayVars, phase, answer, headline>>

\* One by one, a future that was not done is an abstention.  Only one that no
\* thread has taken is really cancelled.
Abstain(c, v) ==
  /\ phase[c] = "settling"
  /\ v \in Asked(c)
  /\ counted[c][v] = "none"
  /\ counted' = [counted EXCEPT ![c][v] = "abstain"]
  /\ task' = [task EXCEPT ![c][v] = IF @ = "queued" THEN "cancelled" ELSE @]
  /\ UNCHANGED <<gatewayVars, phase, answer, headline>>

----------------------------------------------------------------------------
(* The wire and the headline. *)

Count(c, vote) == Cardinality({v \in Voters : counted[c][v] = vote})

\* Deviation: whoever did not vote is taken to agree.
quorum_approved_BySilence(c) == Count(c, "approve") + Count(c, "abstain") > Count(c, "reject")

quorum_approved(c) == Count(c, "approve") > Count(c, "reject")

Request(c) == GW!ByArguments(WireTool, QUORUM_AMOUNT, quorum_approved(c))

\* Deviation: the pool is shut down without waiting for its threads.
Wire_WithoutDraining(c) ==
  /\ Enter(c, "settling", "wiring")
  /\ \A v \in Asked(c) : counted[c][v] # "none"
  /\ GW!Submit(c, Request(c))
  /\ UNCHANGED <<task, answer, counted, headline>>

\* Leaving the pool's block waits for the threads that still run.
Wire(c) ==
  /\ Enter(c, "settling", "wiring")
  /\ \A v \in Asked(c) : counted[c][v] # "none"
  /\ Having(c, "running") = {}
  /\ GW!Submit(c, Request(c))
  /\ UNCHANGED <<task, answer, counted, headline>>

Blocked(c) == IF quorum_approved(c) THEN "APPROVED, blocked" ELSE "REJECTED, blocked"

\* Deviation: an error in the answer is a block.
Headline_OfError(c) == IF reply[c] \in {"violation", "rpcError"} THEN Blocked(c) ELSE "APPROVED, executed"

\* Whatever does not mention a plugin violation is an approved, executed wire.
Headline(c) == IF reply[c] = "violation" THEN Blocked(c) ELSE "APPROVED, executed"

WireAnswered(c) ==
  /\ Enter(c, "wiring", "shown")
  /\ GW!Receive(c)
  /\ headline' = [headline EXCEPT ![c] = Headline(c)]
  /\ UNCHANGED <<task, answer, counted>>

\* Deviation: the headline is the error's text.
WireFails_OwnHeadline(c) ==
  /\ Enter(c, "wiring", "shown")
  /\ GW!GiveUp(c)
  /\ headline' = [headline EXCEPT ![c] = "gateway unreachable"]
  /\ UNCHANGED <<task, answer, counted>>

\* rpc turns a timeout or a failed request into an error that is no violation.
WireFails(c) ==
  /\ Enter(c, "wiring", "shown")
  /\ GW!GiveUp(c)
  /\ headline' = [headline EXCEPT ![c] = "APPROVED, executed"]
  /\ UNCHANGED <<task, answer, counted>>

GatewayWorks ==
  /\ GW!OpaChanges \/ \E c \in Cards : GW!GatewayStep(c) \/ GW!Drop(c)
  /\ UNCHANGED cardVars

----------------------------------------------------------------------------
Pool(c) == \E v \in Voters : ThreadTakes(c, v) \/ ThreadReturns(c, v)

\* What the Companion does without anybody's help: its waits have timeouts.
OwnStep(c) ==
  \/ Collect(c)
  \/ \E v \in Voters : Abstain(c, v)
  \/ Wire(c)
  \/ WireFails(c)

Next ==
  \/ GatewayWorks
  \/ \E c \in Cards :
       \/ \E names \in SUBSET Voters : Open(c, names)
       \/ Pool(c)
       \/ OwnStep(c)
       \/ WireAnswered(c)

Spec == Init /\ [][Next]_vars

\* Threads run, and a vote's request has a timeout of eight seconds.
Fairness == \A c \in Cards : WF_vars(Pool(c)) /\ WF_vars(OwnStep(c))

FairSpec == Spec /\ Fairness

----------------------------------------------------------------------------
(* Properties that hold. *)

\* When the wire goes out the pool is empty: no vote is still being asked for
\* or will be answered behind the back of the tally.
NoStragglers ==
  \A c \in Cards : stage[c] # "idle" => Having(c, "queued") \cup Having(c, "running") = {}

\* Each voter that was asked counts once, with the vote it gave or, too late,
\* as an abstention: never with a vote it did not give.
CountedAsGiven ==
  \A c \in Cards : stage[c] # "idle" =>
    \A v \in Voters : counted[c][v] \in
      IF v \in Asked(c) THEN {answer[c][v], "abstain"} \ {"none"} ELSE {"none"}

\* A headline that says blocked is true for good, and it says of the quorum
\* what the wire carried.
BlockedHeadlineIsTrue ==
  \A c \in Cards : headline[c] \in {"APPROVED, blocked", "REJECTED, blocked"} =>
    /\ c \notin executed
    /\ stage[c] \notin GW!InFlight
    /\ req[c].approval <=> headline[c] = "APPROVED, blocked"

\* A card is shown, however long voters and gateway take: a vote has its own
\* timeout, the votes have a deadline, and so has the wire.
EveryCardIsShown == \A c \in Cards : phase[c] = "waiting" ~> phase[c] = "shown"

\* The Companion's quorum keeps the same abstract promise as the chair's.
decision ==
  [c \in Cards |-> IF stage[c] = "idle" THEN "open"
                   ELSE IF Count(c, "approve") > Count(c, "reject") THEN "approved"
                   ELSE "refused"]

amount == [c \in Cards |-> IF phase[c] = "idle" THEN NoAmount ELSE QUORUM_AMOUNT]

QP == INSTANCE QuorumPayment WITH
  Runs <- Cards, Expenses <- {QUORUM_AMOUNT},
  AutoApproveLimit <- GW!AutoApproveLimit, HardCeiling <- GW!HardCeiling,
  paid <- executed

ImplementsQuorumPayment == QP!Spec
=============================================================================
