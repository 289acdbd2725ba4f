---------------------------- MODULE ChairQuorum ----------------------------
(***************************************************************************)
(* The Approval Chair of a2a-agents/chair/agent_executor.py.  A run        *)
(* discovers the room voters in the gateway's /a2a registry, asks all of   *)
(* them at once, counts the answers, attempts the wire with the outcome as *)
(* the approval flag, and reports.  The wire is a governed tools/call, so  *)
(* the module is composed with Gateway: run r makes the call named r.      *)
(*                                                                         *)
(* Several runs can be in progress, the registry changes under them as     *)
(* attendees join and leave, and the Companion that started a run may stop *)
(* waiting for it (s_quorum_a2a in companion/app.py).                      *)
(***************************************************************************)
EXTENDS RoomVote, FiniteSets

CONSTANTS
  Runs,        \* quorum runs; each makes at most one wire call
  Voters,      \* room-* agents, numbered in the order their names sort
  Attendees,   \* the voters that have an owner's note to read
  Stance,      \* the stance in each voter's name
  EvenDigest,  \* the <<voter, dollars>> whose digest is even
  Caps,        \* the amounts owners write in their notes
  Expenses,    \* the amounts, in cents, a chair is asked about
  FanOutCap,   \* how many voters a run asks at most
  NoAmount, NoRequest

ASSUME ChairAssumption ==
  /\ Voters \subseteq Nat
  /\ Attendees \subseteq Voters
  /\ Stance \in [Voters -> Stances]
  /\ Expenses \subseteq Nat
  /\ NoAmount \notin Expenses
  /\ FanOutCap \in Nat

VARIABLES
  opa, stage, req, reply, client, executed,   \* the gateway's, see Gateway
  catalog,   \* the voters registered in /a2a
  phase,     \* where each run is
  amount,    \* the amount each run is about
  payee,     \* whom each run is to pay
  ballot,    \* what each run has from each voter
  report,    \* the wire line of each run's report
  panel      \* what the Companion's card shows for the run

chairVars == <<catalog, phase, amount, payee, ballot, report, panel>>
gatewayVars == <<opa, stage, req, reply, client, executed>>
vars == <<gatewayVars, chairVars>>

WireTool == "erp-payments-wire"

GW == INSTANCE Gateway WITH
  Calls <- Runs, Tools <- {WireTool}, WireNamed <- {WireTool}, Amounts <- Expenses

\* Payees as parse_payee finds them in the text: a name like any other, and one
\* that reads like the gateway's violation.
Payees == {"Acme LLC", "Plugin Violation"}

Votes == {"approve", "reject", "abstain"}
Phases == {"idle", "discovering", "polling", "wiring", "reported", "dead"}

TypeOK ==
  /\ GW!TypeOK
  /\ catalog \subseteq Voters
  /\ phase \in [Runs -> Phases]
  /\ amount \in [Runs -> Expenses \cup {NoAmount}]
  /\ payee \in [Runs -> Payees \cup {"none"}]
  /\ ballot \in [Runs -> [Voters -> Votes \cup {"none", "asked"}]]
  /\ report \in [Runs -> {"none", "blocked", "executed", "error"}]
  /\ panel \in [Runs -> {"none", "waiting", "BLOCKED", "ALLOWED", "SEE RAW"}]

Init ==
  /\ GW!Init
  /\ catalog \in SUBSET Voters
  /\ phase = [r \in Runs |-> "idle"]
  /\ amount = [r \in Runs |-> NoAmount]
  /\ payee = [r \in Runs |-> "none"]
  /\ ballot = [r \in Runs |-> [v \in Voters |-> "none"]]
  /\ report = [r \in Runs |-> "none"]
  /\ panel = [r \in Runs |-> "none"]

With(r, v, vote) == ballot' = [ballot EXCEPT ![r][v] = vote]

Enter(r, from, to) == phase[r] = from /\ phase' = [phase EXCEPT ![r] = to]

----------------------------------------------------------------------------
(* Discovery and the vote. *)

\* The Companion, or anyone else, sends the chair an A2A message.  Its text is
\* read for the amount, 50,000 dollars if it has no number, and for the payee;
\* the Companion's card always asks for Acme LLC.
Start(r, a, p) ==
  /\ Enter(r, "idle", "discovering")
  /\ amount' = [amount EXCEPT ![r] = a]
  /\ payee' = [payee EXCEPT ![r] = p]
  /\ panel' = [panel EXCEPT ![r] = IF p = "Acme LLC" THEN "waiting" ELSE "none"]
  /\ UNCHANGED <<gatewayVars, catalog, ballot, report>>

\* names[:75] of the sorted names.
Polled == {v \in catalog : Cardinality({w \in catalog : w < v}) < FanOutCap}

Ask(r, names) ==
  ballot' = [ballot EXCEPT ![r] = [v \in Voters |-> IF v \in names THEN "asked" ELSE "none"]]

\* The registry answers, or the request fails and the run has nobody to ask.
Discover(r) ==
  /\ Enter(r, "discovering", "polling")
  /\ Ask(r, Polled) \/ Ask(r, {})
  /\ UNCHANGED <<gatewayVars, catalog, amount, payee, report, panel>>

\* The fixed voters go by their stance.  An attendee's voter reads its owner's
\* note, whatever it says, and has no note when the read fails.
MayVote(v, dollars) ==
  {vote_with_corpus(dollars, Stance[v], <<v, dollars>> \in EvenDigest, note) :
     note \in IF v \in Attendees THEN Notes(Caps) ELSE {Silent}}

VoterAnswers(r, v) ==
  /\ phase[r] = "polling"
  /\ ballot[r][v] = "asked"
  /\ v \in catalog
  /\ \E vote \in MayVote(v, RoundToDollar(amount[r])) : With(r, v, vote)
  /\ UNCHANGED <<gatewayVars, catalog, phase, amount, payee, report, panel>>

\* Deviation: the request for a vote has no timeout, only errors end it.
VoterSilent_NoTimeout(r, v) ==
  /\ phase[r] = "polling"
  /\ ballot[r][v] = "asked"
  /\ v \notin catalog
  /\ With(r, v, "abstain")
  /\ UNCHANGED <<gatewayVars, catalog, phase, amount, payee, report, panel>>

\* An error, an answer without a vote in it, or ten seconds without one.
VoterSilent(r, v) ==
  /\ phase[r] = "polling"
  /\ ballot[r][v] = "asked"
  /\ With(r, v, "abstain")
  /\ UNCHANGED <<gatewayVars, catalog, phase, amount, payee, report, panel>>

\* Attendees join, and agents are removed, while runs are in progress.
CatalogChanges ==
  /\ \E v \in Voters : catalog' \in {catalog \cup {v}, catalog \ {v}} \ {catalog}
  /\ UNCHANGED <<gatewayVars, phase, amount, payee, ballot, report, panel>>

----------------------------------------------------------------------------
(* The tally, the wire and the report. *)

Count(r, vote) == Cardinality({v \in Voters : ballot[r][v] = vote})

\* Deviation: a tie approves.
quorum_approved_OnTie(r) == Count(r, "approve") >= Count(r, "reject")

\* Deviation: a quorum approves unless every voter rejects.
quorum_approved_UnlessUnanimous(r) == Count(r, "reject") < Cardinality({v \in Voters : ballot[r][v] # "none"})

quorum_approved(r) == Count(r, "approve") > Count(r, "reject")

WireRequest(r) == GW!ByArguments(WireTool, amount[r], quorum_approved(r))

\* Deviation: the run does not gather the votes it asked for.
Tally_WithoutGather(r) ==
  /\ Enter(r, "polling", "wiring")
  /\ GW!Submit(r, WireRequest(r))
  /\ UNCHANGED <<catalog, amount, payee, ballot, report, panel>>

\* Deviation: the chair calls the ERP server itself and not the gateway.
Tally_PastGateway(r) ==
  /\ Enter(r, "polling", "wiring")
  /\ \A v \in Voters : ballot[r][v] # "asked"
  /\ GW!Go(r, "idle", "ran")
  /\ req' = [req EXCEPT ![r] = WireRequest(r)]
  /\ client' = [client EXCEPT ![r] = "waiting"]
  /\ executed' = executed \cup {r}
  /\ UNCHANGED <<opa, reply, catalog, amount, payee, ballot, report, panel>>

\* Once every delegated vote is in, the run calls the wire at once.
Tally(r) ==
  /\ Enter(r, "polling", "wiring")
  /\ \A v \in Voters : ballot[r][v] # "asked"
  /\ GW!Submit(r, WireRequest(r))
  /\ UNCHANGED <<catalog, amount, payee, ballot, report, panel>>

\* Deviation: every JSON-RPC error is read as a block.
WireLines_AnyErrorBlocks(r) ==
  IF reply[r] \in {"violation", "rpcError"} THEN {"blocked"} ELSE {"executed"}

\* The words "Plugin Violation" anywhere in the answer are a block, and any
\* other JSON is an executed wire; a body that is not JSON raises, as a failed
\* request does.  The tool's own result repeats the payee, and so may an error.
WireLines(r) ==
  CASE reply[r] = "violation" -> {"blocked"}
    [] reply[r] = "notJson" -> {"error"}
    [] reply[r] = "ok" -> {IF payee[r] = "Plugin Violation" THEN "blocked" ELSE "executed"}
    [] OTHER -> {"executed"}
         \cup (IF reply[r] = "httpError" THEN {"error"} ELSE {})
         \cup (IF payee[r] = "Plugin Violation" THEN {"blocked"} ELSE {})

WireAnswered(r) ==
  /\ Enter(r, "wiring", "reported")
  /\ GW!Receive(r)
  /\ \E line \in WireLines(r) : report' = [report EXCEPT ![r] = line]
  /\ UNCHANGED <<catalog, amount, payee, ballot, panel>>

\* Deviation: the exception's text becomes the report's status.
WireRaises_OwnStatus(r) ==
  /\ Enter(r, "wiring", "reported")
  /\ GW!GiveUp(r)
  /\ report' = [report EXCEPT ![r] = "wire error: timed out"]
  /\ UNCHANGED <<catalog, amount, payee, ballot, panel>>

\* The request fails or takes more than ten seconds.
WireRaises(r) ==
  /\ Enter(r, "wiring", "reported")
  /\ GW!GiveUp(r)
  /\ report' = [report EXCEPT ![r] = "error"]
  /\ UNCHANGED <<catalog, amount, payee, ballot, panel>>

\* The chair's container stops in the middle of a run.
ChairDies(r) ==
  /\ phase[r] \in {"discovering", "polling", "wiring"}
  /\ phase' = [phase EXCEPT ![r] = "dead"]
  /\ IF phase[r] = "wiring" THEN GW!GiveUp(r) ELSE UNCHANGED gatewayVars
  /\ UNCHANGED <<catalog, amount, payee, ballot, report, panel>>

----------------------------------------------------------------------------
(* The Companion's card, and the gateway at work. *)

PanelReads(r) ==
  /\ panel[r] = "waiting"
  /\ phase[r] = "reported"
  /\ panel' = [panel EXCEPT ![r] = IF report[r] = "blocked" THEN "BLOCKED" ELSE "ALLOWED"]
  /\ UNCHANGED <<gatewayVars, catalog, phase, amount, payee, ballot, report>>

\* Thirty seconds are up, or no report came back.
PanelGivesUp(r) ==
  /\ panel[r] = "waiting"
  /\ panel' = [panel EXCEPT ![r] = "SEE RAW"]
  /\ UNCHANGED <<gatewayVars, catalog, phase, amount, payee, ballot, report>>

GatewayWorks ==
  /\ GW!OpaChanges \/ \E r \in Runs : GW!GatewayStep(r) \/ GW!Drop(r)
  /\ UNCHANGED chairVars

----------------------------------------------------------------------------
VoteSettles(r, v) == VoterAnswers(r, v) \/ VoterSilent(r, v)
WireSettles(r) == WireAnswered(r) \/ WireRaises(r)

ChairStep(r) ==
  \/ Discover(r)
  \/ \E v \in Voters : VoteSettles(r, v)
  \/ Tally(r)
  \/ WireSettles(r)

Next ==
  \/ CatalogChanges
  \/ GatewayWorks
  \/ \E r \in Runs :
       \/ \E a \in Expenses, p \in Payees : Start(r, a, p)
       \/ ChairStep(r)
       \/ ChairDies(r)
       \/ PanelReads(r)
       \/ PanelGivesUp(r)

Spec == Init /\ [][Next]_vars

\* What the chair does without anybody's help: each of its waits has a timeout.
OwnStep(r) ==
  \/ Discover(r)
  \/ \E v \in Voters : VoterSilent(r, v)
  \/ Tally(r)
  \/ WireRaises(r)

\* Nothing is assumed of the voters, the gateway or the policy engine.
Fairness == \A r \in Runs : WF_vars(OwnStep(r))

FairSpec == Spec /\ Fairness

----------------------------------------------------------------------------
(* Properties that hold. *)

\* The money follows the room: a wire in the dual-approval band ran only if
\* more of that run's voters approved than rejected, and no wire at or over
\* the ceiling ran at all, whatever voters, registry, OPA and timeouts did
\* between the vote and the payment.
WireFollowsTheVote ==
  \A r \in executed :
    /\ amount[r] < GW!HardCeiling
    /\ amount[r] >= GW!AutoApproveLimit => Count(r, "approve") > Count(r, "reject")

\* asyncio.gather: no wire is attempted while a vote that was asked for is
\* outstanding, so what the report counts is what the wire was decided on.
EveryVoteCounted ==
  \A r \in Runs : stage[r] # "idle" => \A v \in Voters : ballot[r][v] # "asked"

\* The Companion's BLOCKED card, and "wire_blocked=true" of a payee that does
\* not bear the words, mean the money did not move and will not move later,
\* though answers are lost and late.
BlockedIsTrue ==
  \A r \in Runs :
    \/ panel[r] = "BLOCKED"
    \/ report[r] = "blocked" /\ payee[r] # "Plugin Violation"
    => r \notin executed /\ stage[r] \notin GW!InFlight

\* A run that started comes to its report, or dies with the chair, however
\* many voters and backends hang: each await has its own timeout.
EveryRunEnds ==
  \A r \in Runs : phase[r] = "discovering" ~> phase[r] \in {"reported", "dead"}

\* The chair's wire is a client's call of the gateway like any other.
GovernedByGateway == GW!Spec

\* The composition keeps the promise of QuorumPayment.  A run is decided the
\* moment its wire goes out, by the ballots it then has.
decision ==
  [r \in Runs |-> IF stage[r] = "idle" THEN "open"
                  ELSE IF Count(r, "approve") > Count(r, "reject") THEN "approved"
                  ELSE "refused"]

QP == INSTANCE QuorumPayment WITH
  AutoApproveLimit <- GW!AutoApproveLimit, HardCeiling <- GW!HardCeiling,
  paid <- executed

ImplementsQuorumPayment == QP!Spec
=============================================================================
