------------------------------ MODULE Evidence ------------------------------
(***************************************************************************)
(* The scenario cards of the dashboard and their evidence, companion/app   *)
(* .py: /api/run makes one governed call and keeps its result as the last  *)
(* of its scenario, /api/evidence explains that result by a search in the  *)
(* decision log of OPA, which knows tools and arguments but no calls.  The *)
(* last results and the log are shared by all browsers, other clients of   *)
(* the gateway and the operator's policy probes (controlplane/server.py)   *)
(* write to the log too, and no two of these steps are one.                *)
(***************************************************************************)
EXTENDS Integers, SequencesExt

CONSTANTS
  Runs,            \* runs of cards; each makes the gateway call of its name
  OtherRequests,   \* what other clients of the gateway ask for, and how they write it
  Shown,           \* the scenarios on the dashboard
  Probes,          \* what the operator asks the policy about
  MaxOthers,       \* a bound on the lines of others in what is kept of the log
  LogTail,         \* how many lines of the log are read, and kept here
  AsFloat,         \* an amount not written as the cards write theirs: "50000.0"
  NoAmount, NoRequest, None

Scenarios == {"baseline", "policy", "policy_approved", "policy_ceiling", "pii", "injection", "a2a"}

Verdicts == {"ALLOWED", "BLOCKED", "REDACTED", "NEUTRALIZED", "EXECUTED (Rust)", "SEE RAW"}

ASSUME EvidenceAssumption ==
  /\ Shown \subseteq Scenarios
  /\ None \notin Runs \cup Scenarios \cup Verdicts
  /\ NoAmount \notin Nat /\ AsFloat \notin Nat
  /\ LogTail \in Nat \ {0}

VARIABLES
  opa, stage, req, reply, client, executed,   \* the gateway's, see Gateway
  scenario,   \* the scenario of each run
  verdict,    \* what the card says of each run
  LAST,       \* the last run of each scenario
  log,        \* the tail of OPA's decision log: question, its text, results, whose
  evidence    \* what a browser loads: the run, the decision, the gateway's lines

cards == <<scenario, verdict, LAST>>
gateway == <<opa, stage, req, reply, client, executed>>
vars == <<gateway, cards, log, evidence>>

Wire == "erp-payments-wire"
Receipt == "expense-db-get-receipt"
Payments == "a2a-payments"
Tools == {Wire, Receipt, Payments}

CardAmounts == {500000, 5000000, 15000000}

GW == INSTANCE Gateway WITH
  Calls <- Runs, WireNamed <- {Wire, Payments}, Amounts <- CardAmounts

Ask(tool, amount, approval) == GW!ByArguments(tool, amount, approval)

\* The payments agent gets a message, in which the policy finds no amount.
Message == GW!ByMessage(Payments, 500000)

\* Deviation: the card of the ceiling asks for a wire below it.
RequestOf_BelowCeiling(s) ==
  IF s \in {"pii", "injection"} THEN Ask(Receipt, NoAmount, FALSE)
  ELSE IF s = "a2a" THEN Message
  ELSE Ask(Wire, 5000000, s # "policy")

\* What each card asks for, in cents.
RequestOf(s) ==
  CASE s = "baseline" -> Ask(Wire, 500000, FALSE)
    [] s = "policy" -> Ask(Wire, 5000000, FALSE)
    [] s = "policy_approved" -> Ask(Wire, 5000000, TRUE)
    [] s = "policy_ceiling" -> Ask(Wire, 15000000, TRUE)
    [] s \in {"pii", "injection"} -> Ask(Receipt, NoAmount, FALSE)
    [] s = "a2a" -> Message

\* How str() writes a card's arguments, an integer and a boolean.
CardText(q) == [amount |-> q.amount, approval |-> IF q.approval THEN "True" ELSE "False"]

\* How it may write the same question in the log.  JSON true is "True", and so is
\* the string "True", which to the policy is no approval; an approval that is
\* absent, a number or another string is "other".
Writings(q) ==
  {w \in [amount: {q.amount, AsFloat}, approval: {"True", "False", "other"}] :
     q.approval => w.approval = "True"}

ASSUME OthersAssumption ==
  /\ \A o \in OtherRequests : o.q.approval \in BOOLEAN /\ o.text \in Writings(o.q)
  /\ \A p \in Probes : p.approval \in BOOLEAN

\* A line of the decision log: who asked what, how str() writes its arguments,
\* and what OPA said, if anything.
Questions ==
  GW!Requests \cup {o.q : o \in OtherRequests} \cup {Ask(p.tool, p.amount, p.approval) : p \in Probes}
Lines ==
  [q: Questions, text: UNION {Writings(q) : q \in Questions},
   by: Runs \cup {"client", "operator"}, results: SUBSET BOOLEAN]

NoEvidence == [run |-> None, decision |-> None, lines |-> {}, at |-> "none"]

TypeOK ==
  /\ GW!TypeOK
  /\ scenario \in [Runs -> Shown \cup {None}]
  /\ verdict \in [Runs -> Verdicts \cup {None}]
  /\ \A s \in Shown : LAST[s] = None \/ (scenario[LAST[s]] = s /\ verdict[LAST[s]] # None)
  /\ log \in Seq(Lines)
  /\ evidence.at = "read" => evidence.run \in Runs

Init ==
  /\ GW!Init
  /\ scenario = [r \in Runs |-> None]
  /\ verdict = [r \in Runs |-> None]
  /\ LAST = [s \in Shown |-> None]
  /\ log = <<>>
  /\ evidence = NoEvidence

----------------------------------------------------------------------------
(* /api/run *)

\* Deviation: the run is the last of its scenario before it has a result.
Run_RememberedFirst(r, s) ==
  /\ GW!Submit(r, RequestOf(s))
  /\ scenario' = [scenario EXCEPT ![r] = s]
  /\ LAST' = [LAST EXCEPT ![s] = r]
  /\ UNCHANGED <<verdict, log, evidence>>

Run(r, s) ==
  /\ GW!Submit(r, RequestOf(s))
  /\ scenario' = [scenario EXCEPT ![r] = s]
  /\ UNCHANGED <<verdict, LAST, log, evidence>>

\* All verdicts but one are fixed, whatever the answer is.  The agent's own
\* text says "Payment executed".
VerdictOf(s, answer) ==
  CASE s \in {"baseline", "policy_approved"} -> "ALLOWED"
    [] s \in {"policy", "policy_ceiling"} -> "BLOCKED"
    [] s = "pii" -> "REDACTED"
    [] s = "injection" -> "NEUTRALIZED"
    [] s = "a2a" -> IF answer = "ok" THEN "EXECUTED (Rust)" ELSE "SEE RAW"

\* The card is answered, and is the last of its scenario, in whatever order the
\* runs were started.
Answered(r, answer) ==
  /\ verdict' = [verdict EXCEPT ![r] = VerdictOf(scenario[r], answer)]
  /\ LAST' = [LAST EXCEPT ![scenario[r]] = r]
  /\ UNCHANGED <<scenario, log, evidence>>

RunAnswered(r) == GW!Receive(r) /\ Answered(r, reply[r])

\* Thirty seconds without an answer, or an exception, which becomes an error.
RunFails(r) == GW!GiveUp(r) /\ Answered(r, "httpError")

----------------------------------------------------------------------------
(* /api/evidence *)

\* Before a run there is nothing to explain (409).
LoadEvidence(s) ==
  /\ LAST[s] # None
  /\ evidence' = [NoEvidence EXCEPT !.run = LAST[s], !.at = "loading"]
  /\ UNCHANGED <<gateway, cards, log>>

HasAmount(q) == q.amount # NoAmount

\* Deviation: the approval does not discriminate calls.
SameArguments_WithoutApproval(q, e) ==
  q.tool # Receipt /\ (HasAmount(q) => e.text.amount = q.amount)

\* The arguments the card has are compared as text.  A message has none of them,
\* and a receipt's is an id, which no line has: OPA is not asked about receipts.
SameArguments(q, e) == q.tool # Receipt /\ (HasAmount(q) => e.text = CardText(q))

\* The latest line of the tail that is about this tool and these arguments.
opa_decision(q) ==
  LET Fits(e) == e.q.tool = q.tool /\ SameArguments(q, e)
      last == SelectLastInSeq(log, Fits)
  IN  IF last = 0 THEN None ELSE log[last]

\* The calls of this tool that the gateway has a line about: it logs those that
\* failed or were blocked.
_gateway_logs(name) ==
  {c \in Runs : req[c] # NoRequest /\ req[c].tool = name /\ reply[c] \in {"violation", "rpcError"}}

\* The gateway's lines are shown under a card that says BLOCKED.
ReadLog ==
  /\ evidence.at = "loading"
  /\ LET q == req[evidence.run]
         blocked == verdict[evidence.run] = "BLOCKED"
     IN  evidence' = [evidence EXCEPT !.at = "read", !.decision = opa_decision(q),
                                      !.lines = IF blocked THEN _gateway_logs(q.tool) ELSE {}]
  /\ UNCHANGED <<gateway, cards, log>>

----------------------------------------------------------------------------
(* Everybody else. *)

Logged(e) == IF Len(log) < LogTail THEN Append(log, e) ELSE Append(Tail(log), e)

\* Without a policy OPA answers, and logs, no result.
Line(q, text, by) ==
  [q |-> q, text |-> text, by |-> by, results |-> IF opa = "ready" THEN {GW!allow(q)} ELSE {}]

\* A decision is logged when it is made, also one that came too late.
GatewayWorks ==
  /\ \E c \in Runs :
       LET logged == Logged(Line(req[c], CardText(req[c]), c)) IN
       \/ (GW!OpaAllows(c) \/ GW!OpaDenies(c)) /\ log' = logged
       \/ GW!OpaFails(c) /\ log' \in {log} \cup (IF opa = "down" THEN {} ELSE {logged})
       \/ /\ GW!Refuse(c) \/ GW!EnterPreHook(c) \/ GW!BackendRuns(c) \/ GW!BackendFails(c)
             \/ GW!PostHook(c) \/ GW!ResultLost(c) \/ GW!Drop(c)
          /\ UNCHANGED log
  /\ UNCHANGED <<cards, evidence>>

OpaChanges == GW!OpaChanges /\ UNCHANGED <<cards, log, evidence>>

OthersLog(q, text, who) ==
  /\ opa # "down"
  /\ Len(SelectSeq(log, LAMBDA e : e.by \notin Runs)) < MaxOthers
  /\ log' = Logged(Line(q, text, who))
  /\ UNCHANGED <<gateway, cards, evidence>>

\* The gateway asks about a call of another client; Gateway says what becomes of
\* such a call, here only the line in the log matters.
OtherCall(o) == OthersLog(o.q, o.text, "client")

\* The operator asks OPA directly; nothing is called.  The amount is a float.
evaluate_policy(amount, approval, tool) ==
  LET q == Ask(tool, amount, approval)
  IN  OthersLog(q, [CardText(q) EXCEPT !.amount = AsFloat], "operator")

----------------------------------------------------------------------------
Next ==
  \/ \E r \in Runs : RunAnswered(r) \/ RunFails(r) \/ \E s \in Shown : Run(r, s)
  \/ ReadLog \/ \E s \in Shown : LoadEvidence(s)
  \/ GatewayWorks \/ OpaChanges
  \/ \E o \in OtherRequests : OtherCall(o)
  \/ \E p \in Probes : evaluate_policy(p.amount, p.approval, p.tool)

Spec == Init /\ [][Next]_vars

----------------------------------------------------------------------------
(* Properties. *)

\* The decision shown under a wire's card is the policy's on a call of that tool
\* and amount, though it may be another call, and though the calls of cards,
\* clients and operators mix in the log (_opa_decision).  It is on a call of that
\* approval too, unless another client wrote "True" where the policy reads true.
DecisionFitsTheRequest ==
  LET q == req[evidence.run]
      d == evidence.decision
  IN  d # None /\ HasAmount(q) =>
        /\ d.q.tool = q.tool /\ d.q.amount = q.amount
        /\ d.q.approval = q.approval \/ (d.by = "client" /\ q.approval /\ d.text.approval = "True")
        /\ d.results \subseteq {GW!PostureAllows(d.q, q.amount)}

\* A card that says BLOCKED, which it says of any answer and of none, is about
\* a call that did not and will not move money; and the one verdict that is
\* read from the answer, the mesh card's, is of a payment that was made.
CardsAreTrue ==
  \A r \in Runs :
    /\ verdict[r] = "BLOCKED" => r \notin executed
    /\ verdict[r] = "EXECUTED (Rust)" => r \in executed

----------------------------------------------------------------------------
(* What the repository says of the evidence and the code does not do. *)

\* app.py:79: the logs are correlated to the exact call that was just made.
EvidenceIsOfTheCall ==
  /\ evidence.decision # None => evidence.decision.by = evidence.run
  /\ evidence.lines \subseteq {evidence.run}
=============================================================================
