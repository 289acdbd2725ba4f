------------------------------ MODULE Auditor ------------------------------
(***************************************************************************)
(* The Auditor of a2a-agents/auditor/agent_executor.py: it reads an amount *)
(* and an approval out of a free text, calls the governed a2a-payments     *)
(* tool, and sorts whatever comes back into executed, blocked and error.   *)
(* Audit a makes the gateway call named a.                                 *)
(***************************************************************************)
EXTENDS Integers

CONSTANTS
  Audits,            \* requests to the Auditor
  Amounts,           \* the amounts, in cents, that texts name
  Payees,            \* the payees they name, by the marks in the name
  Asked,             \* the texts the audits are asked
  NoAmount, NoPayee, NoRequest

ASSUME AuditorAssumption == Amounts \subseteq Nat /\ NoAmount \notin Nat

VARIABLES
  opa, stage, req, reply, client, executed,   \* the gateway's, see Gateway
  text,      \* what each audit was asked
  report     \* what each audit answered

auditorVars == <<text, report>>
gatewayVars == <<opa, stage, req, reply, client, executed>>
vars == <<gatewayVars, auditorVars>>

PaymentTool == "a2a-payments"

GW == INSTANCE Gateway WITH
  Calls <- Audits, Tools <- {PaymentTool}, WireNamed <- {PaymentTool},
  Amounts <- Amounts \cup {0}

\* What the Auditor looks for in an answer: one of six words, "policy" among
\* them, and the marks of an error of the agent behind the tool.
Marks == {"policy", "agent error"}

ASSUME PayeesAssumption == Payees \subseteq SUBSET Marks /\ {} \in Payees

\* A text asks for an amount or none.  The first number in it may be another:
\* "Invoice 17: pay $150,000" begins with 17, and "$150k" with 150.  A text
\* speaks of approval in one of three ways, and names a payee, whose name may
\* bear marks itself ("Policy Holders Inc"), or none.
Wordings == {"approved", "not approved", "no word of it"}
Texts == [amount: Amounts \cup {NoAmount}, first: Amounts \cup {NoAmount},
          wording: Wordings, payee: Payees \cup {NoPayee}]
NoText == [amount |-> NoAmount, first |-> NoAmount, wording |-> "no word of it", payee |-> NoPayee]

ASSUME AskedAssumption == Asked \subseteq Texts

Reports == {"executed", "blocked", "error"}

TypeOK ==
  /\ GW!TypeOK
  /\ text \in [Audits -> Texts]
  /\ report \in [Audits -> Reports \cup {"none"}]

Init ==
  /\ GW!Init
  /\ text = [a \in Audits |-> NoText]
  /\ report = [a \in Audits |-> "none"]

\* The first number in the text, whatever it counts.
parse_amount(t) == IF t.first = NoAmount THEN 0 ELSE t.first

\* Deviation: approval is assumed unless the text speaks of it.
parse_approval_ByDefault(t) == t.wording # "not approved"

\* Every text with "approv" in it.
parse_approval(t) == t.wording \in {"approved", "not approved"}

\* "Acme LLC" where none is named.
parse_payee(t) == IF t.payee = NoPayee THEN {} ELSE t.payee

\* The arguments of the governed call.
Arguments(t) == GW!ByArguments(PaymentTool, parse_amount(t), parse_approval(t))

----------------------------------------------------------------------------
Ask(a, t) ==
  /\ GW!Submit(a, Arguments(t))
  /\ text' = [text EXCEPT ![a] = t]
  /\ UNCHANGED report

\* The marks an answer may bear.  The gateway names a violation as one.  An error
\* of the payments agent is one it knows by three signs ("embedded") or one told
\* in other words, and the agent may repeat what it was asked, the payee included.
Bears(a) ==
  CASE reply[a] = "violation" -> {m \in SUBSET Marks : "policy" \in m}
    [] reply[a] = "embedded" -> {m \in SUBSET Marks : "agent error" \in m}
    [] reply[a] = "otherJson" -> SUBSET {"policy"}
    [] reply[a] = "ok" -> SUBSET parse_payee(text[a])
    [] OTHER -> SUBSET Marks

looks_like_violation(marks) == "policy" \in marks
embedded_error(marks) == "agent error" \in marks

\* Of a result, and of JSON that is neither a result nor an error, the text decides.
ReadResult(marks) ==
  CASE looks_like_violation(marks) -> "blocked"
    [] ~looks_like_violation(marks) /\ embedded_error(marks) -> "error"
    [] OTHER -> "executed"

\* Deviation: the HTTP status is not looked at, and an error page of the
\* gateway is a dictionary without an "error" in it.
audit_AnyStatus(r, marks) ==
  CASE r = "notJson" -> "executed"
    [] r = "toolError" -> "blocked"
    [] r \in {"violation", "rpcError"} -> IF looks_like_violation(marks) THEN "blocked" ELSE "error"
    [] OTHER -> ReadResult(marks)

\* What the Auditor makes of an answer.  A result with isError set is always
\* taken for a violation, and a 2xx body that is not JSON for a payment.
audit(r, marks) ==
  CASE r = "httpError" -> "error"
    [] r = "notJson" -> "executed"
    [] r = "toolError" -> "blocked"
    [] r \in {"violation", "rpcError"} -> IF looks_like_violation(marks) THEN "blocked" ELSE "error"
    [] OTHER -> ReadResult(marks)

Answered(a) ==
  /\ report[a] = "none"
  /\ GW!Receive(a)
  /\ \E marks \in Bears(a) : report' = [report EXCEPT ![a] = audit(reply[a], marks)]
  /\ UNCHANGED text

\* Deviation: the exception is not caught, and its name is the report.
Raised_Uncaught(a) ==
  /\ report[a] = "none"
  /\ GW!GiveUp(a)
  /\ report' = [report EXCEPT ![a] = "ReadTimeout"]
  /\ UNCHANGED text

\* A transport failure, or thirty seconds without an answer.
Raised(a) ==
  /\ report[a] = "none"
  /\ GW!GiveUp(a)
  /\ report' = [report EXCEPT ![a] = "error"]
  /\ UNCHANGED text

GatewayWorks ==
  /\ GW!OpaChanges \/ \E a \in Audits : GW!GatewayStep(a) \/ GW!Drop(a)
  /\ UNCHANGED auditorVars

Next ==
  \/ GatewayWorks
  \/ \E a \in Audits : Answered(a) \/ Raised(a) \/ \E t \in Asked : Ask(a, t)

Spec == Init /\ [][Next]_vars

----------------------------------------------------------------------------
(* Properties that hold. *)

\* "Payment executed" is never said of a payment that did not run when the
\* answer says what became of it: a violation, an error of the gateway, a result
\* with isError set, or an error of the agent in the signs _embedded_error knows.
ExecutedIsTrue ==
  \A a \in Audits :
    report[a] = "executed" /\ reply[a] \notin {"notJson", "otherJson"} => a \in executed

\* An audit whose amount is the first number of its text is paid in the dual-
\* approval band only if the text speaks of approval, and at or over the ceiling
\* never.
PaidAsTheTextAllows ==
  \A a \in executed :
    text[a].amount # NoAmount /\ text[a].amount = text[a].first =>
      /\ text[a].amount < GW!HardCeiling
      /\ text[a].wording = "no word of it" => text[a].amount < GW!AutoApproveLimit
=============================================================================
