----------------------------- MODULE WirePolicy -----------------------------
(***************************************************************************)
(* The wire policy of gateway/policies/finops.rego, as a predicate on the  *)
(* tool called and the arguments it carries, and the question FinByteGuard *)
(* asks it.  Amounts are natural numbers of cents, so that the one-dollar  *)
(* roundings elsewhere in the system can be told from the amount wired.    *)
(***************************************************************************)
EXTENDS Integers

CONSTANTS
  Tools,      \* names in the gateway's tool catalog
  WireNamed,  \* the names that contain "wire" or "payment", in any case
  Amounts,    \* the amounts, in cents, that calls carry
  NoAmount    \* the tool arguments carry no amount a number can be read from

ASSUME ToolsAssumption == WireNamed \subseteq Tools
ASSUME AmountsAssumption == Amounts \subseteq Nat /\ NoAmount \notin Amounts

Dollar == 100
AutoApproveLimit == 10000 * Dollar
HardCeiling == 100000 * Dollar

(***************************************************************************)
(* A call asks for an amount in one of two ways: as an argument, which the *)
(* policy reads, or in the text of a message to an agent, which the agent  *)
(* carries out and the policy does not read.  "says" is what the message   *)
(* of a call without the argument asks for, if the tool moves money.       *)
(* "approval" is whether the argument is the JSON value true: an absent    *)
(* flag, a string or a number is not.                                      *)
(***************************************************************************)
ByArguments(tool, amount, approval) ==
  [tool |-> tool, amount |-> amount, approval |-> approval, says |-> NoAmount]

ByMessage(tool, says) ==
  [tool |-> tool, amount |-> NoAmount, approval |-> FALSE, says |-> says]

Requests ==
  [tool: Tools, amount: Amounts \cup {NoAmount}, approval: BOOLEAN, says: {NoAmount}]
    \cup [tool: WireNamed, amount: {NoAmount}, approval: {FALSE}, says: Amounts]

\* The same two words select a call in the plugin and in the policy.
IsWireCall(q) == q.tool \in WireNamed

HasAmount(q) == q.amount # NoAmount

\* Deviation: the ceiling itself is let through.
over_ceiling_PastLimit(q) == IsWireCall(q) /\ HasAmount(q) /\ q.amount > HardCeiling

over_ceiling(q) ==
  /\ IsWireCall(q)
  /\ HasAmount(q)
  /\ q.amount >= HardCeiling

needs_approval(q) ==
  /\ IsWireCall(q)
  /\ HasAmount(q)
  /\ q.amount >= AutoApproveLimit
  /\ q.amount < HardCeiling
  /\ ~q.approval

\* An undefined amount makes both rules undefined, and "not" of them true.
allow(q) == ~over_ceiling(q) /\ ~needs_approval(q)

\* The set of reasons that goes back with the verdict.
deny(q) ==
  {m \in {"over the hard ceiling", "approval required"} :
     \/ m = "over the hard ceiling" /\ over_ceiling(q)
     \/ m = "approval required" /\ needs_approval(q)}

(***************************************************************************)
(* The two-tier posture in the numbers that the policy-docs server tells   *)
(* the agents, in words of tiers and not of rules, of the money a call is  *)
(* to move: the reference the rules are compared with.                     *)
(***************************************************************************)
wire_limit == [auto_approve_under |-> 10000, dual_approval_at_or_above |-> 10000,
               hard_ceiling_at_or_above |-> 100000]

PostureAllows(q, money) ==
  \/ ~IsWireCall(q)
  \/ money < wire_limit.auto_approve_under * Dollar
  \/ /\ money >= wire_limit.dual_approval_at_or_above * Dollar
     /\ money < wire_limit.hard_ceiling_at_or_above * Dollar
     /\ q.approval
=============================================================================
