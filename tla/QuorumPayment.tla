--------------------------- MODULE QuorumPayment ---------------------------
(***************************************************************************)
(* What the governed quorum promises, without voters, gateway or policy    *)
(* engine: an expense is put to the room once, decided once, and paid only *)
(* as its tier and the decision allow.  It may never be paid.              *)
(***************************************************************************)
EXTENDS Integers

CONSTANTS Runs, Expenses, AutoApproveLimit, HardCeiling, NoAmount

VARIABLES
  amount,     \* the expense each run is about
  decision,   \* "open", "approved" or "refused"
  paid        \* the runs whose expense was paid

vars == <<amount, decision, paid>>

Init ==
  /\ amount = [r \in Runs |-> NoAmount]
  /\ decision = [r \in Runs |-> "open"]
  /\ paid = {}

Propose(r, a) ==
  /\ amount[r] = NoAmount
  /\ amount' = [amount EXCEPT ![r] = a]
  /\ UNCHANGED <<decision, paid>>

Decide(r) ==
  /\ amount[r] # NoAmount
  /\ decision[r] = "open"
  /\ \E d \in {"approved", "refused"} : decision' = [decision EXCEPT ![r] = d]
  /\ UNCHANGED <<amount, paid>>

Payable(r) ==
  \/ amount[r] < AutoApproveLimit
  \/ amount[r] < HardCeiling /\ decision[r] = "approved"

Pay(r) ==
  /\ decision[r] # "open"
  /\ Payable(r)
  /\ paid' = paid \cup {r}
  /\ UNCHANGED <<amount, decision>>

Next == \E r \in Runs : Decide(r) \/ Pay(r) \/ \E a \in Expenses : Propose(r, a)

Spec == Init /\ [][Next]_vars
=============================================================================
