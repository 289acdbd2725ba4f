----------------------------- MODULE MCEvidence -----------------------------
(* Two runs of cards, among the wires, payments and probes of others.     *)
EXTENDS Evidence

Written(q, approval) == [q |-> q, text |-> [amount |-> q.amount, approval |-> approval]]

\* An attendee's wire without approval, one whose approval is the string "True",
\* and a payment the Auditor asks for, with a float.
ClientRequests ==
  {Written(Ask(Wire, 5000000, FALSE), "False"), Written(Ask(Wire, 5000000, FALSE), "True"),
   [q |-> Ask(Payments, 5000000, FALSE), text |-> [amount |-> AsFloat, approval |-> "False"]]}

BandProbes == {Ask(Wire, 5000000, FALSE)}

RunSymmetry == Permutations(Runs)
=============================================================================
