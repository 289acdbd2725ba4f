----------------------------- MODULE MCAuditor -----------------------------
(* Two audits at once, with an amount in each tier of the policy. *)
EXTENDS Auditor, TLC

\* The first number of a text is the amount it asks for, or it is a small one
\* before an amount at the ceiling that the text says nothing of approving.
MCAsked ==
  {t \in Texts :
     \/ t.first = t.amount
     \/ t.first = 1700 /\ t.amount = 10000000 /\ t.wording = "no word of it"}

AuditSymmetry == Permutations(Audits)
=============================================================================
