----------------------------- MODULE MCGateway -----------------------------
(* A small instance of the governed tools/call path, with an amount per tier. *)
EXTENDS Gateway

\* An amount in each tier, the lowest of the upper two.
TierAmounts == {AutoApproveLimit - 1, AutoApproveLimit, HardCeiling}
=============================================================================
