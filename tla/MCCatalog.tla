----------------------------- MODULE MCCatalog -----------------------------
(* Two terminals, the backends whose tools have "wire" or "convert" in their names. *)
EXTENDS Catalog, TLC

AllJobs == {
  [task |-> "seed"],
  [task |-> "grant", server |-> "FinOps", names |-> <<<<"convert">>>>],
  [task |-> "grant", server |-> "Builder", names |-> <<<<"wire">>>>],
  [task |-> "register", backend |-> "fx-rates"],
  [task |-> "register", backend |-> "erp-payments"],
  [task |-> "register_mcp_server", backend |-> "fx-rates"]}

\* A catalog not seeded yet, and one in another order than the seed's.
EmptyOrReordered == {<<>>, <<"policy-docs", "erp-payments", "fx-rates">>}

TerminalSymmetry == Permutations(Processes)
=============================================================================
