--------------------------- MODULE MCAgentHarness ---------------------------
(* Small instances of AgentHarness. *)
EXTENDS AgentHarness, TLC

SymRoles == Permutations(Investigators) \union Permutations(Reviewers)
=============================================================================
