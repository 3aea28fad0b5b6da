-------------------------- MODULE MCAgentServices ---------------------------
(* Two processes and two configurations, which are interchangeable.          *)
EXTENDS AgentServices, TLC

Symmetry == Permutations(Procs) \union Permutations(Configs)

=============================================================================
