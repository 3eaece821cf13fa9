----------------------------- MODULE MCAgents -----------------------------
(* Model values of AgentRegistry for TLC; public ids, names and handlers   *)
(* are interchangeable.                                                    *)
EXTENDS AgentInvariants, TLC

CONSTANTS a1, a2, n1, n2, b1, b2, h1, h2, t1

Symmetry == Permutations(Agent) \cup Permutations(Name) \cup Permutations(Handler)
============================================================================
