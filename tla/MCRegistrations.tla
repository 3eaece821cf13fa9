-------------------------- MODULE MCRegistrations --------------------------
(* Values of Registrations for TLC.  The second seed catalog changes the   *)
(* secret of the entry; the third gives it another kind, which startup     *)
(* refuses.  config.tools has an entry of the same name with a secret of   *)
(* its own.                                                                *)
EXTENDS Registrations, TLC

CONSTANTS tavily, v1, v2, h1, h2

MCSeed == [v \in 1..3 |-> [n \in {tavily} |->
    [kind |-> IF v = 3 THEN "model" ELSE "tool", auth |-> IF v = 1 THEN v1 ELSE v2]]]

MCConfigTools == [n \in {tavily} |-> v1]

HandlerSymmetry == Permutations(Handler)
============================================================================
