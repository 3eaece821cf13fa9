---------------------------- MODULE MCAdmission ----------------------------
(* Values of Admission for TLC: two certificates, one of which lapses      *)
(* while its connection is open and is an operator's; an agent that        *)
(* expires and one that does not; every listener as the daemon wires it,   *)
(* and each list wired to one.  Connections and commands are               *)
(* interchangeable.                                                        *)
EXTENDS Admission, TLC

CONSTANTS c1, c2, r1, r2, k1, k2, a1, a2, i1, i2

MCIdentityOf == c1 :> i1 @@ c2 :> i2
MCNotAfter == c1 :> 2 @@ c2 :> 3
MCExpiry == a1 :> 1 @@ a2 :> None
MCWirings == {{}, {"blocklist"}, {"crl"}}
MCDeployments ==
    ([side : {"agent", "operator"}, mode : {"bearer", "mtls", "both"}] \X {{}}) \cup
    {<<[side |-> "shared", mode |-> "both"], {}>>,
     <<[side |-> "anyone", mode |-> "both"], {}>>,
     <<[side |-> "operator", mode |-> "both"], {"blocklist"}>>,
     <<[side |-> "operator", mode |-> "mtls"], {"crl"}>>}

Symmetry == Permutations(Cli) \cup Permutations(Conn)
============================================================================
