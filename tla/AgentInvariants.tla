-------------------------- MODULE AgentInvariants --------------------------
(***************************************************************************)
(* The inductive invariant of AgentRegistry: what the tables, the history  *)
(* and the locals of the handlers have to do with each other at every      *)
(* step, strong enough to be preserved by each step on its own.            *)
(***************************************************************************)
EXTENDS AgentRegistry

(* A registration whose row is in the table and whose token is not spent;  *)
(* a request of an agent; and the same once it is authenticated.           *)
Registering == {"check", "select", "mark", "rollback"}
Identified == {"acl", "admitted", "reread", "cas", "leave"}
Serving == Identified \cup {"auth"}

(* What a handler's label says of its locals. *)
Locals(p) ==
    /\ pc[p] = "idle" <=> input[p] = None
    /\ pc[p] \in {"preview", "refused", "denied", "alerted"} \cup Registering =>
            input[p].op = "register"
    /\ pc[p] = "insert" => input[p].op \in {"register", "create"}
    /\ pc[p] # "idle" /\ input[p].op \in {"register", "create"} => input[p].name \in Name
    /\ pc[p] # "idle" /\ input[p].op = "register" => input[p].boot \in Boot
    /\ pc[p] \in Serving => /\ input[p].op \in {"rotate", "deregister", "call"}
                            /\ input[p].agent \in Agent
    /\ pc[p] \in {"acl", "admitted"} => input[p].op = "call" /\ view[p] \in Policy
    /\ pc[p] \in Identified => acct[p] = input[p].agent
    /\ pc[p] \in Registering \cup {"answer"} => acct[p] \in Agent
    /\ pc[p] \in Registering \cup {"answer", "cas"} => hash[p] \in Secret

LocalInv == \A p \in Handler : Locals(p)

(* Who has an account has its row; a registration has it for itself and    *)
(* knows its secret until the token is spent; only enrolled agents ask and *)
(* are answered.                                                           *)
RowInv ==
    /\ \A a \in Agent : via[a] # None => agents[a] # None
    /\ \A h \in held : via[h[1]] # None
    /\ \A p \in Handler :
        /\ pc[p] \in Serving => via[input[p].agent] # None
        /\ pc[p] = "answer" => via[acct[p]] # None
        /\ pc[p] \in Registering => /\ via[acct[p]] = None /\ agents[acct[p]] # None
                                    /\ agents[acct[p]].secret = hash[p]
    /\ \A p, q \in Handler :
        pc[p] \in Registering /\ pc[q] \in Registering /\ p # q => acct[p] # acct[q]

(* What was found wrong with a token stays wrong, and is reported if it is *)
(* a reuse.                                                                *)
Blame(p) ==
    /\ pc[p] = "mark" => boots[input[p].boot] # None
    /\ pc[p] \notin {"rollback", "refused", "denied", "alerted"} => cause[p] = None
    /\ pc[p] \in {"rollback", "refused"} /\ cause[p] = "used" =>
            /\ boots[input[p].boot] # None /\ input[p].boot \in SingleUse
            /\ boots[input[p].boot].used # None
    /\ pc[p] \in {"rollback", "refused"} /\ cause[p] = "revoked" =>
            boots[input[p].boot] # None /\ boots[input[p].boot].revoked
    /\ pc[p] = "denied" => cause[p] \notin {"used", "revoked"}

(* The agent that spent a single-use token is on it. *)
TokenInv ==
    /\ \A a \in Agent : via[a] \in SingleUse =>
            boots[via[a]] # None /\ boots[via[a]].used = a
    /\ \A p \in Handler : Blame(p)

(* Secrets are drawn once, and one that was replaced is nobody's. *)
SecretInv ==
    /\ \A a \in Agent : agents[a] # None => agents[a].secret <= issued
    /\ \A a, b \in Agent : agents[a] # None /\ agents[b] # None /\ a # b =>
            agents[a].secret # agents[b].secret
    /\ \A x \in lineage : x[1] <= issued
    /\ \A x \in lineage, a \in Agent : agents[a] # None => x[1] # agents[a].secret
    /\ OneHeir

(* What was in order is remembered for as long as the request lasts. *)
PastTheTest(p) ==
    \/ pc[p] = "acl" /\ Allows(view[p], input[p].tool)
    \/ pc[p] \in {"admitted", "mark"}
    \/ pc[p] = "answer" /\ input[p].op = "register"

GrantInv == \A p \in Handler : Entitled(p) \/ PastTheTest(p) => granted[p]

(* As long as nothing fails, an active agent is being registered or was    *)
(* enrolled, and then somebody knows its secret.                           *)
FaultFreeInv ==
    /\ faults = 0 => \A a \in Agent : Active(agents[a]) /\ via[a] = None =>
            \E p \in Handler : acct[p] = a /\ pc[p] \in Registering
    /\ NobodyLockedOut

(* Every value has its type, rotations form chains, nobody is locked out,  *)
(* a spent token is spent by one agent, and what these rest on.            *)
AgentInv ==
    TypeOK /\ LocalInv /\ RowInv /\ TokenInv /\ SecretInv /\ GrantInv /\ FaultFreeInv

============================================================================
