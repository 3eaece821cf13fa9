--------------------------- MODULE AgentRegistry ---------------------------
(***************************************************************************)
(* The agents and bootstrap_tokens tables and the handlers that work on    *)
(* them: registration with a bootstrap token, creation by an operator,     *)
(* rotation, deregistration, bearer authentication followed by the tool    *)
(* ACL, and the operator's mint, modify and revoke statements.             *)
(*                                                                         *)
(* Handlers take no lock: each SQL statement is one step, and a handler    *)
(* uses later what it read before.                                         *)
(***************************************************************************)
EXTENDS Naturals, FiniteSets

CONSTANTS
    Agent,          \* public ids the generator may draw
    Name,           \* agent names
    Boot,           \* bootstrap tokens
    SingleUse,      \* the ones minted with single_use
    Handler,        \* requests that may run at the same time
    Tool,           \* tools an agent may call
    AgentExpiry,    \* values of an agent's expires_at, None included
    BootExpiry,     \* values of a token's expires_at, None included
    MaxSecret,      \* bound: agent secrets drawn
    MaxTime,        \* bound: the clock stops here
    MaxFault,       \* bound: crashes, cancelled requests, failed statements
    Operator,       \* stands for "created by an operator"
    None            \* absent value (SQL NULL, Option::None)

Secret == 1..MaxSecret
Policy == [allow : (SUBSET Tool) \cup {None}, deny : SUBSET Tool]
AgentRow == [name : Name, secret : Secret, policy : Policy, exp : AgentExpiry,
             revoked : BOOLEAN]
BootRow == [allow : (SUBSET Tool) \cup {None}, used : Agent \cup {None},
            exp : BootExpiry, revoked : BOOLEAN]

(* What a request carries: the operation, the bootstrap token and whether  *)
(* its secret is right, the name asked for; or the agent, the agent secret *)
(* presented and the tool to call.                                         *)
Op == {"register", "create", "rotate", "deregister", "call"}
Request == [op : Op, boot : Boot \cup {None}, good : BOOLEAN,
            name : Name \cup {None}, agent : Agent \cup {None},
            key : Secret \cup {None}, tool : Tool \cup {None}]
Pc == {"idle", "preview", "insert", "check", "select", "mark", "rollback",
       "refused", "denied", "alerted", "answer", "auth", "acl", "admitted",
       "reread", "cas", "leave"}

Cause == {"unknown", "used", "revoked", "expired", "secret"}

ASSUME ConstantsAssumption ==
    /\ SingleUse \subseteq Boot
    /\ AgentExpiry \cup BootExpiry \subseteq Nat \cup {None} /\ None \in AgentExpiry
    /\ MaxSecret \in Nat /\ MaxTime \in Nat /\ MaxFault \in Nat
    /\ Operator \notin Boot \cup {None}
    /\ None \notin Nat \cup Agent \cup Name \cup Boot \cup Tool \cup Handler

ASSUME NoneAssumption ==
    /\ None \notin AgentRow /\ None \notin BootRow /\ None \notin Request
    /\ None \notin Cause /\ None \notin [secret : Secret, expelled : BOOLEAN]

VARIABLES
    agents,     \* the agents table, by public id, or None
    boots,      \* the bootstrap_tokens table, or None
    pc,         \* the next step of each handler
    input,      \* the request of each handler
    acct,       \* the agent each handler created or authenticated
    hash,       \* the agent secret each handler read or drew
    view,       \* the policy each handler authenticated with
    cause,      \* why the token is refused, None for errors of other kinds
    via,        \* history: what each agent was enrolled with
    held,       \* history: the agent secrets handed to clients
    lineage,    \* history: which secret authorised which replacement
    granted,    \* history: was the request in order at some time so far?
    issued,     \* how many agent secrets were drawn
    now,        \* unix_now()
    faults

handlerVars == <<pc, input, acct, hash, view, cause>>
histVars == <<via, held, lineage>>
vars == <<agents, boots, handlerVars, histVars, granted, issued, now, faults>>

TypeOK ==
    /\ agents \in [Agent -> AgentRow \cup {None}]
    /\ boots \in [Boot -> BootRow \cup {None}]
    /\ pc \in [Handler -> Pc]
    /\ input \in [Handler -> Request \cup {None}]
    /\ acct \in [Handler -> Agent \cup {None}]
    /\ hash \in [Handler -> Secret \cup {None}]
    /\ view \in [Handler -> Policy \cup {None}]
    /\ cause \in [Handler -> Cause \cup {None}]
    /\ via \in [Agent -> Boot \cup {Operator, None}]
    /\ held \subseteq Agent \X Secret
    /\ lineage \subseteq Secret \X Secret
    /\ granted \in [Handler -> BOOLEAN]
    /\ issued \in 0..MaxSecret /\ now \in 0..MaxTime /\ faults \in 0..MaxFault

Init ==
    /\ agents = [a \in Agent |-> None]
    /\ boots = [b \in Boot |-> None]
    /\ pc = [p \in Handler |-> "idle"]
    /\ input = [p \in Handler |-> None]
    /\ acct = [p \in Handler |-> None]
    /\ hash = [p \in Handler |-> None]
    /\ view = [p \in Handler |-> None]
    /\ cause = [p \in Handler |-> None]
    /\ via = [a \in Agent |-> None]
    /\ held = {} /\ lineage = {}
    /\ granted = [p \in Handler |-> FALSE]
    /\ issued = 0 /\ now = 0 /\ faults = 0

----------------------------------------------------------------------------
(* Helpers. *)

Expired(r) == r.exp # None /\ r.exp < now
Active(r) == r # None /\ ~r.revoked

(* allows_tool: deny wins; no allowlist allows everything. *)
Allows(policy, tool) ==
    tool \notin policy.deny /\ (policy.allow # None => tool \in policy.allow)

(* Why a bootstrap token is refused, None when it is not.  The order of    *)
(* the tests is diagnose's.                                                *)
Refusal(b) ==
    IF boots[b] = None THEN "unknown"
    ELSE IF boots[b].revoked THEN "revoked"
    ELSE IF boots[b].used # None /\ b \in SingleUse THEN "used"
    ELSE IF Expired(boots[b]) THEN "expired"
    ELSE None

Goto(p, label) == pc' = [pc EXCEPT ![p] = label]

(* The handler answers and its locals are dropped. *)
Drop(p) ==
    /\ pc' = [pc EXCEPT ![p] = "idle"]
    /\ input' = [input EXCEPT ![p] = None]
    /\ acct' = [acct EXCEPT ![p] = None]
    /\ hash' = [hash EXCEPT ![p] = None]
    /\ view' = [view EXCEPT ![p] = None]
    /\ cause' = [cause EXCEPT ![p] = None]

Refuse(p, why) ==
    /\ Goto(p, "refused")
    /\ cause' = [cause EXCEPT ![p] = why]

Fault == faults < MaxFault /\ faults' = faults + 1

(* UPDATE agents SET revoked_at: rows are never deleted. *)
RevokeRow(a) == agents' = [agents EXCEPT ![a].revoked = TRUE]

----------------------------------------------------------------------------
(* Requests arrive. *)

Arrive(p, request, label) ==
    /\ pc[p] = "idle"
    /\ Goto(p, label)
    /\ input' = [input EXCEPT ![p] = request]
    /\ UNCHANGED <<agents, boots, acct, hash, view, cause, histVars, issued, now,
                   faults>>

(* A client holds the token text, with the right or a wrong secret. *)
StartRegister(p) ==
    \E b \in Boot, n \in Name, good \in BOOLEAN :
        Arrive(p, [op |-> "register", boot |-> b, good |-> good, name |-> n,
                   agent |-> None, key |-> None, tool |-> None], "preview")

StartCreate(p) ==
    \E n \in Name :
        Arrive(p, [op |-> "create", boot |-> None, good |-> TRUE, name |-> n,
                   agent |-> None, key |-> None, tool |-> None], "insert")

(* Any secret a client was ever handed, replaced or not. *)
StartAgentRequest(p) ==
    \E h \in held, op \in {"rotate", "deregister", "call"}, tool \in Tool :
        Arrive(p, [op |-> op, boot |-> None, good |-> TRUE, name |-> None,
                   agent |-> h[1], key |-> h[2], tool |-> tool], "auth")

----------------------------------------------------------------------------
(* register_agent and create_agent_as_operator. *)

Preview(p) ==
    /\ pc[p] = "preview"
    /\ LET why == Refusal(input[p].boot) IN
        \/ /\ why = None
           /\ view' = [view EXCEPT ![p] =
                        [allow |-> boots[input[p].boot].allow, deny |-> {}]]
           /\ Goto(p, "insert")
           /\ UNCHANGED cause
        \/ /\ why # None
           /\ Refuse(p, why)
           /\ UNCHANGED view
    /\ UNCHANGED <<agents, boots, input, acct, hash, histVars, issued, now, faults>>

(* INSERT INTO agents: UNIQUE(name) holds of revoked rows too. *)
Insert(p) ==
    /\ pc[p] = "insert"
    /\ \/ /\ \E a \in Agent : agents[a] # None /\ agents[a].name = input[p].name
          /\ Drop(p)
          /\ UNCHANGED <<agents, via, issued>>
       \/ /\ ~\E a \in Agent : agents[a] # None /\ agents[a].name = input[p].name
          /\ issued < MaxSecret
          /\ issued' = issued + 1
          /\ \E a \in {x \in Agent : agents[x] = None}, policy \in Policy,
                exp \in AgentExpiry :
              /\ input[p].op = "register" => exp = None /\ policy = view[p]
              /\ agents' = [agents EXCEPT ![a] =
                    [name |-> input[p].name, secret |-> issued + 1,
                     policy |-> policy, exp |-> exp, revoked |-> FALSE]]
              /\ acct' = [acct EXCEPT ![p] = a]
              /\ via' = IF input[p].op = "create"
                        THEN [via EXCEPT ![a] = Operator] ELSE via
          /\ hash' = [hash EXCEPT ![p] = issued + 1]
          /\ Goto(p, IF input[p].op = "create" THEN "answer" ELSE "check")
          /\ UNCHANGED <<input, view, cause>>
    /\ UNCHANGED <<boots, held, lineage, now, faults>>

(* get_active_by_public_id: AgentNotFound if it was revoked meanwhile. *)
Check(p) ==
    /\ pc[p] = "check"
    /\ \/ /\ Active(agents[acct[p]])
          /\ Goto(p, "select")
          /\ UNCHANGED <<input, acct, hash, view, cause>>
       \/ ~Active(agents[acct[p]]) /\ Drop(p)
    /\ UNCHANGED <<agents, boots, histVars, issued, now, faults>>

(* Faulty variant: consume relies on the preview for revoked_at. *)
Select_TrustsPreview(p) ==
    /\ pc[p] = "select"
    /\ LET why == Refusal(input[p].boot) IN
        \/ why \in {"revoked", None} /\ input[p].good /\ Goto(p, "mark") /\ UNCHANGED cause
        \/ /\ why \notin {"revoked", None} \/ ~input[p].good
           /\ Goto(p, "rollback")
           /\ cause' = [cause EXCEPT ![p] = IF why # None THEN why ELSE "secret"]
    /\ UNCHANGED <<agents, boots, input, acct, hash, view, histVars, issued, now,
                   faults>>

(* consume, its SELECT and the checks on it. *)
Select(p) ==
    /\ pc[p] = "select"
    /\ LET why == Refusal(input[p].boot) IN
        \/ why = None /\ input[p].good /\ Goto(p, "mark") /\ UNCHANGED cause
        \/ /\ why # None \/ ~input[p].good
           /\ Goto(p, "rollback")
           /\ cause' = [cause EXCEPT ![p] = IF why # None THEN why ELSE "secret"]
    /\ UNCHANGED <<agents, boots, input, acct, hash, view, histVars, issued, now,
                   faults>>

(* Faulty variant: the UPDATE is not conditional. *)
Mark_Unconditional(p) ==
    /\ pc[p] = "mark"
    /\ boots' = [boots EXCEPT ![input[p].boot].used = acct[p]]
    /\ via' = [via EXCEPT ![acct[p]] = input[p].boot]
    /\ Goto(p, "answer")
    /\ UNCHANGED <<agents, input, acct, hash, view, cause, held, lineage, issued,
                   now, faults>>

(* consume, its UPDATE: for a single-use token it is conditional on        *)
(* used_at IS NULL, and zero rows affected is a refusal.                   *)
Mark(p) ==
    /\ pc[p] = "mark"
    /\ LET b == input[p].boot IN
        \/ /\ b \in SingleUse => boots[b].used = None
           /\ boots' = [boots EXCEPT ![b].used = acct[p]]
           /\ via' = [via EXCEPT ![acct[p]] = b]
           /\ Goto(p, "answer")
           /\ UNCHANGED cause
        \/ /\ b \in SingleUse /\ boots[b].used # None
           /\ Goto(p, "rollback")
           /\ cause' = [cause EXCEPT ![p] = "used"]
           /\ UNCHANGED <<boots, via>>
    /\ UNCHANGED <<agents, input, acct, hash, view, held, lineage, issued, now,
                   faults>>

(* Faulty variant: the refused registration leaves its row active. *)
Rollback_Skipped(p) ==
    /\ pc[p] = "rollback"
    /\ Goto(p, "refused")
    /\ UNCHANGED <<agents, boots, input, acct, hash, view, cause, histVars, issued,
                   now, faults>>

(* The row of a refused registration is revoked. *)
Rollback(p) ==
    /\ pc[p] = "rollback"
    /\ RevokeRow(acct[p])
    /\ Goto(p, "refused")
    /\ UNCHANGED <<boots, input, acct, hash, view, cause, histVars, issued, now,
                   faults>>

(* Faulty variant: any refusal of a token that has lapsed is unremarkable. *)
Diagnose_ExpiryFirst(p) ==
    /\ pc[p] = "refused"
    /\ LET b == input[p].boot IN
        Goto(p, IF /\ cause[p] # None /\ boots[b] # None /\ ~Expired(boots[b])
                   /\ Refusal(b) \in {"used", "revoked"}
                THEN "alerted" ELSE "denied")
    /\ UNCHANGED <<agents, boots, input, acct, hash, view, cause, histVars, issued,
                   now, faults>>

(* The failure is audited, as a security event when it is a refusal and    *)
(* diagnose finds the token used or revoked.                               *)
Diagnose(p) ==
    /\ pc[p] = "refused"
    /\ Goto(p, IF cause[p] # None /\ Refusal(input[p].boot) \in {"used", "revoked"}
               THEN "alerted" ELSE "denied")
    /\ UNCHANGED <<agents, boots, input, acct, hash, view, cause, histVars, issued,
                   now, faults>>

(* The cleartext secret reaches the client, the only time it is shown. *)
Answer(p) ==
    /\ pc[p] = "answer"
    /\ held' = held \cup {<<acct[p], hash[p]>>}
    /\ Drop(p)
    /\ UNCHANGED <<agents, boots, via, lineage, issued, now, faults>>

Return(p) ==
    /\ pc[p] \in {"denied", "alerted", "admitted"}
    /\ Drop(p)
    /\ UNCHANGED <<agents, boots, histVars, issued, now, faults>>

----------------------------------------------------------------------------
(* Requests of enrolled agents. *)

(* Faulty variant: the identity comes from whatever row the id finds. *)
Authenticate_IgnoresRevoked(p) ==
    /\ pc[p] = "auth"
    /\ LET r == agents[input[p].agent] IN
        \/ /\ r # None /\ ~Expired(r) /\ r.secret = input[p].key
           /\ acct' = [acct EXCEPT ![p] = input[p].agent]
           /\ view' = [view EXCEPT ![p] = r.policy]
           /\ Goto(p, CASE input[p].op = "rotate" -> "reread"
                        [] input[p].op = "deregister" -> "leave"
                        [] OTHER -> "acl")
           /\ UNCHANGED <<input, hash, cause>>
        \/ /\ r = None \/ Expired(r) \/ r.secret # input[p].key
           /\ Drop(p)
    /\ UNCHANGED <<agents, boots, histVars, issued, now, faults>>

(* Bearer authentication: the row is read once, the identity carries its   *)
(* policy to wherever it is needed.  Anything wrong is a 401.              *)
Authenticate(p) ==
    /\ pc[p] = "auth"
    /\ LET r == agents[input[p].agent] IN
        \/ /\ Active(r) /\ ~Expired(r) /\ r.secret = input[p].key
           /\ acct' = [acct EXCEPT ![p] = input[p].agent]
           /\ view' = [view EXCEPT ![p] = r.policy]
           /\ Goto(p, CASE input[p].op = "rotate" -> "reread"
                        [] input[p].op = "deregister" -> "leave"
                        [] OTHER -> "acl")
           /\ UNCHANGED <<input, hash, cause>>
        \/ /\ ~(Active(r) /\ ~Expired(r) /\ r.secret = input[p].key)
           /\ Drop(p)
    /\ UNCHANGED <<agents, boots, histVars, issued, now, faults>>

(* The tool ACL, on the policy the request was authenticated with. *)
CheckAcl(p) ==
    /\ pc[p] = "acl"
    /\ \/ /\ Allows(view[p], input[p].tool)
          /\ Goto(p, "admitted")
          /\ UNCHANGED <<input, acct, hash, view, cause>>
       \/ ~Allows(view[p], input[p].tool) /\ Drop(p)
    /\ UNCHANGED <<agents, boots, histVars, issued, now, faults>>

Deregister(p) ==
    /\ pc[p] = "leave"
    /\ RevokeRow(acct[p])
    /\ Drop(p)
    /\ UNCHANGED <<boots, histVars, issued, now, faults>>

(* rotate, its SELECT: the secret sent is checked against the hash again. *)
RotateRead(p) ==
    /\ pc[p] = "reread"
    /\ LET r == agents[acct[p]] IN
        \/ /\ Active(r) /\ r.secret = input[p].key
           /\ hash' = [hash EXCEPT ![p] = r.secret]
           /\ Goto(p, "cas")
           /\ UNCHANGED <<input, acct, view, cause>>
        \/ ~(Active(r) /\ r.secret = input[p].key) /\ Drop(p)
    /\ UNCHANGED <<agents, boots, histVars, issued, now, faults>>

(* Faulty variant: the UPDATE does not compare the hash. *)
RotateCas_Blind(p) ==
    /\ pc[p] = "cas"
    /\ \/ /\ Active(agents[acct[p]])
          /\ issued < MaxSecret
          /\ issued' = issued + 1
          /\ agents' = [agents EXCEPT ![acct[p]].secret = issued + 1]
          /\ lineage' = lineage \cup {<<hash[p], issued + 1>>}
          /\ hash' = [hash EXCEPT ![p] = issued + 1]
          /\ Goto(p, "answer")
          /\ UNCHANGED <<input, acct, view, cause>>
       \/ /\ ~Active(agents[acct[p]])
          /\ Drop(p)
          /\ UNCHANGED <<agents, lineage, issued>>
    /\ UNCHANGED <<boots, via, held, now, faults>>

(* Faulty variant: the UPDATE does not look at revoked_at. *)
RotateCas_Revoked(p) ==
    /\ pc[p] = "cas"
    /\ \/ /\ agents[acct[p]].secret = hash[p]
          /\ issued < MaxSecret
          /\ issued' = issued + 1
          /\ agents' = [agents EXCEPT ![acct[p]].secret = issued + 1]
          /\ lineage' = lineage \cup {<<hash[p], issued + 1>>}
          /\ hash' = [hash EXCEPT ![p] = issued + 1]
          /\ Goto(p, "answer")
          /\ UNCHANGED <<input, acct, view, cause>>
       \/ /\ agents[acct[p]].secret # hash[p]
          /\ Drop(p)
          /\ UNCHANGED <<agents, lineage, issued>>
    /\ UNCHANGED <<boots, via, held, now, faults>>

(* Faulty variant: the handler keeps the secret it came with. *)
RotateCas_AnswersOld(p) ==
    /\ pc[p] = "cas"
    /\ LET r == agents[acct[p]] IN
        \/ /\ Active(r) /\ r.secret = hash[p]
           /\ issued < MaxSecret
           /\ issued' = issued + 1
           /\ agents' = [agents EXCEPT ![acct[p]].secret = issued + 1]
           /\ lineage' = lineage \cup {<<hash[p], issued + 1>>}
           /\ Goto(p, "answer")
           /\ UNCHANGED <<input, acct, hash, view, cause>>
        \/ /\ ~(Active(r) /\ r.secret = hash[p])
           /\ Drop(p)
           /\ UNCHANGED <<agents, lineage, issued>>
    /\ UNCHANGED <<boots, via, held, now, faults>>

(* rotate, its UPDATE: a compare-and-swap on the hash and revoked_at. *)
RotateCas(p) ==
    /\ pc[p] = "cas"
    /\ LET r == agents[acct[p]] IN
        \/ /\ Active(r) /\ r.secret = hash[p]
           /\ issued < MaxSecret
           /\ issued' = issued + 1
           /\ agents' = [agents EXCEPT ![acct[p]].secret = issued + 1]
           /\ lineage' = lineage \cup {<<hash[p], issued + 1>>}
           /\ hash' = [hash EXCEPT ![p] = issued + 1]
           /\ Goto(p, "answer")
           /\ UNCHANGED <<input, acct, view, cause>>
        \/ /\ ~(Active(r) /\ r.secret = hash[p])
           /\ Drop(p)
           /\ UNCHANGED <<agents, lineage, issued>>
    /\ UNCHANGED <<boots, via, held, now, faults>>

----------------------------------------------------------------------------
(* The operator's single statements, faults, time. *)

Mint(b) ==
    /\ boots[b] = None
    /\ \E exp \in BootExpiry, allow \in (SUBSET Tool) \cup {None} :
        boots' = [boots EXCEPT ![b] = [allow |-> allow, used |-> None, exp |-> exp,
                                       revoked |-> FALSE]]
    /\ UNCHANGED <<agents, handlerVars, histVars, issued, now, faults>>

RevokeBoot(b) ==
    /\ boots[b] # None /\ ~boots[b].revoked
    /\ boots' = [boots EXCEPT ![b].revoked = TRUE]
    /\ UNCHANGED <<agents, handlerVars, histVars, issued, now, faults>>

RevokeAgent(a) ==
    /\ Active(agents[a])
    /\ RevokeRow(a)
    /\ UNCHANGED <<boots, handlerVars, histVars, issued, now, faults>>

(* PATCH /agents/{id}: a field that is absent or null is left as it is, so *)
(* that an allowlist or an expiry can be replaced and not cleared.         *)
(* update_policy looks at the public id only: revoked rows change too.     *)
ModifyAgent(a) ==
    /\ agents[a] # None
    /\ \E allow \in {agents[a].policy.allow} \cup SUBSET Tool, deny \in SUBSET Tool,
          exp \in {agents[a].exp} \cup (AgentExpiry \ {None}) :
        LET row == [agents[a] EXCEPT !.policy = [allow |-> allow, deny |-> deny],
                                     !.exp = exp]
        IN  row # agents[a] /\ agents' = [agents EXCEPT ![a] = row]
    /\ UNCHANGED <<boots, handlerVars, histVars, issued, now, faults>>

(* A statement fails.  After the row is inserted only the errors of        *)
(* consume are rolled back; an error of the rollback itself is ignored.    *)
StatementFails(p) ==
    /\ Fault
    /\ \/ pc[p] \in {"preview", "insert", "check", "auth", "reread", "cas", "leave"}
          /\ Drop(p)
       \/ /\ pc[p] \in {"select", "mark"}
          /\ Goto(p, "rollback")
          /\ UNCHANGED <<input, acct, hash, view, cause>>
       \/ /\ pc[p] \in {"rollback", "refused"}
          /\ Goto(p, IF pc[p] = "rollback" THEN "refused" ELSE "denied")
          /\ UNCHANGED <<input, acct, hash, view>>
          /\ cause' = [cause EXCEPT ![p] = IF pc[p] = "rollback" THEN @ ELSE None]
    /\ UNCHANGED <<agents, boots, histVars, issued, now>>

(* The client goes away and the handler's future is dropped. *)
Cancel(p) ==
    /\ pc[p] # "idle"
    /\ Fault
    /\ Drop(p)
    /\ UNCHANGED <<agents, boots, histVars, issued, now>>

Crash ==
    /\ Fault
    /\ pc' = [p \in Handler |-> "idle"]
    /\ input' = [p \in Handler |-> None]
    /\ acct' = [p \in Handler |-> None]
    /\ hash' = [p \in Handler |-> None]
    /\ view' = [p \in Handler |-> None]
    /\ cause' = [p \in Handler |-> None]
    /\ UNCHANGED <<agents, boots, histVars, issued, now>>

Clock ==
    /\ now < MaxTime
    /\ now' = now + 1
    /\ UNCHANGED <<agents, boots, handlerVars, histVars, issued, faults>>

----------------------------------------------------------------------------
RegisterStep(p) ==
    \/ Preview(p) \/ Insert(p) \/ Check(p) \/ Select(p) \/ Mark(p)
    \/ Rollback(p) \/ Diagnose(p) \/ Answer(p) \/ Return(p)

AgentStep(p) ==
    \/ Authenticate(p) \/ CheckAcl(p) \/ Deregister(p)
    \/ RotateRead(p) \/ RotateCas(p)

Environment ==
    \/ \E b \in Boot : Mint(b) \/ RevokeBoot(b)
    \/ \E a \in Agent : RevokeAgent(a) \/ ModifyAgent(a)
    \/ \E p \in Handler : StatementFails(p) \/ Cancel(p)
    \/ Crash \/ Clock

Step ==
    \/ \E p \in Handler :
        \/ StartRegister(p) \/ StartCreate(p) \/ StartAgentRequest(p)
        \/ RegisterStep(p) \/ AgentStep(p)
    \/ Environment

(* At this moment the call would be in order, or the token would enrol the *)
(* agent whose row was inserted.                                           *)
CallInOrder(p) ==
    /\ input[p] # None /\ input[p].op = "call"
    /\ LET r == agents[input[p].agent] IN
        /\ Active(r) /\ ~Expired(r) /\ r.secret = input[p].key
        /\ Allows(r.policy, input[p].tool)

TokenInOrder(p) ==
    /\ input[p] # None /\ input[p].op = "register" /\ acct[p] # None
    /\ input[p].good /\ Refusal(input[p].boot) = None

Entitled(p) == CallInOrder(p) \/ TokenInOrder(p)

Observe == granted' = [p \in Handler |->
    input'[p] # None /\ ((input[p] # None /\ granted[p]) \/ Entitled(p)')]

Next == Step /\ Observe

Spec == Init /\ [][Next]_vars

----------------------------------------------------------------------------
(* Properties. *)

(* A single-use bootstrap token enrols at most one agent, however many     *)
(* registrations race with it (consume's conditional UPDATE).              *)
SingleUseEnrolsOnce ==
    \A a, b \in Agent : via[a] = via[b] /\ via[a] \in SingleUse => a = b

(* A secret reaches a client only if the agent's enrolment went through.   *)
HeldIsEnrolled == \A h \in held : via[h[1]] # None

(* When no registration is under way, every active agent was enrolled,     *)
(* unless a fault cut a registration short.                                *)
NoOrphan ==
    faults = 0 /\ (\A p \in Handler : pc[p] \in {"idle", "auth", "acl", "admitted",
                                                "reread", "cas", "leave"}) =>
        \A a \in Agent : Active(agents[a]) => via[a] # None

(* A registration is all or nothing ("consumed atomically with the agent   *)
(* insert", service.rs): one that was refused hands out no secret and      *)
(* leaves no usable row.                                                   *)
EnrolmentIsWhole == HeldIsEnrolled /\ NoOrphan

(* A registration succeeds only if its token was acceptable at some moment *)
(* after the agent's row was inserted: what revoked, consumed or outlived  *)
(* the token before the INSERT always wins, although preview_scope had     *)
(* accepted it and only consume's SELECT looks at it again.                *)
EnrolledInGoodFaith ==
    \A p \in Handler :
        pc[p] = "answer" /\ input[p].op = "register" => granted[p]

(* A secret authorises at most one rotation ("first committer wins"), so   *)
(* the client that was handed the latest secret is not locked out by       *)
(* another that started from the same one.                                 *)
OneHeir == \A x, y \in lineage : x[1] = y[1] => x = y

(* As long as no answer is lost, somebody holds the current secret of      *)
(* every enrolled, active agent, or is about to be told it: races of       *)
(* rotations lock nobody out.                                              *)
NobodyLockedOut ==
    faults = 0 => \A a \in Agent : via[a] # None /\ Active(agents[a]) =>
        \/ <<a, agents[a].secret>> \in held
        \/ \E p \in Handler : /\ pc[p] = "answer" /\ acct[p] = a
                              /\ hash[p] = agents[a].secret

(* A call is admitted only if, at some moment since it began, the agent    *)
(* was active and unexpired, the secret current, and the policy in force   *)
(* allowed the tool: the identity read at authentication does not outlive  *)
(* its request.                                                            *)
AdmittedWasEntitled == \A p \in Handler : pc[p] = "admitted" => granted[p]

(* A registration refused because its token was used or revoked is audited *)
(* as a security event, although the token is looked up again for it.      *)
ReuseIsReported ==
    \A p \in Handler : pc[p] = "denied" => cause[p] \notin {"used", "revoked"}

(* Seen by its clients the registry works one whole operation at a time.   *)
Member == [a \in Agent |->
    IF via[a] = None THEN None
    ELSE [secret |-> agents[a].secret, expelled |-> agents[a].revoked]]
Enrolment == INSTANCE AgentEnrolment WITH member <- Member
ImplementsEnrolment == Enrolment!Spec

============================================================================
