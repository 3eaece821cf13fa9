----------------------- MODULE AgentRegistry_proofs -----------------------
(***************************************************************************)
(* AgentInv is an invariant of AgentRegistry, whatever the numbers of      *)
(* agents, tokens, handlers, tools, secrets and faults; the safety         *)
(* properties follow from it, and every step is a step of AgentEnrolment   *)
(* or leaves its variables alone.                                          *)
(*                                                                         *)
(* First the effect of the scope exits and statements, the types and what  *)
(* a handler's label says of its locals; then what the agents table, the   *)
(* tokens and the secrets have to do with each other and with the          *)
(* handlers; then what each check saw and the theorems.                    *)
(***************************************************************************)
EXTENDS AgentInvariants, TLAPS

----------------------------------------------------------------------------
(* What arrivals, answers and statements do. *)

(* A handler that answers forgets its locals; nobody else's change. *)
LEMMA DropEffect ==
    ASSUME TypeOK, NEW p \in Handler, Drop(p)
    PROVE  /\ pc' \in [Handler -> Pc] /\ pc'[p] = "idle"
           /\ input' \in [Handler -> Request \cup {None}] /\ input'[p] = None
           /\ acct' \in [Handler -> Agent \cup {None}] /\ acct'[p] = None
           /\ hash' \in [Handler -> Secret \cup {None}] /\ hash'[p] = None
           /\ view' \in [Handler -> Policy \cup {None}] /\ view'[p] = None
           /\ cause' \in [Handler -> Cause \cup {None}] /\ cause'[p] = None
           /\ \A q \in Handler \ {p} :
                /\ pc'[q] = pc[q] /\ input'[q] = input[q] /\ acct'[q] = acct[q]
                /\ hash'[q] = hash[q] /\ view'[q] = view[q] /\ cause'[q] = cause[q]
BY Zenon DEF Drop, TypeOK, Pc

(* A step to another label changes the label of one handler. *)
LEMMA GotoEffect ==
    ASSUME TypeOK, NEW p \in Handler, NEW label \in Pc, Goto(p, label)
    PROVE  /\ pc' \in [Handler -> Pc] /\ pc'[p] = label
           /\ \A q \in Handler \ {p} : pc'[q] = pc[q]
BY Zenon DEF Goto, TypeOK

(* A request that arrives gives one idle handler its label and its input. *)
LEMMA ArriveEffect ==
    ASSUME TypeOK, NEW p \in Handler, NEW request \in Request, NEW label \in Pc,
           Arrive(p, request, label)
    PROVE  /\ pc' \in [Handler -> Pc] /\ pc'[p] = label /\ pc[p] = "idle"
           /\ input' \in [Handler -> Request \cup {None}] /\ input'[p] = request
           /\ \A q \in Handler \ {p} : pc'[q] = pc[q] /\ input'[q] = input[q]
           /\ UNCHANGED <<agents, boots, acct, hash, view, cause, via, held, lineage,
                          issued, now, faults>>
BY Zenon DEF Arrive, Goto, TypeOK, histVars

(* UPDATE agents SET revoked_at changes nothing but that. *)
LEMMA RevokeRowEffect ==
    ASSUME TypeOK, NEW a \in Agent, agents[a] # None, RevokeRow(a)
    PROVE  /\ agents' \in [Agent -> AgentRow \cup {None}]
           /\ agents'[a] \in AgentRow /\ agents'[a].revoked = TRUE
           /\ agents'[a].secret = agents[a].secret
           /\ agents'[a].policy = agents[a].policy /\ agents'[a].exp = agents[a].exp
           /\ agents'[a].name = agents[a].name
           /\ \A b \in Agent \ {a} : agents'[b] = agents[b]
<1>1. agents[a] \in AgentRow
    BY Zenon DEF TypeOK
<1> QED
    BY <1>1, Zenon DEF RevokeRow, TypeOK, AgentRow

(* UPDATE agents SET secret_hash changes nothing but that. *)
LEMMA ReplaceEffect ==
    ASSUME TypeOK, NEW a \in Agent, agents[a] # None, NEW k \in Secret,
           agents' = [agents EXCEPT ![a].secret = k]
    PROVE  /\ agents' \in [Agent -> AgentRow \cup {None}]
           /\ agents'[a] \in AgentRow /\ agents'[a].secret = k
           /\ agents'[a].revoked = agents[a].revoked
           /\ agents'[a].policy = agents[a].policy /\ agents'[a].exp = agents[a].exp
           /\ agents'[a].name = agents[a].name
           /\ \A b \in Agent \ {a} : agents'[b] = agents[b]
<1>1. agents[a] \in AgentRow
    BY Zenon DEF TypeOK
<1> QED
    BY <1>1, Zenon DEF TypeOK, AgentRow

(* update_policy changes the policy and the expiry. *)
LEMMA ModifyEffect ==
    ASSUME TypeOK, NEW a \in Agent, ModifyAgent(a)
    PROVE  /\ agents' \in [Agent -> AgentRow \cup {None}]
           /\ agents[a] \in AgentRow
           /\ agents'[a] \in AgentRow /\ agents'[a].secret = agents[a].secret
           /\ agents'[a].revoked = agents[a].revoked
           /\ agents'[a].name = agents[a].name
           /\ \A b \in Agent \ {a} : agents'[b] = agents[b]
<1>1. agents[a] \in AgentRow
    BY Zenon DEF TypeOK, ModifyAgent
<1>2. PICK allow \in {agents[a].policy.allow} \cup SUBSET Tool, deny \in SUBSET Tool,
           exp \in {agents[a].exp} \cup (AgentExpiry \ {None}) :
        agents' = [agents EXCEPT ![a] =
            [agents[a] EXCEPT !.policy = [allow |-> allow, deny |-> deny], !.exp = exp]]
    BY Zenon DEF ModifyAgent
<1>3. [allow |-> allow, deny |-> deny] \in Policy /\ exp \in AgentExpiry
    BY <1>1, Zenon DEF AgentRow, Policy
<1>4. agents'[a] = [agents[a] EXCEPT !.policy = [allow |-> allow, deny |-> deny], !.exp = exp]
    BY <1>2, Zenon DEF TypeOK
<1>5. /\ agents'[a] \in AgentRow /\ agents'[a].secret = agents[a].secret
      /\ agents'[a].revoked = agents[a].revoked /\ agents'[a].name = agents[a].name
    BY <1>1, <1>3, <1>4, Zenon DEF AgentRow
<1> QED
    BY <1>1, <1>2, <1>5, Zenon DEF TypeOK

(* The UPDATE of rotate when it affects a row. *)
RotateSwap(p) ==
    /\ pc[p] = "cas"
    /\ agents[acct[p]] # None /\ ~agents[acct[p]].revoked
    /\ agents[acct[p]].secret = hash[p]
    /\ issued < MaxSecret
    /\ issued' = issued + 1
    /\ agents' = [agents EXCEPT ![acct[p]].secret = issued + 1]
    /\ lineage' = lineage \cup {<<hash[p], issued + 1>>}
    /\ hash' = [hash EXCEPT ![p] = issued + 1]
    /\ Goto(p, "answer")
    /\ UNCHANGED <<input, acct, view, cause, boots, via, held, now, faults>>

(* A token is refused for a reason, and one that is not is in the table,   *)
(* not revoked, and not spent.                                             *)
LEMMA RefusalType ==
    ASSUME TypeOK, NEW b \in Boot
    PROVE  /\ Refusal(b) \in Cause \cup {None}
           /\ Refusal(b) = None => /\ boots[b] # None /\ ~boots[b].revoked
                                   /\ b \in SingleUse => boots[b].used = None
           /\ Refusal(b) = "used" => /\ boots[b] # None /\ b \in SingleUse
                                     /\ boots[b].used # None
           /\ Refusal(b) = "revoked" => boots[b] # None /\ boots[b].revoked
BY NoneAssumption, Zenon DEF Refusal, Cause

(* A request's parts are what they should be. *)
LEMMA RequestParts ==
    ASSUME NEW op \in Op, NEW boot \in Boot \cup {None}, NEW good \in BOOLEAN,
           NEW name \in Name \cup {None}, NEW agent \in Agent \cup {None},
           NEW key \in Secret \cup {None}, NEW tool \in Tool \cup {None}
    PROVE  [op |-> op, boot |-> boot, good |-> good, name |-> name,
            agent |-> agent, key |-> key, tool |-> tool] \in Request
BY Zenon DEF Request

----------------------------------------------------------------------------
(* Type correctness is preserved. *)

(* The history of what was in order is Boolean. *)
LEMMA GrantedType ==
    ASSUME TypeOK, Observe PROVE granted' \in [Handler -> BOOLEAN]
BY Zenon DEF Observe

(* The steps of a registration. *)
LEMMA RegisterTypes ==
    ASSUME AgentInv, NEW p \in Handler, RegisterStep(p), granted' \in [Handler -> BOOLEAN]
    PROVE  TypeOK'
<1> USE ConstantsAssumption
<1>0. TypeOK
    BY Zenon DEF AgentInv
<1>1. CASE Preview(p)
    <2>1. input[p].boot \in Boot
        BY <1>1, Zenon DEF AgentInv, LocalInv, Locals, Preview
    <2>2. CASE Refusal(input[p].boot) = None
        <3>0. boots[input[p].boot] # None
            BY <2>2, NoneAssumption, Zenon DEF Refusal, Cause
        <3>1. boots[input[p].boot] \in BootRow
            BY <1>0, <2>1, <3>0 DEF TypeOK
        <3>2. [allow |-> boots[input[p].boot].allow, deny |-> {}] \in Policy
            BY <3>1, Zenon DEF BootRow, Policy
        <3> QED
            <4>1. /\ view' = [view EXCEPT ![p] =
                                [allow |-> boots[input[p].boot].allow, deny |-> {}]]
                  /\ Goto(p, "insert")
                  /\ UNCHANGED <<cause, agents, boots, input, acct, hash, histVars,
                                 issued, now, faults>>
                BY <1>1, <2>2, Zenon DEF Preview
            <4> QED
                BY <1>0, <3>2, <4>1, Zenon DEF Goto, TypeOK, Pc, histVars
    <2>3. CASE Refusal(input[p].boot) # None
        BY <1>0, <1>1, <2>1, <2>3, RefusalType DEF Preview, Refuse, Goto, TypeOK, Pc, histVars
    <2> QED
        BY <2>2, <2>3, Zenon
<1>2. CASE Insert(p)
    <2>1. CASE Drop(p) /\ UNCHANGED <<agents, via, issued>>
        BY <1>0, <1>2, <2>1, DropEffect, Zenon DEF Insert, TypeOK
    <2>2. CASE /\ issued < MaxSecret
               /\ issued' = issued + 1
               /\ \E a \in {x \in Agent : agents[x] = None}, policy \in Policy,
                     exp \in AgentExpiry :
                   /\ agents' = [agents EXCEPT ![a] =
                         [name |-> input[p].name, secret |-> issued + 1,
                          policy |-> policy, exp |-> exp, revoked |-> FALSE]]
                   /\ acct' = [acct EXCEPT ![p] = a]
                   /\ via' = IF input[p].op = "create"
                             THEN [via EXCEPT ![a] = Operator] ELSE via
               /\ hash' = [hash EXCEPT ![p] = issued + 1]
               /\ Goto(p, IF input[p].op = "create" THEN "answer" ELSE "check")
               /\ UNCHANGED <<input, view, cause>>
        <3>1. issued + 1 \in Secret /\ issued' \in 0..MaxSecret
            BY <1>0, <2>2 DEF TypeOK, Secret
        <3>2. input[p].name \in Name
            BY <1>2, Zenon DEF AgentInv, LocalInv, Locals, Insert
        <3>3. PICK a \in Agent, policy \in Policy, exp \in AgentExpiry :
                   /\ agents' = [agents EXCEPT ![a] =
                         [name |-> input[p].name, secret |-> issued + 1,
                          policy |-> policy, exp |-> exp, revoked |-> FALSE]]
                   /\ acct' = [acct EXCEPT ![p] = a]
                   /\ via' = IF input[p].op = "create"
                             THEN [via EXCEPT ![a] = Operator] ELSE via
            BY <2>2, Zenon
        <3>4. [name |-> input[p].name, secret |-> issued + 1,
               policy |-> policy, exp |-> exp, revoked |-> FALSE] \in AgentRow
            BY <3>1, <3>2, Zenon DEF AgentRow
        <3>5. agents' \in [Agent -> AgentRow \cup {None}]
            BY <1>0, <3>3, <3>4, Zenon DEF TypeOK
        <3>6. /\ acct' \in [Handler -> Agent \cup {None}]
              /\ via' \in [Agent -> Boot \cup {Operator, None}]
              /\ hash' \in [Handler -> Secret \cup {None}]
              /\ pc' \in [Handler -> Pc]
            BY <1>0, <2>2, <3>1, <3>3, Zenon DEF TypeOK, Goto, Pc
        <3> QED
            BY <1>0, <1>2, <2>2, <3>1, <3>5, <3>6, Zenon DEF Insert, TypeOK
    <2> QED
        BY <1>2, <2>1, <2>2, Zenon DEF Insert
<1>3. CASE Check(p)
    <2>1. CASE Drop(p)
        BY <1>0, <1>3, <2>1, DropEffect, Zenon DEF Check, TypeOK, histVars
    <2>2. CASE Goto(p, "select") /\ UNCHANGED <<input, acct, hash, view, cause>>
        BY <1>0, <1>3, <2>2, Zenon DEF Check, TypeOK, Goto, Pc, histVars
    <2> QED
        BY <1>3, <2>1, <2>2, Zenon DEF Check
<1>4. CASE Select(p)
    <2>1. input[p].boot \in Boot
        BY <1>4, Zenon DEF AgentInv, LocalInv, Locals, Registering, Select
    <2> QED
        BY <1>0, <1>4, <2>1, RefusalType DEF Select, TypeOK, Goto, Pc, Cause, histVars
<1>5. CASE Mark(p)
    <2>1. input[p].boot \in Boot /\ acct[p] \in Agent /\ boots[input[p].boot] \in BootRow
        BY <1>0, <1>5 DEF AgentInv, LocalInv, Locals, TokenInv, Blame, Registering, Mark, TypeOK
    <2>2. CASE UNCHANGED <<boots, via>>
        BY <1>0, <1>5, <2>2, Zenon DEF Mark, TypeOK, Goto, Pc, Cause
    <2>3. CASE /\ boots' = [boots EXCEPT ![input[p].boot].used = acct[p]]
               /\ via' = [via EXCEPT ![acct[p]] = input[p].boot]
               /\ UNCHANGED cause
        <3>1. boots' \in [Boot -> BootRow \cup {None}]
            BY <1>0, <2>1, <2>3, Zenon DEF TypeOK, BootRow
        <3>2. via' \in [Agent -> Boot \cup {Operator, None}]
            BY <1>0, <2>1, <2>3, Zenon DEF TypeOK
        <3> QED
            BY <1>0, <1>5, <2>3, <3>1, <3>2 DEF Mark, TypeOK, Goto, Pc
    <2> QED
        BY <1>5, <2>2, <2>3, Zenon DEF Mark
<1>6. CASE Rollback(p)
    <2>1. acct[p] \in Agent /\ agents[acct[p]] # None
        BY <1>6, Zenon DEF AgentInv, LocalInv, Locals, RowInv, Registering, Rollback
    <2>2. agents' \in [Agent -> AgentRow \cup {None}]
        BY <1>0, <1>6, <2>1, RevokeRowEffect, Zenon DEF Rollback
    <2> QED
        BY <1>0, <1>6, <2>2, Zenon DEF Rollback, TypeOK, Goto, Pc, histVars
<1>7. CASE Diagnose(p)
    BY <1>0, <1>7, Zenon DEF Diagnose, TypeOK, Goto, Pc, histVars
<1>8. CASE Answer(p)
    <2>1. acct[p] \in Agent /\ hash[p] \in Secret
        BY <1>8, Zenon DEF AgentInv, LocalInv, Locals, Answer
    <2> QED
        BY <1>0, <1>8, <2>1, DropEffect DEF Answer, TypeOK
<1>9. CASE Return(p)
    BY <1>0, <1>9, DropEffect, Zenon DEF Return, TypeOK, histVars
<1> QED
    BY <1>1, <1>2, <1>3, <1>4, <1>5, <1>6, <1>7, <1>8, <1>9, Zenon DEF RegisterStep

(* The steps of an enrolled agent's request. *)
LEMMA AgentTypes ==
    ASSUME AgentInv, NEW p \in Handler, AgentStep(p), granted' \in [Handler -> BOOLEAN]
    PROVE  TypeOK'
<1> USE ConstantsAssumption
<1>0. TypeOK
    BY Zenon DEF AgentInv
<1>1. CASE Authenticate(p)
    <2>1. input[p].agent \in Agent
        BY <1>1, Zenon DEF AgentInv, LocalInv, Locals, Authenticate, Serving
    <2>2. CASE Drop(p)
        BY <1>0, <1>1, <2>2, DropEffect, Zenon DEF Authenticate, TypeOK, histVars
    <2>3. CASE Active(agents[input[p].agent]) /\ ~Drop(p)
        <3>1. agents[input[p].agent] \in AgentRow
            BY <1>0, <2>1, <2>3 DEF TypeOK, Active
        <3>2. agents[input[p].agent].policy \in Policy
            BY <3>1, Zenon DEF AgentRow
        <3> QED
            BY <1>0, <1>1, <2>1, <2>3, <3>2 DEF Authenticate, TypeOK, Goto, Pc, histVars
    <2> QED
        BY <1>1, <2>2, <2>3, Zenon DEF Authenticate
<1>2. CASE CheckAcl(p)
    <2>1. CASE Drop(p)
        BY <1>0, <1>2, <2>1, DropEffect, Zenon DEF CheckAcl, TypeOK, histVars
    <2>2. CASE Goto(p, "admitted") /\ UNCHANGED <<input, acct, hash, view, cause>>
        BY <1>0, <1>2, <2>2, Zenon DEF CheckAcl, TypeOK, Goto, Pc, histVars
    <2> QED
        BY <1>2, <2>1, <2>2, Zenon DEF CheckAcl
<1>3. CASE Deregister(p)
    <2>1. acct[p] \in Agent /\ agents[acct[p]] # None
        BY <1>3, Zenon DEF AgentInv, LocalInv, Locals, RowInv, Serving, Identified, Deregister
    <2>2. agents' \in [Agent -> AgentRow \cup {None}]
        BY <1>0, <1>3, <2>1, RevokeRowEffect, Zenon DEF Deregister
    <2> QED
        BY <1>0, <1>3, <2>2, DropEffect, Zenon DEF Deregister, TypeOK, histVars
<1>4. CASE RotateRead(p)
    <2>1. acct[p] \in Agent
        BY <1>4, Zenon DEF AgentInv, LocalInv, Locals, Serving, Identified, RotateRead
    <2>2. CASE Drop(p)
        BY <1>0, <1>4, <2>2, DropEffect, Zenon DEF RotateRead, TypeOK, histVars
    <2>3. CASE Active(agents[acct[p]]) /\ ~Drop(p)
        <3>1. agents[acct[p]] \in AgentRow
            BY <1>0, <2>1, <2>3 DEF TypeOK, Active
        <3>2. agents[acct[p]].secret \in Secret
            BY <3>1, Zenon DEF AgentRow
        <3> QED
            BY <1>0, <1>4, <2>1, <2>3, <3>2, Zenon DEF RotateRead, TypeOK, Goto, Pc, histVars
    <2> QED
        BY <1>4, <2>2, <2>3, Zenon DEF RotateRead
<1>5. CASE RotateCas(p)
    <2>2. CASE Drop(p) /\ UNCHANGED <<agents, lineage, issued>>
        BY <1>0, <1>5, <2>2, DropEffect, Zenon DEF RotateCas, TypeOK
    <2>3. CASE ~(Drop(p) /\ UNCHANGED <<agents, lineage, issued>>)
        <3>1. RotateSwap(p)
            BY <1>5, <2>3, Zenon DEF RotateCas, RotateSwap, Active
        <3>2. /\ acct[p] \in Agent /\ hash[p] \in Secret /\ issued + 1 \in Secret
              /\ issued + 1 \in 0..MaxSecret
            BY <1>0, <1>5, <3>1 DEF AgentInv, LocalInv, Locals, Serving, Identified, RotateCas,
                                   RotateSwap, TypeOK, Secret
        <3>3. agents' \in [Agent -> AgentRow \cup {None}]
            BY <1>0, <3>1, <3>2, ReplaceEffect, Zenon DEF RotateSwap
        <3> QED
            BY <1>0, <3>1, <3>2, <3>3 DEF RotateSwap, TypeOK, Goto, Pc
    <2> QED
        BY <2>2, <2>3, Zenon
<1> QED
    BY <1>1, <1>2, <1>3, <1>4, <1>5, Zenon DEF AgentStep

(* Requests that arrive. *)
Arrival(p) == StartRegister(p) \/ StartCreate(p) \/ StartAgentRequest(p)

LEMMA ArrivalTypes ==
    ASSUME AgentInv, NEW p \in Handler, Arrival(p), granted' \in [Handler -> BOOLEAN]
    PROVE  TypeOK'
<1>0. TypeOK
    BY Zenon DEF AgentInv
<1>1. PICK request \in Request, label \in {"preview", "insert", "auth"} :
            Arrive(p, request, label)
    <2>1. CASE StartRegister(p)
        BY <2>1, RequestParts, Zenon DEF StartRegister, Op
    <2>2. CASE StartCreate(p)
        BY <2>2, RequestParts, Zenon DEF StartCreate, Op
    <2>3. CASE StartAgentRequest(p)
        <3>1. \A h \in held : h[1] \in Agent /\ h[2] \in Secret
            BY <1>0, Zenon DEF TypeOK
        <3> QED
            BY <2>3, <3>1, RequestParts, Zenon DEF StartAgentRequest, Op
    <2> QED
        BY <2>1, <2>2, <2>3, Zenon DEF Arrival
<1>2. label \in Pc
    BY Zenon DEF Pc
<1> QED
    BY <1>0, <1>1, <1>2, ArriveEffect, Zenon DEF TypeOK

(* The operator's statements, faults, time. *)
LEMMA EnvironmentTypes ==
    ASSUME AgentInv, Environment, granted' \in [Handler -> BOOLEAN]
    PROVE  TypeOK'
<1> USE ConstantsAssumption
<1>0. TypeOK
    BY Zenon DEF AgentInv
<1>1. ASSUME NEW b \in Boot, Mint(b) PROVE TypeOK'
    <2>1. PICK exp \in BootExpiry, allow \in (SUBSET Tool) \cup {None} :
            boots' = [boots EXCEPT ![b] = [allow |-> allow, used |-> None, exp |-> exp,
                                           revoked |-> FALSE]]
        BY <1>1, Zenon DEF Mint
    <2>2. [allow |-> allow, used |-> None, exp |-> exp, revoked |-> FALSE] \in BootRow
        BY Zenon DEF BootRow
    <2>3. boots' \in [Boot -> BootRow \cup {None}]
        BY <1>0, <2>1, <2>2, Zenon DEF TypeOK
    <2> QED
        BY <1>0, <1>1, <2>3, Zenon DEF Mint, TypeOK, handlerVars, histVars
<1>2. ASSUME NEW b \in Boot, RevokeBoot(b) PROVE TypeOK'
    <2>1. boots[b] \in BootRow /\ boots' = [boots EXCEPT ![b].revoked = TRUE]
        BY <1>0, <1>2, Zenon DEF RevokeBoot, TypeOK
    <2>2. boots' \in [Boot -> BootRow \cup {None}]
        BY <1>0, <2>1, Zenon DEF TypeOK, BootRow
    <2> QED
        BY <1>0, <1>2, <2>2, Zenon DEF RevokeBoot, TypeOK, handlerVars, histVars
<1>3. ASSUME NEW a \in Agent, RevokeAgent(a) PROVE TypeOK'
    <2>1. agents' \in [Agent -> AgentRow \cup {None}]
        BY <1>0, <1>3, RevokeRowEffect, Zenon DEF RevokeAgent, Active
    <2> QED
        BY <1>0, <1>3, <2>1, Zenon DEF RevokeAgent, TypeOK, handlerVars, histVars
<1>4. ASSUME NEW a \in Agent, ModifyAgent(a) PROVE TypeOK'
    <2>1. agents' \in [Agent -> AgentRow \cup {None}]
        BY <1>0, <1>4, ModifyEffect, Zenon
    <2> QED
        BY <1>0, <1>4, <2>1, Zenon DEF ModifyAgent, TypeOK, handlerVars, histVars
<1>5. ASSUME NEW p \in Handler, StatementFails(p) PROVE TypeOK'
    <2>1. faults' \in 0..MaxFault
        BY <1>0, <1>5 DEF StatementFails, Fault, TypeOK
    <2>2. CASE Drop(p)
        BY <1>0, <1>5, <2>1, <2>2, DropEffect, Zenon DEF StatementFails, TypeOK, histVars
    <2>3. CASE ~Drop(p)
        BY <1>0, <1>5, <2>1, <2>3 DEF StatementFails, TypeOK, Goto, Pc, histVars
    <2> QED
        BY <2>2, <2>3, Zenon
<1>6. ASSUME NEW p \in Handler, Cancel(p) PROVE TypeOK'
    <2>1. faults' \in 0..MaxFault
        BY <1>0, <1>6 DEF Cancel, Fault, TypeOK
    <2> QED
        BY <1>0, <1>6, <2>1, DropEffect, Zenon DEF Cancel, TypeOK, histVars
<1>7. CASE Crash
    BY <1>0, <1>7 DEF Crash, Fault, TypeOK, Pc, histVars
<1>8. CASE Clock
    BY <1>0, <1>8 DEF Clock, TypeOK, handlerVars, histVars
<1> QED
    BY <1>1, <1>2, <1>3, <1>4, <1>5, <1>6, <1>7, <1>8, Zenon DEF Environment

(* Every step preserves the types. *)
LEMMA TypeStep ==
    ASSUME AgentInv, Next PROVE TypeOK'
<1>1. granted' \in [Handler -> BOOLEAN]
    BY GrantedType, Zenon DEF AgentInv, Next
<1>2. \/ \E p \in Handler : Arrival(p) \/ RegisterStep(p) \/ AgentStep(p)
      \/ Environment
    BY Zenon DEF Next, Step, Arrival
<1> QED
    BY <1>1, <1>2, ArrivalTypes, RegisterTypes, AgentTypes, EnvironmentTypes, Zenon

----------------------------------------------------------------------------
(* What a label says of its handler's locals is preserved. *)

Same(q) ==
    /\ pc'[q] = pc[q] /\ input'[q] = input[q] /\ acct'[q] = acct[q]
    /\ hash'[q] = hash[q] /\ view'[q] = view[q] /\ cause'[q] = cause[q]

HandlerStep(p) ==
    Arrival(p) \/ RegisterStep(p) \/ AgentStep(p) \/ StatementFails(p) \/ Cancel(p)

(* A handler changes nobody else's locals. *)
LEMMA OthersSame ==
    ASSUME TypeOK, NEW p \in Handler, HandlerStep(p), NEW q \in Handler \ {p}
    PROVE  Same(q)
<1>1. CASE Arrival(p)
    BY <1>1, Zenon DEF Arrival, StartRegister, StartCreate, StartAgentRequest, Arrive, Goto,
                TypeOK, Same
<1>2. CASE Preview(p) \/ Insert(p) \/ Check(p)
    BY <1>2, Zenon DEF Preview, Insert, Check, Drop, Refuse, Goto, TypeOK, Same
<1>3. CASE Select(p) \/ Mark(p) \/ Rollback(p)
    BY <1>3, Zenon DEF Select, Mark, Rollback, Goto, TypeOK, Same
<1>4. CASE Diagnose(p) \/ Answer(p) \/ Return(p)
    BY <1>4, Zenon DEF Diagnose, Answer, Return, Drop, Goto, TypeOK, Same
<1>5. CASE Authenticate(p)
    BY <1>5, Zenon DEF Authenticate, Drop, Goto, TypeOK, Same
<1>6. CASE CheckAcl(p) \/ Deregister(p) \/ RotateRead(p) \/ RotateCas(p)
    BY <1>6, Zenon DEF CheckAcl, Deregister, RotateRead, RotateCas, Drop, Goto, TypeOK, Same
<1>7. CASE StatementFails(p) \/ Cancel(p)
    BY <1>7, Zenon DEF StatementFails, Cancel, Drop, Goto, TypeOK, Same
<1> QED
    BY <1>1, <1>2, <1>3, <1>4, <1>5, <1>6, <1>7, Zenon DEF HandlerStep, RegisterStep, AgentStep

LEMMA SameLocals ==
    ASSUME NEW q \in Handler, Locals(q), Same(q) PROVE Locals(q)'
BY Zenon DEF Locals, Same

LEMMA IdleLocals ==
    ASSUME NEW q \in Handler, pc'[q] = "idle", input'[q] = None PROVE Locals(q)'
BY Zenon DEF Locals, Registering, Serving, Identified

(* The locals of the handler that moves. *)
LEMMA OwnLocals ==
    ASSUME AgentInv, NEW p \in Handler, HandlerStep(p), TypeOK' PROVE Locals(p)'
<1> USE ConstantsAssumption, NoneAssumption
<1>0. TypeOK /\ Locals(p)
    BY Zenon DEF AgentInv, LocalInv
<1>1. CASE Drop(p)
    BY <1>0, <1>1, DropEffect, IdleLocals, Zenon
<1>2. CASE Arrival(p)
    <2>1. CASE StartRegister(p)
        <3>1. PICK b \in Boot, n \in Name, good \in BOOLEAN :
                Arrive(p, [op |-> "register", boot |-> b, good |-> good, name |-> n,
                           agent |-> None, key |-> None, tool |-> None], "preview")
            BY <2>1, Zenon DEF StartRegister
        <3>2. [op |-> "register", boot |-> b, good |-> good, name |-> n,
               agent |-> None, key |-> None, tool |-> None] \in Request
            BY RequestParts, Zenon DEF Op
        <3>3. /\ pc'[p] = "preview" /\ input'[p] # None /\ input'[p].op = "register"
              /\ input'[p].name \in Name /\ input'[p].boot \in Boot
            BY <1>0, <3>1, <3>2, Zenon DEF Arrive, Goto, TypeOK
        <3> QED
            BY <3>3, Zenon DEF Locals, Registering, Serving, Identified
    <2>2. CASE StartCreate(p)
        <3>1. PICK n \in Name :
                Arrive(p, [op |-> "create", boot |-> None, good |-> TRUE, name |-> n,
                           agent |-> None, key |-> None, tool |-> None], "insert")
            BY <2>2, Zenon DEF StartCreate
        <3>2. [op |-> "create", boot |-> None, good |-> TRUE, name |-> n,
               agent |-> None, key |-> None, tool |-> None] \in Request
            BY RequestParts, Zenon DEF Op
        <3>3. /\ pc'[p] = "insert" /\ input'[p] # None /\ input'[p].op = "create"
              /\ input'[p].name \in Name
            BY <1>0, <3>1, <3>2, Zenon DEF Arrive, Goto, TypeOK
        <3> QED
            BY <3>3, Zenon DEF Locals, Registering, Serving, Identified
    <2>3. CASE StartAgentRequest(p)
        <3>1. PICK h \in held, op \in {"rotate", "deregister", "call"}, tool \in Tool :
                Arrive(p, [op |-> op, boot |-> None, good |-> TRUE, name |-> None,
                           agent |-> h[1], key |-> h[2], tool |-> tool], "auth")
            BY <2>3, Zenon DEF StartAgentRequest
        <3>2. h[1] \in Agent /\ h[2] \in Secret
            BY <1>0, Zenon DEF TypeOK
        <3>3. [op |-> op, boot |-> None, good |-> TRUE, name |-> None,
               agent |-> h[1], key |-> h[2], tool |-> tool] \in Request
            BY <3>2, RequestParts, Zenon DEF Op
        <3>4. /\ pc'[p] = "auth" /\ input'[p] # None
              /\ input'[p].op \in {"rotate", "deregister", "call"}
              /\ input'[p].agent \in Agent
            BY <1>0, <3>1, <3>2, <3>3, Zenon DEF Arrive, Goto, TypeOK
        <3> QED
            BY <3>4, Zenon DEF Locals, Registering, Serving, Identified
    <2> QED
        BY <1>2, <2>1, <2>2, <2>3, Zenon DEF Arrival
<1>3. CASE Preview(p)
    BY <1>0, <1>3 DEF Preview, Refuse, Goto, TypeOK, Locals, Registering, Serving,
                      Identified
<1>4. CASE Insert(p) /\ ~Drop(p)
    BY <1>0, <1>4 DEF Insert, Goto, TypeOK, Locals, Registering, Serving, Identified, Secret
<1>5. CASE Check(p) /\ ~Drop(p)
    BY <1>0, <1>5 DEF Check, Goto, TypeOK, Locals, Registering, Serving, Identified
<1>6. CASE Select(p) \/ Mark(p) \/ Rollback(p) \/ Diagnose(p)
    BY <1>0, <1>6 DEF Select, Mark, Rollback, Diagnose, Goto, TypeOK, Locals, Registering,
                      Serving, Identified
<1>7. CASE Authenticate(p) /\ ~Drop(p)
    <2>1. /\ pc[p] = "auth" /\ UNCHANGED <<input, hash, cause>>
          /\ acct'[p] = input[p].agent
          /\ Goto(p, CASE input[p].op = "rotate" -> "reread"
                       [] input[p].op = "deregister" -> "leave"
                       [] OTHER -> "acl")
          /\ view' = [view EXCEPT ![p] = agents[input[p].agent].policy]
          /\ agents[input[p].agent] # None
        BY <1>0, <1>7, Zenon DEF Authenticate, TypeOK, Active
    <2>2. input[p].op \in {"rotate", "deregister", "call"} /\ input[p].agent \in Agent
        BY <1>0, <2>1, Zenon DEF Locals, Serving
    <2>3. /\ pc'[p] \in {"reread", "leave", "acl"}
          /\ pc'[p] = "acl" => input[p].op = "call"
        BY <1>0, <2>1, <2>2, Zenon DEF Goto, TypeOK
    <2>4. agents[input[p].agent] \in AgentRow
        BY <1>0, <2>1, <2>2 DEF TypeOK
    <2>5. view'[p] \in Policy
        BY <1>0, <2>1, <2>4 DEF TypeOK, AgentRow
    <2> QED
        BY <1>0, <2>1, <2>2, <2>3, <2>5, Zenon DEF Locals, Registering, Serving, Identified
<1>8. CASE CheckAcl(p) /\ ~Drop(p)
    BY <1>0, <1>8 DEF CheckAcl, Goto, TypeOK, Locals, Registering, Serving, Identified
<1>9. CASE RotateRead(p) /\ ~Drop(p)
    <2>1. acct[p] \in Agent
        BY <1>0, <1>9, Zenon DEF Locals, Serving, Identified, RotateRead
    <2>2. /\ pc[p] = "reread" /\ pc'[p] = "cas" /\ UNCHANGED <<input, acct, view>>
          /\ hash'[p] = agents[acct[p]].secret /\ agents[acct[p]] # None
        BY <1>0, <1>9 DEF RotateRead, Goto, TypeOK, Active
    <2>3. agents[acct[p]] \in AgentRow
        BY <1>0, <2>1, <2>2 DEF TypeOK
    <2>4. hash'[p] \in Secret
        BY <2>2, <2>3, Zenon DEF AgentRow
    <2> QED
        BY <1>0, <2>2, <2>4, Zenon DEF Locals, Registering, Serving, Identified
<1>10. CASE RotateCas(p) /\ ~Drop(p)
    <2>1. RotateSwap(p)
        BY <1>10, Zenon DEF RotateCas, RotateSwap, Active
    <2>2. /\ acct[p] \in Agent
          /\ input[p].op \in {"rotate", "deregister", "call"} /\ input[p] # None
        BY <1>0, <2>1, Zenon DEF Locals, Serving, Identified, RotateSwap
    <2>3. pc'[p] = "answer" /\ hash'[p] = issued + 1 /\ issued + 1 \in Secret
        BY <1>0, <2>1, Zenon DEF RotateSwap, Goto, TypeOK, Secret
    <2> QED
        BY <1>0, <2>1, <2>2, <2>3, Zenon DEF RotateSwap, Locals, Registering, Serving, Identified
<1>11. CASE StatementFails(p) /\ ~Drop(p)
    BY <1>0, <1>11 DEF StatementFails, Goto, TypeOK, Locals, Registering, Serving, Identified
<1> QED
    BY <1>1, <1>2, <1>3, <1>4, <1>5, <1>6, <1>7, <1>8, <1>9, <1>10, <1>11, Zenon
    DEF HandlerStep, RegisterStep, AgentStep, Answer, Return, Deregister, Cancel

(* Every step preserves them. *)
LEMMA LocalStep ==
    ASSUME AgentInv, Next, TypeOK' PROVE LocalInv'
<1>0. TypeOK /\ LocalInv
    BY Zenon DEF AgentInv
<1>1. CASE \E p \in Handler : HandlerStep(p)
    <2>1. PICK p \in Handler : HandlerStep(p)
        BY <1>1, Zenon
    <2>2. \A q \in Handler \ {p} : Locals(q)'
        BY <1>0, <2>1, OthersSame, SameLocals, Zenon DEF LocalInv
    <2> QED
        BY <2>1, <2>2, OwnLocals, Zenon DEF LocalInv
<1>2. CASE UNCHANGED handlerVars
    BY <1>0, <1>2, Zenon DEF LocalInv, Locals, handlerVars
<1>3. CASE Crash
    BY <1>3, IdleLocals, Zenon DEF Crash, LocalInv
<1> QED
    BY <1>1, <1>2, <1>3, Zenon DEF Next, Step, Environment, HandlerStep, Arrival, Mint,
       RevokeBoot, RevokeAgent, ModifyAgent, Clock

----------------------------------------------------------------------------
(* What kinds of steps there are. *)

(* The INSERT, and the UPDATE of consume, when they affect a row. *)
InsertRow(p) ==
    /\ pc[p] = "insert"
    /\ issued < MaxSecret
    /\ issued' = issued + 1
    /\ \E a \in Agent, policy \in Policy, exp \in AgentExpiry :
        /\ agents[a] = None
        /\ agents' = [agents EXCEPT ![a] =
              [name |-> input[p].name, secret |-> issued + 1,
               policy |-> policy, exp |-> exp, revoked |-> FALSE]]
        /\ acct' = [acct EXCEPT ![p] = a]
        /\ via' = IF input[p].op = "create" THEN [via EXCEPT ![a] = Operator] ELSE via
    /\ hash' = [hash EXCEPT ![p] = issued + 1]
    /\ Goto(p, IF input[p].op = "create" THEN "answer" ELSE "check")
    /\ UNCHANGED <<input, view, cause, boots, held, lineage, now, faults>>

SpendToken(p) ==
    /\ pc[p] = "mark"
    /\ input[p].boot \in SingleUse => boots[input[p].boot].used = None
    /\ boots' = [boots EXCEPT ![input[p].boot].used = acct[p]]
    /\ via' = [via EXCEPT ![acct[p]] = input[p].boot]
    /\ Goto(p, "answer")
    /\ UNCHANGED <<cause, agents, input, acct, hash, view, held, lineage, issued, now,
                   faults>>

(* No row comes or goes and no secret changes. *)
RowsKept ==
    /\ \A a \in Agent : /\ agents'[a] = None <=> agents[a] = None
                        /\ agents[a] # None => agents'[a].secret = agents[a].secret
    /\ UNCHANGED <<issued, lineage>>

(* A handler gets no account, and no request that it may not make. *)
Calm(p) ==
    /\ pc'[p] \in Registering =>
            pc[p] \in Registering /\ acct'[p] = acct[p] /\ hash'[p] = hash[p]
    /\ pc'[p] \in Serving => via[input'[p].agent] # None
    /\ pc'[p] = "answer" => pc[p] = "answer" /\ acct'[p] = acct[p]

CalmStep ==
    /\ RowsKept /\ via' = via
    /\ \A h \in held' : via[h[1]] # None
    /\ \A p \in Handler : Calm(p)

LEMMA SameCalm ==
    ASSUME RowInv, NEW q \in Handler, Same(q) PROVE Calm(q)
BY Zenon DEF RowInv, Same, Calm

LEMMA IdleCalm ==
    ASSUME NEW q \in Handler, pc'[q] = "idle" PROVE Calm(q)
BY Zenon DEF Calm, Registering, Serving, Identified

LEMMA RevokeKeepsRows ==
    ASSUME TypeOK, NEW a \in Agent, agents[a] # None, RevokeRow(a),
           UNCHANGED <<issued, lineage>>
    PROVE  RowsKept
<1>1. /\ agents'[a] \in AgentRow /\ agents'[a].secret = agents[a].secret
      /\ \A b \in Agent \ {a} : agents'[b] = agents[b]
    BY RevokeRowEffect, Zenon
<1> QED
    BY <1>1, NoneAssumption, Zenon DEF RowsKept

(* What a handler does is one of the three statements or calm. *)
LEMMA HandlerKinds ==
    ASSUME AgentInv, NEW p \in Handler, HandlerStep(p)
    PROVE  InsertRow(p) \/ SpendToken(p) \/ RotateSwap(p) \/ CalmStep
<1> USE ConstantsAssumption
<1>0. TypeOK /\ LocalInv /\ RowInv /\ Locals(p)
    BY Zenon DEF AgentInv, LocalInv
<1> DEFINE Still == RowsKept /\ via' = via /\ held' = held
<1>1. \A q \in Handler \ {p} : Calm(q)
    BY <1>0, OthersSame, SameCalm, Zenon
<1>2. ASSUME Still, Calm(p) PROVE CalmStep
    BY <1>0, <1>1, <1>2, Zenon DEF CalmStep, RowInv
<1>3. ASSUME UNCHANGED <<agents, issued, histVars>> PROVE Still
    BY <1>3, Zenon DEF RowsKept, histVars
<1>4. ASSUME UNCHANGED <<agents, issued, histVars>>, Drop(p) PROVE CalmStep
    BY <1>0, <1>2, <1>3, <1>4, DropEffect, IdleCalm, Zenon
<1>5. CASE Arrival(p)
    <2>1. CASE StartRegister(p)
        BY <1>0, <1>2, <1>3, <2>1 DEF StartRegister, Arrive, Goto, TypeOK, Calm, histVars,
                                      Registering, Serving, Identified
    <2>2. CASE StartCreate(p)
        BY <1>0, <1>2, <1>3, <2>2 DEF StartCreate, Arrive, Goto, TypeOK, Calm, histVars,
                                      Registering, Serving, Identified
    <2>3. CASE StartAgentRequest(p)
        <3>1. PICK h \in held, op \in {"rotate", "deregister", "call"}, tool \in Tool :
                Arrive(p, [op |-> op, boot |-> None, good |-> TRUE, name |-> None,
                           agent |-> h[1], key |-> h[2], tool |-> tool], "auth")
            BY <2>3, Zenon DEF StartAgentRequest
        <3>2. /\ pc'[p] = "auth" /\ input'[p].agent = h[1] /\ via[h[1]] # None
              /\ UNCHANGED <<agents, issued, histVars>>
            BY <1>0, <3>1, Zenon DEF Arrive, Goto, TypeOK, RowInv
        <3> QED
            BY <1>2, <1>3, <3>2, Zenon DEF Calm, Registering, Serving, Identified
    <2> QED
        BY <1>5, <2>1, <2>2, <2>3, Zenon DEF Arrival
<1>6. CASE Preview(p) \/ Select(p) \/ Diagnose(p)
    BY <1>0, <1>2, <1>3, <1>6 DEF Preview, Refuse, Select, Diagnose, Goto, TypeOK, Calm,
                                  Registering, Serving, Identified
<1>7. CASE Insert(p)
    <2>1. CASE Drop(p) /\ UNCHANGED <<agents, via, issued>>
        BY <1>4, <1>7, <2>1, Zenon DEF Insert, histVars
    <2> QED
        BY <1>7, <2>1, Zenon DEF Insert, InsertRow
<1>8. CASE Check(p)
    <2>1. CASE ~Drop(p)
        BY <1>0, <1>2, <1>3, <1>8, <2>1, Zenon DEF Check, Goto, TypeOK, Calm, Registering, Serving,
                                            Identified
    <2> QED
        BY <1>4, <1>8, <2>1, Zenon DEF Check
<1>9. CASE Mark(p)
    <2>1. CASE /\ Goto(p, "rollback") /\ UNCHANGED <<boots, via>>
        BY <1>0, <1>2, <1>3, <1>9, <2>1, Zenon DEF Mark, Goto, TypeOK, Calm, Registering, Serving,
                                            Identified, histVars
    <2>2. CASE Goto(p, "answer")
        BY <1>0, <1>9, <2>2, Zenon DEF Mark, SpendToken, Goto, TypeOK
    <2> QED
        BY <1>9, <2>1, <2>2, Zenon DEF Mark, SpendToken
<1>10. CASE Rollback(p)
    <2>1. acct[p] \in Agent /\ agents[acct[p]] # None
        BY <1>0, <1>10, Zenon DEF Locals, RowInv, Registering, Rollback
    <2>2. RowsKept
        BY <1>0, <1>10, <2>1, RevokeKeepsRows, Zenon DEF Rollback, histVars
    <2> QED
        BY <1>0, <1>2, <1>10, <2>2, Zenon DEF Rollback, Goto, TypeOK, Calm, Registering, Serving,
                                       Identified, histVars
<1>11. CASE Answer(p)
    <2>1. via[acct[p]] # None
        BY <1>0, <1>11, Zenon DEF RowInv, Answer
    <2>2. \A h \in held' : via[h[1]] # None
        BY <1>0, <1>11, <2>1 DEF RowInv, Answer
    <2>3. RowsKept /\ via' = via
        BY <1>11, Zenon DEF Answer, RowsKept
    <2>4. Calm(p)
        BY <1>0, <1>11, DropEffect, IdleCalm, Zenon DEF Answer
    <2> QED
        BY <1>1, <2>2, <2>3, <2>4, Zenon DEF CalmStep
<1>12. CASE Return(p)
    BY <1>4, <1>12, Zenon DEF Return
<1>13. CASE Authenticate(p)
    <2>1. CASE ~Drop(p)
        <3>1. /\ pc'[p] \in {"reread", "leave", "acl"} /\ input' = input /\ pc[p] = "auth"
              /\ UNCHANGED <<agents, issued, histVars>>
            BY <1>0, <1>13, <2>1, Zenon DEF Authenticate, Goto, TypeOK
        <3> QED
            BY <1>0, <1>2, <1>3, <3>1, Zenon DEF RowInv, Calm, Registering, Serving, Identified
    <2> QED
        BY <1>4, <1>13, <2>1, Zenon DEF Authenticate
<1>14. CASE CheckAcl(p) \/ RotateRead(p)
    <2>1. CASE ~Drop(p)
        BY <1>0, <1>2, <1>3, <1>14, <2>1 DEF CheckAcl, RotateRead, Goto, TypeOK, Calm, RowInv,
                                             Registering, Serving, Identified
    <2>2. UNCHANGED <<agents, issued, histVars>>
        BY <1>14, Zenon DEF CheckAcl, RotateRead
    <2> QED
        BY <1>4, <2>1, <2>2, Zenon
<1>15. CASE Deregister(p)
    <2>1. acct[p] \in Agent /\ agents[acct[p]] # None
        BY <1>0, <1>15, Zenon DEF Locals, RowInv, Serving, Identified, Deregister
    <2>2. RowsKept
        BY <1>0, <1>15, <2>1, RevokeKeepsRows, Zenon DEF Deregister, histVars
    <2> QED
        BY <1>0, <1>2, <1>15, <2>2, DropEffect, IdleCalm, Zenon DEF Deregister, histVars
<1>16. CASE RotateCas(p)
    <2>1. CASE Drop(p) /\ UNCHANGED <<agents, lineage, issued>>
        BY <1>4, <1>16, <2>1, Zenon DEF RotateCas, histVars
    <2> QED
        BY <1>16, <2>1, Zenon DEF RotateCas, RotateSwap, Active
<1>17. CASE StatementFails(p)
    <2>1. CASE ~Drop(p)
        BY <1>0, <1>2, <1>3, <1>17, <2>1 DEF StatementFails, Goto, TypeOK, Calm, Registering,
                                             Serving, Identified
    <2> QED
        BY <1>4, <1>17, <2>1, Zenon DEF StatementFails
<1>18. CASE Cancel(p)
    BY <1>4, <1>18, Zenon DEF Cancel
<1> QED
    BY <1>5, <1>6, <1>7, <1>8, <1>9, <1>10, <1>11, <1>12, <1>13, <1>14, <1>15, <1>16,
       <1>17, <1>18, Zenon DEF HandlerStep, RegisterStep, AgentStep

(* So is every step. *)
LEMMA StepKinds ==
    ASSUME AgentInv, Next
    PROVE  \/ \E p \in Handler : InsertRow(p) \/ SpendToken(p) \/ RotateSwap(p)
           \/ CalmStep
<1>0. TypeOK /\ RowInv
    BY Zenon DEF AgentInv
<1>1. CASE \E p \in Handler : HandlerStep(p)
    BY <1>1, HandlerKinds, Zenon
<1>2. ASSUME RowsKept, UNCHANGED <<handlerVars, via, held>> PROVE CalmStep
    <2>1. \A q \in Handler : Same(q)
        BY <1>2, Zenon DEF Same, handlerVars
    <2> QED
        BY <1>0, <1>2, <2>1, SameCalm, Zenon DEF CalmStep, RowInv
<1>3. ASSUME UNCHANGED <<agents, issued, lineage>> PROVE RowsKept
    BY <1>3, Zenon DEF RowsKept
<1>4. ASSUME NEW b \in Boot, Mint(b) \/ RevokeBoot(b) PROVE CalmStep
    BY <1>2, <1>3, <1>4, Zenon DEF Mint, RevokeBoot, histVars
<1>5. ASSUME NEW a \in Agent, RevokeAgent(a) PROVE CalmStep
    BY <1>0, <1>2, <1>5, RevokeKeepsRows, Zenon DEF RevokeAgent, Active, histVars
<1>6. ASSUME NEW a \in Agent, ModifyAgent(a) PROVE CalmStep
    <2>1. /\ agents[a] \in AgentRow /\ agents'[a] \in AgentRow
          /\ agents'[a].secret = agents[a].secret
          /\ \A b \in Agent \ {a} : agents'[b] = agents[b]
        BY <1>0, <1>6, ModifyEffect, Zenon
    <2>2. UNCHANGED <<issued, lineage, handlerVars, via, held>>
        BY <1>6, Zenon DEF ModifyAgent, histVars
    <2> QED
        BY <1>2, <2>1, <2>2, NoneAssumption, Zenon DEF RowsKept
<1>7. CASE Crash
    <2>1. \A q \in Handler : Calm(q)
        BY <1>7, IdleCalm, Zenon DEF Crash
    <2> QED
        BY <1>0, <1>3, <1>7, <2>1, Zenon DEF Crash, CalmStep, RowInv, histVars
<1>8. CASE Clock
    BY <1>2, <1>3, <1>8, Zenon DEF Clock, histVars
<1> QED
    BY <1>1, <1>4, <1>5, <1>6, <1>7, <1>8, Zenon DEF Next, Step, Environment, HandlerStep, Arrival

----------------------------------------------------------------------------
(* Rows. *)

(* What the INSERT does, for the row it adds. *)
LEMMA InsertEffect ==
    ASSUME TypeOK, NEW p \in Handler, Locals(p), InsertRow(p)
    PROVE  \E a \in Agent :
             /\ agents[a] = None /\ agents'[a] # None /\ agents'[a].secret = issued + 1
             /\ agents'[a].revoked = FALSE
             /\ acct'[p] = a /\ hash'[p] = issued + 1
             /\ \A b \in Agent \ {a} : agents'[b] = agents[b] /\ via'[b] = via[b]
             /\ via'[a] = IF input[p].op = "create" THEN Operator ELSE via[a]
             /\ pc'[p] = IF input[p].op = "create" THEN "answer" ELSE "check"
<1>1. PICK a \in Agent, policy \in Policy, exp \in AgentExpiry :
        /\ agents[a] = None
        /\ agents' = [agents EXCEPT ![a] =
              [name |-> input[p].name, secret |-> issued + 1,
               policy |-> policy, exp |-> exp, revoked |-> FALSE]]
        /\ acct' = [acct EXCEPT ![p] = a]
        /\ via' = IF input[p].op = "create" THEN [via EXCEPT ![a] = Operator] ELSE via
    BY Zenon DEF InsertRow
<1>2. /\ agents'[a] = [name |-> input[p].name, secret |-> issued + 1,
                       policy |-> policy, exp |-> exp, revoked |-> FALSE]
      /\ \A b \in Agent \ {a} : agents'[b] = agents[b]
    BY <1>1, Zenon DEF TypeOK
<1>3. acct'[p] = a /\ hash'[p] = issued + 1
    BY <1>1, Zenon DEF TypeOK, InsertRow
<1>4. /\ \A b \in Agent \ {a} : via'[b] = via[b]
      /\ via'[a] = IF input[p].op = "create" THEN Operator ELSE via[a]
    BY <1>1, Zenon DEF TypeOK
<1>5. pc'[p] = IF input[p].op = "create" THEN "answer" ELSE "check"
    BY Zenon DEF TypeOK, InsertRow, Goto
<1>6. agents'[a] # None
    <2>1. issued + 1 \in Secret
        BY ConstantsAssumption DEF TypeOK, InsertRow, Secret
    <2>2. input[p].name \in Name
        BY Zenon DEF Locals, InsertRow
    <2>3. agents'[a] \in AgentRow
        BY <1>2, <2>1, <2>2 DEF AgentRow
    <2>4. None \notin AgentRow
        BY NoneAssumption, Zenon
    <2> QED
        BY <2>3, <2>4, Zenon
<1>7. agents'[a].secret = issued + 1 /\ agents'[a].revoked = FALSE
    BY <1>2
<1> QED
    BY <1>1, <1>2, <1>3, <1>4, <1>5, <1>6, <1>7, Zenon

LEMMA RowStep ==
    ASSUME AgentInv, Next, LocalInv', TypeOK' PROVE RowInv'
<1> USE ConstantsAssumption
<1>0. TypeOK /\ LocalInv /\ RowInv
    BY Zenon DEF AgentInv
<1>1. CASE CalmStep
    <2>1. \A a \in Agent : via'[a] # None => agents'[a] # None
        BY <1>0, <1>1, Zenon DEF CalmStep, RowsKept, RowInv
    <2>2. \A h \in held' : via'[h[1]] # None
        BY <1>1, Zenon DEF CalmStep
    <2>3. ASSUME NEW p \in Handler
          PROVE  /\ pc'[p] \in Serving => via'[input'[p].agent] # None
                 /\ pc'[p] = "answer" => via'[acct'[p]] # None
                 /\ pc'[p] \in Registering =>
                        /\ via'[acct'[p]] = None /\ agents'[acct'[p]] # None
                        /\ agents'[acct'[p]].secret = hash'[p]
        <3>1. Calm(p) /\ Locals(p) /\ via' = via
            BY <1>0, <1>1, Zenon DEF CalmStep, LocalInv
        <3>2. CASE pc'[p] \in Registering
            <4>1. /\ via[acct[p]] = None /\ agents[acct[p]] # None
                  /\ agents[acct[p]].secret = hash[p] /\ acct[p] \in Agent
                  /\ acct'[p] = acct[p] /\ hash'[p] = hash[p]
                BY <1>0, <3>1, <3>2, Zenon DEF RowInv, Calm, Locals
            <4>2. agents'[acct[p]] # None /\ agents'[acct[p]].secret = agents[acct[p]].secret
                BY <1>1, <4>1, Zenon DEF CalmStep, RowsKept
            <4> QED
                BY <3>1, <3>2, <4>1, <4>2, Zenon DEF Registering, Serving, Identified
        <3>3. CASE pc'[p] \notin Registering
            BY <1>0, <3>1, <3>3, Zenon DEF RowInv, Calm
        <3> QED
            BY <3>2, <3>3, Zenon
    <2>4. ASSUME NEW p \in Handler, NEW q \in Handler, p # q,
                 pc'[p] \in Registering, pc'[q] \in Registering
          PROVE  acct'[p] # acct'[q]
        <3>1. Calm(p) /\ Calm(q)
            BY <1>1, Zenon DEF CalmStep
        <3> QED
            BY <1>0, <2>4, <3>1, Zenon DEF Calm, RowInv
    <2> QED
        BY <2>1, <2>2, <2>3, <2>4, Zenon DEF RowInv
<1>2. ASSUME NEW p \in Handler, InsertRow(p) PROVE RowInv'
    <2>1. PICK a \in Agent :
             /\ agents[a] = None /\ agents'[a] # None /\ agents'[a].secret = issued + 1
             /\ acct'[p] = a /\ hash'[p] = issued + 1
             /\ \A b \in Agent \ {a} : agents'[b] = agents[b] /\ via'[b] = via[b]
             /\ via'[a] = IF input[p].op = "create" THEN Operator ELSE via[a]
             /\ pc'[p] = IF input[p].op = "create" THEN "answer" ELSE "check"
        BY <1>0, <1>2, InsertEffect, Zenon DEF LocalInv
    <2>2. via[a] = None /\ Operator # None /\ held' = held
        BY <1>0, <1>2, <2>1, Zenon DEF RowInv, InsertRow
    <2>3. \A q \in Handler \ {p} : Same(q)
        BY <1>0, <1>2 DEF InsertRow, Goto, TypeOK, Same
    <2>4. \A b \in Agent : via[b] # None => b # a /\ via'[b] = via[b]
        BY <2>1, <2>2, Zenon
    <2>5. \A q \in Handler \ {p} : pc[q] \in Registering =>
            acct[q] \in Agent /\ acct[q] # a
        BY <1>0, <2>1, Zenon DEF RowInv, LocalInv, Locals
    <2>6. ASSUME NEW b \in Agent, via'[b] # None PROVE agents'[b] # None
        <3>1. CASE b = a
            BY <2>1, <3>1, Zenon
        <3>2. CASE b # a
            BY <1>0, <2>1, <2>6, <3>2 DEF RowInv
        <3> QED
            BY <3>1, <3>2, Zenon
    <2>7. \A h \in held' : via'[h[1]] # None
        BY <1>0, <2>2, <2>4 DEF RowInv, TypeOK
    <2>8. /\ pc'[p] \notin Serving
          /\ pc'[p] = "answer" => via'[acct'[p]] # None
          /\ pc'[p] \in Registering =>
                /\ via'[acct'[p]] = None /\ agents'[acct'[p]] # None
                /\ agents'[acct'[p]].secret = hash'[p]
        BY <2>1, <2>2, Zenon DEF Registering, Serving, Identified
    <2>9. ASSUME NEW q \in Handler \ {p}
          PROVE  /\ pc'[q] \in Serving => via'[input'[q].agent] # None
                 /\ pc'[q] = "answer" => via'[acct'[q]] # None
                 /\ pc'[q] \in Registering =>
                        /\ via'[acct'[q]] = None /\ agents'[acct'[q]] # None
                        /\ agents'[acct'[q]].secret = hash'[q]
        <3>1. Same(q)
            BY <2>3, Zenon
        <3>2. /\ pc[q] \in Serving => via[input[q].agent] # None
              /\ pc[q] = "answer" => via[acct[q]] # None
              /\ pc[q] \in Registering =>
                    /\ via[acct[q]] = None /\ agents[acct[q]] # None
                    /\ agents[acct[q]].secret = hash[q]
            BY <1>0, Zenon DEF RowInv
        <3>3. /\ pc[q] \in Serving => input[q].agent \in Agent
              /\ pc[q] = "answer" => acct[q] \in Agent
            BY <1>0, Zenon DEF LocalInv, Locals
        <3> QED
            BY <2>1, <2>4, <2>5, <3>1, <3>2, <3>3 DEF Same
    <2>10. ASSUME NEW q \in Handler, NEW r \in Handler, q # r,
                  pc'[q] \in Registering, pc'[r] \in Registering
           PROVE  acct'[q] # acct'[r]
        <3>1. CASE q # p /\ r # p
            BY <1>0, <2>3, <2>10, <3>1 DEF RowInv, Same
        <3>2. CASE q = p \/ r = p
            BY <2>1, <2>3, <2>5, <2>10, <3>2 DEF Same
        <3> QED
            BY <3>1, <3>2, Zenon
    <2> QED
        BY <2>6, <2>7, <2>8, <2>9, <2>10, Zenon DEF RowInv
<1>3. ASSUME NEW p \in Handler, SpendToken(p) PROVE RowInv'
    <2>1. /\ acct[p] \in Agent /\ input[p].boot \in Boot /\ pc[p] \in Registering
          /\ agents[acct[p]] # None
        BY <1>0, <1>3, Zenon DEF SpendToken, LocalInv, Locals, RowInv, Registering
    <2>2. /\ via'[acct[p]] # None /\ \A b \in Agent \ {acct[p]} : via'[b] = via[b]
          /\ agents' = agents /\ held' = held /\ pc'[p] = "answer" /\ acct' = acct
          /\ hash' = hash /\ input' = input
        BY <1>0, <1>3, <2>1 DEF SpendToken, Goto, TypeOK
    <2>3. \A q \in Handler \ {p} : pc'[q] = pc[q]
        BY <1>0, <1>3 DEF SpendToken, Goto, TypeOK
    <2>4. \A b \in Agent : via[b] # None => via'[b] # None
        BY <2>2, Zenon
    <2>5. \A b \in Agent : via'[b] # None => agents'[b] # None
        BY <1>0, <2>1, <2>2, Zenon DEF RowInv
    <2>6. \A h \in held' : via'[h[1]] # None
        BY <1>0, <2>2, <2>4 DEF RowInv, TypeOK
    <2>7. ASSUME NEW q \in Handler
          PROVE  /\ pc'[q] \in Serving => via'[input'[q].agent] # None
                 /\ pc'[q] = "answer" => via'[acct'[q]] # None
                 /\ pc'[q] \in Registering =>
                        /\ via'[acct'[q]] = None /\ agents'[acct'[q]] # None
                        /\ agents'[acct'[q]].secret = hash'[q]
        <3>1. CASE q = p
            BY <2>2, <3>1, Zenon DEF Registering, Serving, Identified
        <3>2. CASE q # p
            BY <1>0, <2>1, <2>2, <2>3, <2>4, <3>2 DEF RowInv, LocalInv, Locals
        <3> QED
            BY <3>1, <3>2, Zenon
    <2>8. \A q, r \in Handler :
            pc'[q] \in Registering /\ pc'[r] \in Registering /\ q # r => acct'[q] # acct'[r]
        BY <1>0, <2>2, <2>3 DEF RowInv, Registering
    <2> QED
        BY <2>5, <2>6, <2>7, <2>8, Zenon DEF RowInv
<1>4. ASSUME NEW p \in Handler, RotateSwap(p) PROVE RowInv'
    <2>1. acct[p] \in Agent /\ via[acct[p]] # None /\ issued + 1 \in Secret
        BY <1>0, <1>4 DEF RotateSwap, LocalInv, Locals, RowInv, Serving, Identified,
                          TypeOK, Secret
    <2>2. /\ agents'[acct[p]] \in AgentRow
          /\ \A b \in Agent \ {acct[p]} : agents'[b] = agents[b]
        BY <1>0, <1>4, <2>1, ReplaceEffect, Zenon DEF RotateSwap
    <2>3. /\ via' = via /\ held' = held /\ pc'[p] = "answer" /\ acct' = acct
          /\ input' = input
          /\ \A q \in Handler \ {p} : pc'[q] = pc[q] /\ hash'[q] = hash[q]
        BY <1>0, <1>4, Zenon DEF RotateSwap, Goto, TypeOK
    <2>4. \A b \in Agent : via'[b] # None => agents'[b] # None
        BY <1>0, <2>2, <2>3, NoneAssumption DEF RowInv
    <2>5. ASSUME NEW q \in Handler
          PROVE  /\ pc'[q] \in Serving => via'[input'[q].agent] # None
                 /\ pc'[q] = "answer" => via'[acct'[q]] # None
                 /\ pc'[q] \in Registering =>
                        /\ via'[acct'[q]] = None /\ agents'[acct'[q]] # None
                        /\ agents'[acct'[q]].secret = hash'[q]
        <3>1. CASE q = p
            BY <2>1, <2>3, <3>1, Zenon DEF Registering, Serving, Identified
        <3>2. CASE q # p
            BY <1>0, <2>1, <2>2, <2>3, <3>2, SMTT(30) DEF RowInv, LocalInv, Locals
        <3> QED
            BY <3>1, <3>2, Zenon
    <2> QED
        BY <1>0, <2>3, <2>4, <2>5 DEF RowInv, Registering
<1> QED
    BY <1>1, <1>2, <1>3, <1>4, StepKinds, Zenon

----------------------------------------------------------------------------
(* Secrets. *)

LEMMA SecretStep ==
    ASSUME AgentInv, Next, TypeOK' PROVE SecretInv'
<1> USE ConstantsAssumption
<1>0. TypeOK /\ LocalInv /\ RowInv /\ SecretInv /\ issued \in Nat
    BY DEF AgentInv, TypeOK
<1>00. \A x \in lineage : x[1] \in Nat /\ x[2] \in Nat /\ x = <<x[1], x[2]>>
    BY <1>0 DEF TypeOK, Secret
<1>01. \A a \in Agent : agents[a] # None => agents[a].secret \in Nat
    BY <1>0 DEF TypeOK, AgentRow, Secret
<1>1. CASE CalmStep
    BY <1>0, <1>1 DEF CalmStep, RowsKept, SecretInv, OneHeir
<1>2. ASSUME NEW p \in Handler, InsertRow(p) PROVE SecretInv'
    <2>1. PICK a \in Agent :
             /\ agents'[a].secret = issued + 1
             /\ \A b \in Agent \ {a} : agents'[b] = agents[b]
        BY <1>0, <1>2, InsertEffect, Zenon DEF LocalInv
    <2>2. issued' = issued + 1 /\ lineage' = lineage
        BY <1>2, Zenon DEF InsertRow
    <2>3. \A b \in Agent : agents'[b] # None =>
            \/ b = a /\ agents'[b].secret = issued + 1
            \/ b # a /\ agents'[b] = agents[b] /\ agents[b].secret <= issued
        BY <1>0, <2>1, Zenon DEF SecretInv
    <2>4. \A b \in Agent : agents'[b] # None => agents'[b].secret <= issued'
        BY <1>0, <1>01, <2>2, <2>3
    <2>5. \A b, c \in Agent : agents'[b] # None /\ agents'[c] # None /\ b # c =>
            agents'[b].secret # agents'[c].secret
        BY <1>0, <1>01, <2>3 DEF SecretInv
    <2>6. \A x \in lineage' : x[1] <= issued'
        BY <1>0, <1>00, <2>2 DEF SecretInv
    <2>7. \A x \in lineage', b \in Agent : agents'[b] # None => x[1] # agents'[b].secret
        BY <1>0, <1>00, <2>2, <2>3 DEF SecretInv
    <2> QED
        BY <1>0, <2>2, <2>4, <2>5, <2>6, <2>7, Zenon DEF SecretInv, OneHeir
<1>3. ASSUME NEW p \in Handler, SpendToken(p) PROVE SecretInv'
    BY <1>0, <1>3, Zenon DEF SpendToken, SecretInv, OneHeir
<1>4. ASSUME NEW p \in Handler, RotateSwap(p) PROVE SecretInv'
    <2>1. acct[p] \in Agent /\ issued + 1 \in Secret /\ agents[acct[p]] # None
        BY <1>0, <1>4, Zenon DEF RotateSwap, LocalInv, Locals, Serving, Identified, TypeOK, Secret
    <2>2. /\ agents'[acct[p]].secret = issued + 1
          /\ \A b \in Agent \ {acct[p]} : agents'[b] = agents[b]
        BY <1>0, <1>4, <2>1, ReplaceEffect, Zenon DEF RotateSwap
    <2>3. /\ issued' = issued + 1 /\ lineage' = lineage \cup {<<hash[p], issued + 1>>}
          /\ hash[p] = agents[acct[p]].secret
        BY <1>4, Zenon DEF RotateSwap
    <2>4. \A b \in Agent : agents'[b] # None =>
            \/ b = acct[p] /\ agents'[b].secret = issued + 1
            \/ /\ b # acct[p] /\ agents'[b] = agents[b]
               /\ agents[b].secret <= issued /\ agents[b].secret # hash[p]
        BY <1>0, <2>1, <2>2, <2>3 DEF SecretInv
    <2>5. hash[p] \in Nat /\ hash[p] <= issued
        BY <1>0, <1>01, <2>1, <2>3, Zenon DEF SecretInv
    <2>6. \A b \in Agent : agents'[b] # None => agents'[b].secret <= issued'
        BY <1>0, <1>01, <2>3, <2>4
    <2>7. \A b, c \in Agent : agents'[b] # None /\ agents'[c] # None /\ b # c =>
            agents'[b].secret # agents'[c].secret
        BY <1>0, <1>01, <2>4 DEF SecretInv
    <2>8. \A x \in lineage' : \/ x \in lineage /\ x[1] <= issued /\ x[1] # hash[p]
                              \/ x = <<hash[p], issued + 1>> /\ x[1] = hash[p]
        BY <1>0, <2>1, <2>3 DEF SecretInv
    <2>9. \A x \in lineage' : x[1] <= issued'
        BY <1>0, <1>00, <2>3, <2>5, <2>8
    <2>10. \A x \in lineage', b \in Agent : agents'[b] # None => x[1] # agents'[b].secret
        BY <1>0, <1>00, <2>4, <2>5, <2>8 DEF SecretInv
    <2>11. \A x, y \in lineage' : x[1] = y[1] => x = y
        BY <1>0, <2>8, Zenon DEF SecretInv, OneHeir
    <2> QED
        BY <2>6, <2>7, <2>9, <2>10, <2>11, Zenon DEF SecretInv, OneHeir
<1> QED
    BY <1>1, <1>2, <1>3, <1>4, StepKinds, Zenon

----------------------------------------------------------------------------
(* Tokens. *)

(* What is wrong with a token stays wrong. *)
TokensLapse ==
    \A b \in Boot : boots[b] # None =>
        /\ boots'[b] # None
        /\ boots[b].revoked => boots'[b].revoked
        /\ b \in SingleUse /\ boots[b].used # None => boots'[b].used = boots[b].used

LEMMA SpendEffect ==
    ASSUME TypeOK, NEW p \in Handler, SpendToken(p), input[p].boot \in Boot,
           acct[p] \in Agent, boots[input[p].boot] # None
    PROVE  /\ boots'[input[p].boot] # None /\ boots'[input[p].boot].used = acct[p]
           /\ boots'[input[p].boot].revoked = boots[input[p].boot].revoked
           /\ \A b \in Boot \ {input[p].boot} : boots'[b] = boots[b]
<1>1. boots[input[p].boot] \in BootRow
    BY Zenon DEF TypeOK
<1>2. /\ boots'[input[p].boot] \in BootRow /\ boots'[input[p].boot].used = acct[p]
      /\ boots'[input[p].boot].revoked = boots[input[p].boot].revoked
      /\ \A b \in Boot \ {input[p].boot} : boots'[b] = boots[b]
    BY <1>1, Zenon DEF SpendToken, TypeOK, BootRow
<1> QED
    BY <1>2, NoneAssumption, Zenon

LEMMA TokensLapseStep ==
    ASSUME AgentInv, Next PROVE TokensLapse
<1>0. TypeOK /\ LocalInv /\ TokenInv
    BY Zenon DEF AgentInv
<1>1. ASSUME boots' = boots PROVE TokensLapse
    BY <1>1, Zenon DEF TokensLapse
<1>2. ASSUME NEW p \in Handler, Mark(p) PROVE TokensLapse
    <2>1. CASE UNCHANGED boots
        BY <1>1, <2>1, Zenon
    <2>2. CASE SpendToken(p)
        <3>1. input[p].boot \in Boot /\ acct[p] \in Agent /\ boots[input[p].boot] # None
            BY <1>0, <2>2, Zenon DEF SpendToken, LocalInv, Locals, TokenInv, Blame, Registering
        <3> QED
            BY <1>0, <2>2, <3>1, SpendEffect, Zenon DEF SpendToken, TokensLapse
    <2> QED
        BY <1>2, <2>1, <2>2, Zenon DEF Mark, SpendToken
<1>3. ASSUME NEW b \in Boot, Mint(b) PROVE TokensLapse
    BY <1>0, <1>3, Zenon DEF Mint, TypeOK, TokensLapse
<1>4. ASSUME NEW b \in Boot, RevokeBoot(b) PROVE TokensLapse
    <2>1. boots[b] \in BootRow /\ boots' = [boots EXCEPT ![b].revoked = TRUE]
        BY <1>0, <1>4, Zenon DEF RevokeBoot, TypeOK
    <2>2. /\ boots'[b] \in BootRow /\ boots'[b].used = boots[b].used /\ boots'[b].revoked
          /\ \A c \in Boot \ {b} : boots'[c] = boots[c]
        BY <1>0, <2>1, Zenon DEF TypeOK, BootRow
    <2> QED
        BY <2>2, NoneAssumption, Zenon DEF TokensLapse
<1>5. CASE \E p \in Handler : HandlerStep(p) /\ ~Mark(p)
    BY <1>1, <1>5 DEF HandlerStep, Arrival, StartRegister, StartCreate, StartAgentRequest,
       Arrive, RegisterStep, Preview, Insert, Check, Select, Rollback, Diagnose, Answer,
       Return, AgentStep, Authenticate, CheckAcl, Deregister, RotateRead, RotateCas,
       StatementFails, Cancel
<1>6. ASSUME NEW a \in Agent, RevokeAgent(a) \/ ModifyAgent(a) PROVE TokensLapse
    BY <1>1, <1>6, Zenon DEF RevokeAgent, ModifyAgent
<1>7. CASE Crash \/ Clock
    BY <1>1, <1>7, Zenon DEF Crash, Clock
<1> QED
    BY <1>2, <1>3, <1>4, <1>5, <1>6, <1>7, Zenon DEF Next, Step, Environment, HandlerStep, Arrival

LEMMA SameBlame ==
    ASSUME TokensLapse, NEW q \in Handler, Locals(q), Blame(q), Same(q) PROVE Blame(q)'
BY Zenon DEF TokensLapse, Locals, Blame, Same, Registering

LEMMA IdleBlame ==
    ASSUME NEW q \in Handler, pc'[q] = "idle", cause'[q] = None PROVE Blame(q)'
BY Zenon DEF Blame

(* The handler that moves. *)
LEMMA OwnBlame ==
    ASSUME AgentInv, NEW p \in Handler, HandlerStep(p) PROVE Blame(p)'
<1> USE ConstantsAssumption, NoneAssumption
<1>0. TypeOK /\ Locals(p) /\ Blame(p)
    BY Zenon DEF AgentInv, LocalInv, TokenInv
<1>1. CASE Drop(p)
    BY <1>0, <1>1, DropEffect, IdleBlame, Zenon
<1>2. CASE Arrival(p)
    BY <1>0, <1>2 DEF Arrival, StartRegister, StartCreate, StartAgentRequest, Arrive, Goto,
                      TypeOK, Blame
<1>3. CASE Preview(p)
    BY <1>0, <1>3 DEF Preview, Refuse, Goto, TypeOK, Blame, Refusal, Cause
<1>4. CASE Insert(p) /\ ~Drop(p)
    BY <1>0, <1>4 DEF Insert, Goto, TypeOK, Blame
<1>5. CASE Check(p) /\ ~Drop(p)
    BY <1>0, <1>5, Zenon DEF Check, Goto, TypeOK, Blame
<1>6. CASE Select(p)
    BY <1>0, <1>6 DEF Select, Goto, TypeOK, Blame, Refusal, Cause
<1>7. CASE Mark(p)
    BY <1>0, <1>7 DEF Mark, Goto, TypeOK, Blame, Cause
<1>8. CASE Rollback(p)
    BY <1>0, <1>8, Zenon DEF Rollback, Goto, TypeOK, Blame
<1>9. CASE Diagnose(p)
    BY <1>0, <1>9, Zenon DEF Diagnose, Goto, TypeOK, Blame, Refusal, Cause
<1>10. CASE (Authenticate(p) \/ CheckAcl(p) \/ RotateRead(p) \/ RotateCas(p)) /\ ~Drop(p)
    BY <1>0, <1>10 DEF Authenticate, CheckAcl, RotateRead, RotateCas, Goto, TypeOK, Blame
<1>11. CASE StatementFails(p) /\ ~Drop(p)
    BY <1>0, <1>11 DEF StatementFails, Goto, TypeOK, Blame, Cause
<1> QED
    BY <1>1, <1>2, <1>3, <1>4, <1>5, <1>6, <1>7, <1>8, <1>9, <1>10, <1>11, Zenon
    DEF HandlerStep, RegisterStep, AgentStep, Answer, Return, Deregister, Cancel

LEMMA TokenStep ==
    ASSUME AgentInv, Next PROVE TokenInv'
<1> USE ConstantsAssumption
<1>0. TypeOK /\ LocalInv /\ TokenInv /\ RowInv /\ TokensLapse
    BY TokensLapseStep, Zenon DEF AgentInv
<1>1. \A q \in Handler : Blame(q)'
    <2>1. CASE \E p \in Handler : HandlerStep(p)
        <3>1. PICK p \in Handler : HandlerStep(p)
            BY <2>1, Zenon
        <3>2. \A q \in Handler \ {p} : Blame(q)'
            BY <1>0, <3>1, OthersSame, SameBlame, Zenon DEF LocalInv, TokenInv
        <3> QED
            BY <3>1, <3>2, OwnBlame, Zenon
    <2>2. CASE UNCHANGED handlerVars
        <3>1. \A q \in Handler : Same(q)
            BY <2>2, Zenon DEF Same, handlerVars
        <3> QED
            BY <1>0, <3>1, SameBlame, Zenon DEF LocalInv, TokenInv
    <2>3. CASE Crash
        BY <2>3, IdleBlame, Zenon DEF Crash
    <2> QED
        BY <2>1, <2>2, <2>3, Zenon DEF Next, Step, Environment, HandlerStep, Arrival, Mint,
           RevokeBoot, RevokeAgent, ModifyAgent, Clock
<1>2. \A a \in Agent : via'[a] \in SingleUse =>
            boots'[via'[a]] # None /\ boots'[via'[a]].used = a
    <2>0. \A a \in Agent : via[a] \in SingleUse =>
            boots'[via[a]] # None /\ boots'[via[a]].used = a
        BY <1>0, Zenon DEF TokenInv, TokensLapse
    <2>1. CASE UNCHANGED via
        BY <2>0, <2>1, Zenon
    <2>2. ASSUME NEW p \in Handler, InsertRow(p), NEW a \in Agent, via'[a] \in SingleUse
          PROVE  boots'[via'[a]] # None /\ boots'[via'[a]].used = a
        <3>1. TypeOK /\ Locals(p)
            BY <1>0, Zenon DEF LocalInv
        <3>2. PICK b \in Agent :
                /\ \A c \in Agent \ {b} : via'[c] = via[c]
                /\ via'[b] = IF input[p].op = "create" THEN Operator ELSE via[b]
            BY <2>2, <3>1, InsertEffect, Zenon
        <3>3. Operator \notin SingleUse
            BY ConstantsAssumption, Zenon DEF ConstantsAssumption
        <3>4. via'[a] = via[a]
            BY <2>2, <3>2, <3>3, Zenon
        <3> QED
            BY <2>0, <2>2, <3>4, Zenon
    <2>3. ASSUME NEW p \in Handler, SpendToken(p), NEW a \in Agent, via'[a] \in SingleUse
          PROVE  boots'[via'[a]] # None /\ boots'[via'[a]].used = a
        <3>1. input[p].boot \in Boot /\ acct[p] \in Agent /\ boots[input[p].boot] # None
            BY <1>0, <2>3, Zenon DEF SpendToken, LocalInv, Locals, TokenInv, Blame, Registering
        <3>2. via'[a] = IF a = acct[p] THEN input[p].boot ELSE via[a]
            BY <1>0, <2>3, <3>1, Zenon DEF SpendToken, TypeOK
        <3> QED
            BY <1>0, <2>0, <2>3, <3>1, <3>2, SpendEffect
    <2> QED
        BY <2>1, <2>2, <2>3, StepKinds, Zenon DEF CalmStep, RotateSwap
<1> QED
    BY <1>1, <1>2, Zenon DEF TokenInv

----------------------------------------------------------------------------
(* What was in order is remembered. *)

LEMMA GrantedNow ==
    ASSUME Observe, NEW q \in Handler, Entitled(q)' PROVE granted'[q]
<1>1. input'[q] # None
    BY Zenon DEF Entitled, CallInOrder, TokenInOrder
<1> QED
    BY <1>1, Zenon DEF Observe

LEMMA GrantedStays ==
    ASSUME Observe, NEW q \in Handler, input[q] # None, granted[q], input'[q] # None
    PROVE  granted'[q]
BY Zenon DEF Observe

(* A handler that gets past its test was entitled when it was tested. *)
LEMMA TestedWhenEntitled ==
    ASSUME AgentInv, NEW p \in Handler, HandlerStep(p), PastTheTest(p)'
    PROVE  Entitled(p) \/ PastTheTest(p)
<1>0. TypeOK /\ Locals(p)
    BY Zenon DEF AgentInv, LocalInv
<1>1. CASE Drop(p)
    BY <1>0, <1>1, DropEffect, Zenon DEF PastTheTest
<1>2. CASE Arrival(p)
    BY <1>0, <1>2, Zenon DEF Arrival, StartRegister, StartCreate, StartAgentRequest, Arrive, Goto,
                      TypeOK, PastTheTest
<1>3. CASE Preview(p) \/ Rollback(p) \/ Diagnose(p)
    BY <1>0, <1>3, Zenon DEF Preview, Refuse, Rollback, Diagnose, Goto, TypeOK, PastTheTest
<1>4. CASE Insert(p) /\ ~Drop(p)
    BY <1>0, <1>4, Zenon DEF Insert, Goto, TypeOK, PastTheTest
<1>5. CASE Check(p) /\ ~Drop(p)
    BY <1>0, <1>5, Zenon DEF Check, Goto, TypeOK, PastTheTest
<1>6. CASE Select(p)
    <2>1. Refusal(input[p].boot) = None /\ input[p].good /\ pc[p] = "select"
        BY <1>0, <1>6, Zenon DEF Select, Goto, TypeOK, PastTheTest
    <2>2. /\ input[p] # None /\ input[p].op = "register"
          /\ acct[p] # None
        BY <1>0, <2>1, ConstantsAssumption, Zenon DEF Locals, Registering
    <2> QED
        BY <2>1, <2>2, Zenon DEF Entitled, TokenInOrder
<1>7. CASE Mark(p)
    BY <1>7, Zenon DEF Mark, PastTheTest
<1>8. CASE Authenticate(p) /\ ~Drop(p)
    <2>1. /\ pc[p] = "auth" /\ input' = input
          /\ Active(agents[input[p].agent]) /\ ~Expired(agents[input[p].agent])
          /\ agents[input[p].agent].secret = input[p].key
          /\ view'[p] = agents[input[p].agent].policy
          /\ pc'[p] = CASE input[p].op = "rotate" -> "reread"
                        [] input[p].op = "deregister" -> "leave"
                        [] OTHER -> "acl"
        BY <1>0, <1>8, Zenon DEF Authenticate, Goto, TypeOK
    <2>2. input[p].op \in {"rotate", "deregister", "call"} /\ input[p] # None
        BY <1>0, <2>1, Zenon DEF Locals, Serving
    <2>3. input[p].op = "call" /\ Allows(agents[input[p].agent].policy, input[p].tool)
        BY <2>1, <2>2, Zenon DEF PastTheTest
    <2> QED
        BY <2>1, <2>2, <2>3, Zenon DEF Entitled, CallInOrder
<1>9. CASE CheckAcl(p) /\ ~Drop(p)
    BY <1>9, Zenon DEF CheckAcl, PastTheTest
<1>10. CASE (RotateRead(p) \/ RotateCas(p)) /\ ~Drop(p)
    BY <1>0, <1>10, Zenon DEF RotateRead, RotateCas, Goto, TypeOK, PastTheTest, Locals, Serving,
                       Identified
<1>11. CASE StatementFails(p) /\ ~Drop(p)
    BY <1>0, <1>11, Zenon DEF StatementFails, Goto, TypeOK, PastTheTest
<1> QED
    BY <1>1, <1>2, <1>3, <1>4, <1>5, <1>6, <1>7, <1>8, <1>9, <1>10, <1>11, Zenon
    DEF HandlerStep, RegisterStep, AgentStep, Answer, Return, Deregister, Cancel

LEMMA GrantStep ==
    ASSUME AgentInv, Next, LocalInv' PROVE GrantInv'
<1>0. TypeOK /\ LocalInv /\ GrantInv /\ Observe
    BY Zenon DEF AgentInv, Next
<1>1. SUFFICES ASSUME NEW q \in Handler, PastTheTest(q)' PROVE granted'[q]
    BY <1>0, GrantedNow, Zenon DEF GrantInv
<1>2. pc'[q] # "idle" /\ input'[q] # None
    BY <1>1, Zenon DEF PastTheTest, LocalInv, Locals
<1>3. ASSUME Same(q) PROVE PastTheTest(q)
    BY <1>1, <1>3, Zenon DEF PastTheTest, Same
<1>4. Entitled(q) \/ PastTheTest(q)
    <2>1. CASE \E p \in Handler : HandlerStep(p)
        <3>1. PICK p \in Handler : HandlerStep(p)
            BY <2>1, Zenon
        <3>2. CASE p = q
            BY <1>1, <3>1, <3>2, TestedWhenEntitled, Zenon
        <3>3. CASE p # q
            BY <1>0, <1>3, <3>1, <3>3, OthersSame, Zenon
        <3> QED
            BY <3>2, <3>3, Zenon
    <2>2. CASE UNCHANGED handlerVars
        BY <1>3, <2>2, Zenon DEF Same, handlerVars
    <2>3. CASE Crash
        BY <1>2, <2>3, Zenon DEF Crash
    <2> QED
        BY <2>1, <2>2, <2>3, Zenon DEF Next, Step, Environment, HandlerStep, Arrival, Mint,
           RevokeBoot, RevokeAgent, ModifyAgent, Clock
<1>5. granted[q]
    BY <1>0, <1>4, Zenon DEF GrantInv
<1>6. input[q] # None
    BY <1>0, <1>4, Zenon DEF Entitled, CallInOrder, TokenInOrder, PastTheTest, LocalInv, Locals
<1> QED
    BY <1>0, <1>2, <1>5, <1>6, GrantedStays, Zenon

----------------------------------------------------------------------------
(* What a step does to the agents table. *)

LEMMA AgentsEffect ==
    ASSUME AgentInv, Next
    PROVE  \/ UNCHANGED agents
           \/ \E p \in Handler : InsertRow(p) \/ RotateSwap(p)
           \/ \E a \in Agent : agents[a] # None /\ RevokeRow(a)
           \/ \E a \in Agent : ModifyAgent(a)
<1>0. LocalInv /\ RowInv
    BY Zenon DEF AgentInv
<1>1. ASSUME NEW p \in Handler, Arrival(p) \/ RegisterStep(p) \/ AgentStep(p)
                                \/ StatementFails(p) \/ Cancel(p)
      PROVE  \/ UNCHANGED agents \/ InsertRow(p) \/ RotateSwap(p)
             \/ \E a \in Agent : agents[a] # None /\ RevokeRow(a)
    <2>1. CASE Insert(p)
        BY <2>1 DEF Insert, InsertRow
    <2>2. CASE RotateCas(p)
        BY <2>2, Zenon DEF RotateCas, RotateSwap, Active
    <2>3. CASE Rollback(p)
        BY <1>0, <2>3, Zenon DEF Rollback, LocalInv, Locals, RowInv, Registering
    <2>4. CASE Deregister(p)
        BY <1>0, <2>4, Zenon DEF Deregister, LocalInv, Locals, RowInv, Serving, Identified
    <2> QED
        BY <1>1, <2>1, <2>2, <2>3, <2>4, Zenon DEF Arrival, StartRegister, StartCreate,
           StartAgentRequest, Arrive, RegisterStep, Preview, Check, Select, Mark, Diagnose,
           Answer, Return, AgentStep, Authenticate, CheckAcl, RotateRead, StatementFails,
           Cancel
<1>2. ASSUME NEW b \in Boot, Mint(b) \/ RevokeBoot(b) PROVE UNCHANGED agents
    BY <1>2, Zenon DEF Mint, RevokeBoot
<1>3. CASE Crash \/ Clock
    BY <1>3, Zenon DEF Crash, Clock
<1> QED
    BY <1>1, <1>2, <1>3, Zenon DEF Next, Step, Environment, Arrival, RevokeAgent, Active

(* revoked_at is never cleared. *)
LEMMA NeverRevived ==
    ASSUME AgentInv, Next, NEW a \in Agent, agents[a] # None, Active(agents'[a])
    PROVE  Active(agents[a])
<1>0. TypeOK /\ LocalInv
    BY Zenon DEF AgentInv
<1>1. CASE UNCHANGED agents
    BY <1>1, Zenon
<1>2. ASSUME NEW p \in Handler, InsertRow(p) PROVE Active(agents[a])
    <2>1. agents'[a] = agents[a]
        BY <1>0, <1>2, InsertEffect, Zenon DEF LocalInv
    <2> QED
        BY <2>1, Zenon
<1>3. ASSUME NEW p \in Handler, RotateSwap(p) PROVE Active(agents[a])
    <2>1. acct[p] \in Agent /\ issued + 1 \in Secret
        BY <1>0, <1>3, ConstantsAssumption DEF RotateSwap, LocalInv, Locals, Serving,
                                               Identified, TypeOK, Secret
    <2>2. \A b \in Agent \ {acct[p]} : agents'[b] = agents[b]
        BY <1>0, <1>3, <2>1, ReplaceEffect, Zenon DEF RotateSwap
    <2> QED
        BY <1>3, <2>2, Zenon DEF RotateSwap, Active
<1>4. ASSUME NEW b \in Agent, agents[b] # None, RevokeRow(b) PROVE Active(agents[a])
    <2>1. agents'[b].revoked = TRUE /\ \A c \in Agent \ {b} : agents'[c] = agents[c]
        BY <1>0, <1>4, RevokeRowEffect, Zenon
    <2> QED
        BY <2>1, Zenon DEF Active
<1>5. ASSUME NEW b \in Agent, ModifyAgent(b) PROVE Active(agents[a])
    <2>1. /\ agents'[b].revoked = agents[b].revoked
          /\ \A c \in Agent \ {b} : agents'[c] = agents[c]
        BY <1>0, <1>5, ModifyEffect, Zenon
    <2> QED
        BY <2>1, Zenon DEF Active
<1> QED
    BY <1>1, <1>2, <1>3, <1>4, <1>5, AgentsEffect, Zenon

(* A step without a fault. *)
Smooth(p) == Arrival(p) \/ RegisterStep(p) \/ AgentStep(p)

LEMMA NoFaultYet ==
    ASSUME TypeOK, Next, faults' = 0
    PROVE  /\ faults = 0
           /\ \/ \E p \in Handler : Smooth(p)
              \/ UNCHANGED handlerVars
<1>0. faults \in Nat
    BY DEF TypeOK
<1>1. ASSUME Fault PROVE FALSE
    BY <1>0, <1>1 DEF Fault
<1>2. ASSUME NEW p \in Handler, Smooth(p) PROVE UNCHANGED faults
    BY <1>2, Zenon DEF Smooth, Arrival, StartRegister, StartCreate, StartAgentRequest, Arrive,
       RegisterStep, Preview, Insert, Check, Select, Mark, Rollback, Diagnose, Answer,
       Return, AgentStep, Authenticate, CheckAcl, Deregister, RotateRead, RotateCas
<1>3. ASSUME NEW b \in Boot, Mint(b) \/ RevokeBoot(b)
      PROVE  UNCHANGED <<handlerVars, faults>>
    BY <1>3, Zenon DEF Mint, RevokeBoot
<1>4. ASSUME NEW a \in Agent, RevokeAgent(a) \/ ModifyAgent(a)
      PROVE  UNCHANGED <<handlerVars, faults>>
    BY <1>4, Zenon DEF RevokeAgent, ModifyAgent
<1>5. CASE Clock
    BY <1>5, Zenon DEF Clock
<1> QED
    BY <1>1, <1>2, <1>3, <1>4, <1>5, Zenon DEF Next, Step, Environment, Smooth, Arrival,
       StatementFails, Cancel, Crash

(* A registration goes on until its token is spent or its row revoked. *)
LEMMA RegistrationGoesOn ==
    ASSUME AgentInv, NEW p \in Handler, Smooth(p), pc[p] \in Registering,
           agents[acct[p]] # None, Active(agents[acct[p]]), Active(agents'[acct[p]]),
           via'[acct[p]] = None
    PROVE  pc'[p] \in Registering /\ acct'[p] = acct[p]
<1>0. TypeOK /\ Locals(p) /\ acct[p] \in Agent
    BY Zenon DEF AgentInv, LocalInv, Locals
<1>1. CASE Check(p) \/ Select(p)
    BY <1>0, <1>1, Zenon DEF Check, Select, Goto, TypeOK, Registering
<1>2. CASE Mark(p)
    <2>1. CASE via' = [via EXCEPT ![acct[p]] = input[p].boot]
        BY <1>0, <1>2, <2>1, ConstantsAssumption DEF Mark, TypeOK, Locals, Registering
    <2>2. CASE Goto(p, "rollback")
        BY <1>0, <1>2, <2>2, Zenon DEF Mark, Goto, TypeOK, Registering
    <2> QED
        BY <1>2, <2>1, <2>2, Zenon DEF Mark
<1>3. CASE Rollback(p)
    <2>1. agents'[acct[p]].revoked = TRUE
        BY <1>0, <1>3, RevokeRowEffect, Zenon DEF Rollback
    <2> QED
        BY <2>1, Zenon DEF Active
<1>4. pc[p] \in {"check", "select", "mark", "rollback"}
    BY Zenon DEF Registering
<1> QED
    BY <1>1, <1>2, <1>3, <1>4, Zenon DEF Smooth, Arrival, StartRegister, StartCreate,
       StartAgentRequest, Arrive, RegisterStep, Preview, Insert, Check, Select, Mark,
       Rollback, Diagnose, Answer, Return, AgentStep, Authenticate, CheckAcl, Deregister,
       RotateRead, RotateCas

LEMMA AnswerIsGiven ==
    ASSUME NEW p \in Handler, Smooth(p), pc[p] = "answer"
    PROVE  <<acct[p], hash[p]>> \in held' /\ UNCHANGED agents
BY Zenon DEF Smooth, Arrival, StartRegister, StartCreate, StartAgentRequest, Arrive,
   RegisterStep, Preview, Insert, Check, Select, Mark, Rollback, Diagnose, Answer, Return,
   AgentStep, Authenticate, CheckAcl, Deregister, RotateRead, RotateCas

(* What a client was told it was told. *)
LEMMA HeldGrows ==
    ASSUME Next PROVE held \subseteq held'
BY DEF Next, Step, Environment, StartRegister, StartCreate, StartAgentRequest, Arrive,
   RegisterStep, Preview, Insert, Check, Select, Mark, Rollback, Diagnose, Answer, Return,
   AgentStep, Authenticate, CheckAcl, Deregister, RotateRead, RotateCas, Mint, RevokeBoot,
   RevokeAgent, ModifyAgent, StatementFails, Cancel, Crash, Clock, histVars

----------------------------------------------------------------------------
(* As long as nothing fails. *)

LEMMA FaultFreeStep ==
    ASSUME AgentInv, Next PROVE FaultFreeInv'
<1> USE ConstantsAssumption
<1>0. TypeOK /\ LocalInv /\ RowInv /\ FaultFreeInv
    BY Zenon DEF AgentInv
<1>1. SUFFICES ASSUME faults' = 0, NEW a \in Agent, Active(agents'[a])
               PROVE  /\ via'[a] = None =>
                            \E p \in Handler : acct'[p] = a /\ pc'[p] \in Registering
                      /\ via'[a] # None =>
                            \/ <<a, agents'[a].secret>> \in held'
                            \/ \E p \in Handler : /\ pc'[p] = "answer" /\ acct'[p] = a
                                                  /\ hash'[p] = agents'[a].secret
    BY Zenon DEF FaultFreeInv, NobodyLockedOut
<1>2. /\ faults = 0
      /\ (\E p \in Handler : Smooth(p)) \/ UNCHANGED handlerVars
    BY <1>0, <1>1, NoFaultYet, Zenon
<1>3. \A q \in Handler : Same(q) \/ Smooth(q)
    <2>1. CASE UNCHANGED handlerVars
        BY <2>1, Zenon DEF Same, handlerVars
    <2>2. ASSUME NEW p \in Handler, Smooth(p) PROVE \A q \in Handler \ {p} : Same(q)
        BY <1>0, <2>2, OthersSame, Zenon DEF Smooth, HandlerStep
    <2> QED
        BY <1>2, <2>1, <2>2, Zenon
<1>4. CASE agents[a] = None
    <2>1. PICK p \in Handler : InsertRow(p)
        <3>1. agents'[a] # None
            BY <1>1, Zenon DEF Active
        <3>2. ASSUME NEW b \in Agent, agents[b] # None, RevokeRow(b) PROVE FALSE
            BY <1>0, <1>4, <3>1, <3>2, RevokeRowEffect, Zenon
        <3>3. ASSUME NEW b \in Agent, ModifyAgent(b) PROVE FALSE
            BY <1>0, <1>4, <3>1, <3>3, NoneAssumption, ModifyEffect, Zenon
        <3>4. ASSUME NEW p \in Handler, RotateSwap(p) PROVE FALSE
            <4>1. acct[p] \in Agent /\ issued + 1 \in Secret
                BY <1>0, <3>4 DEF RotateSwap, LocalInv, Locals, Serving, Identified,
                                  TypeOK, Secret
            <4> QED
                BY <1>0, <1>4, <3>1, <3>4, <4>1, ReplaceEffect, Zenon DEF RotateSwap
        <3> QED
            BY <1>4, <3>1, <3>2, <3>3, <3>4, AgentsEffect, Zenon
    <2>2. PICK b \in Agent :
             /\ agents[b] = None /\ agents'[b] # None /\ agents'[b].secret = issued + 1
             /\ agents'[b].revoked = FALSE
             /\ acct'[p] = b /\ hash'[p] = issued + 1
             /\ \A c \in Agent \ {b} : agents'[c] = agents[c] /\ via'[c] = via[c]
             /\ via'[b] = IF input[p].op = "create" THEN Operator ELSE via[b]
             /\ pc'[p] = IF input[p].op = "create" THEN "answer" ELSE "check"
        <3>1. Locals(p)
            BY <1>0, Zenon DEF LocalInv
        <3> QED
            BY <1>0, <2>1, <3>1, InsertEffect, Zenon
    <2>3. a = b /\ via[a] = None
        BY <1>0, <1>1, <1>4, <2>2, Zenon DEF Active, RowInv
    <2> QED
        BY <2>2, <2>3, Zenon DEF Registering
<1>5. CASE agents[a] # None
    <2>0. Active(agents[a])
        BY <1>1, <1>5, NeverRevived, Zenon
    <2>1. ASSUME via'[a] = None
          PROVE  \E p \in Handler : acct'[p] = a /\ pc'[p] \in Registering
        <3>1. via[a] = None
            <4>1. CASE CalmStep
                BY <2>1, <4>1, Zenon DEF CalmStep
            <4>2. ASSUME NEW p \in Handler, InsertRow(p) PROVE via[a] = None
                BY <1>0, <1>5, <2>1, <4>2, InsertEffect, Zenon DEF LocalInv
            <4>3. ASSUME NEW p \in Handler, SpendToken(p) PROVE via[a] = None
                BY <1>0, <2>1, <4>3 DEF SpendToken, TypeOK, LocalInv, Locals, RowInv,
                                        Registering
            <4>4. ASSUME NEW p \in Handler, RotateSwap(p) PROVE via[a] = None
                BY <2>1, <4>4, Zenon DEF RotateSwap
            <4> QED
                BY <4>1, <4>2, <4>3, <4>4, StepKinds, Zenon
        <3>2. PICK q \in Handler : acct[q] = a /\ pc[q] \in Registering
            BY <1>0, <1>2, <2>0, <3>1, Zenon DEF FaultFreeInv
        <3>3. CASE Same(q)
            BY <3>2, <3>3, Zenon DEF Same
        <3>4. CASE Smooth(q)
            BY <1>1, <1>5, <2>0, <2>1, <3>2, <3>4, RegistrationGoesOn, Zenon
        <3> QED
            BY <1>3, <3>3, <3>4, Zenon
    <2>2. ASSUME via'[a] # None
          PROVE  \/ <<a, agents'[a].secret>> \in held'
                 \/ \E p \in Handler : /\ pc'[p] = "answer" /\ acct'[p] = a
                                       /\ hash'[p] = agents'[a].secret
        <3>1. ASSUME via[a] # None, agents'[a].secret = agents[a].secret
              PROVE  \/ <<a, agents'[a].secret>> \in held'
                     \/ \E p \in Handler : /\ pc'[p] = "answer" /\ acct'[p] = a
                                           /\ hash'[p] = agents'[a].secret
            <4>1. CASE <<a, agents[a].secret>> \in held
                BY <3>1, <4>1, HeldGrows, Zenon
            <4>2. ASSUME NEW q \in Handler, pc[q] = "answer", acct[q] = a,
                         hash[q] = agents[a].secret
                  PROVE  \/ <<a, agents'[a].secret>> \in held'
                         \/ \E p \in Handler : /\ pc'[p] = "answer" /\ acct'[p] = a
                                               /\ hash'[p] = agents'[a].secret
                <5>1. CASE Same(q)
                    BY <3>1, <4>2, <5>1, Zenon DEF Same
                <5>2. CASE Smooth(q)
                    BY <3>1, <4>2, <5>2, AnswerIsGiven, Zenon
                <5> QED
                    BY <1>3, <5>1, <5>2, Zenon
            <4> QED
                BY <1>0, <1>2, <2>0, <3>1, <4>1, <4>2, Zenon DEF FaultFreeInv, NobodyLockedOut
        <3>2. CASE CalmStep
            BY <1>5, <2>2, <3>1, <3>2, Zenon DEF CalmStep, RowsKept
        <3>3. ASSUME NEW p \in Handler, InsertRow(p)
              PROVE  agents'[a].secret = agents[a].secret /\ via[a] # None
            BY <1>0, <1>5, <2>2, <3>3, InsertEffect, Zenon DEF LocalInv
        <3>4. ASSUME NEW p \in Handler, SpendToken(p)
              PROVE  \/ agents'[a].secret = agents[a].secret /\ via[a] # None
                     \/ /\ pc'[p] = "answer" /\ acct'[p] = a
                        /\ hash'[p] = agents'[a].secret
            <4>1. CASE acct[p] = a
                BY <1>0, <3>4, <4>1, Zenon DEF SpendToken, Goto, TypeOK, RowInv, Registering
            <4>2. CASE acct[p] # a
                BY <1>0, <2>2, <3>4, <4>2, Zenon DEF SpendToken, TypeOK
            <4> QED
                BY <4>1, <4>2, Zenon
        <3>5. ASSUME NEW p \in Handler, RotateSwap(p)
              PROVE  \/ agents'[a].secret = agents[a].secret /\ via[a] # None
                     \/ /\ pc'[p] = "answer" /\ acct'[p] = a
                        /\ hash'[p] = agents'[a].secret
            <4>1. acct[p] \in Agent /\ issued + 1 \in Secret
                BY <1>0, <3>5 DEF RotateSwap, LocalInv, Locals, Serving, Identified,
                                  TypeOK, Secret
            <4>2. /\ agents'[acct[p]].secret = issued + 1
                  /\ \A b \in Agent \ {acct[p]} : agents'[b] = agents[b]
                BY <1>0, <3>5, <4>1, ReplaceEffect, Zenon DEF RotateSwap
            <4>3. /\ pc'[p] = "answer" /\ acct'[p] = acct[p] /\ hash'[p] = issued + 1
                  /\ via' = via
                BY <1>0, <3>5, Zenon DEF RotateSwap, Goto, TypeOK
            <4> QED
                BY <2>2, <4>2, <4>3, Zenon
        <3> QED
            BY <3>1, <3>2, <3>3, <3>4, <3>5, StepKinds, Zenon
    <2> QED
        BY <2>1, <2>2, Zenon
<1> QED
    BY <1>4, <1>5, Zenon

----------------------------------------------------------------------------
(* The invariant. *)

LEMMA AgentInvInit == Init => AgentInv
<1> SUFFICES ASSUME Init PROVE AgentInv
    OBVIOUS
<1> USE ConstantsAssumption
<1>1. TypeOK
    BY DEF Init, TypeOK, Pc
<1>2. LocalInv
    BY Zenon DEF Init, LocalInv, Locals, Registering, Serving, Identified
<1>3. RowInv
    BY Zenon DEF Init, RowInv, Registering, Serving, Identified
<1>4. TokenInv
    BY Zenon DEF Init, TokenInv, Blame
<1>5. SecretInv
    BY Zenon DEF Init, SecretInv, OneHeir
<1>6. GrantInv
    BY Zenon DEF Init, GrantInv, PastTheTest, Entitled, CallInOrder, TokenInOrder
<1>7. FaultFreeInv
    BY Zenon DEF Init, FaultFreeInv, NobodyLockedOut, Active
<1> QED
    BY <1>1, <1>2, <1>3, <1>4, <1>5, <1>6, <1>7, Zenon DEF AgentInv

LEMMA AgentInvStep == AgentInv /\ [Next]_vars => AgentInv'
<1>1. ASSUME AgentInv, Next PROVE AgentInv'
    <2>1. TypeOK'
        BY <1>1, TypeStep, Zenon
    <2>2. LocalInv'
        BY <1>1, <2>1, LocalStep, Zenon
    <2> QED
        BY <1>1, <2>1, <2>2, RowStep, TokenStep, SecretStep, GrantStep, FaultFreeStep, Zenon
        DEF AgentInv
<1>2. ASSUME AgentInv, UNCHANGED vars PROVE AgentInv'
    <2> USE <1>2 DEF vars, handlerVars, histVars
    <2>1. TypeOK' /\ LocalInv'
        BY Zenon DEF AgentInv, TypeOK, LocalInv, Locals
    <2>2. RowInv' /\ TokenInv' /\ SecretInv'
        BY Zenon DEF AgentInv, RowInv, TokenInv, Blame, SecretInv, OneHeir
    <2>3. GrantInv'
        BY DEF AgentInv, GrantInv, PastTheTest, Entitled, CallInOrder, TokenInOrder,
               Refusal, Expired, Active, Allows
    <2>4. FaultFreeInv'
        BY Zenon DEF AgentInv, FaultFreeInv, NobodyLockedOut, Active
    <2> QED
        BY <2>1, <2>2, <2>3, <2>4, Zenon DEF AgentInv
<1> QED
    BY <1>1, <1>2, Zenon

(* At every step of every execution the tables, the locals of the handlers *)
(* and the history are consistent: types, single secrets, tokens spent by  *)
(* one agent, nobody locked out of an agent while nothing fails.           *)
THEOREM Consistency == Spec => []AgentInv
BY AgentInvInit, AgentInvStep, PTL DEF Spec

----------------------------------------------------------------------------
(* What follows from it. *)

(* Registrations that race for a single-use token: consume's conditional   *)
(* UPDATE lets one of them through.                                        *)
THEOREM SingleUse_Holds == Spec => []SingleUseEnrolsOnce
<1>1. AgentInv => SingleUseEnrolsOnce
    BY Zenon DEF AgentInv, TokenInv, SingleUseEnrolsOnce
<1> QED
    BY <1>1, Consistency, PTL

(* A registration is all or nothing: a secret is handed out only with the  *)
(* enrolment, and while no statement, request or process fails a refused   *)
(* one leaves no usable row.                                               *)
THEOREM Whole_Holds == Spec => []EnrolmentIsWhole
<1>1. AgentInv => HeldIsEnrolled
    BY Zenon DEF AgentInv, RowInv, HeldIsEnrolled
<1>2. AgentInv => NoOrphan
    BY Zenon DEF AgentInv, FaultFreeInv, NoOrphan, Registering
<1> QED
    BY <1>1, <1>2, Consistency, PTL DEF EnrolmentIsWhole

(* A registration succeeds only if its token was acceptable at some moment *)
(* after the agent's row was inserted, whatever preview_scope had found.   *)
THEOREM GoodFaith_Holds == Spec => []EnrolledInGoodFaith
<1>1. AgentInv => EnrolledInGoodFaith
    BY Zenon DEF AgentInv, GrantInv, PastTheTest, EnrolledInGoodFaith
<1> QED
    BY <1>1, Consistency, PTL

(* A call is admitted only if its secret and the policy in force were in   *)
(* order at some moment of the request.                                    *)
THEOREM Admitted_Holds == Spec => []AdmittedWasEntitled
<1>1. AgentInv => AdmittedWasEntitled
    BY Zenon DEF AgentInv, GrantInv, PastTheTest, AdmittedWasEntitled
<1> QED
    BY <1>1, Consistency, PTL

(* A registration refused for a used or revoked token is audited as a      *)
(* security event, although diagnose looks the token up again.             *)
THEOREM Reported_Holds == Spec => []ReuseIsReported
<1>1. AgentInv => ReuseIsReported
    BY Zenon DEF AgentInv, TokenInv, Blame, ReuseIsReported
<1> QED
    BY <1>1, Consistency, PTL

(* While no answer is lost, races of rotations lock nobody out. *)
THEOREM LockOut_Holds == Spec => []NobodyLockedOut
<1>1. AgentInv => NobodyLockedOut
    BY Zenon DEF AgentInv, FaultFreeInv
<1> QED
    BY <1>1, Consistency, PTL

----------------------------------------------------------------------------
(* The registry implements AgentEnrolment. *)

LEMMA EnrolmentInit == Init => Enrolment!Init
BY Zenon DEF Init, Enrolment!Init, Member

(* A step that changes no secret, no revocation and no enrolment. *)
LEMMA MemberSame ==
    ASSUME via' = via, issued' = issued,
           \A a \in Agent : via[a] # None => /\ agents'[a].secret = agents[a].secret
                                             /\ agents'[a].revoked = agents[a].revoked
    PROVE  UNCHANGED <<Member, via, issued>>
BY Zenon DEF Member

LEMMA InsertImplements ==
    ASSUME AgentInv, NEW p \in Handler, InsertRow(p) PROVE Enrolment!Next
<1> USE ConstantsAssumption
<1>0. TypeOK /\ LocalInv /\ RowInv /\ SecretInv /\ issued \in Nat /\ issued' = issued + 1
    BY DEF AgentInv, TypeOK, InsertRow
<1>1. PICK a \in Agent :
             /\ agents[a] = None /\ agents'[a].secret = issued + 1
             /\ agents'[a].revoked = FALSE
             /\ \A b \in Agent \ {a} : agents'[b] = agents[b] /\ via'[b] = via[b]
             /\ via'[a] = IF input[p].op = "create" THEN Operator ELSE via[a]
    BY <1>0, InsertEffect, Zenon DEF LocalInv
<1>2. via[a] = None /\ Operator # None /\ Operator \notin SingleUse
    BY <1>0, <1>1, Zenon DEF RowInv
<1>3. CASE input[p].op # "create"
    <2>1. via' = via
        BY <1>3, Zenon DEF InsertRow
    <2>2. Member' = Member
        BY <1>1, <1>2, <2>1, Zenon DEF Member
    <2> QED
        BY <1>0, <2>1, <2>2 DEF Enrolment!Next, Enrolment!Draw
<1>4. CASE input[p].op = "create"
    <2>1. via' = [via EXCEPT ![a] = Operator]
        BY <1>0, <1>1, <1>4, Zenon DEF InsertRow, TypeOK
    <2>2. Member' = [Member EXCEPT ![a] = [secret |-> issued + 1, expelled |-> FALSE]]
        BY <1>1, <1>2, <1>4, Zenon DEF Member
    <2>3. ~Enrolment!InUse(issued + 1)
        BY <1>0 DEF SecretInv, RowInv, Enrolment!InUse, Member
    <2>4. ~Enrolment!Spent(Operator)
        BY <1>2, Zenon DEF Enrolment!Spent
    <2>5. Enrolment!Enrol(a, Operator)
        <3>1. issued + 1 \in 1..issued' /\ FALSE \in BOOLEAN /\ issued' >= issued
            BY <1>0
        <3>2. \E k \in 1..issued', expelled \in BOOLEAN :
                /\ ~Enrolment!InUse(k)
                /\ Member' = [Member EXCEPT ![a] = [secret |-> k, expelled |-> expelled]]
            BY <2>2, <2>3, <3>1, Zenon
        <3> QED
            BY <1>2, <2>1, <2>4, <3>1, <3>2, Zenon DEF Enrolment!Enrol
    <2> QED
        BY <2>5, Zenon DEF Enrolment!Next
<1> QED
    BY <1>3, <1>4, Zenon

LEMMA SpendImplements ==
    ASSUME AgentInv, NEW p \in Handler, SpendToken(p) PROVE Enrolment!Next
<1> USE ConstantsAssumption
<1>0. /\ TypeOK /\ LocalInv /\ RowInv /\ TokenInv /\ SecretInv
      /\ issued' = issued /\ agents' = agents /\ issued \in Nat
    BY DEF AgentInv, TypeOK, SpendToken
<1> DEFINE a == acct[p]
           b == input[p].boot
<1>1. /\ a \in Agent /\ b \in Boot /\ via[a] = None /\ agents[a] # None
    BY <1>0, Zenon DEF SpendToken, LocalInv, Locals, RowInv, Registering
<1>2. agents[a] \in AgentRow
    BY <1>0, <1>1, Zenon DEF TypeOK
<1>3. agents[a].secret \in 1..issued /\ agents[a].revoked \in BOOLEAN
    <2>1. agents[a].secret \in Secret /\ agents[a].revoked \in BOOLEAN
        BY <1>2, Zenon DEF AgentRow
    <2>2. agents[a].secret <= issued
        BY <1>0, <1>1, Zenon DEF SecretInv
    <2> QED
        BY <1>0, <2>1, <2>2 DEF Secret
<1>4. via' = [via EXCEPT ![a] = b]
    BY Zenon DEF SpendToken
<1>5. Member' = [Member EXCEPT ![a] = [secret |-> agents[a].secret,
                                       expelled |-> agents[a].revoked]]
    BY <1>0, <1>1, <1>4, Zenon DEF Member, TypeOK
<1>6. ~Enrolment!Spent(b)
    BY <1>0 DEF SpendToken, TokenInv, Enrolment!Spent
<1>7. ~Enrolment!InUse(agents[a].secret)
    BY <1>0, <1>1, Zenon DEF SecretInv, RowInv, Enrolment!InUse, Member
<1>8. Enrolment!Enrol(a, b)
    <2>1. issued' >= issued /\ 1..issued' = 1..issued
        BY <1>0
    <2>2. \E k \in 1..issued', expelled \in BOOLEAN :
            /\ ~Enrolment!InUse(k)
            /\ Member' = [Member EXCEPT ![a] = [secret |-> k, expelled |-> expelled]]
        BY <1>3, <1>5, <1>7, <2>1, Zenon
    <2> QED
        BY <1>1, <1>4, <1>6, <2>1, <2>2, Zenon DEF Enrolment!Enrol
<1> QED
    BY <1>1, <1>8, Zenon DEF Enrolment!Next

LEMMA SwapImplements ==
    ASSUME AgentInv, NEW p \in Handler, RotateSwap(p) PROVE Enrolment!Next
<1> USE ConstantsAssumption
<1>0. TypeOK /\ LocalInv /\ RowInv /\ issued \in Nat /\ issued' = issued + 1 /\ via' = via
    BY DEF AgentInv, TypeOK, RotateSwap
<1> DEFINE a == acct[p]
<1>1. /\ a \in Agent /\ via[a] # None /\ agents[a] # None /\ ~agents[a].revoked
      /\ issued + 1 \in Secret
    BY <1>0 DEF RotateSwap, LocalInv, Locals, RowInv, Serving, Identified, TypeOK, Secret
<1>2. /\ agents'[a].secret = issued + 1 /\ agents'[a].revoked = agents[a].revoked
      /\ \A b \in Agent \ {a} : agents'[b] = agents[b]
    BY <1>0, <1>1, ReplaceEffect, Zenon DEF RotateSwap
<1>3. Member[a] = [secret |-> agents[a].secret, expelled |-> agents[a].revoked]
    BY <1>1, Zenon DEF Member
<1>4. Member[a] # None /\ ~Member[a].expelled
    <2>1. agents[a].secret \in Secret /\ agents[a].revoked \in BOOLEAN
        BY <1>0, <1>1 DEF TypeOK, AgentRow
    <2> QED
        BY <1>1, <1>3, <2>1, NoneAssumption
<1>5. Member' = [Member EXCEPT ![a] = [secret |-> issued + 1, expelled |-> agents[a].revoked]]
    BY <1>0, <1>1, <1>2, Zenon DEF Member
<1>6. [Member[a] EXCEPT !.secret = issued + 1]
            = [secret |-> issued + 1, expelled |-> agents[a].revoked]
    BY <1>3
<1>7. Member' = [Member EXCEPT ![a].secret = issued']
    BY <1>0, <1>5, <1>6, Zenon
<1>8. Enrolment!Replace(a)
    BY <1>0, <1>4, <1>7 DEF Enrolment!Replace
<1> QED
    BY <1>1, <1>8, Zenon DEF Enrolment!Next

LEMMA RevokeImplements ==
    ASSUME AgentInv, NEW a \in Agent, agents[a] # None, RevokeRow(a), via' = via,
           issued' = issued
    PROVE  [Enrolment!Next]_<<Member, via, issued>>
<1>0. TypeOK
    BY Zenon DEF AgentInv
<1>1. /\ agents'[a].revoked = TRUE /\ agents'[a].secret = agents[a].secret
      /\ \A b \in Agent \ {a} : agents'[b] = agents[b]
    BY <1>0, RevokeRowEffect, Zenon
<1>2. CASE via[a] = None
    BY <1>1, <1>2, MemberSame, Zenon
<1>3. CASE via[a] # None
    <2>1. Member[a] = [secret |-> agents[a].secret, expelled |-> agents[a].revoked]
        BY <1>3, Zenon DEF Member
    <2>2. Member[a] # None
        <3>1. agents[a].secret \in Secret /\ agents[a].revoked \in BOOLEAN
            BY <1>0, Zenon DEF TypeOK, AgentRow
        <3> QED
            BY <2>1, <3>1, NoneAssumption
    <2>3. Member' = [Member EXCEPT ![a] = [secret |-> agents[a].secret, expelled |-> TRUE]]
        BY <1>1, <1>3, Zenon DEF Member
    <2>4. Enrolment!Expel(a)
        BY <2>1, <2>2, <2>3 DEF Enrolment!Expel
    <2> QED
        BY <2>4, Zenon DEF Enrolment!Next
<1> QED
    BY <1>2, <1>3, Zenon

LEMMA EnrolmentStep ==
    ASSUME AgentInv, Next PROVE [Enrolment!Next]_<<Member, via, issued>>
<1>0. TypeOK
    BY Zenon DEF AgentInv
<1>1. CASE \E p \in Handler : InsertRow(p) \/ SpendToken(p) \/ RotateSwap(p)
    BY <1>1, InsertImplements, SpendImplements, SwapImplements, Zenon
<1>2. CASE CalmStep /\ ~\E p \in Handler : InsertRow(p) \/ SpendToken(p) \/ RotateSwap(p)
    <2>1. via' = via /\ issued' = issued
        BY <1>2, Zenon DEF CalmStep, RowsKept
    <2>2. CASE UNCHANGED agents
        BY <2>1, <2>2, MemberSame, Zenon
    <2>3. ASSUME NEW a \in Agent, agents[a] # None, RevokeRow(a)
          PROVE  [Enrolment!Next]_<<Member, via, issued>>
        BY <2>1, <2>3, RevokeImplements, Zenon
    <2>4. ASSUME NEW a \in Agent, ModifyAgent(a)
          PROVE  UNCHANGED <<Member, via, issued>>
        <3>1. \A b \in Agent : /\ agents'[b].secret = agents[b].secret
                               /\ agents'[b].revoked = agents[b].revoked
            BY <1>0, <2>4, ModifyEffect, Zenon
        <3> QED
            BY <2>1, <3>1, MemberSame, Zenon
    <2> QED
        BY <1>2, <2>2, <2>3, <2>4, AgentsEffect, Zenon
<1> QED
    BY <1>1, <1>2, StepKinds, Zenon

(* Seen by its clients the registry works one whole operation at a time:   *)
(* every step enrols, replaces, expels, draws a secret, or shows nothing.  *)
THEOREM Refinement == Spec => ImplementsEnrolment
<1>1. AgentInv /\ [Next]_vars => [Enrolment!Next]_<<Member, via, issued>>
    <2>1. ASSUME AgentInv, UNCHANGED vars PROVE UNCHANGED <<Member, via, issued>>
        BY <2>1, Zenon DEF vars, histVars, Member
    <2> QED
        BY <2>1, EnrolmentStep, Zenon
<1> QED
    BY <1>1, EnrolmentInit, Consistency, PTL DEF Spec, ImplementsEnrolment, Enrolment!Spec

============================================================================
