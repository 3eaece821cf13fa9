----------------------- MODULE OauthSessions_proofs -----------------------
(***************************************************************************)
(* The theorems about OauthSessions: its safety, the fate of a revoked     *)
(* session and of a spent refresh token, and that it implements            *)
(* OauthLifecycle, for any number of registrations, labels, requests,      *)
(* tokens and faults.                                                      *)
(*                                                                         *)
(* First what each statement and scope exit does, then the three parts of  *)
(* SafetyInv, step by step: the types; LockInv, by which a task inside a   *)
(* critical section holds the lock of the session it works on; and GenInv, *)
(* by which it works on the incarnation that its key finds, or on none.    *)
(* Then TokenInv, by which a refresh token is in one place only and a      *)
(* token that is no longer in force is attended to; and the refinement.    *)
(***************************************************************************)
EXTENDS OauthInvariants, TLAPS

----------------------------------------------------------------------------
(* What the statements and the scope exits do. *)

(* The three kinds of task are tasks. *)
LEMMA Tasks ==
    Refresher \in Proc /\ Proxy \subseteq Proc /\ Operator \subseteq Proc
BY Zenon DEF Proc

(* update_tokens changes at most the row its key finds, keeps that row's   *)
(* incarnation and clears its degraded flag.                               *)
LEMMA UpdateTokensEffect ==
    ASSUME TypeOK, NEW s \in Session,
           NEW r \in Response, UpdateTokens(s, r)
    PROVE  /\ row' \in [Session -> Row \cup {None}]
           /\ \A t \in Session \ {s} : row'[t] = row[t]
           /\ row[s] = None => row'[s] = None
           /\ row[s] # None =>
                /\ row'[s] \in Row
                /\ row'[s].gen = row[s].gen /\ row'[s].exp = r.exp
                /\ row'[s].rt = (IF r.rt = None THEN row[s].rt ELSE r.rt)
                /\ row'[s].degraded = FALSE
<1>1. CASE row[s] = None
    BY <1>1, Zenon DEF UpdateTokens, TypeOK
<1>2. CASE row[s] # None
    <2>1. row[s] \in Row
        BY <1>2, Zenon DEF TypeOK
    <2> DEFINE new == [gen |-> row[s].gen, 
                       rt |-> IF r.rt = None THEN row[s].rt ELSE r.rt,
                       exp |-> r.exp, degraded |-> FALSE]
    <2>2. row' = [row EXCEPT ![s] = new]
        BY <1>2, <2>1, Zenon DEF UpdateTokens
    <2>3. new \in Row
        BY <2>1, Zenon DEF Row, Response
    <2> QED
        BY <1>2, <2>2, <2>3, Zenon DEF TypeOK
<1> QED
    BY <1>1, <1>2, Zenon

(* mark_degraded changes at most the degraded flag of one row. *)
LEMMA MarkDegradedEffect ==
    ASSUME TypeOK, NEW s \in Session, MarkDegraded(s)
    PROVE  /\ row' \in [Session -> Row \cup {None}]
           /\ \A t \in Session \ {s} : row'[t] = row[t]
           /\ row[s] = None => row'[s] = None
           /\ row[s] # None =>
                /\ row'[s] \in Row
                /\ row'[s].gen = row[s].gen /\ row'[s].exp = row[s].exp
                /\ row'[s].rt = row[s].rt /\ row'[s].degraded = TRUE
<1>1. CASE row[s] = None
    BY <1>1, Zenon DEF MarkDegraded, TypeOK
<1>2. CASE row[s] # None
    <2>1. row[s] \in Row
        BY <1>2, Zenon DEF TypeOK
    <2> QED
        BY <1>2, <2>1, Zenon DEF MarkDegraded, TypeOK, Row
<1> QED
    BY <1>1, <1>2, Zenon

(* delete removes one row and remembers its incarnation. *)
LEMMA DeleteEffect ==
    ASSUME TypeOK, NEW s \in Session, Delete(s)
    PROVE  /\ row' \in [Session -> Row \cup {None}]
           /\ \A t \in Session \ {s} : row'[t] = row[t]
           /\ row'[s] = None
           /\ gone' \subseteq Token /\ gone \subseteq gone'
           /\ row[s] # None => gone' = gone \cup {row[s].gen}
           /\ row[s] = None => gone' = gone
BY Zenon DEF Delete, TypeOK, Row

(* Dropping a task's locals is well typed. *)
LEMMA DropEffect ==
    ASSUME TypeOK, NEW p \in Proc, NEW label \in Pc, Drop(p, label)
    PROVE  /\ pc' \in [Proc -> Pc] /\ pc'[p] = label
           /\ job' \in [Proc -> Session \cup {None}] /\ job'[p] = None
           /\ seen' \in [Proc -> Row \cup {None}]
           /\ resp' \in [Proc -> Response \cup {None}]
           /\ ignored' \in [Proc -> SUBSET Token] /\ ignored'[p] = {}
           /\ \A q \in Proc \ {p} :
                /\ pc'[q] = pc[q] /\ job'[q] = job[q] /\ seen'[q] = seen[q]
                /\ resp'[q] = resp[q] /\ ignored'[q] = ignored[q]
BY Zenon DEF Drop, TypeOK

(* Leaving a critical section frees that session's lock and no other. *)
LEMMA LeaveEffect ==
    ASSUME TypeOK, NEW p \in Proc, job[p] \in Session,
           NEW answer \in Pc, Leave(p, answer)
    PROVE  /\ holder' \in [Session -> Proc \cup {None}]
           /\ holder'[job[p]] = None
           /\ \A s \in Session \ {job[p]} : holder'[s] = holder[s]
           /\ Drop(p, IF p = Refresher THEN "next" ELSE answer)
BY Zenon DEF Leave, TypeOK

(* What the lock invariant says of a task inside its critical section. *)
LEMMA InHand ==
    ASSUME SafetyInv, NEW p \in Proc
    PROVE  /\ TypeOK
           /\ pc[p] = "wait" \/ Critical(p) =>
                job[p] \in Session /\ row[job[p]] \in Row \cup {None}
           /\ HasSession(p) => seen[p] \in Row /\ seen[p].rt \in Token
           /\ pc[p] = "persist" => resp[p] \in Response
BY DEF SafetyInv, LockInv, TypeOK, Row

----------------------------------------------------------------------------
(* Type correctness is preserved. *)
LEMMA TypeStep == SafetyInv /\ [Next]_vars => TypeOK'
<1> SUFFICES ASSUME SafetyInv, [Next]_vars PROVE TypeOK'
    OBVIOUS
<1> USE ConstantsAssumption, Tasks
<1>0. TypeOK
    BY Zenon DEF SafetyInv
<1>1. ASSUME NEW p \in Proxy, ProxyStart(p) PROVE TypeOK'
    BY <1>0, <1>1 DEF TypeOK, ProxyStart, Pc, regVars, batchVars, providerVars
<1>2. ASSUME NEW p \in Operator, BootstrapStart(p) PROVE TypeOK'
    <2>1. issued' \in 0..MaxToken /\ issued + 1 \in Token
        BY <1>0, <1>2 DEF TypeOK, BootstrapStart, Token
    <2>2. seen' \in [Proc -> Row \cup {None}]
        BY <1>0, <1>2, <2>1, Zenon DEF TypeOK, BootstrapStart, Row
    <2> QED
        BY <1>0, <1>2, <2>1, <2>2 DEF TypeOK, BootstrapStart, Pc, regVars, batchVars
<1>3. CASE Tick
    <2>1. pending' \subseteq Batch
        BY <1>0, <1>3 DEF TypeOK, Tick, Row, Batch, Healthy, PendingRefresh
    <2>2. threshold' \in Nat
        BY <1>0, <1>3 DEF TypeOK, Tick
    <2> QED
        BY <1>0, <1>3, <2>1, <2>2, Zenon DEF TypeOK, Tick, Pc, regVars, providerVars
<1>4. CASE LoadCatalog
    BY <1>0, <1>4, Zenon DEF TypeOK, LoadCatalog, Pc, regVars, providerVars
<1>5. CASE NextItem
    BY <1>0, <1>5, Zenon DEF TypeOK, NextItem, Pc, Batch, regVars, providerVars
<1>6. CASE EndBatch
    BY <1>0, <1>6, DropEffect, Zenon DEF TypeOK, EndBatch, Pc, regVars, providerVars
<1>7. ASSUME NEW p \in Proc, Lock(p) PROVE TypeOK'
    BY <1>0, <1>7, InHand, Zenon DEF TypeOK, Lock, Pc, regVars, batchVars, providerVars
<1>8. ASSUME NEW p \in Proc, ProxyGet(p) PROVE TypeOK'
    <2>1. job[p] \in Session /\ row[job[p]] \in Row \cup {None}
        BY <1>8, InHand, Zenon DEF ProxyGet, Critical
    <2>2. ASSUME NEW a \in Pc, Leave(p, a) PROVE TypeOK'
        BY <1>0, <1>8, <2>1, <2>2, LeaveEffect, DropEffect, "next" \in Pc
        DEF TypeOK, ProxyGet, regVars, batchVars, providerVars, Pc
    <2>3. CASE Goto(p, "send") /\ UNCHANGED resp /\ Healthy(row[job[p]])
               /\ seen' = [seen EXCEPT ![p] = row[job[p]]]
        BY <1>0, <1>8, <2>1, <2>3, Zenon
        DEF TypeOK, ProxyGet, Goto, Pc, Healthy, regVars, batchVars, providerVars
    <2> QED
        BY <1>8, <2>2, <2>3, Zenon DEF ProxyGet, Pc
<1>9. CASE RefresherGet
    <2>1. job[Refresher] \in Session /\ row[job[Refresher]] \in Row \cup {None}
        BY <1>9, InHand, Zenon DEF RefresherGet, Critical
    <2>2. CASE Leave(Refresher, "next")
        BY <1>0, <1>9, <2>1, <2>2, LeaveEffect, DropEffect, Zenon
        DEF TypeOK, RefresherGet, regVars, batchVars, providerVars, Pc
    <2>3. CASE Goto(Refresher, "send") /\ UNCHANGED resp
               /\ seen' = [seen EXCEPT ![Refresher] = row[job[Refresher]]]
        BY <1>0, <1>9, <2>1, <2>3, Zenon
        DEF TypeOK, RefresherGet, Goto, Pc, regVars, batchVars, providerVars
    <2> QED
        BY <1>9, <2>2, <2>3, Zenon DEF RefresherGet
<1>10. ASSUME NEW p \in Proc, Create(p) PROVE TypeOK'
    <2>1. job[p] \in Session
        BY <1>10, InHand, Zenon DEF Create, Critical
    <2>2. CASE Leave(p, "conflict") /\ UNCHANGED row
        BY <1>0, <1>10, <2>1, <2>2, LeaveEffect, DropEffect, Zenon
        DEF TypeOK, Create, regVars, batchVars, providerVars, Pc
    <2>3. CASE Goto(p, "send") /\ UNCHANGED <<seen, resp>>
               /\ row' = [row EXCEPT ![job[p]] = seen[p]]
        BY <1>0, <1>10, <2>1, <2>3, Zenon
        DEF TypeOK, Create, Goto, Pc, regVars, batchVars, providerVars
    <2> QED
        BY <1>10, <2>2, <2>3, Zenon DEF Create, Insert
<1>11. ASSUME NEW p \in Proc, Send(p) PROVE TypeOK'
    BY <1>0, <1>11, Zenon DEF TypeOK, Send, Goto, Pc, regVars, batchVars, providerVars
<1>12. ASSUME NEW p \in Proc, Exchange(p) PROVE TypeOK'
    <2>1. seen[p].rt \in Token
        BY <1>12, InHand, Zenon DEF Exchange, HasSession
    <2>2. issued' \in 0..MaxToken /\ spent' \subseteq Token
        BY <1>0, <1>12, <2>1 DEF TypeOK, Exchange, providerVars
    <2>3. resp' \in [Proc -> Response \cup {None}]
        <3>1. PICK life \in Lifetime :
                 \/ /\ issued < MaxToken
                    /\ resp' = [resp EXCEPT ![p] = [exp |-> now + life,
                                                    rt |-> issued + 1]]
                 \/ resp' = [resp EXCEPT ![p] = [exp |-> now + life, rt |-> None]]
            BY <1>12, Zenon DEF Exchange
        <3>2. now + life \in Nat /\ (issued < MaxToken => issued + 1 \in Token)
            BY <1>0, <3>1 DEF TypeOK, Token
        <3> QED
            BY <1>0, <3>1, <3>2 DEF TypeOK, Response
    <2> QED
        BY <1>0, <1>12, <2>2, <2>3, Zenon DEF TypeOK, Exchange, Goto, Pc, regVars, batchVars
<1>13. ASSUME NEW p \in Proc, ExchangeFails(p) PROVE TypeOK'
    <2>1. seen[p].rt \in Token
        BY <1>13, InHand, Zenon DEF ExchangeFails, HasSession
    <2> QED
        BY <1>0, <1>13, <2>1, Zenon
        DEF TypeOK, ExchangeFails, Goto, Pc, regVars, batchVars
<1>14. ASSUME NEW p \in Proc, Persist(p) PROVE TypeOK'
    <2>1. job[p] \in Session /\ resp[p] \in Response
        BY <1>14, InHand, Zenon DEF Persist, Critical
    <2>2. row' \in [Session -> Row \cup {None}]
        BY <1>0, <1>14, <2>1, UpdateTokensEffect, Zenon DEF Persist
    <2> QED
        BY <1>0, <1>14, <2>2, Zenon
        DEF TypeOK, Persist, Goto, Pc, regVars, batchVars, providerVars
<1>15. ASSUME NEW p \in Proc, ReadBack(p) PROVE TypeOK'
    <2>1. job[p] \in Session
        BY <1>15, InHand, Zenon DEF ReadBack, Critical
    <2>2. ASSUME NEW a \in Pc, Leave(p, a) PROVE TypeOK'
        BY <1>0, <1>15, <2>1, <2>2, LeaveEffect, DropEffect, "next" \in Pc
        DEF TypeOK, ReadBack, regVars, batchVars, providerVars, Pc
    <2>3. CASE Goto(p, "fail") /\ UNCHANGED <<seen, resp>>
        BY <1>0, <1>15, <2>3, Zenon
        DEF TypeOK, ReadBack, Goto, Pc, regVars, batchVars, providerVars
    <2> QED
        BY <1>15, <2>2, <2>3, Zenon DEF ReadBack, Pc
<1>16. ASSUME NEW p \in Proc, Fail(p) PROVE TypeOK'
    <2>1. job[p] \in Session
        BY <1>16, InHand, Zenon DEF Fail, Critical
    <2>2. row' \in [Session -> Row \cup {None}] /\ gone' \subseteq Token
        BY <1>0, <1>16, <2>1, MarkDegradedEffect, DeleteEffect, Zenon DEF Fail, TypeOK
    <2> QED
        BY <1>0, <1>16, <2>1, <2>2, LeaveEffect, DropEffect, Zenon
        DEF TypeOK, Fail, regVars, batchVars, providerVars, Pc
<1>17. ASSUME NEW p \in Proc, Return(p) PROVE TypeOK'
    BY <1>0, <1>17, Zenon DEF TypeOK, Return, Pc, regVars, batchVars, providerVars
<1>18. ASSUME NEW p \in Proc, StatementFails(p) PROVE TypeOK'
    <2>1. faults' \in 0..MaxFault
        BY <1>0, <1>18 DEF TypeOK, StatementFails, Fault
    <2>2. lost' \subseteq Token
        BY <1>0, <1>18, InHand DEF TypeOK, StatementFails, HasSession
    <2>3. CASE Critical(p) /\ Leave(p, "idle")
        <3>1. job[p] \in Session
            BY <2>3, InHand, Zenon
        <3> QED
            BY <1>0, <1>18, <2>1, <2>2, <2>3, <3>1, LeaveEffect, DropEffect, Zenon
            DEF TypeOK, StatementFails, regVars, batchVars, providerVars, Pc
    <2>4. CASE Goto(p, "fail") /\ UNCHANGED <<seen, resp>>
        BY <1>0, <1>18, <2>1, <2>2, <2>4, Zenon
        DEF TypeOK, StatementFails, Goto, Pc, regVars, batchVars, providerVars
    <2> QED
        BY <1>18, <2>3, <2>4, Zenon DEF StatementFails, Critical
<1>19. ASSUME NEW p \in Proc, Cancel(p) PROVE TypeOK'
    <2>1. faults' \in 0..MaxFault
        BY <1>0, <1>19 DEF TypeOK, Cancel, Fault
    <2>2. spent' \subseteq Token /\ lost' \subseteq Token
        BY <1>0, <1>19, InHand DEF TypeOK, Cancel, Stranded, Interrupted, HasSession
    <2>3. holder' \in [Session -> Proc \cup {None}]
        BY <1>0, <1>19, Zenon DEF TypeOK, Cancel
    <2> QED
        BY <1>0, <1>19, <2>1, <2>2, <2>3, DropEffect, Zenon
        DEF TypeOK, Cancel, regVars, batchVars, Pc
<1>20. CASE Crash
    <2>1. faults' \in 0..MaxFault
        BY <1>0, <1>20 DEF TypeOK, Crash, Fault
    <2>2. spent' \subseteq Token /\ lost' \subseteq Token
        BY <1>0, <1>20, InHand DEF TypeOK, Crash, Stranded, Interrupted, HasSession
    <2> QED
        BY <1>0, <1>20, <2>1, <2>2, Zenon DEF TypeOK, Crash, Pc
<1>21. ASSUME NEW s \in Session, Revoke(s) PROVE TypeOK'
    BY <1>0, <1>21, DeleteEffect, Zenon
    DEF TypeOK, Revoke, regVars, taskVars, batchVars, providerVars
<1>22. ASSUME NEW n \in Name, EditRegistration(n) PROVE TypeOK'
    BY <1>0, <1>22 DEF TypeOK, EditRegistration, taskVars, batchVars, providerVars
<1>23. CASE ReloadCatalog
    BY <1>0, <1>23, Zenon DEF TypeOK, ReloadCatalog, taskVars, batchVars, providerVars
<1>24. CASE Clock
    BY <1>0, <1>24 DEF TypeOK, Clock, regVars, taskVars, batchVars, providerVars
<1>25. CASE UNCHANGED vars
    BY <1>0, <1>25, Zenon DEF TypeOK, vars, regVars, taskVars, batchVars, providerVars
<1> QED
    BY <1>1, <1>2, <1>3, <1>4, <1>5, <1>6, <1>7, <1>8, <1>9, <1>10, <1>11,
       <1>12, <1>13, <1>14, <1>15, <1>16, <1>17, <1>18, <1>19, <1>20, <1>21,
       <1>22, <1>23, <1>24, <1>25, Zenon
    DEF Next, TaskStep, RefreshStep, RefresherStep, Environment

----------------------------------------------------------------------------
(* The lock invariant is preserved. *)

(* Leaving a critical section keeps it. *)
LEMMA LeaveKeepsLockInv ==
    ASSUME SafetyInv, NEW p \in Proc, Critical(p),
           NEW answer \in {"idle", "served", "conflict", "next"},
           answer = "next" => p = Refresher, Leave(p, answer)
    PROVE  LockInv'
<1>1. TypeOK /\ job[p] \in Session /\ holder[job[p]] = p
    BY InHand, Zenon DEF SafetyInv, LockInv
<1> DEFINE label == IF p = Refresher THEN "next" ELSE answer
<1>2. label \in {"idle", "served", "conflict", "next"} /\ label \in Pc
    BY Zenon DEF Pc
<1>3. Leave(p, answer) /\ answer \in Pc
    BY Zenon DEF Pc
<1>4. Drop(p, label) /\ holder'[job[p]] = None
      /\ \A s \in Session \ {job[p]} : holder'[s] = holder[s]
    BY <1>1, <1>3, LeaveEffect, Zenon
<1>5. pc'[p] = label /\ \A q \in Proc \ {p} :
        /\ pc'[q] = pc[q] /\ job'[q] = job[q] /\ seen'[q] = seen[q]
        /\ resp'[q] = resp[q]
    BY <1>1, <1>2, <1>4, DropEffect, Zenon
<1>6. ~Critical(p)' /\ ~HasSession(p)' /\ ~Unborn(p)' /\ pc'[p] # "wait"
      /\ pc'[p] # "persist" /\ (pc'[p] \in {"load", "next"} => p = Refresher)
      /\ (p = Refresher => pc'[p] = "next")
    BY <1>2, <1>5, Zenon DEF Critical, HasSession, Unborn
<1> QED
    BY <1>1, <1>4, <1>5, <1>6, Tasks, ConstantsAssumption
    DEF LockInv, SafetyInv, Critical, HasSession, Unborn, TypeOK

(* Going on inside a critical section keeps it. *)
LEMMA GotoKeepsLockInv ==
    ASSUME SafetyInv, NEW p \in Proc, Critical(p),
           NEW label \in {"send", "sent", "persist", "readback", "fail"},
           Goto(p, label), seen'[p] \in Row,
           label = "persist" => resp'[p] \in Response,
           \A q \in Proc \ {p} : seen'[q] = seen[q] /\ resp'[q] = resp[q]
    PROVE  LockInv'
<1>1. TypeOK
    BY Zenon DEF SafetyInv
<1>2. pc'[p] = label /\ \A q \in Proc \ {p} : pc'[q] = pc[q]
    BY <1>1, Zenon DEF Goto, TypeOK
<1>3. Critical(p)' /\ ~Unborn(p)' /\ job' = job /\ holder' = holder
    BY <1>2, Zenon DEF Critical, Unborn, Goto
<1> QED
    BY <1>1, <1>2, <1>3, Tasks
    DEF LockInv, SafetyInv, Critical, HasSession, Unborn, TypeOK

LEMMA LockStep == SafetyInv /\ [Next]_vars => LockInv'
<1> SUFFICES ASSUME SafetyInv, [Next]_vars PROVE LockInv'
    OBVIOUS
<1> USE ConstantsAssumption, Tasks
<1>0. TypeOK /\ LockInv
    BY Zenon DEF SafetyInv
<1>1. ASSUME NEW p \in Proxy, ProxyStart(p) PROVE LockInv'
    BY <1>0, <1>1 DEF TypeOK, LockInv, ProxyStart, Critical, HasSession, Unborn
<1>2. ASSUME NEW p \in Operator, BootstrapStart(p) PROVE LockInv'
    <2>1. issued + 1 \in Token
        BY <1>0, <1>2 DEF TypeOK, BootstrapStart, Token
    <2>2. seen'[p] \in Row
        BY <1>0, <1>2, <2>1, Zenon DEF TypeOK, BootstrapStart, Row
    <2> QED
        BY <1>0, <1>2, <2>2, SMTT(30)
        DEF TypeOK, LockInv, BootstrapStart, Critical, HasSession, Unborn
<1>3. CASE Tick
    BY <1>0, <1>3 DEF TypeOK, LockInv, Tick, Critical, HasSession, Unborn
<1>4. CASE LoadCatalog
    BY <1>0, <1>4 DEF TypeOK, LockInv, LoadCatalog, Critical, HasSession, Unborn
<1>5. CASE NextItem
    BY <1>0, <1>5
    DEF TypeOK, LockInv, NextItem, Critical, HasSession, Unborn, Batch
<1>6. CASE EndBatch
    BY <1>0, <1>6, DropEffect
    DEF TypeOK, LockInv, EndBatch, Critical, HasSession, Unborn, Pc
<1>7. ASSUME NEW p \in Proc, Lock(p) PROVE LockInv'
    BY <1>0, <1>7 DEF TypeOK, LockInv, Lock, Critical, HasSession, Unborn
<1>8. ASSUME NEW p \in Proc, ProxyGet(p) PROVE LockInv'
    <2>1. Critical(p) /\ row[job[p]] \in Row \cup {None}
        BY <1>8, InHand, Zenon DEF ProxyGet, Critical
    <2>2. CASE Leave(p, "idle") \/ Leave(p, "served")
        BY <2>1, <2>2, LeaveKeepsLockInv, Zenon
    <2>3. CASE Goto(p, "send") /\ UNCHANGED resp /\ Healthy(row[job[p]])
               /\ seen' = [seen EXCEPT ![p] = row[job[p]]]
        BY <1>0, <2>1, <2>3, GotoKeepsLockInv, Zenon DEF TypeOK, Healthy
    <2> QED
        BY <1>8, <2>2, <2>3, Zenon DEF ProxyGet
<1>9. CASE RefresherGet
    <2>1. Critical(Refresher) /\ row[job[Refresher]] \in Row \cup {None}
        BY <1>9, InHand, Zenon DEF RefresherGet, Critical
    <2>2. CASE Leave(Refresher, "next")
        BY <2>1, <2>2, LeaveKeepsLockInv, Zenon
    <2>3. CASE Goto(Refresher, "send") /\ UNCHANGED resp
               /\ Healthy(row[job[Refresher]])
               /\ seen' = [seen EXCEPT ![Refresher] = row[job[Refresher]]]
        BY <1>0, <2>1, <2>3, GotoKeepsLockInv, Zenon DEF TypeOK, Healthy
    <2> QED
        BY <1>9, <2>2, <2>3, Zenon DEF RefresherGet
<1>10. ASSUME NEW p \in Proc, Create(p) PROVE LockInv'
    <2>1. Critical(p) /\ seen[p] \in Row
        BY <1>0, <1>10, Zenon DEF Create, Critical, LockInv, Unborn
    <2> QED
        BY <1>10, <2>1, LeaveKeepsLockInv, GotoKeepsLockInv, Zenon DEF Create, Insert
<1>11. ASSUME NEW p \in Proc, Send(p) PROVE LockInv'
    <2>1. Critical(p) /\ seen[p] \in Row
        BY <1>11, InHand, Zenon DEF Send, Critical, HasSession
    <2>2. PICK label \in {"sent", "fail"} : Goto(p, label)
        BY <1>11, Zenon DEF Send
    <2> QED
        BY <1>11, <2>1, <2>2, GotoKeepsLockInv, Zenon DEF Send
<1>12. ASSUME NEW p \in Proc, Exchange(p) PROVE LockInv'
    <2>1. Critical(p) /\ seen[p] \in Row
        BY <1>12, InHand, Zenon DEF Exchange, Critical, HasSession
    <2>2. PICK life \in Lifetime :
             \/ /\ issued < MaxToken
                /\ resp' = [resp EXCEPT ![p] = [exp |-> now + life,
                                                rt |-> issued + 1]]
             \/ resp' = [resp EXCEPT ![p] = [exp |-> now + life, rt |-> None]]
        BY <1>12, Zenon DEF Exchange
    <2>3. now + life \in Nat /\ (issued < MaxToken => issued + 1 \in Token)
        BY <1>0, <2>2 DEF TypeOK, Token
    <2>4. resp'[p] \in Response /\ \A q \in Proc \ {p} : resp'[q] = resp[q]
        BY <1>0, <2>2, <2>3 DEF TypeOK, Response
    <2> QED
        BY <1>12, <2>1, <2>4, GotoKeepsLockInv, Zenon DEF Exchange
<1>13. ASSUME NEW p \in Proc, ExchangeFails(p) PROVE LockInv'
    <2>1. Critical(p) /\ seen[p] \in Row
        BY <1>13, InHand, Zenon DEF ExchangeFails, Critical, HasSession
    <2> QED
        BY <1>13, <2>1, GotoKeepsLockInv, Zenon DEF ExchangeFails
<1>14. ASSUME NEW p \in Proc, Persist(p) PROVE LockInv'
    <2>1. Critical(p) /\ seen[p] \in Row
        BY <1>14, InHand, Zenon DEF Persist, Critical, HasSession
    <2> QED
        BY <1>0, <1>14, <2>1, GotoKeepsLockInv, Zenon DEF Persist, TypeOK
<1>15. ASSUME NEW p \in Proc, ReadBack(p) PROVE LockInv'
    <2>1. Critical(p) /\ seen[p] \in Row
        BY <1>15, InHand, Zenon DEF ReadBack, Critical, HasSession
    <2> QED
        BY <1>15, <2>1, LeaveKeepsLockInv, GotoKeepsLockInv, Zenon DEF ReadBack
<1>16. ASSUME NEW p \in Proc, Fail(p) PROVE LockInv'
    BY <1>16, LeaveKeepsLockInv, Zenon DEF Fail, Critical
<1>17. ASSUME NEW p \in Proc, Return(p) PROVE LockInv'
    BY <1>0, <1>17 DEF TypeOK, LockInv, Return, Critical, HasSession, Unborn
<1>18. ASSUME NEW p \in Proc, StatementFails(p) PROVE LockInv'
    <2>1. CASE Critical(p) /\ Leave(p, "idle")
        BY <2>1, LeaveKeepsLockInv, Zenon
    <2>2. CASE HasSession(p) /\ Goto(p, "fail") /\ UNCHANGED <<seen, resp>>
        <3>1. Critical(p) /\ seen[p] \in Row
            BY <2>2, InHand, Zenon DEF Critical, HasSession
        <3> QED
            BY <2>2, <3>1, GotoKeepsLockInv, Zenon
    <2> QED
        BY <1>18, <2>1, <2>2, Zenon DEF StatementFails, Critical, HasSession
<1>19. ASSUME NEW p \in Proc, Cancel(p) PROVE LockInv'
    <2>1. Drop(p, "idle") /\ "idle" \in Pc /\ p # Refresher
        BY <1>19, Zenon DEF Cancel, Pc
    <2>2. pc'[p] = "idle" /\ \A q \in Proc \ {p} :
            /\ pc'[q] = pc[q] /\ job'[q] = job[q] /\ seen'[q] = seen[q]
            /\ resp'[q] = resp[q]
        BY <1>0, <2>1, DropEffect, Zenon
    <2>3. \A s \in Session :
            holder'[s] = IF holder[s] = p THEN None ELSE holder[s]
        BY <1>19, Zenon DEF Cancel
    <2> QED
        BY <1>0, <2>1, <2>2, <2>3
        DEF TypeOK, LockInv, Critical, HasSession, Unborn
<1>20. CASE Crash
    BY <1>20, Zenon DEF LockInv, Crash, Critical, HasSession, Unborn
<1>21. ASSUME UNCHANGED <<holder, taskVars>> PROVE LockInv'
    BY <1>0, <1>21, Zenon DEF LockInv, Critical, HasSession, Unborn, taskVars
<1> QED
    BY <1>1, <1>2, <1>3, <1>4, <1>5, <1>6, <1>7, <1>8, <1>9, <1>10, <1>11,
       <1>12, <1>13, <1>14, <1>15, <1>16, <1>17, <1>18, <1>19, <1>20, <1>21, Zenon
    DEF Next, TaskStep, RefreshStep, RefresherStep, Environment, Revoke,
        EditRegistration, ReloadCatalog, Clock, vars, taskVars

----------------------------------------------------------------------------
(* The invariant on incarnations is preserved. *)

(* A step that leaves the table alone keeps it, if every session in hand   *)
(* after the step still is the row of the table, and healthy.              *)
LEMMA GenFrame ==
    ASSUME SafetyInv, UNCHANGED <<row, gone>>,
           issued' \in Int, issued <= issued',
           \A q \in Proc : Unborn(q)' => Unborn(q) /\ seen'[q] = seen[q],
           \A q \in Proc : HasSession(q)' /\ row[job'[q]] # None =>
              row[job'[q]].gen = seen'[q].gen /\ ~row[job'[q]].degraded,
           \A q \in Proc : ignored'[q] \subseteq gone
    PROVE  GenInv'
<1>1. \A s \in Session : row[s] # None => row[s].gen \in Int
    BY SMTT(60) DEF SafetyInv, TypeOK, Row, Token
<1>2. \A q \in Proc : Unborn(q) => seen[q].gen \in Int
    BY SMTT(60) DEF SafetyInv, LockInv, Row, Token
<1>3. gone \subseteq Int /\ issued \in Int
    BY SMTT(60) DEF SafetyInv, TypeOK, Token
<1>4. /\ \A s \in Session : row[s] # None => row[s].gen <= issued'
      /\ \A q \in Proc : Unborn(q) => seen[q].gen <= issued'
      /\ \A g \in gone : g <= issued'
    BY <1>1, <1>2, <1>3, SMTT(30) DEF SafetyInv, GenInv
<1>5. ASSUME NEW p \in Proc, Unborn(p)'
      PROVE  /\ seen'[p].gen \notin gone /\ seen'[p].gen <= issued'
             /\ seen'[p].exp = None /\ ~seen'[p].degraded
             /\ \A s \in Session : row[s] # None => row[s].gen # seen'[p].gen
             /\ \A q \in Proc : Unborn(q)' /\ q # p => seen'[q].gen # seen'[p].gen
    <2>1. Unborn(p) /\ seen'[p] = seen[p]
        BY <1>5
    <2>2. /\ seen[p].gen \notin gone /\ seen[p].exp = None /\ ~seen[p].degraded
          /\ \A s \in Session : row[s] # None => row[s].gen # seen[p].gen
          /\ \A q \in Proc : Unborn(q) /\ q # p => seen[q].gen # seen[p].gen
        BY <2>1, Zenon DEF SafetyInv, GenInv
    <2>3. \A q \in Proc : Unborn(q)' /\ q # p => seen'[q].gen # seen'[p].gen
        BY <2>1, <2>2, Zenon
    <2> QED
        BY <1>4, <2>1, <2>2, <2>3, Zenon
<1> QED
    BY <1>4, <1>5, Zenon DEF SafetyInv, GenInv

(* Leaving a critical section without touching the table keeps it. *)
LEMMA LeaveKeepsGenInv ==
    ASSUME SafetyInv, NEW p \in Proc, Critical(p),
           NEW answer \in {"idle", "served", "conflict", "next"},
           Leave(p, answer), UNCHANGED <<row, gone, issued>>
    PROVE  GenInv'
<1>1. TypeOK /\ job[p] \in Session
    BY InHand, Zenon
<1> DEFINE label == IF p = Refresher THEN "next" ELSE answer
<1>2. label \in {"idle", "served", "conflict", "next"} /\ label \in Pc /\ answer \in Pc
    BY Zenon DEF Pc
<1>3. Drop(p, label)
    BY <1>1, <1>2, LeaveEffect, Zenon
<1>4. pc'[p] = label /\ ignored'[p] = {} /\ \A q \in Proc \ {p} :
        /\ pc'[q] = pc[q] /\ job'[q] = job[q] /\ seen'[q] = seen[q]
        /\ ignored'[q] = ignored[q]
    BY <1>1, <1>2, <1>3, DropEffect, Zenon
<1>5. ~HasSession(p)' /\ ~Unborn(p)'
    BY <1>2, <1>4, Zenon DEF HasSession, Unborn
<1>6. issued' \in Int /\ issued <= issued'
    BY <1>1 DEF TypeOK
<1>7. \A q \in Proc : HasSession(q)' /\ row[job'[q]] # None =>
              row[job'[q]].gen = seen'[q].gen /\ ~row[job'[q]].degraded
    BY <1>4, <1>5 DEF HasSession, SafetyInv, GenInv
<1>8. \A q \in Proc : Unborn(q)' => Unborn(q) /\ seen'[q] = seen[q]
    BY <1>4, <1>5, Zenon DEF Unborn
<1>9. \A q \in Proc : ignored'[q] \subseteq gone
    BY <1>4, Zenon DEF SafetyInv, GenInv
<1> QED
    BY <1>6, <1>7, <1>8, <1>9, GenFrame, Zenon

(* Going on with the same session in hand keeps it. *)
LEMMA GotoKeepsGenInv ==
    ASSUME SafetyInv, NEW p \in Proc, HasSession(p),
           NEW label \in {"sent", "persist", "readback", "fail"},
           Goto(p, label), UNCHANGED <<row, gone, seen>>,
           issued' \in Int, issued <= issued'
    PROVE  GenInv'
<1>1. TypeOK /\ GenInv
    BY Zenon DEF SafetyInv
<1>2. pc'[p] = label /\ job' = job /\ ignored' = ignored
      /\ \A q \in Proc \ {p} : pc'[q] = pc[q]
    BY <1>1, Zenon DEF Goto, TypeOK
<1>3. \A q \in Proc : (HasSession(q)' => HasSession(q)) /\ (Unborn(q)' => Unborn(q))
    BY <1>2, Zenon DEF HasSession, Unborn
<1>4. \A q \in Proc : HasSession(q)' /\ row[job'[q]] # None =>
              row[job'[q]].gen = seen'[q].gen /\ ~row[job'[q]].degraded
    BY <1>1, <1>2, <1>3, Zenon DEF GenInv
<1>5. \A q \in Proc : ignored'[q] \subseteq gone
    BY <1>1, <1>2, Zenon DEF GenInv
<1> QED
    BY <1>3, <1>4, <1>5, GenFrame, Zenon

(* Removing the row of s keeps it, if no session in hand moves. *)
LEMMA DeleteKeepsGenInv ==
    ASSUME SafetyInv, NEW s \in Session, Delete(s), UNCHANGED issued,
           \A q \in Proc : Unborn(q)' => Unborn(q) /\ seen'[q] = seen[q],
           \A q \in Proc : HasSession(q)' =>
              HasSession(q) /\ job'[q] = job[q] /\ seen'[q] = seen[q],
           \A q \in Proc : ignored'[q] \subseteq gone
    PROVE  GenInv'
<1>1. TypeOK /\ GenInv
    BY Zenon DEF SafetyInv
<1>2. /\ \A t \in Session \ {s} : row'[t] = row[t]
      /\ row'[s] = None
      /\ gone \subseteq gone'
      /\ row[s] # None => gone' = gone \cup {row[s].gen}
      /\ row[s] = None => gone' = gone
    BY <1>1, DeleteEffect, Zenon
<1>3. \A q \in Proc : HasSession(q) => job[q] \in Session
    BY InHand, Zenon DEF HasSession, Critical
<1> QED
    BY <1>1, <1>2, <1>3 DEF GenInv

(* Two tasks never have the same session in hand: the lock excludes it. *)
LEMMA Exclusion ==
    ASSUME SafetyInv, NEW p \in Proc, NEW q \in Proc,
           Critical(p), Critical(q), job[p] = job[q]
    PROVE  p = q
BY Zenon DEF SafetyInv, LockInv

(* Taking a healthy row in hand keeps it. *)
LEMMA GetKeepsGenInv ==
    ASSUME SafetyInv, NEW p \in Proc, p \notin Operator, Critical(p),
           Goto(p, "send"), UNCHANGED <<row, gone, issued>>,
           Healthy(row[job[p]]), seen' = [seen EXCEPT ![p] = row[job[p]]]
    PROVE  GenInv'
<1>1. TypeOK /\ GenInv
    BY Zenon DEF SafetyInv
<1>2. pc'[p] = "send" /\ job' = job /\ ignored' = ignored /\ seen'[p] = row[job[p]]
      /\ \A q \in Proc \ {p} : pc'[q] = pc[q] /\ seen'[q] = seen[q]
    BY <1>1, Zenon DEF Goto, TypeOK
<1>3. \A q \in Proc : HasSession(q)' /\ row[job'[q]] # None =>
              row[job'[q]].gen = seen'[q].gen /\ ~row[job'[q]].degraded
    BY <1>1, <1>2 DEF GenInv, HasSession, Healthy
<1>4. \A q \in Proc : Unborn(q)' => Unborn(q) /\ seen'[q] = seen[q]
    BY <1>2, Zenon DEF Unborn
<1>5. \A q \in Proc : ignored'[q] \subseteq gone
    BY <1>1, <1>2, Zenon DEF GenInv
<1>6. issued' \in Int /\ issued <= issued'
    BY <1>1 DEF TypeOK
<1> QED
    BY <1>3, <1>4, <1>5, <1>6, GenFrame, Zenon

LEMMA GenStep == SafetyInv /\ [Next]_vars => GenInv'
<1> SUFFICES ASSUME SafetyInv, [Next]_vars PROVE GenInv'
    OBVIOUS
<1> USE ConstantsAssumption, Tasks
<1>0. TypeOK /\ LockInv /\ GenInv
    BY Zenon DEF SafetyInv
<1>a. issued \in Int /\ issued <= issued
    BY <1>0 DEF TypeOK
<1>1. ASSUME NEW p \in Proxy, ProxyStart(p) PROVE GenInv'
    <2>1. pc' = [pc EXCEPT ![p] = "wait"] /\ ignored' = [ignored EXCEPT ![p] = gone]
          /\ (\A q \in Proc \ {p} : job'[q] = job[q])
          /\ UNCHANGED <<row, gone, issued, seen>>
        BY <1>0, <1>1, Zenon DEF TypeOK, ProxyStart, providerVars
    <2>2. \A q \in Proc : Unborn(q)' => Unborn(q) /\ seen'[q] = seen[q]
        BY <1>0, <2>1, Zenon DEF TypeOK, Unborn
    <2>3. \A q \in Proc : HasSession(q)' => HasSession(q) /\ job'[q] = job[q]
        BY <1>0, <2>1, Zenon DEF TypeOK, HasSession
    <2>4. \A q \in Proc : ignored'[q] \subseteq gone
        BY <1>0, <2>1 DEF TypeOK, GenInv
    <2>5. \A q \in Proc : HasSession(q)' /\ row[job'[q]] # None =>
              row[job'[q]].gen = seen'[q].gen /\ ~row[job'[q]].degraded
        BY <1>0, <2>1, <2>3, Zenon DEF GenInv
    <2> QED
        BY <1>a, <2>1, <2>2, <2>4, <2>5, GenFrame, Zenon
<1>2. ASSUME NEW p \in Operator, BootstrapStart(p) PROVE GenInv'
    <2>1. /\ pc' = [pc EXCEPT ![p] = "wait"] /\ issued' = issued + 1
          /\ \A q \in Proc \ {p} : job'[q] = job[q] /\ seen'[q] = seen[q]
          /\ seen'[p].gen = issued + 1 /\ seen'[p].exp = None
          /\ seen'[p].degraded = FALSE
          /\ UNCHANGED <<row, gone, ignored>>
        BY <1>0, <1>2, Zenon DEF TypeOK, BootstrapStart
    <2>2. \A q \in Proc \ {p} :
            (HasSession(q)' <=> HasSession(q)) /\ (Unborn(q)' <=> Unborn(q))
        BY <1>0, <2>1, Zenon DEF TypeOK, HasSession, Unborn
    <2>3. ~HasSession(p)' /\ Unborn(p)'
        BY <1>0, <2>1, Zenon DEF TypeOK, HasSession, Unborn
    <2>4. \A t \in Session : row[t] # None => row[t].gen \in Int
        BY <1>0 DEF TypeOK, Row, Token
    <2>5. \A q \in Proc : Unborn(q) => seen[q].gen \in Int
        BY <1>0 DEF LockInv, Row, Token
    <2>6. gone \subseteq Int
        BY <1>0 DEF TypeOK, Token
    <2> QED
        BY <1>0, <1>a, <2>1, <2>2, <2>3, <2>4, <2>5, <2>6 DEF GenInv
<1>3. ASSUME Tick \/ LoadCatalog \/ NextItem \/ EndBatch PROVE GenInv'
    <2>1. /\ \A q \in Proc \ {Refresher} : pc'[q] = pc[q] /\ job'[q] = job[q]
                /\ seen'[q] = seen[q] /\ ignored'[q] = ignored[q]
          /\ pc'[Refresher] \in {"load", "next", "wait", "idle"}
          /\ ignored'[Refresher] \in {ignored[Refresher], {}}
          /\ UNCHANGED <<row, gone, issued>>
        BY <1>0, <1>3
        DEF TypeOK, Tick, LoadCatalog, NextItem, EndBatch, Drop, providerVars
    <2>2. ~HasSession(Refresher)' /\ ~Unborn(Refresher)'
        BY <2>1, Zenon DEF HasSession, Unborn
    <2>3. \A q \in Proc : Unborn(q)' => Unborn(q) /\ seen'[q] = seen[q]
        BY <2>1, <2>2, Zenon DEF Unborn
    <2>4. \A q \in Proc : HasSession(q)' /\ row[job'[q]] # None =>
              row[job'[q]].gen = seen'[q].gen /\ ~row[job'[q]].degraded
        BY <1>0, <2>1, <2>2 DEF GenInv, HasSession
    <2>5. \A q \in Proc : ignored'[q] \subseteq gone
        BY <1>0, <2>1, Zenon DEF GenInv
    <2> QED
        BY <1>a, <2>1, <2>3, <2>4, <2>5, GenFrame, Zenon
<1>4. ASSUME NEW p \in Proc, Lock(p) \/ Return(p) PROVE GenInv'
    <2>1. /\ \A q \in Proc \ {p} : pc'[q] = pc[q]
          /\ pc'[p] \in {"get", "idle"} /\ (pc'[p] = "get" => pc[p] = "wait")
          /\ UNCHANGED <<row, gone, issued, job, seen, ignored>>
        BY <1>0, <1>4, Zenon DEF TypeOK, Lock, Return, providerVars
    <2>2. \A q \in Proc : (HasSession(q)' => HasSession(q)) /\ (Unborn(q)' => Unborn(q))
        BY <2>1, Zenon DEF HasSession, Unborn
    <2>3. \A q \in Proc : HasSession(q)' /\ row[job'[q]] # None =>
              row[job'[q]].gen = seen'[q].gen /\ ~row[job'[q]].degraded
        BY <1>0, <2>1, <2>2, Zenon DEF GenInv
    <2>4. \A q \in Proc : ignored'[q] \subseteq gone
        BY <1>0, <2>1, Zenon DEF GenInv
    <2> QED
        BY <1>a, <2>1, <2>2, <2>3, <2>4, GenFrame, Zenon
<1>5. ASSUME NEW p \in Proc, ProxyGet(p) PROVE GenInv'
    <2>1. Critical(p) /\ p \notin Operator /\ UNCHANGED <<row, gone, issued>>
        BY <1>5, Zenon DEF ProxyGet, Critical, providerVars
    <2>2. CASE Leave(p, "idle") \/ Leave(p, "served")
        BY <2>1, <2>2, LeaveKeepsGenInv, Zenon
    <2> QED
        BY <1>5, <2>1, <2>2, GetKeepsGenInv, Zenon DEF ProxyGet
<1>6. CASE RefresherGet
    <2>1. Critical(Refresher) /\ Refresher \notin Operator
          /\ UNCHANGED <<row, gone, issued>>
        BY <1>6, Zenon DEF RefresherGet, Critical, providerVars
    <2>2. CASE Leave(Refresher, "next")
        BY <2>1, <2>2, LeaveKeepsGenInv, Zenon
    <2> QED
        BY <1>6, <2>1, <2>2, GetKeepsGenInv, Zenon DEF RefresherGet
<1>7. ASSUME NEW p \in Proc, Create(p) PROVE GenInv'
    <2>1. Critical(p) /\ Unborn(p) /\ job[p] \in Session /\ UNCHANGED <<gone, issued>>
        BY <1>7, InHand, Zenon DEF Create, Critical, Unborn, providerVars
    <2>2. CASE Leave(p, "conflict") /\ UNCHANGED row
        BY <2>1, <2>2, LeaveKeepsGenInv, Zenon
    <2>3. CASE /\ row[job[p]] = None /\ row' = [row EXCEPT ![job[p]] = seen[p]]
               /\ Goto(p, "send") /\ UNCHANGED seen
        <3>1. /\ \A q \in Proc \ {p} : pc'[q] = pc[q]
              /\ pc'[p] = "send" /\ UNCHANGED <<job, ignored, seen>>
            BY <1>0, <2>3, Zenon DEF TypeOK, Goto
        <3>2. /\ row'[job[p]] = seen[p]
              /\ \A t \in Session \ {job[p]} : row'[t] = row[t]
            BY <1>0, <2>1, <2>3, Zenon DEF TypeOK
        <3>3. /\ \A q \in Proc \ {p} : (HasSession(q)' <=> HasSession(q))
                                       /\ (Unborn(q)' <=> Unborn(q))
              /\ ~Unborn(p)'
            BY <3>1, Zenon DEF HasSession, Unborn
        <3>4. \A q \in Proc \ {p} : HasSession(q) =>
                  job[q] \in Session /\ job[q] # job[p]
            BY <2>1, InHand, Exclusion, Zenon DEF HasSession, Critical
        <3>5. (\A t \in Session : row'[t] # None =>
                  row'[t].gen \notin gone /\ row'[t].gen <= issued)
              /\ (\A t, u \in Session : row'[t] # None /\ row'[u] # None /\ t # u =>
                     row'[t].gen # row'[u].gen)
            BY <1>0, <2>1, <3>2 DEF GenInv
        <3>6. \A q \in Proc : Unborn(q)' =>
                  /\ seen[q].gen \notin gone /\ seen[q].gen <= issued
                  /\ seen[q].exp = None /\ ~seen[q].degraded
                  /\ \A t \in Session : row'[t] # None => row'[t].gen # seen[q].gen
                  /\ \A u \in Proc : Unborn(u)' /\ u # q => seen[u].gen # seen[q].gen
            BY <1>0, <2>1, <3>2, <3>3 DEF GenInv
        <3>7. \A q \in Proc : HasSession(q)' /\ row'[job[q]] # None =>
                  row'[job[q]].gen = seen[q].gen /\ ~row'[job[q]].degraded
            BY <1>0, <2>1, <3>2, <3>3, <3>4 DEF GenInv
        <3> QED
            BY <1>0, <2>1, <3>1, <3>5, <3>6, <3>7, Zenon DEF GenInv
    <2> QED
        BY <1>7, <2>2, <2>3, Zenon DEF Create, Insert
<1>8. ASSUME NEW p \in Proc, Send(p) PROVE GenInv'
    <2>1. PICK label \in {"sent", "fail"} : Goto(p, label)
        BY <1>8, Zenon DEF Send
    <2> QED
        BY <1>8, <1>a, <2>1, GotoKeepsGenInv, Zenon DEF Send, HasSession, providerVars
<1>9. ASSUME NEW p \in Proc, Exchange(p) PROVE GenInv'
    <2>1. issued' \in Int /\ issued <= issued'
        BY <1>9, <1>a DEF Exchange, providerVars
    <2> QED
        BY <1>9, <2>1, GotoKeepsGenInv, Zenon DEF Exchange, HasSession
<1>10. ASSUME NEW p \in Proc, ExchangeFails(p) PROVE GenInv'
    BY <1>10, <1>a, GotoKeepsGenInv, Zenon DEF ExchangeFails, HasSession
<1>11. ASSUME NEW p \in Proc, Persist(p) PROVE GenInv'
    <2>1. HasSession(p) /\ job[p] \in Session /\ resp[p] \in Response
        BY <1>11, InHand, Zenon DEF Persist, HasSession, Critical
    <2>2. /\ \A t \in Session \ {job[p]} : row'[t] = row[t]
          /\ row[job[p]] = None => row'[job[p]] = None
          /\ row[job[p]] # None => /\ row'[job[p]].gen = row[job[p]].gen
                                   /\ row'[job[p]].degraded = FALSE
        BY <1>0, <1>11, <2>1, UpdateTokensEffect, Zenon DEF Persist
    <2>3. /\ \A q \in Proc \ {p} : pc'[q] = pc[q]
          /\ pc'[p] = "readback" /\ UNCHANGED <<job, ignored, seen, gone, issued>>
        BY <1>0, <1>11, Zenon DEF TypeOK, Persist, Goto, providerVars
    <2>4. \A q \in Proc : (HasSession(q)' => HasSession(q)) /\ (Unborn(q)' => Unborn(q))
        BY <2>1, <2>3, Zenon DEF HasSession, Unborn
    <2>5. \A q \in Proc : HasSession(q) => job[q] \in Session
        BY InHand, Zenon DEF HasSession, Critical
    <2>6. \A t \in Session : (row'[t] # None => row[t] # None /\ row'[t].gen = row[t].gen)
                             /\ (row'[t] # None /\ ~row[t].degraded => ~row'[t].degraded)
        BY <2>1, <2>2, Zenon
    <2> QED
        BY <1>0, <2>3, <2>4, <2>5, <2>6 DEF GenInv
<1>12. ASSUME NEW p \in Proc, ReadBack(p) PROVE GenInv'
    <2>1. Critical(p) /\ HasSession(p) /\ UNCHANGED <<row, gone, issued>>
        BY <1>12, Zenon DEF ReadBack, Critical, HasSession, providerVars
    <2> QED
        BY <1>12, <1>a, <2>1, LeaveKeepsGenInv, GotoKeepsGenInv, Zenon DEF ReadBack
<1>13. ASSUME NEW p \in Proc, Fail(p) PROVE GenInv'
    <2>1. Critical(p) /\ job[p] \in Session /\ Leave(p, "idle") /\ "idle" \in Pc
          /\ "next" \in Pc /\ UNCHANGED issued
        BY <1>13, InHand, Zenon DEF Fail, Critical, Pc, providerVars
    <2>2. PICK label \in {"idle", "next"} : Drop(p, label)
        BY <2>1, Zenon DEF Leave
    <2>3. pc'[p] = label /\ ignored'[p] = {} /\ \A q \in Proc \ {p} :
            /\ pc'[q] = pc[q] /\ job'[q] = job[q] /\ seen'[q] = seen[q]
            /\ ignored'[q] = ignored[q]
        BY <1>0, <2>1, <2>2, DropEffect
    <2>4. ~HasSession(p)' /\ ~Unborn(p)'
        BY <2>3, Zenon DEF HasSession, Unborn
    <2>5. \A q \in Proc : HasSession(q)' => q # p /\ HasSession(q)
                              /\ job'[q] = job[q] /\ seen'[q] = seen[q]
        BY <2>3, <2>4, Zenon DEF HasSession
    <2>6. \A q \in Proc : Unborn(q)' => Unborn(q) /\ seen'[q] = seen[q]
        BY <2>3, <2>4, Zenon DEF Unborn
    <2>7. \A q \in Proc : ignored'[q] \subseteq gone
        BY <1>0, <2>3, Zenon DEF GenInv
    <2>8. CASE MarkDegraded(job[p]) /\ UNCHANGED gone
        <3>1. /\ \A t \in Session \ {job[p]} : row'[t] = row[t]
              /\ row[job[p]] = None => row'[job[p]] = None
              /\ row[job[p]] # None => row'[job[p]].gen = row[job[p]].gen
            BY <1>0, <2>1, <2>8, MarkDegradedEffect, Zenon
        <3>2. \A t \in Session : row'[t] # None => row[t] # None /\ row'[t].gen = row[t].gen
            BY <2>1, <3>1, Zenon
        <3>3. \A q \in Proc : HasSession(q)' => job'[q] \in Session /\ job'[q] # job[p]
            BY <2>1, <2>5, InHand, Exclusion, Zenon DEF HasSession, Critical
        <3>4. \A q \in Proc : HasSession(q)' /\ row'[job'[q]] # None =>
                row'[job'[q]].gen = seen'[q].gen /\ ~row'[job'[q]].degraded
            BY <1>0, <2>5, <3>1, <3>3 DEF GenInv
        <3> QED
            BY <1>0, <2>1, <2>6, <2>7, <2>8, <3>2, <3>4 DEF GenInv
    <2>9. CASE Delete(job[p])
        BY <2>1, <2>5, <2>6, <2>7, <2>9, DeleteKeepsGenInv, Zenon
    <2> QED
        BY <1>13, <2>8, <2>9, Zenon DEF Fail
<1>14. ASSUME NEW p \in Proc, StatementFails(p) PROVE GenInv'
    <2>1. UNCHANGED <<row, gone, issued>>
        BY <1>14, Zenon DEF StatementFails, providerVars
    <2>2. CASE Critical(p) /\ Leave(p, "idle")
        BY <2>1, <2>2, LeaveKeepsGenInv, Zenon
    <2>3. CASE HasSession(p) /\ Goto(p, "fail") /\ UNCHANGED seen
        BY <1>a, <2>1, <2>3, GotoKeepsGenInv, Zenon
    <2> QED
        BY <1>14, <2>2, <2>3, Zenon DEF StatementFails, Critical, HasSession
<1>15. ASSUME NEW p \in Proc, Cancel(p) PROVE GenInv'
    <2>1. Drop(p, "idle") /\ "idle" \in Pc /\ UNCHANGED <<row, gone, issued>>
        BY <1>15, Zenon DEF Cancel, Pc
    <2>2. pc'[p] = "idle" /\ ignored'[p] = {} /\ \A q \in Proc \ {p} :
            /\ pc'[q] = pc[q] /\ job'[q] = job[q] /\ seen'[q] = seen[q]
            /\ ignored'[q] = ignored[q]
        BY <1>0, <2>1, DropEffect, Zenon
    <2>3. \A q \in Proc : Unborn(q)' => Unborn(q) /\ seen'[q] = seen[q]
        BY <2>2, Zenon DEF Unborn
    <2>4. \A q \in Proc : HasSession(q)' => HasSession(q)
                              /\ job'[q] = job[q] /\ seen'[q] = seen[q]
        BY <2>2, Zenon DEF HasSession
    <2>5. \A q \in Proc : HasSession(q)' /\ row[job'[q]] # None =>
              row[job'[q]].gen = seen'[q].gen /\ ~row[job'[q]].degraded
        BY <1>0, <2>4, Zenon DEF GenInv
    <2>6. \A q \in Proc : ignored'[q] \subseteq gone
        BY <1>0, <2>2, Zenon DEF GenInv
    <2> QED
        BY <1>a, <2>1, <2>3, <2>5, <2>6, GenFrame, Zenon
<1>16. CASE Crash
    BY <1>16, <1>a, GenFrame, Zenon DEF Crash, HasSession, Unborn
<1>17. ASSUME NEW s \in Session, Revoke(s) PROVE GenInv'
    <2>1. Delete(s) /\ UNCHANGED <<pc, job, seen, ignored, issued>>
        BY <1>17, Zenon DEF Revoke, taskVars, providerVars
    <2> QED
        BY <1>0, <2>1, DeleteKeepsGenInv, Zenon DEF HasSession, Unborn, GenInv
<1>18. ASSUME UNCHANGED <<row, gone, issued, pc, job, seen, ignored>> PROVE GenInv'
    BY <1>0, <1>18, Zenon DEF GenInv, HasSession, Unborn
<1>19. CASE ReloadCatalog \/ Clock \/ (\E n \in Name : EditRegistration(n))
            \/ UNCHANGED vars
    BY <1>18, <1>19, Zenon
    DEF ReloadCatalog, Clock, EditRegistration, vars, taskVars, providerVars
<1> QED
    BY <1>1, <1>2, <1>3, <1>4, <1>5, <1>6, <1>7, <1>8, <1>9, <1>10, <1>11,
       <1>12, <1>13, <1>14, <1>15, <1>16, <1>17, <1>19, Zenon
    DEF Next, TaskStep, RefreshStep, RefresherStep, Environment

----------------------------------------------------------------------------
(* The theorems. *)

LEMMA InitSafety == Init => SafetyInv
BY ConstantsAssumption, Tasks
DEF Init, SafetyInv, TypeOK, LockInv, GenInv, Critical, HasSession, Unborn, Pc, Batch

(* The invariant that ties each task to its lock and to the incarnation it *)
(* has in hand holds in every reachable state.                             *)
THEOREM Safety == Spec => []SafetyInv
<1>1. SafetyInv /\ [Next]_vars => SafetyInv'
    BY TypeStep, LockStep, GenStep, Zenon DEF SafetyInv
<1> QED
    BY InitSafety, <1>1, PTL DEF Spec

(* Type correctness of the session store and of the tasks. *)
THEOREM TypeCorrect == Spec => []TypeOK
<1>1. SafetyInv => TypeOK
    BY Zenon DEF SafetyInv
<1> QED
    BY Safety, <1>1, PTL

(* The refresh task, the proxy requests and the bootstraps never exchange  *)
(* tokens for one session at the same time.                                *)
THEOREM MutualExclusion == Spec => []OneExchangePerSession
<1>1. SafetyInv => OneExchangePerSession
    BY Exclusion, Zenon DEF OneExchangePerSession, HasSession, Critical
<1> QED
    BY Safety, <1>1, PTL

(* Although statements name a session only by its key and revoke takes no  *)
(* lock, no task updates, degrades or rolls back another incarnation than  *)
(* the one it has in hand.                                                 *)
THEOREM OwnIncarnation == Spec => []WritesOwnIncarnation
<1>1. SafetyInv => WritesOwnIncarnation
    BY Zenon DEF SafetyInv, GenInv, WritesOwnIncarnation
<1> QED
    BY Safety, <1>1, PTL

(* A request never ends up served from a session that had been deleted     *)
(* before the request began.                                               *)
THEOREM RevocationHolds == Spec => RevokedIsNotServed
<1> DEFINE Served(p) == pc[p] # "served" /\ pc'[p] = "served" =>
                            row[job[p]].gen \notin ignored[p]
<1>1. ASSUME SafetyInv, [Next]_vars, NEW p \in Proxy PROVE Served(p)
    <2> SUFFICES ASSUME pc[p] # "served", pc'[p] = "served"
                 PROVE  row[job[p]].gen \notin ignored[p]
        OBVIOUS
    <2> USE ConstantsAssumption, Tasks
    <2>0. SafetyInv /\ [Next]_vars /\ TypeOK /\ p \in Proc
        BY <1>1, Zenon DEF SafetyInv
    <2>1. /\ ProxyGet(p) \/ ReadBack(p)
          /\ Critical(p) /\ row[job[p]] # None
        <3>1. ASSUME NEW q \in Proc, Lock(q) \/ Send(q) \/ Exchange(q)
                        \/ ExchangeFails(q) \/ Persist(q) \/ Return(q)
              PROVE  FALSE
            BY <2>0, <3>1, Zenon
            DEF TypeOK, Lock, Send, Exchange, ExchangeFails, Persist, Return, Goto
        <3>2. ASSUME NEW q \in Proc, Create(q) \/ Fail(q) \/ Cancel(q) \/ StatementFails(q)
              PROVE  FALSE
            BY <2>0, <3>2
            DEF TypeOK, Create, Fail, Cancel, StatementFails, Leave, Drop, Goto
        <3>3. ASSUME NEW q \in Proc, ProxyGet(q)
              PROVE  ProxyGet(p) /\ row[job[p]] # None
            BY <2>0, <3>3 DEF TypeOK, ProxyGet, Healthy, Leave, Drop, Goto
        <3>4. ASSUME NEW q \in Proc, ReadBack(q)
              PROVE  ReadBack(p) /\ row[job[p]] # None
            BY <2>0, <3>4, Zenon DEF TypeOK, ReadBack, Leave, Drop, Goto
        <3>5. \E q \in Proc : ProxyGet(q) \/ Create(q) \/ ReadBack(q) \/ StatementFails(q)
                        \/ Lock(q) \/ Send(q) \/ Exchange(q) \/ ExchangeFails(q)
                        \/ Persist(q) \/ Fail(q) \/ Return(q) \/ Cancel(q)
            <4>1. pc' # pc
                OBVIOUS
            <4>2. ~(\E q \in Proxy : ProxyStart(q)) /\ ~(\E q \in Operator : BootstrapStart(q))
                BY <2>0 DEF TypeOK, ProxyStart, BootstrapStart
            <4>3. ~Tick /\ ~LoadCatalog /\ ~NextItem /\ ~EndBatch /\ ~Crash
                BY <2>0, Zenon DEF TypeOK, Tick, LoadCatalog, NextItem, EndBatch, Drop, Crash
            <4>4. ~RefresherGet
                BY <2>0, Zenon DEF TypeOK, RefresherGet, Leave, Drop, Goto
            <4> QED
                BY <2>0, <4>1, <4>2, <4>3, <4>4, Zenon
                DEF Next, TaskStep, RefreshStep, RefresherStep, Environment, Revoke,
                    EditRegistration, ReloadCatalog, Clock, vars, taskVars
        <3> QED
            BY <3>1, <3>2, <3>3, <3>4, <3>5, Zenon DEF ProxyGet, ReadBack, Critical
    <2>2. job[p] \in Session
        BY <2>0, <2>1, InHand, Zenon
    <2> QED
        BY <2>0, <2>1, <2>2, Zenon DEF SafetyInv, GenInv
<1>2. SafetyInv /\ [Next]_vars => [\A p \in Proxy : Served(p)]_vars
    BY <1>1, Zenon
<1> QED
    BY Safety, <1>2, PTL DEF Spec, RevokedIsNotServed

----------------------------------------------------------------------------
(* The invariant on refresh tokens is preserved. *)

LEMMA OneHand == \A p \in Proc : ~(HasSession(p) /\ Unborn(p)) /\ ~(HasSession(p) /\ Unborn(p))'
BY Zenon DEF HasSession, Unborn

(* t is in force after the step. *)
StaysFit(t) == t \in spent' => t \in lost'

(* No task takes a session or a new token in hand. *)
HandsStay ==
    \A q \in Proc :
        /\ Unborn(q)' => Unborn(q) /\ seen'[q] = seen[q]
        /\ HasSession(q)' => HasSession(q) /\ job'[q] = job[q] /\ seen'[q] = seen[q]
        /\ pc'[q] = "persist" => \/ pc[q] = "persist" /\ resp'[q] = resp[q]
                                 \/ pc[q] = "sent" /\ resp'[q].rt = None
        /\ pc'[q] \in {"send", "sent"} => pc[q] \in {"send", "sent"}

(* Rows disappear, degrade or stay. *)
RowsStay ==
    \A s \in Session : row'[s] # None =>
        /\ row[s] # None /\ row'[s].rt = row[s].rt
        /\ Healthy(row'[s]) => Healthy(row[s])

(* A token that is spent in this step was in the hand of a task that ends. *)
SpentIsLost ==
    /\ issued' = issued /\ spent \subseteq spent' /\ lost \subseteq lost'
    /\ \A t \in spent' : t \in spent \/
        (t \in lost' /\ \E q \in Proc : pc[q] = "sent" /\ seen[q].rt = t /\ ~Holds(q)')

(* A task that ends an exchange leaves a token in force or no healthy row. *)
AttentionStays ==
    \A q \in Proc : pc[q] \in {"persist", "fail"} =>
        \/ pc'[q] \in {"persist", "fail"}
        \/ StaysFit(seen[q].rt)
        \/ ~Healthy(row'[job[q]])

LEMMA HoldsStays ==
    ASSUME HandsStay
    PROVE  /\ \A q \in Proc : Holds(q)' => Holds(q) /\ seen'[q] = seen[q]
           /\ \A q \in Proc : Rotated(q)' => Rotated(q) /\ resp'[q] = resp[q]
BY Zenon DEF HandsStay, Holds, Rotated

LEMMA SentHolds == \A q \in Proc : pc[q] = "sent" => HasSession(q) /\ Holds(q)
BY Zenon DEF HasSession, Holds

LEMMA KnownFrame == ASSUME TokenKnown, HandsStay, RowsStay, SpentIsLost PROVE TokenKnown'
<1>1. \A t \in spent' : t <= issued
    BY SentHolds, Zenon DEF TokenKnown, SpentIsLost
<1>2. issued' = issued
    BY Zenon DEF SpentIsLost
<1>3. \A s \in Session : row'[s] # None => row'[s].rt <= issued
    BY Zenon DEF TokenKnown, RowsStay
<1>4. \A p \in Proc : Holds(p)' => seen'[p].rt <= issued
    BY HoldsStays, Zenon DEF TokenKnown
<1>5. \A p \in Proc : Rotated(p)' => resp'[p].rt <= issued
    BY HoldsStays, Zenon DEF TokenKnown
<1> QED
    BY <1>1, <1>2, <1>3, <1>4, <1>5, Zenon DEF TokenKnown

LEMMA OwnedFrame == ASSUME TokenOwned, HandsStay, RowsStay PROVE TokenOwned'
<1>1. \A s, t \in Session : row'[s] # None /\ row'[t] # None /\ s # t =>
        row'[s].rt # row'[t].rt
    <2> SUFFICES ASSUME NEW s \in Session, NEW t \in Session,
                        row'[s] # None, row'[t] # None, s # t
                 PROVE  row'[s].rt # row'[t].rt
        BY Zenon
    <2>1. /\ row[s] # None /\ row'[s].rt = row[s].rt
          /\ row[t] # None /\ row'[t].rt = row[t].rt
        BY Zenon DEF RowsStay
    <2>2. row[s].rt # row[t].rt
        BY <2>1, Zenon DEF TokenOwned
    <2> QED
        BY <2>1, <2>2, Zenon
<1>2. \A p, q \in Proc : Holds(p)' /\ Holds(q)' /\ p # q => seen'[p].rt # seen'[q].rt
    <2> SUFFICES ASSUME NEW p \in Proc, NEW q \in Proc, Holds(p)', Holds(q)', p # q
                 PROVE  seen'[p].rt # seen'[q].rt
        BY Zenon
    <2>1. Holds(p) /\ Holds(q) /\ seen'[p] = seen[p] /\ seen'[q] = seen[q]
        BY HoldsStays, Zenon
    <2>2. seen[p].rt # seen[q].rt
        BY <2>1, Zenon DEF TokenOwned
    <2> QED
        BY <2>1, <2>2, Zenon
<1>3. ASSUME NEW p \in Proc, NEW s \in Session,
             Holds(p)', row'[s] # None, seen'[p].rt = row'[s].rt
      PROVE  HasSession(p)' /\ job'[p] = s
    <2>1. Holds(p) /\ row[s] # None /\ seen[p].rt = row[s].rt
        BY <1>3, HoldsStays, Zenon DEF RowsStay
    <2>2. HasSession(p) /\ job[p] = s
        BY <2>1, Zenon DEF TokenOwned
    <2>3. HasSession(p)'
        BY <1>3, <2>2, OneHand, Zenon DEF Holds, HandsStay
    <2> QED
        BY <2>2, <2>3, Zenon DEF HandsStay
<1>4. ASSUME NEW p \in Proc, Rotated(p)'
      PROVE  /\ \A s \in Session : row'[s] # None => row'[s].rt # resp'[p].rt
             /\ \A q \in Proc : Holds(q)' => seen'[q].rt # resp'[p].rt
             /\ \A q \in Proc : Rotated(q)' /\ q # p => resp'[q].rt # resp'[p].rt
    <2>1. Rotated(p) /\ resp'[p] = resp[p]
        BY <1>4, HoldsStays, Zenon
    <2>2. /\ \A s \in Session : row[s] # None => row[s].rt # resp[p].rt
          /\ \A q \in Proc : Holds(q) => seen[q].rt # resp[p].rt
          /\ \A q \in Proc : Rotated(q) /\ q # p => resp[q].rt # resp[p].rt
        BY <2>1, Zenon DEF TokenOwned
    <2>3. \A s \in Session : row'[s] # None => row'[s].rt # resp'[p].rt
        BY <2>1, <2>2, Zenon DEF RowsStay
    <2> QED
        BY <2>1, <2>2, <2>3, HoldsStays, Zenon
<1> QED
    BY <1>1, <1>2, <1>3, <1>4, Zenon DEF TokenOwned

LEMMA FitFrame ==
    ASSUME TokenInv, HandsStay, RowsStay, SpentIsLost, AttentionStays PROVE TokenFit'
<1>0. TokenOwned /\ TokenFit
    BY Zenon DEF TokenInv
<1>1. ASSUME NEW t, InForce(t) PROVE StaysFit(t)
    BY <1>1, Zenon DEF InForce, StaysFit, SpentIsLost
<1>2. ASSUME NEW p \in Proc, Unborn(p)' PROVE seen'[p].rt \notin spent'
    <2>1. Unborn(p) /\ seen'[p] = seen[p] /\ Holds(p) /\ Holds(p)'
        BY <1>2, Zenon DEF HandsStay, Holds
    <2>2. seen[p].rt \notin spent
        BY <1>0, <2>1, Zenon DEF TokenFit
    <2>3. ASSUME NEW q \in Proc, pc[q] = "sent", ~Holds(q)' PROVE seen[q].rt # seen[p].rt
        <3>1. Holds(q) /\ q # p
            BY <2>1, <2>3, SentHolds, Zenon
        <3> QED
            BY <1>0, <2>1, <3>1, Zenon DEF TokenOwned
    <2> QED
        BY <2>1, <2>2, <2>3, Zenon DEF SpentIsLost
<1>3. ASSUME NEW p \in Proc, Rotated(p)' PROVE resp'[p].rt \notin spent'
    <2>1. Rotated(p) /\ resp'[p] = resp[p]
        BY <1>3, HoldsStays, Zenon
    <2>2. resp[p].rt \notin spent
        BY <1>0, <2>1, Zenon DEF TokenFit
    <2>3. \A q \in Proc : Holds(q) => seen[q].rt # resp[p].rt
        BY <1>0, <2>1, Zenon DEF TokenOwned
    <2> QED
        BY <2>1, <2>2, <2>3, SentHolds, Zenon DEF SpentIsLost
<1>4. ASSUME NEW p \in Proc, pc'[p] \in {"send", "sent"} PROVE StaysFit(seen'[p].rt)
    <2>1. HasSession(p)'
        BY <1>4, Zenon DEF HasSession
    <2>2. seen'[p] = seen[p] /\ pc[p] \in {"send", "sent"}
        BY <1>4, <2>1, Zenon DEF HandsStay
    <2> QED
        BY <1>0, <1>1, <2>2, Zenon DEF TokenFit
<1>5. ASSUME NEW p \in Proc, pc'[p] = "persist", ~Rotated(p)' PROVE StaysFit(seen'[p].rt)
    <2>1. HasSession(p)'
        BY <1>5, Zenon DEF HasSession
    <2>2. seen'[p] = seen[p] /\ (pc[p] = "sent" \/ (pc[p] = "persist" /\ ~Rotated(p)))
        BY <1>5, <2>1, Zenon DEF HandsStay, Rotated
    <2> QED
        BY <1>0, <1>1, <2>2, Zenon DEF TokenFit
<1>6. ASSUME NEW s \in Session, Healthy(row'[s]) PROVE StaysFit(row'[s].rt) \/ Attended(s)'
    <2>1. row'[s].rt = row[s].rt /\ Healthy(row[s])
        BY <1>6, Zenon DEF Healthy, RowsStay
    <2>2. CASE InForce(row[s].rt)
        BY <1>1, <2>1, <2>2, Zenon
    <2>3. ASSUME NEW p \in Proc, pc[p] \in {"persist", "fail"}, job[p] = s,
                 seen[p].rt = row[s].rt
          PROVE  StaysFit(row'[s].rt) \/ Attended(s)'
        <3>1. CASE pc'[p] \in {"persist", "fail"}
            <4>1. HasSession(p)'
                BY <3>1, Zenon DEF HasSession
            <4>2. job'[p] = s /\ seen'[p] = seen[p]
                BY <2>3, <4>1, Zenon DEF HandsStay
            <4> QED
                BY <2>1, <2>3, <3>1, <4>2, Zenon DEF Attended
        <3>2. CASE StaysFit(seen[p].rt)
            BY <2>1, <2>3, <3>2, Zenon
        <3> QED
            BY <1>6, <2>3, <3>1, <3>2, Zenon DEF AttentionStays
    <2>4. InForce(row[s].rt) \/ Attended(s)
        BY <1>0, <2>1, Zenon DEF TokenFit
    <2> QED
        BY <2>2, <2>3, <2>4, Zenon DEF Attended
<1> QED
    BY <1>2, <1>3, <1>4, <1>5, <1>6, Zenon DEF TokenFit, InForce, StaysFit

(* So a step without a new token in hand keeps it. *)
LEMMA TokenFrame ==
    ASSUME TokenInv, HandsStay, RowsStay, SpentIsLost, AttentionStays PROVE TokenInv'
BY KnownFrame, OwnedFrame, FitFrame, Zenon DEF TokenInv

LEMMA SameRows == row' = row => RowsStay
BY Zenon DEF RowsStay

LEMMA SameTokens == UNCHANGED <<issued, spent>> /\ lost \subseteq lost' => SpentIsLost
BY Zenon DEF SpentIsLost

LEMMA LeaveKeepsTokens ==
    ASSUME SafetyInv, TokenInv, NEW p \in Proc, Critical(p),
           NEW answer \in {"idle", "served", "conflict", "next"}, Leave(p, answer),
           RowsStay, UNCHANGED <<issued, spent>>, lost \subseteq lost',
           pc[p] \in {"persist", "fail"} =>
                StaysFit(seen[p].rt) \/ ~Healthy(row'[job[p]])
    PROVE  TokenInv'
<1>1. TypeOK /\ job[p] \in Session
    BY InHand, Zenon
<1> DEFINE label == IF p = Refresher THEN "next" ELSE answer
<1>2. label \in {"idle", "served", "conflict", "next"} /\ label \in Pc /\ answer \in Pc
    BY Zenon DEF Pc
<1>3. Drop(p, label)
    BY <1>1, <1>2, LeaveEffect, Zenon
<1>4. pc'[p] = label /\ \A q \in Proc \ {p} :
        pc'[q] = pc[q] /\ job'[q] = job[q] /\ seen'[q] = seen[q] /\ resp'[q] = resp[q]
    BY <1>1, <1>2, <1>3, DropEffect, Zenon
<1>5. ~HasSession(p)' /\ ~Unborn(p)' /\ pc'[p] \notin {"send", "sent", "persist"}
    BY <1>2, <1>4, Zenon DEF HasSession, Unborn
<1>6. HandsStay
    <2> SUFFICES ASSUME NEW q \in Proc, q # p
                 PROVE  /\ Unborn(q)' => Unborn(q)
                        /\ HasSession(q)' => HasSession(q)
        BY <1>4, <1>5, Zenon DEF HandsStay
    <2> QED
        BY <1>4, Zenon DEF Unborn, HasSession
<1>7. AttentionStays
    BY <1>4, Zenon DEF AttentionStays
<1> QED
    BY <1>6, <1>7, SameTokens, TokenFrame, Zenon

LEMMA GotoKeepsTokens ==
    ASSUME SafetyInv, TokenInv, NEW p \in Proc, HasSession(p),
           NEW label \in {"sent", "persist", "readback", "fail"}, Goto(p, label),
           RowsStay, UNCHANGED <<seen, issued, spent, lost>>,
           \A q \in Proc \ {p} : resp'[q] = resp[q],
           label = "sent" => pc[p] = "send",
           label = "persist" => pc[p] = "sent" /\ resp'[p].rt = None,
           pc[p] \in {"persist", "fail"} /\ label # "fail" =>
                StaysFit(seen[p].rt) \/ ~Healthy(row'[job[p]])
    PROVE  TokenInv'
<1>1. pc'[p] = label /\ job' = job /\ \A q \in Proc \ {p} : pc'[q] = pc[q]
    BY Zenon DEF SafetyInv, TypeOK, Goto
<1>2. ~Unborn(p)'
    BY <1>1, Zenon DEF Unborn
<1>3. HandsStay
    <2> SUFFICES ASSUME NEW q \in Proc
                 PROVE  /\ Unborn(q)' => Unborn(q)
                        /\ HasSession(q)' => HasSession(q)
                        /\ pc'[q] = "persist" => \/ pc[q] = "persist" /\ resp'[q] = resp[q]
                                                 \/ pc[q] = "sent" /\ resp'[q].rt = None
                        /\ pc'[q] \in {"send", "sent"} => pc[q] \in {"send", "sent"}
        BY <1>1, Zenon DEF HandsStay
    <2>1. CASE q = p
        BY <1>1, <1>2, <2>1, Zenon
    <2>2. CASE q # p
        BY <1>1, <2>2, Zenon DEF Unborn, HasSession
    <2> QED
        BY <2>1, <2>2, Zenon
<1>4. AttentionStays
    <2> SUFFICES ASSUME NEW q \in Proc, pc[q] \in {"persist", "fail"},
                        pc'[q] \notin {"persist", "fail"}
                 PROVE  StaysFit(seen[q].rt) \/ ~Healthy(row'[job[q]])
        BY Zenon DEF AttentionStays
    <2>1. q = p /\ label # "fail"
        BY <1>1, Zenon
    <2> QED
        BY <2>1, Zenon
<1> QED
    BY <1>3, <1>4, SameTokens, TokenFrame, Zenon

(* Taking the row of a healthy session in hand. *)
LEMMA TakeKeepsTokens ==
    ASSUME SafetyInv, TokenInv, NEW p \in Proc, p \notin Operator, pc[p] = "get",
           Goto(p, "send"), UNCHANGED <<row, issued, spent, lost, resp>>,
           Healthy(row[job[p]]), seen' = [seen EXCEPT ![p] = row[job[p]]]
    PROVE  TokenInv'
<1> DEFINE k == job[p]
           t == row[k].rt
<1>1. Critical(p) /\ k \in Session /\ row[k] # None
    BY InHand, Zenon DEF Critical, Healthy
<1>2. /\ pc'[p] = "send" /\ job' = job /\ seen'[p] = row[k]
      /\ \A q \in Proc \ {p} : pc'[q] = pc[q] /\ seen'[q] = seen[q]
    BY Zenon DEF SafetyInv, TypeOK, Goto
<1>3. TokenKnown /\ TokenOwned /\ TokenFit
    BY Zenon DEF TokenInv
<1>4. /\ \A q \in Proc \ {p} : (HasSession(q)' <=> HasSession(q)) /\ (Unborn(q)' <=> Unborn(q))
      /\ \A q \in Proc \ {p} : (Holds(q)' <=> Holds(q)) /\ (Rotated(q)' <=> Rotated(q))
      /\ HasSession(p)' /\ ~Unborn(p)' /\ ~Rotated(p)' /\ Holds(p)'
    BY <1>2, Zenon DEF HasSession, Unborn, Rotated, Holds
<1>5. \A q \in Proc : Rotated(q)' => q # p /\ Rotated(q)
    BY <1>4, Zenon
<1>6. \A q \in Proc \ {p} : HasSession(q) => job[q] # k
    BY <1>1, Exclusion, Zenon DEF HasSession, Critical
<1>7. \A q \in Proc \ {p} : Holds(q) => seen[q].rt # t
    BY <1>1, <1>3, <1>6, Zenon DEF TokenOwned
<1>8. InForce(t)
    <2>1. ~Attended(k)
        <3>1. \A q \in Proc : pc[q] \in {"persist", "fail"} => q # p /\ HasSession(q)
            BY Zenon DEF HasSession
        <3> QED
            BY <1>6, <3>1, Zenon DEF Attended
    <2> QED
        BY <1>1, <1>3, <2>1, Zenon DEF TokenFit
<1> HIDE DEF t
<1>9. TokenKnown'
    <2>1. \A q \in Proc : Holds(q)' => seen'[q].rt <= issued
        BY <1>1, <1>2, <1>3, <1>4, Zenon DEF TokenKnown
    <2> QED
        BY <1>3, <1>5, <2>1, Zenon DEF TokenKnown
<1>10. TokenOwned'
    <2>1. \A r, q \in Proc : Holds(r)' /\ Holds(q)' /\ r # q => seen'[r].rt # seen'[q].rt
        <3> SUFFICES ASSUME NEW r \in Proc, NEW q \in Proc, Holds(r)', Holds(q)', r # q
                     PROVE  seen'[r].rt # seen'[q].rt
            BY Zenon
        <3>1. CASE r = p
            BY <1>2, <1>4, <1>7, <3>1, Zenon DEF t
        <3>2. CASE q = p
            BY <1>2, <1>4, <1>7, <3>2, Zenon DEF t
        <3>3. CASE r # p /\ q # p
            <4>1. Holds(r) /\ Holds(q) /\ seen'[r] = seen[r] /\ seen'[q] = seen[q]
                BY <1>2, <1>4, <3>3, Zenon
            <4>2. seen[r].rt # seen[q].rt
                BY <1>3, <4>1, Zenon DEF TokenOwned
            <4> QED
                BY <4>1, <4>2, Zenon
        <3> QED
            BY <3>1, <3>2, <3>3, Zenon
    <2>2. ASSUME NEW q \in Proc, NEW s \in Session,
                 Holds(q)', row[s] # None, seen'[q].rt = row[s].rt
          PROVE  HasSession(q)' /\ job[q] = s
        <3>1. CASE q = p
            <4>1. t = row[s].rt
                BY <1>2, <2>2, <3>1, Zenon DEF t
            <4>2. s = k
                <5>1. row[s].rt = row[k].rt
                    BY <4>1, Zenon DEF t
                <5> HIDE DEF k
                <5> QED
                    BY <1>1, <1>3, <2>2, <5>1, Zenon DEF TokenOwned
            <4> QED
                BY <1>4, <3>1, <4>2, Zenon
        <3>2. CASE q # p
            <4>1. Holds(q) /\ row[s] # None /\ seen[q].rt = row[s].rt
                BY <1>2, <1>4, <2>2, <3>2, Zenon
            <4>2. HasSession(q) /\ job[q] = s
                BY <1>3, <4>1, Zenon DEF TokenOwned
            <4> QED
                BY <1>4, <3>2, <4>2, Zenon
        <3> QED
            BY <3>1, <3>2, Zenon
    <2>3. ASSUME NEW q \in Proc, Rotated(q)'
          PROVE  /\ \A s \in Session : row[s] # None => row[s].rt # resp[q].rt
                 /\ \A r \in Proc : Holds(r)' => seen'[r].rt # resp[q].rt
                 /\ \A r \in Proc : Rotated(r)' /\ r # q => resp[r].rt # resp[q].rt
        <3>1. /\ \A s \in Session : row[s] # None => row[s].rt # resp[q].rt
              /\ \A r \in Proc : Holds(r) => seen[r].rt # resp[q].rt
              /\ \A r \in Proc : Rotated(r) /\ r # q => resp[r].rt # resp[q].rt
            BY <1>3, <1>5, <2>3, Zenon DEF TokenOwned
        <3>2. ASSUME NEW r \in Proc, Holds(r)' PROVE seen'[r].rt # resp[q].rt
            <4>1. CASE r = p
                <5>1. seen'[r].rt = row[k].rt
                    BY <1>2, <4>1, Zenon
                <5>2. row[k].rt # resp[q].rt
                    BY <1>1, <3>1, Zenon
                <5> QED
                    BY <5>1, <5>2, Zenon
            <4>2. CASE r # p
                BY <1>2, <1>4, <3>1, <3>2, <4>2, Zenon
            <4> QED
                BY <4>1, <4>2, Zenon
        <3> QED
            BY <1>5, <3>1, <3>2, Zenon
    <2>4. \A s, r \in Session : row[s] # None /\ row[r] # None /\ s # r => row[s].rt # row[r].rt
        BY <1>3, Zenon DEF TokenOwned
    <2>5. row' = row /\ resp' = resp /\ job' = job
        BY <1>2, Zenon
    <2>6. \A q \in Proc, s \in Session :
            Holds(q)' /\ row'[s] # None /\ seen'[q].rt = row'[s].rt =>
                HasSession(q)' /\ job'[q] = s
        BY <2>2, <2>5, Zenon
    <2>7. \A q \in Proc : Rotated(q)' =>
            /\ \A s \in Session : row'[s] # None => row'[s].rt # resp'[q].rt
            /\ \A r \in Proc : Holds(r)' => seen'[r].rt # resp'[q].rt
            /\ \A r \in Proc : Rotated(r)' /\ r # q => resp'[r].rt # resp'[q].rt
        BY <2>3, <2>5, Zenon
    <2>8. \A s, r \in Session :
            row'[s] # None /\ row'[r] # None /\ s # r => row'[s].rt # row'[r].rt
        BY <2>4, <2>5, Zenon
    <2> QED
        BY <2>1, <2>6, <2>7, <2>8, Zenon DEF TokenOwned
<1>11. TokenFit'
    <2>1. \A q \in Proc : Unborn(q)' => seen'[q].rt \notin spent
        BY <1>2, <1>3, <1>4, Zenon DEF TokenFit
    <2>2. \A q \in Proc : Rotated(q)' => resp[q].rt \notin spent
        BY <1>3, <1>5, Zenon DEF TokenFit
    <2>3. \A q \in Proc : pc'[q] \in {"send", "sent"} => InForce(seen'[q].rt)
        BY <1>2, <1>3, <1>8, Zenon DEF TokenFit, t
    <2>4. \A q \in Proc : pc'[q] = "persist" /\ ~Rotated(q)' => InForce(seen'[q].rt)
        BY <1>2, <1>3, <1>4, Zenon DEF TokenFit
    <2>5. \A s \in Session : Attended(s) => Attended(s)'
        BY <1>2, Zenon DEF Attended
    <2> QED
        BY <1>3, <2>1, <2>2, <2>3, <2>4, <2>5, Zenon DEF TokenFit, InForce
<1> QED
    BY <1>9, <1>10, <1>11, Zenon DEF TokenInv

(* The next token of the provider is nowhere yet. *)
LEMMA NextToken ==
    ASSUME SafetyInv, TokenInv
    PROVE  LET n == issued + 1 IN
           /\ n \notin spent /\ n \in Nat
           /\ \A s \in Session : row[s] # None => row[s].rt # n /\ row[s].rt <= n
           /\ \A q \in Proc : Holds(q) => seen[q].rt # n /\ seen[q].rt <= n
           /\ \A q \in Proc : Rotated(q) => resp[q].rt # n /\ resp[q].rt <= n
           /\ \A t \in spent : t <= n
<1>1. TypeOK /\ LockInv /\ TokenKnown
    BY Zenon DEF SafetyInv, TokenInv
<1>2. issued \in Nat /\ spent \subseteq Int
    BY <1>1, ConstantsAssumption DEF TypeOK, Token
<1>3. \A s \in Session : row[s] # None => row[s].rt \in Int
    BY <1>1 DEF TypeOK, Row, Token
<1>4. \A q \in Proc : Holds(q) => seen[q].rt \in Int
    <2>1. \A q \in Proc : Holds(q) => seen[q] \in Row
        BY <1>1, Zenon DEF LockInv, Holds
    <2> QED
        BY <2>1 DEF Row, Token
<1>5. \A q \in Proc : Rotated(q) => resp[q].rt \in Int
    <2>1. \A q \in Proc : Rotated(q) => resp[q] \in Response
        BY <1>1, Zenon DEF LockInv, Rotated
    <2>2. \A r \in Response : r.rt # None => r.rt \in Int
        BY DEF Response, Token
    <2> QED
        BY <2>1, <2>2, Zenon DEF Rotated
<1>6. \A i \in Int : i <= issued => i # issued + 1 /\ i <= issued + 1
    BY <1>2
<1>7. issued + 1 \notin spent /\ issued + 1 \in Nat /\ \A t \in spent : t <= issued + 1
    BY <1>1, <1>2 DEF TokenKnown
<1> QED
    BY <1>1, <1>3, <1>4, <1>5, <1>6, <1>7, Zenon DEF TokenKnown

LEMMA BootstrapKeepsTokens ==
    ASSUME SafetyInv, TokenInv, NEW p \in Operator, BootstrapStart(p)
    PROVE  TokenInv'
<1> DEFINE n == issued + 1
<1>0. TypeOK /\ p \in Proc /\ TokenKnown /\ TokenOwned /\ TokenFit
    BY Tasks, Zenon DEF SafetyInv, TokenInv
<1>1. /\ pc'[p] = "wait" /\ pc[p] = "idle" /\ issued' = n /\ seen'[p].rt = n
      /\ \A q \in Proc \ {p} : pc'[q] = pc[q] /\ job'[q] = job[q] /\ seen'[q] = seen[q]
      /\ row' = row /\ resp' = resp /\ spent' = spent /\ lost' = lost
    BY <1>0, Zenon DEF TypeOK, BootstrapStart
<1>2. /\ \A q \in Proc \ {p} : (HasSession(q)' <=> HasSession(q)) /\ (Unborn(q)' <=> Unborn(q))
      /\ \A q \in Proc \ {p} : Holds(q)' <=> Holds(q)
      /\ ~HasSession(p) /\ ~HasSession(p)'
      /\ \A q \in Proc : Rotated(q)' => q # p /\ Rotated(q)
    BY <1>1, Zenon DEF HasSession, Unborn, Rotated, Holds
<1>3. /\ n \notin spent /\ n \in Nat
      /\ \A s \in Session : row[s] # None => row[s].rt # n /\ row[s].rt <= n
      /\ \A q \in Proc : Holds(q) => seen[q].rt # n /\ seen[q].rt <= n
      /\ \A q \in Proc : Rotated(q) => resp[q].rt # n /\ resp[q].rt <= n
      /\ \A t \in spent : t <= n
    BY NextToken, Zenon
<1>4. n <= n
    BY <1>3
<1> HIDE DEF n
<1>5. TokenKnown'
    <2>1. \A q \in Proc : Holds(q)' => seen'[q].rt <= n
        BY <1>1, <1>2, <1>3, <1>4, Zenon
    <2> QED
        BY <1>1, <1>2, <1>3, <2>1, Zenon DEF TokenKnown
<1>6. TokenOwned'
    <2>1. ASSUME NEW r \in Proc, NEW q \in Proc, Holds(r)', Holds(q)', r # q
          PROVE  seen'[r].rt # seen'[q].rt
        <3>1. CASE r = p
            BY <1>1, <1>2, <1>3, <2>1, <3>1, Zenon
        <3>2. CASE q = p
            BY <1>1, <1>2, <1>3, <2>1, <3>2, Zenon
        <3>3. CASE r # p /\ q # p
            <4>1. Holds(r) /\ Holds(q) /\ seen'[r] = seen[r] /\ seen'[q] = seen[q]
                BY <1>1, <1>2, <2>1, <3>3, Zenon
            <4>2. seen[r].rt # seen[q].rt
                BY <1>0, <2>1, <4>1, Zenon DEF TokenOwned
            <4> QED
                BY <4>1, <4>2, Zenon
        <3> QED
            BY <3>1, <3>2, <3>3, Zenon
    <2>2. ASSUME NEW q \in Proc, NEW s \in Session,
                 Holds(q)', row'[s] # None, seen'[q].rt = row'[s].rt
          PROVE  HasSession(q)' /\ job'[q] = s
        <3>1. q # p
            BY <1>1, <1>3, <2>2, Zenon
        <3>2. Holds(q) /\ row[s] # None /\ seen[q].rt = row[s].rt
            BY <1>1, <1>2, <2>2, <3>1, Zenon
        <3>3. HasSession(q) /\ job[q] = s
            BY <1>0, <3>2, Zenon DEF TokenOwned
        <3> QED
            BY <1>1, <1>2, <3>1, <3>3, Zenon
    <2>3. ASSUME NEW q \in Proc, Rotated(q)'
          PROVE  /\ \A s \in Session : row'[s] # None => row'[s].rt # resp'[q].rt
                 /\ \A r \in Proc : Holds(r)' => seen'[r].rt # resp'[q].rt
                 /\ \A r \in Proc : Rotated(r)' /\ r # q => resp'[r].rt # resp'[q].rt
        <3>1. Rotated(q)
            BY <1>2, <2>3, Zenon
        <3>2. /\ \A s \in Session : row[s] # None => row[s].rt # resp[q].rt
              /\ \A r \in Proc : Holds(r) => seen[r].rt # resp[q].rt
              /\ \A r \in Proc : Rotated(r) /\ r # q => resp[r].rt # resp[q].rt
            BY <1>0, <3>1, Zenon DEF TokenOwned
        <3>3. ASSUME NEW r \in Proc, Holds(r)' PROVE seen'[r].rt # resp[q].rt
            <4>1. CASE r = p
                BY <1>1, <1>3, <3>1, <4>1, Zenon
            <4>2. CASE r # p
                BY <1>1, <1>2, <3>2, <3>3, <4>2, Zenon
            <4> QED
                BY <4>1, <4>2, Zenon
        <3> QED
            BY <1>1, <1>2, <3>2, <3>3, Zenon
    <2>4. \A s, t \in Session :
            row'[s] # None /\ row'[t] # None /\ s # t => row'[s].rt # row'[t].rt
        BY <1>0, <1>1, Zenon DEF TokenOwned
    <2> QED
        BY <2>1, <2>2, <2>3, <2>4, Zenon DEF TokenOwned
<1>7. TokenFit'
    <2>1. \A q \in Proc : Unborn(q)' => seen'[q].rt \notin spent'
        BY <1>0, <1>1, <1>2, <1>3, Zenon DEF TokenFit
    <2>2. \A q \in Proc : Rotated(q)' => resp'[q].rt \notin spent'
        BY <1>0, <1>1, <1>2, Zenon DEF TokenFit
    <2>3. \A q \in Proc : pc'[q] \in {"send", "sent"} => StaysFit(seen'[q].rt)
        BY <1>0, <1>1, Zenon DEF TokenFit, InForce, StaysFit
    <2>4. \A q \in Proc : pc'[q] = "persist" /\ ~Rotated(q)' => StaysFit(seen'[q].rt)
        BY <1>0, <1>1, Zenon DEF TokenFit, InForce, StaysFit, Rotated
    <2>5. \A s \in Session : Healthy(row'[s]) => StaysFit(row'[s].rt) \/ Attended(s)'
        <3>1. \A s \in Session : Attended(s) => Attended(s)'
            BY <1>1, Zenon DEF Attended
        <3> QED
            BY <1>0, <1>1, <3>1, Zenon DEF TokenFit, InForce, StaysFit
    <2> QED
        BY <2>1, <2>2, <2>3, <2>4, <2>5, Zenon DEF TokenFit, InForce, StaysFit
<1> QED
    BY <1>5, <1>6, <1>7, Zenon DEF TokenInv

LEMMA CreateKeepsTokens ==
    ASSUME SafetyInv, TokenInv, NEW p \in Proc, Unborn(p), pc[p] = "get",
           row[job[p]] = None, row' = [row EXCEPT ![job[p]] = seen[p]], Goto(p, "send"),
           UNCHANGED <<seen, resp, issued, spent, lost>>
    PROVE  TokenInv'
<1> DEFINE k == job[p]
<1>0. TypeOK /\ TokenKnown /\ TokenOwned /\ TokenFit /\ k \in Session
    BY InHand, Zenon DEF SafetyInv, TokenInv, Critical
<1>1. /\ pc'[p] = "send" /\ job' = job /\ \A q \in Proc \ {p} : pc'[q] = pc[q]
      /\ seen' = seen /\ resp' = resp /\ issued' = issued /\ spent' = spent /\ lost' = lost
    BY <1>0, Zenon DEF TypeOK, Goto
<1>2. row'[k] = seen[p] /\ \A s \in Session \ {k} : row'[s] = row[s]
    BY <1>0, Zenon DEF TypeOK
<1> HIDE DEF k
<1>3. /\ \A q \in Proc \ {p} : (HasSession(q)' <=> HasSession(q)) /\ (Unborn(q)' <=> Unborn(q))
      /\ \A q \in Proc : Holds(q)' <=> Holds(q)
      /\ HasSession(p)' /\ ~HasSession(p) /\ Holds(p) /\ ~Unborn(p)'
      /\ \A q \in Proc : Rotated(q)' => q # p /\ Rotated(q)
    BY <1>1, Zenon DEF HasSession, Unborn, Rotated, Holds
<1>4. \A s \in Session : row[s] # None => row[s].rt # seen[p].rt
    BY <1>0, <1>3, Zenon DEF TokenOwned
<1>5. \A q \in Proc : Holds(q) /\ q # p => seen[q].rt # seen[p].rt
    BY <1>0, <1>3, Zenon DEF TokenOwned
<1>6. \A q \in Proc : Rotated(q) => resp[q].rt # seen[p].rt
    BY <1>0, <1>3, Zenon DEF TokenOwned
<1>7. seen[p].rt \notin spent /\ seen[p].rt <= issued
    BY <1>0, <1>3, Zenon DEF TokenFit, TokenKnown
<1>8. TokenKnown'
    <2>1. \A s \in Session : row'[s] # None => row'[s].rt <= issued
        BY <1>0, <1>2, <1>7, Zenon DEF TokenKnown
    <2> QED
        BY <1>0, <1>1, <1>3, <2>1, Zenon DEF TokenKnown
<1>9. TokenOwned'
    <2>1. ASSUME NEW s \in Session, NEW t \in Session, row'[s] # None, row'[t] # None, s # t
          PROVE  row'[s].rt # row'[t].rt
        <3>1. CASE s = k
            BY <1>2, <1>4, <2>1, <3>1, Zenon
        <3>2. CASE t = k
            BY <1>2, <1>4, <2>1, <3>2, Zenon
        <3>3. CASE s # k /\ t # k
            <4>1. row'[s] = row[s] /\ row'[t] = row[t]
                BY <1>2, <3>3, Zenon
            <4>2. row[s].rt # row[t].rt
                BY <1>0, <2>1, <4>1, Zenon DEF TokenOwned
            <4> QED
                BY <4>1, <4>2, Zenon
        <3> QED
            BY <3>1, <3>2, <3>3, Zenon
    <2>2. ASSUME NEW q \in Proc, NEW s \in Session,
                 Holds(q)', row'[s] # None, seen'[q].rt = row'[s].rt
          PROVE  HasSession(q)' /\ job'[q] = s
        <3>1. CASE s = k
            <4>1. q = p
                BY <1>1, <1>2, <1>3, <1>5, <2>2, <3>1, Zenon
            <4> QED
                BY <1>1, <1>3, <3>1, <4>1, Zenon DEF k
        <3>2. CASE s # k
            <4>1. Holds(q) /\ row[s] # None /\ seen[q].rt = row[s].rt
                BY <1>1, <1>2, <1>3, <2>2, <3>2, Zenon
            <4>2. HasSession(q) /\ job[q] = s
                BY <1>0, <4>1, Zenon DEF TokenOwned
            <4> QED
                BY <1>1, <1>3, <4>2, Zenon
        <3> QED
            BY <3>1, <3>2, Zenon
    <2>3. ASSUME NEW q \in Proc, Rotated(q)'
          PROVE  /\ \A s \in Session : row'[s] # None => row'[s].rt # resp'[q].rt
                 /\ \A r \in Proc : Holds(r)' => seen'[r].rt # resp'[q].rt
                 /\ \A r \in Proc : Rotated(r)' /\ r # q => resp'[r].rt # resp'[q].rt
        <3>1. Rotated(q)
            BY <1>3, <2>3, Zenon
        <3>2. /\ \A s \in Session : row[s] # None => row[s].rt # resp[q].rt
              /\ \A r \in Proc : Holds(r) => seen[r].rt # resp[q].rt
              /\ \A r \in Proc : Rotated(r) /\ r # q => resp[r].rt # resp[q].rt
            BY <1>0, <3>1, Zenon DEF TokenOwned
        <3>3. \A s \in Session : row'[s] # None => row'[s].rt # resp[q].rt
            BY <1>2, <1>6, <3>1, <3>2, Zenon
        <3> QED
            BY <1>1, <1>3, <3>2, <3>3, Zenon
    <2>4. ASSUME NEW r \in Proc, NEW q \in Proc, Holds(r)', Holds(q)', r # q
          PROVE  seen'[r].rt # seen'[q].rt
        <3>1. Holds(r) /\ Holds(q)
            BY <1>3, <2>4, Zenon
        <3>2. seen[r].rt # seen[q].rt
            BY <1>0, <2>4, <3>1, Zenon DEF TokenOwned
        <3> QED
            BY <1>1, <3>2, Zenon
    <2> QED
        BY <2>1, <2>2, <2>3, <2>4, Zenon DEF TokenOwned
<1>10. TokenFit'
    <2>1. \A q \in Proc : Unborn(q)' => seen'[q].rt \notin spent'
        BY <1>0, <1>1, <1>3, Zenon DEF TokenFit
    <2>2. \A q \in Proc : Rotated(q)' => resp'[q].rt \notin spent'
        BY <1>0, <1>1, <1>3, Zenon DEF TokenFit
    <2>3. \A q \in Proc : pc'[q] \in {"send", "sent"} => StaysFit(seen'[q].rt)
        BY <1>0, <1>1, <1>7, Zenon DEF TokenFit, InForce, StaysFit
    <2>4. \A q \in Proc : pc'[q] = "persist" /\ ~Rotated(q)' => StaysFit(seen'[q].rt)
        BY <1>0, <1>1, Zenon DEF TokenFit, InForce, StaysFit, Rotated
    <2>5. ASSUME NEW s \in Session, Healthy(row'[s])
          PROVE  StaysFit(row'[s].rt) \/ Attended(s)'
        <3>1. CASE s = k
            BY <1>1, <1>2, <1>7, <3>1, Zenon DEF StaysFit
        <3>2. CASE s # k
            <4>1. row'[s] = row[s]
                BY <1>2, <3>2, Zenon
            <4>2. Attended(s) => Attended(s)'
                BY <1>1, <4>1, Zenon DEF Attended
            <4> QED
                BY <1>0, <1>1, <2>5, <4>1, <4>2, Zenon DEF TokenFit, InForce, StaysFit
        <3> QED
            BY <3>1, <3>2, Zenon
    <2> QED
        BY <2>1, <2>2, <2>3, <2>4, <2>5, Zenon DEF TokenFit, InForce, StaysFit
<1> QED
    BY <1>8, <1>9, <1>10, Zenon DEF TokenInv

(* The provider has spent the token of p, and p knows or will know. *)
LEMMA SpendFit ==
    ASSUME TokenInv, NEW p \in Proc, pc[p] = "sent", spent' = spent \cup {seen[p].rt},
           UNCHANGED <<row, job, seen, lost>>,
           \A q \in Proc \ {p} : pc'[q] = pc[q] /\ resp'[q] = resp[q],
           pc'[p] \in {"persist", "fail"},
           pc'[p] = "persist" => Rotated(p)' /\ resp'[p].rt \notin spent'
    PROVE  TokenFit'
<1>0. TokenOwned /\ TokenFit /\ Holds(p)
    BY SentHolds, Zenon DEF TokenInv
<1>1. row' = row /\ job' = job /\ seen' = seen /\ lost' = lost
    BY Zenon
<1>2. /\ \A q \in Proc \ {p} : (Unborn(q)' => Unborn(q)) /\ (Rotated(q)' <=> Rotated(q))
      /\ ~Unborn(p)'
    BY Zenon DEF Unborn, Rotated
<1>3. \A q \in Proc : Holds(q) /\ q # p => seen[q].rt # seen[p].rt
    BY <1>0, Zenon DEF TokenOwned
<1>4. ASSUME NEW t, InForce(t), t # seen[p].rt PROVE StaysFit(t)
    BY <1>1, <1>4, Zenon DEF InForce, StaysFit
<1>5. \A q \in Proc : Unborn(q)' => seen'[q].rt \notin spent'
    <2>1. \A q \in Proc : Unborn(q) => Holds(q)
        BY Zenon DEF Holds
    <2> QED
        BY <1>0, <1>1, <1>2, <1>3, <2>1, Zenon DEF TokenFit
<1>6. ASSUME NEW q \in Proc, Rotated(q)' PROVE resp'[q].rt \notin spent'
    <2>1. CASE q = p
        BY <1>6, <2>1, Zenon DEF Rotated
    <2>2. CASE q # p
        <3>1. Rotated(q) /\ resp'[q] = resp[q]
            BY <1>2, <1>6, <2>2, Zenon
        <3>2. resp[q].rt \notin spent /\ resp[q].rt # seen[p].rt
            BY <1>0, <3>1, Zenon DEF TokenFit, TokenOwned
        <3> QED
            BY <3>1, <3>2, Zenon
    <2> QED
        BY <2>1, <2>2, Zenon
<1>7. ASSUME NEW q \in Proc,
             pc'[q] \in {"send", "sent"} \/ (pc'[q] = "persist" /\ ~Rotated(q)')
      PROVE  StaysFit(seen'[q].rt)
    <2>1. q # p
        BY <1>7, Zenon
    <2>2. /\ Holds(q)
          /\ pc[q] \in {"send", "sent"} \/ (pc[q] = "persist" /\ ~Rotated(q))
        BY <1>2, <1>7, <2>1, Zenon DEF Holds, HasSession
    <2>3. InForce(seen[q].rt) /\ seen[q].rt # seen[p].rt
        BY <1>0, <1>3, <2>1, <2>2, Zenon DEF TokenFit
    <2> QED
        BY <1>1, <1>4, <2>3, Zenon
<1>8. ASSUME NEW s \in Session, Healthy(row'[s]) PROVE StaysFit(row'[s].rt) \/ Attended(s)'
    <2>1. CASE row[s].rt = seen[p].rt
        <3>1. row[s] # None /\ seen[p].rt = row[s].rt
            BY <1>1, <1>8, <2>1, Zenon DEF Healthy
        <3>2. job[p] = s
            BY <1>0, <3>1, Zenon DEF TokenOwned
        <3> QED
            BY <1>1, <2>1, <3>2, Zenon DEF Attended
    <2>2. CASE row[s].rt # seen[p].rt
        <3>1. Attended(s) => Attended(s)'
            <4>1. \A q \in Proc : pc[q] \in {"persist", "fail"} => pc'[q] = pc[q]
                BY Zenon
            <4> QED
                BY <1>1, <4>1, Zenon DEF Attended
        <3>2. InForce(row[s].rt) \/ Attended(s)
            BY <1>0, <1>1, <1>8, Zenon DEF TokenFit
        <3> QED
            BY <1>1, <1>4, <2>2, <3>1, <3>2, Zenon
    <2> QED
        BY <2>1, <2>2, Zenon
<1> QED
    BY <1>5, <1>6, <1>7, <1>8, Zenon DEF TokenFit, InForce, StaysFit

LEMMA ExchangeKeepsTokens ==
    ASSUME SafetyInv, TokenInv, NEW p \in Proc, Exchange(p) PROVE TokenInv'
<1> DEFINE n == issued + 1
<1>0. TypeOK /\ TokenKnown /\ TokenOwned /\ HasSession(p) /\ Holds(p) /\ pc[p] = "sent"
    BY SentHolds, Zenon DEF SafetyInv, TokenInv, Exchange
<1>a. resp \in [Proc -> Response \cup {None}]
    BY <1>0, Zenon DEF TypeOK
<1>1. Goto(p, "persist") /\ UNCHANGED <<row, seen, lost>>
    BY Zenon DEF Exchange
<1>2. /\ pc'[p] = "persist" /\ \A q \in Proc \ {p} : pc'[q] = pc[q]
      /\ row' = row /\ job' = job /\ seen' = seen /\ lost' = lost
    BY <1>0, <1>1, Zenon DEF TypeOK, Goto
<1>3. CASE \E life \in Lifetime :
            /\ resp' = [resp EXCEPT ![p] = [exp |-> now + life, rt |-> None]]
            /\ UNCHANGED providerVars
    <2>1. /\ resp'[p].rt = None /\ \A q \in Proc \ {p} : resp'[q] = resp[q]
          /\ UNCHANGED <<issued, spent>>
        <3>1. PICK life \in Lifetime :
                resp' = [resp EXCEPT ![p] = [exp |-> now + life, rt |-> None]]
            BY <1>3, Zenon
        <3>2. UNCHANGED <<issued, spent>>
            BY <1>3, Zenon DEF providerVars
        <3>3. \A q \in Proc \ {p} : resp'[q] = resp[q]
            BY <1>a, <3>1, Zenon
        <3>4. resp'[p] = [exp |-> now + life, rt |-> None]
            BY <1>a, <3>1, Zenon
        <3>5. resp'[p].rt = None
            BY <3>4
        <3> QED
            BY <3>2, <3>3, <3>5, Zenon
    <2> QED
        BY <1>0, <1>1, <2>1, SameRows, GotoKeepsTokens, Zenon
<1>4. CASE \E life \in Lifetime :
            /\ issued' = issued + 1 /\ spent' = spent \cup {seen[p].rt}
            /\ resp' = [resp EXCEPT ![p] = [exp |-> now + life, rt |-> issued + 1]]
    <2>1. /\ issued' = n /\ spent' = spent \cup {seen[p].rt} /\ resp'[p].rt = n
          /\ \A q \in Proc \ {p} : resp'[q] = resp[q]
        <3>1. PICK life \in Lifetime :
                /\ issued' = issued + 1 /\ spent' = spent \cup {seen[p].rt}
                /\ resp' = [resp EXCEPT ![p] = [exp |-> now + life, rt |-> issued + 1]]
            BY <1>4, Zenon
        <3>2. \A q \in Proc \ {p} : resp'[q] = resp[q]
            BY <1>a, <3>1, Zenon
        <3>3. resp'[p] = [exp |-> now + life, rt |-> issued + 1]
            BY <1>a, <3>1, Zenon
        <3>4. resp'[p].rt = n
            BY <3>3
        <3> QED
            BY <3>1, <3>2, <3>4, Zenon
    <2>2. /\ n \notin spent /\ n \in Nat
          /\ \A s \in Session : row[s] # None => row[s].rt # n /\ row[s].rt <= n
          /\ \A q \in Proc : Holds(q) => seen[q].rt # n /\ seen[q].rt <= n
          /\ \A q \in Proc : Rotated(q) => resp[q].rt # n /\ resp[q].rt <= n
          /\ \A t \in spent : t <= n
        BY NextToken, Zenon
    <2>3. n <= n /\ n # None /\ n \notin spent'
        <3>1. n <= n /\ n \in Int
            BY <2>2
        <3>2. n # None
            BY <3>1, ConstantsAssumption, Zenon
        <3> QED
            BY <1>0, <2>1, <2>2, <3>1, <3>2, Zenon
    <2> HIDE DEF n
    <2>4. /\ \A q \in Proc : (HasSession(q)' <=> HasSession(q)) /\ (Holds(q)' <=> Holds(q))
          /\ \A q \in Proc \ {p} : Rotated(q)' <=> Rotated(q)
          /\ Rotated(p)'
        <3>1. Rotated(p)' /\ \A q \in Proc \ {p} : Rotated(q)' <=> Rotated(q)
            BY <1>2, <2>1, <2>3, Zenon DEF Rotated
        <3>2. HasSession(p)' /\ ~Unborn(p) /\ ~Unborn(p)'
            BY <1>0, <1>2, Zenon DEF HasSession, Unborn
        <3>3. \A q \in Proc \ {p} :
                (HasSession(q)' <=> HasSession(q)) /\ (Unborn(q)' <=> Unborn(q))
            BY <1>2, Zenon DEF HasSession, Unborn
        <3> QED
            BY <1>0, <3>1, <3>2, <3>3, Zenon DEF Holds
    <2>5. TokenFit'
        BY <1>0, <1>2, <2>1, <2>3, <2>4, SpendFit, Zenon
    <2>6. TokenKnown'
        <3>1. \A q \in Proc : Rotated(q)' => resp'[q].rt <= n
            BY <2>1, <2>2, <2>3, <2>4, Zenon
        <3>2. \A t \in spent' : t <= n
            BY <1>0, <2>1, <2>2, Zenon
        <3>3. \A q \in Proc : Holds(q)' => seen'[q].rt <= n
            BY <1>2, <2>2, <2>4, Zenon
        <3> QED
            BY <1>2, <2>1, <2>2, <3>1, <3>2, <3>3, Zenon DEF TokenKnown
    <2>7. TokenOwned'
        <3>1. ASSUME NEW q \in Proc, Rotated(q)'
              PROVE  /\ \A s \in Session : row'[s] # None => row'[s].rt # resp'[q].rt
                     /\ \A r \in Proc : Holds(r)' => seen'[r].rt # resp'[q].rt
                     /\ \A r \in Proc : Rotated(r)' /\ r # q => resp'[r].rt # resp'[q].rt
            <4>1. CASE q = p
                <5>1. \A r \in Proc : Rotated(r)' /\ r # q => resp'[r].rt # n
                    BY <2>1, <2>2, <2>4, <4>1, Zenon
                <5>2. \A r \in Proc : Holds(r)' => seen'[r].rt # n
                    BY <1>2, <2>2, <2>4, Zenon
                <5>3. \A s \in Session : row'[s] # None => row'[s].rt # n
                    BY <1>2, <2>2, Zenon
                <5> QED
                    BY <2>1, <4>1, <5>1, <5>2, <5>3, Zenon
            <4>2. CASE q # p
                <5>1. Rotated(q) /\ resp'[q] = resp[q] /\ resp[q].rt # n
                    BY <2>1, <2>2, <2>4, <3>1, <4>2, Zenon
                <5>2. /\ \A s \in Session : row[s] # None => row[s].rt # resp[q].rt
                      /\ \A r \in Proc : Holds(r) => seen[r].rt # resp[q].rt
                      /\ \A r \in Proc : Rotated(r) /\ r # q => resp[r].rt # resp[q].rt
                    BY <1>0, <5>1, Zenon DEF TokenOwned
                <5>3. \A r \in Proc : Rotated(r)' /\ r # q => resp'[r].rt # resp[q].rt
                    BY <2>1, <2>4, <5>1, <5>2, Zenon
                <5>4. \A r \in Proc : Holds(r)' => seen'[r].rt # resp[q].rt
                    BY <1>2, <2>4, <5>2, Zenon
                <5>5. \A s \in Session : row'[s] # None => row'[s].rt # resp[q].rt
                    BY <1>2, <5>2, Zenon
                <5> QED
                    BY <5>1, <5>3, <5>4, <5>5, Zenon
            <4> QED
                BY <4>1, <4>2, Zenon
        <3>2. ASSUME NEW r \in Proc, NEW q \in Proc, Holds(r)', Holds(q)', r # q
              PROVE  seen'[r].rt # seen'[q].rt
            <4>1. Holds(r) /\ Holds(q)
                BY <2>4, <3>2, Zenon
            <4>2. seen[r].rt # seen[q].rt
                BY <1>0, <3>2, <4>1, Zenon DEF TokenOwned
            <4> QED
                BY <1>2, <4>2, Zenon
        <3>3. ASSUME NEW q \in Proc, NEW s \in Session,
                     Holds(q)', row'[s] # None, seen'[q].rt = row'[s].rt
              PROVE  HasSession(q)' /\ job'[q] = s
            <4>1. Holds(q) /\ row[s] # None /\ seen[q].rt = row[s].rt
                BY <1>2, <2>4, <3>3, Zenon
            <4>2. HasSession(q) /\ job[q] = s
                BY <1>0, <4>1, Zenon DEF TokenOwned
            <4> QED
                BY <1>2, <2>4, <4>2, Zenon
        <3>4. \A s, t \in Session :
                row'[s] # None /\ row'[t] # None /\ s # t => row'[s].rt # row'[t].rt
            BY <1>0, <1>2, Zenon DEF TokenOwned
        <3> QED
            BY <3>1, <3>2, <3>3, <3>4, Zenon DEF TokenOwned
    <2> QED
        BY <2>5, <2>6, <2>7, Zenon DEF TokenInv
<1> QED
    BY <1>3, <1>4, Zenon DEF Exchange

LEMMA ExchangeFailsKeepsTokens ==
    ASSUME SafetyInv, TokenInv, NEW p \in Proc, ExchangeFails(p) PROVE TokenInv'
<1>0. TypeOK /\ TokenKnown /\ TokenOwned /\ HasSession(p) /\ Holds(p) /\ pc[p] = "sent"
    BY SentHolds, Zenon DEF SafetyInv, TokenInv, ExchangeFails
<1>1. Goto(p, "fail") /\ UNCHANGED <<row, seen, resp, issued, lost>>
    BY Zenon DEF ExchangeFails
<1>2. /\ pc'[p] = "fail" /\ \A q \in Proc \ {p} : pc'[q] = pc[q]
      /\ row' = row /\ job' = job /\ seen' = seen /\ resp' = resp
      /\ issued' = issued /\ lost' = lost
    BY <1>0, <1>1, Zenon DEF TypeOK, Goto
<1>3. CASE spent' = spent
    BY <1>0, <1>1, <1>2, <1>3, SameRows, GotoKeepsTokens, Zenon
<1>4. CASE spent' = spent \cup {seen[p].rt}
    <2>1. TokenFit'
        BY <1>0, <1>2, <1>4, SpendFit, Zenon
    <2>2. HandsStay
        <3>1. HasSession(p)' /\ ~Unborn(p)'
            BY <1>2, Zenon DEF HasSession, Unborn
        <3>2. \A q \in Proc \ {p} : (HasSession(q)' => HasSession(q)) /\ (Unborn(q)' => Unborn(q))
            BY <1>2, Zenon DEF HasSession, Unborn
        <3> QED
            BY <1>0, <1>2, <3>1, <3>2, Zenon DEF HandsStay
    <2>3. TokenOwned'
        BY <1>0, <1>2, <2>2, SameRows, OwnedFrame, Zenon
    <2>4. TokenKnown'
        <3>1. \A t \in spent' : t <= issued
            BY <1>0, <1>4, Zenon DEF TokenKnown
        <3>2. \A q \in Proc : Holds(q)' => seen'[q].rt <= issued
            BY <1>0, <2>2, HoldsStays, Zenon DEF TokenKnown
        <3>3. \A q \in Proc : Rotated(q)' => resp'[q].rt <= issued
            BY <1>0, <2>2, HoldsStays, Zenon DEF TokenKnown
        <3>4. \A s \in Session : row[s] # None => row[s].rt <= issued
            BY <1>0, Zenon DEF TokenKnown
        <3> QED
            BY <1>2, <3>1, <3>2, <3>3, <3>4, Zenon DEF TokenKnown
    <2> QED
        BY <2>1, <2>3, <2>4, Zenon DEF TokenInv
<1> QED
    BY <1>3, <1>4, Zenon DEF ExchangeFails

LEMMA PersistKeepsTokens ==
    ASSUME SafetyInv, TokenInv, NEW p \in Proc, Persist(p) PROVE TokenInv'
<1> DEFINE k == job[p]
           m == resp[p].rt
<1>0. TypeOK /\ TokenKnown /\ TokenOwned /\ TokenFit /\ pc[p] = "persist"
    BY Zenon DEF SafetyInv, TokenInv, Persist
<1>1. HasSession(p) /\ k \in Session /\ resp[p] \in Response
    BY <1>0, InHand, Zenon DEF HasSession, Critical
<1>2. /\ \A t \in Session \ {k} : row'[t] = row[t]
      /\ row[k] = None => row'[k] = None
      /\ row[k] # None => row'[k].rt = (IF m = None THEN row[k].rt ELSE m)
    BY <1>0, <1>1, UpdateTokensEffect, Zenon DEF Persist
<1>3. Goto(p, "readback") /\ UNCHANGED <<seen, issued, spent, lost>>
      /\ \A q \in Proc \ {p} : resp'[q] = resp[q]
    BY <1>0, Zenon DEF TypeOK, Persist, providerVars
<1>4. row[k] # None => Healthy(row[k])
    BY <1>1, Zenon DEF SafetyInv, GenInv, Healthy
<1> HIDE DEF k
<1>5. CASE row[k] = None \/ m = None
    <2>1. RowsStay
        BY <1>2, <1>4, <1>5, Zenon DEF RowsStay
    <2>2. StaysFit(seen[p].rt) \/ ~Healthy(row'[k])
        <3>1. CASE row[k] = None
            BY <1>2, <3>1, Zenon DEF Healthy
        <3>2. CASE m = None
            <4>1. InForce(seen[p].rt)
                BY <1>0, <3>2, Zenon DEF TokenFit, Rotated
            <4> QED
                BY <1>3, <4>1, Zenon DEF InForce, StaysFit
        <3> QED
            BY <1>5, <3>1, <3>2, Zenon
    <2> QED
        BY <1>1, <1>3, <2>1, <2>2, GotoKeepsTokens, Zenon DEF k
<1>6. CASE row[k] # None /\ m # None
    <2>1. Rotated(p) /\ row'[k].rt = m
        BY <1>0, <1>2, <1>6, Zenon DEF Rotated
    <2>2. /\ pc'[p] = "readback" /\ job' = job /\ \A q \in Proc \ {p} : pc'[q] = pc[q]
          /\ seen' = seen /\ issued' = issued /\ spent' = spent /\ lost' = lost
        BY <1>0, <1>3, Zenon DEF TypeOK, Goto
    <2>3. /\ \A q \in Proc : (HasSession(q)' <=> HasSession(q)) /\ (Holds(q)' <=> Holds(q))
          /\ \A q \in Proc : Unborn(q)' => Unborn(q)
          /\ \A q \in Proc : Rotated(q)' => q # p /\ Rotated(q) /\ resp'[q] = resp[q]
        <3>1. HasSession(p)' /\ ~Unborn(p) /\ ~Unborn(p)' /\ ~Rotated(p)'
            BY <1>1, <2>2, Zenon DEF HasSession, Unborn, Rotated
        <3>2. \A q \in Proc \ {p} :
                /\ HasSession(q)' <=> HasSession(q)
                /\ Unborn(q)' <=> Unborn(q)
                /\ Rotated(q)' <=> Rotated(q)
            BY <1>3, <2>2, Zenon DEF HasSession, Unborn, Rotated
        <3> QED
            BY <1>1, <1>3, <3>1, <3>2, Zenon DEF Holds
    <2>4. /\ \A s \in Session : row[s] # None => row[s].rt # m
          /\ \A q \in Proc : Holds(q) => seen[q].rt # m
          /\ \A q \in Proc : Rotated(q) /\ q # p => resp[q].rt # m
          /\ m \notin spent /\ m <= issued
        BY <1>0, <2>1, Zenon DEF TokenOwned, TokenFit, TokenKnown
    <2> HIDE DEF m
    <2>5. TokenKnown'
        <3>1. \A s \in Session : row'[s] # None => row'[s].rt <= issued
            BY <1>0, <1>2, <2>1, <2>4, Zenon DEF TokenKnown
        <3> QED
            BY <1>0, <2>2, <2>3, <3>1, Zenon DEF TokenKnown
    <2>6. TokenOwned'
        <3>1. ASSUME NEW s \in Session, NEW t \in Session, row'[s] # None, row'[t] # None, s # t
              PROVE  row'[s].rt # row'[t].rt
            <4>1. CASE s = k
                BY <1>2, <2>1, <2>4, <3>1, <4>1, Zenon
            <4>2. CASE t = k
                BY <1>2, <2>1, <2>4, <3>1, <4>2, Zenon
            <4>3. CASE s # k /\ t # k
                <5>1. row'[s] = row[s] /\ row'[t] = row[t]
                    BY <1>2, <4>3, Zenon
                <5>2. row[s].rt # row[t].rt
                    BY <1>0, <3>1, <5>1, Zenon DEF TokenOwned
                <5> QED
                    BY <5>1, <5>2, Zenon
            <4> QED
                BY <4>1, <4>2, <4>3, Zenon
        <3>2. ASSUME NEW r \in Proc, NEW q \in Proc, Holds(r)', Holds(q)', r # q
              PROVE  seen'[r].rt # seen'[q].rt
            <4>1. Holds(r) /\ Holds(q)
                BY <2>3, <3>2, Zenon
            <4>2. seen[r].rt # seen[q].rt
                BY <1>0, <3>2, <4>1, Zenon DEF TokenOwned
            <4> QED
                BY <2>2, <4>2, Zenon
        <3>3. ASSUME NEW q \in Proc, NEW s \in Session,
                     Holds(q)', row'[s] # None, seen'[q].rt = row'[s].rt
              PROVE  HasSession(q)' /\ job'[q] = s
            <4>1. s # k
                BY <2>1, <2>2, <2>3, <2>4, <3>3, Zenon
            <4>2. Holds(q) /\ row[s] # None /\ seen[q].rt = row[s].rt
                BY <1>2, <2>2, <2>3, <3>3, <4>1, Zenon
            <4>3. HasSession(q) /\ job[q] = s
                BY <1>0, <4>2, Zenon DEF TokenOwned
            <4> QED
                BY <2>2, <2>3, <4>3, Zenon
        <3>4. ASSUME NEW q \in Proc, Rotated(q)'
              PROVE  /\ \A s \in Session : row'[s] # None => row'[s].rt # resp'[q].rt
                     /\ \A r \in Proc : Holds(r)' => seen'[r].rt # resp'[q].rt
                     /\ \A r \in Proc : Rotated(r)' /\ r # q => resp'[r].rt # resp'[q].rt
            <4>1. Rotated(q) /\ resp'[q] = resp[q] /\ resp[q].rt # m
                BY <2>3, <2>4, <3>4, Zenon
            <4>2. /\ \A s \in Session : row[s] # None => row[s].rt # resp[q].rt
                  /\ \A r \in Proc : Holds(r) => seen[r].rt # resp[q].rt
                  /\ \A r \in Proc : Rotated(r) /\ r # q => resp[r].rt # resp[q].rt
                BY <1>0, <4>1, Zenon DEF TokenOwned
            <4>3. \A s \in Session : row'[s] # None => row'[s].rt # resp[q].rt
                BY <1>2, <2>1, <4>1, <4>2, Zenon
            <4>4. \A r \in Proc : Rotated(r)' /\ r # q => resp'[r].rt # resp[q].rt
                BY <2>3, <4>2, Zenon
            <4>5. \A r \in Proc : Holds(r)' => seen'[r].rt # resp[q].rt
                BY <2>2, <2>3, <4>2, Zenon
            <4> QED
                BY <4>1, <4>3, <4>4, <4>5, Zenon
        <3> QED
            BY <3>1, <3>2, <3>3, <3>4, Zenon DEF TokenOwned
    <2>7. TokenFit'
        <3>1. \A q \in Proc : Unborn(q)' => seen'[q].rt \notin spent'
            BY <1>0, <2>2, <2>3, Zenon DEF TokenFit
        <3>2. \A q \in Proc : Rotated(q)' => resp'[q].rt \notin spent'
            BY <1>0, <2>2, <2>3, Zenon DEF TokenFit
        <3>3. \A q \in Proc : pc'[q] \in {"send", "sent"} => StaysFit(seen'[q].rt)
            BY <1>0, <2>2, Zenon DEF TokenFit, InForce, StaysFit
        <3>4. \A q \in Proc : pc'[q] = "persist" /\ ~Rotated(q)' => StaysFit(seen'[q].rt)
            BY <1>0, <1>3, <2>2, Zenon DEF TokenFit, InForce, StaysFit, Rotated
        <3>5. ASSUME NEW s \in Session, Healthy(row'[s])
              PROVE  StaysFit(row'[s].rt) \/ Attended(s)'
            <4>1. CASE s = k
                BY <2>1, <2>2, <2>4, <4>1, Zenon DEF StaysFit
            <4>2. CASE s # k
                <5>1. row'[s] = row[s] /\ job[p] # s
                    BY <1>2, <4>2, Zenon DEF k
                <5>2. Attended(s) => Attended(s)'
                    BY <2>2, <5>1, Zenon DEF Attended
                <5>3. InForce(row[s].rt) \/ Attended(s)
                    BY <1>0, <3>5, <5>1, Zenon DEF TokenFit
                <5> QED
                    BY <2>2, <5>1, <5>2, <5>3, Zenon DEF InForce, StaysFit
            <4> QED
                BY <4>1, <4>2, Zenon
        <3> QED
            BY <3>1, <3>2, <3>3, <3>4, <3>5, Zenon DEF TokenFit, InForce, StaysFit
    <2> QED
        BY <2>5, <2>6, <2>7, Zenon DEF TokenInv
<1> QED
    BY <1>5, <1>6, Zenon

(* A task that moves outside of its exchange. *)
LEMMA MoveKeepsTokens ==
    ASSUME TokenInv, NEW p \in Proc,
           pc'[p] \in {"idle", "wait", "get", "load", "next"}, pc[p] \notin {"persist", "fail"},
           Unborn(p)' => Unborn(p) /\ seen'[p] = seen[p],
           \A q \in Proc \ {p} : pc'[q] = pc[q] /\ job'[q] = job[q]
                                 /\ seen'[q] = seen[q] /\ resp'[q] = resp[q],
           UNCHANGED <<row, issued, spent, lost>>
    PROVE  TokenInv'
<1>1. ~HasSession(p)' /\ pc'[p] \notin {"send", "sent", "persist"}
    BY Zenon DEF HasSession
<1>2. HandsStay
    <2> SUFFICES ASSUME NEW q \in Proc, q # p
                 PROVE  /\ Unborn(q)' => Unborn(q)
                        /\ HasSession(q)' => HasSession(q)
        BY <1>1, Zenon DEF HandsStay
    <2> QED
        BY Zenon DEF Unborn, HasSession
<1>3. AttentionStays
    BY Zenon DEF AttentionStays
<1> QED
    BY <1>2, <1>3, SameRows, SameTokens, TokenFrame, Zenon

(* A failed refresh degrades or removes the row. *)
LEMMA FailKeepsTokens ==
    ASSUME SafetyInv, TokenInv, NEW p \in Proc, Fail(p) PROVE TokenInv'
<1>1. TypeOK /\ Critical(p) /\ job[p] \in Session /\ pc[p] = "fail"
    BY InHand, Zenon DEF Fail, Critical
<1>2. RowsStay /\ ~Healthy(row'[job[p]])
    <2>1. CASE MarkDegraded(job[p])
        BY <1>1, <2>1, MarkDegradedEffect, Zenon DEF RowsStay, Healthy
    <2>2. CASE Delete(job[p])
        BY <1>1, <2>2, DeleteEffect, Zenon DEF RowsStay, Healthy
    <2> QED
        BY <2>1, <2>2, Zenon DEF Fail
<1>3. Leave(p, "idle") /\ UNCHANGED <<issued, spent>> /\ lost \subseteq lost'
    BY Zenon DEF Fail, providerVars
<1> QED
    BY <1>1, <1>2, <1>3, LeaveKeepsTokens, Zenon

(* Tasks that are cut off: what their exchanges spend counts as lost. *)
LEMMA CutKeepsTokens ==
    ASSUME TokenInv, NEW P \in SUBSET Proc, Stranded(P), lost' = lost \cup Interrupted(P),
           \A q \in P : pc'[q] = "idle",
           \A q \in Proc \ P : pc'[q] = pc[q] /\ job'[q] = job[q]
                               /\ seen'[q] = seen[q] /\ resp'[q] = resp[q],
           UNCHANGED <<row, issued>>
    PROVE  TokenInv'
<1>1. \A q \in P : ~HasSession(q)' /\ ~Unborn(q)' /\ ~Holds(q)'
    BY Zenon DEF HasSession, Unborn, Holds
<1>2. HandsStay
    <2>1. ASSUME NEW q \in P
          PROVE  ~HasSession(q)' /\ ~Unborn(q)' /\ pc'[q] \notin {"send", "sent", "persist"}
        BY <1>1, Zenon
    <2>2. ASSUME NEW q \in Proc \ P
          PROVE  (Unborn(q)' => Unborn(q)) /\ (HasSession(q)' => HasSession(q))
        BY Zenon DEF Unborn, HasSession
    <2> QED
        BY <2>1, <2>2, Zenon DEF HandsStay
<1>3. \A q \in P : pc[q] \in {"sent", "persist", "fail"} => seen[q].rt \in lost'
    BY Zenon DEF Interrupted
<1>4. SpentIsLost
    <2>1. PICK done \in SUBSET {seen[q].rt : q \in {r \in P : pc[r] = "sent"}} :
            spent' = spent \cup done
        BY Zenon DEF Stranded
    <2>2. ASSUME NEW t \in spent', t \notin spent
          PROVE  t \in lost' /\ \E q \in Proc : pc[q] = "sent" /\ seen[q].rt = t /\ ~Holds(q)'
        <3>1. PICK q \in P : pc[q] = "sent" /\ seen[q].rt = t
            BY <2>1, <2>2, Zenon
        <3> QED
            BY <1>1, <1>3, <3>1, Zenon
    <2> QED
        BY <2>1, <2>2, Zenon DEF SpentIsLost
<1>5. AttentionStays
    BY <1>3, Zenon DEF AttentionStays, StaysFit
<1> QED
    BY <1>2, <1>4, <1>5, SameRows, TokenFrame, Zenon

LEMMA TokenStep == SafetyInv /\ TokenInv /\ [Next]_vars => TokenInv'
<1> SUFFICES ASSUME SafetyInv, TokenInv, [Next]_vars PROVE TokenInv'
    OBVIOUS
<1> USE ConstantsAssumption, Tasks
<1>0. TypeOK
    BY Zenon DEF SafetyInv
<1>1. ASSUME NEW p \in Proxy, ProxyStart(p) PROVE TokenInv'
    <2>1. /\ pc[p] = "idle" /\ pc'[p] = "wait" /\ p \in Proc /\ p \notin Operator
          /\ \A q \in Proc \ {p} : pc'[q] = pc[q] /\ job'[q] = job[q]
          /\ UNCHANGED <<row, seen, resp, issued, spent, lost>>
        BY <1>0, <1>1, Zenon DEF TypeOK, ProxyStart, providerVars
    <2> QED
        BY <2>1, MoveKeepsTokens, Zenon DEF Unborn
<1>2. ASSUME NEW p \in Operator, BootstrapStart(p) PROVE TokenInv'
    BY <1>2, BootstrapKeepsTokens, Zenon
<1>3. CASE Tick
    <2>1. /\ pc[Refresher] = "idle" /\ pc'[Refresher] = "load"
          /\ \A q \in Proc \ {Refresher} : pc'[q] = pc[q]
          /\ UNCHANGED <<row, job, seen, resp, issued, spent, lost>>
        BY <1>0, <1>3, Zenon DEF TypeOK, Tick, providerVars
    <2> QED
        BY <2>1, MoveKeepsTokens, Zenon DEF Unborn
<1>4. CASE LoadCatalog
    <2>1. /\ pc[Refresher] = "load" /\ pc'[Refresher] = "next"
          /\ \A q \in Proc \ {Refresher} : pc'[q] = pc[q]
          /\ UNCHANGED <<row, job, seen, resp, issued, spent, lost>>
        BY <1>0, <1>4, Zenon DEF TypeOK, LoadCatalog, providerVars
    <2> QED
        BY <2>1, MoveKeepsTokens, Zenon DEF Unborn
<1>5. CASE NextItem
    <2>1. /\ pc[Refresher] = "next" /\ pc'[Refresher] = "wait"
          /\ \A q \in Proc \ {Refresher} : pc'[q] = pc[q] /\ job'[q] = job[q]
          /\ UNCHANGED <<row, seen, resp, issued, spent, lost>>
        BY <1>0, <1>5, Zenon DEF TypeOK, NextItem, providerVars
    <2> QED
        BY <2>1, MoveKeepsTokens, Zenon DEF Unborn
<1>6. CASE EndBatch
    <2>1. pc[Refresher] = "next" /\ Drop(Refresher, "idle") /\ "idle" \in Pc
          /\ UNCHANGED <<row, issued, spent, lost>>
        BY <1>6, Zenon DEF EndBatch, providerVars, Pc
    <2>2. pc'[Refresher] = "idle" /\ \A q \in Proc \ {Refresher} :
            pc'[q] = pc[q] /\ job'[q] = job[q] /\ seen'[q] = seen[q] /\ resp'[q] = resp[q]
        BY <1>0, <2>1, DropEffect, Zenon
    <2> QED
        BY <2>1, <2>2, MoveKeepsTokens, Zenon DEF Unborn
<1>7. ASSUME NEW p \in Proc, Lock(p) PROVE TokenInv'
    <2>1. /\ pc[p] = "wait" /\ pc'[p] = "get"
          /\ \A q \in Proc \ {p} : pc'[q] = pc[q]
          /\ UNCHANGED <<row, job, seen, resp, issued, spent, lost>>
        BY <1>0, <1>7, Zenon DEF TypeOK, Lock, providerVars
    <2>2. Unborn(p)' => Unborn(p)
        BY <2>1, Zenon DEF Unborn
    <2> QED
        BY <2>1, <2>2, MoveKeepsTokens, Zenon
<1>8. ASSUME NEW p \in Proc, ProxyGet(p) PROVE TokenInv'
    <2>1. /\ Critical(p) /\ pc[p] = "get" /\ p \notin Operator
          /\ UNCHANGED <<row, issued, spent, lost>>
        BY <1>8, Zenon DEF ProxyGet, Critical, providerVars
    <2>2. CASE Leave(p, "idle") \/ Leave(p, "served")
        BY <2>1, <2>2, SameRows, LeaveKeepsTokens, Zenon
    <2>3. CASE Goto(p, "send") /\ UNCHANGED resp /\ Healthy(row[job[p]])
               /\ seen' = [seen EXCEPT ![p] = row[job[p]]]
        BY <2>1, <2>3, TakeKeepsTokens, Zenon
    <2> QED
        BY <1>8, <2>2, <2>3, Zenon DEF ProxyGet
<1>9. CASE RefresherGet
    <2>1. /\ Critical(Refresher) /\ pc[Refresher] = "get" /\ Refresher \notin Operator
          /\ UNCHANGED <<row, issued, spent, lost>>
        BY <1>9, Zenon DEF RefresherGet, Critical, providerVars
    <2>2. CASE Leave(Refresher, "next")
        BY <2>1, <2>2, SameRows, LeaveKeepsTokens, Zenon
    <2>3. CASE Goto(Refresher, "send") /\ UNCHANGED resp
               /\ Healthy(row[job[Refresher]])
               /\ seen' = [seen EXCEPT ![Refresher] = row[job[Refresher]]]
        BY <2>1, <2>3, TakeKeepsTokens, Zenon
    <2> QED
        BY <1>9, <2>2, <2>3, Zenon DEF RefresherGet
<1>10. ASSUME NEW p \in Proc, Create(p) PROVE TokenInv'
    <2>1. /\ Critical(p) /\ pc[p] = "get" /\ Unborn(p)
          /\ UNCHANGED <<issued, spent, lost>>
        BY <1>10, Zenon DEF Create, Critical, Unborn, providerVars
    <2>2. CASE Leave(p, "conflict") /\ UNCHANGED row
        BY <2>1, <2>2, SameRows, LeaveKeepsTokens, Zenon
    <2>3. CASE Insert(job[p], seen[p]) /\ Goto(p, "send") /\ UNCHANGED <<seen, resp>>
        BY <2>1, <2>3, CreateKeepsTokens, Zenon DEF Insert
    <2> QED
        BY <1>10, <2>2, <2>3, Zenon DEF Create
<1>11. ASSUME NEW p \in Proc, Send(p) PROVE TokenInv'
    <2>1. /\ HasSession(p) /\ pc[p] = "send"
          /\ UNCHANGED <<row, seen, resp, issued, spent, lost>>
        BY <1>11, Zenon DEF Send, HasSession, providerVars
    <2>2. PICK label \in {"sent", "fail"} : Goto(p, label)
        BY <1>11, Zenon DEF Send
    <2> QED
        BY <2>1, <2>2, SameRows, GotoKeepsTokens, Zenon
<1>12. ASSUME NEW p \in Proc, ReadBack(p) PROVE TokenInv'
    <2>1. /\ HasSession(p) /\ Critical(p) /\ pc[p] = "readback"
          /\ UNCHANGED <<row, issued, spent, lost>>
        BY <1>12, Zenon DEF ReadBack, HasSession, Critical, providerVars
    <2>2. CASE Goto(p, "fail") /\ UNCHANGED <<seen, resp>>
        BY <2>1, <2>2, SameRows, GotoKeepsTokens, Zenon
    <2>3. CASE Leave(p, "served") \/ Leave(p, "idle")
        BY <2>1, <2>3, SameRows, LeaveKeepsTokens, Zenon
    <2> QED
        BY <1>12, <2>2, <2>3, Zenon DEF ReadBack
<1>13. ASSUME NEW p \in Proc, StatementFails(p) PROVE TokenInv'
    <2>1. UNCHANGED <<row, issued, spent>>
        BY <1>13, Zenon DEF StatementFails, providerVars
    <2>2. CASE pc[p] = "get" /\ Leave(p, "idle") /\ UNCHANGED lost
        BY <2>1, <2>2, SameRows, LeaveKeepsTokens, Zenon DEF Critical
    <2>3. CASE pc[p] \in {"persist", "readback"} /\ Goto(p, "fail")
               /\ UNCHANGED <<seen, resp, lost>>
        BY <2>1, <2>3, SameRows, GotoKeepsTokens, Zenon DEF HasSession
    <2>4. CASE pc[p] = "fail" /\ lost' = lost \cup {seen[p].rt} /\ Leave(p, "idle")
        <3>1. Critical(p) /\ lost \subseteq lost' /\ StaysFit(seen[p].rt)
            BY <2>4, Zenon DEF Critical, StaysFit
        <3> QED
            BY <2>1, <2>4, <3>1, SameRows, LeaveKeepsTokens, Zenon
    <2> QED
        BY <1>13, <2>2, <2>3, <2>4, Zenon DEF StatementFails
<1>14. ASSUME NEW p \in Proc, Return(p) PROVE TokenInv'
    <2>1. /\ pc[p] \in {"served", "conflict"} /\ pc'[p] = "idle"
          /\ \A q \in Proc \ {p} : pc'[q] = pc[q]
          /\ UNCHANGED <<row, job, seen, resp, issued, spent, lost>>
        BY <1>0, <1>14, Zenon DEF TypeOK, Return, providerVars
    <2> QED
        BY <2>1, MoveKeepsTokens, Zenon DEF Unborn
<1>15. ASSUME NEW p \in Proc, Cancel(p) PROVE TokenInv'
    <2>1. Drop(p, "idle") /\ "idle" \in Pc /\ UNCHANGED <<row, issued>>
          /\ Stranded({p}) /\ lost' = lost \cup Interrupted({p})
        BY <1>15, Zenon DEF Cancel, Pc
    <2>2. pc'[p] = "idle" /\ \A q \in Proc \ {p} :
            pc'[q] = pc[q] /\ job'[q] = job[q] /\ seen'[q] = seen[q] /\ resp'[q] = resp[q]
        BY <1>0, <2>1, DropEffect, Zenon
    <2> QED
        BY <2>1, <2>2, CutKeepsTokens, Zenon
<1>16. CASE Crash
    BY <1>16, CutKeepsTokens, Zenon DEF Crash
<1>17. ASSUME UNCHANGED <<row, taskVars, issued, spent, lost>> PROVE TokenInv'
    <2>1. HandsStay
        BY <1>17, Zenon DEF HandsStay, Unborn, HasSession, taskVars
    <2>2. AttentionStays
        BY <1>17, Zenon DEF AttentionStays, taskVars
    <2> QED
        BY <1>17, <2>1, <2>2, SameRows, SameTokens, TokenFrame, Zenon
<1>18. ASSUME NEW s \in Session, Revoke(s) PROVE TokenInv'
    <2>1. Delete(s) /\ UNCHANGED <<pc, job, seen, resp, issued, spent, lost>>
        BY <1>18, Zenon DEF Revoke, taskVars, providerVars
    <2>2. RowsStay
        BY <1>0, <2>1, DeleteEffect, Zenon DEF RowsStay
    <2>3. HandsStay
        BY <2>1, Zenon DEF HandsStay, Unborn, HasSession
    <2>4. AttentionStays
        BY <2>1, Zenon DEF AttentionStays
    <2> QED
        BY <2>1, <2>2, <2>3, <2>4, SameTokens, TokenFrame, Zenon
<1>19. CASE ReloadCatalog \/ Clock \/ (\E n \in Name : EditRegistration(n))
            \/ UNCHANGED vars
    BY <1>17, <1>19, Zenon
    DEF ReloadCatalog, Clock, EditRegistration, vars, taskVars, providerVars
<1> QED
    BY <1>1, <1>2, <1>3, <1>4, <1>5, <1>6, <1>7, <1>8, <1>9, <1>10, <1>11,
       <1>12, <1>13, <1>14, <1>15, <1>16, <1>18, <1>19,
       ExchangeKeepsTokens, ExchangeFailsKeepsTokens, PersistKeepsTokens,
       FailKeepsTokens, Zenon
    DEF Next, TaskStep, RefreshStep, RefresherStep, Environment

(* No two places ever hold the same refresh token, but a task and the row  *)
(* it works on; and a token the provider no longer takes is one whose      *)
(* exchange was cut short, or a task is about to write that down.          *)
THEOREM TokenInvariant == Spec => []TokenInv
<1>1. ASSUME Init PROVE TokenInv
    <2>1. spent = {} /\ \A s \in Session : row[s] = None
        BY <1>1, Zenon DEF Init
    <2>2. \A p \in Proc : pc[p] = "idle" /\ ~Holds(p) /\ ~Unborn(p) /\ ~Rotated(p)
        BY <1>1, Zenon DEF Init, Holds, HasSession, Unborn, Rotated
    <2> QED
        BY <2>1, <2>2, Zenon DEF TokenInv, TokenKnown, TokenOwned, TokenFit, Healthy
<1>2. SafetyInv /\ TokenInv /\ [Next]_vars => TokenInv'
    BY TokenStep, Zenon
<1> QED
    BY Safety, <1>1, <1>2, PTL DEF Spec

(* A refresh token the provider rotated away is never presented again,     *)
(* unless its exchange was interrupted or its failure could not be         *)
(* written.                                                                *)
THEOREM NoReplay_Holds == Spec => []NoSpentTokenReplay
<1>1. TokenInv => NoSpentTokenReplay
    BY Zenon DEF TokenInv, TokenFit, InForce, NoSpentTokenReplay
<1> QED
    BY TokenInvariant, <1>1, PTL

----------------------------------------------------------------------------
(* The store implements the session life cycle. *)

(* The phase and the incarnation that a row stands for. *)
LEMMA LifeOf ==
    ASSUME TypeOK, NEW s \in Session
    PROVE  /\ row[s] = None => Life[s] = None
           /\ row[s] # None =>
                /\ Life[s] # None /\ Life[s].gen = row[s].gen
                /\ row[s].degraded => Life[s].phase = "degraded"
                /\ ~row[s].degraded /\ row[s].exp = None => Life[s].phase = "new"
                /\ ~row[s].degraded /\ row[s].exp # None => Life[s].phase = "live"
<1>1. CASE row[s] # None
    <2> DEFINE ph == IF row[s].degraded THEN "degraded"
                     ELSE IF row[s].exp = None THEN "new" ELSE "live"
    <2>1. row[s].gen \in Token
        BY <1>1, Zenon DEF TypeOK, Row
    <2>2. [gen |-> row[s].gen, phase |-> ph]
             \in [gen : Token, phase : {"new", "live", "degraded"}]
        BY <2>1, Zenon
    <2> QED
        BY <1>1, <2>2, NoneAssumption, Zenon DEF Life
<1> QED
    BY <1>1, Zenon DEF Life

(* A step that changes one row changes the life of that session only. *)
LEMMA LifeFrame ==
    ASSUME TypeOK, TypeOK', NEW s \in Session,
           \A t \in Session \ {s} : row'[t] = row[t]
    PROVE  Life' = [Life EXCEPT ![s] = Life'[s]]
BY Zenon DEF Life

LEMMA LifecycleStep ==
    ASSUME SafetyInv, TypeOK', [Next]_vars
    PROVE  [Lifecycle!Next]_<<Life, gone>>
<1> USE ConstantsAssumption, Tasks
<1>0. TypeOK /\ LockInv /\ GenInv
    BY Zenon DEF SafetyInv
<1>1. ASSUME NEW p \in Proc, Create(p) PROVE [Lifecycle!Next]_<<Life, gone>>
    <2>1. job[p] \in Session /\ Unborn(p) /\ gone' = gone /\ seen[p] \in Row
        BY <1>0, <1>1, InHand, Zenon DEF Create, Critical, Unborn, LockInv
    <2>2. CASE UNCHANGED row
        BY <2>1, <2>2, Zenon DEF Life
    <2>3. CASE row[job[p]] = None /\ row' = [row EXCEPT ![job[p]] = seen[p]]
        <3>1. row'[job[p]] = seen[p] /\ \A t \in Session \ {job[p]} : row'[t] = row[t]
            BY <1>0, <2>1, <2>3, Zenon DEF TypeOK
        <3>2. seen[p].gen \in Token \ gone /\ seen[p].exp = None /\ ~seen[p].degraded
            BY <1>0, <2>1, Zenon DEF GenInv, Row
        <3>3. Life'[job[p]] = [gen |-> seen[p].gen, phase |-> "new"]
            BY <2>1, <3>1, <3>2, NoneAssumption, Zenon DEF Life
        <3>4. Life[job[p]] = None
            BY <1>0, <2>1, <2>3, LifeOf, Zenon
        <3>5. Life' = [Life EXCEPT ![job[p]] = [gen |-> seen[p].gen, phase |-> "new"]]
            BY <1>0, <2>1, <3>1, <3>3, LifeFrame, Zenon
        <3> QED
            BY <2>1, <3>2, <3>4, <3>5, Zenon DEF Lifecycle!Next, Lifecycle!Bootstrap
    <2> QED
        BY <1>1, <2>2, <2>3, Zenon DEF Create, Insert
<1>2. ASSUME NEW p \in Proc, Persist(p) PROVE [Lifecycle!Next]_<<Life, gone>>
    <2>1. job[p] \in Session /\ HasSession(p) /\ gone' = gone /\ resp[p] \in Response
        BY <1>2, InHand, Zenon DEF Persist, HasSession, Critical
    <2>2. /\ \A t \in Session \ {job[p]} : row'[t] = row[t]
          /\ row[job[p]] = None => row'[job[p]] = None
          /\ row[job[p]] # None => /\ row'[job[p]] \in Row
                                   /\ row'[job[p]].gen = row[job[p]].gen
                                   /\ row'[job[p]].exp = resp[p].exp
                                   /\ row'[job[p]].degraded = FALSE
        BY <1>0, <1>2, <2>1, UpdateTokensEffect, Zenon DEF Persist
    <2>3. CASE row[job[p]] = None
        BY <2>1, <2>2, <2>3, Zenon DEF Life
    <2>4. CASE row[job[p]] # None
        <3>1. Life[job[p]] # None /\ Life[job[p]].phase # "degraded"
              /\ Life[job[p]].gen = row[job[p]].gen
            BY <1>0, <2>1, <2>4, LifeOf, Zenon DEF GenInv
        <3>2. row'[job[p]] # None /\ row'[job[p]].exp # None
            BY <2>1, <2>2, <2>4, NoneAssumption DEF Response
        <3>3. Life'[job[p]] = [gen |-> row[job[p]].gen, phase |-> "live"]
            BY <2>1, <2>2, <2>4, <3>2, Zenon DEF Life
        <3>4. Life' = [Life EXCEPT ![job[p]] = [gen |-> row[job[p]].gen,
                                                phase |-> "live"]]
            BY <1>0, <2>1, <2>2, <3>3, LifeFrame, Zenon
        <3>5. Lifecycle!Enter(job[p], "live")
            BY <3>1, <3>4, Zenon DEF Lifecycle!Enter
        <3> QED
            BY <2>1, <3>1, <3>5, Zenon DEF Lifecycle!Next, Lifecycle!Obtain
    <2> QED
        BY <2>3, <2>4, Zenon
<1>3. ASSUME NEW s \in Session, Delete(s) PROVE [Lifecycle!Next]_<<Life, gone>>
    <2>1. /\ \A t \in Session \ {s} : row'[t] = row[t]
          /\ row'[s] = None
          /\ row[s] # None => gone' = gone \cup {row[s].gen}
          /\ row[s] = None => gone' = gone
        BY <1>0, <1>3, DeleteEffect, Zenon
    <2>2. Life' = [Life EXCEPT ![s] = None]
        BY <1>0, <2>1, LifeFrame, Zenon DEF Life
    <2>3. CASE row[s] = None
        BY <2>1, <2>3, Zenon DEF Life
    <2>4. CASE row[s] # None
        BY <1>0, <2>1, <2>2, <2>4, LifeOf, Zenon DEF Lifecycle!Next, Lifecycle!Remove
    <2> QED
        BY <2>3, <2>4, Zenon
<1>4. ASSUME NEW p \in Proc, Fail(p) PROVE [Lifecycle!Next]_<<Life, gone>>
    <2>1. job[p] \in Session
        BY <1>4, InHand, Zenon DEF Fail, Critical
    <2>2. CASE MarkDegraded(job[p]) /\ UNCHANGED gone
        <3>1. /\ \A t \in Session \ {job[p]} : row'[t] = row[t]
              /\ row[job[p]] = None => row'[job[p]] = None
              /\ row[job[p]] # None => /\ row'[job[p]] \in Row
                                       /\ row'[job[p]].gen = row[job[p]].gen
                                       /\ row'[job[p]].degraded = TRUE
            BY <1>0, <2>1, <2>2, MarkDegradedEffect, Zenon
        <3>2. CASE row[job[p]] = None
            BY <2>1, <2>2, <3>1, <3>2 DEF Life
        <3>3. CASE row[job[p]] # None
            <4>1. Life[job[p]] # None
                  /\ Life[job[p]].gen = row[job[p]].gen
                BY <1>0, <2>1, <3>3, LifeOf, Zenon
            <4>2. Life'[job[p]] = [gen |-> row[job[p]].gen, phase |-> "degraded"]
                BY <2>1, <3>1, <3>3, NoneAssumption, Zenon DEF Life
            <4>3. Life' = [Life EXCEPT ![job[p]] = [gen |-> row[job[p]].gen,
                                                    phase |-> "degraded"]]
                BY <1>0, <2>1, <3>1, <4>2, LifeFrame, Zenon
            <4>4. Lifecycle!Enter(job[p], "degraded")
                BY <4>1, <4>3, Zenon DEF Lifecycle!Enter
            <4> QED
                BY <2>1, <2>2, <4>1, <4>4, Zenon DEF Lifecycle!Next, Lifecycle!Degrade
        <3> QED
            BY <3>2, <3>3, Zenon
    <2> QED
        BY <1>3, <1>4, <2>1, <2>2, Zenon DEF Fail
<1>5. ASSUME UNCHANGED <<row, gone>> PROVE [Lifecycle!Next]_<<Life, gone>>
    BY <1>5, Zenon DEF Life
<1>6. CASE (\E p \in Proxy : ProxyStart(p)) \/ (\E p \in Operator : BootstrapStart(p))
           \/ (\E p \in Proc : Lock(p) \/ ProxyGet(p) \/ Send(p) \/ Exchange(p)
                   \/ ExchangeFails(p) \/ ReadBack(p) \/ Return(p)
                   \/ StatementFails(p) \/ Cancel(p))
           \/ RefresherStep \/ Crash \/ ReloadCatalog \/ Clock
           \/ (\E n \in Name : EditRegistration(n)) \/ UNCHANGED vars
    BY <1>5, <1>6, Zenon
    DEF ProxyStart, BootstrapStart, Lock, ProxyGet, Send, Exchange, ExchangeFails,
        ReadBack, Return, StatementFails, Cancel, RefresherStep, Tick, LoadCatalog,
        NextItem, EndBatch, RefresherGet, Crash, ReloadCatalog, Clock,
        EditRegistration, vars
<1> QED
    BY <1>1, <1>2, <1>3, <1>4, <1>6, Zenon
    DEF Next, TaskStep, RefreshStep, Environment, Revoke

(* The store, with all its tasks, locks and statements, implements the     *)
(* life cycle: only removal ends the degraded phase, and a removed session *)
(* never comes back.                                                       *)
THEOREM Refinement == Spec => ImplementsLifecycle
<1>1. Init => Lifecycle!Init
    BY Zenon DEF Init, Lifecycle!Init, Life
<1>2. SafetyInv /\ SafetyInv' /\ [Next]_vars => [Lifecycle!Next]_<<Life, gone>>
    BY LifecycleStep, Zenon DEF SafetyInv
<1> QED
    BY Safety, <1>1, <1>2, PTL DEF Spec, ImplementsLifecycle, Lifecycle!Spec

============================================================================
