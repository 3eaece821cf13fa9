--------------------------- MODULE OauthSessions ---------------------------
(***************************************************************************)
(* The OAuth session store and everything that works on it: the proxy's    *)
(* on-demand token resolution, the background refresh task, the operator's *)
(* bootstrap and revoke handlers, and the provider's token endpoint.       *)
(*                                                                         *)
(* A session is a row of oauth_sessions keyed by (registration, label).    *)
(* Each SQL statement, each lock acquisition and each HTTP exchange is one *)
(* step: between two of them any other task may run.                       *)
(***************************************************************************)
EXTENDS Integers

CONSTANTS
    Name,           \* registration names
    Label,          \* session labels
    Proxy,          \* proxy requests that may run at the same time
    Operator,       \* bootstrap handlers that may run at the same time
    Refresher,      \* the background refresh task
    Shape,          \* what a name may be registered as, see RegShape
    Lifetime,       \* values the provider sends as expires_in
    BgMargin,       \* DEFAULT_REFRESH_SAFETY_MARGIN_SECS
    ProxyMargin,    \* the 60 s margin of the proxy hot path
    MaxTime,        \* bound: the clock stops here
    MaxToken,       \* bound: refresh tokens the provider ever issues
    MaxFault,       \* bound: crashes, cancelled requests, failed statements
    None            \* absent value (SQL NULL, Option::None)

Session == Name \X Label
NameOf(s) == s[1]
Proc == Proxy \cup Operator \cup {Refresher}
Token == 1..MaxToken

(* "oauth": an enabled OAuth registration; "disabled": an OAuth            *)
(* registration with disabled = 1; "plain": an enabled registration of     *)
(* another auth shape; "absent": no row.                                   *)
RegShape == {"oauth", "disabled", "plain", "absent"}

(* A row.  "gen" is the refresh token of the bootstrap that created the    *)
(* row; it never changes, so it names the row's incarnation.  The access   *)
(* token and its expiry are written together: exp = None means neither.    *)
Row == [gen : Token, rt : Token, exp : Nat \cup {None}, degraded : BOOLEAN]
Response == [exp : Nat, rt : Token \cup {None}]

ASSUME ConstantsAssumption ==
    /\ None \notin Int /\ None \notin Session /\ None \notin Proc
    /\ Refresher \notin Proxy \cup Operator /\ Proxy \cap Operator = {}
    /\ Shape \subseteq RegShape /\ "oauth" \in Shape
    /\ Lifetime \subseteq Nat
    /\ BgMargin \in Nat /\ ProxyMargin \in Nat
    /\ MaxTime \in Nat /\ MaxToken \in Nat /\ MaxFault \in Nat

ASSUME NoneAssumption ==
    None \notin Row /\ None \notin [gen : Token, phase : {"new", "live", "degraded"}]

VARIABLES
    row,        \* the table: the row of each session, or None
    registered, \* the registrations table, by name
    catalog,    \* the in-memory catalog snapshot, by name
    holder,     \* RefreshLockMap: who holds each session's mutex
    pc,         \* what each task does next
    job,        \* the session each task works on
    seen,       \* the OauthSession value each task has in hand
    resp,       \* the parsed TokenResponse each task has in hand
    ignored,    \* history: the sessions already deleted when a request began
    pending,    \* the refresh task's remaining batch
    threshold,  \* the refresh task's threshold for this batch
    snapshot,   \* the refresh task's catalog for this batch
    spent,      \* provider: refresh tokens it has rotated away
    issued,     \* provider: how many refresh tokens it has issued
    lost,       \* history: refresh tokens whose exchange was interrupted
    gone,       \* history: the generations of the sessions deleted so far
    now,        \* unix_now()
    faults      \* how many faults have happened

taskVars == <<pc, job, seen, resp, ignored>>
batchVars == <<pending, threshold, snapshot>>
providerVars == <<spent, issued>>
regVars == <<registered, catalog>>
vars == <<row, regVars, holder, taskVars, batchVars, providerVars, lost, gone,
          now, faults>>

Batch == [key : Session, exp : Nat]
Pc == {"idle", "wait", "get", "send", "sent", "persist", "readback", "fail",
       "served", "conflict", "load", "next"}

TypeOK ==
    /\ row \in [Session -> Row \cup {None}]
    /\ registered \in [Name -> Shape]
    /\ catalog \in [Name -> Shape]
    /\ holder \in [Session -> Proc \cup {None}]
    /\ pc \in [Proc -> Pc]
    /\ job \in [Proc -> Session \cup {None}]
    /\ seen \in [Proc -> Row \cup {None}]
    /\ resp \in [Proc -> Response \cup {None}]
    /\ ignored \in [Proc -> SUBSET Token]
    /\ pending \subseteq Batch
    /\ threshold \in Nat
    /\ snapshot \in [Name -> Shape]
    /\ spent \subseteq Token
    /\ issued \in 0..MaxToken
    /\ lost \subseteq Token /\ gone \subseteq Token
    /\ now \in 0..MaxTime
    /\ faults \in 0..MaxFault

Init ==
    /\ row = [s \in Session |-> None]
    /\ registered = [n \in Name |-> "oauth"]
    /\ catalog = registered
    /\ holder = [s \in Session |-> None]
    /\ pc = [p \in Proc |-> "idle"]
    /\ job = [p \in Proc |-> None]
    /\ seen = [p \in Proc |-> None]
    /\ resp = [p \in Proc |-> None]
    /\ ignored = [p \in Proc |-> {}]
    /\ pending = {}
    /\ threshold = 0
    /\ snapshot = catalog
    /\ spent = {} /\ issued = 0
    /\ lost = {} /\ gone = {}
    /\ now = 0 /\ faults = 0

----------------------------------------------------------------------------
(* Helpers of the steps below. *)

Fault == faults < MaxFault /\ faults' = faults + 1

(* Has the row an access token that outlives the limit? *)
Fresh(r, limit) == r.exp # None /\ r.exp > limit

(* A session that exists and is not degraded. *)
Healthy(r) == r # None /\ ~r.degraded

(* p goes on inside its critical section. *)
Goto(p, label) ==
    /\ pc' = [pc EXCEPT ![p] = label]
    /\ UNCHANGED <<job, ignored, holder>>

(* p's locals go out of scope. *)
Drop(p, label) ==
    /\ pc' = [pc EXCEPT ![p] = label]
    /\ job' = [job EXCEPT ![p] = None]
    /\ seen' = [seen EXCEPT ![p] = None]
    /\ resp' = [resp EXCEPT ![p] = None]
    /\ ignored' = [ignored EXCEPT ![p] = {}]

(* p leaves its critical section and the guard is dropped.  The refresh    *)
(* task goes to its next item, a handler answers: "served" is the proxy    *)
(* going on to the upstream with a token, "conflict" the bootstrap's 409,  *)
(* every other answer is "idle".                                           *)
Leave(p, answer) ==
    /\ holder' = [holder EXCEPT ![job[p]] = None]
    /\ Drop(p, IF p = Refresher THEN "next" ELSE answer)

(* INSERT: the primary key admits one row per session. *)
Insert(s, r) == row[s] = None /\ row' = [row EXCEPT ![s] = r]

(* UPDATE ... SET access token, expiry, [refresh token,] degraded = 0: the *)
(* row is the one the key finds now, and none is created.                  *)
UpdateTokens(s, r) ==
    row' = IF row[s] = None THEN row
           ELSE [row EXCEPT ![s] =
                   [gen |-> @.gen, rt |-> IF r.rt = None THEN @.rt ELSE r.rt,
                    exp |-> r.exp, degraded |-> FALSE]]

MarkDegraded(s) ==
    row' = IF row[s] = None THEN row ELSE [row EXCEPT ![s].degraded = TRUE]

(* SELECT ... WHERE degraded = 0 AND access_token_expires_at IS NOT NULL    *)
(* AND access_token_expires_at <= limit.                                   *)
PendingRefresh(limit) ==
    {s \in Session : Healthy(row[s]) /\ row[s].exp # None /\ row[s].exp <= limit}

Delete(s) ==
    /\ row' = [row EXCEPT ![s] = None]
    /\ gone' = IF row[s] = None THEN gone ELSE gone \cup {row[s].gen}

----------------------------------------------------------------------------
(* Starting a task. *)

(* resolve_target found an enabled OAuth registration and                  *)
(* apply_agent_credential_override chose the label.                        *)
ProxyStart(p) ==
    /\ pc[p] = "idle"
    /\ \E s \in Session :
        /\ catalog[NameOf(s)] = "oauth"
        /\ job' = [job EXCEPT ![p] = s]
    /\ pc' = [pc EXCEPT ![p] = "wait"]
    /\ ignored' = [ignored EXCEPT ![p] = gone]
    /\ UNCHANGED <<row, regVars, holder, seen, resp, batchVars,
                   providerVars, lost, gone, now, faults>>

(* The operator logs in at the provider, which issues a refresh token, and *)
(* posts it.  Unregistered names (404) and other auth shapes (400) are     *)
(* refused before anything is locked; a disabled registration is not.      *)
BootstrapStart(p) ==
    /\ pc[p] = "idle"
    /\ issued < MaxToken
    /\ \E s \in Session :
        /\ registered[NameOf(s)] \in {"oauth", "disabled"}
        /\ job' = [job EXCEPT ![p] = s]
    /\ issued' = issued + 1
    /\ seen' = [seen EXCEPT ![p] = [gen |-> issued + 1, rt |-> issued + 1,
                                    exp |-> None, degraded |-> FALSE]]
    /\ pc' = [pc EXCEPT ![p] = "wait"]
    /\ UNCHANGED <<row, regVars, holder, resp, ignored, batchVars,
                   spent, lost, gone, now, faults>>

(* Faulty variant: the safety margin is left out of the query. *)
Tick_NoMargin ==
    /\ pc[Refresher] = "idle"
    /\ PendingRefresh(now) # {}
    /\ pending' = {[key |-> s, exp |-> row[s].exp] : s \in PendingRefresh(now)}
    /\ threshold' = now + BgMargin
    /\ pc' = [pc EXCEPT ![Refresher] = "load"]
    /\ UNCHANGED <<row, regVars, holder, job, seen, resp, ignored,
                   snapshot, providerVars, lost, gone, now, faults>>

(* A tick: list_pending_refresh(now + 300).  An empty list ends the tick.  *)
Tick ==
    /\ pc[Refresher] = "idle"
    /\ PendingRefresh(now + BgMargin) # {}
    /\ pending' = {[key |-> s, exp |-> row[s].exp] : s \in PendingRefresh(now + BgMargin)}
    /\ threshold' = now + BgMargin
    /\ pc' = [pc EXCEPT ![Refresher] = "load"]
    /\ UNCHANGED <<row, regVars, holder, job, seen, resp, ignored,
                   snapshot, providerVars, lost, gone, now, faults>>

(* catalog.load(): one snapshot serves the whole batch. *)
LoadCatalog ==
    /\ pc[Refresher] = "load"
    /\ snapshot' = catalog
    /\ pc' = [pc EXCEPT ![Refresher] = "next"]
    /\ UNCHANGED <<row, regVars, holder, job, seen, resp, ignored,
                   pending, threshold, providerVars, lost, gone, now, faults>>

(* The next item of the batch, in the order of the listed expiry. *)
NextItem ==
    /\ pc[Refresher] = "next"
    /\ \E i \in pending :
        /\ \A j \in pending : i.exp <= j.exp
        /\ pending' = pending \ {i}
        /\ job' = [job EXCEPT ![Refresher] = i.key]
    /\ pc' = [pc EXCEPT ![Refresher] = "wait"]
    /\ UNCHANGED <<row, regVars, holder, seen, resp, ignored, threshold,
                   snapshot, providerVars, lost, gone, now, faults>>

EndBatch ==
    /\ pc[Refresher] = "next" /\ pending = {}
    /\ Drop(Refresher, "idle")
    /\ threshold' = 0 /\ snapshot' = [n \in Name |-> "oauth"]
    /\ UNCHANGED <<row, regVars, holder, pending, providerVars, lost, gone,
                   now, faults>>

----------------------------------------------------------------------------
(* Under the session's lock. *)

(* Faulty variant: the map hands every caller a mutex of its own. *)
Lock_Unshared(p) ==
    /\ pc[p] = "wait"
    /\ holder' = [holder EXCEPT ![job[p]] = p]
    /\ pc' = [pc EXCEPT ![p] = "get"]
    /\ UNCHANGED <<row, regVars, job, seen, resp, ignored, batchVars,
                   providerVars, lost, gone, now, faults>>

(* lock().await *)
Lock(p) ==
    /\ pc[p] = "wait"
    /\ holder[job[p]] = None
    /\ holder' = [holder EXCEPT ![job[p]] = p]
    /\ pc' = [pc EXCEPT ![p] = "get"]
    /\ UNCHANGED <<row, regVars, job, seen, resp, ignored, batchVars,
                   providerVars, lost, gone, now, faults>>

(* The proxy reads the session: absent or degraded is a 503, an access     *)
(* token good for more than 60 s is served, anything else is refreshed.    *)
ProxyGet(p) ==
    /\ p \in Proxy /\ pc[p] = "get"
    /\ LET r == row[job[p]] IN
        \/ ~Healthy(r) /\ Leave(p, "idle")
        \/ Healthy(r) /\ Fresh(r, now + ProxyMargin) /\ Leave(p, "served")
        \/ /\ Healthy(r) /\ ~Fresh(r, now + ProxyMargin)
           /\ seen' = [seen EXCEPT ![p] = r]
           /\ Goto(p, "send")
           /\ UNCHANGED resp
    /\ UNCHANGED <<row, regVars, batchVars, providerVars, lost, gone, now,
                   faults>>

(* Faulty variant: the re-read does not look at the degraded flag. *)
RefresherGet_IgnoresDegraded ==
    /\ pc[Refresher] = "get"
    /\ LET r == row[job[Refresher]] IN
        \/ r = None /\ Leave(Refresher, "next")
        \/ r # None /\ Fresh(r, threshold) /\ Leave(Refresher, "next")
        \/ /\ r # None /\ ~Fresh(r, threshold)
           /\ seen' = [seen EXCEPT ![Refresher] = r]
           /\ Goto(Refresher, "send")
           /\ UNCHANGED resp
    /\ UNCHANGED <<row, regVars, batchVars, providerVars, lost, gone, now,
                   faults>>

(* The refresh task re-reads the session: skip it when it is absent,       *)
(* degraded, or was refreshed past the threshold meanwhile.                *)
RefresherGet ==
    /\ pc[Refresher] = "get"
    /\ LET r == row[job[Refresher]] IN
        \/ ~Healthy(r) /\ Leave(Refresher, "next")
        \/ Healthy(r) /\ Fresh(r, threshold) /\ Leave(Refresher, "next")
        \/ /\ Healthy(r) /\ ~Fresh(r, threshold)
           /\ seen' = [seen EXCEPT ![Refresher] = r]
           /\ Goto(Refresher, "send")
           /\ UNCHANGED resp
    /\ UNCHANGED <<row, regVars, batchVars, providerVars, lost, gone, now,
                   faults>>

(* The bootstrap inserts the row, without an access token; an existing row *)
(* is a 409.                                                               *)
Create(p) ==
    /\ p \in Operator /\ pc[p] = "get"
    /\ \/ /\ row[job[p]] # None
          /\ Leave(p, "conflict")
          /\ UNCHANGED row
       \/ /\ Insert(job[p], seen[p])
          /\ Goto(p, "send")
          /\ UNCHANGED <<seen, resp>>
    /\ UNCHANGED <<regVars, batchVars, providerVars, lost, gone, now, faults>>

(* refresh_session: find the registration in the caller's catalog and POST *)
(* the refresh token in hand, or fail (RegistrationGone, NotOauth).        *)
Send(p) ==
    /\ pc[p] = "send"
    /\ LET cat == IF p = Refresher THEN snapshot ELSE catalog IN
        Goto(p, IF cat[NameOf(job[p])] = "oauth" THEN "sent" ELSE "fail")
    /\ UNCHANGED <<row, regVars, seen, resp, batchVars, providerVars, lost,
                   gone, now, faults>>

(* The provider accepts the token, and either rotates it, issuing another  *)
(* one, or leaves it in force.  The response arrives.                      *)
Exchange(p) ==
    /\ pc[p] = "sent" /\ seen[p].rt \notin spent
    /\ \E life \in Lifetime :
        \/ /\ issued < MaxToken
           /\ issued' = issued + 1
           /\ spent' = spent \cup {seen[p].rt}
           /\ resp' = [resp EXCEPT ![p] = [exp |-> now + life,
                                           rt |-> issued + 1]]
        \/ /\ resp' = [resp EXCEPT ![p] = [exp |-> now + life, rt |-> None]]
           /\ UNCHANGED providerVars
    /\ Goto(p, "persist")
    /\ UNCHANGED <<row, regVars, seen, batchVars, lost, gone, now, faults>>

(* The exchange fails: 4xx (the token is spent, or the user withdrew the   *)
(* grant), 5xx, a network error, the client's 30 s timeout, a malformed    *)
(* body.  The provider may nevertheless have rotated the token.            *)
ExchangeFails(p) ==
    /\ pc[p] = "sent"
    /\ spent' \in {spent, spent \cup {seen[p].rt}}
    /\ Goto(p, "fail")
    /\ UNCHANGED <<row, regVars, seen, resp, batchVars, issued, lost, gone,
                   now, faults>>

(* Faulty variant: the update is an upsert of the session in hand. *)
Persist_Upsert(p) ==
    /\ pc[p] = "persist"
    /\ row' = [row EXCEPT ![job[p]] =
                 [gen |-> seen[p].gen, exp |-> resp[p].exp, degraded |-> FALSE,
                  rt |-> IF resp[p].rt = None THEN seen[p].rt ELSE resp[p].rt]]
    /\ resp' = [resp EXCEPT ![p] = None]
    /\ Goto(p, "readback")
    /\ UNCHANGED <<regVars, seen, batchVars, providerVars, lost, gone, now,
                   faults>>

(* repo.update_tokens *)
Persist(p) ==
    /\ pc[p] = "persist"
    /\ UpdateTokens(job[p], resp[p])
    /\ resp' = [resp EXCEPT ![p] = None]
    /\ Goto(p, "readback")
    /\ UNCHANGED <<regVars, seen, batchVars, providerVars, lost, gone, now,
                   faults>>

(* Faulty variant: the proxy looks again whether the token is fresh. *)
ReadBack_Rechecks(p) ==
    /\ pc[p] = "readback"
    /\ \/ /\ row[job[p]] = None \/ p \in Proxy
          /\ Goto(p, IF row[job[p]] = None THEN "fail" ELSE "get")
          /\ UNCHANGED <<seen, resp>>
       \/ /\ row[job[p]] # None /\ p \notin Proxy
          /\ Leave(p, "idle")
    /\ UNCHANGED <<row, regVars, batchVars, providerVars, lost, gone, now,
                   faults>>

(* The canonical row is read back; a row that vanished is an error. *)
ReadBack(p) ==
    /\ pc[p] = "readback"
    /\ \/ /\ row[job[p]] = None
          /\ Goto(p, "fail")
          /\ UNCHANGED <<seen, resp>>
       \/ /\ row[job[p]] # None
          /\ Leave(p, IF p \in Proxy THEN "served" ELSE "idle")
    /\ UNCHANGED <<row, regVars, batchVars, providerVars, lost, gone, now,
                   faults>>

(* Faulty variant: a failed refresh is left for the next tick to retry. *)
Fail_Retries(p) ==
    /\ pc[p] = "fail"
    /\ \/ /\ p \notin Operator
          /\ UNCHANGED <<row, gone>>
       \/ /\ p \in Operator
          /\ Delete(job[p])
    /\ Leave(p, "idle")
    /\ UNCHANGED <<regVars, batchVars, providerVars, lost, now, faults>>

(* refresh_session returned Err: the proxy and the refresh task mark the   *)
(* session degraded, the bootstrap deletes the row it created.             *)
Fail(p) ==
    /\ pc[p] = "fail"
    /\ \/ /\ p \notin Operator
          /\ MarkDegraded(job[p])
          /\ UNCHANGED gone
       \/ /\ p \in Operator
          /\ Delete(job[p])
    /\ Leave(p, "idle")
    /\ UNCHANGED <<regVars, batchVars, providerVars, lost, now, faults>>

(* A statement fails.  A failed get or insert ends the handler (500) or    *)
(* skips the item; a failed update or read-back fails the refresh; a       *)
(* failed mark_degraded or delete is only logged.                          *)
StatementFails(p) ==
    /\ Fault
    /\ \/ /\ pc[p] = "get"
          /\ Leave(p, "idle")
          /\ UNCHANGED lost
       \/ /\ pc[p] \in {"persist", "readback"}
          /\ Goto(p, "fail")
          /\ UNCHANGED <<seen, resp, lost>>
       \/ /\ pc[p] = "fail"
          /\ lost' = lost \cup {seen[p].rt}
          /\ Leave(p, "idle")
    /\ UNCHANGED <<row, regVars, batchVars, providerVars, gone, now>>

(* The answer is on its way. *)
Return(p) ==
    /\ pc[p] \in {"served", "conflict"}
    /\ pc' = [pc EXCEPT ![p] = "idle"]
    /\ UNCHANGED <<row, regVars, holder, job, seen, resp, ignored, batchVars,
                   providerVars, lost, gone, now, faults>>

----------------------------------------------------------------------------
(* Interruption. *)

(* The provider may still rotate tokens of requests already sent. *)
Stranded(P) ==
    \E done \in SUBSET {seen[p].rt : p \in {q \in P : pc[q] = "sent"}} :
        spent' = spent \cup done

(* The refresh tokens whose exchange the tasks of P had under way. *)
Interrupted(P) == {seen[p].rt : p \in {q \in P :
                        pc[q] \in {"sent", "persist", "fail"}}}

(* The client closes the connection and the handler's future is dropped,   *)
(* with the lock guard it holds.                                           *)
Cancel(p) ==
    /\ p \in Proxy \cup Operator
    /\ pc[p] \notin {"idle", "served", "conflict"}
    /\ Fault
    /\ Stranded({p})
    /\ lost' = lost \cup Interrupted({p})
    /\ holder' = [s \in Session |-> IF holder[s] = p THEN None ELSE holder[s]]
    /\ Drop(p, "idle")
    /\ UNCHANGED <<row, regVars, batchVars, issued, gone, now>>

(* The daemon stops and starts again: the catalog is rebuilt. *)
Crash ==
    /\ Fault
    /\ Stranded(Proc)
    /\ lost' = lost \cup Interrupted(Proc)
    /\ catalog' = registered
    /\ holder' = [s \in Session |-> None]
    /\ pc' = [p \in Proc |-> "idle"]
    /\ job' = [p \in Proc |-> None]
    /\ seen' = [p \in Proc |-> None]
    /\ resp' = [p \in Proc |-> None]
    /\ ignored' = [p \in Proc |-> {}]
    /\ pending' = {} /\ threshold' = 0
    /\ snapshot' = [n \in Name |-> "oauth"]
    /\ UNCHANGED <<row, registered, issued, gone, now>>

----------------------------------------------------------------------------
(* The rest of the world. *)

(* op_oauth_revoke: one DELETE, without the session's lock. *)
Revoke(s) ==
    /\ row[s] # None
    /\ Delete(s)
    /\ UNCHANGED <<regVars, holder, taskVars, batchVars, providerVars, lost,
                   now, faults>>

(* An operator edits a registration, then the catalog is reloaded. *)
EditRegistration(n) ==
    /\ \E shape \in Shape \ {registered[n]} :
          registered' = [registered EXCEPT ![n] = shape]
    /\ UNCHANGED <<row, catalog, holder, taskVars, batchVars, providerVars,
                   lost, gone, now, faults>>

ReloadCatalog ==
    /\ catalog # registered
    /\ catalog' = registered
    /\ UNCHANGED <<row, registered, holder, taskVars, batchVars, providerVars,
                   lost, gone, now, faults>>

Clock ==
    /\ now < MaxTime
    /\ now' = now + 1
    /\ UNCHANGED <<row, regVars, holder, taskVars, batchVars, providerVars,
                   lost, gone, faults>>

----------------------------------------------------------------------------
(* One step of the refresh_session sequence, whoever runs it. *)
RefreshStep(p) ==
    \/ Send(p) \/ Exchange(p) \/ ExchangeFails(p)
    \/ Persist(p) \/ ReadBack(p) \/ Fail(p)

TaskStep(p) == ProxyGet(p) \/ Create(p) \/ RefreshStep(p) \/ Return(p)

RefresherStep == Tick \/ LoadCatalog \/ NextItem \/ EndBatch \/ RefresherGet

Environment ==
    \/ \E p \in Proc : StatementFails(p) \/ Cancel(p)
    \/ Crash
    \/ \E s \in Session : Revoke(s)
    \/ \E n \in Name : EditRegistration(n)
    \/ ReloadCatalog \/ Clock

Next ==
    \/ \E p \in Proxy : ProxyStart(p)
    \/ \E p \in Operator : BootstrapStart(p)
    \/ \E p \in Proc : Lock(p) \/ TaskStep(p)
    \/ RefresherStep
    \/ Environment

Spec == Init /\ [][Next]_vars

(* Every task makes progress: the executor polls a runnable future, the    *)
(* HTTP client gives up after 30 s, time passes, and tokio's Mutex serves  *)
(* its waiters in order, so a task that waits for a lock that is released  *)
(* again and again gets it.  Nothing is assumed of requests, operators or  *)
(* faults.                                                                 *)
Fairness ==
    /\ \A p \in Proc : WF_vars(TaskStep(p)) /\ SF_vars(Lock(p))
    /\ WF_vars(RefresherStep)
    /\ WF_vars(Clock)

LiveSpec == Spec /\ Fairness

----------------------------------------------------------------------------
(* Properties. *)

(* A task is between its lock acquisition and the drop of its guard. *)
Critical(p) == pc[p] \in {"get", "send", "sent", "persist", "readback", "fail"}

(* A task has a session in hand that it read or created under the lock. *)
HasSession(p) == pc[p] \in {"send", "sent", "persist", "readback", "fail"}

(* The refresh task, the proxy and the bootstrap never exchange tokens for *)
(* the same session at the same time (refresh.rs, "Concurrency").          *)
OneExchangePerSession ==
    \A p, q \in Proc :
        HasSession(p) /\ HasSession(q) /\ job[p] = job[q] => p = q

(* What a task writes goes to the incarnation it read: although the        *)
(* UPDATEs and the DELETE name only the key, and revoke takes no lock, the *)
(* row a task is about to update, degrade or roll back is the one it has   *)
(* in hand or is gone.                                                     *)
WritesOwnIncarnation ==
    \A p \in Proc : HasSession(p) /\ row[job[p]] # None =>
        row[job[p]].gen = seen[p].gen

(* No refresh token that the provider rotated away is presented again,     *)
(* unless its exchange was cut short by a crash, a closed connection or a  *)
(* failed mark_degraded / rollback: this is what the lock and the re-read  *)
(* under it are for.                                                       *)
NoSpentTokenReplay ==
    \A p \in Proc : pc[p] = "sent" /\ seen[p].rt \in spent => seen[p].rt \in lost

(* A request that starts after a session was deleted is never served with  *)
(* that session's token, whatever was in flight at the time.               *)
RevokedIsNotServed ==
    [][\A p \in Proxy : pc[p] # "served" /\ pc'[p] = "served" =>
          row[job[p]].gen \notin ignored[p]]_vars

(* The life cycle of a session, read off its row. *)
Life == [s \in Session |->
            IF row[s] = None THEN None
            ELSE [gen |-> row[s].gen,
                  phase |-> IF row[s].degraded THEN "degraded"
                            ELSE IF row[s].exp = None THEN "new" ELSE "live"]]
Lifecycle == INSTANCE OauthLifecycle WITH Gen <- Token, life <- Life, past <- gone

(* The store implements the life cycle OauthLifecycle promises, whatever   *)
(* crashes, fails or is cut off on the way: a session obtains tokens only  *)
(* until it is degraded, only removal ends the degraded phase (a bootstrap *)
(* answers 409 then, admin.rs:130-141) and no task brings a removed        *)
(* session back.                                                           *)
ImplementsLifecycle == Lifecycle!Spec

(* What the documentation says of a degraded session: the operator runs    *)
(* bootstrap again, and "on success, `degraded` clears and both ciphertext *)
(* columns are replaced" (docs/user/concepts/oauth-flow.md:295-297); this  *)
(* is how to recover (refresh.rs:26-28).  So a bootstrap that finds its    *)
(* session degraded is not turned away before its token is even tried.     *)
(* The code turns it away.                                                 *)
RebootstrapRecovers ==
    [][\A p \in Operator :
          pc[p] = "get" /\ pc'[p] = "conflict" => ~row[job[p]].degraded]_vars

(* A proxy request that asked for the lock gets an answer (or is cut off). *)
ResolveReturns ==
    \A p \in Proxy : pc[p] = "wait" ~> pc[p] \in {"idle", "served"}

(* A healthy session whose access token is about to expire does not stay   *)
(* unattended: it is exchanged, degraded or removed.                       *)
Due(s) == s \in PendingRefresh(now + BgMargin)
DueIsAttended ==
    \A s \in Session :
        Due(s) ~> (~Due(s) \/ \E p \in Proc : pc[p] = "sent" /\ job[p] = s)

============================================================================
