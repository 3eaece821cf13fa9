----------------------------- MODULE Admission -----------------------------
(***************************************************************************)
(* Who gets past the listeners that know client certificates: the agent    *)
(* listener (auth_middleware, MtlsAuthenticator, BearerAuthenticator) and  *)
(* the admin HTTPS listener (operator_auth_middleware,                     *)
(* OperatorAuthenticator), each in its auth_mode. Without the admin        *)
(* substrate the agent listener knows one shared token, or none, and keeps *)
(* no audit.                                                               *)
(*                                                                         *)
(* The certificate is taken at the handshake and handed to every request   *)
(* of the connection, for as long as it lasts.  Up to its first await a    *)
(* request is one step: the middleware and MtlsValidator::validate.        *)
(* Statements and audits that are awaited are steps of their own; the      *)
(* audits of MtlsAuthenticator are tasks that nobody waits for.            *)
(***************************************************************************)
EXTENDS CertRevocation

CONSTANTS
    Conn,           \* connections that may be open at the same time
    Agent,          \* rows of the agents table
    Identity,       \* identities a certificate can carry
    IdentityOf,     \* of each certificate: its CN or SAN, or None
    NotAfter,       \* of each certificate: the last second of its validity
    Expiry,         \* of each agent: expires_at, or None
    OperatorCert,   \* cert_identity values in operators.yaml
    Deployments,    \* listeners considered, and the lists wired to them
    MaxTask         \* bound: audit tasks waiting at the same time

AgentSide == {"agent", "shared", "anyone"}
Listener == [side : AgentSide \cup {"operator"}, mode : {"bearer", "mtls", "both"}]

ASSUME AdmissionAssumption ==
    /\ Deployments \subseteq Listener \X Wirings
    /\ IdentityOf \in [Cert -> Identity \cup {None}] /\ NotAfter \in [Cert -> Nat]
    /\ Expiry \in [Agent -> Nat \cup {None}] /\ OperatorCert \subseteq Identity
    /\ MaxTask \in Nat
    /\ None \notin Identity \cup Agent \cup Nat
    /\ "absent" \notin Agent /\ "bad" \notin Agent /\ "good" \notin Agent

VARIABLES
    listener,   \* the listener and its auth_mode, fixed at startup
    rows,       \* the agents table: cert_identity and revoked_at
    open,       \* the connections that are open
    peer,       \* PeerCertDer of each connection
    pc,         \* of each connection's request: the next step
    header,     \* its Authorization header: absent, bad, or whose it is
    answer,     \* what it will be answered
    logged,     \* its refusal's audit row
    tasks,      \* spawned audits that have not run
    certGood,   \* history: the certificate was in order since it began
    bound       \* history: the agents the certificate stood for since then

requestVars == <<pc, header, answer, logged>>
admissionVars == <<listener, rows, open, peer, requestVars, tasks>>
vars == <<revocationVars, now, faults, admissionVars, certGood, bound>>

Header == Agent \cup {"absent", "bad", "good"}
Answer == [code : {"admitted", "public", "missing", "invalid", "unverified", "backend"},
           as : {"mtls", "bearer", None}, agent : Agent \cup {None}]

AdmissionTypeOK ==
    /\ RevocationTypeOK
    /\ <<listener, wiring>> \in Deployments
    /\ rows \in [Agent -> [ident : Identity \cup {None}, revoked : BOOLEAN]]
    /\ open \subseteq Conn /\ peer \in [Conn -> Cert \cup {None}]
    /\ pc \in [Conn -> {"idle", "lookup", "resolve", "audit", "answer"}]
    /\ header \in [Conn -> Header \cup {None}]
    /\ answer \in [Conn -> Answer \cup {None}]
    /\ logged \in [Conn -> {"no", "spawned", "written", "failed"}]
    /\ tasks \in 0..MaxTask
    /\ certGood \in [Conn -> BOOLEAN] /\ bound \in [Conn -> SUBSET Agent]

Init ==
    /\ \E d \in Deployments : listener = d[1] /\ wiring = d[2]
    /\ RevocationInit
    /\ rows \in [Agent -> [revoked : {FALSE}, ident : {None} \cup
                    (IF listener.side = "operator" THEN {} ELSE Identity)]]
    /\ open = {} /\ peer = [k \in Conn |-> None]
    /\ pc = [k \in Conn |-> "idle"]
    /\ header = [k \in Conn |-> None]
    /\ answer = [k \in Conn |-> None]
    /\ logged = [k \in Conn |-> "no"]
    /\ tasks = 0
    /\ certGood = [k \in Conn |-> FALSE] /\ bound = [k \in Conn |-> {}]

----------------------------------------------------------------------------
Refused(code) == [code |-> code, as |-> None, agent |-> None]
Admitted(as, a) == [code |-> "admitted", as |-> as, agent |-> a]

Goto(k, label) == pc' = [pc EXCEPT ![k] = label]

(* The answer is known and can be sent. *)
Decide(k, what) == answer' = [answer EXCEPT ![k] = what] /\ Goto(k, "answer")

(* The answer is known and its audit row is written first. *)
DecideAudited(k, what) == answer' = [answer EXCEPT ![k] = what] /\ Goto(k, "audit")

(* The answer is known and a task will write its audit row, if there is an *)
(* audit log.                                                              *)
DecideSpawning(k, what) ==
    /\ Decide(k, what)
    /\ IF listener.side = "agent"
       THEN /\ tasks < MaxTask
            /\ logged' = [logged EXCEPT ![k] = "spawned"]
            /\ tasks' = tasks + 1
       ELSE UNCHANGED <<logged, tasks>>

(* Faulty variant: the validity is left to the handshake. *)
Valid_HandshakeChecked(c) ==
    /\ "blocklist" \in wiring => c \notin snap.serials
    /\ "crl" \in wiring => c \notin crl
    /\ IdentityOf[c] # None

(* MtlsValidator::validate, of a certificate that passed the handshake: it *)
(* is well-formed and its chain is trusted.  One that came with an         *)
(* intermediate is refused here, as one without an identity is (None).     *)
Valid(c) ==
    /\ now <= NotAfter[c]
    /\ "blocklist" \in wiring => c \notin snap.serials
    /\ "crl" \in wiring => c \notin crl
    /\ IdentityOf[c] # None

BoundTo(c) == {a \in Agent : rows[a].ident = IdentityOf[c] /\ ~rows[a].revoked}

----------------------------------------------------------------------------
(* Connections. *)

(* build_server_config: no certificate is asked for under `bearer`, one is *)
(* required under `mtls`; its chain and validity are looked at.            *)
Peers ==
    (IF listener.mode = "bearer" THEN {} ELSE {c \in Cert : now <= NotAfter[c]})
    \cup (IF listener.mode = "mtls" THEN {} ELSE {None})

(* handle_conn keeps what the handshake brought. *)
Handshake(k) ==
    /\ k \notin open
    /\ \E c \in Peers : peer' = [peer EXCEPT ![k] = c]
    /\ open' = open \cup {k}
    /\ UNCHANGED <<revocationVars, now, faults, listener, rows, requestVars, tasks>>

(* The client goes away; a request in progress is dropped with it. *)
Disconnect(k) ==
    /\ k \in open
    /\ open' = open \ {k}
    /\ peer' = [peer EXCEPT ![k] = None]
    /\ Goto(k, "idle")
    /\ header' = [header EXCEPT ![k] = None]
    /\ answer' = [answer EXCEPT ![k] = None]
    /\ logged' = [logged EXCEPT ![k] = "no"]
    /\ UNCHANGED <<revocationVars, now, faults, listener, rows, tasks>>

Arrive(k, sides, h) ==
    /\ k \in open /\ pc[k] = "idle"
    /\ listener.side \in sides
    /\ header' = [header EXCEPT ![k] = h]
    /\ UNCHANGED <<revocationVars, now, faults, listener, rows, open, peer>>

----------------------------------------------------------------------------
(* The agent listener: auth_middleware. *)

(* Probes and /transport, or /skill without a header. *)
PublicRequest(k) ==
    /\ Arrive(k, AgentSide, "absent")
    /\ Decide(k, Refused("public"))
    /\ UNCHANGED <<logged, tasks>>

(* A certificate is never passed over in favour of the header. *)
AgentCertRequest(k) ==
    \E h \in Agent \cup {"absent", "bad"} :
        /\ Arrive(k, AgentSide, h)
        /\ peer[k] # None
        /\ \/ /\ Valid(peer[k])
              /\ Goto(k, "lookup")
              /\ UNCHANGED <<answer, logged, tasks>>
           \/ /\ ~Valid(peer[k])
              /\ DecideSpawning(k, Refused("invalid"))

(* run_bearer_branch: every failure is audited by the authenticator.  A    *)
(* bad token is malformed, or one that resolve has to look up.             *)
AgentBearerRequest(k) ==
    \E h \in Agent \cup {"absent", "bad"} :
        /\ Arrive(k, {"agent"}, h)
        /\ peer[k] = None
        /\ \/ /\ h # "absent"
              /\ Goto(k, "resolve")
              /\ UNCHANGED answer
           \/ h = "absent" /\ DecideAudited(k, Refused("missing"))
           \/ h = "bad" /\ DecideAudited(k, Refused("invalid"))
        /\ UNCHANGED <<logged, tasks>>

(* inbound_auth: the shared token, or nobody is asked. *)
SharedBearerRequest(k) ==
    \E h \in {"absent", "bad", "good"} :
        /\ Arrive(k, {"shared", "anyone"}, h)
        /\ peer[k] = None
        /\ Decide(k, IF h = "good" \/ listener.side = "anyone" THEN Admitted("bearer", None)
                     ELSE Refused("invalid"))
        /\ UNCHANGED <<logged, tasks>>

(* Faulty variant: an unknown identity is not audited. *)
LookUp_Silent(k) ==
    /\ pc[k] = "lookup"
    /\ \/ \E a \in BoundTo(peer[k]) : Decide(k, Admitted("mtls", a))
       \/ BoundTo(peer[k]) = {} /\ Decide(k, Refused("invalid"))
    /\ UNCHANGED <<revocationVars, now, faults, listener, rows, open, peer, header,
                   logged, tasks>>

(* get_by_cert_identity: any active row that is bound to the identity, for *)
(* the column is not unique; expires_at does not matter here.              *)
LookUp(k) ==
    /\ pc[k] = "lookup"
    /\ \/ /\ \E a \in BoundTo(peer[k]) : Decide(k, Admitted("mtls", a))
          /\ UNCHANGED <<logged, tasks>>
       \/ BoundTo(peer[k]) = {} /\ DecideSpawning(k, Refused("invalid"))
    /\ UNCHANGED <<revocationVars, now, faults, listener, rows, open, peer, header>>

(* BearerAuthenticator::resolve: the secret is right unless the token is   *)
(* bad; the last second of expires_at is still good.                       *)
Resolve(k) ==
    /\ pc[k] = "resolve"
    /\ LET a == header[k]
           ok == /\ a # "bad" /\ ~rows[a].revoked
                 /\ Expiry[a] # None => Expiry[a] >= now
       IN  \/ ok /\ Decide(k, Admitted("bearer", a))
           \/ ~ok /\ DecideAudited(k, Refused("invalid"))
    /\ UNCHANGED <<revocationVars, now, faults, listener, rows, open, peer, header,
                   logged, tasks>>

(* A statement fails: Backend, which is not audited. *)
StatementFails(k) ==
    /\ pc[k] \in {"lookup", "resolve"}
    /\ Fault
    /\ Decide(k, Refused("backend"))
    /\ UNCHANGED <<revocationVars, now, listener, rows, open, peer, header, logged, tasks>>

----------------------------------------------------------------------------
(* The admin HTTPS listener: operator_auth_middleware.  The operators are  *)
(* read at startup and kept in memory.                                     *)

(* A certificate that does not validate is refused without an audit row.   *)
OperatorCertRequest(k) ==
    \E h \in {"absent", "bad", "good"} :
        /\ Arrive(k, {"operator"}, h)
        /\ peer[k] # None
        /\ \/ ~Valid(peer[k]) /\ Decide(k, Refused("unverified"))
           \/ /\ Valid(peer[k]) /\ IdentityOf[peer[k]] \in OperatorCert
              /\ Decide(k, Admitted("mtls", None))
           \/ /\ Valid(peer[k]) /\ IdentityOf[peer[k]] \notin OperatorCert
              /\ DecideAudited(k, Refused("invalid"))
        /\ UNCHANGED <<logged, tasks>>

OperatorBearerRequest(k) ==
    \E h \in {"absent", "bad", "good"} :
        /\ Arrive(k, {"operator"}, h)
        /\ peer[k] = None
        /\ \/ h = "absent" /\ Decide(k, Refused("missing"))
           \/ h = "good" /\ Decide(k, Admitted("bearer", None))
           \/ h = "bad" /\ DecideAudited(k, Refused("invalid"))
        /\ UNCHANGED <<logged, tasks>>

----------------------------------------------------------------------------
(* Audits and answers. *)

(* audit_failure, awaited; a failed write is logged elsewhere. *)
AuditRefusal(k) ==
    /\ pc[k] = "audit"
    /\ \/ logged' = [logged EXCEPT ![k] = "written"] /\ UNCHANGED faults
       \/ logged' = [logged EXCEPT ![k] = "failed"] /\ Fault
    /\ Goto(k, "answer")
    /\ UNCHANGED <<revocationVars, now, listener, rows, open, peer, header, answer, tasks>>

(* audit_failure_blocking and audit_unknown_identity: the spawned task. *)
RunTask ==
    /\ tasks > 0
    /\ tasks' = tasks - 1
    /\ UNCHANGED <<revocationVars, now, faults, listener, rows, open, peer, requestVars>>

Respond(k) ==
    /\ pc[k] = "answer"
    /\ Goto(k, "idle")
    /\ header' = [header EXCEPT ![k] = None]
    /\ answer' = [answer EXCEPT ![k] = None]
    /\ logged' = [logged EXCEPT ![k] = "no"]
    /\ UNCHANGED <<revocationVars, now, faults, listener, rows, open, peer, tasks>>

----------------------------------------------------------------------------
(* The operator's statements. *)

(* set_agent_cert_identity: revoked rows too, and whoever else has it. *)
SetCertIdentity(a) ==
    /\ \E i \in (Identity \cup {None}) \ {rows[a].ident} :
        rows' = [rows EXCEPT ![a].ident = i]
    /\ UNCHANGED <<revocationVars, now, faults, listener, open, peer, requestVars, tasks>>

RevokeAgent(a) ==
    /\ ~rows[a].revoked
    /\ rows' = [rows EXCEPT ![a].revoked = TRUE]
    /\ UNCHANGED <<revocationVars, now, faults, listener, open, peer, requestVars, tasks>>

Step ==
    \/ \E k \in Conn :
        \/ Handshake(k) \/ Disconnect(k)
        \/ PublicRequest(k) \/ AgentCertRequest(k) \/ AgentBearerRequest(k)
        \/ SharedBearerRequest(k)
        \/ LookUp(k) \/ Resolve(k) \/ StatementFails(k)
        \/ OperatorCertRequest(k) \/ OperatorBearerRequest(k)
        \/ AuditRefusal(k) \/ Respond(k)
    \/ RunTask
    \/ \E a \in Agent : listener.side = "agent" /\ (SetCertIdentity(a) \/ RevokeAgent(a))
    \/ RevocationNext /\ UNCHANGED admissionVars

(* At this moment: the connection's certificate is in order; the agents it *)
(* stands for.                                                             *)
CertInOrder(k) ==
    /\ peer[k] # None /\ now <= NotAfter[peer[k]] /\ IdentityOf[peer[k]] # None
    /\ "blocklist" \in wiring => peer[k] \notin snap.serials
    /\ "crl" \in wiring => peer[k] \notin crl
Means(k) == IF peer[k] = None \/ IdentityOf[peer[k]] = None THEN {} ELSE BoundTo(peer[k])

Observe ==
    /\ certGood' = [k \in Conn |->
         pc'[k] # "idle" /\ (CertInOrder(k) \/ CertInOrder(k)' \/ (pc[k] # "idle" /\ certGood[k]))]
    /\ bound' = [k \in Conn |->
         IF pc'[k] = "idle" THEN {} ELSE Means(k) \cup Means(k)' \cup bound[k]]

Next == Step /\ Observe

Spec == Init /\ [][Next]_vars

----------------------------------------------------------------------------
(* Properties. *)

(* Nobody is admitted on the strength of the handshake alone.  A request   *)
(* on a connection with a certificate is admitted as mTLS, whatever its    *)
(* header, and only if since it began the certificate was within its       *)
(* validity and in none of the wired lists, and the agent it is admitted   *)
(* as was active and bound to its identity; without a certificate it is    *)
(* admitted only where bearer tokens are, and as the token's agent unless  *)
(* nobody is asked for one (auth_middleware, operator_auth_middleware).    *)
AdmissionIsEarned ==
    /\ AdmissionTypeOK
    /\ \A k \in Conn : answer[k] # None /\ answer[k].code = "admitted" =>
        IF peer[k] = None
        THEN /\ listener.mode # "mtls" /\ answer[k].as = "bearer"
             /\ \/ listener.side = "anyone"
                \/ header[k] = IF listener.side = "agent" THEN answer[k].agent ELSE "good"
        ELSE /\ answer[k].as = "mtls" /\ certGood[k]
             /\ IF listener.side = "operator" THEN IdentityOf[peer[k]] \in OperatorCert
                ELSE answer[k].agent \in bound[k]

(* "The audit hook fires on every InvalidCredential return"                *)
(* (authenticator.rs): when a refusal is sent its audit row is written or  *)
(* its task spawned, unless the write failed.  Not audited are errors of   *)
(* the database, a missing header of an operator, an operator's            *)
(* certificate that does not validate, and whatever a daemon without the   *)
(* admin substrate refuses.                                                *)
RefusalsAreOnRecord ==
    \A k \in Conn : pc[k] = "answer" =>
        \/ answer[k].code \in {"admitted", "public", "backend"}
        \/ listener.side = "operator" /\ answer[k].code \in {"missing", "unverified"}
        \/ listener.side \in {"shared", "anyone"}
        \/ logged[k] \in {"spawned", "written", "failed"}

============================================================================
