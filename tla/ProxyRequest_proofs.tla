------------------------ MODULE ProxyRequest_proofs ------------------------
(***************************************************************************)
(* The theorems about ProxyRequest, for any registrations, overrides,      *)
(* configurations, bodies and responses: the credential that leaves, the   *)
(* client it leaves with, the audit rows and the cap on the stream.        *)
(***************************************************************************)
EXTENDS ProxyRequest, TLAPS

(* Where the request is tells what it has. *)
Opening == {"idle", "lookup", "foreign", "override", "oauth", "check", "body", "build"}
PhaseInv ==
    /\ pc \notin {"record", "stream", "done"} =>
            trail = <<>> /\ stream = None /\ reply = None /\ whole
    /\ pc \notin {"stream", "done"} => task = <<>>
    /\ pc = "record" <=> rows # <<>>
    /\ pc \in Opening => sent = None
    /\ pc \in {"send", "buffer"} => sent # None
    /\ pc \notin {"idle", "done"} => req \in Request
    /\ pc \in {"override", "oauth", "check", "body", "build", "send", "buffer"} =>
            target \in Target
    /\ pc = "build" => req.body \in Body
    /\ pc = "buffer" => resp \in Response
    /\ pc = "stream" => stream # None

(* The target's credential is of the kind its auth block asks for. *)
Fitting ==
    /\ target.value = "override" => target.auth \in Static /\ target.source = "agent_override"
    /\ target.value = "token" <=> target.auth = "oauth"

(* A credential that was there when it was checked is there when it is     *)
(* put in, unless an older copy was stored over it, and what left is as it *)
(* was put in.                                                             *)
CredInv ==
    /\ pc \in {"override", "oauth"} => target.value = None
    /\ pc = "oauth" => target.auth = "oauth"
    /\ pc \in {"check", "body", "build"} => Fitting
    /\ pc \in {"body", "build"} => ~Missing \/ lost
    /\ sent # None => (sent.fixup <=> sent.body # req.body)
    /\ ForceReplaceIsHonoured /\ CredentialIsAttributed

(* The client in the pool is one built for its fingerprint, the one a      *)
(* request left with one built for its target.                             *)
ClientInv ==
    /\ pool # None => \E t \in Target : /\ pool.fp = Fingerprint(t)
                                        /\ pool.client \in BuildClient(t, ~conf.restricted)
    /\ sent # None => sent.client \in BuildClient(target, ~conf.restricted)

IsRedaction(row) == row.event = "response_redaction"
IsCut(row) == row.event = "response_size_exceeded"

(* An outcome that says what happened. *)
Good(row) ==
    /\ row.event \in Outcome
    /\ row.event \in Contacted <=> sent # None
    /\ row.event = "proxy_request" =>
            /\ reply \in {"served", "cut"} /\ row.status = resp.status
            /\ row.fixup <=> sent.body # req.body

(* The rows before the one that says so are redactions; behind it there is *)
(* at most the one of the cut.                                             *)
CutWritten == stream # None /\ stream.marker # "none" /\ task = <<>>
Last == IF CutWritten THEN Len(trail) - 1 ELSE Len(trail)
Recorded ==
    /\ Last >= 1 /\ Good(trail[Last])
    /\ \A i \in 1..(Last - 1) : IsRedaction(trail[i])
    /\ CutWritten => IsCut(trail[Len(trail)])
    /\ stream # None => trail[Last].event = "proxy_request"

AuditInv ==
    /\ pc = "record" /\ whole =>
        /\ reply \notin {"foreign", "rejected"}
        /\ \A i \in 1..Len(trail) : IsRedaction(trail[i])
        /\ \A i \in 1..(Len(rows) - 1) : IsRedaction(rows[i])
        /\ Good(rows[Len(rows)])
        /\ stream # None => rows[Len(rows)].event = "proxy_request"
    /\ pc \in {"stream", "done"} /\ whole =>
        IF reply \in {"foreign", "rejected"} THEN trail = <<>> /\ stream = None ELSE Recorded

(* What the stream has let through and what it has left make the response, *)
(* until it is cut.                                                        *)
StreamInv ==
    /\ stream = None => task = <<>>
    /\ stream # None =>
        /\ resp \in Response /\ sent # None
        /\ pc = "record" => stream.marker = "none"
        /\ stream.marker = "none" =>
            /\ stream.seen + stream.left = resp.size /\ task = <<>>
            /\ conf.cap # None => stream.seen <= conf.cap
        /\ stream.marker # "none" =>
            /\ Over /\ stream.seen = conf.cap
            /\ task # <<>> => Len(task) = 1 /\ IsCut(task[1])
        /\ pc = "done" /\ whole /\ reply = "served" =>
                stream.marker = "sent" \/ (stream.marker = "none" /\ stream.left = 0)

RequestInv == TypeOK /\ PhaseInv /\ CredInv /\ ClientInv /\ AuditInv /\ StreamInv
----------------------------------------------------------------------------
(* Lemmas about the operators. *)

LEMMA PlainRow ==
    ASSUME NEW event \in Event
    PROVE  Plain(event) \in Row /\ Plain(event).event = event
BY DEF Plain, Row

LEMMA RowType ==
    ASSUME NEW event \in Event, NEW status \in {"2xx", "5xx", None},
           NEW source \in {"registration_default", "agent_override", None},
           NEW fixup \in BOOLEAN
    PROVE  LET row == [event |-> event, status |-> status, source |-> source, fixup |-> fixup]
           IN  /\ row \in Row /\ row.event = event /\ row.status = status
               /\ row.fixup = fixup
BY DEF Row

LEMMA DetailedRow ==
    ASSUME target \in Target, NEW event \in Event, NEW status \in {"2xx", "5xx", None}
    PROVE  /\ Detailed(event, status) \in Row /\ Detailed(event, status).event = event
           /\ Detailed(event, status).status = status
           /\ Detailed(event, status).fixup <=> sent # None /\ sent.fixup
<1> DEFINE b == sent # None /\ sent.fixup
<1>1. b \in BOOLEAN
    BY Zenon
<1>2. Detailed(event, status) =
        [event |-> event, status |-> status, source |-> target.source, fixup |-> b]
    BY Zenon DEF Detailed
<1>3. target.source \in {"registration_default", "agent_override"}
    BY DEF Target
<1> HIDE DEF b
<1>4. /\ Detailed(event, status) \in Row /\ Detailed(event, status).event = event
      /\ Detailed(event, status).status = status /\ Detailed(event, status).fixup = b
    <2>1. target.source \in {"registration_default", "agent_override", None}
        BY <1>3, Zenon
    <2> DEFINE row == [event |-> event, status |-> status, source |-> target.source,
                       fixup |-> b]
    <2>2. row \in Row /\ row.event = event /\ row.status = status /\ row.fixup = b
        BY <1>1, <2>1, RowType
    <2> QED
        BY <1>2, <2>2, Zenon
<1>5. Detailed(event, status).fixup <=> b
    BY <1>1, <1>4
<1> QED
    BY <1>4, <1>5, Zenon DEF b

LEMMA OneRow ==
    ASSUME NEW row \in Row
    PROVE  /\ <<row>> \in Seq(Row) /\ <<row>> # <<>> /\ Len(<<row>>) = 1
           /\ <<row>>[1] = row
OBVIOUS

LEMMA NoRows == ASSUME NEW s \in Seq(Row) PROVE s = <<>> <=> Len(s) = 0
OBVIOUS

(* What is written first goes, the rest is still to be written. *)
LEMMA HeadTail ==
    ASSUME NEW s \in Seq(Row), s # <<>>
    PROVE  /\ Head(s) = s[1] /\ s[1] \in Row /\ Tail(s) \in Seq(Row)
           /\ Len(s) \in Nat \ {0} /\ Len(Tail(s)) = Len(s) - 1
           /\ \A i \in 1..(Len(s) - 1) : Tail(s)[i] = s[i + 1]
           /\ Tail(s) = <<>> <=> Len(s) = 1
<1>1. /\ Head(s) = s[1] /\ s[1] \in Row /\ Tail(s) \in Seq(Row)
      /\ Len(s) \in Nat \ {0} /\ Len(Tail(s)) = Len(s) - 1
    OBVIOUS
<1>2. \A i \in 1..(Len(s) - 1) : Tail(s)[i] = s[i + 1]
    OBVIOUS
<1>3. Tail(s) = <<>> <=> Len(Tail(s)) = 0
    BY <1>1, NoRows, Zenon
<1>4. Tail(s) = <<>> <=> Len(s) = 1
    BY <1>1, <1>3
<1> QED
    BY <1>1, <1>2, <1>4, Zenon

LEMMA AppendRow ==
    ASSUME NEW s \in Seq(Row), NEW row \in Row
    PROVE  /\ Append(s, row) \in Seq(Row) /\ Append(s, row) # <<>>
           /\ Len(s) \in Nat /\ Len(Append(s, row)) = Len(s) + 1
           /\ \A i \in 1..Len(s) : Append(s, row)[i] = s[i]
           /\ Append(s, row)[Len(s) + 1] = row
OBVIOUS

(* The rows of a redacted response end with the one of its success. *)
LEMMA RedactedRows ==
    ASSUME resp \in Response, NEW row \in Row
    PROVE  LET s == Redactions \o <<row>> IN
           /\ s \in Seq(Row) /\ s # <<>> /\ s[Len(s)] = row
           /\ \A i \in 1..(Len(s) - 1) : IsRedaction(s[i])
<1> DEFINE p == Plain("response_redaction")
           h == resp.hits
           s == Redactions \o <<row>>
<1>1. h \in Nat
    BY ConstantsAssumption
<1>2. p \in Row /\ IsRedaction(p)
    BY PlainRow, Zenon DEF Event, IsRedaction
<1>3. Redactions = [i \in 1..h |-> p]
    BY Zenon DEF Redactions
<1> HIDE DEF p, h
<1>4. /\ Redactions \in Seq(Row) /\ Len(Redactions) = h
      /\ \A i \in 1..h : Redactions[i] = p
    BY <1>1, <1>2, <1>3
<1>5. /\ s \in Seq(Row) /\ Len(s) = h + 1 /\ s[h + 1] = row
      /\ \A i \in 1..h : s[i] = p
    BY <1>1, <1>4, OneRow
<1> HIDE DEF s
<1>6. s # <<>> /\ s[Len(s)] = row
    BY <1>1, <1>5
<1>7. Len(s) - 1 = h
    BY <1>1, <1>5
<1>8. \A i \in 1..(Len(s) - 1) : IsRedaction(s[i])
    BY <1>2, <1>5, <1>7, Zenon
<1> QED
    BY <1>5, <1>6, <1>8, Zenon DEF s

(* What a lookup finds has no credential of its own yet. *)
LEMMA ResolveType ==
    ASSUME TypeOK
    PROVE  /\ ResolveTarget \in Target \cup {None}
           /\ ResolveTarget # None => ResolveTarget \in Target /\ ResolveTarget.value = None
<1>1. CASE reg # None
    <2>1. reg \in Entry
        BY <1>1, Zenon DEF TypeOK
    <2>2. /\ reg.auth \in Shape /\ reg.force \in BOOLEAN /\ reg.codex \in BOOLEAN
          /\ reg.timeouts \in Nat /\ reg.egress \in Egress
        BY <2>1, ConstantsAssumption, Zenon
    <2>3. FromEntry(reg) \in Target /\ FromEntry(reg).value = None
        BY <2>2 DEF FromEntry, Target
    <2> QED
        BY <1>1, <2>3, Zenon DEF ResolveTarget
<1>2. CASE reg = None /\ conf.tool # None
    <2>1. /\ conf.tool.auth \in {"none", "header"} /\ conf.tool.force \in BOOLEAN
          /\ conf.tool.timeouts \in Nat /\ conf.tool.egress \in Egress
        BY <1>2, ConstantsAssumption, Zenon DEF TypeOK
    <2>2. FromConfig(conf.tool) \in Target /\ FromConfig(conf.tool).value = None
        BY <2>1 DEF FromConfig, Target, Shape, Static
    <2> QED
        BY <1>2, <2>2, Zenon DEF ResolveTarget
<1>3. CASE reg = None /\ conf.tool = None
    BY <1>3, Zenon DEF ResolveTarget
<1> QED
    BY <1>1, <1>2, <1>3, Zenon

(* An override brings its own credential, or none. *)
LEMMA OverriddenType ==
    ASSUME NEW t \in Target, t.value = None, NEW o \in Override
    PROVE  LET u == Overridden(t, o) IN
           /\ u \in Target /\ u.value \in {None, "override"}
           /\ u.value = "override" => u.auth \in Static /\ u.source = "agent_override"
<1>1. o.auth \in Shape /\ o.force \in BOOLEAN /\ o.set \in BOOLEAN
    BY ConstantsAssumption, Zenon
<1>2. CASE o.auth = "oauth"
    <2>1. Overridden(t, o) = [t EXCEPT !.source = "agent_override"]
        BY <1>2, Zenon DEF Overridden
    <2>2. [t EXCEPT !.source = "agent_override"] \in Target
          /\ [t EXCEPT !.source = "agent_override"].value = None
        BY DEF Target
    <2> QED
        BY <2>1, <2>2, ConstantsAssumption, Zenon
<1>3. CASE o.auth # "oauth"
    <2> DEFINE f == o.auth \in Static /\ o.force
               v == IF o.auth \in Static /\ o.set THEN "override" ELSE None
               u == [t EXCEPT !.auth = o.auth, !.source = "agent_override",
                              !.force = f, !.value = v]
    <2>1. f \in BOOLEAN /\ v \in {"override", None} /\ (v = "override" => o.auth \in Static)
        BY ConstantsAssumption, Zenon
    <2>2. Overridden(t, o) = u
        BY <1>3, Zenon DEF Overridden
    <2> HIDE DEF f, v
    <2>3. u \in Target /\ u.value = v /\ u.auth = o.auth /\ u.source = "agent_override"
        BY <1>1, <2>1 DEF Target
    <2> QED
        BY <2>1, <2>2, <2>3, Zenon
<1> QED
    BY <1>2, <1>3, Zenon

(* A client depends on no more of its target than the fingerprint has. *)
LEMMA FingerprintDecides ==
    ASSUME NEW t, NEW u, Fingerprint(t) = Fingerprint(u), NEW follow
    PROVE  BuildClient(t, follow) = BuildClient(u, follow)
<1>1. t.timeouts = u.timeouts /\ t.egress = u.egress
    BY DEF Fingerprint
<1> QED
    BY <1>1, Zenon DEF BuildClient

LEMMA BuiltType ==
    ASSUME conf \in Config, NEW t \in Target
    PROVE  /\ Fingerprint(t).redirects = ~conf.restricted
           /\ BuildClient(t, ~conf.restricted) \subseteq Client
           /\ \A c \in Client : [client |-> c, fp |-> Fingerprint(t)] \in Cached
<1>1. conf.proxy \in ProxyUrl /\ conf.restricted \in BOOLEAN
    BY ConstantsAssumption, Zenon
<1>2. t.timeouts \in Nat /\ t.egress \in Egress
    BY DEF Target
<1> DEFINE x == IF t.egress = "proxied" THEN conf.proxy ELSE None
           v == IF t.egress = "proxied" /\ conf.proxy = "url" THEN "url" ELSE None
           r == ~conf.restricted
<1>3. x \in ProxyUrl /\ v \in {"url", None} /\ r \in BOOLEAN
    BY <1>1, Zenon DEF ProxyUrl
<1>4. Fingerprint(t) = [timeouts |-> t.timeouts, egress |-> t.egress, proxy |-> x, redirects |-> r]
    BY Zenon DEF Fingerprint
<1>5. \A c \in BuildClient(t, r) :
        \/ c = [timeouts |-> t.timeouts, redirects |-> r, via |-> v]
        \/ c = [timeouts |-> None, redirects |-> r, via |-> None]
    BY Zenon DEF BuildClient
<1> HIDE DEF x, v, r
<1>6. /\ Fingerprint(t).redirects = r
      /\ \A c \in Client : [client |-> c, fp |-> Fingerprint(t)] \in Cached
    BY <1>2, <1>3, <1>4 DEF Cached
<1>7. /\ [timeouts |-> t.timeouts, redirects |-> r, via |-> v] \in Client
      /\ [timeouts |-> None, redirects |-> r, via |-> None] \in Client
    BY <1>2, <1>3 DEF Client
<1>8. BuildClient(t, r) \subseteq Client
    BY <1>5, <1>7, Zenon
<1> QED
    BY <1>6, <1>8, Zenon DEF r

(* Cached or new, the client is one that could have been built for the     *)
(* target, and it is cached under the target's fingerprint.                *)
LEMMA ClientIsTargets ==
    ASSUME TypeOK, ClientInv, NEW t \in Target, NEW entry \in GetOrBuild(pool, t)
    PROVE  /\ entry \in Cached /\ entry.fp = Fingerprint(t) /\ entry.client \in Client
           /\ entry.client \in BuildClient(t, ~conf.restricted)
<1>1. conf \in Config /\ pool \in Cached \cup {None}
    BY Zenon DEF TypeOK
<1>2. CASE pool # None /\ pool.fp = Fingerprint(t)
    <2>1. entry = pool
        BY <1>2, Zenon DEF GetOrBuild
    <2>2. PICK u \in Target : pool.fp = Fingerprint(u) /\ pool.client \in BuildClient(u, ~conf.restricted)
        BY <1>2, Zenon DEF ClientInv
    <2>3. pool.client \in BuildClient(t, ~conf.restricted)
        BY <1>2, <2>2, FingerprintDecides
    <2> QED
        BY <1>1, <1>2, <2>1, <2>3, BuiltType, Zenon
<1>3. CASE ~(pool # None /\ pool.fp = Fingerprint(t))
    <2>1. Fingerprint(t).redirects = ~conf.restricted
        BY <1>1, BuiltType, Zenon
    <2>2. PICK c \in BuildClient(t, ~conf.restricted) : entry = [client |-> c, fp |-> Fingerprint(t)]
        BY <1>3, <2>1, Zenon DEF GetOrBuild
    <2>3. c \in Client /\ entry \in Cached
        BY <1>1, <2>2, BuiltType, Zenon
    <2>4. entry.client = c /\ entry.fp = Fingerprint(t)
        BY <2>2
    <2> QED
        BY <2>2, <2>3, <2>4, Zenon
<1> QED
    BY <1>2, <1>3, Zenon

(* The codex rewrite says whether it changed the body. *)
LEMMA FixupType ==
    ASSUME NEW b \in Body
    PROVE  /\ Fixup(b).body \in [responses : BOOLEAN, size : Nat,
                                 wrong : (SUBSET Field) \cup {None}]
           /\ Fixup(b).fixup \in BOOLEAN /\ (Fixup(b).fixup <=> Fixup(b).body # b)
<1> DEFINE BodyType == [responses : BOOLEAN, size : Nat, wrong : (SUBSET Field) \cup {None}]
           c == IF b.wrong = None THEN b ELSE [b EXCEPT !.wrong = {}]
           f == b.wrong # None /\ b.wrong # {}
<1>1. b \in BodyType
    BY ConstantsAssumption, Zenon
<1>2. Fixup(b).body = c /\ Fixup(b).fixup = f /\ f \in BOOLEAN
    BY Zenon DEF Fixup
<1>3. CASE b.wrong = None
    BY <1>1, <1>2, <1>3, Zenon
<1>4. CASE b.wrong = {} /\ b.wrong # None
    <2>1. [b EXCEPT !.wrong = {}] = b
        BY <1>1, <1>4
    <2> QED
        BY <1>1, <1>2, <1>4, <2>1, Zenon
<1>5. CASE b.wrong # {} /\ b.wrong # None
    <2>1. [b EXCEPT !.wrong = {}] \in BodyType /\ [b EXCEPT !.wrong = {}].wrong = {}
        BY <1>1
    <2> QED
        BY <1>2, <1>5, <2>1, Zenon
<1> QED
    BY <1>3, <1>4, <1>5, Zenon


(* One response, as Receive treats it. *)
ReceiveOf(r) ==
    /\ resp' = r
    /\ \/ /\ ~r.typed
          /\ Record(<<Plain("response_content_type_disallowed")>>, "failed")
          /\ UNCHANGED stream
       \/ /\ r.typed /\ conf.redact
          /\ Goto("buffer")
          /\ UNCHANGED <<rows, reply, stream>>
       \/ /\ r.typed /\ ~conf.redact
          /\ Record(<<Detailed("proxy_request", r.status)>>, "served")
          /\ stream' = [left |-> r.size, seen |-> 0, marker |-> "none"]

(* What leaves: the credential put in, the target's client and a body that *)
(* differs from the agent's exactly when the flag says so.                 *)
LEMMA BuildEffect ==
    ASSUME TypeOK, ClientInv, target \in Target, req.body \in Body, ~TooLarge, Build
    PROVE  /\ pool' \in Cached /\ pool'.fp = Fingerprint(target)
           /\ pool'.client \in BuildClient(target, ~conf.restricted)
           /\ sent' \in Sent /\ sent'.cred = Injected /\ sent'.client = pool'.client
           /\ sent'.fixup <=> sent'.body # req.body
           /\ pc' = "send" /\ UNCHANGED <<rows, reply>>
<1> DEFINE BodyType == [responses : BOOLEAN, size : Nat, wrong : (SUBSET Field) \cup {None}]
           b == IF ForCodex THEN Fixup(req.body).body ELSE req.body
           f == ForCodex /\ Fixup(req.body).fixup
           c == pool'.client
           s == [cred |-> Injected, client |-> c, body |-> b, fixup |-> f]
<1>1. /\ sent' = s /\ pool' \in GetOrBuild(pool, target) /\ pc' = "send"
      /\ UNCHANGED <<rows, reply>>
    BY Zenon DEF Build, Goto
<1>2. target.value \in {"override", "token", None}
    BY DEF Target
<1>3. Injected \in Secret \cup {"override", "token", None}
    BY <1>2, Zenon DEF Injected, TypeOK
<1>4. b \in BodyType
    BY FixupType, ConstantsAssumption, Zenon
<1>5. f \in BOOLEAN
    BY Zenon
<1>6. f <=> b # req.body
    BY FixupType, Zenon
<1>9. /\ pool' \in Cached /\ pool'.fp = Fingerprint(target) /\ c \in Client
      /\ c \in BuildClient(target, ~conf.restricted)
    BY <1>1, ClientIsTargets, Zenon
<1> HIDE DEF b, f, c
<1>7. s \in Sent /\ s.cred = Injected /\ s.client = c /\ s.body = b /\ s.fixup = f
    BY <1>3, <1>4, <1>5, <1>9 DEF Sent
<1>8. s.fixup <=> s.body # req.body
    BY <1>5, <1>6, <1>7
<1> QED
    BY <1>1, <1>7, <1>8, <1>9, Zenon DEF c

----------------------------------------------------------------------------
(* Types. *)

Labels == {"idle", "lookup", "foreign", "override", "oauth", "check", "body", "build",
           "send", "buffer", "record", "stream", "done"}
Replies == {None, "refused", "rejected", "foreign", "failed", "served", "cut"}

(* The parts of TypeOK that a step of the request can disturb. *)
LEMMA RestTyped ==
    ASSUME TypeOK, UNCHANGED shared, pool' \in Cached \cup {None},
           pc' \in Labels, req' \in Request \cup {None}, target' \in Target \cup {None},
           sent' \in Sent \cup {None}, resp' \in Response \cup {None},
           rows' \in Seq(Row), trail' \in Seq(Row), task' \in Seq(Row),
           stream' \in Stream \cup {None}, reply' \in Replies,
           whole' \in BOOLEAN, lost' \in BOOLEAN, faults' \in 0..MaxFault
    PROVE  TypeOK'
BY Zenon DEF TypeOK, Labels, Replies, shared

Types ==
    /\ pool \in Cached \cup {None}
    /\ pc \in Labels /\ req \in Request \cup {None} /\ target \in Target \cup {None}
    /\ sent \in Sent \cup {None} /\ resp \in Response \cup {None}
    /\ rows \in Seq(Row) /\ trail \in Seq(Row) /\ task \in Seq(Row)
    /\ stream \in Stream \cup {None} /\ reply \in Replies
    /\ whole \in BOOLEAN /\ lost \in BOOLEAN /\ faults \in 0..MaxFault

LEMMA HasTypes == TypeOK => Types
BY Zenon DEF TypeOK, Types, Labels, Replies

LEMMA FaultType ==
    ASSUME TypeOK, faults < MaxFault, faults' = faults + 1
    PROVE  faults' \in 0..MaxFault
BY ConstantsAssumption DEF TypeOK

LEMMA RecordType ==
    ASSUME NEW row \in Row, NEW answer \in Replies, Record(<<row>>, answer)
    PROVE  /\ pc' = "record" /\ pc' \in Labels /\ rows' \in Seq(Row) /\ reply' \in Replies
           /\ rows' = <<row>> /\ reply' = answer
BY OneRow, Zenon DEF Record, Labels

LEMMA BeginRequest == ASSUME Begin PROVE req' \in Request
<1>1. PICK named \in BOOLEAN : req' = [named |-> named, body |-> None]
    BY Zenon DEF Begin
<1> QED
    BY <1>1 DEF Request

LEMMA ReadBodyEffect ==
    ASSUME ReadBody, req \in Request
    PROVE  req' \in Request /\ req'.body \in Body
<1>1. PICK b \in Body : req' = [req EXCEPT !.body = b]
    BY Zenon DEF ReadBody
<1> QED
    BY <1>1 DEF Request

LEMMA OpeningTyped ==
    ASSUME TypeOK, PhaseInv, CredInv,
           Begin \/ RejectHandle \/ Lookup \/ Foreign \/ ApplyOverride \/ OverrideFails
    PROVE  TypeOK'
<1>1. Types
    BY HasTypes, Zenon
<1> USE DEF Types
<1>2. ASSUME Begin PROVE TypeOK'
    <2>1. pc' \in Labels /\ rows' \in Seq(Row) /\ reply' \in Replies /\ req' \in Request
        <3>1. Plain("authz_denied") \in Row
            BY PlainRow, Zenon DEF Event
        <3>2. pc' \in Labels /\ rows' \in Seq(Row) /\ reply' \in Replies
            BY <1>1, <1>2, <3>1, RecordType, Zenon DEF Begin, Goto, Labels, Replies
        <3> QED
            BY <1>2, <3>2, BeginRequest, Zenon
    <2> QED
        BY <1>1, <1>2, <2>1, RestTyped, Zenon DEF Begin
<1>3. ASSUME RejectHandle PROVE TypeOK'
    BY <1>1, <1>3, RestTyped, Zenon DEF RejectHandle, Goto, Labels, Replies
<1>4. ASSUME Lookup PROVE TypeOK'
    <2>1. pc' \in Labels /\ rows' \in Seq(Row) /\ reply' \in Replies
        <3>1. Plain("authz_denied") \in Row /\ Plain("tool_not_found") \in Row
            BY PlainRow, Zenon DEF Event
        <3> QED
            BY <1>1, <1>4, <3>1, RecordType, Zenon DEF Lookup, Goto, Labels, Replies
    <2>2. target' \in Target \cup {None}
        BY <1>4, ResolveType, Zenon DEF Lookup
    <2> QED
        BY <1>1, <1>4, <2>1, <2>2, RestTyped, Zenon DEF Lookup
<1>5. ASSUME Foreign PROVE TypeOK'
    <2>1. pc' \in Labels /\ rows' \in Seq(Row) /\ reply' \in Replies
        <3>1. Plain("tool_not_found") \in Row
            BY PlainRow, Zenon DEF Event
        <3> QED
            BY <1>1, <1>5, <3>1, RecordType, Zenon DEF Foreign, Goto, Labels, Replies
    <2> QED
        BY <1>1, <1>5, <2>1, RestTyped, Zenon DEF Foreign
<1>6. ASSUME ApplyOverride PROVE TypeOK'
    <2>1. pc' \in Labels
        BY <1>6, Zenon DEF ApplyOverride, Goto, Labels
    <2>2. target \in Target /\ target.value = None
        BY <1>6, Zenon DEF ApplyOverride, PhaseInv, CredInv
    <2>3. target' \in Target
        BY <1>6, <2>2, OverriddenType, Zenon DEF ApplyOverride, TypeOK
    <2> QED
        BY <1>1, <1>6, <2>1, <2>3, RestTyped, Zenon DEF ApplyOverride
<1>7. ASSUME OverrideFails PROVE TypeOK'
    <2>1. pc' \in Labels /\ faults' \in 0..MaxFault
        BY <1>7, FaultType, Zenon DEF OverrideFails, Goto, Labels
    <2> QED
        BY <1>1, <1>7, <2>1, RestTyped, Zenon DEF OverrideFails
<1> QED
    BY <1>2, <1>3, <1>4, <1>5, <1>6, <1>7, Zenon

LEMMA SendingTyped ==
    ASSUME TypeOK, PhaseInv, CredInv, ClientInv,
           ResolveOauth \/ Check \/ ReadBody \/ Build \/ SendFails \/ Receive \/ Buffer
    PROVE  TypeOK'
<1>1. Types
    BY HasTypes, Zenon
<1> USE DEF Types
<1>2. ASSUME ResolveOauth PROVE TypeOK'
    <2>1. pc' \in Labels /\ rows' \in Seq(Row) /\ reply' \in Replies
        <3>1. Plain("oauth_unavailable") \in Row
            BY PlainRow, Zenon DEF Event
        <3> QED
            BY <1>1, <1>2, <3>1, RecordType, Zenon DEF ResolveOauth, Goto, Labels, Replies
    <2>2. target' \in Target
        <3>1. target \in Target
            BY <1>2, Zenon DEF ResolveOauth, PhaseInv
        <3>2. [target EXCEPT !.value = "token"] \in Target
            BY <3>1 DEF Target
        <3> QED
            BY <1>2, <3>1, <3>2, Zenon DEF ResolveOauth
    <2> QED
        BY <1>1, <1>2, <2>1, <2>2, RestTyped, Zenon DEF ResolveOauth
<1>3. ASSUME Check PROVE TypeOK'
    <2>1. Detailed("credential_unavailable", None) \in Row
        BY <1>3, DetailedRow, Zenon DEF Check, PhaseInv, Event
    <2>2. pc' \in Labels /\ rows' \in Seq(Row) /\ reply' \in Replies
        BY <1>1, <1>3, <2>1, RecordType, Zenon DEF Check, Goto, Labels, Replies
    <2> QED
        BY <1>1, <1>3, <2>2, RestTyped, Zenon DEF Check
<1>4. ASSUME ReadBody PROVE TypeOK'
    <2>1. Plain("request_body_read_error") \in Row
        BY PlainRow, Zenon DEF Event
    <2>2. pc' \in Labels /\ rows' \in Seq(Row) /\ reply' \in Replies
        BY <1>1, <1>4, <2>1, RecordType, Zenon DEF ReadBody, Goto, Labels, Replies
    <2>3. req' \in Request
        BY <1>4, ReadBodyEffect, Zenon DEF ReadBody, PhaseInv
    <2> QED
        BY <1>1, <1>4, <2>2, <2>3, RestTyped, Zenon DEF ReadBody
<1>5. ASSUME Build PROVE TypeOK'
    <2>1. Plain("codex_body_too_large") \in Row
        BY PlainRow, Zenon DEF Event
    <2>2. pc' \in Labels /\ rows' \in Seq(Row) /\ reply' \in Replies
        BY <1>1, <1>5, <2>1, RecordType, Zenon DEF Build, Goto, Labels, Replies
    <2>3. pool' \in Cached \cup {None} /\ sent' \in Sent \cup {None}
        <3>1. target \in Target /\ req.body \in Body
            BY <1>5, Zenon DEF Build, PhaseInv
        <3>2. CASE TooLarge
            BY <1>1, <1>5, <3>2, Zenon DEF Build
        <3>3. CASE ~TooLarge
            BY <1>5, <3>1, <3>3, BuildEffect, Zenon
        <3> QED
            BY <3>2, <3>3, Zenon
    <2> QED
        BY <1>1, <1>5, <2>2, <2>3, RestTyped, Zenon DEF Build
<1>6. ASSUME SendFails PROVE TypeOK'
    <2>1. \A event \in {"timeout", "upstream_error"} : Detailed(event, None) \in Row
        BY <1>6, DetailedRow, Zenon DEF SendFails, PhaseInv, Event
    <2>2. pc' \in Labels /\ rows' \in Seq(Row) /\ reply' \in Replies
        BY <1>1, <1>6, <2>1, RecordType, Zenon DEF SendFails, Replies
    <2> QED
        BY <1>1, <1>6, <2>2, RestTyped, Zenon DEF SendFails
<1>7. ASSUME Receive PROVE TypeOK'
    <2>1. PICK r \in Response : ReceiveOf(r)
        BY <1>7, Zenon DEF Receive, ReceiveOf
    <2>2. r.status \in {"2xx", "5xx", None} /\ r.size \in Nat
        BY ConstantsAssumption
    <2>3. Detailed("proxy_request", r.status) \in Row
          /\ Plain("response_content_type_disallowed") \in Row
        <3>1. target \in Target
            BY <1>7, Zenon DEF Receive, PhaseInv
        <3>2. "proxy_request" \in Event /\ "response_content_type_disallowed" \in Event
            BY Zenon DEF Event
        <3>3. Detailed("proxy_request", r.status) \in Row
            BY <2>2, <3>1, <3>2, DetailedRow
        <3> QED
            BY <3>2, <3>3, PlainRow, Zenon
    <2>4. pc' \in Labels /\ rows' \in Seq(Row) /\ reply' \in Replies
        BY <1>1, <2>1, <2>3, RecordType, Zenon DEF ReceiveOf, Goto, Labels, Replies
    <2>5. [left |-> r.size, seen |-> 0, marker |-> "none"] \in Stream
        BY <2>2 DEF Stream, Marker
    <2>6. stream' \in Stream \cup {None} /\ resp' \in Response \cup {None}
        BY <1>1, <2>1, <2>5, Zenon DEF ReceiveOf
    <2> QED
        BY <1>1, <1>7, <2>4, <2>6, RestTyped, Zenon DEF Receive
<1>8. ASSUME Buffer PROVE TypeOK'
    <2>1. target \in Target /\ resp \in Response
        BY <1>8, Zenon DEF Buffer, PhaseInv
    <2>2. resp.status \in {"2xx", "5xx", None}
        BY <2>1, ConstantsAssumption
    <2>3. /\ Detailed("proxy_request", resp.status) \in Row
          /\ Plain("upstream_body_read_error") \in Row /\ Plain("response_size_exceeded") \in Row
        <3>1. /\ "proxy_request" \in Event /\ "upstream_body_read_error" \in Event
              /\ "response_size_exceeded" \in Event
            BY Zenon DEF Event
        <3>2. Detailed("proxy_request", resp.status) \in Row
            BY <2>1, <2>2, <3>1, DetailedRow
        <3> QED
            BY <3>1, <3>2, PlainRow, Zenon
    <2>4. Redactions \o <<Detailed("proxy_request", resp.status)>> \in Seq(Row)
        BY <2>1, <2>3, RedactedRows, Zenon
    <2>5. pc' \in Labels /\ rows' \in Seq(Row) /\ reply' \in Replies
        BY <1>8, <2>3, <2>4, OneRow, Zenon DEF Buffer, Record, Labels, Replies
    <2> QED
        BY <1>1, <1>8, <2>5, RestTyped, Zenon DEF Buffer
<1> QED
    BY <1>2, <1>3, <1>4, <1>5, <1>6, <1>7, <1>8, Zenon


(* One chunk, as PollChunk treats it. *)
Exceeds(n) == conf.cap # None /\ stream.seen + n > conf.cap
Cut == [Plain("response_size_exceeded") EXCEPT !.status = resp.status]
ChunkOf(n) ==
    /\ n <= stream.left
    /\ stream' = [left |-> stream.left - n,
                  seen |-> IF Exceeds(n) THEN conf.cap ELSE stream.seen + n,
                  marker |-> IF Exceeds(n) THEN "pending" ELSE "none"]
    /\ task' = IF Exceeds(n) THEN Append(task, Cut) ELSE task

LEMMA CutRow ==
    ASSUME resp \in Response
    PROVE  Cut \in Row /\ IsCut(Cut)
<1>1. resp.status \in {"2xx", "5xx"}
    BY ConstantsAssumption
<1>2. Plain("response_size_exceeded") \in Row
      /\ Plain("response_size_exceeded").event = "response_size_exceeded"
    BY PlainRow, Zenon DEF Event
<1> QED
    BY <1>1, <1>2 DEF Cut, IsCut, Row

LEMMA ChunkEffect ==
    ASSUME conf \in Config, stream \in Stream, NEW n \in 1..MaxChunk, ChunkOf(n)
    PROVE  /\ stream' \in Stream
           /\ ~Exceeds(n) => /\ stream'.marker = "none"
                             /\ stream'.seen + stream'.left = stream.seen + stream.left
                             /\ conf.cap # None => stream'.seen <= conf.cap
           /\ Exceeds(n) => /\ stream'.marker = "pending" /\ stream'.seen = conf.cap
                            /\ stream.seen + stream.left > conf.cap
<1>1. conf.cap \in Nat \cup {None} /\ MaxChunk \in Nat
    BY ConstantsAssumption, Zenon
<1>2. stream.left \in Nat /\ stream.seen \in Nat
    BY DEF Stream
<1>3. CASE Exceeds(n)
    <2>1. stream' = [left |-> stream.left - n, seen |-> conf.cap, marker |-> "pending"]
        BY <1>3, Zenon DEF ChunkOf
    <2>2. conf.cap \in Nat /\ stream.seen + n > conf.cap /\ n <= stream.left
        BY <1>1, <1>3, Zenon DEF Exceeds, ChunkOf
    <2>3. stream.left - n \in Nat /\ stream.seen + stream.left > conf.cap
        BY <1>1, <1>2, <2>2
    <2>4. stream' \in Stream /\ stream'.seen = conf.cap /\ stream'.marker = "pending"
        BY <2>1, <2>2, <2>3 DEF Stream, Marker
    <2> QED
        BY <1>3, <2>3, <2>4, Zenon
<1>4. CASE ~Exceeds(n)
    <2>1. stream' = [left |-> stream.left - n, seen |-> stream.seen + n, marker |-> "none"]
        BY <1>4, Zenon DEF ChunkOf
    <2>2. n <= stream.left
        BY Zenon DEF ChunkOf
    <2>3. stream.left - n \in Nat /\ stream.seen + n \in Nat
        BY <1>1, <1>2, <2>2
    <2>4. /\ stream' \in Stream /\ stream'.seen = stream.seen + n
          /\ stream'.left = stream.left - n /\ stream'.marker = "none"
        BY <2>1, <2>3 DEF Stream, Marker
    <2>5. stream'.seen + stream'.left = stream.seen + stream.left
        BY <1>1, <1>2, <2>4
    <2>6. conf.cap # None => stream'.seen <= conf.cap
        BY <1>1, <1>2, <1>4, <2>4 DEF Exceeds
    <2> QED
        BY <1>4, <2>4, <2>5, <2>6, Zenon
<1> QED
    BY <1>3, <1>4, Zenon

LEMMA EmptyRows == <<>> \in Seq(Row)
OBVIOUS

LEMMA NoFault == 0 \in 0..MaxFault
BY ConstantsAssumption


LEMMA RecordingTyped ==
    ASSUME TypeOK, PhaseInv, StreamInv,
           \/ RowWritten \/ RowLost \/ PollChunk \/ PollMarker \/ PollEnd \/ PollError
           \/ TaskRecord \/ Cancel \/ Finish
    PROVE  TypeOK'
<1>1. Types
    BY HasTypes, Zenon
<1> USE DEF Types
<1>2. ASSUME NEW written \in BOOLEAN, WriteRow(written)
      PROVE  rows' \in Seq(Row) /\ trail' \in Seq(Row) /\ pc' \in Labels
    <2>1. rows # <<>>
        BY <1>2, Zenon DEF WriteRow, PhaseInv
    <2>2. Head(rows) \in Row /\ Tail(rows) \in Seq(Row)
        BY <1>1, <2>1, HeadTail, Zenon
    <2>3. Append(trail, Head(rows)) \in Seq(Row)
        BY <1>1, <2>2, AppendRow, Zenon
    <2> QED
        BY <1>1, <1>2, <2>2, <2>3, Zenon DEF WriteRow, Labels
<1>3. ASSUME RowWritten PROVE TypeOK'
    <2>1. WriteRow(TRUE)
        BY <1>3, Zenon DEF RowWritten
    <2>2. rows' \in Seq(Row) /\ trail' \in Seq(Row) /\ pc' \in Labels
        BY <1>2, <2>1
    <2> QED
        BY <1>1, <1>3, <2>2, RestTyped, Zenon DEF RowWritten, WriteRow
<1>4. ASSUME RowLost PROVE TypeOK'
    <2>1. WriteRow(FALSE) /\ whole' = FALSE
        BY <1>4, Zenon DEF RowLost
    <2>2. rows' \in Seq(Row) /\ trail' \in Seq(Row) /\ pc' \in Labels
        BY <1>2, <2>1
    <2>3. faults' \in 0..MaxFault /\ whole' \in BOOLEAN
        BY <1>4, <2>1, FaultType, Zenon DEF RowLost
    <2> QED
        BY <1>1, <2>1, <2>2, <2>3, RestTyped, Zenon DEF WriteRow
<1>5. ASSUME PollChunk PROVE TypeOK'
    <2>1. PICK n \in 1..MaxChunk : ChunkOf(n)
        BY <1>5, Zenon DEF PollChunk, ChunkOf, Exceeds, Cut
    <2>2. stream \in Stream /\ resp \in Response
        BY <1>1, <1>5, Zenon DEF PollChunk, PhaseInv, StreamInv
    <2>3. stream' \in Stream
        BY <2>1, <2>2, ChunkEffect, Zenon DEF TypeOK
    <2>4. task' \in Seq(Row)
        BY <1>1, <2>1, <2>2, CutRow, AppendRow, Zenon DEF ChunkOf
    <2> QED
        BY <1>1, <1>5, <2>3, <2>4, RestTyped, Zenon DEF PollChunk
<1>6. ASSUME PollMarker PROVE TypeOK'
    <2>1. stream \in Stream
        BY <1>1, <1>6, Zenon DEF PollMarker, PhaseInv
    <2>2. [stream EXCEPT !.marker = "sent"] \in Stream
        BY <2>1 DEF Stream, Marker
    <2> QED
        BY <1>1, <1>6, <2>2, RestTyped, Zenon DEF PollMarker
<1>7. ASSUME PollEnd \/ PollError PROVE TypeOK'
    <2>1. pc' \in Labels /\ reply' \in Replies
        BY <1>1, <1>7, Zenon DEF PollEnd, PollError, Goto, Labels, Replies
    <2> QED
        BY <1>1, <1>7, <2>1, RestTyped, Zenon DEF PollEnd, PollError
<1>8. ASSUME TaskRecord PROVE TypeOK'
    <2>1. Head(task) \in Row /\ Tail(task) \in Seq(Row)
        BY <1>1, <1>8, HeadTail, Zenon DEF TaskRecord
    <2>2. Append(trail, Head(task)) \in Seq(Row)
        BY <1>1, <2>1, AppendRow, Zenon
    <2> QED
        BY <1>1, <1>8, <2>1, <2>2, RestTyped, Zenon DEF TaskRecord
<1>9. ASSUME Cancel PROVE TypeOK'
    <2>1. /\ pc' \in Labels /\ rows' \in Seq(Row) /\ whole' \in BOOLEAN
          /\ faults' \in 0..MaxFault
        BY <1>9, FaultType, EmptyRows, Zenon DEF Cancel, Goto, Labels
    <2> QED
        BY <1>1, <1>9, <2>1, RestTyped, Zenon DEF Cancel
<1>10. ASSUME Finish PROVE TypeOK'
    <2>1. /\ pc' \in Labels /\ reply' \in Replies /\ whole' \in BOOLEAN
          /\ lost' \in BOOLEAN /\ faults' \in 0..MaxFault /\ trail' \in Seq(Row)
        BY <1>10, NoFault, EmptyRows, Zenon DEF Finish, Goto, Labels, Replies
    <2> QED
        BY <1>1, <1>10, <2>1, RestTyped, Zenon DEF Finish
<1> QED
    BY <1>3, <1>4, <1>5, <1>6, <1>7, <1>8, <1>9, <1>10, Zenon

Refreshing(p) == RefreshLoad(p) \/ RefreshStore(p) \/ RefreshCatalog(p)
Operators == (\E p \in Refresher : Refreshing(p)) \/ SetOverride \/ UnsetOverride

(* The operators' steps leave the request alone. *)
LEMMA OperatorsEffect ==
    ASSUME Operators
    PROVE  /\ UNCHANGED <<conf, pool, pc, req, target, sent, resp, rows, trail, task, stream,
                          reply, whole, faults>>
           /\ Early
BY Zenon DEF Operators, Refreshing, RefreshLoad, RefreshStore, RefreshCatalog, SetOverride,
    UnsetOverride

(* Between the check and the request's way out a secret that is there      *)
(* stays there, unless an older copy is stored over it.                    *)
LEMMA SecretStays ==
    ASSUME Operators, pc \in {"body", "build"}
    PROVE  (lost => lost') /\ (creds # None => creds' # None \/ lost')
<1>1. ASSUME UNCHANGED <<creds, lost>>
      PROVE  (lost => lost') /\ (creds # None => creds' # None \/ lost')
    BY <1>1
<1>2. ASSUME \/ SetOverride \/ UnsetOverride
             \/ \E p \in Refresher : RefreshLoad(p) \/ RefreshCatalog(p)
      PROVE  UNCHANGED <<creds, lost>>
    BY <1>2, Zenon DEF SetOverride, UnsetOverride, RefreshLoad, RefreshCatalog
<1>3. ASSUME NEW p \in Refresher, RefreshStore(p)
      PROVE  (lost => lost') /\ (creds # None => creds' # None \/ lost')
    <2>1. /\ creds' = Merged(refresh[p].snap, refresh[p].entry)
          /\ lost' = (lost \/ (/\ pc \in {"body", "build"} /\ creds # None /\ creds' = None
                               /\ refresh[p].snap = None))
        BY <1>3, Zenon DEF RefreshStore
    <2>2. creds' = None => refresh[p].snap = None
        BY <2>1, Zenon DEF Merged
    <2> QED
        BY <2>1, <2>2, Zenon
<1> QED
    BY <1>1, <1>2, <1>3, Zenon DEF Operators, Refreshing

LEMMA SecretType == ASSUME NEW e \in Entry \cup {None} PROVE SecretOf(e) \in Secret \cup {None}
BY Zenon DEF SecretOf, Secret

LEMMA RefreshType ==
    ASSUME NEW stage \in {"store", "catalog"}, NEW e \in Entry \cup {None},
           NEW snap \in Secret \cup {None}
    PROVE  [stage |-> stage, entry |-> e, snap |-> snap] \in Refresh
BY DEF Refresh

LEMMA RefreshingTyped ==
    ASSUME TypeOK, NEW p \in Refresher, Refreshing(p)
    PROVE  /\ reg' \in Entry \cup {None} /\ refresh' \in [Refresher -> Refresh \cup {None}]
           /\ creds' \in Secret \cup {None} /\ ovr' \in Override \cup {None}
           /\ lost' \in BOOLEAN
<1> DEFINE R == Refresh \cup {None}
<1>1. /\ reg \in Entry \cup {None} /\ refresh \in [Refresher -> R]
      /\ creds \in Secret \cup {None} /\ ovr \in Override \cup {None} /\ lost \in BOOLEAN
    BY Zenon DEF TypeOK
<1>2. \A r \in R : [refresh EXCEPT ![p] = r] \in [Refresher -> R]
    BY <1>1, Zenon
<1>3. None \in R /\ None \in Secret \cup {None}
    BY Zenon
<1>4. CASE RefreshLoad(p)
    <2>1. PICK e \in Entry \cup {None} :
            \/ refresh' = [refresh EXCEPT ![p] = [stage |-> "store", entry |-> e, snap |-> creds]]
            \/ refresh' = [refresh EXCEPT ![p] = [stage |-> "catalog", entry |-> e, snap |-> None]]
        BY <1>4, Zenon DEF RefreshLoad
    <2>2. /\ [stage |-> "store", entry |-> e, snap |-> creds] \in R
          /\ [stage |-> "catalog", entry |-> e, snap |-> None] \in R
        BY <1>1, <1>3, RefreshType, Zenon
    <2>3. refresh' \in [Refresher -> R]
        BY <1>2, <2>1, <2>2, Zenon
    <2> QED
        BY <1>1, <1>4, <2>3, Zenon DEF RefreshLoad
<1>5. CASE RefreshStore(p)
    <2> DEFINE r == refresh[p]
    <2>1. r \in Refresh
        BY <1>1, <1>5, Zenon DEF RefreshStore
    <2>2. r.entry \in Entry \cup {None} /\ r.snap \in Secret \cup {None}
        BY <2>1 DEF Refresh
    <2>3. Merged(r.snap, r.entry) \in Secret \cup {None}
        BY <2>2, SecretType, Zenon DEF Merged
    <2> HIDE DEF r
    <2>4. [r EXCEPT !.stage = "catalog", !.snap = None] \in R
        BY <1>3, <2>1 DEF Refresh
    <2>5. refresh' = [refresh EXCEPT ![p] = [r EXCEPT !.stage = "catalog", !.snap = None]]
        BY <1>5, Zenon DEF RefreshStore, r
    <2>6. refresh' \in [Refresher -> R]
        BY <1>2, <2>4, <2>5, Zenon
    <2>7. lost' \in BOOLEAN
        BY <1>5, Zenon DEF RefreshStore
    <2> QED
        BY <1>1, <1>5, <2>3, <2>6, <2>7, Zenon DEF RefreshStore, r
<1>6. CASE RefreshCatalog(p)
    <2>1. refresh[p] \in Refresh
        BY <1>1, <1>6, Zenon DEF RefreshCatalog
    <2>2. refresh[p].entry \in Entry \cup {None}
        BY <2>1 DEF Refresh
    <2>3. refresh' \in [Refresher -> R]
        BY <1>2, <1>3, <1>6, Zenon DEF RefreshCatalog
    <2> QED
        BY <1>1, <1>6, <2>2, <2>3, Zenon DEF RefreshCatalog
<1> QED
    BY <1>4, <1>5, <1>6, Zenon DEF Refreshing

LEMMA OperatorsTyped ==
    ASSUME TypeOK, Operators
    PROVE  TypeOK'
<1>1. UNCHANGED <<conf, pool, pc, req, target, sent, resp, rows, trail, task, stream,
                  reply, whole, faults>>
    BY OperatorsEffect, Zenon
<1>2. /\ reg' \in Entry \cup {None} /\ refresh' \in [Refresher -> Refresh \cup {None}]
      /\ creds' \in Secret \cup {None} /\ ovr' \in Override \cup {None}
      /\ lost' \in BOOLEAN
    <2>1. CASE SetOverride \/ UnsetOverride
        BY <2>1, Zenon DEF SetOverride, UnsetOverride, TypeOK
    <2> QED
        BY <2>1, RefreshingTyped, Zenon DEF Operators
<1>3. Types' /\ conf' \in Config
    <2>1. Types /\ conf \in Config
        BY HasTypes, Zenon DEF TypeOK
    <2> QED
        BY <1>1, <1>2, <2>1, Zenon DEF Types
<1> QED
    BY <1>2, <1>3, Zenon DEF TypeOK, Types, Labels, Replies

----------------------------------------------------------------------------
(* The steps of the request before it is answered. *)

LEMMA NoRowBefore == ASSUME NEW row \in Row PROVE ~ \E i \in 1..(Len(<<row>>) - 1) : TRUE
BY OneRow

LEMMA NoRow == ~ \E i \in 1..Len(<<>>) : TRUE
OBVIOUS

(* The handler goes on. *)
LEMMA Moved ==
    ASSUME PhaseInv, pc \in Opening, pc' \in Opening \ {"idle"}, req' \in Request,
           pc' \notin {"lookup", "foreign"} => target' \in Target,
           pc' = "build" => req'.body \in Body,
           UNCHANGED <<sent, rows, trail, task, stream, reply, whole>>
    PROVE  PhaseInv' /\ AuditInv' /\ StreamInv'
<1>1. /\ trail' = <<>> /\ stream' = None /\ reply' = None /\ whole' /\ task' = <<>>
      /\ rows' = <<>> /\ sent' = None
    BY Zenon DEF PhaseInv, Opening
<1>2. PhaseInv'
    BY <1>1, Zenon DEF PhaseInv, Opening
<1>3. AuditInv' /\ StreamInv'
    BY <1>1, Zenon DEF AuditInv, StreamInv, Opening
<1> QED
    BY <1>2, <1>3, Zenon

(* It answers, and says so in one row. *)
LEMMA Answered ==
    ASSUME PhaseInv, NEW row \in Row, pc \notin {"record", "stream", "done"},
           rows' = <<row>>, pc' = "record", Good(row)', reply' \notin {"foreign", "rejected"},
           req' \in Request, UNCHANGED <<trail, task, stream, whole>>
    PROVE  PhaseInv' /\ AuditInv' /\ StreamInv'
<1>1. trail' = <<>> /\ stream' = None /\ whole' /\ task' = <<>> /\ rows' # <<>>
    BY OneRow, Zenon DEF PhaseInv
<1>2. PhaseInv'
    BY <1>1, Zenon DEF PhaseInv, Opening
<1>3. StreamInv'
    BY <1>1, Zenon DEF StreamInv
<1>4. rows'[Len(rows')] = row
    BY OneRow, Zenon
<1>5. AuditInv'
    BY <1>1, <1>4, NoRowBefore, NoRow, Zenon DEF AuditInv
<1> QED
    BY <1>2, <1>3, <1>5, Zenon

(* A refusal: the upstream was not contacted. *)
LEMMA Refused ==
    ASSUME PhaseInv, NEW row \in Row, pc \in Opening, row.event \in Outcome \ Contacted,
           Record(<<row>>, "refused"), req' \in Request,
           UNCHANGED <<sent, trail, task, stream, whole>>
    PROVE  PhaseInv' /\ CredInv' /\ AuditInv' /\ StreamInv'
<1>1. sent' = None /\ pc' = "record" /\ rows' = <<row>> /\ reply' = "refused"
    BY Zenon DEF PhaseInv, Record, Opening
<1>2. Good(row)'
    BY <1>1, Zenon DEF Good, Contacted
<1>3. CredInv'
    BY <1>1, Zenon DEF CredInv, ForceReplaceIsHonoured, CredentialIsAttributed
<1>4. PhaseInv' /\ AuditInv' /\ StreamInv'
    BY <1>1, <1>2, Answered, Zenon DEF Opening
<1> QED
    BY <1>3, <1>4, Zenon

(* What was sent stays as it was. *)
LEMMA CredKept ==
    ASSUME CredInv, UNCHANGED <<sent, target, req, lost>>,
           pc' \in {"send", "buffer", "record", "stream", "done"}
    PROVE  CredInv'
BY Zenon DEF CredInv, ForceReplaceIsHonoured, CredentialIsAttributed

LEMMA Refusals ==
    /\ \A event \in {"authz_denied", "tool_not_found", "oauth_unavailable",
                     "request_body_read_error", "codex_body_too_large"} :
            Plain(event) \in Row /\ Plain(event).event \in Outcome \ Contacted
    /\ "credential_unavailable" \in Outcome \ Contacted
<1> DEFINE E == {"authz_denied", "tool_not_found", "oauth_unavailable",
                 "request_body_read_error", "codex_body_too_large"}
<1>1. E \subseteq Event /\ E \subseteq Outcome \ Contacted
    BY Zenon DEF Event, Outcome, Contacted
<1>2. "credential_unavailable" \in Outcome \ Contacted
    BY Zenon DEF Event, Outcome, Contacted
<1> QED
    BY <1>1, <1>2, PlainRow, Zenon


(* Which client, credential and body the request leaves with is settled in *)
(* Build; until then nothing has left.                                     *)
LEMMA OpeningStep ==
    ASSUME TypeOK, PhaseInv, CredInv,
           Begin \/ RejectHandle \/ Lookup \/ Foreign \/ ApplyOverride \/ OverrideFails
    PROVE  PhaseInv' /\ CredInv' /\ AuditInv' /\ StreamInv'
<1>1. pc \in {"idle", "lookup", "foreign", "override"}
    BY Zenon DEF Begin, RejectHandle, Lookup, Foreign, ApplyOverride, OverrideFails
<1>2. sent' = None /\ pc \in Opening /\ (pc # "idle" => req \in Request)
    BY <1>1, Zenon DEF PhaseInv, Opening, Begin, RejectHandle, Lookup, Foreign,
        ApplyOverride, OverrideFails
<1>3. ASSUME pc' \in {"lookup", "foreign", "done"} PROVE CredInv'
    BY <1>2, <1>3, Zenon DEF CredInv, ForceReplaceIsHonoured, CredentialIsAttributed
<1>4. ASSUME Begin PROVE PhaseInv' /\ CredInv' /\ AuditInv' /\ StreamInv'
    <2>1. req' \in Request /\ UNCHANGED <<sent, trail, task, stream, whole>>
        BY <1>4, BeginRequest, Zenon DEF Begin
    <2>2. CASE pc' = "lookup" /\ UNCHANGED <<rows, reply>>
        BY <1>2, <1>3, <2>1, <2>2, Moved, Zenon DEF Opening
    <2>3. CASE Record(<<Plain("authz_denied")>>, "refused")
        BY <1>2, <2>1, <2>3, Refused, Refusals, Zenon
    <2> QED
        BY <1>4, <2>2, <2>3, Zenon DEF Begin, Goto
<1>5. ASSUME RejectHandle PROVE PhaseInv' /\ CredInv' /\ AuditInv' /\ StreamInv'
    <2>1. /\ pc' = "done" /\ reply' = "rejected" /\ trail' = <<>> /\ stream' = None
          /\ task' = <<>> /\ rows' = <<>>
        BY <1>5, Zenon DEF RejectHandle, Goto, PhaseInv
    <2> QED
        BY <1>3, <2>1, Zenon DEF PhaseInv, AuditInv, StreamInv, Opening
<1>6. ASSUME Lookup PROVE PhaseInv' /\ CredInv' /\ AuditInv' /\ StreamInv'
    <2>1. req' \in Request /\ UNCHANGED <<sent, trail, task, stream, whole>>
        BY <1>2, <1>6, Zenon DEF Lookup
    <2>2. CASE pc' = "foreign" /\ UNCHANGED <<rows, reply>>
        BY <1>2, <1>3, <2>1, <2>2, Moved, Zenon DEF Opening
    <2>3. CASE Record(<<Plain("authz_denied")>>, "refused")
               \/ Record(<<Plain("tool_not_found")>>, "refused")
        BY <1>2, <2>1, <2>3, Refused, Refusals, Zenon
    <2>4. CASE target' # None /\ pc' = "override" /\ UNCHANGED <<rows, reply>>
        <3>1. target' \in Target /\ target'.value = None
            BY <1>6, <2>4, ResolveType, Zenon DEF Lookup
        <3>2. CredInv'
            BY <1>2, <2>4, <3>1, Zenon DEF CredInv, ForceReplaceIsHonoured,
                CredentialIsAttributed
        <3> QED
            BY <1>2, <2>1, <2>4, <3>1, <3>2, Moved, Zenon DEF Opening
    <2> QED
        BY <1>6, <2>2, <2>3, <2>4, Zenon DEF Lookup, Goto
<1>7. ASSUME Foreign PROVE PhaseInv' /\ CredInv' /\ AuditInv' /\ StreamInv'
    <2>1. req' \in Request /\ UNCHANGED <<sent, trail, task, stream, whole>>
        BY <1>2, <1>7, Zenon DEF Foreign
    <2>2. CASE pc' = "done" /\ reply' = "foreign" /\ UNCHANGED rows
        <3>1. trail' = <<>> /\ stream' = None /\ task' = <<>> /\ rows' = <<>>
            BY <1>7, <2>1, <2>2, Zenon DEF Foreign, PhaseInv
        <3> QED
            BY <1>3, <2>2, <3>1, Zenon DEF PhaseInv, AuditInv, StreamInv, Opening
    <2>3. CASE Record(<<Plain("tool_not_found")>>, "refused")
        BY <1>2, <2>1, <2>3, Refused, Refusals, Zenon
    <2> QED
        BY <1>7, <2>2, <2>3, Zenon DEF Foreign, Goto
<1>8. ASSUME ApplyOverride \/ OverrideFails
      PROVE  PhaseInv' /\ CredInv' /\ AuditInv' /\ StreamInv'
    <2>1. /\ req' \in Request /\ target \in Target /\ target.value = None
          /\ UNCHANGED <<sent, rows, trail, task, stream, reply, whole>>
        BY <1>2, <1>8, Zenon DEF ApplyOverride, OverrideFails, PhaseInv, CredInv
    <2>2. target' = target \/ (ovr \in Override /\ target' = Overridden(target, ovr))
        BY <1>8, Zenon DEF ApplyOverride, OverrideFails, TypeOK
    <2>3. /\ target' \in Target /\ target'.value \in {None, "override"}
          /\ target'.value = "override" =>
                target'.auth \in Static /\ target'.source = "agent_override"
        <3>1. CASE target' = target
            <4>1. None # "override"
                BY ConstantsAssumption, Zenon
            <4> QED
                BY <2>1, <3>1, <4>1, Zenon
        <3>2. CASE ovr \in Override /\ target' = Overridden(target, ovr)
            BY <2>1, <3>2, OverriddenType, Zenon
        <3> QED
            BY <2>2, <3>1, <3>2, Zenon
    <2>4. pc' = IF target'.auth = "oauth" THEN "oauth" ELSE "check"
        BY <1>8, Zenon DEF ApplyOverride, OverrideFails, Goto
    <2>5. CredInv'
        <3>1. target'.auth = "oauth" => target'.value = None
            BY <2>3, Zenon DEF Static
        <3>2. target'.auth # "oauth" => Fitting'
            BY <2>3, ConstantsAssumption, Zenon DEF Fitting
        <3> QED
            BY <1>2, <2>4, <3>1, <3>2, Zenon DEF CredInv, ForceReplaceIsHonoured,
                CredentialIsAttributed
    <2> QED
        BY <1>2, <2>1, <2>3, <2>4, <2>5, Moved, Zenon DEF Opening
<1> QED
    BY <1>4, <1>5, <1>6, <1>7, <1>8, Zenon


(* The credential put in is there when it has to be, and of its kind. *)
LEMMA InjectedFits ==
    ASSUME TypeOK, target \in Target, Fitting
    PROVE  /\ target.auth \in Static /\ target.force /\ ~Missing => Injected # None
           /\ target.source = "registration_default" => Injected # "override"
           /\ target.value # None => Injected = target.value
           /\ target.auth = "oauth" <=> Injected = "token"
           /\ target.auth = "none" => Injected = None
<1>1. target.value \in {"override", "token", None} /\ target.auth \in Shape
    BY DEF Target
<1>2. creds \notin {"override", "token"} /\ None \notin {"override", "token"}
    <2>1. \A e \in Entry : e.ver \notin {"override", "token"}
        BY ConstantsAssumption, Zenon
    <2>2. Secret \cap {"override", "token"} = {}
        BY <2>1, Zenon DEF Secret
    <2>3. None \notin {"override", "token"}
        BY ConstantsAssumption, Zenon
    <2> QED
        BY <2>2, <2>3, Zenon DEF TypeOK
<1>3. CASE target.value = "override"
    <2>1. target.auth \in Static /\ target.source = "agent_override" /\ Injected = "override"
        BY <1>2, <1>3, Zenon DEF Fitting, Injected, Static
    <2> QED
        BY <1>2, <1>3, <2>1, Zenon DEF Static
<1>4. CASE target.value = "token"
    <2>1. target.auth = "oauth" /\ Injected = "token"
        BY <1>2, <1>4, Zenon DEF Fitting, Injected
    <2> QED
        BY <1>2, <1>4, <2>1, Zenon DEF Static
<1>5. CASE target.value = None
    <2>1. target.auth # "oauth" /\ Injected \in {None, creds}
        BY <1>2, <1>5, Zenon DEF Fitting, Injected
    <2>2. target.auth \in Static /\ target.force /\ ~Missing => Injected # None
        BY <1>5, Zenon DEF Missing, Injected, Static
    <2>3. target.auth = "none" => Injected = None
        BY Zenon DEF Injected
    <2> QED
        BY <1>2, <1>5, <2>1, <2>2, <2>3, Zenon
<1> QED
    BY <1>1, <1>3, <1>4, <1>5, Zenon

LEMMA BuildStep ==
    ASSUME TypeOK, PhaseInv, CredInv, ClientInv, Build
    PROVE  PhaseInv' /\ CredInv' /\ AuditInv' /\ StreamInv'
<1>1. /\ pc = "build" /\ target \in Target /\ req' = req /\ req \in Request
      /\ req.body \in Body /\ UNCHANGED <<target, trail, task, stream, whole, lost>>
    BY Zenon DEF Build, PhaseInv
<1>2. CASE TooLarge
    <2>1. Record(<<Plain("codex_body_too_large")>>, "refused") /\ UNCHANGED sent
        BY <1>2, Zenon DEF Build
    <2> QED
        BY <1>1, <2>1, Refused, Refusals, Zenon DEF Opening
<1>3. CASE ~TooLarge
    <2>1. /\ sent' \in Sent /\ sent'.cred = Injected
          /\ sent'.fixup <=> sent'.body # req.body
          /\ pc' = "send" /\ UNCHANGED <<rows, reply>>
        BY <1>1, <1>3, BuildEffect, Zenon
    <2>2. Fitting /\ (~Missing \/ lost)
        BY <1>1, Zenon DEF CredInv
    <2>3. CredInv'
        <3>1. ForceReplaceIsHonoured' /\ CredentialIsAttributed'
            BY <1>1, <2>1, <2>2, InjectedFits, Zenon DEF ForceReplaceIsHonoured,
                CredentialIsAttributed
        <3>2. sent'.fixup <=> sent'.body # req'.body
            BY <1>1, <2>1, Zenon
        <3> QED
            BY <2>1, <3>1, <3>2, Zenon DEF CredInv
    <2>4. sent' # None
        BY <2>1, ConstantsAssumption, Zenon
    <2>5. PhaseInv' /\ AuditInv' /\ StreamInv'
        <3>1. /\ trail' = <<>> /\ stream' = None /\ reply' = None /\ whole' /\ task' = <<>>
              /\ rows' = <<>>
            BY <1>1, <2>1, Zenon DEF PhaseInv
        <3>2. PhaseInv'
            BY <1>1, <2>1, <2>4, <3>1, Zenon DEF PhaseInv, Opening
        <3> QED
            BY <2>1, <3>1, <3>2, Zenon DEF AuditInv, StreamInv
    <2> QED
        BY <2>3, <2>5, Zenon
<1> QED
    BY <1>2, <1>3, Zenon

LEMMA PreparingStep ==
    ASSUME TypeOK, PhaseInv, CredInv, ResolveOauth \/ Check \/ ReadBody
    PROVE  PhaseInv' /\ CredInv' /\ AuditInv' /\ StreamInv'
<1>0. /\ pc \in {"oauth", "check", "body"} /\ pc \in Opening /\ target \in Target
      /\ req \in Request /\ sent = None
      /\ UNCHANGED <<sent, trail, task, stream, whole, lost>>
    BY Zenon DEF ResolveOauth, Check, ReadBody, PhaseInv, Opening
<1>1. /\ pc \in {"oauth", "check", "body"} /\ pc \in Opening /\ target \in Target
      /\ req' \in Request /\ sent = None
      /\ UNCHANGED <<sent, trail, task, stream, whole, lost>>
    <2>1. req' \in Request
        BY <1>0, ReadBodyEffect, Zenon DEF ResolveOauth, Check
    <2> QED
        BY <1>0, <2>1, Zenon
<1>2. ASSUME ResolveOauth PROVE PhaseInv' /\ CredInv' /\ AuditInv' /\ StreamInv'
    <2>1. CASE Record(<<Plain("oauth_unavailable")>>, "refused")
        BY <1>1, <2>1, Refused, Refusals, Zenon
    <2>2. CASE /\ target' = [target EXCEPT !.value = "token"] /\ pc' = "check"
               /\ UNCHANGED <<rows, reply>>
        <3>1. target.auth = "oauth"
            BY <1>2, Zenon DEF ResolveOauth, CredInv
        <3>2. target' \in Target /\ target'.value = "token" /\ target'.auth = "oauth"
            BY <1>1, <2>2, <3>1 DEF Target
        <3>3. CredInv'
            BY <1>1, <2>2, <3>2, Zenon DEF CredInv, Fitting, ForceReplaceIsHonoured,
                CredentialIsAttributed
        <3> QED
            BY <1>1, <2>2, <3>2, <3>3, Moved, Zenon DEF Opening
    <2> QED
        BY <1>2, <2>1, <2>2, Zenon DEF ResolveOauth, Goto
<1>3. ASSUME Check PROVE PhaseInv' /\ CredInv' /\ AuditInv' /\ StreamInv'
    <2>1. CASE Record(<<Detailed("credential_unavailable", None)>>, "refused")
        <3> DEFINE row == Detailed("credential_unavailable", None)
        <3>1. row \in Row /\ row.event = "credential_unavailable"
            BY <1>1, DetailedRow, Zenon DEF Event
        <3> HIDE DEF row
        <3>2. row.event \in Outcome \ Contacted
            BY <3>1, Refusals, Zenon
        <3>3. Record(<<row>>, "refused")
            BY <2>1, Zenon DEF row
        <3> QED
            BY <1>1, <3>1, <3>2, <3>3, Refused, Zenon
    <2>2. CASE ~Missing /\ pc' = "body" /\ UNCHANGED <<rows, reply>>
        <3>1. UNCHANGED <<creds, target>> /\ Fitting
            BY <1>3, Zenon DEF Check, CredInv, shared
        <3>2. CredInv'
            BY <1>1, <2>2, <3>1, Zenon DEF CredInv, Fitting, Missing, ForceReplaceIsHonoured,
                CredentialIsAttributed
        <3> QED
            BY <1>1, <2>2, <3>1, <3>2, Moved, Zenon DEF Opening
    <2> QED
        BY <1>3, <2>1, <2>2, Zenon DEF Check, Goto
<1>4. ASSUME ReadBody PROVE PhaseInv' /\ CredInv' /\ AuditInv' /\ StreamInv'
    <2>1. CASE Record(<<Plain("request_body_read_error")>>, "refused")
        BY <1>1, <2>1, Refused, Refusals, Zenon
    <2>2. CASE pc' = "build" /\ UNCHANGED <<rows, reply>>
        <3>1. UNCHANGED <<creds, target>> /\ Fitting /\ (~Missing \/ lost)
            BY <1>4, Zenon DEF ReadBody, CredInv, shared
        <3>2. CredInv'
            BY <1>1, <2>2, <3>1, Zenon DEF CredInv, Fitting, Missing, ForceReplaceIsHonoured,
                CredentialIsAttributed
        <3>3. req'.body \in Body
            BY <1>0, <1>4, ReadBodyEffect, Zenon
        <3> QED
            BY <1>1, <2>2, <3>1, <3>2, <3>3, Moved, Zenon DEF Opening
    <2> QED
        BY <1>4, <2>1, <2>2, Zenon DEF ReadBody, Goto
<1> QED
    BY <1>2, <1>3, <1>4, Zenon


(* The upstream failed: it was contacted. *)
LEMMA Failed ==
    ASSUME PhaseInv, CredInv, NEW row \in Row, pc \in {"send", "buffer"},
           row.event \in Contacted \ {"proxy_request"}, Record(<<row>>, "failed"),
           UNCHANGED <<req, target, sent, trail, task, stream, whole, lost>>
    PROVE  PhaseInv' /\ CredInv' /\ AuditInv' /\ StreamInv'
<1>1. /\ sent' # None /\ pc' = "record" /\ rows' = <<row>> /\ reply' = "failed"
      /\ req' \in Request
    BY Zenon DEF PhaseInv, Record
<1>2. Good(row)'
    <2>1. row.event \in Outcome
        BY Zenon DEF Outcome, Event, Contacted
    <2> QED
        BY <1>1, <2>1, Zenon DEF Good
<1>3. CredInv'
    BY <1>1, CredKept, Zenon
<1>4. PhaseInv' /\ AuditInv' /\ StreamInv'
    BY <1>1, <1>2, Answered, Zenon
<1> QED
    BY <1>3, <1>4, Zenon

(* The row of a success. *)
LEMMA SuccessRow ==
    ASSUME PhaseInv, CredInv, target \in Target, sent # None, NEW r \in Response,
           UNCHANGED <<req, sent>>, resp' = r, reply' = "served"
    PROVE  \E row \in Row :
            /\ row = Detailed("proxy_request", r.status)
            /\ Good(row)' /\ row.event = "proxy_request"
<1>1. r.status \in {"2xx", "5xx", None}
    BY ConstantsAssumption
<1>2. "proxy_request" \in Event /\ "proxy_request" \in Outcome /\ "proxy_request" \in Contacted
    BY Zenon DEF Event, Outcome, Contacted
<1>3. PICK row \in Row :
        /\ row = Detailed("proxy_request", r.status)
        /\ row.event = "proxy_request" /\ row.status = r.status
        /\ row.fixup <=> sent # None /\ sent.fixup
    BY <1>1, <1>2, DetailedRow
<1>4. sent.fixup <=> sent.body # req.body
    BY Zenon DEF CredInv
<1>5. row.fixup <=> sent'.body # req'.body
    BY <1>3, <1>4
<1>6. Good(row)'
    BY <1>2, <1>3, <1>5, Zenon DEF Good
<1> QED
    BY <1>3, <1>6, Zenon

LEMMA ReceivingStep ==
    ASSUME TypeOK, PhaseInv, CredInv, SendFails \/ Receive \/ Buffer
    PROVE  PhaseInv' /\ CredInv' /\ AuditInv' /\ StreamInv'
<1>1. /\ pc \in {"send", "buffer"} /\ target \in Target /\ req \in Request /\ sent # None
      /\ UNCHANGED <<conf, req, target, sent, trail, task, whole, lost>>
      /\ trail = <<>> /\ task = <<>> /\ stream = None /\ rows = <<>> /\ whole
      /\ reply = None
    BY Zenon DEF SendFails, Receive, Buffer, PhaseInv, shared
<1>2. \A event \in Contacted \ {"proxy_request"} : event \in Event
    BY Zenon DEF Contacted, Event
<1>3. \A event \in Contacted \ {"proxy_request"} :
        Plain(event) \in Row /\ Plain(event).event = event
    BY <1>2, PlainRow, Zenon
<1>4. ASSUME SendFails PROVE PhaseInv' /\ CredInv' /\ AuditInv' /\ StreamInv'
    <2>1. PICK event \in {"timeout", "upstream_error"} : Record(<<Detailed(event, None)>>, "failed")
        BY <1>4, Zenon DEF SendFails
    <2>2. event \in Contacted \ {"proxy_request"}
        BY <2>1, Zenon DEF Contacted
    <2>3. Detailed(event, None) \in Row /\ Detailed(event, None).event = event
        BY <1>1, <1>2, <2>2, DetailedRow, Zenon
    <2>4. UNCHANGED stream
        BY <1>4, Zenon DEF SendFails
    <2> QED
        BY <1>1, <2>1, <2>2, <2>3, <2>4, Failed, Zenon
<1>5. ASSUME Receive PROVE PhaseInv' /\ CredInv' /\ AuditInv' /\ StreamInv'
    <2>1. PICK r \in Response : ReceiveOf(r)
        BY <1>5, Zenon DEF Receive, ReceiveOf
    <2>2. CASE Record(<<Plain("response_content_type_disallowed")>>, "failed")
               /\ UNCHANGED stream
        <3>1. "response_content_type_disallowed" \in Contacted \ {"proxy_request"}
            BY Zenon DEF Contacted
        <3> QED
            BY <1>1, <1>3, <2>2, <3>1, Failed, Zenon
    <2>3. CASE pc' = "buffer" /\ UNCHANGED <<rows, reply, stream>>
        <3>1. CredInv'
            BY <1>1, <2>3, CredKept, Zenon
        <3>2. PhaseInv'
            BY <1>1, <2>1, <2>3, Zenon DEF ReceiveOf, PhaseInv, Opening
        <3> QED
            BY <1>1, <2>3, <3>1, <3>2, Zenon DEF AuditInv, StreamInv
    <2>4. CASE /\ Record(<<Detailed("proxy_request", r.status)>>, "served")
               /\ stream' = [left |-> r.size, seen |-> 0, marker |-> "none"]
        <3>1. pc' = "record" /\ reply' = "served" /\ resp' = r
            BY <2>1, <2>4, Zenon DEF Record, ReceiveOf
        <3>2. PICK row \in Row : /\ row = Detailed("proxy_request", r.status)
                                /\ Good(row)' /\ row.event = "proxy_request"
            BY <1>1, <3>1, SuccessRow, Zenon
        <3>3. rows' = <<row>> /\ rows' # <<>> /\ rows'[Len(rows')] = row
            BY <2>4, <3>2, OneRow, Zenon DEF Record
        <3>4. PhaseInv'
            BY <1>1, <3>1, <3>3, Zenon DEF PhaseInv, Opening
        <3>5. CredInv'
            BY <1>1, <3>1, CredKept, Zenon
        <3>6. AuditInv'
            BY <1>1, <3>1, <3>2, <3>3, NoRowBefore, NoRow, Zenon DEF AuditInv
        <3>7. StreamInv'
            <4>1. r.size \in Nat /\ conf \in Config /\ conf.cap \in Nat \cup {None}
                BY ConstantsAssumption DEF TypeOK
            <4>2. /\ stream'.seen + stream'.left = r.size /\ stream'.marker = "none"
                  /\ conf.cap # None => stream'.seen <= conf.cap
                BY <2>4, <4>1
            <4>3. stream' \in Stream
                BY <2>4, <4>1 DEF Stream, Marker
            <4>4. stream' # None
                BY <4>3, ConstantsAssumption, Zenon
            <4> QED
                BY <1>1, <3>1, <4>2, <4>4, Zenon DEF StreamInv
        <3> QED
            BY <3>4, <3>5, <3>6, <3>7, Zenon
    <2> QED
        BY <2>1, <2>2, <2>3, <2>4, Zenon DEF ReceiveOf, Goto
<1>6. ASSUME Buffer PROVE PhaseInv' /\ CredInv' /\ AuditInv' /\ StreamInv'
    <2>1. resp \in Response /\ UNCHANGED <<resp, stream>>
        BY <1>6, Zenon DEF Buffer, PhaseInv
    <2>2. CASE Record(<<Plain("upstream_body_read_error")>>, "failed")
               \/ Record(<<Plain("response_size_exceeded")>>, "failed")
        <3>1. {"upstream_body_read_error", "response_size_exceeded"}
                \subseteq Contacted \ {"proxy_request"}
            BY Zenon DEF Contacted
        <3> QED
            BY <1>1, <1>3, <2>1, <2>2, <3>1, Failed, Zenon
    <2>3. CASE Record(Redactions \o <<Detailed("proxy_request", resp.status)>>, "served")
        <3>1. pc' = "record" /\ reply' = "served"
            BY <2>3, Zenon DEF Record
        <3>2. PICK row \in Row : row = Detailed("proxy_request", resp.status) /\ Good(row)'
            BY <1>1, <2>1, <3>1, SuccessRow, Zenon
        <3>3. /\ rows' # <<>> /\ rows'[Len(rows')] = row
              /\ \A i \in 1..(Len(rows') - 1) : IsRedaction(rows'[i])
            BY <2>1, <2>3, <3>2, RedactedRows, Zenon DEF Record
        <3>4. PhaseInv'
            BY <1>1, <3>1, <3>3, Zenon DEF PhaseInv, Opening
        <3>5. CredInv'
            BY <1>1, <3>1, CredKept, Zenon
        <3>6. AuditInv'
            <4>1. \A i \in 1..(Len(rows') - 1) : IsRedaction(rows[i])'
                BY <3>3, Zenon DEF IsRedaction
            <4> QED
                BY <1>1, <2>1, <3>1, <3>2, <3>3, <4>1, NoRow, Zenon DEF AuditInv
        <3>7. StreamInv'
            BY <1>1, <2>1, Zenon DEF StreamInv
        <3> QED
            BY <3>4, <3>5, <3>6, <3>7, Zenon
    <2> QED
        BY <1>6, <2>2, <2>3, Zenon DEF Buffer
<1> QED
    BY <1>4, <1>5, <1>6, Zenon

----------------------------------------------------------------------------
(* The audit rows and the stream. *)

LEMMA GoodKept ==
    ASSUME UNCHANGED <<sent, resp, req>>, reply' = reply \/ reply' = "cut"
    PROVE  \A row : Good(row) => Good(row)'
BY Zenon DEF Good

LEMMA WriteStep ==
    ASSUME TypeOK, PhaseInv, CredInv, AuditInv, StreamInv, RowWritten \/ RowLost
    PROVE  PhaseInv' /\ CredInv' /\ AuditInv' /\ StreamInv'
<1>1. /\ pc = "record" /\ rows # <<>> /\ rows \in Seq(Row) /\ trail \in Seq(Row)
      /\ task = <<>> /\ req \in Request
      /\ UNCHANGED <<conf, req, target, sent, resp, task, stream, reply, lost>>
    BY Zenon DEF RowWritten, RowLost, WriteRow, PhaseInv, TypeOK, shared
<1>2. /\ Head(rows) = rows[1] /\ rows[1] \in Row /\ Len(rows) \in Nat \ {0}
      /\ rows' = Tail(rows) /\ Len(rows') = Len(rows) - 1
      /\ \A i \in 1..(Len(rows) - 1) : rows'[i] = rows[i + 1]
      /\ rows' = <<>> <=> Len(rows) = 1
    BY <1>1, HeadTail, Zenon DEF RowWritten, RowLost, WriteRow
<1>3. pc' = IF rows' # <<>> THEN "record" ELSE IF stream # None THEN "stream" ELSE "done"
    BY Zenon DEF RowWritten, RowLost, WriteRow
<1>4. PhaseInv'
    BY <1>1, <1>3, Zenon DEF PhaseInv, Opening
<1>5. CredInv'
    BY <1>1, <1>3, CredKept, Zenon
<1>6. StreamInv'
    <2>1. Over => Over'
        BY <1>1, Zenon DEF Over
    <2> QED
        BY <1>1, <1>3, <2>1, Zenon DEF StreamInv
<1>7. AuditInv'
    <2>1. SUFFICES ASSUME whole' PROVE AuditInv'
        BY Zenon DEF AuditInv
    <2>2. RowWritten /\ whole
        BY <2>1, Zenon DEF RowWritten, RowLost
    <2>3. trail' = Append(trail, rows[1])
        BY <1>2, <2>2, Zenon DEF RowWritten, WriteRow
    <2>4. /\ Len(trail) \in Nat /\ Len(trail') = Len(trail) + 1
          /\ \A i \in 1..Len(trail) : trail'[i] = trail[i]
          /\ trail'[Len(trail) + 1] = rows[1]
        BY <1>1, <1>2, <2>3, AppendRow, Zenon
    <2>5. /\ reply \notin {"foreign", "rejected"}
          /\ \A i \in 1..Len(trail) : IsRedaction(trail[i])
          /\ \A i \in 1..(Len(rows) - 1) : IsRedaction(rows[i])
          /\ Good(rows[Len(rows)])
          /\ stream # None => rows[Len(rows)].event = "proxy_request" /\ stream.marker = "none"
        BY <1>1, <2>2, Zenon DEF AuditInv, StreamInv
    <2>6. \A row : Good(row) => Good(row)'
        BY <1>1, GoodKept, Zenon
    <2>7. CASE Len(rows) # 1
        <3>1. pc' = "record"
            BY <1>2, <1>3, <2>7, Zenon
        <3>2. 1 \in 1..(Len(rows) - 1)
            BY <1>2, <2>7
        <3>3. \A i \in 1..Len(trail') : IsRedaction(trail'[i])
            <4>1. \A i \in 1..Len(trail') : i \in 1..Len(trail) \/ i = Len(trail) + 1
                BY <2>4
            <4> QED
                BY <2>4, <2>5, <3>2, <4>1, Zenon
        <3>4. \A i \in 1..(Len(rows') - 1) : IsRedaction(rows'[i])
            <4>1. \A i \in 1..(Len(rows') - 1) :
                    i \in 1..(Len(rows) - 1) /\ i + 1 \in 1..(Len(rows) - 1)
                BY <1>2
            <4> QED
                BY <1>2, <2>5, <4>1, Zenon
        <3>5. rows'[Len(rows')] = rows[Len(rows)]
            <4>1. Len(rows') \in 1..(Len(rows) - 1) /\ Len(rows') + 1 = Len(rows)
                BY <1>2, <2>7
            <4> QED
                BY <1>2, <4>1, Zenon
        <3>6. Good(rows[Len(rows)])'
            BY <2>5, <2>6, <3>5, Zenon
        <3> QED
            BY <1>1, <2>5, <3>1, <3>3, <3>4, <3>5, <3>6, Zenon DEF AuditInv, IsRedaction
    <2>8. CASE Len(rows) = 1
        <3>1. pc' \in {"stream", "done"}
            BY <1>2, <1>3, <2>8, Zenon
        <3>2. ~CutWritten' /\ Last' = Len(trail')
            BY <1>1, <2>5, Zenon DEF CutWritten, Last
        <3>3. trail'[Last'] = rows[Len(rows)] /\ Last' >= 1
            BY <2>4, <2>8, <3>2
        <3>4. \A i \in 1..(Last' - 1) : IsRedaction(trail'[i])
            <4>1. \A i \in 1..(Last' - 1) : i \in 1..Len(trail)
                BY <2>4, <3>2
            <4> QED
                BY <2>4, <2>5, <4>1, Zenon
        <3>5. Good(trail[Last])'
            BY <2>5, <2>6, <3>3, Zenon
        <3>6. Recorded'
            BY <1>1, <2>5, <3>2, <3>3, <3>4, <3>5, Zenon DEF Recorded, IsRedaction
        <3> QED
            BY <1>1, <2>5, <3>1, <3>6, Zenon DEF AuditInv
    <2> QED
        BY <2>7, <2>8, Zenon
<1> QED
    BY <1>4, <1>5, <1>6, <1>7, Zenon


(* Nothing that says what happened changes. *)
LEMMA RecordedKept ==
    ASSUME Recorded, UNCHANGED <<sent, resp, req, trail>>, reply' = reply \/ reply' = "cut",
           CutWritten' <=> CutWritten, stream # None
    PROVE  Recorded'
<1>1. Last' = Last
    BY Zenon DEF Last
<1>2. \A row : Good(row) => Good(row)'
    BY GoodKept, Zenon
<1>3. Good(trail[Last])'
    BY <1>1, <1>2, Zenon DEF Recorded
<1> QED
    BY <1>1, <1>3, Zenon DEF Recorded, IsRedaction, IsCut

(* A response that is streamed has its row. *)
LEMMA StreamRecorded ==
    ASSUME AuditInv, stream # None, pc \in {"stream", "done"}, whole
    PROVE  Recorded /\ reply \notin {"foreign", "rejected"}
BY Zenon DEF AuditInv

LEMMA PollChunkStep ==
    ASSUME TypeOK, PhaseInv, CredInv, AuditInv, StreamInv, PollChunk
    PROVE  PhaseInv' /\ CredInv' /\ AuditInv' /\ StreamInv'
<1>1. /\ pc = "stream" /\ pc' = "stream" /\ stream # None /\ stream.marker = "none"
      /\ UNCHANGED <<conf, req, target, sent, resp, rows, trail, reply, whole, lost>>
    BY Zenon DEF PollChunk, PhaseInv, shared
<1>2. PICK n \in 1..MaxChunk : ChunkOf(n)
    BY Zenon DEF PollChunk, ChunkOf, Exceeds, Cut
<1>3. /\ stream \in Stream /\ conf \in Config /\ resp \in Response /\ sent # None
      /\ task = <<>> /\ stream.seen + stream.left = resp.size
    BY <1>1, Zenon DEF TypeOK, StreamInv
<1>4. /\ stream' \in Stream
      /\ ~Exceeds(n) => /\ stream'.marker = "none"
                        /\ stream'.seen + stream'.left = stream.seen + stream.left
                        /\ conf.cap # None => stream'.seen <= conf.cap
      /\ Exceeds(n) => /\ stream'.marker = "pending" /\ stream'.seen = conf.cap
                       /\ stream.seen + stream.left > conf.cap
    BY <1>2, <1>3, ChunkEffect, Zenon
<1>5. stream' # None
    BY <1>4, ConstantsAssumption, Zenon
<1>6. PhaseInv'
    BY <1>1, <1>5, Zenon DEF PhaseInv, Opening
<1>7. CredInv'
    BY <1>1, CredKept, Zenon
<1>8. /\ ~Exceeds(n) => task' = <<>>
      /\ Exceeds(n) => Len(task') = 1 /\ IsCut(task'[1]) /\ task' # <<>>
    <2>1. Cut \in Row /\ IsCut(Cut)
        BY <1>3, CutRow, Zenon
    <2>2. Append(<<>>, Cut) = <<Cut>>
        BY <2>1
    <2> QED
        BY <1>2, <1>3, <2>1, <2>2, OneRow, Zenon DEF ChunkOf
<1>9. StreamInv'
    <2>1. CASE Exceeds(n)
        <3>1. Over'
            BY <1>1, <1>3, <1>4, <2>1, Zenon DEF Over, Exceeds
        <3>2. (task # <<>> => Len(task) = 1 /\ IsCut(task[1]))'
            BY <1>8, <2>1, Zenon DEF IsCut
        <3> QED
            BY <1>1, <1>3, <1>4, <1>5, <2>1, <3>1, <3>2, Zenon DEF StreamInv
    <2>2. CASE ~Exceeds(n)
        BY <1>1, <1>3, <1>4, <1>5, <1>8, <2>2, Zenon DEF StreamInv
    <2> QED
        BY <2>1, <2>2, Zenon
<1>10. AuditInv'
    <2>1. CutWritten' <=> CutWritten
        BY <1>1, <1>4, <1>8, Zenon DEF CutWritten
    <2> QED
        BY <1>1, <1>5, <2>1, StreamRecorded, RecordedKept, Zenon DEF AuditInv
<1> QED
    BY <1>6, <1>7, <1>9, <1>10, Zenon

LEMMA PollStep ==
    ASSUME TypeOK, PhaseInv, CredInv, AuditInv, StreamInv,
           PollMarker \/ PollEnd \/ PollError
    PROVE  PhaseInv' /\ CredInv' /\ AuditInv' /\ StreamInv'
<1>1. /\ pc = "stream" /\ pc' \in {"stream", "done"} /\ stream # None
      /\ UNCHANGED <<conf, req, target, sent, resp, rows, trail, task, whole, lost>>
      /\ reply' = reply \/ reply' = "cut"
    BY Zenon DEF PollMarker, PollEnd, PollError, Goto, PhaseInv, shared
<1>2. stream \in Stream /\ stream.marker \in Marker
    <2>1. stream \in Stream
        BY <1>1, Zenon DEF TypeOK
    <2> QED
        BY <2>1 DEF Stream
<1>3. CredInv'
    BY <1>1, CredKept, Zenon
<1>4. Over => Over'
    BY <1>1, Zenon DEF Over
<1>5. ASSUME stream' # None, CutWritten' <=> CutWritten PROVE PhaseInv' /\ AuditInv'
    <2>1. PhaseInv'
        BY <1>1, <1>5, Zenon DEF PhaseInv, Opening
    <2>2. AuditInv'
        BY <1>1, <1>5, StreamRecorded, RecordedKept, Zenon DEF AuditInv
    <2> QED
        BY <2>1, <2>2, Zenon
<1>6. CASE PollMarker
    <2>1. stream.marker = "pending" /\ stream' = [stream EXCEPT !.marker = "sent"]
          /\ pc' = "stream"
        BY <1>6, Zenon DEF PollMarker
    <2>2. /\ stream' \in Stream /\ stream'.marker = "sent" /\ stream'.seen = stream.seen
          /\ stream'.left = stream.left
        BY <1>2, <2>1 DEF Stream, Marker
    <2>3. stream' # None
        BY <2>2, ConstantsAssumption, Zenon
    <2>4. CutWritten' <=> CutWritten
        BY <1>1, <2>1, <2>2, <2>3, Zenon DEF CutWritten
    <2>5. StreamInv'
        BY <1>1, <1>4, <2>1, <2>2, <2>3, Zenon DEF StreamInv
    <2> QED
        BY <1>3, <1>5, <2>3, <2>4, <2>5, Zenon
<1>7. CASE PollEnd \/ PollError
    <2>1. UNCHANGED stream /\ pc' = "done"
        BY <1>7, Zenon DEF PollEnd, PollError, Goto
    <2>2. CutWritten' <=> CutWritten
        BY <1>1, <2>1, Zenon DEF CutWritten
    <2>3. reply' = "served" =>
            stream.marker = "sent" \/ (stream.marker = "none" /\ stream.left = 0)
        BY <1>2, <1>7, Zenon DEF PollEnd, PollError, Marker
    <2>4. StreamInv'
        BY <1>1, <1>4, <2>1, <2>3, Zenon DEF StreamInv
    <2> QED
        BY <1>1, <1>3, <1>5, <2>1, <2>2, <2>4, Zenon
<1> QED
    BY <1>6, <1>7, Zenon

LEMMA TaskRecordStep ==
    ASSUME TypeOK, PhaseInv, CredInv, AuditInv, StreamInv, TaskRecord
    PROVE  PhaseInv' /\ CredInv' /\ AuditInv' /\ StreamInv'
<1>1. /\ task # <<>> /\ pc \in {"stream", "done"} /\ stream # None /\ stream.marker # "none"
      /\ Len(task) = 1 /\ IsCut(task[1])
      /\ UNCHANGED <<conf, pc, req, target, sent, resp, rows, stream, reply, whole, lost>>
    BY Zenon DEF TaskRecord, PhaseInv, StreamInv, shared
<1>2. task \in Seq(Row) /\ trail \in Seq(Row)
    BY Zenon DEF TypeOK
<1>3. /\ task[1] \in Row /\ task' = <<>> /\ trail' = Append(trail, task[1])
    BY <1>1, <1>2, HeadTail, Zenon DEF TaskRecord
<1>4. /\ Len(trail) \in Nat /\ Len(trail') = Len(trail) + 1
      /\ \A i \in 1..Len(trail) : trail'[i] = trail[i]
      /\ trail'[Len(trail')] = task[1]
    <2>1. /\ Len(trail) \in Nat /\ Len(trail') = Len(trail) + 1
          /\ \A i \in 1..Len(trail) : trail'[i] = trail[i]
          /\ trail'[Len(trail) + 1] = task[1]
        BY <1>2, <1>3, AppendRow, Zenon
    <2> QED
        BY <2>1, Zenon
<1>5. PhaseInv'
    BY <1>1, <1>3, Zenon DEF PhaseInv, Opening
<1>6. CredInv'
    BY <1>1, CredKept, Zenon
<1>7. StreamInv'
    <2>1. Over => Over'
        BY <1>1, Zenon DEF Over
    <2> QED
        BY <1>1, <1>3, <2>1, Zenon DEF StreamInv
<1>8. AuditInv'
    <2>1. SUFFICES ASSUME whole PROVE Recorded' /\ reply \notin {"foreign", "rejected"}
        BY <1>1, Zenon DEF AuditInv
    <2>2. Recorded /\ reply \notin {"foreign", "rejected"}
        BY <1>1, <2>1, StreamRecorded, Zenon
    <2>3. ~CutWritten /\ CutWritten' /\ Last = Len(trail) /\ Last' = Len(trail') - 1
        BY <1>1, <1>3, Zenon DEF CutWritten, Last
    <2>4. Last' = Last /\ Last \in 1..Len(trail)
        BY <1>4, <2>2, <2>3 DEF Recorded
    <2>5. \A i \in 1..Last : trail'[i] = trail[i]
        BY <1>4, <2>3, Zenon
    <2>6. \A i \in 1..(Last' - 1) : IsRedaction(trail'[i])
        <3>1. \A i \in 1..(Last' - 1) : i \in 1..(Last - 1) /\ i \in 1..Last
            BY <1>4, <2>3, <2>4
        <3> QED
            BY <2>2, <2>5, <3>1, Zenon DEF Recorded
    <2>7. trail'[Last'] = trail[Last]
        BY <1>4, <2>3, <2>4, Zenon
    <2>8. Good(trail[Last])'
        BY <1>1, <2>2, <2>7, GoodKept, Zenon DEF Recorded
    <2> QED
        BY <1>1, <1>4, <2>2, <2>3, <2>4, <2>6, <2>7, <2>8, Zenon DEF Recorded, IsRedaction, IsCut
<1> QED
    BY <1>5, <1>6, <1>7, <1>8, Zenon


LEMMA EndStep ==
    ASSUME TypeOK, PhaseInv, CredInv, AuditInv, StreamInv, Cancel \/ Finish
    PROVE  PhaseInv' /\ CredInv' /\ AuditInv' /\ StreamInv'
<1>1. CASE Cancel
    <2>1. /\ pc' = "done" /\ rows' = <<>> /\ whole' = FALSE
          /\ UNCHANGED <<conf, req, target, sent, resp, trail, task, stream, reply, lost>>
        BY <1>1, Zenon DEF Cancel, Goto, shared
    <2>2. PhaseInv' /\ AuditInv'
        BY <2>1, Zenon DEF PhaseInv, AuditInv, Opening
    <2>3. CredInv'
        BY <2>1, CredKept, Zenon
    <2>4. StreamInv'
        <3>1. Over => Over'
            BY <2>1, Zenon DEF Over
        <3> QED
            BY <2>1, <3>1, Zenon DEF StreamInv
    <2> QED
        BY <2>2, <2>3, <2>4, Zenon
<1>2. CASE Finish
    <2>1. /\ pc' = "idle" /\ rows' = <<>> /\ whole' /\ trail' = <<>> /\ sent' = None
          /\ stream' = None /\ reply' = None /\ task' = <<>>
        BY <1>2, Zenon DEF Finish, Goto, PhaseInv
    <2>2. PhaseInv'
        BY <2>1, Zenon DEF PhaseInv, Opening
    <2>3. CredInv'
        BY <2>1, Zenon DEF CredInv, ForceReplaceIsHonoured, CredentialIsAttributed
    <2> QED
        BY <2>1, <2>2, <2>3, Zenon DEF AuditInv, StreamInv
<1> QED
    BY <1>1, <1>2, Zenon

LEMMA OperatorsStep ==
    ASSUME TypeOK, PhaseInv, CredInv, AuditInv, StreamInv, Operators
    PROVE  PhaseInv' /\ CredInv' /\ AuditInv' /\ StreamInv'
<1>1. /\ UNCHANGED <<conf, pool, pc, req, target, sent, resp, rows, trail, task, stream,
                     reply, whole, faults>>
      /\ Early
    BY OperatorsEffect, Zenon
<1>2. /\ trail = <<>> /\ stream = None /\ reply = None /\ whole /\ task = <<>>
      /\ rows = <<>> /\ sent = None
    BY <1>1, Zenon DEF Early, PhaseInv, Opening
<1>3. PhaseInv'
    BY <1>1, Zenon DEF PhaseInv
<1>4. AuditInv' /\ StreamInv'
    BY <1>1, <1>2, Zenon DEF AuditInv, StreamInv, Early
<1>5. CredInv'
    <2>1. pc \in {"body", "build"} /\ (~Missing \/ lost) => ~Missing' \/ lost'
        BY <1>1, SecretStays, Zenon DEF Missing
    <2>2. Fitting => Fitting'
        BY <1>1, Zenon DEF Fitting
    <2> QED
        BY <1>1, <1>2, <2>1, <2>2, Zenon DEF CredInv, ForceReplaceIsHonoured,
            CredentialIsAttributed
<1> QED
    BY <1>3, <1>4, <1>5, Zenon

(* Only Build touches the pool, and what left does not change. *)
LEMMA ClientKept ==
    ASSUME ClientInv, UNCHANGED <<conf, pool>>, sent' = None \/ UNCHANGED <<sent, target>>
    PROVE  ClientInv'
<1>1. /\ \A t : Fingerprint(t)' = Fingerprint(t)
      /\ \A t, follow : BuildClient(t, follow)' = BuildClient(t, follow)
    BY Zenon DEF Fingerprint, BuildClient
<1>2. (pool # None => \E t \in Target : /\ pool.fp = Fingerprint(t)
                                        /\ pool.client \in BuildClient(t, ~conf.restricted))'
    BY <1>1, Zenon DEF ClientInv
<1>3. (sent # None => sent.client \in BuildClient(target, ~conf.restricted))'
    BY <1>1, Zenon DEF ClientInv
<1> QED
    BY <1>2, <1>3, Zenon DEF ClientInv

LEMMA ClientStep ==
    ASSUME TypeOK, PhaseInv, ClientInv, [Next]_vars
    PROVE  ClientInv'
<1>1. CASE /\ UNCHANGED <<conf, pool>> /\ (sent' = None \/ UNCHANGED <<sent, target>>)
    BY <1>1, ClientKept, Zenon
<1>2. CASE Begin \/ RejectHandle \/ Lookup \/ Foreign \/ ApplyOverride \/ OverrideFails
           \/ ResolveOauth \/ Check \/ ReadBody
    <2>1. sent' = None /\ UNCHANGED <<conf, pool>>
        BY <1>2, Zenon DEF Begin, RejectHandle, Lookup, Foreign, ApplyOverride, OverrideFails,
            ResolveOauth, Check, ReadBody, PhaseInv, Opening, shared
    <2> QED
        BY <1>1, <2>1, Zenon
<1>3. CASE Build
    <2>1. target \in Target /\ req.body \in Body /\ UNCHANGED <<conf, target>>
        BY <1>3, Zenon DEF Build, PhaseInv, shared
    <2>2. CASE TooLarge
        BY <1>1, <1>3, <2>1, <2>2, Zenon DEF Build
    <2>3. CASE ~TooLarge
        <3>1. /\ pool'.fp = Fingerprint(target)
              /\ pool'.client \in BuildClient(target, ~conf.restricted)
              /\ sent'.client = pool'.client
            BY <1>3, <2>1, <2>3, BuildEffect, Zenon
        <3>2. /\ Fingerprint(target)' = Fingerprint(target)
              /\ BuildClient(target, ~conf.restricted)' = BuildClient(target, ~conf.restricted)
              /\ target' \in Target
            BY <2>1, Zenon DEF Fingerprint, BuildClient
        <3> QED
            BY <3>1, <3>2, Zenon DEF ClientInv
    <2> QED
        BY <2>2, <2>3, Zenon
<1>4. CASE SendFails \/ Receive \/ Buffer \/ RowWritten \/ RowLost \/ PollChunk
           \/ PollMarker \/ PollEnd \/ PollError \/ TaskRecord \/ Cancel \/ Finish
    BY <1>1, <1>4, Zenon DEF SendFails, Receive, Buffer, RowWritten, RowLost, WriteRow, PollChunk,
        PollMarker, PollEnd, PollError, TaskRecord, Cancel, Finish, shared
<1>5. CASE Operators
    BY <1>1, <1>5, OperatorsEffect, Zenon
<1>6. CASE UNCHANGED vars
    BY <1>1, <1>6, Zenon DEF vars, shared
<1> QED
    BY <1>2, <1>3, <1>4, <1>5, <1>6, Zenon
        DEF Next, Handle, Upstream, Agent, Operators, Refreshing

LEMMA StutterStep ==
    ASSUME RequestInv, UNCHANGED vars
    PROVE  TypeOK' /\ PhaseInv' /\ CredInv' /\ AuditInv' /\ StreamInv'
<1>1. UNCHANGED <<conf, reg, refresh, creds, ovr, pool, pc, req, target, sent, resp, rows,
                  trail, task, stream, reply, whole, lost, faults>>
    BY Zenon DEF vars, shared
<1>2. TypeOK'
    <2>1. Types'
        BY <1>1, HasTypes, Zenon DEF RequestInv, Types
    <2>2. /\ conf' \in Config /\ reg' \in Entry \cup {None} /\ ovr' \in Override \cup {None}
          /\ refresh' \in [Refresher -> Refresh \cup {None}]
          /\ creds' \in Secret \cup {None}
        BY <1>1, Zenon DEF RequestInv, TypeOK
    <2> QED
        BY <2>1, <2>2, Zenon DEF TypeOK, Types, Labels, Replies
<1>3. PhaseInv'
    BY <1>1, Zenon DEF RequestInv, PhaseInv
<1>4. CredInv'
    <2>1. ~Missing => ~Missing'
        BY <1>1, Zenon DEF Missing
    <2>2. Fitting => Fitting'
        BY <1>1, Zenon DEF Fitting
    <2> QED
        BY <1>1, <2>1, <2>2, Zenon DEF RequestInv, CredInv, ForceReplaceIsHonoured,
            CredentialIsAttributed
<1>5. StreamInv'
    <2>1. Over => Over'
        BY <1>1, Zenon DEF Over
    <2> QED
        BY <1>1, <2>1, Zenon DEF RequestInv, StreamInv, IsCut
<1>6. AuditInv'
    <2>1. CutWritten' <=> CutWritten
        BY <1>1, Zenon DEF CutWritten
    <2>2. Last' = Last
        BY <1>1, <2>1, Zenon DEF Last
    <2>3. \A row : Good(row) => Good(row)'
        BY <1>1, GoodKept, Zenon
    <2>4. Good(rows[Len(rows)]) => Good(rows[Len(rows)])'
        BY <1>1, <2>3, Zenon
    <2>5. Recorded => Recorded'
        <3>1. Good(trail[Last]) => Good(trail[Last])'
            BY <1>1, <2>2, <2>3, Zenon
        <3> QED
            BY <1>1, <2>1, <2>2, <3>1, Zenon DEF Recorded, IsRedaction, IsCut
    <2> QED
        BY <1>1, <2>4, <2>5, Zenon DEF RequestInv, AuditInv, IsRedaction
<1> QED
    BY <1>2, <1>3, <1>4, <1>5, <1>6, Zenon

LEMMA InitStep == Init => RequestInv
<1> SUFFICES ASSUME Init PROVE RequestInv
    OBVIOUS
<1>1. /\ pc = "idle" /\ rows = <<>> /\ whole = TRUE /\ trail = <<>> /\ sent = None
      /\ stream = None /\ reply = None /\ task = <<>> /\ pool = None
    BY Zenon DEF Init
<1>2. TypeOK
    <2>1. SecretOf(reg) \in Secret \cup {None} /\ "config" \in Secret
        BY Zenon DEF SecretOf, Secret, Init
    <2> QED
        BY <2>1, EmptyRows, NoFault, Zenon DEF Init, TypeOK
<1>3. PhaseInv /\ AuditInv /\ StreamInv
    BY <1>1, Zenon DEF PhaseInv, AuditInv, StreamInv, Opening
<1>4. CredInv /\ ClientInv
    BY <1>1, Zenon DEF CredInv, ClientInv, ForceReplaceIsHonoured, CredentialIsAttributed
<1> QED
    BY <1>2, <1>3, <1>4, Zenon DEF RequestInv

----------------------------------------------------------------------------
(* The theorems. *)

(* Where the request is, the credential it carries, the rows it has left   *)
(* and the bytes of its stream fit together in every state: the inductive  *)
(* invariant behind what follows (proxy.rs proxy_tool_request, and         *)
(* response_controls.rs SizeCappedStream).                                 *)
THEOREM RequestInvariant == Spec => []RequestInv
<1>1. RequestInv /\ [Next]_vars => RequestInv'
    <2> SUFFICES ASSUME RequestInv, [Next]_vars PROVE RequestInv'
        OBVIOUS
    <2>1. TypeOK /\ PhaseInv /\ CredInv /\ ClientInv /\ AuditInv /\ StreamInv
        BY Zenon DEF RequestInv
    <2>13. ClientInv'
        BY <2>1, ClientStep, Zenon
    <2>2. CASE Begin \/ RejectHandle \/ Lookup \/ Foreign \/ ApplyOverride \/ OverrideFails
        BY <2>1, <2>13, <2>2, OpeningTyped, OpeningStep, Zenon DEF RequestInv
    <2>3. CASE ResolveOauth \/ Check \/ ReadBody
        BY <2>1, <2>13, <2>3, SendingTyped, PreparingStep, Zenon DEF RequestInv
    <2>4. CASE Build
        BY <2>1, <2>13, <2>4, SendingTyped, BuildStep, Zenon DEF RequestInv
    <2>5. CASE SendFails \/ Receive \/ Buffer
        BY <2>1, <2>13, <2>5, SendingTyped, ReceivingStep, Zenon DEF RequestInv
    <2>6. CASE RowWritten \/ RowLost
        BY <2>1, <2>13, <2>6, RecordingTyped, WriteStep, Zenon DEF RequestInv
    <2>7. CASE PollChunk
        BY <2>1, <2>13, <2>7, RecordingTyped, PollChunkStep, Zenon DEF RequestInv
    <2>8. CASE PollMarker \/ PollEnd \/ PollError
        BY <2>1, <2>13, <2>8, RecordingTyped, PollStep, Zenon DEF RequestInv
    <2>9. CASE TaskRecord
        BY <2>1, <2>13, <2>9, RecordingTyped, TaskRecordStep, Zenon DEF RequestInv
    <2>10. CASE Cancel \/ Finish
        BY <2>1, <2>13, <2>10, RecordingTyped, EndStep, Zenon DEF RequestInv
    <2>11. CASE Operators
        BY <2>1, <2>13, <2>11, OperatorsTyped, OperatorsStep, Zenon DEF RequestInv
    <2>12. CASE UNCHANGED vars
        BY <2>12, <2>13, StutterStep, Zenon DEF RequestInv
    <2> QED
        BY <2>2, <2>3, <2>4, <2>5, <2>6, <2>7, <2>8, <2>9, <2>10, <2>11, <2>12, Zenon
            DEF Next, Handle, Upstream, Agent, Operators, Refreshing
<1> QED
    BY <1>1, InitStep, PTL DEF Spec

(* A request leaves with a client that could have been built anew for its  *)
(* target, whatever client an earlier one left in the pool: what a cached  *)
(* client is built from is what its fingerprint compares (client_pool.rs   *)
(* get_or_build_for).                                                      *)
THEOREM ClientIsCurrent == Spec => []ProxyInv
<1>1. RequestInv => ProxyInv
    BY Zenon DEF RequestInv, ClientInv, ProxyInv
<1> QED
    BY <1>1, RequestInvariant, PTL

(* A target with force_replace leaves without a credential of the proxy's  *)
(* only if between the check and the request a refresh stored a copy that  *)
(* is older than the secret over it, for any number of refreshes at once   *)
(* (registrations/api.rs refresh_runtime).                                 *)
THEOREM ForceReplace_Holds == Spec => []ForceReplaceIsHonoured
<1>1. RequestInv => ForceReplaceIsHonoured
    BY Zenon DEF RequestInv, CredInv
<1> QED
    BY <1>1, RequestInvariant, PTL

(* The credential sent is of the kind its audit row names (proxy.rs        *)
(* apply_agent_credential_override and audit_details).                     *)
THEOREM Attribution_Holds == Spec => []CredentialIsAttributed
<1>1. RequestInv => CredentialIsAttributed
    BY Zenon DEF RequestInv, CredInv
<1> QED
    BY <1>1, RequestInvariant, PTL

LEMMA RedactionIsNoOutcome ==
    ASSUME NEW row, IsRedaction(row)
    PROVE  row.event \notin Outcome /\ row.event # "response_size_exceeded"
BY Zenon DEF IsRedaction, Outcome

INSTANCE FiniteSetTheorems

LEMMA LastOne ==
    ASSUME NEW m \in Nat, m >= 1
    PROVE  m \in 1..m /\ \A i \in 1..m : i \in 1..(m - 1) \/ i = m
OBVIOUS

LEMMA LastTwo ==
    ASSUME NEW m \in Nat, NEW k, k = m - 1, k >= 1
    PROVE  /\ m \in 1..m /\ k \in 1..m /\ k # m
           /\ \A i \in 1..m : i \in 1..(k - 1) \/ i = k \/ i = m
OBVIOUS

(* A request that nobody cut short has exactly one outcome on record, and  *)
(* one more row for a stream that was capped, and they say what happened.  *)
THEOREM OneOutcome_Holds == Spec => []OneOutcome
<1>1. RequestInv => OneOutcome
    <2> SUFFICES ASSUME RequestInv, pc = "done", whole, task = <<>>
                 PROVE  /\ Cardinality(Outcomes) =
                             IF reply \in {"foreign", "rejected"} THEN 0
                             ELSE IF stream # None /\ stream.marker # "none" THEN 2 ELSE 1
                        /\ \A i \in Outcomes :
                             /\ trail[i].event \in Contacted <=> sent # None
                             /\ trail[i].event = "proxy_request" =>
                                   /\ reply \in {"served", "cut"} /\ trail[i].status = resp.status
                                   /\ trail[i].fixup <=> sent.body # req.body
        BY Zenon DEF OneOutcome
    <2>1. trail \in Seq(Row)
        BY Zenon DEF RequestInv, TypeOK
    <2>2. Len(trail) \in Nat /\ DOMAIN trail = 1..Len(trail)
        BY <2>1
    <2>3. CASE reply \in {"foreign", "rejected"}
        <3>1. trail = <<>>
            BY <2>3, Zenon DEF RequestInv, AuditInv
        <3>2. Outcomes = {}
            BY <3>1 DEF Outcomes
        <3>3. Cardinality(Outcomes) = 0
            BY <3>2, FS_EmptySet, Zenon
        <3> QED
            BY <2>3, <3>2, <3>3, Zenon
    <2>4. CASE reply \notin {"foreign", "rejected"}
        <3>1. Recorded /\ (CutWritten <=> stream # None /\ stream.marker # "none")
            BY <2>4, Zenon DEF RequestInv, AuditInv, CutWritten
        <3>2. /\ trail[Last].event \in Outcome
              /\ trail[Last].event \in Contacted <=> sent # None
              /\ trail[Last].event = "proxy_request" =>
                    /\ reply \in {"served", "cut"} /\ trail[Last].status = resp.status
                    /\ trail[Last].fixup <=> sent.body # req.body
            BY <3>1, Zenon DEF Recorded, Good
        <3>3. \A i \in 1..(Last - 1) : trail[i].event \notin Outcome
            BY <3>1, RedactionIsNoOutcome, Zenon DEF Recorded
        <3>4. Last >= 1
            BY <3>1, Zenon DEF Recorded
        <3>5. CASE ~CutWritten
            <4>1. Last = Len(trail)
                BY <3>5, Zenon DEF Last
            <4>2. \A i \in 1..Len(trail) : i \in 1..(Last - 1) \/ i = Last
                BY <2>2, <3>4, <4>1, LastOne, Zenon
            <4>3. Last \in 1..Len(trail)
                BY <2>2, <3>4, <4>1, LastOne, Zenon
            <4>4. Outcomes = {Last}
                <5>1. \A i \in Outcomes : i = Last
                    BY <2>2, <3>3, <4>2, Zenon DEF Outcomes
                <5>2. Last \in Outcomes
                    BY <2>2, <3>2, <4>3, Zenon DEF Outcomes
                <5> QED
                    BY <5>1, <5>2, Zenon
            <4>5. Cardinality(Outcomes) = 1
                BY <4>4, FS_Singleton, Zenon
            <4>6. \A i \in Outcomes : i = Last
                BY <4>4, Zenon
            <4> QED
                BY <2>4, <3>1, <3>2, <3>5, <4>5, <4>6, Zenon
        <3>6. CASE CutWritten
            <4>1. Last = Len(trail) - 1 /\ IsCut(trail[Len(trail)]) /\ sent # None
                BY <3>1, <3>6, Zenon DEF Last, Recorded, RequestInv, StreamInv, CutWritten
            <4>2. \A i \in 1..Len(trail) : i \in 1..(Last - 1) \/ i = Last \/ i = Len(trail)
                BY <2>2, <3>4, <4>1, LastTwo, Zenon
            <4>3. Last \in 1..Len(trail) /\ Len(trail) \in 1..Len(trail) /\ Len(trail) # Last
                BY <2>2, <3>4, <4>1, LastTwo, Zenon
            <4>4. /\ trail[Len(trail)].event \in Outcome /\ trail[Len(trail)].event \in Contacted
                  /\ trail[Len(trail)].event # "proxy_request"
                BY <4>1, Zenon DEF IsCut, Outcome, Event, Contacted
            <4>5. Outcomes = {Last} \cup {Len(trail)}
                <5>1. \A i \in Outcomes : i = Last \/ i = Len(trail)
                    BY <2>2, <3>3, <4>2, Zenon DEF Outcomes
                <5>2. Last \in Outcomes /\ Len(trail) \in Outcomes
                    BY <2>2, <3>2, <4>3, <4>4, Zenon DEF Outcomes
                <5> QED
                    BY <5>1, <5>2, Zenon
            <4>6. IsFiniteSet({Last}) /\ Cardinality({Last}) = 1
                BY FS_Singleton, Zenon
            <4>7. Cardinality({Last} \cup {Len(trail)}) = Cardinality({Last}) + 1
                <5>1. Len(trail) \notin {Last}
                    BY <4>3, Zenon
                <5> QED
                    BY <4>6, <5>1, FS_AddElement, Zenon
            <4>8. Cardinality(Outcomes) = 2
                <5>1. Cardinality(Outcomes) = 1 + 1
                    BY <4>5, <4>6, <4>7, Zenon
                <5> QED
                    BY <5>1
            <4>9. \A i \in Outcomes : i = Last \/ i = Len(trail)
                BY <4>5, Zenon
            <4> QED
                BY <2>4, <3>1, <3>2, <3>6, <4>1, <4>4, <4>8, <4>9, Zenon
        <3> QED
            BY <3>5, <3>6, Zenon
    <2> QED
        BY <2>3, <2>4, Zenon
<1> QED
    BY <1>1, RequestInvariant, PTL


LEMMA Joined ==
    ASSUME NEW s \in Seq(Row), NEW t \in Seq(Row)
    PROVE  /\ t = <<>> => s \o t = s
           /\ Len(t) = 1 => /\ DOMAIN (s \o t) = 1..(Len(s) + 1)
                            /\ \A i \in 1..Len(s) : (s \o t)[i] = s[i]
                            /\ (s \o t)[Len(s) + 1] = t[1]
<1>1. ASSUME t = <<>> PROVE s \o t = s
    BY <1>1
<1>2. ASSUME Len(t) = 1
      PROVE  /\ DOMAIN (s \o t) = 1..(Len(s) + 1)
             /\ \A i \in 1..Len(s) : (s \o t)[i] = s[i]
             /\ (s \o t)[Len(s) + 1] = t[1]
    <2>1. /\ s \o t \in Seq(Row) /\ Len(s \o t) = Len(s) + Len(t)
          /\ \A i \in 1..(Len(s) + Len(t)) :
                (s \o t)[i] = IF i <= Len(s) THEN s[i] ELSE t[i - Len(s)]
        OBVIOUS
    <2>2. Len(s) \in Nat /\ DOMAIN (s \o t) = 1..(Len(s) + 1)
        BY <1>2, <2>1
    <2> DEFINE c == s \o t
               m == Len(s)
    <2>3. \A i \in 1..(m + 1) : c[i] = IF i <= m THEN s[i] ELSE t[i - m]
        BY <1>2, <2>1, Zenon
    <2>4. m \in Nat
        BY <2>2
    <2> HIDE DEF c, m
    <2>5. (\A i \in 1..m : c[i] = s[i]) /\ c[m + 1] = t[1]
        BY <2>3, <2>4
    <2> QED
        BY <2>2, <2>5, Zenon DEF c, m
<1> QED
    BY <1>1, <1>2, Zenon

(* A stream that ends delivered the whole response, or exactly the cap and *)
(* the marker with one audit row, however the response is chunked          *)
(* (SizeCappedStream::poll_next).                                          *)
THEOREM CapIsExact_Holds == Spec => []CapIsExact
<1>1. RequestInv => CapIsExact
    <2> SUFFICES ASSUME RequestInv, pc = "done", whole, reply = "served", stream # None
                 PROVE  /\ stream.seen = IF Over THEN conf.cap ELSE resp.size
                        /\ stream.marker = IF Over THEN "sent" ELSE "none"
                        /\ Cardinality(Cuts) = IF Over THEN 1 ELSE 0
        BY Zenon DEF CapIsExact
    <2>1. trail \in Seq(Row) /\ task \in Seq(Row) /\ stream \in Stream
        BY Zenon DEF RequestInv, TypeOK
    <2>2. Len(trail) \in Nat /\ DOMAIN trail = 1..Len(trail)
        BY <2>1
    <2>3. Recorded
        BY StreamRecorded, Zenon DEF RequestInv
    <2>4. /\ Last >= 1 /\ trail[Last].event # "response_size_exceeded"
          /\ \A i \in 1..(Last - 1) : trail[i].event # "response_size_exceeded"
        BY <2>3, RedactionIsNoOutcome, Zenon DEF Recorded
    <2>5. stream.marker = "sent" \/ (stream.marker = "none" /\ stream.left = 0)
        BY Zenon DEF RequestInv, StreamInv
    <2>6. CASE stream.marker = "none" /\ stream.left = 0
        <3>1. /\ stream.seen + stream.left = resp.size /\ task = <<>> /\ resp \in Response
              /\ conf.cap # None => stream.seen <= conf.cap
            BY <2>6, Zenon DEF RequestInv, StreamInv
        <3>2. stream.seen \in Nat /\ resp.size \in Nat /\ conf.cap \in Nat \cup {None}
            BY <2>1, <3>1, ConstantsAssumption DEF Stream, RequestInv, TypeOK
        <3>3. stream.seen = resp.size
            BY <2>6, <3>1, <3>2
        <3>4. ~Over
            BY <3>1, <3>2, <3>3 DEF Over
        <3>5. Last = Len(trail) /\ trail \o task = trail
            BY <2>1, <2>6, <3>1, Joined, Zenon DEF Last, CutWritten
        <3>6. Cuts = {}
            <4>1. \A i \in 1..Len(trail) : i \in 1..(Last - 1) \/ i = Last
                BY <2>2, <2>4, <3>5, LastOne, Zenon
            <4> QED
                BY <2>2, <2>4, <3>5, <4>1, Zenon DEF Cuts
        <3>7. Cardinality(Cuts) = 0
            BY <3>6, FS_EmptySet, Zenon
        <3> QED
            BY <2>6, <3>3, <3>4, <3>7, Zenon
    <2>7. CASE stream.marker = "sent"
        <3>1. Over /\ stream.seen = conf.cap /\ (task # <<>> => Len(task) = 1 /\ IsCut(task[1]))
            BY <2>7, Zenon DEF RequestInv, StreamInv
        <3>2. \E k : Cuts = {k}
            <4>1. CASE task = <<>>
                <5>1. CutWritten /\ Last = Len(trail) - 1 /\ IsCut(trail[Len(trail)])
                    BY <2>3, <2>7, <4>1, Zenon DEF CutWritten, Last, Recorded
                <5>2. trail \o task = trail
                    BY <2>1, <4>1, Joined, Zenon
                <5>3. /\ Len(trail) \in 1..Len(trail)
                      /\ \A i \in 1..Len(trail) : i \in 1..(Last - 1) \/ i = Last \/ i = Len(trail)
                    BY <2>2, <2>4, <5>1, LastTwo, Zenon
                <5>4. \A i \in Cuts : i = Len(trail)
                    BY <2>2, <2>4, <5>2, <5>3, Zenon DEF Cuts
                <5>5. Len(trail) \in Cuts
                    BY <2>2, <5>1, <5>2, <5>3, Zenon DEF Cuts, IsCut
                <5>6. Cuts = {Len(trail)}
                    BY <5>4, <5>5, Zenon
                <5> QED
                    BY <5>6, Zenon
            <4>2. CASE task # <<>>
                <5>1. Last = Len(trail)
                    BY <4>2, Zenon DEF CutWritten, Last
                <5> DEFINE all == trail \o task
                           k == Len(trail) + 1
                <5>2. /\ DOMAIN all = 1..k /\ \A i \in 1..Len(trail) : all[i] = trail[i]
                      /\ all[k] = task[1]
                    BY <2>1, <3>1, <4>2, Joined, Zenon
                <5>3. k \in 1..k /\ \A i \in 1..k : i \in 1..Len(trail) \/ i = k
                    BY <2>2
                <5>4. \A i \in 1..Len(trail) : i \in 1..(Last - 1) \/ i = Last
                    BY <2>2, <2>4, <5>1, LastOne, Zenon
                <5>5. \A i \in Cuts : i = k
                    BY <2>4, <5>2, <5>3, <5>4, Zenon DEF Cuts
                <5>6. k \in Cuts
                    BY <3>1, <4>2, <5>2, <5>3, Zenon DEF Cuts, IsCut
                <5>7. Cuts = {k}
                    BY <5>5, <5>6, Zenon
                <5> QED
                    BY <5>7, Zenon
            <4> QED
                BY <4>1, <4>2, Zenon
        <3>3. Cardinality(Cuts) = 1
            BY <3>2, FS_Singleton, Zenon
        <3> QED
            BY <2>7, <3>1, <3>3, Zenon
    <2> QED
        BY <2>5, <2>6, <2>7, Zenon
<1> QED
    BY <1>1, RequestInvariant, PTL

============================================================================
