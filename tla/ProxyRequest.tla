---------------------------- MODULE ProxyRequest ----------------------------
(***************************************************************************)
(* One request for a tool on its way through the proxy: the tool ACL, the  *)
(* lookup of the target, the agent's credential override, the OAuth token, *)
(* the request to the upstream with the credential put in, the response    *)
(* controls, the audit rows and the stream of bytes back to the agent.     *)
(*                                                                         *)
(* Meanwhile operators replace the registration, which reaches the proxy   *)
(* as two stores (secrets, then catalog) of refreshes that may overlap,    *)
(* and the agent's override.                                               *)
(* Requests write nothing that another request reads, except the client    *)
(* pool, which outlives them: the module has one request after another.    *)
(* A step ends where the handler awaits or loads shared state.             *)
(***************************************************************************)
EXTENDS Naturals, Sequences, FiniteSets

CONSTANTS
    Entry,      \* registrations of the tool: [ver, auth, force, set, codex,
                \* timeouts, egress]
    Override,   \* override rows: [auth, force, set]
    Config,     \* configurations: [tool, restricted, kamiwaza, cap, typed, redact,
                \* proxy, frail]; building a client may fail in a frail one
    Refresher,  \* admin calls that refresh the runtime, perhaps at once
    Body,       \* what agents send: [responses, size, wrong], a body for the
                \* /responses path or not, wrong = None when it is not JSON
    Response,   \* upstream responses: [status, typed, size, hits]
    BodyLimit,  \* body_limit_bytes
    CodexLimit, \* codex_body::MAX_BODY_BYTES
    MaxChunk,   \* bound: bytes in one chunk of it
    MaxFault,   \* bound: disconnections and failed database calls, per request
    None

Static == {"header", "bearer"}
Shape == Static \cup {"none", "oauth"}
Field == {"store", "stream", "instructions", "max_output_tokens"}

Secret == {e.ver : e \in Entry} \cup {"config"}
Egress == {"direct", "proxied"}
ProxyUrl == {"url", "malformed", None}
Client == [timeouts : Nat \cup {None}, via : {"url", None}, redirects : BOOLEAN]
Cached == [client : Client, fp : [timeouts : Nat, egress : Egress, proxy : ProxyUrl,
                                  redirects : BOOLEAN]]
Sent == [cred : Secret \cup {"override", "token", None},
         body : [responses : BOOLEAN, size : Nat, wrong : (SUBSET Field) \cup {None}],
         fixup : BOOLEAN, client : Client]
Marker == {"none", "pending", "sent"}
Stream == [left : Nat, seen : Nat, marker : Marker]

ASSUME ConstantsAssumption ==
    /\ \A e \in Entry : /\ e.auth \in Shape /\ {e.force, e.set, e.codex} \subseteq BOOLEAN
                        /\ e.ver \notin {None, "config", "override", "token"}
                        /\ e.timeouts \in Nat /\ e.egress \in Egress
                        /\ \A f \in Entry : e.ver = f.ver => e = f
    /\ \A o \in Override : o.auth \in Shape /\ {o.force, o.set} \subseteq BOOLEAN
    /\ \A c \in Config :
        /\ c.cap \in Nat \cup {None} /\ c.proxy \in ProxyUrl /\ c.restricted \in BOOLEAN
        /\ \/ c.tool = None
           \/ /\ c.tool.auth \in {"none", "header"} /\ c.tool.force \in BOOLEAN
              /\ c.tool.timeouts \in Nat /\ c.tool.egress \in Egress
    /\ Body \subseteq [responses : BOOLEAN, size : Nat, wrong : (SUBSET Field) \cup {None}]
    /\ Response \subseteq [status : {"2xx", "5xx"}, typed : BOOLEAN, size : Nat, hits : Nat]
    /\ BodyLimit \in Nat /\ CodexLimit \in Nat /\ MaxFault \in Nat /\ MaxChunk \in Nat
    /\ None \notin Sent /\ None \notin Stream /\ None \notin Cached
    /\ None \notin {"config", "override", "token"}

VARIABLES
    conf,       \* the configuration, read once at startup
    reg,        \* the catalog's entry for the tool, None if absent or disabled
    refresh,    \* per refresher: [stage, entry, snap], or None
    creds,      \* the tool's secret in resolved_creds, by its origin, or None
    ovr,        \* the agent's row of agent_credential_overrides, or None
    pool,       \* the cached client and its fingerprint: [client, fp], or None
    pc,
    req,        \* the request: [named, body], or None
    target,     \* ProxyTarget, or None
    sent,       \* what went upstream: [cred, body, fixup, client], or None
    resp,       \* the upstream's response: [status, typed, size, hits], or None
    rows,       \* audit rows still to be written
    trail,      \* audit rows written for this request
    task,       \* the row of a spawned audit write
    stream,     \* SizeCappedStream: [left, seen, marker], or None
    reply,      \* what the agent is answered
    whole,      \* history: nothing cut this request or its audit rows short
    lost,       \* history: since the check, a refresh that had loaded the
                \* secrets before the tool's was added took it away again
    faults

shared == <<conf, reg, refresh, creds, ovr>>
vars == <<shared, pool, pc, req, target, sent, resp, rows, trail, task, stream,
          reply, whole, lost, faults>>

Event == {"authz_denied", "tool_not_found", "oauth_unavailable",
          "credential_unavailable", "request_body_read_error",
          "codex_body_too_large", "timeout", "upstream_error", "proxy_request",
          "response_content_type_disallowed", "upstream_body_read_error",
          "response_size_exceeded", "response_redaction"}
Row == [event : Event, status : {"2xx", "5xx", None}, source : {"registration_default",
        "agent_override", None}, fixup : BOOLEAN]
Request == [named : BOOLEAN, body : Body \cup {None}]
Target == [auth : Shape, force : BOOLEAN, codex : BOOLEAN, timeouts : Nat, egress : Egress,
           value : {"override", "token", None},
           source : {"registration_default", "agent_override"}]
Refresh == [stage : {"store", "catalog"}, entry : Entry \cup {None},
            snap : Secret \cup {None}]

TypeOK ==
    /\ conf \in Config /\ reg \in Entry \cup {None}
    /\ refresh \in [Refresher -> Refresh \cup {None}]
    /\ creds \in Secret \cup {None} /\ ovr \in Override \cup {None}
    /\ pool \in Cached \cup {None}
    /\ pc \in {"idle", "lookup", "foreign", "override", "oauth", "check", "body",
               "build", "send", "buffer", "record", "stream", "done"}
    /\ req \in Request \cup {None} /\ target \in Target \cup {None}
    /\ sent \in Sent \cup {None} /\ resp \in Response \cup {None}
    /\ rows \in Seq(Row) /\ trail \in Seq(Row) /\ task \in Seq(Row)
    /\ stream \in Stream \cup {None}
    /\ reply \in {None, "refused", "rejected", "foreign", "failed", "served", "cut"}
    /\ whole \in BOOLEAN /\ lost \in BOOLEAN /\ faults \in 0..MaxFault

(* resolve_registration_creds_sync_env_only: the origin of the secret an   *)
(* entry's variable holds, None if there is none.                          *)
SecretOf(e) == IF e # None /\ e.auth \in Static /\ e.set THEN e.ver ELSE None

(* At startup config.tools is resolved first; a registration's secret is   *)
(* only added (or_insert).                                                 *)
Init ==
    /\ conf \in Config /\ reg \in Entry \cup {None} 
    /\ refresh = [p \in Refresher |-> None]
    /\ creds = IF conf.tool # None /\ conf.tool.auth = "header" /\ conf.tool.set
               THEN "config" ELSE SecretOf(reg)
    /\ ovr \in Override \cup {None}
    /\ pool = None /\ pc = "idle" /\ req = None /\ target = None /\ sent = None
    /\ resp = None /\ rows = <<>> /\ trail = <<>> /\ task = <<>>
    /\ stream = None /\ reply = None /\ whole = TRUE /\ lost = FALSE /\ faults = 0

----------------------------------------------------------------------------
(* Helpers. *)

Goto(label) == pc' = label

(* The rows are written one by one before the agent is answered. *)
Record(events, answer) ==
    /\ pc' = "record"
    /\ rows' = events
    /\ reply' = answer

(* RequestCtx::audit_event_base, and audit_details where they are added;   *)
(* status is the upstream's, None in a row with a status of the proxy's    *)
(* own.                                                                    *)
Plain(event) == [event |-> event, status |-> None, source |-> None, fixup |-> FALSE]
Detailed(event, status) ==
    [event |-> event, status |-> status, source |-> target.source,
     fixup |-> sent # None /\ sent.fixup]

(* ProxyTarget::from_registration, from_tool_config. *)
FromEntry(e) ==
    [auth |-> e.auth, force |-> e.force, codex |-> e.codex,
     timeouts |-> e.timeouts, egress |-> e.egress, value |-> None,
     source |-> "registration_default"]
FromConfig(t) ==
    [auth |-> t.auth, force |-> t.force, codex |-> FALSE,
     timeouts |-> t.timeouts, egress |-> t.egress, value |-> None,
     source |-> "registration_default"]

(* resolve_target: the catalog, then config.tools. *)
ResolveTarget == IF reg # None THEN FromEntry(reg)
                 ELSE IF conf.tool # None THEN FromConfig(conf.tool)
                 ELSE None

(* The override's spec, complete, replaces the target's; for OAuth only    *)
(* the session label does.                                                 *)
Overridden(t, o) ==
    IF o.auth = "oauth" THEN [t EXCEPT !.source = "agent_override"]
    ELSE [t EXCEPT !.auth = o.auth, !.source = "agent_override",
                   !.force = o.auth \in Static /\ o.force,
                   !.value = IF o.auth \in Static /\ o.set THEN "override" ELSE None]

(* force_replace_missing. *)
Missing == target.auth \in Static /\ target.force /\ target.value = None
           /\ creds = None

(* Faulty variant: the registration's credential wins over the override's. *)
Injected_DefaultFirst ==
    IF target.auth = "none" THEN None
    ELSE IF target.auth \in Static /\ creds # None THEN creds
    ELSE target.value

(* The credential build_upstream_request puts in. *)
Injected == IF target.auth = "none" THEN None
            ELSE IF target.value # None THEN target.value
            ELSE IF target.auth \in Static THEN creds
            ELSE None

(* codex_body::fixup: the four rules put right, in a JSON object, the      *)
(* fields that are not as codex wants them; anything else passes. The      *)
(* audit flag is FixupSummary::is_noop negated.                            *)
Fixup(body) == [body |-> IF body.wrong = None THEN body ELSE [body EXCEPT !.wrong = {}],
                fixup |-> body.wrong # None /\ body.wrong # {}]
ForCodex == target.codex /\ req.body.responses
TooLarge == ForCodex /\ req.body.size > CodexLimit

(* ToolFingerprint::of_parts: the proxy counts only for a proxied tool, a  *)
(* request_allowlist of that name turns redirects off.                     *)
Fingerprint(t) ==
    [timeouts |-> t.timeouts, egress |-> t.egress,
     proxy |-> IF t.egress = "proxied" THEN conf.proxy ELSE None,
     redirects |-> ~conf.restricted]

(* build_client_for: the client asked for, without the proxy when its URL  *)
(* is missing or malformed, or, when the builder fails, one with nothing   *)
(* but the redirect policy.                                                *)
BuildClient(t, follow) ==
    {[timeouts |-> t.timeouts, redirects |-> follow,
      via |-> IF t.egress = "proxied" /\ conf.proxy = "url" THEN "url" ELSE None]}
    \cup {c \in {[timeouts |-> None, redirects |-> follow, via |-> None]} : conf.frail}

(* Faulty variant: the fingerprint is not compared. *)
GetOrBuild_Cached(cached, t) ==
    IF cached # None THEN {cached}
    ELSE {[client |-> c, fp |-> Fingerprint(t)] :
              c \in BuildClient(t, Fingerprint(t).redirects)}

(* ClientPool::get_or_build_for, one step under the entries' lock: the     *)
(* cached client if its fingerprint is the target's, else a new one, which *)
(* is cached in its place.                                                 *)
GetOrBuild(cached, t) ==
    IF cached # None /\ cached.fp = Fingerprint(t) THEN {cached}
    ELSE {[client |-> c, fp |-> Fingerprint(t)] :
              c \in BuildClient(t, Fingerprint(t).redirects)}

----------------------------------------------------------------------------
(* proxy_tool_request, up to the upstream. *)

(* A request that passed authentication, with or without an agent's        *)
(* identity, whose policy may not allow the tool.                          *)
Begin ==
    /\ pc = "idle"
    /\ \E named \in BOOLEAN :
        /\ req' = [named |-> named, body |-> None]
        /\ \/ Goto("lookup") /\ UNCHANGED <<rows, reply>>
           \/ named /\ Record(<<Plain("authz_denied")>>, "refused")
    /\ UNCHANGED <<shared, pool, target, sent, resp, trail, task, stream, whole, lost,
                   faults>>

(* credential_transport_request turns a request with no known handle away  *)
(* before anything else; one with a handle is a Begin without identity.    *)
RejectHandle ==
    /\ pc = "idle"
    /\ Goto("done") /\ reply' = "rejected"
    /\ UNCHANGED <<shared, pool, req, target, sent, resp, rows, trail, task, stream,
                   whole, lost, faults>>

(* The lookup and the configured request_allowlist, if any, which the      *)
(* request may not be on, before any other await.                          *)
Lookup ==
    /\ pc = "lookup"
    /\ target' = ResolveTarget
    /\ \/ /\ target' = None
          /\ \/ conf.kamiwaza /\ Goto("foreign") /\ UNCHANGED <<rows, reply>>
             \/ ~conf.kamiwaza /\ Record(<<Plain("tool_not_found")>>, "refused")
       \/ /\ target' # None /\ conf.restricted
          /\ Record(<<Plain("authz_denied")>>, "refused")
       \/ target' # None /\ Goto("override") /\ UNCHANGED <<rows, reply>>
    /\ UNCHANGED <<shared, pool, req, sent, resp, trail, task, stream, whole, lost, faults>>

(* kamiwaza::handle_proxy_call answers by itself unless it knows no tool   *)
(* of that name.                                                           *)
Foreign ==
    /\ pc = "foreign"
    /\ \/ Goto("done") /\ reply' = "foreign" /\ UNCHANGED rows
       \/ Record(<<Plain("tool_not_found")>>, "refused")
    /\ UNCHANGED <<shared, pool, req, target, sent, resp, trail, task, stream, whole, lost,
                   faults>>

(* apply_agent_credential_override: one SELECT. *)
ApplyOverride ==
    /\ pc = "override"
    /\ target' = IF req.named /\ ovr # None THEN Overridden(target, ovr) ELSE target
    /\ Goto(IF target'.auth = "oauth" THEN "oauth" ELSE "check")
    /\ UNCHANGED <<shared, pool, req, sent, resp, rows, trail, task, stream, reply,
                   whole, lost, faults>>

(* A failed SELECT falls back to the registration's credential. *)
OverrideFails ==
    /\ pc = "override" /\ req.named
    /\ faults < MaxFault /\ faults' = faults + 1
    /\ Goto(IF target.auth = "oauth" THEN "oauth" ELSE "check")
    /\ UNCHANGED <<shared, pool, req, target, sent, resp, rows, trail, task, stream,
                   reply, whole, lost>>

(* resolve_oauth_token, whose steps are those of OauthSessions. *)
ResolveOauth ==
    /\ pc = "oauth"
    /\ \/ /\ target' = [target EXCEPT !.value = "token"]
          /\ Goto("check")
          /\ UNCHANGED <<rows, reply>>
       \/ Record(<<Plain("oauth_unavailable")>>, "refused") /\ UNCHANGED target
    /\ UNCHANGED <<shared, pool, req, sent, resp, trail, task, stream, whole, lost, faults>>

Check ==
    /\ pc = "check"
    /\ \/ ~Missing /\ Goto("body") /\ UNCHANGED <<rows, reply>>
       \/ Missing /\ Record(<<Detailed("credential_unavailable", None)>>, "refused")
    /\ UNCHANGED <<shared, pool, req, target, sent, resp, trail, task, stream, whole, lost,
                   faults>>

(* read_request_body waits for the agent's body, for as long as it takes,  *)
(* unless it is broken off or too long.                                    *)
ReadBody ==
    /\ pc = "body"
    /\ \E b \in Body :
        /\ req' = [req EXCEPT !.body = b]
        /\ \/ b.size <= BodyLimit /\ Goto("build") /\ UNCHANGED <<rows, reply>>
           \/ Record(<<Plain("request_body_read_error")>>, "refused")
    /\ UNCHANGED <<shared, pool, target, sent, resp, trail, task, stream, whole, lost,
                   faults>>

(* The codex rewrite, the client from the pool and build_upstream_request. *)
Build ==
    /\ pc = "build"
    /\ \/ /\ TooLarge
          /\ Record(<<Plain("codex_body_too_large")>>, "refused")
          /\ UNCHANGED <<pool, sent>>
       \/ /\ ~TooLarge
          /\ pool' \in GetOrBuild(pool, target)
          /\ sent' = [cred |-> Injected, client |-> pool'.client,
                      body |-> IF ForCodex THEN Fixup(req.body).body ELSE req.body,
                      fixup |-> ForCodex /\ Fixup(req.body).fixup]
          /\ Goto("send")
          /\ UNCHANGED <<rows, reply>>
    /\ UNCHANGED <<shared, req, target, resp, trail, task, stream, whole, lost, faults>>

----------------------------------------------------------------------------
(* The upstream's answer. *)

(* Faulty variant: the error is answered without an audit row. *)
SendFails_Silent ==
    /\ pc = "send"
    /\ Goto("done") /\ reply' = "failed"
    /\ UNCHANGED <<shared, pool, req, target, sent, resp, rows, trail, task, stream,
                   whole, lost, faults>>

(* record_upstream_error. *)
SendFails ==
    /\ pc = "send"
    /\ \E event \in {"timeout", "upstream_error"} : Record(<<Detailed(event, None)>>, "failed")
    /\ UNCHANGED <<shared, pool, req, target, sent, resp, trail, task, stream, whole, lost,
                   faults>>

(* handle_upstream_response: the content type first, then the buffered     *)
(* branch for a tool with redaction patterns, else the success row and     *)
(* the stream, capped or not.                                              *)
Receive ==
    /\ pc = "send"
    /\ \E r \in Response :
        /\ resp' = r
        /\ (conf.typed \/ r.typed) /\ (conf.redact \/ r.hits = 0)
        /\ \/ /\ ~r.typed
              /\ Record(<<Plain("response_content_type_disallowed")>>, "failed")
              /\ UNCHANGED stream
           \/ /\ r.typed /\ conf.redact
              /\ Goto("buffer")
              /\ UNCHANGED <<rows, reply, stream>>
           \/ /\ r.typed /\ ~conf.redact
              /\ Record(<<Detailed("proxy_request", r.status)>>, "served")
              /\ stream' = [left |-> r.size, seen |-> 0, marker |-> "none"]
    /\ UNCHANGED <<shared, pool, req, target, sent, trail, task, whole, lost, faults>>

(* ResponseControls::apply_non_streaming: over the cap, or one redaction   *)
(* for each pattern that matched.                                          *)
Over == conf.cap # None /\ resp.size > conf.cap
Redactions == [i \in 1..resp.hits |-> Plain("response_redaction")]

(* apply_buffered_response_controls: the whole body is read, then the      *)
(* controls are applied; the success row comes last.                       *)
Buffer ==
    /\ pc = "buffer"
    /\ \/ Record(<<Plain("upstream_body_read_error")>>, "failed")
       \/ Over /\ Record(<<Plain("response_size_exceeded")>>, "failed")
       \/ ~Over /\ Record(Redactions \o <<Detailed("proxy_request", resp.status)>>, "served")
    /\ UNCHANGED <<shared, pool, req, target, sent, resp, trail, task, stream, whole, lost,
                   faults>>

(* audit_record for the next row; a failed write is logged and swallowed.  *)
(* Then the handler returns its response, perhaps with a stream in it.     *)
WriteRow(written) ==
    /\ pc = "record"
    /\ rows' = Tail(rows)
    /\ trail' = IF written THEN Append(trail, Head(rows)) ELSE trail
    /\ pc' = IF rows' # <<>> THEN "record" ELSE IF stream # None THEN "stream" ELSE "done"
    /\ UNCHANGED <<shared, pool, req, target, sent, resp, task, stream, reply, lost>>
RowWritten == WriteRow(TRUE) /\ UNCHANGED <<whole, faults>>
RowLost ==
    /\ WriteRow(FALSE)
    /\ faults < MaxFault /\ faults' = faults + 1
    /\ whole' = FALSE

----------------------------------------------------------------------------
(* SizeCappedStream::poll_next. *)

(* Faulty variant: a chunk that fills the cap exactly is one too many. *)
PollChunk_AtCap ==
    /\ pc = "stream" /\ stream.marker = "none" /\ stream.left > 0
    /\ \E n \in 1..MaxChunk :
        /\ n <= stream.left
        /\ LET over == conf.cap # None /\ stream.seen + n >= conf.cap IN
           /\ stream' = [left |-> stream.left - n,
                         seen |-> IF over THEN conf.cap ELSE stream.seen + n,
                         marker |-> IF over THEN "pending" ELSE "none"]
           /\ task' = IF over THEN Append(task, Plain("response_size_exceeded")) ELSE task
    /\ UNCHANGED <<shared, pool, pc, req, target, sent, resp, rows, trail, reply,
                   whole, lost, faults>>

(* A chunk that fits passes; the one that crosses the cap is cut to what   *)
(* fits, the callback spawns the audit write and the marker waits for the  *)
(* next poll.                                                              *)
PollChunk ==
    /\ pc = "stream" /\ stream.marker = "none" /\ stream.left > 0
    /\ \E n \in 1..MaxChunk :
        /\ n <= stream.left
        /\ LET over == conf.cap # None /\ stream.seen + n > conf.cap IN
           /\ stream' = [left |-> stream.left - n,
                         seen |-> IF over THEN conf.cap ELSE stream.seen + n,
                         marker |-> IF over THEN "pending" ELSE "none"]
           /\ task' = IF over THEN Append(task, [Plain("response_size_exceeded")
                                                 EXCEPT !.status = resp.status])
                      ELSE task
    /\ UNCHANGED <<shared, pool, pc, req, target, sent, resp, rows, trail, reply,
                   whole, lost, faults>>

(* Faulty variant: the marker is read, not taken. *)
PollMarker_Kept ==
    /\ pc = "stream" /\ stream.marker = "pending"
    /\ UNCHANGED vars

(* The marker goes out, once. *)
PollMarker ==
    /\ pc = "stream" /\ stream.marker = "pending"
    /\ stream' = [stream EXCEPT !.marker = "sent"]
    /\ UNCHANGED <<shared, pool, pc, req, target, sent, resp, rows, trail, task, reply,
                   whole, lost, faults>>

(* The end of the body, or the end after the marker. *)
PollEnd ==
    /\ pc = "stream" /\ stream.marker # "pending"
    /\ stream.marker = "sent" \/ stream.left = 0
    /\ Goto("done")
    /\ UNCHANGED <<shared, pool, req, target, sent, resp, rows, trail, task, stream,
                   reply, whole, lost, faults>>

(* The upstream breaks off or stalls: the error is passed on. *)
PollError ==
    /\ pc = "stream" /\ stream.marker = "none"
    /\ Goto("done") /\ reply' = "cut"
    /\ UNCHANGED <<shared, pool, req, target, sent, resp, rows, trail, task, stream,
                   whole, lost, faults>>

(* The spawned write of build_streaming_truncate_callback. *)
TaskRecord ==
    /\ task # <<>>
    /\ trail' = Append(trail, Head(task)) /\ task' = Tail(task)
    /\ UNCHANGED <<shared, pool, pc, req, target, sent, resp, rows, stream, reply,
                   whole, lost, faults>>

----------------------------------------------------------------------------
(* The end of a request, and the agent that goes away: the handler, or the *)
(* body stream, is dropped where it waits. A spawned write lives on.       *)

Cancel ==
    /\ pc \notin {"idle", "done"}
    /\ faults < MaxFault /\ faults' = faults + 1
    /\ Goto("done") /\ rows' = <<>> /\ whole' = FALSE
    /\ UNCHANGED <<shared, pool, req, target, sent, resp, trail, task, stream, reply, lost>>

Finish ==
    /\ pc = "done" /\ task = <<>>
    /\ Goto("idle") /\ whole' = TRUE /\ lost' = FALSE /\ trail' = <<>>
    /\ req' = None /\ target' = None /\ sent' = None /\ resp' = None
    /\ stream' = None /\ reply' = None
    /\ faults' = 0
    /\ UNCHANGED <<shared, pool, rows, task>>

----------------------------------------------------------------------------
(* The operators. They are left out once the request is on the wire, which *)
(* is sound: nothing after Build reads what they write.                    *)

Early == pc \in {"idle", "lookup", "override", "oauth", "check", "body", "build"}

(* Faulty variant: the secrets are rebuilt from the catalog. *)
Merged_Rebuilt(snap, e) == SecretOf(e)

(* The tool's secret after the refresh's: only ever overwritten.           *)
Merged(snap, e) == IF SecretOf(e) # None THEN SecretOf(e) ELSE snap

(* refresh_runtime after an admin write: the catalog as read has entry e   *)
(* for the tool, None when deleted or disabled. The secrets are loaded to  *)
(* be merged if any tool of the catalog, this or another one, has one.     *)
RefreshLoad(p) ==
    /\ Early /\ refresh[p] = None
    /\ \E e \in Entry \cup {None} :
        \/ refresh' = [refresh EXCEPT ![p] = [stage |-> "store", entry |-> e, snap |-> creds]]
        \/ /\ SecretOf(e) = None
           /\ refresh' = [refresh EXCEPT ![p] = [stage |-> "catalog", entry |-> e, snap |-> None]]
    /\ UNCHANGED <<conf, reg, creds, ovr, pool, pc, req, target, sent, resp, rows, trail,
                   task, stream, reply, whole, lost, faults>>

(* The merged copy is stored, over whatever was stored since the load. *)
RefreshStore(p) ==
    /\ Early /\ refresh[p] # None /\ refresh[p].stage = "store"
    /\ creds' = Merged(refresh[p].snap, refresh[p].entry)
    /\ lost' = (lost \/ (/\ pc \in {"body", "build"} /\ creds # None /\ creds' = None
                         /\ refresh[p].snap = None))
    /\ refresh' = [refresh EXCEPT ![p] = [@ EXCEPT !.stage = "catalog", !.snap = None]]
    /\ UNCHANGED <<conf, reg, ovr, pool, pc, req, target, sent, resp, rows, trail, task,
                   stream, reply, whole, faults>>

(* Then the catalog. *)
RefreshCatalog(p) ==
    /\ Early /\ refresh[p] # None /\ refresh[p].stage = "catalog"
    /\ reg' = refresh[p].entry
    /\ refresh' = [refresh EXCEPT ![p] = None]
    /\ UNCHANGED <<conf, creds, ovr, pool, pc, req, target, sent, resp, rows, trail,
                   task, stream, reply, whole, lost, faults>>

(* op_set_agent_credential, op_unset_agent_credential. *)
SetOverride ==
    /\ Early
    /\ ovr' \in Override
    /\ UNCHANGED <<conf, reg, refresh, creds, pool, pc, req, target, sent, resp, rows,
                   trail, task, stream, reply, whole, lost, faults>>
UnsetOverride ==
    /\ Early
    /\ ovr' = None
    /\ UNCHANGED <<conf, reg, refresh, creds, pool, pc, req, target, sent, resp, rows,
                   trail, task, stream, reply, whole, lost, faults>>

----------------------------------------------------------------------------
(* What the proxy does by itself. *)
Handle == \/ Lookup \/ ApplyOverride \/ ResolveOauth \/ Check \/ Build \/ RowWritten
          \/ Finish

(* What the upstream has to do. A client that has its timeouts waits no    *)
(* longer than they say: SendFails, or the read error in Buffer.           *)
Upstream == SendFails \/ Receive \/ Buffer
Timed == pc \in {"send", "buffer"} /\ sent.client.timeouts # None

(* What needs the agent: nothing limits the time it takes to send its body *)
(* (Kamiwaza's handler reads one too) or to read the response.             *)
Agent == Foreign \/ ReadBody \/ PollChunk \/ PollMarker \/ PollEnd \/ PollError

Next == \/ Begin \/ RejectHandle \/ Handle \/ Upstream \/ Agent \/ TaskRecord
        \/ OverrideFails \/ RowLost \/ Cancel
        \/ \E p \in Refresher : RefreshLoad(p) \/ RefreshStore(p) \/ RefreshCatalog(p)
        \/ SetOverride \/ UnsetOverride

(* Every task the runtime has is polled again once it can go on. *)
Spec == Init /\ [][Next]_vars
        /\ WF_vars(Handle) /\ WF_vars(Timed /\ Upstream) /\ WF_vars(TaskRecord)

----------------------------------------------------------------------------
(* Properties. *)

(* The secrets are looked up twice, before and after the body is read, and *)
(* operators change them in between. A request for a target with           *)
(* force_replace leaves without a credential of the proxy's in one case    *)
(* only: in between, a refresh whose copy is older than the secret was     *)
(* stored over it. No refresh by itself, whatever became of the tool,      *)
(* takes the secret away (proxy.rs force_replace_missing and               *)
(* build_upstream_request, registrations/api.rs refresh_runtime).          *)
ForceReplaceIsHonoured ==
    (sent # None /\ target.auth \in Static /\ target.force) => sent.cred # None \/ lost

(* The credential sent is of the kind the audit row names: an override's   *)
(* value only under agent_override, never a default's under an override    *)
(* that came with a value, a token only for an OAuth target and nothing    *)
(* for an authless one (apply_agent_credential_override, audit_details).   *)
CredentialIsAttributed ==
    sent # None =>
        /\ target.source = "registration_default" => sent.cred # "override"
        /\ target.value # None => sent.cred = target.value
        /\ target.auth = "oauth" <=> sent.cred = "token"
        /\ target.auth = "none" => sent.cred = None

Outcome == Event \ {"response_redaction"}
Contacted == {"timeout", "upstream_error", "proxy_request", "upstream_body_read_error",
              "response_content_type_disallowed", "response_size_exceeded"}
Outcomes == {i \in DOMAIN trail : trail[i].event \in Outcome}
Cuts == {i \in DOMAIN (trail \o task) : (trail \o task)[i].event = "response_size_exceeded"}

(* A request that nobody cut short is on record when its response ends:    *)
(* one outcome (and one more row for a stream that was capped), which says *)
(* whether the upstream was contacted, with the upstream's status and the  *)
(* codex rewrite exactly when the agent's body was changed (the record_    *)
(* helpers of proxy.rs). A call that Kamiwaza serves leaves no row, nor    *)
(* does one turned away for its handle.                                    *)
OneOutcome ==
    (pc = "done" /\ whole /\ task = <<>>) =>
        /\ Cardinality(Outcomes) =
                           IF reply \in {"foreign", "rejected"} THEN 0
                           ELSE IF stream # None /\ stream.marker # "none" THEN 2 ELSE 1
        /\ \A i \in Outcomes :
            /\ trail[i].event \in Contacted <=> sent # None
            /\ trail[i].event = "proxy_request" =>
                   /\ reply \in {"served", "cut"} /\ trail[i].status = resp.status
                   /\ trail[i].fixup <=> sent.body # req.body

(* A stream that ends delivered the whole response, or exactly the cap and *)
(* the marker with one audit row, however the response is chunked          *)
(* (SizeCappedStream::poll_next).                                          *)
CapIsExact ==
    (pc = "done" /\ whole /\ reply = "served" /\ stream # None) =>
        /\ stream.seen = IF Over THEN conf.cap ELSE resp.size
        /\ stream.marker = IF Over THEN "sent" ELSE "none"
        /\ Cardinality(Cuts) = IF Over THEN 1 ELSE 0

(* Every value has its type, and a request goes out with a client that     *)
(* building anew for its target could give: the target's timeouts and      *)
(* egress, or the bare client of a failed build, and in either case no     *)
(* redirects if the tool has a request_allowlist, whatever client an       *)
(* earlier request for another version of the tool left in the pool        *)
(* (client_pool.rs get_or_build_for).                                      *)
ProxyInv == TypeOK /\ (sent # None => sent.client \in BuildClient(target, ~conf.restricted))

WaitsForAgent == pc \in {"foreign", "body", "stream"}
WaitsUntimed == pc \in {"send", "buffer"} /\ sent.client.timeouts = None

(* A request comes to an end, with its spawned audit write, or waits for   *)
(* ever for the agent or, with the client of a failed build, for the       *)
(* upstream: no branch waits for anything else (proxy_tool_request). If    *)
(* the agent goes on sending and reading, only the latter is left.         *)
RequestReturns ==
    /\ pc # "idle" ~> (pc = "idle" \/ [](WaitsForAgent \/ WaitsUntimed))
    /\ WF_vars(Agent) => (pc # "idle" ~> (pc = "idle" \/ []WaitsUntimed))
============================================================================
