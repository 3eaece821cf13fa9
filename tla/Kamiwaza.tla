------------------------------ MODULE Kamiwaza ------------------------------
(***************************************************************************)
(* The tools of a Kamiwaza cluster: discovery of the extensions and their  *)
(* MCP tools, one at a time behind the cache's mutex, the cached catalog   *)
(* and its time to live, and the calls of discovered tools. Every probe    *)
(* and every call opens an MCP session at the extension and closes it.     *)
(*                                                                         *)
(* An extension stands for its tool. The platform starts and stops         *)
(* extensions at any time; requests fail and agents disconnect. A step     *)
(* ends where the code awaits the platform, an extension or the mutex.     *)
(***************************************************************************)
EXTENDS Naturals, Sequences, FiniteSets, Functions

CONSTANTS
    Req,        \* requests: a call of a tool or a listing
    Ext,        \* extensions the configuration allows
    Conc,       \* discovery_concurrency
    TTL,        \* catalog_ttl_seconds
    MaxTime,    \* bound on the clock
    MaxFault,   \* bound: disconnections
    None

ASSUME ConstantsAssumption ==
    /\ Conc \in Nat /\ TTL \in Nat /\ MaxTime \in Nat /\ MaxFault \in Nat
    /\ None \notin Req \cup Ext \cup [tools : SUBSET Ext, expires : Nat]

VARIABLES
    now,
    up,         \* extensions that run and are ready
    cache,      \* CATALOG_CACHE: [tools, expires], or None
    queue,      \* the mutex, first come first served: its head holds it
    pc,
    want,       \* the tool r calls, once it is found in the catalog, or None
    tools,      \* the tools r was given
    stage,      \* of each extension in the discovery the holder runs
    found,      \* extensions whose tools it has
    open,       \* MCP sessions that a task here is to close: [by, ext, role]
    closing,    \* requests whose spawned close has not run
    orphans,    \* extensions with a session that nobody here will close
    faults

cacheVars == <<cache, queue>>
discovery == <<stage, found>>
sessions == <<open, closing, orphans>>
vars == <<now, up, cacheVars, pc, want, tools, discovery, sessions, faults>>

Session == [by : Req, ext : Ext, role : {"probe", "call"}]
S(r, e, role) == [by |-> r, ext |-> e, role |-> role]
Stages == {"none", "wait", "init", "notify", "list", "close", "done"}
Running == {"init", "notify", "list", "close"}

AtLeastOne(n) == IF n > 1 THEN n ELSE 1

TypeOK ==
    /\ now \in 0..MaxTime /\ up \subseteq Ext
    /\ cache = None \/ cache \in [tools : SUBSET Ext, expires : Nat]
    /\ queue \in Seq(Req) /\ IsInjective(queue)
    /\ pc \in [Req -> {"idle", "queued", "fetch", "probe", "have", "body", "init",
                       "notify", "call"}]
    /\ want \in [Req -> Ext \cup {None}] /\ tools \in [Req -> SUBSET Ext]
    /\ stage \in [Ext -> Stages] /\ found \subseteq Ext
    /\ open \subseteq Session /\ closing \subseteq Req /\ orphans \subseteq Ext
    /\ faults \in 0..MaxFault

Init ==
    /\ now = 0 /\ up \in SUBSET Ext /\ cache = None /\ queue = <<>>
    /\ pc = [r \in Req |-> "idle"] /\ want = [r \in Req |-> None]
    /\ tools = [r \in Req |-> {}]
    /\ stage = [e \in Ext |-> "none"] /\ found = {}
    /\ open = {} /\ closing = {} /\ orphans = {} /\ faults = 0

Goto(r, label) == pc' = [pc EXCEPT ![r] = label]
Fault == faults < MaxFault /\ faults' = faults + 1
Holds(r) == queue # <<>> /\ Head(queue) = r
End(r) == /\ Goto(r, "idle")
          /\ want' = [want EXCEPT ![r] = None] /\ tools' = [tools EXCEPT ![r] = {}]

(* The queue when r gives up its place, or the guard, if it has one. *)
At(r) == CHOOSE i \in DOMAIN queue : queue[i] = r
Without(r) ==
    IF r \in Range(queue)
    THEN [i \in 1..(Len(queue) - 1) |-> queue[IF i < At(r) THEN i ELSE i + 1]]
    ELSE queue

Mine(r) == {s \in open : s.by = r}

(* The sessions of M, those still at their extensions, are left there. *)
Leave(M) ==
    /\ open' = open \ M
    /\ orphans' = orphans \cup {s.ext : s \in M \cap open}

(* close_mcp_session, best effort: whether the extension heard it is       *)
(* ignored.                                                                *)
Close(M) ==
    \/ open' = open \ M /\ UNCHANGED orphans
    \/ Leave(M)

(* An initialize whose reply is lost, is refused by parse_mcp_response_body *)
(* or carries an error: the extension may have opened a session, whose id  *)
(* nobody here has.                                                        *)
MayOpen(e) == orphans' \in {orphans, orphans \cup ({e} \cap up)}

----------------------------------------------------------------------------
(* discover_tools. *)

(* A tool call that found no registration, or the tool listing. A name of  *)
(* Req is used again once the close its last request spawned has run.      *)
Ask(r) ==
    /\ pc[r] = "idle" /\ r \notin closing
    /\ queue' = Append(queue, r)
    /\ Goto(r, "queued")
    /\ UNCHANGED <<now, up, cache, want, tools, discovery, sessions, faults>>

Valid == cache # None /\ cache.expires > now

(* The lock is got: a catalog within its time to live is returned. *)
Hit(r) ==
    /\ pc[r] = "queued" /\ Holds(r) /\ Valid
    /\ tools' = [tools EXCEPT ![r] = cache.tools]
    /\ queue' = Without(r)
    /\ Goto(r, "have")
    /\ UNCHANGED <<now, up, cache, want, discovery, sessions, faults>>

(* Faulty variant: the guard is dropped before the discovery. *)
Miss_Unlocks(r) ==
    /\ pc[r] = "queued" /\ Holds(r) /\ ~Valid
    /\ queue' = Without(r)
    /\ Goto(r, "fetch")
    /\ UNCHANGED <<now, up, cache, want, tools, discovery, sessions, faults>>

(* Otherwise the holder discovers, with the lock held. *)
Miss(r) ==
    /\ pc[r] = "queued" /\ Holds(r) /\ ~Valid
    /\ Goto(r, "fetch")
    /\ UNCHANGED <<now, up, cacheVars, want, tools, discovery, sessions, faults>>

(* extension_is_allowed, mcp_url_for_extension: running, ready, let in by  *)
(* the configuration (as all of Ext are) and with an endpoint.             *)
Targets == up

(* fetch_extensions: the extensions to probe, or an error that ends the     *)
(* request and leaves the cache as it was.                                 *)
Fetch(r) ==
    /\ pc[r] = "fetch"
    /\ stage' = [e \in Ext |-> IF e \in Targets THEN "wait" ELSE "none"]
    /\ found' = {}
    /\ Goto(r, "probe")
    /\ UNCHANGED <<now, up, cacheVars, want, tools, sessions, faults>>
FetchFails(r) ==
    /\ pc[r] = "fetch"
    /\ queue' = Without(r)
    /\ End(r)
    /\ UNCHANGED <<now, up, cache, discovery, sessions, faults>>

----------------------------------------------------------------------------
(* list_mcp_tools for one extension, Conc of them at a time. *)

Probe(r, e, from, to) ==
    /\ pc[r] = "probe" /\ stage[e] = from
    /\ stage' = [stage EXCEPT ![e] = to]
    /\ UNCHANGED <<now, up, cacheVars, pc, want, tools, closing>>

ProbeStart(r, e) ==
    /\ Cardinality({f \in Ext : stage[f] \in Running}) < AtLeastOne(Conc)
    /\ Probe(r, e, "wait", "init")
    /\ UNCHANGED <<found, open, orphans, faults>>

(* initialize: the extension opens a session, or the probe has failed. *)
ProbeInit(r, e) ==
    /\ e \in up /\ Probe(r, e, "init", "notify")
    /\ open' = open \cup {S(r, e, "probe")}
    /\ UNCHANGED <<found, orphans, faults>>
ProbeInitFails(r, e) ==
    /\ Probe(r, e, "init", "done")
    /\ MayOpen(e)
    /\ UNCHANGED <<found, open, faults>>

(* notifications/initialized: an error returns at once (the ? operator),   *)
(* and the session is not closed.                                          *)
ProbeNotify(r, e) ==
    /\ e \in up /\ Probe(r, e, "notify", "list")
    /\ UNCHANGED <<found, open, orphans, faults>>
ProbeNotifyFails(r, e) ==
    /\ Probe(r, e, "notify", "done")
    /\ Leave({S(r, e, "probe")})
    /\ UNCHANGED <<found, faults>>

(* tools/list; the session is closed whatever came of it. *)
ProbeList(r, e) ==
    /\ Probe(r, e, "list", "close")
    /\ \/ e \in up /\ found' = found \cup {e}
       \/ UNCHANGED found
    /\ UNCHANGED <<open, orphans, faults>>

ProbeClose(r, e) ==
    /\ Probe(r, e, "close", "done")
    /\ Close({S(r, e, "probe")})
    /\ UNCHANGED <<found, faults>>

(* Faulty variant: the catalog is stored with the first answer. *)
Collect_First(r) ==
    /\ pc[r] = "probe" /\ (found # {} \/ \A e \in Ext : stage[e] \in {"none", "done"})
    /\ cache' = [tools |-> found, expires |-> now + AtLeastOne(TTL)]
    /\ tools' = [tools EXCEPT ![r] = found]
    /\ queue' = Without(r)
    /\ stage' = [e \in Ext |-> "none"] /\ found' = {}
    /\ Goto(r, "have")
    /\ UNCHANGED <<now, up, want, sessions, faults>>

(* Every probe has ended: the catalog is stored, its time to live counted  *)
(* from here, and the lock given up.                                       *)
Collect(r) ==
    /\ pc[r] = "probe" /\ \A e \in Ext : stage[e] \in {"none", "done"}
    /\ cache' = [tools |-> found, expires |-> now + AtLeastOne(TTL)]
    /\ tools' = [tools EXCEPT ![r] = found]
    /\ queue' = Without(r)
    /\ stage' = [e \in Ext |-> "none"] /\ found' = {}
    /\ Goto(r, "have")
    /\ UNCHANGED <<now, up, want, sessions, faults>>

----------------------------------------------------------------------------
(* handle_proxy_call and invoke_tool. *)

(* A call finds its tool in the catalog; a listing is complete, and so is  *)
(* a call of a tool that is not there.                                     *)
Resolve(r) ==
    /\ pc[r] = "have"
    /\ \/ /\ \E e \in tools[r] : want' = [want EXCEPT ![r] = e]
          /\ tools' = [tools EXCEPT ![r] = {}]
          /\ Goto(r, "body")
       \/ End(r)
    /\ UNCHANGED <<now, up, cacheVars, discovery, sessions, faults>>

(* The agent's body, waited for without a timeout, is read; if it cannot   *)
(* be, or is no JSON object of arguments, the call is refused.             *)
ReadBody(r) ==
    /\ pc[r] = "body"
    /\ \/ Goto(r, "init") /\ UNCHANGED <<want, tools>>
       \/ End(r)
    /\ UNCHANGED <<now, up, cacheVars, discovery, sessions, faults>>

(* build_delegation_header: the configuration asks for an identity or a    *)
(* signing secret that is not there.                                       *)
NoDelegation(r) ==
    /\ pc[r] = "init"
    /\ End(r)
    /\ UNCHANGED <<now, up, cacheVars, discovery, sessions, faults>>

(* initialize_session for the call. *)
CallInit(r) ==
    /\ pc[r] = "init"
    /\ \/ /\ want[r] \in up /\ Goto(r, "notify")
          /\ open' = open \cup {S(r, want[r], "call")}
          /\ UNCHANGED <<want, tools, orphans>>
       \/ End(r) /\ MayOpen(want[r]) /\ UNCHANGED open
    /\ UNCHANGED <<now, up, cacheVars, discovery, closing, faults>>
CallNotify(r) ==
    /\ pc[r] = "notify" /\ want[r] \in up
    /\ Goto(r, "call")
    /\ UNCHANGED <<now, up, cacheVars, want, tools, discovery, sessions, faults>>
CallNotifyFails(r) ==
    /\ pc[r] = "notify"
    /\ Leave(Mine(r))
    /\ End(r)
    /\ UNCHANGED <<now, up, cacheVars, discovery, closing, faults>>

(* Faulty variant: the session is closed only after a successful call. *)
Call_OnSuccess(r) ==
    /\ pc[r] = "call"
    /\ \/ closing' = closing \cup {r}
       \/ UNCHANGED closing
    /\ End(r)
    /\ UNCHANGED <<now, up, cacheVars, discovery, open, orphans, faults>>

(* tools/call: whatever its result, a spawned task closes the session. *)
Call(r) ==
    /\ pc[r] = "call"
    /\ closing' = closing \cup {r}
    /\ End(r)
    /\ UNCHANGED <<now, up, cacheVars, discovery, open, orphans, faults>>

(* The spawned close_mcp_session. *)
CloseTask(r) ==
    /\ r \in closing
    /\ Close(Mine(r)) /\ closing' = closing \ {r}
    /\ UNCHANGED <<now, up, cacheVars, pc, want, tools, discovery, faults>>

(* The sessions of a request that is dropped stay at the extensions, and   *)
(* so may those of an initialize that is under way; a close that is under  *)
(* way may be heard.                                                       *)
Opening(r) == {e \in up : \/ pc[r] = "probe" /\ stage[e] = "init"
                          \/ pc[r] = "init" /\ want[r] = e}
Abandon(r) ==
    \E H \in SUBSET {s \in Mine(r) : s.role = "probe" /\ stage[s.ext] = "close"},
       X \in SUBSET Opening(r) :
        /\ open' = open \ Mine(r)
        /\ orphans' = orphans \cup {s.ext : s \in Mine(r) \ H} \cup X

(* Faulty variant: a waiter that is dropped stays in the mutex's queue. *)
Cancel_StaysQueued(r) ==
    /\ pc[r] # "idle" /\ Fault
    /\ IF pc[r] = "probe" THEN stage' = [e \in Ext |-> "none"] /\ found' = {}
       ELSE UNCHANGED discovery
    /\ Abandon(r)
    /\ End(r)
    /\ UNCHANGED <<now, up, cacheVars, closing>>

(* The agent disconnects and the handler is dropped, with its place in the *)
(* queue or its guard and the discovery it runs. A spawned close lives on. *)
Cancel(r) ==
    /\ pc[r] # "idle" /\ Fault
    /\ queue' = Without(r)
    /\ IF pc[r] = "probe" THEN stage' = [e \in Ext |-> "none"] /\ found' = {}
       ELSE UNCHANGED discovery
    /\ Abandon(r)
    /\ End(r)
    /\ UNCHANGED <<now, up, cache, closing>>

----------------------------------------------------------------------------
(* The platform and time. *)

Start(e) ==
    /\ e \notin up /\ up' = up \cup {e}
    /\ UNCHANGED <<now, cacheVars, pc, want, tools, discovery, sessions, faults>>

(* An extension that stops forgets its sessions. *)
Stop(e) ==
    /\ e \in up /\ up' = up \ {e}
    /\ open' = {s \in open : s.ext # e} /\ orphans' = orphans \ {e}
    /\ UNCHANGED <<now, cacheVars, pc, want, tools, discovery, closing, faults>>

Tick ==
    /\ now < MaxTime /\ now' = now + 1
    /\ UNCHANGED <<up, cacheVars, pc, want, tools, discovery, sessions, faults>>

----------------------------------------------------------------------------
ProbeStep(r, e) ==
    \/ ProbeStart(r, e) \/ ProbeInit(r, e) \/ ProbeInitFails(r, e) \/ ProbeNotify(r, e)
    \/ ProbeNotifyFails(r, e) \/ ProbeList(r, e) \/ ProbeClose(r, e)

Step(r) ==
    \/ Hit(r) \/ Miss(r) \/ Fetch(r) \/ FetchFails(r) \/ Collect(r)
    \/ \E e \in Ext : ProbeStep(r, e)
    \/ Resolve(r) \/ NoDelegation(r) \/ CallInit(r) \/ CallNotify(r)
    \/ CallNotifyFails(r) \/ Call(r)

Next ==
    \/ \E r \in Req : Ask(r) \/ Step(r) \/ ReadBody(r) \/ CloseTask(r) \/ Cancel(r)
    \/ \E e \in Ext : Start(e) \/ Stop(e)
    \/ Tick

(* Every HTTP call ends by its timeout, the mutex is handed on in order    *)
(* and spawned tasks are run. The agent need not send its body.            *)
Spec == Init /\ [][Next]_vars
        /\ \A r \in Req : WF_vars(Step(r)) /\ WF_vars(CloseTask(r))

----------------------------------------------------------------------------
(* Properties. *)

(* One discovery at a time, however many requests find the catalog gone or *)
(* expired (kamiwaza.rs discover_tools, "single-flight, behind the mutex").*)
SingleFlight == Cardinality({r \in Req : pc[r] \in {"fetch", "probe"}}) <= 1

(* The sessions a discovery holds open at the extensions never exceed the  *)
(* configured concurrency (discover_tools_uncached, buffer_unordered).     *)
FanOutIsBounded == Cardinality({s \in open : s.role = "probe"}) <= AtLeastOne(Conc)

(* Every value has its type, and whatever fails or goes away there is one  *)
(* discovery at most, within its fan-out.                                  *)
DiscoveryInv == TypeOK /\ SingleFlight /\ FanOutIsBounded

(* A catalog is stored only after every listed extension was probed to its *)
(* end, and it holds what they answered; no other outcome of a discovery,  *)
(* an error or a dropped request, changes the cache. Nobody is given one   *)
(* whose time to live has run out, not even in the instant it does         *)
(* (discover_tools).                                                       *)
CatalogIsSound ==
    [][/\ cache' # cache => /\ \A e \in Ext : stage[e] \in {"none", "done"}
                            /\ cache'.tools = found
       /\ \A r \in Req : (pc[r] # "have" /\ pc'[r] = "have") =>
            cache' # None /\ cache'.expires > now /\ tools'[r] = cache'.tools]_vars

(* Every request is answered, or waits for its agent's body: a holder that *)
(* fails or goes away passes the lock on, and who waits for an agent does  *)
(* not hold it (discover_tools, handle_proxy_call).                        *)
EveryoneIsAnswered ==
    \A r \in Req :
        pc[r] # "idle" ~> pc[r] = "idle" \/ (pc[r] = "body" /\ r \notin Range(queue))

(* Is a close of a session at e under way, or its handshake? *)
Shaking(e) ==
    \/ stage[e] \in {"init", "notify"}
    \/ \E r \in Req : pc[r] \in {"init", "notify"} /\ want[r] = e
Closing(e) == stage[e] = "close" \/ \E r \in closing : S(r, e, "call") \in open

(* A session is left at an extension only when its handshake fails, its    *)
(* close is not heard, or the agent goes away.                             *)
LeftStep == \A e \in orphans' \ orphans : Shaking(e) \/ Closing(e) \/ faults' # faults

(* A request to close follows every session whose handshake went through,  *)
(* however the probe or the call ended, and no other session is left       *)
(* behind (list_mcp_tools, invoke_tool).                                   *)
SessionsAreClosed ==
    /\ \A r \in Req : Mine(r) # {} ~> Mine(r) = {}
    /\ [][LeftStep]_vars
============================================================================
