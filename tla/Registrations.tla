--------------------------- MODULE Registrations ---------------------------
(***************************************************************************)
(* The registrations table, the two in-memory maps the proxy reads in its  *)
(* place (the catalog and resolved_creds), the startup that fills the      *)
(* table from the seed catalog and config.tools, and the operator's PUT,   *)
(* DELETE and enable, each followed by refresh_runtime.                    *)
(*                                                                         *)
(* A handler's statements interleave with those of other handlers; the     *)
(* swap of the maps has no await in it but runs on a thread of its own, so *)
(* its loads and stores interleave too.  Startup has the table to itself.  *)
(***************************************************************************)
EXTENDS Naturals

CONSTANTS
    Name,           \* registration names
    Kind,           \* tool, model, infra
    Var,            \* secrets an auth block may refer to
    SetVar,         \* the ones that resolve (variable set and not empty)
    Sealed,         \* the ones only config.tools can refer to
    Authless,       \* AuthSpec::None
    MaxVersion,     \* bound: seed catalog versions 1..MaxVersion
    Seed,           \* the entries of each version
    ConfigTools,    \* the config.tools entries, by name
    Handler,        \* admin requests that may run at the same time
    MaxFault,       \* bound: crashes, cancelled requests, failed statements
    None

Version == 1..MaxVersion
Auth == Var \cup {Authless}
Row == [kind : Kind, auth : Auth, seed : BOOLEAN, disabled : BOOLEAN]
Request == [op : {"put", "delete", "enable"}, name : Name, kind : Kind, auth : Auth]
Phase == {"down", "seed", "legacy", "up"}
Pc == {"idle", "get", "write", "list", "merge", "store", "publish"}

ASSUME ConstantsAssumption ==
    /\ SetVar \subseteq Var /\ Sealed \subseteq Var /\ Authless \notin Var
    /\ Seed \in [Version -> [Name -> [kind : Kind, auth : Auth] \cup {None}]]
    /\ ConfigTools \in [Name -> Auth \cup {None}]
    /\ MaxFault \in Nat /\ "tool" \in Kind
    /\ None \notin Row

VARIABLES
    rows,       \* the registrations table
    version,    \* registrations_meta.seed_version
    image,      \* the version of the seed catalog installed
    phase,      \* how far startup has come
    todo,       \* names startup has still to visit
    catalog,    \* the proxy's copy of the table
    creds,      \* resolved_creds: the secret kept under each name
    pc, req,    \* the next step and the request of each handler
    seen,       \* the row each handler read first
    list,       \* the rows each handler read for the catalog
    snap,       \* the resolved_creds each handler loaded
    alone,      \* history: has no other request run beside this one?
    synced,     \* history: what filled the maps last, "startup" or a "refresh";
                \* "no" if the refresh failed or overlapped with another
    applied,    \* history: seed entries that were visited, by version
    faults

handlerVars == <<pc, req, seen, list, snap, alone>>
vars == <<rows, version, image, phase, todo, catalog, creds, handlerVars, synced,
          applied, faults>>

Table == [Name -> Row \cup {None}]
CredMap == [Name -> Var \cup {None}]

TypeOK ==
    /\ rows \in Table /\ catalog \in Table
    /\ version \in Version \cup {None} /\ image \in Version
    /\ phase \in Phase /\ todo \subseteq Name
    /\ creds \in CredMap
    /\ pc \in [Handler -> Pc]
    /\ req \in [Handler -> Request \cup {None}]
    /\ seen \in [Handler -> Row \cup {None}]
    /\ list \in [Handler -> Table \cup {None}]
    /\ snap \in [Handler -> CredMap \cup {None}]
    /\ alone \in [Handler -> BOOLEAN] /\ synced \in {"startup", "refresh", "no"}
    /\ applied \in [Version -> SUBSET Name]
    /\ faults \in 0..MaxFault

Init ==
    /\ rows = [n \in Name |-> None] /\ catalog = rows
    /\ version = None /\ image \in Version
    /\ phase = "down" /\ todo = {}
    /\ creds = [n \in Name |-> None]
    /\ pc = [h \in Handler |-> "idle"]
    /\ req = [h \in Handler |-> None]
    /\ seen = [h \in Handler |-> None]
    /\ list = [h \in Handler |-> None]
    /\ snap = [h \in Handler |-> None]
    /\ alone = [h \in Handler |-> FALSE] /\ synced = "no"
    /\ applied = [v \in Version |-> {}]
    /\ faults = 0

----------------------------------------------------------------------------
Enabled(r) == r # None /\ ~r.disabled

(* resolve_registration_creds_sync_env_only: what a table resolves to;     *)
(* names that resolve to nothing are left out.                             *)
Resolves(table) ==
    {n \in Name : Enabled(table[n]) /\ table[n].auth \in SetVar \ Sealed}

(* Faulty variant: entry-or-insert. *)
Overwrite_KeepsOld(old, table) ==
    [n \in Name |-> IF n \in Resolves(table) /\ old[n] = None
                    THEN table[n].auth ELSE old[n]]

(* refresh_runtime: new values overwrite the old ones, the rest stays. *)
Overwrite(old, table) ==
    [n \in Name |-> IF n \in Resolves(table) THEN table[n].auth ELSE old[n]]

(* At startup the values of config.tools are kept. *)
FillIn(old, table) ==
    [n \in Name |-> IF n \in Resolves(table) /\ old[n] = None
                    THEN table[n].auth ELSE old[n]]

(* resolve_tool_creds: what the secrets of config.tools resolve to. *)
ToolCreds ==
    [n \in Name |-> IF ConfigTools[n] \in SetVar THEN ConfigTools[n] ELSE None]

(* INSERT ... ON CONFLICT(name) DO UPDATE: every column but kind. *)
Upsert(n, r) ==
    rows' = [rows EXCEPT ![n] =
                IF @ = None THEN r ELSE [r EXCEPT !.kind = rows[n].kind]]

(* UPDATE ... SET disabled: no row is no error. *)
SetDisabled(n, flag) ==
    rows' = IF rows[n] = None THEN rows ELSE [rows EXCEPT ![n].disabled = flag]

Delete(n) == rows' = [rows EXCEPT ![n] = None]

----------------------------------------------------------------------------
(* Startup: build_admin_substrate. *)

AllFresh ==
    /\ pc' = [h \in Handler |-> "idle"]
    /\ req' = [h \in Handler |-> None]
    /\ seen' = [h \in Handler |-> None]
    /\ list' = [h \in Handler |-> None]
    /\ snap' = [h \in Handler |-> None]
    /\ alone' = [h \in Handler |-> FALSE]

(* Faulty variant: the version is recorded before the entries are applied. *)
Start_VersionFirst ==
    /\ phase = "down"
    /\ creds' = ToolCreds
    /\ IF version # None /\ version >= image
       THEN phase' = "legacy" /\ todo' = Name /\ UNCHANGED version
       ELSE phase' = "seed" /\ todo' = Name /\ version' = image
    /\ UNCHANGED <<rows, image, catalog, handlerVars, synced, applied, faults>>

(* config.tools is resolved, then the seed version compared: an installed  *)
(* catalog that is not newer is skipped.                                   *)
Start ==
    /\ phase = "down"
    /\ creds' = ToolCreds
    /\ phase' = IF version # None /\ version >= image THEN "legacy" ELSE "seed"
    /\ todo' = Name
    /\ UNCHANGED <<rows, version, image, catalog, handlerVars, synced, applied, faults>>

(* Faulty variant: an upgrade forgets that the operator disabled the row. *)
ApplyEntry_Enables(n) ==
    LET e == Seed[image][n] IN
    /\ phase = "seed" /\ n \in todo
    /\ \/ e = None /\ UNCHANGED rows
       \/ e # None /\ rows[n] # None /\ ~rows[n].seed /\ UNCHANGED rows
       \/ /\ e # None /\ (rows[n] # None => rows[n].seed /\ rows[n].kind = e.kind)
          /\ rows' = [rows EXCEPT ![n] = [kind |-> e.kind, auth |-> e.auth,
                                          seed |-> TRUE, disabled |-> FALSE]]
    /\ todo' = todo \ {n}
    /\ applied' = [applied EXCEPT ![image] = @ \cup {n}]
    /\ UNCHANGED <<version, image, phase, catalog, creds, handlerVars, synced, faults>>

(* One entry: rows the operator owns are left alone, rows of earlier seeds *)
(* are brought up to date and stay disabled if they were.                  *)
ApplyEntry(n) ==
    LET e == Seed[image][n] IN
    /\ phase = "seed" /\ n \in todo
    /\ \/ e = None /\ UNCHANGED rows
       \/ e # None /\ rows[n] # None /\ ~rows[n].seed /\ UNCHANGED rows
       \/ /\ e # None /\ rows[n] # None /\ rows[n].seed /\ rows[n].kind = e.kind
          /\ Upsert(n, [kind |-> e.kind, auth |-> e.auth, seed |-> TRUE,
                        disabled |-> rows[n].disabled])
       \/ /\ e # None /\ rows[n] = None
          /\ rows' = [rows EXCEPT ![n] = [kind |-> e.kind, auth |-> e.auth,
                                          seed |-> TRUE, disabled |-> FALSE]]
    /\ todo' = todo \ {n}
    /\ applied' = [applied EXCEPT ![image] = @ \cup {n}]
    /\ UNCHANGED <<version, image, phase, catalog, creds, handlerVars, synced, faults>>

(* A seed entry of another kind than its row aborts startup. *)
AbortStart(n) ==
    /\ phase = "seed" /\ n \in todo
    /\ Seed[image][n] # None /\ rows[n] # None /\ rows[n].seed
    /\ rows[n].kind # Seed[image][n].kind
    /\ phase' = "down" /\ todo' = {}
    /\ creds' = [m \in Name |-> None]
    /\ UNCHANGED <<rows, version, image, catalog, handlerVars, synced, applied, faults>>

SetSeedVersion ==
    /\ phase = "seed" /\ todo = {}
    /\ version' = image
    /\ phase' = "legacy" /\ todo' = Name
    /\ UNCHANGED <<rows, image, catalog, creds, handlerVars, synced, applied, faults>>

(* bootstrap_from_config_tools: names in the table are skipped, and so are *)
(* secrets an AuthSpec cannot express.                                     *)
MigrateTool(n) ==
    /\ phase = "legacy" /\ n \in todo
    /\ todo' = todo \ {n}
    /\ \/ /\ rows[n] = None /\ ConfigTools[n] # None /\ ConfigTools[n] \notin Sealed
          /\ rows' = [rows EXCEPT ![n] = [kind |-> "tool", auth |-> ConfigTools[n],
                                          seed |-> FALSE, disabled |-> FALSE]]
       \/ /\ rows[n] # None \/ ConfigTools[n] \in Sealed \cup {None}
          /\ UNCHANGED rows
    /\ UNCHANGED <<version, image, phase, catalog, creds, handlerVars, synced, applied,
                   faults>>

LoadCatalog ==
    /\ phase = "legacy" /\ todo = {}
    /\ catalog' = rows
    /\ creds' = FillIn(creds, rows)
    /\ phase' = "up" /\ synced' = "startup"
    /\ UNCHANGED <<rows, version, image, todo, handlerVars, applied, faults>>

----------------------------------------------------------------------------
(* The operator's requests. *)

Begin(h) ==
    /\ phase = "up" /\ pc[h] = "idle"
    /\ \E op \in {"put", "delete", "enable"}, n \in Name, k \in Kind,
          auth \in Auth \ Sealed :
        /\ op # "put" => auth = Authless
        /\ req' = [req EXCEPT ![h] = [op |-> op, name |-> n, kind |-> k, auth |-> auth]]
    /\ pc' = [pc EXCEPT ![h] = "get"]
    /\ alone' = [g \in Handler |-> g = h /\ \A f \in Handler : pc[f] = "idle"]
    /\ UNCHANGED <<rows, version, image, phase, todo, catalog, creds, seen, list, snap,
                   synced, applied, faults>>

End(h) ==
    /\ pc' = [pc EXCEPT ![h] = "idle"]
    /\ req' = [req EXCEPT ![h] = None]
    /\ seen' = [seen EXCEPT ![h] = None]
    /\ list' = [list EXCEPT ![h] = None]
    /\ snap' = [snap EXCEPT ![h] = None]
    /\ alone' = [alone EXCEPT ![h] = FALSE]

(* The row is read: wrong_kind, or unknown_name except for PUT, end the    *)
(* request.                                                                *)
Get(h) ==
    LET r == rows[req[h].name] IN
    /\ pc[h] = "get"
    /\ \/ /\ \/ r = None /\ req[h].op # "put"
             \/ r # None /\ r.kind # req[h].kind
          /\ End(h)
       \/ /\ r = None => req[h].op = "put"
          /\ r # None => r.kind = req[h].kind
          /\ seen' = [seen EXCEPT ![h] = r]
          /\ pc' = [pc EXCEPT ![h] = "write"]
          /\ UNCHANGED <<req, list, snap, alone>>
    /\ UNCHANGED <<rows, version, image, phase, todo, catalog, creds, synced, applied,
                   faults>>

(* The write, decided by the row read before.  A seed row is disabled, not *)
(* deleted; PUT makes the row operator-owned and keeps its disabled flag.  *)
Store(h) ==
    LET q == req[h] IN
    \/ /\ q.op = "put"
       /\ Upsert(q.name, [kind |-> q.kind, auth |-> q.auth, seed |-> FALSE,
                          disabled |-> seen[h] # None /\ seen[h].disabled])
    \/ q.op = "delete" /\ seen[h].seed /\ SetDisabled(q.name, TRUE)
    \/ q.op = "delete" /\ ~seen[h].seed /\ Delete(q.name)
    \/ q.op = "enable" /\ SetDisabled(q.name, FALSE)

(* Nothing of the request is used after it. *)
Write(h) ==
    /\ pc[h] = "write"
    /\ Store(h)
    /\ pc' = [pc EXCEPT ![h] = "list"]
    /\ req' = [req EXCEPT ![h] = None]
    /\ seen' = [seen EXCEPT ![h] = None]
    /\ UNCHANGED <<version, image, phase, todo, catalog, creds, list, snap, alone, synced,
                   applied, faults>>

(* refresh_runtime: Catalog::from_repo. *)
List(h) ==
    /\ pc[h] = "list"
    /\ list' = [list EXCEPT ![h] = rows]
    /\ pc' = [pc EXCEPT ![h] = IF Resolves(rows) = {} THEN "publish" ELSE "merge"]
    /\ UNCHANGED <<rows, version, image, phase, todo, catalog, creds, req, seen, snap,
                   alone, synced, applied, faults>>

Merge(h) ==
    /\ pc[h] = "merge"
    /\ snap' = [snap EXCEPT ![h] = creds]
    /\ pc' = [pc EXCEPT ![h] = "store"]
    /\ UNCHANGED <<rows, version, image, phase, todo, catalog, creds, req, seen, list,
                   alone, synced, applied, faults>>

StoreCreds(h) ==
    /\ pc[h] = "store"
    /\ creds' = Overwrite(snap[h], list[h])
    /\ pc' = [pc EXCEPT ![h] = "publish"]
    /\ UNCHANGED <<rows, version, image, phase, todo, catalog, req, seen, list, snap,
                   alone, synced, applied, faults>>

Publish(h) ==
    /\ pc[h] = "publish"
    /\ catalog' = list[h]
    /\ synced' = IF alone[h] THEN "refresh" ELSE "no"
    /\ End(h)
    /\ UNCHANGED <<rows, version, image, phase, todo, creds, applied, faults>>

----------------------------------------------------------------------------
(* Faults and upgrades. *)

Fault == faults < MaxFault /\ faults' = faults + 1

(* A statement fails, or the client goes away and the future is dropped at *)
(* an await: what was written stays, the maps are not refreshed.           *)
Interrupt(h) ==
    /\ pc[h] \in {"get", "write", "list"}
    /\ Fault
    /\ synced' = IF pc[h] = "list" THEN "no" ELSE synced
    /\ End(h)
    /\ UNCHANGED <<rows, version, image, phase, todo, catalog, creds, applied>>

(* The process dies, or a statement of startup fails. *)
Crash ==
    /\ phase # "down"
    /\ Fault
    /\ phase' = "down" /\ todo' = {}
    /\ catalog' = [n \in Name |-> None]
    /\ creds' = [n \in Name |-> None]
    /\ synced' = "no"
    /\ AllFresh
    /\ UNCHANGED <<rows, version, image, applied>>

(* Another image, newer or older, is installed while the daemon is down. *)
Upgrade ==
    /\ phase = "down"
    /\ image' \in Version \ {image}
    /\ UNCHANGED <<rows, version, phase, todo, catalog, creds, handlerVars, synced,
                   applied, faults>>

Startup ==
    \/ Start \/ SetSeedVersion \/ LoadCatalog
    \/ \E n \in Name : ApplyEntry(n) \/ AbortStart(n) \/ MigrateTool(n)

HandlerStep(h) ==
    Get(h) \/ Write(h) \/ List(h) \/ Merge(h) \/ StoreCreds(h) \/ Publish(h)

Next ==
    \/ Startup
    \/ \E h \in Handler : Begin(h) \/ HandlerStep(h) \/ Interrupt(h)
    \/ Crash \/ Upgrade

Spec == Init /\ [][Next]_vars

----------------------------------------------------------------------------
(* Properties. *)

Quiet == phase = "up" /\ \A h \in Handler : pc[h] = "idle"

(* seed_version is a promise that every entry of that version was looked   *)
(* at, wherever startup was interrupted: the version is written last.      *)
SeedIsComplete == version # None => applied[version] = Name

(* Every value has its type and the recorded version is a complete one:    *)
(* what each startup finds, wherever the last one was interrupted.         *)
SeedInv == TypeOK /\ SeedIsComplete

(* What the operator did stays. Restarts, upgrades and downgrades do not   *)
(* touch rows the operator owns, no row disappears, and a disabled seed    *)
(* row stays disabled ("sticky across image upgrades", api.rs). "Preserves *)
(* disabled flag - operator uses DELETE (or set_disabled) to flip it"      *)
(* (op_put): a request other than enable enables a row only when it read   *)
(* the row before another request disabled it.                             *)
OperatorStateStays ==
    [][\A n \in Name : rows[n] # None =>
        /\ phase # "up" => /\ rows'[n] # None /\ rows'[n].disabled = rows[n].disabled
                           /\ ~rows[n].seed => rows'[n] = rows[n]
        /\ (rows[n].disabled /\ rows'[n] # None /\ ~rows'[n].disabled) =>
                \E h \in Handler : /\ pc[h] = "write" /\ req[h].name = n
                                   /\ req[h].op = "enable" \/ ~alone[h]]_vars

(* After every admin write the proxy sees the new state without a restart  *)
(* (AdminRegistrationsState); a refresh that failed, or overlapped with    *)
(* another, is made up for by the next one. The secret kept for an enabled *)
(* row is the one the row names, if it resolves (refresh_runtime); between *)
(* a start and the next refresh it is the one config.tools names, if there *)
(* is one (daemon.rs, or_insert).                                          *)
ProxyFollowsTable ==
    Quiet =>
        /\ synced # "no" => catalog = rows
        /\ \A n \in Resolves(rows) :
            /\ synced = "refresh" => creds[n] = rows[n].auth
            /\ synced = "startup" =>
                    creds[n] = IF ToolCreds[n] # None THEN ToolCreds[n] ELSE rows[n].auth

(* "Called after every successful admin write so the proxy hot path sees   *)
(* the new state immediately" (refresh_runtime): once all requests are     *)
(* answered and none failed, the proxy works on the table's contents.      *)
WritesAreVisible == Quiet /\ faults = 0 => catalog = rows

============================================================================
