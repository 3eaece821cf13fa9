----------------------- MODULE Registrations_proofs -----------------------
(***************************************************************************)
(* The theorems about Registrations, for any names, secrets, seed catalogs *)
(* and numbers of requests and faults: a recorded seed version is a        *)
(* complete one, the proxy's maps follow the table, and what the operator  *)
(* did stays.                                                              *)
(***************************************************************************)
EXTENDS Registrations, TLAPS

(* A handler has the locals its label needs, and works only when startup   *)
(* is over.                                                                *)
Locals(h) ==
    /\ pc[h] # "idle" => phase = "up"
    /\ pc[h] \in {"get", "write"} => req[h] \in Request
    /\ pc[h] \in {"merge", "store", "publish"} => list[h] \in Table
    /\ pc[h] = "store" => snap[h] \in CredMap

(* Startup has the secrets of config.tools, and while it applies the seed  *)
(* catalog every entry was visited or is still to be.                      *)
StartupInv ==
    /\ phase \in {"seed", "legacy"} => creds = ToolCreds
    /\ phase = "seed" => Name \subseteq applied[image] \cup todo

(* A request that runs alone has read what the table holds. *)
AloneInv ==
    \A h \in Handler : alone[h] =>
        /\ pc[h] # "idle" /\ \A g \in Handler \ {h} : pc[g] = "idle"
        /\ pc[h] = "write" => seen[h] = rows[req[h].name]
        /\ pc[h] \in {"merge", "store", "publish"} => list[h] = rows
        /\ pc[h] = "publish" => \A n \in Resolves(rows) : creds[n] = rows[n].auth

(* The maps are as the last refresh, or startup, should have left them. *)
InSync ==
    /\ catalog = rows
    /\ \A n \in Resolves(rows) :
        /\ synced = "refresh" => creds[n] = rows[n].auth
        /\ synced = "startup" =>
                creds[n] = IF ToolCreds[n] # None THEN ToolCreds[n] ELSE rows[n].auth

(* A request has written and not refreshed the maps. *)
Pending(h) == pc[h] \in {"list", "merge", "store", "publish"}

(* Until the next write they are. *)
SettledInv ==
    phase = "up" /\ synced # "no" /\ (\A h \in Handler : ~Pending(h)) => InSync

TableInv ==
    /\ TypeOK /\ (\A h \in Handler : Locals(h))
    /\ StartupInv /\ SeedIsComplete /\ AloneInv /\ SettledInv

----------------------------------------------------------------------------
(* Lemmas about the operators. *)

Same(g) ==
    /\ pc'[g] = pc[g] /\ req'[g] = req[g] /\ seen'[g] = seen[g]
    /\ list'[g] = list[g] /\ snap'[g] = snap[g]

HandlerTypes ==
    /\ pc \in [Handler -> Pc]
    /\ req \in [Handler -> Request \cup {None}]
    /\ seen \in [Handler -> Row \cup {None}]
    /\ list \in [Handler -> Table \cup {None}]
    /\ snap \in [Handler -> CredMap \cup {None}]
    /\ alone \in [Handler -> BOOLEAN]

(* A request that ends leaves no locals; nobody else's change. *)
LEMMA EndEffect ==
    ASSUME TypeOK, NEW h \in Handler, End(h)
    PROVE  /\ HandlerTypes' /\ pc'[h] = "idle" /\ alone'[h] = FALSE
           /\ \A g \in Handler \ {h} : Same(g) /\ alone'[g] = alone[g]
BY Zenon DEF TypeOK, HandlerTypes, End, Same, Pc

(* What a table resolves to are secrets. *)
LEMMA ResolvesType ==
    ASSUME NEW table \in Table, NEW n \in Resolves(table)
    PROVE  n \in Name /\ table[n] # None /\ table[n].auth \in Var
BY ConstantsAssumption, Zenon DEF Resolves, Enabled

(* A refresh gives every name that resolves the secret its row names. *)
LEMMA OverwriteEffect ==
    ASSUME NEW table \in Table, NEW old \in CredMap
    PROVE  /\ Overwrite(old, table) \in CredMap
           /\ \A n \in Resolves(table) : Overwrite(old, table)[n] = table[n].auth
BY ResolvesType, Zenon DEF Overwrite, CredMap

(* Startup leaves the names of config.tools their secrets. *)
LEMMA FillInEffect ==
    ASSUME NEW table \in Table, NEW old \in CredMap
    PROVE  /\ FillIn(old, table) \in CredMap
           /\ \A n \in Resolves(table) : FillIn(old, table)[n] =
                IF old[n] # None THEN old[n] ELSE table[n].auth
BY ResolvesType, Zenon DEF FillIn, CredMap

LEMMA ToolCredsType == ToolCreds \in CredMap
BY ConstantsAssumption, Zenon DEF ToolCreds, CredMap

(* The statements change at most the row of one name, and INSERT ... ON    *)
(* CONFLICT and UPDATE leave a row.                                        *)
LEMMA UpsertEffect ==
    ASSUME TypeOK, NEW n \in Name, NEW r \in Row, Upsert(n, r)
    PROVE  /\ rows' \in Table /\ rows'[n] # None
           /\ rows'[n].disabled = r.disabled /\ rows'[n].seed = r.seed
           /\ \A m \in Name \ {n} : rows'[m] = rows[m]
<1>1. rows'[n] \in Row /\ rows'[n].disabled = r.disabled /\ rows'[n].seed = r.seed
    <2>1. CASE rows[n] = None
        BY <2>1, Zenon DEF TypeOK, Table, Upsert
    <2>2. CASE rows[n] # None
        <3>1. rows'[n] = [r EXCEPT !.kind = rows[n].kind] /\ rows[n].kind \in Kind
            BY <2>2 DEF TypeOK, Table, Upsert, Row
        <3> QED
            BY <3>1 DEF Row
    <2> QED
        BY <2>1, <2>2
<1> QED
    BY <1>1, ConstantsAssumption, Zenon DEF TypeOK, Table, Upsert

LEMMA SetDisabledEffect ==
    ASSUME TypeOK, NEW n \in Name, NEW flag \in BOOLEAN, SetDisabled(n, flag)
    PROVE  /\ rows' \in Table /\ (rows'[n] = None <=> rows[n] = None)
           /\ rows[n] # None => rows'[n].disabled = flag
           /\ \A m \in Name \ {n} : rows'[m] = rows[m]
<1>1. CASE rows[n] = None
    BY <1>1, Zenon DEF TypeOK, SetDisabled
<1>2. CASE rows[n] # None
    <2>1. rows[n] \in Row
        BY <1>2, Zenon DEF TypeOK, Table
    <2>2. [rows[n] EXCEPT !.disabled = flag] \in Row
        BY <2>1 DEF Row
    <2>3. [rows[n] EXCEPT !.disabled = flag].disabled = flag
        BY <2>1, Zenon DEF Row
    <2>4. rows'[n] = [rows[n] EXCEPT !.disabled = flag]
          /\ rows' = [rows EXCEPT ![n] = [rows[n] EXCEPT !.disabled = flag]]
        BY <1>2, Zenon DEF TypeOK, Table, SetDisabled
    <2> QED
        BY <1>2, <2>2, <2>3, <2>4, ConstantsAssumption, Zenon DEF TypeOK, Table
<1> QED
    BY <1>1, <1>2

(* A new row of the seed catalog or of config.tools. *)
LEMMA InsertEffect ==
    ASSUME TypeOK, NEW n \in Name, NEW k \in Kind, NEW a \in Auth, NEW s \in BOOLEAN,
           rows' = [rows EXCEPT ![n] = [kind |-> k, auth |-> a, seed |-> s,
                                        disabled |-> FALSE]]
    PROVE  rows' \in Table /\ \A m \in Name \ {n} : rows'[m] = rows[m]
<1>1. [kind |-> k, auth |-> a, seed |-> s, disabled |-> FALSE] \in Row
    BY DEF Row
<1> QED
    BY <1>1, Zenon DEF TypeOK, Table

(* What startup may do to a row: an entry of the seed catalog, or of       *)
(* config.tools, keeps the disabled flag of a row that is there, and all   *)
(* of a row that the operator owns.                                        *)
Spared(m) ==
    rows[m] # None => /\ rows'[m] # None /\ rows'[m].disabled = rows[m].disabled
                      /\ ~rows[m].seed => rows'[m] = rows[m]

LEMMA ApplyEffect ==
    ASSUME TypeOK, NEW n \in Name, ApplyEntry(n)
    PROVE  rows' \in Table /\ \A m \in Name : Spared(m)
<1> DEFINE e == Seed[image][n]
<1>1. e \in [kind : Kind, auth : Auth] \cup {None}
    BY ConstantsAssumption DEF TypeOK
<1>2. CASE rows' = rows
    BY <1>2, Zenon DEF TypeOK, Spared
<1>3. CASE /\ e # None /\ rows[n] # None /\ rows[n].seed
           /\ Upsert(n, [kind |-> e.kind, auth |-> e.auth, seed |-> TRUE,
                         disabled |-> rows[n].disabled])
    <2> DEFINE r == [kind |-> e.kind, auth |-> e.auth, seed |-> TRUE,
                     disabled |-> rows[n].disabled]
    <2>1. rows[n].disabled \in BOOLEAN
        BY <1>3 DEF TypeOK, Table, Row
    <2>2. e.kind \in Kind /\ e.auth \in Auth
        BY <1>1, <1>3
    <2>3. r \in Row /\ r.disabled = rows[n].disabled
        BY <2>1, <2>2 DEF Row
    <2> QED
        BY <1>3, <2>3, UpsertEffect, Zenon DEF Spared
<1>4. CASE /\ e # None /\ rows[n] = None
           /\ rows' = [rows EXCEPT ![n] = [kind |-> e.kind, auth |-> e.auth, seed |-> TRUE,
                                           disabled |-> FALSE]]
    <2>1. e.kind \in Kind /\ e.auth \in Auth
        BY <1>1, <1>4
    <2> QED
        BY <1>4, <2>1, InsertEffect, Zenon DEF Spared
<1> QED
    BY <1>2, <1>3, <1>4, Zenon DEF ApplyEntry

LEMMA MigrateEffect ==
    ASSUME TypeOK, NEW n \in Name, MigrateTool(n)
    PROVE  rows' \in Table /\ \A m \in Name : Spared(m)
<1>1. CASE rows' = rows
    BY <1>1, Zenon DEF TypeOK, Spared
<1>2. CASE /\ rows[n] = None /\ ConfigTools[n] # None
           /\ rows' = [rows EXCEPT ![n] = [kind |-> "tool", auth |-> ConfigTools[n],
                                           seed |-> FALSE, disabled |-> FALSE]]
    <2>1. ConfigTools[n] \in Auth /\ "tool" \in Kind
        BY <1>2, ConstantsAssumption, Zenon
    <2> QED
        BY <1>2, <2>1, InsertEffect, Zenon DEF Spared
<1> QED
    BY <1>1, <1>2, Zenon DEF MigrateTool

(* A request changes its own row only, and enables it only if it is meant  *)
(* to or did not find it disabled.                                         *)
LEMMA StoreEffect ==
    ASSUME TypeOK, NEW h \in Handler, Locals(h), pc[h] = "write", Store(h)
    PROVE  /\ rows' \in Table /\ req[h].name \in Name
           /\ \A m \in Name \ {req[h].name} : rows'[m] = rows[m]
           /\ (rows'[req[h].name] # None /\ ~rows'[req[h].name].disabled) =>
                  req[h].op = "enable" \/ ~(seen[h] # None /\ seen[h].disabled)
<1> DEFINE q == req[h]
<1>1. q.name \in Name /\ q.kind \in Kind /\ q.auth \in Auth
    BY DEF Locals, Request
<1>2. CASE /\ q.op = "put"
           /\ Upsert(q.name, [kind |-> q.kind, auth |-> q.auth, seed |-> FALSE,
                              disabled |-> seen[h] # None /\ seen[h].disabled])
    <2> DEFINE b == seen[h] # None /\ seen[h].disabled
               r == [kind |-> q.kind, auth |-> q.auth, seed |-> FALSE, disabled |-> b]
    <2>1. b \in BOOLEAN
        BY Zenon
    <2> HIDE DEF b
    <2>2. r \in Row /\ r.disabled = b
        BY <1>1, <2>1, Zenon DEF Row
    <2>3. Upsert(q.name, r)
        BY <1>2, Zenon DEF b
    <2>4. rows' \in Table /\ rows'[q.name].disabled = b
          /\ \A m \in Name \ {q.name} : rows'[m] = rows[m]
        BY <1>1, <2>2, <2>3, UpsertEffect, Zenon
    <2> QED
        BY <1>1, <2>4, Zenon DEF b
<1>3. CASE q.op = "delete" /\ SetDisabled(q.name, TRUE)
    BY <1>1, <1>3, SetDisabledEffect, Zenon
<1>4. CASE q.op = "delete" /\ Delete(q.name)
    BY <1>1, <1>4, Zenon DEF TypeOK, Table, Delete
<1>5. CASE q.op = "enable" /\ SetDisabled(q.name, FALSE)
    BY <1>1, <1>5, SetDisabledEffect, Zenon
<1> QED
    BY <1>2, <1>3, <1>4, <1>5, Zenon DEF Store

----------------------------------------------------------------------------
(* Types and locals. *)

Typed == TypeOK /\ \A h \in Handler : Locals(h)

(* What is not the handlers' own. *)
SharedTypes ==
    /\ rows \in Table /\ catalog \in Table
    /\ version \in Version \cup {None} /\ image \in Version
    /\ phase \in Phase /\ todo \subseteq Name
    /\ creds \in CredMap /\ synced \in {"startup", "refresh", "no"}
    /\ applied \in [Version -> SUBSET Name]
    /\ faults \in 0..MaxFault

LEMMA TypeParts == TypeOK <=> SharedTypes /\ HandlerTypes
BY Zenon DEF TypeOK, SharedTypes, HandlerTypes

LEMMA FaultType ==
    ASSUME TypeOK, Fault
    PROVE  faults' \in 0..MaxFault
BY ConstantsAssumption DEF TypeOK, Fault

LEMMA NoCreds == [n \in Name |-> None] \in CredMap /\ [n \in Name |-> None] \in Table
BY Zenon DEF CredMap, Table

(* While startup runs there are no requests. *)
LEMMA StartupTyped ==
    ASSUME Typed, Startup
    PROVE  Typed' /\ UNCHANGED handlerVars /\ phase # "up"
<1> USE DEF Typed
<1>1. SharedTypes /\ HandlerTypes
    BY TypeParts, Zenon
<1>2. ASSUME UNCHANGED handlerVars, phase # "up", SharedTypes'
      PROVE  Typed' /\ UNCHANGED handlerVars /\ phase # "up"
    <2>1. HandlerTypes' /\ TypeOK'
        BY <1>1, <1>2, TypeParts, Zenon DEF HandlerTypes, handlerVars, TypeOK, SharedTypes
    <2>2. \A h \in Handler : pc'[h] = "idle"
        BY <1>2, Zenon DEF Locals, handlerVars
    <2> QED
        BY <1>2, <2>1, <2>2, Zenon DEF Locals
<1>3. ASSUME Start PROVE UNCHANGED handlerVars /\ phase # "up" /\ SharedTypes'
    BY <1>1, <1>3, ToolCredsType, Zenon DEF Start, SharedTypes, Phase
<1>4. ASSUME SetSeedVersion PROVE UNCHANGED handlerVars /\ phase # "up" /\ SharedTypes'
    BY <1>1, <1>4, Zenon DEF SetSeedVersion, SharedTypes, Phase
<1>5. ASSUME LoadCatalog PROVE UNCHANGED handlerVars /\ phase # "up" /\ SharedTypes'
    BY <1>1, <1>5, FillInEffect, Zenon DEF LoadCatalog, SharedTypes, Phase
<1>6. ASSUME NEW n \in Name, ApplyEntry(n)
      PROVE  UNCHANGED handlerVars /\ phase # "up" /\ SharedTypes'
    <2>1. rows' \in Table
        BY <1>6, ApplyEffect, Zenon
    <2>2. applied' \in [Version -> SUBSET Name] /\ todo' \subseteq Name
        <3>1. image \in Version /\ applied[image] \cup {n} \in SUBSET Name
            BY <1>1, Zenon DEF SharedTypes
        <3> QED
            BY <1>1, <1>6, <3>1, Zenon DEF ApplyEntry, SharedTypes
    <2>3. /\ UNCHANGED <<version, image, phase, catalog, creds, handlerVars, synced, faults>>
          /\ phase = "seed"
        BY <1>6, Zenon DEF ApplyEntry
    <2> QED
        BY <1>1, <2>1, <2>2, <2>3, Zenon DEF SharedTypes
<1>7. ASSUME NEW n \in Name, AbortStart(n)
      PROVE  UNCHANGED handlerVars /\ phase # "up" /\ SharedTypes'
    BY <1>1, <1>7, NoCreds, Zenon DEF AbortStart, SharedTypes, Phase
<1>8. ASSUME NEW n \in Name, MigrateTool(n)
      PROVE  UNCHANGED handlerVars /\ phase # "up" /\ SharedTypes'
    <2>1. rows' \in Table
        BY <1>8, MigrateEffect, Zenon
    <2>2. /\ UNCHANGED <<version, image, phase, catalog, creds, handlerVars, synced, applied,
                         faults>>
          /\ phase = "legacy" /\ todo' \subseteq todo
        BY <1>8, Zenon DEF MigrateTool
    <2> QED
        BY <1>1, <2>1, <2>2, Zenon DEF SharedTypes
<1> QED
    BY <1>2, <1>3, <1>4, <1>5, <1>6, <1>7, <1>8, Zenon DEF Startup

(* Only the handler that moves changes its locals. *)
LEMMA HandlerTyped ==
    ASSUME Typed, NEW h \in Handler, Begin(h) \/ HandlerStep(h) \/ Interrupt(h)
    PROVE  /\ Typed' /\ phase = "up" /\ phase' = "up"
           /\ UNCHANGED <<version, image, todo, applied>>
           /\ \A g \in Handler \ {h} : Same(g)
<1> USE DEF Typed
<1>1. SharedTypes /\ HandlerTypes /\ Locals(h)
    BY TypeParts, Zenon
<1>2. ASSUME SharedTypes', HandlerTypes', Locals(h)', phase = "up", phase' = "up",
             UNCHANGED <<version, image, todo, applied>>, \A g \in Handler \ {h} : Same(g)
      PROVE  /\ Typed' /\ phase = "up" /\ phase' = "up"
             /\ UNCHANGED <<version, image, todo, applied>>
             /\ \A g \in Handler \ {h} : Same(g)
    <2>1. TypeOK'
        BY <1>2, Zenon DEF TypeOK, SharedTypes, HandlerTypes
    <2>2. \A g \in Handler \ {h} : Locals(g)'
        BY <1>2, Zenon DEF Locals, Same
    <2> QED
        BY <1>2, <2>1, <2>2, Zenon
<1> DEFINE Goal == /\ SharedTypes' /\ HandlerTypes' /\ Locals(h)' /\ phase = "up"
                   /\ phase' = "up" /\ UNCHANGED <<version, image, todo, applied>>
                   /\ \A g \in Handler \ {h} : Same(g)
<1>3. ASSUME Begin(h) PROVE Goal
    <2>1. PICK q \in Request : req' = [req EXCEPT ![h] = q]
        <3>1. PICK op \in {"put", "delete", "enable"}, n \in Name, k \in Kind, a \in Auth :
                req' = [req EXCEPT ![h] = [op |-> op, name |-> n, kind |-> k, auth |-> a]]
            BY <1>3, Zenon DEF Begin
        <3>2. [op |-> op, name |-> n, kind |-> k, auth |-> a] \in Request
            BY DEF Request
        <3> QED
            BY <3>1, <3>2, Zenon
    <2>2. /\ pc' = [pc EXCEPT ![h] = "get"]
          /\ UNCHANGED <<rows, version, image, phase, todo, catalog, creds, seen, list, snap,
                         synced, applied, faults>>
          /\ alone' \in [Handler -> BOOLEAN] /\ phase = "up"
        BY <1>3, Zenon DEF Begin
    <2>3. HandlerTypes' /\ req'[h] = q /\ pc'[h] = "get"
        BY <1>1, <2>1, <2>2, Zenon DEF HandlerTypes, Pc
    <2>4. SharedTypes'
        BY <1>1, <2>2, Zenon DEF SharedTypes
    <2>5. \A g \in Handler \ {h} : Same(g)
        BY <1>1, <2>1, <2>2, Zenon DEF HandlerTypes, Same
    <2> QED
        BY <2>2, <2>3, <2>4, <2>5, Zenon DEF Locals

<1>4. ASSUME End(h), phase = "up", SharedTypes', UNCHANGED <<phase, version, image, todo, applied>>
      PROVE  Goal
    BY <1>4, EndEffect, Zenon DEF Locals
<1>5. ASSUME Get(h) PROVE Goal
    <2>1. /\ UNCHANGED <<rows, version, image, phase, todo, catalog, creds, synced, applied,
                         faults>>
          /\ phase = "up" /\ pc[h] = "get"
        BY <1>1, <1>5, Zenon DEF Get, Locals
    <2>2. SharedTypes'
        BY <1>1, <2>1, Zenon DEF SharedTypes
    <2>3. CASE End(h)
        BY <1>4, <2>1, <2>2, <2>3, Zenon
    <2>4. CASE /\ seen' = [seen EXCEPT ![h] = rows[req[h].name]]
               /\ pc' = [pc EXCEPT ![h] = "write"]
               /\ UNCHANGED <<req, list, snap, alone>>
        <3>1. req[h] \in Request /\ req[h].name \in Name
            BY <1>1, <2>1 DEF Locals, Request
        <3>2. rows[req[h].name] \in Row \cup {None}
            BY <1>1, <3>1, Zenon DEF SharedTypes, Table
        <3>3. HandlerTypes' /\ pc'[h] = "write" /\ \A g \in Handler \ {h} : Same(g)
            BY <1>1, <2>4, <3>2, Zenon DEF HandlerTypes, Pc, Same
        <3> QED
            BY <2>1, <2>2, <2>4, <3>1, <3>3, Zenon DEF Locals
    <2> QED
        BY <1>5, <2>3, <2>4, Zenon DEF Get
<1>6. ASSUME Write(h) PROVE Goal
    <2>1. /\ UNCHANGED <<version, image, phase, todo, catalog, creds, list, snap, alone, synced,
                         applied, faults>>
          /\ pc' = [pc EXCEPT ![h] = "list"]
          /\ req' = [req EXCEPT ![h] = None]
          /\ seen' = [seen EXCEPT ![h] = None]
          /\ phase = "up"
        BY <1>1, <1>6, Zenon DEF Write, Locals
    <2>2. rows' \in Table
        BY <1>1, <1>6, StoreEffect, Zenon DEF Write
    <2>3. SharedTypes'
        BY <1>1, <2>1, <2>2, Zenon DEF SharedTypes
    <2>4. HandlerTypes' /\ pc'[h] = "list" /\ \A g \in Handler \ {h} : Same(g)
        BY <1>1, <2>1, Zenon DEF HandlerTypes, Pc, Same
    <2> QED
        BY <2>1, <2>3, <2>4, Zenon DEF Locals
<1>7. ASSUME List(h) PROVE Goal
    <2>1. /\ UNCHANGED <<rows, version, image, phase, todo, catalog, creds, req, seen, snap,
                         alone, synced, applied, faults>>
          /\ list' = [list EXCEPT ![h] = rows]
          /\ phase = "up"
        BY <1>1, <1>7, Zenon DEF List, Locals
    <2>2. PICK l \in {"publish", "merge"} : pc' = [pc EXCEPT ![h] = l]
        BY <1>7, Zenon DEF List
    <2>3. SharedTypes'
        BY <1>1, <2>1, Zenon DEF SharedTypes
    <2>4. /\ HandlerTypes' /\ pc'[h] = l /\ list'[h] \in Table
          /\ \A g \in Handler \ {h} : Same(g)
        BY <1>1, <2>1, <2>2, Zenon DEF HandlerTypes, SharedTypes, Pc, Same
    <2> QED
        BY <2>1, <2>3, <2>4, Zenon DEF Locals
<1>8. ASSUME Merge(h) PROVE Goal
    <2>1. /\ UNCHANGED <<rows, version, image, phase, todo, catalog, creds, req, seen, list,
                         alone, synced, applied, faults>>
          /\ snap' = [snap EXCEPT ![h] = creds]
          /\ pc' = [pc EXCEPT ![h] = "store"]
          /\ phase = "up" /\ list[h] \in Table
        BY <1>1, <1>8, Zenon DEF Merge, Locals
    <2>2. SharedTypes'
        BY <1>1, <2>1, Zenon DEF SharedTypes
    <2>3. /\ HandlerTypes' /\ pc'[h] = "store" /\ snap'[h] \in CredMap
          /\ \A g \in Handler \ {h} : Same(g)
        BY <1>1, <2>1, Zenon DEF HandlerTypes, SharedTypes, Pc, Same
    <2> QED
        BY <2>1, <2>2, <2>3, Zenon DEF Locals
<1>9. ASSUME StoreCreds(h) PROVE Goal
    <2>1. /\ UNCHANGED <<rows, version, image, phase, todo, catalog, req, seen, list, snap,
                         alone, synced, applied, faults>>
          /\ pc' = [pc EXCEPT ![h] = "publish"]
          /\ creds' = Overwrite(snap[h], list[h])
          /\ phase = "up" /\ list[h] \in Table /\ snap[h] \in CredMap
        BY <1>1, <1>9, Zenon DEF StoreCreds, Locals
    <2>2. SharedTypes'
        BY <1>1, <2>1, OverwriteEffect, Zenon DEF SharedTypes
    <2>3. HandlerTypes' /\ pc'[h] = "publish" /\ \A g \in Handler \ {h} : Same(g)
        BY <1>1, <2>1, Zenon DEF HandlerTypes, Pc, Same
    <2> QED
        BY <2>1, <2>2, <2>3, Zenon DEF Locals
<1>10. ASSUME Publish(h) PROVE Goal
    <2>1. /\ UNCHANGED <<rows, version, image, phase, todo, creds, applied, faults>>
          /\ catalog' \in Table /\ synced' \in {"refresh", "no"} /\ phase = "up" /\ End(h)
        BY <1>1, <1>10, Zenon DEF Publish, Locals
    <2>2. SharedTypes'
        BY <1>1, <2>1, Zenon DEF SharedTypes
    <2> QED
        BY <1>4, <2>1, <2>2, Zenon
<1>11. ASSUME Interrupt(h) PROVE Goal
    <2>1. /\ UNCHANGED <<rows, version, image, phase, todo, catalog, creds, applied>>
          /\ synced' \in {"no", synced} /\ phase = "up" /\ End(h) /\ Fault
        BY <1>1, <1>11, Zenon DEF Interrupt, Locals
    <2>2. SharedTypes'
        BY <1>1, <2>1, FaultType, Zenon DEF SharedTypes
    <2> QED
        BY <1>4, <2>1, <2>2, Zenon
<1> QED
    BY <1>2, <1>3, <1>5, <1>6, <1>7, <1>8, <1>9, <1>10, <1>11, Zenon DEF HandlerStep

(* A crash forgets every request. *)
LEMMA CrashTyped ==
    ASSUME Typed, Crash
    PROVE  Typed'
<1>1. SharedTypes'
    BY FaultType, NoCreds, Zenon DEF Typed, TypeOK, SharedTypes, Crash, Phase
<1>2. HandlerTypes' /\ \A h \in Handler : pc'[h] = "idle"
    BY Zenon DEF Crash, AllFresh, HandlerTypes, Pc
<1> QED
    BY <1>1, <1>2, Zenon DEF Typed, TypeOK, SharedTypes, HandlerTypes, Locals

LEMMA UpgradeTyped ==
    ASSUME Typed, Upgrade
    PROVE  Typed'
BY Zenon DEF Typed, TypeOK, Upgrade, Locals, handlerVars

LEMMA StutterTyped ==
    ASSUME Typed, UNCHANGED vars
    PROVE  Typed'
BY Zenon DEF Typed, TypeOK, Locals, vars, handlerVars

LEMMA TypedStep ==
    ASSUME Typed, [Next]_vars
    PROVE  Typed'
BY StartupTyped, HandlerTyped, CrashTyped, UpgradeTyped, StutterTyped, Zenon DEF Next

----------------------------------------------------------------------------
(* Startup. *)

SeedStep == (StartupInv /\ SeedIsComplete)'

LEMMA SeedStart ==
    ASSUME Typed, StartupInv, SeedIsComplete, Startup
    PROVE  SeedStep
<1> USE DEF SeedStep
<1>1. /\ image \in Version /\ version \in Version \cup {None} /\ todo \subseteq Name
      /\ applied \in [Version -> SUBSET Name]
    BY Zenon DEF Typed, TypeOK
<1>2. ASSUME Start PROVE SeedStep
    BY <1>2, Zenon DEF Start, StartupInv, SeedIsComplete
<1>3. ASSUME SetSeedVersion PROVE SeedStep
    <2>1. applied[image] = Name
        BY <1>1, <1>3, Zenon DEF SetSeedVersion, StartupInv
    <2> QED
        BY <1>3, <2>1, Zenon DEF SetSeedVersion, StartupInv, SeedIsComplete
<1>4. ASSUME LoadCatalog PROVE SeedStep
    BY <1>4, Zenon DEF LoadCatalog, StartupInv, SeedIsComplete
<1>5. ASSUME NEW n \in Name, ApplyEntry(n) PROVE SeedStep
    <2>1. /\ phase = "seed" /\ UNCHANGED <<version, image, phase, creds>>
          /\ todo' = todo \ {n} /\ applied' = [applied EXCEPT ![image] = @ \cup {n}]
        BY <1>5, Zenon DEF ApplyEntry
    <2>2. StartupInv'
        BY <1>1, <2>1, Zenon DEF StartupInv
    <2>3. \A v \in Version : applied[v] = Name => applied'[v] = Name
        BY <1>1, <2>1, Zenon
    <2> QED
        BY <1>1, <2>1, <2>2, <2>3, Zenon DEF SeedIsComplete
<1>6. ASSUME NEW n \in Name, AbortStart(n) PROVE SeedStep
    BY <1>6, Zenon DEF AbortStart, StartupInv, SeedIsComplete
<1>7. ASSUME NEW n \in Name, MigrateTool(n) PROVE SeedStep
    BY <1>7, Zenon DEF MigrateTool, StartupInv, SeedIsComplete
<1> QED
    BY <1>2, <1>3, <1>4, <1>5, <1>6, <1>7, Zenon DEF Startup

(* The version is written last, and the entries stay visited. *)
LEMMA SeedNext ==
    ASSUME Typed, StartupInv, SeedIsComplete, [Next]_vars
    PROVE  SeedStep
<1>1. ASSUME NEW h \in Handler, Begin(h) \/ HandlerStep(h) \/ Interrupt(h)
      PROVE  SeedStep
    BY <1>1, HandlerTyped, Zenon DEF SeedStep, StartupInv, SeedIsComplete
<1>2. ASSUME Crash PROVE SeedStep
    BY <1>2, Zenon DEF SeedStep, StartupInv, SeedIsComplete, Crash
<1>3. ASSUME Upgrade PROVE SeedStep
    BY <1>3, Zenon DEF SeedStep, StartupInv, SeedIsComplete, Upgrade
<1>4. ASSUME UNCHANGED vars PROVE SeedStep
    BY <1>4, Zenon DEF SeedStep, StartupInv, SeedIsComplete, vars
<1> QED
    BY <1>1, <1>2, <1>3, <1>4, SeedStart, Zenon DEF Next

----------------------------------------------------------------------------
(* Requests that run alone, and the maps. *)

LEMMA AloneStartup ==
    ASSUME Typed, AloneInv, Startup
    PROVE  AloneInv'
<1>1. \A h \in Handler : pc[h] = "idle" /\ alone'[h] = alone[h]
    BY StartupTyped, Zenon DEF Typed, Locals, handlerVars
<1> QED
    BY <1>1, Zenon DEF AloneInv

(* What Begin writes: nobody but the new request is alone, and it only if  *)
(* the others are idle.                                                    *)
LEMMA AloneBegin ==
    ASSUME Typed, NEW h \in Handler, Begin(h)
    PROVE  AloneInv'
<1>1. /\ pc'[h] = "get"
      /\ \A g \in Handler : alone'[g] => g = h /\ \A f \in Handler : pc[f] = "idle"
      /\ \A g \in Handler \ {h} : pc'[g] = pc[g]
    BY Zenon DEF Typed, TypeOK, Begin
<1> QED
    BY <1>1, Zenon DEF AloneInv

(* What one handler's step owes, when it is the one that is alone. *)
Alone(h) ==
    /\ pc[h] # "idle"
    /\ pc[h] = "write" => seen[h] = rows[req[h].name]
    /\ pc[h] \in {"merge", "store", "publish"} => list[h] = rows
    /\ pc[h] = "publish" => \A n \in Resolves(rows) : creds[n] = rows[n].auth

LEMMA AloneSplit ==
    AloneInv <=> \A h \in Handler : alone[h] =>
                    Alone(h) /\ \A g \in Handler \ {h} : pc[g] = "idle"
BY Zenon DEF AloneInv, Alone

(* A step of a request leaves no other request alone: that one is idle, or *)
(* it would not be alone itself.                                           *)
LEMMA AloneFrame ==
    ASSUME Typed, AloneInv, NEW h \in Handler, pc[h] # "idle",
           \A g \in Handler \ {h} : Same(g) /\ alone'[g] = alone[g],
           alone'[h] => alone[h] /\ Alone(h)'
    PROVE  AloneInv'
<1>1. \A g \in Handler \ {h} : ~alone[g]
    BY Zenon DEF AloneInv
<1>2. alone'[h] => \A g \in Handler \ {h} : pc'[g] = "idle"
    BY Zenon DEF AloneInv, Same
<1> QED
    BY <1>1, <1>2, Zenon DEF AloneInv, Alone

LEMMA AloneHandler ==
    ASSUME Typed, AloneInv, NEW h \in Handler, HandlerStep(h) \/ Interrupt(h)
    PROVE  AloneInv'
<1>1. /\ pc \in [Handler -> Pc] /\ req \in [Handler -> Request \cup {None}]
      /\ seen \in [Handler -> Row \cup {None}] /\ list \in [Handler -> Table \cup {None}]
      /\ snap \in [Handler -> CredMap \cup {None}] /\ alone \in [Handler -> BOOLEAN]
    BY Zenon DEF Typed, TypeOK
<1>2. \A g \in Handler \ {h} : Same(g)
    BY HandlerTyped, Zenon
<1>3. ASSUME End(h), pc[h] # "idle" PROVE AloneInv'
    BY <1>3, EndEffect, AloneFrame, Zenon DEF Typed
<1>4. ASSUME UNCHANGED alone, pc[h] # "idle", alone[h] => Alone(h)' PROVE AloneInv'
    BY <1>2, <1>4, AloneFrame, Zenon
<1>5. alone[h] => Alone(h)
    BY AloneSplit, Zenon
<1>6. ASSUME Get(h) PROVE AloneInv'
    <2>1. CASE End(h)
        BY <1>3, <1>6, <2>1, Zenon DEF Get
    <2>2. CASE /\ seen' = [seen EXCEPT ![h] = rows[req[h].name]]
               /\ pc' = [pc EXCEPT ![h] = "write"]
               /\ UNCHANGED <<req, list, snap, alone>>
        <3>1. pc'[h] = "write" /\ seen'[h] = rows[req[h].name] /\ rows' = rows
            BY <1>1, <1>6, <2>2, Zenon DEF Get
        <3> QED
            BY <1>4, <1>6, <2>2, <3>1, Zenon DEF Get, Alone
    <2> QED
        BY <1>6, <2>1, <2>2, Zenon DEF Get
<1>7. ASSUME Write(h) PROVE AloneInv'
    <2>1. pc'[h] = "list" /\ UNCHANGED alone /\ pc[h] # "idle"
        BY <1>1, <1>7, Zenon DEF Write
    <2> QED
        BY <1>4, <2>1, Zenon DEF Alone
<1>8. ASSUME List(h) PROVE AloneInv'
    <2>1. /\ list'[h] = rows /\ UNCHANGED <<rows, alone>> /\ pc[h] # "idle"
          /\ pc'[h] = IF Resolves(rows) = {} THEN "publish" ELSE "merge"
        BY <1>1, <1>8, Zenon DEF List
    <2>2. Alone(h)'
        BY <2>1, Zenon DEF Alone
    <2> QED
        BY <1>4, <2>1, <2>2, Zenon
<1>9. ASSUME Merge(h) PROVE AloneInv'
    <2>1. pc'[h] = "store" /\ UNCHANGED <<rows, list, alone>> /\ pc[h] = "merge"
        BY <1>1, <1>9, Zenon DEF Merge
    <2> QED
        BY <1>4, <1>5, <2>1, Zenon DEF Alone
<1>10. ASSUME StoreCreds(h) PROVE AloneInv'
    <2>1. /\ pc'[h] = "publish" /\ UNCHANGED <<rows, list, alone>> /\ pc[h] = "store"
          /\ creds' = Overwrite(snap[h], list[h])
        BY <1>1, <1>10, Zenon DEF StoreCreds
    <2>2. list[h] \in Table /\ snap[h] \in CredMap
        BY <2>1, Zenon DEF Typed, Locals
    <2>3. \A n \in Resolves(list[h]) : creds'[n] = list[h][n].auth
        BY <2>1, <2>2, OverwriteEffect, Zenon
    <2> QED
        BY <1>4, <1>5, <2>1, <2>3, Zenon DEF Alone
<1>11. ASSUME Publish(h) PROVE AloneInv'
    BY <1>3, <1>11, Zenon DEF Publish
<1>12. ASSUME Interrupt(h) PROVE AloneInv'
    BY <1>3, <1>12, Zenon DEF Interrupt
<1> QED
    BY <1>6, <1>7, <1>8, <1>9, <1>10, <1>11, <1>12, Zenon DEF HandlerStep

LEMMA AloneStep ==
    ASSUME Typed, AloneInv, [Next]_vars
    PROVE  AloneInv'
<1>1. ASSUME Crash PROVE AloneInv'
    BY <1>1, Zenon DEF Crash, AllFresh, AloneInv
<1>2. ASSUME Upgrade PROVE AloneInv'
    BY <1>2, Zenon DEF Upgrade, handlerVars, AloneInv, Typed, Locals
<1>3. ASSUME UNCHANGED vars PROVE AloneInv'
    BY <1>3, Zenon DEF vars, handlerVars, AloneInv
<1> QED
    BY <1>1, <1>2, <1>3, AloneStartup, AloneBegin, AloneHandler, Zenon DEF Next

LEMMA SettledStartup ==
    ASSUME Typed, StartupInv, Startup
    PROVE  SettledInv'
<1>1. ASSUME LoadCatalog PROVE SettledInv'
    <2>1. /\ catalog' = rows /\ creds' = FillIn(creds, rows) /\ synced' = "startup"
          /\ rows' = rows /\ creds = ToolCreds /\ rows \in Table
        BY <1>1, Zenon DEF LoadCatalog, StartupInv, Typed, TypeOK
    <2>2. \A n \in Resolves(rows) :
            creds'[n] = IF ToolCreds[n] # None THEN ToolCreds[n] ELSE rows[n].auth
        BY <2>1, FillInEffect, ToolCredsType, Zenon
    <2>3. InSync'
        BY <2>1, <2>2, Zenon DEF InSync
    <2> QED
        BY <2>3, Zenon DEF SettledInv
<1>2. ASSUME Start PROVE phase' # "up"
    BY <1>2, Zenon DEF Start
<1>3. ASSUME NEW n \in Name, ApplyEntry(n) \/ AbortStart(n) \/ MigrateTool(n)
      PROVE  phase' # "up"
    BY <1>3, Zenon DEF ApplyEntry, AbortStart, MigrateTool
<1>4. ASSUME SetSeedVersion PROVE phase' # "up"
    BY <1>4, Zenon DEF SetSeedVersion
<1> QED
    BY <1>1, <1>2, <1>3, <1>4, Zenon DEF Startup, SettledInv

LEMMA SettledHandler ==
    ASSUME Typed, AloneInv, SettledInv, NEW h \in Handler,
           Begin(h) \/ HandlerStep(h) \/ Interrupt(h)
    PROVE  SettledInv'
<1>1. /\ pc \in [Handler -> Pc] /\ \A g \in Handler \ {h} : pc'[g] = pc[g]
      /\ phase = "up"
    BY HandlerTyped, Zenon DEF Typed, TypeOK, Same
<1>2. ASSUME UNCHANGED <<rows, catalog, creds, synced>>, ~Pending(h) PROVE SettledInv'
    <2>1. (\A g \in Handler : ~Pending(g)') => \A g \in Handler : ~Pending(g)
        BY <1>1, <1>2, Zenon DEF Pending
    <2>2. InSync => InSync'
        BY <1>2, Zenon DEF InSync
    <2> QED
        BY <1>1, <1>2, <2>1, <2>2, Zenon DEF SettledInv
<1>3. ASSUME Pending(h)' PROVE SettledInv'
    BY <1>3, Zenon DEF SettledInv
<1>4. ASSUME Begin(h) PROVE SettledInv'
    BY <1>2, <1>4, Zenon DEF Begin, Pending
<1>5. ASSUME Get(h) PROVE SettledInv'
    BY <1>2, <1>5, Zenon DEF Get, Pending
<1>6. ASSUME Write(h) PROVE SettledInv'
    BY <1>1, <1>3, <1>6, Zenon DEF Write, Pending
<1>7. ASSUME List(h) PROVE SettledInv'
    BY <1>1, <1>3, <1>7, Zenon DEF List, Pending
<1>8. ASSUME Merge(h) PROVE SettledInv'
    BY <1>1, <1>3, <1>8, Zenon DEF Merge, Pending
<1>9. ASSUME StoreCreds(h) PROVE SettledInv'
    BY <1>1, <1>3, <1>9, Zenon DEF StoreCreds, Pending
<1>10. ASSUME Publish(h) PROVE SettledInv'
    <2>1. CASE ~alone[h]
        BY <1>10, <2>1, Zenon DEF Publish, SettledInv
    <2>2. CASE alone[h]
        <3>1. /\ catalog' = rows /\ UNCHANGED <<rows, creds>> /\ synced' = "refresh"
              /\ \A n \in Resolves(rows) : creds[n] = rows[n].auth
            BY <1>10, <2>2, Zenon DEF Publish, AloneInv
        <3>2. InSync'
            BY <3>1, Zenon DEF InSync
        <3> QED
            BY <3>2, Zenon DEF SettledInv
    <2> QED
        BY <2>1, <2>2
<1>11. ASSUME Interrupt(h) PROVE SettledInv'
    <2>1. CASE pc[h] = "list"
        BY <1>11, <2>1, Zenon DEF Interrupt, SettledInv
    <2>2. CASE pc[h] # "list"
        BY <1>2, <1>11, <2>2, Zenon DEF Interrupt, Pending
    <2> QED
        BY <2>1, <2>2
<1> QED
    BY <1>4, <1>5, <1>6, <1>7, <1>8, <1>9, <1>10, <1>11, Zenon DEF HandlerStep

LEMMA SettledStep ==
    ASSUME Typed, StartupInv, AloneInv, SettledInv, [Next]_vars
    PROVE  SettledInv'
<1>1. ASSUME Crash PROVE SettledInv'
    BY <1>1, Zenon DEF Crash, SettledInv
<1>2. ASSUME Upgrade PROVE SettledInv'
    BY <1>2, Zenon DEF Upgrade, SettledInv
<1>3. ASSUME UNCHANGED vars PROVE SettledInv'
    BY <1>3, Zenon DEF vars, handlerVars, SettledInv, InSync, Pending
<1> QED
    BY <1>1, <1>2, <1>3, SettledStartup, SettledHandler, Zenon DEF Next

----------------------------------------------------------------------------
(* The theorems. *)

LEMMA TableInit == Init => TableInv
<1> SUFFICES ASSUME Init PROVE TableInv
    OBVIOUS
<1>1. SharedTypes
    BY NoCreds, ConstantsAssumption DEF Init, SharedTypes, Phase
<1>2. HandlerTypes
    BY Zenon DEF Init, HandlerTypes, Pc
<1>3. /\ \A h \in Handler : pc[h] = "idle" /\ alone[h] = FALSE
      /\ phase = "down" /\ version = None
    BY Zenon DEF Init
<1>4. TypeOK
    BY <1>1, <1>2, TypeParts, Zenon
<1> QED
    BY <1>3, <1>4, Zenon DEF TableInv, Locals, StartupInv, SeedIsComplete, AloneInv,
       SettledInv

(* The inductive invariant: every request has the locals its label needs,  *)
(* one that runs alone has read what the table holds, startup visits every *)
(* entry before it records the version, and the maps are as the last       *)
(* refresh or startup should have left them until the next write.          *)
THEOREM TableInvariant == Spec => []TableInv
<1>1. TableInv /\ [Next]_vars => TableInv'
    BY TypedStep, SeedNext, AloneStep, SettledStep, Zenon DEF TableInv, Typed, SeedStep
<1> QED
    BY <1>1, TableInit, PTL DEF Spec

(* A recorded seed version is a complete one, wherever startup was         *)
(* interrupted, for every catalog and every sequence of upgrades           *)
(* (bootstrap_seed).                                                       *)
THEOREM SeedIsComplete_Holds == Spec => []SeedInv
<1>1. TableInv => SeedInv
    BY Zenon DEF TableInv, SeedInv
<1> QED
    BY <1>1, TableInvariant, PTL

(* The proxy's catalog and secrets are those of the table when no request  *)
(* is running, unless the last refresh failed or overlapped with another   *)
(* (refresh_runtime, build_admin_substrate).                               *)
THEOREM ProxyFollowsTable_Holds == Spec => []ProxyFollowsTable
<1>1. TableInv => ProxyFollowsTable
    <2> SUFFICES ASSUME TableInv, Quiet
                 PROVE  /\ synced # "no" => catalog = rows
                        /\ \A n \in Resolves(rows) :
                            /\ synced = "refresh" => creds[n] = rows[n].auth
                            /\ synced = "startup" => creds[n] =
                                    IF ToolCreds[n] # None THEN ToolCreds[n] ELSE rows[n].auth
        BY Zenon DEF ProxyFollowsTable
    <2>1. phase = "up" /\ \A h \in Handler : ~Pending(h)
        BY Zenon DEF Quiet, Pending
    <2>2. synced # "no" => InSync
        BY <2>1, Zenon DEF TableInv, SettledInv
    <2> QED
        BY <2>2, Zenon DEF InSync
<1> QED
    BY <1>1, TableInvariant, PTL

(* The step of OperatorStateStays. *)
RowsStay ==
    \A n \in Name : rows[n] # None =>
        /\ phase # "up" => /\ rows'[n] # None /\ rows'[n].disabled = rows[n].disabled
                           /\ ~rows[n].seed => rows'[n] = rows[n]
        /\ (rows[n].disabled /\ rows'[n] # None /\ ~rows'[n].disabled) =>
                \E h \in Handler : /\ pc[h] = "write" /\ req[h].name = n
                                   /\ req[h].op = "enable" \/ ~alone[h]

LEMMA RowsStayUnchanged == ASSUME UNCHANGED rows PROVE RowsStay
BY Zenon DEF RowsStay

LEMMA RowsStaySpared == ASSUME \A m \in Name : Spared(m) PROVE RowsStay
BY Zenon DEF RowsStay, Spared

(* A request that runs alone writes the row it read. *)
LEMMA RowsStayWrite ==
    ASSUME TableInv, NEW h \in Handler, Write(h)
    PROVE  RowsStay
<1>1. /\ TypeOK /\ Locals(h) /\ pc[h] = "write" /\ Store(h) /\ phase = "up"
      /\ alone[h] => seen[h] = rows[req[h].name]
    BY Zenon DEF TableInv, Write, Locals, AloneInv
<1>2. /\ req[h].name \in Name
      /\ \A m \in Name \ {req[h].name} : rows'[m] = rows[m]
      /\ (rows'[req[h].name] # None /\ ~rows'[req[h].name].disabled) =>
            req[h].op = "enable" \/ ~(seen[h] # None /\ seen[h].disabled)
    BY <1>1, StoreEffect, Zenon
<1> SUFFICES ASSUME NEW n \in Name, rows[n] # None, rows[n].disabled, rows'[n] # None,
                    ~rows'[n].disabled
             PROVE  \E g \in Handler : /\ pc[g] = "write" /\ req[g].name = n
                                       /\ req[g].op = "enable" \/ ~alone[g]
    BY <1>1, Zenon DEF RowsStay
<1>3. n = req[h].name
    BY <1>2, Zenon
<1> QED
    BY <1>1, <1>2, <1>3, Zenon

(* What the operator did stays: a startup, an upgrade or a downgrade       *)
(* neither removes nor enables a row, nor changes one the operator owns,   *)
(* and a request other than enable does not enable the row it read         *)
(* (bootstrap_seed, op_put).                                               *)
THEOREM OperatorStateStays_Holds == Spec => OperatorStateStays
<1>1. TableInv /\ [Next]_vars => RowsStay
    <2> SUFFICES ASSUME TableInv, [Next]_vars PROVE RowsStay
        OBVIOUS
    <2>1. TypeOK
        BY Zenon DEF TableInv
    <2>2. ASSUME Startup PROVE RowsStay
        <3>1. ASSUME NEW n \in Name, ApplyEntry(n) PROVE RowsStay
            BY <2>1, <3>1, ApplyEffect, RowsStaySpared, Zenon
        <3>2. ASSUME NEW n \in Name, MigrateTool(n) PROVE RowsStay
            BY <2>1, <3>2, MigrateEffect, RowsStaySpared, Zenon
        <3>3. ASSUME NEW n \in Name, AbortStart(n) PROVE UNCHANGED rows
            BY <3>3, Zenon DEF AbortStart
        <3>4. ASSUME Start \/ SetSeedVersion \/ LoadCatalog PROVE UNCHANGED rows
            BY <3>4, Zenon DEF Start, SetSeedVersion, LoadCatalog
        <3> QED
            BY <2>2, <3>1, <3>2, <3>3, <3>4, RowsStayUnchanged, Zenon DEF Startup
    <2>3. ASSUME NEW h \in Handler, Begin(h) \/ HandlerStep(h) \/ Interrupt(h)
          PROVE  RowsStay
        <3>1. ASSUME ~Write(h) PROVE UNCHANGED rows
            BY <2>3, <3>1, Zenon DEF Begin, HandlerStep, Get, List, Merge, StoreCreds,
               Publish, Interrupt
        <3> QED
            BY <3>1, RowsStayWrite, RowsStayUnchanged, Zenon
    <2>4. ASSUME Crash \/ Upgrade \/ UNCHANGED vars PROVE UNCHANGED rows
        BY <2>4, Zenon DEF Crash, Upgrade, vars
    <2> QED
        BY <2>2, <2>3, <2>4, RowsStayUnchanged, Zenon DEF Next
<1> QED
    BY <1>1, TableInvariant, PTL DEF Spec, OperatorStateStays, RowsStay

============================================================================
