-------------------------- MODULE Admission_proofs --------------------------
(***************************************************************************)
(* The proofs of Admission's properties, for any number of connections,    *)
(* certificates, agents, commands and faults, and any deployment.          *)
(***************************************************************************)
EXTENDS Admission, TLAPS

(* The lists: who is about to write or to read the file finds it, what was *)
(* read is what the file says unless it is late, and every list that is    *)
(* still on its way to the CRL store holds what the store holds.           *)
ListInv ==
    /\ RevocationTypeOK
    /\ loader # None => file # None
    /\ \A r \in Cli : cli[r] # None /\ cli[r].step = "write" => file # None
    /\ loader # None /\ loader.step = "stat" /\ ~late => loader.serials = Range(file.lines)
    /\ SnapshotIsExact
    /\ crl \subseteq published
    /\ fetch # None /\ fetch.kind = "list" =>
            crl \subseteq fetch.list /\ fetch.list \subseteq published

(* What a request's next step says of its connection and of what was seen. *)
Underway(k) ==
    /\ pc[k] = "idle" => answer[k] = None
    /\ pc[k] # "idle" => k \in open
    /\ k \in open /\ peer[k] = None => listener.mode # "mtls"
    /\ pc[k] = "lookup" => /\ peer[k] # None /\ IdentityOf[peer[k]] # None
                           /\ listener.side \in AgentSide
                           /\ certGood[k] /\ answer[k] = None
    /\ pc[k] = "resolve" => /\ peer[k] = None /\ listener.side = "agent"
                            /\ header[k] \in Agent \cup {"bad"} /\ answer[k] = None

RequestInv == \A k \in Conn : Underway(k)

AdmissionInv == ListInv /\ RequestInv /\ AdmissionIsEarned /\ RefusalsAreOnRecord

----------------------------------------------------------------------------
(* The lists. *)

(* The serials of a file's lines are certificates'. *)
LEMMA SerialsType ==
    ASSUME NEW s \in Seq(Cert)
    PROVE  Range(s) \in SUBSET Cert
BY DEF Range

(* What is left of a longer file is made of its lines. *)
LEMMA OverwriteType ==
    ASSUME NEW s \in Seq(Cert), NEW t \in Seq(Cert)
    PROVE  t \o SubSeq(s, Len(t) + 1, Len(s)) \in Seq(Cert)
<1>1. \A i \in Len(t) + 1 .. Len(s) : s[i] \in Cert
    OBVIOUS
<1>2. SubSeq(s, Len(t) + 1, Len(s)) \in Seq(Cert)
    BY <1>1
<1> QED
    BY <1>2

(* A file that is touched has lines and the time, and is late for a reader *)
(* who is between the text and the time, or has read this second.          *)
LEMMA TouchEffect ==
    ASSUME ListInv, NEW text \in Seq(Cert), Touch(text)
    PROVE  /\ file' \in BlocklistFile /\ file' # None /\ file'.mtime = now
           /\ late' \in BOOLEAN
           /\ snap.mtime = now => late'
           /\ loader # None /\ loader.step = "stat" => late'
<1>1. now \in Second
    BY Zenon DEF ListInv, RevocationTypeOK
<1>2. file' = [lines |-> text, mtime |-> now]
    BY Zenon DEF Touch
<1>3. file' \in BlocklistFile
    BY <1>1, <1>2, Zenon DEF BlocklistFile
<1>4. file' # None
    BY <1>3, RevocationAssumption, Zenon
<1>5. late' = (late \/ snap.mtime = now \/ (loader # None /\ loader.step = "stat"))
    BY Zenon DEF Touch
<1> QED
    BY <1>2, <1>3, <1>4, <1>5, Zenon DEF ListInv, RevocationTypeOK

(* The lists at startup. *)
LEMMA ListInit == Init => ListInv
<1> SUFFICES ASSUME RevocationInit PROVE ListInv
    BY Zenon DEF Init
<1>1. file # None => file \in BlocklistFile /\ file.mtime = 1
    <2> SUFFICES ASSUME file # None PROVE file \in BlocklistFile /\ file.mtime = 1
        OBVIOUS
    <2>1. file \in [lines : {<<c>> : c \in Cert}, mtime : {1}]
        BY Zenon DEF RevocationInit
    <2>2. PICK c \in Cert : file.lines = <<c>>
        BY <2>1, Zenon
    <2>3. file.lines \in Seq(Cert)
        BY <2>2
    <2>4. 1 \in Second
        BY RevocationAssumption DEF Second
    <2> QED
        BY <2>1, <2>3, <2>4, Zenon DEF BlocklistFile
<1>2. snap \in Snapshot
    <2>1. CASE file = None
        <3>1. <<>> \in Seq(Cert)
            OBVIOUS
        <3>2. Range(<<>>) \in SUBSET Cert
            BY <3>1, SerialsType, Zenon
        <3> QED
            BY <2>1, <3>2, RevocationAssumption
            DEF RevocationInit, OpenList, Lines, Snapshot
    <2>2. CASE file # None
        <3>1. Range(file.lines) \in SUBSET Cert
            BY <1>1, <2>2, SerialsType, Zenon DEF BlocklistFile
        <3> QED
            BY <1>1, <2>2, <3>1, RevocationAssumption
            DEF RevocationInit, OpenList, Lines, Snapshot
    <2> QED BY <2>1, <2>2, Zenon
<1>3. RevocationTypeOK
    <2>1. now \in Second /\ revokes \in 0..MaxRevoke /\ faults \in 0..MaxFault
        BY RevocationAssumption DEF RevocationInit, Second
    <2>2. cli \in [Cli -> Command \cup {None}]
        BY Zenon DEF RevocationInit
    <2>3. file \in BlocklistFile \cup {None}
        BY <1>1, Zenon
    <2> QED
        BY <1>2, <2>1, <2>2, <2>3, Zenon DEF RevocationInit, RevocationTypeOK
<1>4. SnapshotIsExact
    BY Zenon DEF SnapshotIsExact, RevocationInit, OpenList, Lines
<1> QED
    BY <1>3, <1>4, Zenon DEF ListInv, RevocationInit

(* Every step of the lists preserves what is said of them. *)
LEMMA ListStep ==
    ASSUME ListInv, RevocationNext
    PROVE  ListInv'
<1> USE DEF ListInv
<1>0. RevocationTypeOK
    OBVIOUS
<1>1. ASSUME NEW r \in Cli, RevokeRead(r) PROVE ListInv'
    <2>1. Lines(file) \in Seq(Cert)
        BY <1>0 DEF RevocationTypeOK, BlocklistFile, Lines
    <2>2. PICK c \in Cert :
            cli' = [cli EXCEPT ![r] = [step |-> "open", text |-> Append(Lines(file), c)]]
        BY <1>1, Zenon DEF RevokeRead
    <2>3. Append(Lines(file), c) \in Seq(Cert)
        BY <2>1
    <2>4. [step |-> "open", text |-> Append(Lines(file), c)] \in Command
        BY <2>3, Zenon DEF Command
    <2>5. cli' \in [Cli -> Command \cup {None}]
        BY <1>0, <2>2, <2>4, Zenon DEF RevocationTypeOK
    <2>6. UNCHANGED <<wiring, file, snap, loader, late, published, fetch, crl, now, faults>>
          /\ revokes' \in 0..MaxRevoke
        BY <1>0, <1>1, RevocationAssumption DEF RevokeRead, crlVars, RevocationTypeOK
    <2>7. RevocationTypeOK'
        BY <1>0, <2>5, <2>6, Zenon DEF RevocationTypeOK
    <2>8. \A q \in Cli : cli'[q] # None /\ cli'[q].step = "write" => file' # None
        BY <1>0, <2>2, <2>6, Zenon DEF RevocationTypeOK
    <2> QED
        BY <2>6, <2>7, <2>8, Zenon DEF SnapshotIsExact
<1>2. ASSUME NEW r \in Cli, NEW text \in Seq(Cert), Touch(text),
             cli' \in [Cli -> Command \cup {None}],
             UNCHANGED <<wiring, snap, loader, revokes, published, fetch, crl, now, faults>>
      PROVE  ListInv'
    <2>1. /\ file' \in BlocklistFile /\ file' # None /\ file'.mtime = now
          /\ late' \in BOOLEAN
          /\ snap.mtime = now => late'
          /\ loader # None /\ loader.step = "stat" => late'
        BY <1>2, TouchEffect, Zenon
    <2>2. RevocationTypeOK'
        BY <1>0, <1>2, <2>1, Zenon DEF RevocationTypeOK
    <2>3. SnapshotIsExact'
        BY <1>2, <2>1, Zenon DEF SnapshotIsExact
    <2> QED
        BY <1>2, <2>1, <2>2, <2>3, Zenon
<1>3. ASSUME NEW r \in Cli, RevokeOpen(r) PROVE ListInv'
    <2>1. cli[r] \in Command
        BY <1>0, <1>3, Zenon DEF RevocationTypeOK, RevokeOpen
    <2>2. [cli[r] EXCEPT !.step = "write"] \in Command
        BY <2>1, Zenon DEF Command
    <2>3. cli' \in [Cli -> Command \cup {None}]
        BY <1>0, <1>3, <2>2, Zenon DEF RevocationTypeOK, RevokeOpen
    <2>4. <<>> \in Seq(Cert)
        OBVIOUS
    <2>5. Touch(<<>>) /\ UNCHANGED <<wiring, snap, loader, revokes, published, fetch, crl,
                                     now, faults>>
        BY <1>3, Zenon DEF RevokeOpen, crlVars
    <2> QED
        BY <1>2, <2>3, <2>4, <2>5, Zenon
<1>4. ASSUME NEW r \in Cli, RevokeWrite(r) PROVE ListInv'
    <2>1. cli[r].text \in Seq(Cert) /\ file.lines \in Seq(Cert)
        BY <1>0, <1>4, Zenon DEF RevocationTypeOK, RevokeWrite, Command, BlocklistFile
    <2> DEFINE all == cli[r].text \o SubSeq(file.lines, Len(cli[r].text) + 1, Len(file.lines))
    <2>2. all \in Seq(Cert)
        BY <2>1, OverwriteType, Zenon
    <2>3. Touch(all) /\ UNCHANGED <<wiring, snap, loader, revokes, published, fetch, crl,
                                    now, faults>>
        BY <1>4, Zenon DEF RevokeWrite, crlVars
    <2>4. cli' \in [Cli -> Command \cup {None}]
        BY <1>0, <1>4, Zenon DEF RevocationTypeOK, RevokeWrite
    <2> HIDE DEF all
    <2> QED
        BY <1>2, <2>2, <2>3, <2>4, Zenon
<1>5. ASSUME NEW r \in Cli, RevokeDies(r) PROVE ListInv'
    <2>1. /\ UNCHANGED <<wiring, file, snap, loader, late, revokes, published, fetch, crl, now>>
          /\ cli' = [cli EXCEPT ![r] = None]
        BY <1>5, Zenon DEF RevokeDies, crlVars
    <2>2. faults' \in 0..MaxFault
        BY <1>0, <1>5, RevocationAssumption DEF RevokeDies, Fault, RevocationTypeOK
    <2>3. RevocationTypeOK'
        BY <1>0, <2>1, <2>2, Zenon DEF RevocationTypeOK
    <2>4. \A q \in Cli : cli'[q] # None /\ cli'[q].step = "write" => file' # None
        BY <1>0, <2>1, Zenon DEF RevocationTypeOK
    <2> QED
        BY <2>1, <2>3, <2>4, Zenon DEF SnapshotIsExact
<1>6. CASE PollStat
    <2>1. /\ UNCHANGED <<wiring, file, cli, snap, late, revokes, published, fetch, crl, now, faults>>
          /\ file # None /\ file.mtime # snap.mtime
          /\ loader' = [step |-> "read"]
        BY <1>6, Zenon DEF PollStat, crlVars
    <2>2. loader' \in [step : {"read"}] /\ loader'.step # "stat"
        BY <2>1, Zenon
    <2>3. RevocationTypeOK'
        BY <1>0, <2>1, <2>2, Zenon DEF RevocationTypeOK
    <2> QED
        BY <2>1, <2>2, <2>3, Zenon DEF SnapshotIsExact
<1>7. CASE PollRead
    <2>1. /\ UNCHANGED <<wiring, file, cli, snap, revokes, published, fetch, crl, now, faults>>
          /\ file # None /\ late' = FALSE
          /\ loader' = [step |-> "stat", serials |-> Range(file.lines)]
        BY <1>7, Zenon DEF PollRead, crlVars
    <2>2. file.lines \in Seq(Cert)
        BY <1>0, <2>1, Zenon DEF RevocationTypeOK, BlocklistFile
    <2>3. Range(file.lines) \in SUBSET Cert
        BY <2>2, SerialsType, Zenon
    <2>4. /\ loader' \in [step : {"stat"}, serials : SUBSET Cert]
          /\ loader'.serials = Range(file.lines)
        BY <2>1, <2>3, Zenon
    <2>5. loader' # None
        BY <2>4, RevocationAssumption, Zenon
    <2>6. RevocationTypeOK'
        BY <1>0, <2>1, <2>4, Zenon DEF RevocationTypeOK
    <2> QED
        BY <2>1, <2>4, <2>5, <2>6, Zenon DEF SnapshotIsExact
<1>8. CASE PollStore
    <2>1. /\ UNCHANGED <<wiring, file, cli, late, revokes, published, fetch, crl, now, faults>>
          /\ file # None /\ loader # None /\ loader.step = "stat" /\ loader' = None
          /\ snap' = [serials |-> loader.serials, mtime |-> file.mtime]
        BY <1>8, Zenon DEF PollStore, crlVars
    <2>2. loader.serials \in SUBSET Cert
        <3>1. loader \in [step : {"stat"}, serials : SUBSET Cert]
            BY <1>0, <2>1, Zenon DEF RevocationTypeOK
        <3> QED BY <3>1, Zenon
    <2>3. file.mtime \in 0..MaxTime
        BY <1>0, <2>1 DEF RevocationTypeOK, BlocklistFile, Second
    <2>4. snap' \in Snapshot /\ snap'.serials = loader.serials
        BY <2>1, <2>2, <2>3, Zenon DEF Snapshot
    <2>5. RevocationTypeOK'
        BY <1>0, <2>1, <2>4, Zenon DEF RevocationTypeOK
    <2> QED
        BY <2>1, <2>4, <2>5, Zenon DEF SnapshotIsExact
<1>9. CASE Publish
    <2>1. /\ UNCHANGED <<wiring, file, cli, snap, loader, late, revokes, fetch, crl, now, faults>>
          /\ published \subseteq published' /\ published' \subseteq Cert
        BY <1>0, <1>9, Zenon DEF Publish, blockVars, RevocationTypeOK
    <2>2. RevocationTypeOK'
        BY <1>0, <2>1, Zenon DEF RevocationTypeOK
    <2> QED
        BY <2>1, <2>2, Zenon DEF SnapshotIsExact
<1>10. CASE FetchCrl
    <2>1. UNCHANGED <<wiring, file, cli, snap, loader, late, revokes, published, crl, now, faults>>
        BY <1>10, Zenon DEF FetchCrl, blockVars
    <2>2. PICK kind \in {"list", "junk", "failed"} :
            fetch' = [kind |-> kind, list |-> IF kind = "list" THEN published ELSE {}]
        BY <1>10, Zenon DEF FetchCrl
    <2>3. /\ fetch' \in [kind : {"list", "junk", "failed"}, list : SUBSET Cert]
          /\ fetch'.kind = "list" => fetch'.list = published
        BY <1>0, <2>2, Zenon DEF RevocationTypeOK
    <2>4. RevocationTypeOK'
        BY <1>0, <2>1, <2>3, Zenon DEF RevocationTypeOK
    <2> QED
        BY <2>1, <2>3, <2>4, Zenon DEF SnapshotIsExact
<1>11. CASE ApplyCrl
    <2>1. /\ UNCHANGED <<wiring, file, cli, snap, loader, late, revokes, published, now, faults>>
          /\ fetch' = None
        BY <1>11, Zenon DEF ApplyCrl, blockVars
    <2>2. crl' \subseteq published
        BY <1>11, Zenon DEF ApplyCrl
    <2>3. RevocationTypeOK'
        BY <1>0, <2>1, <2>2, Zenon DEF RevocationTypeOK
    <2> QED
        BY <2>1, <2>2, <2>3, Zenon DEF SnapshotIsExact
<1>12. CASE Clock
    <2>1. /\ UNCHANGED <<wiring, file, cli, snap, loader, late, revokes, published, fetch, crl,
                         faults>>
          /\ now' \in Second
        BY <1>0, <1>12, RevocationAssumption
        DEF Clock, blockVars, crlVars, RevocationTypeOK, Second
    <2>2. RevocationTypeOK'
        BY <1>0, <2>1, Zenon DEF RevocationTypeOK
    <2> QED
        BY <2>1, <2>2, Zenon DEF SnapshotIsExact
<1> QED
    BY <1>1, <1>3, <1>4, <1>5, <1>6, <1>7, <1>8, <1>9, <1>10, <1>11, <1>12, Zenon DEF RevocationNext

(* A serial on the list that is in use is on the list that takes its place. *)
LEMMA ApplyKeeps ==
    ASSUME ListInv, RevocationNext
    PROVE  crl \subseteq crl'
<1>1. CASE ApplyCrl
    BY <1>1, Zenon DEF ApplyCrl, ListInv
<1>2. CASE ~ApplyCrl
    BY <1>2, Zenon DEF RevocationNext, RevokeRead, RevokeOpen, RevokeWrite, RevokeDies, PollStat,
                PollRead, PollStore, Publish, FetchCrl, Clock, crlVars
<1> QED BY <1>1, <1>2, Zenon

(* The requests' steps leave the lists alone; they may fail. *)
LEMMA ListKept ==
    ASSUME ListInv, UNCHANGED <<revocationVars, now>>, faults' \in 0..MaxFault
    PROVE  ListInv'
<1>1. UNCHANGED <<wiring, file, cli, snap, loader, late, revokes, published, fetch, crl, now>>
    BY Zenon DEF revocationVars, blockVars, crlVars
<1>2. RevocationTypeOK'
    BY <1>1, Zenon DEF ListInv, RevocationTypeOK
<1> QED
    BY <1>1, <1>2, Zenon DEF ListInv, SnapshotIsExact

----------------------------------------------------------------------------
(* The requests. *)

(* The types of what requests and operators' statements change. *)
TableTypeOK ==
    /\ rows \in [Agent -> [ident : Identity \cup {None}, revoked : BOOLEAN]]
    /\ open \subseteq Conn /\ peer \in [Conn -> Cert \cup {None}]
    /\ pc \in [Conn -> {"idle", "lookup", "resolve", "audit", "answer"}]
    /\ header \in [Conn -> Header \cup {None}]
    /\ answer \in [Conn -> Answer \cup {None}]
    /\ logged \in [Conn -> {"no", "spawned", "written", "failed"}]
    /\ tasks \in 0..MaxTask

HistoryTypeOK == certGood \in [Conn -> BOOLEAN] /\ bound \in [Conn -> SUBSET Agent]

(* AdmissionIsEarned and RefusalsAreOnRecord, of one connection. *)
Earned(k) ==
    answer[k] # None /\ answer[k].code = "admitted" =>
        IF peer[k] = None
        THEN /\ listener.mode # "mtls" /\ answer[k].as = "bearer"
             /\ \/ listener.side = "anyone"
                \/ header[k] = IF listener.side = "agent" THEN answer[k].agent ELSE "good"
        ELSE /\ answer[k].as = "mtls" /\ certGood[k]
             /\ IF listener.side = "operator" THEN IdentityOf[peer[k]] \in OperatorCert
                ELSE answer[k].agent \in bound[k]

Recorded(k) ==
    pc[k] = "answer" =>
        \/ answer[k].code \in {"admitted", "public", "backend"}
        \/ listener.side = "operator" /\ answer[k].code \in {"missing", "unverified"}
        \/ listener.side \in {"shared", "anyone"}
        \/ logged[k] \in {"spawned", "written", "failed"}

Sound(k) == Underway(k) /\ Earned(k) /\ Recorded(k)

(* The step changes nothing of the request of j. *)
Bystander(j) ==
    /\ pc'[j] = pc[j] /\ header'[j] = header[j] /\ answer'[j] = answer[j]
    /\ logged'[j] = logged[j] /\ peer'[j] = peer[j] /\ (j \in open' <=> j \in open)

(* The history remembers: a certificate that is in order at either end of  *)
(* a step, and the agents it stands for, until the request is answered.    *)
LEMMA ObserveEffect ==
    ASSUME HistoryTypeOK, Observe
    PROVE  /\ HistoryTypeOK'
           /\ \A k \in Conn : pc'[k] # "idle" =>
                /\ CertInOrder(k) => certGood'[k]
                /\ pc[k] # "idle" /\ certGood[k] => certGood'[k]
                /\ bound[k] \subseteq bound'[k] /\ Means(k) \subseteq bound'[k]
<1>1. \A k \in Conn : Means(k) \in SUBSET Agent /\ Means(k)' \in SUBSET Agent
    BY Zenon DEF Means, BoundTo
<1>2. bound' = [k \in Conn |->
         IF pc'[k] = "idle" THEN {} ELSE Means(k) \cup Means(k)' \cup bound[k]]
    BY Zenon DEF Observe
<1>3. bound' \in [Conn -> SUBSET Agent]
    BY <1>1, <1>2, Zenon DEF HistoryTypeOK
<1>4. certGood' = [k \in Conn |->
         pc'[k] # "idle" /\ (CertInOrder(k) \/ CertInOrder(k)' \/ (pc[k] # "idle" /\ certGood[k]))]
    BY Zenon DEF Observe
<1>5. certGood' \in [Conn -> BOOLEAN]
    BY <1>4, Zenon
<1>6. \A k \in Conn : pc'[k] # "idle" => /\ CertInOrder(k) => certGood'[k]
                                         /\ pc[k] # "idle" /\ certGood[k] => certGood'[k]
    BY <1>4, Zenon
<1>7. \A k \in Conn : pc'[k] # "idle" => bound[k] \subseteq bound'[k] /\ Means(k) \subseteq bound'[k]
    BY <1>2, Zenon
<1> QED
    BY <1>3, <1>5, <1>6, <1>7, Zenon DEF HistoryTypeOK

(* What holds of a request goes on holding while others take steps. *)
LEMMA BystanderSound ==
    ASSUME NEW j \in Conn, TableTypeOK, HistoryTypeOK, Sound(j), Observe, Bystander(j),
           listener' = listener
    PROVE  Sound(j)'
<1>1. pc'[j] # "idle" => /\ pc[j] # "idle" /\ certGood[j] => certGood'[j]
                         /\ bound[j] \subseteq bound'[j]
    BY ObserveEffect, Zenon
<1>2. Underway(j)'
    BY <1>1, Zenon DEF Sound, Underway, Bystander
<1>3. Earned(j)'
    BY <1>1, Zenon DEF Sound, Underway, Earned, Bystander
<1>4. Recorded(j)'
    BY Zenon DEF Sound, Recorded, Bystander
<1> QED
    BY <1>2, <1>3, <1>4, Zenon DEF Sound

(* A label is set for one connection. *)
LEMMA GotoEffect ==
    ASSUME TableTypeOK, NEW k \in Conn, Goto(k, "answer") \/ Goto(k, "audit")
           \/ Goto(k, "lookup") \/ Goto(k, "resolve") \/ Goto(k, "idle")
    PROVE  /\ pc' \in [Conn -> {"idle", "lookup", "resolve", "audit", "answer"}]
           /\ Goto(k, "answer") => pc'[k] = "answer"
           /\ Goto(k, "audit") => pc'[k] = "audit"
           /\ Goto(k, "lookup") => pc'[k] = "lookup"
           /\ Goto(k, "resolve") => pc'[k] = "resolve"
           /\ Goto(k, "idle") => pc'[k] = "idle"
           /\ \A j \in Conn \ {k} : pc'[j] = pc[j]
BY Zenon DEF TableTypeOK, Goto

(* What it will be answered is set for one connection. *)
LEMMA AnswerEffect ==
    ASSUME TableTypeOK, NEW k \in Conn, NEW what \in Answer,
           Decide(k, what) \/ DecideAudited(k, what)
    PROVE  /\ pc' \in [Conn -> {"idle", "lookup", "resolve", "audit", "answer"}]
           /\ answer' \in [Conn -> Answer \cup {None}] /\ answer'[k] = what
           /\ Decide(k, what) => pc'[k] = "answer"
           /\ DecideAudited(k, what) => pc'[k] = "audit"
           /\ pc'[k] \in {"answer", "audit"}
           /\ \A j \in Conn \ {k} : pc'[j] = pc[j] /\ answer'[j] = answer[j]
BY DEF TableTypeOK, Decide, DecideAudited, Goto

(* An audit task is spawned for one connection where there is an audit log. *)
LEMMA SpawnEffect ==
    ASSUME TableTypeOK, NEW k \in Conn, NEW what, DecideSpawning(k, what)
    PROVE  /\ Decide(k, what)
           /\ logged' \in [Conn -> {"no", "spawned", "written", "failed"}]
           /\ tasks' \in 0..MaxTask
           /\ listener.side = "agent" => logged'[k] = "spawned"
           /\ \A j \in Conn \ {k} : logged'[j] = logged[j]
BY AdmissionAssumption DEF TableTypeOK, DecideSpawning

(* What can be answered. *)
LEMMA AnswerType ==
    /\ \A code \in {"public", "missing", "invalid", "unverified", "backend"} :
            Refused(code) \in Answer /\ Refused(code).code = code
    /\ \A as \in {"mtls", "bearer"}, a \in Agent \cup {None} :
            /\ Admitted(as, a) \in Answer /\ Admitted(as, a).code = "admitted"
            /\ Admitted(as, a).as = as /\ Admitted(as, a).agent = a
BY Zenon DEF Refused, Admitted, Answer

(* A step of one connection: the types hold after it, what is claimed of   *)
(* the connection holds, and nothing of the others has changed.            *)
ActsOn(k) == TableTypeOK' /\ Sound(k)' /\ \A j \in Conn \ {k} : Bystander(j)

(* Connections come with a certificate where one is required, and take     *)
(* their request with them.                                                *)
LEMMA HandshakeStep ==
    ASSUME TableTypeOK, NEW k \in Conn, Sound(k), Handshake(k)
    PROVE  ActsOn(k)
<1>1. PICK c \in Peers : peer' = [peer EXCEPT ![k] = c]
    BY Zenon DEF Handshake
<1>2. /\ c \in Cert \cup {None}
      /\ c = None => listener.mode # "mtls"
    BY <1>1, RevocationAssumption, Zenon DEF Peers
<1>3. /\ UNCHANGED <<listener, rows, pc, header, answer, logged, tasks>>
      /\ k \notin open /\ open' = open \cup {k}
    BY Zenon DEF Handshake, requestVars
<1>4. /\ peer' \in [Conn -> Cert \cup {None}] /\ peer'[k] = c
      /\ \A j \in Conn \ {k} : peer'[j] = peer[j]
    BY <1>1, <1>2, Zenon DEF TableTypeOK
<1>5. TableTypeOK'
    BY <1>3, <1>4, Zenon DEF TableTypeOK
<1>6. pc[k] = "idle" /\ answer[k] = None
    BY <1>3, Zenon DEF Sound, Underway
<1>7. Sound(k)'
    BY <1>2, <1>3, <1>4, <1>6, Zenon DEF Sound, Underway, Earned, Recorded
<1> QED
    BY <1>3, <1>4, <1>5, <1>7, Zenon DEF ActsOn, Bystander

(* A connection that closes, and a request that is answered, are forgotten. *)
LEMMA LeaveStep ==
    ASSUME TableTypeOK, NEW k \in Conn, Sound(k), Disconnect(k) \/ Respond(k)
    PROVE  ActsOn(k)
<1>1. /\ UNCHANGED <<listener, rows, tasks>> /\ Goto(k, "idle")
      /\ header' = [header EXCEPT ![k] = None]
      /\ answer' = [answer EXCEPT ![k] = None]
      /\ logged' = [logged EXCEPT ![k] = "no"]
      /\ \/ open' = open \ {k} /\ peer' = [peer EXCEPT ![k] = None]
         \/ UNCHANGED <<open, peer>>
    BY Zenon DEF Disconnect, Respond
<1>2. /\ pc' \in [Conn -> {"idle", "lookup", "resolve", "audit", "answer"}]
      /\ pc'[k] = "idle" /\ \A j \in Conn \ {k} : pc'[j] = pc[j]
    BY <1>1, GotoEffect, Zenon
<1>3. TableTypeOK'
    BY <1>1, <1>2, Zenon DEF TableTypeOK
<1>4. Sound(k)'
    BY <1>1, <1>2, Zenon DEF Sound, Underway, Earned, Recorded, TableTypeOK
<1>5. \A j \in Conn \ {k} : Bystander(j)
    BY <1>1, <1>2, Zenon DEF Bystander, TableTypeOK
<1> QED
    BY <1>3, <1>4, <1>5, Zenon DEF ActsOn

(* A request that arrives brings a header, on a connection that is open. *)
LEMMA ArriveEffect ==
    ASSUME TableTypeOK, NEW k \in Conn, NEW sides, NEW h \in Header, Arrive(k, sides, h),
           Sound(k)
    PROVE  /\ header' \in [Conn -> Header \cup {None}] /\ header'[k] = h
           /\ \A j \in Conn \ {k} : header'[j] = header[j]
           /\ UNCHANGED <<listener, rows, open, peer>>
           /\ k \in open /\ pc[k] = "idle" /\ answer[k] = None /\ listener.side \in sides
           /\ peer[k] = None => listener.mode # "mtls"
BY Zenon DEF TableTypeOK, Arrive, Sound, Underway

(* A step in which a request is decided: its connection is open and stays  *)
(* as it is, and so do the other requests.                                 *)
Deciding(k) ==
    /\ k \in open /\ (peer[k] = None => listener.mode # "mtls")
    /\ UNCHANGED <<listener, rows, open, peer>>
    /\ header' \in [Conn -> Header \cup {None}]
    /\ logged' \in [Conn -> {"no", "spawned", "written", "failed"}]
    /\ tasks' \in 0..MaxTask
    /\ \A j \in Conn \ {k} : header'[j] = header[j] /\ logged'[j] = logged[j]

(* A request can be refused; if it is answered next then it is on record,  *)
(* or of a kind that is not recorded.                                      *)
LEMMA RefuseStep ==
    ASSUME TableTypeOK, NEW k \in Conn, Deciding(k),
           NEW code \in {"public", "missing", "invalid", "unverified", "backend"},
           \/ DecideAudited(k, Refused(code))
           \/ /\ Decide(k, Refused(code))
              /\ \/ code \in {"public", "backend"} \/ logged'[k] = "spawned"
                 \/ listener.side = "operator" /\ code \in {"missing", "unverified"}
                 \/ listener.side \in {"shared", "anyone"}
    PROVE  ActsOn(k)
<1>1. Refused(code) \in Answer /\ Refused(code).code = code
    BY AnswerType, Zenon
<1>2. /\ pc' \in [Conn -> {"idle", "lookup", "resolve", "audit", "answer"}]
      /\ answer' \in [Conn -> Answer \cup {None}] /\ answer'[k] = Refused(code)
      /\ pc'[k] \in {"answer", "audit"}
      /\ DecideAudited(k, Refused(code)) => pc'[k] = "audit"
      /\ \A j \in Conn \ {k} : pc'[j] = pc[j] /\ answer'[j] = answer[j]
    BY <1>1, AnswerEffect, Zenon
<1>3. TableTypeOK'
    BY <1>2, Zenon DEF TableTypeOK, Deciding
<1>4. Sound(k)'
    BY <1>1, <1>2, Zenon DEF Sound, Underway, Earned, Recorded, Deciding
<1> QED
    BY <1>2, <1>3, <1>4, Zenon DEF ActsOn, Bystander, Deciding

(* A request can be admitted if it is earned. *)
LEMMA AdmitStep ==
    ASSUME TableTypeOK, NEW k \in Conn, Deciding(k),
           NEW as \in {"mtls", "bearer"}, NEW a \in Agent \cup {None},
           Decide(k, Admitted(as, a)),
           IF peer[k] = None
           THEN /\ as = "bearer"
                /\ \/ listener.side = "anyone"
                   \/ header'[k] = IF listener.side = "agent" THEN a ELSE "good"
           ELSE /\ as = "mtls" /\ certGood'[k]
                /\ IF listener.side = "operator" THEN IdentityOf[peer[k]] \in OperatorCert
                   ELSE a \in bound'[k]
    PROVE  ActsOn(k)
<1>1. /\ Admitted(as, a) \in Answer /\ Admitted(as, a).code = "admitted"
      /\ Admitted(as, a).as = as /\ Admitted(as, a).agent = a
    BY AnswerType, Zenon
<1>2. /\ pc' \in [Conn -> {"idle", "lookup", "resolve", "audit", "answer"}]
      /\ answer' \in [Conn -> Answer \cup {None}] /\ answer'[k] = Admitted(as, a)
      /\ pc'[k] = "answer"
      /\ \A j \in Conn \ {k} : pc'[j] = pc[j] /\ answer'[j] = answer[j]
    BY <1>1, AnswerEffect, Zenon
<1>3. TableTypeOK'
    BY <1>2, Zenon DEF TableTypeOK, Deciding
<1>4. Underway(k)' /\ Recorded(k)'
    BY <1>1, <1>2, Zenon DEF Underway, Recorded, Deciding
<1>5. Earned(k)'
    <2>1. peer' = peer /\ listener' = listener /\ (peer[k] = None => listener.mode # "mtls")
        BY Zenon DEF Deciding
    <2>2. CASE peer[k] = None
        BY <1>1, <1>2, <2>1, <2>2, Zenon DEF Earned
    <2>3. CASE peer[k] # None
        <3>1. /\ as = "mtls" /\ certGood'[k]
              /\ listener.side = "operator" => IdentityOf[peer[k]] \in OperatorCert
              /\ listener.side # "operator" => a \in bound'[k]
            BY <2>3, Zenon
        <3> QED
            BY <1>1, <1>2, <2>1, <2>3, <3>1, Zenon DEF Earned
    <2> QED
        BY <2>2, <2>3, Zenon
<1> QED
    BY <1>2, <1>3, <1>4, <1>5, Zenon DEF ActsOn, Bystander, Deciding, Sound

(* A request that arrives and is not audited on the spot can be decided. *)
LEMMA ArriveDeciding ==
    ASSUME TableTypeOK, NEW k \in Conn, NEW sides, NEW h \in Header, Arrive(k, sides, h),
           Sound(k),
           logged' \in [Conn -> {"no", "spawned", "written", "failed"}],
           tasks' \in 0..MaxTask, \A j \in Conn \ {k} : logged'[j] = logged[j]
    PROVE  Deciding(k) /\ header'[k] = h /\ listener.side \in sides /\ pc[k] = "idle"
           /\ answer[k] = None
BY ArriveEffect, Zenon DEF Deciding

(* Probes are answered at once. *)
LEMMA PublicStep ==
    ASSUME TableTypeOK, NEW k \in Conn, Sound(k), PublicRequest(k)
    PROVE  ActsOn(k)
<1>1. Arrive(k, AgentSide, "absent") /\ Decide(k, Refused("public")) /\ UNCHANGED <<logged, tasks>>
    BY Zenon DEF PublicRequest
<1>2. Deciding(k)
    BY <1>1, ArriveDeciding, Zenon DEF Header, TableTypeOK
<1> QED
    BY <1>1, <1>2, RefuseStep, Zenon

(* A certificate on the agent listener is looked up if it is in order, and *)
(* otherwise refused with a task for its audit.                            *)
LEMMA AgentCertStep ==
    ASSUME TableTypeOK, HistoryTypeOK, Observe, NEW k \in Conn, Sound(k), AgentCertRequest(k)
    PROVE  ActsOn(k)
<1>1. PICK h \in Agent \cup {"absent", "bad"} :
        /\ Arrive(k, AgentSide, h)
        /\ peer[k] # None
        /\ \/ /\ Valid(peer[k])
              /\ Goto(k, "lookup")
              /\ UNCHANGED <<answer, logged, tasks>>
           \/ /\ ~Valid(peer[k])
              /\ DecideSpawning(k, Refused("invalid"))
    BY Zenon DEF AgentCertRequest
<1>2. h \in Header
    BY Zenon DEF Header
<1>3. CASE Valid(peer[k]) /\ Goto(k, "lookup") /\ UNCHANGED <<answer, logged, tasks>>
    <2>1. /\ Deciding(k) /\ header'[k] = h /\ listener.side \in AgentSide
          /\ pc[k] = "idle" /\ answer[k] = None
        BY <1>1, <1>2, <1>3, ArriveDeciding, Zenon DEF TableTypeOK
    <2>2. /\ pc' \in [Conn -> {"idle", "lookup", "resolve", "audit", "answer"}]
          /\ pc'[k] = "lookup" /\ \A j \in Conn \ {k} : pc'[j] = pc[j]
        BY <1>3, GotoEffect, Zenon
    <2>3. CertInOrder(k) /\ IdentityOf[peer[k]] # None
        BY <1>1, <1>3, Zenon DEF Valid, CertInOrder
    <2>4. certGood'[k]
        BY <2>2, <2>3, ObserveEffect, Zenon
    <2>5. TableTypeOK'
        BY <1>3, <2>1, <2>2, Zenon DEF TableTypeOK, Deciding
    <2>6. Sound(k)'
        BY <1>1, <1>3, <2>1, <2>2, <2>3, <2>4, Zenon
        DEF Sound, Underway, Earned, Recorded, Deciding
    <2> QED
        BY <1>3, <2>1, <2>2, <2>5, <2>6, Zenon DEF ActsOn, Bystander, Deciding
<1>4. CASE DecideSpawning(k, Refused("invalid"))
    <2>1. /\ Decide(k, Refused("invalid"))
          /\ logged' \in [Conn -> {"no", "spawned", "written", "failed"}]
          /\ tasks' \in 0..MaxTask
          /\ listener.side = "agent" => logged'[k] = "spawned"
          /\ \A j \in Conn \ {k} : logged'[j] = logged[j]
        BY <1>4, SpawnEffect, Zenon
    <2>2. Deciding(k) /\ listener.side \in AgentSide
        BY <1>1, <1>2, <2>1, ArriveDeciding, Zenon
    <2> QED
        BY <2>1, <2>2, RefuseStep, Zenon DEF AgentSide
<1> QED
    BY <1>1, <1>3, <1>4, Zenon

(* Without a certificate a token is looked up, or refused and audited. *)
LEMMA AgentBearerStep ==
    ASSUME TableTypeOK, NEW k \in Conn, Sound(k), AgentBearerRequest(k)
    PROVE  ActsOn(k)
<1>1. PICK h \in Agent \cup {"absent", "bad"} :
        /\ Arrive(k, {"agent"}, h)
        /\ peer[k] = None
        /\ \/ /\ h # "absent"
              /\ Goto(k, "resolve")
              /\ UNCHANGED answer
           \/ h = "absent" /\ DecideAudited(k, Refused("missing"))
           \/ h = "bad" /\ DecideAudited(k, Refused("invalid"))
        /\ UNCHANGED <<logged, tasks>>
    BY Zenon DEF AgentBearerRequest
<1>2. h \in Header
    BY Zenon DEF Header
<1>3. /\ Deciding(k) /\ header'[k] = h /\ listener.side = "agent"
      /\ pc[k] = "idle" /\ answer[k] = None
    BY <1>1, <1>2, ArriveDeciding, Zenon DEF TableTypeOK
<1>4. CASE h # "absent" /\ Goto(k, "resolve") /\ UNCHANGED answer
    <2>1. /\ pc' \in [Conn -> {"idle", "lookup", "resolve", "audit", "answer"}]
          /\ pc'[k] = "resolve" /\ \A j \in Conn \ {k} : pc'[j] = pc[j]
        BY <1>4, GotoEffect, Zenon
    <2>2. TableTypeOK'
        BY <1>3, <1>4, <2>1, Zenon DEF TableTypeOK, Deciding
    <2>3. Sound(k)'
        BY <1>1, <1>3, <1>4, <2>1, Zenon DEF Sound, Underway, Earned, Recorded, Deciding
    <2> QED
        BY <1>3, <1>4, <2>1, <2>2, <2>3, Zenon DEF ActsOn, Bystander, Deciding
<1>5. CASE DecideAudited(k, Refused("missing"))
    BY <1>3, <1>5, RefuseStep, Zenon
<1>6. CASE DecideAudited(k, Refused("invalid"))
    BY <1>3, <1>6, RefuseStep, Zenon
<1> QED
    BY <1>1, <1>4, <1>5, <1>6, Zenon

(* The shared token is compared on the spot, where there is one. *)
LEMMA SharedBearerStep ==
    ASSUME TableTypeOK, NEW k \in Conn, Sound(k), SharedBearerRequest(k)
    PROVE  ActsOn(k)
<1>1. PICK h \in {"absent", "bad", "good"} :
        /\ Arrive(k, {"shared", "anyone"}, h)
        /\ peer[k] = None
        /\ Decide(k, IF h = "good" \/ listener.side = "anyone" THEN Admitted("bearer", None)
                     ELSE Refused("invalid"))
        /\ UNCHANGED <<logged, tasks>>
    BY Zenon DEF SharedBearerRequest
<1>2. h \in Header
    BY Zenon DEF Header
<1>3. Deciding(k) /\ header'[k] = h /\ listener.side \in {"shared", "anyone"}
    BY <1>1, <1>2, ArriveDeciding, Zenon DEF TableTypeOK
<1>4. CASE h = "good" \/ listener.side = "anyone"
    <2>1. Decide(k, Admitted("bearer", None))
        BY <1>1, <1>4, Zenon
    <2> QED
        BY <1>1, <1>3, <1>4, <2>1, AdmitStep, Zenon
<1>5. CASE ~(h = "good" \/ listener.side = "anyone")
    <2>1. Decide(k, Refused("invalid"))
        BY <1>1, <1>5, Zenon
    <2> QED
        BY <1>3, <2>1, RefuseStep, Zenon
<1> QED
    BY <1>4, <1>5, Zenon

(* A request on its way is on a connection that is open. *)
LEMMA UnderwayDeciding ==
    ASSUME TableTypeOK, NEW k \in Conn, Sound(k), pc[k] # "idle",
           UNCHANGED <<listener, rows, open, peer, header>>,
           logged' \in [Conn -> {"no", "spawned", "written", "failed"}],
           tasks' \in 0..MaxTask, \A j \in Conn \ {k} : logged'[j] = logged[j]
    PROVE  Deciding(k)
BY Zenon DEF TableTypeOK, Sound, Underway, Deciding

(* The row of an active agent is found under the certificate's identity. *)
LEMMA LookUpStep ==
    ASSUME TableTypeOK, HistoryTypeOK, Observe, NEW k \in Conn, Sound(k), LookUp(k)
    PROVE  ActsOn(k)
<1>1. /\ pc[k] = "lookup" /\ peer[k] # None /\ IdentityOf[peer[k]] # None
      /\ listener.side \in AgentSide /\ certGood[k]
      /\ UNCHANGED <<listener, rows, open, peer, header>>
    BY Zenon DEF LookUp, Sound, Underway
<1>2. CASE (\E a \in BoundTo(peer[k]) : Decide(k, Admitted("mtls", a))) /\ UNCHANGED <<logged, tasks>>
    <2>1. PICK a \in BoundTo(peer[k]) : Decide(k, Admitted("mtls", a))
        BY <1>2, Zenon
    <2>2. a \in Agent /\ a \in Means(k)
        BY <1>1, <2>1, Zenon DEF BoundTo, Means
    <2>3. Deciding(k)
        BY <1>1, <1>2, UnderwayDeciding, Zenon DEF TableTypeOK
    <2>4. pc'[k] = "answer"
        BY <2>1, Zenon DEF Decide, Goto, TableTypeOK
    <2>5. certGood'[k]
        BY <1>1, <2>4, ObserveEffect, Zenon
    <2>6. a \in bound'[k]
        BY <2>2, <2>4, ObserveEffect, Zenon
    <2>7. listener.side # "operator"
        BY <1>1, Zenon DEF AgentSide
    <2>8. IF peer[k] = None
          THEN /\ "mtls" = "bearer"
               /\ \/ listener.side = "anyone"
                  \/ header'[k] = IF listener.side = "agent" THEN a ELSE "good"
          ELSE /\ "mtls" = "mtls" /\ certGood'[k]
               /\ IF listener.side = "operator" THEN IdentityOf[peer[k]] \in OperatorCert
                  ELSE a \in bound'[k]
        BY <1>1, <2>5, <2>6, <2>7, Zenon
    <2> QED
        BY <2>1, <2>2, <2>3, <2>8, AdmitStep, Zenon
<1>3. CASE DecideSpawning(k, Refused("invalid"))
    <2>1. /\ Decide(k, Refused("invalid"))
          /\ logged' \in [Conn -> {"no", "spawned", "written", "failed"}]
          /\ tasks' \in 0..MaxTask
          /\ listener.side = "agent" => logged'[k] = "spawned"
          /\ \A j \in Conn \ {k} : logged'[j] = logged[j]
        BY <1>3, SpawnEffect, Zenon
    <2>2. Deciding(k)
        BY <1>1, <2>1, UnderwayDeciding, Zenon
    <2> QED
        BY <1>1, <2>1, <2>2, RefuseStep, Zenon DEF AgentSide
<1> QED
    BY <1>2, <1>3, Zenon DEF LookUp

(* A token is resolved to the agent it names, or refused and audited. *)
LEMMA ResolveStep ==
    ASSUME TableTypeOK, NEW k \in Conn, Sound(k), Resolve(k)
    PROVE  ActsOn(k)
<1>1. /\ pc[k] = "resolve" /\ peer[k] = None /\ listener.side = "agent"
      /\ header[k] \in Agent \cup {"bad"}
      /\ UNCHANGED <<listener, rows, open, peer, header, logged, tasks>>
    BY Zenon DEF Resolve, Sound, Underway
<1>2. Deciding(k)
    BY <1>1, UnderwayDeciding, Zenon DEF TableTypeOK
<1>3. \/ header[k] # "bad" /\ Decide(k, Admitted("bearer", header[k]))
      \/ DecideAudited(k, Refused("invalid"))
    BY Zenon DEF Resolve
<1>4. CASE header[k] # "bad" /\ Decide(k, Admitted("bearer", header[k]))
    <2>1. header[k] \in Agent
        BY <1>1, <1>4, Zenon
    <2> QED
        BY <1>1, <1>2, <1>4, <2>1, AdmitStep, Zenon
<1>5. CASE DecideAudited(k, Refused("invalid"))
    BY <1>2, <1>5, RefuseStep, Zenon
<1> QED
    BY <1>3, <1>4, <1>5, Zenon

(* A statement that fails ends a request without an audit. *)
LEMMA FailureStep ==
    ASSUME TableTypeOK, NEW k \in Conn, Sound(k), StatementFails(k)
    PROVE  ActsOn(k)
<1>1. /\ pc[k] # "idle" /\ Decide(k, Refused("backend"))
      /\ UNCHANGED <<listener, rows, open, peer, header, logged, tasks>>
    BY Zenon DEF StatementFails
<1>2. Deciding(k)
    BY <1>1, UnderwayDeciding, Zenon DEF TableTypeOK
<1> QED
    BY <1>1, <1>2, RefuseStep, Zenon

(* An operator's certificate is in order and known, or refused. *)
LEMMA OperatorCertStep ==
    ASSUME TableTypeOK, HistoryTypeOK, Observe, NEW k \in Conn, Sound(k), OperatorCertRequest(k)
    PROVE  ActsOn(k)
<1>1. PICK h \in {"absent", "bad", "good"} :
        /\ Arrive(k, {"operator"}, h)
        /\ peer[k] # None
        /\ \/ ~Valid(peer[k]) /\ Decide(k, Refused("unverified"))
           \/ /\ Valid(peer[k]) /\ IdentityOf[peer[k]] \in OperatorCert
              /\ Decide(k, Admitted("mtls", None))
           \/ /\ Valid(peer[k]) /\ IdentityOf[peer[k]] \notin OperatorCert
              /\ DecideAudited(k, Refused("invalid"))
        /\ UNCHANGED <<logged, tasks>>
    BY Zenon DEF OperatorCertRequest
<1>2. h \in Header
    BY Zenon DEF Header
<1>3. Deciding(k) /\ listener.side = "operator"
    BY <1>1, <1>2, ArriveDeciding, Zenon DEF TableTypeOK
<1>4. CASE Decide(k, Refused("unverified"))
    BY <1>3, <1>4, RefuseStep, Zenon
<1>5. CASE /\ Valid(peer[k]) /\ IdentityOf[peer[k]] \in OperatorCert
           /\ Decide(k, Admitted("mtls", None))
    <2>1. CertInOrder(k)
        BY <1>1, <1>5, Zenon DEF Valid, CertInOrder
    <2>2. pc'[k] = "answer"
        BY <1>5, Zenon DEF Decide, Goto, TableTypeOK
    <2>3. certGood'[k]
        BY <2>1, <2>2, ObserveEffect, Zenon
    <2>4. IF peer[k] = None
          THEN /\ "mtls" = "bearer"
               /\ \/ listener.side = "anyone"
                  \/ header'[k] = IF listener.side = "agent" THEN None ELSE "good"
          ELSE /\ "mtls" = "mtls" /\ certGood'[k]
               /\ IF listener.side = "operator" THEN IdentityOf[peer[k]] \in OperatorCert
                  ELSE None \in bound'[k]
        BY <1>1, <1>3, <1>5, <2>3, Zenon
    <2> QED
        BY <1>3, <1>5, <2>4, AdmitStep, Zenon
<1>6. CASE DecideAudited(k, Refused("invalid"))
    BY <1>3, <1>6, RefuseStep, Zenon
<1> QED
    BY <1>1, <1>4, <1>5, <1>6, Zenon

(* An operator's token is compared with those in memory. *)
LEMMA OperatorBearerStep ==
    ASSUME TableTypeOK, NEW k \in Conn, Sound(k), OperatorBearerRequest(k)
    PROVE  ActsOn(k)
<1>1. PICK h \in {"absent", "bad", "good"} :
        /\ Arrive(k, {"operator"}, h)
        /\ peer[k] = None
        /\ \/ h = "absent" /\ Decide(k, Refused("missing"))
           \/ h = "good" /\ Decide(k, Admitted("bearer", None))
           \/ h = "bad" /\ DecideAudited(k, Refused("invalid"))
        /\ UNCHANGED <<logged, tasks>>
    BY Zenon DEF OperatorBearerRequest
<1>2. h \in Header
    BY Zenon DEF Header
<1>3. Deciding(k) /\ header'[k] = h /\ listener.side = "operator"
    BY <1>1, <1>2, ArriveDeciding, Zenon DEF TableTypeOK
<1>4. CASE Decide(k, Refused("missing"))
    BY <1>3, <1>4, RefuseStep, Zenon
<1>5. CASE h = "good" /\ Decide(k, Admitted("bearer", None))
    BY <1>1, <1>3, <1>5, AdmitStep, Zenon
<1>6. CASE DecideAudited(k, Refused("invalid"))
    BY <1>3, <1>6, RefuseStep, Zenon
<1> QED
    BY <1>1, <1>4, <1>5, <1>6, Zenon

(* A refusal that was audited, or whose audit failed, can be answered. *)
LEMMA AuditStep ==
    ASSUME TableTypeOK, HistoryTypeOK, Observe, NEW k \in Conn, Sound(k), AuditRefusal(k)
    PROVE  ActsOn(k)
<1>1. /\ pc[k] = "audit" /\ Goto(k, "answer")
      /\ UNCHANGED <<listener, rows, open, peer, header, answer, tasks>>
      /\ \/ logged' = [logged EXCEPT ![k] = "written"]
         \/ logged' = [logged EXCEPT ![k] = "failed"]
    BY Zenon DEF AuditRefusal
<1>2. /\ logged' \in [Conn -> {"no", "spawned", "written", "failed"}]
      /\ logged'[k] \in {"written", "failed"}
      /\ \A j \in Conn \ {k} : logged'[j] = logged[j]
    BY <1>1, Zenon DEF TableTypeOK
<1>3. /\ pc' \in [Conn -> {"idle", "lookup", "resolve", "audit", "answer"}]
      /\ pc'[k] = "answer" /\ \A j \in Conn \ {k} : pc'[j] = pc[j]
    BY <1>1, GotoEffect, Zenon
<1>4. /\ certGood[k] => certGood'[k]
      /\ bound[k] \subseteq bound'[k]
    BY <1>1, <1>3, ObserveEffect, Zenon
<1>5. TableTypeOK'
    BY <1>1, <1>2, <1>3, Zenon DEF TableTypeOK
<1>6. Underway(k)' /\ Recorded(k)'
    BY <1>1, <1>2, <1>3, Zenon DEF Sound, Underway, Recorded
<1>7. Earned(k)'
    BY <1>1, <1>4, Zenon DEF Sound, Earned
<1> QED
    BY <1>1, <1>2, <1>3, <1>5, <1>6, <1>7, Zenon DEF ActsOn, Sound, Bystander

----------------------------------------------------------------------------
(* Together. *)

(* What is claimed of every connection, its types and its history. *)
Requests ==
    /\ TableTypeOK /\ HistoryTypeOK
    /\ <<listener, wiring>> \in Deployments
    /\ \A k \in Conn : Sound(k)

(* The invariant is that of the lists and that of the requests. *)
LEMMA InvParts == AdmissionInv <=> ListInv /\ Requests
BY Zenon DEF AdmissionInv, RequestInv, AdmissionIsEarned, RefusalsAreOnRecord, AdmissionTypeOK,
       Requests, TableTypeOK, HistoryTypeOK, Sound, Earned, Recorded, ListInv

(* A step in which no request takes part. *)
LEMMA AsideStep ==
    ASSUME Requests, Observe, TableTypeOK', UNCHANGED <<listener, wiring, open, peer, requestVars>>
    PROVE  Requests'
<1>1. \A j \in Conn : Bystander(j)
    BY Zenon DEF Bystander, requestVars
<1>2. \A j \in Conn : Sound(j)'
    BY <1>1, BystanderSound, Zenon DEF Requests
<1>3. HistoryTypeOK'
    BY ObserveEffect, Zenon DEF Requests
<1> QED
    BY <1>2, <1>3, Zenon DEF Requests

(* A step of one request. *)
LEMMA RequestStep ==
    ASSUME Requests, Observe, NEW k \in Conn, ActsOn(k), UNCHANGED <<listener, wiring>>
    PROVE  Requests'
<1>1. \A j \in Conn \ {k} : Sound(j)'
    BY BystanderSound, Zenon DEF Requests, ActsOn
<1>2. HistoryTypeOK'
    BY ObserveEffect, Zenon DEF Requests
<1> QED
    BY <1>1, <1>2, Zenon DEF Requests, ActsOn

(* At startup there are no connections. *)
LEMMA InitInv == Init => AdmissionInv
<1> SUFFICES ASSUME Init PROVE AdmissionInv
    OBVIOUS
<1>1. ListInv
    BY ListInit, Zenon
<1>2. TableTypeOK /\ HistoryTypeOK
    <2>1. rows \in [Agent -> [ident : Identity \cup {None}, revoked : BOOLEAN]]
        BY Zenon DEF Init
    <2>2. tasks \in 0..MaxTask
        BY AdmissionAssumption DEF Init
    <2> QED
        BY <2>1, <2>2, Zenon DEF Init, TableTypeOK, HistoryTypeOK
<1>3. <<listener, wiring>> \in Deployments
    <2>1. PICK d \in Deployments : listener = d[1] /\ wiring = d[2]
        BY Zenon DEF Init
    <2>2. d \in Listener \X Wirings
        BY AdmissionAssumption, Zenon
    <2>3. d = <<d[1], d[2]>>
        BY <2>2
    <2> QED
        BY <2>1, <2>3, Zenon
<1>4. \A k \in Conn : Sound(k)
    BY Zenon DEF Init, Sound, Underway, Earned, Recorded
<1> QED
    BY <1>1, <1>2, <1>3, <1>4, InvParts, Zenon DEF Requests

(* Every step preserves the invariant. *)
LEMMA NextInv ==
    ASSUME AdmissionInv, Next
    PROVE  AdmissionInv'
<1>0. AdmissionInv' <=> ListInv' /\ Requests'
    BY InvParts, PTL
<1> SUFFICES ListInv' /\ Requests'
    BY <1>0, Zenon
<1>1. ListInv /\ Requests
    BY InvParts, Zenon
<1>2. Step /\ Observe
    BY Zenon DEF Next
<1>3. TableTypeOK /\ HistoryTypeOK /\ \A k \in Conn : Sound(k)
    BY <1>1, Zenon DEF Requests
<1>4. faults \in 0..MaxFault
    BY <1>1, Zenon DEF ListInv, RevocationTypeOK
<1>5. ASSUME NEW k \in Conn, ActsOn(k), listener' = listener,
             UNCHANGED <<revocationVars, now>>, faults' \in 0..MaxFault
      PROVE  ListInv' /\ Requests'
    <2>1. wiring' = wiring
        BY <1>5, Zenon DEF revocationVars
    <2> QED
        BY <1>1, <1>2, <1>5, <2>1, ListKept, RequestStep, Zenon
<1>6. ASSUME TableTypeOK',
             UNCHANGED <<listener, open, peer, requestVars, revocationVars, now, faults>>
      PROVE  ListInv' /\ Requests'
    <2>1. wiring' = wiring
        BY <1>6, Zenon DEF revocationVars
    <2> QED
        BY <1>1, <1>2, <1>4, <1>6, <2>1, ListKept, AsideStep, Zenon
<1>7. ASSUME NEW k \in Conn, Handshake(k) PROVE ListInv' /\ Requests'
    BY <1>3, <1>4, <1>5, <1>7, HandshakeStep, Zenon DEF Handshake
<1>8. ASSUME NEW k \in Conn, Disconnect(k) \/ Respond(k) PROVE ListInv' /\ Requests'
    BY <1>3, <1>4, <1>5, <1>8, LeaveStep, Zenon DEF Disconnect, Respond
<1>9. ASSUME NEW k \in Conn, PublicRequest(k) PROVE ListInv' /\ Requests'
    BY <1>3, <1>4, <1>5, <1>9, PublicStep, Zenon DEF PublicRequest, Arrive
<1>10. ASSUME NEW k \in Conn, AgentCertRequest(k) PROVE ListInv' /\ Requests'
    BY <1>2, <1>3, <1>4, <1>5, <1>10, AgentCertStep, Zenon DEF AgentCertRequest, Arrive
<1>11. ASSUME NEW k \in Conn, AgentBearerRequest(k) PROVE ListInv' /\ Requests'
    BY <1>3, <1>4, <1>5, <1>11, AgentBearerStep, Zenon DEF AgentBearerRequest, Arrive
<1>12. ASSUME NEW k \in Conn, SharedBearerRequest(k) PROVE ListInv' /\ Requests'
    BY <1>3, <1>4, <1>5, <1>12, SharedBearerStep, Zenon DEF SharedBearerRequest, Arrive
<1>13. ASSUME NEW k \in Conn, LookUp(k) PROVE ListInv' /\ Requests'
    BY <1>2, <1>3, <1>4, <1>5, <1>13, LookUpStep, Zenon DEF LookUp
<1>14. ASSUME NEW k \in Conn, Resolve(k) PROVE ListInv' /\ Requests'
    BY <1>3, <1>4, <1>5, <1>14, ResolveStep, Zenon DEF Resolve
<1>15. ASSUME Fault PROVE faults' \in 0..MaxFault
    BY <1>4, <1>15, RevocationAssumption DEF Fault
<1>16. ASSUME NEW k \in Conn, StatementFails(k) PROVE ListInv' /\ Requests'
    BY <1>3, <1>5, <1>15, <1>16, FailureStep, Zenon DEF StatementFails
<1>17. ASSUME NEW k \in Conn, OperatorCertRequest(k) PROVE ListInv' /\ Requests'
    BY <1>2, <1>3, <1>4, <1>5, <1>17, OperatorCertStep, Zenon DEF OperatorCertRequest, Arrive
<1>18. ASSUME NEW k \in Conn, OperatorBearerRequest(k) PROVE ListInv' /\ Requests'
    BY <1>3, <1>4, <1>5, <1>18, OperatorBearerStep, Zenon DEF OperatorBearerRequest, Arrive
<1>19. ASSUME NEW k \in Conn, AuditRefusal(k) PROVE ListInv' /\ Requests'
    <2>1. faults' \in 0..MaxFault
        BY <1>4, <1>15, <1>19, Zenon DEF AuditRefusal
    <2> QED
        BY <1>2, <1>3, <1>5, <1>19, <2>1, AuditStep, Zenon DEF AuditRefusal
<1>20. CASE RunTask
    <2>1. TableTypeOK'
        <3>1. tasks \in 0..MaxTask /\ tasks > 0 /\ tasks' = tasks - 1 /\ MaxTask \in Nat
            BY <1>3, <1>20, AdmissionAssumption, Zenon DEF RunTask, TableTypeOK
        <3>2. tasks' \in 0..MaxTask
            BY <3>1
        <3> QED
            BY <1>3, <1>20, <3>2, Zenon DEF RunTask, TableTypeOK, requestVars
    <2> QED
        BY <1>6, <1>20, <2>1, Zenon DEF RunTask
<1>21. ASSUME NEW a \in Agent, SetCertIdentity(a) \/ RevokeAgent(a)
       PROVE  ListInv' /\ Requests'
    <2> DEFINE Row == [ident : Identity \cup {None}, revoked : BOOLEAN]
    <2>1. \E row \in Row : rows' = [rows EXCEPT ![a] = row]
        <3>1. CASE SetCertIdentity(a)
            <4>1. PICK i \in Identity \cup {None} : rows' = [rows EXCEPT ![a].ident = i]
                BY <3>1, Zenon DEF SetCertIdentity
            <4>2. [rows[a] EXCEPT !.ident = i] \in Row
                BY <1>3 DEF TableTypeOK
            <4> QED
                BY <4>1, <4>2, Zenon
        <3>2. CASE RevokeAgent(a)
            <4>1. rows' = [rows EXCEPT ![a].revoked = TRUE]
                BY <3>2, Zenon DEF RevokeAgent
            <4>2. [rows[a] EXCEPT !.revoked = TRUE] \in Row
                BY <1>3, Zenon DEF TableTypeOK
            <4> QED
                BY <4>1, <4>2, Zenon
        <3> QED
            BY <1>21, <3>1, <3>2, Zenon
    <2>2. rows' \in [Agent -> Row]
        BY <1>3, <2>1, Zenon DEF TableTypeOK
    <2>3. UNCHANGED <<listener, open, peer, requestVars, tasks, revocationVars, now, faults>>
        BY <1>21, Zenon DEF SetCertIdentity, RevokeAgent
    <2>4. TableTypeOK'
        BY <1>3, <2>2, <2>3, Zenon DEF TableTypeOK, requestVars
    <2> QED
        BY <1>6, <2>3, <2>4, Zenon
<1>22. CASE RevocationNext /\ UNCHANGED admissionVars
    <2>1. ListInv'
        BY <1>1, <1>22, ListStep, Zenon
    <2>2. wiring' = wiring
        BY <1>22, Zenon DEF RevocationNext, RevokeRead, RevokeOpen, RevokeWrite, RevokeDies, PollStat,
                     PollRead, PollStore, Publish, FetchCrl, ApplyCrl, Clock
    <2>3. TableTypeOK' /\ UNCHANGED <<listener, open, peer, requestVars>>
        BY <1>3, <1>22, Zenon DEF TableTypeOK, admissionVars, requestVars
    <2> QED
        BY <1>1, <1>2, <2>1, <2>2, <2>3, AsideStep, Zenon
<1> QED
    BY <1>2, <1>7, <1>8, <1>9, <1>10, <1>11, <1>12, <1>13, <1>14, <1>16, <1>17, <1>18, <1>19,
       <1>20, <1>21, <1>22, Zenon DEF Step

----------------------------------------------------------------------------
(* The theorems. *)

(* The invariant holds at every moment of every behaviour of the           *)
(* listeners.                                                              *)
THEOREM Invariance == Spec => []AdmissionInv
<1>1. AdmissionInv /\ UNCHANGED vars => AdmissionInv'
    <2> SUFFICES ASSUME AdmissionInv, UNCHANGED vars PROVE AdmissionInv'
        OBVIOUS
    <2>1. UNCHANGED <<wiring, file, cli, snap, loader, late, revokes, published, fetch, crl,
                      now, faults, listener, rows, open, peer, pc, header, answer, logged,
                      tasks, certGood, bound>>
        BY Zenon DEF vars, revocationVars, blockVars, crlVars, admissionVars, requestVars
    <2>2. ListInv'
        BY <2>1, Zenon DEF AdmissionInv, ListInv, RevocationTypeOK, SnapshotIsExact
    <2>3. (AdmissionTypeOK /\ RequestInv /\ RefusalsAreOnRecord)'
        BY <2>1, <2>2, Zenon DEF AdmissionInv, ListInv, AdmissionIsEarned, AdmissionTypeOK,
                          RequestInv, Underway, RefusalsAreOnRecord
    <2>4. AdmissionIsEarned'
        BY <2>1, <2>3, Zenon DEF AdmissionInv, AdmissionIsEarned
    <2> QED
        BY <2>2, <2>3, <2>4, Zenon DEF AdmissionInv
<1> QED
    BY InitInv, NextInv, <1>1, PTL DEF Spec

(* Nobody is admitted on the strength of the handshake alone: in every     *)
(* deployment, for any number of connections, certificates and agents, a   *)
(* request is admitted as what its certificate stood for since it began,   *)
(* or as its token's agent (auth_middleware, operator_auth_middleware).    *)
THEOREM Earned_Holds == Spec => []AdmissionIsEarned
<1>1. AdmissionInv => AdmissionIsEarned
    BY Zenon DEF AdmissionInv
<1> QED
    BY <1>1, Invariance, PTL

(* No refusal of the kinds that are recorded is sent before its audit row  *)
(* is written, or has failed, or has a task (audit_failure).               *)
THEOREM Recorded_Holds == Spec => []RefusalsAreOnRecord
<1>1. AdmissionInv => RefusalsAreOnRecord
    BY Zenon DEF AdmissionInv
<1> QED
    BY <1>1, Invariance, PTL

(* Whatever the commands that rewrite it do, the blocklist in memory is    *)
(* the file's when the poll finds nothing to do, unless the file changed   *)
(* where its mtime cannot tell (Blocklist::reload_if_changed).             *)
THEOREM Snapshot_Holds == Spec => []SnapshotIsExact
<1>1. AdmissionInv => SnapshotIsExact
    BY Zenon DEF AdmissionInv, ListInv
<1> QED
    BY <1>1, Invariance, PTL

(* A serial that the CA's list has revoked stays revoked (apply_pem). *)
THEOREM Crl_Holds == Spec => CrlNeverForgets
<1>1. AdmissionInv /\ [Next]_vars => [crl \subseteq crl']_crl
    <2> SUFFICES ASSUME AdmissionInv, [Next]_vars PROVE crl \subseteq crl'
        OBVIOUS
    <2>1. CASE UNCHANGED vars
        BY <2>1, Zenon DEF vars, revocationVars, crlVars
    <2>2. CASE RevocationNext
        BY <2>2, ApplyKeeps, Zenon DEF AdmissionInv
    <2>3. CASE Next /\ ~RevocationNext
        <3>1. UNCHANGED revocationVars
            BY <2>3, Zenon DEF Next, Step, Handshake, Disconnect, PublicRequest, AgentCertRequest,
                        AgentBearerRequest, SharedBearerRequest, LookUp, Resolve,
                        StatementFails, OperatorCertRequest, OperatorBearerRequest,
                        AuditRefusal, Respond, RunTask, SetCertIdentity, RevokeAgent, Arrive
        <3> QED
            BY <3>1, Zenon DEF revocationVars, crlVars
    <2> QED
        BY <2>1, <2>2, <2>3, Zenon
<1> QED
    BY <1>1, Invariance, PTL DEF Spec, CrlNeverForgets

=============================================================================
