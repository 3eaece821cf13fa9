--------------------------- MODULE CertRevocation ---------------------------
(***************************************************************************)
(* What a certificate validator knows of revoked serials: the emergency    *)
(* blocklist, a file that `locksmith mtls revoke` rewrites and that        *)
(* Blocklist::reload_if_changed reads again when its mtime has changed,    *)
(* and the CA's list, fetched by refresh_once.                             *)
(*                                                                         *)
(* A validator may be wired to either, or to none; the daemon wires it to  *)
(* none.  What nobody reads stands still here.                             *)
(***************************************************************************)
EXTENDS Naturals, Sequences, Functions

CONSTANTS
    Cert,           \* leaf certificates; a certificate stands for its serial
    Cli,            \* `mtls revoke` processes that may run at the same time
    Wirings,        \* the sets of sources given to a validator
    MaxRevoke,      \* bound: revoke commands
    MaxTime,        \* bound: the clock stops here
    MaxFault,       \* bound: commands killed, failed statements
    None

Second == 1..MaxTime
BlocklistFile == [lines : Seq(Cert), mtime : Second]
Command == [step : {"open", "write"}, text : Seq(Cert)]
Snapshot == [serials : SUBSET Cert, mtime : 0..MaxTime]

ASSUME RevocationAssumption ==
    /\ Wirings \subseteq SUBSET {"blocklist", "crl"}
    /\ MaxRevoke \in Nat /\ MaxTime \in Nat \ {0} /\ MaxFault \in Nat
    /\ None \notin Cert /\ None \notin BlocklistFile
    /\ None \notin [step : {"stat"}, serials : SUBSET Cert]

VARIABLES
    wiring,     \* with_blocklist, with_crl
    file,       \* the blocklist file: its lines and its mtime, or None
    cli,        \* what each command is about to do, or None
    snap,       \* Blocklist: the serials and the mtime of the last read
    loader,     \* reload_if_changed, in progress or None
    late,       \* history: the file changed after the last read of its text
                \* and its mtime will not tell
    revokes,    \* commands so far
    published,  \* the CA's list
    fetch,      \* the answer to refresh_once, or None
    crl,        \* CrlStore: the serials of the last good list
    now,        \* whole seconds
    faults

blockVars == <<file, cli, snap, loader, late, revokes>>
crlVars == <<published, fetch, crl>>
revocationVars == <<wiring, blockVars, crlVars>>

RevocationTypeOK ==
    /\ wiring \in Wirings
    /\ file \in BlocklistFile \cup {None}
    /\ cli \in [Cli -> Command \cup {None}]
    /\ snap \in Snapshot
    /\ loader \in [step : {"read"}] \cup [step : {"stat"}, serials : SUBSET Cert]
                  \cup {None}
    /\ late \in BOOLEAN /\ revokes \in 0..MaxRevoke
    /\ published \subseteq Cert /\ crl \subseteq Cert
    /\ fetch \in [kind : {"list", "junk", "failed"}, list : SUBSET Cert] \cup {None}
    /\ now \in Second /\ faults \in 0..MaxFault

Lines(f) == IF f = None THEN <<>> ELSE f.lines

(* Blocklist::open: a missing file is an empty list. *)
OpenList(f) ==
    [serials |-> Range(Lines(f)), mtime |-> IF f = None THEN 0 ELSE f.mtime]

RevocationInit ==
    /\ wiring \in Wirings
    /\ file \in {None} \cup
               (IF "blocklist" \in wiring THEN [lines : {<<c>> : c \in Cert}, mtime : {1}]
                ELSE {})
    /\ snap = OpenList(file)
    /\ cli = [r \in Cli |-> None]
    /\ loader = None /\ late = FALSE /\ revokes = 0
    /\ published = {} /\ fetch = None /\ crl = {}
    /\ now = 1 /\ faults = 0

Fault == faults < MaxFault /\ faults' = faults + 1

----------------------------------------------------------------------------
(* `locksmith mtls revoke`: read the file, add a line, write it all back.  *)

(* The file changes now; the poll will not see that it did if the snapshot *)
(* bears this second, or is about to.                                      *)
Touch(lines) ==
    /\ file' = [lines |-> lines, mtime |-> now]
    /\ late' = (late \/ snap.mtime = now \/ (loader # None /\ loader.step = "stat"))

RevokeRead(r) ==
    /\ "blocklist" \in wiring
    /\ cli[r] = None /\ revokes < MaxRevoke
    /\ revokes' = revokes + 1
    /\ \E c \in Cert :
        cli' = [cli EXCEPT ![r] = [step |-> "open", text |-> Append(Lines(file), c)]]
    /\ UNCHANGED <<wiring, file, snap, loader, late, crlVars, now, faults>>

(* std::fs::write opens with O_TRUNC... *)
RevokeOpen(r) ==
    /\ cli[r] # None /\ cli[r].step = "open"
    /\ Touch(<<>>)
    /\ cli' = [cli EXCEPT ![r].step = "write"]
    /\ UNCHANGED <<wiring, snap, loader, revokes, crlVars, now, faults>>

(* ...and writes at the start: what another command wrote since and is     *)
(* longer sticks out behind (lines have one length).                       *)
RevokeWrite(r) ==
    /\ cli[r] # None /\ cli[r].step = "write"
    /\ LET text == cli[r].text IN
        Touch(text \o SubSeq(file.lines, Len(text) + 1, Len(file.lines)))
    /\ cli' = [cli EXCEPT ![r] = None]
    /\ UNCHANGED <<wiring, snap, loader, revokes, crlVars, now, faults>>

RevokeDies(r) ==
    /\ cli[r] # None
    /\ Fault
    /\ cli' = [cli EXCEPT ![r] = None]
    /\ UNCHANGED <<wiring, file, snap, loader, late, revokes, crlVars, now>>

----------------------------------------------------------------------------
(* Blocklist::reload_if_changed. *)

(* The mtime in whole seconds; nothing to do if it is the snapshot's, or   *)
(* if there is no file.                                                    *)
PollStat ==
    /\ "blocklist" \in wiring
    /\ loader = None /\ file # None /\ file.mtime # snap.mtime
    /\ loader' = [step |-> "read"]
    /\ UNCHANGED <<wiring, file, cli, snap, late, revokes, crlVars, now, faults>>

PollRead ==
    /\ loader # None /\ loader.step = "read"
    /\ loader' = [step |-> "stat", serials |-> Range(file.lines)]
    /\ late' = FALSE
    /\ UNCHANGED <<wiring, file, cli, snap, revokes, crlVars, now, faults>>

(* Faulty variant: a serial once blocked stays in the set. *)
PollStore_Merges ==
    /\ loader # None /\ loader.step = "stat"
    /\ snap' = [serials |-> snap.serials \cup loader.serials, mtime |-> file.mtime]
    /\ loader' = None
    /\ UNCHANGED <<wiring, file, cli, late, revokes, crlVars, now, faults>>

(* The mtime is taken again, after the text was read. *)
PollStore ==
    /\ loader # None /\ loader.step = "stat"
    /\ snap' = [serials |-> loader.serials, mtime |-> file.mtime]
    /\ loader' = None
    /\ UNCHANGED <<wiring, file, cli, late, revokes, crlVars, now, faults>>

----------------------------------------------------------------------------
(* CrlStore.  One refresh at a time, as its documentation has it. *)

(* A revoked serial stays on the CA's list. *)
Publish ==
    /\ "crl" \in wiring
    /\ \E c \in Cert \ published : published' = published \cup {c}
    /\ UNCHANGED <<wiring, blockVars, fetch, crl, now, faults>>

(* refresh_once, up to the answer: the list, a page that holds no list, or *)
(* an error of any kind.                                                   *)
FetchCrl ==
    /\ "crl" \in wiring
    /\ fetch = None
    /\ \E kind \in {"list", "junk", "failed"} :
        fetch' = [kind |-> kind, list |-> IF kind = "list" THEN published ELSE {}]
    /\ UNCHANGED <<wiring, blockVars, published, crl, now, faults>>

(* Faulty variant: a page without a list counts as an empty list. *)
ApplyCrl_Junk ==
    /\ fetch # None
    /\ crl' = IF fetch.kind = "failed" THEN crl ELSE fetch.list
    /\ fetch' = None
    /\ UNCHANGED <<wiring, blockVars, published, now, faults>>

(* apply_pem: the prior list stands unless there is a good one. *)
ApplyCrl ==
    /\ fetch # None
    /\ crl' = IF fetch.kind = "list" THEN fetch.list ELSE crl
    /\ fetch' = None
    /\ UNCHANGED <<wiring, blockVars, published, now, faults>>

Clock ==
    /\ now < MaxTime
    /\ now' = now + 1
    /\ UNCHANGED <<wiring, blockVars, crlVars, faults>>

RevocationNext ==
    \/ \E r \in Cli : RevokeRead(r) \/ RevokeOpen(r) \/ RevokeWrite(r) \/ RevokeDies(r)
    \/ PollStat \/ PollRead \/ PollStore
    \/ Publish \/ FetchCrl \/ ApplyCrl
    \/ Clock

----------------------------------------------------------------------------
(* Properties. *)

(* When the poll finds nothing to do, the snapshot is what the file says:  *)
(* "watches the file's mtime and reloads when it changes" (blocklist.rs),  *)
(* except for a change in the second that was read already, or between the *)
(* read of the text and that of its mtime (`late`).                        *)
SnapshotIsExact ==
    loader = None /\ file # None /\ file.mtime = snap.mtime /\ ~late =>
        snap.serials = Range(file.lines)

(* A serial that the CA's list has revoked stays revoked: failed           *)
(* downloads, error pages and lists that were published while a refresh    *)
(* was under way take nothing back (apply_pem).                            *)
CrlNeverForgets == [][crl \subseteq crl']_crl

============================================================================
