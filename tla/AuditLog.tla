----------------------------- MODULE AuditLog -----------------------------
(***************************************************************************)
(* The audit trail: AuditRepository::record inserts a row and then appends *)
(* a line to the JSONL sink, which rotates its files by day and by size    *)
(* and prunes the oldest; the retention sweeper deletes old rows.          *)
(*                                                                         *)
(* The sink's mutex is held from the first look at its state to the end of *)
(* append and nothing in between awaits, so an append is one step.  Time   *)
(* is counted in UTC days, and in ticks of the file system's clock, which  *)
(* stamps the files: two writes in one tick leave the same mtime.          *)
(***************************************************************************)
EXTENDS CivilDate, FiniteSets

CONSTANTS
    Writer,         \* tasks that record events
    LineSize,       \* lengths of a serialized event
    MaxBytes,       \* jsonl_max_bytes
    KeepFiles,      \* jsonl_keep_files
    HasDirectory,   \* has the sink's path a directory part?
    MaxOverflow,    \* highest overflow index tried (10_000)
    Retention,      \* retention_days
    Today,          \* the day of the start, counted from 1970-01-01
    MaxEvent,       \* bound: events recorded
    MaxDay,         \* bound: the last day
    MaxTick,        \* bound: the last tick
    MaxRestart,     \* bound: restarts
    MaxFault,       \* bound: failed statements, I/O errors, dropped futures
    None

Day == 0..MaxDay
Event == [id : 1..MaxEvent, ts : Day]
File == [day : Day, idx : 0..MaxOverflow]

(* audit.jsonl.YYYY-MM-DD, with the overflow index if it has one *)
FileName(f) == [date |-> Ymd(Today + f.day), idx |-> f.idx]

ASSUME ConstantsAssumption ==
    /\ LineSize \subseteq Nat \ {0} /\ MaxBytes \in Nat \ {0}
    /\ KeepFiles \in Nat /\ HasDirectory \in BOOLEAN /\ MaxOverflow \in Nat
    /\ Today \in Int /\ Retention \in Nat /\ MaxEvent \in Nat /\ MaxDay \in Nat
    /\ MaxTick \in Nat /\ MaxRestart \in Nat /\ MaxFault \in Nat
    /\ None \notin [day : Nat, idx : Nat] \cup [id : Nat, ts : Nat] \cup Nat

VARIABLES
    db,         \* the audit table
    disk,       \* the sink's files, by name
    file,       \* the open file, or None
    written,    \* bytes in it
    today,      \* the day it was opened for
    unpruned,   \* history: files added since prune_oldest last ran to its end
    pc, event, size,    \* of each writer: next step, event, length of its line
    day,        \* utc_date()
    tick,       \* the file system's clock
    inserted,   \* history: every row inserted
    restarts, faults

sinkVars == <<disk, file, written, today, unpruned>>
writerVars == <<pc, event, size>>
timeVars == <<day, tick>>
vars == <<db, sinkVars, writerVars, timeVars, inserted, restarts, faults>>

(* A file on disk: its length, the events with a line (or a part of one)   *)
(* in it, and when it was written last.                                    *)
OnDisk == [bytes : Nat, lines : SUBSET (1..MaxEvent), mtime : 0..MaxTick]

TypeOK ==
    /\ db \subseteq Event /\ inserted \subseteq Event
    /\ DOMAIN disk \subseteq File /\ disk \in [DOMAIN disk -> OnDisk]
    /\ file \in File \cup {None} /\ written \in Nat /\ today \in Day
    /\ unpruned \in Nat
    /\ pc \in [Writer -> {"idle", "insert", "append"}]
    /\ event \in [Writer -> Event \cup {None}]
    /\ size \in [Writer -> LineSize \cup {None}]
    /\ day \in Day /\ tick \in 0..MaxTick
    /\ restarts \in 0..MaxRestart /\ faults \in 0..MaxFault

----------------------------------------------------------------------------
(* The sink's files. *)

Bytes(f, d) == IF f \in DOMAIN d THEN d[f].bytes ELSE 0

(* OpenOptions::create(true).append(true) *)
OpenFile(f, d) ==
    [g \in DOMAIN d \cup {f} |->
        IF g \in DOMAIN d THEN d[g] ELSE [bytes |-> 0, lines |-> {}, mtime |-> tick]]

(* A write to the open file, which may no longer have a name. *)
Grow(f, n, id, d) ==
    [g \in DOMAIN d |->
        IF g # f THEN d[g]
        ELSE [bytes |-> d[g].bytes + n, lines |-> d[g].lines \cup {id}, mtime |-> tick]]

(* The first overflow name that is free, or the primary file. *)
NextTarget(t, d) ==
    LET Free == {i \in 0..MaxOverflow : [day |-> t, idx |-> i] \notin DOMAIN d} IN
    [day |-> t,
     idx |-> IF Free = {} THEN 0 ELSE CHOOSE i \in Free : \A j \in Free : i <= j]

(* Faulty variant: one file too many stays. *)
Oldest_OneMore(V, d) ==
    {R \in SUBSET V :
        /\ Cardinality(R) =
             IF Cardinality(V) <= KeepFiles THEN 0 ELSE Cardinality(V) - KeepFiles - 1
        /\ \A f \in R, g \in V \ R : d[f].mtime <= d[g].mtime}

(* The files of V that go when they are sorted by mtime and KeepFiles of   *)
(* them stay; files of one tick come in any order.                         *)
Oldest(V, d) ==
    {R \in SUBSET V :
        /\ Cardinality(R) =
             IF Cardinality(V) <= KeepFiles THEN 0 ELSE Cardinality(V) - KeepFiles
        /\ \A f \in R, g \in V \ R : d[f].mtime <= d[g].mtime}

(* What prune_oldest may leave of d.  It does nothing when it is to keep   *)
(* no file or the path has no directory part.  If something fails, the     *)
(* directory is not read, only some files are looked at, or some of those  *)
(* that should go stay.                                                    *)
PruneOldest(d, whole) ==
    IF KeepFiles = 0 \/ ~HasDirectory THEN {d}
    ELSE LET Gone == IF whole THEN Oldest(DOMAIN d, d)
                     ELSE UNION {SUBSET R : R \in UNION {Oldest(V, d) : V \in SUBSET DOMAIN d}}
         IN  {[f \in DOMAIN d \ R |-> d[f]] : R \in Gone}

(* JsonlSink: the files, the open file, its size and its day. *)
Sink == [disk |-> disk, file |-> file, written |-> written, today |-> today,
         unpruned |-> unpruned]

(* rotate_to: the next name is opened, or nothing is; then old files go.   *)
(* "whole": prune_oldest meets no error.                                   *)
RotateTo(s, t, opens, whole) ==
    LET f == NextTarget(t, s.disk)
        d == IF opens THEN OpenFile(f, s.disk) ELSE s.disk
    IN  {[disk |-> e, file |-> IF opens THEN f ELSE None,
          written |-> IF opens THEN Bytes(f, d) ELSE 0, today |-> t,
          unpruned |-> IF whole THEN 0 ELSE IF opens THEN s.unpruned + 1 ELSE s.unpruned] :
            e \in PruneOldest(d, whole)}

(* Faulty variant: the line about to be written is not counted. *)
ForSize_Late(s, n, opens, whole) ==
    IF s.written > MaxBytes THEN RotateTo(s, day, opens, whole) ELSE {s}

(* append: rotate when the line does not fit. *)
ForSize(s, n, opens, whole) ==
    IF s.written + n > MaxBytes /\ s.written > 0 THEN RotateTo(s, day, opens, whole) ELSE {s}

(* Faulty variant: a sink that was given up is not opened on the next day. *)
ForDay_WhenOpen(s, opens, whole) ==
    IF day # s.today /\ s.file # None THEN RotateTo(s, day, opens, whole) ELSE {s}

(* append: rotate when the day is another one. *)
ForDay(s, opens, whole) ==
    IF day # s.today THEN RotateTo(s, day, opens, whole) ELSE {s}

(* append, up to the write. *)
Rotated(n, opens, whole) ==
    UNION {ForSize(s, n, opens, whole) : s \in ForDay(Sink, opens, whole)}

Become(s) ==
    /\ disk' = s.disk /\ file' = s.file /\ written' = s.written /\ today' = s.today
    /\ unpruned' = s.unpruned

(* JsonlSink::new opens the primary file of the day and prunes nothing. *)
NewSink(d, t, u) ==
    LET f == [day |-> t, idx |-> 0] IN
    [disk |-> OpenFile(f, d), file |-> f, written |-> Bytes(f, d), today |-> t,
     unpruned |-> u]

Init ==
    /\ db = {} /\ inserted = {}
    /\ day = 0
    /\ tick = 0
    /\ disk = [f \in {[day |-> 0, idx |-> 0]} |-> [bytes |-> 0, lines |-> {}, mtime |-> 0]]
    /\ file = [day |-> 0, idx |-> 0] /\ written = 0 /\ today = 0 /\ unpruned = 1
    /\ pc = [w \in Writer |-> "idle"]
    /\ event = [w \in Writer |-> None]
    /\ size = [w \in Writer |-> None]
    /\ restarts = 0 /\ faults = 0

----------------------------------------------------------------------------
Fault == faults < MaxFault /\ faults' = faults + 1

Done(w) ==
    /\ pc' = [pc EXCEPT ![w] = "idle"]
    /\ event' = [event EXCEPT ![w] = None]
    /\ size' = [size EXCEPT ![w] = None]

Used == {e.id : e \in inserted} \cup
        {event[w].id : w \in {v \in Writer : event[v] # None}}

Record(w) ==
    /\ pc[w] = "idle"
    /\ \E i \in (1..MaxEvent) \ Used, n \in LineSize :
        /\ 1..(i - 1) \subseteq Used
        /\ event' = [event EXCEPT ![w] = [id |-> i, ts |-> day]]
        /\ size' = [size EXCEPT ![w] = n]
    /\ pc' = [pc EXCEPT ![w] = "insert"]
    /\ UNCHANGED <<db, sinkVars, timeVars, inserted, restarts, faults>>

(* INSERT INTO audit; if it fails the event is logged elsewhere and given  *)
(* up.                                                                     *)
Insert(w) ==
    /\ pc[w] = "insert"
    /\ \/ /\ db' = db \cup {event[w]} /\ inserted' = inserted \cup {event[w]}
          /\ pc' = [pc EXCEPT ![w] = "append"]
          /\ UNCHANGED <<event, size, faults>>
       \/ Fault /\ Done(w) /\ UNCHANGED <<db, inserted>>
    /\ UNCHANGED <<sinkVars, timeVars, restarts>>

(* Bound: some overflow name of the day is free. *)
Room == Cardinality(DOMAIN disk) <= MaxOverflow

(* The sink once w has written n bytes of its line, or has not because     *)
(* there is no open file.                                                  *)
Written(s, w, n) ==
    IF s.file = None THEN s
    ELSE [s EXCEPT !.disk = Grow(s.file, n, event[w].id, s.disk), !.written = @ + n]

AppendLine(w) ==
    /\ pc[w] = "append" /\ Room
    /\ \E s \in Rotated(size[w], TRUE, TRUE) : Become(Written(s, w, size[w]))
    /\ Done(w)
    /\ UNCHANGED <<db, timeVars, inserted, restarts, faults>>

(* An I/O error: old files stay; the next file cannot be opened; the write *)
(* fails part of the way and the file is given up, its count not updated.  *)
AppendFails(w) ==
    /\ pc[w] = "append" /\ Room
    /\ Fault
    /\ \/ \E s \in Rotated(size[w], TRUE, FALSE) :
            s.file # file /\ Become(Written(s, w, size[w]))
       \/ \E whole \in BOOLEAN : \E s \in Rotated(size[w], FALSE, whole) :
            s # Sink /\ Become(s)
       \/ \E whole \in BOOLEAN : \E s \in Rotated(size[w], TRUE, whole) :
           /\ s.file # None
           /\ \E n \in 0..(size[w] - 1) :
                Become([s EXCEPT !.file = None,
                                 !.disk = IF n = 0 THEN @
                                          ELSE Grow(s.file, n, event[w].id, @)])
    /\ Done(w)
    /\ UNCHANGED <<db, timeVars, inserted, restarts>>

(* The request is dropped while it waits for the sink's mutex. *)
Cancel(w) ==
    /\ pc[w] = "append"
    /\ Fault
    /\ Done(w)
    /\ UNCHANGED <<db, sinkVars, timeVars, inserted, restarts>>

Restart ==
    /\ restarts < MaxRestart /\ restarts' = restarts + 1
    /\ Become(NewSink(disk, day, unpruned + 1))
    /\ pc' = [w \in Writer |-> "idle"]
    /\ event' = [w \in Writer |-> None]
    /\ size' = [w \in Writer |-> None]
    /\ UNCHANGED <<db, timeVars, inserted, faults>>

(* DELETE FROM audit WHERE ts < now - retention_days, whatever the class   *)
(* of the event.                                                           *)
Sweep ==
    /\ db' = {e \in db : e.ts + Retention >= day}
    /\ UNCHANGED <<sinkVars, writerVars, timeVars, inserted, restarts, faults>>

(* Time passes within a day, or a day ends. *)
Tick ==
    /\ tick < MaxTick /\ tick' = tick + 1
    /\ UNCHANGED <<db, sinkVars, writerVars, day, inserted, restarts, faults>>

NextDay ==
    /\ day < MaxDay /\ day' = day + 1
    /\ tick < MaxTick /\ tick' = tick + 1
    /\ UNCHANGED <<db, sinkVars, writerVars, inserted, restarts, faults>>

Next ==
    \/ \E w \in Writer : \/ Record(w) \/ Insert(w) \/ AppendLine(w) \/ AppendFails(w)
                         \/ Cancel(w)
    \/ Restart \/ Sweep \/ Tick \/ NextDay

Spec == Init /\ [][Next]_vars

----------------------------------------------------------------------------
(* Properties. *)

(* The files written last. *)
Newest(d) == {f \in DOMAIN d : \A g \in DOMAIN d : d[g].mtime <= d[f].mtime}

(* The byte count of the file that lines go to is the file's length:       *)
(* rotation by size looks at the count only.  Pruning never takes that     *)
(* file, unless KeepFiles others were written in the tick it was opened.   *)
ActiveFileIsAccounted ==
    file # None => IF file \in DOMAIN disk THEN written = disk[file].bytes
                   ELSE KeepFiles > 0 /\ Cardinality(Newest(disk)) >= KeepFiles

(* No file outgrows jsonl_max_bytes, except one that holds a single line.  *)
CapIsRespected ==
    \A f \in DOMAIN disk : disk[f].bytes > MaxBytes => \E id \in 1..MaxEvent : disk[f].lines = {id}

(* Every value has its type, the open file is accounted for and the cap is *)
(* kept, across rotations, partial writes, failed pruning and restarts in  *)
(* the middle of a day.                                                    *)
SinkInv == TypeOK /\ ActiveFileIsAccounted /\ CapIsRespected

(* "keep_files prunes the oldest rotated files so disk usage stays         *)
(* bounded" (audit_sink.rs): with a directory part in the path, no more    *)
(* files pile up than were added since the last pruning that met no error; *)
(* JsonlSink::new does not prune, so a start may add one too.              *)
DiskIsBounded ==
    HasDirectory /\ KeepFiles > 0 => Cardinality(DOMAIN disk) <= KeepFiles + unpruned

(* A file is named after the calendar date of its day, and no two files    *)
(* share a name: a file of another day is never taken for today's          *)
(* (ymd_from_unix_secs in active_path and next_target).                    *)
DateIsGregorian ==
    /\ FollowsCalendar
    /\ \A f, g \in DOMAIN disk : f # g => FileName(f) # FileName(g)

Mirrored(id, d) == \E f \in DOMAIN d : id \in d[f].lines

(* A line enters the mirror only for an event that was inserted; and an    *)
(* append that meets no error leaves its line there, unless the sink was   *)
(* given up the same day or its file was pruned while open.                *)
MirrorStep ==
    /\ \A id \in 1..MaxEvent :
        Mirrored(id, disk') /\ ~Mirrored(id, disk) => id \in {e.id : e \in inserted}
    /\ \A w \in Writer :
        pc[w] = "append" /\ pc'[w] = "idle" /\ faults' = faults /\ restarts' = restarts =>
            \/ Mirrored(event[w].id, disk')
            \/ file = None /\ today = day
            \/ file' # None /\ file' \notin DOMAIN disk'

(* The mirror follows the table: no line without its row's INSERT, whether *)
(* or not the row is there any more, and no line is lost in silence but on *)
(* the day of an I/O error: append reopens the sink on the next day.       *)
MirrorFollowsTable == [][MirrorStep]_vars

============================================================================
