-------------------------- MODULE AuditLog_proofs --------------------------
(***************************************************************************)
(* The theorems about AuditLog, for any number of writers, line lengths    *)
(* and limits: the JSONL files and the open one, the bound on their number *)
(* and what the mirror holds; then the calendar, on every day, and the     *)
(* names of the files.                                                     *)
(***************************************************************************)
EXTENDS AuditLog, FiniteSetTheorems, TLAPS

(* A file without bytes has no lines, the cap holds, and no file is from   *)
(* the future.                                                             *)
Filled(x) ==
    /\ x.bytes = 0 => x.lines = {}
    /\ x.bytes > MaxBytes => \E id \in 1..MaxEvent : x.lines = {id}
    /\ x.mtime <= tick

Sound(d) ==
    /\ DOMAIN d \subseteq File /\ IsFiniteSet(DOMAIN d) /\ d \in [DOMAIN d -> OnDisk]
    /\ \A f \in DOMAIN d : Filled(d[f])

(* The open file is counted, or was pruned with KeepFiles as new as it. *)
Counted(f, n, d) ==
    f # None => IF f \in DOMAIN d THEN n = d[f].bytes
                ELSE KeepFiles > 0 /\ Cardinality(Newest(d)) >= KeepFiles

Bounded(d, u) == HasDirectory /\ KeepFiles > 0 => Cardinality(DOMAIN d) <= KeepFiles + u

(* What holds of the sink between any two steps of append. *)
SinkOK(s) ==
    /\ Sound(s.disk)
    /\ s.file \in File \cup {None} /\ s.written \in Nat /\ s.today \in Day /\ s.unpruned \in Nat
    /\ Counted(s.file, s.written, s.disk)
    /\ Bounded(s.disk, s.unpruned)

WriterInv ==
    \A w \in Writer :
        /\ pc[w] # "idle" => event[w] \in Event /\ size[w] \in LineSize
        /\ pc[w] = "append" => event[w] \in inserted

AuditInv == TypeOK /\ SinkOK(Sink) /\ WriterInv
----------------------------------------------------------------------------
(* Lemmas about the operators. *)

LEMMA FileFields ==
    ASSUME NEW d, Sound(d), NEW f \in DOMAIN d
    PROVE  /\ d[f] \in OnDisk /\ d[f].bytes \in Nat /\ d[f].mtime \in Nat
           /\ d[f].lines \subseteq 1..MaxEvent /\ Filled(d[f])
<1>1. d[f] \in OnDisk /\ Filled(d[f])
    BY Zenon DEF Sound
<1>2. \A x \in OnDisk : x.bytes \in Nat /\ x.mtime \in Nat /\ x.lines \subseteq 1..MaxEvent
    BY ConstantsAssumption DEF OnDisk
<1> QED
    BY <1>1, <1>2, Zenon

LEMMA Finite ==
    ASSUME NEW d, Sound(d) PROVE IsFiniteSet(DOMAIN d) /\ Cardinality(DOMAIN d) \in Nat
<1>1. IsFiniteSet(DOMAIN d)
    BY Zenon DEF Sound
<1> QED
    BY <1>1, FS_CardinalityType, Zenon

(* A file that is not there is added empty, the others stay. *)
LEMMA Opened ==
    ASSUME NEW d, Sound(d), NEW f \in File, tick \in 0..MaxTick
    PROVE  LET e == OpenFile(f, d) IN
           /\ Sound(e) /\ DOMAIN e = DOMAIN d \cup {f}
           /\ \A g \in DOMAIN d : e[g] = d[g]
           /\ f \notin DOMAIN d => e[f].bytes = 0 /\ e[f].lines = {} /\ e[f].mtime = tick
           /\ Cardinality(DOMAIN e) <= Cardinality(DOMAIN d) + 1
           /\ e[f].bytes = Bytes(f, d)
<1> DEFINE x == [bytes |-> 0, lines |-> {}, mtime |-> tick]
           e == OpenFile(f, d)
<1>1. x \in OnDisk /\ x.bytes = 0 /\ x.lines = {} /\ x.mtime = tick
    BY DEF OnDisk
<1>2. Filled(x)
    BY <1>1, ConstantsAssumption DEF Filled
<1>3. /\ e = [g \in DOMAIN d \cup {f} |-> IF g \in DOMAIN d THEN d[g] ELSE x]
      /\ DOMAIN e = DOMAIN d \cup {f}
    BY Zenon DEF OpenFile
<1> HIDE DEF x
<1>4. \A g \in DOMAIN d \cup {f} : e[g] = IF g \in DOMAIN d THEN d[g] ELSE x
    BY <1>3, Zenon
<1>5. \A g \in DOMAIN d : d[g] \in OnDisk /\ Filled(d[g])
    BY FileFields, Zenon
<1>6. \A g \in DOMAIN d \cup {f} : e[g] \in OnDisk /\ Filled(e[g])
    BY <1>1, <1>2, <1>4, <1>5, Zenon
<1>7. e \in [DOMAIN e -> OnDisk]
    BY <1>3, <1>6, Zenon
<1>8. /\ IsFiniteSet(DOMAIN e)
      /\ Cardinality(DOMAIN e) = IF f \in DOMAIN d THEN Cardinality(DOMAIN d)
                                 ELSE Cardinality(DOMAIN d) + 1
    BY <1>3, Finite, FS_AddElement, Zenon
<1>9. Cardinality(DOMAIN e) <= Cardinality(DOMAIN d) + 1
    BY <1>8, Finite
<1>10. DOMAIN e \subseteq File
    BY <1>3, Zenon DEF Sound
<1> HIDE DEF e
<1>11. Sound(e)
    BY <1>3, <1>6, <1>7, <1>8, <1>10, Zenon DEF Sound
<1>12. e[f].bytes = Bytes(f, d)
    BY <1>1, <1>4, Zenon DEF Bytes
<1> QED
    BY <1>1, <1>3, <1>4, <1>9, <1>11, <1>12, Zenon DEF e

(* A part of the files. *)
LEMMA Restricted ==
    ASSUME NEW d, Sound(d), NEW R \in SUBSET DOMAIN d
    PROVE  LET e == [f \in DOMAIN d \ R |-> d[f]] IN
           /\ Sound(e) /\ DOMAIN e = DOMAIN d \ R /\ \A f \in DOMAIN e : e[f] = d[f]
           /\ IsFiniteSet(R) /\ Cardinality(R) \in Nat
           /\ Cardinality(DOMAIN e) \in Nat
           /\ Cardinality(DOMAIN e) = Cardinality(DOMAIN d) - Cardinality(R)
<1> DEFINE e == [f \in DOMAIN d \ R |-> d[f]]
           E == DOMAIN d \ R
<1>1. DOMAIN e = E /\ \A f \in E : e[f] = d[f]
    BY Zenon
<1>2. \A f \in DOMAIN e : e[f] \in OnDisk /\ Filled(e[f])
    BY <1>1, FileFields, Zenon
<1>3. E \in SUBSET DOMAIN d /\ IsFiniteSet(DOMAIN d) /\ Cardinality(DOMAIN d) \in Nat
    BY Finite, Zenon
<1>4. IsFiniteSet(E) /\ IsFiniteSet(R)
    BY <1>3, FS_Subset, Zenon
<1>5. Cardinality(E) \in Nat /\ Cardinality(R) \in Nat
    BY <1>4, FS_CardinalityType, Zenon
<1>6. E \cup R = DOMAIN d /\ E \cap R = {}
    BY Zenon
<1>7. Cardinality(DOMAIN d) = Cardinality(E) + Cardinality(R) - Cardinality({})
    BY <1>4, <1>6, FS_Union, Zenon
<1>8. Cardinality(E) = Cardinality(DOMAIN d) - Cardinality(R)
    <2>1. Cardinality({}) = 0
        BY FS_EmptySet, Zenon
    <2> HIDE DEF E
    <2> QED
        BY <1>3, <1>5, <1>7, <2>1
<1>9. e \in [DOMAIN e -> OnDisk] /\ DOMAIN e \subseteq File
    BY <1>1, <1>2, Zenon DEF Sound
<1> HIDE DEF e
<1>10. Sound(e)
    BY <1>1, <1>2, <1>4, <1>9, Zenon DEF Sound
<1> QED
    BY <1>1, <1>4, <1>5, <1>8, <1>10, Zenon DEF e

(* What stays is at least the KeepFiles newest of the files looked at.     *)
LEMMA Spared ==
    ASSUME NEW d, Sound(d), NEW V \in SUBSET DOMAIN d, NEW Q \in Oldest(V, d),
           NEW R \in SUBSET Q, NEW f \in R, d[f].mtime = tick, KeepFiles > 0, tick \in Nat
    PROVE  LET e == [g \in DOMAIN d \ R |-> d[g]] IN Cardinality(Newest(e)) >= KeepFiles
<1> DEFINE e == [g \in DOMAIN d \ R |-> d[g]]
           S == V \ Q
           excess == IF Cardinality(V) <= KeepFiles THEN 0 ELSE Cardinality(V) - KeepFiles
<1>1. /\ Q \in SUBSET V /\ Cardinality(Q) = excess
      /\ \A g \in Q, h \in V \ Q : d[g].mtime <= d[h].mtime
    BY Zenon DEF Oldest
<1>2. IsFiniteSet(V) /\ IsFiniteSet(Q) /\ IsFiniteSet(S)
    BY <1>1, Finite, FS_Subset, Zenon
<1>3. Cardinality(V) \in Nat /\ Cardinality(Q) \in Nat /\ Cardinality(S) \in Nat
    BY <1>2, FS_CardinalityType, Zenon
<1>4. S \cup Q = V /\ S \cap Q = {}
    BY <1>1, Zenon
<1>5. Cardinality(V) = Cardinality(S) + Cardinality(Q) - Cardinality({})
    BY <1>2, <1>4, FS_Union, Zenon
<1>6. Cardinality({}) = 0 /\ Cardinality(Q) # 0
    <2>1. Q # {}
        BY Zenon
    <2> QED
        BY <1>2, <2>1, FS_EmptySet, Zenon
<1> HIDE DEF S
<1>7. Cardinality(S) = KeepFiles
    <2>1. KeepFiles \in Nat
        BY ConstantsAssumption
    <2> QED
        BY <1>1, <1>3, <1>5, <1>6, <2>1
<1>8. DOMAIN e = DOMAIN d \ R /\ \A g \in DOMAIN e : e[g] = d[g]
    BY Zenon
<1>9. \A g \in DOMAIN d : d[g].mtime \in Nat /\ d[g].mtime <= tick
    BY FileFields, Zenon DEF Filled
<1>10. R \in SUBSET DOMAIN d /\ f \in Q
    BY <1>1, Zenon
<1>11. Sound(e)
    BY <1>10, Restricted, Zenon
<1> HIDE DEF e
<1>12. S \subseteq Newest(e)
    <2>0. \A g \in S : g \in DOMAIN e
        BY <1>8, Zenon DEF S
    <2> SUFFICES ASSUME NEW g \in S, NEW h \in DOMAIN e PROVE e[h].mtime <= e[g].mtime
        BY <2>0, Zenon DEF Newest
    <2>1. g \in V /\ g \notin Q /\ g \in DOMAIN e /\ g \in DOMAIN d /\ h \in DOMAIN d
        BY <1>8, Zenon DEF S
    <2>2. d[f].mtime <= d[g].mtime /\ e[g] = d[g] /\ e[h] = d[h]
        BY <1>1, <1>8, <1>10, <2>1, Zenon
    <2>3. d[g].mtime \in Nat /\ d[h].mtime \in Nat /\ d[h].mtime <= tick
        BY <1>9, <2>1, Zenon
    <2>4. d[h].mtime <= d[g].mtime
        BY <2>2, <2>3
    <2> QED
        BY <2>1, <2>2, <2>4, Zenon
<1>13. IsFiniteSet(Newest(e))
    <2>1. Newest(e) \in SUBSET DOMAIN e
        BY Zenon DEF Newest
    <2> QED
        BY <1>11, <2>1, Finite, FS_Subset, Zenon
<1>14. Cardinality(S) <= Cardinality(Newest(e)) /\ Cardinality(Newest(e)) \in Nat
    BY <1>12, <1>13, FS_Subset, FS_CardinalityType, Zenon
<1>15. Cardinality(Newest(e)) >= KeepFiles
    BY <1>3, <1>7, <1>14
<1> QED
    BY <1>15, Zenon DEF e

(* Pruning takes whole files, enough of them if nothing fails, and one of  *)
(* this tick only if KeepFiles others of this tick stay.                   *)
LEMMA Pruned ==
    ASSUME NEW d, Sound(d), NEW whole \in BOOLEAN, NEW e \in PruneOldest(d, whole), tick \in Nat
    PROVE  /\ Sound(e) /\ DOMAIN e \subseteq DOMAIN d /\ \A f \in DOMAIN e : e[f] = d[f]
           /\ Cardinality(DOMAIN e) <= Cardinality(DOMAIN d)
           /\ whole => Bounded(e, 0)
           /\ \A f \in DOMAIN d \ DOMAIN e : d[f].mtime = tick =>
                KeepFiles > 0 /\ Cardinality(Newest(e)) >= KeepFiles
<1>1. KeepFiles \in Nat /\ Cardinality(DOMAIN d) \in Nat
    BY ConstantsAssumption, Finite, Zenon
<1>2. CASE KeepFiles = 0 \/ ~HasDirectory
    <2>1. e = d
        BY <1>2, Zenon DEF PruneOldest
    <2>2. Cardinality(DOMAIN d) <= Cardinality(DOMAIN d)
        BY <1>1
    <2>3. Bounded(d, 0)
        BY <1>2 DEF Bounded
    <2> QED
        BY <2>1, <2>2, <2>3, Zenon
<1>3. CASE ~ (KeepFiles = 0 \/ ~HasDirectory)
    <2>1. KeepFiles > 0
        BY <1>1, <1>3
    <2>2. PICK V, Q, R : /\ V \in SUBSET DOMAIN d /\ Q \in Oldest(V, d) /\ R \in SUBSET Q
                         /\ e = [f \in DOMAIN d \ R |-> d[f]]
                         /\ whole => V = DOMAIN d /\ R = Q
        <3>1. CASE whole
            <4>1. PICK R \in Oldest(DOMAIN d, d) : e = [f \in DOMAIN d \ R |-> d[f]]
                BY <1>3, <3>1, Zenon DEF PruneOldest
            <4> QED
                BY <4>1, Zenon
        <3>2. CASE ~whole
            <4>1. PICK R \in UNION {SUBSET Q : Q \in UNION {Oldest(V, d) : V \in SUBSET DOMAIN d}} :
                    e = [f \in DOMAIN d \ R |-> d[f]]
                BY <1>3, <3>2, Zenon DEF PruneOldest
            <4>2. PICK Q \in UNION {Oldest(V, d) : V \in SUBSET DOMAIN d} : R \in SUBSET Q
                BY Zenon
            <4>3. PICK V \in SUBSET DOMAIN d : Q \in Oldest(V, d)
                BY Zenon
            <4> QED
                BY <3>2, <4>1, <4>2, <4>3, Zenon
        <3> QED
            BY <3>1, <3>2, Zenon
    <2>3. Q \in SUBSET V
        BY <2>2, Zenon DEF Oldest
    <2>4. R \in SUBSET DOMAIN d
        BY <2>2, <2>3, Zenon
    <2>5. /\ Sound(e) /\ DOMAIN e = DOMAIN d \ R /\ \A f \in DOMAIN e : e[f] = d[f]
          /\ Cardinality(R) \in Nat /\ Cardinality(DOMAIN e) \in Nat
          /\ Cardinality(DOMAIN e) = Cardinality(DOMAIN d) - Cardinality(R)
        BY <2>2, <2>4, Restricted, Zenon
    <2>6. whole => Bounded(e, 0)
        <3> SUFFICES ASSUME whole PROVE Cardinality(DOMAIN e) <= KeepFiles + 0
            BY Zenon DEF Bounded
        <3>1. Cardinality(R) = IF Cardinality(DOMAIN d) <= KeepFiles THEN 0
                               ELSE Cardinality(DOMAIN d) - KeepFiles
            BY <2>2, Zenon DEF Oldest
        <3> QED
            BY <1>1, <2>5, <3>1
    <2>7. \A f \in DOMAIN d \ DOMAIN e : d[f].mtime = tick => Cardinality(Newest(e)) >= KeepFiles
        <3> SUFFICES ASSUME NEW f \in DOMAIN d \ DOMAIN e, d[f].mtime = tick
                     PROVE  Cardinality(Newest(e)) >= KeepFiles
            BY Zenon
        <3>1. f \in R
            BY <2>5, Zenon
        <3> QED
            BY <2>1, <2>2, <3>1, Spared, Zenon
    <2>8. Cardinality(DOMAIN e) <= Cardinality(DOMAIN d) /\ DOMAIN e \subseteq DOMAIN d
        BY <1>1, <2>5
    <2> QED
        BY <2>1, <2>5, <2>6, <2>7, <2>8, Zenon
<1> QED
    BY <1>2, <1>3, Zenon

(* A line that fits, or that starts a file, keeps the cap. *)
LEMMA Grown ==
    ASSUME NEW d, Sound(d), NEW f \in DOMAIN d, NEW n \in Nat \ {0}, NEW id \in 1..MaxEvent,
           tick \in 0..MaxTick, d[f].bytes + n <= MaxBytes \/ d[f].bytes = 0
    PROVE  LET e == Grow(f, n, id, d) IN
           /\ Sound(e) /\ DOMAIN e = DOMAIN d
           /\ \A g \in DOMAIN d : g # f => e[g] = d[g]
           /\ e[f].bytes = d[f].bytes + n /\ e[f].lines = d[f].lines \cup {id}
<1> DEFINE e == Grow(f, n, id, d)
           x == [bytes |-> d[f].bytes + n, lines |-> d[f].lines \cup {id}, mtime |-> tick]
<1>1. /\ DOMAIN e = DOMAIN d /\ e[f] = x /\ \A g \in DOMAIN d : g # f => e[g] = d[g]
    BY Zenon DEF Grow
<1>2. d[f].bytes \in Nat /\ d[f].lines \subseteq 1..MaxEvent /\ Filled(d[f])
    BY FileFields, Zenon
<1>3. x.bytes = d[f].bytes + n /\ x.lines = d[f].lines \cup {id} /\ x.mtime = tick
    BY Zenon
<1>4. d[f].bytes + n \in Nat /\ d[f].lines \cup {id} \in SUBSET (1..MaxEvent)
    <2>1. d[f].bytes + n \in Nat
        BY <1>2
    <2>2. d[f].lines \cup {id} \in SUBSET (1..MaxEvent)
        BY <1>2, Zenon
    <2> QED
        BY <2>1, <2>2, Zenon
<1>5. x \in OnDisk
    BY <1>4, Zenon DEF OnDisk
<1> HIDE DEF x
<1>6. Filled(x)
    <2>1. x.bytes # 0 /\ x.mtime <= tick
        BY <1>2, <1>3
    <2>2. ASSUME x.bytes > MaxBytes PROVE x.lines = {id}
        <3>1. d[f].bytes = 0
            BY <1>2, <1>3, <2>2, ConstantsAssumption
        <3>2. d[f].lines = {}
            BY <1>2, <3>1, Zenon DEF Filled
        <3> QED
            BY <1>3, <3>2, Zenon
    <2> QED
        BY <2>1, <2>2, Zenon DEF Filled
<1>7. \A g \in DOMAIN e : e[g] \in OnDisk /\ Filled(e[g])
    <2>1. \A g \in DOMAIN d : d[g] \in OnDisk /\ Filled(d[g])
        BY FileFields, Zenon
    <2> QED
        BY <1>1, <1>5, <1>6, <2>1, Zenon
<1>8. e \in [DOMAIN e -> OnDisk]
    BY <1>7, Zenon DEF Grow
<1> HIDE DEF e
<1>9. Sound(e)
    BY <1>1, <1>7, <1>8, Zenon DEF Sound
<1> QED
    BY <1>1, <1>3, <1>9, Zenon DEF e

(* A write to a file without a name leaves the files as they are. *)
LEMMA GrownNothing ==
    ASSUME NEW d, Sound(d), NEW f, f \notin DOMAIN d, NEW n, NEW id
    PROVE  Grow(f, n, id, d) = d
<1>1. Grow(f, n, id, d) = [g \in DOMAIN d |-> d[g]]
    BY Zenon DEF Grow
<1>2. d \in [DOMAIN d -> OnDisk]
    BY Zenon DEF Sound
<1> QED
    BY <1>1, <1>2, Zenon

----------------------------------------------------------------------------

(* A rotation always finds a free name. *)

LEMMA Smallest ==
    ASSUME NEW S, S \subseteq Nat, S # {}
    PROVE  \E i \in S : \A j \in S : i <= j
<1> DEFINE R == {p \in Nat \X Nat : p[1] < p[2]}
<1>1. IsWellFoundedOn(R, Nat)
    BY NatLessThanWellFounded, Zenon DEF OpToRel
<1> HIDE DEF R
<1>2. PICK x \in S : \A y \in S : ~ (<<y, x>> \in R)
    BY <1>1, WFMin, Zenon
<1>3. ASSUME NEW y \in S PROVE x <= y
    <2>1. <<y, x>> \notin R
        BY <1>2, Zenon
    <2>2. ~ (y < x)
        BY <2>1 DEF R
    <2> QED
        BY <2>2
<1> QED
    BY <1>2, <1>3, Zenon

(* With fewer files than overflow names one of them is free. *)
LEMMA Free ==
    ASSUME NEW d, Sound(d), Cardinality(DOMAIN d) <= MaxOverflow, NEW t \in Day
    PROVE  NextTarget(t, d) \in File /\ NextTarget(t, d) \notin DOMAIN d
<1> DEFINE N(i) == [day |-> t, idx |-> i]
           S == 0..MaxOverflow
           T == DOMAIN d
           Open == {i \in S : N(i) \notin T}
<1>1. MaxOverflow \in Nat /\ IsFiniteSet(T) /\ Cardinality(T) \in Nat
    BY ConstantsAssumption, Finite, Zenon
<1>2. Open # {}
    <2> SUFFICES ASSUME \A i \in S : N(i) \in T PROVE FALSE
        BY Zenon
    <2> DEFINE g == [i \in S |-> N(i)]
    <2>1. g \in [S -> T] /\ \A i \in S : g[i] = N(i)
        BY Zenon
    <2>2. IsFiniteSet(S) /\ Cardinality(S) = MaxOverflow + 1
        <3>1. 0 \in Int /\ MaxOverflow \in Int
            BY <1>1
        <3>2. /\ IsFiniteSet(S)
              /\ Cardinality(S) = IF 0 > MaxOverflow THEN 0 ELSE MaxOverflow - 0 + 1
            BY <3>1, FS_Interval, Zenon
        <3> QED
            BY <1>1, <3>2
    <2>3. Cardinality(T) < Cardinality(S)
        BY <1>1, <2>2
    <2> HIDE DEF g, S, T
    <2>4. PICK x \in S, y \in S : x # y /\ g[x] = g[y]
        BY <1>1, <2>1, <2>2, <2>3, FS_PigeonHole
    <2>5. N(x) = N(y)
        BY <2>1, <2>4, Zenon
    <2>6. x = y
        BY <2>5
    <2> QED
        BY <2>4, <2>6, Zenon
<1>3. \E i \in Open : \A j \in Open : i <= j
    <2>1. Open \subseteq Nat
        BY <1>1
    <2> HIDE DEF Open
    <2> QED
        BY <1>2, <2>1, Smallest, Zenon
<1> DEFINE m == CHOOSE i \in Open : \A j \in Open : i <= j
<1>4. m \in Open
    BY <1>3, Zenon
<1>5. NextTarget(t, d) = N(m)
    BY <1>2, Zenon DEF NextTarget
<1> HIDE DEF m
<1>6. N(m) \in File
    BY <1>4 DEF File
<1> QED
    BY <1>4, <1>5, <1>6, Zenon

----------------------------------------------------------------------------
(* The steps of append. *)

Fields(s) == s = [disk |-> s.disk, file |-> s.file, written |-> s.written, today |-> s.today,
                  unpruned |-> s.unpruned]

Clocks == day \in Day /\ tick \in 0..MaxTick

(* rotate_to opens an empty file, or none, and adds no line. *)
LEMMA Rotates ==
    ASSUME NEW s, SinkOK(s), Cardinality(DOMAIN s.disk) <= MaxOverflow, Clocks, NEW t \in Day,
           NEW opens \in BOOLEAN, NEW whole \in BOOLEAN, NEW r \in RotateTo(s, t, opens, whole)
    PROVE  /\ SinkOK(r) /\ Fields(r) /\ r.written = 0
           /\ opens => r.file # None
           /\ \A id : Mirrored(id, r.disk) => Mirrored(id, s.disk)
<1> DEFINE f == NextTarget(t, s.disk)
           d == IF opens THEN OpenFile(f, s.disk) ELSE s.disk
           u == IF whole THEN 0 ELSE IF opens THEN s.unpruned + 1 ELSE s.unpruned
<1>1. PICK e \in PruneOldest(d, whole) :
        r = [disk |-> e, file |-> IF opens THEN f ELSE None,
             written |-> IF opens THEN Bytes(f, d) ELSE 0, today |-> t, unpruned |-> u]
    BY Zenon DEF RotateTo
<1>2. /\ Fields(r) /\ r.disk = e /\ r.today = t /\ r.unpruned = u
      /\ r.file = (IF opens THEN f ELSE None)
      /\ r.written = (IF opens THEN Bytes(f, d) ELSE 0)
    BY <1>1, Zenon DEF Fields
<1>3. /\ Sound(s.disk) /\ Bounded(s.disk, s.unpruned) /\ s.unpruned \in Nat
      /\ tick \in 0..MaxTick /\ tick \in Nat
    BY ConstantsAssumption DEF SinkOK, Clocks
<1>4. f \in File /\ f \notin DOMAIN s.disk /\ f # None
    <2>1. f \in File /\ f \notin DOMAIN s.disk
        BY <1>3, Free, Zenon
    <2>2. None \notin File
        BY ConstantsAssumption DEF File, Day
    <2> QED
        BY <2>1, <2>2, Zenon
<1> HIDE DEF f
<1>5. /\ Sound(d) /\ DOMAIN s.disk \subseteq DOMAIN d
      /\ Cardinality(DOMAIN d) <= (IF opens THEN Cardinality(DOMAIN s.disk) + 1
                                   ELSE Cardinality(DOMAIN s.disk))
      /\ \A g \in DOMAIN s.disk : d[g] = s.disk[g]
      /\ \A g \in DOMAIN d : g \in DOMAIN s.disk \/ d[g].lines = {}
      /\ opens => f \in DOMAIN d /\ d[f].bytes = 0 /\ d[f].mtime = tick /\ Bytes(f, d) = 0
    <2>1. CASE opens
        <3> DEFINE o == OpenFile(f, s.disk)
        <3>1. d = o
            BY <2>1, Zenon
        <3>2. /\ Sound(o) /\ DOMAIN o = DOMAIN s.disk \cup {f}
              /\ \A g \in DOMAIN s.disk : o[g] = s.disk[g]
              /\ o[f].bytes = 0 /\ o[f].lines = {} /\ o[f].mtime = tick
              /\ Cardinality(DOMAIN o) <= Cardinality(DOMAIN s.disk) + 1
            BY <1>3, <1>4, Opened, Zenon
        <3>3. Bytes(f, o) = 0
            BY <3>2, Zenon DEF Bytes
        <3> HIDE DEF o
        <3> QED
            BY <2>1, <3>1, <3>2, <3>3, Zenon
    <2>2. CASE ~opens
        <3>1. d = s.disk
            BY <2>2, Zenon
        <3>2. Cardinality(DOMAIN s.disk) <= Cardinality(DOMAIN s.disk)
            BY <1>3, Finite
        <3> QED
            BY <1>3, <2>2, <3>1, <3>2, Zenon
    <2> QED
        BY <2>1, <2>2, Zenon
<1> HIDE DEF d
<1>6. /\ Sound(e) /\ DOMAIN e \subseteq DOMAIN d /\ \A g \in DOMAIN e : e[g] = d[g]
      /\ Cardinality(DOMAIN e) <= Cardinality(DOMAIN d)
      /\ whole => Bounded(e, 0)
      /\ \A g \in DOMAIN d \ DOMAIN e : d[g].mtime = tick =>
            KeepFiles > 0 /\ Cardinality(Newest(e)) >= KeepFiles
    BY <1>3, <1>5, Pruned, Zenon
<1>7. u \in Nat /\ Bounded(e, u)
    <2>1. u \in Nat
        BY <1>3
    <2>2. CASE whole
        BY <1>6, <2>2, Zenon
    <2>3. CASE ~whole
        <3>1. /\ Cardinality(DOMAIN e) \in Nat /\ Cardinality(DOMAIN d) \in Nat
              /\ Cardinality(DOMAIN s.disk) \in Nat /\ KeepFiles \in Nat
            BY <1>3, <1>5, <1>6, Finite, ConstantsAssumption, Zenon
        <3> QED
            BY <1>3, <1>5, <1>6, <2>3, <3>1 DEF Bounded
    <2> QED
        BY <2>1, <2>2, <2>3, Zenon
<1> HIDE DEF u
<1>8. r.written = 0 /\ Counted(r.file, 0, e)
    <2>1. CASE opens
        <3>1. r.file = f /\ r.written = 0
            BY <1>2, <1>5, <2>1, Zenon
        <3>2. Counted(f, 0, e)
            BY <1>5, <1>6, <2>1, Zenon DEF Counted
        <3> QED
            BY <3>1, <3>2, Zenon
    <2>2. CASE ~opens
        BY <1>2, <2>2, Zenon DEF Counted
    <2> QED
        BY <2>1, <2>2, Zenon
<1>9. r.file \in File \cup {None} /\ (opens => r.file # None)
    BY <1>2, <1>4, Zenon
<1>10. SinkOK(r)
    <2>1. 0 \in Nat
        OBVIOUS
    <2> QED
        BY <1>2, <1>6, <1>7, <1>8, <1>9, <2>1, Zenon DEF SinkOK
<1>11. \A id : Mirrored(id, e) => Mirrored(id, s.disk)
    <2> SUFFICES ASSUME NEW id, NEW g \in DOMAIN e, id \in e[g].lines PROVE Mirrored(id, s.disk)
        BY Zenon DEF Mirrored
    <2>1. g \in DOMAIN d /\ id \in d[g].lines
        BY <1>6, Zenon
    <2>2. g \in DOMAIN s.disk /\ d[g] = s.disk[g]
        BY <1>5, <2>1, Zenon
    <2> QED
        BY <2>1, <2>2, Zenon DEF Mirrored
<1> QED
    BY <1>2, <1>8, <1>9, <1>10, <1>11, Zenon

(* What append writes to: the line fits, or the file is empty; and there   *)
(* is a file, if it could be opened, unless the sink was given up today.   *)
LEMMA Rotation ==
    ASSUME SinkOK(Sink), Room, Clocks, NEW n \in Nat,
           NEW opens \in BOOLEAN, NEW whole \in BOOLEAN, NEW r \in Rotated(n, opens, whole)
    PROVE  /\ SinkOK(r) /\ Fields(r)
           /\ r.written + n <= MaxBytes \/ r.written = 0
           /\ opens => r.file # None \/ (file = None /\ today = day)
           /\ \A id : Mirrored(id, r.disk) => Mirrored(id, disk)
<1> DEFINE R == RotateTo(Sink, day, opens, whole)
<1>1. /\ Sink.disk = disk /\ Sink.today = today /\ Sink.file = file /\ Fields(Sink)
      /\ Sink.written \in Nat
    <2>1. Sink.disk = disk /\ Sink.today = today /\ Sink.file = file /\ Fields(Sink)
        BY Zenon DEF Sink, Fields
    <2> QED
        BY <2>1, Zenon DEF SinkOK
<1>2. \A x \in R : /\ SinkOK(x) /\ Fields(x) /\ x.written = 0
                   /\ opens => x.file # None
                   /\ \A id : Mirrored(id, x.disk) => Mirrored(id, disk)
    <2>1. Cardinality(DOMAIN Sink.disk) <= MaxOverflow /\ day \in Day
        BY <1>1, Zenon DEF Room, Clocks
    <2> QED
        BY <1>1, <2>1, Rotates, Zenon
<1>3. PICK s \in ForDay(Sink, opens, whole) : r \in ForSize(s, n, opens, whole)
    BY Zenon DEF Rotated
<1> HIDE DEF R
<1>4. ~ (0 > 0) /\ MaxBytes \in Nat
    BY ConstantsAssumption
<1>5. CASE day # today
    <2>1. s \in R
        BY <1>1, <1>3, <1>5, Zenon DEF ForDay, R
    <2>2. r = s
        BY <1>2, <1>3, <1>4, <2>1, Zenon DEF ForSize
    <2> QED
        BY <1>2, <2>1, <2>2, Zenon
<1>6. CASE day = today
    <2>1. s = Sink
        BY <1>1, <1>3, <1>6, Zenon DEF ForDay
    <2>2. CASE Sink.written + n > MaxBytes /\ Sink.written > 0
        <3>1. r \in R
            BY <1>3, <2>1, <2>2, Zenon DEF ForSize, R
        <3> QED
            BY <1>2, <3>1, Zenon
    <2>3. CASE ~ (Sink.written + n > MaxBytes /\ Sink.written > 0)
        <3>1. r = Sink
            BY <1>3, <2>1, <2>3, Zenon DEF ForSize
        <3>2. Sink.written + n <= MaxBytes \/ Sink.written = 0
            BY <1>1, <1>4, <2>3
        <3> QED
            BY <1>1, <1>6, <3>1, <3>2, Zenon
    <2> QED
        BY <2>2, <2>3, Zenon
<1> QED
    BY <1>5, <1>6, Zenon

(* JsonlSink::new continues the day's primary file or adds it. *)
LEMMA Started ==
    ASSUME SinkOK(Sink), Clocks
    PROVE  LET s == NewSink(disk, day, unpruned + 1) IN
           SinkOK(s) /\ \A id : Mirrored(id, s.disk) => Mirrored(id, disk)
<1> DEFINE f == [day |-> day, idx |-> 0]
           s == NewSink(disk, day, unpruned + 1)
           e == OpenFile(f, disk)
<1>1. f \in File
    BY ConstantsAssumption DEF File, Clocks
<1>2. /\ s.disk = e /\ s.file = f /\ s.written = Bytes(f, disk) /\ s.today = day
      /\ s.unpruned = unpruned + 1
    BY Zenon DEF NewSink
<1> HIDE DEF f, s
<1>3. /\ Sound(disk) /\ unpruned \in Nat /\ Bounded(disk, unpruned)
    <2>1. Sink.disk = disk /\ Sink.unpruned = unpruned
        BY Zenon DEF Sink
    <2> QED
        BY <2>1, Zenon DEF SinkOK
<1>4. /\ Sound(e) /\ DOMAIN e = DOMAIN disk \cup {f} /\ e[f].bytes = Bytes(f, disk)
      /\ \A g \in DOMAIN disk : e[g] = disk[g]
      /\ f \notin DOMAIN disk => e[f].lines = {}
      /\ Cardinality(DOMAIN e) <= Cardinality(DOMAIN disk) + 1
    BY <1>1, <1>3, Opened, Zenon DEF Clocks
<1> HIDE DEF e
<1>5. Bounded(e, unpruned + 1) /\ unpruned + 1 \in Nat
    <2>1. /\ Cardinality(DOMAIN e) \in Nat /\ Cardinality(DOMAIN disk) \in Nat /\ KeepFiles \in Nat
        BY <1>3, <1>4, Finite, ConstantsAssumption, Zenon
    <2> QED
        BY <1>3, <1>4, <2>1 DEF Bounded
<1>6. Bytes(f, disk) \in Nat /\ Counted(f, Bytes(f, disk), e)
    <2>1. f \in DOMAIN e /\ e[f].bytes \in Nat
        BY <1>4, FileFields, Zenon
    <2> QED
        BY <1>4, <2>1, Zenon DEF Counted
<1>7. SinkOK(s)
    BY <1>1, <1>2, <1>4, <1>5, <1>6, Zenon DEF SinkOK, Clocks
<1>8. \A id : Mirrored(id, s.disk) => Mirrored(id, disk)
    BY <1>2, <1>4, Zenon DEF Mirrored
<1> QED
    BY <1>7, <1>8, Zenon DEF s

(* n bytes of a line are written. *)
LEMMA Wrote ==
    ASSUME NEW r, SinkOK(r), r.file # None, Clocks,
           NEW m \in Nat \ {0}, r.written + m <= MaxBytes \/ r.written = 0,
           NEW n \in 1..m, NEW id \in 1..MaxEvent
    PROVE  LET g == Grow(r.file, n, id, r.disk) IN
           /\ Sound(g) /\ Bounded(g, r.unpruned) /\ Counted(r.file, r.written + n, g)
           /\ r.written + n \in Nat
           /\ \A x : Mirrored(x, g) => x = id \/ Mirrored(x, r.disk)
           /\ Mirrored(id, g) \/ r.file \notin DOMAIN g
<1> DEFINE f == r.file
           d == r.disk
           g == Grow(f, n, id, d)
<1>1. /\ Sound(d) /\ r.written \in Nat /\ Bounded(d, r.unpruned) /\ Counted(f, r.written, d)
    BY Zenon DEF SinkOK
<1>2. n \in Nat \ {0} /\ (r.written + n <= MaxBytes \/ r.written = 0) /\ r.written + n \in Nat
    BY <1>1, ConstantsAssumption
<1>3. CASE f \in DOMAIN d
    <2>1. r.written = d[f].bytes
        BY <1>1, <1>3, Zenon DEF Counted
    <2>2. d[f].bytes + n <= MaxBytes \/ d[f].bytes = 0
        BY <1>2, <2>1, Zenon
    <2> HIDE DEF d, f
    <2>3. /\ Sound(g) /\ DOMAIN g = DOMAIN d
          /\ \A h \in DOMAIN d : h # f => g[h] = d[h]
          /\ g[f].bytes = d[f].bytes + n /\ g[f].lines = d[f].lines \cup {id}
        <3>1. tick \in 0..MaxTick /\ n \in Nat \ {0} /\ Sound(d)
            BY <1>1, <1>2, Zenon DEF Clocks
        <3> QED
            BY <1>3, <2>2, <3>1, Grown
    <2> HIDE DEF g
    <2>4. Bounded(g, r.unpruned) /\ Counted(f, r.written + n, g)
        BY <1>1, <1>3, <2>1, <2>3, Zenon DEF Bounded, Counted
    <2>5. Mirrored(id, g)
        BY <1>3, <2>3, Zenon DEF Mirrored
    <2>6. \A x : Mirrored(x, g) => x = id \/ Mirrored(x, d)
        <3> SUFFICES ASSUME NEW x, NEW h \in DOMAIN g, x \in g[h].lines, x # id
                     PROVE  Mirrored(x, d)
            BY Zenon DEF Mirrored
        <3>1. h \in DOMAIN d /\ x \in d[h].lines
            BY <2>3, Zenon
        <3> QED
            BY <3>1, Zenon DEF Mirrored
    <2> QED
        BY <1>2, <2>3, <2>4, <2>5, <2>6, Zenon DEF d, f, g
<1>4. CASE f \notin DOMAIN d
    <2>1. g = d
        BY <1>1, <1>4, GrownNothing, Zenon
    <2>2. Counted(f, r.written + n, d)
        BY <1>1, <1>4, Zenon DEF Counted
    <2> QED
        BY <1>1, <1>2, <1>4, <2>1, <2>2, Zenon
<1> QED
    BY <1>3, <1>4, Zenon

----------------------------------------------------------------------------
(* The steps of the system. *)

Rows == db \subseteq Event /\ inserted \subseteq Event

WritersOK ==
    /\ pc \in [Writer -> {"idle", "insert", "append"}]
    /\ event \in [Writer -> Event \cup {None}]
    /\ size \in [Writer -> LineSize \cup {None}]
    /\ WriterInv

Counters == Clocks /\ restarts \in 0..MaxRestart /\ faults \in 0..MaxFault

LEMMA Parts == AuditInv <=> Rows /\ WritersOK /\ Counters /\ SinkOK(Sink)
<1>1. /\ Sink.disk = disk /\ Sink.file = file /\ Sink.written = written /\ Sink.today = today
      /\ Sink.unpruned = unpruned
    BY Zenon DEF Sink
<1>2. SinkOK(Sink) => /\ DOMAIN disk \subseteq File /\ disk \in [DOMAIN disk -> OnDisk]
                      /\ file \in File \cup {None}
                      /\ written \in Nat /\ today \in Day /\ unpruned \in Nat
    BY <1>1, Zenon DEF SinkOK, Sound
<1> QED
    BY <1>2, Zenon DEF AuditInv, TypeOK, Rows, WritersOK, Counters, Clocks

LEMMA PartsAfter ==
    ASSUME Rows', WritersOK', Counters', SinkOK(Sink)' PROVE AuditInv'
<1>1. (/\ Sink.disk = disk /\ Sink.file = file /\ Sink.written = written /\ Sink.today = today
       /\ Sink.unpruned = unpruned)'
    BY Zenon DEF Sink
<1>2. /\ DOMAIN disk' \subseteq File /\ disk' \in [DOMAIN disk' -> OnDisk]
      /\ file' \in File \cup {None} /\ written' \in Nat /\ today' \in Day /\ unpruned' \in Nat
    BY <1>1, Zenon DEF SinkOK, Sound
<1> QED
    BY <1>2, Zenon DEF AuditInv, TypeOK, Rows, WritersOK, Counters, Clocks

(* In a step within a tick, the sink becomes s. *)
LEMMA Became ==
    ASSUME NEW s, SinkOK(s), Become(s), tick' = tick PROVE SinkOK(Sink)'
<1>1. (Sink = [disk |-> disk, file |-> file, written |-> written, today |-> today,
               unpruned |-> unpruned])'
    BY Zenon DEF Sink
<1>2. /\ Sink'.disk = s.disk /\ Sink'.file = s.file /\ Sink'.written = s.written
      /\ Sink'.today = s.today /\ Sink'.unpruned = s.unpruned
    BY <1>1, Zenon DEF Become
<1> QED
    BY <1>2, Zenon DEF SinkOK, Sound, Filled

(* The sink stands still; time may pass. *)
LEMMA SinkStays ==
    ASSUME SinkOK(Sink), UNCHANGED sinkVars, tick \in Nat, tick' \in Nat, tick <= tick'
    PROVE  SinkOK(Sink)'
<1>1. (Sink = [disk |-> disk, file |-> file, written |-> written, today |-> today,
               unpruned |-> unpruned])'
    BY Zenon DEF Sink
<1>2. Sink' = Sink
    BY <1>1, Zenon DEF Sink, sinkVars
<1>3. disk' = disk /\ Sink.disk = disk /\ Sound(disk)
    <2>1. Sink.disk = disk
        BY Zenon DEF Sink
    <2> QED
        BY <2>1, Zenon DEF SinkOK, sinkVars
<1>4. (\A f \in DOMAIN disk : Filled(disk[f]))'
    <2> SUFFICES ASSUME NEW f \in DOMAIN disk' PROVE Filled(disk[f])'
        BY Zenon
    <2>1. Filled(disk[f]) /\ disk[f].mtime \in Nat /\ disk'[f] = disk[f]
        BY <1>3, FileFields, Zenon
    <2>2. disk[f].mtime <= tick'
        BY <2>1 DEF Filled
    <2> QED
        BY <2>1, <2>2, Zenon DEF Filled
<1>5. Sound(disk)'
    BY <1>3, <1>4, Zenon DEF Sound
<1> QED
    BY <1>2, <1>3, <1>5, Zenon DEF SinkOK

LEMMA DoneKeeps ==
    ASSUME WritersOK, NEW w \in Writer, Done(w), inserted' = inserted PROVE WritersOK'
<1>1. /\ pc' \in [Writer -> {"idle", "insert", "append"}]
      /\ event' \in [Writer -> Event \cup {None}]
      /\ size' \in [Writer -> LineSize \cup {None}]
    BY Zenon DEF WritersOK, Done
<1>2. /\ pc'[w] = "idle"
      /\ \A v \in Writer : v # w => pc'[v] = pc[v] /\ event'[v] = event[v] /\ size'[v] = size[v]
    BY Zenon DEF WritersOK, Done
<1>3. WriterInv'
    BY <1>2, Zenon DEF WritersOK, WriterInv
<1> QED
    BY <1>1, <1>3, Zenon DEF WritersOK

LEMMA FaultKeeps ==
    ASSUME faults \in 0..MaxFault, Fault PROVE faults' \in 0..MaxFault
BY ConstantsAssumption DEF Fault

LEMMA TickIsNat == Clocks => tick \in Nat /\ tick <= tick
BY DEF Clocks

LEMMA RecordKeeps ==
    ASSUME AuditInv, NEW w \in Writer, Record(w) PROVE AuditInv'
<1>1. PICK i \in 1..MaxEvent, n \in LineSize :
        /\ event' = [event EXCEPT ![w] = [id |-> i, ts |-> day]]
        /\ size' = [size EXCEPT ![w] = n]
    BY Zenon DEF Record
<1>2. Rows /\ WritersOK /\ Counters /\ SinkOK(Sink)
    BY Parts, Zenon
<1>3. [id |-> i, ts |-> day] \in Event
    BY <1>2 DEF Counters, Clocks, Event
<1>4. WritersOK'
    <2>1. pc' = [pc EXCEPT ![w] = "insert"] /\ inserted' = inserted
        BY Zenon DEF Record
    <2>2. /\ pc' \in [Writer -> {"idle", "insert", "append"}]
          /\ event' \in [Writer -> Event \cup {None}]
          /\ size' \in [Writer -> LineSize \cup {None}]
        BY <1>1, <1>2, <1>3, <2>1, Zenon DEF WritersOK
    <2>3. /\ event'[w] \in Event /\ size'[w] \in LineSize /\ pc'[w] = "insert"
          /\ \A v \in Writer : v # w => pc'[v] = pc[v] /\ event'[v] = event[v] /\ size'[v] = size[v]
        BY <1>1, <1>2, <1>3, <2>1, Zenon DEF WritersOK
    <2>4. WriterInv'
        <3>1. "insert" # "append"
            OBVIOUS
        <3> QED
            BY <1>2, <2>1, <2>3, <3>1, Zenon DEF WritersOK, WriterInv
    <2> QED
        BY <2>2, <2>4, Zenon DEF WritersOK
<1>5. Rows' /\ Counters'
    BY <1>2, Zenon DEF Record, Rows, Counters, Clocks, timeVars
<1>6. SinkOK(Sink)'
    BY <1>2, SinkStays, TickIsNat, Zenon DEF Record, Counters, timeVars
<1> QED
    BY <1>4, <1>5, <1>6, PartsAfter, Zenon

LEMMA InsertKeeps ==
    ASSUME AuditInv, NEW w \in Writer, Insert(w) PROVE AuditInv'
<1>1. Rows /\ WritersOK /\ Counters /\ SinkOK(Sink)
    BY Parts, Zenon
<1>2. SinkOK(Sink)'
    BY <1>1, SinkStays, TickIsNat, Zenon DEF Insert, Counters, timeVars
<1>3. CASE /\ db' = db \cup {event[w]} /\ inserted' = inserted \cup {event[w]}
           /\ pc' = [pc EXCEPT ![w] = "append"]
           /\ UNCHANGED <<event, size, faults>>
    <2>1. pc[w] # "idle" /\ event[w] \in Event
        BY <1>1, Zenon DEF Insert, WritersOK, WriterInv
    <2>2. Rows'
        BY <1>1, <1>3, <2>1, Zenon DEF Rows
    <2>3. Counters'
        BY <1>1, <1>3, Zenon DEF Insert, Counters, Clocks, timeVars
    <2>4. WritersOK'
        <3>1. pc' \in [Writer -> {"idle", "insert", "append"}]
            BY <1>1, <1>3, Zenon DEF WritersOK
        <3>2. \A v \in Writer : v # w => pc'[v] = pc[v]
            BY <1>1, <1>3, Zenon DEF WritersOK
        <3>3. WriterInv'
            BY <1>1, <1>3, <2>1, <3>2, Zenon DEF WritersOK, WriterInv
        <3> QED
            BY <1>1, <1>3, <3>1, <3>3, Zenon DEF WritersOK
    <2> QED
        BY <1>2, <2>2, <2>3, <2>4, PartsAfter, Zenon
<1>4. CASE Fault /\ Done(w) /\ UNCHANGED <<db, inserted>>
    <2>1. WritersOK'
        BY <1>1, <1>4, DoneKeeps, Zenon
    <2>2. Counters'
        BY <1>1, <1>4, FaultKeeps, Zenon DEF Insert, Counters, Clocks, timeVars
    <2>3. Rows'
        BY <1>1, <1>4, Zenon DEF Rows
    <2> QED
        BY <1>2, <2>1, <2>2, <2>3, PartsAfter, Zenon
<1> QED
    BY <1>3, <1>4, Zenon DEF Insert

(* The state before a write: the sink after its rotations, and the line. *)
LEMMA Target ==
    ASSUME AuditInv, NEW w \in Writer, pc[w] = "append", Room,
           NEW opens \in BOOLEAN, NEW whole \in BOOLEAN, NEW r \in Rotated(size[w], opens, whole)
    PROVE  /\ size[w] \in Nat \ {0} /\ event[w].id \in 1..MaxEvent /\ event[w] \in inserted
           /\ SinkOK(r) /\ Fields(r) /\ Clocks
           /\ r.written + size[w] <= MaxBytes \/ r.written = 0
           /\ opens => r.file # None \/ (file = None /\ today = day)
           /\ \A id : Mirrored(id, r.disk) => Mirrored(id, disk)
<1>1. size[w] \in LineSize /\ event[w] \in Event /\ event[w] \in inserted
    <2>1. "append" # "idle"
        OBVIOUS
    <2> QED
        BY <2>1, Zenon DEF AuditInv, WriterInv
<1>2. size[w] \in Nat /\ size[w] \in Nat \ {0}
    BY <1>1, ConstantsAssumption, Zenon
<1>3. event[w].id \in 1..MaxEvent
    BY <1>1 DEF Event
<1>4. SinkOK(Sink) /\ Clocks
    BY Parts, Zenon DEF Counters
<1>5. /\ SinkOK(r) /\ Fields(r)
      /\ r.written + size[w] <= MaxBytes \/ r.written = 0
      /\ opens => r.file # None \/ (file = None /\ today = day)
      /\ \A id : Mirrored(id, r.disk) => Mirrored(id, disk)
    BY <1>2, <1>4, Rotation, Zenon
<1> QED
    BY <1>1, <1>2, <1>3, <1>4, <1>5, Zenon

(* The line is written, or there is no file to write it to. *)
LEMMA Writes ==
    ASSUME AuditInv, NEW w \in Writer, pc[w] = "append", Room, NEW whole \in BOOLEAN,
           NEW r \in Rotated(size[w], TRUE, whole), Become(Written(r, w, size[w])), tick' = tick
    PROVE  /\ SinkOK(Sink)'
           /\ \A id : Mirrored(id, disk') => Mirrored(id, disk) \/ id = event[w].id
           /\ \/ Mirrored(event[w].id, disk')
              \/ file = None /\ today = day
              \/ file' # None /\ file' \notin DOMAIN disk'
<1>1. /\ size[w] \in Nat \ {0} /\ event[w].id \in 1..MaxEvent
      /\ SinkOK(r) /\ Fields(r) /\ Clocks
      /\ r.written + size[w] <= MaxBytes \/ r.written = 0
      /\ r.file # None \/ (file = None /\ today = day)
      /\ \A id : Mirrored(id, r.disk) => Mirrored(id, disk)
    BY Target, Zenon
<1>2. CASE r.file = None
    <2>1. Become(r)
        BY <1>2, Zenon DEF Written
    <2>2. SinkOK(Sink)' /\ disk' = r.disk
        BY <1>1, <2>1, Became, Zenon DEF Become
    <2> QED
        BY <1>1, <1>2, <2>2, Zenon
<1>3. CASE r.file # None
    <2> DEFINE g == Grow(r.file, size[w], event[w].id, r.disk)
               s == [r EXCEPT !.disk = g, !.written = @ + size[w]]
    <2>1. Become(s)
        BY <1>3, Zenon DEF Written
    <2>2. size[w] \in 1..size[w]
        BY <1>1
    <2>3. /\ Sound(g) /\ Bounded(g, r.unpruned) /\ Counted(r.file, r.written + size[w], g)
          /\ r.written + size[w] \in Nat
          /\ \A x : Mirrored(x, g) => x = event[w].id \/ Mirrored(x, r.disk)
          /\ Mirrored(event[w].id, g) \/ r.file \notin DOMAIN g
        BY <1>1, <1>3, <2>2, Wrote, Zenon
    <2> HIDE DEF g
    <2>4. /\ s.disk = g /\ s.file = r.file /\ s.written = r.written + size[w]
          /\ s.today = r.today /\ s.unpruned = r.unpruned
        BY <1>1, Zenon DEF Fields
    <2> HIDE DEF s
    <2>5. SinkOK(s)
        BY <1>1, <2>3, <2>4, Zenon DEF SinkOK
    <2>6. SinkOK(Sink)'
        BY <2>1, <2>5, Became, Zenon
    <2>7. disk' = g /\ file' = r.file
        BY <2>1, <2>4, Zenon DEF Become
    <2> QED
        BY <1>1, <1>3, <2>3, <2>6, <2>7, Zenon
<1> QED
    BY <1>2, <1>3, Zenon

(* The next file cannot be opened. *)
LEMMA OpenFails ==
    ASSUME AuditInv, NEW w \in Writer, pc[w] = "append", Room, NEW whole \in BOOLEAN,
           NEW r \in Rotated(size[w], FALSE, whole), Become(r), tick' = tick
    PROVE  SinkOK(Sink)' /\ \A id : Mirrored(id, disk') => Mirrored(id, disk)
<1>1. SinkOK(r) /\ \A id : Mirrored(id, r.disk) => Mirrored(id, disk)
    BY Target, Zenon
<1> QED
    BY <1>1, Became, Zenon DEF Become

(* The write fails after n bytes. *)
LEMMA WriteFails ==
    ASSUME AuditInv, NEW w \in Writer, pc[w] = "append", Room, NEW whole \in BOOLEAN,
           NEW r \in Rotated(size[w], TRUE, whole), r.file # None, NEW n \in 0..(size[w] - 1),
           Become([r EXCEPT !.file = None,
                            !.disk = IF n = 0 THEN @ ELSE Grow(r.file, n, event[w].id, @)]),
           tick' = tick
    PROVE  /\ SinkOK(Sink)'
           /\ \A id : Mirrored(id, disk') => Mirrored(id, disk) \/ id = event[w].id
<1> DEFINE s == [r EXCEPT !.file = None,
                          !.disk = IF n = 0 THEN @ ELSE Grow(r.file, n, event[w].id, @)]
           g == IF n = 0 THEN r.disk ELSE Grow(r.file, n, event[w].id, r.disk)
<1>1. /\ size[w] \in Nat \ {0} /\ event[w].id \in 1..MaxEvent
      /\ SinkOK(r) /\ Fields(r) /\ Clocks
      /\ r.written + size[w] <= MaxBytes \/ r.written = 0
      /\ \A id : Mirrored(id, r.disk) => Mirrored(id, disk)
    BY Target, Zenon
<1>2. /\ Sound(g) /\ Bounded(g, r.unpruned)
      /\ \A x : Mirrored(x, g) => x = event[w].id \/ Mirrored(x, r.disk)
    <2>1. CASE n = 0
        BY <1>1, <2>1, Zenon DEF SinkOK
    <2>2. CASE n # 0
        <3>1. n \in 1..size[w]
            BY <1>1, <2>2
        <3> QED
            BY <1>1, <2>2, <3>1, Wrote, Zenon
    <2> QED
        BY <2>1, <2>2, Zenon
<1>3. /\ s.disk = g /\ s.file = None /\ s.written = r.written /\ s.today = r.today
      /\ s.unpruned = r.unpruned
    BY <1>1, Zenon DEF Fields
<1>4. Become(s)
    BY Zenon
<1> HIDE DEF g, s
<1>5. SinkOK(s)
    BY <1>1, <1>2, <1>3, Zenon DEF SinkOK, Counted
<1>6. SinkOK(Sink)' /\ disk' = g
    BY <1>3, <1>4, <1>5, Became, Zenon DEF Become
<1> QED
    BY <1>1, <1>2, <1>6, Zenon

LEMMA AppendLineKeeps ==
    ASSUME AuditInv, NEW w \in Writer, AppendLine(w)
    PROVE  /\ AuditInv'
           /\ \A id : Mirrored(id, disk') => Mirrored(id, disk) \/ id = event[w].id
           /\ \/ Mirrored(event[w].id, disk')
              \/ file = None /\ today = day
              \/ file' # None /\ file' \notin DOMAIN disk'
<1>1. Rows /\ WritersOK /\ Counters
    BY Parts, Zenon
<1>2. Rows' /\ Counters' /\ tick' = tick
    BY <1>1, Zenon DEF AppendLine, Rows, Counters, Clocks, timeVars
<1>3. WritersOK'
    BY <1>1, DoneKeeps, Zenon DEF AppendLine
<1>4. PICK r \in Rotated(size[w], TRUE, TRUE) : Become(Written(r, w, size[w]))
    BY Zenon DEF AppendLine
<1>5. /\ SinkOK(Sink)'
      /\ \A id : Mirrored(id, disk') => Mirrored(id, disk) \/ id = event[w].id
      /\ \/ Mirrored(event[w].id, disk')
         \/ file = None /\ today = day
         \/ file' # None /\ file' \notin DOMAIN disk'
    BY <1>2, <1>4, Writes, Zenon DEF AppendLine
<1> QED
    BY <1>2, <1>3, <1>5, PartsAfter, Zenon

LEMMA AppendFailsKeeps ==
    ASSUME AuditInv, NEW w \in Writer, AppendFails(w)
    PROVE  AuditInv' /\ \A id : Mirrored(id, disk') => Mirrored(id, disk) \/ id = event[w].id
<1>1. Rows /\ WritersOK /\ Counters
    BY Parts, Zenon
<1>2. Rows' /\ Counters' /\ tick' = tick
    BY <1>1, FaultKeeps, Zenon DEF AppendFails, Rows, Counters, Clocks, timeVars
<1>3. WritersOK'
    BY <1>1, DoneKeeps, Zenon DEF AppendFails
<1>4. pc[w] = "append" /\ Room
    BY Zenon DEF AppendFails
<1>5. SinkOK(Sink)' /\ \A id : Mirrored(id, disk') => Mirrored(id, disk) \/ id = event[w].id
    <2>1. CASE \E s \in Rotated(size[w], TRUE, FALSE) :
                    s.file # file /\ Become(Written(s, w, size[w]))
        BY <1>2, <1>4, <2>1, Writes, Zenon
    <2>2. CASE \E whole \in BOOLEAN : \E s \in Rotated(size[w], FALSE, whole) : s # Sink /\ Become(s)
        BY <1>2, <1>4, <2>2, OpenFails, Zenon
    <2>3. CASE \E whole \in BOOLEAN : \E s \in Rotated(size[w], TRUE, whole) :
                /\ s.file # None
                /\ \E n \in 0..(size[w] - 1) :
                     Become([s EXCEPT !.file = None,
                                      !.disk = IF n = 0 THEN @
                                               ELSE Grow(s.file, n, event[w].id, @)])
        BY <1>2, <1>4, <2>3, WriteFails, Zenon
    <2> QED
        BY <2>1, <2>2, <2>3, Zenon DEF AppendFails
<1> QED
    BY <1>2, <1>3, <1>5, PartsAfter, Zenon

LEMMA CancelKeeps ==
    ASSUME AuditInv, NEW w \in Writer, Cancel(w) PROVE AuditInv'
<1>1. Rows /\ WritersOK /\ Counters /\ SinkOK(Sink)
    BY Parts, Zenon
<1>2. Rows' /\ Counters'
    BY <1>1, FaultKeeps, Zenon DEF Cancel, Rows, Counters, Clocks, timeVars
<1>3. WritersOK'
    BY <1>1, DoneKeeps, Zenon DEF Cancel
<1>4. SinkOK(Sink)'
    BY <1>1, SinkStays, TickIsNat, Zenon DEF Cancel, Counters, timeVars
<1> QED
    BY <1>2, <1>3, <1>4, PartsAfter, Zenon

LEMMA RestartKeeps ==
    ASSUME AuditInv, Restart
    PROVE  AuditInv' /\ \A id : Mirrored(id, disk') => Mirrored(id, disk)
<1>1. Rows /\ Counters /\ SinkOK(Sink)
    BY Parts, Zenon
<1> DEFINE s == NewSink(disk, day, unpruned + 1)
<1>2. SinkOK(s) /\ \A id : Mirrored(id, s.disk) => Mirrored(id, disk)
    BY <1>1, Started, Zenon DEF Counters
<1>3. restarts' = restarts + 1 /\ restarts < MaxRestart /\ Become(s) /\ tick' = tick
    BY Zenon DEF Restart, timeVars
<1>4. Rows'
    BY <1>1, Zenon DEF Restart, Rows
<1>5. Counters'
    <2>1. Clocks' /\ faults' \in 0..MaxFault
        BY <1>1, Zenon DEF Restart, Counters, Clocks, timeVars
    <2>2. restarts' \in 0..MaxRestart
        BY <1>1, <1>3, ConstantsAssumption DEF Counters
    <2> QED
        BY <2>1, <2>2, Zenon DEF Counters
<1>6. WritersOK'
    <2>1. "idle" # "append"
        OBVIOUS
    <2> QED
        BY <2>1, Zenon DEF Restart, WritersOK, WriterInv
<1> HIDE DEF s
<1>7. SinkOK(Sink)' /\ disk' = s.disk
    BY <1>2, <1>3, Became, Zenon DEF Become
<1> QED
    BY <1>2, <1>4, <1>5, <1>6, <1>7, PartsAfter, Zenon

(* The sweeper and the clock leave the sink alone. *)
LEMMA TimeKeeps ==
    ASSUME AuditInv, Sweep \/ Tick \/ NextDay \/ UNCHANGED vars PROVE AuditInv'
<1>1. Rows /\ WritersOK /\ Counters /\ SinkOK(Sink)
    BY Parts, Zenon
<1>2. /\ Rows' /\ WritersOK'
      /\ sinkVars' = sinkVars /\ restarts' = restarts /\ faults' = faults
    BY <1>1, Zenon DEF Sweep, Tick, NextDay, vars, writerVars, Rows, WritersOK, WriterInv
<1>3. Clocks' /\ tick \in Nat /\ tick' \in Nat /\ tick <= tick'
    <2>1. /\ day' = day \/ (day < MaxDay /\ day' = day + 1)
          /\ tick' = tick \/ (tick < MaxTick /\ tick' = tick + 1)
        BY Zenon DEF Sweep, Tick, NextDay, vars, timeVars
    <2> QED
        BY <1>1, <2>1, ConstantsAssumption DEF Counters, Clocks, Day
<1>4. Counters'
    BY <1>1, <1>2, <1>3, Zenon DEF Counters
<1>5. SinkOK(Sink)'
    BY <1>1, <1>2, <1>3, SinkStays, Zenon
<1> QED
    BY <1>2, <1>4, <1>5, PartsAfter, Zenon

LEMMA InitHolds == Init => AuditInv
<1> SUFFICES ASSUME Init PROVE AuditInv
    BY Zenon
<1> DEFINE f == [day |-> 0, idx |-> 0]
           x == [bytes |-> 0, lines |-> {}, mtime |-> 0]
<1>1. /\ MaxDay \in Nat /\ MaxTick \in Nat /\ MaxOverflow \in Nat /\ KeepFiles \in Nat
      /\ MaxRestart \in Nat /\ MaxFault \in Nat /\ MaxBytes \in Nat
    BY ConstantsAssumption
<1>2. disk = [g \in {f} |-> x] /\ file = f /\ written = 0 /\ today = 0 /\ unpruned = 1
    BY Zenon DEF Init
<1>3. f \in File /\ x \in OnDisk /\ x.bytes = 0 /\ x.lines = {} /\ x.mtime = 0
    BY <1>1 DEF File, OnDisk, Day
<1>4. Filled(x)
    <2>1. tick = 0
        BY Zenon DEF Init
    <2> HIDE DEF x
    <2> QED
        BY <1>1, <1>3, <2>1 DEF Filled
<1> HIDE DEF f, x
<1>5. DOMAIN disk = {f} /\ disk[f] = x /\ disk \in [DOMAIN disk -> OnDisk]
    BY <1>2, <1>3, Zenon
<1>6. IsFiniteSet({f}) /\ Cardinality({f}) = 1
    BY FS_Singleton, Zenon
<1>7. Sound(disk)
    BY <1>3, <1>4, <1>5, <1>6, Zenon DEF Sound
<1>8. Bounded(disk, 1) /\ Counted(f, 0, disk)
    <2>1. 1 <= KeepFiles + 1
        BY <1>1
    <2> QED
        BY <1>3, <1>5, <1>6, <2>1, Zenon DEF Bounded, Counted
<1>9. SinkOK(Sink)
    <2>1. 0 \in Nat /\ 1 \in Nat /\ 0 \in Day
        BY <1>1 DEF Day
    <2>2. /\ Sink.disk = disk /\ Sink.file = f /\ Sink.written = 0 /\ Sink.today = 0
          /\ Sink.unpruned = 1
        BY <1>2, Zenon DEF Sink
    <2> QED
        BY <1>3, <1>7, <1>8, <2>1, <2>2, Zenon DEF SinkOK
<1>10. Rows /\ WritersOK
    BY DEF Init, Rows, WritersOK, WriterInv
<1>11. Counters
    BY <1>1 DEF Init, Counters, Clocks, Day
<1> QED
    BY <1>9, <1>10, <1>11, Parts, Zenon

LEMMA StepKeeps == AuditInv /\ [Next]_vars => AuditInv'
<1> SUFFICES ASSUME AuditInv, [Next]_vars PROVE AuditInv'
    BY Zenon
<1>1. ASSUME NEW w \in Writer, Record(w) PROVE AuditInv'
    BY <1>1, RecordKeeps, Zenon
<1>2. ASSUME NEW w \in Writer, Insert(w) PROVE AuditInv'
    BY <1>2, InsertKeeps, Zenon
<1>3. ASSUME NEW w \in Writer, AppendLine(w) PROVE AuditInv'
    BY <1>3, AppendLineKeeps, Zenon
<1>4. ASSUME NEW w \in Writer, AppendFails(w) PROVE AuditInv'
    BY <1>4, AppendFailsKeeps, Zenon
<1>5. ASSUME NEW w \in Writer, Cancel(w) PROVE AuditInv'
    BY <1>5, CancelKeeps, Zenon
<1>6. CASE Restart
    BY <1>6, RestartKeeps, Zenon
<1>7. CASE Sweep \/ Tick \/ NextDay \/ UNCHANGED vars
    BY <1>7, TimeKeeps, Zenon
<1> QED
    BY <1>1, <1>2, <1>3, <1>4, <1>5, <1>6, <1>7, Zenon DEF Next

(* A step that leaves the sink alone adds no line. *)
LEMMA SameLines ==
    ASSUME UNCHANGED sinkVars PROVE \A id : Mirrored(id, disk') => Mirrored(id, disk)
BY Zenon DEF sinkVars

LEMMA MirrorKept == AuditInv /\ [Next]_vars => [MirrorStep]_vars
<1> SUFFICES ASSUME AuditInv, Next PROVE MirrorStep
    BY Zenon
<1> DEFINE Lines(id) == Mirrored(id, disk') => Mirrored(id, disk) \/ id \in {e.id : e \in inserted}
           Finishes(w) == pc[w] = "append" /\ pc'[w] = "idle" /\ faults' = faults /\ restarts' = restarts
           Kept(w) == \/ Mirrored(event[w].id, disk')
                      \/ file = None /\ today = day
                      \/ file' # None /\ file' \notin DOMAIN disk'
<1>1. WritersOK /\ Counters
    BY Parts, Zenon
<1>2. \A w \in Writer : pc[w] = "append" => event[w].id \in {e.id : e \in inserted}
    BY <1>1, Zenon DEF WritersOK, WriterInv
<1>3. faults \in Nat /\ restarts \in Nat /\ (Fault => faults' # faults)
    BY <1>1, ConstantsAssumption DEF Counters, Fault
<1>4. "insert" # "append" /\ "idle" # "append" /\ "idle" # "insert"
    OBVIOUS
<1> SUFFICES (\A id \in 1..MaxEvent : Lines(id)) /\ \A v \in Writer : Finishes(v) => Kept(v)
    BY Zenon DEF MirrorStep
<1>5. ASSUME NEW w \in Writer, Record(w)
      PROVE  (\A id \in 1..MaxEvent : Lines(id)) /\ \A v \in Writer : Finishes(v) => Kept(v)
    <2>1. \A v \in Writer : pc[v] = "append" => pc'[v] = pc[v]
        BY <1>1, <1>4, <1>5, Zenon DEF Record, WritersOK
    <2> QED
        BY <1>4, <1>5, <2>1, SameLines, Zenon DEF Record
<1>6. ASSUME NEW w \in Writer, Insert(w)
      PROVE  (\A id \in 1..MaxEvent : Lines(id)) /\ \A v \in Writer : Finishes(v) => Kept(v)
    <2>1. \A v \in Writer : pc[v] = "append" => pc'[v] = pc[v]
        BY <1>1, <1>4, <1>6, Zenon DEF Insert, Done, WritersOK
    <2> QED
        BY <1>4, <1>6, <2>1, SameLines, Zenon DEF Insert
<1>7. ASSUME NEW w \in Writer, AppendLine(w)
      PROVE  (\A id \in 1..MaxEvent : Lines(id)) /\ \A v \in Writer : Finishes(v) => Kept(v)
    <2>1. /\ \A id : Mirrored(id, disk') => Mirrored(id, disk) \/ id = event[w].id
          /\ Kept(w)
        BY <1>7, AppendLineKeeps, Zenon
    <2>2. \A v \in Writer : v # w => pc'[v] = pc[v]
        BY <1>1, <1>7, Zenon DEF AppendLine, Done, WritersOK
    <2>3. \A v \in Writer : Finishes(v) => Kept(v)
        BY <1>4, <2>1, <2>2, Zenon
    <2>4. \A id \in 1..MaxEvent : Lines(id)
        BY <1>2, <1>7, <2>1, Zenon DEF AppendLine
    <2> QED
        BY <2>3, <2>4, Zenon
<1>8. ASSUME NEW w \in Writer, AppendFails(w)
      PROVE  (\A id \in 1..MaxEvent : Lines(id)) /\ \A v \in Writer : Finishes(v) => Kept(v)
    <2>1. \A id : Mirrored(id, disk') => Mirrored(id, disk) \/ id = event[w].id
        BY <1>8, AppendFailsKeeps, Zenon
    <2>2. pc[w] = "append" /\ faults' # faults
        BY <1>3, <1>8, Zenon DEF AppendFails
    <2>3. \A id \in 1..MaxEvent : Lines(id)
        BY <1>2, <2>1, <2>2, Zenon
    <2> QED
        BY <2>2, <2>3, Zenon
<1>9. ASSUME NEW w \in Writer, Cancel(w)
      PROVE  (\A id \in 1..MaxEvent : Lines(id)) /\ \A v \in Writer : Finishes(v) => Kept(v)
    BY <1>3, <1>9, SameLines, Zenon DEF Cancel
<1>10. CASE Restart
    <2>1. restarts' # restarts
        BY <1>3, <1>10 DEF Restart
    <2>2. \A id : Mirrored(id, disk') => Mirrored(id, disk)
        BY <1>10, RestartKeeps, Zenon
    <2> QED
        BY <2>1, <2>2, Zenon
<1>11. CASE Sweep \/ Tick \/ NextDay
    <2>1. UNCHANGED sinkVars /\ pc' = pc
        BY <1>11, Zenon DEF Sweep, Tick, NextDay, writerVars
    <2> QED
        BY <1>4, <2>1, SameLines, Zenon
<1> QED
    BY <1>5, <1>6, <1>7, <1>8, <1>9, <1>10, <1>11, Zenon DEF Next

----------------------------------------------------------------------------
(* The inductive invariant of the audit trail: the files have distinct     *)
(* names, only a single line outgrows the cap, the open file is counted,   *)
(* the files are as few as pruning leaves, and who appends has inserted.   *)
THEOREM AuditInvariant == Spec => []AuditInv
<1>1. Init => AuditInv
    BY InitHolds
<1>2. AuditInv /\ [Next]_vars => AuditInv'
    BY StepKeeps
<1> QED
    BY <1>1, <1>2, PTL DEF Spec

(* SinkInv: types, the open file and the cap (append, rotate_to and        *)
(* prune_oldest, with any of their I/O calls failing).                     *)
THEOREM Sink_Holds == Spec => []SinkInv
<1>1. AuditInv => SinkInv
    <2> SUFFICES ASSUME AuditInv PROVE SinkInv
        BY Zenon
    <2>1. /\ Sink.disk = disk /\ Sink.file = file /\ Sink.written = written
        BY Zenon DEF Sink
    <2>2. Sound(disk) /\ Counted(file, written, disk)
        BY <2>1, Zenon DEF AuditInv, SinkOK
    <2>3. ActiveFileIsAccounted
        BY <2>2, Zenon DEF Counted, ActiveFileIsAccounted
    <2>4. CapIsRespected
        BY <2>2, Zenon DEF Sound, Filled, CapIsRespected
    <2> QED
        BY <2>3, <2>4, Zenon DEF AuditInv, SinkInv
<1> QED
    BY <1>1, AuditInvariant, PTL

(* DiskIsBounded: the number of JSONL files, when prune_oldest has a       *)
(* directory to look at and files to keep.                                 *)
THEOREM DiskIsBounded_Holds == Spec => []DiskIsBounded
<1>1. AuditInv => DiskIsBounded
    <2> SUFFICES ASSUME AuditInv PROVE DiskIsBounded
        BY Zenon
    <2>1. Sink.disk = disk /\ Sink.unpruned = unpruned
        BY Zenon DEF Sink
    <2>2. Bounded(disk, unpruned)
        BY <2>1, Zenon DEF AuditInv, SinkOK
    <2> QED
        BY <2>2, Zenon DEF Bounded, DiskIsBounded
<1> QED
    BY <1>1, AuditInvariant, PTL

(* MirrorFollowsTable: AuditRepository::record inserts before it appends,  *)
(* and append gives a line up only on the day of an I/O error.             *)
THEOREM Mirror_Holds == Spec => MirrorFollowsTable
<1>1. AuditInv /\ [Next]_vars => [MirrorStep]_vars
    BY MirrorKept
<1> QED
    BY <1>1, AuditInvariant, PTL DEF Spec, MirrorFollowsTable

----------------------------------------------------------------------------
(* The calendar.  Counted from March, a day is the doy-th of the yoe-th    *)
(* year of an era of 400 years; the leap day is the last of its year.      *)

YearLength(yoe) == IF Leap(yoe + 1) THEN 366 ELSE 365
DayOf(era, yoe, doy) == era * 146097 + YearStart(yoe) + doy - 719468

Place(yoe, doy) ==
    /\ yoe \in Int /\ 0 <= yoe /\ yoe <= 399
    /\ doy \in Int /\ 0 <= doy /\ doy < YearLength(yoe)

(* The century, the four years and the year that yoe is made of. *)
YearSplit(yoe, c, k, j) ==
    /\ c \in Int /\ 0 <= c /\ c <= 3 /\ k \in Int /\ 0 <= k /\ k <= 24
    /\ j \in Int /\ 0 <= j /\ j <= 3 /\ yoe = 100 * c + 4 * k + j

(* The first day and the length of a year, from its parts. *)
LEMMA SplitYear ==
    ASSUME NEW yoe \in Int, NEW c, NEW k, NEW j, YearSplit(yoe, c, k, j)
    PROVE  /\ YearStart(yoe) = 36524 * c + 1461 * k + 365 * j
           /\ YearLength(yoe) = IF j = 3 /\ (k < 24 \/ c = 3) THEN 366 ELSE 365
<1>1. yoe \div 100 = c /\ yoe \div 4 = 25 * c + k
    BY SMT DEF YearSplit
<1>2. YearStart(yoe) = 36524 * c + 1461 * k + 365 * j
    BY <1>1, SMT DEF YearStart, YearSplit
<1>3. (yoe + 1) % 4 = 0 <=> j = 3
    BY SMT DEF YearSplit
<1>4. (yoe + 1) % 100 = 0 <=> k = 24 /\ j = 3
    BY SMT DEF YearSplit
<1>5. (yoe + 1) % 400 = 0 <=> c = 3 /\ k = 24 /\ j = 3
    BY SMT DEF YearSplit
<1>6. Leap(yoe + 1) <=> j = 3 /\ (k < 24 \/ c = 3)
    BY <1>3, <1>4, <1>5, SMT DEF Leap, YearSplit
<1> QED
    BY <1>2, <1>6, SMT DEF YearLength

(* Every year of the era has its parts. *)
LEMMA HasSplit ==
    ASSUME NEW yoe \in Int, 0 <= yoe, yoe <= 399 PROVE \E c, k, j : YearSplit(yoe, c, k, j)
<1> DEFINE c == yoe \div 100
           r == yoe - 100 * c
           k == r \div 4
           j == r - 4 * k
<1>1. c \in Int /\ 0 <= c /\ c <= 3 /\ r \in Int /\ 0 <= r /\ r < 100
    BY SMT
<1>2. yoe = 100 * c + r
    BY <1>1, SMT
<1> HIDE DEF c, r
<1>3. k \in Int /\ 0 <= k /\ k <= 24 /\ j \in Int /\ 0 <= j /\ j <= 3
    BY <1>1, SMT
<1>4. r = 4 * k + j
    BY <1>1, <1>3, SMT
<1> HIDE DEF k, j
<1>5. yoe = 100 * c + 4 * k + j
    BY <1>1, <1>2, <1>3, <1>4, SMT
<1>6. YearSplit(yoe, c, k, j)
    BY <1>1, <1>3, <1>5, Zenon DEF YearSplit
<1> QED
    BY <1>6, Zenon

(* Without the leap days that yoe adds to them, the days count whole years. *)
LEMMA DaysLeft ==
    ASSUME NEW c \in Int, NEW k \in Int, NEW j \in Int, NEW s \in Int, NEW doy \in Int,
           NEW q4 \in Int, NEW q100 \in Int, NEW q400 \in Int, q4 = 25 * c + k + s, q100 - q400 = c
    PROVE  36524 * c + 1461 * k + 365 * j + doy - q4 + q100 - q400
                = 365 * (100 * c + 4 * k + j) + (doy - s)
BY SMT

(* The formula finds the year. *)
LEMMA YearFound ==
    ASSUME NEW yoe, NEW doy, Place(yoe, doy), NEW doe, doe = YearStart(yoe) + doy
    PROVE  /\ doe \in Int /\ 0 <= doe /\ doe <= 146096 /\ doy <= 365 /\ YearStart(yoe) \in Int
           /\ YearOf(doe) = yoe
<1>1. yoe \in Int /\ 0 <= yoe /\ yoe <= 399 /\ doy \in Int /\ 0 <= doy /\ doy < YearLength(yoe)
    BY Zenon DEF Place
<1>2. PICK c, k, j : YearSplit(yoe, c, k, j)
    BY <1>1, HasSplit, Zenon
<1>3. /\ YearStart(yoe) = 36524 * c + 1461 * k + 365 * j
      /\ YearLength(yoe) = IF j = 3 /\ (k < 24 \/ c = 3) THEN 366 ELSE 365
    BY <1>1, <1>2, SplitYear, SMT
<1>4. /\ c \in Int /\ 0 <= c /\ c <= 3 /\ k \in Int /\ 0 <= k /\ k <= 24
      /\ j \in Int /\ 0 <= j /\ j <= 3 /\ yoe = 100 * c + 4 * k + j
    BY <1>2, Zenon DEF YearSplit
<1>5. /\ doe = 36524 * c + 1461 * k + 365 * j + doy /\ doe \in Int /\ YearStart(yoe) \in Int
      /\ doy <= 365 /\ (doy = 365 => j = 3 /\ (k < 24 \/ c = 3))
    BY <1>1, <1>3, <1>4, SMT
<1>6. 0 <= doe /\ doe <= 146096
    BY <1>1, <1>5, <1>4, SMT
<1>7. doe \div 36524 - doe \div 146096 = c
    <2>1. CASE doe = 146096
        <3>1. c = 3
            BY <1>1, <1>5, <1>4, <2>1, SMT
        <3> QED
            BY <2>1, <3>1, SMT
    <2>2. CASE doe # 146096
        <3>1. doe \div 146096 = 0
            BY <1>5, <1>6, <2>2, SMT
        <3>2. 36524 * c <= doe /\ doe < 36524 * c + 36524
            BY <1>1, <1>5, <1>4, <1>6, <2>2, SMT
        <3>3. doe \div 36524 = c
            BY <1>5, <1>4, <3>2, SMT
        <3> QED
            BY <1>4, <3>1, <3>3, SMT
    <2> QED
        BY <2>1, <2>2, SMT
<1>8. PICK s \in {0, 1} :
            doe \div 1460 = 25 * c + k + s /\ doy - s >= 0 /\ doy - s <= 364
    <2> DEFINE t == 24 * c + k + 365 * j + doy
    <2>1. /\ doe = 1460 * (25 * c + k) + t /\ t \in Int /\ 0 <= t /\ t < 2920
          /\ (t >= 1460 => j = 3 /\ doy >= 1) /\ (t < 1460 => doy <= 364)
        BY <1>1, <1>5, <1>4, SMT
    <2> HIDE DEF t
    <2>2. 25 * c + k \in Int
        BY <1>4, SMT
    <2>3. CASE t < 1460
        <3>1. doe \div 1460 = 25 * c + k
            BY <2>1, <2>2, <2>3, SMT
        <3>2. doe \div 1460 = 25 * c + k + 0 /\ doy - 0 >= 0 /\ doy - 0 <= 364
            BY <1>1, <1>4, <2>1, <2>3, <3>1, SMT
        <3> QED
            BY <3>2, SMT
    <2>4. CASE t >= 1460
        <3>1. doe \div 1460 = 25 * c + k + 1
            BY <2>1, <2>2, <2>4, SMT
        <3>2. doy - 1 >= 0 /\ doy - 1 <= 364
            BY <1>1, <1>5, <2>1, <2>4, SMT
        <3> QED
            BY <3>1, <3>2, SMT
    <2> QED
        BY <2>1, <2>3, <2>4, SMT
<1>9. doe - doe \div 1460 + doe \div 36524 - doe \div 146096 = 365 * yoe + (doy - s)
    <2>1. doe \div 1460 \in Int /\ doe \div 36524 \in Int /\ doe \div 146096 \in Int
        BY <1>5, SMT
    <2>2. s \in Int
        BY <1>8, SMT
    <2> QED
        BY <1>1, <1>5, <1>4, <1>7, <1>8, <2>1, <2>2, DaysLeft, SMT
<1>10. (365 * yoe + (doy - s)) \div 365 = yoe
    BY <1>1, <1>8, SMT
<1> QED
    BY <1>5, <1>6, <1>9, <1>10, SMT DEF YearOf

(* So it is the date of the day. *)
LEMMA YmdOf ==
    ASSUME NEW era \in Int, NEW yoe, NEW doy, Place(yoe, doy)
    PROVE  /\ DayOf(era, yoe, doy) \in Int
           /\ Ymd(DayOf(era, yoe, doy)) = Civil(era, yoe, doy)
<1> DEFINE start == YearStart(yoe)
           doe == start + doy
           n == DayOf(era, yoe, doy)
           z == n + 719468
<1>1. doe \in Int /\ 0 <= doe /\ doe <= 146096 /\ start \in Int /\ YearOf(doe) = yoe
    BY YearFound, SMT
<1>2. yoe \in Int /\ doy \in Int
    BY SMT DEF Place
<1>3. n = era * 146097 + start + doy - 719468
    BY SMT DEF DayOf
<1> HIDE DEF start, n
<1>4. n \in Int /\ z = era * 146097 + doe /\ z \in Int
    BY <1>1, <1>2, <1>3, SMT
<1>5. doe - start = doy
    BY <1>1, <1>2, SMT
<1> HIDE DEF doe, z
<1>6. EraOf(z) = era
    <2>1. CASE z >= 0
        <3>1. z \div 146097 = era
            BY <1>1, <1>4, <2>1, SMT
        <3> QED
            BY <2>1, <3>1, SMT DEF EraOf
    <2>2. CASE ~(z >= 0)
        <3>1. (146096 - z) \div 146097 = -era
            BY <1>1, <1>4, <2>2, SMT
        <3> QED
            BY <2>2, <3>1, SMT DEF EraOf
    <2> QED
        BY <2>1, <2>2, SMT
<1>7. z - EraOf(z) * 146097 = doe
    BY <1>1, <1>4, <1>6, SMT
<1>8. Ymd(n) = Civil(era, yoe, doe - start)
    BY <1>1, <1>6, <1>7, SMT DEF Ymd, z, start
<1> QED
    BY <1>4, <1>5, <1>8, SMT DEF n

(* Every day has its place. *)
LEMMA DayHasPlace ==
    ASSUME NEW n \in Int
    PROVE  \E era \in Int : \E yoe, doy : Place(yoe, doy) /\ n = DayOf(era, yoe, doy)
<1> DEFINE z == n + 719468
           era == z \div 146097
           doe == z - era * 146097
<1>1. era \in Int /\ doe \in Int /\ 0 <= doe /\ doe <= 146096 /\ n = era * 146097 + doe - 719468
    BY SMT
<1> HIDE DEF era, doe
<1>2. PICK c \in Int : /\ 0 <= c /\ c <= 3 /\ 36524 * c <= doe
                       /\ doe < 36524 * c + (IF c = 3 THEN 36525 ELSE 36524)
    <2>1. CASE doe < 36524
        <3> WITNESS 0 \in Int
        <3> QED BY <1>1, <2>1, SMT
    <2>2. CASE 36524 <= doe /\ doe < 73048
        <3> WITNESS 1 \in Int
        <3> QED BY <1>1, <2>2, SMT
    <2>3. CASE 73048 <= doe /\ doe < 109572
        <3> WITNESS 2 \in Int
        <3> QED BY <1>1, <2>3, SMT
    <2>4. CASE 109572 <= doe
        <3> WITNESS 3 \in Int
        <3> QED BY <1>1, <2>4, SMT
    <2> QED
        BY <1>1, <2>1, <2>2, <2>3, <2>4, SMT
<1> DEFINE r == doe - 36524 * c
           k == r \div 1461
           t == r - 1461 * k
<1>3. /\ r \in Int /\ 0 <= r /\ r <= 36524 /\ (r = 36524 => c = 3) /\ doe = 36524 * c + r
    BY <1>1, <1>2, SMT
<1> HIDE DEF r
<1>4. /\ k \in Int /\ 0 <= k /\ k <= 24 /\ t \in Int /\ 0 <= t /\ t <= 1460
      /\ r = 1461 * k + t
    BY <1>3, SMT
<1> HIDE DEF k, t
<1>5. t = 1460 => k < 24 \/ c = 3
    BY <1>3, <1>4, SMT
<1>6. PICK j \in Int : /\ 0 <= j /\ j <= 3 /\ 365 * j <= t
                       /\ t < 365 * j + (IF j = 3 THEN 366 ELSE 365)
    <2>1. CASE t < 365
        <3> WITNESS 0 \in Int
        <3> QED BY <1>4, <2>1, SMT
    <2>2. CASE 365 <= t /\ t < 730
        <3> WITNESS 1 \in Int
        <3> QED BY <1>4, <2>2, SMT
    <2>3. CASE 730 <= t /\ t < 1095
        <3> WITNESS 2 \in Int
        <3> QED BY <1>4, <2>3, SMT
    <2>4. CASE 1095 <= t
        <3> WITNESS 3 \in Int
        <3> QED BY <1>4, <2>4, SMT
    <2> QED
        BY <1>4, <2>1, <2>2, <2>3, <2>4, SMT
<1> DEFINE yoe == 100 * c + 4 * k + j
           doy == t - 365 * j
<1>7. yoe \in Int /\ 0 <= yoe /\ yoe <= 399 /\ YearSplit(yoe, c, k, j)
    BY <1>2, <1>4, <1>6, SMT DEF YearSplit
<1>8. /\ doy \in Int /\ 0 <= doy /\ t = 365 * j + doy
      /\ doy < IF j = 3 /\ (k < 24 \/ c = 3) THEN 366 ELSE 365
    BY <1>2, <1>4, <1>5, <1>6, SMT
<1> HIDE DEF yoe, doy
<1>9. /\ YearStart(yoe) = 36524 * c + 1461 * k + 365 * j
      /\ YearLength(yoe) = IF j = 3 /\ (k < 24 \/ c = 3) THEN 366 ELSE 365
    BY <1>7, SplitYear, SMT
<1>10. Place(yoe, doy)
    BY <1>7, <1>8, <1>9, SMT DEF Place
<1>11. n = DayOf(era, yoe, doy)
    BY <1>1, <1>2, <1>3, <1>4, <1>6, <1>8, <1>9, SMT DEF DayOf
<1> QED
    BY <1>1, <1>10, <1>11, SMT

(* The day after a place: the next of the year, or 1 March of the next     *)
(* year, or of the next era.                                               *)
LEMMA NextYear ==
    ASSUME NEW era \in Int, NEW yoe, NEW doy, Place(yoe, doy)
    PROVE  \/ /\ Place(yoe, doy + 1)
              /\ DayOf(era, yoe, doy) + 1 = DayOf(era, yoe, doy + 1)
           \/ /\ doy + 1 = YearLength(yoe) /\ Place(yoe + 1, 0)
              /\ DayOf(era, yoe, doy) + 1 = DayOf(era, yoe + 1, 0)
           \/ /\ doy + 1 = YearLength(yoe) /\ yoe = 399 /\ Place(0, 0)
              /\ DayOf(era, yoe, doy) + 1 = DayOf(era + 1, 0, 0)
<1>1. /\ yoe \in Int /\ 0 <= yoe /\ yoe <= 399 /\ doy \in Int /\ 0 <= doy
      /\ doy < YearLength(yoe)
    BY SMT DEF Place
<1>2. PICK c, k, j : YearSplit(yoe, c, k, j)
    BY <1>1, HasSplit, SMT
<1>3. /\ YearStart(yoe) = 36524 * c + 1461 * k + 365 * j
      /\ YearLength(yoe) = IF j = 3 /\ (k < 24 \/ c = 3) THEN 366 ELSE 365
    BY <1>1, <1>2, SplitYear, SMT
<1>4. /\ c \in Int /\ 0 <= c /\ c <= 3 /\ k \in Int /\ 0 <= k /\ k <= 24
      /\ j \in Int /\ 0 <= j /\ j <= 3 /\ yoe = 100 * c + 4 * k + j
    BY <1>2, SMT DEF YearSplit
<1>5. YearStart(yoe) \in Int /\ YearLength(yoe) \in {365, 366}
    BY <1>3, <1>4, SMT
<1>6. \A y : YearLength(y) \in {365, 366}
    BY SMT DEF YearLength
<1>7. CASE doy + 1 < YearLength(yoe)
    <2>1. Place(yoe, doy + 1)
        BY <1>1, <1>7, SMT DEF Place
    <2>2. DayOf(era, yoe, doy) + 1 = DayOf(era, yoe, doy + 1)
        BY <1>1, <1>5, SMT DEF DayOf
    <2> QED
        BY <2>1, <2>2, SMT
<1>8. CASE doy + 1 = YearLength(yoe) /\ yoe < 399
    <2>1. Place(yoe + 1, 0)
        BY <1>1, <1>6, <1>8, SMT DEF Place
    <2>2. YearStart(yoe + 1) = YearStart(yoe) + YearLength(yoe)
        <3>1. CASE j < 3
            <4>1. YearSplit(yoe + 1, c, k, j + 1)
                BY <1>4, <3>1, SMT DEF YearSplit
            <4>2. YearStart(yoe + 1) = 36524 * c + 1461 * k + 365 * (j + 1)
                BY <1>1, <4>1, SplitYear, SMT
            <4> QED
                BY <1>3, <1>4, <3>1, <4>2, SMT
        <3>2. CASE j = 3 /\ k < 24
            <4>1. YearSplit(yoe + 1, c, k + 1, 0)
                BY <1>4, <3>2, SMT DEF YearSplit
            <4>2. YearStart(yoe + 1) = 36524 * c + 1461 * (k + 1) + 365 * 0
                BY <1>1, <4>1, SplitYear, SMT
            <4> QED
                BY <1>3, <1>4, <3>2, <4>2, SMT
        <3>3. CASE j = 3 /\ k = 24
            <4>1. c < 3 /\ YearSplit(yoe + 1, c + 1, 0, 0)
                BY <1>4, <1>8, <3>3, SMT DEF YearSplit
            <4>2. YearStart(yoe + 1) = 36524 * (c + 1) + 1461 * 0 + 365 * 0
                BY <1>1, <4>1, SplitYear, SMT
            <4> QED
                BY <1>3, <1>4, <3>3, <4>1, <4>2, SMT
        <3> QED
            BY <1>4, <3>1, <3>2, <3>3, SMT
    <2>3. DayOf(era, yoe, doy) + 1 = DayOf(era, yoe + 1, 0)
        BY <1>1, <1>5, <1>8, <2>2, SMT DEF DayOf
    <2> QED
        BY <1>8, <2>1, <2>3, SMT
<1>9. CASE doy + 1 = YearLength(yoe) /\ yoe = 399
    <2>1. Place(0, 0)
        BY <1>6, SMT DEF Place
    <2>2. c = 3 /\ k = 24 /\ j = 3
        BY <1>4, <1>9, SMT
    <2>3. YearStart(yoe) + YearLength(yoe) = 146097
        BY <1>3, <2>2, SMT
    <2>4. YearStart(0) = 0
        BY SMT DEF YearStart
    <2>5. DayOf(era, yoe, doy) + 1 = DayOf(era + 1, 0, 0)
        BY <1>1, <1>5, <1>9, <2>3, <2>4, SMT DEF DayOf
    <2> QED
        BY <1>9, <2>1, <2>5, SMT
<1> QED
    BY <1>1, <1>5, <1>7, <1>8, <1>9, SMT

(* Months from March, and the day of the year each begins with. *)
MonthIn(doy) == (5 * doy + 2) \div 153
MonthStart(mp) == (153 * mp + 2) \div 5
MonthNo(mp) == IF mp < 10 THEN mp + 3 ELSE mp - 9
CivilYear(era, yoe, mp) == yoe + era * 400 + (IF mp >= 10 THEN 1 ELSE 0)
Date(y, m, d) == [y |-> y, m |-> m, d |-> d]
CivilIn(era, yoe, mp, doy) ==
    Date(CivilYear(era, yoe, mp), MonthNo(mp), doy - MonthStart(mp) + 1)

InYear(doy) == doy \in Int /\ 0 <= doy /\ doy <= 365

(* The month of a day of the year begins no later and ends no earlier. *)
LEMMA MonthFound ==
    ASSUME NEW doy, InYear(doy)
    PROVE  /\ MonthIn(doy) \in Int /\ 0 <= MonthIn(doy) /\ MonthIn(doy) <= 11
           /\ MonthStart(MonthIn(doy)) \in Int /\ MonthStart(MonthIn(doy)) <= doy
           /\ doy < MonthStart(MonthIn(doy) + 1)
<1> DEFINE mp == MonthIn(doy)
<1>1. mp \in Int /\ 0 <= mp /\ mp <= 11 /\ 153 * mp <= 5 * doy + 2 /\ 5 * doy + 2 < 153 * mp + 153
    BY SMT DEF MonthIn, InYear
<1> HIDE DEF mp
<1>2. MonthStart(mp) \in Int /\ MonthStart(mp) <= doy
    BY <1>1, SMT DEF MonthStart, InYear
<1>3. doy < MonthStart(mp + 1)
    BY <1>1, SMT DEF MonthStart, InYear
<1> QED
    BY <1>1, <1>2, <1>3, SMT DEF mp

(* No other month does. *)
LEMMA MonthOnly ==
    ASSUME NEW doy \in Int, NEW mp \in Int, 0 <= mp, mp <= 11,
           MonthStart(mp) <= doy, doy < MonthStart(mp + 1)
    PROVE  MonthIn(doy) = mp
<1>1. MonthStart(mp) \in Int /\ 5 * MonthStart(mp) > 153 * mp - 3
    BY SMT DEF MonthStart
<1>2. MonthStart(mp + 1) \in Int /\ 5 * MonthStart(mp + 1) <= 153 * mp + 155
    BY SMT DEF MonthStart
<1>3. 153 * mp <= 5 * doy + 2 /\ 5 * doy + 2 < 153 * mp + 153
    BY <1>1, <1>2, SMT
<1> QED
    BY <1>3, SMT DEF MonthIn

(* The date, from the month. *)
LEMMA CivilFields ==
    ASSUME NEW era \in Int, NEW yoe \in Int, NEW doy, InYear(doy)
    PROVE  Civil(era, yoe, doy) = CivilIn(era, yoe, MonthIn(doy), doy)
<1> DEFINE mp == MonthIn(doy)
<1>1. mp \in Int /\ 0 <= mp /\ mp <= 11
    BY MonthFound, SMT
<1>2. Civil(era, yoe, doy) =
        [y |-> yoe + era * 400 + (IF MonthNo(mp) <= 2 THEN 1 ELSE 0),
         m |-> MonthNo(mp), d |-> doy - MonthStart(mp) + 1]
    BY Zenon DEF Civil, MonthIn, MonthNo, MonthStart
<1> HIDE DEF mp
<1>3. (IF MonthNo(mp) <= 2 THEN 1 ELSE 0) = (IF mp >= 10 THEN 1 ELSE 0)
    BY <1>1, SMT DEF MonthNo
<1>4. Civil(era, yoe, doy) = CivilIn(era, yoe, mp, doy)
    BY <1>2, <1>3, SMT DEF CivilIn, CivilYear, Date
<1> QED
    BY <1>4, Zenon DEF mp

(* The months have their lengths, February the length the year leaves. *)
LEMMA Lengths ==
    ASSUME NEW era \in Int, NEW yoe \in Int, NEW mp \in Int, 0 <= mp, mp <= 11
    PROVE  MonthLength(CivilYear(era, yoe, mp), MonthNo(mp)) =
                (IF mp = 11 THEN YearLength(yoe) ELSE MonthStart(mp + 1)) - MonthStart(mp)
<1>1. CASE mp = 11
    <2> DEFINE y == yoe + era * 400 + 1
    <2>1. y % 4 = (yoe + 1) % 4 /\ y % 100 = (yoe + 1) % 100 /\ y % 400 = (yoe + 1) % 400
        BY SMT
    <2>2. Leap(y) <=> Leap(yoe + 1)
        BY <2>1, SMT DEF Leap
    <2>3. MonthStart(11) = 337 /\ MonthNo(11) = 2
        BY SMT DEF MonthStart, MonthNo
    <2> HIDE DEF y
    <2>4. MonthLength(y, 2) = YearLength(yoe) - 337
        BY <2>2, SMT DEF MonthLength, YearLength
    <2>5. y = CivilYear(era, yoe, mp)
        BY <1>1, SMT DEF y, CivilYear
    <2> QED
        BY <1>1, <2>3, <2>4, <2>5, SMT
<1>2. CASE mp # 11
    <2> DEFINE y == CivilYear(era, yoe, mp)
    <2> HIDE DEF y
    <2>1. MonthLength(y, MonthNo(mp)) = IF MonthNo(mp) \in {4, 6, 9, 11} THEN 30 ELSE 31
        BY <1>2, SMT DEF MonthLength, MonthNo
    <2>2. MonthStart(mp + 1) - MonthStart(mp)
            = IF MonthNo(mp) \in {4, 6, 9, 11} THEN 30 ELSE 31
        BY <1>2, SMT DEF MonthStart, MonthNo
    <2> QED
        BY <1>2, <2>1, <2>2, SMT DEF y
<1> QED
    BY <1>1, <1>2, SMT

(* Tomorrow of a date. *)
LEMMA TurnedOver ==
    ASSUME NEW y \in Int, NEW m \in Int, NEW d \in Int
    PROVE  /\ d < MonthLength(y, m) => Tomorrow(Date(y, m, d)) = Date(y, m, d + 1)
           /\ d = MonthLength(y, m) /\ m < 12 => Tomorrow(Date(y, m, d)) = Date(y, m + 1, 1)
           /\ d = MonthLength(y, m) /\ m = 12 => Tomorrow(Date(y, m, d)) = Date(y + 1, 1, 1)
<1> DEFINE t == Date(y, m, d)
<1>1. t.y = y /\ t.m = m /\ t.d = d /\ t = [y |-> y, m |-> m, d |-> d]
    BY SMT DEF Date
<1>2. [t EXCEPT !.d = @ + 1] = Date(y, m, d + 1)
    BY SMT DEF Date
<1>3. [t EXCEPT !.m = @ + 1, !.d = 1] = Date(y, m + 1, 1)
    <2>1. \A r : [r EXCEPT !.m = @ + 1, !.d = 1] = [[r EXCEPT !.m = @ + 1] EXCEPT !.d = 1]
        BY SMT
    <2>2. [t EXCEPT !.m = @ + 1] = Date(y, m + 1, d)
        BY SMT DEF Date
    <2>3. [Date(y, m + 1, d) EXCEPT !.d = 1] = Date(y, m + 1, 1)
        BY SMT DEF Date
    <2> QED
        BY <2>1, <2>2, <2>3, Zenon
<1> HIDE DEF t
<1>4. MonthLength(y, m) \in Int
    BY SMT DEF MonthLength
<1> QED
    BY <1>1, <1>2, <1>3, <1>4, SMT DEF Tomorrow, Date, t

(* Within a year from March, the next day of the year is tomorrow. *)
LEMMA TomorrowWithin ==
    ASSUME NEW era \in Int, NEW yoe, NEW doy, Place(yoe, doy), Place(yoe, doy + 1)
    PROVE  Tomorrow(Civil(era, yoe, doy)) = Civil(era, yoe, doy + 1)
<1> DEFINE mp == MonthIn(doy)
           y == CivilYear(era, yoe, mp)
<1>1. /\ yoe \in Int /\ doy \in Int /\ 0 <= doy /\ doy + 1 < YearLength(yoe)
      /\ YearLength(yoe) \in {365, 366} /\ InYear(doy) /\ InYear(doy + 1)
    BY SMT DEF Place, YearLength, InYear
<1>2. /\ mp \in Int /\ 0 <= mp /\ mp <= 11 /\ MonthStart(mp) <= doy /\ doy < MonthStart(mp + 1)
    BY <1>1, MonthFound, SMT
<1> HIDE DEF mp
<1>3. /\ Civil(era, yoe, doy) = Date(y, MonthNo(mp), doy - MonthStart(mp) + 1)
      /\ MonthNo(mp) \in Int /\ y \in Int
    <2>1. Civil(era, yoe, doy) = CivilIn(era, yoe, mp, doy)
        BY <1>1, CivilFields, Zenon DEF mp
    <2>2. MonthNo(mp) \in Int /\ y \in Int
        BY <1>1, <1>2, SMT DEF MonthNo, CivilYear
    <2> QED
        BY <2>1, <2>2, Zenon DEF CivilIn
<1>4. MonthLength(y, MonthNo(mp)) =
                (IF mp = 11 THEN YearLength(yoe) ELSE MonthStart(mp + 1)) - MonthStart(mp)
    BY <1>1, <1>2, Lengths, SMT
<1>5. MonthStart(mp) \in Int /\ MonthStart(mp + 1) \in Int /\ MonthStart(12) = 367
    BY <1>2, SMT DEF MonthStart
<1>6. Civil(era, yoe, doy + 1) = CivilIn(era, yoe, MonthIn(doy + 1), doy + 1)
    BY <1>1, CivilFields, SMT
<1> HIDE DEF y
<1>7. CASE doy + 1 < MonthStart(mp + 1)
    <2>1. MonthIn(doy + 1) = mp
        BY <1>1, <1>2, <1>5, <1>7, MonthOnly, SMT
    <2>2. Civil(era, yoe, doy + 1) =
                Date(y, MonthNo(mp), (doy + 1) - MonthStart(mp) + 1)
        BY <1>6, <2>1, SMT DEF CivilIn, y
    <2>3. doy - MonthStart(mp) + 1 < MonthLength(y, MonthNo(mp))
        BY <1>1, <1>2, <1>3, <1>4, <1>5, <1>7, SMT
    <2>4. /\ doy - MonthStart(mp) + 1 \in Int
          /\ (doy - MonthStart(mp) + 1) + 1 = (doy + 1) - MonthStart(mp) + 1
        BY <1>1, <1>5, SMT
    <2> QED
        BY <1>3, <2>2, <2>3, <2>4, TurnedOver, SMT
<1>8. CASE doy + 1 = MonthStart(mp + 1)
    <2>1. mp < 11
        BY <1>1, <1>2, <1>5, <1>8, SMT
    <2>2. MonthStart(mp + 1) < MonthStart((mp + 1) + 1)
        BY <1>2, SMT DEF MonthStart
    <2>3. MonthIn(doy + 1) = mp + 1
        BY <1>1, <1>2, <1>5, <1>8, <2>1, <2>2, MonthOnly, SMT
    <2>4. Civil(era, yoe, doy + 1) =
                Date(CivilYear(era, yoe, mp + 1), MonthNo(mp + 1), (doy + 1) - MonthStart(mp + 1) + 1)
        BY <1>6, <2>3, SMT DEF CivilIn
    <2>5. doy - MonthStart(mp) + 1 = MonthLength(y, MonthNo(mp))
        BY <1>1, <1>2, <1>3, <1>4, <1>5, <1>8, <2>1, SMT
    <2>6. doy - MonthStart(mp) + 1 \in Int /\ (doy + 1) - MonthStart(mp + 1) + 1 = 1
        BY <1>1, <1>5, <1>8, SMT
    <2>7. CASE mp = 9
        <3>1. /\ MonthNo(mp) = 12 /\ MonthNo(mp + 1) = 1
              /\ CivilYear(era, yoe, mp + 1) = y + 1
            BY <1>1, <2>7, SMT DEF MonthNo, CivilYear, y
        <3> QED
            BY <1>3, <2>4, <2>5, <2>6, <3>1, TurnedOver, SMT
    <2>8. CASE mp # 9
        <3>1. /\ MonthNo(mp) < 12 /\ MonthNo(mp + 1) = MonthNo(mp) + 1
              /\ CivilYear(era, yoe, mp + 1) = y
            BY <1>1, <1>2, <2>1, <2>8, SMT DEF MonthNo, CivilYear, y
        <3> QED
            BY <1>3, <2>4, <2>5, <2>6, <3>1, TurnedOver, SMT
    <2> QED
        BY <2>7, <2>8, SMT
<1> QED
    BY <1>1, <1>2, <1>5, <1>7, <1>8, SMT

(* The last day of a year from March is the end of February. *)
LEMMA TomorrowAtEnd ==
    ASSUME NEW era \in Int, NEW yoe, NEW doy, Place(yoe, doy), doy + 1 = YearLength(yoe)
    PROVE  Tomorrow(Civil(era, yoe, doy)) = Date(yoe + era * 400 + 1, 3, 1)
<1> DEFINE y == CivilYear(era, yoe, 11)
<1>1. yoe \in Int /\ doy \in Int /\ YearLength(yoe) \in {365, 366} /\ InYear(doy)
    BY SMT DEF Place, YearLength, InYear
<1>2. MonthStart(11) = 337 /\ MonthStart(12) = 367 /\ MonthNo(11) = 2
    BY SMT DEF MonthStart, MonthNo
<1>3. MonthIn(doy) = 11
    BY <1>1, <1>2, MonthOnly, SMT
<1>4. 11 \in Int /\ 0 <= 11 /\ 11 <= 11
    BY SMT
<1>5. Civil(era, yoe, doy) = Date(y, 2, doy - 337 + 1) /\ y \in Int
    <2>1. Civil(era, yoe, doy) = Date(y, MonthNo(11), doy - MonthStart(11) + 1) /\ y \in Int
        <3>1. Civil(era, yoe, doy) = CivilIn(era, yoe, 11, doy)
            BY <1>1, <1>3, CivilFields, SMT
        <3>2. y \in Int
            BY <1>1, SMT DEF CivilYear
        <3> QED
            BY <3>1, <3>2, Zenon DEF CivilIn
    <2> QED
        BY <1>2, <2>1, SMT
<1>6. MonthLength(y, 2) = YearLength(yoe) - 337
    BY <1>1, <1>2, <1>4, Lengths, SMT
<1> HIDE DEF y
<1>7. doy - 337 + 1 \in Int /\ doy - 337 + 1 = MonthLength(y, 2)
    BY <1>1, <1>6, SMT
<1>8. y = yoe + era * 400 + 1
    BY <1>1, SMT DEF y, CivilYear
<1> QED
    BY <1>5, <1>7, <1>8, TurnedOver, SMT

(* The first day of a year from March is 1 March. *)
LEMMA FirstOfMarch ==
    ASSUME NEW era \in Int, NEW yoe \in Int
    PROVE  Civil(era, yoe, 0) = Date(yoe + era * 400, 3, 1)
<1>1. MonthIn(0) = 0 /\ MonthStart(0) = 0 /\ MonthNo(0) = 3 /\ InYear(0)
    BY SMT DEF MonthIn, MonthStart, MonthNo, InYear
<1>2. Civil(era, yoe, 0) = CivilIn(era, yoe, 0, 0)
    BY <1>1, CivilFields, SMT
<1>3. CivilYear(era, yoe, 0) = yoe + era * 400
    BY SMT DEF CivilYear
<1> QED
    BY <1>1, <1>2, <1>3, SMT DEF CivilIn

(* The formula goes where the calendar goes, on every day. *)
LEMMA NextDate ==
    ASSUME NEW n \in Int PROVE Ymd(n + 1) = Tomorrow(Ymd(n))
<1>1. PICK era \in Int : \E yoe, doy : Place(yoe, doy) /\ n = DayOf(era, yoe, doy)
    BY DayHasPlace, Zenon
<1>2. PICK yoe, doy : Place(yoe, doy) /\ n = DayOf(era, yoe, doy)
    BY <1>1, Zenon
<1>3. Ymd(n) = Civil(era, yoe, doy)
    BY <1>2, YmdOf, Zenon
<1>4. era + 1 \in Int /\ yoe \in Int /\ yoe + 1 \in Int
    BY <1>2, SMT DEF Place
<1>5. CASE Place(yoe, doy + 1) /\ n + 1 = DayOf(era, yoe, doy + 1)
    <2>1. Ymd(n + 1) = Civil(era, yoe, doy + 1)
        BY <1>5, YmdOf, Zenon
    <2> QED
        BY <1>2, <1>3, <1>5, <2>1, TomorrowWithin, Zenon
<1>6. CASE /\ doy + 1 = YearLength(yoe) /\ Place(yoe + 1, 0)
           /\ n + 1 = DayOf(era, yoe + 1, 0)
    <2>1. Ymd(n + 1) = Civil(era, yoe + 1, 0)
        BY <1>6, YmdOf, Zenon
    <2>2. Civil(era, yoe + 1, 0) = Date((yoe + 1) + era * 400, 3, 1)
        BY <1>4, FirstOfMarch, SMT
    <2>3. Tomorrow(Ymd(n)) = Date(yoe + era * 400 + 1, 3, 1)
        BY <1>2, <1>3, <1>6, TomorrowAtEnd, SMT
    <2>4. (yoe + 1) + era * 400 = yoe + era * 400 + 1
        BY <1>4, SMT
    <2> QED
        BY <2>1, <2>2, <2>3, <2>4, SMT
<1>7. CASE /\ doy + 1 = YearLength(yoe) /\ yoe = 399 /\ Place(0, 0)
           /\ n + 1 = DayOf(era + 1, 0, 0)
    <2>1. Ymd(n + 1) = Civil(era + 1, 0, 0)
        BY <1>4, <1>7, YmdOf, SMT
    <2>2. Civil(era + 1, 0, 0) = Date(0 + (era + 1) * 400, 3, 1)
        BY <1>4, FirstOfMarch, SMT
    <2>3. Tomorrow(Ymd(n)) = Date(yoe + era * 400 + 1, 3, 1)
        BY <1>2, <1>3, <1>7, TomorrowAtEnd, SMT
    <2>4. 0 + (era + 1) * 400 = yoe + era * 400 + 1
        BY <1>7, SMT
    <2> QED
        BY <2>1, <2>2, <2>3, <2>4, SMT
<1>8. \/ Place(yoe, doy + 1) /\ n + 1 = DayOf(era, yoe, doy + 1)
      \/ doy + 1 = YearLength(yoe) /\ Place(yoe + 1, 0) /\ n + 1 = DayOf(era, yoe + 1, 0)
      \/ /\ doy + 1 = YearLength(yoe) /\ yoe = 399 /\ Place(0, 0)
         /\ n + 1 = DayOf(era + 1, 0, 0)
    BY <1>2, NextYear, SMT
<1> QED
    BY <1>5, <1>6, <1>7, <1>8, SMT

(* The formula begins with the epoch. *)
LEMMA EpochDate == Ymd(0) = [y |-> 1970, m |-> 1, d |-> 1]
<1>1. 719468 \div 146097 = 4 /\ EraOf(719468) = 4
    BY SMT DEF EraOf
<1>2. YearOf(135080) = 369 /\ YearStart(369) = 134774
    BY SMT DEF YearOf, YearStart
<1>3. Civil(4, 369, 306) = [y |-> 1970, m |-> 1, d |-> 1]
    BY SMT DEF Civil
<1>4. 0 + 719468 = 719468 /\ 719468 - 4 * 146097 = 135080 /\ 135080 - 134774 = 306
    BY SMT
<1> QED
    BY <1>1, <1>2, <1>3, <1>4, SMT DEF Ymd

(* No two days have the same date. *)
LEMMA DatesDiffer ==
    ASSUME NEW n \in Int, NEW p \in Int, Ymd(n) = Ymd(p) PROVE n = p
<1>1. PICK e1 \in Int : \E yoe, doy : Place(yoe, doy) /\ n = DayOf(e1, yoe, doy)
    BY DayHasPlace, Zenon
<1>2. PICK y1, d1 : Place(y1, d1) /\ n = DayOf(e1, y1, d1)
    BY <1>1, Zenon
<1>3. PICK e2 \in Int : \E yoe, doy : Place(yoe, doy) /\ p = DayOf(e2, yoe, doy)
    BY DayHasPlace, Zenon
<1>4. PICK y2, d2 : Place(y2, d2) /\ p = DayOf(e2, y2, d2)
    BY <1>3, Zenon
<1> DEFINE m1 == MonthIn(d1)
           m2 == MonthIn(d2)
<1>5. /\ y1 \in Int /\ 0 <= y1 /\ y1 <= 399 /\ d1 \in Int /\ InYear(d1)
      /\ y2 \in Int /\ 0 <= y2 /\ y2 <= 399 /\ d2 \in Int /\ InYear(d2)
    BY <1>2, <1>4, SMT DEF Place, YearLength, InYear
<1>6. /\ m1 \in Int /\ 0 <= m1 /\ m1 <= 11 /\ MonthStart(m1) \in Int
      /\ m2 \in Int /\ 0 <= m2 /\ m2 <= 11 /\ MonthStart(m2) \in Int
    BY <1>5, MonthFound, SMT
<1>7. Ymd(n) = Civil(e1, y1, d1) /\ Ymd(p) = Civil(e2, y2, d2)
    BY <1>2, <1>4, YmdOf, Zenon
<1>8. CivilIn(e1, y1, m1, d1) = CivilIn(e2, y2, m2, d2)
    <2>1. y1 \in Int /\ InYear(d1) /\ y2 \in Int /\ InYear(d2)
        BY <1>5, SMT
    <2>2. Civil(e1, y1, d1) = CivilIn(e1, y1, m1, d1) /\ Civil(e2, y2, d2) = CivilIn(e2, y2, m2, d2)
        BY <2>1, CivilFields, Zenon
    <2> QED
        BY <1>7, <2>2, Zenon
<1> HIDE DEF m1, m2
<1>9. /\ CivilYear(e1, y1, m1) = CivilYear(e2, y2, m2) /\ MonthNo(m1) = MonthNo(m2)
      /\ d1 - MonthStart(m1) + 1 = d2 - MonthStart(m2) + 1
    BY <1>8, SMT DEF CivilIn, Date
<1>10. m1 = m2
    BY <1>6, <1>9, SMT DEF MonthNo
<1>11. d1 = d2
    BY <1>5, <1>6, <1>9, <1>10, SMT
<1>12. e1 = e2 /\ y1 = y2
    BY <1>5, <1>6, <1>9, <1>10, SMT DEF CivilYear
<1> QED
    BY <1>2, <1>4, <1>11, <1>12, SMT

----------------------------------------------------------------------------
(* ymd_from_unix_secs is the Gregorian calendar: it gives 1970-01-01 for   *)
(* the day 0, and from any day to the next, before or after it, the date   *)
(* moves as the calendar's does, over leap years, centuries and eras; no   *)
(* two days share a date.                                                  *)
THEOREM Calendar ==
    /\ Ymd(0) = [y |-> 1970, m |-> 1, d |-> 1]
    /\ \A n \in Int : Ymd(n + 1) = Tomorrow(Ymd(n))
    /\ \A n, p \in Int : Ymd(n) = Ymd(p) => n = p
<1>1. \A n \in Int : Ymd(n + 1) = Tomorrow(Ymd(n))
    BY NextDate, Zenon
<1>2. \A n, p \in Int : Ymd(n) = Ymd(p) => n = p
    BY DatesDiffer, Zenon
<1> QED
    BY <1>1, <1>2, EpochDate, SMT

(* DateIsGregorian: the files are named after the calendar date of their   *)
(* day, and no two of them share a name (active_path, next_target).        *)
THEOREM Date_Holds == Spec => []DateIsGregorian
<1>1. AuditInv => DateIsGregorian
    <2> SUFFICES ASSUME AuditInv PROVE DateIsGregorian
        BY Zenon
    <2>1. FollowsCalendar
        <3>1. \A n \in FirstDay..(LastDay - 1) : n \in Int
            BY RangeAssumption, SMT
        <3>2. \A n \in FirstDay..(LastDay - 1) : Ymd(n + 1) = Tomorrow(Ymd(n))
            BY <3>1, NextDate, Zenon
        <3> QED
            BY <3>2, EpochDate, SMT DEF FollowsCalendar
    <2>2. DOMAIN disk \subseteq File
        BY Zenon DEF AuditInv, TypeOK
    <2>3. \A f, g \in File : FileName(f) = FileName(g) => f = g
        <3> SUFFICES ASSUME NEW f \in File, NEW g \in File, FileName(f) = FileName(g)
                     PROVE  f = g
            BY Zenon
        <3>1. f.day \in Int /\ g.day \in Int /\ Today \in Int
            BY ConstantsAssumption, SMT DEF File, Day
        <3>2. Ymd(Today + f.day) = Ymd(Today + g.day) /\ f.idx = g.idx
            BY SMT DEF FileName
        <3>3. Today + f.day \in Int /\ Today + g.day \in Int
            BY <3>1, SMT
        <3>4. Today + f.day = Today + g.day
            BY <3>2, <3>3, DatesDiffer, Zenon
        <3>5. f.day = g.day
            BY <3>1, <3>4, SMT
        <3>6. [day |-> f.day, idx |-> f.idx] = [day |-> g.day, idx |-> g.idx]
            BY <3>2, <3>5, Zenon
        <3>7. f = [day |-> f.day, idx |-> f.idx] /\ g = [day |-> g.day, idx |-> g.idx]
            BY SMT DEF File
        <3> QED
            BY <3>6, <3>7, Zenon
    <2> QED
        BY <2>1, <2>2, <2>3, Zenon DEF DateIsGregorian
<1> QED
    BY <1>1, AuditInvariant, PTL

=============================================================================
