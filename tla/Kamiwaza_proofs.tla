-------------------------- MODULE Kamiwaza_proofs --------------------------
(***************************************************************************)
(* The theorems about Kamiwaza, for any numbers of requests, extensions,   *)
(* ticks and disconnections: one discovery at a time, within its fan-out,  *)
(* and a catalog that holds what a complete discovery found.               *)
(***************************************************************************)
EXTENDS Kamiwaza, TLAPS

Discovering(r) == pc[r] \in {"fetch", "probe"}

(* The mutex: a request is in the queue exactly while it waits or          *)
(* discovers, and whoever discovers is at its head.                        *)
QueueInv ==
    /\ \A r \in Req : r \in Range(queue) <=> pc[r] = "queued" \/ Discovering(r)
    /\ \A r \in Req : Discovering(r) => Holds(r)

(* A request whose close was spawned is over. *)
ClosingInv == \A r \in closing : pc[r] = "idle"

(* A session of a probe belongs to the request that probes, and its        *)
(* extension's probe has got past initialize.                              *)
SessionInv ==
    \A s \in open : s.role = "probe" =>
        pc[s.by] = "probe" /\ stage[s.ext] \in {"notify", "list", "close"}

(* Probes run only for a request that probes, as many as may. *)
Busy == {e \in Ext : stage[e] \in Running}
FanOutInv ==
    /\ (\A r \in Req : pc[r] # "probe") => \A e \in Ext : stage[e] = "none"
    /\ IsFiniteSet(Busy) /\ Cardinality(Busy) <= AtLeastOne(Conc)

CatalogInv == TypeOK /\ QueueInv /\ ClosingInv /\ SessionInv /\ FanOutInv
----------------------------------------------------------------------------
(* The queue. *)

(* Giving up a place takes one request out and leaves the order of the     *)
(* others.                                                                 *)
LEMMA WithoutEffect ==
    ASSUME TypeOK, NEW r \in Req
    PROVE  /\ Without(r) \in Seq(Req) /\ IsInjective(Without(r))
           /\ \A g : g \in Range(Without(r)) <=> g \in Range(queue) /\ g # r
           /\ \A g : Holds(g) /\ g # r => Without(r) # <<>> /\ Head(Without(r)) = g
<1>1. queue \in Seq(Req) /\ \A i, j \in DOMAIN queue : queue[i] = queue[j] => i = j
    BY DEF TypeOK, IsInjective
<1>2. CASE r \notin Range(queue)
    <2>1. Without(r) = queue
        BY <1>2 DEF Without
    <2> QED
        BY <1>2, <2>1, Zenon DEF TypeOK, Holds
<1>3. CASE r \in Range(queue)
    <2> DEFINE i == At(r)
               n == Len(queue)
               q == [j \in 1..(n - 1) |-> queue[IF j < i THEN j ELSE j + 1]]
    <2>1. DOMAIN queue = 1..n /\ n \in Nat
        BY <1>1
    <2>2. i \in 1..n /\ queue[i] = r
        BY <1>3, <2>1 DEF At, Range
    <2> HIDE DEF i
    <2>5. /\ q \in Seq(Req) /\ Len(q) = n - 1
          /\ \A j \in 1..(n - 1) : q[j] = IF j < i THEN queue[j] ELSE queue[j + 1]
        <3>1. ASSUME NEW j \in 1..(n - 1)
              PROVE  queue[IF j < i THEN j ELSE j + 1] \in Req
            BY <1>1, <2>1, <2>2
        <3>2. n - 1 \in Nat
            BY <2>1, <2>2
        <3> QED
            BY <3>1, <3>2
    <2>6. Without(r) = q
        BY <1>3, Zenon DEF Without, i
    <2> HIDE DEF q
    <2>7. DOMAIN q = 1..(n - 1)
        BY <2>1, <2>2, <2>5
    <2>8. IsInjective(q)
        <3> SUFFICES ASSUME NEW j \in 1..(n - 1), NEW k \in 1..(n - 1), q[j] = q[k]
                     PROVE  j = k
            BY <2>7, Zenon DEF IsInjective
        <3> DEFINE a == IF j < i THEN j ELSE j + 1
                   b == IF k < i THEN k ELSE k + 1
        <3>1. a \in 1..n /\ b \in 1..n /\ (a = b => j = k)
            BY <2>1, <2>2
        <3>2. q[j] = queue[a] /\ q[k] = queue[b]
            BY <2>5, Zenon
        <3> HIDE DEF a, b
        <3> QED
            BY <1>1, <2>1, <3>1, <3>2, Zenon
    <2>9. ASSUME NEW g, g \in Range(q)
          PROVE  g \in Range(queue) /\ g # r
        <3>1. PICK j \in 1..(n - 1) : q[j] = g
            BY <2>7, <2>9, Zenon DEF Range
        <3>2. PICK k \in 1..n : queue[k] = g /\ k # i
            BY <2>1, <2>2, <2>5, <3>1
        <3> QED
            BY <1>1, <2>1, <2>2, <3>2, Zenon DEF Range
    <2>10. ASSUME NEW g, g \in Range(queue), g # r
           PROVE  g \in Range(q)
        <3>1. PICK k \in 1..n : queue[k] = g /\ k # i
            BY <2>1, <2>2, <2>10, Zenon DEF Range
        <3>2. PICK j \in 1..(n - 1) : q[j] = g
            <4>1. CASE k < i
                BY <2>1, <2>2, <2>5, <3>1, <4>1
            <4>2. CASE k > i
                <5>1. k - 1 \in 1..(n - 1) /\ q[k - 1] = queue[k]
                    BY <2>1, <2>2, <2>5, <3>1, <4>2
                <5> QED
                    BY <3>1, <5>1
            <4> QED
                BY <2>1, <2>2, <3>1, <4>1, <4>2
        <3> QED
            BY <2>7, <3>2, Zenon DEF Range
    <2>11. ASSUME NEW g, Holds(g), g # r
           PROVE  q # <<>> /\ Head(q) = g
        <3>1. queue # <<>> /\ queue[1] = g
            BY <1>1, <2>11 DEF Holds
        <3>2. n > 1 /\ i > 1
            BY <1>1, <2>1, <2>2, <2>11, <3>1
        <3> QED
            BY <2>1, <2>2, <2>5, <3>1, <3>2
    <2> QED
        BY <2>5, <2>6, <2>8, <2>9, <2>10, <2>11, Zenon
<1> QED
    BY <1>2, <1>3

(* A request that comes is the last. *)
LEMMA AppendEffect ==
    ASSUME TypeOK, NEW r \in Req, r \notin Range(queue)
    PROVE  /\ Append(queue, r) \in Seq(Req) /\ IsInjective(Append(queue, r))
           /\ \A g : g \in Range(Append(queue, r)) <=> g \in Range(queue) \/ g = r
           /\ \A g : Holds(g) => Append(queue, r) # <<>> /\ Head(Append(queue, r)) = g
<1> DEFINE n == Len(queue)
           q == Append(queue, r)
<1>1. /\ queue \in Seq(Req) /\ n \in Nat /\ DOMAIN queue = 1..n
      /\ \A i, j \in 1..n : queue[i] = queue[j] => i = j
    BY DEF TypeOK, IsInjective
<1>2. /\ q \in Seq(Req) /\ DOMAIN q = 1..(n + 1) /\ q[n + 1] = r
      /\ \A j \in 1..n : q[j] = queue[j]
    BY <1>1
<1>3. \A j \in 1..n : queue[j] # r
    BY <1>1, Zenon DEF Range
<1>4. \A j \in 1..(n + 1) : j \in 1..n \/ j = n + 1
    BY <1>1
<1>5. \A j \in 1..n : j \in 1..(n + 1)
    BY <1>1
<1>6. n + 1 \in 1..(n + 1)
    BY <1>1
<1>7. ASSUME NEW g, Holds(g)
      PROVE  q # <<>> /\ Head(q) = g
    <2>1. queue # <<>> /\ Head(queue) = g
        BY <1>7, Zenon DEF Holds
    <2>2. Head(q) = Head(queue)
        BY <1>1, <2>1
    <2>3. q # <<>>
        BY <1>1
    <2> QED
        BY <2>1, <2>2, <2>3, Zenon
<1> HIDE DEF q, n
<1>8. IsInjective(q)
    BY <1>1, <1>2, <1>3, <1>4, Zenon DEF IsInjective
<1>9. ASSUME NEW g PROVE g \in Range(q) <=> g \in Range(queue) \/ g = r
    <2>1. g \in Range(q) <=> \E j \in 1..(n + 1) : q[j] = g
        BY <1>2, Zenon DEF Range
    <2>2. g \in Range(queue) <=> \E j \in 1..n : queue[j] = g
        BY <1>1, Zenon DEF Range
    <2> QED
        BY <1>2, <1>4, <1>5, <1>6, <2>1, <2>2, Zenon
<1> QED
    BY <1>2, <1>7, <1>8, <1>9, Zenon DEF q

----------------------------------------------------------------------------
(* Types. *)

Labels == {"idle", "queued", "fetch", "probe", "have", "body", "init", "notify", "call"}

(* What the other requests are doing does not change. *)
Only(r) == \A g \in Req \ {r} : pc'[g] = pc[g]

LEMMA GotoEffect ==
    ASSUME TypeOK, NEW r \in Req, NEW label \in Labels, Goto(r, label)
    PROVE  pc' \in [Req -> Labels] /\ pc'[r] = label /\ Only(r)
BY Zenon DEF TypeOK, Goto, Labels, Only

LEMMA EndEffect ==
    ASSUME TypeOK, NEW r \in Req, End(r)
    PROVE  /\ pc' \in [Req -> Labels] /\ pc'[r] = "idle" /\ Only(r)
           /\ want' \in [Req -> Ext \cup {None}] /\ tools' \in [Req -> SUBSET Ext]
<1>1. pc' \in [Req -> Labels] /\ pc'[r] = "idle" /\ Only(r)
    BY GotoEffect, Zenon DEF End, Labels
<1>2. want' \in [Req -> Ext \cup {None}] /\ tools' \in [Req -> SUBSET Ext]
    <2>1. {} \in SUBSET Ext
        BY Zenon
    <2> QED
        BY <2>1, Zenon DEF TypeOK, End
<1> QED
    BY <1>1, <1>2, Zenon

LEMMA SessionFields ==
    ASSUME NEW r \in Req, NEW e \in Ext, NEW role \in {"probe", "call"}
    PROVE  /\ S(r, e, role) \in Session /\ S(r, e, role).by = r
           /\ S(r, e, role).ext = e /\ S(r, e, role).role = role
BY DEF S, Session

LEMMA SessionIs ==
    ASSUME NEW s \in Session
    PROVE  /\ s.by \in Req /\ s.ext \in Ext /\ s.role \in {"probe", "call"}
           /\ s = S(s.by, s.ext, s.role)
BY DEF S, Session

LEMMA FaultType == ASSUME TypeOK, Fault PROVE faults' \in 0..MaxFault
BY ConstantsAssumption DEF TypeOK, Fault

LEMMA AtLeastOneType == ASSUME NEW n \in Nat PROVE AtLeastOne(n) \in Nat \ {0}
BY DEF AtLeastOne

(* The parts of TypeOK that a step of one request can disturb. *)
LEMMA RestTyped ==
    ASSUME TypeOK, UNCHANGED <<now, up>>,
           cache' = cache \/ cache' \in [tools : SUBSET Ext, expires : Nat],
           queue' \in Seq(Req) /\ IsInjective(queue'),
           pc' \in [Req -> Labels],
           want' \in [Req -> Ext \cup {None}] /\ tools' \in [Req -> SUBSET Ext],
           stage' \in [Ext -> Stages] /\ found' \subseteq Ext,
           open' \subseteq Session /\ closing' \subseteq Req, orphans' \subseteq Ext,
           faults' \in 0..MaxFault
    PROVE  TypeOK'
BY Zenon DEF TypeOK, Labels

(* What becomes of sessions. *)
LEMMA LeaveEffect ==
    ASSUME TypeOK, NEW M, Leave(M)
    PROVE  open' = open \ M /\ orphans' \subseteq Ext
<1>1. \A s \in open : s.ext \in Ext
    BY SessionIs, Zenon DEF TypeOK
<1> QED
    BY <1>1, Zenon DEF Leave, TypeOK

LEMMA CloseEffect ==
    ASSUME TypeOK, NEW M, Close(M)
    PROVE  open' = open \ M /\ orphans' \subseteq Ext
BY LeaveEffect, Zenon DEF Close, TypeOK

LEMMA MayOpenEffect ==
    ASSUME TypeOK, NEW e, MayOpen(e) PROVE orphans' \subseteq Ext
<1>1. orphans \subseteq Ext /\ up \subseteq Ext
    BY Zenon DEF TypeOK
<1>2. orphans' = orphans \/ orphans' = orphans \cup ({e} \cap up)
    BY Zenon DEF MayOpen
<1> QED
    BY <1>1, <1>2

LEMMA AbandonEffect ==
    ASSUME TypeOK, NEW r \in Req, Abandon(r)
    PROVE  open' = open \ Mine(r) /\ orphans' \subseteq Ext
<1>1. \A s \in Mine(r) : s.ext \in Ext
    BY SessionIs, Zenon DEF TypeOK, Mine
<1>2. Opening(r) \subseteq Ext
    BY Zenon DEF Opening, TypeOK
<1>3. PICK H, X :
        /\ X \in SUBSET Opening(r) /\ open' = open \ Mine(r)
        /\ orphans' = orphans \cup {s.ext : s \in Mine(r) \ H} \cup X
    BY Zenon DEF Abandon
<1>4. orphans \subseteq Ext
    BY Zenon DEF TypeOK
<1> QED
    BY <1>1, <1>2, <1>3, <1>4, Zenon

LEMMA NoStage == [e \in Ext |-> "none"] \in [Ext -> Stages]
BY Zenon DEF Stages

LEMMA ProbeTyped ==
    ASSUME TypeOK, NEW r \in Req, NEW e \in Ext, ProbeStep(r, e)
    PROVE  TypeOK'
<1>1. /\ UNCHANGED <<now, up, cacheVars, pc, want, tools, closing, faults>>
      /\ \E to \in Stages : stage' = [stage EXCEPT ![e] = to]
    BY Zenon DEF ProbeStep, ProbeStart, ProbeInit, ProbeInitFails, ProbeNotify,
       ProbeNotifyFails, ProbeList, ProbeClose, Probe, Stages
<1>2. open' \subseteq open \cup {S(r, e, "probe")} /\ orphans' \subseteq Ext
    BY LeaveEffect, CloseEffect, MayOpenEffect, Zenon
       DEF ProbeStep, ProbeStart, ProbeInit, ProbeInitFails, ProbeNotify,
       ProbeNotifyFails, ProbeList, ProbeClose, TypeOK
<1>3. found' \subseteq found \cup {e}
    BY Zenon DEF ProbeStep, ProbeStart, ProbeInit, ProbeInitFails, ProbeNotify,
       ProbeNotifyFails, ProbeList, ProbeClose
<1>4. open' \subseteq Session /\ found' \subseteq Ext
    <2>1. S(r, e, "probe") \in Session
        BY SessionFields, Zenon
    <2>2. open' \subseteq Session
        BY <1>2, <2>1, Zenon DEF TypeOK
    <2>3. found' \subseteq Ext
        BY <1>3, Zenon DEF TypeOK
    <2> QED
        BY <2>2, <2>3, Zenon
<1>5. stage' \in [Ext -> Stages]
    <2>1. PICK to \in Stages : stage' = [stage EXCEPT ![e] = to]
        BY <1>1, Zenon
    <2> QED
        BY <2>1, Zenon DEF TypeOK
<1> QED
    BY <1>1, <1>2, <1>4, <1>5, RestTyped, Zenon DEF cacheVars, TypeOK, Labels

LEMMA StepTyped ==
    ASSUME TypeOK, NEW r \in Req,
           Ask(r) \/ Step(r) \/ ReadBody(r) \/ CloseTask(r) \/ Cancel(r),
           Ask(r) => r \notin Range(queue)
    PROVE  TypeOK'
<1>1. /\ now \in 0..MaxTime /\ up \subseteq Ext
      /\ cache = None \/ cache \in [tools : SUBSET Ext, expires : Nat]
      /\ queue \in Seq(Req) /\ IsInjective(queue) /\ pc \in [Req -> Labels]
      /\ want \in [Req -> Ext \cup {None}] /\ tools \in [Req -> SUBSET Ext]
      /\ stage \in [Ext -> Stages] /\ found \subseteq Ext
      /\ open \subseteq Session /\ closing \subseteq Req /\ orphans \subseteq Ext
      /\ faults \in 0..MaxFault
    BY Zenon DEF TypeOK, Labels
<1>2. Without(r) \in Seq(Req) /\ IsInjective(Without(r))
    BY WithoutEffect, Zenon
<1>3. ASSUME Ask(r) PROVE TypeOK'
    <2>1. queue' \in Seq(Req) /\ IsInjective(queue')
        BY <1>3, AppendEffect, Zenon DEF Ask
    <2>2. pc' \in [Req -> Labels] /\ want' \in [Req -> Ext \cup {None}]
        BY <1>1, <1>3, GotoEffect, Zenon DEF Ask, Labels
    <2> QED
        BY <1>1, <1>3, <2>1, <2>2, RestTyped, Zenon DEF Ask, discovery, sessions
<1>4. ASSUME Hit(r) PROVE TypeOK'
    <2>1. cache.tools \in SUBSET Ext
        BY <1>1, <1>4 DEF Hit, Valid
    <2>2. pc' \in [Req -> Labels] /\ tools' \in [Req -> SUBSET Ext]
        BY <1>1, <1>4, <2>1, GotoEffect, Zenon DEF Hit, Labels
    <2> QED
        BY <1>1, <1>2, <1>4, <2>2, RestTyped, Zenon DEF Hit, discovery, sessions
<1>5. ASSUME Miss(r) PROVE TypeOK'
    <2>1. pc' \in [Req -> Labels]
        BY <1>5, GotoEffect, Zenon DEF Miss, Labels
    <2> QED
        BY <1>1, <1>5, <2>1, RestTyped, Zenon DEF Miss, cacheVars, discovery, sessions
<1>6. ASSUME Fetch(r) PROVE TypeOK'
    <2>1. pc' \in [Req -> Labels] /\ stage' \in [Ext -> Stages]
        BY <1>6, GotoEffect, Zenon DEF Fetch, Labels, Stages
    <2> QED
        BY <1>1, <1>6, <2>1, RestTyped, Zenon DEF Fetch, cacheVars, sessions
<1>7. ASSUME FetchFails(r) PROVE TypeOK'
    BY <1>1, <1>2, <1>7, EndEffect, RestTyped, Zenon DEF FetchFails, discovery, sessions
<1>8. ASSUME Collect(r) PROVE TypeOK'
    <2>1. cache' \in [tools : SUBSET Ext, expires : Nat]
        <3>1. now + AtLeastOne(TTL) \in Nat
            BY <1>1, ConstantsAssumption, AtLeastOneType
        <3> QED
            BY <1>1, <1>8, <3>1 DEF Collect
    <2>2. pc' \in [Req -> Labels] /\ tools' \in [Req -> SUBSET Ext]
        BY <1>1, <1>8, GotoEffect, Zenon DEF Collect, Labels
    <2> QED
        BY <1>1, <1>2, <1>8, <2>1, <2>2, NoStage, RestTyped, Zenon DEF Collect, sessions
<1>9. ASSUME Resolve(r) PROVE TypeOK'
    <2>1. CASE End(r)
        BY <1>1, <1>9, <2>1, EndEffect, RestTyped, Zenon
           DEF Resolve, cacheVars, discovery, sessions
    <2>2. CASE /\ \E e \in tools[r] : want' = [want EXCEPT ![r] = e]
               /\ tools' = [tools EXCEPT ![r] = {}] /\ Goto(r, "body")
        <3>1. pc' \in [Req -> Labels] /\ want' \in [Req -> Ext \cup {None}]
            <4>1. PICK e \in tools[r] : want' = [want EXCEPT ![r] = e]
                BY <2>2, Zenon
            <4>2. e \in Ext \cup {None}
                BY <1>1, Zenon
            <4> QED
                BY <1>1, <2>2, <4>1, <4>2, GotoEffect, Zenon DEF Labels
        <3>2. tools' \in [Req -> SUBSET Ext]
            <4>1. {} \in SUBSET Ext
                BY Zenon
            <4> QED
                BY <1>1, <2>2, <4>1, Zenon
        <3> QED
            BY <1>1, <1>9, <2>2, <3>1, <3>2, RestTyped, Zenon
               DEF Resolve, cacheVars, discovery, sessions
    <2> QED
        BY <1>9, <2>1, <2>2, Zenon DEF Resolve
<1>17. ASSUME ReadBody(r) PROVE TypeOK'
    <2>1. pc' \in [Req -> Labels]
        BY <1>17, EndEffect, GotoEffect, Zenon DEF ReadBody, Labels
    <2> QED
        BY <1>1, <1>17, <2>1, EndEffect, RestTyped, Zenon
           DEF ReadBody, cacheVars, discovery, sessions
<1>10. ASSUME NoDelegation(r) PROVE TypeOK'
    BY <1>1, <1>10, EndEffect, RestTyped, Zenon
       DEF NoDelegation, cacheVars, discovery, sessions
<1>11. ASSUME CallInit(r) PROVE TypeOK'
    <2>1. CASE End(r) /\ MayOpen(want[r]) /\ UNCHANGED open
        BY <1>1, <1>11, <2>1, EndEffect, MayOpenEffect, RestTyped, Zenon
           DEF CallInit, cacheVars, discovery
    <2>2. CASE /\ want[r] \in up /\ Goto(r, "notify")
               /\ open' = open \cup {S(r, want[r], "call")}
               /\ UNCHANGED <<want, tools, orphans>>
        <3>1. pc' \in [Req -> Labels]
            BY <2>2, GotoEffect, Zenon DEF Labels
        <3>2. open' \subseteq Session
            <4>1. S(r, want[r], "call") \in Session
                BY <1>1, <2>2, SessionFields, Zenon
            <4> QED
                BY <1>1, <2>2, <4>1, Zenon
        <3> QED
            BY <1>1, <1>11, <2>2, <3>1, <3>2, RestTyped, Zenon
               DEF CallInit, cacheVars, discovery
    <2> QED
        BY <1>11, <2>1, <2>2, Zenon DEF CallInit
<1>12. ASSUME CallNotify(r) PROVE TypeOK'
    <2>1. pc' \in [Req -> Labels]
        BY <1>12, GotoEffect, Zenon DEF CallNotify, Labels
    <2> QED
        BY <1>1, <1>12, <2>1, RestTyped, Zenon
           DEF CallNotify, cacheVars, discovery, sessions
<1>13. ASSUME CallNotifyFails(r) PROVE TypeOK'
    <2>1. open' \subseteq Session /\ orphans' \subseteq Ext
        BY <1>1, <1>13, LeaveEffect, Zenon DEF CallNotifyFails
    <2> QED
        BY <1>1, <1>13, <2>1, EndEffect, RestTyped, Zenon
           DEF CallNotifyFails, cacheVars, discovery
<1>14. ASSUME Call(r) PROVE TypeOK'
    BY <1>1, <1>14, EndEffect, RestTyped, Zenon DEF Call, cacheVars, discovery
<1>15. ASSUME CloseTask(r) PROVE TypeOK'
    <2>1. open' \subseteq Session /\ orphans' \subseteq Ext
        BY <1>1, <1>15, CloseEffect, Zenon DEF CloseTask
    <2> QED
        BY <1>1, <1>15, <2>1, RestTyped, Zenon DEF CloseTask, cacheVars, discovery
<1>16. ASSUME Cancel(r) PROVE TypeOK'
    <2>1. open' \subseteq Session /\ orphans' \subseteq Ext
        BY <1>1, <1>16, AbandonEffect, Zenon DEF Cancel
    <2>2. stage' \in [Ext -> Stages] /\ found' \subseteq Ext
        BY <1>1, <1>16, NoStage, Zenon DEF Cancel, discovery
    <2> QED
        BY <1>1, <1>2, <1>16, <2>1, <2>2, EndEffect, FaultType, RestTyped, Zenon DEF Cancel
<1> QED
    BY <1>3, <1>4, <1>5, <1>6, <1>7, <1>8, <1>9, <1>10, <1>11, <1>12, <1>13, <1>14, <1>15,
       <1>16, <1>17, ProbeTyped, Zenon DEF Step

LEMMA WorldTyped ==
    ASSUME TypeOK, Tick \/ (\E e \in Ext : Start(e) \/ Stop(e)) \/ UNCHANGED vars
    PROVE  TypeOK'
<1>1. ASSUME Tick PROVE TypeOK'
    <2>1. now' \in 0..MaxTime
        BY <1>1, ConstantsAssumption DEF TypeOK, Tick
    <2> QED
        BY <1>1, <2>1, Zenon DEF TypeOK, Tick, cacheVars, discovery, sessions
<1>2. ASSUME NEW e \in Ext, Start(e) \/ Stop(e) PROVE TypeOK'
    BY <1>2, Zenon DEF TypeOK, Start, Stop, cacheVars, discovery, sessions
<1>3. ASSUME UNCHANGED vars PROVE TypeOK'
    BY <1>3, Zenon DEF TypeOK, vars, cacheVars, discovery, sessions
<1> QED
    BY <1>1, <1>2, <1>3, Zenon

----------------------------------------------------------------------------
(* The mutex. *)

Queued(r) == pc[r] = "queued" \/ Discovering(r)

LEMMA QueueKeep ==
    ASSUME QueueInv, UNCHANGED queue,
           \A g \in Req : Queued(g)' <=> Queued(g),
           \A g \in Req : Discovering(g)' => Discovering(g) \/ Holds(g)
    PROVE  QueueInv'
<1>1. \A g \in Req : Holds(g)' <=> Holds(g)
    BY Zenon DEF Holds
<1> QED
    BY <1>1, Zenon DEF QueueInv, Queued

(* A request that gives up its place leaves the holder where it is. *)
LEMMA QueueLeave ==
    ASSUME TypeOK, QueueInv, NEW r \in Req, queue' = Without(r), Only(r), ~Queued(r)'
    PROVE  QueueInv'
<1>1. \A g \in Req \ {r} : (g \in Range(queue') <=> g \in Range(queue))
    BY WithoutEffect, Zenon
<1>2. r \notin Range(queue')
    BY WithoutEffect, Zenon
<1>3. \A g \in Req \ {r} : Holds(g) => Holds(g)'
    BY WithoutEffect, Zenon DEF Holds
<1> QED
    BY <1>1, <1>2, <1>3, Zenon DEF QueueInv, Queued, Only, Discovering

LEMMA QueueCome ==
    ASSUME TypeOK, QueueInv, NEW r \in Req, r \notin Range(queue),
           queue' = Append(queue, r), Only(r), pc'[r] = "queued"
    PROVE  QueueInv'
<1>1. \A g \in Req : (g \in Range(queue') <=> g \in Range(queue) \/ g = r)
    BY AppendEffect, Zenon
<1>2. \A g \in Req : Holds(g) => Holds(g)'
    BY AppendEffect, Zenon DEF Holds
<1> QED
    BY <1>1, <1>2, Zenon DEF QueueInv, Only, Discovering

LEMMA QueueStep ==
    ASSUME TypeOK, QueueInv, ClosingInv, [Next]_vars
    PROVE  TypeOK' /\ QueueInv'
<1>1. ASSUME NEW r \in Req, Ask(r) PROVE r \notin Range(queue)
    BY <1>1, Zenon DEF QueueInv, Ask, Discovering
<1>2. TypeOK'
    BY <1>1, StepTyped, WorldTyped, Zenon DEF Next
<1>3. ASSUME NEW r \in Req, Ask(r) PROVE QueueInv'
    BY <1>1, <1>3, GotoEffect, QueueCome, Zenon DEF Ask, Labels
<1>4. ASSUME NEW r \in Req, Hit(r) PROVE QueueInv'
    BY <1>4, GotoEffect, QueueLeave, Zenon DEF Hit, Labels, Queued, Discovering
<1>5. ASSUME NEW r \in Req, Miss(r) PROVE QueueInv'
    <2>1. pc'[r] = "fetch" /\ Only(r) /\ queue' = queue /\ Holds(r) /\ pc[r] = "queued"
        BY <1>5, GotoEffect, Zenon DEF Miss, Labels, cacheVars
    <2> QED
        BY <2>1, QueueKeep, Zenon DEF Queued, Discovering, Only
<1>6. ASSUME NEW r \in Req, Fetch(r) PROVE QueueInv'
    <2>1. pc'[r] = "probe" /\ Only(r) /\ queue' = queue /\ pc[r] = "fetch"
        BY <1>6, GotoEffect, Zenon DEF Fetch, Labels, cacheVars
    <2> QED
        BY <2>1, QueueKeep, Zenon DEF Queued, Discovering, Only
<1>7. ASSUME NEW r \in Req, FetchFails(r) PROVE QueueInv'
    BY <1>7, EndEffect, QueueLeave, Zenon DEF FetchFails, Queued, Discovering
<1>8. ASSUME NEW r \in Req, Collect(r) PROVE QueueInv'
    BY <1>8, GotoEffect, QueueLeave, Zenon DEF Collect, Labels, Queued, Discovering
<1>9. ASSUME NEW r \in Req, pc[r] \in {"have", "body", "init", "notify", "call"},
             pc'[r] \in {"idle", "body", "init", "notify", "call"}, Only(r), UNCHANGED queue
      PROVE  QueueInv'
    BY <1>9, QueueKeep, Zenon DEF Queued, Discovering, Only
<1>10. ASSUME NEW r \in Req, Resolve(r) \/ ReadBody(r) PROVE QueueInv'
    BY <1>9, <1>10, EndEffect, GotoEffect, Zenon DEF Resolve, ReadBody, Labels, cacheVars
<1>11. ASSUME NEW r \in Req, NoDelegation(r) PROVE QueueInv'
    BY <1>9, <1>11, EndEffect, Zenon DEF NoDelegation, cacheVars
<1>12. ASSUME NEW r \in Req, CallInit(r) PROVE QueueInv'
    BY <1>9, <1>12, EndEffect, GotoEffect, Zenon DEF CallInit, Labels, cacheVars
<1>13. ASSUME NEW r \in Req, CallNotify(r) PROVE QueueInv'
    BY <1>9, <1>13, GotoEffect, Zenon DEF CallNotify, Labels, cacheVars
<1>14. ASSUME NEW r \in Req, CallNotifyFails(r) \/ Call(r) PROVE QueueInv'
    BY <1>9, <1>14, EndEffect, Zenon DEF CallNotifyFails, Call, cacheVars
<1>15. ASSUME NEW r \in Req, Cancel(r) PROVE QueueInv'
    BY <1>15, EndEffect, QueueLeave, Zenon DEF Cancel, Queued, Discovering
<1>16. ASSUME UNCHANGED <<queue, pc>> PROVE QueueInv'
    BY <1>16, QueueKeep, Zenon DEF Queued, Discovering
<1>17. ASSUME NEW r \in Req, NEW e \in Ext, ProbeStep(r, e) PROVE QueueInv'
    BY <1>16, <1>17, Zenon DEF ProbeStep, ProbeStart, ProbeInit, ProbeInitFails, ProbeNotify,
       ProbeNotifyFails, ProbeList, ProbeClose, Probe, cacheVars
<1>18. ASSUME NEW r \in Req, CloseTask(r) PROVE QueueInv'
    BY <1>16, <1>18, Zenon DEF CloseTask, cacheVars
<1>19. ASSUME Tick \/ (\E e \in Ext : Start(e) \/ Stop(e)) \/ UNCHANGED vars PROVE QueueInv'
    BY <1>16, <1>19, Zenon DEF Tick, Start, Stop, vars, cacheVars
<1>20. ASSUME NEW r \in Req, Step(r) PROVE QueueInv'
    BY <1>4, <1>5, <1>6, <1>7, <1>8, <1>10, <1>11, <1>12, <1>13, <1>14, <1>17, <1>20, Zenon
       DEF Step
<1> QED
    BY <1>2, <1>3, <1>10, <1>15, <1>18, <1>19, <1>20, Zenon DEF Next

(* A close is spawned when the request ends, and the request's name is not *)
(* used again before it has run.                                           *)
LEMMA ClosingStep ==
    ASSUME TypeOK, ClosingInv, [Next]_vars
    PROVE  ClosingInv'
<1>1. ASSUME NEW r \in Req, Only(r), pc[r] # "idle", closing' \subseteq closing
      PROVE  ClosingInv'
    BY <1>1, Zenon DEF ClosingInv, Only, TypeOK
<1>2. ASSUME UNCHANGED pc, closing' \subseteq closing PROVE ClosingInv'
    BY <1>2, Zenon DEF ClosingInv
<1>3. ASSUME NEW r \in Req, Ask(r) PROVE ClosingInv'
    BY <1>3, GotoEffect, Zenon DEF Ask, Labels, sessions, ClosingInv, Only, TypeOK
<1>4. ASSUME NEW r \in Req, Call(r) PROVE ClosingInv'
    BY <1>4, EndEffect, Zenon DEF Call, ClosingInv, Only, TypeOK
<1>5. ASSUME NEW r \in Req, Hit(r) \/ Miss(r) \/ Fetch(r) \/ Collect(r) \/ CallNotify(r)
      PROVE  ClosingInv'
    BY <1>1, <1>5, GotoEffect, Zenon DEF Hit, Miss, Fetch, Collect, CallNotify, Labels, sessions
<1>6. ASSUME NEW r \in Req,
             FetchFails(r) \/ NoDelegation(r) \/ CallNotifyFails(r) \/ Cancel(r)
      PROVE  ClosingInv'
    BY <1>1, <1>6, EndEffect, Zenon DEF FetchFails, NoDelegation, CallNotifyFails, Cancel,
       sessions
<1>7. ASSUME NEW r \in Req, Resolve(r) \/ ReadBody(r) \/ CallInit(r) PROVE ClosingInv'
    BY <1>1, <1>7, EndEffect, GotoEffect, Zenon DEF Resolve, ReadBody, CallInit, Labels, sessions
<1>8. ASSUME NEW r \in Req, NEW e \in Ext, ProbeStep(r, e) PROVE ClosingInv'
    BY <1>2, <1>8, Zenon DEF ProbeStep, ProbeStart, ProbeInit, ProbeInitFails, ProbeNotify,
       ProbeNotifyFails, ProbeList, ProbeClose, Probe
<1>9. ASSUME NEW r \in Req, CloseTask(r) PROVE ClosingInv'
    BY <1>2, <1>9, Zenon DEF CloseTask
<1>10. ASSUME Tick \/ (\E e \in Ext : Start(e) \/ Stop(e)) \/ UNCHANGED vars
       PROVE  ClosingInv'
    BY <1>2, <1>10, Zenon DEF Tick, Start, Stop, vars, sessions
<1> QED
    BY <1>3, <1>4, <1>5, <1>6, <1>7, <1>8, <1>9, <1>10, Zenon DEF Next, Step

----------------------------------------------------------------------------
(* The sessions and the fan-out. *)

FlightInv == SessionInv /\ FanOutInv

LEMMA OneDiscovers ==
    ASSUME QueueInv, NEW r \in Req, NEW g \in Req, Discovering(r), Discovering(g)
    PROVE  r = g
BY Zenon DEF QueueInv, Holds

(* Steps that are not a discovery's. *)
LEMMA Aside ==
    ASSUME TypeOK, FlightInv, \A g \in Req : pc'[g] = "probe" <=> pc[g] = "probe",
           UNCHANGED stage, \A s \in open' : s.role = "probe" => s \in open
    PROVE  FlightInv'
<1>1. SessionInv'
    BY SessionIs, Zenon DEF SessionInv, FlightInv, TypeOK
<1>2. Busy' = Busy
    BY Zenon DEF Busy
<1>3. FanOutInv'
    BY <1>2, Zenon DEF FlightInv, FanOutInv
<1> QED
    BY <1>1, <1>3, Zenon DEF FlightInv

INSTANCE FiniteSetTheorems

(* Nothing runs and no session of a probe is open. *)
LEMMA Landed ==
    ASSUME TypeOK', \A e \in Ext : stage'[e] \in {"none", "wait"},
           \A s \in open' : s.role # "probe",
           (\A r \in Req : pc'[r] # "probe") => \A e \in Ext : stage'[e] = "none"
    PROVE  FlightInv'
<1>1. Busy' = {}
    BY Zenon DEF Busy, Running
<1>2. AtLeastOne(Conc) \in Nat
    BY ConstantsAssumption, AtLeastOneType
<1>3. IsFiniteSet(Busy') /\ Cardinality(Busy') <= AtLeastOne(Conc)
    BY <1>1, <1>2, FS_EmptySet
<1> QED
    BY <1>3, Zenon DEF FlightInv, SessionInv, FanOutInv, Busy

LEMMA FanOutProbe ==
    ASSUME TypeOK, FanOutInv, NEW r \in Req, NEW e \in Ext, pc[r] = "probe", UNCHANGED pc,
           NEW to \in Stages, stage' = [stage EXCEPT ![e] = to],
           stage[e] \notin Running /\ to \in Running => Cardinality(Busy) < AtLeastOne(Conc)
    PROVE  FanOutInv'
<1>1. stage \in [Ext -> Stages] /\ AtLeastOne(Conc) \in Nat
    BY ConstantsAssumption, AtLeastOneType, Zenon DEF TypeOK
<1>2. CASE to \in Running /\ stage[e] \notin Running
    <2>1. Busy' = Busy \cup {e} /\ e \notin Busy
        BY <1>1, <1>2, Zenon DEF Busy
    <2>2. IsFiniteSet(Busy') /\ Cardinality(Busy') = Cardinality(Busy) + 1
        BY <2>1, FS_AddElement DEF FanOutInv
    <2>3. Cardinality(Busy') <= AtLeastOne(Conc)
        <3>1. Cardinality(Busy) \in Nat
            BY FS_CardinalityType, Zenon DEF FanOutInv
        <3> QED
            BY <1>1, <1>2, <2>2, <3>1
    <2> QED
        BY <2>2, <2>3, Zenon DEF FanOutInv, Busy
<1>3. CASE to \notin Running \/ stage[e] \in Running
    <2>1. Busy' \in SUBSET Busy
        BY <1>1, <1>3, Zenon DEF Busy
    <2>2. IsFiniteSet(Busy') /\ Cardinality(Busy') <= Cardinality(Busy)
        BY <2>1, FS_Subset, Zenon DEF FanOutInv
    <2>3. Cardinality(Busy') <= AtLeastOne(Conc)
        <3>1. Cardinality(Busy) \in Nat /\ Cardinality(Busy') \in Nat
            BY <2>2, FS_CardinalityType, Zenon DEF FanOutInv
        <3> QED
            BY <1>1, <2>2, <3>1 DEF FanOutInv
    <2> QED
        BY <2>2, <2>3, Zenon DEF FanOutInv, Busy
<1> QED
    BY <1>2, <1>3, Zenon

(* A step of a probe touches its own session only. *)
LEMMA FlightProbe ==
    ASSUME TypeOK, QueueInv, FlightInv, NEW r \in Req, NEW e \in Ext, ProbeStep(r, e)
    PROVE  FlightInv'
<1>1. pc[r] = "probe" /\ UNCHANGED pc
    BY Zenon DEF ProbeStep, ProbeStart, ProbeInit, ProbeInitFails, ProbeNotify,
       ProbeNotifyFails, ProbeList, ProbeClose, Probe
<1>2. ASSUME NEW s \in open, s.role = "probe"
      PROVE  /\ s.by = r /\ s.ext \in Ext /\ pc[s.by] = "probe"
             /\ stage[s.ext] \in {"notify", "list", "close"}
             /\ s.ext = e => s = S(r, e, "probe")
    <2>1. s.by \in Req /\ s.ext \in Ext /\ s = S(s.by, s.ext, "probe")
        BY <1>2, SessionIs, Zenon DEF TypeOK
    <2>2. pc[s.by] = "probe" /\ stage[s.ext] \in {"notify", "list", "close"}
        BY <1>2, Zenon DEF FlightInv, SessionInv
    <2>3. s.by = r
        BY <1>1, <2>1, <2>2, OneDiscovers, Zenon DEF Discovering
    <2> QED
        BY <2>1, <2>2, <2>3, Zenon
<1>3. stage \in [Ext -> Stages]
    BY Zenon DEF TypeOK
<1>4. FanOutInv
    BY Zenon DEF FlightInv
<1>5. ASSUME ProbeStart(r, e) PROVE FlightInv'
    <2>1. /\ stage[e] = "wait" /\ stage' = [stage EXCEPT ![e] = "init"] /\ UNCHANGED open
          /\ Cardinality(Busy) < AtLeastOne(Conc)
        BY <1>5, Zenon DEF ProbeStart, Probe, Busy
    <2>2. FanOutInv'
        BY <1>1, <1>4, <2>1, FanOutProbe, Zenon DEF Stages
    <2>3. SessionInv'
        BY <1>1, <1>2, <1>3, <2>1, Zenon DEF SessionInv
    <2> QED
        BY <2>2, <2>3, Zenon DEF FlightInv
<1>6. ASSUME ProbeInit(r, e) PROVE FlightInv'
    <2>1. /\ stage[e] = "init" /\ stage' = [stage EXCEPT ![e] = "notify"]
          /\ open' = open \cup {S(r, e, "probe")}
        BY <1>6, Zenon DEF ProbeInit, Probe
    <2>2. FanOutInv'
        BY <1>1, <1>4, <2>1, FanOutProbe, Zenon DEF Stages, Running
    <2>3. SessionInv'
        <3>1. stage'[e] = "notify" /\ \A f \in Ext \ {e} : stage'[f] = stage[f]
            BY <1>3, <2>1, Zenon
        <3> QED
            <4> SUFFICES ASSUME NEW s \in open', s.role = "probe"
                         PROVE  /\ pc'[s.by] = "probe"
                                /\ stage'[s.ext] \in {"notify", "list", "close"}
                BY Zenon DEF SessionInv
            <4>1. CASE s \in open
                BY <1>1, <1>2, <3>1, <4>1, Zenon
            <4>2. CASE s = S(r, e, "probe")
                <5>1. s.by = r /\ s.ext = e
                    BY <4>2, SessionFields, Zenon
                <5> QED
                    BY <1>1, <3>1, <5>1, Zenon
            <4> QED
                BY <2>1, <4>1, <4>2, Zenon
    <2> QED
        BY <2>2, <2>3, Zenon DEF FlightInv
<1>7. ASSUME ProbeInitFails(r, e) PROVE FlightInv'
    <2>1. /\ stage[e] = "init" /\ stage' = [stage EXCEPT ![e] = "done"] /\ UNCHANGED open
        BY <1>7, Zenon DEF ProbeInitFails, Probe
    <2>2. FanOutInv'
        BY <1>1, <1>4, <2>1, FanOutProbe, Zenon DEF Stages, Running
    <2>3. SessionInv'
        BY <1>1, <1>2, <1>3, <2>1, Zenon DEF SessionInv
    <2> QED
        BY <2>2, <2>3, Zenon DEF FlightInv
<1>8. ASSUME ProbeNotify(r, e) \/ ProbeList(r, e) PROVE FlightInv'
    <2>1. PICK to \in {"list", "close"} :
            /\ stage[e] \in {"notify", "list"} /\ stage' = [stage EXCEPT ![e] = to]
            /\ UNCHANGED open
        BY <1>8, Zenon DEF ProbeNotify, ProbeList, Probe
    <2>2. FanOutInv'
        BY <1>1, <1>4, <2>1, FanOutProbe, Zenon DEF Stages, Running
    <2>3. SessionInv'
        <3>1. stage'[e] = to /\ \A f \in Ext \ {e} : stage'[f] = stage[f]
            BY <1>3, <2>1, Zenon
        <3> QED
            BY <1>1, <1>2, <2>1, <3>1, Zenon DEF SessionInv
    <2> QED
        BY <2>2, <2>3, Zenon DEF FlightInv
<1>9. ASSUME ProbeNotifyFails(r, e) \/ ProbeClose(r, e) PROVE FlightInv'
    <2>1. /\ stage[e] \in {"notify", "close"} /\ stage' = [stage EXCEPT ![e] = "done"]
          /\ open' = open \ {S(r, e, "probe")}
        BY <1>9, LeaveEffect, CloseEffect, Zenon DEF ProbeNotifyFails, ProbeClose, Probe
    <2>2. FanOutInv'
        BY <1>1, <1>4, <2>1, FanOutProbe, Zenon DEF Stages, Running
    <2>3. SessionInv'
        <3>1. \A f \in Ext \ {e} : stage'[f] = stage[f]
            BY <1>3, <2>1, Zenon
        <3> QED
            BY <1>1, <1>2, <2>1, <3>1, Zenon DEF SessionInv
    <2> QED
        BY <2>2, <2>3, Zenon DEF FlightInv
<1> QED
    BY <1>5, <1>6, <1>7, <1>8, <1>9, Zenon DEF ProbeStep

LEMMA FlightStep ==
    ASSUME TypeOK, TypeOK', QueueInv, ClosingInv, FlightInv, [Next]_vars
    PROVE  FlightInv'
<1>1. ASSUME NEW r \in Req, pc[r] # "probe", pc'[r] # "probe", Only(r), UNCHANGED stage,
             \A s \in open' : s.role = "probe" => s \in open
      PROVE  FlightInv'
    BY <1>1, Aside, Zenon DEF Only
<1>2. ASSUME UNCHANGED <<pc, stage>>, open' \subseteq open PROVE FlightInv'
    BY <1>2, Aside, Zenon
<1>3. ASSUME NEW r \in Req, Ask(r) \/ Hit(r) \/ Miss(r) \/ CallNotify(r) PROVE FlightInv'
    BY <1>1, <1>3, GotoEffect, Zenon DEF Ask, Hit, Miss, CallNotify, Labels, discovery, sessions
<1>4. ASSUME NEW r \in Req, FetchFails(r) \/ NoDelegation(r) \/ CallNotifyFails(r) \/ Call(r)
      PROVE  FlightInv'
    BY <1>1, <1>4, EndEffect, LeaveEffect, Zenon DEF FetchFails, NoDelegation,
       CallNotifyFails, Call, discovery, sessions
<1>5. ASSUME NEW r \in Req, Resolve(r) \/ ReadBody(r) PROVE FlightInv'
    BY <1>1, <1>5, EndEffect, GotoEffect, Zenon
       DEF Resolve, ReadBody, Labels, discovery, sessions
<1>6. ASSUME NEW r \in Req, CallInit(r) PROVE FlightInv'
    <2>1. CASE End(r) /\ UNCHANGED open
        BY <1>1, <1>6, <2>1, EndEffect, Zenon DEF CallInit, discovery
    <2>2. CASE /\ want[r] \in up /\ Goto(r, "notify")
               /\ open' = open \cup {S(r, want[r], "call")}
        <3>1. S(r, want[r], "call").role = "call"
            BY <2>2, SessionFields, Zenon DEF TypeOK
        <3> QED
            BY <1>1, <1>6, <2>2, <3>1, GotoEffect, Zenon DEF CallInit, Labels, discovery
    <2> QED
        BY <1>6, <2>1, <2>2, Zenon DEF CallInit
<1>7. ASSUME NEW r \in Req, Fetch(r) PROVE FlightInv'
    <2>1. pc'[r] = "probe" /\ UNCHANGED open /\ \A e \in Ext : stage'[e] \in {"none", "wait"}
        BY <1>7, GotoEffect, Zenon DEF Fetch, Labels, sessions
    <2>2. \A g \in Req : pc[g] # "probe"
        BY <1>7, OneDiscovers, Zenon DEF Fetch, Discovering
    <2>3. \A s \in open : s.role # "probe"
        BY <2>2, SessionIs, Zenon DEF FlightInv, SessionInv, TypeOK
    <2> QED
        BY <2>1, <2>3, Landed, Zenon
<1>8. ASSUME NEW r \in Req, Collect(r) PROVE FlightInv'
    <2>1. \A e \in Ext : stage'[e] = "none"
        BY <1>8, Zenon DEF Collect
    <2>2. \A s \in open : s.role # "probe"
        BY <1>8, SessionIs, Zenon DEF Collect, FlightInv, SessionInv, TypeOK
    <2>3. UNCHANGED open
        BY <1>8, Zenon DEF Collect, sessions
    <2> QED
        BY <2>1, <2>2, <2>3, Landed, Zenon
<1>9. ASSUME NEW r \in Req, Cancel(r) PROVE FlightInv'
    <2>1. open' = open \ Mine(r) /\ pc'[r] = "idle" /\ Only(r)
        BY <1>9, AbandonEffect, EndEffect, Zenon DEF Cancel
    <2>2. CASE pc[r] # "probe"
        <3>1. UNCHANGED stage
            BY <1>9, <2>2, Zenon DEF Cancel, discovery
        <3> QED
            BY <1>1, <2>1, <2>2, <3>1, Zenon
    <2>3. CASE pc[r] = "probe"
        <3>1. \A e \in Ext : stage'[e] = "none"
            BY <1>9, <2>3, Zenon DEF Cancel
        <3>2. ASSUME NEW s \in open, s.role = "probe" PROVE s \in Mine(r)
            <4>1. s.by \in Req /\ pc[s.by] = "probe"
                BY <3>2, SessionIs, Zenon DEF FlightInv, SessionInv, TypeOK
            <4> QED
                BY <2>3, <4>1, OneDiscovers, Zenon DEF Discovering, Mine
        <3> QED
            BY <2>1, <3>1, <3>2, Landed, Zenon
    <2> QED
        BY <2>2, <2>3
<1>10. ASSUME NEW r \in Req, CloseTask(r) PROVE FlightInv'
    BY <1>2, <1>10, CloseEffect, Zenon DEF CloseTask, discovery
<1>11. ASSUME Tick \/ (\E e \in Ext : Start(e) \/ Stop(e)) \/ UNCHANGED vars
       PROVE  FlightInv'
    BY <1>2, <1>11, Zenon DEF Tick, Start, Stop, vars, discovery, sessions
<1> QED
    BY <1>3, <1>4, <1>5, <1>6, <1>7, <1>8, <1>9, <1>10, <1>11, FlightProbe, Zenon DEF Next, Step

----------------------------------------------------------------------------
(* The theorems. *)

LEMMA CatalogInit == Init => CatalogInv
<1> SUFFICES ASSUME Init PROVE CatalogInv
    OBVIOUS
<1>1. queue \in Seq(Req) /\ IsInjective(queue) /\ Range(queue) = {}
    BY DEF Init, IsInjective, Range
<1>2. now \in 0..MaxTime /\ faults \in 0..MaxFault
    BY ConstantsAssumption DEF Init
<1>3. TypeOK
    BY <1>1, <1>2, NoStage, Zenon DEF Init, TypeOK
<1>4. QueueInv /\ ClosingInv /\ SessionInv
    BY <1>1, Zenon DEF Init, QueueInv, ClosingInv, SessionInv, Discovering
<1>5. Busy = {} /\ AtLeastOne(Conc) \in Nat
    BY ConstantsAssumption, AtLeastOneType, Zenon DEF Init, Busy, Running
<1>6. FanOutInv
    <2>1. IsFiniteSet(Busy) /\ Cardinality(Busy) <= AtLeastOne(Conc)
        BY <1>5, FS_EmptySet
    <2> QED
        BY <2>1, Zenon DEF Init, FanOutInv
<1> QED
    BY <1>3, <1>4, <1>6, Zenon DEF CatalogInv

(* The inductive invariant: whoever discovers is at the head of the queue, *)
(* the sessions of probes are its own and their probes still running, and  *)
(* no more probes run than may.                                            *)
THEOREM CatalogInvariant == Spec => []CatalogInv
<1>1. CatalogInv /\ [Next]_vars => CatalogInv'
    BY QueueStep, ClosingStep, FlightStep, Zenon DEF CatalogInv, FlightInv
<1> QED
    BY <1>1, CatalogInit, PTL DEF Spec

(* At most one request discovers, whoever fails or goes away, and the      *)
(* sessions that its probes hold open stay within discovery_concurrency,   *)
(* for any number of extensions (discover_tools, buffer_unordered).        *)
THEOREM Discovery_Holds == Spec => []DiscoveryInv
<1>1. CatalogInv => SingleFlight
    <2> SUFFICES ASSUME CatalogInv PROVE SingleFlight
        OBVIOUS
    <2> DEFINE D == {r \in Req : pc[r] \in {"fetch", "probe"}}
    <2>1. D \in SUBSET {Head(queue)}
        BY Zenon DEF CatalogInv, QueueInv, Discovering, Holds
    <2>2. IsFiniteSet({Head(queue)}) /\ Cardinality({Head(queue)}) = 1
        BY FS_Singleton, Zenon
    <2> HIDE DEF D
    <2>3. IsFiniteSet(D) /\ Cardinality(D) <= 1
        <3>1. IsFiniteSet(D) /\ Cardinality(D) <= Cardinality({Head(queue)})
            BY <2>1, <2>2, FS_Subset, Zenon
        <3> QED
            BY <2>2, <3>1
    <2> QED
        BY <2>3, Zenon DEF SingleFlight, D
<1>2. CatalogInv => FanOutIsBounded
    <2> SUFFICES ASSUME CatalogInv PROVE FanOutIsBounded
        OBVIOUS
    <2> DEFINE P == {s \in open : s.role = "probe"}
               f == [s \in P |-> s.ext]
    <2>1. ASSUME NEW s \in P
          PROVE  /\ s.by \in Req /\ s.ext \in Busy /\ pc[s.by] = "probe"
                 /\ s = S(s.by, s.ext, "probe")
        <3>1. s.by \in Req /\ s.ext \in Ext /\ s = S(s.by, s.ext, "probe")
            BY SessionIs, Zenon DEF CatalogInv, TypeOK
        <3> QED
            BY <3>1, Zenon DEF CatalogInv, SessionInv, Busy, Running
    <2>2. ASSUME NEW s \in P, NEW t \in P, s.ext = t.ext PROVE s = t
        <3>1. s.by = t.by
            BY <2>1, OneDiscovers, Zenon DEF CatalogInv, Discovering
        <3> QED
            BY <2>1, <2>2, <3>1, Zenon
    <2>3. f \in Injection(P, Busy)
        BY <2>1, <2>2, Zenon DEF Injection, IsInjective
    <2>4. IsFiniteSet(Busy) /\ Cardinality(Busy) <= AtLeastOne(Conc)
        BY Zenon DEF CatalogInv, FanOutInv
    <2> HIDE DEF f, P
    <2>5. IsFiniteSet(P) /\ Cardinality(P) <= Cardinality(Busy)
        BY <2>3, <2>4, FS_Injection, Zenon
    <2>6. Cardinality(P) \in Nat /\ Cardinality(Busy) \in Nat /\ AtLeastOne(Conc) \in Nat
        BY <2>4, <2>5, FS_CardinalityType, AtLeastOneType, ConstantsAssumption, Zenon
    <2>7. Cardinality(P) <= AtLeastOne(Conc)
        BY <2>4, <2>5, <2>6
    <2> QED
        BY <2>7, Zenon DEF FanOutIsBounded, P
<1>3. CatalogInv => DiscoveryInv
    BY <1>1, <1>2, Zenon DEF CatalogInv, DiscoveryInv
<1> QED
    BY <1>3, CatalogInvariant, PTL


(* The step of CatalogIsSound. *)
SoundStep ==
    /\ cache' # cache => /\ \A e \in Ext : stage[e] \in {"none", "done"}
                         /\ cache'.tools = found
    /\ \A r \in Req : (pc[r] # "have" /\ pc'[r] = "have") =>
            cache' # None /\ cache'.expires > now /\ tools'[r] = cache'.tools

LEMMA SoundQuiet ==
    ASSUME UNCHANGED cache, \A g \in Req : pc'[g] = "have" => pc[g] = "have"
    PROVE  SoundStep
BY Zenon DEF SoundStep

LEMMA SoundStepHolds ==
    ASSUME TypeOK, [Next]_vars
    PROVE  SoundStep
<1>1. ASSUME NEW r \in Req, Only(r), pc'[r] # "have", UNCHANGED cache PROVE SoundStep
    BY <1>1, SoundQuiet, Zenon DEF Only
<1>2. ASSUME UNCHANGED <<cache, pc>> PROVE SoundStep
    BY <1>2, SoundQuiet, Zenon
<1>3. ASSUME NEW r \in Req, Hit(r) PROVE SoundStep
    <2>1. /\ Only(r) /\ UNCHANGED cache /\ Valid /\ tools'[r] = cache.tools
        BY <1>3, GotoEffect, Zenon DEF Hit, Labels, TypeOK
    <2> QED
        BY <2>1, Zenon DEF SoundStep, Only, Valid
<1>4. ASSUME NEW r \in Req, Collect(r) PROVE SoundStep
    <2>1. /\ Only(r) /\ tools'[r] = found /\ \A e \in Ext : stage[e] \in {"none", "done"}
          /\ cache' = [tools |-> found, expires |-> now + AtLeastOne(TTL)]
        BY <1>4, GotoEffect, Zenon DEF Collect, Labels, TypeOK
    <2>2. now + AtLeastOne(TTL) > now
        <3>1. now \in Nat /\ AtLeastOne(TTL) \in Nat \ {0}
            BY ConstantsAssumption, AtLeastOneType DEF TypeOK
        <3> QED
            BY <3>1
    <2>3. cache'.tools = found /\ cache'.expires > now
        BY <2>1, <2>2, Zenon
    <2>4. cache' # None
        <3>1. now + AtLeastOne(TTL) \in Nat /\ found \in SUBSET Ext
            BY ConstantsAssumption, AtLeastOneType DEF TypeOK
        <3>2. cache' \in [tools : SUBSET Ext, expires : Nat]
            BY <2>1, <3>1
        <3> QED
            BY <3>2, ConstantsAssumption, Zenon
    <2> QED
        BY <2>1, <2>3, <2>4, Zenon DEF SoundStep, Only
<1>5. ASSUME NEW r \in Req, Ask(r) \/ Miss(r) \/ Fetch(r) \/ CallNotify(r) PROVE SoundStep
    BY <1>1, <1>5, GotoEffect, Zenon DEF Ask, Miss, Fetch, CallNotify, Labels, cacheVars
<1>6. ASSUME NEW r \in Req, FetchFails(r) \/ NoDelegation(r) \/ CallNotifyFails(r) \/ Call(r)
                            \/ Cancel(r)
      PROVE  SoundStep
    BY <1>1, <1>6, EndEffect, Zenon DEF FetchFails, NoDelegation, CallNotifyFails, Call, Cancel,
       cacheVars
<1>7. ASSUME NEW r \in Req, Resolve(r) \/ ReadBody(r) \/ CallInit(r) PROVE SoundStep
    BY <1>1, <1>7, EndEffect, GotoEffect, Zenon
       DEF Resolve, ReadBody, CallInit, Labels, cacheVars
<1>8. ASSUME NEW r \in Req, NEW e \in Ext, ProbeStep(r, e) PROVE SoundStep
    BY <1>2, <1>8, Zenon DEF ProbeStep, ProbeStart, ProbeInit, ProbeInitFails, ProbeNotify,
       ProbeNotifyFails, ProbeList, ProbeClose, Probe, cacheVars
<1>9. ASSUME NEW r \in Req, CloseTask(r) PROVE SoundStep
    BY <1>2, <1>9, Zenon DEF CloseTask, cacheVars
<1>10. ASSUME Tick \/ (\E e \in Ext : Start(e) \/ Stop(e)) \/ UNCHANGED vars
       PROVE  SoundStep
    BY <1>2, <1>10, Zenon DEF Tick, Start, Stop, vars, cacheVars
<1> QED
    BY <1>3, <1>4, <1>5, <1>6, <1>7, <1>8, <1>9, <1>10, Zenon DEF Next, Step

(* The catalog changes only at the end of a complete discovery, to what it *)
(* found, and a request is given a catalog only within its time to live,   *)
(* even if catalog_ttl_seconds is 0 (discover_tools).                      *)
THEOREM CatalogIsSound_Holds == Spec => CatalogIsSound
<1>1. CatalogInv /\ [Next]_vars => SoundStep
    BY SoundStepHolds, Zenon DEF CatalogInv
<1> QED
    BY <1>1, CatalogInvariant, PTL DEF Spec, CatalogIsSound, SoundStep

----------------------------------------------------------------------------
(* The sessions that are left. *)

(* A session of a call is its request's, until the close is spawned. *)
CallInv ==
    \A s \in open : s.role = "call" /\ s.by \notin closing =>
        pc[s.by] \in {"notify", "call"} /\ want[s.by] = s.ext

OnlyWants(r) == \A g \in Req \ {r} : want'[g] = want[g]

LEMMA EndWants == ASSUME TypeOK, NEW r \in Req, End(r) PROVE OnlyWants(r)
BY Zenon DEF TypeOK, End, OnlyWants

(* Steps of a request that has no session of a call, or gives it up. *)
LEMMA CallAside ==
    ASSUME TypeOK, CallInv, NEW r \in Req, Only(r), OnlyWants(r),
           closing' \cup {r} = closing \cup {r},
           \A s \in open' : s.role = "call" => s \in open,
           r \in closing' \/ pc[r] \notin {"notify", "call"} \/ open' \cap Mine(r) = {},
           r \in closing' \/ r \notin closing \/ open' \cap Mine(r) = {}
    PROVE  CallInv'
<1> SUFFICES ASSUME NEW s \in open', s.role = "call", s.by \notin closing'
             PROVE  pc'[s.by] \in {"notify", "call"} /\ want'[s.by] = s.ext
    BY Zenon DEF CallInv
<1>1. s \in open /\ s.by \in Req
    BY SessionIs, Zenon DEF TypeOK
<1>2. s.by # r
    BY <1>1, Zenon DEF CallInv, Mine
<1>3. s.by \notin closing
    BY <1>2, Zenon
<1> QED
    BY <1>1, <1>2, <1>3, Zenon DEF CallInv, Only, OnlyWants

LEMMA CallKept ==
    ASSUME CallInv, UNCHANGED <<pc, want, closing>>,
           \A s \in open' : s.role = "call" => s \in open
    PROVE  CallInv'
BY Zenon DEF CallInv

LEMMA CallStep ==
    ASSUME TypeOK, ClosingInv, CallInv, [Next]_vars
    PROVE  CallInv'
<1>1. ASSUME NEW r \in Req, Ask(r) \/ Hit(r) \/ Miss(r) \/ Fetch(r) \/ Collect(r)
      PROVE  CallInv'
    <2>1. Only(r) /\ OnlyWants(r) /\ UNCHANGED <<open, closing>>
        BY <1>1, GotoEffect, Zenon DEF Ask, Hit, Miss, Fetch, Collect, Labels, sessions,
           OnlyWants
    <2>2. pc[r] \notin {"notify", "call"} /\ r \notin closing
        BY <1>1, Zenon DEF Ask, Hit, Miss, Fetch, Collect, ClosingInv
    <2> QED
        BY <2>1, <2>2, CallAside, Zenon
<1>2. ASSUME NEW r \in Req, FetchFails(r) \/ NoDelegation(r) PROVE CallInv'
    <2>1. Only(r) /\ OnlyWants(r) /\ UNCHANGED <<open, closing>>
        BY <1>2, EndEffect, EndWants, Zenon DEF FetchFails, NoDelegation, sessions
    <2>2. pc[r] \notin {"notify", "call"} /\ r \notin closing
        BY <1>2, Zenon DEF FetchFails, NoDelegation, ClosingInv
    <2> QED
        BY <2>1, <2>2, CallAside, Zenon
<1>3. ASSUME NEW r \in Req, Resolve(r) \/ ReadBody(r) PROVE CallInv'
    <2>1. OnlyWants(r)
        <3>1. CASE End(r)
            BY <3>1, EndWants, Zenon
        <3>2. CASE \E e \in tools[r] : want' = [want EXCEPT ![r] = e]
            BY <3>2, Zenon DEF OnlyWants, TypeOK
        <3>3. CASE UNCHANGED want
            BY <3>3, Zenon DEF OnlyWants
        <3> QED
            BY <1>3, <3>1, <3>2, <3>3, Zenon DEF Resolve, ReadBody
    <2>2. Only(r) /\ UNCHANGED <<open, closing>>
        BY <1>3, EndEffect, GotoEffect, Zenon DEF Resolve, ReadBody, Labels, sessions
    <2>3. pc[r] \notin {"notify", "call"} /\ r \notin closing
        BY <1>3, Zenon DEF Resolve, ReadBody, ClosingInv
    <2> QED
        BY <2>1, <2>2, <2>3, CallAside, Zenon
<1>4. ASSUME NEW r \in Req, CallInit(r) PROVE CallInv'
    <2>1. pc[r] \notin {"notify", "call"} /\ r \notin closing /\ UNCHANGED closing
        BY <1>4, Zenon DEF CallInit, ClosingInv
    <2>2. CASE End(r) /\ UNCHANGED open
        BY <2>1, <2>2, EndEffect, EndWants, CallAside, Zenon
    <2>3. CASE /\ want[r] \in up /\ Goto(r, "notify")
               /\ open' = open \cup {S(r, want[r], "call")} /\ UNCHANGED want
        <3> SUFFICES ASSUME NEW s \in open', s.role = "call", s.by \notin closing'
                     PROVE  pc'[s.by] \in {"notify", "call"} /\ want'[s.by] = s.ext
            BY Zenon DEF CallInv
        <3>1. pc'[r] = "notify" /\ Only(r)
            BY <2>3, GotoEffect, Zenon DEF Labels
        <3>2. CASE s \in open
            <4>1. s.by \in Req /\ s.by # r
                <5>1. s.by \in Req /\ s.by \notin closing
                    BY <2>1, <3>2, SessionIs, Zenon DEF TypeOK
                <5>2. pc[s.by] \in {"notify", "call"}
                    BY <3>2, <5>1, Zenon DEF CallInv
                <5> QED
                    BY <2>1, <5>1, <5>2, Zenon
            <4> QED
                BY <2>1, <2>3, <3>1, <3>2, <4>1, Zenon DEF CallInv, Only
        <3>3. CASE s = S(r, want[r], "call")
            <4>1. s.by = r /\ s.ext = want[r]
                BY <3>3 DEF S
            <4> QED
                BY <2>3, <3>1, <4>1, Zenon
        <3> QED
            BY <2>3, <3>2, <3>3, Zenon
    <2> QED
        BY <1>4, <2>2, <2>3, Zenon DEF CallInit
<1>5. ASSUME NEW r \in Req, CallNotify(r) PROVE CallInv'
    <2>1. pc'[r] = "call" /\ Only(r) /\ UNCHANGED <<want, open, closing>>
        BY <1>5, GotoEffect, Zenon DEF CallNotify, Labels, sessions
    <2>2. \A s \in open : s.by \in Req
        BY SessionIs, Zenon DEF TypeOK
    <2> QED
        BY <2>1, <2>2, Zenon DEF CallInv, Only
<1>6. ASSUME NEW r \in Req, CallNotifyFails(r) \/ Cancel(r) PROVE CallInv'
    <2>1. open' = open \ Mine(r) /\ UNCHANGED closing
        BY <1>6, LeaveEffect, AbandonEffect, Zenon DEF CallNotifyFails, Cancel
    <2>2. Only(r) /\ OnlyWants(r)
        BY <1>6, EndEffect, EndWants, Zenon DEF CallNotifyFails, Cancel
    <2> QED
        BY <2>1, <2>2, CallAside, Zenon
<1>7. ASSUME NEW r \in Req, Call(r) PROVE CallInv'
    <2>1. Only(r) /\ OnlyWants(r) /\ UNCHANGED open /\ closing' = closing \cup {r}
        BY <1>7, EndEffect, EndWants, Zenon DEF Call
    <2> QED
        BY <2>1, CallAside, Zenon
<1>8. ASSUME NEW r \in Req, CloseTask(r) PROVE CallInv'
    <2>1. /\ open' = open \ Mine(r) /\ closing' = closing \ {r}
          /\ Only(r) /\ OnlyWants(r)
        BY <1>8, CloseEffect, Zenon DEF CloseTask, Only, OnlyWants
    <2> QED
        BY <2>1, CallAside, Zenon
<1>9. ASSUME NEW r \in Req, NEW e \in Ext, ProbeStep(r, e) PROVE CallInv'
    <2>1. open' \subseteq open \cup {S(r, e, "probe")}
        BY <1>9, LeaveEffect, CloseEffect, Zenon DEF ProbeStep, ProbeStart, ProbeInit,
           ProbeInitFails, ProbeNotify, ProbeNotifyFails, ProbeList, ProbeClose
    <2>2. UNCHANGED <<pc, want, closing>>
        BY <1>9, Zenon DEF ProbeStep, ProbeStart, ProbeInit, ProbeInitFails, ProbeNotify,
           ProbeNotifyFails, ProbeList, ProbeClose, Probe
    <2>3. S(r, e, "probe").role = "probe" /\ "probe" # "call"
        BY SessionFields
    <2> QED
        BY <2>1, <2>2, <2>3, CallKept, Zenon
<1>10. ASSUME Tick \/ (\E e \in Ext : Start(e) \/ Stop(e)) \/ UNCHANGED vars
       PROVE  CallInv'
    BY <1>10, CallKept, Zenon DEF Tick, Start, Stop, vars, sessions
<1> QED
    BY <1>1, <1>2, <1>3, <1>4, <1>5, <1>6, <1>7, <1>8, <1>9, <1>10, Zenon DEF Next, Step

LEMMA LeftHolds ==
    ASSUME CatalogInv, CallInv, [Next]_vars
    PROVE  [LeftStep]_vars
<1>1. ASSUME UNCHANGED orphans PROVE LeftStep
    BY <1>1, Zenon DEF LeftStep
<1>2. TypeOK /\ ClosingInv /\ SessionInv
    BY Zenon DEF CatalogInv
<1>3. ASSUME NEW r \in Req, NEW e \in Ext, ProbeStep(r, e) PROVE LeftStep
    <2>1. stage[e] \in {"init", "notify", "close"} \/ UNCHANGED orphans
        BY <1>3, Zenon DEF ProbeStep, ProbeStart, ProbeInit, ProbeInitFails, ProbeNotify,
           ProbeNotifyFails, ProbeList, ProbeClose, Probe
    <2>2. S(r, e, "probe").ext = e
        BY DEF S
    <2>3. \A f \in orphans' \ orphans : f = e
        <3>1. CASE UNCHANGED orphans
            BY <3>1, Zenon
        <3>2. CASE MayOpen(e)
            BY <3>2, Zenon DEF MayOpen
        <3>3. CASE Leave({S(r, e, "probe")})
            BY <2>2, <3>3, Zenon DEF Leave
        <3> QED
            BY <1>3, <3>1, <3>2, <3>3, Zenon DEF ProbeStep, ProbeStart, ProbeInit,
               ProbeInitFails, ProbeNotify, ProbeNotifyFails, ProbeList, ProbeClose, Close
    <2>4. CASE UNCHANGED orphans
        BY <1>1, <2>4, Zenon
    <2>5. CASE stage[e] \in {"init", "notify", "close"}
        <3>1. Shaking(e) \/ Closing(e)
            BY <2>5, Zenon DEF Shaking, Closing
        <3> QED
            BY <2>3, <3>1, Zenon DEF LeftStep
    <2> QED
        BY <2>1, <2>4, <2>5, Zenon
<1>4. ASSUME NEW r \in Req, CallInit(r) PROVE LeftStep
    <2>1. \A f \in orphans' \ orphans : f = want[r]
        BY <1>4, Zenon DEF CallInit, MayOpen
    <2> QED
        BY <1>4, <2>1, Zenon DEF CallInit, LeftStep, Shaking
<1>5. ASSUME NEW r \in Req, CallNotifyFails(r) PROVE LeftStep
    <2>1. ASSUME NEW s \in Mine(r) PROVE s.ext = want[r]
        <3>1. s \in open /\ s.by = r /\ s.role \in {"probe", "call"}
            BY <1>2, SessionIs, Zenon DEF Mine, TypeOK
        <3>2. pc[r] = "notify" /\ r \notin closing
            BY <1>2, <1>5, Zenon DEF CallNotifyFails, ClosingInv
        <3> QED
            BY <1>2, <3>1, <3>2, Zenon DEF CallInv, SessionInv
    <2>2. \A f \in orphans' \ orphans : f = want[r]
        BY <1>5, <2>1, Zenon DEF CallNotifyFails, Leave
    <2> QED
        BY <1>5, <2>2, Zenon DEF CallNotifyFails, LeftStep, Shaking
<1>6. ASSUME NEW r \in Req, CloseTask(r) PROVE LeftStep
    <2>1. ASSUME NEW s \in Mine(r) PROVE S(r, s.ext, "call") \in open
        <3>1. s \in open /\ s.by = r /\ s.role \in {"probe", "call"}
              /\ s = S(s.by, s.ext, s.role)
            BY <1>2, SessionIs, Zenon DEF Mine, TypeOK
        <3>2. pc[r] = "idle"
            BY <1>2, <1>6, Zenon DEF CloseTask, ClosingInv
        <3> QED
            BY <1>2, <3>1, <3>2, Zenon DEF SessionInv
    <2>2. \A f \in orphans' \ orphans : \E s \in Mine(r) : f = s.ext
        BY <1>6, Zenon DEF CloseTask, Close, Leave
    <2> QED
        BY <1>6, <2>1, <2>2, Zenon DEF CloseTask, LeftStep, Closing
<1>7. ASSUME NEW r \in Req, Cancel(r) PROVE LeftStep
    <2>1. faults' # faults
        BY <1>2, <1>7, ConstantsAssumption DEF Cancel, Fault, TypeOK
    <2> QED
        BY <2>1, Zenon DEF LeftStep
<1>8. ASSUME NEW r \in Req,
             \/ Ask(r) \/ Hit(r) \/ Miss(r) \/ Fetch(r) \/ FetchFails(r) \/ Collect(r)
             \/ Resolve(r) \/ ReadBody(r) \/ NoDelegation(r) \/ CallNotify(r) \/ Call(r)
      PROVE  LeftStep
    BY <1>1, <1>8, Zenon DEF Ask, Hit, Miss, Fetch, FetchFails, Collect, Resolve, ReadBody,
       NoDelegation, CallNotify, Call, sessions
<1>9. ASSUME Tick \/ (\E e \in Ext : Start(e) \/ Stop(e)) PROVE LeftStep
    BY <1>9, Zenon DEF Tick, Start, Stop, sessions, LeftStep
<1> QED
    BY <1>3, <1>4, <1>5, <1>6, <1>7, <1>8, <1>9, Zenon DEF Next, Step

(* No session whose handshake went through is left at its extension, but   *)
(* by an agent that goes away or a close that is not heard (the second     *)
(* half of SessionsAreClosed; list_mcp_tools, invoke_tool).                *)
THEOREM LeftUnderway == Spec => [][LeftStep]_vars
<1>1. Init => CallInv
    BY Zenon DEF Init, CallInv
<1>2. CatalogInv /\ CallInv /\ [Next]_vars => CallInv'
    BY CallStep, Zenon DEF CatalogInv
<1>3. CatalogInv /\ CallInv /\ [Next]_vars => [LeftStep]_vars
    BY LeftHolds
<1> QED
    BY <1>1, <1>2, <1>3, CatalogInvariant, PTL DEF Spec

============================================================================
