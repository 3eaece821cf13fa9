-------------------------- MODULE OauthInvariants --------------------------
(***************************************************************************)
(* The inductive invariant of OauthSessions: what holds of the locks, of   *)
(* the incarnations and of the refresh tokens at every step, strong enough *)
(* to be preserved by each step on its own.                                *)
(***************************************************************************)
EXTENDS OauthSessions

(* A bootstrap that has its refresh token and has not yet inserted a row. *)
Unborn(p) == p \in Operator /\ pc[p] \in {"wait", "get"}

(* Who works has a key, a session in hand when it needs one, and the lock; *)
(* and a lock is held only by the task that works under it.                *)
LockInv ==
    /\ \A p \in Proc : pc[p] = "wait" \/ Critical(p) => job[p] \in Session
    /\ \A p \in Proc : Critical(p) => holder[job[p]] = p
    /\ \A s \in Session : holder[s] # None =>
            Critical(holder[s]) /\ job[holder[s]] = s
    /\ \A p \in Proc : HasSession(p) \/ Unborn(p) => seen[p] \in Row
    /\ \A p \in Proc : pc[p] = "persist" => resp[p] \in Response
    /\ pc[Refresher] \notin {"served", "conflict"}
    /\ \A p \in Proc : pc[p] \in {"load", "next"} => p = Refresher

(* Incarnations are never shared and never reused, and the row a task has  *)
(* in hand is a healthy row of the table or is gone.                       *)
GenInv ==
    /\ \A s \in Session : row[s] # None => row[s].gen \notin gone /\ row[s].gen <= issued
    /\ \A s, t \in Session : row[s] # None /\ row[t] # None /\ s # t =>
            row[s].gen # row[t].gen
    /\ \A p \in Proc : Unborn(p) =>
            /\ seen[p].gen \notin gone /\ seen[p].gen <= issued
            /\ seen[p].exp = None /\ ~seen[p].degraded
            /\ \A s \in Session : row[s] # None => row[s].gen # seen[p].gen
            /\ \A q \in Proc : Unborn(q) /\ q # p => seen[q].gen # seen[p].gen
    /\ \A g \in gone : g <= issued
    /\ \A p \in Proc : HasSession(p) /\ row[job[p]] # None =>
            row[job[p]].gen = seen[p].gen /\ ~row[job[p]].degraded
    /\ \A p \in Proc : ignored[p] \subseteq gone

SafetyInv == TypeOK /\ LockInv /\ GenInv

----------------------------------------------------------------------------
(* The refresh tokens.  None is in two places: the rows, the tasks'        *)
(* sessions in hand and the answers not yet written have different ones,   *)
(* but for a task and the row it works on.                                 *)

Holds(p) == HasSession(p) \/ Unborn(p)

(* p has an answer with a new refresh token that is not written yet. *)
Rotated(p) == pc[p] = "persist" /\ resp[p].rt # None

TokenKnown ==
    /\ \A s \in Session : row[s] # None => row[s].rt <= issued
    /\ \A p \in Proc : Holds(p) => seen[p].rt <= issued
    /\ \A p \in Proc : Rotated(p) => resp[p].rt <= issued
    /\ \A t \in spent : t <= issued

TokenOwned ==
    /\ \A s, t \in Session : row[s] # None /\ row[t] # None /\ s # t =>
            row[s].rt # row[t].rt
    /\ \A p, q \in Proc : Holds(p) /\ Holds(q) /\ p # q => seen[p].rt # seen[q].rt
    /\ \A p \in Proc, s \in Session :
            Holds(p) /\ row[s] # None /\ seen[p].rt = row[s].rt =>
                HasSession(p) /\ job[p] = s
    /\ \A p \in Proc : Rotated(p) =>
            /\ \A s \in Session : row[s] # None => row[s].rt # resp[p].rt
            /\ \A q \in Proc : Holds(q) => seen[q].rt # resp[p].rt
            /\ \A q \in Proc : Rotated(q) /\ q # p => resp[q].rt # resp[p].rt

(* The provider takes t, or its exchange was cut short. *)
InForce(t) == t \in spent => t \in lost

(* A task has found out, or may find out, that the token of s is no longer *)
(* in force, and will write that down.                                     *)
Attended(s) ==
    \E p \in Proc : pc[p] \in {"persist", "fail"} /\ job[p] = s /\ seen[p].rt = row[s].rt

TokenFit ==
    /\ \A p \in Proc : Unborn(p) => seen[p].rt \notin spent
    /\ \A p \in Proc : Rotated(p) => resp[p].rt \notin spent
    /\ \A p \in Proc : pc[p] \in {"send", "sent"} => InForce(seen[p].rt)
    /\ \A p \in Proc : pc[p] = "persist" /\ ~Rotated(p) => InForce(seen[p].rt)
    /\ \A s \in Session : Healthy(row[s]) => InForce(row[s].rt) \/ Attended(s)

TokenInv == TokenKnown /\ TokenOwned /\ TokenFit

============================================================================
