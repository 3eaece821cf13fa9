-------------------------- MODULE AgentEnrolment --------------------------
(***************************************************************************)
(* What the agent registry promises its clients, as if every operation     *)
(* took one step: an agent is enrolled once, by a bootstrap token that is  *)
(* worth one enrolment if it is single-use; while the agent is not         *)
(* expelled its secret may be replaced by a fresh one; expulsion is final. *)
(***************************************************************************)
EXTENDS Naturals

CONSTANTS
    Agent,      \* agent identities
    Boot,       \* bootstrap tokens
    SingleUse,  \* the single-use ones
    Operator,   \* stands for "created by an operator"
    None

VARIABLES
    member,     \* None, or the secret of each agent and whether it is expelled
    via,        \* what each agent was enrolled with
    issued      \* secrets are numbered in the order they are drawn

Init ==
    /\ member = [a \in Agent |-> None]
    /\ via = [a \in Agent |-> None]
    /\ issued = 0

(* Secrets are drawn before they are put to use, and not all of them are. *)
Draw == issued' > issued /\ UNCHANGED <<member, via>>

Spent(b) == b \in SingleUse /\ \E a \in Agent : via[a] = b

InUse(k) == \E a \in Agent : member[a] # None /\ member[a].secret = k

(* The operator may expel an agent while its enrolment is under way. *)
Enrol(a, b) ==
    /\ via[a] = None /\ ~Spent(b)
    /\ via' = [via EXCEPT ![a] = b]
    /\ issued' >= issued
    /\ \E k \in 1..issued', expelled \in BOOLEAN :
        /\ ~InUse(k)
        /\ member' = [member EXCEPT ![a] = [secret |-> k, expelled |-> expelled]]

Replace(a) ==
    /\ member[a] # None /\ ~member[a].expelled
    /\ issued' > issued
    /\ member' = [member EXCEPT ![a].secret = issued']
    /\ UNCHANGED via

Expel(a) ==
    /\ member[a] # None
    /\ member' = [member EXCEPT ![a] = [secret |-> member[a].secret, expelled |-> TRUE]]
    /\ UNCHANGED <<via, issued>>

Next ==
    \/ Draw
    \/ \E a \in Agent : \/ \E b \in Boot \cup {Operator} : Enrol(a, b)
                        \/ Replace(a) \/ Expel(a)

Spec == Init /\ [][Next]_<<member, via, issued>>

============================================================================
