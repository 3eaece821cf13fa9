--------------------------- MODULE OauthLifecycle ---------------------------
(***************************************************************************)
(* What the OAuth session store promises, with no tasks, locks or          *)
(* statements: the life of one session at a time.  A session is born by a  *)
(* bootstrap, obtains access tokens, may become degraded, and is removed.  *)
(* A degraded session does nothing but wait for its removal: this is what  *)
(* the code does, and not what its documentation says of a second          *)
(* bootstrap (OauthSessions!RebootstrapRecovers).  A removed session never *)
(* comes back: the next one is another incarnation.                        *)
(***************************************************************************)

CONSTANTS
    Session,    \* session keys
    Gen,        \* incarnations
    None        \* no session

VARIABLES
    life,       \* the incarnation and phase of each session, or None
    past        \* incarnations that have been removed

Phase == {"new", "live", "degraded"}

Init ==
    /\ life = [s \in Session |-> None]
    /\ past = {}

Bootstrap(s) ==
    /\ life[s] = None
    /\ \E g \in Gen \ past : life' = [life EXCEPT ![s] = [gen |-> g, phase |-> "new"]]
    /\ UNCHANGED past

Enter(s, phase) == life' = [life EXCEPT ![s] = [gen |-> @.gen, phase |-> phase]]

Obtain(s) ==
    /\ life[s] # None /\ life[s].phase # "degraded"
    /\ Enter(s, "live")
    /\ UNCHANGED past

Degrade(s) ==
    /\ life[s] # None
    /\ Enter(s, "degraded")
    /\ UNCHANGED past

Remove(s) ==
    /\ life[s] # None
    /\ past' = past \cup {life[s].gen}
    /\ life' = [life EXCEPT ![s] = None]

Next == \E s \in Session : Bootstrap(s) \/ Obtain(s) \/ Degrade(s) \/ Remove(s)

Spec == Init /\ [][Next]_<<life, past>>

=============================================================================
