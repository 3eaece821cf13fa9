----------------------------- MODULE Shutdown -----------------------------
(***************************************************************************)
(* Graceful shutdown: the ShutdownCoordinator with its latch and Notify,   *)
(* the listeners and the audit sweeper that wait for the signal, and       *)
(* daemon::run, which waits for it too and then for the others, at most    *)
(* for the drain window.                                                   *)
(*                                                                         *)
(* The listeners differ in how they stop.  "graceful" (axum::serve on TCP  *)
(* and on the admin socket) waits for its open requests; "timed" (admin    *)
(* HTTPS) waits at most HttpsDrain; "loop" (the mTLS accept loop) only     *)
(* leaves its loop, the connections are tasks of their own.                *)
(***************************************************************************)
EXTENDS Naturals

CONSTANTS
    Listener,       \* listener tasks
    Style,          \* how each one stops
    MayFail,        \* the ones that bind inside their task
    Request,        \* requests that arrive
    Main, Sweeper,  \* daemon::run and the audit_retention_sweeper task
    DrainWindow,    \* shutdown.drain_window_seconds, in ticks
    HttpsDrain,     \* HTTPS_GRACEFUL_DRAIN, in ticks
    None

Waiter == Listener \cup {Main, Sweeper}
Timed == {l \in Listener : Style[l] = "timed"} \cup {Main}

ASSUME ConstantsAssumption ==
    /\ Style \in [Listener -> {"graceful", "timed", "loop"}]
    /\ MayFail \subseteq Listener
    /\ DrainWindow \in Nat /\ HttpsDrain \in Nat
    /\ Main # Sweeper /\ {Main, Sweeper} \cap Listener = {}

VARIABLES
    signal,     \* the signal task: "wait", "latch", "notify", "done"
    triggered,  \* the AtomicBool
    waiter,     \* where each shutdown_signal() future is
    registered, \* futures whose Notified exists and was not notified
    woken,      \* futures that were notified
    listener,   \* "start", "serving", "stopping", "closed", "failed"
    owner,      \* the listener that took each request, or None
    outcome,    \* "new", "open", "served", "cut"
    sweeper,    \* "idle", "delete", "gone"
    main,       \* "await", "drain", "exit"
    timer       \* ticks left to those who wait with a timeout

waiterVars == <<waiter, registered, woken>>
requestVars == <<owner, outcome>>
vars == <<signal, triggered, waiterVars, listener, requestVars, sweeper, main, timer>>

TypeOK ==
    /\ signal \in {"wait", "latch", "notify", "done"}
    /\ triggered \in BOOLEAN
    /\ waiter \in [Waiter -> {"load", "register", "recheck", "await", "done"}]
    /\ registered \subseteq Waiter /\ woken \subseteq Waiter
    /\ listener \in [Listener -> {"start", "serving", "stopping", "closed", "failed"}]
    /\ owner \in [Request -> Listener \cup {None}]
    /\ outcome \in [Request -> {"new", "open", "served", "cut"}]
    /\ sweeper \in {"idle", "delete", "gone"}
    /\ main \in {"await", "drain", "exit"}
    /\ timer \in [Timed -> 0..(DrainWindow + HttpsDrain) \cup {None}]

Init ==
    /\ signal = "wait" /\ triggered = FALSE
    /\ waiter = [w \in Waiter |-> "load"]
    /\ registered = {} /\ woken = {}
    /\ listener = [l \in Listener |-> "start"]
    /\ owner = [r \in Request |-> None]
    /\ outcome = [r \in Request |-> "new"]
    /\ sweeper = "idle" /\ main = "await"
    /\ timer = [t \in Timed |-> None]

Running == main # "exit"

----------------------------------------------------------------------------
(* The coordinator. *)

(* SIGINT or SIGTERM arrives. *)
Signal ==
    /\ signal = "wait" /\ Running
    /\ signal' = "latch"
    /\ UNCHANGED <<triggered, waiterVars, listener, requestVars, sweeper, main, timer>>

Latch ==
    /\ signal = "latch" /\ Running
    /\ triggered' = TRUE /\ signal' = "notify"
    /\ UNCHANGED <<waiterVars, listener, requestVars, sweeper, main, timer>>

(* notify_waiters wakes the futures that exist, and no other. *)
NotifyWaiters ==
    /\ signal = "notify" /\ Running
    /\ woken' = woken \cup registered /\ registered' = {}
    /\ signal' = "done"
    /\ UNCHANGED <<triggered, waiter, listener, requestVars, sweeper, main, timer>>

Move(w, from, to) ==
    /\ waiter[w] = from /\ Running
    /\ waiter' = [waiter EXCEPT ![w] = to]
    /\ UNCHANGED <<signal, triggered, listener, requestVars, sweeper, main, timer>>

Load(w) ==
    /\ Move(w, "load", IF triggered THEN "done" ELSE "register")
    /\ UNCHANGED <<registered, woken>>

Register(w) ==
    /\ Move(w, "register", "recheck")
    /\ registered' = registered \cup {w}
    /\ UNCHANGED woken

Recheck(w) ==
    /\ Move(w, "recheck", IF triggered THEN "done" ELSE "await")
    /\ UNCHANGED <<registered, woken>>

(* A sweeper that is deleting does not poll its signal. *)
Wake(w) ==
    /\ w \in woken
    /\ w = Sweeper => sweeper = "idle"
    /\ Move(w, "await", "done")
    /\ UNCHANGED <<registered, woken>>

----------------------------------------------------------------------------
(* The listeners and their requests. *)

Open(l) == {r \in Request : outcome[r] = "open" /\ owner[r] = l}

Bind(l) ==
    /\ listener[l] = "start" /\ Running
    /\ \/ listener' = [listener EXCEPT ![l] = "serving"]
       \/ l \in MayFail /\ listener' = [listener EXCEPT ![l] = "failed"]
    /\ UNCHANGED <<signal, triggered, waiterVars, requestVars, sweeper, main, timer>>

Accept(l, r) ==
    /\ listener[l] = "serving" /\ waiter[l] # "done" /\ Running
    /\ outcome[r] = "new"
    /\ outcome' = [outcome EXCEPT ![r] = "open"]
    /\ owner' = [owner EXCEPT ![r] = l]
    /\ UNCHANGED <<signal, triggered, waiterVars, listener, sweeper, main, timer>>

Finish(r) ==
    /\ outcome[r] = "open" /\ Running
    /\ outcome' = [outcome EXCEPT ![r] = "served"]
    /\ UNCHANGED <<signal, triggered, waiterVars, listener, owner, sweeper, main, timer>>

(* The listener sees the signal: it takes no more connections. *)
Stop(l) ==
    /\ listener[l] = "serving" /\ waiter[l] = "done" /\ Running
    /\ listener' = [listener EXCEPT ![l] =
                      IF Style[l] = "loop" THEN "closed" ELSE "stopping"]
    /\ timer' = IF Style[l] = "timed" THEN [timer EXCEPT ![l] = HttpsDrain] ELSE timer
    /\ UNCHANGED <<signal, triggered, waiterVars, requestVars, sweeper, main>>

(* Faulty variant: a listener closes whatever is still open. *)
Close_Early(l) ==
    /\ listener[l] = "stopping" /\ Running
    /\ listener' = [listener EXCEPT ![l] = "closed"]
    /\ outcome' = [r \in Request |-> IF r \in Open(l) THEN "cut" ELSE outcome[r]]
    /\ UNCHANGED <<signal, triggered, waiterVars, owner, sweeper, main, timer>>

(* A listener closes when its requests are done; a timed one also when its *)
(* own time is up, and then the rest is cut off.                           *)
Close(l) ==
    /\ listener[l] = "stopping" /\ Running
    /\ Open(l) = {} \/ (Style[l] = "timed" /\ timer[l] = 0)
    /\ listener' = [listener EXCEPT ![l] = "closed"]
    /\ outcome' = [r \in Request |-> IF r \in Open(l) THEN "cut" ELSE outcome[r]]
    /\ UNCHANGED <<signal, triggered, waiterVars, owner, sweeper, main, timer>>

----------------------------------------------------------------------------
(* The sweeper: select! between the signal and the next tick, in any order. *)

Sweep ==
    /\ sweeper = "idle" /\ waiter[Sweeper] # "done" /\ Running
    /\ sweeper' = "delete"
    /\ UNCHANGED <<signal, triggered, waiterVars, listener, requestVars, main, timer>>

Swept ==
    /\ sweeper = "delete" /\ Running
    /\ sweeper' = "idle"
    /\ UNCHANGED <<signal, triggered, waiterVars, listener, requestVars, main, timer>>

SweeperStops ==
    /\ sweeper = "idle" /\ waiter[Sweeper] = "done" /\ Running
    /\ sweeper' = "gone"
    /\ UNCHANGED <<signal, triggered, waiterVars, listener, requestVars, main, timer>>

----------------------------------------------------------------------------
(* daemon::run: await_shutdown_then_drain. *)

(* Faulty variant: the drain window starts with the daemon. *)
StartDrain_Unsignalled ==
    /\ main = "await"
    /\ main' = "drain"
    /\ timer' = [timer EXCEPT ![Main] = DrainWindow]
    /\ UNCHANGED <<signal, triggered, waiterVars, listener, requestVars, sweeper>>

StartDrain ==
    /\ main = "await" /\ waiter[Main] = "done"
    /\ main' = "drain"
    /\ timer' = [timer EXCEPT ![Main] = DrainWindow]
    /\ UNCHANGED <<signal, triggered, waiterVars, listener, requestVars, sweeper>>

Joined ==
    /\ \A l \in Listener : listener[l] \in {"closed", "failed"}
    /\ sweeper = "gone"

(* Faulty variant: the drain has no timeout. *)
Exit_NoTimeout ==
    /\ main = "drain" /\ Joined
    /\ main' = "exit"
    /\ outcome' = [r \in Request |-> IF outcome[r] = "open" THEN "cut" ELSE outcome[r]]
    /\ UNCHANGED <<signal, triggered, waiterVars, listener, owner, sweeper, timer>>

(* Everyone is back, or the window is over; main returns, the runtime goes *)
(* and every task with it.                                                 *)
Exit ==
    /\ main = "drain"
    /\ Joined \/ timer[Main] = 0
    /\ main' = "exit"
    /\ outcome' = [r \in Request |-> IF outcome[r] = "open" THEN "cut" ELSE outcome[r]]
    /\ UNCHANGED <<signal, triggered, waiterVars, listener, owner, sweeper, timer>>

Tick ==
    /\ Running
    /\ \E t \in Timed : timer[t] \notin {None, 0}
    /\ timer' = [t \in Timed |-> IF timer[t] \in {None, 0} THEN timer[t] ELSE timer[t] - 1]
    /\ UNCHANGED <<signal, triggered, waiterVars, listener, requestVars, sweeper, main>>

(* The process has ended. *)
Ended == main = "exit" /\ UNCHANGED vars

WaiterStep(w) == Load(w) \/ Register(w) \/ Recheck(w) \/ Wake(w)

Next ==
    \/ Signal \/ Latch \/ NotifyWaiters
    \/ \E w \in Waiter : WaiterStep(w)
    \/ \E l \in Listener : Bind(l) \/ Stop(l) \/ Close(l)
    \/ \E l \in Listener, r \in Request : Accept(l, r)
    \/ \E r \in Request : Finish(r)
    \/ Sweep \/ Swept \/ SweeperStops
    \/ StartDrain \/ Exit \/ Tick \/ Ended

Spec == Init /\ [][Next]_vars

(* Tasks are polled and time passes; neither a signal, nor a request, nor  *)
(* the end of one is promised.                                             *)
Fairness ==
    /\ WF_vars(Latch) /\ WF_vars(NotifyWaiters)
    /\ \A w \in Waiter : WF_vars(WaiterStep(w))
    /\ \A l \in Listener : WF_vars(Bind(l)) /\ WF_vars(Stop(l)) /\ WF_vars(Close(l))
    /\ WF_vars(Swept) /\ WF_vars(SweeperStops)
    /\ WF_vars(StartDrain) /\ WF_vars(Exit) /\ WF_vars(Tick)

LiveSpec == Spec /\ Fairness

----------------------------------------------------------------------------
(* Properties. *)

(* A signal ends the daemon, whenever it comes (a task may be anywhere in  *)
(* shutdown_signal) and even if a request never ends.                      *)
ShutdownCompletes == (signal = "latch") ~> (main = "exit")

(* The drain window is not a cap on the serving lifetime: the daemon ends  *)
(* only when it was told to (await_shutdown_then_drain).                   *)
NoUnaskedExit == main = "exit" => triggered

(* Every value has its type, and nobody leaves unasked. *)
ExitInv == TypeOK /\ NoUnaskedExit

(* The daemon "waits up to a configurable drain window for in-flight       *)
(* requests to complete before exiting" (shutdown.rs): if it leaves before *)
(* the window is over, no DELETE is half done and no request was cut off,  *)
(* save by an admin HTTPS listener whose own time was up.                  *)
EarlyExitIsClean ==
    main = "exit" /\ timer[Main] # 0 =>
        /\ sweeper = "gone"
        /\ \A r \in Request : outcome[r] = "cut" =>
              Style[owner[r]] = "timed" /\ timer[owner[r]] = 0

============================================================================
