-------------------------- MODULE Shutdown_proofs --------------------------
(***************************************************************************)
(* The theorems about Shutdown, for any number of listeners and requests   *)
(* and any drain windows: nobody leaves before the latch is set, and an    *)
(* exit before the end of the window is clean, where no listener lets go   *)
(* of its connections.                                                     *)
(***************************************************************************)
EXTENDS Shutdown, TLAPS

(* Whoever acts on the signal does so after the latch was set. *)
LatchedFirst ==
    /\ signal \in {"notify", "done"} => triggered
    /\ woken # {} => triggered
    /\ \A w \in Waiter : waiter[w] = "done" => triggered
    /\ main # "await" => triggered

(* An open request has a listener that has not let go of it; one that was  *)
(* cut off, before the daemon left, had one whose own time was up.         *)
Attended ==
    main # "exit" => \A r \in Request :
        /\ outcome[r] = "open" =>
              owner[r] \in Listener /\ listener[owner[r]] \in {"serving", "stopping"}
        /\ outcome[r] = "cut" =>
              /\ owner[r] \in Listener /\ listener[owner[r]] = "closed"
              /\ Style[owner[r]] = "timed" /\ timer[owner[r]] = 0

(* No listener stops like the mTLS accept loop. *)
NoLoop == \A l \in Listener : Style[l] # "loop"

ShutdownInv == TypeOK /\ LatchedFirst
CleanInv == ShutdownInv /\ Attended /\ EarlyExitIsClean

----------------------------------------------------------------------------
(* The types. *)

(* A step of shutdown_signal moves one future. *)
LEMMA MoveEffect ==
    ASSUME TypeOK, NEW w \in Waiter, NEW from, NEW to \in {"register", "recheck", "await",
           "done"}, Move(w, from, to)
    PROVE  /\ waiter' \in [Waiter -> {"load", "register", "recheck", "await", "done"}]
           /\ waiter'[w] = to
           /\ \A v \in Waiter \ {w} : waiter'[v] = waiter[v]
           /\ UNCHANGED <<signal, triggered, listener, owner, outcome, sweeper, main, timer>>
BY Zenon DEF TypeOK, Move, requestVars

LEMMA TypeInit == Init => TypeOK
<1> SUFFICES ASSUME Init PROVE TypeOK
    OBVIOUS
<1>1. timer \in [Timed -> 0..(DrainWindow + HttpsDrain) \cup {None}]
    BY Zenon DEF Init
<1> QED
    BY <1>1, Zenon DEF Init, TypeOK

LEMMA TypeStep == TypeOK /\ [Next]_vars => TypeOK'
<1> SUFFICES ASSUME TypeOK, [Next]_vars PROVE TypeOK'
    OBVIOUS
<1>1. CASE Signal
    BY <1>1, Zenon DEF TypeOK, Signal, waiterVars, requestVars
<1>2. CASE Latch
    BY <1>2, Zenon DEF TypeOK, Latch, waiterVars, requestVars
<1>3. CASE NotifyWaiters
    BY <1>3, Zenon DEF TypeOK, NotifyWaiters, requestVars
<1>4. ASSUME NEW w \in Waiter, WaiterStep(w) PROVE TypeOK'
    <2>1. CASE Load(w)
        BY <2>1, MoveEffect DEF TypeOK, Load
    <2>2. CASE Register(w)
        BY <2>2, MoveEffect DEF TypeOK, Register
    <2>3. CASE Recheck(w)
        BY <2>3, MoveEffect DEF TypeOK, Recheck
    <2>4. CASE Wake(w)
        BY <2>4, MoveEffect DEF TypeOK, Wake
    <2> QED
        BY <1>4, <2>1, <2>2, <2>3, <2>4, Zenon DEF WaiterStep
<1>5. ASSUME NEW l \in Listener, Bind(l) PROVE TypeOK'
    BY <1>5, Zenon DEF TypeOK, Bind, waiterVars, requestVars
<1>6. ASSUME NEW l \in Listener, Stop(l) PROVE TypeOK'
    <2>1. listener' \in [Listener -> {"start", "serving", "stopping", "closed", "failed"}]
        BY <1>6 DEF TypeOK, Stop
    <2>2. timer' \in [Timed -> 0..(DrainWindow + HttpsDrain) \cup {None}]
        BY <1>6, ConstantsAssumption DEF TypeOK, Stop, Timed
    <2> QED
        BY <1>6, <2>1, <2>2, Zenon DEF TypeOK, Stop, waiterVars, requestVars
<1>7. ASSUME NEW l \in Listener, Close(l) PROVE TypeOK'
    <2>1. outcome' \in [Request -> {"new", "open", "served", "cut"}]
        BY <1>7 DEF TypeOK, Close
    <2> QED
        BY <1>7, <2>1, Zenon DEF TypeOK, Close, waiterVars
<1>8. ASSUME NEW l \in Listener, NEW r \in Request, Accept(l, r) PROVE TypeOK'
    BY <1>8, Zenon DEF TypeOK, Accept, waiterVars
<1>9. ASSUME NEW r \in Request, Finish(r) PROVE TypeOK'
    BY <1>9, Zenon DEF TypeOK, Finish, waiterVars
<1>10. CASE Sweep \/ Swept \/ SweeperStops
    BY <1>10, Zenon DEF TypeOK, Sweep, Swept, SweeperStops, waiterVars, requestVars
<1>11. CASE StartDrain
    <2>1. timer' \in [Timed -> 0..(DrainWindow + HttpsDrain) \cup {None}]
        BY <1>11, ConstantsAssumption DEF TypeOK, StartDrain, Timed
    <2> QED
        BY <1>11, <2>1, Zenon DEF TypeOK, StartDrain, waiterVars, requestVars
<1>12. CASE Exit
    <2>1. outcome' \in [Request -> {"new", "open", "served", "cut"}]
        BY <1>12 DEF TypeOK, Exit
    <2> QED
        BY <1>12, <2>1, Zenon DEF TypeOK, Exit, waiterVars
<1>13. CASE Tick
    <2>1. timer' \in [Timed -> 0..(DrainWindow + HttpsDrain) \cup {None}]
        BY <1>13, ConstantsAssumption DEF TypeOK, Tick
    <2> QED
        BY <1>13, <2>1, Zenon DEF TypeOK, Tick, waiterVars, requestVars
<1>14. CASE UNCHANGED vars
    BY <1>14, Zenon DEF TypeOK, vars, waiterVars, requestVars
<1> QED
    BY <1>1, <1>2, <1>3, <1>4, <1>5, <1>6, <1>7, <1>8, <1>9, <1>10, <1>11, <1>12, <1>13,
       <1>14, Zenon DEF Next, Ended

----------------------------------------------------------------------------
(* Nobody leaves unasked. *)

LEMMA LatchedStep ==
    ShutdownInv /\ [Next]_vars => LatchedFirst'
<1> SUFFICES ASSUME ShutdownInv, [Next]_vars PROVE LatchedFirst'
    OBVIOUS
<1>0. TypeOK /\ LatchedFirst
    BY DEF ShutdownInv
<1>1. CASE Signal \/ Latch \/ NotifyWaiters
    BY <1>0, <1>1, Zenon
    DEF TypeOK, LatchedFirst, Signal, Latch, NotifyWaiters, waiterVars
<1>2. ASSUME NEW w \in Waiter, WaiterStep(w) PROVE LatchedFirst'
    <2>1. UNCHANGED <<signal, triggered, woken, main>>
        BY <1>2, Zenon DEF WaiterStep, Load, Register, Recheck, Wake, Move
    <2>2. \A v \in Waiter \ {w} : waiter'[v] = waiter[v]
        BY <1>0, <1>2, Zenon
        DEF TypeOK, WaiterStep, Load, Register, Recheck, Wake, Move
    <2>3. waiter'[w] = "done" => triggered
        BY <1>0, <1>2, Zenon
        DEF TypeOK, LatchedFirst, WaiterStep, Load, Register, Recheck, Wake, Move
    <2> QED
        BY <1>0, <2>1, <2>2, <2>3, Zenon DEF LatchedFirst
<1>3. CASE UNCHANGED <<signal, triggered, waiter, woken, main>>
    BY <1>0, <1>3, Zenon DEF LatchedFirst
<1>4. CASE StartDrain
    BY <1>0, <1>4, Zenon DEF LatchedFirst, StartDrain, waiterVars, Waiter
<1>5. CASE Exit
    BY <1>0, <1>5, Zenon DEF LatchedFirst, Exit, waiterVars
<1> QED
    BY <1>1, <1>2, <1>3, <1>4, <1>5, Zenon
    DEF Next, Bind, Stop, Close, Accept, Finish, Sweep, Swept, SweeperStops, Tick, Ended,
        vars, waiterVars

(* Types, and the order of the latch and of everything that follows it,    *)
(* in every execution.                                                     *)
THEOREM Latched == Spec => []ShutdownInv
<1>1. Init => ShutdownInv
    BY TypeInit DEF Init, ShutdownInv, LatchedFirst
<1>2. ShutdownInv /\ [Next]_vars => ShutdownInv'
    BY TypeStep, LatchedStep, Zenon DEF ShutdownInv
<1> QED
    BY <1>1, <1>2, PTL DEF Spec

(* The daemon leaves only after it was told to, whatever the drain window  *)
(* (await_shutdown_then_drain).                                            *)
THEOREM NoUnaskedExit_Holds == Spec => []ExitInv
<1>1. ShutdownInv => ExitInv
    BY Zenon DEF ShutdownInv, LatchedFirst, ExitInv, NoUnaskedExit
<1> QED
    BY <1>1, Latched, PTL

----------------------------------------------------------------------------
(* An early exit is clean. *)

(* Main is not a listener, and has a timer. *)
LEMMA MainApart == Main \in Timed /\ Main \notin Listener
BY ConstantsAssumption, Zenon DEF Timed

LEMMA AttendedStep ==
    NoLoop /\ CleanInv /\ [Next]_vars => Attended'
<1> SUFFICES ASSUME NoLoop, CleanInv, [Next]_vars, main' # "exit", NEW r \in Request
             PROVE  /\ outcome'[r] = "open" =>
                          /\ owner'[r] \in Listener
                          /\ listener'[owner'[r]] \in {"serving", "stopping"}
                    /\ outcome'[r] = "cut" =>
                          /\ owner'[r] \in Listener /\ listener'[owner'[r]] = "closed"
                          /\ Style[owner'[r]] = "timed" /\ timer'[owner'[r]] = 0
    BY Zenon DEF Attended
<1>0. TypeOK
    BY Zenon DEF CleanInv, ShutdownInv
<1>a. main # "exit"
    BY Zenon DEF Next, Signal, Latch, NotifyWaiters, WaiterStep, Load, Register, Recheck,
       Wake, Move, Bind, Stop, Close, Accept, Finish, Sweep, Swept, SweeperStops,
       StartDrain, Exit, Tick, Ended, Running, vars
<1>b. /\ outcome[r] = "open" =>
           owner[r] \in Listener /\ listener[owner[r]] \in {"serving", "stopping"}
      /\ outcome[r] = "cut" =>
           /\ owner[r] \in Listener /\ listener[owner[r]] = "closed"
           /\ Style[owner[r]] = "timed" /\ timer[owner[r]] = 0
    BY <1>a, Zenon DEF CleanInv, Attended
<1>c. Style \in [Listener -> {"graceful", "timed", "loop"}]
    BY ConstantsAssumption
<1>1. CASE UNCHANGED <<owner, outcome, listener, timer>>
    BY <1>b, <1>1, Zenon
<1>2. ASSUME NEW l \in Listener, Bind(l)
      PROVE  /\ UNCHANGED <<owner, outcome, timer>> /\ listener[l] = "start"
             /\ \A k \in Listener \ {l} : listener'[k] = listener[k]
    BY <1>0, <1>2, Zenon DEF TypeOK, Bind, requestVars
<1>3. ASSUME NEW l \in Listener, Stop(l)
      PROVE  /\ UNCHANGED <<owner, outcome>>
             /\ listener[l] = "serving" /\ listener'[l] = "stopping"
             /\ \A k \in Listener \ {l} : listener'[k] = listener[k]
             /\ \A k \in Listener \ {l} : Style[k] = "timed" => timer'[k] = timer[k]
    <2>1. \A k \in Listener : Style[k] = "timed" => k \in Timed
        BY Zenon DEF Timed
    <2> QED
        BY <1>0, <1>3, <2>1, Zenon DEF TypeOK, Stop, NoLoop, requestVars
<1>4. ASSUME NEW l \in Listener, Close(l)
      PROVE  /\ UNCHANGED <<owner, timer>>
             /\ listener[l] = "stopping" /\ listener'[l] = "closed"
             /\ \A k \in Listener \ {l} : listener'[k] = listener[k]
             /\ (outcome[r] = "open" /\ owner[r] = l) =>
                    outcome'[r] = "cut" /\ Style[l] = "timed" /\ timer[l] = 0
             /\ ~(outcome[r] = "open" /\ owner[r] = l) => outcome'[r] = outcome[r]
    BY <1>0, <1>4, Zenon DEF TypeOK, Close, Open
<1>5. ASSUME NEW l \in Listener, NEW q \in Request, Accept(l, q)
      PROVE  /\ UNCHANGED <<listener, timer>> /\ listener[l] = "serving"
             /\ r = q => outcome'[r] = "open" /\ owner'[r] = l
             /\ r # q => outcome'[r] = outcome[r] /\ owner'[r] = owner[r]
    BY <1>0, <1>5, Zenon DEF TypeOK, Accept
<1>6. ASSUME NEW q \in Request, Finish(q)
      PROVE  /\ UNCHANGED <<owner, listener, timer>>
             /\ outcome'[r] \in {outcome[r], "served"}
    BY <1>0, <1>6, Zenon DEF TypeOK, Finish
<1>7. ASSUME StartDrain
      PROVE  /\ UNCHANGED <<owner, outcome, listener>>
             /\ \A k \in Listener : timer'[k] = timer[k] \/ Style[k] # "timed"
    <2>1. \A k \in Listener : Style[k] = "timed" => k \in Timed \ {Main}
        BY MainApart, Zenon DEF Timed
    <2> QED
        BY <1>0, <1>7, <2>1, Zenon DEF TypeOK, StartDrain, requestVars
<1>8. ASSUME Tick
      PROVE  /\ UNCHANGED <<owner, outcome, listener>>
             /\ \A k \in Listener : Style[k] = "timed" /\ timer[k] = 0 => timer'[k] = 0
    BY <1>8, Zenon DEF Tick, Timed, requestVars
<1>9. CASE \E l \in Listener : Bind(l) \/ Stop(l) \/ Close(l)
    BY <1>b, <1>2, <1>3, <1>4, <1>9, Zenon
<1>10. CASE \E l \in Listener, q \in Request : Accept(l, q)
    BY <1>b, <1>5, <1>10, Zenon
<1>11. CASE (\E q \in Request : Finish(q)) \/ StartDrain \/ Tick
    BY <1>b, <1>6, <1>7, <1>8, <1>11, Zenon
<1>12. ~Exit
    BY Zenon DEF Exit
<1> QED
    BY <1>1, <1>9, <1>10, <1>11, <1>12, Zenon
    DEF Next, Signal, Latch, NotifyWaiters, WaiterStep, Load, Register, Recheck, Wake, Move,
        Sweep, Swept, SweeperStops, Ended, vars, requestVars

(* The daemon leaves with the window open only if everyone is back, and    *)
(* then no request is open; once it has left nothing changes.              *)
LEMMA CleanStep ==
    NoLoop /\ CleanInv /\ [Next]_vars => EarlyExitIsClean'
<1> SUFFICES ASSUME NoLoop, CleanInv, [Next]_vars, main' = "exit", timer'[Main] # 0
             PROVE  /\ sweeper' = "gone"
                    /\ \A r \in Request : outcome'[r] = "cut" =>
                         Style[owner'[r]] = "timed" /\ timer'[owner'[r]] = 0
    BY Zenon DEF EarlyExitIsClean
<1>1. CASE main = "exit"
    <2>1. UNCHANGED vars
        BY <1>1, Zenon
        DEF Next, Signal, Latch, NotifyWaiters, WaiterStep, Load, Register, Recheck, Wake,
            Move, Bind, Stop, Close, Accept, Finish, Sweep, Swept, SweeperStops, StartDrain,
            Exit, Tick, Ended, Running
    <2> QED
        BY <1>1, <2>1, Zenon DEF CleanInv, EarlyExitIsClean, vars, requestVars
<1>2. CASE main # "exit"
    <2>1. Exit
        BY <1>2, Zenon
        DEF Next, Signal, Latch, NotifyWaiters, WaiterStep, Load, Register, Recheck, Wake,
            Move, Bind, Stop, Close, Accept, Finish, Sweep, Swept, SweeperStops, StartDrain,
            Tick, Ended, vars
    <2>2. Joined /\ UNCHANGED <<owner, sweeper, timer>>
        BY <2>1, Zenon DEF Exit
    <2>3. ASSUME NEW r \in Request, outcome'[r] = "cut" PROVE outcome[r] = "cut"
        <3>1. outcome[r] # "open"
            BY <1>2, <2>2, Zenon DEF CleanInv, Attended, Joined
        <3> QED
            BY <2>1, <2>3, <3>1, Zenon DEF Exit
    <2> QED
        BY <1>2, <2>2, <2>3, Zenon DEF CleanInv, Attended, Joined
<1> QED
    BY <1>1, <1>2

(* Where every listener waits for its requests (no mTLS accept loop), the  *)
(* daemon that leaves before the window is over has cut off nothing, save  *)
(* what an admin HTTPS listener gave up when its own time was over, and no *)
(* DELETE of the sweeper's is half done.                                   *)
THEOREM CleanExit_Holds ==
    ASSUME NoLoop PROVE Spec => []EarlyExitIsClean
<1>1. Init => CleanInv
    <2> SUFFICES ASSUME Init PROVE CleanInv
        OBVIOUS
    <2>1. ShutdownInv
        BY TypeInit DEF Init, ShutdownInv, LatchedFirst
    <2>2. \A r \in Request : outcome[r] = "new"
        BY Zenon DEF Init
    <2> QED
        BY <2>1, <2>2 DEF CleanInv, Attended, EarlyExitIsClean, Init
<1>2. CleanInv /\ [Next]_vars => CleanInv'
    BY NoLoop, TypeStep, LatchedStep, AttendedStep, CleanStep, Zenon
    DEF CleanInv, ShutdownInv
<1>3. CleanInv => EarlyExitIsClean
    BY DEF CleanInv
<1> QED
    BY <1>1, <1>2, <1>3, PTL DEF Spec

============================================================================
