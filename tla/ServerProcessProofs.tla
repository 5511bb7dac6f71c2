------------------------- MODULE ServerProcessProofs -------------------------
(***************************************************************************)
(* What a process that reports success has done, for any number of         *)
(* requests and signals.                                                   *)
(***************************************************************************)
EXTENDS ServerProcess, TLAPS

\* Nothing runs and nobody is served before main starts the goroutines.
NothingStarted ==
    main \in {"connect", "setup"} =>
        /\ waiter = "off" /\ listener = "off" /\ stopper = "off"
        /\ ~caught /\ ~cancelled /\ ~closing
        /\ code = 0
        /\ Idle

\* The order of a shutdown: the context, the flag, the requests.
InOrder ==
    /\ listener = "off" => Idle
    /\ stopper \in {"stopping", "done"} <=> closing
    /\ closing => cancelled
    /\ stopper = "done" /\ code = 0 => Idle
    /\ main \in {"disconnect", "exit", "ended"} /\ code = 0 =>
         listener = "done" /\ stopper = "done"

\* Without a failure only a signal starts the shutdown.
Asked ==
    /\ caught => signals > 0
    /\ waiter \in {"woken", "stopped", "done"} /\ code = 0 => signals > 0
    /\ cancelled /\ code = 0 => signals > 0

IInv == TypeOK /\ NothingStarted /\ InOrder /\ Asked

\* The invariant holds when main starts.
LEMMA InitIInv == Init => IInv
<1> SUFFICES ASSUME Init PROVE IInv
  OBVIOUS
<1> USE DEF Init
<1>1. TypeOK
  <2>1. signals \in 0..MaxSignals
    BY SignalAssumption
  <2>2. request \in [Requests -> {"new", "active", "answered"}]
    OBVIOUS
  <2> QED BY <2>1, <2>2 DEF TypeOK, Places
<1>2. Idle
  BY DEF Idle
<1>3. NothingStarted
  BY <1>2 DEF NothingStarted
<1>4. InOrder
  BY <1>2 DEF InOrder
<1>5. Asked
  BY DEF Asked
<1> QED BY <1>1, <1>3, <1>4, <1>5 DEF IInv

\* Every step, and every stutter, preserves the invariant.
LEMMA NextIInv == IInv /\ [Next]_vars => IInv'
<1> SUFFICES ASSUME IInv, [Next]_vars PROVE IInv'
  OBVIOUS
<1> USE SignalAssumption
    DEF IInv, TypeOK, Places, NothingStarted, InOrder, Asked, Idle, Running, goroutines
<1>1. CASE Main
  <2>1. CASE Connect
    <3> UNCHANGED <<cancelled, waiter, caught, listener, stopper, closing, request, signals>>
      BY <2>1 DEF Connect
    <3>1. CASE main' = "setup"
      BY <2>1, <3>1 DEF Connect
    <3>2. CASE main' = "exit"
      BY <2>1, <3>2 DEF Connect
    <3> QED BY <2>1, <3>1, <3>2 DEF Connect
  <2>2. CASE Setup
    <3> UNCHANGED <<connected, cancelled, caught, closing, request, signals>>
      BY <2>2 DEF Setup
    <3>1. CASE main' = "wait"
      BY <2>2, <3>1 DEF Setup
    <3>2. CASE main' = "disconnect"
      BY <2>2, <3>2 DEF Setup
    <3> QED BY <2>2, <3>1, <3>2 DEF Setup
  <2>3. CASE AllDone
    BY <2>3 DEF AllDone
  <2>4. CASE Disconnect
    BY <2>4 DEF Disconnect
  <2>5. CASE Exit
    BY <2>5 DEF Exit
  <2> QED BY <1>1, <2>1, <2>2, <2>3, <2>4, <2>5 DEF Main
<1>2. CASE Waiter
  <2>1. CASE Notify
    BY <2>1 DEF Notify
  <2>2. CASE Wake
    BY <2>2 DEF Wake
  <2>3. CASE StopNotify
    BY <2>3 DEF StopNotify
  <2>4. CASE CancelContext
    BY <2>4 DEF CancelContext
  <2> QED BY <1>2, <2>1, <2>2, <2>3, <2>4 DEF Waiter
<1>3. CASE Listener
  <2>1. CASE Listen
    BY <2>1 DEF Listen
  <2>2. CASE ListenFails
    BY <2>2 DEF ListenFails, MayFail
  <2>3. CASE ServerClosed
    BY <2>3 DEF ServerClosed
  <2> QED BY <1>3, <2>1, <2>2, <2>3 DEF Listener
<1>4. CASE Stopper
  <2>1. CASE Shutdown
    BY <2>1 DEF Shutdown
  <2>2. CASE ShutdownDone
    BY <2>2 DEF ShutdownDone
  <2>3. CASE ShutdownTimeout
    BY <2>3 DEF ShutdownTimeout
  <2> QED BY <1>4, <2>1, <2>2, <2>3 DEF Stopper
<1>5. CASE Signal
  <2> UNCHANGED <<connected, cancelled, code, waiter, listener, stopper, closing, request>>
    BY <1>5 DEF Signal
  <2>1. signals' \in 0..MaxSignals /\ signals' > 0
    BY <1>5 DEF Signal
  <2>2. CASE waiter \in {"waiting", "woken"}
    <3>1. main' = main /\ caught' = TRUE
      BY <1>5, <2>2 DEF Signal
    <3>2. TypeOK'
      BY <2>1, <3>1
    <3>3. NothingStarted'
      BY <2>1, <2>2, <3>1
    <3>4. InOrder' /\ Asked'
      BY <2>1, <3>1
    <3> QED BY <3>2, <3>3, <3>4
  <2>3. CASE waiter \notin {"waiting", "woken"}
    <3>1. main' = "killed" /\ caught' = caught
      BY <1>5, <2>3 DEF Signal
    <3> QED BY <2>1, <3>1
  <2> QED BY <2>2, <2>3
<1>6. ASSUME NEW r \in Requests, RequestBegins(r) PROVE IInv'
  BY <1>6 DEF RequestBegins
<1>7. ASSUME NEW r \in Requests, RequestEnds(r) PROVE IInv'
  BY <1>7 DEF RequestEnds
<1>8. CASE UNCHANGED vars
  BY <1>8 DEF vars
<1> QED BY <1>1, <1>2, <1>3, <1>4, <1>5, <1>6, <1>7, <1>8 DEF Next

\* The invariant holds in every reachable state.
LEMMA Inductive == Spec => []IInv
BY InitIInv, NextIInv, PTL DEF Spec

\* The state of the process keeps its type: the exit code is 0 or 1, whichever
\* goroutines fail (main).
THEOREM ProcessTypeCorrect == Spec => []TypeOK
<1>1. IInv => TypeOK
  BY DEF IInv
<1> QED BY <1>1, Inductive, PTL

\* A process that reports success has cut no request (Shutdown, wg.Wait,
\* Disconnect, os.Exit).
THEOREM CleanExitCutsNone == Spec => []CleanExitCutsNothing
<1>1. IInv => CleanExitCutsNothing
  BY DEF IInv, InOrder, CleanExitCutsNothing
<1> QED BY <1>1, Inductive, PTL

\* A process only reports success when a signal asked it to end (ec, util.Wait).
THEOREM CleanExitOnlyAsked == Spec => []CleanExitWasAsked
<1>1. IInv => CleanExitWasAsked
  BY DEF IInv, InOrder, Asked, CleanExitWasAsked
<1> QED BY <1>1, Inductive, PTL
=============================================================================
