---------------------------- MODULE ServerProcess ----------------------------
(***************************************************************************)
(* The process (main.go): main sets the service up and waits for two       *)
(* goroutines, the listener and the stopper; a third waits for a signal    *)
(* (pkg/util/signal.go).  They meet in the context, which the first of     *)
(* them cancels, in the flag of the http server that Shutdown sets, and in *)
(* the exit code.  Requests run in goroutines of the http server.          *)
(*                                                                         *)
(* A signal nobody is registered for ends the process where it is.         *)
(***************************************************************************)
EXTENDS Integers

CONSTANTS
    Requests,    \* requests clients make while the process runs
    MaxSignals   \* signals the process is sent

ASSUME SignalAssumption == MaxSignals \in Nat

VARIABLES
    main,       \* what main does next
    connected,  \* the database client is connected
    cancelled,  \* cf() has been called
    code,       \* the exit code
    waiter,     \* the goroutine that waits for a signal
    caught,     \* a signal is in its channel
    listener,   \* the goroutine of ListenAndServe
    stopper,    \* the goroutine of Shutdown
    closing,    \* Shutdown has begun
    request,    \* request -> how far it is
    signals     \* signals sent so far

goroutines == <<waiter, caught, listener, stopper, closing>>
vars == <<main, connected, cancelled, code, goroutines, request, signals>>

\* "killed" and "ended" are final; "setup" is all of main before the goroutines
\* start, "exit" what is left of it after the database is disconnected.
Places == {"connect", "setup", "wait", "disconnect", "exit", "killed", "ended"}

TypeOK ==
    /\ main \in Places
    /\ connected \in BOOLEAN
    /\ cancelled \in BOOLEAN
    /\ code \in {0, 1}
    /\ waiter \in {"off", "started", "waiting", "woken", "stopped", "done"}
    /\ caught \in BOOLEAN
    /\ listener \in {"off", "starting", "listening", "done"}
    /\ stopper \in {"off", "waiting", "stopping", "done"}
    /\ closing \in BOOLEAN
    /\ request \in [Requests -> {"new", "active", "answered"}]
    /\ signals \in 0..MaxSignals

Init ==
    /\ main = "connect"
    /\ connected = FALSE
    /\ cancelled = FALSE
    /\ code = 0
    /\ waiter = "off"
    /\ caught = FALSE
    /\ listener = "off"
    /\ stopper = "off"
    /\ closing = FALSE
    /\ request = [r \in Requests |-> "new"]
    /\ signals = 0

Running == main \notin {"killed", "ended"}

-----------------------------------------------------------------------------
(* main *)

\* Configuration, telemetry and the database; a failure ends main with nothing
\* to undo.
Connect ==
    /\ main = "connect"
    /\ \/ main' = "setup" /\ connected' = TRUE /\ UNCHANGED code
       \/ main' = "exit" /\ code' = 1 /\ UNCHANGED connected
    /\ UNCHANGED <<cancelled, goroutines, request, signals>>

\* service.New, with the reconciliation, and api.New; then the goroutines.
Setup ==
    /\ main = "setup"
    /\ \/ /\ main' = "wait"
          /\ waiter' = "started"
          /\ listener' = "starting"
          /\ stopper' = "waiting"
          /\ UNCHANGED code
       \/ /\ main' = "disconnect"
          /\ code' = 1
          /\ UNCHANGED <<waiter, listener, stopper>>
    /\ UNCHANGED <<connected, cancelled, caught, closing, request, signals>>

\* wg.Wait: the waiter is not waited for.
AllDone ==
    /\ main = "wait"
    /\ listener = "done"
    /\ stopper = "done"
    /\ main' = "disconnect"
    /\ UNCHANGED <<connected, cancelled, code, goroutines, request, signals>>

\* The deferred Disconnect, whoever still uses the database.
Disconnect ==
    /\ main = "disconnect"
    /\ main' = "exit"
    /\ connected' = FALSE
    /\ UNCHANGED <<cancelled, code, goroutines, request, signals>>

\* os.Exit in the last deferred function.
Exit ==
    /\ main = "exit"
    /\ main' = "ended"
    /\ UNCHANGED <<connected, cancelled, code, goroutines, request, signals>>

-----------------------------------------------------------------------------
(* util.Wait *)

\* signal.Notify
Notify ==
    /\ Running
    /\ waiter = "started"
    /\ waiter' = "waiting"
    /\ UNCHANGED <<main, connected, cancelled, code, caught, listener, stopper,
                   closing, request, signals>>

\* The select: a signal, or the end of the context.
Wake ==
    /\ Running
    /\ waiter = "waiting"
    /\ caught \/ cancelled
    /\ waiter' = "woken"
    /\ UNCHANGED <<main, connected, cancelled, code, caught, listener, stopper,
                   closing, request, signals>>

\* signal.Stop: from here on a signal has its default effect again.
StopNotify ==
    /\ Running
    /\ waiter = "woken"
    /\ waiter' = "stopped"
    /\ UNCHANGED <<main, connected, cancelled, code, caught, listener, stopper,
                   closing, request, signals>>

CancelContext ==
    /\ Running
    /\ waiter = "stopped"
    /\ waiter' = "done"
    /\ cancelled' = TRUE
    /\ UNCHANGED <<main, connected, code, caught, listener, stopper, closing,
                   request, signals>>

-----------------------------------------------------------------------------
(* ListenAndServe *)

\* The port is bound, unless Shutdown came first.
Listen ==
    /\ Running
    /\ listener = "starting"
    /\ ~closing
    /\ listener' = "listening"
    /\ UNCHANGED <<main, connected, cancelled, code, waiter, caught, stopper,
                   closing, request, signals>>

\* Binding the port may fail even when Shutdown has just begun; once the server accepts,
\* Shutdown makes every failure ErrServerClosed.
MayFail == listener = "starting" \/ (listener = "listening" /\ ~closing)

\* Mutant: a failure to listen is only logged.
ListenFailsUnreported ==
    /\ Running
    /\ MayFail
    /\ listener' = "done"
    /\ cancelled' = TRUE
    /\ UNCHANGED <<main, connected, code, waiter, caught, stopper, closing,
                   request, signals>>

\* Mutant: the goroutine ends without cancelling the context.
ListenFailsAlone ==
    /\ Running
    /\ MayFail
    /\ listener' = "done"
    /\ code' = 1
    /\ UNCHANGED <<main, connected, cancelled, waiter, caught, stopper, closing,
                   request, signals>>

\* The port cannot be bound, or accepting fails: an error other than
\* ErrServerClosed.
ListenFails ==
    /\ Running
    /\ MayFail
    /\ listener' = "done"
    /\ code' = 1
    /\ cancelled' = TRUE
    /\ UNCHANGED <<main, connected, waiter, caught, stopper, closing, request,
                   signals>>

\* ErrServerClosed, also when Shutdown came before the listener.
ServerClosed ==
    /\ Running
    /\ listener \in {"starting", "listening"}
    /\ closing
    /\ listener' = "done"
    /\ cancelled' = TRUE
    /\ UNCHANGED <<main, connected, code, waiter, caught, stopper, closing,
                   request, signals>>

-----------------------------------------------------------------------------
(* Shutdown *)

Shutdown ==
    /\ Running
    /\ stopper = "waiting"
    /\ cancelled
    /\ stopper' = "stopping"
    /\ closing' = TRUE
    /\ UNCHANGED <<main, connected, cancelled, code, waiter, caught, listener,
                   request, signals>>

Idle == \A r \in Requests : request[r] # "active"

ShutdownDone ==
    /\ Running
    /\ stopper = "stopping"
    /\ Idle
    /\ stopper' = "done"
    /\ UNCHANGED <<main, connected, cancelled, code, waiter, caught, listener,
                   closing, request, signals>>

\* Mutant: running out of time is not a failure.
ShutdownTimeoutUnreported ==
    /\ Running
    /\ stopper = "stopping"
    /\ stopper' = "done"
    /\ UNCHANGED <<main, connected, cancelled, code, waiter, caught, listener,
                   closing, request, signals>>

\* Mutant: the failures are counted in the exit code.
ShutdownTimeoutCounted ==
    /\ Running
    /\ stopper = "stopping"
    /\ stopper' = "done"
    /\ code' = code + 1
    /\ UNCHANGED <<main, connected, cancelled, waiter, caught, listener, closing,
                   request, signals>>

\* Mutant: Shutdown waits for the requests without a limit.
ShutdownWithoutLimit ==
    /\ Running
    /\ stopper = "stopping"
    /\ Idle
    /\ stopper' = "done"
    /\ code' = 1
    /\ UNCHANGED <<main, connected, cancelled, waiter, caught, listener, closing,
                   request, signals>>

\* The five seconds are over: the requests left go on while main ends.
ShutdownTimeout ==
    /\ Running
    /\ stopper = "stopping"
    /\ stopper' = "done"
    /\ code' = 1
    /\ UNCHANGED <<main, connected, cancelled, waiter, caught, listener, closing,
                   request, signals>>

-----------------------------------------------------------------------------
(* The surroundings *)

\* A signal goes to the channel while the waiter is registered for it; the channel
\* holds one.  Otherwise it ends the process.
Signal ==
    /\ Running
    /\ signals < MaxSignals
    /\ signals' = signals + 1
    /\ \/ waiter \in {"waiting", "woken"} /\ caught' = TRUE /\ UNCHANGED main
       \/ waiter \notin {"waiting", "woken"} /\ main' = "killed" /\ UNCHANGED caught
    /\ UNCHANGED <<connected, cancelled, code, waiter, listener, stopper, closing,
                   request>>

RequestBegins(r) ==
    /\ Running
    /\ listener = "listening"
    /\ ~closing
    /\ request[r] = "new"
    /\ request' = [request EXCEPT ![r] = "active"]
    /\ UNCHANGED <<main, connected, cancelled, code, goroutines, signals>>

RequestEnds(r) ==
    /\ Running
    /\ request[r] = "active"
    /\ request' = [request EXCEPT ![r] = "answered"]
    /\ UNCHANGED <<main, connected, cancelled, code, goroutines, signals>>

-----------------------------------------------------------------------------

Main == Connect \/ Setup \/ AllDone \/ Disconnect \/ Exit
Waiter == Notify \/ Wake \/ StopNotify \/ CancelContext
Listener == Listen \/ ListenFails \/ ServerClosed
Stopper == Shutdown \/ ShutdownDone \/ ShutdownTimeout

Next ==
    \/ Main \/ Waiter \/ Listener \/ Stopper
    \/ Signal
    \/ \E r \in Requests : RequestBegins(r) \/ RequestEnds(r)

Spec == Init /\ [][Next]_vars

\* The scheduler runs every goroutine that can go on; Shutdown returns after five
\* seconds at the latest, and a closed server makes ListenAndServe return.
\* Requests may hang.
FairSpec ==
    /\ Spec
    /\ WF_vars(Main)
    /\ WF_vars(Waiter)
    /\ WF_vars(ServerClosed)
    /\ WF_vars(Shutdown)
    /\ WF_vars(ShutdownDone \/ ShutdownTimeout)

-----------------------------------------------------------------------------
(* Properties *)

\* A process that reports success has cut no request, and took the database from
\* none (order of Shutdown, wg.Wait, Disconnect and os.Exit).
CleanExitCutsNothing ==
    main \in {"exit", "ended"} /\ code = 0 => Idle

\* A process only reports success when a signal asked it to end: whatever else
\* ends it is visible to what restarts it.
CleanExitWasAsked ==
    main \in {"disconnect", "exit", "ended"} /\ code = 0 => signals > 0

\* A process that has taken a signal ends, even when a request hangs.
EndsAfterSignal == caught ~> ~Running

\* A process that no longer listens does not stay around.
EndsWithoutListener == listener = "done" ~> ~Running
=============================================================================
