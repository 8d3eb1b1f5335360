-------------------------- MODULE ReloaderShutdown --------------------------
(***************************************************************************)
(* How the config-reloader ends (main in cmd/config-reloader): the main    *)
(* goroutine is in Serve; a watcher waits for SIGTERM or an interrupt,     *)
(* starts GracefulStop in a goroutine of its own and gives it five         *)
(* seconds, then calls Stop; main leaves when Serve has returned and the   *)
(* watcher is done.                                                        *)
(*                                                                         *)
(* Of the gRPC server is modelled what decides when these calls return:    *)
(* both close the listener and wait until Serve is out of Accept;          *)
(* GracefulStop lets the calls on open connections end and waits for       *)
(* their handlers, holding the server's mutex; Stop closes the             *)
(* connections, which cancels the calls' contexts; either lets Serve       *)
(* return.  What a call does is ConfigReloader's matter: it ends, or hangs *)
(* until its context is cancelled.                                         *)
(***************************************************************************)
EXTENDS Naturals

CONSTANTS
    Calls,          \* calls to the management service, each on its connection
    EarlySignals    \* whether a signal may arrive before Serve is called

ASSUME ShutdownAssumption == EarlySignals \in BOOLEAN

VARIABLES
    main,       \* where the main goroutine is, or how the process ended
    watcher,    \* what the watcher does next
    graceful,   \* how far GracefulStop is
    stop,       \* how far Stop is
    timer,      \* the timer of five seconds
    notify,     \* signals are caught, the first one is on its way, or they kill
    call        \* the state of each call

vars == <<main, watcher, graceful, stop, timer, notify, call>>

Ended == {"exited", "panicked", "killed"}

TypeOK ==
    /\ main \in {"starting", "serving", "returning", "waiting"} \cup Ended
    /\ watcher \in {"watching", "waiting", "stopping", "done"}
    /\ graceful \in {"none", "called", "closed", "draining", "handlers", "returned"}
    /\ stop \in {"none", "called", "closed", "closing", "returned"}
    /\ timer \in {"off", "running", "fired"}
    /\ notify \in {"caught", "signalled", "default"}
    /\ call \in [Calls -> {"none", "running", "left", "cancelled", "answered", "broken",
                           "given up"}]
    \* The timer runs for the watcher alone, which calls Stop on it.
    /\ timer = "off" <=> watcher = "watching"
    /\ stop # "none" => timer = "fired"

Init ==
    /\ main = "starting"
    /\ watcher = "watching"
    /\ graceful = "none"
    /\ stop = "none"
    /\ timer = "off"
    /\ notify = "caught"
    /\ call = [c \in Calls |-> "none"]

-----------------------------------------------------------------------------
Alive == main \notin Ended

\* Stop or GracefulStop has closed the listener.
Quit == graceful \notin {"none", "called"} \/ stop \notin {"none", "called"}

\* One of them has returned, and lets Serve return.
Done == graceful = "returned" \/ stop = "returned"

\* How the calls stand that were under way, now that they end without an answer: a
\* call whose client has left is given up, any other one is broken.
CutOff(c) ==
    CASE call[c] \in {"running", "cancelled"} -> "broken"
      [] call[c] = "left" -> "given up"
      [] OTHER -> call[c]

\* The process ends, with whatever is under way.
End(how) ==
    /\ main' = how
    /\ call' = [c \in Calls |-> CutOff(c)]

\* Serve accepts connections; when the server has been stopped before, it returns an
\* error, on which main panics.
Serve ==
    /\ main = "starting"
    /\ IF Quit THEN End("panicked") ELSE main' = "serving" /\ UNCHANGED call
    /\ UNCHANGED <<watcher, graceful, stop, timer, notify>>

\* Accept fails as the listener is closed, and Serve waits for the end of the stop.
LeaveAccept ==
    /\ main = "serving"
    /\ Quit
    /\ main' = "returning"
    /\ UNCHANGED <<watcher, graceful, stop, timer, notify, call>>

ServeReturns ==
    /\ main = "returning"
    /\ Done
    /\ main' = "waiting"
    /\ UNCHANGED <<watcher, graceful, stop, timer, notify, call>>

\* For mutation: main does not wait for the end of the stop.
ExitAtOnce ==
    /\ main \in {"returning", "waiting"}
    /\ End("exited")
    /\ UNCHANGED <<watcher, graceful, stop, timer, notify>>

\* wg.Wait returns, and the process is over.
Exit ==
    /\ main = "waiting"
    /\ watcher = "done"
    /\ End("exited")
    /\ UNCHANGED <<watcher, graceful, stop, timer, notify>>

\* SIGTERM or an interrupt; after the watcher has called stop() it kills.
Signal ==
    /\ Alive
    /\ EarlySignals \/ main # "starting"
    /\ \/ /\ notify # "default"
          /\ notify' = "signalled"
          /\ UNCHANGED <<main, call>>
       \/ /\ notify = "default"
          /\ End("killed")
          /\ UNCHANGED notify
    /\ UNCHANGED <<watcher, graceful, stop, timer>>

\* For mutation: the watcher waits for GracefulStop without a timer.
BeginUntimed ==
    /\ Alive
    /\ watcher = "watching"
    /\ notify = "signalled"
    /\ notify' = "default"
    /\ graceful' = "called"
    /\ watcher' = "waiting"
    /\ UNCHANGED <<main, stop, timer, call>>

\* The context is done: the watcher gives signals back their default, starts
\* GracefulStop and the timer.
Begin ==
    /\ Alive
    /\ watcher = "watching"
    /\ notify = "signalled"
    /\ notify' = "default"
    /\ graceful' = "called"
    /\ timer' = "running"
    /\ watcher' = "waiting"
    /\ UNCHANGED <<main, stop, call>>

TimerFires ==
    /\ Alive
    /\ timer = "running"
    /\ watcher = "waiting"
    /\ timer' = "fired"
    /\ UNCHANGED <<main, watcher, graceful, stop, notify, call>>

\* For mutation: the timer is only logged, GracefulStop goes on.
GiveUpWaits ==
    /\ Alive
    /\ watcher = "waiting"
    /\ timer = "fired"
    /\ watcher' = "stopping"
    /\ UNCHANGED <<main, graceful, stop, timer, notify, call>>

\* The watcher finds the timer fired, and calls Stop ...
GiveUp ==
    /\ Alive
    /\ watcher = "waiting"
    /\ timer = "fired"
    /\ watcher' = "stopping"
    /\ stop' = "called"
    /\ UNCHANGED <<main, graceful, timer, notify, call>>

\* ... until Stop returns; or it finds that GracefulStop has.
WatcherDone ==
    /\ Alive
    /\ \/ watcher = "stopping" /\ stop = "returned"
       \/ watcher = "waiting" /\ graceful = "returned"
    /\ watcher' = "done"
    /\ UNCHANGED <<main, graceful, stop, timer, notify, call>>

-----------------------------------------------------------------------------
(***************************************************************************)
(* The gRPC server.                                                        *)
(***************************************************************************)
Open == {c \in Calls : call[c] = "running"}
Handling == {c \in Calls : call[c] \in {"running", "left", "cancelled"}}

\* The mutex that GracefulStop holds while it waits for the handlers.
Free == graceful # "handlers"

CloseGracefully ==
    /\ Alive
    /\ graceful = "called"
    /\ graceful' = "closed"
    /\ UNCHANGED <<main, watcher, stop, timer, notify, call>>

\* Connections take no new calls.
Drain ==
    /\ Alive
    /\ graceful = "closed"
    /\ main # "serving"
    /\ graceful' = "draining"
    /\ UNCHANGED <<main, watcher, stop, timer, notify, call>>

ConnectionsGone ==
    /\ Alive
    /\ graceful = "draining"
    /\ Open = {}
    /\ graceful' = "handlers"
    /\ UNCHANGED <<main, watcher, stop, timer, notify, call>>

GracefulReturns ==
    /\ Alive
    /\ graceful = "handlers"
    /\ Handling = {}
    /\ graceful' = "returned"
    /\ UNCHANGED <<main, watcher, stop, timer, notify, call>>

CloseListener ==
    /\ Alive
    /\ stop = "called"
    /\ Free
    /\ stop' = "closed"
    /\ UNCHANGED <<main, watcher, graceful, timer, notify, call>>

\* The connections are closed and the contexts of their calls cancelled.
CloseConnections ==
    /\ Alive
    /\ stop = "closed"
    /\ Free
    /\ main # "serving"
    /\ stop' = "closing"
    /\ call' = [c \in Calls |-> IF call[c] = "running" THEN "cancelled" ELSE call[c]]
    /\ UNCHANGED <<main, watcher, graceful, timer, notify>>

StopReturns ==
    /\ Alive
    /\ stop = "closing"
    /\ Free
    /\ stop' = "returned"
    /\ UNCHANGED <<main, watcher, graceful, timer, notify, call>>

\* A call comes in on a connection that is neither drained nor closed.
Accept(c) ==
    /\ call[c] = "none"
    /\ \/ main = "serving"
       \/ /\ main = "returning"
          /\ graceful \in {"none", "closed"}
          /\ stop \in {"none", "called", "closed"}
    /\ call' = [call EXCEPT ![c] = "running"]
    /\ UNCHANGED <<main, watcher, graceful, stop, timer, notify>>

AnswerCall(c) ==
    /\ Alive
    /\ call[c] = "running"
    /\ call' = [call EXCEPT ![c] = "answered"]
    /\ UNCHANGED <<main, watcher, graceful, stop, timer, notify>>

\* The client leaves, and its call is cancelled.
Leave(c) ==
    /\ Alive
    /\ call[c] = "running"
    /\ call' = [call EXCEPT ![c] = "left"]
    /\ UNCHANGED <<main, watcher, graceful, stop, timer, notify>>

\* Every request that a call makes ends with its context, and the call with it.
BreakOff(c) ==
    /\ Alive
    /\ call[c] \in {"left", "cancelled"}
    /\ call' = [call EXCEPT ![c] = CutOff(c)]
    /\ UNCHANGED <<main, watcher, graceful, stop, timer, notify>>

-----------------------------------------------------------------------------
Main == Serve \/ LeaveAccept \/ ServeReturns \/ Exit
Watch == Begin \/ GiveUp \/ WatcherDone
Graceful == CloseGracefully \/ Drain \/ ConnectionsGone \/ GracefulReturns
Stop == CloseListener \/ CloseConnections \/ StopReturns

Next ==
    \/ Main \/ Watch \/ TimerFires \/ Graceful \/ Stop \/ Signal
    \/ \E c \in Calls : Accept(c) \/ AnswerCall(c) \/ Leave(c) \/ BreakOff(c)

Spec == Init /\ [][Next]_vars

\* Goroutines are scheduled and the timer runs; a call ends when it is cancelled,
\* and may hang until then.
Fairness ==
    /\ WF_vars(Main) /\ WF_vars(Watch) /\ WF_vars(TimerFires)
    /\ WF_vars(Graceful) /\ WF_vars(Stop)
    /\ \A c \in Calls : WF_vars(BreakOff(c))

FairSpec == Spec /\ Fairness
-----------------------------------------------------------------------------
\* A call that was under way when the signal came is answered, unless the five
\* seconds are over or a second signal kills the process: main does not leave Serve
\* before GracefulStop has waited for the handlers, whatever the order in which the
\* listener, Serve, the calls and the timer end.
CallsBrokenOnlyByForce ==
    (\E c \in Calls : call[c] = "broken") => timer = "fired" \/ main = "killed"

\* A signal ends the process, even when every call hangs: GracefulStop then never
\* returns, Stop cancels the calls, and Serve and the watcher return.
SignalEndsProcess == notify = "signalled" ~> ~ Alive
=============================================================================
