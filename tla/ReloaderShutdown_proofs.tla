----------------------- MODULE ReloaderShutdown_proofs -----------------------
(***************************************************************************)
(* Proofs about ReloaderShutdown, for any set of calls and whether or not  *)
(* signals may come before Serve.                                          *)
(***************************************************************************)
EXTENDS ReloaderShutdown, TLAPS

\* The typing of every step: each action gives the variables it changes one of a few
\* constants.
LEMMA TypeInduction == TypeOK /\ [Next]_vars => TypeOK'
<1> SUFFICES ASSUME TypeOK, [Next]_vars PROVE TypeOK'
    OBVIOUS
<1> USE DEF TypeOK, Ended, Alive
<1>1. CASE Main
  <2>1. CASE Serve
    BY <2>1 DEF Serve, End, CutOff
  <2>2. CASE LeaveAccept \/ ServeReturns
    BY <2>2 DEF LeaveAccept, ServeReturns
  <2>3. CASE Exit
    BY <2>3 DEF Exit, End, CutOff
  <2> QED
    BY <1>1, <2>1, <2>2, <2>3 DEF Main
<1>2. CASE Watch \/ TimerFires
  BY <1>2 DEF Watch, Begin, GiveUp, WatcherDone, TimerFires
<1>3. CASE Graceful
  BY <1>3 DEF Graceful, CloseGracefully, Drain, ConnectionsGone, GracefulReturns
<1>4. CASE Stop
  BY <1>4 DEF Stop, CloseListener, CloseConnections, StopReturns
<1>5. CASE Signal
  BY <1>5 DEF Signal, End, CutOff
<1>6. ASSUME NEW c \in Calls, Accept(c) \/ AnswerCall(c) \/ Leave(c) \/ BreakOff(c)
      PROVE  TypeOK'
  <2>1. CASE Accept(c) \/ AnswerCall(c) \/ Leave(c)
    BY <2>1 DEF Accept, AnswerCall, Leave
  <2>2. CASE BreakOff(c)
    <3>1. CutOff(c) \in {"broken", "given up"}
      BY <2>2 DEF BreakOff, CutOff
    <3> QED
      BY <2>2, <3>1 DEF BreakOff
  <2> QED
    BY <1>6, <2>1, <2>2
<1>7. CASE UNCHANGED vars
  BY <1>7 DEF vars
<1> QED
  BY <1>1, <1>2, <1>3, <1>4, <1>5, <1>6, <1>7 DEF Next

(***************************************************************************)
(* The type invariant, with the timer that runs just while the watcher     *)
(* waits or has waited, and Stop called on it alone.                       *)
(***************************************************************************)
THEOREM TypeCorrect == Spec => []TypeOK
<1>1. Init => TypeOK
  BY DEF Init, TypeOK
<1> QED
  BY <1>1, TypeInduction, PTL DEF Spec

-----------------------------------------------------------------------------
(***************************************************************************)
(* Why a call is broken off only after the five seconds or by a second     *)
(* signal.  No call comes before Serve.  Once GracefulStop drains the      *)
(* connections Serve accepts no more, so that when it has returned nothing *)
(* is handled any more, for good.  The watcher is done only after          *)
(* GracefulStop has returned or the timer has fired, and only then main    *)
(* leaves; Stop, which cancels calls, is called on the timer.              *)
(***************************************************************************)
NoCallEarly == main = "starting" => \A c \in Calls : call[c] = "none"

DrainEndsServing == graceful \in {"draining", "handlers", "returned"} => main # "serving"

ReturnedIsIdle == graceful = "returned" => Handling = {}

WatcherSawEnd == watcher = "done" => graceful = "returned" \/ timer = "fired"

CancelledByStop == \A c \in Calls : call[c] = "cancelled" => timer = "fired"

Inv ==
    /\ TypeOK
    /\ NoCallEarly
    /\ DrainEndsServing
    /\ ReturnedIsIdle
    /\ WatcherSawEnd
    /\ CancelledByStop
    /\ CallsBrokenOnlyByForce

\* The end of the process by Serve, Exit or a second signal.
LEMMA EndKeeps == ASSUME Inv, Serve \/ Exit \/ Signal PROVE Inv'
<1>0. TypeOK'
  BY TypeInduction DEF Inv, Next, Main
<1> USE DEF Inv, TypeOK, NoCallEarly, DrainEndsServing, ReturnedIsIdle, WatcherSawEnd,
            CancelledByStop, CallsBrokenOnlyByForce, Handling
<1>1. CASE Serve
  BY <1>0, <1>1 DEF Serve, End, CutOff, Quit
<1>2. CASE Exit
  BY <1>0, <1>2 DEF Exit, End, CutOff
<1>3. CASE Signal
  BY <1>0, <1>3 DEF Signal, End, CutOff
<1> QED
  BY <1>1, <1>2, <1>3

LEMMA Induction == Inv /\ [Next]_vars => Inv'
<1> SUFFICES ASSUME Inv, [Next]_vars PROVE Inv'
    OBVIOUS
<1>0. TypeOK'
  BY TypeInduction DEF Inv
<1>1. CASE Serve \/ Exit \/ Signal
  BY <1>1, EndKeeps
<1> USE DEF Inv, TypeOK, NoCallEarly, DrainEndsServing, ReturnedIsIdle, WatcherSawEnd,
            CancelledByStop, CallsBrokenOnlyByForce, Handling
<1>2. CASE LeaveAccept \/ ServeReturns
  BY <1>0, <1>2 DEF LeaveAccept, ServeReturns
<1>3. CASE Watch \/ TimerFires
  BY <1>0, <1>3 DEF Watch, Begin, GiveUp, WatcherDone, TimerFires
<1>4. CASE Graceful
  BY <1>0, <1>4 DEF Graceful, CloseGracefully, Drain, ConnectionsGone, GracefulReturns
<1>5. CASE Stop
  BY <1>0, <1>5 DEF Stop, CloseListener, CloseConnections, StopReturns
<1>6. ASSUME NEW c \in Calls, Accept(c) \/ AnswerCall(c) \/ Leave(c) \/ BreakOff(c)
      PROVE  Inv'
  <2>1. CASE Accept(c)
    BY <1>0, <2>1 DEF Accept
  <2>2. CASE AnswerCall(c) \/ Leave(c)
    BY <1>0, <2>2 DEF AnswerCall, Leave
  <2>3. CASE BreakOff(c)
    <3>1. \/ call[c] = "left" /\ CutOff(c) = "given up"
          \/ call[c] = "cancelled" /\ CutOff(c) = "broken"
      BY <2>3 DEF BreakOff, CutOff
    <3> QED
      BY <1>0, <2>3, <3>1 DEF BreakOff
  <2> QED
    BY <1>6, <2>1, <2>2, <2>3
<1>7. CASE UNCHANGED vars
  BY <1>0, <1>7, Zenon DEF vars
<1> QED
  BY <1>1, <1>2, <1>3, <1>4, <1>5, <1>6, <1>7 DEF Next, Main

(***************************************************************************)
(* A call is broken off only after the five seconds or by a second signal. *)
(***************************************************************************)
THEOREM CallsBrokenCorrect == Spec => []CallsBrokenOnlyByForce
<1>1. Init => Inv
  BY DEF Init, Inv, TypeOK, NoCallEarly, DrainEndsServing, ReturnedIsIdle, WatcherSawEnd,
         CancelledByStop, CallsBrokenOnlyByForce
<1>2. Inv => CallsBrokenOnlyByForce
  BY DEF Inv
<1> QED
  BY <1>1, <1>2, Induction, PTL DEF Spec
=============================================================================
