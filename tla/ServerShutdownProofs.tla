------------------------ MODULE ServerShutdownProofs ------------------------
(***************************************************************************)
(* The safety of the shutdown, for any number of requests and signals.     *)
(* That the process ends (StopsAfterSignal) rests on fairness and is left  *)
(* to TLC.                                                                 *)
(***************************************************************************)
EXTENDS ServerShutdown, TLAPS

-----------------------------------------------------------------------------
\* The inductive invariant.

\* No request starts from the beginning of GracefulStop on.
DrainingFromStop == handler \in {"stopping", "checking", "forcing", "done"} => draining

\* Past GracefulStop nothing runs, and nothing can start.
StoppedIsEmpty == handler \in {"checking", "forcing", "done"} => running = {}

\* Serve returns after GracefulStop, which is past only then.
ReturnsWhenStopped ==
  /\ main = "returned" => stopped
  /\ stopped => handler \in {"checking", "forcing", "done"}

ShutdownInv == TypeOK /\ DrainingFromStop /\ StoppedIsEmpty /\ ReturnsWhenStopped

-----------------------------------------------------------------------------
\* The process begins with nothing in progress.
LEMMA InitShutdown == Init => ShutdownInv
<1> SUFFICES ASSUME Init PROVE ShutdownInv
  OBVIOUS
<1>1. TypeOK
  <2>1. sigChan \in 0..1 /\ signals \in 0..MaxSignals
    BY SignalAssumption DEF Init
  <2>2. draining \in BOOLEAN /\ stopped \in BOOLEAN /\ expired \in BOOLEAN
    BY DEF Init
  <2> QED BY <2>1, <2>2, Zenon DEF Init, TypeOK
<1>2. DrainingFromStop /\ StoppedIsEmpty /\ ReturnsWhenStopped
  BY DEF Init, DrainingFromStop, StoppedIsEmpty, ReturnsWhenStopped
<1> QED BY <1>1, <1>2 DEF ShutdownInv

\* Each step of the two goroutines, of the clients and of the clock keeps
\* the invariant.
LEMMA NextShutdown == ShutdownInv /\ [Next]_vars => ShutdownInv'
<1> SUFFICES ASSUME ShutdownInv, [Next]_vars PROVE ShutdownInv'
  OBVIOUS
<1> USE SignalAssumption
    DEF ShutdownInv, TypeOK, DrainingFromStop, StoppedIsEmpty, ReturnsWhenStopped, Alive
<1>1. CASE Serve
  BY <1>1 DEF Serve
<1>2. CASE ServeReturns
  BY <1>2 DEF ServeReturns
<1>3. CASE ServeFails
  BY <1>3 DEF ServeFails
<1>4. CASE ReceiveSignal
  BY <1>4 DEF ReceiveSignal
<1>5. CASE GracefulStopBegins
  BY <1>5 DEF GracefulStopBegins
<1>6. CASE GracefulStopReturns
  BY <1>6 DEF GracefulStopReturns
<1>7. CASE CheckDeadline
  BY <1>7 DEF CheckDeadline
<1>8. CASE ForceStop
  BY <1>8 DEF ForceStop
<1>9. CASE Signal
  BY <1>9 DEF Signal
<1>10. CASE Expire
  BY <1>10 DEF Expire
<1>11. ASSUME NEW r \in Req, StartRequest(r) PROVE ShutdownInv'
  BY <1>11 DEF StartRequest
<1>12. ASSUME NEW r \in Req, EndRequest(r) PROVE ShutdownInv'
  BY <1>12 DEF EndRequest
<1>13. ASSUME NEW r \in Req, HangRequest(r) PROVE ShutdownInv'
  BY <1>13 DEF HangRequest
<1>14. CASE UNCHANGED vars
  BY <1>14 DEF vars
<1> QED
  BY <1>1, <1>2, <1>3, <1>4, <1>5, <1>6, <1>7, <1>8, <1>9, <1>10, <1>11, <1>12, <1>13, <1>14
     DEF Next, Main, Handler, Environment

(***************************************************************************)
(* The invariant of the shutdown: once GracefulStop has begun no request   *)
(* starts, and once it has returned none runs (main.go).                   *)
(***************************************************************************)
THEOREM ShutdownInvHolds == Spec => []ShutdownInv
BY InitShutdown, NextShutdown, PTL DEF Spec

(***************************************************************************)
(* "Give ongoing requests time to complete" (main.go): when Serve returns  *)
(* no request is in progress, and the forced stop has none to cut, with    *)
(* any number of requests.                                                 *)
(***************************************************************************)
THEOREM RequestsRunToEndHolds == Spec => []RequestsRunToEnd
<1>1. ShutdownInv => RequestsRunToEnd
  BY DEF ShutdownInv, RequestsRunToEnd, StoppedIsEmpty, ReturnsWhenStopped
<1> QED BY <1>1, ShutdownInvHolds, PTL
=============================================================================
