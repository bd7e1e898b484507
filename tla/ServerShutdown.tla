--------------------------- MODULE ServerShutdown ---------------------------
(***************************************************************************)
(* The life of the server process of src/api/cmd/server/main.go: the main  *)
(* goroutine inside grpcServer.Serve, the goroutine that waits for SIGINT  *)
(* or SIGTERM, and the requests in progress.                               *)
(*                                                                         *)
(* grpc-go is not part of the repository.  What main.go relies on: from    *)
(* its first moment GracefulStop lets no request start, it returns when    *)
(* the last one has ended, and Serve returns after that; a Serve that      *)
(* comes after a stop fails.  Notify drops a signal when the channel,      *)
(* which has room for one, is full.                                        *)
(***************************************************************************)
EXTENDS Naturals, FiniteSets

CONSTANTS
  Req,        \* requests the clients can have open at once
  MaxSignals  \* bound: signals sent to the process

ASSUME SignalAssumption == MaxSignals \in Nat

VARIABLES
  main,      \* the main goroutine
  handler,   \* the goroutine that handles signals
  sigChan,   \* signals in the channel
  signals,   \* signals sent so far
  draining,  \* GracefulStop has begun
  stopped,   \* GracefulStop has returned
  expired,   \* the deadline of shutdownCtx has passed
  running,   \* requests in progress
  hung       \* those that will never end

vars == <<main, handler, sigChan, signals, draining, stopped, expired, running, hung>>

Alive == main \in {"starting", "serving"}

TypeOK ==
  /\ main \in {"starting", "serving", "returned", "fatal"}
  /\ handler \in {"waiting", "received", "stopping", "checking", "forcing", "done"}
  /\ sigChan \in 0..1 /\ signals \in 0..MaxSignals
  /\ draining \in BOOLEAN /\ stopped \in BOOLEAN /\ expired \in BOOLEAN
  /\ running \subseteq Req /\ hung \subseteq running

Init ==
  /\ main = "starting" /\ handler = "waiting"
  /\ sigChan = 0 /\ signals = 0
  /\ draining = FALSE /\ stopped = FALSE /\ expired = FALSE
  /\ running = {} /\ hung = {}

-----------------------------------------------------------------------------
\* The main goroutine.

Serve ==
  /\ main = "starting"
  /\ main' = IF draining THEN "fatal" ELSE "serving"
  /\ UNCHANGED <<handler, sigChan, signals, draining, stopped, expired, running, hung>>

ServeReturns ==
  /\ main = "serving" /\ stopped
  /\ main' = "returned"
  /\ UNCHANGED <<handler, sigChan, signals, draining, stopped, expired, running, hung>>

\* The listener breaks: log.Fatalf.
ServeFails ==
  /\ main = "serving" /\ ~ draining
  /\ main' = "fatal"
  /\ UNCHANGED <<handler, sigChan, signals, draining, stopped, expired, running, hung>>

-----------------------------------------------------------------------------
\* The goroutine that handles signals.

\* Receives the first signal and starts the 30 s of shutdownCtx.
ReceiveSignal ==
  /\ Alive /\ handler = "waiting" /\ sigChan = 1
  /\ sigChan' = 0 /\ handler' = "received"
  /\ UNCHANGED <<main, signals, draining, stopped, expired, running, hung>>

\* Mutant: requests are still accepted.
GracefulStopBegins_Accepting ==
  /\ Alive /\ handler = "received"
  /\ handler' = "stopping"
  /\ UNCHANGED <<main, sigChan, signals, draining, stopped, expired, running, hung>>

GracefulStopBegins ==
  /\ Alive /\ handler = "received"
  /\ draining' = TRUE /\ handler' = "stopping"
  /\ UNCHANGED <<main, sigChan, signals, stopped, expired, running, hung>>

\* Mutant: it does not wait for the requests.
GracefulStopReturns_AtOnce ==
  /\ Alive /\ handler = "stopping"
  /\ stopped' = TRUE /\ handler' = "checking"
  /\ UNCHANGED <<main, sigChan, signals, draining, expired, running, hung>>

GracefulStopReturns ==
  /\ Alive /\ handler = "stopping" /\ running = {}
  /\ stopped' = TRUE /\ handler' = "checking"
  /\ UNCHANGED <<main, sigChan, signals, draining, expired, running, hung>>

\* The select with its default.
CheckDeadline ==
  /\ Alive /\ handler = "checking"
  /\ handler' = IF expired THEN "forcing" ELSE "done"
  /\ UNCHANGED <<main, sigChan, signals, draining, stopped, expired, running, hung>>

\* grpcServer.Stop cuts what still runs.
ForceStop ==
  /\ Alive /\ handler = "forcing"
  /\ running' = {} /\ hung' = {} /\ stopped' = TRUE /\ handler' = "done"
  /\ UNCHANGED <<main, sigChan, signals, draining, expired>>

-----------------------------------------------------------------------------
\* The environment: signals, the clock, the requests.

Signal ==
  /\ Alive /\ signals < MaxSignals
  /\ signals' = signals + 1 /\ sigChan' = 1
  /\ UNCHANGED <<main, handler, draining, stopped, expired, running, hung>>

Expire ==
  /\ Alive /\ handler \notin {"waiting", "done"} /\ ~ expired
  /\ expired' = TRUE
  /\ UNCHANGED <<main, handler, sigChan, signals, draining, stopped, running, hung>>

StartRequest(r) ==
  /\ main = "serving" /\ ~ draining /\ r \notin running
  /\ running' = running \cup {r}
  /\ UNCHANGED <<main, handler, sigChan, signals, draining, stopped, expired, hung>>

EndRequest(r) ==
  /\ Alive /\ r \in running \ hung
  /\ running' = running \ {r}
  /\ UNCHANGED <<main, handler, sigChan, signals, draining, stopped, expired, hung>>

\* A request that will not end: a call that loops in the C library.
HangRequest(r) ==
  /\ Alive /\ r \in running \ hung
  /\ hung' = hung \cup {r}
  /\ UNCHANGED <<main, handler, sigChan, signals, draining, stopped, expired, running>>

-----------------------------------------------------------------------------
Main == Serve \/ ServeReturns
Handler ==
  \/ ReceiveSignal \/ GracefulStopBegins \/ GracefulStopReturns
  \/ CheckDeadline \/ ForceStop
Environment ==
  \/ ServeFails \/ Signal \/ Expire
  \/ \E r \in Req : StartRequest(r) \/ EndRequest(r) \/ HangRequest(r)

Next == Main \/ Handler \/ Environment

\* Goroutines are scheduled, and a request ends unless it hangs.
Fairness ==
  /\ WF_vars(Main) /\ WF_vars(Handler)
  /\ \A r \in Req : WF_vars(EndRequest(r))

Spec == Init /\ [][Next]_vars /\ Fairness

-----------------------------------------------------------------------------
\* Properties.

(***************************************************************************)
(* "Give ongoing requests time to complete" (main.go): when the process    *)
(* ends after a signal, by Serve returning, no request was in progress,    *)
(* whenever the deadline passed and however many signals came.  Nor does   *)
(* the forced stop cut one: GracefulStop comes before the select, so that  *)
(* when the deadline is looked at every request has ended.                 *)
(* The types hold with it.                                                 *)
(***************************************************************************)
RequestsRunToEnd ==
  /\ TypeOK
  /\ main = "returned" => running = {}
  /\ handler = "forcing" => running = {}

(***************************************************************************)
(* A signal ends the process, unless a request hangs: then nothing does,   *)
(* neither the deadline nor a second signal.                               *)
(***************************************************************************)
StopsAfterSignal == signals > 0 ~> (~ Alive \/ hung # {})
=============================================================================
