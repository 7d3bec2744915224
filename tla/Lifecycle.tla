------------------------------ MODULE Lifecycle ------------------------------
(***************************************************************************)
(* The life of the process (src/main.go) and its asynchronous logger       *)
(* (src/pkg/logger/logger.go): the server, the signal, the goroutine that  *)
(* calls Shutdown, the requests in flight, the goroutines that deliver a   *)
(* configuration, and the channel that all of them log into.               *)
(*                                                                         *)
(* When main returns or calls os.Exit, or a goroutine panics that nothing  *)
(* recovers, the process ends, and with it all that is under way.          *)
(*                                                                         *)
(* net/http is external: as soon as Shutdown has begun, ListenAndServe     *)
(* returns and no request is accepted; Shutdown itself returns when no     *)
(* request is in flight or its time is over, and cuts none.                *)
(***************************************************************************)
EXTENDS Integers, Sequences

CONSTANTS
  Requests,   \* HTTP requests that may arrive
  Deliveries, \* goroutines of broadcastLocked
  Levels,     \* log levels
  Info, Error,
  Capacity,   \* of the channel: 2048
  Intervals   \* between two checks of the upstream that the file may hold

ASSUME LevelAssumption == Levels \subseteq Int /\ {Info, Error} \subseteq Levels
ASSUME CapacityAssumption == Capacity \in Nat \ {0}
ASSUME IntervalAssumption == Intervals \subseteq Int

VARIABLES
  main,      \* where main is: "starting", "serving", "failed", "returning",
             \* "closing" or "ended"
  ending,    \* how the process ended: "returned", "exit" or "panic"
  signalled, \* whether SIGINT or SIGTERM has been received
  server,    \* "open", "shutting" while Shutdown waits, or "waited"
  request,   \* request -> "none", "handling", "logging", "ended" or "cut"
  delivery,  \* delivery -> "none", "refused", "done" or "panicked"
  checks,    \* the goroutine that checks the upstream: "none", "running" or "stopped"
  interval,  \* as configured at the start
  level,     \* of the logger
  queue,     \* the severities of the events in the channel
  closed,    \* whether the channel is closed
  writer,    \* where the goroutine of the logger is: "ranging", "checking" the level
             \* of an event, "writing" it, or "stopped"
  taken,     \* the severity of the event it checks, << >> if none
  owed       \* history: how many of the events that Log has put into the channel have
             \* been neither written to standard output nor passed over

channel == <<queue, closed, writer, taken, owed>>
logger == <<level, channel>>
checking == <<checks, interval>>
vars == <<main, ending, signalled, server, request, delivery, checking, logger>>

InFlight == {r \in Requests : request[r] \in {"handling", "logging"}}

Alive == main # "ended"

(* The process ends, and cuts off the requests in flight. *)
End(how) ==
  /\ main' = "ended"
  /\ ending' = how
  /\ request' = [r \in Requests |-> IF r \in InFlight THEN "cut" ELSE request[r]]

(* Log while the channel is open: a full channel drops the event. *)
Log(severity) ==
  /\ IF Len(queue) < Capacity
     THEN queue' = Append(queue, severity) /\ owed' = owed + 1
     ELSE UNCHANGED <<queue, owed>>
  /\ UNCHANGED <<level, closed, writer, taken>>

-------------------------------------------------------------------------------
Init ==
  /\ main = "starting"
  /\ ending = "none"
  /\ signalled = FALSE
  /\ server = "open"
  /\ request = [r \in Requests |-> "none"]
  /\ delivery = [g \in Deliveries |-> "none"]
  /\ checks = "none"
  /\ interval \in Intervals
  /\ level \in Levels
  /\ queue = << >>
  /\ closed = FALSE
  /\ writer = "ranging"
  /\ taken = << >>
  /\ owed = 0

Signal ==
  /\ Alive /\ ~signalled
  /\ signalled' = TRUE
  /\ UNCHANGED <<main, ending, server, request, delivery, checking, logger>>

(* The goroutine that waits for the signal calls Shutdown. *)
BeginShutdown ==
  /\ Alive /\ signalled /\ server = "open"
  /\ server' = "shutting"
  /\ UNCHANGED <<main, ending, signalled, request, delivery, checking, logger>>

EndShutdown ==
  /\ Alive /\ server = "shutting"
  /\ server' = "waited"
  /\ UNCHANGED <<main, ending, signalled, request, delivery, checking, logger>>

(* main logs that it starts and calls ListenAndServe. *)
Serve ==
  /\ main = "starting"
  /\ main' = "serving"
  /\ Log(Info)
  /\ UNCHANGED <<ending, signalled, server, request, delivery, checking>>

\* Faulty variant of ServeReturns: main waits until no request is in flight.
ServeReturnsQuiet ==
  /\ main = "serving" /\ server # "open"
  /\ InFlight = {}
  /\ main' = "returning"
  /\ UNCHANGED <<ending, signalled, server, request, delivery, checking, logger>>

(* ListenAndServe returns ErrServerClosed, whether Shutdown has returned or not. *)
ServeReturns ==
  /\ main = "serving" /\ server # "open"
  /\ main' = "returning"
  /\ UNCHANGED <<ending, signalled, server, request, delivery, checking, logger>>

(* ListenAndServe returns another error. *)
ServeFails ==
  /\ main = "serving" /\ server = "open"
  /\ main' = "failed"
  /\ Log(Error)
  /\ UNCHANGED <<ending, signalled, server, request, delivery, checking>>

(* os.Exit runs none of the deferred calls. *)
Exit ==
  /\ main = "failed"
  /\ End("exit")
  /\ UNCHANGED <<signalled, server, delivery, checking, logger>>

(* The deferred Close closes the channel *)
Close ==
  /\ main = "returning"
  /\ main' = "closing"
  /\ closed' = TRUE
  /\ UNCHANGED <<ending, signalled, server, request, delivery, checking, level, queue,
                 writer, taken, owed>>

\* Faulty variant of Return: Close waits until the channel is empty.
ReturnWhenEmpty ==
  /\ main = "closing" /\ queue = << >>
  /\ End("returned")
  /\ UNCHANGED <<signalled, server, delivery, checking, logger>>

(* and waits for the goroutine of the logger; then main returns. *)
Return ==
  /\ main = "closing" /\ writer = "stopped"
  /\ End("returned")
  /\ UNCHANGED <<signalled, server, delivery, checking, logger>>

(* What the goroutine of the logger leaves alone *)
elsewhere == <<main, ending, signalled, server, request, delivery, checking, level, closed>>

(* The goroutine of the logger takes an event from the channel, open or closed, *)
Take ==
  /\ Alive /\ writer = "ranging" /\ queue # << >>
  /\ writer' = "checking"
  /\ taken' = <<Head(queue)>>
  /\ queue' = Tail(queue)
  /\ UNCHANGED <<elsewhere, owed>>

(* passes over it if it is below the level at this moment, *)
Skip ==
  /\ Alive /\ writer = "checking" /\ taken[1] < level
  /\ writer' = "ranging"
  /\ taken' = << >>
  /\ owed' = owed - 1
  /\ UNCHANGED <<elsewhere, queue>>

Keep ==
  /\ Alive /\ writer = "checking" /\ taken[1] >= level
  /\ writer' = "writing"
  /\ taken' = << >>
  /\ UNCHANGED <<elsewhere, queue, owed>>

(* and else writes it, as soon as standard output takes it. *)
Write ==
  /\ Alive /\ writer = "writing"
  /\ writer' = "ranging"
  /\ owed' = owed - 1
  /\ UNCHANGED <<elsewhere, queue, taken>>

(* It stops when the channel is closed and has been emptied. *)
Stop ==
  /\ Alive /\ writer = "ranging" /\ closed /\ queue = << >>
  /\ writer' = "stopped"
  /\ UNCHANGED <<elsewhere, queue, taken, owed>>

Accept(r) ==
  /\ main = "serving" /\ server = "open"
  /\ request[r] = "none"
  /\ request' = [request EXCEPT ![r] = "handling"]
  /\ UNCHANGED <<main, ending, signalled, server, delivery, checking, logger>>

(* The handlers return to TelemetryMiddleware. *)
Answer(r) ==
  /\ Alive /\ request[r] = "handling"
  /\ request' = [request EXCEPT ![r] = "logging"]
  /\ UNCHANGED <<main, ending, signalled, server, delivery, checking, logger>>

\* Faulty variants of LogRequest: Log waits for room in the channel, or nothing
\* recovers its panic.
LogRequestWaiting(r, severity) ==
  /\ Alive /\ request[r] = "logging"
  /\ closed \/ Len(queue) < Capacity
  /\ request' = [request EXCEPT ![r] = "ended"]
  /\ IF closed THEN UNCHANGED logger ELSE Log(severity)
  /\ UNCHANGED <<main, ending, signalled, server, delivery, checking>>

LogRequestUnrecovered(r, severity) ==
  /\ Alive /\ request[r] = "logging"
  /\ IF closed THEN End("panic") /\ UNCHANGED logger
     ELSE /\ request' = [request EXCEPT ![r] = "ended"]
          /\ Log(severity)
          /\ UNCHANGED <<main, ending>>
  /\ UNCHANGED <<signalled, server, delivery, checking>>

(* It logs, or, when the channel is closed, panics, and gin.Recovery recovers. *)
LogRequest(r, severity) ==
  /\ Alive /\ request[r] = "logging"
  /\ request' = [request EXCEPT ![r] = "ended"]
  /\ IF closed THEN UNCHANGED logger ELSE Log(severity)
  /\ UNCHANGED <<main, ending, signalled, server, delivery, checking>>

(* A goroutine of broadcastLocked sets the level, unless that does not parse, and
   calls ApplyConfig. *)
Deliver(g, l) ==
  /\ Alive /\ delivery[g] = "none"
  /\ level' = l
  /\ delivery' \in {[delivery EXCEPT ![g] = "refused"], [delivery EXCEPT ![g] = "done"]}
  /\ UNCHANGED <<main, ending, signalled, server, request, checking, channel>>

(* It logs that ApplyConfig has failed; nothing recovers a panic here. *)
LogRefusal(g) ==
  /\ Alive /\ delivery[g] = "refused"
  /\ delivery' = [delivery EXCEPT ![g] = IF closed THEN "panicked" ELSE "done"]
  /\ IF closed THEN End("panic") /\ UNCHANGED logger
     ELSE Log(Error) /\ UNCHANGED <<main, ending, request>>
  /\ UNCHANGED <<signalled, server, checking>>

(* RunUpstreamChecks makes its ticker, which panics when the interval is not
   positive; nothing recovers that. *)
StartChecks ==
  /\ Alive /\ checks = "none"
  /\ IF interval <= 0 THEN End("panic") /\ UNCHANGED checks
     ELSE checks' = "running" /\ UNCHANGED <<main, ending, request>>
  /\ UNCHANGED <<signalled, server, delivery, interval, logger>>

StopChecks ==
  /\ Alive /\ checks = "running" /\ signalled
  /\ checks' = "stopped"
  /\ UNCHANGED <<main, ending, signalled, server, request, delivery, interval, logger>>

Next ==
  \/ Signal \/ BeginShutdown \/ EndShutdown
  \/ Serve \/ ServeReturns \/ ServeFails \/ Exit \/ Close \/ Return
  \/ Take \/ Skip \/ Keep \/ Write \/ Stop
  \/ StartChecks \/ StopChecks
  \/ \E r \in Requests : Accept(r)
  \/ \E r \in Requests : Answer(r)
  \/ \E r \in Requests, severity \in Levels : LogRequest(r, severity)
  \/ \E g \in Deliveries, l \in Levels : Deliver(g, l)
  \/ \E g \in Deliveries : LogRefusal(g)

(* Goroutines that have work to do are scheduled.  Fairness is asked neither of
   the handlers, which may wait for an upstream, nor of Write, which waits for
   whoever reads standard output. *)
Fairness ==
  /\ WF_vars(BeginShutdown) /\ WF_vars(EndShutdown)
  /\ WF_vars(Serve) /\ WF_vars(ServeReturns) /\ WF_vars(Exit)
  /\ WF_vars(Close) /\ WF_vars(Return)
  /\ WF_vars(Take) /\ WF_vars(Skip \/ Keep) /\ WF_vars(Stop)
  /\ \A r \in Requests : WF_vars(\E severity \in Levels : LogRequest(r, severity))

Spec == Init /\ [][Next]_vars /\ Fairness

-------------------------------------------------------------------------------
(* When main returns, every event that Log has put into the channel has been written
   to standard output, or passed over for its level: the one the goroutine had
   already taken when the channel was closed, and those of goroutines that logged
   until then.  os.Exit and a panic lose what is in the channel, the reason of a
   failed start among it. *)
NothingLostOnReturn == ending = "returned" => owed = 0

(* Handlers outlive main's Close and then send on a closed channel: no request
   takes the process down with it.  Only a delivery that is refused after Close does,
   or an interval between the checks of the upstream that is not positive. *)
PanicsExplained ==
  ending = "panic" =>
    \/ closed /\ \E g \in Deliveries : delivery[g] = "panicked"
    \/ checks = "none" /\ interval <= 0

(* Once it is signalled the process ends, although requests may never be answered,
   if standard output is read. *)
SignalEnds == WF_vars(Write) => (signalled ~> main = "ended")

(* A request that has been answered gets through its log, although nobody may read
   standard output and the channel is full: Log drops and never waits. *)
AnsweredRequestsEnd ==
  \A r \in Requests : request[r] = "logging" ~> request[r] \in {"ended", "cut"}

(* A request in flight when the process is signalled is cut off only after
   Shutdown has waited for it as long as shutdownTimeout says. *)
ShutdownWaits ==
  \A r \in Requests : request[r] = "cut" /\ ending = "returned" => server = "waited"
===============================================================================
