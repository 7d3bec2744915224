---------------------------- MODULE LifecycleProofs ----------------------------
(***************************************************************************)
(* How the process ends, for any number of requests and deliveries and any *)
(* capacity of the channel.                                                *)
(***************************************************************************)
EXTENDS Lifecycle, TLAPS

(* Whether the goroutine of the logger has an event that it has yet to deal with *)
Held == IF writer \in {"checking", "writing"} THEN 1 ELSE 0

(* The events owed are those in the channel and the one taken from it.  The channel
   is closed only while main closes it, and the goroutine stops only when the channel
   is closed and empty: nothing gets into it after that. *)
LoggerInv ==
  /\ queue \in Seq(Levels)
  /\ owed \in Nat
  /\ owed = Len(queue) + Held
  /\ writer \in {"ranging", "checking", "writing", "stopped"}
  /\ closed => main \in {"closing", "ended"}
  /\ writer = "stopped" => closed /\ queue = << >>

(* The process has ended or it has no ending yet; main returns only when the goroutine
   of the logger has stopped; and a panic has one of two reasons. *)
EndInv ==
  /\ DOMAIN delivery = Deliveries
  /\ ending # "none" => main = "ended"
  /\ ending = "returned" => writer = "stopped"
  /\ PanicsExplained

LEMMA EndInit == Init => LoggerInv /\ EndInv
  BY DEF Init, LoggerInv, Held, EndInv, PanicsExplained

(* Log keeps the count: what it puts into the channel is owed. *)
LEMMA LogCounts ==
  ASSUME LoggerInv, ~closed, NEW severity \in Levels, Log(severity)
  PROVE  LoggerInv'
<1>1. CASE Len(queue) < Capacity
  <2>1. queue' = Append(queue, severity) /\ owed' = owed + 1
    BY <1>1 DEF Log
  <2>2. queue' \in Seq(Levels) /\ Len(queue') = Len(queue) + 1
    BY <2>1 DEF LoggerInv
  <2> QED BY <2>1, <2>2 DEF Log, LoggerInv, Held
<1>2. CASE ~(Len(queue) < Capacity)
  BY <1>2 DEF Log, LoggerInv, Held
<1> QED BY <1>1, <1>2

(* What leaves the channel alone keeps the count, wherever main goes. *)
LEMMA ChannelRests ==
  ASSUME LoggerInv, UNCHANGED channel, closed => main' \in {"closing", "ended"}
  PROVE  LoggerInv'
  BY DEF LoggerInv, Held, channel

LEMMA LoggerStep == LoggerInv /\ [Next]_vars => LoggerInv'
<1> SUFFICES ASSUME LoggerInv, [Next]_vars
             PROVE  LoggerInv'
  OBVIOUS
<1> USE DEF Alive
<1>1. CASE Signal \/ BeginShutdown \/ EndShutdown \/ StopChecks
  BY <1>1, ChannelRests
  DEF Signal, BeginShutdown, EndShutdown, StopChecks, logger, LoggerInv
<1>2. CASE Serve \/ ServeFails
  <2>1. ~closed
    BY <1>2 DEF Serve, ServeFails, LoggerInv
  <2>2. Info \in Levels /\ Error \in Levels
    BY LevelAssumption
  <2> QED BY <1>2, <2>1, <2>2, LogCounts DEF Serve, ServeFails
<1>3. CASE ServeReturns \/ Exit \/ Return
  BY <1>3, ChannelRests DEF ServeReturns, Exit, Return, End, logger, LoggerInv
<1>4. CASE Close
  BY <1>4 DEF Close, LoggerInv, Held
<1>5. CASE Take
  <2>1. queue # << >> /\ queue \in Seq(Levels) /\ queue' = Tail(queue)
    BY <1>5 DEF Take, LoggerInv
  <2>2. queue' \in Seq(Levels) /\ Len(queue') = Len(queue) - 1
    BY <2>1
  <2> QED BY <1>5, <2>1, <2>2 DEF Take, elsewhere, LoggerInv, Held
<1>6. CASE Skip \/ Keep \/ Write \/ Stop
  BY <1>6 DEF Skip, Keep, Write, Stop, elsewhere, LoggerInv, Held
<1>7. ASSUME NEW r \in Requests, Accept(r) \/ Answer(r)
      PROVE  LoggerInv'
  BY <1>7, ChannelRests DEF Accept, Answer, logger, LoggerInv
<1>8. ASSUME NEW r \in Requests, NEW severity \in Levels, LogRequest(r, severity)
      PROVE  LoggerInv'
  <2>1. main' = main
    BY <1>8 DEF LogRequest
  <2>2. CASE closed
    BY <1>8, <2>1, <2>2, ChannelRests DEF LogRequest, logger, LoggerInv
  <2>3. CASE ~closed
    BY <1>8, <2>3, LogCounts DEF LogRequest
  <2> QED BY <2>2, <2>3
<1>9. ASSUME NEW g \in Deliveries, NEW l, Deliver(g, l)
      PROVE  LoggerInv'
  BY <1>9, ChannelRests DEF Deliver, LoggerInv
<1>10. ASSUME NEW g \in Deliveries, LogRefusal(g)
       PROVE  LoggerInv'
  <2>1. CASE closed
    BY <1>10, <2>1, ChannelRests DEF LogRefusal, End, logger
  <2>2. CASE ~closed
    BY <1>10, <2>2, LevelAssumption, LogCounts DEF LogRefusal
  <2> QED BY <2>1, <2>2
<1>11. CASE StartChecks
  BY <1>11, ChannelRests DEF StartChecks, End, logger, LoggerInv
<1>12. CASE UNCHANGED vars
  BY <1>12, ChannelRests DEF vars, logger, LoggerInv
<1> QED BY <1>1, <1>2, <1>3, <1>4, <1>5, <1>6, <1>7, <1>8, <1>9, <1>10, <1>11, <1>12 DEF Next

(* A step of a process that has not ended, and that does not end it *)
LEMMA GoesOn ==
  ASSUME EndInv, main # "ended", UNCHANGED ending, DOMAIN delivery' = Deliveries
  PROVE  EndInv'
  BY DEF EndInv, PanicsExplained

LEMMA EndStep == EndInv /\ [Next]_vars => EndInv'
<1> SUFFICES ASSUME EndInv, [Next]_vars
             PROVE  EndInv'
  OBVIOUS
<1> USE DEF Alive
<1>1. CASE Signal \/ BeginShutdown \/ EndShutdown \/ StopChecks
  BY <1>1, GoesOn DEF Signal, BeginShutdown, EndShutdown, StopChecks, EndInv
<1>2. CASE Serve \/ ServeReturns \/ ServeFails \/ Close
  BY <1>2, GoesOn DEF Serve, ServeReturns, ServeFails, Close, EndInv
<1>3. CASE Take \/ Skip \/ Keep \/ Write \/ Stop
  BY <1>3, GoesOn DEF Take, Skip, Keep, Write, Stop, elsewhere, EndInv
<1>4. CASE Exit
  BY <1>4 DEF Exit, End, EndInv, PanicsExplained, checking, logger
(* main returns after the goroutine of the logger. *)
<1>5. CASE Return
  BY <1>5 DEF Return, End, EndInv, PanicsExplained, checking, logger, channel
<1>6. ASSUME NEW r \in Requests, Accept(r) \/ Answer(r)
      PROVE  EndInv'
  BY <1>6, GoesOn DEF Accept, Answer, EndInv
<1>7. ASSUME NEW r \in Requests, NEW severity, LogRequest(r, severity)
      PROVE  EndInv'
  BY <1>7, GoesOn DEF LogRequest, EndInv
<1>8. ASSUME NEW g \in Deliveries, NEW l, Deliver(g, l)
      PROVE  EndInv'
  BY <1>8, GoesOn DEF Deliver, EndInv
(* A delivery that logs after Close ends the process. *)
<1>9. ASSUME NEW g \in Deliveries, LogRefusal(g)
      PROVE  EndInv'
  <2>1. /\ main # "ended"
        /\ delivery' = [delivery EXCEPT ![g] = IF closed THEN "panicked" ELSE "done"]
    BY <1>9 DEF LogRefusal
  <2>2. DOMAIN delivery' = Deliveries /\ delivery'[g] = IF closed THEN "panicked" ELSE "done"
    BY <2>1 DEF EndInv
  <2>3. CASE closed
    <3>1. ending' = "panic" /\ main' = "ended" /\ closed'
      BY <1>9, <2>3 DEF LogRefusal, End, logger, channel
    <3> QED BY <2>2, <2>3, <3>1 DEF EndInv, PanicsExplained
  <2>4. CASE ~closed
    BY <1>9, <2>1, <2>2, <2>4, GoesOn DEF LogRefusal
  <2> QED BY <2>3, <2>4
(* So does the ticker of the checks. *)
<1>10. CASE StartChecks
  <2>1. CASE interval <= 0
    BY <1>10, <2>1 DEF StartChecks, End, EndInv, PanicsExplained, logger
  <2>2. CASE ~(interval <= 0)
    BY <1>10, <2>2, GoesOn DEF StartChecks, EndInv
  <2> QED BY <2>1, <2>2
<1>11. CASE UNCHANGED vars
  BY <1>11 DEF vars, checking, logger, channel, EndInv, PanicsExplained
<1> QED BY <1>1, <1>2, <1>3, <1>4, <1>5, <1>6, <1>7, <1>8, <1>9, <1>10, <1>11 DEF Next

(* The inductive invariant that the theorems rest on *)
THEOREM EndCorrect == Spec => [](LoggerInv /\ EndInv)
<1>1. LoggerInv /\ EndInv /\ [Next]_vars => LoggerInv' /\ EndInv'
  BY LoggerStep, EndStep
<1> QED BY EndInit, <1>1, PTL DEF Spec

(* Every event that Log has put into the channel is written or passed over before main
   returns: the goroutine has stopped then, so none is in the channel and none taken. *)
THEOREM NothingLost == Spec => []NothingLostOnReturn
<1>1. LoggerInv /\ EndInv => NothingLostOnReturn
  BY DEF LoggerInv, EndInv, Held, NothingLostOnReturn
<1> QED BY <1>1, EndCorrect, PTL

(* Only a delivery refused after Close, or an interval that is not positive, ends the
   process by a panic: requests never do, however many log after Close. *)
THEOREM PanicsCorrect == Spec => []PanicsExplained
<1>1. EndInv => PanicsExplained
  BY DEF EndInv
<1> QED BY <1>1, EndCorrect, PTL
===============================================================================
