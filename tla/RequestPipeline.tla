--------------------------- MODULE RequestPipeline ---------------------------
(***************************************************************************)
(* The way of a request through the middlewares (internal/server):         *)
(* recovery, CORS, telemetry, access, rate limit and the handler, and back *)
(* through telemetry, which lowers the gauge, returns the lease and        *)
(* records the request.  Requests share the RateLimiter and the            *)
(* Observability, whose state is theirs; a request keeps its lease and its *)
(* flags in its context.                                                   *)
(*                                                                         *)
(* A request is in a stage:                                                *)
(*   new       not arrived                                                 *)
(*   preflight answered by CORS before telemetry saw it                    *)
(*   entered   counted in the gauge, before the access check               *)
(*   admitted  past the access check: on its way through the limiter, or,  *)
(*             with a lease, in the handler                                *)
(*   answered  the handlers have returned to telemetry                     *)
(*   left      no longer counted in the gauge                              *)
(*   settled   its lease, if it has one, is returned                       *)
(*   done      recorded                                                    *)
(*   panicked  the handler has panicked                                    *)
(* The access decision is any: AccessService has how it comes about.  So   *)
(* are the handler's answers: ProxyForward has those of the proxy.  A      *)
(* panic skips all that telemetry does afterwards.                         *)
(***************************************************************************)
EXTENDS RateLimiter

CONSTANTS
  Minute,            \* see Observability
  MetricsChoices,    \* settings of the metrics the configuration may hold
  Declared,          \* request -> its ContentLength, -1 when that is unknown
  Answers            \* what handlers may answer: a status, whether Forward has
                     \* succeeded, the size, -1 when nothing is written, and how
                     \* much of the request's body they have read for it

ASSUME RequestAssumption ==
  /\ Declared \in [Ids -> Int] /\ 0 \in Uploads
  /\ \A id \in Ids : Declared[id] >= 0 => Declared[id] \in Uploads

ASSUME AnswerAssumption ==
  \A reply \in Answers :
    /\ reply.status \in Nat /\ reply.forwarded \in BOOLEAN
    /\ reply.size \in Downloads /\ reply.read \in Uploads

ASSUME MetricsAssumption ==
  /\ Minute \in Nat \ {0}
  /\ \A s \in MetricsChoices : s.maxLogs \in Int /\ s.maxBuckets \in Int

VARIABLES
  metrics,
  stage,
  startedAt, \* request -> the time telemetry read
  answer     \* request -> the answer it has got

Metrics == INSTANCE Observability

pipelineVars == <<vars, metrics, stage, startedAt, answer>>

NoAnswer == [status |-> 0, forwarded |-> FALSE, size |-> -1, read |-> 0, blocked |-> FALSE]

Blocked(status) ==
  [status |-> status, forwarded |-> FALSE, size |-> 1, read |-> 0, blocked |-> TRUE]

Served(reply) ==
  [status |-> reply.status, forwarded |-> reply.forwarded, size |-> reply.size,
   read |-> reply.read, blocked |-> FALSE]

(* net/http ends a body at the length declared and fails one that is cut short, which
   the handler answers itself: only a request whose body was read whole is forwarded. *)
Readable(id, reply) ==
  Declared[id] >= 0 =>
    /\ reply.read <= Declared[id]
    /\ reply.forwarded => reply.read = Declared[id]

(* Request bodies of unknown length are not counted in advance. *)
UploadHint(id) == IF Declared[id] >= 0 THEN Declared[id] ELSE 0

\* Faulty variant of RequestSize: what was announced counts, not what was read.
RequestSizeDeclared(id) == UploadHint(id)

(* What telemetry takes for the size of the request: the handler has said, or it
   falls back on the length declared. *)
RequestSize(id) == IF answer[id].forwarded THEN answer[id].read ELSE UploadHint(id)

EventOf(id) ==
  [timestamp |-> startedAt[id], client |-> IpOf[id], status |-> answer[id].status,
   blocked |-> answer[id].blocked, requestBytes |-> RequestSize(id),
   responseBytes |-> answer[id].size]

To(id, next) == stage' = [stage EXCEPT ![id] = next]

-------------------------------------------------------------------------------
PipelineInit ==
  /\ Init
  /\ metrics \in {Metrics!NewObservability(s) : s \in MetricsChoices}
  /\ stage = [id \in Ids |-> "new"]
  /\ startedAt = [id \in Ids |-> Never]
  /\ answer = [id \in Ids |-> NoAnswer]

ClockTicks ==
  /\ Tick
  /\ UNCHANGED <<metrics, stage, startedAt, answer>>

(* Two of the calls applyRuntimeConfig makes *)
UpdateMetrics(s) ==
  /\ Metrics!UpdateSettings(s)
  /\ UNCHANGED <<vars, stage, startedAt, answer>>

UpdateLimits(s) ==
  /\ UpdateSettings(s)
  /\ UNCHANGED <<metrics, stage, startedAt, answer>>

(* CorsMiddleware answers OPTIONS itself. *)
Preflight(id) ==
  /\ stage[id] = "new"
  /\ To(id, "preflight")
  /\ UNCHANGED <<vars, metrics, startedAt, answer>>

(* TelemetryMiddleware up to c.Next *)
Enter(id) ==
  /\ stage[id] = "new"
  /\ To(id, "entered")
  /\ startedAt' = [startedAt EXCEPT ![id] = now]
  /\ Metrics!IncActive
  /\ UNCHANGED <<vars, answer>>

Deny(id) ==
  /\ stage[id] = "entered"
  /\ To(id, "answered")
  /\ answer' = [answer EXCEPT ![id] = Blocked(403)]
  /\ UNCHANGED <<vars, metrics, startedAt>>

(* The access check lets the request pass, and RateLimitMiddleware reads the clock. *)
Admit(id) ==
  /\ stage[id] = "entered"
  /\ To(id, "admitted")
  /\ ReadClock(id)
  /\ UNCHANGED <<metrics, startedAt, answer>>

\* Faulty variant of Reject: the request is ended at once.
RejectAtOnce(id) ==
  /\ stage[id] = "admitted"
  /\ AcquireRejected(id, UploadHint(id))
  /\ To(id, "done")
  /\ answer' = [answer EXCEPT ![id] = Blocked(429)]
  /\ UNCHANGED <<metrics, startedAt>>

Reject(id) ==
  /\ stage[id] = "admitted"
  /\ AcquireRejected(id, UploadHint(id))
  /\ To(id, "answered")
  /\ answer' = [answer EXCEPT ![id] = Blocked(429)]
  /\ UNCHANGED <<metrics, startedAt>>

Grant(id) ==
  /\ stage[id] = "admitted"
  /\ AcquireGranted(id, UploadHint(id))
  /\ UNCHANGED <<metrics, stage, startedAt, answer>>

(* The handler answers, for which it may have read the body, a part of it or nothing. *)
Handle(id, reply) ==
  /\ stage[id] = "admitted" /\ phase[id] = "held"
  /\ Readable(id, reply)
  /\ To(id, "answered")
  /\ answer' = [answer EXCEPT ![id] = Served(reply)]
  /\ UNCHANGED <<vars, metrics, startedAt>>

(* The handler panics.  gin.Recovery answers 500, and no code of TelemetryMiddleware
   runs any more. *)
Panic(id) ==
  /\ stage[id] = "admitted" /\ phase[id] = "held"
  /\ To(id, "panicked")
  /\ UNCHANGED <<vars, metrics, startedAt, answer>>

\* Faulty variant of Leave: a blocked request is not taken out of the gauge.
LeaveUnblocked(id) ==
  /\ stage[id] = "answered"
  /\ To(id, "left")
  /\ IF answer[id].blocked THEN UNCHANGED metrics ELSE Metrics!DecActive
  /\ UNCHANGED <<vars, startedAt, answer>>

Leave(id) ==
  /\ stage[id] = "answered"
  /\ To(id, "left")
  /\ Metrics!DecActive
  /\ UNCHANGED <<vars, startedAt, answer>>

\* Faulty variant of ReturnLease: only the lease of a request that was served is returned.
ReturnServed(id) ==
  /\ stage[id] = "left"
  /\ To(id, "settled")
  /\ IF phase[id] = "held" /\ answer[id].status < 500
     THEN Release(id, RequestSize(id), answer[id].size)
     ELSE UNCHANGED vars
  /\ UNCHANGED <<metrics, startedAt, answer>>

ReturnLease(id) ==
  /\ stage[id] = "left"
  /\ To(id, "settled")
  /\ IF phase[id] = "held"
     THEN Release(id, RequestSize(id), answer[id].size)
     ELSE UNCHANGED vars
  /\ UNCHANGED <<metrics, startedAt, answer>>

Record(id) ==
  /\ stage[id] = "settled"
  /\ To(id, "done")
  /\ Metrics!Record(EventOf(id))
  /\ UNCHANGED <<vars, startedAt, answer>>

PipelineNext ==
  \/ ClockTicks
  \/ \E s \in MetricsChoices : UpdateMetrics(s)
  \/ \E s \in SettingsChoices : UpdateLimits(s)
  \/ \E id \in Ids :
       \/ Preflight(id) \/ Enter(id)
       \/ Deny(id) \/ Admit(id) \/ Reject(id) \/ Grant(id)
       \/ Panic(id)
       \/ Leave(id) \/ ReturnLease(id) \/ Record(id)
  \/ \E id \in Ids, reply \in Answers : Handle(id, reply)

PipelineSpec == PipelineInit /\ [][PipelineNext]_pipelineVars

-------------------------------------------------------------------------------
Stages ==
  {"new", "preflight", "entered", "admitted", "answered", "left", "settled", "done",
   "panicked"}

(* The stage of a request fits its phase at the limiter. *)
Fits(id) ==
  /\ stage[id] \in {"new", "preflight", "entered"} => phase[id] = "idle"
  /\ stage[id] = "admitted" => phase[id] \in {"stamped", "held"}
  /\ stage[id] \in {"answered", "left"} => phase[id] \in {"idle", "rejected", "held"}
  /\ stage[id] \in {"settled", "done"} => phase[id] \in {"idle", "rejected", "released"}
  /\ stage[id] = "panicked" => phase[id] = "held"
  /\ lease[id] # {} => phase[id] \in {"held", "released"}
  /\ stage[id] \in {"answered", "left"} /\ phase[id] = "held" =>
       \E reply \in Answers : answer[id] = Served(reply)

(* The types: what holds a lease has had it granted, has not settled and has a
   handler's answer, if any. *)
PipelineTypeOK ==
  /\ Metrics!TypeOK
  /\ stage \in [Ids -> Stages]
  /\ startedAt \in [Ids -> Times]
  /\ DOMAIN answer = Ids
  /\ \A id \in Ids : Fits(id)

InTelemetry == {id \in Ids : stage[id] \in {"entered", "admitted", "answered"}}

Panicked == {id \in Ids : stage[id] = "panicked"}

(* The gauge of active connections counts the requests inside telemetry, blocked ones
   included, and beyond them exactly those whose handler has panicked, for ever. *)
GaugeExact == metrics.active = Cardinality(InTelemetry \union Panicked)

(* The requests whose lease on x telemetry has still to return or, after a panic,
   never will *)
Owing(x) ==
  {id \in Ids : x \in lease[id] /\ stage[id] \in {"admitted", "answered", "left", "panicked"}}

(* A client's or a subnet's active connections are its requests between the limiter
   and telemetry's return, and exactly the panicked ones beyond them. *)
LeasesExact ==
  \A x \in Keys :
    Cardinality(Owing(x)) = IF x \in DOMAIN states THEN states[x].active ELSE 0
===============================================================================
