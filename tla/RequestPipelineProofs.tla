------------------------ MODULE RequestPipelineProofs ------------------------
(***************************************************************************)
(* Proofs about RequestPipeline and PipelineHistory.  Every step of the    *)
(* pipeline is a step of the RateLimiter or leaves it alone, so what       *)
(* RateLimiterProofs shows of the limiter holds in the pipeline; the type  *)
(* invariant says which requests hold a lease.  A step is a Record or      *)
(* keeps what the metrics have of the requests (Kept): the second part     *)
(* shows for each part of RecordsInv what these two do to it.              *)
(***************************************************************************)
EXTENDS PipelineHistory, RateLimiterProofs, FiniteSums

LEMMA HintType == \A id \in Ids : UploadHint(id) \in Uploads
  BY RequestAssumption, SMT DEF UploadHint

LEMMA SizeType ==
  ASSUME NEW id \in Ids, answer[id].read \in Uploads
  PROVE  RequestSize(id) \in Uploads
  BY HintType DEF RequestSize

LEMMA NewType ==
  ASSUME NEW s \in MetricsChoices, metrics = Metrics!NewObservability(s)
  PROVE  Metrics!TypeOK /\ metrics.active = 0
  BY MetricsAssumption, SMT DEF Metrics!TypeOK, Metrics!NewObservability

LEMMA PipelineTypeInit == PipelineInit => PipelineTypeOK
  <1> SUFFICES ASSUME PipelineInit PROVE PipelineTypeOK
    OBVIOUS
  <1>1. Metrics!TypeOK
    BY NewType DEF PipelineInit
  <1>2. QED
    BY <1>1 DEF PipelineInit, Init, PipelineTypeOK, Fits, Stages, Times, Never

(* What the operations of the metrics do to the gauge *)
LEMMA MetricsUpdate ==
  ASSUME Metrics!TypeOK, NEW s \in MetricsChoices, Metrics!UpdateSettings(s)
  PROVE  Metrics!TypeOK' /\ metrics'.active = metrics.active
  BY MetricsAssumption, SMT DEF Metrics!TypeOK, Metrics!UpdateSettings

LEMMA MetricsInc ==
  ASSUME Metrics!TypeOK, Metrics!IncActive
  PROVE  Metrics!TypeOK' /\ metrics'.active = metrics.active + 1
  BY SMT DEF Metrics!TypeOK, Metrics!IncActive

LEMMA MetricsDec ==
  ASSUME Metrics!TypeOK, Metrics!DecActive
  PROVE  Metrics!TypeOK' /\ metrics'.active = metrics.active - 1
  BY SMT DEF Metrics!TypeOK, Metrics!DecActive

LEMMA MetricsRecord ==
  ASSUME Metrics!TypeOK, NEW event, Metrics!Record(event)
  PROVE  Metrics!TypeOK' /\ metrics'.active = metrics.active
  BY SMT DEF Metrics!TypeOK, Metrics!Record

LEMMA MetricsSame ==
  ASSUME Metrics!TypeOK, UNCHANGED metrics
  PROVE  Metrics!TypeOK' /\ metrics'.active = metrics.active
  BY DEF Metrics!TypeOK

LEMMA FitsSame ==
  ASSUME NEW id \in Ids, Fits(id), stage'[id] = stage[id], phase'[id] = phase[id],
         lease'[id] = lease[id], answer'[id] = answer[id]
  PROVE  Fits(id)'
  BY DEF Fits

(* A step of one request keeps the types when that request fits afterwards. *)
LEMMA OneRequest ==
  ASSUME TypeOK, PipelineTypeOK, Metrics!TypeOK', NEW id \in Ids,
         stage' \in [Ids -> Stages], startedAt' \in [Ids -> Times], DOMAIN answer' = Ids,
         Fits(id)',
         \A other \in Ids \ {id} :
           /\ stage'[other] = stage[other] /\ phase'[other] = phase[other]
           /\ lease'[other] = lease[other] /\ answer'[other] = answer[other]
  PROVE  PipelineTypeOK'
  <1>1. \A other \in Ids \ {id} : Fits(other)'
    BY FitsSame DEF PipelineTypeOK
  <1> QED
    BY <1>1 DEF PipelineTypeOK

LEMMA PipelineTypeStep ==
  TypeOK /\ PipelineTypeOK /\ [PipelineNext]_pipelineVars => PipelineTypeOK'
  <1> SUFFICES ASSUME TypeOK, PipelineTypeOK, [PipelineNext]_pipelineVars
               PROVE  PipelineTypeOK'
    OBVIOUS
  <1> USE DEF Stages, To
  <1>0. /\ Metrics!TypeOK /\ stage \in [Ids -> Stages] /\ DOMAIN answer = Ids
        /\ startedAt \in [Ids -> Times] /\ now \in Times
        /\ phase \in [Ids -> {"idle", "stamped", "held", "rejected", "released"}]
        /\ lease \in [Ids -> SUBSET Keys]
        /\ \A id \in Ids : Fits(id)
    BY DEF PipelineTypeOK, TypeOK, Times
  <1>1. CASE UNCHANGED pipelineVars
    BY <1>0, <1>1, MetricsSame, FitsSame DEF PipelineTypeOK, pipelineVars, vars
  <1>2. CASE ClockTicks
    BY <1>0, <1>2, MetricsSame, FitsSame DEF PipelineTypeOK, ClockTicks, Tick
  <1>3. ASSUME NEW s \in MetricsChoices, UpdateMetrics(s) PROVE PipelineTypeOK'
    BY <1>0, <1>3, MetricsUpdate, FitsSame DEF PipelineTypeOK, UpdateMetrics, vars
  <1>4. ASSUME NEW s \in SettingsChoices, UpdateLimits(s) PROVE PipelineTypeOK'
    BY <1>0, <1>4, MetricsSame, FitsSame DEF PipelineTypeOK, UpdateLimits, UpdateSettings
  <1>5. ASSUME NEW id \in Ids, Preflight(id) PROVE PipelineTypeOK'
    <2>1. Fits(id)'
      BY <1>0, <1>5 DEF Fits, Preflight, vars
    <2> QED
      BY <1>0, <1>5, <2>1, MetricsSame, OneRequest DEF Preflight, vars
  <1>6. ASSUME NEW id \in Ids, Enter(id) PROVE PipelineTypeOK'
    <2>1. Fits(id)'
      BY <1>0, <1>6 DEF Fits, Enter, vars
    <2>2. Metrics!TypeOK'
      BY <1>0, <1>6, MetricsInc DEF Enter
    <2> QED
      BY <1>0, <1>6, <2>1, <2>2, OneRequest DEF Enter, vars
  <1>7. ASSUME NEW id \in Ids, Deny(id) PROVE PipelineTypeOK'
    <2>1. Fits(id)'
      BY <1>0, <1>7 DEF Fits, Deny, vars
    <2> QED
      BY <1>0, <1>7, <2>1, MetricsSame, OneRequest DEF Deny, vars
  <1>8. ASSUME NEW id \in Ids, Admit(id) PROVE PipelineTypeOK'
    <2>1. Fits(id)'
      BY <1>0, <1>8 DEF Fits, Admit, ReadClock
    <2> QED
      BY <1>0, <1>8, <2>1, MetricsSame, OneRequest DEF Admit, ReadClock
  <1>9. ASSUME NEW id \in Ids, Reject(id) PROVE PipelineTypeOK'
    <2>1. Fits(id)'
      BY <1>0, <1>9 DEF Fits, Reject, AcquireRejected
    <2> QED
      BY <1>0, <1>9, <2>1, MetricsSame, OneRequest DEF Reject, AcquireRejected
  <1>10. ASSUME NEW id \in Ids, Grant(id) PROVE PipelineTypeOK'
    <2>1. Fits(id)'
      BY <1>0, <1>10 DEF Fits, Grant, AcquireGranted
    <2> QED
      BY <1>0, <1>10, <2>1, MetricsSame, OneRequest DEF Grant, AcquireGranted
  <1>11. ASSUME NEW id \in Ids, NEW reply \in Answers, Handle(id, reply)
         PROVE  PipelineTypeOK'
    <2>1. Fits(id)'
      BY <1>0, <1>11 DEF Fits, Handle, vars
    <2> QED
      BY <1>0, <1>11, <2>1, MetricsSame, OneRequest DEF Handle, vars
  <1>12. ASSUME NEW id \in Ids, Panic(id) PROVE PipelineTypeOK'
    <2>1. Fits(id)'
      BY <1>0, <1>12 DEF Fits, Panic, vars
    <2> QED
      BY <1>0, <1>12, <2>1, MetricsSame, OneRequest DEF Panic, vars
  <1>13. ASSUME NEW id \in Ids, Leave(id) PROVE PipelineTypeOK'
    <2>1. Fits(id)'
      BY <1>0, <1>13 DEF Fits, Leave, vars
    <2>2. Metrics!TypeOK'
      BY <1>0, <1>13, MetricsDec DEF Leave
    <2> QED
      BY <1>0, <1>13, <2>1, <2>2, OneRequest DEF Leave, vars
  <1>14. ASSUME NEW id \in Ids, ReturnLease(id) PROVE PipelineTypeOK'
    <2>1. Fits(id)'
      BY <1>0, <1>14 DEF Fits, ReturnLease, Release, vars
    <2> QED
      BY <1>0, <1>14, <2>1, MetricsSame, OneRequest DEF ReturnLease, Release, vars
  <1>15. ASSUME NEW id \in Ids, Record(id) PROVE PipelineTypeOK'
    <2>1. Fits(id)'
      BY <1>0, <1>15 DEF Fits, Record, vars
    <2>2. Metrics!TypeOK'
      BY <1>0, <1>15, MetricsRecord DEF Record
    <2> QED
      BY <1>0, <1>15, <2>1, <2>2, OneRequest DEF Record, vars
  <1> QED
    BY <1>1, <1>2, <1>3, <1>4, <1>5, <1>6, <1>7, <1>8, <1>9, <1>10, <1>11, <1>12, <1>13,
       <1>14, <1>15 DEF PipelineNext

LEMMA TakesLimiterStep == PipelineTypeOK /\ [PipelineNext]_pipelineVars => [Next]_vars
  <1> SUFFICES ASSUME PipelineTypeOK, [PipelineNext]_pipelineVars, ~UNCHANGED vars
               PROVE  Next
    OBVIOUS
  <1>1. CASE ClockTicks
    BY <1>1 DEF ClockTicks, Next
  <1>2. ASSUME NEW s \in SettingsChoices, UpdateLimits(s) PROVE Next
    BY <1>2 DEF UpdateLimits, Next
  <1>3. ASSUME NEW id \in Ids, Admit(id) PROVE Next
    BY <1>3 DEF Admit, Next
  <1>4. ASSUME NEW id \in Ids, Reject(id) PROVE Next
    BY <1>4, HintType DEF Reject, Next
  <1>5. ASSUME NEW id \in Ids, Grant(id) PROVE Next
    BY <1>5, HintType DEF Grant, Next
  <1>6. ASSUME NEW id \in Ids, ReturnLease(id) PROVE Next
    <2>1. phase[id] = "held" /\ Release(id, RequestSize(id), answer[id].size)
      BY <1>6 DEF ReturnLease
    <2>2. PICK reply \in Answers : answer[id] = Served(reply)
      BY <1>6, <2>1 DEF ReturnLease, PipelineTypeOK, Fits
    <2>3. answer[id].size \in Downloads /\ answer[id].read \in Uploads
      BY <2>2, AnswerAssumption DEF Served
    <2> QED
      BY <2>1, <2>3, SizeType DEF Next
  <1> QED
    BY <1>1, <1>2, <1>3, <1>4, <1>5, <1>6
    DEF PipelineNext, pipelineVars, UpdateMetrics, Preflight, Enter, Deny, Handle, Panic,
        Leave, Record

(* The pipeline takes only steps that RateLimiter allows, and returns every lease at
   most once and with sizes a request may have: what is proved of the limiter holds
   of the limiter in the pipeline. *)
THEOREM PipelineUsesLimiter == PipelineSpec => Spec /\ []PipelineTypeOK
  <1>1. PipelineInit => Init /\ TypeOK /\ PipelineTypeOK
    BY PipelineTypeInit, TypeInit DEF PipelineInit
  <1>2. TypeOK /\ PipelineTypeOK /\ [PipelineNext]_pipelineVars =>
          TypeOK' /\ PipelineTypeOK' /\ [Next]_vars
    BY PipelineTypeStep, TakesLimiterStep, TypeStep
  <1> QED
    BY <1>1, <1>2, PTL DEF PipelineSpec, Spec

(* Concurrency limits are kept in the pipeline, panicked handlers included. *)
THEOREM PipelineConcurrency == PipelineSpec => GrantsWithinConcurrency
  BY PipelineUsesLimiter, ConcurrencyRespected, PTL

LEMMA OwingHold ==
  ASSUME PipelineTypeOK, NEW x
  PROVE  Owing(x) = Holders(x)
  <1>1. \A id \in Ids : Fits(id) /\ stage[id] \in Stages
    BY DEF PipelineTypeOK
  <1>2. \A id \in Ids : id \in Owing(x) <=> id \in Holders(x)
    BY <1>1 DEF Owing, Holders, Fits, Stages
  <1> QED
    BY <1>2 DEF Owing, Holders

(* A key's active connections are the requests between the limiter and telemetry's
   return of the lease and, for ever, those whose handler panicked. *)
THEOREM LeasesCorrect == PipelineSpec => []LeasesExact
  <1>1. PipelineTypeOK /\ ActiveExact => LeasesExact
    BY OwingHold DEF ActiveExact, LeasesExact
  <1> QED
    BY <1>1, PipelineUsesLimiter, ActiveCorrect, PTL

-------------------------------------------------------------------------------
Counted == InTelemetry \union Panicked

LEMMA GaugeInit == PipelineInit => GaugeExact
  <1> SUFFICES ASSUME PipelineInit PROVE GaugeExact
    OBVIOUS
  <1>1. metrics.active = 0
    BY NewType DEF PipelineInit
  <1>2. InTelemetry \union Panicked = {}
    BY DEF PipelineInit, InTelemetry, Panicked
  <1> QED
    BY <1>1, <1>2, FS_EmptySet DEF GaugeExact

(* The requests counted change by one exactly when the gauge does. *)
LEMMA GaugeStep ==
  PipelineTypeOK /\ GaugeExact /\ [PipelineNext]_pipelineVars => GaugeExact'
  <1> SUFFICES ASSUME PipelineTypeOK, GaugeExact, [PipelineNext]_pipelineVars
               PROVE  GaugeExact'
    OBVIOUS
  <1> USE DEF To, Stages
  <1>0. /\ Metrics!TypeOK /\ stage \in [Ids -> Stages] /\ metrics.active \in Int
        /\ metrics.active = Cardinality(Counted)
    BY DEF PipelineTypeOK, Metrics!TypeOK, GaugeExact, Counted
  <1>1. Counted \subseteq Ids /\ IsFiniteSet(Counted)
    BY KeyAssumption, FS_Subset DEF Counted, InTelemetry, Panicked
  <1>2. CASE metrics'.active = metrics.active /\ Counted' = Counted
    BY <1>0, <1>2 DEF GaugeExact, Counted
  <1>3. ASSUME NEW id \in Ids, Enter(id) PROVE GaugeExact'
    <2>1. metrics'.active = metrics.active + 1
      BY <1>0, <1>3, MetricsInc DEF Enter
    <2>2. Counted' = Counted \union {id} /\ id \notin Counted
      BY <1>0, <1>3 DEF Enter, Counted, InTelemetry, Panicked
    <2> QED
      BY <1>0, <1>1, <2>1, <2>2, FS_AddElement DEF GaugeExact, Counted
  <1>4. ASSUME NEW id \in Ids, Leave(id) PROVE GaugeExact'
    <2>1. metrics'.active = metrics.active - 1
      BY <1>0, <1>4, MetricsDec DEF Leave
    <2>2. Counted' = Counted \ {id} /\ id \in Counted
      BY <1>0, <1>4 DEF Leave, Counted, InTelemetry, Panicked
    <2> QED
      BY <1>0, <1>1, <2>1, <2>2, FS_RemoveElement DEF GaugeExact, Counted
  <1>5. ASSUME UNCHANGED metrics, UNCHANGED stage PROVE GaugeExact'
    BY <1>2, <1>5 DEF Counted, InTelemetry, Panicked
  <1>6. ASSUME NEW id \in Ids, Preflight(id)
         PROVE  metrics'.active = metrics.active /\ Counted' = Counted
    BY <1>0, <1>6 DEF Preflight, Counted, InTelemetry, Panicked
  <1>7. ASSUME NEW id \in Ids, Deny(id)
         PROVE  metrics'.active = metrics.active /\ Counted' = Counted
    BY <1>0, <1>7 DEF Deny, Counted, InTelemetry, Panicked
  <1>8. ASSUME NEW id \in Ids, Admit(id)
         PROVE  metrics'.active = metrics.active /\ Counted' = Counted
    BY <1>0, <1>8 DEF Admit, Counted, InTelemetry, Panicked
  <1>9. ASSUME NEW id \in Ids, Reject(id)
         PROVE  metrics'.active = metrics.active /\ Counted' = Counted
    BY <1>0, <1>9 DEF Reject, Counted, InTelemetry, Panicked
  <1>10. ASSUME NEW id \in Ids, NEW reply \in Answers, Handle(id, reply)
         PROVE  metrics'.active = metrics.active /\ Counted' = Counted
    BY <1>0, <1>10 DEF Handle, Counted, InTelemetry, Panicked
  <1>11. ASSUME NEW id \in Ids, Panic(id)
         PROVE  metrics'.active = metrics.active /\ Counted' = Counted
    BY <1>0, <1>11 DEF Panic, Counted, InTelemetry, Panicked
  <1>12. ASSUME NEW id \in Ids, ReturnLease(id)
         PROVE  metrics'.active = metrics.active /\ Counted' = Counted
    BY <1>0, <1>12 DEF ReturnLease, Counted, InTelemetry, Panicked
  <1>13. ASSUME NEW id \in Ids, Record(id)
         PROVE  metrics'.active = metrics.active /\ Counted' = Counted
    BY <1>0, <1>13, MetricsRecord DEF Record, Counted, InTelemetry, Panicked
  <1>14. ASSUME NEW s \in MetricsChoices, UpdateMetrics(s)
         PROVE  metrics'.active = metrics.active /\ Counted' = Counted
    BY <1>0, <1>14, MetricsUpdate DEF UpdateMetrics, Counted, InTelemetry, Panicked
  <1>15. CASE UNCHANGED pipelineVars \/ ClockTicks
    BY <1>5, <1>15 DEF ClockTicks, pipelineVars
  <1>16. ASSUME NEW s \in SettingsChoices, UpdateLimits(s) PROVE GaugeExact'
    BY <1>5, <1>16 DEF UpdateLimits
  <1>17. ASSUME NEW id \in Ids, Grant(id) PROVE GaugeExact'
    BY <1>5, <1>17 DEF Grant
  <1> QED
    BY <1>2, <1>3, <1>4, <1>6, <1>7, <1>8, <1>9, <1>10, <1>11, <1>12, <1>13, <1>14,
       <1>15, <1>16, <1>17 DEF PipelineNext

(* The gauge never loses a request: it is above the requests inside telemetry by
   exactly those whose handler has panicked. *)
THEOREM GaugeCorrect == PipelineSpec => []GaugeExact
  BY GaugeInit, GaugeStep, PipelineUsesLimiter, PTL DEF PipelineSpec
-------------------------------------------------------------------------------
(* What a request has for an answer *)
Sensible(a) ==
  /\ a.status \in Nat /\ a.size \in Int /\ a.size >= -1 /\ a.read \in Uploads
  /\ a.blocked => a.status >= 400

AnswersOK == \A id \in Ids : Sensible(answer[id]) /\ Readable(id, answer[id])

LEMMA BlockedSensible ==
  ASSUME NEW a \in {NoAnswer, Blocked(403), Blocked(429)}
  PROVE  Sensible(a) /\ \A id \in Ids : Readable(id, a)
<1>1. a.read = 0 /\ ~a.forwarded /\ a.size \in {-1, 1} /\ a.status \in {0, 403, 429}
  BY DEF NoAnswer, Blocked
<1>2. a.blocked => a.status >= 400
  BY DEF NoAnswer, Blocked
<1> QED BY <1>1, <1>2, RequestAssumption DEF Sensible, Readable

LEMMA ServedSensible ==
  ASSUME NEW reply \in Answers
  PROVE  /\ Sensible(Served(reply))
         /\ \A id \in Ids : Readable(id, reply) => Readable(id, Served(reply))
<1>1. /\ reply.status \in Nat /\ reply.size \in Int /\ reply.size >= -1
      /\ reply.read \in Uploads
  BY AnswerAssumption, WrittenAssumption, SizeAssumption
<1> QED BY <1>1 DEF Sensible, Readable, Served

LEMMA AnswersInit == PipelineInit => AnswersOK
  BY BlockedSensible DEF PipelineInit, AnswersOK

LEMMA AnswersStep ==
  PipelineTypeOK /\ AnswersOK /\ [PipelineNext]_pipelineVars => AnswersOK'
<1> SUFFICES ASSUME PipelineTypeOK, AnswersOK, [PipelineNext]_pipelineVars
             PROVE  AnswersOK'
  OBVIOUS
<1>1. CASE UNCHANGED answer
  BY <1>1 DEF AnswersOK
<1>2. ASSUME NEW id \in Ids, NEW a, Sensible(a), Readable(id, a),
             answer' = [answer EXCEPT ![id] = a]
      PROVE  AnswersOK'
  BY <1>2 DEF AnswersOK, PipelineTypeOK
<1>3. ASSUME NEW id \in Ids, Deny(id) \/ Reject(id) PROVE AnswersOK'
  BY <1>2, <1>3, BlockedSensible DEF Deny, Reject
<1>4. ASSUME NEW id \in Ids, NEW reply \in Answers, Handle(id, reply) PROVE AnswersOK'
  BY <1>2, <1>4, ServedSensible DEF Handle
<1> QED
  BY <1>1, <1>3, <1>4
  DEF PipelineNext, pipelineVars, ClockTicks, UpdateMetrics, UpdateLimits, Preflight, Enter,
      Admit, Grant, Panic, Leave, ReturnLease, Record

-------------------------------------------------------------------------------
(* What a step does to what has been recorded *)
Kept ==
  /\ ~Recording
  /\ metrics'.requests = metrics.requests /\ metrics'.errors = metrics.errors
  /\ metrics'.bytes = metrics.bytes /\ metrics'.logs = metrics.logs
  /\ metrics'.clients = metrics.clients /\ metrics'.buckets = metrics.buckets
  /\ Done' = Done
  /\ \A id \in Done : answer'[id] = answer[id] /\ startedAt'[id] = startedAt[id]

LEMMA StepKeeps ==
  ASSUME PipelineTypeOK, [PipelineNext]_pipelineVars, ~\E id \in Ids : Record(id)
  PROVE  Kept
<1> DEFINE Same == /\ metrics'.requests = metrics.requests /\ metrics'.errors = metrics.errors
                   /\ metrics'.bytes = metrics.bytes /\ metrics'.logs = metrics.logs
                   /\ metrics'.clients = metrics.clients /\ metrics'.buckets = metrics.buckets
           Others == /\ Done' = Done
                     /\ \A id \in Done : answer'[id] = answer[id] /\ startedAt'[id] = startedAt[id]
<1> USE DEF To
<1>0. /\ Metrics!TypeOK /\ stage \in [Ids -> Stages] /\ DOMAIN answer = Ids
      /\ startedAt \in [Ids -> Times]
  BY DEF PipelineTypeOK
<1>1. \/ UNCHANGED metrics \/ Metrics!IncActive \/ Metrics!DecActive
      \/ \E s \in MetricsChoices : Metrics!UpdateSettings(s)
  BY DEF PipelineNext, pipelineVars, ClockTicks, UpdateMetrics, UpdateLimits, Preflight,
         Enter, Deny, Admit, Reject, Grant, Handle, Panic, Leave, ReturnLease
<1>2. Same
  BY <1>0, <1>1 DEF Metrics!TypeOK, Metrics!IncActive, Metrics!DecActive, Metrics!UpdateSettings
<1>3. Others
  <2>1. CASE UNCHANGED <<stage, startedAt, answer>>
    BY <2>1 DEF Done, IsDone
  <2>2. ASSUME NEW id \in Ids, stage[id] # "done", NEW s, s # "done",
               stage' = [stage EXCEPT ![id] = s],
               \A other \in Ids \ {id} :
                 answer'[other] = answer[other] /\ startedAt'[other] = startedAt[other]
        PROVE  Others
    <3>1. Done' = Done
      BY <1>0, <2>2 DEF Done, IsDone
    <3> QED BY <2>2, <3>1 DEF Done, IsDone
  <2>3. ASSUME NEW id \in Ids, Preflight(id) PROVE Others
    BY <2>2, <2>3 DEF Preflight
  <2>4. ASSUME NEW id \in Ids, Enter(id) PROVE Others
    <3>1. \A other \in Ids \ {id} : startedAt'[other] = startedAt[other]
      BY <1>0, <2>4 DEF Enter
    <3> QED BY <2>2, <2>4, <3>1 DEF Enter
  <2>5. ASSUME NEW id \in Ids, NEW reply, answer' = [answer EXCEPT ![id] = reply]
        PROVE  \A other \in Ids \ {id} : answer'[other] = answer[other]
    BY <1>0, <2>5
  <2>6. ASSUME NEW id \in Ids, Deny(id) PROVE Others
    BY <2>2, <2>5, <2>6 DEF Deny
  <2>7. ASSUME NEW id \in Ids, Admit(id) PROVE Others
    BY <2>2, <2>7 DEF Admit
  <2>8. ASSUME NEW id \in Ids, Reject(id) PROVE Others
    BY <2>2, <2>5, <2>8 DEF Reject
  <2>9. ASSUME NEW id \in Ids, NEW reply \in Answers, Handle(id, reply) PROVE Others
    BY <2>2, <2>5, <2>9 DEF Handle
  <2>10. ASSUME NEW id \in Ids, Panic(id) PROVE Others
    BY <2>2, <2>10 DEF Panic
  <2>11. ASSUME NEW id \in Ids, Leave(id) PROVE Others
    BY <2>2, <2>11 DEF Leave
  <2>12. ASSUME NEW id \in Ids, ReturnLease(id) PROVE Others
    BY <2>2, <2>12 DEF ReturnLease
  <2>13. CASE UNCHANGED pipelineVars
    BY <2>1, <2>13 DEF pipelineVars
  <2>14. CASE ClockTicks \/ (\E s \in MetricsChoices : UpdateMetrics(s))
               \/ (\E s \in SettingsChoices : UpdateLimits(s)) \/ (\E id \in Ids : Grant(id))
    BY <2>1, <2>14 DEF ClockTicks, UpdateMetrics, UpdateLimits, Grant
  <2> QED
    BY <2>3, <2>4, <2>6, <2>7, <2>8, <2>9, <2>10, <2>11, <2>12, <2>13, <2>14 DEF PipelineNext
<1>4. ~Recording
  BY <1>0, <1>2 DEF Recording, Metrics!TypeOK
<1> QED BY <1>2, <1>3, <1>4 DEF Kept

(* What a Record does, to the metrics and to what is recorded *)
LEMMA RecordEffect ==
  ASSUME Metrics!TypeOK, NEW event, Metrics!Record(event)
  PROVE  /\ metrics'.requests = metrics.requests + 1
         /\ metrics'.errors = metrics.errors + Metrics!If(Metrics!Failed(event))
         /\ metrics'.bytes = metrics.bytes + Metrics!EventBytes(event)
         /\ metrics'.logs =
              Metrics!Newest(Append(metrics.logs, Metrics!LogOf(event)), metrics.maxLogs)
         /\ metrics'.clients =
              Metrics!Put(metrics.clients, event.client,
                Metrics!Counted(Metrics!At(metrics.clients, event.client, Metrics!None), event))
         /\ metrics'.buckets =
              Metrics!TrimBuckets(
                Metrics!Put(metrics.buckets, Metrics!MinuteOf(event.timestamp),
                  Metrics!Filled(Metrics!At(metrics.buckets, Metrics!MinuteOf(event.timestamp),
                                            Metrics!EmptyBucket), event)),
                metrics.maxBuckets)
         /\ metrics'.maxLogs = metrics.maxLogs /\ metrics'.maxBuckets = metrics.maxBuckets
  BY DEF Metrics!TypeOK, Metrics!Record

LEMMA RecordStep ==
  ASSUME PipelineTypeOK, RecordsNext, NEW id \in Ids, Record(id)
  PROVE  /\ Recording /\ id \notin Done /\ Done' = Done \union {id}
         /\ recorded' = Append(recorded, id)
         /\ answer' = answer /\ startedAt' = startedAt
         /\ Metrics!TypeOK /\ Metrics!Record(EventOf(id))
<1>1. Metrics!TypeOK /\ stage \in [Ids -> Stages]
  BY DEF PipelineTypeOK
<1>2. Metrics!Record(EventOf(id)) /\ answer' = answer /\ startedAt' = startedAt
  BY DEF Record
<1>3. Recording
  BY <1>1, <1>2, RecordEffect DEF Recording, Metrics!TypeOK
<1>4. /\ id \notin Done /\ Done' = Done \union {id}
      /\ \A other \in Ids : ~IsDone(other) /\ stage'[other] = "done" <=> other = id
  BY <1>1 DEF Record, To, Done, IsDone
<1>5. (CHOOSE other \in Ids : ~IsDone(other) /\ stage'[other] = "done") = id
  BY <1>4
<1> QED BY <1>1, <1>2, <1>3, <1>4, <1>5 DEF RecordsNext

-------------------------------------------------------------------------------
(* Sums over requests *)
EventSizes == [id \in Ids |-> EventSize(id)]

SumsSizes(g, set) ==
  g = [s \in SUBSET set |-> IF s = {} THEN 0 ELSE EventSize(Chosen(s)) + g[s \ {Chosen(s)}]]

LEMMA TallyIsSum ==
  ASSUME NEW set \in SUBSET Ids
  PROVE  Tally(set) = [requests |-> Cardinality(set), bytes |-> Sum(EventSizes, set)]
<1>1. Tally(set) = [requests |-> Cardinality(set), bytes |-> (CHOOSE g : SumsSizes(g, set))[set]]
  BY DEF Tally, MapThenSumSet, MapThenFoldSet, Chosen, SumsSizes
<1>2. ASSUME NEW s \in SUBSET set, s # {} PROVE EventSizes[Chosen(s)] = EventSize(Chosen(s))
  BY <1>2, ChosenIn DEF EventSizes
<1>3. \A g : SumsSizes(g, set) <=> Sums(g, EventSizes, set)
  BY <1>2 DEF Sums, SumsSizes
<1>4. IsFiniteSet(set)
  BY KeyAssumption, FS_Subset
<1> DEFINE h == CHOOSE g : SumsSizes(g, set)
<1>5. Sums(h, EventSizes, set)
  BY <1>3, <1>4, SumsExist
<1> HIDE DEF h
<1>6. h[set] = Sum(EventSizes, set)
  BY <1>4, <1>5, SumIs
<1> QED BY <1>1, <1>6 DEF h

(* A tally does not change as long as its requests keep their answers. *)
LEMMA TallySame ==
  ASSUME NEW set \in SUBSET Ids, \A id \in set : answer'[id] = answer[id]
  PROVE  Tally(set)' = Tally(set)
<1>1. \A id \in set : EventSize(id)' = EventSize(id)
  BY DEF EventSize, Metrics!EventBytes, EventOf, RequestSize
<1>2. Tally(set) = [requests |-> Cardinality(set), bytes |-> (CHOOSE g : SumsSizes(g, set))[set]]
  BY DEF Tally, MapThenSumSet, MapThenFoldSet, Chosen, SumsSizes
<1>3. Tally(set)' = [requests |-> Cardinality(set), bytes |-> (CHOOSE g : SumsSizes(g, set)')[set]]
  BY DEF Tally, MapThenSumSet, MapThenFoldSet, Chosen, SumsSizes
<1>4. \A s \in SUBSET set : s # {} => EventSize(Chosen(s))' = EventSize(Chosen(s))
  BY <1>1, ChosenIn
<1>5. \A g : SumsSizes(g, set)' <=> SumsSizes(g, set)
  BY <1>4 DEF SumsSizes
<1> QED BY <1>2, <1>3, <1>5

LEMMA SizesInt ==
  ASSUME AnswersOK
  PROVE  \A id \in Ids : EventSizes[id] = EventSize(id) /\ EventSizes[id] \in Int
<1> SUFFICES ASSUME NEW id \in Ids
             PROVE  EventSizes[id] = EventSize(id) /\ EventSize(id) \in Int
  OBVIOUS
<1>1. RequestSize(id) \in Nat /\ answer[id].size \in Int
  BY SizeType, SizeAssumption DEF AnswersOK, Sensible
<1>2. EventSize(id) = RequestSize(id) + answer[id].size
  BY DEF EventSize, Metrics!EventBytes, EventOf
<1> QED BY <1>1, <1>2 DEF EventSizes

LEMMA TallyAdds ==
  ASSUME AnswersOK, NEW set \in SUBSET Ids, NEW id \in Ids \ set
  PROVE  /\ Tally(set).requests \in Nat /\ Tally(set).bytes \in Int
         /\ Tally(set \union {id}) = [requests |-> Tally(set).requests + 1,
                                     bytes    |-> Tally(set).bytes + EventSize(id)]
<1>1. IsFiniteSet(set) /\ Cardinality(set) \in Nat
  BY KeyAssumption, FS_Subset, FS_CardinalityType
<1>2. Cardinality(set \union {id}) = Cardinality(set) + 1
  BY <1>1, FS_AddElement
<1>3. Sum(EventSizes, set \union {id}) = EventSizes[id] + Sum(EventSizes, set)
  BY <1>1, SizesInt, SumAdd
<1>4. Sum(EventSizes, set) \in Int /\ EventSizes[id] \in Int /\ EventSizes[id] = EventSize(id)
  BY <1>1, SizesInt, SumInt
<1>5. set \union {id} \in SUBSET Ids
  OBVIOUS
<1> QED BY <1>1, <1>2, <1>3, <1>4, <1>5, TallyIsSum

LEMMA TallyNone == Tally({}) = [requests |-> 0, bytes |-> 0]
  BY TallyIsSum, SumEmpty, FS_EmptySet

-------------------------------------------------------------------------------
(* The requests recorded *)
RecordedOK ==
  /\ recorded \in Seq(Ids) /\ Recorded = Done
  /\ \A i, j \in DOMAIN recorded : i # j => recorded[i] # recorded[j]
  /\ Len(recorded) = metrics.requests

LEMMA RecordedInit == RecordsInit => RecordedOK
<1> SUFFICES ASSUME RecordsInit PROVE RecordedOK
  OBVIOUS
<1>1. metrics.requests = 0 /\ Done = {}
  BY DEF RecordsInit, PipelineInit, Metrics!NewObservability, Done, IsDone
<1> QED BY <1>1 DEF RecordsInit, RecordedOK, Recorded

LEMMA RecordedKept ==
  ASSUME RecordedOK, Kept, recorded' = recorded
  PROVE  RecordedOK'
  BY DEF RecordedOK, Kept, Recorded

LEMMA RecordedStep ==
  ASSUME PipelineTypeOK, RecordedOK, RecordsNext, NEW id \in Ids, Record(id)
  PROVE  RecordedOK'
<1>1. /\ id \notin Done /\ Done' = Done \union {id} /\ recorded' = Append(recorded, id)
      /\ Metrics!TypeOK /\ Metrics!Record(EventOf(id))
  BY RecordStep
<1>2. metrics'.requests = metrics.requests + 1 /\ metrics.requests \in Nat
  BY <1>1, RecordEffect DEF Metrics!TypeOK
<1>3. recorded \in Seq(Ids) /\ recorded' \in Seq(Ids) /\ Len(recorded') = Len(recorded) + 1
  BY <1>1 DEF RecordedOK
<1>4. /\ DOMAIN recorded' = DOMAIN recorded \union {Len(recorded) + 1}
      /\ recorded'[Len(recorded) + 1] = id
      /\ \A i \in DOMAIN recorded : recorded'[i] = recorded[i] /\ i # Len(recorded) + 1
  BY <1>1, <1>3
<1>5. Recorded' = Recorded \union {id}
  BY <1>4 DEF Recorded
<1>6. \A i \in DOMAIN recorded : recorded[i] # id
  BY <1>1 DEF RecordedOK, Recorded
<1> QED BY <1>1, <1>2, <1>3, <1>4, <1>5, <1>6 DEF RecordedOK

-------------------------------------------------------------------------------
(* The totals and the aggregates *)
Of(c) == {id \in Done : IpOf[id] = c}
InError == {id \in Done : answer[id].status >= 400}

LEMMA AgreeInit == RecordsInit => RecordsAgree
<1> SUFFICES ASSUME RecordsInit PROVE RecordsAgree
  OBVIOUS
<1>1. /\ metrics.requests = 0 /\ metrics.errors = 0 /\ metrics.bytes = 0
      /\ metrics.clients = << >> /\ Done = {}
  BY DEF RecordsInit, PipelineInit, Metrics!NewObservability, Done, IsDone
<1>2. InError = {} /\ DOMAIN metrics.clients = {}
  BY <1>1 DEF InError
<1> QED BY <1>1, <1>2, TallyNone, FS_EmptySet DEF RecordsAgree, InError

LEMMA AgreeKept ==
  ASSUME RecordsAgree, Kept
  PROVE  RecordsAgree'
<1>1. Done \in SUBSET Ids /\ Done' = Done /\ \A id \in Done : answer'[id] = answer[id]
  BY DEF Kept, Done
<1>2. \A set \in SUBSET Done : Tally(set)' = Tally(set)
  BY <1>1, TallySame
<1>3. /\ Tally(Done)' = Tally(Done)
      /\ \A c : Of(c)' = Of(c) /\ Tally(Of(c))' = Tally(Of(c))
  BY <1>1, <1>2 DEF Of
<1>4. InError' = InError
  BY <1>1 DEF InError
<1>5. [requests |-> metrics'.requests, bytes |-> metrics'.bytes] = Tally(Done)'
  BY <1>3 DEF RecordsAgree, Kept
<1>6. metrics'.errors = Cardinality(InError')
  BY <1>4 DEF RecordsAgree, Kept, InError
<1>7. /\ DOMAIN metrics'.clients = {IpOf[id] : id \in Done'}
      /\ \A c \in DOMAIN metrics'.clients : metrics'.clients[c] = Tally(Of(c))'
  <2>1. metrics'.clients = metrics.clients
    BY DEF Kept
  <2>2. /\ DOMAIN metrics.clients = {IpOf[id] : id \in Done}
        /\ \A c \in DOMAIN metrics.clients : metrics.clients[c] = Tally(Of(c))
    BY DEF RecordsAgree, Of
  <2>3. \A c : Tally(Of(c))' = Tally(Of(c))
    BY <1>3, Zenon
  <2> QED BY <1>1, <2>1, <2>2, <2>3
<1> QED BY <1>5, <1>6, <1>7 DEF RecordsAgree, InError, Of

LEMMA AgreeStep ==
  ASSUME PipelineTypeOK, AnswersOK, RecordsAgree, RecordsNext, NEW id \in Ids, Record(id)
  PROVE  RecordsAgree'
<1> DEFINE e == EventOf(id)
           ip == IpOf[id]
<1>1. /\ id \notin Done /\ Done' = Done \union {id} /\ answer' = answer
      /\ Metrics!TypeOK /\ Metrics!Record(e)
  BY RecordStep
<1>2. /\ metrics'.requests = metrics.requests + 1
      /\ metrics'.errors = metrics.errors + Metrics!If(Metrics!Failed(e))
      /\ metrics'.bytes = metrics.bytes + EventSize(id)
      /\ metrics'.clients =
           Metrics!Put(metrics.clients, ip,
                       Metrics!Counted(Metrics!At(metrics.clients, ip, Metrics!None), e))
  <2>1. e.client = ip
    BY DEF EventOf
  <2> HIDE DEF e
  <2> QED BY <1>1, <2>1, RecordEffect DEF EventSize, e
<1>3. Done \in SUBSET Ids /\ IsFiniteSet(Done) /\ IsFiniteSet(InError)
  BY KeyAssumption, FS_Subset DEF Done, InError
<1>4. \A set \in SUBSET Ids : Tally(set)' = Tally(set)
  BY <1>1, TallySame
<1>5. [requests |-> metrics'.requests, bytes |-> metrics'.bytes] = Tally(Done)'
  <2>1. Tally(Done \union {id}) = [requests |-> Tally(Done).requests + 1,
                                 bytes |-> Tally(Done).bytes + EventSize(id)]
    BY <1>1, <1>3, TallyAdds
  <2>2. Tally(Done).requests = metrics.requests /\ Tally(Done).bytes = metrics.bytes
    BY DEF RecordsAgree
  <2>3. Tally(Done)' = Tally(Done \union {id})
    BY <1>1, <1>3, <1>4
  <2> QED BY <1>2, <2>1, <2>2, <2>3
<1>6. metrics'.errors = Cardinality(InError')
  <2>1. Metrics!Failed(e) <=> answer[id].status >= 400
    BY DEF Metrics!Failed, EventOf, AnswersOK, Sensible
  <2>2. metrics.errors = Cardinality(InError) /\ Cardinality(InError) \in Nat
    BY <1>3, FS_CardinalityType DEF RecordsAgree, InError
  <2>3. CASE answer[id].status >= 400
    <3>1. InError' = InError \union {id} /\ id \notin InError
      BY <1>1, <2>3 DEF InError
    <3>2. Cardinality(InError') = Cardinality(InError) + 1
      BY <1>3, <3>1, FS_AddElement
    <3>3. Metrics!If(Metrics!Failed(e)) = 1
      BY <2>1, <2>3 DEF Metrics!If
    <3> QED BY <1>2, <2>2, <3>2, <3>3
  <2>4. CASE ~(answer[id].status >= 400)
    <3>1. InError' = InError
      BY <1>1, <2>4 DEF InError
    <3>2. Metrics!If(Metrics!Failed(e)) = 0
      BY <2>1, <2>4 DEF Metrics!If
    <3> QED BY <1>2, <2>2, <3>1, <3>2
  <2> QED BY <2>3, <2>4
<1>7. /\ Of(ip)' = Of(ip) \union {id} /\ Of(ip) \in SUBSET Ids /\ id \notin Of(ip)
      /\ \A c : c # ip => Of(c)' = Of(c)
  BY <1>1, <1>3 DEF Of
<1>8. /\ DOMAIN metrics'.clients = DOMAIN metrics.clients \union {ip}
      /\ metrics'.clients[ip] =
           Metrics!Counted(Metrics!At(metrics.clients, ip, Metrics!None), e)
      /\ \A c \in DOMAIN metrics.clients : c # ip => metrics'.clients[c] = metrics.clients[c]
  BY <1>2 DEF Metrics!Put
<1>9. DOMAIN metrics'.clients = {IpOf[other] : other \in Done'}
  BY <1>1, <1>8 DEF RecordsAgree
<1>10. \A c \in DOMAIN metrics'.clients : metrics'.clients[c] = Tally(Of(c))'
  <2>1. Metrics!At(metrics.clients, ip, Metrics!None) = Tally(Of(ip))
    <3>1. CASE ip \in DOMAIN metrics.clients
      BY <3>1 DEF Metrics!At, RecordsAgree, Of
    <3>2. CASE ip \notin DOMAIN metrics.clients
      <4>1. Of(ip) = {}
        BY <3>2 DEF Of, RecordsAgree
      <4> QED BY <3>2, <4>1, TallyNone DEF Metrics!At, Metrics!None
    <3> QED BY <3>1, <3>2
  <2>2. Tally(Of(ip))' = [requests |-> Tally(Of(ip)).requests + 1,
                          bytes |-> Tally(Of(ip)).bytes + EventSize(id)]
    <3>1. Tally(Of(ip))' = Tally(Of(ip) \union {id})
      BY <1>4, <1>7
    <3> QED BY <1>7, <3>1, TallyAdds
  <2>3. metrics'.clients[ip] = Tally(Of(ip))'
    BY <1>8, <2>1, <2>2 DEF Metrics!Counted, EventSize
  <2>4. ASSUME NEW c \in DOMAIN metrics.clients, c # ip
        PROVE  metrics'.clients[c] = Tally(Of(c))'
    <3>1. metrics.clients[c] = Tally(Of(c))
      BY DEF RecordsAgree, Of
    <3>2. Of(c) \in SUBSET Ids
      BY <1>3 DEF Of
    <3> QED BY <1>4, <1>7, <1>8, <2>4, <3>1, <3>2
  <2> QED BY <1>8, <2>3, <2>4
<1> QED BY <1>5, <1>6, <1>9, <1>10 DEF RecordsAgree, InError, Of

-------------------------------------------------------------------------------
(* The bytes *)
AccountedSizes == [id \in Ids |-> Accounted(id)]

LEMMA AccountedIsSum ==
  ASSUME NEW set \in SUBSET Ids
  PROVE  MapThenSumSet(Accounted, set) = Sum(AccountedSizes, set)
<1> DEFINE SumsAccounted(g) ==
             g = [s \in SUBSET set |->
                    IF s = {} THEN 0 ELSE Accounted(Chosen(s)) + g[s \ {Chosen(s)}]]
           h == CHOOSE g : SumsAccounted(g)
<1>1. MapThenSumSet(Accounted, set) = h[set]
  BY DEF MapThenSumSet, MapThenFoldSet, Chosen
<1>2. ASSUME NEW s \in SUBSET set, s # {} PROVE AccountedSizes[Chosen(s)] = Accounted(Chosen(s))
  BY <1>2, ChosenIn DEF AccountedSizes
<1>3. \A g : SumsAccounted(g) <=> Sums(g, AccountedSizes, set)
  BY <1>2 DEF Sums
<1>4. IsFiniteSet(set)
  BY KeyAssumption, FS_Subset
<1> HIDE DEF SumsAccounted
<1>5. Sums(h, AccountedSizes, set)
  BY <1>3, <1>4, SumsExist
<1> HIDE DEF h
<1> QED BY <1>1, <1>4, <1>5, SumIs

LEMMA BytesFollow == AnswersOK /\ RecordedOK /\ RecordsAgree => BytesExplained
<1> SUFFICES ASSUME AnswersOK, RecordedOK, RecordsAgree PROVE BytesExplained
  OBVIOUS
<1> DEFINE unwritten == {id \in Recorded : answer[id].size < 0}
<1>1. Recorded = Done /\ Recorded \in SUBSET Ids /\ IsFiniteSet(Recorded)
  BY KeyAssumption, FS_Subset DEF RecordedOK, Done
<1>2. metrics.bytes = Sum(EventSizes, Recorded)
  BY <1>1, TallyIsSum DEF RecordsAgree
<1>3. ASSUME NEW id \in Ids
      PROVE  /\ AccountedSizes[id] \in Int
             /\ EventSizes[id] =
                  IF answer[id].size < 0 THEN AccountedSizes[id] - 1 ELSE AccountedSizes[id]
  <2>1. /\ answer[id].read \in Nat /\ Declared[id] \in Int /\ RequestSize(id) \in Nat
        /\ answer[id].size \in Int /\ answer[id].size >= -1
    BY SizeType, RequestAssumption, SizeAssumption DEF AnswersOK, Sensible
  <2>2. EventSizes[id] = RequestSize(id) + answer[id].size
    BY DEF EventSizes, EventSize, Metrics!EventBytes, EventOf
  <2>3. RequestSize(id) = answer[id].read + Unread(id) - Unseen(id)
    BY <2>1 DEF AnswersOK, Readable, RequestSize, UploadHint, Unread, Unseen
  <2>4. Unread(id) \in Int /\ Unseen(id) \in Int
    BY <2>1 DEF Unread, Unseen
  <2>5. AccountedSizes[id] =
          RequestSize(id) + (IF answer[id].size > 0 THEN answer[id].size ELSE 0)
    BY <2>1, <2>3, <2>4 DEF AccountedSizes, Accounted, Written
  <2> QED BY <2>1, <2>2, <2>5
<1>4. /\ \A id \in Recorded : AccountedSizes[id] \in Int
      /\ \A id \in Recorded :
           EventSizes[id] =
             IF id \in unwritten THEN AccountedSizes[id] - 1 ELSE AccountedSizes[id]
      /\ unwritten \in SUBSET Recorded
  BY <1>1, <1>3
<1> HIDE DEF unwritten
<1>5. Sum(EventSizes, Recorded) = Sum(AccountedSizes, Recorded) - Cardinality(unwritten)
  BY <1>1, <1>4, SumLess
<1> QED BY <1>1, <1>2, <1>5, AccountedIsSum DEF BytesExplained, unwritten

-------------------------------------------------------------------------------
(* The log *)
Log == [id : Nat, client : IPs, status : Nat]

(* What the log has of every request recorded, had it no limit *)
Entries ==
  [i \in 1 .. Len(recorded) |->
     [id |-> i, client |-> IpOf[recorded[i]], status |-> answer[recorded[i]].status]]

(* s has the last of F[1] to F[k]. *)
EndOf(s, F, k) ==
  Len(s) <= k /\ \A j \in 1 .. Len(s) : s[j] = F[k - Len(s) + j]

(* The log has the newest of the requests recorded, in their order. *)
LogExact == metrics.logs \in Seq(Log) /\ EndOf(metrics.logs, Entries, Len(recorded))

LEMMA NewestIs ==
  ASSUME NEW E, NEW s \in Seq(E), NEW n \in Nat \ {0}, NEW r, r = Metrics!Newest(s, n)
  PROVE  /\ r \in Seq(E) /\ Len(r) = IF Len(s) > n THEN n ELSE Len(s)
         /\ \A j \in 1 .. Len(r) : r[j] = s[Len(s) - Len(r) + j]
<1>1. CASE Len(s) > n
  <2>1. r = SubSeq(s, Len(s) - n + 1, Len(s))
    BY <1>1 DEF Metrics!Newest
  <2>2. /\ r \in Seq(E) /\ Len(r) = n
        /\ \A j \in 1 .. n : r[j] = s[Len(s) - n + j]
    BY <1>1, <2>1
  <2> QED BY <1>1, <2>2
<1>2. CASE ~(Len(s) > n)
  BY <1>2 DEF Metrics!Newest
<1> QED BY <1>1, <1>2

LEMMA EndAdded ==
  ASSUME NEW E, NEW s \in Seq(E), NEW x \in E, NEW k \in Nat, NEW F,
         EndOf(s, F, k), x = F[k + 1]
  PROVE  EndOf(Append(s, x), F, k + 1)
<1> DEFINE t == Append(s, x)
<1>1. /\ t \in Seq(E) /\ Len(t) = Len(s) + 1 /\ t[Len(s) + 1] = x /\ Len(s) \in Nat
      /\ \A j \in 1 .. Len(s) : t[j] = s[j]
  OBVIOUS
<1> HIDE DEF t
<1>2. Len(t) <= k + 1 /\ Len(s) <= k
  BY <1>1 DEF EndOf
<1>3. ASSUME NEW j \in 1 .. Len(t) PROVE t[j] = F[k + 1 - Len(t) + j]
  <2>1. CASE j \in 1 .. Len(s)
    <3>1. k - Len(s) + j = k + 1 - Len(t) + j
      BY <1>1, <2>1
    <3>2. s[j] = F[k - Len(s) + j]
      BY <2>1 DEF EndOf
    <3> QED BY <1>1, <2>1, <3>1, <3>2
  <2>2. CASE j \notin 1 .. Len(s)
    <3>1. j = Len(s) + 1 /\ k + 1 - Len(t) + j = k + 1
      BY <1>1, <2>2
    <3> QED BY <1>1, <3>1
  <2> QED BY <2>1, <2>2
<1> QED BY <1>2, <1>3 DEF EndOf, t

LEMMA EndNewest ==
  ASSUME NEW E, NEW s \in Seq(E), NEW n \in Nat \ {0}, NEW k \in Nat, NEW F, EndOf(s, F, k)
  PROVE  /\ Metrics!Newest(s, n) \in Seq(E) /\ Len(Metrics!Newest(s, n)) <= n
         /\ EndOf(Metrics!Newest(s, n), F, k)
<1> DEFINE r == Metrics!Newest(s, n)
<1>1. /\ r \in Seq(E) /\ Len(r) = IF Len(s) > n THEN n ELSE Len(s)
      /\ \A j \in 1 .. Len(r) : r[j] = s[Len(s) - Len(r) + j]
  BY NewestIs
<1> HIDE DEF r
<1>2. Len(r) \in Nat /\ Len(s) \in Nat /\ Len(r) <= n /\ Len(r) <= Len(s)
  BY <1>1
<1>3. Len(r) <= k
  BY <1>2 DEF EndOf
<1>4. ASSUME NEW j \in 1 .. Len(r) PROVE r[j] = F[k - Len(r) + j]
  <2>1. /\ Len(s) - Len(r) + j \in 1 .. Len(s)
        /\ k - Len(s) + (Len(s) - Len(r) + j) = k - Len(r) + j
    BY <1>2
  <2>2. s[Len(s) - Len(r) + j] = F[k - Len(r) + j]
    BY <2>1 DEF EndOf
  <2> QED BY <1>1, <2>2
<1>5. EndOf(r, F, k)
  BY <1>3, <1>4 DEF EndOf
<1> QED BY <1>1, <1>2, <1>5 DEF r

LEMMA EndSame ==
  ASSUME NEW E, NEW s \in Seq(E), NEW k \in Nat, NEW F, NEW G, EndOf(s, F, k),
         \A i \in 1 .. k : G[i] = F[i]
  PROVE  EndOf(s, G, k)
<1>1. Len(s) \in Nat /\ Len(s) <= k
  BY DEF EndOf
<1>2. ASSUME NEW j \in 1 .. Len(s) PROVE s[j] = G[k - Len(s) + j]
  <2>1. k - Len(s) + j \in 1 .. k
    BY <1>1
  <2> QED BY <2>1 DEF EndOf
<1> QED BY <1>1, <1>2 DEF EndOf

LEMMA LogInit == RecordsInit => LogExact
<1> SUFFICES ASSUME RecordsInit PROVE LogExact
  OBVIOUS
<1>1. metrics.logs = << >> /\ recorded = << >>
  BY DEF RecordsInit, PipelineInit, Metrics!NewObservability
<1> QED BY <1>1 DEF LogExact, EndOf

LEMMA LogKept ==
  ASSUME RecordedOK, LogExact, Kept, recorded' = recorded
  PROVE  LogExact'
<1>1. metrics'.logs = metrics.logs
  BY DEF Kept
<1>2. Entries' = Entries
  <2>1. \A i \in 1 .. Len(recorded) : recorded[i] \in Done
    BY DEF RecordedOK, Recorded
  <2> QED BY <2>1 DEF Entries, Kept
<1> QED BY <1>1, <1>2 DEF LogExact

LEMMA LogStep ==
  ASSUME PipelineTypeOK, AnswersOK, RecordedOK, LogExact, RecordsNext, NEW id \in Ids, Record(id)
  PROVE  LogExact' /\ Len(metrics'.logs) <= metrics.maxLogs
<1> DEFINE e == Metrics!LogOf(EventOf(id))
<1>1. /\ Metrics!TypeOK /\ Metrics!Record(EventOf(id))
      /\ recorded' = Append(recorded, id) /\ answer' = answer
  BY RecordStep
<1>2. PICK k \in Nat : k = Len(recorded)
  BY DEF RecordedOK
<1>3. /\ Len(recorded') = k + 1 /\ recorded'[k + 1] = id
      /\ \A i \in 1 .. k : recorded'[i] = recorded[i]
  BY <1>1, <1>2 DEF RecordedOK
<1>4. e = [id |-> k + 1, client |-> IpOf[id], status |-> answer[id].status]
  BY <1>2 DEF RecordedOK, Metrics!LogOf, EventOf
<1>5. e \in Log
  <2>1. k + 1 \in Nat /\ IpOf[id] \in IPs /\ answer[id].status \in Nat
    BY KeyAssumption DEF AnswersOK, Sensible
  <2> QED BY <1>4, <2>1 DEF Log
<1>6. Entries'[k + 1] = e /\ \A i \in 1 .. k : Entries'[i] = Entries[i]
  BY <1>1, <1>2, <1>3, <1>4 DEF Entries
<1>7. metrics'.logs = Metrics!Newest(Append(metrics.logs, e), metrics.maxLogs)
  BY <1>1, RecordEffect
<1> HIDE DEF e
<1>8. metrics.logs \in Seq(Log) /\ EndOf(metrics.logs, Entries, k)
  BY <1>2 DEF LogExact
<1>9. EndOf(metrics.logs, Entries', k)
  BY <1>6, <1>8, EndSame
<1>10. /\ Append(metrics.logs, e) \in Seq(Log)
       /\ EndOf(Append(metrics.logs, e), Entries', k + 1)
  <2>1. Append(metrics.logs, e) \in Seq(Log)
    BY <1>5, <1>8
  <2> QED BY <1>5, <1>6, <1>8, <1>9, <2>1, EndAdded
<1>11. metrics.maxLogs \in Nat \ {0}
  BY <1>1 DEF Metrics!TypeOK
<1>12. /\ metrics'.logs \in Seq(Log) /\ Len(metrics'.logs) <= metrics.maxLogs
       /\ EndOf(metrics'.logs, Entries', k + 1)
  <2> DEFINE t == Append(metrics.logs, e)
             l == k + 1
  <2>1. t \in Seq(Log) /\ l \in Nat /\ EndOf(t, Entries', l)
    BY <1>10
  <2> HIDE DEF t, l
  <2>2. /\ Metrics!Newest(t, metrics.maxLogs) \in Seq(Log)
        /\ Len(Metrics!Newest(t, metrics.maxLogs)) <= metrics.maxLogs
        /\ EndOf(Metrics!Newest(t, metrics.maxLogs), Entries', l)
    BY <1>11, <2>1, EndNewest
  <2> QED BY <1>7, <2>2 DEF t, l
<1> QED BY <1>3, <1>12 DEF LogExact

-------------------------------------------------------------------------------
(* The query of the log, a loop from the newest to the oldest *)
Meets(log, clients, status) == log.client \in clients /\ (status <= 0 \/ log.status = status)

(* A step of the loop *)
Collected(result, log, clients, status, most) ==
  IF Meets(log, clients, status) /\ Len(result) < most THEN Append(result, log) ELSE result

(* The loop is a recursive function of the numbers of the logs gone through. *)
Collects(h, logs, clients, status, most) ==
  h = [t \in SUBSET DOMAIN logs |->
         IF t = {} THEN << >>
         ELSE Collected(h[t \ {Metrics!Min(t)}], logs[Metrics!Min(t)], clients, status, most)]

Most(limit) == IF limit <= 0 THEN 200 ELSE limit

LEMMA QueryCollects ==
  ASSUME NEW clients, NEW status, NEW limit
  PROVE  Metrics!Logs(clients, status, limit) =
           (CHOOSE h : Collects(h, metrics.logs, clients, status, Most(limit)))[DOMAIN metrics.logs]
  BY DEF Metrics!Logs, Metrics!FoldRight, Metrics!MapThenFoldSet, Collects, Collected, Meets, Most

LEMMA MinIs ==
  ASSUME NEW n \in Nat, NEW t \in SUBSET (1 .. n), t # {}
  PROVE  Metrics!Min(t) \in t /\ \A y \in t : Metrics!Min(t) <= y
<1>1. PICK x \in t : \A y \in t : x <= y
  <2>1. t \in SUBSET Nat
    OBVIOUS
  <2> QED BY <2>1, LeastNumber
<1> QED BY <1>1 DEF Metrics!Min

(* What the loop is to have found among the logs whose numbers are in t *)
Meeting(t, logs, clients, status) == {i \in t : Meets(logs[i], clients, status)}

Finds(r, t, logs, clients, status, most) ==
  LET meeting == Meeting(t, logs, clients, status)
      all == Cardinality(meeting)
  IN /\ r \in Seq(Log) /\ Len(r) = IF all < most THEN all ELSE most
     /\ \A j \in 1 .. Len(r) :
          \E i \in meeting : r[j] = logs[i] /\ Cardinality(Above(meeting, i)) = j - 1

LEMMA LogNumbers ==
  ASSUME NEW logs \in Seq(Log)
  PROVE  DOMAIN logs = 1 .. Len(logs) /\ Len(logs) \in Nat /\ IsFiniteSet(DOMAIN logs)
<1>1. DOMAIN logs = 1 .. Len(logs) /\ Len(logs) \in Nat
  OBVIOUS
<1> QED BY <1>1, FS_Interval

LEMMA MeetingFinite ==
  ASSUME NEW logs \in Seq(Log), NEW t \in SUBSET DOMAIN logs, NEW clients, NEW status
  PROVE  /\ Meeting(t, logs, clients, status) \in SUBSET Nat
         /\ IsFiniteSet(Meeting(t, logs, clients, status))
         /\ Cardinality(Meeting(t, logs, clients, status)) \in Nat
<1>1. DOMAIN logs = 1 .. Len(logs) /\ Len(logs) \in Nat /\ IsFiniteSet(1 .. Len(logs))
  BY LogNumbers
<1>2. Meeting(t, logs, clients, status) \in SUBSET (1 .. Len(logs))
  BY <1>1 DEF Meeting
<1>3. IsFiniteSet(Meeting(t, logs, clients, status))
  BY <1>1, <1>2, FS_Subset
<1> QED BY <1>2, <1>3, FS_CardinalityType

(* The next log gone through is older than those before it, so if it is found, it is
   the last and all of the others are above it. *)
LEMMA FindsNext ==
  ASSUME NEW logs \in Seq(Log), NEW t \in SUBSET DOMAIN logs, NEW clients, NEW status,
         NEW most \in Nat \ {0}, NEW x \in t, \A y \in t : x <= y,
         NEW r, Finds(r, t \ {x}, logs, clients, status, most)
  PROVE  Finds(Collected(r, logs[x], clients, status, most), t, logs, clients, status, most)
<1> DEFINE old == Meeting(t \ {x}, logs, clients, status)
           new == Meeting(t, logs, clients, status)
<1>0. x \in Nat /\ logs[x] \in Log
  <2>1. x \in 1 .. Len(logs)
    OBVIOUS
  <2> QED BY <2>1
<1>1. /\ r \in Seq(Log) /\ Len(r) = IF Cardinality(old) < most THEN Cardinality(old) ELSE most
      /\ \A j \in 1 .. Len(r) :
           \E i \in old : r[j] = logs[i] /\ Cardinality(Above(old, i)) = j - 1
  BY DEF Finds
<1>2. /\ old \in SUBSET Nat /\ IsFiniteSet(old) /\ Cardinality(old) \in Nat
      /\ new \in SUBSET Nat
  <2>1. t \ {x} \in SUBSET DOMAIN logs
    OBVIOUS
  <2> QED BY <2>1, MeetingFinite
<1>3. \A i \in old : i > x
  BY <1>0, <1>2 DEF Meeting
<1>4. CASE ~Meets(logs[x], clients, status)
  <2>1. new = old
    BY <1>4 DEF Meeting
  <2>2. Collected(r, logs[x], clients, status, most) = r
    BY <1>4 DEF Collected
  <2> QED BY <2>1, <2>2 DEF Finds
<1>5. CASE Meets(logs[x], clients, status)
  <2>1. new = old \union {x} /\ x \notin old
    BY <1>5 DEF Meeting
  <2>2. Cardinality(new) = Cardinality(old) + 1
    BY <1>2, <2>1, FS_AddElement
  <2> HIDE DEF old, new
  <2>0. /\ Above(old \union {x}, x) = old
        /\ \A i \in old : Above(old \union {x}, i) = Above(old, i)
    <3>1. old \in SUBSET Int /\ x \in Int
      BY <1>0, <1>2
    <3> QED BY <1>3, <3>1, AboveAdded
  <2>3. \A i \in old : Above(new, i) = Above(old, i) /\ i \in new
    BY <2>0, <2>1
  <2>4. Above(new, x) = old
    BY <2>0, <2>1
  <2>5. CASE Len(r) < most
    <3>1. Collected(r, logs[x], clients, status, most) = Append(r, logs[x])
      BY <1>5, <2>5 DEF Collected
    <3>2. PICK q : q = Append(r, logs[x])
      OBVIOUS
    <3>3. q \in Seq(Log) /\ Len(q) = Len(r) + 1
      BY <1>0, <1>1, <3>2
    <3>4. Len(r) = Cardinality(old)
      BY <1>1, <1>2, <2>5
    <3>5. Len(q) = IF Cardinality(new) < most THEN Cardinality(new) ELSE most
      BY <1>2, <2>2, <2>5, <3>3, <3>4
    <3>6. ASSUME NEW j \in 1 .. Len(q)
          PROVE  \E i \in new : q[j] = logs[i] /\ Cardinality(Above(new, i)) = j - 1
      <4>1. CASE j = Len(q)
        <5>1. q[j] = logs[x] /\ j - 1 = Cardinality(old)
          BY <1>0, <1>1, <1>2, <3>2, <3>3, <3>4, <4>1
        <5> QED BY <2>1, <2>4, <5>1
      <4>2. CASE j # Len(q)
        <5>1. j \in 1 .. Len(r) /\ q[j] = r[j]
          BY <1>0, <1>1, <1>2, <3>2, <3>3, <3>4, <4>2
        <5> QED BY <1>1, <2>3, <5>1
      <4> QED BY <4>1, <4>2
    <3>7. Finds(q, t, logs, clients, status, most)
      BY <3>3, <3>5, <3>6 DEF Finds, new
    <3> QED BY <3>1, <3>2, <3>7
  <2>6. CASE ~(Len(r) < most)
    <3>1. Collected(r, logs[x], clients, status, most) = r
      BY <2>6 DEF Collected
    <3>2. Len(r) = IF Cardinality(new) < most THEN Cardinality(new) ELSE most
      BY <1>1, <1>2, <2>2, <2>6
    <3>3. ASSUME NEW j \in 1 .. Len(r)
          PROVE  \E i \in new : r[j] = logs[i] /\ Cardinality(Above(new, i)) = j - 1
      BY <1>1, <2>3
    <3>4. Finds(r, t, logs, clients, status, most)
      BY <1>1, <3>2, <3>3 DEF Finds, new
    <3> QED BY <3>1, <3>4
  <2> QED BY <2>5, <2>6
<1> QED BY <1>4, <1>5

LEMMA FindsNothing ==
  ASSUME NEW logs, NEW clients, NEW status, NEW most \in Nat
  PROVE  Finds(<< >>, {}, logs, clients, status, most)
<1>1. Meeting({}, logs, clients, status) = {} /\ Cardinality({}) = 0
  BY FS_EmptySet DEF Meeting
<1> QED BY <1>1 DEF Finds

(* How many are above it tells which log a place in the result has. *)
LEMMA FindsUnique ==
  ASSUME NEW logs \in Seq(Log), NEW t \in SUBSET DOMAIN logs, NEW clients, NEW status,
         NEW most \in Nat \ {0}, NEW r, Finds(r, t, logs, clients, status, most),
         NEW q, Finds(q, t, logs, clients, status, most)
  PROVE  r = q
<1> DEFINE meeting == Meeting(t, logs, clients, status)
<1>1. meeting \in SUBSET Nat /\ IsFiniteSet(meeting)
  BY MeetingFinite
<1>2. r \in Seq(Log) /\ q \in Seq(Log) /\ Len(r) = Len(q)
  BY DEF Finds
<1>3. ASSUME NEW j \in 1 .. Len(r) PROVE r[j] = q[j]
  <2>1. PICK i \in meeting : r[j] = logs[i] /\ Cardinality(Above(meeting, i)) = j - 1
    BY DEF Finds
  <2>2. PICK k \in meeting : q[j] = logs[k] /\ Cardinality(Above(meeting, k)) = j - 1
    BY <1>2 DEF Finds
  <2> HIDE DEF meeting
  <2>3. i = k
    BY <1>1, <2>1, <2>2, AboveTells
  <2> QED BY <2>1, <2>2, <2>3
<1> QED BY <1>2, <1>3

(* Whatever satisfies the recursion finds what it is to find. *)
LEMMA CollectsFind ==
  ASSUME NEW logs \in Seq(Log), NEW clients, NEW status, NEW most \in Nat \ {0}, NEW h,
         Collects(h, logs, clients, status, most)
  PROVE  \A t \in SUBSET DOMAIN logs : Finds(h[t], t, logs, clients, status, most)
<1> DEFINE D == DOMAIN logs
           U == {t \in SUBSET D : ~Finds(h[t], t, logs, clients, status, most)}
<1> SUFFICES ASSUME U # {} PROVE FALSE
  OBVIOUS
<1>1. PICK t \in U : \A v \in U : v \subseteq t => v = t
  <2>1. U \in SUBSET SUBSET D
    OBVIOUS
  <2>2. IsFiniteSet(D)
    BY LogNumbers
  <2> HIDE DEF U, D
  <2> QED BY <2>1, <2>2, SmallestSet
<1>2. t \in SUBSET D /\ ~Finds(h[t], t, logs, clients, status, most)
  BY <1>1
<1>3. h[t] = IF t = {} THEN << >>
             ELSE Collected(h[t \ {Metrics!Min(t)}], logs[Metrics!Min(t)], clients, status, most)
  BY <1>2 DEF Collects
<1>4. t # {}
  BY <1>2, <1>3, FindsNothing
<1>5. PICK x \in t : x = Metrics!Min(t) /\ \A y \in t : x <= y
  BY <1>2, <1>4, LogNumbers, MinIs
<1>6. Finds(h[t \ {x}], t \ {x}, logs, clients, status, most)
  BY <1>1, <1>2
<1> QED BY <1>2, <1>3, <1>4, <1>5, <1>6, FindsNext

(* There is something to find, so that something satisfies the recursion. *)
LEMMA FindsSome ==
  ASSUME NEW logs \in Seq(Log), NEW clients, NEW status, NEW most \in Nat \ {0}
  PROVE  \A t \in SUBSET DOMAIN logs : \E r : Finds(r, t, logs, clients, status, most)
<1> DEFINE D == DOMAIN logs
           U == {t \in SUBSET D : ~\E r : Finds(r, t, logs, clients, status, most)}
<1> SUFFICES ASSUME U # {} PROVE FALSE
  OBVIOUS
<1>1. PICK t \in U : \A v \in U : v \subseteq t => v = t
  <2>1. U \in SUBSET SUBSET D
    OBVIOUS
  <2>2. IsFiniteSet(D)
    BY LogNumbers
  <2> HIDE DEF U, D
  <2> QED BY <2>1, <2>2, SmallestSet
<1>2. t \in SUBSET D /\ ~\E r : Finds(r, t, logs, clients, status, most)
  BY <1>1
<1>3. t # {}
  BY <1>2, FindsNothing
<1>4. PICK x \in t : \A y \in t : x <= y
  BY <1>2, <1>3, LogNumbers, MinIs
<1>5. PICK r : Finds(r, t \ {x}, logs, clients, status, most)
  <2>1. t \ {x} \in SUBSET D /\ t \ {x} \notin U
    BY <1>1, <1>2
  <2> QED BY <2>1
<1> QED BY <1>2, <1>4, <1>5, FindsNext

LEMMA CollectsExists ==
  ASSUME NEW logs \in Seq(Log), NEW clients, NEW status, NEW most \in Nat \ {0}
  PROVE  \E h : Collects(h, logs, clients, status, most)
<1> DEFINE h == [t \in SUBSET DOMAIN logs |->
                   CHOOSE r : Finds(r, t, logs, clients, status, most)]
<1>1. \A t \in SUBSET DOMAIN logs : Finds(h[t], t, logs, clients, status, most)
  BY FindsSome
<1>2. DOMAIN h = SUBSET DOMAIN logs /\ h = [t \in SUBSET DOMAIN logs |-> h[t]]
  OBVIOUS
<1> HIDE DEF h
<1>3. ASSUME NEW t \in SUBSET DOMAIN logs
      PROVE  h[t] = IF t = {} THEN << >>
                    ELSE Collected(h[t \ {Metrics!Min(t)}], logs[Metrics!Min(t)],
                                   clients, status, most)
  <2>1. CASE t = {}
    BY <1>1, <2>1, FindsNothing, FindsUnique
  <2>2. CASE t # {}
    <3>1. PICK x \in t : x = Metrics!Min(t) /\ \A y \in t : x <= y
      BY <2>2, LogNumbers, MinIs
    <3>2. Finds(h[t \ {x}], t \ {x}, logs, clients, status, most)
      BY <1>1
    <3>3. Finds(Collected(h[t \ {x}], logs[x], clients, status, most), t,
                logs, clients, status, most)
      BY <3>1, <3>2, FindsNext
    <3> QED BY <1>1, <2>2, <3>1, <3>3, FindsUnique
  <2> QED BY <2>1, <2>2
<1> QED BY <1>2, <1>3 DEF Collects

LEMMA QueryFinds ==
  ASSUME metrics.logs \in Seq(Log), NEW clients, NEW status, NEW limit \in Int
  PROVE  Finds(Metrics!Logs(clients, status, limit), DOMAIN metrics.logs,
               metrics.logs, clients, status, Most(limit))
<1> DEFINE h == CHOOSE g : Collects(g, metrics.logs, clients, status, Most(limit))
<1>1. Most(limit) \in Nat \ {0}
  BY DEF Most
<1>2. Collects(h, metrics.logs, clients, status, Most(limit))
  BY <1>1, CollectsExists
<1>3. Metrics!Logs(clients, status, limit) = h[DOMAIN metrics.logs]
  BY QueryCollects
<1> HIDE DEF h
<1> QED BY <1>1, <1>2, <1>3, CollectsFind

(* The log holds the newest requests recorded, each a fixed distance from its place
   among all, so what is newest in the log is newest of all. *)
LEMMA QueryNewest ==
  ASSUME RecordedOK, LogExact, NEW clients, NEW status \in Int, NEW limit \in Int
  PROVE  FindsNewest(clients, status, limit)
<1>1. PICK L \in Nat, d \in Nat :
         L = Len(metrics.logs) /\ d = Len(recorded) - L /\ DOMAIN metrics.logs = 1 .. L
  <2>1. Len(metrics.logs) \in Nat /\ DOMAIN metrics.logs = 1 .. Len(metrics.logs)
    BY DEF LogExact
  <2>2. Len(metrics.logs) <= Len(recorded) /\ Len(recorded) \in Nat
    BY <2>1 DEF LogExact, EndOf, RecordedOK
  <2>3. Len(recorded) - Len(metrics.logs) \in Nat
    BY <2>1, <2>2
  <2> QED BY <2>1, <2>3
<1>2. ASSUME NEW i \in 1 .. L
      PROVE  metrics.logs[i] = [id |-> i + d, client |-> IpOf[recorded[i + d]],
                                status |-> answer[recorded[i + d]].status]
  <2>1. metrics.logs[i] = Entries[Len(recorded) - L + i]
    BY <1>1 DEF LogExact, EndOf
  <2>2. Len(recorded) - L + i = i + d /\ i + d \in 1 .. Len(recorded)
    BY <1>1 DEF RecordedOK
  <2> QED BY <2>1, <2>2 DEF Entries
<1> DEFINE W == Meeting(1 .. L, metrics.logs, clients, status)
           asked == Asked(clients, status)
<1>3. asked = Shifted(W, d)
  <2> DEFINE Suits(k) == IpOf[recorded[k]] \in clients
                           /\ (status <= 0 \/ answer[recorded[k]].status = status)
  <2>1. Len(recorded) = d + L /\ Len(recorded) - Len(metrics.logs) + 1 = d + 1
    BY <1>1 DEF RecordedOK
  <2>2. asked = {k \in d + 1 .. d + L : Suits(k)}
    <3>1. asked = {k \in Len(recorded) - Len(metrics.logs) + 1 .. Len(recorded) : Suits(k)}
      BY DEF Asked
    <3> HIDE DEF Suits
    <3> QED BY <2>1, <3>1
  <2>3. W = {i \in 1 .. L : Suits(i + d)}
    <3>1. ASSUME NEW i \in 1 .. L
          PROVE  Meets(metrics.logs[i], clients, status) <=> Suits(i + d)
      <4>0. metrics.logs[i] = [id |-> i + d, client |-> IpOf[recorded[i + d]],
                               status |-> answer[recorded[i + d]].status]
        BY <1>2
      <4>1. /\ metrics.logs[i].client = IpOf[recorded[i + d]]
            /\ metrics.logs[i].status = answer[recorded[i + d]].status
        BY <4>0
      <4> QED BY <4>1, Zenon DEF Meets
    <3> HIDE DEF Suits
    <3> QED BY <3>1 DEF Meeting
  <2> HIDE DEF Suits
  <2>4. ASSUME NEW k \in asked PROVE \E i \in W : k = i + d
    <3>1. k - d \in 1 .. L /\ k = (k - d) + d
      BY <2>2
    <3> QED BY <2>2, <2>3, <3>1
  <2>5. ASSUME NEW i \in W PROVE i + d \in asked
    <3>1. i + d \in d + 1 .. d + L
      BY <2>3
    <3> QED BY <2>2, <2>3, <3>1
  <2> HIDE DEF W, asked
  <2> QED BY <2>4, <2>5 DEF Shifted
<1>4. W \in SUBSET (1 .. L) /\ W \in SUBSET Int /\ IsFiniteSet(W) /\ Cardinality(W) \in Nat
  <2>1. metrics.logs \in Seq(Log)
    BY DEF LogExact
  <2>2. W \in SUBSET (1 .. L)
    BY DEF Meeting
  <2>3. IsFiniteSet(W) /\ Cardinality(W) \in Nat
    <3>1. 1 .. L \in SUBSET DOMAIN metrics.logs
      BY <1>1
    <3> QED BY <2>1, <3>1, MeetingFinite
  <2> HIDE DEF W
  <2> QED BY <2>2, <2>3
<1>5. Cardinality(asked) = Cardinality(W)
  <2> HIDE DEF W, asked
  <2> QED BY <1>3, <1>4, ShiftedCount
<1>6. ASSUME NEW i \in W
      PROVE  Cardinality({k \in asked : k > i + d}) = Cardinality(Above(W, i))
  <2>1. {k \in asked : k > i + d} = Shifted(Above(W, i), d)
    <3> HIDE DEF W, asked
    <3>1. \A k \in W : k + d > i + d <=> k > i
      BY <1>4
    <3> QED BY <1>3, <3>1 DEF Above, Shifted
  <2>2. IsFiniteSet(Above(W, i)) /\ Above(W, i) \in SUBSET Int
    BY <1>4, AboveFinite DEF Above
  <2> HIDE DEF W, asked
  <2> QED BY <2>1, <2>2, ShiftedCount
<1> DEFINE found == Metrics!Logs(clients, status, limit)
<1>7. /\ found \in Seq(Log)
      /\ Len(found) = IF Cardinality(W) < Most(limit) THEN Cardinality(W) ELSE Most(limit)
      /\ \A j \in 1 .. Len(found) :
           \E i \in W : found[j] = metrics.logs[i] /\ Cardinality(Above(W, i)) = j - 1
  BY <1>1, QueryFinds DEF LogExact, Finds
<1> HIDE DEF W, asked, found
<1>8. ASSUME NEW j \in 1 .. Len(found)
      PROVE  /\ found[j].id \in asked
             /\ Cardinality({i \in asked : i > found[j].id}) = j - 1
             /\ found[j].client = IpOf[recorded[found[j].id]]
             /\ found[j].status = answer[recorded[found[j].id]].status
  <2>1. PICK i \in W : found[j] = metrics.logs[i] /\ Cardinality(Above(W, i)) = j - 1
    BY <1>7
  <2>2. found[j] = [id |-> i + d, client |-> IpOf[recorded[i + d]],
                    status |-> answer[recorded[i + d]].status]
    BY <1>2, <1>4, <2>1
  <2>3. found[j].id \in asked
    BY <1>3, <2>1, <2>2 DEF Shifted
  <2> QED BY <1>6, <2>1, <2>2, <2>3
<1> QED BY <1>5, <1>7, <1>8 DEF FindsNewest, Most, asked, found

-------------------------------------------------------------------------------
(* What a bucket counts *)
LEMMA BucketNone == BucketOf({}) = Metrics!EmptyBucket
<1>1. /\ {id \in {} : answer[id].status \in 400..499} = {}
      /\ {id \in {} : answer[id].status >= 500} = {}
  OBVIOUS
<1> QED BY <1>1, TallyNone, FS_EmptySet DEF BucketOf, Metrics!EmptyBucket

LEMMA BucketSame ==
  ASSUME NEW set \in SUBSET Ids, \A id \in set : answer'[id] = answer[id]
  PROVE  BucketOf(set)' = BucketOf(set)
<1>1. /\ {id \in set : answer'[id].status \in 400..499} =
             {id \in set : answer[id].status \in 400..499}
      /\ {id \in set : answer'[id].status >= 500} = {id \in set : answer[id].status >= 500}
  OBVIOUS
<1> QED BY <1>1, TallySame DEF BucketOf

LEMMA CountSame == \A S : Metrics!Cardinality(S) = Cardinality(S)
  BY DEF Metrics!Cardinality, Cardinality

LEMMA CountOne ==
  ASSUME NEW set, IsFiniteSet(set), NEW id, id \notin set, NEW some \in SUBSET (set \union {id})
  PROVE  /\ Cardinality(some \ {id}) \in Nat
         /\ Cardinality(some) = Cardinality(some \ {id}) + Metrics!If(id \in some)
<1>1. IsFiniteSet(some \ {id})
  BY FS_Subset
<1>0. Cardinality(some \ {id}) \in Nat
  BY <1>1, FS_CardinalityType
<1>2. CASE id \in some
  <2>1. some = (some \ {id}) \union {id}
    BY <1>2
  <2>2. Cardinality(some) = Cardinality(some \ {id}) + 1
    BY <1>1, <2>1, FS_AddElement
  <2>3. Metrics!If(id \in some) = 1
    BY <1>2 DEF Metrics!If
  <2> QED BY <1>0, <2>2, <2>3
<1>3. CASE id \notin some
  <2>1. some = some \ {id}
    BY <1>3
  <2>2. Metrics!If(id \in some) = 0
    BY <1>3 DEF Metrics!If
  <2>3. Cardinality(some) = Cardinality(some \ {id})
    BY <2>1, Zenon
  <2> QED BY <1>0, <2>2, <2>3
<1> QED BY <1>0, <1>2, <1>3

LEMMA BucketAdds ==
  ASSUME AnswersOK, NEW set \in SUBSET Ids, NEW id \in Ids \ set
  PROVE  Metrics!Filled(BucketOf(set), EventOf(id)) = BucketOf(set \union {id})
<1>0. Tally(set \union {id}) = [requests |-> Tally(set).requests + 1,
                               bytes    |-> Tally(set).bytes + EventSize(id)]
  BY TallyAdds
<1> DEFINE all == set \union {id}
           Fourth(s) == {other \in s : answer[other].status \in 400..499}
           Fifth(s) == {other \in s : answer[other].status >= 500}
<1>1. IsFiniteSet(set) /\ Cardinality(set) \in Nat /\ Cardinality(all) = Cardinality(set) + 1
  BY KeyAssumption, FS_Subset, FS_CardinalityType, FS_AddElement
<1>2. Tally(all).bytes = Tally(set).bytes + EventSize(id)
  BY <1>0
<1>3. Cardinality(Fourth(all)) =
        Cardinality(Fourth(set)) + Metrics!If(answer[id].status \in 400..499)
  <2>1. /\ Fourth(all) \in SUBSET all /\ Fourth(all) \ {id} = Fourth(set)
        /\ id \in Fourth(all) <=> answer[id].status \in 400..499
    OBVIOUS
  <2> DEFINE s == Fourth(all)
  <2> HIDE DEF Fourth
  <2>2. s \in SUBSET (set \union {id})
    BY <2>1
  <2> HIDE DEF s
  <2>3. Cardinality(s) = Cardinality(s \ {id}) + Metrics!If(id \in s)
    BY <1>1, <2>2, CountOne
  <2> QED BY <2>1, <2>3 DEF Metrics!If, s
<1>4. Cardinality(Fifth(all)) = Cardinality(Fifth(set)) + Metrics!If(answer[id].status >= 500)
  <2>1. /\ Fifth(all) \in SUBSET all /\ Fifth(all) \ {id} = Fifth(set)
        /\ id \in Fifth(all) <=> answer[id].status >= 500
    OBVIOUS
  <2>2. Cardinality(Fifth(all)) = Cardinality(Fifth(all) \ {id}) + Metrics!If(id \in Fifth(all))
    BY <1>1, <2>1, CountOne
  <2> QED BY <2>1, <2>2 DEF Metrics!If
<1>5. BucketOf(all) = [requests |-> Cardinality(all), bandwidth |-> Tally(all).bytes,
                       errors4xx |-> Cardinality(Fourth(all)),
                       errors5xx |-> Cardinality(Fifth(all))]
  BY DEF BucketOf
<1>6. BucketOf(set) = [requests |-> Cardinality(set), bandwidth |-> Tally(set).bytes,
                       errors4xx |-> Cardinality(Fourth(set)),
                       errors5xx |-> Cardinality(Fifth(set))]
  BY DEF BucketOf
<1>7. EventOf(id).status = answer[id].status /\ Metrics!EventBytes(EventOf(id)) = EventSize(id)
  BY DEF EventOf, EventSize
<1> HIDE DEF all, Fourth, Fifth
<1>8. Metrics!Filled(BucketOf(set), EventOf(id)) = BucketOf(all)
  BY <1>1, <1>2, <1>3, <1>4, <1>5, <1>6, <1>7 DEF Metrics!Filled
<1> QED BY <1>8 DEF all

-------------------------------------------------------------------------------
(* The minutes that have a bucket *)
Charted == DOMAIN metrics.buckets

(* The minutes of the requests recorded have a bucket or were trimmed.  While the limit
   has not been raised since, as many newer minutes as it allows have kept every minute
   trimmed out. *)
BucketsOK ==
  /\ IsFiniteSet(Charted) /\ Charted \subseteq Minutes(recorded)
  /\ trimmed \subseteq Minutes(recorded) /\ Minutes(recorded) \subseteq Charted \union trimmed
  /\ ~raised => \A m \in trimmed :
       m \notin Charted /\ Cardinality(Above(Charted, m)) >= metrics.maxBuckets
  /\ recorded # << >> => \E m \in Charted : \A l \in Minutes(recorded) : l <= m
  /\ \A m \in Charted :
       IF m \in trimmed
       THEN /\ metrics.buckets[m].requests \in Nat
            /\ metrics.buckets[m].requests < Cardinality(StartedIn(m))
       ELSE metrics.buckets[m] = BucketOf(StartedIn(m))

LEMMA MinutesInt ==
  ASSUME PipelineTypeOK, RecordedOK
  PROVE  /\ \A id \in Ids : StartMinute(id) \in Int
         /\ Minutes(recorded) = {StartMinute(id) : id \in Recorded}
         /\ \A m \in Minutes(recorded) : m \in Int /\ StartedIn(m) # {}
         /\ \A m : StartedIn(m) \in SUBSET Ids /\ (m \notin Minutes(recorded) => StartedIn(m) = {})
<1>1. \A id \in Ids : StartMinute(id) \in Int
  <2>1. \A id \in Ids : startedAt[id] \in Int
    BY DEF PipelineTypeOK, Times, Never
  <2> QED BY <2>1, MetricsAssumption DEF StartMinute, Metrics!MinuteOf
<1>2. Recorded \in SUBSET Ids
  BY DEF RecordedOK, Done
<1>3. Minutes(recorded) = {StartMinute(id) : id \in Recorded}
  BY DEF Minutes, Recorded
<1> QED BY <1>1, <1>2, <1>3 DEF StartedIn

(* When at least n of a set of minutes are after m, its n greatest are. *)
LEMMA StaysOut ==
  ASSUME NEW S, IsFiniteSet(S), \A s \in S : s \in Int, NEW n \in Nat, NEW m \in Int,
         Cardinality(Above(S, m)) >= n
  PROVE  m \notin Greatest(S, n) /\ Cardinality(Above(Greatest(S, n), m)) >= n
<1> DEFINE K == Greatest(S, n)
<1>0. \A x : IsFiniteSet(Above(S, x)) /\ Cardinality(Above(S, x)) \in Nat
  BY AboveFinite
<1>1. \A x \in K : x > m
  <2> SUFFICES ASSUME NEW x \in K, ~(x > m) PROVE FALSE
    OBVIOUS
  <2>1. x \in Int /\ Cardinality(Above(S, x)) < n
    BY DEF Greatest
  <2>2. Above(S, m) \in SUBSET Above(S, x)
    BY <2>1 DEF Above
  <2>3. Cardinality(Above(S, m)) <= Cardinality(Above(S, x))
    BY <1>0, <2>2, FS_Subset
  <2> HIDE DEF K
  <2> QED BY <1>0, <2>1, <2>3
<1>2. Above(K, m) = K
  BY <1>1 DEF Above
<1>3. Cardinality(K) = IF Cardinality(S) < n THEN Cardinality(S) ELSE n
  BY GreatestCount
<1>4. Cardinality(S) >= n /\ Cardinality(S) \in Nat
  <2>1. Cardinality(Above(S, m)) <= Cardinality(S) /\ Cardinality(S) \in Nat
    BY FS_Subset, FS_CardinalityType DEF Above
  <2> QED BY <1>0, <2>1
<1> HIDE DEF K
<1>5. Cardinality(Above(K, m)) >= n
  BY <1>2, <1>3, <1>4
<1>6. m \notin K
  BY <1>1
<1> QED BY <1>5, <1>6 DEF K

LEMMA BucketsInit == RecordsInit => BucketsOK
<1> SUFFICES ASSUME RecordsInit PROVE BucketsOK
  OBVIOUS
<1>1. metrics.buckets = << >> /\ recorded = << >> /\ trimmed = {}
  BY DEF RecordsInit, PipelineInit, Metrics!NewObservability
<1>2. Charted = {} /\ Minutes(recorded) = {}
  BY <1>1 DEF Charted, Minutes
<1> QED BY <1>1, <1>2, FS_EmptySet DEF BucketsOK

LEMMA BucketsKept ==
  ASSUME PipelineTypeOK, RecordedOK, BucketsOK, Kept, recorded' = recorded, trimmed' = trimmed,
         metrics'.maxBuckets \in Nat,
         ~raised' => ~raised /\ ~(trimmed # {} /\ metrics'.maxBuckets > metrics.maxBuckets)
  PROVE  BucketsOK'
<1>1. metrics'.buckets = metrics.buckets /\ Charted' = Charted
  BY DEF Kept, Charted
<1>2. \A id \in Recorded : StartMinute(id)' = StartMinute(id) /\ answer'[id] = answer[id]
  BY DEF Kept, RecordedOK, StartMinute, Metrics!MinuteOf
<1>3. Minutes(recorded)' = Minutes(recorded)
  BY <1>2 DEF Minutes, Recorded
<1>4. \A m : StartedIn(m)' = StartedIn(m) /\ StartedIn(m) \in SUBSET Ids
  BY <1>2, MinutesInt DEF StartedIn, Recorded
<1>5. ASSUME NEW m PROVE BucketOf(StartedIn(m))' = BucketOf(StartedIn(m))
  <2>1. \A id \in StartedIn(m) : answer'[id] = answer[id]
    BY <1>2 DEF StartedIn
  <2>2. \A set \in SUBSET Ids :
          (\A id \in set : answer'[id] = answer[id]) => BucketOf(set)' = BucketOf(set)
    BY BucketSame
  <2> QED BY <1>4, <2>1, <2>2
<1>6. ~raised' => \A m \in trimmed :
        m \notin Charted /\ Cardinality(Above(Charted, m)) >= metrics'.maxBuckets
  <2> SUFFICES ASSUME ~raised', NEW m \in trimmed
               PROVE  m \notin Charted /\ Cardinality(Above(Charted, m)) >= metrics'.maxBuckets
    OBVIOUS
  <2>1. ~raised /\ metrics'.maxBuckets <= metrics.maxBuckets
    <3>1. ~raised /\ ~(metrics'.maxBuckets > metrics.maxBuckets)
      BY Zenon
    <3>2. metrics.maxBuckets \in Nat
      BY DEF PipelineTypeOK, Metrics!TypeOK
    <3>3. metrics'.maxBuckets <= metrics.maxBuckets
      BY <3>1, <3>2
    <3> QED BY <3>1, <3>3
  <2>2. m \notin Charted /\ Cardinality(Above(Charted, m)) >= metrics.maxBuckets
    BY <2>1 DEF BucketsOK
  <2>3. Cardinality(Above(Charted, m)) \in Nat /\ metrics.maxBuckets \in Nat
    BY AboveFinite DEF BucketsOK, PipelineTypeOK, Metrics!TypeOK
  <2> QED BY <2>1, <2>2, <2>3
<1>7. \A m \in Charted' :
       IF m \in trimmed'
       THEN /\ metrics'.buckets[m].requests \in Nat
            /\ metrics'.buckets[m].requests < Cardinality(StartedIn(m)')
       ELSE metrics'.buckets[m] = BucketOf(StartedIn(m))'
  BY <1>1, <1>4, <1>5 DEF BucketsOK
<1> QED BY <1>1, <1>3, <1>6, <1>7 DEF BucketsOK

LEMMA BucketsStep ==
  ASSUME PipelineTypeOK, AnswersOK, RecordedOK, RecordedOK', PipelineTypeOK', BucketsOK,
         RecordsNext, NEW id \in Ids, Record(id)
  PROVE  BucketsOK' /\ Cardinality(Charted') <= metrics.maxBuckets
<1>1. /\ Recording /\ id \notin Done /\ recorded' = Append(recorded, id)
      /\ answer' = answer /\ startedAt' = startedAt
      /\ Metrics!TypeOK /\ Metrics!Record(EventOf(id))
  BY RecordStep
<1>2. PICK n \in Nat \ {0} : n = metrics.maxBuckets /\ n = metrics'.maxBuckets
  BY <1>1, RecordEffect DEF Metrics!TypeOK
<1>3. PICK mn \in Int : mn = StartMinute(id)
  BY MinutesInt
<1>4. Recorded' = Recorded \union {id} /\ Recorded = Done /\ Recorded' \in SUBSET Ids
  BY RecordStep DEF RecordedOK, Done
<1>5. \A r \in Ids : StartMinute(r)' = StartMinute(r)
  BY <1>1 DEF StartMinute, Metrics!MinuteOf
<1>6. /\ StartedIn(mn)' = StartedIn(mn) \union {id} /\ id \notin StartedIn(mn)
      /\ \A m : m # mn => StartedIn(m)' = StartedIn(m)
  BY <1>1, <1>3, <1>4, <1>5 DEF StartedIn
<1>7. Minutes(recorded)' = Minutes(recorded) \union {mn}
  <2>1. Minutes(recorded) = {StartMinute(r) : r \in Recorded}
    BY MinutesInt
  <2>2. Minutes(recorded)' = {StartMinute(r)' : r \in Recorded'}
    BY DEF Minutes, Recorded
  <2> QED BY <1>3, <1>4, <1>5, <2>1, <2>2
<1> DEFINE S == Charted \union {mn}
           K == Greatest(S, n)
           old == Metrics!At(metrics.buckets, mn, Metrics!EmptyBucket)
           put == Metrics!Put(metrics.buckets, mn, Metrics!Filled(old, EventOf(id)))
<1>8. /\ IsFiniteSet(S) /\ \A m \in S : m \in Int
      /\ IsFiniteSet(K) /\ Cardinality(K) <= n /\ K \in SUBSET S
  <2>1. IsFiniteSet(S) /\ \A m \in S : m \in Int
    BY <1>3, MinutesInt, FS_AddElement DEF BucketsOK
  <2>2. Cardinality(S) \in Nat
    BY <2>1, FS_CardinalityType
  <2>3. IsFiniteSet(K) /\ Cardinality(K) = IF Cardinality(S) < n THEN Cardinality(S) ELSE n
    <3> HIDE DEF S
    <3> QED BY <2>1, GreatestCount
  <2>4. K \in SUBSET S
    BY DEF Greatest
  <2> HIDE DEF K, S
  <2> QED BY <2>1, <2>2, <2>3, <2>4
<1>9. /\ DOMAIN put = S /\ put[mn] = Metrics!Filled(old, EventOf(id))
      /\ \A m \in Charted : m # mn => put[m] = metrics.buckets[m]
  BY DEF Metrics!Put, Charted
<1>10. metrics'.buckets = Metrics!TrimBuckets(put, n)
  BY <1>1, <1>2, <1>3, RecordEffect DEF EventOf, StartMinute
<1> HIDE DEF put, old
<1>11. Charted' = K /\ \A m \in K : metrics'.buckets[m] = put[m]
  <2>1. metrics'.buckets = [m \in K |-> put[m]]
    <3>1. DOMAIN put = S
      BY <1>9
    <3> HIDE DEF S
    <3>2. K = {m \in S : Cardinality({l \in S : l > m}) < n}
      BY DEF Greatest, Above
    <3> QED BY <1>10, <3>1, <3>2, CountSame DEF Metrics!TrimBuckets
  <2> QED BY <2>1 DEF Charted
<1>12. /\ trimmed' = {m \in Minutes(recorded)' : m \notin K} \union trimmed
       /\ ~raised' => ~raised
  <2>1. trimmed' = {m \in Minutes(recorded)' : m \notin Charted'} \union trimmed
    <3>1. Minutes(recorded)' = Minutes(recorded')
      BY <1>1 DEF Minutes, StartMinute, Metrics!MinuteOf
    <3> QED BY <1>1, <3>1 DEF RecordsNext, Charted
  <2>2. ~raised' => ~raised
    BY Zenon DEF RecordsNext
  <2> QED BY <1>11, <2>1, <2>2
<1>13. /\ K \subseteq Minutes(recorded)' /\ trimmed' \subseteq Minutes(recorded)'
       /\ Minutes(recorded)' \subseteq K \union trimmed'
  <2>1. S \subseteq Minutes(recorded)' /\ trimmed \subseteq Minutes(recorded)'
    BY <1>7 DEF BucketsOK
  <2> HIDE DEF S, K
  <2> QED BY <1>8, <1>12, <2>1
<1>14. ASSUME ~raised', NEW m \in trimmed'
       PROVE  m \notin K /\ Cardinality(Above(K, m)) >= n
  <2>1. m \in Int
    BY <1>3, <1>7, <1>13, MinutesInt
  <2>2. Cardinality(Above(S, m)) >= n
    <3>1. CASE m \in trimmed
      <4>1. Cardinality(Above(Charted, m)) >= n
        BY <1>2, <1>12, <1>14, <3>1 DEF BucketsOK
      <4>2. Above(Charted, m) \in SUBSET Above(S, m)
        BY DEF Above
      <4>3. Cardinality(Above(Charted, m)) <= Cardinality(Above(S, m))
        BY <1>8, <4>2, AboveFinite, FS_Subset
      <4>4. Cardinality(Above(Charted, m)) \in Nat /\ Cardinality(Above(S, m)) \in Nat
        BY <1>8, AboveFinite DEF BucketsOK
      <4> HIDE DEF S
      <4> QED BY <4>1, <4>3, <4>4
    <3>2. CASE m \notin trimmed
      <4>1. m \in S /\ m \notin K
        BY <1>7, <1>12, <3>2 DEF BucketsOK
      <4>2. ~(Cardinality(Above(S, m)) < n)
        BY <4>1 DEF Greatest
      <4>3. Cardinality(Above(S, m)) \in Nat
        BY <1>8, AboveFinite
      <4> HIDE DEF S
      <4> QED BY <4>2, <4>3
    <3> QED BY <3>1, <3>2
  <2> HIDE DEF S
  <2> QED BY <1>8, <2>1, <2>2, StaysOut
<1>15. \E m \in K : \A l \in Minutes(recorded)' : l <= m
  <2>1. PICK t \in S : \A l \in Minutes(recorded)' : l <= t
    <3>1. CASE Minutes(recorded) = {}
      BY <1>7, <3>1
    <3>2. CASE Minutes(recorded) # {}
      <4>1. recorded # << >>
        BY <3>2 DEF Minutes
      <4>2. PICK u \in Charted : \A l \in Minutes(recorded) : l <= u
        BY <4>1 DEF BucketsOK
      <4>3. u \in Int /\ \A l \in Minutes(recorded) : l \in Int
        BY MinutesInt DEF BucketsOK
      <4>4. CASE u <= mn
        BY <1>7, <4>2, <4>3, <4>4
      <4>5. CASE mn <= u
        BY <1>7, <4>2, <4>3, <4>5
      <4> QED BY <4>3, <4>4, <4>5
    <3> QED BY <3>1, <3>2
  <2>2. S \subseteq Minutes(recorded)'
    BY <1>7 DEF BucketsOK
  <2>3. Above(S, t) = {}
    <3>1. \A l \in S : l <= t /\ l \in Int
      BY <1>8, <2>1, <2>2
    <3> HIDE DEF S
    <3> QED BY <2>1, <3>1 DEF Above
  <2>4. t \in K
    BY <2>1, <2>3, FS_EmptySet DEF Greatest
  <2> QED BY <2>1, <2>4
<1>16. ASSUME NEW m \in K
       PROVE  IF m \in trimmed'
              THEN /\ metrics'.buckets[m].requests \in Nat
                   /\ metrics'.buckets[m].requests < Cardinality(StartedIn(m)')
              ELSE metrics'.buckets[m] = BucketOf(StartedIn(m))'
  <2>1. m \in trimmed' <=> m \in trimmed
    BY <1>12
  <2>2. metrics'.buckets[m] = put[m]
    BY <1>11
  <2>3. \A set \in SUBSET Ids : BucketOf(set)' = BucketOf(set)
    BY <1>1, BucketSame
  <2>4. /\ StartedIn(m) \in SUBSET Ids /\ IsFiniteSet(StartedIn(m))
        /\ Cardinality(StartedIn(m)) \in Nat
    BY MinutesInt, KeyAssumption, FS_Subset, FS_CardinalityType
  <2>5. CASE m # mn
    <3>1. m \in Charted /\ put[m] = metrics.buckets[m]
      BY <1>8, <1>9, <2>5
    <3>2. StartedIn(m)' = StartedIn(m)
      BY <1>6, <2>5
    <3>3. BucketOf(StartedIn(m))' = BucketOf(StartedIn(m))
      BY <2>3, <2>4, <3>2
    <3> QED BY <2>1, <2>2, <3>1, <3>2, <3>3 DEF BucketsOK
  <2>6. CASE m = mn
    <3>1. put[m] = Metrics!Filled(old, EventOf(id)) /\ StartedIn(m)' = StartedIn(m) \union {id}
      BY <1>6, <1>9, <2>6
    <3>2. CASE m \in trimmed
      <4>1. old.requests \in Nat /\ old.requests < Cardinality(StartedIn(m))
        <5>1. CASE m \in Charted
          BY <2>6, <3>2, <5>1 DEF BucketsOK, old, Metrics!At, Charted
        <5>2. CASE m \notin Charted
          <6>1. old.requests = 0
            BY <2>6, <5>2 DEF old, Metrics!At, Charted, Metrics!EmptyBucket
          <6>2. StartedIn(m) # {}
            BY <3>2, MinutesInt DEF BucketsOK
          <6>3. Cardinality(StartedIn(m)) # 0
            BY <2>4, <6>2, FS_EmptySet
          <6> QED BY <2>4, <6>1, <6>3
        <5> QED BY <5>1, <5>2
      <4>2. put[m].requests = old.requests + 1
        BY <3>1 DEF Metrics!Filled
      <4>3. Cardinality(StartedIn(m)') = Cardinality(StartedIn(m)) + 1
        BY <1>6, <2>4, <2>6, <3>1, FS_AddElement
      <4> QED BY <2>1, <2>2, <2>4, <3>2, <4>1, <4>2, <4>3
    <3>3. CASE m \notin trimmed
      <4>1. old = BucketOf(StartedIn(m))
        <5>1. CASE m \in Charted
          BY <2>6, <3>3, <5>1 DEF BucketsOK, old, Metrics!At, Charted
        <5>2. CASE m \notin Charted
          <6>1. old = Metrics!EmptyBucket
            BY <2>6, <5>2 DEF old, Metrics!At, Charted
          <6>2. StartedIn(m) = {}
            BY <3>3, <5>2, MinutesInt DEF BucketsOK
          <6> QED BY <6>1, <6>2, BucketNone
        <5> QED BY <5>1, <5>2
      <4>2. Metrics!Filled(BucketOf(StartedIn(m)), EventOf(id)) =
              BucketOf(StartedIn(m) \union {id})
        BY <1>6, <2>4, <2>6, BucketAdds
      <4>3. BucketOf(StartedIn(m))' = BucketOf(StartedIn(m) \union {id})
        <5>1. StartedIn(m) \union {id} \in SUBSET Ids
          BY <2>4
        <5> QED BY <2>3, <3>1, <5>1
      <4> QED BY <2>1, <2>2, <3>1, <3>3, <4>1, <4>2, <4>3
    <3> QED BY <3>2, <3>3
  <2> QED BY <2>5, <2>6
<1> HIDE DEF K, S
<1> QED BY <1>2, <1>8, <1>11, <1>12, <1>13, <1>14, <1>15, <1>16 DEF BucketsOK

-------------------------------------------------------------------------------
RecordsInv ==
  /\ PipelineTypeOK /\ AnswersOK
  /\ RecordedOK /\ RecordsAgree /\ LogExact /\ BucketsOK

LEMMA RecordsInvInit == RecordsInit /\ PipelineTypeOK => RecordsInv
  BY AnswersInit, RecordedInit, AgreeInit, LogInit, BucketsInit DEF RecordsInit, RecordsInv

(* A step that records nothing keeps all of it. *)
LEMMA RecordsInvKept ==
  ASSUME RecordsInv, PipelineTypeOK', [RecordsNext]_recordsVars, ~\E id \in Ids : Record(id)
  PROVE  RecordsInv' /\ ~Recording
<1>1. /\ PipelineTypeOK /\ AnswersOK
      /\ RecordedOK /\ RecordsAgree /\ LogExact /\ BucketsOK
  BY DEF RecordsInv
<1>2. [PipelineNext]_pipelineVars
  BY DEF RecordsNext, recordsVars
<1>3. Kept /\ ~Recording
  <2>1. Kept
    BY <1>1, <1>2, StepKeeps
  <2> QED BY <2>1 DEF Kept
<1>4. recorded' = recorded /\ trimmed' = trimmed
  <2>1. CASE RecordsNext
    BY <1>3, <2>1, Zenon DEF RecordsNext
  <2>2. CASE UNCHANGED recordsVars
    BY <2>2 DEF recordsVars
  <2> QED BY <2>1, <2>2
<1>5. metrics.maxBuckets \in Nat /\ metrics'.maxBuckets \in Nat
  BY <1>1 DEF PipelineTypeOK, Metrics!TypeOK
<1>6. ~raised' => ~raised /\ ~(trimmed # {} /\ metrics'.maxBuckets > metrics.maxBuckets)
  <2>1. CASE RecordsNext
    BY <2>1, Zenon DEF RecordsNext
  <2>2. CASE UNCHANGED recordsVars
    <3>1. (~raised' => ~raised) /\ metrics' = metrics
      BY <2>2, Zenon DEF recordsVars, pipelineVars
    <3>2. ~(metrics'.maxBuckets > metrics.maxBuckets)
      BY <1>5, <3>1
    <3> QED BY <3>1, <3>2, Zenon
  <2> QED BY <2>1, <2>2, Zenon
<1>7. AnswersOK'
  BY <1>1, <1>2, AnswersStep
<1>8. RecordedOK' /\ RecordsAgree' /\ LogExact'
  BY <1>1, <1>3, <1>4, RecordedKept, AgreeKept, LogKept
<1>9. BucketsOK'
  BY <1>1, <1>3, <1>4, <1>5, <1>6, BucketsKept
<1> QED BY <1>3, <1>7, <1>8, <1>9 DEF RecordsInv

LEMMA RecordsInvRecord ==
  ASSUME RecordsInv, PipelineTypeOK', RecordsNext, NEW id \in Ids, Record(id)
  PROVE  /\ RecordsInv'
         /\ Len(metrics'.logs) <= metrics.maxLogs
         /\ Cardinality(DOMAIN metrics'.buckets) <= metrics.maxBuckets
<1>1. /\ PipelineTypeOK /\ AnswersOK
      /\ RecordedOK /\ RecordsAgree /\ LogExact /\ BucketsOK
  BY DEF RecordsInv
<1>2. AnswersOK'
  BY <1>1, AnswersStep DEF RecordsNext
<1>3. RecordedOK' /\ RecordsAgree'
  BY <1>1, RecordedStep, AgreeStep
<1>4. LogExact' /\ Len(metrics'.logs) <= metrics.maxLogs
  BY <1>1, LogStep
<1>5. BucketsOK' /\ Cardinality(Charted') <= metrics.maxBuckets
  BY <1>1, <1>3, BucketsStep
<1> QED BY <1>2, <1>3, <1>4, <1>5 DEF RecordsInv, Charted

LEMMA RecordsInvStep ==
  RecordsInv /\ PipelineTypeOK' /\ [RecordsNext]_recordsVars =>
    /\ RecordsInv'
    /\ [Recording => /\ Len(metrics'.logs) <= metrics.maxLogs
                     /\ Cardinality(DOMAIN metrics'.buckets) <= metrics.maxBuckets]_recordsVars
<1> SUFFICES ASSUME RecordsInv, PipelineTypeOK', [RecordsNext]_recordsVars
             PROVE  /\ RecordsInv'
                    /\ Recording => /\ Len(metrics'.logs) <= metrics.maxLogs
                                    /\ Cardinality(DOMAIN metrics'.buckets) <= metrics.maxBuckets
  OBVIOUS
<1>1. CASE ~\E id \in Ids : Record(id)
  BY <1>1, RecordsInvKept
<1>2. ASSUME NEW id \in Ids, Record(id), RecordsNext
      PROVE  /\ RecordsInv'
             /\ Len(metrics'.logs) <= metrics.maxLogs
             /\ Cardinality(DOMAIN metrics'.buckets) <= metrics.maxBuckets
  BY <1>2, RecordsInvRecord
<1>3. ASSUME NEW id \in Ids, Record(id), UNCHANGED recordsVars PROVE FALSE
  <2>1. stage[id] = "settled" /\ stage'[id] = "done" /\ stage' = stage
    BY <1>1, <1>3 DEF Record, To, recordsVars, pipelineVars, RecordsInv, PipelineTypeOK
  <2> QED BY <2>1
<1> QED BY <1>1, <1>2, <1>3

LEMMA RecordsUsePipeline == RecordsSpec => PipelineSpec
<1>1. RecordsInit => PipelineInit
  BY DEF RecordsInit
<1>2. [RecordsNext]_recordsVars => [PipelineNext]_pipelineVars
  BY DEF RecordsNext, recordsVars
<1> QED BY <1>1, <1>2, PTL DEF RecordsSpec, PipelineSpec

LEMMA RecordsInvHolds == RecordsSpec => []RecordsInv
  BY RecordsInvInit, RecordsInvStep, RecordsUsePipeline, PipelineUsesLimiter, PTL DEF RecordsSpec

(* The metrics are those of the requests that telemetry has seen through, each counted
   once: in the totals and for its client, with its size and whether it failed. *)
THEOREM RecordsCorrect == RecordsSpec => []RecordsAgree
<1>1. RecordsInv => RecordsAgree
  BY DEF RecordsInv
<1> QED BY <1>1, RecordsInvHolds, PTL

(* The bytes shown are those read and written, with what was declared and not read, without
   what was read undeclared and not forwarded, less one for every answer without a body. *)
THEOREM BytesCorrect == RecordsSpec => []BytesExplained
<1>1. RecordsInv => BytesExplained
  BY BytesFollow DEF RecordsInv
<1> QED BY <1>1, RecordsInvHolds, PTL

(* Whatever limits come in between, the log holds the newest of the requests recorded,
   each in its place and with its client and status. *)
THEOREM LogCorrect == RecordsSpec => []LogExact
<1>1. RecordsInv => LogExact
  BY DEF RecordsInv
<1> QED BY <1>1, RecordsInvHolds, PTL

(* A query finds the newest of what it asks for, whatever it asks for. *)
THEOREM QueriesCorrect ==
  RecordsSpec => [](\A clients \in SUBSET IPs, status \in Int, limit \in Int :
                      FindsNewest(clients, status, limit))
<1>1. RecordsInv => \A clients \in SUBSET IPs, status \in Int, limit \in Int :
                      FindsNewest(clients, status, limit)
  BY QueryNewest DEF RecordsInv
<1> QED BY <1>1, RecordsInvHolds, PTL

(* LogsAreNewest is an instance of it. *)
THEOREM LogsCorrect == RecordsSpec => []LogsAreNewest
<1>1. RecordsInv => LogsAreNewest
  BY QueryNewest DEF RecordsInv, LogsAreNewest
<1> QED BY <1>1, RecordsInvHolds, PTL

LEMMA BucketsFollow == RecordsInv => BucketsExact
<1> SUFFICES ASSUME RecordsInv PROVE BucketsExact
  OBVIOUS
<1>1. PipelineTypeOK /\ RecordedOK /\ BucketsOK
  BY DEF RecordsInv
<1>2. ASSUME recorded # << >> PROVE Max(Minutes(recorded)) \in DOMAIN metrics.buckets
  <2>1. PICK m \in Charted : \A l \in Minutes(recorded) : l <= m
    BY <1>1, <1>2 DEF BucketsOK
  <2>2. m \in Minutes(recorded) /\ \A l \in Minutes(recorded) : l \in Int
    BY <1>1, MinutesInt DEF BucketsOK
  <2>3. \A k \in Minutes(recorded) : (\A l \in Minutes(recorded) : k >= l) <=> k = m
    BY <2>1, <2>2
  <2>4. Max(Minutes(recorded)) = m
    BY <2>2, <2>3 DEF Max
  <2> QED BY <2>1, <2>4 DEF Charted
<1>3. ASSUME NEW m \in DOMAIN metrics.buckets, m \in trimmed PROVE raised
  BY <1>1, <1>3, Zenon DEF BucketsOK, Charted
<1> QED BY <1>1, <1>2, <1>3 DEF BucketsExact, BucketsOK, Charted

(* A bucket counts all that was recorded for its minute and the newest minute has one;
   a minute that was trimmed comes back only after its limit has been raised. *)
THEOREM BucketsCorrect == RecordsSpec => []BucketsExact
  BY BucketsFollow, RecordsInvHolds, PTL

(* A Record brings the log and the buckets within limits that were lowered. *)
THEOREM LimitsKept == RecordsSpec => RecordWithinLimits
  BY RecordsInvStep, RecordsInvHolds, RecordsUsePipeline, PipelineUsesLimiter, PTL
  DEF RecordsSpec, RecordWithinLimits
===============================================================================
