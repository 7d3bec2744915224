--------------------------- MODULE PipelineHistory ---------------------------
(***************************************************************************)
(* What the metrics of RequestPipeline show of its requests.  The history  *)
(* variables have, beside the state of the program, the requests in the    *)
(* order they were recorded and the minutes that were trimmed.             *)
(***************************************************************************)
EXTENDS RequestPipeline, FiniteSetsExt

\* gin gives the size of an answer as -1 or as what was written.
ASSUME WrittenAssumption == \A size \in Downloads : size >= -1

VARIABLES
  recorded,  \* the requests recorded, in their order
  trimmed,   \* the minutes a Record has trimmed
  raised     \* whether the limit on minutes has been raised after that

RecordsInit == PipelineInit /\ recorded = << >> /\ trimmed = {} /\ raised = FALSE

IsDone(id) == stage[id] = "done"

Done == {id \in Ids : IsDone(id)}

StartMinute(id) == Metrics!MinuteOf(startedAt[id])

Minutes(ids) == {StartMinute(ids[i]) : i \in DOMAIN ids}

Recording == metrics'.requests > metrics.requests

RecordsNext ==
  /\ PipelineNext
  /\ recorded' = IF Recording
                 THEN Append(recorded, CHOOSE id \in Ids : ~IsDone(id) /\ stage'[id] = "done")
                 ELSE recorded
  /\ trimmed' = IF Recording
                THEN {m \in Minutes(recorded') : m \notin DOMAIN metrics'.buckets}
                       \union trimmed
                ELSE trimmed
  /\ raised' = (raised \/ (trimmed # {} /\ metrics'.maxBuckets > metrics.maxBuckets))

recordsVars == <<pipelineVars, recorded, trimmed, raised>>

RecordsSpec == RecordsInit /\ [][RecordsNext]_recordsVars

Recorded == {recorded[i] : i \in DOMAIN recorded}

EventSize(id) == Metrics!EventBytes(EventOf(id))

(* What the records of a set of requests add up to *)
Tally(set) == [requests |-> Cardinality(set), bytes |-> MapThenSumSet(EventSize, set)]

(* Every request that telemetry has seen through is recorded once and no other: the
   totals and the aggregates of each client are those of these requests, refused ones
   included, and of none that panicked or that CORS answered. *)
RecordsAgree ==
  /\ [requests |-> metrics.requests, bytes |-> metrics.bytes] = Tally(Done)
  /\ metrics.errors = Cardinality({id \in Done : answer[id].status >= 400})
  /\ DOMAIN metrics.clients = {IpOf[id] : id \in Done}
  /\ \A c \in DOMAIN metrics.clients :
       metrics.clients[c] = Tally({id \in Done : IpOf[id] = c})

(* What of a body was declared and never read: the request was refused before its
   handler, or answered before the body had come *)
Unread(id) == IF Declared[id] > answer[id].read THEN Declared[id] - answer[id].read ELSE 0

(* What was read of a body of undeclared length and not forwarded *)
Unseen(id) == IF Declared[id] < 0 /\ ~answer[id].forwarded THEN answer[id].read ELSE 0

Written(id) == IF answer[id].size > 0 THEN answer[id].size ELSE 0

(* The bytes a request should have in the metrics, given these two *)
Accounted(id) == answer[id].read + Written(id) + Unread(id) - Unseen(id)

(* The bytes the dashboard shows are those that were read and written, but for three
   things: what was declared and not read counts, what was read undeclared counts only
   if it was forwarded, and every answer in which nothing was written takes one off. *)
BytesExplained ==
  metrics.bytes =
    MapThenSumSet(Accounted, Recorded) - Cardinality({id \in Recorded : answer[id].size < 0})

(* The requests recorded last, as many as the log holds, of one of the clients and of
   the status, by their number *)
Asked(clients, status) ==
  {i \in (Len(recorded) - Len(metrics.logs) + 1) .. Len(recorded) :
     /\ IpOf[recorded[i]] \in clients
     /\ (status <= 0 \/ answer[recorded[i]].status = status)}

(* A query finds the newest of the requests it asks for, newest first, and no more than
   its limit, which is 200 if none is given. *)
FindsNewest(clients, status, limit) ==
  LET found == Metrics!Logs(clients, status, limit)
      asked == Asked(clients, status)
      most == IF limit <= 0 THEN 200 ELSE limit
  IN /\ Len(found) = IF Cardinality(asked) < most THEN Cardinality(asked) ELSE most
     /\ \A j \in 1 .. Len(found) :
          /\ found[j].id \in asked
          /\ Cardinality({i \in asked : i > found[j].id}) = j - 1
          /\ found[j].client = IpOf[recorded[found[j].id]]
          /\ found[j].status = answer[recorded[found[j].id]].status

(* Whatever limits came in between, the log holds the newest requests recorded, and a
   query for it returns the newest of these that it asks for, newest first. *)
LogsAreNewest ==
  \A clients \in SUBSET IPs, status \in {0, 200, 429}, limit \in 0..2 :
    FindsNewest(clients, status, limit)

(* The bucket that counts a set of requests *)
BucketOf(set) ==
  [requests  |-> Cardinality(set),
   bandwidth |-> Tally(set).bytes,
   errors4xx |-> Cardinality({id \in set : answer[id].status \in 400..499}),
   errors5xx |-> Cardinality({id \in set : answer[id].status >= 500})]

StartedIn(m) == {id \in Recorded : StartMinute(id) = m}

(* The newest minute of any request recorded has its bucket, and the buckets count all
   that was recorded for their minutes; while the limit has not been raised no minute
   trimmed comes back, and only one that does counts too few. *)
BucketsExact ==
  /\ recorded # << >> => Max(Minutes(recorded)) \in DOMAIN metrics.buckets
  /\ \A m \in DOMAIN metrics.buckets :
       IF m \in trimmed
       THEN raised /\ metrics.buckets[m].requests < Cardinality(StartedIn(m))
       ELSE metrics.buckets[m] = BucketOf(StartedIn(m))

(* A Record brings the log and the buckets within limits that were lowered since the
   last one, by however much. *)
RecordWithinLimits ==
  [][Recording =>
       /\ Len(metrics'.logs) <= metrics.maxLogs
       /\ Cardinality(DOMAIN metrics'.buckets) <= metrics.maxBuckets]_recordsVars
===============================================================================
