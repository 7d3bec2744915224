---------------------------- MODULE Observability ----------------------------
(***************************************************************************)
(* The request metrics (internal/repository/observability_repo.go): the    *)
(* gauge of active requests, the totals, the log of the newest requests,   *)
(* the aggregates of each client and the buckets of the newest minutes.    *)
(* Record holds the mutex and the gauge is atomic, so each is one step.    *)
(*                                                                         *)
(* The module has no behaviour of its own: RequestPipeline instantiates    *)
(* it and takes its steps.  The upstreams' state is in ProxyForward, and   *)
(* latencies are left out.                                                 *)
(***************************************************************************)
EXTENDS Integers, SequencesExt

CONSTANT Minute   \* how long a minute is, not 0

VARIABLE metrics

None == [requests |-> 0, bytes |-> 0]
EmptyBucket == [requests |-> 0, bandwidth |-> 0, errors4xx |-> 0, errors5xx |-> 0]

NewObservability(s) ==
  [maxLogs    |-> IF s.maxLogs <= 0 THEN 500 ELSE s.maxLogs,
   maxBuckets |-> IF s.maxBuckets <= 0 THEN 60 ELSE s.maxBuckets,
   active     |-> 0,
   requests   |-> 0,
   errors     |-> 0,
   bytes      |-> 0,
   logs       |-> << >>,
   clients    |-> << >>,   \* client -> aggregate
   buckets    |-> << >>]   \* minute -> bucket

MinuteOf(t) == t \div Minute

(* f[x] becomes v, whether or not x has been in the domain of f. *)
Put(f, x, v) == [y \in DOMAIN f \union {x} |-> IF y = x THEN v ELSE f[y]]

At(f, x, default) == IF x \in DOMAIN f THEN f[x] ELSE default

If(condition) == IF condition THEN 1 ELSE 0

\* Faulty variants of Newest: of more than n logs one is dropped, the first or the
\* new one.
DropOne(logs, n) == IF Len(logs) > n THEN Tail(logs) ELSE logs
DropNew(logs, n) == IF Len(logs) > n THEN SubSeq(logs, 1, n) ELSE logs

Newest(logs, n) ==
  IF Len(logs) > n THEN SubSeq(logs, Len(logs) - n + 1, Len(logs)) ELSE logs

\* Faulty variant of TrimBuckets: the newest minutes go.
TrimNewest(buckets, n) ==
  LET kept == {m \in DOMAIN buckets : Cardinality({l \in DOMAIN buckets : l < m}) < n}
  IN [m \in kept |-> buckets[m]]

(* The oldest minutes go, the one just counted in among them. *)
TrimBuckets(buckets, n) ==
  LET kept == {m \in DOMAIN buckets : Cardinality({l \in DOMAIN buckets : l > m}) < n}
  IN [m \in kept |-> buckets[m]]

-------------------------------------------------------------------------------
(* Each limit changes only to a positive one; what is over it stays until the next
   Record. *)
UpdateSettings(s) ==
  metrics' = [metrics EXCEPT
    !.maxLogs    = IF s.maxLogs > 0 THEN s.maxLogs ELSE @,
    !.maxBuckets = IF s.maxBuckets > 0 THEN s.maxBuckets ELSE @]

IncActive == metrics' = [metrics EXCEPT !.active = @ + 1]

DecActive == metrics' = [metrics EXCEPT !.active = @ - 1]

Failed(event) == event.status >= 400 \/ event.blocked

EventBytes(event) == event.requestBytes + event.responseBytes

Counted(client, event) ==
  [requests |-> client.requests + 1, bytes |-> client.bytes + EventBytes(event)]

Filled(bucket, event) ==
  [requests  |-> bucket.requests + 1,
   bandwidth |-> bucket.bandwidth + EventBytes(event),
   errors4xx |-> bucket.errors4xx + If(event.status \in 400..499),
   errors5xx |-> bucket.errors5xx + If(event.status >= 500)]

(* The log entry of an event; its number is that of the request among all. *)
LogOf(event) ==
  [id |-> metrics.requests + 1, client |-> event.client, status |-> event.status]

Record(event) ==
  LET minute == MinuteOf(event.timestamp)
      bucket == Filled(At(metrics.buckets, minute, EmptyBucket), event)
      client == Counted(At(metrics.clients, event.client, None), event)
  IN metrics' = [metrics EXCEPT
       !.requests = @ + 1,
       !.errors   = @ + If(Failed(event)),
       !.bytes    = @ + EventBytes(event),
       !.logs     = Newest(Append(@, LogOf(event)), metrics.maxLogs),
       !.clients  = Put(@, event.client, client),
       !.buckets  = TrimBuckets(Put(@, minute, bucket), metrics.maxBuckets)]

-------------------------------------------------------------------------------
(* From the newest of the logs on, those of one of the clients, whose address contains
   the text asked for, and of the status, where 0 stands for every one. *)
Logs(clients, status, limit) ==
  LET Wanted(log) == log.client \in clients /\ (status <= 0 \/ log.status = status)
      most == IF limit <= 0 THEN 200 ELSE limit
      Collect(log, result) ==
        IF Wanted(log) /\ Len(result) < most THEN Append(result, log) ELSE result
  IN FoldRight(Collect, metrics.logs, << >>)

-------------------------------------------------------------------------------
(* The limits are positive: a reload never takes the last log or bucket away. *)
TypeOK ==
  /\ DOMAIN metrics = {"maxLogs", "maxBuckets", "active", "requests", "errors", "bytes",
                        "logs", "clients", "buckets"}
  /\ metrics.maxLogs \in Nat \ {0} /\ metrics.maxBuckets \in Nat \ {0}
  /\ metrics.active \in Int
  /\ metrics.requests \in Nat
===============================================================================
