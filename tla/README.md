# A verification project for ProxyService

ProxyService is a reverse proxy in Go with IP access control, rate limiting, a
response cache, request metrics and an admin API. Its configuration is a YAML
file that is watched and that the admin API rewrites. This directory models its
core in TLA+: TLC checks the models on small instances, and TLAPS proves, for all
instances, the main properties of the cache, forwarding, the rate limiter, the
request pipeline, the access service, the configuration store and the life cycle.

`tlc -config X.cfg M` runs a check, `tlapm M.tla` checks the proofs of a module;
`PROJECT.json` lists the runs, the lines of the code every definition
translates, the hazards and the theorems.

## 1. The system

| Component | State | Operations | Hard about it |
|---|---|---|---|
| Response cache (`repository/cache_repo.go`) | entry map, recency list, tag index, memory count, counters, settings, under one mutex | `ShouldUse`, `Get`, `Store`, `Invalidate*`, `UpdateSettings` | four structures kept in step by different methods; eviction at two limits |
| Forwarding (`usecase/proxy_usecase.go`) | none of its own; the cache and the upstream | `Forward`, `CheckUpstream` | nothing is held between the calls a request makes; the upstream may have acted when a call fails |
| Rate limiter (`repository/ratelimit_repo.go`) | a state per IP and per subnet, the violations, settings, under one mutex | `Acquire`, `Release`, `UpdateSettings` | the time is read outside the mutex and remembered in the lease; settings and clean-up act between `Acquire` and `Release` |
| Access service (`repository/access_repo.go`, `domain/access.go`) | an atomic pointer to the rules, an expiring LRU cache of decisions | `ApplyConfig`, `Check` | no lock: cache and rules are replaced in two steps and read in three |
| Configuration store (`config/config.go`, `main.go`) | file, copy in memory, subscribers | `Update`, `Reload`, `Watch`, broadcast | one unordered goroutine per broadcast; the file is truncated before it is written; a service may refuse its part |
| Request pipeline (`server/middleware`, `server/routes.go`) | the lease and flags in a request's context | CORS, telemetry, access, rate limit, handler | a panic skips what telemetry does afterwards |
| Observability (`repository/observability_repo.go`) | log ring, minute buckets, clients, upstream states, gauges | `Record`, `UpdateSettings`, queries | limits lowered by a reload, late events, reports out of order |
| Life cycle, logger (`main.go`, `pkg/logger`) | a bounded channel | start, signal, shutdown, `Log`, `Close` | `main` returns while `Shutdown` still waits, and `Close` closes the channel |
| Admin API, handlers | none | decode, call, format | settings are returned before they are applied |
| Prometheus collector (`pkg/metrics`) | counters | | not used by the program |

How they interact: a request passes the middlewares, which call the access
service and the rate limiter; the handler calls `Forward`, which calls the cache,
the upstream, and the metrics; telemetry releases the lease and records the
request. The admin API changes the configuration through `Store.Update`; the
store's broadcast goroutines call `ApplyConfig` and `UpdateSettings` of every
service, at any time with respect to requests.

What makes them correct, component by component:

* cache: the structures agree, limits hold, the least recently used goes first,
  an invalidation removes what it names and nothing else, nothing that expired or
  was removed comes back;
* forwarding: a copy is outdated only for a cause one can name, and what
  credentials fetched is not shared;
* rate limiter: active connections are the leases out, limits are not passed,
  rejected requests count nowhere;
* access: a decision is that of the rules in force, a captcha counts for who
  showed it, a rule covers what it says;
* configuration: what is in force settles on what the file says, and a confirmed
  change is not lost;
* pipeline and metrics: every request is counted in and out once and recorded once, its
  bytes differ from those read and written only where one can say why, and what is kept
  of the records is the newest;
* life cycle: a signal ends the process, what the log has taken is printed, a request never
  takes the process down nor waits for the log.

## 2. Modules

| Module | Models | Remarks |
|---|---|---|
| `CacheRules` | rule resolution and admission | pure operators; `ResolveRule` is the loop, `Governing` what it finds |
| `RuleResolution` | the loop compared with `Governing` | its states are the lists of rules |
| `CacheService` | the cache, one action per method | the recency list is its strict order, a set of pairs; eviction is the shortest tail of it that suffices |
| `CacheRecency` | history and property of `CacheService` | when a key was last used, by a clock of uses |
| `ExpiringStore` | what a cache promises | abstract: entries are added one at a time and forgotten; a lookup forgets only what has expired and renews nothing |
| `ProxyForward` | `Forward` for concurrent requests | INSTANCE of `CacheService`; one step per call to the cache or the upstream; the upstream is external |
| `ProxyFreshness` | history and properties of `ProxyForward` | which mutations a copy may miss |
| `RateLimiter` | the limiter and the requests that use it | |
| `RateHistory` | history and properties of `RateLimiter` | on which keys a call has worked with a time of the past |
| `AccessRules` | validation, matching, the order of decisions | pure operators; addresses are numbers of `Width` bits |
| `AccessMatching` | matching and decisions compared with what the rules cover | its states are the lists of rules, under either default policy |
| `AccessService` | `ApplyConfig` and `Check` running concurrently | the LRU cache is external |
| `AccessCurrency` | history and properties of `AccessService` | which decisions came late |
| `ConfigStore` | file, memory, watcher, updates, deliveries, restarts | editors and file events are external |
| `ConfigSettling` | history, fairness and properties of `ConfigStore` | why a part may not be in force as the file has it |
| `Observability` | gauge, `Record`, log ring, buckets, client aggregates, settings, the query of the log | one record variable; no behaviour of its own |
| `RequestPipeline` | the middlewares around limiter, metrics and handler | EXTENDS `RateLimiter`, INSTANCE of `Observability` |
| `PipelineHistory` | history and properties of `RequestPipeline` | the requests in the order they were recorded, the minutes trimmed |
| `Lifecycle` | start, signal, `Shutdown`, the ways the process ends, the logger's channel | `net/http` is external |
| `CacheServiceProofs`, `ProxyFreshnessProofs`, `RateLimiterProofs`, `RequestPipelineProofs`, `AccessServiceProofs`, `ConfigSettlingProofs`, `LifecycleProofs` | theorems | each EXTENDS what it is about |
| `FiniteSums` | lemmas on sums over finite sets and on counting | cited by the proofs of cache and pipeline |
| `MC*` | instances for TLC | constants |

How they compose: `ProxyForward` runs its requests against one `CacheService`;
`RequestPipeline` runs its requests through one `RateLimiter`, of which it is an
extension, and one `Observability`. In `RequestPipeline` the access decision is any,
and so are the handler's answers, since `AccessService` and `ProxyForward` have how
those come about; `ConfigStore` hands out parts of the configuration without the
services' inner state, and every service's module takes new settings at any time.

State and actions carry the names of the code where it has them. Notable
correspondences and abstractions:

* **Cache.** A URL determines host, path and derived tags, so these are functions
  of the key. A path is a sequence of pieces, so that `strings.HasPrefix` is
  `IsPrefix`. Bodies are values with a size; a status is one of the four classes
  the code distinguishes. `Stats`, `Entries`, `Snapshot` only read.
* **Forward.** A request is in a phase that names the call it makes next. Bodies
  are the version they show and the request that fetched them. A call that fails
  may fail after the upstream has acted, and building one may fail before it (`JoinFails`,
  `RequestFails`). Target URL and headers are abstracted to
  the key and the set of headers. The upstream's status is written by requests and
  checks (`health`), with no property of its own.
* **Rate limiter.** Windows are divisions of an integer time. The windows the code
  keeps for connections and bytes turn together with those of the second or the
  day and share them. The clock is read in a step of its own before `Acquire`, as
  in the middleware, and `Release` uses the lease's time for the windows and the
  present for `lastSeen`. Windows have a constant length, and no window is longer than
  an idle state is kept; in a time zone that sets its clocks back, the code's local day
  of 25 hours is longer than the 24 hours of `cleanup`, which is outside the model.
* **Access.** `ApplyConfig` is three steps (build, swap the cache, store the
  state), `Check` is three (load, look up, evaluate and add). The field `cache` of the
  service is written and read without synchronisation, a data race; the model
  gives a reader the old or the new pointer, since a call on an old cache is, for
  the new one, a call made earlier. Ranges apply to IPv4 alone; the model's
  addresses are of one family. A default policy other than `deny`, in either case, allows.
* **Configuration.** An update is two steps under the mutex, between which the
  file is empty; it may fail or the process may end in between. An empty file
  loads as the zero configuration. A delivery is one step per call that
  `applyRuntimeConfig` makes. The name of a service's part stands for what the
  service makes of it; `Configs` has one part for each of those calls, and the level
  `"none"` is the empty string.
* **Pipeline.** A request's stage says which middleware has it. Telemetry's way back is
  three steps (`Leave`, `ReturnLease`, `Record`), which other requests may come between.
  `Panic` is a handler that panics: `gin.Recovery` stands outside telemetry, so that none
  of the three follows. `Writer.Size()` is -1 for an answer that writes nothing. A
  request body of undeclared length counts only if `Forward` has said its size. An answer
  keeps how much of the body was read for it: `net/http` ends a body at its declared length,
  and fails one that is cut short, which the handler answers with 400 (`Readable`); a
  refused request's body is not read at all.
  Latencies, country and the fields of a log entry other than number, client and
  status are left out.
* **Metrics.** The buckets are a function from minutes, and the clients one from
  addresses. Trimming keeps the newest minutes, so the bucket just counted in may go.
* **Life cycle.** The end of the process, by `main`'s return, `os.Exit` or a panic that
  nothing recovers, cuts what is in flight. `ListenAndServe` returns as soon as `Shutdown` has
  begun. The channel holds severities; a full one drops, a closed one panics, and
  `gin.Recovery` recovers that in a request but nothing does in a delivery. The logger's
  goroutine takes an event, reads the level, passes it over or writes it, each in a step of
  its own (`Take`, `Skip`, `Keep`, `Write`), and stops when the channel is closed and empty
  (`Stop`), which is what `Close` waits for. `owed` counts what `Log` has put into the
  channel and the goroutine has not finished, whatever they hold.

## 3. What is checked

| Run | Shows | Instance |
|---|---|---|
| `cache_service` | list, map, index and memory agree (`OrderExact`, `TagIndexExact`, `MemoryExact`); limits hold (`WithinLimits`); eviction takes the least recently used (`RecencyIsLastUse`) and never what it makes room for (`NewestSurvives`); `InvalidateIsExact`; the cache implements `ExpiringStore` (`KeepsPromise`) | 3 keys, 2 under one path; two settings, one limited by count and one by memory; bodies that fit and one that does not; 5 uses, so that keys are used again after others |
| `cache_rules` | the loop finds the governing rule (`LoopFindsGoverning`) | every list of up to 2 rules: with one rule already found, the loop meets a better, an equal and a worse one |
| `proxy_freshness` | `StaleExplained`, `ReadsExplained`, `PrivateStaysPrivate` | 3 requests, 2 versions, a TTL the clock outlives, the cache switched on and off |
| `rate_limiter` | `ActiveExact`, `CountsAreGrants`, `GrantsWithinConcurrency`, and `LimitHoldsUnlessRewound`: no grant exceeds a limit in force on a key that no call worked on with a time of an earlier window | 3 requests of 2 clients, one subnet at one mask and none at the other; days of three seconds, of which the clock reaches the second; a retention the clock outlives |
| `rate_limiter_rewind` | **violated**: limits do not hold in general (`GrantsWithinLimit`) | the same |
| `access_rules` | matching is exact where ranges do not overlap (`MatchIsExact`), and the first of deny, allow and grey that covers an address decides, the default only when none does (`DecisionsHaveReason`) | every list of up to 3 rules of 3 types over 4 addresses, both default policies |
| `access_nested` | **violated**: a deny range denies all its addresses | 2 rules suffice |
| `access_service` | `CacheAgrees`, `AnswersAreCurrent`, `CaptchaIsPersonal` | 2 checks, 2 appliers, deny, grey and refused settings, one address, a TTL the clock outlives |
| `config_store` | `AgreeWhenSettled`, `CreatedRulesStay`, `TypeOK` (no goroutine is left without a call to make), and the liveness property `EditsTakeEffect` | 3 changes of the file or starts, 2 deliveries under way, a configuration of which three parts are refused |
| `request_pipeline` | gauge and leases are off by exactly the panicked requests (`GaugeExact`, `LeasesExact`); everything else is recorded once (`RecordsAgree`), with the bytes read and written but for three known deviations (`BytesExplained`); log and buckets keep the newest under limits that go up and down (`LogsAreNewest`, `BucketsExact`, `RecordWithinLimits`) | 3 requests of 2 clients, one of undeclared length, bodies read whole, broken off and not read, concurrency 2, two minutes, logs 1 or 2, buckets 2 or 1 |
| `lifecycle` | every event the channel took is printed or passed over before `main` returns (`NothingLostOnReturn`), `PanicsExplained`, and the liveness properties `SignalEnds` and `AnsweredRequestsEnd` | 2 requests, 2 deliveries, a channel of one event, an interval that is positive and one that is not |
| `lifecycle_shutdown` | **violated**: a request is cut off only after `Shutdown` has waited (`ShutdownWaits`) | the same |

Why these bounds: races between requests need two actors and a third to make the race
visible. Three requests in `proxy_freshness` are a read that is overtaken, the mutation
that overtakes it, and the read that is served the result; a fourth is out of TLC's
reach, and the proofs are for any number. A rewound window needs a grant in one second
and two in the next. A delivery that overtakes another needs two of them; a third would
again overtake one at a time. In the pipeline, two requests fill the limit that the
third meets, and three records overflow a log of two and two minutes a bucket of one.
A channel of one event is full and empty within two requests; its length in the code
is 2048. Clocks, versions and changes stop at a bound; settings may change for ever, so
the runs check deadlock except where the system may really stop: rule lists end at
their bound, a process may stay down, and an ended process stays ended.

What the explained properties say: the code does **not** keep outdated copies out
of the cache. `StaleExplained` says that the only causes are a mutation still on its
way to its invalidation, a mutation whose answer was lost, and a fetch that the
invalidation overtook. `ReadsExplained` says what a client sees of it: a mutation that
was confirmed before a read began is missed only through another request's copy which
that mutation's invalidation overtook. In the same way `CacheAgrees` and `AnswersAreCurrent` allow
exactly the decisions added by a check that had loaded its rules before they were
replaced, and `AgreeWhenSettled` exactly the parts a service refuses or an older
goroutine delivered last. `CreatedRulesStay` excuses a write that failed or was cut short,
for which the code does nothing. `BytesExplained` says where the dashboard's bytes are not those that went
over the wire: a declared body counts in full although it was refused, cut short or not read;
a body of undeclared length counts only if it was forwarded; an answer in which nothing
was written counts -1. Every excuse is recorded by a history variable at the step
that causes it, and is reachable.

### Findings

* `rate_limiter_rewind`: `Release` rolls the windows to the time of the lease
  (`ratelimit_repo.go:131`). When a request outlives its second, its release resets
  the counts of the present window, which then grants its limit again. The same
  happens to the day.
* `access_nested`: `matchRange` looks only at the last range that starts at or
  before the address (`access_repo.go:293`), so a deny range stops denying the
  addresses behind another one nested in it.
* `lifecycle_shutdown`: `ListenAndServe` returns as soon as `Shutdown` begins, and nothing
  waits for the goroutine that called it (`main.go:95`), so the process ends with
  requests in flight and `shutdownTimeout` has no effect.

Other behaviour that the properties name as an excuse and that a reader may want to
change: leases and the gauge of a panicked request are never returned; a read in
flight may leave an outdated copy for a whole TTL; a late check leaves an old decision in the new
decision cache; an older configuration may be delivered last; a refused delivery after
`Close`, or an interval that is not positive, ends the process.

### Fairness

`EditsTakeEffect` assumes weak fairness of the steps the process takes by itself: a
write ends (well or not), the watcher takes an event that waits, a reload that can have
the mutex gets it (a Go mutex does not starve a waiter, and the number of updates is
bounded), and goroutines are scheduled. Editors, administrators, starts and the end of
the process are not fair.

`Lifecycle` assumes that `main`, the goroutine of the signal, and requests that have been
answered are scheduled. It assumes nothing of handlers, which may wait for an upstream,
nor of the logger's writes, which wait for whoever reads standard output; what else the
logger's goroutine does needs only that it is scheduled. `AnsweredRequestsEnd` holds without
either. `SignalEnds` names fairness of `Write` as its hypothesis, since `Close` waits until
the goroutine has written out the channel and stopped.

The pipeline has no liveness property: a request ends when its handler does, which is
the upstream's matter, and the limiter never makes a request wait.

## 4. What is proved

TLAPS checks these for every value of the constants that satisfies the modules'
named assumptions (finite sets of keys or requests, well-formed settings and
sizes, positive periods; of `net/http` and `gin`, that a body is not read beyond its
declared length, which is a guard, and that a size is not below -1).

* `CacheServiceProofs`: `TypeCorrect`, `ListMatchesMap`, `IndexMatchesEntries`,
  `MemoryCounted`, `LimitsRespected`, `NewestKept`, `InvalidationExact`, `ServiceKeepsPromise`,
  `LoopCorrect`, `RuleIsLoops`, `RecencyCorrect`. The inductive invariant joins the type,
  the order, the tag index, the memory count and the limits: removal trusts the tags of
  an entry to find its place in the index and its size to correct the count, and an
  eviction ends within limits, or with an empty cache, only if the count is exact, so no
  part is inductive alone. Lemmas say of `Without`, `PushFront` and `Touched` that each preserves a
  sound cache, and an eviction is a `Without`; each action is then a case of
  one or two lemmas. `NewestKept`: an eviction takes a tail, and the shortest that
  suffices, so it reaches the front only if the response does not fit by itself.
  `InvalidationExact` follows because the index, which an
  invalidation reads, agrees with the entries, which the property reads. The
  refinement goes step by step: `Get` is a lookup of the abstract store, and every other
  method adds to it or forgets. `LoopCorrect`: having gone through some of the rules, the loop
  has the best of them, and `RuleIsLoops` takes this to the settings and keys of the
  service. `RecencyCorrect`: a use has the greatest time so far and goes to the front.
* `ProxyFreshnessProofs`: `StaleCorrect`, `ReadsCorrect`, `PrivateCorrect`,
  `ForwardUsesCache`. An accepted mutation is pending, lost or confirmed, and each
  version is made once. The invariant says of
  every copy in the cache, and of every answer on its way there, that each version it
  misses is pending, lost or has overtaken it; the step that confirms a mutation takes
  all copies of the path out of the cache and records the answers under way. The
  lemmas say of a step that it leaves excuses alone, and each action is a case of one.
  `ReadsCorrect` needs beside this that a confirmed mutation is neither pending nor
  lost. `PrivateCorrect` rests on admission: a request with such a header neither
  looks up nor stores. `ForwardUsesCache` has every step of `ProxyForward` as a step of
  `CacheService` or one that leaves the cache alone, so that what holds of the cache holds
  under forwarding, for keys and settings as `CacheService` assumes them; the requests past their lookup bound what was counted.
* `RateLimiterProofs`: `TypeCorrect`, `ActiveCorrect`, `ConcurrencyRespected`,
  `CountsCorrect`, `LimitsCorrect`. The argument for `ActiveCorrect` is that the holders of a key
  gain or lose one request exactly when its count changes, that clean-up leaves keys
  with a lease alone, and that a lease keeps its keys although the mask changes.
  `ConcurrencyRespected` follows from it; `CountsCorrect` also needs that a rolled
  count is zero or of the same window. For `LimitsCorrect`: on a key that no call has taken
  back in time the count is exact: the state's window is the newest in which anything was
  granted, and a key without a state has no grant in the present window, since the
  clean-up drops a state only when every window it was seen in is over. This is where
  `RetentionAssumption` is needed.
* `RequestPipelineProofs`: `PipelineUsesLimiter`, `PipelineConcurrency`, `LeasesCorrect`,
  `GaugeCorrect`; `RecordsCorrect`, `BytesCorrect`, `LogCorrect`, `LogsCorrect`,
  `QueriesCorrect`, `BucketsCorrect`, `LimitsKept`. Every step of the pipeline is a step of
  `RateLimiter` or leaves it alone, so that the limiter's theorems hold in the pipeline; the
  invariant joins to them which phases at the limiter fit which stage (`Fits`), and the
  gauge as a count of stages. For the metrics (`RecordsInv`), a step is a `Record` of one
  request or keeps everything the metrics have of requests (`Kept`). A record adds one
  request to the sets that the totals, clients and buckets sum up, and an entry to the
  end of the log, of which what is kept is an end again. The minutes with a bucket are the
  greatest of those recorded, and those trimmed are below them, as long as the limit is
  not raised. The query's loop, having gone through some of the newest logs, has the
  newest of those asked for; `LogExact` has which requests these are. For `BytesCorrect` an
  answer has read no more than was declared, and all of it if it was forwarded (`AnswersOK`);
  the sum of what telemetry takes for the sizes is then, request by request, that of what
  was read and written with the deviations.
* `AccessServiceProofs`: `CacheCorrect`, `AnswersCorrect`, `CaptchaCorrect`; `MatchCorrect`,
  `ReasonCorrect`. Between the swap of the cache and the store of the state, all cached
  decisions are late ones, because the cache was emptied before; a check's view is among
  the settings in force since it began. From these every cached decision is that of the
  state or late. `MatchCorrect`: where ranges do not overlap, the last one that starts at
  or before an address is the only one that can cover it; two addresses agree under a
  prefix if and only if they agree on its bits, so the rule found for a network is the
  latest of those that cover the address. `ReasonCorrect` follows from it type by type: where
  nothing was found nothing covers, or ranges overlap.
* `ConfigSettlingProofs`: `TypeCorrect`, `RulesCorrect`, `AgreementCorrect`. For rules: whenever
  nobody writes, the file loads and holds every confirmed rule (`FileHolds`), so a restart
  or reload finds them. For agreement: each part is refused, or the newest goroutine has
  yet to deliver it, or it is settled and all goroutines that have yet to deliver it are
  known to be behind.
* `LifecycleProofs`: `NothingLost`, `PanicsCorrect`. What is owed is what the channel holds and the
  event its goroutine has taken (`LoggerInv`); the goroutine stops only when the channel is
  closed and empty, and a closed one takes nothing more. So nothing is owed once it has
  stopped, which is what `main` has waited for when it returns, and requests and deliveries
  that log after that change nothing. A process that panicked has one of the two reasons.

Sums, counts and loops are recursive functions of the community modules, of which
nothing is known before they are shown to exist. The proofs show this, and what the
function is, by the smallest counterexample among finite sets or numbers
(`SumsExist` in `FiniteSums`, `LoopExists`, `CollectsExists`), since the library's rules of
induction take operators and no prover here can instantiate those.

All invariants and action properties of the runs are theorems. Only model-checked is
liveness (`EditsTakeEffect`, `SignalEnds`, `AnsweredRequestsEnd`), which rests on fairness
and ENABLED and is beyond the prover. `QueriesCorrect` came of an attempt to prove the
query correct as it was stated first, without its default limit: a query that gives no
limit returns at most 200 logs, however many there are.

## 5. Plan

Done: cache, forwarding, rate limiter, access, configuration, pipeline, metrics and life
cycle, with proofs of each. To come, in this order:

1. A composition of `ConfigStore` with `AccessService`: from an edited rule to the
   decision of a check, with deliveries that call `ApplyConfig` in any order.
2. The pipeline with the real answers of `ProxyForward` instead of any.

## 6. Not modelled

* Formatting of views, the aggregates that only read (`Entries`, `Snapshot`, top lists,
  histories), the HTTP handlers' decoding, CORS headers: they hold no state of the system.
* The order of reports on the upstream's status: reports carry no order of their own
  that the code uses, so there is nothing to compare the last one with.
* What `UpdateRateLimits` answers: it reads the settings before the broadcast has applied
  them, and a property would restate that the broadcast is asynchronous.
* The number of keys a limiter that only rejects accumulates: no bound is stated.
* Latencies; IPv6 matching, which is prefix matching on longer addresses; days of
  unequal length.
* The Prometheus collector, which no code uses outside its test; generated mocks, ports
  and the API description.
