----------------------------- MODULE ProxyForward -----------------------------
(***************************************************************************)
(* ProxyUseCase.Forward (internal/usecase/proxy_usecase.go): concurrent    *)
(* requests that share one CacheService and one upstream.  Nothing is held *)
(* across the calls Forward makes, so each call is a step and other        *)
(* requests, reloads and administrators act in between.                    *)
(*                                                                         *)
(* The upstream is external: it holds one version of each path, and every  *)
(* mutation it accepts makes the next one.  A response body is the version *)
(* it shows and the request that fetched it.                               *)
(*                                                                         *)
(* A request goes through the phases                                       *)
(*   idle      not received yet                                            *)
(*   lookup    ShouldUse said yes, Get comes next                          *)
(*   sent      the request for the upstream is being made, or client.Do is *)
(*             waiting and the upstream has not acted                      *)
(*   answered  the upstream has acted, its answer is on its way            *)
(*   mutated   the answer to an accepted mutation is read, InvalidateFor-  *)
(*             Mutation comes next                                         *)
(*   fetched   a cacheable answer is read, Store comes next                *)
(*   done      Forward has returned                                        *)
(***************************************************************************)
EXTENDS Integers, Sequences, FiniteSets

CONSTANTS
  Ids,              \* concurrent requests
  Calls,            \* what a request may ask: [method, key, noCache, headers]
  Keys, HostOf, PathOf, UrlTags, Tags, SettingsChoices,  \* see CacheService
  MaxVersion,       \* bound on the versions of a path
  MaxNow            \* bound on the clock

ASSUME IdAssumption == IsFiniteSet(Ids)
ASSUME CallAssumption == \A c \in Calls : c.key \in Keys
ASSUME PathAssumption == \A k \in Keys : PathOf[k] \in Seq(STRING)
ASSUME VersionAssumption == MaxVersion \in Nat

VARIABLES
  settings, cache, hits, misses, now,   \* the cache service
  version,    \* path -> the version the upstream holds
  phase,      \* request -> its phase
  call,       \* request -> what it asks, NoCall before it arrives
  useCache,   \* request -> shouldCache
  answer,     \* request -> the response Forward holds or returns, NoAnswer if none
  health      \* the upstream's status as last reported

Paths == {PathOf[k] : k \in Keys}
Versions == 0..MaxVersion
NoCall == [method |-> "none"]
NoAnswer == [class |-> "none"]

Reply(id, class, v) ==
  [class |-> class, size |-> 1, directives |-> {}, tags |-> {},
   body |-> [version |-> v, fetch |-> id]]

Replies == {Reply(id, class, v) : id \in Ids, class \in {"2xx", "5xx"}, v \in Versions}

Cache == INSTANCE CacheService
           WITH Responses <- Replies, Requests <- {}, MaxGets <- Cardinality(Ids)

cacheVars == <<settings, cache, hits, misses, now>>
vars == <<cacheVars, version, phase, call, useCache, answer, health>>

PathAsked(id) == PathOf[call[id].key]
IsRead(c) == c.method \in {"GET", "HEAD"}

Goto(id, p) == phase' = [phase EXCEPT ![id] = p]

-------------------------------------------------------------------------------
Init ==
  /\ Cache!Init
  /\ version = [p \in Paths |-> 0]
  /\ phase = [id \in Ids |-> "idle"]
  /\ call = [id \in Ids |-> NoCall]
  /\ useCache = [id \in Ids |-> FALSE]
  /\ answer = [id \in Ids |-> NoAnswer]
  /\ health = "unknown"

\* Faulty variant of Begin: ShouldUse is asked without the request's headers.
BeginWithoutHeaders(id, c) ==
  LET should == Cache!ShouldUse(settings, HostOf[c.key], PathOf[c.key],
                                [c EXCEPT !.headers = {}])
  IN /\ phase[id] = "idle"
     /\ call' = [call EXCEPT ![id] = c]
     /\ useCache' = [useCache EXCEPT ![id] = should]
     /\ Goto(id, IF should THEN "lookup" ELSE "sent")
     /\ UNCHANGED <<cacheVars, version, answer, health>>

(* The path and the upstream's URL make no target: Forward asks and reports nothing. *)
JoinFails(id, c) ==
  /\ phase[id] = "idle"
  /\ call' = [call EXCEPT ![id] = c]
  /\ Goto(id, "done")
  /\ UNCHANGED <<cacheVars, version, useCache, answer, health>>

(* A request arrives and asks ShouldUse. *)
Begin(id, c) ==
  LET should == Cache!ShouldUse(settings, HostOf[c.key], PathOf[c.key], c)
  IN /\ phase[id] = "idle"
     /\ call' = [call EXCEPT ![id] = c]
     /\ useCache' = [useCache EXCEPT ![id] = should]
     /\ Goto(id, IF should THEN "lookup" ELSE "sent")
     /\ UNCHANGED <<cacheVars, version, answer, health>>

(* A hit ends the request; the cache hands out what it holds. *)
LookupHit(id) ==
  /\ phase[id] = "lookup"
  /\ Cache!GetHit(call[id].key)
  /\ answer' = [answer EXCEPT ![id] = cache.entries[call[id].key].response]
  /\ Goto(id, "done")
  /\ UNCHANGED <<version, call, useCache, health>>

LookupMiss(id) ==
  /\ phase[id] = "lookup"
  /\ Cache!GetMiss(call[id].key)
  /\ Goto(id, "sent")
  /\ UNCHANGED <<version, call, useCache, answer, health>>

(* The upstream serves its current version, accepts a mutation, or fails. *)
UpstreamReads(id) ==
  /\ phase[id] = "sent" /\ IsRead(call[id])
  /\ answer' = [answer EXCEPT ![id] = Reply(id, "2xx", version[PathAsked(id)])]
  /\ Goto(id, "answered")
  /\ UNCHANGED <<cacheVars, version, call, useCache, health>>

UpstreamMutates(id) ==
  LET p == PathAsked(id)
  IN /\ phase[id] = "sent" /\ ~IsRead(call[id])
     /\ version[p] < MaxVersion
     /\ version' = [version EXCEPT ![p] = @ + 1]
     /\ answer' = [answer EXCEPT ![id] = Reply(id, "2xx", version[p] + 1)]
     /\ Goto(id, "answered")
     /\ UNCHANGED <<cacheVars, call, useCache, health>>

UpstreamRefuses(id) ==
  /\ phase[id] = "sent"
  /\ answer' = [answer EXCEPT ![id] = Reply(id, "5xx", version[PathAsked(id)])]
  /\ Goto(id, "answered")
  /\ UNCHANGED <<cacheVars, version, call, useCache, health>>

(* No request can be made of the target: nothing is sent, and nothing reported. *)
RequestFails(id) ==
  /\ phase[id] = "sent"
  /\ Goto(id, "done")
  /\ UNCHANGED <<cacheVars, version, call, useCache, answer, health>>

(* client.Do returns an error: the upstream is unreachable, or the timeout or the
   client's departure came first, whether or not the upstream has acted. *)
DoFails(id) ==
  /\ phase[id] \in {"sent", "answered"}
  /\ answer' = [answer EXCEPT ![id] = NoAnswer]
  /\ health' = "down"
  /\ Goto(id, "done")
  /\ UNCHANGED <<cacheVars, version, call, useCache>>

(* The body cannot be read: nothing is reported, invalidated or stored. *)
ReadFails(id) ==
  /\ phase[id] = "answered"
  /\ answer' = [answer EXCEPT ![id] = NoAnswer]
  /\ Goto(id, "done")
  /\ UNCHANGED <<cacheVars, version, call, useCache, health>>

\* Faulty variant of ReadBody: nothing is invalidated unless the status is a 3xx.
ReadBodyOfRedirect(id) ==
  /\ phase[id] = "answered"
  /\ health' = IF answer[id].class = "5xx" THEN "down" ELSE "up"
  /\ Goto(id, IF answer[id].class = "3xx" /\ ~IsRead(call[id]) THEN "mutated"
              ELSE IF useCache[id] THEN "fetched"
              ELSE "done")
  /\ UNCHANGED <<cacheVars, version, call, useCache, answer>>

(* The body is read and the status reported; what the rest of Forward does
   depends on the method and the status. *)
ReadBody(id) ==
  /\ phase[id] = "answered"
  /\ health' = IF answer[id].class = "5xx" THEN "down" ELSE "up"
  /\ Goto(id, IF answer[id].class \in {"2xx", "3xx"} /\ ~IsRead(call[id]) THEN "mutated"
              ELSE IF useCache[id] THEN "fetched"
              ELSE "done")
  /\ UNCHANGED <<cacheVars, version, call, useCache, answer>>

\* Faulty variant of InvalidateCopies: only copies under the mutation's own method go.
InvalidateNothing(id) ==
  /\ phase[id] = "mutated"
  /\ Goto(id, "done")
  /\ UNCHANGED <<cacheVars, version, call, useCache, answer, health>>

(* A mutation is never cacheable, so this ends it. *)
InvalidateCopies(id) ==
  /\ phase[id] = "mutated"
  /\ Cache!InvalidateForMutation(PathAsked(id))
  /\ Goto(id, "done")
  /\ UNCHANGED <<version, call, useCache, answer, health>>

StoreCopy(id) ==
  /\ phase[id] = "fetched"
  /\ Cache!Store(call[id].key, answer[id])
  /\ Goto(id, "done")
  /\ UNCHANGED <<version, call, useCache, answer, health>>

(* The clock, a reload of the configuration, an administrator's DELETE /cache *)
Reload(s) ==
  /\ Cache!UpdateSettings(s)
  /\ UNCHANGED <<version, phase, call, useCache, answer, health>>

ClearCache ==
  /\ Cache!InvalidateAll
  /\ UNCHANGED <<version, phase, call, useCache, answer, health>>

(* A background check ends, with whatever it found when it asked. *)
CheckUpstream ==
  /\ health' \in {"up", "down"}
  /\ UNCHANGED <<cacheVars, version, phase, call, useCache, answer>>

ClockTick ==
  /\ Cache!Tick
  /\ UNCHANGED <<version, phase, call, useCache, answer, health>>

Step(id) ==
  \/ \E c \in Calls : JoinFails(id, c)
  \/ \E c \in Calls : Begin(id, c)
  \/ LookupHit(id) \/ LookupMiss(id)
  \/ UpstreamReads(id) \/ UpstreamMutates(id) \/ UpstreamRefuses(id)
  \/ RequestFails(id) \/ DoFails(id) \/ ReadFails(id) \/ ReadBody(id)
  \/ InvalidateCopies(id) \/ StoreCopy(id)

Next ==
  \/ \E id \in Ids : Step(id)
  \/ \E s \in SettingsChoices : Reload(s)
  \/ ClearCache
  \/ CheckUpstream
  \/ ClockTick

Spec == Init /\ [][Next]_vars
===============================================================================
