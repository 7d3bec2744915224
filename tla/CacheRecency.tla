----------------------------- MODULE CacheRecency -----------------------------
(***************************************************************************)
(* The order in which the keys of CacheService were last used, kept as     *)
(* history beside its steps: a clock of the uses, and of every key held    *)
(* the time of its last one.  A hit uses a key, and so does a store that   *)
(* the cache takes.                                                        *)
(***************************************************************************)
EXTENDS CacheService

CONSTANT MaxUses  \* bound on the uses

VARIABLES uses, lastUse

RecencyInit == Init /\ uses = 0 /\ lastUse = << >>

Use(k) ==
  /\ uses < MaxUses /\ uses' = uses + 1
  /\ lastUse' = [j \in Held(cache') |-> IF j = k THEN uses + 1 ELSE lastUse[j]]

NoUse ==
  /\ uses' = uses
  /\ lastUse' = [j \in Held(cache') |-> lastUse[j]]

(* Next, with the history beside it *)
RecencyNext ==
  \/ Tick /\ NoUse
  \/ \E s \in SettingsChoices : UpdateSettings(s) /\ NoUse
  \/ \E k \in Keys : hits + misses < MaxGets /\ GetHit(k) /\ Use(k)
  \/ \E k \in Keys : hits + misses < MaxGets /\ GetMiss(k) /\ NoUse
  \/ \E k \in Keys, resp \in Responses : StoreEntry(k, resp) /\ Use(k)
  \/ \E k \in Keys, resp \in Responses : StoreReject(k, resp) /\ NoUse
  \/ \E req \in Requests : Invalidate(req) /\ NoUse
  \/ InvalidateAll /\ NoUse
  \/ \E k \in Keys : InvalidateForMutation(PathOf[k]) /\ NoUse

recencyVars == <<vars, uses, lastUse>>

RecencySpec == RecencyInit /\ [][RecencyNext]_recencyVars

(* The list is in the order of last use, by a hit or by a store, so that what
   evictIfNeeded takes from its back is what was used longest ago. *)
RecencyIsLastUse ==
  cache.order = {p \in Held(cache) \X Held(cache) : lastUse[p[1]] > lastUse[p[2]]}
===============================================================================
