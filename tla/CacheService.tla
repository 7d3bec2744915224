----------------------------- MODULE CacheService -----------------------------
(***************************************************************************)
(* The response cache (internal/repository/cache_repo.go).  One mutex      *)
(* covers every method, so a method is one action.  The four structures    *)
(* the mutex keeps in step are the fields of the record "cache":           *)
(*   entries  key -> entry                                                 *)
(*   order    the recency list, as the set of pairs <<a, b>> of keys with  *)
(*            a nearer the front than b                                    *)
(*   tags     tag -> the keys that carry it, no entry for an unused tag    *)
(*   memory   the running total of the body sizes                          *)
(* A URL determines the host, the path and the tags derived from both, so  *)
(* these are functions of the key.                                         *)
(***************************************************************************)
EXTENDS CacheRules

CONSTANTS
  Keys,             \* method:URL strings
  HostOf, PathOf,   \* functions of the key
  UrlTags,          \* key -> its "host:", "path:" and "segment:" tags
  Tags,             \* all tags: derived, of a rule, of an X-Cache-Tags header
  Responses,        \* upstream responses, see CacheRules
  SettingsChoices,  \* settings the configuration may hold
  Requests,         \* invalidation requests [keys, prefix, regex, compiles, tags]
  MaxNow,           \* bound on the clock
  MaxGets           \* bound on hits + misses

Rules ==
  [domains : SUBSET STRING, prefixes : SUBSET Seq(STRING), ttl : [StatusClasses -> Int],
   minSize : Int, maxSize : Int, tags : SUBSET Tags, sensitive : SUBSET STRING]

ASSUME KeyAssumption ==
  /\ IsFiniteSet(Keys)
  /\ UrlTags \in [Keys -> SUBSET Tags]
  /\ PathOf \in [Keys -> Seq(STRING)]

ASSUME ResponseAssumption ==
  \A resp \in Responses :
    resp.class \in StatusClasses /\ resp.size \in Nat /\ resp.tags \subseteq Tags

ASSUME SettingsAssumption ==
  SettingsChoices \subseteq
    [enabled : BOOLEAN, capacity : Int, memoryLimit : Int,
     defaultRule : Rules, rules : Seq(Rules)]

VARIABLES settings, cache, hits, misses, now

vars == <<settings, cache, hits, misses, now>>

Held(c) == DOMAIN c.entries

SizeOf(c, ks) == MapThenSumSet(LAMBDA k : c.entries[k].response.size, ks)

EmptyCache == [entries |-> << >>, order |-> {}, tags |-> << >>, memory |-> 0]

-------------------------------------------------------------------------------
(* The list and map operations the methods are built from. *)

\* Faulty variants of Without: the list, the tag index or the memory count is missed.
WithoutMissingList(c, ks) ==
  [entries |-> [k \in Held(c) \ ks |-> c.entries[k]], order |-> c.order,
   tags |-> c.tags, memory |-> c.memory - SizeOf(c, ks \intersect Held(c))]

WithoutMissingTags(c, ks) ==
  [entries |-> [k \in Held(c) \ ks |-> c.entries[k]],
   order |-> {p \in c.order : p[1] \notin ks /\ p[2] \notin ks},
   tags |-> c.tags, memory |-> c.memory - SizeOf(c, ks \intersect Held(c))]

WithoutMissingMemory(c, ks) ==
  [entries |-> [k \in Held(c) \ ks |-> c.entries[k]],
   order |-> {p \in c.order : p[1] \notin ks /\ p[2] \notin ks},
   tags |-> [t \in {t \in DOMAIN c.tags : c.tags[t] \ ks # {}} |-> c.tags[t] \ ks],
   memory |-> c.memory]

(* removeElement, for every key of ks that is held: each leaves the list, the
   map, the memory count, and the sets of the tags its own entry carries; a tag
   whose set this empties goes. *)
Without(c, ks) ==
  LET gone == ks \intersect Held(c)
      keysOf(t) == {k \in c.tags[t] : ~(k \in gone /\ t \in c.entries[k].tags)}
      emptied == {t \in DOMAIN c.tags :
                    (\E k \in gone : t \in c.entries[k].tags) /\ keysOf(t) = {}}
  IN [entries |-> [k \in Held(c) \ gone |-> c.entries[k]],
      order   |-> {p \in c.order : p[1] \notin gone /\ p[2] \notin gone},
      tags    |-> [t \in DOMAIN c.tags \ emptied |-> keysOf(t)],
      memory  |-> c.memory - SizeOf(c, gone)]

MoveToFront(order, k, held) ==
  {p \in order : p[1] # k /\ p[2] # k} \union {<<k, j>> : j \in held \ {k}}

(* PushFront and the index updates that follow it, for a key that is not held *)
PushFront(c, k, e) ==
  [entries |-> [j \in Held(c) \union {k} |-> IF j = k THEN e ELSE c.entries[j]],
   order   |-> MoveToFront(c.order, k, Held(c)),
   tags    |-> [t \in DOMAIN c.tags \union e.tags |->
                  (IF t \in DOMAIN c.tags THEN c.tags[t] ELSE {})
                    \union (IF t \in e.tags THEN {k} ELSE {})],
   memory  |-> c.memory + e.response.size]

\* Faulty variants of Touched: the entry stays where it is in the list, or lives longer.
TouchedInPlace(c, k) ==
  LET e == c.entries[k]
  IN [entries |-> [c.entries EXCEPT ![k] = [e EXCEPT !.hits = e.hits + 1]],
      order |-> c.order, tags |-> c.tags, memory |-> c.memory]

TouchedRenewing(c, k) ==
  LET e == c.entries[k]
  IN [entries |-> [c.entries EXCEPT ![k] = [e EXCEPT !.hits = e.hits + 1,
                                                     !.expiresAt = e.expiresAt + 1]],
      order |-> MoveToFront(c.order, k, Held(c)), tags |-> c.tags, memory |-> c.memory]

(* One more hit on a key that is held *)
Touched(c, k) ==
  LET e == c.entries[k]
  IN [entries |-> [c.entries EXCEPT ![k] = [e EXCEPT !.hits = e.hits + 1]],
      order   |-> MoveToFront(c.order, k, Held(c)),
      tags    |-> c.tags,
      memory  |-> c.memory]

OverLimit(c, s) ==
  \/ s.capacity > 0 /\ Cardinality(Held(c)) > s.capacity
  \/ s.memoryLimit > 0 /\ c.memory > s.memoryLimit

\* Faulty variant of IsTail: eviction starts at the front.
IsHead(c, ks) == \A p \in c.order : p[2] \in ks => p[1] \in ks

IsTail(c, ks) == \A p \in c.order : p[1] \in ks => p[2] \in ks

(* The loop of evictIfNeeded stops at the shortest tail of the list whose
   removal brings the cache within its limits, or when the list is empty. *)
AfterEviction(c, s) ==
  {Without(c, victims) : victims \in
     {ks \in SUBSET Held(c) :
        /\ IsTail(c, ks)
        /\ OverLimit(Without(c, ks), s) => ks = Held(c)
        /\ \A k \in ks : IsTail(c, ks \ {k}) => OverLimit(Without(c, ks \ {k}), s)}}

NewEntry(rule, k, resp, t) ==
  [response  |-> resp,
   expiresAt |-> t + TtlForStatus(rule, resp),
   tags      |-> rule.tags \union UrlTags[k] \union resp.tags,
   hits      |-> 0]

Normalised(s) ==
  [enabled     |-> s.enabled,
   capacity    |-> IF s.capacity <= 0 THEN 256 ELSE s.capacity,
   memoryLimit |-> IF s.memoryLimit <= 0 THEN 128 * 1024 * 1024 ELSE s.memoryLimit,
   defaultRule |-> s.defaultRule,
   rules       |-> s.rules]

-------------------------------------------------------------------------------
(* An empty cache whose first settings are those main applies before it serves *)
Init ==
  /\ settings \in {Normalised(s) : s \in SettingsChoices}
  /\ cache = EmptyCache
  /\ hits = 0
  /\ misses = 0
  /\ now = 0

Tick ==
  /\ now < MaxNow
  /\ now' = now + 1
  /\ UNCHANGED <<settings, cache, hits, misses>>

\* Faulty variant of UpdateSettings: lower limits do not evict.
UpdateSettingsOnly(s) ==
  /\ settings' = Normalised(s)
  /\ UNCHANGED <<cache, hits, misses, now>>

UpdateSettings(s) ==
  /\ settings' = Normalised(s)
  /\ cache' \in AfterEviction(cache, settings')
  /\ UNCHANGED <<hits, misses, now>>

(* What Get finds under the lock. *)
IsHit(k) == k \in Held(cache) /\ now <= cache.entries[k].expiresAt

GetHit(k) ==
  /\ IsHit(k)
  /\ cache' = Touched(cache, k)
  /\ hits' = hits + 1
  /\ UNCHANGED <<settings, misses, now>>

\* Faulty variant of GetMiss: the miss is taken off the count.
GetMissMiscounted(k) ==
  /\ ~IsHit(k)
  /\ cache' = Without(cache, {k})
  /\ misses' = misses - 1
  /\ UNCHANGED <<settings, hits, now>>

(* An absent key, or an expired entry, which Get removes *)
GetMiss(k) ==
  /\ ~IsHit(k)
  /\ cache' = Without(cache, {k})
  /\ misses' = misses + 1
  /\ UNCHANGED <<settings, hits, now>>

Get(k) == GetHit(k) \/ GetMiss(k)

RulesFor(k) == Governing(settings, HostOf[k], PathOf[k])

(* What the cache may be after it has taken resp, the entry it may hold under k
   having gone first. *)
AfterStore(k, rule, resp) ==
  AfterEviction(PushFront(Without(cache, {k}), k, NewEntry(rule, k, resp, now)), settings)

StoreEntry(k, resp) ==
  /\ \E rule \in RulesFor(k) :
       Admitted(settings, rule, resp) /\ cache' \in AfterStore(k, rule, resp)
  /\ UNCHANGED <<settings, hits, misses, now>>

(* Store turns the response down: a no-cache response that would otherwise be
   admitted also removes the entry under its key. *)
StoreReject(k, resp) ==
  /\ \E rule \in RulesFor(k) :
       /\ ~Admitted(settings, rule, resp)
       /\ cache' = IF PassesRule(settings, rule, resp) THEN Without(cache, {k}) ELSE cache
  /\ UNCHANGED <<settings, hits, misses, now>>

Store(k, resp) == StoreEntry(k, resp) \/ StoreReject(k, resp)

\* Faulty variant of Named: the tags count only for a request that names no key.
NamedByKeyOrTags(c, req) ==
  req.keys \union req.prefix \union req.regex
    \union (IF req.keys # {} THEN {}
            ELSE UNION {c.tags[t] : t \in req.tags \intersect DOMAIN c.tags})

(* The keys an invalidation request names: by key, by prefix of key or path, by
   regular expression, by tag.  The tags are looked up in the index. *)
Named(c, req) ==
  req.keys \union req.prefix \union req.regex
    \union UNION {c.tags[t] : t \in req.tags \intersect DOMAIN c.tags}

(* A regular expression that does not compile ends the call after the key and
   the prefix have been dealt with. *)
Invalidate(req) ==
  /\ cache' = Without(cache, IF req.compiles THEN Named(cache, req)
                             ELSE req.keys \union req.prefix)
  /\ UNCHANGED <<settings, hits, misses, now>>

InvalidateAll ==
  /\ cache' = EmptyCache
  /\ UNCHANGED <<settings, hits, misses, now>>

(* invalidateByPrefix, for the path of a mutation: no key starts with a path *)
InvalidateForMutation(path) ==
  /\ cache' = Without(cache, {k \in Keys : IsPrefix(path, PathOf[k])})
  /\ UNCHANGED <<settings, hits, misses, now>>

Next ==
  \/ Tick
  \/ \E s \in SettingsChoices : UpdateSettings(s)
  \/ \E k \in Keys : hits + misses < MaxGets /\ Get(k)
  \/ \E k \in Keys, resp \in Responses : Store(k, resp)
  \/ \E req \in Requests : Invalidate(req)
  \/ InvalidateAll
  \/ \E k \in Keys : InvalidateForMutation(PathOf[k])

Spec == Init /\ [][Next]_vars

-------------------------------------------------------------------------------
Entries ==
  [response : Responses, expiresAt : Int, tags : SUBSET Tags, hits : Nat]

WellTyped(c) ==
  /\ c = [entries |-> c.entries, order |-> c.order, tags |-> c.tags, memory |-> c.memory]
  /\ Held(c) \subseteq Keys
  /\ c.entries \in [Held(c) -> Entries]
  /\ c.order \subseteq Keys \X Keys
  /\ DOMAIN c.tags \subseteq Tags
  /\ c.tags \in [DOMAIN c.tags -> SUBSET Keys]

(* The types of the fields of CacheService and cacheEntry.  Of the memory count
   MemoryExact says more. *)
TypeOK ==
  /\ settings \in {Normalised(s) : s \in SettingsChoices}
  /\ WellTyped(cache)
  /\ hits \in Nat /\ misses \in Nat /\ now \in Nat

ListsEntries(c) ==
  /\ c.order \subseteq Held(c) \X Held(c)
  /\ \A a \in Held(c) : <<a, a>> \notin c.order
  /\ \A a, b \in Held(c) : a # b => <<a, b>> \in c.order \/ <<b, a>> \in c.order
  /\ \A a, b, d \in Held(c) :
       <<a, b>> \in c.order /\ <<b, d>> \in c.order => <<a, d>> \in c.order

(* The list holds the keys of the map, each once: removeElement, PushFront and
   MoveToFront never leave a list element without its map entry, or two elements
   for one key. *)
OrderExact == ListsEntries(cache)

IndexesTags(c) ==
  /\ DOMAIN c.tags = UNION {c.entries[k].tags : k \in Held(c)}
  /\ \A t \in DOMAIN c.tags : c.tags[t] = {k \in Held(c) : t \in c.entries[k].tags}

(* The tag index says of every tag exactly which entries carry it, and keeps no
   set for a tag nobody carries: what an invalidation by tag removes, and what
   the index costs, depend on it. *)
TagIndexExact == IndexesTags(cache)

(* The memory counter is the sum of the sizes of the entries held, after any
   sequence of stores, replacements, expiries, evictions and invalidations. *)
MemoryExact == cache.memory = SizeOf(cache, Held(cache))

(* No method returns with the cache over the limits in force when it ends. *)
WithinLimits == ~OverLimit(cache, settings)

(* An invalidation that succeeds leaves exactly the entries it does not name,
   by what the entries themselves carry and not by what the index says of them. *)
InvalidateIsExact ==
  [][\A req \in Requests :
       Invalidate(req) /\ req.compiles =>
         Held(cache') = {k \in Held(cache) :
                           /\ k \notin req.keys \union req.prefix \union req.regex
                           /\ cache.entries[k].tags \intersect req.tags = {}}]_vars

(* A response that Store takes, and that fits the memory limit by itself, is in
   the cache when Store returns, in front of everything else: making room never
   costs the entry the room is made for.  Of every state and not of every step,
   because a store that loses its entry at once may leave the cache as it was. *)
NewestSurvives ==
  \A k \in Keys, resp \in Responses : \A rule \in RulesFor(k) :
    Admitted(settings, rule, resp) /\ resp.size <= settings.memoryLimit =>
      \A after \in AfterStore(k, rule, resp) :
        /\ k \in Held(after)
        /\ after.entries[k].response = resp
        /\ \A j \in Held(after) \ {k} : <<k, j>> \in after.order

(* The service implements the promise of ExpiringStore: its list and index add
   nothing a reader can see, a lookup that counts as a hit or a miss alters and
   renews nothing and forgets only what has expired, and whatever eviction and
   invalidation do, no step but a store puts an entry into the cache. *)
Promise == INSTANCE ExpiringStore WITH
  content <- [k \in Held(cache) |->
                [response  |-> cache.entries[k].response,
                 expiresAt |-> cache.entries[k].expiresAt]],
  lookups <- hits + misses
KeepsPromise == Promise!Spec
===============================================================================
