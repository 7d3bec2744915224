------------------------- MODULE ProxyFreshnessProofs -------------------------
(***************************************************************************)
(* The properties of ProxyFreshness hold for any number of requests, paths *)
(* and configurations.                                                     *)
(*                                                                         *)
(* A mutation is pending until it returns or its answer is lost.  While an *)
(* answer is on its way into the cache, and for as long as it stays there, *)
(* every version it misses is pending, lost or recorded as having overtaken*)
(* it (Excused).  A mutation that returns takes every copy of its path out *)
(* of the cache and is recorded with the answers still on their way; no    *)
(* other step makes a version cease to be excused.                         *)
(***************************************************************************)
EXTENDS ProxyFreshness, FiniteSetTheorems, TLAPS

Phases == {"idle", "lookup", "sent", "answered", "mutated", "fetched", "done"}

Response(k) == cache.entries[k].response

(* Entries, as far as the fields of one are concerned *)
EntryOf(resp, e) ==
  [response |-> resp, expiresAt |-> e.expiresAt, tags |-> e.tags, hits |-> e.hits]

TypeInv ==
  /\ settings \in {Cache!Normalised(s) : s \in SettingsChoices}
  /\ version \in [Paths -> Versions]
  /\ phase \in [Ids -> Phases]
  /\ DOMAIN call = Ids /\ DOMAIN answer = Ids
  /\ useCache \in [Ids -> BOOLEAN]
  /\ confirmed \in [Paths -> SUBSET Nat] /\ lost \in [Paths -> SUBSET Nat]
  /\ expected \in [Ids -> SUBSET Nat] /\ overtaken \in [Ids -> SUBSET Nat]
  /\ DOMAIN cache.entries \subseteq Keys
  /\ \A id \in Ids : phase[id] # "idle" => call[id] \in Calls
  /\ \A id \in Ids : answer[id] \in Replies \union {NoAnswer}

(* What a request that may use the cache asks *)
Shareable(id) ==
  /\ phase[id] # "idle"
  /\ IsRead(call[id])
  /\ \A h \in call[id].headers : ~AlwaysSensitive(h)

(* A request between the upstream's answer and the end *)
RequestInv(id) ==
  /\ phase[id] \in {"idle", "lookup", "sent"} => answer[id] = NoAnswer
  /\ phase[id] \in {"lookup", "fetched"} => useCache[id]
  /\ useCache[id] => Shareable(id)
  /\ phase[id] \in {"answered", "mutated", "fetched"} =>
       answer[id] \in Replies /\ answer[id].body.fetch = id
  /\ phase[id] = "mutated" => answer[id].class = "2xx" /\ ~IsRead(call[id])
  /\ Fetching(id) => Excused(answer[id].body, PathAsked(id))

(* What is in the cache was put there by a request that is done. *)
CopyInv(k) ==
  /\ cache.entries[k] = EntryOf(Response(k), cache.entries[k])
  /\ Response(k) \in Replies
  /\ phase[Response(k).body.fetch] = "done"
  /\ Shareable(Response(k).body.fetch)
  /\ Excused(Response(k).body, PathOf[k])

(* A version is made once, and is pending, lost or confirmed. *)
VersionInv ==
  /\ \A id \in Ids : Accepted(id) =>
       /\ MadeBy(id) \notin lost[PathAsked(id)] \union confirmed[PathAsked(id)]
       /\ MadeBy(id) <= version[PathAsked(id)]
  /\ \A i, j \in Ids :
       Accepted(i) /\ Accepted(j) /\ PathAsked(i) = PathAsked(j) /\ MadeBy(i) = MadeBy(j) => i = j
  /\ \A p \in Paths :
       /\ lost[p] \intersect confirmed[p] = {}
       /\ \A v \in lost[p] \union confirmed[p] : v <= version[p]

(* What a request knows of the mutations it expects to see *)
ReadInv(id) ==
  /\ phase[id] # "idle" => expected[id] \subseteq confirmed[PathAsked(id)]
  /\ phase[id] \in {"answered", "mutated", "fetched"} =>
       \A v \in expected[id] : v <= MadeBy(id)
  /\ Answered(id) =>
       LET copy == answer[id].body
       IN IF copy.fetch = id THEN \A v \in expected[id] : v <= copy.version
          ELSE /\ phase[copy.fetch] = "done" /\ Shareable(copy.fetch)
               /\ \A v \in expected[id] : v > copy.version => v \in overtaken[copy.fetch]

IInv ==
  /\ TypeInv
  /\ VersionInv
  /\ \A k \in DOMAIN cache.entries : CopyInv(k)
  /\ \A id \in Ids : RequestInv(id) /\ ReadInv(id)

-------------------------------------------------------------------------------
(* What a step does to the state that the invariant reads *)

(* The request does not move. *)
Rests(id) ==
  /\ phase'[id] = phase[id] /\ call'[id] = call[id] /\ useCache'[id] = useCache[id]
  /\ answer'[id] = answer[id] /\ expected'[id] = expected[id]

(* No request asks anew, and one that is done is done. *)
Steady ==
  \A id \in Ids :
    /\ phase[id] = "done" => phase'[id] = "done"
    /\ phase[id] # "idle" => phase'[id] # "idle" /\ call'[id] = call[id]

(* The entries left in the cache have been there before, with the same response. *)
Kept ==
  \A k \in DOMAIN cache'.entries :
    /\ k \in DOMAIN cache.entries
    /\ cache'.entries[k] = EntryOf(Response(k), cache'.entries[k])

(* The mutation of p that made v has returned. *)
Swept(p, v) ==
  /\ \A f \in Ids : Fetching(f) /\ PathAsked(f) = p => v \in overtaken'[f]
  /\ \A k \in DOMAIN cache'.entries : PathOf[k] # p

Grows ==
  /\ \A p \in Paths : lost[p] \subseteq lost'[p] /\ confirmed[p] \subseteq confirmed'[p]
  /\ \A f \in Ids : overtaken[f] \subseteq overtaken'[f]

(* Versions are made by a request that is then pending, and cease to be pending only
   when they are lost or their copies are gone. *)
Excusing ==
  \A p \in Paths :
    /\ \/ version'[p] = version[p]
       \/ \E v : v = version[p] + 1 /\ version'[p] = v /\ Pending(p, v)'
    /\ \A v : Pending(p, v) => Pending(p, v)' \/ v \in lost'[p] \/ Swept(p, v)

LEMMA ExcusedStays ==
  ASSUME Grows, Excusing, version \in [Paths -> Versions],
         NEW p \in Paths, NEW copy, copy.fetch \in Ids, copy.version \in Nat,
         Excused(copy, p),
         \/ Fetching(copy.fetch) /\ PathAsked(copy.fetch) = p
         \/ \E k \in DOMAIN cache'.entries : PathOf[k] = p
  PROVE  Excused(copy, p)'
<1> SUFFICES ASSUME NEW v \in Missed(copy.version, p)'
             PROVE  v \in lost'[p] \union overtaken'[copy.fetch] \/ Pending(p, v)'
  BY DEF Excused
<1>1. v \in Int /\ version[p] \in Int /\ v \in (copy.version + 1)..version'[p]
  BY VersionAssumption DEF Missed, Versions
<1>2. CASE v \in Missed(copy.version, p)
  <2>1. v \in lost[p] \union overtaken[copy.fetch] \/ Pending(p, v)
    BY <1>2 DEF Excused
  <2>2. CASE Pending(p, v)
    BY <2>2 DEF Excusing, Swept
  <2> QED BY <2>1, <2>2 DEF Grows
<1>3. CASE v \notin Missed(copy.version, p)
  <2>1. v > version[p]
    BY <1>1, <1>3, VersionAssumption DEF Missed, Versions
  <2>2. PICK w : w = version[p] + 1 /\ version'[p] = w /\ Pending(p, w)'
    BY <1>1, <2>1, VersionAssumption DEF Excusing
  <2>3. v = w
    BY <1>1, <2>1, <2>2
  <2> QED BY <2>2, <2>3
<1> QED BY <1>2, <1>3

(* Whatever else the step does, requests that do not move and copies that stay keep
   their part of the invariant. *)
LEMMA OthersKeep ==
  ASSUME IInv, Steady, Grows, Excusing, NEW i \in Ids, Rests(i)
  PROVE  RequestInv(i)' /\ ReadInv(i)'
<1>1. /\ RequestInv(i) /\ ReadInv(i)
      /\ \A p \in Paths : confirmed[p] \subseteq confirmed'[p]
      /\ phase'[i] = phase[i] /\ call'[i] = call[i] /\ useCache'[i] = useCache[i]
      /\ answer'[i] = answer[i] /\ expected'[i] = expected[i]
  BY DEF IInv, Rests, Grows
<1>2. phase[i] # "idle" => PathAsked(i) \in Paths /\ PathAsked(i)' = PathAsked(i)
  BY <1>1, CallAssumption DEF IInv, TypeInv, Paths, PathAsked
<1>3. \A f \in Ids : Shareable(f) => Shareable(f)'
  BY DEF Steady, Shareable
<1>4. \A f \in Ids : phase[f] = "done" => phase'[f] = "done"
  BY DEF Steady
<1>5. Fetching(i) => Excused(answer[i].body, PathAsked(i))'
  <2> SUFFICES ASSUME Fetching(i)
               PROVE  Excused(answer[i].body, PathAsked(i))'
    OBVIOUS
  <2>1. answer[i] \in Replies /\ answer[i].body.fetch = i
    BY <1>1 DEF RequestInv, Fetching
  <2>2. answer[i].body.version \in Nat
    BY <2>1, VersionAssumption DEF Replies, Reply, Versions
  <2>3. phase[i] # "idle"
    BY DEF Fetching
  <2>4. PICK copy, p : copy = answer[i].body /\ p = PathAsked(i)
    OBVIOUS
  <2>5. Excused(copy, p) /\ p \in Paths /\ version \in [Paths -> Versions]
    BY <1>1, <1>2, <2>3, <2>4 DEF RequestInv, IInv, TypeInv
  <2>6. copy.fetch \in Ids /\ copy.version \in Nat /\ Fetching(copy.fetch)
        /\ PathAsked(copy.fetch) = p
    BY <2>1, <2>2, <2>4
  <2>7. Excused(copy, p)'
    BY <2>5, <2>6, ExcusedStays
  <2>8. answer'[i].body = copy /\ PathAsked(i)' = p
    BY <1>1, <1>2, <2>3, <2>4
  <2> QED BY <2>7, <2>8
<1>6. RequestInv(i)'
  BY <1>1, <1>3, <1>5 DEF RequestInv, Fetching
<1>7. ReadInv(i)'
  <2>1. phase'[i] # "idle" => expected'[i] \subseteq confirmed'[PathAsked(i)']
    BY <1>1, <1>2 DEF ReadInv
  <2>2. phase'[i] \in {"answered", "mutated", "fetched"} =>
          \A v \in expected'[i] : v <= MadeBy(i)'
    BY <1>1 DEF ReadInv, MadeBy
  <2>3. ASSUME Answered(i)', answer'[i].body.fetch # i
        PROVE  \A f : f = answer[i].body.fetch =>
                 /\ phase'[f] = "done" /\ Shareable(f)'
                 /\ \A v \in expected[i] : v > answer[i].body.version => v \in overtaken'[f]
    <3>1. answer[i] \in Replies
      BY <1>1, <2>3 DEF Answered, IInv, TypeInv
    <3>2. PICK f \in Ids : f = answer[i].body.fetch
      BY <3>1 DEF Replies, Reply
    <3>3. /\ phase[f] = "done" /\ Shareable(f)
          /\ \A v \in expected[i] : v > answer[i].body.version => v \in overtaken[f]
      BY <1>1, <2>3, <3>2 DEF ReadInv, Answered
    <3>4. phase'[f] = "done" /\ Shareable(f)' /\ overtaken[f] \subseteq overtaken'[f]
      BY <1>3, <1>4, <3>3 DEF Grows
    <3> QED BY <3>2, <3>3, <3>4
  <2>4. Answered(i)' /\ answer'[i].body.fetch = i =>
          \A v \in expected'[i] : v <= answer'[i].body.version
    BY <1>1 DEF ReadInv, Answered
  <2> QED BY <1>1, <2>1, <2>2, <2>3, <2>4 DEF ReadInv, PathAsked
<1> QED BY <1>6, <1>7

LEMMA CopiesKeep ==
  ASSUME IInv, Steady, Grows, Excusing, NEW k \in DOMAIN cache'.entries,
         k \in DOMAIN cache.entries,
         cache'.entries[k] = EntryOf(Response(k), cache'.entries[k])
  PROVE  CopyInv(k)'
<1>1. CopyInv(k) /\ k \in Keys
  BY DEF IInv, TypeInv
<1>2. PICK copy, f, p :
        copy = Response(k).body /\ f = copy.fetch /\ p = PathOf[k] /\ f \in Ids /\ p \in Paths
  BY <1>1 DEF CopyInv, Replies, Reply, Paths
<1>3. Response(k)' = Response(k)
  BY DEF Response, EntryOf
<1>4. phase'[f] = "done" /\ Shareable(f)'
  BY <1>1, <1>2 DEF Steady, Shareable, CopyInv
<1>5. Excused(copy, p)'
  <2>1. Excused(copy, p) /\ copy.version \in Nat /\ version \in [Paths -> Versions]
    BY <1>1, <1>2, VersionAssumption DEF CopyInv, Replies, Reply, Versions, IInv, TypeInv
  <2> QED BY <1>2, <2>1, ExcusedStays
<1> QED BY <1>1, <1>2, <1>3, <1>4, <1>5 DEF CopyInv

(* Nothing is accepted, returns or is lost. *)
Calm ==
  /\ version' = version
  /\ confirmed' = confirmed /\ lost' = lost /\ overtaken' = overtaken
  /\ \A id \in Ids :
       /\ Accepted(id)' <=> Accepted(id)
       /\ Accepted(id) => answer'[id] = answer[id] /\ call'[id] = call[id]

LEMMA CalmSteps ==
  ASSUME IInv, Calm
  PROVE  Grows /\ Excusing /\ VersionInv'
<1>1. Grows
  BY DEF Calm, Grows
<1>2. Excusing
  BY DEF Calm, Excusing, Pending, MadeBy, PathAsked
<1>3. VersionInv'
  BY DEF Calm, IInv, VersionInv, MadeBy, PathAsked
<1> QED BY <1>1, <1>2, <1>3

(* The history of a step in which no request arrives, and no mutation returns or is
   lost *)
LEMMA HistoryRests ==
  ASSUME IInv, NextHistory,
         \A id \in Ids : /\ ~(phase[id] = "mutated" /\ phase'[id] = "done")
                         /\ ~(Accepted(id) /\ answer'[id] = NoAnswer)
  PROVE  /\ confirmed' = confirmed /\ lost' = lost /\ overtaken' = overtaken
         /\ \A id \in Ids : ~(phase[id] = "idle" /\ phase'[id] # "idle") =>
                              expected'[id] = expected[id]
         /\ \A id \in Ids : phase[id] = "idle" /\ phase'[id] # "idle" =>
                              expected'[id] = confirmed[PathAsked(id)']
<1>1. /\ confirmed \in [Paths -> SUBSET Nat] /\ lost \in [Paths -> SUBSET Nat]
      /\ overtaken \in [Ids -> SUBSET Nat]
  BY DEF IInv, TypeInv
<1>2. \A p \in Paths : confirmed'[p] = confirmed[p] /\ lost'[p] = lost[p]
  BY DEF NextHistory
<1>3. \A id \in Ids : overtaken'[id] = overtaken[id]
  BY DEF NextHistory
<1>4. /\ confirmed' = [p \in Paths |-> confirmed'[p]] /\ lost' = [p \in Paths |-> lost'[p]]
      /\ overtaken' = [id \in Ids |-> overtaken'[id]]
  BY DEF NextHistory
<1>5. confirmed' = confirmed /\ lost' = lost /\ overtaken' = overtaken
  BY <1>1, <1>2, <1>3, <1>4
<1> QED BY <1>5 DEF NextHistory, PathAsked

-------------------------------------------------------------------------------
(* What the methods of the cache leave in it *)

LEMMA WithoutKeeps ==
  ASSUME IInv, NEW ks, cache' = Cache!Without(cache, ks)
  PROVE  Kept /\ DOMAIN cache'.entries = DOMAIN cache.entries \ ks
<1>1. /\ DOMAIN cache'.entries = DOMAIN cache.entries \ ks
      /\ \A k \in DOMAIN cache'.entries : cache'.entries[k] = cache.entries[k]
  BY DEF Cache!Without, Cache!Held
<1> QED BY <1>1 DEF Kept, IInv, CopyInv

LEMMA MoreHits ==
  ASSUME NEW resp, NEW e, e = EntryOf(resp, e), NEW n
  PROVE  [e EXCEPT !.hits = n] = EntryOf(resp, [e EXCEPT !.hits = n])
<1>1. e = [response |-> resp, expiresAt |-> e.expiresAt, tags |-> e.tags, hits |-> e.hits]
  BY DEF EntryOf
<1>2. PICK x, y, z : e = [response |-> resp, expiresAt |-> x, tags |-> y, hits |-> z]
  BY <1>1
<1>3. [e EXCEPT !.hits = n] = [response |-> resp, expiresAt |-> x, tags |-> y, hits |-> n]
  BY <1>2
<1> QED BY <1>3 DEF EntryOf

LEMMA TouchedKeeps ==
  ASSUME IInv, NEW k \in DOMAIN cache.entries, cache' = Cache!Touched(cache, k)
  PROVE  Kept
<1>1. cache'.entries =
        [cache.entries EXCEPT ![k] = [cache.entries[k] EXCEPT !.hits = cache.entries[k].hits + 1]]
  BY DEF Cache!Touched
<1>2. \A j \in DOMAIN cache.entries : cache.entries[j] = EntryOf(Response(j), cache.entries[j])
  BY DEF IInv, CopyInv
<1>3. cache'.entries[k] = EntryOf(Response(k), cache'.entries[k])
  <2>1. PICK e, n, r : e = cache.entries[k] /\ n = cache.entries[k].hits + 1 /\ r = Response(k)
    OBVIOUS
  <2>2. cache'.entries[k] = [e EXCEPT !.hits = n] /\ e = EntryOf(r, e)
    BY <1>1, <1>2, <2>1
  <2> QED BY <2>1, <2>2, MoreHits
<1> QED BY <1>1, <1>2, <1>3 DEF Kept

LEMMA EvictionKeeps ==
  ASSUME IInv, NEW s, cache' \in Cache!AfterEviction(cache, s)
  PROVE  Kept
  BY WithoutKeeps DEF Cache!AfterEviction

LEMMA SameKeeps ==
  ASSUME IInv, cache' = cache
  PROVE  Kept
  BY DEF Kept, IInv, CopyInv

-------------------------------------------------------------------------------
(* The steps, one lemma each *)

LEMMA StepKeeps ==
  ASSUME IInv, Steady, Grows, Excusing, TypeInv', VersionInv', Kept,
         \A i \in Ids : Rests(i) \/ (RequestInv(i)' /\ ReadInv(i)')
  PROVE  IInv'
<1>1. \A i \in Ids : RequestInv(i)' /\ ReadInv(i)'
  BY OthersKeep
<1>2. \A k \in DOMAIN cache'.entries : CopyInv(k)'
  BY CopiesKeep DEF Kept
<1> QED BY <1>1, <1>2 DEF IInv

(* Reloads, clearings, checks of the upstream and the clock *)
LEMMA QuietKeeps ==
  ASSUME IInv, NextHistory, Kept, UNCHANGED <<version, phase, call, useCache, answer>>,
         settings' \in {Cache!Normalised(s) : s \in SettingsChoices}
  PROVE  IInv'
<1>1. \A id \in Ids : /\ ~(phase[id] = "mutated" /\ phase'[id] = "done")
                      /\ ~(Accepted(id) /\ answer'[id] = NoAnswer)
  BY DEF Accepted, NoAnswer
<1>2. /\ confirmed' = confirmed /\ lost' = lost /\ overtaken' = overtaken
      /\ \A id \in Ids : expected'[id] = expected[id]
  BY <1>1, HistoryRests
<1>3. Calm
  BY <1>2 DEF Calm, Accepted
<1>4. Steady /\ \A id \in Ids : Rests(id)
  BY <1>2 DEF Steady, Rests
<1>5. expected' = expected
  BY <1>2 DEF NextHistory, IInv, TypeInv
<1>6. TypeInv'
  BY <1>2, <1>5 DEF IInv, TypeInv, Kept
<1> QED BY <1>3, <1>4, <1>6, CalmSteps, StepKeeps

LEMMA BeginKeeps ==
  ASSUME IInv, NextHistory, NEW id \in Ids, NEW c \in Calls, Begin(id, c) \/ JoinFails(id, c)
  PROVE  IInv'
<1>0. phase[id] = "idle" => ~useCache[id] /\ answer[id] = NoAnswer
  BY DEF IInv, RequestInv, Shareable
<1>1. /\ phase[id] = "idle" /\ phase'[id] \in {"lookup", "sent", "done"}
      /\ phase' = [phase EXCEPT ![id] = phase'[id]]
      /\ call' = [call EXCEPT ![id] = c]
      /\ useCache' = [useCache EXCEPT ![id] = useCache'[id]]
      /\ useCache'[id] \in BOOLEAN
      /\ phase'[id] = "lookup" => useCache'[id]
      /\ useCache'[id] => Cache!ShouldUse(settings, HostOf[c.key], PathOf[c.key], c)
      /\ UNCHANGED <<settings, cache, version, answer>>
  BY <1>0 DEF Begin, JoinFails, Goto, IInv, TypeInv, cacheVars, Cache!ShouldUse
<1>2. call'[id] = c /\ \A i \in Ids \ {id} : phase'[i] = phase[i] /\ call'[i] = call[i]
                                             /\ useCache'[i] = useCache[i]
  BY <1>1 DEF IInv, TypeInv
<1>3. \A i \in Ids : /\ ~(phase[i] = "mutated" /\ phase'[i] = "done")
                     /\ ~(Accepted(i) /\ answer'[i] = NoAnswer)
  BY <1>1, <1>2 DEF Accepted, NoAnswer
<1>4. /\ confirmed' = confirmed /\ lost' = lost /\ overtaken' = overtaken
      /\ expected'[id] = confirmed[PathAsked(id)']
      /\ \A i \in Ids \ {id} : expected'[i] = expected[i]
  BY <1>1, <1>2, <1>3, HistoryRests
<1>5. Calm
  BY <1>1, <1>2, <1>4 DEF Calm, Accepted
<1>6. Steady /\ \A i \in Ids \ {id} : Rests(i)
  BY <1>1, <1>2, <1>4 DEF Steady, Rests
<1>7. Shareable(id)' \/ ~useCache'[id]
  <2> SUFFICES ASSUME useCache'[id]
               PROVE  Shareable(id)'
    OBVIOUS
  <2>1. PICK s \in SettingsChoices : settings = Cache!Normalised(s)
    BY DEF IInv, TypeInv
  <2>2. settings.defaultRule = s.defaultRule /\ settings.rules = s.rules
    BY <2>1 DEF Cache!Normalised
  <2>3. PICK rule \in Cache!Governing(settings, HostOf[c.key], PathOf[c.key]) :
          rule.sensitive \intersect c.headers = {}
    BY <1>1 DEF Cache!ShouldUse
  <2>4. rule = s.defaultRule \/ \E i \in DOMAIN s.rules : rule = s.rules[i]
    BY <2>2, <2>3 DEF Cache!Governing
  <2>5. \A h \in c.headers : ~AlwaysSensitive(h)
    BY <2>3, <2>4 DEF AlwaysSensitive
  <2>6. IsRead(c)
    BY <1>1 DEF Cache!ShouldUse, IsRead
  <2> QED BY <1>1, <1>2, <2>5, <2>6 DEF Shareable
<1>8. PathAsked(id)' \in Paths
  BY <1>2, CallAssumption DEF PathAsked, Paths
<1>9. TypeInv'
  <2>1. expected' \in [Ids -> SUBSET Nat]
    BY <1>4, <1>8 DEF NextHistory, IInv, TypeInv
  <2>2. phase' \in [Ids -> Phases] /\ useCache' \in [Ids -> BOOLEAN]
    BY <1>1 DEF IInv, TypeInv, Phases
  <2>3. DOMAIN call' = Ids /\ \A i \in Ids : phase'[i] # "idle" => call'[i] \in Calls
    BY <1>1, <1>2 DEF IInv, TypeInv
  <2> QED BY <1>1, <1>4, <2>1, <2>2, <2>3 DEF IInv, TypeInv
<1>10. RequestInv(id)' /\ ReadInv(id)'
  BY <1>0, <1>1, <1>4, <1>7 DEF RequestInv, ReadInv, Fetching, Answered
<1> QED BY <1>1, <1>5, <1>6, <1>9, <1>10, CalmSteps, StepKeeps, SameKeeps

(* A request moves and leaves what it asks as it is. *)
Moves(id, p) ==
  /\ phase' = [phase EXCEPT ![id] = p]
  /\ p \in Phases \ {"idle"} /\ phase[id] \in Phases \ {"idle", "done"}
  /\ UNCHANGED <<call, useCache>>
  /\ DOMAIN answer' = Ids /\ \A i \in Ids \ {id} : answer'[i] = answer[i]
  /\ answer'[id] \in Replies \union {NoAnswer}
  /\ settings' = settings

LEMMA MoveShape ==
  ASSUME IInv, NextHistory, NEW id \in Ids, NEW p, Moves(id, p)
  PROVE  /\ Steady /\ expected' = expected /\ phase'[id] = p
         /\ \A i \in Ids \ {id} : Rests(i)
         /\ Kept /\ version' \in [Paths -> Versions] /\ confirmed' \in [Paths -> SUBSET Nat]
            /\ lost' \in [Paths -> SUBSET Nat] /\ overtaken' \in [Ids -> SUBSET Nat] => TypeInv'
         /\ PathAsked(id)' = PathAsked(id) /\ PathAsked(id) \in Paths
<1>1. phase'[id] = p /\ \A i \in Ids \ {id} : phase'[i] = phase[i]
  BY DEF Moves, IInv, TypeInv
<1>2. \A i \in Ids : ~(phase[i] = "idle" /\ phase'[i] # "idle")
  BY <1>1 DEF Moves
<1>3. expected' = expected
  BY <1>2 DEF NextHistory, IInv, TypeInv
<1>4. Steady /\ \A i \in Ids \ {id} : Rests(i)
  BY <1>1, <1>3 DEF Moves, Steady, Rests
<1>5. phase' \in [Ids -> Phases]
  BY DEF Moves, IInv, TypeInv
<1>6. PathAsked(id)' = PathAsked(id) /\ PathAsked(id) \in Paths
  BY CallAssumption DEF Moves, IInv, TypeInv, PathAsked, Paths
<1>7. \A i \in Ids : phase'[i] # "idle" => call'[i] \in Calls
  BY <1>1 DEF Moves, IInv, TypeInv
<1>8. \A i \in Ids : answer'[i] \in Replies \union {NoAnswer}
  BY DEF Moves, IInv, TypeInv
<1>9. Kept /\ version' \in [Paths -> Versions] /\ confirmed' \in [Paths -> SUBSET Nat]
      /\ lost' \in [Paths -> SUBSET Nat] /\ overtaken' \in [Ids -> SUBSET Nat] => TypeInv'
  BY <1>3, <1>5, <1>7, <1>8 DEF Moves, IInv, TypeInv, Kept
<1> QED BY <1>1, <1>3, <1>4, <1>6, <1>9

(* A move in which nothing is accepted, returns or is lost *)
LEMMA CalmMoveKeeps ==
  ASSUME IInv, NextHistory, NEW id \in Ids, NEW p, Moves(id, p), Kept, version' = version,
         ~(phase[id] = "mutated" /\ p = "done"),
         ~(Accepted(id) /\ answer'[id] = NoAnswer),
         Accepted(id)' <=> Accepted(id), Accepted(id) => answer'[id] = answer[id],
         Grows /\ Excusing /\ Steady /\ confirmed' = confirmed /\ overtaken' = overtaken
           /\ PathAsked(id)' = PathAsked(id) =>
             RequestInv(id)' /\ ReadInv(id)'
  PROVE  IInv'
<1>1. /\ Steady /\ phase'[id] = p /\ expected' = expected
      /\ \A i \in Ids \ {id} : Rests(i)
      /\ PathAsked(id)' = PathAsked(id)
  BY MoveShape
<1>2. \A i \in Ids : /\ ~(phase[i] = "mutated" /\ phase'[i] = "done")
                     /\ ~(Accepted(i) /\ answer'[i] = NoAnswer)
  BY <1>1 DEF Rests, Accepted, NoAnswer
<1>3. confirmed' = confirmed /\ lost' = lost /\ overtaken' = overtaken
  BY <1>2, HistoryRests
<1>4. Calm
  BY <1>1, <1>3 DEF Calm, Accepted, Rests, Moves
<1>5. TypeInv'
  BY <1>3, MoveShape DEF IInv, TypeInv
<1> QED BY <1>1, <1>3, <1>4, <1>5, CalmSteps, StepKeeps

LEMMA ReplyFields ==
  ASSUME NEW r \in Replies
  PROVE  /\ r # NoAnswer /\ r.body.fetch \in Ids /\ r.body.version \in Versions
         /\ r.body.version \in Nat
  BY VersionAssumption DEF Replies, Reply, NoAnswer, Versions

LEMMA HitKeeps ==
  ASSUME IInv, NextHistory, NEW id \in Ids, LookupHit(id)
  PROVE  IInv'
<1> DEFINE k == call[id].key
<1>1. /\ phase[id] = "lookup" /\ phase' = [phase EXCEPT ![id] = "done"]
      /\ k \in DOMAIN cache.entries /\ cache' = Cache!Touched(cache, k)
      /\ answer' = [answer EXCEPT ![id] = Response(k)]
      /\ UNCHANGED <<settings, version, call, useCache>>
  BY DEF LookupHit, Cache!GetHit, Cache!IsHit, Cache!Held, Goto, Response
<1>2. CopyInv(k) /\ Response(k) \in Replies
  BY <1>1 DEF IInv, CopyInv
<1>3. Moves(id, "done")
  BY <1>1, <1>2 DEF Moves, Phases, IInv, TypeInv
<1>4. Kept
  BY <1>1, TouchedKeeps
<1>5. ~Accepted(id) /\ ~Accepted(id)'
  BY <1>1, <1>3 DEF Accepted, IInv, TypeInv
<1>6. ASSUME Steady, overtaken' = overtaken, confirmed' = confirmed,
             PathAsked(id)' = PathAsked(id)
      PROVE  RequestInv(id)' /\ ReadInv(id)'
  <2>1. PICK f \in Ids : f = Response(k).body.fetch
    BY <1>2, ReplyFields
  <2>2. /\ phase[f] = "done" /\ Shareable(f) /\ f # id
        /\ phase'[f] = "done" /\ Shareable(f)'
    BY <1>1, <1>2, <1>6, <2>1 DEF CopyInv, Shareable, Steady
  <2>3. answer'[id] = Response(k) /\ phase'[id] = "done" /\ expected'[id] = expected[id]
    BY <1>1, <1>3, MoveShape DEF IInv, TypeInv
  <2>4. \A v \in expected[id] : v > Response(k).body.version => v \in overtaken[f]
    <3> SUFFICES ASSUME NEW v \in expected[id], v > Response(k).body.version
                 PROVE  v \in overtaken[f]
      OBVIOUS
    <3>1. PathOf[k] = PathAsked(id) /\ PathAsked(id) \in Paths
      BY <1>3, MoveShape DEF PathAsked
    <3>2. v \in confirmed[PathAsked(id)] /\ v \in Nat
      BY <1>1, <3>1 DEF IInv, ReadInv, TypeInv
    <3>3. v <= version[PathAsked(id)] /\ v \notin lost[PathAsked(id)]
      BY <3>1, <3>2 DEF IInv, VersionInv
    <3>4. ~Pending(PathAsked(id), v)
      BY <3>2 DEF IInv, VersionInv, Pending
    <3>5. v \in Missed(Response(k).body.version, PathOf[k])
      BY <1>2, <3>1, <3>2, <3>3, ReplyFields, VersionAssumption
      DEF Missed, IInv, TypeInv, Versions
    <3> QED BY <1>2, <2>1, <3>1, <3>3, <3>4, <3>5 DEF CopyInv, Excused
  <2>5. RequestInv(id) /\ ReadInv(id)
    BY DEF IInv
  <2>6. useCache'[id] => Shareable(id)'
    BY <1>1, <1>6, <2>5 DEF RequestInv, Shareable, Steady
  <2>7. RequestInv(id)'
    BY <2>3, <2>6 DEF RequestInv, Fetching
  <2>8. ReadInv(id)'
    BY <1>1, <1>6, <2>1, <2>2, <2>3, <2>4, <2>5 DEF ReadInv, Fetching, Answered
  <2> QED BY <2>7, <2>8
<1> QED BY <1>1, <1>3, <1>4, <1>5, <1>6, CalmMoveKeeps

LEMMA MissKeeps ==
  ASSUME IInv, NextHistory, NEW id \in Ids, LookupMiss(id)
  PROVE  IInv'
<1>1. /\ phase[id] = "lookup" /\ phase' = [phase EXCEPT ![id] = "sent"]
      /\ cache' = Cache!Without(cache, {call[id].key})
      /\ UNCHANGED <<settings, version, call, useCache, answer>>
  BY DEF LookupMiss, Cache!GetMiss, Goto
<1>2. Moves(id, "sent")
  BY <1>1 DEF Moves, Phases, IInv, TypeInv
<1>3. Kept
  BY <1>1, WithoutKeeps
<1>4. phase'[id] = "sent" /\ expected' = expected
  BY <1>2, MoveShape
<1>5. ~Accepted(id) /\ ~Accepted(id)'
  BY <1>1, <1>4 DEF Accepted
<1>6. ASSUME Steady, confirmed' = confirmed, PathAsked(id)' = PathAsked(id)
      PROVE  RequestInv(id)' /\ ReadInv(id)'
  <2>1. RequestInv(id) /\ ReadInv(id)
    BY DEF IInv
  <2>2. useCache'[id] => Shareable(id)'
    BY <1>1, <1>6, <2>1 DEF RequestInv, Shareable, Steady
  <2> QED BY <1>1, <1>4, <1>6, <2>1, <2>2 DEF RequestInv, ReadInv, Fetching, Answered
<1> QED BY <1>1, <1>2, <1>3, <1>5, <1>6, CalmMoveKeeps

(* The upstream answers, with its present version. *)
LEMMA AnswerFits ==
  ASSUME IInv, NEW id \in Ids, NEW v, phase[id] = "sent", phase'[id] = "answered",
         Steady, UNCHANGED useCache, PathAsked(id)' = PathAsked(id), PathAsked(id) \in Paths,
         answer'[id] \in Replies, answer'[id].body = [version |-> v, fetch |-> id],
         version'[PathAsked(id)] = v, v \in Nat, version[PathAsked(id)] <= v,
         confirmed' = confirmed, expected' = expected
  PROVE  RequestInv(id)' /\ ReadInv(id)'
<1>1. RequestInv(id) /\ ReadInv(id)
  BY DEF IInv
<1>2. useCache'[id] => Shareable(id)'
  BY <1>1 DEF RequestInv, Shareable, Steady
<1>3. PICK copy, p : copy = answer'[id].body /\ p = PathAsked(id)
  OBVIOUS
<1>4. RequestInv(id)'
  <2>1. Excused(copy, p)'
    BY <1>3 DEF Excused, Missed
  <2>2. Excused(answer[id].body, PathAsked(id))'
    BY <1>3, <2>1
  <2> QED BY <1>2, <1>3, <2>2 DEF RequestInv
<1>5. \A w \in expected[id] : w <= v
  <2>1. \A w \in expected[id] : w \in Nat /\ w <= version[PathAsked(id)]
    BY <1>1 DEF IInv, TypeInv, VersionInv, ReadInv
  <2> QED BY <2>1, VersionAssumption DEF IInv, TypeInv, Versions
<1>6. ReadInv(id)'
  BY <1>1, <1>5 DEF ReadInv, Fetching, Answered, MadeBy
<1> QED BY <1>4, <1>6

LEMMA ReadsKeeps ==
  ASSUME IInv, NextHistory, NEW id \in Ids, UpstreamReads(id) \/ UpstreamRefuses(id)
  PROVE  IInv'
<1>1. PICK class \in {"2xx", "5xx"} :
        /\ class = "2xx" => IsRead(call[id])
        /\ answer' = [answer EXCEPT ![id] = Reply(id, class, version[PathAsked(id)])]
  BY DEF UpstreamReads, UpstreamRefuses
<1>2. /\ phase[id] = "sent" /\ phase' = [phase EXCEPT ![id] = "answered"]
      /\ UNCHANGED <<settings, cache, version, call, useCache>>
  BY DEF UpstreamReads, UpstreamRefuses, Goto, cacheVars
<1>3. PathAsked(id) \in Paths /\ PathAsked(id)' = PathAsked(id)
  BY <1>2, CallAssumption DEF IInv, TypeInv, PathAsked, Paths
<1>4. version[PathAsked(id)] \in Versions /\ version[PathAsked(id)] \in Nat
  BY <1>3, VersionAssumption DEF IInv, TypeInv, Versions
<1>5. /\ answer'[id] = Reply(id, class, version[PathAsked(id)]) /\ answer'[id] \in Replies
      /\ phase'[id] = "answered"
  BY <1>1, <1>2, <1>4 DEF Replies, IInv, TypeInv
<1>6. Moves(id, "answered")
  BY <1>1, <1>2, <1>5 DEF Moves, Phases, IInv, TypeInv
<1>7. ~Accepted(id) /\ ~Accepted(id)'
  BY <1>1, <1>2, <1>5 DEF Accepted, Reply
<1>8. answer'[id].body = [version |-> version[PathAsked(id)], fetch |-> id]
  BY <1>5 DEF Reply
<1>9. Steady /\ confirmed' = confirmed => RequestInv(id)' /\ ReadInv(id)'
  BY <1>2, <1>3, <1>4, <1>5, <1>6, <1>8, MoveShape, AnswerFits
<1>10. Kept
  BY <1>2, SameKeeps
<1> QED BY <1>2, <1>6, <1>7, <1>9, <1>10, CalmMoveKeeps

LEMMA MutatesKeeps ==
  ASSUME IInv, NextHistory, NEW id \in Ids, UpstreamMutates(id)
  PROVE  IInv'
<1> DEFINE p == PathAsked(id)
<1>1. /\ phase[id] = "sent" /\ phase' = [phase EXCEPT ![id] = "answered"]
      /\ ~IsRead(call[id]) /\ version[p] < MaxVersion
      /\ version' = [version EXCEPT ![p] = version[p] + 1]
      /\ answer' = [answer EXCEPT ![id] = Reply(id, "2xx", version[p] + 1)]
      /\ UNCHANGED <<settings, cache, call, useCache>>
  BY DEF UpstreamMutates, Goto, cacheVars
<1>2. p \in Paths /\ p' = p
  BY <1>1, CallAssumption DEF IInv, TypeInv, PathAsked, Paths
<1>3. PICK v : v = version[p] + 1 /\ v \in Versions /\ v \in Nat /\ version[p] <= v
               /\ version[p] \in Nat
  BY <1>1, <1>2, VersionAssumption DEF IInv, TypeInv, Versions
<1>4. /\ answer'[id] = Reply(id, "2xx", v) /\ answer'[id] \in Replies
      /\ answer'[id].body = [version |-> v, fetch |-> id] /\ answer'[id].class = "2xx"
      /\ phase'[id] = "answered"
      /\ version'[p] = v /\ \A q \in Paths \ {p} : version'[q] = version[q]
  <2>1. answer'[id] = Reply(id, "2xx", v) /\ phase'[id] = "answered"
    BY <1>1, <1>3 DEF IInv, TypeInv
  <2>2. version'[p] = v /\ \A q \in Paths \ {p} : version'[q] = version[q]
    BY <1>1, <1>2, <1>3 DEF IInv, TypeInv
  <2>3. Reply(id, "2xx", v) \in Replies
    BY <1>3 DEF Replies
  <2> QED BY <2>1, <2>2, <2>3 DEF Reply
<1>5. Moves(id, "answered")
  BY <1>1, <1>4 DEF Moves, Phases, IInv, TypeInv
<1>6. Steady /\ expected' = expected /\ \A i \in Ids \ {id} : Rests(i)
  BY <1>5, MoveShape
<1>7. ~Accepted(id) /\ Accepted(id)' /\ MadeBy(id)' = v
  BY <1>1, <1>4 DEF Accepted, MadeBy
<1>8. \A i \in Ids : /\ ~(phase[i] = "mutated" /\ phase'[i] = "done")
                     /\ ~(Accepted(i) /\ answer'[i] = NoAnswer)
  BY <1>4, <1>6, <1>7 DEF Rests, Accepted, NoAnswer
<1>9. confirmed' = confirmed /\ lost' = lost /\ overtaken' = overtaken
  BY <1>8, HistoryRests
<1>10. \A i \in Ids \ {id} : /\ Accepted(i)' <=> Accepted(i)
                             /\ PathAsked(i)' = PathAsked(i) /\ MadeBy(i)' = MadeBy(i)
  BY <1>6 DEF Rests, Accepted, PathAsked, MadeBy
<1>11. Excusing
  <2>1. \A q \in Paths : \A w : Pending(q, w) => Pending(q, w)'
    BY <1>7, <1>10 DEF Pending
  <2>2. Pending(p, v)'
    BY <1>2, <1>7 DEF Pending
  <2> QED BY <1>2, <1>3, <1>4, <2>1, <2>2 DEF Excusing
<1>12. Grows
  BY <1>9 DEF Grows
<1>13. version' \in [Paths -> Versions]
  BY <1>1, <1>3 DEF IInv, TypeInv
<1>14. \A q \in Paths : version[q] <= version'[q] /\ version[q] \in Nat /\ version'[q] \in Nat
  BY <1>3, <1>4, <1>13, VersionAssumption DEF IInv, TypeInv, Versions
<1>15. \A i \in Ids : Accepted(i) => PathAsked(i) \in Paths /\ MadeBy(i) \in Nat
  BY CallAssumption, ReplyFields
  DEF IInv, TypeInv, RequestInv, Accepted, PathAsked, Paths, MadeBy
<1>16. VersionInv'
  <2>1. /\ \A q \in Paths : /\ lost[q] \subseteq Nat /\ confirmed[q] \subseteq Nat
                            /\ \A w \in lost[q] \union confirmed[q] : w <= version[q]
                            /\ lost[q] \intersect confirmed[q] = {}
        /\ \A i \in Ids : Accepted(i) =>
             /\ MadeBy(i) \notin lost[PathAsked(i)] \union confirmed[PathAsked(i)]
             /\ MadeBy(i) <= version[PathAsked(i)]
    BY DEF IInv, TypeInv, VersionInv
  <2>2. v \notin lost[p] \union confirmed[p]
    BY <1>2, <1>3, <2>1
  <2>3. \A i \in Ids \ {id} : Accepted(i) /\ PathAsked(i) = p => MadeBy(i) # v
    BY <1>3, <1>15, <2>1
  <2>4. \A i \in Ids : Accepted(i)' =>
          /\ MadeBy(i)' \notin lost'[PathAsked(i)'] \union confirmed'[PathAsked(i)']
          /\ MadeBy(i)' <= version'[PathAsked(i)']
    <3> SUFFICES ASSUME NEW i \in Ids, Accepted(i)'
                 PROVE  /\ MadeBy(i)' \notin lost[PathAsked(i)'] \union confirmed[PathAsked(i)']
                        /\ MadeBy(i)' <= version'[PathAsked(i)']
      BY <1>9
    <3>1. CASE i = id
      BY <1>2, <1>3, <1>4, <1>7, <2>2, <3>1
    <3>2. CASE i # id
      BY <1>10, <1>14, <1>15, <2>1, <3>2
    <3> QED BY <3>1, <3>2
  <2>5. \A i, j \in Ids :
          Accepted(i)' /\ Accepted(j)' /\ PathAsked(i)' = PathAsked(j)' /\ MadeBy(i)' = MadeBy(j)'
            => i = j
    BY <1>2, <1>7, <1>10, <2>3 DEF IInv, VersionInv
  <2>6. \A q \in Paths : \A w \in lost[q] \union confirmed[q] : w <= version'[q]
    BY <1>14, <2>1
  <2> QED BY <1>9, <2>1, <2>4, <2>5, <2>6 DEF VersionInv
<1>17. Kept
  BY <1>1, SameKeeps
<1>18. TypeInv'
  BY <1>5, <1>9, <1>13, <1>17, MoveShape DEF IInv, TypeInv
<1>19. RequestInv(id)' /\ ReadInv(id)'
  BY <1>1, <1>2, <1>3, <1>4, <1>6, <1>9, AnswerFits
<1> QED BY <1>6, <1>11, <1>12, <1>16, <1>17, <1>18, <1>19, StepKeeps

(* A request that comes to nothing, or an answer that is lost with the mutation that it
   confirms *)
LEMMA FailKeeps ==
  ASSUME IInv, NextHistory, NEW id \in Ids, RequestFails(id) \/ DoFails(id) \/ ReadFails(id)
  PROVE  IInv'
<1>0. phase[id] = "sent" => answer[id] = NoAnswer
  BY DEF IInv, RequestInv
<1>1. /\ phase[id] \in {"sent", "answered"} /\ phase' = [phase EXCEPT ![id] = "done"]
      /\ DOMAIN answer' = Ids /\ answer'[id] = NoAnswer
      /\ \A i \in Ids \ {id} : answer'[i] = answer[i]
      /\ UNCHANGED <<settings, cache, version, call, useCache>>
  BY <1>0 DEF RequestFails, DoFails, ReadFails, Goto, cacheVars, IInv, TypeInv
<1>2. Moves(id, "done")
  BY <1>1 DEF Moves, Phases, IInv, TypeInv
<1>3. /\ Steady /\ expected' = expected /\ \A i \in Ids \ {id} : Rests(i)
      /\ phase'[id] = "done" /\ answer'[id] = NoAnswer
      /\ PathAsked(id)' = PathAsked(id) /\ PathAsked(id) \in Paths
  BY <1>1, <1>2, MoveShape DEF IInv, TypeInv
<1>4. Kept
  BY <1>1, SameKeeps
<1>5. RequestInv(id) /\ ReadInv(id)
  BY DEF IInv
<1>6. Grows => RequestInv(id)' /\ ReadInv(id)'
  <2>1. useCache'[id] => Shareable(id)'
    BY <1>1, <1>3, <1>5 DEF RequestInv, Shareable, Steady
  <2>2. RequestInv(id)'
    BY <1>3, <2>1 DEF RequestInv, Fetching
  <2>3. Grows => ReadInv(id)'
    BY <1>1, <1>3, <1>5 DEF ReadInv, Fetching, Answered, Grows
  <2> QED BY <2>2, <2>3
<1>7. ~Accepted(id)'
  BY <1>3 DEF Accepted
<1>8. CASE ~Accepted(id)
  BY <1>1, <1>2, <1>4, <1>6, <1>7, <1>8, CalmMoveKeeps
<1>9. CASE Accepted(id)
  <2>1. PICK p \in Paths, v \in Nat : p = PathAsked(id) /\ v = MadeBy(id)
    BY <1>1, <1>3, <1>5, <1>9, ReplyFields DEF RequestInv, Accepted, MadeBy
  <2>2. \A i \in Ids : ~(phase[i] = "mutated" /\ phase'[i] = "done")
    BY <1>1, <1>3 DEF Rests
  <2>3. \A i \in Ids : Accepted(i) /\ answer'[i] = NoAnswer <=> i = id
    BY <1>3, <1>9 DEF Rests, Accepted, NoAnswer
  <2>4. /\ \A q \in Paths : confirmed'[q] = confirmed[q]
        /\ \A f \in Ids : overtaken'[f] = overtaken[f]
        /\ lost'[p] = lost[p] \union {v} /\ \A q \in Paths \ {p} : lost'[q] = lost[q]
    BY <2>1, <2>2, <2>3 DEF NextHistory
  <2>5. /\ confirmed' = [q \in Paths |-> confirmed'[q]] /\ lost' = [q \in Paths |-> lost'[q]]
        /\ overtaken' = [f \in Ids |-> overtaken'[f]]
    BY DEF NextHistory
  <2>6. confirmed' = confirmed /\ overtaken' = overtaken /\ lost' \in [Paths -> SUBSET Nat]
    <3>1. /\ confirmed \in [Paths -> SUBSET Nat] /\ lost \in [Paths -> SUBSET Nat]
          /\ overtaken \in [Ids -> SUBSET Nat]
      BY DEF IInv, TypeInv
    <3> QED BY <2>1, <2>4, <2>5, <3>1
  <2>7. Grows
    BY <2>1, <2>4 DEF Grows
  <2>8. \A i \in Ids \ {id} : /\ Accepted(i)' <=> Accepted(i)
                              /\ PathAsked(i)' = PathAsked(i) /\ MadeBy(i)' = MadeBy(i)
    BY <1>3 DEF Rests, Accepted, PathAsked, MadeBy
  <2>9. Excusing
    <3>1. \A q \in Paths : \A w : Pending(q, w) => Pending(q, w)' \/ w \in lost'[q]
      BY <2>1, <2>4, <2>8 DEF Pending
    <3> QED BY <1>1, <3>1 DEF Excusing
  <2>10. VersionInv'
    <3>1. VersionInv /\ v <= version[p] /\ v \notin confirmed[p]
      BY <1>9, <2>1 DEF IInv, VersionInv
    <3>2. \A i \in Ids \ {id} : Accepted(i) /\ PathAsked(i) = p => MadeBy(i) # v
      BY <1>9, <2>1, <3>1 DEF VersionInv
    <3>3. \A i \in Ids : Accepted(i)' =>
            /\ MadeBy(i)' \notin lost'[PathAsked(i)'] \union confirmed'[PathAsked(i)']
            /\ MadeBy(i)' <= version'[PathAsked(i)']
      <4> SUFFICES ASSUME NEW i \in Ids \ {id}, Accepted(i)
                   PROVE  /\ MadeBy(i) \notin lost'[PathAsked(i)] \union confirmed[PathAsked(i)]
                          /\ MadeBy(i) <= version[PathAsked(i)]
        BY <1>1, <1>7, <2>6, <2>8
      <4>1. PathAsked(i) \in Paths
        BY CallAssumption DEF IInv, TypeInv, Accepted, PathAsked, Paths
      <4> QED BY <2>4, <3>1, <3>2, <4>1 DEF VersionInv
    <3>4. \A i, j \in Ids :
            Accepted(i)' /\ Accepted(j)' /\ PathAsked(i)' = PathAsked(j)' /\ MadeBy(i)' = MadeBy(j)'
              => i = j
      BY <1>7, <2>8, <3>1 DEF VersionInv
    <3>5. \A q \in Paths : /\ lost'[q] \intersect confirmed'[q] = {}
                           /\ \A w \in lost'[q] \union confirmed'[q] : w <= version'[q]
      BY <1>1, <2>4, <3>1 DEF VersionInv
    <3> QED BY <3>3, <3>4, <3>5 DEF VersionInv
  <2>11. TypeInv'
    BY <1>1, <1>2, <1>4, <2>6, MoveShape DEF IInv, TypeInv
  <2> QED BY <1>3, <1>4, <1>6, <2>7, <2>9, <2>10, <2>11, StepKeeps
<1> QED BY <1>8, <1>9

LEMMA BodyKeeps ==
  ASSUME IInv, NextHistory, NEW id \in Ids, ReadBody(id)
  PROVE  IInv'
<1>1. PICK next \in {"mutated", "fetched", "done"} :
        /\ next = IF answer[id].class \in {"2xx", "3xx"} /\ ~IsRead(call[id]) THEN "mutated"
                  ELSE IF useCache[id] THEN "fetched" ELSE "done"
        /\ phase' = [phase EXCEPT ![id] = next]
  BY DEF ReadBody, Goto
<1>2. phase[id] = "answered" /\ UNCHANGED <<settings, cache, version, call, useCache, answer>>
  BY DEF ReadBody, cacheVars
<1>3. Moves(id, next)
  BY <1>1, <1>2 DEF Moves, Phases, IInv, TypeInv
<1>4. Steady /\ expected' = expected /\ phase'[id] = next /\ PathAsked(id) \in Paths
  BY <1>3, MoveShape
<1>5. RequestInv(id) /\ ReadInv(id)
  BY DEF IInv
<1>6. answer[id] \in Replies /\ answer[id].body.fetch = id /\ answer[id].class \in {"2xx", "5xx"}
  BY <1>2, <1>5 DEF RequestInv, Replies, Reply
<1>7. Accepted(id)' <=> Accepted(id)
  BY <1>1, <1>2, <1>4, <1>6 DEF Accepted
<1>8. ~(Accepted(id) /\ answer'[id] = NoAnswer)
  BY <1>2, <1>6, ReplyFields
<1>9. Kept
  BY <1>2, SameKeeps
<1>10. ASSUME Grows, Excusing, confirmed' = confirmed, PathAsked(id)' = PathAsked(id)
       PROVE  RequestInv(id)' /\ ReadInv(id)'
  <2>1. PICK copy, p : copy = answer[id].body /\ p = PathAsked(id)
    OBVIOUS
  <2>2. Excused(copy, p)'
    <3>1. Excused(copy, p) /\ Fetching(id)
      BY <1>2, <1>5, <2>1 DEF RequestInv, Fetching
    <3>2. copy.fetch = id /\ copy.version \in Nat
      BY <1>6, <2>1, ReplyFields
    <3>3. version \in [Paths -> Versions]
      BY DEF IInv, TypeInv
    <3> QED BY <1>4, <1>10, <2>1, <3>1, <3>2, <3>3, ExcusedStays
  <2>3. Excused(answer[id].body, PathAsked(id))'
    BY <1>2, <1>10, <2>1, <2>2
  <2>4. useCache'[id] => Shareable(id)'
    BY <1>2, <1>4, <1>5 DEF RequestInv, Shareable, Steady
  <2>5. RequestInv(id)'
    BY <1>1, <1>2, <1>4, <1>6, <2>3, <2>4 DEF RequestInv
  <2>6. ReadInv(id)'
    BY <1>1, <1>2, <1>4, <1>5, <1>6, <1>10 DEF ReadInv, Fetching, Answered, MadeBy
  <2> QED BY <2>5, <2>6
<1> QED BY <1>2, <1>3, <1>7, <1>8, <1>9, <1>10, CalmMoveKeeps

(* A mutation returns: its copies go, and it overtakes the answers on their way. *)
LEMMA InvalidateKeeps ==
  ASSUME IInv, NextHistory, NEW id \in Ids, InvalidateCopies(id)
  PROVE  IInv'
<1>1. /\ phase[id] = "mutated" /\ phase' = [phase EXCEPT ![id] = "done"]
      /\ cache' = Cache!Without(cache, {k \in Keys : Cache!IsPrefix(PathAsked(id), PathOf[k])})
      /\ UNCHANGED <<settings, version, call, useCache, answer>>
  BY DEF InvalidateCopies, Cache!InvalidateForMutation, Goto
<1>2. Moves(id, "done")
  BY <1>1 DEF Moves, Phases, IInv, TypeInv
<1>3. /\ Steady /\ expected' = expected /\ \A i \in Ids \ {id} : Rests(i)
      /\ phase'[id] = "done" /\ PathAsked(id)' = PathAsked(id) /\ PathAsked(id) \in Paths
  BY <1>1, <1>2, MoveShape DEF IInv, TypeInv
<1>4. /\ RequestInv(id) /\ ReadInv(id) /\ answer[id] \in Replies
      /\ answer[id].body.fetch = id /\ Accepted(id)
  BY <1>1 DEF IInv, RequestInv, Accepted
<1>5. PICK p \in Paths, v \in Nat : p = PathAsked(id) /\ v = MadeBy(id)
  BY <1>3, <1>4, ReplyFields DEF MadeBy
<1>6. Kept /\ \A k \in DOMAIN cache'.entries : PathOf[k] # p
  <2>1. \A k \in Keys : PathOf[k] = p => Cache!IsPrefix(p, PathOf[k])
    BY PathAssumption DEF Cache!IsPrefix
  <2> QED BY <1>1, <1>5, <2>1, WithoutKeeps DEF Kept, IInv, TypeInv
<1>7. \A i \in Ids : phase[i] = "mutated" /\ phase'[i] = "done" <=> i = id
  BY <1>1, <1>3 DEF Rests
<1>8. \A i \in Ids : ~(Accepted(i) /\ answer'[i] = NoAnswer)
  BY <1>1 DEF Accepted, NoAnswer
<1>9. /\ confirmed'[p] = confirmed[p] \union {v}
      /\ \A q \in Paths \ {p} : confirmed'[q] = confirmed[q]
      /\ \A q \in Paths : lost'[q] = lost[q]
      /\ \A f \in Ids : overtaken'[f] = IF Fetching(f) /\ PathAsked(f) = p
                                        THEN overtaken[f] \union {v} ELSE overtaken[f]
  BY <1>5, <1>7, <1>8 DEF NextHistory
<1>10. Grows
  BY <1>9 DEF Grows
<1>11. /\ confirmed' \in [Paths -> SUBSET Nat] /\ lost' = lost
       /\ overtaken' \in [Ids -> SUBSET Nat]
  <2>1. /\ confirmed \in [Paths -> SUBSET Nat] /\ lost \in [Paths -> SUBSET Nat]
        /\ overtaken \in [Ids -> SUBSET Nat]
    BY DEF IInv, TypeInv
  <2>2. /\ confirmed' = [q \in Paths |-> confirmed'[q]] /\ lost' = [q \in Paths |-> lost'[q]]
        /\ overtaken' = [f \in Ids |-> overtaken'[f]]
    BY DEF NextHistory
  <2>3. \A f \in Ids : overtaken'[f] \subseteq Nat
    BY <1>9, <2>1
  <2>4. \A q \in Paths : confirmed'[q] \subseteq Nat
    BY <1>5, <1>9, <2>1
  <2> QED BY <1>9, <2>1, <2>2, <2>3, <2>4
<1>12. TypeInv'
  BY <1>1, <1>2, <1>6, <1>11, MoveShape DEF IInv, TypeInv
<1>13. /\ ~Accepted(id)'
       /\ \A i \in Ids \ {id} : /\ Accepted(i)' <=> Accepted(i)
                                /\ PathAsked(i)' = PathAsked(i) /\ MadeBy(i)' = MadeBy(i)
  BY <1>3 DEF Rests, Accepted, PathAsked, MadeBy
<1>14. Excusing
  <2>1. Swept(p, v)
    BY <1>6, <1>9 DEF Swept
  <2>2. \A q \in Paths : \A w : Pending(q, w) => Pending(q, w)' \/ (q = p /\ w = v)
    BY <1>5, <1>13 DEF Pending
  <2> QED BY <1>1, <2>1, <2>2 DEF Excusing
<1>15. VersionInv'
  <2>1. VersionInv /\ v <= version[p] /\ v \notin lost[p]
    BY <1>4, <1>5 DEF IInv, VersionInv
  <2>2. \A i \in Ids \ {id} : Accepted(i) /\ PathAsked(i) = p => MadeBy(i) # v
    BY <1>4, <1>5, <2>1 DEF VersionInv
  <2>3. \A i \in Ids : Accepted(i)' =>
          /\ MadeBy(i)' \notin lost'[PathAsked(i)'] \union confirmed'[PathAsked(i)']
          /\ MadeBy(i)' <= version'[PathAsked(i)']
    <3> SUFFICES ASSUME NEW i \in Ids \ {id}, Accepted(i)
                 PROVE  /\ MadeBy(i) \notin lost[PathAsked(i)] \union confirmed'[PathAsked(i)]
                        /\ MadeBy(i) <= version[PathAsked(i)]
      BY <1>1, <1>11, <1>13
    <3>1. PathAsked(i) \in Paths
      BY CallAssumption DEF IInv, TypeInv, Accepted, PathAsked, Paths
    <3> QED BY <1>9, <2>1, <2>2, <3>1 DEF VersionInv
  <2>4. \A i, j \in Ids :
          Accepted(i)' /\ Accepted(j)' /\ PathAsked(i)' = PathAsked(j)' /\ MadeBy(i)' = MadeBy(j)'
            => i = j
    BY <1>13, <2>1 DEF VersionInv
  <2>5. \A q \in Paths : /\ lost'[q] \intersect confirmed'[q] = {}
                         /\ \A w \in lost'[q] \union confirmed'[q] : w <= version'[q]
    BY <1>1, <1>9, <2>1 DEF VersionInv
  <2> QED BY <2>3, <2>4, <2>5 DEF VersionInv
<1>16. RequestInv(id)'
  <2>1. useCache'[id] => Shareable(id)'
    BY <1>1, <1>3, <1>4 DEF RequestInv, Shareable, Steady
  <2> QED BY <1>3, <2>1 DEF RequestInv, Fetching
<1>17. ReadInv(id)'
  <2>1. expected[id] \subseteq confirmed[p] /\ \A w \in expected[id] : w <= v
    BY <1>1, <1>4, <1>5 DEF ReadInv
  <2> QED BY <1>1, <1>3, <1>4, <1>5, <1>9, <2>1 DEF ReadInv, Fetching, Answered, MadeBy
<1> QED BY <1>3, <1>6, <1>10, <1>12, <1>14, <1>15, <1>16, <1>17, StepKeeps

(* Store turns the response down: at most a copy goes. *)
LEMMA RejectKeeps ==
  ASSUME IInv, NextHistory, NEW id \in Ids, StoreCopy(id),
         cache' = cache \/ \E ks : cache' = Cache!Without(cache, ks)
  PROVE  IInv'
<1>1. /\ phase[id] = "fetched" /\ phase' = [phase EXCEPT ![id] = "done"]
      /\ UNCHANGED <<settings, version, call, useCache, answer>>
  BY DEF StoreCopy, Goto, Cache!Store, Cache!StoreEntry, Cache!StoreReject
<1>2. Moves(id, "done")
  BY <1>1 DEF Moves, Phases, IInv, TypeInv
<1>3. Steady /\ expected' = expected /\ phase'[id] = "done"
  BY <1>2, MoveShape
<1>4. ~Accepted(id) /\ ~Accepted(id)'
  BY <1>1, <1>3 DEF Accepted
<1>5. Kept
  BY SameKeeps, WithoutKeeps
<1>6. RequestInv(id) /\ ReadInv(id) /\ answer[id].body.fetch = id
  BY <1>1 DEF IInv, RequestInv
<1>7. confirmed' = confirmed /\ PathAsked(id)' = PathAsked(id) => RequestInv(id)' /\ ReadInv(id)'
  <2>1. useCache'[id] => Shareable(id)'
    BY <1>1, <1>3, <1>6 DEF RequestInv, Shareable, Steady
  <2> QED BY <1>1, <1>3, <1>6, <2>1 DEF RequestInv, ReadInv, Fetching, Answered, MadeBy
<1> QED BY <1>1, <1>2, <1>4, <1>5, <1>7, CalmMoveKeeps

(* What the cache holds after it has taken a response *)
LEMMA TakenEntries ==
  ASSUME IInv, NEW k, NEW rule, NEW resp, cache' \in Cache!AfterStore(k, rule, resp)
  PROVE  /\ DOMAIN cache'.entries \subseteq DOMAIN cache.entries \union {k}
         /\ \A j \in DOMAIN cache'.entries \ {k} : cache'.entries[j] = cache.entries[j]
         /\ k \in DOMAIN cache'.entries =>
              cache'.entries[k] = EntryOf(resp, cache'.entries[k])
<1> DEFINE e == Cache!NewEntry(rule, k, resp, now)
           pushed == Cache!PushFront(Cache!Without(cache, {k}), k, e)
<1>1. PICK ks : cache' = Cache!Without(pushed, ks)
  BY DEF Cache!AfterStore, Cache!AfterEviction
<1>2. /\ DOMAIN pushed.entries = (DOMAIN cache.entries \ {k}) \union {k}
      /\ pushed.entries[k] = e
      /\ \A j \in DOMAIN pushed.entries \ {k} : pushed.entries[j] = cache.entries[j]
  BY DEF Cache!PushFront, Cache!Without, Cache!Held
<1>3. e = EntryOf(resp, e)
  BY DEF Cache!NewEntry, EntryOf
<1> HIDE DEF pushed, e
<1>4. /\ DOMAIN cache'.entries \subseteq DOMAIN pushed.entries
      /\ \A j \in DOMAIN cache'.entries : cache'.entries[j] = pushed.entries[j]
  BY <1>1 DEF Cache!Without, Cache!Held
<1> QED BY <1>2, <1>3, <1>4

(* A copy is put into the cache with its excuses. *)
LEMMA StoreKeeps ==
  ASSUME IInv, NextHistory, NEW id \in Ids, StoreCopy(id)
  PROVE  IInv'
<1> DEFINE k == call[id].key
<1>1. /\ phase[id] = "fetched" /\ phase' = [phase EXCEPT ![id] = "done"]
      /\ UNCHANGED <<settings, version, call, useCache, answer>>
  BY DEF StoreCopy, Goto, Cache!Store, Cache!StoreEntry, Cache!StoreReject
<1>2. CASE Cache!StoreReject(k, answer[id])
  BY <1>2, RejectKeeps DEF Cache!StoreReject
<1>3. CASE \E rule : cache' \in Cache!AfterStore(k, rule, answer[id])
  <2>1. /\ DOMAIN cache'.entries \subseteq DOMAIN cache.entries \union {k}
        /\ \A j \in DOMAIN cache'.entries \ {k} : cache'.entries[j] = cache.entries[j]
        /\ k \in DOMAIN cache'.entries =>
             cache'.entries[k] = EntryOf(answer[id], cache'.entries[k])
    BY <1>3, TakenEntries
  <2>2. Moves(id, "done")
    BY <1>1 DEF Moves, Phases, IInv, TypeInv
  <2>3. /\ Steady /\ expected' = expected /\ phase'[id] = "done"
        /\ \A i \in Ids \ {id} : Rests(i)
        /\ PathAsked(id)' = PathAsked(id) /\ PathAsked(id) \in Paths
    BY <2>2, MoveShape
  <2>4. \A i \in Ids : /\ ~(phase[i] = "mutated" /\ phase'[i] = "done")
                       /\ ~(Accepted(i) /\ answer'[i] = NoAnswer)
    BY <1>1, <2>3 DEF Rests, Accepted, NoAnswer
  <2>5. confirmed' = confirmed /\ lost' = lost /\ overtaken' = overtaken
    BY <2>4, HistoryRests
  <2>6. Calm
    BY <1>1, <2>3, <2>5 DEF Calm, Accepted, Rests
  <2>7. Grows /\ Excusing /\ VersionInv'
    BY <2>6, CalmSteps
  <2>8. /\ RequestInv(id) /\ ReadInv(id) /\ answer[id] \in Replies /\ answer[id].body.fetch = id
        /\ Shareable(id) /\ Fetching(id) /\ Excused(answer[id].body, PathAsked(id))
    BY <1>1 DEF IInv, RequestInv, Fetching
  <2>9. Shareable(id)'
    BY <2>3, <2>8 DEF Shareable, Steady
  <2>10. RequestInv(id)' /\ ReadInv(id)'
    BY <1>1, <2>3, <2>5, <2>8, <2>9 DEF RequestInv, ReadInv, Fetching, Answered, MadeBy
  <2>11. ASSUME NEW j \in DOMAIN cache'.entries
         PROVE  CopyInv(j)'
    <3>1. CASE j # k
      <4>1. j \in DOMAIN cache.entries /\ cache'.entries[j] = cache.entries[j]
        BY <2>1, <3>1
      <4>2. cache.entries[j] = EntryOf(Response(j), cache.entries[j])
        BY <4>1 DEF IInv, CopyInv
      <4> QED BY <2>3, <2>7, <4>1, <4>2, CopiesKeep
    <3>2. CASE j = k
      <4>1. PICK copy, p : copy = answer[id].body /\ p = PathAsked(id)
        OBVIOUS
      <4>2. PathOf[j] = p /\ p \in Paths
        BY <2>3, <3>2, <4>1 DEF PathAsked
      <4>3. Excused(copy, p)'
        <5>1. copy.fetch = id /\ copy.version \in Nat
          BY <2>8, <4>1, ReplyFields
        <5>2. version \in [Paths -> Versions]
          BY DEF IInv, TypeInv
        <5> QED BY <2>7, <2>8, <4>1, <4>2, <5>1, <5>2, ExcusedStays
      <4>4. Response(j)' = answer[id]
        BY <2>1, <3>2 DEF Response, EntryOf
      <4>5. Response(j)' \in Replies
        BY <2>8, <4>4
      <4>6. cache'.entries[j] = EntryOf(Response(j)', cache'.entries[j])
        BY <2>1, <3>2, <4>4
      <4> QED BY <2>3, <2>8, <2>9, <4>1, <4>2, <4>3, <4>4, <4>5, <4>6 DEF CopyInv
    <3> QED BY <3>1, <3>2
  <2>12. TypeInv'
    <3>1. k \in Keys
      BY <1>1, CallAssumption DEF IInv, TypeInv
    <3>2. phase' \in [Ids -> Phases] /\ \A i \in Ids : phase[i] = "idle" <=> phase'[i] = "idle"
      BY <2>2 DEF Moves, IInv, TypeInv
    <3> QED BY <1>1, <2>1, <2>3, <2>5, <3>1, <3>2 DEF IInv, TypeInv
  <2>13. \A i \in Ids : RequestInv(i)' /\ ReadInv(i)'
    BY <2>3, <2>7, <2>10, OthersKeep
  <2> QED BY <2>7, <2>11, <2>12, <2>13 DEF IInv
<1> QED BY <1>2, <1>3 DEF StoreCopy, Cache!Store, Cache!StoreEntry

-------------------------------------------------------------------------------
(* The invariant, and the properties it implies *)

LEMMA InvInit == FreshInit => IInv
<1> SUFFICES ASSUME FreshInit
             PROVE  IInv
  OBVIOUS
<1>1. /\ settings \in {Cache!Normalised(s) : s \in SettingsChoices}
      /\ cache.entries = << >>
      /\ version = [p \in Paths |-> 0] /\ phase = [id \in Ids |-> "idle"]
      /\ call = [id \in Ids |-> NoCall] /\ useCache = [id \in Ids |-> FALSE]
      /\ answer = [id \in Ids |-> NoAnswer]
      /\ confirmed = [p \in Paths |-> {}] /\ lost = [p \in Paths |-> {}]
      /\ expected = [id \in Ids |-> {}] /\ overtaken = [id \in Ids |-> {}]
  BY DEF FreshInit, Init, InitHistory, Cache!Init, Cache!EmptyCache
<1>2. DOMAIN cache.entries = {}
  BY <1>1, SMT
<1>3. TypeInv
  BY <1>1, <1>2, VersionAssumption DEF TypeInv, Phases, Versions
<1>4. VersionInv
  BY <1>1 DEF VersionInv, Accepted
<1>5. \A id \in Ids : RequestInv(id) /\ ReadInv(id)
  BY <1>1 DEF RequestInv, ReadInv, Fetching, Answered
<1> QED BY <1>2, <1>3, <1>4, <1>5 DEF IInv

LEMMA InvStep == IInv /\ [FreshNext]_<<vars, history>> => IInv'
<1> SUFFICES ASSUME IInv, [FreshNext]_<<vars, history>>
             PROVE  IInv'
  OBVIOUS
<1>1. CASE FreshNext
  <2>1. ASSUME NEW id \in Ids, Step(id)
        PROVE  IInv'
    BY <1>1, <2>1, BeginKeeps, HitKeeps, MissKeeps, ReadsKeeps, MutatesKeeps, FailKeeps,
       BodyKeeps, InvalidateKeeps, StoreKeeps DEF FreshNext, Step
  <2>2. ASSUME NEW s \in SettingsChoices, Reload(s)
        PROVE  IInv'
    <3>1. Kept
      BY <2>2, EvictionKeeps DEF Reload, Cache!UpdateSettings
    <3> QED BY <1>1, <2>2, <3>1, QuietKeeps DEF FreshNext, Reload, Cache!UpdateSettings
  <2>3. CASE ClearCache
    <3>1. cache'.entries = << >>
      BY <2>3 DEF ClearCache, Cache!InvalidateAll, Cache!EmptyCache
    <3>2. DOMAIN cache'.entries = {}
      BY <3>1, SMT
    <3> QED BY <1>1, <2>3, <3>2, QuietKeeps
        DEF FreshNext, ClearCache, Cache!InvalidateAll, Kept, IInv, TypeInv
  <2>4. CASE CheckUpstream \/ ClockTick
    BY <1>1, <2>4, QuietKeeps, SameKeeps
    DEF FreshNext, CheckUpstream, ClockTick, Cache!Tick, cacheVars, IInv, TypeInv
  <2> QED BY <1>1, <2>1, <2>2, <2>3, <2>4 DEF FreshNext, Next
<1>2. CASE UNCHANGED <<vars, history>>
  <2>1. UNCHANGED <<settings, cache, version, phase, call, useCache, answer,
                    confirmed, expected, lost, overtaken>>
    BY <1>2 DEF vars, history, cacheVars
  <2>2. Calm /\ Steady /\ \A id \in Ids : Rests(id)
    BY <2>1 DEF Calm, Steady, Rests, Accepted
  <2>3. TypeInv'
    BY <2>1 DEF IInv, TypeInv
  <2> QED BY <2>1, <2>2, <2>3, CalmSteps, SameKeeps, StepKeeps
<1> QED BY <1>1, <1>2

(* The inductive invariant that the theorems rest on *)
THEOREM InvCorrect == FreshSpec => []IInv
  BY InvInit, InvStep, PTL DEF FreshSpec

(* Every version a copy in the cache misses is pending, lost, or overtook it while it was
   fetched: for any number of concurrent requests to Forward. *)
THEOREM StaleCorrect == FreshSpec => []StaleExplained
<1>1. IInv => StaleExplained
  BY DEF IInv, CopyInv, StaleExplained, Response
<1> QED BY <1>1, InvCorrect, PTL

(* No request misses a mutation confirmed before it began, but by a copy which that
   mutation overtook while another request fetched it. *)
THEOREM ReadsCorrect == FreshSpec => []ReadsExplained
<1>1. IInv => ReadsExplained
  <2> SUFFICES ASSUME IInv, NEW id \in Ids, Answered(id), NEW v \in expected[id],
                      v > answer[id].body.version
               PROVE  /\ v \in overtaken[answer[id].body.fetch]
                      /\ answer[id].body.fetch # id
    BY DEF ReadsExplained
  <2>1. v \in Nat /\ answer[id].body.version \in Nat
    BY ReplyFields DEF IInv, TypeInv, Answered
  <2> QED BY <2>1 DEF IInv, ReadInv
<1> QED BY <1>1, InvCorrect, PTL

(* What a request fetched with a header that all rules call sensitive goes to nobody
   else, whatever is reloaded between its arrival and its Store. *)
THEOREM PrivateCorrect == FreshSpec => []PrivateStaysPrivate
<1>1. IInv => PrivateStaysPrivate
  BY DEF IInv, ReadInv, Shareable, PrivateStaysPrivate
<1> QED BY <1>1, InvCorrect, PTL

-------------------------------------------------------------------------------
(* Requests use the cache by its methods alone, and look something up once at most. *)
Looked == {id \in Ids : phase[id] \notin {"idle", "lookup"}}

LookupsInv == hits \in Nat /\ misses \in Nat /\ hits + misses <= Cardinality(Looked)

LEMMA LookedFinite == IsFiniteSet(Looked) /\ Cardinality(Looked) \in Nat /\ Cardinality(Ids) \in Nat
<1>1. IsFiniteSet(Looked)
  BY IdAssumption, FS_Subset DEF Looked
<1> QED BY <1>1, IdAssumption, FS_CardinalityType

LEMMA NoLookup ==
  ASSUME LookupsInv, hits' = hits, misses' = misses, Looked \subseteq Looked'
  PROVE  LookupsInv'
<1>1. IsFiniteSet(Looked') /\ Cardinality(Looked') \in Nat
  <2>1. Looked' \in SUBSET Ids
    BY DEF Looked
  <2> QED BY <2>1, IdAssumption, FS_Subset, FS_CardinalityType
<1>2. Cardinality(Looked) <= Cardinality(Looked')
  BY <1>1, FS_Subset
<1> QED BY <1>1, <1>2, LookedFinite DEF LookupsInv

LEMMA OneLookup ==
  ASSUME LookupsInv, NEW id \in Ids, phase[id] = "lookup", Goto(id, "done") \/ Goto(id, "sent"),
         phase \in [Ids -> Phases],
         (hits' = hits + 1 /\ misses' = misses) \/ (hits' = hits /\ misses' = misses + 1)
  PROVE  LookupsInv' /\ hits + misses < Cardinality(Ids)
<1>1. Looked' = Looked \union {id} /\ id \notin Looked
  BY DEF Looked, Goto
<1>2. Cardinality(Looked') = Cardinality(Looked) + 1
  BY <1>1, LookedFinite, FS_AddElement
<1>3. Looked' \in SUBSET Ids
  BY DEF Looked
<1>4. Cardinality(Looked') <= Cardinality(Ids)
  BY <1>3, IdAssumption, FS_Subset
<1> QED BY <1>2, <1>4, LookedFinite DEF LookupsInv

LEMMA StaysLooked ==
  ASSUME phase \in [Ids -> Phases], NEW id \in Ids, NEW p,
         phase' = [phase EXCEPT ![id] = p], p \in {"idle", "lookup"} => phase[id] = "idle"
  PROVE  Looked \subseteq Looked'
  BY DEF Looked

LEMMA UseStep ==
  IInv /\ LookupsInv /\ [FreshNext]_<<vars, history>> => LookupsInv' /\ [Cache!Next]_cacheVars
<1> SUFFICES ASSUME IInv, LookupsInv, [FreshNext]_<<vars, history>>
             PROVE  LookupsInv' /\ [Cache!Next]_cacheVars
  OBVIOUS
<1>0. phase \in [Ids -> Phases]
  BY DEF IInv, TypeInv
<1>1. ASSUME NEW id \in Ids, NEW c \in Calls, Begin(id, c) \/ JoinFails(id, c)
      PROVE  LookupsInv' /\ UNCHANGED cacheVars
  <2>1. PICK p \in {"lookup", "sent", "done"} : phase' = [phase EXCEPT ![id] = p]
    BY <1>1 DEF Begin, JoinFails, Goto
  <2>2. UNCHANGED cacheVars /\ phase[id] = "idle"
    BY <1>1 DEF Begin, JoinFails
  <2>3. Looked \subseteq Looked'
    BY <1>0, <2>1, <2>2, StaysLooked
  <2> QED BY <2>2, <2>3, NoLookup DEF cacheVars
<1>2. ASSUME NEW id \in Ids, LookupHit(id) \/ LookupMiss(id)
      PROVE  LookupsInv' /\ Cache!Next
  <2>1. /\ phase[id] = "lookup" /\ (Goto(id, "done") \/ Goto(id, "sent"))
        /\ Cache!Get(call[id].key)
    BY <1>2 DEF LookupHit, LookupMiss, Cache!Get
  <2>2. \/ hits' = hits + 1 /\ misses' = misses
        \/ hits' = hits /\ misses' = misses + 1
    BY <1>2 DEF LookupHit, LookupMiss, Cache!GetHit, Cache!GetMiss
  <2>3. LookupsInv' /\ hits + misses < Cardinality(Ids)
    BY <1>0, <2>1, <2>2, OneLookup
  <2>4. call[id].key \in Keys
    BY <2>1, CallAssumption DEF IInv, TypeInv
  <2> QED BY <2>1, <2>3, <2>4 DEF Cache!Next
<1>3. ASSUME NEW id \in Ids, NEW p \in {"answered", "done", "mutated", "fetched"}, Goto(id, p)
      PROVE  Looked \subseteq Looked'
  BY <1>0, <1>3, StaysLooked DEF Goto
<1>4. ASSUME NEW id \in Ids,
             \/ UpstreamReads(id) \/ UpstreamMutates(id) \/ UpstreamRefuses(id)
             \/ RequestFails(id) \/ DoFails(id) \/ ReadFails(id) \/ ReadBody(id)
      PROVE  LookupsInv' /\ UNCHANGED cacheVars
  <2>1. /\ \E p \in {"answered", "done", "mutated", "fetched"} : Goto(id, p)
        /\ UNCHANGED cacheVars
    BY <1>4
    DEF UpstreamReads, UpstreamMutates, UpstreamRefuses, RequestFails, DoFails, ReadFails, ReadBody
  <2> QED BY <1>3, <2>1, NoLookup DEF cacheVars
<1>5. ASSUME NEW id \in Ids, InvalidateCopies(id)
      PROVE  LookupsInv' /\ Cache!Next
  <2>1. Goto(id, "done") /\ Cache!InvalidateForMutation(PathOf[call[id].key])
        /\ call[id].key \in Keys
    BY <1>5, CallAssumption DEF InvalidateCopies, PathAsked, IInv, TypeInv
  <2>2. hits' = hits /\ misses' = misses
    BY <2>1 DEF Cache!InvalidateForMutation
  <2> QED BY <1>3, <2>1, <2>2, NoLookup DEF Cache!Next
<1>6. ASSUME NEW id \in Ids, StoreCopy(id)
      PROVE  LookupsInv' /\ Cache!Next
  <2>1. Goto(id, "done") /\ Cache!Store(call[id].key, answer[id])
        /\ call[id].key \in Keys /\ answer[id] \in Replies
    BY <1>6, CallAssumption DEF StoreCopy, IInv, TypeInv, RequestInv
  <2>2. hits' = hits /\ misses' = misses
    BY <2>1 DEF Cache!Store, Cache!StoreEntry, Cache!StoreReject
  <2> QED BY <1>3, <2>1, <2>2, NoLookup DEF Cache!Next
<1>7. ASSUME NEW s \in SettingsChoices, Reload(s)
      PROVE  LookupsInv' /\ Cache!Next
  <2>1. Cache!UpdateSettings(s) /\ phase' = phase /\ hits' = hits /\ misses' = misses
    BY <1>7 DEF Reload, Cache!UpdateSettings
  <2> QED BY <2>1, NoLookup DEF Cache!Next, Looked
<1>8. ASSUME ClearCache \/ ClockTick
      PROVE  LookupsInv' /\ Cache!Next
  <2>1. (Cache!InvalidateAll \/ Cache!Tick) /\ phase' = phase /\ hits' = hits /\ misses' = misses
    BY <1>8 DEF ClearCache, ClockTick, Cache!InvalidateAll, Cache!Tick
  <2> QED BY <2>1, NoLookup DEF Cache!Next, Looked
<1>9. ASSUME CheckUpstream \/ UNCHANGED <<vars, history>>
      PROVE  LookupsInv' /\ UNCHANGED cacheVars
  <2>1. UNCHANGED cacheVars /\ phase' = phase
    BY <1>9 DEF CheckUpstream, vars
  <2> QED BY <2>1, NoLookup DEF cacheVars, Looked
<1> QED BY <1>1, <1>2, <1>4, <1>5, <1>6, <1>7, <1>8, <1>9 DEF FreshNext, Next, Step

(* Forwarding uses the cache as CacheService says it may be used: each of its behaviours
   is, as far as the cache is concerned, one of CacheService, with no lookup that Forward
   has not asked for and at most one of each request. *)
THEOREM ForwardUsesCache == FreshSpec => Cache!Spec
<1>1. FreshInit => Cache!Init /\ LookupsInv
  <2> SUFFICES ASSUME FreshInit PROVE Cache!Init /\ LookupsInv
    OBVIOUS
  <2>1. Cache!Init /\ hits = 0 /\ misses = 0
    BY DEF FreshInit, Init, Cache!Init
  <2> QED BY <2>1, LookedFinite DEF LookupsInv
<1> QED BY <1>1, UseStep, InvCorrect, PTL DEF FreshSpec, Cache!Spec, cacheVars, Cache!vars
===============================================================================
