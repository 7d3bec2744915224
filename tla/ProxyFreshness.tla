---------------------------- MODULE ProxyFreshness ----------------------------
(***************************************************************************)
(* What the requests of ProxyForward may see of the upstream's versions.   *)
(* The history variables record, beside the state of the program, which    *)
(* mutations a request can expect to see and why it may miss one.          *)
(***************************************************************************)
EXTENDS ProxyForward

VARIABLES
  confirmed,  \* path -> the mutations that have returned
  expected,   \* request -> what was confirmed for its path when it began
  lost,       \* path -> accepted mutations whose answer was lost
  overtaken   \* request -> mutations whose invalidation ran between the
              \* upstream's answer to the request and its Store

history == <<confirmed, expected, lost, overtaken>>

MadeBy(id) == answer[id].body.version

(* Requests whose accepted mutation has not returned yet *)
Accepted(id) ==
  phase[id] \in {"answered", "mutated"} /\ ~IsRead(call[id]) /\ answer[id].class = "2xx"

(* Requests that hold an answer they may store *)
Fetching(id) == phase[id] \in {"answered", "fetched"}

InitHistory ==
  /\ confirmed = [p \in Paths |-> {}]
  /\ expected = [id \in Ids |-> {}]
  /\ lost = [p \in Paths |-> {}]
  /\ overtaken = [id \in Ids |-> {}]

NextHistory ==
  LET begun == {id \in Ids : phase[id] = "idle" /\ phase'[id] # "idle"}
      returned == {id \in Ids : phase[id] = "mutated" /\ phase'[id] = "done"}
      failed == {id \in Ids : Accepted(id) /\ answer'[id] = NoAnswer}
      Made(ids, p) == {MadeBy(id) : id \in {i \in ids : PathAsked(i) = p}}
  IN /\ expected' = [id \in Ids |-> IF id \in begun THEN confirmed[PathOf[call'[id].key]]
                                    ELSE expected[id]]
     /\ confirmed' = [p \in Paths |-> confirmed[p] \union Made(returned, p)]
     /\ lost' = [p \in Paths |-> lost[p] \union Made(failed, p)]
     /\ overtaken' = [id \in Ids |-> IF Fetching(id)
                                     THEN overtaken[id] \union Made(returned, PathAsked(id))
                                     ELSE overtaken[id]]

FreshInit == Init /\ InitHistory
FreshNext == Next /\ NextHistory
FreshSpec == FreshInit /\ [][FreshNext]_<<vars, history>>

-------------------------------------------------------------------------------
(* The versions of p that a copy of version v misses *)
Missed(v, p) == (v + 1)..version[p]

(* A mutation of p has been accepted as version v and has yet to return. *)
Pending(p, v) == \E id \in Ids : Accepted(id) /\ PathAsked(id) = p /\ MadeBy(id) = v

Excused(copy, p) ==
  \A v \in Missed(copy.version, p) :
    v \in lost[p] \union overtaken[copy.fetch] \/ Pending(p, v)

(* Every version a cached copy misses has one of three excuses: its mutation has
   yet to reach its invalidation, its answer was lost on the way back, or its
   invalidation ran while the copy was being fetched.  Nothing else, not a
   reload, an eviction, an administrator or a second mutation, leaves an
   outdated copy in the cache. *)
StaleExplained ==
  \A k \in DOMAIN cache.entries : Excused(cache.entries[k].response.body, PathOf[k])

Answered(id) == phase[id] = "done" /\ answer[id] # NoAnswer

(* A request that misses a mutation confirmed before it began was served another
   request's copy, which that mutation's invalidation overtook: a mutation whose
   client has its answer is never missed for any other reason, and the upstream
   itself never shows an older version. *)
ReadsExplained ==
  \A id \in Ids :
    Answered(id) /\ IsRead(call[id]) =>
      LET copy == answer[id].body
      IN \A v \in expected[id] :
           v > copy.version => v \in overtaken[copy.fetch] /\ copy.fetch # id

(* Headers that every rule of every configuration calls sensitive *)
AlwaysSensitive(h) ==
  \A s \in SettingsChoices :
    /\ h \in s.defaultRule.sensitive
    /\ \A i \in DOMAIN s.rules : h \in s.rules[i].sensitive

(* What one request fetched with such a header, credentials for one, is never handed
   to another, however configurations change while it is under way. *)
PrivateStaysPrivate ==
  \A id \in Ids :
    Answered(id) /\ answer[id].body.fetch # id =>
      \A h \in call[answer[id].body.fetch].headers : ~AlwaysSensitive(h)
===============================================================================
