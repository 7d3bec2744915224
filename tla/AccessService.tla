----------------------------- MODULE AccessService -----------------------------
(***************************************************************************)
(* AccessService (internal/repository/access_repo.go): the settings are    *)
(* replaced as a whole through an atomic pointer and read without a lock,  *)
(* decisions are kept in an expiring LRU cache.  ApplyConfig replaces the  *)
(* cache and then the settings, in two steps; Check reads the settings     *)
(* once and the cache twice.  Every broadcast of a configuration applies   *)
(* it in a goroutine of its own, so that several ApplyConfigs may be under *)
(* way.                                                                    *)
(*                                                                         *)
(* The cache is external (hashicorp/golang-lru/v2/expirable): an entry     *)
(* expires after the TTL, and may go earlier to make room.  A call on a    *)
(* cache that has been replaced since its pointer was read is, for the     *)
(* cache in use, a call made before it was replaced.                       *)
(***************************************************************************)
EXTENDS AccessRules

CONSTANTS
  Checkers,         \* goroutines that call Check
  Appliers,         \* goroutines that call ApplyConfig
  Unparsable,       \* an address netip.ParseAddr turns down
  Captchas,         \* values of the captcha header, "" for none
  SettingsChoices,  \* settings the configuration may hold
  CacheTTL, MaxNow  \* of the decisions, and the bound on the clock

ASSUME CacheAssumption == CacheTTL \in Nat /\ Unparsable \notin Addrs

VARIABLES
  state,    \* the settings in force
  cache,    \* address -> [decision, expires]
  applier,  \* applier -> [phase, settings]
  check,    \* checker -> [phase, addr, captcha, view, answer]
  now

vars == <<state, cache, applier, check, now>>

NoSettings == [rules |-> << >>, defaultPolicy |-> "none", captchaToken |-> ""]
NoAnswer == [allowed |-> FALSE, reason |-> "none", rule |-> 0]

(* NewAccessService *)
NewSettings == [rules |-> << >>, defaultPolicy |-> "allow", captchaToken |-> ""]

Normalised(s) ==
  [rules |-> s.rules, captchaToken |-> s.captchaToken,
   defaultPolicy |-> IF s.defaultPolicy = "" THEN "allow" ELSE s.defaultPolicy]

-------------------------------------------------------------------------------
(* main has applied the first configuration, if it could be. *)
Init ==
  /\ state \in {IF Accepted(s) THEN Normalised(s) ELSE NewSettings : s \in SettingsChoices}
  /\ cache = << >>
  /\ applier = [g \in Appliers |-> [phase |-> "idle", settings |-> NoSettings]]
  /\ check = [c \in Checkers |->
                [phase |-> "idle", addr |-> Unparsable, captcha |-> "",
                 view |-> NoSettings, answer |-> NoAnswer]]
  /\ now = 0

Tick ==
  /\ now < MaxNow
  /\ now' = now + 1
  /\ UNCHANGED <<state, cache, applier, check>>

(* ApplyConfig builds the next state; one rule it cannot accept and it returns
   with nothing changed. *)
BuildState(g, s) ==
  /\ applier[g].phase = "idle"
  /\ Accepted(s)
  /\ applier' = [applier EXCEPT ![g] = [phase |-> "built", settings |-> Normalised(s)]]
  /\ UNCHANGED <<state, cache, check, now>>

\* Faulty variant of SwapCache: the decisions taken so far are kept.
KeepCache(g) ==
  /\ applier[g].phase = "built"
  /\ applier' = [applier EXCEPT ![g].phase = "swapped"]
  /\ UNCHANGED <<state, cache, check, now>>

SwapCache(g) ==
  /\ applier[g].phase = "built"
  /\ cache' = << >>
  /\ applier' = [applier EXCEPT ![g].phase = "swapped"]
  /\ UNCHANGED <<state, check, now>>

StoreState(g) ==
  /\ applier[g].phase = "swapped"
  /\ state' = applier[g].settings
  /\ applier' = [applier EXCEPT ![g] = [phase |-> "idle", settings |-> NoSettings]]
  /\ UNCHANGED <<cache, check, now>>

(* Check loads the settings. *)
LoadState(c, a, captcha) ==
  /\ check[c].phase \in {"idle", "done"}
  /\ a # Unparsable
  /\ check' = [check EXCEPT ![c] = [phase |-> "loaded", addr |-> a, captcha |-> captcha,
                                    view |-> state, answer |-> NoAnswer]]
  /\ UNCHANGED <<state, cache, applier, now>>

RefuseAddress(c) ==
  /\ check[c].phase \in {"idle", "done"}
  /\ check' = [check EXCEPT ![c] =
                 [phase |-> "done", addr |-> Unparsable, captcha |-> "", view |-> NoSettings,
                  answer |-> [allowed |-> FALSE, reason |-> "invalid_ip", rule |-> 0]]]
  /\ UNCHANGED <<state, cache, applier, now>>

IsHit(a) == a \in DOMAIN cache /\ now <= cache[a].expires

Answered(c, answer) ==
  check' = [check EXCEPT ![c].phase = "done", ![c].view = NoSettings, ![c].answer = answer]

LookupHit(c) ==
  /\ check[c].phase = "loaded"
  /\ IsHit(check[c].addr)
  /\ Answered(c, cache[check[c].addr].decision)
  /\ UNCHANGED <<state, cache, applier, now>>

LookupMiss(c) ==
  /\ check[c].phase = "loaded"
  /\ ~IsHit(check[c].addr)
  /\ check' = [check EXCEPT ![c].phase = "missed"]
  /\ UNCHANGED <<state, cache, applier, now>>

(* The rules loaded before are evaluated, and the decision goes to the cache that
   is in use now. *)
Evaluate(c) ==
  /\ check[c].phase = "missed"
  /\ \E d \in Decide(check[c].view, check[c].addr, check[c].captcha) :
       /\ Answered(c, d)
       /\ cache' = IF Cacheable(d)
                   THEN [a \in DOMAIN cache \union {check[c].addr} |->
                           IF a = check[c].addr
                           THEN [decision |-> d, expires |-> now + CacheTTL] ELSE cache[a]]
                   ELSE cache
  /\ UNCHANGED <<state, applier, now>>

(* The cache makes room, or its clean-up meets an entry that has expired. *)
Evict(a) ==
  /\ a \in DOMAIN cache
  /\ cache' = [b \in DOMAIN cache \ {a} |-> cache[b]]
  /\ UNCHANGED <<state, applier, check, now>>

Next ==
  \/ Tick
  \/ \E g \in Appliers, s \in SettingsChoices : BuildState(g, s)
  \/ \E g \in Appliers : SwapCache(g)
  \/ \E g \in Appliers : StoreState(g)
  \/ \E c \in Checkers, a \in Addrs, captcha \in Captchas : LoadState(c, a, captcha)
  \/ \E c \in Checkers : RefuseAddress(c)
  \/ \E c \in Checkers : LookupHit(c)
  \/ \E c \in Checkers : LookupMiss(c)
  \/ \E c \in Checkers : Evaluate(c)
  \/ \E a \in Addrs : Evict(a)

Spec == Init /\ [][Next]_vars
===============================================================================
