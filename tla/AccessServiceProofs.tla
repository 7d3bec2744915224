-------------------------- MODULE AccessServiceProofs --------------------------
(***************************************************************************)
(* Proofs about the access service, in two parts.                          *)
(*                                                                         *)
(* Of AccessService and the history AccessCurrency keeps of it: while      *)
(* settings are being replaced, every cached decision is marked late,      *)
(* since the cache was emptied when that began; and a check's view is      *)
(* among the settings in force since it loaded them.                       *)
(*                                                                         *)
(* Of the matching in AccessMatching: the search looks only at the last    *)
(* range that starts at or before the address, which is the one that       *)
(* covers it if no two overlap, and among the prefixes at the networks of  *)
(* the address, longest first, which are all the prefixes that cover it.   *)
(***************************************************************************)
EXTENDS AccessCurrency, AccessMatching, FiniteSums, TLAPS

LEMMA DecisionFields ==
  ASSUME NEW allowed, NEW reason, NEW found, NEW d \in Decision(allowed, reason, found)
  PROVE  d.reason = reason
  BY DEF Decision

(* What may be cached does not depend on the captcha, and what verifies one has
   been shown the token. *)
LEMMA Decisions ==
  ASSUME NEW s, NEW a, NEW captcha, NEW d \in Decide(s, a, captcha)
  PROVE  /\ \A other : Cacheable(d) => d \in Decide(s, a, other)
         /\ d.reason = "captcha_verified" => captcha # "" /\ captcha = s.captchaToken
  <1> DEFINE Match(type) == FindRuleMatch(s, type, a)
             ungrey == \/ Match("deny") # {} \/ Match("allow") # {} \/ Match("grey") = {}
  <1>1. CASE ungrey
    <2>1. \A other : Decide(s, a, other) = Decide(s, a, captcha)
      BY <1>1, Zenon DEF Decide
    <2>2. d.reason \in {"blacklist", "whitelist", "default_deny", "default_allow"}
      BY <1>1, DecisionFields DEF Decide
    <2> QED
      BY <2>1, <2>2
  <1>2. CASE ~ungrey /\ captcha # "" /\ captcha = s.captchaToken
    <2>1. d \in Decision(TRUE, "captcha_verified", Match("grey"))
      BY <1>2, Zenon DEF Decide
    <2> QED
      BY <1>2, <2>1, DecisionFields DEF Cacheable
  <1>3. CASE ~ungrey /\ ~(captcha # "" /\ captcha = s.captchaToken)
    <2>1. d \in Decision(FALSE, "captcha_required", Match("grey"))
      BY <1>3, Zenon DEF Decide
    <2>2. d.reason = "captcha_required"
      BY <2>1, DecisionFields
    <2> QED
      BY <2>2 DEF Cacheable
  <1> QED
    BY <1>1, <1>2, <1>3, Zenon

CheckFields == {"phase", "addr", "captcha", "view", "answer"}

ShapeOK ==
  /\ DOMAIN applier = Appliers
  /\ \A g \in Appliers : DOMAIN applier[g] = {"phase", "settings"}
  /\ DOMAIN check = Checkers
  /\ \A c \in Checkers :
       /\ DOMAIN check[c] = CheckFields
       /\ check[c].phase \in {"idle", "loaded", "missed", "done"}
       /\ check[c].phase \in {"loaded", "missed"} => check[c].addr # Unparsable

CacheInv ==
  /\ \A a \in DOMAIN cache : Cacheable(cache[a].decision)
  /\ CacheAgrees
  /\ BeingReplaced => DOMAIN cache \subseteq late

(* The settings in force and those it looks at are among since; a refused check
   has not verified anything. *)
Viewing(c) ==
  /\ check[c].phase \in {"loaded", "missed"} =>
       /\ {state, check[c].view} \subseteq since[c]
       /\ check[c].answer = NoAnswer
  /\ check[c].addr = Unparsable => check[c].answer.reason # "captcha_verified"

Current(c) ==
  check[c].phase = "done" /\ check[c].addr # Unparsable =>
    \/ excused[c]
    \/ \E s \in since[c] : check[c].answer \in Decide(s, check[c].addr, check[c].captcha)

Personal(c) ==
  check[c].answer.reason = "captcha_verified" =>
    /\ check[c].captcha # ""
    /\ \E s \in since[c] : s.captchaToken = check[c].captcha

CheckInv == \A c \in Checkers : Viewing(c) /\ Current(c) /\ Personal(c)

IInv == ShapeOK /\ CacheInv /\ CheckInv

LEMMA InvInit == HistoryInit => IInv
  <1> SUFFICES ASSUME HistoryInit PROVE IInv
    OBVIOUS
  <1>1. ShapeOK
    BY DEF HistoryInit, Init, ShapeOK, CheckFields
  <1>2. CacheInv
    <2>1. DOMAIN cache = {}
      <3>1. cache = << >>
        BY DEF HistoryInit, Init
      <3> QED
        BY <3>1, SMT
    <2> QED
      BY <2>1 DEF CacheInv, CacheAgrees
  <1>3. CheckInv
    BY DEF HistoryInit, Init, CheckInv, Viewing, Current, Personal, NoAnswer
  <1> QED
    BY <1>1, <1>2, <1>3 DEF IInv

LEMMA ShapeStep == ShapeOK /\ [Next]_vars => ShapeOK'
  <1> SUFFICES ASSUME ShapeOK, [Next]_vars PROVE ShapeOK'
    OBVIOUS
  <1> USE CacheAssumption DEF ShapeOK, CheckFields
  <1>1. CASE UNCHANGED vars
    BY <1>1 DEF vars
  <1>2. CASE Tick
    BY <1>2 DEF Tick
  <1>3. ASSUME NEW g \in Appliers, NEW s \in SettingsChoices, BuildState(g, s) PROVE ShapeOK'
    BY <1>3 DEF BuildState
  <1>4. ASSUME NEW g \in Appliers, SwapCache(g) PROVE ShapeOK'
    BY <1>4 DEF SwapCache
  <1>5. ASSUME NEW g \in Appliers, StoreState(g) PROVE ShapeOK'
    BY <1>5 DEF StoreState
  <1>6. ASSUME NEW c \in Checkers, NEW a \in Addrs, NEW captcha \in Captchas,
               LoadState(c, a, captcha)
        PROVE  ShapeOK'
    BY <1>6 DEF LoadState
  <1>7. ASSUME NEW c \in Checkers, RefuseAddress(c) PROVE ShapeOK'
    BY <1>7 DEF RefuseAddress
  <1>8. ASSUME NEW c \in Checkers, LookupHit(c) PROVE ShapeOK'
    BY <1>8 DEF LookupHit, Answered
  <1>9. ASSUME NEW c \in Checkers, LookupMiss(c) PROVE ShapeOK'
    BY <1>9 DEF LookupMiss
  <1>10. ASSUME NEW c \in Checkers, Evaluate(c) PROVE ShapeOK'
    BY <1>10 DEF Evaluate, Answered
  <1>11. ASSUME NEW a \in Addrs, Evict(a) PROVE ShapeOK'
    BY <1>11 DEF Evict
  <1> QED
    BY <1>1, <1>2, <1>3, <1>4, <1>5, <1>6, <1>7, <1>8, <1>9, <1>10, <1>11 DEF Next

-------------------------------------------------------------------------------
(* The cache after a step that adds no decision *)
LEMMA KeepsCache ==
  ASSUME CacheInv, late' = late \intersect DOMAIN cache', state' = state,
         DOMAIN cache' \subseteq DOMAIN cache,
         \A a \in DOMAIN cache' : cache'[a] = cache[a],
         BeingReplaced' => BeingReplaced
  PROVE  CacheInv'
  BY DEF CacheInv, CacheAgrees

LEMMA NothingAdded ==
  ASSUME NextHistory, \A c \in Checkers : ~Adds(c)
  PROVE  late' = late \intersect DOMAIN cache'
  BY DEF NextHistory

LEMMA CacheStep == IInv /\ [Next /\ NextHistory]_historyVars => CacheInv'
  <1> SUFFICES ASSUME IInv, [Next /\ NextHistory]_historyVars PROVE CacheInv'
    OBVIOUS
  <1>0. ShapeOK /\ CacheInv /\ CheckInv
    BY DEF IInv
  <1> USE DEF Adds, BeingReplaced
  <1>1. CASE UNCHANGED historyVars
    BY <1>0, <1>1 DEF historyVars, vars, CacheInv, CacheAgrees
  <1>2. CASE Tick /\ NextHistory
    BY <1>0, <1>2, NothingAdded, KeepsCache DEF Tick
  <1>3. ASSUME NEW g \in Appliers, NEW s \in SettingsChoices, BuildState(g, s), NextHistory
        PROVE  CacheInv'
    <2>1. BeingReplaced' => BeingReplaced
      BY <1>0, <1>3 DEF BuildState, ShapeOK
    <2> QED
      BY <1>0, <1>3, <2>1, NothingAdded, KeepsCache DEF BuildState
  <1>4. ASSUME NEW g \in Appliers, SwapCache(g), NextHistory PROVE CacheInv'
    <2>1. DOMAIN cache' = {}
      <3>1. cache' = << >>
        BY <1>4 DEF SwapCache
      <3> QED
        BY <3>1, SMT
    <2> QED
      BY <2>1 DEF CacheInv, CacheAgrees
  <1>5. ASSUME NEW g \in Appliers, StoreState(g), NextHistory PROVE CacheInv'
    <2>1. DOMAIN cache \subseteq late /\ cache' = cache
      BY <1>0, <1>5 DEF StoreState, CacheInv
    <2>2. late' = late \intersect DOMAIN cache'
      BY <1>5, NothingAdded DEF StoreState
    <2> QED
      BY <1>0, <2>1, <2>2 DEF CacheInv, CacheAgrees
  <1>6. ASSUME NEW c \in Checkers, NEW a \in Addrs, NEW captcha \in Captchas,
               LoadState(c, a, captcha), NextHistory
        PROVE  CacheInv'
    <2>1. \A k \in Checkers : ~Adds(k)
      BY <1>0, <1>6 DEF LoadState, ShapeOK
    <2> QED
      BY <1>0, <1>6, <2>1, NothingAdded, KeepsCache DEF LoadState
  <1>7. ASSUME NEW c \in Checkers, RefuseAddress(c), NextHistory PROVE CacheInv'
    <2>1. \A k \in Checkers : ~Adds(k)
      BY <1>0, <1>7 DEF RefuseAddress, ShapeOK
    <2> QED
      BY <1>0, <1>7, <2>1, NothingAdded, KeepsCache DEF RefuseAddress
  <1>8. ASSUME NEW c \in Checkers, LookupHit(c), NextHistory PROVE CacheInv'
    <2>1. \A k \in Checkers : ~Adds(k)
      BY <1>0, <1>8 DEF LookupHit, Answered, ShapeOK
    <2> QED
      BY <1>0, <1>8, <2>1, NothingAdded, KeepsCache DEF LookupHit
  <1>9. ASSUME NEW c \in Checkers, LookupMiss(c), NextHistory PROVE CacheInv'
    <2>1. \A k \in Checkers : ~Adds(k)
      BY <1>0, <1>9 DEF LookupMiss, ShapeOK
    <2> QED
      BY <1>0, <1>9, <2>1, NothingAdded, KeepsCache DEF LookupMiss
  <1>10. ASSUME NEW c \in Checkers, Evaluate(c), NextHistory PROVE CacheInv'
    <2> DEFINE a == check[c].addr
    <2>1. PICK d \in Decide(check[c].view, a, check[c].captcha) :
            /\ Answered(c, d)
            /\ cache' = IF Cacheable(d)
                        THEN [b \in DOMAIN cache \union {a} |->
                                IF b = a THEN [decision |-> d, expires |-> now + CacheTTL]
                                ELSE cache[b]]
                        ELSE cache
      BY <1>10 DEF Evaluate
    <2>2. /\ check'[c].phase = "done" /\ check'[c].answer = d /\ check[c].phase = "missed"
          /\ \A k \in Checkers \ {c} : check'[k] = check[k]
          /\ state' = state /\ applier' = applier
      BY <1>0, <1>10, <2>1 DEF Evaluate, Answered, ShapeOK, CheckFields
    <2>3. CASE ~Cacheable(d)
      <3>1. \A k \in Checkers : ~Adds(k)
        BY <2>2, <2>3
      <3> QED
        BY <1>0, <1>10, <2>1, <2>2, <2>3, <3>1, NothingAdded, KeepsCache
    <2>4. CASE Cacheable(d)
      <3>1. \A k \in Checkers : Adds(k) <=> k = c
        BY <2>2, <2>4
      <3>2. /\ \A b \in late \ {a} : b \in DOMAIN cache => b \in late'
            /\ (check[c].view # state \/ BeingReplaced) => a \in late'
        BY <1>10, <2>1, <2>4, <3>1 DEF NextHistory
      <3>3. d \in Decide(check[c].view, a, "")
        BY <2>1, <2>4, Decisions
      <3>4. /\ DOMAIN cache' = DOMAIN cache \union {a} /\ cache'[a].decision = d
            /\ \A b \in DOMAIN cache \ {a} : cache'[b] = cache[b]
        BY <2>1, <2>4
      <3>5. \A b \in DOMAIN cache' : Cacheable(cache'[b].decision)
        BY <1>0, <2>4, <3>4 DEF CacheInv
      <3>6. CacheAgrees'
        BY <1>0, <2>2, <3>2, <3>3, <3>4 DEF CacheInv, CacheAgrees
      <3>7. BeingReplaced' => DOMAIN cache' \subseteq late'
        BY <1>0, <2>2, <3>2, <3>4 DEF CacheInv
      <3> QED
        BY <3>5, <3>6, <3>7 DEF CacheInv
    <2> QED
      BY <2>3, <2>4
  <1>11. ASSUME NEW a \in Addrs, Evict(a), NextHistory PROVE CacheInv'
    BY <1>0, <1>11, NothingAdded, KeepsCache DEF Evict
  <1> QED
    BY <1>1, <1>2, <1>3, <1>4, <1>5, <1>6, <1>7, <1>8, <1>9, <1>10, <1>11 DEF Next

-------------------------------------------------------------------------------
CheckOK(c) == Viewing(c) /\ Current(c) /\ Personal(c)

(* What the history says of a checker after a step *)
LEMMA HistoryOf ==
  ASSUME NextHistory, NEW c \in Checkers
  PROVE  /\ since'[c] = IF Refused(c) THEN {}
                        ELSE IF Begins(c) THEN {state}
                        ELSE IF check[c].phase \in {"loaded", "missed"}
                             THEN since[c] \union {state'}
                        ELSE since[c]
         /\ excused'[c] = IF check'[c].phase = "loaded" \/ Refused(c) THEN FALSE
                          ELSE excused[c] \/ (Hits(c) /\ check[c].addr \in late)
  BY DEF NextHistory

(* A checker that a step leaves alone *)
LEMMA OtherChecker ==
  ASSUME ShapeOK, NextHistory, NEW c \in Checkers, CheckOK(c), check'[c] = check[c]
  PROVE  CheckOK(c)'
  <1> USE HistoryOf DEF Refused, Begins, Hits
  <1>1. CASE check[c].addr = Unparsable
    BY <1>1 DEF CheckOK, Viewing, Current, Personal, ShapeOK
  <1>2. CASE check[c].addr # Unparsable /\ check[c].phase \in {"loaded", "missed"}
    <2>1. since'[c] = since[c] \union {state'}
      BY <1>2
    <2> QED
      BY <1>2, <2>1 DEF CheckOK, Viewing, Current, Personal
  <1>3. CASE check[c].addr # Unparsable /\ check[c].phase \notin {"loaded", "missed"}
    <2>1. since'[c] = since[c] /\ (excused[c] => excused'[c])
      BY <1>3
    <2> QED
      BY <1>3, <2>1 DEF CheckOK, Viewing, Current, Personal
  <1> QED
    BY <1>1, <1>2, <1>3

LEMMA OneChecker ==
  ASSUME IInv, NextHistory, NEW c \in Checkers, CheckOK(c)',
         \A k \in Checkers \ {c} : check'[k] = check[k]
  PROVE  CheckInv'
  BY OtherChecker DEF IInv, CheckInv, CheckOK

LEMMA CheckStep == IInv /\ [Next /\ NextHistory]_historyVars => CheckInv'
  <1> SUFFICES ASSUME IInv, [Next /\ NextHistory]_historyVars PROVE CheckInv'
    OBVIOUS
  <1>0. /\ ShapeOK /\ CacheInv /\ \A c \in Checkers : CheckOK(c)
        /\ DOMAIN check = Checkers
    BY DEF IInv, CheckInv, CheckOK, ShapeOK
  <1>1. CASE UNCHANGED historyVars
    BY <1>0, <1>1 DEF historyVars, vars, CheckInv, CheckOK, Viewing, Current, Personal
  <1>2. CASE NextHistory /\ UNCHANGED check
    BY <1>0, <1>2, OtherChecker DEF CheckInv, CheckOK
  <1>3. ASSUME NEW c \in Checkers, NEW a \in Addrs, NEW captcha \in Captchas,
               LoadState(c, a, captcha), NextHistory
        PROVE  CheckInv'
    <2>1. /\ check'[c] = [phase |-> "loaded", addr |-> a, captcha |-> captcha,
                          view |-> state, answer |-> NoAnswer]
          /\ state' = state /\ \A k \in Checkers \ {c} : check'[k] = check[k]
          /\ check[c].phase # "loaded" /\ a # Unparsable
      BY <1>0, <1>3 DEF LoadState
    <2>2. /\ check'[c].phase = "loaded" /\ check'[c].addr = a /\ check'[c].view = state
          /\ check'[c].answer = NoAnswer /\ check'[c].answer.reason = "none"
      BY <2>1 DEF NoAnswer
    <2>3. since'[c] = {state}
      BY <1>3, <2>1, <2>2, HistoryOf DEF Refused, Begins
    <2>4. CheckOK(c)'
      BY <2>1, <2>2, <2>3 DEF CheckOK, Viewing, Current, Personal
    <2> QED
      BY <1>3, <2>1, <2>4, OneChecker
  <1>4. ASSUME NEW c \in Checkers, RefuseAddress(c), NextHistory PROVE CheckInv'
    <2>1. /\ check'[c].phase = "done" /\ check'[c].addr = Unparsable
          /\ check'[c].answer.reason = "invalid_ip"
          /\ \A k \in Checkers \ {c} : check'[k] = check[k]
      BY <1>0, <1>4 DEF RefuseAddress
    <2> QED
      BY <1>4, <2>1, OneChecker DEF CheckOK, Viewing, Current, Personal
  <1>5. ASSUME NEW c \in Checkers, LookupHit(c), NextHistory PROVE CheckInv'
    <2> DEFINE a == check[c].addr
               d == cache[a].decision
    <2>1. /\ a \in DOMAIN cache /\ check[c].phase = "loaded" /\ a # Unparsable
          /\ state' = state
      BY <1>0, <1>5 DEF LookupHit, IsHit, ShapeOK
    <2>2. /\ check'[c].phase = "done" /\ check'[c].addr = a /\ check'[c].answer = d
          /\ check'[c].captcha = check[c].captcha
          /\ \A k \in Checkers \ {c} : check'[k] = check[k]
      BY <1>0, <1>5 DEF LookupHit, Answered, ShapeOK, CheckFields
    <2>3. /\ since'[c] = since[c] \union {state}
          /\ a \in late => excused'[c]
      BY <1>5, <2>1, <2>2, HistoryOf DEF Refused, Begins, Hits
    <2>4. Cacheable(d) /\ (d \in Decide(state, a, "") \/ a \in late)
      BY <1>0, <2>1 DEF CacheInv, CacheAgrees
    <2>5. d \in Decide(state, a, check[c].captcha) \/ a \in late
      BY <2>4, Decisions
    <2>6. d.reason # "captcha_verified"
      BY <2>4 DEF Cacheable
    <2>7. Viewing(c)' /\ Personal(c)'
      BY <2>1, <2>2, <2>6 DEF Viewing, Personal
    <2>8. Current(c)'
      BY <2>1, <2>2, <2>3, <2>5 DEF Current
    <2> QED
      BY <1>5, <2>2, <2>7, <2>8, OneChecker DEF CheckOK
  <1>6. ASSUME NEW c \in Checkers, LookupMiss(c), NextHistory PROVE CheckInv'
    <2>1. /\ check[c].phase = "loaded" /\ check[c].addr # Unparsable
          /\ check'[c].phase = "missed" /\ check'[c].addr = check[c].addr
          /\ check'[c].view = check[c].view /\ check'[c].answer = check[c].answer
          /\ check'[c].captcha = check[c].captcha
          /\ state' = state /\ \A k \in Checkers \ {c} : check'[k] = check[k]
      BY <1>0, <1>6 DEF LookupMiss, ShapeOK, CheckFields
    <2>2. since'[c] = since[c] \union {state}
      BY <1>6, <2>1, HistoryOf DEF Refused, Begins
    <2>3. CheckOK(c)'
      BY <1>0, <2>1, <2>2 DEF CheckOK, Viewing, Current, Personal, NoAnswer
    <2> QED
      BY <1>6, <2>1, <2>3, OneChecker
  <1>7. ASSUME NEW c \in Checkers, Evaluate(c), NextHistory PROVE CheckInv'
    <2>1. PICK d \in Decide(check[c].view, check[c].addr, check[c].captcha) : Answered(c, d)
      BY <1>7 DEF Evaluate
    <2>2. /\ check[c].phase = "missed" /\ check[c].addr # Unparsable
          /\ check'[c].phase = "done" /\ check'[c].addr = check[c].addr
          /\ check'[c].answer = d /\ check'[c].captcha = check[c].captcha
          /\ state' = state /\ \A k \in Checkers \ {c} : check'[k] = check[k]
      BY <1>0, <1>7, <2>1 DEF Evaluate, Answered, ShapeOK, CheckFields
    <2>3. check[c].view \in since'[c]
      BY <1>0, <1>7, <2>2, HistoryOf DEF Refused, Begins, CheckOK, Viewing
    <2>4. Viewing(c)' /\ Current(c)'
      BY <2>1, <2>2, <2>3 DEF Viewing, Current
    <2>5. Personal(c)'
      <3>1. d.reason = "captcha_verified" =>
              check[c].captcha # "" /\ check[c].captcha = check[c].view.captchaToken
        BY Decisions, Zenon
      <3>2. check'[c].answer = d /\ check'[c].captcha = check[c].captcha
        BY <2>2
      <3> QED
        BY <2>3, <3>1, <3>2, Zenon DEF Personal
    <2> QED
      BY <1>7, <2>2, <2>4, <2>5, OneChecker DEF CheckOK
  <1> QED
    BY <1>1, <1>2, <1>3, <1>4, <1>5, <1>6, <1>7
    DEF Next, Tick, BuildState, SwapCache, StoreState, Evict

LEMMA InvStep == IInv /\ [Next /\ NextHistory]_historyVars => IInv'
  <1> SUFFICES ASSUME IInv, [Next /\ NextHistory]_historyVars PROVE IInv'
    OBVIOUS
  <1>1. ShapeOK'
    BY ShapeStep DEF IInv, historyVars, vars
  <1> QED
    BY <1>1, CacheStep, CheckStep DEF IInv

LEMMA InvCorrect == HistorySpec => []IInv
  BY InvInit, InvStep, PTL DEF HistorySpec

(* The decisions in the cache are those of the settings in force, or late ones. *)
THEOREM CacheCorrect == HistorySpec => []CacheAgrees
  <1>1. IInv => CacheAgrees
    BY DEF IInv, CacheInv
  <1> QED
    BY <1>1, InvCorrect, PTL

(* Every answer is that of settings in force during the check, or a late one. *)
THEOREM AnswersCorrect == HistorySpec => []AnswersAreCurrent
  <1>1. IInv => AnswersAreCurrent
    BY DEF IInv, CheckInv, Current, AnswersAreCurrent
  <1> QED
    BY <1>1, InvCorrect, PTL

(* Nobody gets in on a captcha another one has shown, cache or not. *)
THEOREM CaptchaCorrect == HistorySpec => []CaptchaIsPersonal
  <1>1. IInv => CaptchaIsPersonal
    BY DEF IInv, CheckInv, Personal, CaptchaIsPersonal
  <1> QED
    BY <1>1, InvCorrect, PTL

-------------------------------------------------------------------------------
(* Matching: what ApplyConfig installs, and what FindRuleMatch finds in it *)

(* The library has no theory of powers but the number of subsets. *)
LEMMA PowerType == \A n \in Nat : 2 ^ n \in Nat \ {0}
<1> TAKE n \in Nat
<1>1. IsFiniteSet(1 .. n) /\ Cardinality(1 .. n) = n
  BY FS_Interval
<1>2. Cardinality(SUBSET (1 .. n)) = 2 ^ n /\ IsFiniteSet(SUBSET (1 .. n))
  BY <1>1, FS_SUBSET
<1>3. SUBSET (1 .. n) # {}
  OBVIOUS
<1> QED BY <1>2, <1>3, FS_CardinalityType, FS_EmptySet

(* Addresses with the same masked value are those that agree in the first bits. *)
LEMMA MaskedAgree ==
  ASSUME NEW a \in Nat, NEW b \in Nat, NEW bits \in 0 .. Width
  PROVE  Masked(a, bits) = Masked(b, bits)
           <=> a \div 2 ^ (Width - bits) = b \div 2 ^ (Width - bits)
<1>1. Width - bits \in Nat
  BY WidthAssumption
<1>2. 2 ^ (Width - bits) \in Nat \ {0}
  BY <1>1, PowerType
<1> DEFINE D == 2 ^ (Width - bits)
<1> HIDE DEF D
<1>3. \A E \in Nat \ {0} : (a - (a % E) = b - (b % E)) <=> (a \div E = b \div E)
  OBVIOUS
<1> QED BY <1>2, <1>3 DEF Masked

-------------------------------------------------------------------------------
(* What ApplyConfig has accepted *)
ListOK ==
  /\ DOMAIN rules = 1 .. Len(rules) /\ Len(rules) \in Nat
  /\ \A i \in DOMAIN rules :
       /\ ValidateAccessRule(rules[i])
       /\ rules[i].value \in Values

LEMMA ListInit == RulesInit => ListOK
  BY DEF RulesInit, ListOK

LEMMA ListInv == RulesSpec => []ListOK
<1> DEFINE Rule == [id : Int, type : RuleTypes, value : Values]
           Typed == rules \in Seq(Rule)
<1>1. RulesInit => Typed /\ ListOK
  BY DEF RulesInit, ListOK
<1>2. Typed /\ ListOK /\ [AddRule]_<<rules, policy>> => Typed' /\ ListOK'
  <2> SUFFICES ASSUME Typed, ListOK, AddRule PROVE Typed' /\ ListOK'
    BY DEF ListOK
  <2>1. PICK type \in RuleTypes, value \in Values :
               rules' = Append(rules, [id |-> Len(rules) + 1, type |-> type, value |-> value])
    BY DEF AddRule
  <2>2. rules' \in Seq(Rule)
    BY <2>1
  <2>3. \A i \in DOMAIN rules' : rules'[i].value \in Values
    <3>1. \A i \in DOMAIN rules' : rules'[i] \in Rule
      <4> HIDE DEF Rule
      <4> QED BY <2>2
    <3> QED BY <3>1
  <2> QED BY <2>2, <2>3 DEF AddRule, ListOK
<1> QED BY <1>1, <1>2, PTL DEF RulesSpec

LEMMA RangeTyped ==
  ASSUME ListOK, NEW type \in RuleTypes, NEW i \in Ranges(type)
  PROVE  /\ i \in DOMAIN rules /\ rules[i].type = type /\ rules[i].value.kind = "range"
         /\ rules[i].value.start \in Addrs /\ rules[i].value.end \in Addrs
         /\ rules[i].value.start <= rules[i].value.end
<1>1. i \in DOMAIN rules /\ rules[i].type = type /\ rules[i].value.kind = "range"
  BY DEF Ranges, Table, Settings
<1> QED BY <1>1, ValueAssumption DEF ListOK, ValidateAccessRule

LEMMA PrefixTyped ==
  ASSUME ListOK, NEW i \in DOMAIN rules, rules[i].value.kind # "range"
  PROVE  rules[i].value.kind = "prefix" /\ rules[i].value.base \in Addrs
           /\ rules[i].value.bits \in 0 .. Width
  BY ValueAssumption DEF ListOK, ValidateAccessRule

LEMMA AddrsBounded == Addrs \in SUBSET Nat /\ 2 ^ Width \in Nat /\ \A a \in Addrs : a <= 2 ^ Width
<1>1. 2 ^ Width \in Nat
  BY WidthAssumption, PowerType
<1> QED BY <1>1 DEF Addrs

(* The last of the ranges that start at or before the address *)
LEMMA LastRange ==
  ASSUME ListOK, NEW type \in RuleTypes, NEW a \in Addrs,
         NEW before, before = {i \in Ranges(type) : rules[i].value.start <= a}, before # {}
  PROVE  \E i \in before : \A j \in before :
           \/ rules[j].value.start < rules[i].value.start
           \/ /\ rules[j].value.start = rules[i].value.start
              /\ rules[j].value.end <= rules[i].value.end
<1> DEFINE V(i) == rules[i].value
           starts == {V(i).start : i \in before}
<1>1. \A i \in before : V(i).start \in Addrs /\ V(i).end \in Addrs
  BY RangeTyped
<1>2. PICK s \in starts : \A t \in starts : t <= s
  <2>1. starts \in SUBSET Nat /\ starts # {} /\ \A t \in starts : t <= 2 ^ Width
    BY <1>1, AddrsBounded
  <2> HIDE DEF starts
  <2> QED BY <2>1, AddrsBounded, GreatestNumber
<1> DEFINE ends == {V(i).end : i \in {i \in before : V(i).start = s}}
<1>3. PICK e \in ends : \A t \in ends : t <= e
  <2>1. ends \in SUBSET Nat /\ ends # {} /\ \A t \in ends : t <= 2 ^ Width
    BY <1>1, <1>2, AddrsBounded
  <2> HIDE DEF ends
  <2> QED BY <2>1, AddrsBounded, GreatestNumber
<1>4. PICK i \in before : V(i).start = s /\ V(i).end = e
  BY <1>3
<1>5. \A j \in before : V(j).start <= s /\ V(j).start \in Nat /\ s \in Nat
  BY <1>1, <1>2, <1>4, AddrsBounded
<1>6. \A j \in before : V(j).start = s => V(j).end <= e
  BY <1>3
<1>7. \A j \in before : V(j).start < s \/ (V(j).start = s /\ V(j).end <= e)
  BY <1>5, <1>6
<1> QED BY <1>4, <1>7

LEMMA RangeFound ==
  ASSUME NEW type, NEW a, NEW i
  PROVE  i \in MatchRange(Settings, type, a) <=>
           /\ i \in Ranges(type)
           /\ rules[i].value.start <= a /\ a <= rules[i].value.end
           /\ \A j \in Ranges(type) : rules[j].value.start <= a =>
                \/ rules[j].value.start < rules[i].value.start
                \/ /\ rules[j].value.start = rules[i].value.start
                   /\ rules[j].value.end <= rules[i].value.end
  BY DEF MatchRange, Ranges, Settings

LEMMA CoveringRange ==
  ASSUME ListOK, NEW type \in RuleTypes, NEW a, NEW i
  PROVE  i \in Covering(type, a) \intersect Ranges(type) <=>
           i \in Ranges(type) /\ rules[i].value.start <= a /\ a <= rules[i].value.end
  BY RangeTyped DEF Covering, Covers

(* Disjoint ranges: the one that covers the address is the last that starts before. *)
LEMMA RangesExact ==
  ASSUME ListOK, NEW type \in RuleTypes, NEW a \in Addrs
  PROVE  /\ MatchRange(Settings, type, a) \subseteq Covering(type, a) \intersect Ranges(type)
         /\ DisjointRanges(type) =>
              MatchRange(Settings, type, a) = Covering(type, a) \intersect Ranges(type)
<1>1. MatchRange(Settings, type, a) \subseteq Covering(type, a) \intersect Ranges(type)
  BY RangeFound, CoveringRange
<1>2. ASSUME DisjointRanges(type), NEW i \in Covering(type, a) \intersect Ranges(type)
      PROVE  i \in MatchRange(Settings, type, a)
  <2> DEFINE before == {j \in Ranges(type) : rules[j].value.start <= a}
  <2>1. i \in before /\ rules[i].value.start <= a /\ a <= rules[i].value.end
    BY <1>2, CoveringRange
  <2>2. PICK k \in before : \A j \in before :
               \/ rules[j].value.start < rules[k].value.start
               \/ /\ rules[j].value.start = rules[k].value.start
                  /\ rules[j].value.end <= rules[k].value.end
    <3>1. before # {}
      BY <2>1
    <3> DEFINE b == before
    <3>2. b = {j \in Ranges(type) : rules[j].value.start <= a} /\ b # {}
      BY <3>1
    <3> HIDE DEF b
    <3>3. \E k \in b : \A j \in b :
             \/ rules[j].value.start < rules[k].value.start
             \/ /\ rules[j].value.start = rules[k].value.start
                /\ rules[j].value.end <= rules[k].value.end
      BY <3>2, LastRange
    <3> QED BY <3>3 DEF b
  <2>3. k = i
    <3> SUFFICES ASSUME k # i PROVE FALSE
      OBVIOUS
    <3> DEFINE m == rules[k].value.start
    <3>1. m \in Addrs /\ m <= rules[k].value.end /\ m <= a
      BY <2>2, RangeTyped
    <3>2. rules[i].value.start <= m
      <4>1. rules[i].value.start < m \/ rules[i].value.start = m
        BY <2>1, <2>2
      <4>2. rules[i].value.start \in Nat /\ m \in Nat
        <5> HIDE DEF m
        <5> QED BY <2>1, <3>1, RangeTyped, AddrsBounded
      <4> HIDE DEF m
      <4> QED BY <4>1, <4>2
    <3>3. m <= rules[i].value.end
      <4>1. rules[i].value.end \in Nat /\ m \in Nat /\ a \in Nat
        <5> HIDE DEF m
        <5> QED BY <2>1, <3>1, RangeTyped, AddrsBounded
      <4> HIDE DEF m
      <4> QED BY <2>1, <3>1, <4>1
    <3>4. Covers(i, m) /\ Covers(k, m)
      <4>1. m <= m
        <5>1. m \in Nat
          <6> HIDE DEF m
          <6> QED BY <3>1, AddrsBounded
        <5>2. \A n \in Nat : n <= n
          OBVIOUS
        <5> HIDE DEF m
        <5> QED BY <5>1, <5>2
      <4>2. rules[i].value.kind = "range" /\ rules[k].value.kind = "range"
        BY <1>2, <2>2, RangeTyped
      <4> QED BY <3>1, <3>2, <3>3, <4>1, <4>2 DEF Covers
    <3> QED BY <1>2, <2>2, <3>1, <3>4 DEF DisjointRanges
  <2> QED BY <2>1, <2>2, <2>3, RangeFound
<1> QED BY <1>1, <1>2

-------------------------------------------------------------------------------
(* Prefixes *)

Prefixes(type) == Table(Settings, type, "prefix")

LEMMA CoveringPrefix ==
  ASSUME ListOK, NEW type \in RuleTypes, NEW a \in Addrs, NEW i
  PROVE  i \in Covering(type, a) \ Ranges(type) <=>
           i \in Prefixes(type) /\ Contains(Settings, i, a)
<1>1. ASSUME NEW j \in Prefixes(type)
      PROVE  Contains(Settings, j, a) <=> Covers(j, a)
  <2>1. /\ j \in DOMAIN rules /\ rules[j].value.kind = "prefix"
        /\ rules[j].value.base \in Nat /\ rules[j].value.bits \in 0 .. Width /\ a \in Nat
    BY PrefixTyped, AddrsBounded DEF Prefixes, Table, Settings
  <2>2. Contains(Settings, j, a) <=>
          Masked(a, rules[j].value.bits) = Masked(rules[j].value.base, rules[j].value.bits)
    BY DEF Contains, Network, Settings
  <2>3. Covers(j, a) <=>
          a \div 2 ^ (Width - rules[j].value.bits)
            = rules[j].value.base \div 2 ^ (Width - rules[j].value.bits)
    BY <2>1 DEF Covers
  <2> QED BY <2>1, <2>2, <2>3, MaskedAgree
<1>2. i \in Covering(type, a) \ Ranges(type) <=> i \in Prefixes(type) /\ Covers(i, a)
  BY PrefixTyped DEF Covering, Ranges, Prefixes, Table, Settings
<1> QED BY <1>1, <1>2

(* The rule the trie holds for the network of a prefix: the latest that gives it *)
LEMMA LatestOfNetwork ==
  ASSUME ListOK, NEW type, NEW i \in Prefixes(type)
  PROVE  \E k \in Prefixes(type) :
           /\ Network(Settings, k) = Network(Settings, i) /\ i <= k
           /\ \A j \in Prefixes(type) : Network(Settings, j) = Network(Settings, k) => j <= k
<1> DEFINE same == {k \in Prefixes(type) : Network(Settings, k) = Network(Settings, i)}
<1>1. same \in SUBSET Nat /\ same # {} /\ Len(rules) \in Nat /\ \A k \in same : k <= Len(rules)
  BY DEF Prefixes, Table, Settings, ListOK
<1>2. PICK k \in same : \A j \in same : j <= k
  <2> HIDE DEF same
  <2> QED BY <1>1, GreatestNumber
<1> QED BY <1>2

LEMMA PrefixFound ==
  ASSUME NEW type, NEW a, NEW i
  PROVE  i \in MatchPrefix(Settings, type, a) <=>
           /\ i \in Prefixes(type) /\ Contains(Settings, i, a)
           /\ \A j \in Prefixes(type) : Network(Settings, j) = Network(Settings, i) => j <= i
           /\ \A j \in Prefixes(type) :
                (/\ Contains(Settings, j, a)
                 /\ \A k \in Prefixes(type) : Network(Settings, k) = Network(Settings, j) => k <= j)
                => rules[j].value.bits <= rules[i].value.bits
  BY DEF MatchPrefix, Prefixes, Settings

LEMMA SameNetwork ==
  ASSUME NEW i, NEW j, NEW a, Network(Settings, i) = Network(Settings, j)
  PROVE  /\ rules[i].value.bits = rules[j].value.bits
         /\ Contains(Settings, i, a) <=> Contains(Settings, j, a)
  BY DEF Network, Contains, Settings

(* What is found among the prefixes: the latest of the longest that cover the address *)
LEMMA PrefixesExact ==
  ASSUME ListOK, NEW type \in RuleTypes, NEW a \in Addrs
  PROVE  /\ MatchPrefix(Settings, type, a) \subseteq Covering(type, a) \ Ranges(type)
         /\ Covering(type, a) \ Ranges(type) # {} => MatchPrefix(Settings, type, a) # {}
         /\ \A i \in MatchPrefix(Settings, type, a), j \in Covering(type, a) \ Ranges(type) :
              \/ rules[j].value.bits < rules[i].value.bits
              \/ rules[j].value.bits = rules[i].value.bits /\ j <= i
<1>1. MatchPrefix(Settings, type, a) \subseteq Covering(type, a) \ Ranges(type)
  BY PrefixFound, CoveringPrefix
<1> DEFINE Latest(k) == \A j \in Prefixes(type) : Network(Settings, j) = Network(Settings, k) => j <= k
           covering == {k \in Prefixes(type) : Contains(Settings, k, a) /\ Latest(k)}
<1>2. \A k \in Prefixes(type) : rules[k].value.bits \in 0 .. Width /\ Width \in Nat
  BY PrefixTyped, WidthAssumption DEF Prefixes, Table, Settings
<1>3. ASSUME NEW i \in Covering(type, a) \ Ranges(type)
      PROVE  \E k \in covering : rules[k].value.bits = rules[i].value.bits /\ i <= k
  <2>1. i \in Prefixes(type) /\ Contains(Settings, i, a)
    BY <1>3, CoveringPrefix
  <2>2. PICK k \in Prefixes(type) :
               Network(Settings, k) = Network(Settings, i) /\ i <= k /\ Latest(k)
    BY <2>1, LatestOfNetwork
  <2> QED BY <2>1, <2>2, SameNetwork
<1>4. ASSUME Covering(type, a) \ Ranges(type) # {}
      PROVE  MatchPrefix(Settings, type, a) # {}
  <2> DEFINE lengths == {rules[k].value.bits : k \in covering}
  <2>1. lengths \in SUBSET Nat /\ lengths # {} /\ \A n \in lengths : n <= Width
    BY <1>2, <1>3, <1>4
  <2>2. PICK n \in lengths : \A m \in lengths : m <= n
    <3> HIDE DEF lengths
    <3> QED BY <2>1, WidthAssumption, GreatestNumber
  <2>3. PICK k \in covering : rules[k].value.bits = n
    BY <2>2
  <2>4. \A j \in covering : rules[j].value.bits <= rules[k].value.bits
    BY <2>2, <2>3
  <2>5. k \in MatchPrefix(Settings, type, a)
    BY <2>3, <2>4, PrefixFound
  <2> QED BY <2>5
<1>5. ASSUME NEW i \in MatchPrefix(Settings, type, a), NEW j \in Covering(type, a) \ Ranges(type)
      PROVE  \/ rules[j].value.bits < rules[i].value.bits
             \/ rules[j].value.bits = rules[i].value.bits /\ j <= i
  <2>1. PICK k \in covering : rules[k].value.bits = rules[j].value.bits /\ j <= k
    BY <1>3
  <2>2. i \in Prefixes(type) /\ j \in Prefixes(type) /\ Latest(i)
        /\ Contains(Settings, i, a) /\ Contains(Settings, j, a)
    BY <1>1, PrefixFound, CoveringPrefix
  <2>3. rules[k].value.bits <= rules[i].value.bits
    BY <2>1, PrefixFound
  <2>4. rules[j].value.bits = rules[i].value.bits => Network(Settings, j) = Network(Settings, i)
    BY <2>2 DEF Network, Contains, Settings
  <2>5. rules[j].value.bits = rules[i].value.bits => j <= i
    BY <2>2, <2>4
  <2>6. rules[j].value.bits \in Int /\ rules[i].value.bits \in Int
    BY <1>2, <2>2
  <2> QED BY <2>1, <2>3, <2>5, <2>6
<1> QED BY <1>1, <1>4, <1>5

-------------------------------------------------------------------------------
LEMMA MatchExact ==
  ASSUME ListOK
  PROVE  MatchIsExact
<1> SUFFICES ASSUME NEW type \in RuleTypes, NEW a \in Addrs
             PROVE  LET found == FindRuleMatch(Settings, type, a)
                        covering == Covering(type, a)
                    IN /\ found \subseteq covering
                       /\ DisjointRanges(type) =>
                            /\ found = {} <=> covering = {}
                            /\ found \intersect Ranges(type) = covering \intersect Ranges(type)
                            /\ \A i \in found \ Ranges(type), j \in covering :
                                 \/ rules[j].value.bits < rules[i].value.bits
                                 \/ rules[j].value.bits = rules[i].value.bits /\ j <= i
  BY DEF MatchIsExact
<1> DEFINE found == FindRuleMatch(Settings, type, a)
           covering == Covering(type, a)
           ranges == MatchRange(Settings, type, a)
           prefixes == MatchPrefix(Settings, type, a)
<1>1. found = IF ranges # {} THEN ranges ELSE prefixes
  BY DEF FindRuleMatch
<1>2. /\ ranges \subseteq covering \intersect Ranges(type)
      /\ DisjointRanges(type) => ranges = covering \intersect Ranges(type)
  BY RangesExact
<1>3. /\ prefixes \subseteq covering \ Ranges(type)
      /\ covering \ Ranges(type) # {} => prefixes # {}
      /\ \A i \in prefixes, j \in covering \ Ranges(type) :
           \/ rules[j].value.bits < rules[i].value.bits
           \/ rules[j].value.bits = rules[i].value.bits /\ j <= i
  BY PrefixesExact
<1> HIDE DEF found, covering, ranges, prefixes
<1>4. found \subseteq covering
  BY <1>1, <1>2, <1>3
<1>5. ASSUME DisjointRanges(type)
      PROVE  /\ found = {} <=> covering = {}
             /\ found \intersect Ranges(type) = covering \intersect Ranges(type)
             /\ \A i \in found \ Ranges(type), j \in covering :
                  \/ rules[j].value.bits < rules[i].value.bits
                  \/ rules[j].value.bits = rules[i].value.bits /\ j <= i
  BY <1>1, <1>2, <1>3, <1>5
<1> QED BY <1>4, <1>5 DEF found, covering

(* What is found is what covers, for any list ApplyConfig accepts: the only gap is
   between ranges that overlap. *)
THEOREM MatchCorrect == RulesSpec => []MatchIsExact
  BY ListInv, MatchExact, PTL

LEMMA DecisionRule ==
  ASSUME NEW allowed, NEW reason, NEW found, NEW d \in Decision(allowed, reason, found)
  PROVE  d.allowed = allowed /\ d.rule \in found
  BY DEF Decision

(* A type whose lists have nothing for the address is passed over with reason. *)
LEMMA PassedOver ==
  ASSUME MatchIsExact, NEW type \in RuleTypes, NEW a \in Addrs
  PROVE  /\ FindRuleMatch(Settings, type, a) \subseteq Covering(type, a)
         /\ FindRuleMatch(Settings, type, a) = {} => Passed(type, a)
  BY Zenon DEF MatchIsExact, Passed

LEMMA ReasonExact ==
  ASSUME MatchIsExact
  PROVE  DecisionsHaveReason
<1> SUFFICES ASSUME NEW a \in Addrs, NEW captcha \in CaptchaHeaders,
                    NEW d \in Decide(Settings, a, captcha)
             PROVE  HasReason(d, a, captcha # "" /\ captcha = CaptchaToken)
  BY Zenon DEF DecisionsHaveReason
<1> DEFINE verified == captcha # "" /\ captcha = CaptchaToken
           Match(type) == FindRuleMatch(Settings, type, a)
<1>1. \A type \in {"deny", "allow", "grey"} :
        Match(type) \subseteq Covering(type, a) /\ (Match(type) = {} => Passed(type, a))
  BY PassedOver DEF RuleTypes
<1>2. Settings.defaultPolicy = policy /\ Settings.captchaToken = CaptchaToken
  BY DEF Settings
<1>3. CASE Match("deny") # {}
  <2>1. d \in Decision(FALSE, "blacklist", Match("deny"))
    BY <1>3, Zenon DEF Decide
  <2>2. d.allowed = FALSE /\ d.rule \in Covering("deny", a)
    BY <1>1, <2>1, DecisionRule
  <2> QED BY <2>2, Zenon DEF HasReason
<1>4. CASE Match("deny") = {} /\ Match("allow") # {}
  <2>1. d \in Decision(TRUE, "whitelist", Match("allow"))
    BY <1>4, Zenon DEF Decide
  <2>2. d.allowed = TRUE /\ d.rule \in Covering("allow", a) /\ Passed("deny", a)
    BY <1>1, <1>4, <2>1, DecisionRule
  <2> QED BY <2>2, Zenon DEF HasReason
<1>5. CASE Match("deny") = {} /\ Match("allow") = {} /\ Match("grey") # {}
  <2>1. Passed("deny", a) /\ Passed("allow", a)
    BY <1>1, <1>5
  <2>2. CASE verified
    <3>1. d \in Decision(TRUE, "captcha_verified", Match("grey"))
      BY <1>2, <1>5, <2>2, Zenon DEF Decide
    <3>2. d.allowed = TRUE /\ d.rule \in Covering("grey", a)
      BY <1>1, <3>1, DecisionRule
    <3> QED BY <2>1, <2>2, <3>2, Zenon DEF HasReason
  <2>3. CASE ~verified
    <3>1. d \in Decision(FALSE, "captcha_required", Match("grey"))
      BY <1>2, <1>5, <2>3, Zenon DEF Decide
    <3>2. d.allowed = FALSE /\ d.rule \in Covering("grey", a)
      BY <1>1, <3>1, DecisionRule
    <3> QED BY <2>1, <2>3, <3>2, Zenon DEF HasReason
  <2> QED BY <2>2, <2>3, Zenon
<1>6. CASE Match("deny") = {} /\ Match("allow") = {} /\ Match("grey") = {}
  <2>1. Passed("deny", a) /\ Passed("allow", a) /\ Passed("grey", a)
    BY <1>1, <1>6
  <2>2. CASE policy = "deny"
    <3>1. d \in Decision(FALSE, "default_deny", NoRule)
      BY <1>2, <1>6, <2>2, Zenon DEF Decide
    <3>2. d.allowed = FALSE /\ d.rule = 0
      BY <3>1, DecisionRule DEF NoRule
    <3> QED BY <2>1, <2>2, <3>2, Zenon DEF HasReason
  <2>3. CASE policy # "deny"
    <3>1. d \in Decision(TRUE, "default_allow", NoRule)
      BY <1>2, <1>6, <2>3, Zenon DEF Decide
    <3>2. d.allowed = TRUE /\ d.rule = 0
      BY <3>1, DecisionRule DEF NoRule
    <3> QED BY <2>1, <2>3, <3>2, Zenon DEF HasReason
  <2> QED BY <2>2, <2>3, Zenon
<1> QED BY <1>3, <1>4, <1>5, <1>6, Zenon

(* Deny comes before allow, allow before grey and the default policy last: a type is
   passed over only if no rule of it covers the address or its ranges overlap. *)
THEOREM ReasonCorrect == RulesSpec => []DecisionsHaveReason
  BY ListInv, MatchExact, ReasonExact, PTL
===============================================================================
