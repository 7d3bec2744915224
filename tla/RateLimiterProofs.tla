--------------------------- MODULE RateLimiterProofs ---------------------------
(***************************************************************************)
(* Proofs about RateLimiter, and at the end about RateHistory, for any     *)
(* requests, clients, subnets, periods, settings and sizes.  One lemma per *)
(* operator says what it does to the state of a key; the invariants follow *)
(* action by action.                                                       *)
(***************************************************************************)
EXTENDS RateHistory, FiniteSetTheorems, TLAPS

LEMMA WindowType ==
  ASSUME NEW p \in Periods, NEW t \in Int
  PROVE  Window(p, t) \in Int
  BY PeriodAssumption, SMT DEF Window

LEMMA NewStateType == NewState \in States
  BY SMT DEF NewState, States, Times, Never

(* Whatever the time, a rolled state has the windows of that time, and a count
   that is either kept, in the same window, or 0. *)
LEMMA RolledState ==
  ASSUME NEW st \in States, NEW t \in Int
  PROVE  /\ RollWindows(st, t) \in States
         /\ RollWindows(st, t).active = st.active
         /\ \A p \in Periods :
              /\ RollWindows(st, t).window[p] = Window(p, t)
              /\ \/ RollWindows(st, t).requests[p] = 0
                 \/ /\ st.window[p] = Window(p, t)
                    /\ RollWindows(st, t).requests[p] = st.requests[p]
  <1>1. \A p \in Periods : Window(p, t) \in Int
    BY WindowType
  <1> QED
    BY <1>1, PeriodAssumption DEF RollWindows, States

LEMMA SeenState ==
  ASSUME NEW st \in States, NEW t \in Times
  PROVE  /\ Seen(st, t) \in States
         /\ Seen(st, t).active = st.active
         /\ Seen(st, t).requests = st.requests
         /\ Seen(st, t).window = st.window
  BY DEF Seen, States

LEMMA GrantedState ==
  ASSUME NEW st \in States
  PROVE  /\ Granted(st) \in States
         /\ Granted(st).active = st.active + 1
         /\ Granted(st).window = st.window
         /\ \A p \in Periods : Granted(st).requests[p] = st.requests[p] + 1
  BY DEF Granted, States

LEMMA ReleasedState ==
  ASSUME NEW st \in States, NEW t \in Int, NEW up \in Int, NEW down \in Int, now \in Nat
  PROVE  /\ Released(st, t, up, down) \in States
         /\ Released(st, t, up, down).active = IF st.active > 0 THEN st.active - 1 ELSE 0
         /\ \A p \in Periods :
              /\ Released(st, t, up, down).window[p] = Window(p, t)
              /\ \/ Released(st, t, up, down).requests[p] = 0
                 \/ /\ st.window[p] = Window(p, t)
                    /\ Released(st, t, up, down).requests[p] = st.requests[p]
  <1> DEFINE r == RollWindows(st, t)
  <1>1. /\ r \in States
        /\ r.active = st.active
        /\ \A p \in Periods :
             /\ r.window[p] = Window(p, t)
             /\ r.requests[p] = 0
                  \/ (st.window[p] = Window(p, t) /\ r.requests[p] = st.requests[p])
    BY RolledState
  <1>2. Released(st, t, up, down) =
          [window |-> r.window, requests |-> r.requests, uploaded |-> r.uploaded + up,
           downloaded |-> r.downloaded + down, total |-> r.total + up + down,
           active |-> IF r.active > 0 THEN r.active - 1 ELSE 0, lastSeen |-> now]
    BY DEF Released
  <1> HIDE DEF r
  <1>3. /\ r.window \in [Periods -> Int] /\ r.requests \in [Periods -> Nat]
        /\ r.uploaded \in Int /\ r.downloaded \in Int /\ r.total \in Int /\ r.active \in Nat
    BY <1>1 DEF States
  <1>4. Released(st, t, up, down) \in States
    BY <1>2, <1>3 DEF States, Times
  <1> QED
    BY <1>1, <1>2, <1>4

(***************************************************************************)
(* Types.                                                                  *)
(***************************************************************************)
LEMMA NormalisedMask ==
  ASSUME NEW s \in SettingsChoices
  PROVE  Normalised(s).mask \in DOMAIN SubnetOf
  BY SettingsAssumption DEF Normalised

LEMMA ScopeType ==
  ASSUME TypeOK, NEW ip \in IPs
  PROVE  /\ ScopeKeys(ip) \subseteq Keys
         /\ ip \in ScopeKeys(ip)
  <1>1. settings.mask \in DOMAIN SubnetOf
    BY NormalisedMask DEF TypeOK
  <1> QED
    BY <1>1, KeyAssumption DEF ScopeKeys, Keys

LEMMA StateOfType ==
  ASSUME TypeOK, NEW x
  PROVE  StateOf(x) \in States
  BY NewStateType DEF StateOf, TypeOK

LEMMA RolledType ==
  ASSUME TypeOK, NEW id \in Ids, phase[id] = "stamped"
  PROVE  /\ DOMAIN Rolled(id) = ScopeKeys(IpOf[id])
         /\ \A x \in ScopeKeys(IpOf[id]) :
              /\ Rolled(id)[x] \in States
              /\ Rolled(id)[x].active = StateOf(x).active
              /\ \A p \in Periods :
                   /\ Rolled(id)[x].window[p] = Window(p, stamp[id])
                   /\ \/ Rolled(id)[x].requests[p] = 0
                      \/ /\ StateOf(x).window[p] = Window(p, stamp[id])
                         /\ Rolled(id)[x].requests[p] = StateOf(x).requests[p]
  <1>1. stamp[id] \in Nat /\ stamp[id] \in Times /\ stamp[id] \in Int
    BY DEF TypeOK, Times
  <1>2. DOMAIN Rolled(id) = ScopeKeys(IpOf[id])
    BY DEF Rolled
  <1>3. ASSUME NEW x \in ScopeKeys(IpOf[id])
        PROVE  /\ Rolled(id)[x] \in States
               /\ Rolled(id)[x].active = StateOf(x).active
               /\ \A p \in Periods :
                    /\ Rolled(id)[x].window[p] = Window(p, stamp[id])
                    /\ \/ Rolled(id)[x].requests[p] = 0
                       \/ /\ StateOf(x).window[p] = Window(p, stamp[id])
                          /\ Rolled(id)[x].requests[p] = StateOf(x).requests[p]
    <2> DEFINE r == RollWindows(StateOf(x), stamp[id])
    <2>1. Rolled(id)[x] = Seen(r, stamp[id])
      BY <1>3 DEF Rolled
    <2>2. StateOf(x) \in States
      BY StateOfType
    <2>3. /\ r \in States
          /\ r.active = StateOf(x).active
          /\ \A p \in Periods :
               /\ r.window[p] = Window(p, stamp[id])
               /\ r.requests[p] = 0
                    \/ (StateOf(x).window[p] = Window(p, stamp[id])
                          /\ r.requests[p] = StateOf(x).requests[p])
      BY <1>1, <2>2, RolledState
    <2>4. /\ Seen(r, stamp[id]) \in States
          /\ Seen(r, stamp[id]).active = r.active
          /\ Seen(r, stamp[id]).requests = r.requests
          /\ Seen(r, stamp[id]).window = r.window
      BY <1>1, <2>3, SeenState
    <2> HIDE DEF r
    <2> QED
      BY <2>1, <2>3, <2>4
  <1> QED
    BY <1>2, <1>3

LEMMA ViolationType ==
  ASSUME TypeOK, NEW v \in [ip : IPs, scope : {"ip", "subnet"}, time : Times]
  PROVE  /\ RecordViolation(v) \in Seq([ip : IPs, scope : {"ip", "subnet"}, time : Times])
         /\ Len(RecordViolation(v)) <= ViolationLimit
  <1> DEFINE V == [ip : IPs, scope : {"ip", "subnet"}, time : Times]
             s == <<v>> \o violations
             n == IF Len(violations) < ViolationLimit THEN Len(violations) + 1
                  ELSE ViolationLimit
  <1>1. violations \in Seq(V) /\ Len(violations) \in Nat /\ Len(violations) <= ViolationLimit
    BY DEF TypeOK
  <1>2. s \in Seq(V) /\ Len(s) = Len(violations) + 1
    BY <1>1
  <1>3. n \in Nat /\ n <= Len(s) /\ n <= ViolationLimit
    BY <1>1, <1>2, PeriodAssumption
  <1> HIDE DEF V, s, n
  <1>4. SubSeq(s, 1, n) \in Seq(V) /\ Len(SubSeq(s, 1, n)) = n
    BY <1>2, <1>3
  <1>5. RecordViolation(v) = SubSeq(s, 1, n)
    BY DEF RecordViolation, s, n
  <1> QED
    BY <1>3, <1>4, <1>5 DEF V

(* With and Cleanup on the map of the limiter *)
LEMMA WithType ==
  ASSUME NEW sts, NEW new,
         DOMAIN sts \subseteq Keys, sts \in [DOMAIN sts -> States],
         DOMAIN new \subseteq Keys, \A x \in DOMAIN new : new[x] \in States
  PROVE  /\ DOMAIN With(sts, new) = DOMAIN sts \union DOMAIN new
         /\ With(sts, new) \in [DOMAIN With(sts, new) -> States]
         /\ \A x \in DOMAIN new : With(sts, new)[x] = new[x]
         /\ \A x \in DOMAIN sts \ DOMAIN new : With(sts, new)[x] = sts[x]
  BY DEF With

LEMMA CleanupType ==
  ASSUME NEW sts, NEW t, sts \in [DOMAIN sts -> States]
  PROVE  /\ DOMAIN Cleanup(sts, t) \subseteq DOMAIN sts
         /\ Cleanup(sts, t) \in [DOMAIN Cleanup(sts, t) -> States]
         /\ \A x \in DOMAIN Cleanup(sts, t) : Cleanup(sts, t)[x] = sts[x]
         /\ \A x \in DOMAIN sts \ DOMAIN Cleanup(sts, t) : sts[x].active = 0
  BY DEF Cleanup, Idle

(* What a grant leaves of a key: its rolled state with one more request and one
   more lease, for the keys of the request; nothing but idle states is lost. *)
LEMMA GrantStates ==
  ASSUME TypeOK, NEW id \in Ids, NEW hint \in Uploads, AcquireGranted(id, hint)
  PROVE  /\ DOMAIN states' \subseteq Keys
         /\ states' \in [DOMAIN states' -> States]
         /\ \A x \in DOMAIN states' \ ScopeKeys(IpOf[id]) :
              x \in DOMAIN states /\ states'[x] = states[x]
         /\ \A x \in DOMAIN states \ (DOMAIN states' \union ScopeKeys(IpOf[id])) :
              states[x].active = 0
         /\ \A x \in ScopeKeys(IpOf[id]) :
              /\ x \in DOMAIN states'
              /\ states'[x] = Granted(Rolled(id)[x])
              /\ states'[x].active = StateOf(x).active + 1
              /\ \A p \in Periods :
                   /\ states'[x].window[p] = Window(p, stamp[id])
                   /\ \/ states'[x].requests[p] = 1
                      \/ /\ StateOf(x).window[p] = Window(p, stamp[id])
                         /\ states'[x].requests[p] = StateOf(x).requests[p] + 1
  <1> DEFINE keys == ScopeKeys(IpOf[id])
             granted == [x \in keys |-> Granted(Rolled(id)[x])]
             all == With(states, granted)
  <1>1. phase[id] = "stamped" /\ states' = Cleanup(all, stamp[id])
    BY DEF AcquireGranted
  <1>2. keys \subseteq Keys
    BY KeyAssumption, ScopeType
  <1>3. ASSUME NEW x \in keys
        PROVE  /\ granted[x] \in States
               /\ granted[x].active = StateOf(x).active + 1
               /\ \A p \in Periods :
                    /\ granted[x].window[p] = Window(p, stamp[id])
                    /\ \/ granted[x].requests[p] = 1
                       \/ /\ StateOf(x).window[p] = Window(p, stamp[id])
                          /\ granted[x].requests[p] = StateOf(x).requests[p] + 1
    <2>1. Rolled(id)[x] \in States
      BY <1>1, <1>3, RolledType
    <2>2. granted[x] = Granted(Rolled(id)[x])
      BY <1>3
    <2> QED
      BY <1>1, <1>3, <2>1, <2>2, RolledType, GrantedState
  <1>4. /\ DOMAIN all = DOMAIN states \union keys
        /\ all \in [DOMAIN all -> States]
        /\ \A x \in keys : all[x] = granted[x]
        /\ \A x \in DOMAIN states \ keys : all[x] = states[x]
    <2>1. DOMAIN granted = keys
      OBVIOUS
    <2>2. DOMAIN states \subseteq Keys /\ states \in [DOMAIN states -> States]
      BY DEF TypeOK
    <2>3. \A x \in keys : granted[x] \in States
      BY <1>3
    <2> HIDE DEF granted, keys
    <2> QED
      BY <1>2, <2>1, <2>2, <2>3, WithType
  <1>5. \A x \in keys : granted[x] = Granted(Rolled(id)[x])
    OBVIOUS
  <1>6. \A x \in keys : StateOf(x).active \in Nat
    BY StateOfType DEF States
  <1> HIDE DEF granted, all, keys
  <1>7. /\ DOMAIN states' \subseteq DOMAIN all
        /\ states' \in [DOMAIN states' -> States]
        /\ \A x \in DOMAIN states' : states'[x] = all[x]
        /\ \A x \in DOMAIN all \ DOMAIN states' : all[x].active = 0
    BY <1>1, <1>4, CleanupType
  <1>8. \A x \in keys : x \in DOMAIN states'
    <2>1. ASSUME NEW x \in keys PROVE all[x].active # 0
      BY <1>3, <1>4, <1>6
    <2> QED
      BY <1>4, <1>7, <2>1
  <1>9. \A x \in DOMAIN states' \ keys : x \in DOMAIN states /\ states'[x] = states[x]
    BY <1>4, <1>7
  <1>10. \A x \in DOMAIN states \ (DOMAIN states' \union keys) : states[x].active = 0
    BY <1>4, <1>7
  <1>11. DOMAIN states' \subseteq Keys
    BY <1>2, <1>4, <1>7 DEF TypeOK
  <1> QED
    BY <1>3, <1>4, <1>5, <1>7, <1>8, <1>9, <1>10, <1>11 DEF keys

(* A rejection leaves no key with another number of leases, and no count that is
   not what it was in its window. *)
LEMMA RejectStates ==
  ASSUME TypeOK, NEW id \in Ids, NEW hint \in Uploads, AcquireRejected(id, hint)
  PROVE  /\ DOMAIN states' = DOMAIN states \union ScopeKeys(IpOf[id])
         /\ DOMAIN states' \subseteq Keys
         /\ states' \in [DOMAIN states' -> States]
         /\ \A x \in DOMAIN states' \ ScopeKeys(IpOf[id]) : states'[x] = states[x]
         /\ \A x \in ScopeKeys(IpOf[id]) :
              /\ states'[x].active = StateOf(x).active
              /\ \A p \in Periods :
                   \/ states'[x].requests[p] = 0
                   \/ /\ states'[x].window[p] = StateOf(x).window[p]
                      /\ states'[x].requests[p] = StateOf(x).requests[p]
  <1>1. phase[id] = "stamped" /\ states' = With(states, Rolled(id))
    BY DEF AcquireRejected
  <1>2. /\ DOMAIN Rolled(id) = ScopeKeys(IpOf[id])
        /\ ScopeKeys(IpOf[id]) \subseteq Keys
    BY <1>1, RolledType, ScopeType, KeyAssumption
  <1>3. \A x \in ScopeKeys(IpOf[id]) : Rolled(id)[x] \in States
    BY <1>1, RolledType
  <1>4. /\ DOMAIN states' = DOMAIN states \union DOMAIN Rolled(id)
        /\ states' \in [DOMAIN states' -> States]
        /\ \A x \in DOMAIN Rolled(id) : states'[x] = Rolled(id)[x]
        /\ \A x \in DOMAIN states \ DOMAIN Rolled(id) : states'[x] = states[x]
    <2>1. DOMAIN states \subseteq Keys /\ states \in [DOMAIN states -> States]
      BY DEF TypeOK
    <2>2. DOMAIN Rolled(id) \subseteq Keys /\ \A x \in DOMAIN Rolled(id) : Rolled(id)[x] \in States
      BY <1>2, <1>3
    <2>3. /\ DOMAIN With(states, Rolled(id)) = DOMAIN states \union DOMAIN Rolled(id)
          /\ With(states, Rolled(id)) \in [DOMAIN With(states, Rolled(id)) -> States]
          /\ \A x \in DOMAIN Rolled(id) : With(states, Rolled(id))[x] = Rolled(id)[x]
          /\ \A x \in DOMAIN states \ DOMAIN Rolled(id) :
               With(states, Rolled(id))[x] = states[x]
      BY <2>1, <2>2, WithType
    <2> QED
      BY <1>1, <2>3
  <1>5. \A x \in ScopeKeys(IpOf[id]) :
          /\ Rolled(id)[x].active = StateOf(x).active
          /\ \A p \in Periods :
               \/ Rolled(id)[x].requests[p] = 0
               \/ /\ Rolled(id)[x].window[p] = StateOf(x).window[p]
                  /\ Rolled(id)[x].requests[p] = StateOf(x).requests[p]
    BY <1>1, RolledType
  <1> QED
    BY <1>2, <1>4, <1>5 DEF TypeOK

LEMMA ReleaseStates ==
  ASSUME TypeOK, NEW id \in Ids, NEW up \in Uploads, NEW down \in Downloads,
         Release(id, up, down)
  PROVE  /\ DOMAIN states' = DOMAIN states
         /\ states' \in [DOMAIN states' -> States]
         /\ \A x \in DOMAIN states \ lease[id] : states'[x] = states[x]
         /\ \A x \in DOMAIN states \intersect lease[id] :
              /\ states'[x].active = IF states[x].active > 0 THEN states[x].active - 1 ELSE 0
              /\ \A p \in Periods :
                   \/ states'[x].requests[p] = 0
                   \/ /\ states'[x].window[p] = states[x].window[p]
                      /\ states'[x].requests[p] = states[x].requests[p]
  <1>1. stamp[id] \in Int /\ up \in Int /\ down \in Int /\ now \in Nat
    BY SizeAssumption DEF Release, TypeOK
  <1>2. ASSUME NEW x \in DOMAIN states, NEW r, r = Released(states[x], stamp[id], up, down)
        PROVE  /\ r \in States
               /\ r.active = IF states[x].active > 0 THEN states[x].active - 1 ELSE 0
               /\ \A p \in Periods :
                    \/ r.requests[p] = 0
                    \/ /\ r.window[p] = states[x].window[p]
                       /\ r.requests[p] = states[x].requests[p]
    <2>1. states[x] \in States
      BY DEF TypeOK
    <2>2. /\ r \in States
          /\ r.active = IF states[x].active > 0 THEN states[x].active - 1 ELSE 0
          /\ \A p \in Periods :
               /\ r.window[p] = Window(p, stamp[id])
               /\ \/ r.requests[p] = 0
                  \/ /\ states[x].window[p] = Window(p, stamp[id])
                     /\ r.requests[p] = states[x].requests[p]
      BY <1>1, <1>2, <2>1, ReleasedState
    <2> QED
      BY <2>2
  <1>3. states' = [x \in DOMAIN states |->
                    IF x \in lease[id] THEN Released(states[x], stamp[id], up, down)
                    ELSE states[x]]
    BY DEF Release
  <1>4. \A x \in DOMAIN states : states[x] \in States
    BY DEF TypeOK
  <1> QED
    BY <1>2, <1>3, <1>4

LEMMA TypeInit == Init => TypeOK
  BY KeyAssumption, PeriodAssumption DEF Init, TypeOK, Times, Never

LEMMA TypeStep == TypeOK /\ [Next]_vars => TypeOK'
  <1> SUFFICES ASSUME TypeOK, [Next]_vars PROVE TypeOK'
    OBVIOUS
  <1> USE DEF TypeOK, Times
  <1>1. CASE Tick
    BY <1>1 DEF Tick
  <1>2. ASSUME NEW s \in SettingsChoices, UpdateSettings(s) PROVE TypeOK'
    BY <1>2 DEF UpdateSettings
  <1>3. ASSUME NEW id \in Ids, ReadClock(id) PROVE TypeOK'
    BY <1>3 DEF ReadClock
  <1>4. ASSUME NEW id \in Ids, NEW hint \in Uploads, AcquireRejected(id, hint)
        PROVE  TypeOK'
    <2> USE DEF AcquireRejected
    <2>1. /\ DOMAIN states' \subseteq Keys
          /\ states' \in [DOMAIN states' -> States]
      BY <1>4, RejectStates
    <2>2. PICK scope \in {"ip", "subnet"} :
            violations' =
              RecordViolation([ip |-> IpOf[id], scope |-> scope, time |-> stamp[id]])
      BY <1>4, Zenon
    <2>3. [ip |-> IpOf[id], scope |-> scope, time |-> stamp[id]]
            \in [ip : IPs, scope : {"ip", "subnet"}, time : Times]
      BY KeyAssumption
    <2>4. /\ violations' \in Seq([ip : IPs, scope : {"ip", "subnet"}, time : Times])
          /\ Len(violations') <= ViolationLimit
      BY <2>2, <2>3, ViolationType
    <2>5. /\ phase[id] = "stamped"
          /\ phase' = [phase EXCEPT ![id] = "rejected"]
          /\ UNCHANGED <<settings, stamp, lease, now>>
      BY <1>4
    <2> QED
      BY <2>1, <2>4, <2>5
  <1>5. ASSUME NEW id \in Ids, NEW hint \in Uploads, AcquireGranted(id, hint)
        PROVE  TypeOK'
    <2>1. /\ DOMAIN states' \subseteq Keys
          /\ states' \in [DOMAIN states' -> States]
      BY <1>5, GrantStates
    <2>2. ScopeKeys(IpOf[id]) \subseteq Keys
      BY KeyAssumption, ScopeType
    <2>3. /\ phase[id] = "stamped"
          /\ phase' = [phase EXCEPT ![id] = "held"]
          /\ lease' = [lease EXCEPT ![id] = ScopeKeys(IpOf[id])]
          /\ UNCHANGED <<settings, violations, stamp, now>>
      BY <1>5 DEF AcquireGranted
    <2> QED
      BY <2>1, <2>2, <2>3
  <1>6. ASSUME NEW id \in Ids, NEW up \in Uploads, NEW down \in Downloads,
               Release(id, up, down)
        PROVE  TypeOK'
    <2>1. /\ DOMAIN states' = DOMAIN states
          /\ states' \in [DOMAIN states' -> States]
      BY <1>6, ReleaseStates
    <2>2. /\ phase[id] = "held"
          /\ phase' = [phase EXCEPT ![id] = "released"]
          /\ UNCHANGED <<settings, violations, stamp, lease, now>>
      BY <1>6 DEF Release
    <2> QED
      BY <2>1, <2>2
  <1>7. CASE UNCHANGED vars
    BY <1>7 DEF vars
  <1> QED
    BY <1>1, <1>2, <1>3, <1>4, <1>5, <1>6, <1>7 DEF Next

(* Every reachable state of the limiter is well typed: the list of violations
   stays within its limit and every request past ReadClock has a time. *)
THEOREM TypeCorrect == Spec => []TypeOK
  BY TypeInit, TypeStep, PTL DEF Spec

(***************************************************************************)
(* The active count.                                                       *)
(***************************************************************************)
LEMMA HoldersFinite == \A x : IsFiniteSet(Holders(x))
  <1>1. \A x : Holders(x) \subseteq Ids
    BY DEF Holders
  <1> QED
    BY <1>1, KeyAssumption, FS_Subset

LEMMA ActiveInit == Init => ActiveExact
  <1> SUFFICES ASSUME Init PROVE ActiveExact
    OBVIOUS
  <1>1. \A x : Holders(x) = {}
    BY DEF Init, Holders
  <1>2. \A x : x \notin DOMAIN states
    BY DEF Init
  <1> QED
    BY <1>1, <1>2, FS_EmptySet DEF ActiveExact

ActiveOf(x) == IF x \in DOMAIN states THEN states[x].active ELSE 0

LEMMA ActiveOfState == \A x : ActiveOf(x) = StateOf(x).active
  BY DEF ActiveOf, StateOf, NewState

(* A step that changes neither the leases out nor what the keys count *)
LEMMA ActiveSame ==
  ASSUME ActiveExact, \A x : Holders(x)' = Holders(x), \A x : ActiveOf(x)' = ActiveOf(x)
  PROVE  ActiveExact'
  BY DEF ActiveExact, ActiveOf

LEMMA ActiveGrant ==
  ASSUME TypeOK, ActiveExact, NEW id \in Ids, NEW hint \in Uploads, AcquireGranted(id, hint)
  PROVE  ActiveExact'
  <1>1. /\ phase[id] = "stamped"
        /\ phase' = [phase EXCEPT ![id] = "held"]
        /\ lease' = [lease EXCEPT ![id] = ScopeKeys(IpOf[id])]
    BY DEF AcquireGranted
  <1>2. ASSUME NEW x \in Keys, x \in ScopeKeys(IpOf[id])
        PROVE  Cardinality(Holders(x)') = ActiveOf(x)'
    <2>1. Holders(x)' = Holders(x) \union {id} /\ id \notin Holders(x)
      BY <1>1, <1>2 DEF Holders, TypeOK
    <2>2. Cardinality(Holders(x)') = Cardinality(Holders(x)) + 1
      BY <2>1, HoldersFinite, FS_AddElement
    <2>3. x \in DOMAIN states' /\ states'[x].active = ActiveOf(x) + 1
      BY <1>2, GrantStates, ActiveOfState
    <2> QED
      BY <2>2, <2>3 DEF ActiveExact, ActiveOf
  <1>3. ASSUME NEW x \in Keys, x \notin ScopeKeys(IpOf[id])
        PROVE  Cardinality(Holders(x)') = ActiveOf(x)'
    <2>1. Holders(x)' = Holders(x)
      BY <1>1, <1>3 DEF Holders, TypeOK
    <2>2. ActiveOf(x)' = ActiveOf(x)
      BY <1>3, GrantStates DEF ActiveOf
    <2> QED
      BY <2>1, <2>2 DEF ActiveExact, ActiveOf
  <1> QED
    BY <1>2, <1>3 DEF ActiveExact, ActiveOf

LEMMA ActiveRelease ==
  ASSUME TypeOK, ActiveExact, NEW id \in Ids, NEW up \in Uploads, NEW down \in Downloads,
         Release(id, up, down)
  PROVE  ActiveExact'
  <1>1. /\ phase[id] = "held"
        /\ phase' = [phase EXCEPT ![id] = "released"]
        /\ lease' = lease
    BY DEF Release
  <1>2. ASSUME NEW x \in Keys, x \in lease[id]
        PROVE  Cardinality(Holders(x)') = ActiveOf(x)'
    <2>1. Holders(x)' = Holders(x) \ {id} /\ id \in Holders(x)
      BY <1>1, <1>2 DEF Holders, TypeOK
    <2>2. Cardinality(Holders(x)') = Cardinality(Holders(x)) - 1
      BY <2>1, HoldersFinite, FS_RemoveElement
    <2>3. Cardinality(Holders(x)) \in Nat /\ Cardinality(Holders(x)) # 0
      BY <2>1, HoldersFinite, FS_CardinalityType, FS_EmptySet
    <2>4. x \in DOMAIN states /\ states[x].active = Cardinality(Holders(x))
      BY <2>3 DEF ActiveExact
    <2>5. x \in DOMAIN states' /\ states'[x].active = states[x].active - 1
      BY <1>2, <2>3, <2>4, ReleaseStates
    <2> QED
      BY <2>2, <2>4, <2>5 DEF ActiveOf
  <1>3. ASSUME NEW x \in Keys, x \notin lease[id]
        PROVE  Cardinality(Holders(x)') = ActiveOf(x)'
    <2>1. Holders(x)' = Holders(x)
      BY <1>1, <1>3 DEF Holders, TypeOK
    <2>2. ActiveOf(x)' = ActiveOf(x)
      BY <1>3, ReleaseStates DEF ActiveOf
    <2> QED
      BY <2>1, <2>2 DEF ActiveExact, ActiveOf
  <1> QED
    BY <1>2, <1>3 DEF ActiveExact, ActiveOf

LEMMA ActiveStep == TypeOK /\ ActiveExact /\ [Next]_vars => ActiveExact'
  <1> SUFFICES ASSUME TypeOK, ActiveExact, [Next]_vars PROVE ActiveExact'
    OBVIOUS
  <1>1. CASE Tick \/ (\E s \in SettingsChoices : UpdateSettings(s)) \/ UNCHANGED vars
    <2>1. UNCHANGED <<states, phase, lease>>
      BY <1>1 DEF Tick, UpdateSettings, vars
    <2> QED
      BY <2>1, ActiveSame DEF Holders, ActiveOf
  <1>2. ASSUME NEW id \in Ids, ReadClock(id) PROVE ActiveExact'
    <2>1. /\ phase[id] = "idle" /\ phase' = [phase EXCEPT ![id] = "stamped"]
          /\ UNCHANGED <<states, lease>>
      BY <1>2 DEF ReadClock
    <2>2. \A x : Holders(x)' = Holders(x)
      BY <2>1 DEF Holders, TypeOK
    <2>3. \A x : ActiveOf(x)' = ActiveOf(x)
      BY <2>1 DEF ActiveOf
    <2> QED
      BY <2>2, <2>3, ActiveSame
  <1>3. ASSUME NEW id \in Ids, NEW hint \in Uploads, AcquireRejected(id, hint)
        PROVE  ActiveExact'
    <2>1. /\ phase[id] = "stamped" /\ phase' = [phase EXCEPT ![id] = "rejected"]
          /\ lease' = lease
      BY <1>3 DEF AcquireRejected
    <2>2. \A x : Holders(x)' = Holders(x)
      BY <2>1 DEF Holders, TypeOK
    <2>3. \A x : ActiveOf(x)' = ActiveOf(x)
      BY <1>3, RejectStates, ActiveOfState DEF ActiveOf
    <2> QED
      BY <2>2, <2>3, ActiveSame
  <1> QED
    BY <1>1, <1>2, <1>3, ActiveGrant, ActiveRelease DEF Next

(* Every key counts exactly the leases out on it, for any interleaving of
   requests, reloads and clean-ups: no connection is counted twice, leaked or
   forgotten. *)
THEOREM ActiveCorrect == Spec => []ActiveExact
  BY TypeInit, TypeStep, ActiveInit, ActiveStep, PTL DEF Spec

(* A grant finds every key of the request with room for one more lease. *)
THEOREM ConcurrencyRespected == Spec => GrantsWithinConcurrency
  <1> DEFINE Step == \A id \in Ids :
               (phase[id] = "stamped" /\ phase'[id] = "held" /\ settings.concurrent > 0) =>
                 \A x \in lease'[id] : Cardinality(Holders(x)') <= settings.concurrent
  <1>1. ASSUME TypeOK, ActiveExact', [Next]_vars
        PROVE  Step
    <2> SUFFICES ASSUME NEW id \in Ids, phase[id] = "stamped", phase'[id] = "held",
                        settings.concurrent > 0, NEW x \in lease'[id]
                 PROVE  Cardinality(Holders(x)') <= settings.concurrent
      OBVIOUS
    <2>1. \E hint \in Uploads : AcquireGranted(id, hint)
      BY <1>1 DEF Next, Tick, UpdateSettings, ReadClock, AcquireRejected, AcquireGranted, Release,
             vars, TypeOK
    <2>2. PICK hint \in Uploads : AcquireGranted(id, hint)
      BY <2>1
    <2>3. x \in ScopeKeys(IpOf[id]) /\ x \in Keys
      BY <1>1, <2>2, ScopeType, KeyAssumption DEF AcquireGranted, TypeOK
    <2>4. ~CheckViolation(Rolled(id)[x], hint)
      BY <2>2, <2>3 DEF AcquireGranted, Violates
    <2>5. /\ Rolled(id)[x].active = StateOf(x).active
          /\ StateOf(x).active \in Nat
      BY <1>1, <2>2, <2>3, RolledType, StateOfType DEF AcquireGranted, States
    <2>6. settings.concurrent \in Int
      BY <1>1, SettingsAssumption DEF TypeOK, Normalised
    <2>7. StateOf(x).active + 1 <= settings.concurrent
      BY <2>4, <2>5, <2>6 DEF CheckViolation, Exceeds
    <2>8. Cardinality(Holders(x)') = StateOf(x).active + 1
      BY <1>1, <2>2, <2>3, GrantStates DEF ActiveExact
    <2> QED
      BY <2>7, <2>8
  <1> QED
    BY <1>1, TypeCorrect, ActiveCorrect, PTL DEF Spec, GrantsWithinConcurrency

(***************************************************************************)
(* The request counts.                                                     *)
(***************************************************************************)
LEMMA GrantedInFinite ==
  \A x, p, w : /\ IsFiniteSet(GrantedIn(x, p, w))
              /\ Cardinality(GrantedIn(x, p, w)) \in Nat
  <1>1. \A x, p, w : GrantedIn(x, p, w) \subseteq Ids
    BY DEF GrantedIn
  <1> QED
    BY <1>1, KeyAssumption, FS_Subset, FS_CardinalityType

LEMMA CountsInit == Init => CountsAreGrants
  BY DEF Init, CountsAreGrants

(* Requests stay granted: a step never takes one out of GrantedIn. *)
LEMMA GrantsStay ==
  ASSUME TypeOK, [Next]_vars, NEW x, NEW p, NEW w
  PROVE  /\ GrantedIn(x, p, w) \subseteq GrantedIn(x, p, w)'
         /\ Cardinality(GrantedIn(x, p, w)) <= Cardinality(GrantedIn(x, p, w)')
  <1>1. ASSUME NEW i \in Ids, phase[i] \in {"held", "released"}
        PROVE  /\ phase'[i] \in {"held", "released"}
               /\ lease'[i] = lease[i] /\ stamp'[i] = stamp[i]
    BY <1>1 DEF Next, Tick, UpdateSettings, ReadClock, AcquireRejected, AcquireGranted, Release,
                vars, TypeOK
  <1>2. GrantedIn(x, p, w) \subseteq GrantedIn(x, p, w)'
    BY <1>1 DEF GrantedIn, Window
  <1>3. GrantedIn(x, p, w)' \subseteq Ids
    BY DEF GrantedIn
  <1>4. IsFiniteSet(GrantedIn(x, p, w)')
    BY <1>3, KeyAssumption, FS_Subset
  <1> QED
    BY <1>2, <1>4, FS_Subset

(* A count that is 0, or what it was in the same window w, has no excess. *)
LEMMA CountKept ==
  ASSUME TypeOK, CountsAreGrants, [Next]_vars, NEW x, NEW p \in Periods, NEW w, NEW count,
         \/ count = 0
         \/ /\ x \in DOMAIN states
            /\ w = states[x].window[p]
            /\ count = states[x].requests[p]
  PROVE  count <= Cardinality(GrantedIn(x, p, w)')
  <1>1. Cardinality(GrantedIn(x, p, w)) <= Cardinality(GrantedIn(x, p, w)')
    BY GrantsStay
  <1>2. Cardinality(GrantedIn(x, p, w)) \in Nat
    BY GrantedInFinite
  <1>3. GrantedIn(x, p, w)' \subseteq Ids
    BY DEF GrantedIn
  <1>4. Cardinality(GrantedIn(x, p, w)') \in Nat
    BY <1>3, KeyAssumption, FS_Subset, FS_CardinalityType
  <1>5. CASE count = 0
    BY <1>4, <1>5
  <1>6. CASE x \in DOMAIN states /\ w = states[x].window[p] /\ count = states[x].requests[p]
    <2>1. count <= Cardinality(GrantedIn(x, p, w)) /\ count \in Nat
      BY <1>6 DEF CountsAreGrants, TypeOK, States
    <2> QED
      BY <1>1, <1>2, <1>4, <2>1
  <1> QED
    BY <1>5, <1>6

LEMMA CountsStep == TypeOK /\ CountsAreGrants /\ [Next]_vars => CountsAreGrants'
  <1> SUFFICES ASSUME TypeOK, CountsAreGrants, [Next]_vars,
                      NEW x \in DOMAIN states', NEW p \in Periods, NEW w,
                      w = states'[x].window[p]
               PROVE  states'[x].requests[p] <= Cardinality(GrantedIn(x, p, w)')
    BY DEF CountsAreGrants
  <1> DEFINE Kept == \/ states'[x].requests[p] = 0
                     \/ /\ x \in DOMAIN states
                        /\ w = states[x].window[p]
                        /\ states'[x].requests[p] = states[x].requests[p]
  <1>0. ASSUME Kept
        PROVE  states'[x].requests[p] <= Cardinality(GrantedIn(x, p, w)')
    BY <1>0, CountKept
  <1>n. ASSUME NEW y, NEW q \in Periods, y \notin DOMAIN states
        PROVE  StateOf(y).requests[q] = 0 /\ StateOf(y).window[q] = Never
    BY <1>n DEF StateOf, NewState
  <1>1. CASE \/ Tick \/ (\E s \in SettingsChoices : UpdateSettings(s)) \/ UNCHANGED vars
             \/ (\E id \in Ids : ReadClock(id))
    <2>1. states' = states
      BY <1>1 DEF Tick, UpdateSettings, ReadClock, vars
    <2> QED
      BY <2>1, <1>0
  <1>2. ASSUME NEW id \in Ids, NEW hint \in Uploads, AcquireRejected(id, hint)
        PROVE  states'[x].requests[p] <= Cardinality(GrantedIn(x, p, w)')
    <2>1. CASE x \in ScopeKeys(IpOf[id]) /\ x \in DOMAIN states
      <3>1. StateOf(x) = states[x]
        BY <2>1 DEF StateOf
      <3> QED
        BY <1>0, <1>2, <2>1, <3>1, RejectStates
    <2>2. CASE x \in ScopeKeys(IpOf[id]) /\ x \notin DOMAIN states
      <3>1. states'[x].requests[p] \in {0, StateOf(x).requests[p]}
        BY <1>2, <2>2, RejectStates
      <3>2. states'[x].requests[p] = 0
        BY <1>n, <2>2, <3>1
      <3> QED
        BY <1>0, <3>2
    <2>3. CASE x \notin ScopeKeys(IpOf[id])
      <3>1. x \in DOMAIN states /\ states'[x] = states[x]
        BY <1>2, <2>3, RejectStates
      <3> QED
        BY <1>0, <3>1
    <2> QED
      BY <2>1, <2>2, <2>3
  <1>3. ASSUME NEW id \in Ids, NEW hint \in Uploads, AcquireGranted(id, hint)
        PROVE  states'[x].requests[p] <= Cardinality(GrantedIn(x, p, w)')
    <2>1. CASE x \in ScopeKeys(IpOf[id])
      <3>1. /\ w = Window(p, stamp[id])
            /\ \/ states'[x].requests[p] = 1
               \/ /\ StateOf(x).window[p] = w
                  /\ states'[x].requests[p] = StateOf(x).requests[p] + 1
        BY <1>3, <2>1, GrantStates
      <3>2. /\ id \notin GrantedIn(x, p, w)
            /\ id \in GrantedIn(x, p, w)'
        BY <1>3, <2>1, <3>1 DEF AcquireGranted, GrantedIn, TypeOK, Window
      <3>3. Cardinality(GrantedIn(x, p, w)') >= Cardinality(GrantedIn(x, p, w)) + 1
        <4>1. GrantedIn(x, p, w) \union {id} \subseteq GrantedIn(x, p, w)'
          BY <3>2, GrantsStay
        <4>2. GrantedIn(x, p, w)' \subseteq Ids
          BY DEF GrantedIn
        <4>3. IsFiniteSet(GrantedIn(x, p, w)')
          BY <4>2, KeyAssumption, FS_Subset
        <4>4. Cardinality(GrantedIn(x, p, w) \union {id}) = Cardinality(GrantedIn(x, p, w)) + 1
          BY <3>2, GrantedInFinite, FS_AddElement
        <4>5. /\ Cardinality(GrantedIn(x, p, w) \union {id})
                   <= Cardinality(GrantedIn(x, p, w)')
              /\ Cardinality(GrantedIn(x, p, w)') \in Nat
          BY <4>1, <4>3, FS_Subset, FS_CardinalityType
        <4> QED
          BY <4>4, <4>5, GrantedInFinite
      <3>4. Cardinality(GrantedIn(x, p, w)) \in Nat /\ Cardinality(GrantedIn(x, p, w)') \in Nat
        <4>1. GrantedIn(x, p, w)' \subseteq Ids
          BY DEF GrantedIn
        <4> QED
          BY <4>1, GrantedInFinite, KeyAssumption, FS_Subset, FS_CardinalityType
      <3>5. CASE states'[x].requests[p] = 1
        BY <3>3, <3>4, <3>5
      <3>6. CASE /\ StateOf(x).window[p] = w
                 /\ states'[x].requests[p] = StateOf(x).requests[p] + 1
        <4>1. StateOf(x).requests[p] \in Nat
          BY StateOfType DEF States
        <4>2. StateOf(x).requests[p] <= Cardinality(GrantedIn(x, p, w))
          <5>1. CASE x \in DOMAIN states
            BY <3>6, <5>1 DEF CountsAreGrants, StateOf
          <5>2. CASE x \notin DOMAIN states
            BY <1>n, <3>4, <5>2
          <5> QED
            BY <5>1, <5>2
        <4> QED
          BY <3>3, <3>4, <3>6, <4>1, <4>2
      <3> QED
        BY <3>1, <3>5, <3>6
    <2>2. CASE x \notin ScopeKeys(IpOf[id])
      <3>1. x \in DOMAIN states /\ states'[x] = states[x]
        BY <1>3, <2>2, GrantStates
      <3> QED
        BY <1>0, <3>1
    <2> QED
      BY <2>1, <2>2
  <1>4. ASSUME NEW id \in Ids, NEW up \in Uploads, NEW down \in Downloads,
               Release(id, up, down)
        PROVE  states'[x].requests[p] <= Cardinality(GrantedIn(x, p, w)')
    <2>1. x \in DOMAIN states
      BY <1>4, ReleaseStates
    <2>2. Kept
      BY <1>4, <2>1, ReleaseStates
    <2> QED
      BY <1>0, <2>2
  <1> QED
    BY <1>1, <1>2, <1>3, <1>4 DEF Next

(* Whatever order calls come in, however late, the count a request is measured
   against never exceeds the grants of its window: nobody is turned away for
   requests that were not granted. *)
THEOREM CountsCorrect == Spec => []CountsAreGrants
  BY TypeInit, TypeStep, CountsInit, CountsStep, PTL DEF Spec

-------------------------------------------------------------------------------
(* RateHistory: the limits on requests hold on every key that no call has worked on
   with a time of the past.  On such a key the count is exact, not only bounded as
   CountsAreGrants has it: the state's window is the newest in which anything was
   granted, and a key without a state has nothing granted in the present window,
   because the clean-up takes away only what that has left behind. *)

LEMMA WindowGrows ==
  ASSUME NEW p \in Periods, NEW t \in Int, NEW u \in Int, t <= u
  PROVE  Window(p, t) <= Window(p, u)
  BY PeriodAssumption, SMT DEF Window

LEMMA WindowPasses ==
  ASSUME NEW p \in Periods, NEW t \in Int, NEW u \in Int, t < u - Retention
  PROVE  Window(p, t) < Window(p, u)
  <1>1. Length[p] \in Nat \ {0} /\ Retention \in Nat /\ t + Length[p] <= u
    BY PeriodAssumption, RetentionAssumption
  <1> QED
    BY <1>1, SMT DEF Window

(* The requests granted to x *)
Grants(x) == {id \in Ids : phase[id] \in {"held", "released"} /\ x \in lease[id]}

(* A state of x that no call has taken back in time *)
ExactState(x, p) ==
  /\ states[x].window[p] <= Window(p, latest)
  /\ states[x].window[p] <= Window(p, states[x].lastSeen)
  /\ \A g \in Grants(x) : Window(p, stamp[g]) <= states[x].window[p]
  /\ states[x].requests[p] = Cardinality(GrantedIn(x, p, states[x].window[p]))

(* The grants of a key without a state are of earlier windows. *)
Forgotten(x, p) == \A g \in Grants(x) : Window(p, stamp[g]) < Window(p, latest)

ExactKey(x, p) ==
  IF x \in DOMAIN states THEN ExactState(x, p) ELSE Forgotten(x, p)

HistoryInv ==
  /\ latest \in Nat
  /\ \A id \in Ids : stamp[id] <= now
  /\ \A x \in Keys \ rewound, p \in Periods : ExactKey(x, p)

LEMMA HistoryStart == HistoryInit => HistoryInv
  BY DEF HistoryInit, Init, HistoryInv, ExactKey, Forgotten, Grants, Never

LEMMA LimiterStep == [HistoryNext]_historyVars => [Next]_vars
  BY DEF HistoryNext, historyVars, Next

LEMMA StampType ==
  ASSUME TypeOK, NEW id \in Ids
  PROVE  stamp[id] \in Int /\ \A p \in Periods : Window(p, stamp[id]) \in Int
  BY WindowType DEF TypeOK, Times, Never

(* What a call works with, on a key that it does not take back in time *)
LEMMA WorkedWindows ==
  ASSUME TypeOK, HistoryInv, NEW id \in Ids, stamp[id] \in Nat, NEW keys, Worked(id, keys)
  PROVE  /\ latest' \in Nat /\ latest <= latest' /\ stamp[id] <= latest'
         /\ rewound \subseteq rewound'
         /\ \A p \in Periods : Window(p, latest) <= Window(p, latest')
         /\ \A p \in Periods : Window(p, stamp[id]) <= Window(p, latest')
         /\ (\E x \in keys : x \notin rewound') =>
              \A p \in Periods : Window(p, stamp[id]) = Window(p, latest')
  <1>1. latest \in Nat
    BY DEF HistoryInv
  <1>2. /\ latest' \in Nat /\ latest <= latest' /\ stamp[id] <= latest'
        /\ rewound \subseteq rewound'
    BY <1>1 DEF Worked
  <1>3. \A p \in Periods : Window(p, latest) <= Window(p, latest')
    BY <1>1, <1>2, WindowGrows
  <1>4. \A p \in Periods : Window(p, stamp[id]) <= Window(p, latest')
    BY <1>2, WindowGrows
  <1>5. ASSUME NEW x \in keys, x \notin rewound', NEW p \in Periods
        PROVE  Window(p, stamp[id]) = Window(p, latest')
    <2>1. ~(Window(p, stamp[id]) < Window(p, latest))
      BY <1>5 DEF Worked
    <2>2. CASE latest' = stamp[id]
      BY <2>2
    <2>3. CASE latest' = latest
      BY <1>1, <1>4, <2>1, <2>3, WindowType
    <2> QED
      BY <2>2, <2>3 DEF Worked
  <1> QED
    BY <1>2, <1>3, <1>4, <1>5

(* A key whose state and grants stay as they are, or whose state the clean-up takes
   away, while the latest time goes on *)
LEMMA Untouched ==
  ASSUME TypeOK, NEW x \in Keys, NEW p \in Periods, ExactKey(x, p),
         latest \in Nat, latest' \in Nat, Window(p, latest) <= Window(p, latest'),
         Grants(x)' = Grants(x), \A g \in Grants(x) : stamp'[g] = stamp[g],
         IF x \in DOMAIN states'
         THEN x \in DOMAIN states /\ states'[x] = states[x]
         ELSE x \in DOMAIN states => Window(p, states[x].lastSeen) < Window(p, latest')
  PROVE  ExactKey(x, p)'
  <1>1. Window(p, latest) \in Int /\ Window(p, latest') \in Int
    BY WindowType
  <1>2. \A g \in Grants(x) :
          Window(p, stamp[g]) \in Int /\ Window(p, stamp'[g]) = Window(p, stamp[g])
    BY StampType DEF Grants
  <1>3. CASE x \in DOMAIN states'
    <2>1. x \in DOMAIN states /\ states'[x] = states[x] /\ states[x].window[p] \in Int
      BY <1>3 DEF TypeOK, States
    <2>2. \A w : GrantedIn(x, p, w)' = {g \in Grants(x)' : Window(p, stamp'[g]) = w}
      BY DEF GrantedIn, Grants, Window
    <2>3. \A w : GrantedIn(x, p, w) = {g \in Grants(x) : Window(p, stamp[g]) = w}
      BY DEF GrantedIn, Grants
    <2>4. \A w : GrantedIn(x, p, w)' = GrantedIn(x, p, w)
      BY <1>2, <2>2, <2>3
    <2>5. ExactState(x, p)
      BY <2>1 DEF ExactKey
    <2>6. ExactState(x, p)'
      BY <1>1, <1>2, <2>1, <2>4, <2>5 DEF ExactState, Window
    <2> QED
      BY <1>3, <2>6 DEF ExactKey
  <1>4. CASE x \notin DOMAIN states'
    <2>1. CASE x \in DOMAIN states
      <3>1. states[x].window[p] \in Int /\ states[x].lastSeen \in Int
        BY <2>1 DEF TypeOK, States, Times, Never
      <3>2. Window(p, states[x].lastSeen) \in Int
        BY <3>1, WindowType
      <3>3. ExactState(x, p)
        BY <2>1 DEF ExactKey
      <3>4. \A g \in Grants(x) : Window(p, stamp[g]) < Window(p, latest')
        BY <1>1, <1>2, <1>4, <2>1, <3>1, <3>2, <3>3 DEF ExactState
      <3> QED
        BY <1>2, <1>4, <3>4 DEF ExactKey, Forgotten, Window
    <2>2. CASE x \notin DOMAIN states
      <3>1. Forgotten(x, p)
        BY <2>2 DEF ExactKey
      <3>2. \A g \in Grants(x) : Window(p, stamp[g]) < Window(p, latest')
        BY <1>1, <1>2, <3>1 DEF Forgotten
      <3> QED
        BY <1>2, <1>4, <3>2 DEF ExactKey, Forgotten, Window
    <2> QED
      BY <2>1, <2>2
  <1> QED
    BY <1>3, <1>4

LEMMA RolledFields ==
  ASSUME NEW id \in Ids, NEW x \in ScopeKeys(IpOf[id]), NEW p \in Periods
  PROVE  /\ Rolled(id)[x].window[p] = Window(p, stamp[id])
         /\ Rolled(id)[x].lastSeen = stamp[id]
         /\ Rolled(id)[x].requests[p] =
              IF StateOf(x).window[p] # Window(p, stamp[id]) THEN 0 ELSE StateOf(x).requests[p]
  <1> DEFINE r == RollWindows(StateOf(x), stamp[id])
  <1>1. Rolled(id)[x] = Seen(r, stamp[id])
    BY DEF Rolled
  <1>2. /\ r.window[p] = Window(p, stamp[id])
        /\ r.requests[p] =
             IF StateOf(x).window[p] # Window(p, stamp[id]) THEN 0 ELSE StateOf(x).requests[p]
    BY DEF RollWindows
  <1> HIDE DEF r
  <1> QED
    BY <1>1, <1>2 DEF Seen

LEMMA NothingIn ==
  ASSUME TypeOK, NEW x \in Keys, NEW p \in Periods, NEW w \in Int,
         \A g \in Grants(x) : Window(p, stamp[g]) < w
  PROVE  Cardinality(GrantedIn(x, p, w)) = 0
  <1>1. \A g \in Grants(x) : Window(p, stamp[g]) \in Int
    BY StampType DEF Grants
  <1>2. GrantedIn(x, p, w) = {}
    BY <1>1 DEF GrantedIn, Grants
  <1> QED
    BY <1>2, FS_EmptySet

(* Acquire looks at exact counts. *)
LEMMA RolledExact ==
  ASSUME TypeOK, HistoryInv, NEW id \in Ids, phase[id] = "stamped",
         Worked(id, ScopeKeys(IpOf[id])),
         NEW x \in ScopeKeys(IpOf[id]), x \notin rewound', NEW p \in Periods
  PROVE  /\ Window(p, stamp[id]) = Window(p, latest')
         /\ Rolled(id)[x].window[p] = Window(p, stamp[id])
         /\ Rolled(id)[x].lastSeen = stamp[id]
         /\ Rolled(id)[x].requests[p] = Cardinality(GrantedWith(id, x, p))
         /\ \A g \in Grants(x) : Window(p, stamp[g]) <= Window(p, stamp[id])
  <1> DEFINE w == Window(p, stamp[id])
  <1>1. stamp[id] \in Nat /\ w \in Int
    BY StampType DEF TypeOK
  <1>2. /\ w = Window(p, latest') /\ Window(p, latest) <= w /\ Window(p, latest) \in Int
        /\ x \notin rewound
    BY <1>1, WorkedWindows, WindowType DEF HistoryInv
  <1>3. x \in Keys
    BY ScopeType, KeyAssumption
  <1>4. ExactKey(x, p)
    BY <1>2, <1>3 DEF HistoryInv
  <1>5. \A g \in Grants(x) : Window(p, stamp[g]) \in Int
    BY StampType DEF Grants
  <1>6. CASE x \in DOMAIN states
    <2>1. ExactState(x, p) /\ StateOf(x) = states[x] /\ states[x].window[p] \in Int
      BY <1>4, <1>6 DEF ExactKey, StateOf, TypeOK, States
    <2>2. states[x].window[p] <= w /\ \A g \in Grants(x) : Window(p, stamp[g]) <= w
      BY <1>1, <1>2, <1>5, <2>1 DEF ExactState
    <2>3. CASE states[x].window[p] = w
      BY <1>2, <2>1, <2>2, <2>3, RolledFields DEF ExactState, GrantedWith
    <2>4. CASE states[x].window[p] # w
      <3>1. \A g \in Grants(x) : Window(p, stamp[g]) < w
        BY <1>1, <1>5, <2>1, <2>2, <2>4 DEF ExactState
      <3>2. Cardinality(GrantedIn(x, p, w)) = 0
        BY <1>1, <1>3, <3>1, NothingIn
      <3> QED
        BY <1>2, <2>1, <2>2, <2>4, <3>2, RolledFields DEF GrantedWith
    <2> QED
      BY <2>3, <2>4
  <1>7. CASE x \notin DOMAIN states
    <2>1. Forgotten(x, p) /\ StateOf(x).requests[p] = 0
      BY <1>4, <1>7 DEF ExactKey, StateOf, NewState
    <2>2. \A g \in Grants(x) : Window(p, stamp[g]) < w
      BY <1>1, <1>2, <1>5, <2>1 DEF Forgotten
    <2>3. Cardinality(GrantedIn(x, p, w)) = 0
      BY <1>1, <1>3, <2>2, NothingIn
    <2>4. \A g \in Grants(x) : Window(p, stamp[g]) <= w
      BY <1>1, <1>5, <2>2
    <2> QED
      BY <1>2, <2>1, <2>3, <2>4, RolledFields DEF GrantedWith
  <1> QED
    BY <1>6, <1>7

(* The keys of a request that is rejected *)
LEMMA RejectKey ==
  ASSUME TypeOK, HistoryInv, NEW id \in Ids, NEW hint \in Uploads,
         AcquireRejected(id, hint), Worked(id, ScopeKeys(IpOf[id])),
         NEW x \in ScopeKeys(IpOf[id]), x \notin rewound', NEW p \in Periods
  PROVE  ExactKey(x, p)'
  <1>1. /\ phase[id] = "stamped" /\ states' = With(states, Rolled(id))
        /\ stamp' = stamp /\ lease' = lease /\ phase' = [phase EXCEPT ![id] = "rejected"]
    BY DEF AcquireRejected
  <1>2. x \in DOMAIN states' /\ states'[x] = Rolled(id)[x]
    BY <1>1 DEF With, Rolled
  <1>3. Grants(x)' = Grants(x)
    BY <1>1 DEF Grants, TypeOK
  <1>4. \A w : GrantedIn(x, p, w)' = GrantedIn(x, p, w)
    BY <1>1 DEF GrantedIn, TypeOK, Window
  <1>5. stamp[id] \in Int /\ Window(p, stamp[id]) \in Int
    BY StampType
  <1>6. ExactState(x, p)'
    BY <1>1, <1>2, <1>3, <1>4, <1>5, RolledExact DEF ExactState, GrantedWith, Window
  <1> QED
    BY <1>2, <1>6 DEF ExactKey

(* A grant adds one request to those granted in its window. *)
LEMMA OneGrantMore ==
  ASSUME TypeOK, NEW id \in Ids, NEW hint \in Uploads, AcquireGranted(id, hint),
         NEW x \in ScopeKeys(IpOf[id]), NEW p \in Periods
  PROVE  /\ Grants(x)' = Grants(x) \union {id}
         /\ Cardinality(GrantedWith(id, x, p)') = Cardinality(GrantedWith(id, x, p)) + 1
  <1>1. /\ phase[id] = "stamped" /\ stamp' = stamp
        /\ lease' = [lease EXCEPT ![id] = ScopeKeys(IpOf[id])]
        /\ phase' = [phase EXCEPT ![id] = "held"]
    BY DEF AcquireGranted
  <1>2. Grants(x)' = Grants(x) \union {id}
    BY <1>1 DEF Grants, TypeOK
  <1>3. id \notin GrantedWith(id, x, p)
    BY <1>1 DEF GrantedWith, GrantedIn
  <1>4. GrantedWith(id, x, p)' = GrantedWith(id, x, p) \union {id}
    BY <1>1 DEF GrantedWith, GrantedIn, TypeOK, Window
  <1>5. IsFiniteSet(GrantedWith(id, x, p))
    BY GrantedInFinite DEF GrantedWith
  <1> QED
    BY <1>2, <1>3, <1>4, <1>5, FS_AddElement

(* The keys of a request that is granted *)
LEMMA GrantKey ==
  ASSUME TypeOK, HistoryInv, NEW id \in Ids, NEW hint \in Uploads,
         AcquireGranted(id, hint), Worked(id, ScopeKeys(IpOf[id])),
         NEW x \in ScopeKeys(IpOf[id]), x \notin rewound', NEW p \in Periods
  PROVE  ExactKey(x, p)'
  <1>1. phase[id] = "stamped" /\ stamp' = stamp
    BY DEF AcquireGranted
  <1>2. x \in DOMAIN states' /\ states'[x] = Granted(Rolled(id)[x])
    BY GrantStates
  <1>3. /\ states'[x].window = Rolled(id)[x].window
        /\ states'[x].lastSeen = Rolled(id)[x].lastSeen
        /\ states'[x].requests[p] = Rolled(id)[x].requests[p] + 1
    BY <1>2 DEF Granted
  <1>4. stamp[id] \in Int /\ Window(p, stamp[id]) \in Int
    BY StampType
  <1>5. \A g \in Grants(x)' : Window(p, stamp[g]) <= Window(p, stamp[id])
    BY <1>1, <1>4, OneGrantMore, RolledExact
  <1>6. states'[x].requests[p] = Cardinality(GrantedIn(x, p, Window(p, stamp[id]))')
    BY <1>1, <1>3, OneGrantMore, RolledExact DEF GrantedWith, Window
  <1>7. ExactState(x, p)'
    BY <1>1, <1>3, <1>4, <1>5, <1>6, RolledExact DEF ExactState, Window
  <1> QED
    BY <1>2, <1>7 DEF ExactKey

(* The keys of a lease that is returned *)
LEMMA ReleaseKey ==
  ASSUME TypeOK, HistoryInv, NEW id \in Ids, NEW up \in Uploads, NEW down \in Downloads,
         Release(id, up, down), Worked(id, lease[id]),
         NEW x \in lease[id] \intersect DOMAIN states, x \notin rewound', NEW p \in Periods
  PROVE  ExactKey(x, p)'
  <1> DEFINE w == Window(p, stamp[id])
  <1>1. /\ phase[id] = "held" /\ stamp' = stamp /\ lease' = lease /\ now' = now
        /\ phase' = [phase EXCEPT ![id] = "released"]
        /\ x \in DOMAIN states' /\ states'[x] = Released(states[x], stamp[id], up, down)
    BY DEF Release
  <1>2. stamp[id] \in Nat /\ w \in Int
    BY <1>1, StampType DEF TypeOK
  <1>3. w = Window(p, latest') /\ Window(p, latest) <= w /\ x \notin rewound
    BY <1>2, WorkedWindows
  <1>4. x \in Keys /\ states[x].window[p] \in Int /\ Window(p, latest) \in Int
    BY WindowType DEF TypeOK, States, HistoryInv
  <1>5. ExactState(x, p)
    BY <1>3, <1>4 DEF HistoryInv, ExactKey
  (* The request itself was granted in its window. *)
  <1>6. w = states[x].window[p]
    <2>1. id \in Grants(x)
      BY <1>1 DEF Grants
    <2> QED
      BY <1>2, <1>3, <1>4, <1>5, <2>1 DEF ExactState
  <1>7. /\ states'[x].window[p] = w
        /\ states'[x].requests[p] = states[x].requests[p]
        /\ states'[x].lastSeen = now
    BY <1>1, <1>6 DEF Released, RollWindows
  <1>8. w <= Window(p, now)
    BY <1>2, WindowGrows DEF HistoryInv, TypeOK
  <1>9. Grants(x)' = Grants(x)
    BY <1>1 DEF Grants, TypeOK
  <1>10. GrantedIn(x, p, w)' = GrantedIn(x, p, w)
    BY <1>1 DEF GrantedIn, TypeOK, Window
  <1>11. ExactState(x, p)'
    BY <1>1, <1>2, <1>3, <1>5, <1>6, <1>7, <1>8, <1>9, <1>10 DEF ExactState, Window
  <1> QED
    BY <1>1, <1>11 DEF ExactKey

(* A step that works on no key *)
LEMMA QuietStep ==
  ASSUME TypeOK, HistoryInv, UNCHANGED <<states, lease, latest, rewound>>,
         \A x \in Keys : Grants(x)' = Grants(x) /\ \A g \in Grants(x) : stamp'[g] = stamp[g],
         \A id \in Ids : stamp'[id] <= now'
  PROVE  HistoryInv'
  <1> SUFFICES ASSUME NEW x \in Keys \ rewound, NEW p \in Periods
               PROVE  ExactKey(x, p)'
    BY DEF HistoryInv
  <1>1. ExactKey(x, p) /\ latest \in Nat /\ latest' = latest
    BY DEF HistoryInv
  <1>2. Window(p, latest) <= Window(p, latest')
    BY <1>1, WindowType
  <1>3. x \in DOMAIN states' => x \in DOMAIN states /\ states'[x] = states[x]
    OBVIOUS
  <1> QED
    BY <1>1, <1>2, <1>3, Untouched

(* A call works on some keys; the others keep their states, or lose one that the
   clean-up finds left behind. *)
LEMMA WorkStep ==
  ASSUME TypeOK, HistoryInv, NEW id \in Ids, stamp[id] \in Nat, NEW keys, Worked(id, keys),
         stamp' = stamp, now' = now,
         NEW touched \in SUBSET keys,
         \A x \in touched \ rewound', p \in Periods : ExactKey(x, p)',
         \A x \in Keys \ touched : Grants(x)' = Grants(x),
         \A x \in Keys \ touched :
           IF x \in DOMAIN states' THEN x \in DOMAIN states /\ states'[x] = states[x]
           ELSE x \in DOMAIN states => states[x].lastSeen < stamp[id] - Retention
  PROVE  HistoryInv'
  <1>1. /\ latest \in Nat /\ latest' \in Nat /\ rewound \subseteq rewound'
        /\ \A p \in Periods : /\ Window(p, latest) <= Window(p, latest')
                              /\ Window(p, stamp[id]) <= Window(p, latest')
    BY WorkedWindows DEF HistoryInv
  <1>2. \A i \in Ids : stamp'[i] <= now'
    BY DEF HistoryInv
  <1>3. ASSUME NEW x \in Keys \ rewound', NEW p \in Periods, x \notin touched
        PROVE  ExactKey(x, p)'
    <2>1. ExactKey(x, p)
      BY <1>1 DEF HistoryInv
    <2>2. ASSUME x \notin DOMAIN states', x \in DOMAIN states
          PROVE  Window(p, states[x].lastSeen) < Window(p, latest')
      <3>1. states[x].lastSeen \in Int
        BY <2>2 DEF TypeOK, States, Times, Never
      <3>2. states[x].lastSeen < stamp[id] - Retention
        BY <1>3, <2>2
      <3>3. Window(p, states[x].lastSeen) < Window(p, stamp[id])
        BY <3>1, <3>2, WindowPasses
      <3> QED
        BY <1>1, <3>1, <3>3, WindowType
    <2>3. x \in DOMAIN states' => x \in DOMAIN states /\ states'[x] = states[x]
      BY <1>3
    <2>4. Grants(x)' = Grants(x) /\ \A g \in Grants(x) : stamp'[g] = stamp[g]
      BY <1>3
    <2> QED
      BY <1>1, <2>1, <2>2, <2>3, <2>4, Untouched
  <1> QED
    BY <1>1, <1>2, <1>3 DEF HistoryInv

LEMMA HistoryStep == TypeOK /\ HistoryInv /\ [HistoryNext]_historyVars => HistoryInv'
  <1> SUFFICES ASSUME TypeOK, HistoryInv, [HistoryNext]_historyVars
               PROVE  HistoryInv'
    OBVIOUS
  <1>1. CASE /\ Tick \/ \E s \in SettingsChoices : UpdateSettings(s)
             /\ UNCHANGED <<latest, rewound>>
    <2>1. UNCHANGED <<states, lease, latest, rewound, phase, stamp>> /\ now <= now'
      BY <1>1 DEF Tick, UpdateSettings, TypeOK
    <2>2. \A x \in Keys : Grants(x)' = Grants(x)
      BY <2>1 DEF Grants
    <2>3. \A id \in Ids : stamp'[id] <= now'
      BY <1>1, <2>1, StampType DEF HistoryInv, TypeOK, Tick, UpdateSettings
    <2> QED
      BY <2>1, <2>2, <2>3, QuietStep
  <1>2. ASSUME NEW id \in Ids, ReadClock(id), UNCHANGED <<latest, rewound>>
        PROVE  HistoryInv'
    <2>1. /\ UNCHANGED <<states, lease, latest, rewound, now>> /\ phase[id] = "idle"
          /\ phase' = [phase EXCEPT ![id] = "stamped"] /\ stamp' = [stamp EXCEPT ![id] = now]
      BY <1>2 DEF ReadClock
    <2>2. \A x \in Keys : Grants(x)' = Grants(x) /\ \A g \in Grants(x) : stamp'[g] = stamp[g]
      BY <2>1 DEF Grants, TypeOK
    <2>3. \A i \in Ids : stamp'[i] <= now'
      BY <2>1 DEF HistoryInv, TypeOK
    <2> QED
      BY <2>1, <2>2, <2>3, QuietStep
  <1>3. ASSUME NEW id \in Ids, NEW hint \in Uploads, AcquireRejected(id, hint),
               Worked(id, ScopeKeys(IpOf[id]))
        PROVE  HistoryInv'
    <2>1. /\ phase[id] = "stamped" /\ UNCHANGED <<stamp, lease, now>>
          /\ phase' = [phase EXCEPT ![id] = "rejected"]
      BY <1>3 DEF AcquireRejected
    <2>2. stamp[id] \in Nat
      BY <2>1 DEF TypeOK
    <2>3. \A x \in Keys : Grants(x)' = Grants(x)
      BY <2>1 DEF Grants, TypeOK
    <2>4. \A x \in ScopeKeys(IpOf[id]) \ rewound', p \in Periods : ExactKey(x, p)'
      BY <1>3, RejectKey
    <2>5. \A x \in Keys \ ScopeKeys(IpOf[id]) :
            IF x \in DOMAIN states' THEN x \in DOMAIN states /\ states'[x] = states[x]
            ELSE x \notin DOMAIN states
      BY <1>3, RejectStates
    <2> QED
      BY <1>3, <2>1, <2>2, <2>3, <2>4, <2>5, WorkStep
  <1>4. ASSUME NEW id \in Ids, NEW hint \in Uploads, AcquireGranted(id, hint),
               Worked(id, ScopeKeys(IpOf[id]))
        PROVE  HistoryInv'
    <2>1. /\ phase[id] = "stamped" /\ UNCHANGED <<stamp, now>>
          /\ phase' = [phase EXCEPT ![id] = "held"]
          /\ lease' = [lease EXCEPT ![id] = ScopeKeys(IpOf[id])]
      BY <1>4 DEF AcquireGranted
    <2>2. stamp[id] \in Nat
      BY <2>1 DEF TypeOK
    <2>3. \A x \in Keys \ ScopeKeys(IpOf[id]) : Grants(x)' = Grants(x)
      BY <2>1 DEF Grants, TypeOK
    <2>4. \A x \in ScopeKeys(IpOf[id]) \ rewound', p \in Periods : ExactKey(x, p)'
      BY <1>4, GrantKey
    <2>5. ASSUME NEW x \in Keys \ ScopeKeys(IpOf[id])
          PROVE  IF x \in DOMAIN states' THEN x \in DOMAIN states /\ states'[x] = states[x]
                 ELSE x \in DOMAIN states => states[x].lastSeen < stamp[id] - Retention
      <3>1. x \in DOMAIN states' => x \in DOMAIN states /\ states'[x] = states[x]
        BY <1>4, GrantStates
      <3>2. ASSUME x \notin DOMAIN states', x \in DOMAIN states
            PROVE  states[x].lastSeen < stamp[id] - Retention
        <4> DEFINE granted == [y \in ScopeKeys(IpOf[id]) |-> Granted(Rolled(id)[y])]
                   all == With(states, granted)
        <4>1. states' = Cleanup(all, stamp[id])
          BY <1>4 DEF AcquireGranted
        <4>2. x \in DOMAIN all /\ all[x] = states[x]
          BY <3>2 DEF With
        <4> HIDE DEF all
        <4> QED
          BY <3>2, <4>1, <4>2 DEF Cleanup, Idle
      <3> QED
        BY <3>1, <3>2
    <2> QED
      BY <1>4, <2>1, <2>2, <2>3, <2>4, <2>5, WorkStep
  <1>5. ASSUME NEW id \in Ids, NEW up \in Uploads, NEW down \in Downloads,
               Release(id, up, down), Worked(id, lease[id])
        PROVE  HistoryInv'
    <2>1. /\ phase[id] = "held" /\ UNCHANGED <<stamp, lease, now>>
          /\ phase' = [phase EXCEPT ![id] = "released"]
      BY <1>5 DEF Release
    <2>2. stamp[id] \in Nat
      BY <2>1 DEF TypeOK
    <2>3. \A x \in Keys : Grants(x)' = Grants(x)
      BY <2>1 DEF Grants, TypeOK
    <2> DEFINE touched == lease[id] \intersect DOMAIN states
    <2>4. \A x \in touched \ rewound', p \in Periods : ExactKey(x, p)'
      BY <1>5, ReleaseKey
    <2>5. \A x \in Keys \ touched :
            IF x \in DOMAIN states' THEN x \in DOMAIN states /\ states'[x] = states[x]
            ELSE x \notin DOMAIN states
      BY <1>5, ReleaseStates
    <2>6. touched \in SUBSET lease[id]
      OBVIOUS
    <2> HIDE DEF touched
    <2>7. /\ \A x \in Keys \ touched : Grants(x)' = Grants(x)
          /\ \A x \in Keys \ touched :
               IF x \in DOMAIN states' THEN x \in DOMAIN states /\ states'[x] = states[x]
               ELSE x \in DOMAIN states => states[x].lastSeen < stamp[id] - Retention
      BY <2>3, <2>5
    <2>8. Worked(id, lease[id]) /\ stamp' = stamp /\ now' = now
      BY <1>5, <2>1
    <2> QED
      BY <2>2, <2>4, <2>6, <2>7, <2>8, WorkStep
  <1>6. CASE UNCHANGED historyVars
    <2>1. /\ UNCHANGED states /\ UNCHANGED lease /\ UNCHANGED latest /\ UNCHANGED rewound
          /\ UNCHANGED phase /\ UNCHANGED stamp /\ UNCHANGED now
      BY <1>6 DEF historyVars, vars
    <2>2. \A x \in Keys : Grants(x)' = Grants(x)
      BY <2>1 DEF Grants
    <2>3. \A id \in Ids : stamp'[id] <= now'
      BY <2>1 DEF HistoryInv
    <2> QED
      BY <2>1, <2>2, <2>3, QuietStep
  <1> QED
    BY <1>1, <1>2, <1>3, <1>4, <1>5, <1>6 DEF HistoryNext

(* On a key that no call has taken back in time, the limiter's counts are exact. *)
THEOREM HistoryCorrect == HistorySpec => [](TypeOK /\ HistoryInv)
<1>1. HistoryInit => TypeOK /\ HistoryInv
  BY TypeInit, HistoryStart DEF HistoryInit
<1>2. TypeOK /\ HistoryInv /\ [HistoryNext]_historyVars => (TypeOK /\ HistoryInv)'
  BY LimiterStep, TypeStep, HistoryStep
<1> QED
  BY <1>1, <1>2, PTL DEF HistorySpec

(* No grant exceeds a limit on requests that is in force, in any window, on a key that
   no call has worked on with a time of the past. *)
THEOREM LimitsCorrect == HistorySpec => LimitHoldsUnlessRewound
  <1> DEFINE Step == \A id \in Ids : phase[id] = "stamped" /\ phase'[id] = "held" =>
               \A x \in lease'[id] \ rewound', p \in Periods : \A limit \in LimitsOf(p) :
                 limit > 0 => Cardinality(GrantedWith(id, x, p)') <= limit
  <1>1. ASSUME TypeOK, HistoryInv, [HistoryNext]_historyVars
        PROVE  Step
    <2> SUFFICES ASSUME NEW id \in Ids, phase[id] = "stamped", phase'[id] = "held",
                        NEW x \in lease'[id] \ rewound', NEW p \in Periods,
                        NEW limit \in LimitsOf(p), limit > 0
                 PROVE  Cardinality(GrantedWith(id, x, p)') <= limit
      OBVIOUS
    <2>1. PICK hint \in Uploads : AcquireGranted(id, hint) /\ Worked(id, ScopeKeys(IpOf[id]))
      <3>1. phase' # phase
        OBVIOUS
      <3>2. ASSUME NEW i \in Ids, phase' = [phase EXCEPT ![i] = "stamped"]
                     \/ phase' = [phase EXCEPT ![i] = "rejected"]
                     \/ phase' = [phase EXCEPT ![i] = "released"]
            PROVE  FALSE
        BY <1>1, <3>2 DEF TypeOK
      <3>3. \E i \in Ids, hint \in Uploads :
              AcquireGranted(i, hint) /\ Worked(i, ScopeKeys(IpOf[i]))
        BY <1>1, <3>1, <3>2 DEF HistoryNext, historyVars, vars, Tick, UpdateSettings,
           ReadClock, AcquireRejected, Release
      <3>4. PICK i \in Ids, hint \in Uploads :
              AcquireGranted(i, hint) /\ Worked(i, ScopeKeys(IpOf[i]))
        BY <3>3
      <3>5. i = id
        BY <1>1, <3>4 DEF AcquireGranted, TypeOK
      <3> QED
        BY <3>4, <3>5
    <2>2. x \in ScopeKeys(IpOf[id]) /\ ~Violates(id, hint)
      BY <1>1, <2>1 DEF AcquireGranted, TypeOK
    <2>3. ~CheckViolation(Rolled(id)[x], hint)
      BY <2>2 DEF Violates
    <2>4. ~Exceeds(Rolled(id)[x].requests[p] + 1, limit)
      BY <2>3 DEF CheckViolation, LimitsOf
    <2>5. limit \in Int
      BY <1>1, SettingsAssumption DEF LimitsOf, TypeOK, Normalised
    <2>6. /\ Rolled(id)[x].requests[p] = Cardinality(GrantedWith(id, x, p))
          /\ Cardinality(GrantedWith(id, x, p)') = Cardinality(GrantedWith(id, x, p)) + 1
      BY <1>1, <2>1, <2>2, RolledExact, OneGrantMore
    <2>7. Cardinality(GrantedWith(id, x, p)) \in Nat
      BY GrantedInFinite DEF GrantedWith
    <2> QED
      BY <2>4, <2>5, <2>6, <2>7 DEF Exceeds
  <1> QED
    BY <1>1, HistoryCorrect, PTL DEF HistorySpec, LimitHoldsUnlessRewound
===============================================================================
