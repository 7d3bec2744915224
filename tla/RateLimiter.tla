------------------------------ MODULE RateLimiter ------------------------------
(***************************************************************************)
(* The rate limiter (internal/repository/ratelimit_repo.go) and the        *)
(* requests that use it: RateLimitMiddleware reads the clock and calls     *)
(* Acquire, TelemetryMiddleware calls Release with the lease when the      *)
(* handlers return.  The mutex makes Acquire and Release one step each;    *)
(* the clock is read before the lock is taken, and a lease remembers that  *)
(* reading, so both may work with a time that has passed.                  *)
(*                                                                         *)
(* Time is an integer and a window of a period is a division of it.  The   *)
(* code keeps newConnections and the byte counts of a second, or the total *)
(* of a day, with a window of their own that always turns together with    *)
(* the request count of that period; here they share it, and               *)
(* newConnections, which is counted with secondRequests, is that count.    *)
(***************************************************************************)
EXTENDS Integers, Sequences, FiniteSets

CONSTANTS
  Ids,              \* requests
  IpOf,             \* request -> client IP
  IPs, Subnets,     \* the two kinds of keys
  SubnetOf,         \* mask -> IP -> its subnet, no subnet if the IP or the mask is bad
  Periods, Length,  \* second, minute, hour and day, and how long they are
  Second, Day,      \* the periods whose turn resets the byte counts
  Retention,        \* 24 * time.Hour
  ViolationLimit,   \* 200
  SettingsChoices,  \* settings the configuration may hold
  Uploads,          \* sizes of request bodies
  Downloads,        \* sizes Writer.Size() reports, -1 when nothing was written
  MaxNow            \* bound on the clock

Keys == IPs \union Subnets

ASSUME KeyAssumption ==
  /\ IsFiniteSet(Ids)
  /\ IPs \intersect Subnets = {}
  /\ IpOf \in [Ids -> IPs]
  /\ \A mask \in DOMAIN SubnetOf : SubnetOf[mask] \in [IPs -> SUBSET Subnets]

ASSUME PeriodAssumption ==
  /\ Second \in Periods /\ Day \in Periods
  /\ Length \in [Periods -> Nat \ {0}]
  /\ Retention \in Nat /\ ViolationLimit \in Nat

ASSUME SettingsAssumption ==
  /\ 24 \in DOMAIN SubnetOf
  /\ \A s \in SettingsChoices :
       /\ s.mask \in Int /\ (s.mask > 0 => s.mask \in DOMAIN SubnetOf)
       /\ s.limit \in [Periods -> Int] /\ s.perSecond \in Int /\ s.concurrent \in Int
       /\ s.upload \in Int /\ s.download \in Int /\ s.total \in Int

ASSUME SizeAssumption == Uploads \subseteq Nat /\ Downloads \subseteq Int

VARIABLES
  settings,
  states,      \* key -> state, for the keys the limiter knows
  violations,  \* newest first
  phase,       \* request -> "idle", "stamped", "held", "rejected" or "released"
  stamp,       \* request -> the clock reading it passes to Acquire
  lease,       \* request -> the keys of its lease
  now

vars == <<settings, states, violations, phase, stamp, lease, now>>

Never == -1   \* the zero time.Time, which lies in no window

Window(p, t) == t \div Length[p]

NewState ==
  [window |-> [p \in Periods |-> Never], requests |-> [p \in Periods |-> 0],
   uploaded |-> 0, downloaded |-> 0, total |-> 0, active |-> 0, lastSeen |-> Never]

StateOf(x) == IF x \in DOMAIN states THEN states[x] ELSE NewState

\* Faulty variant of RollWindows: the windows of a day and of a second turn together.
RollWithDay(st, t) ==
  LET Turned(p) == st.window[Second] # Window(Second, t)
  IN [window     |-> [p \in Periods |-> Window(p, t)],
      requests   |-> [p \in Periods |-> IF Turned(p) THEN 0 ELSE st.requests[p]],
      uploaded   |-> IF Turned(Second) THEN 0 ELSE st.uploaded,
      downloaded |-> IF Turned(Second) THEN 0 ELSE st.downloaded,
      total      |-> IF Turned(Day) THEN 0 ELSE st.total,
      active     |-> st.active,
      lastSeen   |-> st.lastSeen]

(* rollWindows: a count starts anew as soon as the time lies in another window
   than the count is for, be it a later or an earlier one. *)
RollWindows(st, t) ==
  LET Turned(p) == st.window[p] # Window(p, t)
  IN [window     |-> [p \in Periods |-> Window(p, t)],
      requests   |-> [p \in Periods |-> IF Turned(p) THEN 0 ELSE st.requests[p]],
      uploaded   |-> IF Turned(Second) THEN 0 ELSE st.uploaded,
      downloaded |-> IF Turned(Second) THEN 0 ELSE st.downloaded,
      total      |-> IF Turned(Day) THEN 0 ELSE st.total,
      active     |-> st.active,
      lastSeen   |-> st.lastSeen]

ScopeKeys(ip) == {ip} \union SubnetOf[settings.mask][ip]

Exceeds(next, limit) == limit > 0 /\ next > limit

\* Faulty variant of CheckViolation: the request itself is not among the active ones.
CheckWithoutItself(st, hint) ==
  \/ \E p \in Periods : Exceeds(st.requests[p] + 1, settings.limit[p])
  \/ Exceeds(st.requests[Second] + 1, settings.perSecond)
  \/ Exceeds(st.active, settings.concurrent)
  \/ hint > 0 /\ Exceeds(st.uploaded + hint, settings.upload)
  \/ settings.download > 0 /\ st.downloaded >= settings.download
  \/ hint > 0 /\ Exceeds(st.total + hint, settings.total)

(* The verdict of checkViolation on a rolled state; which limit it names is left
   out. *)
CheckViolation(st, hint) ==
  \/ \E p \in Periods : Exceeds(st.requests[p] + 1, settings.limit[p])
  \/ Exceeds(st.requests[Second] + 1, settings.perSecond)
  \/ Exceeds(st.active + 1, settings.concurrent)
  \/ hint > 0 /\ Exceeds(st.uploaded + hint, settings.upload)
  \/ settings.download > 0 /\ st.downloaded >= settings.download
  \/ hint > 0 /\ Exceeds(st.total + hint, settings.total)

Seen(st, t) ==
  [window |-> st.window, requests |-> st.requests, uploaded |-> st.uploaded,
   downloaded |-> st.downloaded, total |-> st.total, active |-> st.active,
   lastSeen |-> t]

Granted(st) ==
  [window |-> st.window, requests |-> [p \in Periods |-> st.requests[p] + 1],
   uploaded |-> st.uploaded, downloaded |-> st.downloaded, total |-> st.total,
   active |-> st.active + 1, lastSeen |-> st.lastSeen]

(* Release rolls the windows to the lease's time, which is not the present, and
   counts the bytes in whatever window that is. *)
Released(st, t, up, down) ==
  LET rolled == RollWindows(st, t)
  IN [window     |-> rolled.window,
      requests   |-> rolled.requests,
      uploaded   |-> rolled.uploaded + up,
      downloaded |-> rolled.downloaded + down,
      total      |-> rolled.total + up + down,
      active     |-> IF rolled.active > 0 THEN rolled.active - 1 ELSE 0,
      lastSeen   |-> now]

Idle(st, t) == st.active = 0 /\ st.lastSeen < t - Retention

(* cleanup, with t for its now *)
Cleanup(sts, t) == [x \in {y \in DOMAIN sts : ~Idle(sts[y], t)} |-> sts[x]]

With(sts, new) ==
  [x \in DOMAIN sts \union DOMAIN new |-> IF x \in DOMAIN new THEN new[x] ELSE sts[x]]

\* Faulty variant of RecordViolation: the list is not cut.
RecordEveryViolation(violation) == <<violation>> \o violations

RecordViolation(violation) ==
  SubSeq(<<violation>> \o violations, 1,
         IF Len(violations) < ViolationLimit THEN Len(violations) + 1 ELSE ViolationLimit)

Normalised(s) ==
  [limit |-> s.limit, perSecond |-> s.perSecond, concurrent |-> s.concurrent,
   upload |-> s.upload, download |-> s.download, total |-> s.total,
   mask |-> IF s.mask <= 0 THEN 24 ELSE s.mask]

-------------------------------------------------------------------------------
Init ==
  /\ settings \in {Normalised(s) : s \in SettingsChoices}
  /\ states = << >>
  /\ violations = << >>
  /\ phase = [id \in Ids |-> "idle"]
  /\ stamp = [id \in Ids |-> Never]
  /\ lease = [id \in Ids |-> {}]
  /\ now = 0

Tick ==
  /\ now < MaxNow
  /\ now' = now + 1
  /\ UNCHANGED <<settings, states, violations, phase, stamp, lease>>

UpdateSettings(s) ==
  /\ settings' = Normalised(s)
  /\ UNCHANGED <<states, violations, phase, stamp, lease, now>>

(* RateLimitMiddleware reads the clock to call Acquire with it. *)
ReadClock(id) ==
  /\ phase[id] = "idle"
  /\ phase' = [phase EXCEPT ![id] = "stamped"]
  /\ stamp' = [stamp EXCEPT ![id] = now]
  /\ UNCHANGED <<settings, states, violations, lease, now>>

(* The states of a request's keys when Acquire has rolled them, before it looks
   at any of them *)
Rolled(id) ==
  [x \in ScopeKeys(IpOf[id]) |-> Seen(RollWindows(StateOf(x), stamp[id]), stamp[id])]

Violates(id, hint) ==
  \E x \in ScopeKeys(IpOf[id]) : CheckViolation(Rolled(id)[x], hint)

\* Faulty variant of AcquireRejected: the request counts although it is rejected.
AcquireRejectedCounting(id, hint) ==
  /\ phase[id] = "stamped"
  /\ Violates(id, hint)
  /\ states' = With(states, [x \in ScopeKeys(IpOf[id]) |->
                              [Granted(Rolled(id)[x]) EXCEPT !.active = @ - 1]])
  /\ phase' = [phase EXCEPT ![id] = "rejected"]
  /\ UNCHANGED <<settings, violations, stamp, lease, now>>

AcquireRejected(id, hint) ==
  LET scope == IF CheckViolation(Rolled(id)[IpOf[id]], hint) THEN "ip" ELSE "subnet"
  IN /\ phase[id] = "stamped"
     /\ Violates(id, hint)
     /\ states' = With(states, Rolled(id))
     /\ violations' = RecordViolation([ip |-> IpOf[id], scope |-> scope, time |-> stamp[id]])
     /\ phase' = [phase EXCEPT ![id] = "rejected"]
     /\ UNCHANGED <<settings, stamp, lease, now>>

AcquireGranted(id, hint) ==
  LET keys == ScopeKeys(IpOf[id])
      granted == [x \in keys |-> Granted(Rolled(id)[x])]
  IN /\ phase[id] = "stamped"
     /\ ~Violates(id, hint)
     /\ states' = Cleanup(With(states, granted), stamp[id])
     /\ lease' = [lease EXCEPT ![id] = keys]
     /\ phase' = [phase EXCEPT ![id] = "held"]
     /\ UNCHANGED <<settings, violations, stamp, now>>

\* Faulty variant of Release: the keys are those of the present mask.
ReleaseScope(id, up, down) ==
  /\ phase[id] = "held"
  /\ states' = [x \in DOMAIN states |->
                  IF x \in ScopeKeys(IpOf[id]) THEN Released(states[x], stamp[id], up, down)
                  ELSE states[x]]
  /\ phase' = [phase EXCEPT ![id] = "released"]
  /\ UNCHANGED <<settings, violations, stamp, lease, now>>

Release(id, up, down) ==
  /\ phase[id] = "held"
  /\ states' = [x \in DOMAIN states |->
                  IF x \in lease[id] THEN Released(states[x], stamp[id], up, down)
                  ELSE states[x]]
  /\ phase' = [phase EXCEPT ![id] = "released"]
  /\ UNCHANGED <<settings, violations, stamp, lease, now>>

Next ==
  \/ Tick
  \/ \E s \in SettingsChoices : UpdateSettings(s)
  \/ \E id \in Ids : ReadClock(id)
  \/ \E id \in Ids, hint \in Uploads : AcquireRejected(id, hint)
  \/ \E id \in Ids, hint \in Uploads : AcquireGranted(id, hint)
  \/ \E id \in Ids, up \in Uploads, down \in Downloads : Release(id, up, down)

Spec == Init /\ [][Next]_vars

-------------------------------------------------------------------------------
Times == Nat \union {Never}

States ==
  [window : [Periods -> Int], requests : [Periods -> Nat],
   uploaded : Int, downloaded : Int, total : Int, active : Nat, lastSeen : Times]

(* The types of the limiter's fields and of what its callers hold: the violations
   stay within their limit, and a request that has called Acquire has a time. *)
TypeOK ==
  /\ settings \in {Normalised(s) : s \in SettingsChoices}
  /\ DOMAIN states \subseteq Keys
  /\ states \in [DOMAIN states -> States]
  /\ violations \in Seq([ip : IPs, scope : {"ip", "subnet"}, time : Times])
  /\ Len(violations) <= ViolationLimit
  /\ phase \in [Ids -> {"idle", "stamped", "held", "rejected", "released"}]
  /\ stamp \in [Ids -> Times]
  /\ \A id \in Ids : phase[id] # "idle" => stamp[id] \in Nat
  /\ lease \in [Ids -> SUBSET Keys]
  /\ now \in Nat

Holders(x) == {id \in Ids : phase[id] = "held" /\ x \in lease[id]}

(* What a key counts as active is exactly the leases out on it, whatever was
   rolled, cleaned up or reconfigured between their Acquire and Release; a key
   the limiter does not know has none. *)
ActiveExact ==
  \A x \in Keys :
    Cardinality(Holders(x)) = IF x \in DOMAIN states THEN states[x].active ELSE 0

(* No grant leaves a key with more leases out than the limit on concurrent
   connections in force. *)
GrantsWithinConcurrency ==
  [][\A id \in Ids :
       (phase[id] = "stamped" /\ phase'[id] = "held" /\ settings.concurrent > 0) =>
         \A x \in lease'[id] : Cardinality(Holders(x)') <= settings.concurrent]_vars

(* The requests granted to x in window w of period p *)
GrantedIn(x, p, w) ==
  {id \in Ids : phase[id] \in {"held", "released"} /\ x \in lease[id]
                  /\ Window(p, stamp[id]) = w}

(* A count is never of more requests than were granted in its window: rejected
   requests and those of other windows turn nobody away. *)
CountsAreGrants ==
  \A x \in DOMAIN states, p \in Periods :
    states[x].requests[p] <= Cardinality(GrantedIn(x, p, states[x].window[p]))
===============================================================================
