------------------------------ MODULE RateHistory ------------------------------
(***************************************************************************)
(* How far the limits on requests hold in RateLimiter.  The history        *)
(* variables record, beside the state of the program, on which keys a call *)
(* has worked with a time of the past.                                     *)
(***************************************************************************)
EXTENDS RateLimiter

\* A state is kept for at least as long as any window lasts.
ASSUME RetentionAssumption == \A p \in Periods : Length[p] <= Retention

VARIABLES
  latest,  \* the latest time any call of Acquire or Release has worked with
  rewound  \* keys on which a call has worked with a time in an earlier window

historyVars == <<vars, latest, rewound>>

HistoryInit == Init /\ latest = 0 /\ rewound = {}

(* A call works on these keys with the time of the request. *)
Worked(id, keys) ==
  /\ latest' = IF stamp[id] > latest THEN stamp[id] ELSE latest
  /\ rewound' = IF \E p \in Periods : Window(p, stamp[id]) < Window(p, latest)
                THEN rewound \union keys ELSE rewound

HistoryNext ==
  \/ Tick /\ UNCHANGED <<latest, rewound>>
  \/ \E s \in SettingsChoices : UpdateSettings(s) /\ UNCHANGED <<latest, rewound>>
  \/ \E id \in Ids : ReadClock(id) /\ UNCHANGED <<latest, rewound>>
  \/ \E id \in Ids, hint \in Uploads :
       AcquireRejected(id, hint) /\ Worked(id, ScopeKeys(IpOf[id]))
  \/ \E id \in Ids, hint \in Uploads :
       AcquireGranted(id, hint) /\ Worked(id, ScopeKeys(IpOf[id]))
  \/ \E id \in Ids, up \in Uploads, down \in Downloads :
       Release(id, up, down) /\ Worked(id, lease[id])

HistorySpec == HistoryInit /\ [][HistoryNext]_historyVars

-------------------------------------------------------------------------------
(* The requests granted to x in the window of p that id was granted in *)
GrantedWith(id, x, p) == GrantedIn(x, p, Window(p, stamp[id]))

(* The limits on the requests of a period; new connections are requests. *)
LimitsOf(p) ==
  {settings.limit[p]} \union (IF p = Second THEN {settings.perSecond} ELSE {})

(* Where calls come in the order of their windows, a grant leaves no key with more
   requests granted in any of its windows than the limits in force: the clean-up of
   idle states, changes of the limits or of the mask, rejected requests and releases
   never make the limiter forget a grant it still has to count. *)
LimitHoldsUnlessRewound ==
  [][\A id \in Ids : phase[id] = "stamped" /\ phase'[id] = "held" =>
       \A x \in lease'[id] \ rewound', p \in Periods : \A limit \in LimitsOf(p) :
         limit > 0 => Cardinality(GrantedWith(id, x, p)') <= limit]_historyVars

(* No window ever grants a key more requests than every limit the configuration may
   hold. *)
GrantsWithinLimit ==
  \A id \in Ids, x \in Keys, p \in Periods :
    \E s \in SettingsChoices :
      s.limit[p] <= 0 \/ Cardinality(GrantedWith(id, x, p)) <= s.limit[p]
===============================================================================
