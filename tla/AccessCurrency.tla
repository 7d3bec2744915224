----------------------------- MODULE AccessCurrency -----------------------------
(***************************************************************************)
(* Whether the answers and the cached decisions of AccessService are those *)
(* of the settings in force.  The history variables record, beside the     *)
(* state of the program, why they may not be.                              *)
(***************************************************************************)
EXTENDS AccessService

VARIABLES
  late,    \* the cached addresses whose decision was taken on settings that were
           \* not, or were about to be no longer, in force when it was added
  since,   \* checker -> the settings in force at some time of its check
  excused  \* checker -> whether its answer is such a late decision

HistoryInit ==
  /\ Init
  /\ late = {}
  /\ since = [c \in Checkers |-> {}]
  /\ excused = [c \in Checkers |-> FALSE]

BeingReplaced == \E g \in Appliers : applier[g].phase = "swapped"

(* What the step does for checker c *)
Begins(c) == check'[c].phase = "loaded" /\ check[c].phase # "loaded"
Refused(c) == check'[c].addr = Unparsable
Hits(c) == check[c].phase = "loaded" /\ check'[c].phase = "done"
Adds(c) ==
  check[c].phase = "missed" /\ check'[c].phase = "done" /\ Cacheable(check'[c].answer)

NextHistory ==
  LET AddrsOf(cs) == {check[c].addr : c \in cs}
      adding == {c \in Checkers : Adds(c)}
      tooLate == {c \in adding : check[c].view # state \/ BeingReplaced}
  IN /\ late' = ((late \ AddrsOf(adding)) \union AddrsOf(tooLate)) \intersect DOMAIN cache'
     /\ since' = [c \in Checkers |->
                    IF Refused(c) THEN {}
                    ELSE IF Begins(c) THEN {state}
                    ELSE IF check[c].phase \in {"loaded", "missed"} THEN since[c] \union {state'}
                    ELSE since[c]]
     /\ excused' = [c \in Checkers |->
                      IF check'[c].phase = "loaded" \/ Refused(c) THEN FALSE
                      ELSE excused[c] \/ (Hits(c) /\ check[c].addr \in late)]

historyVars == <<vars, late, since, excused>>

HistorySpec == HistoryInit /\ [][Next /\ NextHistory]_historyVars

-------------------------------------------------------------------------------
(* A check that was let in on a captcha brought the one that was asked for while
   it ran: a grey client never gets in on what another one showed. *)
CaptchaIsPersonal ==
  \A c \in Checkers :
    check[c].answer.reason = "captcha_verified" =>
      /\ check[c].captcha # ""
      /\ \E s \in since[c] : s.captchaToken = check[c].captcha

(* A cached decision is one that the settings in force would give, unless it was
   added by a check that had loaded its settings before they were replaced. *)
CacheAgrees ==
  \A a \in DOMAIN cache : cache[a].decision \in Decide(state, a, "") \/ a \in late

(* The answer to a check is the answer of settings that were in force while it
   ran, unless it was such a late decision that the cache still held. *)
AnswersAreCurrent ==
  \A c \in Checkers :
    check[c].phase = "done" /\ check[c].addr # Unparsable =>
      \/ excused[c]
      \/ \E s \in since[c] : check[c].answer \in Decide(s, check[c].addr, check[c].captcha)
===============================================================================
