---------------------------- MODULE AccessMatching ----------------------------
(***************************************************************************)
(* What the rules of the access service say, and whether matching finds    *)
(* it: the list ApplyConfig installs, built rule by rule out of any values,*)
(* and compared with what each of its rules covers.                        *)
(***************************************************************************)
EXTENDS AccessRules

CONSTANTS
  Values,         \* values the rules may have
  MaxRules,       \* bound on the rules of a list
  CaptchaToken,   \* of the settings
  CaptchaHeaders  \* values a client may show, "" for none

\* What ParseAddr and ParsePrefix return are addresses, and a prefix has their width.
ASSUME ValueAssumption ==
  \A v \in Values :
    \/ v.kind = "prefix" /\ v.base \in Addrs /\ v.bits \in 0 .. Width
    \/ v.kind = "range" /\ v.start \in Addrs /\ v.end \in Addrs
    \/ v.kind = "other"

VARIABLES
  rules,   \* in the order ApplyConfig gets them
  policy   \* the default policy, in lower case

Settings ==
  [rules |-> rules, defaultPolicy |-> policy, captchaToken |-> CaptchaToken]

RulesInit == rules = << >> /\ policy \in {"allow", "deny"}

(* ApplyConfig installs a list of rules only when it accepts every one. *)
AddRule ==
  /\ Len(rules) < MaxRules
  /\ \E type \in RuleTypes, value \in Values :
       rules' = Append(rules, [id |-> Len(rules) + 1, type |-> type, value |-> value])
  /\ \A i \in DOMAIN rules' : ValidateAccessRule(rules'[i])
  /\ UNCHANGED policy

RulesSpec == RulesInit /\ [][AddRule]_<<rules, policy>>

-------------------------------------------------------------------------------
(* What a rule says it covers: the addresses between the two of a range, or those
   that agree with a prefix in its first bits *)
Covers(i, a) ==
  LET v == rules[i].value
  IN IF v.kind = "range" THEN v.start <= a /\ a <= v.end
     ELSE (a \div 2 ^ (Width - v.bits)) = (v.base \div 2 ^ (Width - v.bits))

Covering(type, a) == {i \in DOMAIN rules : rules[i].type = type /\ Covers(i, a)}

Ranges(type) == Table(Settings, type, "range")

DisjointRanges(type) ==
  \A i, j \in Ranges(type) : i # j => ~\E a \in Addrs : Covers(i, a) /\ Covers(j, a)

(* When no two ranges of a type overlap, an address matches a rule of the type
   exactly if some rule covers it: the range that does, or else the latest of the
   longest prefixes. *)
MatchIsExact ==
  \A type \in RuleTypes, a \in Addrs :
    LET found == FindRuleMatch(Settings, type, a)
        covering == Covering(type, a)
    IN /\ found \subseteq covering
       /\ DisjointRanges(type) =>
            /\ found = {} <=> covering = {}
            /\ found \intersect Ranges(type) = covering \intersect Ranges(type)
            /\ \A i \in found \ Ranges(type), j \in covering :
                 \/ rules[j].value.bits < rules[i].value.bits
                 \/ rules[j].value.bits = rules[i].value.bits /\ j <= i

Passed(type, a) == Covering(type, a) = {} \/ ~DisjointRanges(type)

(* Why a decision on an address is as it is *)
HasReason(d, a, verified) ==
  \/ d.rule \in Covering("deny", a) /\ ~d.allowed
  \/ Passed("deny", a) /\ d.rule \in Covering("allow", a) /\ d.allowed
  \/ /\ Passed("deny", a) /\ Passed("allow", a)
     /\ d.rule \in Covering("grey", a) /\ (d.allowed <=> verified)
  \/ /\ Passed("deny", a) /\ Passed("allow", a) /\ Passed("grey", a)
     /\ d.rule = 0 /\ (d.allowed <=> policy # "deny")

(* Of the types deny, allow and grey the first that has a rule covering the address
   decides, by such a rule, and the default policy only when none has: a type is passed
   over only where its ranges overlap. *)
DecisionsHaveReason ==
  \A a \in Addrs, captcha \in CaptchaHeaders :
    \A d \in Decide(Settings, a, captcha) :
      HasReason(d, a, captcha # "" /\ captcha = CaptchaToken)

(* Every address of a deny range is denied. *)
DenyRangesDeny ==
  \A a \in Addrs :
    (\E i \in Ranges("deny") : Covers(i, a)) =>
      \A d \in Decide(Settings, a, "") : ~d.allowed
===============================================================================
