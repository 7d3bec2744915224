------------------------------ MODULE AccessRules ------------------------------
(***************************************************************************)
(* What the access service (internal/repository/access_repo.go) decides of *)
(* an address from its settings alone.  An address is a number of Width    *)
(* bits, a single address among the rules a prefix of all of them.  A rule *)
(* is a record [id, type, value], and its value one of                     *)
(*   [kind |-> "prefix", base |-> a, bits |-> n]      a/n, or just a       *)
(*   [kind |-> "range", start |-> a, end |-> b]       a-b                  *)
(*   [kind |-> "other"]                               anything unparsable  *)
(***************************************************************************)
EXTENDS Integers, Sequences, FiniteSets

CONSTANT Width    \* the bits of an address

ASSUME WidthAssumption == Width \in Nat

Addrs == 0 .. (2 ^ Width - 1)
RuleTypes == {"allow", "deny", "grey"}

Masked(a, bits) == a - (a % 2 ^ (Width - bits))

ValidateAccessRule(rule) ==
  /\ rule.type \in RuleTypes
  /\ rule.value.kind # "other"
  /\ rule.value.kind = "range" => rule.value.start <= rule.value.end

Accepted(s) == \A i \in DOMAIN s.rules : ValidateAccessRule(s.rules[i])

(* The positions in the rules of those of one type and kind: the prefix trie, or
   the range list, that ApplyConfig builds for the type *)
Table(s, type, kind) ==
  {i \in DOMAIN s.rules : s.rules[i].type = type /\ s.rules[i].value.kind = kind}

\* Faulty variant of MatchRange: a range does not contain its first address.
MatchInsideRange(s, type, a) ==
  LET value(i) == s.rules[i].value
      before == {i \in Table(s, type, "range") : value(i).start < a}
      last == {i \in before : \A j \in before :
                 \/ value(j).start < value(i).start
                 \/ value(j).start = value(i).start /\ value(j).end <= value(i).end}
  IN {i \in last : a <= value(i).end}

(* matchRange looks at one range only, the last of those that start at or before
   the address in the order of sortRanges; ranges that are equal may come in any
   order. *)
MatchRange(s, type, a) ==
  LET value(i) == s.rules[i].value
      before == {i \in Table(s, type, "range") : value(i).start <= a}
      last == {i \in before : \A j \in before :
                 \/ value(j).start < value(i).start
                 \/ value(j).start = value(i).start /\ value(j).end <= value(i).end}
  IN {i \in last : a <= value(i).end}

Network(s, i) == <<Masked(s.rules[i].value.base, s.rules[i].value.bits), s.rules[i].value.bits>>

Contains(s, i, a) == Masked(a, s.rules[i].value.bits) = Network(s, i)[1]

(* The longest of the prefixes that contain the address.  Inserting a network the
   trie has replaces its rule by the later one. *)
MatchPrefix(s, type, a) ==
  LET entries == {i \in Table(s, type, "prefix") :
                    \A j \in Table(s, type, "prefix") : Network(s, j) = Network(s, i) => j <= i}
      containing == {i \in entries : Contains(s, i, a)}
  IN {i \in containing : \A j \in containing : s.rules[j].value.bits <= s.rules[i].value.bits}

(* The rules findRuleMatch may return, none when it returns nil *)
FindRuleMatch(s, type, a) ==
  IF MatchRange(s, type, a) # {} THEN MatchRange(s, type, a) ELSE MatchPrefix(s, type, a)

Decision(allowed, reason, rules) ==
  {[allowed |-> allowed, reason |-> reason, rule |-> i] : i \in rules}

NoRule == {0}

\* Faulty variant of Decide: an allow rule goes before a deny rule.
DecideAllowFirst(s, a, captcha) ==
  LET Match(type) == FindRuleMatch(s, type, a)
  IN IF Match("allow") # {} THEN Decision(TRUE, "whitelist", Match("allow"))
     ELSE IF Match("deny") # {} THEN Decision(FALSE, "blacklist", Match("deny"))
     ELSE IF Match("grey") # {}
     THEN IF captcha # "" /\ captcha = s.captchaToken
          THEN Decision(TRUE, "captcha_verified", Match("grey"))
          ELSE Decision(FALSE, "captcha_required", Match("grey"))
     ELSE IF s.defaultPolicy = "deny" THEN Decision(FALSE, "default_deny", NoRule)
     ELSE Decision(TRUE, "default_allow", NoRule)

(* The decisions Check may take of an address when its cache has none *)
Decide(s, a, captcha) ==
  LET Match(type) == FindRuleMatch(s, type, a)
  IN IF Match("deny") # {} THEN Decision(FALSE, "blacklist", Match("deny"))
     ELSE IF Match("allow") # {} THEN Decision(TRUE, "whitelist", Match("allow"))
     ELSE IF Match("grey") # {}
     THEN IF captcha # "" /\ captcha = s.captchaToken
          THEN Decision(TRUE, "captcha_verified", Match("grey"))
          ELSE Decision(FALSE, "captcha_required", Match("grey"))
     ELSE IF s.defaultPolicy = "deny" THEN Decision(FALSE, "default_deny", NoRule)
     ELSE Decision(TRUE, "default_allow", NoRule)

\* Faulty variant of Cacheable: only a captcha that is still missing keeps it out.
CacheableOnceVerified(decision) == decision.reason # "captcha_required"

(* Decisions on grey addresses are not cached. *)
Cacheable(decision) == decision.reason \notin {"captcha_verified", "captcha_required"}
===============================================================================
