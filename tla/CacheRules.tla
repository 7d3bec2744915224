------------------------------ MODULE CacheRules ------------------------------
(***************************************************************************)
(* What the cache decides from its settings alone, whatever it holds:      *)
(* which rule governs a URL, whether a request may use the cache and       *)
(* whether a response may enter it.  Every operator is a pure function of  *)
(* settings, URL, request and response.                                    *)
(*                                                                         *)
(* A path is a sequence of pieces of text, so that strings.HasPrefix on    *)
(* the strings is IsPrefix on the sequences; hosts that differ only by     *)
(* case are one value (strings.EqualFold); the Cache-Control texts the     *)
(* code searches for are the members of a set of directives.               *)
(***************************************************************************)
EXTENDS Integers, FiniteSetsExt, SequencesExt

StatusClasses == {"2xx", "3xx", "4xx", "5xx"}

PrefixesOf(rule, path) == {p \in rule.prefixes : IsPrefix(p, path)}

Applies(rule, host, path) ==
  /\ rule.domains = {} \/ host \in rule.domains
  /\ rule.prefixes = {} \/ PrefixesOf(rule, path) # {}

Score(rule, path) == Max({Len(p) : p \in PrefixesOf(rule, path)} \union {0})

\* Faulty variant of ResolveRule: a later rule of the same score replaces the best.
ResolveLastRule(s, host, path) ==
  LET Better(best, rule) ==
        IF Applies(rule, host, path) /\ Score(rule, path) >= best.score
        THEN [rule |-> rule, score |-> Score(rule, path)]
        ELSE best
  IN FoldLeft(Better, [rule |-> s.defaultRule, score |-> -1], s.rules).rule

(* The loop over settings.Rules: a later rule replaces the best so far only
   with a strictly higher score. *)
ResolveRule(s, host, path) ==
  LET Better(best, rule) ==
        IF Applies(rule, host, path) /\ Score(rule, path) > best.score
        THEN [rule |-> rule, score |-> Score(rule, path)]
        ELSE best
  IN FoldLeft(Better, [rule |-> s.defaultRule, score |-> -1], s.rules).rule

(* The same rule by what it is and not by how it is found, as the set that has
   it for its only member: the first of the rules that apply with the longest
   matching prefix, or the default rule when none applies. *)
Governing(s, host, path) ==
  LET applying == {i \in DOMAIN s.rules : Applies(s.rules[i], host, path)}
      ScoreOf(i) == Score(s.rules[i], path)
  IN IF applying = {} THEN {s.defaultRule}
     ELSE {s.rules[i] : i \in
             {i \in applying : \A j \in applying \ {i} :
                \/ ScoreOf(i) > ScoreOf(j)
                \/ ScoreOf(i) = ScoreOf(j) /\ i < j}}

(* A request [method, noCache, headers]: noCache stands for either of the
   Cache-Control and Pragma spellings, headers for the names it carries. *)
ShouldUse(s, host, path, req) ==
  /\ s.enabled
  /\ req.method \in {"GET", "HEAD"}
  /\ ~req.noCache
  /\ \E rule \in Governing(s, host, path) : rule.sensitive \intersect req.headers = {}

(* A response [class, size, directives, tags, body]; the class "5xx" stands for
   every status outside 200..499. *)
TtlForStatus(rule, resp) == rule.ttl[resp.class]

PassesRule(s, rule, resp) ==
  /\ s.enabled
  /\ TtlForStatus(rule, resp) > 0
  /\ resp.size >= rule.minSize
  /\ rule.maxSize > 0 => resp.size <= rule.maxSize
  /\ "no-store" \notin resp.directives

Admitted(s, rule, resp) == PassesRule(s, rule, resp) /\ "no-cache" \notin resp.directives
===============================================================================
