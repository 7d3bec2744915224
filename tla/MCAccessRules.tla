---------------------------- MODULE MCAccessRules ----------------------------
(***************************************************************************)
(* Lists over a choice of nested, adjacent, equal and disjoint ranges and  *)
(* prefixes of two bits, under either default policy.                      *)
(***************************************************************************)
EXTENDS AccessMatching

Prefix(base, bits) == [kind |-> "prefix", base |-> base, bits |-> bits]
Span(start, end) == [kind |-> "range", start |-> start, end |-> end]

mcValues ==
  {Prefix(0, 0), Prefix(0, 1), Prefix(3, 1), Prefix(1, 2),
   Span(0, 1), Span(0, 3), Span(1, 1), Span(2, 3), Span(3, 2), [kind |-> "other"]}
===============================================================================
