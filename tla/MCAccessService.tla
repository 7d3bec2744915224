---------------------------- MODULE MCAccessService ----------------------------
(***************************************************************************)
(* One address, two goroutines that check it and two that apply settings:  *)
(* a rule that denies it, one that makes it grey, and settings that are    *)
(* turned down.  One tick of the clock outlasts the TTL of a decision.     *)
(***************************************************************************)
EXTENDS AccessCurrency, TLC

Symmetry == Permutations(Checkers) \union Permutations(Appliers)

Rule(type, addr) ==
  [id |-> 1, type |-> type, value |-> [kind |-> "prefix", base |-> addr, bits |-> Width]]

mcSettingsChoices ==
  {[rules |-> <<Rule("deny", 0)>>, defaultPolicy |-> "allow", captchaToken |-> "token"],
   [rules |-> <<Rule("grey", 0)>>, defaultPolicy |-> "", captchaToken |-> "token"],
   [rules |-> <<Rule("allow", 0), Rule("none", 0)>>, defaultPolicy |-> "deny",
    captchaToken |-> ""]}

mcCaptchas == {"", "token"}
===============================================================================
