---------------------------- MODULE ExpiringStore ----------------------------
(***************************************************************************)
(* What a response cache promises, whatever it holds it in: a partial map  *)
(* from keys to responses with a deadline.  It may forget anything at any  *)
(* time; what it adds is one response at a time, under one key, with a     *)
(* deadline that lies ahead.  A lookup forgets at most what has passed its *)
(* deadline: being read neither alters an entry nor renews it, and nothing *)
(* forgotten comes back but by being added again.                          *)
(***************************************************************************)
EXTENDS Integers

CONSTANTS Keys, Responses

VARIABLES content, now, lookups

Forgets ==
  /\ DOMAIN content' \subseteq DOMAIN content
  /\ content' = [k \in DOMAIN content' |-> content[k]]

Remembers(kept) ==
  kept \subseteq DOMAIN content /\ \A k \in kept : content'[k] = content[k]

Init == content = << >> /\ now = 0 /\ lookups = 0

Advance == now' = now + 1 /\ UNCHANGED <<content, lookups>>

Forget == Forgets /\ UNCHANGED <<now, lookups>>

Lookup ==
  /\ lookups' = lookups + 1
  /\ Forgets
  /\ \A k \in DOMAIN content \ DOMAIN content' : content[k].expiresAt < now
  /\ UNCHANGED now

Add ==
  /\ \E k \in Keys :
       /\ k \in DOMAIN content'
       /\ content'[k].response \in Responses
       /\ content'[k].expiresAt > now
       /\ Remembers(DOMAIN content' \ {k})
  /\ UNCHANGED <<now, lookups>>

Next == Advance \/ Forget \/ Lookup \/ Add

Spec == Init /\ [][Next]_<<content, now, lookups>>
===============================================================================
