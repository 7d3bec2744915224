--------------------------- MODULE MCProxyFreshness ---------------------------
(***************************************************************************)
(* Requests for one path, reads with and without credentials and           *)
(* mutations, against a cache of one key.                                  *)
(***************************************************************************)
EXTENDS ProxyFreshness, TLC

IdSymmetry == Permutations(Ids)

mcKeys == {"GET:/a"}
mcPathOf == [k \in mcKeys |-> <<"/a">>]
mcHostOf == [k \in mcKeys |-> "up"]
mcUrlTags == [k \in mcKeys |-> {"path:/a"}]
mcTags == {"path:/a"}

Call(method, headers) ==
  [method |-> method, key |-> "GET:/a", noCache |-> FALSE, headers |-> headers]

mcCalls == {Call("GET", {}), Call("GET", {"Authorization"}), Call("PUT", {})}

DefaultRule ==
  [domains |-> {}, prefixes |-> {}, ttl |-> [c \in {"2xx", "3xx", "4xx", "5xx"} |-> 1],
   minSize |-> 1, maxSize |-> 0, tags |-> {}, sensitive |-> {"Authorization"}]

mcSettingsChoices ==
  {[enabled |-> e, capacity |-> 1, memoryLimit |-> 1, defaultRule |-> DefaultRule,
    rules |-> << >>] : e \in BOOLEAN}

===============================================================================
