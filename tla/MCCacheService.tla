---------------------------- MODULE MCCacheService ----------------------------
(***************************************************************************)
(* An instance of CacheRecency: three keys, two of them under one path     *)
(* prefix; a rule with a tag of its own; limits that one store can exceed  *)
(* by count, by memory, and by its own size alone.                         *)
(***************************************************************************)
EXTENDS CacheRecency

mcKeys == {"GET:/a", "HEAD:/a", "GET:/a/b"}
mcPathOf == [k \in mcKeys |-> IF k = "GET:/a/b" THEN <<"/a", "/b">> ELSE <<"/a">>]
mcHostOf == [k \in mcKeys |-> "up"]
mcUrlTags == [k \in mcKeys |-> IF k = "GET:/a/b" THEN {"path:/a/b"} ELSE {"path:/a"}]
mcTags == {"path:/a", "path:/a/b", "rule", "header"}

Response(size, directives, tags) ==
  [class |-> "2xx", size |-> size, directives |-> directives, tags |-> tags,
   body |-> "body"]

mcResponses ==
  {Response(1, {}, {"header"}), Response(3, {}, {}), Response(1, {"no-cache"}, {})}

Rule(ttl, tags, prefixes) ==
  [domains |-> {}, prefixes |-> prefixes, ttl |-> [c \in StatusClasses |-> ttl],
   minSize |-> 1, maxSize |-> 0, tags |-> tags, sensitive |-> {"Authorization"}]

mcSettingsChoices ==
  {[enabled |-> TRUE, capacity |-> 2, memoryLimit |-> 0,
    defaultRule |-> Rule(1, {}, {}), rules |-> <<Rule(1, {"rule"}, {<<"/a", "/b">>})>>],
   [enabled |-> TRUE, capacity |-> 0, memoryLimit |-> 2,
    defaultRule |-> Rule(1, {"rule"}, {}), rules |-> << >>]}

Request(keys, prefix, regex, compiles, tags) ==
  [keys |-> keys, prefix |-> prefix, regex |-> regex, compiles |-> compiles, tags |-> tags]

mcRequests ==
  {Request({}, {}, {}, TRUE, {"rule", "header"}),
   Request({"GET:/a"}, {}, {"GET:/a/b"}, TRUE, {"rule"}),
   Request({}, {"GET:/a", "GET:/a/b"}, {}, FALSE, {"rule"})}

===============================================================================
