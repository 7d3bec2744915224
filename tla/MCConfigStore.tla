----------------------------- MODULE MCConfigStore -----------------------------
(***************************************************************************)
(* An instance of ConfigSettling: one rule the API may create and one only *)
(* an editor can write, which the access service refuses together with the *)
(* level and a size beside it.                                             *)
(***************************************************************************)
EXTENDS ConfigSettling

Config(level, logs, access, rate) ==
  [level |-> level, maxLogs |-> logs, maxBuckets |-> 60, access |-> access,
   rateLimit |-> rate, cache |-> "enabled"]

mcRules == {"new", "unparsable"}
mcBadRules == {"unparsable"}
mcLevels == {"none", "info", "loud"}
mcBadLevels == {"loud"}
mcRateLimits == {3}
mcDefault == Config("info", 500, {}, 1)
mcEdits == {mcDefault, Config("loud", 0, {"unparsable"}, 2)}
===============================================================================
