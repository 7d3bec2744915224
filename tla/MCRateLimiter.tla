---------------------------- MODULE MCRateLimiter ----------------------------
(***************************************************************************)
(* Three requests of two clients that share a subnet at one mask and not   *)
(* at the other.  A second is one unit of time and a day is three, enough  *)
(* for a key to pass the limit of a day without passing that of a second.  *)
(* The clock reaches a second day and a state can outlive its retention.   *)
(***************************************************************************)
EXTENDS RateHistory, TLC

CONSTANTS r1, r2, r3

mcIds == {r1, r2, r3}
SameClient == Permutations({r1, r2})

mcIPs == {"10.0.0.5", "10.0.0.77"}
mcSubnets == {"10.0.0.0/24"}
mcIpOf == [id \in mcIds |-> IF id = r3 THEN "10.0.0.77" ELSE "10.0.0.5"]
mcSubnetOf ==
  [mask \in {24, 33} |-> [ip \in mcIPs |-> IF mask = 24 THEN {"10.0.0.0/24"} ELSE {}]]
mcPeriods == {"second", "day"}
mcLength == [p \in mcPeriods |-> IF p = "day" THEN 3 ELSE 1]

Settings(second, day, concurrent, mask) ==
  [limit |-> [p \in mcPeriods |-> IF p = "day" THEN day ELSE second],
   perSecond |-> second, concurrent |-> concurrent,
   upload |-> 1, download |-> 2, total |-> 3, mask |-> mask]

mcSettingsChoices == {Settings(1, 2, 2, 0), Settings(1, 2, 1, 33)}
mcUploads == {1}
mcDownloads == {-1, 2}
===============================================================================
