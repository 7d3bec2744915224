-------------------------- MODULE MCRequestPipeline --------------------------
(***************************************************************************)
(* Three requests of two clients in one subnet; one of them does not       *)
(* declare its length.  The clock goes on by a minute at a time, so that   *)
(* every reading is in a second of its own, and reaches a second minute:   *)
(* requests of the first may be recorded after those of the second.        *)
(***************************************************************************)
EXTENDS PipelineHistory, TLC

CONSTANTS r1, r2, r3

mcIds == {r1, r2, r3}
SameClient == Permutations({r1, r2})
mcIPs == {"10.0.0.5", "10.0.0.77"}
mcSubnets == {"10.0.0.0/24"}
mcIpOf == [id \in mcIds |-> IF id = r3 THEN "10.0.0.77" ELSE "10.0.0.5"]
mcSubnetOf == [mask \in {24} |-> [ip \in mcIPs |-> {"10.0.0.0/24"}]]
mcPeriods == {"second", "day"}
mcLength == [p \in mcPeriods |-> IF p = "day" THEN 4 ELSE 1]

mcSettingsChoices ==
  {[limit |-> [p \in mcPeriods |-> 0], perSecond |-> 0, concurrent |-> 2,
    upload |-> 0, download |-> 0, total |-> 0, mask |-> 24]}

mcMetricsChoices ==
  {[maxLogs |-> 1, maxBuckets |-> 2], [maxLogs |-> 2, maxBuckets |-> 1]}

mcUploads == 0..3
mcDownloads == {-1, 1}
mcDeclared == [id \in mcIds |-> IF id = r3 THEN -1 ELSE 2]

(* An answer to HEAD, the handler's own when the body breaks off and, to a body longer
   than those declared, the proxy's when the upstream is unavailable *)
mcAnswers ==
  {[status |-> 200, forwarded |-> TRUE, size |-> -1, read |-> 2],
   [status |-> 400, forwarded |-> FALSE, size |-> 1, read |-> 1],
   [status |-> 502, forwarded |-> FALSE, size |-> 1, read |-> 3]}
===============================================================================
