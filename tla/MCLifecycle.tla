----------------------------- MODULE MCLifecycle -----------------------------
(***************************************************************************)
(* Two requests and two deliveries around a channel with room for one      *)
(* event, so that it is full while one logs; two levels; an interval of    *)
(* the checks that is positive and one that is not.                        *)
(***************************************************************************)
EXTENDS Lifecycle, TLC

mcLevels == {1, 3}
mcIntervals == {0, 30}
===============================================================================
