---------------------------- MODULE MCAccountPool ----------------------------
(***************************************************************************)
(* Instances of AccountPool for TLC.                                       *)
(***************************************************************************)
EXTENDS AccountPool, TLC

CONSTANTS c1, c2

\* Short cool-downs, that of a captcha longer than that of a rate limit.
CoolDowns == [k \in Causes |-> CASE k = "server_error_streak" -> 1
                                 [] k = "rate_limited" -> 1
                                 [] k = "login_required" -> 3
                                 [] k = "captcha" -> 2]
=============================================================================
