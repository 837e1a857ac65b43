---------------------------- MODULE MCAccountQuota ----------------------------
(***************************************************************************)
(* Instances of AccountQuota for TLC.                                      *)
(***************************************************************************)
EXTENDS AccountQuota

CONSTANTS h1, h2

\* The preferred account is limited, the other one is not.
Priorities == <<1, 0>>
Limits == <<2, Unlimited>>

AnyAccount == {Aliases}

SomeSignals == {[kind |-> "login", wait |-> 0], [kind |-> "rate", wait |-> 0],
                [kind |-> "other", wait |-> 1]}
SomeChecks == {[status |-> "available", exhausted |-> FALSE, wait |-> 0]}
=============================================================================
