----------------------------- MODULE MCListener -----------------------------
(* Constants for the run "calls" of RelayClient.  Its caller makes calls, or *)
(* it listens to subscriptions of its own, without events, for good; the     *)
(* run "deaf_after_publish" is of a caller that does both.                   *)
EXTENDS RelayRefinement

VARIABLE role   \* "calls" or "listens"

EitherInit == Init /\ role \in {"calls", "listens"}
EitherNext ==
    /\ \/ role = "calls" /\ (Publish \/ Query \/ LoopStep \/ close)
       \/ role = "listens" /\ (poll \/ \E s \in CallerSubs : subscribe(s) \/ unsubscribe(s))
       \/ RelayStep /\ UNCHANGED clientVars /\ (role = "listens" => stored' = {})
       \/ Done
    /\ UNCHANGED role
EitherSpec == EitherInit /\ [][EitherNext]_<<vars, role>>
=============================================================================
