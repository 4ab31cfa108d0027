---------------------------- MODULE MCResolution ----------------------------
(* An instance of Resolution for TLC. *)
EXTENDS Resolution

good == [scheme |-> "https", host |-> TRUE, credentials |-> FALSE, path |-> "plain"]

\* A usable target and one for each way of being refused.
MCTargets == {good, [good EXCEPT !.path = "encodedDots"], [good EXCEPT !.scheme = "other"]}
=============================================================================
