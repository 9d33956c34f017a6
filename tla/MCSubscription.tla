-------------------------- MODULE MCSubscription --------------------------
(* Instances of Subscription for TLC. *)
EXTENDS Subscription, TLC

ThreadSymmetry == Permutations(Threads)
Deliveries == {"post", "reply", "subscribe", "db", "remove"}
Restarts == {"post", "reply", "crash", "offline", "disk", "remove", "usubscribe"}
Departures == {"post", "trigger", "unsubscribe"}
===========================================================================
