---------------------------- MODULE MCThrottle ----------------------------
(* An instance of Throttle for TLC: names that a configuration cannot give. *)
EXTENDS Throttle, Statistics
=============================================================================
