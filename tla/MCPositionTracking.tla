-------------------------- MODULE MCPositionTracking --------------------------
(* PositionTracking on small instances. *)
EXTENDS PositionTracking

CONSTANT a1

\* Every address belongs to the same pool.
OnePool  == [a \in Addrs |-> "p"]
===============================================================================
