------------------------ MODULE MCPositionMonitorHistory ------------------------
(* Both processes with their history: trailing and out-of-range episodes at once. *)
EXTENDS PositionMonitorHistory, MCPositionMonitor

\* Out of range on the token side with next to nothing left of the gain.
Sunk == [TokenBag EXCEPT !.pnl = 2, !.fee = 1]

GraceReadings  == {Winning, Sunk, Unindexed}
GracePositions == {Thesis}
================================================================================
