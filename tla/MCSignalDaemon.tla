----------------------------- MODULE MCSignalDaemon -----------------------------
(* The daemon with a Meteora mode that deploys through the pipeline and a Robinhood mode *)
(* that mints. *)
EXTENDS SignalDaemon

CONSTANTS p1, p2, r1

AllModes == <<"casual", "mature">>
Feeds    == [casual |-> {p1, p2}, mature |-> {r1}]
Direct   == [casual |-> "pipeline", mature |-> "robinhood"]
Meteora  == {"casual"}
Windows  == [casual |-> 2, mature |-> 1]
Both     == {"redis", "memory"}
=================================================================================
