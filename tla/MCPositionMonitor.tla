--------------------------- MODULE MCPositionMonitor ---------------------------
(***************************************************************************)
(* Readings and positions for the runs of the position monitor.            *)
(***************************************************************************)
EXTENDS PositionMonitor

Calm == [src |-> "api", pnl |-> 10, verified |-> None, in_range |-> TRUE,
         bin |-> "upto", fee |-> 20, unclaimed |-> 0, liq |-> "ok",
         m5 |-> "flat", h1 |-> "flat"]

Winning   == [Calm EXCEPT !.pnl = 60]                 \* arms the trailing exit
Gapped    == [Calm EXCEPT !.pnl = -10]                \* below any armed floor, at a loss
Breached  == [Calm EXCEPT !.pnl = -260]               \* between the hard SL and the floor
Crashed   == [Calm EXCEPT !.pnl = -300, !.fee = 0]    \* low yield as well
Unindexed == [Calm EXCEPT !.pnl = -1000]              \* the API's -100%, not verifiable
Vanished  == [Unindexed EXCEPT !.fee = 0]         \* low yield as well
Verified  == [Calm EXCEPT !.pnl = -1000, !.verified = 10]
Rugged    == [Calm EXCEPT !.m5 = "rug"]
Drained   == [Calm EXCEPT !.liq = "thin", !.h1 = "unknown"]
Earning   == [Calm EXCEPT !.unclaimed = 2, !.fee = 5]
Idle      == [Calm EXCEPT !.fee = 0]                  \* low yield once it is old enough
Fading    == [Calm EXCEPT !.pnl = 4, !.m5 = "fast"]   \* fast-out when armed
Declining == [Calm EXCEPT !.pnl = -60, !.h1 = "down"]
Out       == [Calm EXCEPT !.in_range = FALSE, !.fee = 5]
TokenBag  == [Out EXCEPT !.src = "sdk", !.m5 = "green"]
Pumped    == [Out EXCEPT !.src = "sdk", !.bin = "pumped"]
Banked    == [Out EXCEPT !.src = "sdk", !.bin = "above", !.pnl = 20]
Harvest   == [Calm EXCEPT !.pnl = 110]

SoulStopLoss == -250

Thesis   == [mode |-> "casual", strategy |-> "spot", sol_is_x |-> FALSE, harvested |-> FALSE]
Turnover == [Thesis EXCEPT !.mode = "turnover", !.strategy = "sol_bidask"]
Mirrored == [Thesis EXCEPT !.sol_is_x = TRUE, !.strategy = "partial_harvest"]
Compound == [Thesis EXCEPT !.strategy = "fee_compounding"]

SharedReadings  == {Vanished, Earning}
SharedPositions == {Compound}

RuleReadings  == {Winning, Gapped, Breached, Crashed, Vanished, Verified, Rugged,
                  Drained, Earning, Fading, Declining, TokenBag, Pumped, Banked, Harvest}
RulePositions == {Thesis, Turnover, Mirrored, Compound}

HoldReadings == {Calm, Declining}
================================================================================
