-------------------------- MODULE MCRobinhoodMonitor --------------------------
(* RobinhoodMonitor on a small instance. *)
EXTENDS RobinhoodMonitor, TLC

CONSTANTS p3, p4

\* A v3 position with a cost basis and a v4 position without; or the v3 position alone.
BothVenues == (p3 :> "v3") @@ (p4 :> "v4")
OneVenue   == p3 :> "v3"

Seen(n, inRange, m5, h1) ==
  [pnl |-> n, inRange |-> inRange, young |-> FALSE, m5 |-> m5, h1 |-> h1, pool |-> TRUE]

\* Emergency; armed and locked, falling or not; out of range.
Few == {Seen(-300, TRUE, FALSE, FALSE), Seen(60, TRUE, FALSE, FALSE),
        Seen(60, TRUE, TRUE, FALSE), Seen(60, FALSE, FALSE, FALSE)}

\* And a stop loss, a downtrend, a PnL below the floor of the peak, and a profit.
EveryRule == Few \cup {Seen(-250, TRUE, FALSE, FALSE), Seen(-50, TRUE, FALSE, TRUE),
                      Seen(20, TRUE, FALSE, FALSE), Seen(500, TRUE, FALSE, FALSE)}
===============================================================================
