---------------------------- MODULE MCCloseBooking ----------------------------
(* CloseBooking on a small instance. *)
EXTENDS CloseBooking, TLC

CONSTANTS p1, p2, pool1, t1

\* Two addresses of one pool.
OnePool  == (p1 :> pool1) @@ (p2 :> pool1)
OneToken == pool1 :> t1

\* CountCap: two re-centers in turnover mode, one otherwise.
Tight == [m \in Modes |-> IF m = "turnover" THEN 2 ELSE 1]

Close(k, r) == [kind |-> k, result |-> r]

\* Out of range at a loss and a gain, a dump in time, a stop loss, a low yield, a rug whose
\* result is unknown.
Some == {Close("oor", "loss"), Close("oor", "win"), Close("dump", "win"), Close("stop", "rug"),
         Close("yield", "even"), Close("rug", None)}
===============================================================================
