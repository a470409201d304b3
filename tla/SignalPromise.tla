----------------------------- MODULE SignalPromise -----------------------------
(***************************************************************************)
(* What the signal daemon promises of each key, a pool in a mode           *)
(* (internal/store/store.go 14-16: "each qualifying pool fires exactly     *)
(* once until its TTL lapses"): a key is taken up when it is free, then it *)
(* is signalled, turned down or given back; signalled or turned down it    *)
(* stays silent until its window ends.  It is signalled a second time in   *)
(* one window only when nobody knows whether the first signal arrived.     *)
(***************************************************************************)
EXTENDS Naturals

CONSTANTS Keys, None

VARIABLES
  mark,  \* per key: free; held by the daemon; stale, held although its window has ended;
         \* silent
  why    \* per key: what came of it in this window, None when nothing yet

Marks == {"free", "held", "stale", "silent"}
\* "doubt": signalled, but the answer was lost.
Whys  == {"sent", "doubt", "rejected", "declined", "lost"}

\* Nothing is known to have come of it.
Unsettled(k) == why[k] \in {None, "doubt"}

Init == mark = [k \in Keys |-> "free"] /\ why = [k \in Keys |-> None]

Take(k) ==
  /\ mark[k] = "free" /\ Unsettled(k)
  /\ mark' = [mark EXCEPT ![k] = "held"]
  /\ UNCHANGED why

GiveBack(k) ==
  /\ mark[k] \in {"held", "stale"}
  /\ mark' = [mark EXCEPT ![k] = "free"]
  /\ UNCHANGED why

\* The keys of K leave the daemon's hands for the same reason.
Settle(K, reason) ==
  /\ \A k \in K : mark[k] \in {"held", "stale"} /\ Unsettled(k)
  /\ mark' = [k \in Keys |->
       IF k \notin K THEN mark[k] ELSE IF mark[k] = "held" THEN "silent" ELSE "free"]
  /\ why' = [k \in Keys |-> IF k \in K /\ mark[k] = "held" THEN reason ELSE why[k]]

\* The signal of K went out and nobody answered.
Doubt(K) ==
  /\ \A k \in K : mark[k] \in {"held", "stale"} /\ Unsettled(k)
  /\ why' = [k \in Keys |-> IF k \in K /\ mark[k] = "held" THEN "doubt" ELSE why[k]]
  /\ UNCHANGED mark

\* A key was taken up, and the daemon does not know.
Slip(k) ==
  /\ mark[k] = "free" /\ Unsettled(k)
  /\ mark' = [mark EXCEPT ![k] = "silent"] /\ why' = [why EXCEPT ![k] = "lost"]

\* The windows of K end.
Lapse(K) ==
  /\ mark' = [k \in Keys |-> IF k \notin K THEN mark[k]
                             ELSE CASE mark[k] = "silent" -> "free"
                                    [] mark[k] = "held" -> "stale"
                                    [] OTHER -> mark[k]]
  /\ why' = [k \in Keys |-> IF k \in K THEN None ELSE why[k]]

Next == \/ \E k \in Keys : Take(k) \/ GiveBack(k) \/ Slip(k)
        \/ \E K \in SUBSET Keys : \/ Lapse(K) \/ Doubt(K)
                                  \/ \E reason \in Whys \ {"doubt"} : Settle(K, reason)

Spec == Init /\ [][Next]_<<mark, why>>
================================================================================
