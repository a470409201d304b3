------------------------------ MODULE PositionLife ------------------------------
(***************************************************************************)
(* What every part of the bot owes a position, whichever of them deploys,  *)
(* registers, closes or forgets it: an address is used once at a time, and *)
(* the key of an account is dropped only when the account is closed or     *)
(* gone.  A key may be missing for a while (the pipeline was killed, a     *)
(* transaction landed unseen) and may come late, even after the close.     *)
(*                                                                         *)
(* PositionTracking, CloseBooking and PositionMonitor implement it, and    *)
(* DeployPipeline until a read of Redis or of the Portfolio API fails.     *)
(***************************************************************************)
CONSTANT Positions

VARIABLES
  open,    \* the accounts on chain
  known    \* those with a key sol:dlmm:position:<addr>

life == <<open, known>>

Init == open \subseteq Positions /\ known = open

\* Nobody holds a key of the address from an earlier account.
Deploy(p) ==
  /\ p \notin open \cup known
  /\ open' = open \cup {p} /\ known' \in {known, known \cup {p}}

Register(p) == known' = known \cup {p} /\ UNCHANGED open

Close(p) ==
  /\ p \in open
  /\ open' = open \ {p} /\ known' \in {known, known \ {p}}

Forget(gone) ==
  /\ gone \cap open = {}
  /\ known' = known \ gone /\ UNCHANGED open

Next == \/ \E p \in Positions : Deploy(p) \/ Register(p) \/ Close(p)
        \/ \E gone \in SUBSET Positions : Forget(gone)

Spec == Init /\ [][Next]_life
================================================================================
