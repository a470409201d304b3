------------------------ MODULE PositionMonitorHistory ------------------------
(***************************************************************************)
(* What the graces and delays of single ticks add up to over many of them. *)
(* The variables below record the past of the ticks of main(), whichever   *)
(* process runs them; they are not state of the program and never          *)
(* influence a step of PositionMonitor.                                    *)
(*                                                                         *)
(* A tick is overtaken when another one wrote the metadata back between    *)
(* its read and its own write-back: it then undoes what the other wrote,   *)
(* also a one-shot grace's mark, since no process takes a lock.  What the  *)
(* properties promise begins anew after such a tick; the loop alone never  *)
(* has one.                                                                *)
(***************************************************************************)
EXTENDS PositionMonitor

VARIABLES
  overtaken,        \* the processes at work whose metadata is out of date
  gap_granted,      \* the gap-through grace was granted, and no tick has seen the
                    \* price above the floor since
  postponed_from,   \* when the running series of postponed exits began
  oor_from,         \* when the running out-of-range episode was first seen
  extended_at,      \* when this episode was given its recovery grace
  doubted_at        \* when the last tick with an API row skipped a suspect read

history == <<overtaken, gap_granted, postponed_from, oor_from, extended_at, doubted_at>>

HInit == /\ Init
         /\ overtaken = {} /\ gap_granted = FALSE /\ postponed_from = None
         /\ oor_from = None /\ extended_at = None /\ doubted_at = None

RecordDecision(p, ind) ==
  LET r == obs[p]
      m == local[p]
      late == p \in overtaken
  IN /\ overtaken' = {q \in Runs \ {p} : pc[q] = "decide"}
     /\ gap_granted' = /\ BelowFloor(r, m)
                       /\ GapGrace(r, m) \/ (gap_granted /\ ~late)
     /\ postponed_from' = IF ~Postponed(r, m, ind) THEN None
                          ELSE IF postponed_from = None THEN clock
                          ELSE postponed_from
     /\ oor_from' = IF r.in_range THEN None
                    ELSE IF late THEN oor_since'
                    ELSE IF oor_from = None THEN clock ELSE oor_from
     /\ extended_at' = IF r.in_range \/ late THEN None
                       ELSE IF OorGrace(r, m) THEN clock ELSE extended_at
     /\ doubted_at' = IF r.src = "api" THEN None ELSE doubted_at

RecordSkip(p) == /\ overtaken' = overtaken \ {p} /\ doubted_at' = clock
                 /\ UNCHANGED <<gap_granted, postponed_from, oor_from, extended_at>>

\* Every step of Next, with what it adds to the history.
HNext ==
  \/ \E p \in Runs :
       \/ \E ind \in {TRUE, FALSE, None} : Decide(p, ind) /\ RecordDecision(p, ind)
       \/ SkipSuspectRead(p) /\ RecordSkip(p)
       \/ /\ \/ \E r \in Readings : Read(p, r)
             \/ CleanUpAbsent(p)
             \/ RotateOk(p)
             \/ RotateFail(p)
          /\ UNCHANGED history
  \/ ((\E p \in Procs : CloseStep(p)) \/ AgentStep \/ Pass) /\ UNCHANGED history

HSpec == HInit /\ [][HNext]_<<vars, history>>

--------------------------------------------------------------------------------

\* "Give one extra tick to recover; close on the next tick if still below the floor"
\* (1102-1106): the gap-through grace is granted once, to both processes together, until
\* the price is back above the floor.  A reset of the trailing state leaves it used (632-641).
GapGraceOnce ==
  [][\A p \in Runs : gap_granted /\ p \notin overtaken /\ Decides(p)
                       => ~GapGrace(obs[p], local[p])]_<<vars, history>>

\* The exit indicator postpones exits of a tracked position for less than
\* MAX_INDICATOR_BLOCK_MINUTES in one go, however the reasons, its answers and the
\* processes alternate (1444-1465).
IndicatorDelayBounded ==
  [][\A p \in Runs :
       Decides(p) /\ tracked /\ postponed_from # None /\ postponed_from' = postponed_from
         => clock - postponed_from < MaxIndicatorBlock]_<<vars, history>>

\* What the recovery grace leaves of the fuse: the grace on the side it was given on, and
\* the difference of the fuses more when the price has crossed the range meanwhile.
FuseAfterGrace(r) == OorLimit(r) - SmallerOf(MaxOor, OorDownsideMax) + OorRecoveryGrace

\* A tracked position seen out of range on every tick for its fuse raises an exit, with
\* one exception per episode: a recovery grace, granted once, that starts the fuse again
\* for FuseAfterGrace at most (1185-1249).
OorFuseEnds ==
  [][\A p \in Runs :
       /\ Decides(p) /\ p \notin overtaken /\ tracked /\ ~obs[p].in_range
       /\ oor_from # None /\ clock - oor_from >= OorLimit(obs[p])
       => \/ ExitReason(obs[p], local[p]) # "none"
          \/ extended_at = None /\ OorGrace(obs[p], local[p])
          \/ extended_at # None /\ clock - extended_at < FuseAfterGrace(obs[p])
    ]_<<vars, history>>

\* A catastrophic PnL that the executor cannot confirm is acted on only when the tick
\* with an API row before it, of either process, doubted one too, within the key's
\* lifetime (1030-1058).
SuspectNeedsSecondRead ==
  [][\A p \in Runs : Decides(p) /\ Suspect(obs[p]) /\ obs[p].verified = None
       => doubted_at # None /\ clock - doubted_at < SuspectTtl]_<<vars, history>>
================================================================================
