------------------------- MODULE PositionMonitorProofs -------------------------
(***************************************************************************)
(* What the position monitor does for every set of processes, positions    *)
(* and readings, and for every parameter of SOUL.md.                       *)
(***************************************************************************)
EXTENDS PositionMonitor, TLAPS

USE DEF Procs

--------------------------------------------------------------------------------
(* The operators the decision is built from. *)

\* Every reason a tick can raise is one of the script's reasons.
LEMMA ReasonTypes ==
  ASSUME NEW r, NEW m
  PROVE  ExitReason(r, m) \in Reasons
  BY DEF ExitReason, Overwriting, SoftReason, OorReason, Reasons

\* A figure read from the market or replaced by the executor's is a number.
LEMMA PnlType ==
  ASSUME NEW r \in Readings
  PROVE  /\ r \in Reading /\ Pnl(r) \in Int /\ Unclaimed(r) \in Nat
         /\ Suspect(r) \in BOOLEAN
  BY InputAssumption DEF Reading, Pnl, Unclaimed, Suspect, SuspectPnl

\* The metadata a tick writes back is metadata.
LEMMA MetadataTypes ==
  ASSUME NEW r \in Readings, NEW m \in Metadata, TypeOK
  PROVE  MetadataAfter(r, m) \in Metadata
<1>1. Pnl(r) \in Int /\ Unclaimed(r) \in Nat /\ r \in Reading
  BY PnlType
<1>2. Peak(r, m) \in Int
  BY <1>1 DEF Peak, LargerOf, Metadata
<1>3. Armed(r, m) \in BOOLEAN
  BY <1>1, SoulAssumption DEF Armed, ReachesTrigger, Metadata, TypeOK, Reading
<1>4. SnapAfter(r, m) \in [fees : Nat, at : Nat] \cup {None}
  BY <1>1, TimingAssumption DEF SnapAfter, Metadata, TypeOK
<1>5. m.gap_used \in BOOLEAN /\ m.oor_used \in BOOLEAN /\ r.in_range \in BOOLEAN
  BY <1>1 DEF Metadata, Reading
<1>6. (IF BelowFloor(r, m) THEN m.gap_used \/ GapGrace(r, m)
       ELSE ~Armed(r, m) /\ m.gap_used) \in BOOLEAN
  BY <1>5, <1>3
<1>7. (~r.in_range /\ (m.oor_used \/ OorGrace(r, m))) \in BOOLEAN
  BY <1>5
<1> QED
  BY <1>2, <1>3, <1>4, <1>6, <1>7 DEF MetadataAfter, Metadata

\* The timers stay times or absent.
LEMMA TimerTypes ==
  ASSUME NEW r \in Readings, NEW m \in Metadata, NEW ind, TypeOK
  PROVE  /\ OorSinceAfter(r, m) \in Int \cup {None}
         /\ BlockedSinceAfter(r, m, ind) \in 0..MaxClock \cup {None}
<1>1. OorLimit(r) \in Int
  BY SoulAssumption DEF OorLimit, SmallerOf
<1>2. clock \in Int /\ OorRecoveryGrace \in Int
  BY TimingAssumption DEF TypeOK
<1> QED
  BY <1>1, <1>2 DEF OorSinceAfter, BlockedSinceAfter, TypeOK

\* What calls for an emergency close is closed for an emergency reason.
LEMMA EmergencyReason ==
  ASSUME NEW r, NEW m, Emergency(r, m)
  PROVE  ExitReason(r, m) \in EmergencyReasons
  BY DEF Emergency, ExitReason, EmergencyReasons, ThinLiquidity, SoftReason

\* The agent is not a process that runs main().
LEMMA RunsAreProcs == /\ Runs \subseteq Procs /\ "agent" \in Procs
                      /\ "agent" \notin Runs
  BY RunsAssumption

--------------------------------------------------------------------------------
(* Types. *)

LEMMA InitTypes == Init => TypeOK
  BY TimingAssumption DEF Init, TypeOK, FreshMetadata, Metadata, Reasons

LEMMA ReadTypes ==
  ASSUME TypeOK, NEW p \in Runs, NEW r \in Readings, Read(p, r)
  PROVE  TypeOK'
  BY RunsAreProcs, NoneAssumption, InputAssumption
  DEF TypeOK, Read, Goto, keyVars

LEMMA CleanUpTypes ==
  ASSUME TypeOK, NEW p \in Runs, CleanUpAbsent(p)
  PROVE  TypeOK'
  BY DEF TypeOK, CleanUpAbsent, procVars

LEMMA SkipTypes ==
  ASSUME TypeOK, NEW p \in Runs, SkipSuspectRead(p)
  PROVE  TypeOK'
  BY RunsAreProcs DEF TypeOK, SkipSuspectRead, Goto, Forget

LEMMA DecideTypes ==
  ASSUME TypeOK, NEW p \in Runs, NEW ind \in {TRUE, FALSE, None}, Decide(p, ind)
  PROVE  TypeOK'
<1> DEFINE r == obs[p]
           m == local[p]
<1>1. r \in Readings /\ m \in Metadata
  BY RunsAreProcs DEF TypeOK, Decide
<1>2. MetadataAfter(r, m) \in Metadata
  BY <1>1, MetadataTypes
<1>3. /\ OorSinceAfter(r, m) \in Int \cup {None}
      /\ BlockedSinceAfter(r, m, ind) \in 0..MaxClock \cup {None}
  BY <1>1, TimerTypes
<1>4. ExitReason(r, m) \in Reasons
  BY ReasonTypes
<1>5. obs' \in [Procs -> Readings \cup {None}] /\ local' \in [Procs -> Metadata \cup {None}]
  BY <1>1 DEF TypeOK, Decide
<1>6. /\ why' \in [Procs -> Reasons]
      /\ pc' \in [Procs -> {"idle", "decide", "closing", "compound", "harvest"}]
  BY <1>4 DEF TypeOK, Decide, Goto
<1>7. ASSUME NEW q \in Procs
      PROVE  /\ pc'[q] = "decide" => q # "agent" /\ obs'[q] # None /\ local'[q] # None
             /\ pc'[q] = "compound" => obs'[q] # None
             /\ why'[q] # "none" => pc'[q] = "closing"
  <2>1. CASE q # p
    BY <2>1, <1>6, <1>5 DEF TypeOK, Decide, Goto
  <2>2. CASE q = p
    <3>1. r # None
      BY <1>1, RunsAreProcs DEF TypeOK, Decide
    <3>2. why[p] = "none"
      BY RunsAreProcs DEF TypeOK, Decide
    <3>3. pc'[p] # "decide"
      BY RunsAreProcs DEF TypeOK, Decide, Goto
    <3>4. pc'[p] = "compound" => obs'[p] # None
      BY <3>1, RunsAreProcs DEF TypeOK, Decide, Goto
    <3>5. why'[p] # "none" => pc'[p] = "closing"
      BY <3>2, RunsAreProcs DEF TypeOK, Decide, Goto
    <3> QED
      BY <2>2, <3>3, <3>4, <3>5
  <2> QED
    BY <2>1, <2>2
<1>8. /\ meta' \in Metadata \cup {None} /\ oor_since' \in Int \cup {None}
      /\ indicator_blocked_since' \in 0..MaxClock \cup {None}
      /\ suspect_pnl_since' \in 0..MaxClock \cup {None}
  BY <1>2, <1>3 DEF TypeOK, Decide
<1> QED
  BY <1>5, <1>6, <1>7, <1>8 DEF TypeOK, Decide

LEMMA CloseTypes ==
  ASSUME TypeOK, NEW p \in Procs, CloseStep(p)
  PROVE  TypeOK'
<1>1. CASE CloseOk(p)
  <2>1. booked' \in Nat /\ ai_hold_until' \in Nat \cup {None}
    BY <1>1 DEF TypeOK, CloseOk
  <2>2. /\ pc' \in [Procs -> {"idle", "decide", "closing", "compound", "harvest"}]
        /\ obs' \in [Procs -> Readings \cup {None}]
        /\ local' \in [Procs -> Metadata \cup {None}]
        /\ why' \in [Procs -> Reasons]
    BY <1>1 DEF TypeOK, CloseOk, Goto, Forget, Reasons
  <2> QED
    BY <1>1, <2>1, <2>2 DEF TypeOK, CloseOk, Goto, Forget
<1>2. CASE CloseLost(p)
  BY <1>2 DEF TypeOK, CloseLost, Goto, Forget, Reasons, keyVars
<1>3. CASE CloseFail(p)
  BY <1>3 DEF TypeOK, CloseFail, Goto, Forget, Reasons, keyVars
<1> QED
  BY <1>1, <1>2, <1>3 DEF CloseStep

LEMMA RotateTypes ==
  ASSUME TypeOK, NEW p \in Runs, RotateOk(p) \/ RotateFail(p)
  PROVE  TypeOK'
<1>1. CASE RotateOk(p)
  BY <1>1, RunsAreProcs DEF TypeOK, RotateOk, Goto, Forget
<1>2. CASE RotateFail(p)
  BY <1>2, RunsAreProcs DEF TypeOK, RotateFail, Goto, Forget, keyVars
<1> QED
  BY <1>1, <1>2

LEMMA ResetKeepsMetadata ==
  ASSUME meta \in Metadata \cup {None}, ResetTrailing
  PROVE  meta' \in Metadata
<1>1. meta \in Metadata
  BY DEF ResetTrailing
<1>2. meta' = [peak |-> 0, armed |-> FALSE, gap_used |-> meta.gap_used,
               oor_used |-> meta.oor_used, snap |-> meta.snap]
  BY <1>1, Zenon DEF ResetTrailing, Metadata
<1> QED
  BY <1>1, <1>2 DEF Metadata

LEMMA AgentTypes ==
  ASSUME TypeOK, AgentStep
  PROVE  TypeOK'
<1>1. CASE OverrideHold
  BY <1>1, TimingAssumption DEF TypeOK, OverrideHold, procVars
<1>2. CASE ResetTrailing
  BY <1>2, ResetKeepsMetadata DEF TypeOK, ResetTrailing, keyVars, procVars
<1>3. ASSUME NEW r \in Readings \cup {None}, NEW force \in BOOLEAN, OverrideClose(r, force)
      PROVE  TypeOK'
  BY <1>3, RunsAreProcs DEF TypeOK, OverrideClose, Goto, Reasons, keyVars
<1> QED
  BY <1>1, <1>2, <1>3 DEF AgentStep

LEMMA PassTypes ==
  ASSUME TypeOK, Pass
  PROVE  TypeOK'
  BY TimingAssumption DEF TypeOK, Pass, keyVars, procVars

LEMMA StepTypes == TypeOK /\ [Next]_vars => TypeOK'
<1> SUFFICES ASSUME TypeOK, [Next]_vars PROVE TypeOK'
  OBVIOUS
<1>1. ASSUME NEW p \in Runs, RunStep(p) PROVE TypeOK'
  BY <1>1, ReadTypes, CleanUpTypes, SkipTypes, DecideTypes, RotateTypes DEF RunStep
<1>2. ASSUME NEW p \in Procs, CloseStep(p) PROVE TypeOK'
  BY <1>2, CloseTypes
<1>3. CASE AgentStep
  BY <1>3, AgentTypes
<1>4. CASE Pass
  BY <1>4, PassTypes
<1>5. CASE UNCHANGED vars
  BY <1>5 DEF TypeOK, vars, keyVars, procVars
<1> QED
  BY <1>1, <1>2, <1>3, <1>4, <1>5 DEF Next

\* Every key keeps its type, for every set of readings and parameters.
THEOREM TypeCorrect == Spec => []TypeOK
  BY InitTypes, StepTypes, PTL DEF Spec

--------------------------------------------------------------------------------
(* Closing. *)

\* Only a step that finds the account open and leaves it gone books a close.
LEMMA BookedStep ==
  ASSUME TypeOK, [Next]_vars
  PROVE  \/ booked' = booked /\ (chain = "gone" => chain' = "gone")
         \/ booked' = booked + 1 /\ chain = "open" /\ chain' = "gone"
<1>1. ASSUME NEW p \in Runs, RunStep(p)
      PROVE  booked' = booked /\ (chain = "gone" => chain' = "gone")
  BY <1>1 DEF RunStep, Read, CleanUpAbsent, SkipSuspectRead, Decide, RotateOk, RotateFail
<1>2. ASSUME NEW p \in Procs, CloseStep(p)
      PROVE  \/ booked' = booked /\ (chain = "gone" => chain' = "gone")
             \/ booked' = booked + 1 /\ chain = "open" /\ chain' = "gone"
  BY <1>2 DEF CloseStep, CloseOk, CloseLost, CloseFail
<1>3. CASE AgentStep
  BY <1>3 DEF AgentStep, OverrideHold, ResetTrailing, OverrideClose
<1>4. CASE Pass
  BY <1>4 DEF Pass
<1>5. CASE UNCHANGED vars
  BY <1>5 DEF vars
<1> QED
  BY <1>1, <1>2, <1>3, <1>4, <1>5 DEF Next

\* A close is booked at most once, and only of an account that is gone.
THEOREM ClosedOnce == Spec => []ClosedAtMostOnce
<1>1. Init => ClosedAtMostOnce
  BY DEF Init, ClosedAtMostOnce
<1>2. TypeOK /\ ClosedAtMostOnce /\ [Next]_vars => ClosedAtMostOnce'
  BY BookedStep DEF ClosedAtMostOnce, TypeOK
<1> QED
  BY <1>1, <1>2, TypeCorrect, PTL DEF Spec

\* A close is booked by the step that takes the account from open to gone, or never: one
\* whose answer was lost stays out of the daily PnL for good.
THEOREM BookedAsItCloses ==
  Spec => [][booked' # booked => /\ booked' = booked + 1
                                 /\ chain = "open" /\ chain' = "gone"]_vars
<1>1. TypeOK /\ [Next]_vars
        => [booked' # booked => booked' = booked + 1 /\ chain = "open" /\ chain' = "gone"]_vars
  BY BookedStep
<1> QED
  BY <1>1, TypeCorrect, PTL DEF Spec

\* A step that drops the keys leaves the account gone, and a gone account stays gone.
LEMMA OpenStep ==
  ASSUME TypeOK, OpenIsTracked, [Next]_vars
  PROVE  OpenIsTracked'
<1> USE DEF OpenIsTracked
<1>1. ASSUME NEW p \in Runs, RunStep(p) PROVE OpenIsTracked'
  <2>1. CASE \E ind \in {TRUE, FALSE, None} : Decide(p, ind)
    <3>1. PICK ind \in {TRUE, FALSE, None} : Decide(p, ind)
      BY <2>1
    <3>2. meta' \in Metadata
      BY <3>1, RunsAreProcs, MetadataTypes DEF TypeOK, Decide
    <3> QED
      BY <3>1, <3>2, NoneAssumption DEF Decide
  <2>2. CASE ~\E ind \in {TRUE, FALSE, None} : Decide(p, ind)
    BY <1>1, <2>2 DEF RunStep, Read, CleanUpAbsent, SkipSuspectRead, RotateOk,
                      RotateFail, TypeOK
  <2> QED
    BY <2>1, <2>2
<1>2. ASSUME NEW p \in Procs, CloseStep(p) PROVE OpenIsTracked'
  BY <1>2 DEF CloseStep, CloseOk, CloseLost, CloseFail
<1>3. CASE AgentStep
  <2>1. CASE ResetTrailing
    <3>1. meta' # None
      BY <2>1, NoneAssumption, ResetKeepsMetadata DEF TypeOK
    <3> QED
      BY <2>1, <3>1 DEF ResetTrailing
  <2> QED
    BY <1>3, <2>1 DEF AgentStep, OverrideHold, OverrideClose
<1>4. CASE Pass
  BY <1>4 DEF Pass
<1>5. CASE UNCHANGED vars
  BY <1>5 DEF vars
<1> QED
  BY <1>1, <1>2, <1>3, <1>4, <1>5 DEF Next

\* No failed or unseen close makes the monitor forget an open position.
THEOREM OpenStaysTracked == Spec => []OpenIsTracked
<1>1. Init => OpenIsTracked
  <2>1. FreshMetadata \in Metadata
    BY DEF FreshMetadata, Metadata
  <2> QED
    BY <2>1, NoneAssumption DEF Init, OpenIsTracked
<1> QED
  BY <1>1, OpenStep, TypeCorrect, PTL DEF Spec

--------------------------------------------------------------------------------
(* Deciding. *)

\* A tick that reads an emergency acts on it, whatever else is set.
LEMMA EmergencyActs ==
  ASSUME TypeOK, NEW p \in Runs, NEW ind \in {TRUE, FALSE, None}, Decide(p, ind),
         Emergency(obs[p], local[p])
  PROVE  pc'[p] = "closing" /\ why'[p] \in EmergencyReasons
<1> DEFINE r == obs[p]
           m == local[p]
<1>1. ExitReason(r, m) \in EmergencyReasons
  BY EmergencyReason
<1>2. ~Postponed(r, m, ind) /\ ~HeldBack(r, m)
  BY DEF Postponed, TimedByIndicator, HeldBack
<1>3. Acts(p, r, m, ind)
  BY <1>1, <1>2 DEF Acts, EmergencyReasons
<1> QED
  BY <1>1, <1>3, RunsAreProcs DEF Decide, Goto, TypeOK

\* Only Decide leaves "decide" on a tick that is not skipped.
LEMMA OnlyDecideDecides ==
  ASSUME TypeOK, NEW q \in Runs, Next, Decides(q)
  PROVE  \E ind \in {TRUE, FALSE, None} : Decide(q, ind)
<1> USE DEF Decides
<1>1. ASSUME NEW p \in Runs, RunStep(p)
      PROVE  \E ind \in {TRUE, FALSE, None} : Decide(q, ind)
  <2>1. CASE p = q
    BY <1>1, <2>1, RunsAreProcs
    DEF RunStep, Read, CleanUpAbsent, SkipSuspectRead, RotateOk, RotateFail, Goto,
        procVars, TypeOK
  <2>2. CASE p # q
    BY <1>1, <2>2, RunsAreProcs
    DEF RunStep, Read, CleanUpAbsent, SkipSuspectRead, Decide, RotateOk, RotateFail,
        Goto, procVars, TypeOK
  <2> QED
    BY <2>1, <2>2
<1>2. ASSUME NEW p \in Procs, CloseStep(p) PROVE FALSE
  BY <1>2, RunsAreProcs DEF CloseStep, CloseOk, CloseLost, CloseFail, Goto, TypeOK
<1>3. ~AgentStep
  BY RunsAreProcs
  DEF AgentStep, OverrideHold, ResetTrailing, OverrideClose, Goto, procVars, TypeOK
<1>4. ~Pass
  BY DEF Pass, procVars
<1> QED
  BY <1>1, <1>2, <1>3, <1>4 DEF Next

\* An emergency is never suppressed, for any hold, indicator, grace or softer rule.
THEOREM EmergencyAlwaysActs == Spec => EmergencyNeverSuppressed
<1>1. ASSUME TypeOK, [Next]_vars, NEW p \in Runs, Decides(p), Emergency(obs[p], local[p])
      PROVE  pc'[p] = "closing" /\ why'[p] \in EmergencyReasons
  <2>1. CASE Next
    BY <1>1, <2>1, OnlyDecideDecides, EmergencyActs
  <2>2. CASE UNCHANGED vars
    BY <1>1, <2>2 DEF Decides, vars, procVars
  <2> QED
    BY <1>1, <2>1, <2>2
<1>2. TypeOK /\ [Next]_vars
        => [\A p \in Runs : Decides(p) /\ Emergency(obs[p], local[p])
              => pc'[p] = "closing" /\ why'[p] \in EmergencyReasons]_vars
  BY <1>1
<1> QED
  BY <1>2, TypeCorrect, PTL DEF Spec, EmergencyNeverSuppressed

\* Below the stop-loss a rule fires, and none that the indicator may postpone but the low
\* yield: a lock of gains needs a gain.
LEMMA HardStopRaises ==
  ASSUME NEW r \in Readings, NEW m, HardSl(r), ~LowYield(r), StopLoss < OorUpsideTp
  PROVE  ExitReason(r, m) # "none" /\ ~TimedByIndicator(r, m)
<1>1. Pnl(r) \in Int /\ Pnl(r) < OorUpsideTp
  BY PnlType, SoulAssumption DEF HardSl, OorUpsideTp
<1>2. OorReason(r, m) \in {"none", "oor_plain", "oor_dump"}
  BY <1>1 DEF OorReason, OorUpsideTp
<1>3. ExitReason(r, m) \in {"rug", "emergency_sl", "oor_plain", "oor_dump", "pumped",
                            "hard_sl"}
  BY <1>2 DEF ExitReason, Overwriting
<1>4. ExitReason(r, m) \in {"rug", "emergency_sl"} => Emergency(r, m)
  BY <1>2 DEF ExitReason, Overwriting, SoftReason, Emergency
<1> QED
  BY <1>3, <1>4 DEF TimedByIndicator

\* "Hard floor: pnl_pct < -25% ... always closes" (SOUL_dlmm_section.md:73): the loop
\* closes on the tick that reads it, for any indicator, grace and softer rule, unless an AI
\* hold is on or the low-yield rule has renamed the exit - the two ways out the code has.
THEOREM HardStopCloses ==
  StopLoss < OorUpsideTp =>
    (Spec => [][\A p \in Runs :
                  /\ Decides(p) /\ p # "report" /\ HardSl(obs[p])
                  /\ ~HoldActive /\ ~LowYield(obs[p])
                  => pc'[p] = "closing"]_vars)
<1> DEFINE A == \A p \in Runs : /\ Decides(p) /\ p # "report" /\ HardSl(obs[p])
                                /\ ~HoldActive /\ ~LowYield(obs[p])
                                => pc'[p] = "closing"
<1> SUFFICES ASSUME StopLoss < OorUpsideTp PROVE Spec => [][A]_vars
  OBVIOUS
<1>1. ASSUME TypeOK, Next, NEW p \in Runs, Decides(p), p # "report", HardSl(obs[p]),
             ~HoldActive, ~LowYield(obs[p])
      PROVE  pc'[p] = "closing"
  <2>1. PICK ind \in {TRUE, FALSE, None} : Decide(p, ind)
    BY <1>1, OnlyDecideDecides
  <2>2. obs[p] \in Readings
    BY <1>1, RunsAreProcs DEF Decides, TypeOK
  <2>3. Acts(p, obs[p], local[p], ind)
    BY <1>1, <2>2, HardStopRaises DEF Acts, Postponed, HeldBack
  <2> QED
    BY <1>1, <2>1, <2>3, RunsAreProcs DEF Decide, Goto, TypeOK
<1>2. TypeOK /\ [Next]_vars => [A]_vars
  BY <1>1
<1> QED
  BY <1>2, TypeCorrect, PTL DEF Spec

\* Only an emergency takes a report to "closing", and nothing changes its reason there.
LEMMA ReportStep ==
  ASSUME TypeOK, ReportClosesOnlyEmergencies, [Next]_vars
  PROVE  ReportClosesOnlyEmergencies'
<1> SUFFICES ASSUME "report" \in Procs, pc'["report"] = "closing"
             PROVE  why'["report"] \in EmergencyReasons
  BY DEF ReportClosesOnlyEmergencies
<1> DEFINE Same == pc["report"] = "closing" /\ why'["report"] = why["report"]
<1>1. "report" \in Runs
  BY RunsAssumption
<1>2. Same => why'["report"] \in EmergencyReasons
  BY DEF ReportClosesOnlyEmergencies
<1>3. ASSUME NEW p \in Runs, NEW ind \in {TRUE, FALSE, None}, Decide(p, ind)
      PROVE  Same \/ why'["report"] \in EmergencyReasons
  <2>1. CASE p = "report"
    <3>1. Acts(p, obs[p], local[p], ind)
      BY <1>3, <2>1, <1>1, RunsAreProcs DEF Decide, Goto, TypeOK
    <3>2. ExitReason(obs[p], local[p]) \in EmergencyReasons
      BY <2>1, <3>1, EmergencyReason DEF Acts
    <3> QED
      BY <1>3, <2>1, <3>1, <3>2 DEF Decide, TypeOK
  <2>2. CASE p # "report"
    BY <1>3, <2>2 DEF Decide, Goto, TypeOK
  <2> QED
    BY <2>1, <2>2
<1>4. ASSUME NEW p \in Runs, RunStep(p) PROVE Same \/ why'["report"] \in EmergencyReasons
  <2>1. CASE \E ind \in {TRUE, FALSE, None} : Decide(p, ind)
    BY <1>3, <2>1
  <2>2. CASE \E r \in Readings : Read(p, r)
    BY <2>2, RunsAreProcs DEF Read, Goto, TypeOK
  <2>3. CASE CleanUpAbsent(p) \/ SkipSuspectRead(p) \/ RotateOk(p) \/ RotateFail(p)
    BY <2>3, RunsAreProcs
    DEF CleanUpAbsent, SkipSuspectRead, RotateOk, RotateFail, Goto, procVars, TypeOK
  <2> QED
    BY <1>4, <2>1, <2>2, <2>3 DEF RunStep
<1>5. ASSUME NEW p \in Procs, CloseStep(p) PROVE Same
  BY <1>5 DEF CloseStep, CloseOk, CloseLost, CloseFail, Goto, TypeOK
<1>6. CASE AgentStep
  BY <1>6, <1>1, <1>2, RunsAreProcs
  DEF AgentStep, OverrideHold, ResetTrailing, OverrideClose, Goto, procVars, TypeOK
<1>7. CASE Pass
  BY <1>7, <1>2 DEF Pass, procVars
<1>8. CASE UNCHANGED vars
  BY <1>8, <1>2 DEF vars, procVars
<1> QED
  BY <1>2, <1>4, <1>5, <1>6, <1>7, <1>8 DEF Next

\* A report-only run executes no close but an emergency's.
THEOREM ReportIsReadOnly == Spec => []ReportClosesOnlyEmergencies
<1>1. Init => ReportClosesOnlyEmergencies
  BY DEF Init, ReportClosesOnlyEmergencies
<1> QED
  BY <1>1, ReportStep, TypeCorrect, PTL DEF Spec

--------------------------------------------------------------------------------
(* The agent's close.                                                              *)

\* Only an accepted --override-close takes the agent from idle to closing.
LEMMA OnlyOverrideCloses ==
  ASSUME TypeOK, Next, pc["agent"] = "idle", pc'["agent"] = "closing"
  PROVE  \E r \in Readings \cup {None}, force \in BOOLEAN : OverrideClose(r, force)
<1>1. ASSUME NEW p \in Runs, RunStep(p) PROVE FALSE
  BY <1>1, RunsAreProcs
  DEF RunStep, Read, CleanUpAbsent, SkipSuspectRead, Decide, RotateOk, RotateFail, Goto,
      procVars, TypeOK
<1>2. ASSUME NEW p \in Procs, CloseStep(p) PROVE FALSE
  BY <1>2, RunsAreProcs DEF CloseStep, CloseOk, CloseLost, CloseFail, Goto, TypeOK
<1>3. CASE AgentStep
  BY <1>3 DEF AgentStep, OverrideHold, ResetTrailing, procVars
<1>4. ~Pass
  BY DEF Pass, procVars
<1> QED
  BY <1>1, <1>2, <1>3, <1>4 DEF Next

\* HoldBlocksOverride is broken by an answer without the position and by nothing else: a
\* hold refuses every unforced close of a position the API lists above -25%.
THEOREM HoldBlocksKnown ==
  Spec => [][/\ pc["agent"] = "idle" /\ pc'["agent"] = "closing"
             /\ why'["agent"] = "override" /\ HoldActive
             => obs'["agent"] = None \/ obs'["agent"].pnl <= -250]_vars
<1> DEFINE A == /\ pc["agent"] = "idle" /\ pc'["agent"] = "closing"
                /\ why'["agent"] = "override" /\ HoldActive
                => obs'["agent"] = None \/ obs'["agent"].pnl <= -250
<1>1. TypeOK /\ Next => A
  <2> SUFFICES ASSUME TypeOK, Next, pc["agent"] = "idle", pc'["agent"] = "closing",
                      why'["agent"] = "override", HoldActive
               PROVE  obs'["agent"] = None \/ obs'["agent"].pnl <= -250
    OBVIOUS
  <2>1. PICK r \in Readings \cup {None}, force \in BOOLEAN : OverrideClose(r, force)
    BY OnlyOverrideCloses
  <2>2. obs'["agent"] = r /\ ~force
    BY <2>1, RunsAreProcs DEF OverrideClose, TypeOK
  <2>3. r = None \/ ~(r.pnl > -250)
    BY <2>1, <2>2 DEF OverrideClose, HoldRefuses
  <2>4. r # None => r.pnl \in Int
    BY InputAssumption DEF Reading
  <2> QED
    BY <2>2, <2>3, <2>4
<1>2. TypeOK /\ [Next]_vars => [A]_vars
  BY <1>1 DEF vars, procVars
<1> QED
  BY <1>2, TypeCorrect, PTL DEF Spec

--------------------------------------------------------------------------------
(* The trailing exit.  The ratchet is not monotone in the peak (4.9% locks 3.4%,    *)
(* 5% locks 2.5%), so that the floor lies above the lock is not inductive: that   *)
(* every armed peak is at least 2% is.                                             *)

EarnedPeak(m) == m.armed /\ TrailingTrigger >= 20 => pos.mode # "turnover" /\ m.peak >= 20
PeaksAreEarned == /\ meta # None => EarnedPeak(meta)
                  /\ \A p \in Procs : local[p] # None => EarnedPeak(local[p])

LEMMA FloorLocksGain ==
  ASSUME NEW peak \in Int, peak >= 20, TrailingDrop + TrailingMinLock < 20
  PROVE  TrailingFloor(peak) > 10 * TrailingMinLock
  BY SoulAssumption DEF TrailingFloor, TrailingMinLock, LargerOf

\* The ratchet leaves room below every peak: at a new high no trailing exit fires, whatever
\* its tier, although the tiers' floors are not monotone.
THEOREM NewHighNeverTrails ==
  ASSUME NEW r \in Readings, NEW m \in Metadata, TrailingDrop > 0, Pnl(r) >= m.peak
  PROVE  ~BelowFloor(r, m)
<1>1. Pnl(r) \in Int /\ m.peak \in Int /\ TrailingDrop \in Int
  BY PnlType, SoulAssumption DEF Metadata
<1>2. Peak(r, m) = Pnl(r)
  BY <1>1 DEF Peak, LargerOf
<1>3. TrailingFloor(Pnl(r)) < 10 * Pnl(r)
  BY <1>1 DEF TrailingFloor, LargerOf
<1>4. TrailingFloor(Pnl(r)) \in Int
  BY <1>1 DEF TrailingFloor, LargerOf
<1> QED
  BY <1>1, <1>2, <1>3, <1>4 DEF BelowFloor

\* The arming rule without a division says what the script computes (1068-1078):
\* max(2%, min(trigger, trigger * fee / 30)), all of it times 30.
LEMMA TriggerIsScaled ==
  ASSUME NEW r \in Readings, r.fee > 0
  PROVE  ReachesTrigger(r) <=>
           30 * Pnl(r) >= LargerOf(30 * 20, SmallerOf(30 * TrailingTrigger,
                                                      TrailingTrigger * r.fee))
<1>1. Pnl(r) \in Int /\ r.fee \in Int /\ TrailingTrigger \in Int
  BY PnlType, SoulAssumption DEF Reading
<1> DEFINE share == TrailingTrigger * r.fee
<1>2. share \in Int
  BY <1>1
<1> HIDE DEF share
<1>3. (Pnl(r) >= 20 /\ (Pnl(r) >= TrailingTrigger \/ 30 * Pnl(r) >= share))
        <=> 30 * Pnl(r) >= LargerOf(30 * 20, SmallerOf(30 * TrailingTrigger, share))
  BY <1>1, <1>2 DEF LargerOf, SmallerOf
<1> QED
  BY <1>3 DEF ReachesTrigger, share

LEMMA TickEarnsPeak ==
  ASSUME NEW r \in Readings, NEW m \in Metadata, EarnedPeak(m)
  PROVE  EarnedPeak(MetadataAfter(r, m))
<1>1. Pnl(r) \in Int /\ r.fee \in Nat /\ m.peak \in Int
  BY PnlType DEF Reading, Metadata
<1>2. ReachesTrigger(r) /\ TrailingTrigger >= 20 => Pnl(r) >= 20
  BY <1>1, SoulAssumption DEF ReachesTrigger
<1>3. Peak(r, m) >= Pnl(r) /\ Peak(r, m) >= m.peak /\ Peak(r, m) \in Int
  BY <1>1 DEF Peak, LargerOf
<1>4. /\ MetadataAfter(r, m).peak = Peak(r, m)
      /\ MetadataAfter(r, m).armed = Armed(r, m)
  BY DEF MetadataAfter
<1>5. Armed(r, m) /\ TrailingTrigger >= 20 => pos.mode # "turnover" /\ Peak(r, m) >= 20
  <2>1. CASE m.armed
    BY <1>1, <1>3, <2>1 DEF EarnedPeak
  <2>2. CASE ~m.armed
    BY <1>1, <1>2, <1>3, <2>2 DEF Armed
  <2> QED
    BY <2>1, <2>2
<1> QED
  BY <1>4, <1>5 DEF EarnedPeak

LEMMA PeakStep ==
  ASSUME TypeOK, PeaksAreEarned, [Next]_vars
  PROVE  PeaksAreEarned'
<1> USE DEF PeaksAreEarned, EarnedPeak
<1>1. ASSUME NEW p \in Runs, RunStep(p) PROVE PeaksAreEarned'
  <2>1. CASE \E ind \in {TRUE, FALSE, None} : Decide(p, ind)
    <3>1. PICK ind \in {TRUE, FALSE, None} : Decide(p, ind)
      BY <2>1
    <3>2. obs[p] \in Readings /\ local[p] \in Metadata /\ local[p] # None
      BY <3>1, RunsAreProcs DEF TypeOK, Decide
    <3>3. EarnedPeak(local[p])
      BY <3>2, RunsAreProcs
    <3>4. EarnedPeak(meta') /\ pos' = pos
      BY <3>1, <3>2, <3>3, TickEarnsPeak DEF Decide
    <3>5. \A q \in Procs : local'[q] \in {local[q], None}
      BY <3>1 DEF Decide, TypeOK
    <3> QED
      BY <3>4, <3>5
  <2>2. CASE \E r \in Readings : Read(p, r)
    BY <2>2 DEF Read, TypeOK
  <2>3. CASE CleanUpAbsent(p) \/ SkipSuspectRead(p) \/ RotateOk(p) \/ RotateFail(p)
    BY <2>3 DEF CleanUpAbsent, SkipSuspectRead, RotateOk, RotateFail, Forget, procVars,
                TypeOK
  <2> QED
    BY <1>1, <2>1, <2>2, <2>3 DEF RunStep
<1>2. ASSUME NEW p \in Procs, CloseStep(p) PROVE PeaksAreEarned'
  BY <1>2 DEF CloseStep, CloseOk, CloseLost, CloseFail, Forget, TypeOK
<1>3. CASE AgentStep
  <2>1. CASE ResetTrailing
    <3>1. meta \in Metadata /\ meta'.armed = FALSE
      BY <2>1 DEF ResetTrailing, TypeOK, Metadata
    <3> QED
      BY <2>1, <3>1 DEF ResetTrailing, procVars
  <2> QED
    BY <1>3, <2>1 DEF AgentStep, OverrideHold, OverrideClose, procVars
<1>4. CASE Pass
  BY <1>4 DEF Pass, procVars
<1>5. CASE UNCHANGED vars
  BY <1>5 DEF vars, procVars
<1> QED
  BY <1>1, <1>2, <1>3, <1>4, <1>5 DEF Next

\* An armed trailing exit always has a floor above the minimum lock, in Redis and in
\* every copy a process may write back, for every trigger of at least 2% and every
\* drop under 1.7%.
THEOREM GainsStayLocked == Spec => []ArmedLocksGain
<1>1. Init => PeaksAreEarned
  BY DEF Init, PeaksAreEarned, EarnedPeak, FreshMetadata
<1>2. TypeOK /\ PeaksAreEarned => ArmedLocksGain
  <2>1. ASSUME NEW m \in Metadata, EarnedPeak(m) PROVE LocksGain(m)
    <3>1. m.peak \in Int
      BY DEF Metadata
    <3> QED
      BY <2>1, <3>1, FloorLocksGain DEF EarnedPeak, LocksGain
  <2> QED
    BY <2>1 DEF TypeOK, PeaksAreEarned, ArmedLocksGain
<1> QED
  BY <1>1, <1>2, PeakStep, TypeCorrect, PTL DEF Spec

--------------------------------------------------------------------------------
(* The life of a position. *)

\* An account never comes back.
LEMMA GoneStaysGone ==
  ASSUME TypeOK, [Next]_vars
  PROVE  chain' = chain \/ (chain = "open" /\ chain' = "gone")
<1>1. CASE UNCHANGED vars
  BY <1>1 DEF vars
<1>2. ASSUME NEW p \in Runs, RunStep(p) PROVE chain' = chain \/ chain' = "gone"
  BY <1>2 DEF RunStep, Read, CleanUpAbsent, SkipSuspectRead, Decide, RotateOk, RotateFail
<1>3. ASSUME NEW p \in Procs, CloseStep(p) PROVE chain' = chain \/ chain' = "gone"
  BY <1>3 DEF CloseStep, CloseOk, CloseLost, CloseFail
<1>4. CASE AgentStep
  BY <1>4 DEF AgentStep, OverrideHold, ResetTrailing, OverrideClose
<1>5. CASE Pass
  BY <1>5 DEF Pass
<1> QED
  BY <1>1, <1>2, <1>3, <1>4, <1>5 DEF Next, TypeOK

\* A step of any process is a step of PositionLife: it closes the account, registers it
\* (metadata read before a close is written back after it) or forgets what is gone.
LEMMA MonitorLives ==
  ASSUME TypeOK, OpenIsTracked, OpenIsTracked', [Next]_vars
  PROVE  [Life!Next]_Life!life
<1> DEFINE Open == {p \in {"it"} : chain = "open"}
           Known == {p \in {"it"} : meta # None}
<1>1. CASE chain = "open" /\ chain' = "gone"
  <2>1. Life!Close("it")
    BY <1>1 DEF Life!Close, OpenIsTracked
  <2> QED
    BY <2>1 DEF Life!Next
<1>2. CASE chain' = chain
  <2>1. Open' = Open
    BY <1>2
  <2>2. CASE meta = None /\ meta' # None
    <3>1. Life!Register("it")
      BY <2>1, <2>2 DEF Life!Register
    <3> QED
      BY <3>1 DEF Life!Next
  <2>3. CASE meta # None /\ meta' = None
    <3>1. chain # "open"
      BY <1>2, <2>3 DEF OpenIsTracked
    <3>2. Life!Forget({"it"})
      BY <2>1, <2>3, <3>1 DEF Life!Forget
    <3> QED
      BY <3>2 DEF Life!Next
  <2>4. CASE (meta = None) = (meta' = None)
    BY <2>1, <2>4 DEF Life!life
  <2> QED
    BY <2>2, <2>3, <2>4
<1> QED
  BY <1>1, <1>2, GoneStaysGone

\* Loop, report and agent beside each other implement PositionLife (monitor 948-970,
\* 1086, 1346-1529): whoever overtakes whom, the key outlives the account.
THEOREM MonitorKeepsLife == Spec => KeepsLife
<1>1. Init => Life!Init
  <2>1. FreshMetadata \in Metadata
    BY DEF FreshMetadata, Metadata
  <2> QED
    BY <2>1, NoneAssumption DEF Init, Life!Init
<1>2. TypeOK /\ OpenIsTracked /\ OpenIsTracked' /\ [Next]_vars => [Life!Next]_Life!life
  BY MonitorLives
<1> QED
  BY <1>1, <1>2, TypeCorrect, OpenStaysTracked, PTL DEF Spec, KeepsLife, Life!Spec
================================================================================
