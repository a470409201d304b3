---------------------- MODULE PositionMonitorHistoryProofs ----------------------
(***************************************************************************)
(* What the monitor's ticks add up to, for every set of processes,         *)
(* positions and readings and every parameter of SOUL.md: a grace is       *)
(* granted once, a postponement and a fuse end, a doubted read needs a     *)
(* second one.  Each follows from what a key of Redis or a flag of the     *)
(* metadata says of the past (HistoryInv).                                 *)
(***************************************************************************)
EXTENDS PositionMonitorHistory, PositionMonitorProofs

\* The history never influences a step: without it a behaviour is one of the monitor.
LEMMA HistoryOnlyRecords == HSpec => Spec
<1>1. HInit => Init
  BY DEF HInit
<1>2. [HNext]_<<vars, history>> => [Next]_vars
  BY DEF HNext, Next, RunStep
<1> QED
  BY <1>1, <1>2, PTL DEF HSpec, Spec

LEMMA HistoryStepTypes == TypeOK /\ [HNext]_<<vars, history>> => TypeOK'
<1>1. [HNext]_<<vars, history>> => [Next]_vars
  BY DEF HNext, Next, RunStep
<1> QED
  BY <1>1, StepTypes

--------------------------------------------------------------------------------
(* The inductive invariant.                                                      *)

\* A process at work whose copy of the metadata is the latest.
Fresh(p) == pc[p] = "decide" /\ p \notin overtaken

\* The shortest fuse: a grace is only granted on the token side.
Fuse == SmallerOf(MaxOor, OorDownsideMax)

HistoryTypes ==
  /\ overtaken \subseteq {p \in Runs : pc[p] = "decide"}
  /\ gap_granted \in BOOLEAN
  /\ postponed_from \in Int \cup {None}
  /\ oor_from \in Int \cup {None} /\ extended_at \in Int \cup {None}
  /\ indicator_blocked_since # None => indicator_blocked_since <= clock

\* A granted gap-through grace is marked as used, in Redis and in every fresh copy.
GapRecorded ==
  gap_granted => /\ meta # None => meta.gap_used
                 /\ \A p \in Runs : Fresh(p) => local[p].gap_used

\* The key of the indicator block is at least as old as the series it bounds.
PostponementRecorded ==
  postponed_from # None /\ tracked
    => indicator_blocked_since # None /\ indicator_blocked_since <= postponed_from

\* The suspect key remembers the tick before, and no tick but that one.
DoubtRecorded == doubted_at = suspect_pnl_since

\* The out-of-range key says when the episode began, or when its grace was given.
FuseRecorded ==
  tracked =>
    /\ extended_at = None => oor_from = oor_since
    /\ extended_at # None =>
         /\ oor_from # None /\ oor_since # None
         /\ oor_since = extended_at - (Fuse - OorRecoveryGrace)
         /\ meta # None => meta.oor_used
         /\ \A p \in Runs : Fresh(p) => local[p].oor_used

HistoryInv == /\ HistoryTypes /\ GapRecorded /\ PostponementRecorded
              /\ DoubtRecorded /\ FuseRecorded

LEMMA InitHistory == HInit => HistoryInv
  BY DEF HInit, Init, HistoryInv, HistoryTypes, GapRecorded, PostponementRecorded,
         DoubtRecorded, FuseRecorded

--------------------------------------------------------------------------------
(* One step.                                                                     *)

\* The process that decides is done, and whoever is still at work is overtaken.
LEMMA DecideOvertakes ==
  ASSUME TypeOK, NEW p \in Runs, NEW ind \in {TRUE, FALSE, None},
         Decide(p, ind), RecordDecision(p, ind)
  PROVE  /\ pc'[p] # "decide" /\ \A q \in Runs : ~Fresh(q)'
         /\ overtaken' \subseteq {q \in Runs : pc'[q] = "decide"}
<1>1. pc'[p] # "decide" /\ \A q \in Runs \ {p} : pc'[q] = pc[q]
  BY RunsAreProcs DEF Decide, Goto, TypeOK
<1>2. overtaken' = {q \in Runs \ {p} : pc[q] = "decide"}
  BY DEF RecordDecision
<1> QED
  BY <1>1, <1>2 DEF Fresh

\* The exit that goes out of range names a reason.
LEMMA OorRaises ==
  ASSUME NEW r, NEW m, OorExpired(r), ~OorGrace(r, m)
  PROVE  ExitReason(r, m) # "none"
<1>1. OorReason(r, m) # "none"
  BY DEF OorReason, OorExpired
<1> QED
  BY <1>1 DEF ExitReason, Overwriting

LEMMA LimitTypes ==
  ASSUME NEW r
  PROVE  /\ OorLimit(r) \in Int /\ Fuse \in Int /\ OorRecoveryGrace \in Int
         /\ MaxIndicatorBlock \in Int /\ SuspectTtl \in Int
  BY SoulAssumption, TimingAssumption DEF OorLimit, Fuse, SmallerOf

LEMMA DecideHistory ==
  ASSUME TypeOK, HistoryInv, NEW p \in Runs, NEW ind \in {TRUE, FALSE, None},
         Decide(p, ind), RecordDecision(p, ind)
  PROVE  HistoryInv'
<1> DEFINE r == obs[p]
           m == local[p]
<1>1. r \in Readings /\ m \in Metadata /\ r.in_range \in BOOLEAN /\ pc[p] = "decide"
  BY RunsAreProcs, PnlType DEF TypeOK, Decide, Reading
<1>2. clock \in Int /\ clock' = clock /\ tracked' = tracked /\ clock # None
  BY NoneAssumption DEF TypeOK, Decide
<1>3. \A q \in Runs : ~Fresh(q)'
  BY DecideOvertakes
<1>4. meta' = MetadataAfter(r, m) /\ oor_since' = OorSinceAfter(r, m)
  BY DEF Decide
<1>5. HistoryTypes'
  <2>1. gap_granted' \in BOOLEAN
    BY DEF RecordDecision
  <2>2. postponed_from' \in Int \cup {None}
    BY <1>2 DEF RecordDecision, HistoryInv, HistoryTypes
  <2>3. oor_since' \in Int \cup {None}
    BY <1>1, <1>4, TimerTypes
  <2>4. oor_from' \in Int \cup {None} /\ extended_at' \in Int \cup {None}
    BY <1>2, <2>3 DEF RecordDecision, HistoryInv, HistoryTypes
  <2>5. indicator_blocked_since' # None => indicator_blocked_since' <= clock'
    BY <1>2 DEF Decide, BlockedSinceAfter, HistoryInv, HistoryTypes
  <2> QED
    BY <2>1, <2>2, <2>4, <2>5, DecideOvertakes DEF HistoryTypes
<1>6. GapRecorded'
  <2>1. gap_granted' => BelowFloor(r, m) /\ (GapGrace(r, m) \/ m.gap_used)
    BY <1>1 DEF RecordDecision, HistoryInv, GapRecorded, Fresh
  <2>2. BelowFloor(r, m) /\ (GapGrace(r, m) \/ m.gap_used) => MetadataAfter(r, m).gap_used
    BY DEF MetadataAfter
  <2> QED
    BY <1>3, <1>4, <2>1, <2>2 DEF GapRecorded
<1>7. PostponementRecorded'
  <2> SUFFICES ASSUME postponed_from' # None, tracked
               PROVE  /\ indicator_blocked_since' # None
                      /\ indicator_blocked_since' <= postponed_from'
    BY <1>2 DEF PostponementRecorded
  <2>1. /\ TimedByIndicator(r, m) /\ ~BlockTimedOut /\ ind = FALSE
        /\ postponed_from' = IF postponed_from = None THEN clock ELSE postponed_from
    BY DEF RecordDecision, Postponed
  <2>2. ind # TRUE
    BY <2>1
  <2>3. indicator_blocked_since' = IF indicator_blocked_since = None THEN clock
                                   ELSE indicator_blocked_since
    BY <2>1, <2>2 DEF Decide, BlockedSinceAfter
  <2> QED
    BY <1>2, <2>1, <2>3 DEF HistoryInv, HistoryTypes, PostponementRecorded
<1>8. DoubtRecorded'
  BY DEF HistoryInv, DoubtRecorded, RecordDecision, Decide
<1>9. FuseRecorded'
  <2> SUFFICES ASSUME tracked
               PROVE  /\ extended_at' = None => oor_from' = oor_since'
                      /\ extended_at' # None =>
                           /\ oor_from' # None /\ oor_since' # None
                           /\ oor_since' = extended_at' - (Fuse - OorRecoveryGrace)
                           /\ meta'.oor_used
    BY <1>2, <1>3 DEF FuseRecorded
  <2>1. CASE r.in_range
    BY <1>4, <2>1 DEF RecordDecision, OorSinceAfter
  <2>2. CASE ~r.in_range /\ p \in overtaken
    BY <2>2 DEF RecordDecision
  <2>3. CASE ~r.in_range /\ p \notin overtaken /\ OorGrace(r, m)
    <3>1. oor_since # None /\ OorLimit(r) = Fuse
      BY <2>3 DEF OorGrace, OorExpired, OorLimit, Fuse
    <3>2. oor_since' = clock - (Fuse - OorRecoveryGrace) /\ extended_at' = clock
      BY <1>4, <2>3, <3>1 DEF OorSinceAfter, RecordDecision
    <3>3. meta'.oor_used
      BY <1>4, <2>3 DEF MetadataAfter
    <3>4. oor_from' # None
      BY <1>2, <2>3 DEF RecordDecision
    <3>5. clock - (Fuse - OorRecoveryGrace) \in Int
      BY <1>2, LimitTypes
    <3> QED
      BY <1>2, <3>2, <3>3, <3>4, <3>5, NoneAssumption
  <2>4. CASE ~r.in_range /\ p \notin overtaken /\ ~OorGrace(r, m)
    <3>1. /\ extended_at' = extended_at
          /\ oor_from' = IF oor_from = None THEN clock ELSE oor_from
          /\ oor_since' = IF oor_since = None THEN clock ELSE oor_since
      BY <1>4, <2>4 DEF RecordDecision, OorSinceAfter
    <3>2. extended_at # None => m.oor_used
      BY <1>1, <2>4 DEF HistoryInv, FuseRecorded, Fresh
    <3>3. m.oor_used => meta'.oor_used
      BY <1>4, <2>4 DEF MetadataAfter
    <3> QED
      BY <3>1, <3>2, <3>3 DEF HistoryInv, FuseRecorded
  <2> QED
    BY <2>1, <2>2, <2>3, <2>4
<1> QED
  BY <1>5, <1>6, <1>7, <1>8, <1>9 DEF HistoryInv

\* A step that takes no decision and doubts nothing hands out Redis' own copy of the
\* metadata, unmarks no grace, and moves no key but with the position's own end.
Quiet ==
  /\ UNCHANGED <<overtaken, postponed_from, oor_from, extended_at, doubted_at>>
  /\ UNCHANGED suspect_pnl_since
  /\ gap_granted' \in BOOLEAN /\ (gap_granted' => gap_granted)
  /\ clock' \in Int /\ clock' >= clock
  /\ indicator_blocked_since' \in {indicator_blocked_since, None}
  /\ tracked' => tracked /\ UNCHANGED <<oor_since, indicator_blocked_since>>
  /\ meta' # None => /\ meta # None /\ meta'.oor_used = meta.oor_used
                     /\ gap_granted' => meta'.gap_used = meta.gap_used
  /\ \A q \in Runs : pc[q] = "decide" => pc'[q] = "decide"
  /\ \A q \in Runs : pc'[q] = "decide" =>
       \/ pc[q] = "decide" /\ local'[q] = local[q]
       \/ meta # None /\ local'[q] = meta

LEMMA QuietHistory ==
  ASSUME TypeOK, HistoryInv, Quiet
  PROVE  HistoryInv'
<1> USE DEF HistoryInv
<1>1. HistoryTypes'
  <2>1. overtaken' \subseteq {q \in Runs : pc'[q] = "decide"}
    BY DEF HistoryTypes, Quiet
  <2>2. indicator_blocked_since' # None => indicator_blocked_since' <= clock'
    <3>1. clock \in Int
      BY DEF TypeOK
    <3> QED
      BY <3>1 DEF HistoryTypes, Quiet, TypeOK
  <2> QED
    BY <2>1, <2>2 DEF HistoryTypes, Quiet
<1>2. \A q \in Runs : Fresh(q)' => \/ Fresh(q) /\ local'[q] = local[q]
                                   \/ meta # None /\ local'[q] = meta
  BY DEF Fresh, Quiet
<1>3. GapRecorded'
  BY <1>2 DEF GapRecorded, Quiet
<1>4. PostponementRecorded'
  BY DEF PostponementRecorded, Quiet
<1>5. DoubtRecorded'
  BY DEF DoubtRecorded, Quiet
<1>6. FuseRecorded'
  BY <1>2 DEF FuseRecorded, Quiet, Fuse
<1> QED
  BY <1>1, <1>3, <1>4, <1>5, <1>6

LEMMA SkipHistory ==
  ASSUME TypeOK, HistoryInv, NEW p \in Runs, SkipSuspectRead(p), RecordSkip(p)
  PROVE  HistoryInv'
<1> USE DEF HistoryInv
<1>1. \A q \in Runs : pc'[q] = "decide" => q # p /\ pc[q] = "decide" /\ local'[q] = local[q]
  BY RunsAreProcs DEF SkipSuspectRead, Goto, Forget, TypeOK
<1>2. \A q \in Runs \ {p} : pc'[q] = pc[q]
  BY RunsAreProcs DEF SkipSuspectRead, Goto, TypeOK
<1>3. \A q \in Runs : Fresh(q)' => Fresh(q) /\ local'[q] = local[q]
  BY <1>1 DEF Fresh, RecordSkip
<1>4. HistoryTypes'
  BY <1>2 DEF HistoryTypes, SkipSuspectRead, RecordSkip
<1>5. GapRecorded' /\ PostponementRecorded' /\ FuseRecorded'
  BY <1>3 DEF GapRecorded, PostponementRecorded, FuseRecorded, Fuse, SkipSuspectRead,
              RecordSkip
<1>6. DoubtRecorded'
  BY DEF DoubtRecorded, SkipSuspectRead, RecordSkip
<1> QED
  BY <1>4, <1>5, <1>6

LEMMA ReadIsQuiet ==
  ASSUME TypeOK, HistoryInv, NEW p \in Runs, NEW r \in Readings, Read(p, r),
         UNCHANGED history
  PROVE  Quiet
<1>1. \A q \in Runs : pc'[q] = IF q = p THEN "decide" ELSE pc[q]
  BY RunsAreProcs DEF Read, Goto, TypeOK
<1>2. \A q \in Runs : local'[q] = IF q = p THEN meta ELSE local[q]
  BY RunsAreProcs DEF Read, TypeOK
<1> QED
  BY <1>1, <1>2 DEF Quiet, Read, keyVars, history, TypeOK, HistoryInv, HistoryTypes

LEMMA CleanUpIsQuiet ==
  ASSUME TypeOK, HistoryInv, NEW p \in Runs, CleanUpAbsent(p), UNCHANGED history
  PROVE  Quiet
  BY DEF Quiet, CleanUpAbsent, procVars, history, TypeOK, HistoryInv, HistoryTypes

LEMMA RotateIsQuiet ==
  ASSUME TypeOK, HistoryInv, NEW p \in Runs, RotateOk(p) \/ RotateFail(p),
         UNCHANGED history
  PROVE  Quiet
<1>1. /\ pc[p] # "decide" /\ pc'[p] # "decide"
      /\ \A q \in Runs \ {p} : pc'[q] = pc[q] /\ local'[q] = local[q]
  BY RunsAreProcs DEF RotateOk, RotateFail, Goto, Forget, TypeOK
<1> QED
  BY <1>1 DEF Quiet, RotateOk, RotateFail, keyVars, history, TypeOK, HistoryInv,
              HistoryTypes

LEMMA CloseIsQuiet ==
  ASSUME TypeOK, HistoryInv, NEW p \in Procs, CloseStep(p), UNCHANGED history
  PROVE  Quiet
<1>1. /\ pc[p] # "decide" /\ pc'[p] # "decide"
      /\ \A q \in Procs \ {p} : pc'[q] = pc[q] /\ local'[q] = local[q]
  BY DEF CloseStep, CloseOk, CloseLost, CloseFail, Goto, Forget, TypeOK
<1>2. \A q \in Runs : (pc'[q] = "decide" \/ pc[q] = "decide")
                        => pc'[q] = pc[q] /\ local'[q] = local[q]
  BY <1>1, RunsAreProcs
<1>3. CASE CloseOk(p)
  BY <1>2, <1>3 DEF Quiet, CloseOk, history, TypeOK, HistoryInv, HistoryTypes
<1>4. CASE CloseLost(p) \/ CloseFail(p)
  BY <1>2, <1>4
  DEF Quiet, CloseLost, CloseFail, keyVars, history, TypeOK, HistoryInv, HistoryTypes
<1> QED
  BY <1>3, <1>4 DEF CloseStep

\* --reset-trailing clears the peak and the armed flag, not the marks of the graces.
LEMMA ResetKeepsMarks ==
  ASSUME TypeOK, ResetTrailing
  PROVE  meta'.gap_used = meta.gap_used /\ meta'.oor_used = meta.oor_used
<1>1. meta \in Metadata
  BY DEF ResetTrailing, TypeOK
<1> QED
  BY <1>1 DEF ResetTrailing, Metadata

LEMMA AgentIsQuiet ==
  ASSUME TypeOK, HistoryInv, AgentStep, UNCHANGED history
  PROVE  Quiet
<1>1. \A q \in Runs : pc'[q] = pc[q] /\ local'[q] = local[q]
  BY RunsAreProcs
  DEF AgentStep, OverrideHold, ResetTrailing, OverrideClose, Goto, procVars, TypeOK
<1>2. clock' = clock /\ clock \in Int
  BY DEF AgentStep, OverrideHold, ResetTrailing, OverrideClose, TypeOK
<1>3. gap_granted' = gap_granted /\ gap_granted \in BOOLEAN
  BY DEF history, HistoryInv, HistoryTypes
<1>4. meta' # None => /\ meta # None /\ meta'.oor_used = meta.oor_used
                      /\ meta'.gap_used = meta.gap_used
  BY ResetKeepsMarks DEF AgentStep, OverrideHold, ResetTrailing, OverrideClose
<1>5. UNCHANGED <<suspect_pnl_since, oor_since, indicator_blocked_since, tracked>>
  BY DEF AgentStep, OverrideHold, ResetTrailing, OverrideClose, keyVars
<1> QED
  BY <1>1, <1>2, <1>3, <1>4, <1>5 DEF Quiet, history

LEMMA PassIsQuiet ==
  ASSUME TypeOK, HistoryInv, Pass, UNCHANGED history
  PROVE  Quiet
  BY DEF Quiet, Pass, keyVars, procVars, history, TypeOK, HistoryInv, HistoryTypes

LEMMA HistoryStep == TypeOK /\ HistoryInv /\ [HNext]_<<vars, history>> => HistoryInv'
<1> SUFFICES ASSUME TypeOK, HistoryInv, [HNext]_<<vars, history>> PROVE HistoryInv'
  OBVIOUS
<1>1. ASSUME NEW p \in Runs, NEW ind \in {TRUE, FALSE, None},
             Decide(p, ind), RecordDecision(p, ind)
      PROVE  HistoryInv'
  BY <1>1, DecideHistory
<1>2. ASSUME NEW p \in Runs, SkipSuspectRead(p), RecordSkip(p) PROVE HistoryInv'
  BY <1>2, SkipHistory
<1>3. ASSUME NEW p \in Runs, UNCHANGED history,
             \/ \E r \in Readings : Read(p, r)
             \/ CleanUpAbsent(p)
             \/ RotateOk(p)
             \/ RotateFail(p)
      PROVE  HistoryInv'
  BY <1>3, ReadIsQuiet, CleanUpIsQuiet, RotateIsQuiet, QuietHistory
<1>4. ASSUME NEW p \in Procs, CloseStep(p), UNCHANGED history PROVE HistoryInv'
  BY <1>4, CloseIsQuiet, QuietHistory
<1>5. CASE AgentStep /\ UNCHANGED history
  BY <1>5, AgentIsQuiet, QuietHistory
<1>6. CASE Pass /\ UNCHANGED history
  BY <1>6, PassIsQuiet, QuietHistory
<1>7. CASE UNCHANGED <<vars, history>>
  BY <1>7
  DEF vars, keyVars, procVars, history, HistoryInv, HistoryTypes, GapRecorded,
      PostponementRecorded, DoubtRecorded, FuseRecorded, Fresh, Fuse
<1> QED
  BY <1>1, <1>2, <1>3, <1>4, <1>5, <1>6, <1>7 DEF HNext

\* What the keys and the flags say of the past, at every moment and for both processes.
THEOREM KeysRecordThePast == HSpec => [](TypeOK /\ HistoryInv)
<1>1. HInit => TypeOK
  BY InitTypes DEF HInit
<1> QED
  BY <1>1, InitHistory, HistoryStepTypes, HistoryStep, PTL DEF HSpec

--------------------------------------------------------------------------------
(* The properties.                                                               *)

\* A tick that decides records its decision.
LEMMA DecisionIsRecorded ==
  ASSUME TypeOK, NEW q \in Runs, HNext, Decides(q)
  PROVE  \E ind \in {TRUE, FALSE, None} : Decide(q, ind) /\ RecordDecision(q, ind)
<1> USE DEF Decides
<1>1. ASSUME NEW p \in Runs, NEW ind \in {TRUE, FALSE, None},
             Decide(p, ind), RecordDecision(p, ind)
      PROVE  p = q
  BY <1>1, RunsAreProcs DEF Decide, Goto, TypeOK
<1>2. ASSUME NEW p \in Runs, SkipSuspectRead(p) PROVE FALSE
  BY <1>2, RunsAreProcs DEF SkipSuspectRead, Goto, TypeOK
<1>3. ASSUME NEW p \in Runs,
             \/ \E r \in Readings : Read(p, r)
             \/ CleanUpAbsent(p)
             \/ RotateOk(p)
             \/ RotateFail(p)
      PROVE  FALSE
  BY <1>3, RunsAreProcs
  DEF Read, CleanUpAbsent, RotateOk, RotateFail, Goto, procVars, TypeOK
<1>4. ASSUME NEW p \in Procs, CloseStep(p) PROVE FALSE
  BY <1>4, RunsAreProcs DEF CloseStep, CloseOk, CloseLost, CloseFail, Goto, TypeOK
<1>5. ~AgentStep
  BY RunsAreProcs
  DEF AgentStep, OverrideHold, ResetTrailing, OverrideClose, Goto, procVars, TypeOK
<1>6. ~Pass
  BY DEF Pass, procVars
<1> QED
  BY <1>1, <1>2, <1>3, <1>4, <1>5, <1>6 DEF HNext

\* A process at work holds metadata and a reading, and its tick is no doubted one.
LEMMA DecidingHolds ==
  ASSUME TypeOK, NEW p \in Runs, Decides(p)
  PROVE  /\ obs[p] \in Readings /\ local[p] \in Metadata /\ ~SkipsTick(obs[p])
         /\ pc[p] = "decide" /\ clock \in Int
  BY RunsAreProcs DEF Decides, TypeOK

\* A take-profit that would book a loss is put off once: no tick grants the gap-through
\* grace a second time before one has seen the price above the floor.
THEOREM GapGraceIsOnce == HSpec => GapGraceOnce
<1>1. ASSUME TypeOK, HistoryInv, [HNext]_<<vars, history>>, NEW p \in Runs,
             gap_granted, p \notin overtaken, Decides(p)
      PROVE  ~GapGrace(obs[p], local[p])
  <2>1. local[p].gap_used
    BY <1>1, DecidingHolds DEF HistoryInv, GapRecorded, Fresh
  <2> QED
    BY <2>1 DEF GapGrace
<1>2. TypeOK /\ HistoryInv /\ [HNext]_<<vars, history>>
        => [\A p \in Runs : gap_granted /\ p \notin overtaken /\ Decides(p)
              => ~GapGrace(obs[p], local[p])]_<<vars, history>>
  BY <1>1
<1> QED
  BY <1>2, KeysRecordThePast, PTL DEF HSpec, GapGraceOnce

\* A series of postponed exits of a tracked position ends within the indicator's limit,
\* whichever process asked it last and whatever else moved the key.
THEOREM IndicatorDelayIsBounded == HSpec => IndicatorDelayBounded
<1> DEFINE A == \A p \in Runs :
                  Decides(p) /\ tracked /\ postponed_from # None
                  /\ postponed_from' = postponed_from
                    => clock - postponed_from < MaxIndicatorBlock
<1>1. ASSUME TypeOK, HistoryInv, HNext, NEW p \in Runs, Decides(p),
             tracked, postponed_from # None, postponed_from' = postponed_from
      PROVE  clock - postponed_from < MaxIndicatorBlock
  <2>1. PICK ind \in {TRUE, FALSE, None} : RecordDecision(p, ind)
    BY <1>1, DecisionIsRecorded
  <2>2. Postponed(obs[p], local[p], ind)
    BY <1>1, <2>1 DEF RecordDecision
  <2>3. /\ indicator_blocked_since # None /\ indicator_blocked_since <= postponed_from
        /\ indicator_blocked_since \in Int /\ postponed_from \in Int
    BY <1>1 DEF HistoryInv, HistoryTypes, PostponementRecorded, TypeOK
  <2>4. ~(clock - indicator_blocked_since >= MaxIndicatorBlock)
    BY <2>2, <2>3 DEF Postponed, BlockTimedOut
  <2>5. clock \in Int /\ MaxIndicatorBlock \in Int
    BY <1>1, DecidingHolds, TimingAssumption
  <2> QED
    BY <2>3, <2>4, <2>5
<1>2. TypeOK /\ HistoryInv /\ [HNext]_<<vars, history>> => [A]_<<vars, history>>
  BY <1>1
<1> QED
  BY <1>2, KeysRecordThePast, PTL DEF HSpec, IndicatorDelayBounded

\* A position out of range for its fuse raises an exit, but for one grace per episode.
THEOREM OorFuseAlwaysEnds == HSpec => OorFuseEnds
<1> DEFINE Ends(p) == \/ ExitReason(obs[p], local[p]) # "none"
                      \/ extended_at = None /\ OorGrace(obs[p], local[p])
                      \/ extended_at # None /\ clock - extended_at < FuseAfterGrace(obs[p])
           A == \A p \in Runs :
                  /\ Decides(p) /\ p \notin overtaken /\ tracked /\ ~obs[p].in_range
                  /\ oor_from # None /\ clock - oor_from >= OorLimit(obs[p])
                  => Ends(p)
<1>1. ASSUME TypeOK, HistoryInv, NEW p \in Runs, Decides(p), p \notin overtaken,
             tracked, ~obs[p].in_range, oor_from # None,
             clock - oor_from >= OorLimit(obs[p])
      PROVE  Ends(p)
  <2> DEFINE r == obs[p]
             m == local[p]
  <2>1. CASE extended_at = None
    <3>1. OorExpired(r)
      BY <1>1, <2>1 DEF HistoryInv, FuseRecorded, OorExpired
    <3> QED
      BY <2>1, <3>1, OorRaises
  <2>2. CASE extended_at # None
    <3>1. /\ oor_since # None /\ oor_since = extended_at - (Fuse - OorRecoveryGrace)
          /\ m.oor_used
      BY <1>1, <2>2, DecidingHolds DEF HistoryInv, FuseRecorded, Fresh
    <3>2. CASE clock - oor_since >= OorLimit(r)
      <4>1. OorExpired(r) /\ ~OorGrace(r, m)
        BY <1>1, <3>1, <3>2 DEF OorExpired, OorGrace
      <4> QED
        BY <4>1, OorRaises
    <3>3. CASE ~(clock - oor_since >= OorLimit(r))
      <4>1. /\ clock \in Int /\ extended_at \in Int /\ OorLimit(r) \in Int
            /\ Fuse \in Int /\ OorRecoveryGrace \in Int
        BY <1>1, <2>2, DecidingHolds, LimitTypes DEF HistoryInv, HistoryTypes
      <4>2. clock - extended_at < OorLimit(r) - Fuse + OorRecoveryGrace
        BY <3>1, <3>3, <4>1
      <4> QED
        BY <2>2, <4>2 DEF FuseAfterGrace, Fuse
    <3> QED
      BY <3>2, <3>3
  <2> QED
    BY <2>1, <2>2
<1>2. TypeOK /\ HistoryInv /\ [HNext]_<<vars, history>> => [A]_<<vars, history>>
  BY <1>1
<1> QED
  BY <1>2, KeysRecordThePast, PTL DEF HSpec, OorFuseEnds

\* An unverifiable catastrophic PnL closes nothing until a second tick has read one.
THEOREM SuspectIsReadTwice == HSpec => SuspectNeedsSecondRead
<1> DEFINE A == \A p \in Runs : Decides(p) /\ Suspect(obs[p]) /\ obs[p].verified = None
                  => doubted_at # None /\ clock - doubted_at < SuspectTtl
<1>1. ASSUME TypeOK, HistoryInv, NEW p \in Runs, Decides(p), Suspect(obs[p]),
             obs[p].verified = None
      PROVE  doubted_at # None /\ clock - doubted_at < SuspectTtl
  <2>1. suspect_pnl_since # None /\ ~(clock - suspect_pnl_since >= SuspectTtl)
    BY <1>1 DEF Decides, SkipsTick
  <2>2. suspect_pnl_since \in Int /\ clock \in Int /\ SuspectTtl \in Int
    BY <1>1, <2>1, TimingAssumption DEF TypeOK
  <2> QED
    BY <1>1, <2>1, <2>2 DEF HistoryInv, DoubtRecorded
<1>2. TypeOK /\ HistoryInv /\ [HNext]_<<vars, history>> => [A]_<<vars, history>>
  BY <1>1
<1> QED
  BY <1>2, KeysRecordThePast, PTL DEF HSpec, SuspectNeedsSecondRead

\* One process alone never works on metadata another has replaced, so that its graces
\* and its fuse are bounded without exception.
THEOREM AloneNeverOvertaken ==
  (\A p, q \in Runs : p = q) => (HSpec => [](overtaken = {}))
<1> SUFFICES ASSUME \A p, q \in Runs : p = q PROVE HSpec => [](overtaken = {})
  OBVIOUS
<1>1. HInit => overtaken = {}
  BY DEF HInit
<1>2. overtaken = {} /\ [HNext]_<<vars, history>> => (overtaken = {})'
  <2> SUFFICES ASSUME overtaken = {}, [HNext]_<<vars, history>> PROVE overtaken' = {}
    OBVIOUS
  <2>1. ASSUME NEW p \in Runs, NEW ind, RecordDecision(p, ind) PROVE overtaken' = {}
    <3>1. Runs \ {p} = {}
      OBVIOUS
    <3> QED
      BY <2>1, <3>1 DEF RecordDecision
  <2>2. ASSUME NEW p \in Runs, RecordSkip(p) PROVE overtaken' = {}
    BY <2>2 DEF RecordSkip
  <2> QED
    BY <2>1, <2>2 DEF HNext, history
<1> QED
  BY <1>1, <1>2, PTL DEF HSpec
================================================================================
