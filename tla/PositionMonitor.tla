---------------------------- MODULE PositionMonitor ----------------------------
(***************************************************************************)
(* The life of one tracked DLMM position under assets/skill/scripts/       *)
(* dlmm_monitor.py.  Two processes may run main() over it: the "loop"      *)
(* (dlmm_monitor_loop.sh, every 20s) and the "report" (the 30 minute cron, *)
(* --report-only).  The agent calls the same script with --override-close, *)
(* --override-hold and --reset-trailing.  All of them share the Redis keys *)
(* of the position and none of them takes a lock: main() reads the         *)
(* metadata and the market first (Read), and decides and writes back the   *)
(* metadata it read seconds later (SkipSuspectRead, Decide); a close or a  *)
(* compound is a call to the executor with an outcome of its own.          *)
(*                                                                         *)
(* PnL is counted in tenths of a percent, fee/TVL in percent, time in      *)
(* minutes.  A candle or a pool depth is the class the rules tell apart.   *)
(***************************************************************************)
EXTENDS Integers

CONSTANTS
  Runs,              \* which processes run main(): a subset of {"loop", "report"}
  AgentCalls,        \* what the agent may call: a subset of {"hold", "reset", "close"}
  Positions,         \* the fixed part of the metadata a life may start with
  Readings,          \* what one look at the market may show
  StopLoss, TrailingTrigger, TrailingDrop,          \* SOUL.md section 9
  MaxOor, OorDownsideMax, TurnoverMaxOor,
  MinAgeYield, MinFeeTvl, IndicatorsEnabled,
  SlGraceAge, OorRecoveryGrace, FeeStallWindow,     \* fixed in the script
  FeeStallMin, FeeStallMinAge, MaxIndicatorBlock,
  SuspectTtl, AbsentGrace,
  HoldMinutes,       \* --hold-minutes
  MaxClock,          \* bound: the clock stops here
  None               \* an absent key or value

EmergencySlBuffer == 30
SuspectPnl        == -900
TrailingMinLock   == 3
DowntrendPnl      == -50
OorUpsideTp       == 15
HarvestPnl        == 100

Modes      == {"casual", "multiday", "turnover"}
Strategies == {"spot", "sol_bidask", "fee_compounding", "partial_harvest",
               "single_sided_reseed"}

Reasons == {"none", "trailing", "emergency_sl", "hard_sl", "pumped", "rug",
            "oor_plain", "oor_dump", "oor_lock", "low_yield", "thin",
            "downtrend", "fast_out", "fee_stall", "override", "forced"}

Position == [mode : Modes, strategy : Strategies, sol_is_x : BOOLEAN,
             harvested : BOOLEAN]

\* "api" is a Portfolio API row, "sdk" the executor's answers when the API is
\* down.  bin is where the active bin lies; verified is the executor's own PnL
\* when it could be asked, and unclaimed is in units of FeeStallMin.
Reading == [src : {"api", "sdk"}, pnl : Int, verified : Int \cup {None},
            in_range : BOOLEAN, bin : {"upto", "above", "pumped"},
            fee : Nat, unclaimed : Nat,
            liq : {"unknown", "ok", "thin"},
            m5 : {"unknown", "rug", "fast", "flat", "green"},
            h1 : {"unknown", "flat", "down"}]

Metadata == [peak : Int, armed : BOOLEAN, gap_used : BOOLEAN,
             oor_used : BOOLEAN,
             snap : [fees : Nat, at : Nat] \cup {None}]

Procs == Runs \cup {"agent"}

ASSUME RunsAssumption == /\ Runs \subseteq {"loop", "report"}
                         /\ AgentCalls \subseteq {"hold", "reset", "close"}
ASSUME InputAssumption == /\ Positions \subseteq Position
                          /\ \A r \in Readings : r \in Reading
ASSUME SoulAssumption ==
  /\ StopLoss \in Int /\ TrailingTrigger \in Int /\ TrailingDrop \in Nat
  /\ MaxOor \in Nat /\ OorDownsideMax \in Nat /\ TurnoverMaxOor \in Nat
  /\ MinAgeYield \in Nat /\ MinFeeTvl \in Nat /\ IndicatorsEnabled \in BOOLEAN
ASSUME TimingAssumption ==
  /\ SlGraceAge \in Nat /\ OorRecoveryGrace \in Nat /\ FeeStallWindow \in Nat
  /\ FeeStallMin \in Nat /\ FeeStallMinAge \in Nat /\ MaxIndicatorBlock \in Nat
  /\ SuspectTtl \in Nat /\ AbsentGrace \in Nat /\ HoldMinutes \in Nat
  /\ MaxClock \in Nat
ASSUME NoneAssumption == None \notin Int /\ None \notin Metadata /\ None \notin Reading
                         /\ None \notin [fees : Nat, at : Nat]

VARIABLES
  clock,                     \* minutes since the deploy
  pos,                       \* mode, strategy and orientation in the metadata
  chain,                     \* the position account: "open" or "gone"
  tracked,                   \* the address is in sol:dlmm:active_positions
  meta,                      \* sol:dlmm:position:<addr>, the part that changes
  oor_since,                 \* ...:oor_since
  ai_hold_until,             \* ...:ai_hold_until
  indicator_blocked_since,   \* ...:indicator_blocked_since
  suspect_pnl_since,         \* ...:suspect_pnl_since
  pc, obs, local,            \* per process: control, reading, metadata as read
  why,                       \* per process: the reason of the close it is executing
  booked                     \* how often the close was booked into the daily PnL

keyVars  == <<oor_since, ai_hold_until, indicator_blocked_since, suspect_pnl_since>>
procVars == <<pc, obs, local, why>>
vars     == <<clock, pos, chain, tracked, meta, keyVars, procVars, booked>>

FreshMetadata == [peak |-> 0, armed |-> FALSE, gap_used |-> FALSE,
                  oor_used |-> FALSE, snap |-> None]

Init ==
  /\ clock = 0
  /\ pos \in Positions
  /\ chain = "open" /\ tracked = TRUE /\ meta = FreshMetadata
  /\ oor_since = None /\ ai_hold_until = None
  /\ indicator_blocked_since = None /\ suspect_pnl_since = None
  /\ pc = [p \in Procs |-> "idle"]
  /\ obs = [p \in Procs |-> None]
  /\ local = [p \in Procs |-> None]
  /\ why = [p \in Procs |-> "none"]
  /\ booked = 0

--------------------------------------------------------------------------------
(* What a reading means to the rules. *)

Suspect(r) == r.src = "api" /\ r.pnl <= SuspectPnl

\* An executor read that disagrees replaces the Portfolio API's figure.
Pnl(r) == IF Suspect(r) /\ r.verified # None
            THEN IF r.verified > SuspectPnl THEN r.verified ELSE r.pnl
            ELSE r.pnl

\* Operators that say "mutant:" are broken variants of the definition that follows
\* them; no action uses them, the mutation runs put them in its place.

\* mutant: the key is written without an expiry.
SkipsTickWithoutTtl(r) == Suspect(r) /\ r.verified = None /\ suspect_pnl_since = None
\* First unverifiable suspect read within the key's lifetime: skip this tick.
SkipsTick(r) == /\ Suspect(r) /\ r.verified = None
                /\ suspect_pnl_since # None => clock - suspect_pnl_since >= SuspectTtl

\* A Portfolio API row carries no bins, so upper_bin is None there.
UpperBinKnown(r) == r.src = "sdk"
Above(r)    == UpperBinKnown(r) /\ r.bin \in {"above", "pumped"}
Below(r)    == UpperBinKnown(r) /\ r.bin = "upto" /\ ~r.in_range
SolSide(r)   == IF pos.sol_is_x THEN Below(r) ELSE Above(r)
TokenSide(r) == IF pos.sol_is_x THEN Above(r) ELSE Below(r)

\* mutant: the 2% minimum is dropped.
ReachesAnyTrigger(r) == \/ Pnl(r) >= TrailingTrigger
                        \/ 30 * Pnl(r) >= TrailingTrigger * r.fee
\* max(2%, min(trigger, trigger * fee / 30)), without the division.
ReachesTrigger(r) ==
  IF r.fee > 0
    THEN /\ Pnl(r) >= 20
         /\ Pnl(r) >= TrailingTrigger \/ 30 * Pnl(r) >= TrailingTrigger * r.fee
    ELSE Pnl(r) >= TrailingTrigger

LargerOf(a, b)  == IF a >= b THEN a ELSE b
SmallerOf(a, b) == IF a <= b THEN a ELSE b

\* trailing_floor_pct, in hundredths of a percent.
TrailingFloor(peak) ==
  IF peak >= 200 THEN LargerOf(1400, 7 * peak)
  ELSE IF peak >= 100 THEN LargerOf(600, 10 * (peak - 40))
  ELSE IF peak >= 50 THEN LargerOf(200, 10 * (peak - 25))
  ELSE 10 * (peak - TrailingDrop)

--------------------------------------------------------------------------------
(* The exit rules.  r is the reading and m the metadata as this process read    *)
(* it; oor_since is read from Redis when the rule is evaluated.                  *)

Peak(r, m)  == LargerOf(Pnl(r), m.peak)
Armed(r, m) == m.armed \/ (ReachesTrigger(r) /\ pos.mode # "turnover")

BelowFloor(r, m) == Armed(r, m) /\ 10 * Pnl(r) <= TrailingFloor(Peak(r, m))
\* A take-profit that would book a loss waits for one more tick.
GapGrace(r, m)   == BelowFloor(r, m) /\ Pnl(r) < TrailingMinLock /\ ~m.gap_used
Trailing(r, m)   == BelowFloor(r, m) /\ ~GapGrace(r, m)

EmergencySl(r) == Pnl(r) <= StopLoss - EmergencySlBuffer
HardSl(r)      == /\ Pnl(r) <= StopLoss /\ ~EmergencySl(r)
                  /\ ~(clock < SlGraceAge /\ r.in_range /\ r.fee >= 10)
PumpedAbove(r) == UpperBinKnown(r) /\ r.bin = "pumped"
RugVelocity(r) == r.m5 = "rug"
LowYield(r)    == clock >= MinAgeYield /\ r.fee < MinFeeTvl

OorLimit(r) == IF pos.mode = "turnover" THEN TurnoverMaxOor
               ELSE IF TokenSide(r) THEN SmallerOf(MaxOor, OorDownsideMax)
               ELSE MaxOor
OorExpired(r) == /\ ~r.in_range /\ oor_since # None
                 /\ clock - oor_since >= OorLimit(r)
\* mutant: the extension is not one-shot.
OorGraceAgain(r, m) == /\ OorExpired(r) /\ pos.mode # "turnover" /\ TokenSide(r)
                       /\ r.m5 = "green"
OorGrace(r, m) == /\ OorExpired(r) /\ pos.mode # "turnover" /\ TokenSide(r)
                  /\ r.m5 = "green" /\ ~m.oor_used
OorReason(r, m) ==
  IF ~r.in_range /\ SolSide(r) /\ Pnl(r) >= OorUpsideTp /\ pos.mode # "turnover"
    THEN "oor_lock"
  ELSE IF OorExpired(r) /\ ~OorGrace(r, m)
    THEN IF TokenSide(r) /\ pos.mode # "turnover" THEN "oor_dump" ELSE "oor_plain"
  ELSE "none"
OorSinceAfter(r, m) ==
  IF r.in_range THEN None
  ELSE IF oor_since = None THEN clock
  ELSE IF OorGrace(r, m) THEN clock - (OorLimit(r) - OorRecoveryGrace)
  ELSE oor_since

\* The rules that overwrite close_reason, the last one of the script first.
Overwriting(r, m) ==
  IF LowYield(r) THEN "low_yield"
  ELSE IF OorReason(r, m) # "none" THEN OorReason(r, m)
  ELSE IF RugVelocity(r) THEN "rug"
  ELSE IF PumpedAbove(r) THEN "pumped"
  ELSE IF EmergencySl(r) THEN "emergency_sl"
  ELSE IF HardSl(r) THEN "hard_sl"
  ELSE IF Trailing(r, m) THEN "trailing"
  ELSE "none"

ThinLiquidity(r, m) == Overwriting(r, m) = "none" /\ r.liq = "thin"

\* The rules that only fire while close_reason is empty, in the script's order.
SoftReason(r, m) ==
  IF ThinLiquidity(r, m) THEN "thin"
  ELSE IF r.h1 = "down" /\ Pnl(r) <= DowntrendPnl THEN "downtrend"
  ELSE IF Armed(r, m) /\ r.m5 \in {"rug", "fast"} /\ Pnl(r) >= TrailingMinLock
    THEN "fast_out"
  ELSE "none"

Unclaimed(r) == IF r.src = "api" THEN r.unclaimed ELSE 0
WatchesFees(r, m) == /\ Overwriting(r, m) = "none" /\ SoftReason(r, m) = "none"
                     /\ ~Armed(r, m) /\ clock >= FeeStallMinAge
Rebaselines(r, m) == m.snap = None \/ Unclaimed(r) < m.snap.fees
WindowOver(r, m)  == ~Rebaselines(r, m) /\ clock - m.snap.at >= FeeStallWindow
FeeStall(r, m) == /\ WatchesFees(r, m) /\ WindowOver(r, m) /\ r.src = "api"
                  /\ Unclaimed(r) - m.snap.fees < FeeStallMin
SnapAfter(r, m) ==
  IF /\ WatchesFees(r, m)
     /\ Rebaselines(r, m) \/ (WindowOver(r, m) /\ ~FeeStall(r, m))
    THEN [fees |-> Unclaimed(r), at |-> clock]
    ELSE m.snap

Emergency(r, m) == EmergencySl(r) \/ RugVelocity(r) \/ ThinLiquidity(r, m)

\* mutant: the last rule to fire names the reason.
LastRuleWins(r, m) ==
  IF Overwriting(r, m) # "none" THEN Overwriting(r, m)
  ELSE IF SoftReason(r, m) # "none" THEN SoftReason(r, m)
  ELSE IF FeeStall(r, m) THEN "fee_stall"
  ELSE "none"
\* close_reason after every rule: an emergency reason is restored last.
ExitReason(r, m) ==
  IF RugVelocity(r) THEN "rug"
  ELSE IF EmergencySl(r) THEN "emergency_sl"
  ELSE IF Overwriting(r, m) # "none" THEN Overwriting(r, m)
  ELSE IF SoftReason(r, m) # "none" THEN SoftReason(r, m)
  ELSE IF FeeStall(r, m) THEN "fee_stall"
  ELSE "none"

\* mutant: the used grace is not written back.
MetadataForgetsGrace(r, m) ==
  [peak     |-> Peak(r, m),
   armed    |-> Armed(r, m),
   gap_used |-> m.gap_used,
   oor_used |-> ~r.in_range /\ (m.oor_used \/ OorGrace(r, m)),
   snap     |-> SnapAfter(r, m)]
MetadataAfter(r, m) ==
  [peak     |-> Peak(r, m),
   armed    |-> Armed(r, m),
   gap_used |-> IF BelowFloor(r, m) THEN m.gap_used \/ GapGrace(r, m)
                ELSE ~Armed(r, m) /\ m.gap_used,
   oor_used |-> ~r.in_range /\ (m.oor_used \/ OorGrace(r, m)),
   snap     |-> SnapAfter(r, m)]

--------------------------------------------------------------------------------
(* What happens to a raised reason.  ind is the indicator's answer, asked only  *)
(* when the exit is timed by it: TRUE and FALSE as returned, None when there is  *)
(* no data.                                                                      *)

TimedByIndicator(r, m) ==
  /\ IndicatorsEnabled /\ ~Emergency(r, m)
  /\ ExitReason(r, m) \notin {"none", "hard_sl", "oor_plain", "oor_dump", "pumped"}
BlockTimedOut == /\ indicator_blocked_since # None
                 /\ clock - indicator_blocked_since >= MaxIndicatorBlock
Postponed(r, m, ind) == TimedByIndicator(r, m) /\ ~BlockTimedOut /\ ind = FALSE
\* mutant: every rejection restarts the block.
BlockedSinceLatest(r, m, ind) ==
  IF ~TimedByIndicator(r, m) THEN indicator_blocked_since
  ELSE IF BlockTimedOut \/ ind = TRUE THEN None
  ELSE IF ind = FALSE THEN clock
  ELSE indicator_blocked_since
\* mutant: the key holds when the block ends, not when it began.
BlockedUntil(r, m, ind) ==
  IF ~TimedByIndicator(r, m) THEN indicator_blocked_since
  ELSE IF BlockTimedOut \/ ind = TRUE THEN None
  ELSE IF ind = FALSE /\ indicator_blocked_since = None THEN clock + MaxIndicatorBlock
  ELSE indicator_blocked_since
BlockedSinceAfter(r, m, ind) ==
  IF ~TimedByIndicator(r, m) THEN indicator_blocked_since
  ELSE IF BlockTimedOut \/ ind = TRUE THEN None
  ELSE IF ind = FALSE /\ indicator_blocked_since = None THEN clock
  ELSE indicator_blocked_since

HoldActive == ai_hold_until # None /\ ai_hold_until > clock
\* mutant: the hold does not look at emergency_close.
HeldBackAlways(r, m) ==
  HoldActive /\ ~(ExitReason(r, m) = "trailing" /\ Peak(r, m) - Pnl(r) >= 30)
HeldBack(r, m) ==
  /\ HoldActive /\ ~Emergency(r, m)
  /\ ~(ExitReason(r, m) = "trailing" /\ Peak(r, m) - Pnl(r) >= 30)

\* The run goes on to execute a close.
Acts(p, r, m, ind) ==
  /\ ExitReason(r, m) # "none"
  /\ ~Postponed(r, m, ind)
  /\ p = "report" => Emergency(r, m)
  /\ ~HeldBack(r, m)

CompoundBar == IF pos.mode = "turnover" /\ pos.strategy # "single_sided_reseed"
                 THEN 2 ELSE 1
Compounds(p, r, m) ==
  /\ p # "report" /\ r.in_range /\ ExitReason(r, m) = "none"
  /\ \/ pos.strategy = "fee_compounding"
     \/ pos.mode = "turnover" /\ pos.strategy # "single_sided_reseed"
  /\ r.unclaimed >= CompoundBar
HarvestDue(r) == /\ pos.strategy = "partial_harvest" /\ ~pos.harvested
                 /\ r.in_range /\ Pnl(r) >= HarvestPnl
Harvests(p, r, m) == p # "report" /\ ExitReason(r, m) = "none" /\ HarvestDue(r)

--------------------------------------------------------------------------------
(* The steps of main(). *)

Goto(p, label) == pc' = [pc EXCEPT ![p] = label]

\* Metadata and market are read; nothing is written yet.  The Portfolio API may
\* still list an account that is gone.
Read(p, r) ==
  /\ pc[p] = "idle" /\ tracked /\ meta # None
  /\ chain = "open" \/ r.src = "api"
  /\ Goto(p, "decide")
  /\ obs' = [obs EXCEPT ![p] = r]
  /\ local' = [local EXCEPT ![p] = meta]
  /\ UNCHANGED <<clock, pos, chain, tracked, meta, keyVars, why, booked>>

\* The API no longer lists the account: after the grace the keys are dropped.
CleanUpAbsent(p) ==
  /\ pc[p] = "idle" /\ tracked /\ meta # None /\ chain = "gone"
  /\ clock >= AbsentGrace
  /\ tracked' = FALSE /\ meta' = None /\ oor_since' = None
  /\ indicator_blocked_since' = None /\ ai_hold_until' = None
  /\ UNCHANGED <<clock, pos, chain, suspect_pnl_since, procVars, booked>>

Forget(p) == /\ obs' = [obs EXCEPT ![p] = None]
             /\ local' = [local EXCEPT ![p] = None]

SkipSuspectRead(p) ==
  /\ pc[p] = "decide" /\ SkipsTick(obs[p])
  /\ suspect_pnl_since' = clock
  /\ Goto(p, "idle") /\ Forget(p)
  /\ UNCHANGED <<clock, pos, chain, tracked, meta, oor_since, ai_hold_until,
                 indicator_blocked_since, why, booked>>

\* Every rule, the write-back of the metadata read before, and the verdict.
Decide(p, ind) ==
  LET r == obs[p]
      m == local[p]
  IN /\ pc[p] = "decide" /\ ~SkipsTick(r)
     /\ suspect_pnl_since' = IF r.src = "api" THEN None ELSE suspect_pnl_since
     /\ meta' = MetadataAfter(r, m)
     /\ oor_since' = OorSinceAfter(r, m)
     /\ indicator_blocked_since' = BlockedSinceAfter(r, m, ind)
     /\ IF Acts(p, r, m, ind)
          THEN Goto(p, "closing") /\ why' = [why EXCEPT ![p] = ExitReason(r, m)]
          ELSE UNCHANGED why /\ Goto(p, IF Compounds(p, r, m) THEN "compound"
                                        ELSE IF Harvests(p, r, m) THEN "harvest"
                                        ELSE "idle")
     /\ obs' = [obs EXCEPT ![p] = IF Compounds(p, r, m) THEN r ELSE None]
     /\ local' = [local EXCEPT ![p] = IF Compounds(p, r, m) THEN m ELSE None]
     /\ UNCHANGED <<clock, pos, chain, tracked, ai_hold_until, booked>>

\* mutant: an account that is no longer there counts as closed.
CloseOkWhenGone(p) ==
  /\ pc[p] = "closing"
  /\ chain' = "gone" /\ tracked' = FALSE /\ meta' = None /\ oor_since' = None
  /\ ai_hold_until' = IF p = "agent" THEN None ELSE ai_hold_until
  /\ booked' = IF p = "agent" /\ obs[p] = None THEN booked ELSE booked + 1
  /\ Goto(p, "idle") /\ Forget(p) /\ why' = [why EXCEPT ![p] = "none"]
  /\ UNCHANGED <<clock, pos, indicator_blocked_since, suspect_pnl_since>>
\* The close call answers with success and the keys are dropped: the position's
\* life ends here.  Only the agent's path drops the hold.
CloseOk(p) ==
  /\ pc[p] = "closing" /\ chain = "open"
  /\ chain' = "gone" /\ tracked' = FALSE /\ meta' = None /\ oor_since' = None
  /\ ai_hold_until' = IF p = "agent" THEN None ELSE ai_hold_until
  /\ booked' = IF p = "agent" /\ obs[p] = None THEN booked ELSE booked + 1
  /\ Goto(p, "idle") /\ Forget(p) /\ why' = [why EXCEPT ![p] = "none"]
  /\ UNCHANGED <<clock, pos, indicator_blocked_since, suspect_pnl_since>>

\* The account is closed, but the caller never sees it: run_command gave up after
\* 30s, every RPC of the failover failed to confirm, or the process was killed.
CloseLost(p) ==
  /\ pc[p] = "closing" /\ chain = "open"
  /\ chain' = "gone"
  /\ Goto(p, "idle") /\ Forget(p) /\ why' = [why EXCEPT ![p] = "none"]
  /\ UNCHANGED <<clock, pos, tracked, meta, keyVars, booked>>

\* mutant: the keys are dropped whatever the close call answered.
CloseFailUntracks(p) ==
  /\ pc[p] = "closing"
  /\ tracked' = FALSE /\ meta' = None /\ oor_since' = None
  /\ Goto(p, "idle") /\ Forget(p) /\ why' = [why EXCEPT ![p] = "none"]
  /\ UNCHANGED <<clock, pos, chain, ai_hold_until, indicator_blocked_since,
                 suspect_pnl_since, booked>>
CloseFail(p) ==
  /\ pc[p] = "closing"
  /\ Goto(p, "idle") /\ Forget(p) /\ why' = [why EXCEPT ![p] = "none"]
  /\ UNCHANGED <<clock, pos, chain, tracked, meta, keyVars, booked>>

\* Claim, close and redeploy all succeed: another address takes this one's place.
RotateOk(p) ==
  /\ pc[p] \in {"compound", "harvest"} /\ chain = "open"
  /\ chain' = "gone" /\ tracked' = FALSE /\ meta' = None /\ oor_since' = None
  /\ Goto(p, "idle") /\ Forget(p)
  /\ UNCHANGED <<clock, pos, ai_hold_until, indicator_blocked_since,
                 suspect_pnl_since, why, booked>>

\* A step of it fails: before the close (the account stays open) or after it.
\* A compound that failed still tries the harvest, if the strategy asks for one.
RotateFail(p) ==
  /\ pc[p] \in {"compound", "harvest"}
  /\ chain' \in {chain, "gone"}
  /\ Goto(p, IF pc[p] = "compound" /\ HarvestDue(obs[p]) THEN "harvest" ELSE "idle")
  /\ Forget(p)
  /\ UNCHANGED <<clock, pos, tracked, meta, keyVars, why, booked>>

--------------------------------------------------------------------------------
(* The agent's calls. *)

OverrideHold ==
  /\ "hold" \in AgentCalls /\ tracked
  /\ ai_hold_until' = clock + HoldMinutes
  /\ UNCHANGED <<clock, pos, chain, tracked, meta, oor_since,
                 indicator_blocked_since, suspect_pnl_since, procVars, booked>>

ResetTrailing ==
  /\ "reset" \in AgentCalls /\ meta # None
  /\ meta' = [meta EXCEPT !.peak = 0, !.armed = FALSE]
  /\ UNCHANGED <<clock, pos, chain, tracked, keyVars, procVars, booked>>

\* break_even_days = |pnl| / fee under 5, and 0 when the position is not under water.
Healthy(r) == /\ r.in_range /\ r.fee >= 10 /\ r.pnl > -200
              /\ r.pnl < 0 => -r.pnl < 50 * r.fee

\* Without a live PnL the refusal's own message cannot be formatted (TypeError, caught
\* and dropped), so the hold refuses only a caller who has one.
HoldRefuses(r) == HoldActive /\ r # None /\ r.pnl > -250

\* r is the API row of the guard, or None when the API gave none.
OverrideClose(r, force) ==
  /\ "close" \in AgentCalls /\ pc["agent"] = "idle" /\ meta # None
  /\ ~force => ~(r # None /\ Healthy(r)) /\ ~HoldRefuses(r)
  /\ Goto("agent", "closing")
  /\ obs' = [obs EXCEPT !["agent"] = r]
  /\ why' = [why EXCEPT !["agent"] = IF force THEN "forced" ELSE "override"]
  /\ UNCHANGED <<clock, pos, chain, tracked, meta, keyVars, local, booked>>

Pass == /\ clock < MaxClock
        /\ clock' = clock + 1
        /\ UNCHANGED <<pos, chain, tracked, meta, keyVars, procVars, booked>>

RunStep(p) == \/ \E r \in Readings : Read(p, r)
              \/ CleanUpAbsent(p)
              \/ SkipSuspectRead(p)
              \/ \E ind \in {TRUE, FALSE, None} : Decide(p, ind)
              \/ RotateOk(p)
              \/ RotateFail(p)

CloseStep(p) == CloseOk(p) \/ CloseLost(p) \/ CloseFail(p)

AgentStep == \/ OverrideHold
             \/ ResetTrailing
             \/ \E r \in {x \in Readings : x.src = "api"} \cup {None}, force \in BOOLEAN :
                  OverrideClose(r, force)

Next == \/ \E p \in Runs : RunStep(p)
        \/ \E p \in Procs : CloseStep(p)
        \/ AgentStep
        \/ Pass

Spec == Init /\ [][Next]_vars

\* The loop reads and decides for ever, and the chain does not refuse for ever a
\* close that is tried again and again.
LoopFairness ==
  /\ WF_vars(\E r \in Readings : Read("loop", r))
  /\ WF_vars(SkipSuspectRead("loop"))
  /\ WF_vars(\E ind \in {TRUE, FALSE, None} : Decide("loop", ind))
  /\ WF_vars(CloseStep("loop"))
  /\ SF_vars(CloseOk("loop"))
  /\ WF_vars(RotateOk("loop") \/ RotateFail("loop"))

FairSpec == Spec /\ LoopFairness

--------------------------------------------------------------------------------
(* What must hold. *)

\* Every key has its type; a run that is deciding holds a reading and the metadata
\* it read, and only a run that is executing a close has a reason for it.
TypeOK ==
  /\ clock \in 0..MaxClock
  /\ pos \in Positions
  /\ chain \in {"open", "gone"} /\ tracked \in BOOLEAN
  /\ meta \in Metadata \cup {None}
  /\ oor_since \in Int \cup {None} /\ ai_hold_until \in Nat \cup {None}
  /\ indicator_blocked_since \in 0..MaxClock \cup {None}
  /\ suspect_pnl_since \in 0..MaxClock \cup {None}
  /\ pc \in [Procs -> {"idle", "decide", "closing", "compound", "harvest"}]
  /\ obs \in [Procs -> Readings \cup {None}]
  /\ local \in [Procs -> Metadata \cup {None}]
  /\ why \in [Procs -> Reasons]
  /\ booked \in Nat
  /\ \A p \in Procs :
       /\ pc[p] = "decide" => /\ p # "agent"
                              /\ obs[p] # None /\ local[p] # None
       /\ pc[p] = "compound" => obs[p] # None
       /\ why[p] # "none" => pc[p] = "closing"

EmergencyReasons == {"emergency_sl", "rug", "thin"}

Decides(p) == pc[p] = "decide" /\ pc'[p] # "decide" /\ ~SkipsTick(obs[p])

\* A tick that reads an emergency (the SL floor, a rug candle, a drained pool) goes on
\* to close for that reason in both processes: no AI hold, indicator, grace, softer
\* rule or --report-only turns it away (lines 1327-1330, 1448, 1471, 1486).
EmergencyNeverSuppressed ==
  [][\A p \in Runs :
       Decides(p) /\ Emergency(obs[p], local[p])
         => pc'[p] = "closing" /\ why'[p] \in EmergencyReasons]_vars

\* "AI HOLD blocks --override-close ... Only exceptions: --force or pnl_pct <= -25%".
\* The code breaks this when the Portfolio API gave no PnL for the position: see
\* HoldRefuses.
HoldBlocksOverride ==
  [][/\ pc["agent"] = "idle" /\ pc'["agent"] = "closing" /\ why'["agent"] = "override"
     /\ HoldActive
     => obs'["agent"] # None /\ obs'["agent"].pnl <= -250]_vars

\* --report-only never executes a close for any other reason, even when a softer
\* rule fired after the emergency and overwrote close_reason (line 1471-1480).
ReportClosesOnlyEmergencies ==
  \A p \in Procs : p = "report" /\ pc[p] = "closing" => why[p] \in EmergencyReasons

\* Once armed, the ratchet floor of the recorded peak is above the 0.3% lock, so a
\* trailing exit at its floor is a gain: the arming rule (1068-1082), the ratchet
\* (225-236) and --reset-trailing (632-642) agree, also in every copy of the metadata
\* a process is about to write back.  For a trigger and a drop as SOUL.md sets them.
LocksGain(m) ==
  m.armed /\ TrailingTrigger >= 20 /\ TrailingDrop + TrailingMinLock < 20
    => pos.mode # "turnover" /\ TrailingFloor(m.peak) > 10 * TrailingMinLock
ArmedLocksGain == /\ meta # None => LocksGain(meta)
                  /\ \A p \in Procs : local[p] # None => LocksGain(local[p])

\* However many processes decide to close, and however often a close is tried
\* again, it is booked into the daily PnL once at most (1515-1529, 766-813).
ClosedAtMostOnce == booked <= 1 /\ (booked = 1 => chain = "gone")

\* No failed or unseen close, compound or harvest makes the monitor forget a
\* position that is still open (1498-1515, 1346-1442).
OpenIsTracked == chain = "open" => tracked /\ meta # None

\* When from some point on every tick of the loop reads an emergency, the account is
\* closed: no grace, hold, failed close or skipped read starves it.
EmergencyEventuallyCloses ==
  <>[](pc["loop"] = "decide" => EmergencySl(obs["loop"])) => <>(chain = "gone")

\* The loop, the report and the agent beside each other keep to the life of a position:
\* metadata may be written back after the close, but none is dropped before it.
Life == INSTANCE PositionLife WITH
          Positions <- {"it"}, open <- {p \in {"it"} : chain = "open"},
          known <- {p \in {"it"} : meta # None}
KeepsLife == Life!Spec
================================================================================
