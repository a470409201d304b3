---------------------------- MODULE RobinhoodMonitor ----------------------------
(***************************************************************************)
(* The position monitor of Robinhood Chain (uni_monitor.py, run once a     *)
(* minute by uni_monitor_loop.sh) and the executors it calls               *)
(* (uni_executor.js; uni_v4_executor.js answers the same commands).        *)
(* A tick gathers the open positions of every executor, offers the         *)
(* stranded bags for sale, visits each position with the state file it     *)
(* loaded, and saves that file at the end.  An executor call may answer,   *)
(* print an error report, or give no answer after it took effect; the tick *)
(* may be killed anywhere.                                                 *)
(*                                                                         *)
(* PnL is in tenths of a percent.  Time is counted in units of half an     *)
(* hour, beside which a tick is short: the age of a clock is stored, not   *)
(* its start.                                                              *)
(***************************************************************************)
EXTENDS Integers, FiniteSets

CONSTANTS
  Positions,    \* position NFTs; each stands for its token and its state key too
  Executors,    \* "v3" and "v4"
  Exec,         \* the executor of each position (state_key keeps them apart)
  Readings,     \* what cmdState may answer for an open position
  Unpriced,     \* positions without a journalled cost basis: they have no PnL
  Reliable,     \* executors whose calls succeed again and again (fairness)
  Watched,      \* the position the checking variables follow
  OorLimit,     \* MAX_OOR_MINUTES, in units
  BlockCap,     \* MAX_INDICATOR_BLOCK_MINUTES, in units
  MaxKills,     \* a bound: how often a tick is killed
  None

\* young: not yet MIN_AGE_MIN_BEFORE_SL; m5, h1: the momentum is known, and falling.
Reading == [pnl : Int \cup {None}, inRange : BOOLEAN, young : BOOLEAN,
            m5 : BOOLEAN, h1 : BOOLEAN, pool : BOOLEAN]

\* One entry of the state file: best PnL, and the ages of the two clocks.
States == [peak : Nat, oor : (0 .. OorLimit) \cup {None}, blk : (0 .. BlockCap) \cup {None}]

ASSUME RobinhoodAssumption ==
  /\ IsFiniteSet(Positions) /\ Exec \in [Positions -> Executors]
  /\ Unpriced \subseteq Positions /\ Reliable \subseteq Executors /\ Watched \in Positions
  /\ \A r \in Readings : r \in Reading /\ r.pool
  /\ MaxKills \in Nat /\ OorLimit \in Nat \ {0} /\ BlockCap \in Nat \ {0}
  /\ None \notin Int /\ None \notin States

\* "collected": the liquidity is out and paid, only the NFT is left to burn.  (A position
\* whose liquidity is out but still owed reads, and closes, like an open one.)
Chain == {"absent", "open", "collected", "gone"}

\* A loose bag is in the wallet and in no journal; one that waits is backing off.
Bags == {"none", "loose", "waiting", "due"}

VARIABLES
  chain,    \* per position: how much of it is on chain
  bag,      \* per position: what its close left of its token
  file,     \* uni_monitor_state.json
  tick,     \* the running tick: what it gathered, and its last verdict
  mem,      \* the state the tick loaded
  kills,    \* how often a tick was killed
  held,     \* checking only: age of Watched's unbroken run of postponed exits
  inAge     \* checking only: time since Watched was last seen in range

vars == <<chain, bag, file, tick, mem, kills, held, inAge>>
past == <<held, inAge>>

Idle == [step |-> "idle", failed |-> {}, blind |-> {}, todo |-> {}, live |-> {}]

Nothing == [p \in Positions |-> None]

Init ==
  /\ chain = [p \in Positions |-> "absent"] /\ bag = [p \in Positions |-> "none"]
  /\ file = Nothing /\ mem = Nothing
  /\ tick = Idle /\ kills = 0
  /\ held = None /\ inAge = OorLimit

Open(p) == chain[p] \in {"open", "collected"}

--------------------------------------------------------------------------------
(* The rulebook. *)

Larger(a, b) == IF a > b THEN a ELSE b

\* trailing_floor_pct
Floor(peak) == IF peak >= 200 THEN Larger(140, (peak * 7) \div 10)
               ELSE IF peak >= 100 THEN Larger(60, peak - 40)
               ELSE IF peak >= 50 THEN Larger(20, peak - 25)
               ELSE peak - 15

EmergencySl(r)     == r.pnl <= -280
StopLoss(r)        == r.pnl <= -250 /\ ~r.young
TakeProfit(r)      == r.pnl >= 500
Armed(peak)        == peak >= 50
Locked(r)          == r.pnl >= 3
Trailing(r, peak)  == Armed(peak) /\ r.pnl < Floor(peak) /\ Locked(r)
FastOut(r, peak)   == Armed(peak) /\ r.m5 /\ Locked(r)
Downtrend(r)       == r.h1 /\ r.pnl <= -50
OutOfRange(r, oor) == ~r.inRange /\ oor = OorLimit

\* decide
Reason(r, peak, oor) ==
  IF r.pnl # None /\ EmergencySl(r) THEN "emergency"
  ELSE IF r.pnl # None /\ StopLoss(r) THEN "stop"
  ELSE IF r.pnl # None /\ TakeProfit(r) THEN "profit"
  ELSE IF r.pnl # None /\ Trailing(r, peak) THEN "trailing"
  ELSE IF r.pnl # None /\ FastOut(r, peak) THEN "fast"
  ELSE IF r.pnl # None /\ Downtrend(r) THEN "downtrend"
  ELSE IF OutOfRange(r, oor) THEN "oor"
  ELSE "hold"

\* exit_confirmable
Confirmable == {"trailing", "fast", "downtrend"}

\* What the monitor makes of an error report: no PnL, out of range, no pool.
ErrorReading == [pnl |-> None, inRange |-> FALSE, young |-> FALSE,
                 m5 |-> FALSE, h1 |-> FALSE, pool |-> FALSE]

\* A collected position is worth nothing; the state of one that is gone cannot be read.
Shows(p, r) ==
  \/ r = ErrorReading
  \/ /\ Open(p)
     /\ \E seen \in Readings :
          r = [seen EXCEPT !.pnl = IF p \in Unpriced THEN None
                                   ELSE IF chain[p] = "collected" THEN -1000 ELSE @]

--------------------------------------------------------------------------------
(* Gathering. *)

\* run_executor takes the last line of the output for the answer, whatever the exit status:
\* an error report is an answer that lists nothing.
Answers == {"listed", "report", "silent"}
Giving(answers, kind) == {e \in Executors : answers[e] = kind}

\* What the executors list: the NFTs the wallet owns.
Listed(answers) == {p \in Positions : answers[Exec[p]] = "listed" /\ Open(p)}

\* mutant: the bags are swept only when a position is open.
SweepableIfOpen(answers) == IF Listed(answers) = {} THEN {}
                            ELSE {p \in Positions : bag[p] = "due" /\ answers[Exec[p]] # "silent"}
\* Every executor that answered is asked to sell its journalled bags that are due.
Sweepable(answers) == {p \in Positions : bag[p] = "due" /\ answers[Exec[p]] # "silent"}

\* What is not sold backs off again; a sweep that fails outright changes nothing.
Sweep(answers, sold, failed) ==
  /\ sold \subseteq Sweepable(answers) /\ failed \subseteq Sweepable(answers) \ sold
  /\ bag' = [p \in Positions |-> IF p \in sold THEN "none"
                                 ELSE IF p \in failed THEN "waiting" ELSE bag[p]]

\* mutant: any failed read fails the tick.
FailsIfAny(answers) == Giving(answers, "silent") # {}
Fails(answers) == Giving(answers, "silent") = Executors

\* Unless an executor answered and something is open, the tick ends there and saves nothing.
Gather(answers, sold, failed) ==
  /\ tick.step = "idle"
  /\ Sweep(answers, sold, failed)
  /\ IF Fails(answers) \/ Listed(answers) = {} THEN UNCHANGED <<tick, mem>>
     ELSE /\ mem' = file
          /\ tick' = [Idle EXCEPT !.step = "visit", !.todo = Listed(answers),
                                  !.failed = Giving(answers, "silent"),
                                  !.blind = Giving(answers, "report")]
  /\ UNCHANGED <<chain, file, kills, past>>

--------------------------------------------------------------------------------
(* Visiting a position. *)

Visited(p) == tick' = [tick EXCEPT !.todo = @ \ {p}, !.live = @ \cup {p}]

\* No answer: the position still counts as live.
Unreadable(p) ==
  /\ tick.step = "visit" /\ p \in tick.todo
  /\ Visited(p)
  /\ UNCHANGED <<chain, bag, file, mem, kills, past>>

Fresh == [peak |-> 0, oor |-> None, blk |-> None]
Known(p) == IF mem[p] = None THEN Fresh ELSE mem[p]

\* mutant: the last PnL instead of the best.
PeakLast(s, r) == IF r.pnl # None THEN r.pnl ELSE s.peak
PeakAfter(s, r) == IF r.pnl # None /\ r.pnl > s.peak THEN r.pnl ELSE s.peak

\* mutant: the clock is not reset in range.
OorNeverReset(s, r) == IF s.oor = None /\ ~r.inRange THEN 0 ELSE s.oor
OorAfter(s, r) == IF r.inRange THEN None ELSE IF s.oor = None THEN 0 ELSE s.oor

Raised(s, r) == Reason(r, PeakAfter(s, r), OorAfter(s, r))

\* The exit is put to the indicators; a block that is old enough is not asked again.
Asked(s, r)           == Raised(s, r) \in Confirmable /\ r.pool
TimedOut(s)           == s.blk # None /\ s.blk >= BlockCap
Postponed(s, r, ind)  == Asked(s, r) /\ ~TimedOut(s) /\ ind = "rejected"

\* mutant: every postponement starts the clock again.
BlkRestarted(s, r, ind) == IF Postponed(s, r, ind) THEN 0
                           ELSE IF Asked(s, r) \/ Raised(s, r) = "hold" THEN None ELSE s.blk
BlkAfter(s, r, ind) == IF Postponed(s, r, ind) THEN (IF s.blk = None THEN 0 ELSE s.blk)
                       ELSE IF Asked(s, r) \/ Raised(s, r) = "hold" THEN None ELSE s.blk

Exits(s, r, ind) == Raised(s, r) # "hold" /\ ~Postponed(s, r, ind)

\* How far cmdClose gets: each transaction in turn, then the sale.
Outcomes == {"refused", "collected", "burnt", "stranded", "sold"}
Reach(p, o) == CASE o = "refused"   -> TRUE
                 [] o = "collected" -> chain[p] = "open"
                 [] OTHER           -> Open(p)

\* The freed tokens are sold, or journalled, only after the burn.
Effect(p, o) ==
  /\ chain' = CASE o = "refused"   -> chain
                [] o = "collected" -> [chain EXCEPT ![p] = "collected"]
                [] OTHER           -> [chain EXCEPT ![p] = "gone"]
  /\ bag' = CASE o = "burnt"    -> [bag EXCEPT ![p] = "loose"]
              [] o = "stranded" -> [bag EXCEPT ![p] = "waiting"]
              [] OTHER          -> bag

Looked(s, r, ind) ==
  [peak |-> PeakAfter(s, r), oor |-> OorAfter(s, r), blk |-> BlkAfter(s, r, ind)]

\* Indicators that give no data let the exit pass.
Signals == {"rejected", "passed"}

Hold(p, r, ind) ==
  /\ tick.step = "visit" /\ p \in tick.todo /\ Shows(p, r)
  /\ LET s == Known(p) IN
       /\ ~Exits(s, r, ind)
       /\ mem' = [mem EXCEPT ![p] = Looked(s, r, ind)]
       /\ Visited(p)
       /\ held' = IF p # Watched THEN held
                  ELSE IF ~Postponed(s, r, ind) THEN None
                  ELSE IF held = None THEN 0 ELSE held
       /\ inAge' = IF p = Watched /\ r.inRange THEN 0 ELSE inAge
  /\ UNCHANGED <<chain, bag, file, kills>>

\* Success is printed at the end; without it (an error, or the 150 seconds are over) the
\* close counts as failed and the entry stays.
Close(p, r, ind, o, answered) ==
  /\ tick.step = "visit" /\ p \in tick.todo /\ Shows(p, r)
  /\ Reach(p, o) /\ (answered => o \in {"stranded", "sold"})
  /\ LET s == Known(p) IN
       /\ Exits(s, r, ind)
       /\ Effect(p, o)
       /\ mem' = [mem EXCEPT ![p] = IF answered THEN None ELSE Looked(s, r, ind)]
       /\ Visited(p)
  /\ held' = IF p = Watched THEN None ELSE held
  /\ inAge' = IF p = Watched /\ r.inRange THEN 0 ELSE inAge
  /\ UNCHANGED <<file, kills>>

\* mutant: the entries of an executor that could not be read are pruned too.
KeepsLive(p) == mem[p] # None /\ p \in tick.live
Keeps(p) == mem[p] # None /\ (p \in tick.live \/ Exec[p] \in tick.failed)

Save ==
  /\ tick.step = "visit" /\ tick.todo = {}
  /\ file' = [p \in Positions |-> IF Keeps(p) THEN mem[p] ELSE None]
  /\ held' = IF Keeps(Watched) THEN held ELSE None
  /\ tick' = Idle /\ mem' = Nothing
  /\ UNCHANGED <<chain, bag, kills, inAge>>

\* The loop is restarted, the host goes down, a write fails: what was visited is
\* forgotten.  Killed while it writes, the file is left without a state to parse.
Killed ==
  /\ tick.step # "idle" /\ kills < MaxKills
  /\ \E torn \in {FALSE, tick.step = "visit" /\ tick.todo = {}} :
       file' = IF torn THEN Nothing ELSE file
  /\ kills' = kills + 1 /\ tick' = Idle /\ mem' = Nothing
  /\ held' = None /\ inAge' = OorLimit
  /\ UNCHANGED <<chain, bag>>

--------------------------------------------------------------------------------
(* The world. *)

Mint(p) == /\ chain[p] = "absent"
           /\ chain' = [chain EXCEPT ![p] = "open"]
           /\ UNCHANGED <<bag, file, tick, mem, kills, past>>

\* The operator runs close --force.
ManualClose(p, o) == /\ chain[p] # "absent" /\ o # "refused" /\ Reach(p, o)
                     /\ Effect(p, o)
                     /\ UNCHANGED <<file, tick, mem, kills, past>>

\* The operator runs sweep --token: the bag is journalled without a backoff.
AdoptBag(p) == /\ bag[p] = "loose"
               /\ bag' = [bag EXCEPT ![p] = "due"]
               /\ UNCHANGED <<chain, file, tick, mem, kills, past>>

\* retryDelay is capped: a bag is offered again at last.
BackoffOver(p) == /\ bag[p] = "waiting"
                  /\ bag' = [bag EXCEPT ![p] = "due"]
                  /\ UNCHANGED <<chain, file, tick, mem, kills, past>>

Older(age, limit) == IF age = None \/ age = limit THEN age ELSE age + 1

\* Half an hour goes by; what is older than a limit counts as the limit.
Pass ==
  /\ tick.step = "idle"
  /\ file' = [p \in Positions |-> IF file[p] = None THEN None
                ELSE [file[p] EXCEPT !.oor = Older(@, OorLimit), !.blk = Older(@, BlockCap)]]
  /\ held' = Older(held, BlockCap) /\ inAge' = Older(inAge, OorLimit)
  /\ UNCHANGED <<chain, bag, tick, mem, kills>>

Shown == Readings \cup {ErrorReading} \cup {[r EXCEPT !.pnl = n] : r \in Readings, n \in {-1000, None}}

Visit(p) ==
  \/ Unreadable(p)
  \/ \E r \in Shown, ind \in Signals :
       \/ Hold(p, r, ind)
       \/ \E o \in Outcomes, answered \in BOOLEAN : Close(p, r, ind, o, answered)

Gathering == \E answers \in [Executors -> Answers], sold, failed \in SUBSET Positions :
               Gather(answers, sold, failed)

World == \/ \E p \in Positions : \/ Mint(p) \/ AdoptBag(p) \/ BackoffOver(p)
                                 \/ \E o \in Outcomes : ManualClose(p, o)
         \/ Pass

Next == Gathering \/ (\E p \in Positions : Visit(p)) \/ Save \/ Killed \/ World

Spec == Init /\ [][Next]_vars

ReliableOnly == [e \in Executors |-> IF e \in Reliable THEN "listed" ELSE "silent"]

\* The loop goes on; the reliable executors list, sell, read and close again and again, the
\* others need not answer; a backoff ends.
Fairness ==
  /\ WF_vars((\E p \in Positions : Visit(p)) \/ Save)
  /\ SF_vars(Gather(ReliableOnly, Sweepable(ReliableOnly), {}))
  /\ \A p \in Positions : Exec[p] \in Reliable =>
       /\ WF_vars(BackoffOver(p))
       /\ SF_vars(\E r \in Shown \ {ErrorReading} :
                    Hold(p, r, "passed") \/ Close(p, r, "passed", "sold", TRUE))

FairSpec == Spec /\ Fairness

--------------------------------------------------------------------------------
(* Properties. *)

Ticks == [step : {"idle", "visit"}, failed : SUBSET Executors, blind : SUBSET Executors,
          todo : SUBSET Positions, live : SUBSET Positions]

\* Types: a clock never exceeds its limit, a peak is never negative.
TypeOK ==
  /\ chain \in [Positions -> Chain] /\ bag \in [Positions -> Bags]
  /\ file \in [Positions -> States \cup {None}] /\ mem \in [Positions -> States \cup {None}]
  /\ tick \in Ticks /\ kills \in 0 .. MaxKills
  /\ held \in (0 .. BlockCap) \cup {None} /\ inAge \in 0 .. OorLimit

Remembered(p) == file[p] # None => file'[p] # None /\ file'[p].peak >= file[p].peak

\* The best PnL of a position that stays open is never forgotten or lowered by a tick that
\* ends by itself, whichever executors gave no answer, closed meanwhile or failed to close
\* (monitor 536-546); an error report taken for an answer is the exception.
PeakKept ==
  [][\A p \in Positions : Open(p) /\ Open(p)' /\ kills' = kills /\ Exec[p] \notin tick.blind
                             => Remembered(p)]_vars

\* What the visit to come may make of the watched position.
Visiting(r) == tick.step = "visit" /\ Watched \in tick.todo /\ Shows(Watched, r)

\* The indicators postpone no unbroken run of exits past the cap (monitor 462-487), however
\* many ticks it takes and whatever the position's reads do between.
PostponedAtMostCap ==
  \A r \in Shown : Visiting(r) /\ Postponed(Known(Watched), r, "rejected") => held # BlockCap

\* An exit "out of range for 30 minutes" is raised only when no saved tick saw the position
\* in range for 30 minutes, although error reports count as out of range (monitor 446-458).
OorExitIsReal ==
  \A r \in Shown : Visiting(r) /\ Raised(Known(Watched), r) = "oor" => inAge = OorLimit

\* A journalled bag is sold in the end, also when no position is open and whatever the other
\* executor answers (monitor 356-366, cmdSweep).
BagIsSold ==
  \A p \in Positions : Exec[p] \in Reliable /\ bag[p] \in {"waiting", "due"}
                          ~> bag[p] = "none"

\* A close that stopped before the burn is finished by later ticks: the emptied position
\* reads as a total loss, which nothing postpones, even while the other executor never
\* answers (monitor 179-186, 343-374, cmdClose).
HalfClosedIsFinished ==
  \A p \in Positions : Exec[p] \in Reliable /\ p \notin Unpriced /\ chain[p] = "collected"
                          ~> chain[p] = "gone"

================================================================================
