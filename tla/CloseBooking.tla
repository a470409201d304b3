------------------------------ MODULE CloseBooking ------------------------------
(***************************************************************************)
(* What follows a close (dlmm_monitor.py 1504-1770, and 759-855 for        *)
(* --override-close): the position's keys are dropped, the day's PnL and   *)
(* the close counters are written, then the token is cooled down, its loss *)
(* streak counted and its mint blocked - or the pool is re-centered: the   *)
(* same SOL is deployed again.  Every step is a Redis call of its own, or  *)
(* an executor call that may land unseen; closers run beside each other,   *)
(* and each may be killed between two steps.                               *)
(*                                                                         *)
(* Cooldowns are in minutes, PnL in units of a small loss.  A booking is   *)
(* short beside a cooldown.  Compounds and harvests book nothing and are   *)
(* no closes here, and the change of the day's key is not modelled.  Dry   *)
(* runs, messages and the close journal are left out; the signal marks     *)
(* that a close clears are in SignalDaemon.                                *)
(***************************************************************************)
EXTENDS Integers, FiniteSets

CONSTANTS
  Loop,        \* the monitor loop: it alone closes for ordinary reasons
  Reports,     \* --report-only passes: they close emergencies and book like the loop
  Agents,      \* --override-close calls
  Positions,   \* addresses; a closed one stands for a fresh one later
  Pool,        \* the pool of an address
  Token,       \* the token of a pool
  CountCap,    \* re-centers in 24 hours: 20 in turnover mode, 3 otherwise
  CbLoss,      \* TURNOVER_CB_LOSS_SOL, without its sign
  Closes,      \* the reasons and results of closes: [kind, result]
  Entered,     \* the modes the pipeline deploys in
  MaxCloses,   \* a bound: how many closes
  MaxKills,    \* a bound: how many kills
  None

Closers  == {Loop} \cup Reports \cup Agents
Monitors == {Loop} \cup Reports
Pools    == {Pool[p] : p \in Positions}
Tokens   == {Token[pool] : pool \in Pools}

\* "reseed" is a position of strategy single_sided_reseed, whatever its mode (the tripped
\* breaker of a turnover one is left out).
Modes == {"turnover", "multiday", "casual", "reseed"}

\* What close_reason says: out of range, low yield, a dump, a stop loss, a rug, or else.
Kinds == {"oor", "yield", "dump", "stop", "rug", "other"}

\* -30% and below, -8% and below, a loss, nothing, a gain.
Results == {"rug", "deep", "loss", "even", "win"}
Sol(r) == CASE r = "rug" -> -2 [] r = "deep" -> -2 [] r = "loss" -> -1
            [] r = "even" -> 0 [] r = "win" -> 1
Size(r) == IF Sol(r) < 0 THEN -Sol(r) ELSE Sol(r)

ASSUME BookingAssumption ==
  /\ IsFiniteSet(Positions) /\ IsFiniteSet(Closers)
  /\ Pool \in [Positions -> Pools] /\ Token \in [Pools -> Tokens]
  /\ Loop \notin Reports \cup Agents /\ Reports \cap Agents = {}
  /\ CountCap \in [Modes -> Nat] /\ CbLoss \in Nat
  /\ Closes \subseteq [kind : Kinds, result : Results \cup {None}] /\ Entered \subseteq Modes
  /\ MaxCloses \in Nat /\ MaxKills \in Nat
  /\ None \notin Positions \cup Modes \cup Kinds \cup Results \cup Int

VARIABLES
  open,       \* the accounts on chain
  mode,       \* Redis: the mode in a tracked position's metadata, None when not tracked
  day,        \* Redis: pnl:daily, total_sol
  cool,       \* Redis: cooldown:<SYMBOL>, the minutes it was set for, 0 when gone
  coolMint,   \* Redis: cooldown:mint:<mint>
  coolPool,   \* Redis: cooldown:pool:<pool>
  streak,     \* Redis: loss_streak:<SYMBOL>
  recenters,  \* Redis: rebalance_count:<pool>
  poolPnl,    \* Redis: rebalance_pnl:<pool>
  blocked,    \* Redis: blocklist:mint
  task,       \* per closer: the close it is booking (met, for checking only: beside
              \* another close of the same token)
  bounds,     \* closes and kills so far
  closed,     \* checking only: the PnL of all the closes on chain
  slack,      \* checking only: the part of it that the day's total may miss
  recent      \* checking only: redeploys of a pool since its count was gone

redis == <<mode, day, cool, coolMint, coolPool, streak, recenters, poolPnl, blocked>>
past  == <<closed, slack, recent>>
vars  == <<open, redis, task, bounds, past>>

Idle == [step |-> "idle", pos |-> None, mode |-> None, kind |-> None, result |-> None,
         total |-> 0, losses |-> 0, again |-> FALSE, met |-> FALSE]

Init ==
  /\ open = {} /\ mode = [p \in Positions |-> None]
  /\ day = 0
  /\ cool = [t \in Tokens |-> 0] /\ coolMint = [t \in Tokens |-> 0]
  /\ coolPool = [pool \in Pools |-> 0]
  /\ streak = [t \in Tokens |-> 0]
  /\ recenters = [pool \in Pools |-> 0] /\ poolPnl = [pool \in Pools |-> 0]
  /\ blocked = {}
  /\ task = [c \in Closers |-> Idle]
  /\ bounds = [closes |-> 0, kills |-> 0]
  /\ closed = 0 /\ slack = 0 /\ recent = [pool \in Pools |-> 0]

PoolOf(c)  == Pool[task[c].pos]
TokenOf(c) == Token[PoolOf(c)]
SolOf(c)   == Sol(task[c].result)
At(c, step)   == task[c].step = step
Goto(c, step) == task' = [task EXCEPT ![c].step = step]
Done(c)       == task' = [task EXCEPT ![c] = Idle]
BusyWith(c, t) == task[c].pos # None /\ TokenOf(c) = t
Busy(t)        == \E c \in Closers : BusyWith(c, t)

--------------------------------------------------------------------------------
(* The close and the day's PnL. *)

\* The executor answers success; an override may have had no live PnL (result None): what
\* such a close earned nobody books, and it is left out of closed.
CloseLands(c, p, kind, result) ==
  /\ At(c, "idle") /\ p \in open /\ mode[p] # None
  /\ bounds.closes < MaxCloses
  /\ c \in Reports => kind \in {"stop", "rug"}
  /\ c \in Agents => kind \notin {"oor", "yield"}
  /\ result = None => c \in Agents
  /\ open' = open \ {p}
  /\ task' = [d \in Closers |->
       IF d = c THEN [step |-> "forget", pos |-> p, mode |-> mode[p], kind |-> kind,
                      result |-> result, total |-> 0, losses |-> 0, again |-> FALSE,
                      met |-> Busy(Token[Pool[p]])]
       ELSE IF BusyWith(d, Token[Pool[p]]) THEN [task[d] EXCEPT !.met = TRUE] ELSE task[d]]
  /\ bounds' = [bounds EXCEPT !.closes = @ + 1]
  /\ closed' = IF result = None THEN closed ELSE closed + Sol(result)
  /\ UNCHANGED <<redis, slack, recent>>

\* The close lands after the 30 seconds of run_command: nobody books it.
CloseUnseen(p, result) ==
  /\ p \in open /\ open' = open \ {p}
  /\ result # None /\ bounds.closes < MaxCloses
  /\ bounds' = [bounds EXCEPT !.closes = @ + 1]
  /\ closed' = closed + Sol(result) /\ slack' = slack + Size(result)
  /\ UNCHANGED <<redis, task, recent>>

\* mutant: a close is not booked when reconciliation has dropped its keys meanwhile.
ForgetDropped(c) ==
  /\ At(c, "forget")
  /\ mode' = [mode EXCEPT ![task[c].pos] = None]
  /\ Goto(c, IF mode[task[c].pos] = None THEN "after"
             ELSE IF c \in Agents THEN "cool" ELSE "read")
  /\ UNCHANGED <<open, day, cool, coolMint, coolPool, streak, recenters, poolPnl, blocked,
                 bounds, past>>
\* SREM, DEL.  The override cools the token down before it books, the monitor after.
Forget(c) ==
  /\ At(c, "forget")
  /\ mode' = [mode EXCEPT ![task[c].pos] = None]
  /\ Goto(c, IF c \in Agents THEN "cool" ELSE "read")
  /\ UNCHANGED <<open, day, cool, coolMint, coolPool, streak, recenters, poolPnl, blocked,
                 bounds, past>>

\* HGET total_sol
ReadTotal(c) ==
  /\ At(c, "read")
  /\ task' = [task EXCEPT ![c].total = day, ![c].step = "write"]
  /\ UNCHANGED <<open, redis, bounds, past>>

\* HSET total_sol.  (The counts of exits and losses beside it are atomic.)  Whoever has read
\* the total before this write will write over it.
WriteTotal(c) ==
  /\ At(c, "write")
  /\ day' = task[c].total + SolOf(c)
  /\ slack' = IF \E d \in Closers \ {c} : At(d, "write") THEN slack + Size(task[c].result)
              ELSE slack
  /\ Goto(c, IF c \in Agents THEN "streak" ELSE "budget")
  /\ UNCHANGED <<open, mode, cool, coolMint, coolPool, streak, recenters, poolPnl, blocked,
                 bounds, closed, recent>>

--------------------------------------------------------------------------------
(* Re-center, or cool down. *)

\* is_dump_close
Dumps(kind) == kind \in {"dump", "stop"}

\* Drift must not contradict the mode's thesis; only the direction of a casual one matters.
ModeAllows(c, above) ==
  \/ task[c].mode = "turnover"
  \/ task[c].mode = "multiday" /\ SolOf(c) > 0
  \/ task[c].mode = "casual" /\ above

\* mutant: one re-center more.
BudgetLoose(c) ==
  /\ recenters[PoolOf(c)] <= CountCap[task[c].mode]
  /\ task[c].mode = "turnover" => poolPnl[PoolOf(c)] > -CbLoss
\* rebalance_budget_ok
BudgetOk(c) ==
  /\ recenters[PoolOf(c)] < CountCap[task[c].mode]
  /\ task[c].mode = "turnover" => poolPnl[PoolOf(c)] > -CbLoss

\* is_oor_rebalance
Recenters(c, above) ==
  /\ task[c].kind = "oor" /\ ModeAllows(c, above)
  /\ task[c].result \notin {"rug", "deep"}
  /\ BudgetOk(c)

\* The branch that only prints.
Tripped(c) == task[c].mode = "turnover" /\ task[c].kind = "oor" /\ poolPnl[PoolOf(c)] <= -CbLoss

Budget(c, above) ==
  /\ At(c, "budget")
  /\ task' = [task EXCEPT ![c].again = Recenters(c, above),
                          ![c].step = IF Recenters(c, above) \/ Tripped(c) THEN "after"
                                      ELSE "streak"]
  /\ UNCHANGED <<open, redis, bounds, past>>

\* mutant: a gain takes one loss back.
StreakBack(c) ==
  /\ At(c, "streak")
  /\ streak' = [streak EXCEPT ![TokenOf(c)] = IF SolOf(c) < 0 THEN @ + 1 ELSE @ - 1]
  /\ Goto(c, "look")
  /\ UNCHANGED <<open, mode, day, cool, coolMint, coolPool, recenters, poolPnl, blocked,
                 bounds, past>>
\* INCR loss_streak (its EXPIRE follows); DEL after a close without a loss.
Streak(c) ==
  /\ At(c, "streak")
  /\ streak' = [streak EXCEPT ![TokenOf(c)] = IF SolOf(c) < 0 THEN @ + 1 ELSE 0]
  /\ Goto(c, "look")
  /\ UNCHANGED <<open, mode, day, cool, coolMint, coolPool, recenters, poolPnl, blocked,
                 bounds, past>>

\* GET loss_streak; an answer that is no number counts as 1.
Look(c) ==
  /\ At(c, "look")
  /\ task' = [task EXCEPT ![c].step = IF c \in Agents THEN "extend" ELSE "cool",
                          ![c].losses = IF SolOf(c) >= 0 THEN 0
                                        ELSE IF streak[TokenOf(c)] = 0 THEN 1
                                        ELSE streak[TokenOf(c)]]
  /\ UNCHANGED <<open, redis, bounds, past>>

\* The second loss in a row costs a day, the third three.
Repeats(n)   == n >= 2
Escalated(n) == IF n >= 3 THEN 4320 ELSE 1440
Paid(c)      == SolOf(c) > 0 /\ task[c].kind # "stop"
Plain(c)     == IF Dumps(task[c].kind) THEN 120 ELSE 60

\* mutant: a repeated loss cools no longer than another.
MonitorCoolsPlain(c) == IF Paid(c) THEN 15 ELSE Plain(c)
\* cooldown_secs of the monitor.
MonitorCools(c) == IF Repeats(task[c].losses) THEN Escalated(task[c].losses)
                   ELSE IF Paid(c) THEN 15 ELSE Plain(c)

\* SET cooldown, SET cooldown:mint.  An override without a live PnL books nothing more.
Cool(c) ==
  /\ At(c, "cool")
  /\ LET minutes == IF c \in Agents THEN Plain(c) ELSE MonitorCools(c) IN
       /\ cool' = [cool EXCEPT ![TokenOf(c)] = minutes]
       /\ coolMint' = [coolMint EXCEPT ![TokenOf(c)] = minutes]
  /\ Goto(c, IF c \in Agents /\ task[c].result # None THEN "read" ELSE "after")
  /\ UNCHANGED <<open, mode, day, coolPool, streak, recenters, poolPnl, blocked, bounds, past>>

\* EXPIRE gives a key that exists another time to live.
Lasts(minutes, is) == IF is = 0 THEN 0 ELSE minutes

\* The override's second thought: longer after a repeated loss, shorter after a gain.
Extend(c) ==
  /\ At(c, "extend")
  /\ LET t == TokenOf(c)
         minutes == IF Repeats(task[c].losses) THEN Escalated(task[c].losses)
                    ELSE IF Paid(c) THEN 15 ELSE None IN
       IF minutes = None THEN UNCHANGED <<cool, coolMint>>
       ELSE /\ cool' = [cool EXCEPT ![t] = Lasts(minutes, @)]
            /\ coolMint' = [coolMint EXCEPT ![t] = Lasts(minutes, @)]
  /\ Goto(c, "after")
  /\ UNCHANGED <<open, mode, day, coolPool, streak, recenters, poolPnl, blocked, bounds, past>>

\* maybe_blacklist_rug; an override without a live PnL does not get there.
Rugged(c) == task[c].result # None /\ (task[c].kind = "rug" \/ task[c].result = "rug")

\* The low-yield cooldown of the pool, the blocklist, and the sale of the token.
After(c) ==
  /\ At(c, "after")
  /\ coolPool' = IF c \in Monitors /\ task[c].kind = "yield"
                 THEN [coolPool EXCEPT ![PoolOf(c)] = 240] ELSE coolPool
  /\ blocked' = IF Rugged(c) THEN blocked \cup {TokenOf(c)} ELSE blocked
  /\ IF task[c].again THEN Goto(c, "tally")
     ELSE IF c \in Monitors /\ task[c].mode = "reseed" THEN Goto(c, "reseed") ELSE Done(c)
  /\ UNCHANGED <<open, mode, day, cool, coolMint, streak, recenters, poolPnl, bounds, past>>

--------------------------------------------------------------------------------
(* Deploying the same pool again. *)

\* INCR, EXPIRE rebalance_count
Tally(c) ==
  /\ At(c, "tally")
  /\ recenters' = [recenters EXCEPT ![PoolOf(c)] = @ + 1]
  /\ Goto(c, "tallyPnl")
  /\ UNCHANGED <<open, mode, day, cool, coolMint, coolPool, streak, poolPnl, blocked,
                 bounds, past>>

\* INCRBYFLOAT, EXPIRE rebalance_pnl
TallyPnl(c) ==
  /\ At(c, "tallyPnl")
  /\ poolPnl' = [poolPnl EXCEPT ![PoolOf(c)] = @ + SolOf(c)]
  /\ Goto(c, "redeploy")
  /\ UNCHANGED <<open, mode, day, cool, coolMint, coolPool, streak, recenters, blocked,
                 bounds, past>>

\* An address nobody uses.
Free(p) == p \notin open /\ mode[p] = None /\ \A c \in Closers : task[c].pos # p

\* mutant: a failed deploy ends the booking.
RedeployGivesUp(c, q, outcome) ==
  /\ At(c, "redeploy")
  /\ recent' = [recent EXCEPT ![PoolOf(c)] = @ + 1]
  /\ IF outcome = "failed" THEN open' = open ELSE Free(q) /\ open' = open \cup {q}
  /\ IF outcome = "ok" THEN task' = [task EXCEPT ![c].step = "register", ![c].pos = q]
     ELSE Done(c)
  /\ UNCHANGED <<redis, bounds, closed, slack>>
\* The deploy succeeds, fails, or lands after it was given up.
Redeploy(c, q, outcome) ==
  /\ At(c, "redeploy") /\ Pool[q] = PoolOf(c)
  /\ recent' = [recent EXCEPT ![PoolOf(c)] = @ + 1]
  /\ IF outcome = "failed" THEN open' = open ELSE Free(q) /\ open' = open \cup {q}
  /\ IF outcome = "ok" THEN task' = [task EXCEPT ![c].step = "register", ![c].pos = q]
     ELSE Goto(c, "fallback")
  /\ UNCHANGED <<redis, bounds, closed, slack>>

\* SET position, SADD
Register(c) ==
  /\ At(c, "register")
  /\ mode' = [mode EXCEPT ![task[c].pos] = task[c].mode]
  /\ Done(c)
  /\ UNCHANGED <<open, day, cool, coolMint, coolPool, streak, recenters, poolPnl, blocked,
                 bounds, past>>

\* The token's key only, not its mint's.
Fallback(c) ==
  /\ At(c, "fallback")
  /\ cool' = [cool EXCEPT ![TokenOf(c)] = 60]
  /\ Done(c)
  /\ UNCHANGED <<open, mode, day, coolMint, coolPool, streak, recenters, poolPnl, blocked,
                 bounds, past>>

\* The re-seed deploys the tokens it was paid, unless there are none.
Reseed(c, q, outcome) ==
  /\ At(c, "reseed") /\ Pool[q] = PoolOf(c)
  /\ IF outcome = "failed" THEN open' = open ELSE Free(q) /\ open' = open \cup {q}
  /\ IF outcome = "ok" THEN task' = [task EXCEPT ![c].step = "register", ![c].pos = q]
     ELSE Done(c)
  /\ UNCHANGED <<redis, bounds, past>>

Outcomes == {"ok", "failed", "unseen"}

\* c has not written its close into the day's total yet; a cool-down comes first for an
\* override, last for a monitor.
Owes(c) == /\ task[c].result # None
           /\ \/ task[c].step \in {"forget", "read", "write"}
              \/ c \in Agents /\ At(c, "cool")

Killed(c) ==
  /\ ~At(c, "idle") /\ bounds.kills < MaxKills
  /\ bounds' = [bounds EXCEPT !.kills = @ + 1]
  /\ slack' = IF Owes(c) THEN slack + Size(task[c].result) ELSE slack
  /\ Done(c)
  /\ UNCHANGED <<open, redis, closed, recent>>

--------------------------------------------------------------------------------
(* The world. *)

\* The pipeline deploys a token that no gate forbids.
Deploy(p, m) ==
  /\ Free(p) /\ ~\E q \in open : Token[Pool[q]] = Token[Pool[p]]
  /\ cool[Token[Pool[p]]] = 0 /\ coolMint[Token[Pool[p]]] = 0 /\ coolPool[Pool[p]] = 0
  /\ Token[Pool[p]] \notin blocked
  /\ open' = open \cup {p} /\ mode' = [mode EXCEPT ![p] = m]
  /\ UNCHANGED <<day, cool, coolMint, coolPool, streak, recenters, poolPnl, blocked,
                 task, bounds, past>>

\* Reconciliation adopts an untracked account, without a mode.
Adopt(p) ==
  /\ p \in open /\ mode[p] = None
  /\ mode' = [mode EXCEPT ![p] = "multiday"]
  /\ UNCHANGED <<open, day, cool, coolMint, coolPool, streak, recenters, poolPnl, blocked,
                 task, bounds, past>>

\* Reconciliation forgets an account that is gone.
Drop(p) ==
  /\ p \notin open /\ mode[p] # None
  /\ mode' = [mode EXCEPT ![p] = None]
  /\ UNCHANGED <<open, day, cool, coolMint, coolPool, streak, recenters, poolPnl, blocked,
                 task, bounds, past>>

\* A token's keys expire, not while a close of it is booked.
Lapse(t) ==
  /\ ~Busy(t)
  /\ \/ cool[t] # 0 /\ cool' = [cool EXCEPT ![t] = 0] /\ UNCHANGED <<coolMint, streak>>
     \/ coolMint[t] # 0 /\ coolMint' = [coolMint EXCEPT ![t] = 0] /\ UNCHANGED <<cool, streak>>
     \/ streak[t] # 0 /\ streak' = [streak EXCEPT ![t] = 0] /\ UNCHANGED <<cool, coolMint>>
  /\ UNCHANGED <<open, mode, day, coolPool, recenters, poolPnl, blocked, task, bounds, past>>

\* A pool's keys expire; those of a re-center a day after they were last written.
LapsePool(pool) ==
  /\ ~Busy(Token[pool])
  /\ \/ /\ coolPool[pool] # 0 /\ coolPool' = [coolPool EXCEPT ![pool] = 0]
        /\ UNCHANGED <<recenters, poolPnl, recent>>
     \/ /\ recenters[pool] # 0 /\ recenters' = [recenters EXCEPT ![pool] = 0]
        /\ recent' = [recent EXCEPT ![pool] = 0]
        /\ UNCHANGED <<coolPool, poolPnl>>
     \/ /\ poolPnl[pool] # 0 /\ poolPnl' = [poolPnl EXCEPT ![pool] = 0]
        /\ UNCHANGED <<coolPool, recenters, recent>>
  /\ UNCHANGED <<open, mode, day, cool, coolMint, streak, blocked, task, bounds, closed, slack>>

Book(c) == \/ Forget(c) \/ ReadTotal(c) \/ WriteTotal(c)
           \/ \E above \in BOOLEAN : Budget(c, above)
           \/ Streak(c) \/ Look(c) \/ Cool(c) \/ Extend(c) \/ After(c)
           \/ Tally(c) \/ TallyPnl(c)
           \/ \E q \in Positions, o \in Outcomes : Redeploy(c, q, o) \/ Reseed(c, q, o)
           \/ Register(c) \/ Fallback(c)

World == \/ \E p \in Positions : \/ \E close \in Closes : CloseUnseen(p, close.result)
                                 \/ Adopt(p) \/ Drop(p)
                                 \/ \E m \in Entered : Deploy(p, m)
         \/ \E t \in Tokens : Lapse(t)
         \/ \E pool \in Pools : LapsePool(pool)

Next == \/ \E c \in Closers :
             \/ Book(c) \/ Killed(c)
             \/ \E p \in Positions, close \in Closes : CloseLands(c, p, close.kind, close.result)
        \/ World

Spec == Init /\ [][Next]_vars

--------------------------------------------------------------------------------
(* Properties. *)

Steps == {"idle", "forget", "read", "write", "budget", "streak", "look", "cool",
          "extend", "after", "tally", "tallyPnl", "redeploy", "register", "fallback", "reseed"}

Tasks == [step : Steps, pos : Positions \cup {None}, mode : Modes \cup {None},
          kind : Kinds \cup {None}, result : Results \cup {None}, total : Int, losses : Nat,
          again : BOOLEAN, met : BOOLEAN]

\* Whoever books a close knows it; only an override may lack its result, and only the loop
\* closes out of range, the one reason to re-center.
Sound(c, k) ==
  /\ k.step # "idle" => k.pos # None /\ k.mode # None
  /\ k.step # "idle" /\ k.result = None => c \in Agents /\ k.step \in {"forget", "cool", "after"}
  /\ k.kind = "oor" => c = Loop
  /\ k.again => k.kind = "oor"

\* Types.
TypeOK ==
  /\ open \subseteq Positions /\ mode \in [Positions -> Modes \cup {None}]
  /\ day \in Int
  /\ cool \in [Tokens -> {0, 15, 60, 120, 1440, 4320}]
  /\ coolMint \in [Tokens -> {0, 15, 60, 120, 1440, 4320}]
  /\ coolPool \in [Pools -> {0, 240}]
  /\ streak \in [Tokens -> Nat] /\ recenters \in [Pools -> Nat] /\ poolPnl \in [Pools -> Int]
  /\ blocked \subseteq Tokens
  /\ task \in [Closers -> Tasks]
  /\ bounds \in [closes : 0 .. MaxCloses, kills : 0 .. MaxKills]
  /\ closed \in Int /\ slack \in Nat /\ recent \in [Pools -> Nat]
  /\ \A c \in Closers : Sound(c, task[c])

\* What the closers that still owe a result will add to the total.
Owing(results) == {c \in Closers : Owes(c) /\ task[c].result \in results}
Owed == Cardinality(Owing({"win"})) - Cardinality(Owing({"loss"}))
          - 2 * Cardinality(Owing({"rug", "deep"}))

\* The day's total is the PnL of all the closes on chain but for those still being booked.
\* It may be off by three kinds of close only, and by no more than these have earned or
\* lost: one whose success nobody saw, one whose closer was killed between the executor's
\* answer and the write, and one written while another closer had read the total and not
\* yet written it (monitor 1497-1529, 767-789).
TotalAddsUp == LET off == closed - Owed - day IN off <= slack /\ -off <= slack

\* c ends its booking by itself.
Finishes(c) == ~At(c, "idle") /\ task'[c].step = "idle" /\ bounds' = bounds

\* Its token is cooled down, or the pool is tracked again.
Gated(c) == cool'[TokenOf(c)] # 0 \/ (At(c, "register") /\ mode'[task[c].pos] # None)

\* However a booking ends - a re-center that fails or lands unseen, a re-seed without
\* tokens, an override without a live PnL - the token cannot be entered again at once; the
\* exception is the breaker that had tripped before the re-center was refused
\* (monitor 1595-1629, 1768-1770, 774).
ExitIsGated == [][\A c \in Closers : Finishes(c) => Gated(c) \/ (Tripped(c) /\ ~task[c].again)]_vars

\* A second loss in a row keeps its token out for a day at least, whoever books it, when no
\* other close of the token is booked beside it (monitor 1613-1627, 792-803).
RepeatLossIsOut ==
  [][\A c \in Closers :
       Finishes(c) /\ ~task[c].met /\ task[c].losses >= 2 => cool'[TokenOf(c)] >= 1440]_vars

Redeploys(c) == At(c, "redeploy") /\ task'[c].step \notin {"redeploy", "idle"}

\* While its count lives, a pool is deployed again no more often than the cap of the mode,
\* and in turnover mode never with more lost than the breaker's floor and one close more,
\* though the count is read long before it is written and re-centers fail or die
\* (monitor 1556-1593, 1728-1740).
RecenterBudget ==
  [][\A c \in Closers : Redeploys(c) =>
       /\ recent'[PoolOf(c)] <= CountCap[task[c].mode]
       /\ task[c].mode = "turnover" => poolPnl[PoolOf(c)] >= -CbLoss]_vars

\* Closers, re-centers and reconciliation beside each other keep to the life of a position:
\* the keys a booking drops after its close are never those of an account that is open
\* again, and a re-center that lands unseen loses none (monitor 1504-1512, 1728-1770).
Life == INSTANCE PositionLife WITH known <- {p \in Positions : mode[p] # None}
KeepsLife == Life!Spec
================================================================================
