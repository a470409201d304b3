----------------------------- MODULE DeployPipeline -----------------------------
(***************************************************************************)
(* One signal turned into one position (dlmm_pipeline.py main): prune the  *)
(* keys of gone positions, count the mode's slots, size the deploy from    *)
(* the wallet, gather candidates, drop what is held, cooled down or        *)
(* blocked, pick, plan the range, pass the gates, buy the token when the   *)
(* strategy wants it, deploy, register, count deploys per pool.            *)
(*                                                                         *)
(* Every step reads or writes something that others change meanwhile, and  *)
(* a run may be killed at any of them; the executor call it was in may     *)
(* land later.  SOL is in hundredths, prices stand still, fees and rent    *)
(* are left out; a market filter keeps any subset of the candidates.       *)
(* Dry runs and the log are not modelled.  The monitor's redeploys spend   *)
(* from the same wallet and enter the same pools: they are here step by    *)
(* step, one at a time.  What else monitor and owner do is here in one     *)
(* step each: those races are PositionTracking, CloseBooking.              *)
(***************************************************************************)
EXTENDS Integers, FiniteSets

CONSTANTS
  Runs,         \* processes that may run at the same time
  Pools,
  Token,        \* the base token of a pool
  SolIsX,       \* the pools where SOL is token X
  Addrs,        \* position addresses; a closed one stands for a fresh one later
  Calls,        \* how the script is called: [mode, source, strategy]
  SoulStrategy, \* STRATEGY in SOUL.md
  MaxPositions, \* per mode
  ChurnLimit,   \* deploys into a pool that cool it down: 3
  StartSol,     \* the wallet at first
  MaxStarts,    \* a bound: how many runs
  Shares,       \* the halves of a closed position's worth that may come back in SOL
  MaxUpsets,    \* a bound: how many failed reads, lost calls, kills of a run, redeploys and
                \* runs beside another
  None

Modes   == {"casual", "multiday", "turnover"}
Sources == {"batch", "signal", "named", "discovery", "analyze"}
\* "spot" is every name that no branch of main matches.
Strategies == {"sol_bidask", "spot", "custom_ratio_spot", "balanced_tight",
               "single_sided_reseed", "stage_aware"}
Tokens  == {Token[p] : p \in Pools}

\* What the metadata says of mode and mint.  An adopted position has neither, an orphan and
\* what was re-seeded or harvested ("modeless") have no mode; an adopted position that was
\* re-centered ("promoted") has mode multiday and no mint.
Metas == Modes \cup {"adopted", "orphan", "modeless", "promoted"}

\* The monitor's ways to redeploy what it closed.
Kinds == {"recenter", "reseed", "compound", "harvest"}

ASSUME DeployAssumption ==
  /\ Token \in [Pools -> Tokens] /\ SolIsX \subseteq Pools
  /\ IsFiniteSet(Addrs)
  /\ Calls \subseteq [mode : Modes, source : Sources, strategy : Strategies \cup {None}]
  /\ SoulStrategy \in Strategies
  /\ MaxPositions \in [Modes -> Nat] /\ ChurnLimit \in Nat \ {0}
  /\ StartSol \in Nat /\ StartSol >= 20
  /\ Shares \subseteq 0 .. 2 /\ MaxStarts \in Nat /\ MaxUpsets \in Nat
  /\ None \notin Pools \cup Addrs \cup Metas \cup Strategies \cup Sources \cup Kinds

VARIABLES
  sol,        \* the wallet's SOL
  bag,        \* SOL's worth of each token in the wallet
  account,    \* the pool of a position account on chain, None when there is none
  value,      \* SOL's worth in it
  late,       \* per run: an executor call that outlived its run, None when there is none
  tracked,    \* Redis: active_positions
  meta,       \* Redis: position:<address>, None when there is none
  size,       \* Redis: its size_sol
  barred,     \* Redis: tokens with a cooldown (symbol or mint) or on a blocklist
  deploys,    \* Redis: deploys:<pool>
  coolPool,   \* Redis: cooldown:pool:<pool>
  task,       \* per run: where it is and what it knows (barred, for checking only:
              \* the tokens barred ever since it began)
  move,       \* the monitor's redeploy: where it is and what it knows
  bounds,     \* starts and upsets so far
  spoiled,    \* checking only: what happened that takes a promise away
  entries     \* checking only: deploys into a pool since one of its keys expired

chain == <<sol, bag, account, value, late>>
keys  == <<tracked, meta, size>>
redis == <<keys, barred, deploys, coolPool>>
past  == <<bounds, spoiled, entries>>
vars  == <<chain, redis, task, move, past>>

Idle == [step |-> "idle", mode |-> None, source |-> None, strategy |-> None, cands |-> {},
         pool |-> None, amount |-> 0, swaps |-> 0, base |-> 0, addr |-> None,
         barred |-> {}]

\* old: the position it closed, until its keys are dropped; got: the SOL that has come back
\* and is not spent yet; size: what it will put in and register.
Rest == [step |-> "idle", kind |-> None, old |-> None, pool |-> None, label |-> None,
         size |-> 0, base |-> 0, got |-> 0, addr |-> None]

Init ==
  /\ sol = StartSol /\ bag = [t \in Tokens |-> 0]
  /\ account = [a \in Addrs |-> None] /\ value = [a \in Addrs |-> 0]
  /\ late = [r \in Runs |-> None]
  /\ tracked = {} /\ meta = [a \in Addrs |-> None] /\ size = [a \in Addrs |-> 0]
  /\ barred = {} /\ deploys = [p \in Pools |-> 0] /\ coolPool = {}
  /\ task = [r \in Runs |-> Idle] /\ move = Rest
  /\ bounds = [starts |-> 0, upsets |-> 0] /\ spoiled = {}
  /\ entries = [p \in Pools |-> 0]

At(r, step)   == task[r].step = step
Goto(r, step) == task' = [task EXCEPT ![r].step = step]
Quit(r)       == task' = [task EXCEPT ![r] = Idle]
TokenOf(r)    == Token[task[r].pool]
Busy(r)       == ~At(r, "idle")
OnChain       == {a \in Addrs : account[a] # None}

\* A failed read, a lost answer, a kill; a redeploy and a run beside another
\* count as one each.
Fault(kinds) ==
  /\ bounds.upsets < MaxUpsets
  /\ bounds' = [bounds EXCEPT !.upsets = @ + 1]
  /\ spoiled' = spoiled \cup kinds
NoFault == UNCHANGED <<bounds, spoiled>>

--------------------------------------------------------------------------------
(* What a run reads before it looks at candidates. *)

\* Two runs at once: "overlap"; of the same mode: "twins".
Company(r, mode) ==
  {k \in {"overlap", "twins"} : \E s \in Runs \ {r} :
     Busy(s) /\ (k = "overlap" \/ task[s].mode = mode)}

Start(r, call) ==
  /\ At(r, "idle") /\ late[r] = None /\ bounds.starts < MaxStarts
  /\ task' = [task EXCEPT ![r] = [Idle EXCEPT !.step = "reconcile", !.mode = call.mode,
                !.source = call.source, !.strategy = call.strategy, !.barred = barred]]
  /\ LET beside == Company(r, call.mode)
         upsets == bounds.upsets + IF beside = {} THEN 0 ELSE 1 IN
       /\ upsets <= MaxUpsets
       /\ bounds' = [starts |-> bounds.starts + 1, upsets |-> upsets]
       /\ spoiled' = spoiled \cup beside
  /\ UNCHANGED <<chain, redis, move, entries>>

\* The Portfolio API answers what is on chain, or less; gaps is what it cannot know.
Reads(view, gaps) ==
  IF view = OnChain THEN spoiled' = spoiled \cup gaps /\ UNCHANGED bounds
  ELSE view \subseteq OnChain /\ Fault(gaps \cup {"blind"})

\* reconcile_redis_vs_meteora: the keys of absent positions go, unless they are young.
Reconcile(r, view, young) ==
  /\ At(r, "reconcile")
  /\ Reads(view, {})
  /\ LET gone == Addrs \ (view \cup young) IN
       /\ move.addr \notin gone /\ \A s \in Runs : task[s].addr \notin gone
       /\ tracked' = tracked \ gone
       /\ meta' = [a \in Addrs |-> IF a \in gone THEN None ELSE meta[a]]
       /\ size' = [a \in Addrs |-> IF a \in gone THEN 0 ELSE size[a]]
  /\ Goto(r, "slots")
  /\ UNCHANGED <<chain, barred, deploys, coolPool, move, entries>>

\* get_active_positions_count_for_mode: whatever has no mode counts as multiday.
CountsFor(mode, a) == meta[a] = mode \/ (mode = "multiday" /\ meta[a] \notin Modes)
Taken(mode) == {a \in tracked : CountsFor(mode, a)}

\* mutant: the last slot is given twice.
FullLate(mode) == Cardinality(Taken(mode)) > MaxPositions[mode]
Full(mode) == Cardinality(Taken(mode)) >= MaxPositions[mode]

\* A redeploy whose position is not tracked now and will be again.
Returning(mode) ==
  /\ move.step \in {"drop", "sell", "deploy", "set", "add"}
  /\ move.label = mode /\ move.old \notin tracked
\* The slot it will take again is the last one.
GapAt(mode) == {k \in {"slot_gap"} : /\ Returning(mode)
                                     /\ Cardinality(Taken(mode)) + 1 >= MaxPositions[mode]}

Slots(r) ==
  /\ At(r, "slots")
  /\ IF Full(task[r].mode) /\ task[r].source # "analyze"
     THEN Quit(r) /\ UNCHANGED spoiled
     ELSE Goto(r, "balance") /\ spoiled' = spoiled \cup GapAt(task[r].mode)
  /\ UNCHANGED <<chain, redis, move, bounds, entries>>

\* Redis does not answer: no position is seen, every slot is free.
SlotsBlind(r) ==
  /\ At(r, "slots") /\ Fault({"blind"}) /\ Goto(r, "balance")
  /\ UNCHANGED <<chain, redis, move, entries>>

\* round(n / 100, 2), either way at a tie
Rounded(n) == {(n + 49) \div 100, (n + 50) \div 100}

Deployable(w) == IF w > 20 THEN w - 20 ELSE 0
Larger(a, b)  == IF a > b THEN a ELSE b

\* mutant: 45% of the whole wallet.
SizesWhole(w) ==
  IF 45 * w < 3000 THEN {Larger(10, n) : n \in Rounded(45 * w)}
  ELSE IF 45 * w > 50000 THEN {500} ELSE Rounded(45 * w)
\* compute_deploy_amount: 45% of what the wallet holds above 0.2 SOL, from 0.1 to 5 SOL; a
\* double may hold 0.1 or less where 10 stands.
Sizes(w) ==
  LET share == 45 * Deployable(w) IN
    IF share < 3000
    THEN (IF Deployable(w) >= 10 THEN {Larger(10, n) : n \in Rounded(share)} ELSE {}) \cup
         (IF Deployable(w) <= 10 THEN {0} ELSE {})
    ELSE IF share > 50000 THEN {500} ELSE Rounded(share)

\* Turnover deploys half.
ForMode(mode, a) == IF mode = "turnover" THEN {a \div 2, (a + 1) \div 2} ELSE {a}

Affords(w, a) == a >= 10 /\ w >= a + 5

\* spl-balance SOL answers w.
Sizing(r, w) ==
  \E a \in Sizes(w) : \E b \in ForMode(task[r].mode, a) :
    IF w < 25 \/ (task[r].source # "analyze" /\ ~Affords(w, b)) THEN Quit(r)
    ELSE task' = [task EXCEPT ![r].amount = b, ![r].step = "gather"]

\* What a redeploy is about to spend is in the wallet.
Freed == {k \in {"freed"} : move.got > 0}

Balance(r) ==
  /\ At(r, "balance") /\ Sizing(r, sol)
  /\ spoiled' = spoiled \cup Freed
  /\ UNCHANGED <<chain, redis, move, bounds, entries>>

\* Both ways to read the wallet fail: 10.0 "for local testing".
BalanceBlind(r) ==
  /\ At(r, "balance") /\ Fault({"blind"}) /\ Sizing(r, 1000)
  /\ UNCHANGED <<chain, redis, move, entries>>

--------------------------------------------------------------------------------
(* Candidates.  What only the market decides takes no step of its own. *)

\* The mint of an adopted position is not known.
KnownToken(a) == meta[a] \in Modes \cup {"orphan", "modeless"}

\* mutant: pools are compared, tokens are not.
HeldPoolOnly(p, view) == \E a \in view : account[a] = p
\* Already in this pool, or exposed to this token.
Held(p, view) ==
  \E a \in view : account[a] = p \/ (KnownToken(a) /\ Token[account[a]] = Token[p])

\* One record is looked at as it is, a batch is cut by conviction, a discovery by the screen.
FromSignal == {{p} : p \in Pools}
FromBatch  == SUBSET Pools
Discovered == SUBSET Pools
Found(source) == CASE source = "signal" -> FromSignal
                   [] source = "batch" -> FromBatch
                   [] OTHER -> Discovered

\* A redeploy has closed its position and not yet said what it will hold: the token seems
\* free.
Unnamed == move.step \in {"drop", "sell", "deploy", "set"}
TokenGap(left) ==
  {k \in {"token_gap"} : Unnamed /\ \E p \in left : Token[p] = Token[move.pool]}

\* get_open_positions answers view.
Gather(r, found, view) ==
  /\ At(r, "gather")
  /\ found \in Found(task[r].source)
  /\ LET left == {p \in found : ~Held(p, view)} IN
       /\ Reads(view, TokenGap(left))
       /\ IF left = {} THEN Quit(r)
          ELSE task' = [task EXCEPT ![r].cands = left, ![r].step = "filter"]
  /\ UNCHANGED <<chain, redis, move, entries>>

\* mutant: the cooldowns and blocklists of tokens are not read.
RefusesPools(p) == p \in coolPool
\* A cooldown of the symbol or the mint, a blocked mint or deployer, a cooldown of the pool.
Refuses(p) == Token[p] \in barred \/ p \in coolPool

\* select_batch_strategy
BatchStrategy(mode) == IF mode = "turnover" THEN "balanced_tight" ELSE "sol_bidask"
Resolved(k) == IF k.strategy # None THEN k.strategy
               ELSE IF k.source = "batch" THEN BatchStrategy(k.mode) ELSE SoulStrategy

\* mutant: balanced_tight buys its token side before the gates.
BuysAll == {"single_sided_reseed", "balanced_tight"}
BuysFirst == {"single_sided_reseed"}
BuysLast  == {"balanced_tight"} \ BuysFirst

\* p is the best candidate that no pool memory, contested ticker, momentum, rent or
\* indicator drops, or the named one.
Pick(r, p) ==
  /\ At(r, "filter") /\ task[r].source # "analyze" /\ p \in task[r].cands
  /\ Refuses(p) => Fault({"blind"})  \* Redis did not answer
  /\ ~Refuses(p) => NoFault
  /\ task' = [task EXCEPT ![r].pool = p, ![r].cands = {}, ![r].strategy = Resolved(task[r]),
                ![r].step = IF Resolved(task[r]) \in BuysFirst THEN "swap" ELSE "gates"]
  /\ UNCHANGED <<chain, redis, move, entries>>

\* None is left; an analysis lists what is left and ends in any case.
PickNone(r) ==
  /\ At(r, "filter") /\ Quit(r)
  /\ UNCHANGED <<chain, redis, move, past>>

--------------------------------------------------------------------------------
(* Gates, swap, deploy. *)

Half(k) == k.amount \div 2

\* SOL that the swap takes, and that the deploy takes.
SwapSol(k) == IF k.strategy = "balanced_tight" THEN Half(k) ELSE k.amount
PutSol(k)  == CASE k.strategy = "single_sided_reseed" -> 0
                [] k.strategy = "balanced_tight" -> k.amount - Half(k)
                [] OTHER -> k.amount

\* Where the plan has bins: above the price token X is sold, below it token Y.  Stage three
\* of stage_aware needs 10 SOL, which no deploy has.
Ladder(p, sold) == [above |-> (p \in SolIsX) = sold, below |-> (p \in SolIsX) # sold]
\* mutant: the ladder of SOL is always below.
PlanBelow(k) ==
  CASE k.strategy = "sol_bidask" -> [above |-> FALSE, below |-> TRUE]
    [] k.strategy = "single_sided_reseed" -> Ladder(k.pool, FALSE)
    [] k.strategy = "spot" -> [above |-> FALSE, below |-> TRUE]
    [] OTHER -> [above |-> TRUE, below |-> TRUE]
Plan(k) ==
  CASE k.strategy = "sol_bidask" -> Ladder(k.pool, TRUE)
    [] k.strategy = "single_sided_reseed" -> Ladder(k.pool, FALSE)
    [] k.strategy = "spot" -> [above |-> FALSE, below |-> TRUE]
    [] OTHER -> [above |-> TRUE, below |-> TRUE]

\* The momentum, freshness or depth gate, or a missing mint, ends the run; no runner-up.
GatesRefuse(r) ==
  /\ At(r, "gates") /\ Quit(r)
  /\ UNCHANGED <<chain, redis, move, past>>
GatesPass(r) ==
  /\ At(r, "gates")
  /\ Goto(r, IF task[r].strategy \in BuysLast THEN "swap" ELSE "deploy")
  /\ UNCHANGED <<chain, redis, move, past>>

Swapped(r) ==
  /\ sol >= SwapSol(task[r])
  /\ sol' = sol - SwapSol(task[r])
  /\ bag' = [bag EXCEPT ![TokenOf(r)] = @ + SwapSol(task[r])]
  /\ UNCHANGED <<account, value, late>>

\* This run has bought before.
Again(r) == {k \in {"twice"} : task[r].swaps > 0}

SwapOk(r) ==
  /\ At(r, "swap") /\ Swapped(r)
  /\ task' = [task EXCEPT ![r].swaps = @ + 1, ![r].step = "bought"]
  /\ spoiled' = spoiled \cup Again(r)
  /\ UNCHANGED <<redis, move, bounds, entries>>

\* The swap lands, its answer does not come: run_swap_with_retry tries again, twice at most.
SwapUnseen(r) ==
  /\ At(r, "swap") /\ Swapped(r)
  /\ Fault(Again(r))
  /\ \/ task' = [task EXCEPT ![r].swaps = @ + 1] /\ task[r].swaps < 2
     \/ Quit(r)
  /\ UNCHANGED <<redis, move, entries>>

\* An error that is not transient, or the last transient one.
SwapFails(r) ==
  /\ At(r, "swap") /\ Quit(r)
  /\ UNCHANGED <<chain, redis, move, past>>

\* spl-balance: all the wallet has of the token is put in.
Bought(r) ==
  /\ At(r, "bought")
  /\ IF bag[TokenOf(r)] = 0 THEN Quit(r)
     ELSE task' = [task EXCEPT ![r].base = bag[TokenOf(r)],
                     ![r].step = IF task[r].strategy \in BuysFirst THEN "gates" ELSE "deploy"]
  /\ UNCHANGED <<chain, redis, move, past>>
BoughtBlind(r) ==
  /\ At(r, "bought") /\ Quit(r)
  /\ UNCHANGED <<chain, redis, move, past>>

\* A deploy as the executor knows it, and its landing in a fresh account.
Call(r) == [pool |-> task[r].pool, sol |-> PutSol(task[r]), base |-> task[r].base]
Lands(call, a) ==
  /\ account[a] = None /\ meta[a] = None /\ a \notin tracked
  /\ a \notin {move.old, move.addr} /\ \A r \in Runs : task[r].addr # a
  /\ sol >= call.sol /\ bag[Token[call.pool]] >= call.base
  /\ sol' = sol - call.sol
  /\ bag' = [bag EXCEPT ![Token[call.pool]] = @ - call.base]
  /\ account' = [account EXCEPT ![a] = call.pool]
  /\ value' = [value EXCEPT ![a] = call.sol + call.base]
Counted(pool) == entries' = [entries EXCEPT ![pool] = @ + 1]

\* mutant: the answer's address is not kept.
DeployOkUnnamed(r, a) ==
  /\ At(r, "deploy") /\ Lands(Call(r), a) /\ Counted(task[r].pool)
  /\ Goto(r, "set")
  /\ UNCHANGED <<late, redis, move, bounds, spoiled>>
DeployOk(r, a) ==
  /\ At(r, "deploy") /\ Lands(Call(r), a) /\ Counted(task[r].pool)
  /\ task' = [task EXCEPT ![r].addr = a, ![r].step = "set"]
  /\ UNCHANGED <<late, redis, move, bounds, spoiled>>

DeployFails(r) ==
  /\ At(r, "deploy") /\ Quit(r)
  /\ UNCHANGED <<chain, redis, move, past>>

\* The account is there, its liquidity is not: registered for the monitor.
DeployOrphan(r, a) ==
  /\ At(r, "deploy")
  /\ Lands([pool |-> task[r].pool, sol |-> 0, base |-> 0], a)
  /\ tracked' = tracked \cup {a} /\ meta' = [meta EXCEPT ![a] = "orphan"]
  /\ size' = [size EXCEPT ![a] = 0]
  /\ Quit(r)
  /\ UNCHANGED <<late, barred, deploys, coolPool, move, past>>

\* run_command gives up after two minutes, the executor does not.
DeployUnseen(r) ==
  /\ At(r, "deploy") /\ Fault({"cut"})
  /\ late' = [late EXCEPT ![r] = Call(r)] /\ Quit(r)
  /\ UNCHANGED <<sol, bag, account, value, redis, move, entries>>

LateLands(r, a) ==
  /\ late[r] # None /\ Lands(late[r], a) /\ Counted(late[r].pool)
  /\ late' = [late EXCEPT ![r] = None]
  /\ UNCHANGED <<redis, task, move, bounds, spoiled>>
LateDies(r) ==
  /\ late[r] # None /\ late' = [late EXCEPT ![r] = None]
  /\ UNCHANGED <<sol, bag, account, value, redis, task, move, past>>

--------------------------------------------------------------------------------
(* Registering. *)

SetMeta(r) ==
  /\ At(r, "set")
  /\ meta' = [meta EXCEPT ![task[r].addr] = task[r].mode]
  /\ size' = [size EXCEPT ![task[r].addr] = task[r].amount]
  /\ Goto(r, "add")
  /\ UNCHANGED <<chain, tracked, barred, deploys, coolPool, move, past>>

AddTracked(r) ==
  /\ At(r, "add")
  /\ tracked' = tracked \cup {task[r].addr} /\ Goto(r, "count")
  /\ UNCHANGED <<chain, meta, size, barred, deploys, coolPool, move, past>>

\* mutant: one deploy more before the guard.
CountLate(r) ==
  /\ At(r, "count")
  /\ deploys' = [deploys EXCEPT ![task[r].pool] = @ + 1]
  /\ IF deploys[task[r].pool] + 1 > ChurnLimit THEN Goto(r, "guard") ELSE Quit(r)
  /\ UNCHANGED <<chain, keys, barred, coolPool, move, past>>
\* INCR, EXPIRE
Count(r) ==
  /\ At(r, "count")
  /\ deploys' = [deploys EXCEPT ![task[r].pool] = @ + 1]
  /\ IF deploys[task[r].pool] + 1 >= ChurnLimit THEN Goto(r, "guard") ELSE Quit(r)
  /\ UNCHANGED <<chain, keys, barred, coolPool, move, past>>

\* The repeat-deploy churn guard.
Guard(r) ==
  /\ At(r, "guard")
  /\ coolPool' = coolPool \cup {task[r].pool} /\ Quit(r)
  /\ UNCHANGED <<chain, keys, barred, deploys, move, past>>

\* The daemon's or the agent's timeout; a deploy under way goes on without its run.
Killed(r) ==
  /\ Busy(r) /\ ~At(r, "deploy")
  /\ Fault({"cut"}) /\ Quit(r)
  /\ UNCHANGED <<chain, redis, move, entries>>

--------------------------------------------------------------------------------
(* The rest of the system. *)

Close(a) ==
  /\ account[a] # None
  /\ account' = [account EXCEPT ![a] = None]
  /\ sol' = sol + value[a] /\ value' = [value EXCEPT ![a] = 0]
  /\ UNCHANGED <<bag, late, redis, task, move, past>>

\* The monitor drops a closed position's keys.
Forget(a) ==
  /\ account[a] = None /\ (a \in tracked \/ meta[a] # None)
  /\ move.addr # a /\ \A r \in Runs : task[r].addr # a
  /\ tracked' = tracked \ {a} /\ meta' = [meta EXCEPT ![a] = None]
  /\ size' = [size EXCEPT ![a] = 0]
  /\ UNCHANGED <<chain, barred, deploys, coolPool, task, move, past>>

\* It adopts a funded account that Redis does not know, also one a run is about to register;
\* the loop alone does, which is not in a redeploy then.
Adopt(a) ==
  /\ account[a] # None /\ a \notin tracked /\ value[a] > 0 /\ move.step \in {"idle", "late"}
  /\ tracked' = tracked \cup {a} /\ meta' = [meta EXCEPT ![a] = "adopted"]
  /\ size' = [size EXCEPT ![a] = value[a]]
  /\ spoiled' = spoiled \cup {k \in {"adopted"} : \E r \in Runs : task[r].addr = a}
  /\ UNCHANGED <<chain, barred, deploys, coolPool, task, move, bounds, entries>>

\* It sells what is left of a token.
Sweep(t) ==
  /\ bag[t] > 0 /\ sol' = sol + bag[t] /\ bag' = [bag EXCEPT ![t] = 0]
  /\ UNCHANGED <<account, value, late, redis, task, move, past>>

\* It cools a token down or blocks it.
Bar(t) ==
  /\ t \notin barred /\ barred' = barred \cup {t}
  /\ UNCHANGED <<chain, keys, deploys, coolPool, task, move, past>>

Lapse(t) ==
  /\ t \in barred /\ barred' = barred \ {t}
  /\ task' = [r \in Runs |-> [task[r] EXCEPT !.barred = @ \ {t}]]
  /\ UNCHANGED <<chain, keys, deploys, coolPool, move, past>>

\* The pool's cooldown lasts 12 hours, its count 24: the cooldown goes first.
LapsePool(p) ==
  /\ IF p \in coolPool THEN coolPool' = coolPool \ {p} /\ UNCHANGED deploys
     ELSE deploys[p] > 0 /\ deploys' = [deploys EXCEPT ![p] = 0] /\ UNCHANGED coolPool
  /\ entries' = [entries EXCEPT ![p] = 0]
  /\ UNCHANGED <<chain, keys, barred, task, move, bounds, spoiled>>

--------------------------------------------------------------------------------
(* The monitor's redeploys: a re-center closes, drops the keys, sells the token side and   *)
(* deploys the same size again; a re-seed closes, drops the keys and deploys the tokens;   *)
(* fee compounding and partial harvests close, deploy, and drop the old keys then.  Which  *)
(* strategy a position has and what the market and the budgets allow is left open.         *)

Moves(step)  == move.step = step
MovesTo(step) == move' = [move EXCEPT !.step = step]
\* Only a mode's name or nothing stands for the mode.
Relabel(a) == IF meta[a] \in Modes THEN meta[a]
              ELSE IF KnownToken(a) THEN "multiday" ELSE "promoted"
InPlace == {"compound", "harvest"}

\* What a close may return in SOL; the rest comes in tokens.
SolSides(v) == {(share * v) \div 2 : share \in Shares}

\* An adopted position has no strategy but spot, an orphan is skipped; what a run is
\* registering has had no time to leave its range.
MoveClose(kind, a) ==
  /\ Moves("idle")
  /\ account[a] # None /\ a \in tracked /\ meta[a] \notin {None, "orphan"}
  /\ kind # "recenter" => KnownToken(a)
  /\ \A r \in Runs : task[r].addr # a
  /\ account' = [account EXCEPT ![a] = None] /\ value' = [value EXCEPT ![a] = 0]
  /\ \E back \in SolSides(value[a]) :
       /\ sol' = sol + back
       /\ bag' = [bag EXCEPT ![Token[account[a]]] = @ + value[a] - back]
       /\ move' = [step |-> IF kind \in InPlace THEN "deploy" ELSE "drop",
                   kind |-> kind, old |-> a, pool |-> account[a],
                   label |-> IF kind \in {"recenter", "compound"} THEN Relabel(a) ELSE "modeless",
                   size |-> IF kind = "harvest" THEN size[a] \div 2 ELSE size[a],
                   base |-> 0, got |-> back, addr |-> None]
  /\ Fault({k \in {"promoted"} : kind \in {"recenter", "compound"} /\ meta[a] \notin Modes})
  /\ UNCHANGED <<late, redis, task, entries>>

\* SREM, DEL.  The booking of a re-seed cools the token down, unless the breaker has tripped;
\* a re-center sets no cooldown.
MoveDrop ==
  /\ Moves("drop")
  /\ tracked' = tracked \ {move.old} /\ meta' = [meta EXCEPT ![move.old] = None]
  /\ size' = [size EXCEPT ![move.old] = 0]
  /\ move' = [move EXCEPT !.old = None, !.step = IF move.addr = None THEN "sell" ELSE "set"]
  /\ barred' \in {barred} \cup (IF move.kind = "reseed" THEN {barred \cup {Token[move.pool]}}
                                ELSE {})
  /\ UNCHANGED <<chain, deploys, coolPool, task, past>>

\* The auto-swap of a re-center sells all of the token.
MoveSell ==
  /\ Moves("sell") /\ move.kind = "recenter" /\ move.label # "promoted"
  /\ LET got == bag[Token[move.pool]] IN
       /\ sol' = sol + got /\ bag' = [bag EXCEPT ![Token[move.pool]] = 0]
       /\ move' = [move EXCEPT !.got = @ + got, !.step = "deploy"]
  /\ UNCHANGED <<account, value, late, redis, task, past>>

\* Too little to sell, too much impact, a failed swap, no mint: the re-center goes on.
MoveKeeps ==
  /\ Moves("sell") /\ move.kind = "recenter" /\ MovesTo("deploy")
  /\ UNCHANGED <<chain, redis, task, past>>

\* spl-balance and active-bin of a re-seed, whose SOL side stays in the wallet.
MoveLooks ==
  /\ Moves("sell") /\ move.kind = "reseed" /\ bag[Token[move.pool]] > 0
  /\ move' = [move EXCEPT !.base = bag[Token[move.pool]], !.got = 0, !.step = "deploy"]
  /\ UNCHANGED <<chain, redis, task, past>>
MoveFindsNone ==
  /\ Moves("sell") /\ move.kind = "reseed" /\ move' = Rest
  /\ UNCHANGED <<chain, redis, task, past>>

MoveSol == IF move.kind = "reseed" THEN 0 ELSE move.size
MoveCall == [pool |-> move.pool, sol |-> MoveSol, base |-> move.base]

\* No reserve is looked at: it may put in more than came back.
MoveDeploys(a) ==
  /\ Moves("deploy") /\ Lands(MoveCall, a)
  /\ move' = [move EXCEPT !.addr = a, !.got = 0,
                          !.step = IF move.kind \in InPlace THEN "drop" ELSE "set"]
  /\ spoiled' = spoiled \cup {k \in {"short"} : MoveSol > move.got}
  /\ UNCHANGED <<late, redis, task, bounds, entries>>

\* A re-center that failed cools the symbol down; the others leave everything as it is.
Cooled == IF move.kind = "recenter" THEN barred \cup {Token[move.pool]} ELSE barred
MoveFails ==
  /\ Moves("deploy") /\ move' = Rest /\ barred' = Cooled
  /\ UNCHANGED <<chain, keys, deploys, coolPool, task, past>>

\* The account of a wide range is there, its liquidity is not; the monitor does not register
\* it.  A re-center and a re-seed are never wide.
MoveStrands(a) ==
  /\ Moves("deploy") /\ move.kind \in InPlace
  /\ Lands([pool |-> move.pool, sol |-> 0, base |-> 0], a)
  /\ move' = Rest /\ spoiled' = spoiled \cup {"stray"}
  /\ UNCHANGED <<late, redis, task, bounds, entries>>

\* run_command gives up after 30 s, or the monitor is killed; the executor goes on.
MoveUnseen ==
  /\ Moves("deploy") /\ spoiled' = spoiled \cup {"cut"} /\ barred' \in {barred, Cooled}
  /\ move' = [move EXCEPT !.step = "late", !.old = None, !.got = 0]
  /\ UNCHANGED <<chain, keys, deploys, coolPool, task, bounds, entries>>
MoveLateLands(a) ==
  /\ Moves("late") /\ Lands(MoveCall, a) /\ move' = Rest
  /\ UNCHANGED <<late, redis, task, past>>
MoveLateDies ==
  /\ Moves("late") /\ move' = Rest
  /\ UNCHANGED <<chain, redis, task, past>>

MoveSets ==
  /\ Moves("set")
  /\ meta' = [meta EXCEPT ![move.addr] = move.label]
  /\ size' = [size EXCEPT ![move.addr] = move.size]
  /\ MovesTo("add")
  /\ UNCHANGED <<chain, tracked, barred, deploys, coolPool, task, past>>
MoveAdds ==
  /\ Moves("add") /\ tracked' = tracked \cup {move.addr} /\ move' = Rest
  /\ UNCHANGED <<chain, meta, size, barred, deploys, coolPool, task, past>>

MoveKilled ==
  /\ move.step \in {"drop", "sell", "set", "add"}
  /\ move' = Rest /\ spoiled' = spoiled \cup {"cut"}
  /\ UNCHANGED <<chain, redis, task, bounds, entries>>

Redeploy == \/ \E a \in Addrs : \/ \E kind \in Kinds : MoveClose(kind, a)
                                \/ MoveDeploys(a) \/ MoveStrands(a) \/ MoveLateLands(a)
            \/ MoveDrop \/ MoveSell \/ MoveKeeps \/ MoveLooks \/ MoveFindsNone
            \/ MoveFails \/ MoveUnseen \/ MoveLateDies \/ MoveSets \/ MoveAdds \/ MoveKilled

--------------------------------------------------------------------------------
Step(r) ==
  \/ \E view \in SUBSET Addrs : \/ \E young \in SUBSET Addrs : Reconcile(r, view, young)
                                \/ \E found \in SUBSET Pools : Gather(r, found, view)
  \/ Slots(r) \/ SlotsBlind(r) \/ Balance(r) \/ BalanceBlind(r)
  \/ PickNone(r) \/ \E p \in Pools : Pick(r, p)
  \/ GatesRefuse(r) \/ GatesPass(r)
  \/ SwapOk(r) \/ SwapUnseen(r) \/ SwapFails(r) \/ Bought(r) \/ BoughtBlind(r)
  \/ \E a \in Addrs : DeployOk(r, a) \/ DeployOrphan(r, a)
  \/ DeployFails(r) \/ DeployUnseen(r)
  \/ SetMeta(r) \/ AddTracked(r) \/ Count(r) \/ Guard(r)

World == \/ \E a \in Addrs : Close(a) \/ Forget(a) \/ Adopt(a)
         \/ \E t \in Tokens : Sweep(t) \/ Bar(t) \/ Lapse(t)
         \/ \E p \in Pools : LapsePool(p)
         \/ \E r \in Runs : LateDies(r) \/ \E a \in Addrs : LateLands(r, a)

Next == \/ \E r \in Runs : \/ Step(r) \/ Killed(r)
                           \/ \E call \in Calls : Start(r, call)
        \/ World \/ Redeploy

Spec == Init /\ [][Next]_vars

--------------------------------------------------------------------------------
(* Properties. *)

Steps == {"idle", "reconcile", "slots", "balance", "gather", "filter", "swap", "bought",
          "gates", "deploy", "set", "add", "count", "guard"}
Spoils == {"overlap", "twins", "blind", "twice", "cut", "adopted",
           "freed", "short", "slot_gap", "promoted", "token_gap", "stray"}
Late == [pool : Pools, sol : Nat, base : Nat]

Tasks == [step : Steps, mode : Modes \cup {None}, source : Sources \cup {None},
          strategy : Strategies \cup {None}, cands : SUBSET Pools, pool : Pools \cup {None},
          amount : Nat, swaps : 0 .. 3, base : Nat, addr : Addrs \cup {None},
          barred : SUBSET Tokens]

\* What a run knows where.
Sound(k) ==
  /\ k.step # "idle" => k.mode # None /\ k.source # None
  /\ k.step \in {"swap", "bought", "gates", "deploy", "set", "add", "count", "guard"}
       => k.pool # None /\ k.strategy # None
  /\ k.addr # None <=> k.step \in {"set", "add", "count", "guard"}

Redeploys == [step : {"idle", "drop", "sell", "deploy", "late", "set", "add"},
              kind : Kinds \cup {None}, old : Addrs \cup {None}, pool : Pools \cup {None},
              label : Metas \cup {None}, size : Nat, base : Nat, got : Nat,
              addr : Addrs \cup {None}]

\* What a redeploy knows where.
MoveSound ==
  /\ move.step = "idle" => move = Rest
  /\ move.step # "idle" => move.kind \in Kinds /\ move.pool \in Pools /\ move.label \in Metas
  /\ move.step = "drop" => move.old # None /\ (move.addr # None <=> move.kind \in InPlace)
  /\ move.step = "deploy" => (move.old # None <=> move.kind \in InPlace)
  /\ move.step \in {"sell", "late", "set", "add"} => move.old = None
  /\ move.step \in {"sell", "deploy", "late"} => move.addr = None
  /\ move.step \in {"set", "add"} => move.addr # None
  /\ move.step = "sell" => move.kind \notin InPlace

\* Types.
TypeOK ==
  /\ sol \in Nat /\ bag \in [Tokens -> Nat]
  /\ account \in [Addrs -> Pools \cup {None}] /\ value \in [Addrs -> Nat]
  /\ late \in [Runs -> Late \cup {None}]
  /\ tracked \subseteq Addrs /\ meta \in [Addrs -> Metas \cup {None}]
  /\ size \in [Addrs -> Nat] /\ move \in Redeploys /\ MoveSound
  /\ barred \subseteq Tokens /\ deploys \in [Pools -> Nat] /\ coolPool \subseteq Pools
  /\ task \in [Runs -> Tasks] /\ \A r \in Runs : Sound(task[r])
  /\ bounds \in [starts : 0 .. MaxStarts, upsets : 0 .. MaxUpsets]
  /\ spoiled \subseteq Spoils /\ entries \in [Pools -> Nat]

Without(kinds) == spoiled \cap kinds = {}

\* The wallet keeps the reserve of 0.2 SOL for fees, whatever order runs, closes, redeploys,
\* sweeps and failing swaps come in.  Only these take from it: runs that overlap, a wallet
\* that could not be read, a swap that landed twice, a deploy that outlived its caller, a run
\* that sized itself with what a redeploy was about to spend, and a redeploy that puts in
\* more than came back (pipeline 199-215, 397-407, 864-880, 614-636; monitor 1358, 1413,
\* 1595-1602, 1738).
ReserveKept ==
  Without({"overlap", "blind", "twice", "cut", "freed", "short"}) => sol >= 20

\* A mode has no more positions than slots, though slots are counted minutes before the
\* position is registered, the two writes that register it are apart, redeploys close and
\* register beside it and runs of other modes, kills and adoptions come in between.  Runs of
\* one mode at once, an unread count, a count in the gap between the keys of a redeploy's
\* two positions and what gets its mode only from a redeploy take the promise away
\* (pipeline 303-324, 848-856, 1568-1614; monitor 1363-1389, 1510-1511, 1577, 1757-1765).
Entered(m) == {a \in tracked : meta[a] = m \/ (m = "multiday" /\ meta[a] = "promoted")}
SlotsKept ==
  Without({"twins", "blind", "slot_gap", "promoted"}) =>
    \A m \in Modes : Cardinality(Entered(m)) <= MaxPositions[m]

\* A token is never held in two positions, though the second pool's token is known from
\* Redis alone, which the monitor rewrites when it adopts and redeploys.  Besides runs that
\* overlap, failed reads, kills and a run's position adopted meanwhile, only two things break
\* it: candidates gathered in the gap of a redeploy of the token, when no position and no
\* cooldown holds it, and the empty account a redeploy leaves (pipeline 217-252, 1073-1090;
\* monitor 911-926, 1358-1400, 1413-1442, 1507-1513, 1595, 1685-1717, 1728-1766).
TokenOnce ==
  Without({"overlap", "blind", "cut", "adopted", "token_gap", "stray"}) =>
    \A a, b \in OnChain : Token[account[a]] = Token[account[b]] => a = b

\* A token cooled down or blocked since before a run began is not deployed by it, whatever
\* else lapses meanwhile (pipeline 1091-1124).
BarredStaysOut ==
  [][\A r \in Runs, a \in Addrs : DeployOk(r, a) /\ Without({"blind"}) =>
       TokenOf(r) \notin task[r].barred]_vars

\* A pool is deployed into ChurnLimit times at most before one of its keys expires, closes
\* and re-signals as it may (pipeline 1125-1131, 1613-1624).
ChurnIsCooled ==
  Without({"overlap", "blind", "cut"}) => \A p \in Pools : entries[p] <= ChurnLimit

\* Aborted by a gate, balanced_tight has bought nothing (pipeline 1422-1424, 1511-1513).
GateLeavesNoBag ==
  [][\A r \in Runs : GatesRefuse(r) /\ task[r].strategy = "balanced_tight" =>
       task[r].swaps = 0]_vars

\* Token X fills the bins above the price, token Y those below.
PutsX(k) == IF k.pool \in SolIsX THEN PutSol(k) > 0 ELSE k.base > 0
PutsY(k) == IF k.pool \in SolIsX THEN k.base > 0 ELSE PutSol(k) > 0
Filled(k) == (PutsX(k) /\ Plan(k).above) \/ (PutsY(k) /\ Plan(k).below)

\* No deploy lands empty, plain spot where SOL is token X excepted, and two-sided plans fill
\* both sides (pipeline 1357-1463, 1513-1531).
LandsOnItsSide ==
  \A r \in Runs : At(r, "deploy") =>
    LET k == task[r] IN
      /\ Filled(k) \/ (k.strategy = "spot" /\ k.pool \in SolIsX)
      /\ k.strategy = "balanced_tight" => PutsX(k) /\ PutsY(k)

\* Until a read fails, runs beside each other, calls that land late and adoptions keep to
\* the life of a position: no deploy meets a key of its address, no prune takes the key of
\* an account (pipeline 349-392, 1568-1614).  Which list of the Portfolio API may be
\* believed is PositionTracking's.
Life == INSTANCE PositionLife WITH
          Positions <- Addrs, open <- OnChain, known <- {a \in Addrs : meta[a] # None}
LivesUnlessBlind == [][Without({"blind"})' => [Life!Next]_Life!life]_vars
================================================================================
