# A TLA+ model of meteora-dlmm-signal

The repository runs a small fund of liquidity positions: a Go daemon finds pools
and signals them, a Python pipeline deploys into one of them, a Python monitor
watches every open position and closes it, and a Node script talks to the chain.
They share nothing but Redis, files and the chain, take no locks, and call each
other as processes that may time out or be killed. This project models that
coordination in TLA+, checks it with TLC on small instances and proves what
matters most with TLAPS. Paths below are relative to the repository; `S/` is
`assets/skill/scripts/`.

## 1. The system

| Component | Source | State it keeps | Operations | Called by |
|---|---|---|---|---|
| Signal daemon | `main.go`, `internal/scanner`, `internal/store`, `internal/webhook`, `internal/deploy` | seen keys with a TTL per mode and pool (Redis or memory) | poll a mode: screen, cooldown, mark seen, gates, batch, deliver, unmark on failure | its own ticker per mode |
| Meteora and Robinhood screens | `internal/meteora`, `internal/robinhood` | none | threshold gates over HTTP answers | daemon |
| Deploy pipeline | `S/dlmm_pipeline.py` | writes `active_positions`, `position:<addr>`, `deploys:<pool>`, pool cooldowns | reconcile, slots, balance, gates, pick, swap, deploy, register | daemon, agent |
| Executor | `S/dlmm_executor.js` | position accounts on the chain | deploy (two phases when wide), claim, close, swap, reads, over several RPCs | pipeline, monitor |
| Position monitor | `S/dlmm_monitor.py`, `S/dlmm_monitor_loop.sh` | `position:<addr>` and its `:oor_since`, `:ai_hold_until`, `:indicator_blocked_since`, `:suspect_pnl_since` | reconcile, exit rules, close, compound, harvest, override-close, override-hold, reset-trailing, cleanup-tokens | loop every 20 s, cron every 30 min with `--report-only`, agent |
| Close booking | `S/dlmm_monitor.py:1515-1770` | daily PnL, cooldowns of symbol, mint and pool, loss streak, rebalance count and PnL, journal, blocklist | book a close, rebalance, reseed, swap back | monitor |
| Robinhood monitor | `S/uni_monitor.py`, `S/uni_executor.js`, `S/uni_v4_executor.js` | one state file (peaks, out-of-range and indicator clocks), stranded journals | decide, close, sweep | loop, cron report |
| Weights and self improvement | `S/dlmm_weights.py`, `assets/skill/solana-web3-scripts/self_improvement.py` | signal weights, SOUL parameters | recompute from the journal | monitor, cron |
| Reports | `S/dlmm_stats.py`, `S/dlmm_reconcile.py`, others | none | read only | cron |

How they interact: daemon -> pipeline (a process with a timeout, or a webhook to
the agent); pipeline and monitor -> executor (a process per call, 30 s for the
monitor); pipeline writes the keys the monitor reads; the monitor writes the
cooldowns the daemon and the pipeline read and deletes the daemon's seen key of a
closed pool (`clear_signal_seen`); the agent gets the cron's report and calls the
monitor with `--override-close` or `--override-hold`. The Portfolio API, which
both monitor and pipeline take for the truth about the chain, lags behind it.

What is hard here:

* **No locks.** A monitor pass reads a position's metadata, asks the network for
  several seconds, and writes the whole metadata object back. Loop, report and
  agent do so beside each other.
* **Calls that may have happened.** Every executor call can fail, succeed, or
  succeed unseen: the caller's timeout, an RPC failover that no longer finds the
  position, a kill.
* **Rules that overwrite each other.** A dozen exit rules set one variable in
  order; graces, the exit indicator, AI holds and `--report-only` then turn the
  result away again.
* **Timers over many ticks.** Fuses, graces, blocks, holds, TTLs and cooldowns,
  several of them one-shot, several refreshed by the code that waits for them.

What makes each component correct: the *monitor* never forgets an open position,
never turns an emergency away, grants each grace once, and closes and books once;
the *reconciliation* converges to the chain and touches nothing a deploy is still
building; the *booking* loses no close and sets a cooldown for each; the *daemon*
delivers each pool at most once per TTL unless delivery failed, and retries it
then; the *pipeline* keeps within slots and balance and leaves no untracked or
stranded position; the *Robinhood* side fails closed and keeps its peaks.

`PROJECT.json` lists the components with what is modelled of each, and the
hazards with the properties that cover them.

## 2. The modules

In the order of their weight for the fund; a module models what the ones before it
leave out, and says at its head what it takes from them.

1. **PositionMonitor**: the exit rules and the close of one position, with all the
   processes that touch it. `PositionMonitorHistory` adds the past of their ticks.
2. **PositionTracking**: several accounts, the lagging Portfolio API and Redis;
   adoption, zombie closes, orphans, removal after the grace, ghost keys, and the
   executor's deploy and the pipeline's registration beside them.
3. **CloseBooking**: what follows a close: daily PnL of several closers, loss streak,
   cooldowns of symbol, mint and pool, re-centers with their budget and breaker.
4. **DeployPipeline**: what PositionTracking leaves out of the pipeline: two runs
   against slots, wallet, duplicates, bars, gates, swaps, sizes and the churn guard, and
   beside them the monitor's own redeploys (re-center, re-seed, compound, harvest), which
   use the same wallet, slots and tokens.
5. **SignalDaemon**: the poll of every mode, marks with windows, delivery, shutdown
   and crash. **SignalPromise** is its abstract specification: a key is free, held
   or silent, and silent for a reason; the daemon is shown to implement it.
6. **PositionLife** is the abstract specification the four modules on positions share:
   accounts, keys, and when a key may appear and go (below).
7. **RobinhoodMonitor**: the tick, the state file, the rules, the indicator's
   postponement, closes that stop half-way, the sweep of stranded bags.

### PositionLife

Two sets, the accounts on chain (`open`) and the addresses with a key
`sol:dlmm:position:<addr>` (`known`), and four steps: `Deploy` at an address nobody
holds a key of, with or without its key; `Register`, at any time, also after the
close; `Close`, with or without its key; `Forget`, of addresses whose account is not
there. The chain and Redis are written by different processes, so the two sets need
not agree; what every component owes is that a key is not dropped from under an
account, nor inherited by the next one at its address.

| Module | `open` | `known` | Promise |
|---|---|---|---|
| PositionTracking | addresses whose account exists, empty or funded | addresses with metadata | `KeepsLife` |
| PositionMonitor | its one position while `chain = "open"` | it, while `meta # None` | `KeepsLife` |
| CloseBooking | `open` | positions with a mode, which is their metadata there | `KeepsLife` |
| DeployPipeline | accounts on chain | addresses with metadata | `LivesUnlessBlind`: each step until a read of Redis or of the Portfolio API failed (`blind`), since its `Adopt` and prune then act on what they did not read |

TLC checks the first on the run `tracking`, whose lagging API and late passes are what
could break it; all four are proved (section 10).

`MC*` modules give the constants of the runs, `*Proofs` modules hold the proofs. The
pure algorithms (the ratchets of both monitors, the trigger, escalating cooldowns,
re-center caps, the sizes and range sides of a deploy) are operators of these modules
and are exercised by their actions; bounds on them, such as that a size leaves the
reserve, are lemmas of the proofs. No module uses RECURSIVE: sums over closes and
deploys are kept as counters. What is left out is in section 11.

## 3. PositionMonitor

### State

| Variable | Code |
|---|---|
| `clock` | minutes since the deploy; every rule that looks at the age or a timer reads it |
| `pos` | the part of the metadata that never changes: mode, strategy, `sol_is_x`, `has_harvested` |
| `chain` | the account, `open` or `gone` |
| `tracked`, `meta` | membership in `sol:dlmm:active_positions`; the part of `sol:dlmm:position:<addr>` that changes: `peak_pnl`, `trailing_active`, `trailing_grace_used`, `oor_grace_used`, `fee_snap_sol`/`fee_snap_at` |
| `oor_since`, `ai_hold_until`, `indicator_blocked_since`, `suspect_pnl_since` | the keys of these names |
| `pc`, `obs`, `local`, `why` | per process: where it is, the reading and the metadata it holds in memory, the reason it is closing for |
| `booked` | how often the close entered the daily PnL |

PnL counts in tenths of a percent, fee/TVL in percent, time in minutes. Candles
and pool depths are the classes the rules tell apart (`rug`, `fast`, `flat`,
`green`; `thin`, `ok`; `unknown` where the feed gave nothing).

### Actions

`Read(p, r)` is the first half of a pass: metadata and market. `Decide(p, ind)` is
the second: trailing, stop-loss, pumped, rug, out-of-range, low yield, thin
liquidity, downtrend, fast-out and fee-pace rules, the write-back, indicator,
report and hold, and where control goes next. Between them any other process may
do anything, which is how the code's lost updates arise. `SkipSuspectRead` is the
early `continue` of the suspect guard, `CleanUpAbsent` the removal after the
grace. `CloseOk`, `CloseLost` and `CloseFail` are the outcomes of the executor's
close; `RotateOk` and `RotateFail` those of compounding and harvesting.
`OverrideHold`, `ResetTrailing` and `OverrideClose` are the agent's calls with
their guards; `Pass` lets a minute pass. The rules are operators named after what
they decide, in the script's order; `Overwriting` and `SoftReason` keep the
difference between rules that overwrite `close_reason` and rules that only fill it.

Abstractions, none of which hides an order the properties depend on:

* `Decide` is one step. The code writes the metadata up to five times in it with
  network reads between; each write holds the same object, and the last holds
  all of it. A process killed in it leaves what a pass that had not begun leaves,
  except that one-shot flags may already be set.
* A pass takes the time once, before it looks at its first position
  (`dlmm_monitor.py:885`); `Decide` uses the clock of its own step. The difference is the
  length of a pass, seconds against timers of minutes.
* The Portfolio API is assumed truthful where `CleanUpAbsent` reads it, and may
  still list a gone account where `Read` does. Adoption is left to PositionTracking.
* Dry-run positions, alerts, the report card and the journal are left out.
  `break_even_days` is compared before rounding.
* The agent holds only positions it was shown (`OverrideHold` needs `tracked`).
* A position's life ends with its close or rotation; the redeployed one starts a
  life of its own. `booked` counts the daily PnL only; an override-close books
  only when the guard had a PnL.

### PositionMonitorHistory

Six history variables of the ticks of all processes:

| Variable | Records |
|---|---|
| `overtaken` | the processes at work whose metadata another tick has written back since they read it |
| `gap_granted` | the gap-through grace was granted, and no tick has seen the price above the floor since |
| `postponed_from` | when the running series of exits postponed by the indicator began |
| `oor_from`, `extended_at` | when the running out-of-range episode was first seen, and when it was given its recovery grace |
| `doubted_at` | when the last tick with an API row skipped a suspect read |

`HNext` lists the disjuncts of `Next`, each with what it records: no step of the
monitor is restricted, which the lemma `HistoryOnlyRecords` states. An overtaken tick writes back
metadata from before another's marks and so takes them out again; that is the finding
about reports in section 9, and `GapGraceOnce` and `OorFuseEnds` except such a tick by
name. `IndicatorDelayBounded` and `SuspectNeedsSecondRead` need no exception: their
timers are keys of their own, which no process writes back from memory.

## 4. PositionTracking

### State

| Variable | Code |
|---|---|
| `chain` | per address the account: `absent`, `empty` (minted, no liquidity) or `funded` |
| `api` | what the Portfolio API answers for it; `Index` brings it up to date |
| `active` | `sol:dlmm:active_positions` |
| `meta` | `sol:dlmm:position:<addr>`: whether its status is `orphan` and whether `deployed_at` is more than two hours ago |
| `ex` | the executor's deploy call: step, keypair, endpoints left, chunks confirmed; then the answer the pipeline has not read |
| `pl` | the pipeline: step, the address it registers, the API list it reconciles with |
| `mon` | per monitor process: step, address, membership in the tracked set as read, what the API or SDK said, metadata in memory |

### Actions

| Actions | Code |
|---|---|
| `SendNarrow`, `MintWide`, `AddChunk`, `CleanUp` | the transactions of `deployPosition`; each is `confirmed`, `lost` (it landed and is reported as failed) or `failed`. `Rethrow` is `runWithFailover`: next endpoint, new keypair |
| `ExecutorDies`, `PipelineKilled` | a killed process; a killed pipeline leaves its executor running |
| `PipelineStart`, `PipelineReconcile`, `PipelinePick` | the API list, `reconcile_redis_vs_meteora` with the slots after it, the duplicate check with the start of the deploy |
| `PipelineAnswer`, `PipelineSet`, `PipelineAdd`, `OrphanAdd`, `OrphanSet` | the answer and its registration, one Redis write per action: a success writes the metadata first, an orphan the set first |
| `PassBegin`, `Fetch`, `Refresh` | the tracked set, the API or SDK answer, the tracked set again |
| `AdoptAdd`, `AdoptSet`, `Reclaim` | the loop's reconciliation of listed addresses nobody tracks |
| `SkipOrphan`, `SeeGhost`, `RemoveGhost`, `LeaveAlone`, `CleanUpAbsent`, `Look` | the branches at the head of the monitor's main loop |
| `Decide`, `Close` | the write-back of metadata read before, and the executor's close with what the monitor deletes after it |
| `Index`, `ExternalClose`, `Age` | the API catches up, the owner closes by hand, two hours go by |

Abstractions:

* A pass is its slice for one address: the iterations of a pass meet only in Redis
  and on the chain, where passes of any addresses meet anyway. `Others` says that
  positions outside `Addrs` are tracked and listed all along; they keep the loop's
  passes from ending at once and the API's list from being empty.
* One pipeline and one deploy call at a time, one mode's slots. An address is fresh
  when nobody knows it any more, so a finite set stands for endless keypairs.
* Of the metadata only `orphan` and the age matter here; an adopted position is not
  told apart from a registered one. When an exit is raised is PositionMonitor's
  matter: here `Decide` chooses freely, also whether it writes back.
* The API's balance is that of the pool, as `dlmm_monitor.py` reads it: an empty
  account beside a funded one of the same pool looks funded.
* `Age` needs `Settled`: the API's lag and the length of a pass or a reconciliation
  are far less than two hours. The grace of the code rests on this assumption, and
  so do `KeepsLife` and its proof.
* `PipelineReconcile`, `CleanUpAbsent` and `Close` delete their two or three keys in
  one step. Dry runs are left out.

## 5. CloseBooking

### State

| Variable | Code |
|---|---|
| `open`, `mode` | the accounts on the chain, and the mode in a tracked position's metadata |
| `day` | `total_sol` of the day's `pnl:daily` key |
| `cool`, `coolMint`, `coolPool` | the cooldowns of symbol, mint and pool: the minutes they were set for, 0 when gone |
| `streak`, `recenters`, `poolPnl`, `blocked` | `loss_streak`, `rebalance_count`, `rebalance_pnl`, the mint blocklist |
| `task` | per closer the close it is booking: its step, position, reason, result and what it has read |
| `closed`, `slack`, `recent` | checking only: the PnL of all closes on the chain, booked or not; how much of it the day's total may miss; redeploys since the count was gone |

### Actions

`CloseLands` is a close that succeeds, `CloseUnseen` one nobody is told of. Then one
action per Redis or executor call, in the script's order: `Forget`, `ReadTotal`,
`WriteTotal`, `Budget` (may this close re-center?), `Streak`, `Look` and `Cool`,
`Extend` (the override's `EXPIRE` of the symbol's and the mint's cooldown after a repeated
loss or a gain, 792-812), `After` (the low-yield cooldown of the pool, the blocklist), then
`Reseed`, or `Tally`, `TallyPnl`, `Redeploy`, `Register` and `Fallback` of a
re-center. Overrides go their own way through the same actions: they cool down before
they book, and with an unknown PnL they book nothing. `Killed` ends a closer anywhere.
`Deploy`, `Adopt` and `Drop` are the pipeline and the reconciliation in one step each;
`Lapse` and `LapsePool` are the expiry of keys.

`closed` grows when an account goes from the chain, in `CloseLands` and `CloseUnseen`, and
not when a total is written, so that a close lost on its way to Redis shows. The code does
lose closes, in three ways, and each adds the size of the close it loses to `slack`: an
unseen one at once; one whose closer is killed while it still `Owes` the write; one written
while another closer is between its read and its write. `TotalAddsUp` says that
the total, with what the closers at work still owe, is off by `slack` at most: whatever
else happens costs the total nothing. It does not say that the loss is made up for; the
code never does that.

Abstractions: a cooldown of fifteen minutes or more does not lapse while a close of
its token is being booked, which takes seconds. PnL counts in units of a small loss,
so a deep loss is two of them. An override with an unknown PnL, which books nothing by
design, stays out of `closed`. Compounds and harvests book nothing and are no closes
here (`RotateOk` of PositionMonitor, the redeploys of DeployPipeline). A booking takes the
name of the day's key once (1516, 781) and reads and writes that key, so midnight does not
tear a booking apart; one day is modelled. Dry runs, messages, the close journal and the pool
memory (write-only here) are left out, as are the sale of the base token and the
clearing of signal marks, which is `Clear` of SignalDaemon. `Killed` between `INCR` and
`EXPIRE` of the loss streak is not told apart from a kill after both: `Lapse` may end any
streak, so that one without an expiry, which would escalate for ever, is not seen.

## 6. DeployPipeline

### State

| Variable | Code |
|---|---|
| `sol`, `bag` | the wallet: SOL in hundredths, and SOL's worth of each token |
| `account`, `value` | per address the pool of its account and SOL's worth in it |
| `late` | per run an executor call that outlived it |
| `tracked`, `meta`, `size` | `active_positions`; of `position:<addr>` the mode and `size_sol`. Without a mode: `adopted` (no mint either), `orphan`, `modeless` (re-seeded or harvested); `promoted` is an adopted one that a re-center gave mode multiday |
| `barred`, `deploys`, `coolPool` | cooldowns of symbol and mint with the blocklists; `deploys:<pool>`; the pool's cooldown |
| `task` | per run: step, mode, source, strategy, candidates, pool, amount, swaps done, tokens bought, address |
| `move` | the monitor's redeploy: step, kind, the position it closed, what it will put in and register, the SOL that came back and is not spent yet |
| `spoiled`, `entries` | checking only, see below |

### Actions

`Start` takes the way the script is called (mode, source, strategy). `Reconcile` prunes
the keys of positions that are gone; `Slots` and `Balance` read Redis and the wallet,
`SlotsBlind` and `BalanceBlind` are those reads failing, with the code's fallbacks;
`Gather` drops what is held, cooled down or blocked; `Pick` plans strategy, size and
range. `GatesRefuse` and `GatesPass` stand for the entry gates, `SwapOk`, `SwapUnseen`
and `SwapFails` for one try of the swap, `Bought` and `BoughtBlind` for the look at
what it bought. `DeployOk`, `DeployFails`, `DeployOrphan` and `DeployUnseen` are the
executor's outcomes; `LateLands` and `LateDies` what becomes of a call nobody waits
for. `SetMeta`, `AddTracked`, `Count` and `Guard` are the four writes of the
registration. `Killed` is the caller's timeout. `Close`, `Forget`, `Adopt`, `Sweep`,
`Bar`, `Lapse` and `LapsePool` are the monitor, the owner and the clock.

The monitor's redeploys are steps of their own. `MoveClose` takes the account and puts what
comes back, as SOL and as tokens, into the wallet. A re-center goes on with `MoveDrop`
(SREM, DEL; no cooldown), `MoveSell` or `MoveKeeps` (the auto-swap), `MoveDeploys`,
`MoveSets` and `MoveAdds`; a re-seed with `MoveDrop`, `MoveLooks` or `MoveFindsNone`, and
the same deploy; a compound or a harvest deploys first, drops the old keys then and
registers. `MoveFails`, `MoveStrands` (an account without liquidity, which the monitor
registers nowhere), `MoveUnseen` with `MoveLateLands` and `MoveLateDies`, and `MoveKilled`
are the ways it goes wrong. All of them interleave with every step of the runs.

`spoiled` collects what takes a promise away, and every property names its
exceptions. Of the runs:

| Kind | What happened |
|---|---|
| `overlap`, `twins` | two runs at once; two of one mode |
| `blind` | a read of Redis, of the wallet or of the Portfolio API failed |
| `twice` | a run bought again after a swap whose answer was lost |
| `cut` | a run or a redeploy was killed, or its deploy call outlived it |
| `adopted` | the monitor adopted what a run was about to register |

and of the redeploys:

| Kind | What happened |
|---|---|
| `freed` | a run sized itself with SOL that a redeploy was about to put in again |
| `short` | a redeploy put in more than came back: it takes the size of the record, not of the close |
| `slot_gap` | a run was granted the last slot while a position was between its two registrations |
| `token_gap` | a run gathered a token while it was between its two positions and nothing named it |
| `promoted` | an adopted position, counted in no mode by name, was registered as multiday |
| `stray` | a redeploy left an account that Redis does not know |

Each of them is a real step of the model and of the code; that the code has no answer to
most of them is in the findings. The marks are set by the step that opens the window,
not by the damage, and only while it is open: `freed`, for instance, needs SOL that
is back and not spent. What the properties then say is that nothing else
breaks reserve, slots or the one position per token.

Abstractions: prices stand still and a position is worth what was put in; fees and
rent are left out, for which the reserve is there; a market filter or a score keeps
any subset of the candidates; bin counts are reduced to which sides of the price
have bins; dry runs and the log are left out. Of the redeploys:

* There is one at a time. The loop redeploys one position after the other; a report pass
  that re-seeds after an emergency beside the loop's redeploy is left out, and so is a
  redeploy begun while the call of a killed one may still land.
* Which strategy a position has, and what budget, yield and market allow, is left open:
  any tracked position may be redeployed in any way its metadata permits. The budget is
  CloseBooking's.
* Only the loop adopts, which is not in a redeploy then; the metadata is that of the close.
* The churn guard counts the pipeline's deploys only, as the code does, and so does
  `ChurnIsCooled`. `BarredStaysOut` speaks of bars set before the run began: a bar set
  after the read (1091-1124) and before the deploy is missed by the code, and
  `GateLeavesNoBag` of balanced_tight: single_sided_reseed buys before the gates by design.

## 7. SignalDaemon and SignalPromise

### State

| Variable | Code |
|---|---|
| `backend`, `life` | the store, Redis or memory; the process, `up`, `stopping` (context cancelled) or `down` |
| `at`, `turn`, `rest`, `pool`, `hand` | the poll: step, mode, candidates not looked at, the one at the gates, the batch |
| `left` | per key, a pool in a mode, what is left of its window |
| `open`, `late`, `outlived` | Robinhood positions, mints that may still land, and how many ever outlived their timeout |
| `why`, `faults` | checking only: what came of a key in this window; and the bound |

### Actions

`PollBegins`, `Fetch`, `Look` (the cooldown), `Mark` and `MarkFails`
(`MarkIfNewTTL`), `GateRejects`, `GatePasses`, `ScanEnds`, `LoneHeldBack`; then the
delivery, `Delivered`, `NotDelivered` or `Unanswered`, with `Unmark` key by key after
a failure; for a Robinhood mode `RobinSkips`, `RobinCounts`, `RobinDeclines`,
`RobinMints`, `RobinTimesOut`; `ModeEnds`. A cancelled context fails every Redis call
and kills every subprocess, but not the poll. `Stops`, `Exits`, `Crashes` and `Starts`
are the process, `Tick` the windows, `Clear` the monitor's `clear_signal_seen`.

Windows are much longer than a poll, so `Tick` needs `at = "idle"`; a `Clear` may come
at any moment. Whether a token is cooling down is a free choice in `Look`, since the
monitor sets cooldowns as it likes. Screens, enrichment and gates are verdicts. The
sink of a mode (pipeline, webhook, log, Robinhood) is a constant.

### The refinement

`SignalPromise` has two variables, the mark of each key and what came of it. The
daemon's `left`, `hand` and step map to the mark: `Promised(k)` is *held* while the
daemon has a key whose mark is there, *stale* while it has one whose mark was cleared
or expired, *silent* when it is marked and nobody's, *free* otherwise. `why` maps to
itself. The promise lets a key be signalled again in one window after a lost answer
only (`doubt`), and marks slip past the daemon only as `lost`; both are steps the code
takes, and findings.

## 8. RobinhoodMonitor

### State

| Variable | Code |
|---|---|
| `chain`, `bag` | per position how much of it is there (`open`; `collected`: emptied, not burnt; `gone`), and what its close left of its token (`loose`, or journalled and `waiting` or `due`) |
| `file`, `mem` | `uni_monitor_state.json`, and the copy the running tick loaded: best PnL, ages of the out-of-range and the indicator clock |
| `tick` | what the tick gathered and has yet to visit, and whose answer failed or was an error report |
| `held`, `inAge` | checking only: age of the watched position's unbroken run of postponed exits; time since a saved tick saw it in range |

### Actions

`Gather` asks every executor, which lists, prints an error report that the code takes
for an empty list, or stays silent; it offers due bags for sale. `Unreadable`, `Hold`
and `Close` are the visit to a position, `Close` with every point its executor can
stop at and with the answer seen or not. `Save` prunes the file and ends the tick,
`Killed` ends it without. `Mint`, `ManualClose`, `AdoptBag`, `BackoffOver` and `Pass`
are the world.

Time counts in half hours and a tick is short beside one, so a clock is stored as an
age. The momentum feed and the indicators are inputs. The report card, dry runs, alerts
and the write-only journal of closes are left out.

## 9. The runs

The MC modules define readings by name, each the smallest that makes one rule
fire (`Gapped`, `Crashed`, `TokenBag`, ...), and positions of each mode and
strategy. SOUL.md's thresholds keep their proportions; the minutes are scaled down
(fuses 1 or 2, indicator block 1 or 2, suspect TTL 1 or 2, graces 1 or 2)
so that the timers a run asks about expire, and those that can be renewed expire
again, before `MaxClock`.

| Run | Instance | Shows |
|---|---|---|
| `monitor_graces` | loop and report with their history, a reading that arms, one out of range and below the floor, one suspect; 3 minutes | `ArmedLocksGain`, `GapGraceOnce`, `IndicatorDelayBounded`, `OorFuseEnds`, `SuspectNeedsSecondRead` |
| `monitor_shared` | loop, report and agent with all its calls, two readings, a compounding position, 1 minute | `TypeOK`, `ReportClosesOnlyEmergencies`, `ClosedAtMostOnce`, `OpenIsTracked` |
| `monitor_rules` | loop and holds, fifteen readings, four positions, 1 minute, fairness | `EmergencyNeverSuppressed`, `EmergencyEventuallyCloses` |
| `monitor_hold` | expected violation | an AI hold does not refuse an override-close without a PnL |
| `tracking` | one address, others tracked, loop and report, two endpoints, two chunks, fairness | `TypeOK`, `KeepsLife`, `FundedIsAdopted`, `GoneIsForgotten` |
| `tracking_orphan` | expected violation | an orphan the pipeline registered for reclaiming is skipped by the loop for ever |
| `tracking_reclaim` | expected violation | the close of an "empty zombie" takes out a deploy whose liquidity arrives meanwhile |
| `booking` | two addresses of one pool, the loop and an override, caps of two and one re-center, three closes, one kill | `TypeOK`, `TotalAddsUp`, `ExitIsGated`, `RepeatLossIsOut`, `RecenterBudget` |
| `pipeline` | two runs, casual and turnover batches, two pools of one token with SOL on either side, two addresses, one slot per mode, churn limit 1, one upset: a failed read, a lost answer, a kill, a redeploy of the monitor, or the second run beside the first | `TypeOK`, `ReserveKept`, `SlotsKept`, `TokenOnce`, `ChurnIsCooled`, `LandsOnItsSide`, `BarredStaysOut`, `GateLeavesNoBag` |
| `daemon` | a Meteora mode with two pools on the pipeline, a Robinhood mode with one, either store, windows of two and one ticks, cap 1, two faults, fairness | `TypeOK`, `SilentForAReason`, `CapHeld`, `KeepsPromise`, `SilenceEnds` |
| `robinhood` | a v3 and an unpriced v4 position, four readings, one kill | `TypeOK`, `PeakKept` |
| `robinhood_live` | one v3 position under every rule, the v4 executor free to be silent, one kill, fairness | `PostponedAtMostCap`, `OorExitIsReal`, `BagIsSold`, `HalfClosedIsFinished` |

The bounds of the monitor's runs are enough because each property relates at most two
ticks of one timer, or one step of each process: one minute and three processes hold every
order of the reads, decisions, closes and clean-ups of two passes; the three minutes of
`monitor_graces` hold a fuse of two, its extension and the fuse again, and a series of
postponements through rejections a minute apart up to its limit. What more minutes would
show, and the agent's calls beside the history, is left to the proofs. Deadlock is not
checked there: a closed and forgotten position has nothing left to do. One address is
enough for `tracking` because each of its properties is about one address, which is
absent, funded, closed and deployed anew without bound; other addresses reach it through
the slots, the
duplicate check and the pool's balance only, and `Others` and the free choice of the
account's fate stand for them. Two passes and a pipeline hold every order of an
adoption, a registration, a clean-up and a close. Deadlock is checked: the pipeline
can always start again.

`booking` needs two addresses of one pool to let two closers meet on one token; three
closes hold two losses in a row and a close between them, a cap of one and of two
re-centers can be reached and tripped. `pipeline` has two runs: the second meets what the
first left behind, or runs beside it, or either meets a redeploy at every step of both.
One upset does not hold a redeploy beside two overlapping runs, nor a failed read in a run
beside a redeploy; those, the re-seeding call plan and other wallets, pools and slots
are left to the proofs, which bound none of them. A churn limit of one is
reached by the first deploy and would be passed by the second; a wallet of 0.64 SOL gives
the first deploy 0.20 SOL and the next about 0.11, just over the minimum, where rounding,
the floor of the size and a size taken of the whole wallet show. Runs and
addresses are interchangeable there, and every property is one of states or steps, so
the symmetry is sound. None of the exceptions of `ReserveKept`, `SlotsKept` and `TokenOnce`
that stand for a redeploy is idle: without any one of them TLC finds the property violated
(`short`, `slot_gap`, `token_gap` and `stray` on the run's own instance; `freed` with a
wallet of 0.35 SOL; `promoted` with two tokens, a casual and a multiday call, one run and
two upsets). In `daemon` two faults hold a lost call and a shutdown or a
crash after it, and a batch of two pools can be unmarked half. In the Robinhood runs a
clock that reaches its limit and a cap of two ticks hold a postponement, its renewal and
its end. Deadlock is not checked in `booking`, `pipeline` and `daemon`, whose closes,
starts and faults are bounded, and is checked in the Robinhood runs.

**Fairness** (`LoopFairness` in PositionMonitor's `FairSpec`, used only by
`monitor_rules` for `EmergencyEventuallyCloses`):
`dlmm_monitor_loop.sh` starts a pass every 20 seconds for ever and systemd
restarts it, which is weak fairness of the loop's own steps. That a close
succeeds if it is tried again and again is an assumption about the chain, strong
fairness of `CloseOk`; a chain that refuses for ever would refute every such
property. The other processes, the clock and the readings get none. The run has no
report process: nothing orders its ticks with the loop's, and one that always came
between could take the `suspect_pnl_since` key of each of the loop's doubts out again,
so that no fairness of the loop alone makes it close.

`FairSpec` of PositionTracking assumes the same of the loop script: a pass that began
goes on, and passes cover every address (strong fairness of `PassBegin`, which stands
for the `for` over the tracked set). The API answers and the executor's close
succeeds if asked again and again; the API catches up and time passes; a
reconciliation that began ends. Nothing is assumed of deploys, of the report and of
the owner.

`FairSpec` of RobinhoodMonitor: the loop script starts a tick every minute, so visits
and saves go on (weak fairness); the executors named `Reliable` answer, and their closes
and sales succeed, if asked again and again (strong fairness); a backoff ends. Nothing is
assumed of the other executor, which is the point of `BagIsSold` and
`HalfClosedIsFinished`. `FairSpec` of SignalDaemon: the poll's goroutine goes on, since
every call it waits for has a timeout (weak fairness of `Poll`), and time passes between
polls again and again (strong fairness of `Tick`). CloseBooking and DeployPipeline state
no liveness: nothing restarts a killed booking or a refused deploy.

### Findings

Three runs expect a violation; each checks one sentence of the repository that the code
does not keep. An AI hold does not refuse an override-close without a PnL (a `None` in a
format string, whose TypeError a broad `except` swallows); a registered orphan is never
reclaimed; the close of "empty zombies" takes out a deploy in progress.

The other findings in `PROJECT.json` were met while modelling and have no run of their
own: the model does what the code does, and where a passing property would be broken by
it, the property excepts it by name (`overtaken` in PositionMonitorHistory, `Tripped` and
`slack` in CloseBooking, the kinds of `spoiled` in DeployPipeline, `doubt` and `lost` in SignalPromise, `blind` in
RobinhoodMonitor, the other tracked position in `FundedIsAdopted`). Among them: a hard
stop-loss renamed by the low-yield rule can be postponed by the indicator; a report pass
takes the loop's used grace back (`overtaken` in PositionMonitorHistory); a mint that landed unconfirmed is retried with a new
keypair; an error report of `uni_executor.js` is taken for an answer; the tripped
turnover breaker sets no cooldown although it says so; a swap whose answer did not come
is tried again; a SIGTERM leaves undelivered pools marked; a re-center leaves its slot
and its token free to a run between two registrations, and redeploys the
recorded size whatever the close brought back.

## 10. The proofs

`PositionMonitorProofs` proves, for every set of processes, positions, readings
and parameters that satisfy the assumptions in `PositionMonitor`:

| Theorem | Property | Argument |
|---|---|---|
| `TypeCorrect` | `TypeOK` | inductive as it stands: one lemma per action. Its last conjuncts (a deciding process holds a reading and metadata, only a closing one has a reason) are what the other proofs need |
| `ClosedOnce` | `ClosedAtMostOnce` | inductive; only `CloseOk` books, and it needs an open account |
| `OpenStaysTracked` | `OpenIsTracked` | inductive; every step that drops keys has seen the account gone or closes it |
| `EmergencyAlwaysActs` | `EmergencyNeverSuppressed` | a step property: only `Decide` leaves the deciding state, and an emergency passes indicator, report and hold (`EmergencyReason`, `EmergencyActs`) |
| `ReportIsReadOnly` | `ReportClosesOnlyEmergencies` | inductive with `TypeOK` |
| `GainsStayLocked` | `ArmedLocksGain` | not inductive: the ratchet is not monotone (a peak of 4.9% has a floor of 3.4%, one of 5.0% a floor of 2.5%), so a floor above the lock says nothing about the floor of a later peak. `PeaksAreEarned` is: armed metadata, in Redis or in any process's memory, has a peak of 2% at least |
| `BookedAsItCloses` | | the step that books a close is the one that takes the account from open to gone; a close that landed unseen stays out of the daily PnL |
| `HardStopCloses` | | below the hard floor every process but the report closes on that tick, unless an AI hold is on or the low-yield rule renamed the exit: the two ways out SOUL.md does not name, and the only ones |
| `HoldBlocksKnown` | | the extent of the finding `monitor_hold`: a hold refuses every unforced override of a position the API lists above -25% |
| `NewHighNeverTrails` | | a lemma about the rules: at a new high the floor of its own tier lies below it |
| `MonitorKeepsLife` | `KeepsLife` | `OpenIsTracked` before and after each step, and a gone account never comes back |

`GainsStayLocked` holds for a trigger of 2% or more and a drop that leaves the
minimum lock under 2%, which SOUL.md's 5% and 1.5% satisfy; `HardStopCloses` for a
stop-loss below the take-profit of the upside, `NewHighNeverTrails` for a positive drop.
The other theorems need only the types of the constants.

`PositionMonitorHistoryProofs` proves the bounds on graces and delays for every set of
processes, every limit and every clock:

| Theorem | Property | Argument |
|---|---|---|
| `HistoryOnlyRecords` | | every behaviour of `HSpec` is one of `Spec`: its theorems hold there too |
| `KeysRecordThePast` | | the inductive invariant, `HistoryInv`: a mark or a since-key, in Redis and in every copy a process that is not overtaken may write back, says what the history says |
| `GapGraceIsOnce` | `GapGraceOnce` | `GapRecorded`: after a grant the metadata of Redis and of every process that is up to date is marked |
| `IndicatorDelayIsBounded` | `IndicatorDelayBounded` | `PostponementRecorded`: the key of a running series is not younger than the series |
| `OorFuseAlwaysEnds` | `OorFuseEnds` | `FuseRecorded`: `oor_since` is the start of the episode until the grace, then so far back that the shorter fuse ends with the grace, and the grace is marked used |
| `SuspectIsReadTwice` | `SuspectNeedsSecondRead` | `DoubtRecorded`: the suspect key is that of the last doubt |
| `AloneNeverOvertaken` | | where one process runs, none is ever overtaken, so that the exceptions of the first and third are due to concurrency alone |

`PositionTrackingProofs` does the same for every set of addresses, pools, processes,
and every number of endpoints, chunks and slots:

| Theorem | Property | Argument |
|---|---|---|
| `TypeCorrect` | `TypeOK` | with `Addressed`: whoever is at work has an address |
| `TrackingKeepsLife` | `KeepsLife` | no account is minted at an address with a key (`MintsUnborn`). A clean-up deletes metadata only of an address that is absent from an API answer and past the grace. The answer is old, so this alone says nothing about the chain now. `AgedIsListed` does: two-hour-old metadata of an open account is listed in every answer anybody still holds |
| `OrphansStay` | | the finding `tracking_orphan` as a theorem: an orphan that is tracked, once no pass of before is at its address (`Abandoned`), stays tracked and open until its owner closes it by hand. `OrphansApart` is its invariant: nobody is about to register the address again |

`Invariance` proves the inductive invariant, `TInv`. `AgedIsListed` needs
`MintsUnborn`: the account a deploy is about to mint is known to nobody, so no old
metadata waits at its address when it opens.

`CloseBookingProofs`, for any positions, pools, closers, caps, closes and kills:

| Theorem | Property | Argument |
|---|---|---|
| `TypesHold` | `TypeOK` | inductive, with what a closer knows at each step |
| `TotalHolds` | `TotalAddsUp` | `Adds`: not only the total in Redis but every total a closer has read and will write is within `slack` of the PnL on the chain, less what is owed. What is owed counts closers, of which there are finitely many: a step of one of them changes it by its own close (`OwingOne`, `OwedOne`) |
| `BudgetHolds` | `RecenterBudget` | `Within`: redeploys since the count was gone are at most the count, and a re-center under way is still within the budget it was decided on, since only one closer re-centers (`OneRecenters`) |
| `GateHolds` | `ExitIsGated` | whoever is past `Cool` has cooled its token down, and the token's cooldown does not lapse under it; a closer that was to re-center is not excused by the breaker, even if its own loss trips it |
| `BookingKeepsLife` | `KeepsLife` | `ForgetsGone`: a closer about to drop the keys of its close holds an address that is not open, and nobody opens an address that is still being booked (`Free`) |
| `RepeatLossHolds` | `RepeatLossIsOut` | `Alone` and `AllOut`: a closer that met no other on its token is the only one to write its cooldown |

`DeployPipelineProofs`, for any runs, pools, orientation, addresses, calls, slots, churn
limit, wallet, upsets and redeploys:

| Theorem | Property | Argument |
|---|---|---|
| `BaseHolds`, `TypesHold` | `TypeOK` | `Base`: types; what each step knows (`AllStaged`); what the marks exclude (`Marks`: without `overlap` at most one run is at work, without `cut` no call outlives its run, and so on) |
| `ReserveHolds` | `ReserveKept` | not inductive: `Reserve` says that the wallet covers the reserve, all the one run still owes, whatever it bought and lost so far, and what a redeploy got back and has not spent |
| `SlotsHold` | `SlotsKept` | `Slotted`: a mode's tracked positions, with the place of the one a redeploy has dropped and will register again (`Place`), are no more than its slots, and fewer while a run was granted one and has not registered; a redeploy trades its place for an address and takes no other (`Traded`, `SlottedNext`). `Named` and `Labelled` tie metadata, and what a redeploy will register, to modes |
| `TokenHeldOnce` | `TokenOnce` | `Single`: each account's token is known to Redis or about to be made known by its run or its redeploy, and the pick of a run stays free of it and of the token a redeploy carries (`SingleStep`, `SingleMove`) |
| `PipelineKeepsLife` | `LivesUnlessBlind` | each landing, registration, adoption, close and prune maps to its step of PositionLife (`StepLives`, `RedeployLives`, `WorldLives`); a prune's list is a subset of the truth it read, unless the read failed; `Closed`: the position whose keys a redeploy will drop has no account |
| `ChurnHolds` | `ChurnIsCooled` | `Churn`: entries are counted but for the run about to count, and a full count has the pool cooled or a run about to cool it |
| `BarredStayOut`, `GatesLeaveNoBag`, `LandsOnSide` | the properties of the same meaning | from `Base` |

`SignalDaemonProofs`, for any modes, feeds, sinks, windows, caps and faults:

| Theorem | Property | Argument |
|---|---|---|
| `TypesHold` | `TypeOK` | with `Placed`: a batch or a pool is held only where a poll has one |
| `SilenceHasAReason` | `SilentForAReason` | `Reasoned`: a key is unsettled exactly while it is free or in the daemon's hands |
| `CapHolds` | `CapHeld` | `Counted` |
| `PromiseIsKept` | `KeepsPromise` | initial states map to initial states, each action to a step of SignalPromise or a stutter, from the invariant |

`RobinhoodMonitorProofs`, for any positions, executors, readings and limits:

| Theorem | Property | Argument |
|---|---|---|
| `TypesHold` | `TypeOK` | inductive |
| `PeaksAreKept` | `PeakKept` | `PeakInv`: what a tick carries of a position it will save is at least the file's peak |
| `PostponementIsCapped` | `PostponedAtMostCap` | the stored block clock is never younger than the run of postponements it stands for |
| `OorExitsAreReal` | `OorExitIsReal` | the stored out-of-range clock never exceeds the time since the position was seen in range |

The proofs assume the named ASSUMEs of the modules and nothing else: what the constants
are, that sets of positions, addresses or closers are finite, and for `GainsStayLocked` the
proportions above.

Only model-checked: liveness, since fairness is out of the prover's reach
(`EmergencyEventuallyCloses`, `FundedIsAdopted`, `GoneIsForgotten`, `BagIsSold`,
`HalfClosedIsFinished`, `SilenceEnds`). Every other property of a passing run is a theorem.

## 11. Not modelled

* The thresholds of the Meteora and Robinhood screens and their enrichment: stateless
  arithmetic over one HTTP answer each. Their verdicts are inputs.
* `local_indicators.py`: floating-point arithmetic over candles. Its three answers
  (confirm, reject, no data) are inputs of both monitors.
* `dlmm_weights.py` and `self_improvement.py`: batch statistics over the journal, run
  by themselves, with nothing to coordinate. Their outcome, weights and parameters of
  SOUL.md, are constants and free choices here.
* Reports and audits, installation and the agent's prompts: they read only.
* On the chain: SDK calls, amounts, bin and tick arithmetic, swap routes, contract calls.
* Failing Redis calls inside a booking: an `HGET` without an answer is taken for 0.0 and the
  day's total starts anew with the close at hand (`dlmm_monitor.py:1518-1519`).
* A torn line in the stranded journal (`uni_executor.js:198-208`), left by a writer killed
  in its append: reading stops there, and every later bag is hidden.
* A `json.Marshal` error of a batch (`scanner.go:436-440`), which would leave it marked:
  the batch is made of plain values that always marshal.
* That a lost answer or a late mint leads to a second delivery or deploy: SignalPromise has
  steps for it (`doubt`, `lost`, `declined`), so the refinement does not count it as wrong.
* Everywhere: dry runs, messages, logs, write-only journals; the `--cleanup-tokens` call.

One hazard has no property: a rotation whose redeploy fails leaves the PnL of the gone
position unbooked (`dlmm_monitor.py:1363`). `RotateFail` models it, but nothing in the
repository says where that PnL belongs.
