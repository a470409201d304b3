----------------------------- MODULE SignalDaemon -----------------------------
(***************************************************************************)
(* The daemon mdtb (main.go, internal/scanner, store, webhook, deploy,     *)
(* robinhood/deploy.go): one goroutine polls mode after mode.  In each it  *)
(* fetches and screens pools, skips what cools down or was seen, marks the *)
(* rest as seen, lets the gates reject some, and hands the batch that is   *)
(* left to the pipeline, the webhook or the Robinhood executor; a batch    *)
(* that was not delivered is unmarked.                                     *)
(*                                                                         *)
(* Marks live in Redis or in the process.  Redis calls fail, answers come  *)
(* late, the process is stopped or dies; the monitor clears the marks of a *)
(* pool it has closed.  What the gates read is the market's choice; time   *)
(* passes between polls, and a window of silence is longer than a poll.    *)
(* Enrichment, scores and reports are left out.                            *)
(***************************************************************************)
EXTENDS Naturals, Sequences, FiniteSets

CONSTANTS
  Order,      \* the modes of a poll, in order
  Feed,       \* per mode: the pools its source may bring
  Sink,       \* where a mode's batches go: "pipeline", "webhook", "robinhood", "observe"
  Solana,     \* the modes of Meteora: they respect cooldowns and are cleared by the monitor
  Window,     \* per mode: the time a key stays silent
  Cap,        \* ROBINHOOD_MAX_OPEN_POSITIONS
  Backends,   \* "redis", "memory"
  MaxFaults,  \* a bound: failed calls, late answers, stops and kills
  None

Modes == {Order[i] : i \in DOMAIN Order}
Pools == UNION {Feed[m] : m \in Modes}
Keys  == UNION {{m} \X Feed[m] : m \in Modes}
Sinks == {"pipeline", "webhook", "robinhood", "observe"}

ASSUME DaemonAssumption ==
  /\ Order \in Seq(Modes) /\ Order # <<>> /\ DOMAIN Feed = Modes /\ Sink \in [Modes -> Sinks] /\ Solana \subseteq Modes
  /\ Window \in [Modes -> Nat \ {0}] /\ Cap \in Nat /\ MaxFaults \in Nat
  /\ Backends \subseteq {"redis", "memory"}
  /\ None \notin Pools
  /\ None \notin {"sent", "doubt", "rejected", "declined", "lost"}

VARIABLES
  backend,  \* where the marks are
  life,     \* "up", "stopping" once the signal came and the context is cancelled, "down"
  at,       \* where the goroutine is
  turn,     \* the mode it polls, by its place in Order
  rest,     \* pools of this fetch that passed the screen and were not looked at yet
  pool,     \* the one it looks at
  hand,     \* the batch
  left,     \* the seen store: per key the time left, 0 when there is no mark
  open,     \* Robinhood positions
  late,     \* Robinhood deploys that outlived their timeout and may still land
  faults,
  why,      \* checking only: what came of a key in its window, None when nothing yet
  outlived  \* checking only: how many deploys ever outlived their timeout

place == <<at, turn, rest, pool, hand>>
robin == <<open, late, outlived>>
vars  == <<backend, life, place, left, robin, faults, why>>

Init ==
  /\ backend \in Backends /\ life = "up"
  /\ at = "idle" /\ turn = 1 /\ rest = {} /\ pool = None /\ hand = {}
  /\ left = [k \in Keys |-> 0]
  /\ open = 0 /\ late = 0
  /\ faults = 0
  /\ why = [k \in Keys |-> None] /\ outlived = 0

Mode     == Order[turn]
Key(p)   == <<Mode, p>>
Seen(k)  == left[k] > 0
Alive    == life # "down"
Batch    == {Key(p) : p \in hand}

\* In the daemon's hands: in the batch, or before the gates.
Held == Batch \cup IF at = "gate" THEN {Key(pool)} ELSE {}

\* A Redis call fails when the context is cancelled, and may fail anyway.
Cancelled == backend = "redis" /\ life = "stopping"
Fault == faults < MaxFaults /\ faults' = faults + 1
CallFails == IF Cancelled THEN UNCHANGED faults ELSE backend = "redis" /\ Fault

\* A subprocess is killed with the context.
Killed == life = "stopping" /\ Sink[Mode] \in {"pipeline", "robinhood"}
Cut    == IF Killed THEN UNCHANGED faults ELSE Fault

\* The keys of K leave the daemon's hands: those whose mark is still there because of reason.
Settled(K, reason) ==
  why' = [k \in Keys |-> IF k \in K /\ Seen(k) THEN reason ELSE why[k]]

--------------------------------------------------------------------------------
(* One poll. *)

PollBegins ==
  /\ Alive /\ at = "idle"
  /\ at' = "fetch" /\ turn' = 1
  /\ UNCHANGED <<backend, life, rest, pool, hand, left, robin, faults, why>>

\* What passes the screen; nothing when the API does not answer.
Fetch(found) ==
  /\ Alive /\ at = "fetch"
  /\ rest' = found /\ at' = "scan"
  /\ UNCHANGED <<backend, life, turn, pool, hand, left, robin, faults, why>>

\* CooldownRemaining, for Meteora: the monitor sets it whenever it likes; no answer is no
\* cooldown.
Look(p) ==
  /\ Alive /\ at = "scan" /\ p \in rest
  /\ rest' = rest \ {p}
  /\ \/ /\ Mode \in Solana /\ backend = "redis" /\ ~Cancelled
        /\ UNCHANGED <<at, pool>>
     \/ at' = "mark" /\ pool' = p
  /\ UNCHANGED <<backend, life, turn, hand, left, robin, faults, why>>

\* mutant: a pool that is looked at again has its window renewed.
MarkRenews ==
  /\ Alive /\ at = "mark" /\ ~Cancelled
  /\ left' = [left EXCEPT ![Key(pool)] = Window[Mode]]
  /\ IF Seen(Key(pool)) THEN at' = "scan" /\ pool' = None ELSE at' = "gate" /\ UNCHANGED pool
  /\ UNCHANGED <<backend, life, turn, rest, hand, robin, faults, why>>
\* mutant: SET instead of SETNX, everything is fresh.
MarkBlind ==
  /\ Alive /\ at = "mark" /\ ~Cancelled
  /\ left' = [left EXCEPT ![Key(pool)] = Window[Mode]]
  /\ at' = "gate" /\ UNCHANGED pool
  /\ UNCHANGED <<backend, life, turn, rest, hand, robin, faults, why>>
\* MarkIfNewTTL, in one call: SETNX with the mode's window.
Mark ==
  /\ Alive /\ at = "mark" /\ ~Cancelled
  /\ IF Seen(Key(pool)) THEN at' = "scan" /\ pool' = None /\ UNCHANGED left
     ELSE /\ left' = [left EXCEPT ![Key(pool)] = Window[Mode]]
          /\ at' = "gate" /\ UNCHANGED pool
  /\ UNCHANGED <<backend, life, turn, rest, hand, robin, faults, why>>

\* No answer: skipped, also when the mark was set.
MarkFails ==
  /\ Alive /\ at = "mark" /\ CallFails
  /\ at' = "scan" /\ pool' = None
  /\ \/ UNCHANGED <<left, why>>
     \/ /\ ~Seen(Key(pool)) /\ ~Cancelled
        /\ left' = [left EXCEPT ![Key(pool)] = Window[Mode]]
        /\ why' = [why EXCEPT ![Key(pool)] = "lost"]
  /\ UNCHANGED <<backend, life, turn, rest, hand, robin>>

\* Momentum, audit, holders, security: a rejected pool stays marked.
GateRejects ==
  /\ Alive /\ at = "gate"
  /\ at' = "scan" /\ pool' = None /\ Settled({Key(pool)}, "rejected")
  /\ UNCHANGED <<backend, life, turn, rest, hand, left, robin, faults>>
GatePasses ==
  /\ Alive /\ at = "gate"
  /\ at' = "scan" /\ pool' = None /\ hand' = hand \cup {pool}
  /\ UNCHANGED <<backend, life, turn, rest, left, robin, faults, why>>

ScanEnds ==
  /\ Alive /\ at = "scan" /\ rest = {}
  /\ at' = IF hand = {} THEN "next" ELSE "deliver"
  /\ UNCHANGED <<backend, life, turn, rest, pool, hand, left, robin, faults, why>>

\* mutant: the candidate is held back and stays marked.
LoneForgotten ==
  /\ Alive /\ at = "deliver" /\ Mode \in Solana /\ Cardinality(hand) = 1
  /\ at' = "next" /\ hand' = {}
  /\ UNCHANGED <<backend, life, turn, rest, pool, left, robin, faults, why>>
\* A lone candidate below LoneMinScore is held back.
LoneHeldBack ==
  /\ Alive /\ at = "deliver" /\ Mode \in Solana /\ Cardinality(hand) = 1
  /\ at' = "unmark"
  /\ UNCHANGED <<backend, life, turn, rest, pool, hand, left, robin, faults, why>>

--------------------------------------------------------------------------------
(* Delivery. *)

\* The webhook answers below 400, the pipeline exits 0, the batch is written to the log.
Delivered ==
  /\ Alive /\ at = "deliver" /\ Sink[Mode] # "robinhood"
  /\ ~Killed /\ Settled(Batch, "sent") /\ at' = "next" /\ hand' = {}
  /\ UNCHANGED <<backend, life, turn, rest, pool, left, robin, faults>>

\* An error, a timeout, an exit code: the batch did not arrive.
NotDelivered ==
  /\ Alive /\ at = "deliver" /\ Sink[Mode] \in {"pipeline", "webhook"} /\ Cut
  /\ at' = "unmark"
  /\ UNCHANGED <<backend, life, turn, rest, pool, hand, left, robin, why>>

\* It did: the answer came after ten seconds, the pipeline had deployed when it failed.
Unanswered ==
  /\ Alive /\ at = "deliver" /\ Sink[Mode] \in {"pipeline", "webhook"} /\ Cut
  /\ Settled(Batch, "doubt") /\ at' = "unmark"
  /\ UNCHANGED <<backend, life, turn, rest, pool, hand, left, robin>>

\* Unmark, key by key; its error is not looked at.
Unmark(p) ==
  /\ Alive /\ at = "unmark" /\ p \in hand
  /\ hand' = hand \ {p}
  /\ at' = IF hand = {p} THEN "next" ELSE "unmark"
  /\ \/ /\ ~Cancelled /\ left' = [left EXCEPT ![Key(p)] = 0] /\ UNCHANGED <<why, faults>>
     \/ CallFails /\ Settled({Key(p)}, "lost") /\ UNCHANGED left
  /\ UNCHANGED <<backend, life, turn, rest, pool, robin>>

\* mutant: the last mode is followed by one more.
ModeEndsLate ==
  /\ Alive /\ at = "next"
  /\ IF turn <= Len(Order) THEN turn' = turn + 1 /\ at' = "fetch"
     ELSE turn' = 1 /\ at' = "idle"
  /\ UNCHANGED <<backend, life, rest, pool, hand, left, robin, faults, why>>
ModeEnds ==
  /\ Alive /\ at = "next"
  /\ IF turn < Len(Order) THEN turn' = turn + 1 /\ at' = "fetch"
     ELSE turn' = 1 /\ at' = "idle"
  /\ UNCHANGED <<backend, life, rest, pool, hand, left, robin, faults, why>>

\* robinhoodDeploy: whatever comes of the batch, all of it stays marked and counts as sent
\* when its best pool was minted.
RobinLeaves(reason) == Settled(Batch, reason) /\ at' = "next" /\ hand' = {}

\* No candidate is timed well, or the positions cannot be counted.
RobinSkips ==
  /\ Alive /\ at = "deliver" /\ Sink[Mode] = "robinhood" /\ RobinLeaves("declined")
  /\ UNCHANGED <<backend, life, turn, rest, pool, left, robin, faults>>

\* mutant: one position more.
RobinFullLate(n) == n > Cap
RobinFull(n) == n >= Cap

RobinCounts ==
  /\ Alive /\ at = "deliver" /\ Sink[Mode] = "robinhood" /\ life = "up"
  /\ IF RobinFull(open) THEN RobinLeaves("declined")
     ELSE at' = "mint" /\ UNCHANGED <<hand, why>>
  /\ UNCHANGED <<backend, life, turn, rest, pool, left, robin, faults>>

\* Gas, balance or size decline, or the mint fails.
RobinDeclines ==
  /\ Alive /\ at = "mint" /\ RobinLeaves("declined")
  /\ UNCHANGED <<backend, life, turn, rest, pool, left, robin, faults>>

RobinMints ==
  /\ at = "mint" /\ life = "up" /\ open' = open + 1 /\ RobinLeaves("sent")
  /\ UNCHANGED <<backend, life, turn, rest, pool, left, late, outlived, faults>>

\* Its timeout of two minutes, or the context: the transaction may be on its way.
RobinTimesOut ==
  /\ Alive /\ at = "mint" /\ Cut
  /\ late' = late + 1 /\ outlived' = outlived + 1 /\ RobinLeaves("declined")
  /\ UNCHANGED <<backend, life, turn, rest, pool, left, open>>

--------------------------------------------------------------------------------
(* The process and the rest of the system. *)

\* SIGTERM: the poll goes on with a cancelled context, and another may follow.
Stops ==
  /\ life = "up" /\ Fault /\ life' = "stopping"
  /\ UNCHANGED <<backend, place, left, robin, why>>
Exits ==
  /\ life = "stopping" /\ at = "idle" /\ life' = "down"
  /\ UNCHANGED <<backend, place, left, robin, faults, why>>

Crashes ==
  /\ Alive /\ Fault
  /\ Settled(Held, "lost")
  /\ IF at = "mint" THEN late' = late + 1 /\ outlived' = outlived + 1
     ELSE UNCHANGED <<late, outlived>>
  /\ life' = "down" /\ at' = "idle" /\ turn' = 1 /\ rest' = {} /\ pool' = None /\ hand' = {}
  /\ UNCHANGED <<backend, left, open>>

\* The marks in memory are gone.
Starts ==
  /\ life = "down" /\ life' = "up"
  /\ IF backend = "redis" THEN UNCHANGED <<left, why>>
     ELSE left' = [k \in Keys |-> 0] /\ why' = [k \in Keys |-> None]
  /\ UNCHANGED <<backend, place, robin, faults>>

\* Time passes between polls.
Tick ==
  /\ at = "idle" /\ \E k \in Keys : Seen(k)
  /\ left' = [k \in Keys |-> IF Seen(k) THEN left[k] - 1 ELSE 0]
  /\ why' = [k \in Keys |-> IF left[k] = 1 THEN None ELSE why[k]]
  /\ UNCHANGED <<backend, life, place, robin, faults>>

\* clear_signal_seen: a close frees its pool in every Meteora mode, whatever the daemon is at.
Clear(p) ==
  /\ backend = "redis"
  /\ left' = [k \in Keys |-> IF k[1] \in Solana /\ k[2] = p THEN 0 ELSE left[k]]
  /\ why' = [k \in Keys |-> IF k[1] \in Solana /\ k[2] = p THEN None ELSE why[k]]
  /\ UNCHANGED <<backend, life, place, robin, faults>>

RobinCloses ==
  /\ open > 0 /\ open' = open - 1
  /\ UNCHANGED <<backend, life, place, left, late, outlived, faults, why>>
RobinLands ==
  /\ late > 0 /\ late' = late - 1 /\ (open' = open + 1 \/ UNCHANGED open)
  /\ UNCHANGED <<backend, life, place, left, outlived, faults, why>>

Poll == \/ PollBegins \/ \E found \in SUBSET Feed[Mode] : Fetch(found)
        \/ \E p \in Pools : Look(p)
        \/ Mark \/ MarkFails \/ GateRejects \/ GatePasses \/ ScanEnds \/ LoneHeldBack
        \/ Delivered \/ NotDelivered \/ Unanswered \/ \E p \in Pools : Unmark(p)
        \/ ModeEnds
        \/ RobinSkips \/ RobinCounts \/ RobinDeclines \/ RobinMints \/ RobinTimesOut

World == \/ Stops \/ Exits \/ Crashes \/ Starts \/ Tick
         \/ \E p \in Pools : Clear(p)
         \/ RobinCloses \/ RobinLands

Next == Poll \/ World

Spec == Init /\ [][Next]_vars

\* The goroutine goes on, every call it waits for has a timeout; time passes.
FairSpec == Spec /\ WF_vars(Poll) /\ SF_vars(Tick)

--------------------------------------------------------------------------------
(* Properties. *)

Whys == {"sent", "doubt", "rejected", "declined", "lost"}

\* Types, and where a batch or a pool is held.
TypeOK ==
  /\ backend \in Backends /\ life \in {"up", "stopping", "down"}
  /\ at \in {"idle", "fetch", "scan", "mark", "gate", "deliver", "mint", "unmark", "next"}
  /\ turn \in 1 .. Len(Order) /\ rest \subseteq Pools /\ hand \subseteq Pools
  /\ pool \in Pools \cup {None} /\ (pool # None <=> at \in {"mark", "gate"})
  /\ hand # {} => at \in {"scan", "mark", "gate", "deliver", "mint", "unmark"}
  /\ left \in [Keys -> Nat]
  /\ open \in Nat /\ late \in Nat /\ outlived \in Nat
  /\ faults \in 0 .. MaxFaults
  /\ why \in [Keys -> Whys \cup {None}]

Promised(k) == IF k \in Held THEN (IF Seen(k) THEN "held" ELSE "stale")
               ELSE IF Seen(k) THEN "silent" ELSE "free"

Promise == INSTANCE SignalPromise WITH mark <- [k \in Keys |-> Promised(k)]

\* The daemon keeps the promise of the store's comment: no key is signalled twice in one
\* window unless the answer to the first signal was lost, whatever fails, stops, dies, is
\* cleared or expires (store.go 14-16; scanner.go 507-628).
KeepsPromise == Promise!Spec

\* A key that is silent and not in the daemon's hands was signalled, rejected by a gate or
\* declined by the Robinhood deploy, or a fault lost it: a batch held back or undelivered
\* is free again (scanner.go 442-450, 521-529, 600-622).
SilentForAReason == \A k \in Keys : Seen(k) /\ k \notin Held => why[k] \notin {None, "doubt"}

\* Robinhood positions pass their cap only by deploys that outlived their timeout
\* (scanner.go 231-250).
CapHeld == open + late <= Cap + outlived

\* No key is silent for ever, however often its pool is looked at again and whatever the
\* daemon is waiting for (store.go 46-52, deploy.go 45-60).
SilenceEnds == \A k \in Keys : Seen(k) ~> ~Seen(k)
================================================================================
