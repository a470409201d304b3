---------------------------- MODULE PositionTracking ----------------------------
(***************************************************************************)
(* Which position accounts exist, which of them the Portfolio API lists,   *)
(* and which of them Redis tracks.  A deploy pipeline (dlmm_pipeline.py)   *)
(* runs the executor's deploy (dlmm_executor.js) and registers what it     *)
(* answers; monitor passes (dlmm_monitor.py, the "loop" and the "report")  *)
(* adopt, reclaim, drop and close beside it.  The pipeline may be killed   *)
(* at any time (the daemon's timeout), a transaction may land without      *)
(* being confirmed, and the API lags behind the chain.                     *)
(*                                                                         *)
(* A pass is modelled by its slice for one address: the iterations of a    *)
(* pass meet only in Redis and on the chain.                               *)
(***************************************************************************)
EXTENDS FiniteSets, Naturals

CONSTANTS
  Addrs,          \* addresses a fresh keypair may have
  Pool,           \* the pool of each address
  Others,         \* whether positions outside Addrs are tracked all along
  Runs,           \* which monitor processes run: a subset of {"loop", "report"}
  Rpcs,           \* RPC endpoints the executor fails over to
  Chunks,         \* transactions that add the liquidity of a wide deploy
  MaxPositions,   \* the mode's slots
  None

Accounts == {"absent", "empty", "funded"}

\* A transaction that landed may be reported as failed: it was not confirmed in time.
Outcomes == {"confirmed", "lost", "failed"}

\* What a pass finds of its address: the API lists it, lists others, lists nothing, or is
\* down; then the SDK may still find it.
Views == {"funded", "empty", "absent", "nothing", "sdk", "down"}
Gone  == {"absent", "nothing"}

\* An old entry is past the two hours of grace (deployed_at is fixed when written).
Metadata == [orphan : BOOLEAN, old : BOOLEAN]

ASSUME TrackingAssumption ==
  /\ IsFiniteSet(Addrs) /\ Others \in BOOLEAN /\ Runs \subseteq {"loop", "report"}
  /\ Rpcs \in Nat \ {0} /\ Chunks \in Nat \ {0} /\ MaxPositions \in Nat
  /\ None \notin Metadata /\ None \notin Addrs

VARIABLES
  chain,    \* the account of each address
  api,      \* what the Portfolio API says of it: older or equal
  active,   \* sol:dlmm:active_positions
  meta,     \* sol:dlmm:position:<addr>
  ex,       \* the executor's deploy call: step, address, RPCs left, chunks added
  pl,       \* the pipeline: step, address, the API's list it reconciles with
  mon       \* per monitor process: step, address, what it read of it

vars == <<chain, api, active, meta, ex, pl, mon>>

ExIdle  == [step |-> "idle", addr |-> None, tries |-> 0, added |-> 0]
PlIdle  == [step |-> "idle", addr |-> None, listed |-> None]
MonIdle == [step |-> "idle", addr |-> None, tracked |-> FALSE, view |-> "down",
            local |-> None]

Init ==
  /\ chain = [a \in Addrs |-> "absent"] /\ api = chain
  /\ active = {} /\ meta = [a \in Addrs |-> None]
  /\ ex = ExIdle /\ pl = PlIdle /\ mon = [p \in Runs |-> MonIdle]

Listed == {a \in Addrs : api[a] # "absent"}
Exists == {a \in Addrs : chain[a] # "absent"}

\* A keypair nobody has heard of yet.
Fresh(a) == /\ chain[a] = "absent" /\ api[a] = "absent"
            /\ a \notin active /\ meta[a] = None
            /\ ex.addr # a /\ pl.addr # a /\ \A p \in Runs : mon[p].addr # a
            /\ pl.listed # None => a \notin pl.listed

--------------------------------------------------------------------------------
(* deployPosition under runWithFailover. *)

Deploying == ex.step \in {"send", "mint", "add", "clean"}

StartDeploy(a, wide) ==
  ex' = [step |-> IF wide THEN "mint" ELSE "send", addr |-> a, tries |-> Rpcs, added |-> 0]

\* The pipeline gets the answer if it still waits.
Answer(step) ==
  ex' = IF pl.step = "await" THEN [ExIdle EXCEPT !.step = step, !.addr = ex.addr]
        ELSE ExIdle

\* A new keypair: if nothing landed at the address of the last one, nobody knows it either.
Retryable == {b \in Addrs : /\ Fresh(b) \/ (b = ex.addr /\ chain'[b] = "absent")
                           /\ Pool[b] = Pool[ex.addr]}
Retry(b)  == ex' = [ex EXCEPT !.addr = b, !.tries = @ - 1]

\* mutant: the endpoints are never used up.
RetriesForever == \E b \in Retryable : Retry(b)
\* An exception reaches runWithFailover: the next RPC starts again with a new keypair.
\* The call fails after the last one (or, a bound, when no address of the pool is left).
Rethrow == IF ex.tries > 1 /\ Retryable # {} THEN \E b \in Retryable : Retry(b)
           ELSE Answer("failed")

SendNarrow(o) ==
  /\ ex.step = "send"
  /\ chain' = IF o = "failed" THEN chain ELSE [chain EXCEPT ![ex.addr] = "funded"]
  /\ IF o = "confirmed" THEN Answer("success") ELSE Rethrow
  /\ UNCHANGED <<api, active, meta, pl, mon>>

\* minted is set by a confirmed create transaction only.  (There may be several: a later
\* one that fails goes on as a first AddChunk that fails.)
MintWide(o) ==
  /\ ex.step = "mint"
  /\ chain' = IF o = "failed" THEN chain ELSE [chain EXCEPT ![ex.addr] = "empty"]
  /\ IF o = "confirmed" THEN ex' = [ex EXCEPT !.step = "add"] ELSE Rethrow
  /\ UNCHANGED <<api, active, meta, pl, mon>>

AddChunk(o) ==
  /\ ex.step = "add"
  /\ chain[ex.addr] = "absent" => o = "failed"
  /\ chain' = IF o = "failed" THEN chain ELSE [chain EXCEPT ![ex.addr] = "funded"]
  /\ IF o # "confirmed" THEN ex' = [ex EXCEPT !.step = "clean"]
     ELSE IF ex.added + 1 = Chunks THEN Answer("success")
     ELSE ex' = [ex EXCEPT !.added = @ + 1]
  /\ UNCHANGED <<api, active, meta, pl, mon>>

\* Partial liquidity may be withdrawn although the account is not closed.
CleanUp(o) ==
  /\ ex.step = "clean"
  /\ chain[ex.addr] = "absent" => o = "failed"
  /\ \E left \in IF o = "failed" /\ chain[ex.addr] = "funded" THEN {"empty", "funded"}
                 ELSE IF o = "failed" THEN {chain[ex.addr]} ELSE {"absent"} :
       chain' = [chain EXCEPT ![ex.addr] = left]
  /\ Answer(IF o = "confirmed" THEN "failed" ELSE "orphan")
  /\ UNCHANGED <<api, active, meta, pl, mon>>

ExecutorDies == /\ Deploying
                /\ ex' = ExIdle
                /\ UNCHANGED <<chain, api, active, meta, pl, mon>>

--------------------------------------------------------------------------------
(* The pipeline. *)

\* The Portfolio API answers with its list, or not at all.
PipelineStart ==
  /\ pl.step = "idle"
  /\ \E l \in {Listed, None} : pl' = [PlIdle EXCEPT !.step = "reconcile", !.listed = l]
  /\ UNCHANGED <<chain, api, active, meta, ex, mon>>

\* mutant: the two hours of grace are forgotten.
PrunableAtOnce(a) == a \notin pl.listed
\* Absent from the API's list and past the grace; without metadata deployed_at is 0.
Prunable(a) == /\ a \notin pl.listed
               /\ meta[a] # None => meta[a].old

\* reconcile_redis_vs_meteora, then the slots.
PipelineReconcile ==
  /\ pl.step = "reconcile"
  /\ IF pl.listed = None THEN UNCHANGED <<active, meta>>
     ELSE /\ active' = {a \in active : ~Prunable(a)}
          /\ meta' = [a \in Addrs |-> IF Prunable(a) THEN None ELSE meta[a]]
  /\ pl' = IF Cardinality(active') < MaxPositions THEN [PlIdle EXCEPT !.step = "pick"]
           ELSE PlIdle
  /\ UNCHANGED <<chain, api, ex, mon>>

\* Pools with an open position are skipped: those the API lists, or, when it lists
\* nothing or fails, those the SDK finds (it may miss wide ones).  A bound: one deploy
\* call at a time.
PipelinePick(a, wide, seen) ==
  /\ pl.step = "pick" /\ ~Deploying /\ Fresh(a)
  /\ seen = Listed \/ seen \subseteq Exists
  /\ \A b \in seen : Pool[b] # Pool[a]
  /\ StartDeploy(a, wide)
  /\ pl' = [PlIdle EXCEPT !.step = "await"]
  /\ UNCHANGED <<chain, api, active, meta, mon>>

\* A deploy that succeeded is registered metadata first, an orphan address first.
PipelineAnswer ==
  /\ pl.step = "await" /\ ~Deploying
  /\ pl' = IF ex.step = "success" THEN [pl EXCEPT !.step = "set", !.addr = ex.addr]
           ELSE IF ex.step = "orphan" THEN [pl EXCEPT !.step = "orphan", !.addr = ex.addr]
           ELSE PlIdle
  /\ ex' = ExIdle
  /\ UNCHANGED <<chain, api, active, meta, mon>>

Managed == [orphan |-> FALSE, old |-> FALSE]
Orphan  == [orphan |-> TRUE, old |-> FALSE]

PipelineSet ==
  /\ pl.step = "set"
  /\ meta' = [meta EXCEPT ![pl.addr] = Managed]
  /\ pl' = [pl EXCEPT !.step = "add"]
  /\ UNCHANGED <<chain, api, active, ex, mon>>

PipelineAdd ==
  /\ pl.step = "add"
  /\ active' = active \cup {pl.addr} /\ pl' = PlIdle
  /\ UNCHANGED <<chain, api, meta, ex, mon>>

OrphanAdd ==
  /\ pl.step = "orphan"
  /\ active' = active \cup {pl.addr}
  /\ pl' = [pl EXCEPT !.step = "orphan_set"]
  /\ UNCHANGED <<chain, api, meta, ex, mon>>

OrphanSet ==
  /\ pl.step = "orphan_set"
  /\ meta' = [meta EXCEPT ![pl.addr] = Orphan] /\ pl' = PlIdle
  /\ UNCHANGED <<chain, api, active, ex, mon>>

\* The deploy call timed out, or the daemon killed the pipeline; the executor may go on.
PipelineKilled ==
  /\ pl.step # "idle"
  /\ pl' = PlIdle
  /\ ex' = IF Deploying THEN ex ELSE ExIdle
  /\ UNCHANGED <<chain, api, active, meta, mon>>

--------------------------------------------------------------------------------
(* A monitor pass, for one address. *)

Goto(p, label) == mon' = [mon EXCEPT ![p].step = label]
Leave(p)       == mon' = [mon EXCEPT ![p] = MonIdle]
It(p)          == mon[p].addr

\* Without a tracked position the pass ends at once.
PassBegin(p, a) ==
  /\ mon[p].step = "idle" /\ (active # {} \/ Others)
  /\ mon' = [mon EXCEPT ![p] = [MonIdle EXCEPT !.step = "fetch", !.addr = a,
                                               !.tracked = a \in active]]
  /\ UNCHANGED <<chain, api, active, meta, ex, pl>>

\* The API's balance is the pool's: an empty account beside a funded one looks funded.
ApiViews(a) == IF a \in Listed
                 THEN {IF \E b \in Listed : Pool[b] = Pool[a] /\ api[b] = "funded"
                         THEN "funded" ELSE "empty"}
               ELSE (IF Listed # {} \/ Others THEN {"absent"} ELSE {})
                    \cup (IF Listed = {} THEN {"nothing"} ELSE {})

\* mutant: an address with metadata counts as tracked.
UnknownToRedis(p, view) == /\ p = "loop" /\ ~mon[p].tracked /\ meta[It(p)] = None
                           /\ view \in {"empty", "funded"}
Untracked(p, view) == p = "loop" /\ ~mon[p].tracked /\ view \in {"empty", "funded"}

\* The loop reconciles what the API lists against the tracked set read before.
Fetch(p, view) ==
  /\ mon[p].step = "fetch"
  /\ view \in ApiViews(It(p)) \cup {"down"} \cup (IF It(p) \in Exists THEN {"sdk"} ELSE {})
  /\ mon' = [mon EXCEPT ![p].step = IF Untracked(p, view) THEN "reconcile" ELSE "refresh",
                        ![p].view = view]
  /\ UNCHANGED <<chain, api, active, meta, ex, pl>>

AdoptAdd(p) ==
  /\ mon[p].step = "reconcile" /\ mon[p].view = "funded"
  /\ active' = active \cup {It(p)}
  /\ Goto(p, "adopt")
  /\ UNCHANGED <<chain, api, meta, ex, pl>>

AdoptSet(p) ==
  /\ mon[p].step = "adopt"
  /\ meta' = [meta EXCEPT ![It(p)] = Managed]
  /\ Goto(p, "refresh")
  /\ UNCHANGED <<chain, api, active, ex, pl>>

\* The executor's close takes out whatever the account holds by now.
Reclaim(p, o) ==
  /\ mon[p].step = "reconcile" /\ mon[p].view = "empty"
  /\ chain' = IF o = "failed" THEN chain ELSE [chain EXCEPT ![It(p)] = "absent"]
  /\ Goto(p, "refresh")
  /\ UNCHANGED <<api, active, meta, ex, pl>>

\* The tracked set is read again if the API listed anything.
Refresh(p) ==
  /\ mon[p].step = "refresh"
  /\ LET tracked == IF mon[p].view \in {"down", "sdk", "nothing"} THEN mon[p].tracked
                    ELSE It(p) \in active
     IN  mon' = [mon EXCEPT ![p] = IF tracked THEN [@ EXCEPT !.step = "main", !.tracked = TRUE]
                                   ELSE MonIdle]
  /\ UNCHANGED <<chain, api, active, meta, ex, pl>>

IsOrphan(a) == meta[a] # None /\ meta[a].orphan

\* Nothing is done about an orphan.
SkipOrphan(p) ==
  /\ mon[p].step = "main" /\ IsOrphan(It(p))
  /\ Leave(p)
  /\ UNCHANGED <<chain, api, active, meta, ex, pl>>

InLoop(p) == mon[p].step = "main" /\ meta[It(p)] # None /\ ~IsOrphan(It(p))

SeeGhost(p) ==
  /\ mon[p].step = "main" /\ meta[It(p)] = None
  /\ Goto(p, "ghost")
  /\ UNCHANGED <<chain, api, active, meta, ex, pl>>

RemoveGhost(p) ==
  /\ mon[p].step = "ghost"
  /\ active' = active \ {It(p)}
  /\ Leave(p)
  /\ UNCHANGED <<chain, api, meta, ex, pl>>

\* Absent from the API: within the grace, or when the API is down, it is left alone.
LeaveAlone(p) ==
  /\ InLoop(p)
  /\ mon[p].view = "down" \/ (mon[p].view \in Gone /\ ~meta[It(p)].old)
  /\ Leave(p)
  /\ UNCHANGED <<chain, api, active, meta, ex, pl>>

\* mutants: nobody looks at deployed_at; an empty answer counts as no answer.
DropsAtOnce(p) == mon[p].view \in Gone
DropsIfListed(p) == mon[p].view = "absent" /\ meta[It(p)].old
DropsAbsent(p) == mon[p].view \in Gone /\ meta[It(p)].old

CleanUpAbsent(p) ==
  /\ InLoop(p) /\ DropsAbsent(p)
  /\ active' = active \ {It(p)} /\ meta' = [meta EXCEPT ![It(p)] = None]
  /\ Leave(p)
  /\ UNCHANGED <<chain, api, ex, pl>>

\* Listed, or found by the SDK while the API is down: the exit rules look at it with
\* the metadata as it is now (PositionMonitor!Read).
Look(p) ==
  /\ InLoop(p)
  /\ mon[p].view \in {"empty", "funded", "sdk"}
  /\ mon' = [mon EXCEPT ![p] = [MonIdle EXCEPT !.step = "decide", !.addr = It(p),
                                               !.local = meta[It(p)]]]
  /\ UNCHANGED <<chain, api, active, meta, ex, pl>>

\* The metadata read before may be written back, changed; an exit may be raised.
Decide(p, exit, writes) ==
  /\ mon[p].step = "decide"
  /\ meta' = IF writes THEN [meta EXCEPT ![It(p)] = mon[p].local] ELSE meta
  /\ IF exit THEN Goto(p, "closing") ELSE Leave(p)
  /\ UNCHANGED <<chain, api, active, ex, pl>>

Close(p, o) ==
  /\ mon[p].step = "closing"
  /\ It(p) \notin Exists => o = "failed"
  /\ chain' = IF o = "failed" THEN chain ELSE [chain EXCEPT ![It(p)] = "absent"]
  /\ IF o = "confirmed"
       THEN active' = active \ {It(p)} /\ meta' = [meta EXCEPT ![It(p)] = None]
       ELSE UNCHANGED <<active, meta>>
  /\ Leave(p)
  /\ UNCHANGED <<api, ex, pl>>

--------------------------------------------------------------------------------
(* The world. *)

Index(a) == /\ api[a] # chain[a]
            /\ api' = [api EXCEPT ![a] = chain[a]]
            /\ UNCHANGED <<chain, active, meta, ex, pl, mon>>

\* The owner closes a position by hand, outside the bot.
ExternalClose(a) == /\ chain[a] # "absent"
                    /\ chain' = [chain EXCEPT ![a] = "absent"]
                    /\ UNCHANGED <<api, active, meta, ex, pl, mon>>

\* Nothing still uses an answer about a that is older than the API's present one.
Settled(a) == /\ api[a] = chain[a]
              /\ \A p \in Runs : mon[p].addr = a /\ mon[p].view \in Gone
                                   => chain[a] = "absent"
              /\ pl.listed # None => (a \in pl.listed) = (a \in Listed)

\* Two hours go by.  The API's lag and a pass or a reconciliation last far less.
Age(a) ==
  /\ meta[a] # None /\ ~meta[a].old /\ Settled(a)
  /\ meta' = [meta EXCEPT ![a].old = TRUE]
  /\ mon' = [p \in Runs |-> IF mon[p].addr = a /\ mon[p].local # None
                              THEN [mon[p] EXCEPT !.local.old = TRUE] ELSE mon[p]]
  /\ UNCHANGED <<chain, api, active, ex, pl>>

DeployStep == \/ \E o \in Outcomes : SendNarrow(o) \/ MintWide(o) \/ AddChunk(o) \/ CleanUp(o)
              \/ ExecutorDies

PipelineWork == \/ PipelineStart
                \/ PipelineReconcile
                \/ \E a \in Addrs, wide \in BOOLEAN, seen \in SUBSET Addrs :
                     PipelinePick(a, wide, seen)
                \/ PipelineAnswer
                \/ PipelineSet
                \/ PipelineAdd
                \/ OrphanAdd
                \/ OrphanSet

\* A pass that has begun goes on.
PassWork(p) == \/ \E view \in Views : Fetch(p, view)
               \/ AdoptAdd(p) \/ AdoptSet(p) \/ Refresh(p)
               \/ \E o \in Outcomes : Reclaim(p, o) \/ Close(p, o)
               \/ SkipOrphan(p) \/ SeeGhost(p) \/ RemoveGhost(p)
               \/ LeaveAlone(p) \/ CleanUpAbsent(p) \/ Look(p)
               \/ \E exit, writes \in BOOLEAN : Decide(p, exit, writes)

Next == \/ DeployStep
        \/ PipelineWork
        \/ PipelineKilled
        \/ \E p \in Runs : PassWork(p) \/ \E a \in Addrs : PassBegin(p, a)
        \/ \E a \in Addrs : Index(a) \/ ExternalClose(a) \/ Age(a)

Spec == Init /\ [][Next]_vars

\* What the loop script and the services owe: a pass that began goes on, every pass covers
\* every address, the API and the executor's close answer again and again, the API catches
\* up and time passes.  Nothing is assumed of deploys, of the report and of the owner.
Fairness ==
  /\ \A p \in Runs : WF_vars(PassWork(p))
  /\ \A a \in Addrs :
       /\ SF_vars(PassBegin("loop", a))
       /\ SF_vars(It("loop") = a /\ \E view \in ApiViews(a) : Fetch("loop", view))
       /\ SF_vars(It("loop") = a /\ Reclaim("loop", "confirmed"))
       /\ WF_vars(Index(a))
       /\ WF_vars(Age(a))
  /\ WF_vars(PipelineReconcile)

FairSpec == Spec /\ Fairness

--------------------------------------------------------------------------------
(* Properties. *)

DeployCalls == [step : {"idle", "send", "mint", "add", "clean", "success", "orphan", "failed"},
                addr : Addrs \cup {None}, tries : 0 .. Rpcs, added : 0 .. Chunks]
Pipelines   == [step : {"idle", "reconcile", "pick", "await", "set", "add", "orphan",
                        "orphan_set"},
                addr : Addrs \cup {None}, listed : (SUBSET Addrs) \cup {None}]
Passes      == [step : {"idle", "fetch", "reconcile", "adopt", "refresh", "main", "ghost",
                        "decide", "closing"},
                addr : Addrs \cup {None}, tracked : BOOLEAN, view : Views,
                local : Metadata \cup {None}]

\* Types: a deploy never uses more endpoints than there are.
TypeOK ==
  /\ chain \in [Addrs -> Accounts] /\ api \in [Addrs -> Accounts]
  /\ active \subseteq Addrs
  /\ meta \in [Addrs -> Metadata \cup {None}]
  /\ ex \in DeployCalls /\ pl \in Pipelines /\ mon \in [Runs -> Passes]

\* Accounts and metadata live as PositionLife says, whatever the API's lag, a stale list or
\* a stale pass.  No keypair is minted whose address somebody still holds a key of, and the
\* metadata of a position that stays open is never deleted: both clean-ups wait two hours
\* (monitor 948-970, pipeline reconcile 349-392).
Life == INSTANCE PositionLife WITH Positions <- Addrs, open <- Exists,
                                   known <- {a \in Addrs : meta[a] # None}
KeepsLife == Life!Spec

\* A funded position nobody registered (the pipeline was killed after the deploy, a
\* transaction landed unconfirmed, a ghost was removed) is adopted by the loop and stays
\* tracked with metadata, as long as something else is tracked (monitor 888-928).
FundedIsAdopted ==
  \A a \in Addrs : <>[](chain[a] = "funded" /\ (Others \/ active \ {a} # {}))
                     => <>[](a \in active /\ meta[a] # None)

\* A position that is gone is forgotten at last, unless it is an orphan: no write-back of
\* stale metadata and no late adoption keeps it tracked.
GoneIsForgotten ==
  \A a \in Addrs : <>[](chain[a] = "absent") => <>[](a \notin active \/ IsOrphan(a))

(* What the comments say and the code does not do. *)

\* "Register it in Redis so the monitor reconciliation loop reclaims (closes) it next
\* cycle" (pipeline 1543-1546).
OrphanIsReclaimed ==
  \A a \in Addrs : (a \in active /\ IsOrphan(a)) ~> (chain[a] = "absent")

\* "close empty zombies to reclaim rent" (monitor 892).
ReclaimTakesOnlyEmpty ==
  [][\A p \in Runs, o \in Outcomes :
       Reclaim(p, o) => \A a \in Addrs : chain[a] = "funded" => chain'[a] = "funded"]_vars
================================================================================
