-------------------------- MODULE DeployPipelineProofs --------------------------
(***************************************************************************)
(* What DeployPipeline does for any number of runs, pools and addresses,   *)
(* any slots and wallet, and any way of calling it.                        *)
(***************************************************************************)
EXTENDS DeployPipeline, FiniteSetTheorems, TLAPS

Early == {"idle", "reconcile", "slots", "balance", "gather", "filter"}
Later == {"swap", "bought", "gates", "deploy", "set", "add", "count", "guard"}
Buys  == BuysFirst \cup BuysLast

\* What a run has decided, bought and been granted where.
Staged(k) ==
  /\ k.step \in Early => k.swaps = 0 /\ k.pool = None
  /\ k.step \in {"gather", "filter"} => k.amount >= 10 \/ k.source = "analyze"
  /\ k.step \in Later => k.amount >= 10
  /\ k.step = "swap" => k.swaps <= 2
  /\ k.step \in {"swap", "bought"} => k.strategy \in Buys
  /\ k.step = "bought" => k.swaps >= 1
  /\ k.step = "gates" =>
       /\ k.strategy \in BuysFirst <=> k.swaps >= 1
       /\ k.strategy \in BuysFirst => k.base > 0
  /\ k.step = "deploy" =>
       /\ k.strategy \in Buys <=> k.swaps >= 1
       /\ k.strategy \in Buys => k.base > 0

Fits(k) == k \in Tasks /\ Sound(k) /\ Staged(k)

AllStaged == \A r \in Runs : Staged(task[r])

--------------------------------------------------------------------------------
(* What the constants say. *)

LEMMA TokensOfPools == \A p \in Pools : Token[p] \in Tokens
  BY DEF Tokens

LEMMA NoneIsNothing ==
  /\ \A p \in Pools : p # None
  /\ \A a \in Addrs : a # None
  /\ \A m \in Metas : m # None
  /\ \A m \in Modes : m # None
  /\ \A s \in Strategies : s # None
  /\ \A s \in Sources : s # None
  /\ \A k \in Kinds : k # None
  BY DeployAssumption DEF Metas

LEMMA IdleFits == Fits(Idle)
  BY NoneIsNothing DEF Fits, Idle, Tasks, Steps, Sound, Staged, Early, Later, Sources, Modes

\* A task that fits keeps the types of them all.
LEMMA MoveFits ==
  ASSUME TypeOK, AllStaged, NEW r \in Runs, NEW k, Fits(k), task' = [task EXCEPT ![r] = k]
  PROVE  /\ task' \in [Runs -> Tasks]
         /\ \A s \in Runs : Sound(task'[s]) /\ Staged(task'[s])
  BY DEF TypeOK, AllStaged, Fits

LEMMA QuitFits ==
  ASSUME TypeOK, AllStaged, NEW r \in Runs, Quit(r)
  PROVE  /\ task' \in [Runs -> Tasks]
         /\ \A s \in Runs : Sound(task'[s]) /\ Staged(task'[s])
  BY IdleFits, MoveFits DEF Quit

LEMMA GotoFits ==
  ASSUME TypeOK, AllStaged, NEW r \in Runs, NEW step,
         Fits([task[r] EXCEPT !.step = step]), Goto(r, step)
  PROVE  /\ task' \in [Runs -> Tasks]
         /\ \A s \in Runs : Sound(task'[s]) /\ Staged(task'[s])
  <1>1. task' = [task EXCEPT ![r] = [task[r] EXCEPT !.step = step]]
    BY DEF Goto
  <1>2. QED
    BY <1>1, MoveFits

LEMMA MoveStays ==
  ASSUME TypeOK, UNCHANGED move PROVE move' \in Redeploys /\ MoveSound'
  BY DEF TypeOK, MoveSound

\* Where a step leaves off.
LEMMA TypesFrom ==
  ASSUME TypeOK, AllStaged,
         task' \in [Runs -> Tasks], \A s \in Runs : Sound(task'[s]) /\ Staged(task'[s]),
         sol' \in Nat, bag' \in [Tokens -> Nat],
         account' \in [Addrs -> Pools \cup {None}], value' \in [Addrs -> Nat],
         late' \in [Runs -> Late \cup {None}],
         tracked' \subseteq Addrs, meta' \in [Addrs -> Metas \cup {None}],
         size' \in [Addrs -> Nat], move' \in Redeploys, MoveSound',
         barred' \subseteq Tokens, deploys' \in [Pools -> Nat], coolPool' \subseteq Pools,
         bounds' \in [starts : 0 .. MaxStarts, upsets : 0 .. MaxUpsets],
         spoiled' \subseteq Spoils, entries' \in [Pools -> Nat]
  PROVE  TypeOK' /\ AllStaged'
  BY DEF TypeOK, AllStaged

LEMMA FaultTypes ==
  ASSUME TypeOK, NEW kinds \in SUBSET Spoils, Fault(kinds)
  PROVE  /\ bounds' \in [starts : 0 .. MaxStarts, upsets : 0 .. MaxUpsets]
         /\ spoiled' \subseteq Spoils
         /\ spoiled' = spoiled \cup kinds
  BY DeployAssumption DEF TypeOK, Fault

--------------------------------------------------------------------------------
(* Sizes. *)

LEMMA RoundedTypes ==
  ASSUME NEW n \in Nat, NEW m \in Rounded(n) PROVE m \in Nat /\ 100 * m <= n + 50
  BY DEF Rounded

\* The reserve is left, whatever the rounding.
LEMMA SizesKeepReserve ==
  ASSUME NEW w \in Nat, w >= 25, NEW a \in Sizes(w)
  PROVE  a \in Nat /\ a + 20 <= w
  <1>1. Deployable(w) = w - 20 /\ w - 20 \in Nat
    BY DEF Deployable
  <1> DEFINE d == w - 20
  <1>2. 45 * d \in Nat /\ d >= 5
    BY <1>1
  <1>3. CASE 45 * d < 3000
    <2>1. CASE a = 0
      BY <2>1
    <2>2. CASE d >= 10 /\ \E n \in Rounded(45 * d) : a = Larger(10, n)
      <3>1. PICK n \in Rounded(45 * d) : a = Larger(10, n)
        BY <2>2
      <3>2. n \in Nat /\ 100 * n <= 45 * d + 50
        BY <1>2, <3>1, RoundedTypes
      <3>3. QED
        BY <1>2, <2>2, <3>1, <3>2 DEF Larger
    <2>3. QED
      BY <1>1, <1>3, <2>1, <2>2 DEF Sizes
  <1>4. CASE 45 * d >= 3000 /\ 45 * d > 50000
    BY <1>1, <1>4 DEF Sizes
  <1>5. CASE 45 * d >= 3000 /\ ~(45 * d > 50000)
    <2>1. a \in Rounded(45 * d)
      BY <1>1, <1>5 DEF Sizes
    <2>2. a \in Nat /\ 100 * a <= 45 * d + 50
      BY <1>2, <2>1, RoundedTypes
    <2>3. QED
      BY <1>2, <2>2
  <1>6. QED
    BY <1>2, <1>3, <1>4, <1>5

LEMMA HalvesAreLess ==
  ASSUME NEW mode, NEW a \in Nat, NEW b \in ForMode(mode, a)
  PROVE  b \in Nat /\ b <= a
  BY DEF ForMode

\* What the sizing leaves to spend.
LEMMA SizingFits ==
  ASSUME TypeOK, AllStaged, NEW r \in Runs, At(r, "balance"), NEW w \in Nat, Sizing(r, w)
  PROVE  \/ Quit(r)
         \/ \E b \in Nat : /\ b + 20 <= w
                           /\ task' = [task EXCEPT ![r] = [task[r] EXCEPT !.amount = b,
                                                                    !.step = "gather"]]
                           /\ Fits([task[r] EXCEPT !.amount = b, !.step = "gather"])
  <1>0. PICK a \in Sizes(w) : \E b \in ForMode(task[r].mode, a) :
          IF w < 25 \/ (task[r].source # "analyze" /\ ~Affords(w, b)) THEN Quit(r)
          ELSE task' = [task EXCEPT ![r].amount = b, ![r].step = "gather"]
    BY DEF Sizing
  <1>1. PICK b \in ForMode(task[r].mode, a) :
          IF w < 25 \/ (task[r].source # "analyze" /\ ~Affords(w, b)) THEN Quit(r)
          ELSE task' = [task EXCEPT ![r].amount = b, ![r].step = "gather"]
    BY <1>0
  <1>2. CASE w < 25 \/ (task[r].source # "analyze" /\ ~Affords(w, b))
    BY <1>1, <1>2
  <1>3. CASE ~(w < 25 \/ (task[r].source # "analyze" /\ ~Affords(w, b)))
    <2>1. b \in Nat /\ b + 20 <= w
      BY <1>3, SizesKeepReserve, HalvesAreLess
    <2>2. task' = [task EXCEPT ![r] = [task[r] EXCEPT !.amount = b, !.step = "gather"]]
      BY <1>1, <1>3
    <2>3. b >= 10 \/ task[r].source = "analyze"
      BY <1>3 DEF Affords
    <2>4. Fits([task[r] EXCEPT !.amount = b, !.step = "gather"])
      <3> DEFINE n == [task[r] EXCEPT !.amount = b, !.step = "gather"]
      <3>1. task[r] \in Tasks /\ Sound(task[r]) /\ Staged(task[r])
        BY DEF TypeOK, AllStaged
      <3>2. n \in Tasks
        BY <2>1, <3>1 DEF Tasks, Steps
      <3>3. /\ n.step = "gather" /\ n.amount = b /\ n.swaps = 0 /\ n.pool = None
            /\ n.source = task[r].source /\ n.mode = task[r].mode /\ n.addr = task[r].addr
        BY <3>1 DEF At, Tasks, Staged, Early
      <3>4. n.mode # None /\ n.source # None /\ n.addr = None
        BY <3>1, <3>3 DEF At, Sound
      <3> HIDE DEF n
      <3>5. Sound(n)
        BY <3>3, <3>4 DEF Sound
      <3>6. Staged(n)
        BY <2>3, <3>3 DEF Staged, Early, Later
      <3>7. QED
        BY <3>2, <3>5, <3>6 DEF Fits, n
    <2>5. QED
      BY <2>1, <2>2, <2>4
  <1>4. QED
    BY <1>2, <1>3

--------------------------------------------------------------------------------
(* Where a run goes. *)

LEMMA GoesOn ==
  ASSUME NEW k, Fits(k), NEW step,
         \/ k.step = "reconcile" /\ step = "slots"
         \/ k.step = "slots" /\ step = "balance"
         \/ k.step = "gates" /\ step = "swap" /\ k.strategy \in BuysLast
         \/ k.step = "gates" /\ step = "deploy" /\ k.strategy \notin BuysLast
         \/ k.step = "set" /\ step = "add"
         \/ k.step = "add" /\ step = "count"
         \/ k.step = "count" /\ step = "guard"
  PROVE  Fits([k EXCEPT !.step = step])
  <1> DEFINE n == [k EXCEPT !.step = step]
  <1>1. k \in Tasks /\ Sound(k) /\ Staged(k)
    BY DEF Fits
  <1>2. n \in Tasks /\ n.step = step
    BY <1>1 DEF Tasks, Steps
  <1>3. /\ n.mode = k.mode /\ n.source = k.source /\ n.strategy = k.strategy
        /\ n.pool = k.pool /\ n.amount = k.amount /\ n.swaps = k.swaps
        /\ n.base = k.base /\ n.addr = k.addr
    BY <1>1 DEF Tasks
  <1> HIDE DEF n
  <1>4. Sound(n)
    BY <1>1, <1>2, <1>3 DEF Sound
  <1>5. Staged(n)
    <2> USE DEF Staged, Early, Later
    <2>1. CASE k.step = "reconcile" \/ k.step = "slots"
      BY <1>1, <1>2, <1>3, <2>1
    <2>2. CASE k.step = "gates" /\ step = "swap"
      <3>1. k.strategy \in Buys /\ k.strategy \notin BuysFirst
        BY <2>2 DEF Buys, BuysLast
      <3>2. k.swaps \in Nat /\ ~(k.swaps >= 1)
        BY <1>1, <2>2, <3>1 DEF Tasks
      <3>3. QED
        BY <1>1, <1>2, <1>3, <2>2, <3>1, <3>2
    <2>3. CASE k.step = "gates" /\ step = "deploy" /\ k.strategy \notin BuysLast
      <3>1. k.strategy \in Buys <=> k.strategy \in BuysFirst
        BY <2>3 DEF Buys
      <3>2. QED
        BY <1>1, <1>2, <1>3, <2>3, <3>1
    <2>4. CASE k.step \in {"set", "add", "count"}
      BY <1>1, <1>2, <1>3, <2>4
    <2>5. QED
      BY <2>1, <2>2, <2>3, <2>4
  <1>6. QED
    BY <1>2, <1>4, <1>5 DEF Fits, n

LEMMA StartFits ==
  ASSUME NEW call \in Calls, NEW b \in SUBSET Tokens
  PROVE  Fits([Idle EXCEPT !.step = "reconcile", !.mode = call.mode,
                 !.source = call.source, !.strategy = call.strategy, !.barred = b])
  <1> DEFINE n == [Idle EXCEPT !.step = "reconcile", !.mode = call.mode,
                     !.source = call.source, !.strategy = call.strategy, !.barred = b]
  <1>1. call \in [mode : Modes, source : Sources, strategy : Strategies \cup {None}]
    BY DeployAssumption
  <1>2. n \in Tasks
    <2>1. Idle \in Tasks
      BY IdleFits DEF Fits
    <2>2. /\ call.mode \in Modes \cup {None} /\ call.source \in Sources \cup {None}
          /\ call.strategy \in Strategies \cup {None} /\ "reconcile" \in Steps
      BY <1>1 DEF Steps
    <2>3. QED
      BY <2>1, <2>2 DEF Tasks
  <1>3. /\ n.step = "reconcile" /\ n.mode = call.mode /\ n.source = call.source
        /\ n.addr = None /\ n.swaps = 0 /\ n.pool = None
    BY DEF Idle
  <1>4. n.mode # None /\ n.source # None
    BY <1>1, <1>3, NoneIsNothing
  <1> HIDE DEF n
  <1>5. Sound(n) /\ Staged(n)
    BY <1>3, <1>4 DEF Sound, Staged, Early, Later
  <1>6. QED
    BY <1>2, <1>5 DEF Fits, n

LEMMA GatherFits ==
  ASSUME NEW k, Fits(k), k.step = "gather", NEW left \in SUBSET Pools
  PROVE  Fits([k EXCEPT !.cands = left, !.step = "filter"])
  <1> DEFINE n == [k EXCEPT !.cands = left, !.step = "filter"]
  <1>1. k \in Tasks /\ Sound(k) /\ Staged(k)
    BY DEF Fits
  <1>2. n \in Tasks /\ n.step = "filter"
    BY <1>1 DEF Tasks, Steps
  <1>3. /\ n.mode = k.mode /\ n.source = k.source /\ n.pool = k.pool /\ n.amount = k.amount
        /\ n.swaps = k.swaps /\ n.addr = k.addr
    BY <1>1 DEF Tasks
  <1> HIDE DEF n
  <1>4. Sound(n) /\ Staged(n)
    BY <1>1, <1>2, <1>3 DEF Sound, Staged, Early, Later
  <1>5. QED
    BY <1>2, <1>4 DEF Fits, n

LEMMA ResolvedIsStrategy == ASSUME NEW k \in Tasks PROVE Resolved(k) \in Strategies
  BY DeployAssumption DEF Tasks, Resolved, BatchStrategy, Strategies

LEMMA PickFits ==
  ASSUME NEW k, Fits(k), k.step = "filter", k.source # "analyze", NEW p \in Pools,
         NEW step, step = IF Resolved(k) \in BuysFirst THEN "swap" ELSE "gates"
  PROVE  Fits([k EXCEPT !.pool = p, !.cands = {}, !.strategy = Resolved(k), !.step = step])
  <1> DEFINE n == [k EXCEPT !.pool = p, !.cands = {}, !.strategy = Resolved(k), !.step = step]
  <1>1. k \in Tasks /\ Sound(k) /\ Staged(k) /\ Resolved(k) \in Strategies
    BY ResolvedIsStrategy DEF Fits
  <1>2. n \in Tasks /\ n.step = step
    BY <1>1 DEF Tasks, Steps
  <1>3. /\ n.mode = k.mode /\ n.source = k.source /\ n.pool = p /\ n.amount = k.amount
        /\ n.swaps = k.swaps /\ n.addr = k.addr /\ n.strategy = Resolved(k)
    BY <1>1 DEF Tasks
  <1> HIDE DEF n
  <1>4. Sound(n)
    BY <1>1, <1>2, <1>3, NoneIsNothing DEF Sound
  <1>5. Staged(n)
    BY <1>1, <1>2, <1>3 DEF Staged, Early, Later, Buys
  <1>6. QED
    BY <1>2, <1>4, <1>5 DEF Fits, n

LEMMA SwapFits ==
  ASSUME NEW k, Fits(k), k.step = "swap", NEW step,
         step = "bought" \/ (step = "swap" /\ k.swaps < 2)
  PROVE  Fits([k EXCEPT !.swaps = @ + 1, !.step = step])
  <1> DEFINE n == [k EXCEPT !.swaps = @ + 1, !.step = step]
  <1>1. k \in Tasks /\ Sound(k) /\ Staged(k)
    BY DEF Fits
  <1>0. k.swaps \in 0 .. 2 /\ k.swaps + 1 \in 0 .. 3
    BY <1>1 DEF Tasks, Staged
  <1>2. n \in Tasks /\ n.step = step
    BY <1>0, <1>1 DEF Tasks, Steps
  <1>3. /\ n.mode = k.mode /\ n.source = k.source /\ n.pool = k.pool /\ n.amount = k.amount
        /\ n.swaps = k.swaps + 1 /\ n.addr = k.addr /\ n.strategy = k.strategy
    BY <1>1 DEF Tasks
  <1> HIDE DEF n
  <1>4. Sound(n)
    BY <1>1, <1>2, <1>3 DEF Sound
  <1>5. Staged(n)
    BY <1>0, <1>1, <1>2, <1>3 DEF Staged, Early, Later
  <1>6. QED
    BY <1>2, <1>4, <1>5 DEF Fits, n

LEMMA BoughtFits ==
  ASSUME NEW k, Fits(k), k.step = "bought", NEW b \in Nat, b > 0,
         NEW step, step = IF k.strategy \in BuysFirst THEN "gates" ELSE "deploy"
  PROVE  Fits([k EXCEPT !.base = b, !.step = step])
  <1> DEFINE n == [k EXCEPT !.base = b, !.step = step]
  <1>1. k \in Tasks /\ Sound(k) /\ Staged(k)
    BY DEF Fits
  <1>2. n \in Tasks /\ n.step = step
    BY <1>1 DEF Tasks, Steps
  <1>3. /\ n.mode = k.mode /\ n.source = k.source /\ n.pool = k.pool /\ n.amount = k.amount
        /\ n.swaps = k.swaps /\ n.addr = k.addr /\ n.strategy = k.strategy /\ n.base = b
    BY <1>1 DEF Tasks
  <1> HIDE DEF n
  <1>4. Sound(n)
    BY <1>1, <1>2, <1>3 DEF Sound
  <1>5. Staged(n)
    BY <1>1, <1>2, <1>3 DEF Staged, Early, Later, Buys
  <1>6. QED
    BY <1>2, <1>4, <1>5 DEF Fits, n

LEMMA DeployFits ==
  ASSUME NEW k, Fits(k), k.step = "deploy", NEW a \in Addrs
  PROVE  Fits([k EXCEPT !.addr = a, !.step = "set"])
  <1> DEFINE n == [k EXCEPT !.addr = a, !.step = "set"]
  <1>1. k \in Tasks /\ Sound(k) /\ Staged(k)
    BY DEF Fits
  <1>2. n \in Tasks /\ n.step = "set"
    BY <1>1 DEF Tasks, Steps
  <1>3. /\ n.mode = k.mode /\ n.source = k.source /\ n.pool = k.pool /\ n.amount = k.amount
        /\ n.strategy = k.strategy /\ n.addr = a
    BY <1>1 DEF Tasks
  <1> HIDE DEF n
  <1>4. Sound(n)
    BY <1>1, <1>2, <1>3, NoneIsNothing DEF Sound
  <1>5. Staged(n)
    BY <1>1, <1>2, <1>3 DEF Staged, Early, Later
  <1>6. QED
    BY <1>2, <1>4, <1>5 DEF Fits, n

LEMMA LapseFits ==
  ASSUME NEW k, Fits(k), NEW t
  PROVE  Fits([k EXCEPT !.barred = @ \ {t}])
  <1> DEFINE n == [k EXCEPT !.barred = @ \ {t}]
  <1>1. k \in Tasks /\ Sound(k) /\ Staged(k)
    BY DEF Fits
  <1>2. n \in Tasks
    BY <1>1 DEF Tasks
  <1>3. /\ n.step = k.step /\ n.mode = k.mode /\ n.source = k.source /\ n.pool = k.pool
        /\ n.strategy = k.strategy /\ n.amount = k.amount /\ n.swaps = k.swaps
        /\ n.base = k.base /\ n.addr = k.addr
    BY <1>1 DEF Tasks
  <1> HIDE DEF n
  <1>4. Sound(n)
    BY <1>1, <1>3 DEF Sound
  <1>5. Staged(n)
    BY <1>1, <1>3 DEF Staged
  <1>6. QED
    BY <1>2, <1>4, <1>5 DEF Fits, n

--------------------------------------------------------------------------------
(* Types, action by action. *)

LEMMA InitTyped == ASSUME Init PROVE TypeOK /\ AllStaged
  <1>1. \A r \in Runs : task[r] \in Tasks /\ Sound(task[r]) /\ Staged(task[r])
    BY IdleFits DEF Init, Fits
  <1>2. task \in [Runs -> Tasks]
    BY <1>1 DEF Init
  <1>3. bounds \in [starts : 0 .. MaxStarts, upsets : 0 .. MaxUpsets]
    BY DeployAssumption DEF Init
  <1>4. move \in Redeploys /\ MoveSound
    BY NoneIsNothing DEF Init, Rest, Redeploys, MoveSound
  <1>5. QED
    BY <1>1, <1>2, <1>3, <1>4, DeployAssumption DEF Init, TypeOK, AllStaged

LEMMA TaskFits ==
  ASSUME TypeOK, AllStaged, NEW r \in Runs PROVE Fits(task[r])
  BY DEF TypeOK, AllStaged, Fits

\* A run that has a pool has a token.
LEMMA HasPool ==
  ASSUME TypeOK, NEW r \in Runs, task[r].step \in Later
  PROVE  task[r].pool \in Pools /\ TokenOf(r) \in Tokens /\ task[r].strategy \in Strategies
  <1>1. task[r] \in Tasks /\ Sound(task[r])
    BY DEF TypeOK
  <1>2. task[r].pool \in Pools /\ task[r].strategy \in Strategies
    BY <1>1 DEF Tasks, Sound, Later
  <1>3. QED
    BY <1>2, TokensOfPools DEF TokenOf

LEMMA SpentTypes ==
  ASSUME NEW k \in Tasks
  PROVE  /\ SwapSol(k) \in Nat /\ PutSol(k) \in Nat /\ Half(k) \in Nat
         /\ k.strategy \in Buys => SwapSol(k) + PutSol(k) = k.amount
         /\ k.strategy \notin Buys => PutSol(k) = k.amount
         /\ PutSol(k) <= k.amount /\ SwapSol(k) <= k.amount
         /\ k.amount >= 10 /\ k.strategy \notin BuysFirst => PutSol(k) > 0
  <1>1. k.amount \in Nat
    BY DEF Tasks
  <1>2. /\ Half(k) \in Nat /\ Half(k) <= k.amount /\ k.amount - Half(k) \in Nat
        /\ k.amount >= 10 => k.amount - Half(k) > 0
    BY <1>1 DEF Half
  <1>3. /\ k.strategy \in BuysFirst <=> k.strategy = "single_sided_reseed"
        /\ k.strategy \in Buys <=>
             k.strategy = "single_sided_reseed" \/ k.strategy = "balanced_tight"
    BY DEF Buys, BuysFirst, BuysLast
  <1>4. CASE k.strategy = "balanced_tight"
    <2>1. SwapSol(k) = Half(k) /\ PutSol(k) = k.amount - Half(k)
      BY <1>4 DEF SwapSol, PutSol
    <2>2. QED
      BY <1>1, <1>2, <1>3, <1>4, <2>1
  <1>5. CASE k.strategy = "single_sided_reseed"
    <2>1. SwapSol(k) = k.amount /\ PutSol(k) = 0
      BY <1>5 DEF SwapSol, PutSol
    <2>2. QED
      BY <1>1, <1>2, <1>3, <1>5, <2>1
  <1>6. CASE k.strategy # "balanced_tight" /\ k.strategy # "single_sided_reseed"
    <2>1. SwapSol(k) = k.amount /\ PutSol(k) = k.amount
      BY <1>6 DEF SwapSol, PutSol
    <2>2. QED
      BY <1>1, <1>2, <1>3, <1>6, <2>1
  <1>7. QED
    BY <1>4, <1>5, <1>6

LEMMA LandsTypes ==
  ASSUME TypeOK, NEW call, call.pool \in Pools, call.sol \in Nat, call.base \in Nat,
         NEW a \in Addrs, Lands(call, a)
  PROVE  /\ sol' \in Nat /\ bag' \in [Tokens -> Nat]
         /\ account' \in [Addrs -> Pools \cup {None}] /\ value' \in [Addrs -> Nat]
  <1>1. Token[call.pool] \in Tokens
    BY TokensOfPools
  <1>2. sol' \in Nat
    BY DEF Lands, TypeOK
  <1>3. bag' \in [Tokens -> Nat]
    BY <1>1 DEF Lands, TypeOK
  <1>4. account' \in [Addrs -> Pools \cup {None}] /\ value' \in [Addrs -> Nat]
    BY DEF Lands, TypeOK
  <1>5. QED
    BY <1>2, <1>3, <1>4

LEMMA CallTypes ==
  ASSUME TypeOK, NEW r \in Runs, At(r, "deploy")
  PROVE  /\ Call(r) \in Late /\ Call(r).pool = task[r].pool
         /\ Call(r).sol = PutSol(task[r]) /\ Call(r).base = task[r].base
  <1>1. task[r] \in Tasks /\ task[r].pool \in Pools
    BY HasPool DEF TypeOK, At, Later
  <1>2. PutSol(task[r]) \in Nat /\ task[r].base \in Nat
    BY <1>1, SpentTypes DEF Tasks
  <1>3. QED
    BY <1>1, <1>2 DEF Call, Late

LEMMA CountedTypes ==
  ASSUME TypeOK, NEW p \in Pools, Counted(p) PROVE entries' \in [Pools -> Nat]
  BY DEF TypeOK, Counted

Kept == TypeOK' /\ AllStaged'

\* Nothing but tasks, faults and these variables can change a type.
LEMMA KeptTask ==
  ASSUME TypeOK, AllStaged,
         task' \in [Runs -> Tasks], \A s \in Runs : Sound(task'[s]) /\ Staged(task'[s]),
         UNCHANGED <<chain, redis, move, entries>>,
         bounds' \in [starts : 0 .. MaxStarts, upsets : 0 .. MaxUpsets],
         spoiled' \subseteq Spoils
  PROVE  Kept
  BY MoveStays DEF TypeOK, AllStaged, chain, redis, keys, Kept

LEMMA KeptCalm ==
  ASSUME TypeOK, AllStaged,
         task' \in [Runs -> Tasks], \A s \in Runs : Sound(task'[s]) /\ Staged(task'[s]),
         UNCHANGED <<chain, redis, move, past>>
  PROVE  Kept
  BY MoveStays DEF TypeOK, AllStaged, chain, redis, keys, past, Kept

LEMMA StartTyped ==
  ASSUME TypeOK, AllStaged, NEW r \in Runs, NEW call \in Calls, Start(r, call)
  PROVE  Kept
  <1> DEFINE n == [Idle EXCEPT !.step = "reconcile", !.mode = call.mode,
                     !.source = call.source, !.strategy = call.strategy, !.barred = barred]
  <1>1. task' = [task EXCEPT ![r] = n]
    BY DEF Start
  <1>2. Fits(n)
    BY StartFits DEF TypeOK
  <1> HIDE DEF n
  <1>3. /\ task' \in [Runs -> Tasks]
        /\ \A s \in Runs : Sound(task'[s]) /\ Staged(task'[s])
    BY <1>1, <1>2, MoveFits
  <1>4. /\ bounds' \in [starts : 0 .. MaxStarts, upsets : 0 .. MaxUpsets]
        /\ spoiled' \subseteq Spoils
    <2> DEFINE beside == Company(r, call.mode)
               upsets == bounds.upsets + IF beside = {} THEN 0 ELSE 1
    <2>1. /\ bounds.starts < MaxStarts /\ upsets <= MaxUpsets
          /\ bounds' = [starts |-> bounds.starts + 1, upsets |-> upsets]
          /\ spoiled' = spoiled \cup beside
      BY DEF Start
    <2>2. bounds.starts \in Nat /\ upsets \in Nat
      BY DEF TypeOK
    <2>3. beside \subseteq Spoils
      BY DEF Company, Spoils
    <2> HIDE DEF upsets, beside
    <2>4. QED
      BY <2>1, <2>2, <2>3, DeployAssumption DEF TypeOK
  <1>5. UNCHANGED <<chain, redis, move, entries>>
    BY DEF Start
  <1>6. QED
    BY <1>3, <1>4, <1>5, KeptTask

LEMMA ReadsTypes ==
  ASSUME TypeOK, NEW view, NEW gaps \in SUBSET Spoils, Reads(view, gaps)
  PROVE  /\ bounds' \in [starts : 0 .. MaxStarts, upsets : 0 .. MaxUpsets]
         /\ spoiled' \subseteq Spoils
         /\ spoiled \cup gaps \subseteq spoiled'
         /\ spoiled' \subseteq spoiled \cup gaps \cup {"blind"}
         /\ view = OnChain \/ "blind" \in spoiled'
  <1>1. CASE view = OnChain
    BY <1>1 DEF Reads, TypeOK
  <1>2. CASE view # OnChain
    <2>1. gaps \cup {"blind"} \in SUBSET Spoils
      BY DEF Spoils
    <2>2. Fault(gaps \cup {"blind"})
      BY <1>2 DEF Reads
    <2>3. QED
      BY <2>1, <2>2, FaultTypes
  <1>3. QED
    BY <1>1, <1>2

\* What a gap adds to spoiled.
LEMMA GapTypes ==
  /\ \A left : TokenGap(left) \in SUBSET Spoils
  /\ \A mode : GapAt(mode) \in SUBSET Spoils
  /\ Freed \in SUBSET Spoils
  BY DEF TokenGap, GapAt, Freed, Spoils

LEMMA ReadingTyped ==
  ASSUME TypeOK, AllStaged, NEW r \in Runs,
         \/ \E view, young \in SUBSET Addrs : Reconcile(r, view, young)
         \/ Slots(r) \/ SlotsBlind(r) \/ Balance(r) \/ BalanceBlind(r)
         \/ \E found \in SUBSET Pools, view \in SUBSET Addrs : Gather(r, found, view)
  PROVE  Kept
  <1>0. Fits(task[r])
    BY TaskFits
  <1>1. CASE \E view, young \in SUBSET Addrs : Reconcile(r, view, young)
    <2>1. PICK view \in SUBSET Addrs, young \in SUBSET Addrs : Reconcile(r, view, young)
      BY <1>1
    <2>2. Fits([task[r] EXCEPT !.step = "slots"])
      BY <1>0, <2>1, GoesOn DEF Reconcile, At
    <2>3. /\ task' \in [Runs -> Tasks]
          /\ \A s \in Runs : Sound(task'[s]) /\ Staged(task'[s])
      BY <2>1, <2>2, GotoFits DEF Reconcile
    <2>4. /\ bounds' \in [starts : 0 .. MaxStarts, upsets : 0 .. MaxUpsets]
          /\ spoiled' \subseteq Spoils
      BY <2>1, ReadsTypes DEF Reconcile
    <2>5. /\ tracked' \subseteq Addrs /\ meta' \in [Addrs -> Metas \cup {None}]
          /\ size' \in [Addrs -> Nat]
      BY <2>1 DEF Reconcile, TypeOK
    <2>6. UNCHANGED <<chain, barred, deploys, coolPool, move, entries>>
      BY <2>1 DEF Reconcile
    <2>7. QED
      BY <2>3, <2>4, <2>5, <2>6, MoveStays DEF TypeOK, AllStaged, chain, Kept
  <1>2. CASE Slots(r)
    <2>1. Fits([task[r] EXCEPT !.step = "balance"])
      BY <1>0, <1>2, GoesOn DEF Slots, At
    <2>2. /\ task' \in [Runs -> Tasks]
          /\ \A s \in Runs : Sound(task'[s]) /\ Staged(task'[s])
      BY <1>2, <2>1, QuitFits, GotoFits DEF Slots
    <2>3. /\ UNCHANGED <<chain, redis, move, entries>> /\ UNCHANGED bounds
          /\ spoiled' \subseteq Spoils
      BY <1>2 DEF Slots, GapAt, Spoils, TypeOK
    <2>4. bounds' \in [starts : 0 .. MaxStarts, upsets : 0 .. MaxUpsets]
      BY <2>3 DEF TypeOK
    <2>5. QED
      BY <2>2, <2>3, <2>4, KeptTask
  <1>3. CASE SlotsBlind(r)
    <2>1. Fits([task[r] EXCEPT !.step = "balance"])
      BY <1>0, <1>3, GoesOn DEF SlotsBlind, At
    <2>2. /\ bounds' \in [starts : 0 .. MaxStarts, upsets : 0 .. MaxUpsets]
          /\ spoiled' \subseteq Spoils
      BY <1>3, FaultTypes DEF SlotsBlind, Spoils
    <2>3. QED
      BY <1>3, <2>1, <2>2, GotoFits, KeptTask DEF SlotsBlind
  <1>4. CASE Balance(r)
    <2>1. /\ task' \in [Runs -> Tasks]
          /\ \A s \in Runs : Sound(task'[s]) /\ Staged(task'[s])
      <3>1. sol \in Nat
        BY DEF TypeOK
      <3>2. At(r, "balance") /\ Sizing(r, sol)
        BY <1>4 DEF Balance
      <3>3. QED
        BY <3>1, <3>2, SizingFits, QuitFits, MoveFits
    <2>2. /\ UNCHANGED <<chain, redis, move, entries>>
          /\ bounds' \in [starts : 0 .. MaxStarts, upsets : 0 .. MaxUpsets]
          /\ spoiled' \subseteq Spoils
      BY <1>4 DEF Balance, Freed, Spoils, TypeOK
    <2>3. QED
      BY <2>1, <2>2, KeptTask
  <1>5. CASE BalanceBlind(r)
    <2>1. /\ task' \in [Runs -> Tasks]
          /\ \A s \in Runs : Sound(task'[s]) /\ Staged(task'[s])
      <3>1. At(r, "balance") /\ Sizing(r, 1000)
        BY <1>5 DEF BalanceBlind
      <3> DEFINE w == 1000
      <3>2. w \in Nat /\ Sizing(r, w)
        BY <3>1
      <3> HIDE DEF w
      <3>3. QED
        BY <3>1, <3>2, SizingFits, QuitFits, MoveFits
    <2>2. /\ bounds' \in [starts : 0 .. MaxStarts, upsets : 0 .. MaxUpsets]
          /\ spoiled' \subseteq Spoils
      BY <1>5, FaultTypes DEF BalanceBlind, Spoils
    <2>3. QED
      BY <1>5, <2>1, <2>2, KeptTask DEF BalanceBlind
  <1>6. CASE \E found \in SUBSET Pools, view \in SUBSET Addrs : Gather(r, found, view)
    <2>1. PICK found \in SUBSET Pools, view \in SUBSET Addrs : Gather(r, found, view)
      BY <1>6
    <2> DEFINE left == {p \in found : ~Held(p, view)}
    <2>2. left \in SUBSET Pools
      OBVIOUS
    <2>3. \/ Quit(r)
          \/ task' = [task EXCEPT ![r] = [task[r] EXCEPT !.cands = left, !.step = "filter"]]
      BY <2>1 DEF Gather
    <2> HIDE DEF left
    <2>4. Fits([task[r] EXCEPT !.cands = left, !.step = "filter"])
      BY <1>0, <2>1, <2>2, GatherFits DEF Gather, At
    <2>5. /\ task' \in [Runs -> Tasks]
          /\ \A s \in Runs : Sound(task'[s]) /\ Staged(task'[s])
      BY <2>3, <2>4, QuitFits, MoveFits
    <2>6. /\ bounds' \in [starts : 0 .. MaxStarts, upsets : 0 .. MaxUpsets]
          /\ spoiled' \subseteq Spoils
      <3>1. TokenGap(left) \in SUBSET Spoils /\ Reads(view, TokenGap(left))
        BY <2>1, GapTypes DEF Gather, left
      <3>2. QED
        BY <3>1, ReadsTypes
    <2>7. UNCHANGED <<chain, redis, move, entries>>
      BY <2>1 DEF Gather
    <2>8. QED
      BY <2>5, <2>6, <2>7, KeptTask
  <1>7. QED
    BY <1>1, <1>2, <1>3, <1>4, <1>5, <1>6

LEMMA PickTyped ==
  ASSUME TypeOK, AllStaged, NEW r \in Runs,
         PickNone(r) \/ (\E p \in Pools : Pick(r, p)) \/ GatesRefuse(r) \/ GatesPass(r)
  PROVE  Kept
  <1>0. Fits(task[r])
    BY TaskFits
  <1>1. CASE PickNone(r) \/ GatesRefuse(r)
    BY <1>1, QuitFits, KeptCalm DEF PickNone, GatesRefuse
  <1>2. CASE \E p \in Pools : Pick(r, p)
    <2>1. PICK p \in Pools : Pick(r, p)
      BY <1>2
    <2> DEFINE step == IF Resolved(task[r]) \in BuysFirst THEN "swap" ELSE "gates"
               n == [task[r] EXCEPT !.pool = p, !.cands = {}, !.strategy = Resolved(task[r]),
                                    !.step = step]
    <2>2. task' = [task EXCEPT ![r] = n]
      BY <2>1 DEF Pick
    <2>3. Fits(n)
      BY <1>0, <2>1, PickFits DEF Pick, At
    <2> HIDE DEF n
    <2>4. /\ task' \in [Runs -> Tasks]
          /\ \A s \in Runs : Sound(task'[s]) /\ Staged(task'[s])
      BY <2>2, <2>3, MoveFits
    <2>5. /\ bounds' \in [starts : 0 .. MaxStarts, upsets : 0 .. MaxUpsets]
          /\ spoiled' \subseteq Spoils
      <3>1. CASE Refuses(p)
        BY <2>1, <3>1, FaultTypes DEF Pick, Spoils
      <3>2. CASE ~Refuses(p)
        BY <2>1, <3>2 DEF Pick, NoFault, TypeOK
      <3>3. QED
        BY <3>1, <3>2
    <2>6. UNCHANGED <<chain, redis, move, entries>>
      BY <2>1 DEF Pick
    <2>7. QED
      BY <2>4, <2>5, <2>6, KeptTask
  <1>3. CASE GatesPass(r)
    <2> DEFINE step == IF task[r].strategy \in BuysLast THEN "swap" ELSE "deploy"
    <2>1. Fits([task[r] EXCEPT !.step = step])
      BY <1>0, <1>3, GoesOn DEF GatesPass, At
    <2>2. Goto(r, step) /\ UNCHANGED <<chain, redis, move, past>>
      BY <1>3 DEF GatesPass
    <2> HIDE DEF step
    <2>3. QED
      BY <2>1, <2>2, GotoFits, KeptCalm
  <1>4. QED
    BY <1>1, <1>2, <1>3

LEMMA SwappedTypes ==
  ASSUME TypeOK, NEW r \in Runs, At(r, "swap"), Swapped(r)
  PROVE  /\ sol' \in Nat /\ bag' \in [Tokens -> Nat]
         /\ UNCHANGED <<account, value, late>>
  <1>1. task[r] \in Tasks /\ TokenOf(r) \in Tokens
    BY HasPool DEF TypeOK, At, Later
  <1>2. SwapSol(task[r]) \in Nat
    BY <1>1, SpentTypes
  <1>3. QED
    BY <1>1, <1>2 DEF Swapped, TypeOK

LEMMA SwapTyped ==
  ASSUME TypeOK, AllStaged, NEW r \in Runs,
         SwapOk(r) \/ SwapUnseen(r) \/ SwapFails(r) \/ Bought(r) \/ BoughtBlind(r)
  PROVE  Kept
  <1>0. Fits(task[r])
    BY TaskFits
  <1>1. CASE SwapOk(r)
    <2>1. At(r, "swap") /\ Swapped(r) /\ UNCHANGED <<redis, move, bounds, entries>>
      BY <1>1 DEF SwapOk
    <2>2. spoiled' \subseteq Spoils
      BY <1>1 DEF SwapOk, Again, Spoils, TypeOK
    <2> DEFINE n == [task[r] EXCEPT !.swaps = @ + 1, !.step = "bought"]
    <2>3. task' = [task EXCEPT ![r] = n]
      BY <1>1 DEF SwapOk
    <2>4. Fits(n)
      BY <1>0, <2>1, SwapFits DEF At
    <2> HIDE DEF n
    <2>5. /\ task' \in [Runs -> Tasks]
          /\ \A s \in Runs : Sound(task'[s]) /\ Staged(task'[s])
      BY <2>3, <2>4, MoveFits
    <2>6. sol' \in Nat /\ bag' \in [Tokens -> Nat] /\ UNCHANGED <<account, value, late>>
      BY <2>1, SwappedTypes
    <2>7. QED
      BY <2>1, <2>2, <2>5, <2>6, MoveStays DEF TypeOK, AllStaged, redis, keys, Kept
  <1>2. CASE SwapUnseen(r)
    <2>1. At(r, "swap") /\ Swapped(r) /\ UNCHANGED <<redis, move, entries>>
      BY <1>2 DEF SwapUnseen
    <2>2. /\ bounds' \in [starts : 0 .. MaxStarts, upsets : 0 .. MaxUpsets]
          /\ spoiled' \subseteq Spoils
      BY <1>2, FaultTypes DEF SwapUnseen, Again, Spoils
    <2> DEFINE n == [task[r] EXCEPT !.swaps = @ + 1, !.step = "swap"]
    <2>3. \/ task[r].swaps < 2 /\ task' = [task EXCEPT ![r] = n]
          \/ Quit(r)
      <3>1. task[r].step = "swap" /\ task[r] \in Tasks
        BY <1>0, <2>1 DEF At, Fits
      <3>2. [task[r] EXCEPT !.swaps = @ + 1] = n
        BY <3>1 DEF Tasks
      <3>3. QED
        BY <1>2, <3>2 DEF SwapUnseen
    <2>4. task[r].swaps < 2 => Fits(n)
      BY <1>0, <2>1, SwapFits DEF At
    <2> HIDE DEF n
    <2>5. /\ task' \in [Runs -> Tasks]
          /\ \A s \in Runs : Sound(task'[s]) /\ Staged(task'[s])
      BY <2>3, <2>4, MoveFits, QuitFits
    <2>6. sol' \in Nat /\ bag' \in [Tokens -> Nat] /\ UNCHANGED <<account, value, late>>
      BY <2>1, SwappedTypes
    <2>7. QED
      BY <2>1, <2>2, <2>5, <2>6, MoveStays DEF TypeOK, AllStaged, redis, keys, Kept
  <1>3. CASE SwapFails(r) \/ BoughtBlind(r)
    BY <1>3, QuitFits, KeptCalm DEF SwapFails, BoughtBlind
  <1>4. CASE Bought(r)
    <2>1. At(r, "bought") /\ UNCHANGED <<chain, redis, move, past>>
      BY <1>4 DEF Bought
    <2>2. bag[TokenOf(r)] \in Nat
      <3>1. TokenOf(r) \in Tokens
        BY <2>1, HasPool DEF At, Later
      <3>2. QED
        BY <3>1 DEF TypeOK
    <2> DEFINE b == bag[TokenOf(r)]
               step == IF task[r].strategy \in BuysFirst THEN "gates" ELSE "deploy"
               n == [task[r] EXCEPT !.base = b, !.step = step]
    <2>3. Quit(r) \/ (b > 0 /\ task' = [task EXCEPT ![r] = n])
      <3>1. CASE b = 0
        BY <1>4, <3>1 DEF Bought
      <3>2. CASE b # 0
        <4>1. task' = [task EXCEPT ![r].base = b, ![r].step = step]
          BY <1>4, <3>2 DEF Bought
        <4>2. b > 0
          BY <2>2, <3>2
        <4> HIDE DEF b, step
        <4>3. QED
          BY <4>1, <4>2
      <3>3. QED
        BY <3>1, <3>2
    <2>4. b > 0 => Fits(n)
      BY <1>0, <2>1, <2>2, BoughtFits DEF At
    <2> HIDE DEF n, b
    <2>5. QED
      BY <2>1, <2>3, <2>4, MoveFits, QuitFits, KeptCalm
  <1>5. QED
    BY <1>1, <1>2, <1>3, <1>4

LEMMA DeployTyped ==
  ASSUME TypeOK, AllStaged, NEW r \in Runs,
         \/ \E a \in Addrs : DeployOk(r, a) \/ DeployOrphan(r, a)
         \/ DeployFails(r) \/ DeployUnseen(r)
  PROVE  Kept
  <1>0. Fits(task[r])
    BY TaskFits
  <1>1. CASE \E a \in Addrs : DeployOk(r, a)
    <2>1. PICK a \in Addrs : DeployOk(r, a)
      BY <1>1
    <2>2. /\ At(r, "deploy") /\ Lands(Call(r), a) /\ Counted(task[r].pool)
          /\ UNCHANGED <<late, redis, move, bounds, spoiled>>
      BY <2>1 DEF DeployOk
    <2> DEFINE n == [task[r] EXCEPT !.addr = a, !.step = "set"]
    <2>3. task' = [task EXCEPT ![r] = n]
      BY <2>1 DEF DeployOk
    <2>4. Fits(n)
      BY <1>0, <2>2, DeployFits DEF At
    <2> HIDE DEF n
    <2>5. /\ task' \in [Runs -> Tasks]
          /\ \A s \in Runs : Sound(task'[s]) /\ Staged(task'[s])
      BY <2>3, <2>4, MoveFits
    <2>6. /\ sol' \in Nat /\ bag' \in [Tokens -> Nat]
          /\ account' \in [Addrs -> Pools \cup {None}] /\ value' \in [Addrs -> Nat]
      <3>1. Call(r).pool \in Pools /\ Call(r).sol \in Nat /\ Call(r).base \in Nat
        BY <2>2, CallTypes DEF Late
      <3>2. QED
        BY <2>2, <3>1, LandsTypes
    <2>7. entries' \in [Pools -> Nat]
      BY <2>2, HasPool, CountedTypes DEF At, Later
    <2>8. QED
      BY <2>2, <2>5, <2>6, <2>7, MoveStays DEF TypeOK, AllStaged, redis, keys, Kept
  <1>2. CASE \E a \in Addrs : DeployOrphan(r, a)
    <2>1. PICK a \in Addrs : DeployOrphan(r, a)
      BY <1>2
    <2> DEFINE call == [pool |-> task[r].pool, sol |-> 0, base |-> 0]
    <2>2. /\ At(r, "deploy") /\ Lands(call, a) /\ Quit(r)
          /\ tracked' = tracked \cup {a} /\ meta' = [meta EXCEPT ![a] = "orphan"]
          /\ size' = [size EXCEPT ![a] = 0]
          /\ UNCHANGED <<late, barred, deploys, coolPool, move, past>>
      BY <2>1 DEF DeployOrphan
    <2>3. call.pool \in Pools /\ call.sol \in Nat /\ call.base \in Nat
      BY <2>2, HasPool DEF At, Later
    <2>4. /\ sol' \in Nat /\ bag' \in [Tokens -> Nat]
          /\ account' \in [Addrs -> Pools \cup {None}] /\ value' \in [Addrs -> Nat]
      <3> HIDE DEF call
      <3>1. QED
        BY <2>2, <2>3, LandsTypes
    <2>5. /\ task' \in [Runs -> Tasks]
          /\ \A s \in Runs : Sound(task'[s]) /\ Staged(task'[s])
      BY <2>2, QuitFits
    <2>6. /\ tracked' \subseteq Addrs /\ meta' \in [Addrs -> Metas \cup {None}]
          /\ size' \in [Addrs -> Nat]
      BY <2>2 DEF TypeOK, Metas
    <2>7. QED
      BY <2>2, <2>4, <2>5, <2>6, MoveStays DEF TypeOK, AllStaged, past, Kept
  <1>3. CASE DeployFails(r)
    BY <1>3, QuitFits, KeptCalm DEF DeployFails
  <1>4. CASE DeployUnseen(r)
    <2>1. /\ At(r, "deploy") /\ Fault({"cut"}) /\ Quit(r)
          /\ late' = [late EXCEPT ![r] = Call(r)]
          /\ UNCHANGED <<sol, bag, account, value, redis, move, entries>>
      BY <1>4 DEF DeployUnseen
    <2>2. late' \in [Runs -> Late \cup {None}]
      <3>1. Call(r) \in Late
        BY <2>1, CallTypes
      <3>2. QED
        BY <2>1, <3>1 DEF TypeOK
    <2>3. /\ bounds' \in [starts : 0 .. MaxStarts, upsets : 0 .. MaxUpsets]
          /\ spoiled' \subseteq Spoils
      BY <2>1, FaultTypes DEF Spoils
    <2>4. /\ task' \in [Runs -> Tasks]
          /\ \A s \in Runs : Sound(task'[s]) /\ Staged(task'[s])
      BY <2>1, QuitFits
    <2>5. QED
      BY <2>1, <2>2, <2>3, <2>4, MoveStays DEF TypeOK, AllStaged, redis, keys, Kept
  <1>5. QED
    BY <1>1, <1>2, <1>3, <1>4

LEMMA RegisterTyped ==
  ASSUME TypeOK, AllStaged, NEW r \in Runs,
         SetMeta(r) \/ AddTracked(r) \/ Count(r) \/ Guard(r) \/ Killed(r)
  PROVE  Kept
  <1>0. Fits(task[r])
    BY TaskFits
  <1>1. task[r].step \in {"set", "add"} => task[r].addr \in Addrs /\ task[r].mode \in Modes
    BY <1>0 DEF Fits, Tasks, Sound
  <1>2. CASE SetMeta(r)
    <2>1. Fits([task[r] EXCEPT !.step = "add"])
      BY <1>0, <1>2, GoesOn DEF SetMeta, At
    <2>2. /\ task' \in [Runs -> Tasks]
          /\ \A s \in Runs : Sound(task'[s]) /\ Staged(task'[s])
      BY <1>2, <2>1, GotoFits DEF SetMeta
    <2>3. meta' \in [Addrs -> Metas \cup {None}] /\ size' \in [Addrs -> Nat]
      <3>1. task[r].addr \in Addrs /\ task[r].mode \in Modes /\ task[r].amount \in Nat
        BY <1>0, <1>1, <1>2 DEF SetMeta, At, Fits, Tasks
      <3>2. QED
        BY <1>2, <3>1 DEF SetMeta, TypeOK, Metas
    <2>4. QED
      BY <1>2, <2>2, <2>3, MoveStays DEF SetMeta, TypeOK, AllStaged, chain, past, Kept
  <1>3. CASE AddTracked(r)
    <2>1. Fits([task[r] EXCEPT !.step = "count"])
      BY <1>0, <1>3, GoesOn DEF AddTracked, At
    <2>2. /\ task' \in [Runs -> Tasks]
          /\ \A s \in Runs : Sound(task'[s]) /\ Staged(task'[s])
      BY <1>3, <2>1, GotoFits DEF AddTracked
    <2>3. tracked' \subseteq Addrs
      BY <1>1, <1>3 DEF AddTracked, At, TypeOK
    <2>4. QED
      BY <1>3, <2>2, <2>3, MoveStays DEF AddTracked, TypeOK, AllStaged, chain, past, Kept
  <1>4. CASE Count(r)
    <2>1. Fits([task[r] EXCEPT !.step = "guard"])
      BY <1>0, <1>4, GoesOn DEF Count, At
    <2>2. Quit(r) \/ Goto(r, "guard")
      BY <1>4 DEF Count
    <2>3. /\ task' \in [Runs -> Tasks]
          /\ \A s \in Runs : Sound(task'[s]) /\ Staged(task'[s])
      BY <2>1, <2>2, GotoFits, QuitFits
    <2>4. deploys' \in [Pools -> Nat]
      <3>1. task[r].pool \in Pools
        BY <1>4, HasPool DEF Count, At, Later
      <3>2. QED
        BY <1>4, <3>1 DEF Count, TypeOK
    <2>5. QED
      BY <1>4, <2>3, <2>4, MoveStays DEF Count, TypeOK, AllStaged, chain, keys, past, Kept
  <1>5. CASE Guard(r)
    <2>1. task[r].pool \in Pools
      BY <1>5, HasPool DEF Guard, At, Later
    <2>2. /\ task' \in [Runs -> Tasks]
          /\ \A s \in Runs : Sound(task'[s]) /\ Staged(task'[s])
      BY <1>5, QuitFits DEF Guard
    <2>3. QED
      BY <1>5, <2>1, <2>2, MoveStays DEF Guard, TypeOK, AllStaged, chain, keys, past, Kept
  <1>6. CASE Killed(r)
    <2>1. /\ bounds' \in [starts : 0 .. MaxStarts, upsets : 0 .. MaxUpsets]
          /\ spoiled' \subseteq Spoils
      BY <1>6, FaultTypes DEF Killed, Spoils
    <2>2. QED
      BY <1>6, <2>1, QuitFits, KeptTask DEF Killed
  <1>7. QED
    BY <1>2, <1>3, <1>4, <1>5, <1>6

LEMMA WorldTyped ==
  ASSUME TypeOK, AllStaged, World
  PROVE  Kept
  <1> USE DEF TypeOK, AllStaged, Kept
  <1>0. UNCHANGED move /\ move' \in Redeploys /\ MoveSound'
    <2>1. UNCHANGED move
      BY DEF World, Close, Forget, Adopt, Sweep, Bar, Lapse, LapsePool, LateDies, LateLands
    <2>2. QED
      BY <2>1, MoveStays
  <1>1. CASE \E a \in Addrs : Close(a)
    BY <1>0, <1>1 DEF Close, redis, keys, past
  <1>2. CASE \E a \in Addrs : Forget(a)
    BY <1>0, <1>2 DEF Forget, chain, past
  <1>3. CASE \E a \in Addrs : Adopt(a)
    <2>1. PICK a \in Addrs : Adopt(a)
      BY <1>3
    <2>2. meta' \in [Addrs -> Metas \cup {None}] /\ size' \in [Addrs -> Nat]
      BY <2>1 DEF Adopt, Metas
    <2>3. spoiled' \subseteq Spoils
      BY <2>1 DEF Adopt, Spoils
    <2>4. QED
      BY <1>0, <2>1, <2>2, <2>3 DEF Adopt, chain
  <1>4. CASE \E t \in Tokens : Sweep(t)
    BY <1>0, <1>4 DEF Sweep, redis, keys, past
  <1>5. CASE \E t \in Tokens : Bar(t)
    BY <1>0, <1>5 DEF Bar, chain, keys, past
  <1>6. CASE \E t \in Tokens : Lapse(t)
    <2>1. PICK t \in Tokens : Lapse(t)
      BY <1>6
    <2>2. \A s \in Runs : Fits(task'[s])
      BY <2>1, LapseFits DEF Lapse, Fits
    <2>3. task' \in [Runs -> Tasks]
      BY <2>1, <2>2 DEF Lapse, Fits
    <2>4. QED
      BY <1>0, <2>1, <2>2, <2>3 DEF Lapse, Fits, chain, keys, past
  <1>7. CASE \E p \in Pools : LapsePool(p)
    BY <1>0, <1>7 DEF LapsePool, chain, keys
  <1>8. CASE \E r \in Runs : LateDies(r)
    BY <1>0, <1>8 DEF LateDies, redis, keys, past
  <1>9. CASE \E r \in Runs, a \in Addrs : LateLands(r, a)
    <2>1. PICK r \in Runs, a \in Addrs : LateLands(r, a)
      BY <1>9
    <2>2. /\ late[r] \in Late /\ Lands(late[r], a) /\ Counted(late[r].pool)
          /\ late' = [late EXCEPT ![r] = None] /\ UNCHANGED <<redis, task, move, bounds, spoiled>>
      BY <2>1 DEF LateLands
    <2>3. late[r].pool \in Pools /\ late[r].sol \in Nat /\ late[r].base \in Nat
      BY <2>2 DEF Late
    <2>4. /\ sol' \in Nat /\ bag' \in [Tokens -> Nat]
          /\ account' \in [Addrs -> Pools \cup {None}] /\ value' \in [Addrs -> Nat]
      BY <2>2, <2>3, LandsTypes
    <2>5. entries' \in [Pools -> Nat]
      BY <2>2, <2>3, CountedTypes
    <2>6. QED
      BY <1>0, <2>2, <2>4, <2>5 DEF redis, keys
  <1>10. QED
    BY <1>1, <1>2, <1>3, <1>4, <1>5, <1>6, <1>7, <1>8, <1>9 DEF World

\* What a redeploy under way knows.
LEMMA MoveKnows ==
  ASSUME TypeOK, move.step # "idle"
  PROVE  /\ move \in Redeploys /\ move.kind \in Kinds /\ move.pool \in Pools
         /\ move.label \in Metas /\ Token[move.pool] \in Tokens
         /\ move.size \in Nat /\ move.base \in Nat /\ move.got \in Nat
         /\ MoveCall \in Late /\ MoveSol \in Nat /\ MoveCall.pool = move.pool
         /\ MoveCall.sol = MoveSol /\ MoveCall.base = move.base
  <1>1. /\ move \in Redeploys /\ move.kind \in Kinds /\ move.pool \in Pools
        /\ move.label \in Metas
    BY DEF TypeOK, MoveSound
  <1>2. move.size \in Nat /\ move.base \in Nat /\ move.got \in Nat
    BY <1>1 DEF Redeploys
  <1>3. Token[move.pool] \in Tokens
    BY <1>1, TokensOfPools
  <1>4. QED
    BY <1>1, <1>2, <1>3 DEF MoveCall, MoveSol, Late

LEMMA RestTyped == Rest \in Redeploys
  BY DEF Rest, Redeploys

\* A step of a redeploy keeps the tasks.
LEMMA KeptMove ==
  ASSUME TypeOK, AllStaged, UNCHANGED task,
         sol' \in Nat, bag' \in [Tokens -> Nat],
         account' \in [Addrs -> Pools \cup {None}], value' \in [Addrs -> Nat],
         tracked' \subseteq Addrs, meta' \in [Addrs -> Metas \cup {None}],
         size' \in [Addrs -> Nat], move' \in Redeploys, MoveSound',
         barred' \subseteq Tokens, UNCHANGED <<late, deploys, coolPool, entries>>,
         bounds' \in [starts : 0 .. MaxStarts, upsets : 0 .. MaxUpsets],
         spoiled' \subseteq Spoils
  PROVE  Kept
  BY DEF TypeOK, AllStaged, Kept

LEMMA KeptChain ==
  ASSUME TypeOK, UNCHANGED <<sol, bag, account, value>>
  PROVE  /\ sol' \in Nat /\ bag' \in [Tokens -> Nat]
         /\ account' \in [Addrs -> Pools \cup {None}] /\ value' \in [Addrs -> Nat]
  BY DEF TypeOK

LEMMA KeptRedis ==
  ASSUME TypeOK, UNCHANGED keys
  PROVE  /\ tracked' \subseteq Addrs /\ meta' \in [Addrs -> Metas \cup {None}]
         /\ size' \in [Addrs -> Nat]
  BY DEF TypeOK, keys

LEMMA KeptBarred ==
  ASSUME TypeOK, UNCHANGED barred PROVE barred' \subseteq Tokens
  BY DEF TypeOK

LEMMA KeptPast ==
  ASSUME TypeOK, UNCHANGED bounds, spoiled' \subseteq spoiled \cup Spoils
  PROVE  /\ bounds' \in [starts : 0 .. MaxStarts, upsets : 0 .. MaxUpsets]
         /\ spoiled' \subseteq Spoils
  BY DEF TypeOK

LEMMA MoveCloseTyped ==
  ASSUME TypeOK, AllStaged, NEW kind \in Kinds, NEW a \in Addrs, MoveClose(kind, a)
  PROVE  Kept
  <1>1. PICK back \in SolSides(value[a]) :
          /\ sol' = sol + back
          /\ bag' = [bag EXCEPT ![Token[account[a]]] = @ + value[a] - back]
          /\ move' = [step |-> IF kind \in InPlace THEN "deploy" ELSE "drop",
                      kind |-> kind, old |-> a, pool |-> account[a],
                      label |-> IF kind \in {"recenter", "compound"} THEN Relabel(a)
                                ELSE "modeless",
                      size |-> IF kind = "harvest" THEN size[a] \div 2 ELSE size[a],
                      base |-> 0, got |-> back, addr |-> None]
    BY DEF MoveClose
  <1>2. /\ account[a] \in Pools /\ value[a] \in Nat /\ size[a] \in Nat
        /\ Token[account[a]] \in Tokens
    BY TokensOfPools DEF MoveClose, TypeOK
  <1>3. back \in Nat /\ back <= value[a]
    <2>1. PICK share \in Shares : back = (share * value[a]) \div 2
      BY DEF SolSides
    <2>2. share = 0 \/ share = 1 \/ share = 2
      BY DeployAssumption
    <2>3. QED
      BY <1>2, <2>1, <2>2
  <1>4. sol' \in Nat /\ bag' \in [Tokens -> Nat]
    <2>1. \A t \in Tokens : bag[t] \in Nat /\ bag[t] + value[a] - back \in Nat
      BY <1>2, <1>3 DEF TypeOK
    <2>2. QED
      BY <1>1, <1>2, <1>3, <2>1 DEF TypeOK
  <1>5. account' \in [Addrs -> Pools \cup {None}] /\ value' \in [Addrs -> Nat]
    BY DEF MoveClose, TypeOK
  <1>6. move' \in Redeploys
    <2>1. Relabel(a) \in Metas /\ "modeless" \in Metas
      BY DEF Relabel, Metas, Modes
    <2>2. size[a] \div 2 \in Nat
      BY <1>2
    <2>3. QED
      BY <1>1, <1>2, <1>3, <2>1, <2>2 DEF Redeploys
  <1>7. MoveSound'
    <2>1. move'.label \in Metas
      BY <1>1 DEF Relabel, Metas, Modes
    <2>2. QED
      BY <1>1, <1>2, <2>1, NoneIsNothing DEF MoveSound, InPlace
  <1>8. /\ bounds' \in [starts : 0 .. MaxStarts, upsets : 0 .. MaxUpsets]
        /\ spoiled' \subseteq Spoils
    BY FaultTypes DEF MoveClose, Spoils
  <1>9. UNCHANGED <<late, redis, task, entries>>
    BY DEF MoveClose
  <1>10. QED
    BY <1>4, <1>5, <1>6, <1>7, <1>8, <1>9, KeptMove, KeptRedis, KeptBarred DEF redis

LEMMA MoveLandsTyped ==
  ASSUME TypeOK, AllStaged, NEW a \in Addrs, MoveDeploys(a) \/ MoveStrands(a) \/ MoveLateLands(a)
  PROVE  Kept
  <1>1. move.step # "idle"
    BY DEF MoveDeploys, MoveStrands, MoveLateLands, Moves
  <1> DEFINE empty == [pool |-> move.pool, sol |-> 0, base |-> 0]
  <1>2. /\ sol' \in Nat /\ bag' \in [Tokens -> Nat]
        /\ account' \in [Addrs -> Pools \cup {None}] /\ value' \in [Addrs -> Nat]
    <2>1. PICK call : Lands(call, a) /\ (call = MoveCall \/ call = empty)
      BY DEF MoveDeploys, MoveStrands, MoveLateLands
    <2>2. call.pool \in Pools /\ call.sol \in Nat /\ call.base \in Nat
      BY <1>1, <2>1, MoveKnows DEF Late
    <2>3. QED
      BY <2>1, <2>2, LandsTypes
  <1>3. move' \in Redeploys /\ MoveSound'
    <2>1. CASE move' = Rest
      BY <2>1, RestTyped DEF MoveSound, Rest
    <2>2. CASE MoveDeploys(a)
      <3>1. move' = [move EXCEPT !.addr = a, !.got = 0,
                                 !.step = IF move.kind \in InPlace THEN "drop" ELSE "set"]
        BY <2>2 DEF MoveDeploys
      <3>2. /\ move.kind \in InPlace => move.old # None
            /\ move.kind \notin InPlace => move.old = None
        BY <2>2 DEF MoveDeploys, Moves, TypeOK, MoveSound
      <3>3. move' \in Redeploys
        BY <1>1, <3>1, MoveKnows DEF Redeploys
      <3>4. /\ move'.step = IF move.kind \in InPlace THEN "drop" ELSE "set"
            /\ move'.kind = move.kind /\ move'.pool = move.pool /\ move'.label = move.label
            /\ move'.addr = a /\ move'.old = move.old
        BY <1>1, <3>1, MoveKnows DEF Redeploys
      <3>5. QED
        BY <1>1, <3>2, <3>3, <3>4, MoveKnows, NoneIsNothing DEF MoveSound
    <2>3. QED
      BY <2>1, <2>2 DEF MoveStrands, MoveLateLands
  <1>4. /\ UNCHANGED <<late, redis, task, bounds, entries>>
        /\ spoiled' \subseteq spoiled \cup Spoils
    BY DEF MoveDeploys, MoveStrands, MoveLateLands, past, Spoils
  <1>5. QED
    BY <1>2, <1>3, <1>4, KeptMove, KeptRedis, KeptBarred, KeptPast DEF redis

LEMMA MoveRunsTyped ==
  ASSUME TypeOK, AllStaged, MoveSell \/ MoveKeeps \/ MoveLooks \/ MoveFindsNone \/ MoveUnseen
  PROVE  Kept
  <1>1. move.step # "idle"
    BY DEF MoveSell, MoveKeeps, MoveLooks, MoveFindsNone, MoveUnseen, Moves
  <1>2. /\ move \in Redeploys /\ Token[move.pool] \in Tokens /\ bag[Token[move.pool]] \in Nat
        /\ move.got + bag[Token[move.pool]] \in Nat
    BY <1>1, MoveKnows DEF TypeOK
  <1>3. /\ sol' \in Nat /\ bag' \in [Tokens -> Nat]
        /\ account' \in [Addrs -> Pools \cup {None}] /\ value' \in [Addrs -> Nat]
    <2>1. CASE MoveSell
      BY <1>2, <2>1 DEF MoveSell, TypeOK
    <2>2. CASE ~MoveSell
      BY <2>2, KeptChain DEF MoveKeeps, MoveLooks, MoveFindsNone, MoveUnseen, chain
    <2>3. QED
      BY <2>1, <2>2
  <1>4. move' \in Redeploys /\ MoveSound'
    <2>1. CASE move' = Rest
      BY <2>1, RestTyped DEF MoveSound, Rest
    <2>2. CASE MoveSell \/ MoveKeeps \/ MoveLooks
      <3>0. move.step = "sell"
        BY <2>2 DEF MoveSell, MoveKeeps, MoveLooks, Moves
      <3>1. move.kind \notin InPlace /\ move.addr = None /\ move.old = None
        BY <3>0 DEF TypeOK, MoveSound
      <3>2. PICK b, g \in Nat : move' = [move EXCEPT !.base = b, !.got = g, !.step = "deploy"]
        <4>1. move.base \in Nat /\ move.got \in Nat
          BY <1>2 DEF Redeploys
        <4>2. CASE MoveSell
          <5>1. move' = [move EXCEPT !.base = move.base, !.got = @ + bag[Token[move.pool]],
                                     !.step = "deploy"]
            BY <1>2, <4>2 DEF MoveSell, Redeploys
          <5>2. QED
            BY <1>2, <4>1, <5>1 DEF Redeploys
        <4>3. CASE MoveKeeps
          BY <1>2, <4>1, <4>3 DEF MoveKeeps, MovesTo, Redeploys
        <4>4. CASE MoveLooks
          BY <1>2, <4>1, <4>4 DEF MoveLooks
        <4>5. QED
          BY <2>2, <4>2, <4>3, <4>4
      <3>3. /\ move'.step = "deploy" /\ move'.kind = move.kind /\ move'.pool = move.pool
            /\ move'.label = move.label /\ move'.addr = move.addr /\ move'.old = move.old
            /\ move' \in Redeploys
        BY <1>2, <3>2 DEF Redeploys
      <3>4. QED
        BY <1>1, <3>1, <3>2, <3>3, MoveKnows DEF MoveSound
    <2>3. CASE MoveUnseen
      <3>1. move.addr = None
        BY <2>3 DEF MoveUnseen, Moves, TypeOK, MoveSound
      <3>2. move' \in Redeploys
        BY <1>2, <2>3 DEF MoveUnseen, Redeploys
      <3>3. /\ move'.step = "late" /\ move'.kind = move.kind /\ move'.pool = move.pool
            /\ move'.label = move.label /\ move'.addr = move.addr /\ move'.old = None
        BY <1>2, <2>3 DEF MoveUnseen, Redeploys
      <3>4. QED
        BY <1>1, <3>1, <3>2, <3>3, MoveKnows DEF MoveSound
    <2>4. QED
      BY <2>1, <2>2, <2>3 DEF MoveFindsNone
  <1>5. barred' \subseteq Tokens
    BY <1>2 DEF MoveSell, MoveKeeps, MoveLooks, MoveFindsNone, MoveUnseen, Cooled, redis, TypeOK
  <1>6. /\ UNCHANGED <<late, keys, deploys, coolPool, task, bounds, entries>>
        /\ spoiled' \subseteq spoiled \cup Spoils
    BY DEF MoveSell, MoveKeeps, MoveLooks, MoveFindsNone, MoveUnseen, chain, redis, past, Spoils
  <1>7. QED
    BY <1>3, <1>4, <1>5, <1>6, KeptMove, KeptRedis, KeptPast

LEMMA MoveKeysTyped ==
  ASSUME TypeOK, AllStaged, MoveDrop \/ MoveSets \/ MoveAdds
  PROVE  Kept
  <1>1. move.step # "idle"
    BY DEF MoveDrop, MoveSets, MoveAdds, Moves
  <1>2. /\ tracked' \subseteq Addrs /\ meta' \in [Addrs -> Metas \cup {None}]
        /\ size' \in [Addrs -> Nat] /\ barred' \subseteq Tokens
    <2>1. CASE MoveDrop
      BY <1>1, <2>1, MoveKnows DEF MoveDrop, TypeOK
    <2>2. CASE MoveSets
      BY <1>1, <2>2, MoveKnows DEF MoveSets, TypeOK
    <2>3. CASE MoveAdds
      <3>1. move.addr \in Addrs
        BY <2>3 DEF MoveAdds, Moves, TypeOK, MoveSound, Redeploys
      <3>2. QED
        BY <2>3, <3>1 DEF MoveAdds, TypeOK
    <2>4. QED
      BY <2>1, <2>2, <2>3
  <1>3. move' \in Redeploys /\ MoveSound'
    <2>1. CASE move' = Rest
      BY <2>1, RestTyped DEF MoveSound, Rest
    <2>2. CASE MoveDrop
      <3>1. move' = [move EXCEPT !.old = None,
                                 !.step = IF move.addr = None THEN "sell" ELSE "set"]
        BY <2>2 DEF MoveDrop
      <3>2. move.addr # None <=> move.kind \in InPlace
        BY <2>2 DEF MoveDrop, Moves, TypeOK, MoveSound
      <3>3. move' \in Redeploys
        BY <1>1, <3>1, MoveKnows DEF Redeploys
      <3>4. /\ move'.step = IF move.addr = None THEN "sell" ELSE "set"
            /\ move'.kind = move.kind /\ move'.pool = move.pool /\ move'.label = move.label
            /\ move'.addr = move.addr /\ move'.old = None
        BY <1>1, <3>1, MoveKnows DEF Redeploys
      <3>5. QED
        BY <1>1, <3>2, <3>3, <3>4, MoveKnows DEF MoveSound
    <2>3. CASE MoveSets
      <3>1. move.addr # None /\ move.old = None
        BY <2>3 DEF MoveSets, Moves, TypeOK, MoveSound
      <3>2. move' = [move EXCEPT !.step = "add"]
        BY <2>3 DEF MoveSets, MovesTo
      <3>3. move' \in Redeploys
        BY <1>1, <3>2, MoveKnows DEF Redeploys
      <3>4. /\ move'.step = "add" /\ move'.kind = move.kind /\ move'.pool = move.pool
            /\ move'.label = move.label /\ move'.addr = move.addr /\ move'.old = move.old
        BY <1>1, <3>2, MoveKnows DEF Redeploys
      <3>5. QED
        BY <1>1, <3>1, <3>3, <3>4, MoveKnows DEF MoveSound
    <2>4. QED
      BY <2>1, <2>2, <2>3 DEF MoveAdds
  <1>4. UNCHANGED <<chain, deploys, coolPool, task, past>>
    BY DEF MoveDrop, MoveSets, MoveAdds
  <1>5. QED
    BY <1>2, <1>3, <1>4, KeptMove, KeptChain, KeptPast DEF chain, past

LEMMA MoveEndsTyped ==
  ASSUME TypeOK, AllStaged, MoveFails \/ MoveLateDies \/ MoveKilled
  PROVE  Kept
  <1>1. move' = Rest
    BY DEF MoveFails, MoveLateDies, MoveKilled
  <1>2. move' \in Redeploys /\ MoveSound'
    BY <1>1, RestTyped DEF MoveSound, Rest
  <1>3. barred' \subseteq Tokens
    <2>1. CASE MoveFails
      BY <2>1, MoveKnows DEF MoveFails, Moves, Cooled, TypeOK
    <2>2. CASE ~MoveFails
      BY <2>2, KeptBarred DEF MoveLateDies, MoveKilled, redis
    <2>3. QED
      BY <2>1, <2>2
  <1>4. /\ UNCHANGED <<chain, keys, deploys, coolPool, task, bounds, entries>>
        /\ spoiled' \subseteq spoiled \cup Spoils
    BY DEF MoveFails, MoveLateDies, MoveKilled, redis, past, Spoils
  <1>5. QED
    BY <1>2, <1>3, <1>4, KeptMove, KeptChain, KeptRedis, KeptPast DEF chain

LEMMA RedeployTyped == ASSUME TypeOK, AllStaged, Redeploy PROVE Kept
  BY MoveCloseTyped, MoveLandsTyped, MoveRunsTyped, MoveKeysTyped, MoveEndsTyped DEF Redeploy

LEMMA NextTyped == ASSUME TypeOK, AllStaged, [Next]_vars PROVE TypeOK' /\ AllStaged'
  <1>1. CASE UNCHANGED vars
    BY <1>1 DEF vars, chain, redis, keys, past, TypeOK, MoveSound, AllStaged
  <1>2. ASSUME NEW r \in Runs, Step(r) \/ Killed(r) \/ \E call \in Calls : Start(r, call)
        PROVE  Kept
    BY <1>2, StartTyped, ReadingTyped, PickTyped, SwapTyped, DeployTyped, RegisterTyped
       DEF Step
  <1>3. QED
    BY <1>1, <1>2, WorldTyped, RedeployTyped DEF Next, Kept

--------------------------------------------------------------------------------
(* What every step of a run has in common. *)

\* The fields of Idle.
LEMMA IdleFields ==
  /\ Idle.step = "idle" /\ Idle.addr = None /\ Idle.pool = None /\ Idle.barred = {}
  /\ Idle.swaps = 0 /\ Idle.cands = {} /\ Idle.mode = None
  BY DEF Idle

\* It touches its own task only, keeps what it was called with and what it picked, and
\* forgets no fault.
Frame(r) ==
  /\ \A s \in Runs \ {r} : task'[s] = task[s]
  /\ spoiled \subseteq spoiled' /\ barred' = barred
  /\ task[r].step # "idle"
  /\ task'[r].step = "idle" => task'[r] = Idle
  /\ task'[r].step # "idle" =>
       /\ task'[r].mode = task[r].mode /\ task'[r].source = task[r].source
       /\ task'[r].barred = task[r].barred
  /\ task'[r].step \in Later /\ task[r].step \in Later =>
       /\ task'[r].pool = task[r].pool /\ task'[r].strategy = task[r].strategy
       /\ task'[r].amount = task[r].amount
  /\ task'[r].step \in Later /\ task[r].step \notin Later => \E p \in Pools : Pick(r, p)

\* A task that goes on with these fields.
LEMMA MoveFrame ==
  ASSUME TypeOK, NEW r \in Runs, task[r].step # "idle",
         spoiled \subseteq spoiled', barred' = barred,
         NEW k, task' = [task EXCEPT ![r] = k], k.step # "idle",
         k.mode = task[r].mode, k.source = task[r].source, k.barred = task[r].barred,
         k.step \in Later =>
           \/ /\ task[r].step \in Later /\ k.pool = task[r].pool
              /\ k.strategy = task[r].strategy /\ k.amount = task[r].amount
           \/ task[r].step \notin Later /\ \E p \in Pools : Pick(r, p)
  PROVE  Frame(r)
  <1>1. task'[r] = k /\ \A s \in Runs \ {r} : task'[s] = task[s]
    BY DEF TypeOK
  <1>2. QED
    BY <1>1 DEF Frame

LEMMA GotoFrame ==
  ASSUME TypeOK, NEW r \in Runs, task[r].step # "idle",
         spoiled \subseteq spoiled', barred' = barred,
         NEW step \in Steps \ {"idle"}, Goto(r, step),
         step \in Later => task[r].step \in Later
  PROVE  Frame(r)
  <1> DEFINE k == [task[r] EXCEPT !.step = step]
  <1>1. task' = [task EXCEPT ![r] = k]
    BY DEF Goto
  <1>2. task[r] \in Tasks
    BY DEF TypeOK
  <1>3. /\ k.step = step /\ k.mode = task[r].mode /\ k.source = task[r].source
        /\ k.barred = task[r].barred /\ k.pool = task[r].pool
        /\ k.strategy = task[r].strategy /\ k.amount = task[r].amount
    BY <1>2 DEF Tasks
  <1> HIDE DEF k
  <1>4. QED
    BY <1>1, <1>3, MoveFrame

LEMMA QuitFrame ==
  ASSUME TypeOK, NEW r \in Runs, task[r].step # "idle",
         spoiled \subseteq spoiled', barred' = barred, Quit(r)
  PROVE  Frame(r)
  <1>1. task'[r] = Idle /\ \A s \in Runs \ {r} : task'[s] = task[s]
    BY DEF TypeOK, Quit
  <1>2. task'[r].step = "idle" /\ "idle" \notin Later
    BY <1>1, IdleFields DEF Later
  <1>3. QED
    BY <1>1, <1>2 DEF Frame

LEMMA Framed ==
  ASSUME TypeOK, AllStaged, NEW r \in Runs, Step(r) \/ Killed(r)
  PROVE  Frame(r)
  <1>0. task[r] \in Tasks
    BY DEF TypeOK
  <1>1. CASE \E view, young \in SUBSET Addrs : Reconcile(r, view, young)
    <2>1. PICK view \in SUBSET Addrs, young \in SUBSET Addrs : Reconcile(r, view, young)
      BY <1>1
    <2>2. spoiled \subseteq spoiled'
      BY <2>1, ReadsTypes DEF Reconcile
    <2>3. task[r].step = "reconcile" /\ Goto(r, "slots") /\ barred' = barred
      BY <2>1 DEF Reconcile, At
    <2>4. QED
      BY <2>2, <2>3, GotoFrame DEF Steps, Later
  <1>2. CASE \E found \in SUBSET Pools, view \in SUBSET Addrs : Gather(r, found, view)
    <2>1. PICK found \in SUBSET Pools, view \in SUBSET Addrs : Gather(r, found, view)
      BY <1>2
    <2> DEFINE left == {p \in found : ~Held(p, view)}
    <2>2. spoiled \subseteq spoiled' /\ task[r].step = "gather" /\ barred' = barred
      <3>1. TokenGap(left) \in SUBSET Spoils /\ Reads(view, TokenGap(left))
        BY <2>1, GapTypes DEF Gather
      <3>2. QED
        BY <2>1, <3>1, ReadsTypes DEF Gather, At, redis
    <2> DEFINE k == [task[r] EXCEPT !.cands = left, !.step = "filter"]
    <2>3. Quit(r) \/ task' = [task EXCEPT ![r] = k]
      BY <2>1 DEF Gather
    <2> HIDE DEF left
    <2>4. /\ k.step = "filter" /\ k.mode = task[r].mode /\ k.source = task[r].source
          /\ k.barred = task[r].barred
      BY <1>0 DEF Tasks
    <2> HIDE DEF k
    <2>5. QED
      BY <2>2, <2>3, <2>4, QuitFrame, MoveFrame DEF Later
  <1>3. CASE Slots(r) \/ SlotsBlind(r)
    <2>1. task[r].step = "slots" /\ barred' = barred /\ spoiled \subseteq spoiled'
      BY <1>3 DEF Slots, SlotsBlind, At, Fault, redis, keys, past
    <2>2. Quit(r) \/ Goto(r, "balance")
      BY <1>3 DEF Slots, SlotsBlind
    <2>3. QED
      BY <2>1, <2>2, QuitFrame, GotoFrame DEF Steps, Later
  <1>4. CASE Balance(r) \/ BalanceBlind(r)
    <2>1. task[r].step = "balance" /\ barred' = barred /\ spoiled \subseteq spoiled'
      BY <1>4 DEF Balance, BalanceBlind, At, Fault, redis, keys, past
    <2>2. PICK w \in Nat : Sizing(r, w)
      BY <1>4 DEF Balance, BalanceBlind, TypeOK
    <2>3. CASE Quit(r)
      BY <2>1, <2>3, QuitFrame
    <2>4. ASSUME NEW b \in Nat,
                 task' = [task EXCEPT ![r] = [task[r] EXCEPT !.amount = b, !.step = "gather"]]
          PROVE  Frame(r)
      <3> DEFINE k == [task[r] EXCEPT !.amount = b, !.step = "gather"]
      <3>1. /\ k.step = "gather" /\ k.mode = task[r].mode /\ k.source = task[r].source
            /\ k.barred = task[r].barred
        BY <1>0 DEF Tasks
      <3>2. task' = [task EXCEPT ![r] = k]
        BY <2>4
      <3> HIDE DEF k
      <3>3. QED
        BY <2>1, <3>1, <3>2, MoveFrame DEF Later
    <2>5. At(r, "balance")
      BY <1>4 DEF Balance, BalanceBlind
    <2>6. QED
      BY <2>2, <2>3, <2>4, <2>5, SizingFits
  <1>5. CASE PickNone(r) \/ GatesRefuse(r) \/ SwapFails(r) \/ BoughtBlind(r) \/ DeployFails(r)
    <2>1. task[r].step # "idle" /\ barred' = barred /\ spoiled \subseteq spoiled' /\ Quit(r)
      BY <1>5 DEF PickNone, GatesRefuse, SwapFails, BoughtBlind, DeployFails, At, redis, keys, past
    <2>2. QED
      BY <2>1, QuitFrame
  <1>6. CASE \E p \in Pools : Pick(r, p)
    <2>1. PICK p \in Pools : Pick(r, p)
      BY <1>6
    <2> DEFINE step == IF Resolved(task[r]) \in BuysFirst THEN "swap" ELSE "gates"
               k == [task[r] EXCEPT !.pool = p, !.cands = {}, !.strategy = Resolved(task[r]),
                                    !.step = step]
    <2>2. task' = [task EXCEPT ![r] = k]
      BY <2>1 DEF Pick
    <2>3. /\ k.step # "idle" /\ k.mode = task[r].mode /\ k.source = task[r].source
          /\ k.barred = task[r].barred
      BY <1>0 DEF Tasks
    <2>4. task[r].step = "filter" /\ barred' = barred /\ spoiled \subseteq spoiled'
      BY <2>1 DEF Pick, At, redis, keys, NoFault, Fault
    <2> HIDE DEF k
    <2>5. QED
      BY <1>6, <2>2, <2>3, <2>4, MoveFrame DEF Later
  <1>7. CASE GatesPass(r)
    <2>1. task[r].step = "gates" /\ barred' = barred /\ spoiled \subseteq spoiled'
      BY <1>7 DEF GatesPass, At, redis, keys, past
    <2>2. Goto(r, "swap") \/ Goto(r, "deploy")
      BY <1>7 DEF GatesPass
    <2>3. QED
      BY <2>1, <2>2, GotoFrame DEF Steps, Later
  <1>8. CASE SwapOk(r) \/ SwapUnseen(r)
    <2>1. task[r].step = "swap" /\ barred' = barred /\ spoiled \subseteq spoiled'
      BY <1>8 DEF SwapOk, SwapUnseen, At, Fault, redis, keys
    <2>2. ASSUME NEW step \in {"bought", "swap"},
                 task' = [task EXCEPT ![r] = [task[r] EXCEPT !.swaps = @ + 1, !.step = step]]
          PROVE  Frame(r)
      <3> DEFINE k == [task[r] EXCEPT !.swaps = @ + 1, !.step = step]
      <3>1. /\ k.step = step /\ k.mode = task[r].mode /\ k.source = task[r].source
            /\ k.barred = task[r].barred /\ k.pool = task[r].pool
            /\ k.strategy = task[r].strategy /\ k.amount = task[r].amount
        BY <1>0 DEF Tasks
      <3>2. task' = [task EXCEPT ![r] = k]
        BY <2>2
      <3> HIDE DEF k
      <3>3. QED
        BY <2>1, <2>2, <3>1, <3>2, MoveFrame DEF Later
    <2>3. CASE SwapOk(r)
      BY <2>2, <2>3 DEF SwapOk
    <2>4. CASE SwapUnseen(r)
      <3>1. [task[r] EXCEPT !.swaps = @ + 1] =
              [task[r] EXCEPT !.swaps = @ + 1, !.step = "swap"]
        BY <1>0, <2>1 DEF Tasks
      <3>2. Quit(r) \/ task' = [task EXCEPT ![r] = [task[r] EXCEPT !.swaps = @ + 1]]
        BY <2>4 DEF SwapUnseen
      <3>3. QED
        BY <2>1, <2>2, <3>1, <3>2, QuitFrame
    <2>5. QED
      BY <1>8, <2>3, <2>4
  <1>9. CASE Bought(r)
    <2>1. task[r].step = "bought" /\ barred' = barred /\ spoiled \subseteq spoiled'
      BY <1>9 DEF Bought, At, redis, keys, past
    <2> DEFINE b == bag[TokenOf(r)]
               step == IF task[r].strategy \in BuysFirst THEN "gates" ELSE "deploy"
               k == [task[r] EXCEPT !.base = b, !.step = step]
    <2>2. Quit(r) \/ task' = [task EXCEPT ![r] = k]
      <3>1. Quit(r) \/ task' = [task EXCEPT ![r].base = b, ![r].step = step]
        BY <1>9 DEF Bought
      <3> HIDE DEF b, step
      <3>2. QED
        BY <3>1
    <2>3. /\ k.step = step /\ k.mode = task[r].mode /\ k.source = task[r].source
          /\ k.barred = task[r].barred /\ k.pool = task[r].pool
          /\ k.strategy = task[r].strategy /\ k.amount = task[r].amount
      <3> HIDE DEF b, step
      <3>1. QED
        BY <1>0 DEF Tasks
    <2> HIDE DEF k
    <2>4. QED
      BY <2>1, <2>2, <2>3, QuitFrame, MoveFrame DEF Later
  <1>10. CASE \E a \in Addrs : DeployOk(r, a)
    <2>1. PICK a \in Addrs : DeployOk(r, a)
      BY <1>10
    <2> DEFINE k == [task[r] EXCEPT !.addr = a, !.step = "set"]
    <2>2. /\ task' = [task EXCEPT ![r] = k] /\ task[r].step = "deploy"
          /\ barred' = barred /\ spoiled \subseteq spoiled'
      BY <2>1 DEF DeployOk, At, redis, keys
    <2>3. /\ k.step = "set" /\ k.mode = task[r].mode /\ k.source = task[r].source
          /\ k.barred = task[r].barred /\ k.pool = task[r].pool
          /\ k.strategy = task[r].strategy /\ k.amount = task[r].amount
      BY <1>0 DEF Tasks
    <2> HIDE DEF k
    <2>4. QED
      BY <2>2, <2>3, MoveFrame DEF Later
  <1>11. CASE (\E a \in Addrs : DeployOrphan(r, a)) \/ DeployUnseen(r) \/ Guard(r) \/ Killed(r)
    <2>1. task[r].step # "idle" /\ barred' = barred /\ spoiled \subseteq spoiled' /\ Quit(r)
      BY <1>11 DEF DeployOrphan, DeployUnseen, Guard, Killed, Busy, At, Fault, redis, keys, past
    <2>2. QED
      BY <2>1, QuitFrame
  <1>12. CASE SetMeta(r) \/ AddTracked(r) \/ Count(r)
    <2>1. /\ task[r].step \in {"set", "add", "count"}
          /\ barred' = barred /\ spoiled \subseteq spoiled'
      BY <1>12 DEF SetMeta, AddTracked, Count, At, past
    <2>2. Quit(r) \/ Goto(r, "add") \/ Goto(r, "count") \/ Goto(r, "guard")
      BY <1>12 DEF SetMeta, AddTracked, Count
    <2>3. QED
      BY <2>1, <2>2, QuitFrame, GotoFrame DEF Steps, Later
  <1>13. QED
    BY <1>1, <1>2, <1>3, <1>4, <1>5, <1>6, <1>7, <1>8, <1>9, <1>10, <1>11, <1>12 DEF Step

\* Runs and the world leave the redeploy alone, and it leaves them alone.
LEMMA MoveLeft ==
  ASSUME World \/ \E r \in Runs : \/ Step(r) \/ Killed(r)
                                  \/ \E call \in Calls : Start(r, call)
  PROVE  UNCHANGED move
  <1>1. CASE World
    BY <1>1 DEF World, Close, Forget, Adopt, Sweep, Bar, Lapse, LapsePool, LateDies, LateLands
  <1>2. ASSUME NEW r \in Runs, Step(r) \/ Killed(r) PROVE UNCHANGED move
    BY <1>2 DEF Step, Killed, Reconcile, Gather, Slots, SlotsBlind, Balance,
       BalanceBlind, PickNone, Pick, GatesRefuse, GatesPass, SwapOk, SwapUnseen,
       SwapFails, Bought, BoughtBlind, DeployOk, DeployOrphan, DeployFails, DeployUnseen,
       SetMeta, AddTracked, Count, Guard
  <1>3. ASSUME NEW r \in Runs, NEW call \in Calls, Start(r, call) PROVE UNCHANGED move
    BY <1>3 DEF Start
  <1>4. QED
    BY <1>1, <1>2, <1>3

LEMMA RedeployFrame ==
  ASSUME TypeOK, Redeploy
  PROVE  /\ UNCHANGED <<late, task, deploys, coolPool, entries>>
         /\ spoiled \subseteq spoiled' /\ barred \subseteq barred'
  <1>1. ASSUME NEW a \in Addrs, NEW kind \in Kinds, MoveClose(kind, a)
        PROVE  /\ UNCHANGED <<late, task, deploys, coolPool, entries>>
               /\ spoiled \subseteq spoiled' /\ barred \subseteq barred'
    BY <1>1 DEF MoveClose, Fault, redis
  <1>2. ASSUME NEW a \in Addrs, MoveDeploys(a) \/ MoveStrands(a) \/ MoveLateLands(a)
        PROVE  /\ UNCHANGED <<late, task, deploys, coolPool, entries>>
               /\ spoiled \subseteq spoiled' /\ barred \subseteq barred'
    BY <1>2 DEF MoveDeploys, MoveStrands, MoveLateLands, redis, past
  <1>3. CASE MoveDrop \/ MoveSell \/ MoveKeeps \/ MoveLooks \/ MoveFindsNone
    BY <1>3 DEF MoveDrop, MoveSell, MoveKeeps, MoveLooks, MoveFindsNone, chain, redis, past
  <1>4. CASE MoveFails \/ MoveUnseen \/ MoveLateDies \/ MoveSets \/ MoveAdds \/ MoveKilled
    BY <1>4 DEF MoveFails, MoveUnseen, MoveLateDies, MoveSets, MoveAdds, MoveKilled, Cooled,
       chain, redis, past
  <1>5. QED
    BY <1>1, <1>2, <1>3, <1>4 DEF Redeploy

--------------------------------------------------------------------------------
(* Company, late calls and bars. *)

\* What the marks of spoiled stand for.
Alone  == "overlap" \notin spoiled => \A r, s \in Runs : Busy(r) /\ Busy(s) => r = s
Apart  == "twins" \notin spoiled =>
            \A r, s \in Runs : Busy(r) /\ Busy(s) /\ task[r].mode = task[s].mode => r = s
Prompt == "cut" \notin spoiled => move.step # "late" /\ \A r \in Runs : late[r] = None

\* What has been barred all along is barred now, and not picked.
BarsHold ==
  \A r \in Runs :
    /\ task[r].barred \subseteq barred
    /\ "blind" \notin spoiled /\ task[r].step \in Later => TokenOf(r) \notin task[r].barred

Marks == Alone /\ Apart /\ Prompt /\ BarsHold

Base == TypeOK /\ AllStaged /\ Marks

\* A step of the world touches no task but to lift a bar.
LEMMA WorldFrame ==
  ASSUME TypeOK, World
  PROVE  /\ spoiled \subseteq spoiled'
         /\ \A r \in Runs :
              /\ task'[r].step = task[r].step /\ task'[r].mode = task[r].mode
              /\ task'[r].source = task[r].source /\ task'[r].strategy = task[r].strategy
              /\ task'[r].cands = task[r].cands /\ task'[r].pool = task[r].pool
              /\ task'[r].amount = task[r].amount /\ task'[r].swaps = task[r].swaps
              /\ task'[r].base = task[r].base /\ task'[r].addr = task[r].addr
  <1>1. CASE UNCHANGED <<task, spoiled>> \/ (UNCHANGED task /\ spoiled \subseteq spoiled')
    BY <1>1
  <1>2. CASE \E t \in Tokens : Lapse(t)
    <2>1. PICK t \in Tokens : Lapse(t)
      BY <1>2
    <2>2. \A r \in Runs : task[r] \in Tasks /\ task'[r] = [task[r] EXCEPT !.barred = @ \ {t}]
      BY <2>1 DEF Lapse, TypeOK
    <2>3. QED
      BY <2>1, <2>2 DEF Lapse, Tasks, past
  <1>3. QED
    BY <1>1, <1>2 DEF World, Close, Forget, Adopt, Sweep, Bar, LapsePool, LateDies,
       LateLands, past

LEMMA StartTask ==
  ASSUME TypeOK, NEW r \in Runs, NEW call \in Calls, Start(r, call)
  PROVE  /\ task[r].step = "idle" /\ \A s \in Runs \ {r} : task'[s] = task[s]
         /\ task'[r].step = "reconcile" /\ task'[r].mode = call.mode
         /\ task'[r].source = call.source
         /\ task'[r].barred = barred /\ task'[r].addr = None /\ task'[r].pool = None
         /\ task'[r].swaps = 0
         /\ spoiled' = spoiled \cup Company(r, call.mode)
         /\ UNCHANGED <<chain, redis, move, entries>>
  BY DEF Start, At, TypeOK, Idle

LEMMA AloneKept == ASSUME Base, [Next]_vars PROVE Alone'
  <1>1. CASE UNCHANGED vars
    BY <1>1 DEF Base, Marks, Alone, Busy, At, vars, past
  <1>2. CASE World
    BY <1>2, WorldFrame DEF Base, Marks, Alone, Busy, At
  <1>3. ASSUME NEW r \in Runs, NEW call \in Calls, Start(r, call)
        PROVE  Alone'
    <2>1. "overlap" \notin spoiled' => \A s \in Runs \ {r} : ~Busy(s)
      BY <1>3 DEF Start, Company
    <2>2. QED
      BY <1>3, <2>1, StartTask DEF Base, Alone, Busy, At
  <1>4. ASSUME NEW r \in Runs, Step(r) \/ Killed(r)
        PROVE  Alone'
    <2>1. Frame(r)
      BY <1>4, Framed DEF Base
    <2>2. \A s \in Runs : task'[s].step # "idle" => task[s].step # "idle"
      BY <2>1 DEF Frame
    <2>3. QED
      BY <2>1, <2>2 DEF Frame, Base, Marks, Alone, Busy, At
  <1>5. CASE Redeploy
    BY <1>5, RedeployFrame DEF Base, Marks, Alone, Busy, At
  <1>6. QED
    BY <1>1, <1>2, <1>3, <1>4, <1>5 DEF Next

LEMMA ApartKept == ASSUME Base, [Next]_vars PROVE Apart'
  <1>1. CASE UNCHANGED vars
    BY <1>1 DEF Base, Marks, Apart, Busy, At, vars, past
  <1>2. CASE World
    BY <1>2, WorldFrame DEF Base, Marks, Apart, Busy, At
  <1>3. ASSUME NEW r \in Runs, NEW call \in Calls, Start(r, call)
        PROVE  Apart'
    <2>1. "twins" \notin spoiled' =>
            \A s \in Runs \ {r} : Busy(s) => task[s].mode # call.mode
      BY <1>3 DEF Start, Company
    <2>2. QED
      BY <1>3, <2>1, StartTask DEF Base, Marks, Apart, Busy, At
  <1>4. ASSUME NEW r \in Runs, Step(r) \/ Killed(r)
        PROVE  Apart'
    <2>1. Frame(r)
      BY <1>4, Framed DEF Base
    <2>2. \A s \in Runs : task'[s].step # "idle" =>
            task[s].step # "idle" /\ task'[s].mode = task[s].mode
      BY <2>1 DEF Frame
    <2>3. QED
      BY <2>1, <2>2 DEF Frame, Base, Marks, Apart, Busy, At
  <1>5. CASE Redeploy
    BY <1>5, RedeployFrame DEF Base, Marks, Apart, Busy, At
  <1>6. QED
    BY <1>1, <1>2, <1>3, <1>4, <1>5 DEF Next

LEMMA PromptKept == ASSUME Base, [Next]_vars PROVE Prompt'
  <1> USE DEF Base, Marks, Prompt
  <1>1. CASE UNCHANGED vars
    BY <1>1 DEF vars, chain, past
  <1>2. CASE World
    <2>1. \A r \in Runs : late'[r] = late[r] \/ late'[r] = None
      BY <1>2 DEF World, Close, Forget, Adopt, Sweep, Bar, Lapse, LapsePool, LateDies,
         LateLands, chain, TypeOK
    <2>2. QED
      BY <1>2, <2>1, WorldFrame, MoveLeft
  <1>3. ASSUME NEW r \in Runs, NEW call \in Calls, Start(r, call)
        PROVE  Prompt'
    BY <1>3, StartTask, MoveLeft DEF chain
  <1>4. ASSUME NEW r \in Runs, Step(r) \/ Killed(r)
        PROVE  Prompt'
    <2>1. spoiled \subseteq spoiled'
      BY <1>4, Framed DEF Frame
    <2>0. UNCHANGED move
      BY <1>4, MoveLeft
    <2>2. CASE DeployUnseen(r)
      BY <2>2 DEF DeployUnseen, Fault
    <2>3. CASE ~DeployUnseen(r)
      <3>1. UNCHANGED late
        BY <1>4, <2>3 DEF Step, Killed, Reconcile, Gather, Slots, SlotsBlind, Balance,
           BalanceBlind, PickNone, Pick, GatesRefuse, GatesPass, SwapOk, SwapUnseen,
           SwapFails, Swapped, Bought, BoughtBlind, DeployOk, DeployOrphan, DeployFails,
           SetMeta, AddTracked, Count, Guard, chain
      <3>2. QED
        BY <2>0, <2>1, <3>1
    <2>4. QED
      BY <2>2, <2>3
  <1>5. CASE Redeploy
    <2>1. UNCHANGED late /\ spoiled \subseteq spoiled'
      BY <1>5, RedeployFrame
    <2>2. move'.step = "late" => "cut" \in spoiled'
      <3>1. CASE MoveUnseen
        BY <3>1 DEF MoveUnseen
      <3>2. CASE ~MoveUnseen
        <4>0. move \in Redeploys
          BY DEF TypeOK
        <4>1. CASE MoveSell \/ MoveKeeps \/ MoveLooks \/ MoveSets
          BY <4>0, <4>1 DEF MoveSell, MoveKeeps, MoveLooks, MoveSets, MovesTo, Redeploys
        <4>2. CASE \E a \in Addrs, kind \in Kinds : MoveClose(kind, a)
          BY <4>2 DEF MoveClose
        <4>3. CASE MoveDrop \/ \E a \in Addrs : MoveDeploys(a)
          BY <4>0, <4>3 DEF MoveDrop, MoveDeploys, Redeploys
        <4>4. CASE move' = Rest
          BY <4>4 DEF Rest
        <4>5. QED
          BY <1>5, <3>2, <4>1, <4>2, <4>3, <4>4 DEF Redeploy, MoveFindsNone, MoveFails,
             MoveStrands, MoveLateLands, MoveLateDies, MoveAdds, MoveKilled
      <3>3. QED
        BY <3>1, <3>2
    <2>3. QED
      BY <2>1, <2>2
  <1>6. QED
    BY <1>1, <1>2, <1>3, <1>4, <1>5 DEF Next

LEMMA BarsKept == ASSUME Base, [Next]_vars PROVE BarsHold'
  <1> USE DEF BarsHold
  <1>0. BarsHold
    BY DEF Base, Marks
  <1>1. CASE UNCHANGED vars
    BY <1>0, <1>1 DEF vars, redis, keys, past, TokenOf
  <1>2. CASE World
    <2>1. CASE \E t \in Tokens : Lapse(t)
      <3>1. PICK t \in Tokens : Lapse(t)
        BY <2>1
      <3>2. \A r \in Runs : task'[r].barred = task[r].barred \ {t}
        BY <3>1 DEF Lapse, Base, TypeOK, Tasks
      <3>3. QED
        BY <1>0, <1>2, <3>1, <3>2, WorldFrame DEF Lapse, Base, TokenOf
    <2>2. CASE ~\E t \in Tokens : Lapse(t)
      <3>1. UNCHANGED task /\ barred \subseteq barred'
        BY <1>2, <2>2 DEF World, Close, Forget, Adopt, Sweep, Bar, LapsePool, LateDies,
           LateLands, redis
      <3>2. QED
        BY <1>0, <1>2, <3>1, WorldFrame DEF Base, TokenOf
    <2>3. QED
      BY <2>1, <2>2
  <1>3. ASSUME NEW r \in Runs, NEW call \in Calls, Start(r, call)
        PROVE  BarsHold'
    <2>1. "reconcile" \notin Later
      BY DEF Later
    <2>2. spoiled \subseteq spoiled' /\ barred' = barred
      BY <1>3, StartTask DEF Base, redis, keys
    <2>3. QED
      BY <1>0, <1>3, <2>1, <2>2, StartTask DEF Base, TokenOf
  <1>4. ASSUME NEW r \in Runs, Step(r) \/ Killed(r)
        PROVE  BarsHold'
    <2>1. Frame(r)
      BY <1>4, Framed DEF Base
    <2>2. task'[r].barred \subseteq task[r].barred
      BY <2>1, IdleFields DEF Frame
    <2>3. ASSUME "blind" \notin spoiled', task'[r].step \in Later
          PROVE  TokenOf(r)' \notin task'[r].barred
      <3>1. CASE task[r].step \in Later
        BY <1>0, <2>1, <2>2, <2>3, <3>1 DEF Frame, TokenOf, Later
      <3>2. CASE task[r].step \notin Later
        <4>1. PICK p \in Pools : Pick(r, p)
          BY <2>1, <2>3, <3>2 DEF Frame
        <4>2. ~Refuses(p)
          BY <2>3, <4>1 DEF Pick, Fault
        <4>3. task'[r].pool = p
          BY <4>1 DEF Pick, Base, TypeOK, Tasks
        <4>4. QED
          BY <1>0, <2>2, <4>2, <4>3 DEF Refuses, TokenOf
      <3>3. QED
        BY <3>1, <3>2
    <2>4. QED
      BY <1>0, <2>1, <2>2, <2>3 DEF Frame, TokenOf
  <1>5. CASE Redeploy
    BY <1>0, <1>5, RedeployFrame DEF Base, TokenOf
  <1>6. QED
    BY <1>1, <1>2, <1>3, <1>4, <1>5 DEF Next

LEMMA BaseInit == ASSUME Init PROVE Base
  <1>1. \A r \in Runs : ~Busy(r) /\ task[r].barred = {} /\ task[r].step \notin Later
    BY DEF Init, Busy, At, Idle, Later
  <1>2. QED
    BY <1>1, InitTyped DEF Init, Rest, Base, Marks, Alone, Apart, Prompt, BarsHold

LEMMA BaseNext == ASSUME Base, [Next]_vars PROVE Base'
  <1>1. TypeOK' /\ AllStaged'
    BY NextTyped DEF Base
  <1>2. QED
    BY <1>1, AloneKept, ApartKept, PromptKept, BarsKept DEF Base, Marks

\* The invariant every other proof here starts from: types, what the step a run stands at
\* says of it, and what the marks in spoiled exclude (pipeline main, 838-1624).
THEOREM BaseHolds == Spec => []Base
  BY BaseInit, BaseNext, PTL DEF Spec

\* Every variable keeps its type, and a run knows at each step what the step needs.
THEOREM TypesHold == Spec => []TypeOK
  <1>1. Base => TypeOK
    BY DEF Base
  <1>2. QED
    BY <1>1, BaseHolds, PTL

\* No gate that aborts a balanced_tight deploy leaves tokens in the wallet
\* (pipeline 1422-1424, 1511-1513).
THEOREM GatesLeaveNoBag == Spec => GateLeavesNoBag
  <1>1. ASSUME Base, NEW r \in Runs, GatesRefuse(r), task[r].strategy = "balanced_tight"
        PROVE  task[r].swaps = 0
    <2>1. task[r] \in Tasks /\ Staged(task[r]) /\ task[r].step = "gates"
      BY <1>1 DEF Base, TypeOK, AllStaged, GatesRefuse, At
    <2>2. task[r].strategy \notin BuysFirst
      BY <1>1 DEF BuysFirst
    <2>3. task[r].swaps \in 0 .. 3 /\ ~(task[r].swaps >= 1)
      BY <2>1, <2>2 DEF Staged, Tasks
    <2>4. QED
      BY <2>3
  <1>2. Base /\ [Next]_vars =>
          [\A r \in Runs : GatesRefuse(r) /\ task[r].strategy = "balanced_tight" =>
             task[r].swaps = 0]_vars
    BY <1>1
  <1>3. QED
    BY <1>2, BaseHolds, PTL DEF Spec, GateLeavesNoBag

\* What was cooled down or blocked before a run began, and still is, that run does not
\* deploy, unless Redis did not answer it (pipeline 1091-1124).
THEOREM BarredStayOut == Spec => BarredStaysOut
  <1>1. ASSUME Base, NEW r \in Runs, NEW a \in Addrs, DeployOk(r, a), Without({"blind"})
        PROVE  TokenOf(r) \notin task[r].barred
    BY <1>1 DEF Base, Marks, BarsHold, DeployOk, At, Later, Without
  <1>2. Base /\ [Next]_vars =>
          [\A r \in Runs, a \in Addrs : DeployOk(r, a) /\ Without({"blind"}) =>
             TokenOf(r) \notin task[r].barred]_vars
    BY <1>1
  <1>3. QED
    BY <1>2, BaseHolds, PTL DEF Spec, BarredStaysOut

LEMMA LadderSides ==
  ASSUME NEW p
  PROVE  /\ p \in SolIsX => Ladder(p, TRUE).above = TRUE /\ Ladder(p, FALSE).below = TRUE
         /\ p \notin SolIsX => Ladder(p, TRUE).below = TRUE /\ Ladder(p, FALSE).above = TRUE
  <1>1. CASE p \in SolIsX
    <2>1. (p \in SolIsX) = TRUE
      BY <1>1
    <2>2. QED
      BY <1>1, <2>1, Zenon DEF Ladder
  <1>2. CASE p \notin SolIsX
    <2>1. (p \in SolIsX) = FALSE
      BY <1>2
    <2>2. QED
      BY <1>2, <2>1, Zenon DEF Ladder
  <1>3. QED
    BY <1>1, <1>2

\* Every deploy has bins on a side it fills, plain spot where SOL is token X excepted, and a
\* two-sided one fills both (pipeline 1357-1463, 1513-1531).
THEOREM LandsOnSide == Spec => []LandsOnItsSide
  <1>1. ASSUME Base, NEW r \in Runs, At(r, "deploy")
        PROVE  LET k == task[r] IN
                 /\ Filled(k) \/ (k.strategy = "spot" /\ k.pool \in SolIsX)
                 /\ k.strategy = "balanced_tight" => PutsX(k) /\ PutsY(k)
    <2> DEFINE k == task[r]
    <2>1. /\ k \in Tasks /\ Staged(k) /\ k.step = "deploy" /\ k.amount >= 10
          /\ k.strategy \in Strategies
      BY <1>1, HasPool DEF Base, TypeOK, AllStaged, At, Later, Staged
    <2>2. k.strategy \notin BuysFirst => PutSol(k) > 0
      BY <2>1, SpentTypes
    <2>3. k.strategy \in Buys => k.base > 0
      BY <2>1 DEF Staged
    <2>4. /\ k.strategy \in BuysFirst <=> k.strategy = "single_sided_reseed"
          /\ k.strategy \in Buys <=>
               k.strategy = "single_sided_reseed" \/ k.strategy = "balanced_tight"
      BY DEF Buys, BuysFirst, BuysLast
    <2> HIDE DEF k
    <2>5. k.strategy = "balanced_tight" => PutsX(k) /\ PutsY(k)
      BY <2>2, <2>3, <2>4 DEF PutsX, PutsY
    <2>6. Filled(k) \/ (k.strategy = "spot" /\ k.pool \in SolIsX)
      <3>1. CASE k.strategy = "single_sided_reseed"
        <4>1. k.base > 0
          BY <2>3, <2>4, <3>1
        <4>2. Plan(k) = Ladder(k.pool, FALSE)
          BY <3>1 DEF Plan
        <4>3. CASE k.pool \in SolIsX
          BY <4>1, <4>2, <4>3, LadderSides DEF Filled, PutsX, PutsY
        <4>4. CASE k.pool \notin SolIsX
          BY <4>1, <4>2, <4>4, LadderSides DEF Filled, PutsX, PutsY
        <4>5. QED
          BY <4>3, <4>4
      <3>2. CASE k.strategy = "sol_bidask"
        <4>1. PutSol(k) > 0
          BY <2>2, <2>4, <3>2
        <4>2. Plan(k) = Ladder(k.pool, TRUE)
          BY <3>2 DEF Plan
        <4>3. CASE k.pool \in SolIsX
          BY <4>1, <4>2, <4>3, LadderSides DEF Filled, PutsX, PutsY
        <4>4. CASE k.pool \notin SolIsX
          BY <4>1, <4>2, <4>4, LadderSides DEF Filled, PutsX, PutsY
        <4>5. QED
          BY <4>3, <4>4
      <3>3. CASE k.strategy = "spot"
        BY <2>2, <2>4, <3>3 DEF Filled, PutsX, PutsY, Plan
      <3>4. CASE k.strategy \notin {"single_sided_reseed", "sol_bidask", "spot"}
        <4>1. Plan(k) = [above |-> TRUE, below |-> TRUE] /\ PutSol(k) > 0
          BY <2>2, <2>4, <3>4 DEF Plan
        <4>2. QED
          BY <4>1 DEF Filled, PutsX, PutsY
      <3>5. QED
        BY <3>1, <3>2, <3>3, <3>4
    <2>7. QED
      BY <2>5, <2>6 DEF k
  <1>2. Base => LandsOnItsSide
    BY <1>1 DEF LandsOnItsSide
  <1>3. QED
    BY <1>2, BaseHolds, PTL

--------------------------------------------------------------------------------
(* What a step leaves in its run's own task. *)

LEMMA QuitMoves ==
  ASSUME TypeOK, NEW r \in Runs, Quit(r) PROVE task'[r] = Idle
  BY DEF Quit, TypeOK

LEMMA GotoMoves ==
  ASSUME TypeOK, NEW r \in Runs, NEW step, Goto(r, step)
  PROVE  /\ task'[r].step = step /\ task'[r].mode = task[r].mode
         /\ task'[r].source = task[r].source /\ task'[r].strategy = task[r].strategy
         /\ task'[r].cands = task[r].cands /\ task'[r].pool = task[r].pool
         /\ task'[r].amount = task[r].amount /\ task'[r].swaps = task[r].swaps
         /\ task'[r].base = task[r].base /\ task'[r].addr = task[r].addr
  <1>1. task[r] \in Tasks /\ task'[r] = [task[r] EXCEPT !.step = step]
    BY DEF Goto, TypeOK
  <1>2. QED
    BY <1>1 DEF Tasks

LEMMA SizingMoves ==
  ASSUME TypeOK, AllStaged, NEW r \in Runs, At(r, "balance"), NEW w \in Nat, Sizing(r, w),
         ~Quit(r)
  PROVE  /\ task'[r].step = "gather" /\ task'[r].mode = task[r].mode
         /\ task'[r].source = task[r].source /\ task'[r].addr = task[r].addr
         /\ task'[r].pool = task[r].pool /\ task'[r].swaps = task[r].swaps
         /\ task'[r].amount \in Nat /\ task'[r].amount + 20 <= w
  <1>1. PICK b \in Nat : /\ b + 20 <= w
                         /\ task' = [task EXCEPT ![r] = [task[r] EXCEPT !.amount = b,
                                                                        !.step = "gather"]]
    BY SizingFits
  <1>2. task[r] \in Tasks /\ task'[r] = [task[r] EXCEPT !.amount = b, !.step = "gather"]
    BY <1>1 DEF TypeOK
  <1>3. /\ task'[r].step = "gather" /\ task'[r].mode = task[r].mode
        /\ task'[r].source = task[r].source /\ task'[r].addr = task[r].addr
        /\ task'[r].pool = task[r].pool /\ task'[r].swaps = task[r].swaps
        /\ task'[r].amount = b
    BY <1>2 DEF Tasks
  <1>4. QED
    BY <1>1, <1>3

LEMMA GatherMoves ==
  ASSUME TypeOK, NEW r \in Runs, NEW found, NEW view, Gather(r, found, view), ~Quit(r)
  PROVE  /\ task'[r].step = "filter" /\ task'[r].mode = task[r].mode
         /\ task'[r].source = task[r].source /\ task'[r].strategy = task[r].strategy
         /\ task'[r].cands = {p \in found : ~Held(p, view)}
         /\ task'[r].pool = task[r].pool
         /\ task'[r].amount = task[r].amount /\ task'[r].swaps = task[r].swaps
         /\ task'[r].addr = task[r].addr
  <1> DEFINE left == {p \in found : ~Held(p, view)}
  <1>1. task' = [task EXCEPT ![r].cands = left, ![r].step = "filter"]
    BY DEF Gather
  <1> HIDE DEF left
  <1>2. task[r] \in Tasks /\ task'[r] = [task[r] EXCEPT !.cands = left, !.step = "filter"]
    BY <1>1 DEF TypeOK
  <1>3. QED
    BY <1>2 DEF Tasks, left

LEMMA PickMoves ==
  ASSUME TypeOK, NEW r \in Runs, NEW p, Pick(r, p)
  PROVE  /\ task'[r].step = IF Resolved(task[r]) \in BuysFirst THEN "swap" ELSE "gates"
         /\ task'[r].mode = task[r].mode /\ task'[r].source = task[r].source
         /\ task'[r].strategy = Resolved(task[r]) /\ task'[r].pool = p
         /\ task'[r].amount = task[r].amount /\ task'[r].swaps = task[r].swaps
         /\ task'[r].addr = task[r].addr
  <1> DEFINE step == IF Resolved(task[r]) \in BuysFirst THEN "swap" ELSE "gates"
             strategy == Resolved(task[r])
  <1>1. task' = [task EXCEPT ![r].pool = p, ![r].cands = {}, ![r].strategy = strategy,
                             ![r].step = step]
    BY DEF Pick
  <1> HIDE DEF step, strategy
  <1>2. /\ task[r] \in Tasks
        /\ task'[r] = [task[r] EXCEPT !.pool = p, !.cands = {}, !.strategy = strategy,
                                      !.step = step]
    BY <1>1 DEF TypeOK
  <1>3. QED
    BY <1>2 DEF Tasks, step, strategy

LEMMA SwapMoves ==
  ASSUME TypeOK, NEW r \in Runs, SwapOk(r) \/ (SwapUnseen(r) /\ ~Quit(r))
  PROVE  /\ task'[r].step \in {"swap", "bought"} /\ task'[r].mode = task[r].mode
         /\ task'[r].source = task[r].source /\ task'[r].strategy = task[r].strategy
         /\ task'[r].pool = task[r].pool /\ task'[r].amount = task[r].amount
         /\ task'[r].swaps = task[r].swaps + 1 /\ task'[r].addr = task[r].addr
  <1>0. task[r] \in Tasks /\ task[r].step = "swap"
    BY DEF TypeOK, SwapOk, SwapUnseen, At
  <1>1. CASE SwapOk(r)
    <2>1. task'[r] = [task[r] EXCEPT !.swaps = @ + 1, !.step = "bought"]
      BY <1>1 DEF SwapOk, TypeOK
    <2>2. QED
      BY <1>0, <2>1 DEF Tasks
  <1>2. CASE SwapUnseen(r) /\ ~Quit(r)
    <2>1. task'[r] = [task[r] EXCEPT !.swaps = @ + 1]
      BY <1>2 DEF SwapUnseen, TypeOK
    <2>2. QED
      BY <1>0, <2>1 DEF Tasks
  <1>3. QED
    BY <1>1, <1>2

LEMMA BoughtMoves ==
  ASSUME TypeOK, NEW r \in Runs, Bought(r), ~Quit(r)
  PROVE  /\ task'[r].step \in {"gates", "deploy"} /\ task'[r].mode = task[r].mode
         /\ task'[r].source = task[r].source /\ task'[r].strategy = task[r].strategy
         /\ task'[r].pool = task[r].pool /\ task'[r].amount = task[r].amount
         /\ task'[r].swaps = task[r].swaps /\ task'[r].addr = task[r].addr
  <1> DEFINE b == bag[TokenOf(r)]
             step == IF task[r].strategy \in BuysFirst THEN "gates" ELSE "deploy"
  <1>1. task' = [task EXCEPT ![r].base = b, ![r].step = step]
    BY DEF Bought
  <1>2. step \in {"gates", "deploy"}
    OBVIOUS
  <1> HIDE DEF b, step
  <1>3. task[r] \in Tasks /\ task'[r] = [task[r] EXCEPT !.base = b, !.step = step]
    BY <1>1 DEF TypeOK
  <1>4. QED
    BY <1>2, <1>3 DEF Tasks

LEMMA DeployMoves ==
  ASSUME TypeOK, NEW r \in Runs, NEW a, DeployOk(r, a)
  PROVE  /\ task'[r].step = "set" /\ task'[r].mode = task[r].mode
         /\ task'[r].source = task[r].source /\ task'[r].pool = task[r].pool
         /\ task'[r].addr = a
  <1>1. task[r] \in Tasks /\ task'[r] = [task[r] EXCEPT !.addr = a, !.step = "set"]
    BY DEF TypeOK, DeployOk
  <1>2. QED
    BY <1>1 DEF Tasks

--------------------------------------------------------------------------------
(* The reserve. *)

\* The SOL a run may still take.
Owes(k) ==
  IF k.step \in {"gather", "filter"} THEN k.amount
  ELSE IF k.step \in {"swap", "bought", "gates", "deploy"}
       THEN (IF k.swaps = 0 THEN k.amount ELSE PutSol(k)) ELSE 0

\* What takes from the reserve.
Taking == {"overlap", "blind", "twice", "cut", "freed", "short"}

\* The SOL that a close returned stays there for its redeploy.
Reserve ==
  Without(Taking) =>
    /\ sol >= 20 + move.got
    /\ \A r \in Runs : sol >= 20 + move.got + Owes(task[r])

LEMMA GotTypes == ASSUME TypeOK PROVE move.got \in Nat
  BY DEF TypeOK, Redeploys

LEMMA OwesTypes == ASSUME NEW k \in Tasks PROVE Owes(k) \in Nat
  BY SpentTypes DEF Owes, Tasks

LEMMA ReserveInit == ASSUME Init PROVE Reserve
  <1>1. \A r \in Runs : Owes(task[r]) = 0
    BY DEF Init, Owes, Idle
  <1>2. QED
    BY <1>1, DeployAssumption DEF Init, Rest, Reserve

\* One run spends, and what is left covers what it may still take.
LEMMA ReserveStep ==
  ASSUME Base, Reserve, NEW r \in Runs, Frame(r), TypeOK',
         Without(Taking)' =>
           sol' >= 20 + move'.got /\ sol' >= 20 + move'.got + Owes(task'[r])
  PROVE  Reserve'
  <1>1. SUFFICES ASSUME Without(Taking)'
        PROVE  /\ sol' >= 20 + move'.got
               /\ \A s \in Runs : sol' >= 20 + move'.got + Owes(task'[s])
    BY DEF Reserve
  <1>2. "overlap" \notin spoiled
    BY <1>1 DEF Without, Taking, Frame
  <1>3. ASSUME NEW s \in Runs \ {r} PROVE Owes(task'[s]) = 0
    BY <1>2 DEF Frame, Base, Marks, Alone, Busy, At, Owes
  <1>4. sol' \in Nat /\ move'.got \in Nat
    BY DEF TypeOK, Redeploys
  <1>5. QED
    BY <1>1, <1>3, <1>4

\* A run's step takes no more than the run owes.
LEMMA SpendsOwed ==
  ASSUME Base, Reserve, NEW r \in Runs, Step(r) \/ Killed(r),
         Without(Taking)'
  PROVE  sol' >= 20 + move'.got /\ sol' >= 20 + move'.got + Owes(task'[r])
  <1> DEFINE g == move.got
  <1>8. g \in Nat /\ move'.got = g
    BY GotTypes, MoveLeft DEF Base
  <1> HIDE DEF g
  <1> SUFFICES sol' >= 20 + g /\ sol' >= 20 + g + Owes(task'[r])
    BY <1>8
  <1>0. /\ TypeOK /\ AllStaged /\ task[r] \in Tasks /\ Staged(task[r]) /\ sol \in Nat
        /\ spoiled \subseteq spoiled' /\ Owes(task[r]) \in Nat /\ g \in Nat
    BY <1>8, Framed, OwesTypes DEF Base, TypeOK, AllStaged, Frame
  <1>1. sol >= 20 + g /\ sol >= 20 + g + Owes(task[r])
    BY <1>0 DEF Reserve, Without, g
  <1>2. task'[r] = Idle => Owes(task'[r]) = 0
    BY DEF Owes, Idle
  <1>3. Quit(r) => Owes(task'[r]) = 0
    BY <1>0, <1>2, QuitMoves
  <1>4. CASE Quit(r) /\ sol' >= 20 + g
    BY <1>0, <1>3, <1>4
  <1>5. CASE ~Quit(r)
    <2>1. CASE \E view, young \in SUBSET Addrs : Reconcile(r, view, young)
      <3>1. Goto(r, "slots") /\ sol' = sol
        BY <2>1 DEF Reconcile, chain
      <3>2. QED
        BY <1>0, <1>1, <3>1, GotoMoves DEF Owes
    <2>2. CASE Slots(r) \/ SlotsBlind(r)
      <3>1. Goto(r, "balance") /\ sol' = sol
        BY <1>5, <2>2 DEF Slots, SlotsBlind, chain
      <3>2. QED
        BY <1>0, <1>1, <3>1, GotoMoves DEF Owes
    <2>3. CASE Balance(r)
      <3>1. sol' = sol /\ Sizing(r, sol) /\ At(r, "balance")
        BY <2>3 DEF Balance, chain
      <3>2. task'[r].step = "gather" /\ task'[r].amount \in Nat /\ task'[r].amount + 20 <= sol
        BY <1>0, <1>5, <3>1, SizingMoves
      <3>3. g = 0
        BY <1>0, <2>3 DEF Balance, Freed, Without, Taking, g
      <3>4. QED
        BY <1>0, <1>1, <3>1, <3>2, <3>3 DEF Owes
    <2>4. CASE BalanceBlind(r)
      BY <2>4 DEF BalanceBlind, Fault, Without, Taking
    <2>5. CASE \E found \in SUBSET Pools, view \in SUBSET Addrs : Gather(r, found, view)
      <3>1. PICK found \in SUBSET Pools, view \in SUBSET Addrs : Gather(r, found, view)
        BY <2>5
      <3>2. task[r].step = "gather" /\ sol' = sol
        BY <3>1 DEF Gather, At, chain
      <3>3. task'[r].step = "filter" /\ task'[r].amount = task[r].amount
        BY <1>0, <1>5, <3>1, GatherMoves
      <3>4. QED
        BY <1>0, <1>1, <3>2, <3>3 DEF Owes
    <2>6. CASE \E p \in Pools : Pick(r, p)
      <3>1. PICK p \in Pools : Pick(r, p)
        BY <2>6
      <3>2. task[r].step = "filter" /\ sol' = sol /\ task[r].swaps = 0
        BY <1>0, <3>1 DEF Pick, At, chain, Staged, Early
      <3>3. /\ task'[r].step \in {"swap", "gates"} /\ task'[r].amount = task[r].amount
            /\ task'[r].swaps = 0
        BY <1>0, <3>1, <3>2, PickMoves
      <3>4. QED
        BY <1>0, <1>1, <3>2, <3>3 DEF Owes
    <2>7. CASE GatesPass(r) \/ Bought(r)
      <3>1. /\ task[r].step \in {"gates", "bought"} /\ sol' = sol
            /\ task'[r].step \in {"swap", "gates", "deploy"}
            /\ task'[r].strategy = task[r].strategy /\ task'[r].amount = task[r].amount
            /\ task'[r].swaps = task[r].swaps
        <4>1. CASE GatesPass(r)
          <5>1. Goto(r, "swap") \/ Goto(r, "deploy")
            BY <4>1 DEF GatesPass
          <5>2. QED
            BY <1>0, <4>1, <5>1, GotoMoves DEF GatesPass, At, chain
        <4>2. CASE Bought(r)
          BY <1>0, <1>5, <4>2, BoughtMoves DEF Bought, At, chain
        <4>3. QED
          BY <2>7, <4>1, <4>2
      <3>2. PutSol(task'[r]) = PutSol(task[r])
        BY <3>1 DEF PutSol, Half
      <3>3. QED
        BY <1>1, <3>1, <3>2 DEF Owes
    <2>8. CASE SwapOk(r) \/ SwapUnseen(r)
      <3>1. /\ task[r].step = "swap" /\ sol' = sol - SwapSol(task[r]) /\ task[r].swaps = 0
        BY <1>0, <2>8 DEF SwapOk, SwapUnseen, Swapped, At, Fault, Again, Without, Taking, Tasks
      <3>2. /\ task'[r].step \in {"swap", "bought"} /\ task'[r].strategy = task[r].strategy
            /\ task'[r].amount = task[r].amount /\ task'[r].swaps = 1
        BY <1>0, <1>5, <2>8, <3>1, SwapMoves
      <3>3. PutSol(task'[r]) = PutSol(task[r])
        BY <3>2 DEF PutSol, Half
      <3>4. /\ SwapSol(task[r]) + PutSol(task[r]) = task[r].amount
            /\ SwapSol(task[r]) \in Nat /\ PutSol(task[r]) \in Nat
        BY <1>0, <3>1, SpentTypes DEF Staged
      <3>5. Owes(task'[r]) = PutSol(task[r]) /\ Owes(task[r]) = task[r].amount
        BY <3>1, <3>2, <3>3 DEF Owes
      <3>6. QED
        BY <1>0, <1>1, <3>1, <3>4, <3>5
    <2>9. CASE \E a \in Addrs : DeployOk(r, a)
      <3>1. PICK a \in Addrs : DeployOk(r, a)
        BY <2>9
      <3>2. /\ task[r].step = "deploy" /\ sol' = sol - PutSol(task[r])
            /\ task'[r].step = "set"
        BY <1>0, <3>1, CallTypes, DeployMoves DEF DeployOk, Lands, At
      <3>3. PutSol(task[r]) \in Nat /\ PutSol(task[r]) <= Owes(task[r])
        BY <1>0, <3>2, SpentTypes DEF Owes, Tasks
      <3>4. QED
        BY <1>0, <1>1, <3>2, <3>3 DEF Owes
    <2>10. CASE SetMeta(r) \/ AddTracked(r) \/ Count(r)
      <3>1. /\ Goto(r, "add") \/ Goto(r, "count") \/ Goto(r, "guard")
            /\ sol' = sol
        BY <1>5, <2>10 DEF SetMeta, AddTracked, Count, chain
      <3>2. QED
        BY <1>0, <1>1, <3>1, GotoMoves DEF Owes
    <2>11. QED
      BY <1>5, <2>1, <2>2, <2>3, <2>4, <2>5, <2>6, <2>7, <2>8, <2>9, <2>10 DEF Step, Killed,
         PickNone, GatesRefuse, SwapFails, BoughtBlind, DeployFails, DeployOrphan,
         DeployUnseen, Guard
  <1>6. CASE Quit(r) /\ ~(sol' >= 20 + g)
    <2>1. SwapUnseen(r)
      <3>1. sol' # sol
        BY <1>1, <1>6
      <3>2. Idle.step = "idle"
        BY DEF Idle
      <3>3. \A a \in Addrs : DeployOk(r, a) => FALSE
        BY <1>0, <1>6, <3>2, QuitMoves, DeployMoves
      <3>4. SwapOk(r) => FALSE
        BY <1>0, <1>6, <3>2, QuitMoves, SwapMoves
      <3>5. \A a \in Addrs : DeployOrphan(r, a) => sol' = sol
        BY <1>0 DEF DeployOrphan, Lands
      <3>6. QED
        BY <3>1, <3>3, <3>4, <3>5 DEF Step, Killed, Reconcile, Gather, Slots, SlotsBlind,
           Balance, BalanceBlind, PickNone, Pick, GatesRefuse, GatesPass, SwapFails, Bought,
           BoughtBlind, DeployFails, DeployUnseen, SetMeta, AddTracked, Count, Guard, chain
    <2>2. task[r].step = "swap" /\ sol' = sol - SwapSol(task[r]) /\ task[r].swaps = 0
      BY <1>0, <2>1 DEF SwapUnseen, Swapped, At, Fault, Again, Without, Taking, Tasks
    <2>3. /\ SwapSol(task[r]) + PutSol(task[r]) = task[r].amount
          /\ SwapSol(task[r]) \in Nat /\ PutSol(task[r]) \in Nat
      BY <1>0, <2>2, SpentTypes DEF Staged
    <2>4. Owes(task[r]) = task[r].amount
      BY <2>2 DEF Owes
    <2>5. QED
      BY <1>0, <1>1, <1>6, <2>2, <2>3, <2>4
  <1>7. QED
    BY <1>4, <1>5, <1>6

\* A redeploy puts in what came back, or says that it takes more.
LEMMA ReserveMove == ASSUME Base, Reserve, Redeploy PROVE Reserve'
  <1>0. /\ TypeOK /\ TypeOK' /\ UNCHANGED <<late, task>> /\ spoiled \subseteq spoiled'
    BY RedeployTyped, RedeployFrame DEF Base, Kept
  <1>1. SUFFICES ASSUME Without(Taking)'
                 PROVE  /\ sol' >= 20 + move'.got
                        /\ \A s \in Runs : sol' >= 20 + move'.got + Owes(task[s])
    BY <1>0 DEF Reserve
  <1>2. /\ sol >= 20 + move.got
        /\ \A s \in Runs : sol >= 20 + move.got + Owes(task[s])
    BY <1>0, <1>1 DEF Reserve, Without
  <1>3. /\ sol \in Nat /\ sol' \in Nat /\ move.got \in Nat /\ move'.got \in Nat
        /\ move \in Redeploys
        /\ \A s \in Runs : Owes(task[s]) \in Nat
    BY <1>0, OwesTypes, GotTypes DEF TypeOK, Redeploys
  <1>4. SUFFICES sol' - move'.got >= sol - move.got
    BY <1>2, <1>3
  <1>5. CASE \E kind \in Kinds, a \in Addrs : MoveClose(kind, a)
    BY <1>0, <1>3, <1>5 DEF MoveClose, Moves, TypeOK, MoveSound, Rest
  <1>6. CASE \E a \in Addrs : MoveDeploys(a)
    <2>1. PICK a \in Addrs : MoveDeploys(a)
      BY <1>6
    <2>2. sol' = sol - MoveSol /\ move'.got = 0
      BY <1>3, <2>1 DEF MoveDeploys, Lands, MoveCall, Redeploys
    <2>3. ~(MoveSol > move.got)
      BY <1>1, <2>1 DEF MoveDeploys, Without, Taking
    <2>4. MoveSol \in Nat
      BY <1>0, <2>1, MoveKnows DEF MoveDeploys, Moves
    <2>5. QED
      BY <1>3, <2>2, <2>3, <2>4
  <1>7. CASE \E a \in Addrs : MoveStrands(a)
    BY <1>3, <1>7 DEF MoveStrands, Lands, Rest
  <1>8. CASE \E a \in Addrs : MoveLateLands(a)
    BY <1>0, <1>1, <1>8 DEF MoveLateLands, Moves, Base, Marks, Prompt, Without, Taking
  <1>9. CASE MoveSell
    <2>1. sol' = sol + bag[Token[move.pool]] /\ move'.got = move.got + bag[Token[move.pool]]
      BY <1>3, <1>9 DEF MoveSell, Redeploys
    <2>2. bag[Token[move.pool]] \in Nat
      BY <1>0, <1>9, MoveKnows DEF MoveSell, Moves, TypeOK
    <2>3. QED
      BY <1>3, <2>1, <2>2
  <1>10. CASE MoveDrop \/ MoveKeeps \/ MoveSets
    <2>1. sol' = sol
      BY <1>10 DEF MoveDrop, MoveKeeps, MoveSets, chain
    <2>2. CASE MoveDrop
      BY <1>3, <2>1, <2>2 DEF MoveDrop, Redeploys
    <2>3. CASE MoveKeeps \/ MoveSets
      BY <1>3, <2>1, <2>3 DEF MoveKeeps, MoveSets, MovesTo, Redeploys
    <2>4. QED
      BY <1>10, <2>2, <2>3
  <1>11. CASE MoveLooks \/ MoveUnseen
    <2>1. sol' = sol
      BY <1>11 DEF MoveLooks, MoveUnseen, chain
    <2>2. move'.got = 0
      BY <1>3, <1>11 DEF MoveLooks, MoveUnseen, Redeploys
    <2>3. QED
      BY <1>3, <2>1, <2>2
  <1>12. CASE MoveFindsNone \/ MoveFails \/ MoveLateDies \/ MoveAdds \/ MoveKilled
    BY <1>3, <1>12 DEF MoveFindsNone, MoveFails, MoveLateDies, MoveAdds, MoveKilled, Rest, chain
  <1>13. QED
    BY <1>5, <1>6, <1>7, <1>8, <1>9, <1>10, <1>11, <1>12 DEF Redeploy

LEMMA ReserveNext == ASSUME Base, Reserve, [Next]_vars PROVE Reserve'
  <1>0. TypeOK' /\ TypeOK /\ AllStaged
    BY NextTyped DEF Base
  <1>1. CASE UNCHANGED vars
    BY <1>1 DEF Reserve, Without, vars, past, chain
  <1>2. CASE World
    <2>1. SUFFICES ASSUME Without(Taking)'
                   PROVE  /\ sol' >= 20 + move'.got
                          /\ \A s \in Runs : sol' >= 20 + move'.got + Owes(task'[s])
      BY DEF Reserve
    <2>2. spoiled \subseteq spoiled'
      BY <1>0, <1>2, WorldFrame
    <2>3. /\ sol >= 20 + move.got /\ move'.got = move.got /\ move.got \in Nat
          /\ \A s \in Runs : sol >= 20 + move.got + Owes(task[s])
      BY <1>0, <1>2, <2>1, <2>2, MoveLeft, GotTypes DEF Reserve, Without
    <2>4. \A s \in Runs : Owes(task'[s]) = Owes(task[s])
      BY <1>0, <1>2, WorldFrame DEF Owes, PutSol, Half
    <2>5. \A s \in Runs : late[s] = None
      BY <2>1, <2>2 DEF Without, Taking, Base, Marks, Prompt
    <2>6. sol' >= sol
      <3>1. CASE \E a \in Addrs : Close(a)
        BY <1>0, <3>1 DEF Close, TypeOK
      <3>2. CASE \E t \in Tokens : Sweep(t)
        BY <1>0, <3>2 DEF Sweep, TypeOK
      <3>3. CASE UNCHANGED sol
        BY <1>0, <3>3 DEF TypeOK
      <3>4. QED
        BY <1>2, <2>5, <3>1, <3>2, <3>3 DEF World, Forget, Adopt, Bar, Lapse, LapsePool,
           LateDies, LateLands, chain
    <2>7. \A s \in Runs : Owes(task[s]) \in Nat
      BY OwesTypes DEF Base, TypeOK
    <2>8. sol \in Nat /\ sol' \in Nat
      BY <1>0 DEF TypeOK
    <2>9. QED
      BY <2>3, <2>4, <2>6, <2>7, <2>8
  <1>3. ASSUME NEW r \in Runs, NEW call \in Calls, Start(r, call)
        PROVE  Reserve'
    <2>1. /\ \A s \in Runs \ {r} : task'[s] = task[s]
          /\ task'[r].step = "reconcile" /\ sol' = sol /\ spoiled \subseteq spoiled'
      BY <1>0, <1>3, StartTask DEF chain
    <2>2. Owes(task'[r]) = 0
      BY <2>1 DEF Owes
    <2>3. QED
      BY <1>0, <1>3, <2>1, <2>2, MoveLeft, GotTypes DEF Reserve, Without, TypeOK
  <1>4. ASSUME NEW r \in Runs, Step(r) \/ Killed(r)
        PROVE  Reserve'
    <2>1. Frame(r)
      BY <1>0, <1>4, Framed
    <2>2. Without(Taking)' =>
            sol' >= 20 + move'.got /\ sol' >= 20 + move'.got + Owes(task'[r])
      BY <1>4, SpendsOwed
    <2>3. QED
      BY <1>0, <2>1, <2>2, ReserveStep
  <1>5. CASE Redeploy
    BY <1>5, ReserveMove
  <1>6. QED
    BY <1>1, <1>2, <1>3, <1>4, <1>5 DEF Next

\* The wallet keeps the reserve for fees, whatever order runs, closes, redeploys, sweeps and
\* failing swaps come in, without the six things ReserveKept names (pipeline 199-215,
\* 397-407, 864-880, 614-636; monitor 1358, 1413, 1595-1602, 1738).
THEOREM ReserveHolds == Spec => []ReserveKept
  <1>1. Base /\ Reserve => ReserveKept
    BY GotTypes DEF Base, TypeOK, Reserve, ReserveKept, Taking
  <1>2. Base /\ Reserve /\ [Next]_vars => (Base /\ Reserve)'
    BY BaseNext, ReserveNext
  <1>3. Init => Base /\ Reserve
    BY BaseInit, ReserveInit
  <1>4. QED
    BY <1>1, <1>2, <1>3, PTL DEF Spec

--------------------------------------------------------------------------------
(* The churn guard. *)

Carrying == {"swap", "bought", "gates", "deploy"}
Books(k, p) == k.step \in {"set", "add", "count"} /\ k.pool = p
Cools(k, p) == k.step = "guard" /\ k.pool = p
Booking(p)  == \E r \in Runs : Books(task[r], p)
Cooling(p)  == \E r \in Runs : Cools(task[r], p)

\* A deploy is in the count of its pool once its run has counted it; a full count has the
\* pool cooled down, or a run that is about to.
ChurnOf(p) ==
  /\ entries[p] <= ChurnLimit
  /\ entries[p] <= deploys[p] + 1
  /\ ~Booking(p) => entries[p] <= deploys[p]
  /\ ~Booking(p) /\ ~Cooling(p) /\ p \notin coolPool => entries[p] < ChurnLimit
Churn ==
  Without({"overlap", "blind", "cut"}) =>
    /\ \A p \in Pools : ChurnOf(p)
    /\ \A r \in Runs : task[r].step \in Carrying => task[r].pool \notin coolPool

\* A run that is not overlapped is the only one.
LEMMA Solo ==
  ASSUME Base, NEW r \in Runs, Frame(r), "overlap" \notin spoiled'
  PROVE  \A s \in Runs \ {r} : task[s].step = "idle" /\ task'[s].step = "idle"
  BY DEF Frame, Base, Marks, Alone, Busy, At

LEMMA SoloBooks ==
  ASSUME Base, NEW r \in Runs, Frame(r), "overlap" \notin spoiled', NEW p
  PROVE  /\ Booking(p) <=> Books(task[r], p)
         /\ Booking(p)' <=> Books(task'[r], p)
         /\ Cooling(p) <=> Cools(task[r], p)
         /\ Cooling(p)' <=> Cools(task'[r], p)
  BY Solo DEF Booking, Books, Cooling, Cools

LEMMA ChurnInit == ASSUME Init PROVE Churn
  <1>1. \A r \in Runs : task[r].step = "idle"
    BY DEF Init, Idle
  <1>2. QED
    BY <1>1, DeployAssumption DEF Init, Churn, ChurnOf, Carrying

\* A step that neither books nor cools.
LEMMA ChurnCalm ==
  ASSUME Base, TypeOK', NEW r \in Runs, Frame(r), Without({"overlap", "blind", "cut"})',
         \A p \in Pools : ChurnOf(p),
         UNCHANGED <<entries, deploys, coolPool>>,
         \A p \in Pools : Books(task'[r], p) <=> Books(task[r], p),
         \A p \in Pools : Cools(task'[r], p) <=> Cools(task[r], p)
  PROVE  \A p \in Pools : ChurnOf(p)'
  <1>1. "overlap" \notin spoiled'
    BY DEF Without
  <1>2. ASSUME NEW p \in Pools PROVE ChurnOf(p)'
    <2>1. (Booking(p)' <=> Booking(p)) /\ (Cooling(p)' <=> Cooling(p))
      BY <1>1, SoloBooks
    <2>2. QED
      BY <2>1 DEF ChurnOf
  <1>3. QED
    BY <1>2

LEMMA ChurnStep ==
  ASSUME Base, Churn, TypeOK', NEW r \in Runs, Step(r) \/ Killed(r),
         Without({"overlap", "blind", "cut"})'
  PROVE  \A p \in Pools : ChurnOf(p)'
  <1>0. /\ TypeOK /\ AllStaged /\ Frame(r) /\ task[r] \in Tasks /\ Sound(task[r])
        /\ "overlap" \notin spoiled' /\ "blind" \notin spoiled' /\ "cut" \notin spoiled'
        /\ spoiled \subseteq spoiled'
    BY Framed DEF Base, TypeOK, Frame, Without
  <1>1. /\ \A p \in Pools : ChurnOf(p)
        /\ \A s \in Runs : task[s].step \in Carrying => task[s].pool \notin coolPool
    BY <1>0 DEF Churn, Without
  <1>2. /\ ChurnLimit \in Nat \ {0}
        /\ \A p \in Pools : entries[p] \in Nat /\ deploys[p] \in Nat
    BY <1>0, DeployAssumption DEF TypeOK
  <1>3. ASSUME NEW k, k.step \in Early \cup Carrying, NEW p
        PROVE  ~Books(k, p) /\ ~Cools(k, p)
    BY <1>3 DEF Books, Cools, Early, Carrying
  <1>4. CASE \E a \in Addrs : DeployOk(r, a)
    <2>1. PICK a \in Addrs : DeployOk(r, a)
      BY <1>4
    <2>2. /\ task[r].step = "deploy" /\ Counted(task[r].pool)
          /\ UNCHANGED <<deploys, coolPool>>
      BY <2>1 DEF DeployOk, At, redis, keys
    <2>3. task'[r].step = "set" /\ task'[r].pool = task[r].pool /\ task[r].pool \in Pools
      BY <1>0, <2>1, <2>2, DeployMoves, HasPool DEF Later
    <2>4. task[r].pool \notin coolPool
      BY <1>1, <2>2 DEF Carrying
    <2>5. ASSUME NEW p \in Pools PROVE ChurnOf(p)'
      <3>1. ~Books(task[r], p) /\ ~Cools(task[r], p) /\ ~Cools(task'[r], p)
        BY <2>2, <2>3 DEF Books, Cools
      <3>2. ~Booking(p) /\ ~Cooling(p) /\ ~Cooling(p)'
        BY <1>0, <3>1, SoloBooks
      <3>3. CASE p = task[r].pool
        <4>1. Booking(p)'
          BY <1>0, <2>3, <3>3, SoloBooks DEF Books
        <4>2. entries'[p] = entries[p] + 1 /\ deploys'[p] = deploys[p]
          BY <1>0, <2>2, <3>3 DEF Counted, TypeOK
        <4>3. entries[p] < ChurnLimit /\ entries[p] <= deploys[p]
          BY <1>1, <2>4, <3>2, <3>3 DEF ChurnOf
        <4>4. QED
          BY <1>2, <4>1, <4>2, <4>3 DEF ChurnOf
      <3>4. CASE p # task[r].pool
        <4>1. entries'[p] = entries[p] /\ deploys'[p] = deploys[p] /\ coolPool' = coolPool
          BY <1>0, <2>2, <3>4 DEF Counted, TypeOK
        <4>2. QED
          BY <1>1, <3>2, <4>1 DEF ChurnOf
      <3>5. QED
        BY <3>3, <3>4
    <2>6. QED
      BY <2>5
  <1>5. CASE Count(r)
    <2>0. task[r].step = "count" /\ task[r].pool \in Pools /\ UNCHANGED <<entries, coolPool>>
      BY <1>0, <1>5, HasPool DEF Count, At, Later, past
    <2>1. deploys' = [deploys EXCEPT ![task[r].pool] = @ + 1]
      BY <1>5 DEF Count
    <2>2. \/ deploys[task[r].pool] + 1 >= ChurnLimit /\ Goto(r, "guard")
          \/ ~(deploys[task[r].pool] + 1 >= ChurnLimit) /\ Quit(r)
      BY <1>5 DEF Count
    <2>3. \/ /\ deploys[task[r].pool] + 1 >= ChurnLimit
             /\ task'[r].step = "guard" /\ task'[r].pool = task[r].pool
          \/ ~(deploys[task[r].pool] + 1 >= ChurnLimit) /\ task'[r].step = "idle"
      BY <1>0, <2>2, GotoMoves, QuitMoves, IdleFields
    <2>4. ASSUME NEW p \in Pools PROVE ChurnOf(p)'
      <3>1. ~Booking(p)'
        BY <1>0, <2>3, SoloBooks DEF Books
      <3>2. entries'[p] = entries[p] /\ (coolPool' = coolPool)
        BY <2>0
      <3>3. CASE p = task[r].pool
        <4>1. deploys'[p] = deploys[p] + 1
          BY <1>0, <2>1, <3>3 DEF TypeOK
        <4>2. Cooling(p)' \/ deploys[p] + 1 < ChurnLimit
          <5>1. CASE task'[r].step = "guard"
            BY <1>0, <2>3, <3>3, <5>1, SoloBooks DEF Cools
          <5>2. CASE task'[r].step = "idle"
            BY <1>2, <2>3, <3>3, <5>2
          <5>3. QED
            BY <2>3, <5>1, <5>2
        <4>3. QED
          BY <1>1, <1>2, <3>1, <3>2, <4>1, <4>2 DEF ChurnOf
      <3>4. CASE p # task[r].pool
        <4>1. deploys'[p] = deploys[p]
          BY <1>0, <2>1, <3>4 DEF TypeOK
        <4>2. ~Booking(p) /\ ~Cooling(p)
          BY <1>0, <2>0, <3>4, SoloBooks DEF Books, Cools
        <4>3. QED
          BY <1>1, <3>1, <3>2, <4>1, <4>2 DEF ChurnOf
      <3>5. QED
        BY <3>3, <3>4
    <2>5. QED
      BY <2>4
  <1>6. CASE Guard(r)
    <2>1. /\ task[r].step = "guard" /\ UNCHANGED <<entries, deploys>>
          /\ coolPool' = coolPool \cup {task[r].pool} /\ task'[r].step = "idle"
      BY <1>0, <1>6, QuitMoves, IdleFields DEF Guard, At, past
    <2>2. ASSUME NEW p \in Pools PROVE ChurnOf(p)'
      <3>1. ~Booking(p) /\ ~Booking(p)'
        BY <1>0, <2>1, SoloBooks DEF Books
      <3>2. p \notin coolPool' => ~Cooling(p) /\ p \notin coolPool
        BY <1>0, <2>1, SoloBooks DEF Cools
      <3>3. QED
        BY <1>1, <2>1, <3>1, <3>2 DEF ChurnOf
    <2>3. QED
      BY <2>2
  <1>7. CASE SetMeta(r) \/ AddTracked(r)
    <2>1. /\ task[r].step \in {"set", "add"} /\ UNCHANGED <<entries, deploys, coolPool>>
          /\ Goto(r, "add") \/ Goto(r, "count")
      BY <1>7 DEF SetMeta, AddTracked, At, past
    <2>2. task'[r].step \in {"add", "count"} /\ task'[r].pool = task[r].pool
      BY <1>0, <2>1, GotoMoves
    <2>3. \A p \in Pools : /\ Books(task'[r], p) <=> Books(task[r], p)
                           /\ Cools(task'[r], p) <=> Cools(task[r], p)
      BY <2>1, <2>2 DEF Books, Cools
    <2>4. QED
      BY <1>0, <1>1, <2>1, <2>3, ChurnCalm
  <1>8. CASE ~(\/ Count(r) \/ Guard(r) \/ SetMeta(r) \/ AddTracked(r)
               \/ \E a \in Addrs : DeployOk(r, a))
    <2>1. task[r].step \in Early \cup Carrying /\ UNCHANGED <<entries, deploys, coolPool>>
      <3>1. ~Killed(r)
        BY <1>0 DEF Killed, Fault
      <3>2. CASE \/ \E view, young \in SUBSET Addrs : Reconcile(r, view, young)
                 \/ \E found \in SUBSET Pools, view \in SUBSET Addrs : Gather(r, found, view)
        BY <3>2 DEF Reconcile, Gather, At, Early, redis, keys
      <3>3. CASE \/ Slots(r) \/ SlotsBlind(r) \/ Balance(r) \/ BalanceBlind(r)
                 \/ PickNone(r) \/ \E p \in Pools : Pick(r, p)
        BY <3>3 DEF Slots, SlotsBlind, Balance, BalanceBlind, PickNone, Pick, At, Early,
           redis, past
      <3>4. CASE \/ GatesRefuse(r) \/ GatesPass(r) \/ SwapOk(r) \/ SwapUnseen(r)
                 \/ SwapFails(r) \/ Bought(r) \/ BoughtBlind(r)
        BY <3>4 DEF GatesRefuse, GatesPass, SwapOk, SwapUnseen, SwapFails, Bought, BoughtBlind,
           At, Carrying, redis, past
      <3>5. CASE DeployFails(r) \/ DeployUnseen(r) \/ \E a \in Addrs : DeployOrphan(r, a)
        BY <3>5 DEF DeployFails, DeployUnseen, DeployOrphan, At, Carrying, redis, keys, past
      <3>6. QED
        BY <1>8, <3>1, <3>2, <3>3, <3>4, <3>5 DEF Step
    <2>2. task'[r].step \in Early \cup Carrying
      <3>1. Quit(r) => task'[r].step \in Early
        BY <1>0, QuitMoves, IdleFields DEF Early
      <3>2. CASE Quit(r)
        BY <3>1, <3>2
      <3>3. CASE ~Quit(r)
        <4>1. CASE \E step \in {"slots", "balance", "swap", "deploy"} : Goto(r, step)
          BY <1>0, <4>1, GotoMoves DEF Early, Carrying
        <4>2. CASE Balance(r) \/ BalanceBlind(r)
          BY <1>0, <3>3, <4>2, SizingMoves DEF Balance, BalanceBlind, Early, TypeOK
        <4>3. CASE \E found \in SUBSET Pools, view \in SUBSET Addrs : Gather(r, found, view)
          BY <1>0, <3>3, <4>3, GatherMoves DEF Early
        <4>4. CASE \E p \in Pools : Pick(r, p)
          <5>1. PICK p \in Pools : Pick(r, p)
            BY <4>4
          <5>2. task'[r].step = IF Resolved(task[r]) \in BuysFirst THEN "swap" ELSE "gates"
            BY <1>0, <5>1, PickMoves
          <5>3. QED
            BY <5>2 DEF Carrying
        <4>5. CASE SwapOk(r) \/ SwapUnseen(r)
          BY <1>0, <3>3, <4>5, SwapMoves DEF Carrying
        <4>6. CASE Bought(r)
          BY <1>0, <3>3, <4>6, BoughtMoves DEF Carrying
        <4>7. QED
          <5>1. ~Killed(r)
            BY <3>3 DEF Killed
          <5>2. \/ PickNone(r) \/ GatesRefuse(r) \/ SwapFails(r) \/ BoughtBlind(r)
                \/ DeployFails(r) \/ DeployUnseen(r) \/ \E a \in Addrs : DeployOrphan(r, a)
                => FALSE
            BY <3>3 DEF PickNone, GatesRefuse, SwapFails, BoughtBlind, DeployFails,
               DeployUnseen, DeployOrphan
          <5>3. \/ \E view, young \in SUBSET Addrs : Reconcile(r, view, young)
                \/ Slots(r) \/ SlotsBlind(r) \/ GatesPass(r)
                => \E step \in {"slots", "balance", "swap", "deploy"} : Goto(r, step)
            BY <3>3 DEF Reconcile, Slots, SlotsBlind, GatesPass
          <5>4. QED
            BY <1>8, <4>1, <4>2, <4>3, <4>4, <4>5, <4>6, <5>1, <5>2, <5>3 DEF Step
      <3>4. QED
        BY <3>2, <3>3
    <2>3. \A p \in Pools : /\ Books(task'[r], p) <=> Books(task[r], p)
                           /\ Cools(task'[r], p) <=> Cools(task[r], p)
      BY <1>3, <2>1, <2>2
    <2>4. QED
      BY <1>0, <1>1, <2>1, <2>3, ChurnCalm
  <1>9. QED
    BY <1>4, <1>5, <1>6, <1>7, <1>8

LEMMA ChurnNext == ASSUME Base, Churn, [Next]_vars PROVE Churn'
  <1>0. TypeOK' /\ TypeOK /\ AllStaged
    BY NextTyped DEF Base
  <1>1. CASE UNCHANGED vars
    BY <1>1 DEF Churn, ChurnOf, Booking, Cooling, Without, vars, past, redis, keys
  <1>2. CASE World
    <2>1. SUFFICES ASSUME Without({"overlap", "blind", "cut"})'
                   PROVE  /\ \A p \in Pools : ChurnOf(p)'
                          /\ \A s \in Runs : task'[s].step \in Carrying =>
                               task'[s].pool \notin coolPool'
      BY DEF Churn
    <2>2. /\ spoiled \subseteq spoiled'
          /\ \A s \in Runs : task'[s].step = task[s].step /\ task'[s].pool = task[s].pool
      BY <1>0, <1>2, WorldFrame
    <2>3. /\ \A p \in Pools : ChurnOf(p)
          /\ \A s \in Runs : task[s].step \in Carrying => task[s].pool \notin coolPool
      BY <2>1, <2>2 DEF Churn, Without
    <2>4. \A p : (Booking(p)' <=> Booking(p)) /\ (Cooling(p)' <=> Cooling(p))
      BY <2>2 DEF Booking, Books, Cooling, Cools
    <2>5. CASE \E q \in Pools : LapsePool(q)
      <3>1. PICK q \in Pools : LapsePool(q)
        BY <2>5
      <3>2. coolPool' \subseteq coolPool
        BY <3>1 DEF LapsePool
      <3>3. ASSUME NEW p \in Pools PROVE ChurnOf(p)'
        <4>1. CASE p = q
          <5>1. entries'[p] = 0 /\ deploys'[p] \in Nat /\ ChurnLimit \in Nat \ {0}
            BY <1>0, <3>1, <4>1, DeployAssumption DEF LapsePool, TypeOK
          <5>2. QED
            BY <5>1 DEF ChurnOf
        <4>2. CASE p # q
          <5>1. /\ entries'[p] = entries[p] /\ deploys'[p] = deploys[p]
                /\ p \in coolPool' <=> p \in coolPool
            BY <1>0, <3>1, <4>2 DEF LapsePool, TypeOK
          <5>2. QED
            BY <2>3, <2>4, <5>1 DEF ChurnOf
        <4>3. QED
          BY <4>1, <4>2
      <3>4. QED
        BY <2>2, <2>3, <3>2, <3>3
    <2>6. CASE ~\E q \in Pools : LapsePool(q)
      <3>1. \A s \in Runs : late[s] = None
        BY <2>1, <2>2 DEF Without, Base, Marks, Prompt
      <3>2. UNCHANGED <<entries, deploys, coolPool>>
        BY <1>2, <2>6, <3>1 DEF World, Close, Forget, Adopt, Sweep, Bar, Lapse, LateDies,
           LateLands, redis, past
      <3>3. QED
        BY <2>2, <2>3, <2>4, <3>2 DEF ChurnOf
    <2>7. QED
      BY <2>5, <2>6
  <1>3. ASSUME NEW r \in Runs, NEW call \in Calls, Start(r, call)
        PROVE  Churn'
    <2>1. /\ \A s \in Runs \ {r} : task'[s] = task[s]
          /\ task[r].step = "idle" /\ task'[r].step = "reconcile"
          /\ spoiled \subseteq spoiled' /\ UNCHANGED <<entries, deploys, coolPool>>
      BY <1>0, <1>3, StartTask DEF redis, keys
    <2>2. \A p : (Booking(p)' <=> Booking(p)) /\ (Cooling(p)' <=> Cooling(p))
      BY <2>1 DEF Booking, Books, Cooling, Cools
    <2>3. \A s \in Runs : task'[s].step \in Carrying => task'[s] = task[s]
      BY <2>1 DEF Carrying
    <2>4. QED
      BY <2>1, <2>2, <2>3 DEF Churn, ChurnOf, Without
  <1>4. ASSUME NEW r \in Runs, Step(r) \/ Killed(r), Without({"overlap", "blind", "cut"})'
        PROVE  Churn'
    <2>1. Frame(r) /\ "overlap" \notin spoiled' /\ "blind" \notin spoiled'
      BY <1>0, <1>4, Framed DEF Without
    <2>2. \A p \in Pools : ChurnOf(p)'
      BY <1>0, <1>4, ChurnStep
    <2>3. /\ \A s \in Runs \ {r} : task'[s].step = "idle"
          /\ task[r].step \in Carrying => task[r].pool \notin coolPool
      BY <1>4, <2>1, Solo DEF Churn, Without, Frame
    <2>4. task'[r].step \in Carrying => task'[r].pool \notin coolPool'
      <3>1. SUFFICES ASSUME task'[r].step \in Carrying PROVE task'[r].pool \notin coolPool'
        OBVIOUS
      <3>2. ~Guard(r)
        BY <1>0, <3>1, QuitMoves, IdleFields DEF Guard, Carrying
      <3>3. coolPool' = coolPool
        BY <1>4, <3>2 DEF Step, Killed, Reconcile, Gather, Slots, SlotsBlind, Balance,
           BalanceBlind, PickNone, Pick, GatesRefuse, GatesPass, SwapOk, SwapUnseen, SwapFails,
           Bought, BoughtBlind, DeployOk, DeployFails, DeployUnseen, DeployOrphan, SetMeta,
           AddTracked, Count, redis
      <3>4. CASE task[r].step \notin Later
        <4>1. PICK p \in Pools : Pick(r, p)
          BY <2>1, <3>1, <3>4 DEF Frame, Carrying, Later
        <4>2. ~Refuses(p)
          BY <2>1, <4>1 DEF Pick, Fault
        <4>3. task'[r].pool = p
          BY <1>0, <4>1, PickMoves
        <4>4. QED
          BY <3>3, <4>2, <4>3 DEF Refuses
      <3>5. CASE task[r].step \in Later /\ task[r].step \in Carrying
        BY <2>1, <2>3, <3>1, <3>3, <3>5 DEF Frame, Carrying, Later
      <3>6. CASE task[r].step \in {"set", "add", "count", "guard"}
        <4>1. task'[r].step \in {"idle", "add", "count", "guard"}
          <5>1. Quit(r) \/ Goto(r, "add") \/ Goto(r, "count") \/ Goto(r, "guard")
            BY <1>4, <3>6 DEF Step, Killed, Reconcile, Gather, Slots, SlotsBlind, Balance,
               BalanceBlind, PickNone, Pick, GatesRefuse, GatesPass, SwapOk, SwapUnseen,
               SwapFails, Bought, BoughtBlind, DeployOk, DeployFails, DeployUnseen,
               DeployOrphan, SetMeta, AddTracked, Count, Guard, At
          <5>2. QED
            BY <1>0, <5>1, QuitMoves, IdleFields, GotoMoves
        <4>2. QED
          BY <3>1, <4>1 DEF Carrying
      <3>7. QED
        BY <3>4, <3>5, <3>6 DEF Later, Carrying
    <2>5. QED
      BY <2>2, <2>3, <2>4 DEF Churn, Carrying
  <1>5. CASE ~Without({"overlap", "blind", "cut"})'
    BY <1>5 DEF Churn
  <1>6. CASE Redeploy
    BY <1>0, <1>6, RedeployFrame DEF Churn, ChurnOf, Booking, Cooling, Without
  <1>7. QED
    BY <1>1, <1>2, <1>3, <1>4, <1>5, <1>6 DEF Next

\* A pool is deployed into ChurnLimit times at most before one of its keys expires, closes
\* and re-signals as it may (pipeline 1125-1131, 1613-1624).
THEOREM ChurnHolds == Spec => []ChurnIsCooled
  <1>1. Base /\ Churn => ChurnIsCooled
    BY DEF Churn, ChurnOf, ChurnIsCooled
  <1>2. Base /\ Churn /\ [Next]_vars => (Base /\ Churn)'
    BY BaseNext, ChurnNext
  <1>3. Init => Base /\ Churn
    BY BaseInit, ChurnInit
  <1>4. QED
    BY <1>1, <1>2, <1>3, PTL DEF Spec

--------------------------------------------------------------------------------
(* What a step does to addresses and keys. *)

\* What a step does to the address of its run.
LEMMA AddrMoves ==
  ASSUME Base, TypeOK', NEW r \in Runs, Step(r) \/ Killed(r)
  PROVE  \/ task'[r].addr = None
         \/ task'[r].addr = task[r].addr
         \/ \E a \in Addrs : DeployOk(r, a) /\ task'[r].addr = a
  <1>0. TypeOK /\ AllStaged /\ TypeOK'
    BY DEF Base
  <1>1. CASE Quit(r)
    BY <1>0, <1>1, QuitMoves, IdleFields
  <1>2. CASE \E a \in Addrs : DeployOk(r, a)
    BY <1>0, <1>2, DeployMoves
  <1>3. CASE \E step : Goto(r, step)
    BY <1>0, <1>3, GotoMoves
  <1>4. CASE ~Quit(r) /\ (Balance(r) \/ BalanceBlind(r))
    BY <1>0, <1>4, SizingMoves DEF Balance, BalanceBlind, TypeOK
  <1>5. CASE ~Quit(r) /\ \E found \in SUBSET Pools, view \in SUBSET Addrs : Gather(r, found, view)
    BY <1>0, <1>5, GatherMoves
  <1>6. CASE \E p \in Pools : Pick(r, p)
    BY <1>0, <1>6, PickMoves
  <1>7. CASE ~Quit(r) /\ (SwapOk(r) \/ SwapUnseen(r))
    BY <1>0, <1>7, SwapMoves
  <1>8. CASE ~Quit(r) /\ Bought(r)
    BY <1>0, <1>8, BoughtMoves
  <1>9. \/ PickNone(r) \/ GatesRefuse(r) \/ SwapFails(r) \/ BoughtBlind(r) \/ Guard(r)
        \/ DeployFails(r) \/ DeployUnseen(r) \/ Killed(r)
        \/ \E a \in Addrs : DeployOrphan(r, a)
        => Quit(r)
    BY DEF PickNone, GatesRefuse, SwapFails, BoughtBlind, DeployFails, DeployUnseen,
       DeployOrphan, Guard, Killed
  <1>10. \/ \E view, young \in SUBSET Addrs : Reconcile(r, view, young)
         \/ Slots(r) \/ SlotsBlind(r) \/ GatesPass(r) \/ SetMeta(r) \/ AddTracked(r)
         \/ Count(r)
         => Quit(r) \/ \E step : Goto(r, step)
    BY DEF Reconcile, Slots, SlotsBlind, GatesPass, SetMeta, AddTracked, Count
  <1>11. QED
    BY <1>1, <1>2, <1>3, <1>4, <1>5, <1>6, <1>7, <1>8, <1>9, <1>10 DEF Step

\* What a step of a run does to the keys.
LEMMA KeysMove ==
  ASSUME Base, NEW r \in Runs, Step(r) \/ Killed(r)
  PROVE  \/ UNCHANGED <<tracked, meta>>
         \/ \E view, young \in SUBSET Addrs : Reconcile(r, view, young)
         \/ \E a \in Addrs : DeployOrphan(r, a)
         \/ SetMeta(r) \/ AddTracked(r)
  <1>1. \/ Slots(r) \/ SlotsBlind(r) \/ Balance(r) \/ BalanceBlind(r)
        \/ PickNone(r) \/ (\E p \in Pools : Pick(r, p)) \/ Killed(r)
        \/ \E found \in SUBSET Pools, view \in SUBSET Addrs : Gather(r, found, view)
        => UNCHANGED <<tracked, meta>>
    BY DEF Slots, SlotsBlind, Balance, BalanceBlind, PickNone, Pick, Gather, Killed, redis, keys
  <1>2. \/ GatesRefuse(r) \/ GatesPass(r) \/ SwapOk(r) \/ SwapUnseen(r) \/ SwapFails(r)
        \/ Bought(r) \/ BoughtBlind(r) \/ DeployFails(r) \/ DeployUnseen(r)
        \/ Count(r) \/ Guard(r) \/ \E a \in Addrs : DeployOk(r, a)
        => UNCHANGED <<tracked, meta>>
    BY DEF GatesRefuse, GatesPass, SwapOk, SwapUnseen, SwapFails, Bought, BoughtBlind,
       DeployFails, DeployUnseen, Count, Guard, DeployOk, redis, keys
  <1>3. QED
    BY <1>1, <1>2 DEF Step

--------------------------------------------------------------------------------
(* What a redeploy keeps of itself. *)

LEMMA MoveFields ==
  ASSUME TypeOK, Redeploy
  PROVE  \/ move' = Rest
         \/ \E kind \in Kinds, a \in Addrs : MoveClose(kind, a)
         \/ /\ move.step # "idle" /\ move'.label = move.label /\ move'.pool = move.pool
            /\ move'.kind = move.kind
            /\ \/ \E a \in Addrs : MoveDeploys(a) /\ move'.addr = a /\ move'.old = move.old
                                   /\ move'.step = IF move.kind \in InPlace THEN "drop" ELSE "set"
               \/ /\ MoveDrop /\ move'.addr = move.addr /\ move'.old = None
                  /\ move'.step = IF move.addr = None THEN "sell" ELSE "set"
               \/ /\ MoveUnseen /\ move'.addr = move.addr /\ move'.old = None
                  /\ move'.step = "late"
               \/ /\ MoveSets /\ move'.addr = move.addr /\ move'.old = move.old
                  /\ move'.step = "add"
               \/ /\ MoveSell \/ MoveKeeps \/ MoveLooks
                  /\ move.step = "sell" /\ move'.addr = move.addr /\ move'.old = move.old
                  /\ move'.step = "deploy"
  <1>0. move \in Redeploys
    BY DEF TypeOK
  <1>1. CASE \E a \in Addrs : MoveDeploys(a)
    <2>1. PICK a \in Addrs : MoveDeploys(a)
      BY <1>1
    <2>2. /\ move.step # "idle" /\ move'.label = move.label /\ move'.pool = move.pool
          /\ move'.kind = move.kind /\ move'.addr = a /\ move'.old = move.old
          /\ move'.step = IF move.kind \in InPlace THEN "drop" ELSE "set"
      BY <1>0, <2>1 DEF MoveDeploys, Moves, Redeploys
    <2>3. QED
      BY <2>1, <2>2
  <1>2. CASE MoveDrop
    BY <1>0, <1>2 DEF MoveDrop, Moves, Redeploys
  <1>3. CASE MoveUnseen
    BY <1>0, <1>3 DEF MoveUnseen, Moves, Redeploys
  <1>4. CASE MoveSets
    BY <1>0, <1>4 DEF MoveSets, Moves, MovesTo, Redeploys
  <1>5. CASE MoveSell \/ MoveKeeps \/ MoveLooks
    BY <1>0, <1>5 DEF MoveSell, MoveKeeps, MoveLooks, Moves, MovesTo, Redeploys
  <1>6. QED
    BY <1>1, <1>2, <1>3, <1>4, <1>5 DEF Redeploy, MoveFindsNone, MoveFails, MoveStrands,
       MoveLateLands, MoveLateDies, MoveAdds, MoveKilled

\* What a redeploy does to the keys.
LEMMA RedeployKeys ==
  ASSUME Redeploy
  PROVE  UNCHANGED <<tracked, meta>> \/ MoveDrop \/ MoveSets \/ MoveAdds
  <1>1. ASSUME NEW a \in Addrs, \/ \E kind \in Kinds : MoveClose(kind, a)
                                \/ MoveDeploys(a) \/ MoveStrands(a) \/ MoveLateLands(a)
        PROVE  UNCHANGED <<tracked, meta>>
    BY <1>1 DEF MoveClose, MoveDeploys, MoveStrands, MoveLateLands, redis, keys
  <1>2. CASE MoveSell \/ MoveKeeps \/ MoveLooks \/ MoveFindsNone \/ MoveFails \/ MoveUnseen
             \/ MoveLateDies \/ MoveKilled
    BY <1>2 DEF MoveSell, MoveKeeps, MoveLooks, MoveFindsNone, MoveFails, MoveUnseen,
       MoveLateDies, MoveKilled, redis, keys
  <1>3. QED
    BY <1>1, <1>2 DEF Redeploy

\* Its fields at rest, and what it knows by then.
LEMMA RestFields ==
  /\ Rest.step = "idle" /\ Rest.old = None /\ Rest.addr = None /\ Rest.label = None
  /\ Rest.got = 0 /\ Rest.pool = None
  BY DEF Rest

LEMMA MoveAt ==
  ASSUME TypeOK
  PROVE  /\ move.old \in Addrs \cup {None} /\ move.addr \in Addrs \cup {None}
         /\ move.addr # None => move.step \in {"drop", "set", "add"}
         /\ move.old # None => move.step \in {"drop", "deploy"}
         /\ move.step \in {"set", "add"} => move.addr \in Addrs
  <1>1. move \in Redeploys /\ (move.step = "idle" => move = Rest)
    BY DEF TypeOK, MoveSound
  <1>2. move.step \in {"idle", "drop", "sell", "deploy", "late", "set", "add"}
    BY <1>1 DEF Redeploys
  <1>3. move.old \in Addrs \cup {None} /\ move.addr \in Addrs \cup {None}
    BY <1>1 DEF Redeploys
  <1>4. QED
    BY <1>1, <1>2, <1>3, RestFields DEF TypeOK, MoveSound

\* Whose addresses and labels are whose: a redeploy's are no run's, the position it registers
\* is not tracked yet, and it gets the mode of the one it closed, which alone has a mode that
\* is not from a pipeline's run.
Labelled ==
  /\ \A r \in Runs : task[r].addr # None => task[r].addr \notin {move.old, move.addr}
  /\ move.addr # None => move.addr \notin tracked /\ move.addr # move.old
  /\ move.step = "add" => meta[move.addr] = move.label
  /\ "promoted" \notin spoiled =>
       /\ move.label # "promoted" /\ \A a \in Addrs : meta[a] # "promoted"
       /\ move.label \in Modes /\ move.old \in tracked => meta[move.old] = move.label

LEMMA LabelledInit == ASSUME Init PROVE Labelled
  BY NoneIsNothing, RestFields DEF Init, Idle, Labelled, Modes, Metas

LEMMA LabelledWorld == ASSUME Base, Labelled, World PROVE Labelled'
  <1>0. /\ TypeOK /\ UNCHANGED move /\ tracked \subseteq Addrs /\ meta \in [Addrs -> Metas \cup {None}]
        /\ \A r \in Runs : task'[r].addr = task[r].addr
        /\ move.addr \in Addrs \cup {None} /\ move.old \in Addrs \cup {None}
        /\ spoiled \subseteq spoiled' /\ None # "promoted"
    BY WorldFrame, MoveLeft, MoveAt, NoneIsNothing DEF Base, TypeOK, Metas
  <1>1. CASE UNCHANGED <<tracked, meta>>
    BY <1>0, <1>1 DEF Labelled
  <1>2. CASE \E a \in Addrs : Forget(a)
    <2>1. PICK a \in Addrs : Forget(a)
      BY <1>2
    <2>2. /\ a # move.addr /\ tracked' = tracked \ {a}
          /\ \A b \in Addrs : meta'[b] = IF b = a THEN None ELSE meta[b]
      BY <1>0, <2>1 DEF Forget
    <2>3. QED
      BY <1>0, <2>2, MoveAt DEF Labelled
  <1>3. CASE \E a \in Addrs : Adopt(a)
    <2>1. PICK a \in Addrs : Adopt(a)
      BY <1>3
    <2>2. /\ move.step \in {"idle", "late"} /\ tracked' \subseteq Addrs
          /\ \A b \in Addrs : meta'[b] = IF b = a THEN "adopted" ELSE meta[b]
      BY <1>0, <2>1 DEF Adopt
    <2>3. move.addr = None /\ move.old = None /\ None \notin Addrs
      BY <1>0, <2>2, MoveAt, NoneIsNothing
    <2>4. QED
      BY <1>0, <2>2, <2>3 DEF Labelled
  <1>4. QED
    BY <1>1, <1>2, <1>3 DEF World, Close, Sweep, Bar, Lapse, LapsePool, LateDies, LateLands,
       redis, keys

LEMMA LabelledStep ==
  ASSUME Base, Labelled, TypeOK', NEW r \in Runs, Step(r) \/ Killed(r) PROVE Labelled'
  <1>0. /\ TypeOK /\ UNCHANGED move /\ tracked \subseteq Addrs /\ meta \in [Addrs -> Metas \cup {None}]
        /\ \A s \in Runs \ {r} : task'[s] = task[s]
        /\ move.addr \in Addrs \cup {None} /\ move.old \in Addrs \cup {None}
        /\ spoiled \subseteq spoiled' /\ None # "promoted"
        /\ task[r] \in Tasks /\ Sound(task[r])
    BY Framed, MoveLeft, MoveAt, NoneIsNothing DEF Base, TypeOK, Metas, Frame
  <1>1. task'[r].addr # None => task'[r].addr \notin {move.old, move.addr}
    <2>1. CASE task'[r].addr = None \/ task'[r].addr = task[r].addr
      BY <2>1 DEF Labelled
    <2>2. CASE \E a \in Addrs : DeployOk(r, a) /\ task'[r].addr = a
      BY <2>2 DEF DeployOk, Lands
    <2>3. QED
      BY <2>1, <2>2, AddrMoves
  <1>2. \A s \in Runs : task'[s].addr # None => task'[s].addr \notin {move.old, move.addr}
    BY <1>0, <1>1 DEF Labelled
  <1>3. CASE UNCHANGED <<tracked, meta>>
    BY <1>0, <1>2, <1>3 DEF Labelled
  <1>4. CASE \E view, young \in SUBSET Addrs : Reconcile(r, view, young)
    <2>1. PICK view \in SUBSET Addrs, young \in SUBSET Addrs : Reconcile(r, view, young)
      BY <1>4
    <2> DEFINE gone == Addrs \ (view \cup young)
    <2>2. /\ move.addr \notin gone /\ tracked' = tracked \ gone
          /\ \A b \in Addrs : meta'[b] = IF b \in gone THEN None ELSE meta[b]
      BY <2>1 DEF Reconcile
    <2> HIDE DEF gone
    <2>3. move.step = "add" => move.addr \in Addrs
      BY <1>0, MoveAt
    <2>4. QED
      BY <1>0, <1>2, <2>2, <2>3 DEF Labelled
  <1>5. CASE \E a \in Addrs : DeployOrphan(r, a)
    <2>1. PICK a \in Addrs : DeployOrphan(r, a)
      BY <1>5
    <2>2. /\ a \notin {move.old, move.addr} /\ tracked' = tracked \cup {a}
          /\ \A b \in Addrs : meta'[b] = IF b = a THEN "orphan" ELSE meta[b]
      BY <1>0, <2>1 DEF DeployOrphan, Lands
    <2>3. move.step = "add" => move.addr \in Addrs
      BY <1>0, MoveAt
    <2>4. QED
      BY <1>0, <1>2, <2>2, <2>3 DEF Labelled
  <1>6. CASE SetMeta(r)
    <2>1. /\ task[r].addr \in Addrs /\ task[r].mode \in Modes /\ tracked' = tracked
          /\ \A b \in Addrs : meta'[b] = IF b = task[r].addr THEN task[r].mode ELSE meta[b]
      BY <1>0, <1>6 DEF SetMeta, At, Sound, Tasks
    <2>2. task[r].addr \notin {move.old, move.addr} /\ task[r].mode # "promoted"
      BY <2>1, NoneIsNothing DEF Labelled, Modes
    <2>3. move.step = "add" => move.addr \in Addrs
      BY <1>0, MoveAt
    <2>4. QED
      BY <1>0, <1>2, <2>1, <2>2, <2>3 DEF Labelled
  <1>7. CASE AddTracked(r)
    <2>1. /\ task[r].addr \in Addrs /\ meta' = meta /\ tracked' = tracked \cup {task[r].addr}
      BY <1>0, <1>7 DEF AddTracked, At, Sound, Tasks
    <2>2. task[r].addr \notin {move.old, move.addr}
      BY <2>1, NoneIsNothing DEF Labelled
    <2>3. QED
      BY <1>0, <1>2, <2>1, <2>2 DEF Labelled
  <1>8. QED
    BY <1>3, <1>4, <1>5, <1>6, <1>7, KeysMove

LEMMA LabelledMove == ASSUME Base, Labelled, TypeOK', Redeploy PROVE Labelled'
  <1>0. /\ TypeOK /\ tracked \subseteq Addrs /\ meta \in [Addrs -> Metas \cup {None}]
        /\ UNCHANGED task /\ spoiled \subseteq spoiled' /\ None # "promoted"
        /\ None \notin Addrs /\ None \notin Modes
        /\ move.addr \in Addrs \cup {None} /\ move.old \in Addrs \cup {None}
    BY RedeployFrame, MoveAt, NoneIsNothing DEF Base, TypeOK, Metas
  <1>1. /\ tracked' \subseteq Addrs
        /\ "promoted" \notin spoiled => \A a \in Addrs : meta'[a] # "promoted"
    <2>1. CASE UNCHANGED <<tracked, meta>>
      BY <1>0, <2>1 DEF Labelled
    <2>2. CASE MoveDrop
      BY <1>0, <2>2 DEF MoveDrop, Labelled
    <2>3. CASE MoveSets
      BY <1>0, <2>3 DEF MoveSets, Labelled
    <2>4. CASE MoveAdds
      BY <1>0, <2>4, MoveAt DEF MoveAdds, Moves, Labelled
    <2>5. QED
      BY <2>1, <2>2, <2>3, <2>4, RedeployKeys
  <1>2. CASE move' = Rest
    BY <1>0, <1>1, <1>2, RestFields DEF Labelled
  <1>3. CASE \E kind \in Kinds, a \in Addrs : MoveClose(kind, a)
    <2>1. PICK kind \in Kinds, a \in Addrs : MoveClose(kind, a)
      BY <1>3
    <2> DEFINE l == IF kind \in {"recenter", "compound"} THEN Relabel(a) ELSE "modeless"
    <2>2. /\ move'.old = a /\ move'.addr = None /\ move'.step # "add"
          /\ UNCHANGED <<tracked, meta>> /\ a \in tracked
          /\ \A s \in Runs : task[s].addr # a
          /\ move'.label = l
          /\ spoiled' = spoiled \cup {k \in {"promoted"} : kind \in {"recenter", "compound"}
                                                             /\ meta[a] \notin Modes}
      BY <2>1 DEF MoveClose, Fault, redis, keys
    <2>3. "promoted" \notin spoiled' => l # "promoted" /\ (l \in Modes => meta[a] = l)
      BY <2>2 DEF Relabel, Modes
    <2> HIDE DEF l
    <2>4. QED
      BY <1>0, <1>1, <2>2, <2>3 DEF Labelled
  <1>4. CASE /\ move'.label = move.label
             /\ \E a \in Addrs : MoveDeploys(a) /\ move'.addr = a /\ move'.old = move.old
                  /\ move'.step = IF move.kind \in InPlace THEN "drop" ELSE "set"
    <2>1. PICK a \in Addrs : MoveDeploys(a) /\ move'.addr = a
      BY <1>4
    <2>2. /\ a \notin tracked /\ a # move.old /\ \A s \in Runs : task[s].addr # a
          /\ UNCHANGED <<tracked, meta>>
      BY <2>1 DEF MoveDeploys, Lands, redis, keys
    <2>3. QED
      BY <1>0, <1>1, <1>4, <2>1, <2>2 DEF Labelled
  <1>5. CASE /\ MoveDrop /\ move'.label = move.label /\ move'.addr = move.addr
             /\ move'.old = None /\ move'.step # "add"
    <2>1. tracked' \subseteq tracked
      BY <1>5 DEF MoveDrop
    <2>2. QED
      BY <1>0, <1>1, <1>5, <2>1 DEF Labelled
  <1>6. CASE /\ MoveUnseen /\ move'.label = move.label /\ move'.addr = move.addr
             /\ move'.old = None /\ move'.step # "add"
    <2>1. UNCHANGED <<tracked, meta>>
      BY <1>6 DEF MoveUnseen, keys
    <2>2. QED
      BY <1>0, <1>1, <1>6, <2>1 DEF Labelled
  <1>7. CASE /\ MoveSets /\ move'.label = move.label /\ move'.addr = move.addr
             /\ move'.old = move.old /\ move'.step = "add"
    <2>1. /\ move.addr \in Addrs /\ move.old = None /\ tracked' = tracked
          /\ meta'[move.addr] = move.label
      BY <1>0, <1>7, MoveAt DEF MoveSets, Moves
    <2>2. QED
      BY <1>0, <1>1, <1>7, <2>1 DEF Labelled
  <1>8. CASE /\ MoveSell \/ MoveKeeps \/ MoveLooks
             /\ move'.label = move.label /\ move'.addr = move.addr
             /\ move'.old = move.old /\ move'.step # "add"
    <2>1. UNCHANGED <<tracked, meta>>
      BY <1>8 DEF MoveSell, MoveKeeps, MoveLooks, redis, keys
    <2>2. QED
      BY <1>0, <1>1, <1>8, <2>1 DEF Labelled
  <1>9. QED
    BY <1>0, <1>2, <1>3, <1>4, <1>5, <1>6, <1>7, <1>8, MoveFields

LEMMA LabelledNext == ASSUME Base, Labelled, [Next]_vars PROVE Labelled'
  <1>0. TypeOK'
    BY NextTyped DEF Base
  <1>1. CASE UNCHANGED vars
    BY <1>1 DEF Labelled, vars, redis, keys, past
  <1>2. ASSUME NEW r \in Runs, NEW call \in Calls, Start(r, call) PROVE Labelled'
    <2>1. /\ \A s \in Runs \ {r} : task'[s] = task[s]
          /\ task'[r].addr = None /\ UNCHANGED <<tracked, meta, move>>
          /\ spoiled \subseteq spoiled'
      BY <1>2, StartTask DEF Base, redis, keys
    <2>2. QED
      BY <2>1 DEF Labelled
  <1>3. QED
    BY <1>0, <1>1, <1>2, LabelledWorld, LabelledStep, LabelledMove DEF Next

--------------------------------------------------------------------------------
(* The slots. *)

\* The positions of a mode, and a place for the one that a redeploy will register in it.
Place == CHOOSE x : x \notin Addrs \cup {None}
Used(m)     == {a \in tracked : meta[a] = m} \cup {x \in {Place} : Returning(m)}
UsedNext(m) ==
  {a \in tracked' : meta'[a] = m} \cup
  {x \in {Place} : /\ move'.step \in {"drop", "sell", "deploy", "set", "add"}
                   /\ move'.label = m /\ move'.old \notin tracked'}

\* No more slots are taken than before, those of the runs that register left aside or not.
Asides == {None} \cup {task[r].addr : r \in Runs}
NoMore(m) ==
  \A x \in Asides : Cardinality(UsedNext(m) \ {x}) <= Cardinality(Used(m) \ {x})

\* What takes a slot from a mode.
Crowding == {"twins", "blind", "slot_gap", "promoted"}

\* Addresses are one run's each, a registered one has its run's mode, analyses stop early.
Named ==
  /\ \A r, s \in Runs : r # s /\ task[r].addr # None => task[r].addr # task[s].addr
  /\ \A r \in Runs : task[r].step = "add" /\ meta[task[r].addr] \in Modes =>
                       meta[task[r].addr] = task[r].mode
  /\ \A r \in Runs : task[r].step \in Later => task[r].source # "analyze"

Granting == {"balance", "gather", "filter", "swap", "bought", "gates", "deploy", "set", "add"}
Granted(k) == k.step \in Granting /\ k.source # "analyze"

\* A run that was granted a slot has it until it is registered.
Slotted ==
  Without(Crowding) =>
    /\ \A m \in Modes : Cardinality(Used(m)) <= MaxPositions[m]
    /\ \A r \in Runs : Granted(task[r]) =>
         Cardinality(Used(task[r].mode) \ {task[r].addr}) < MaxPositions[task[r].mode]

LEMMA FewerIn ==
  ASSUME NEW S, NEW T \in SUBSET S, IsFiniteSet(S)
  PROVE  /\ Cardinality(S) \in Nat /\ Cardinality(T) \in Nat
         /\ Cardinality(T) <= Cardinality(S) /\ IsFiniteSet(T)
  BY FS_Subset, FS_CardinalityType

LEMMA PlaceIsNew == Place \notin Addrs /\ Place # None
  <1>1. \E x : x \notin Addrs \cup {None}
    BY NoSetContainsEverything
  <1>2. QED
    BY <1>1 DEF Place

LEMMA UsedFinite ==
  ASSUME TypeOK, NEW m
  PROVE  /\ IsFiniteSet(tracked) /\ IsFiniteSet(Used(m)) /\ Cardinality(Used(m)) \in Nat
         /\ \A x : IsFiniteSet(Used(m) \ {x}) /\ Cardinality(Used(m) \ {x}) \in Nat
         /\ None \notin Used(m)
  <1>1. IsFiniteSet(tracked)
    BY DeployAssumption, FS_Subset DEF TypeOK
  <1>2. IsFiniteSet(tracked \cup {Place})
    BY <1>1, FS_AddElement
  <1>3. /\ Used(m) \in SUBSET (tracked \cup {Place})
        /\ \A x : Used(m) \ {x} \in SUBSET (tracked \cup {Place})
    BY DEF Used
  <1>4. None \notin Used(m)
    BY PlaceIsNew, NoneIsNothing DEF Used, TypeOK
  <1>5. QED
    BY <1>1, <1>2, <1>3, <1>4, FewerIn

LEMMA UsedNextFinite ==
  ASSUME TypeOK', NEW m
  PROVE  IsFiniteSet(UsedNext(m)) /\ None \notin UsedNext(m)
  <1>1. IsFiniteSet(tracked')
    BY DeployAssumption, FS_Subset DEF TypeOK
  <1>2. IsFiniteSet(tracked' \cup {Place})
    BY <1>1, FS_AddElement
  <1>3. UsedNext(m) \in SUBSET (tracked' \cup {Place})
    BY DEF UsedNext, Returning
  <1>4. None \notin UsedNext(m)
    BY PlaceIsNew, NoneIsNothing DEF UsedNext, Returning, TypeOK
  <1>5. QED
    BY <1>2, <1>3, <1>4, FS_Subset

LEMMA OneMore ==
  ASSUME NEW S, IsFiniteSet(S), NEW x, NEW T, T \subseteq S \cup {x}
  PROVE  /\ Cardinality(T) \in Nat /\ Cardinality(S) \in Nat
         /\ Cardinality(T) <= Cardinality(S) + 1
  <1>1. /\ IsFiniteSet(S \cup {x}) /\ Cardinality(S) \in Nat
        /\ Cardinality(S \cup {x}) <= Cardinality(S) + 1
    <2>1. Cardinality(S) \in Nat
      BY FS_CardinalityType
    <2>2. /\ IsFiniteSet(S \cup {x})
          /\ \/ Cardinality(S \cup {x}) = Cardinality(S)
             \/ Cardinality(S \cup {x}) = Cardinality(S) + 1
      BY FS_AddElement
    <2>3. QED
      BY <2>1, <2>2
  <1>2. /\ Cardinality(T) <= Cardinality(S \cup {x})
        /\ Cardinality(T) \in Nat /\ Cardinality(S \cup {x}) \in Nat
    BY <1>1, FewerIn
  <1>3. QED
    BY <1>1, <1>2

\* One for another is no more.
LEMMA Traded ==
  ASSUME NEW S, IsFiniteSet(S), NEW T, NEW y \in S, NEW z, T \subseteq (S \ {y}) \cup {z}
  PROVE  Cardinality(T) <= Cardinality(S)
  <1>1. /\ IsFiniteSet(S \ {y}) /\ Cardinality(S \ {y}) = Cardinality(S) - 1
        /\ Cardinality(S) \in Nat
    BY FS_RemoveElement, FS_CardinalityType
  <1> DEFINE U == (S \ {y}) \cup {z}
  <1>2. /\ IsFiniteSet(U) /\ Cardinality(S \ {y}) \in Nat
        /\ Cardinality(U) <= Cardinality(S \ {y}) + 1
    BY <1>1, FS_AddElement, FS_CardinalityType
  <1>3. T \in SUBSET U
    OBVIOUS
  <1> HIDE DEF U
  <1>4. Cardinality(T) <= Cardinality(U) /\ Cardinality(T) \in Nat /\ Cardinality(U) \in Nat
    BY <1>2, <1>3, FewerIn
  <1>5. QED
    BY <1>1, <1>2, <1>4

LEMMA SubsetNoMore ==
  ASSUME TypeOK, NEW m, UsedNext(m) \subseteq Used(m)
  PROVE  NoMore(m)
  <1>1. ASSUME NEW x \in Asides
        PROVE  Cardinality(UsedNext(m) \ {x}) <= Cardinality(Used(m) \ {x})
    <2>1. IsFiniteSet(Used(m) \ {x}) /\ UsedNext(m) \ {x} \in SUBSET (Used(m) \ {x})
      BY UsedFinite
    <2>2. QED
      BY <2>1, FewerIn
  <1>2. QED
    BY <1>1 DEF NoMore

LEMMA TradeNoMore ==
  ASSUME TypeOK, NEW m, NEW y \in Used(m) \ Asides, NEW z,
         UsedNext(m) \subseteq (Used(m) \ {y}) \cup {z}
  PROVE  NoMore(m)
  <1>1. ASSUME NEW x \in Asides
        PROVE  Cardinality(UsedNext(m) \ {x}) <= Cardinality(Used(m) \ {x})
    <2> DEFINE S == Used(m) \ {x}
    <2>1. IsFiniteSet(S) /\ y \in S /\ UsedNext(m) \ {x} \subseteq (S \ {y}) \cup {z}
      BY <1>1, UsedFinite
    <2> HIDE DEF S
    <2>2. Cardinality(UsedNext(m) \ {x}) <= Cardinality(S)
      BY <2>1, Traded
    <2>3. QED
      BY <2>2 DEF S
  <1>2. QED
    BY <1>1 DEF NoMore

\* The place is nobody's address, and what a redeploy closes is not what a run registers.
LEMMA PlacesApart ==
  ASSUME TypeOK, Labelled
  PROVE  Place \notin Asides /\ (move.old # None => move.old \notin Asides)
  <1>1. \A r \in Runs : task[r].addr \in Addrs \cup {None}
    BY DEF TypeOK, Tasks
  <1>2. QED
    BY <1>1, PlaceIsNew DEF Asides, Labelled

\* Keys that go beside a redeploy leave it its place.
LEMMA DropsNoMore ==
  ASSUME Base, Labelled, NEW m \in Modes, UNCHANGED move, "promoted" \notin spoiled,
         tracked' \subseteq tracked, \A a \in Addrs : meta'[a] = m => meta[a] = m
  PROVE  NoMore(m)
  <1>0. TypeOK /\ tracked \subseteq Addrs
    BY DEF Base, TypeOK
  <1>1. CASE Returning(m)' => Returning(m)
    <2>1. UsedNext(m) \subseteq Used(m)
      BY <1>0, <1>1 DEF Used, UsedNext, Returning
    <2>2. QED
      BY <1>0, <2>1, SubsetNoMore
  <1>2. CASE Returning(m)' /\ ~Returning(m)
    <2>1. move.label = m /\ move.old \in tracked /\ move.old \notin tracked'
      BY <1>2 DEF Returning
    <2>2. meta[move.old] = m /\ move.old # None
      BY <1>0, <2>1, NoneIsNothing DEF Labelled
    <2>3. move.old \in Used(m) \ Asides
      BY <1>0, <2>1, <2>2, PlacesApart DEF Used
    <2>4. UsedNext(m) \subseteq (Used(m) \ {move.old}) \cup {Place}
      BY <1>0, <2>1 DEF Used, UsedNext, Returning
    <2>5. QED
      BY <1>0, <2>3, <2>4, TradeNoMore
  <1>3. QED
    BY <1>1, <1>2

LEMMA NamedInit == ASSUME Init PROVE Named
  BY DEF Init, Idle, Named, Later

LEMMA NamedNext == ASSUME Base, Labelled, Named, [Next]_vars PROVE Named'
  <1>0. TypeOK' /\ TypeOK /\ AllStaged
    BY NextTyped DEF Base
  <1>1. CASE UNCHANGED vars
    BY <1>1 DEF Named, vars, redis, keys
  <1>2. CASE World
    <2>1. \A r \in Runs : /\ task'[r].step = task[r].step /\ task'[r].mode = task[r].mode
                          /\ task'[r].source = task[r].source /\ task'[r].addr = task[r].addr
      BY <1>0, <1>2, WorldFrame
    <2>2. \A a \in Addrs : meta'[a] \in Modes => meta'[a] = meta[a]
      <3>1. "adopted" \notin Modes /\ None \notin Modes
        BY NoneIsNothing DEF Modes
      <3>2. QED
        BY <1>0, <1>2, <3>1 DEF World, Close, Forget, Adopt, Sweep, Bar, Lapse, LapsePool,
           LateDies, LateLands, redis, keys, TypeOK
    <2>3. \A r \in Runs : task[r].step = "add" => task[r].addr \in Addrs
      BY <1>0 DEF TypeOK, Sound, Tasks
    <2>4. QED
      BY <2>1, <2>2, <2>3 DEF Named
  <1>3. ASSUME NEW r \in Runs, NEW call \in Calls, Start(r, call)
        PROVE  Named'
    <2>1. /\ \A s \in Runs \ {r} : task'[s] = task[s]
          /\ task'[r].step = "reconcile" /\ task'[r].addr = None /\ meta' = meta
      BY <1>0, <1>3, StartTask DEF redis, keys
    <2>2. QED
      BY <2>1 DEF Named, Later
  <1>4. ASSUME NEW r \in Runs, Step(r) \/ Killed(r)
        PROVE  Named'
    <2>1. Frame(r) /\ \A s \in Runs \ {r} : task'[s] = task[s]
      BY <1>0, <1>4, Framed DEF Frame
    <2>2. ASSUME NEW s \in Runs \ {r}
          PROVE  task'[r].addr # None => task'[r].addr # task[s].addr
      <3>1. CASE task'[r].addr = None \/ task'[r].addr = task[r].addr
        BY <3>1 DEF Named
      <3>2. CASE \E a \in Addrs : DeployOk(r, a) /\ task'[r].addr = a
        BY <3>2 DEF DeployOk, Lands
      <3>3. QED
        BY <1>0, <1>4, <3>1, <3>2, AddrMoves
    <2>3. ASSUME NEW s \in Runs, task'[s].step = "add", meta'[task'[s].addr] \in Modes
          PROVE  meta'[task'[s].addr] = task'[s].mode
      <3>1. task'[s].addr \in Addrs
        BY <1>0, <2>3 DEF TypeOK, Sound, Tasks
      <3>2. CASE s = r
        <4>1. SetMeta(r)
          <5>1. task'[r] # Idle
            BY <2>3, <3>2, IdleFields
          <5>2. Quit(r) => FALSE
            BY <1>0, <5>1, QuitMoves
          <5>3. task'[r].step \notin Early \cup Carrying
            BY <2>3, <3>2 DEF Early, Carrying
          <5>4. task[r].step \in Later
            BY <2>1, <2>3, <3>2, <1>0, PickMoves DEF Frame, Later
          <5>5. \A step : Goto(r, step) => step = "add"
            BY <1>0, <2>3, <3>2, GotoMoves
          <5>6. task[r].step \notin Early
            BY <5>4 DEF Early, Later
          <5>7. CASE SwapOk(r) \/ SwapUnseen(r) \/ Bought(r) \/ \E a \in Addrs : DeployOk(r, a)
            BY <1>0, <2>3, <3>2, <5>2, <5>7, SwapMoves, BoughtMoves, DeployMoves
          <5>8. CASE GatesPass(r) \/ AddTracked(r) \/ Count(r)
            BY <5>2, <5>5, <5>8 DEF GatesPass, AddTracked, Count
          <5>9. QED
            BY <1>4, <5>2, <5>6, <5>7, <5>8 DEF Step, Killed, Reconcile, Gather, Slots,
               SlotsBlind, Balance, BalanceBlind, PickNone, Pick, GatesRefuse, SwapFails,
               BoughtBlind, DeployFails, DeployUnseen, DeployOrphan, Guard, At, Early
        <4>2. task[r].step = "set" /\ task'[r].addr = task[r].addr /\ task'[r].mode = task[r].mode
          BY <1>0, <4>1, GotoMoves DEF SetMeta, At
        <4>3. meta'[task[r].addr] = task[r].mode
          BY <1>0, <3>1, <3>2, <4>1, <4>2 DEF SetMeta, TypeOK
        <4>4. QED
          BY <3>2, <4>2, <4>3
      <3>3. CASE s # r
        <4>1. task'[s] = task[s]
          BY <2>1, <3>3
        <4>2. meta'[task[s].addr] = meta[task[s].addr]
          <5>1. CASE UNCHANGED <<tracked, meta>> \/ AddTracked(r)
            BY <5>1 DEF AddTracked
          <5>2. CASE \E view, young \in SUBSET Addrs : Reconcile(r, view, young)
            BY <3>1, <4>1, <5>2 DEF Reconcile
          <5>3. CASE \E a \in Addrs : DeployOrphan(r, a)
            BY <1>0, <3>1, <4>1, <5>3 DEF DeployOrphan, Lands, TypeOK
          <5>4. CASE SetMeta(r)
            <6>1. task[r].addr # task[s].addr
              BY <1>0, <3>1, <3>3, <4>1, NoneIsNothing DEF Named
            <6>2. QED
              BY <1>0, <3>1, <4>1, <5>4, <6>1 DEF SetMeta, TypeOK
          <5>5. QED
            BY <1>4, <5>1, <5>2, <5>3, <5>4, KeysMove
        <4>3. QED
          BY <2>3, <4>1, <4>2 DEF Named
      <3>4. QED
        BY <3>2, <3>3
    <2>4. task'[r].step \in Later => task'[r].source # "analyze"
      <3>1. SUFFICES ASSUME task'[r].step \in Later PROVE task'[r].source # "analyze"
        OBVIOUS
      <3>2. task'[r].source = task[r].source
        BY <2>1, <3>1 DEF Frame, Later
      <3>3. QED
        BY <2>1, <3>1, <3>2 DEF Frame, Named, Pick
    <2>5. QED
      BY <2>1, <2>2, <2>3, <2>4 DEF Named
  <1>5. CASE Redeploy
    <2>1. UNCHANGED task
      BY <1>0, <1>5, RedeployFrame
    <2>2. ASSUME NEW r \in Runs, task[r].step = "add", meta'[task[r].addr] \in Modes
          PROVE  meta'[task[r].addr] = meta[task[r].addr]
      <3>1. task[r].addr \in Addrs /\ task[r].addr # move.addr /\ None \notin Modes
        BY <1>0, <2>2, NoneIsNothing DEF TypeOK, Sound, Tasks, Labelled
      <3>2. CASE UNCHANGED <<tracked, meta>> \/ MoveAdds
        BY <3>2 DEF MoveAdds
      <3>3. CASE MoveDrop
        BY <1>0, <2>2, <3>1, <3>3 DEF MoveDrop, TypeOK
      <3>4. CASE MoveSets
        BY <1>0, <2>2, <3>1, <3>4 DEF MoveSets, TypeOK
      <3>5. QED
        BY <1>5, <3>2, <3>3, <3>4, RedeployKeys
    <2>3. QED
      BY <2>1, <2>2 DEF Named
  <1>6. QED
    BY <1>1, <1>2, <1>3, <1>4, <1>5 DEF Next

\* Only registering fills a slot, and only one of its run's mode.
LEMMA UsedStep ==
  ASSUME Base, Labelled, Named, NEW r \in Runs, Step(r) \/ Killed(r), NEW m \in Modes,
         "promoted" \notin spoiled
  PROVE  \/ NoMore(m)
         \/ /\ m = task[r].mode /\ task[r].step \in {"set", "add"}
            /\ UsedNext(m) \subseteq Used(m) \cup {task[r].addr}
  <1>0. /\ TypeOK /\ Sound(task[r]) /\ task[r] \in Tasks /\ m # None /\ m # "orphan"
        /\ UNCHANGED move /\ tracked \subseteq Addrs
    BY NoneIsNothing, MoveLeft DEF Base, TypeOK, Modes
  <1>1. CASE UNCHANGED <<tracked, meta>>
    <2>1. UsedNext(m) \subseteq Used(m)
      BY <1>0, <1>1 DEF Used, UsedNext, Returning
    <2>2. QED
      BY <1>0, <2>1, SubsetNoMore
  <1>2. CASE \E view, young \in SUBSET Addrs : Reconcile(r, view, young)
    <2>1. PICK view \in SUBSET Addrs, young \in SUBSET Addrs : Reconcile(r, view, young)
      BY <1>2
    <2>2. tracked' \subseteq tracked /\ \A a \in Addrs : meta'[a] = m => meta[a] = m
      BY <1>0, <2>1 DEF Reconcile
    <2>3. QED
      BY <1>0, <2>2, DropsNoMore
  <1>3. CASE \E a \in Addrs : DeployOrphan(r, a)
    <2>1. PICK a \in Addrs : DeployOrphan(r, a)
      BY <1>3
    <2>2. /\ tracked' = tracked \cup {a} /\ meta' = [meta EXCEPT ![a] = "orphan"]
          /\ a # move.old
      BY <2>1 DEF DeployOrphan, Lands
    <2>3. \A b \in Addrs : meta'[b] = m => b # a /\ meta[b] = m
      BY <1>0, <2>2 DEF TypeOK
    <2>4. UsedNext(m) \subseteq Used(m)
      BY <1>0, <2>2, <2>3 DEF Used, UsedNext, Returning
    <2>5. QED
      BY <1>0, <2>4, SubsetNoMore
  <1>4. CASE SetMeta(r)
    <2>1. /\ task[r].step = "set" /\ tracked' = tracked
          /\ meta' = [meta EXCEPT ![task[r].addr] = task[r].mode]
      BY <1>4 DEF SetMeta, At
    <2>2. \A b \in Addrs : meta'[b] = m =>
            meta[b] = m \/ (b = task[r].addr /\ m = task[r].mode)
      BY <1>0, <2>1 DEF TypeOK
    <2>3. UsedNext(m) \subseteq Used(m) \/ m = task[r].mode
      BY <1>0, <2>1, <2>2 DEF Used, UsedNext, Returning
    <2>4. UsedNext(m) \subseteq Used(m) \cup {task[r].addr}
      BY <1>0, <2>1, <2>2 DEF Used, UsedNext, Returning
    <2>5. QED
      BY <1>0, <2>1, <2>3, <2>4, SubsetNoMore
  <1>5. CASE AddTracked(r)
    <2>1. /\ task[r].step = "add" /\ meta' = meta
          /\ tracked' = tracked \cup {task[r].addr}
      BY <1>5 DEF AddTracked, At
    <2>2. meta[task[r].addr] = m => m = task[r].mode
      BY <2>1 DEF Named
    <2>3. task[r].addr # move.old
      BY <1>0, <2>1 DEF Labelled, Sound
    <2>4. UsedNext(m) \subseteq Used(m) \/ m = task[r].mode
      BY <1>0, <2>1, <2>2, <2>3 DEF Used, UsedNext, Returning
    <2>5. UsedNext(m) \subseteq Used(m) \cup {task[r].addr}
      BY <1>0, <2>1, <2>2, <2>3 DEF Used, UsedNext, Returning
    <2>6. QED
      BY <1>0, <2>1, <2>4, <2>5, SubsetNoMore
  <1>6. QED
    BY <1>1, <1>2, <1>3, <1>4, <1>5, KeysMove

LEMMA UsedWorld ==
  ASSUME Base, Labelled, World, NEW m \in Modes, "promoted" \notin spoiled PROVE NoMore(m)
  <1>0. /\ TypeOK /\ m # None /\ m # "adopted" /\ tracked \subseteq Addrs /\ UNCHANGED move
    BY NoneIsNothing, MoveLeft DEF Base, TypeOK, Modes
  <1>1. CASE \E a \in Addrs : Forget(a)
    <2>1. PICK a \in Addrs : Forget(a)
      BY <1>1
    <2>2. tracked' \subseteq tracked /\ \A b \in Addrs : meta'[b] = m => meta[b] = m
      BY <1>0, <2>1 DEF Forget, TypeOK
    <2>3. QED
      BY <1>0, <2>2, DropsNoMore
  <1>2. CASE \E a \in Addrs : Adopt(a)
    <2>1. PICK a \in Addrs : Adopt(a)
      BY <1>2
    <2>2. /\ tracked' = tracked \cup {a} /\ ~Returning(m)'
          /\ \A b \in Addrs : meta'[b] = m => meta[b] = m /\ b # a
      BY <1>0, <2>1 DEF Adopt, TypeOK, Returning
    <2>3. UsedNext(m) \subseteq Used(m)
      BY <1>0, <2>2 DEF Used, UsedNext, Returning
    <2>4. QED
      BY <1>0, <2>3, SubsetNoMore
  <1>3. CASE UNCHANGED <<tracked, meta>>
    <2>1. UsedNext(m) \subseteq Used(m)
      BY <1>0, <1>3 DEF Used, UsedNext, Returning
    <2>2. QED
      BY <1>0, <2>1, SubsetNoMore
  <1>4. QED
    BY <1>1, <1>2, <1>3 DEF World, Close, Sweep, Bar, Lapse, LapsePool, LateDies, LateLands,
       redis, keys

\* A redeploy takes the place of what it closed, and leaves it to what it registers.
LEMMA UsedMove ==
  ASSUME Base, Labelled, Redeploy, NEW m \in Modes, "promoted" \notin spoiled' PROVE NoMore(m)
  <1>0. /\ TypeOK /\ tracked \subseteq Addrs /\ None \notin Addrs /\ m # None
        /\ "promoted" \notin spoiled /\ move.old \in Addrs \cup {None}
    BY RedeployFrame, MoveAt, NoneIsNothing DEF Base, TypeOK
  <1>1. SUFFICES ASSUME ~(UsedNext(m) \subseteq Used(m)) PROVE NoMore(m)
    BY <1>0, SubsetNoMore
  <1>2. CASE MoveDrop
    <2>1. /\ tracked' = tracked \ {move.old} /\ move.old \in Addrs /\ move.step = "drop"
          /\ \A a \in Addrs : meta'[a] = m => meta[a] = m
          /\ move'.label = move.label
      BY <1>0, <1>2 DEF MoveDrop, Moves, TypeOK, MoveSound, Redeploys
    <2>2. CASE Returning(m)' /\ ~Returning(m)
      <3>1. move.label = m /\ move.old \in tracked
        BY <2>1, <2>2 DEF Returning
      <3>2. move.old \in Used(m) \ Asides
        BY <1>0, <2>1, <3>1, PlacesApart DEF Labelled, Used
      <3>3. UsedNext(m) \subseteq (Used(m) \ {move.old}) \cup {Place}
        BY <1>0, <2>1 DEF Used, UsedNext, Returning
      <3>4. QED
        BY <1>0, <3>2, <3>3, TradeNoMore
    <2>3. CASE Returning(m)' => Returning(m)
      BY <1>0, <1>1, <2>1, <2>3 DEF Used, UsedNext, Returning
    <2>4. QED
      BY <2>2, <2>3
  <1>3. CASE MoveSets
    <2>1. /\ tracked' = tracked /\ meta' = [meta EXCEPT ![move.addr] = move.label]
          /\ move.addr \in Addrs /\ move.addr \notin tracked /\ move.step = "set"
          /\ move'.label = move.label /\ move'.old = move.old
      BY <1>0, <1>3, MoveAt DEF MoveSets, Moves, MovesTo, Labelled, TypeOK, Redeploys
    <2>2. QED
      BY <1>0, <1>1, <2>1 DEF Used, UsedNext, Returning, TypeOK
  <1>4. CASE MoveAdds
    <2>1. /\ tracked' = tracked \cup {move.addr} /\ meta' = meta /\ move.step = "add"
          /\ meta[move.addr] = move.label /\ move.old = None /\ ~Returning(m)'
      BY <1>0, <1>4, MoveAt DEF MoveAdds, Moves, Labelled, Returning, Rest
    <2>2. CASE move.label = m
      <3>1. Returning(m)
        BY <1>0, <2>1, <2>2 DEF Returning
      <3>2. Place \in Used(m) \ Asides
        BY <1>0, <3>1, PlacesApart DEF Used
      <3>3. UsedNext(m) \subseteq (Used(m) \ {Place}) \cup {move.addr}
        BY <1>0, <2>1, PlaceIsNew DEF Used, UsedNext, Returning
      <3>4. QED
        BY <1>0, <3>2, <3>3, TradeNoMore
    <2>3. CASE move.label # m
      BY <1>0, <1>1, <2>1, <2>3 DEF Used, UsedNext, Returning
    <2>4. QED
      BY <2>2, <2>3
  <1>5. CASE UNCHANGED <<tracked, meta>>
    <2>1. Returning(m)' /\ ~Returning(m)
      BY <1>1, <1>5 DEF Used, UsedNext, Returning
    <2>2. CASE \E kind \in Kinds, a \in Addrs : MoveClose(kind, a)
      BY <1>5, <2>1, <2>2 DEF MoveClose, Returning
    <2>3. CASE move' = Rest
      BY <2>1, <2>3 DEF Returning, Rest
    <2>4. ASSUME NEW a \in Addrs, MoveDeploys(a), move'.old = move.old, move'.label = move.label
          PROVE  FALSE
      BY <1>5, <2>1, <2>4 DEF MoveDeploys, Moves, Returning
    <2>5. CASE MoveUnseen /\ move'.step = "late"
      BY <2>1, <2>5 DEF Returning
    <2>6. CASE move.step = "sell" /\ move'.old = move.old /\ move'.label = move.label
      BY <1>5, <2>1, <2>6 DEF Returning
    <2>7. CASE MoveDrop \/ MoveSets
      BY <1>2, <1>3, <2>7
    <2>8. QED
      BY <1>0, <2>2, <2>3, <2>4, <2>5, <2>6, <2>7, MoveFields
  <1>6. QED
    BY <1>2, <1>3, <1>4, <1>5, RedeployKeys

\* Where a run has a slot it had it before, or was granted it.
LEMMA GrantedBefore ==
  ASSUME Base, Named, TypeOK', NEW r \in Runs, Step(r) \/ Killed(r), Granted(task'[r])
  PROVE  /\ task'[r].mode = task[r].mode /\ task[r].source # "analyze"
         /\ \/ Granted(task[r]) /\ task'[r].addr = task[r].addr
            \/ Granted(task[r]) /\ task[r].step = "deploy"
            \/ (Slots(r) \/ SlotsBlind(r)) /\ ~Quit(r) /\ task'[r].addr = None
  <1>0. TypeOK /\ AllStaged /\ Frame(r) /\ Sound(task'[r]) /\ Sound(task[r])
    BY Framed DEF Base, TypeOK
  <1>1. task'[r].step # "idle" /\ ~Quit(r)
    BY <1>0, QuitMoves, IdleFields DEF Granted, Granting
  <1>2. task'[r].mode = task[r].mode /\ task'[r].source = task[r].source
    BY <1>0, <1>1 DEF Frame
  <1>3. task[r].source # "analyze"
    BY <1>2 DEF Granted
  <1>4. task'[r].addr = None \/ task'[r].addr = task[r].addr \/ \E a \in Addrs : DeployOk(r, a)
    BY AddrMoves
  <1>5. CASE \E a \in Addrs : DeployOk(r, a)
    BY <1>2, <1>3, <1>5 DEF DeployOk, At, Granted, Granting
  <1>6. CASE Slots(r) \/ SlotsBlind(r)
    <2>1. Goto(r, "balance")
      BY <1>1, <1>6 DEF Slots, SlotsBlind
    <2>2. task'[r].step = "balance"
      BY <1>0, <2>1, GotoMoves
    <2>3. task'[r].addr = None
      BY <1>0, <2>2 DEF Sound
    <2>4. QED
      BY <1>1, <1>2, <1>3, <1>6, <2>3
  <1>7. CASE ~(Slots(r) \/ SlotsBlind(r) \/ \E a \in Addrs : DeployOk(r, a))
    <2>1. ~\E view, young \in SUBSET Addrs : Reconcile(r, view, young)
      <3>1. ~Goto(r, "slots")
        BY <1>0, GotoMoves DEF Granted, Granting
      <3>2. QED
        BY <3>1 DEF Reconcile
    <2>2. ~Count(r) /\ ~Guard(r) /\ ~Killed(r)
      <3>1. ~Goto(r, "guard")
        BY <1>0, GotoMoves DEF Granted, Granting
      <3>2. QED
        BY <1>1, <3>1 DEF Count, Guard, Killed
    <2>3. task[r].step \in Granting
      <3>1. CASE \/ Balance(r) \/ BalanceBlind(r) \/ PickNone(r) \/ SetMeta(r) \/ AddTracked(r)
                 \/ (\E p \in Pools : Pick(r, p))
                 \/ \E found \in SUBSET Pools, view \in SUBSET Addrs : Gather(r, found, view)
        BY <3>1 DEF Balance, BalanceBlind, PickNone, SetMeta, AddTracked, Pick, Gather, At,
           Granting
      <3>2. CASE \/ GatesRefuse(r) \/ GatesPass(r) \/ SwapOk(r) \/ SwapUnseen(r)
                 \/ SwapFails(r) \/ Bought(r) \/ BoughtBlind(r) \/ DeployFails(r)
                 \/ DeployUnseen(r) \/ \E a \in Addrs : DeployOrphan(r, a)
        BY <3>2 DEF GatesRefuse, GatesPass, SwapOk, SwapUnseen, SwapFails, Bought, BoughtBlind,
           DeployFails, DeployUnseen, DeployOrphan, At, Granting
      <3>3. QED
        BY <1>7, <2>1, <2>2, <3>1, <3>2 DEF Step
    <2>4. Granted(task[r])
      BY <1>3, <2>3 DEF Granted
    <2>5. task'[r].addr = None => task[r].addr = None
      <3>1. SetMeta(r) \/ AddTracked(r) => Goto(r, "add") \/ Goto(r, "count")
        BY DEF SetMeta, AddTracked
      <3>2. task[r].step \in {"set", "add"} => SetMeta(r) \/ AddTracked(r)
        BY <1>1, <2>2 DEF Step, Reconcile, Gather, Slots, SlotsBlind, Balance, BalanceBlind,
           PickNone, Pick, GatesRefuse, GatesPass, SwapOk, SwapUnseen, SwapFails, Bought,
           BoughtBlind, DeployOk, DeployFails, DeployUnseen, DeployOrphan, Count, Guard, At
      <3>3. task[r].step \in {"set", "add"} => task'[r].addr = task[r].addr
        BY <1>0, <3>1, <3>2, GotoMoves
      <3>4. task[r].step \notin {"set", "add"} => task[r].addr = None
        BY <1>0, <2>3 DEF Sound, Granting
      <3>5. QED
        BY <3>3, <3>4
    <2>6. QED
      BY <1>2, <1>3, <1>4, <1>7, <2>4, <2>5
  <1>8. QED
    BY <1>5, <1>6, <1>7

LEMMA SlottedInit == ASSUME Init PROVE Slotted
  <1>1. \A m : Used(m) = {}
    BY RestFields DEF Init, Used, Returning
  <1>2. Cardinality({}) = 0
    BY FS_EmptySet
  <1>3. \A r \in Runs : ~Granted(task[r])
    BY DEF Init, Idle, Granted, Granting
  <1>4. QED
    BY <1>1, <1>2, <1>3, DeployAssumption DEF Slotted

LEMMA NoMoreWhole ==
  ASSUME TypeOK, TypeOK', NEW m, NoMore(m)
  PROVE  /\ Cardinality(UsedNext(m)) <= Cardinality(Used(m))
         /\ Cardinality(UsedNext(m)) \in Nat
  <1>1. UsedNext(m) \ {None} = UsedNext(m) /\ Used(m) \ {None} = Used(m)
    BY UsedFinite, UsedNextFinite
  <1>2. Cardinality(UsedNext(m)) \in Nat
    BY UsedNextFinite, FS_CardinalityType
  <1>3. QED
    BY <1>1, <1>2 DEF NoMore, Asides

\* A slot that is counted free is free, the place of a redeploy counted too.
LEMMA SlotIsFree ==
  ASSUME TypeOK, NEW r \in Runs, Slots(r), ~Quit(r), "slot_gap" \notin spoiled',
         task[r].mode \in Modes, task[r].source # "analyze"
  PROVE  Cardinality(Used(task[r].mode)) < MaxPositions[task[r].mode]
  <1> DEFINE m == task[r].mode
  <1>1. ~Full(m) /\ GapAt(m) = {}
    <2>1. spoiled' = spoiled \cup GapAt(m) /\ ~Full(m)
      BY DEF Slots
    <2>2. GapAt(m) \subseteq {"slot_gap"}
      BY DEF GapAt
    <2>3. QED
      BY <2>1, <2>2
  <1>2. IsFiniteSet(Taken(m)) /\ Cardinality(Taken(m)) \in Nat /\ MaxPositions[m] \in Nat
    <2>1. Taken(m) \in SUBSET tracked
      BY DEF Taken
    <2>2. QED
      BY <2>1, UsedFinite, FewerIn, DeployAssumption
  <1>3. Cardinality(Taken(m)) < MaxPositions[m]
    BY <1>1, <1>2 DEF Full
  <1>4. {a \in tracked : meta[a] = m} \subseteq Taken(m)
    BY DEF Taken, CountsFor
  <1>5. CASE ~Returning(m)
    <2>1. Used(m) \in SUBSET Taken(m)
      BY <1>4, <1>5 DEF Used
    <2>2. QED
      BY <1>2, <1>3, <2>1, FewerIn
  <1>6. CASE Returning(m)
    <2>1. Cardinality(Taken(m)) + 1 < MaxPositions[m]
      BY <1>1, <1>2, <1>6 DEF GapAt
    <2>2. Used(m) \in SUBSET (Taken(m) \cup {Place})
      BY <1>4, <1>6 DEF Used
    <2>3. /\ Cardinality(Used(m)) <= Cardinality(Taken(m)) + 1
          /\ Cardinality(Used(m)) \in Nat
      BY <1>2, <2>2, OneMore
    <2>4. QED
      BY <1>2, <2>1, <2>3
  <1>7. QED
    BY <1>5, <1>6

LEMMA SlottedStep ==
  ASSUME Base, Labelled, Named, Slotted, TypeOK', NEW r \in Runs, Step(r) \/ Killed(r),
         Without(Crowding)'
  PROVE  /\ \A m \in Modes : Cardinality(UsedNext(m)) <= MaxPositions[m]
         /\ \A s \in Runs : Granted(task'[s]) =>
              Cardinality(UsedNext(task'[s].mode) \ {task'[s].addr}) < MaxPositions[task'[s].mode]
  <1>0. /\ TypeOK /\ AllStaged /\ Frame(r) /\ spoiled \subseteq spoiled'
        /\ Without(Crowding) /\ "twins" \notin spoiled' /\ "blind" \notin spoiled'
        /\ "slot_gap" \notin spoiled' /\ "promoted" \notin spoiled
        /\ \A s \in Runs : task[s] \in Tasks /\ Sound(task[s])
    BY Framed DEF Base, TypeOK, Frame, Without, Crowding
  <1>1. /\ \A m \in Modes : Cardinality(Used(m)) <= MaxPositions[m]
        /\ \A s \in Runs : Granted(task[s]) =>
             Cardinality(Used(task[s].mode) \ {task[s].addr}) < MaxPositions[task[s].mode]
    BY <1>0 DEF Slotted
  <1>2. /\ \A m \in Modes : MaxPositions[m] \in Nat
        /\ \A m, x : /\ IsFiniteSet(Used(m)) /\ Cardinality(Used(m)) \in Nat
                     /\ IsFiniteSet(Used(m) \ {x}) /\ Cardinality(Used(m) \ {x}) \in Nat
                     /\ IsFiniteSet(UsedNext(m)) /\ Cardinality(UsedNext(m)) \in Nat
                     /\ Cardinality(UsedNext(m) \ {x}) \in Nat
                     /\ Cardinality(UsedNext(m) \ {x}) <= Cardinality(UsedNext(m))
    <2>1. ASSUME NEW m, NEW x
          PROVE  /\ IsFiniteSet(UsedNext(m)) /\ Cardinality(UsedNext(m)) \in Nat
                 /\ Cardinality(UsedNext(m) \ {x}) \in Nat
                 /\ Cardinality(UsedNext(m) \ {x}) <= Cardinality(UsedNext(m))
      <3>1. IsFiniteSet(UsedNext(m)) /\ UsedNext(m) \ {x} \in SUBSET UsedNext(m)
        BY UsedNextFinite
      <3>2. QED
        BY <3>1, FewerIn
    <2>2. \A m, x : /\ IsFiniteSet(Used(m)) /\ Cardinality(Used(m)) \in Nat
                    /\ IsFiniteSet(Used(m) \ {x}) /\ Cardinality(Used(m) \ {x}) \in Nat
      BY <1>0, UsedFinite
    <2>3. QED
      BY <2>1, <2>2, DeployAssumption
  <1>3. ASSUME NEW m \in Modes PROVE Cardinality(UsedNext(m)) <= MaxPositions[m]
    <2>1. CASE NoMore(m)
      <3>1. Cardinality(UsedNext(m)) <= Cardinality(Used(m))
        BY <1>0, <2>1, NoMoreWhole
      <3>2. /\ Cardinality(UsedNext(m)) \in Nat /\ Cardinality(Used(m)) \in Nat
            /\ MaxPositions[m] \in Nat /\ Cardinality(Used(m)) <= MaxPositions[m]
        BY <1>1, <1>2
      <3>3. QED
        BY <3>1, <3>2
    <2>2. CASE /\ m = task[r].mode /\ task[r].step \in {"set", "add"}
               /\ UsedNext(m) \subseteq Used(m) \cup {task[r].addr}
      <3> DEFINE S == Used(m) \ {task[r].addr}
      <3>1. Granted(task[r])
        BY <2>2 DEF Named, Granted, Granting, Later
      <3>2. Cardinality(S) < MaxPositions[m] /\ IsFiniteSet(S)
        BY <1>1, <1>2, <2>2, <3>1
      <3>3. UsedNext(m) \subseteq S \cup {task[r].addr}
        BY <2>2
      <3> HIDE DEF S
      <3>4. /\ Cardinality(UsedNext(m)) \in Nat /\ Cardinality(S) \in Nat
            /\ Cardinality(UsedNext(m)) <= Cardinality(S) + 1
        BY <3>2, <3>3, OneMore
      <3>5. MaxPositions[m] \in Nat
        BY <1>2
      <3>6. QED
        BY <3>2, <3>4, <3>5
    <2>3. QED
      BY <1>0, <2>1, <2>2, UsedStep
  <1>4. ASSUME NEW s \in Runs \ {r}, Granted(task'[s])
        PROVE  Cardinality(UsedNext(task'[s].mode) \ {task'[s].addr}) < MaxPositions[task'[s].mode]
    <2>1. task'[s] = task[s] /\ Granted(task[s])
      BY <1>0, <1>4 DEF Frame
    <2>2. task[s].mode \in Modes /\ Busy(s) /\ Busy(r) /\ task[s].addr \in Asides
      BY <1>0, <2>1 DEF Granted, Granting, Sound, Tasks, Busy, At, Frame, Asides
    <2>3. task[s].mode # task[r].mode
      BY <1>0, <2>2 DEF Base, Marks, Apart
    <2>4. NoMore(task[s].mode)
      BY <1>0, <2>2, <2>3, UsedStep
    <2> DEFINE m == task[s].mode
               x == task[s].addr
    <2>5. Cardinality(UsedNext(m) \ {x}) <= Cardinality(Used(m) \ {x})
      BY <2>2, <2>4 DEF NoMore
    <2>6. Cardinality(Used(m) \ {x}) < MaxPositions[m]
      BY <1>1, <2>1
    <2>7. /\ Cardinality(UsedNext(m) \ {x}) \in Nat /\ Cardinality(Used(m) \ {x}) \in Nat
          /\ MaxPositions[m] \in Nat /\ task'[s].mode = m /\ task'[s].addr = x
      BY <1>2, <2>1, <2>2
    <2> HIDE DEF m, x
    <2>8. QED
      BY <2>5, <2>6, <2>7
  <1>5. ASSUME Granted(task'[r])
        PROVE  Cardinality(UsedNext(task'[r].mode) \ {task'[r].addr}) < MaxPositions[task'[r].mode]
    <2> DEFINE m == task[r].mode
               x == task[r].addr
               y == task'[r].addr
    <2>1. /\ task'[r].mode = m /\ task[r].source # "analyze"
          /\ \/ Granted(task[r]) /\ y = x
             \/ Granted(task[r]) /\ task[r].step = "deploy"
             \/ (Slots(r) \/ SlotsBlind(r)) /\ ~Quit(r) /\ y = None
      BY <1>5, GrantedBefore
    <2>2. m \in Modes /\ x \in Asides
      BY <1>0 DEF Sound, Tasks, Frame, Asides
    <2>3. /\ MaxPositions[m] \in Nat /\ Cardinality(Used(m)) \in Nat
          /\ Cardinality(Used(m) \ {x}) \in Nat /\ IsFiniteSet(Used(m) \ {x})
          /\ Cardinality(UsedNext(m) \ {x}) \in Nat
          /\ Cardinality(UsedNext(m)) \in Nat /\ Cardinality(UsedNext(m) \ {y}) \in Nat
          /\ Cardinality(UsedNext(m) \ {y}) <= Cardinality(UsedNext(m))
      BY <1>2, <2>2
    <2>4. CASE Granted(task[r]) /\ y = x
      <3>1. Cardinality(Used(m) \ {x}) < MaxPositions[m]
        BY <1>1, <2>4
      <3>2. Cardinality(UsedNext(m) \ {x}) <= Cardinality(Used(m) \ {x})
        <4>1. CASE NoMore(m)
          BY <2>2, <4>1 DEF NoMore
        <4>2. CASE UsedNext(m) \subseteq Used(m) \cup {x}
          <5>1. UsedNext(m) \ {x} \in SUBSET (Used(m) \ {x})
            BY <4>2
          <5>2. QED
            BY <2>3, <5>1, FewerIn
        <4>3. QED
          BY <1>0, <2>2, <4>1, <4>2, UsedStep
      <3> HIDE DEF m, x, y
      <3>3. QED
        BY <2>1, <2>3, <2>4, <3>1, <3>2 DEF y
    <2>5. CASE Granted(task[r]) /\ task[r].step = "deploy"
      <3>1. NoMore(m)
        BY <1>0, <2>2, <2>5, UsedStep
      <3>2. x = None
        BY <1>0, <2>5 DEF Sound
      <3>3. Used(m) \ {x} = Used(m)
        BY <1>0, <3>2, UsedFinite
      <3>4. Cardinality(Used(m)) < MaxPositions[m]
        BY <1>1, <2>5, <3>3
      <3>5. Cardinality(UsedNext(m)) <= Cardinality(Used(m))
        BY <1>0, <3>1, NoMoreWhole
      <3> HIDE DEF m, x, y
      <3>6. QED
        BY <2>1, <2>3, <3>4, <3>5 DEF y
    <2>6. CASE (Slots(r) \/ SlotsBlind(r)) /\ ~Quit(r)
      <3>1. Slots(r) /\ UNCHANGED <<tracked, meta, move>>
        BY <1>0, <2>6 DEF Slots, SlotsBlind, Fault, redis, keys
      <3>2. Cardinality(Used(m)) < MaxPositions[m]
        BY <1>0, <2>1, <2>2, <2>6, <3>1, SlotIsFree
      <3>3. UsedNext(m) = Used(m)
        BY <3>1 DEF Used, UsedNext, Returning
      <3> HIDE DEF m, x, y
      <3>4. QED
        BY <2>1, <2>3, <3>2, <3>3 DEF y
    <2>7. QED
      BY <2>1, <2>4, <2>5, <2>6
  <1>6. QED
    BY <1>3, <1>4, <1>5

LEMMA SlottedNext == ASSUME Base, Labelled, Named, Slotted, [Next]_vars PROVE Slotted'
  <1>0. TypeOK' /\ TypeOK /\ AllStaged
    BY NextTyped DEF Base
  <1>1. CASE UNCHANGED vars
    BY <1>1 DEF Slotted, Used, UsedNext, Returning, Without, vars, past, redis, keys
  <1>2. ASSUME spoiled \subseteq spoiled',
               Without(Crowding)' => \A m \in Modes : NoMore(m),
               \A s \in Runs : Granted(task'[s]) =>
                 /\ Granted(task[s]) /\ task'[s].mode = task[s].mode
                 /\ task'[s].addr = task[s].addr
        PROVE  Slotted'
    <2>1. SUFFICES ASSUME Without(Crowding)'
          PROVE  /\ \A m \in Modes : Cardinality(UsedNext(m)) <= MaxPositions[m]
                 /\ \A s \in Runs : Granted(task'[s]) =>
                      Cardinality(UsedNext(task'[s].mode) \ {task'[s].addr}) <
                        MaxPositions[task'[s].mode]
      BY DEF Slotted, Used, UsedNext, Returning
    <2>2. /\ \A m \in Modes : Cardinality(Used(m)) <= MaxPositions[m]
          /\ \A s \in Runs : Granted(task[s]) =>
               Cardinality(Used(task[s].mode) \ {task[s].addr}) < MaxPositions[task[s].mode]
      BY <1>2, <2>1 DEF Slotted, Without
    <2>3. ASSUME NEW m \in Modes PROVE Cardinality(UsedNext(m)) <= MaxPositions[m]
      <3>1. /\ Cardinality(UsedNext(m)) <= Cardinality(Used(m))
            /\ Cardinality(UsedNext(m)) \in Nat /\ Cardinality(Used(m)) \in Nat
        BY <1>0, <1>2, <2>1, NoMoreWhole, UsedFinite
      <3>2. QED
        BY <2>2, <3>1, DeployAssumption
    <2>4. ASSUME NEW s \in Runs, Granted(task'[s])
          PROVE  Cardinality(UsedNext(task'[s].mode) \ {task'[s].addr}) <
                   MaxPositions[task'[s].mode]
      <3> DEFINE m == task[s].mode
                 x == task[s].addr
      <3>1. task'[s].mode = m /\ task'[s].addr = x /\ Granted(task[s]) /\ x \in Asides
        BY <1>2, <2>4 DEF Asides
      <3>2. m \in Modes
        BY <1>0, <3>1 DEF Granted, Granting, TypeOK, Sound, Tasks
      <3>3. Cardinality(UsedNext(m) \ {x}) <= Cardinality(Used(m) \ {x})
        BY <1>2, <2>1, <3>1, <3>2 DEF NoMore
      <3>4. Cardinality(UsedNext(m) \ {x}) \in Nat /\ Cardinality(Used(m) \ {x}) \in Nat
        <4>1. IsFiniteSet(UsedNext(m)) /\ UsedNext(m) \ {x} \in SUBSET UsedNext(m)
          BY <1>0, UsedNextFinite
        <4>2. QED
          BY <1>0, <4>1, FewerIn, UsedFinite
      <3>5. Cardinality(Used(m) \ {x}) < MaxPositions[m] /\ MaxPositions[m] \in Nat
        BY <2>2, <3>1, <3>2, DeployAssumption
      <3>6. QED
        BY <3>1, <3>3, <3>4, <3>5
    <2>5. QED
      BY <2>3, <2>4
  <1>3. CASE World
    <2>1. /\ spoiled \subseteq spoiled'
          /\ \A s \in Runs : /\ task'[s].step = task[s].step /\ task'[s].mode = task[s].mode
                             /\ task'[s].source = task[s].source /\ task'[s].addr = task[s].addr
      BY <1>0, <1>3, WorldFrame
    <2>2. Without(Crowding)' => \A m \in Modes : NoMore(m)
      BY <1>3, <2>1, UsedWorld DEF Without, Crowding
    <2>3. QED
      BY <1>2, <2>1, <2>2 DEF Granted
  <1>4. ASSUME NEW r \in Runs, NEW call \in Calls, Start(r, call)
        PROVE  Slotted'
    <2>1. /\ \A s \in Runs \ {r} : task'[s] = task[s]
          /\ task'[r].step = "reconcile" /\ spoiled \subseteq spoiled'
          /\ UNCHANGED <<tracked, meta, move>>
      BY <1>0, <1>4, StartTask DEF redis, keys
    <2>2. \A m \in Modes : NoMore(m)
      <3>1. \A m \in Modes : UsedNext(m) \subseteq Used(m)
        BY <2>1 DEF Used, UsedNext, Returning
      <3>2. QED
        BY <1>0, <3>1, SubsetNoMore
    <2>3. ~Granted(task'[r])
      BY <2>1 DEF Granted, Granting
    <2>4. QED
      BY <1>2, <2>1, <2>2, <2>3
  <1>5. ASSUME NEW r \in Runs, Step(r) \/ Killed(r)
        PROVE  Slotted'
    BY <1>0, <1>5, SlottedStep DEF Slotted, Used, UsedNext, Returning
  <1>6. CASE Redeploy
    <2>1. UNCHANGED task /\ spoiled \subseteq spoiled'
      BY <1>0, <1>6, RedeployFrame
    <2>2. Without(Crowding)' => \A m \in Modes : NoMore(m)
      BY <1>6, UsedMove DEF Without, Crowding
    <2>3. QED
      BY <1>2, <2>1, <2>2
  <1>7. QED
    BY <1>1, <1>3, <1>4, <1>5, <1>6 DEF Next

\* A mode has no more positions than slots, though slots are counted minutes before the
\* position is registered and redeploys close and register beside it; runs of one mode at
\* once, an unread count, a count in the gap between the keys of a redeploy's two positions
\* and what gets its mode from a redeploy are the exceptions (pipeline 303-324, 848-856,
\* 1568-1614; monitor 1363-1389, 1510-1511, 1577, 1757-1765).
THEOREM SlotsHold == Spec => []SlotsKept
  <1> DEFINE All == Base /\ Labelled /\ Named /\ Slotted
  <1>1. All => SlotsKept
    <2>1. SUFFICES ASSUME All, Without(Crowding), NEW m \in Modes
                   PROVE  Cardinality(Entered(m)) <= MaxPositions[m]
      BY DEF SlotsKept, Crowding
    <2>2. TypeOK /\ "promoted" \notin spoiled
      BY <2>1 DEF Base, Without, Crowding
    <2>3. \A a \in tracked : meta[a] # "promoted"
      BY <2>1, <2>2 DEF Labelled, TypeOK
    <2>4. Entered(m) \in SUBSET Used(m)
      BY <2>3 DEF Entered, Used
    <2>5. /\ Cardinality(Entered(m)) <= Cardinality(Used(m))
          /\ Cardinality(Entered(m)) \in Nat /\ Cardinality(Used(m)) \in Nat
      BY <2>2, <2>4, UsedFinite, FewerIn
    <2>6. Cardinality(Used(m)) <= MaxPositions[m] /\ MaxPositions[m] \in Nat
      BY <2>1, DeployAssumption DEF Slotted
    <2>7. QED
      BY <2>5, <2>6
  <1>2. All /\ [Next]_vars => All'
    BY BaseNext, LabelledNext, NamedNext, SlottedNext
  <1>3. Init => All
    BY BaseInit, LabelledInit, NamedInit, SlottedInit
  <1> HIDE DEF All
  <1>4. QED
    BY <1>1, <1>2, <1>3, PTL DEF Spec

--------------------------------------------------------------------------------
(* One position per token. *)

\* What puts a token into two positions.
Doubling == {"overlap", "blind", "cut", "adopted", "token_gap", "stray"}

Known(a) == a \in tracked /\ KnownToken(a)
\* No account has it and no redeploy will.
Clear(t) == /\ \A a \in OnChain : Token[account[a]] # t
            /\ Unnamed => Token[move.pool] # t

\* What a run relies on: its candidates' tokens, and then its pick's, are not held; the
\* registration gets to a known token.
Relies(r) ==
  /\ task[r].step = "add" => meta[task[r].addr] \in Modes
  /\ task[r].step \in {"count", "guard"} => Known(task[r].addr)
  /\ task[r].step = "filter" => \A p \in task[r].cands : Clear(Token[p])
  /\ task[r].step \in Carrying => Clear(Token[task[r].pool])

\* What a redeploy relies on: the token it has closed is nobody's until it is its own again.
MoveRelies ==
  /\ Unnamed /\ move.addr = None => \A a \in OnChain : Token[account[a]] # Token[move.pool]
  /\ move.addr \in OnChain => account[move.addr] = move.pool
  /\ move.old \notin OnChain
  /\ move.step # "idle" => move.label \in Modes \cup {"modeless"}

\* Every position's token is known to Redis, or its run or its redeploy is about to make it
\* known.
Single ==
  Without(Doubling) =>
    /\ \A a, b \in OnChain : Token[account[a]] = Token[account[b]] => a = b
    /\ \A a \in OnChain : Known(a) \/ a = move.addr \/ \E r \in Runs : task[r].addr = a
    /\ \A r \in Runs : Relies(r)
    /\ MoveRelies

LEMMA SingleInit == ASSUME Init PROVE Single
  <1>1. OnChain = {} /\ \A r \in Runs : task[r].step = "idle"
    BY DEF Init, OnChain, Idle
  <1>2. MoveRelies
    BY <1>1, RestFields DEF MoveRelies, Unnamed, Init
  <1>3. QED
    BY <1>1, <1>2 DEF Single, Relies, Carrying

\* Where the accounts are touched.
LEMMA AccountStays ==
  ASSUME NEW r \in Runs, Step(r) \/ Killed(r),
         ~\E a \in Addrs : DeployOk(r, a) \/ DeployOrphan(r, a)
  PROVE  account' = account
  BY DEF Step, Killed, Reconcile, Gather, Slots, SlotsBlind, Balance, BalanceBlind, PickNone,
     Pick, GatesRefuse, GatesPass, SwapOk, SwapUnseen, Swapped, SwapFails, Bought, BoughtBlind,
     DeployFails, DeployUnseen, SetMeta, AddTracked, Count, Guard, chain

\* What is to be shown of a step of the only run.
LEMMA SingleOwn ==
  ASSUME Base, TypeOK', NEW r \in Runs, Frame(r), "overlap" \notin spoiled',
         \A a, b \in OnChain' : Token[account'[a]] = Token[account'[b]] => a = b,
         \A a \in OnChain' : Known(a)' \/ a = move'.addr \/ task'[r].addr = a,
         Relies(r)', MoveRelies'
  PROVE  Single'
  <1>1. \A s \in Runs \ {r} : task'[s].step = "idle"
    BY Solo
  <1>2. \A s \in Runs \ {r} : Relies(s)'
    BY <1>1 DEF Relies, Carrying
  <1>3. QED
    BY <1>2 DEF Single

LEMMA SingleStep ==
  ASSUME Base, Labelled, Single, TypeOK', NEW r \in Runs, Step(r) \/ Killed(r),
         Without(Doubling)'
  PROVE  Single'
  <1>0. /\ TypeOK /\ AllStaged /\ Frame(r) /\ "overlap" \notin spoiled'
        /\ "blind" \notin spoiled' /\ "cut" \notin spoiled' /\ "token_gap" \notin spoiled'
        /\ spoiled \subseteq spoiled' /\ Without(Doubling) /\ UNCHANGED move
        /\ task[r] \in Tasks /\ Sound(task[r]) /\ task'[r] \in Tasks /\ Sound(task'[r])
    BY Framed, MoveLeft DEF Base, TypeOK, Frame, Without, Doubling
  <1>1. /\ \A a, b \in OnChain : Token[account[a]] = Token[account[b]] => a = b
        /\ Relies(r) /\ MoveRelies
    BY <1>0 DEF Single
  <1>2. \A a \in OnChain : Known(a) \/ a = move.addr \/ task[r].addr = a
    <2>1. \A s \in Runs \ {r} : task[s].addr = None
      BY <1>0, Solo DEF TypeOK, Sound
    <2>2. \A a \in OnChain : a # None
      BY NoneIsNothing DEF OnChain
    <2>3. QED
      BY <1>0, <2>1, <2>2 DEF Single
  <1>3. ASSUME NEW a \in Addrs, DeployOk(r, a) \/ DeployOrphan(r, a)
        PROVE  Single'
    <2>1. /\ task[r].step = "deploy" /\ task[r].pool \in Pools /\ task[r].pool # None
          /\ account[a] = None /\ account' = [account EXCEPT ![a] = task[r].pool]
          /\ a # move.old /\ a # move.addr
      <3>1. task[r].step = "deploy"
        BY <1>3 DEF DeployOk, DeployOrphan, At
      <3>2. task[r].pool \in Pools
        BY <1>0, <3>1, HasPool DEF Later
      <3>3. QED
        BY <1>3, <3>1, <3>2, NoneIsNothing DEF DeployOk, DeployOrphan, Lands, Call
    <2>2. Clear(Token[task[r].pool])
      BY <1>1, <2>1 DEF Relies, Carrying
    <2>3. OnChain' = OnChain \cup {a} /\ a \notin OnChain
      BY <1>0, <2>1 DEF OnChain, TypeOK
    <2>4. /\ account'[a] = task[r].pool
          /\ \A b \in OnChain : account'[b] = account[b]
      BY <1>0, <2>1, <2>3 DEF OnChain, TypeOK
    <2>5. \A b, c \in OnChain' : Token[account'[b]] = Token[account'[c]] => b = c
      BY <1>1, <2>2, <2>3, <2>4 DEF Clear
    <2>6. \A b \in OnChain : Known(b) \/ b = move.addr
      BY <1>0, <1>2, <2>1, NoneIsNothing DEF Sound, OnChain
    <2>6a. MoveRelies'
      <3>1. /\ Unnamed /\ move.addr = None =>
                 \A b \in OnChain' : Token[account'[b]] # Token[move.pool]
        BY <1>1, <2>2, <2>3, <2>4 DEF MoveRelies, Clear
      <3>2. /\ move.addr \in OnChain' => account'[move.addr] = move.pool
            /\ move.old \notin OnChain'
        BY <1>1, <2>1, <2>3, <2>4 DEF MoveRelies
      <3>3. Unnamed' <=> Unnamed
        BY <1>0 DEF Unnamed
      <3>4. QED
        BY <1>0, <1>1, <3>1, <3>2, <3>3 DEF MoveRelies
    <2>7. CASE DeployOk(r, a)
      <3>1. task'[r].addr = a /\ task'[r].step = "set"
        BY <1>0, <2>7, DeployMoves
      <3>2. \A b : Known(b)' <=> Known(b)
        BY <2>7 DEF DeployOk, redis, keys, Known, KnownToken
      <3>3. Relies(r)'
        BY <3>1 DEF Relies, Carrying
      <3>4. QED
        BY <1>0, <2>3, <2>5, <2>6, <2>6a, <3>1, <3>2, <3>3, SingleOwn
    <2>8. CASE DeployOrphan(r, a)
      <3>1. /\ tracked' = tracked \cup {a} /\ meta' = [meta EXCEPT ![a] = "orphan"]
            /\ Quit(r)
        BY <2>8 DEF DeployOrphan
      <3>2. \A b \in OnChain' : Known(b)' \/ b = move.addr
        <4>1. a \in tracked' /\ meta'[a] = "orphan"
          BY <1>0, <3>1 DEF TypeOK
        <4>2. \A b \in OnChain : (b \in tracked => b \in tracked') /\ meta'[b] = meta[b]
          BY <1>0, <2>3, <3>1 DEF OnChain, TypeOK
        <4>3. QED
          BY <2>3, <2>6, <4>1, <4>2 DEF Known, KnownToken
      <3>3. Relies(r)'
        BY <1>0, <3>1, QuitMoves, IdleFields DEF Relies, Carrying
      <3>4. QED
        BY <1>0, <2>5, <2>6a, <3>2, <3>3, SingleOwn
    <2>9. QED
      BY <1>3, <2>7, <2>8
  <1>4. ASSUME account' = account
        PROVE  /\ OnChain' = OnChain
               /\ \A a, b \in OnChain' : Token[account'[a]] = Token[account'[b]] => a = b
               /\ \A t : Clear(t) => /\ \A a \in OnChain' : Token[account'[a]] # t
                                     /\ Unnamed' => Token[move'.pool] # t
               /\ MoveRelies'
    <2>1. OnChain' = OnChain /\ (Unnamed' <=> Unnamed)
      BY <1>0, <1>4 DEF OnChain, Unnamed
    <2>2. QED
      BY <1>0, <1>1, <1>4, <2>1 DEF Clear, MoveRelies
  <1>5. CASE \E view, young \in SUBSET Addrs : Reconcile(r, view, young)
    <2>1. PICK view \in SUBSET Addrs, young \in SUBSET Addrs : Reconcile(r, view, young)
      BY <1>5
    <2>2. view = OnChain
      BY <1>0, <2>1, ReadsTypes DEF Reconcile, Reads, Fault
    <2>3. /\ account' = account /\ task[r].step = "reconcile"
          /\ \A b \in OnChain : (b \in tracked' <=> b \in tracked) /\ meta'[b] = meta[b]
      BY <2>1, <2>2 DEF Reconcile, chain, At, OnChain
    <2>4. \A b \in OnChain : Known(b) <=> Known(b)'
      BY <2>3 DEF Known, KnownToken
    <2>5. task'[r].step = "slots" /\ task[r].addr = None
      BY <1>0, <2>1, <2>3, GotoMoves DEF Reconcile, Sound
    <2>6. \A b \in OnChain' : Known(b)' \/ b = move.addr
      BY <1>2, <1>4, <2>3, <2>4, <2>5, NoneIsNothing DEF OnChain
    <2>7. Relies(r)'
      BY <2>5 DEF Relies, Carrying
    <2>8. QED
      BY <1>0, <1>4, <2>3, <2>6, <2>7, SingleOwn
  <1>6. CASE SetMeta(r) \/ AddTracked(r)
    <2>1. account' = account /\ task[r].step \in {"set", "add"} /\ task[r].addr \in Addrs
      BY <1>0, <1>6 DEF SetMeta, AddTracked, At, chain, Sound, Tasks
    <2>2. task'[r].addr = task[r].addr
      BY <1>0, <1>6, GotoMoves DEF SetMeta, AddTracked
    <2>3. \A b \in Addrs : b # task[r].addr => (Known(b)' <=> Known(b))
      BY <1>0, <1>6, <2>1 DEF SetMeta, AddTracked, Known, KnownToken, TypeOK
    <2>4. Relies(r)'
      <3>1. CASE SetMeta(r)
        <4>1. task'[r].step = "add"
          BY <1>0, <3>1, GotoMoves DEF SetMeta
        <4>2. meta'[task[r].addr] = task[r].mode /\ task[r].mode \in Modes
          BY <1>0, <2>1, <3>1 DEF SetMeta, At, TypeOK, Sound, Tasks
        <4>3. QED
          BY <2>2, <4>1, <4>2 DEF Relies, Carrying
      <3>2. CASE AddTracked(r)
        <4>1. task'[r].step = "count" /\ task[r].step = "add"
          BY <1>0, <3>2, GotoMoves DEF AddTracked, At
        <4>2. task[r].addr \in tracked' /\ meta'[task[r].addr] \in Modes
          BY <1>1, <3>2, <4>1 DEF AddTracked, Relies
        <4>3. QED
          BY <2>2, <4>1, <4>2 DEF Relies, Carrying, Known, KnownToken
      <3>3. QED
        BY <1>6, <3>1, <3>2
    <2>5. \A b \in OnChain' : Known(b)' \/ b = move.addr \/ task'[r].addr = b
      <3>1. OnChain \subseteq Addrs
        BY DEF OnChain
      <3>2. QED
        BY <1>2, <1>4, <2>1, <2>2, <2>3, <3>1
    <2>6. /\ \A b, c \in OnChain' : Token[account'[b]] = Token[account'[c]] => b = c
          /\ \A b \in OnChain' : Known(b)' \/ b = move'.addr \/ task'[r].addr = b
          /\ MoveRelies'
      BY <1>0, <1>4, <2>1, <2>5
    <2>7. QED
      BY <1>0, <2>4, <2>6, SingleOwn
  <1>7. CASE Count(r) \/ Guard(r)
    <2>1. /\ account' = account /\ task[r].step \in {"count", "guard"}
          /\ UNCHANGED <<tracked, meta>>
      BY <1>7 DEF Count, Guard, At, chain, keys
    <2>2. \A b : Known(b)' <=> Known(b)
      BY <2>1 DEF Known, KnownToken
    <2>3. Known(task[r].addr)
      BY <1>1, <2>1 DEF Relies
    <2>4. Relies(r)'
      <3>1. CASE Quit(r)
        BY <1>0, <3>1, QuitMoves, IdleFields DEF Relies, Carrying
      <3>2. CASE Goto(r, "guard")
        <4>1. task'[r].step = "guard" /\ task'[r].addr = task[r].addr
          BY <1>0, <3>2, GotoMoves
        <4>2. task'[r].addr \in tracked' /\ meta'[task'[r].addr] \in Modes \cup {"orphan", "modeless"}
          BY <2>1, <2>3, <4>1 DEF Known, KnownToken
        <4>3. QED
          BY <4>1, <4>2 DEF Relies, Carrying, Known, KnownToken
      <3>3. QED
        BY <1>7, <3>1, <3>2 DEF Count, Guard
    <2>5. \A b \in OnChain' : Known(b)' \/ b = move.addr
      BY <1>2, <1>4, <2>1, <2>2, <2>3
    <2>6. QED
      BY <1>0, <1>4, <2>1, <2>4, <2>5, SingleOwn
  <1>8. CASE ~(\/ Count(r) \/ Guard(r) \/ SetMeta(r) \/ AddTracked(r)
               \/ (\E view, young \in SUBSET Addrs : Reconcile(r, view, young))
               \/ \E a \in Addrs : DeployOk(r, a) \/ DeployOrphan(r, a))
    <2>1. account' = account /\ UNCHANGED <<tracked, meta>>
      BY <1>8, AccountStays, KeysMove
    <2>2. task[r].addr = None
      <3>1. ~Killed(r)
        BY <1>0 DEF Killed, Fault
      <3>2. task[r].step \notin {"set", "add", "count", "guard"}
        BY <1>8, <3>1 DEF Step, Gather, Slots, SlotsBlind, Balance, BalanceBlind, PickNone,
           Pick, GatesRefuse, GatesPass, SwapOk, SwapUnseen, SwapFails, Bought, BoughtBlind,
           DeployFails, DeployUnseen, At
      <3>3. QED
        BY <1>0, <3>2 DEF Sound
    <2>3. \A b \in OnChain' : (Known(b)' /\ Known(b)) \/ b = move.addr
      <3>1. \A b \in OnChain : b # None
        BY NoneIsNothing DEF OnChain
      <3>2. QED
        BY <1>2, <1>4, <2>1, <2>2, <3>1 DEF Known, KnownToken
    <2>4. task'[r].addr = None
      BY <1>8, <2>2, AddrMoves
    <2>5. task'[r].step = "filter" => \A p \in task'[r].cands : Clear(Token[p])
      <3>1. SUFFICES ASSUME task'[r].step = "filter" PROVE \A p \in task'[r].cands : Clear(Token[p])
        OBVIOUS
      <3>2. CASE \E found \in SUBSET Pools, view \in SUBSET Addrs : Gather(r, found, view)
        <4>1. PICK found \in SUBSET Pools, view \in SUBSET Addrs : Gather(r, found, view)
          BY <3>2
        <4>2. view = OnChain
          BY <1>0, <4>1 DEF Gather, Reads, Fault
        <4>3. ~Quit(r)
          BY <1>0, <3>1, QuitMoves, IdleFields
        <4>4. \A p \in task'[r].cands : ~Held(p, OnChain)
          BY <1>0, <4>1, <4>2, <4>3, GatherMoves
        <4>5. \A p \in task'[r].cands : Unnamed => Token[p] # Token[move.pool]
          <5> DEFINE left == {p \in found : ~Held(p, view)}
          <5>1. task'[r].cands = left
            BY <1>0, <4>1, <4>3, GatherMoves
          <5>2. TokenGap(left) \subseteq spoiled'
            BY <4>1, <4>2 DEF Gather, Reads
          <5> HIDE DEF left
          <5>3. QED
            BY <1>0, <5>1, <5>2 DEF TokenGap
        <4>6. \A a \in OnChain : KnownToken(a) \/ (Unnamed /\ account[a] = move.pool)
          <5>1. SUFFICES ASSUME NEW a \in OnChain, ~Known(a)
                         PROVE  KnownToken(a) \/ (Unnamed /\ account[a] = move.pool)
            BY DEF Known
          <5>2. a = move.addr /\ a # None
            BY <1>4, <2>1, <2>3, <5>1, NoneIsNothing DEF OnChain
          <5>3. move.step \in {"drop", "set", "add"} /\ account[a] = move.pool
            BY <1>0, <1>1, <5>2, MoveAt DEF MoveRelies
          <5>4. CASE move.step = "add"
            <6>1. meta[a] = move.label /\ move.label \in Modes \cup {"modeless"}
              BY <1>1, <5>2, <5>4 DEF Labelled, MoveRelies
            <6>2. QED
              BY <6>1 DEF KnownToken
          <5>5. QED
            BY <5>3, <5>4 DEF Unnamed
        <4>7. QED
          BY <4>4, <4>5, <4>6 DEF Held, Clear
      <3>3. CASE ~\E found \in SUBSET Pools, view \in SUBSET Addrs : Gather(r, found, view)
        <4>1. ~Quit(r)
          BY <1>0, <3>1, QuitMoves, IdleFields
        <4>2. \A step \in {"balance", "swap", "deploy"} : ~Goto(r, step)
          BY <1>0, <3>1, GotoMoves
        <4>3. ~SwapOk(r) /\ ~SwapUnseen(r) /\ ~Bought(r) /\ \A p \in Pools : ~Pick(r, p)
          BY <1>0, <3>1, <4>1, SwapMoves, BoughtMoves, PickMoves
        <4>4. ~Balance(r) /\ ~BalanceBlind(r)
          BY <1>0, <3>1, <4>1, SizingMoves DEF Balance, BalanceBlind, TypeOK
        <4>5. QED
          BY <1>8, <3>3, <4>1, <4>2, <4>3, <4>4 DEF Step, Killed, Slots, SlotsBlind, PickNone,
             GatesRefuse, GatesPass, SwapFails, BoughtBlind, DeployFails, DeployUnseen
      <3>4. QED
        BY <3>2, <3>3
    <2>6. task'[r].step \in Carrying => Clear(Token[task'[r].pool])
      <3>1. SUFFICES ASSUME task'[r].step \in Carrying PROVE Clear(Token[task'[r].pool])
        OBVIOUS
      <3>2. CASE task[r].step \in Carrying
        <4>1. task'[r].pool = task[r].pool
          BY <1>0, <3>1, <3>2 DEF Frame, Carrying, Later
        <4>2. QED
          BY <1>1, <3>2, <4>1 DEF Relies
      <3>3. CASE task[r].step \notin Carrying
        <4>1. task[r].step \notin Later
          BY <1>0, <2>2, <3>3 DEF Sound, Later, Carrying
        <4>2. PICK p \in Pools : Pick(r, p)
          BY <1>0, <3>1, <4>1 DEF Frame, Carrying, Later
        <4>3. task'[r].pool = p /\ p \in task[r].cands /\ task[r].step = "filter"
          BY <1>0, <4>2, PickMoves DEF Pick, At
        <4>4. QED
          BY <1>1, <4>3 DEF Relies
      <3>4. QED
        BY <3>2, <3>3
    <2>7. Relies(r)'
      <3>1. task'[r].step \notin {"add", "count", "guard"}
        BY <1>0, <2>4 DEF Sound
      <3>2. \A t : Clear(t) => /\ \A a \in OnChain' : Token[account'[a]] # t
                               /\ Unnamed' => Token[move'.pool] # t
        BY <1>4, <2>1
      <3>3. task'[r].step = "filter" => \A p \in task'[r].cands :
              /\ \A a \in OnChain' : Token[account'[a]] # Token[p]
              /\ Unnamed' => Token[move'.pool] # Token[p]
        BY <2>5, <3>2
      <3>4. task'[r].step \in Carrying =>
              /\ \A a \in OnChain' : Token[account'[a]] # Token[task'[r].pool]
              /\ Unnamed' => Token[move'.pool] # Token[task'[r].pool]
        BY <2>6, <3>2
      <3>5. QED
        BY <3>1, <3>3, <3>4 DEF Relies, Carrying, Clear
    <2>8. QED
      BY <1>0, <1>4, <2>1, <2>3, <2>7, SingleOwn
  <1>9. QED
    BY <1>3, <1>5, <1>6, <1>7, <1>8

LEMMA SingleWorld == ASSUME Base, Single, TypeOK', World PROVE Single'
  <1>1. SUFFICES ASSUME Without(Doubling)'
        PROVE  /\ \A a, b \in OnChain' : Token[account'[a]] = Token[account'[b]] => a = b
               /\ \A a \in OnChain' : \/ Known(a)' \/ a = move'.addr
                                      \/ \E r \in Runs : task'[r].addr = a
               /\ \A r \in Runs : Relies(r)'
               /\ MoveRelies'
    BY DEF Single
  <1>2. /\ TypeOK /\ spoiled \subseteq spoiled' /\ UNCHANGED move /\ (Unnamed' <=> Unnamed)
        /\ \A r \in Runs : /\ task'[r].step = task[r].step /\ task'[r].addr = task[r].addr
                           /\ task'[r].cands = task[r].cands /\ task'[r].pool = task[r].pool
    BY WorldFrame, MoveLeft DEF Base, Unnamed
  <1>3. /\ \A a, b \in OnChain : Token[account[a]] = Token[account[b]] => a = b
        /\ \A a \in OnChain : Known(a) \/ a = move.addr \/ \E r \in Runs : task[r].addr = a
        /\ \A r \in Runs : Relies(r)
        /\ \A r \in Runs : late[r] = None
        /\ MoveRelies
    BY <1>1, <1>2 DEF Single, Without, Doubling, Base, Marks, Prompt
  <1>4. ~\E a \in Addrs : Adopt(a)
    <2>1. SUFFICES ASSUME NEW a \in Addrs, Adopt(a) PROVE FALSE
      OBVIOUS
    <2>2. a \in OnChain /\ ~Known(a) /\ a # None
      BY <2>1, NoneIsNothing DEF Adopt, OnChain, Known
    <2>3. a # move.addr
      BY <1>2, <2>1, <2>2, MoveAt DEF Adopt
    <2>4. \E r \in Runs : task[r].addr = a
      BY <1>3, <2>2, <2>3
    <2>5. QED
      BY <1>1, <2>1, <2>4 DEF Adopt, Without, Doubling
  <1>5. /\ OnChain' \subseteq OnChain /\ OnChain \subseteq Addrs
        /\ \A a \in OnChain' : account'[a] = account[a]
    <2>1. CASE \E a \in Addrs : Close(a)
      BY <1>2, <2>1 DEF Close, OnChain, TypeOK
    <2>2. CASE account' = account
      BY <2>2 DEF OnChain
    <2>3. QED
      BY <1>3, <2>1, <2>2 DEF World, Forget, Adopt, Sweep, Bar, Lapse, LapsePool, LateDies,
         LateLands, chain
  <1>6. \A a \in Addrs : a \in OnChain \/ (\E r \in Runs : task[r].addr = a) =>
          (a \in tracked' <=> a \in tracked) /\ meta'[a] = meta[a]
    <2>1. CASE \E a \in Addrs : Forget(a)
      BY <1>2, <2>1 DEF Forget, OnChain, TypeOK
    <2>2. CASE UNCHANGED <<tracked, meta>>
      BY <2>2
    <2>3. QED
      BY <1>4, <2>1, <2>2 DEF World, Close, Sweep, Bar, Lapse, LapsePool, LateDies,
         LateLands, redis, keys
  <1>7. \A t : Clear(t) => /\ \A a \in OnChain' : Token[account'[a]] # t
                           /\ Unnamed' => Token[move'.pool] # t
    BY <1>2, <1>5 DEF Clear
  <1>8. ASSUME NEW r \in Runs PROVE Relies(r)'
    <2>1. Relies(r)
      BY <1>3
    <2>2. task[r].step \in {"add", "count", "guard"} =>
            task[r].addr \in Addrs
            /\ (task[r].addr \in tracked' <=> task[r].addr \in tracked)
            /\ meta'[task[r].addr] = meta[task[r].addr]
      BY <1>2, <1>6 DEF TypeOK, Sound, Tasks
    <2>3. task'[r].step = "add" => meta'[task'[r].addr] \in Modes
      BY <1>2, <2>1, <2>2 DEF Relies
    <2>4. task'[r].step \in {"count", "guard"} =>
            /\ task'[r].addr \in tracked'
            /\ meta'[task'[r].addr] \in Modes \cup {"orphan", "modeless"}
      BY <1>2, <2>1, <2>2 DEF Relies, Known, KnownToken
    <2>5. task'[r].step = "filter" => \A p \in task'[r].cands :
            /\ \A a \in OnChain' : Token[account'[a]] # Token[p]
            /\ Unnamed' => Token[move'.pool] # Token[p]
      BY <1>2, <1>7, <2>1 DEF Relies
    <2>6. task'[r].step \in Carrying =>
            /\ \A a \in OnChain' : Token[account'[a]] # Token[task'[r].pool]
            /\ Unnamed' => Token[move'.pool] # Token[task'[r].pool]
      BY <1>2, <1>7, <2>1 DEF Relies
    <2>7. QED
      BY <2>3, <2>4, <2>5, <2>6 DEF Relies, Known, KnownToken, Clear, Carrying
  <1>9. \A a \in OnChain' : Known(a)' \/ a = move'.addr \/ \E r \in Runs : task'[r].addr = a
    BY <1>2, <1>3, <1>5, <1>6 DEF Known, KnownToken
  <1>10. \A a, b \in OnChain' : Token[account'[a]] = Token[account'[b]] => a = b
    BY <1>3, <1>5
  <1>11. MoveRelies'
    BY <1>2, <1>3, <1>5 DEF MoveRelies
  <1>12. QED
    BY <1>8, <1>9, <1>10, <1>11

\* A run goes on relying on what a redeploy leaves as it is.
LEMMA MoveLeavesRuns ==
  ASSUME TypeOK, UNCHANGED task, \A t : Clear(t) => Clear(t)',
         \A r \in Runs : task[r].addr \in Addrs =>
           /\ task[r].addr \in tracked' <=> task[r].addr \in tracked
           /\ meta'[task[r].addr] = meta[task[r].addr],
         NEW r \in Runs, Relies(r)
  PROVE  Relies(r)'
  <1>1. task[r].step \in {"add", "count", "guard"} => task[r].addr \in Addrs
    BY DEF TypeOK, Sound, Tasks
  <1>2. task[r].step = "add" => meta'[task[r].addr] \in Modes
    BY <1>1 DEF Relies
  <1>3. task[r].step \in {"count", "guard"} => Known(task[r].addr)'
    BY <1>1 DEF Relies, Known, KnownToken
  <1>4. /\ task[r].step = "filter" => \A p \in task[r].cands : Clear(Token[p])'
        /\ task[r].step \in Carrying => Clear(Token[task[r].pool])'
    BY DEF Relies
  <1>5. QED
    BY <1>2, <1>3, <1>4 DEF Relies, Known, KnownToken, Clear, Unnamed, OnChain

LEMMA SingleMove ==
  ASSUME Base, Labelled, Single, TypeOK', Redeploy, Without(Doubling)'
  PROVE  Single'
  <1>0. /\ TypeOK /\ UNCHANGED task /\ spoiled \subseteq spoiled' /\ None \notin Addrs
        /\ Without(Doubling) /\ move.step # "late" /\ "cut" \notin spoiled'
        /\ "stray" \notin spoiled' /\ OnChain \subseteq Addrs
        /\ move.old \in Addrs \cup {None} /\ move.addr \in Addrs \cup {None}
    BY RedeployFrame, MoveAt, NoneIsNothing
       DEF Base, Marks, Prompt, Without, Doubling, OnChain
  <1>1. /\ \A a, b \in OnChain : Token[account[a]] = Token[account[b]] => a = b
        /\ \A a \in OnChain : Known(a) \/ a = move.addr \/ \E r \in Runs : task[r].addr = a
        /\ \A r \in Runs : Relies(r)
        /\ MoveRelies
    BY <1>0 DEF Single
  <1>2. \A r \in Runs : task[r].addr \in Addrs => task[r].addr \notin {move.old, move.addr}
    BY <1>0 DEF Labelled
  <1>3. SUFFICES
          /\ \A a, b \in OnChain' : Token[account'[a]] = Token[account'[b]] => a = b
          /\ \A a \in OnChain' : \/ Known(a)' \/ a = move'.addr
                                 \/ \E r \in Runs : task[r].addr = a
          /\ \A t : Clear(t) => Clear(t)'
          /\ \A r \in Runs : task[r].addr \in Addrs =>
               /\ task[r].addr \in tracked' <=> task[r].addr \in tracked
               /\ meta'[task[r].addr] = meta[task[r].addr]
          /\ MoveRelies'
    BY <1>0, <1>1, MoveLeavesRuns DEF Single
  <1>4. CASE /\ UNCHANGED <<account, tracked, meta>>
             /\ move.step \in {"sell", "deploy"}
             /\ \/ move' = Rest
                \/ /\ move'.label = move.label /\ move'.pool = move.pool
                   /\ move'.addr = move.addr /\ move'.old = move.old
                   /\ move'.step = "deploy"
    <2>1. OnChain' = OnChain /\ Unnamed /\ move.addr = None
      BY <1>0, <1>4 DEF OnChain, Unnamed, TypeOK, MoveSound
    <2>2. \A a \in OnChain : Known(a)' <=> Known(a)
      BY <1>4 DEF Known, KnownToken
    <2>3. Unnamed' => move'.pool = move.pool
      BY <1>4, RestFields DEF Unnamed
    <2>4. \A t : Clear(t) => Clear(t)'
      BY <1>4, <2>1, <2>3 DEF Clear
    <2>5. MoveRelies'
      <3>1. \A a \in OnChain : Token[account[a]] # Token[move.pool]
        BY <1>1, <2>1 DEF MoveRelies
      <3>2. /\ move'.addr \notin OnChain' /\ move'.old \notin OnChain'
            /\ move'.step # "idle" => move'.label \in Modes \cup {"modeless"}
        BY <1>0, <1>1, <1>4, <2>1, RestFields DEF MoveRelies
      <3>3. QED
        BY <1>4, <2>1, <2>3, <3>1, <3>2 DEF MoveRelies
    <2>6. \A a \in OnChain' : Known(a)' \/ a = move'.addr \/ \E r \in Runs : task[r].addr = a
      BY <1>0, <1>1, <2>1, <2>2
    <2>7. QED
      BY <1>1, <1>4, <2>1, <2>4, <2>5, <2>6
  <1>5. CASE MoveDrop
    <2>1. /\ move.step = "drop" /\ move.old \in Addrs /\ UNCHANGED account
          /\ tracked' = tracked \ {move.old}
          /\ \A a \in Addrs \ {move.old} : meta'[a] = meta[a]
          /\ move'.addr = move.addr /\ move'.old = None /\ move'.pool = move.pool
          /\ move'.label = move.label
          /\ move'.step \in {"sell", "set"}
      BY <1>0, <1>5 DEF MoveDrop, Moves, TypeOK, MoveSound, Redeploys, chain
    <2>2. OnChain' = OnChain /\ Unnamed /\ move.old \notin OnChain
      BY <1>1, <2>1 DEF OnChain, Unnamed, MoveRelies
    <2>3. \A a \in OnChain : Known(a)' <=> Known(a)
      BY <1>0, <2>1, <2>2 DEF Known, KnownToken
    <2>4. \A t : Clear(t) => Clear(t)'
      BY <2>1, <2>2 DEF Clear
    <2>5. MoveRelies'
      <3>1. \A t : Unnamed /\ move.addr = None => \A a \in OnChain : Token[account[a]] # Token[move.pool]
        BY <1>1 DEF MoveRelies
      <3>2. QED
        BY <1>0, <1>1, <2>1, <2>2, <3>1 DEF MoveRelies
    <2>6. QED
      BY <1>1, <1>2, <2>1, <2>2, <2>3, <2>4, <2>5
  <1>6. CASE MoveSets
    <2>1. /\ move.step = "set" /\ move.addr \in Addrs /\ UNCHANGED <<account, tracked>>
          /\ \A a \in Addrs \ {move.addr} : meta'[a] = meta[a]
          /\ move'.addr = move.addr /\ move'.old = move.old /\ move'.pool = move.pool
          /\ move'.label = move.label
          /\ move'.step = "add" /\ move.addr \notin tracked
      BY <1>0, <1>6, MoveAt DEF MoveSets, Moves, MovesTo, TypeOK, Redeploys, chain, Labelled
    <2>2. OnChain' = OnChain /\ ~Unnamed'
      BY <2>1 DEF OnChain, Unnamed
    <2>3. \A a \in OnChain : Known(a)' <=> Known(a)
      BY <1>0, <2>1 DEF Known, KnownToken
    <2>4. \A t : Clear(t) => Clear(t)'
      BY <2>1, <2>2 DEF Clear
    <2>5. MoveRelies'
      BY <1>1, <2>1, <2>2 DEF MoveRelies
    <2>6. QED
      BY <1>1, <1>2, <2>1, <2>2, <2>3, <2>4, <2>5
  <1>7. CASE MoveAdds
    <2>1. /\ move.step = "add" /\ move.addr \in Addrs /\ UNCHANGED <<account, meta>>
          /\ tracked' = tracked \cup {move.addr} /\ move' = Rest
          /\ meta[move.addr] = move.label /\ move.label \in Modes \cup {"modeless"}
      BY <1>0, <1>1, <1>7, MoveAt DEF MoveAdds, Moves, chain, Labelled, MoveRelies
    <2>2. OnChain' = OnChain /\ ~Unnamed'
      BY <2>1, RestFields DEF OnChain, Unnamed
    <2>3. \A a \in OnChain : (Known(a) => Known(a)') /\ (a = move.addr => Known(a)')
      BY <2>1 DEF Known, KnownToken
    <2>4. \A t : Clear(t) => Clear(t)'
      BY <2>1, <2>2 DEF Clear
    <2>5. MoveRelies'
      BY <1>0, <2>1, <2>2, RestFields DEF MoveRelies
    <2>6. QED
      BY <1>1, <1>2, <2>1, <2>2, <2>3, <2>4, <2>5
  <1>8. ASSUME NEW kind \in Kinds, NEW a \in Addrs, MoveClose(kind, a)
        PROVE  /\ \A b, c \in OnChain' : Token[account'[b]] = Token[account'[c]] => b = c
               /\ \A b \in OnChain' : \/ Known(b)' \/ b = move'.addr
                                      \/ \E r \in Runs : task[r].addr = b
               /\ \A t : Clear(t) => Clear(t)'
               /\ UNCHANGED <<tracked, meta>>
               /\ MoveRelies'
    <2>1. /\ account' = [account EXCEPT ![a] = None] /\ a \in OnChain
          /\ UNCHANGED <<tracked, meta>> /\ move.step = "idle" /\ a \in tracked
          /\ \A r \in Runs : task[r].addr # a
          /\ move'.addr = None /\ move'.old = a /\ move'.pool = account[a]
          /\ move'.label = IF kind \in {"recenter", "compound"} THEN Relabel(a) ELSE "modeless"
      BY <1>8 DEF MoveClose, Moves, OnChain, redis, keys
    <2>2. OnChain' = OnChain \ {a} /\ \A b \in OnChain' : account'[b] = account[b]
      BY <1>0, <2>1 DEF OnChain, TypeOK
    <2>3. move.addr = None
      BY <1>0, <2>1, MoveAt
    <2>4. \A b : Known(b)' <=> Known(b)
      BY <2>1 DEF Known, KnownToken
    <2>5. Known(a)
      BY <1>0, <1>1, <2>1, <2>3
    <2>6. move'.label \in Modes \cup {"modeless"}
      BY <2>1, <2>5 DEF Relabel, Known, Modes
    <2>7. \A t : Clear(t) => Clear(t)'
      BY <2>1, <2>2 DEF Clear
    <2>8. MoveRelies'
      BY <1>0, <1>1, <2>1, <2>2, <2>6 DEF MoveRelies
    <2>9. QED
      BY <1>0, <1>1, <2>1, <2>2, <2>3, <2>4, <2>7, <2>8
  <1>9. ASSUME NEW a \in Addrs, MoveDeploys(a)
        PROVE  /\ \A b, c \in OnChain' : Token[account'[b]] = Token[account'[c]] => b = c
               /\ \A b \in OnChain' : \/ Known(b)' \/ b = move'.addr
                                      \/ \E r \in Runs : task[r].addr = b
               /\ \A t : Clear(t) => Clear(t)'
               /\ UNCHANGED <<tracked, meta>>
               /\ MoveRelies'
    <2>1. /\ move.step = "deploy" /\ account[a] = None
          /\ account' = [account EXCEPT ![a] = move.pool]
          /\ a # move.old /\ UNCHANGED <<tracked, meta>>
      BY <1>9 DEF MoveDeploys, Moves, Lands, MoveCall, redis, keys
    <2>2. /\ move.pool \in Pools /\ move.pool # None /\ move.addr = None /\ Unnamed
      BY <1>0, <2>1, NoneIsNothing DEF TypeOK, MoveSound, Redeploys, Unnamed
    <2>3. /\ move'.addr = a /\ move'.old = move.old /\ move'.pool = move.pool
          /\ move'.label = move.label /\ move'.step \in {"drop", "set"}
      BY <1>0, <1>9 DEF MoveDeploys, TypeOK, Redeploys
    <2>4. /\ OnChain' = OnChain \cup {a} /\ a \notin OnChain /\ account'[a] = move.pool
          /\ \A b \in OnChain : account'[b] = account[b]
      BY <1>0, <2>1, <2>2 DEF OnChain, TypeOK
    <2>5. \A b \in OnChain : Token[account[b]] # Token[move.pool]
      BY <1>1, <2>2 DEF MoveRelies
    <2>6. \A b : Known(b)' <=> Known(b)
      BY <2>1 DEF Known, KnownToken
    <2>7. \A t : Clear(t) => Clear(t)'
      BY <2>2, <2>3, <2>4 DEF Clear
    <2>8. MoveRelies'
      <3>1. /\ move'.addr # None /\ account'[move'.addr] = move'.pool
            /\ move'.old \notin OnChain' /\ move'.label \in Modes \cup {"modeless"}
        BY <1>0, <1>1, <2>1, <2>3, <2>4 DEF MoveRelies
      <3>2. QED
        BY <3>1 DEF MoveRelies
    <2>9. \A b \in OnChain' : Known(b)' \/ b = move'.addr \/ \E r \in Runs : task[r].addr = b
      BY <1>0, <1>1, <2>2, <2>3, <2>4, <2>6
    <2>10. \A b, c \in OnChain' : Token[account'[b]] = Token[account'[c]] => b = c
      BY <1>1, <2>4, <2>5
    <2>11. QED
      BY <2>1, <2>7, <2>8, <2>9, <2>10
  <1>10. ~\E a \in Addrs : MoveStrands(a) \/ MoveLateLands(a)
    BY <1>0 DEF MoveStrands, MoveLateLands, Moves
  <1>11. ~MoveUnseen /\ ~MoveLateDies /\ ~MoveKilled
    BY <1>0 DEF MoveUnseen, MoveLateDies, MoveKilled, Moves
  <1>12. CASE MoveSell \/ MoveKeeps \/ MoveLooks \/ MoveFindsNone \/ MoveFails
    <2>1. /\ UNCHANGED <<account, tracked, meta>> /\ move.step \in {"sell", "deploy"}
      BY <1>12 DEF MoveSell, MoveKeeps, MoveLooks, MoveFindsNone, MoveFails, Moves, chain,
         redis, keys
    <2>2. CASE MoveFindsNone \/ MoveFails
      <3>1. move' = Rest
        BY <2>2 DEF MoveFindsNone, MoveFails
      <3>2. QED
        BY <1>4, <2>1, <3>1
    <2>3. CASE MoveSell \/ MoveKeeps \/ MoveLooks
      <3>1. move \in Redeploys
        BY <1>0 DEF TypeOK
      <3>2. /\ move'.label = move.label /\ move'.pool = move.pool
            /\ move'.addr = move.addr /\ move'.old = move.old /\ move'.step = "deploy"
        BY <2>3, <3>1 DEF MoveSell, MoveKeeps, MoveLooks, MovesTo, Redeploys
      <3>3. QED
        BY <1>4, <2>1, <3>2
    <2>4. QED
      BY <1>12, <2>2, <2>3
  <1>13. QED
    BY <1>5, <1>6, <1>7, <1>8, <1>9, <1>10, <1>11, <1>12 DEF Redeploy

LEMMA SingleNext == ASSUME Base, Labelled, Single, [Next]_vars PROVE Single'
  <1>0. TypeOK' /\ TypeOK /\ AllStaged
    BY NextTyped DEF Base
  <1>1. CASE UNCHANGED vars
    BY <1>1 DEF Single, OnChain, Known, KnownToken, Relies, MoveRelies, Unnamed, Clear, Without,
       vars, past, redis, keys, chain
  <1>2. CASE World
    BY <1>0, <1>2, SingleWorld
  <1>3. ASSUME NEW r \in Runs, NEW call \in Calls, Start(r, call)
        PROVE  Single'
    <2>1. /\ \A s \in Runs \ {r} : task'[s] = task[s]
          /\ task[r].step = "idle" /\ task'[r].step = "reconcile"
          /\ spoiled \subseteq spoiled' /\ UNCHANGED <<account, tracked, meta, move>>
      BY <1>0, <1>3, StartTask DEF redis, keys, chain
    <2>2. task[r].addr = None /\ \A a \in OnChain : a # None
      BY <1>0, <2>1, NoneIsNothing DEF TypeOK, Sound, OnChain
    <2>3. /\ OnChain' = OnChain /\ (\A a : Known(a)' <=> Known(a))
          /\ (\A t : Clear(t)' <=> Clear(t)) /\ (MoveRelies' <=> MoveRelies)
      BY <2>1 DEF OnChain, Known, KnownToken, Clear, Unnamed, MoveRelies
    <2>4. ASSUME NEW s \in Runs, Relies(s) PROVE Relies(s)'
      <3>1. CASE s = r
        BY <2>1, <3>1 DEF Relies, Carrying
      <3>2. CASE s # r
        <4>1. task'[s] = task[s]
          BY <2>1, <3>2
        <4>2. QED
          BY <2>1, <2>3, <2>4, <4>1 DEF Relies, Known, KnownToken, Clear, Unnamed
      <3>3. QED
        BY <3>1, <3>2
    <2>5. QED
      BY <2>1, <2>2, <2>3, <2>4 DEF Single, Without
  <1>4. ASSUME NEW r \in Runs, Step(r) \/ Killed(r)
        PROVE  Single'
    <2>1. CASE Without(Doubling)'
      BY <1>0, <1>4, <2>1, SingleStep
    <2>2. CASE ~Without(Doubling)'
      BY <2>2 DEF Single
    <2>3. QED
      BY <2>1, <2>2
  <1>5. CASE Redeploy
    <2>1. CASE Without(Doubling)'
      BY <1>0, <1>5, <2>1, SingleMove
    <2>2. CASE ~Without(Doubling)'
      BY <2>2 DEF Single
    <2>3. QED
      BY <2>1, <2>2
  <1>6. QED
    BY <1>1, <1>2, <1>3, <1>4, <1>5 DEF Next

\* A token is never held in two positions, though a second pool's token is known from
\* Redis alone, which the monitor rewrites when it adopts and redeploys; the gap of a
\* redeploy of the token and the empty account a redeploy leaves are the new exceptions
\* beside runs that overlap, failed reads, kills and adoptions (pipeline 217-252, 1073-1090;
\* monitor 911-926, 1358-1400, 1413-1442, 1507-1513, 1595, 1685-1717, 1728-1766).
THEOREM TokenHeldOnce == Spec => []TokenOnce
  <1>1. Base /\ Labelled /\ Single => TokenOnce
    BY DEF Single, TokenOnce, Doubling
  <1>2. Base /\ Labelled /\ Single /\ [Next]_vars => (Base /\ Labelled /\ Single)'
    BY BaseNext, LabelledNext, SingleNext
  <1>3. Init => Base /\ Labelled /\ Single
    BY BaseInit, LabelledInit, SingleInit
  <1>4. QED
    BY <1>1, <1>2, <1>3, PTL DEF Spec

--------------------------------------------------------------------------------
(* The life of a position. *)

Keyed == {a \in Addrs : meta[a] # None}

\* What a step may do to the accounts and the keys.
LEMMA LifeSteps ==
  ASSUME NEW a \in Addrs,
         \/ /\ a \notin OnChain /\ a \notin Keyed /\ OnChain' = OnChain \cup {a}
            /\ Keyed' = Keyed \/ Keyed' = Keyed \cup {a}
         \/ OnChain' = OnChain /\ Keyed' = Keyed \cup {a}
         \/ a \in OnChain /\ OnChain' = OnChain \ {a} /\ Keyed' = Keyed
  PROVE  Life!Next
  <1>1. CASE a \notin OnChain /\ a \notin Keyed /\ OnChain' = OnChain \cup {a}
    <2>1. CASE Keyed' = Keyed \/ Keyed' = Keyed \cup {a}
      <3>1. Life!Deploy(a)
        BY <1>1, <2>1 DEF Life!Deploy, Keyed
      <3>2. QED
        BY <3>1 DEF Life!Next
    <2>2. CASE ~(Keyed' = Keyed \/ Keyed' = Keyed \cup {a})
      BY <1>1, <2>2
    <2>3. QED
      BY <2>1, <2>2
  <1>2. CASE OnChain' = OnChain /\ Keyed' = Keyed \cup {a}
    <2>1. Life!Register(a)
      BY <1>2 DEF Life!Register, Keyed
    <2>2. QED
      BY <2>1 DEF Life!Next
  <1>3. CASE a \in OnChain /\ OnChain' = OnChain \ {a} /\ Keyed' = Keyed
    <2>1. Life!Close(a)
      BY <1>3 DEF Life!Close, Keyed
    <2>2. QED
      BY <2>1 DEF Life!Next
  <1>4. QED
    BY <1>1, <1>2, <1>3

\* Keys of accounts that are gone go.
LEMMA ForgetLives ==
  ASSUME NEW gone \in SUBSET Addrs, gone \cap OnChain = {}, OnChain' = OnChain,
         Keyed' = Keyed \ gone
  PROVE  Life!Next
  <1>1. Life!Forget(gone)
    BY DEF Life!Forget, Keyed
  <1>2. QED
    BY <1>1 DEF Life!Next

\* A deploy lands where nothing is and nobody holds a key.
LEMMA LandsLives ==
  ASSUME TypeOK, NEW call, call.pool \in Pools, NEW a \in Addrs, Lands(call, a)
  PROVE  a \notin OnChain /\ a \notin Keyed /\ OnChain' = OnChain \cup {a}
  BY DeployAssumption DEF Lands, OnChain, Keyed, TypeOK

\* One key changes.
LEMMA KeyChange ==
  ASSUME TypeOK, NEW a \in Addrs, NEW m \in Metas \cup {None},
         meta' = [meta EXCEPT ![a] = m]
  PROVE  Keyed' = IF m = None THEN Keyed \ {a} ELSE Keyed \cup {a}
  BY DEF TypeOK, Keyed

LEMMA StepLives ==
  ASSUME TypeOK, NEW r \in Runs, Step(r) \/ Killed(r), Without({"blind"})'
  PROVE  [Life!Next]_Life!life
  <1> USE DEF chain, redis, keys
  <1>1. UNCHANGED <<account, meta>> => UNCHANGED Life!life
    BY DEF Life!life, OnChain
  <1>2. task[r].pool # None => task[r].pool \in Pools
    BY DEF TypeOK, Tasks
  <1>3. ASSUME NEW view \in SUBSET Addrs, NEW young \in SUBSET Addrs,
               Reconcile(r, view, young)
        PROVE  Life!Next
    <2>1. view = OnChain
      BY <1>3 DEF Reconcile, Reads, Fault, Without
    <2>2. PICK gone \in SUBSET Addrs : gone = Addrs \ (view \cup young)
      OBVIOUS
    <2>3. /\ gone \cap OnChain = {} /\ OnChain' = OnChain
          /\ Keyed' = Keyed \ gone
      BY <1>3, <2>1, <2>2 DEF Reconcile, OnChain, Keyed
    <2>4. QED
      BY <2>3, ForgetLives
  <1>4. ASSUME NEW a \in Addrs, DeployOk(r, a) PROVE Life!Next
    <2>1. task[r].pool \in Pools /\ Call(r).pool = task[r].pool /\ Lands(Call(r), a)
      BY <1>2, <1>4 DEF DeployOk, At, Call, TypeOK, Sound
    <2>2. Keyed' = Keyed
      BY <1>4 DEF DeployOk, Keyed
    <2>3. QED
      BY <2>1, <2>2, LandsLives, LifeSteps
  <1>5. ASSUME NEW a \in Addrs, DeployOrphan(r, a) PROVE Life!Next
    <2>1. /\ task[r].pool \in Pools
          /\ Lands([pool |-> task[r].pool, sol |-> 0, base |-> 0], a)
      BY <1>2, <1>5 DEF DeployOrphan, At, TypeOK, Sound
    <2>2. Keyed' = Keyed \cup {a}
      BY <1>5, KeyChange, DeployAssumption DEF DeployOrphan, Metas
    <2>3. QED
      BY <2>1, <2>2, LandsLives, LifeSteps
  <1>6. CASE SetMeta(r)
    <2>1. PICK a \in Addrs : a = task[r].addr
      BY <1>6 DEF SetMeta, At, TypeOK, Tasks, Sound
    <2>2. task[r].mode \in Metas /\ task[r].mode # None
      BY <1>6, DeployAssumption DEF SetMeta, At, TypeOK, Tasks, Sound, Metas
    <2>3. OnChain' = OnChain /\ Keyed' = Keyed \cup {a}
      BY <1>6, <2>1, <2>2, KeyChange DEF SetMeta, OnChain
    <2>4. QED
      BY <2>3, LifeSteps
  <1>7. \/ UNCHANGED <<account, meta>>
        \/ \E view \in SUBSET Addrs, young \in SUBSET Addrs : Reconcile(r, view, young)
        \/ \E a \in Addrs : DeployOk(r, a) \/ DeployOrphan(r, a)
        \/ SetMeta(r)
    BY DEF Step, Killed, Gather, Slots, SlotsBlind, Balance, BalanceBlind, PickNone, Pick,
           GatesRefuse, GatesPass, SwapOk, SwapUnseen, Swapped, SwapFails, Bought,
           BoughtBlind, DeployFails, DeployUnseen, AddTracked, Count, Guard
  <1>8. QED
    BY <1>1, <1>3, <1>4, <1>5, <1>6, <1>7

\* What a redeploy has closed stays closed until its keys are dropped.
Closed == move.old \notin OnChain

LEMMA ClosedInit == ASSUME Init PROVE Closed
  BY DEF Init, OnChain, Closed

LEMMA ClosedNext == ASSUME TypeOK, TypeOK', Closed, [Next]_vars PROVE Closed'
  <1>1. ASSUME NEW call, NEW a \in Addrs, Lands(call, a)
        PROVE  move.old \notin OnChain'
    BY <1>1 DEF Lands, OnChain, Closed, TypeOK
  <1>2. ASSUME UNCHANGED <<account, move>> PROVE Closed'
    BY <1>2 DEF OnChain, Closed
  <1>3. CASE UNCHANGED vars
    BY <1>2, <1>3 DEF vars, chain
  <1>4. ASSUME NEW r \in Runs, Step(r) \/ Killed(r) \/ \E call \in Calls : Start(r, call)
        PROVE  Closed'
    <2>1. UNCHANGED move
      BY <1>4, MoveLeft
    <2>2. CASE \E a \in Addrs : DeployOk(r, a) \/ DeployOrphan(r, a)
      BY <1>1, <2>1, <2>2 DEF DeployOk, DeployOrphan, Closed
    <2>3. CASE \E call \in Calls : Start(r, call)
      BY <1>2, <2>1, <2>3 DEF Start, chain
    <2>4. QED
      BY <1>2, <1>4, <2>1, <2>2, <2>3, AccountStays
  <1>5. CASE World
    <2>1. UNCHANGED move
      BY <1>5, MoveLeft
    <2>2. CASE \E a \in Addrs : Close(a)
      BY <2>1, <2>2 DEF Close, OnChain, Closed, TypeOK
    <2>3. CASE \E r \in Runs, a \in Addrs : LateLands(r, a)
      BY <1>1, <2>1, <2>3 DEF LateLands, Closed
    <2>4. QED
      BY <1>2, <1>5, <2>1, <2>2, <2>3 DEF World, Forget, Adopt, Sweep, Bar, Lapse, LapsePool,
         LateDies, chain
  <1>6. CASE Redeploy
    <2>0. \A a \in Addrs : a # None
      BY NoneIsNothing
    <2>1. CASE move' = Rest
      BY <2>0, <2>1, RestFields DEF Closed, OnChain
    <2>2. CASE \E kind \in Kinds, a \in Addrs : MoveClose(kind, a)
      BY <2>2 DEF MoveClose, OnChain, Closed, TypeOK
    <2>3. CASE \E a \in Addrs : MoveDeploys(a) /\ move'.old = move.old
      BY <1>1, <2>3 DEF MoveDeploys, Closed
    <2>4. CASE move'.old = None
      BY <2>0, <2>4 DEF Closed, OnChain
    <2>5. CASE MoveSets \/ MoveSell \/ MoveKeeps \/ MoveLooks
      <3>1. account' = account
        BY <2>5 DEF MoveSets, MoveSell, MoveKeeps, MoveLooks, chain
      <3>2. move'.old = move.old
        BY <2>5 DEF MoveSets, MoveSell, MoveKeeps, MoveLooks, MovesTo, TypeOK, Redeploys
      <3>3. QED
        BY <3>1, <3>2 DEF Closed, OnChain
    <2>6. QED
      BY <1>6, <2>1, <2>2, <2>3, <2>4, <2>5, MoveFields
  <1>7. QED
    BY <1>3, <1>4, <1>5, <1>6 DEF Next

LEMMA RedeployLives ==
  ASSUME TypeOK, Closed, Redeploy
  PROVE  [Life!Next]_Life!life
  <1>1. UNCHANGED <<account, meta>> => UNCHANGED Life!life
    BY DEF Life!life, OnChain
  <1>2. ASSUME NEW kind \in Kinds, NEW a \in Addrs, MoveClose(kind, a) PROVE Life!Next
    <2>1. a \in OnChain /\ OnChain' = OnChain \ {a} /\ Keyed' = Keyed
      BY <1>2 DEF MoveClose, OnChain, Keyed, TypeOK, redis, keys
    <2>2. QED
      BY <2>1, LifeSteps
  <1>3. ASSUME NEW a \in Addrs, MoveDeploys(a) \/ MoveLateLands(a) PROVE Life!Next
    <2>1. Lands(MoveCall, a) /\ move.step # "idle" /\ Keyed' = Keyed
      BY <1>3 DEF MoveDeploys, MoveLateLands, Moves, Keyed, redis, keys
    <2>2. MoveCall.pool \in Pools
      BY <2>1 DEF MoveCall, TypeOK, MoveSound
    <2>3. QED
      BY <2>1, <2>2, LandsLives, LifeSteps
  <1>4. ASSUME NEW a \in Addrs, MoveStrands(a) PROVE Life!Next
    <2>1. /\ Lands([pool |-> move.pool, sol |-> 0, base |-> 0], a)
          /\ move.pool \in Pools /\ Keyed' = Keyed
      BY <1>4 DEF MoveStrands, Moves, TypeOK, MoveSound, Keyed, redis, keys
    <2>2. QED
      BY <2>1, LandsLives, LifeSteps
  <1>5. CASE MoveDrop
    <2>1. /\ move.step = "drop" /\ move.old \in Addrs /\ OnChain' = OnChain
          /\ meta' = [meta EXCEPT ![move.old] = None]
      BY <1>5 DEF MoveDrop, Moves, TypeOK, MoveSound, Redeploys, OnChain, chain
    <2>2. move.old \notin OnChain /\ Keyed' = Keyed \ {move.old}
      BY <2>1, KeyChange DEF Closed
    <2>3. QED
      BY <2>1, <2>2, ForgetLives
  <1>6. CASE MoveSets
    <2>1. /\ move.addr \in Addrs /\ move.label \in Metas /\ move.label # None
          /\ OnChain' = OnChain /\ meta' = [meta EXCEPT ![move.addr] = move.label]
      BY <1>6, MoveAt, DeployAssumption DEF MoveSets, Moves, TypeOK, MoveSound, OnChain, chain
    <2>2. Keyed' = Keyed \cup {move.addr}
      BY <2>1, KeyChange
    <2>3. QED
      BY <2>1, <2>2, LifeSteps
  <1>7. CASE \/ MoveSell \/ MoveKeeps \/ MoveLooks \/ MoveFindsNone \/ MoveFails \/ MoveUnseen
             \/ MoveLateDies \/ MoveAdds \/ MoveKilled
    BY <1>1, <1>7 DEF MoveSell, MoveKeeps, MoveLooks, MoveFindsNone, MoveFails, MoveUnseen,
       MoveLateDies, MoveAdds, MoveKilled, chain, redis, keys
  <1>8. QED
    BY <1>2, <1>3, <1>4, <1>5, <1>6, <1>7 DEF Redeploy

LEMMA WorldLives ==
  ASSUME TypeOK, World
  PROVE  [Life!Next]_Life!life
  <1> USE DEF chain, redis, keys
  <1>1. UNCHANGED <<account, meta>> => UNCHANGED Life!life
    BY DEF Life!life, OnChain
  <1>2. ASSUME NEW a \in Addrs, Close(a) PROVE Life!Next
    <2>1. a \in OnChain /\ OnChain' = OnChain \ {a} /\ Keyed' = Keyed
      BY <1>2 DEF Close, OnChain, Keyed, TypeOK
    <2>2. QED
      BY <2>1, LifeSteps
  <1>3. ASSUME NEW a \in Addrs, Forget(a) PROVE Life!Next
    <2>1. {a} \cap OnChain = {} /\ OnChain' = OnChain /\ Keyed' = Keyed \ {a}
      BY <1>3, KeyChange DEF Forget, OnChain
    <2>2. QED
      BY <2>1, ForgetLives
  <1>4. ASSUME NEW a \in Addrs, Adopt(a) PROVE Life!Next
    <2>1. OnChain' = OnChain /\ Keyed' = Keyed \cup {a}
      BY <1>4, KeyChange, DeployAssumption DEF Adopt, OnChain, Metas
    <2>2. QED
      BY <2>1, LifeSteps
  <1>5. ASSUME NEW r \in Runs, NEW a \in Addrs, LateLands(r, a) PROVE Life!Next
    <2>1. late[r].pool \in Pools /\ Keyed' = Keyed
      BY <1>5 DEF LateLands, TypeOK, Late, Keyed
    <2>2. QED
      BY <1>5, <2>1, LandsLives, LifeSteps DEF LateLands
  <1>6. \/ UNCHANGED <<account, meta>>
        \/ \E a \in Addrs : Close(a) \/ Forget(a) \/ Adopt(a)
        \/ \E r \in Runs, a \in Addrs : LateLands(r, a)
    BY DEF World, Sweep, Bar, Lapse, LapsePool, LateDies
  <1>7. QED
    BY <1>1, <1>2, <1>3, <1>4, <1>5, <1>6

\* Any number of runs at once, kills, calls that land late, adoptions and redeploys keep to
\* PositionLife until a read fails (pipeline 349-392, 1568-1614; monitor 1347-1442,
\* 1497-1513, 1728-1771).
THEOREM PipelineKeepsLife == Spec => LivesUnlessBlind
  <1>1. TypeOK /\ Closed /\ [Next]_vars => [Without({"blind"})' => [Life!Next]_Life!life]_vars
    <2>1. ASSUME TypeOK, Closed, Next, Without({"blind"})' PROVE [Life!Next]_Life!life
      <3>1. ASSUME NEW r \in Runs, NEW call \in Calls, Start(r, call)
            PROVE  UNCHANGED Life!life
        BY <3>1 DEF Start, chain, redis, keys, Life!life, OnChain
      <3>2. QED
        BY <2>1, <3>1, StepLives, WorldLives, RedeployLives DEF Next
    <2>2. QED
      BY <2>1
  <1>2. Spec => []Closed
    <2>1. TypeOK /\ TypeOK' /\ Closed /\ [Next]_vars => Closed'
      BY ClosedNext
    <2>2. Init => Closed
      BY ClosedInit
    <2>3. QED
      BY <2>1, <2>2, TypesHold, PTL DEF Spec
  <1>3. QED
    BY <1>1, <1>2, TypesHold, PTL DEF Spec, LivesUnlessBlind
================================================================================
