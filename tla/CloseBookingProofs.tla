--------------------------- MODULE CloseBookingProofs ---------------------------
(***************************************************************************)
(* What holds of the bookings of closes for any number of monitors, agents *)
(* and positions, any caps and any closes.                                 *)
(***************************************************************************)
EXTENDS CloseBooking, FiniteSetTheorems, TLAPS

--------------------------------------------------------------------------------
(* Types. *)

LEMMA SolTypes ==
  ASSUME NEW r \in Results
  PROVE  /\ Sol(r) \in Int /\ Size(r) \in Nat
         /\ Sol(r) <= Size(r) /\ -Sol(r) <= Size(r)
  BY DEF Sol, Size, Results

LEMMA PoolTypes ==
  ASSUME NEW p \in Positions
  PROVE  Pool[p] \in Pools /\ Token[Pool[p]] \in Tokens
  BY BookingAssumption DEF Pools, Tokens

\* What a closer at work knows.
LEMMA TaskTypes ==
  ASSUME TypeOK, NEW c \in Closers, task[c].step # "idle"
  PROVE  /\ task[c] \in Tasks
         /\ task[c].pos \in Positions /\ task[c].mode \in Modes
         /\ PoolOf(c) \in Pools /\ TokenOf(c) \in Tokens
<1>1. task[c] \in Tasks /\ task[c].pos # None /\ task[c].mode # None
  BY DEF TypeOK, Sound
<1>2. task[c].pos \in Positions /\ task[c].mode \in Modes
  BY <1>1 DEF Tasks
<1> QED
  BY <1>1, <1>2, PoolTypes DEF PoolOf, TokenOf

LEMMA IdleTypes == Idle \in Tasks /\ Idle.step = "idle" /\ Idle.again = FALSE /\ Idle.pos = None
                   /\ Idle.kind # "oor"
  BY BookingAssumption DEF Idle, Tasks, Steps, Kinds

\* The task of one closer changes, to a well-typed one.
LEMMA TaskChange ==
  ASSUME TypeOK, NEW c \in Closers, NEW new \in Tasks, Sound(c, new),
         task' = [task EXCEPT ![c] = new]
  PROVE  task' \in [Closers -> Tasks] /\ \A d \in Closers : Sound(d, task'[d])
  BY DEF TypeOK

\* A step in a closer's own program.
LEMMA GotoTypes ==
  ASSUME TypeOK, NEW c \in Closers, task[c].step # "idle", NEW step \in Steps \ {"idle"},
         task[c].result = None => step = "cool" \/ step = "after", Goto(c, step)
  PROVE  task' \in [Closers -> Tasks] /\ \A d \in Closers : Sound(d, task'[d])
<1> DEFINE new == [task[c] EXCEPT !.step = step]
<1>0. task[c] \in Tasks /\ Sound(c, task[c])
  BY DEF TypeOK
<1>1. new \in Tasks
  BY <1>0 DEF Tasks
<1>2. Sound(c, new)
  BY <1>0 DEF Sound, Tasks
<1>3. task' = [task EXCEPT ![c] = new]
  BY DEF Goto
<1> HIDE DEF new
<1> QED
  BY <1>1, <1>2, <1>3, TaskChange

LEMMA DoneTypes ==
  ASSUME TypeOK, NEW c \in Closers, Done(c)
  PROVE  task' \in [Closers -> Tasks] /\ \A d \in Closers : Sound(d, task'[d])
<1>1. Sound(c, Idle)
  BY IdleTypes DEF Sound
<1> QED
  BY <1>1, IdleTypes, TaskChange DEF Done

LEMMA InitTypes == Init => TypeOK
<1> SUFFICES ASSUME Init PROVE TypeOK
  OBVIOUS
<1>1. task \in [Closers -> Tasks] /\ \A c \in Closers : Sound(c, task[c])
  BY IdleTypes DEF Init, Sound
<1>2. bounds \in [closes : 0 .. MaxCloses, kills : 0 .. MaxKills]
  BY BookingAssumption DEF Init
<1>3. open \subseteq Positions /\ mode \in [Positions -> Modes \cup {None}] /\ blocked \subseteq Tokens
  BY DEF Init
<1>4. /\ cool \in [Tokens -> {0, 15, 60, 120, 1440, 4320}]
      /\ coolMint \in [Tokens -> {0, 15, 60, 120, 1440, 4320}]
      /\ coolPool \in [Pools -> {0, 240}]
  BY DEF Init
<1>5. /\ streak \in [Tokens -> Nat] /\ recenters \in [Pools -> Nat] /\ poolPnl \in [Pools -> Int]
      /\ recent \in [Pools -> Nat]
  BY DEF Init
<1>6. day \in Int /\ closed \in Int
  BY DEF Init
<1>7. slack \in Nat
  BY DEF Init
<1> QED
  BY <1>1, <1>2, <1>3, <1>4, <1>5, <1>6, <1>7 DEF TypeOK

Minutes == {0, 15, 60, 120, 1440, 4320}

LEMMA CoolTypes ==
  ASSUME TypeOK, NEW c \in Closers
  PROVE  Plain(c) \in Minutes \ {0} /\ MonitorCools(c) \in Minutes \ {0}
  BY DEF Plain, MonitorCools, Escalated, Minutes

\* Budget, field by field.
LEMMA BudgetStep ==
  ASSUME TypeOK, NEW c \in Closers, NEW above \in BOOLEAN, Budget(c, above)
  PROVE  \E re \in BOOLEAN :
           /\ re => Recenters(c, above)
           /\ task' = [task EXCEPT ![c].again = re,
                                  ![c].step = IF re \/ Tripped(c) THEN "after" ELSE "streak"]
<1> DEFINE re == Recenters(c, above)
<1>1. re \in BOOLEAN /\ (re => Recenters(c, above))
  BY DEF Recenters, BudgetOk, ModeAllows
<1>2. task' = [task EXCEPT ![c].again = re,
                           ![c].step = IF re \/ Tripped(c) THEN "after" ELSE "streak"]
  BY DEF Budget
<1> HIDE DEF re
<1> QED
  BY <1>1, <1>2

LEMMA BookTypes ==
  ASSUME TypeOK, NEW c \in Closers, Book(c)
  PROVE  TypeOK'
<1> USE DEF redis, past, At
<1> task[c].step # "idle" => task[c] \in Tasks /\ Sound(c, task[c])
  BY DEF TypeOK
<1>1. CASE Forget(c)
  <2>1. task[c].step # "idle" /\ (task[c].result = None => c \in Agents)
    BY <1>1 DEF Forget, Sound
  <2>2. task' \in [Closers -> Tasks] /\ \A d \in Closers : Sound(d, task'[d])
    BY <1>1, <2>1, GotoTypes DEF Forget, Steps
  <2> QED
    BY <1>1, <2>1, <2>2, TaskTypes DEF Forget, TypeOK
<1>2. CASE ReadTotal(c)
  <2> DEFINE new == [task[c] EXCEPT !.total = day, !.step = "write"]
  <2>1. new \in Tasks
    BY <1>2 DEF ReadTotal, TypeOK, Tasks, Steps
  <2>2. Sound(c, new)
    BY <1>2 DEF ReadTotal, Sound, Tasks
  <2>3. task' = [task EXCEPT ![c] = new]
    BY <1>2 DEF ReadTotal
  <2> HIDE DEF new
  <2>4. task' \in [Closers -> Tasks] /\ \A d \in Closers : Sound(d, task'[d])
    BY <2>1, <2>2, <2>3, TaskChange
  <2> QED
    BY <1>2, <2>4 DEF ReadTotal, TypeOK
<1>3. CASE WriteTotal(c)
  <2>1. task[c].step # "idle" /\ task[c].result # None
    BY <1>3 DEF WriteTotal, Sound
  <2>2. SolOf(c) \in Int /\ task[c].total \in Int
    BY <2>1, SolTypes DEF SolOf, Tasks
  <2>3. task' \in [Closers -> Tasks] /\ \A d \in Closers : Sound(d, task'[d])
    BY <1>3, <2>1, GotoTypes DEF WriteTotal, Steps
  <2>4. slack' \in Nat
    BY <1>3, <2>1, SolTypes DEF WriteTotal, TypeOK, Tasks
  <2> QED
    BY <1>3, <2>2, <2>3, <2>4 DEF WriteTotal, TypeOK
<1>4. CASE \E above \in BOOLEAN : Budget(c, above)
  <2> PICK above \in BOOLEAN : Budget(c, above)
    BY <1>4
  <2> DEFINE re   == Recenters(c, above)
             to   == IF re \/ Tripped(c) THEN "after" ELSE "streak"
             new  == [task[c] EXCEPT !.again = re, !.step = to]
  <2>1. re \in BOOLEAN /\ (re => task[c].kind = "oor")
    BY DEF Recenters, BudgetOk, ModeAllows
  <2>2. to \in {"after", "streak"}
    OBVIOUS
  <2>3. task' = [task EXCEPT ![c] = new]
    BY DEF Budget
  <2>4. task[c].step = "budget"
    BY DEF Budget
  <2> HIDE DEF re, to
  <2>5. new \in Tasks
    BY <2>1, <2>2, <2>4 DEF Tasks, Steps
  <2>6. Sound(c, new)
    BY <2>1, <2>2, <2>4 DEF Sound, Tasks
  <2> HIDE DEF new
  <2>7. task' \in [Closers -> Tasks] /\ \A d \in Closers : Sound(d, task'[d])
    BY <2>3, <2>5, <2>6, TaskChange
  <2> QED
    BY <2>7 DEF Budget, TypeOK
<1>5. CASE Streak(c)
  <2>1. task[c].step # "idle" /\ task[c].result # None
    BY <1>5 DEF Streak, Sound
  <2>2. TokenOf(c) \in Tokens
    BY <2>1, TaskTypes
  <2>3. task' \in [Closers -> Tasks] /\ \A d \in Closers : Sound(d, task'[d])
    BY <1>5, <2>1, GotoTypes DEF Streak, Steps
  <2>4. streak' \in [Tokens -> Nat]
    BY <1>5, <2>2 DEF Streak, TypeOK
  <2> QED
    BY <1>5, <2>3, <2>4 DEF Streak, TypeOK
<1>6. CASE Look(c)
  <2> DEFINE to   == IF c \in Agents THEN "extend" ELSE "cool"
             n    == IF SolOf(c) >= 0 THEN 0
                     ELSE IF streak[TokenOf(c)] = 0 THEN 1 ELSE streak[TokenOf(c)]
             new  == [task[c] EXCEPT !.step = to, !.losses = n]
  <2>1. task[c].step = "look" /\ task[c].result # None
    BY <1>6 DEF Look, Sound
  <2>2. n \in Nat
    BY <2>1, TaskTypes DEF TypeOK
  <2>3. task' = [task EXCEPT ![c] = new]
    BY <1>6 DEF Look
  <2>4. to \in {"extend", "cool"}
    OBVIOUS
  <2> HIDE DEF n, to
  <2>5. new \in Tasks /\ Sound(c, new)
    BY <2>1, <2>2, <2>4 DEF Tasks, Steps, Sound
  <2> HIDE DEF new
  <2>6. task' \in [Closers -> Tasks] /\ \A d \in Closers : Sound(d, task'[d])
    BY <2>3, <2>5, TaskChange
  <2> QED
    BY <1>6, <2>6 DEF Look, TypeOK
<1>7. CASE Cool(c)
  <2>1. task[c].step = "cool"
    BY <1>7 DEF Cool
  <2>2. task' \in [Closers -> Tasks] /\ \A d \in Closers : Sound(d, task'[d])
    BY <1>7, <2>1, GotoTypes DEF Cool, Steps, Sound
  <2>3. cool' \in [Tokens -> Minutes] /\ coolMint' \in [Tokens -> Minutes]
    BY <1>7, <2>1, CoolTypes, TaskTypes DEF Cool, TypeOK, Minutes
  <2> QED
    BY <1>7, <2>2, <2>3 DEF Cool, TypeOK, Minutes
<1>8. CASE Extend(c)
  <2>1. task[c].step = "extend" /\ task[c].result # None
    BY <1>8 DEF Extend, Sound
  <2>2. task' \in [Closers -> Tasks] /\ \A d \in Closers : Sound(d, task'[d])
    BY <1>8, <2>1, GotoTypes DEF Extend, Steps
  <2>3. cool' \in [Tokens -> Minutes] /\ coolMint' \in [Tokens -> Minutes]
    BY <1>8, <2>1, TaskTypes DEF Extend, TypeOK, Minutes, Escalated, Lasts
  <2> QED
    BY <1>8, <2>2, <2>3 DEF Extend, TypeOK, Minutes
<1>9. CASE After(c)
  <2>1. task[c].step = "after"
    BY <1>9 DEF After
  <2>2. task[c].again => task[c].result # None
    BY <2>1, BookingAssumption DEF Sound
  <2>3. c \in Monitors => task[c].result # None
    BY <2>1, BookingAssumption DEF Sound, Monitors
  <2>4. task' \in [Closers -> Tasks] /\ \A d \in Closers : Sound(d, task'[d])
    BY <1>9, <2>1, <2>2, <2>3, GotoTypes, DoneTypes DEF After, Steps
  <2>5. coolPool' \in [Pools -> {0, 240}] /\ blocked' \subseteq Tokens
    BY <1>9, <2>1, TaskTypes DEF After, TypeOK
  <2> QED
    BY <1>9, <2>4, <2>5 DEF After, TypeOK
<1>10. CASE Tally(c)
  <2>1. task[c].step = "tally" /\ task[c].result # None
    BY <1>10 DEF Tally, Sound
  <2>2. task' \in [Closers -> Tasks] /\ \A d \in Closers : Sound(d, task'[d])
    BY <1>10, <2>1, GotoTypes DEF Tally, Steps
  <2>3. recenters' \in [Pools -> Nat]
    BY <1>10, <2>1, TaskTypes DEF Tally, TypeOK
  <2> QED
    BY <1>10, <2>2, <2>3 DEF Tally, TypeOK
<1>11. CASE TallyPnl(c)
  <2>1. task[c].step = "tallyPnl" /\ task[c].result # None
    BY <1>11 DEF TallyPnl, Sound
  <2>2. task' \in [Closers -> Tasks] /\ \A d \in Closers : Sound(d, task'[d])
    BY <1>11, <2>1, GotoTypes DEF TallyPnl, Steps
  <2>3. SolOf(c) \in Int
    BY <2>1, SolTypes DEF SolOf, Tasks
  <2>4. poolPnl' \in [Pools -> Int]
    BY <1>11, <2>1, <2>3, TaskTypes DEF TallyPnl, TypeOK
  <2> QED
    BY <1>11, <2>2, <2>4 DEF TallyPnl, TypeOK
<1>12. CASE \E q \in Positions, o \in Outcomes : Redeploy(c, q, o) \/ Reseed(c, q, o)
  <2> PICK q \in Positions, o \in Outcomes : Redeploy(c, q, o) \/ Reseed(c, q, o)
    BY <1>12
  <2> DEFINE new == [task[c] EXCEPT !.step = "register", !.pos = q]
  <2>1. task[c].step \in {"redeploy", "reseed"} /\ task[c].result # None
    BY DEF Redeploy, Reseed, Sound
  <2>2. new \in Tasks /\ Sound(c, new)
    BY <2>1, BookingAssumption DEF Tasks, Steps, Sound
  <2>3. \/ task' = [task EXCEPT ![c] = new]
        \/ Goto(c, "fallback") \/ Done(c)
    BY DEF Redeploy, Reseed
  <2> HIDE DEF new
  <2>4. task' \in [Closers -> Tasks] /\ \A d \in Closers : Sound(d, task'[d])
    BY <2>1, <2>2, <2>3, TaskChange, GotoTypes, DoneTypes DEF Steps
  <2>5. open' \subseteq Positions
    BY DEF Redeploy, Reseed, TypeOK
  <2>6. recent' \in [Pools -> Nat]
    BY <2>1, TaskTypes DEF Redeploy, Reseed, TypeOK
  <2>7. UNCHANGED <<redis, bounds, closed, slack>>
    BY DEF Redeploy, Reseed
  <2> QED
    BY <2>4, <2>5, <2>6, <2>7 DEF TypeOK
<1>13. CASE Register(c)
  <2>1. mode' \in [Positions -> Modes \cup {None}]
    BY <1>13, TaskTypes DEF Register, TypeOK
  <2> QED
    BY <1>13, <2>1, DoneTypes DEF Register, TypeOK
<1>14. CASE Fallback(c)
  <2>1. cool' \in [Tokens -> Minutes]
    BY <1>14, TaskTypes DEF Fallback, TypeOK, Minutes
  <2> QED
    BY <1>14, <2>1, DoneTypes DEF Fallback, TypeOK, Minutes
<1> QED
  BY <1>1, <1>2, <1>3, <1>4, <1>5, <1>6, <1>7, <1>8, <1>9, <1>10, <1>11, <1>12, <1>13, <1>14
     DEF Book

LEMMA CloseTypes ==
  ASSUME TypeOK, NEW c \in Closers, NEW p \in Positions, NEW close \in Closes,
         CloseLands(c, p, close.kind, close.result)
  PROVE  TypeOK'
<1> DEFINE new == [step |-> "forget", pos |-> p, mode |-> mode[p], kind |-> close.kind,
                   result |-> close.result, total |-> 0, losses |-> 0, again |-> FALSE,
                   met |-> Busy(Token[Pool[p]])]
           met(d) == [task[d] EXCEPT !.met = TRUE]
<1>1. close.kind \in Kinds /\ close.result \in Results \cup {None}
  BY BookingAssumption
<1>2. mode[p] \in Modes /\ Busy(Token[Pool[p]]) \in BOOLEAN
  BY DEF CloseLands, TypeOK, Busy
<1>3. new \in Tasks
  BY <1>1, <1>2 DEF Tasks, Steps
<1>4. Sound(c, new)
  <2>1. close.kind = "oor" => c = Loop
    BY DEF CloseLands, Closers
  <2> QED
    BY <1>2, <2>1, BookingAssumption DEF CloseLands, Sound
<1>5. \A d \in Closers : task[d] \in Tasks /\ Sound(d, task[d])
  BY DEF TypeOK
<1>6. ASSUME NEW d \in Closers
      PROVE  met(d) \in Tasks /\ Sound(d, met(d))
  BY <1>5 DEF Tasks, Sound
<1>7. task' = [d \in Closers |-> IF d = c THEN new
                 ELSE IF BusyWith(d, Token[Pool[p]]) THEN met(d) ELSE task[d]]
  BY DEF CloseLands
<1> HIDE DEF new, met
<1>8. task' \in [Closers -> Tasks] /\ \A d \in Closers : Sound(d, task'[d])
  BY <1>3, <1>4, <1>5, <1>6, <1>7
<1>9. bounds' \in [closes : 0 .. MaxCloses, kills : 0 .. MaxKills]
  BY BookingAssumption DEF CloseLands, TypeOK
<1>10. open' \subseteq Positions /\ UNCHANGED <<redis, slack, recent>>
  BY DEF CloseLands, TypeOK
<1>11. closed' \in Int
  BY <1>1, SolTypes DEF CloseLands, TypeOK
<1> QED
  BY <1>8, <1>9, <1>10, <1>11 DEF redis, TypeOK

LEMMA KilledTypes ==
  ASSUME TypeOK, NEW c \in Closers, Killed(c)
  PROVE  TypeOK'
<1>1. bounds' \in [closes : 0 .. MaxCloses, kills : 0 .. MaxKills]
  BY BookingAssumption DEF Killed, TypeOK
<1>2. slack' \in Nat
  BY SolTypes DEF Killed, Owes, TypeOK, Tasks
<1> QED
  BY <1>1, <1>2, DoneTypes DEF Killed, redis, TypeOK

LEMMA WorldTypes ==
  ASSUME TypeOK, World
  PROVE  TypeOK'
<1>1. CASE \E p \in Positions : Adopt(p) \/ Drop(p) \/ \E m \in Entered : Deploy(p, m)
  <2>1. open' \subseteq Positions /\ mode' \in [Positions -> Modes \cup {None}]
    BY <1>1, BookingAssumption DEF Adopt, Drop, Deploy, TypeOK, redis, Modes
  <2>2. UNCHANGED <<day, cool, coolMint, coolPool, streak, recenters, poolPnl, blocked,
                    task, bounds, past>>
    BY <1>1 DEF Adopt, Drop, Deploy, redis
  <2> QED
    BY <2>1, <2>2 DEF past, TypeOK
<1>4. CASE \E p \in Positions, close \in Closes : CloseUnseen(p, close.result)
  <2> PICK p \in Positions, close \in Closes : CloseUnseen(p, close.result)
    BY <1>4
  <2>1. close.result \in Results
    BY BookingAssumption DEF CloseUnseen
  <2>2. closed' \in Int /\ slack' \in Nat
    BY <2>1, SolTypes DEF CloseUnseen, TypeOK
  <2>3. bounds' \in [closes : 0 .. MaxCloses, kills : 0 .. MaxKills]
    BY BookingAssumption DEF CloseUnseen, TypeOK
  <2>4. open' \subseteq Positions /\ UNCHANGED <<redis, task, recent>>
    BY DEF CloseUnseen, TypeOK
  <2> QED
    BY <2>2, <2>3, <2>4 DEF redis, TypeOK
<1>2. CASE \E t \in Tokens : Lapse(t)
  <2>1. cool' \in [Tokens -> Minutes] /\ coolMint' \in [Tokens -> Minutes]
        /\ streak' \in [Tokens -> Nat]
    BY <1>2 DEF Lapse, TypeOK, Minutes
  <2>2. UNCHANGED <<open, mode, day, coolPool, recenters, poolPnl, blocked, task, bounds, past>>
    BY <1>2 DEF Lapse
  <2> QED
    BY <2>1, <2>2 DEF past, TypeOK, Minutes
<1>3. CASE \E pool \in Pools : LapsePool(pool)
  <2>1. coolPool' \in [Pools -> {0, 240}] /\ recenters' \in [Pools -> Nat]
        /\ poolPnl' \in [Pools -> Int] /\ recent' \in [Pools -> Nat]
    BY <1>3 DEF LapsePool, TypeOK
  <2>2. UNCHANGED <<open, mode, day, cool, coolMint, streak, blocked, task, bounds, closed, slack>>
    BY <1>3 DEF LapsePool
  <2> QED
    BY <2>1, <2>2 DEF TypeOK
<1> QED
  BY <1>1, <1>2, <1>3, <1>4 DEF World

LEMMA NextTypes ==
  ASSUME TypeOK, [Next]_vars
  PROVE  TypeOK'
<1>1. CASE vars' = vars
  BY <1>1 DEF vars, redis, past, TypeOK
<1>2. CASE Next
  BY <1>2, BookTypes, CloseTypes, KilledTypes, WorldTypes DEF Next
<1> QED
  BY <1>1, <1>2

\* Types, of every closer's knowledge too: whoever books a close knows its position, mode and
\* reason, and only an override books without a result (monitor 756-854, 1497-1770).
THEOREM TypesHold == Spec => []TypeOK
  BY InitTypes, NextTypes, PTL DEF Spec

--------------------------------------------------------------------------------
(* The day's total. *)

\* What a closer still owes to the total.
Share(c) == IF Owes(c) THEN Sol(task[c].result) ELSE 0

Near(off) == off <= slack /\ -off <= slack

\* The total, and what everybody who has read it has read, is off by no more than slack.
Adds == /\ Near(closed - Owed - day)
        /\ \A c \in Closers : At(c, "write") => Near(closed - Owed - task[c].total)

LEMMA CountOne ==
  ASSUME NEW S, IsFiniteSet(S), NEW x
  PROVE  /\ Cardinality(S) \in Nat /\ Cardinality(S \ {x}) \in Nat
         /\ Cardinality(S) = Cardinality(S \ {x}) + IF x \in S THEN 1 ELSE 0
<1>1. /\ IsFiniteSet(S \ {x})
      /\ Cardinality(S \ {x}) = IF x \in S THEN Cardinality(S) - 1 ELSE Cardinality(S)
  BY FS_RemoveElement
<1>2. Cardinality(S) \in Nat /\ Cardinality(S \ {x}) \in Nat
  BY <1>1, FS_CardinalityType
<1> QED
  BY <1>1, <1>2

LEMMA OwingFinite ==
  ASSUME NEW R
  PROVE  IsFiniteSet(Owing(R)) /\ IsFiniteSet(Owing(R)')
<1>1. Owing(R) \in SUBSET Closers /\ Owing(R)' \in SUBSET Closers
  BY DEF Owing
<1> QED
  BY <1>1, FS_Subset, BookingAssumption

LEMMA OwedType == Owed \in Int
  BY OwingFinite, FS_CardinalityType DEF Owed

LEMMA ShareType ==
  ASSUME TypeOK, NEW c \in Closers
  PROVE  Share(c) \in Int
  BY SolTypes DEF Share, Owes, TypeOK, Tasks

\* One closer's part of the debt.
LEMMA OwingOne ==
  ASSUME NEW c \in Closers, NEW R,
         \A d \in Closers \ {c} : task'[d].step = task[d].step /\ task'[d].result = task[d].result
  PROVE  Cardinality(Owing(R)') - Cardinality(Owing(R))
           = (IF Owes(c)' /\ task'[c].result \in R THEN 1 ELSE 0)
             - (IF Owes(c) /\ task[c].result \in R THEN 1 ELSE 0)
<1> DEFINE now == Owing(R)
           then == Owing(R)'
<1>1. now \ {c} = then \ {c}
  BY DEF Owing, Owes, At
<1>2. c \in now <=> Owes(c) /\ task[c].result \in R
  BY DEF Owing
<1>3. c \in then <=> Owes(c)' /\ task'[c].result \in R
  BY DEF Owing
<1>4. IsFiniteSet(now) /\ IsFiniteSet(then)
  BY OwingFinite
<1> HIDE DEF now, then
<1>5. /\ Cardinality(now) \in Nat /\ Cardinality(now \ {c}) \in Nat
      /\ Cardinality(now) = Cardinality(now \ {c}) + IF c \in now THEN 1 ELSE 0
  BY <1>4, CountOne
<1>6. /\ Cardinality(then) \in Nat /\ Cardinality(then \ {c}) \in Nat
      /\ Cardinality(then) = Cardinality(then \ {c}) + IF c \in then THEN 1 ELSE 0
  BY <1>4, CountOne
<1>7. Cardinality(then) - Cardinality(now) = (IF c \in then THEN 1 ELSE 0)
                                             - (IF c \in now THEN 1 ELSE 0)
  BY <1>1, <1>5, <1>6
<1> QED
  BY <1>2, <1>3, <1>7 DEF now, then

\* The debt changes by the part of the closer that moved.
LEMMA OwedOne ==
  ASSUME TypeOK, TypeOK', NEW c \in Closers,
         \A d \in Closers \ {c} : task'[d].step = task[d].step /\ task'[d].result = task[d].result
  PROVE  /\ Owed \in Int /\ Owed' \in Int /\ Share(c) \in Int /\ Share(c)' \in Int
         /\ Owed' = Owed + Share(c)' - Share(c)
<1> DEFINE Part(R)     == IF Owes(c) /\ task[c].result \in R THEN 1 ELSE 0
           PartThen(R) == IF Owes(c)' /\ task'[c].result \in R THEN 1 ELSE 0
<1>1. /\ Owes(c) => task[c].result \in Results
      /\ Owes(c)' => task'[c].result \in Results
  BY DEF Owes, TypeOK, Tasks
<1>2. Share(c) = Part({"win"}) - Part({"loss"}) - 2 * Part({"rug", "deep"})
  BY <1>1 DEF Share, Sol, Results
<1>3. Share(c)' = PartThen({"win"}) - PartThen({"loss"}) - 2 * PartThen({"rug", "deep"})
  BY <1>1 DEF Share, Sol, Results
<1>4. ASSUME NEW R
      PROVE  /\ Cardinality(Owing(R)) \in Nat /\ Cardinality(Owing(R)') \in Nat
             /\ Cardinality(Owing(R)') = Cardinality(Owing(R)) + PartThen(R) - Part(R)
             /\ Part(R) \in Int /\ PartThen(R) \in Int
  <2>1. Cardinality(Owing(R)) \in Nat /\ Cardinality(Owing(R)') \in Nat
    BY OwingFinite, FS_CardinalityType
  <2>2. Cardinality(Owing(R)') - Cardinality(Owing(R)) = PartThen(R) - Part(R)
    BY OwingOne
  <2>3. Part(R) \in Int /\ PartThen(R) \in Int
    OBVIOUS
  <2> HIDE DEF Part, PartThen
  <2> QED
    BY <2>1, <2>2, <2>3
<1> HIDE DEF Part, PartThen
<1>5. Owed' = Owed + Share(c)' - Share(c)
  BY <1>2, <1>3, <1>4 DEF Owed
<1>6. Owed' \in Int /\ Share(c)' \in Int
  BY <1>3, <1>4 DEF Owed
<1> QED
  BY <1>5, <1>6, OwedType, ShareType

\* A step of c that neither reads nor writes the total and leaves its debt as it is.
LEMMA AddsKept ==
  ASSUME TypeOK, TypeOK', Adds, NEW c \in Closers, UNCHANGED <<day, closed, slack>>,
         \A d \in Closers \ {c} : /\ task'[d].step = task[d].step
                                  /\ task'[d].result = task[d].result
                                  /\ task'[d].total = task[d].total,
         task'[c].step # "write", Share(c)' = Share(c)
  PROVE  Adds'
<1>1. Owed' = Owed
  BY OwedOne
<1> QED
  BY <1>1 DEF Adds, Near, At

LEMMA AddsBook ==
  ASSUME TypeOK, TypeOK', Adds, NEW c \in Closers, Book(c)
  PROVE  Adds'
<1> USE DEF At, Goto, Done, Idle, redis, past
<1>0. task \in [Closers -> Tasks] /\ \A d \in Closers : task[d] \in Tasks /\ Sound(d, task[d])
  BY DEF TypeOK
<1>1. CASE ReadTotal(c)
  <2>1. /\ task'[c].step = "write" /\ task'[c].total = day /\ task'[c].result = task[c].result
        /\ \A d \in Closers \ {c} : task'[d] = task[d]
    BY <1>0, <1>1 DEF ReadTotal, Tasks
  <2>2. UNCHANGED <<day, closed, slack>> /\ Share(c)' = Share(c)
    BY <1>1, <2>1 DEF ReadTotal, Share, Owes
  <2>3. Owed' = Owed
    BY <2>1, <2>2, OwedOne
  <2> QED
    BY <2>1, <2>2, <2>3 DEF Adds, Near
<1>2. CASE WriteTotal(c)
  <2>1. task[c].result \in Results /\ task[c].step = "write"
    BY <1>0, <1>2 DEF WriteTotal, Sound, Tasks
  <2>2. SolOf(c) \in Int /\ Size(task[c].result) \in Nat
        /\ SolOf(c) <= Size(task[c].result) /\ -SolOf(c) <= Size(task[c].result)
    BY <2>1, SolTypes DEF SolOf
  <2>3. /\ task'[c].step \in {"streak", "budget"}
        /\ \A d \in Closers \ {c} : task'[d] = task[d]
    BY <1>0, <1>2 DEF WriteTotal, Tasks
  <2>4. Share(c) = SolOf(c) /\ Share(c)' = 0
    BY <2>1, <2>3, BookingAssumption DEF Share, Owes, SolOf
  <2>5. Owed' = Owed - SolOf(c) /\ Owed \in Int
    BY <2>2, <2>3, <2>4, OwedOne
  <2>6. day' = task[c].total + SolOf(c) /\ closed' = closed
    BY <1>2 DEF WriteTotal
  <2>7. /\ task[c].total \in Int /\ closed \in Int /\ slack \in Nat
        /\ \A d \in Closers : task[d].total \in Int
    BY <1>0 DEF TypeOK, Tasks
  <2>8. slack' \in Nat /\ slack' >= slack
    BY <1>2, <2>2, <2>7 DEF WriteTotal
  <2>9. Near(closed - Owed - day)'
    <3>1. Near(closed - Owed - task[c].total)
      BY <2>1 DEF Adds
    <3> QED
      BY <2>2, <2>5, <2>6, <2>7, <2>8, <3>1 DEF Near
  <2>10. ASSUME NEW d \in Closers, At(d, "write")'
         PROVE  Near(closed - Owed - task[d].total)'
    <3>1. d # c /\ At(d, "write") /\ task'[d].total = task[d].total
      BY <2>3, <2>10
    <3>2. slack' = slack + Size(task[c].result)
      BY <1>2, <3>1 DEF WriteTotal
    <3>3. Near(closed - Owed - task[d].total)
      BY <3>1 DEF Adds
    <3> QED
      BY <2>2, <2>5, <2>6, <2>7, <3>1, <3>2, <3>3 DEF Near
  <2> QED
    BY <2>9, <2>10 DEF Adds
<1>3. CASE Forget(c)
  <2>1. /\ task[c].step = "forget" /\ task'[c].step = IF c \in Agents THEN "cool" ELSE "read"
        /\ task'[c].result = task[c].result /\ \A d \in Closers \ {c} : task'[d] = task[d]
    BY <1>0, <1>3 DEF Forget, Tasks
  <2>2. Share(c)' = Share(c)
    BY <2>1 DEF Share, Owes
  <2> QED
    BY <1>3, <2>1, <2>2, AddsKept DEF Forget
<1>4. CASE Cool(c)
  <2>1. /\ task[c].step = "cool"
        /\ task'[c].step = IF c \in Agents /\ task[c].result # None THEN "read" ELSE "after"
        /\ task'[c].result = task[c].result /\ \A d \in Closers \ {c} : task'[d] = task[d]
    BY <1>0, <1>4 DEF Cool, Tasks
  <2>2. Share(c)' = Share(c)
    BY <2>1 DEF Share, Owes
  <2> QED
    BY <1>4, <2>1, <2>2, AddsKept DEF Cool
<1>5. ASSUME /\ task[c].step \notin {"forget", "read", "write", "cool", "idle"}
             /\ task'[c].step \notin {"forget", "read", "write"}
             /\ c \in Agents => task'[c].step # "cool"
             /\ \A d \in Closers \ {c} : task'[d] = task[d]
             /\ UNCHANGED <<day, closed, slack>>
      PROVE  Adds'
  <2>1. Share(c) = 0 /\ Share(c)' = 0
    BY <1>5 DEF Share, Owes
  <2> QED
    BY <1>5, <2>1, AddsKept
<1>6. CASE \E above \in BOOLEAN : Budget(c, above)
  <2> PICK above \in BOOLEAN : Budget(c, above)
    BY <1>6
  <2>1. PICK re \in BOOLEAN :
          task' = [task EXCEPT ![c].again = re,
                               ![c].step = IF re \/ Tripped(c) THEN "after" ELSE "streak"]
    BY BudgetStep
  <2>2. UNCHANGED <<day, closed, slack>> /\ task[c].step = "budget"
    BY DEF Budget
  <2>3. task'[c].step \in {"after", "streak"} /\ \A d \in Closers \ {c} : task'[d] = task[d]
    BY <1>0, <2>1 DEF Tasks
  <2> QED
    BY <1>5, <2>2, <2>3
<1>7. CASE Streak(c) \/ Look(c) \/ Extend(c) \/ Tally(c) \/ TallyPnl(c)
  BY <1>0, <1>5, <1>7 DEF Streak, Look, Extend, Tally, TallyPnl, Tasks
<1>8. CASE After(c)
  BY <1>0, <1>5, <1>8 DEF After, Tasks
<1>9. CASE \E q \in Positions, o \in Outcomes : Redeploy(c, q, o) \/ Reseed(c, q, o)
  BY <1>0, <1>5, <1>9 DEF Redeploy, Reseed, Tasks
<1>10. CASE Register(c) \/ Fallback(c)
  BY <1>0, <1>5, <1>10 DEF Register, Fallback, Tasks
<1> QED
  BY <1>1, <1>2, <1>3, <1>4, <1>6, <1>7, <1>8, <1>9, <1>10 DEF Book

\* The debt of one closer moves into the closes, or out of the debt into what is lost.
LEMMA AddsMoved ==
  ASSUME TypeOK, TypeOK', Adds, NEW c \in Closers, UNCHANGED day,
         \A d \in Closers \ {c} : /\ task'[d].step = task[d].step
                                  /\ task'[d].result = task[d].result
                                  /\ task'[d].total = task[d].total,
         task'[c].step # "write",
         LET off == (closed' - closed) - (Share(c)' - Share(c)) IN
           off <= slack' - slack /\ -off <= slack' - slack
  PROVE  Adds'
<1>1. /\ closed \in Int /\ closed' \in Int /\ slack \in Nat /\ slack' \in Nat /\ day \in Int
      /\ \A d \in Closers : task[d].total \in Int
  BY DEF TypeOK, Tasks
<1>2. /\ Owed \in Int /\ Owed' \in Int /\ Share(c) \in Int /\ Share(c)' \in Int
      /\ Owed' = Owed + Share(c)' - Share(c)
  BY OwedOne
<1>3. ASSUME NEW x \in Int, Near(closed - Owed - x)
      PROVE  closed' - Owed' - x <= slack' /\ -(closed' - Owed' - x) <= slack'
  BY <1>1, <1>2, <1>3 DEF Near
<1>4. Near(closed - Owed - day)'
  BY <1>1, <1>3 DEF Adds, Near
<1>5. ASSUME NEW d \in Closers, At(d, "write")'
      PROVE  Near(closed - Owed - task[d].total)'
  <2>1. At(d, "write") /\ task'[d].total = task[d].total /\ task[d].total \in Int
    BY <1>1, <1>5 DEF At
  <2> QED
    BY <1>3, <2>1 DEF Adds, Near
<1> QED
  BY <1>4, <1>5 DEF Adds

LEMMA AddsNext ==
  ASSUME TypeOK, TypeOK', Adds, [Next]_vars
  PROVE  Adds'
<1> USE DEF redis, past
<1>0. task \in [Closers -> Tasks] /\ \A d \in Closers : task[d] \in Tasks
  BY DEF TypeOK
<1>1. CASE UNCHANGED <<task, day, closed, slack>>
  BY <1>1 DEF Adds, Near, Owed, Owing, Owes, At
<1>2. ASSUME NEW c \in Closers, Killed(c)
      PROVE  Adds'
  <2>1. /\ task'[c] = Idle /\ \A d \in Closers \ {c} : task'[d] = task[d]
        /\ UNCHANGED <<day, closed>>
        /\ slack' = IF Owes(c) THEN slack + Size(task[c].result) ELSE slack
    BY <1>0, <1>2 DEF Killed, Done
  <2>2. Share(c)' = 0 /\ Idle.step # "write"
    BY <2>1 DEF Share, Owes, At, Idle
  <2>3. Owes(c) => task[c].result \in Results
    BY <1>0 DEF Owes, Tasks
  <2>4. Share(c) \in Int /\ Share(c) <= slack' - slack /\ -Share(c) <= slack' - slack
    BY <2>1, <2>3, SolTypes DEF Share, TypeOK
  <2>5. closed \in Int
    BY DEF TypeOK
  <2> QED
    BY <2>1, <2>2, <2>4, <2>5, AddsMoved
<1>3. ASSUME NEW c \in Closers, NEW p \in Positions, NEW close \in Closes,
             CloseLands(c, p, close.kind, close.result)
      PROVE  Adds'
  <2>1. close.result \in Results \cup {None}
    BY BookingAssumption
  <2>2. /\ task[c].step = "idle" /\ task'[c].step = "forget" /\ task'[c].result = close.result
        /\ \A d \in Closers \ {c} : /\ task'[d].step = task[d].step
                                    /\ task'[d].result = task[d].result
                                    /\ task'[d].total = task[d].total
        /\ UNCHANGED <<day, slack>>
        /\ closed' = IF close.result = None THEN closed ELSE closed + Sol(close.result)
    BY <1>0, <1>3 DEF CloseLands, At, Tasks
  <2>3. Share(c) = 0 /\ Share(c)' = IF close.result = None THEN 0 ELSE Sol(close.result)
    BY <2>2 DEF Share, Owes, At
  <2>4. close.result # None => Sol(close.result) \in Int
    BY <2>1, SolTypes
  <2>5. closed \in Int /\ slack \in Nat
    BY DEF TypeOK
  <2>6. (closed' - closed) - (Share(c)' - Share(c)) = 0
    BY <2>2, <2>3, <2>4, <2>5
  <2> QED
    BY <2>2, <2>5, <2>6, AddsMoved
<1>4. ASSUME NEW p \in Positions, NEW close \in Closes, CloseUnseen(p, close.result)
      PROVE  Adds'
  <2>1. close.result \in Results
    BY <1>4, BookingAssumption DEF CloseUnseen
  <2>2. /\ UNCHANGED <<task, day>> /\ closed' = closed + Sol(close.result)
        /\ slack' = slack + Size(close.result)
    BY <1>4 DEF CloseUnseen
  <2>3. Owed' = Owed /\ Owed \in Int
    BY <2>2, OwedType DEF Owed, Owing, Owes, At
  <2>4. /\ closed \in Int /\ slack \in Nat /\ day \in Int
        /\ \A d \in Closers : task[d].total \in Int
    BY <1>0 DEF TypeOK, Tasks
  <2>5. ASSUME NEW x \in Int, Near(closed - Owed - x)
        PROVE  closed' - Owed' - x <= slack' /\ -(closed' - Owed' - x) <= slack'
    BY <2>1, <2>2, <2>3, <2>4, <2>5, SolTypes DEF Near
  <2> QED
    BY <2>2, <2>4, <2>5 DEF Adds, Near, At
<1>5. CASE World
  <2>1. \/ UNCHANGED <<task, day, closed, slack>>
        \/ \E p \in Positions, close \in Closes : CloseUnseen(p, close.result)
    BY <1>5 DEF World, Adopt, Drop, Deploy, Lapse, LapsePool
  <2> QED
    BY <1>1, <1>4, <2>1
<1> QED
  BY <1>1, <1>2, <1>3, <1>5, AddsBook DEF Next, vars

LEMMA NothingOwed == Init => Owed = 0
<1> SUFFICES ASSUME Init PROVE Owed = 0
  OBVIOUS
<1>1. \A R : Owing(R) = {}
  BY DEF Init, Owing, Owes, Idle
<1> QED
  BY <1>1, FS_EmptySet DEF Owed

\* The day's total is the PnL of all the closes on chain but for those still being booked.
\* It may be off by three kinds of close only, and by no more than these have earned or
\* lost: one whose success nobody saw, one whose closer was killed between the executor's
\* answer and the write, and one written while another closer had read the total and not
\* yet written it (monitor 1497-1529, 767-789).
THEOREM TotalHolds == Spec => []TotalAddsUp
<1>1. Init => Adds
  BY NothingOwed DEF Init, Adds, Near, At, Idle
<1>2. TypeOK /\ TypeOK' /\ Adds /\ [Next]_vars => Adds'
  BY AddsNext
<1>3. Adds => TotalAddsUp
  BY DEF Adds, Near, TotalAddsUp
<1> QED
  BY <1>1, <1>2, <1>3, TypesHold, PTL DEF Spec

--------------------------------------------------------------------------------
(* A closer's program. *)

Recentering == {"tally", "tallyPnl", "redeploy", "fallback"}

\* A re-center is decided after a close without much of a loss and before losses are counted;
\* only a closer that has looked knows of losses.
Steady(c, k) ==
  /\ k.again => /\ k.result \in {"loss", "even", "win"} /\ k.losses = 0
                /\ k.step \in Recentering \cup {"after", "register"}
  /\ k.step \in Recentering => k.again
  /\ k.step \in {"forget", "read", "write", "budget", "streak", "look"} => k.losses = 0
  /\ c \in Agents /\ k.step = "cool" => k.losses = 0
  /\ k.step = "idle" => k.pos = None

AllSteady == \A c \in Closers : Steady(c, task[c])

\* One closer's step.
LEMMA SteadyOne ==
  ASSUME AllSteady, TypeOK, NEW c \in Closers, NEW new \in Tasks, Steady(c, new),
         task' = [task EXCEPT ![c] = new]
  PROVE  AllSteady'
  BY DEF AllSteady, TypeOK

LEMMA SteadyDone ==
  ASSUME AllSteady, TypeOK, NEW c \in Closers, Done(c)
  PROVE  AllSteady'
<1>1. Steady(c, Idle) /\ Idle \in Tasks
  BY IdleTypes DEF Steady, Idle, Recentering
<1> QED
  BY <1>1, SteadyOne DEF Done

LEMMA SteadyGoto ==
  ASSUME AllSteady, TypeOK, NEW c \in Closers, NEW step \in Steps, Goto(c, step),
         Steady(c, [task[c] EXCEPT !.step = step])
  PROVE  AllSteady'
<1> DEFINE new == [task[c] EXCEPT !.step = step]
<1>1. new \in Tasks
  BY DEF TypeOK, Tasks
<1>2. task' = [task EXCEPT ![c] = new]
  BY DEF Goto
<1>3. Steady(c, new)
  OBVIOUS
<1> HIDE DEF new
<1> QED
  BY <1>1, <1>2, <1>3, SteadyOne

LEMMA SteadyBook ==
  ASSUME TypeOK, AllSteady, NEW c \in Closers, Book(c)
  PROVE  AllSteady'
<1> USE DEF At
<1>0. task[c] \in Tasks /\ Steady(c, task[c]) /\ Sound(c, task[c])
  BY DEF TypeOK, AllSteady
<1>1. CASE Forget(c)
  <2>1. PICK step \in {"cool", "read"} : Goto(c, step)
    BY <1>1 DEF Forget
  <2> QED
    BY <1>0, <1>1, <2>1, SteadyGoto DEF Forget, Steady, Steps, Tasks, Recentering
<1>2. CASE ReadTotal(c)
  <2> DEFINE new == [task[c] EXCEPT !.total = day, !.step = "write"]
  <2>1. new \in Tasks /\ Steady(c, new)
    BY <1>0, <1>2 DEF ReadTotal, Steady, Tasks, Steps, TypeOK, Recentering
  <2>2. task' = [task EXCEPT ![c] = new]
    BY <1>2 DEF ReadTotal
  <2> HIDE DEF new
  <2> QED
    BY <2>1, <2>2, SteadyOne
<1>3. CASE WriteTotal(c)
  <2>1. PICK step \in {"streak", "budget"} : Goto(c, step)
    BY <1>3 DEF WriteTotal
  <2> QED
    BY <1>0, <1>3, <2>1, SteadyGoto DEF WriteTotal, Steady, Steps, Tasks, Recentering
<1>4. CASE \E above \in BOOLEAN : Budget(c, above)
  <2> PICK above \in BOOLEAN : Budget(c, above)
    BY <1>4
  <2>1. PICK re \in BOOLEAN :
          /\ re => Recenters(c, above)
          /\ task' = [task EXCEPT ![c].again = re,
                                 ![c].step = IF re \/ Tripped(c) THEN "after" ELSE "streak"]
    BY BudgetStep
  <2>2. PICK to \in {"after", "streak"} :
          /\ re => to = "after"
          /\ task' = [task EXCEPT ![c] = [task[c] EXCEPT !.again = re, !.step = to]]
    BY <2>1
  <2>3. re => task[c].result \in {"loss", "even", "win"}
    BY <1>0, <2>1 DEF Recenters, Budget, Sound, Tasks, Results
  <2>4. task[c].step = "budget"
    BY DEF Budget
  <2> DEFINE new == [task[c] EXCEPT !.again = re, !.step = to]
  <2>5. new \in Tasks /\ Steady(c, new)
    BY <1>0, <2>2, <2>3, <2>4 DEF Steady, Tasks, Steps, Recentering
  <2>6. task' = [task EXCEPT ![c] = new]
    BY <2>2
  <2> HIDE DEF new
  <2> QED
    BY <2>5, <2>6, SteadyOne
<1>5. CASE Streak(c)
  BY <1>0, <1>5, SteadyGoto DEF Streak, Steady, Steps, Tasks, Recentering
<1>6. CASE Look(c)
  <2>1. PICK to \in {"extend", "cool"}, n \in Nat :
          /\ c \in Agents => to = "extend"
          /\ task' = [task EXCEPT ![c] = [task[c] EXCEPT !.step = to, !.losses = n]]
    <3> DEFINE to == IF c \in Agents THEN "extend" ELSE "cool"
               n  == IF SolOf(c) >= 0 THEN 0
                     ELSE IF streak[TokenOf(c)] = 0 THEN 1 ELSE streak[TokenOf(c)]
    <3>1. n \in Nat
      BY <1>6, TaskTypes DEF Look, TypeOK
    <3>2. task' = [task EXCEPT ![c] = [task[c] EXCEPT !.step = to, !.losses = n]]
      BY <1>6 DEF Look
    <3>3. to \in {"extend", "cool"} /\ (c \in Agents => to = "extend")
      OBVIOUS
    <3> HIDE DEF to, n
    <3> QED
      BY <3>1, <3>2, <3>3
  <2> DEFINE new == [task[c] EXCEPT !.step = to, !.losses = n]
  <2>2. new \in Tasks /\ Steady(c, new)
    BY <1>0, <1>6, <2>1 DEF Look, Steady, Tasks, Steps, Recentering
  <2>3. task' = [task EXCEPT ![c] = new]
    BY <2>1
  <2> HIDE DEF new
  <2> QED
    BY <2>2, <2>3, SteadyOne
<1>7. CASE Cool(c) \/ Extend(c)
  <2>1. PICK step \in {"after", "read"} : Goto(c, step) /\ (step = "read" => Cool(c) /\ c \in Agents)
    BY <1>7 DEF Cool, Extend
  <2> QED
    BY <1>0, <1>7, <2>1, SteadyGoto DEF Cool, Extend, Steady, Steps, Tasks, Recentering
<1>8. CASE After(c)
  <2>1. \/ Done(c)
        \/ Goto(c, "tally") /\ task[c].again
        \/ Goto(c, "reseed") /\ ~task[c].again
    BY <1>8 DEF After
  <2> QED
    BY <1>0, <1>8, <2>1, SteadyGoto, SteadyDone DEF After, Steady, Steps, Tasks, Recentering
<1>9. CASE Tally(c) \/ TallyPnl(c)
  <2>1. PICK step \in {"tallyPnl", "redeploy"} : Goto(c, step)
    BY <1>9 DEF Tally, TallyPnl
  <2> QED
    BY <1>0, <1>9, <2>1, SteadyGoto DEF Tally, TallyPnl, Steady, Steps, Tasks, Recentering
<1>10. CASE \E q \in Positions, o \in Outcomes : Redeploy(c, q, o) \/ Reseed(c, q, o)
  <2> PICK q \in Positions, o \in Outcomes : Redeploy(c, q, o) \/ Reseed(c, q, o)
    BY <1>10
  <2> DEFINE new == [task[c] EXCEPT !.step = "register", !.pos = q]
  <2>1. \/ task' = [task EXCEPT ![c] = new]
        \/ Goto(c, "fallback") /\ Redeploy(c, q, o)
        \/ Done(c)
    BY DEF Redeploy, Reseed
  <2>2. new \in Tasks /\ Steady(c, new)
    BY <1>0 DEF Redeploy, Reseed, Steady, Tasks, Steps, Recentering
  <2> HIDE DEF new
  <2>3. CASE Goto(c, "fallback") /\ Redeploy(c, q, o)
    BY <1>0, <2>3, SteadyGoto DEF Redeploy, Steady, Tasks, Steps, Recentering
  <2> QED
    BY <2>1, <2>2, <2>3, SteadyOne, SteadyDone
<1>11. CASE Register(c) \/ Fallback(c)
  BY <1>11, SteadyDone DEF Register, Fallback
<1> QED
  BY <1>1, <1>2, <1>3, <1>4, <1>5, <1>6, <1>7, <1>8, <1>9, <1>10, <1>11 DEF Book

LEMMA SteadyNext ==
  ASSUME TypeOK, AllSteady, [Next]_vars
  PROVE  AllSteady'
<1>1. CASE vars' = vars
  BY <1>1 DEF vars, AllSteady
<1>2. ASSUME NEW c \in Closers, NEW p \in Positions, NEW close \in Closes,
             CloseLands(c, p, close.kind, close.result)
      PROVE  AllSteady'
  BY <1>2 DEF CloseLands, AllSteady, Steady, TypeOK, Tasks, Recentering
<1>3. CASE World
  BY <1>3 DEF World, CloseUnseen, Adopt, Drop, Deploy, Lapse, LapsePool, AllSteady
<1> QED
  BY <1>1, <1>2, <1>3, SteadyBook, SteadyDone DEF Next, Killed

--------------------------------------------------------------------------------
(* The budget of re-centers. *)

\* A re-center under way is within the budget it was decided on: nobody else re-centers, and
\* the counts of a pool do not lapse under a closer of its token.
InBudget(k, pool) ==
  /\ k.again /\ k.step \in {"after", "tally"} => recenters[pool] < CountCap[k.mode]
  /\ k.step \in {"tallyPnl", "redeploy"} =>
       recent[pool] + 1 <= recenters[pool] /\ recenters[pool] <= CountCap[k.mode]
  /\ k.mode = "turnover" /\ k.again /\ k.step \in {"after", "tally", "tallyPnl"} =>
       poolPnl[pool] > -CbLoss
  /\ k.mode = "turnover" /\ k.step = "redeploy" => poolPnl[pool] >= -CbLoss

Within ==
  /\ \A pool \in Pools : recent[pool] <= recenters[pool]
  /\ \A c \in Closers : task[c].step # "idle" => InBudget(task[c], PoolOf(c))

IBudget == TypeOK /\ AllSteady /\ Within

\* Only the loop re-centers.
LEMMA OneRecenters ==
  ASSUME TypeOK, AllSteady, NEW c \in Closers, NEW d \in Closers,
         task[c].again \/ task[c].step \in Recentering,
         task[d].again \/ task[d].step \in Recentering
  PROVE  c = d
  BY DEF TypeOK, Sound, AllSteady, Steady

\* The counts stay, and nobody moves on in a re-center.
LEMMA WithinKept ==
  ASSUME Within, UNCHANGED <<recent, recenters, poolPnl>>,
         \A c \in Closers :
           \/ /\ task'[c].pos = task[c].pos /\ task'[c].mode = task[c].mode
              /\ task'[c].step = task[c].step /\ task'[c].again = task[c].again
           \/ /\ task'[c].step \notin {"tally", "tallyPnl", "redeploy"}
              /\ task'[c].step = "after" => ~task'[c].again
  PROVE  Within'
<1>1. \A pool \in Pools : recent'[pool] <= recenters'[pool]
  BY DEF Within
<1>2. ASSUME NEW c \in Closers, task'[c].step # "idle"
      PROVE  InBudget(task[c], PoolOf(c))'
  <2>1. CASE /\ task'[c].pos = task[c].pos /\ task'[c].mode = task[c].mode
             /\ task'[c].step = task[c].step /\ task'[c].again = task[c].again
    BY <1>2, <2>1 DEF Within, InBudget, PoolOf
  <2>2. CASE /\ task'[c].step \notin {"tally", "tallyPnl", "redeploy"}
             /\ task'[c].step = "after" => ~task'[c].again
    BY <2>2 DEF InBudget
  <2> QED
    BY <2>1, <2>2
<1> QED
  BY <1>1, <1>2 DEF Within

LEMMA WithinBook ==
  ASSUME IBudget, NEW c \in Closers, Book(c)
  PROVE  Within'
<1> USE DEF At, Goto, Done, Idle, redis, past, IBudget
<1>0. /\ task \in [Closers -> Tasks] /\ task[c] \in Tasks
      /\ Sound(c, task[c]) /\ Steady(c, task[c])
  BY DEF TypeOK, AllSteady
<1>1. CASE Forget(c) \/ ReadTotal(c) \/ WriteTotal(c) \/ Streak(c) \/ Look(c)
  BY <1>0, <1>1, WithinKept DEF Forget, ReadTotal, WriteTotal, Streak, Look, Tasks
<1>2. CASE \E above \in BOOLEAN : Budget(c, above)
  <2> PICK above \in BOOLEAN : Budget(c, above)
    BY <1>2
  <2>1. PICK re \in BOOLEAN :
          /\ re => Recenters(c, above)
          /\ task' = [task EXCEPT ![c].again = re,
                                 ![c].step = IF re \/ Tripped(c) THEN "after" ELSE "streak"]
    BY BudgetStep
  <2>2. UNCHANGED <<recent, recenters, poolPnl>>
    BY DEF Budget
  <2>3. CASE ~re
    BY <1>0, <2>1, <2>2, <2>3, WithinKept DEF Tasks
  <2>4. CASE re
    <3>1. \A d \in Closers \ {c} : task'[d] = task[d]
      BY <1>0, <2>1
    <3>2. /\ task'[c].pos = task[c].pos /\ task'[c].mode = task[c].mode
          /\ task'[c].step = "after"
      BY <1>0, <2>1, <2>4 DEF Tasks
    <3>3. InBudget(task[c], PoolOf(c))'
      BY <2>1, <2>2, <2>4, <3>2 DEF Recenters, BudgetOk, InBudget, PoolOf
    <3>4. ASSUME NEW d \in Closers \ {c}, task'[d].step # "idle"
          PROVE  InBudget(task[d], PoolOf(d))'
      BY <2>2, <3>1, <3>4 DEF Within, InBudget, PoolOf
    <3> QED
      BY <2>2, <3>3, <3>4 DEF Within
  <2> QED
    BY <2>3, <2>4
<1>3. CASE Cool(c) \/ Extend(c)
  <2>1. ~task[c].again
    BY <1>0, <1>3 DEF Cool, Extend, Steady, Recentering
  <2> QED
    BY <1>0, <1>3, <2>1, WithinKept DEF Cool, Extend, Tasks
<1>4. CASE After(c)
  <2>1. UNCHANGED <<recent, recenters, poolPnl>>
    BY <1>4 DEF After
  <2>2. CASE ~task[c].again
    BY <1>0, <1>4, <2>1, <2>2, WithinKept DEF After, Tasks
  <2>3. CASE task[c].again
    <3>1. /\ \A d \in Closers \ {c} : task'[d] = task[d]
          /\ task'[c] = [task[c] EXCEPT !.step = "tally"]
          /\ task[c].step = "after"
      BY <1>0, <1>4, <2>3 DEF After
    <3>2. ASSUME NEW d \in Closers, task'[d].step # "idle"
          PROVE  InBudget(task[d], PoolOf(d))'
      <4>1. CASE d = c
        BY <1>0, <2>1, <2>3, <3>1, <4>1 DEF Within, InBudget, PoolOf, Tasks
      <4>2. CASE d # c
        BY <2>1, <3>1, <3>2, <4>2 DEF Within, InBudget, PoolOf
      <4> QED
        BY <4>1, <4>2
    <3> QED
      BY <2>1, <3>2 DEF Within
  <2> QED
    BY <2>2, <2>3
<1>5. CASE Tally(c)
  <2>1. /\ \A d \in Closers \ {c} : task'[d] = task[d]
        /\ task'[c] = [task[c] EXCEPT !.step = "tallyPnl"]
        /\ task[c].step = "tally"
    BY <1>0, <1>5 DEF Tally
  <2>2. PoolOf(c) \in Pools /\ task[c].again /\ task[c].mode \in Modes
    BY <1>0, <2>1, TaskTypes DEF Steady, Recentering
  <2>3. /\ recenters' = [recenters EXCEPT ![PoolOf(c)] = @ + 1]
        /\ UNCHANGED <<recent, poolPnl>>
    BY <1>5 DEF Tally
  <2>4. /\ recenters \in [Pools -> Nat] /\ recent \in [Pools -> Nat]
        /\ CountCap[task[c].mode] \in Nat
    BY <2>2, BookingAssumption DEF TypeOK
  <2>5. \A pool \in Pools : recent'[pool] <= recenters'[pool]
    BY <2>2, <2>3, <2>4 DEF Within
  <2>6. InBudget(task[c], PoolOf(c))'
    <3>1. InBudget(task[c], PoolOf(c)) /\ recent[PoolOf(c)] <= recenters[PoolOf(c)]
      BY <2>1, <2>2 DEF Within
    <3>2. PoolOf(c)' = PoolOf(c)
      BY <1>0, <2>1 DEF PoolOf, Tasks
    <3> QED
      BY <1>0, <2>1, <2>2, <2>3, <2>4, <3>1, <3>2 DEF InBudget, Tasks
  <2>7. ASSUME NEW d \in Closers \ {c}, task'[d].step # "idle"
        PROVE  InBudget(task[d], PoolOf(d))'
    <3>1. ~task[d].again /\ task[d].step \notin Recentering
      BY <2>1, <2>2, OneRecenters
    <3> QED
      BY <2>1, <3>1 DEF InBudget, Recentering
  <2> QED
    BY <2>5, <2>6, <2>7 DEF Within
<1>6. CASE TallyPnl(c)
  <2>1. /\ \A d \in Closers \ {c} : task'[d] = task[d]
        /\ task'[c] = [task[c] EXCEPT !.step = "redeploy"]
        /\ task[c].step = "tallyPnl"
    BY <1>0, <1>6 DEF TallyPnl
  <2>2. PoolOf(c) \in Pools /\ task[c].again
    BY <1>0, <2>1, TaskTypes DEF Steady, Recentering
  <2>3. /\ poolPnl' = [poolPnl EXCEPT ![PoolOf(c)] = @ + SolOf(c)]
        /\ UNCHANGED <<recent, recenters>>
    BY <1>6 DEF TallyPnl
  <2>4. SolOf(c) \in {-1, 0, 1}
    BY <1>0, <2>2 DEF Steady, SolOf, Sol
  <2>5. poolPnl \in [Pools -> Int] /\ CbLoss \in Nat
    BY BookingAssumption DEF TypeOK
  <2>6. InBudget(task[c], PoolOf(c))'
    <3>1. InBudget(task[c], PoolOf(c))
      BY <2>1, <2>2 DEF Within
    <3>2. PoolOf(c)' = PoolOf(c)
      BY <1>0, <2>1 DEF PoolOf, Tasks
    <3> QED
      BY <1>0, <2>1, <2>2, <2>3, <2>4, <2>5, <3>1, <3>2 DEF InBudget, Tasks
  <2>7. ASSUME NEW d \in Closers \ {c}, task'[d].step # "idle"
        PROVE  InBudget(task[d], PoolOf(d))'
    <3>1. ~task[d].again /\ task[d].step \notin Recentering
      BY <2>1, <2>2, OneRecenters
    <3> QED
      BY <2>1, <3>1 DEF InBudget, Recentering
  <2> QED
    BY <2>3, <2>6, <2>7 DEF Within
<1>7. CASE \E q \in Positions, o \in Outcomes : Redeploy(c, q, o)
  <2> PICK q \in Positions, o \in Outcomes : Redeploy(c, q, o)
    BY <1>7
  <2>1. /\ \A d \in Closers \ {c} : task'[d] = task[d]
        /\ task'[c].step \in {"register", "fallback"}
        /\ task[c].step = "redeploy"
    BY <1>0 DEF Redeploy, Tasks
  <2>2. PoolOf(c) \in Pools /\ task[c].again
    BY <1>0, <2>1, TaskTypes DEF Steady, Recentering
  <2>3. /\ recent' = [recent EXCEPT ![PoolOf(c)] = @ + 1]
        /\ UNCHANGED <<recenters, poolPnl>>
    BY DEF Redeploy
  <2>4. \A pool \in Pools : recent'[pool] <= recenters'[pool]
    BY <2>1, <2>2, <2>3 DEF Within, InBudget, TypeOK
  <2>5. InBudget(task[c], PoolOf(c))'
    BY <2>1 DEF InBudget
  <2>7. ASSUME NEW d \in Closers \ {c}, task'[d].step # "idle"
        PROVE  InBudget(task[d], PoolOf(d))'
    <3>1. ~task[d].again /\ task[d].step \notin Recentering
      BY <2>1, <2>2, OneRecenters
    <3> QED
      BY <2>1, <3>1 DEF InBudget, Recentering
  <2> QED
    BY <2>4, <2>5, <2>7 DEF Within
<1>8. CASE \E q \in Positions, o \in Outcomes : Reseed(c, q, o)
  BY <1>0, <1>8, WithinKept DEF Reseed, Tasks
<1>9. CASE Register(c) \/ Fallback(c)
  BY <1>0, <1>9, WithinKept DEF Register, Fallback, Tasks
<1> QED
  BY <1>1, <1>2, <1>3, <1>4, <1>5, <1>6, <1>7, <1>8, <1>9 DEF Book

LEMMA WithinNext ==
  ASSUME IBudget, [Next]_vars
  PROVE  Within'
<1> USE DEF redis, past, IBudget
<1>0. task \in [Closers -> Tasks] /\ \A d \in Closers : task[d] \in Tasks
  BY DEF TypeOK
<1>1. CASE vars' = vars
  BY <1>1, WithinKept DEF vars
<1>2. ASSUME NEW c \in Closers, Killed(c)
      PROVE  Within'
  BY <1>0, <1>2, WithinKept DEF Killed, Done, Idle
<1>3. ASSUME NEW c \in Closers, NEW p \in Positions, NEW close \in Closes,
             CloseLands(c, p, close.kind, close.result)
      PROVE  Within'
  BY <1>0, <1>3, WithinKept DEF CloseLands, Tasks
<1>4. CASE World
  <2>1. CASE UNCHANGED <<recent, recenters, poolPnl, task>>
    BY <2>1, WithinKept
  <2>2. CASE \E pool \in Pools : LapsePool(pool)
    <3> PICK pool \in Pools : LapsePool(pool)
      BY <2>2
    <3>1. task' = task /\ \A other \in Pools \ {pool} :
            /\ recent'[other] = recent[other] /\ recenters'[other] = recenters[other]
            /\ poolPnl'[other] = poolPnl[other]
      BY DEF LapsePool, TypeOK
    <3>2. recent'[pool] <= recenters'[pool]
      BY DEF LapsePool, Within, TypeOK
    <3>3. ASSUME NEW c \in Closers, task[c].step # "idle"
          PROVE  PoolOf(c) \in Pools \ {pool}
      <4>1. PoolOf(c) \in Pools /\ task[c].pos # None
        BY <3>3, TaskTypes, BookingAssumption
      <4> QED
        BY <4>1 DEF LapsePool, Busy, BusyWith, TokenOf
    <3>4. ASSUME NEW c \in Closers, task'[c].step # "idle"
          PROVE  InBudget(task[c], PoolOf(c))'
      <4>1. PoolOf(c) \in Pools \ {pool} /\ PoolOf(c)' = PoolOf(c)
        BY <3>1, <3>3, <3>4 DEF PoolOf
      <4> QED
        BY <3>1, <3>4, <4>1 DEF Within, InBudget
    <3> QED
      BY <3>1, <3>2, <3>4 DEF Within
  <2> QED
    BY <1>4, <2>1, <2>2 DEF World, CloseUnseen, Adopt, Drop, Deploy, Lapse
<1> QED
  BY <1>1, <1>2, <1>3, <1>4, WithinBook DEF Next

LEMMA BudgetInvariant == Spec => []IBudget
<1>1. Init => AllSteady /\ Within
  BY DEF Init, AllSteady, Steady, Within, Idle, Recentering
<1>2. IBudget /\ [Next]_vars => IBudget'
  BY NextTypes, SteadyNext, WithinNext DEF IBudget
<1> QED
  BY <1>1, <1>2, InitTypes, PTL DEF Spec, IBudget

\* While its count lives, a pool is deployed again no more often than the cap of the mode,
\* and in turnover mode never with more lost than the breaker's floor and one close more,
\* though the count is read long before it is written and re-centers fail or die
\* (monitor 1556-1593, 1728-1740).
THEOREM BudgetHolds == Spec => RecenterBudget
<1> DEFINE Kept(c) == Redeploys(c) =>
       /\ recent'[PoolOf(c)] <= CountCap[task[c].mode]
       /\ task[c].mode = "turnover" => poolPnl[PoolOf(c)] >= -CbLoss
<1>1. ASSUME IBudget, [Next]_vars, NEW c \in Closers, Redeploys(c)
      PROVE  Kept(c)
  <2>1. /\ task[c].step = "redeploy" /\ InBudget(task[c], PoolOf(c))
        /\ PoolOf(c) \in Pools /\ task[c].mode \in Modes
    BY <1>1, TaskTypes DEF Redeploys, At, IBudget, Within
  <2>2. recent'[PoolOf(c)] <= recent[PoolOf(c)] + 1
    <3>1. CASE recent' = recent
      BY <2>1, <3>1, <1>1 DEF IBudget, TypeOK
    <3>2. CASE \E d \in Closers, q \in Positions, o \in Outcomes : Redeploy(d, q, o)
      BY <2>1, <3>2, <1>1 DEF Redeploy, IBudget, TypeOK
    <3>3. CASE \E pool \in Pools : LapsePool(pool)
      BY <2>1, <3>3, <1>1 DEF LapsePool, IBudget, TypeOK
    <3>4. ASSUME NEW d \in Closers, Book(d)
          PROVE  recent' = recent \/ \E q \in Positions, o \in Outcomes : Redeploy(d, q, o)
      BY <3>4
      DEF Book, Forget, ReadTotal, WriteTotal, Budget, Streak, Look, Cool, Extend, After, Tally,
          TallyPnl, Register, Fallback, Reseed, past
    <3>5. ASSUME World
          PROVE  recent' = recent \/ \E pool \in Pools : LapsePool(pool)
      BY <3>5 DEF World, CloseUnseen, Adopt, Drop, Deploy, Lapse, past
    <3> QED
      BY <1>1, <3>1, <3>2, <3>3, <3>4, <3>5 DEF Next, Killed, CloseLands, vars, past
  <2>3. /\ recent \in [Pools -> Nat] /\ recenters \in [Pools -> Nat]
        /\ recent'[PoolOf(c)] \in Nat /\ CountCap[task[c].mode] \in Nat
    BY <1>1, <2>1, NextTypes, BookingAssumption DEF IBudget, TypeOK
  <2> QED
    BY <2>1, <2>2, <2>3 DEF InBudget
<1>2. IBudget /\ [Next]_vars => [\A c \in Closers : Kept(c)]_vars
  BY <1>1
<1> QED
  BY <1>2, BudgetInvariant, PTL DEF Spec, RecenterBudget

--------------------------------------------------------------------------------
(* The cooldown. *)

\* Once a closer has cooled its token down, the token stays cooled down until it is done.
Cooled(c) ==
  LET step == task[c].step
      is   == cool[TokenOf(c)]
  IN  /\ c \in Agents /\ step \in {"read", "write", "streak", "look", "after"} => is # 0
      /\ step \in {"extend", "reseed"} => is # 0
      /\ c \in Monitors /\ step = "after" => is # 0 \/ task[c].again \/ Tripped(c)
      /\ step = "budget" => c \in Monitors

AllCooled == \A c \in Closers : task[c].step # "idle" => Cooled(c)

ICooled == TypeOK /\ AllSteady /\ AllCooled

\* A closer stays where it is and loses nothing, or it is cooled down, or it need not be yet.
Keeps(c) ==
  /\ task'[c].pos = task[c].pos /\ task'[c].mode = task[c].mode /\ task'[c].kind = task[c].kind
  /\ task'[c].step = task[c].step /\ task'[c].again = task[c].again
  /\ cool[TokenOf(c)] # 0 => cool'[TokenOf(c)] # 0
  /\ Tripped(c) => poolPnl'[PoolOf(c)] = poolPnl[PoolOf(c)]
Chills(c) ==
  task'[c].pos = task[c].pos /\ cool'[TokenOf(c)] # 0 /\ task'[c].step # "budget"
Early(c) ==
  \/ task'[c].step \notin {"read", "write", "budget", "streak", "look", "extend", "after", "reseed"}
  \/ c \in Monitors /\ task'[c].step \notin {"extend", "after", "reseed"}

LEMMA CooledKept ==
  ASSUME AllCooled,
         \A c \in Closers : task'[c].step # "idle" => Keeps(c) \/ Chills(c) \/ Early(c)
  PROVE  AllCooled'
<1> SUFFICES ASSUME NEW c \in Closers, task'[c].step # "idle"
             PROVE  Cooled(c)'
  BY DEF AllCooled
<1>0. c \in Monitors => c \notin Agents
  BY BookingAssumption DEF Monitors
<1>1. CASE Keeps(c)
  BY <1>1 DEF Keeps, AllCooled, Cooled, Tripped, TokenOf, PoolOf
<1>2. CASE Chills(c)
  BY <1>2 DEF Chills, Cooled, TokenOf, PoolOf
<1>3. CASE Early(c)
  BY <1>0, <1>3 DEF Early, Cooled
<1> QED
  BY <1>1, <1>2, <1>3

\* Beside one closer's step the others keep theirs, for it cools at most.
LEMMA CooledStep ==
  ASSUME TypeOK, AllCooled, NEW c \in Closers,
         \A d \in Closers \ {c} : task'[d] = task[d],
         \A t \in Tokens : cool'[t] = cool[t] \/ cool'[t] # 0,
         poolPnl' = poolPnl,
         task'[c].step # "idle" => Keeps(c) \/ Chills(c) \/ Early(c)
  PROVE  AllCooled'
<1>1. ASSUME NEW d \in Closers \ {c}, task'[d].step # "idle"
      PROVE  Keeps(d)
  BY <1>1, TaskTypes DEF Keeps
<1> QED
  BY <1>1, CooledKept

LEMMA CooledBook ==
  ASSUME ICooled, NEW c \in Closers, Book(c)
  PROVE  AllCooled'
<1> USE DEF At, redis, past, ICooled
<1>0. /\ task \in [Closers -> Tasks] /\ task[c] \in Tasks
      /\ Sound(c, task[c]) /\ Steady(c, task[c])
      /\ c \in Agents \/ c \in Monitors
      /\ task[c].step # "idle" => Cooled(c) /\ TokenOf(c) \in Tokens
  BY TaskTypes DEF TypeOK, AllSteady, AllCooled, Closers, Monitors
<1>1. CASE Forget(c)
  BY <1>0, <1>1, CooledStep DEF Forget, Goto, Early
<1>2. CASE ReadTotal(c)
  BY <1>0, <1>2, CooledStep DEF ReadTotal, Early, Chills, Cooled, Tasks
<1>3. CASE WriteTotal(c)
  <2>1. task'[c].step = "budget" => c \in Monitors
    BY <1>0, <1>3 DEF WriteTotal, Goto
  <2> QED
    BY <1>0, <1>3, <2>1, CooledStep DEF WriteTotal, Goto, Early, Chills, Cooled, Tasks
<1>4. CASE \E above \in BOOLEAN : Budget(c, above)
  <2> PICK above \in BOOLEAN : Budget(c, above)
    BY <1>4
  <2>1. PICK re \in BOOLEAN :
          task' = [task EXCEPT ![c].again = re,
                               ![c].step = IF re \/ Tripped(c) THEN "after" ELSE "streak"]
    BY BudgetStep
  <2>2. /\ \A d \in Closers \ {c} : task'[d] = task[d]
        /\ task'[c].pos = task[c].pos /\ task'[c].mode = task[c].mode
        /\ task'[c].kind = task[c].kind /\ task'[c].again = re
        /\ task'[c].step = IF re \/ Tripped(c) THEN "after" ELSE "streak"
    BY <1>0, <2>1 DEF Tasks
  <2>3. UNCHANGED <<cool, poolPnl>> /\ c \in Monitors
    BY <1>0 DEF Budget, Cooled
  <2>4. CASE ~re /\ ~Tripped(c)
    BY <2>2, <2>3, <2>4, CooledStep DEF Early
  <2>5. CASE re \/ Tripped(c)
    <3>1. Cooled(c)'
      BY <2>2, <2>3, <2>5, BookingAssumption DEF Cooled, Tripped, PoolOf, Monitors
    <3>2. ASSUME NEW d \in Closers \ {c}, task'[d].step # "idle"
          PROVE  Cooled(d)'
      BY <2>2, <2>3, <3>2 DEF AllCooled, Cooled, Tripped, TokenOf, PoolOf
    <3> QED
      BY <3>1, <3>2 DEF AllCooled
  <2> QED
    BY <2>4, <2>5
<1>5. CASE Streak(c)
  BY <1>0, <1>5, CooledStep DEF Streak, Goto, Early, Chills, Cooled, Tasks
<1>6. CASE Look(c)
  BY <1>0, <1>6, CooledStep DEF Look, Early, Chills, Cooled, Tasks
<1>7. CASE Cool(c)
  <2>1. \A t \in Tokens : cool'[t] = cool[t] \/ cool'[t] # 0
    BY <1>0, <1>7, CoolTypes DEF Cool, TypeOK
  <2>2. cool'[TokenOf(c)] # 0
    BY <1>0, <1>7, CoolTypes DEF Cool, TypeOK
  <2> QED
    BY <1>0, <1>7, <2>1, <2>2, CooledStep DEF Cool, Goto, Chills, Tasks
<1>8. CASE Extend(c)
  <2>1. \A t \in Tokens : cool[t] # 0 => cool'[t] # 0
    BY <1>0, <1>8 DEF Extend, TypeOK, Lasts, Escalated
  <2>2. \A t \in Tokens : cool'[t] = cool[t] \/ cool'[t] # 0
    BY <1>0, <1>8, <2>1 DEF Extend, TypeOK, Lasts
  <2>3. cool'[TokenOf(c)] # 0
    BY <1>0, <1>8, <2>1 DEF Extend, Cooled
  <2> QED
    BY <1>0, <1>8, <2>2, <2>3, CooledStep DEF Extend, Goto, Chills, Tasks
<1>9. CASE After(c)
  <2>1. \/ Done(c) \/ Goto(c, "tally")
        \/ Goto(c, "reseed") /\ c \in Monitors /\ task[c].mode = "reseed" /\ ~task[c].again
    BY <1>9 DEF After
  <2>2. CASE Goto(c, "reseed") /\ c \in Monitors /\ task[c].mode = "reseed" /\ ~task[c].again
    <3>1. cool[TokenOf(c)] # 0
      BY <1>0, <1>9, <2>2 DEF After, Cooled, Tripped
    <3> QED
      BY <1>0, <1>9, <2>2, <3>1, CooledStep DEF After, Goto, Chills, Tasks
  <2>3. CASE Done(c) \/ Goto(c, "tally")
    <3>1. /\ \A d \in Closers \ {c} : task'[d] = task[d]
          /\ task'[c].step \in {"idle", "tally"}
      BY <1>0, <2>3 DEF Done, Idle, Goto, Tasks
    <3>2. UNCHANGED <<cool, poolPnl>>
      BY <1>9 DEF After
    <3> QED
      BY <3>1, <3>2, CooledStep DEF Early
  <2> QED
    BY <2>1, <2>2, <2>3
<1>10. CASE Tally(c)
  BY <1>0, <1>10, CooledStep DEF Tally, Goto, Early
<1>11. CASE TallyPnl(c)
  <2>1. task[c].again /\ c = Loop
    BY <1>0, <1>11 DEF TallyPnl, Steady, Sound, Recentering
  <2>2. ASSUME NEW d \in Closers \ {c}, task'[d].step # "idle"
        PROVE  Keeps(d)
    <3>1. task'[d] = task[d] /\ cool' = cool
      BY <1>0, <1>11 DEF TallyPnl, Goto
    <3>2. ~Tripped(d)
      BY <2>1 DEF Tripped, TypeOK, Sound
    <3> QED
      BY <3>1, <3>2 DEF Keeps
  <2>3. Early(c)
    BY <1>0, <1>11 DEF TallyPnl, Goto, Early
  <2> QED
    BY <2>2, <2>3, CooledKept
<1>12. CASE \E q \in Positions, o \in Outcomes : Redeploy(c, q, o) \/ Reseed(c, q, o)
  <2>1. /\ \A d \in Closers \ {c} : task'[d] = task[d]
        /\ task'[c].step \in {"idle", "register", "fallback"}
    BY <1>0, <1>12 DEF Redeploy, Reseed, Goto, Done, Idle, Tasks
  <2>2. UNCHANGED <<cool, poolPnl>>
    BY <1>12 DEF Redeploy, Reseed
  <2> QED
    BY <2>1, <2>2, CooledStep DEF Early
<1>13. CASE Register(c)
  BY <1>0, <1>13, CooledStep DEF Register, Done, Idle
<1>14. CASE Fallback(c)
  <2>1. \A t \in Tokens : cool'[t] = cool[t] \/ cool'[t] # 0
    BY <1>0, <1>14 DEF Fallback, TypeOK
  <2> QED
    BY <1>0, <1>14, <2>1, CooledStep DEF Fallback, Done, Idle
<1> QED
  BY <1>1, <1>2, <1>3, <1>4, <1>5, <1>6, <1>7, <1>8, <1>9, <1>10, <1>11, <1>12, <1>13, <1>14
     DEF Book

LEMMA CooledNext ==
  ASSUME ICooled, [Next]_vars
  PROVE  AllCooled'
<1> USE DEF redis, past, ICooled
<1>0. task \in [Closers -> Tasks] /\ \A d \in Closers : task[d] \in Tasks
  BY DEF TypeOK
<1>1. CASE vars' = vars
  BY <1>1 DEF vars, AllCooled, Cooled, Tripped, TokenOf, PoolOf
<1>2. ASSUME NEW c \in Closers, Killed(c)
      PROVE  AllCooled'
  BY <1>0, <1>2, CooledStep DEF Killed, Done, Idle
<1>3. ASSUME NEW c \in Closers, NEW p \in Positions, NEW close \in Closes,
             CloseLands(c, p, close.kind, close.result)
      PROVE  AllCooled'
  <2>1. Early(c)
    BY <1>0, <1>3 DEF CloseLands, Early
  <2>2. ASSUME NEW d \in Closers \ {c}
        PROVE  Keeps(d)
    BY <1>0, <1>3 DEF CloseLands, Keeps, Tasks
  <2> QED
    BY <2>1, <2>2, CooledKept
<1>4. CASE World
  <2>1. CASE UNCHANGED <<cool, poolPnl, task>>
    BY <2>1, CooledKept DEF Keeps
  <2>2. ASSUME NEW t \in Tokens, Lapse(t), NEW c \in Closers, task'[c].step # "idle"
        PROVE  Keeps(c)
    <3>1. task' = task /\ poolPnl' = poolPnl
      BY <2>2 DEF Lapse
    <3>2. task[c].pos # None /\ TokenOf(c) \in Tokens
      BY <2>2, <3>1, TaskTypes, BookingAssumption
    <3>3. TokenOf(c) # t
      BY <2>2, <3>2 DEF Lapse, Busy, BusyWith
    <3>4. cool'[TokenOf(c)] = cool[TokenOf(c)]
      BY <2>2, <3>2, <3>3 DEF Lapse, TypeOK
    <3> QED
      BY <3>1, <3>4 DEF Keeps
  <2>3. ASSUME NEW pool \in Pools, LapsePool(pool), NEW c \in Closers, task'[c].step # "idle"
        PROVE  Keeps(c)
    <3>1. task' = task /\ cool' = cool
      BY <2>3 DEF LapsePool
    <3>2. task[c].pos # None /\ PoolOf(c) \in Pools
      BY <2>3, <3>1, TaskTypes, BookingAssumption
    <3>3. PoolOf(c) # pool
      BY <2>3, <3>2 DEF LapsePool, Busy, BusyWith, TokenOf
    <3>4. poolPnl'[PoolOf(c)] = poolPnl[PoolOf(c)]
      BY <2>3, <3>2, <3>3 DEF LapsePool, TypeOK
    <3> QED
      BY <3>1, <3>4 DEF Keeps
  <2> QED
    BY <1>4, <2>1, <2>2, <2>3, CooledKept DEF World, CloseUnseen, Adopt, Drop, Deploy
<1> QED
  BY <1>1, <1>2, <1>3, <1>4, CooledBook DEF Next

LEMMA CooledInvariant == Spec => []ICooled
<1>1. Init => AllSteady /\ AllCooled
  BY DEF Init, AllSteady, Steady, AllCooled, Idle, Recentering
<1>2. ICooled /\ [Next]_vars => ICooled'
  BY NextTypes, SteadyNext, CooledNext DEF ICooled
<1> QED
  BY <1>1, <1>2, InitTypes, PTL DEF Spec, ICooled

\* The steps that end a booking.
LEMMA LastStep ==
  ASSUME ICooled, [Next]_vars, NEW c \in Closers, Finishes(c)
  PROVE  \/ After(c) /\ ~task[c].again
         \/ \E q \in Positions, o \in Outcomes : Reseed(c, q, o)
         \/ Register(c) \/ Fallback(c)
<1> USE DEF At, redis, past
<1>0. /\ task \in [Closers -> Tasks] /\ \A d \in Closers : task[d] \in Tasks
      /\ Sound(c, task[c]) /\ Steady(c, task[c]) /\ Cooled(c)
      /\ task[c].step # "idle" /\ task'[c].step = "idle" /\ bounds' = bounds
      /\ TokenOf(c) \in Tokens
  BY TaskTypes DEF ICooled, TypeOK, AllSteady, AllCooled, Finishes
<1>1. ASSUME NEW d \in Closers, Book(d)
      PROVE  d = c
  BY <1>0, <1>1
     DEF Book, Forget, ReadTotal, WriteTotal, Budget, Streak, Look, Cool, Extend, After, Tally,
         TallyPnl, Redeploy, Reseed, Register, Fallback, Goto, Done
<1>2. Book(c)
  <2>1. ASSUME NEW d \in Closers
        PROVE  ~Killed(d)
    BY <1>0 DEF Killed, ICooled, TypeOK
  <2>2. ASSUME NEW d \in Closers, NEW p \in Positions, NEW close \in Closes
        PROVE  ~CloseLands(d, p, close.kind, close.result)
    BY <1>0 DEF CloseLands, ICooled, TypeOK
  <2>3. ~World /\ vars' # vars
    BY <1>0 DEF World, CloseUnseen, Adopt, Drop, Deploy, Lapse, LapsePool, vars
  <2> QED
    BY <1>1, <2>1, <2>2, <2>3 DEF Next
<1> QED
  <2>1. ASSUME NEW above \in BOOLEAN
        PROVE  ~Budget(c, above)
    <3> SUFFICES ASSUME Budget(c, above) PROVE FALSE
      OBVIOUS
    <3>1. PICK re \in BOOLEAN :
            task' = [task EXCEPT ![c].again = re,
                                 ![c].step = IF re \/ Tripped(c) THEN "after" ELSE "streak"]
      BY BudgetStep DEF ICooled
    <3> QED
      BY <1>0, <3>1 DEF Tasks
  <2>2. ~Forget(c) /\ ~ReadTotal(c) /\ ~WriteTotal(c) /\ ~Streak(c) /\ ~Look(c)
    BY <1>0 DEF Forget, ReadTotal, WriteTotal, Streak, Look, Goto, Tasks
  <2>3. ~Cool(c) /\ ~Extend(c) /\ ~Tally(c) /\ ~TallyPnl(c) /\ ~(After(c) /\ task[c].again)
    BY <1>0 DEF Cool, Extend, Tally, TallyPnl, After, Goto, Tasks
  <2>4. ASSUME NEW q \in Positions, NEW o \in Outcomes
        PROVE  ~Redeploy(c, q, o)
    BY <1>0 DEF Redeploy, Goto, Tasks
  <2> QED
    BY <1>2, <2>1, <2>2, <2>3, <2>4 DEF Book

\* However a booking ends - a re-center that fails or lands unseen, a re-seed without
\* tokens, an override without a live PnL - the token cannot be entered again at once; the
\* exception is the breaker that had tripped before the re-center was refused
\* (monitor 1595-1629, 1768-1770, 774).
THEOREM GateHolds == Spec => ExitIsGated
<1> DEFINE Kept(c) == Finishes(c) => Gated(c) \/ (Tripped(c) /\ ~task[c].again)
<1>1. ASSUME ICooled, [Next]_vars, NEW c \in Closers, Finishes(c)
      PROVE  Gated(c) \/ (Tripped(c) /\ ~task[c].again)
  <2> USE DEF At, redis, past
  <2>0. /\ task \in [Closers -> Tasks] /\ \A d \in Closers : task[d] \in Tasks
        /\ Sound(c, task[c]) /\ Steady(c, task[c]) /\ Cooled(c)
        /\ task[c].step # "idle" /\ task'[c].step = "idle" /\ bounds' = bounds
        /\ TokenOf(c) \in Tokens
    BY <1>1, TaskTypes DEF ICooled, TypeOK, AllSteady, AllCooled, Finishes
  <2>3. \/ After(c) /\ ~task[c].again
        \/ \E q \in Positions, o \in Outcomes : Reseed(c, q, o)
        \/ Register(c) \/ Fallback(c)
    BY <1>1, LastStep
  <2>4. CASE After(c) /\ ~task[c].again
    <3>1. c \in Agents \/ c \in Monitors
      BY DEF Closers, Monitors
    <3> QED
      BY <2>0, <2>4, <3>1 DEF After, Cooled, Gated
  <2>5. CASE \E q \in Positions, o \in Outcomes : Reseed(c, q, o)
    BY <2>0, <2>5 DEF Reseed, Cooled, Gated, Steady, Recentering
  <2>6. CASE Register(c)
    <3>1. task[c].pos \in Positions /\ task[c].mode # None
      BY <1>1, <2>0, TaskTypes DEF ICooled, Sound
    <3> QED
      BY <1>1, <2>6, <3>1 DEF Register, Gated, ICooled, TypeOK
  <2>7. CASE Fallback(c)
    BY <1>1, <2>0, <2>7 DEF Fallback, Gated, ICooled, TypeOK
  <2> QED
    BY <2>3, <2>4, <2>5, <2>6, <2>7
<1>2. ICooled /\ [Next]_vars => [\A c \in Closers : Kept(c)]_vars
  BY <1>1
<1> QED
  BY <1>2, CooledInvariant, PTL DEF Spec, ExitIsGated

--------------------------------------------------------------------------------
(* The repeated loss. *)

\* Closers of the same token know of each other, and a repeated loss is cooled down for a day
\* unless the token is shared.
Alone ==
  \A c, d \in Closers :
    c # d /\ task[c].step # "idle" /\ task[d].step # "idle" /\ TokenOf(c) = TokenOf(d)
      => task[c].met /\ task[d].met

Out(c) ==
  ~task[c].met /\ task[c].losses >= 2 /\ task[c].step \in {"after", "reseed", "register"}
    => cool[TokenOf(c)] >= 1440

AllOut == \A c \in Closers : task[c].step # "idle" => Out(c)

IOut == ICooled /\ Alone /\ AllOut

\* A closer of a token nobody else is at.
LEMMA Others ==
  ASSUME IOut, NEW c \in Closers, NEW d \in Closers \ {c},
         task[c].step # "idle", task[d].step # "idle", ~task[d].met
  PROVE  TokenOf(d) # TokenOf(c)
  BY DEF IOut, Alone

\* One closer's step in its own program; it may change the cooldown of its token.
LEMMA OutStep ==
  ASSUME IOut, NEW c \in Closers, task[c].step # "idle",
         \A d \in Closers \ {c} : task'[d] = task[d],
         \A t \in Tokens \ {TokenOf(c)} : cool'[t] = cool[t],
         task'[c].step # "idle" =>
           /\ task'[c].met = task[c].met
           /\ TokenOf(c)' = TokenOf(c)
           /\ Out(c)'
  PROVE  Alone' /\ AllOut'
<1>1. \A d \in Closers \ {c} : TokenOf(d)' = TokenOf(d)
  BY DEF TokenOf, PoolOf
<1>2. Alone'
  BY <1>1 DEF IOut, Alone
<1>3. ASSUME NEW d \in Closers \ {c}, task'[d].step # "idle"
      PROVE  Out(d)'
  <2>1. task[d].step # "idle" /\ TokenOf(d) \in Tokens
    BY <1>3, TaskTypes DEF IOut, ICooled
  <2>2. ~task[d].met => cool'[TokenOf(d)] = cool[TokenOf(d)]
    BY <2>1, Others
  <2> QED
    BY <1>1, <2>1, <2>2 DEF IOut, AllOut, Out
<1> QED
  BY <1>2, <1>3 DEF AllOut

LEMMA OutBook ==
  ASSUME IOut, NEW c \in Closers, Book(c)
  PROVE  Alone' /\ AllOut'
<1> USE DEF At, redis, past
<1>0. /\ task \in [Closers -> Tasks] /\ task[c] \in Tasks /\ task[c].step # "idle"
      /\ Sound(c, task[c]) /\ Steady(c, task[c]) /\ Cooled(c) /\ Out(c)
      /\ TokenOf(c) \in Tokens
  <2>1. task[c].step # "idle"
    BY DEF Book, Forget, ReadTotal, WriteTotal, Budget, Streak, Look, Cool, Extend, After, Tally,
           TallyPnl, Redeploy, Reseed, Register, Fallback
  <2> QED
    BY <2>1, TaskTypes DEF IOut, ICooled, TypeOK, AllSteady, AllCooled, AllOut
<1>1. CASE Forget(c) \/ ReadTotal(c) \/ WriteTotal(c) \/ Streak(c) \/ Look(c) \/ Tally(c) \/ TallyPnl(c)
  <2>1. /\ \A d \in Closers \ {c} : task'[d] = task[d]
        /\ task'[c].pos = task[c].pos /\ task'[c].met = task[c].met
        /\ task'[c].step \notin {"after", "reseed", "register"}
    BY <1>0, <1>1 DEF Forget, ReadTotal, WriteTotal, Streak, Look, Tally, TallyPnl, Goto, Tasks
  <2>2. cool' = cool
    BY <1>1 DEF Forget, ReadTotal, WriteTotal, Streak, Look, Tally, TallyPnl
  <2>3. TokenOf(c)' = TokenOf(c) /\ Out(c)'
    BY <2>1 DEF TokenOf, PoolOf, Out
  <2> QED
    BY <1>0, <2>1, <2>2, <2>3, OutStep
<1>2. CASE \E above \in BOOLEAN : Budget(c, above)
  <2> PICK above \in BOOLEAN : Budget(c, above)
    BY <1>2
  <2>1. PICK re \in BOOLEAN :
          task' = [task EXCEPT ![c].again = re,
                               ![c].step = IF re \/ Tripped(c) THEN "after" ELSE "streak"]
    BY BudgetStep DEF IOut, ICooled
  <2>2. /\ \A d \in Closers \ {c} : task'[d] = task[d]
        /\ task'[c].pos = task[c].pos /\ task'[c].met = task[c].met
        /\ task'[c].losses = task[c].losses
    BY <1>0, <2>1 DEF Tasks
  <2>3. cool' = cool /\ task[c].losses = 0
    BY <1>0 DEF Budget, Steady
  <2>4. TokenOf(c)' = TokenOf(c) /\ Out(c)'
    BY <2>2, <2>3 DEF TokenOf, PoolOf, Out
  <2> QED
    BY <1>0, <2>2, <2>3, <2>4, OutStep
<1>3. CASE Cool(c)
  <2>1. /\ \A d \in Closers \ {c} : task'[d] = task[d]
        /\ task'[c].pos = task[c].pos /\ task'[c].met = task[c].met
        /\ task'[c].losses = task[c].losses
    BY <1>0, <1>3 DEF Cool, Goto, Tasks
  <2>2. \A t \in Tokens \ {TokenOf(c)} : cool'[t] = cool[t]
    BY <1>0, <1>3 DEF Cool, IOut, ICooled, TypeOK
  <2>3. task[c].losses >= 2 => cool'[TokenOf(c)] >= 1440
    BY <1>0, <1>3 DEF Cool, IOut, ICooled, TypeOK, Steady, MonitorCools, Repeats, Escalated
  <2>4. TokenOf(c)' = TokenOf(c) /\ Out(c)'
    BY <2>1, <2>3 DEF TokenOf, PoolOf, Out
  <2> QED
    BY <1>0, <2>1, <2>2, <2>4, OutStep
<1>4. CASE Extend(c)
  <2>1. /\ \A d \in Closers \ {c} : task'[d] = task[d]
        /\ task'[c].pos = task[c].pos /\ task'[c].met = task[c].met
        /\ task'[c].losses = task[c].losses
    BY <1>0, <1>4 DEF Extend, Goto, Tasks
  <2>2. \A t \in Tokens \ {TokenOf(c)} : cool'[t] = cool[t]
    BY <1>0, <1>4 DEF Extend, IOut, ICooled, TypeOK
  <2>3. task[c].losses >= 2 => cool'[TokenOf(c)] >= 1440
    <3>1. SUFFICES ASSUME Repeats(task[c].losses)
                   PROVE  cool'[TokenOf(c)] >= 1440
      BY DEF Repeats
    <3>2. cool' = [cool EXCEPT ![TokenOf(c)] = Lasts(Escalated(task[c].losses), @)]
      BY <1>4, <3>1, BookingAssumption DEF Extend, Escalated
    <3>3. cool[TokenOf(c)] # 0
      BY <1>0, <1>4 DEF Extend, Cooled
    <3> QED
      BY <1>0, <3>2, <3>3 DEF IOut, ICooled, TypeOK, Lasts, Escalated
  <2>4. TokenOf(c)' = TokenOf(c) /\ Out(c)'
    BY <2>1, <2>3 DEF TokenOf, PoolOf, Out
  <2> QED
    BY <1>0, <2>1, <2>2, <2>4, OutStep
<1>5. CASE After(c)
  <2>1. /\ \A d \in Closers \ {c} : task'[d] = task[d]
        /\ task'[c].step # "idle" => /\ task'[c].pos = task[c].pos /\ task'[c].met = task[c].met
                                    /\ task'[c].losses = task[c].losses
    BY <1>0, <1>5 DEF After, Goto, Done, Idle, Tasks
  <2>2. cool' = cool /\ task[c].step = "after"
    BY <1>5 DEF After
  <2>3. task'[c].step # "idle" => TokenOf(c)' = TokenOf(c) /\ Out(c)'
    BY <1>0, <2>1, <2>2 DEF TokenOf, PoolOf, Out
  <2> QED
    BY <1>0, <2>1, <2>2, <2>3, OutStep
<1>6. CASE \E q \in Positions, o \in Outcomes : Redeploy(c, q, o) \/ Reseed(c, q, o)
  <2> PICK q \in Positions, o \in Outcomes : Redeploy(c, q, o) \/ Reseed(c, q, o)
    BY <1>6
  <2>1. /\ \A d \in Closers \ {c} : task'[d] = task[d]
        /\ task'[c].step # "idle" =>
             /\ task'[c].pos = task[c].pos \/ Pool[task'[c].pos] = PoolOf(c)
             /\ task'[c].met = task[c].met /\ task'[c].losses = task[c].losses
    BY <1>0 DEF Redeploy, Reseed, Goto, Done, Idle, Tasks
  <2>2. cool' = cool /\ task[c].step \in {"redeploy", "reseed"}
    BY DEF Redeploy, Reseed
  <2>3. task[c].step = "redeploy" => task[c].losses = 0
    BY <1>0 DEF Steady, Recentering
  <2>4. task'[c].step # "idle" => TokenOf(c)' = TokenOf(c)
    BY <2>1 DEF TokenOf, PoolOf
  <2>5. task'[c].step # "idle" => Out(c)'
    BY <1>0, <2>1, <2>2, <2>3, <2>4 DEF Out
  <2> QED
    BY <1>0, <2>1, <2>2, <2>4, <2>5, OutStep
<1>7. CASE Register(c) \/ Fallback(c)
  <2>1. /\ \A d \in Closers \ {c} : task'[d] = task[d]
        /\ task'[c].step = "idle"
    BY <1>0, <1>7 DEF Register, Fallback, Done, Idle
  <2>2. \A t \in Tokens \ {TokenOf(c)} : cool'[t] = cool[t]
    BY <1>0, <1>7 DEF Register, Fallback, IOut, ICooled, TypeOK
  <2> QED
    BY <1>0, <2>1, <2>2, OutStep
<1> QED
  BY <1>1, <1>2, <1>3, <1>4, <1>5, <1>6, <1>7 DEF Book

LEMMA OutNext ==
  ASSUME IOut, [Next]_vars
  PROVE  Alone' /\ AllOut'
<1> USE DEF redis, past
<1>0. task \in [Closers -> Tasks] /\ \A d \in Closers : task[d] \in Tasks
  BY DEF IOut, ICooled, TypeOK
<1>1. CASE UNCHANGED <<cool, task>>
  BY <1>1 DEF IOut, Alone, AllOut, Out, TokenOf, PoolOf
<1>2. ASSUME NEW c \in Closers, Killed(c)
      PROVE  Alone' /\ AllOut'
  <2>1. /\ \A d \in Closers \ {c} : task'[d] = task[d]
        /\ task'[c].step = "idle" /\ task[c].step # "idle" /\ cool' = cool
    BY <1>0, <1>2 DEF Killed, Done, Idle, At
  <2> QED
    BY <2>1, OutStep
<1>3. ASSUME NEW c \in Closers, NEW p \in Positions, NEW close \in Closes,
             CloseLands(c, p, close.kind, close.result)
      PROVE  Alone' /\ AllOut'
  <2> DEFINE t == Token[Pool[p]]
  <2>1. /\ task'[c].step = "forget" /\ task'[c].pos = p /\ task'[c].met = Busy(t)
        /\ cool' = cool
    BY <1>0, <1>3 DEF CloseLands
  <2>2. ASSUME NEW d \in Closers \ {c}
        PROVE  /\ task'[d].pos = task[d].pos /\ task'[d].step = task[d].step
               /\ task'[d].losses = task[d].losses
               /\ task[d].met \/ BusyWith(d, t) => task'[d].met
    BY <1>0, <1>3 DEF CloseLands, Tasks
  <2>3. \A d \in Closers \ {c} : TokenOf(d)' = TokenOf(d)
    BY <2>2 DEF TokenOf, PoolOf
  <2>4. TokenOf(c)' = t
    BY <2>1 DEF TokenOf, PoolOf
  <2>5. ASSUME NEW d \in Closers \ {c}, task'[d].step # "idle", TokenOf(d)' = TokenOf(c)'
        PROVE  task'[d].met /\ task'[c].met
    <3>1. BusyWith(d, t)
      BY <2>2, <2>3, <2>4, <2>5, TaskTypes, BookingAssumption DEF BusyWith, IOut, ICooled
    <3> QED
      BY <2>1, <2>2, <3>1 DEF Busy
  <2>6. ASSUME NEW d \in Closers \ {c}, NEW e \in Closers \ {c}, d # e,
               task'[d].step # "idle", task'[e].step # "idle", TokenOf(d)' = TokenOf(e)'
        PROVE  task'[d].met /\ task'[e].met
    BY <2>2, <2>3, <2>6 DEF IOut, Alone
  <2>7. Alone'
    BY <2>5, <2>6 DEF Alone
  <2>8. AllOut'
    <3>1. Out(c)'
      BY <2>1 DEF Out
    <3>2. ASSUME NEW d \in Closers \ {c}, task'[d].step # "idle"
          PROVE  Out(d)'
      BY <2>1, <2>2, <2>3, <3>2 DEF IOut, AllOut, Out
    <3> QED
      BY <3>1, <3>2 DEF AllOut
  <2> QED
    BY <2>7, <2>8
<1>4. CASE \E t \in Tokens : Lapse(t)
  <2> PICK t \in Tokens : Lapse(t)
    BY <1>4
  <2>1. task' = task /\ \A u \in Tokens \ {t} : cool'[u] = cool[u]
    BY DEF Lapse, IOut, ICooled, TypeOK
  <2>2. ASSUME NEW d \in Closers, task[d].step # "idle"
        PROVE  TokenOf(d) \in Tokens \ {t}
    BY <2>2, TaskTypes, BookingAssumption DEF Lapse, Busy, BusyWith, IOut, ICooled
  <2> QED
    BY <2>1, <2>2 DEF IOut, Alone, AllOut, Out, TokenOf, PoolOf
<1>5. World /\ ~(\E t \in Tokens : Lapse(t)) => UNCHANGED <<cool, task>>
  BY DEF World, CloseUnseen, Adopt, Drop, Deploy, LapsePool
<1> QED
  BY <1>1, <1>2, <1>3, <1>4, <1>5, OutBook DEF Next, vars

LEMMA OutInvariant == Spec => []IOut
<1>1. Init => AllSteady /\ AllCooled /\ Alone /\ AllOut
  BY DEF Init, AllSteady, Steady, AllCooled, Alone, AllOut, Idle, Recentering
<1>2. IOut /\ [Next]_vars => IOut'
  BY NextTypes, SteadyNext, CooledNext, OutNext DEF IOut, ICooled
<1> QED
  BY <1>1, <1>2, InitTypes, PTL DEF Spec, IOut, ICooled

\* A second loss in a row keeps its token out for a day at least, whoever books it, when no
\* other close of the token is booked beside it (monitor 1613-1627, 792-803).
THEOREM RepeatLossHolds == Spec => RepeatLossIsOut
<1> DEFINE Kept(c) ==
      Finishes(c) /\ ~task[c].met /\ task[c].losses >= 2 => cool'[TokenOf(c)] >= 1440
<1>1. ASSUME IOut, [Next]_vars, NEW c \in Closers, Finishes(c), ~task[c].met, task[c].losses >= 2
      PROVE  cool'[TokenOf(c)] >= 1440
  <2>1. /\ After(c) \/ Register(c) \/ Fallback(c)
           \/ \E q \in Positions, o \in Outcomes : Reseed(c, q, o)
        /\ Steady(c, task[c]) /\ Out(c)
    BY <1>1, LastStep DEF IOut, ICooled, AllSteady, AllOut, Finishes, At
  <2>2. ~Fallback(c)
    BY <1>1, <2>1 DEF Fallback, Steady, Recentering, At
  <2> QED
    BY <1>1, <2>1, <2>2 DEF After, Register, Reseed, Out, At, redis
<1>2. IOut /\ [Next]_vars => [\A c \in Closers : Kept(c)]_vars
  BY <1>1
<1> QED
  BY <1>2, OutInvariant, PTL DEF Spec, RepeatLossIsOut

--------------------------------------------------------------------------------
(* The life of a position. *)

\* A closer drops the keys of an account that is gone, and nobody deploys there meanwhile.
ForgetsGone == \A c \in Closers : At(c, "forget") => task[c].pos \notin open

Known == {p \in Positions : mode[p] # None}

\* One step of one closer, or the world.
LEMMA ForgetsGoneNext ==
  ASSUME TypeOK, ForgetsGone, [Next]_vars
  PROVE  ForgetsGone'
<1> USE DEF At, redis, past
<1>0. task \in [Closers -> Tasks]
  BY DEF TypeOK
<1>1. CASE UNCHANGED vars
  BY <1>1 DEF vars, ForgetsGone
<1>2. ASSUME NEW c \in Closers, Book(c) \/ Killed(c)
      PROVE  ForgetsGone'
  <2>1. task'[c].step # "forget" /\ \A d \in Closers \ {c} : task'[d] = task[d]
    <3>1. /\ DOMAIN task[c] = {"step", "pos", "mode", "kind", "result", "total", "losses",
                               "again", "met"}
          /\ Idle.step # "forget"
      BY DEF TypeOK, Tasks, Idle
    <3>2. CASE Forget(c) \/ ReadTotal(c) \/ WriteTotal(c) \/ Streak(c) \/ Look(c)
      BY <1>0, <3>1, <3>2 DEF Forget, ReadTotal, WriteTotal, Streak, Look, Goto
    <3>3. CASE \E above \in BOOLEAN : Budget(c, above)
      BY <1>0, <3>1, <3>3 DEF Budget
    <3>4. CASE Cool(c) \/ Extend(c) \/ After(c) \/ Tally(c) \/ TallyPnl(c) \/ Register(c)
               \/ Fallback(c) \/ Killed(c)
      BY <1>0, <3>1, <3>4
      DEF Cool, Extend, After, Tally, TallyPnl, Register, Fallback, Killed, Goto, Done
    <3>5. CASE \E q \in Positions, o \in Outcomes : Redeploy(c, q, o) \/ Reseed(c, q, o)
      BY <1>0, <3>1, <3>5 DEF Redeploy, Reseed, Goto, Done
    <3> QED
      BY <1>2, <3>2, <3>3, <3>4, <3>5 DEF Book
  <2>2. UNCHANGED open \/ \E q \in Positions : Free(q) /\ open' = open \cup {q}
    BY <1>2
    DEF Book, Killed, Forget, ReadTotal, WriteTotal, Budget, Streak, Look, Cool, Extend,
        After, Tally, TallyPnl, Redeploy, Reseed, Register, Fallback
  <2> QED
    BY <2>1, <2>2 DEF ForgetsGone, Free
<1>3. ASSUME NEW c \in Closers, NEW p \in Positions, NEW close \in Closes,
             CloseLands(c, p, close.kind, close.result)
      PROVE  ForgetsGone'
  <2>1. /\ open' = open \ {p} /\ task'[c].pos = p
        /\ \A d \in Closers \ {c} : task'[d].step = task[d].step /\ task'[d].pos = task[d].pos
    BY <1>0, <1>3 DEF CloseLands, Tasks
  <2> QED
    BY <2>1 DEF ForgetsGone
<1>4. CASE World
  <2>1. UNCHANGED task
    BY <1>4 DEF World, CloseUnseen, Adopt, Drop, Deploy, Lapse, LapsePool
  <2>2. \/ open' \subseteq open
        \/ \E p \in Positions : Free(p) /\ open' = open \cup {p}
    BY <1>4 DEF World, CloseUnseen, Adopt, Drop, Deploy, Lapse, LapsePool
  <2> QED
    BY <2>1, <2>2 DEF ForgetsGone, Free
<1> QED
  BY <1>1, <1>2, <1>3, <1>4 DEF Next

\* What a step may do to the accounts and the keys.
LEMMA LifeSteps ==
  ASSUME NEW p \in Positions,
         \/ Free(p) /\ open' = open \cup {p} /\ (UNCHANGED mode \/ Known' = Known \cup {p})
         \/ UNCHANGED open /\ Known' = Known \cup {p}
         \/ p \in open /\ open' = open \ {p} /\ UNCHANGED mode
         \/ p \notin open /\ UNCHANGED open /\ Known' = Known \ {p}
  PROVE  Life!Next
<1>1. CASE Free(p) /\ open' = open \cup {p} /\ (UNCHANGED mode \/ Known' = Known \cup {p})
  <2>1. Life!Deploy(p)
    BY <1>1 DEF Life!Deploy, Free, Known
  <2> QED
    BY <2>1 DEF Life!Next
<1>2. CASE UNCHANGED open /\ Known' = Known \cup {p}
  <2>1. Life!Register(p)
    BY <1>2 DEF Life!Register, Known
  <2> QED
    BY <2>1 DEF Life!Next
<1>3. CASE p \in open /\ open' = open \ {p} /\ UNCHANGED mode
  <2>1. Life!Close(p)
    BY <1>3 DEF Life!Close
  <2> QED
    BY <2>1 DEF Life!Next
<1>4. CASE p \notin open /\ UNCHANGED open /\ Known' = Known \ {p}
  <2>1. Life!Forget({p})
    BY <1>4 DEF Life!Forget, Known
  <2> QED
    BY <2>1 DEF Life!Next
<1> QED
  BY <1>1, <1>2, <1>3, <1>4

\* Register writes, Forget and Drop delete one key.
LEMMA KeyChange ==
  ASSUME TypeOK, NEW p \in Positions, NEW m \in Modes \cup {None},
         mode' = [mode EXCEPT ![p] = m]
  PROVE  Known' = IF m = None THEN Known \ {p} ELSE Known \cup {p}
  BY DEF TypeOK, Known

LEMMA BookLives ==
  ASSUME TypeOK, ForgetsGone, NEW c \in Closers, Book(c) \/ Killed(c)
  PROVE  [Life!Next]_Life!life
<1> USE DEF redis, past
<1>1. CASE UNCHANGED <<open, mode>>
  BY <1>1 DEF Life!life
<1>2. CASE Forget(c) \/ Register(c)
  <2>1. task[c].step # "idle"
    BY <1>2 DEF Forget, Register, At
  <2>2. PICK p \in Positions : p = task[c].pos
    BY <2>1, TaskTypes
  <2>3. CASE Forget(c)
    <3>1. p \notin open /\ UNCHANGED open /\ Known' = Known \ {p}
      BY <2>2, <2>3, KeyChange DEF Forget, ForgetsGone
    <3> QED
      BY <3>1, LifeSteps
  <2>4. CASE Register(c)
    <3>1. task[c].mode \in Modes /\ task[c].mode # None
      BY <2>1, TaskTypes, BookingAssumption
    <3>2. UNCHANGED open /\ Known' = Known \cup {p}
      BY <2>2, <2>4, <3>1, KeyChange DEF Register
    <3> QED
      BY <3>2, LifeSteps
  <2> QED
    BY <1>2, <2>3, <2>4
<1>3. ASSUME NEW q \in Positions, NEW o \in Outcomes, Redeploy(c, q, o) \/ Reseed(c, q, o)
      PROVE  [Life!Next]_Life!life
  <2>1. UNCHANGED mode /\ (UNCHANGED open \/ (Free(q) /\ open' = open \cup {q}))
    BY <1>3 DEF Redeploy, Reseed
  <2> QED
    BY <1>1, <2>1, LifeSteps
<1>4. \/ UNCHANGED <<open, mode>> \/ Forget(c) \/ Register(c)
      \/ \E q \in Positions, o \in Outcomes : Redeploy(c, q, o) \/ Reseed(c, q, o)
  BY DEF Book, Killed, ReadTotal, WriteTotal, Budget, Streak, Look, Cool, Extend, After,
         Tally, TallyPnl, Fallback
<1> QED
  BY <1>1, <1>2, <1>3, <1>4

LEMMA NextLives ==
  ASSUME TypeOK, ForgetsGone, [Next]_vars
  PROVE  [Life!Next]_Life!life
<1> USE DEF redis, past
<1>1. CASE UNCHANGED <<open, mode>>
  BY <1>1 DEF Life!life
<1>2. ASSUME NEW c \in Closers, NEW p \in Positions, NEW close \in Closes,
             CloseLands(c, p, close.kind, close.result)
      PROVE  Life!Next
  BY <1>2, LifeSteps DEF CloseLands
<1>3. ASSUME NEW p \in Positions, NEW r, CloseUnseen(p, r) PROVE Life!Next
  BY <1>3, LifeSteps DEF CloseUnseen
<1>4. ASSUME NEW p \in Positions, Adopt(p) \/ Drop(p) PROVE Life!Next
  <2>1. CASE Adopt(p)
    <3>1. Known' = Known \cup {p}
      BY <2>1, KeyChange, BookingAssumption DEF Adopt, Modes
    <3> QED
      BY <2>1, <3>1, LifeSteps DEF Adopt
  <2>2. CASE Drop(p)
    <3>1. Known' = Known \ {p}
      BY <2>2, KeyChange DEF Drop
    <3> QED
      BY <2>2, <3>1, LifeSteps DEF Drop
  <2> QED
    BY <1>4, <2>1, <2>2
<1>5. ASSUME NEW p \in Positions, NEW m \in Entered, Deploy(p, m) PROVE Life!Next
  <2>1. Known' = Known \cup {p}
    BY <1>5, KeyChange, BookingAssumption DEF Deploy
  <2> QED
    BY <1>5, <2>1, LifeSteps DEF Deploy
<1>6. \/ UNCHANGED <<open, mode>>
      \/ \E c \in Closers :
           \/ Book(c) \/ Killed(c)
           \/ \E p \in Positions, close \in Closes : CloseLands(c, p, close.kind, close.result)
      \/ \E p \in Positions : \/ \E close \in Closes : CloseUnseen(p, close.result)
                              \/ Adopt(p) \/ Drop(p)
                              \/ \E m \in Entered : Deploy(p, m)
  BY DEF Next, World, Lapse, LapsePool, vars
<1> QED
  BY <1>1, <1>2, <1>3, <1>4, <1>5, <1>6, BookLives

\* Any number of closers, re-centers, kills and reconciliations beside each other keep to
\* PositionLife: the keys a booking drops after its close are never those of an account
\* deployed since, and an address is deployed at again only when its key and every booking
\* of it are gone (monitor 1504-1512, 1728-1770).
THEOREM BookingKeepsLife == Spec => KeepsLife
<1>1. Init => ForgetsGone /\ Life!Init
  BY DEF Init, ForgetsGone, At, Idle, Life!Init
<1>2. TypeOK /\ ForgetsGone /\ [Next]_vars => ForgetsGone' /\ [Life!Next]_Life!life
  BY ForgetsGoneNext, NextLives
<1> QED
  BY <1>1, <1>2, TypesHold, PTL DEF Spec, KeepsLife, Life!Spec
================================================================================
