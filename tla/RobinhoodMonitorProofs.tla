------------------------- MODULE RobinhoodMonitorProofs -------------------------
(***************************************************************************)
(* What holds of the state file of the Robinhood monitor for any number of *)
(* positions, executors and kills, any readings and any limits.            *)
(***************************************************************************)
EXTENDS RobinhoodMonitor, TLAPS

--------------------------------------------------------------------------------
(* Types. *)

LEMMA ReadingTypes ==
  ASSUME NEW r \in Shown
  PROVE  r.pnl \in Int \cup {None} /\ r.inRange \in BOOLEAN
<1>1. CASE r \in Readings
  BY <1>1, RobinhoodAssumption DEF Reading
<1>2. CASE r = ErrorReading
  BY <1>2 DEF ErrorReading
<1>3. ASSUME NEW q \in Readings, NEW n \in {-1000, None}, r = [q EXCEPT !.pnl = n]
      PROVE  r.pnl \in Int \cup {None} /\ r.inRange \in BOOLEAN
  BY <1>3, RobinhoodAssumption DEF Reading
<1> QED
  BY <1>1, <1>2, <1>3 DEF Shown

LEMMA FreshTypes == Fresh \in States
  BY RobinhoodAssumption DEF Fresh, States

LEMMA KnownTypes ==
  ASSUME TypeOK, NEW p \in Positions
  PROVE  Known(p) \in States
  BY FreshTypes DEF Known, TypeOK

LEMMA LookedTypes ==
  ASSUME NEW s \in States, NEW r \in Shown, NEW ind \in Signals
  PROVE  Looked(s, r, ind) \in States
<1>1. PeakAfter(s, r) \in Nat
  BY ReadingTypes DEF PeakAfter, States
<1>2. OorAfter(s, r) \in (0 .. OorLimit) \cup {None}
  BY RobinhoodAssumption DEF OorAfter, States
<1>3. BlkAfter(s, r, ind) \in (0 .. BlockCap) \cup {None}
  BY RobinhoodAssumption DEF BlkAfter, States
<1> QED
  BY <1>1, <1>2, <1>3 DEF Looked, States

LEMMA OlderTypes ==
  ASSUME NEW limit \in Nat, NEW age \in (0 .. limit) \cup {None}
  PROVE  /\ Older(age, limit) \in (0 .. limit) \cup {None}
         /\ age # None => Older(age, limit) \in 0 .. limit /\ Older(age, limit) >= age
  BY RobinhoodAssumption DEF Older

LEMMA InitTypes == Init => TypeOK
  BY RobinhoodAssumption DEF Init, TypeOK, Nothing, Idle, Ticks, Chain, Bags

LEMMA EffectTypes ==
  ASSUME TypeOK, NEW p \in Positions, NEW o \in Outcomes, Effect(p, o)
  PROVE  chain' \in [Positions -> Chain] /\ bag' \in [Positions -> Bags]
  BY DEF Effect, Outcomes, TypeOK, Chain, Bags

LEMMA VisitedTypes ==
  ASSUME TypeOK, NEW p \in Positions, Visited(p)
  PROVE  tick' \in Ticks
  BY DEF Visited, TypeOK, Ticks

LEMMA AgedTypes ==
  ASSUME TypeOK, Pass
  PROVE  /\ file' \in [Positions -> States \cup {None}]
         /\ held' \in (0 .. BlockCap) \cup {None} /\ inAge' \in 0 .. OorLimit
<1>1. ASSUME NEW s \in States
      PROVE  [s EXCEPT !.oor = Older(@, OorLimit), !.blk = Older(@, BlockCap)] \in States
  BY OlderTypes, RobinhoodAssumption DEF States
<1>2. file' \in [Positions -> States \cup {None}]
  BY <1>1 DEF Pass, TypeOK
<1>3. held' \in (0 .. BlockCap) \cup {None}
  BY OlderTypes, RobinhoodAssumption DEF Pass, TypeOK
<1>4. inAge' \in 0 .. OorLimit
  <2>1. inAge \in (0 .. OorLimit) \cup {None} /\ inAge # None /\ OorLimit \in Nat
    BY RobinhoodAssumption DEF TypeOK
  <2>2. Older(inAge, OorLimit) \in 0 .. OorLimit
    BY <2>1, OlderTypes
  <2> QED
    BY <2>2 DEF Pass
<1> QED
  BY <1>2, <1>3, <1>4

LEMMA NextTypes == TypeOK /\ [Next]_vars => TypeOK'
<1> SUFFICES ASSUME TypeOK, [Next]_vars PROVE TypeOK'
  OBVIOUS
<1> USE DEF past
<1>1. ASSUME NEW answers \in [Executors -> Answers], NEW sold \in SUBSET Positions,
             NEW failed \in SUBSET Positions, Gather(answers, sold, failed)
      PROVE  TypeOK'
  <2>1. bag' \in [Positions -> Bags]
    BY <1>1 DEF Gather, Sweep, TypeOK, Bags
  <2>2. mem' \in [Positions -> States \cup {None}]
    BY <1>1 DEF Gather, TypeOK
  <2>3. [Idle EXCEPT !.step = "visit", !.todo = Listed(answers),
                     !.failed = Giving(answers, "silent"),
                     !.blind = Giving(answers, "report")] \in Ticks
    BY DEF Ticks, Idle, Listed, Giving
  <2>4. tick' \in Ticks
    BY <1>1, <2>3 DEF Gather, TypeOK
  <2> QED
    BY <1>1, <2>1, <2>2, <2>4 DEF Gather, TypeOK
<1>2. ASSUME NEW p \in Positions, Unreadable(p) PROVE TypeOK'
  BY <1>2, VisitedTypes DEF Unreadable, TypeOK
<1>3. ASSUME NEW p \in Positions, NEW r \in Shown, NEW ind \in Signals, Hold(p, r, ind)
      PROVE  TypeOK'
  <2>1. mem' \in [Positions -> States \cup {None}]
    BY <1>3, KnownTypes, LookedTypes DEF Hold, TypeOK
  <2>2. held' \in (0 .. BlockCap) \cup {None} /\ inAge' \in 0 .. OorLimit
    BY <1>3, RobinhoodAssumption DEF Hold, TypeOK
  <2> QED
    BY <1>3, <2>1, <2>2, VisitedTypes DEF Hold, TypeOK
<1>4. ASSUME NEW p \in Positions, NEW r \in Shown, NEW ind \in Signals, NEW o \in Outcomes,
             NEW answered \in BOOLEAN, Close(p, r, ind, o, answered)
      PROVE  TypeOK'
  <2>1. mem' \in [Positions -> States \cup {None}]
    BY <1>4, KnownTypes, LookedTypes DEF Close, TypeOK
  <2>2. held' \in (0 .. BlockCap) \cup {None} /\ inAge' \in 0 .. OorLimit
    BY <1>4, RobinhoodAssumption DEF Close, TypeOK
  <2>3. chain' \in [Positions -> Chain] /\ bag' \in [Positions -> Bags]
    BY <1>4, EffectTypes DEF Close
  <2> QED
    BY <1>4, <2>1, <2>2, <2>3, VisitedTypes DEF Close, TypeOK
<1>5. ASSUME Save PROVE TypeOK'
  BY <1>5 DEF Save, TypeOK, Idle, Ticks, Nothing
<1>6. ASSUME Killed PROVE TypeOK'
  BY <1>6, RobinhoodAssumption DEF Killed, TypeOK, Idle, Ticks, Nothing
<1>7. ASSUME NEW p \in Positions, Mint(p) \/ AdoptBag(p) \/ BackoffOver(p) PROVE TypeOK'
  BY <1>7 DEF Mint, AdoptBag, BackoffOver, TypeOK, Chain, Bags
<1>8. ASSUME NEW p \in Positions, NEW o \in Outcomes, ManualClose(p, o) PROVE TypeOK'
  BY <1>8, EffectTypes DEF ManualClose, TypeOK
<1>9. ASSUME Pass PROVE TypeOK'
  BY <1>9, AgedTypes DEF Pass, TypeOK
<1>10. CASE UNCHANGED vars
  BY <1>10 DEF vars, TypeOK
<1> QED
  BY <1>1, <1>2, <1>3, <1>4, <1>5, <1>6, <1>7, <1>8, <1>9, <1>10
  DEF Next, Gathering, Visit, World

\* Types are invariant (uni_monitor.py main and the executors' commands).
THEOREM TypesHold == Spec => []TypeOK
<1>1. Init => TypeOK
  BY InitTypes
<1>2. TypeOK /\ [Next]_vars => TypeOK'
  BY NextTypes
<1> QED
  BY <1>1, <1>2, PTL DEF Spec

--------------------------------------------------------------------------------
(* The peaks.  What a tick loaded is at least what the file says, and everything it does *)
(* not visit is either unread or gone.                                                   *)

Unborn(p) == file[p] = None /\ mem[p] = None

Carried(p) == /\ mem[p] # None /\ mem[p].peak >= file[p].peak
              /\ Exec[p] \in tick.failed \/ p \in tick.todo \cup tick.live

PeakInv ==
  /\ \A p \in Positions : chain[p] = "absent" => Unborn(p)
  /\ tick.step = "visit" => /\ \A p \in tick.todo \cup tick.live : chain[p] # "absent"
                            /\ \A p \in Positions :
                                 Open(p) /\ file[p] # None /\ Exec[p] \notin tick.blind
                                   => Carried(p)

LEMMA PeakGrows ==
  ASSUME NEW s \in States, NEW r \in Shown
  PROVE  PeakAfter(s, r) \in Nat /\ PeakAfter(s, r) >= s.peak
  BY ReadingTypes DEF PeakAfter, States

\* What a close or a manual close may do to the chain.
LEMMA EffectOpens ==
  ASSUME TypeOK, NEW p \in Positions, NEW o \in Outcomes, Reach(p, o), Effect(p, o)
  PROVE  \A q \in Positions : /\ Open(q)' => Open(q)
                              /\ chain'[q] = "absent" <=> chain[q] = "absent"
  BY DEF Reach, Effect, Outcomes, TypeOK, Open

\* A visit: the chain changes as a close may change it, the entry of p is looked at again
\* or, when p is gone, dropped.
LEMMA VisitPeaks ==
  ASSUME TypeOK, TypeOK', PeakInv, NEW p \in Positions, tick.step = "visit", p \in tick.todo,
         Visited(p), UNCHANGED file,
         \A q \in Positions : /\ Open(q)' => Open(q)
                              /\ chain'[q] = "absent" <=> chain[q] = "absent",
         \A q \in Positions \ {p} : mem'[q] = mem[q],
         Open(p)' => mem'[p] # None /\ (mem[p] # None => mem'[p].peak >= mem[p].peak)
  PROVE  PeakInv'
<1>1. /\ tick'.failed = tick.failed /\ tick'.blind = tick.blind /\ tick'.step = tick.step
      /\ tick'.todo \cup tick'.live = tick.todo \cup tick.live
  BY DEF Visited, TypeOK, Ticks
<1>2. chain[p] # "absent"
  BY DEF PeakInv
<1>3. ASSUME NEW q \in Positions, chain'[q] = "absent" PROVE Unborn(q)'
  BY <1>2, <1>3 DEF PeakInv, Unborn
<1>4. ASSUME NEW q \in Positions, Open(q)', file'[q] # None, Exec[q] \notin tick'.blind
      PROVE  Carried(q)'
  <2>1. Carried(q)
    BY <1>1, <1>4 DEF PeakInv
  <2>2. CASE q # p
    BY <1>1, <2>1, <2>2 DEF Carried
  <2>3. CASE q = p
    <3>1. mem[p] \in States /\ file[p] \in States /\ mem'[p] \in States
      BY <1>4, <2>1, <2>3 DEF Carried, TypeOK
    <3> QED
      BY <1>1, <1>4, <2>1, <2>3, <3>1 DEF Carried, States
  <2> QED
    BY <2>2, <2>3
<1>5. \A q \in tick'.todo \cup tick'.live : chain'[q] # "absent"
  BY <1>1 DEF PeakInv, TypeOK, Ticks
<1> QED
  BY <1>3, <1>4, <1>5 DEF PeakInv

\* The chain alone changes: nothing opens but what is in nobody's state.
LEMMA ChainPeaks ==
  ASSUME TypeOK, PeakInv, UNCHANGED <<file, mem, tick>>,
         \A q \in Positions : /\ Open(q)' => Open(q) \/ file[q] = None
                              /\ chain'[q] = "absent" => chain[q] = "absent"
  PROVE  PeakInv'
<1>1. \A q \in tick.todo \cup tick.live : q \in Positions
  BY DEF TypeOK, Ticks
<1>2. \A q \in Positions : Carried(q)' <=> Carried(q)
  BY DEF Carried
<1>3. \A q \in Positions : Unborn(q)' <=> Unborn(q)
  BY DEF Unborn
<1> QED
  BY <1>1, <1>2, <1>3 DEF PeakInv

LEMMA InitPeaks == Init => PeakInv
  BY DEF Init, PeakInv, Unborn, Nothing, Idle

LEMMA NextPeaks == TypeOK /\ TypeOK' /\ PeakInv /\ [Next]_vars => PeakInv'
<1> SUFFICES ASSUME TypeOK, TypeOK', PeakInv, [Next]_vars PROVE PeakInv'
  OBVIOUS
<1> USE DEF past
<1>1. ASSUME NEW answers \in [Executors -> Answers], NEW sold \in SUBSET Positions,
             NEW failed \in SUBSET Positions, Gather(answers, sold, failed)
      PROVE  PeakInv'
  <2>1. CASE UNCHANGED <<tick, mem>>
    BY <1>1, <2>1 DEF Gather, PeakInv, Unborn, Open, Carried
  <2>2. CASE /\ mem' = file
             /\ tick' = [Idle EXCEPT !.step = "visit", !.todo = Listed(answers),
                                     !.failed = Giving(answers, "silent"),
                                     !.blind = Giving(answers, "report")]
    <3>1. /\ tick'.todo = Listed(answers) /\ tick'.live = {}
          /\ tick'.failed = Giving(answers, "silent") /\ tick'.blind = Giving(answers, "report")
      BY <2>2 DEF Idle
    <3>2. \A p \in Listed(answers) : chain[p] # "absent"
      BY DEF Listed, Open
    <3>3. ASSUME NEW p \in Positions, Open(p), file[p] # None, Exec[p] \notin tick'.blind
          PROVE  Carried(p)'
      <4>1. Exec[p] \in Executors
        BY RobinhoodAssumption
      <4>2. answers[Exec[p]] \in {"listed", "silent"}
        BY <3>1, <3>3, <4>1 DEF Giving, Answers
      <4>3. Exec[p] \in tick'.failed \/ p \in tick'.todo
        BY <3>1, <3>3, <4>1, <4>2 DEF Giving, Listed
      <4>4. file[p] \in States
        BY <3>3 DEF TypeOK
      <4> QED
        BY <1>1, <2>2, <3>3, <4>3, <4>4 DEF Carried, Gather, States
    <3> QED
      BY <1>1, <2>2, <3>1, <3>2, <3>3 DEF Gather, PeakInv, Unborn, Open
  <2> QED
    BY <1>1, <2>1, <2>2 DEF Gather
<1>2. ASSUME NEW p \in Positions, Unreadable(p) PROVE PeakInv'
  <2>1. /\ tick'.failed = tick.failed /\ tick'.blind = tick.blind /\ tick'.step = tick.step
        /\ tick'.todo \cup tick'.live = tick.todo \cup tick.live
    BY <1>2 DEF Unreadable, Visited, TypeOK, Ticks
  <2> QED
    BY <1>2, <2>1 DEF Unreadable, PeakInv, Unborn, Open, Carried
<1>3. ASSUME NEW p \in Positions, NEW r \in Shown, NEW ind \in Signals, Hold(p, r, ind)
      PROVE  PeakInv'
  <2>1. Known(p) \in States
    BY KnownTypes
  <2>2. mem'[p] # None /\ (mem[p] # None => mem'[p].peak >= mem[p].peak)
    <3>1. mem'[p] = Looked(Known(p), r, ind)
      BY <1>3 DEF Hold, TypeOK
    <3>2. Looked(Known(p), r, ind) \in States
      BY <2>1, LookedTypes
    <3>3. None \notin States
      BY RobinhoodAssumption
    <3>4. mem[p] # None => Looked(Known(p), r, ind).peak >= mem[p].peak
      BY <2>1, PeakGrows DEF Looked, Known
    <3> QED
      BY <3>1, <3>2, <3>3, <3>4
  <2>3. \A q \in Positions \ {p} : mem'[q] = mem[q]
    BY <1>3 DEF Hold, TypeOK
  <2> QED
    BY <1>3, <2>2, <2>3, VisitPeaks DEF Hold, Open
<1>4. ASSUME NEW p \in Positions, NEW r \in Shown, NEW ind \in Signals, NEW o \in Outcomes,
             NEW answered \in BOOLEAN, Close(p, r, ind, o, answered)
      PROVE  PeakInv'
  <2>1. Known(p) \in States
    BY KnownTypes
  <2>2. CASE answered
    <3>1. ~Open(p)'
      BY <1>4, <2>2 DEF Close, Effect, Open, TypeOK
    <3>2. \A q \in Positions \ {p} : mem'[q] = mem[q]
      BY <1>4 DEF Close, TypeOK
    <3>3. Visited(p) /\ Reach(p, o) /\ Effect(p, o)
      BY <1>4 DEF Close
    <3>4. \A q \in Positions : /\ Open(q)' => Open(q)
                               /\ chain'[q] = "absent" <=> chain[q] = "absent"
      BY <3>3, EffectOpens
    <3> QED
      BY <1>4, <3>1, <3>2, <3>3, <3>4, VisitPeaks DEF Close, Open
  <2>3. CASE ~answered
    <3>1. mem'[p] = Looked(Known(p), r, ind)
      BY <1>4, <2>3 DEF Close, TypeOK
    <3>2. Looked(Known(p), r, ind) \in States /\ None \notin States
      BY <2>1, LookedTypes, RobinhoodAssumption
    <3>3. mem[p] # None => Looked(Known(p), r, ind).peak >= mem[p].peak
      BY <2>1, PeakGrows DEF Looked, Known
    <3>4. \A q \in Positions \ {p} : mem'[q] = mem[q]
      BY <1>4 DEF Close, TypeOK
    <3>5. Visited(p) /\ Reach(p, o) /\ Effect(p, o)
      BY <1>4 DEF Close
    <3>6. \A q \in Positions : /\ Open(q)' => Open(q)
                               /\ chain'[q] = "absent" <=> chain[q] = "absent"
      BY <3>5, EffectOpens
    <3> QED
      BY <1>4, <3>1, <3>2, <3>3, <3>4, <3>5, <3>6, VisitPeaks DEF Close, Open
  <2> QED
    BY <2>2, <2>3
<1>5. ASSUME Save PROVE PeakInv'
  BY <1>5 DEF Save, PeakInv, Unborn, Nothing, Idle, Keeps
<1>6. ASSUME Killed PROVE PeakInv'
  BY <1>6 DEF Killed, PeakInv, Unborn, Nothing, Idle
<1>7. ASSUME NEW p \in Positions, Mint(p) PROVE PeakInv'
  <2>1. \A q \in Positions : /\ Open(q)' /\ ~Open(q) => file[q] = None
                             /\ chain'[q] = "absent" => chain[q] = "absent"
    BY <1>7 DEF Mint, PeakInv, Unborn, Open, TypeOK
  <2> QED
    BY <1>7, <2>1, ChainPeaks DEF Mint, Open
<1>8. ASSUME NEW p \in Positions, AdoptBag(p) \/ BackoffOver(p) PROVE PeakInv'
  BY <1>8 DEF AdoptBag, BackoffOver, PeakInv, Unborn, Carried, Open
<1>9. ASSUME NEW p \in Positions, NEW o \in Outcomes, ManualClose(p, o) PROVE PeakInv'
  <2>1. \A q \in Positions : /\ Open(q)' => Open(q)
                             /\ chain'[q] = "absent" <=> chain[q] = "absent"
    BY <1>9, EffectOpens DEF ManualClose
  <2> QED
    BY <1>9, <2>1, ChainPeaks DEF ManualClose, Open
<1>10. ASSUME Pass PROVE PeakInv'
  BY <1>10 DEF Pass, PeakInv, Unborn
<1>11. CASE UNCHANGED vars
  BY <1>11 DEF vars, PeakInv, Unborn, Carried, Open
<1> QED
  BY <1>1, <1>2, <1>3, <1>4, <1>5, <1>6, <1>7, <1>8, <1>9, <1>10, <1>11
  DEF Next, Gathering, Visit, World

LEMMA NextKeepsPeaks ==
  ASSUME TypeOK, PeakInv, [Next]_vars, NEW p \in Positions,
         Open(p), Open(p)', kills' = kills, Exec[p] \notin tick.blind
  PROVE  Remembered(p)
<1> SUFFICES ASSUME file[p] # None PROVE file'[p] # None /\ file'[p].peak >= file[p].peak
  BY DEF Remembered
<1>1. file[p] \in States /\ None \notin States
  BY RobinhoodAssumption DEF TypeOK
<1>2. CASE Save
  <2>1. Carried(p)
    BY <1>2 DEF Save, PeakInv
  <2>2. Keeps(p)
    BY <1>2, <2>1 DEF Carried, Keeps, Save
  <2> QED
    BY <1>2, <2>1, <2>2 DEF Save, Carried
<1>3. CASE Pass
  <2>1. file'[p] = [file[p] EXCEPT !.oor = Older(@, OorLimit), !.blk = Older(@, BlockCap)]
    BY <1>3 DEF Pass
  <2>2. file'[p].peak = file[p].peak
    BY <1>1, <2>1 DEF States
  <2>3. file'[p] \in States \cup {None} /\ file'[p] # None
    <3>1. [file[p] EXCEPT !.oor = Older(@, OorLimit), !.blk = Older(@, BlockCap)] \in States
      BY <1>1, OlderTypes, RobinhoodAssumption DEF States
    <3> QED
      BY <1>1, <2>1, <3>1
  <2> QED
    BY <1>1, <2>2, <2>3 DEF States
<1>4. CASE file' = file
  BY <1>1, <1>4 DEF States
<1>5. ~Killed
  <2>1. kills \in Nat
    BY RobinhoodAssumption DEF TypeOK
  <2> QED
    BY <2>1 DEF Killed
<1> QED
  BY <1>2, <1>3, <1>4, <1>5
  DEF Next, Gathering, Visit, World, vars, Gather, Unreadable, Hold, Close, Mint, AdoptBag,
      BackoffOver, ManualClose

\* The best PnL of a position that stays open survives every tick that ends by itself
\* (uni_monitor.py 536-546), for any number of positions and executors.
THEOREM PeaksAreKept == Spec => PeakKept
<1>1. Init => TypeOK /\ PeakInv
  BY InitTypes, InitPeaks
<1>2. TypeOK /\ PeakInv /\ [Next]_vars => (TypeOK /\ PeakInv)'
  BY NextTypes, NextPeaks
<1>3. TypeOK /\ PeakInv /\ [Next]_vars
        => [\A p \in Positions : Open(p) /\ Open(p)' /\ kills' = kills
                                 /\ Exec[p] \notin tick.blind => Remembered(p)]_vars
  BY NextKeepsPeaks
<1> QED
  BY <1>1, <1>2, <1>3, PTL DEF Spec, PeakKept

--------------------------------------------------------------------------------
(* The two clocks of the watched position, in the file between ticks and in memory while a *)
(* tick runs.                                                                             *)

ClockInv(s) == s # None => /\ s.oor # None => s.oor <= inAge
BlockInv(s) == held # None => s # None /\ s.blk # None /\ held <= s.blk

ClocksInv == /\ tick.step = "idle" => ClockInv(file[Watched]) /\ BlockInv(file[Watched])
             /\ tick.step = "visit" => ClockInv(mem[Watched]) /\ BlockInv(mem[Watched])

\* What a look at the watched position does to its clocks.
LEMMA LookedClocks ==
  ASSUME TypeOK, NEW s \in States, NEW r \in Shown, NEW ind \in Signals,
         ClockInv(s), BlockInv(s),
         inAge' = IF r.inRange THEN 0 ELSE inAge,
         held' = None \/ (Postponed(s, r, ind) /\ held' = IF held = None THEN 0 ELSE held)
  PROVE  ClockInv(Looked(s, r, ind))' /\ BlockInv(Looked(s, r, ind))'
<1>1. Looked(s, r, ind).oor = OorAfter(s, r) /\ Looked(s, r, ind).blk = BlkAfter(s, r, ind)
  BY DEF Looked
<1>2. r.inRange \in BOOLEAN /\ None \notin Int /\ None \notin States
  BY ReadingTypes, RobinhoodAssumption
<1>3. OorAfter(s, r) # None => OorAfter(s, r) <= inAge'
  BY <1>2, RobinhoodAssumption DEF OorAfter, ClockInv, TypeOK, States
<1>4. held' # None => BlkAfter(s, r, ind) # None /\ held' <= BlkAfter(s, r, ind)
  BY <1>2, RobinhoodAssumption DEF BlkAfter, BlockInv, TypeOK, States
<1>5. Looked(s, r, ind) # None
  BY <1>2, LookedTypes
<1> QED
  BY <1>1, <1>3, <1>4, <1>5 DEF ClockInv, BlockInv

LEMMA InitClocks == Init => ClocksInv
  BY RobinhoodAssumption DEF Init, ClocksInv, ClockInv, BlockInv, Nothing, Idle

LEMMA FreshClocks ==
  ASSUME TypeOK, ClockInv(mem[Watched]), BlockInv(mem[Watched])
  PROVE  ClockInv(Known(Watched)) /\ BlockInv(Known(Watched))
  BY DEF Known, Fresh, ClockInv, BlockInv

LEMMA OlderClocks ==
  ASSUME NEW limit \in Nat, NEW a \in 0 .. limit, NEW b \in 0 .. limit, a <= b
  PROVE  Older(a, limit) <= Older(b, limit)
  BY RobinhoodAssumption DEF Older

LEMMA NextClocks == TypeOK /\ ClocksInv /\ [Next]_vars => ClocksInv'
<1> SUFFICES ASSUME TypeOK, ClocksInv, [Next]_vars PROVE ClocksInv'
  OBVIOUS
<1> USE DEF past
<1>0. Watched \in Positions
  BY RobinhoodAssumption
<1>1. ASSUME NEW answers \in [Executors -> Answers], NEW sold \in SUBSET Positions,
             NEW failed \in SUBSET Positions, Gather(answers, sold, failed)
      PROVE  ClocksInv'
  BY <1>1 DEF Gather, ClocksInv, ClockInv, BlockInv, Idle
<1>2. ASSUME NEW p \in Positions, Unreadable(p) PROVE ClocksInv'
  BY <1>2 DEF Unreadable, Visited, ClocksInv, ClockInv, BlockInv, TypeOK, Ticks
<1>3. ASSUME NEW p \in Positions, NEW r \in Shown, NEW ind \in Signals, Hold(p, r, ind)
      PROVE  ClocksInv'
  <2>1. tick.step = "visit" /\ tick'.step = "visit"
    BY <1>3 DEF Hold, Visited, TypeOK, Ticks
  <2>2. CASE p # Watched
    BY <1>0, <1>3, <2>1, <2>2 DEF Hold, ClocksInv, ClockInv, BlockInv, TypeOK
  <2>3. CASE p = Watched
    <3>1. Known(p) \in States /\ ClockInv(Known(p)) /\ BlockInv(Known(p))
      BY <2>1, <2>3, KnownTypes, FreshClocks DEF ClocksInv
    <3>2. mem'[Watched] = Looked(Known(p), r, ind)
      BY <1>3, <2>3 DEF Hold, TypeOK
    <3>3. /\ inAge' = IF r.inRange THEN 0 ELSE inAge
          /\ held' = None \/ (Postponed(Known(p), r, ind)
                               /\ held' = IF held = None THEN 0 ELSE held)
      BY <1>3, <2>3 DEF Hold
    <3> QED
      BY <2>1, <3>1, <3>2, <3>3, LookedClocks DEF ClocksInv, ClockInv, BlockInv
  <2> QED
    BY <2>2, <2>3
<1>4. ASSUME NEW p \in Positions, NEW r \in Shown, NEW ind \in Signals, NEW o \in Outcomes,
             NEW answered \in BOOLEAN, Close(p, r, ind, o, answered)
      PROVE  ClocksInv'
  <2>1. tick.step = "visit" /\ tick'.step = "visit"
    BY <1>4 DEF Close, Visited, TypeOK, Ticks
  <2>2. CASE p # Watched
    BY <1>0, <1>4, <2>1, <2>2 DEF Close, ClocksInv, ClockInv, BlockInv, TypeOK
  <2>3. CASE p = Watched
    <3>1. Known(p) \in States /\ ClockInv(Known(p)) /\ BlockInv(Known(p))
      BY <2>1, <2>3, KnownTypes, FreshClocks DEF ClocksInv
    <3>2. mem'[Watched] \in {None, Looked(Known(p), r, ind)}
      BY <1>4, <2>3 DEF Close, TypeOK
    <3>3. held' = None /\ inAge' = IF r.inRange THEN 0 ELSE inAge
      BY <1>4, <2>3 DEF Close
    <3> QED
      BY <2>1, <3>1, <3>2, <3>3, LookedClocks DEF ClocksInv, ClockInv, BlockInv
  <2> QED
    BY <2>2, <2>3
<1>5. ASSUME Save PROVE ClocksInv'
  BY <1>0, <1>5 DEF Save, Keeps, Idle, ClocksInv, ClockInv, BlockInv
<1>6. ASSUME Killed PROVE ClocksInv'
  <2>1. tick'.step = "idle" /\ held' = None /\ inAge' = OorLimit
    BY <1>6 DEF Killed, Idle
  <2>2. file'[Watched] \in {None, file[Watched]}
    BY <1>0, <1>6 DEF Killed, Nothing
  <2>3. file[Watched] # None => file[Watched] \in States
    BY <1>0 DEF TypeOK
  <2>4. file'[Watched] # None /\ file'[Watched].oor # None => file'[Watched].oor <= OorLimit
    BY <2>2, <2>3, RobinhoodAssumption DEF States
  <2> QED
    BY <2>1, <2>4 DEF ClocksInv, ClockInv, BlockInv
<1>7. ASSUME NEW p \in Positions, Mint(p) \/ AdoptBag(p) \/ BackoffOver(p) PROVE ClocksInv'
  BY <1>7 DEF Mint, AdoptBag, BackoffOver, ClocksInv, ClockInv, BlockInv
<1>8. ASSUME NEW p \in Positions, NEW o \in Outcomes, ManualClose(p, o) PROVE ClocksInv'
  BY <1>8 DEF ManualClose, ClocksInv, ClockInv, BlockInv
<1>9. ASSUME Pass PROVE ClocksInv'
  <2> DEFINE s == file[Watched]
  <2>1. tick.step = "idle" /\ tick'.step = "idle" /\ ClockInv(s) /\ BlockInv(s)
    BY <1>9 DEF Pass, ClocksInv
  <2>2. held' = Older(held, BlockCap) /\ inAge' = Older(inAge, OorLimit)
    BY <1>9 DEF Pass
  <2>3. CASE s = None
    <3>1. file'[Watched] = None /\ held = None
      BY <1>0, <1>9, <2>1, <2>3 DEF Pass, BlockInv
    <3> QED
      BY <2>1, <2>2, <3>1 DEF ClocksInv, ClockInv, BlockInv, Older
  <2>4. CASE s # None
    <3>1. s \in States
      BY <1>0, <2>4 DEF TypeOK
    <3>2. file'[Watched] = [s EXCEPT !.oor = Older(@, OorLimit), !.blk = Older(@, BlockCap)]
      BY <1>0, <1>9, <2>4 DEF Pass
    <3>3. file'[Watched].oor = Older(s.oor, OorLimit) /\ file'[Watched].blk = Older(s.blk, BlockCap)
      BY <3>1, <3>2 DEF States
    <3>4. file'[Watched] # None
      <4>1. [s EXCEPT !.oor = Older(@, OorLimit), !.blk = Older(@, BlockCap)] \in States
        BY <3>1, OlderTypes, RobinhoodAssumption DEF States
      <4> QED
        BY <3>2, <4>1, RobinhoodAssumption
    <3>5. file'[Watched].oor # None => file'[Watched].oor <= inAge'
      <4>1. CASE s.oor = None
        BY <3>3, <4>1 DEF Older
      <4>2. CASE s.oor # None
        <5>1. s.oor \in 0 .. OorLimit /\ inAge \in 0 .. OorLimit /\ s.oor <= inAge
              /\ OorLimit \in Nat
          BY <2>1, <2>4, <3>1, <4>2, RobinhoodAssumption DEF ClockInv, TypeOK, States
        <5> QED
          BY <2>2, <3>3, <5>1, OlderClocks
      <4> QED
        BY <4>1, <4>2
    <3>6. held' # None => file'[Watched].blk # None /\ held' <= file'[Watched].blk
      <4>1. CASE held = None
        BY <2>2, <4>1 DEF Older
      <4>2. CASE held # None
        <5>1. s.blk \in 0 .. BlockCap /\ held \in 0 .. BlockCap /\ held <= s.blk
              /\ BlockCap \in Nat
          BY <2>1, <3>1, <4>2, RobinhoodAssumption DEF BlockInv, TypeOK, States
        <5>2. Older(s.blk, BlockCap) \in 0 .. BlockCap /\ None \notin Int
          BY <5>1, RobinhoodAssumption DEF Older
        <5> QED
          BY <2>2, <3>3, <5>1, <5>2, OlderClocks
      <4> QED
        BY <4>1, <4>2
    <3> QED
      BY <2>1, <3>4, <3>5, <3>6 DEF ClocksInv, ClockInv, BlockInv
  <2> QED
    BY <2>3, <2>4
<1>10. CASE UNCHANGED vars
  BY <1>10 DEF vars, ClocksInv, ClockInv, BlockInv
<1> QED
  BY <1>1, <1>2, <1>3, <1>4, <1>5, <1>6, <1>7, <1>8, <1>9, <1>10
  DEF Next, Gathering, Visit, World

LEMMA ClocksDecide == TypeOK /\ ClocksInv => PostponedAtMostCap /\ OorExitIsReal
<1> SUFFICES ASSUME TypeOK, ClocksInv, NEW r \in Shown, Visiting(r)
             PROVE  /\ Postponed(Known(Watched), r, "rejected") => held # BlockCap
                    /\ Raised(Known(Watched), r) = "oor" => inAge = OorLimit
  BY DEF PostponedAtMostCap, OorExitIsReal
<1> DEFINE s == Known(Watched)
<1>1. s \in States /\ ClockInv(s) /\ BlockInv(s)
  BY RobinhoodAssumption, KnownTypes, FreshClocks DEF Visiting, ClocksInv
<1>2. None \notin Int /\ None \notin States /\ OorLimit \in Nat \ {0} /\ BlockCap \in Nat
  BY RobinhoodAssumption
<1>3. held = BlockCap => TimedOut(s)
  BY <1>1, <1>2 DEF BlockInv, TimedOut, States
<1>4. ASSUME Raised(s, r) = "oor" PROVE inAge = OorLimit
  <2>1. OutOfRange(r, OorAfter(s, r))
    BY <1>4 DEF Raised, Reason
  <2>2. s.oor = OorLimit
    BY <1>2, <2>1 DEF OutOfRange, OorAfter
  <2> QED
    BY <1>1, <1>2, <2>2 DEF ClockInv, TypeOK
<1> QED
  BY <1>3, <1>4 DEF Postponed

\* The indicators never postpone an unbroken run of exits past the cap (uni_monitor.py
\* 462-487), whatever the readings, the limits and the kills.
THEOREM PostponementIsCapped == Spec => []PostponedAtMostCap
<1>1. Init => TypeOK /\ ClocksInv
  BY InitTypes, InitClocks
<1>2. TypeOK /\ ClocksInv /\ [Next]_vars => (TypeOK /\ ClocksInv)'
  BY NextTypes, NextClocks
<1>3. TypeOK /\ ClocksInv => PostponedAtMostCap
  BY ClocksDecide
<1> QED
  BY <1>1, <1>2, <1>3, PTL DEF Spec

\* No out-of-range exit within the limit of a saved tick that saw the position in range
\* (uni_monitor.py 446-458).
THEOREM OorExitsAreReal == Spec => []OorExitIsReal
<1>1. Init => TypeOK /\ ClocksInv
  BY InitTypes, InitClocks
<1>2. TypeOK /\ ClocksInv /\ [Next]_vars => (TypeOK /\ ClocksInv)'
  BY NextTypes, NextClocks
<1>3. TypeOK /\ ClocksInv => OorExitIsReal
  BY ClocksDecide
<1> QED
  BY <1>1, <1>2, <1>3, PTL DEF Spec
================================================================================
