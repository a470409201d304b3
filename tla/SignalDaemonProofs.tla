--------------------------- MODULE SignalDaemonProofs ---------------------------
(***************************************************************************)
(* What SignalDaemon does for any modes, feeds, sinks, windows and cap,    *)
(* and however many calls fail.                                            *)
(***************************************************************************)
EXTENDS SignalDaemon, TLAPS

\* Where pools are: of this mode, each in one place, and nobody looks at any when the poll
\* is past them or the process is down.
Placed ==
  /\ rest \subseteq Feed[Mode] /\ hand \subseteq Feed[Mode]
  /\ pool # None => pool \in Feed[Mode] /\ pool \notin hand /\ pool \notin rest
  /\ hand \cap rest = {}
  /\ rest # {} => at \in {"scan", "mark", "gate"}
  /\ life = "down" => at = "idle"

\* A key is unsettled exactly while it is free or in the daemon's hands.
Reasoned == \A k \in Keys : why[k] \in {None, "doubt"} <=> ~Seen(k) \/ k \in Held

\* Counting open positions alone is enough: what may still land was paid for.
Counted ==
  /\ late <= outlived /\ CapHeld
  /\ at = "mint" => open + late < Cap + outlived

Inv == TypeOK /\ Placed /\ Reasoned /\ Counted

--------------------------------------------------------------------------------
(* What the constants say. *)

LEMMA ModeIsMode == ASSUME TypeOK PROVE Mode \in Modes
  BY DaemonAssumption DEF TypeOK, Mode, Modes

LEMMA FeedIsPools == \A m \in Modes : Feed[m] \subseteq Pools
  BY DaemonAssumption DEF Pools

LEMMA KeyIsKey == ASSUME TypeOK, NEW p \in Feed[Mode] PROVE Key(p) \in Keys
  BY ModeIsMode, DaemonAssumption DEF Key, Keys

LEMMA NoneIsNoPool == ASSUME NEW m \in Modes PROVE None \notin Feed[m]
  BY FeedIsPools, DaemonAssumption

\* Keys of one mode are told apart by their pools.
LEMMA KeysDiffer == ASSUME NEW p, NEW q, Key(p) = Key(q) PROVE p = q
  BY DEF Key

LEMMA WhysAreReasons ==
  /\ None \notin Whys
  /\ \A reason \in Whys \ {"doubt"} : reason \notin {None, "doubt"}
  BY DaemonAssumption DEF Whys

--------------------------------------------------------------------------------
(* Types and places. *)

LEMMA InitPlaced == ASSUME Init PROVE TypeOK /\ Placed
  <1>1. 1 \in 1 .. Len(Order)
    BY DaemonAssumption
  <1>2. QED
    BY <1>1, DaemonAssumption DEF Init, TypeOK, Placed

\* What a step that settles keys does to why.
LEMMA SettledType ==
  ASSUME TypeOK, NEW K, NEW reason \in Whys, Settled(K, reason)
  PROVE  why' \in [Keys -> Whys \cup {None}]
  BY DEF TypeOK, Settled

LEMMA ScanPlaced ==
  ASSUME TypeOK, Placed,
         \/ PollBegins \/ \E found \in SUBSET Feed[Mode] : Fetch(found)
         \/ \E p \in Pools : Look(p)
  PROVE  TypeOK' /\ Placed'
  <1> USE ModeIsMode, FeedIsPools
  <1>1. CASE PollBegins
    <2>1. 1 \in 1 .. Len(Order)
      BY DaemonAssumption
    <2>2. QED
      BY <1>1, <2>1 DEF PollBegins, TypeOK, Placed, robin, Alive
  <1>2. CASE \E found \in SUBSET Feed[Mode] : Fetch(found)
    <2>1. PICK found \in SUBSET Feed[Mode] : Fetch(found)
      BY <1>2
    <2>2. Mode' = Mode /\ hand = {} /\ pool = None /\ found \subseteq Pools
      BY <2>1 DEF Fetch, TypeOK, Mode
    <2>3. TypeOK'
      BY <2>1, <2>2 DEF Fetch, TypeOK, robin
    <2>4. Placed'
      BY <2>1, <2>2 DEF Fetch, Placed, Alive
    <2>5. QED
      BY <2>3, <2>4
  <1>3. CASE \E p \in Pools : Look(p)
    <2>1. PICK p \in Pools : Look(p)
      BY <1>3
    <2>2. p \in Feed[Mode] /\ p # None /\ Mode' = Mode
      BY <2>1, NoneIsNoPool DEF Look, Placed, Mode
    <2>3. TypeOK'
      BY <2>1, <2>2 DEF Look, TypeOK, robin
    <2>4. Placed'
      BY <2>1, <2>2 DEF Look, TypeOK, Placed, Alive
    <2>5. QED
      BY <2>3, <2>4
  <1>4. QED
    BY <1>1, <1>2, <1>3

LEMMA MarkPlaced ==
  ASSUME TypeOK, Placed, Mark \/ MarkFails
  PROVE  TypeOK' /\ Placed'
  <1>1. /\ Mode' = Mode /\ at = "mark" /\ pool # None
        /\ Key(pool) \in Keys /\ Window[Mode] \in Nat
    BY ModeIsMode, KeyIsKey, DaemonAssumption DEF Mark, MarkFails, TypeOK, Placed, Mode
  <1>2. CASE Mark
    <2>1. /\ left' \in [Keys -> Nat]
          /\ at' \in {"scan", "gate"} /\ pool' = IF at' = "gate" THEN pool ELSE None
      BY <1>1, <1>2 DEF Mark, TypeOK
    <2>2. TypeOK'
      BY <1>1, <1>2, <2>1 DEF Mark, TypeOK, robin
    <2>3. Placed'
      BY <1>1, <1>2, <2>1 DEF Mark, Placed, Alive
    <2>4. QED
      BY <2>2, <2>3
  <1>3. CASE MarkFails
    <2>1. faults' \in 0 .. MaxFaults
      BY <1>3, DaemonAssumption DEF MarkFails, CallFails, Fault, TypeOK
    <2>2. left' \in [Keys -> Nat] /\ why' \in [Keys -> Whys \cup {None}]
      BY <1>1, <1>3 DEF MarkFails, TypeOK, Whys
    <2>3. TypeOK'
      BY <1>1, <1>3, <2>1, <2>2 DEF MarkFails, TypeOK, robin
    <2>4. Placed'
      BY <1>1, <1>3 DEF MarkFails, Placed, Alive
    <2>5. QED
      BY <2>3, <2>4
  <1>4. QED
    BY <1>2, <1>3

LEMMA GatePlaced ==
  ASSUME TypeOK, Placed, GateRejects \/ GatePasses \/ ScanEnds \/ LoneHeldBack
  PROVE  TypeOK' /\ Placed'
  <1>1. /\ Mode' = Mode /\ Feed[Mode] \subseteq Pools
        /\ at = "gate" => pool # None
        /\ at = "deliver" => rest = {}
    BY ModeIsMode, FeedIsPools
       DEF GateRejects, GatePasses, ScanEnds, LoneHeldBack, TypeOK, Placed, Mode
  <1>2. CASE GateRejects
    <2>1. why' \in [Keys -> Whys \cup {None}]
      BY <1>2, SettledType DEF GateRejects, Whys
    <2>2. QED
      <3>1. TypeOK'
        BY <1>1, <1>2, <2>1 DEF GateRejects, TypeOK, robin
      <3>2. Placed'
        BY <1>1, <1>2 DEF GateRejects, Placed, Alive
      <3>3. QED
        BY <3>1, <3>2
  <1>3. CASE GatePasses
    <2>1. TypeOK'
      BY <1>1, <1>3 DEF GatePasses, TypeOK, robin
    <2>2. Placed'
      BY <1>1, <1>3 DEF GatePasses, Placed, Alive
    <2>3. QED
      BY <2>1, <2>2
  <1>4. CASE ScanEnds
    BY <1>1, <1>4 DEF ScanEnds, TypeOK, Placed, robin, Alive
  <1>5. CASE LoneHeldBack
    BY <1>1, <1>5 DEF LoneHeldBack, TypeOK, Placed, robin, Alive
  <1>6. QED
    BY <1>2, <1>3, <1>4, <1>5

LEMMA SentPlaced ==
  ASSUME TypeOK, Placed,
         Delivered \/ NotDelivered \/ Unanswered \/ ModeEnds \/ \E p \in Pools : Unmark(p)
  PROVE  TypeOK' /\ Placed'
  <1>1. /\ at = "deliver" \/ at = "unmark" \/ at = "next" => rest = {} /\ pool = None
        /\ at = "next" => hand = {}
        /\ Feed[Mode] \subseteq Pools
    BY ModeIsMode, FeedIsPools DEF TypeOK, Placed
  <1>2. CASE Delivered
    <2>1. why' \in [Keys -> Whys \cup {None}] /\ Mode' = Mode
      BY <1>2, SettledType DEF Delivered, Whys, Mode
    <2>2. QED
      BY <1>1, <1>2, <2>1 DEF Delivered, TypeOK, Placed, robin, Alive
  <1>3. CASE NotDelivered
    <2>1. faults' \in 0 .. MaxFaults /\ Mode' = Mode
      BY <1>3, DaemonAssumption DEF NotDelivered, Cut, Fault, TypeOK, Mode
    <2>2. QED
      BY <1>1, <1>3, <2>1 DEF NotDelivered, TypeOK, Placed, robin, Alive
  <1>4. CASE Unanswered
    <2>1. why' \in [Keys -> Whys \cup {None}]
      BY <1>4, SettledType DEF Unanswered, Whys
    <2>2. faults' \in 0 .. MaxFaults /\ Mode' = Mode
      BY <1>4, DaemonAssumption DEF Unanswered, Cut, Fault, TypeOK, Mode
    <2>3. QED
      BY <1>1, <1>4, <2>1, <2>2 DEF Unanswered, TypeOK, Placed, robin, Alive
  <1>5. CASE ModeEnds
    <2>1. turn' \in 1 .. Len(Order) /\ at' \in {"fetch", "idle"}
      BY <1>5, DaemonAssumption DEF ModeEnds, TypeOK
    <2>2. QED
      BY <1>1, <1>5, <2>1 DEF ModeEnds, TypeOK, Placed, robin, Alive
  <1>6. CASE \E p \in Pools : Unmark(p)
    <2>1. PICK p \in Pools : Unmark(p)
      BY <1>6
    <2>2. /\ Mode' = Mode /\ hand' \subseteq hand
          /\ at' = IF hand = {p} THEN "next" ELSE "unmark"
          /\ hand' # {} => at' = "unmark"
      BY <2>1 DEF Unmark, Mode
    <2>3. /\ left' \in [Keys -> Nat] /\ why' \in [Keys -> Whys \cup {None}]
          /\ faults' \in 0 .. MaxFaults
      <3>1. CASE left' = [left EXCEPT ![Key(p)] = 0] /\ UNCHANGED <<why, faults>>
        BY <3>1 DEF TypeOK
      <3>2. CASE CallFails /\ Settled({Key(p)}, "lost") /\ UNCHANGED left
        BY <3>2, SettledType, DaemonAssumption DEF CallFails, Fault, TypeOK, Whys
      <3>3. QED
        BY <2>1, <3>1, <3>2 DEF Unmark
    <2>4. QED
      BY <1>1, <2>1, <2>2, <2>3 DEF Unmark, TypeOK, Placed, robin, Alive
  <1>7. QED
    BY <1>2, <1>3, <1>4, <1>5, <1>6

LEMMA RobinPlaced ==
  ASSUME TypeOK, Placed,
         RobinSkips \/ RobinCounts \/ RobinDeclines \/ RobinMints \/ RobinTimesOut
  PROVE  TypeOK' /\ Placed'
  <1>1. /\ at \in {"deliver", "mint"} /\ rest = {} /\ pool = None
        /\ Mode' = Mode /\ Feed[Mode] \subseteq Pools
    BY ModeIsMode, FeedIsPools DEF RobinSkips, RobinCounts, RobinDeclines, RobinMints,
       RobinTimesOut, TypeOK, Placed, Mode
  <1>2. ASSUME NEW reason \in Whys, RobinLeaves(reason)
        PROVE  at' = "next" /\ hand' = {} /\ why' \in [Keys -> Whys \cup {None}]
    BY <1>2, SettledType DEF RobinLeaves
  <1>3. "declined" \in Whys /\ "sent" \in Whys
    BY DEF Whys
  <1>4. CASE RobinSkips
    BY <1>1, <1>2, <1>3, <1>4 DEF RobinSkips, TypeOK, Placed, robin, Alive
  <1>5. CASE RobinCounts
    <2>1. CASE RobinFull(open)
      BY <1>1, <1>2, <1>3, <1>5, <2>1 DEF RobinCounts, TypeOK, Placed, robin, Alive
    <2>2. CASE ~RobinFull(open)
      BY <1>1, <1>5, <2>2 DEF RobinCounts, TypeOK, Placed, robin, Alive
    <2>3. QED
      BY <2>1, <2>2
  <1>6. CASE RobinDeclines
    BY <1>1, <1>2, <1>3, <1>6 DEF RobinDeclines, TypeOK, Placed, robin, Alive
  <1>7. CASE RobinMints
    BY <1>1, <1>2, <1>3, <1>7 DEF RobinMints, TypeOK, Placed
  <1>8. CASE RobinTimesOut
    <2>1. faults' \in 0 .. MaxFaults
      BY <1>8, DaemonAssumption DEF RobinTimesOut, Cut, Fault, TypeOK
    <2>2. QED
      BY <1>1, <1>2, <1>3, <1>8, <2>1 DEF RobinTimesOut, TypeOK, Placed, Alive
  <1>9. QED
    BY <1>4, <1>5, <1>6, <1>7, <1>8

LEMMA WorldPlaced ==
  ASSUME TypeOK, Placed, World
  PROVE  TypeOK' /\ Placed'
  <1>1. 1 \in 1 .. Len(Order)
    BY DaemonAssumption
  <1>2. UNCHANGED place => Mode' = Mode
    BY DEF place, Mode
  <1>3. CASE Stops
    BY <1>2, <1>3, DaemonAssumption DEF Stops, Fault, TypeOK, Placed, robin, place
  <1>4. CASE Exits
    BY <1>2, <1>4 DEF Exits, TypeOK, Placed, robin, place
  <1>5. CASE Crashes
    <2>1. why' \in [Keys -> Whys \cup {None}]
      BY <1>5, SettledType DEF Crashes, Whys
    <2>2. faults' \in 0 .. MaxFaults /\ late' \in Nat /\ outlived' \in Nat
      BY <1>5, DaemonAssumption DEF Crashes, Fault, TypeOK
    <2>3. QED
      BY <1>1, <1>5, <2>1, <2>2 DEF Crashes, TypeOK, Placed
  <1>6. CASE Starts
    <2>1. left' \in [Keys -> Nat] /\ why' \in [Keys -> Whys \cup {None}]
      BY <1>6 DEF Starts, TypeOK
    <2>2. QED
      BY <1>2, <1>6, <2>1 DEF Starts, TypeOK, Placed, robin, place
  <1>7. CASE Tick
    <2>1. left' \in [Keys -> Nat]
      BY <1>7 DEF Tick, TypeOK, Seen
    <2>2. why' \in [Keys -> Whys \cup {None}]
      BY <1>7 DEF Tick, TypeOK
    <2>3. QED
      BY <1>2, <1>7, <2>1, <2>2 DEF Tick, TypeOK, Placed, robin, place
  <1>8. CASE \E p \in Pools : Clear(p)
    BY <1>2, <1>8 DEF Clear, TypeOK, Placed, robin, place
  <1>9. CASE RobinCloses \/ RobinLands
    BY <1>2, <1>9 DEF RobinCloses, RobinLands, TypeOK, Placed, place
  <1>10. QED
    BY <1>3, <1>4, <1>5, <1>6, <1>7, <1>8, <1>9 DEF World

LEMMA NextPlaced == ASSUME TypeOK, Placed, [Next]_vars PROVE TypeOK' /\ Placed'
  <1>1. CASE Poll
    BY <1>1, ScanPlaced, MarkPlaced, GatePlaced, SentPlaced, RobinPlaced DEF Poll
  <1>2. CASE World
    BY <1>2, WorldPlaced
  <1>3. CASE UNCHANGED vars
    BY <1>3 DEF vars, place, robin, TypeOK, Placed, Mode
  <1>4. QED
    BY <1>1, <1>2, <1>3 DEF Next

--------------------------------------------------------------------------------
(* The promise, step by step. *)

LEMMA HeldAreKeys == ASSUME TypeOK, Placed PROVE Batch \subseteq Keys /\ Held \subseteq Keys
  <1>1. ASSUME NEW p \in hand PROVE Key(p) \in Keys
    BY KeyIsKey DEF Placed
  <1>2. at = "gate" => Key(pool) \in Keys
    BY KeyIsKey DEF TypeOK, Placed
  <1>3. QED
    BY <1>1, <1>2 DEF Batch, Held

LEMMA Stutters ==
  ASSUME UNCHANGED <<left, why>>, Held' = Held
  PROVE  UNCHANGED <<[k \in Keys |-> Promised(k)], why>>
  BY DEF Promised, Seen

LEMMA TakesUp ==
  ASSUME TypeOK, Reasoned, NEW k \in Keys, k \notin Held, ~Seen(k), NEW n \in Nat \ {0},
         left' = [left EXCEPT ![k] = n], UNCHANGED why, Held' = Held \cup {k}
  PROVE  Promise!Next
  <1>1. Promised(k) = "free" /\ why[k] \in {None, "doubt"}
    BY DEF Promised, Reasoned
  <1>2. ASSUME NEW j \in Keys
        PROVE  Promised(j)' = IF j = k THEN "held" ELSE Promised(j)
    BY DEF Promised, Seen, TypeOK
  <1>3. Promise!Take(k)
    BY <1>1, <1>2 DEF Promise!Take, Promise!Unsettled
  <1>4. QED
    BY <1>3 DEF Promise!Next

LEMMA SlipsAway ==
  ASSUME TypeOK, Reasoned, NEW k \in Keys, k \notin Held, ~Seen(k), NEW n \in Nat \ {0},
         left' = [left EXCEPT ![k] = n], why' = [why EXCEPT ![k] = "lost"], Held' = Held
  PROVE  Promise!Next
  <1>1. Promised(k) = "free" /\ why[k] \in {None, "doubt"}
    BY DEF Promised, Reasoned
  <1>2. ASSUME NEW j \in Keys
        PROVE  Promised(j)' = IF j = k THEN "silent" ELSE Promised(j)
    BY DEF Promised, Seen, TypeOK
  <1>3. Promise!Slip(k)
    BY <1>1, <1>2 DEF Promise!Slip, Promise!Unsettled
  <1>4. QED
    BY <1>3 DEF Promise!Next

LEMMA GivesBack ==
  ASSUME TypeOK, NEW k \in Keys, k \in Held,
         left' = [left EXCEPT ![k] = 0], UNCHANGED why, Held' = Held \ {k}
  PROVE  Promise!Next
  <1>1. Promised(k) \in {"held", "stale"}
    BY DEF Promised
  <1>2. ASSUME NEW j \in Keys
        PROVE  Promised(j)' = IF j = k THEN "free" ELSE Promised(j)
    BY DEF Promised, Seen, TypeOK
  <1>3. Promise!GiveBack(k)
    BY <1>1, <1>2 DEF Promise!GiveBack
  <1>4. QED
    BY <1>3 DEF Promise!Next

LEMMA Settles ==
  ASSUME TypeOK, Reasoned, NEW K \in SUBSET Keys, K \subseteq Held,
         NEW reason \in Whys \ {"doubt"}, Settled(K, reason),
         UNCHANGED left, Held' = Held \ K
  PROVE  Promise!Next
  <1>1. ASSUME NEW k \in K
        PROVE  Promised(k) = (IF Seen(k) THEN "held" ELSE "stale") /\ why[k] \in {None, "doubt"}
    BY DEF Promised, Reasoned
  <1>2. ASSUME NEW k \in Keys
        PROVE  Promised(k)' = IF k \notin K THEN Promised(k)
                              ELSE IF Promised(k) = "held" THEN "silent" ELSE "free"
    BY <1>1 DEF Promised, Seen
  <1>3. why' = [k \in Keys |-> IF k \in K /\ Promised(k) = "held" THEN reason ELSE why[k]]
    BY <1>1 DEF Settled
  <1>4. Promise!Settle(K, reason)
    BY <1>1, <1>2, <1>3 DEF Promise!Settle, Promise!Unsettled
  <1>5. QED
    BY <1>4 DEF Promise!Next, Promise!Whys, Whys

LEMMA Doubts ==
  ASSUME TypeOK, Reasoned, NEW K \in SUBSET Keys, K \subseteq Held, Settled(K, "doubt"),
         UNCHANGED left, Held' = Held
  PROVE  Promise!Next
  <1>1. ASSUME NEW k \in K
        PROVE  Promised(k) = (IF Seen(k) THEN "held" ELSE "stale") /\ why[k] \in {None, "doubt"}
    BY DEF Promised, Reasoned
  <1>2. ASSUME NEW k \in Keys PROVE Promised(k)' = Promised(k)
    BY DEF Promised, Seen
  <1>3. why' = [k \in Keys |-> IF k \in K /\ Promised(k) = "held" THEN "doubt" ELSE why[k]]
    BY <1>1 DEF Settled
  <1>4. Promise!Doubt(K)
    BY <1>1, <1>2, <1>3 DEF Promise!Doubt, Promise!Unsettled
  <1>5. QED
    BY <1>4 DEF Promise!Next

\* The windows of some keys end; a key out of K may lose time but not its mark.
LEMMA Lapses ==
  ASSUME NEW K \in SUBSET Keys,
         \A k \in Keys : Seen(k)' <=> Seen(k) /\ k \notin K,
         why' = [k \in Keys |-> IF k \in K THEN None ELSE why[k]], Held' = Held
  PROVE  Promise!Next
  <1>1. ASSUME NEW k \in Keys
        PROVE  Promised(k)' = IF k \notin K THEN Promised(k)
                              ELSE CASE Promised(k) = "silent" -> "free"
                                     [] Promised(k) = "held" -> "stale"
                                     [] OTHER -> Promised(k)
    BY DEF Promised
  <1>2. Promise!Lapse(K)
    BY <1>1 DEF Promise!Lapse
  <1>3. QED
    BY <1>2 DEF Promise!Next

--------------------------------------------------------------------------------
(* Each action is a step of the promise, or none. *)

KeptStep == [Promise!Next]_<<[k \in Keys |-> Promised(k)], why>>

LEMMA ScanKept ==
  ASSUME TypeOK, Placed, Reasoned,
         \/ PollBegins \/ \E found \in SUBSET Feed[Mode] : Fetch(found)
         \/ \E p \in Pools : Look(p)
         \/ GateRejects \/ GatePasses \/ ScanEnds \/ LoneHeldBack
  PROVE  KeptStep
  <1>1. CASE PollBegins
    <2>1. Held' = Held /\ UNCHANGED <<left, why>>
      BY <1>1 DEF PollBegins, TypeOK, Held, Batch
    <2>2. QED
      BY <2>1, Stutters DEF KeptStep
  <1>2. CASE \E found \in SUBSET Feed[Mode] : Fetch(found)
    <2>1. Held' = Held /\ UNCHANGED <<left, why>>
      BY <1>2 DEF Fetch, TypeOK, Held, Batch
    <2>2. QED
      BY <2>1, Stutters DEF KeptStep
  <1>3. CASE \E p \in Pools : Look(p)
    <2>1. Held' = Held /\ UNCHANGED <<left, why>>
      BY <1>3 DEF Look, Held, Batch, Key, Mode
    <2>2. QED
      BY <2>1, Stutters DEF KeptStep
  <1>4. CASE GateRejects
    <2>1. /\ Key(pool) \in Held /\ {Key(pool)} \in SUBSET Keys
          /\ Batch' = Batch /\ at' = "scan"
      BY <1>4, HeldAreKeys DEF GateRejects, Held, Batch, Key, Mode
    <2>2. Key(pool) \notin Batch
      BY <1>4, KeysDiffer DEF GateRejects, TypeOK, Placed, Batch
    <2>3. Held' = Held \ {Key(pool)}
      BY <1>4, <2>1, <2>2 DEF GateRejects, Held
    <2>4. QED
      BY <1>4, <2>1, <2>3, Settles DEF GateRejects, KeptStep, Whys
  <1>5. CASE GatePasses
    <2>1. Batch' = Batch \cup {Key(pool)}
      BY <1>5 DEF GatePasses, Batch, Key, Mode
    <2>2. Held' = Held /\ UNCHANGED <<left, why>>
      BY <1>5, <2>1 DEF GatePasses, Held
    <2>3. QED
      BY <2>2, Stutters DEF KeptStep
  <1>6. CASE ScanEnds \/ LoneHeldBack
    <2>1. Held' = Held /\ UNCHANGED <<left, why>>
      BY <1>6 DEF ScanEnds, LoneHeldBack, Held, Batch, Key, Mode
    <2>2. QED
      BY <2>1, Stutters DEF KeptStep
  <1>7. QED
    BY <1>1, <1>2, <1>3, <1>4, <1>5, <1>6

LEMMA MarkKept ==
  ASSUME TypeOK, Placed, Reasoned, Mark \/ MarkFails
  PROVE  KeptStep
  <1>1. /\ at = "mark" /\ Mode' = Mode /\ UNCHANGED hand /\ pool # None
        /\ Key(pool) \in Keys /\ Window[Mode] \in Nat \ {0}
    BY ModeIsMode, KeyIsKey, DaemonAssumption DEF Mark, MarkFails, TypeOK, Placed, Mode
  <1>2. Key(pool) \notin Held /\ Held = Batch /\ Batch' = Batch
    BY <1>1, KeysDiffer DEF Placed, Held, Batch, Key
  <1>3. CASE Mark /\ ~Seen(Key(pool))
    <2>1. Held' = Held \cup {Key(pool)}
      BY <1>1, <1>2, <1>3 DEF Mark, Held, Key
    <2>2. QED
      BY <1>1, <1>2, <1>3, <2>1, TakesUp DEF Mark, KeptStep
  <1>4. CASE Mark /\ Seen(Key(pool))
    <2>1. Held' = Held /\ UNCHANGED <<left, why>>
      BY <1>2, <1>4 DEF Mark, Held
    <2>2. QED
      BY <2>1, Stutters DEF KeptStep
  <1>5. CASE MarkFails
    <2>1. Held' = Held
      BY <1>2, <1>5 DEF MarkFails, Held
    <2>2. CASE UNCHANGED <<left, why>>
      BY <2>1, <2>2, Stutters DEF KeptStep
    <2>3. CASE /\ ~Seen(Key(pool))
               /\ left' = [left EXCEPT ![Key(pool)] = Window[Mode]]
               /\ why' = [why EXCEPT ![Key(pool)] = "lost"]
      BY <1>1, <1>2, <2>1, <2>3, SlipsAway DEF KeptStep
    <2>4. QED
      BY <1>5, <2>2, <2>3 DEF MarkFails
  <1>6. QED
    BY <1>3, <1>4, <1>5

LEMMA SentKept ==
  ASSUME TypeOK, Placed, Reasoned,
         Delivered \/ NotDelivered \/ Unanswered \/ ModeEnds \/ \E p \in Pools : Unmark(p)
  PROVE  KeptStep
  <1>1. at # "gate" /\ Held = Batch /\ Batch \in SUBSET Keys
    BY HeldAreKeys DEF Delivered, NotDelivered, Unanswered, ModeEnds, Unmark, Held
  <1>2. CASE Delivered
    <2>1. Held' = Held \ Batch
      BY <1>1, <1>2 DEF Delivered, Held, Batch
    <2>2. QED
      BY <1>1, <1>2, <2>1, Settles DEF Delivered, KeptStep, Whys
  <1>3. CASE NotDelivered
    <2>1. Held' = Held /\ UNCHANGED <<left, why>>
      BY <1>3 DEF NotDelivered, Held, Batch, Key, Mode
    <2>2. QED
      BY <2>1, Stutters DEF KeptStep
  <1>4. CASE Unanswered
    <2>1. Held' = Held
      BY <1>4 DEF Unanswered, Held, Batch, Key, Mode
    <2>2. QED
      BY <1>1, <1>4, <2>1, Doubts DEF Unanswered, KeptStep
  <1>5. CASE ModeEnds
    <2>1. Held' = Held /\ UNCHANGED <<left, why>>
      BY <1>5 DEF ModeEnds, TypeOK, Held, Batch
    <2>2. QED
      BY <2>1, Stutters DEF KeptStep
  <1>6. CASE \E p \in Pools : Unmark(p)
    <2>1. PICK p \in Pools : Unmark(p)
      BY <1>6
    <2>2. Key(p) \in Held /\ Key(p) \in Keys
      BY <1>1, <2>1 DEF Unmark, Batch
    <2>3. Held' = Held \ {Key(p)}
      BY <1>1, <2>1, KeysDiffer DEF Unmark, Held, Batch, Key, Mode
    <2>4. CASE left' = [left EXCEPT ![Key(p)] = 0] /\ UNCHANGED why
      BY <2>2, <2>3, <2>4, GivesBack DEF KeptStep
    <2>5. CASE Settled({Key(p)}, "lost") /\ UNCHANGED left
      BY <2>2, <2>3, <2>5, Settles DEF KeptStep, Whys
    <2>6. QED
      BY <2>1, <2>4, <2>5 DEF Unmark
  <1>7. QED
    BY <1>2, <1>3, <1>4, <1>5, <1>6

LEMMA RobinKept ==
  ASSUME TypeOK, Placed, Reasoned,
         RobinSkips \/ RobinCounts \/ RobinDeclines \/ RobinMints \/ RobinTimesOut
  PROVE  KeptStep
  <1>1. /\ at # "gate" /\ Held = Batch /\ Batch \in SUBSET Keys /\ UNCHANGED left
    BY HeldAreKeys
       DEF RobinSkips, RobinCounts, RobinDeclines, RobinMints, RobinTimesOut, Held
  <1>2. ASSUME NEW reason \in Whys \ {"doubt"}, RobinLeaves(reason)
        PROVE  KeptStep
    <2>1. Held' = Held \ Batch
      BY <1>1, <1>2 DEF RobinLeaves, Held, Batch
    <2>2. QED
      BY <1>1, <1>2, <2>1, Settles DEF RobinLeaves, KeptStep
  <1>3. CASE RobinLeaves("declined") \/ RobinLeaves("sent")
    BY <1>2, <1>3 DEF Whys
  <1>4. CASE RobinCounts /\ ~RobinFull(open)
    <2>1. Held' = Held /\ UNCHANGED <<left, why>>
      BY <1>1, <1>4 DEF RobinCounts, Held, Batch, Key, Mode
    <2>2. QED
      BY <2>1, Stutters DEF KeptStep
  <1>5. QED
    BY <1>3, <1>4 DEF RobinSkips, RobinCounts, RobinDeclines, RobinMints, RobinTimesOut

LEMMA WorldKept ==
  ASSUME TypeOK, Placed, Reasoned, World
  PROVE  KeptStep
  <1>1. UNCHANGED place => Held' = Held
    BY DEF place, Held, Batch, Key, Mode
  <1>2. CASE Stops \/ Exits \/ RobinCloses \/ RobinLands
    <2>1. Held' = Held /\ UNCHANGED <<left, why>>
      BY <1>1, <1>2 DEF Stops, Exits, RobinCloses, RobinLands
    <2>2. QED
      BY <2>1, Stutters DEF KeptStep
  <1>3. CASE Crashes
    <2>1. Held \in SUBSET Keys /\ Held' = Held \ Held
      BY <1>3, HeldAreKeys DEF Crashes, Held, Batch
    <2>2. QED
      BY <1>3, <2>1, Settles DEF Crashes, KeptStep, Whys
  <1>4. CASE Starts
    <2>1. Held' = Held
      BY <1>1, <1>4 DEF Starts
    <2>2. CASE UNCHANGED <<left, why>>
      BY <2>1, <2>2, Stutters DEF KeptStep
    <2>3. CASE left' = [k \in Keys |-> 0] /\ why' = [k \in Keys |-> None]
      <3>1. \A k \in Keys : Seen(k)' <=> Seen(k) /\ k \notin Keys
        BY <2>3 DEF Seen
      <3>2. why' = [k \in Keys |-> IF k \in Keys THEN None ELSE why[k]]
        BY <2>3
      <3>3. QED
        BY <2>1, <3>1, <3>2, Lapses DEF KeptStep
    <2>4. QED
      BY <1>4, <2>2, <2>3 DEF Starts
  <1>5. CASE Tick
    <2> DEFINE K == {k \in Keys : left[k] = 1}
    <2>1. Held' = Held
      BY <1>1, <1>5 DEF Tick
    <2>2. \A k \in Keys : Seen(k)' <=> Seen(k) /\ k \notin K
      BY <1>5 DEF Tick, Seen, TypeOK
    <2>3. why' = [k \in Keys |-> IF k \in K THEN None ELSE why[k]]
      BY <1>5 DEF Tick
    <2>4. QED
      BY <2>1, <2>2, <2>3, Lapses DEF KeptStep
  <1>6. CASE \E p \in Pools : Clear(p)
    <2>1. PICK p \in Pools : Clear(p)
      BY <1>6
    <2> DEFINE K == {k \in Keys : k[1] \in Solana /\ k[2] = p}
    <2>2. Held' = Held
      BY <1>1, <2>1 DEF Clear
    <2>3. \A k \in Keys : Seen(k)' <=> Seen(k) /\ k \notin K
      BY <2>1 DEF Clear, Seen
    <2>4. why' = [k \in Keys |-> IF k \in K THEN None ELSE why[k]]
      BY <2>1 DEF Clear
    <2>5. QED
      BY <2>2, <2>3, <2>4, Lapses DEF KeptStep
  <1>7. QED
    BY <1>2, <1>3, <1>4, <1>5, <1>6 DEF World

LEMMA NextKept == ASSUME TypeOK, Placed, Reasoned, [Next]_vars PROVE KeptStep
  <1>1. CASE Poll
    BY <1>1, ScanKept, MarkKept, SentKept, RobinKept DEF Poll
  <1>2. CASE World
    BY <1>2, WorldKept
  <1>3. CASE UNCHANGED vars
    <2>1. Held' = Held /\ UNCHANGED <<left, why>>
      BY <1>3 DEF vars, place, Held, Batch, Key, Mode
    <2>2. QED
      BY <2>1, Stutters DEF KeptStep
  <1>4. QED
    BY <1>1, <1>2, <1>3 DEF Next

--------------------------------------------------------------------------------
(* The invariant. *)

\* Reasoned says that what is silent is settled, and nothing else.
LEMMA SilentIsSettled ==
  Reasoned <=> \A k \in Keys : why[k] \in {None, "doubt"} <=> Promised(k) # "silent"
  BY DEF Reasoned, Promised

\* The steps of the promise keep it so.
LEMMA PromiseReasoned ==
  ASSUME TypeOK, Reasoned, KeptStep PROVE Reasoned'
  <1> DEFINE Out(k) == why[k] \notin {None, "doubt"}
  <1>1. SUFFICES \A k \in Keys : Out(k)' <=> Promised(k)' = "silent"
    BY SilentIsSettled DEF Reasoned, Promised
  <1>2. \A k \in Keys : Out(k) <=> Promised(k) = "silent"
    BY SilentIsSettled
  <1>3. \A k \in Keys : [j \in Keys |-> Promised(j)][k] = Promised(k)
    OBVIOUS
  <1>4. \A k \in Keys : [j \in Keys |-> Promised(j)'][k] = Promised(k)'
    OBVIOUS
  <1> HIDE DEF Out
  <1>5. CASE UNCHANGED <<[k \in Keys |-> Promised(k)], why>>
    BY <1>2, <1>5 DEF Out
  <1>6. CASE \E k \in Keys : Promise!Take(k)
    BY <1>2, <1>6 DEF Promise!Take, Promise!Unsettled, Out
  <1>7. CASE \E k \in Keys : Promise!GiveBack(k)
    BY <1>2, <1>7 DEF Promise!GiveBack, Out
  <1>8. CASE \E k \in Keys : Promise!Slip(k)
    BY <1>2, <1>8, DaemonAssumption DEF Promise!Slip, Out, TypeOK
  <1>9. CASE \E K \in SUBSET Keys : Promise!Lapse(K)
    BY <1>2, <1>9 DEF Promise!Lapse, Out
  <1>10. CASE \E K \in SUBSET Keys : Promise!Doubt(K)
    BY <1>2, <1>10 DEF Promise!Doubt, Promise!Unsettled, Out
  <1>11. CASE \E K \in SUBSET Keys, reason \in Whys \ {"doubt"} : Promise!Settle(K, reason)
    BY <1>2, <1>11, WhysAreReasons DEF Promise!Settle, Promise!Unsettled, Out
  <1>12. QED
    BY <1>5, <1>6, <1>7, <1>8, <1>9, <1>10, <1>11
       DEF KeptStep, Promise!Next, Promise!Whys, Whys

LEMMA NextCounted == ASSUME TypeOK, Counted, [Next]_vars PROVE Counted'
  <1> USE DaemonAssumption DEF TypeOK, Counted, CapHeld
  <1>1. CASE RobinCounts
    BY <1>1 DEF RobinCounts, RobinFull, RobinLeaves, robin
  <1>2. CASE RobinMints
    BY <1>2 DEF RobinMints, RobinLeaves
  <1>3. CASE RobinTimesOut
    BY <1>3 DEF RobinTimesOut, RobinLeaves
  <1>4. CASE Crashes
    BY <1>4 DEF Crashes
  <1>5. CASE RobinCloses
    BY <1>5 DEF RobinCloses, place
  <1>6. CASE RobinLands
    BY <1>6 DEF RobinLands, place
  <1>7. CASE UNCHANGED robin /\ (at' = at \/ at' # "mint")
    BY <1>7 DEF robin
  <1>8. CASE Poll /\ ~RobinCounts /\ ~RobinMints /\ ~RobinTimesOut
    <2>1. UNCHANGED robin /\ (at' = at \/ at' # "mint")
      BY <1>8 DEF Poll, PollBegins, Fetch, Look, Mark, MarkFails, GateRejects, GatePasses,
         ScanEnds, LoneHeldBack, Delivered, NotDelivered, Unanswered, Unmark, ModeEnds,
         RobinSkips, RobinDeclines, RobinLeaves
    <2>2. QED
      BY <2>1, <1>7
  <1>9. CASE Stops \/ Exits \/ Starts \/ Tick \/ (\E p \in Pools : Clear(p))
    BY <1>7, <1>9 DEF Stops, Exits, Starts, Tick, Clear, place
  <1>10. CASE UNCHANGED vars
    BY <1>7, <1>10 DEF vars, place
  <1>11. QED
    BY <1>1, <1>2, <1>3, <1>4, <1>5, <1>6, <1>8, <1>9, <1>10 DEF Next, World

LEMMA InitInv == ASSUME Init PROVE Inv
  <1>1. Reasoned
    BY DEF Init, Reasoned, Seen
  <1>2. Counted
    BY DaemonAssumption DEF Init, Counted, CapHeld
  <1>3. QED
    BY <1>1, <1>2, InitPlaced DEF Inv

LEMMA NextInv == ASSUME Inv, [Next]_vars PROVE Inv'
  BY NextPlaced, NextKept, PromiseReasoned, NextCounted DEF Inv

\* The inductive invariant: types, what a key's window leaves of its reason, and open mints
\* counted against the cap (scanner.go poll).
THEOREM Invariance == Spec => []Inv
  BY InitInv, NextInv, PTL DEF Spec

--------------------------------------------------------------------------------
(* What the runs check on an instance. *)

\* Every variable keeps its type, and a batch or a pool is held only where the poll has one.
THEOREM TypesHold == Spec => []TypeOK
  BY Invariance, PTL DEF Inv

\* Whatever is silent and not in the daemon's hands was signalled, rejected or declined, or
\* a fault lost it (scanner.go 442-450, 521-529, 600-622).
THEOREM SilenceHasAReason == Spec => []SilentForAReason
  <1>1. Inv => SilentForAReason
    BY DEF Inv, Reasoned, SilentForAReason
  <1>2. QED
    BY <1>1, Invariance, PTL

\* Robinhood positions and landing deploys pass the cap by the deploys that outlived their
\* timeout and by no more (scanner.go 231-250).
THEOREM CapHolds == Spec => []CapHeld
  <1>1. Inv => CapHeld
    BY DEF Inv, Counted
  <1>2. QED
    BY <1>1, Invariance, PTL

\* The daemon implements SignalPromise: its first state is a first state of the promise, and
\* each of its steps is a step of the promise or none (store.go 14-16; scanner.go 507-628).
THEOREM PromiseIsKept == Spec => KeepsPromise
  <1>1. Init => Promise!Init
    BY DEF Init, Promise!Init, Promised, Held, Batch, Seen
  <1>2. Inv /\ [Next]_vars => [Promise!Next]_<<[k \in Keys |-> Promised(k)], why>>
    BY NextKept DEF Inv, KeptStep
  <1>3. QED
    BY <1>1, <1>2, Invariance, PTL DEF Spec, KeepsPromise, Promise!Spec
================================================================================
