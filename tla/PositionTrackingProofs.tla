------------------------- MODULE PositionTrackingProofs -------------------------
(***************************************************************************)
(* What holds of the tracked set, the metadata and the accounts for any    *)
(* number of addresses, endpoints, chunks, slots and monitor processes.    *)
(***************************************************************************)
EXTENDS PositionTracking, TLAPS

USE DEF Outcomes

--------------------------------------------------------------------------------
(* The inductive invariant. *)

\* Whoever works on an account knows its address; what a tick will write back is metadata.
Addressed ==
  /\ Deploying => ex.addr \in Addrs /\ ex.added < Chunks
  /\ ex.step \in {"success", "orphan"} => ex.addr \in Addrs
  /\ pl.step \in {"set", "add", "orphan", "orphan_set"} => pl.addr \in Addrs
  /\ \A p \in Runs : /\ mon[p].step # "idle" => mon[p].addr \in Addrs
                     /\ mon[p].step = "decide" => mon[p].local # None

\* Nobody but the executor knows of an account that is not minted.
Unborn(a) ==
  /\ chain[a] = "absent" /\ api[a] = "absent"
  /\ a \notin active /\ meta[a] = None /\ pl.addr # a
  /\ \A p \in Runs : mon[p].addr = a => /\ mon[p].step \in {"fetch", "refresh"}
                                        /\ mon[p].tracked = FALSE
                                        /\ mon[p].local = None

MintsUnborn == ex.step \in {"send", "mint"} => Unborn(ex.addr)

\* Metadata two hours old, in Redis or read by a pass.
Aged(a) == \/ meta[a] # None /\ meta[a].old
           \/ \E p \in Runs : /\ mon[p].addr = a
                              /\ mon[p].local # None /\ mon[p].local.old

\* Every answer of the API anybody still holds lists a.
EverywhereListed(a) == /\ api[a] # "absent"
                       /\ pl.listed # None => a \in pl.listed
                       /\ \A p \in Runs : mon[p].addr = a => mon[p].view \notin Gone

\* Two hours are longer than the API's lag, and what is listed stays listed while it is open.
AgedIsListed == \A a \in Addrs : chain[a] # "absent" /\ Aged(a) => EverywhereListed(a)

TInv == TypeOK /\ Addressed /\ MintsUnborn /\ AgedIsListed

--------------------------------------------------------------------------------
(* Types and addresses. *)

LEMMA InitTypes == Init => TypeOK /\ Addressed
  BY TrackingAssumption
  DEF Init, TypeOK, Addressed, Accounts, DeployCalls, Pipelines, Passes, Views,
      ExIdle, PlIdle, MonIdle, Deploying

\* What the deploy call, the pipeline and a pass may do.
DeployAddressed == /\ Deploying => ex.addr \in Addrs /\ ex.added < Chunks
                   /\ ex.step \in {"success", "orphan"} => ex.addr \in Addrs
PassAddressed(m) == /\ m.step # "idle" => m.addr \in Addrs
                    /\ m.step = "decide" => m.local # None

LEMMA DeployFrame ==
  ASSUME TypeOK, Addressed, UNCHANGED <<api, active, meta, pl, mon>>,
         chain' \in [Addrs -> Accounts], ex' \in DeployCalls, DeployAddressed'
  PROVE  TypeOK' /\ Addressed'
  BY DEF TypeOK, Addressed, DeployAddressed

LEMMA PassFrame ==
  ASSUME TypeOK, Addressed, NEW p \in Runs, NEW m \in Passes, PassAddressed(m),
         mon' = [mon EXCEPT ![p] = m], UNCHANGED <<api, ex, pl>>,
         chain' \in [Addrs -> Accounts], active' \subseteq Addrs,
         meta' \in [Addrs -> Metadata \cup {None}]
  PROVE  TypeOK' /\ Addressed'
  BY DEF TypeOK, Addressed, PassAddressed, Deploying

LEMMA AnswerTypes ==
  ASSUME TypeOK, Addressed, Deploying, NEW step \in {"success", "orphan", "failed"},
         Answer(step)
  PROVE  ex' \in DeployCalls /\ DeployAddressed'
<1>1. ExIdle \in DeployCalls
  BY TrackingAssumption DEF ExIdle, DeployCalls
<1>2. ex.addr \in Addrs
  BY DEF Addressed
<1>3. [ExIdle EXCEPT !.step = step, !.addr = ex.addr] \in DeployCalls
  BY <1>1, <1>2 DEF DeployCalls
<1>4. CASE pl.step = "await"
  BY <1>2, <1>3, <1>4 DEF Answer, ExIdle, DeployAddressed, Deploying
<1>5. CASE pl.step # "await"
  BY <1>1, <1>5 DEF Answer, ExIdle, DeployAddressed, Deploying
<1> QED
  BY <1>4, <1>5

LEMMA RethrowTypes ==
  ASSUME TypeOK, Addressed, Deploying, Rethrow
  PROVE  ex' \in DeployCalls /\ DeployAddressed'
<1>1. CASE ex.tries > 1 /\ Retryable # {}
  <2>1. PICK b \in Addrs : ex' = [ex EXCEPT !.addr = b, !.tries = @ - 1]
    BY <1>1 DEF Rethrow, Retryable, Retry
  <2>2. ex \in DeployCalls /\ ex.tries - 1 \in 0 .. Rpcs
    BY <1>1, TrackingAssumption DEF TypeOK, DeployCalls
  <2>3. ex' \in DeployCalls
    BY <2>1, <2>2 DEF DeployCalls
  <2>4. ex'.added = ex.added /\ ex'.step = ex.step /\ ex'.addr = b
    BY <2>1, <2>2 DEF DeployCalls
  <2> QED
    BY <2>3, <2>4 DEF Addressed, Deploying, DeployAddressed
<1>2. CASE ~(ex.tries > 1 /\ Retryable # {})
  BY <1>2, AnswerTypes DEF Rethrow
<1> QED
  BY <1>1, <1>2

LEMMA DeployTypes ==
  ASSUME TypeOK, Addressed, DeployStep
  PROVE  TypeOK' /\ Addressed'
<1>1. ASSUME Deploying PROVE ex \in DeployCalls /\ ex.addr \in Addrs /\ ex.added \in Nat
                             /\ ex.added < Chunks
  BY <1>1, TrackingAssumption DEF TypeOK, Addressed, DeployCalls
<1>2. ASSUME NEW o \in Outcomes, SendNarrow(o) PROVE TypeOK' /\ Addressed'
  <2>1. Deploying /\ chain' \in [Addrs -> Accounts]
    BY <1>2 DEF SendNarrow, Deploying, TypeOK, Accounts
  <2>2. ex' \in DeployCalls /\ DeployAddressed'
    BY <1>2, <2>1, AnswerTypes, RethrowTypes DEF SendNarrow
  <2> QED
    BY <1>2, <2>1, <2>2, DeployFrame DEF SendNarrow
<1>3. ASSUME NEW o \in Outcomes, MintWide(o) PROVE TypeOK' /\ Addressed'
  <2>1. Deploying /\ chain' \in [Addrs -> Accounts]
    BY <1>3 DEF MintWide, Deploying, TypeOK, Accounts
  <2>2. CASE o = "confirmed"
    <3>1. ex' = [ex EXCEPT !.step = "add"]
      BY <1>3, <2>2 DEF MintWide
    <3>2. ex' \in DeployCalls /\ DeployAddressed'
      BY <1>1, <2>1, <3>1 DEF DeployCalls, DeployAddressed, Deploying
    <3> QED
      BY <1>3, <2>1, <3>2, DeployFrame DEF MintWide
  <2>3. CASE o # "confirmed"
    <3>1. ex' \in DeployCalls /\ DeployAddressed'
      BY <1>3, <2>1, <2>3, RethrowTypes DEF MintWide
    <3> QED
      BY <1>3, <2>1, <3>1, DeployFrame DEF MintWide
  <2> QED
    BY <2>2, <2>3
<1>4. ASSUME NEW o \in Outcomes, AddChunk(o) PROVE TypeOK' /\ Addressed'
  <2>1. Deploying /\ chain' \in [Addrs -> Accounts]
    BY <1>4 DEF AddChunk, Deploying, TypeOK, Accounts
  <2>2. ex \in DeployCalls /\ ex.addr \in Addrs /\ ex.added \in Nat /\ ex.added < Chunks
    BY <1>1, <2>1
  <2>3. CASE o # "confirmed"
    <3>1. ex' \in DeployCalls /\ DeployAddressed'
      BY <1>4, <2>2, <2>3 DEF AddChunk, DeployCalls, DeployAddressed, Deploying
    <3> QED
      BY <1>4, <2>1, <3>1, DeployFrame DEF AddChunk
  <2>4. CASE o = "confirmed" /\ ex.added + 1 = Chunks
    <3>1. ex' \in DeployCalls /\ DeployAddressed'
      BY <1>4, <2>1, <2>4, AnswerTypes DEF AddChunk
    <3> QED
      BY <1>4, <2>1, <3>1, DeployFrame DEF AddChunk
  <2>5. CASE o = "confirmed" /\ ex.added + 1 # Chunks
    <3>1. ex' = [ex EXCEPT !.added = @ + 1]
      BY <1>4, <2>5 DEF AddChunk
    <3>2. ex.added + 1 \in 0 .. Chunks /\ ex.added + 1 < Chunks
      BY <2>2, <2>5, TrackingAssumption
    <3>3. ex' \in DeployCalls /\ DeployAddressed'
      BY <2>2, <3>1, <3>2 DEF DeployCalls, DeployAddressed, Deploying
    <3> QED
      BY <1>4, <2>1, <3>3, DeployFrame DEF AddChunk
  <2> QED
    BY <2>3, <2>4, <2>5
<1>5. ASSUME NEW o \in Outcomes, CleanUp(o) PROVE TypeOK' /\ Addressed'
  <2>1. Deploying /\ ex.addr \in Addrs
    BY <1>1, <1>5 DEF CleanUp, Deploying
  <2>2. chain' \in [Addrs -> Accounts]
    BY <1>5, <2>1 DEF CleanUp, TypeOK, Accounts
  <2>3. ex' \in DeployCalls /\ DeployAddressed'
    BY <1>5, <2>1, AnswerTypes DEF CleanUp
  <2> QED
    BY <1>5, <2>2, <2>3, DeployFrame DEF CleanUp
<1>6. ASSUME ExecutorDies PROVE TypeOK' /\ Addressed'
  <2>1. ex' \in DeployCalls /\ DeployAddressed'
    BY <1>6, TrackingAssumption
    DEF ExecutorDies, ExIdle, DeployCalls, DeployAddressed, Deploying
  <2> QED
    BY <1>6, <2>1, DeployFrame DEF ExecutorDies, TypeOK
<1> QED
  BY <1>2, <1>3, <1>4, <1>5, <1>6 DEF DeployStep

LEMMA PipelineFrame ==
  ASSUME TypeOK, Addressed, UNCHANGED <<chain, api, mon>>, active' \subseteq Addrs,
         meta' \in [Addrs -> Metadata \cup {None}],
         ex' \in DeployCalls, DeployAddressed', pl' \in Pipelines,
         pl'.step \in {"set", "add", "orphan", "orphan_set"} => pl'.addr \in Addrs
  PROVE  TypeOK' /\ Addressed'
  BY DEF TypeOK, Addressed, DeployAddressed

LEMMA PipelineTypes ==
  ASSUME TypeOK, Addressed, PipelineWork \/ PipelineKilled
  PROVE  TypeOK' /\ Addressed'
<1>1. /\ PlIdle \in Pipelines /\ ExIdle \in DeployCalls /\ pl \in Pipelines
      /\ ex \in DeployCalls /\ DeployAddressed
      /\ active \subseteq Addrs /\ meta \in [Addrs -> Metadata \cup {None}]
  BY TrackingAssumption
  DEF PlIdle, Pipelines, ExIdle, DeployCalls, TypeOK, Addressed, DeployAddressed
<1>2. UNCHANGED ex => ex' \in DeployCalls /\ DeployAddressed'
  BY <1>1 DEF DeployAddressed, Deploying
<1>3. ex' = ExIdle => ex' \in DeployCalls /\ DeployAddressed'
  BY <1>1 DEF DeployAddressed, Deploying, ExIdle
<1>4. /\ Managed \in Metadata /\ Orphan \in Metadata
      /\ pl.step \in {"set", "add", "orphan", "orphan_set"} => pl.addr \in Addrs
  BY DEF Managed, Orphan, Metadata, Addressed
<1>5. CASE PipelineStart
  <2>1. PICK l \in {Listed, None} : pl' = [PlIdle EXCEPT !.step = "reconcile", !.listed = l]
    BY <1>5 DEF PipelineStart
  <2>2. pl' \in Pipelines /\ pl'.step = "reconcile"
    BY <2>1 DEF PlIdle, Pipelines, Listed
  <2> QED
    BY <1>1, <1>2, <1>5, <2>2, PipelineFrame DEF PipelineStart
<1>6. CASE PipelineReconcile
  <2>1. active' \subseteq Addrs /\ meta' \in [Addrs -> Metadata \cup {None}]
    BY <1>1, <1>6 DEF PipelineReconcile
  <2>2. pl' \in Pipelines /\ pl'.step \in {"pick", "idle"}
    BY <1>6 DEF PipelineReconcile, PlIdle, Pipelines
  <2> QED
    BY <1>2, <1>6, <2>1, <2>2, PipelineFrame DEF PipelineReconcile
<1>7. ASSUME NEW a \in Addrs, NEW wide \in BOOLEAN, NEW seen, PipelinePick(a, wide, seen)
      PROVE TypeOK' /\ Addressed'
  <2>1. ex' \in DeployCalls /\ DeployAddressed'
    BY <1>7, TrackingAssumption
    DEF PipelinePick, StartDeploy, DeployCalls, DeployAddressed, Deploying
  <2>2. pl' \in Pipelines /\ pl'.step = "await"
    BY <1>7 DEF PipelinePick, PlIdle, Pipelines
  <2> QED
    BY <1>1, <1>7, <2>1, <2>2, PipelineFrame DEF PipelinePick
<1>8. CASE PipelineAnswer
  <2>1. pl' \in Pipelines /\ pl'.step \in {"set", "orphan"} => pl'.addr \in Addrs
    BY <1>1, <1>8 DEF PipelineAnswer, PlIdle, Pipelines, DeployAddressed
  <2>2. pl' \in Pipelines /\ pl'.step \in {"set", "orphan", "idle"}
    BY <1>1, <1>8 DEF PipelineAnswer, PlIdle, Pipelines, DeployAddressed
  <2> QED
    BY <1>1, <1>3, <1>8, <2>1, <2>2, PipelineFrame DEF PipelineAnswer
<1>9. CASE PipelineSet
  <2>1. pl' \in Pipelines /\ pl'.addr = pl.addr
    BY <1>1, <1>9 DEF PipelineSet, Pipelines
  <2> QED
    BY <1>1, <1>2, <1>4, <1>9, <2>1, PipelineFrame DEF PipelineSet
<1>10. CASE PipelineAdd
  BY <1>1, <1>2, <1>4, <1>10, PipelineFrame DEF PipelineAdd, PlIdle
<1>11. CASE OrphanAdd
  <2>1. pl' \in Pipelines /\ pl'.addr = pl.addr
    BY <1>1, <1>11 DEF OrphanAdd, Pipelines
  <2> QED
    BY <1>1, <1>2, <1>4, <1>11, <2>1, PipelineFrame DEF OrphanAdd
<1>12. CASE OrphanSet
  BY <1>1, <1>2, <1>4, <1>12, PipelineFrame DEF OrphanSet, PlIdle
<1>13. CASE PipelineKilled
  BY <1>1, <1>2, <1>3, <1>13, PipelineFrame DEF PipelineKilled, PlIdle
<1> QED
  BY <1>5, <1>6, <1>7, <1>8, <1>9, <1>10, <1>11, <1>12, <1>13 DEF PipelineWork

LEMMA PassTypes ==
  ASSUME TypeOK, Addressed, NEW p \in Runs,
         PassWork(p) \/ \E a \in Addrs : PassBegin(p, a)
  PROVE  TypeOK' /\ Addressed'
<1>1. /\ mon[p] \in Passes /\ PassAddressed(mon[p])
      /\ MonIdle \in Passes /\ PassAddressed(MonIdle)
      /\ chain \in [Addrs -> Accounts] /\ active \subseteq Addrs
      /\ meta \in [Addrs -> Metadata \cup {None}]
  BY DEF TypeOK, Addressed, PassAddressed, MonIdle, Passes, Views
\* A step label other than "decide" keeps the record a pass at an address.
<1>2. ASSUME NEW label \in {"adopt", "refresh", "main", "ghost", "closing"},
             mon[p].step # "idle", Goto(p, label)
      PROVE  \E m \in Passes : PassAddressed(m) /\ mon' = [mon EXCEPT ![p] = m]
  <2> DEFINE m == [mon[p] EXCEPT !.step = label]
  <2>1. m \in Passes /\ PassAddressed(m)
    BY <1>1, <1>2 DEF Passes, PassAddressed
  <2>2. mon' = [mon EXCEPT ![p] = m]
    BY <1>2 DEF Goto
  <2> QED
    BY <2>1, <2>2
<1>3. ASSUME Leave(p) PROVE \E m \in Passes : PassAddressed(m) /\ mon' = [mon EXCEPT ![p] = m]
  BY <1>1, <1>3 DEF Leave
<1>4. /\ Managed \in Metadata
      /\ mon[p].step # "idle" => It(p) \in Addrs
      /\ mon[p].local \in Metadata \cup {None}
      /\ {"absent", "empty", "funded"} \subseteq Accounts
  BY <1>1 DEF Managed, Metadata, PassAddressed, It, Passes, Accounts
<1>5. ASSUME NEW a \in Addrs, PassBegin(p, a) PROVE TypeOK' /\ Addressed'
  <2> DEFINE tracked == a \in active
             m == [MonIdle EXCEPT !.step = "fetch", !.addr = a, !.tracked = tracked]
  <2>1. tracked \in BOOLEAN
    OBVIOUS
  <2>2. mon' = [mon EXCEPT ![p] = m]
    BY <1>5, Zenon DEF PassBegin
  <2> HIDE DEF tracked
  <2>3. m \in Passes /\ PassAddressed(m)
    BY <2>1 DEF MonIdle, Passes, PassAddressed, Views
  <2> QED
    BY <1>1, <1>5, <2>2, <2>3, PassFrame DEF PassBegin
<1>6. ASSUME NEW view \in Views, Fetch(p, view) PROVE TypeOK' /\ Addressed'
  <2> DEFINE next == IF Untracked(p, view) THEN "reconcile" ELSE "refresh"
             m == [mon[p] EXCEPT !.step = next, !.view = view]
  <2>1. next \in {"reconcile", "refresh"}
    OBVIOUS
  <2> HIDE DEF next
  <2>2. m \in Passes /\ PassAddressed(m)
    BY <1>1, <1>6, <2>1 DEF Passes, PassAddressed, Fetch
  <2>3. mon' = [mon EXCEPT ![p] = m]
    BY <1>1, <1>6 DEF Fetch, next, TypeOK, Passes
  <2> QED
    BY <1>1, <1>6, <2>2, <2>3, PassFrame DEF Fetch
<1>7. CASE AdoptAdd(p)
  BY <1>1, <1>2, <1>4, <1>7, PassFrame DEF AdoptAdd
<1>8. CASE AdoptSet(p)
  BY <1>1, <1>2, <1>4, <1>8, PassFrame DEF AdoptSet
<1>9. ASSUME NEW o \in Outcomes, Reclaim(p, o) PROVE TypeOK' /\ Addressed'
  BY <1>1, <1>2, <1>4, <1>9, PassFrame DEF Reclaim
<1>10. CASE Refresh(p)
  <2> DEFINE m == [mon[p] EXCEPT !.step = "main", !.tracked = TRUE]
  <2>1. m \in Passes /\ PassAddressed(m)
    BY <1>1, <1>10 DEF Refresh, Passes, PassAddressed
  <2>2. mon' = [mon EXCEPT ![p] = m] \/ mon' = [mon EXCEPT ![p] = MonIdle]
    BY <1>10 DEF Refresh
  <2> QED
    BY <1>1, <1>10, <2>1, <2>2, PassFrame DEF Refresh
<1>11. CASE SkipOrphan(p) \/ LeaveAlone(p)
  BY <1>1, <1>3, <1>11, PassFrame DEF SkipOrphan, LeaveAlone
<1>12. CASE SeeGhost(p)
  BY <1>1, <1>2, <1>12, PassFrame DEF SeeGhost
<1>13. CASE RemoveGhost(p)
  BY <1>1, <1>3, <1>13, PassFrame DEF RemoveGhost
<1>14. CASE CleanUpAbsent(p)
  BY <1>1, <1>3, <1>14, PassFrame DEF CleanUpAbsent
<1>15. CASE Look(p)
  <2> DEFINE m == [MonIdle EXCEPT !.step = "decide", !.addr = It(p), !.local = meta[It(p)]]
  <2>1. It(p) \in Addrs /\ meta[It(p)] \in Metadata
    BY <1>1, <1>4, <1>15 DEF Look, InLoop
  <2>2. m \in Passes /\ PassAddressed(m)
    BY <2>1, TrackingAssumption DEF MonIdle, Passes, PassAddressed, Views
  <2> QED
    BY <1>1, <1>15, <2>2, PassFrame DEF Look
<1>16. ASSUME NEW exit \in BOOLEAN, NEW writes \in BOOLEAN, Decide(p, exit, writes)
       PROVE TypeOK' /\ Addressed'
  <2>1. meta' \in [Addrs -> Metadata \cup {None}]
    BY <1>1, <1>4, <1>16 DEF Decide
  <2>2. \E m \in Passes : PassAddressed(m) /\ mon' = [mon EXCEPT ![p] = m]
    BY <1>2, <1>3, <1>16 DEF Decide
  <2> QED
    BY <1>1, <1>16, <2>1, <2>2, PassFrame DEF Decide
<1>17. ASSUME NEW o \in Outcomes, Close(p, o) PROVE TypeOK' /\ Addressed'
  <2>1. /\ meta' \in [Addrs -> Metadata \cup {None}] /\ active' \subseteq Addrs
        /\ chain' \in [Addrs -> Accounts]
    BY <1>1, <1>4, <1>17 DEF Close
  <2> QED
    BY <1>1, <1>3, <1>17, <2>1, PassFrame DEF Close
<1> QED
  BY <1>5, <1>6, <1>7, <1>8, <1>9, <1>10, <1>11, <1>12, <1>13, <1>14, <1>15, <1>16, <1>17
  DEF PassWork

LEMMA WorldTypes ==
  ASSUME TypeOK, Addressed, NEW a \in Addrs, Index(a) \/ ExternalClose(a) \/ Age(a)
  PROVE  TypeOK' /\ Addressed'
<1>1. CASE Index(a)
  BY <1>1 DEF Index, TypeOK, Addressed, Deploying
<1>2. CASE ExternalClose(a)
  BY <1>2 DEF ExternalClose, TypeOK, Addressed, Deploying, Accounts
<1>3. CASE Age(a)
  <2>1. meta' \in [Addrs -> Metadata \cup {None}]
    <3>1. meta[a] \in Metadata
      BY <1>3 DEF Age, TypeOK
    <3>2. [meta[a] EXCEPT !.old = TRUE] \in Metadata
      BY <3>1 DEF Metadata
    <3> QED
      BY <1>3, <3>2 DEF Age, TypeOK
  <2>2. ASSUME NEW q \in Runs
        PROVE  /\ mon'[q] \in Passes /\ mon'[q].step = mon[q].step
               /\ mon'[q].addr = mon[q].addr
               /\ mon[q].local # None => mon'[q].local \in Metadata
    <3>1. mon[q] \in Passes
      BY DEF TypeOK
    <3>2. CASE mon[q].addr = a /\ mon[q].local # None
      <4>1. mon'[q] = [mon[q] EXCEPT !.local.old = TRUE]
        BY <1>3, <3>2 DEF Age
      <4>2. mon[q].local \in Metadata
        BY <3>1, <3>2 DEF Passes
      <4>3. [mon[q].local EXCEPT !.old = TRUE] \in Metadata
        BY <4>2 DEF Metadata
      <4> QED
        BY <3>1, <4>1, <4>3 DEF Passes
    <3>3. CASE ~(mon[q].addr = a /\ mon[q].local # None)
      <4>1. mon'[q] = mon[q]
        BY <1>3, <3>3 DEF Age
      <4> QED
        BY <3>1, <4>1 DEF Passes
    <3> QED
      BY <3>2, <3>3
  <2>3. mon' \in [Runs -> Passes]
    <3>1. mon' = [q \in Runs |-> mon'[q]]
      BY <1>3 DEF Age
    <3> QED
      BY <2>2, <3>1
  <2> QED
    BY <1>3, <2>1, <2>2, <2>3, TrackingAssumption DEF Age, TypeOK, Addressed, Deploying
<1> QED
  BY <1>1, <1>2, <1>3

\* The state stays typed and every process keeps to an address.
LEMMA NextTypes == TypeOK /\ Addressed /\ [Next]_vars => TypeOK' /\ Addressed'
<1> SUFFICES ASSUME TypeOK, Addressed, [Next]_vars PROVE TypeOK' /\ Addressed'
  OBVIOUS
<1>1. CASE UNCHANGED vars
  BY <1>1 DEF vars, TypeOK, Addressed, Deploying
<1> QED
  BY <1>1, DeployTypes, PipelineTypes, PassTypes, WorldTypes DEF Next
--------------------------------------------------------------------------------
(* An account that is not minted is known to the executor alone. *)

LEMMA UnbornFrame ==
  ASSUME NEW a \in Addrs, Unborn(a), NEW p \in Runs,
         \A q \in Runs \ {p} : mon'[q] = mon[q],
         mon'[p].addr = a => /\ mon'[p].step \in {"fetch", "refresh"}
                             /\ mon'[p].tracked = FALSE /\ mon'[p].local = None,
         chain'[a] = "absent", UNCHANGED <<api, pl>>, a \notin active', meta'[a] = None
  PROVE  Unborn(a)'
  BY DEF Unborn

\* An answer is not a deploy that starts.
LEMMA AnswerStops ==
  ASSUME NEW step \in {"success", "orphan", "failed"}, Answer(step)
  PROVE  ex'.step \notin {"send", "mint"}
  BY DEF Answer, ExIdle

\* Passes at other addresses, and passes that only look, leave it so.
LEMMA PassUnborn ==
  ASSUME TypeOK, Addressed, NEW a \in Addrs, Unborn(a), NEW p \in Runs,
         PassWork(p) \/ \E b \in Addrs : PassBegin(p, b)
  PROVE  Unborn(a)'
<1>1. /\ None # a /\ mon[p] \in Passes
      /\ \A q \in Runs \ {p} : mon'[q] = mon[q]
  <2>1. \E m : mon' = [mon EXCEPT ![p] = m]
    BY Zenon DEF PassWork, PassBegin, Fetch, AdoptAdd, AdoptSet, Reclaim, Refresh,
       SkipOrphan, SeeGhost, RemoveGhost, LeaveAlone, CleanUpAbsent, Look, Decide, Close,
       Goto, Leave
  <2> QED
    BY <2>1, TrackingAssumption DEF TypeOK
<1>2. ASSUME NEW b \in Addrs, PassBegin(p, b) PROVE Unborn(a)'
  <2> DEFINE tracked == b \in active
  <2>1. mon'[p] = [MonIdle EXCEPT !.step = "fetch", !.addr = b, !.tracked = tracked]
    BY <1>2, Zenon DEF PassBegin, TypeOK
  <2>2. b = a => tracked = FALSE
    BY DEF Unborn
  <2> HIDE DEF tracked
  <2>3. /\ mon'[p].step = "fetch" /\ mon'[p].local = None /\ mon'[p].addr = b
        /\ mon'[p].tracked = tracked
    BY <2>1 DEF MonIdle
  <2>4. /\ chain'[a] = "absent" /\ a \notin active' /\ meta'[a] = None
        /\ UNCHANGED <<api, pl>>
    BY <1>2 DEF PassBegin, Unborn
  <2> QED
    BY <1>1, <1>2, <2>2, <2>3, <2>4, UnbornFrame
<1>3. ASSUME NEW view \in Views, Fetch(p, view) PROVE Unborn(a)'
  <2>1. ASSUME mon[p].addr = a PROVE view \notin {"empty", "funded"}
    BY <1>3, <2>1 DEF Fetch, ApiViews, It, Listed, Exists, Unborn
  <2>2. /\ mon'[p].addr = mon[p].addr /\ mon'[p].tracked = mon[p].tracked
        /\ mon'[p].local = mon[p].local
        /\ mon[p].addr = a => mon'[p].step = "refresh"
    BY <1>1, <1>3, <2>1 DEF Fetch, Untracked, TypeOK, Passes
  <2>3. /\ chain'[a] = "absent" /\ a \notin active' /\ meta'[a] = None
        /\ UNCHANGED <<api, pl>>
        /\ mon[p].addr = a => mon[p].tracked = FALSE /\ mon[p].local = None
    BY <1>3 DEF Fetch, Unborn
  <2> QED
    BY <1>1, <2>2, <2>3, UnbornFrame
<1>4. CASE Refresh(p)
  <2>1. ASSUME mon[p].addr = a PROVE mon' = [mon EXCEPT ![p] = MonIdle]
    BY <1>4, <2>1 DEF Refresh, It, Unborn
  <2>2. mon[p].addr # a => mon'[p].addr # a
    BY <1>1, <1>4 DEF Refresh, MonIdle, TypeOK, Passes
  <2>3. mon[p].addr = a => mon'[p].addr # a
    BY <1>1, <2>1 DEF MonIdle, TypeOK
  <2> QED
    BY <1>1, <1>4, <2>2, <2>3 DEF Refresh, Unborn
\* Every other step is taken past these two labels, so at another address.
<1>5. ASSUME mon[p].step \notin {"idle", "fetch", "refresh"},
             Goto(p, "adopt") \/ Goto(p, "refresh") \/ Goto(p, "ghost") \/ Goto(p, "closing")
               \/ Leave(p) \/ Look(p)
      PROVE  mon[p].addr # a /\ mon'[p].addr # a
  <2>1. mon[p].addr # a
    BY <1>5 DEF Unborn
  <2>2. ASSUME NEW label, Goto(p, label) PROVE mon'[p].addr # a
    BY <1>1, <2>1, <2>2 DEF Goto, TypeOK, Passes
  <2>3. ASSUME Leave(p) PROVE mon'[p].addr # a
    BY <1>1, <2>3 DEF Leave, MonIdle, TypeOK
  <2>4. ASSUME Look(p) PROVE mon'[p].addr # a
    BY <1>1, <2>1, <2>4 DEF Look, It, MonIdle, TypeOK
  <2> QED
    BY <1>5, <2>1, <2>2, <2>3, <2>4
<1>6. CASE AdoptAdd(p)
  BY <1>1, <1>5, <1>6 DEF AdoptAdd, It, Unborn
<1>7. CASE AdoptSet(p)
  BY <1>1, <1>5, <1>7 DEF AdoptSet, It, Unborn, TypeOK
<1>8. ASSUME NEW o \in Outcomes, Reclaim(p, o) PROVE Unborn(a)'
  BY <1>1, <1>5, <1>8 DEF Reclaim, It, Unborn, TypeOK
<1>9. CASE SkipOrphan(p) \/ LeaveAlone(p) \/ SeeGhost(p)
  BY <1>1, <1>5, <1>9 DEF SkipOrphan, LeaveAlone, SeeGhost, InLoop, Unborn
<1>10. CASE RemoveGhost(p)
  BY <1>1, <1>5, <1>10 DEF RemoveGhost, Unborn
<1>11. CASE CleanUpAbsent(p)
  BY <1>1, <1>5, <1>11 DEF CleanUpAbsent, InLoop, It, Unborn, TypeOK
<1>12. CASE Look(p)
  BY <1>1, <1>5, <1>12 DEF Look, InLoop, Unborn
<1>13. ASSUME NEW exit \in BOOLEAN, NEW writes \in BOOLEAN, Decide(p, exit, writes)
       PROVE Unborn(a)'
  BY <1>1, <1>5, <1>13 DEF Decide, It, Unborn, TypeOK
<1>14. ASSUME NEW o \in Outcomes, Close(p, o) PROVE Unborn(a)'
  <2>1. mon[p].addr # a /\ mon'[p].addr # a
    BY <1>5, <1>14 DEF Close
  <2>2. chain'[a] = chain[a] /\ meta'[a] = meta[a] /\ (a \in active' => a \in active)
    BY <1>14, <2>1 DEF Close, It, TypeOK
  <2> QED
    BY <1>1, <1>14, <2>1, <2>2 DEF Close, Unborn
<1> QED
  BY <1>2, <1>3, <1>4, <1>6, <1>7, <1>8, <1>9, <1>10, <1>11, <1>12, <1>13, <1>14
  DEF PassWork

LEMMA WorldUnborn ==
  ASSUME TypeOK, NEW a \in Addrs, Unborn(a), NEW b \in Addrs,
         Index(b) \/ ExternalClose(b) \/ Age(b)
  PROVE  Unborn(a)'
<1>1. CASE Index(b)
  BY <1>1 DEF Index, Unborn, TypeOK
<1>2. CASE ExternalClose(b)
  BY <1>2 DEF ExternalClose, Unborn, TypeOK
<1>3. CASE Age(b)
  <2>1. a # b
    BY <1>3 DEF Age, Unborn
  <2>2. \A p \in Runs : (mon[p].addr = b /\ mon[p].local # None) \/ mon'[p] = mon[p]
    BY <1>3 DEF Age
  <2>3. \A p \in Runs : mon'[p].addr = mon[p].addr
    BY <1>3 DEF Age, TypeOK, Passes
  <2> QED
    BY <1>3, <2>1, <2>2, <2>3 DEF Age, Unborn, TypeOK
<1> QED
  BY <1>1, <1>2, <1>3

\* A retry takes a keypair nobody knows.
LEMMA RetryUnborn ==
  ASSUME TypeOK, Addressed, MintsUnborn, ex.step \in {"send", "mint"}, Rethrow,
         chain' = chain \/ \E c : chain' = [chain EXCEPT ![ex.addr] = c],
         UNCHANGED <<api, active, meta, pl, mon>>
  PROVE  MintsUnborn'
<1>1. ex \in DeployCalls /\ ex.addr \in Addrs /\ chain \in [Addrs -> Accounts]
  BY DEF TypeOK, Addressed, Deploying
<1>2. CASE ex.tries > 1 /\ Retryable # {}
  <2>1. PICK b \in Retryable : ex' = [ex EXCEPT !.addr = b, !.tries = @ - 1]
    BY <1>2 DEF Rethrow, Retry
  <2>2. ex'.addr = b /\ b \in Addrs
    BY <1>1, <2>1 DEF DeployCalls, Retryable
  <2>3. CASE b = ex.addr /\ chain'[b] = "absent"
    BY <2>2, <2>3 DEF MintsUnborn, Unborn
  <2>4. CASE Fresh(b)
    <3>1. chain'[b] = "absent"
      BY <1>1, <2>2, <2>4 DEF Fresh
    <3> QED
      BY <2>2, <2>4, <3>1 DEF Fresh, MintsUnborn, Unborn
  <2> QED
    BY <2>1, <2>3, <2>4 DEF Retryable
<1>3. CASE ~(ex.tries > 1 /\ Retryable # {})
  BY <1>3, AnswerStops DEF Rethrow, MintsUnborn
<1> QED
  BY <1>2, <1>3

LEMMA NextUnborn == TInv /\ [Next]_vars => MintsUnborn'
<1> SUFFICES ASSUME TInv, [Next]_vars PROVE MintsUnborn'
  OBVIOUS
<1> USE DEF TInv
<1>1. ex.step \in {"send", "mint"} => ex.addr \in Addrs /\ Unborn(ex.addr)
  BY DEF Addressed, Deploying, MintsUnborn
<1>2. CASE UNCHANGED vars
  BY <1>1, <1>2 DEF vars, MintsUnborn, Unborn
<1>3. ASSUME NEW o \in Outcomes, SendNarrow(o) PROVE MintsUnborn'
  <2>1. CASE o = "confirmed"
    BY <1>3, <2>1, AnswerStops DEF SendNarrow, MintsUnborn
  <2>2. CASE o # "confirmed"
    BY <1>3, <2>2, RetryUnborn DEF SendNarrow
  <2> QED
    BY <2>1, <2>2
<1>4. ASSUME NEW o \in Outcomes, MintWide(o) PROVE MintsUnborn'
  <2>1. CASE o = "confirmed"
    BY <1>4, <2>1 DEF MintWide, MintsUnborn, TypeOK, DeployCalls
  <2>2. CASE o # "confirmed"
    BY <1>4, <2>2, RetryUnborn DEF MintWide
  <2> QED
    BY <2>1, <2>2
<1>5. ASSUME NEW o \in Outcomes, AddChunk(o) \/ CleanUp(o) PROVE MintsUnborn'
  <2>1. CASE AddChunk(o)
    <3>1. \/ ex' = [ex EXCEPT !.step = "clean"] \/ Answer("success")
          \/ ex' = [ex EXCEPT !.added = @ + 1]
      BY <2>1 DEF AddChunk
    <3>2. ex'.step \notin {"send", "mint"}
      BY <2>1, <3>1, AnswerStops DEF AddChunk, TypeOK, DeployCalls
    <3> QED
      BY <3>2 DEF MintsUnborn
  <2>2. CASE CleanUp(o)
    BY <2>2, AnswerStops DEF CleanUp, MintsUnborn
  <2> QED
    BY <1>5, <2>1, <2>2
<1>6. CASE ExecutorDies
  BY <1>6 DEF ExecutorDies, ExIdle, MintsUnborn
<1>7. CASE PipelineStart \/ PipelineReconcile \/ PipelineSet \/ PipelineAdd
           \/ OrphanAdd \/ OrphanSet
  <2>1. ex' = ex
    BY <1>7 DEF PipelineStart, PipelineReconcile, PipelineSet, PipelineAdd, OrphanAdd,
       OrphanSet
  <2>2. ASSUME ex.step \in {"send", "mint"} PROVE Unborn(ex.addr)'
    <3>1. PICK a \in Addrs : a = ex.addr /\ Unborn(a) /\ a # None
      BY <1>1, <2>2, TrackingAssumption
    <3>2. CASE PipelineStart
      BY <3>1, <3>2 DEF PipelineStart, PlIdle, Unborn
    <3>3. CASE PipelineReconcile
      <4>1. a \notin active' /\ meta'[a] = None /\ pl'.addr # a
        BY <3>1, <3>3 DEF PipelineReconcile, PlIdle, Unborn
      <4> QED
        BY <3>1, <3>3, <4>1 DEF PipelineReconcile, Unborn
    <3>4. CASE PipelineSet \/ OrphanAdd
      <4>1. pl'.addr = pl.addr /\ pl.addr # a
        BY <3>1, <3>4 DEF PipelineSet, OrphanAdd, Unborn, TypeOK, Pipelines
      <4> QED
        BY <3>1, <3>4, <4>1 DEF PipelineSet, OrphanAdd, Unborn, TypeOK
    <3>5. CASE PipelineAdd \/ OrphanSet
      BY <3>1, <3>5 DEF PipelineAdd, OrphanSet, PlIdle, Unborn, TypeOK
    <3> QED
      BY <1>7, <3>2, <3>3, <3>4, <3>5
  <2> QED
    BY <2>1, <2>2 DEF MintsUnborn, Unborn
<1>8. ASSUME NEW a \in Addrs, NEW wide \in BOOLEAN, NEW seen, PipelinePick(a, wide, seen)
      PROVE MintsUnborn'
  BY <1>8, TrackingAssumption
  DEF PipelinePick, StartDeploy, Fresh, PlIdle, MintsUnborn, Unborn
<1>9. CASE PipelineAnswer
  BY <1>9 DEF PipelineAnswer, ExIdle, MintsUnborn
<1>10. CASE PipelineKilled
  BY <1>1, <1>10, TrackingAssumption
  DEF PipelineKilled, ExIdle, PlIdle, MintsUnborn, Unborn
<1>11. ASSUME NEW p \in Runs, PassWork(p) \/ \E a \in Addrs : PassBegin(p, a)
       PROVE MintsUnborn'
  <2>1. ex' = ex
    BY <1>11 DEF PassWork, PassBegin, Fetch, AdoptAdd, AdoptSet, Reclaim, Refresh,
       SkipOrphan, SeeGhost, RemoveGhost, LeaveAlone, CleanUpAbsent, Look, Decide, Close
  <2>2. ASSUME ex.step \in {"send", "mint"} PROVE Unborn(ex.addr)'
    <3> DEFINE a == ex.addr
    <3>1. Unborn(a)'
      BY <1>1, <1>11, <2>1, <2>2, PassUnborn
    <3> QED
      BY <3>1
  <2> QED
    BY <2>1, <2>2 DEF MintsUnborn, Unborn
<1>12. ASSUME NEW b \in Addrs, Index(b) \/ ExternalClose(b) \/ Age(b) PROVE MintsUnborn'
  <2>1. ex' = ex
    BY <1>12 DEF Index, ExternalClose, Age
  <2>2. ASSUME ex.step \in {"send", "mint"} PROVE Unborn(ex.addr)'
    BY <1>1, <1>12, <2>1, <2>2, WorldUnborn DEF Unborn
  <2> QED
    BY <2>1, <2>2 DEF MintsUnborn, Unborn
<1> QED
  BY <1>2, <1>3, <1>4, <1>5, <1>6, <1>7, <1>8, <1>9, <1>10, <1>11, <1>12
  DEF Next, DeployStep, PipelineWork
--------------------------------------------------------------------------------
(* What is two hours old is listed by whoever still holds a list. *)

LEMMA DeployAged ==
  ASSUME TInv, DeployStep, NEW a \in Addrs, chain'[a] # "absent", Aged(a)'
  PROVE  EverywhereListed(a)'
<1> USE DEF TInv
<1>1. UNCHANGED <<api, meta, pl, mon>>
  BY DEF DeployStep, SendNarrow, MintWide, AddChunk, CleanUp, ExecutorDies
<1>2. Aged(a)
  BY <1>1 DEF Aged
<1>3. EverywhereListed(a) => EverywhereListed(a)'
  BY <1>1 DEF EverywhereListed
<1>4. chain \in [Addrs -> Accounts]
  BY DEF TypeOK
<1>5. ASSUME NEW o \in Outcomes, SendNarrow(o) \/ MintWide(o) PROVE chain[a] # "absent"
  <2>1. Unborn(ex.addr)
    BY <1>5 DEF SendNarrow, MintWide, MintsUnborn
  <2>2. ex.addr # a
    BY <1>2, <2>1 DEF Unborn, Aged
  <2> QED
    BY <1>4, <1>5, <2>2 DEF SendNarrow, MintWide
<1>6. ASSUME NEW o \in Outcomes, AddChunk(o) \/ CleanUp(o) PROVE chain[a] # "absent"
  BY <1>4, <1>6 DEF AddChunk, CleanUp
<1>7. ExecutorDies => chain[a] # "absent"
  BY DEF ExecutorDies
<1>8. chain[a] # "absent"
  BY <1>5, <1>6, <1>7 DEF DeployStep
<1> QED
  BY <1>2, <1>3, <1>8 DEF AgedIsListed

LEMMA PipelineAged ==
  ASSUME TInv, PipelineWork \/ PipelineKilled, NEW a \in Addrs, chain'[a] # "absent",
         Aged(a)'
  PROVE  EverywhereListed(a)'
<1> USE DEF TInv
<1>1. UNCHANGED <<chain, api, mon>>
  BY DEF PipelineWork, PipelineKilled, PipelineStart, PipelineReconcile, PipelinePick,
     PipelineAnswer, PipelineSet, PipelineAdd, OrphanAdd, OrphanSet
<1>2. meta'[a] # None /\ meta'[a].old => meta[a] # None /\ meta[a].old
  <2>1. CASE PipelineReconcile
    BY <2>1 DEF PipelineReconcile
  <2>2. CASE PipelineSet \/ OrphanSet
    BY <2>2 DEF PipelineSet, OrphanSet, Managed, Orphan, TypeOK
  <2>3. CASE ~(PipelineReconcile \/ PipelineSet \/ OrphanSet)
    BY <2>3 DEF PipelineWork, PipelineKilled, PipelineStart, PipelinePick, PipelineAnswer,
       PipelineAdd, OrphanAdd
  <2> QED
    BY <2>1, <2>2, <2>3
<1>3. EverywhereListed(a)
  BY <1>1, <1>2 DEF AgedIsListed, Aged
<1>4. pl'.listed # None => a \in pl'.listed
  <2>1. CASE PipelineStart
    BY <1>3, <2>1 DEF PipelineStart, PlIdle, EverywhereListed, Listed
  <2>2. CASE ~PipelineStart
    <3>1. pl'.listed = pl.listed \/ pl'.listed = None
      <4>1. PipelineReconcile => pl'.listed = None
        BY DEF PipelineReconcile, PlIdle
      <4>2. ASSUME NEW b \in Addrs, NEW wide \in BOOLEAN, NEW seen,
                   PipelinePick(b, wide, seen)
            PROVE  pl'.listed = None
        BY <4>2 DEF PipelinePick, PlIdle
      <4>3. PipelineAnswer => pl'.listed = pl.listed \/ pl'.listed = None
        BY DEF PipelineAnswer, PlIdle, TypeOK, Pipelines
      <4>4. PipelineSet \/ OrphanAdd => pl'.listed = pl.listed
        BY DEF PipelineSet, OrphanAdd, TypeOK, Pipelines
      <4>5. PipelineAdd \/ OrphanSet \/ PipelineKilled => pl'.listed = None
        BY DEF PipelineAdd, OrphanSet, PipelineKilled, PlIdle
      <4> QED
        BY <2>2, <4>1, <4>2, <4>3, <4>4, <4>5 DEF PipelineWork
    <3> QED
      BY <1>3, <3>1 DEF EverywhereListed
  <2> QED
    BY <2>1, <2>2
<1> QED
  BY <1>1, <1>3, <1>4 DEF EverywhereListed

\* What a pass may do to old metadata and to its own view.
LEMMA PassAgedFrame ==
  ASSUME TInv, NEW a \in Addrs, NEW p \in Runs, \A q \in Runs \ {p} : mon'[q] = mon[q],
         UNCHANGED <<api, pl>>, chain'[a] # "absent" => chain[a] # "absent",
         meta'[a] # None /\ meta'[a].old => Aged(a),
         mon'[p].addr = a /\ mon'[p].local # None /\ mon'[p].local.old => Aged(a),
         EverywhereListed(a) /\ mon'[p].addr = a => mon'[p].view \notin Gone,
         chain'[a] # "absent", Aged(a)'
  PROVE  EverywhereListed(a)'
<1>1. Aged(a)
  BY DEF Aged
<1>2. EverywhereListed(a)
  BY <1>1 DEF TInv, AgedIsListed
<1> QED
  BY <1>2 DEF EverywhereListed

LEMMA PassAged ==
  ASSUME TInv, NEW p \in Runs, PassWork(p) \/ \E b \in Addrs : PassBegin(p, b),
         NEW a \in Addrs, chain'[a] # "absent", Aged(a)'
  PROVE  EverywhereListed(a)'
<1>1. /\ None # a /\ TypeOK /\ Addressed /\ mon[p] \in Passes
      /\ \A q \in Runs \ {p} : mon'[q] = mon[q]
  <2>1. \E m : mon' = [mon EXCEPT ![p] = m]
    BY Zenon DEF PassWork, PassBegin, Fetch, AdoptAdd, AdoptSet, Reclaim, Refresh,
       SkipOrphan, SeeGhost, RemoveGhost, LeaveAlone, CleanUpAbsent, Look, Decide, Close,
       Goto, Leave
  <2> QED
    BY <2>1, TrackingAssumption DEF TypeOK, TInv
<1>2. UNCHANGED <<api, pl>>
  BY DEF PassWork, PassBegin, Fetch, AdoptAdd, AdoptSet, Reclaim, Refresh, SkipOrphan,
     SeeGhost, RemoveGhost, LeaveAlone, CleanUpAbsent, Look, Decide, Close
<1>3. chain[a] # "absent"
  <2>1. ASSUME NEW o \in Outcomes, Reclaim(p, o) \/ Close(p, o) PROVE chain[a] # "absent"
    BY <1>1, <2>1 DEF Reclaim, Close, TypeOK
  <2>2. (\E o \in Outcomes : Reclaim(p, o) \/ Close(p, o)) \/ UNCHANGED chain
    BY DEF PassWork, PassBegin, Fetch, AdoptAdd, AdoptSet, Refresh, SkipOrphan,
       SeeGhost, RemoveGhost, LeaveAlone, CleanUpAbsent, Look, Decide
  <2> QED
    BY <2>1, <2>2
<1>4. meta'[a] # None /\ meta'[a].old => Aged(a)
  <2>1. CASE AdoptSet(p)
    BY <1>1, <2>1 DEF AdoptSet, Managed, TypeOK, Aged
  <2>2. CASE CleanUpAbsent(p)
    BY <1>1, <2>2 DEF CleanUpAbsent, TypeOK, Aged
  <2>3. ASSUME NEW exit \in BOOLEAN, NEW writes \in BOOLEAN, Decide(p, exit, writes)
        PROVE  meta'[a] # None /\ meta'[a].old => Aged(a)
    <3>1. meta' = meta \/ meta' = [meta EXCEPT ![mon[p].addr] = mon[p].local]
      BY <2>3 DEF Decide, It
    <3> QED
      BY <1>1, <3>1 DEF TypeOK, Aged
  <2>4. ASSUME NEW o \in Outcomes, Close(p, o)
        PROVE  meta'[a] # None /\ meta'[a].old => Aged(a)
    BY <1>1, <2>4 DEF Close, TypeOK, Aged
  <2>5. \/ AdoptSet(p) \/ CleanUpAbsent(p) \/ UNCHANGED meta
        \/ \E exit, writes \in BOOLEAN : Decide(p, exit, writes)
        \/ \E o \in Outcomes : Close(p, o)
    BY DEF PassWork, PassBegin, Fetch, AdoptAdd, Reclaim, Refresh, SkipOrphan,
       SeeGhost, RemoveGhost, LeaveAlone, Look
  <2> QED
    BY <2>1, <2>2, <2>3, <2>4, <2>5 DEF Aged
<1>5. /\ mon'[p].addr = a /\ mon'[p].local # None /\ mon'[p].local.old => Aged(a)
      /\ EverywhereListed(a) /\ mon'[p].addr = a => mon'[p].view \notin Gone
  <2>1. ASSUME NEW b \in Addrs, PassBegin(p, b)
        PROVE  mon'[p].local = None /\ mon'[p].view = "down"
    BY <1>1, <2>1 DEF PassBegin, MonIdle, TypeOK
  <2>2. ASSUME NEW view \in Views, Fetch(p, view)
        PROVE  /\ mon'[p].addr = mon[p].addr /\ mon'[p].local = mon[p].local
               /\ EverywhereListed(a) /\ mon'[p].addr = a => mon'[p].view \notin Gone
    <3>1. mon'[p].addr = mon[p].addr /\ mon'[p].local = mon[p].local /\ mon'[p].view = view
      BY <1>1, <2>2 DEF Fetch, TypeOK, Passes
    <3>2. EverywhereListed(a) /\ mon[p].addr = a => view \in {"funded", "empty", "down", "sdk"}
      BY <2>2 DEF Fetch, It, ApiViews, Listed, EverywhereListed
    <3> QED
      BY <3>1, <3>2 DEF Gone
  <2>3. ASSUME NEW label, Goto(p, label)
        PROVE  /\ mon'[p].addr = mon[p].addr /\ mon'[p].local = mon[p].local
               /\ mon'[p].view = mon[p].view
    BY <1>1, <2>3 DEF Goto, TypeOK, Passes
  <2>4. Leave(p) => mon'[p].addr # a
    BY <1>1 DEF Leave, MonIdle, TypeOK
  <2>5. CASE Refresh(p)
    <3>1. mon'[p] = MonIdle \/ mon'[p] = [mon[p] EXCEPT !.step = "main", !.tracked = TRUE]
      BY <1>1, <2>5 DEF Refresh, TypeOK
    <3>2. mon'[p] = MonIdle => mon'[p].addr # a
      BY <1>1 DEF MonIdle
    <3>3. mon'[p] # MonIdle => /\ mon'[p].addr = mon[p].addr /\ mon'[p].local = mon[p].local
                               /\ mon'[p].view = mon[p].view
      BY <1>1, <3>1 DEF Passes
    <3> QED
      BY <3>2, <3>3 DEF Aged, EverywhereListed
  <2>6. CASE Look(p)
    <3>1. /\ mon'[p].addr = mon[p].addr /\ mon'[p].local = meta[mon[p].addr]
          /\ mon'[p].view = "down"
      BY <1>1, <2>6 DEF Look, It, MonIdle, TypeOK
    <3> QED
      BY <3>1 DEF Aged, Gone
  <2>7. \/ Refresh(p) \/ Look(p) \/ Leave(p)
        \/ \E label : Goto(p, label)
        \/ \E b \in Addrs : PassBegin(p, b)
        \/ \E view \in Views : Fetch(p, view)
    BY DEF PassWork, AdoptAdd, AdoptSet, Reclaim, SkipOrphan, SeeGhost, RemoveGhost,
       LeaveAlone, CleanUpAbsent, Decide, Close
  <2> QED
    BY <2>1, <2>2, <2>3, <2>4, <2>5, <2>6, <2>7 DEF Aged, EverywhereListed, Gone
<1> QED
  BY <1>1, <1>2, <1>3, <1>4, <1>5, PassAgedFrame

LEMMA WorldAged ==
  ASSUME TInv, NEW b \in Addrs, Index(b) \/ ExternalClose(b) \/ Age(b),
         NEW a \in Addrs, chain'[a] # "absent", Aged(a)'
  PROVE  EverywhereListed(a)'
<1> USE DEF TInv
<1>1. CASE Index(b)
  BY <1>1 DEF Index, TypeOK, AgedIsListed, Aged, EverywhereListed
<1>2. CASE ExternalClose(b)
  BY <1>2 DEF ExternalClose, TypeOK, AgedIsListed, Aged, EverywhereListed
<1>3. CASE Age(b)
  <2>1. \A q \in Runs : mon'[q].addr = mon[q].addr /\ mon'[q].view = mon[q].view
    BY <1>3 DEF Age, TypeOK, Passes
  <2>2. CASE a = b
    BY <1>3, <2>1, <2>2 DEF Age, Settled, EverywhereListed, Listed
  <2>3. CASE a # b
    <3>1. meta'[a] = meta[a]
      BY <1>3, <2>3 DEF Age, TypeOK
    <3>2. \A q \in Runs : mon'[q].addr = a => mon'[q] = mon[q]
      BY <1>3, <2>1, <2>3 DEF Age
    <3>3. Aged(a)
      BY <3>1, <3>2 DEF Aged
    <3>4. EverywhereListed(a)
      BY <1>3, <3>3 DEF Age, AgedIsListed
    <3> QED
      BY <1>3, <2>1, <3>4 DEF Age, EverywhereListed
  <2> QED
    BY <2>2, <2>3
<1> QED
  BY <1>1, <1>2, <1>3

LEMMA NextAged == TInv /\ [Next]_vars => AgedIsListed'
<1> SUFFICES ASSUME TInv, [Next]_vars, NEW a \in Addrs, chain'[a] # "absent", Aged(a)'
             PROVE  EverywhereListed(a)'
  BY DEF AgedIsListed
<1>1. CASE UNCHANGED vars
  BY <1>1 DEF vars, TInv, AgedIsListed, Aged, EverywhereListed
<1> QED
  BY <1>1, DeployAged, PipelineAged, PassAged, WorldAged DEF Next

--------------------------------------------------------------------------------
(* The theorems. *)

\* The inductive invariant: types, addresses, mints nobody knows, and old metadata of an open
\* account listed in every answer still held (monitor main, pipeline reconcile).
THEOREM Invariance == Spec => []TInv
<1>1. Init => TInv
  <2> SUFFICES ASSUME Init PROVE TInv
    OBVIOUS
  <2>1. MintsUnborn /\ AgedIsListed
    BY DEF Init, ExIdle, MintsUnborn, AgedIsListed
  <2> QED
    BY <2>1, InitTypes DEF TInv
<1>2. TInv /\ [Next]_vars => TInv'
  BY NextTypes, NextUnborn, NextAged DEF TInv
<1> QED
  BY <1>1, <1>2, PTL DEF Spec

\* Types, for every number of addresses, endpoints and processes: a deploy call counts its
\* endpoints and chunks down to the last (executor 58-72, 219-349).
THEOREM TypeCorrect == Spec => []TypeOK
<1>1. TInv => TypeOK
  BY DEF TInv
<1> QED
  BY <1>1, Invariance, PTL

\* A step deletes metadata only of an account that is gone or that it closes.
LEMMA StepKeepsKeys ==
  ASSUME TInv, Next, NEW a \in Addrs, meta[a] # None, meta'[a] = None
  PROVE  chain[a] = "absent" \/ chain'[a] = "absent"
<1>1. TypeOK /\ Addressed /\ None \notin Metadata /\ Managed \in Metadata /\ Orphan \in Metadata
  BY TrackingAssumption DEF TInv, Managed, Orphan, Metadata
<1>2. meta[a].old => chain[a] = "absent" \/ EverywhereListed(a)
  BY DEF TInv, AgedIsListed, Aged
<1>3. ASSUME PipelineReconcile PROVE chain[a] = "absent"
  BY <1>2, <1>3 DEF PipelineReconcile, Prunable, EverywhereListed
<1>4. PipelineSet \/ OrphanSet => FALSE
  BY <1>1 DEF PipelineSet, OrphanSet, TypeOK
<1>5. ASSUME NEW p \in Runs, CleanUpAbsent(p) PROVE chain[a] = "absent"
  BY <1>1, <1>2, <1>5 DEF CleanUpAbsent, DropsAbsent, It, EverywhereListed, TypeOK
<1>6. ASSUME NEW p \in Runs, AdoptSet(p) PROVE FALSE
  BY <1>1, <1>6 DEF AdoptSet, TypeOK
<1>7. ASSUME NEW p \in Runs, NEW exit, NEW writes, Decide(p, exit, writes) PROVE FALSE
  <2>1. mon[p].local # None
    BY <1>1, <1>7 DEF Decide, Addressed
  <2>2. meta' = meta \/ meta' = [meta EXCEPT ![mon[p].addr] = mon[p].local]
    BY <1>7 DEF Decide, It
  <2> QED
    BY <1>1, <2>1, <2>2 DEF TypeOK
<1>8. ASSUME NEW p \in Runs, NEW o \in Outcomes, Close(p, o) PROVE chain'[a] = "absent"
  BY <1>1, <1>8 DEF Close, It, TypeOK
<1>9. ASSUME NEW b \in Addrs, Age(b) PROVE FALSE
  <2>1. b = a /\ meta'[a] = [meta[a] EXCEPT !.old = TRUE]
    BY <1>1, <1>9 DEF Age, TypeOK
  <2>2. meta[a] \in Metadata
    BY <1>1 DEF TypeOK
  <2> QED
    BY <1>1, <2>1, <2>2 DEF Metadata
<1>10. \/ UNCHANGED meta \/ PipelineReconcile \/ PipelineSet \/ OrphanSet
       \/ \E p \in Runs : \/ CleanUpAbsent(p) \/ AdoptSet(p)
                          \/ \E exit, writes \in BOOLEAN : Decide(p, exit, writes)
                          \/ \E o \in Outcomes : Close(p, o)
       \/ \E b \in Addrs : Age(b)
  BY DEF Next, DeployStep, SendNarrow, MintWide, AddChunk, CleanUp, ExecutorDies,
     PipelineWork, PipelineKilled, PipelineStart, PipelinePick, PipelineAnswer, PipelineAdd,
     OrphanAdd, PassWork, PassBegin, Fetch, AdoptAdd, Reclaim, Refresh, SkipOrphan,
     SeeGhost, RemoveGhost, LeaveAlone, Look, Index, ExternalClose
<1> QED
  BY <1>3, <1>4, <1>5, <1>6, <1>7, <1>8, <1>9, <1>10

--------------------------------------------------------------------------------
(* The life of a position. *)

Known == {a \in Addrs : meta[a] # None}

\* Accounts appear where the executor mints, and go where somebody closes them.
LEMMA DeployLives ==
  ASSUME TInv, DeployStep
  PROVE  [Life!Next]_Life!life
<1>1. /\ TypeOK /\ Known' = Known
      /\ Deploying => ex.addr \in Addrs
      /\ ex.step \in {"send", "mint"} => ex.addr \notin Exists \cup Known
  BY DEF TInv, Addressed, MintsUnborn, Unborn, Exists, Known, DeployStep, SendNarrow,
     MintWide, AddChunk, CleanUp, ExecutorDies
<1>2. CASE UNCHANGED chain
  BY <1>1, <1>2 DEF Life!life, Exists, Known
<1>3. ASSUME NEW o \in Outcomes, SendNarrow(o) \/ MintWide(o), ~UNCHANGED chain
      PROVE  Life!Next
  <2>1. PICK a \in Addrs : a = ex.addr /\ a \notin Exists \cup Known
    BY <1>1, <1>3 DEF SendNarrow, MintWide, Deploying
  <2>2. Exists' = Exists \cup {a}
    BY <1>1, <1>3, <2>1 DEF SendNarrow, MintWide, Exists, TypeOK
  <2>3. Life!Deploy(a)
    BY <1>1, <2>1, <2>2 DEF Life!Deploy, Known
  <2> QED
    BY <2>1, <2>3 DEF Life!Next
<1>4. ASSUME NEW o \in Outcomes, AddChunk(o)
      PROVE  UNCHANGED Life!life
  BY <1>1, <1>4 DEF AddChunk, Life!life, Exists, Known, TypeOK, Accounts
<1>5. ASSUME NEW o \in Outcomes, CleanUp(o)
      PROVE  [Life!Next]_Life!life
  <2>1. PICK a \in Addrs : a = ex.addr
    BY <1>1, <1>5 DEF CleanUp, Deploying
  <2>2. CASE chain'[a] = "absent" /\ a \in Exists
    <3>1. Exists' = Exists \ {a}
      BY <1>1, <1>5, <2>1, <2>2 DEF CleanUp, Exists, TypeOK
    <3>2. Life!Close(a)
      BY <1>1, <2>2, <3>1 DEF Life!Close, Known
    <3> QED
      BY <2>1, <3>2 DEF Life!Next
  <2>3. CASE ~(chain'[a] = "absent" /\ a \in Exists)
    <3>1. Exists' = Exists
      BY <1>1, <1>5, <2>1, <2>3 DEF CleanUp, Exists, TypeOK, Accounts
    <3> QED
      BY <1>1, <3>1 DEF Life!life, Known
  <2> QED
    BY <2>2, <2>3
<1>6. CASE ExecutorDies
  BY <1>2, <1>6 DEF ExecutorDies
<1> QED
  BY <1>2, <1>3, <1>4, <1>5, <1>6 DEF DeployStep

\* One address is registered, or some that are gone are forgotten.
LEMMA KeysLive ==
  ASSUME TInv, Next, UNCHANGED chain
  PROVE  [Life!Next]_Life!life
<1>1. /\ Exists' = Exists /\ Exists \subseteq Addrs /\ Known \subseteq Addrs
      /\ Known' \subseteq Addrs
  BY DEF Exists, Known
<1>2. CASE Known' \subseteq Known
  <2>1. PICK gone \in SUBSET Addrs : gone = Known \ Known'
    BY <1>1
  <2>2. gone \cap Exists = {} /\ Known' = Known \ gone
    BY <1>1, <1>2, <2>1, StepKeepsKeys DEF Known, Exists
  <2>3. Life!Forget(gone)
    BY <1>1, <2>1, <2>2 DEF Life!Forget, Known
  <2> QED
    BY <1>1, <2>3 DEF Life!Next
<1>3. ASSUME NEW a \in Addrs, a \notin Known, a \in Known',
             \A b \in Addrs \ {a} : meta'[b] = meta[b]
      PROVE  Life!Next
  <2>1. Known' = Known \cup {a}
    BY <1>1, <1>3 DEF Known
  <2>2. Life!Register(a)
    BY <1>1, <2>1 DEF Life!Register, Known
  <2> QED
    BY <2>2 DEF Life!Next
<1>4. ASSUME NEW a \in Addrs, NEW m, meta' = [meta EXCEPT ![a] = m]
      PROVE  Known' \subseteq Known \/ Life!Next
  <2>1. \A b \in Addrs \ {a} : meta'[b] = meta[b]
    BY <1>4 DEF TInv, TypeOK
  <2> QED
    BY <1>3, <2>1 DEF Known
<1>5. \/ Known' \subseteq Known
      \/ \E a \in Addrs : \E m : meta' = [meta EXCEPT ![a] = m]
  <2>1. TypeOK /\ Addressed
    BY DEF TInv
  <2>2. CASE PipelineReconcile
    BY <2>2 DEF PipelineReconcile, Known
  <2>3. CASE PipelineSet \/ OrphanSet
    BY <2>1, <2>3 DEF PipelineSet, OrphanSet, Addressed
  <2>4. ASSUME NEW p \in Runs, PassWork(p) PROVE
               \/ UNCHANGED meta \/ \E m : meta' = [meta EXCEPT ![mon[p].addr] = m]
    BY <2>4 DEF PassWork, Fetch, AdoptAdd, AdoptSet, Refresh, Reclaim, Close, SkipOrphan,
                SeeGhost, RemoveGhost, LeaveAlone, CleanUpAbsent, Look, Decide, It
  <2>5. ASSUME NEW p \in Runs, PassWork(p), ~UNCHANGED meta PROVE mon[p].addr \in Addrs
    <3>1. mon[p].step # "idle"
      BY <2>5 DEF PassWork, Fetch, AdoptAdd, AdoptSet, Refresh, Reclaim, Close, SkipOrphan,
                  SeeGhost, RemoveGhost, LeaveAlone, CleanUpAbsent, Look, Decide, InLoop
    <3> QED
      BY <2>1, <3>1 DEF Addressed
  <2>6. ASSUME NEW a \in Addrs, Age(a) PROVE meta[a] # None /\ Known' = Known
    <3>1. meta[a] # None /\ meta'[a] = [meta[a] EXCEPT !.old = TRUE]
          /\ \A b \in Addrs \ {a} : meta'[b] = meta[b]
      BY <2>1, <2>6 DEF Age, TypeOK
    <3>2. meta'[a] # None
      BY <2>1, <3>1, TrackingAssumption DEF TypeOK, Metadata
    <3> QED
      BY <3>1, <3>2 DEF Known
  <2>7. \/ UNCHANGED meta \/ PipelineReconcile \/ PipelineSet \/ OrphanSet
        \/ \E p \in Runs : PassWork(p)
        \/ \E a \in Addrs : Age(a)
    BY DEF Next, DeployStep, SendNarrow, MintWide, AddChunk, CleanUp, ExecutorDies,
       PipelineWork, PipelineKilled, PipelineStart, PipelinePick, PipelineAnswer,
       PipelineAdd, OrphanAdd, PassBegin, Index, ExternalClose
  <2>8. UNCHANGED meta => Known' = Known
    BY DEF Known
  <2> QED
    BY <2>2, <2>3, <2>4, <2>5, <2>6, <2>7, <2>8
<1> QED
  BY <1>2, <1>4, <1>5

\* Whoever closes an account drops its key then or later.
LEMMA CloseLives ==
  ASSUME TInv, NEW a \in Addrs, chain' = [chain EXCEPT ![a] = "absent"],
         meta' = meta \/ meta' = [meta EXCEPT ![a] = None], chain[a] # "absent"
  PROVE  Life!Next
<1>1. Exists' = Exists \ {a} /\ a \in Exists
  BY DEF Exists, TInv, TypeOK
<1>2. Known' = Known \/ Known' = Known \ {a}
  BY DEF Known, TInv, TypeOK
<1>3. Life!Close(a)
  BY <1>1, <1>2 DEF Life!Close, Known
<1> QED
  BY <1>3 DEF Life!Next

LEMMA NextLives ==
  ASSUME TInv, [Next]_vars
  PROVE  [Life!Next]_Life!life
<1>0. TypeOK /\ Addressed
  BY DEF TInv
<1>1. CASE UNCHANGED vars
  BY <1>1 DEF vars, Life!life, Exists
<1>2. CASE DeployStep
  BY <1>2, DeployLives
<1>3. ASSUME NEW p \in Runs, PassWork(p), ~UNCHANGED chain
      PROVE  Life!Next
  <2>1. PICK o \in Outcomes : Reclaim(p, o) \/ Close(p, o)
    BY <1>3 DEF PassWork, Fetch, AdoptAdd, AdoptSet, Refresh, SkipOrphan, SeeGhost,
                RemoveGhost, LeaveAlone, CleanUpAbsent, Look, Decide
  <2>2. /\ mon[p].addr \in Addrs
        /\ chain' = [chain EXCEPT ![mon[p].addr] = "absent"]
        /\ meta' = meta \/ meta' = [meta EXCEPT ![mon[p].addr] = None]
    BY <1>0, <1>3, <2>1 DEF Reclaim, Close, It, Addressed
  <2>3. chain[mon[p].addr] # "absent"
    BY <1>0, <1>3, <2>2 DEF TypeOK
  <2> QED
    BY <2>2, <2>3, CloseLives
<1>4. ASSUME NEW a \in Addrs, ExternalClose(a) PROVE Life!Next
  BY <1>4, CloseLives DEF ExternalClose
<1>5. \/ UNCHANGED vars \/ DeployStep \/ \E p \in Runs : PassWork(p)
      \/ \E a \in Addrs : ExternalClose(a)
      \/ UNCHANGED chain
  BY DEF Next, PipelineWork, PipelineKilled, PipelineStart, PipelineReconcile, PipelinePick,
     PipelineAnswer, PipelineSet, PipelineAdd, OrphanAdd, OrphanSet, PassBegin, Index, Age
<1>6. ASSUME Next, UNCHANGED chain PROVE [Life!Next]_Life!life
  BY <1>6, KeysLive
<1> QED
  BY <1>1, <1>2, <1>3, <1>4, <1>5, <1>6

\* Accounts and metadata keep to PositionLife for any number of addresses and processes:
\* nothing is minted at an address somebody holds a key of, and the two hours of grace
\* outlast every stale answer of the API, so that no key of an open position is deleted
\* (executor 250-310, monitor 948-970, pipeline 349-392).
THEOREM TrackingKeepsLife == Spec => KeepsLife
<1>1. Init => Life!Init
  BY DEF Init, Life!Init, Exists
<1>2. TInv /\ [Next]_vars => [Life!Next]_Life!life
  BY NextLives
<1> QED
  BY <1>1, <1>2, Invariance, PTL DEF Spec, KeepsLife, Life!Spec

--------------------------------------------------------------------------------
(* Orphans. *)

\* No call and no pass holds an orphan's address in a way that would register it again.
OrphansApart ==
  /\ \A a \in Addrs : IsOrphan(a) => ex.addr # a
  /\ pl.step = "set" => ~IsOrphan(pl.addr)
  /\ pl.step \in {"set", "add", "orphan", "orphan_set"} => ex.addr # pl.addr
  /\ \A p \in Runs : mon[p].local # None => ~mon[p].local.orphan

\* An orphan that is tracked, and no pass had begun with it before it was.
Abandoned(a) ==
  /\ a \in active /\ IsOrphan(a)
  /\ \A p \in Runs : mon[p].addr = a => /\ mon[p].tracked
                                        /\ mon[p].step \in {"fetch", "refresh", "main"}

LEMMA DeployApart ==
  ASSUME TInv, OrphansApart, DeployStep
  PROVE  OrphansApart'
<1>1. /\ UNCHANGED <<meta, pl, mon>> /\ \A a \in Addrs : IsOrphan(a)' = IsOrphan(a)
      /\ Deploying /\ pl \in Pipelines /\ ex \in DeployCalls /\ None \notin Addrs
      /\ pl.step \in {"set", "add", "orphan", "orphan_set"} => pl.addr \in Addrs
  BY TrackingAssumption
  DEF DeployStep, SendNarrow, MintWide, AddChunk, CleanUp, ExecutorDies, IsOrphan, TInv,
      TypeOK, Addressed, Deploying
<1>2. \/ ex'.addr = ex.addr \/ ex'.addr = None
      \/ ex'.addr \in Addrs /\ Fresh(ex'.addr)
  <2>1. ASSUME NEW step, Answer(step) PROVE ex'.addr = ex.addr \/ ex'.addr = None
    BY <1>1, <2>1 DEF Answer, ExIdle
  <2>2. ASSUME Rethrow
        PROVE  \/ ex'.addr = ex.addr \/ ex'.addr = None
               \/ ex'.addr \in Addrs /\ Fresh(ex'.addr)
    <3>1. CASE ex.tries > 1 /\ Retryable # {}
      <4>1. PICK b \in Retryable : ex' = [ex EXCEPT !.addr = b, !.tries = @ - 1]
        BY <2>2, <3>1 DEF Rethrow, Retry
      <4>2. ex'.addr = b
        BY <1>1, <4>1 DEF DeployCalls
      <4> QED
        BY <4>1, <4>2 DEF Retryable
    <3>2. CASE ~(ex.tries > 1 /\ Retryable # {})
      BY <2>1, <2>2, <3>2 DEF Rethrow
    <3> QED
      BY <3>1, <3>2
  <2>3. ASSUME NEW o \in Outcomes, SendNarrow(o)
        PROVE  \/ ex'.addr = ex.addr \/ ex'.addr = None
               \/ ex'.addr \in Addrs /\ Fresh(ex'.addr)
    BY <2>1, <2>2, <2>3 DEF SendNarrow
  <2>4. ASSUME NEW o \in Outcomes, MintWide(o) \/ AddChunk(o)
        PROVE  \/ ex'.addr = ex.addr \/ ex'.addr = None
               \/ ex'.addr \in Addrs /\ Fresh(ex'.addr)
    BY <1>1, <2>1, <2>2, <2>4 DEF MintWide, AddChunk, DeployCalls
  <2>5. ASSUME NEW o \in Outcomes, CleanUp(o)
        PROVE  ex'.addr = ex.addr \/ ex'.addr = None
    BY <2>1, <2>5 DEF CleanUp
  <2>6. CASE ExecutorDies
    BY <2>6 DEF ExecutorDies, ExIdle
  <2> QED
    BY <2>3, <2>4, <2>5, <2>6 DEF DeployStep
<1>3. ASSUME NEW b \in Addrs, Fresh(b) PROVE ~IsOrphan(b) /\ pl.addr # b
  BY <1>3 DEF Fresh, IsOrphan
<1> QED
  BY <1>1, <1>2, <1>3 DEF OrphansApart

LEMMA PipelineApart ==
  ASSUME TInv, OrphansApart, PipelineWork \/ PipelineKilled
  PROVE  OrphansApart'
<1>1. /\ UNCHANGED mon /\ pl \in Pipelines /\ ex \in DeployCalls /\ None \notin Addrs
      /\ meta \in [Addrs -> Metadata \cup {None}]
      /\ pl.step \in {"set", "add", "orphan", "orphan_set"} => pl.addr \in Addrs
      /\ ex.step \in {"success", "orphan"} => ex.addr \in Addrs
  BY TrackingAssumption
  DEF PipelineWork, PipelineKilled, PipelineStart, PipelineReconcile, PipelinePick,
      PipelineAnswer, PipelineSet, PipelineAdd, OrphanAdd, OrphanSet, TInv, TypeOK, Addressed
<1>2. CASE PipelineStart \/ PipelineKilled
  <2>1. pl'.step \in {"reconcile", "idle"} /\ UNCHANGED meta
    <3>1. CASE PipelineStart
      <4>1. PICK l \in {Listed, None} : pl' = [PlIdle EXCEPT !.step = "reconcile", !.listed = l]
        BY <3>1 DEF PipelineStart
      <4> QED
        BY <3>1, <4>1 DEF PipelineStart, PlIdle
    <3>2. CASE PipelineKilled
      BY <3>2 DEF PipelineKilled, PlIdle
    <3> QED
      BY <1>2, <3>1, <3>2
  <2>2. ex'.addr = ex.addr \/ ex'.addr = None
    BY <1>2 DEF PipelineStart, PipelineKilled, ExIdle
  <2> QED
    BY <1>1, <2>1, <2>2 DEF OrphansApart, IsOrphan
<1>3. CASE PipelineReconcile
  <2>1. \A a \in Addrs : meta'[a] = meta[a] \/ meta'[a] = None
    BY <1>1, <1>3 DEF PipelineReconcile
  <2>2. pl'.step \in {"pick", "idle"}
    BY <1>3 DEF PipelineReconcile, PlIdle
  <2> QED
    BY <1>1, <1>3, <2>1, <2>2 DEF PipelineReconcile, OrphansApart, IsOrphan
<1>4. ASSUME NEW a \in Addrs, NEW wide \in BOOLEAN, NEW seen \in SUBSET Addrs,
             PipelinePick(a, wide, seen)
      PROVE  OrphansApart'
  BY <1>1, <1>4 DEF PipelinePick, StartDeploy, Fresh, PlIdle, OrphansApart, IsOrphan
<1>5. CASE PipelineAnswer
  <2>1. /\ ex'.addr = None /\ UNCHANGED meta
        /\ pl'.step \in {"set", "orphan"} => pl'.addr = ex.addr /\ ex.addr \in Addrs
        /\ pl'.step \in {"set", "orphan", "idle"}
    BY <1>1, <1>5 DEF PipelineAnswer, ExIdle, PlIdle, Pipelines
  <2> QED
    BY <1>1, <2>1 DEF OrphansApart, IsOrphan
<1>6. CASE PipelineSet
  <2>1. meta'[pl.addr] = Managed /\ \A a \in Addrs \ {pl.addr} : meta'[a] = meta[a]
    BY <1>1, <1>6 DEF PipelineSet
  <2>2. ~Managed.orphan
    BY DEF Managed
  <2> QED
    BY <1>1, <1>6, <2>1, <2>2 DEF PipelineSet, OrphansApart, IsOrphan, Pipelines
<1>7. CASE PipelineAdd \/ OrphanAdd
  BY <1>1, <1>7 DEF PipelineAdd, OrphanAdd, PlIdle, OrphansApart, IsOrphan, Pipelines
<1>8. CASE OrphanSet
  <2>1. \A a \in Addrs \ {pl.addr} : meta'[a] = meta[a]
    BY <1>1, <1>8 DEF OrphanSet
  <2> QED
    BY <1>1, <1>8, <2>1 DEF OrphanSet, PlIdle, OrphansApart, IsOrphan
<1> QED
  BY <1>2, <1>3, <1>4, <1>5, <1>6, <1>7, <1>8 DEF PipelineWork

\* A pass registers nothing as an orphan.
LEMMA PassApart ==
  ASSUME TInv, OrphansApart, NEW p \in Runs,
         PassWork(p) \/ \E a \in Addrs : PassBegin(p, a)
  PROVE  OrphansApart'
<1>1. /\ UNCHANGED <<ex, pl>> /\ mon[p] \in Passes /\ meta \in [Addrs -> Metadata \cup {None}]
      /\ mon \in [Runs -> Passes]
      /\ pl.step \in {"set", "add", "orphan", "orphan_set"} => pl.addr \in Addrs
      /\ mon[p].step # "idle" => mon[p].addr \in Addrs
      /\ mon[p].step = "decide" => mon[p].local # None
  BY DEF PassWork, PassBegin, Fetch, AdoptAdd, AdoptSet, Refresh, Reclaim, Close, SkipOrphan,
         SeeGhost, RemoveGhost, LeaveAlone, CleanUpAbsent, Look, Decide, TInv, TypeOK, Addressed
<1>2. /\ \A q \in Runs \ {p} : mon'[q] = mon[q]
      /\ mon'[p].local # None => ~mon'[p].local.orphan
  <2>1. CASE \E a \in Addrs : PassBegin(p, a)
    <3>1. PICK a \in Addrs : PassBegin(p, a)
      BY <2>1
    <3>2. mon'[p].local = None
      BY <1>1, <3>1 DEF PassBegin, MonIdle
    <3> QED
      BY <1>1, <3>1, <3>2 DEF PassBegin
  <2>2. CASE Look(p)
    <3>1. mon'[p].local = meta[mon[p].addr] /\ ~IsOrphan(mon[p].addr)
          /\ meta[mon[p].addr] # None
      BY <1>1, <2>2 DEF Look, InLoop, It, MonIdle
    <3> QED
      BY <1>1, <2>2, <3>1 DEF Look, IsOrphan
  <2>3. CASE PassWork(p) /\ ~Look(p)
    <3>1. ASSUME NEW view \in Views, Fetch(p, view)
          PROVE  mon'[p].local = mon[p].local /\ \A q \in Runs \ {p} : mon'[q] = mon[q]
      BY <1>1, <3>1 DEF Fetch, Passes
    <3>2. ASSUME Refresh(p)
          PROVE  /\ mon'[p].local = mon[p].local \/ mon'[p].local = None
                 /\ \A q \in Runs \ {p} : mon'[q] = mon[q]
      BY <1>1, <3>2 DEF Refresh, Passes, MonIdle
    <3>3. ASSUME NEW label, Goto(p, label)
          PROVE  mon'[p].local = mon[p].local /\ \A q \in Runs \ {p} : mon'[q] = mon[q]
      BY <1>1, <3>3 DEF Goto, Passes
    <3>4. ASSUME Leave(p)
          PROVE  mon'[p].local = None /\ \A q \in Runs \ {p} : mon'[q] = mon[q]
      BY <1>1, <3>4 DEF Leave, MonIdle
    <3>5. \/ \E view \in Views : Fetch(p, view)
          \/ Refresh(p) \/ Leave(p)
          \/ \E label \in {"adopt", "refresh", "ghost", "closing"} : Goto(p, label)
      BY <2>3 DEF PassWork, AdoptAdd, AdoptSet, Reclaim, Close, SkipOrphan,
                  SeeGhost, RemoveGhost, LeaveAlone, CleanUpAbsent, Decide
    <3> QED
      BY <3>1, <3>2, <3>3, <3>4, <3>5 DEF OrphansApart
  <2> QED
    BY <2>1, <2>2, <2>3
<1>3. \A a \in Addrs : IsOrphan(a)' => IsOrphan(a)
  <2>1. \/ UNCHANGED meta
        \/ meta' = [meta EXCEPT ![mon[p].addr] = None]
        \/ meta' = [meta EXCEPT ![mon[p].addr] = Managed]
        \/ mon[p].step = "decide" /\ meta' = [meta EXCEPT ![mon[p].addr] = mon[p].local]
    BY DEF PassWork, PassBegin, Fetch, AdoptAdd, AdoptSet, Refresh, Reclaim, Close,
           SkipOrphan, SeeGhost, RemoveGhost, LeaveAlone, CleanUpAbsent, Look, Decide, It
  <2>2. ~Managed.orphan
    BY DEF Managed
  <2> QED
    BY <1>1, <2>1, <2>2 DEF OrphansApart, IsOrphan
<1> QED
  BY <1>1, <1>2, <1>3 DEF OrphansApart

LEMMA NextApart ==
  ASSUME TInv, OrphansApart, [Next]_vars
  PROVE  OrphansApart'
<1>0. TypeOK /\ Addressed
  BY DEF TInv
<1>1. CASE UNCHANGED vars
  BY <1>1 DEF vars, OrphansApart, IsOrphan
<1>2. ASSUME NEW a \in Addrs, Index(a) \/ ExternalClose(a) PROVE OrphansApart'
  BY <1>2 DEF Index, ExternalClose, OrphansApart, IsOrphan
<1>3. ASSUME NEW a \in Addrs, Age(a) PROVE OrphansApart'
  <2>1. \A b \in Addrs : IsOrphan(b)' = IsOrphan(b)
    BY <1>0, <1>3, TrackingAssumption DEF Age, IsOrphan, TypeOK, Metadata
  <2>2. \A p \in Runs : mon'[p].local # None =>
          mon[p].local # None /\ mon'[p].local.orphan = mon[p].local.orphan
    BY <1>0, <1>3 DEF Age, TypeOK, Passes, Metadata
  <2>3. pl.step = "set" => pl.addr \in Addrs
    BY <1>0 DEF Addressed
  <2> QED
    BY <1>3, <2>1, <2>2, <2>3 DEF Age, OrphansApart
<1> QED
  BY <1>1, <1>2, <1>3, DeployApart, PipelineApart, PassApart DEF Next

\* Who might take an abandoned orphan up: nobody does.
LEMMA AbandonedPass ==
  ASSUME TInv, NEW a \in Addrs, Abandoned(a), NEW p \in Runs,
         PassWork(p) \/ \E b \in Addrs : PassBegin(p, b)
  PROVE  Abandoned(a)' /\ UNCHANGED chain[a]
<1>1. /\ mon \in [Runs -> Passes] /\ mon[p] \in Passes /\ None # a
      /\ meta \in [Addrs -> Metadata \cup {None}] /\ chain \in [Addrs -> Accounts]
      /\ mon[p].step # "idle" => mon[p].addr \in Addrs
      /\ a \in active /\ IsOrphan(a)
      /\ mon[p].addr = a => mon[p].tracked /\ mon[p].step \in {"fetch", "refresh", "main"}
  BY TrackingAssumption DEF TInv, TypeOK, Addressed, Abandoned
<1>2. ASSUME \A q \in Runs \ {p} : mon'[q] = mon[q],
             mon'[p].addr = a => /\ mon'[p].tracked
                                 /\ mon'[p].step \in {"fetch", "refresh", "main"},
             a \in active', meta'[a] = meta[a]
      PROVE  Abandoned(a)'
  BY <1>2 DEF Abandoned, IsOrphan
<1>3. CASE \E b \in Addrs : PassBegin(p, b)
  <2>1. PICK b \in Addrs : PassBegin(p, b)
    BY <1>3
  <2>2. /\ mon'[p].addr = b /\ mon'[p].step = "fetch" /\ mon'[p].tracked = (b \in active)
        /\ \A q \in Runs \ {p} : mon'[q] = mon[q]
    BY <1>1, <2>1 DEF PassBegin, MonIdle
  <2> QED
    BY <1>1, <1>2, <2>1, <2>2 DEF PassBegin
<1>4. CASE mon[p].addr = a /\ PassWork(p)
  <2>1. CASE mon[p].step = "fetch"
    <3>1. PICK view \in Views : Fetch(p, view)
      BY <1>4, <2>1 DEF PassWork, AdoptAdd, AdoptSet, Refresh, Reclaim, Close, SkipOrphan,
                        SeeGhost, RemoveGhost, LeaveAlone, CleanUpAbsent, Look, Decide, InLoop
    <3>2. ~Untracked(p, view)
      BY <1>1, <1>4 DEF Untracked
    <3>3. /\ mon'[p].step = "refresh" /\ mon'[p].tracked = mon[p].tracked
          /\ \A q \in Runs \ {p} : mon'[q] = mon[q]
      BY <1>1, <3>1, <3>2 DEF Fetch, Passes
    <3> QED
      BY <1>1, <1>2, <1>4, <3>1, <3>3 DEF Fetch
  <2>2. CASE mon[p].step = "refresh"
    <3>1. Refresh(p)
      BY <1>4, <2>2 DEF PassWork, Fetch, AdoptAdd, AdoptSet, Reclaim, Close, SkipOrphan,
                        SeeGhost, RemoveGhost, LeaveAlone, CleanUpAbsent, Look, Decide, InLoop
    <3>2. /\ mon'[p].step = "main" /\ mon'[p].tracked
          /\ \A q \in Runs \ {p} : mon'[q] = mon[q]
      BY <1>1, <1>4, <3>1 DEF Refresh, It, Passes
    <3> QED
      BY <1>1, <1>2, <3>1, <3>2 DEF Refresh
  <2>3. CASE mon[p].step = "main"
    <3>1. SkipOrphan(p)
      BY <1>1, <1>4, <2>3 DEF PassWork, Fetch, AdoptAdd, AdoptSet, Refresh, Reclaim, Close,
           SeeGhost, RemoveGhost, LeaveAlone, CleanUpAbsent, Look, Decide, InLoop, It, IsOrphan
    <3>2. mon'[p].addr = None /\ \A q \in Runs \ {p} : mon'[q] = mon[q]
      BY <1>1, <3>1 DEF SkipOrphan, Leave, MonIdle
    <3> QED
      BY <1>1, <1>2, <3>1, <3>2 DEF SkipOrphan
  <2> QED
    BY <1>1, <1>4, <2>1, <2>2, <2>3
<1>5. CASE mon[p].addr # a /\ PassWork(p)
  <2>1. /\ UNCHANGED meta[a] /\ UNCHANGED chain[a]
        /\ a \in active'
    BY <1>1, <1>5 DEF PassWork, Fetch, AdoptAdd, AdoptSet, Refresh, Reclaim, Close,
         SkipOrphan, SeeGhost, RemoveGhost, LeaveAlone, CleanUpAbsent, Look, Decide, It
  <2>2. /\ mon'[p].addr # a
        /\ \A q \in Runs \ {p} : mon'[q] = mon[q]
    <3>1. CASE \E view \in Views : Fetch(p, view)
      BY <1>1, <1>5, <3>1 DEF Fetch, Passes
    <3>2. CASE Refresh(p)
      BY <1>1, <1>5, <3>2 DEF Refresh, MonIdle, Passes
    <3>3. CASE Look(p)
      BY <1>1, <1>5, <3>3 DEF Look, It, MonIdle
    <3>4. CASE Leave(p)
      BY <1>1, <1>5, <3>4 DEF Leave, MonIdle
    <3>5. ASSUME NEW label, Goto(p, label)
          PROVE  /\ mon'[p].addr # a
                 /\ \A q \in Runs \ {p} : mon'[q] = mon[q]
      BY <1>1, <1>5, <3>5 DEF Goto, Passes
    <3>6. \/ \E view \in Views : Fetch(p, view)
          \/ Refresh(p) \/ Look(p) \/ Leave(p)
          \/ \E label \in {"adopt", "refresh", "ghost", "closing"} : Goto(p, label)
      BY <1>5 DEF PassWork, AdoptAdd, AdoptSet, Reclaim, Close, SkipOrphan, SeeGhost,
                  RemoveGhost, LeaveAlone, CleanUpAbsent, Decide
    <3> QED
      BY <3>1, <3>2, <3>3, <3>4, <3>5, <3>6
  <2> QED
    BY <1>2, <2>1, <2>2
<1> QED
  BY <1>3, <1>4, <1>5

LEMMA AbandonedStep ==
  ASSUME TInv, OrphansApart, NEW a \in Addrs, Abandoned(a), chain[a] # "absent", [Next]_vars
  PROVE  Abandoned(a)' /\ (UNCHANGED chain[a] \/ ExternalClose(a))
<1>1. /\ TypeOK /\ Addressed /\ a \in active /\ IsOrphan(a) /\ ex.addr # a
      /\ pl.step = "set" => pl.addr # a
      /\ meta[a].old => EverywhereListed(a)
  BY DEF TInv, AgedIsListed, Aged, Abandoned, OrphansApart, IsOrphan
<1>2. ASSUME UNCHANGED mon, a \in active', IsOrphan(a)' PROVE Abandoned(a)'
  BY <1>2 DEF Abandoned
<1>3. CASE UNCHANGED vars
  BY <1>1, <1>2, <1>3 DEF vars, IsOrphan
<1>4. CASE DeployStep
  <2>1. /\ UNCHANGED <<mon, active, meta>>
        /\ UNCHANGED chain \/ \E s : chain' = [chain EXCEPT ![ex.addr] = s]
    BY <1>4 DEF DeployStep, SendNarrow, MintWide, AddChunk, CleanUp, ExecutorDies
  <2> QED
    BY <1>1, <1>2, <2>1 DEF IsOrphan, TypeOK
<1>5. CASE PipelineWork \/ PipelineKilled
  <2>1. UNCHANGED <<mon, chain>>
    BY <1>5 DEF PipelineWork, PipelineKilled, PipelineStart, PipelineReconcile, PipelinePick,
                PipelineAnswer, PipelineSet, PipelineAdd, OrphanAdd, OrphanSet
  <2>2. a \in active' /\ IsOrphan(a)'
    <3>1. CASE PipelineReconcile
      <4>1. pl.listed # None => ~Prunable(a)
        BY <1>1 DEF Prunable, EverywhereListed, IsOrphan
      <4> QED
        BY <1>1, <3>1, <4>1 DEF PipelineReconcile, IsOrphan
    <3>2. CASE PipelineSet \/ OrphanSet
      <4>1. UNCHANGED meta[a] \/ meta'[a] = Orphan
        BY <1>1, <3>2 DEF PipelineSet, OrphanSet, TypeOK
      <4>2. Orphan \in Metadata /\ Orphan.orphan
        BY DEF Orphan, Metadata
      <4> QED
        BY <1>1, <3>2, <4>1, <4>2, TrackingAssumption DEF PipelineSet, OrphanSet, IsOrphan
    <3> QED
      BY <1>1, <1>5, <3>1, <3>2
      DEF PipelineWork, PipelineKilled, PipelineStart, PipelinePick, PipelineAnswer,
          PipelineAdd, OrphanAdd, IsOrphan
  <2> QED
    BY <1>2, <2>1, <2>2
<1>6. ASSUME NEW p \in Runs, PassWork(p) \/ \E b \in Addrs : PassBegin(p, b)
      PROVE  Abandoned(a)' /\ UNCHANGED chain[a]
  BY <1>6, AbandonedPass
<1>7. ASSUME NEW b \in Addrs, Index(b) \/ ExternalClose(b)
      PROVE  Abandoned(a)' /\ (UNCHANGED chain[a] \/ ExternalClose(a))
  BY <1>1, <1>2, <1>7 DEF Index, ExternalClose, IsOrphan, TypeOK
<1>8. ASSUME NEW b \in Addrs, Age(b)
      PROVE  Abandoned(a)' /\ UNCHANGED chain[a]
  <2>1. IsOrphan(a)' /\ a \in active' /\ UNCHANGED chain
    BY <1>1, <1>8, TrackingAssumption DEF Age, IsOrphan, TypeOK, Metadata
  <2>2. \A p \in Runs : /\ mon'[p].addr = mon[p].addr /\ mon'[p].step = mon[p].step
                        /\ mon'[p].tracked = mon[p].tracked
    BY <1>1, <1>8 DEF Age, TypeOK, Passes
  <2> QED
    BY <2>1, <2>2 DEF Abandoned
<1> QED
  BY <1>3, <1>4, <1>5, <1>6, <1>7, <1>8 DEF Next

\* An orphan the pipeline left for the monitor, once no pass of before is at its address,
\* stays open and tracked until its owner closes it by hand: reconciliation looks at
\* untracked addresses only, the loop skips orphans, the prune finds it listed (monitor 897,
\* 941; pipeline 349-392, 1543-1549).
THEOREM OrphansStay ==
  Spec => [][\A a \in Addrs : Abandoned(a) /\ chain[a] # "absent" =>
               Abandoned(a)' /\ (chain'[a] # "absent" \/ ExternalClose(a))]_vars
<1>1. Init => OrphansApart
  BY TrackingAssumption DEF Init, OrphansApart, IsOrphan, ExIdle, PlIdle, MonIdle
<1>2. TInv /\ OrphansApart /\ [Next]_vars => OrphansApart'
  BY NextApart
<1>3. TInv /\ OrphansApart /\ [Next]_vars =>
        [\A a \in Addrs : Abandoned(a) /\ chain[a] # "absent" =>
               Abandoned(a)' /\ (chain'[a] # "absent" \/ ExternalClose(a))]_vars
  BY AbandonedStep
<1> QED
  BY <1>1, <1>2, <1>3, Invariance, PTL DEF Spec
================================================================================
