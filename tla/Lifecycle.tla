------------------------------ MODULE Lifecycle ------------------------------
(***************************************************************************)
(* The pause and resume of one ManagedWorkload: the reconciler of          *)
(* internal/controller, the Pauser of internal/lifecycle it drives, and    *)
(* what they share with the rest of a cluster.                             *)
(*                                                                         *)
(* The API server holds the ManagedWorkload, its target (a Deployment or   *)
(* StatefulSet) and the ScaledObject by which KEDA may scale the target.   *)
(* The operator reads the first two through informer caches, copies that   *)
(* lag, and reads past the caches where the code does.  One reconcile runs *)
(* at a time; each of its API writes is a step of its own, so everyone     *)
(* else may act, a write may fail, and the operator may die, between any   *)
(* two of them.  Live reads with no write between them are one step with   *)
(* the decision taken on them.                                             *)
(*                                                                         *)
(* A write of a ManagedWorkload carries the resource version it was read   *)
(* at and loses to any write since.  The model keeps no versions: wFresh   *)
(* and seenFresh say whether a copy is of the current one.                 *)
(***************************************************************************)
EXTENDS Integers

CONSTANTS
  MaxReplicas,      \* the most replicas anyone gives the target
  AutoMin, AutoMax, \* the range of the target's autoscaler
  Keda,             \* whether that autoscaler is a KEDA ScaledObject
  OwnHolds,         \* the paused-replicas the ScaledObject may have of its own
  MaxToken,         \* bounds the values of each request annotation
  Budget,           \* bounds what everyone but the operator does
  Externals,        \* the kinds of thing they do
  Lag,              \* whether the ManagedWorkload's cache lags as a reconcile reads it
  NoPause           \* no pause record

NoHold == -1        \* a ScaledObject without the paused-replicas annotation

Replicas == 0..MaxReplicas
Holds == Replicas \cup {NoHold}
Tokens == 0..MaxToken

ASSUME BoundsAssumption ==
  /\ MaxReplicas \in Nat \ {0} /\ AutoMin \in Nat /\ AutoMax \in Nat \ {0}
  /\ AutoMin <= AutoMax /\ AutoMax <= MaxReplicas
  /\ MaxToken \in Nat /\ Budget \in Nat
ASSUME KedaAssumption ==
  /\ Keda \in BOOLEAN /\ Lag \in BOOLEAN
  /\ OwnHolds \subseteq Holds /\ OwnHolds # {}
  /\ ~Keda => OwnHolds = {NoHold}

Phases == {"New", "Running", "Idle", "Pausing", "Paused", "Resuming"}
Awake == {"Running", "Idle"}
Midway == {"Pausing", "Paused", "Resuming"}

\* The copy of a pause record the target carries, and the record itself.
PausedFrom == [replicas : 1..MaxReplicas, hold : Holds]
PauseStatus ==
  [from : PausedFrom, pausedAt : BOOLEAN, resumedAt : BOOLEAN,
   firstReadyAt : BOOLEAN, wakeAnnotation : Tokens]

ASSUME NoPauseAssumption == NoPause \notin PauseStatus \cup PausedFrom

ManagedWorkload ==
  [phase : Phases, pause : PauseStatus \cup {NoPause}, dryRun : BOOLEAN,
   pauseRequested : Tokens, lastPauseRequest : Tokens,
   wakeRequested : Tokens, lastWakeRequest : Tokens, lastActivity : Tokens,
   finalizer : BOOLEAN, deleting : BOOLEAN, gone : BOOLEAN]

\* A target's pods, as its status tells them: "stale" is a status written
\* before its controller saw the current spec, with the pods of before.
PodStates == {"stale", "stopped", "starting", "partial", "ready"}
Target ==
  [exists : BOOLEAN, replicas : Replicas, pods : PodStates,
   pausedFrom : PausedFrom \cup {NoPause}, ignored : BOOLEAN]

Fresh ==
  [phase |-> "New", pause |-> NoPause, dryRun |-> FALSE,
   pauseRequested |-> 0, lastPauseRequest |-> 0,
   wakeRequested |-> 0, lastWakeRequest |-> 0, lastActivity |-> 0,
   finalizer |-> FALSE, deleting |-> FALSE, gone |-> FALSE]

VARIABLES
  mw,          \* the ManagedWorkload, at the API server
  tgt,         \* its target, at the API server
  hold,        \* the ScaledObject's paused-replicas annotation
  seenMw,      \* the ManagedWorkload in the operator's cache
  seenFresh,   \* whether that's its current version
  seenTgt,     \* the target in the operator's cache
  queued,      \* whether the workload is queued for a reconcile
  pc,          \* what the reconcile does next
  then,        \* what it does once the write or release under way is done
  w,           \* its copy of the ManagedWorkload, as it changes it
  wFresh,      \* whether that was read at the current version
  n,           \* the replicas it scales the target to
  scale,       \* its read of the target's scale: "zero", "up", or "stale"
  offByUs,     \* history: the target is at zero, and Napwake scaled it there
  took,        \* history: the replicas Napwake scaled the target down from
  own,         \* history: the ScaledObject's annotation before Napwake held it
  acted,       \* history: the pause requests that began a pause
  left         \* what's left of Budget

api == <<mw, tgt, hold>>
caches == <<seenMw, seenFresh, seenTgt>>
local == <<pc, then, w, wFresh, n, scale>>
history == <<offByUs, took, own, acted>>
vars == <<api, caches, queued, local, history, left>>

Steps ==
  {"idle", "entry", "write", "recover", "ignored", "managed", "scaledUp", "decide",
   "zero", "requests", "idleClock", "prepare", "copy", "holdZero", "scaleZero",
   "resume", "holdUp", "scaleUp", "ready", "restore", "restoreHold", "restoreScale",
   "release", "releaseGone", "drop", "recovered", "handedBack", "resumed",
   "deleted", "done", "again"}

TypeOK ==
  /\ mw \in ManagedWorkload /\ seenMw \in ManagedWorkload /\ w \in ManagedWorkload
  /\ tgt \in Target /\ seenTgt \in Target
  /\ hold \in Holds /\ own \in Holds
  /\ seenFresh \in BOOLEAN /\ wFresh \in BOOLEAN /\ queued \in BOOLEAN
  /\ pc \in Steps /\ then \in Steps
  /\ n \in Replicas /\ scale \in {"zero", "up", "stale"}
  /\ offByUs \in BOOLEAN /\ took \in Replicas /\ acted \subseteq Tokens
  /\ left \in 0..Budget

Init ==
  /\ mw = Fresh /\ seenMw = Fresh /\ seenFresh = TRUE
  /\ tgt \in [exists : {TRUE}, replicas : 1..MaxReplicas, pods : {"ready"},
              pausedFrom : {NoPause}, ignored : {FALSE}]
  /\ seenTgt = tgt
  /\ hold \in OwnHolds /\ own = hold
  /\ queued = TRUE
  /\ pc = "idle" /\ then = "done" /\ w = Fresh /\ wFresh = TRUE /\ n = 0 /\ scale = "up"
  /\ offByUs = FALSE /\ took = 0 /\ acted = {} /\ left = Budget

\* What others do, each kind of it drawn from one budget.
Spend(kind) == kind \in Externals /\ left > 0 /\ left' = left - 1

----------------------------------------------------------------------------
(* How a reconcile moves on. *)

Thinks == UNCHANGED <<api, caches, history, left>>

Goto(step) == pc' = step /\ UNCHANGED <<queued, then, w, wFresh, n, scale>>

\* Change the copy in memory to new, write it, and go on at next.
WriteThen(new, next) ==
  /\ w' = new /\ pc' = "write" /\ then' = next
  /\ UNCHANGED <<queued, wFresh, n, scale>>

\* The reconcile returns: with again, by an error or with RequeueAfter.
End(again) ==
  /\ pc' = "idle" /\ then' = "done" /\ w' = Fresh /\ wFresh' = TRUE
  /\ n' = 0 /\ scale' = "up" /\ queued' = (queued \/ again)

Retry == End(TRUE)

\* Hand the target back from new's record (Pauser.Restore), and go on at next.
RestoreThen(new, next) ==
  /\ w' = new /\ pc' = "restore" /\ then' = next
  /\ UNCHANGED <<queued, wFresh, n, scale>>

PendingPause(m) == m.pauseRequested \notin {0, m.lastPauseRequest}
PendingWake(m) == m.wakeRequested \notin {0, m.lastWakeRequest}
AnswerPause(m) == [m EXCEPT !.lastPauseRequest = m.pauseRequested]
AnswerWake(m) == [m EXCEPT !.lastWakeRequest = m.wakeRequested]

\* transition to Running clears the pause record in the same write.
ToRunning(m) == [m EXCEPT !.phase = "Running", !.pause = NoPause]
To(phase, m) == [m EXCEPT !.phase = phase]

ScaledDownByNapwake(m) ==
  \/ m.phase = "Paused"
  \/ m.phase = "Pausing" /\ m.pause # NoPause /\ m.pause.pausedAt

WokenByActivity(m) ==
  m.lastActivity # (IF m.pause = NoPause THEN 0 ELSE m.pause.wakeAnnotation)

\* What a paused workload is scaled back to, within its autoscaler's range.
Clamp(r) ==
  LET low == IF r < AutoMin THEN AutoMin ELSE r
  IN IF low > AutoMax THEN AutoMax ELSE low
UncappedReplicas(pause) == pause.from.replicas \* mutant: the autoscaler's range forgotten
ResumeReplicas(pause) ==
  LET r == Clamp(pause.from.replicas) IN IF r < 1 THEN 1 ELSE r

\* A status as the target's controller left it, once its spec is at r.
Rescaled(t, r) ==
  IF t.replicas = r THEN t ELSE [t EXCEPT !.replicas = r, !.pods = "stale"]

----------------------------------------------------------------------------
(* One reconcile: Reconcile of managedworkload_controller.go. *)

\* readWorkload, from the cache.
Start ==
  /\ pc = "idle" /\ queued
  /\ (Lag \/ seenFresh)
  /\ queued' = FALSE /\ w' = seenMw /\ wFresh' = seenFresh
  /\ pc' = IF seenMw.gone THEN "done" ELSE "entry"
  /\ UNCHANGED <<then, n, scale>> /\ Thinks

Done ==
  /\ pc \in {"done", "again"}
  /\ End(pc = "again") /\ Thinks

\* Status().Update, and the Updates of metadata: the write wins only over the
\* version it was read at.
Update ==
  /\ pc = "write" /\ wFresh /\ ~mw.gone
  /\ mw' = w
  /\ seenFresh' = FALSE
  /\ acted' = IF mw.phase \in Awake /\ w.phase = "Pausing" /\ w.lastPauseRequest # mw.lastPauseRequest
              THEN acted \cup {w.lastPauseRequest} ELSE acted
  /\ Goto(then)
  /\ UNCHANGED <<tgt, hold, seenMw, seenTgt, offByUs, took, own, left>>

UpdateConflict ==
  /\ pc = "write" /\ (~wFresh \/ mw.gone)
  /\ Retry /\ Thinks

EnsureFinalizer ==
  /\ pc = "entry" /\ ~w.deleting /\ ~w.finalizer
  /\ WriteThen([w EXCEPT !.finalizer = TRUE], "entry") /\ Thinks

\* Mutant: an earlier request left for the next reconcile to act on.
TakeOnUnanswered ==
  /\ pc = "entry" /\ ~w.deleting /\ w.finalizer /\ w.phase = "New"
  /\ WriteThen(ToRunning(w), "done") /\ Thinks

\* A ManagedWorkload without a status is taken on Running, its earlier pause
\* request answered without being acted on.
TakeOn ==
  /\ pc = "entry" /\ ~w.deleting /\ w.finalizer /\ w.phase = "New"
  /\ WriteThen(ToRunning(AnswerPause(w)), "done") /\ Thinks

Managed(m) == ~m.deleting /\ m.finalizer /\ m.phase # "New"

\* refuseRequests: each pending request is answered by a write of its own.
RefuseRequests(step) ==
  \/ PendingPause(w) /\ WriteThen(AnswerPause(w), step)
  \/ ~PendingPause(w) /\ PendingWake(w) /\ WriteThen(AnswerWake(w), step)

\* Mutant: requests wait for the target to come back.
TargetMissingUnanswered ==
  /\ pc = "entry" /\ Managed(w) /\ ~seenTgt.exists
  /\ Retry /\ Thinks

TargetMissing ==
  /\ pc = "entry" /\ Managed(w) /\ ~seenTgt.exists
  /\ \/ RefuseRequests("entry")
     \/ ~PendingPause(w) /\ ~PendingWake(w) /\ Retry
  /\ Thinks

\* recoverPause, of a status that has lost its pause record.
ForgetLostPause ==
  IF w.phase \in Midway THEN WriteThen(ToRunning(w), "done") ELSE Goto("ignored")

RecoverPause ==
  /\ pc = "entry" /\ Managed(w) /\ seenTgt.exists
  /\ \/ w.pause # NoPause /\ Goto("ignored")
     \/ w.pause = NoPause /\ seenTgt.pausedFrom = NoPause /\ ForgetLostPause
     \/ w.pause = NoPause /\ seenTgt.pausedFrom # NoPause /\ Goto("recover")
  /\ Thinks

\* The copy on the target and its replicas, read past the cache.
RecoverFromTarget ==
  /\ pc = "recover"
  /\ LET pause == [from |-> tgt.pausedFrom, pausedAt |-> FALSE, resumedAt |-> FALSE,
                   firstReadyAt |-> FALSE, wakeAnnotation |-> 0]
         again == [pause EXCEPT !.pausedAt = TRUE, !.wakeAnnotation = w.lastActivity]
     IN \/ ~tgt.exists /\ Retry
        \/ tgt.exists /\ tgt.pausedFrom = NoPause /\ ForgetLostPause
        \/ /\ tgt.exists /\ tgt.pausedFrom # NoPause /\ tgt.replicas > 0
           /\ RestoreThen([w EXCEPT !.pause = pause], "recovered")
        \/ /\ tgt.exists /\ tgt.pausedFrom # NoPause /\ tgt.replicas = 0
           /\ WriteThen(AnswerWake(AnswerPause([w EXCEPT !.phase = "Paused", !.pause = again])), "done")
  /\ Thinks

Recovered ==
  /\ pc = "recovered"
  /\ IF w.phase \in Midway THEN WriteThen(ToRunning(w), "done")
     ELSE /\ w' = [w EXCEPT !.pause = NoPause] /\ pc' = "ignored"
          /\ UNCHANGED <<queued, then, wFresh, n, scale>>
  /\ Thinks

\* Mutant: only a pause that's over is undone.
IgnoredUnlessPaused ==
  /\ pc = "ignored"
  /\ \/ ~seenTgt.ignored /\ Goto("managed")
     \/ /\ seenTgt.ignored
        /\ \/ RefuseRequests("ignored")
           \/ /\ ~PendingPause(w) /\ ~PendingWake(w)
              /\ IF w.phase = "Paused" THEN RestoreThen(w, "handedBack") ELSE Goto("again")
  /\ Thinks

\* reconcileIgnored, and reconcileProtected, which is the same but for what
\* it says: the target is handed back and the requests refused.
Ignored ==
  /\ pc = "ignored"
  /\ \/ ~seenTgt.ignored /\ Goto("managed")
     \/ /\ seenTgt.ignored
        /\ \/ RefuseRequests("ignored")
           \/ /\ ~PendingPause(w) /\ ~PendingWake(w)
              /\ \/ w.pause # NoPause /\ RestoreThen(w, "handedBack")
                 \/ w.pause = NoPause /\ w.phase # "Running" /\ Goto("handedBack")
                 \/ w.pause = NoPause /\ w.phase = "Running" /\ Goto("again")
  /\ Thinks

HandedBack ==
  /\ pc = "handedBack"
  /\ WriteThen(ToRunning(w), "again") /\ Thinks

\* wakeOnScaleUp: the target's replicas and the workload's phase are read
\* past the caches before anything is released.
WakeOnScaleUp ==
  /\ pc = "managed"
  /\ \/ /\ (~ScaledDownByNapwake(w) \/ seenTgt.replicas = 0)
        /\ Goto("decide")
     \/ /\ ScaledDownByNapwake(w) /\ seenTgt.replicas > 0
        /\ \/ (~tgt.exists \/ mw.gone) /\ Retry
           \/ tgt.exists /\ ~mw.gone /\ (tgt.replicas = 0 \/ mw.phase # w.phase) /\ Goto("decide")
           \/ tgt.exists /\ ~mw.gone /\ tgt.replicas > 0 /\ mw.phase = w.phase /\ RestoreThen(w, "scaledUp")
  /\ Thinks

ScaledUp ==
  /\ pc = "scaledUp"
  /\ WriteThen(ToRunning(w), "decide") /\ Thinks

\* staleForRouting: the cache hasn't seen a phase this operator has just
\* written.  Only a workload that would be routed, and written lately, is read
\* past the cache.
StaleForRouting ==
  /\ pc = "decide" /\ w.phase \in {"Paused", "Resuming"}
  /\ (mw.gone \/ mw.phase # w.phase)
  /\ Retry /\ Thinks

\* Mutant: a pause an earlier reconcile started isn't taken up again.
DecideAwake ==
  /\ pc = "decide"
  /\ \/ w.phase = "Pausing" /\ Goto("again")
     \/ w.phase = "Resuming" /\ Goto("resume")
     \/ w.phase \in Awake \cup {"Paused"} /\ Goto("requests")
  /\ Thinks

\* resumeTransition, then scaledToZero of an awake workload.
Decide ==
  /\ pc = "decide"
  /\ \/ /\ w.dryRun /\ w.phase \in {"Pausing", "Paused"}
        /\ WriteThen(To("Resuming", w), "resume")
     \/ ~w.dryRun /\ w.phase = "Pausing" /\ Goto("copy")
     \/ w.phase = "Resuming" /\ Goto("resume")
     \/ ~w.dryRun /\ w.phase = "Paused" /\ Goto("requests")
     \/ /\ w.phase \in Awake
        /\ \/ seenTgt.replicas = 0 /\ ~tgt.exists /\ Retry
           \/ seenTgt.replicas = 0 /\ tgt.exists /\ tgt.replicas = 0 /\ Goto("zero")
           \/ (seenTgt.replicas > 0 \/ tgt.replicas > 0) /\ Goto("requests")
  /\ Thinks

\* reconcileScaledToZero: off by someone else's doing, and left off.
ScaledToZero ==
  /\ pc = "zero"
  /\ \/ RefuseRequests("zero")
     \/ ~PendingPause(w) /\ ~PendingWake(w) /\ w.phase = "Idle" /\ WriteThen(ToRunning(w), "again")
     \/ ~PendingPause(w) /\ ~PendingWake(w) /\ w.phase = "Running" /\ Goto("again")
  /\ Thinks

\* Mutant: activity since the pause isn't looked at.
WokenByRequest ==
  /\ pc = "requests" /\ w.phase = "Paused"
  /\ \/ PendingWake(w) /\ WriteThen(To("Resuming", AnswerWake(AnswerPause(w))), "resume")
     \/ ~PendingWake(w) /\ PendingPause(w) /\ WriteThen(AnswerPause(w), "again")
     \/ ~PendingWake(w) /\ ~PendingPause(w) /\ Goto("again")
  /\ Thinks

\* reconcilePauseRequest and, of a paused workload, reconcileWake.  Demand is
\* a Prometheus query's or the forecast's; a hold is active-until's, awake
\* dependents' or the forecast's.
WokenOrStaysPaused ==
  /\ pc = "requests" /\ w.phase = "Paused"
  /\ LET m == AnswerPause(w)
         woken == WokenByActivity(w) \/ PendingWake(w)
     IN \/ /\ (woken \/ "demand" \in Externals)
           /\ WriteThen(To("Resuming", AnswerWake(m)), "resume")
        \/ ~woken /\ PendingPause(w) /\ WriteThen(m, "again")
        \/ ~woken /\ ~PendingPause(w) /\ Goto("again")
  /\ Thinks

PauseRequest ==
  /\ pc = "requests" /\ w.phase \in Awake
  /\ \/ ~PendingPause(w) /\ Goto("idleClock")
     \/ /\ PendingPause(w) /\ "hold" \in Externals
        /\ WriteThen(AnswerPause(w), "requests")
     \/ /\ PendingPause(w) /\ w.dryRun
        /\ IF w.phase = "Running" THEN WriteThen(To("Idle", AnswerPause(w)), "again")
           ELSE Goto("idleClock")
     \/ /\ PendingPause(w) /\ ~w.dryRun
        /\ w' = AnswerPause(w) /\ pc' = "prepare"
        /\ UNCHANGED <<queued, then, wFresh, n, scale>>
  /\ Thinks

\* The idle clock runs out only minutes after a workload woke, by when the
\* cache shows the target as that wake left it.
ClockMayRunOut == "idle" \in Externals /\ seenTgt.pausedFrom = tgt.pausedFrom

\* answerAwakeWakeRequest, whose answer restarts the idle clock, and then
\* reconcileIdleClock and persistStatus.  The clock's verdict is any: the
\* workload is active, it can't be told or something holds it, or it's idle.
IdleClock ==
  /\ pc = "idleClock"
  /\ LET m == AnswerWake(IF w.phase = "Idle" THEN AnswerPause(w) ELSE w)
         persist == IF m # w THEN WriteThen(m, "again") ELSE Goto("again")
     IN \/ IF w.phase = "Idle" THEN WriteThen(ToRunning(m), "again") ELSE persist
        \/ ~PendingWake(w) /\ w.phase = "Idle" /\ ClockMayRunOut /\ persist
        \/ /\ ~PendingWake(w) /\ w.phase = "Running" /\ ClockMayRunOut
           /\ WriteThen(To("Idle", m), IF w.dryRun THEN "again" ELSE "prepare")
        \/ /\ ~PendingWake(w) /\ w.phase = "Idle" /\ ClockMayRunOut
           /\ ~w.dryRun /\ Goto("prepare")
  /\ Thinks

----------------------------------------------------------------------------
(* handlePause and Pauser.Pause *)

Recorded ==
  [w EXCEPT
     !.phase = "Pausing",
     !.pause = [from |-> [replicas |-> tgt.replicas, hold |-> hold],
                pausedAt |-> FALSE, resumedAt |-> FALSE, firstReadyAt |-> FALSE,
                wakeAnnotation |-> w.lastActivity]]

\* Mutants: a target others scaled to zero meanwhile is recorded too; the
\* record isn't copied; it's written once the target is scaled.
PrepareUnchecked ==
  /\ pc = "prepare" /\ seenTgt.exists /\ tgt.exists
  /\ WriteThen(Recorded, "copy") /\ Thinks
PrepareUncopied ==
  /\ pc = "prepare"
  /\ \/ (~seenTgt.exists \/ ~tgt.exists \/ tgt.replicas = 0) /\ Retry
     \/ seenTgt.exists /\ tgt.exists /\ tgt.replicas > 0 /\ WriteThen(Recorded, "scaleZero")
  /\ Thinks
PrepareUnwritten ==
  /\ pc = "prepare"
  /\ \/ (~seenTgt.exists \/ ~tgt.exists \/ tgt.replicas = 0) /\ Retry
     \/ /\ seenTgt.exists /\ tgt.exists /\ tgt.replicas > 0
        /\ w' = Recorded /\ pc' = "copy" /\ UNCHANGED <<queued, then, wFresh, n, scale>>
  /\ Thinks

\* preparePause: the replicas and the ScaledObject are read past the cache,
\* and the record of them is written as the workload enters Pausing.
Prepare ==
  /\ pc = "prepare"
  /\ \/ (~seenTgt.exists \/ ~tgt.exists \/ tgt.replicas = 0) /\ Retry
     \/ /\ seenTgt.exists /\ tgt.exists /\ tgt.replicas > 0
        /\ WriteThen(Recorded, "copy")
  /\ Thinks

\* copyRecord: the copy is compared with the cached target's, and patched.
CopyRecord ==
  /\ pc = "copy"
  /\ LET next == IF Keda THEN "holdZero" ELSE "scaleZero"
     IN \/ /\ (~seenTgt.exists \/ (seenTgt.pausedFrom # w.pause.from /\ ~tgt.exists))
           /\ Retry /\ UNCHANGED tgt
        \/ /\ seenTgt.exists /\ seenTgt.pausedFrom = w.pause.from
           /\ Goto(next) /\ UNCHANGED tgt
        \/ /\ seenTgt.exists /\ seenTgt.pausedFrom # w.pause.from /\ tgt.exists
           /\ tgt' = [tgt EXCEPT !.pausedFrom = w.pause.from]
           /\ Goto(next)
  /\ UNCHANGED <<mw, hold, caches, history, left>>

HoldAtZero ==
  /\ pc = "holdZero"
  /\ hold' = 0 /\ Goto("scaleZero")
  /\ UNCHANGED <<mw, tgt, caches, history, left>>

\* scaleTo zero, and whether the pause is over: its pods have stopped, or
\* stopWait has passed since a scale-down an earlier reconcile recorded.
ScaleToZero ==
  /\ pc = "scaleZero"
  /\ \/ ~tgt.exists /\ Retry /\ UNCHANGED <<tgt, offByUs, took>>
     \/ /\ tgt.exists
        /\ tgt' = Rescaled(tgt, 0)
        /\ offByUs' = (offByUs \/ tgt.replicas > 0)
        /\ took' = IF tgt.replicas > 0 THEN tgt.replicas ELSE took
        /\ LET m == [w EXCEPT !.pause.pausedAt = TRUE]
           IN \/ /\ (tgt.pods = "stopped" \/ w.pause.pausedAt)
                 /\ WriteThen(To("Paused", m), "again")
              \/ tgt.pods # "stopped" /\ ~w.pause.pausedAt /\ WriteThen(m, "again")
              \/ tgt.pods # "stopped" /\ w.pause.pausedAt /\ Retry
  /\ UNCHANGED <<mw, hold, caches, own, acted, left>>

----------------------------------------------------------------------------
(* handleResume and Pauser.Resume *)

\* Mutant: a target still at zero is taken for one scaled there since.
ResumeUnlessZero ==
  /\ pc = "resume" /\ seenTgt.exists /\ tgt.exists
  /\ IF tgt.replicas = 0
     THEN pc' = "release" /\ then' = "resumed" /\ UNCHANGED <<queued, w, wFresh, n, scale>>
     ELSE n' = tgt.replicas /\ pc' = "ready" /\ UNCHANGED <<queued, then, w, wFresh, scale>>
  /\ Thinks

\* The autoscaler and the scale are read past the cache.  A target at zero
\* after the scale-up was written was scaled there by someone else.
Resume ==
  /\ pc = "resume"
  /\ \/ (~seenTgt.exists \/ ~tgt.exists) /\ Retry
     \/ /\ seenTgt.exists /\ tgt.exists /\ tgt.replicas = 0 /\ w.pause.resumedAt
        /\ pc' = "release" /\ then' = "resumed" /\ UNCHANGED <<queued, w, wFresh, n, scale>>
     \/ /\ seenTgt.exists /\ tgt.exists /\ (tgt.replicas > 0 \/ ~w.pause.resumedAt)
        /\ n' = (IF tgt.replicas > 0 THEN tgt.replicas ELSE ResumeReplicas(w.pause))
        /\ scale' = (IF tgt.replicas > 0 THEN "up" ELSE "zero")
        /\ pc' = (IF Keda /\ hold # n' THEN "holdUp" ELSE IF scale' = "zero" THEN "scaleUp" ELSE "ready")
        /\ UNCHANGED <<queued, then, w, wFresh>>
  /\ Thinks

HoldAtRestored ==
  /\ pc = "holdUp"
  /\ hold' = n /\ Goto(IF scale = "zero" THEN "scaleUp" ELSE "ready")
  /\ UNCHANGED <<mw, tgt, caches, history, left>>

\* scaleTo, which reads the scale again and writes it.
ScaleUp ==
  /\ pc = "scaleUp"
  /\ \/ ~tgt.exists /\ Retry /\ UNCHANGED <<tgt, offByUs>>
     \/ /\ tgt.exists /\ tgt' = Rescaled(tgt, n) /\ offByUs' = FALSE
        /\ Goto("ready")
  /\ UNCHANGED <<mw, hold, caches, took, own, acted, left>>

\* readyOf the cached target: a target not yet seen at the replicas wanted,
\* or a status from before them, counts none Ready.
ReadyOf ==
  IF seenTgt.replicas # n \/ seenTgt.pods \in {"stale", "starting", "stopped"} THEN "none"
  ELSE IF seenTgt.pods = "partial" THEN "some" ELSE "all"

\* Mutant: the ScaledObject isn't released.
SettleHeld ==
  /\ pc = "ready" /\ seenTgt.exists /\ ReadyOf = "all"
  /\ pc' = "drop" /\ then' = "resumed"
  /\ UNCHANGED <<queued, w, wFresh, n, scale>> /\ Thinks

\* Settled with all Ready, with some once ServingWait has passed since the
\* first was recorded, or with none once the progress deadline has since the
\* scale-up was.
Settle ==
  /\ pc = "ready" /\ seenTgt.exists
  /\ \/ ReadyOf = "all"
     \/ ReadyOf = "some" /\ w.pause.firstReadyAt
     \/ ReadyOf = "none" /\ w.pause.resumedAt
  /\ pc' = "release" /\ then' = "resumed"
  /\ UNCHANGED <<queued, w, wFresh, n, scale>> /\ Thinks

RecordResumeProgress ==
  /\ pc = "ready"
  /\ LET m == [w EXCEPT !.pause.resumedAt = TRUE,
                        !.pause.firstReadyAt = (@ \/ ReadyOf = "some")]
     IN \/ ~seenTgt.exists /\ Retry
        \/ seenTgt.exists /\ ReadyOf # "all" /\ m # w /\ WriteThen(m, "again")
        \/ seenTgt.exists /\ ReadyOf # "all" /\ m = w /\ Retry
  /\ Thinks

Resumed ==
  /\ pc = "resumed"
  /\ WriteThen(ToRunning(w), "done") /\ Thinks

----------------------------------------------------------------------------
(* Pauser.Restore and release *)

\* Mutant: a target that's gone fails the hand-back.
RestoreExisting ==
  /\ pc = "restore"
  /\ \/ (~seenTgt.exists \/ ~tgt.exists) /\ Retry
     \/ seenTgt.exists /\ tgt.exists /\ tgt.replicas > 0 /\ Goto("release")
     \/ /\ seenTgt.exists /\ tgt.exists /\ tgt.replicas = 0
        /\ n' = ResumeReplicas(w.pause) /\ scale' = "zero"
        /\ pc' = (IF Keda THEN "restoreHold" ELSE "restoreScale")
        /\ UNCHANGED <<queued, then, w, wFresh>>
  /\ Thinks

Restore ==
  /\ pc = "restore"
  /\ \/ ~seenTgt.exists /\ Goto("releaseGone")
     \/ seenTgt.exists /\ ~tgt.exists /\ Retry
     \/ seenTgt.exists /\ tgt.exists /\ tgt.replicas > 0 /\ Goto("release")
     \/ /\ seenTgt.exists /\ tgt.exists /\ tgt.replicas = 0
        /\ n' = ResumeReplicas(w.pause) /\ scale' = "zero"
        /\ pc' = (IF Keda THEN "restoreHold" ELSE "restoreScale")
        /\ UNCHANGED <<queued, then, w, wFresh>>
  /\ Thinks

RestoreHold ==
  /\ pc = "restoreHold"
  /\ hold' = n /\ Goto("restoreScale")
  /\ UNCHANGED <<mw, tgt, caches, history, left>>

\* UpdateScale of the scale read: it loses to any write of the target since.
RestoreScale ==
  /\ pc = "restoreScale"
  /\ \/ (scale = "stale" \/ ~tgt.exists) /\ Retry /\ UNCHANGED <<tgt, offByUs>>
     \/ /\ scale # "stale" /\ tgt.exists
        /\ tgt' = Rescaled(tgt, n) /\ offByUs' = FALSE
        /\ Goto("release")
  /\ UNCHANGED <<mw, hold, caches, took, own, acted, left>>

\* ReleaseKEDA: what the target runs is the autoscaler's from here.
ReleaseKEDA ==
  /\ pc \in {"release", "releaseGone"}
  /\ hold' = (IF Keda THEN w.pause.from.hold ELSE hold)
  /\ offByUs' = (offByUs /\ ~Keda)
  /\ Goto(IF pc = "release" THEN "drop" ELSE then)
  /\ UNCHANGED <<mw, tgt, caches, took, own, acted, left>>

\* dropRecord, whatever the cache shows.
DropRecord ==
  /\ pc = "drop"
  /\ tgt' = [tgt EXCEPT !.pausedFrom = NoPause]
  /\ Goto(then)
  /\ UNCHANGED <<mw, hold, caches, history, left>>

----------------------------------------------------------------------------
(* reconcileDelete *)

\* Mutant: only a pause that's over is undone.
DeleteUnlessPaused ==
  /\ pc = "entry" /\ w.deleting
  /\ \/ ~w.finalizer /\ Goto("done")
     \/ w.finalizer /\ w.phase = "Paused" /\ RestoreThen(w, "deleted")
     \/ w.finalizer /\ w.phase # "Paused" /\ Goto("deleted")
  /\ Thinks

Delete ==
  /\ pc = "entry" /\ w.deleting
  /\ \/ ~w.finalizer /\ Goto("done")
     \/ w.finalizer /\ w.pause # NoPause /\ RestoreThen(w, "deleted")
     \/ w.finalizer /\ w.pause = NoPause /\ Goto("deleted")
  /\ Thinks

\* The record is cleared, a wake request refused, and the finalizer removed
\* once no doorman port is draining.
Deleted ==
  /\ pc = "deleted"
  /\ LET m == [w EXCEPT !.pause = NoPause]
     IN \/ /\ PendingWake(m) /\ WriteThen(AnswerWake(m), "deleted")
           /\ UNCHANGED left
        \/ /\ ~PendingWake(m) /\ Spend("drain")
           /\ WriteThen(m, "again")
        \/ /\ ~PendingWake(m) /\ WriteThen([m EXCEPT !.finalizer = FALSE, !.gone = TRUE], "done")
           /\ UNCHANGED left
  /\ UNCHANGED <<api, caches, history>>

Reconcile ==
  \/ Start \/ Done \/ Update \/ UpdateConflict
  \/ EnsureFinalizer \/ TakeOn \/ TargetMissing
  \/ RecoverPause \/ RecoverFromTarget \/ Recovered
  \/ Ignored \/ HandedBack \/ WakeOnScaleUp \/ ScaledUp
  \/ StaleForRouting \/ Decide \/ ScaledToZero
  \/ WokenOrStaysPaused \/ PauseRequest \/ IdleClock
  \/ Prepare \/ CopyRecord \/ HoldAtZero \/ ScaleToZero
  \/ Resume \/ HoldAtRestored \/ ScaleUp \/ Settle \/ RecordResumeProgress \/ Resumed
  \/ Restore \/ RestoreHold \/ RestoreScale \/ ReleaseKEDA \/ DropRecord
  \/ Delete \/ Deleted

----------------------------------------------------------------------------
(* What the operator doesn't do: the caches, which catch up in their own   *)
(* time, and requeue the workload as they do; its own failures; the        *)
(* target's controller and KEDA; and whoever edits the two objects.        *)

DeliverWorkload ==
  /\ ~seenFresh
  /\ seenMw' = mw /\ seenFresh' = TRUE /\ queued' = TRUE
  /\ UNCHANGED <<api, seenTgt, local, history, left>>

DeliverTarget ==
  /\ seenTgt # tgt
  /\ seenTgt' = tgt /\ queued' = TRUE
  /\ UNCHANGED <<api, seenMw, seenFresh, local, history, left>>

\* A call fails, or the reconcile times out: it's retried from the start.
Fail ==
  /\ Spend("fail") /\ pc # "idle"
  /\ Retry /\ UNCHANGED <<api, caches, history>>

\* The operator dies, and the next one lists both objects afresh.
Crash ==
  /\ Spend("crash")
  /\ seenMw' = mw /\ seenFresh' = TRUE /\ seenTgt' = tgt
  /\ Retry /\ UNCHANGED <<api, history>>

TgtWritten(t) ==
  /\ tgt' = t
  /\ scale' = (IF scale = "zero" THEN "stale" ELSE scale)
  /\ UNCHANGED <<mw, hold, caches, queued, pc, then, w, wFresh, n, own, acted>>

PodsMove ==
  /\ \E pods \in PodStates :
       /\ \/ tgt.pods = "stale" /\ pods = (IF tgt.replicas = 0 THEN "stopped" ELSE "starting")
          \/ tgt.pods = "starting" /\ pods \in {"ready"} \cup (IF tgt.replicas > 1 THEN {"partial"} ELSE {})
          \/ tgt.pods = "partial" /\ pods = "ready"
       /\ TgtWritten([tgt EXCEPT !.pods = pods])
  /\ UNCHANGED <<offByUs, took, left>>

PodsFail ==
  /\ Spend("pods") /\ tgt.pods = "ready"
  /\ TgtWritten([tgt EXCEPT !.pods = "starting"])
  /\ UNCHANGED <<offByUs, took>>

\* KEDA keeps a held ScaledObject's target at the replicas it's held at,
\* which is Napwake's doing when Napwake held it.
KedaHolds ==
  /\ tgt.exists /\ hold # NoHold /\ tgt.replicas # hold
  /\ TgtWritten(Rescaled(tgt, hold))
  /\ offByUs' = (hold = 0 /\ own # 0)
  /\ took' = (IF hold = 0 /\ own # 0 THEN tgt.replicas ELSE took)
  /\ UNCHANGED left

\* Someone, or a GitOps tool, or an autoscaler, sets the target's replicas.
Scale ==
  /\ Spend("scale") /\ tgt.exists
  /\ \E r \in Replicas \ {tgt.replicas} : TgtWritten(Rescaled(tgt, r))
  /\ offByUs' = FALSE /\ UNCHANGED took

Ignore ==
  /\ Spend("ignore") /\ tgt.exists
  /\ TgtWritten([tgt EXCEPT !.ignored = ~@])
  /\ UNCHANGED <<offByUs, took>>

Recreate ==
  /\ Spend("recreate")
  /\ \/ /\ tgt.exists
        /\ TgtWritten([exists |-> FALSE, replicas |-> 0, pods |-> "stopped",
                       pausedFrom |-> NoPause, ignored |-> FALSE])
     \/ /\ ~tgt.exists
        /\ \E r \in 1..MaxReplicas : TgtWritten([Rescaled(tgt, r) EXCEPT !.exists = TRUE])
  /\ offByUs' = FALSE /\ UNCHANGED took

MwWritten(m) ==
  /\ ~mw.gone
  /\ mw' = m
  /\ seenFresh' = FALSE /\ wFresh' = (pc = "idle")
  /\ UNCHANGED <<tgt, hold, seenMw, seenTgt, queued, pc, then, w, n, scale, history>>

\* The annotations others set: pause and wake requests, and the activity
\* the doorman and other tools stamp.
Annotate ==
  \/ Spend("pause") /\ mw.pauseRequested < MaxToken /\ MwWritten([mw EXCEPT !.pauseRequested = @ + 1])
  \/ Spend("wake") /\ mw.wakeRequested < MaxToken /\ MwWritten([mw EXCEPT !.wakeRequested = @ + 1])
  \/ Spend("activity") /\ mw.lastActivity < MaxToken /\ MwWritten([mw EXCEPT !.lastActivity = @ + 1])

\* Edits of the spec, and ones that change nothing modelled.
Edit ==
  \/ Spend("dryRun") /\ MwWritten([mw EXCEPT !.dryRun = ~@])
  \/ Spend("touch") /\ MwWritten(mw)
  \/ /\ Spend("delete") /\ ~mw.deleting
     /\ MwWritten([mw EXCEPT !.deleting = TRUE, !.gone = ~mw.finalizer])

\* The status is lost, as to a backup restored without it.
LoseStatus ==
  /\ Spend("lose")
  /\ MwWritten([mw EXCEPT !.phase = "New", !.pause = NoPause,
                          !.lastPauseRequest = 0, !.lastWakeRequest = 0])

Catchup == DeliverWorkload \/ DeliverTarget
Cluster == PodsMove \/ KedaHolds
Outside ==
  \/ Fail \/ Crash \/ PodsFail \/ Scale \/ Ignore \/ Recreate
  \/ Annotate \/ Edit \/ LoseStatus

Next == Reconcile \/ Catchup \/ Cluster \/ Outside

Spec == Init /\ [][Next]_vars

\* The work queue serves what's queued, watches deliver what's written, and
\* the target's controller and KEDA do their part.  What a resume waits for is
\* timed from what the record says, so a retry doesn't start a wait over, and
\* one that's been retried for ever has run out.
FairSpec ==
  /\ Spec /\ WF_vars(Reconcile) /\ SF_vars(Settle)
  /\ WF_vars(DeliverWorkload) /\ WF_vars(DeliverTarget)
  /\ WF_vars(PodsMove) /\ WF_vars(KedaHolds)

----------------------------------------------------------------------------
(* What the operator owes the workload. *)

\* A target Napwake scaled to zero always has a record to be brought back
\* from: the ManagedWorkload's, or the copy on the target for when that's
\* lost (handlePause, copyRecord, dropRecord and recoverPause's order).
RecordKept ==
  tgt.exists /\ tgt.replicas = 0 /\ offByUs
    => mw.pause # NoPause \/ tgt.pausedFrom # NoPause

\* Napwake's scaling a target to zero leaves the copy of the record on it
\* ("the copy is written first", recoverPause), so that no lost status leaves
\* it off.
CopyWritten == tgt.exists /\ tgt.replicas = 0 /\ offByUs => tgt.pausedFrom # NoPause

\* A ScaledObject isn't held at replicas of Napwake's choosing but while a
\* record says what its own annotation was ("Settled, the workload's KEDA
\* ScaledObject is released", Pauser.Resume).
HoldRecorded == hold # own => mw.pause # NoPause \/ tgt.pausedFrom # NoPause

\* Once the ManagedWorkload is gone, nothing of Napwake's is left on the
\* target or its ScaledObject, and Napwake hasn't left it off
\* (reconcileDelete).
HandedBackWhenGone ==
  mw.gone /\ pc = "idle" => ~offByUs /\ hold = own /\ tgt.pausedFrom = NoPause

\* A step of the reconcile's own that scales the target down, or up.
ScalesDown == pc' # pc /\ tgt.exists /\ tgt'.exists /\ tgt'.replicas < tgt.replicas
ScalesUp == pc' # pc /\ tgt.exists /\ tgt'.exists /\ tgt'.replicas > tgt.replicas

\* Napwake never scales down a workload whose status says it's awake: the
\* pause is on record first, and a workload someone else has scaled back up
\* is left up ("rather than being scaled back down", scaledup.go).
NeverScalesDownAwake == [][ScalesDown => mw.phase \notin Awake]_vars

\* A workload is brought back with the replicas it was taken down from,
\* within its autoscaler's range, however often the pause and the resume
\* were interrupted and retried.
Restores == ScalesUp => tgt'.replicas = (IF Clamp(took) < 1 THEN 1 ELSE Clamp(took))
RestoresWhatItTook == [][Restores]_vars

\* A pause request is acted on once, however often it's read again by a
\* retry, a cache that lags, or a new leader (answerPauseRequest).
RequestActsOnce ==
  [][mw.phase \in Awake /\ mw'.phase = "Pausing" /\ mw'.lastPauseRequest # mw.lastPauseRequest
       => mw'.lastPauseRequest \notin acted]_vars

\* The lifecycle keeps PauseContract: the debt is the record, in the status or
\* copied on the target.  It's written before the target is turned off, and
\* the last of it dropped only once the target is on, or off by another's
\* doing (handlePause, Pauser.Pause, Pauser.release and reconcileDelete).
Contract == INSTANCE PauseContract WITH
  power <- IF tgt.replicas > 0 THEN "on" ELSE IF offByUs THEN "off" ELSE "out",
  owed <- mw.pause # NoPause \/ tgt.pausedFrom # NoPause
KeepsContract == Contract!Spec

\* Whoever asks is told: a request is answered, acted on or refused, whatever
\* the workload is doing, short of its deletion (refuseRequests).
RequestsAreAnswered ==
  /\ PendingPause(mw) ~> ~PendingPause(mw) \/ mw.deleting
  /\ PendingWake(mw) ~> ~PendingWake(mw) \/ mw.gone

\* A paused workload someone asks to wake, or stamps activity on, wakes,
\* through failures, crashes and whoever scales or ignores it meanwhile; one
\* whose target is deleted can't (reconcileWake, handleResume).
WakesWhenAsked ==
  mw.phase = "Paused" /\ (PendingWake(mw) \/ WokenByActivity(mw))
    ~> mw.phase \in Awake \/ mw.deleting \/ ~tgt.exists

\* A pause or a resume under way comes to an end (resumeTransition).
NeverStrandedMidway ==
  mw.phase \in {"Pausing", "Resuming"}
    ~> mw.phase \in Awake \cup {"Paused"} \/ mw.deleting \/ ~tgt.exists

\* Dry-run never leaves a workload paused (resumeTransition), and the ignore
\* label never leaves one off (reconcileIgnored).
NeverLeftOff ==
  offByUs /\ (mw.dryRun \/ tgt.ignored) ~> ~offByUs \/ ~(mw.dryRun \/ tgt.ignored)

\* A ManagedWorkload being deleted goes (reconcileDelete), as one ignored,
\* dry-run or woken is eventually handed back.
DeletionCompletes == mw.deleting ~> mw.gone

=============================================================================
