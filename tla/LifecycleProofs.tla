--------------------------- MODULE LifecycleProofs ---------------------------
(***************************************************************************)
(* Theorems about Lifecycle, for every value of its constants: its types   *)
(* and the order of its writes; that it keeps PauseContract; the hold on   *)
(* the ScaledObject, deletion and scaling down; and what it scales up to.  *)
(*                                                                         *)
(* Those after the contract name what the operator has to be able to rely  *)
(* on.  The runs stale_pausing, stale_copy and delete_lost show it to be   *)
(* no more than what's needed: each leaves one of these out.               *)
(***************************************************************************)
EXTENDS Lifecycle, TLAPS

----------------------------------------------------------------------------
(* The operators the actions are built from keep to their types. *)

\* Answering a request, or a transition, makes another ManagedWorkload.
LEMMA AnswersTyped ==
  ASSUME NEW m \in ManagedWorkload
  PROVE  AnswerPause(m) \in ManagedWorkload /\ AnswerWake(m) \in ManagedWorkload
         /\ ToRunning(m) \in ManagedWorkload
BY DEF ManagedWorkload, AnswerPause, AnswerWake, ToRunning, Phases

LEMMA ToTyped ==
  ASSUME NEW m \in ManagedWorkload, NEW phase \in Phases
  PROVE  To(phase, m) \in ManagedWorkload
BY DEF ManagedWorkload, To

\* A paused workload is brought back with at least one replica.
LEMMA ResumeReplicasTyped ==
  ASSUME NEW pause \in PauseStatus
  PROVE  ResumeReplicas(pause) \in 1..MaxReplicas
BY BoundsAssumption DEF PauseStatus, PausedFrom, ResumeReplicas, Clamp

LEMMA RescaledTyped ==
  ASSUME NEW t \in Target, NEW r \in Replicas
  PROVE  Rescaled(t, r) \in Target
BY DEF Target, Rescaled, PodStates

LEMMA FreshTyped == Fresh \in ManagedWorkload
BY BoundsAssumption DEF Fresh, ManagedWorkload, Phases, Tokens

\* What preparePause records of a target that's up.
LEMMA RecordedTyped ==
  ASSUME TypeOK, tgt.replicas > 0
  PROVE  Recorded \in ManagedWorkload /\ Recorded.pause # NoPause
<1> DEFINE pause == [from |-> [replicas |-> tgt.replicas, hold |-> hold],
                     pausedAt |-> FALSE, resumedAt |-> FALSE, firstReadyAt |-> FALSE,
                     wakeAnnotation |-> w.lastActivity]
<1>1. pause \in PauseStatus
  BY BoundsAssumption DEF TypeOK, Target, Replicas, ManagedWorkload, PauseStatus, PausedFrom
<1>2. Recorded = [w EXCEPT !.phase = "Pausing", !.pause = pause]
  BY DEF Recorded
<1> HIDE DEF pause
<1>3. Recorded \in ManagedWorkload /\ Recorded.pause = pause
  BY <1>1, <1>2 DEF TypeOK, ManagedWorkload, Phases
<1> QED
  BY <1>1, <1>3, NoPauseAssumption

----------------------------------------------------------------------------
(* Where a reconcile takes its pause record for granted, it has one.  The  *)
(* type invariant needs this: the record's fields are read there.          *)

HandBack == {"restore", "restoreHold", "restoreScale", "release", "releaseGone", "drop"}
NeedsPause == HandBack \cup {"copy", "holdZero", "scaleZero", "resume", "holdUp", "scaleUp", "ready"}
Recalled == {"ignored", "managed", "decide", "requests"}
HandedTo == {"recovered", "handedBack", "scaledUp", "deleted", "resumed"}
At(steps) == pc \in steps \/ (pc = "write" /\ then \in steps)

\* Past recoverPause a workload midway has a record, a hand-back or a pause
\* or resume under way has one too, and a hand-back is on its way to what
\* clears it.
PauseInHand ==
  /\ At(NeedsPause) => w.pause # NoPause
  /\ At(Recalled) /\ w.phase \in Midway => w.pause # NoPause
  /\ pc \in HandBack => then \in HandedTo
  /\ pc = "write" => then \notin HandBack

TypeInv == TypeOK /\ PauseInHand

LEMMA TypeInvInit == Init => TypeInv
<1> SUFFICES ASSUME Init PROVE TypeInv
  OBVIOUS
<1>1. mw \in ManagedWorkload /\ seenMw \in ManagedWorkload /\ w \in ManagedWorkload
  BY FreshTyped DEF Init
<1>2. tgt \in Target /\ seenTgt \in Target
  <2>1. 1..MaxReplicas \subseteq Replicas
    BY BoundsAssumption DEF Replicas
  <2>2. ASSUME NEW r \in 1..MaxReplicas
        PROVE  [exists |-> TRUE, replicas |-> r, pods |-> "ready",
                pausedFrom |-> NoPause, ignored |-> FALSE] \in Target
    BY <2>1 DEF Target, PodStates
  <2>3. tgt = [exists |-> TRUE, replicas |-> tgt.replicas, pods |-> "ready",
               pausedFrom |-> NoPause, ignored |-> FALSE]
        /\ tgt.replicas \in 1..MaxReplicas
    BY ZenonT(30) DEF Init
  <2> QED
    BY <2>2, <2>3 DEF Init
<1>3. hold \in Holds /\ own \in Holds /\ n \in Replicas /\ took \in Replicas /\ left \in 0..Budget
  BY BoundsAssumption, KedaAssumption DEF Init, Replicas
<1>4. TypeOK
  BY <1>1, <1>2, <1>3 DEF Init, TypeOK, Steps
<1>5. PauseInHand
  BY DEF Init, PauseInHand, At, NeedsPause, HandBack, Recalled
<1> QED
  BY <1>4, <1>5 DEF TypeInv

\* The ways a reconcile moves on keep the invariant.
LEMMA GotoKeeps ==
  ASSUME TypeInv, NEW step \in Steps \ ({"write"} \cup HandBack), Goto(step), Thinks,
         step \in NeedsPause \/ (step \in Recalled /\ w.phase \in Midway) => w.pause # NoPause
  PROVE  TypeInv'
<1>1. TypeOK'
  BY DEF TypeInv, TypeOK, Goto, Thinks, api, caches, history
<1> QED
  BY <1>1 DEF TypeInv, PauseInHand, At, Goto

LEMMA WriteKeeps ==
  ASSUME TypeInv, NEW new \in ManagedWorkload, NEW next \in Steps \ HandBack,
         WriteThen(new, next), Thinks,
         next \in NeedsPause \/ (next \in Recalled /\ new.phase \in Midway) => new.pause # NoPause
  PROVE  TypeInv'
<1>1. TypeOK'
  BY DEF TypeInv, TypeOK, WriteThen, Thinks, api, caches, history, Steps
<1> QED
  BY <1>1 DEF TypeInv, PauseInHand, At, WriteThen, NeedsPause, HandBack, Recalled

LEMMA RestoreKeeps ==
  ASSUME TypeInv, NEW new \in ManagedWorkload, NEW next \in HandedTo,
         RestoreThen(new, next), Thinks, new.pause # NoPause
  PROVE  TypeInv'
<1>1. TypeOK'
  BY DEF TypeInv, TypeOK, RestoreThen, Thinks, api, caches, history, Steps, HandedTo
<1> QED
  BY <1>1 DEF TypeInv, PauseInHand, At, RestoreThen, NeedsPause, HandBack, Recalled

\* Within a hand-back, and within a pause or a resume, the record stays.
LEMMA StepKeeps ==
  ASSUME TypeInv, TypeOK', w' = w, pc' \in Steps \ {"write"},
         pc' \in NeedsPause \/ (pc' \in Recalled /\ w.phase \in Midway) => w.pause # NoPause,
         pc' \in HandBack => then' \in HandedTo
  PROVE  TypeInv'
BY DEF TypeInv, PauseInHand, At

LEMMA RescaledKeeps ==
  ASSUME TypeOK, tgt' \in Target, offByUs' \in BOOLEAN, pc' \in Steps,
         UNCHANGED <<mw, hold, seenMw, seenFresh, seenTgt, took, own, acted, left>>,
         UNCHANGED <<queued, then, w, wFresh, n, scale>>
  PROVE  TypeOK'
BY DEF TypeOK

LEMMA EndKeeps ==
  ASSUME TypeInv, NEW again \in BOOLEAN, End(again),
         mw' \in ManagedWorkload, seenMw' \in ManagedWorkload, seenFresh' \in BOOLEAN,
         tgt' \in Target, seenTgt' \in Target, hold' \in Holds, UNCHANGED history,
         left' \in 0..Budget
  PROVE  TypeInv'
<1>1. TypeOK'
  BY FreshTyped, BoundsAssumption DEF TypeInv, TypeOK, End, history, Steps, Replicas
<1> QED
  BY <1>1 DEF TypeInv, End, PauseInHand, At, NeedsPause, HandBack, Recalled

LEMMA RetryKeeps ==
  ASSUME TypeInv, NEW again \in BOOLEAN, End(again), Thinks
  PROVE  TypeInv'
BY EndKeeps DEF TypeInv, TypeOK, Thinks, api, caches

----------------------------------------------------------------------------
(* Each step of a reconcile keeps the type invariant. *)

LEMMA EntryTyped ==
  ASSUME TypeInv,
         Start \/ Done \/ UpdateConflict \/ EnsureFinalizer \/ TakeOn \/ TargetMissing \/ RecoverPause
  PROVE  TypeInv'
<1>0. w \in ManagedWorkload /\ seenMw \in ManagedWorkload /\ pc \in Steps
  BY DEF TypeInv, TypeOK
<1> USE DEF Steps, HandBack, NeedsPause, Recalled
<1>1. CASE Start
  <2>1. /\ UNCHANGED <<api, caches, history, left, then, n, scale>>
        /\ queued' \in BOOLEAN /\ w' = seenMw /\ wFresh' = seenFresh /\ pc' \in Steps
    BY <1>1 DEF Start, Thinks
  <2>2. TypeOK'
    BY <2>1 DEF TypeInv, TypeOK, api, caches, history
  <2> QED
    BY <1>1, <2>2 DEF TypeInv, PauseInHand, At, Start
<1>2. CASE Done \/ UpdateConflict
  BY <1>2, RetryKeeps DEF Done, UpdateConflict, Retry
<1>3. CASE EnsureFinalizer
  <2>1. [w EXCEPT !.finalizer = TRUE] \in ManagedWorkload
    BY <1>0 DEF ManagedWorkload
  <2> QED
    BY <1>3, <2>1, WriteKeeps DEF EnsureFinalizer
<1>4. CASE TakeOn
  <2>1. ToRunning(AnswerPause(w)) \in ManagedWorkload
    BY <1>0, AnswersTyped
  <2> QED
    BY <1>4, <2>1, WriteKeeps DEF TakeOn
<1>5. CASE TargetMissing
  <2>1. CASE RefuseRequests("entry") /\ Thinks
    BY <1>0, <2>1, AnswersTyped, WriteKeeps DEF RefuseRequests
  <2>2. CASE Retry /\ Thinks
    BY <2>2, RetryKeeps DEF Retry
  <2> QED
    BY <1>5, <2>1, <2>2 DEF TargetMissing
<1>6. CASE RecoverPause
  <2>1. CASE Goto("ignored") /\ Thinks /\ (w.pause # NoPause \/ w.phase \notin Midway)
    BY <2>1, GotoKeeps
  <2>2. CASE Goto("recover") /\ Thinks
    BY <2>2, GotoKeeps
  <2>3. CASE WriteThen(ToRunning(w), "done") /\ Thinks
    BY <1>0, <2>3, AnswersTyped, WriteKeeps
  <2> QED
    BY <1>6, <2>1, <2>2, <2>3 DEF RecoverPause, ForgetLostPause
<1> QED
  BY <1>1, <1>2, <1>3, <1>4, <1>5, <1>6

\* Every write of the ManagedWorkload.
LEMMA UpdateTyped ==
  ASSUME TypeInv, Update
  PROVE  TypeInv'
<1>1. acted' \subseteq Tokens
  BY DEF TypeInv, TypeOK, Update, ManagedWorkload
<1>2. TypeOK'
  BY <1>1 DEF TypeInv, TypeOK, Update, Goto
<1> QED
  BY <1>2 DEF TypeInv, PauseInHand, At, Update, Goto, HandBack, NeedsPause, Recalled

\* A record recovered from the copy on the target.
LEMMA RecoverTyped ==
  ASSUME TypeInv, RecoverFromTarget \/ Recovered
  PROVE  TypeInv'
<1>0. w \in ManagedWorkload /\ tgt \in Target
  BY DEF TypeInv, TypeOK
<1> USE DEF Steps, HandBack, NeedsPause, Recalled
<1> DEFINE pause == [from |-> tgt.pausedFrom, pausedAt |-> FALSE, resumedAt |-> FALSE,
                     firstReadyAt |-> FALSE, wakeAnnotation |-> 0]
           again == [pause EXCEPT !.pausedAt = TRUE, !.wakeAnnotation = w.lastActivity]
<1>1. CASE RecoverFromTarget
  <2>1. CASE Retry /\ Thinks
    BY <2>1, RetryKeeps DEF Retry
  <2>2. CASE ForgetLostPause /\ Thinks
    <3>1. CASE w.phase \in Midway
      BY <1>0, <2>2, <3>1, AnswersTyped, WriteKeeps DEF ForgetLostPause
    <3>2. CASE w.phase \notin Midway
      BY <2>2, <3>2, GotoKeeps DEF ForgetLostPause
    <3> QED
      BY <3>1, <3>2
  <2>3. ASSUME tgt.pausedFrom # NoPause
        PROVE  /\ [w EXCEPT !.pause = pause] \in ManagedWorkload
               /\ [w EXCEPT !.phase = "Paused", !.pause = again] \in ManagedWorkload
               /\ pause # NoPause /\ again # NoPause
    <3>1. tgt.pausedFrom \in PausedFrom /\ w.lastActivity \in Tokens
      BY <1>0, <2>3 DEF Target, ManagedWorkload
    <3>2. pause \in PauseStatus /\ again \in PauseStatus
      <4>1. 0 \in Tokens
        BY BoundsAssumption DEF Tokens
      <4>2. pause \in PauseStatus
        BY <3>1, <4>1 DEF PauseStatus
      <4>3. ASSUME NEW p \in PauseStatus
            PROVE  [p EXCEPT !.pausedAt = TRUE, !.wakeAnnotation = w.lastActivity] \in PauseStatus
        BY <3>1 DEF PauseStatus
      <4> QED
        BY <4>2, <4>3
    <3> HIDE DEF pause, again
    <3>3. [w EXCEPT !.pause = pause] \in ManagedWorkload
          /\ [w EXCEPT !.phase = "Paused", !.pause = again] \in ManagedWorkload
      BY <1>0, <3>2 DEF ManagedWorkload, Phases
    <3> QED
      BY <3>2, <3>3, NoPauseAssumption
  <2>4. CASE tgt.pausedFrom # NoPause /\ RestoreThen([w EXCEPT !.pause = pause], "recovered") /\ Thinks
    <3>1. [w EXCEPT !.pause = pause].pause # NoPause
      BY <1>0, <2>3, <2>4 DEF ManagedWorkload
    <3> HIDE DEF pause
    <3> QED
      BY <2>3, <2>4, <3>1, RestoreKeeps DEF HandedTo
  <2>5. CASE /\ tgt.pausedFrom # NoPause /\ Thinks
             /\ WriteThen(AnswerWake(AnswerPause([w EXCEPT !.phase = "Paused", !.pause = again])), "done")
    <3> DEFINE m == [w EXCEPT !.phase = "Paused", !.pause = again]
    <3>1. m \in ManagedWorkload
      BY <2>3, <2>5
    <3> HIDE DEF m
    <3>2. AnswerWake(AnswerPause(m)) \in ManagedWorkload
      BY <3>1, AnswersTyped
    <3> QED
      BY <2>5, <3>2, WriteKeeps DEF m
  <2> QED
    BY <1>1, <2>1, <2>2, <2>4, <2>5 DEF RecoverFromTarget
<1>2. CASE Recovered
  <2>1. CASE WriteThen(ToRunning(w), "done") /\ Thinks
    BY <1>0, <2>1, AnswersTyped, WriteKeeps
  <2>2. CASE /\ w.phase \notin Midway /\ w' = [w EXCEPT !.pause = NoPause] /\ pc' = "ignored"
             /\ UNCHANGED <<queued, then, wFresh, n, scale>> /\ Thinks
    <3>1. w' \in ManagedWorkload /\ w'.phase = w.phase
      BY <1>0, <2>2 DEF ManagedWorkload
    <3>2. TypeOK'
      BY <2>2, <3>1 DEF TypeInv, TypeOK, Thinks, api, caches, history
    <3> QED
      BY <2>2, <3>1, <3>2 DEF TypeInv, PauseInHand, At
  <2> QED
    BY <1>2, <2>1, <2>2 DEF Recovered
<1> QED
  BY <1>1, <1>2

\* What a workload with a status is found to need.
LEMMA DecideTyped ==
  ASSUME TypeInv,
         Ignored \/ HandedBack \/ WakeOnScaleUp \/ ScaledUp \/ StaleForRouting \/ Decide \/ ScaledToZero
  PROVE  TypeInv'
<1>0. w \in ManagedWorkload
  BY DEF TypeInv, TypeOK
<1>a. pc \in Recalled /\ w.phase \in Midway => w.pause # NoPause
  BY DEF TypeInv, PauseInHand, At
<1>b. ASSUME NEW m \in ManagedWorkload
      PROVE  ToRunning(m).phase = "Running" /\ AnswerPause(m).pause = m.pause /\ AnswerPause(m).phase = m.phase
             /\ AnswerWake(m).pause = m.pause /\ AnswerWake(m).phase = m.phase
  BY DEF ToRunning, AnswerPause, AnswerWake, ManagedWorkload
<1> USE DEF Steps, HandBack, NeedsPause, Recalled, HandedTo
<1>1. CASE Ignored
  <2>1. CASE Goto("managed") /\ Thinks
    BY <1>a, <1>1, <2>1, GotoKeeps DEF Ignored
  <2>2. CASE RefuseRequests("ignored") /\ Thinks
    BY <1>0, <1>a, <1>b, <1>1, <2>2, AnswersTyped, WriteKeeps DEF RefuseRequests, Ignored
  <2>3. CASE w.pause # NoPause /\ RestoreThen(w, "handedBack") /\ Thinks
    BY <1>0, <2>3, RestoreKeeps
  <2>4. CASE (Goto("handedBack") \/ Goto("again")) /\ Thinks
    BY <2>4, GotoKeeps
  <2> QED
    BY <1>1, <2>1, <2>2, <2>3, <2>4 DEF Ignored
<1>2. CASE HandedBack \/ ScaledUp
  BY <1>0, <1>b, <1>2, AnswersTyped, WriteKeeps DEF HandedBack, ScaledUp, Midway
<1>3. CASE WakeOnScaleUp
  <2>1. CASE Goto("decide") /\ Thinks
    BY <1>a, <1>3, <2>1, GotoKeeps DEF WakeOnScaleUp
  <2>2. CASE Retry /\ Thinks
    BY <2>2, RetryKeeps DEF Retry
  <2>3. CASE ScaledDownByNapwake(w) /\ RestoreThen(w, "scaledUp") /\ Thinks
    BY <1>0, <1>a, <1>3, <2>3, RestoreKeeps DEF WakeOnScaleUp, ScaledDownByNapwake, Midway
  <2> QED
    BY <1>3, <2>1, <2>2, <2>3 DEF WakeOnScaleUp
<1>4. CASE StaleForRouting
  BY <1>4, RetryKeeps DEF StaleForRouting, Retry
<1>5. CASE Decide
  <2>1. CASE w.phase \in Midway /\ WriteThen(To("Resuming", w), "resume") /\ Thinks
    <3>1. To("Resuming", w) \in ManagedWorkload /\ To("Resuming", w).pause = w.pause
      BY <1>0 DEF To, ManagedWorkload, Phases
    <3> QED
      BY <1>a, <1>5, <2>1, <3>1, WriteKeeps DEF Decide
  <2>2. CASE w.phase \in Midway /\ (Goto("copy") \/ Goto("resume") \/ Goto("requests")) /\ Thinks
    BY <1>a, <1>5, <2>2, GotoKeeps DEF Decide
  <2>3. CASE Retry /\ Thinks
    BY <2>3, RetryKeeps DEF Retry
  <2>4. CASE w.phase \in Awake /\ (Goto("zero") \/ Goto("requests")) /\ Thinks
    BY <2>4, GotoKeeps DEF Awake, Midway
  <2> QED
    BY <1>5, <2>1, <2>2, <2>3, <2>4 DEF Decide, Midway
<1>6. CASE ScaledToZero
  <2>1. CASE RefuseRequests("zero") /\ Thinks
    BY <1>0, <2>1, AnswersTyped, WriteKeeps DEF RefuseRequests
  <2>2. CASE WriteThen(ToRunning(w), "again") /\ Thinks
    BY <1>0, <2>2, AnswersTyped, WriteKeeps
  <2>3. CASE Goto("again") /\ Thinks
    BY <2>3, GotoKeeps
  <2> QED
    BY <1>6, <2>1, <2>2, <2>3 DEF ScaledToZero
<1> QED
  BY <1>1, <1>2, <1>3, <1>4, <1>5, <1>6

\* Requests, and the idle clock's verdict.
LEMMA RequestsTyped ==
  ASSUME TypeInv, WokenOrStaysPaused \/ PauseRequest \/ IdleClock
  PROVE  TypeInv'
<1>0. w \in ManagedWorkload
  BY DEF TypeInv, TypeOK
<1>a. pc \in Recalled /\ w.phase \in Midway => w.pause # NoPause
  BY DEF TypeInv, PauseInHand, At
<1>b. ASSUME NEW m \in ManagedWorkload, NEW phase \in Phases
      PROVE  AnswerPause(m).pause = m.pause /\ AnswerPause(m).phase = m.phase
             /\ AnswerWake(m).pause = m.pause /\ To(phase, m).pause = m.pause
  BY DEF AnswerPause, AnswerWake, To, ManagedWorkload
<1>c. AnswerPause(w) \in ManagedWorkload
  BY <1>0, AnswersTyped
<1>d. "Idle" \in Phases /\ "Resuming" \in Phases
  BY DEF Phases
<1> USE DEF Steps, HandBack, NeedsPause, Recalled
<1>1. CASE WokenOrStaysPaused
  <2>1. CASE WriteThen(To("Resuming", AnswerWake(AnswerPause(w))), "resume") /\ Thinks
    <3>1. AnswerWake(AnswerPause(w)) \in ManagedWorkload
      BY <1>c, AnswersTyped
    <3>2. To("Resuming", AnswerWake(AnswerPause(w))) \in ManagedWorkload
          /\ To("Resuming", AnswerWake(AnswerPause(w))).pause = w.pause
      BY <1>0, <1>b, <1>c, <1>d, <3>1, ToTyped
    <3> QED
      BY <1>a, <1>1, <2>1, <3>2, WriteKeeps DEF WokenOrStaysPaused, Midway
  <2>2. CASE WriteThen(AnswerPause(w), "again") /\ Thinks
    BY <1>c, <2>2, WriteKeeps
  <2>3. CASE Goto("again") /\ Thinks
    BY <2>3, GotoKeeps
  <2> QED
    BY <1>1, <2>1, <2>2, <2>3 DEF WokenOrStaysPaused
<1>2. CASE PauseRequest
  <2>1. CASE Goto("idleClock") /\ Thinks
    BY <2>1, GotoKeeps
  <2>2. CASE WriteThen(AnswerPause(w), "requests") /\ Thinks
    BY <1>0, <1>b, <1>c, <1>d, <1>2, <2>2, WriteKeeps DEF PauseRequest, Awake, Midway
  <2>3. CASE WriteThen(To("Idle", AnswerPause(w)), "again") /\ Thinks
    BY <1>c, <1>d, <2>3, ToTyped, WriteKeeps
  <2>4. CASE w' = AnswerPause(w) /\ pc' = "prepare" /\ UNCHANGED <<queued, then, wFresh, n, scale>> /\ Thinks
    <3>1. TypeOK'
      BY <1>c, <2>4 DEF TypeInv, TypeOK, Thinks, api, caches, history
    <3> QED
      BY <2>4, <3>1 DEF TypeInv, PauseInHand, At
  <2> QED
    BY <1>2, <2>1, <2>2, <2>3, <2>4 DEF PauseRequest
<1>3. CASE IdleClock
  <2> DEFINE m == AnswerWake(IF w.phase = "Idle" THEN AnswerPause(w) ELSE w)
  <2>1. m \in ManagedWorkload
    BY <1>0, <1>c, AnswersTyped
  <2>2. ToRunning(m) \in ManagedWorkload /\ To("Idle", m) \in ManagedWorkload
    BY <1>d, <2>1, AnswersTyped, ToTyped
  <2>3. CASE WriteThen(ToRunning(m), "again") /\ Thinks
    BY <2>2, <2>3, WriteKeeps
  <2>4. CASE WriteThen(m, "again") /\ Thinks
    BY <2>1, <2>4, WriteKeeps
  <2>5. CASE (WriteThen(To("Idle", m), "again") \/ WriteThen(To("Idle", m), "prepare")) /\ Thinks
    BY <2>2, <2>5, WriteKeeps
  <2>6. CASE (Goto("again") \/ Goto("prepare")) /\ Thinks
    BY <2>6, GotoKeeps
  <2> QED
    BY <1>3, <2>3, <2>4, <2>5, <2>6 DEF IdleClock
<1> QED
  BY <1>1, <1>2, <1>3

\* A pause, from what's recorded to the pods' stopping.
LEMMA PauseTyped ==
  ASSUME TypeInv, Prepare \/ CopyRecord \/ HoldAtZero \/ ScaleToZero
  PROVE  TypeInv'
<1>0. w \in ManagedWorkload /\ tgt \in Target
  BY DEF TypeInv, TypeOK
<1>a. pc \in NeedsPause => w.pause # NoPause
  BY DEF TypeInv, PauseInHand, At
<1> USE DEF Steps, HandBack, NeedsPause, Recalled
<1>1. CASE Prepare
  <2>1. CASE Retry /\ Thinks
    BY <2>1, RetryKeeps DEF Retry
  <2>2. CASE tgt.replicas > 0 /\ WriteThen(Recorded, "copy") /\ Thinks
    <3>1. Recorded \in ManagedWorkload /\ Recorded.pause # NoPause
      BY <2>2, RecordedTyped DEF TypeInv
    <3> QED
      BY <2>2, <3>1, WriteKeeps
  <2> QED
    BY <1>1, <2>1, <2>2 DEF Prepare
<1>2. CASE CopyRecord
  <2>1. CASE Retry /\ UNCHANGED tgt
    BY <1>2, <2>1, RetryKeeps DEF CopyRecord, Retry, Thinks, api
  <2>2. CASE /\ Goto("holdZero") \/ Goto("scaleZero")
             /\ tgt' = tgt \/ tgt' = [tgt EXCEPT !.pausedFrom = w.pause.from]
    <3>1. w.pause.from \in PausedFrom
      BY <1>0, <1>a, <1>2 DEF CopyRecord, ManagedWorkload, PauseStatus
    <3>2. tgt' \in Target
      BY <1>0, <2>2, <3>1 DEF Target
    <3>3. TypeOK'
      BY <1>2, <2>2, <3>2 DEF TypeInv, TypeOK, CopyRecord, Goto, caches, history
    <3> QED
      BY <1>a, <1>2, <2>2, <3>3, StepKeeps DEF CopyRecord, Goto
  <2> QED
    BY <1>2, <2>1, <2>2 DEF CopyRecord
<1>3. CASE HoldAtZero
  <2>1. TypeOK'
    BY <1>3, BoundsAssumption DEF TypeInv, TypeOK, HoldAtZero, Goto, caches, history, Holds, Replicas
  <2> QED
    BY <1>a, <1>3, <2>1, StepKeeps DEF HoldAtZero, Goto
<1>4. CASE ScaleToZero
  <2>1. tgt' \in Target /\ offByUs' \in BOOLEAN /\ took' \in Replicas
    <3>1. 0 \in Replicas /\ tgt.replicas \in Replicas /\ took \in Replicas
      BY <1>0, BoundsAssumption DEF Replicas, Target, TypeInv, TypeOK
    <3> QED
      BY <1>0, <1>4, <3>1, RescaledTyped DEF ScaleToZero, TypeInv, TypeOK
  <2> DEFINE m == [w EXCEPT !.pause.pausedAt = TRUE]
  <2>2. m \in ManagedWorkload /\ To("Paused", m) \in ManagedWorkload
    <3>1. w.pause \in PauseStatus
      BY <1>0, <1>a, <1>4 DEF ScaleToZero, ManagedWorkload
    <3>2. [w.pause EXCEPT !.pausedAt = TRUE] \in PauseStatus
      BY <3>1 DEF PauseStatus
    <3>3. m \in ManagedWorkload
      BY <1>0, <3>2 DEF ManagedWorkload
    <3> HIDE DEF m
    <3> QED
      BY <3>3, ToTyped DEF Phases
  <2>3. CASE WriteThen(m, "again") \/ WriteThen(To("Paused", m), "again")
    <3> HIDE DEF m
    <3>1. TypeOK'
      BY <1>4, <2>1, <2>2, <2>3 DEF TypeInv, TypeOK, ScaleToZero, WriteThen, caches
    <3> QED
      BY <2>3, <3>1 DEF TypeInv, PauseInHand, At, WriteThen
  <2>4. CASE Retry
    <3>1. TypeOK'
      BY <1>4, <2>1, <2>4, FreshTyped, BoundsAssumption
      DEF TypeInv, TypeOK, ScaleToZero, Retry, End, caches, Replicas
    <3> QED
      BY <2>4, <3>1 DEF TypeInv, PauseInHand, At, Retry, End
  <2> QED
    BY <1>4, <2>3, <2>4 DEF ScaleToZero
<1> QED
  BY <1>1, <1>2, <1>3, <1>4

\* A resume, until it settles.
LEMMA ResumeTyped ==
  ASSUME TypeInv,
         Resume \/ HoldAtRestored \/ ScaleUp \/ Settle \/ RecordResumeProgress \/ Resumed
  PROVE  TypeInv'
<1>0. w \in ManagedWorkload /\ tgt \in Target
  BY DEF TypeInv, TypeOK
<1>a. pc \in NeedsPause => w.pause # NoPause
  BY DEF TypeInv, PauseInHand, At
<1> USE DEF Steps, HandBack, NeedsPause, Recalled
<1>1. CASE Resume
  <2>1. CASE Retry /\ Thinks
    BY <2>1, RetryKeeps DEF Retry
  <2>2. CASE pc' = "release" /\ then' = "resumed" /\ UNCHANGED <<queued, w, wFresh, n, scale>> /\ Thinks
    <3>1. TypeOK'
      BY <2>2 DEF TypeInv, TypeOK, Thinks, api, caches, history
    <3> QED
      BY <1>a, <1>1, <2>2, <3>1, StepKeeps DEF Resume, HandedTo
  <2>3. CASE /\ n' = (IF tgt.replicas > 0 THEN tgt.replicas ELSE ResumeReplicas(w.pause))
             /\ scale' = (IF tgt.replicas > 0 THEN "up" ELSE "zero")
             /\ pc' \in {"holdUp", "scaleUp", "ready"}
             /\ UNCHANGED <<queued, then, w, wFresh>> /\ Thinks
    <3>1. tgt.replicas \in Replicas /\ w.pause \in PauseStatus
      BY <1>0, <1>a, <1>1 DEF Resume, Target, ManagedWorkload
    <3>2. ResumeReplicas(w.pause) \in Replicas
      BY <3>1, ResumeReplicasTyped, BoundsAssumption DEF Replicas
    <3>3. TypeOK'
      BY <2>3, <3>1, <3>2 DEF TypeInv, TypeOK, Thinks, api, caches, history
    <3> QED
      BY <1>a, <1>1, <2>3, <3>3, StepKeeps DEF Resume
  <2> QED
    BY <1>1, <2>1, <2>2, <2>3 DEF Resume
<1>2. CASE HoldAtRestored
  <2>1. TypeOK'
    BY <1>2, BoundsAssumption DEF TypeInv, TypeOK, HoldAtRestored, Goto, caches, history, Holds
  <2> QED
    BY <1>a, <1>2, <2>1, StepKeeps DEF HoldAtRestored, Goto
<1>3. CASE ScaleUp
  <2>1. CASE Retry /\ UNCHANGED <<tgt, offByUs>>
    BY <1>3, <2>1, RetryKeeps DEF ScaleUp, Retry, Thinks, api, history
  <2>2. CASE tgt' = Rescaled(tgt, n) /\ offByUs' = FALSE /\ Goto("ready")
    <3>1. tgt' \in Target
      BY <1>0, <2>2, RescaledTyped DEF TypeInv, TypeOK
    <3>2. /\ UNCHANGED <<mw, hold, seenMw, seenFresh, seenTgt, took, own, acted, left>>
          /\ UNCHANGED <<queued, then, w, wFresh, n, scale>>
          /\ pc' \in Steps
      BY <1>3, <2>2 DEF ScaleUp, Goto, caches
    <3>3. TypeOK'
      BY <2>2, <3>1, <3>2, RescaledKeeps DEF TypeInv
    <3> QED
      BY <1>a, <1>3, <2>2, <3>3, StepKeeps DEF ScaleUp, Goto
  <2> QED
    BY <1>3, <2>1, <2>2 DEF ScaleUp
<1>4. CASE Settle
  <2>1. TypeOK'
    BY <1>4 DEF TypeInv, TypeOK, Settle, Thinks, api, caches, history
  <2> QED
    BY <1>a, <1>4, <2>1, StepKeeps DEF Settle, HandedTo
<1>5. CASE RecordResumeProgress
  <2> DEFINE m == [w EXCEPT !.pause.resumedAt = TRUE,
                            !.pause.firstReadyAt = (@ \/ ReadyOf = "some")]
  <2>1. CASE Retry /\ Thinks
    BY <2>1, RetryKeeps DEF Retry
  <2>2. CASE WriteThen(m, "again") /\ Thinks
    <3>1. w.pause \in PauseStatus
      BY <1>0, <1>a, <1>5 DEF RecordResumeProgress, ManagedWorkload
    <3>2. ASSUME NEW some \in BOOLEAN
          PROVE  [w EXCEPT !.pause.resumedAt = TRUE, !.pause.firstReadyAt = (@ \/ some)] \in ManagedWorkload
      <4>1. [w.pause EXCEPT !.resumedAt = TRUE, !.firstReadyAt = (@ \/ some)] \in PauseStatus
        BY <3>1 DEF PauseStatus
      <4> QED
        BY <1>0, <4>1 DEF ManagedWorkload
    <3>3. m \in ManagedWorkload
      BY <3>2
    <3> HIDE DEF m
    <3> QED
      BY <2>2, <3>3, WriteKeeps
  <2> QED
    BY <1>5, <2>1, <2>2 DEF RecordResumeProgress
<1>6. CASE Resumed
  BY <1>0, <1>6, AnswersTyped, WriteKeeps DEF Resumed
<1> QED
  BY <1>1, <1>2, <1>3, <1>4, <1>5, <1>6

\* A target handed back, whoever asked for it.
LEMMA RestoreTyped ==
  ASSUME TypeInv, Restore \/ RestoreHold \/ RestoreScale \/ ReleaseKEDA \/ DropRecord
  PROVE  TypeInv'
<1>0. w \in ManagedWorkload /\ tgt \in Target
  BY DEF TypeInv, TypeOK
<1>a. pc \in HandBack => w.pause # NoPause /\ then \in HandedTo
  BY DEF TypeInv, PauseInHand, At, NeedsPause
<1> USE DEF Steps, HandBack, NeedsPause, Recalled
<1>1. CASE Restore
  <2>1. CASE Retry /\ Thinks
    BY <2>1, RetryKeeps DEF Retry
  <2>2. CASE Thinks /\ (Goto("release") \/ Goto("releaseGone"))
    <3>1. TypeOK'
      BY <2>2 DEF TypeInv, TypeOK, Goto, Thinks, api, caches, history
    <3> QED
      BY <1>a, <1>1, <2>2, <3>1, StepKeeps DEF Restore, Goto
  <2>3. CASE /\ n' = ResumeReplicas(w.pause) /\ scale' = "zero"
             /\ pc' \in {"restoreHold", "restoreScale"}
             /\ UNCHANGED <<queued, then, w, wFresh>> /\ Thinks
    <3>1. w.pause \in PauseStatus
      BY <1>0, <1>a, <1>1 DEF Restore, ManagedWorkload
    <3>2. ResumeReplicas(w.pause) \in Replicas
      BY <3>1, ResumeReplicasTyped, BoundsAssumption DEF Replicas
    <3>3. TypeOK'
      BY <2>3, <3>2 DEF TypeInv, TypeOK, Thinks, api, caches, history
    <3> QED
      BY <1>a, <1>1, <2>3, <3>3, StepKeeps DEF Restore
  <2> QED
    BY <1>1, <2>1, <2>2, <2>3 DEF Restore
<1>2. CASE RestoreHold
  <2>1. TypeOK'
    BY <1>2, BoundsAssumption DEF TypeInv, TypeOK, RestoreHold, Goto, caches, history, Holds
  <2> QED
    BY <1>a, <1>2, <2>1, StepKeeps DEF RestoreHold, Goto
<1>3. CASE RestoreScale
  <2>1. CASE Retry /\ UNCHANGED <<tgt, offByUs>>
    BY <1>3, <2>1, RetryKeeps DEF RestoreScale, Retry, Thinks, api, history
  <2>2. CASE tgt' = Rescaled(tgt, n) /\ offByUs' = FALSE /\ Goto("release")
    <3>1. tgt' \in Target
      BY <1>0, <2>2, RescaledTyped DEF TypeInv, TypeOK
    <3>2. /\ UNCHANGED <<mw, hold, seenMw, seenFresh, seenTgt, took, own, acted, left>>
          /\ UNCHANGED <<queued, then, w, wFresh, n, scale>>
          /\ pc' \in Steps
      BY <1>3, <2>2 DEF RestoreScale, Goto, caches
    <3>3. TypeOK'
      BY <2>2, <3>1, <3>2, RescaledKeeps DEF TypeInv
    <3> QED
      BY <1>a, <1>3, <2>2, <3>3, StepKeeps DEF RestoreScale, Goto
  <2> QED
    BY <1>3, <2>1, <2>2 DEF RestoreScale
<1>4. CASE ReleaseKEDA
  <2>1. hold' \in Holds
    BY <1>0, <1>a, <1>4 DEF ReleaseKEDA, TypeInv, TypeOK, ManagedWorkload, PauseStatus, PausedFrom
  <2>2. offByUs' \in BOOLEAN
    BY <1>4, KedaAssumption DEF ReleaseKEDA, TypeInv, TypeOK
  <2>3. pc' \in {"drop"} \cup HandedTo /\ then' = then /\ w' = w
    BY <1>a, <1>4 DEF ReleaseKEDA, Goto
  <2>4. TypeOK'
    BY <1>4, <2>1, <2>2, <2>3 DEF TypeInv, TypeOK, ReleaseKEDA, Goto, caches, HandedTo
  <2> QED
    BY <1>a, <1>4, <2>3, <2>4, StepKeeps DEF ReleaseKEDA, HandedTo
<1>5. CASE DropRecord
  <2>1. tgt' \in Target
    BY <1>0, <1>5 DEF DropRecord, Target
  <2>2. pc' \in HandedTo /\ w' = w
    BY <1>a, <1>5 DEF DropRecord, Goto
  <2>3. TypeOK'
    BY <1>5, <2>1, <2>2 DEF TypeInv, TypeOK, DropRecord, Goto, caches, history, HandedTo
  <2> QED
    BY <2>2, <2>3, StepKeeps DEF HandedTo
<1> QED
  BY <1>1, <1>2, <1>3, <1>4, <1>5

\* A ManagedWorkload being deleted.
LEMMA DeleteTyped ==
  ASSUME TypeInv, Delete \/ Deleted
  PROVE  TypeInv'
<1>0. w \in ManagedWorkload
  BY DEF TypeInv, TypeOK
<1> USE DEF Steps, HandBack, NeedsPause, Recalled, HandedTo
<1>1. CASE Delete
  <2>1. CASE Thinks /\ (Goto("done") \/ Goto("deleted"))
    BY <2>1, GotoKeeps
  <2>2. CASE Thinks /\ w.pause # NoPause /\ RestoreThen(w, "deleted")
    BY <1>0, <2>2, RestoreKeeps
  <2> QED
    BY <1>1, <2>1, <2>2 DEF Delete
<1>2. CASE Deleted
  <2> DEFINE m == [w EXCEPT !.pause = NoPause]
             gone == [m EXCEPT !.finalizer = FALSE, !.gone = TRUE]
  <2>1. m \in ManagedWorkload
    BY <1>0 DEF ManagedWorkload
  <2>2. gone \in ManagedWorkload
    <3> HIDE DEF m
    <3> QED
      BY <2>1 DEF ManagedWorkload
  <2>3. AnswerWake(m) \in ManagedWorkload
    BY <2>1, AnswersTyped
  <2>4. left' \in 0..Budget
    BY <1>2, BoundsAssumption DEF Deleted, Spend, TypeInv, TypeOK
  <2>5. PICK new \in ManagedWorkload, next \in {"deleted", "again", "done"} : WriteThen(new, next)
    <3> HIDE DEF m, gone
    <3> QED
      BY <1>2, <2>1, <2>2, <2>3 DEF Deleted, m, gone
  <2>6. TypeOK'
    BY <1>2, <2>4, <2>5 DEF TypeInv, TypeOK, Deleted, WriteThen, api, caches, history
  <2> QED
    BY <2>5, <2>6 DEF TypeInv, PauseInHand, At, WriteThen
<1> QED
  BY <1>1, <1>2

----------------------------------------------------------------------------
(* So does everyone else. *)

\* A write of the target's, by others, is typed when what's written is.
LEMMA TgtWrittenTyped ==
  ASSUME TypeInv, NEW t \in Target, TgtWritten(t),
         offByUs' \in BOOLEAN, took' \in Replicas, left' \in 0..Budget
  PROVE  TypeInv'
<1>1. TypeOK'
  BY DEF TypeInv, TypeOK, TgtWritten, caches
<1> QED
  BY <1>1 DEF TypeInv, PauseInHand, At, TgtWritten

LEMMA MwWrittenTyped ==
  ASSUME TypeInv, NEW m \in ManagedWorkload, MwWritten(m), left' \in 0..Budget
  PROVE  TypeInv'
<1>1. TypeOK'
  BY DEF TypeInv, TypeOK, MwWritten, history
<1> QED
  BY <1>1 DEF TypeInv, PauseInHand, At, MwWritten

LEMMA OutsideTyped ==
  ASSUME TypeInv, Catchup \/ Cluster \/ Outside
  PROVE  TypeInv'
<1>0. mw \in ManagedWorkload /\ tgt \in Target
  BY DEF TypeInv, TypeOK
<1>a. ASSUME NEW kind, Spend(kind)
      PROVE  left' \in 0..Budget
  BY <1>a, BoundsAssumption DEF Spend, TypeInv, TypeOK
<1>b. /\ left \in 0..Budget /\ offByUs \in BOOLEAN /\ took \in Replicas
      /\ tgt.replicas \in Replicas
  BY <1>0 DEF TypeInv, TypeOK, Target
<1>1. CASE Catchup
  <2>1. TypeOK'
    BY <1>1 DEF Catchup, DeliverWorkload, DeliverTarget, TypeInv, TypeOK, api, local, history
  <2> QED
    BY <1>1, <2>1 DEF Catchup, DeliverWorkload, DeliverTarget, TypeInv, PauseInHand, At, local
<1>2. CASE PodsMove
  <2>1. PICK pods \in PodStates : TgtWritten([tgt EXCEPT !.pods = pods])
    BY <1>2 DEF PodsMove
  <2>2. [tgt EXCEPT !.pods = pods] \in Target
    BY <1>0 DEF Target
  <2> QED
    BY <1>b, <1>2, <2>1, <2>2, TgtWrittenTyped DEF PodsMove
<1>3. CASE KedaHolds
  <2>1. hold \in Replicas
    BY <1>3 DEF KedaHolds, TypeInv, TypeOK, Holds
  <2>2. Rescaled(tgt, hold) \in Target
    BY <1>0, <2>1, RescaledTyped
  <2>3. offByUs' \in BOOLEAN /\ took' \in Replicas
    BY <1>b, <1>3 DEF KedaHolds
  <2> QED
    BY <1>b, <1>3, <2>2, <2>3, TgtWrittenTyped DEF KedaHolds
<1>4. CASE Fail \/ Crash
  BY <1>0, <1>a, <1>4, EndKeeps
  DEF Fail, Crash, Retry, TypeInv, TypeOK, api, caches, history
<1>5. CASE PodsFail
  <2>1. [tgt EXCEPT !.pods = "starting"] \in Target
    BY <1>0 DEF Target, PodStates
  <2> QED
    BY <1>a, <1>b, <1>5, <2>1, TgtWrittenTyped DEF PodsFail
<1>6. CASE Scale
  <2>1. PICK r \in Replicas : TgtWritten(Rescaled(tgt, r))
    BY <1>6 DEF Scale
  <2>2. Rescaled(tgt, r) \in Target
    BY <1>0, RescaledTyped
  <2> QED
    BY <1>a, <1>b, <1>6, <2>1, <2>2, TgtWrittenTyped DEF Scale
<1>7. CASE Ignore
  <2>1. [tgt EXCEPT !.ignored = ~@] \in Target
    BY <1>0 DEF Target
  <2> QED
    BY <1>a, <1>b, <1>7, <2>1, TgtWrittenTyped DEF Ignore
<1>8. CASE Recreate
  <2>1. [exists |-> FALSE, replicas |-> 0, pods |-> "stopped",
         pausedFrom |-> NoPause, ignored |-> FALSE] \in Target
    BY BoundsAssumption DEF Target, PodStates, Replicas
  <2>2. ASSUME NEW r \in 1..MaxReplicas
        PROVE  [Rescaled(tgt, r) EXCEPT !.exists = TRUE] \in Target
    <3>1. Rescaled(tgt, r) \in Target
      BY <1>0, RescaledTyped DEF Replicas
    <3> QED
      BY <3>1 DEF Target
  <2>3. PICK t \in Target : TgtWritten(t)
    BY <1>8, <2>1, <2>2 DEF Recreate
  <2>4. left' \in 0..Budget /\ offByUs' \in BOOLEAN /\ took' \in Replicas
    BY <1>a, <1>b, <1>8 DEF Recreate
  <2> QED
    BY <2>3, <2>4, TgtWrittenTyped
<1>9. CASE Annotate \/ Edit \/ LoseStatus
  <2>1. /\ mw.pauseRequested < MaxToken => [mw EXCEPT !.pauseRequested = @ + 1] \in ManagedWorkload
        /\ mw.wakeRequested < MaxToken => [mw EXCEPT !.wakeRequested = @ + 1] \in ManagedWorkload
        /\ mw.lastActivity < MaxToken => [mw EXCEPT !.lastActivity = @ + 1] \in ManagedWorkload
    BY <1>0, BoundsAssumption DEF ManagedWorkload, Tokens
  <2>2. /\ [mw EXCEPT !.dryRun = ~@] \in ManagedWorkload
        /\ [mw EXCEPT !.deleting = TRUE, !.gone = ~mw.finalizer] \in ManagedWorkload
    BY <1>0 DEF ManagedWorkload
  <2>3. [mw EXCEPT !.phase = "New", !.pause = NoPause,
                   !.lastPauseRequest = 0, !.lastWakeRequest = 0] \in ManagedWorkload
    <3>1. 0 \in Tokens
      BY BoundsAssumption DEF Tokens
    <3> QED
      BY <1>0, <3>1 DEF ManagedWorkload, Phases
  <2>4. PICK m \in ManagedWorkload : MwWritten(m)
    BY <1>0, <1>9, <2>1, <2>2, <2>3 DEF Annotate, Edit, LoseStatus
  <2>5. left' \in 0..Budget
    BY <1>a, <1>9 DEF Annotate, Edit, LoseStatus
  <2> QED
    BY <2>4, <2>5, MwWrittenTyped
<1> QED
  BY <1>1, <1>2, <1>3, <1>4, <1>5, <1>6, <1>7, <1>8, <1>9 DEF Cluster, Outside

LEMMA TypeInvStep == TypeInv /\ [Next]_vars => TypeInv'
<1> SUFFICES ASSUME TypeInv, [Next]_vars PROVE TypeInv'
  OBVIOUS
<1>1. CASE Reconcile
  BY <1>1, EntryTyped, UpdateTyped, RecoverTyped, DecideTyped, RequestsTyped,
     PauseTyped, ResumeTyped, RestoreTyped, DeleteTyped
  DEF Reconcile
<1>2. CASE Catchup \/ Cluster \/ Outside
  BY <1>2, OutsideTyped
<1>3. CASE UNCHANGED vars
  BY <1>3 DEF TypeInv, TypeOK, PauseInHand, At, vars, api, caches, local, history
<1> QED
  BY <1>1, <1>2, <1>3 DEF Next

\* The lifecycle is type correct, whatever its bounds, its autoscaler, and
\* who does what to it: a record is at hand wherever handlePause, handleResume
\* and Pauser.Restore read one's fields.
THEOREM TypeCorrect == Spec => []TypeOK
<1>1. TypeInv => TypeOK
  BY DEF TypeInv
<1> QED
  BY <1>1, TypeInvInit, TypeInvStep, PTL DEF Spec

----------------------------------------------------------------------------
(* A pause request is acted on once.  What carries it: every write of an   *)
(* awake or new workload's status, by a reconcile whose copy is current,   *)
(* leaves the request answered as it was or answers it; and a status that  *)
(* was lost is taken on with the request of before answered.               *)

\* A reconcile gets past entry with a workload that has a status.
StillNew ==
  w.phase = "New" =>
    \/ pc \in {"idle", "entry", "done", "again", "deleted"}
    \/ pc = "write" /\ then \in {"entry", "done", "again", "deleted"}
    \/ pc \in HandBack /\ then = "deleted"

\* What a reconcile's copy may tell of the pause requests, were it m.
Tells(m) ==
  /\ m.pauseRequested = mw.pauseRequested
  /\ m.lastPauseRequest \in {mw.lastPauseRequest, mw.pauseRequested}
  /\ mw.phase = "New" /\ m.phase # "New" => m.lastPauseRequest = mw.pauseRequested

Answers ==
  /\ seenFresh => seenMw = mw
  /\ mw.lastPauseRequest <= mw.pauseRequested
  /\ \A t \in acted : t <= mw.pauseRequested /\ (mw.phase # "New" => t <= mw.lastPauseRequest)
  /\ pc # "idle" /\ wFresh => Tells(w)

AnswerInv == TypeInv /\ StillNew /\ Answers

LEMMA AnswerInvInit == Init => AnswerInv
<1> SUFFICES ASSUME Init PROVE AnswerInv
  OBVIOUS
<1>1. TypeInv
  BY TypeInvInit
<1>2. StillNew
  BY DEF Init, StillNew
<1>3. Answers
  BY DEF Init, Answers, Fresh
<1> QED
  BY <1>1, <1>2, <1>3 DEF AnswerInv

\* A copy that says of the pause request what w does, or answers it.
Carries(m) ==
  /\ m.pauseRequested = w.pauseRequested
  /\ m.lastPauseRequest \in {w.lastPauseRequest, w.pauseRequested}
  /\ w.phase = "New" /\ m.phase # "New" => m.lastPauseRequest = w.pauseRequested

WritesNone == UNCHANGED <<mw, seenMw, seenFresh, acted>>
MayBeNew == {"entry", "done", "again", "deleted"}

\* The ways a reconcile moves on keep it.
LEMMA WriteAnswers ==
  ASSUME AnswerInv, NEW new, NEW next, WriteThen(new, next), WritesNone, pc # "idle",
         Carries(new), new.phase = "New" => next \in MayBeNew
  PROVE  StillNew' /\ Answers'
BY DEF AnswerInv, Answers, Tells, StillNew, WriteThen, Carries, WritesNone, MayBeNew, HandBack

LEMMA GotoAnswers ==
  ASSUME AnswerInv, NEW step, Goto(step), WritesNone, pc # "idle",
         w.phase # "New" \/ step \in MayBeNew
  PROVE  StillNew' /\ Answers'
BY DEF AnswerInv, Answers, Tells, StillNew, Goto, WritesNone, MayBeNew

LEMMA RestoreAnswers ==
  ASSUME AnswerInv, NEW new, NEW next, RestoreThen(new, next), WritesNone, pc # "idle",
         Carries(new), new.phase # "New" \/ next = "deleted"
  PROVE  StillNew' /\ Answers'
BY DEF AnswerInv, Answers, Tells, StillNew, RestoreThen, Carries, WritesNone, HandBack

LEMMA EndAnswers ==
  ASSUME AnswerInv, NEW again, End(again), WritesNone
  PROVE  StillNew' /\ Answers'
BY DEF AnswerInv, Answers, StillNew, End, WritesNone

\* A step that goes on with the copy it has.
LEMMA StayAnswers ==
  ASSUME AnswerInv, UNCHANGED <<w, wFresh>>, WritesNone, pc # "idle",
         w.phase # "New" \/ pc' \in MayBeNew \/ (pc' \in HandBack /\ then' = "deleted")
  PROVE  StillNew' /\ Answers'
BY DEF AnswerInv, Answers, Tells, StillNew, WritesNone, MayBeNew

\* What the ways a reconcile changes its copy do to the requests.
LEMMA AnswersPause ==
  ASSUME NEW m \in ManagedWorkload
  PROVE  /\ AnswerPause(m).pauseRequested = m.pauseRequested
         /\ AnswerPause(m).lastPauseRequest = m.pauseRequested
         /\ AnswerPause(m).phase = m.phase
         /\ \A x \in {AnswerWake(m), ToRunning(m)} \cup {To(phase, m) : phase \in Phases} :
              x.pauseRequested = m.pauseRequested /\ x.lastPauseRequest = m.lastPauseRequest
         /\ AnswerWake(m).phase = m.phase /\ ToRunning(m).phase = "Running"
         /\ \A phase \in Phases : To(phase, m).phase = phase
BY DEF ManagedWorkload, AnswerPause, AnswerWake, ToRunning, To

\* The steps that only think.
LEMMA EntryAnswers ==
  ASSUME AnswerInv,
         Done \/ UpdateConflict \/ EnsureFinalizer \/ TakeOn \/ TargetMissing
           \/ RecoverPause \/ RecoverFromTarget \/ Recovered
  PROVE  StillNew' /\ Answers'
<1>0. w \in ManagedWorkload
  BY DEF AnswerInv, TypeInv, TypeOK
<1>a. Thinks => WritesNone
  BY DEF Thinks, WritesNone, api, caches, history
<1>b. Carries(w) /\ Carries(AnswerPause(w)) /\ Carries(AnswerWake(w))
  BY <1>0, AnswersPause DEF Carries
<1>c. w.phase # "New" => Carries(ToRunning(w)) /\ ToRunning(w).phase # "New"
  BY <1>0, AnswersPause DEF Carries
<1>1. CASE Done \/ UpdateConflict
  BY <1>a, <1>1, EndAnswers DEF Done, UpdateConflict, Retry
<1>2. CASE EnsureFinalizer
  <2>1. Carries([w EXCEPT !.finalizer = TRUE])
    BY <1>0 DEF Carries, ManagedWorkload
  <2> QED
    BY <1>a, <1>2, <2>1, WriteAnswers DEF EnsureFinalizer, MayBeNew
<1>3. CASE TakeOn
  <2>1. Carries(ToRunning(AnswerPause(w)))
    BY <1>0 DEF Carries, ToRunning, AnswerPause, ManagedWorkload
  <2> QED
    BY <1>a, <1>3, <2>1, WriteAnswers DEF TakeOn, MayBeNew
<1>4. CASE TargetMissing
  BY <1>a, <1>b, <1>4, WriteAnswers, EndAnswers DEF TargetMissing, RefuseRequests, Retry, MayBeNew
<1>5. CASE RecoverPause
  <2>1. w.phase # "New" /\ pc # "idle"
    BY <1>5 DEF RecoverPause, Managed
  <2> QED
    BY <1>a, <1>c, <1>5, <2>1, GotoAnswers, WriteAnswers DEF RecoverPause, ForgetLostPause
<1>6. CASE RecoverFromTarget
  <2> DEFINE lost(pause) == [w EXCEPT !.pause = pause]
             paused(pause) == [w EXCEPT !.phase = "Paused", !.pause = pause]
  <2>1. w.phase # "New" /\ pc # "idle"
    BY <1>6 DEF RecoverFromTarget, AnswerInv, StillNew, HandBack
  <2>2. ASSUME NEW pause PROVE Carries(lost(pause)) /\ lost(pause).phase # "New"
    BY <1>0, <2>1 DEF Carries, ManagedWorkload
  <2>3. ASSUME NEW pause
        PROVE  /\ Carries(AnswerWake(AnswerPause(paused(pause))))
               /\ AnswerWake(AnswerPause(paused(pause))).phase # "New"
    BY <1>0, <2>1 DEF Carries, ManagedWorkload, AnswerWake, AnswerPause
  <2> HIDE DEF lost, paused
  <2>4. CASE Retry /\ Thinks
    BY <1>a, <2>4, EndAnswers DEF Retry
  <2>5. CASE ForgetLostPause /\ Thinks
    BY <1>a, <1>c, <2>1, <2>5, GotoAnswers, WriteAnswers DEF ForgetLostPause
  <2>6. CASE (\E pause : RestoreThen(lost(pause), "recovered")) /\ Thinks
    BY <1>a, <2>1, <2>2, <2>6, RestoreAnswers
  <2>7. CASE (\E pause : WriteThen(AnswerWake(AnswerPause(paused(pause))), "done")) /\ Thinks
    BY <1>a, <2>1, <2>3, <2>7, WriteAnswers
  <2> QED
    BY <1>6, <2>4, <2>5, <2>6, <2>7 DEF RecoverFromTarget, lost, paused
<1>7. CASE Recovered
  <2>1. w.phase # "New" /\ pc # "idle"
    BY <1>7 DEF Recovered, AnswerInv, StillNew, HandBack
  <2>2. CASE WriteThen(ToRunning(w), "done") /\ Thinks
    BY <1>a, <1>c, <2>1, <2>2, WriteAnswers
  <2>3. CASE w' = [w EXCEPT !.pause = NoPause] /\ pc' = "ignored" /\ wFresh' = wFresh /\ Thinks
    <3>1. Carries(w') /\ w'.phase # "New"
      BY <1>0, <2>1, <2>3 DEF Carries, ManagedWorkload
    <3> QED
      BY <1>a, <2>1, <2>3, <3>1 DEF AnswerInv, Answers, Tells, StillNew, Carries, WritesNone
  <2> QED
    BY <1>7, <2>2, <2>3 DEF Recovered
<1> QED
  BY <1>1, <1>2, <1>3, <1>4, <1>5, <1>6, <1>7

LEMMA DecideAnswers ==
  ASSUME AnswerInv,
         Ignored \/ HandedBack \/ WakeOnScaleUp \/ ScaledUp \/ StaleForRouting \/ Decide
           \/ ScaledToZero \/ WokenOrStaysPaused \/ PauseRequest \/ IdleClock
  PROVE  StillNew' /\ Answers'
<1>0. w \in ManagedWorkload
  BY DEF AnswerInv, TypeInv, TypeOK
<1>a. Thinks => WritesNone
  BY DEF Thinks, WritesNone, api, caches, history
<1>1. w.phase # "New" /\ pc # "idle"
  BY DEF AnswerInv, StillNew, HandBack, Ignored, HandedBack, WakeOnScaleUp, ScaledUp,
         StaleForRouting, Decide, ScaledToZero, WokenOrStaysPaused, PauseRequest, IdleClock
<1>b. /\ Carries(w) /\ Carries(AnswerPause(w)) /\ AnswerPause(w).phase # "New"
      /\ Carries(AnswerWake(w)) /\ AnswerWake(w).phase # "New"
      /\ Carries(ToRunning(w)) /\ ToRunning(w).phase # "New"
  BY <1>0, <1>1, AnswersPause DEF Carries
<1>c. Carries(To("Resuming", w)) /\ To("Resuming", w).phase # "New"
  BY <1>0, <1>1 DEF Carries, To, ManagedWorkload
<1>2. CASE Ignored \/ HandedBack \/ WakeOnScaleUp \/ ScaledUp \/ StaleForRouting \/ ScaledToZero
  BY <1>1, <1>2, <1>a, <1>b, WriteAnswers, GotoAnswers, RestoreAnswers, EndAnswers
  DEF Ignored, HandedBack, WakeOnScaleUp, ScaledUp, StaleForRouting, ScaledToZero, RefuseRequests, Retry
<1>3. CASE Decide
  BY <1>1, <1>3, <1>a, <1>c, WriteAnswers, GotoAnswers, EndAnswers DEF Decide, Retry
<1>4. CASE WokenOrStaysPaused
  <2>1. /\ Carries(To("Resuming", AnswerWake(AnswerPause(w))))
        /\ To("Resuming", AnswerWake(AnswerPause(w))).phase # "New"
    BY <1>0, <1>1 DEF Carries, To, AnswerWake, AnswerPause, ManagedWorkload
  <2> QED
    BY <1>1, <1>4, <1>a, <1>b, <2>1, WriteAnswers, GotoAnswers DEF WokenOrStaysPaused
<1>5. CASE PauseRequest
  <2>1. Carries(To("Idle", AnswerPause(w))) /\ To("Idle", AnswerPause(w)).phase # "New"
    BY <1>0, <1>1 DEF Carries, To, AnswerPause, ManagedWorkload
  <2>2. CASE w' = AnswerPause(w) /\ pc' = "prepare" /\ wFresh' = wFresh /\ Thinks
    BY <1>1, <1>a, <1>b, <2>2 DEF AnswerInv, Answers, Tells, StillNew, Carries, WritesNone
  <2>3. CASE \/ Goto("idleClock") \/ WriteThen(AnswerPause(w), "requests")
             \/ WriteThen(To("Idle", AnswerPause(w)), "again")
    BY <1>1, <1>5, <1>a, <1>b, <2>1, <2>3, WriteAnswers, GotoAnswers DEF PauseRequest
  <2> QED
    BY <1>5, <2>2, <2>3 DEF PauseRequest
<1>6. CASE IdleClock
  <2> DEFINE m == AnswerWake(IF w.phase = "Idle" THEN AnswerPause(w) ELSE w)
  <2>1. /\ Carries(m) /\ m.phase # "New"
        /\ Carries(ToRunning(m)) /\ ToRunning(m).phase # "New"
        /\ Carries(To("Idle", m)) /\ To("Idle", m).phase # "New"
    BY <1>0, <1>1 DEF Carries, AnswerWake, AnswerPause, ToRunning, To, ManagedWorkload
  <2>2. \/ \E next \in Steps : \/ WriteThen(m, next) \/ WriteThen(ToRunning(m), next)
                               \/ WriteThen(To("Idle", m), next)
        \/ Goto("again") \/ Goto("prepare")
    BY <1>6 DEF IdleClock, Steps
  <2> HIDE DEF m
  <2> QED
    BY <1>1, <1>6, <1>a, <2>1, <2>2, WriteAnswers, GotoAnswers DEF IdleClock
<1> QED
  BY <1>2, <1>3, <1>4, <1>5, <1>6

LEMMA ScaleAnswers ==
  ASSUME AnswerInv,
         Prepare \/ CopyRecord \/ HoldAtZero \/ ScaleToZero
           \/ Resume \/ HoldAtRestored \/ ScaleUp \/ Settle \/ RecordResumeProgress \/ Resumed
  PROVE  StillNew' /\ Answers'
<1>0. w \in ManagedWorkload
  BY DEF AnswerInv, TypeInv, TypeOK
<1>a. Thinks => WritesNone
  BY DEF Thinks, WritesNone, api, caches, history
<1>1. w.phase # "New" /\ pc # "idle"
  BY DEF AnswerInv, StillNew, HandBack, Prepare, CopyRecord, HoldAtZero, ScaleToZero,
         Resume, HoldAtRestored, ScaleUp, Settle, RecordResumeProgress, Resumed
<1>2. CASE Prepare
  <2>1. Carries(Recorded) /\ Recorded.phase # "New"
    BY <1>0, <1>1 DEF Carries, Recorded, ManagedWorkload
  <2> QED
    BY <1>1, <1>2, <1>a, <2>1, WriteAnswers, EndAnswers DEF Prepare, Retry
<1>3. CASE CopyRecord \/ HoldAtZero \/ HoldAtRestored \/ ScaleUp
  BY <1>1, <1>3, GotoAnswers, EndAnswers
  DEF CopyRecord, HoldAtZero, HoldAtRestored, ScaleUp, WritesNone, caches, history, Retry
<1>4. CASE ScaleToZero
  <2> DEFINE m == [w EXCEPT !.pause.pausedAt = TRUE]
  <2>1. Carries(m) /\ m.phase # "New" /\ Carries(To("Paused", m)) /\ To("Paused", m).phase # "New"
    BY <1>0, <1>1 DEF Carries, To, ManagedWorkload
  <2>2. WriteThen(m, "again") \/ WriteThen(To("Paused", m), "again") \/ Retry
    BY <1>4 DEF ScaleToZero
  <2>3. WritesNone
    BY <1>4 DEF ScaleToZero, WritesNone, caches
  <2> HIDE DEF m
  <2> QED
    BY <1>1, <2>1, <2>2, <2>3, WriteAnswers, EndAnswers DEF Retry
<1>5. CASE Resume \/ Settle
  <2>1. Retry \/ (pc' # "idle" /\ UNCHANGED <<w, wFresh>>)
    BY <1>5 DEF Resume, Settle
  <2>2. WritesNone
    BY <1>5, <1>a DEF Resume, Settle
  <2> QED
    BY <1>1, <2>1, <2>2, StayAnswers, EndAnswers DEF Retry
<1>6. CASE RecordResumeProgress
  <2> DEFINE m == [w EXCEPT !.pause.resumedAt = TRUE,
                            !.pause.firstReadyAt = (@ \/ ReadyOf = "some")]
  <2>1. Carries(m) /\ m.phase # "New"
    BY <1>0, <1>1 DEF Carries, ManagedWorkload
  <2>2. WriteThen(m, "again") \/ Retry
    BY <1>6 DEF RecordResumeProgress
  <2>3. WritesNone
    BY <1>6, <1>a DEF RecordResumeProgress
  <2> HIDE DEF m
  <2> QED
    BY <1>1, <2>1, <2>2, <2>3, WriteAnswers, EndAnswers DEF Retry
<1>7. CASE Resumed
  <2>1. Carries(ToRunning(w)) /\ ToRunning(w).phase # "New"
    BY <1>0, <1>1, AnswersPause DEF Carries
  <2> QED
    BY <1>1, <1>7, <1>a, <2>1, WriteAnswers DEF Resumed
<1> QED
  BY <1>2, <1>3, <1>4, <1>5, <1>6, <1>7

\* A hand-back, which may be a ManagedWorkload's without a status, going.
LEMMA HandBackAnswers ==
  ASSUME AnswerInv,
         Restore \/ RestoreHold \/ RestoreScale \/ ReleaseKEDA \/ DropRecord \/ Delete \/ Deleted
  PROVE  StillNew' /\ Answers'
<1>0. w \in ManagedWorkload
  BY DEF AnswerInv, TypeInv, TypeOK
<1>a. Thinks => WritesNone
  BY DEF Thinks, WritesNone, api, caches, history
<1>1. CASE Restore \/ RestoreHold \/ RestoreScale \/ ReleaseKEDA \/ DropRecord
  <2>1. w.phase # "New" \/ then = "deleted"
    BY <1>1 DEF AnswerInv, StillNew, HandBack, Restore, RestoreHold, RestoreScale, ReleaseKEDA, DropRecord
  <2>2. WritesNone /\ pc # "idle"
    BY <1>1, <1>a
    DEF Restore, RestoreHold, RestoreScale, ReleaseKEDA, DropRecord, WritesNone, caches, history
  <2>3. \/ Retry
        \/ UNCHANGED <<w, wFresh, then>> /\ pc' \in HandBack \cup {then}
    BY <1>1 DEF Restore, RestoreHold, RestoreScale, ReleaseKEDA, DropRecord, Goto, HandBack
  <2> QED
    BY <2>1, <2>2, <2>3, StayAnswers, EndAnswers DEF Retry, MayBeNew
<1>2. CASE Delete
  <2>1. Carries(w)
    BY DEF Carries
  <2> QED
    BY <1>2, <1>a, <2>1, GotoAnswers, RestoreAnswers DEF Delete, MayBeNew
<1>3. CASE Deleted
  <2> DEFINE m == [w EXCEPT !.pause = NoPause]
             gone == [m EXCEPT !.finalizer = FALSE, !.gone = TRUE]
  <2>1. Carries(m) /\ Carries(AnswerWake(m)) /\ Carries(gone)
    BY <1>0 DEF Carries, AnswerWake, ManagedWorkload
  <2>2. \E next \in MayBeNew : WriteThen(m, next) \/ WriteThen(AnswerWake(m), next) \/ WriteThen(gone, next)
    BY <1>3 DEF Deleted, MayBeNew
  <2>3. WritesNone /\ pc # "idle"
    BY <1>3 DEF Deleted, WritesNone, api, caches, history
  <2> HIDE DEF m, gone
  <2> QED
    BY <2>1, <2>2, <2>3, WriteAnswers
<1> QED
  BY <1>1, <1>2, <1>3

\* A reconcile's write: an awake workload's request goes from answered to
\* acted on only if it's later than all those acted on.
LEMMA UpdateAnswers ==
  ASSUME AnswerInv, Update
  PROVE  StillNew' /\ Answers'
<1>0. mw \in ManagedWorkload /\ w \in ManagedWorkload /\ acted \subseteq Tokens
  BY DEF AnswerInv, TypeInv, TypeOK
<1>a. Tells(w) /\ wFresh
  BY DEF AnswerInv, Answers, Update
<1>b. \A t \in acted' : t \in acted \/ t = w.lastPauseRequest
  BY DEF Update
<1>1. /\ mw' = w /\ w' = w /\ wFresh' = wFresh /\ ~seenFresh' /\ pc' = then /\ then' = then
      /\ pc = "write"
  BY DEF Update, Goto
<1>2. w.lastPauseRequest <= w.pauseRequested /\ mw.lastPauseRequest <= w.lastPauseRequest
  BY <1>0, <1>a DEF AnswerInv, Answers, Tells, ManagedWorkload, Tokens
<1>3. ASSUME NEW t \in acted'
      PROVE  t <= w.pauseRequested /\ (w.phase # "New" => t <= w.lastPauseRequest)
  <2>1. CASE t = w.lastPauseRequest
    BY <1>0, <1>2, <2>1 DEF ManagedWorkload, Tokens
  <2>2. CASE t \in acted
    <3>1. t <= mw.pauseRequested /\ (mw.phase # "New" => t <= mw.lastPauseRequest)
      BY <2>2 DEF AnswerInv, Answers
    <3>2. CASE mw.phase = "New"
      BY <1>a, <3>1, <3>2 DEF Tells
    <3>3. CASE mw.phase # "New"
      BY <1>0, <1>2, <1>a, <2>2, <3>1, <3>3 DEF Tells, ManagedWorkload, Tokens
    <3> QED
      BY <3>2, <3>3
  <2> QED
    BY <1>b, <2>1, <2>2
<1>4. Answers'
  BY <1>0, <1>1, <1>2, <1>3 DEF Answers, Tells
<1>5. StillNew'
  BY <1>1 DEF AnswerInv, TypeInv, PauseInHand, StillNew, HandBack
<1> QED
  BY <1>4, <1>5

\* Reading the cache, and what others do: a lost status answers nothing, and
\* what's been acted on is no later than what has been asked for.
LEMMA OutsideAnswers ==
  ASSUME AnswerInv, Start \/ Catchup \/ Cluster \/ Outside
  PROVE  StillNew' /\ Answers'
<1>0. mw \in ManagedWorkload /\ acted \subseteq Tokens
  BY DEF AnswerInv, TypeInv, TypeOK
<1>1. CASE Start
  <2>1. pc' \in {"done", "entry"}
    BY <1>1 DEF Start
  <2>2. WritesNone /\ w' = seenMw /\ wFresh' = seenFresh
    BY <1>1 DEF Start, Thinks, WritesNone, api, caches, history
  <2>3. seenFresh => Tells(seenMw)
    BY DEF AnswerInv, Answers, Tells
  <2> QED
    BY <2>1, <2>2, <2>3 DEF AnswerInv, Answers, Tells, StillNew, WritesNone
<1>2. CASE Catchup
  BY <1>2 DEF Catchup, DeliverWorkload, DeliverTarget, AnswerInv, Answers, Tells, StillNew, api, local, history
<1>3. CASE Cluster \/ PodsFail \/ Scale \/ Ignore \/ Recreate
  <2>1. UNCHANGED <<mw, seenMw, seenFresh, acted, pc, then, w, wFresh>>
    BY <1>3 DEF Cluster, PodsMove, KedaHolds, PodsFail, Scale, Ignore, Recreate, TgtWritten, caches
  <2> QED
    BY <2>1 DEF AnswerInv, Answers, Tells, StillNew
<1>4. CASE Fail
  BY <1>4, EndAnswers DEF Fail, Retry, WritesNone, api, caches, history
<1>5. CASE Crash
  BY <1>5 DEF Crash, Retry, End, AnswerInv, Answers, StillNew, api, history
<1>6. CASE Annotate \/ Edit \/ LoseStatus
  <2> DEFINE Later(m) == /\ m.pauseRequested \in Nat /\ mw.pauseRequested <= m.pauseRequested
                         /\ \/ m.phase = "New" /\ m.lastPauseRequest = 0
                            \/ m.phase = mw.phase /\ m.lastPauseRequest = mw.lastPauseRequest
  <2>0. /\ Later(mw) /\ Later([mw EXCEPT !.pauseRequested = @ + 1])
        /\ Later([mw EXCEPT !.wakeRequested = @ + 1]) /\ Later([mw EXCEPT !.lastActivity = @ + 1])
        /\ Later([mw EXCEPT !.dryRun = ~@])
        /\ Later([mw EXCEPT !.deleting = TRUE, !.gone = ~mw.finalizer])
        /\ Later([mw EXCEPT !.phase = "New", !.pause = NoPause,
                            !.lastPauseRequest = 0, !.lastWakeRequest = 0])
    BY <1>0 DEF ManagedWorkload, Tokens
  <2>1. PICK m : MwWritten(m) /\ Later(m)
    <3> HIDE DEF Later
    <3> QED
      BY <1>6, <2>0 DEF Annotate, Edit, LoseStatus
  <2>2. /\ mw' = m /\ ~seenFresh' /\ (pc' # "idle" => ~wFresh')
        /\ UNCHANGED <<acted, pc, then, w>>
    BY <2>1 DEF MwWritten, history
  <2>3. m.lastPauseRequest <= m.pauseRequested
    BY <1>0, <2>1 DEF AnswerInv, Answers, ManagedWorkload, Tokens
  <2>4. ASSUME NEW t \in acted
        PROVE  t <= m.pauseRequested /\ (m.phase # "New" => t <= m.lastPauseRequest)
    BY <1>0, <2>1, <2>4 DEF AnswerInv, Answers, ManagedWorkload, Tokens
  <2> QED
    BY <2>2, <2>3, <2>4 DEF AnswerInv, Answers, StillNew
<1> QED
  BY <1>1, <1>2, <1>3, <1>4, <1>5, <1>6 DEF Outside

LEMMA AnswerInvStep == AnswerInv /\ [Next]_vars => AnswerInv'
<1> SUFFICES ASSUME AnswerInv, [Next]_vars PROVE AnswerInv'
  OBVIOUS
<1>1. TypeInv'
  BY TypeInvStep DEF AnswerInv
<1>2. CASE Reconcile
  BY <1>1, <1>2, EntryAnswers, UpdateAnswers, DecideAnswers, ScaleAnswers, HandBackAnswers, OutsideAnswers
  DEF Reconcile, AnswerInv
<1>3. CASE Catchup \/ Cluster \/ Outside
  BY <1>1, <1>3, OutsideAnswers DEF AnswerInv
<1>4. CASE UNCHANGED vars
  BY <1>1, <1>4 DEF AnswerInv, Answers, Tells, StillNew, vars, api, caches, local, history
<1> QED
  BY <1>2, <1>3, <1>4 DEF Next

\* Only a reconcile's write takes a workload into Pausing, and no request is
\* acted on twice, whatever is retried, lags, fails or is lost
\* (answerPauseRequest, preparePause and takeOn).
THEOREM ActsOnce == Spec => RequestActsOnce
<1> DEFINE Act == mw.phase \in Awake /\ mw'.phase = "Pausing" /\ mw'.lastPauseRequest # mw.lastPauseRequest
                    => mw'.lastPauseRequest \notin acted
<1>1. AnswerInv /\ [Next]_vars => [Act]_vars
  <2> SUFFICES ASSUME AnswerInv, Next, mw.phase \in Awake, mw'.phase = "Pausing",
                      mw'.lastPauseRequest # mw.lastPauseRequest
               PROVE  mw'.lastPauseRequest \notin acted
    OBVIOUS
  <2>0. mw \in ManagedWorkload /\ acted \subseteq Tokens
    BY DEF AnswerInv, TypeInv, TypeOK
  <2>1. CASE Update
    <3>1. mw' = w /\ w.lastPauseRequest = mw.pauseRequested
      BY <2>1 DEF Update, AnswerInv, Answers, Tells
    <3>2. mw.lastPauseRequest < w.lastPauseRequest
      BY <2>0, <3>1 DEF AnswerInv, Answers, ManagedWorkload, Tokens
    <3>3. \A t \in acted : t <= mw.lastPauseRequest
      BY DEF AnswerInv, Answers, Awake
    <3> QED
      BY <2>0, <3>1, <3>2, <3>3 DEF ManagedWorkload, Tokens
  <2>2. CASE Reconcile /\ ~Update
    <3>1. mw' = mw
      BY <2>2
      DEF Reconcile, Start, Done, UpdateConflict, EnsureFinalizer, TakeOn, TargetMissing, RecoverPause,
          RecoverFromTarget, Recovered, Ignored, HandedBack, WakeOnScaleUp, ScaledUp, StaleForRouting,
          Decide, ScaledToZero, WokenOrStaysPaused, PauseRequest, IdleClock, Prepare, CopyRecord,
          HoldAtZero, ScaleToZero, Resume, HoldAtRestored, ScaleUp, Settle, RecordResumeProgress,
          Resumed, Restore, RestoreHold, RestoreScale, ReleaseKEDA, DropRecord, Delete, Deleted,
          Thinks, api
    <3> QED
      BY <3>1
  <2>3. CASE Catchup \/ Cluster \/ Outside
    <3>1. \/ mw' = mw \/ mw'.phase = "New" \/ mw'.lastPauseRequest = mw.lastPauseRequest
      BY <2>0, <2>3
      DEF Catchup, DeliverWorkload, DeliverTarget, Cluster, PodsMove, KedaHolds, Outside, Fail, Crash,
          PodsFail, Scale, Ignore, Recreate, TgtWritten, Annotate, Edit, LoseStatus, MwWritten,
          ManagedWorkload, api
    <3> QED
      BY <3>1
  <2> QED
    BY <2>1, <2>2, <2>3 DEF Next
<1>2. RequestActsOnce <=> [][Act]_vars
  BY PTL DEF RequestActsOnce
<1> QED
  BY <1>1, <1>2, AnswerInvInit, AnswerInvStep, PTL DEF Spec

----------------------------------------------------------------------------
\* What PauseContract is worth to a workload: an operator that keeps it never
\* leaves a target off without a record to bring it back from, whatever it's
\* made of (handlePause, copyRecord, dropRecord and recoverPause's order).
THEOREM ContractKeepsRecord == KeepsContract => []RecordKept
<1> DEFINE Owed == ~(tgt.replicas > 0) /\ offByUs => mw.pause # NoPause \/ tgt.pausedFrom # NoPause
<1>1. Contract!Init => Owed
  BY DEF Contract!Init
<1>2. Owed /\ [Contract!Next]_(Contract!vars) => Owed'
  BY DEF Contract!Next, Contract!vars, Contract!Owe, Contract!TurnOff, Contract!TurnOn,
         Contract!Settle, Contract!Meddle
<1>3. Owed => RecordKept
  BY DEF RecordKept
<1> QED
  BY <1>1, <1>2, <1>3, PTL DEF KeepsContract, Contract!Spec


----------------------------------------------------------------------------
(* The reconcile's copy of the ManagedWorkload, of one whose cache was     *)
(* current as it was read.                                                 *)

\* Whether a ManagedWorkload may lose its status.
Lossy == "lose" \in Externals

\* A ManagedWorkload without a pause has no record, and one being paused
\* hasn't been scaled up from its record.
Sound(m) ==
  /\ m.phase \in Awake \cup {"New"} \/ ~m.finalizer \/ m.gone => m.pause = NoPause
  /\ m.phase = "Pausing" /\ m.pause # NoPause => ~m.pause.resumedAt

Ends == {"idle", "done", "again"}
WrittenFor ==
  {"entry", "done", "ignored", "again", "resume", "decide", "zero", "requests",
   "prepare", "copy", "deleted"}

\* What step takes for granted of the copy m it works with.
Fits(m, step) ==
  /\ step \notin Ends => ~m.gone
  /\ step \notin Ends \cup {"entry"} => m.finalizer
  /\ step = "recover" => m.pause = NoPause
  /\ step \in {"zero", "idleClock", "prepare"} => m.phase \in Awake
  /\ step \in {"copy", "holdZero", "scaleZero"} => m.phase = "Pausing"
  /\ step \in {"resume", "holdUp", "scaleUp", "ready"} => m.phase = "Resuming"

\* A lost record is being acted on, from the copy of it on the target.
Recovering == pc = "recovered" \/ (pc \in HandBack /\ then = "recovered")

\* Others may have lost the status since, but no reconcile wrote another one.
Abreast ==
  /\ mw.phase \in {w.phase, "New"}
  /\ IF Recovering THEN mw.pause = NoPause
     ELSE /\ Sound(w) /\ mw.pause \in {w.pause, NoPause}
          /\ wFresh \/ ~Lossy => mw.pause = w.pause

CopyInv ==
  /\ seenFresh => seenMw = mw
  /\ Sound(mw)
  /\ pc = "write" => Sound(w) /\ Fits(w, then) /\ then \in WrittenFor
  /\ pc \notin {"idle", "write"} => Abreast /\ Fits(w, pc)

\* What a step of the reconcile's other than Update leaves alone.
Unwritten == UNCHANGED <<mw, seenMw, seenFresh>>

LEMMA ThinksUnwritten == Thinks => Unwritten
BY DEF Thinks, Unwritten, api, caches

LEMMA WriteFits ==
  ASSUME CopyInv, NEW m, NEW next \in WrittenFor, Sound(m), Fits(m, next), WriteThen(m, next), Unwritten
  PROVE  CopyInv'
BY DEF CopyInv, WriteThen, Unwritten, Sound, Fits

LEMMA EndFits ==
  ASSUME CopyInv, NEW again, End(again), Unwritten
  PROVE  CopyInv'
BY DEF CopyInv, End, Unwritten, Sound

\* A step that goes on with the copy it has.
LEMMA StayFits ==
  ASSUME CopyInv, pc \notin {"idle", "write"}, pc' \notin {"idle", "write"},
         Recovering' <=> Recovering, Fits(w, pc'), UNCHANGED <<w, wFresh>>, Unwritten
  PROVE  CopyInv'
BY DEF CopyInv, Abreast, Unwritten, Sound, Fits

LEMMA GotoFits ==
  ASSUME CopyInv, NEW step, Goto(step), pc \notin {"idle", "write"} \cup HandBack \cup {"recovered"},
         step \notin {"idle", "write"} \cup HandBack \cup {"recovered"}, Fits(w, step), Unwritten
  PROVE  CopyInv'
<1>1. ~Recovering /\ ~Recovering'
  BY DEF Recovering, Goto
<1>2. pc' = step /\ Fits(w, pc') /\ UNCHANGED <<w, wFresh>>
  BY DEF Goto
<1> QED
  BY <1>1, <1>2, StayFits

LEMMA RestoreFits ==
  ASSUME CopyInv, NEW next, RestoreThen(w, next), next # "recovered",
         pc \notin {"idle", "write", "recovered"} \cup HandBack, Fits(w, "restore"), Unwritten
  PROVE  CopyInv'
<1>1. ~Recovering /\ ~Recovering'
  BY DEF Recovering, RestoreThen
<1>2. pc' = "restore" /\ Fits(w, pc') /\ UNCHANGED <<w, wFresh>>
  BY DEF RestoreThen
<1> QED
  BY <1>1, <1>2, StayFits

\* What the ways a reconcile changes its copy keep.
LEMMA AnswersSound ==
  ASSUME NEW m \in ManagedWorkload, NEW next, Sound(m), Fits(m, next)
  PROVE  /\ Sound(AnswerPause(m)) /\ Fits(AnswerPause(m), next)
         /\ Sound(AnswerWake(m)) /\ Fits(AnswerWake(m), next)
BY DEF Sound, Fits, AnswerPause, AnswerWake, ManagedWorkload

\* Running, a workload has no record, so nothing more is asked of it.
LEMMA RunningSound ==
  ASSUME NEW m \in ManagedWorkload
  PROVE  Sound(ToRunning(m)) /\ ToRunning(m).finalizer = m.finalizer /\ ToRunning(m).gone = m.gone
BY DEF Sound, ToRunning, ManagedWorkload, Awake

LEMMA EntryFits ==
  ASSUME TypeInv, CopyInv,
         Done \/ UpdateConflict \/ EnsureFinalizer \/ TakeOn \/ TargetMissing \/ RecoverPause
  PROVE  CopyInv'
<1>0. w \in ManagedWorkload
  BY DEF TypeInv, TypeOK
<1>a. Unwritten
  BY ThinksUnwritten DEF Done, UpdateConflict, EnsureFinalizer, TakeOn, TargetMissing, RecoverPause
<1>1. CASE Done \/ UpdateConflict
  BY <1>a, <1>1, EndFits DEF Done, UpdateConflict, Retry
<1>2. CASE pc = "entry"
  <2>1. Sound(w) /\ ~w.gone
    BY <1>2 DEF CopyInv, Abreast, Recovering, HandBack, Fits, Ends
  <2>2. CASE EnsureFinalizer
    <3>1. Sound([w EXCEPT !.finalizer = TRUE]) /\ Fits([w EXCEPT !.finalizer = TRUE], "entry")
      BY <1>0, <2>1 DEF Sound, Fits, ManagedWorkload, Ends
    <3> QED
      BY <1>a, <2>2, <3>1, WriteFits DEF EnsureFinalizer, WrittenFor
  <2>3. CASE TakeOn
    <3>1. Sound(ToRunning(AnswerPause(w))) /\ Fits(ToRunning(AnswerPause(w)), "done")
      BY <1>0, AnswersTyped, RunningSound DEF Fits, Ends
    <3> QED
      BY <1>a, <2>3, <3>1, WriteFits DEF TakeOn, WrittenFor
  <2>4. CASE TargetMissing
    <3>1. Fits(w, "entry")
      BY <2>1 DEF Fits
    <3>2. /\ Sound(AnswerPause(w)) /\ Fits(AnswerPause(w), "entry")
          /\ Sound(AnswerWake(w)) /\ Fits(AnswerWake(w), "entry")
      BY <1>0, <2>1, <3>1, AnswersSound
    <3>3. Retry \/ WriteThen(AnswerPause(w), "entry") \/ WriteThen(AnswerWake(w), "entry")
      BY <2>4 DEF TargetMissing, RefuseRequests
    <3> QED
      BY <1>a, <3>2, <3>3, WriteFits, EndFits DEF Retry, WrittenFor
  <2>5. CASE RecoverPause
    <3>1. Fits(w, "ignored") /\ (w.pause = NoPause => Fits(w, "recover"))
      BY <2>1, <2>5 DEF RecoverPause, Managed, Fits, Ends
    <3>2. Sound(ToRunning(w)) /\ Fits(ToRunning(w), "done")
      BY <1>0, RunningSound DEF Fits, Ends
    <3>3. \/ Goto("ignored") \/ WriteThen(ToRunning(w), "done")
          \/ Goto("recover") /\ w.pause = NoPause
      BY <2>5 DEF RecoverPause, ForgetLostPause
    <3> QED
      BY <1>2, <1>a, <3>1, <3>2, <3>3, WriteFits, GotoFits DEF WrittenFor, HandBack
  <2> QED
    BY <1>2, <1>1, <2>2, <2>3, <2>4, <2>5
<1> QED
  BY <1>1, <1>2 DEF EnsureFinalizer, TakeOn, TargetMissing, RecoverPause

LEMMA RecoverFits ==
  ASSUME TypeInv, CopyInv, RecoverFromTarget \/ Recovered
  PROVE  CopyInv'
<1>0. w \in ManagedWorkload
  BY DEF TypeInv, TypeOK
<1>a. Unwritten
  BY ThinksUnwritten DEF RecoverFromTarget, Recovered
<1>b. Sound(ToRunning(w)) /\ Fits(ToRunning(w), "done")
  BY <1>0, RunningSound DEF Fits, Ends
<1>1. CASE RecoverFromTarget
  <2> DEFINE lost(pause) == [w EXCEPT !.pause = pause]
             paused(pause) == [w EXCEPT !.phase = "Paused", !.pause = pause]
  <2>1. /\ pc = "recover" /\ Sound(w) /\ Fits(w, "recover") /\ ~w.gone /\ w.finalizer
        /\ w.pause = NoPause /\ mw.pause = NoPause /\ mw.phase \in {w.phase, "New"}
    BY <1>1 DEF RecoverFromTarget, CopyInv, Abreast, Recovering, HandBack, Fits, Ends
  <2>2. CASE Retry
    BY <1>a, <2>2, EndFits DEF Retry
  <2>3. CASE ForgetLostPause
    <3>1. Fits(w, "ignored")
      BY <2>1 DEF Fits, Ends
    <3> QED
      BY <1>a, <1>b, <2>1, <2>3, <3>1, GotoFits, WriteFits DEF ForgetLostPause, WrittenFor, HandBack
  <2>4. ASSUME NEW pause, RestoreThen(lost(pause), "recovered")
        PROVE  CopyInv'
    <3>1. w'.phase = w.phase /\ Fits(w', "restore")
      BY <1>0, <2>1, <2>4 DEF RestoreThen, Fits, ManagedWorkload, Ends
    <3>2. pc' = "restore" /\ Recovering'
      BY <2>4 DEF RestoreThen, Recovering, HandBack
    <3> HIDE DEF lost
    <3> QED
      BY <1>a, <2>1, <3>1, <3>2 DEF CopyInv, Abreast, Unwritten, Sound
  <2>5. ASSUME NEW pause, WriteThen(AnswerWake(AnswerPause(paused(pause))), "done")
        PROVE  CopyInv'
    <3>1. Sound(AnswerWake(AnswerPause(paused(pause)))) /\ Fits(AnswerWake(AnswerPause(paused(pause))), "done")
      BY <1>0, <2>1 DEF Sound, Fits, AnswerWake, AnswerPause, ManagedWorkload, Awake, Ends
    <3> HIDE DEF paused
    <3> QED
      BY <1>a, <2>5, <3>1, WriteFits DEF WrittenFor
  <2> HIDE DEF lost, paused
  <2>6. \/ Retry \/ ForgetLostPause
        \/ \E pause : RestoreThen(lost(pause), "recovered")
        \/ \E pause : WriteThen(AnswerWake(AnswerPause(paused(pause))), "done")
    BY <1>1 DEF RecoverFromTarget, lost, paused
  <2> QED
    BY <2>2, <2>3, <2>4, <2>5, <2>6
<1>2. CASE Recovered
  <2>1. /\ pc = "recovered" /\ ~w.gone /\ w.finalizer
        /\ mw.pause = NoPause /\ mw.phase \in {w.phase, "New"}
    BY <1>2 DEF Recovered, CopyInv, Abreast, Recovering, Fits, Ends
  <2>2. CASE WriteThen(ToRunning(w), "done")
    BY <1>a, <1>b, <2>2, WriteFits DEF WrittenFor
  <2>3. CASE /\ w' = [w EXCEPT !.pause = NoPause] /\ pc' = "ignored" /\ UNCHANGED wFresh
    <3>1. w'.phase = w.phase /\ w'.pause = NoPause /\ Fits(w', "ignored") /\ Sound(w')
      BY <1>0, <2>1, <2>3 DEF Fits, Sound, ManagedWorkload, Ends
    <3>2. ~Recovering'
      BY <2>3 DEF Recovering, HandBack
    <3> QED
      BY <1>a, <2>1, <2>3, <3>1, <3>2 DEF CopyInv, Abreast, Unwritten, Sound
  <2> QED
    BY <1>2, <2>2, <2>3 DEF Recovered
<1> QED
  BY <1>1, <1>2

LEMMA DecideFits ==
  ASSUME TypeInv, CopyInv,
         Ignored \/ HandedBack \/ WakeOnScaleUp \/ ScaledUp \/ StaleForRouting \/ Decide
  PROVE  CopyInv'
<1>0. w \in ManagedWorkload
  BY DEF TypeInv, TypeOK
<1>a. Unwritten
  BY ThinksUnwritten DEF Ignored, HandedBack, WakeOnScaleUp, ScaledUp, StaleForRouting, Decide
<1>b. pc \in {"ignored", "handedBack", "managed", "scaledUp", "decide"}
  BY DEF Ignored, HandedBack, WakeOnScaleUp, ScaledUp, StaleForRouting, Decide
<1>c. Sound(w) /\ ~w.gone /\ w.finalizer
  BY <1>b DEF CopyInv, Abreast, Recovering, HandBack, Fits, Ends
<1>d. \A step \in {"ignored", "managed", "decide", "requests", "again", "handedBack", "restore"} : Fits(w, step)
  BY <1>c DEF Fits, Ends
<1>e. \A step \in {"again", "decide"} : Sound(ToRunning(w)) /\ Fits(ToRunning(w), step)
  BY <1>0, <1>c, RunningSound DEF Fits, Ends
<1>1. CASE Ignored
  <2>1. /\ Sound(AnswerPause(w)) /\ Fits(AnswerPause(w), "ignored")
        /\ Sound(AnswerWake(w)) /\ Fits(AnswerWake(w), "ignored")
    BY <1>0, <1>c, <1>d, AnswersSound
  <2>2. \/ \E step \in {"managed", "handedBack", "again"} : Goto(step)
        \/ WriteThen(AnswerPause(w), "ignored") \/ WriteThen(AnswerWake(w), "ignored")
        \/ RestoreThen(w, "handedBack")
    BY <1>1 DEF Ignored, RefuseRequests
  <2> QED
    BY <1>a, <1>b, <1>d, <2>1, <2>2, GotoFits, WriteFits, RestoreFits DEF WrittenFor, HandBack
<1>2. CASE HandedBack \/ ScaledUp
  BY <1>2, <1>a, <1>e, WriteFits DEF HandedBack, ScaledUp, WrittenFor
<1>3. CASE WakeOnScaleUp
  BY <1>3, <1>a, <1>b, <1>d, GotoFits, RestoreFits, EndFits DEF WakeOnScaleUp, HandBack, Retry
<1>4. CASE StaleForRouting
  BY <1>4, <1>a, EndFits DEF StaleForRouting, Retry
<1>5. CASE Decide
  <2>1. Sound(To("Resuming", w)) /\ Fits(To("Resuming", w), "resume")
    BY <1>0, <1>c DEF Sound, Fits, To, ManagedWorkload, Awake, Ends
  <2>2. /\ w.phase = "Pausing" => Fits(w, "copy")
        /\ w.phase = "Resuming" => Fits(w, "resume")
        /\ w.phase \in Awake => Fits(w, "zero")
    BY <1>c DEF Fits, Ends
  <2>3. \/ WriteThen(To("Resuming", w), "resume") \/ Retry \/ Goto("requests")
        \/ w.phase = "Pausing" /\ Goto("copy")
        \/ w.phase = "Resuming" /\ Goto("resume")
        \/ w.phase \in Awake /\ Goto("zero")
    BY <1>5 DEF Decide
  <2> QED
    BY <1>a, <1>b, <1>d, <2>1, <2>2, <2>3, GotoFits, WriteFits, EndFits DEF WrittenFor, HandBack, Retry
<1> QED
  BY <1>1, <1>2, <1>3, <1>4, <1>5

LEMMA RequestsFits ==
  ASSUME TypeInv, CopyInv,
         ScaledToZero \/ WokenOrStaysPaused \/ PauseRequest \/ IdleClock
  PROVE  CopyInv'
<1>0. w \in ManagedWorkload
  BY DEF TypeInv, TypeOK
<1>a. Unwritten
  BY ThinksUnwritten DEF ScaledToZero, WokenOrStaysPaused, PauseRequest, IdleClock
<1>b. pc \in {"zero", "requests", "idleClock"}
  BY DEF ScaledToZero, WokenOrStaysPaused, PauseRequest, IdleClock
<1>c. Sound(w) /\ ~w.gone /\ w.finalizer
  BY <1>b DEF CopyInv, Abreast, Recovering, HandBack, Fits, Ends
<1>d. Fits(w, "again") /\ Fits(w, "requests") /\ (w.phase \in Awake => \A step \in {"zero", "idleClock", "prepare"} : Fits(w, step))
  BY <1>c DEF Fits, Ends
<1> DEFINE Same(m) == /\ m \in ManagedWorkload /\ Sound(m) /\ ~m.gone /\ m.finalizer
                      /\ m.phase = w.phase /\ m.pause = w.pause
<1>f. ASSUME NEW m, Same(m)
      PROVE  Same(AnswerPause(m)) /\ Same(AnswerWake(m))
  <2>1. AnswerPause(m) \in ManagedWorkload /\ AnswerWake(m) \in ManagedWorkload
    BY <1>f, AnswersTyped
  <2> QED
    BY <1>f, <2>1 DEF Sound, AnswerPause, AnswerWake, ManagedWorkload
<1>e. \A m \in {w, AnswerPause(w), AnswerWake(w), AnswerWake(AnswerPause(w))} : Same(m)
  <2>1. Same(w)
    BY <1>0, <1>c
  <2> HIDE DEF Same
  <2> QED
    BY <2>1, <1>f
<1>1. CASE ScaledToZero
  <2>1. w.phase \in Awake
    BY <1>1 DEF ScaledToZero, CopyInv, Abreast, Recovering, HandBack, Fits
  <2>2. /\ Sound(AnswerPause(w)) /\ Fits(AnswerPause(w), "zero")
        /\ Sound(AnswerWake(w)) /\ Fits(AnswerWake(w), "zero")
        /\ Sound(ToRunning(w)) /\ Fits(ToRunning(w), "again")
    BY <1>0, <1>c, <1>d, <2>1, AnswersSound, RunningSound DEF Fits, Ends
  <2>3. \/ WriteThen(AnswerPause(w), "zero") \/ WriteThen(AnswerWake(w), "zero")
        \/ WriteThen(ToRunning(w), "again") \/ Goto("again")
    BY <1>1 DEF ScaledToZero, RefuseRequests
  <2> QED
    BY <1>a, <1>b, <1>d, <2>2, <2>3, GotoFits, WriteFits DEF WrittenFor, HandBack
<1>2. CASE WokenOrStaysPaused
  <2> DEFINE m == AnswerWake(AnswerPause(w))
  <2>1. m \in ManagedWorkload /\ Sound(m) /\ ~m.gone /\ m.finalizer /\ m.phase = "Paused"
    BY <1>2, <1>e DEF WokenOrStaysPaused
  <2> HIDE DEF m
  <2>2. Sound(To("Resuming", m)) /\ Fits(To("Resuming", m), "resume")
    BY <2>1 DEF Sound, Fits, To, ManagedWorkload, Awake, Ends
  <2>3. Sound(AnswerPause(w)) /\ Fits(AnswerPause(w), "again")
    BY <1>e DEF Fits, Ends
  <2>4. WriteThen(To("Resuming", m), "resume") \/ WriteThen(AnswerPause(w), "again") \/ Goto("again")
    BY <1>2 DEF WokenOrStaysPaused, m
  <2> QED
    BY <1>a, <1>b, <1>d, <2>2, <2>3, <2>4, GotoFits, WriteFits DEF WrittenFor, HandBack
<1>3. CASE PauseRequest
  <2>1. w.phase \in Awake
    BY <1>3 DEF PauseRequest
  <2>2. Sound(AnswerPause(w)) /\ Fits(AnswerPause(w), "requests") /\ Fits(AnswerPause(w), "prepare")
    BY <1>0, <1>d, <1>e, <2>1, AnswersSound
  <2>3. Sound(To("Idle", AnswerPause(w))) /\ Fits(To("Idle", AnswerPause(w)), "again")
    BY <1>e, <2>1 DEF Sound, Fits, To, ManagedWorkload, Awake, Ends
  <2>4. CASE Goto("idleClock") \/ WriteThen(AnswerPause(w), "requests") \/ WriteThen(To("Idle", AnswerPause(w)), "again")
    BY <1>a, <1>b, <1>d, <2>1, <2>2, <2>3, <2>4, GotoFits, WriteFits DEF WrittenFor, HandBack
  <2>5. CASE w' = AnswerPause(w) /\ pc' = "prepare" /\ UNCHANGED wFresh
    <3>1. w'.phase = w.phase /\ w'.pause = w.pause /\ Sound(w') /\ Fits(w', "prepare")
      BY <1>e, <2>2, <2>5
    <3>2. ~Recovering /\ ~Recovering'
      BY <1>b, <2>5 DEF Recovering, HandBack
    <3> QED
      BY <1>a, <1>b, <2>5, <3>1, <3>2 DEF CopyInv, Abreast, Unwritten, Sound
  <2> QED
    BY <1>3, <2>4, <2>5 DEF PauseRequest
<1>4. CASE IdleClock
  <2> DEFINE m == AnswerWake(IF w.phase = "Idle" THEN AnswerPause(w) ELSE w)
  <2>1. w.phase \in Awake
    BY <1>4 DEF IdleClock, CopyInv, Abreast, Recovering, HandBack, Fits
  <2>2. m \in ManagedWorkload /\ Sound(m) /\ ~m.gone /\ m.finalizer /\ m.phase \in Awake
    BY <1>e, <2>1
  <2>3. \/ \E x \in {m, ToRunning(m), To("Idle", m)} : WriteThen(x, "again")
        \/ WriteThen(To("Idle", m), "prepare")
        \/ Goto("again") \/ Goto("prepare")
    BY <1>4 DEF IdleClock
  <2> HIDE DEF m
  <2>4. /\ \A x \in {m, ToRunning(m), To("Idle", m)} : Sound(x) /\ Fits(x, "again")
        /\ Fits(To("Idle", m), "prepare")
    BY <2>2, RunningSound DEF Sound, Fits, To, ManagedWorkload, Awake, Ends
  <2> QED
    BY <1>a, <1>b, <1>d, <2>1, <2>3, <2>4, GotoFits, WriteFits DEF WrittenFor, HandBack
<1> QED
  BY <1>1, <1>2, <1>3, <1>4

LEMMA PauseFits ==
  ASSUME TypeInv, CopyInv, Prepare \/ CopyRecord \/ HoldAtZero \/ ScaleToZero
  PROVE  CopyInv'
<1>0. w \in ManagedWorkload
  BY DEF TypeInv, TypeOK
<1>a. Unwritten
  BY ThinksUnwritten DEF Prepare, CopyRecord, HoldAtZero, ScaleToZero, Unwritten, caches
<1>b. pc \in {"prepare", "copy", "holdZero", "scaleZero"}
  BY DEF Prepare, CopyRecord, HoldAtZero, ScaleToZero
<1>c. Sound(w) /\ ~w.gone /\ w.finalizer /\ (pc # "prepare" => w.phase = "Pausing")
  BY <1>b DEF CopyInv, Abreast, Recovering, HandBack, Fits, Ends
<1>1. CASE Prepare
  <2>1. CASE Retry
    BY <1>a, <2>1, EndFits DEF Retry
  <2>2. CASE WriteThen(Recorded, "copy")
    <3>1. Sound(Recorded) /\ Fits(Recorded, "copy")
      BY <1>0, <1>c DEF Sound, Fits, Recorded, ManagedWorkload, Awake, Ends
    <3> QED
      BY <1>a, <2>2, <3>1, WriteFits DEF WrittenFor
  <2> QED
    BY <1>1, <2>1, <2>2 DEF Prepare
<1>2. CASE CopyRecord \/ HoldAtZero
  <2>1. \A step \in {"holdZero", "scaleZero"} : Fits(w, step)
    BY <1>2, <1>c DEF CopyRecord, HoldAtZero, Fits, Ends
  <2>2. Retry \/ \E step \in {"holdZero", "scaleZero"} : Goto(step)
    BY <1>2 DEF CopyRecord, HoldAtZero
  <2> QED
    BY <1>a, <1>b, <2>1, <2>2, GotoFits, EndFits DEF Retry, HandBack
<1>3. CASE ScaleToZero
  <2> DEFINE m == [w EXCEPT !.pause.pausedAt = TRUE]
  <2>1. WriteThen(m, "again") \/ WriteThen(To("Paused", m), "again") \/ Retry
    BY <1>3 DEF ScaleToZero
  <2>2. w.pause # NoPause /\ w.phase = "Pausing" /\ ~w.pause.resumedAt
    BY <1>3, <1>c DEF ScaleToZero, TypeInv, PauseInHand, At, NeedsPause, Sound
  <2>3. /\ m.phase = w.phase /\ m.finalizer /\ ~m.gone /\ ~m.pause.resumedAt
    BY <1>0, <1>c, <2>2 DEF ManagedWorkload, PauseStatus
  <2>4. m = [w EXCEPT !.pause = m.pause]
    BY <1>0 DEF ManagedWorkload
  <2>5. Sound(m) /\ Fits(m, "again")
    BY <2>2, <2>3 DEF Sound, Fits, Awake, Ends
  <2>6. Sound(To("Paused", m)) /\ Fits(To("Paused", m), "again")
    BY <1>0, <1>c, <2>4 DEF Sound, Fits, To, ManagedWorkload, Awake, Ends
  <2> HIDE DEF m
  <2> QED
    BY <1>a, <2>1, <2>5, <2>6, WriteFits, EndFits DEF WrittenFor, Retry
<1> QED
  BY <1>1, <1>2, <1>3

LEMMA ResumeFits ==
  ASSUME TypeInv, CopyInv,
         Resume \/ HoldAtRestored \/ ScaleUp \/ Settle \/ RecordResumeProgress \/ Resumed
  PROVE  CopyInv'
<1>0. w \in ManagedWorkload
  BY DEF TypeInv, TypeOK
<1>a. Unwritten
  BY ThinksUnwritten
  DEF Resume, HoldAtRestored, ScaleUp, Settle, RecordResumeProgress, Resumed, Unwritten, caches
<1>b. pc \in {"resume", "holdUp", "scaleUp", "ready", "resumed"}
  BY DEF Resume, HoldAtRestored, ScaleUp, Settle, RecordResumeProgress, Resumed
<1>c. Sound(w) /\ ~w.gone /\ w.finalizer /\ (pc # "resumed" => w.phase = "Resuming")
  BY <1>b DEF CopyInv, Abreast, Recovering, HandBack, Fits, Ends
<1>1. CASE Resume \/ HoldAtRestored \/ ScaleUp \/ Settle
  <2>1. CASE Retry
    BY <1>a, <2>1, EndFits DEF Retry
  <2>2. CASE /\ pc' \in {"holdUp", "scaleUp", "ready", "release"} /\ UNCHANGED <<w, wFresh>>
             /\ pc' = "release" => then' = "resumed"
    <3>1. Fits(w, pc')
      BY <1>1, <1>b, <1>c, <2>2 DEF Resume, HoldAtRestored, ScaleUp, Settle, Fits, Ends
    <3>2. ~Recovering /\ ~Recovering'
      BY <1>b, <2>2 DEF Recovering, HandBack
    <3> QED
      BY <1>a, <1>b, <2>2, <3>1, <3>2, StayFits
  <2> QED
    BY <1>1, <2>1, <2>2 DEF Resume, HoldAtRestored, ScaleUp, Settle, Goto
<1>2. CASE RecordResumeProgress
  <2> DEFINE m == [w EXCEPT !.pause.resumedAt = TRUE,
                            !.pause.firstReadyAt = (@ \/ ReadyOf = "some")]
  <2>1. WriteThen(m, "again") \/ Retry
    BY <1>2 DEF RecordResumeProgress
  <2>2. Sound(m) /\ Fits(m, "again")
    BY <1>0, <1>2, <1>c DEF RecordResumeProgress, Sound, Fits, ManagedWorkload, Awake, Ends
  <2> HIDE DEF m
  <2> QED
    BY <1>a, <2>1, <2>2, WriteFits, EndFits DEF WrittenFor, Retry
<1>3. CASE Resumed
  <2>1. Sound(ToRunning(w)) /\ Fits(ToRunning(w), "done")
    BY <1>0, RunningSound DEF Fits, Ends
  <2> QED
    BY <1>3, <1>a, <2>1, WriteFits DEF Resumed, WrittenFor
<1> QED
  BY <1>1, <1>2, <1>3

LEMMA HandBackFits ==
  ASSUME TypeInv, CopyInv,
         Restore \/ RestoreHold \/ RestoreScale \/ ReleaseKEDA \/ DropRecord \/ Delete \/ Deleted
  PROVE  CopyInv'
<1>0. w \in ManagedWorkload
  BY DEF TypeInv, TypeOK
<1>a. Unwritten
  BY ThinksUnwritten
  DEF Restore, RestoreHold, RestoreScale, ReleaseKEDA, DropRecord, Delete, Deleted, Unwritten, api, caches
<1>1. CASE Restore \/ RestoreHold \/ RestoreScale \/ ReleaseKEDA \/ DropRecord
  <2>1. pc \in HandBack /\ then \in HandedTo
    BY <1>1 DEF Restore, RestoreHold, RestoreScale, ReleaseKEDA, DropRecord, HandBack, TypeInv, PauseInHand
  <2>2. ~w.gone /\ w.finalizer
    BY <2>1 DEF CopyInv, Fits, Ends, HandBack
  <2>3. CASE Retry
    BY <1>a, <2>3, EndFits DEF Retry
  <2>4. CASE UNCHANGED <<w, wFresh, then>> /\ pc' \in HandBack \cup {then}
    <3>1. Fits(w, pc')
      BY <2>1, <2>2, <2>4 DEF Fits, HandBack, HandedTo
    <3>2. Recovering' <=> Recovering
      BY <2>1, <2>4 DEF Recovering, HandBack, HandedTo
    <3>3. pc \notin {"idle", "write"} /\ pc' \notin {"idle", "write"}
      BY <2>1, <2>4 DEF HandBack, HandedTo
    <3> QED
      BY <1>a, <2>4, <3>1, <3>2, <3>3, StayFits
  <2> QED
    BY <1>1, <2>3, <2>4 DEF Restore, RestoreHold, RestoreScale, ReleaseKEDA, DropRecord, Goto, HandBack
<1>2. CASE Delete
  <2>1. pc = "entry" /\ ~w.gone
    BY <1>2 DEF Delete, CopyInv, Fits, Ends
  <2>2. \/ Goto("done")
        \/ w.finalizer /\ (RestoreThen(w, "deleted") \/ Goto("deleted"))
    BY <1>2 DEF Delete
  <2>3. Fits(w, "done") /\ (w.finalizer => Fits(w, "restore") /\ Fits(w, "deleted"))
    BY <2>1 DEF Fits, Ends
  <2> QED
    BY <1>a, <2>1, <2>2, <2>3, GotoFits, RestoreFits DEF HandBack
<1>3. CASE Deleted
  <2> DEFINE m == [w EXCEPT !.pause = NoPause]
             gone == [m EXCEPT !.finalizer = FALSE, !.gone = TRUE]
  <2>1. ~w.gone /\ w.finalizer
    BY <1>3 DEF Deleted, CopyInv, Fits, Ends
  <2>2. /\ Sound(m) /\ Sound(AnswerWake(m)) /\ Sound(gone)
        /\ Fits(m, "again") /\ Fits(AnswerWake(m), "deleted") /\ Fits(gone, "done")
    BY <1>0, <2>1 DEF Sound, Fits, AnswerWake, ManagedWorkload, Ends
  <2>3. WriteThen(m, "again") \/ WriteThen(AnswerWake(m), "deleted") \/ WriteThen(gone, "done")
    BY <1>3 DEF Deleted
  <2> HIDE DEF m, gone
  <2> QED
    BY <1>a, <2>2, <2>3, WriteFits DEF WrittenFor
<1> QED
  BY <1>1, <1>2, <1>3

LEMMA UpdateFits ==
  ASSUME TypeInv, CopyInv, Update
  PROVE  CopyInv'
<1>1. /\ mw' = w /\ w' = w /\ ~seenFresh' /\ pc' = then /\ wFresh' = wFresh
      /\ Sound(w) /\ Fits(w, then) /\ then \in WrittenFor
  BY DEF Update, Goto, CopyInv
<1>2. ~Recovering'
  BY <1>1 DEF Recovering, WrittenFor, HandBack
<1> QED
  BY <1>1, <1>2 DEF CopyInv, Abreast, Sound, Fits, WrittenFor

\* Reading the cache, and what others do.
LEMMA OutsideFits ==
  ASSUME TypeInv, CopyInv, ~Lag, Start \/ Catchup \/ Cluster \/ Outside
  PROVE  CopyInv'
<1>0. mw \in ManagedWorkload
  BY DEF TypeInv, TypeOK
<1>1. CASE Start
  <2>1. /\ seenFresh /\ w' = mw /\ Unwritten /\ wFresh'
        /\ pc' \in {"done", "entry"} /\ (pc' = "entry" => ~mw.gone)
    BY <1>1, ThinksUnwritten DEF Start, CopyInv
  <2>2. ~Recovering'
    BY <2>1 DEF Recovering, HandBack
  <2> QED
    BY <2>1, <2>2 DEF CopyInv, Abreast, Unwritten, Sound, Fits, Ends
<1>2. CASE Catchup
  <2>1. UNCHANGED <<mw, pc, then, w, wFresh>> /\ ((UNCHANGED <<seenMw, seenFresh>>) \/ seenMw' = mw)
    BY <1>2 DEF Catchup, DeliverWorkload, DeliverTarget, api, local
  <2> QED
    BY <2>1 DEF CopyInv, Abreast, Recovering, Sound, Fits
<1>3. CASE Cluster \/ PodsFail \/ Scale \/ Ignore \/ Recreate
  <2>1. UNCHANGED <<mw, seenMw, seenFresh, pc, then, w, wFresh>>
    BY <1>3 DEF Cluster, PodsMove, KedaHolds, PodsFail, Scale, Ignore, Recreate, TgtWritten, caches
  <2> QED
    BY <2>1 DEF CopyInv, Abreast, Recovering, Sound, Fits
<1>4. CASE Fail
  BY <1>4, EndFits DEF Fail, Retry, Unwritten, api, caches
<1>5. CASE Crash
  BY <1>5 DEF Crash, Retry, End, CopyInv, Sound, api
<1>6. CASE Annotate \/ Edit \/ LoseStatus
  <2> DEFINE Edited(m) == \/ m.phase = mw.phase /\ m.pause = mw.pause /\ m.finalizer = mw.finalizer
                             /\ (m.gone => mw.gone \/ ~mw.finalizer)
                          \/ m.phase = "New" /\ m.pause = NoPause /\ Lossy
  <2>0. /\ Edited(mw) /\ Edited([mw EXCEPT !.pauseRequested = @ + 1])
        /\ Edited([mw EXCEPT !.wakeRequested = @ + 1]) /\ Edited([mw EXCEPT !.lastActivity = @ + 1])
        /\ Edited([mw EXCEPT !.dryRun = ~@])
        /\ Edited([mw EXCEPT !.deleting = TRUE, !.gone = ~mw.finalizer])
        /\ Lossy => Edited([mw EXCEPT !.phase = "New", !.pause = NoPause,
                                      !.lastPauseRequest = 0, !.lastWakeRequest = 0])
    BY <1>0 DEF ManagedWorkload
  <2>1. PICK m : MwWritten(m) /\ Edited(m)
    <3> HIDE DEF Edited
    <3> QED
      BY <1>6, <2>0 DEF Annotate, Edit, LoseStatus, Spend, Lossy
  <2>2. /\ mw' = m /\ ~seenFresh' /\ (pc' # "idle" => ~wFresh')
        /\ UNCHANGED <<pc, then, w>>
    BY <2>1 DEF MwWritten
  <2>3. Sound(m) /\ (~Lossy => m.pause = mw.pause)
    BY <2>1 DEF CopyInv, Sound
  <2>4. Recovering' <=> Recovering
    BY <2>2 DEF Recovering
  <2>5. CASE pc \in {"idle", "write"}
    BY <2>2, <2>3, <2>5 DEF CopyInv, Sound, Fits
  <2>6. CASE pc \notin {"idle", "write"}
    <3>1. m.phase \in {w.phase, "New"} /\ m.pause \in {mw.pause, NoPause}
      BY <2>1, <2>6 DEF CopyInv, Abreast
    <3>2. Abreast'
      BY <2>2, <2>3, <2>4, <2>6, <3>1 DEF CopyInv, Abreast, Sound, Lossy
    <3> QED
      BY <2>2, <2>3, <2>6, <3>2 DEF CopyInv, Sound, Fits
  <2> QED
    BY <2>5, <2>6
<1> QED
  BY <1>1, <1>2, <1>3, <1>4, <1>5, <1>6 DEF Outside

LEMMA CopyInvInit == Init => CopyInv
BY DEF Init, CopyInv, Sound, Fresh

LEMMA CopyInvStep ==
  ASSUME TypeInv, CopyInv, ~Lag, [Next]_vars
  PROVE  CopyInv'
<1>1. CASE Reconcile
  BY <1>1, EntryFits, RecoverFits, UpdateFits, DecideFits, RequestsFits, PauseFits, ResumeFits,
     HandBackFits, OutsideFits
  DEF Reconcile
<1>2. CASE Catchup \/ Cluster \/ Outside
  BY <1>2, OutsideFits
<1>3. CASE UNCHANGED vars
  BY <1>3 DEF CopyInv, Abreast, Recovering, Sound, Fits, vars, api, caches, local
<1> QED
  BY <1>1, <1>2, <1>3 DEF Next

----------------------------------------------------------------------------
(* Scaling down. *)

\* A hand-back's scale was read while the target was at zero, and is written
\* only if the target hasn't been since.
ScaleAtZero ==
  pc \in {"restoreHold", "restoreScale"} => scale # "up" /\ (scale = "zero" => tgt.replicas = 0)

DownInv == TypeInv /\ CopyInv /\ ScaleAtZero

LEMMA DownInvInit == Init => DownInv
BY TypeInvInit, CopyInvInit DEF Init, DownInv, ScaleAtZero

\* Only Restore and RestoreHold lead to the scale's being written.
LEMMA ReconcileScale ==
  ASSUME TypeInv, ScaleAtZero, Reconcile
  PROVE  ScaleAtZero'
<1> DEFINE away == pc' \notin {"restoreHold", "restoreScale"}
<1>0. /\ pc = "write" => then \notin HandBack
      /\ pc \in HandBack => then \in HandedTo
  BY DEF TypeInv, PauseInHand
<1>1. CASE Start \/ Done \/ Update \/ UpdateConflict \/ EnsureFinalizer \/ TakeOn \/ TargetMissing
             \/ RecoverPause \/ RecoverFromTarget \/ Recovered \/ Delete \/ Deleted
  <2>1. away
    BY <1>0, <1>1
    DEF Start, Done, Update, UpdateConflict, EnsureFinalizer, TakeOn, TargetMissing, RefuseRequests,
        RecoverPause, RecoverFromTarget, ForgetLostPause, Recovered, Delete, Deleted, Retry, End,
        Goto, WriteThen, RestoreThen, HandBack
  <2> QED
    BY <2>1 DEF ScaleAtZero
<1>2. CASE Ignored \/ HandedBack \/ WakeOnScaleUp \/ ScaledUp \/ StaleForRouting \/ Decide
             \/ ScaledToZero \/ WokenOrStaysPaused \/ PauseRequest \/ IdleClock
  <2>1. away
    BY <1>2
    DEF Ignored, HandedBack, WakeOnScaleUp, ScaledUp, StaleForRouting, Decide, ScaledToZero,
        RefuseRequests, WokenOrStaysPaused, PauseRequest, IdleClock, Retry, End, Goto, WriteThen, RestoreThen
  <2> QED
    BY <2>1 DEF ScaleAtZero
<1>3. CASE Prepare \/ CopyRecord \/ HoldAtZero \/ ScaleToZero \/ Resume \/ HoldAtRestored \/ ScaleUp
             \/ Settle \/ RecordResumeProgress \/ Resumed
  <2>1. away
    BY <1>3
    DEF Prepare, CopyRecord, HoldAtZero, ScaleToZero, Resume, HoldAtRestored, ScaleUp, Settle,
        RecordResumeProgress, Resumed, Retry, End, Goto, WriteThen
  <2> QED
    BY <2>1 DEF ScaleAtZero
<1>4. CASE RestoreScale \/ ReleaseKEDA \/ DropRecord
  <2>1. away
    BY <1>0, <1>4
    DEF RestoreScale, ReleaseKEDA, DropRecord, Retry, End, Goto, HandBack, HandedTo
  <2> QED
    BY <2>1 DEF ScaleAtZero
<1>5. CASE Restore
  BY <1>5 DEF Restore, ScaleAtZero, Goto, Thinks, api, Retry, End
<1>6. CASE RestoreHold
  BY <1>6 DEF RestoreHold, ScaleAtZero, Goto
<1> QED
  BY <1>1, <1>2, <1>3, <1>4, <1>5, <1>6 DEF Reconcile

LEMMA OutsideScale ==
  ASSUME TypeInv, ScaleAtZero, Catchup \/ Cluster \/ Outside
  PROVE  ScaleAtZero'
<1>1. CASE Catchup \/ Annotate \/ Edit \/ LoseStatus
  BY <1>1 DEF Catchup, DeliverWorkload, DeliverTarget, Annotate, Edit, LoseStatus, MwWritten, ScaleAtZero,
              api, local
<1>2. CASE Cluster \/ PodsFail \/ Scale \/ Ignore \/ Recreate
  BY <1>2 DEF Cluster, PodsMove, KedaHolds, PodsFail, Scale, Ignore, Recreate, TgtWritten, ScaleAtZero
<1>3. CASE Fail \/ Crash
  BY <1>3 DEF Fail, Crash, Retry, End, ScaleAtZero
<1> QED
  BY <1>1, <1>2, <1>3 DEF Outside

LEMMA DownInvStep ==
  ASSUME ~Lag, DownInv, [Next]_vars
  PROVE  DownInv'
<1>1. TypeInv' /\ CopyInv'
  BY TypeInvStep, CopyInvStep DEF DownInv
<1>2. CASE Reconcile
  BY <1>1, <1>2, ReconcileScale DEF DownInv
<1>3. CASE Catchup \/ Cluster \/ Outside
  BY <1>1, <1>3, OutsideScale DEF DownInv
<1>4. CASE UNCHANGED vars
  BY <1>1, <1>4 DEF DownInv, ScaleAtZero, vars, api, local
<1> QED
  BY <1>2, <1>3, <1>4 DEF Next

\* Only the steps that write a scale move the target's replicas.
LEMMA OthersLeaveReplicas ==
  ASSUME TypeInv, [Next]_vars, pc' # pc, tgt'.replicas # tgt.replicas
  PROVE  ScaleToZero \/ ScaleUp \/ RestoreScale
<1>0. tgt \in Target
  BY DEF TypeInv, TypeOK
<1>1. CASE Reconcile
  <2>1. CASE CopyRecord \/ DropRecord
    BY <1>0, <2>1 DEF CopyRecord, DropRecord, Target
  <2>2. CASE ~(CopyRecord \/ DropRecord \/ ScaleToZero \/ ScaleUp \/ RestoreScale)
    <3>1. tgt' = tgt
      BY <1>1, <2>2
      DEF Reconcile, Start, Done, Update, UpdateConflict, EnsureFinalizer, TakeOn, TargetMissing,
          RecoverPause, RecoverFromTarget, Recovered, Ignored, HandedBack, WakeOnScaleUp, ScaledUp,
          StaleForRouting, Decide, ScaledToZero, WokenOrStaysPaused, PauseRequest, IdleClock, Prepare,
          HoldAtZero, Resume, HoldAtRestored, Settle, RecordResumeProgress, Resumed, Restore,
          RestoreHold, ReleaseKEDA, Delete, Deleted, Thinks, api
    <3> QED
      BY <3>1
  <2> QED
    BY <2>1, <2>2
<1>2. CASE Catchup \/ Fail \/ Crash \/ Annotate \/ Edit \/ LoseStatus
  BY <1>2 DEF Catchup, DeliverWorkload, DeliverTarget, Fail, Crash, Annotate, Edit, LoseStatus, MwWritten, api
<1>3. CASE Cluster \/ PodsFail \/ Scale \/ Ignore \/ Recreate
  BY <1>3 DEF Cluster, PodsMove, KedaHolds, PodsFail, Scale, Ignore, Recreate, TgtWritten
<1>4. CASE UNCHANGED vars
  BY <1>4 DEF vars, api
<1> QED
  BY <1>1, <1>2, <1>3, <1>4 DEF Next, Outside

\* A reconcile that reads the ManagedWorkload as it is never scales down a
\* workload whose status says it's awake, whoever else scales it, edits it or
\* loses its status meanwhile (Reconcile, Pauser.Pause and Restore).  The run
\* stale_pausing shows that one which reads an older copy may.
THEOREM AwakeLeftUp == ASSUME ~Lag PROVE Spec => NeverScalesDownAwake
<1> DEFINE Down == ScalesDown => mw.phase \notin Awake
<1>1. DownInv /\ [Next]_vars => [Down]_vars
  <2> SUFFICES ASSUME DownInv, [Next]_vars, ScalesDown
               PROVE  mw.phase \notin Awake
    OBVIOUS
  <2>0. tgt \in Target /\ n \in Replicas /\ n \in Nat /\ tgt.replicas \in Nat
    BY BoundsAssumption DEF DownInv, TypeInv, TypeOK, Target, Replicas
  <2>1. ScaleToZero \/ ScaleUp \/ RestoreScale
    BY <2>0, OthersLeaveReplicas DEF DownInv, ScalesDown
  <2>2. CASE ScaleToZero \/ ScaleUp
    <3>1. w.phase \in {"Pausing", "Resuming"} /\ mw.phase \in {w.phase, "New"}
      BY <2>2 DEF ScaleToZero, ScaleUp, DownInv, CopyInv, Abreast, Fits
    <3> QED
      BY <3>1 DEF Awake
  <2>3. CASE RestoreScale
    <3>1. tgt' = tgt \/ (tgt' = Rescaled(tgt, n) /\ tgt.replicas = 0)
      BY <2>3 DEF RestoreScale, DownInv, ScaleAtZero, TypeInv, TypeOK
    <3>2. tgt'.replicas = tgt.replicas \/ (tgt.replicas = 0 /\ tgt'.replicas = n)
      BY <2>0, <3>1 DEF Rescaled, Target
    <3> QED
      BY <2>0, <3>2 DEF ScalesDown
  <2> QED
    BY <2>1, <2>2, <2>3
<1>2. NeverScalesDownAwake <=> [][Down]_vars
  BY PTL DEF NeverScalesDownAwake
<1> QED
  BY <1>1, <1>2, DownInvInit, DownInvStep, PTL DEF Spec

----------------------------------------------------------------------------
(* What the records are for. *)

\* The cache of the target shows the reconcile what it goes by: that the
\* target is gone, as Restore takes it to be, and, where a lost status may
\* have to be made up for, the copy on it (recoverPause, copyRecord).
CachesShow ==
  /\ Restore /\ ~seenTgt.exists => ~tgt.exists
  /\ Lossy /\ (RecoverPause \/ CopyRecord) => seenTgt.pausedFrom = tgt.pausedFrom

\* A target that's deleted takes its copy with it, so it doesn't make up for
\* a status lost too.
Relies == ~Lag /\ ~(Lossy /\ "recreate" \in Externals)

\* What the ScaledObject may be left at without a record.  Where a status may
\* be lost, that's all but the zero it's not its own to be at: a resume that
\* is retried once it has released the ScaledObject holds it again.
HoldsOwn(h) == IF Lossy THEN h = 0 => own = 0 ELSE h = own

\* Something of Napwake's doing is left to undo.
Armed == offByUs \/ ~HoldsOwn(hold)

\* A record holds what the ScaledObject is to be left at, and one that says
\* the target has been scaled up from it is of one that isn't off.
Lasts(pause) ==
  pause # NoPause => HoldsOwn(pause.from.hold) /\ (pause.resumedAt /\ ~Keda => ~offByUs)

TargetRight ==
  /\ offByUs => tgt.exists /\ tgt.replicas = 0
  /\ ~tgt.exists => tgt.pausedFrom = NoPause
  /\ Lossy => tgt.exists
  /\ ~Keda => hold = NoHold /\ own = NoHold
  /\ tgt.pausedFrom # NoPause => HoldsOwn(tgt.pausedFrom.hold)

\* The record that lasts: the copy on the target where the status may be
\* lost, else the status's, which the copy is never without.
Backed ==
  IF Lossy THEN Armed => tgt.pausedFrom # NoPause
  ELSE Armed \/ tgt.pausedFrom # NoPause => mw.pause # NoPause

\* Past the release, there's nothing left to undo.
Undone == {"drop", "recovered", "scaledUp", "resumed", "handedBack"}
Uncopied == {"releaseGone", "recovered", "scaledUp", "resumed", "handedBack"}
Unpaused == {"ignored", "managed", "decide", "zero", "requests", "idleClock", "prepare"}

\* What step takes for granted, of a reconcile with the copy m.
Ready(m, step) ==
  /\ Lasts(m.pause)
  /\ ~Keda => step \notin {"holdZero", "holdUp", "restoreHold"}
  /\ ~Keda /\ step \in {"release", "releaseGone", "ready"} => ~offByUs
  /\ Lossy /\ step \in {"holdZero", "scaleZero"} => tgt.pausedFrom # NoPause
  /\ step \in Undone => ~Armed
  /\ step \in Uncopied => tgt.pausedFrom = NoPause
  /\ step = "deleted" => IF Lossy THEN ~Armed \/ m.pause = NoPause
                         ELSE ~Armed /\ tgt.pausedFrom = NoPause
  /\ step \in Unpaused /\ m.pause = NoPause => tgt.pausedFrom = NoPause

\* A status without a record may be written.
Clears(m) == ~Lossy /\ m.pause = NoPause => ~Armed /\ tgt.pausedFrom = NoPause

Raises == {"holdUp", "scaleUp", "restoreHold", "restoreScale"}

RecordInv ==
  /\ TargetRight /\ Backed /\ Lasts(mw.pause)
  /\ pc = "write" => Ready(w, then) /\ Clears(w)
  /\ pc # "write" => Ready(w, pc)
  /\ pc \in Raises => n > 0
  /\ ~Lossy => ~Recovering

\* A reconcile midway without a record has none to clear.
LEMMA ClearsNow ==
  ASSUME CopyInv, RecordInv, pc \notin {"idle", "write"}
  PROVE  Clears(w)
BY DEF CopyInv, Abreast, RecordInv, Backed, Clears

----------------------------------------------------------------------------
(* Steps that only change the reconcile's own state. *)

Unmoved == UNCHANGED <<mw, tgt, hold, offByUs, own>>

LEMMA ThinksUnmoved == Thinks => Unmoved
BY DEF Thinks, Unmoved, api, history

LEMMA StateKept ==
  ASSUME RecordInv, Unmoved
  PROVE  /\ TargetRight' /\ Backed' /\ Lasts(mw.pause)' /\ (Armed' <=> Armed)
         /\ \A m, step : Ready(m, step) => Ready(m, step)'
         /\ \A m : Clears(m) => Clears(m)'
BY DEF RecordInv, Unmoved, TargetRight, Backed, Lasts, Armed, HoldsOwn, Ready, Clears

\* How a step leaves a reconcile's own state, and what that has to meet.
LEMMA WriteReady ==
  ASSUME RecordInv, Unmoved, NEW m, NEW next, WriteThen(m, next), Ready(m, next), Clears(m)
  PROVE  RecordInv'
<1>1. /\ TargetRight' /\ Backed' /\ Lasts(mw.pause)' /\ Ready(m, next)' /\ Clears(m)'
  BY StateKept
<1>2. w' = m /\ then' = next /\ pc' = "write"
  BY DEF WriteThen
<1>3. Ready(w, then)' /\ Clears(w)'
  BY <1>1, <1>2 DEF Ready, Clears, Lasts, Armed, HoldsOwn
<1> QED
  BY <1>1, <1>2, <1>3 DEF RecordInv, Recovering, HandBack, Raises

LEMMA StayReady ==
  ASSUME RecordInv, Unmoved, pc' # "write", Ready(w', pc'), pc' \in Raises => n' > 0, ~Lossy => ~Recovering'
  PROVE  RecordInv'
<1>1. PICK m, step : w' = m /\ pc' = step
  OBVIOUS
<1>2. /\ TargetRight' /\ Backed' /\ Lasts(mw.pause)' /\ Ready(m, step)'
  BY <1>1, StateKept
<1>3. Ready(w, pc)'
  BY <1>1, <1>2 DEF Ready, Lasts, Armed, HoldsOwn
<1> QED
  BY <1>2, <1>3 DEF RecordInv

LEMMA GotoReady ==
  ASSUME RecordInv, Unmoved, NEW step, Goto(step), step # "write", Ready(w, step),
         step \in Raises => n > 0, ~Lossy => step \notin HandBack \cup {"recovered"}
  PROVE  RecordInv'
<1>1. w' = w /\ pc' = step /\ n' = n
  BY DEF Goto
<1>2. ~Lossy => ~Recovering'
  BY <1>1 DEF Recovering
<1> QED
  BY <1>1, <1>2, StayReady

LEMMA RestoreReady ==
  ASSUME RecordInv, Unmoved, NEW m, NEW next, RestoreThen(m, next), Lasts(m.pause), Lossy \/ next # "recovered"
  PROVE  RecordInv'
<1>1. w' = m /\ pc' = "restore" /\ then' = next
  BY DEF RestoreThen
<1>2. ~Lossy => ~Recovering'
  BY <1>1 DEF Recovering
<1>3. Ready(m, "restore")
  BY DEF Ready, Undone, Uncopied, Unpaused
<1> QED
  BY <1>1, <1>2, <1>3, StayReady DEF Raises

LEMMA EndReady ==
  ASSUME RecordInv, Unmoved, NEW again, End(again)
  PROVE  RecordInv'
<1>1. w' = Fresh /\ pc' = "idle"
  BY DEF End
<1>2. Ready(Fresh, "idle") /\ ~Recovering'
  BY <1>1 DEF Ready, Lasts, Fresh, Undone, Uncopied, Unpaused, Recovering, HandBack
<1> QED
  BY <1>1, <1>2, StayReady DEF Raises

\* What a step that only answers requests, or changes the phase, keeps.
LEMMA SamePauseReady ==
  ASSUME NEW m, NEW x, x.pause = m.pause, NEW step
  PROVE  (Ready(m, step) => Ready(x, step)) /\ (Clears(m) => Clears(x))
BY DEF Ready, Clears

LEMMA PauseKept ==
  ASSUME NEW m \in ManagedWorkload
  PROVE  /\ AnswerPause(m).pause = m.pause /\ AnswerWake(m).pause = m.pause
         /\ ToRunning(m).pause = NoPause
         /\ \A phase : To(phase, m).pause = m.pause
BY DEF ManagedWorkload, AnswerPause, AnswerWake, ToRunning, To

\* Steps that nothing but the record's lasting is asked of.
Plain == {"entry", "done", "again", "recover", "copy", "resume", "restore", "write", "idle"}

LEMMA PlainReady ==
  ASSUME NEW m, NEW step \in Plain, Lasts(m.pause)
  PROVE  Ready(m, step)
BY DEF Plain, Ready, Undone, Uncopied, Unpaused

LEMMA NoPauseLasts == Lasts(NoPause)
BY DEF Lasts

LEMMA EntryReady ==
  ASSUME TypeInv, CopyInv, RecordInv, ~Lag, CachesShow,
         Start \/ Done \/ UpdateConflict \/ EnsureFinalizer \/ TakeOn \/ TargetMissing \/ RecoverPause
  PROVE  RecordInv'
<1>0. w \in ManagedWorkload
  BY DEF TypeInv, TypeOK
<1>a. Unmoved
  BY ThinksUnmoved DEF Start, Done, UpdateConflict, EnsureFinalizer, TakeOn, TargetMissing, RecoverPause
<1>1. CASE Start
  <2>1. w' = mw /\ pc' \in {"done", "entry"}
    BY <1>1 DEF Start, CopyInv
  <2>2. Ready(mw, pc')
    BY <2>1, PlainReady DEF RecordInv, Plain
  <2>3. ~Recovering'
    BY <2>1 DEF Recovering, HandBack
  <2> QED
    BY <1>a, <2>1, <2>2, <2>3, StayReady DEF Raises
<1>2. CASE Done \/ UpdateConflict
  BY <1>a, <1>2, EndReady DEF Done, UpdateConflict, Retry
<1>3. CASE pc = "entry"
  <2>1. Sound(w) /\ Clears(w) /\ Lasts(w.pause) /\ (~Lossy => w.pause = mw.pause)
    BY <1>3, ClearsNow DEF CopyInv, Abreast, Recovering, HandBack, RecordInv, Ready
  <2>2. CASE EnsureFinalizer
    <3> DEFINE m == [w EXCEPT !.finalizer = TRUE]
    <3>1. m.pause = w.pause
      BY <1>0 DEF ManagedWorkload
    <3>2. WriteThen(m, "entry")
      BY <2>2 DEF EnsureFinalizer
    <3> HIDE DEF m
    <3>3. Ready(m, "entry") /\ Clears(m)
      BY <2>1, <3>1, PlainReady, SamePauseReady DEF Plain
    <3> QED
      BY <1>a, <3>2, <3>3, WriteReady
  <2>3. CASE TakeOn
    <3> DEFINE m == ToRunning(AnswerPause(w))
    <3>1. m.pause = NoPause /\ w.pause = NoPause
      BY <1>0, <2>1, <2>3, AnswersTyped, PauseKept DEF TakeOn, Sound
    <3>2. WriteThen(m, "done")
      BY <2>3 DEF TakeOn
    <3> HIDE DEF m
    <3>3. Ready(m, "done") /\ Clears(m)
      BY <2>1, <3>1, PlainReady, SamePauseReady, NoPauseLasts DEF Plain
    <3> QED
      BY <1>a, <3>2, <3>3, WriteReady
  <2>4. CASE TargetMissing
    <3>1. \A m \in {AnswerPause(w), AnswerWake(w)} : Ready(m, "entry") /\ Clears(m)
      BY <1>0, <2>1, PauseKept, PlainReady, SamePauseReady DEF Plain
    <3>2. Retry \/ \E m \in {AnswerPause(w), AnswerWake(w)} : WriteThen(m, "entry")
      BY <2>4 DEF TargetMissing, RefuseRequests
    <3> QED
      BY <1>a, <3>1, <3>2, WriteReady, EndReady DEF Retry
  <2>5. CASE RecoverPause
    <3>1. CASE w.pause # NoPause \/ seenTgt.pausedFrom # NoPause
      <4>1. (Goto("ignored") /\ w.pause # NoPause) \/ Goto("recover")
        BY <2>5, <3>1 DEF RecoverPause
      <4>2. Ready(w, "recover") /\ (w.pause # NoPause => Ready(w, "ignored"))
        BY <2>1, PlainReady DEF Plain, Ready, Undone, Uncopied
      <4> QED
        BY <1>a, <4>1, <4>2, GotoReady DEF Raises, HandBack
    <3>2. CASE w.pause = NoPause /\ seenTgt.pausedFrom = NoPause
      <4>1. tgt.pausedFrom = NoPause
        BY <2>1, <2>5, <3>2 DEF CachesShow, Clears
      <4>2. Goto("ignored") \/ WriteThen(ToRunning(w), "done")
        BY <2>5, <3>2 DEF RecoverPause, ForgetLostPause
      <4>3. Ready(w, "ignored")
        BY <2>1, <4>1 DEF Ready, Undone, Uncopied
      <4>4. Ready(ToRunning(w), "done") /\ Clears(ToRunning(w))
        BY <1>0, <2>1, <3>2, PauseKept, PlainReady, SamePauseReady, NoPauseLasts DEF Plain
      <4> QED
        BY <1>a, <4>2, <4>3, <4>4, GotoReady, WriteReady DEF Raises, HandBack
    <3> QED
      BY <3>1, <3>2
  <2> QED
    BY <1>2, <1>3, <2>2, <2>3, <2>4, <2>5, <1>1
<1> QED
  BY <1>1, <1>2, <1>3 DEF EnsureFinalizer, TakeOn, TargetMissing, RecoverPause

LEMMA RecoverReady ==
  ASSUME TypeInv, CopyInv, RecordInv, RecoverFromTarget \/ Recovered
  PROVE  RecordInv'
<1>0. w \in ManagedWorkload /\ tgt \in Target
  BY DEF TypeInv, TypeOK
<1>a. Unmoved
  BY ThinksUnmoved DEF RecoverFromTarget, Recovered
<1>1. CASE RecoverFromTarget
  <2> DEFINE pause == [from |-> tgt.pausedFrom, pausedAt |-> FALSE, resumedAt |-> FALSE,
                       firstReadyAt |-> FALSE, wakeAnnotation |-> 0]
             again == [pause EXCEPT !.pausedAt = TRUE, !.wakeAnnotation = w.lastActivity]
             lost == [w EXCEPT !.pause = pause]
             paused == AnswerWake(AnswerPause([w EXCEPT !.phase = "Paused", !.pause = again]))
  <2>1. w.pause = NoPause /\ Clears(w)
    BY <1>1, ClearsNow DEF RecoverFromTarget, CopyInv, Fits
  <2>2. CASE Retry
    BY <1>a, <2>2, EndReady DEF Retry
  <2>3. CASE tgt.pausedFrom = NoPause /\ ForgetLostPause
    <3>1. Ready(w, "ignored")
      BY <2>1, <2>3, NoPauseLasts DEF Ready, Undone, Uncopied
    <3>2. Ready(ToRunning(w), "done") /\ Clears(ToRunning(w))
      BY <1>0, <2>1, PauseKept, PlainReady, SamePauseReady, NoPauseLasts DEF Plain
    <3> QED
      BY <1>a, <2>3, <3>1, <3>2, GotoReady, WriteReady DEF ForgetLostPause, Raises, HandBack
  <2>4. CASE tgt.pausedFrom # NoPause /\ (RestoreThen(lost, "recovered") \/ WriteThen(paused, "done"))
    <3>1. Lossy /\ HoldsOwn(tgt.pausedFrom.hold)
      BY <2>1, <2>4 DEF Clears, RecordInv, TargetRight
    <3>2. Lasts(pause) /\ Lasts(again)
      BY <3>1 DEF Lasts
    <3>3. lost.pause = pause /\ paused.pause = again
      BY <1>0 DEF ManagedWorkload, AnswerWake, AnswerPause
    <3> HIDE DEF pause, again, lost, paused
    <3>4. Ready(paused, "done") /\ Clears(paused)
      BY <3>1, <3>2, <3>3, PlainReady DEF Plain, Clears
    <3> QED
      BY <1>a, <2>4, <3>1, <3>2, <3>3, <3>4, RestoreReady, WriteReady
  <2> QED
    BY <1>1, <2>2, <2>3, <2>4 DEF RecoverFromTarget
<1>2. CASE Recovered
  <2>1. Lossy /\ tgt.pausedFrom = NoPause
    BY <1>2 DEF Recovered, RecordInv, Recovering, Ready, Uncopied
  <2>2. CASE WriteThen(ToRunning(w), "done")
    <3>1. Ready(ToRunning(w), "done") /\ Clears(ToRunning(w))
      BY <1>0, <2>1, PauseKept, PlainReady, NoPauseLasts DEF Plain, Clears
    <3> QED
      BY <1>a, <2>2, <3>1, WriteReady
  <2>3. CASE w' = [w EXCEPT !.pause = NoPause] /\ pc' = "ignored"
    <3>1. w'.pause = NoPause
      BY <1>0, <2>3 DEF ManagedWorkload
    <3>2. Ready(w', pc')
      BY <2>1, <2>3, <3>1, NoPauseLasts DEF Ready, Undone, Uncopied
    <3> QED
      BY <1>a, <2>1, <2>3, <3>2, StayReady DEF Raises
  <2> QED
    BY <1>2, <2>2, <2>3 DEF Recovered
<1> QED
  BY <1>1, <1>2

LEMMA DecideReady ==
  ASSUME TypeInv, CopyInv, RecordInv,
         Ignored \/ HandedBack \/ WakeOnScaleUp \/ ScaledUp \/ StaleForRouting \/ Decide
  PROVE  RecordInv'
<1>0. w \in ManagedWorkload
  BY DEF TypeInv, TypeOK
<1>a. Unmoved
  BY ThinksUnmoved DEF Ignored, HandedBack, WakeOnScaleUp, ScaledUp, StaleForRouting, Decide
<1>b. pc \in {"ignored", "handedBack", "managed", "scaledUp", "decide"}
  BY DEF Ignored, HandedBack, WakeOnScaleUp, ScaledUp, StaleForRouting, Decide
<1>c. Ready(w, pc) /\ Lasts(w.pause) /\ Clears(w)
  BY <1>b, ClearsNow DEF RecordInv, Ready
<1>d. ASSUME NEW step \in {"managed", "again", "decide", "copy", "resume", "requests", "zero"}, Goto(step)
      PROVE  RecordInv'
  <2>1. pc \in Unpaused
    BY <1>b, <1>d DEF Ignored, HandedBack, WakeOnScaleUp, ScaledUp, StaleForRouting, Decide,
                Unpaused, WriteThen, Goto
  <2>2. Ready(w, step)
    BY <1>c, <1>d, <2>1 DEF Ready, Unpaused, Undone, Uncopied
  <2> QED
    BY <1>a, <1>d, <2>2, GotoReady DEF HandBack, Raises
<1>1. CASE Ignored
  <2>1. \A m \in {AnswerPause(w), AnswerWake(w)} : Ready(m, "ignored") /\ Clears(m)
    <3>1. pc = "ignored"
      BY <1>1 DEF Ignored
    <3> QED
      BY <1>0, <1>c, <3>1, PauseKept, SamePauseReady
  <2>2. CASE Goto("handedBack") /\ w.pause = NoPause
    <3>1. tgt.pausedFrom = NoPause
      BY <1>1, <1>c, <2>2 DEF Ignored, Ready, Unpaused
    <3>2. ~Armed
      BY <1>c, <2>2, <3>1 DEF RecordInv, Backed, Clears
    <3>3. Ready(w, "handedBack")
      BY <1>c, <3>1, <3>2 DEF Ready, Unpaused
    <3> QED
      BY <1>a, <2>2, <3>3, GotoReady DEF Raises, HandBack
  <2>3. \/ Goto("managed") \/ Goto("again") \/ (Goto("handedBack") /\ w.pause = NoPause)
        \/ \E m \in {AnswerPause(w), AnswerWake(w)} : WriteThen(m, "ignored")
        \/ RestoreThen(w, "handedBack")
    BY <1>1 DEF Ignored, RefuseRequests
  <2> QED
    BY <1>a, <1>c, <1>d, <2>1, <2>2, <2>3, WriteReady, RestoreReady DEF Plain, Unpaused
<1>2. CASE HandedBack \/ ScaledUp
  <2>1. ~Armed /\ tgt.pausedFrom = NoPause
    BY <1>2, <1>c DEF HandedBack, ScaledUp, Ready, Undone, Uncopied
  <2>2. \A step \in {"again", "decide"} : Ready(ToRunning(w), step) /\ Clears(ToRunning(w))
    BY <1>0, <2>1, PauseKept, NoPauseLasts DEF Ready, Clears, Undone, Uncopied
  <2> QED
    BY <1>2, <1>a, <2>2, WriteReady DEF HandedBack, ScaledUp
<1>3. CASE WakeOnScaleUp
  <2>1. Retry \/ Goto("decide") \/ RestoreThen(w, "scaledUp")
    BY <1>3 DEF WakeOnScaleUp
  <2> QED
    BY <1>a, <1>c, <1>d, <2>1, EndReady, RestoreReady DEF Retry, Unpaused
<1>4. CASE StaleForRouting
  BY <1>4, <1>a, EndReady DEF StaleForRouting, Retry
<1>5. CASE Decide
  <2>1. Ready(To("Resuming", w), "resume") /\ Clears(To("Resuming", w))
    BY <1>0, <1>c, PauseKept, PlainReady, SamePauseReady DEF Plain
  <2>2. \/ WriteThen(To("Resuming", w), "resume") \/ Retry
        \/ \E step \in {"copy", "resume", "requests", "zero"} : Goto(step)
    BY <1>5 DEF Decide
  <2> QED
    BY <1>a, <1>d, <2>1, <2>2, WriteReady, EndReady DEF Retry, Plain, Unpaused
<1> QED
  BY <1>1, <1>2, <1>3, <1>4, <1>5

LEMMA RequestsReady ==
  ASSUME TypeInv, CopyInv, RecordInv,
         ScaledToZero \/ WokenOrStaysPaused \/ PauseRequest \/ IdleClock
  PROVE  RecordInv'
<1>0. w \in ManagedWorkload
  BY DEF TypeInv, TypeOK
<1>a. Unmoved
  BY ThinksUnmoved DEF ScaledToZero, WokenOrStaysPaused, PauseRequest, IdleClock
<1>b. pc \in {"zero", "requests", "idleClock"}
  BY DEF ScaledToZero, WokenOrStaysPaused, PauseRequest, IdleClock
<1>c. Ready(w, pc) /\ Lasts(w.pause) /\ Clears(w)
  BY <1>b, ClearsNow DEF RecordInv, Ready
<1>d. \A step \in {"again", "resume", "zero", "requests", "idleClock", "prepare"} : Ready(w, step)
  BY <1>b, <1>c DEF Ready, Unpaused, Undone, Uncopied
<1>e. \A step \in {"again", "requests", "zero", "idleClock", "prepare"} : Goto(step) => RecordInv'
  BY <1>a, <1>d, GotoReady DEF Raises, HandBack
<1>f. /\ \A m \in {AnswerPause(w), AnswerWake(w), AnswerWake(AnswerPause(w))} : m.pause = w.pause
      /\ \A m \in {w, AnswerPause(w), AnswerWake(w), AnswerWake(AnswerPause(w))} :
           \A phase \in Phases : To(phase, m).pause = w.pause
  <2>1. AnswerPause(w) \in ManagedWorkload /\ AnswerPause(w).pause = w.pause
    BY <1>0, AnswersTyped, PauseKept
  <2>2. /\ AnswerWake(w) \in ManagedWorkload /\ AnswerWake(w).pause = w.pause
        /\ AnswerWake(AnswerPause(w)) \in ManagedWorkload /\ AnswerWake(AnswerPause(w)).pause = w.pause
    BY <1>0, <2>1, AnswersTyped, PauseKept
  <2>3. ASSUME NEW m \in {w, AnswerPause(w), AnswerWake(w), AnswerWake(AnswerPause(w))}, NEW phase \in Phases
        PROVE  To(phase, m).pause = w.pause
    <3>1. m \in ManagedWorkload /\ m.pause = w.pause
      BY <1>0, <2>1, <2>2, <2>3
    <3> QED
      BY <3>1, PauseKept
  <2> QED
    BY <2>1, <2>2, <2>3
<1>g. ASSUME NEW m, m.pause = w.pause, NEW step \in {"again", "resume", "zero", "requests", "prepare"},
             WriteThen(m, step)
      PROVE  RecordInv'
  <2>1. Ready(m, step) /\ Clears(m)
    BY <1>c, <1>d, <1>g, SamePauseReady
  <2> QED
    BY <1>a, <1>g, <2>1, WriteReady
<1>h. ASSUME NEW m, m.pause = NoPause, w.phase \in Awake, WriteThen(m, "again")
      PROVE  RecordInv'
  <2>1. w.pause = NoPause
    BY <1>b, <1>h DEF CopyInv, Abreast, Recovering, HandBack, Sound
  <2> QED
    BY <1>g, <1>h, <2>1
<1>1. CASE ScaledToZero
  <2>1. \/ \E m \in {AnswerPause(w), AnswerWake(w)} : WriteThen(m, "zero")
        \/ w.phase \in Awake /\ WriteThen(ToRunning(w), "again")
        \/ Goto("again")
    BY <1>1 DEF ScaledToZero, RefuseRequests, Awake
  <2> QED
    BY <1>0, <1>e, <1>f, <1>g, <1>h, <2>1, PauseKept
<1>2. CASE WokenOrStaysPaused
  <2>1. \/ WriteThen(To("Resuming", AnswerWake(AnswerPause(w))), "resume")
        \/ WriteThen(AnswerPause(w), "again") \/ Goto("again")
    BY <1>2 DEF WokenOrStaysPaused
  <2> QED
    BY <1>e, <1>f, <1>g, <2>1 DEF Phases
<1>3. CASE PauseRequest
  <2>1. CASE w' = AnswerPause(w) /\ pc' = "prepare"
    <3>1. Ready(w', pc')
      BY <1>c, <1>d, <1>f, <2>1, SamePauseReady
    <3>2. ~Recovering'
      BY <2>1 DEF Recovering, HandBack
    <3> QED
      BY <1>a, <2>1, <3>1, <3>2, StayReady DEF Raises
  <2>2. \/ Goto("idleClock") \/ WriteThen(AnswerPause(w), "requests")
        \/ WriteThen(To("Idle", AnswerPause(w)), "again")
        \/ w' = AnswerPause(w) /\ pc' = "prepare"
    BY <1>3 DEF PauseRequest
  <2> QED
    BY <1>e, <1>f, <1>g, <2>1, <2>2 DEF Phases
<1>4. CASE IdleClock
  <2> DEFINE m == AnswerWake(IF w.phase = "Idle" THEN AnswerPause(w) ELSE w)
  <2>1. m \in ManagedWorkload /\ m.pause = w.pause /\ To("Idle", m).pause = w.pause /\ ToRunning(m).pause = NoPause
    BY <1>0, AnswersTyped, PauseKept
  <2>2. \/ WriteThen(m, "again") \/ (w.phase \in Awake /\ WriteThen(ToRunning(m), "again"))
        \/ \E step \in {"again", "prepare"} : WriteThen(To("Idle", m), step) \/ Goto(step)
    BY <1>4 DEF IdleClock, Awake
  <2> HIDE DEF m
  <2> QED
    BY <1>e, <1>g, <1>h, <2>1, <2>2
<1> QED
  BY <1>1, <1>2, <1>3, <1>4

LEMMA ResumeReady ==
  ASSUME TypeInv, CopyInv, RecordInv,
         Prepare \/ Resume \/ Settle \/ RecordResumeProgress \/ Resumed
  PROVE  RecordInv'
<1>0. w \in ManagedWorkload /\ tgt \in Target
  BY DEF TypeInv, TypeOK
<1>a. Unmoved
  BY ThinksUnmoved DEF Prepare, Resume, Settle, RecordResumeProgress, Resumed
<1>b. pc \in {"prepare", "resume", "ready", "resumed"}
  BY DEF Prepare, Resume, Settle, RecordResumeProgress, Resumed
<1>c. Ready(w, pc) /\ Lasts(w.pause) /\ Clears(w)
  BY <1>b, ClearsNow DEF RecordInv, Ready
<1>1. CASE Prepare
  <2>1. CASE Retry
    BY <1>a, <2>1, EndReady DEF Retry
  <2>2. CASE tgt.replicas > 0 /\ WriteThen(Recorded, "copy")
    <3>1. w.pause = NoPause
      BY <1>1 DEF Prepare, CopyInv, Abreast, Recovering, HandBack, Sound, Fits, Awake
    <3>2. tgt.pausedFrom = NoPause
      BY <1>1, <1>c, <3>1 DEF Prepare, Ready, Unpaused
    <3>3. HoldsOwn(hold)
      BY <1>c, <3>1, <3>2 DEF RecordInv, Backed, Clears, Armed
    <3>4. Recorded.pause # NoPause
      BY <2>2, RecordedTyped DEF TypeInv
    <3>5. Recorded.pause.from.hold = hold /\ ~Recorded.pause.resumedAt
      BY <1>0 DEF Recorded, ManagedWorkload
    <3>6. Ready(Recorded, "copy") /\ Clears(Recorded)
      BY <3>3, <3>4, <3>5, PlainReady DEF Plain, Lasts, Clears
    <3> QED
      BY <1>a, <2>2, <3>6, WriteReady
  <2> QED
    BY <1>1, <2>1, <2>2 DEF Prepare
<1>2. CASE Resume
  <2>0. w.pause # NoPause /\ w.pause \in PauseStatus
    BY <1>0, <1>2 DEF Resume, TypeInv, PauseInHand, At, NeedsPause, ManagedWorkload
  <2>1. CASE Retry
    BY <1>a, <2>1, EndReady DEF Retry
  <2>2. CASE w.pause.resumedAt /\ pc' = "release" /\ then' = "resumed" /\ UNCHANGED w
    <3>1. Ready(w', pc')
      BY <1>c, <2>0, <2>2 DEF Ready, Lasts, Undone, Uncopied, Unpaused
    <3>2. ~Recovering'
      BY <2>2 DEF Recovering
    <3> QED
      BY <1>a, <2>2, <3>1, <3>2, StayReady DEF Raises
  <2>3. CASE /\ n' = (IF tgt.replicas > 0 THEN tgt.replicas ELSE ResumeReplicas(w.pause))
             /\ scale' = (IF tgt.replicas > 0 THEN "up" ELSE "zero")
             /\ pc' = (IF Keda /\ hold # n' THEN "holdUp" ELSE IF scale' = "zero" THEN "scaleUp" ELSE "ready")
             /\ UNCHANGED w
    <3>1. n' > 0
      BY <1>0, <2>0, <2>3, ResumeReplicasTyped, BoundsAssumption DEF Target, Replicas
    <3>2. ~Keda /\ pc' = "ready" => ~offByUs
      BY <1>0, <2>3 DEF RecordInv, TargetRight, Target, Replicas
    <3>3. Ready(w', pc') /\ ~Recovering' /\ pc' # "write"
      BY <1>c, <2>3, <3>2 DEF Ready, Undone, Uncopied, Unpaused, Recovering, HandBack
    <3> QED
      BY <1>a, <3>1, <3>3, StayReady
  <2> QED
    BY <1>2, <2>1, <2>2, <2>3 DEF Resume
<1>3. CASE Settle
  <2>1. w' = w /\ pc' = "release" /\ ~Recovering'
    BY <1>3 DEF Settle, Recovering
  <2>2. Ready(w', pc')
    BY <1>3, <1>c, <2>1 DEF Settle, Ready, Undone, Uncopied, Unpaused
  <2> QED
    BY <1>a, <2>1, <2>2, StayReady DEF Raises
<1>4. CASE RecordResumeProgress
  <2> DEFINE m == [w EXCEPT !.pause.resumedAt = TRUE,
                            !.pause.firstReadyAt = (@ \/ ReadyOf = "some")]
  <2>1. WriteThen(m, "again") \/ Retry
    BY <1>4 DEF RecordResumeProgress
  <2>2. w.pause # NoPause /\ w.pause \in PauseStatus
    BY <1>0, <1>4 DEF RecordResumeProgress, TypeInv, PauseInHand, At, NeedsPause, ManagedWorkload
  <2>3. m.pause.from = w.pause.from /\ m.pause \in PauseStatus
    BY <1>0, <2>2 DEF ManagedWorkload, PauseStatus
  <2>4. ~Keda => ~offByUs
    BY <1>4, <1>c DEF RecordResumeProgress, Ready
  <2> HIDE DEF m
  <2>5. Lasts(m.pause) /\ Clears(m)
    BY <1>c, <2>2, <2>3, <2>4, NoPauseAssumption DEF Lasts, Clears
  <2>6. Ready(m, "again")
    BY <2>5, PlainReady DEF Plain
  <2> QED
    BY <1>a, <2>1, <2>5, <2>6, WriteReady, EndReady DEF Retry
<1>5. CASE Resumed
  <2>1. ~Armed /\ tgt.pausedFrom = NoPause
    BY <1>5, <1>c DEF Resumed, Ready, Undone, Uncopied
  <2>2. Ready(ToRunning(w), "done") /\ Clears(ToRunning(w))
    BY <1>0, <2>1, PauseKept, NoPauseLasts, PlainReady DEF Clears, Plain
  <2> QED
    BY <1>5, <1>a, <2>2, WriteReady DEF Resumed
<1> QED
  BY <1>1, <1>2, <1>3, <1>4, <1>5

LEMMA HandBackReady ==
  ASSUME TypeInv, CopyInv, RecordInv, CachesShow, Restore \/ Delete \/ Deleted
  PROVE  RecordInv'
<1>0. w \in ManagedWorkload /\ tgt \in Target
  BY DEF TypeInv, TypeOK
<1>a. Unmoved
  BY ThinksUnmoved DEF Restore, Delete, Deleted, Unmoved, api, history
<1>b. pc \in {"restore", "entry", "deleted"}
  BY DEF Restore, Delete, Deleted
<1>c. Ready(w, pc) /\ Lasts(w.pause) /\ Clears(w)
  BY <1>b, ClearsNow DEF RecordInv, Ready
<1>1. CASE Restore
  <2>1. CASE Retry
    BY <1>a, <2>1, EndReady DEF Retry
  <2>2. CASE /\ UNCHANGED <<w, then>>
             /\ \/ pc' = "releaseGone" /\ ~tgt.exists
                \/ pc' = "release" /\ tgt.replicas > 0
                \/ pc' \in (IF Keda THEN {"restoreHold"} ELSE {"restoreScale"}) /\ n' = ResumeReplicas(w.pause)
    <3>1. w.pause \in PauseStatus
      BY <1>0, <1>1 DEF Restore, TypeInv, PauseInHand, At, NeedsPause, HandBack, ManagedWorkload
    <3>2. pc' \in Raises => n' > 0
      BY <2>2, <3>1, ResumeReplicasTyped, BoundsAssumption DEF Raises
    <3>3. /\ pc' \in {"release", "releaseGone"} => ~offByUs
          /\ pc' = "releaseGone" => tgt.pausedFrom = NoPause
      BY <1>0, <2>2 DEF RecordInv, TargetRight, Target, Replicas
    <3>4. Ready(w', pc')
      BY <1>c, <2>2, <3>3 DEF Ready, Undone, Uncopied, Unpaused
    <3>5. ~Lossy => ~Recovering'
      BY <1>1, <2>2 DEF Restore, RecordInv, Recovering, HandBack
    <3> QED
      BY <1>a, <2>2, <3>2, <3>4, <3>5, StayReady
  <2> QED
    BY <1>1, <2>1, <2>2 DEF Restore, Goto, CachesShow
<1>2. CASE Delete
  <2>1. Ready(w, "done") /\ (w.pause = NoPause => Ready(w, "deleted"))
    BY <1>c, PlainReady DEF Plain, Ready, Clears, Undone, Uncopied, Unpaused
  <2>2. Goto("done") \/ RestoreThen(w, "deleted") \/ (Goto("deleted") /\ w.pause = NoPause)
    BY <1>2 DEF Delete
  <2> QED
    BY <1>a, <1>c, <2>1, <2>2, GotoReady, RestoreReady DEF HandBack, Raises
<1>3. CASE Deleted
  <2> DEFINE m == [w EXCEPT !.pause = NoPause]
             gone == [m EXCEPT !.finalizer = FALSE, !.gone = TRUE]
  <2>1. ~Lossy => ~Armed /\ tgt.pausedFrom = NoPause
    BY <1>3, <1>c DEF Deleted, Ready
  <2>2. m.pause = NoPause /\ AnswerWake(m).pause = NoPause /\ gone.pause = NoPause
    BY <1>0 DEF ManagedWorkload, AnswerWake
  <2>3. WriteThen(m, "again") \/ WriteThen(AnswerWake(m), "deleted") \/ WriteThen(gone, "done")
    BY <1>3 DEF Deleted
  <2> HIDE DEF m, gone
  <2>4. /\ \A x \in {m, AnswerWake(m), gone} : Clears(x)
        /\ Ready(m, "again") /\ Ready(AnswerWake(m), "deleted") /\ Ready(gone, "done")
    BY <2>1, <2>2, NoPauseLasts DEF Clears, Ready, Undone, Uncopied, Unpaused
  <2> QED
    BY <1>a, <2>3, <2>4, WriteReady
<1> QED
  BY <1>1, <1>2, <1>3

----------------------------------------------------------------------------
(* Steps that move what the records are for. *)

LEMMA UpdateReady ==
  ASSUME TypeInv, CopyInv, RecordInv, Update
  PROVE  RecordInv'
<1>1. /\ mw' = w /\ w' = w /\ pc' = then /\ UNCHANGED <<tgt, hold, offByUs, own>>
      /\ Ready(w, then) /\ Clears(w) /\ then \in WrittenFor
  BY DEF Update, Goto, CopyInv, RecordInv
<1>2. ~Recovering' /\ pc' # "write" /\ pc' \notin Raises
  BY <1>1 DEF Recovering, WrittenFor, HandBack, Raises
<1>3. TargetRight' /\ Lasts(mw.pause)' /\ Ready(w, pc)'
  BY <1>1 DEF RecordInv, TargetRight, Ready, Lasts, Armed, HoldsOwn
<1>4. Backed'
  BY <1>1 DEF RecordInv, Backed, Clears, Armed, HoldsOwn
<1> QED
  BY <1>2, <1>3, <1>4 DEF RecordInv

\* A retry of a step that moved nothing that's undone after.
LEMMA EndMoved ==
  ASSUME RecordInv, NEW again, End(again), TargetRight', Backed', Lasts(mw.pause)'
  PROVE  RecordInv'
<1>1. w' = Fresh /\ pc' = "idle"
  BY DEF End
<1>2. Ready(w, pc)' /\ ~Recovering'
  BY <1>1 DEF Ready, Lasts, Fresh, Undone, Uncopied, Unpaused, Recovering, HandBack
<1> QED
  BY <1>1, <1>2 DEF RecordInv, Raises

LEMMA PauseReady ==
  ASSUME TypeInv, CopyInv, RecordInv, CachesShow, CopyRecord \/ HoldAtZero \/ ScaleToZero
  PROVE  RecordInv'
<1>0. w \in ManagedWorkload /\ mw \in ManagedWorkload /\ tgt \in Target
  BY DEF TypeInv, TypeOK
<1>b. pc \in {"copy", "holdZero", "scaleZero"}
  BY DEF CopyRecord, HoldAtZero, ScaleToZero
<1>c. Ready(w, pc) /\ Lasts(w.pause) /\ ~Recovering
  BY <1>b DEF RecordInv, Ready, Recovering, HandBack
<1>d. /\ w.pause # NoPause /\ w.pause \in PauseStatus /\ w.pause.from # NoPause /\ ~w.pause.resumedAt
      /\ mw.pause \in {w.pause, NoPause} /\ (~Lossy => mw.pause = w.pause)
  <2>1. w.pause # NoPause /\ w.pause \in PauseStatus
    BY <1>0, <1>b DEF TypeInv, PauseInHand, At, NeedsPause, ManagedWorkload
  <2>2. w.pause.from # NoPause
    BY <2>1, NoPauseAssumption DEF PauseStatus
  <2> QED
    BY <1>b, <1>c, <2>1, <2>2 DEF CopyInv, Abreast, Sound, Fits
<1>1. CASE CopyRecord
  <2>0. UNCHANGED <<mw, hold, offByUs, own>>
    BY <1>1 DEF CopyRecord, history
  <2>1. CASE Retry /\ UNCHANGED tgt
    BY <2>0, <2>1, EndReady DEF Retry, Unmoved
  <2>2. CASE /\ Goto(IF Keda THEN "holdZero" ELSE "scaleZero") /\ tgt'.pausedFrom = w.pause.from
             /\ UNCHANGED <<tgt.exists, tgt.replicas>>
             /\ tgt.exists \/ tgt'.pausedFrom = tgt.pausedFrom
    <3>1. TargetRight' /\ Backed' /\ Lasts(mw.pause)'
      BY <1>c, <1>d, <2>0, <2>2 DEF RecordInv, TargetRight, Backed, Lasts, Armed, HoldsOwn
    <3>2. w' = w /\ pc' = (IF Keda THEN "holdZero" ELSE "scaleZero")
      BY <2>2 DEF Goto
    <3>3. Ready(w, pc)' /\ ~Recovering'
      BY <1>c, <1>d, <2>0, <2>2, <3>2 DEF Ready, Lasts, HoldsOwn, Undone, Uncopied, Unpaused, Recovering, HandBack
    <3> QED
      BY <3>1, <3>2, <3>3 DEF RecordInv, Raises
  <2>3. CASE seenTgt.exists /\ seenTgt.pausedFrom = w.pause.from /\ Goto(IF Keda THEN "holdZero" ELSE "scaleZero") /\ UNCHANGED tgt
    <3>1. w' = w /\ pc' = (IF Keda THEN "holdZero" ELSE "scaleZero") /\ Unmoved /\ ~Recovering'
      BY <2>0, <2>3 DEF Goto, Unmoved, Recovering, HandBack
    <3>2. Lossy => tgt.pausedFrom # NoPause
      BY <1>1, <1>d, <2>3 DEF CachesShow
    <3>3. Ready(w', pc')
      BY <1>c, <3>1, <3>2 DEF Ready, Undone, Uncopied, Unpaused
    <3> QED
      BY <3>1, <3>3, StayReady DEF Raises
  <2>4. CASE /\ tgt.exists /\ tgt' = [tgt EXCEPT !.pausedFrom = w.pause.from]
             /\ Goto(IF Keda THEN "holdZero" ELSE "scaleZero")
    <3>1. tgt'.pausedFrom = w.pause.from /\ tgt'.exists = tgt.exists /\ tgt'.replicas = tgt.replicas
      BY <1>0, <2>4 DEF Target
    <3> QED
      BY <2>2, <2>4, <3>1
  <2> QED
    BY <1>1, <2>1, <2>3, <2>4 DEF CopyRecord
<1>2. CASE HoldAtZero
  <2>1. /\ UNCHANGED <<mw, tgt, offByUs, own>> /\ w' = w /\ pc' = "scaleZero" /\ ~Recovering'
    BY <1>2 DEF HoldAtZero, Goto, history, Recovering, HandBack
  <2>2. Keda /\ (Lossy => tgt.pausedFrom # NoPause)
    BY <1>2, <1>c DEF HoldAtZero, Ready
  <2>3. TargetRight' /\ Backed' /\ Lasts(mw.pause)'
    BY <1>d, <2>1, <2>2 DEF RecordInv, TargetRight, Backed, Lasts, Armed, HoldsOwn
  <2>4. Ready(w, pc)'
    BY <1>c, <2>1, <2>2 DEF Ready, Lasts, HoldsOwn, Undone, Uncopied, Unpaused
  <2> QED
    BY <2>1, <2>3, <2>4 DEF RecordInv, Raises
<1>3. CASE ScaleToZero
  <2>0. UNCHANGED <<mw, hold, own>> /\ (Lossy => tgt.pausedFrom # NoPause)
    BY <1>3, <1>c DEF ScaleToZero, Ready
  <2>1. CASE Retry /\ UNCHANGED <<tgt, offByUs>>
    BY <2>0, <2>1, EndReady DEF Retry, Unmoved
  <2>2. CASE ~(Retry /\ UNCHANGED <<tgt, offByUs>>)
    <3> DEFINE m == [w EXCEPT !.pause.pausedAt = TRUE]
    <3>1. tgt.exists /\ tgt' = Rescaled(tgt, 0) /\ offByUs' = (offByUs \/ tgt.replicas > 0)
      BY <1>3, <2>2 DEF ScaleToZero
    <3>2. tgt'.exists = tgt.exists /\ tgt'.pausedFrom = tgt.pausedFrom /\ tgt'.replicas = 0
      BY <1>0, <3>1 DEF Rescaled, Target
    <3>3. TargetRight' /\ Backed' /\ Lasts(mw.pause)'
      BY <1>d, <2>0, <3>1, <3>2 DEF RecordInv, TargetRight, Backed, Lasts, Armed, HoldsOwn
    <3>4. WriteThen(m, "again") \/ WriteThen(To("Paused", m), "again") \/ Retry
      BY <1>3, <2>2 DEF ScaleToZero
    <3>5. m \in ManagedWorkload /\ m.pause.from = w.pause.from /\ m.pause.resumedAt = w.pause.resumedAt
          /\ m.pause \in PauseStatus
      BY <1>0, <1>d DEF ManagedWorkload, PauseStatus
    <3> HIDE DEF m
    <3>6. To("Paused", m).pause = m.pause
      BY <3>5, PauseKept
    <3>7. CASE Retry
      BY <3>3, <3>7, EndMoved DEF Retry
    <3>8. CASE w'.pause = m.pause /\ pc' = "write" /\ then' = "again"
      <4>1. Lasts(w.pause)' /\ w'.pause # NoPause
        BY <1>c, <1>d, <2>0, <3>5, <3>8, NoPauseAssumption DEF Lasts, HoldsOwn
      <4>2. Ready(w, then)' /\ Clears(w)' /\ ~Recovering'
        BY <3>8, <4>1 DEF Ready, Undone, Uncopied, Unpaused, Clears, Recovering, HandBack
      <4> QED
        BY <3>3, <3>8, <4>2 DEF RecordInv, Raises
    <3> QED
      BY <3>4, <3>6, <3>7, <3>8 DEF WriteThen
  <2> QED
    BY <2>1, <2>2
<1> QED
  BY <1>1, <1>2, <1>3

LEMMA RaiseReady ==
  ASSUME TypeInv, CopyInv, RecordInv, HoldAtRestored \/ ScaleUp \/ RestoreHold \/ RestoreScale
  PROVE  RecordInv'
<1>0. w \in ManagedWorkload /\ tgt \in Target /\ n \in Nat
  BY BoundsAssumption DEF TypeInv, TypeOK, Replicas
<1>b. pc \in Raises
  BY DEF HoldAtRestored, ScaleUp, RestoreHold, RestoreScale, Raises
<1>c. Ready(w, pc) /\ Lasts(w.pause) /\ n > 0 /\ (~Lossy => ~Recovering)
  BY <1>b DEF RecordInv, Ready, Raises
<1>d. w.pause # NoPause /\ (~Lossy => mw.pause = w.pause)
  BY <1>b, <1>c DEF TypeInv, PauseInHand, At, NeedsPause, HandBack, Raises, CopyInv, Abreast
<1>1. CASE HoldAtRestored \/ RestoreHold
  <2>1. /\ UNCHANGED <<mw, tgt, offByUs, own, w, n, then>> /\ hold' = n
        /\ pc' \in IF pc = "holdUp" THEN {"scaleUp", "ready"} ELSE {"restoreScale"}
    BY <1>1 DEF HoldAtRestored, RestoreHold, Goto, history
  <2>2. Keda
    BY <1>1, <1>c DEF HoldAtRestored, RestoreHold, Ready
  <2>3. TargetRight' /\ Backed' /\ Lasts(mw.pause)'
    BY <1>0, <1>c, <1>d, <2>1, <2>2 DEF RecordInv, TargetRight, Backed, Lasts, Armed, HoldsOwn
  <2>4. Ready(w, pc)'
    BY <1>c, <2>1, <2>2 DEF Ready, Lasts, HoldsOwn, Undone, Uncopied, Unpaused
  <2>5. ~Lossy => ~Recovering'
    BY <1>1, <1>c, <2>1 DEF HoldAtRestored, RestoreHold, Recovering, HandBack
  <2> QED
    BY <1>1, <1>c, <2>1, <2>3, <2>4, <2>5 DEF RecordInv, HoldAtRestored, RestoreHold
<1>2. CASE ScaleUp \/ RestoreScale
  <2>0. UNCHANGED <<mw, hold, own>>
    BY <1>2 DEF ScaleUp, RestoreScale
  <2>1. CASE Retry /\ UNCHANGED <<tgt, offByUs>>
    BY <2>0, <2>1, EndReady DEF Retry, Unmoved
  <2>2. CASE /\ tgt.exists /\ tgt' = Rescaled(tgt, n) /\ offByUs' = FALSE /\ UNCHANGED <<w, then>>
             /\ pc' \in IF pc = "scaleUp" THEN {"ready"} ELSE {"release"}
    <3>1. tgt'.exists = tgt.exists /\ tgt'.pausedFrom = tgt.pausedFrom
      BY <1>0, <2>2 DEF Rescaled, Target
    <3>2. TargetRight' /\ Backed' /\ Lasts(mw.pause)'
      BY <2>0, <2>2, <3>1 DEF RecordInv, TargetRight, Backed, Lasts, Armed, HoldsOwn
    <3>3. Ready(w, pc)'
      BY <1>c, <2>0, <2>2 DEF Ready, Lasts, HoldsOwn, Undone, Uncopied, Unpaused
    <3>4. ~Lossy => ~Recovering'
      BY <1>2, <1>c, <2>2 DEF ScaleUp, RestoreScale, Recovering, HandBack
    <3> QED
      BY <2>2, <3>2, <3>3, <3>4 DEF RecordInv, Raises
  <2> QED
    BY <1>2, <2>1, <2>2 DEF ScaleUp, RestoreScale, Goto
<1> QED
  BY <1>1, <1>2

LEMMA ReleaseReady ==
  ASSUME TypeInv, CopyInv, RecordInv, ReleaseKEDA \/ DropRecord
  PROVE  RecordInv'
<1>0. w \in ManagedWorkload /\ tgt \in Target
  BY DEF TypeInv, TypeOK
<1>b. pc \in {"release", "releaseGone", "drop"} /\ then \in HandedTo
  BY DEF ReleaseKEDA, DropRecord, TypeInv, PauseInHand, HandBack
<1>c. Ready(w, pc) /\ Lasts(w.pause) /\ w.pause # NoPause /\ (~Lossy => ~Recovering)
  BY <1>b DEF RecordInv, Ready, TypeInv, PauseInHand, At, NeedsPause, HandBack
<1>d. ~Lossy => then # "recovered"
  BY <1>b, <1>c DEF Recovering, HandBack
<1>1. CASE ReleaseKEDA
  <2>1. /\ UNCHANGED <<mw, tgt, own, w, then>>
        /\ hold' = (IF Keda THEN w.pause.from.hold ELSE hold) /\ offByUs' = (offByUs /\ ~Keda)
        /\ pc' = (IF pc = "release" THEN "drop" ELSE then)
    BY <1>1 DEF ReleaseKEDA, Goto
  <2>2. ~Armed'
    <3>1. CASE Keda
      BY <1>c, <2>1, <3>1 DEF Lasts, Armed, HoldsOwn
    <3>2. CASE ~Keda
      BY <1>1, <1>c, <2>1, <3>2 DEF ReleaseKEDA, Ready, RecordInv, TargetRight, Armed, HoldsOwn, NoHold
    <3> QED
      BY <3>1, <3>2
  <2>3. TargetRight' /\ Lasts(mw.pause)' /\ Lasts(w.pause)'
    BY <1>c, <2>1 DEF RecordInv, TargetRight, Lasts, HoldsOwn
  <2>4. Backed'
    BY <2>1, <2>2 DEF RecordInv, Backed
  <2>5. pc' # "drop" => tgt.pausedFrom = NoPause
    BY <1>1, <1>c, <2>1 DEF ReleaseKEDA, Ready, Uncopied
  <2>6. Ready(w, pc)'
    BY <1>b, <2>1, <2>2, <2>3, <2>5 DEF Ready, Undone, Uncopied, Unpaused, HandedTo
  <2>7. ~Lossy => ~Recovering'
    BY <1>b, <1>d, <2>1 DEF Recovering, HandedTo, HandBack
  <2> QED
    BY <1>b, <2>1, <2>3, <2>4, <2>6, <2>7 DEF RecordInv, Raises, HandedTo
<1>2. CASE DropRecord
  <2>1. /\ UNCHANGED <<mw, hold, offByUs, own, w, then>> /\ pc' = then
        /\ tgt'.pausedFrom = NoPause /\ tgt'.exists = tgt.exists /\ tgt'.replicas = tgt.replicas
    BY <1>0, <1>2 DEF DropRecord, Goto, history, Target
  <2>2. ~Armed'
    BY <1>2, <1>c, <2>1 DEF DropRecord, Ready, Undone, Armed, HoldsOwn
  <2>3. TargetRight' /\ Lasts(mw.pause)' /\ Lasts(w.pause)' /\ Backed'
    BY <1>c, <2>1, <2>2 DEF RecordInv, TargetRight, Lasts, Backed, HoldsOwn
  <2>4. Ready(w, pc)'
    BY <1>b, <2>1, <2>2, <2>3 DEF Ready, Undone, Uncopied, Unpaused, HandedTo
  <2>5. ~Lossy => ~Recovering'
    BY <1>b, <1>d, <2>1 DEF Recovering, HandedTo, HandBack
  <2> QED
    BY <1>b, <2>1, <2>3, <2>4, <2>5 DEF RecordInv, Raises, HandedTo
<1> QED
  BY <1>1, <1>2

----------------------------------------------------------------------------
(* What the operator doesn't do. *)

\* Nothing others do leaves anything of Napwake's doing to undo, or takes a
\* record away that the invariant counts on.
LEMMA OthersReady ==
  ASSUME RecordInv, UNCHANGED <<pc, then, w, n, hold, own>>, TargetRight',
         offByUs' => Armed, offByUs' /\ ~Keda => offByUs,
         mw'.pause = mw.pause \/ (Lossy /\ mw'.pause = NoPause),
         tgt'.pausedFrom = tgt.pausedFrom \/ (~Lossy /\ tgt'.pausedFrom = NoPause)
  PROVE  RecordInv'
<1>1. Armed' => Armed
  BY DEF Armed, HoldsOwn
<1>2. Backed'
  BY <1>1 DEF RecordInv, Backed
<1>3. Lasts(mw.pause)' /\ (Lasts(w.pause) => Lasts(w.pause)')
  BY DEF RecordInv, Lasts, HoldsOwn
<1>4. /\ Ready(w, pc) => Ready(w, pc)'
      /\ Ready(w, then) => Ready(w, then)'
      /\ Clears(w) => Clears(w)'
  BY <1>1, <1>3 DEF Ready, Clears
<1> QED
  BY <1>2, <1>3, <1>4 DEF RecordInv, Recovering

LEMMA OutsideReady ==
  ASSUME TypeInv, RecordInv, Relies, Catchup \/ Cluster \/ Outside
  PROVE  RecordInv'
<1>0. tgt \in Target /\ mw \in ManagedWorkload /\ hold \in Holds
  BY DEF TypeInv, TypeOK
<1>1. CASE Catchup
  <2>1. Unmoved /\ UNCHANGED <<pc, then, w, n>>
    BY <1>1 DEF Catchup, DeliverWorkload, DeliverTarget, Unmoved, api, local, history
  <2> QED
    BY <2>1, StateKept, OthersReady DEF Unmoved, RecordInv, Armed
<1>2. CASE Fail \/ Crash
  BY <1>2, EndReady DEF Fail, Crash, Retry, Unmoved, api, history
<1>3. CASE PodsMove \/ PodsFail \/ Ignore
  <2>1. /\ UNCHANGED <<mw, pc, then, w, n, hold, own, offByUs>>
        /\ tgt'.exists = tgt.exists /\ tgt'.replicas = tgt.replicas /\ tgt'.pausedFrom = tgt.pausedFrom
    BY <1>0, <1>3 DEF PodsMove, PodsFail, Ignore, TgtWritten, Target
  <2>2. TargetRight'
    BY <2>1 DEF RecordInv, TargetRight, HoldsOwn
  <2> QED
    BY <2>1, <2>2, OthersReady DEF Armed
<1>4. CASE KedaHolds
  <2>1. /\ UNCHANGED <<mw, pc, then, w, n, hold, own>> /\ tgt.exists /\ hold # NoHold
        /\ offByUs' = (hold = 0 /\ own # 0)
    BY <1>4 DEF KedaHolds, TgtWritten
  <2>2. tgt'.exists /\ tgt'.replicas = hold /\ tgt'.pausedFrom = tgt.pausedFrom
    BY <1>0, <1>4 DEF KedaHolds, TgtWritten, Rescaled, Target
  <2>3. TargetRight'
    BY <2>1, <2>2 DEF RecordInv, TargetRight, HoldsOwn
  <2>4. Keda /\ (offByUs' => Armed)
    BY <2>1 DEF RecordInv, TargetRight, Armed, HoldsOwn
  <2> QED
    BY <2>1, <2>2, <2>3, <2>4, OthersReady
<1>5. CASE Scale \/ Recreate
  <2>1. UNCHANGED <<mw, pc, then, w, n, hold, own>> /\ ~offByUs'
    BY <1>5 DEF Scale, Recreate, TgtWritten
  <2>2. CASE Scale
    <3>1. tgt'.exists = tgt.exists /\ tgt'.pausedFrom = tgt.pausedFrom
      BY <1>0, <2>2 DEF Scale, TgtWritten, Rescaled, Target
    <3>2. TargetRight'
      BY <2>1, <3>1 DEF RecordInv, TargetRight, HoldsOwn
    <3> QED
      BY <2>1, <3>1, <3>2, OthersReady
  <2>3. CASE Recreate
    <3>1. ~Lossy
      BY <2>3 DEF Recreate, Spend, Relies
    <3>2. tgt'.pausedFrom = NoPause
      <4>1. CASE tgt' = [exists |-> FALSE, replicas |-> 0, pods |-> "stopped",
                         pausedFrom |-> NoPause, ignored |-> FALSE]
        BY <4>1
      <4>2. CASE ~tgt.exists /\ \E r \in 1..MaxReplicas : tgt' = [Rescaled(tgt, r) EXCEPT !.exists = TRUE]
        <5>1. tgt.pausedFrom = NoPause
          BY <4>2 DEF RecordInv, TargetRight
        <5> QED
          BY <1>0, <4>2, <5>1 DEF Rescaled, Target
      <4> QED
        BY <2>3, <4>1, <4>2 DEF Recreate, TgtWritten
    <3>3. TargetRight'
      BY <2>1, <3>1, <3>2 DEF RecordInv, TargetRight, Lossy
    <3> QED
      BY <2>1, <3>1, <3>2, <3>3, OthersReady
  <2> QED
    BY <1>5, <2>2, <2>3
<1>6. CASE Annotate \/ Edit \/ LoseStatus
  <2>1. UNCHANGED <<tgt, hold, own, offByUs, pc, then, w, n>>
    BY <1>6 DEF Annotate, Edit, LoseStatus, MwWritten, history
  <2>2. mw'.pause = mw.pause \/ (Lossy /\ mw'.pause = NoPause)
    BY <1>0, <1>6 DEF Annotate, Edit, LoseStatus, MwWritten, Spend, Lossy, ManagedWorkload
  <2>3. TargetRight'
    BY <2>1 DEF RecordInv, TargetRight, HoldsOwn
  <2> QED
    BY <2>1, <2>2, <2>3, OthersReady DEF Armed
<1> QED
  BY <1>1, <1>2, <1>3, <1>4, <1>5, <1>6 DEF Cluster, Outside

----------------------------------------------------------------------------

ContractInv == TypeInv /\ CopyInv /\ RecordInv

LEMMA ContractInvInit == Init => ContractInv
<1> SUFFICES ASSUME Init PROVE ContractInv
  OBVIOUS
<1>1. /\ mw = Fresh /\ w = Fresh /\ Fresh.pause = NoPause /\ pc = "idle" /\ ~offByUs
      /\ tgt.exists /\ tgt.pausedFrom = NoPause /\ hold = own
      /\ ~Keda => hold = NoHold
  BY KedaAssumption DEF Init, Fresh
<1>2. TargetRight /\ Backed /\ Lasts(mw.pause) /\ Ready(w, pc) /\ ~Recovering
  BY <1>1 DEF TargetRight, Backed, Lasts, Ready, Armed, HoldsOwn, Undone, Uncopied, Unpaused, Recovering, HandBack
<1>3. RecordInv
  BY <1>1, <1>2 DEF RecordInv, Raises
<1> QED
  BY <1>3, TypeInvInit, CopyInvInit DEF ContractInv

LEMMA ContractInvStep ==
  ASSUME Relies, ContractInv, [Next]_vars, [CachesShow]_vars
  PROVE  ContractInv'
<1>0. ~Lag /\ TypeInv /\ CopyInv /\ RecordInv
  BY DEF ContractInv, Relies
<1>1. TypeInv' /\ CopyInv'
  BY <1>0, TypeInvStep, CopyInvStep
<1>2. ASSUME UNCHANGED vars PROVE RecordInv'
  <2>1. Unmoved /\ UNCHANGED <<pc, then, w, n>>
    BY <1>2 DEF Unmoved, vars, api, local, history
  <2>2. UNCHANGED <<hold, own, offByUs>> /\ mw' = mw /\ tgt' = tgt
    BY <2>1 DEF Unmoved
  <2>3. TargetRight'
    BY <1>0, <2>1, StateKept
  <2> QED
    BY <1>0, <2>1, <2>2, <2>3, OthersReady DEF Armed, HoldsOwn
<1>3. ASSUME Next, CachesShow PROVE RecordInv'
  <2>1. CASE Reconcile
    BY <1>0, <1>3, <2>1, EntryReady, RecoverReady, UpdateReady, DecideReady, RequestsReady, PauseReady,
       ResumeReady, RaiseReady, HandBackReady, ReleaseReady
    DEF Reconcile
  <2>2. CASE Catchup \/ Cluster \/ Outside
    BY <1>0, <2>2, OutsideReady
  <2> QED
    BY <1>3, <2>1, <2>2 DEF Next
<1>4. RecordInv'
  <2>1. CASE ~(UNCHANGED vars)
    BY <1>3, <2>1
  <2> QED
    BY <1>2, <2>1
<1> QED
  BY <1>1, <1>4 DEF ContractInv

----------------------------------------------------------------------------
(* The contract. *)

Power == IF tgt.replicas > 0 THEN "on" ELSE IF offByUs THEN "off" ELSE "out"
Owed == mw.pause # NoPause \/ tgt.pausedFrom # NoPause

\* What's off by Napwake's doing is owed.
LEMMA OffOwed == RecordInv /\ Power = "off" => Owed
BY DEF RecordInv, Backed, Armed, Power, Owed

\* No step moves both the power and the debt, but a deletion of the target,
\* and none takes what others turned off for off by Napwake's doing.
LEMMA OneOfBoth ==
  ASSUME TypeInv, [Next]_vars
  PROVE  \/ Power' = Power
         \/ (Owed' <=> Owed) /\ ~(Power = "out" /\ Power' = "off")
         \/ Power' = "out" /\ (Owed' => Owed)
<1>0. tgt \in Target /\ n \in Nat /\ hold \in Holds /\ tgt.replicas \in Nat
  BY BoundsAssumption DEF TypeInv, TypeOK, Target, Replicas
<1>1. CASE ScaleToZero
  <2>1. mw' = mw /\ tgt'.pausedFrom = tgt.pausedFrom
    BY <1>0, <1>1 DEF ScaleToZero, Rescaled, Target
  <2>2. CASE tgt' = tgt /\ offByUs' = offByUs
    BY <2>1, <2>2 DEF Power, Owed
  <2>3. CASE offByUs' = (offByUs \/ tgt.replicas > 0)
    <3>1. offByUs' => offByUs \/ tgt.replicas > 0
      BY <2>3
    <3>2. Power = "out" => ~(tgt.replicas > 0) /\ ~offByUs
      BY DEF Power
    <3>3. ~(Power = "out" /\ Power' = "off")
      BY <3>1, <3>2 DEF Power
    <3> QED
      BY <2>1, <3>3 DEF Owed
  <2> QED
    BY <1>1, <2>2, <2>3 DEF ScaleToZero
<1>2. CASE ScaleUp \/ RestoreScale \/ ReleaseKEDA \/ Scale
  <2>1. mw' = mw /\ tgt'.pausedFrom = tgt.pausedFrom
    BY <1>0, <1>2 DEF ScaleUp, RestoreScale, ReleaseKEDA, Scale, TgtWritten, Rescaled, Target
  <2>2. (tgt' = tgt /\ (offByUs' => offByUs)) \/ ~offByUs'
    BY <1>2 DEF ScaleUp, RestoreScale, ReleaseKEDA, Scale
  <2> QED
    BY <2>1, <2>2 DEF Power, Owed
<1>3. CASE KedaHolds
  <2>1. mw' = mw /\ tgt'.pausedFrom = tgt.pausedFrom
    BY <1>0, <1>3 DEF KedaHolds, TgtWritten, Rescaled, Target
  <2>2. (offByUs' => hold = 0) /\ tgt.replicas # hold
    BY <1>3 DEF KedaHolds
  <2>3. offByUs' => tgt.replicas > 0
    BY <1>0, <2>2
  <2> QED
    BY <2>1, <2>3 DEF Power, Owed
<1>4. CASE Recreate
  <2>1. mw' = mw /\ ~offByUs'
    BY <1>4 DEF Recreate, TgtWritten
  <2>2. (tgt'.replicas = 0 /\ tgt'.pausedFrom = NoPause) \/ tgt'.pausedFrom = tgt.pausedFrom
    <3>1. CASE tgt' = [exists |-> FALSE, replicas |-> 0, pods |-> "stopped",
                       pausedFrom |-> NoPause, ignored |-> FALSE]
      BY <3>1
    <3>2. CASE \E r \in 1..MaxReplicas : tgt' = [Rescaled(tgt, r) EXCEPT !.exists = TRUE]
      BY <1>0, <3>2 DEF Rescaled, Target
    <3> QED
      BY <1>4, <3>1, <3>2 DEF Recreate, TgtWritten
  <2> QED
    BY <2>1, <2>2 DEF Power, Owed
<1>5. CASE ~(ScaleToZero \/ ScaleUp \/ RestoreScale \/ ReleaseKEDA \/ Scale \/ KedaHolds \/ Recreate)
  <2>1. tgt'.replicas = tgt.replicas /\ offByUs' = offByUs
    <3>1. CASE Reconcile
      <4>1. CASE CopyRecord \/ DropRecord
        BY <1>0, <4>1 DEF CopyRecord, DropRecord, history, Target
      <4>2. CASE ~(CopyRecord \/ DropRecord)
        BY <1>5, <3>1, <4>2
        DEF Reconcile, Start, Done, Update, UpdateConflict, EnsureFinalizer, TakeOn, TargetMissing,
            RecoverPause, RecoverFromTarget, Recovered, Ignored, HandedBack, WakeOnScaleUp, ScaledUp,
            StaleForRouting, Decide, ScaledToZero, WokenOrStaysPaused, PauseRequest, IdleClock, Prepare,
            HoldAtZero, Resume, HoldAtRestored, Settle, RecordResumeProgress, Resumed, Restore,
            RestoreHold, Delete, Deleted, Thinks, api, history
      <4> QED
        BY <4>1, <4>2
    <3>2. CASE Catchup \/ Cluster \/ Outside
      <4>1. CASE PodsMove \/ PodsFail \/ Ignore
        BY <1>0, <4>1 DEF PodsMove, PodsFail, Ignore, TgtWritten, Target
      <4>2. CASE Catchup \/ Fail \/ Crash \/ Annotate \/ Edit \/ LoseStatus
        BY <4>2 DEF Catchup, DeliverWorkload, DeliverTarget, Fail, Crash, Annotate, Edit, LoseStatus,
                    MwWritten, api, history
      <4> QED
        BY <1>5, <3>2, <4>1, <4>2 DEF Cluster, Outside
    <3>3. CASE UNCHANGED vars
      BY <3>3 DEF vars, api, history
    <3> QED
      BY <3>1, <3>2, <3>3 DEF Next
  <2> QED
    BY <2>1 DEF Power
<1> QED
  BY <1>1, <1>2, <1>3, <1>4, <1>5

LEMMA ContractStep ==
  ASSUME TypeInv, RecordInv, RecordInv', [Next]_vars
  PROVE  [Contract!Next]_(Contract!vars)
<1>1. (Power = "off" => Owed) /\ (Power' = "off" => Owed')
  <2>1. Power' = "off" => Owed'
    BY DEF RecordInv, Backed, Armed, Power, Owed
  <2> QED
    BY <2>1, OffOwed
<1>2. Power \in {"on", "off", "out"} /\ Power' \in {"on", "off", "out"}
  BY DEF Power
<1>3. Owed \in BOOLEAN /\ Owed' \in BOOLEAN
  BY DEF Owed
<1>4. \/ Power' = Power /\ Owed' = Owed
      \/ ~Owed /\ Power # "off" /\ Owed' = TRUE /\ Power' = Power
      \/ Owed /\ Power = "on" /\ Power' = "off" /\ Owed' = Owed
      \/ Owed /\ Power # "off" /\ Owed' = FALSE /\ Power' = Power
      \/ Power' \in {"on", "out"} /\ (Owed' = Owed \/ (Power' = "out" /\ ~Owed'))
  BY <1>1, <1>2, <1>3, OneOfBoth
<1> QED
  BY <1>4 DEF Power, Owed, Contract!Next, Contract!vars, Contract!Owe, Contract!TurnOff, Contract!TurnOn,
              Contract!Settle, Contract!Meddle

\* The lifecycle implements PauseContract, through every interleaving of the
\* reconcile with failures, crashes, lost statuses and whoever else writes
\* the two objects: a reconcile that goes by the ManagedWorkload as it is,
\* and by a target cache that shows it what it relies on, turns a target off
\* only once a record of it is kept, and drops the last of it only once
\* there's nothing left to undo (handlePause, copyRecord, Pauser.release,
\* recoverPause and reconcileDelete).
THEOREM ContractKept == ASSUME Relies PROVE Spec /\ [][CachesShow]_vars => KeepsContract
<1>1. Init => Contract!Init
  <2> SUFFICES ASSUME Init PROVE Contract!Init
    OBVIOUS
  <2>1. tgt.replicas > 0 /\ tgt.pausedFrom = NoPause /\ mw.pause = NoPause
    BY BoundsAssumption DEF Init, Fresh
  <2> QED
    BY <2>1 DEF Contract!Init
<1>2. ContractInv /\ [Next]_vars /\ [CachesShow]_vars => ContractInv'
  BY ContractInvStep
<1>3. ContractInv /\ ContractInv' /\ [Next]_vars => [Contract!Next]_(Contract!vars)
  BY ContractStep DEF ContractInv
<1> QED
  BY <1>1, <1>2, <1>3, ContractInvInit, PTL DEF Spec, KeepsContract, Contract!Spec

\* So a target Napwake scaled to zero always has a record to be brought back
\* from, its status or the copy it carries.
THEOREM NeverLost == ASSUME Relies PROVE Spec /\ [][CachesShow]_vars => []RecordKept
BY ContractKept, ContractKeepsRecord, PTL

\* Where no status is lost, a ScaledObject isn't held at replicas of
\* Napwake's choosing but while a record says what its own annotation was
\* (Pauser.Resume, Pauser.release).
THEOREM HoldsRecorded ==
  ASSUME ~Lag, ~Lossy PROVE Spec /\ [][CachesShow]_vars => []HoldRecorded
<1>1. Relies
  BY DEF Relies
<1>2. ContractInv => HoldRecorded
  BY DEF ContractInv, RecordInv, Backed, Armed, HoldsOwn, HoldRecorded
<1>3. ContractInv /\ [Next]_vars /\ [CachesShow]_vars => ContractInv'
  BY <1>1, ContractInvStep
<1> QED
  BY <1>2, <1>3, ContractInvInit, PTL DEF Spec

\* A ManagedWorkload that's gone leaves nothing of Napwake's behind: its
\* finalizer goes only once the target is handed back (reconcileDelete,
\* Pauser.Restore).
THEOREM LeavesNothing ==
  ASSUME ~Lag, ~Lossy PROVE Spec /\ [][CachesShow]_vars => []HandedBackWhenGone
<1>1. Relies
  BY DEF Relies
<1>2. ContractInv => HandedBackWhenGone
  BY DEF ContractInv, CopyInv, Sound, RecordInv, Backed, Armed, HoldsOwn, HandedBackWhenGone
<1>3. ContractInv /\ [Next]_vars /\ [CachesShow]_vars => ContractInv'
  BY <1>1, ContractInvStep
<1> QED
  BY <1>2, <1>3, ContractInvInit, PTL DEF Spec

\* A target nobody deletes is always in the operator's cache, which is then
\* never wrong about what the operator relies on it for but the copy.
Present == tgt.exists /\ seenTgt.exists

LEMMA PresentStep ==
  ASSUME "recreate" \notin Externals, TypeInv, Present, [Next]_vars
  PROVE  Present'
<1>0. tgt \in Target
  BY DEF TypeInv, TypeOK
<1>1. CASE Reconcile
  <2>1. UNCHANGED seenTgt
    BY <1>1
    DEF Reconcile, Start, Done, Update, UpdateConflict, EnsureFinalizer, TakeOn, TargetMissing,
        RecoverPause, RecoverFromTarget, Recovered, Ignored, HandedBack, WakeOnScaleUp, ScaledUp,
        StaleForRouting, Decide, ScaledToZero, WokenOrStaysPaused, PauseRequest, IdleClock, Prepare,
        CopyRecord, HoldAtZero, ScaleToZero, Resume, HoldAtRestored, ScaleUp, Settle, RecordResumeProgress,
        Resumed, Restore, RestoreHold, RestoreScale, ReleaseKEDA, DropRecord, Delete, Deleted, Thinks, caches
  <2>2. CASE CopyRecord \/ DropRecord \/ ScaleToZero \/ ScaleUp \/ RestoreScale
    BY <1>0, <2>1, <2>2 DEF CopyRecord, DropRecord, ScaleToZero, ScaleUp, RestoreScale, Rescaled, Target, Present
  <2>3. CASE ~(CopyRecord \/ DropRecord \/ ScaleToZero \/ ScaleUp \/ RestoreScale)
    <3>1. tgt' = tgt
      BY <1>1, <2>3
      DEF Reconcile, Start, Done, Update, UpdateConflict, EnsureFinalizer, TakeOn, TargetMissing,
          RecoverPause, RecoverFromTarget, Recovered, Ignored, HandedBack, WakeOnScaleUp, ScaledUp,
          StaleForRouting, Decide, ScaledToZero, WokenOrStaysPaused, PauseRequest, IdleClock, Prepare,
          HoldAtZero, Resume, HoldAtRestored, Settle, RecordResumeProgress, Resumed, Restore,
          RestoreHold, ReleaseKEDA, Delete, Deleted, Thinks, api
    <3> QED
      BY <2>1, <3>1 DEF Present
  <2> QED
    BY <2>2, <2>3
<1>2. CASE Catchup \/ Fail \/ Crash \/ Annotate \/ Edit \/ LoseStatus
  BY <1>2 DEF Catchup, DeliverWorkload, DeliverTarget, Fail, Crash, Annotate, Edit, LoseStatus, MwWritten,
              Present, api, caches
<1>3. CASE Cluster \/ PodsFail \/ Scale \/ Ignore
  BY <1>0, <1>3 DEF Cluster, PodsMove, KedaHolds, PodsFail, Scale, Ignore, TgtWritten, Rescaled, Target,
                    Present, caches
<1>4. CASE Recreate
  BY <1>4 DEF Recreate, Spend
<1>5. CASE UNCHANGED vars
  BY <1>5 DEF Present, vars, api, caches
<1> QED
  BY <1>1, <1>2, <1>3, <1>4, <1>5 DEF Next, Outside

\* Where no status is lost and no target deleted, nothing is asked of the
\* target's cache, however far behind it is.
THEOREM KeptWhateverTheCache ==
  ASSUME ~Lag, ~Lossy, "recreate" \notin Externals
  PROVE  Spec => KeepsContract /\ []HoldRecorded /\ []HandedBackWhenGone
<1>1. Relies
  BY DEF Relies
<1>2. Init => Present
  BY DEF Init, Present
<1>3. Present /\ [Next]_vars => [CachesShow]_vars
  BY DEF Present, CachesShow
<1>4. TypeInv /\ Present /\ [Next]_vars => Present'
  BY PresentStep
<1>5. TypeInv /\ [Next]_vars => TypeInv'
  BY TypeInvStep
<1>6. Spec => [][CachesShow]_vars
  BY <1>2, <1>3, <1>4, <1>5, TypeInvInit, PTL DEF Spec
<1> QED
  BY <1>1, <1>6, ContractKept, HoldsRecorded, LeavesNothing, PTL

----------------------------------------------------------------------------
(* What a workload is brought back to.  With nobody else scaling its target, *)
(* whatever takes it down takes it down from, and every record of that holds, *)
(* replicas that come to the same within the autoscaler's range.             *)

Resumes(r) == IF Clamp(r) < 1 THEN 1 ELSE Clamp(r)

LEMMA ResumesIs ==
  ASSUME NEW r \in Replicas
  PROVE  Resumes(r) \in 1..MaxReplicas /\ Resumes(r) \in Replicas /\ Resumes(Resumes(r)) = Resumes(r)
BY BoundsAssumption DEF Replicas, Resumes, Clamp

\* What others did, or the ScaledObject's own annotation did, would be another matter.
ScaledByNapwakeAlone == OwnHolds = {NoHold} /\ Externals \cap {"scale", "recreate"} = {}

\* A record that c replicas come of, whether they're restored or the ScaledObject is held as it says.
Comes(c, from) ==
  from # NoPause => Resumes(from.replicas) = c /\ (from.hold > 0 => Resumes(from.hold) = c)
Brings(c, m) == m.pause # NoPause => Comes(c, m.pause.from)

\* About to scale up a target that has been taken down.
Lifts == pc \in {"scaleUp", "restoreHold", "restoreScale"} \/ (pc = "holdUp" /\ scale = "zero")

Abroad(c) ==
  /\ c \in Replicas /\ Resumes(c) = c /\ own = NoHold
  /\ Brings(c, mw) /\ Brings(c, seenMw) /\ Comes(c, tgt.pausedFrom)
  /\ tgt.replicas > 0 => Resumes(tgt.replicas) = c
  /\ took > 0 => Resumes(took) = c
  /\ hold > 0 => Resumes(hold) = c
  /\ tgt.replicas = 0 => took > 0
Within(c) ==
  /\ Brings(c, w) /\ then \notin Raises
  /\ Lifts => n = c /\ took > 0
  /\ pc = "holdUp" => n > 0 /\ Resumes(n) = c
Alike(c) == Abroad(c) /\ Within(c)

LEMMA AlikeFirst ==
  ASSUME ScaledByNapwakeAlone, Init PROVE \E c \in Replicas : Alike(c)
<1>1. tgt.replicas \in Replicas /\ tgt.replicas > 0 /\ tgt.pausedFrom = NoPause
  <2>1. tgt.replicas \in 1..MaxReplicas /\ tgt.pausedFrom = NoPause
    BY ZenonT(30) DEF Init
  <2> QED
    BY <2>1, BoundsAssumption DEF Replicas
<1>2. hold = NoHold /\ own = NoHold
  BY DEF Init, ScaledByNapwakeAlone
<1>3. Resumes(tgt.replicas) \in Replicas /\ Resumes(Resumes(tgt.replicas)) = Resumes(tgt.replicas)
  BY <1>1, ResumesIs
<1>4. mw.pause = NoPause /\ seenMw.pause = NoPause /\ w.pause = NoPause
  BY DEF Init, Fresh
<1>5. pc = "idle" /\ then = "done" /\ took = 0
  BY DEF Init
<1>6. Abroad(Resumes(tgt.replicas))
  BY <1>1, <1>2, <1>3, <1>4, <1>5 DEF Abroad, Brings, Comes, NoHold
<1>7. Within(Resumes(tgt.replicas))
  BY <1>4, <1>5 DEF Within, Brings, Raises, Lifts
<1> QED
  BY <1>3, <1>6, <1>7 DEF Alike

\* A step that writes nothing, and goes on with what of the record it had.
Quiet == pc' \notin Raises /\ then' \notin Raises /\ (w'.pause = w.pause \/ w'.pause = NoPause)

LEMMA AbroadStays ==
  ASSUME NEW c, Abroad(c), UNCHANGED <<api, caches, history>> PROVE Abroad(c)'
BY DEF Abroad, Brings, Comes, api, caches, history

LEMMA QuietAlike ==
  ASSUME NEW c, Alike(c), UNCHANGED <<api, caches, history>>, Quiet PROVE Alike(c)'
<1>1. Abroad(c)'
  BY AbroadStays DEF Alike
<1>2. Within(c)'
  BY DEF Alike, Within, Brings, Comes, Quiet, Raises, Lifts
<1> QED
  BY <1>1, <1>2 DEF Alike

LEMMA PauseOf ==
  ASSUME NEW m \in ManagedWorkload
  PROVE  /\ AnswerPause(m) \in ManagedWorkload /\ AnswerPause(m).pause = m.pause
         /\ AnswerWake(m) \in ManagedWorkload /\ AnswerWake(m).pause = m.pause
         /\ ToRunning(m) \in ManagedWorkload /\ ToRunning(m).pause = NoPause
         /\ \A phase \in Phases : To(phase, m) \in ManagedWorkload /\ To(phase, m).pause = m.pause
BY DEF ManagedWorkload, AnswerPause, AnswerWake, ToRunning, To, Phases

LEMMA WriteQuiet ==
  ASSUME NEW c, Alike(c), NEW new, NEW next, WriteThen(new, next), next \notin Raises,
         new.pause = w.pause \/ new.pause = NoPause
  PROVE  Quiet
BY DEF Quiet, WriteThen, Raises

LEMMA RestoreQuiet ==
  ASSUME NEW c, Alike(c), NEW new, NEW next, RestoreThen(new, next), next \notin Raises,
         new.pause = w.pause \/ new.pause = NoPause
  PROVE  Quiet
BY DEF Quiet, RestoreThen, Raises

LEMMA GotoQuiet ==
  ASSUME NEW c, Alike(c), NEW step, Goto(step), step \notin Raises
  PROVE  Quiet
BY DEF Quiet, Goto, Alike, Within

LEMMA EndQuiet == ASSUME NEW again, End(again) PROVE Quiet
BY DEF Quiet, End, Raises, Fresh

LEMMA EntryQuiet ==
  ASSUME NEW c, Alike(c), TypeInv,
         Done \/ UpdateConflict \/ EnsureFinalizer \/ TakeOn \/ TargetMissing \/ RecoverPause \/ Recovered
         \/ Ignored \/ HandedBack \/ WakeOnScaleUp \/ ScaledUp \/ StaleForRouting
  PROVE  Quiet /\ UNCHANGED <<api, caches, history>>
<1>0. w \in ManagedWorkload
  BY DEF TypeInv, TypeOK
<1>1. /\ AnswerPause(w).pause = w.pause /\ AnswerWake(w).pause = w.pause /\ ToRunning(w).pause = NoPause
      /\ ToRunning(AnswerPause(w)).pause = NoPause
      /\ [w EXCEPT !.finalizer = TRUE].pause = w.pause /\ [w EXCEPT !.pause = NoPause].pause = NoPause
  BY <1>0, PauseOf DEF ManagedWorkload
<1>2. UNCHANGED <<api, caches, history>>
  BY DEF Done, UpdateConflict, EnsureFinalizer, TakeOn, TargetMissing, RecoverPause, Recovered,
         Ignored, HandedBack, WakeOnScaleUp, ScaledUp, StaleForRouting, Thinks
<1>3. CASE Done \/ UpdateConflict \/ StaleForRouting
  BY <1>2, <1>3, EndQuiet DEF Done, UpdateConflict, StaleForRouting, Retry
<1>4. CASE EnsureFinalizer \/ TakeOn \/ HandedBack \/ ScaledUp
  BY <1>1, <1>2, <1>4, WriteQuiet DEF EnsureFinalizer, TakeOn, HandedBack, ScaledUp, Raises
<1>5. CASE TargetMissing
  BY <1>1, <1>2, <1>5, WriteQuiet, EndQuiet DEF TargetMissing, RefuseRequests, Raises, Retry
<1>6. CASE RecoverPause
  BY <1>1, <1>2, <1>6, WriteQuiet, GotoQuiet DEF RecoverPause, ForgetLostPause, Raises
<1>7. CASE Recovered
  <2>1. CASE WriteThen(ToRunning(w), "done")
    BY <1>1, <1>2, <2>1, WriteQuiet DEF Raises
  <2>2. CASE w' = [w EXCEPT !.pause = NoPause] /\ pc' = "ignored" /\ then' = then
    BY <1>1, <1>2, <2>2 DEF Quiet, Raises, Alike, Within
  <2> QED
    BY <1>7, <2>1, <2>2 DEF Recovered
<1>8. CASE Ignored
  BY <1>1, <1>2, <1>8, WriteQuiet, GotoQuiet, RestoreQuiet DEF Ignored, RefuseRequests, Raises
<1>9. CASE WakeOnScaleUp
  BY <1>1, <1>2, <1>9, EndQuiet, GotoQuiet, RestoreQuiet DEF WakeOnScaleUp, Raises, Retry
<1> QED
  BY <1>3, <1>4, <1>5, <1>6, <1>7, <1>8, <1>9

LEMMA DecideQuiet ==
  ASSUME NEW c, Alike(c), TypeInv,
         Decide \/ ScaledToZero \/ WokenOrStaysPaused \/ PauseRequest \/ IdleClock \/ Settle \/ Resumed
         \/ Delete \/ Deleted
  PROVE  Quiet /\ UNCHANGED <<api, caches, history>>
<1>0. w \in ManagedWorkload
  BY DEF TypeInv, TypeOK
<1>1. /\ AnswerPause(w).pause = w.pause /\ AnswerWake(w).pause = w.pause /\ ToRunning(w).pause = NoPause
      /\ To("Resuming", w).pause = w.pause /\ To("Idle", AnswerPause(w)).pause = w.pause
      /\ To("Resuming", AnswerWake(AnswerPause(w))).pause = w.pause
  BY <1>0, PauseOf DEF Phases
<1>2. UNCHANGED <<api, caches, history>>
  BY DEF Decide, ScaledToZero, WokenOrStaysPaused, PauseRequest, IdleClock, Settle, Resumed, Delete, Deleted, Thinks
<1>3. CASE Decide \/ ScaledToZero \/ Resumed
  BY <1>1, <1>2, <1>3, WriteQuiet, GotoQuiet, EndQuiet DEF Decide, ScaledToZero, Resumed, RefuseRequests, Raises, Retry
<1>4. CASE WokenOrStaysPaused
  BY <1>1, <1>2, <1>4, WriteQuiet, GotoQuiet DEF WokenOrStaysPaused, Raises
<1>5. CASE PauseRequest
  <2>1. CASE w' = AnswerPause(w) /\ pc' = "prepare" /\ then' = then
    BY <1>1, <1>2, <2>1 DEF Quiet, Raises, Alike, Within
  <2>2. CASE \/ Goto("idleClock") \/ WriteThen(AnswerPause(w), "requests")
             \/ WriteThen(To("Idle", AnswerPause(w)), "again")
    BY <1>1, <1>2, <2>2, WriteQuiet, GotoQuiet DEF Raises
  <2> QED
    BY <1>5, <2>1, <2>2 DEF PauseRequest
<1>6. CASE IdleClock
  <2> DEFINE m == AnswerWake(IF w.phase = "Idle" THEN AnswerPause(w) ELSE w)
  <2>1. m.pause = w.pause /\ ToRunning(m).pause = NoPause /\ To("Idle", m).pause = w.pause
    BY <1>0, PauseOf DEF Phases
  <2>2. \/ \E next \in {"again", "prepare"} : \/ WriteThen(m, next) \/ WriteThen(ToRunning(m), next)
                                              \/ WriteThen(To("Idle", m), next)
        \/ Goto("again") \/ Goto("prepare")
    BY <1>6 DEF IdleClock
  <2> HIDE DEF m
  <2> QED
    BY <1>2, <2>1, <2>2, WriteQuiet, GotoQuiet DEF Raises
<1>7. CASE Settle
  BY <1>2, <1>7 DEF Settle, Quiet, Raises
<1>8. CASE Delete
  BY <1>2, <1>8, GotoQuiet, RestoreQuiet DEF Delete, Raises
<1>9. CASE Deleted
  <2> DEFINE m == [w EXCEPT !.pause = NoPause]
             gone == [m EXCEPT !.finalizer = FALSE, !.gone = TRUE]
  <2>1. m.pause = NoPause /\ AnswerWake(m).pause = NoPause /\ gone.pause = NoPause
    BY <1>0 DEF AnswerWake, ManagedWorkload
  <2>2. \E next \in MayBeNew : WriteThen(m, next) \/ WriteThen(AnswerWake(m), next) \/ WriteThen(gone, next)
    BY <1>9 DEF Deleted, MayBeNew
  <2> HIDE DEF m, gone
  <2> QED
    BY <1>2, <2>1, <2>2, WriteQuiet DEF MayBeNew, Raises
<1> QED
  BY <1>3, <1>4, <1>5, <1>6, <1>7, <1>8, <1>9

\* A copy whose record, if it has one, is as good.
LEMMA KeptWithin ==
  ASSUME NEW c, Alike(c), Brings(c, w'), pc' \notin Raises, then' \notin Raises PROVE Within(c)'
BY DEF Within, Brings, Comes, Raises, Lifts

LEMMA RecordBrings ==
  ASSUME NEW c, NEW m \in ManagedWorkload, m.pause # NoPause, Brings(c, m)
  PROVE  Resumes(m.pause.from.replicas) = c /\ (m.pause.from.hold > 0 => Resumes(m.pause.from.hold) = c)
<1>1. m.pause.from \in PausedFrom
  BY DEF ManagedWorkload, PauseStatus
<1>2. m.pause.from # NoPause
  BY <1>1, NoPauseAssumption
<1> QED
  BY <1>2 DEF Brings, Comes

\* What preparePause and recoverPause make records of.
LEMMA RecordsAlike ==
  ASSUME NEW c, Alike(c), TypeInv, RecoverFromTarget \/ Prepare \/ Start \/ RecordResumeProgress
  PROVE  Alike(c)'
<1>0. w \in ManagedWorkload /\ tgt \in Target
  BY DEF TypeInv, TypeOK
<1>1. Abroad(c)'
  BY AbroadStays DEF RecoverFromTarget, Prepare, Start, RecordResumeProgress, Thinks, Alike
<1>2. CASE Start
  <2>1. Brings(c, w') /\ pc' \notin Raises /\ then' \notin Raises
    BY <1>2 DEF Start, Alike, Abroad, Within, Brings, Comes, Raises
  <2> QED
    BY <1>1, <2>1, KeptWithin DEF Alike
<1>3. CASE Prepare
  <2>1. CASE Retry
    BY <1>3, <2>1, EndQuiet, QuietAlike DEF Retry, Prepare, Thinks
  <2>2. CASE WriteThen(Recorded, "copy") /\ tgt.replicas > 0
    <3>1. Recorded.pause.from = [replicas |-> tgt.replicas, hold |-> hold]
      BY <1>0 DEF Recorded, ManagedWorkload
    <3>2. Brings(c, Recorded)
      BY <2>2, <3>1 DEF Brings, Comes, Alike, Abroad
    <3>3. w' = Recorded /\ pc' = "write" /\ then' = "copy"
      BY <2>2 DEF WriteThen
    <3>4. Brings(c, w')
      BY <3>2, <3>3
    <3> QED
      BY <1>1, <3>3, <3>4, KeptWithin DEF Alike, Raises
  <2> QED
    BY <1>3, <2>1, <2>2 DEF Prepare
<1>4. CASE RecordResumeProgress
  <2> DEFINE m == [w EXCEPT !.pause.resumedAt = TRUE,
                            !.pause.firstReadyAt = (@ \/ ReadyOf = "some")]
  <2>1. WriteThen(m, "again") \/ Retry
    BY <1>4 DEF RecordResumeProgress
  <2>2. w.pause # NoPause
    BY <1>4 DEF RecordResumeProgress, TypeInv, PauseInHand, At, NeedsPause
  <2>3. m.pause.from = w.pause.from
    BY <1>0, <2>2 DEF ManagedWorkload, PauseStatus
  <2>4. Brings(c, m)
    BY <2>2, <2>3 DEF Brings, Alike, Within
  <2> HIDE DEF m
  <2>5. CASE WriteThen(m, "again")
    <3>1. w' = m /\ pc' = "write" /\ then' = "again"
      BY <2>5 DEF WriteThen
    <3>2. Brings(c, w')
      BY <2>4, <3>1
    <3> QED
      BY <1>1, <3>1, <3>2, KeptWithin DEF Alike, Raises
  <2>6. CASE Retry
    BY <1>4, <2>6, EndQuiet, QuietAlike DEF Retry, RecordResumeProgress, Thinks
  <2> QED
    BY <2>1, <2>5, <2>6
<1>5. CASE RecoverFromTarget
  <2> DEFINE lost(pause) == [w EXCEPT !.pause = pause]
             paused(pause) == AnswerWake(AnswerPause([w EXCEPT !.phase = "Paused", !.pause = pause]))
  <2>1. ASSUME NEW pause PROVE lost(pause).pause = pause /\ paused(pause).pause = pause
    BY <1>0 DEF ManagedWorkload, AnswerWake, AnswerPause
  <2>2. ASSUME NEW new, NEW pause, new.pause = pause, pause.from = tgt.pausedFrom, tgt.pausedFrom # NoPause
        PROVE  Brings(c, new)
    BY <2>2 DEF Brings, Comes, Alike, Abroad
  <2> HIDE DEF lost, paused
  <2>3. \/ Retry
        \/ ForgetLostPause
        \/ /\ tgt.pausedFrom # NoPause
           /\ \E pause : pause.from = tgt.pausedFrom /\ (RestoreThen(lost(pause), "recovered") \/ WriteThen(paused(pause), "done"))
    BY <1>5 DEF RecoverFromTarget, lost, paused
  <2>4. CASE Retry \/ ForgetLostPause
    <3>1. ToRunning(w).pause = NoPause
      BY <1>0, PauseOf
    <3>2. Quiet
      BY <2>4, <3>1, EndQuiet, GotoQuiet, WriteQuiet DEF Retry, ForgetLostPause, Raises
    <3> QED
      BY <1>5, <3>2, QuietAlike DEF RecoverFromTarget, Thinks
  <2>5. CASE /\ tgt.pausedFrom # NoPause
             /\ \E pause : pause.from = tgt.pausedFrom /\ (RestoreThen(lost(pause), "recovered") \/ WriteThen(paused(pause), "done"))
    <3>1. PICK pause : /\ pause.from = tgt.pausedFrom
                       /\ RestoreThen(lost(pause), "recovered") \/ WriteThen(paused(pause), "done")
      BY <2>5
    <3>2. Brings(c, lost(pause)) /\ Brings(c, paused(pause))
      BY <2>1, <2>2, <2>5, <3>1
    <3>3. Brings(c, w') /\ pc' \notin Raises /\ then' \notin Raises
      BY <3>1, <3>2 DEF RestoreThen, WriteThen, Raises
    <3> QED
      BY <1>1, <3>3, KeptWithin DEF Alike
  <2> QED
    BY <2>3, <2>4, <2>5
<1> QED
  BY <1>2, <1>3, <1>4, <1>5

\* What a reconcile sets out to scale up, it scales up to c.
LEMMA SetsOut ==
  ASSUME NEW c, Alike(c), TypeInv, Resume \/ Restore
  PROVE  Alike(c)'
<1>0. /\ w \in ManagedWorkload /\ w.pause # NoPause /\ tgt.replicas \in Replicas
      /\ UNCHANGED <<api, caches, history>>
  BY DEF TypeInv, TypeOK, PauseInHand, At, NeedsPause, HandBack, Resume, Restore, Target, Thinks
<1>1. Abroad(c)'
  BY <1>0, AbroadStays DEF Alike
<1>2. ResumeReplicas(w.pause) = c
  <2>1. Resumes(w.pause.from.replicas) = c
    BY <1>0, RecordBrings DEF Alike, Within
  <2> QED
    BY <2>1 DEF ResumeReplicas, Resumes
<1>3. tgt.replicas > 0 \/ tgt.replicas = 0
  BY <1>0 DEF Replicas
<1>4. CASE Retry \/ Goto("release") \/ Goto("releaseGone") \/ (pc' = "release" /\ then' = "resumed" /\ w' = w)
  <2>1. Quiet
    BY <1>4, EndQuiet, GotoQuiet DEF Retry, Raises, Quiet
  <2> QED
    BY <1>0, <2>1, QuietAlike
<1>5. CASE /\ Resume /\ n' = (IF tgt.replicas > 0 THEN tgt.replicas ELSE ResumeReplicas(w.pause))
           /\ scale' = (IF tgt.replicas > 0 THEN "up" ELSE "zero")
           /\ pc' = (IF Keda /\ hold # n' THEN "holdUp" ELSE IF scale' = "zero" THEN "scaleUp" ELSE "ready")
           /\ w' = w /\ then' = then
  <2>1. c > 0 /\ Resumes(c) = c
    <3>1. c \in Replicas /\ Resumes(c) = c
      BY DEF Alike, Abroad
    <3> QED
      BY <3>1, ResumesIs
  <2>2. Brings(c, w)' /\ then' \notin Raises /\ took' = took
    BY <1>0, <1>5 DEF Alike, Within, Brings, Comes, history
  <2>3. CASE tgt.replicas > 0
    <3>1. n' = tgt.replicas /\ scale' = "up" /\ pc' \in {"holdUp", "ready"} /\ Resumes(tgt.replicas) = c
      BY <1>5, <2>3 DEF Alike, Abroad
    <3>2. Within(c)'
      BY <2>2, <2>3, <3>1 DEF Within, Lifts
    <3> QED
      BY <1>1, <3>2 DEF Alike
  <2>4. CASE tgt.replicas = 0
    <3>1. n' = c /\ took > 0
      BY <1>2, <1>5, <2>4 DEF Alike, Abroad
    <3>2. Within(c)'
      BY <2>1, <2>2, <3>1 DEF Within
    <3> QED
      BY <1>1, <3>2 DEF Alike
  <2> QED
    BY <1>3, <2>3, <2>4
<1>6. CASE /\ Restore /\ tgt.replicas = 0 /\ n' = ResumeReplicas(w.pause) /\ scale' = "zero"
           /\ pc' = (IF Keda THEN "restoreHold" ELSE "restoreScale") /\ w' = w /\ then' = then
  <2>1. n' = c /\ took > 0
    BY <1>2, <1>6 DEF Alike, Abroad
  <2>2. Brings(c, w)' /\ then' \notin Raises /\ took' = took
    BY <1>0, <1>6 DEF Alike, Within, Brings, Comes, history
  <2>3. Within(c)'
    BY <1>6, <2>1, <2>2 DEF Within
  <2> QED
    BY <1>1, <2>3 DEF Alike
<1> QED
  BY <1>4, <1>5, <1>6 DEF Resume, Restore

\* A reconcile's writes.
LEMMA WritesAlike ==
  ASSUME NEW c, Alike(c), TypeInv,
         Update \/ CopyRecord \/ HoldAtZero \/ HoldAtRestored \/ RestoreHold \/ ReleaseKEDA \/ DropRecord
  PROVE  Alike(c)'
<1>0. /\ w \in ManagedWorkload /\ tgt \in Target
      /\ pc \in NeedsPause => w.pause # NoPause
  BY DEF TypeInv, TypeOK, PauseInHand, At
<1>1. CASE Update
  BY <1>1 DEF Update, Goto, Alike, Abroad, Within, Brings, Comes, Raises, Lifts
<1>2. CASE CopyRecord
  <2>1. UNCHANGED <<mw, hold, seenMw, took, own>>
    BY <1>2 DEF CopyRecord, caches, history
  <2>2. Comes(c, w.pause.from)
    BY <1>0, <1>2 DEF CopyRecord, NeedsPause, Alike, Within, Brings
  <2>3. tgt' = tgt \/ tgt' = [tgt EXCEPT !.pausedFrom = w.pause.from]
    BY <1>2 DEF CopyRecord
  <2>4. tgt'.replicas = tgt.replicas /\ tgt'.pausedFrom \in {tgt.pausedFrom, w.pause.from}
    BY <1>0, <2>3 DEF Target
  <2>5. Abroad(c)'
    BY <2>1, <2>2, <2>4 DEF Alike, Abroad, Brings, Comes
  <2>6. Quiet
    BY <1>2, GotoQuiet, EndQuiet DEF CopyRecord, Retry, Raises
  <2>7. Within(c)'
    BY <2>6 DEF Alike, Within, Brings, Comes, Quiet, Raises, Lifts
  <2> QED
    BY <2>5, <2>7 DEF Alike
<1>3. CASE HoldAtZero
  <2>1. Abroad(c)'
    BY <1>3 DEF HoldAtZero, Alike, Abroad, Brings, Comes, caches, history
  <2>2. Within(c)'
    BY <1>3, GotoQuiet DEF HoldAtZero, Goto, Alike, Within, Brings, Comes, Raises, Lifts
  <2> QED
    BY <2>1, <2>2 DEF Alike
<1>4. CASE HoldAtRestored \/ RestoreHold
  <2>1. Resumes(n) = c /\ hold' = n
    BY <1>4 DEF HoldAtRestored, RestoreHold, Alike, Within, Abroad, Lifts
  <2>2. Abroad(c)'
    BY <1>4, <2>1 DEF HoldAtRestored, RestoreHold, Alike, Abroad, Brings, Comes, caches, history
  <2>3. Within(c)'
    BY <1>4 DEF HoldAtRestored, RestoreHold, Goto, Alike, Within, Brings, Comes, Raises, Lifts, history
  <2> QED
    BY <2>2, <2>3 DEF Alike
<1>5. CASE ReleaseKEDA
  <2>0. w.pause # NoPause /\ (hold > 0 => Resumes(hold) = c)
    BY <1>0, <1>5 DEF ReleaseKEDA, NeedsPause, HandBack, Alike, Abroad
  <2>1. hold' > 0 => Resumes(hold') = c
    BY <1>0, <1>5, <2>0, RecordBrings DEF ReleaseKEDA, Alike, Within
  <2>2. Abroad(c)'
    BY <1>5, <2>1 DEF ReleaseKEDA, Alike, Abroad, Brings, Comes, caches
  <2>3. Within(c)'
    BY <1>5 DEF ReleaseKEDA, Goto, Alike, Within, Brings, Comes, Raises, Lifts
  <2> QED
    BY <2>2, <2>3 DEF Alike
<1>6. CASE DropRecord
  <2>1. tgt'.replicas = tgt.replicas /\ tgt'.pausedFrom = NoPause
    BY <1>0, <1>6 DEF DropRecord, Target
  <2>2. Abroad(c)'
    BY <1>6, <2>1 DEF DropRecord, Alike, Abroad, Brings, Comes, caches, history
  <2>3. Within(c)'
    BY <1>6 DEF DropRecord, Goto, Alike, Within, Brings, Comes, Raises, Lifts
  <2> QED
    BY <2>2, <2>3 DEF Alike
<1> QED
  BY <1>1, <1>2, <1>3, <1>4, <1>5, <1>6

\* A reconcile's scaling.
LEMMA RescaledTo ==
  ASSUME NEW t \in Target, NEW r \in Replicas
  PROVE  Rescaled(t, r).replicas = r /\ Rescaled(t, r).pausedFrom = t.pausedFrom /\ Rescaled(t, r).exists = t.exists
BY DEF Target, Rescaled

LEMMA ScalesAlike ==
  ASSUME NEW c, Alike(c), TypeInv, ScaleToZero \/ ScaleUp \/ RestoreScale
  PROVE  Alike(c)'
<1>0. /\ w \in ManagedWorkload /\ tgt \in Target /\ tgt.replicas \in Replicas /\ took \in Replicas /\ 0 \in Replicas
      /\ pc \in NeedsPause => w.pause # NoPause
  BY BoundsAssumption DEF TypeInv, TypeOK, PauseInHand, At, Target, Replicas
<1>1. c \in Replicas /\ c > 0 /\ Resumes(c) = c
  <2>1. c \in Replicas /\ Resumes(c) = c
    BY DEF Alike, Abroad
  <2> QED
    BY <2>1, ResumesIs
<1>2. CASE ScaleToZero
  <2>1. UNCHANGED <<mw, hold, seenMw, own>>
    BY <1>2 DEF ScaleToZero, caches
  <2>2. CASE Retry /\ UNCHANGED <<tgt, took>>
    BY <2>1, <2>2 DEF Retry, End, Fresh, Alike, Abroad, Within, Brings, Comes, Raises, Lifts
  <2>3. CASE tgt' = Rescaled(tgt, 0) /\ took' = IF tgt.replicas > 0 THEN tgt.replicas ELSE took
    <3> DEFINE m == [w EXCEPT !.pause.pausedAt = TRUE]
    <3>1. tgt'.replicas = 0 /\ tgt'.pausedFrom = tgt.pausedFrom
      BY <1>0, <2>3, RescaledTo
    <3>2. took' > 0 /\ Resumes(took') = c
      BY <1>0, <2>3 DEF Alike, Abroad, Replicas
    <3>3. Abroad(c)'
      BY <2>1, <3>1, <3>2 DEF Alike, Abroad, Brings, Comes
    <3>4. w.pause # NoPause
      BY <1>0, <1>2 DEF ScaleToZero, NeedsPause
    <3>5. m.pause.from = w.pause.from /\ To("Paused", m).pause = m.pause
      BY <1>0, <3>4 DEF ManagedWorkload, PauseStatus, To
    <3>6. Brings(c, m) /\ Brings(c, To("Paused", m))
      BY <3>4, <3>5 DEF Alike, Within, Brings
    <3>7. WriteThen(To("Paused", m), "again") \/ WriteThen(m, "again") \/ Retry
      BY <1>0, <1>2, <2>3 DEF ScaleToZero
    <3> HIDE DEF m
    <3>8. Brings(c, w') /\ pc' \notin Raises /\ then' \notin Raises
      BY <3>6, <3>7 DEF WriteThen, Retry, End, Fresh, Brings, Raises
    <3> QED
      BY <3>3, <3>8, KeptWithin DEF Alike
  <2> QED
    BY <1>2, <2>2, <2>3 DEF ScaleToZero
<1>3. CASE ScaleUp \/ RestoreScale
  <2>1. UNCHANGED <<mw, hold, seenMw, took, own>>
    BY <1>3 DEF ScaleUp, RestoreScale, caches
  <2>2. n = c /\ took > 0
    BY <1>3 DEF ScaleUp, RestoreScale, Alike, Within, Lifts
  <2>3. CASE Retry /\ UNCHANGED tgt
    BY <2>1, <2>3 DEF Retry, End, Fresh, Alike, Abroad, Within, Brings, Comes, Raises, Lifts
  <2>4. CASE tgt' = Rescaled(tgt, n) /\ (Goto("ready") \/ Goto("release"))
    <3>1. tgt'.replicas = c /\ tgt'.pausedFrom = tgt.pausedFrom
      BY <1>0, <1>1, <2>2, <2>4, RescaledTo
    <3>2. Abroad(c)'
      BY <1>1, <2>1, <3>1 DEF Alike, Abroad, Brings, Comes
    <3>3. Within(c)'
      BY <2>4 DEF Goto, Alike, Within, Brings, Comes, Raises, Lifts
    <3> QED
      BY <3>2, <3>3 DEF Alike
  <2> QED
    BY <1>3, <2>3, <2>4 DEF ScaleUp, RestoreScale
<1> QED
  BY <1>2, <1>3

\* What everyone else does to the target, with its replicas as they were or as it's held.
LEMMA TargetAlike ==
  ASSUME NEW c, Alike(c), NEW t, TgtWritten(t), t.pausedFrom = tgt.pausedFrom,
         \/ t.replicas = tgt.replicas /\ took' = took
         \/ t.replicas > 0 /\ Resumes(t.replicas) = c /\ took' = took
         \/ t.replicas = 0 /\ took' > 0 /\ Resumes(took') = c
  PROVE  Alike(c)'
<1>1. Abroad(c)'
  BY DEF TgtWritten, caches, Alike, Abroad, Brings, Comes
<1>2. Within(c)'
  BY DEF TgtWritten, Alike, Within, Brings, Comes, Raises, Lifts
<1> QED
  BY <1>1, <1>2 DEF Alike

LEMMA WorkloadAlike ==
  ASSUME NEW c, Alike(c), NEW m, MwWritten(m), m.pause = mw.pause \/ m.pause = NoPause
  PROVE  Alike(c)'
<1>1. Abroad(c)'
  BY DEF MwWritten, history, Alike, Abroad, Brings, Comes
<1>2. Within(c)'
  BY DEF MwWritten, history, Alike, Within, Brings, Comes, Raises, Lifts
<1> QED
  BY <1>1, <1>2 DEF Alike

LEMMA OutsideAlike ==
  ASSUME ScaledByNapwakeAlone, NEW c, Alike(c), TypeInv, Catchup \/ Cluster \/ Outside
  PROVE  Alike(c)'
<1>0. /\ mw \in ManagedWorkload /\ tgt \in Target /\ tgt.replicas \in Replicas
      /\ hold \in Holds /\ took \in Replicas /\ "scale" \notin Externals /\ "recreate" \notin Externals
  BY DEF TypeInv, TypeOK, Target, ScaledByNapwakeAlone
<1>1. CASE Catchup
  <2>1. Abroad(c)'
    BY <1>1 DEF Catchup, DeliverWorkload, DeliverTarget, api, history, Alike, Abroad, Brings, Comes
  <2>2. Within(c)'
    BY <1>1 DEF Catchup, DeliverWorkload, DeliverTarget, local, history, Alike, Within, Brings, Comes, Raises, Lifts
  <2> QED
    BY <2>1, <2>2 DEF Alike
<1>2. CASE Fail
  BY <1>2, EndQuiet, QuietAlike DEF Fail, Retry
<1>3. CASE Crash
  <2>1. Abroad(c)'
    BY <1>3 DEF Crash, api, history, Alike, Abroad, Brings, Comes
  <2>2. Within(c)'
    BY <1>3 DEF Crash, Retry, End, Fresh, Within, Brings, Raises, Lifts
  <2> QED
    BY <2>1, <2>2 DEF Alike
<1>4. CASE PodsMove \/ PodsFail \/ Ignore
  <2>1. \/ \E pods : TgtWritten([tgt EXCEPT !.pods = pods])
        \/ TgtWritten([tgt EXCEPT !.ignored = ~@])
    BY <1>4 DEF PodsMove, PodsFail, Ignore
  <2>2. took' = took
    BY <1>4 DEF PodsMove, PodsFail, Ignore
  <2> QED
    BY <1>0, <2>1, <2>2, TargetAlike DEF Target
<1>5. CASE KedaHolds
  <2>1. hold \in Replicas /\ tgt.replicas # hold /\ TgtWritten(Rescaled(tgt, hold)) /\ own = NoHold
    BY <1>0, <1>5 DEF KedaHolds, Holds, Alike, Abroad
  <2>2. Rescaled(tgt, hold).replicas = hold /\ Rescaled(tgt, hold).pausedFrom = tgt.pausedFrom
    BY <1>0, <2>1, RescaledTo
  <2>3. CASE hold > 0
    <3>1. took' = took /\ Resumes(hold) = c
      BY <1>5, <2>3 DEF KedaHolds, Alike, Abroad
    <3> QED
      BY <2>1, <2>2, <2>3, <3>1, TargetAlike
  <2>4. CASE hold = 0
    <3>1. took' = tgt.replicas /\ tgt.replicas > 0
      BY <1>0, <1>5, <2>1, <2>4 DEF KedaHolds, NoHold, Replicas
    <3>2. Resumes(took') = c
      BY <3>1 DEF Alike, Abroad
    <3> QED
      BY <2>1, <2>2, <2>4, <3>1, <3>2, TargetAlike
  <2> QED
    BY <2>1, <2>3, <2>4 DEF Replicas
<1>6. CASE Annotate
  <2>1. \E token : \/ MwWritten([mw EXCEPT !.pauseRequested = token])
                   \/ MwWritten([mw EXCEPT !.wakeRequested = token])
                   \/ MwWritten([mw EXCEPT !.lastActivity = token])
    BY <1>6 DEF Annotate
  <2> QED
    BY <1>0, <2>1, WorkloadAlike DEF ManagedWorkload
<1>7. CASE Edit \/ LoseStatus
  <2>1. \/ MwWritten([mw EXCEPT !.dryRun = ~@]) \/ MwWritten(mw)
        \/ MwWritten([mw EXCEPT !.deleting = TRUE, !.gone = ~mw.finalizer])
        \/ MwWritten([mw EXCEPT !.phase = "New", !.pause = NoPause, !.lastPauseRequest = 0, !.lastWakeRequest = 0])
    BY <1>7 DEF Edit, LoseStatus
  <2> QED
    BY <1>0, <2>1, WorkloadAlike DEF ManagedWorkload
<1>8. ~Scale /\ ~Recreate
  BY <1>0 DEF Scale, Recreate, Spend
<1> QED
  BY <1>1, <1>2, <1>3, <1>4, <1>5, <1>6, <1>7, <1>8 DEF Cluster, Outside

LEMMA AlikeStep ==
  ASSUME ScaledByNapwakeAlone, NEW c, Alike(c), TypeInv, [Next]_vars PROVE Alike(c)'
<1>1. CASE UNCHANGED vars
  <2>1. UNCHANGED <<api, caches, history>> /\ UNCHANGED local
    BY <1>1 DEF vars
  <2>2. Abroad(c)'
    BY <2>1, AbroadStays DEF Alike
  <2>3. Within(c)'
    BY <2>1 DEF local, history, Alike, Within, Brings, Comes, Raises, Lifts
  <2> QED
    BY <2>2, <2>3 DEF Alike
<1>2. CASE \/ Done \/ UpdateConflict \/ EnsureFinalizer \/ TakeOn \/ TargetMissing \/ RecoverPause \/ Recovered
           \/ Ignored \/ HandedBack \/ WakeOnScaleUp \/ ScaledUp \/ StaleForRouting
  BY <1>2, EntryQuiet, QuietAlike
<1>3. CASE \/ Decide \/ ScaledToZero \/ WokenOrStaysPaused \/ PauseRequest \/ IdleClock \/ Settle \/ Resumed
           \/ Delete \/ Deleted
  BY <1>3, DecideQuiet, QuietAlike
<1>4. CASE RecoverFromTarget \/ Prepare \/ Start \/ RecordResumeProgress
  BY <1>4, RecordsAlike
<1>5. CASE Resume \/ Restore
  BY <1>5, SetsOut
<1>6. CASE Update \/ CopyRecord \/ HoldAtZero \/ HoldAtRestored \/ RestoreHold \/ ReleaseKEDA \/ DropRecord
  BY <1>6, WritesAlike
<1>7. CASE ScaleToZero \/ ScaleUp \/ RestoreScale
  BY <1>7, ScalesAlike
<1>8. CASE Catchup \/ Cluster \/ Outside
  BY <1>8, OutsideAlike
<1> QED
  BY <1>1, <1>2, <1>3, <1>4, <1>5, <1>6, <1>7, <1>8 DEF Next, Reconcile

\* The one of a reconcile's writes that leaves the target with more replicas leaves it with c.
LEMMA AlikeRestores ==
  ASSUME NEW c, Alike(c), TypeInv, [Next]_vars PROVE Restores
<1> SUFFICES ASSUME ScalesUp PROVE tgt'.replicas = Resumes(took)
  BY DEF Restores, Resumes
<1>0. /\ tgt \in Target /\ tgt.replicas \in Replicas /\ n \in Replicas /\ 0 \in Replicas
      /\ pc' # pc /\ tgt'.replicas > tgt.replicas
  BY BoundsAssumption DEF TypeInv, TypeOK, Target, ScalesUp, Replicas
<1>1. tgt' # tgt
  BY <1>0 DEF Replicas
<1>2. ~ScaleToZero /\ ~CopyRecord /\ ~DropRecord
  <2>1. ASSUME ScaleToZero PROVE FALSE
    <3>1. tgt'.replicas = 0
      BY <1>0, <1>1, <2>1, RescaledTo DEF ScaleToZero
    <3> QED
      BY <1>0, <3>1 DEF Replicas
  <2>2. ASSUME CopyRecord \/ DropRecord PROVE FALSE
    <3>1. tgt'.replicas = tgt.replicas
      BY <1>0, <1>1, <2>2 DEF CopyRecord, DropRecord, Target
    <3> QED
      BY <1>0, <3>1 DEF Replicas
  <2> QED
    BY <2>1, <2>2
<1>3. ScaleUp \/ RestoreScale
  <2>1. ~UNCHANGED vars /\ ~UNCHANGED api
    BY <1>1 DEF vars, api
  <2>2. ~(\/ Start \/ Done \/ UpdateConflict \/ EnsureFinalizer \/ TakeOn \/ TargetMissing \/ RecoverPause
          \/ RecoverFromTarget \/ Recovered \/ Ignored \/ HandedBack \/ WakeOnScaleUp \/ ScaledUp \/ StaleForRouting)
    BY <2>1 DEF Start, Done, UpdateConflict, EnsureFinalizer, TakeOn, TargetMissing, RecoverPause,
                RecoverFromTarget, Recovered, Ignored, HandedBack, WakeOnScaleUp, ScaledUp, StaleForRouting, Thinks
  <2>3. ~(\/ Decide \/ ScaledToZero \/ WokenOrStaysPaused \/ PauseRequest \/ IdleClock \/ Prepare \/ Resume \/ Settle
          \/ RecordResumeProgress \/ Resumed \/ Restore \/ Delete \/ Deleted)
    BY <2>1 DEF Decide, ScaledToZero, WokenOrStaysPaused, PauseRequest, IdleClock, Prepare, Resume, Settle,
                RecordResumeProgress, Resumed, Restore, Delete, Deleted, Thinks
  <2>4. ~(Update \/ HoldAtZero \/ HoldAtRestored \/ RestoreHold \/ ReleaseKEDA)
    BY <1>1 DEF Update, HoldAtZero, HoldAtRestored, RestoreHold, ReleaseKEDA
  <2>5. ~(Catchup \/ Cluster \/ Outside)
    BY <1>0, <1>1, <2>1 DEF Catchup, DeliverWorkload, DeliverTarget, Cluster, PodsMove, KedaHolds, Outside, Fail, Crash,
         PodsFail, Scale, Ignore, Recreate, Annotate, Edit, LoseStatus, TgtWritten, MwWritten
  <2> QED
    BY <1>2, <2>1, <2>2, <2>3, <2>4, <2>5 DEF Next, Reconcile
<1>4. n = c /\ took > 0 /\ Resumes(took) = c
  BY <1>3 DEF ScaleUp, RestoreScale, Alike, Abroad, Within, Lifts
<1>5. tgt' = Rescaled(tgt, n)
  BY <1>1, <1>3 DEF ScaleUp, RestoreScale
<1> QED
  BY <1>0, <1>4, <1>5, RescaledTo

\* With nobody else scaling it, a workload is brought back with the replicas it was taken down from, within its
\* autoscaler's range, whatever caches lag, writes and statuses are lost, and reconciles are cut short, and
\* whether it's held by KEDA or not (preparePause, Pauser.Resume, Pauser.Restore and recoverPause).
THEOREM RestoresTaken == ASSUME ScaledByNapwakeAlone PROVE Spec => RestoresWhatItTook
<1> DEFINE AlikeInv == TypeInv /\ \E c \in Replicas : Alike(c)
<1>1. Init => AlikeInv
  BY TypeInvInit, AlikeFirst
<1>2. AlikeInv /\ [Next]_vars => AlikeInv'
  <2> SUFFICES ASSUME AlikeInv, [Next]_vars PROVE AlikeInv'
    OBVIOUS
  <2>1. PICK c \in Replicas : Alike(c)
    OBVIOUS
  <2>2. Alike(c)' /\ TypeInv'
    BY <2>1, AlikeStep, TypeInvStep
  <2> QED
    BY <2>2
<1>3. AlikeInv /\ [Next]_vars => Restores
  BY AlikeRestores
<1> QED
  BY <1>1, <1>2, <1>3, PTL DEF Spec, RestoresWhatItTook

=============================================================================
