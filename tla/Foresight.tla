------------------------------- MODULE Foresight -------------------------------
(***************************************************************************)
(* The forecast of one workload and what is done by it: the looks that     *)
(* make up each hour it is taught (src/internal/controller/automation.go,  *)
(* Hour.Look and Whole), what of the use they see counts as demand, and    *)
(* the pauses it holds off and brings forward and the wakes it makes ahead *)
(* (forecast/rules.go, with activity.go's clock).                          *)
(*                                                                         *)
(* Time is in looks, a few of them an hour.  What is forecast of each hour *)
(* to come is any, and any other once an hour has been taught.             *)
(***************************************************************************)
EXTENDS Integers, FiniteSets, FiniteSetsExt

CONSTANTS
  Hour,       \* looks in an hour
  Lead,       \* AutoResumeLead, which is ResumeWarmup too
  Gap,        \* unobservedGap
  IdleAfter,  \* spec.idlePolicy.idleAfter
  EarlyIdle,  \* EarlyPauseIdle
  EarlyHours, \* EarlyPauseHours
  MaxTime,    \* when a run ends
  Backoff     \* whether a pause may be held off by GitOps once it's decided

Never == -1
Assumptions ==
  /\ {Hour, IdleAfter, EarlyIdle, EarlyHours} \subseteq Nat \ {0} /\ {Lead, Gap, MaxTime} \subseteq Nat
  /\ Lead < Hour /\ Backoff \in BOOLEAN

VARIABLES
  now,
  expect,   \* Expect, by the hour: whether there's demand at the threshold, less, or nothing to say
  phase,    \* status.phase
  woke,     \* status.lastActedAt of its last wake
  active,   \* status.activity.lastActivityTime
  source,   \* whether what that is of is use
  seen,     \* the engineRegistry's Hour under way: Start, first, last, whether its Peak is busy, and blind
  reason,   \* status.lastTransitionReason
  paused,   \* when it was last decided, or begun, to pause
  changed,  \* when what is forecast last changed
  used,     \* the hours it was really used in, or asked for, of those not yet taught
  taught    \* of the hour last taught, whether it was busy and whether it was used

vars == <<now, expect, phase, woke, active, source, seen, reason, paused, changed, used, taught>>

HourOf(t) == t \div Hour
HourStart(t) == Hour * HourOf(t)
Hours == 0..(HourOf(MaxTime) + 1)
Demands == {"busy", "quiet", "none"}
NoHour == [start |-> Never, first |-> 0, last |-> 0, busy |-> FALSE, blind |-> FALSE]
Nothing == [busy |-> FALSE, used |-> FALSE]

TypeOK ==
  /\ now \in 0..(MaxTime + 1) /\ expect \in [Hours -> Demands]
  /\ phase \in {"Running", "Idle", "Pausing", "Paused", "Resuming"}
  /\ reason \in {"none", "idle", "activity", "autoResume"}
  /\ {woke, active, paused, changed} \subseteq Never..MaxTime /\ source \in BOOLEAN /\ used \subseteq Hours
  /\ seen \in [start : Never..MaxTime, first : 0..MaxTime, last : 0..MaxTime, busy : BOOLEAN, blind : BOOLEAN]
  /\ taught \in [busy : BOOLEAN, used : BOOLEAN]

\* What is forecast of the hours already over, or past the last, makes no difference.
Forecasts(t) == {f \in [Hours -> Demands] : \A h \in Hours : h < HourOf(t) \/ h = Max(Hours) => f[h] = "none"}

Init ==
  /\ now = 0 /\ expect \in Forecasts(0) /\ phase \in {"Running", "Paused"} /\ woke = Never
  /\ active = 0 /\ source = FALSE /\ seen = NoHour /\ reason = "none" /\ paused = Never /\ changed = Never
  /\ used = {} /\ taught = Nothing

-----------------------------------------------------------------------------
(* The rules. *)

Expected(f, h) == IF h \in Hours THEN f[h] ELSE "none"
HoldThisHour(f, t) == Expected(f, HourOf(t)) = "busy"
HoldPause(f, t) == "busy" \in {Expected(f, HourOf(t)), Expected(f, HourOf(t) + 1)}
WakeAhead(f, t) ==
  \/ Expected(f, HourOf(t)) = "busy"
  \/ HourStart(t) + Hour - t <= Lead /\ Expected(f, HourOf(t) + 1) = "busy"
PauseEarly(f, t, at, pauseAt) ==
  LET hours == Max({EarlyHours, HourOf(pauseAt) - HourOf(t) + 1})
  IN t - at >= EarlyIdle /\ t < pauseAt /\ \A h \in 0..(hours - 1) : Expected(f, HourOf(t) + h) = "quiet"

\* AwakeDemand: none while it warms up, and then by its CPU or by another source since the later of the
\* hour's start and its warm-up's end.
Warming(t) == woke # Never /\ t < woke + Lead
UsedSince(t) == source /\ active >= t
DemandOfHour(t, cpu) == ~Warming(t) /\ (cpu \/ UsedSince(HourStart(t)))
AwakeDemand(t, cpu) ==
  /\ ~Warming(t)
  /\ cpu \/ UsedSince(IF woke = Never THEN HourStart(t) ELSE Max({HourStart(t), woke + Lead}))

-----------------------------------------------------------------------------
(* A look: what it adds to the hour under way, and what it teaches once that is over. *)

Look(t, demand, visible) ==
  IF seen.start = HourStart(t)
    THEN [seen EXCEPT !.last = t, !.busy = @ \/ demand, !.blind = @ \/ ~visible]
    ELSE [start |-> HourStart(t), first |-> t, last |-> t, busy |-> demand, blind |-> ~visible]
Whole == ~seen.blind /\ seen.first - seen.start <= Gap /\ seen.start + Hour - seen.last <= Gap
Over(t) == seen.start # Never /\ seen.start < HourStart(t)

\* What is forecast of the hours still to come.
Ahead(f) == [h \in Hours |-> IF h < HourOf(now) THEN "none" ELSE f[h]]
\* A look, of use or none.  A whole hour that is over is taught, and the forecast may be any after.
SeeDemand(demand, visible, use) ==
  /\ seen' = Look(now, demand, visible)
  /\ used' = {h \in used : h >= HourOf(now)} \cup (IF use THEN {HourOf(now)} ELSE {})
  /\ IF Over(now) /\ Whole
       THEN /\ taught' = [busy |-> seen.busy, used |-> HourOf(seen.start) \in used]
            /\ expect' \in Forecasts(now)
            /\ changed' = IF expect' = Ahead(expect) THEN changed ELSE now
       ELSE expect' = Ahead(expect) /\ UNCHANGED <<taught, changed>>

Tick == now <= MaxTime /\ now' = now + 1

-----------------------------------------------------------------------------
(* An awake workload's look (reconcileAutomation, reconcileIdleClock). *)

\* Its CPU may be above the threshold, by use or as it starts; and another source may show use.
Active(use, cpu) ==
  IF use \/ cpu THEN active' = now /\ source' = TRUE ELSE UNCHANGED <<active, source>>

Begin(why) ==
  /\ phase' \in IF Backoff THEN {"Idle", "Pausing"} ELSE {"Pausing"}
  /\ reason' = why /\ paused' = now
Stay == UNCHANGED <<phase, reason, paused>>

\* Running: the clock runs out, or the forecast brings the pause forward, and doesn't hold it off.
WhileRunning(canWake) ==
  LET pauseAt == active' + IdleAfter
      early == canWake /\ PauseEarly(expect', now, active', pauseAt)
  IN IF (now >= pauseAt \/ early) /\ ~HoldPause(expect', now) THEN Begin("idle") ELSE Stay
\* Idle: the pause is decided, and waits for the GitOps tool's back-off to end.
WhileIdle ==
  IF active' > paused
    THEN phase' = "Running" /\ reason' = "activity" /\ UNCHANGED paused
    ELSE \/ UNCHANGED <<phase, reason, paused>>
         \/ phase' = "Pausing" /\ paused' = now /\ UNCHANGED reason

LookAwake(use, cpu, canWake) ==
  /\ phase \in {"Running", "Idle"}
  /\ cpu => use \/ Warming(now)
  /\ SeeDemand(AwakeDemand(now, cpu), TRUE, use)
  /\ Active(use, cpu)
  /\ IF phase = "Running" THEN WhileRunning(canWake) ELSE WhileIdle
  /\ UNCHANGED woke
  /\ Tick

(* A paused one's (reconcileWake): a request that waits shows demand, and none, while a request would have
   woken it, shows there is none. *)
LookPaused(use, routed) ==
  /\ phase = "Paused"
  /\ SeeDemand(use, use \/ routed, use)
  /\ IF use
       THEN phase' = "Resuming" /\ reason' = "activity"
       ELSE IF WakeAhead(expect', now)
         THEN phase' = "Resuming" /\ reason' = "autoResume"
         ELSE UNCHANGED <<phase, reason>>
  /\ UNCHANGED <<woke, active, source, paused>>
  /\ Tick

(* What goes by without a look: the steps of a pause and of a resume, at whose end it's acted on and its
   clock starts again; and what an operator that dies, or is slow, doesn't see. *)
Unseen(use) ==
  /\ used' = used \cup (IF use THEN {HourOf(now)} ELSE {})
  /\ UNCHANGED <<taught, expect, changed>>
Midway(use) ==
  /\ phase \in {"Pausing", "Resuming"}
  /\ Unseen(use)
  /\ UNCHANGED <<phase, woke, active, source, seen, reason, paused>>
  /\ Tick
PauseDone ==
  /\ phase = "Pausing" /\ phase' = "Paused"
  /\ UNCHANGED <<now, expect, woke, active, source, seen, reason, paused, changed, used, taught>>
ResumeDone ==
  /\ phase = "Resuming" /\ phase' = "Running" /\ now <= MaxTime
  /\ woke' = now /\ active' = now /\ source' = FALSE
  /\ UNCHANGED <<now, expect, seen, reason, paused, changed, used, taught>>
Missed(use, restarts) ==
  /\ phase \notin {"Pausing", "Resuming"}
  /\ Unseen(use)
  /\ seen' = IF restarts THEN NoHour ELSE seen
  /\ UNCHANGED <<phase, woke, active, source, reason, paused>>
  /\ Tick

Next ==
  \/ \E use, cpu, canWake \in BOOLEAN : LookAwake(use, cpu, canWake)
  \/ \E use, routed \in BOOLEAN : LookPaused(use, routed)
  \/ \E use \in BOOLEAN : Midway(use)
  \/ PauseDone
  \/ ResumeDone
  \/ \E use, restarts \in BOOLEAN : Missed(use, restarts)
Spec == Init /\ [][Next]_vars

-----------------------------------------------------------------------------
\* An hour is taught to have been busy only if someone used it then or asked for it: never by what a
\* workload does as it starts, or the hour an autoResume wake lands in would be forecast busy a week on, and
\* the one before it a week after that (AwakeDemand).
TaughtByUse == taught.busy => taught.used

\* A workload its clock or the forecast pauses isn't woken ahead by what was forecast then: it sleeps
\* out the hour it's paused in and all but the lead of the next (HoldPause, PauseEarly, WakeAhead).
WakesBack ==
  phase = "Paused" /\ phase' = "Resuming" /\ reason' = "autoResume" /\ paused # Never /\ changed' <= paused
    => now > paused + Hour - Lead
NotWokenStraightBack == [][WakesBack]_vars
================================================================================
