------------------------------- MODULE IdleClock -------------------------------
(***************************************************************************)
(* The idle clock of one workload: what each check of the operator finds   *)
(* of its use, how it moves the clock, and when the clock running out, or  *)
(* the forecast, or a request, makes the workload Idle.                    *)
(*                                                                         *)
(* The clock moves at every check and is written now and then, so the      *)
(* operator keeps it in memory; another operator knows only what was       *)
(* written, and may have missed activity.  In dry-run, Idle stands for the *)
(* pause it would have made, and otherwise a pause follows, which is the   *)
(* lifecycle's.                                                            *)
(*                                                                         *)
(* Time is counted in minutes, the interval of the checks.  A watch event  *)
(* takes less to reach the operator's cache.                               *)
(***************************************************************************)
EXTENDS Integers

CONSTANTS
  IdleAfter,
  StatusFlush,       \* statusFlushInterval (5)
  Share,             \* the share of IdleAfter a written clock may be behind (10)
  EarlyAfter,        \* how long a pause brought forward must have been idle for (20)
  HoldFor,           \* how long a person's hold lasts
  DryRun,
  MaxTime, Chances,  \* bound time, and what others do
  Others             \* the kinds of thing they do

Assumptions ==
  /\ {IdleAfter, StatusFlush, Share, EarlyAfter, HoldFor} \subseteq Nat \ {0}
  /\ {MaxTime, Chances} \subseteq Nat /\ DryRun \in BOOLEAN

Never == -1
Times == Never..MaxTime
Smaller(m, n) == IF m < n THEN m ELSE n
Larger(m, n) == IF m > n THEN m ELSE n

\* How long a gap between evaluations counts as idle time.
GapTolerance == Smaller(2 + StatusFlush, Larger(2, IdleAfter \div 2))

Sources == {"woke", "unobserved", "annotation", "used"}
Clock == [last : Times, source : Sources, evaluated : Times]
Fresh(t, source) == [last |-> t, source |-> source, evaluated |-> t]

\* The workload's object: its status, and the annotations people set.  "held"
\* says its queries have shown activity since the would-be pause was asked for,
\* "told" which sources the conditions say can be read.
Object ==
  [phase : {"Running", "Idle", "Paused"}, clock : Clock, hash : Nat, began : Times,
   pauses : Nat, slept : Nat, held : BOOLEAN, told : SUBSET {"cpu", "query"},
   stamp : Times, until : Nat]

VARIABLES
  now,
  stored, seen, current,  \* the object, the operator's cache of it, and whether that's current
  memo,                   \* the clock as the operator's last check left it, and an unreported gap
  template,               \* the version of the target's pod template
  chances,                \* what's left of Chances
  used, heldAt, watched, looked, untold, idled   \* what really happened: see below

vars == <<now, stored, seen, current, memo, template, chances, used, heldAt, watched, looked, untold, idled>>
\* used: when a check last found the workload used, or a person stamped it;
\* heldAt: when a person last held it awake;
\* watched: since when the workload has been watched without a gap;
\* looked: when this operator last read every source, or began to look;
\* untold: whether the clock has restarted for a gap no event has told of;
\* idled: how long the workload has been Idle, or was until it wasn't.

Nothing == [clock |-> Fresh(Never, "woke"), gap |-> FALSE]
Forgot == memo = Nothing

TypeOK ==
  /\ now \in 0..MaxTime /\ stored \in Object /\ seen \in Object
  /\ memo \in [clock : Clock, gap : BOOLEAN]
  /\ used \in Times /\ heldAt \in Times /\ watched \in Times /\ looked \in Times
  /\ current \in BOOLEAN /\ untold \in BOOLEAN /\ {template, idled} \subseteq Nat
  /\ chances \in 0..Chances

New ==
  [phase |-> "Running", clock |-> Fresh(0, "woke"), hash |-> 0, began |-> 0, pauses |-> 0, slept |-> 0,
   held |-> FALSE, told |-> {"cpu", "query"}, stamp |-> Never, until |-> 0]

Init ==
  /\ now = 0 /\ stored = New /\ seen = New /\ current = TRUE
  /\ memo = [clock |-> New.clock, gap |-> FALSE]
  /\ template = 0 /\ chances = Chances
  /\ used = 0 /\ heldAt = Never /\ watched = 0 /\ looked = 0 /\ untold = FALSE /\ idled = 0

-----------------------------------------------------------------------------
InWouldBePause == DryRun /\ seen.phase = "Idle"

\* Activity at t moves the clock forward, never back.
RecordActivity(clock, t, source) ==
  IF t > clock.last THEN [clock EXCEPT !.last = t, !.source = source] ELSE clock

\* The clock with what this operator remembers of it.
Remembered ==
  IF Forgot THEN seen.clock
  ELSE [RecordActivity(seen.clock, memo.clock.last, memo.clock.source) EXCEPT
          !.evaluated = Larger(@, memo.clock.evaluated)]

\* Mutants: a clock written by another operator is taken as this one's; one restarts in
\* a would-be pause.
UnwatchedHere == ~InWouldBePause /\ now - Remembered.evaluated > GapTolerance
UnwatchedWhenIdle == Forgot \/ now - Remembered.evaluated > GapTolerance

\* A gap restarts the clock when it's too long, or another operator wrote it.
Unwatched == ~InWouldBePause /\ (Forgot \/ now - Remembered.evaluated > GapTolerance)

\* Mutant: one an earlier check found isn't told of.
GapNow == Unwatched

Gap == ~InWouldBePause /\ (Unwatched \/ memo.gap)

\* A query's activity doesn't end a would-be pause asked for while it showed some.
QueryHeld == InWouldBePause /\ seen.held
Counts(cpu, query) == cpu # "failed" /\ query = "active" /\ ~QueryHeld
Readable(cpu, query) == cpu # "failed" /\ query # "failed"

\* What a check that finds cpu and query, of the object in the cache, makes of the clock.
Observed(cpu, query) ==
  LET watching == IF Unwatched THEN [Remembered EXCEPT !.last = now, !.source = "unobserved"] ELSE Remembered
      rolled == IF template # seen.hash THEN RecordActivity(watching, now, "used") ELSE watching
      stamped == RecordActivity(rolled, Smaller(seen.stamp, now), "annotation")
      busy == cpu = "busy" \/ Counts(cpu, query)
      measured == IF busy THEN RecordActivity(stamped, now, "used") ELSE stamped
  IN  IF Readable(cpu, query) THEN [measured EXCEPT !.evaluated = now] ELSE measured

Told(cpu, query) ==
  IF cpu = "failed" THEN seen.told \ {"cpu"}
  ELSE IF query = "failed" THEN {"cpu"} ELSE {"cpu", "query"}

\* The object as the check leaves it, before it decides anything.
Checked(cpu, query) ==
  [seen EXCEPT
     !.clock = Observed(cpu, query), !.hash = template, !.told = Told(cpu, query),
     !.held = IF QueryHeld /\ Readable(cpu, query) THEN query = "active" ELSE @]

-----------------------------------------------------------------------------
\* What a status write does: nothing, when the object changed since it was read.
Writes(object) ==
  /\ stored' = IF current THEN object ELSE stored
  /\ current' = FALSE
  /\ UNCHANGED seen
Conflicts == ~current

\* Only the clock has moved, and what's written of it isn't far behind.
Behind(object) == object.clock.last - seen.clock.last > Smaller(StatusFlush, IdleAfter \div Share)
FlushDue == now - seen.clock.evaluated >= StatusFlush
OnlyMoved(object) == [object EXCEPT !.clock = seen.clock] = seen
Persist(object) ==
  IF OnlyMoved(object) /\ ~FlushDue /\ ~Behind(object) THEN UNCHANGED <<stored, seen, current>> ELSE Writes(object)

\* Mutant: the time of the last transition isn't set.
Rephased(object, phase) == [object EXCEPT !.phase = phase]

\* The phase changes in a write of its own.
Moved(object, phase) == [object EXCEPT !.phase = phase, !.began = now]

BeginWouldBePause(object, held) ==
  IF DryRun THEN [object EXCEPT !.pauses = @ + 1, !.held = held] ELSE object

\* Mutant: one that a hold ended before any use counts less than nothing.
CountWouldBePause(object) ==
  IF DryRun /\ object.pauses > 0
  THEN [object EXCEPT !.slept = @ + object.clock.last - object.began, !.held = FALSE]
  ELSE object

\* The would-be pause ended when the workload was last used.
EndWouldBePause(object) ==
  IF DryRun /\ object.pauses > 0
  THEN [object EXCEPT !.slept = @ + Larger(object.clock.last - object.began, 0), !.held = FALSE]
  ELSE object

-----------------------------------------------------------------------------
ActiveSinceClockRanOut(object) ==
  IF object.phase = "Running" THEN now < object.clock.last + IdleAfter
  ELSE IF object.clock.source = "annotation" THEN object.clock.last >= object.began
  ELSE object.clock.last > object.began

\* The forecast may bring a Running workload's pause forward.
MayPauseEarly(object) ==
  /\ "forecast" \in Others /\ object.phase = "Running" /\ object.until <= now
  /\ now - object.clock.last >= EarlyAfter

Remember(clock, gap) == memo' = [clock |-> clock, gap |-> gap]

\* What a check really finds.
Finds(cpu, query) ==
  /\ used' = IF cpu = "busy" \/ template # seen.hash \/ Counts(cpu, query) THEN now ELSE used
  /\ looked' = IF Readable(cpu, query) \/ looked = Never THEN now ELSE looked
  /\ watched' = IF ~InWouldBePause /\ (looked = Never \/ (Readable(cpu, query) /\ now - looked > GapTolerance))
                THEN now ELSE watched

\* A source that can't be read leaves it to the next check to decide.
CantTell(object) ==
  /\ Persist(object)
  /\ Remember(object.clock, Gap)
  /\ untold' = (untold \/ Unwatched)

\* The workload is up for its own activity, or has been since it went Idle.
StaysUp(object) ==
  LET ends == object.phase = "Idle"
      running == Moved(IF Gap THEN object ELSE EndWouldBePause(object), "Running")
      tells == Gap /\ ~(ends /\ Conflicts)
  IN
  /\ object.until > now \/ ActiveSinceClockRanOut(object)
  /\ IF ends THEN Writes(running) ELSE Persist(object)
  /\ Remember(object.clock, Gap /\ ~tells)
  /\ untold' = ((untold \/ Unwatched) /\ ~tells)

\* The clock has run out, or the forecast brings the pause forward; or the
\* forecast, or a dependent, holds it back.
RunsOut(object, early) ==
  /\ IF early THEN MayPauseEarly(object) ELSE object.until <= now /\ ~ActiveSinceClockRanOut(object)
  /\ IF object.phase = "Running"
     THEN Writes(Moved(BeginWouldBePause(object, FALSE), "Idle"))
     ELSE Persist(object)
  /\ Remember(object.clock, Gap)
  /\ untold' = (untold \/ Unwatched)
HeldBack(object) ==
  /\ object.until <= now /\ ~ActiveSinceClockRanOut(object)
  /\ Persist(object)
  /\ Remember(object.clock, Gap)
  /\ untold' = (untold \/ Unwatched)

Check(cpu, query) ==
  /\ seen.phase # "Paused"
  /\ Finds(cpu, query)
  /\ \E object \in {Checked(cpu, query)} :
       IF Readable(cpu, query)
       THEN \/ StaysUp(object)
            \/ RunsOut(object, FALSE)
            \/ RunsOut(object, TRUE)
            \/ HeldBack(object)
       ELSE CantTell(object)
  /\ UNCHANGED <<now, template, chances, heldAt, idled>>

\* A pause asked for begins a would-be pause, whatever the clock says.
Requested(query) ==
  /\ "request" \in Others /\ chances > 0 /\ chances' = chances - 1
  /\ DryRun /\ seen.phase = "Running" /\ seen.until <= now
  /\ Writes(Moved(BeginWouldBePause(seen, query = "active"), "Idle"))
  /\ UNCHANGED <<now, memo, template, used, heldAt, watched, looked, untold, idled>>

-----------------------------------------------------------------------------
\* The lifecycle pauses an Idle workload, and wakes it with a new clock.
Pauses ==
  /\ ~DryRun /\ stored.phase = "Idle"
  /\ stored' = [stored EXCEPT !.phase = "Paused"] /\ current' = FALSE
  /\ UNCHANGED <<now, seen, memo, template, chances, used, heldAt, watched, looked, untold, idled>>
Wakes ==
  /\ seen.phase = "Paused"
  /\ Writes(Moved([seen EXCEPT !.clock = Fresh(now, "woke")], "Running"))
  /\ Remember(Fresh(now, "woke"), FALSE)
  /\ watched' = now /\ looked' = now /\ untold' = FALSE /\ used' = now
  /\ UNCHANGED <<now, template, chances, heldAt, idled>>

Refill ==
  /\ ~current /\ seen' = stored /\ current' = TRUE
  /\ UNCHANGED <<now, stored, memo, template, chances, used, heldAt, watched, looked, untold, idled>>

\* Another operator takes over, from a fresh list.
Restart ==
  /\ "restart" \in Others /\ chances > 0 /\ chances' = chances - 1
  /\ memo' = Nothing /\ looked' = Never
  /\ seen' = stored /\ current' = TRUE
  /\ UNCHANGED <<now, stored, template, used, heldAt, watched, untold, idled>>

\* A person, or a tool of theirs, stamps the workload as used now, holds it
\* awake for a while, or deploys it.
Stamp ==
  /\ "stamp" \in Others /\ chances > 0 /\ chances' = chances - 1
  /\ stored' = [stored EXCEPT !.stamp = now] /\ current' = FALSE
  /\ used' = now
  /\ UNCHANGED <<now, seen, memo, template, heldAt, watched, looked, untold, idled>>
Hold ==
  /\ "hold" \in Others /\ chances > 0 /\ chances' = chances - 1
  /\ stored' = [stored EXCEPT !.until = now + HoldFor] /\ current' = FALSE
  /\ heldAt' = now
  /\ UNCHANGED <<now, seen, memo, template, used, watched, looked, untold, idled>>
Deploy ==
  /\ "deploy" \in Others /\ chances > 0 /\ chances' = chances - 1
  /\ template' = template + 1
  /\ UNCHANGED <<now, stored, seen, current, memo, used, heldAt, watched, looked, untold, idled>>

Tick ==
  /\ now < MaxTime /\ current
  /\ now' = now + 1
  /\ idled' = IF stored.phase = "Idle" THEN idled + 1 ELSE 0
  /\ UNCHANGED <<stored, seen, current, memo, template, chances, used, heldAt, watched, looked, untold>>

\* Of a target that can't be read, its queries aren't asked.
Next ==
  \/ Check("failed", "failed")
  \/ \E cpu \in {"busy", "quiet"}, query \in {"active", "quiet", "failed"} : Check(cpu, query)
  \/ \E query \in {"active", "quiet", "failed"} : Requested(query)
  \/ Pauses \/ Wakes \/ Refill \/ Restart \/ Stamp \/ Hold \/ Deploy \/ Tick

Spec == Init /\ [][Next]_vars

-----------------------------------------------------------------------------
\* A check makes the workload Idle, as no request does.
IdledByClock == stored.phase = "Running" /\ stored'.phase = "Idle" /\ chances' = chances
Floor == IF "forecast" \in Others THEN Smaller(EarlyAfter, IdleAfter) ELSE IdleAfter

\* A workload goes Idle only once it has been unused for idleAfter, as far as
\* anyone could see, and watched for as long: whatever an operator saw and
\* didn't write, or missed, or couldn't read (activity.go:187-277, 302-349).
PausesLate == IdledByClock => now - used' >= Floor /\ now - watched' >= Floor
NeverPausedEarly == [][PausesLate]_vars

\* Nor does it idleAfter after its clock restarted for a gap nothing told of
\* (activity.go:85-88, 963-969).
PausesTold == IdledByClock => ~(untold' /\ stored'.clock.source = "unobserved")
GapTold == [][PausesTold]_vars

\* Only what wakes a paused workload ends a would-be pause: use, or a hold, since
\* it began, and neither a gap in watching nor a query that showed activity
\* as it was asked for (activity.go:205-208, 943-961; dryrun.go:76-89).
EndsByUse == DryRun /\ stored.phase = "Idle" /\ stored'.phase = "Running" => Larger(used', heldAt') >= stored.began

\* What dry-run says the workload would have slept is time it was Idle for, counted
\* once as its would-be pause ends (dryrun.go:91-133).
CountsIdleTime == stored'.slept > stored.slept => stored.phase = "Idle" /\ stored'.slept - stored.slept <= idled
WouldBePausesCounted == [][EndsByUse /\ CountsIdleTime]_vars
================================================================================
