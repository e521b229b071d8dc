--------------------------- MODULE IdleClockProofs ---------------------------
(***************************************************************************)
(* Theorems about IdleClock, for every value of its constants.             *)
(***************************************************************************)
EXTENDS IdleClock, TLAPS

-----------------------------------------------------------------------------
(* Clocks. *)

LEMMA ToleranceTyped ==
  ASSUME Assumptions
  PROVE  /\ GapTolerance \in Nat
         /\ IdleAfter > 2 => GapTolerance < IdleAfter
         /\ GapTolerance <= 2 + StatusFlush
<1>1. IdleAfter \in Nat \ {0} /\ StatusFlush \in Nat \ {0} /\ IdleAfter \div 2 \in Nat /\ IdleAfter \div 2 <= IdleAfter
  BY DEF Assumptions
<1>2. IdleAfter > 2 => IdleAfter \div 2 < IdleAfter
  BY <1>1
<1> QED
  BY <1>1, <1>2 DEF GapTolerance, Smaller, Larger

LEMMA RecordActivityIs ==
  ASSUME NEW clock \in Clock, NEW t \in Times, NEW source \in Sources
  PROVE  /\ RecordActivity(clock, t, source) \in Clock
         /\ RecordActivity(clock, t, source).last = Larger(clock.last, t)
         /\ RecordActivity(clock, t, source).evaluated = clock.evaluated
<1>1. clock.last \in Int /\ t \in Int
  BY DEF Clock, Times
<1>2. CASE t > clock.last
  <2>1. RecordActivity(clock, t, source) = [clock EXCEPT !.last = t, !.source = source]
    BY <1>2 DEF RecordActivity
  <2>2. RecordActivity(clock, t, source) = [last |-> t, source |-> source, evaluated |-> clock.evaluated]
    BY <2>1 DEF Clock
  <2> QED
    BY <1>1, <1>2, <2>2 DEF Clock, Larger
<1>3. CASE ~(t > clock.last)
  BY <1>1, <1>3 DEF RecordActivity, Larger
<1> QED
  BY <1>2, <1>3

LEMMA RememberedIs ==
  ASSUME TypeOK
  PROVE  /\ Remembered \in Clock
         /\ Forgot => Remembered = seen.clock
         /\ ~Forgot => /\ Remembered.last = Larger(seen.clock.last, memo.clock.last)
                       /\ Remembered.evaluated = Larger(seen.clock.evaluated, memo.clock.evaluated)
<1>1. seen.clock \in Clock /\ memo.clock \in Clock
  BY DEF TypeOK, Object
<1>2. memo.clock.last \in Times /\ memo.clock.source \in Sources
  BY <1>1 DEF Clock
<1> DEFINE r == RecordActivity(seen.clock, memo.clock.last, memo.clock.source)
<1>3. r \in Clock /\ r.last = Larger(seen.clock.last, memo.clock.last) /\ r.evaluated = seen.clock.evaluated
  BY <1>1, <1>2, RecordActivityIs
<1>4. Larger(r.evaluated, memo.clock.evaluated) \in Times
  BY <1>1, <1>3 DEF Clock, Times, Larger
<1>5. ~Forgot => Remembered = [r EXCEPT !.evaluated = Larger(r.evaluated, memo.clock.evaluated)]
  BY DEF Remembered
<1>6. Forgot => Remembered = seen.clock
  BY DEF Remembered
<1> HIDE DEF r
<1> QED
  BY <1>1, <1>3, <1>4, <1>5, <1>6 DEF Clock

\* Nothing that happened is ahead of now, and what the operator remembers isn't blank.
NoneAhead ==
  /\ stored.clock.last <= now /\ stored.clock.evaluated <= now
  /\ seen.clock.last <= now /\ seen.clock.evaluated <= now
  /\ memo.clock.last <= now /\ memo.clock.evaluated <= now
  /\ stored.stamp <= now /\ seen.stamp <= now /\ used <= now /\ watched <= now /\ looked <= now
  /\ stored.clock.last >= 0 /\ seen.clock.last >= 0 /\ (memo = Nothing \/ memo.clock.last >= 0)

\* Of time, a check moves the clock to now for whatever it finds, and otherwise never back.
LEMMA ObservedIs ==
  ASSUME Assumptions, TypeOK, NoneAhead, NEW cpu, NEW query
  PROVE  /\ Observed(cpu, query) \in Clock
         /\ Observed(cpu, query).last <= now
         /\ Observed(cpu, query).last >= Remembered.last
         /\ Observed(cpu, query).last >= Smaller(seen.stamp, now)
         /\ Unwatched \/ template # seen.hash \/ cpu = "busy" \/ Counts(cpu, query) => Observed(cpu, query).last = now
         /\ Observed(cpu, query).evaluated = IF Readable(cpu, query) THEN now ELSE Remembered.evaluated
<1>1. now \in Times /\ now \in Int /\ seen.stamp \in Times /\ Smaller(seen.stamp, now) \in Times /\ Smaller(seen.stamp, now) <= now
  BY DEF TypeOK, Object, Times, Never, Smaller, Assumptions
<1>2. Remembered \in Clock /\ Remembered.last \in Int /\ Remembered.last <= now
  BY RememberedIs DEF TypeOK, NoneAhead, Object, Clock, Times, Larger
<1>3. {"unobserved", "used", "annotation"} \subseteq Sources
  BY DEF Sources
<1> DEFINE
  watching == IF Unwatched THEN [Remembered EXCEPT !.last = now, !.source = "unobserved"] ELSE Remembered
  rolled == IF template # seen.hash THEN RecordActivity(watching, now, "used") ELSE watching
  stamped == RecordActivity(rolled, Smaller(seen.stamp, now), "annotation")
  busy == cpu = "busy" \/ Counts(cpu, query)
  measured == IF busy THEN RecordActivity(stamped, now, "used") ELSE stamped
<1>4. Observed(cpu, query) = IF Readable(cpu, query) THEN [measured EXCEPT !.evaluated = now] ELSE measured
  BY DEF Observed
<1>5. /\ watching \in Clock /\ watching.last <= now /\ watching.last >= Remembered.last
      /\ Unwatched => watching.last = now
      /\ watching.evaluated = Remembered.evaluated
  <2>1. CASE Unwatched
    <3>1. watching = [last |-> now, source |-> "unobserved", evaluated |-> Remembered.evaluated]
      BY <1>2, <2>1 DEF Clock
    <3> QED
      BY <1>1, <1>2, <1>3, <3>1 DEF Clock
  <2>2. CASE ~Unwatched
    BY <1>2, <2>2
  <2> QED
    BY <2>1, <2>2
<1> HIDE DEF watching
<1>6. /\ rolled \in Clock /\ rolled.last <= now /\ rolled.last >= watching.last
      /\ template # seen.hash => rolled.last = now
      /\ rolled.evaluated = Remembered.evaluated
  BY <1>1, <1>3, <1>5, RecordActivityIs DEF Clock, Times, Larger
<1> HIDE DEF rolled
<1>7. /\ stamped \in Clock /\ stamped.last <= now /\ stamped.last >= rolled.last
      /\ stamped.last >= Smaller(seen.stamp, now)
      /\ stamped.evaluated = Remembered.evaluated
  BY <1>1, <1>3, <1>6, RecordActivityIs DEF Clock, Times, Larger
<1> HIDE DEF stamped
<1>8. /\ measured \in Clock /\ measured.last <= now /\ measured.last >= stamped.last
      /\ busy => measured.last = now
      /\ measured.evaluated = Remembered.evaluated
  BY <1>1, <1>3, <1>7, RecordActivityIs DEF Clock, Times, Larger
<1> HIDE DEF measured
<1>9. /\ Observed(cpu, query) \in Clock /\ Observed(cpu, query).last = measured.last
      /\ Observed(cpu, query).evaluated = IF Readable(cpu, query) THEN now ELSE Remembered.evaluated
  <2>1. CASE Readable(cpu, query)
    <3>1. Observed(cpu, query) = [last |-> measured.last, source |-> measured.source, evaluated |-> now]
      BY <1>4, <1>8, <2>1 DEF Clock
    <3> QED
      BY <1>1, <1>8, <2>1, <3>1 DEF Clock
  <2>2. CASE ~Readable(cpu, query)
    BY <1>4, <1>8, <2>2
  <2> QED
    BY <2>1, <2>2
<1>10. /\ measured.last \in Int /\ stamped.last \in Int /\ rolled.last \in Int /\ watching.last \in Int
       /\ Smaller(seen.stamp, now) \in Int
  BY <1>1, <1>5, <1>6, <1>7, <1>8 DEF Clock, Times
<1> QED
  BY <1>1, <1>2, <1>5, <1>6, <1>7, <1>8, <1>9, <1>10

LEMMA GapTyped ==
  ASSUME Assumptions, TypeOK
  PROVE  Unwatched \in BOOLEAN /\ Gap \in BOOLEAN
BY DEF Gap, Unwatched, InWouldBePause, TypeOK, Assumptions

\* What a check leaves of the object differs only in the clock, the template and what's told of sources.
LEMMA CheckedIs ==
  ASSUME Assumptions, TypeOK, NoneAhead, NEW cpu, NEW query
  PROVE  /\ Checked(cpu, query) \in Object
         /\ Checked(cpu, query).clock = Observed(cpu, query)
         /\ Checked(cpu, query).phase = seen.phase /\ Checked(cpu, query).stamp = seen.stamp
         /\ Checked(cpu, query).until = seen.until /\ Checked(cpu, query).began = seen.began
<1>1. Observed(cpu, query) \in Clock
  BY ObservedIs
<1>2. seen \in Object /\ template \in Nat
  BY DEF TypeOK
<1>3. Told(cpu, query) \in SUBSET {"cpu", "query"}
  BY <1>2 DEF Told, Object
<1> DEFINE h == IF QueryHeld /\ Readable(cpu, query) THEN query = "active" ELSE seen.held
<1>4. h \in BOOLEAN
  BY <1>2 DEF Object
<1>5. Checked(cpu, query) = [seen EXCEPT !.clock = Observed(cpu, query), !.hash = template, !.told = Told(cpu, query), !.held = h]
  BY DEF Checked
<1> HIDE DEF h
<1>6. Checked(cpu, query) =
        [phase |-> seen.phase, clock |-> Observed(cpu, query), hash |-> template, began |-> seen.began,
         pauses |-> seen.pauses, slept |-> seen.slept, held |-> h, told |-> Told(cpu, query),
         stamp |-> seen.stamp, until |-> seen.until]
  BY <1>2, <1>5 DEF Object
<1> QED
  BY <1>1, <1>2, <1>3, <1>4, <1>6 DEF Object

-----------------------------------------------------------------------------
(* What a check does. *)

\* An object that differs from another only in its phase and would-be pause.
LikeBut(object, as, phase) ==
  /\ object \in Object /\ object.clock = as.clock /\ object.stamp = as.stamp /\ object.phase = phase

LEMMA MovedIs ==
  ASSUME TypeOK, NEW object \in Object, NEW phase \in {"Running", "Idle", "Paused"}
  PROVE  LikeBut(Moved(object, phase), object, phase)
<1>0. Moved(object, phase) = [object EXCEPT !.phase = phase, !.began = now]
  BY DEF Moved
<1>1. Moved(object, phase) =
        [phase |-> phase, clock |-> object.clock, hash |-> object.hash, began |-> now,
         pauses |-> object.pauses, slept |-> object.slept, held |-> object.held, told |-> object.told,
         stamp |-> object.stamp, until |-> object.until]
  BY <1>0 DEF Object
<1>2. now \in Times
  BY DEF TypeOK, Times, Never
<1> QED
  BY <1>1, <1>2 DEF Object, LikeBut

LEMMA BeginWouldBePauseIs ==
  ASSUME NEW object \in Object, NEW held \in BOOLEAN
  PROVE  LikeBut(BeginWouldBePause(object, held), object, object.phase)
<1>1. CASE DryRun
  <2>1. BeginWouldBePause(object, held) =
          [phase |-> object.phase, clock |-> object.clock, hash |-> object.hash, began |-> object.began,
           pauses |-> object.pauses + 1, slept |-> object.slept, held |-> held, told |-> object.told,
           stamp |-> object.stamp, until |-> object.until]
    BY <1>1 DEF BeginWouldBePause, Object
  <2> QED
    BY <2>1 DEF Object, LikeBut
<1>2. CASE ~DryRun
  BY <1>2 DEF BeginWouldBePause, LikeBut
<1> QED
  BY <1>1, <1>2

LEMMA EndWouldBePauseIs ==
  ASSUME NEW object \in Object
  PROVE  LikeBut(EndWouldBePause(object), object, object.phase)
<1>1. CASE DryRun /\ object.pauses > 0
  <2> DEFINE slept == object.slept + Larger(object.clock.last - object.began, 0)
  <2>1. EndWouldBePause(object) = [object EXCEPT !.slept = slept, !.held = FALSE]
    BY <1>1 DEF EndWouldBePause, Object
  <2>2. object.clock \in Clock /\ object.began \in Int /\ object.slept \in Nat
    BY DEF Object, Times
  <2>3. object.clock.last \in Int
    BY <2>2 DEF Clock, Times
  <2>4. slept \in Nat
    BY <2>2, <2>3 DEF Larger
  <2> HIDE DEF slept
  <2>5. EndWouldBePause(object) =
          [phase |-> object.phase, clock |-> object.clock, hash |-> object.hash, began |-> object.began,
           pauses |-> object.pauses, slept |-> slept, held |-> FALSE, told |-> object.told,
           stamp |-> object.stamp, until |-> object.until]
    BY <2>1 DEF Object
  <2> QED
    BY <2>4, <2>5 DEF Object, LikeBut
<1>2. CASE ~(DryRun /\ object.pauses > 0)
  BY <1>2 DEF EndWouldBePause, LikeBut
<1> QED
  BY <1>1, <1>2

\* What's written, if anything is, and what's told of a gap.
Leaves(cpu, query, object, tells) ==
  /\ object \in Object /\ object.clock = Observed(cpu, query) /\ object.stamp = seen.stamp
  /\ seen' = seen
  /\ \/ stored' = stored /\ current' = current
     \/ stored' = (IF current THEN object ELSE stored) /\ current' = FALSE
  /\ memo' = [clock |-> Observed(cpu, query), gap |-> Gap /\ ~tells]
  /\ untold' = ((untold \/ Unwatched) /\ ~tells)

\* The three ways it can go: it stays up, it has run out, or nothing is decided.
Decides(cpu, query, object, tells) ==
  \/ /\ Readable(cpu, query) /\ object.phase = IF seen.phase = "Idle" THEN "Running" ELSE seen.phase
     /\ tells <=> Gap /\ ~(seen.phase = "Idle" /\ ~current)
     /\ seen.phase = "Idle" => current' = FALSE /\ stored' = IF current THEN object ELSE stored
  \/ /\ Readable(cpu, query) /\ object.phase \in {seen.phase, "Idle"} /\ ~tells
     /\ seen.phase = "Running" => now - Observed(cpu, query).last >= Floor
  \/ ~Readable(cpu, query) /\ object.phase = seen.phase /\ ~tells

LEMMA LateEnough ==
  ASSUME Assumptions, TypeOK, NEW object \in Object, object.phase = "Running",
         ~ActiveSinceClockRanOut(object) \/ MayPauseEarly(object)
  PROVE  now - object.clock.last >= Floor
<1>1. /\ now \in Int /\ IdleAfter \in Int /\ EarlyAfter \in Int /\ object.clock \in Clock
  BY DEF Assumptions, TypeOK, Object
<1>2. object.clock.last \in Int
  BY <1>1 DEF Clock, Times
<1>3. CASE ~ActiveSinceClockRanOut(object)
  BY <1>1, <1>2, <1>3 DEF ActiveSinceClockRanOut, Floor, Smaller
<1>4. CASE MayPauseEarly(object)
  BY <1>1, <1>2, <1>4 DEF MayPauseEarly, Floor, Smaller
<1> QED
  BY <1>3, <1>4

LEMMA CheckIs ==
  ASSUME Assumptions, TypeOK, NoneAhead, NEW cpu, NEW query, Check(cpu, query)
  PROVE  /\ seen.phase # "Paused" /\ Finds(cpu, query)
         /\ UNCHANGED <<now, template, chances, heldAt, idled>>
         /\ \E object \in Object, tells \in BOOLEAN :
              Leaves(cpu, query, object, tells) /\ Decides(cpu, query, object, tells)
<1> DEFINE checked == Checked(cpu, query)
<1>1. /\ checked \in Object /\ checked.clock = Observed(cpu, query) /\ checked.phase = seen.phase
      /\ checked.stamp = seen.stamp
  BY CheckedIs
<1>2. \/ Readable(cpu, query) /\ (StaysUp(checked) \/ RunsOut(checked, FALSE) \/ RunsOut(checked, TRUE) \/ HeldBack(checked))
      \/ ~Readable(cpu, query) /\ CantTell(checked)
  BY DEF Check
<1> HIDE DEF checked
<1>3. untold \in BOOLEAN /\ Unwatched \in BOOLEAN /\ Gap \in BOOLEAN
  BY GapTyped DEF TypeOK
<1>4. ASSUME StaysUp(checked), Readable(cpu, query)
      PROVE  \E object \in Object, tells \in BOOLEAN :
               Leaves(cpu, query, object, tells) /\ Decides(cpu, query, object, tells)
  <2> DEFINE
    running == Moved(IF Gap THEN checked ELSE EndWouldBePause(checked), "Running")
    ends == checked.phase = "Idle"
    tells == Gap /\ ~(ends /\ Conflicts)
    object == IF ends THEN running ELSE checked
  <2>1. LikeBut(running, checked, "Running")
    BY <1>1, MovedIs, EndWouldBePauseIs DEF LikeBut
  <2>2. IF ends THEN Writes(running) ELSE Persist(checked)
    BY <1>4 DEF StaysUp
  <2>3. memo' = [clock |-> checked.clock, gap |-> Gap /\ ~tells] /\ untold' = ((untold \/ Unwatched) /\ ~tells)
    BY <1>4 DEF StaysUp, Remember
  <2> HIDE DEF running
  <2>4. Leaves(cpu, query, object, tells)
    BY <1>1, <2>1, <2>2, <2>3 DEF Leaves, Writes, Persist, LikeBut
  <2>5. Decides(cpu, query, object, tells)
    BY <1>1, <1>4, <2>1, <2>2 DEF Decides, Writes, Conflicts, LikeBut
  <2>6. object \in Object /\ tells \in BOOLEAN
    BY <1>1, <2>1 DEF LikeBut
  <2> QED
    BY <2>4, <2>5, <2>6
<1>5. ASSUME NEW early \in BOOLEAN, RunsOut(checked, early), Readable(cpu, query)
      PROVE  \E object \in Object, tells \in BOOLEAN :
               Leaves(cpu, query, object, tells) /\ Decides(cpu, query, object, tells)
  <2> DEFINE
    idle == Moved(BeginWouldBePause(checked, FALSE), "Idle")
    object == IF checked.phase = "Running" THEN idle ELSE checked
  <2>0. LikeBut(BeginWouldBePause(checked, FALSE), checked, checked.phase)
    BY <1>1, BeginWouldBePauseIs
  <2>1. LikeBut(idle, checked, "Idle")
    BY <2>0, MovedIs DEF LikeBut
  <2>2. IF checked.phase = "Running" THEN Writes(idle) ELSE Persist(checked)
    BY <1>5 DEF RunsOut
  <2>3. memo' = [clock |-> checked.clock, gap |-> Gap] /\ untold' = (untold \/ Unwatched)
    BY <1>5 DEF RunsOut, Remember
  <2>4. checked.phase = "Running" => now - checked.clock.last >= Floor
    BY <1>1, <1>5, LateEnough DEF RunsOut
  <2> HIDE DEF idle
  <2>5. Leaves(cpu, query, object, FALSE)
    BY <1>1, <1>3, <2>1, <2>2, <2>3 DEF Leaves, Writes, Persist, LikeBut
  <2>6. Decides(cpu, query, object, FALSE)
    BY <1>1, <1>5, <2>1, <2>4 DEF Decides, LikeBut
  <2>7. object \in Object
    BY <1>1, <2>1 DEF LikeBut
  <2> QED
    BY <2>5, <2>6, <2>7
<1>6. ASSUME HeldBack(checked), Readable(cpu, query)
      PROVE  \E object \in Object, tells \in BOOLEAN :
               Leaves(cpu, query, object, tells) /\ Decides(cpu, query, object, tells)
  <2>1. memo' = [clock |-> checked.clock, gap |-> Gap] /\ untold' = (untold \/ Unwatched) /\ Persist(checked)
    BY <1>6 DEF HeldBack, Remember
  <2>2. checked.phase = "Running" => now - checked.clock.last >= Floor
    BY <1>1, <1>6, LateEnough DEF HeldBack
  <2>3. Leaves(cpu, query, checked, FALSE)
    BY <1>1, <1>3, <2>1 DEF Leaves, Writes, Persist
  <2>4. Decides(cpu, query, checked, FALSE)
    BY <1>1, <1>6, <2>2 DEF Decides
  <2> QED
    BY <1>1, <2>3, <2>4
<1>7. ASSUME CantTell(checked), ~Readable(cpu, query)
      PROVE  \E object \in Object, tells \in BOOLEAN :
               Leaves(cpu, query, object, tells) /\ Decides(cpu, query, object, tells)
  <2>1. memo' = [clock |-> checked.clock, gap |-> Gap] /\ untold' = (untold \/ Unwatched) /\ Persist(checked)
    BY <1>7 DEF CantTell, Remember
  <2>2. Leaves(cpu, query, checked, FALSE)
    BY <1>1, <1>3, <2>1 DEF Leaves, Writes, Persist
  <2>3. Decides(cpu, query, checked, FALSE)
    BY <1>1, <1>7 DEF Decides
  <2> QED
    BY <1>1, <2>2, <2>3
<1>8. seen.phase # "Paused" /\ Finds(cpu, query) /\ UNCHANGED <<now, template, chances, heldAt, idled>>
  BY DEF Check
<1> QED
  BY <1>2, <1>4, <1>5, <1>6, <1>7, <1>8

-----------------------------------------------------------------------------
(* Types, and nothing ahead of now. *)

TimeInv == TypeOK /\ NoneAhead

LEMMA FreshIs ==
  ASSUME NEW t \in Times, NEW source \in Sources
  PROVE  Fresh(t, source) \in Clock /\ Fresh(t, source).last = t /\ Fresh(t, source).evaluated = t
BY DEF Fresh, Clock

LEMMA NowTyped ==
  ASSUME Assumptions, TypeOK
  PROVE  /\ now \in Nat /\ now \in Times /\ Never \in Times /\ 0 \in Times /\ MaxTime \in Nat /\ Chances \in Nat
         /\ stored.clock.last \in Int /\ stored.clock.evaluated \in Int /\ seen.clock.last \in Int /\ seen.clock.evaluated \in Int
         /\ memo.clock.last \in Int /\ memo.clock.evaluated \in Int
         /\ {stored.stamp, seen.stamp, used, watched, looked} \subseteq Int
BY DEF Assumptions, TypeOK, Times, Never, Object, Clock

LEMMA TimeFirst == ASSUME Assumptions PROVE Init => TimeInv
<1> SUFFICES ASSUME Init PROVE TimeInv
  OBVIOUS
<1>1. MaxTime \in Nat /\ Chances \in Nat
  BY DEF Assumptions
<1>2. {0, Never} \subseteq Times /\ {"woke", "unobserved"} \subseteq Sources
  BY <1>1 DEF Times, Never, Sources
<1>3. New \in Object /\ New.clock = Fresh(0, "woke") /\ New.stamp = Never /\ Fresh(0, "woke") \in Clock
  BY <1>2 DEF New, Object, Fresh, Clock
<1>4. memo = [clock |-> Fresh(0, "woke"), gap |-> FALSE] /\ stored = New /\ seen = New
  BY DEF Init, New
<1>5. TypeOK
  <2>1. stored \in Object /\ seen \in Object /\ memo \in [clock : Clock, gap : BOOLEAN]
    BY <1>3, <1>4
  <2>2. {used, heldAt, watched, looked} \subseteq Times
    BY <1>2 DEF Init
  <2>3. now \in 0..MaxTime /\ chances \in 0..Chances /\ {template, idled} \subseteq Nat
    BY <1>1 DEF Init
  <2> QED
    BY <2>1, <2>2, <2>3 DEF Init, TypeOK
<1>6. NoneAhead
  BY <1>3, <1>4 DEF Init, NoneAhead, Never, Fresh
<1> QED
  BY <1>5, <1>6 DEF TimeInv

LEMMA FoundIs ==
  ASSUME Assumptions, TimeInv, NEW cpu, NEW query, Finds(cpu, query)
  PROVE  used' \in Times /\ used' <= now /\ looked' \in Times /\ looked' <= now /\ watched' \in Times /\ watched' <= now
BY NowTyped DEF Finds, TimeInv, NoneAhead, TypeOK

LEMMA TimeOfCheck ==
  ASSUME Assumptions, TimeInv, NEW cpu, NEW query, Check(cpu, query)
  PROVE  TimeInv'
<1>1. TypeOK /\ NoneAhead
  BY DEF TimeInv
<1>2. PICK object \in Object, tells \in BOOLEAN : Leaves(cpu, query, object, tells)
  BY <1>1, CheckIs
<1>3. UNCHANGED <<now, template, chances, heldAt, idled>> /\ Finds(cpu, query)
  BY <1>1, CheckIs
<1>4. /\ Observed(cpu, query) \in Clock /\ Observed(cpu, query).last <= now
      /\ Observed(cpu, query).last >= Remembered.last /\ Observed(cpu, query).last \in Int
      /\ Observed(cpu, query).evaluated = IF Readable(cpu, query) THEN now ELSE Remembered.evaluated
  BY <1>1, ObservedIs DEF Clock, Times
<1>5. Remembered.evaluated <= now /\ Remembered.last >= 0 /\ Remembered.last \in Int /\ Remembered \in Clock
  BY <1>1, RememberedIs, NowTyped DEF NoneAhead, Larger, Clock, Times
<1>6. Observed(cpu, query).evaluated <= now /\ Observed(cpu, query).last >= 0
  BY <1>1, <1>4, <1>5, NowTyped
<1>7. Unwatched \in BOOLEAN /\ Gap \in BOOLEAN
  BY <1>1, GapTyped
<1>8. /\ stored' \in {stored, object} /\ seen' = seen /\ current' \in BOOLEAN
      /\ object.clock = Observed(cpu, query) /\ object.stamp = seen.stamp
      /\ memo' = [clock |-> Observed(cpu, query), gap |-> Gap /\ ~tells] /\ untold' \in BOOLEAN
  BY <1>1, <1>2, <1>7 DEF Leaves, TypeOK
<1>9. TypeOK'
  BY <1>1, <1>2, <1>3, <1>4, <1>7, <1>8, FoundIs DEF TypeOK, TimeInv
<1>10. NoneAhead'
  BY <1>1, <1>3, <1>4, <1>6, <1>8, FoundIs, NowTyped DEF NoneAhead, TimeInv
<1> QED
  BY <1>9, <1>10 DEF TimeInv

LEMMA TimeOfRequest ==
  ASSUME Assumptions, TimeInv, NEW query \in {"active", "quiet", "failed"}, Requested(query)
  PROVE  TimeInv'
<1>1. TypeOK /\ NoneAhead
  BY DEF TimeInv
<1> DEFINE idle == Moved(BeginWouldBePause(seen, query = "active"), "Idle")
<1>2. LikeBut(BeginWouldBePause(seen, query = "active"), seen, seen.phase)
  BY <1>1, BeginWouldBePauseIs DEF TypeOK
<1>3. LikeBut(idle, seen, "Idle")
  BY <1>1, <1>2, MovedIs DEF LikeBut
<1>4. stored' = (IF current THEN idle ELSE stored) /\ current' = FALSE /\ seen' = seen
  BY DEF Requested, Writes
<1> HIDE DEF idle
<1>5. UNCHANGED <<now, memo, template, used, heldAt, watched, looked, untold, idled>> /\ chances' = chances - 1 /\ chances > 0
  BY DEF Requested
<1>8. stored' \in Object /\ chances' \in 0..Chances
  BY <1>1, <1>3, <1>4, <1>5, NowTyped DEF TypeOK, LikeBut
<1>6. TypeOK'
  BY <1>1, <1>4, <1>5, <1>8 DEF TypeOK
<1>7. NoneAhead'
  BY <1>1, <1>3, <1>4, <1>5 DEF NoneAhead, LikeBut
<1> QED
  BY <1>6, <1>7 DEF TimeInv

\* A wake, wherever it lands, starts the clock again.
LEMMA WakesIs ==
  ASSUME Assumptions, TimeInv, Wakes
  PROVE  /\ \E object \in Object :
              /\ object.clock = Fresh(now, "woke") /\ object.stamp = seen.stamp /\ object.phase = "Running"
              /\ stored' = IF current THEN object ELSE stored
         /\ seen' = seen /\ seen.phase = "Paused" /\ current' = FALSE /\ memo' = [clock |-> Fresh(now, "woke"), gap |-> FALSE]
         /\ watched' = now /\ looked' = now /\ untold' = FALSE /\ used' = now
         /\ UNCHANGED <<now, template, chances, heldAt, idled>>
<1>1. TypeOK /\ NoneAhead /\ now \in Times
  BY NowTyped DEF TimeInv
<1> DEFINE awake == [seen EXCEPT !.clock = Fresh(now, "woke")]
<1>2. Fresh(now, "woke") \in Clock
  BY <1>1, FreshIs DEF Sources
<1>3. awake \in Object /\ awake.clock = Fresh(now, "woke") /\ awake.stamp = seen.stamp
  BY <1>1, <1>2 DEF TypeOK, Object
<1>4. Wakes => /\ Writes(Moved(awake, "Running")) /\ memo' = [clock |-> Fresh(now, "woke"), gap |-> FALSE]
  BY DEF Wakes, Remember
<1> HIDE DEF awake
<1>5. LikeBut(Moved(awake, "Running"), awake, "Running")
  BY <1>1, <1>3, MovedIs
<1> QED
  BY <1>3, <1>4, <1>5 DEF Wakes, Writes, LikeBut

LEMMA TimeOfWakes == ASSUME Assumptions, TimeInv, Wakes PROVE TimeInv'
<1>1. TypeOK /\ NoneAhead
  BY DEF TimeInv
<1>2. Fresh(now, "woke") \in Clock /\ Fresh(now, "woke").last = now /\ Fresh(now, "woke").evaluated = now
  BY <1>1, FreshIs, NowTyped DEF Sources
<1>5. stored' \in Object /\ memo' \in [clock : Clock, gap : BOOLEAN] /\ now \in Times
  <2>1. stored \in Object /\ now \in Times
    BY <1>1, NowTyped DEF TypeOK
  <2>2. stored' \in Object
    BY <2>1, WakesIs
  <2>3. memo' = [clock |-> Fresh(now, "woke"), gap |-> FALSE]
    BY WakesIs
  <2> QED
    BY <1>2, <2>1, <2>2, <2>3
<1>3. TypeOK'
  BY <1>1, <1>5, WakesIs DEF TypeOK
<1>4. NoneAhead'
  BY <1>1, <1>2, WakesIs, NowTyped DEF NoneAhead
<1> QED
  BY <1>3, <1>4 DEF TimeInv

LEMMA TimeOfOthers ==
  ASSUME Assumptions, TimeInv, Pauses \/ Refill \/ Restart \/ Stamp \/ Hold \/ Deploy \/ Tick
  PROVE  TimeInv'
<1>1. TypeOK /\ NoneAhead /\ stored \in Object /\ seen \in Object
  BY DEF TimeInv, TypeOK
<1>2. CASE Pauses
  <2>1. stored' = [stored EXCEPT !.phase = "Paused"]
    BY <1>2 DEF Pauses
  <2>2. stored' \in Object /\ stored'.clock = stored.clock /\ stored'.stamp = stored.stamp
    BY <1>1, <2>1 DEF Object
  <2> QED
    BY <1>1, <1>2, <2>2 DEF Pauses, TimeInv, TypeOK, NoneAhead
<1>3. CASE Refill
  BY <1>1, <1>3 DEF Refill, TimeInv, TypeOK, NoneAhead
<1>4. CASE Restart
  <2>1. Nothing \in [clock : Clock, gap : BOOLEAN] /\ Nothing.clock.last = Never /\ Nothing.clock.evaluated = Never
    BY <1>1, NowTyped, FreshIs DEF Nothing, Sources
  <2>2. TypeOK'
    BY <1>1, <1>4, <2>1, NowTyped DEF Restart, TypeOK
  <2>3. NoneAhead'
    BY <1>1, <1>4, <2>1, NowTyped DEF Restart, NoneAhead, Never
  <2> QED
    BY <2>2, <2>3 DEF TimeInv
<1>5. CASE Stamp
  <2>1. stored' = [stored EXCEPT !.stamp = now] /\ now \in Times
    BY <1>1, <1>5, NowTyped DEF Stamp
  <2>2. stored' \in Object /\ stored'.clock = stored.clock /\ stored'.stamp = now
    BY <1>1, <2>1 DEF Object
  <2>5. /\ chances' \in 0..Chances /\ current' = FALSE /\ used' = now /\ now \in Times
        /\ UNCHANGED <<now, seen, memo, template, heldAt, watched, looked, untold, idled>>
    BY <1>1, <1>5, NowTyped DEF Stamp, TypeOK
  <2>3. TypeOK'
    BY <1>1, <2>2, <2>5 DEF TypeOK
  <2>4. NoneAhead'
    BY <1>1, <1>5, <2>2, NowTyped DEF Stamp, NoneAhead
  <2> QED
    BY <2>3, <2>4 DEF TimeInv
<1>6. CASE Hold
  <2>1. stored' = [stored EXCEPT !.until = now + HoldFor] /\ now + HoldFor \in Nat
    BY <1>1, <1>6, NowTyped DEF Hold, Assumptions
  <2>2. stored' \in Object /\ stored'.clock = stored.clock /\ stored'.stamp = stored.stamp
    BY <1>1, <2>1 DEF Object
  <2>5. /\ chances' \in 0..Chances /\ current' = FALSE /\ heldAt' = now /\ now \in Times
        /\ UNCHANGED <<now, seen, memo, template, used, watched, looked, untold, idled>>
    BY <1>1, <1>6, NowTyped DEF Hold, TypeOK
  <2>3. TypeOK'
    BY <1>1, <2>2, <2>5 DEF TypeOK
  <2>4. NoneAhead'
    BY <1>1, <1>6, <2>2 DEF Hold, NoneAhead
  <2> QED
    BY <2>3, <2>4 DEF TimeInv
<1>7. CASE Deploy
  BY <1>1, <1>7, NowTyped DEF Deploy, TimeInv, TypeOK, NoneAhead
<1>8. CASE Tick
  <2>1. TypeOK'
    BY <1>1, <1>8, NowTyped DEF Tick, TypeOK
  <2>2. NoneAhead'
    BY <1>1, <1>8, NowTyped DEF Tick, NoneAhead
  <2> QED
    BY <2>1, <2>2 DEF TimeInv
<1> QED
  BY <1>2, <1>3, <1>4, <1>5, <1>6, <1>7, <1>8

\* The actions, for a case split.
LEMMA WhatNext ==
  ASSUME Next
  PROVE  \/ \E cpu \in {"failed", "busy", "quiet"}, query \in {"active", "quiet", "failed"} : Check(cpu, query)
         \/ \E query \in {"active", "quiet", "failed"} : Requested(query)
         \/ Wakes
         \/ Pauses \/ Refill \/ Restart \/ Stamp \/ Hold \/ Deploy \/ Tick
BY DEF Next

LEMMA TimeKept == ASSUME Assumptions, TimeInv, [Next]_vars PROVE TimeInv'
<1>1. CASE Next
  BY <1>1, WhatNext, TimeOfCheck, TimeOfRequest, TimeOfWakes, TimeOfOthers
<1>2. CASE UNCHANGED vars
  BY <1>2 DEF vars, TimeInv, TypeOK, NoneAhead
<1> QED
  BY <1>1, <1>2

\* Types, for any workload, in dry-run or not.
THEOREM IdleTyped == ASSUME Assumptions PROVE Spec => []TypeOK
<1>1. Init => TimeInv
  BY TimeFirst
<1>2. TimeInv /\ [Next]_vars => TimeInv'
  BY TimeKept
<1>3. TimeInv => TypeOK
  BY DEF TimeInv
<1> QED
  BY <1>1, <1>2, <1>3, PTL DEF Spec

-----------------------------------------------------------------------------
(* What an operator knows of a workload's use. *)

\* A cached object that's of the current version is the stored one; an operator that has yet to look at the
\* workload remembers nothing; and one that has remembers its use, or the stamp that told of it, and since
\* when it has been watched, of which nothing was evaluated after it last looked.
KnownInv ==
  /\ current => seen = stored
  /\ (looked = Never => Forgot) /\ (Forgot => looked = Never)
  /\ ~Forgot =>
       /\ used <= memo.clock.last \/ used <= stored.stamp
       /\ watched <= memo.clock.last
       /\ memo.clock.evaluated <= looked /\ seen.clock.evaluated <= looked /\ stored.clock.evaluated <= looked

LEMMA KnownFirst == ASSUME Assumptions PROVE Init => KnownInv
<1> SUFFICES ASSUME Init PROVE KnownInv
  OBVIOUS
<1>1. /\ memo = [clock |-> Fresh(0, "woke"), gap |-> FALSE] /\ seen = stored /\ used = 0 /\ watched = 0 /\ looked = 0
      /\ seen.clock = Fresh(0, "woke") /\ Fresh(0, "woke").last = 0 /\ Fresh(0, "woke").evaluated = 0
  BY DEF Init, New, Fresh
<1>2. memo.clock.last = 0 /\ memo.clock.evaluated = 0 /\ Nothing.clock.last = -1
  BY <1>1 DEF Nothing, Fresh, Never
<1>3. ~Forgot
  BY <1>2 DEF Forgot
<1> QED
  BY <1>1, <1>2, <1>3 DEF KnownInv, Never

\* A check leaves the clock at what it knows, or later.
LEMMA CheckKnows ==
  ASSUME Assumptions, ~DryRun, TimeInv, KnownInv, NEW cpu, NEW query, Check(cpu, query)
  PROVE  /\ watched' <= Observed(cpu, query).last
         /\ current => used' <= Observed(cpu, query).last
         /\ used' <= Observed(cpu, query).last \/ (used' = used /\ used <= stored.stamp)
         /\ looked' # Never /\ Observed(cpu, query).evaluated <= looked'
         /\ seen.clock.evaluated <= looked' /\ stored.clock.evaluated <= looked'
         /\ ~Unwatched => ~Forgot
<1>1. TypeOK /\ NoneAhead
  BY DEF TimeInv
<1>2. /\ Finds(cpu, query) /\ now \in Nat /\ GapTolerance \in Nat /\ looked \in Int /\ used \in Int /\ watched \in Int
      /\ stored.stamp \in Int
  BY <1>1, CheckIs, NowTyped, ToleranceTyped
<1>3. /\ Observed(cpu, query).last \in Int /\ Observed(cpu, query).last <= now
      /\ Observed(cpu, query).last >= Remembered.last
      /\ Observed(cpu, query).last >= Smaller(seen.stamp, now)
      /\ Unwatched \/ template # seen.hash \/ cpu = "busy" \/ Counts(cpu, query) => Observed(cpu, query).last = now
      /\ Observed(cpu, query).evaluated = IF Readable(cpu, query) THEN now ELSE Remembered.evaluated
  BY <1>1, ObservedIs DEF Clock, Times
<1>4. ~Forgot => /\ Remembered.last >= memo.clock.last
                 /\ Remembered.evaluated <= looked /\ Remembered.evaluated \in Int
                 /\ Remembered.last \in Int
  BY <1>1, RememberedIs, NowTyped DEF Larger, KnownInv
<1>5. Unwatched <=> Forgot \/ now - Remembered.evaluated > GapTolerance
  BY DEF Unwatched, InWouldBePause
<1>6. looked' = IF Readable(cpu, query) \/ looked = Never THEN now ELSE looked
  BY <1>2 DEF Finds
<1>7. used' = IF cpu = "busy" \/ template # seen.hash \/ Counts(cpu, query) THEN now ELSE used
  BY <1>2 DEF Finds
<1>8. watched' = IF looked = Never \/ (Readable(cpu, query) /\ now - looked > GapTolerance) THEN now ELSE watched
  BY <1>2 DEF Finds, InWouldBePause
<1>9. watched' <= Observed(cpu, query).last
  <2>1. CASE Unwatched
    BY <1>1, <1>2, <1>3, <1>8, <2>1, NowTyped DEF NoneAhead
  <2>2. CASE ~Unwatched
    <3>1. ~Forgot /\ looked # Never /\ now - Remembered.evaluated <= GapTolerance
      BY <1>2, <1>4, <1>5, <2>2 DEF KnownInv
    <3>2. watched' = watched
      BY <1>2, <1>4, <1>8, <3>1
    <3> QED
      BY <1>1, <1>2, <1>3, <1>4, <3>1, <3>2, NowTyped DEF KnownInv
  <2> QED
    BY <2>1, <2>2
<1>10. ASSUME used' = used
       PROVE  /\ current => used' <= Observed(cpu, query).last
              /\ used' <= Observed(cpu, query).last \/ (used' = used /\ used <= stored.stamp)
  <2>1. CASE Unwatched
    BY <1>1, <1>2, <1>3, <1>10, <2>1 DEF NoneAhead
  <2>2. CASE ~Unwatched
    <3>1. ~Forgot
      BY <1>5, <2>2
    <3>2. used <= memo.clock.last \/ used <= stored.stamp
      BY <3>1 DEF KnownInv
    <3>3. CASE used <= memo.clock.last
      BY <1>1, <1>2, <1>3, <1>4, <1>10, <3>1, <3>3, NowTyped
    <3>4. CASE used <= stored.stamp
      <4>1. current => seen.stamp = stored.stamp
        BY DEF KnownInv
      <4>2. stored.stamp <= now
        BY <1>1 DEF NoneAhead
      <4>3. current => Smaller(seen.stamp, now) = stored.stamp
        BY <1>2, <4>1, <4>2 DEF Smaller
      <4>4. current => used <= Observed(cpu, query).last
        BY <1>2, <1>3, <3>4, <4>3
      <4> QED
        BY <1>9, <1>10, <3>4, <4>4
    <3> QED
      BY <3>2, <3>3, <3>4
  <2> QED
    BY <2>1, <2>2
<1>11. ASSUME used' # used PROVE used' <= Observed(cpu, query).last
  <2>1. used' = now /\ Observed(cpu, query).last = now
    BY <1>3, <1>7, <1>11
  <2> QED
    BY <1>2, <2>1
<1>12. looked' # Never
  BY <1>2, <1>6 DEF Never
<1>13. Observed(cpu, query).evaluated <= looked'
  <2>1. CASE Readable(cpu, query)
    BY <1>2, <1>3, <1>6, <2>1
  <2>2. CASE ~Readable(cpu, query) /\ Forgot
    <3>1. looked' = now
      BY <1>6, <2>2 DEF KnownInv
    <3>2. Remembered.evaluated <= now
      BY <2>2, <1>1, RememberedIs DEF NoneAhead
    <3> QED
      BY <1>3, <2>2, <3>1, <3>2
  <2>3. CASE ~Readable(cpu, query) /\ ~Forgot
    BY <1>2, <1>3, <1>4, <1>6, <2>3 DEF KnownInv
  <2> QED
    BY <2>1, <2>2, <2>3
<1>14. seen.clock.evaluated <= looked' /\ stored.clock.evaluated <= looked'
  <2>1. CASE Forgot
    <3>1. looked' = now
      BY <1>6, <2>1 DEF KnownInv
    <3> QED
      BY <1>1, <3>1 DEF NoneAhead
  <2>2. CASE ~Forgot
    BY <1>1, <1>2, <1>6, <2>2, NowTyped DEF KnownInv, NoneAhead
  <2> QED
    BY <2>1, <2>2
<1>15. ~Unwatched => ~Forgot
  BY <1>5
<1> QED
  BY <1>9, <1>10, <1>11, <1>12, <1>13, <1>14, <1>15

\* A clock that has been set isn't blank.
LEMMA SetIsKnown ==
  ASSUME NEW clock, NEW gap, clock.last >= 0, memo' = [clock |-> clock, gap |-> gap]
  PROVE  ~Forgot'
BY DEF Forgot, Nothing, Fresh, Never

LEMMA KnownOfCheck ==
  ASSUME Assumptions, ~DryRun, TimeInv, KnownInv, NEW cpu, NEW query, Check(cpu, query)
  PROVE  KnownInv'
<1>1. TypeOK /\ NoneAhead
  BY DEF TimeInv
<1>2. PICK object \in Object, tells \in BOOLEAN : Leaves(cpu, query, object, tells)
  BY <1>1, CheckIs
<1>0. PICK observed \in Clock : observed = Observed(cpu, query)
  BY <1>1, ObservedIs
<1>3. /\ watched' <= observed.last
      /\ current => used' <= observed.last
      /\ used' <= observed.last \/ (used' = used /\ used <= stored.stamp)
      /\ looked' # Never /\ observed.evaluated <= looked'
      /\ seen.clock.evaluated <= looked' /\ stored.clock.evaluated <= looked'
  BY <1>0, CheckKnows
<1>4. observed.last >= 0
  <2>1. observed.last >= Remembered.last /\ observed.last \in Int
    BY <1>0, <1>1, ObservedIs DEF Clock, Times
  <2>2. Remembered.last >= 0 /\ Remembered.last \in Int
    BY <1>1, RememberedIs, NowTyped DEF NoneAhead, Larger, Clock, Times
  <2> QED
    BY <2>1, <2>2
<1>5. /\ memo' = [clock |-> observed, gap |-> Gap /\ ~tells] /\ seen' = seen /\ object.clock = observed
      /\ \/ stored' = stored /\ current' = current
         \/ stored' = (IF current THEN object ELSE stored) /\ current' = FALSE
  BY <1>0, <1>2 DEF Leaves
<1>6. ~Forgot'
  BY <1>4, <1>5, SetIsKnown
<1>7. current' => seen' = stored'
  BY <1>5 DEF KnownInv
<1>8. memo'.clock.last = observed.last /\ memo'.clock.evaluated = observed.evaluated
  BY <1>5
<1>9. used' <= memo'.clock.last \/ used' <= stored'.stamp
  <2>1. CASE current
    <3>1. used' <= observed.last
      BY <1>3, <2>1
    <3> QED
      BY <1>8, <3>1
  <2>2. CASE ~current
    <3>1. stored' = stored
      BY <1>5, <2>2
    <3> QED
      BY <1>3, <1>8, <3>1
  <2> QED
    BY <2>1, <2>2
<1>10. seen'.clock.evaluated <= looked' /\ stored'.clock.evaluated <= looked'
  BY <1>3, <1>5
<1>11. watched' <= memo'.clock.last /\ memo'.clock.evaluated <= looked'
  <2>1. watched' <= observed.last /\ observed.evaluated <= looked'
    BY <1>3
  <2> QED
    BY <1>8, <2>1
<1>12. looked' # Never
  BY <1>3
<1> QED
  BY <1>6, <1>7, <1>9, <1>10, <1>11, <1>12 DEF KnownInv

LEMMA KnownOfWakes == ASSUME Assumptions, TimeInv, KnownInv, Wakes PROVE KnownInv'
<1>1. TypeOK /\ NoneAhead /\ now \in Nat /\ now \in Times
  BY NowTyped DEF TimeInv
<1>2. Fresh(now, "woke").last = now /\ Fresh(now, "woke").evaluated = now
  BY <1>1, FreshIs DEF Sources
<1>3. PICK object \in Object : object.clock = Fresh(now, "woke") /\ stored' = IF current THEN object ELSE stored
  BY WakesIs
<1>4. /\ seen' = seen /\ current' = FALSE /\ memo' = [clock |-> Fresh(now, "woke"), gap |-> FALSE]
      /\ watched' = now /\ looked' = now /\ used' = now
  BY WakesIs
<1>5. memo'.clock.last = now /\ memo'.clock.evaluated = now
  BY <1>2, <1>4
<1>6. ~Forgot'
  BY <1>1, <1>2, <1>4, SetIsKnown
<1>7. seen'.clock.evaluated <= looked' /\ stored'.clock.evaluated <= looked'
  BY <1>1, <1>2, <1>3, <1>4 DEF NoneAhead
<1> QED
  BY <1>1, <1>4, <1>5, <1>6, <1>7 DEF KnownInv, Never

LEMMA KnownOfOthers ==
  ASSUME Assumptions, TimeInv, KnownInv, Pauses \/ Refill \/ Restart \/ Stamp \/ Hold \/ Deploy \/ Tick
  PROVE  KnownInv'
<1>1. TypeOK /\ NoneAhead /\ stored \in Object /\ seen \in Object
  BY DEF TimeInv, TypeOK
<1>2. CASE Pauses
  <2>1. stored'.clock = stored.clock /\ stored'.stamp = stored.stamp
    BY <1>1, <1>2 DEF Pauses, Object
  <2> QED
    BY <1>2, <2>1 DEF Pauses, KnownInv, Forgot
<1>3. CASE Refill
  BY <1>3 DEF Refill, KnownInv, Forgot
<1>4. CASE Restart
  BY <1>4 DEF Restart, KnownInv, Forgot
<1>5. CASE Stamp
  <2>1. stored'.clock = stored.clock /\ stored'.stamp = now
    BY <1>1, <1>5 DEF Stamp, Object
  <2> QED
    BY <1>1, <1>5, <2>1, NowTyped DEF Stamp, KnownInv, Forgot
<1>6. CASE Hold
  <2>1. stored'.clock = stored.clock /\ stored'.stamp = stored.stamp
    BY <1>1, <1>6 DEF Hold, Object
  <2> QED
    BY <1>6, <2>1 DEF Hold, KnownInv, Forgot
<1>7. CASE Deploy
  BY <1>7 DEF Deploy, KnownInv, Forgot
<1>8. CASE Tick
  BY <1>8 DEF Tick, KnownInv, Forgot
<1> QED
  BY <1>2, <1>3, <1>4, <1>5, <1>6, <1>7, <1>8

LEMMA KnownKept == ASSUME Assumptions, ~DryRun, TimeInv, KnownInv, [Next]_vars PROVE KnownInv'
<1>1. ASSUME NEW query \in {"active", "quiet", "failed"}, Requested(query) PROVE FALSE
  BY <1>1 DEF Requested
<1>2. CASE Next
  BY <1>1, <1>2, WhatNext, KnownOfCheck, KnownOfWakes, KnownOfOthers
<1>3. CASE UNCHANGED vars
  BY <1>3 DEF vars, KnownInv, Forgot
<1> QED
  BY <1>2, <1>3

\* Only a check that decides so makes a workload Idle, and what it decides from is the object as it is.
LEMMA WhoIdles ==
  ASSUME Assumptions, ~DryRun, TimeInv, [Next]_vars, IdledByClock
  PROVE  \E cpu \in {"failed", "busy", "quiet"}, query \in {"active", "quiet", "failed"} : Check(cpu, query)
<1>1. ASSUME NEW query \in {"active", "quiet", "failed"}, Requested(query) PROVE FALSE
  BY <1>1 DEF Requested
<1>2. ASSUME Wakes PROVE FALSE
  <2>1. PICK object \in Object : object.phase = "Running" /\ stored' = IF current THEN object ELSE stored
    BY <1>2, WakesIs
  <2> QED
    BY <2>1 DEF IdledByClock
<1>3. ASSUME Pauses \/ Refill \/ Restart \/ Hold \/ Stamp \/ Deploy \/ Tick PROVE FALSE
  <2>1. stored \in Object
    BY DEF TimeInv, TypeOK
  <2> QED
    BY <1>3, <2>1 DEF Pauses, Refill, Restart, Hold, Stamp, Deploy, Tick, IdledByClock, Object
<1>4. Next
  BY DEF vars, IdledByClock
<1> QED
  BY <1>1, <1>2, <1>3, <1>4, WhatNext

LEMMA CheckIdles ==
  ASSUME Assumptions, TimeInv, KnownInv, NEW cpu, NEW query, Check(cpu, query), IdledByClock
  PROVE  /\ current /\ seen.phase = "Running" /\ ~Unwatched
         /\ now - Observed(cpu, query).last >= Floor
         /\ stored'.clock = Observed(cpu, query) /\ untold' = (untold \/ Unwatched)
<1>1. TypeOK /\ NoneAhead
  BY DEF TimeInv
<1>2. PICK object \in Object, tells \in BOOLEAN : Leaves(cpu, query, object, tells) /\ Decides(cpu, query, object, tells)
  BY <1>1, CheckIs
<1>3. current /\ stored' = object
  BY <1>2 DEF Leaves, IdledByClock
<1>4. seen.phase = "Running"
  BY <1>3 DEF KnownInv, IdledByClock
<1>5. object.phase = "Idle"
  BY <1>3 DEF IdledByClock
<1>6. ~tells /\ now - Observed(cpu, query).last >= Floor
  BY <1>2, <1>4, <1>5 DEF Decides
<1>7. stored'.clock = Observed(cpu, query) /\ untold' = (untold \/ Unwatched)
  BY <1>2, <1>3, <1>6, GapTyped, <1>1 DEF Leaves, TypeOK
<1>8. ~Unwatched
  <2>1. Unwatched => now - Observed(cpu, query).last = 0
    BY <1>1, ObservedIs, NowTyped
  <2>2. Floor \in Nat \ {0}
    BY DEF Floor, Assumptions, Smaller
  <2> QED
    BY <1>6, <2>1, <2>2
<1> QED
  BY <1>3, <1>4, <1>6, <1>7, <1>8

LEMMA WhenIdle ==
  ASSUME Assumptions, ~DryRun, TimeInv, KnownInv, [Next]_vars
  PROVE  IdledByClock => now - used' >= Floor /\ now - watched' >= Floor
<1> SUFFICES ASSUME IdledByClock PROVE now - used' >= Floor /\ now - watched' >= Floor
  OBVIOUS
<1>1. PICK cpu \in {"failed", "busy", "quiet"}, query \in {"active", "quiet", "failed"} : Check(cpu, query)
  BY WhoIdles
<1>2. current /\ now - Observed(cpu, query).last >= Floor
  BY <1>1, CheckIdles
<1>3. used' <= Observed(cpu, query).last /\ watched' <= Observed(cpu, query).last
  BY <1>1, <1>2, CheckKnows
<1>4. used' \in Int /\ watched' \in Int /\ now \in Int
  BY TimeKept, NowTyped DEF TimeInv, TypeOK, Times, Never
<1>5. Observed(cpu, query).last \in Int
  BY ObservedIs DEF TimeInv, Clock, Times
<1>6. Floor \in Int
  BY DEF Floor, Assumptions, Smaller
<1>7. \A u, last, floor \in Int : u <= last /\ now - last >= floor => now - u >= floor
  BY <1>4
<1> QED
  BY <1>2, <1>3, <1>4, <1>5, <1>6, <1>7

\* The property NeverPausedEarly, of a workload that isn't in dry-run: whatever an operator saw and didn't
\* write before another took over, missed, or couldn't read, the workload has gone unused, and been watched,
\* for as long as its idleAfter, or as a pause brought forward must wait.
THEOREM NeverEarly == ASSUME Assumptions, ~DryRun PROVE Spec => NeverPausedEarly
<1> DEFINE Inv == TimeInv /\ KnownInv
<1>1. Init => Inv
  BY TimeFirst, KnownFirst
<1>2. Inv /\ [Next]_vars => Inv'
  BY TimeKept, KnownKept
<1>3. Inv /\ [Next]_vars => [PausesLate]_vars
  BY WhenIdle DEF PausesLate
<1> QED
  BY <1>1, <1>2, <1>3, PTL DEF Spec, NeverPausedEarly

-----------------------------------------------------------------------------
(* Telling of gaps. *)

\* An operator remembers a gap it hasn't told of, and its clock, if the workload is running, hasn't been
\* evaluated since it restarted for it: a check that could read every source would have told of it.  One that
\* found the workload running again when its cache hadn't was this very minute's.
UntoldInv ==
  ~Forgot /\ untold =>
    /\ memo.gap
    /\ stored.phase = "Running" =>
         /\ memo.clock.evaluated <= memo.clock.last
         /\ seen.clock.evaluated <= memo.clock.last
         /\ stored.clock.evaluated <= memo.clock.last
    /\ ~current /\ stored.phase = "Running" /\ seen.phase # "Running" => memo.clock.last = now

LEMMA UntoldFirst == ASSUME Assumptions PROVE Init => UntoldInv
BY DEF Init, UntoldInv

\* A pause waits longer than a gap may last: of idleAfter, anything over two minutes does.
TellsFirst == IdleAfter > 2 /\ ("forecast" \in Others => EarlyAfter > GapTolerance)

LEMMA FloorIs == ASSUME Assumptions, TellsFirst PROVE Floor \in Nat /\ GapTolerance \in Nat /\ GapTolerance < Floor
BY ToleranceTyped DEF Floor, TellsFirst, Smaller, Assumptions

\* If the workload is running, a check that doesn't restart the clock finds it too recent to pause, or
\* leaves it evaluated no later than its last use.
LEMMA UntoldIsRecent ==
  ASSUME Assumptions, ~DryRun, TellsFirst, TimeInv, KnownInv, UntoldInv, NEW cpu, NEW query,
         ~Unwatched, untold, stored.phase = "Running"
  PROVE  /\ ~(now - Observed(cpu, query).last >= Floor)
         /\ Remembered.evaluated <= Observed(cpu, query).last
         /\ seen.clock.evaluated <= Observed(cpu, query).last /\ stored.clock.evaluated <= Observed(cpu, query).last
<1>1. TypeOK /\ NoneAhead
  BY DEF TimeInv
<1>2. ~Forgot /\ now - Remembered.evaluated <= GapTolerance
  <2>1. ~Forgot /\ ~(now - Remembered.evaluated > GapTolerance)
    BY DEF Unwatched, InWouldBePause
  <2>2. Remembered.evaluated \in Int /\ now \in Int /\ GapTolerance \in Int
    BY <1>1, RememberedIs, NowTyped, FloorIs DEF Clock, Times
  <2> QED
    BY <2>1, <2>2
<1>3. /\ Remembered.evaluated = Larger(seen.clock.evaluated, memo.clock.evaluated)
      /\ Remembered.last >= memo.clock.last /\ Remembered.last \in Int
  BY <1>1, <1>2, RememberedIs, NowTyped DEF Larger
<1>4. /\ memo.clock.evaluated <= memo.clock.last /\ seen.clock.evaluated <= memo.clock.last
      /\ stored.clock.evaluated <= memo.clock.last
  BY <1>2 DEF UntoldInv
<1>5. Observed(cpu, query).last \in Int /\ Observed(cpu, query).last >= Remembered.last
  BY <1>1, ObservedIs DEF Clock, Times
<1>6. memo.clock.last <= Observed(cpu, query).last
  BY <1>1, <1>3, <1>5, NowTyped
<1>7. Remembered.evaluated <= memo.clock.last /\ Remembered.evaluated \in Int
  BY <1>1, <1>3, <1>4, NowTyped DEF Larger
<1> QED
  BY <1>1, <1>2, <1>4, <1>5, <1>6, <1>7, NowTyped, FloorIs

LEMMA UntoldOfCheck ==
  ASSUME Assumptions, ~DryRun, TellsFirst, TimeInv, KnownInv, UntoldInv, NEW cpu, NEW query, Check(cpu, query)
  PROVE  UntoldInv'
<1>1. TypeOK /\ NoneAhead /\ now' = now
  BY CheckIs DEF TimeInv
<1>2. PICK object \in Object, tells \in BOOLEAN : Leaves(cpu, query, object, tells) /\ Decides(cpu, query, object, tells)
  BY <1>1, CheckIs
<1>3. PICK observed \in Clock : observed = Observed(cpu, query)
  BY <1>1, ObservedIs
<1>4. /\ observed.last \in Int /\ observed.last <= now /\ observed.last >= Remembered.last
      /\ Unwatched => observed.last = now
      /\ observed.evaluated = IF Readable(cpu, query) THEN now ELSE Remembered.evaluated
  BY <1>1, <1>3, ObservedIs DEF Clock, Times
<1>5. /\ object.clock = observed /\ seen' = seen
      /\ \/ stored' = stored /\ current' = current
         \/ stored' = (IF current THEN object ELSE stored) /\ current' = FALSE
      /\ memo' = [clock |-> observed, gap |-> Gap /\ ~tells]
      /\ untold' = ((untold \/ Unwatched) /\ ~tells)
  BY <1>2, <1>3 DEF Leaves
<1>6. memo'.clock = observed /\ (memo'.gap <=> Gap /\ ~tells)
  BY <1>1, <1>5, GapTyped
<1>7. Gap <=> Unwatched \/ memo.gap
  BY DEF Gap, InWouldBePause
<1>8. observed.evaluated <= now /\ observed.evaluated \in Int
  <2>1. TimeInv'
    BY TimeOfCheck
  <2>2. memo'.clock.evaluated <= now'
    BY <2>1 DEF TimeInv, NoneAhead
  <2> QED
    BY <1>1, <1>6, <2>2 DEF Clock, Times
<1>9. SUFFICES ASSUME untold'
               PROVE  /\ memo'.gap
                      /\ stored'.phase = "Running" =>
                           /\ observed.evaluated <= observed.last
                           /\ seen.clock.evaluated <= observed.last
                           /\ stored'.clock.evaluated <= observed.last
                      /\ ~current' /\ stored'.phase = "Running" /\ seen.phase # "Running" => observed.last = now
  BY <1>1, <1>5, <1>6 DEF UntoldInv
<1>10. (untold \/ Unwatched) /\ ~tells
  BY <1>5, <1>9
<1>11. CASE Unwatched \/ observed.last = now
  <2>1. memo'.gap
    <3>1. ~Unwatched => ~Forgot /\ untold
      BY <1>10 DEF Unwatched, InWouldBePause
    <3> QED
      BY <1>6, <1>7, <1>10, <3>1 DEF UntoldInv
  <2>2. observed.last = now
    BY <1>4, <1>11
  <2>3. seen.clock.evaluated <= observed.last /\ stored'.clock.evaluated <= observed.last
    BY <1>1, <1>5, <1>8, <2>2 DEF NoneAhead
  <2> QED
    BY <1>8, <2>1, <2>2, <2>3
<1>12. CASE ~Unwatched /\ observed.last # now
  <2>1. untold /\ ~Forgot
    BY <1>10, <1>12 DEF Unwatched, InWouldBePause
  <2>2. memo.gap /\ memo'.gap
    BY <1>6, <1>7, <1>10, <2>1 DEF UntoldInv
  <2>3. memo.clock.last # now
    BY <1>1, <1>4, <1>12, <2>1, RememberedIs, NowTyped DEF Larger, NoneAhead
  <2>4. stored.phase = "Running" => current \/ seen.phase = "Running"
    BY <2>1, <2>3 DEF UntoldInv
  <2>5. current => seen = stored
    BY DEF KnownInv
  <2>6. stored.phase = "Running" => seen.phase = "Running"
    BY <2>4, <2>5
  <2>7. CASE stored.phase # "Running"
    <3>1. stored' = object /\ current => object.phase # "Running"
      <4>1. SUFFICES ASSUME current, stored' = object PROVE object.phase # "Running"
        OBVIOUS
      <4>2. seen.phase # "Running"
        BY <2>5, <2>7, <4>1
      <4>3. Gap
        BY <1>7, <2>2
      <4> QED
        BY <1>2, <1>10, <4>1, <4>2, <4>3 DEF Decides
    <3>2. stored'.phase # "Running"
      BY <1>5, <2>7, <3>1
    <3> QED
      BY <2>2, <3>2
  <2>8. CASE stored.phase = "Running"
    <3>1. /\ ~(now - observed.last >= Floor)
          /\ Remembered.evaluated <= observed.last
          /\ seen.clock.evaluated <= observed.last /\ stored.clock.evaluated <= observed.last
      BY <1>3, <1>12, <2>1, <2>8, UntoldIsRecent
    <3>2. seen.phase = "Running"
      BY <2>6, <2>8
    <3>3. ~Readable(cpu, query)
      <4>1. Gap
        BY <1>7, <2>2
      <4> QED
        BY <1>2, <1>3, <1>10, <3>1, <3>2, <4>1 DEF Decides
    <3>4. observed.evaluated <= observed.last
      BY <1>4, <3>1, <3>3
    <3>5. stored'.clock.evaluated <= observed.last
      BY <1>5, <3>1, <3>4
    <3> QED
      BY <2>2, <3>1, <3>2, <3>4, <3>5
  <2> QED
    BY <2>7, <2>8
<1> QED
  BY <1>11, <1>12

LEMMA UntoldOfOthers ==
  ASSUME Assumptions, TimeInv, KnownInv, UntoldInv,
         Wakes \/ Pauses \/ Refill \/ Restart \/ Stamp \/ Hold \/ Deploy \/ Tick
  PROVE  UntoldInv'
<1>1. TypeOK /\ NoneAhead /\ stored \in Object /\ seen \in Object
  BY DEF TimeInv, TypeOK
<1>2. current => seen = stored
  BY DEF KnownInv
<1>3. CASE Wakes
  BY <1>3, WakesIs DEF UntoldInv
<1>4. CASE Pauses
  <2>1. stored'.phase = "Paused"
    BY <1>1, <1>4 DEF Pauses, Object
  <2> QED
    BY <1>4, <2>1 DEF Pauses, UntoldInv, Forgot
<1>5. CASE Refill
  BY <1>5 DEF Refill, UntoldInv, Forgot
<1>6. CASE Restart
  BY <1>6 DEF Restart, UntoldInv, Forgot
<1>7. CASE Stamp
  <2>1. stored'.clock = stored.clock /\ stored'.phase = stored.phase
    BY <1>1, <1>7 DEF Stamp, Object
  <2> QED
    BY <1>2, <1>7, <2>1 DEF Stamp, UntoldInv, Forgot
<1>8. CASE Hold
  <2>1. stored'.clock = stored.clock /\ stored'.phase = stored.phase
    BY <1>1, <1>8 DEF Hold, Object
  <2> QED
    BY <1>2, <1>8, <2>1 DEF Hold, UntoldInv, Forgot
<1>9. CASE Deploy
  BY <1>9 DEF Deploy, UntoldInv, Forgot
<1>10. CASE Tick
  BY <1>10 DEF Tick, UntoldInv, Forgot
<1> QED
  BY <1>3, <1>4, <1>5, <1>6, <1>7, <1>8, <1>9, <1>10

LEMMA UntoldKept ==
  ASSUME Assumptions, ~DryRun, TellsFirst, TimeInv, KnownInv, UntoldInv, [Next]_vars
  PROVE  UntoldInv'
<1>1. ASSUME NEW query \in {"active", "quiet", "failed"}, Requested(query) PROVE FALSE
  BY <1>1 DEF Requested
<1>2. CASE Next
  BY <1>1, <1>2, WhatNext, UntoldOfCheck, UntoldOfOthers
<1>3. CASE UNCHANGED vars
  BY <1>3 DEF vars, UntoldInv, Forgot
<1> QED
  BY <1>2, <1>3

LEMMA WhatIsTold ==
  ASSUME Assumptions, ~DryRun, TellsFirst, TimeInv, KnownInv, UntoldInv, [Next]_vars
  PROVE  IdledByClock => ~untold'
<1> SUFFICES ASSUME IdledByClock PROVE ~untold'
  OBVIOUS
<1>1. PICK cpu \in {"failed", "busy", "quiet"}, query \in {"active", "quiet", "failed"} : Check(cpu, query)
  BY WhoIdles
<1>2. now - Observed(cpu, query).last >= Floor /\ ~Unwatched /\ untold' = (untold \/ Unwatched)
  BY <1>1, CheckIdles
<1>3. ~untold
  BY <1>2, UntoldIsRecent DEF IdledByClock
<1> QED
  BY <1>2, <1>3

\* The property GapTold, of a workload that isn't in dry-run: a clock that restarted for a gap in watching has
\* been told of before the workload goes Idle by it, when a pause waits longer than a gap may last: of idleAfter,
\* anything over two minutes, and twenty when the forecast brings it forward (activity.go:302-311).
THEOREM GapsTold == ASSUME Assumptions, ~DryRun, TellsFirst PROVE Spec => GapTold
<1> DEFINE Inv == TimeInv /\ KnownInv /\ UntoldInv
<1>1. Init => Inv
  BY TimeFirst, KnownFirst, UntoldFirst
<1>2. Inv /\ [Next]_vars => Inv'
  BY TimeKept, KnownKept, UntoldKept
<1>3. Inv /\ [Next]_vars => [PausesTold]_vars
  BY WhatIsTold DEF PausesTold
<1> QED
  BY <1>1, <1>2, <1>3, PTL DEF Spec, GapTold
-----------------------------------------------------------------------------
(* Dry-run. *)

\* A clock that's past t tells of use at t or since.
Backs(clock, t) == clock.last > t => used >= t
Clocks == {stored.clock, seen.clock, memo.clock}

\* No stamp, and no clock moved by one, is ahead of the use it told of.  Of a workload in a would-be pause, the
\* cache knows it, or it has just begun; every clock past its beginning is backed by use since, and it's only
\* held if it has been since; and it has been Idle for as long as it has lasted.
DryInv ==
  /\ "Paused" \notin {stored.phase, seen.phase}
  /\ current => seen = stored
  /\ stored.stamp <= used /\ seen.stamp <= used
  /\ \A clock \in Clocks : clock.source = "annotation" => clock.last <= used
  /\ stored.phase = "Idle" =>
       /\ stored.began <= now /\ now - stored.began <= idled
       /\ seen.phase = "Idle" => seen.began = stored.began
       /\ seen.phase # "Idle" => now = stored.began
       /\ \A clock \in Clocks : Backs(clock, stored.began)
       /\ stored.until <= stored.began \/ heldAt >= stored.began

LEMMA DryTyped ==
  ASSUME Assumptions, TimeInv
  PROVE  /\ stored.clock \in Clock /\ seen.clock \in Clock /\ memo.clock \in Clock
         /\ {stored.began, seen.began, heldAt} \subseteq Int /\ {stored.until, seen.until, idled, stored.slept, seen.slept} \subseteq Nat
BY DEF TimeInv, TypeOK, Object, Times, Never, Assumptions

LEMMA DryFirst == ASSUME Assumptions PROVE Init => DryInv
<1> SUFFICES ASSUME Init PROVE DryInv
  OBVIOUS
<1>1. /\ stored.phase = "Running" /\ seen.phase = "Running" /\ seen = stored /\ stored.stamp = -1 /\ used = 0
      /\ stored.clock = Fresh(0, "woke") /\ memo.clock = Fresh(0, "woke") /\ Fresh(0, "woke").source = "woke"
  BY DEF Init, New, Never, Fresh
<1> QED
  BY <1>1 DEF DryInv, Clocks

\* A clock that activity at t moves is t's, or as it was.
LEMMA EitherOf ==
  ASSUME NEW clock \in Clock, NEW t \in Times, NEW source \in Sources
  PROVE  LET r == RecordActivity(clock, t, source)
         IN  r \in Clock /\ ((r.last = t /\ r.source = source) \/ (r.last = clock.last /\ r.source = clock.source))
<1>1. CASE t > clock.last
  <2>1. RecordActivity(clock, t, source) = [last |-> t, source |-> source, evaluated |-> clock.evaluated]
    BY <1>1 DEF RecordActivity, Clock
  <2> QED
    BY <2>1 DEF Clock
<1>2. CASE ~(t > clock.last)
  BY <1>2 DEF RecordActivity
<1> QED
  BY <1>1, <1>2

\* A clock that's no further than use, if a stamp moved it, and backed from t on.
Honest(clock, t, u) ==
  /\ clock.source = "annotation" => clock.last <= u
  /\ clock.last > t => u >= t

\* What a check makes of honest clocks is one, of a would-be pause that began at t, or now.
LEMMA ObservedIsHonest ==
  ASSUME Assumptions, TimeInv, NEW cpu, NEW query, Finds(cpu, query), NEW t \in Int,
         Honest(seen.clock, t, used), Honest(memo.clock, t, used), seen.stamp <= used,
         Unwatched => now <= t
  PROVE  used <= used' /\ used' \in Int /\ Honest(Observed(cpu, query), t, used')
<1>1. /\ TypeOK /\ NoneAhead /\ now \in Times /\ now \in Int /\ used \in Int /\ seen.stamp \in Times /\ seen.stamp \in Int
      /\ Smaller(seen.stamp, now) \in Times /\ Smaller(seen.stamp, now) <= seen.stamp /\ Smaller(seen.stamp, now) \in Int
  BY NowTyped DEF TimeInv, TypeOK, Object, Smaller
<1>2. seen.clock \in Clock /\ memo.clock \in Clock /\ memo.clock.last \in Times /\ memo.clock.source \in Sources
  BY DryTyped DEF Clock
<1>3. used' = IF cpu = "busy" \/ template # seen.hash \/ Counts(cpu, query) THEN now ELSE used
  BY DEF Finds
<1>4. used <= used' /\ used' \in Int /\ used' <= now
  BY <1>1, <1>3 DEF NoneAhead
<1>5. {"unobserved", "used", "annotation"} \subseteq Sources
  BY DEF Sources
<1>6. ASSUME NEW clock \in Clock, Honest(clock, t, used) PROVE Honest(clock, t, used')
  <2>1. clock.last \in Int
    BY DEF Clock, Times
  <2> QED
    BY <1>1, <1>4, <1>6, <2>1 DEF Honest
<1> DEFINE
  watching == IF Unwatched THEN [Remembered EXCEPT !.last = now, !.source = "unobserved"] ELSE Remembered
  rolled == IF template # seen.hash THEN RecordActivity(watching, now, "used") ELSE watching
  stamped == RecordActivity(rolled, Smaller(seen.stamp, now), "annotation")
  busy == cpu = "busy" \/ Counts(cpu, query)
  measured == IF busy THEN RecordActivity(stamped, now, "used") ELSE stamped
<1>7. Observed(cpu, query) = IF Readable(cpu, query) THEN [measured EXCEPT !.evaluated = now] ELSE measured
  BY DEF Observed
<1>8. Remembered \in Clock /\ Honest(Remembered, t, used')
  <2>1. Remembered \in Clock
    BY <1>1, RememberedIs
  <2>2. \/ Remembered.last = seen.clock.last /\ Remembered.source = seen.clock.source
        \/ Remembered.last = memo.clock.last /\ Remembered.source = memo.clock.source
    <3> DEFINE r == RecordActivity(seen.clock, memo.clock.last, memo.clock.source)
    <3>1. Remembered = seen.clock \/ Remembered = [r EXCEPT !.evaluated = Larger(@, memo.clock.evaluated)]
      BY DEF Remembered
    <3>2. /\ r \in Clock
          /\ \/ r.last = memo.clock.last /\ r.source = memo.clock.source
             \/ r.last = seen.clock.last /\ r.source = seen.clock.source
      BY <1>2, EitherOf
    <3> HIDE DEF r
    <3> QED
      BY <3>1, <3>2 DEF Clock
  <2> QED
    BY <1>2, <1>6, <2>1, <2>2 DEF Honest
<1>9. watching \in Clock /\ Honest(watching, t, used')
  <2>1. CASE Unwatched
    <3>1. watching = [last |-> now, source |-> "unobserved", evaluated |-> Remembered.evaluated]
      BY <1>8, <2>1 DEF Clock
    <3> QED
      BY <1>1, <1>5, <1>8, <2>1, <3>1 DEF Clock, Honest
  <2>2. CASE ~Unwatched
    BY <1>8, <2>2
  <2> QED
    BY <2>1, <2>2
<1> HIDE DEF watching
<1>10. ASSUME NEW clock \in Clock, Honest(clock, t, used'), used' = now
       PROVE  RecordActivity(clock, now, "used") \in Clock /\ Honest(RecordActivity(clock, now, "used"), t, used')
  <2> DEFINE r == RecordActivity(clock, now, "used")
  <2>1. r \in Clock /\ ((r.last = now /\ r.source = "used") \/ (r.last = clock.last /\ r.source = clock.source))
    BY <1>1, <1>5, EitherOf
  <2> HIDE DEF r
  <2>2. Honest(r, t, used')
    BY <1>1, <1>10, <2>1 DEF Honest
  <2> QED
    BY <2>1, <2>2 DEF r
<1>11. rolled \in Clock /\ Honest(rolled, t, used')
  BY <1>3, <1>9, <1>10
<1> HIDE DEF rolled
<1>12. stamped \in Clock /\ Honest(stamped, t, used')
  <2>1. /\ stamped \in Clock
        /\ \/ stamped.last = Smaller(seen.stamp, now)
           \/ stamped.last = rolled.last /\ stamped.source = rolled.source
    BY <1>1, <1>5, <1>11, EitherOf
  <2>2. Smaller(seen.stamp, now) <= used'
    BY <1>1, <1>4
  <2> HIDE DEF stamped
  <2> QED
    BY <1>1, <1>4, <1>11, <2>1, <2>2 DEF Honest
<1> HIDE DEF stamped
<1>13. measured \in Clock /\ Honest(measured, t, used')
  BY <1>3, <1>10, <1>12
<1> HIDE DEF measured
<1>14. Observed(cpu, query).last = measured.last /\ Observed(cpu, query).source = measured.source
  BY <1>7, <1>13 DEF Clock
<1> QED
  BY <1>4, <1>13, <1>14 DEF Honest

\* An object that keeps another's clock and what people set on it.
Keeps(object, as) ==
  /\ object \in Object /\ object.clock = as.clock /\ object.stamp = as.stamp /\ object.until = as.until

LEMMA MovedKeeps ==
  ASSUME TypeOK, NEW object \in Object, NEW phase \in {"Running", "Idle", "Paused"}
  PROVE  /\ Keeps(Moved(object, phase), object)
         /\ Moved(object, phase).phase = phase /\ Moved(object, phase).began = now /\ Moved(object, phase).slept = object.slept
<1>0. Moved(object, phase) = [object EXCEPT !.phase = phase, !.began = now]
  BY DEF Moved
<1>1. Moved(object, phase) =
        [phase |-> phase, clock |-> object.clock, hash |-> object.hash, began |-> now,
         pauses |-> object.pauses, slept |-> object.slept, held |-> object.held, told |-> object.told,
         stamp |-> object.stamp, until |-> object.until]
  BY <1>0 DEF Object
<1>2. now \in Times
  BY DEF TypeOK, Times, Never
<1> QED
  BY <1>1, <1>2 DEF Object, Keeps

LEMMA BeginKeeps ==
  ASSUME NEW object \in Object, NEW held \in BOOLEAN
  PROVE  Keeps(BeginWouldBePause(object, held), object) /\ BeginWouldBePause(object, held).slept = object.slept
<1>1. CASE DryRun
  <2>1. BeginWouldBePause(object, held) =
          [phase |-> object.phase, clock |-> object.clock, hash |-> object.hash, began |-> object.began,
           pauses |-> object.pauses + 1, slept |-> object.slept, held |-> held, told |-> object.told,
           stamp |-> object.stamp, until |-> object.until]
    BY <1>1 DEF BeginWouldBePause, Object
  <2> QED
    BY <2>1 DEF Object, Keeps
<1>2. CASE ~DryRun
  BY <1>2 DEF BeginWouldBePause, Keeps
<1> QED
  BY <1>1, <1>2

\* What the end of a would-be pause adds is from its beginning to the last use.
LEMMA EndKeeps ==
  ASSUME NEW object \in Object
  PROVE  /\ Keeps(EndWouldBePause(object), object)
         /\ \/ EndWouldBePause(object).slept = object.slept
            \/ EndWouldBePause(object).slept = object.slept + object.clock.last - object.began
<1>1. CASE DryRun /\ object.pauses > 0
  <2> DEFINE slept == object.slept + Larger(object.clock.last - object.began, 0)
  <2>1. EndWouldBePause(object) = [object EXCEPT !.slept = slept, !.held = FALSE]
    BY <1>1 DEF EndWouldBePause, Object
  <2>2. object.clock \in Clock /\ object.began \in Int /\ object.slept \in Nat
    BY DEF Object, Times
  <2>3. object.clock.last \in Int
    BY <2>2 DEF Clock, Times
  <2>4. slept \in Nat /\ (slept = object.slept \/ slept = object.slept + object.clock.last - object.began)
    BY <2>2, <2>3 DEF Larger
  <2> HIDE DEF slept
  <2>5. EndWouldBePause(object) =
          [phase |-> object.phase, clock |-> object.clock, hash |-> object.hash, began |-> object.began,
           pauses |-> object.pauses, slept |-> slept, held |-> FALSE, told |-> object.told,
           stamp |-> object.stamp, until |-> object.until]
    BY <2>1 DEF Object
  <2> QED
    BY <2>4, <2>5 DEF Object, Keeps
<1>2. CASE ~(DryRun /\ object.pauses > 0)
  BY <1>2 DEF EndWouldBePause, Keeps
<1> QED
  BY <1>1, <1>2

\* A would-be pause goes on, or not yet, ends, or begins.
GoesOn(object) == object.phase = seen.phase /\ object.began = seen.began /\ object.slept = seen.slept
EndsNow(object) ==
  /\ seen.phase = "Idle" /\ object.phase = "Running" /\ object.began = now
  /\ object.slept = seen.slept \/ object.slept = seen.slept + object.clock.last - seen.began
  /\ \/ seen.until > now
     \/ object.clock.last > seen.began
     \/ object.clock.source = "annotation" /\ object.clock.last >= seen.began
BeginsNow(object) ==
  /\ seen.phase = "Running" /\ object.phase = "Idle" /\ object.began = now /\ object.slept = seen.slept
  /\ seen.until <= now

\* An object may be written, if the cache is current.
MayWrite(object) ==
  /\ seen' = seen
  /\ \/ stored' = stored /\ current' = current
     \/ stored' = (IF current THEN object ELSE stored) /\ current' = FALSE

LEMMA CheckWrites ==
  ASSUME Assumptions, TimeInv, NEW cpu, NEW query, Check(cpu, query)
  PROVE  /\ Finds(cpu, query) /\ seen.phase # "Paused" /\ UNCHANGED <<now, template, chances, heldAt, idled>>
         /\ memo'.clock = Observed(cpu, query)
         /\ \E object \in Object :
              /\ object.clock = Observed(cpu, query) /\ object.stamp = seen.stamp /\ object.until = seen.until
              /\ MayWrite(object)
              /\ GoesOn(object) \/ EndsNow(object) \/ BeginsNow(object)
<1> DEFINE checked == Checked(cpu, query)
<1>0. TypeOK /\ NoneAhead /\ seen \in Object
  BY DEF TimeInv, TypeOK
<1>1. /\ checked \in Object /\ checked.clock = Observed(cpu, query) /\ checked.phase = seen.phase
      /\ checked.stamp = seen.stamp /\ checked.until = seen.until /\ checked.began = seen.began
  BY <1>0, CheckedIs
<1>2. checked.slept = seen.slept
  BY <1>0 DEF Checked, Object
<1>3. \/ StaysUp(checked) \/ RunsOut(checked, FALSE) \/ RunsOut(checked, TRUE) \/ HeldBack(checked)
      \/ CantTell(checked)
  BY DEF Check
<1>4. seen.phase # "Paused" /\ Finds(cpu, query) /\ UNCHANGED <<now, template, chances, heldAt, idled>>
  BY DEF Check
<1> HIDE DEF checked
<1>5. GoesOn(checked)
  BY <1>1, <1>2 DEF GoesOn
<1>6. Persist(checked) => MayWrite(checked)
  BY DEF Persist, Writes, MayWrite
<1> DEFINE Written(object) ==
  /\ object \in Object /\ object.clock = Observed(cpu, query) /\ object.stamp = seen.stamp /\ object.until = seen.until
  /\ MayWrite(object) /\ (GoesOn(object) \/ EndsNow(object) \/ BeginsNow(object))
<1>7. Persist(checked) => Written(checked)
  BY <1>1, <1>5, <1>6
<1>8. memo'.clock = Observed(cpu, query)
  <2>1. \E gap : Remember(checked.clock, gap)
    BY <1>3, Zenon DEF StaysUp, RunsOut, HeldBack, CantTell
  <2> QED
    BY <1>1, <2>1 DEF Remember
<1>9. ASSUME StaysUp(checked) PROVE \E object : Written(object)
  <2> DEFINE ended == IF Gap THEN checked ELSE EndWouldBePause(checked)
  <2> DEFINE running == Moved(ended, "Running")
  <2>1. /\ Keeps(ended, checked)
        /\ ended.slept = checked.slept \/ ended.slept = checked.slept + checked.clock.last - checked.began
    BY <1>1, EndKeeps DEF Keeps
  <2>2. IF checked.phase = "Idle" THEN Writes(running) ELSE Persist(checked)
    BY <1>9 DEF StaysUp
  <2>3. checked.until > now \/ ActiveSinceClockRanOut(checked)
    BY <1>9 DEF StaysUp
  <2> HIDE DEF ended
  <2>4. Keeps(running, checked) /\ running.phase = "Running" /\ running.began = now /\ running.slept = ended.slept
    BY <1>0, <2>1, MovedKeeps DEF Keeps
  <2> HIDE DEF running
  <2>5. CASE checked.phase = "Idle"
    <3>1. MayWrite(running)
      BY <2>2, <2>5 DEF Writes, MayWrite
    <3>2. EndsNow(running)
      BY <1>1, <1>2, <2>1, <2>3, <2>4, <2>5 DEF EndsNow, Keeps, ActiveSinceClockRanOut
    <3>3. Written(running)
      BY <1>1, <2>4, <3>1, <3>2 DEF Keeps
    <3> QED
      BY <3>3
  <2>6. CASE checked.phase # "Idle"
    BY <1>7, <2>2, <2>6
  <2> QED
    BY <2>5, <2>6
<1>10. ASSUME NEW early \in BOOLEAN, RunsOut(checked, early) PROVE \E object : Written(object)
  <2> DEFINE begun == BeginWouldBePause(checked, FALSE)
  <2> DEFINE idle == Moved(begun, "Idle")
  <2>1. Keeps(begun, checked) /\ begun.slept = checked.slept
    BY <1>1, BeginKeeps
  <2>2. IF checked.phase = "Running" THEN Writes(idle) ELSE Persist(checked)
    BY <1>10 DEF RunsOut
  <2>3. checked.until <= now
    BY <1>10 DEF RunsOut, MayPauseEarly
  <2> HIDE DEF begun
  <2>4. Keeps(idle, checked) /\ idle.phase = "Idle" /\ idle.began = now /\ idle.slept = begun.slept
    BY <1>0, <2>1, MovedKeeps DEF Keeps
  <2> HIDE DEF idle
  <2>5. CASE checked.phase = "Running"
    <3>1. MayWrite(idle)
      BY <2>2, <2>5 DEF Writes, MayWrite
    <3>2. BeginsNow(idle)
      BY <1>1, <1>2, <2>1, <2>3, <2>4, <2>5 DEF BeginsNow
    <3>3. Written(idle)
      BY <1>1, <2>4, <3>1, <3>2 DEF Keeps
    <3> QED
      BY <3>3
  <2>6. CASE checked.phase # "Running"
    BY <1>7, <2>2, <2>6
  <2> QED
    BY <2>5, <2>6
<1>11. \E object : Written(object)
  BY <1>3, <1>7, <1>9, <1>10 DEF HeldBack, CantTell
<1> QED
  BY <1>4, <1>8, <1>11

\* When a would-be pause began, if there's one.
Since == IF stored.phase = "Idle" THEN stored.began ELSE now

LEMMA AllHonest ==
  ASSUME Assumptions, TimeInv, DryInv
  PROVE  Since \in Int /\ \A clock \in Clocks : Honest(clock, Since, used)
<1>1. /\ now \in Int /\ stored.began \in Int /\ used \in Int
      /\ \A clock \in Clocks : clock.last \in Int /\ clock.last <= now
  BY NowTyped, DryTyped DEF TimeInv, NoneAhead, Clocks
<1> QED
  BY <1>1 DEF DryInv, Backs, Honest, Since

\* What a check of a workload in dry-run finds is honest of its would-be pause.
LEMMA DryObserved ==
  ASSUME Assumptions, DryRun, TimeInv, DryInv, NEW cpu, NEW query, Finds(cpu, query)
  PROVE  used <= used' /\ used' \in Int /\ Honest(Observed(cpu, query), Since, used')
<1>1. Unwatched => now <= Since
  BY NowTyped, DryTyped DEF Unwatched, InWouldBePause, Since, DryInv, TimeInv
<1> QED
  BY <1>1, AllHonest, ObservedIsHonest DEF Clocks, DryInv

LEMMA DryOfCheck ==
  ASSUME Assumptions, DryRun, TimeInv, DryInv, NEW cpu, NEW query, Check(cpu, query)
  PROVE  DryInv' /\ EndsByUse /\ CountsIdleTime
<1>1. PICK object \in Object :
        /\ object.clock = Observed(cpu, query) /\ object.stamp = seen.stamp /\ object.until = seen.until
        /\ MayWrite(object)
        /\ GoesOn(object) \/ EndsNow(object) \/ BeginsNow(object)
  BY CheckWrites
<1>2. /\ Finds(cpu, query) /\ memo'.clock = Observed(cpu, query)
      /\ now' = now /\ heldAt' = heldAt /\ idled' = idled /\ seen' = seen
  BY <1>1, CheckWrites DEF MayWrite
<1>3. /\ used <= used' /\ used' \in Int /\ used \in Int /\ now \in Int /\ idled \in Int /\ heldAt \in Int
      /\ {stored.began, seen.began, stored.until, stored.slept, stored.stamp, seen.stamp} \subseteq Int
      /\ stored.clock.last \in Int /\ seen.clock.last \in Int
  BY <1>2, DryObserved, NowTyped, DryTyped DEF TimeInv
<1>4. Observed(cpu, query).last \in Int /\ Observed(cpu, query).last <= now
  BY ObservedIs DEF TimeInv, Clock, Times
<1>5. PICK observed : observed = Observed(cpu, query)
  OBVIOUS
<1>6. /\ observed.last \in Int /\ observed.last <= now /\ object.clock = observed /\ memo'.clock = observed
      /\ observed.source = "annotation" => observed.last <= used'
      /\ stored.phase = "Idle" /\ observed.last > stored.began => used' >= stored.began
  BY <1>1, <1>2, <1>4, <1>5, DryObserved DEF Honest, Since
<1>7. CASE stored' = stored
  <2>1. current' => current
    BY <1>1 DEF MayWrite
  <2>2. \A clock \in Clocks' : clock.source = "annotation" => clock.last <= used'
    BY <1>2, <1>3, <1>6, <1>7 DEF Clocks, DryInv
  <2>3. stored.phase = "Idle" => \A clock \in Clocks' : clock.last > stored.began => used' >= stored.began
    BY <1>2, <1>3, <1>6, <1>7 DEF Clocks, DryInv, Backs
  <2>4. DryInv'
    BY <1>2, <1>3, <1>7, <2>1, <2>2, <2>3 DEF DryInv, Backs
  <2> QED
    BY <1>3, <1>7, <2>4 DEF EndsByUse, CountsIdleTime
<1>8. CASE stored' # stored
  <2>1. current /\ stored' = object /\ current' = FALSE /\ seen = stored
    BY <1>1, <1>8 DEF MayWrite, DryInv
  <2>2. \A clock \in Clocks' : clock.source = "annotation" => clock.last <= used'
    BY <1>2, <1>3, <1>6, <2>1 DEF Clocks, DryInv
  <2>3. /\ \A clock \in Clocks' : clock.last <= now
        /\ stored.phase = "Idle" => \A clock \in Clocks' : clock.last > stored.began => used' >= stored.began
    BY <1>2, <1>3, <1>6, <2>1 DEF Clocks, DryInv, Backs, TimeInv, NoneAhead
  <2>4. stored'.stamp <= used' /\ seen'.stamp <= used' /\ stored'.until = stored.until
    BY <1>1, <1>2, <1>3, <2>1 DEF DryInv
  <2>5. CASE GoesOn(object)
    <3>1. stored'.phase = stored.phase /\ stored'.began = stored.began /\ stored'.slept = stored.slept
      BY <2>1, <2>5 DEF GoesOn
    <3>2. DryInv'
      BY <1>2, <1>3, <2>1, <2>2, <2>3, <2>4, <3>1 DEF DryInv, Backs
    <3> QED
      BY <1>3, <3>1, <3>2 DEF EndsByUse, CountsIdleTime
  <2>6. CASE EndsNow(object)
    <3>1. /\ stored.phase = "Idle" /\ stored'.phase = "Running"
          /\ stored'.slept = stored.slept \/ stored'.slept = stored.slept + observed.last - stored.began
          /\ \/ stored.until > now
             \/ observed.last > stored.began
             \/ observed.source = "annotation" /\ observed.last >= stored.began
      BY <1>6, <2>1, <2>6 DEF EndsNow
    <3>2. DryInv'
      BY <1>2, <2>1, <2>2, <2>4, <3>1 DEF DryInv
    <3>3. stored.began <= now /\ now - stored.began <= idled /\ (stored.until <= stored.began \/ heldAt >= stored.began)
      BY <3>1 DEF DryInv
    <3>4. used' >= stored.began \/ heldAt' >= stored.began
      BY <1>2, <1>3, <1>6, <3>1, <3>3
    <3>5. EndsByUse
      BY <1>2, <1>3, <3>4 DEF EndsByUse, Larger
    <3>6. CountsIdleTime
      BY <1>3, <1>6, <3>1, <3>3 DEF CountsIdleTime
    <3> QED
      BY <3>2, <3>5, <3>6
  <2>7. CASE BeginsNow(object)
    <3>1. /\ stored.phase = "Running" /\ stored'.phase = "Idle" /\ stored'.began = now /\ stored'.slept = stored.slept
          /\ stored.until <= now
      BY <2>1, <2>7 DEF BeginsNow
    <3>2. idled >= 0
      BY DryTyped
    <3>3. \A clock \in Clocks' : ~(clock.last > now)
      BY <1>2, <1>3, <1>6, <2>1, <2>3 DEF Clocks
    <3>4. DryInv'
      BY <1>2, <1>3, <2>1, <2>2, <2>4, <3>1, <3>2, <3>3 DEF DryInv, Backs
    <3> QED
      BY <1>3, <3>1, <3>4 DEF EndsByUse, CountsIdleTime
  <2> QED
    BY <1>1, <2>5, <2>6, <2>7
<1> QED
  BY <1>7, <1>8

LEMMA DryOfRequest ==
  ASSUME Assumptions, DryRun, TimeInv, DryInv, NEW query \in {"active", "quiet", "failed"}, Requested(query)
  PROVE  DryInv' /\ EndsByUse /\ CountsIdleTime
<1> DEFINE begun == BeginWouldBePause(seen, query = "active")
<1> DEFINE idle == Moved(begun, "Idle")
<1>1. TypeOK /\ seen \in Object /\ now \in Int /\ idled \in Nat /\ stored.slept \in Nat
  BY NowTyped, DryTyped DEF TimeInv, TypeOK
<1>2. Keeps(begun, seen) /\ begun.slept = seen.slept
  BY <1>1, BeginKeeps
<1>3. /\ Writes(idle) /\ seen.phase = "Running" /\ seen.until <= now
      /\ UNCHANGED <<now, memo, used, heldAt, idled>>
  BY DEF Requested
<1> HIDE DEF begun
<1>4. Keeps(idle, seen) /\ idle.phase = "Idle" /\ idle.began = now /\ idle.slept = seen.slept
  BY <1>1, <1>2, MovedKeeps DEF Keeps
<1> HIDE DEF idle
<1>5. current' = FALSE /\ seen' = seen /\ stored' = IF current THEN idle ELSE stored
  BY <1>3 DEF Writes
<1>6. CASE current
  <2>1. /\ seen = stored /\ stored'.phase = "Idle" /\ stored'.began = now /\ stored'.slept = stored.slept
        /\ stored'.clock = stored.clock /\ stored'.stamp = stored.stamp /\ stored'.until = stored.until
    BY <1>4, <1>5, <1>6 DEF DryInv, Keeps
  <2>2. Clocks' = Clocks
    BY <1>3, <1>5, <2>1 DEF Clocks
  <2>3. \A clock \in Clocks : ~(clock.last > now)
    BY <1>1, NowTyped DEF Clocks, TimeInv, NoneAhead
  <2>4. DryInv'
    BY <1>1, <1>3, <1>5, <2>1, <2>2, <2>3 DEF DryInv, Backs
  <2> QED
    BY <1>1, <2>1, <2>4 DEF EndsByUse, CountsIdleTime
<1>7. CASE ~current
  <2>1. stored' = stored /\ Clocks' = Clocks
    BY <1>3, <1>5, <1>7 DEF Clocks
  <2>2. DryInv'
    BY <1>3, <1>5, <1>7, <2>1 DEF DryInv, Backs
  <2> QED
    BY <1>1, <2>1, <2>2 DEF EndsByUse, CountsIdleTime
<1> QED
  BY <1>6, <1>7

\* Nobody else begins or ends a would-be pause.
LEMMA DryOfOthers ==
  ASSUME Assumptions, DryRun, TimeInv, DryInv, Refill \/ Restart \/ Stamp \/ Hold \/ Deploy \/ Tick
  PROVE  DryInv' /\ stored'.phase = stored.phase /\ stored'.slept = stored.slept
<1>1. /\ TypeOK /\ NoneAhead /\ stored \in Object /\ seen \in Object
      /\ now \in Nat /\ used \in Int /\ heldAt \in Int /\ idled \in Nat /\ stored.began \in Int /\ stored.stamp \in Int
      /\ \A clock \in Clocks : clock.last \in Int
  BY NowTyped, DryTyped DEF TimeInv, TypeOK, Clocks
<1>2. CASE Refill
  <2>1. seen' = stored /\ UNCHANGED <<stored, memo, now, used, heldAt, idled>> /\ Clocks' \subseteq Clocks
    BY <1>2 DEF Refill, Clocks
  <2> QED
    BY <2>1 DEF DryInv, Backs
<1>3. CASE Restart
  <2>1. seen' = stored /\ memo' = Nothing /\ UNCHANGED <<stored, now, used, heldAt, idled>>
    BY <1>3 DEF Restart
  <2>2. Nothing.clock.last = -1 /\ Nothing.clock.source = "woke"
    BY DEF Nothing, Fresh, Never
  <2>3. \A clock \in Clocks' : clock \in Clocks \/ (clock.last = -1 /\ clock.source = "woke")
    BY <2>1, <2>2 DEF Clocks
  <2>4. stored.phase = "Idle" => stored.began >= 0 \/ used >= stored.began
    BY <1>1, NowTyped DEF NoneAhead, Object, Times, Never, TypeOK, TimeInv
  <2> QED
    BY <1>1, <2>1, <2>3, <2>4 DEF DryInv, Backs
<1>4. CASE Stamp
  <2>1. /\ stored' = [stored EXCEPT !.stamp = now] /\ current' = FALSE /\ used' = now
        /\ UNCHANGED <<now, seen, memo, heldAt, idled>>
    BY <1>4 DEF Stamp
  <2>2. /\ stored'.phase = stored.phase /\ stored'.slept = stored.slept /\ stored'.clock = stored.clock
        /\ stored'.began = stored.began /\ stored'.until = stored.until /\ stored'.stamp = now
    BY <1>1, <2>1 DEF Object
  <2>3. used <= used' /\ used' \in Int /\ Clocks' = Clocks
    BY <1>1, <2>1, <2>2 DEF NoneAhead, Clocks
  <2>4. seen.stamp \in Int
    BY NowTyped DEF TimeInv
  <2> QED
    BY <1>1, <2>1, <2>2, <2>3, <2>4 DEF DryInv, Backs
<1>5. CASE Hold
  <2>1. /\ stored' = [stored EXCEPT !.until = now + HoldFor] /\ current' = FALSE /\ heldAt' = now
        /\ UNCHANGED <<now, seen, memo, used, idled>>
    BY <1>5 DEF Hold
  <2>2. /\ stored'.phase = stored.phase /\ stored'.slept = stored.slept /\ stored'.clock = stored.clock
        /\ stored'.began = stored.began /\ stored'.stamp = stored.stamp
    BY <1>1, <2>1 DEF Object
  <2>3. Clocks' = Clocks
    BY <2>1, <2>2 DEF Clocks
  <2> QED
    BY <1>1, <2>1, <2>2, <2>3 DEF DryInv, Backs
<1>6. CASE Deploy
  BY <1>6 DEF Deploy, DryInv, Backs, Clocks
<1>7. CASE Tick
  <2>1. /\ current /\ now' = now + 1 /\ idled' = (IF stored.phase = "Idle" THEN idled + 1 ELSE 0)
        /\ UNCHANGED <<stored, seen, current, memo, used, heldAt>> /\ Clocks' = Clocks
    BY <1>7 DEF Tick, Clocks
  <2> QED
    BY <1>1, <2>1 DEF DryInv, Backs
<1> QED
  BY <1>2, <1>3, <1>4, <1>5, <1>6, <1>7

LEMMA DryStep ==
  ASSUME Assumptions, DryRun, TimeInv, DryInv, [Next]_vars
  PROVE  DryInv' /\ EndsByUse /\ CountsIdleTime
<1>1. stored.slept \in Nat
  BY DryTyped
<1>2. ~Pauses /\ ~Wakes
  BY DEF Pauses, Wakes, DryInv
<1>3. CASE Refill \/ Restart \/ Stamp \/ Hold \/ Deploy \/ Tick
  <2>1. DryInv' /\ stored'.phase = stored.phase /\ stored'.slept = stored.slept
    BY <1>3, DryOfOthers
  <2> QED
    BY <1>1, <2>1 DEF EndsByUse, CountsIdleTime
<1>4. CASE UNCHANGED vars
  BY <1>1, <1>4 DEF vars, DryInv, Clocks, Backs, EndsByUse, CountsIdleTime
<1>5. CASE Next
  BY <1>2, <1>3, <1>5, WhatNext, DryOfCheck, DryOfRequest
<1> QED
  BY <1>4, <1>5

\* The property WouldBePausesCounted, of a workload in dry-run: what ends a would-be pause is use or a hold since it
\* began, never a gap or a query that showed activity as it was asked for, and what it adds to the time slept is
\* time the workload was Idle for (dryrun.go:76-133, activity.go:205-208, 943-961).
THEOREM WouldBePausesTrue == ASSUME Assumptions, DryRun PROVE Spec => WouldBePausesCounted
<1> DEFINE Inv == TimeInv /\ DryInv
<1>1. Init => Inv
  BY TimeFirst, DryFirst
<1>2. Inv /\ [Next]_vars => Inv'
  BY TimeKept, DryStep
<1>3. Inv /\ [Next]_vars => [EndsByUse /\ CountsIdleTime]_vars
  BY DryStep
<1> QED
  BY <1>1, <1>2, <1>3, PTL DEF Spec, WouldBePausesCounted
=============================================================================
