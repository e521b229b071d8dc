--------------------------- MODULE ForesightProofs ---------------------------
(***************************************************************************)
(* Theorems, for every value of the constants, about Foresight, and about  *)
(* Forecast, of which Learning is the instance that is beside it.          *)
(***************************************************************************)
EXTENDS MCForesight, Sequences, FiniteSetTheorems, TLAPS

-----------------------------------------------------------------------------
(* Hours. *)

LEMMA MaxOfTwo == ASSUME NEW m \in Int, NEW k \in Int PROVE Max({m, k}) = IF m >= k THEN m ELSE k
BY DEF Max

\* A time is within its hour.
LEMMA WithinHour ==
  ASSUME Assumptions, NEW t \in Nat
  PROVE  /\ HourOf(t) \in Nat /\ HourStart(t) \in Nat /\ HourStart(t) = Hour * HourOf(t)
         /\ HourStart(t) <= t /\ t < HourStart(t) + Hour
<1>1. Hour \in Nat \ {0}
  BY DEF Assumptions
<1> QED
  BY <1>1 DEF HourOf, HourStart

LEMMA OfItsStart ==
  ASSUME Assumptions, NEW t \in Nat
  PROVE  HourOf(HourStart(t)) = HourOf(t)
<1>1. Hour \in Nat \ {0}
  BY DEF Assumptions
<1>2. ASSUME NEW k \in Nat PROVE (Hour * k) \div Hour = k
  BY <1>1
<1> QED
  BY <1>2, WithinHour DEF HourOf

LEMMA LaterHour ==
  ASSUME Assumptions, NEW t \in Nat, NEW u \in Nat
  PROVE  /\ HourOf(t) >= HourOf(u) => HourStart(t) >= HourStart(u)
         /\ HourOf(t) >= HourOf(u) + 1 => HourStart(t) >= HourStart(u) + Hour
         /\ HourOf(t) >= HourOf(u) + 2 => HourStart(t) >= HourStart(u) + 2 * Hour
<1>1. Hour \in Nat \ {0}
  BY DEF Assumptions
<1>2. ASSUME NEW m \in Nat, NEW k \in Nat
      PROVE  /\ m >= k => Hour * m >= Hour * k
             /\ m >= k + 1 => Hour * m >= Hour * k + Hour
             /\ m >= k + 2 => Hour * m >= Hour * k + 2 * Hour
  BY <1>1
<1>3. /\ HourOf(t) \in Nat /\ HourStart(t) = Hour * HourOf(t)
      /\ HourOf(u) \in Nat /\ HourStart(u) = Hour * HourOf(u)
  BY WithinHour
<1> QED
  BY <1>2, <1>3

LEMMA HoursInOrder ==
  ASSUME Assumptions, NEW t \in Nat, NEW u \in Nat
  PROVE  /\ t <= u => HourOf(t) <= HourOf(u)
         /\ t >= HourStart(u) => HourOf(t) >= HourOf(u)
<1>1. /\ Hour \in Nat \ {0}
      /\ HourOf(t) \in Nat /\ HourStart(t) \in Nat /\ HourStart(t) <= t /\ t < HourStart(t) + Hour
      /\ HourOf(u) \in Nat /\ HourStart(u) \in Nat /\ HourStart(u) <= u /\ u < HourStart(u) + Hour
  BY WithinHour DEF Assumptions
<1>2. ASSUME HourOf(t) + 1 <= HourOf(u) PROVE t < HourStart(u)
  <2>1. HourStart(u) >= HourStart(t) + Hour
    BY <1>1, <1>2, LaterHour
  <2> QED
    BY <1>1, <2>1
<1>3. ASSUME t <= u, HourOf(u) + 1 <= HourOf(t) PROVE FALSE
  <2>1. HourStart(t) >= HourStart(u) + Hour
    BY <1>1, <1>3, LaterHour
  <2> QED
    BY <1>1, <1>3, <2>1
<1> QED
  BY <1>1, <1>2, <1>3

-----------------------------------------------------------------------------
(* What a look takes for demand is use of the hour it's in. *)

LookedAt == [start : Nat \cup {Never}, first : Nat, last : Nat, busy : BOOLEAN, blind : BOOLEAN]

Clocks ==
  /\ {now, active} \subseteq Nat
  /\ {woke, paused, changed} \subseteq Nat \cup {Never}
  /\ seen \in LookedAt
  /\ active <= now /\ paused < now

\* Use that the activity clock remembers is of its hour, unless that's over, or the workload was starting.
UseRemembered ==
  source => \/ HourOf(active) \in used
            \/ HourOf(active) < HourOf(now)
            \/ woke # Never /\ active < woke + Lead

\* The hour under way is busy only if it was used.
BusyByUse == seen.start # Never /\ seen.busy => HourOf(seen.start) \in used

UseInv == Clocks /\ UseRemembered /\ BusyByUse /\ TaughtByUse

LEMMA NoHourTyped == NoHour \in LookedAt
BY DEF NoHour, LookedAt

LEMMA UseFirst == ASSUME Assumptions PROVE Init => UseInv
<1> SUFFICES ASSUME Init PROVE UseInv
  OBVIOUS
<1>1. Clocks
  <2>1. NoHour \in LookedAt
    BY NoHourTyped
  <2> QED
    BY <2>1 DEF Init, Clocks, Never
<1>2. UseRemembered /\ BusyByUse /\ TaughtByUse
  BY DEF Init, UseRemembered, BusyByUse, TaughtByUse, NoHour, Nothing
<1> QED
  BY <1>1, <1>2 DEF UseInv

\* An hour once over teaches what was seen of it, and the one under way is busy by use.
LEMMA UseSeen ==
  ASSUME Assumptions, UseInv, NEW demand \in BOOLEAN, NEW visible \in BOOLEAN, NEW use \in BOOLEAN,
         demand => use \/ HourOf(now) \in used,
         SeeDemand(demand, visible, use)
  PROVE  /\ BusyByUse' /\ TaughtByUse'
         /\ seen' \in LookedAt
         /\ changed' \in {changed, now}
         /\ used' = {h \in used : h >= HourOf(now)} \cup (IF use THEN {HourOf(now)} ELSE {})
<1>1. now \in Nat /\ HourOf(now) \in Nat /\ HourStart(now) \in Nat /\ HourOf(HourStart(now)) = HourOf(now)
  BY WithinHour, OfItsStart DEF UseInv, Clocks
<1>2. used' = {h \in used : h >= HourOf(now)} \cup (IF use THEN {HourOf(now)} ELSE {})
  BY DEF SeeDemand
<1>3. seen' = Look(now, demand, visible)
  BY DEF SeeDemand
<1>4. seen \in LookedAt
  BY DEF UseInv, Clocks
<1>5. demand => HourOf(now) \in used'
  BY <1>1, <1>2
<1>6. seen' \in LookedAt
  BY <1>1, <1>3, <1>4 DEF Look, LookedAt, UseInv, Clocks
<1>7. seen'.start = HourStart(now) /\ (seen'.busy => demand \/ (seen.start = HourStart(now) /\ seen.busy))
  BY <1>3, <1>4 DEF Look, LookedAt
<1>8. seen.start = HourStart(now) /\ seen.busy => HourOf(now) \in used'
  BY <1>1, <1>2 DEF UseInv, BusyByUse, Never
<1>9. BusyByUse'
  BY <1>1, <1>5, <1>7, <1>8 DEF BusyByUse
<1>10. CASE Over(now) /\ Whole
  <2>1. taught'.busy = seen.busy /\ taught'.used = (HourOf(seen.start) \in used)
        /\ changed' = IF expect' = Ahead(expect) THEN changed ELSE now
    BY <1>10 DEF SeeDemand
  <2>2. TaughtByUse'
    BY <1>10, <2>1 DEF UseInv, BusyByUse, TaughtByUse, Over
  <2> QED
    BY <1>2, <1>6, <1>9, <2>1, <2>2
<1>11. CASE ~(Over(now) /\ Whole)
  BY <1>2, <1>6, <1>9, <1>11 DEF SeeDemand, UseInv, TaughtByUse
<1> QED
  BY <1>10, <1>11

\* What an awake workload's CPU or another source shows is demand only of use, in the same hour.
LEMMA DemandIsUse ==
  ASSUME Assumptions, UseInv, NEW use \in BOOLEAN, NEW cpu \in BOOLEAN, cpu => use \/ Warming(now),
         AwakeDemand(now, cpu)
  PROVE  use \/ HourOf(now) \in used
<1>1. CASE cpu
  BY <1>1 DEF AwakeDemand
<1>2. CASE UsedSince(IF woke = Never THEN HourStart(now) ELSE Max({HourStart(now), woke + Lead}))
  <2>1. /\ now \in Nat /\ HourStart(now) \in Nat /\ HourOf(now) \in Nat /\ Lead \in Nat
        /\ woke \in Nat \cup {Never} /\ active \in Nat /\ active <= now
    BY WithinHour DEF UseInv, Clocks, Assumptions
  <2>2. source /\ active >= HourStart(now) /\ (woke # Never => active >= woke + Lead)
    <3>1. CASE woke = Never
      BY <1>2, <3>1 DEF UsedSince
    <3>2. CASE woke # Never
      <4>1. HourStart(now) \in Int /\ woke + Lead \in Int
        BY <2>1, <3>2
      <4>2. Max({HourStart(now), woke + Lead})
              = IF HourStart(now) >= woke + Lead THEN HourStart(now) ELSE woke + Lead
        BY <4>1, MaxOfTwo
      <4> QED
        BY <1>2, <2>1, <3>2, <4>1, <4>2 DEF UsedSince, Never
    <3> QED
      BY <3>1, <3>2
  <2>3. HourOf(active) \in Nat /\ HourOf(active) <= HourOf(now) /\ HourOf(active) >= HourOf(now)
    BY <2>1, <2>2, HoursInOrder, WithinHour
  <2>4. HourOf(active) = HourOf(now)
    BY <2>1, <2>3
  <2> QED
    BY <2>1, <2>2, <2>4 DEF UseInv, UseRemembered
<1> QED
  BY <1>1, <1>2 DEF AwakeDemand

\* A minute later, the use remembered is of its hour still, or that's over.
LEMMA RememberedLater ==
  ASSUME Assumptions, UseInv, now' = now + 1, UNCHANGED <<woke, active, source>>,
         {h \in used : h >= HourOf(now)} \subseteq used'
  PROVE  UseRemembered'
<1>1. now \in Nat /\ active \in Nat /\ active <= now /\ now' \in Nat /\ now <= now'
  BY DEF UseInv, Clocks
<1>2. HourOf(active) \in Nat /\ HourOf(now) \in Nat /\ HourOf(now') \in Nat
      /\ HourOf(active) <= HourOf(now) /\ HourOf(now) <= HourOf(now')
  BY <1>1, WithinHour, HoursInOrder
<1>3. HourOf(active) \in used => HourOf(active) \in used' \/ HourOf(active) < HourOf(now')
  BY <1>2
<1>4. HourOf(active') = HourOf(active)
  OBVIOUS
<1> QED
  BY <1>2, <1>3, <1>4 DEF UseInv, UseRemembered

LEMMA UseLookAwake ==
  ASSUME Assumptions, UseInv, NEW use \in BOOLEAN, NEW cpu \in BOOLEAN, NEW canWake \in BOOLEAN,
         LookAwake(use, cpu, canWake)
  PROVE  UseInv'
<1>1. /\ SeeDemand(AwakeDemand(now, cpu), TRUE, use) /\ (cpu => use \/ Warming(now))
      /\ now' = now + 1 /\ woke' = woke /\ Active(use, cpu) /\ paused' \in {paused, now}
  BY DEF LookAwake, WhileRunning, WhileIdle, Begin, Stay, Tick
<1>2. AwakeDemand(now, cpu) \in BOOLEAN
  BY DEF AwakeDemand
<1>3. /\ BusyByUse' /\ TaughtByUse'
      /\ seen' \in LookedAt
      /\ changed' \in {changed, now}
      /\ used' = {h \in used : h >= HourOf(now)} \cup (IF use THEN {HourOf(now)} ELSE {})
  BY <1>1, <1>2, DemandIsUse, UseSeen
<1>4. Clocks'
  BY <1>1, <1>3 DEF UseInv, Clocks, Active, Never
<1>5. UseRemembered'
  <2>1. CASE use \/ cpu
    <3>1. active' = now /\ HourOf(active') = HourOf(now)
      BY <1>1, <2>1 DEF Active
    <3>2. ~use => woke' # Never /\ active' < woke' + Lead
      BY <1>1, <2>1, <3>1 DEF Warming
    <3>3. use => HourOf(active') \in used'
      BY <1>3, <3>1
    <3> QED
      BY <3>2, <3>3 DEF UseRemembered
  <2>2. CASE ~(use \/ cpu)
    <3>1. UNCHANGED <<woke, active, source>> /\ {h \in used : h >= HourOf(now)} \subseteq used'
      BY <1>1, <1>3, <2>2 DEF Active
    <3> QED
      BY <1>1, <3>1, RememberedLater
  <2> QED
    BY <2>1, <2>2
<1> QED
  BY <1>3, <1>4, <1>5 DEF UseInv

LEMMA UseLookPaused ==
  ASSUME Assumptions, UseInv, NEW use \in BOOLEAN, NEW routed \in BOOLEAN, LookPaused(use, routed)
  PROVE  UseInv'
<1>1. /\ SeeDemand(use, use \/ routed, use) /\ now' = now + 1
      /\ woke' = woke /\ active' = active /\ source' = source /\ paused' = paused
  BY DEF LookPaused, Tick
<1>2. /\ BusyByUse' /\ TaughtByUse'
      /\ seen' \in LookedAt
      /\ changed' \in {changed, now}
      /\ used' = {h \in used : h >= HourOf(now)} \cup (IF use THEN {HourOf(now)} ELSE {})
  BY <1>1, UseSeen
<1>3. Clocks'
  BY <1>1, <1>2 DEF UseInv, Clocks, Never
<1>4. UseRemembered'
  BY <1>1, <1>2, RememberedLater
<1> QED
  BY <1>2, <1>3, <1>4 DEF UseInv

\* What goes by unseen teaches nothing.
LEMMA UseUnseen ==
  ASSUME Assumptions, UseInv, NEW use \in BOOLEAN, Unseen(use), now' = now + 1,
         UNCHANGED <<woke, active, source, paused>>, seen' \in {seen, NoHour}
  PROVE  UseInv'
<1>1. used \subseteq used' /\ UNCHANGED <<taught, changed>>
  BY DEF Unseen
<1>2. Clocks'
  BY <1>1, NoHourTyped DEF UseInv, Clocks, Never
<1>3. UseRemembered'
  BY <1>1, RememberedLater
<1>4. BusyByUse'
  BY <1>1 DEF UseInv, BusyByUse, NoHour, HourOf
<1>5. TaughtByUse'
  BY <1>1 DEF UseInv, TaughtByUse
<1> QED
  BY <1>2, <1>3, <1>4, <1>5 DEF UseInv

LEMMA UseKept ==
  ASSUME Assumptions, UseInv, [Next]_vars
  PROVE  UseInv'
<1>1. ASSUME NEW use \in BOOLEAN, NEW cpu \in BOOLEAN, NEW canWake \in BOOLEAN, LookAwake(use, cpu, canWake)
      PROVE  UseInv'
  BY <1>1, UseLookAwake
<1>2. ASSUME NEW use \in BOOLEAN, NEW routed \in BOOLEAN, LookPaused(use, routed) PROVE UseInv'
  BY <1>2, UseLookPaused
<1>3. ASSUME NEW use \in BOOLEAN, Midway(use) PROVE UseInv'
  BY <1>3, UseUnseen DEF Midway, Tick
<1>4. CASE PauseDone
  BY <1>4 DEF PauseDone, UseInv, Clocks, UseRemembered, BusyByUse, TaughtByUse, HourOf
<1>5. CASE ResumeDone
  <2>1. Clocks'
    BY <1>5 DEF ResumeDone, UseInv, Clocks
  <2>2. UseRemembered' /\ BusyByUse' /\ TaughtByUse'
    BY <1>5 DEF ResumeDone, UseInv, UseRemembered, BusyByUse, TaughtByUse, HourOf
  <2> QED
    BY <2>1, <2>2 DEF UseInv
<1>6. ASSUME NEW use \in BOOLEAN, NEW restarts \in BOOLEAN, Missed(use, restarts) PROVE UseInv'
  BY <1>6, UseUnseen DEF Missed, Tick
<1>7. CASE UNCHANGED vars
  BY <1>7 DEF vars, UseInv, Clocks, UseRemembered, BusyByUse, TaughtByUse, HourOf
<1> QED
  BY <1>1, <1>2, <1>3, <1>4, <1>5, <1>6, <1>7 DEF Next

\* An hour is only ever taught to have been busy if someone used the workload in it, or asked for it: never for
\* what it does as it starts, however looks, warm-ups, restarts and missed looks fall (AwakeDemand, Hour.Look).
THEOREM TaughtOnlyByUse ==
  ASSUME Assumptions
  PROVE  Spec => []TaughtByUse
<1>1. Init => UseInv
  BY UseFirst
<1>2. UseInv /\ [Next]_vars => UseInv'
  BY UseKept
<1>3. UseInv => TaughtByUse
  BY DEF UseInv
<1> QED
  BY <1>1, <1>2, <1>3, PTL DEF Spec

-----------------------------------------------------------------------------
(* A workload that its clock or the forecast pauses. *)

\* Nothing is forecast busy of the hour it was paused in, nor of the next, while what is forecast is what
\* was then.
QuietSince ==
  phase \in {"Pausing", "Paused"} /\ paused # Never /\ changed <= paused
    => "busy" \notin {Expected(expect, HourOf(paused)), Expected(expect, HourOf(paused) + 1)}

\* Without a back-off to wait for, a pause that's decided begins.
QuietInv == phase # "Idle" /\ QuietSince

LEMMA ExpectedAhead ==
  ASSUME NEW f, NEW h, Expected(Ahead(f), h) = "busy"
  PROVE  Expected(f, h) = "busy"
BY DEF Expected, Ahead

\* Once a look is over, what is forecast is what was, or it's changed now.
LEMMA ForecastSeen ==
  ASSUME NEW demand, NEW visible, NEW use, SeeDemand(demand, visible, use)
  PROVE  changed' = now \/ (changed' = changed /\ expect' = Ahead(expect))
BY DEF SeeDemand

LEMMA QuietFirst == ASSUME Assumptions PROVE Init => QuietInv
BY DEF Init, QuietInv, QuietSince

\* A look that's no pause's beginning leaves what is forecast since the last as quiet as it was.
LEMMA QuietSeen ==
  ASSUME Assumptions, UseInv, QuietSince, NEW demand, NEW visible, NEW use, SeeDemand(demand, visible, use),
         phase \in {"Pausing", "Paused"}, paused' = paused
  PROVE  QuietSince'
<1>1. changed' = now \/ (changed' = changed /\ expect' = Ahead(expect))
  BY ForecastSeen
<1>2. paused < now /\ now \in Nat /\ paused \in Nat \cup {Never}
  BY DEF UseInv, Clocks
<1>3. CASE changed' = now
  BY <1>2, <1>3 DEF QuietSince, Never
<1>4. CASE changed' = changed /\ expect' = Ahead(expect)
  BY <1>4, ExpectedAhead DEF QuietSince, Expected, HourOf
<1> QED
  BY <1>1, <1>3, <1>4

LEMMA QuietKept ==
  ASSUME Assumptions, ~Backoff, UseInv, QuietInv, [Next]_vars
  PROVE  QuietInv'
<1>1. ASSUME NEW use \in BOOLEAN, NEW cpu \in BOOLEAN, NEW canWake \in BOOLEAN, LookAwake(use, cpu, canWake)
      PROVE  QuietInv'
  <2>1. phase = "Running" /\ WhileRunning(canWake)
    BY <1>1 DEF LookAwake, QuietInv
  <2>2. CASE Begin("idle") /\ ~HoldPause(expect', now)
    <3>1. phase' = "Pausing" /\ paused' = now
      BY <2>2 DEF Begin
    <3>2. "busy" \notin {Expected(expect', HourOf(paused')), Expected(expect', HourOf(paused') + 1)}
      BY <2>2, <3>1 DEF HoldPause
    <3> QED
      BY <3>1, <3>2 DEF QuietInv, QuietSince, HourOf, Expected
  <2>3. CASE Stay
    BY <2>1, <2>3 DEF Stay, QuietInv, QuietSince
  <2> QED
    BY <2>1, <2>2, <2>3 DEF WhileRunning
<1>2. ASSUME NEW use \in BOOLEAN, NEW routed \in BOOLEAN, LookPaused(use, routed) PROVE QuietInv'
  <2>1. phase = "Paused" /\ SeeDemand(use, use \/ routed, use) /\ paused' = paused
    BY <1>2 DEF LookPaused
  <2>2. QuietSince'
    BY <2>1, QuietSeen DEF QuietInv
  <2>3. phase' # "Idle"
    BY <1>2 DEF LookPaused
  <2> QED
    BY <2>2, <2>3 DEF QuietInv
<1>3. ASSUME NEW use \in BOOLEAN, Midway(use) PROVE QuietInv'
  BY <1>3 DEF Midway, Unseen, QuietInv, QuietSince, Expected, HourOf
<1>4. CASE PauseDone
  BY <1>4 DEF PauseDone, QuietInv, QuietSince, Expected, HourOf
<1>5. CASE ResumeDone
  BY <1>5 DEF ResumeDone, QuietInv, QuietSince
<1>6. ASSUME NEW use \in BOOLEAN, NEW restarts \in BOOLEAN, Missed(use, restarts) PROVE QuietInv'
  BY <1>6 DEF Missed, Unseen, QuietInv, QuietSince, Expected, HourOf
<1>7. CASE UNCHANGED vars
  BY <1>7 DEF vars, QuietInv, QuietSince, Expected, HourOf
<1> QED
  BY <1>1, <1>2, <1>3, <1>4, <1>5, <1>6, <1>7 DEF Next

\* A wake ahead, by what was forecast as the workload was paused, is of an hour that began after the next, or
\* begins within the lead.
LEMMA WakesLate ==
  ASSUME Assumptions, UseInv, QuietInv, NEW use \in BOOLEAN, NEW routed \in BOOLEAN, LookPaused(use, routed)
  PROVE  WakesBack
<1> SUFFICES ASSUME phase' = "Resuming", reason' = "autoResume", paused # Never, changed' <= paused
             PROVE  now > paused + Hour - Lead
  BY DEF WakesBack
<1>1. /\ now \in Nat /\ paused \in Nat /\ paused < now /\ Lead \in Nat /\ Hour \in Nat \ {0} /\ Lead < Hour
  BY DEF UseInv, Clocks, Assumptions
<1>2. changed' = changed /\ expect' = Ahead(expect)
  <2>1. changed' = now \/ (changed' = changed /\ expect' = Ahead(expect))
    BY ForecastSeen DEF LookPaused
  <2> QED
    BY <1>1, <2>1
<1>3. WakeAhead(expect', now)
  BY DEF LookPaused
<1>4. "busy" \notin {Expected(expect, HourOf(paused)), Expected(expect, HourOf(paused) + 1)}
  BY <1>2 DEF LookPaused, QuietInv, QuietSince
<1>5. /\ HourOf(now) \in Nat /\ HourOf(paused) \in Nat /\ HourOf(now) >= HourOf(paused)
      /\ HourStart(now) \in Nat /\ HourStart(paused) \in Nat
      /\ HourStart(now) <= now /\ paused < HourStart(paused) + Hour
  <2>1. paused <= now
    BY <1>1
  <2>2. HourOf(paused) <= HourOf(now)
    BY <1>1, <2>1, HoursInOrder
  <2> QED
    BY <1>1, <2>2, WithinHour
<1>6. CASE Expected(expect', HourOf(now)) = "busy"
  <2>1. HourOf(now) # HourOf(paused) /\ HourOf(now) # HourOf(paused) + 1
    BY <1>2, <1>4, <1>6, ExpectedAhead
  <2>2. HourStart(now) >= HourStart(paused) + 2 * Hour
    BY <1>1, <1>5, <2>1, LaterHour
  <2> QED
    BY <1>1, <1>5, <2>2
<1>7. CASE HourStart(now) + Hour - now <= Lead /\ Expected(expect', HourOf(now) + 1) = "busy"
  <2>1. HourOf(now) + 1 # HourOf(paused) + 1
    BY <1>2, <1>4, <1>7, ExpectedAhead
  <2>2. HourStart(now) >= HourStart(paused) + Hour
    BY <1>1, <1>5, <2>1, LaterHour
  <2> QED
    BY <1>1, <1>5, <1>7, <2>2
<1> QED
  BY <1>3, <1>6, <1>7 DEF WakeAhead

\* A workload that its clock or the forecast pauses isn't woken ahead by what was forecast then: it sleeps out
\* the hour and all but the lead of the next, whatever is looked at, taught and missed meanwhile, as long as a
\* pause begins as it's decided (HoldPause, PauseEarly, WakeAhead).
THEOREM SleepsOnIt ==
  ASSUME Assumptions, ~Backoff
  PROVE  Spec => NotWokenStraightBack
<1>1. Init => UseInv /\ QuietInv
  BY UseFirst, QuietFirst
<1>2. UseInv /\ QuietInv /\ [Next]_vars => UseInv' /\ QuietInv'
  BY UseKept, QuietKept
<1>3. UseInv /\ QuietInv /\ [Next]_vars => [WakesBack]_vars
  <2> SUFFICES ASSUME UseInv, QuietInv, [Next]_vars PROVE [WakesBack]_vars
    OBVIOUS
  <2>1. CASE \E use, routed \in BOOLEAN : LookPaused(use, routed)
    BY <2>1, WakesLate
  <2>2. ASSUME ~\E use, routed \in BOOLEAN : LookPaused(use, routed), Next PROVE WakesBack
    BY <2>2 DEF Next, LookAwake, Midway, PauseDone, ResumeDone, Missed, WakesBack
  <2> QED
    BY <2>1, <2>2
<1> QED
  BY <1>1, <1>2, <1>3, PTL DEF Spec, NotWokenStraightBack

-----------------------------------------------------------------------------
(* The forecast.  Hours of the week. *)

LEMMA SmallerOfTwo == ASSUME NEW m \in Int, NEW k \in Int PROVE Learning!Min({m, k}) = IF m <= k THEN m ELSE k
BY DEF Learning!Min

LEMMA LargerOfTwo == ASSUME NEW m \in Int, NEW k \in Int PROVE Learning!Max({m, k}) = IF m >= k THEN m ELSE k
BY DEF Learning!Max

LEMMA WeekLonger ==
  ASSUME Learning!Assumptions
  PROVE  Day \in Nat \ {0} /\ Learning!Week \in Nat \ {0} /\ Learning!Week >= 2 * Day
BY DEF Learning!Assumptions, Learning!Week

\* Where an hour's day before is.
LEMMA DayBeforeIs ==
  ASSUME Learning!Assumptions, NEW i \in Learning!Slots
  PROVE  /\ Learning!DayBefore(i) \in Learning!Slots /\ Learning!DayBefore(i) # i
         /\ Learning!DayBefore(i) = IF i >= Day THEN i - Day ELSE i - Day + Learning!Week
<1>1. Learning!Week \in Nat \ {0} /\ Day \in Nat \ {0} /\ Learning!Week >= 2 * Day
        /\ i \in 0..(Learning!Week - 1)
  BY WeekLonger DEF Learning!Slots
<1>2. Learning!DayBefore(i) = (i - Day + Learning!Week) % Learning!Week
  BY DEF Learning!DayBefore
<1>3. CASE i >= Day
  BY <1>1, <1>2, <1>3 DEF Learning!Slots
<1>4. CASE i < Day
  BY <1>1, <1>2, <1>4 DEF Learning!Slots
<1> QED
  BY <1>1, <1>3, <1>4 DEF Learning!Slots

\* How many hours ago an hour of the week last was.
Age(hour, i) == IF i <= hour THEN hour - i ELSE hour - i + Learning!Week

\* The hour of the week some hours after another: the next of it, or the one of the week after.
LEMMA HourAfter ==
  ASSUME Learning!Assumptions, NEW hour \in Learning!Slots, NEW steps \in 1..Learning!Week
  PROVE  /\ (hour + steps) % Learning!Week \in Learning!Slots
         /\ (hour + steps) % Learning!Week = IF hour + steps < Learning!Week THEN hour + steps
              ELSE hour + steps - Learning!Week
<1>1. Learning!Week \in Nat \ {0} /\ hour \in 0..(Learning!Week - 1)
  BY WeekLonger DEF Learning!Slots
<1>2. CASE hour + steps < Learning!Week
  BY <1>1, <1>2 DEF Learning!Slots
<1>3. CASE hour + steps >= Learning!Week
  BY <1>1, <1>3 DEF Learning!Slots
<1> QED
  BY <1>1, <1>2, <1>3 DEF Learning!Slots

\* And before another.
LEMMA HourBefore ==
  ASSUME Learning!Assumptions, NEW hour \in Learning!Slots, NEW k \in 1..(Learning!Week - 1)
  PROVE  /\ (hour - k + 2 * Learning!Week) % Learning!Week \in Learning!Slots
         /\ (hour - k + 2 * Learning!Week) % Learning!Week = IF hour >= k THEN hour - k
              ELSE hour - k + Learning!Week
<1>1. Learning!Week \in Nat \ {0} /\ hour \in 0..(Learning!Week - 1)
  BY WeekLonger DEF Learning!Slots
<1>2. CASE hour >= k
  BY <1>1, <1>2 DEF Learning!Slots
<1>3. CASE hour < k
  BY <1>1, <1>3 DEF Learning!Slots
<1> QED
  BY <1>1, <1>2, <1>3 DEF Learning!Slots

\* A change held for less than a day is either kept with its age, or its next day's hour is the one
\* observed now, a day after; or that was passed over, and it's dropped.
LEMMA HeldOrDropped ==
  ASSUME Learning!Assumptions, NEW hour \in Learning!Slots, NEW steps \in 1..Learning!Week,
           NEW slot \in Learning!Slots,
         slot = (hour + steps) % Learning!Week, NEW i \in Learning!Slots, Age(hour, i) < Day,
         Learning!DropUnsettled(slot, steps)[i] # 0
  PROVE  /\ i = Learning!DayBefore(slot) => Age(hour, i) + steps = Day
         /\ i # Learning!DayBefore(slot) => Age(hour, i) + steps < Day
         /\ i # slot => Age(slot, i) = Age(hour, i) + steps \/ Age(hour, i) + steps >= Day
<1>1. /\ Learning!Week \in Nat \ {0} /\ Day \in Nat \ {0} /\ Learning!Week >= 2 * Day
      /\ hour \in 0..(Learning!Week - 1) /\ slot \in 0..(Learning!Week - 1) /\ i \in 0..(Learning!Week - 1)
  BY WeekLonger DEF Learning!Slots
<1>2. slot = IF hour + steps < Learning!Week THEN hour + steps ELSE hour + steps - Learning!Week
  BY HourAfter
<1> DEFINE age == Age(hour, i)
<1>3. age \in 0..(Day - 1) /\ age = IF i <= hour THEN hour - i ELSE hour - i + Learning!Week
  BY <1>1 DEF Age
<1>4. i \notin {Learning!DayBefore(j) : j \in Learning!Unobserved(slot, steps)}
  BY DEF Learning!DropUnsettled
<1>5. ASSUME age + steps > Day PROVE FALSE
  <2> DEFINE k == age + steps - Day
             j == (slot - k + 2 * Learning!Week) % Learning!Week
  <2>1. k \in 1..(steps - 1) /\ k \in 1..(Learning!Week - 1)
    BY <1>1, <1>3, <1>5
  <2>2. k \in 1..(Learning!Min({steps, Learning!Week}) - 1)
    BY <2>1, <1>1, SmallerOfTwo
  <2>3. j \in Learning!Unobserved(slot, steps)
    BY <2>2 DEF Learning!Unobserved
  <2>4. j \in Learning!Slots /\ (j = slot - k \/ j = slot - k + Learning!Week)
    BY <2>1, HourBefore, <1>1
  <2>5. Learning!DayBefore(j) = IF j >= Day THEN j - Day ELSE j - Day + Learning!Week
    BY <2>4, DayBeforeIs
  <2>6. Learning!DayBefore(j) = i
    <3>1. Learning!DayBefore(j) \in 0..(Learning!Week - 1)
      BY <2>4, DayBeforeIs DEF Learning!Slots
    <3> HIDE DEF j
    <3> QED
      BY <3>1, <2>1, <2>4, <2>5, <1>1, <1>2, <1>3 DEF Learning!Slots
  <2> QED
    BY <2>3, <2>6, <1>4
<1>6. Learning!DayBefore(slot) = IF slot >= Day THEN slot - Day ELSE slot - Day + Learning!Week
  BY DayBeforeIs
<1> HIDE DEF age
<1>7. i = Learning!DayBefore(slot) <=> age + steps = Day
  BY <1>1, <1>2, <1>3, <1>5, <1>6
<1>8. age + steps < Day /\ i # slot => Age(slot, i) = age + steps
  BY <1>1, <1>2, <1>3 DEF Age
<1> QED
  BY <1>1, <1>3, <1>5, <1>7, <1>8 DEF age

-----------------------------------------------------------------------------
(* The weekly changes held: each is less than a day old, and as old as the *)
(* break it's of.                                                          *)

HeldADay ==
  /\ last \in Learning!Slots \cup {Learning!Never} /\ held \in [Learning!Slots -> -1..1]
       /\ broke \in [Learning!Slots -> 0..(Day + 1)]
  /\ last = Learning!Never => \A i \in Learning!Slots : held[i] = 0
  /\ last # Learning!Never => \A i \in Learning!Slots : held[i] # 0 => Age(last, i) < Day
       /\ broke[i] = Age(last, i)

HeldInv == HeldADay /\ Learning!LearnsWhatLasts

LEMMA HeldFirst == ASSUME Learning!Assumptions PROVE Learning!Init => HeldInv
<1>1. Learning!Week \in Nat \ {0} /\ Day \in Nat \ {0}
  BY WeekLonger
<1> QED
  BY <1>1 DEF Learning!Init, HeldInv, HeldADay, Learning!LearnsWhatLasts, Learning!Never, Learning!Slots

\* What the changes held are after the ones that can't be settled are dropped.
LEMMA DroppedIs ==
  ASSUME NEW slot, NEW steps, NEW i \in Learning!Slots, HeldADay
  PROVE  Learning!DropUnsettled(slot, steps)[i] \in {0, held[i]}
           /\ Learning!DropUnsettled(slot, steps)[i] \in -1..1
BY DEF Learning!DropUnsettled, HeldADay

LEMMA HeldAfterIs ==
  ASSUME Learning!Assumptions, HeldADay, NEW slot \in Learning!Slots, NEW steps \in Nat \ {0}, NEW how,
           NEW change \in -1..1
  PROVE  /\ Learning!HeldAfter(slot, steps, how, change) \in [Learning!Slots -> -1..1]
         /\ \A i \in Learning!Slots : Learning!HeldAfter(slot, steps, how, change)[i] =
              IF i = slot THEN (IF how = "hold" THEN change ELSE 0)
              ELSE IF i = Learning!DayBefore(slot) THEN 0 ELSE Learning!DropUnsettled(slot, steps)[i]
<1>1. Learning!DropUnsettled(slot, steps) \in [Learning!Slots -> -1..1]
  BY DroppedIs DEF Learning!DropUnsettled
<1>2. Learning!DayBefore(slot) \in Learning!Slots /\ Learning!DayBefore(slot) # slot
  BY DayBeforeIs
<1> HIDE DEF Learning!DropUnsettled
<1> QED
  BY <1>1, <1>2 DEF Learning!HeldAfter

LEMMA BrokeAfterIs ==
  ASSUME Learning!Assumptions, HeldADay, NEW slot \in Learning!Slots, NEW steps \in Nat \ {0}, NEW how
  PROVE  /\ Learning!BrokeAfter(slot, steps, how) \in [Learning!Slots -> 0..(Day + 1)]
         /\ \A i \in Learning!Slots : Learning!BrokeAfter(slot, steps, how)[i] =
              IF i = slot /\ how = "hold" THEN 0
              ELSE IF broke[i] + steps <= Day + 1 THEN broke[i] + steps ELSE Day + 1
<1>1. Day \in Nat
  BY WeekLonger
<1>2. \A i \in Learning!Slots : broke[i] \in 0..(Day + 1)
  BY DEF HeldADay
<1>3. \A i \in Learning!Slots : Learning!Min({broke[i] + steps, Day + 1})
                         = IF broke[i] + steps <= Day + 1 THEN broke[i] + steps ELSE Day + 1
  BY <1>1, <1>2, SmallerOfTwo
<1> QED
  BY <1>1, <1>2, <1>3 DEF Learning!BrokeAfter

\* An hour observed, whatever it teaches.
LEMMA HeldObserved ==
  ASSUME Learning!Assumptions, MaxGap < Learning!Week, HeldInv, NEW gap \in 0..MaxGap,
           NEW e \in Learning!Errors,
         NEW how, NEW change \in -1..1,
         last' = IF last = Learning!Never THEN 0 ELSE (last + gap + 1) % Learning!Week,
         held' = Learning!HeldAfter(last', gap + 1, how, change),
         broke' = Learning!BrokeAfter(last', gap + 1, how),
         made' \in {Learning!Never, Learning!Made(last', gap + 1, e)}
  PROVE  HeldInv'
<1> DEFINE slot == last'
           steps == gap + 1
<1>1. /\ Learning!Week \in Nat \ {0} /\ Day \in Nat \ {0} /\ Learning!Week >= 2 * Day
      /\ steps \in 1..Learning!Week /\ steps \in Nat \ {0} /\ MaxGap \in Nat
  BY WeekLonger DEF Learning!Assumptions
<1>2. slot \in Learning!Slots /\ slot # Learning!Never
        /\ (last # Learning!Never => slot = (last + steps) % Learning!Week)
  <2>1. last # Learning!Never => slot = (last + steps) % Learning!Week /\ slot \in Learning!Slots
    <3>1. last # Learning!Never => last \in Learning!Slots /\ last + gap + 1 = last + steps
      BY <1>1 DEF HeldInv, HeldADay, Learning!Slots, Learning!Never
    <3> QED
      BY <3>1, <1>1, HourAfter
  <2>2. last = Learning!Never => slot \in Learning!Slots
    BY <1>1 DEF Learning!Slots
  <2> QED
    BY <2>1, <2>2, <1>1 DEF Learning!Slots, Learning!Never
<1> HIDE DEF slot, steps
<1>3. held' = Learning!HeldAfter(slot, steps, how, change) /\ broke' = Learning!BrokeAfter(slot, steps, how)
      /\ made' \in {Learning!Never, Learning!Made(slot, steps, e)} /\ last' = slot
  BY DEF slot, steps
<1>4. /\ held' \in [Learning!Slots -> -1..1] /\ broke' \in [Learning!Slots -> 0..(Day + 1)]
  BY <1>1, <1>2, <1>3, HeldAfterIs, BrokeAfterIs DEF HeldInv
<1>5. ASSUME NEW i \in Learning!Slots
      PROVE  /\ held'[i] = IF i = slot THEN (IF how = "hold" THEN change ELSE 0)
                           ELSE IF i = Learning!DayBefore(slot) THEN 0
                             ELSE Learning!DropUnsettled(slot, steps)[i]
             /\ broke'[i] = IF i = slot /\ how = "hold" THEN 0
                            ELSE IF broke[i] + steps <= Day + 1 THEN broke[i] + steps ELSE Day + 1
  BY <1>1, <1>2, <1>3, HeldAfterIs, BrokeAfterIs DEF HeldInv
\* What's held still is as old as its break.
<1>6. ASSUME NEW i \in Learning!Slots, Learning!DropUnsettled(slot, steps)[i] # 0
      PROVE  /\ broke[i] \in Nat
             /\ i = Learning!DayBefore(slot) => broke[i] + steps = Day
             /\ i # Learning!DayBefore(slot) /\ i # slot => broke[i] + steps < Day
                  /\ Age(slot, i) = broke[i] + steps
  <2>1. held[i] # 0
    BY <1>6, DroppedIs DEF HeldInv
  <2>2. last # Learning!Never /\ Age(last, i) < Day /\ broke[i] = Age(last, i) /\ last \in Learning!Slots
    BY <2>1 DEF HeldInv, HeldADay
  <2>3. Age(last, i) \in Nat /\ Age(slot, i) \in Nat
    BY <2>2, <1>1, <1>2 DEF Age, Learning!Slots
  <2>4. slot = (last + steps) % Learning!Week
    BY <2>2, <1>2
  <2>5. /\ i = Learning!DayBefore(slot) => Age(last, i) + steps = Day
        /\ i # Learning!DayBefore(slot) => Age(last, i) + steps < Day
        /\ i # slot => Age(slot, i) = Age(last, i) + steps \/ Age(last, i) + steps >= Day
    BY <1>1, <1>2, <1>6, <2>2, <2>4, HeldOrDropped
  <2> QED
    BY <2>2, <2>3, <2>5, <1>1
<1>7. ASSUME NEW i \in Learning!Slots, held'[i] # 0 PROVE Age(slot, i) < Day /\ broke'[i] = Age(slot, i)
  <2>1. CASE i = slot
    <3>1. Age(slot, i) = 0
      BY <2>1, <1>2, <1>1 DEF Age, Learning!Slots
    <3> QED
      BY <2>1, <3>1, <1>5, <1>7, <1>1
  <2>2. CASE i # slot
    <3>1. i # Learning!DayBefore(slot) /\ Learning!DropUnsettled(slot, steps)[i] # 0
      BY <2>2, <1>5, <1>7
    <3> QED
      BY <3>1, <2>2, <1>1, <1>5, <1>6
  <2> QED
    BY <2>1, <2>2
<1>8. made' # Learning!Never => broke'[made'] = Day
  <2> SUFFICES ASSUME made' # Learning!Never PROVE broke'[made'] = Day
    OBVIOUS
  <2>1. made' = Learning!DayBefore(slot)
          /\ Learning!DropUnsettled(slot, steps)[Learning!DayBefore(slot)] * Learning!Sign(e) > 0
    BY <1>3 DEF Learning!Made
  <2>2. Learning!DayBefore(slot) \in Learning!Slots /\ Learning!DayBefore(slot) # slot
    BY <1>2, DayBeforeIs
  <2>3. Learning!DropUnsettled(slot, steps)[Learning!DayBefore(slot)] # 0
    BY <2>1, <2>2, DroppedIs DEF HeldInv, Learning!Sign, Learning!Errors
  <2> QED
    BY <2>1, <2>2, <2>3, <1>1, <1>5, <1>6
<1> QED
  BY <1>2, <1>3, <1>4, <1>7, <1>8 DEF HeldInv, HeldADay, Learning!LearnsWhatLasts

LEMMA HeldKept ==
  ASSUME Learning!Assumptions, MaxGap < Learning!Week, HeldInv, [Learning!Next]_(Learning!vars)
  PROVE  HeldInv'
<1>1. CASE Learning!Next
  <2>1. PICK gap \in 0..MaxGap : Learning!Observe(gap)
    BY <1>1 DEF Learning!Next
  <2>2. last' = IF last = Learning!Never THEN 0 ELSE (last + gap + 1) % Learning!Week
    BY <2>1 DEF Learning!Observe
  <2>3. CASE Learning!ObserveFirst(last', gap + 1)
    <3>1. held' = Learning!HeldAfter(last', gap + 1, "first", 0)
            /\ broke' = Learning!BrokeAfter(last', gap + 1, "first")
          /\ made' = Learning!Never /\ 0 \in Learning!Errors /\ 0 \in -1..1
      BY <2>3 DEF Learning!ObserveFirst, Learning!Errors
    <3> QED
      BY <3>1, <2>2, HeldObserved
  <2>4. CASE \E e \in Learning!Errors : Learning!ObserveAgain(last', gap + 1, e)
    <3>1. PICK e \in Learning!Errors : Learning!ObserveAgain(last', gap + 1, e)
      BY <2>4
    <3>2. PICK how \in {"hold", "all"}, change \in {0, Learning!Sign(e)} :
            /\ held' = Learning!HeldAfter(last', gap + 1, how, change)
                 /\ broke' = Learning!BrokeAfter(last', gap + 1, how)
            /\ made' = Learning!Made(last', gap + 1, e)
      BY <3>1 DEF Learning!ObserveAgain
    <3>3. change \in -1..1
      BY DEF Learning!Sign, Learning!Errors
    <3> QED
      BY <3>2, <3>3, <2>2, HeldObserved
  <2> QED
    BY <2>1, <2>2, <2>3, <2>4 DEF Learning!Observe
<1>2. CASE UNCHANGED Learning!vars
  BY <1>2 DEF Learning!vars, HeldInv, HeldADay, Learning!LearnsWhatLasts
<1> QED
  BY <1>1, <1>2

\* What a day that broke from the forecast taught of its hours of the week is only ever learned a day after,
\* of hours that broke the day before, for a week of any length but one day, if no more than a week goes
\* unobserved (Engine.settleHeld).
THEOREM LearnsLasting ==
  ASSUME Learning!Assumptions, MaxGap < Learning!Week
  PROVE  Learning!Spec => []Learning!LearnsWhatLasts
<1>1. Learning!Init => HeldInv
  BY HeldFirst
<1>2. HeldInv /\ [Learning!Next]_(Learning!vars) => HeldInv'
  BY HeldKept
<1>3. HeldInv => Learning!LearnsWhatLasts
  BY DEF HeldInv
<1> QED
  BY <1>1, <1>2, <1>3, PTL DEF Learning!Spec

-----------------------------------------------------------------------------
(* The evidence: the scored hours there are, and what they say of the      *)
(* phase.                                                                  *)

LEMMA PushIs ==
  ASSUME NEW q \in Seq(BOOLEAN), NEW x \in BOOLEAN, NEW most \in Nat \ {0}
  PROVE  Learning!Push(q, x, most) \in Seq(BOOLEAN)
         /\ Len(Learning!Push(q, x, most)) = IF Len(q) + 1 <= most THEN Len(q) + 1 ELSE most
BY SmallerOfTwo DEF Learning!Push

LEMMA ConfidenceTyped ==
  ASSUME NEW q, NEW window \in Nat \ {0}
  PROVE  Learning!Confidence(q, window) \in Int
<1>1. IsFiniteSet(1..window) /\ {k \in 1..window : q[k]} \subseteq 1..window
  BY FS_Interval
<1>2. Cardinality({k \in 1..window : q[k]}) \in Nat
  BY <1>1, FS_Subset, FS_CardinalityType
<1> QED
  BY <1>2 DEF Learning!Confidence, Learning!Cardinality, Cardinality

\* Scored is the hours of the week seen again: with n, and seen, it says the same as since does.
CountsAgree ==
  /\ {scored, since} \subseteq 0..Learning!Week /\ since <= scored
  /\ scores \in Seq(BOOLEAN) /\ Len(scores) = since
  /\ last \in Learning!Slots \cup {Learning!Never} /\ slots \subseteq Learning!Slots
       /\ n \in 0..(2 * Learning!Week)
  /\ scored < Learning!Week => n = Cardinality(slots) + scored
  /\ scored = Learning!Week => n >= Cardinality(slots) + Learning!Week

PhaseEarned ==
  /\ {stage, before} \subseteq Learning!Phases
  /\ stage >= Learning!DailyActive /\ Learning!Ready(scores, Day) =>
       Learning!Confidence(scores, Day) >= Threshold - Margin

EvidenceInv == CountsAgree /\ PhaseEarned

LEMMA SeenCounted ==
  ASSUME Learning!Assumptions, CountsAgree
  PROVE  /\ IsFiniteSet(slots) /\ Cardinality(slots) \in 0..Learning!Week
         /\ \A slot \in Learning!Slots \ slots : Cardinality(slots \cup {slot}) = Cardinality(slots) + 1
                                        /\ Cardinality(slots) < Learning!Week
<1>1. Learning!Week \in Nat \ {0}
  BY WeekLonger
<1>2. IsFiniteSet(Learning!Slots) /\ Cardinality(Learning!Slots) = Learning!Week
  BY <1>1, FS_Interval DEF Learning!Slots
<1>3. slots \subseteq Learning!Slots
  BY DEF CountsAgree
<1>4. IsFiniteSet(slots) /\ Cardinality(slots) \in Nat /\ Cardinality(slots) <= Learning!Week
  BY <1>2, <1>3, FS_Subset, FS_CardinalityType
<1>5. ASSUME NEW slot \in Learning!Slots \ slots
      PROVE  Cardinality(slots \cup {slot}) = Cardinality(slots) + 1 /\ Cardinality(slots) < Learning!Week
  <2>1. Cardinality(slots \cup {slot}) = Cardinality(slots) + 1
    BY <1>4, <1>5, FS_AddElement
  <2>2. slots \cup {slot} \subseteq Learning!Slots
    BY <1>3
  <2>3. Cardinality(slots \cup {slot}) <= Learning!Week
    BY <1>2, <2>2, FS_Subset
  <2> QED
    BY <1>1, <1>4, <2>1, <2>3
<1> QED
  BY <1>1, <1>4, <1>5

LEMMA EvidenceFirst == ASSUME Learning!Assumptions PROVE Learning!Init => EvidenceInv
<1> SUFFICES ASSUME Learning!Init PROVE EvidenceInv
  OBVIOUS
<1>1. Learning!Week \in Nat \ {0} /\ Day \in Nat \ {0}
  BY WeekLonger
<1>2. Cardinality({}) = 0
  BY FS_EmptySet
<1>3. CountsAgree
  BY <1>1, <1>2 DEF Learning!Init, CountsAgree
<1>4. PhaseEarned
  BY DEF Learning!Init, PhaseEarned, Learning!Phases, Learning!Observing, Learning!DailyActive,
       Learning!FullyActive
<1> QED
  BY <1>3, <1>4 DEF EvidenceInv

\* A phase that acts is only moved on to, or stayed in, with enough of the last day right.
LEMMA PromotedEarned ==
  ASSUME Learning!Assumptions, stage \in Learning!Phases, NEW sc \in Seq(BOOLEAN), NEW cov
  PROVE  /\ Learning!Promoted(sc, cov) \in Learning!Phases
         /\ Learning!Promoted(sc, cov) >= Learning!DailyActive /\ Learning!Ready(sc, Day) =>
              Learning!Confidence(sc, Day) >= Threshold - Margin
<1>1. Learning!Confidence(sc, Day) \in Int /\ Threshold \in Int /\ Margin \in Nat
  BY ConfidenceTyped, WeekLonger DEF Learning!Assumptions
<1>2. Threshold >= Threshold - Margin
  BY <1>1
<1> QED
  BY <1>1, <1>2 DEF Learning!Promoted, Learning!Phases, Learning!Observing, Learning!DailySuggesting,
       Learning!DailyActive, Learning!WeeklySuggesting, Learning!FullyActive

LEMMA OneBelowLower ==
  ASSUME NEW p \in Learning!Phases
  PROVE  Learning!OneBelow(p) \in Learning!Phases
BY DEF Learning!OneBelow, Learning!Phases, Learning!Observing, Learning!DailySuggesting,
     Learning!DailyActive, Learning!WeeklySuggesting, Learning!FullyActive

\* The phase held before the anomalies is one.
LEMMA BeforeTyped ==
  ASSUME PhaseEarned
  PROVE  (IF TRUE \in Learning!Range(recent) THEN Learning!Max({before, stage}) ELSE stage) \in Learning!Phases
<1>1. stage \in Learning!Phases /\ before \in Learning!Phases
  BY DEF PhaseEarned
<1>2. Learning!Max({before, stage}) \in Learning!Phases
  BY <1>1, LargerOfTwo DEF Learning!Phases, Learning!Observing, Learning!FullyActive
<1> QED
  BY <1>1, <1>2

\* The counts of an hour observed for the first time, or again.
LEMMA CountsObserved ==
  ASSUME Learning!Assumptions, CountsAgree, NEW gap \in 0..MaxGap, Learning!Observe(gap)
  PROVE  /\ last' \in Learning!Slots /\ slots' = slots \cup {last'} /\ slots' \subseteq Learning!Slots
              /\ n' \in 0..(2 * Learning!Week)
         /\ n' = IF n + 1 <= 2 * Learning!Week THEN n + 1 ELSE 2 * Learning!Week
<1>1. Learning!Week \in Nat \ {0} /\ MaxGap \in Nat
  BY WeekLonger DEF Learning!Assumptions
<1>2. last' = IF last = Learning!Never THEN 0 ELSE (last + gap + 1) % Learning!Week
  BY DEF Learning!Observe
<1>3. last' \in Learning!Slots
  BY <1>1, <1>2 DEF CountsAgree, Learning!Slots, Learning!Never
<1>4. n' = Learning!Min({n + 1, 2 * Learning!Week}) /\ slots' = slots \cup {last'}
  BY DEF Learning!Observe
<1>5. n \in 0..(2 * Learning!Week) /\ slots \subseteq Learning!Slots
  BY DEF CountsAgree
<1> QED
  BY <1>1, <1>3, <1>4, <1>5, SmallerOfTwo

LEMMA EvidenceOfFirst ==
  ASSUME Learning!Assumptions, EvidenceInv, NEW gap \in 0..MaxGap, Learning!Observe(gap),
           Learning!ObserveFirst(last', gap + 1)
  PROVE  EvidenceInv'
<1>1. Learning!Week \in Nat \ {0}
  BY WeekLonger
<1>2. /\ last' \in Learning!Slots /\ slots' = slots \cup {last'} /\ slots' \subseteq Learning!Slots
           /\ n' \in 0..(2 * Learning!Week)
      /\ n' = IF n + 1 <= 2 * Learning!Week THEN n + 1 ELSE 2 * Learning!Week
  BY CountsObserved DEF EvidenceInv
<1>3. last' \notin slots /\ UNCHANGED <<scores, scored, since>> /\ stage' = Learning!Promoted(scores, coverage')
  BY DEF Learning!ObserveFirst
<1>4. Cardinality(slots') = Cardinality(slots) + 1 /\ Cardinality(slots) \in 0..Learning!Week
        /\ Cardinality(slots) < Learning!Week
  BY <1>2, <1>3, SeenCounted DEF EvidenceInv
<1>5. CountsAgree'
  BY <1>1, <1>2, <1>3, <1>4 DEF EvidenceInv, CountsAgree
<1>6. PhaseEarned'
  <2>1. before' \in Learning!Phases
    BY BeforeTyped DEF Learning!ObserveFirst, EvidenceInv
  <2> QED
    BY <1>3, <2>1, PromotedEarned DEF EvidenceInv, CountsAgree, PhaseEarned, Learning!Ready, Learning!Confidence
<1> QED
  BY <1>5, <1>6 DEF EvidenceInv

LEMMA EvidenceOfAgain ==
  ASSUME Learning!Assumptions, EvidenceInv, NEW gap \in 0..MaxGap, Learning!Observe(gap),
           NEW e \in Learning!Errors,
         Learning!ObserveAgain(last', gap + 1, e)
  PROVE  EvidenceInv'
<1>1. Learning!Week \in Nat \ {0} /\ Day \in Nat \ {0}
  BY WeekLonger
<1>2. /\ last' \in Learning!Slots /\ slots' = slots \cup {last'} /\ slots' \subseteq Learning!Slots
           /\ n' \in 0..(2 * Learning!Week)
      /\ n' = IF n + 1 <= 2 * Learning!Week THEN n + 1 ELSE 2 * Learning!Week
  BY CountsObserved DEF EvidenceInv
<1>3. last' \in slots /\ scored' = Learning!Min({scored + 1, Learning!Week})
  BY DEF Learning!ObserveAgain
<1>4. slots' = slots /\ Cardinality(slots) \in 0..Learning!Week
  BY <1>2, <1>3, SeenCounted DEF EvidenceInv
<1>5. scored \in 0..Learning!Week /\ since \in 0..Learning!Week /\ since <= scored
        /\ scores \in Seq(BOOLEAN) /\ Len(scores) = since
  BY DEF EvidenceInv, CountsAgree
<1>6. scored' = IF scored + 1 <= Learning!Week THEN scored + 1 ELSE Learning!Week
  BY <1>1, <1>3, <1>5, SmallerOfTwo
<1>7. /\ scored' < Learning!Week => n' = Cardinality(slots') + scored'
      /\ scored' = Learning!Week => n' >= Cardinality(slots') + Learning!Week
  <2>1. /\ n \in 0..(2 * Learning!Week)
        /\ scored < Learning!Week => n = Cardinality(slots) + scored
        /\ scored = Learning!Week => n >= Cardinality(slots) + Learning!Week
    BY DEF EvidenceInv, CountsAgree
  <2>2. Cardinality(slots') = Cardinality(slots)
    BY <1>4
  <2> QED
    BY <1>1, <1>2, <1>4, <1>5, <1>6, <2>1, <2>2
<1>8. before' \in Learning!Phases
  BY BeforeTyped DEF Learning!ObserveAgain, EvidenceInv
<1>9. CASE \E p : Learning!HandleRegimeChange(p) /\ p \in Learning!Phases
  <2>1. PICK p : Learning!HandleRegimeChange(p) /\ p \in Learning!Phases
    BY <1>9
  <2>2. scores' = <<>> /\ since' = 0 /\ stage' = Learning!Min({stage, Learning!OneBelow(p)})
    BY <2>1 DEF Learning!HandleRegimeChange
  <2>3. CountsAgree'
    BY <1>1, <1>2, <1>4, <1>5, <1>6, <1>7, <2>2 DEF CountsAgree
  <2>4. stage' \in Learning!Phases
    BY <2>1, <2>2, OneBelowLower, SmallerOfTwo DEF EvidenceInv, PhaseEarned, Learning!Phases,
         Learning!Observing, Learning!FullyActive
  <2>5. ~Learning!Ready(scores, Day)'
    BY <2>2, <1>1 DEF Learning!Ready
  <2> QED
    BY <1>8, <2>3, <2>4, <2>5 DEF EvidenceInv, PhaseEarned
<1>10. CASE since' = Learning!Min({since + 1, Learning!Week})
              /\ scores' = Learning!Push(scores, e = 0, Learning!Week)
                   /\ stage' = Learning!Promoted(scores', coverage')
  <2>1. since' = IF since + 1 <= Learning!Week THEN since + 1 ELSE Learning!Week
    BY <1>1, <1>5, <1>10, SmallerOfTwo
  <2>2. scores' \in Seq(BOOLEAN) /\ Len(scores') = since'
    BY <1>1, <1>5, <1>10, <2>1, PushIs
  <2>3. CountsAgree'
    BY <1>1, <1>2, <1>4, <1>5, <1>6, <1>7, <2>1, <2>2 DEF CountsAgree
  <2>4. PhaseEarned'
    BY <1>10, <1>8, <2>2, PromotedEarned DEF EvidenceInv, PhaseEarned, Learning!Ready, Learning!Confidence
  <2> QED
    BY <2>3, <2>4 DEF EvidenceInv
<1>11. \/ \E p : Learning!HandleRegimeChange(p) /\ p = before'
       \/ /\ since' = Learning!Min({since + 1, Learning!Week})
               /\ scores' = Learning!Push(scores, e = 0, Learning!Week)
          /\ stage' = Learning!Promoted(scores', coverage')
  BY DEF Learning!ObserveAgain
<1> QED
  BY <1>9, <1>10, <1>8, <1>11

LEMMA EvidenceKept ==
  ASSUME Learning!Assumptions, EvidenceInv, [Learning!Next]_(Learning!vars)
  PROVE  EvidenceInv'
<1>1. CASE Learning!Next
  <2>1. PICK gap \in 0..MaxGap : Learning!Observe(gap)
    BY <1>1 DEF Learning!Next
  <2>2. CASE Learning!ObserveFirst(last', gap + 1)
    BY <2>1, <2>2, EvidenceOfFirst
  <2>3. CASE \E e \in Learning!Errors : Learning!ObserveAgain(last', gap + 1, e)
    BY <2>1, <2>3, EvidenceOfAgain
  <2> QED
    BY <2>1, <2>2, <2>3 DEF Learning!Observe
<1>2. CASE UNCHANGED Learning!vars
  BY <1>2 DEF Learning!vars, EvidenceInv, CountsAgree, PhaseEarned, Learning!Ready, Learning!Confidence
<1> QED
  BY <1>1, <1>2

LEMMA EvidenceEnough ==
  ASSUME Learning!Assumptions, EvidenceInv
  PROVE  Learning!ActsOnEvidence
<1>1. Learning!Week \in Nat \ {0} /\ Day \in Nat \ {0}
  BY WeekLonger
<1>2. Cardinality(slots) \in 0..Learning!Week
  BY SeenCounted DEF EvidenceInv
<1>3. Learning!Min({n - Cardinality(slots), Learning!Week}) = scored
  BY <1>1, <1>2, SmallerOfTwo DEF EvidenceInv, CountsAgree
<1>4. Learning!Relearning <=> since < scored
  BY <1>3 DEF Learning!Relearning, Learning!Cardinality, Cardinality, EvidenceInv, CountsAgree
<1>5. (\E i \in Learning!Slots : Learning!Expect(i)) => stage >= Learning!DailyActive
        /\ Learning!Ready(scores, Day)
  BY DEF Learning!Expect, Learning!Active
<1>6. stage >= Learning!DailyActive /\ Learning!Ready(scores, Day) => since >= Day
        /\ Learning!Confidence(scores, Day) >= Threshold - Margin
  BY DEF EvidenceInv, CountsAgree, PhaseEarned, Learning!Ready
<1> QED
  BY <1>4, <1>5, <1>6 DEF Learning!ActsOnEvidence

\* A forecast is only acted on with a full day scored since demand last broke from what had been learned, and
\* enough of it right, whatever hours went unobserved; and relearning is told from two counts that know
\* nothing of the break just when there's been one (Engine.Active, advancePhase and relearning).
THEOREM ActsOnlyOnEvidence ==
  ASSUME Learning!Assumptions
  PROVE  Learning!Spec => []Learning!ActsOnEvidence
<1>1. Learning!Init => EvidenceInv
  BY EvidenceFirst
<1>2. EvidenceInv /\ [Learning!Next]_(Learning!vars) => EvidenceInv'
  BY EvidenceKept
<1>3. EvidenceInv => Learning!ActsOnEvidence
  BY EvidenceEnough
<1> QED
  BY <1>1, <1>2, <1>3, PTL DEF Learning!Spec

-----------------------------------------------------------------------------
(* The forecast beside the rules, as the runs have them. *)

\* Whichever of the two moves, the other's state is as it was.
LEMMA LearningMoves ==
  ASSUME [PartsNext]_<<part, vars, learnVars>>
  PROVE  part' = part /\ (part = "learning" => [Learning!Next]_(Learning!vars))
BY DEF PartsNext, learnVars, Learning!vars

LEMMA LearningBegins == ASSUME PartsInit, part = "learning" PROVE Learning!Init
BY DEF PartsInit

\* Beside the rules, a day that wasn't like the rest is unlearned, whatever hours are missed around it, if
\* they're fewer than a week (learn, settleHeld and resetPending).
THEOREM LearnsBeside ==
  ASSUME MaxGap < Learning!Week
  PROVE  PartsSpec => []LearnsWhatLasts
<1> DEFINE Inv == part = "learning" => HeldInv
<1>1. PartsInit => Inv
  BY LearningAssumption, LearningBegins, HeldFirst
<1>2. Inv /\ [PartsNext]_<<part, vars, learnVars>> => Inv'
  BY LearningAssumption, LearningMoves, HeldKept
<1>3. Inv => LearnsWhatLasts
  BY DEF LearnsWhatLasts, HeldInv
<1> QED
  BY <1>1, <1>2, <1>3, PTL DEF PartsSpec

\* Beside the rules, a forecast is only acted on with a full day scored since demand last broke from what had
\* been learned, and enough of it right; and relearning is told of just when there's been one (Engine.Active,
\* advancePhase and relearning).
THEOREM ActsBeside == PartsSpec => []ActsOnEvidence
<1> DEFINE Inv == part = "learning" => EvidenceInv
<1>1. PartsInit => Inv
  BY LearningAssumption, LearningBegins, EvidenceFirst
<1>2. Inv /\ [PartsNext]_<<part, vars, learnVars>> => Inv'
  BY LearningAssumption, LearningMoves, EvidenceKept
<1>3. Inv => ActsOnEvidence
  BY LearningAssumption, EvidenceEnough DEF ActsOnEvidence
<1> QED
  BY <1>1, <1>2, <1>3, PTL DEF PartsSpec
==============================================================================
