-------------------------------- MODULE Forecast --------------------------------
(***************************************************************************)
(* What one workload's forecast does with the hours it observes, of        *)
(* src/internal/forecast: Engine.Observe, its Scorer, its AnomalyDetector, *)
(* the phases it moves through, the weekly changes it holds for a day, and *)
(* Expect.  The demand forecast is a number the model leaves out: of each  *)
(* hour it keeps how far the demand was from its forecast, which is any.   *)
(*                                                                         *)
(* An hour may go unobserved: the workload is paused, or the operator down *)
(* or replaced by one that starts from the state last written, which holds *)
(* all this module's variables, so the hours not written are unobserved.   *)
(***************************************************************************)
EXTENDS Integers, FiniteSets, SequencesExt

CONSTANTS
  Day,           \* DailySeason, in hours: also dailyWindow and anomalyWindow
  Days,          \* daysPerWeek
  RegimeChange,  \* regimeChangeThreshold
  Threshold,     \* Settings.Threshold, a percentage
  Margin,        \* demotionMargin
  MaxGap         \* the most hours that go unobserved in a row

Week == Day * Days
Assumptions ==
  /\ {Day, RegimeChange} \subseteq Nat \ {0} /\ Days \in Nat \ {0, 1} /\ MaxGap \in Nat
  /\ Threshold \in 1..100 /\ Margin \in 0..Threshold

Observing == 0
DailySuggesting == 1
DailyActive == 2
WeeklySuggesting == 3
FullyActive == 4
Phases == Observing..FullyActive

Slots == 0..(Week - 1)
Never == -1

\* How far an hour's demand was from its forecast: as forecast, off by at least the floor (so the hour
\* counts against its confidence), or off by more than 3 standard deviations.
Errors == -2..2
Sign(e) == IF e > 0 THEN 1 ELSE IF e < 0 THEN -1 ELSE 0

VARIABLES
  last,        \* Engine.lastHour, as its hour of the week
  n,           \* Model.n, counted up to 2 * Week
  phase,       \* Engine.Phase
  before,      \* Engine.phaseBeforeAnomalies
  scores,      \* Scorer: of the last week's scored hours, whether each was as forecast, the newest first
  counted,     \* AnomalyDetector.count, up to anomalyWindow
  recent,      \* AnomalyDetector.recent: the last day's scored hours, the newest first
  above,       \* AnomalyDetector.above
  below,       \* AnomalyDetector.below
  coverage,    \* Engine.coverage
  seen,        \* Engine.recentSeen
  held,        \* Engine.held: the sign of the change, 0 for none
  doubting,    \* Engine.doubting
  made,        \* the hour of the week whose held change the last hour observed made, if it made one
  broke,       \* of each hour of the week, the hours since it was last an anomaly or relearned, up to Day + 1
  scored,      \* the hours scored in all, and since the last regime change, each up to a week's
  since

vars == <<last, n, phase, before, scores, counted, recent, above, below, coverage, seen, held, doubting, made,
          broke, scored, since>>

TypeOK ==
  /\ last \in Slots \cup {Never} /\ n \in 0..(2 * Week) /\ {phase, before} \subseteq Phases
  /\ scores \in BoundedSeq(BOOLEAN, Week) /\ counted \in 0..Day /\ recent \in BoundedSeq(BOOLEAN, Day)
  /\ {above, below, coverage, seen} \subseteq SUBSET Slots
  /\ held \in [Slots -> -1..1] /\ doubting \in BOOLEAN /\ made \in Slots \cup {Never}
  /\ broke \in [Slots -> 0..(Day + 1)] /\ {scored, since} \subseteq 0..Week

Init ==
  /\ last = Never /\ n = 0 /\ phase = Observing /\ before = Observing
  /\ scores = <<>> /\ counted = 0 /\ recent = <<>> /\ above = {} /\ below = {}
  /\ coverage = {} /\ seen = {} /\ held = [i \in Slots |-> 0] /\ doubting = FALSE
  /\ made = Never /\ broke = [i \in Slots |-> Day + 1] /\ scored = 0 /\ since = 0

-----------------------------------------------------------------------------
(* The evidence. *)

Push(q, x, most) == SubSeq(<<x>> \o q, 1, Min({Len(q) + 1, most}))
Ready(q, window) == Len(q) >= window
Confidence(q, window) ==
  IF Ready(q, window) THEN (100 * Cardinality({k \in 1..window : q[k]})) \div window ELSE 0

CoveredDay(c) == Cardinality({i % Day : i \in c}) = Day
CoveredWeek(c) == c = Slots

\* Whether a regime change discarded scored hours: without one, every hour but the first of each hour
\* of the week is scored, up to a week of them.
Relearning == Len(scores) < Min({n - Cardinality(seen), Week})

(* The phases: the next one, by the evidence there is once the hour is scored. *)
Promoted(sc, cov) ==
  LET dailyLow == Ready(sc, Day) /\ Confidence(sc, Day) < Threshold - Margin
      weeklyLow == Ready(sc, Week) /\ Confidence(sc, Week) < Threshold - Margin
  IN CASE phase = Observing /\ CoveredDay(cov) /\ Ready(sc, Day) -> DailySuggesting
       [] phase = DailySuggesting /\ Ready(sc, Day) /\ Confidence(sc, Day) >= Threshold -> DailyActive
       [] phase >= DailyActive /\ dailyLow -> DailySuggesting
       [] phase = DailyActive /\ ~dailyLow /\ CoveredWeek(cov) -> WeeklySuggesting
       [] phase = WeeklySuggesting /\ ~dailyLow /\ Ready(sc, Week) /\ Confidence(sc, Week) >= Threshold ->
            FullyActive
       [] phase = FullyActive /\ ~dailyLow /\ weeklyLow -> WeeklySuggesting
       [] OTHER -> phase

\* handleRegimeChange: one step below the phase held before the anomalies, and no evidence left.
OneBelow(p) ==
  CASE p = FullyActive -> WeeklySuggesting
    [] p \in {WeeklySuggesting, DailyActive} -> DailySuggesting
    [] OTHER -> Observing
DemotedOnly(p) ==
  /\ phase' = Min({phase, OneBelow(p)})
  /\ scores' = Push(scores, FALSE, Week) /\ since' = 0
  /\ counted' = 0 /\ recent' = <<>> /\ above' = {} /\ below' = {}
  /\ coverage' = {}
HandleRegimeChange(p) ==
  /\ phase' = Min({phase, OneBelow(p)})
  /\ scores' = <<>> /\ since' = 0
  /\ counted' = 0 /\ recent' = <<>> /\ above' = {} /\ below' = {}
  /\ coverage' = {}

-----------------------------------------------------------------------------
(* Observing an hour. *)

\* The hours of the week passed over by one in steps hours after the last.
Unobserved(slot, steps) == {(slot - k + 2 * Week) % Week : k \in 1..(Min({steps, Week}) - 1)}
DayBefore(i) == (i - Day + Week) % Week
\* The changes held for a day whose next day's same hour went unobserved are dropped.
KeepUnsettled(slot, steps) == held
DropUnsettled(slot, steps) ==
  LET missed == {DayBefore(i) : i \in Unobserved(slot, steps)}
  IN [i \in Slots |-> IF i \in missed THEN 0 ELSE held[i]]

\* settleHeld: whether the change held of the day before's hour is made, now that this one's error is known.
Made(slot, steps, e) ==
  IF DropUnsettled(slot, steps)[DayBefore(slot)] * Sign(e) > 0 THEN DayBefore(slot) ELSE Never
\* What is held after: a change is held if the hour only fitted the rest.
HeldAfter(slot, steps, how, change) ==
  [DropUnsettled(slot, steps) EXCEPT ![DayBefore(slot)] = 0, ![slot] = IF how = "hold" THEN change ELSE 0]

BrokeAfter(slot, steps, how) ==
  [i \in Slots |-> IF i = slot /\ how = "hold" THEN 0 ELSE Min({broke[i] + steps, Day + 1})]

\* The first time an hour of the week is seen: it's learned, not scored.
ObserveFirst(slot, steps) ==
  /\ slot \notin seen
  /\ before' = IF TRUE \in Range(recent) THEN Max({before, phase}) ELSE phase
  /\ UNCHANGED <<scores, counted, recent, above, below, scored, since>>
  /\ held' = HeldAfter(slot, steps, "first", 0)
  /\ made' = Never
  /\ broke' = BrokeAfter(slot, steps, "first")
  /\ doubting' = FALSE
  /\ coverage' = coverage \cup {slot}
  /\ phase' = Promoted(scores, coverage')

\* An hour of the week seen before, off from its forecast by e.  The weekly change held is what the rest
\* of the model didn't take up of it, if anything.
ObserveAgain(slot, steps, e) ==
  LET high == e = 2 /\ counted = Day
      low == e = -2 /\ counted = Day
      recurring == \/ high /\ slot \in above
                   \/ low /\ slot \in below
      anomaly == (high \/ low) /\ ~recurring
      afterBreak == Relearning /\ ~Ready(scores, Day)
      how == IF anomaly \/ afterBreak THEN "hold" ELSE "all"
      flags == Push(recent, anomaly, Day)
      was == IF TRUE \in Range(recent) THEN Max({before, phase}) ELSE phase
  IN /\ slot \in seen
     /\ before' = was
     /\ made' = Made(slot, steps, e)
     /\ \E change \in {0, IF how = "hold" THEN Sign(e) ELSE 0} : held' = HeldAfter(slot, steps, how, change)
     /\ scored' = Min({scored + 1, Week})
     /\ broke' = BrokeAfter(slot, steps, how)
     /\ doubting' = (anomaly /\ e < 0)
     /\ IF Cardinality({k \in DOMAIN flags : flags[k]}) >= RegimeChange
          THEN HandleRegimeChange(was)
          ELSE /\ since' = Min({since + 1, Week})
               /\ scores' = Push(scores, e = 0, Week)
               /\ counted' = Min({counted + 1, Day})
               /\ recent' = flags
               /\ above' = IF high THEN above \cup {slot} ELSE above \ {slot}
               /\ below' = IF low THEN below \cup {slot} ELSE below \ {slot}
               /\ coverage' = coverage \cup {slot}
               /\ phase' = Promoted(scores', coverage')

Observe(gap) ==
  LET slot == IF last = Never THEN 0 ELSE (last + gap + 1) % Week
  IN /\ last' = slot /\ seen' = seen \cup {slot} /\ n' = Min({n + 1, 2 * Week})
     /\ \/ ObserveFirst(slot, gap + 1)
        \/ \E e \in Errors : ObserveAgain(slot, gap + 1, e)

(* Acting on it. *)
Active == phase >= DailyActive /\ Ready(scores, Day)
Expect(i) == Active /\ ~doubting /\ i \in seen

Next == \E gap \in 0..MaxGap : Observe(gap)
Spec == Init /\ [][Next]_vars

-----------------------------------------------------------------------------
\* A forecast is only acted on with a full day of it scored since demand last broke from what had been
\* learned, of which enough was right, whatever hours went unobserved (Engine.Active, advancePhase); and
\* it's said to be relearning exactly while that break has left it fewer scored hours than it had
\* (Engine.relearning, which works it out from two other counts).
ActsOnEvidence ==
  /\ (\E i \in Slots : Expect(i)) => since >= Day /\ Confidence(scores, Day) >= Threshold - Margin
  /\ Relearning <=> since < scored

\* What a day that broke from the forecast says of its hours of the week is learned only a day after, of
\* hours that broke the day before, and never of a break a week old whose next day went unobserved, so a
\* holiday isn't forecast again the week after (Engine.settleHeld).
LearnsWhatLasts == made # Never => broke[made] = Day
================================================================================
