------------------------------- MODULE MCOperator -------------------------------
(***************************************************************************)
(* The operator's parts that share no state, for TLC, side by side: the    *)
(* lifecycle of one workload, through lagging caches and all it is asked;  *)
(* the idle clock of one, in dry-run, live, and with a forecast;           *)
(* what pausing one is counted as freeing and saving; and what the nodes   *)
(* couldn't hold of all that is paused.                                    *)
(***************************************************************************)
EXTENDS MCLifecycle

CONSTANTS
  IdleAfter, LongIdleAfter, StatusFlush, Share, EarlyAfter, HoldFor,
  SampleInterval, CostFlush, MaxInterval, Pricing, MonthStart,
  MaxTime, Chances,                                 \* of the parts that count time
  DryOthers, LiveOthers, EarlyOthers, CostOthers,   \* what else happens to each
  Nodes, PoolOf, Pods, Asleep, Allocatable, MaxRequests, MaxAsleep

VARIABLES
  part,
  now, stored, seen, current, memo, template, chances, used, heldAt, watched, looked, untold, idled,
  hour, object, copy, replicas, requests, zero, sampledAt, credited, due, turns, down, past,
  ready, pods, paused, shares

clockVars == <<now, stored, seen, current, memo, template, chances, used, heldAt, watched, looked, untold, idled>>
costVars == <<hour, object, copy, replicas, requests, zero, sampledAt, credited, due, turns, down, past>>
spareVars == <<ready, pods, paused, shares>>

Dry == INSTANCE IdleClock WITH DryRun <- TRUE, Others <- DryOthers
Live == INSTANCE IdleClock WITH MaxTime <- MaxTime + 1, DryRun <- FALSE, Others <- LiveOthers
Early == INSTANCE IdleClock WITH
  IdleAfter <- LongIdleAfter, MaxTime <- MaxTime + 2, DryRun <- FALSE, Others <- EarlyOthers
ASSUME DryAssumption == Dry!Assumptions
ASSUME LiveAssumption == Live!Assumptions
ASSUME EarlyAssumption == Early!Assumptions

Cost == INSTANCE SavedHours WITH
  now <- hour, stored <- object, seen <- copy, chances <- turns,
  StatusFlush <- CostFlush, Others <- CostOthers
ASSUME CostAssumption == Cost!Assumptions

TwoPools == [node \in {"m", "n", "o"} |-> IF node = "o" THEN "q" ELSE "p"]
Capacity == INSTANCE SpareCapacity WITH
  Workloads <- Asleep, MaxReplicas <- MaxAsleep
ASSUME CapacityAssumption == Capacity!Assumptions

In(p) == part = p /\ UNCHANGED part
Clock(p) == In(p) /\ UNCHANGED <<vars, costVars, spareVars>>

\* The parts that don't move are blank, but for the lifecycle, which is in some one state.
Blank == 0
Still == Init /\ tgt.replicas = 1 /\ hold = NoHold
NoClock ==
  /\ now = Blank /\ stored = Blank /\ seen = Blank /\ current = Blank /\ memo = Blank /\ template = Blank
  /\ chances = Blank /\ used = Blank /\ heldAt = Blank /\ watched = Blank /\ looked = Blank
  /\ untold = Blank /\ idled = Blank
NoCost ==
  /\ hour = Blank /\ object = Blank /\ copy = Blank /\ replicas = Blank /\ requests = Blank /\ zero = Blank
  /\ sampledAt = Blank /\ credited = Blank /\ due = Blank /\ turns = Blank /\ down = Blank /\ past = Blank
NoCapacity == ready = Blank /\ pods = Blank /\ paused = Blank /\ shares = Blank
PartsInit ==
  \/ /\ NoClock /\ NoCost /\ NoCapacity
     /\ part = "asked" /\ Init
  \/ /\ Still /\ NoCost /\ NoCapacity
     /\ \/ part = "dry" /\ Dry!Init
        \/ part = "live" /\ Live!Init
        \/ part = "early" /\ Early!Init
  \/ Still /\ NoClock /\ NoCapacity /\ part = "cost" /\ Cost!Init
  \/ Still /\ NoClock /\ NoCost /\ part = "capacity" /\ Capacity!Init

PartsNext ==
  \/ In("asked") /\ Next /\ UNCHANGED <<clockVars, costVars, spareVars>>
  \/ Clock("dry") /\ Dry!Next
  \/ Clock("live") /\ Live!Next
  \/ Clock("early") /\ Early!Next
  \/ In("cost") /\ Cost!Next /\ UNCHANGED <<vars, clockVars, spareVars>>
  \/ In("capacity") /\ Capacity!Next /\ UNCHANGED <<vars, clockVars, costVars>>

PartsSpec == PartsInit /\ [][PartsNext]_<<part, vars, clockVars, costVars, spareVars>>

PartsTypeOK ==
  CASE part = "asked" -> TypeOK
    [] part = "dry" -> Dry!TypeOK
    [] part = "live" -> Live!TypeOK
    [] part = "early" -> Early!TypeOK
    [] part = "cost" -> Cost!TypeOK
    [] part = "capacity" -> Capacity!TypeOK

\* Lifecycle's, with nobody else scaling the target.
BroughtBack == [][part = "asked" => Restores]_vars
\* IdleClock's, of the two that really pause, and of the one that doesn't.
NeverPausedEarly ==
  [][/\ part = "live" => Live!PausesLate
     /\ part = "early" => Early!PausesLate]_clockVars
GapTold ==
  [][/\ part = "live" => Live!PausesTold
     /\ part = "early" => Early!PausesTold]_clockVars
WouldBePausesCounted == [][part = "dry" => Dry!EndsByUse /\ Dry!CountsIdleTime]_clockVars
\* SavedHours'.
HoursCountedOnce == part = "cost" => Cost!HoursCountedOnce
\* SpareCapacity's.
NeverCreditsRoom == part = "capacity" => Capacity!NeverCreditsRoom
================================================================================
