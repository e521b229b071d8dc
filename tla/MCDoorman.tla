------------------------------- MODULE MCDoorman -------------------------------
(***************************************************************************)
(* The doorman, for TLC: the wakes its replicas stamp, the key they share, *)
(* the requests they count, the places their connections take, and the     *)
(* ports the operator routes to them, side by side.  A behaviour is of one *)
(* of the five, as the code lets none of them touch another's state.       *)
(***************************************************************************)
EXTENDS DoormanWake, TLC

CONSTANTS
  a, b, r1, r2, s1, s2, w1, NoPort, NoOne,
  TTL, Skew, Refresh, KeyTime, KeyFaults,
  MaxPause, MaxAway, MaxFails,
  Origins, OriginOf, Targets, TargetOf,
  MaxHeld, MaxHeldPerWorkload, MaxHeldPerSource, MaxHeldPerSourceWorkload,
  MaxProxied, MaxProxiedPerSource, MaxBuffered, MaxBufferedPerConn, SourceIdle, MaxHours, Chances,
  Backends, Services, Ports, PortDrain, SliceSettle, Reload, MaxAge, Lag, RoutingBudget, RoutingExternals

VARIABLES
  part,
  clock, secret, keyed, made, current, previous, until, next, filling, clean, since, stale, token, faults,
  pause, asleep, annotation, status, cached, cachedFresh, route, away, flushing, tries, base, ours,
  turned, displaced, unheard, fails,
  hour, up, stored, event, routes, set, listed, known, step, drained, got, open, failing, passedAt,
  held, byWorkload, proxied, buffered, source, counted, woke, chances,
  routed, slices, inCache, inCacheFresh, inCacheSlices, plan, ready, mem, wait, doing, work, workFresh,
  keys, cur, todo, read, result, age, doorman, lingering, budget

keyVars == <<clock, secret, keyed, made, current, previous, until, next, filling, clean,
             since, stale, token, faults>>
awayVars == <<pause, asleep, annotation, status, cached, cachedFresh, route, away, flushing,
              tries, base, ours, turned, displaced, unheard, fails>>
placeVars == <<hour, up, stored, event, routes, set, listed, known, step, drained, got, open, failing,
               passedAt, held, byWorkload, proxied, buffered, source, counted, woke, chances>>
portVars == <<routed, slices, inCache, inCacheFresh, inCacheSlices, plan, ready, mem, wait, doing, work,
              workFresh, keys, cur, todo, read, result, age, doorman, lingering, budget>>

\* Two replicas, each with a connection from somewhere else.
TwoConns == {a, b}
Apart == a :> r1 @@ b :> r2
Different == a :> s1 @@ b :> s2

Key == INSTANCE WakeKey WITH MaxTime <- KeyTime, Budget <- KeyFaults
Away == INSTANCE TurnedAway

\* Two connections to one, from the same place.
OneSource == a :> s1 @@ b :> s1
OneWorkload == a :> w1 @@ b :> w1
Places == INSTANCE HeldConnections WITH
  Sources <- Origins, SourceOf <- OriginOf, Workloads <- Targets, WorkloadOf <- TargetOf,
  MaxTime <- MaxHours

Routing == INSTANCE DoormanPorts WITH
  Workloads <- Backends, Keys <- Services, Budget <- RoutingBudget, Externals <- RoutingExternals,
  status <- routed, seen <- inCache, seenFresh <- inCacheFresh, seenSlices <- inCacheSlices, up <- ready,
  pc <- doing, copy <- work, fresh <- workFresh, left <- budget
ASSUME RoutingAssumption == PortDrain \in Nat \ {0} /\ SliceSettle \in Nat \ {0}
ASSUME KeyAssumption == Key!Assumptions
ASSUME AwayAssumption == Away!Assumptions
ASSUME PlacesAssumption == Places!Assumptions

\* The parts that don't move are blank, but for DoormanWake's.
NoKey ==
  /\ clock = 0 /\ secret = 0 /\ keyed = 0 /\ made = 0 /\ current = 0 /\ previous = 0 /\ until = 0 /\ next = 0
  /\ filling = 0 /\ clean = 0 /\ since = 0 /\ stale = 0 /\ token = 0 /\ faults = 0
NoAway ==
  /\ pause = 0 /\ asleep = 0 /\ annotation = 0 /\ status = 0 /\ cached = 0 /\ cachedFresh = 0 /\ route = 0
  /\ away = 0 /\ flushing = 0 /\ tries = 0 /\ base = 0 /\ ours = 0 /\ turned = 0 /\ displaced = 0
  /\ unheard = 0 /\ fails = 0
NoPlaces ==
  /\ hour = 0 /\ up = 0 /\ stored = 0 /\ event = 0 /\ routes = 0 /\ set = 0 /\ listed = 0 /\ known = 0
  /\ step = 0 /\ drained = 0 /\ got = 0 /\ open = 0 /\ failing = 0 /\ passedAt = 0 /\ held = 0
  /\ byWorkload = 0 /\ proxied = 0 /\ buffered = 0 /\ source = 0 /\ counted = 0 /\ woke = 0 /\ chances = 0
NoRouting ==
  /\ routed = 0 /\ slices = 0 /\ inCache = 0 /\ inCacheFresh = 0 /\ inCacheSlices = 0 /\ plan = 0 /\ ready = 0
  /\ mem = 0 /\ wait = 0 /\ doing = 0 /\ work = 0 /\ workFresh = 0 /\ keys = 0 /\ cur = 0 /\ todo = 0
  /\ read = 0 /\ result = 0 /\ age = 0 /\ doorman = 0 /\ lingering = 0 /\ budget = 0
PartsInit ==
  /\ Init
  /\ \/ part = "wake" /\ NoKey /\ NoAway /\ NoPlaces /\ NoRouting
     \/ part = "key" /\ Key!Init /\ NoAway /\ NoPlaces /\ NoRouting
     \/ part = "away" /\ NoKey /\ Away!Init /\ NoPlaces /\ NoRouting
     \/ part = "places" /\ NoKey /\ NoAway /\ Places!Init /\ NoRouting
     \/ part = "ports" /\ NoKey /\ NoAway /\ NoPlaces /\ Routing!Init

PartsNext ==
  /\ UNCHANGED part
  /\ \/ part = "wake" /\ Next /\ UNCHANGED <<keyVars, awayVars, placeVars, portVars>>
     \/ part = "key" /\ Key!Next /\ UNCHANGED <<vars, awayVars, placeVars, portVars>>
     \/ part = "away" /\ Away!Next /\ UNCHANGED <<vars, keyVars, placeVars, portVars>>
     \/ part = "places" /\ Places!Next /\ UNCHANGED <<vars, keyVars, awayVars, portVars>>
     \/ part = "ports" /\ Routing!Next /\ UNCHANGED <<vars, keyVars, awayVars, placeVars>>

PartsSpec == PartsInit /\ [][PartsNext]_<<part, vars, keyVars, awayVars, placeVars, portVars>>

PartsTypeOK ==
  CASE part = "wake" -> TypeOK
    [] part = "key" -> Key!TypeOK
    [] part = "away" -> Away!TypeOK
    [] part = "places" -> Places!TypeOK
    [] part = "ports" -> Routing!TypeOK
ClicksWork == part = "key" => Key!ClicksWork
EachCountedOnce == part = "away" => Away!EachCountedOnce
PlacesReturned == part = "places" => Places!PlacesReturned
\* DoormanPorts'.
NoMisdelivery == part = "ports" => Routing!NoMisdelivery
NothingLeftBehind == part = "ports" => Routing!NothingLeftBehind
================================================================================
