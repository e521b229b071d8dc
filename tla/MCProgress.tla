-------------------------------- MODULE MCProgress --------------------------------
(***************************************************************************)
(* What must come of things in the end, for TLC: of the requests one       *)
(* replica of the doorman stamps, of workloads that wake each other, and   *)
(* of labels, annotations and what people write.                           *)
(*                                                                         *)
(* Side by side, as neither touches the other's state.  Of requests: three *)
(* of a workload that asks, two of them from one source, whose calls may   *)
(* fail; and two of one that wakes for any request, which retry, while a   *)
(* portal stamps it too, and through a restart.  Of workloads: three of    *)
(* which two declare each other, one with a pod that never gets Ready; two *)
(* of which each depends on the other, one by what it learned; and a chain *)
(* whose last doesn't start, and whose environment names the first.  Of    *)
(* labels: a Deployment and a StatefulSet of one name; two workloads whose *)
(* lists of dependencies change; and three that start with some.           *)
(*                                                                         *)
(* What others do is bounded, so that in the end nothing is under way: the *)
(* properties say so of everyone at once, which implies what DoormanWake,  *)
(* Dependencies and OptIn say of each.                                     *)
(***************************************************************************)
EXTENDS TLC

CONSTANTS
  a, b, c, r1, s1, s2, NoConn, NoMW, NoList, Unread,
  StampAttempts, StampInterval, ClickInterval, SourceBurst, MaxTime

VARIABLES
  part,
  now, mw, seen, seenFresh, calls, stamped, used, pc, copy, fresh, began, attempt, call, announced, left,
  phase, learned, node, woken, quiet, pods, overdue, chances,
  meta, ns, stored, seenMeta, seenNs, cached, owed, queue, doing, turns

requestVars == <<now, mw, seen, seenFresh, calls, stamped, used, pc, copy, fresh, began, attempt, call,
                 announced, left>>
workloadVars == <<phase, learned, node, woken, quiet, pods, overdue, chances>>
labelVars == <<meta, ns, stored, seenMeta, seenNs, cached, owed, queue, doing, turns>>
vars == <<part, requestVars, workloadVars, labelVars>>

Shared == INSTANCE DoormanWake WITH
  Conns <- {a, b, c}, Replicas <- {r1}, Sources <- {s1, s2},
  ReplicaOf <- a :> r1 @@ b :> r1 @@ c :> r1, SourceOf <- a :> s1 @@ b :> s2 @@ c :> s1,
  Asks <- TRUE, Burst <- 2, Budget <- 1, Externals <- {"fail"}
Retried == INSTANCE DoormanWake WITH
  Conns <- {a, b}, Replicas <- {r1}, Sources <- {s1, s2},
  ReplicaOf <- a :> r1 @@ b :> r1, SourceOf <- a :> s1 @@ b :> s2,
  Asks <- FALSE, Burst <- 1, Budget <- 1, Externals <- {"fail", "portal", "restart"}

Mutual == a :> {b} @@ b :> {a} @@ c :> {a}
Cycle == INSTANCE Dependencies WITH
  stamped <- woken, Workloads <- {a, b, c}, Declared <- Mutual, WaitsFor <- Mutual,
  FromEnvironment <- [w \in {a, b, c} |-> {}], Forbidden <- {}, Crashing <- {}, Limping <- {a},
  Deadlines <- FALSE, Chances <- 2, Others <- {"use", "learn", "zero", "failWake"}
Both == a :> {b} @@ b :> {}
Pair == INSTANCE Dependencies WITH
  stamped <- woken, Workloads <- {a, b}, Declared <- Both, WaitsFor <- [w \in {a, b} |-> {}],
  FromEnvironment <- a :> {} @@ b :> {a}, Forbidden <- {}, Crashing <- {}, Limping <- {},
  Deadlines <- FALSE, Chances <- 2, Others <- {"use", "learn", "failWake"}
InTurn == a :> {b} @@ b :> {c} @@ c :> {}
Chain == INSTANCE Dependencies WITH
  stamped <- woken, Workloads <- {a, b, c}, Declared <- InTurn, WaitsFor <- InTurn,
  FromEnvironment <- a :> {} @@ b :> {} @@ c :> {a}, Forbidden <- {<<c, a>>}, Crashing <- {c}, Limping <- {},
  Deadlines <- TRUE, Chances <- 2, Others <- {"use", "failStamp"}
ASSUME CycleAssumption == Cycle!Assumptions
ASSUME PairAssumption == Pair!Assumptions
ASSUME ChainAssumption == Chain!Assumptions

Lists == {NoList, Unread, {a}, {b}}
Named == INSTANCE OptIn WITH
  chances <- turns, Targets <- {a, b}, Plain <- a :> "api" @@ b :> "api",
  Qualified <- a :> "api-deployment" @@ b :> "api-statefulset",
  Lists <- {NoList}, FirstLists <- [w \in {a, b} |-> {NoList}],
  Chances <- 2, Others <- {"label", "write", "delete", "adopt", "install", "crash"}
Listed == INSTANCE OptIn WITH
  chances <- turns, Targets <- {a, b}, Plain <- a :> "api" @@ b :> "db",
  Qualified <- a :> "api-deployment" @@ b :> "db-statefulset",
  Lists <- Lists, FirstLists <- a :> {NoList} @@ b :> {NoList, {a}},
  Chances <- 1, Others <- {"annotate", "namespace", "edit"}
Leading == INSTANCE OptIn WITH
  chances <- turns, Targets <- {a, b, c}, Plain <- a :> "api" @@ b :> "db" @@ c :> "queue",
  Qualified <- a :> "api-deployment" @@ b :> "db-statefulset" @@ c :> "queue-deployment",
  Lists <- {NoList, {a}, {b}, {c}},
  FirstLists <- a :> {NoList} @@ b :> {NoList, {c}} @@ c :> {NoList, {a}, {b}},
  Chances <- 0, Others <- {}
ASSUME NamedAssumption == Named!Assumptions
ASSUME ListedAssumption == Listed!Assumptions
ASSUME LeadingAssumption == Leading!Assumptions

In(p) == part = p /\ UNCHANGED part
Request(p) == In(p) /\ UNCHANGED <<workloadVars, labelVars>>
Workload(p) == In(p) /\ UNCHANGED <<requestVars, labelVars>>
Label(p) == In(p) /\ UNCHANGED <<requestVars, workloadVars>>

\* The parts that don't move are blank.
NoRequests ==
  /\ now = 0 /\ mw = 0 /\ seen = 0 /\ seenFresh = 0 /\ calls = 0 /\ stamped = 0 /\ used = 0 /\ pc = 0
  /\ copy = 0 /\ fresh = 0 /\ began = 0 /\ attempt = 0 /\ call = 0 /\ announced = 0 /\ left = 0
NoWorkloads ==
  /\ phase = 0 /\ learned = 0 /\ node = 0 /\ woken = 0 /\ quiet = 0 /\ pods = 0 /\ overdue = 0
  /\ chances = 0
NoLabels ==
  /\ meta = 0 /\ ns = 0 /\ stored = 0 /\ seenMeta = 0 /\ seenNs = 0 /\ cached = 0 /\ owed = 0 /\ queue = 0
  /\ doing = 0 /\ turns = 0
Init ==
  \/ /\ NoWorkloads /\ NoLabels
     /\ \/ part = "shared" /\ Shared!Init
        \/ part = "retried" /\ Retried!Init
  \/ /\ NoRequests /\ NoLabels
     /\ \/ part = "cycle" /\ Cycle!Init
        \/ part = "pair" /\ Pair!Init
        \/ part = "chain" /\ Chain!Init
  \/ /\ NoRequests /\ NoWorkloads
     /\ \/ part = "named" /\ Named!Init
        \/ part = "listed" /\ Listed!Init
        \/ part = "leading" /\ Leading!Init

Next ==
  \/ Request("shared") /\ Shared!Next
  \/ Request("retried") /\ Retried!Next
  \/ Workload("cycle") /\ Cycle!Next
  \/ Workload("pair") /\ Pair!Next
  \/ Workload("chain") /\ Chain!Next
  \/ Label("named") /\ Named!Next
  \/ Label("listed") /\ Listed!Next
  \/ Label("leading") /\ Leading!Next

\* The fairness of DoormanWake, Dependencies and OptIn, in the behaviours of each.  Of several
\* in one formula, only one is of the part that moves.
Works(d) ==
  \/ Request("shared") /\ Shared!Wake(d)
  \/ d # c /\ Request("retried") /\ Retried!Wake(d)
  \/ Workload("cycle") /\ Cycle!Reconciles(d)
  \/ d # c /\ Workload("pair") /\ Pair!Reconciles(d)
  \/ Workload("chain") /\ Chain!Reconciles(d)
Hears(d) ==
  \/ Workload("cycle") /\ Cycle!Hears(d)
  \/ d # c /\ Workload("pair") /\ Pair!Hears(d)
  \/ Workload("chain") /\ Chain!Hears(d)
PodsReady(d) ==
  \/ Workload("cycle") /\ Cycle!PodsReady(d)
  \/ d # c /\ Workload("pair") /\ Pair!PodsReady(d)
  \/ Workload("chain") /\ Chain!PodsReady(d)
Passes(d) ==
  \/ Workload("cycle") /\ Cycle!Passes(d)
  \/ d # c /\ Workload("pair") /\ Pair!Passes(d)
  \/ Workload("chain") /\ Chain!Passes(d)
\* Those of OptIn joined further: each can only be repeated until the caches catch up,
\* which they do once each of their fills has happened.
ReconcilesLabels ==
  \/ Label("named") /\ Named!Reconcile
  \/ Label("listed") /\ Listed!Reconcile
  \/ Label("leading") /\ Leading!Reconcile
HearsLabels ==
  \/ Label("named") /\ Named!Hear
  \/ Label("listed") /\ Listed!Hear
  \/ Label("leading") /\ Leading!Hear
Fairness ==
  /\ \A d \in {a, b} :
       WF_vars(Works(d)) /\ WF_vars(Hears(d)) /\ WF_vars(PodsReady(d)) /\ WF_vars(Passes(d))
  /\ WF_vars(Works(c) \/ ReconcilesLabels) /\ WF_vars(Hears(c) \/ HearsLabels)
  /\ WF_vars(PodsReady(c)) /\ WF_vars(Passes(c))
FairSpec == Init /\ [][Next]_vars /\ Fairness

RefusedForItself ==
  /\ part = "shared" => Shared!RefusedForItself
  /\ part = "retried" => Retried!RefusedForItself

Asked(d) == (part = "shared" /\ Shared!Asked(d)) \/ (part = "retried" /\ d # c /\ Retried!Asked(d))
RequestsEnd == []<>(\A d \in {a, b, c} : ~Asked(d))

Starting(d) ==
  \/ part = "cycle" /\ Cycle!Starting(d)
  \/ part = "pair" /\ d # c /\ Pair!Starting(d)
  \/ part = "chain" /\ Chain!Starting(d)

\* Where every stamp that a wake passes on is written.
NeededIsWoken ==
  /\ part = "cycle" => Cycle!NeededIsWoken
  /\ part = "pair" => Pair!NeededIsWoken

\* Where nobody scales a workload to zero.
MayPause(d) ==
  \/ part = "pair" /\ d # c /\ Pair!MayPause(d)
  \/ part = "chain" /\ Chain!MayPause(d)

\* Dependencies' NoneWaitsForever and NoneHeldForever.
WorkloadsMoveOn == []<>(\A d \in {a, b, c} : ~Starting(d) /\ ~MayPause(d))

\* OptIn's, of each.
Unsettled(d) ==
  \/ part = "named" /\ d # c /\ ~Named!Managed(d)
  \/ part = "listed" /\ d # c /\ ~Listed!Managed(d)
  \/ part = "leading" /\ ~Leading!Managed(d)
OptInSettles == []<>(\A d \in {a, b, c} : ~Unsettled(d))
InheritingMakesNoCycle ==
  /\ part = "listed" => Listed!InheritingMakesNoCycle
  /\ part = "leading" => Leading!InheritingMakesNoCycle
=================================================================================
