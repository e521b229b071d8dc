----------------------------- MODULE ProgressProofs -----------------------------
(***************************************************************************)
(* Theorems about what the run of MCProgress has, for its parts: of the    *)
(* workloads, two that declare each other with a third that waits for one  *)
(* of them, and two of which each depends on the other, one by what it     *)
(* learned; of the labels, the two parts where namespaces' lists lead on;  *)
(* and both parts of the requests.                                         *)
(*                                                                         *)
(* DependenciesProofs and OptInProofs prove theirs of any workloads; here  *)
(* their formulas are shown to be those that MCProgress runs.              *)
(***************************************************************************)
EXTENDS MCProgress, TLAPS

CycleEdges == INSTANCE DependenciesProofs WITH
  stamped <- woken, Workloads <- {a, b, c}, Declared <- Mutual, WaitsFor <- Mutual,
  FromEnvironment <- [w \in {a, b, c} |-> {}], Forbidden <- {}, Crashing <- {}, Limping <- {a},
  Deadlines <- FALSE, Chances <- 2, Others <- {"use", "learn", "zero", "failWake"}
PairEdges == INSTANCE DependenciesProofs WITH
  stamped <- woken, Workloads <- {a, b}, Declared <- Both, WaitsFor <- [w \in {a, b} |-> {}],
  FromEnvironment <- a :> {} @@ b :> {a}, Forbidden <- {}, Crashing <- {}, Limping <- {},
  Deadlines <- FALSE, Chances <- 2, Others <- {"use", "learn", "failWake"}
ListedLists == INSTANCE OptInProofs WITH
  chances <- turns, Targets <- {a, b}, Plain <- a :> "api" @@ b :> "db",
  Qualified <- a :> "api-deployment" @@ b :> "db-statefulset",
  Lists <- Lists, FirstLists <- a :> {NoList} @@ b :> {NoList, {a}},
  Chances <- 1, Others <- {"annotate", "namespace", "edit"}
LeadingLists == INSTANCE OptInProofs WITH
  chances <- turns, Targets <- {a, b, c}, Plain <- a :> "api" @@ b :> "db" @@ c :> "queue",
  Qualified <- a :> "api-deployment" @@ b :> "db-statefulset" @@ c :> "queue-deployment",
  Lists <- {NoList, {a}, {b}, {c}},
  FirstLists <- a :> {NoList} @@ b :> {NoList, {c}} @@ c :> {NoList, {a}, {b}},
  Chances <- 0, Others <- {}

\* Whatever moves, the other parts' state is as it was.
LEMMA PartsMove ==
  ASSUME [Next]_vars
  PROVE  /\ part' = part
         /\ part = "shared" => Shared!Next \/ UNCHANGED requestVars
         /\ part = "retried" => Retried!Next \/ UNCHANGED requestVars
         /\ part = "cycle" => Cycle!Next \/ UNCHANGED workloadVars
         /\ part = "pair" => Pair!Next \/ UNCHANGED workloadVars
         /\ part = "listed" => Listed!Next \/ UNCHANGED labelVars
         /\ part = "leading" => Leading!Next \/ UNCHANGED labelVars
<1>1. CASE Next
  BY <1>1 DEF Next, In, Request, Workload, Label
<1>2. CASE UNCHANGED vars
  BY <1>2 DEF vars
<1> QED
  BY <1>1, <1>2

-----------------------------------------------------------------------------
(* The workloads: DependenciesProofs speaks of the same formulas. *)

LEMMA SameCycle ==
  /\ Cycle!Assumptions <=> CycleEdges!Assumptions
  /\ Cycle!Init <=> CycleEdges!Init
  /\ Cycle!Next <=> CycleEdges!Next
  /\ Cycle!NeededIsWoken <=> CycleEdges!NeededIsWoken
  /\ UNCHANGED workloadVars <=> UNCHANGED CycleEdges!vars
<1>1. UNCHANGED workloadVars <=> UNCHANGED CycleEdges!vars
  BY DEF workloadVars, CycleEdges!vars
<1>2. Cycle!Assumptions <=> CycleEdges!Assumptions
  BY Zenon DEF
       Cycle!Assumptions, Cycle!IsFiniteSet, CycleEdges!Assumptions, CycleEdges!IsFiniteSet
<1>3. Cycle!Init <=> CycleEdges!Init
  BY Zenon DEF
       Cycle!Init, CycleEdges!Init
<1>4. Cycle!NeededIsWoken <=> CycleEdges!NeededIsWoken
  BY Zenon DEF
       Cycle!Allows, Cycle!DeclaredEdges, Cycle!WakeDue, Cycle!Heard, Cycle!Without,
       Cycle!NeededIsWoken, CycleEdges!Allows, CycleEdges!DeclaredEdges, CycleEdges!WakeDue,
       CycleEdges!Heard, CycleEdges!Without, CycleEdges!NeededIsWoken
<1>5. ASSUME NEW w PROVE Cycle!Held(w) <=> CycleEdges!Held(w)
  BY Zenon DEF
       Cycle!Allows, Cycle!DeclaredEdges, Cycle!AllEdges, Cycle!Following, Cycle!Reaches, Cycle!Holds,
       Cycle!IsAwake, Cycle!InCycle, Cycle!Held, Cycle!Cardinality, CycleEdges!Allows,
       CycleEdges!DeclaredEdges, CycleEdges!AllEdges, CycleEdges!Following, CycleEdges!Reaches,
       CycleEdges!Holds, CycleEdges!IsAwake, CycleEdges!InCycle, CycleEdges!Held, CycleEdges!Cardinality
<1>6. ASSUME NEW w PROVE Cycle!Waiting(w) = CycleEdges!Waiting(w)
  BY Zenon DEF
       Cycle!Allows, Cycle!WaitForReadyEdges, Cycle!Following, Cycle!Reaches, Cycle!ServesDependents,
       Cycle!WontStart, Cycle!WaitsOn, Cycle!Waiting, Cycle!Cardinality, CycleEdges!Allows,
       CycleEdges!WaitForReadyEdges, CycleEdges!Following, CycleEdges!Reaches,
       CycleEdges!ServesDependents, CycleEdges!WontStart, CycleEdges!WaitsOn, CycleEdges!Waiting,
       CycleEdges!Cardinality
<1>7. ASSUME NEW w PROVE Cycle!Pauses(w) <=> CycleEdges!Pauses(w)
  BY <1>5, Zenon DEF
       Cycle!WakeDue, Cycle!Pauses, CycleEdges!WakeDue, CycleEdges!Pauses
<1>8. ASSUME NEW w PROVE Cycle!Settles(w) <=> CycleEdges!Settles(w)
  BY Zenon DEF
       Cycle!Settles, CycleEdges!Settles
<1>9. ASSUME NEW w PROVE Cycle!Wakes(w) <=> CycleEdges!Wakes(w)
  BY Zenon DEF
       Cycle!Allows, Cycle!AllEdges, Cycle!Stamped, Cycle!Fault, Cycle!StampDependencies,
       Cycle!LearnsFromWake, Cycle!Wakes, CycleEdges!Allows, CycleEdges!AllEdges, CycleEdges!Stamped,
       CycleEdges!Fault, CycleEdges!StampDependencies, CycleEdges!LearnsFromWake, CycleEdges!Wakes
<1>10. ASSUME NEW w PROVE Cycle!WakeFails(w) <=> CycleEdges!WakeFails(w)
  BY Zenon DEF
       Cycle!Allows, Cycle!AllEdges, Cycle!Stamped, Cycle!Fault, Cycle!WakeFails, CycleEdges!Allows,
       CycleEdges!AllEdges, CycleEdges!Stamped, CycleEdges!Fault, CycleEdges!WakeFails
<1>11. ASSUME NEW w PROVE Cycle!Waits(w) <=> CycleEdges!Waits(w)
  BY <1>6, Zenon DEF
       Cycle!IsAwake, Cycle!Stamped, Cycle!Waits, CycleEdges!IsAwake, CycleEdges!Stamped,
       CycleEdges!Waits
<1>12. ASSUME NEW w PROVE Cycle!Resumes(w) <=> CycleEdges!Resumes(w)
  BY <1>6, Zenon DEF
       Cycle!Resumes, CycleEdges!Resumes
<1>13. ASSUME NEW w PROVE Cycle!Hears(w) <=> CycleEdges!Hears(w)
  BY Zenon DEF
       Cycle!Hears, CycleEdges!Hears
<1>14. ASSUME NEW w PROVE Cycle!PodsReady(w) <=> CycleEdges!PodsReady(w)
  BY Zenon DEF
       Cycle!PodsReady, CycleEdges!PodsReady
<1>15. ASSUME NEW w PROVE Cycle!RunsOut(w) <=> CycleEdges!RunsOut(w)
  BY Zenon DEF
       Cycle!WakeDue, Cycle!Heard, Cycle!RunsOut, CycleEdges!WakeDue, CycleEdges!Heard,
       CycleEdges!RunsOut
<1>16. ASSUME NEW w PROVE Cycle!Overdue(w) <=> CycleEdges!Overdue(w)
  BY Zenon DEF
       Cycle!WakeDue, Cycle!Heard, Cycle!Overdue, CycleEdges!WakeDue, CycleEdges!Heard,
       CycleEdges!Overdue
<1>17. ASSUME NEW w PROVE Cycle!Used(w) <=> CycleEdges!Used(w)
  BY Zenon DEF
       Cycle!Stamped, Cycle!Fault, Cycle!Used, CycleEdges!Stamped, CycleEdges!Fault, CycleEdges!Used
<1>18. ASSUME NEW w PROVE Cycle!ScaledToZero(w) <=> CycleEdges!ScaledToZero(w)
  BY Zenon DEF
       Cycle!Fault, Cycle!ScaledToZero, CycleEdges!Fault, CycleEdges!ScaledToZero
<1>19. Cycle!Next <=> CycleEdges!Next
  BY <1>7, <1>8, <1>9, <1>10, <1>11, <1>12, <1>13, <1>14, <1>15, <1>16, <1>17, <1>18, Zenon DEF Cycle!Next,
       CycleEdges!Next
<1> QED
  BY <1>1, <1>2, <1>3, <1>4, <1>19

LEMMA SamePair ==
  /\ Pair!Assumptions <=> PairEdges!Assumptions
  /\ Pair!Init <=> PairEdges!Init
  /\ Pair!Next <=> PairEdges!Next
  /\ Pair!NeededIsWoken <=> PairEdges!NeededIsWoken
  /\ UNCHANGED workloadVars <=> UNCHANGED PairEdges!vars
<1>1. UNCHANGED workloadVars <=> UNCHANGED PairEdges!vars
  BY DEF workloadVars, PairEdges!vars
<1>2. Pair!Assumptions <=> PairEdges!Assumptions
  BY Zenon DEF
       Pair!Assumptions, Pair!IsFiniteSet, PairEdges!Assumptions, PairEdges!IsFiniteSet
<1>3. Pair!Init <=> PairEdges!Init
  BY Zenon DEF
       Pair!Init, PairEdges!Init
<1>4. Pair!NeededIsWoken <=> PairEdges!NeededIsWoken
  BY Zenon DEF
       Pair!Allows, Pair!DeclaredEdges, Pair!WakeDue, Pair!Heard, Pair!Without, Pair!NeededIsWoken,
       PairEdges!Allows, PairEdges!DeclaredEdges, PairEdges!WakeDue, PairEdges!Heard, PairEdges!Without,
       PairEdges!NeededIsWoken
<1>5. ASSUME NEW w PROVE Pair!Held(w) <=> PairEdges!Held(w)
  BY Zenon DEF
       Pair!Allows, Pair!DeclaredEdges, Pair!AllEdges, Pair!Following, Pair!Reaches, Pair!Holds,
       Pair!IsAwake, Pair!InCycle, Pair!Held, Pair!Cardinality, PairEdges!Allows,
       PairEdges!DeclaredEdges, PairEdges!AllEdges, PairEdges!Following, PairEdges!Reaches,
       PairEdges!Holds, PairEdges!IsAwake, PairEdges!InCycle, PairEdges!Held, PairEdges!Cardinality
<1>6. ASSUME NEW w PROVE Pair!Waiting(w) = PairEdges!Waiting(w)
  BY Zenon DEF
       Pair!Allows, Pair!WaitForReadyEdges, Pair!Following, Pair!Reaches, Pair!ServesDependents,
       Pair!WontStart, Pair!WaitsOn, Pair!Waiting, Pair!Cardinality, PairEdges!Allows,
       PairEdges!WaitForReadyEdges, PairEdges!Following, PairEdges!Reaches, PairEdges!ServesDependents,
       PairEdges!WontStart, PairEdges!WaitsOn, PairEdges!Waiting, PairEdges!Cardinality
<1>7. ASSUME NEW w PROVE Pair!Pauses(w) <=> PairEdges!Pauses(w)
  BY <1>5, Zenon DEF
       Pair!WakeDue, Pair!Pauses, PairEdges!WakeDue, PairEdges!Pauses
<1>8. ASSUME NEW w PROVE Pair!Settles(w) <=> PairEdges!Settles(w)
  BY Zenon DEF
       Pair!Settles, PairEdges!Settles
<1>9. ASSUME NEW w PROVE Pair!Wakes(w) <=> PairEdges!Wakes(w)
  BY Zenon DEF
       Pair!Allows, Pair!AllEdges, Pair!Stamped, Pair!Fault, Pair!StampDependencies,
       Pair!LearnsFromWake, Pair!Wakes, PairEdges!Allows, PairEdges!AllEdges, PairEdges!Stamped,
       PairEdges!Fault, PairEdges!StampDependencies, PairEdges!LearnsFromWake, PairEdges!Wakes
<1>10. ASSUME NEW w PROVE Pair!WakeFails(w) <=> PairEdges!WakeFails(w)
  BY Zenon DEF
       Pair!Allows, Pair!AllEdges, Pair!Stamped, Pair!Fault, Pair!WakeFails, PairEdges!Allows,
       PairEdges!AllEdges, PairEdges!Stamped, PairEdges!Fault, PairEdges!WakeFails
<1>11. ASSUME NEW w PROVE Pair!Waits(w) <=> PairEdges!Waits(w)
  BY <1>6, Zenon DEF
       Pair!IsAwake, Pair!Stamped, Pair!Waits, PairEdges!IsAwake, PairEdges!Stamped, PairEdges!Waits
<1>12. ASSUME NEW w PROVE Pair!Resumes(w) <=> PairEdges!Resumes(w)
  BY <1>6, Zenon DEF
       Pair!Resumes, PairEdges!Resumes
<1>13. ASSUME NEW w PROVE Pair!Hears(w) <=> PairEdges!Hears(w)
  BY Zenon DEF
       Pair!Hears, PairEdges!Hears
<1>14. ASSUME NEW w PROVE Pair!PodsReady(w) <=> PairEdges!PodsReady(w)
  BY Zenon DEF
       Pair!PodsReady, PairEdges!PodsReady
<1>15. ASSUME NEW w PROVE Pair!RunsOut(w) <=> PairEdges!RunsOut(w)
  BY Zenon DEF
       Pair!WakeDue, Pair!Heard, Pair!RunsOut, PairEdges!WakeDue, PairEdges!Heard, PairEdges!RunsOut
<1>16. ASSUME NEW w PROVE Pair!Overdue(w) <=> PairEdges!Overdue(w)
  BY Zenon DEF
       Pair!WakeDue, Pair!Heard, Pair!Overdue, PairEdges!WakeDue, PairEdges!Heard, PairEdges!Overdue
<1>17. ASSUME NEW w PROVE Pair!Used(w) <=> PairEdges!Used(w)
  BY Zenon DEF
       Pair!Stamped, Pair!Fault, Pair!Used, PairEdges!Stamped, PairEdges!Fault, PairEdges!Used
<1>18. ASSUME NEW w PROVE Pair!ScaledToZero(w) <=> PairEdges!ScaledToZero(w)
  BY Zenon DEF
       Pair!Fault, Pair!ScaledToZero, PairEdges!Fault, PairEdges!ScaledToZero
<1>19. Pair!Next <=> PairEdges!Next
  BY <1>7, <1>8, <1>9, <1>10, <1>11, <1>12, <1>13, <1>14, <1>15, <1>16, <1>17, <1>18, Zenon DEF Pair!Next,
       PairEdges!Next
<1> QED
  BY <1>1, <1>2, <1>3, <1>4, <1>19

\* No workload is left paused under one that's awake, or waking, and declares it, in either
\* (NeededIsWoken; dependencies.go:370-382).
THEOREM NeededWokenBeside == FairSpec => []NeededIsWoken
<1> DEFINE Inv == (part = "cycle" => CycleEdges!EdgeInv) /\ (part = "pair" => PairEdges!EdgeInv)
<1>1. CycleEdges!Assumptions /\ PairEdges!Assumptions
  BY CycleAssumption, PairAssumption, SameCycle, SamePair
<1>2. /\ "failStamp" \notin {"use", "learn", "zero", "failWake"}
      /\ "failStamp" \notin {"use", "learn", "failWake"}
  OBVIOUS
<1>3. Init => Inv
  <2>1. Init => (part = "cycle" => Cycle!Init) /\ (part = "pair" => Pair!Init)
    BY DEF Init
  <2>2. CycleEdges!Init => CycleEdges!EdgeInv
    BY <1>1, CycleEdges!EdgesInitially
  <2>3. PairEdges!Init => PairEdges!EdgeInv
    BY <1>1, PairEdges!EdgesInitially
  <2> QED
    BY <2>1, <2>2, <2>3, SameCycle, SamePair
<1>4. Inv /\ [Next]_vars => Inv'
  <2>1. CycleEdges!EdgeInv /\ [CycleEdges!Next]_(CycleEdges!vars) => CycleEdges!EdgeInv'
    BY <1>1, <1>2, CycleEdges!EdgesKept
  <2>2. PairEdges!EdgeInv /\ [PairEdges!Next]_(PairEdges!vars) => PairEdges!EdgeInv'
    BY <1>1, <1>2, PairEdges!EdgesKept
  <2> QED
    BY <2>1, <2>2, PartsMove, SameCycle, SamePair
<1>5. Inv => NeededIsWoken
  <2>1. CycleEdges!EdgeInv => CycleEdges!NeededIsWoken
    BY <1>1, CycleEdges!NeededIsWokenNow
  <2>2. PairEdges!EdgeInv => PairEdges!NeededIsWoken
    BY <1>1, PairEdges!NeededIsWokenNow
  <2> QED
    BY <2>1, <2>2, SameCycle, SamePair DEF NeededIsWoken
<1> QED
  BY <1>3, <1>4, <1>5, PTL DEF FairSpec

-----------------------------------------------------------------------------
(* The labels: OptInProofs speaks of the same formulas. *)

LEMMA SameListed ==
  /\ Listed!Assumptions <=> ListedLists!Assumptions
  /\ Listed!Init <=> ListedLists!Init
  /\ Listed!InheritingMakesNoCycle <=> ListedLists!InheritingMakesNoCycle
<1>1. Listed!Assumptions <=> ListedLists!Assumptions
  BY Zenon DEF
       Listed!Assumptions, Listed!IsFiniteSet, ListedLists!Assumptions, ListedLists!IsFiniteSet
<1>2. Listed!Init <=> ListedLists!Init
  BY Zenon DEF
       Listed!Names, Listed!Nothing, Listed!Init, ListedLists!Names, ListedLists!Nothing, ListedLists!Init
<1>3. Listed!InheritingMakesNoCycle <=> ListedLists!InheritingMakesNoCycle
  BY Zenon DEF
       Listed!Read, Listed!LeadsTo, Listed!InheritsDependsOn, Listed!DependsOn, Listed!Depended,
       Listed!InheritingMakesNoCycle, Listed!Cardinality, ListedLists!Read, ListedLists!LeadsTo,
       ListedLists!InheritsDependsOn, ListedLists!DependsOn, ListedLists!Depended,
       ListedLists!InheritingMakesNoCycle, ListedLists!Cardinality
<1> QED
  BY <1>1, <1>2, <1>3

LEMMA ListedListsKept ==
  ASSUME ListedLists!ListsTyped, Listed!Next \/ UNCHANGED labelVars
  PROVE  ListedLists!ListsTyped'
<1>1. CASE UNCHANGED <<meta, ns>>
  BY <1>1 DEF ListedLists!ListsTyped
<1>2. ASSUME NEW t \in {a, b}, Listed!Labels(t) PROVE ListedLists!ListsTyped'
  <2>1. PICK v \in {"", "true", "refused"} : meta' = [meta EXCEPT ![t].label = v]
    BY <1>2 DEF Listed!Labels
  <2>2. ns' = ns
    BY <1>2 DEF Listed!Labels
  <2> QED
    BY <2>1, <2>2 DEF ListedLists!ListsTyped
<1>3. ASSUME NEW t \in {a, b}, Listed!Annotates(t) PROVE ListedLists!ListsTyped'
  <2>1. ns' = ns
    BY <1>3 DEF Listed!Annotates
  <2>2. CASE \E v \in ListedLists!Values : meta' = [meta EXCEPT ![t].dryRun = v]
    <3>1. PICK v \in ListedLists!Values : meta' = [meta EXCEPT ![t].dryRun = v]
      BY <2>2
    <3> QED
      BY <2>1, <3>1 DEF ListedLists!ListsTyped
  <2>3. CASE \E v \in Lists : meta' = [meta EXCEPT ![t].dependsOn = v]
    <3>1. PICK v \in Lists : meta' = [meta EXCEPT ![t].dependsOn = v]
      BY <2>3
    <3> QED
      BY <2>1, <3>1 DEF ListedLists!ListsTyped
  <2> QED
    BY <1>3, <2>2, <2>3 DEF Listed!Annotates, Listed!Values, ListedLists!Values
<1>4. CASE Listed!ChangesNamespace
  BY <1>4 DEF Listed!ChangesNamespace, ListedLists!ListsTyped
<1>5. ASSUME NEW t, Listed!Reads(t) \/ Listed!Writes(t) \/ Listed!HearsOfWorkload(t)
               \/ Listed!WritesOne(t) PROVE ListedLists!ListsTyped'
  BY <1>1, <1>5 DEF Listed!Reads, Listed!Writes, Listed!HearsOfWorkload, Listed!WritesOne
<1>6. ASSUME NEW n, Listed!TakesOn(n) \/ Listed!HandsBack(n) PROVE ListedLists!ListsTyped'
  BY <1>1, <1>6 DEF Listed!TakesOn, Listed!HandsBack
<1>7. ASSUME NEW n, Listed!DeletesOne(n) \/ Listed!EditsOne(n) \/ Listed!Adopts(n)
               \/ Listed!AnotherTakesOn(n) PROVE ListedLists!ListsTyped'
  BY <1>1, <1>7 DEF Listed!DeletesOne, Listed!EditsOne, Listed!Adopts, Listed!AnotherTakesOn
<1>8. CASE Listed!HearsOfNamespace \/ Listed!HearsOfManagedWorkloads \/ Listed!Restarts \/ UNCHANGED labelVars
  BY <1>1, <1>8 DEF Listed!HearsOfNamespace, Listed!HearsOfManagedWorkloads, Listed!Restarts, labelVars
<1> QED
  BY <1>2, <1>3, <1>4, <1>5, <1>6, <1>7, <1>8 DEF Listed!Next

LEMMA SameLeading ==
  /\ Leading!Assumptions <=> LeadingLists!Assumptions
  /\ Leading!Init <=> LeadingLists!Init
  /\ Leading!InheritingMakesNoCycle <=> LeadingLists!InheritingMakesNoCycle
<1>1. Leading!Assumptions <=> LeadingLists!Assumptions
  BY Zenon DEF
       Leading!Assumptions, Leading!IsFiniteSet, LeadingLists!Assumptions, LeadingLists!IsFiniteSet
<1>2. Leading!Init <=> LeadingLists!Init
  BY Zenon DEF
       Leading!Names, Leading!Nothing, Leading!Init, LeadingLists!Names, LeadingLists!Nothing,
       LeadingLists!Init
<1>3. Leading!InheritingMakesNoCycle <=> LeadingLists!InheritingMakesNoCycle
  BY Zenon DEF
       Leading!Read, Leading!LeadsTo, Leading!InheritsDependsOn, Leading!DependsOn, Leading!Depended,
       Leading!InheritingMakesNoCycle, Leading!Cardinality, LeadingLists!Read, LeadingLists!LeadsTo,
       LeadingLists!InheritsDependsOn, LeadingLists!DependsOn, LeadingLists!Depended,
       LeadingLists!InheritingMakesNoCycle, LeadingLists!Cardinality
<1> QED
  BY <1>1, <1>2, <1>3

LEMMA LeadingListsKept ==
  ASSUME LeadingLists!ListsTyped, Leading!Next \/ UNCHANGED labelVars
  PROVE  LeadingLists!ListsTyped'
<1>1. CASE UNCHANGED <<meta, ns>>
  BY <1>1 DEF LeadingLists!ListsTyped
<1>2. ASSUME NEW t \in {a, b, c}, Leading!Labels(t) PROVE LeadingLists!ListsTyped'
  <2>1. PICK v \in {"", "true", "refused"} : meta' = [meta EXCEPT ![t].label = v]
    BY <1>2 DEF Leading!Labels
  <2>2. ns' = ns
    BY <1>2 DEF Leading!Labels
  <2> QED
    BY <2>1, <2>2 DEF LeadingLists!ListsTyped
<1>3. ASSUME NEW t \in {a, b, c}, Leading!Annotates(t) PROVE LeadingLists!ListsTyped'
  <2>1. ns' = ns
    BY <1>3 DEF Leading!Annotates
  <2>2. CASE \E v \in LeadingLists!Values : meta' = [meta EXCEPT ![t].dryRun = v]
    <3>1. PICK v \in LeadingLists!Values : meta' = [meta EXCEPT ![t].dryRun = v]
      BY <2>2
    <3> QED
      BY <2>1, <3>1 DEF LeadingLists!ListsTyped
  <2>3. CASE \E v \in {NoList, {a}, {b}, {c}} : meta' = [meta EXCEPT ![t].dependsOn = v]
    <3>1. PICK v \in {NoList, {a}, {b}, {c}} : meta' = [meta EXCEPT ![t].dependsOn = v]
      BY <2>3
    <3> QED
      BY <2>1, <3>1 DEF LeadingLists!ListsTyped
  <2> QED
    BY <1>3, <2>2, <2>3 DEF Leading!Annotates, Leading!Values, LeadingLists!Values
<1>4. CASE Leading!ChangesNamespace
  BY <1>4 DEF Leading!ChangesNamespace, LeadingLists!ListsTyped
<1>5. ASSUME NEW t, Leading!Reads(t) \/ Leading!Writes(t) \/ Leading!HearsOfWorkload(t)
               \/ Leading!WritesOne(t) PROVE LeadingLists!ListsTyped'
  BY <1>1, <1>5 DEF Leading!Reads, Leading!Writes, Leading!HearsOfWorkload, Leading!WritesOne
<1>6. ASSUME NEW n, Leading!TakesOn(n) \/ Leading!HandsBack(n) PROVE LeadingLists!ListsTyped'
  BY <1>1, <1>6 DEF Leading!TakesOn, Leading!HandsBack
<1>7. ASSUME NEW n, Leading!DeletesOne(n) \/ Leading!EditsOne(n) \/ Leading!Adopts(n)
               \/ Leading!AnotherTakesOn(n) PROVE LeadingLists!ListsTyped'
  BY <1>1, <1>7 DEF Leading!DeletesOne, Leading!EditsOne, Leading!Adopts, Leading!AnotherTakesOn
<1>8. CASE Leading!HearsOfNamespace \/ Leading!HearsOfManagedWorkloads \/ Leading!Restarts
             \/ UNCHANGED labelVars
  BY <1>1, <1>8 DEF Leading!HearsOfNamespace, Leading!HearsOfManagedWorkloads, Leading!Restarts, labelVars
<1> QED
  BY <1>2, <1>3, <1>4, <1>5, <1>6, <1>7, <1>8 DEF Leading!Next

\* No workload takes its namespace's list into a cycle of dependencies, in either
\* (InheritingMakesNoCycle; optin_controller.go:165-171).
THEOREM NoCycleBeside == FairSpec => []InheritingMakesNoCycle
<1> DEFINE Inv == (part = "listed" => ListedLists!ListsTyped) /\ (part = "leading" => LeadingLists!ListsTyped)
<1>1. ListedLists!Assumptions /\ LeadingLists!Assumptions
  BY ListedAssumption, LeadingAssumption, SameListed, SameLeading
<1>2. Init => Inv
  <2>1. Init => (part = "listed" => Listed!Init) /\ (part = "leading" => Leading!Init)
    BY DEF Init
  <2>2. ListedLists!Init => ListedLists!ListsTyped
    BY <1>1, ListedLists!ListsInitially
  <2>3. LeadingLists!Init => LeadingLists!ListsTyped
    BY <1>1, LeadingLists!ListsInitially
  <2> QED
    BY <2>1, <2>2, <2>3, SameListed, SameLeading
<1>3. Inv /\ [Next]_vars => Inv'
  BY PartsMove, ListedListsKept, LeadingListsKept
<1>4. Inv => InheritingMakesNoCycle
  <2>1. ListedLists!ListsTyped => ListedLists!InheritingMakesNoCycle
    BY <1>1, ListedLists!NoCycleNow
  <2>2. LeadingLists!ListsTyped => LeadingLists!InheritingMakesNoCycle
    BY <1>1, LeadingLists!NoCycleNow
  <2> QED
    BY <2>1, <2>2, SameListed, SameLeading DEF InheritingMakesNoCycle
<1> QED
  BY <1>2, <1>3, <1>4, PTL DEF FairSpec

-----------------------------------------------------------------------------
(* The requests. *)

\* Of the requests of part "shared": whoever holds a refusal, or is about to, holds its own source's.
SharedRefusals ==
  /\ pc = [d \in {a, b, c} |-> pc[d]] /\ call = [d \in {a, b, c} |-> call[d]]
  /\ \A d \in {a, b, c} :
       pc[d] \in {"finish", "held"} /\ call[d].result = "limited" =>
         call[d].source = (a :> s1 @@ b :> s2 @@ c :> s1)[d]

LEMMA SharedRefusalsInitially == ASSUME Shared!Init PROVE SharedRefusals
BY DEF Shared!Init, SharedRefusals

LEMMA SharedRefusalsKept == ASSUME SharedRefusals, Shared!Next \/ UNCHANGED requestVars PROVE SharedRefusals'
<1>1. CASE UNCHANGED <<pc, call>>
  BY <1>1 DEF SharedRefusals
<1>2. ASSUME NEW d \in {a, b, c}, NEW result, NEW p, Shared!Came(d, result, p) PROVE SharedRefusals'
  BY <1>2 DEF Shared!Came, Shared!Goto, SharedRefusals
<1>3. ASSUME NEW d \in {a, b, c}, Shared!Goto(d, "patch") \/ Shared!Goto(d, "reread"),
             call' = [call EXCEPT ![d] = call'[d]]
      PROVE  SharedRefusals'
  BY <1>3 DEF Shared!Goto, SharedRefusals
<1>4. ASSUME NEW d \in {a, b, c}, Shared!Look(d) \/ Shared!Patch(d) \/ Shared!Reread(d) PROVE SharedRefusals'
  <2>1. call' = call => call' = [call EXCEPT ![d] = call'[d]]
    BY DEF SharedRefusals
  <2>2. \A x : call' = [call EXCEPT ![d].pause = x] => call' = [call EXCEPT ![d] = call'[d]]
    BY DEF SharedRefusals
  <2>3. CASE Shared!Look(d)
    BY <1>2, <1>3, <2>2, <2>3 DEF Shared!Look
  <2>4. CASE Shared!Patch(d)
    BY <1>2, <1>3, <2>1, <2>4 DEF Shared!Patch
  <2>5. CASE Shared!Reread(d)
    BY <1>2, <1>3, <2>1, <2>5 DEF Shared!Reread
  <2> QED
    BY <1>4, <2>3, <2>4, <2>5
<1>5. ASSUME NEW d \in {a, b, c}, Shared!Ask(d) \/ Shared!Retry(d) PROVE SharedRefusals'
  BY <1>5 DEF Shared!Ask, Shared!Retry, Shared!local, Shared!Goto, SharedRefusals
<1>6. ASSUME NEW d \in {a, b, c}, Shared!Finish(d) PROVE SharedRefusals'
  BY <1>6 DEF Shared!Finish, Shared!Waiting, SharedRefusals
<1>7. ASSUME NEW d \in {a, b, c}, Shared!Hear(d) PROVE SharedRefusals'
  BY <1>7 DEF Shared!Hear, Shared!OthersLimit, Shared!Goto, Shared!After, SharedRefusals
<1>8. ASSUME NEW S, Shared!Forgets(S), pc' = [d \in {a, b, c} |-> IF d \in S THEN "gone" ELSE pc[d]]
      PROVE  SharedRefusals'
  BY <1>8 DEF Shared!Forgets, SharedRefusals
<1>9. ASSUME NEW d \in {a, b, c}, Shared!Leave(d) PROVE SharedRefusals'
  <2>1. Shared!Forgets({d}) /\ pc' = [pc EXCEPT ![d] = "gone"]
    BY <1>9 DEF Shared!Leave, Shared!Goto
  <2>2. pc' = [e \in {a, b, c} |-> IF e \in {d} THEN "gone" ELSE pc[e]]
    BY <2>1 DEF SharedRefusals
  <2> QED
    BY <1>8, <2>1, <2>2
<1>10. ASSUME NEW r, Shared!Restart(r) PROVE SharedRefusals'
  BY <1>8, <1>10 DEF Shared!Restart
<1>11. ASSUME NEW r, Shared!See(r) PROVE SharedRefusals'
  BY <1>1, <1>11 DEF Shared!See, Shared!local
<1>12. CASE Shared!Wakes \/ Shared!Runs \/ Shared!Pauses \/ Shared!Paused \/ Shared!WritesStatus \/ Shared!Stamp
  BY <1>1, <1>12 DEF Shared!Wakes, Shared!Runs, Shared!Pauses, Shared!Paused, Shared!WritesStatus,
       Shared!Stamp, Shared!Others
<1>13. CASE Shared!Tick \/ UNCHANGED requestVars
  BY <1>1, <1>13 DEF Shared!Tick, Shared!local, requestVars
<1> QED
  BY <1>4, <1>5, <1>6, <1>7, <1>9, <1>10, <1>11, <1>12, <1>13 DEF Shared!Next, Shared!Wake

\* Of the requests of part "retried": whoever holds a refusal, or is about to, holds its own source's.
RetriedRefusals ==
  /\ pc = [d \in {a, b} |-> pc[d]] /\ call = [d \in {a, b} |-> call[d]]
  /\ \A d \in {a, b} :
       pc[d] \in {"finish", "held"} /\ call[d].result = "limited" => call[d].source = (a :> s1 @@ b :> s2)[d]

LEMMA RetriedRefusalsInitially == ASSUME Retried!Init PROVE RetriedRefusals
BY DEF Retried!Init, RetriedRefusals

LEMMA RetriedRefusalsKept == ASSUME RetriedRefusals, Retried!Next
  \/ UNCHANGED requestVars PROVE RetriedRefusals'
<1>1. CASE UNCHANGED <<pc, call>>
  BY <1>1 DEF RetriedRefusals
<1>2. ASSUME NEW d \in {a, b}, NEW result, NEW p, Retried!Came(d, result, p) PROVE RetriedRefusals'
  BY <1>2 DEF Retried!Came, Retried!Goto, RetriedRefusals
<1>3. ASSUME NEW d \in {a, b}, Retried!Goto(d, "patch") \/ Retried!Goto(d, "reread"),
             call' = [call EXCEPT ![d] = call'[d]]
      PROVE  RetriedRefusals'
  BY <1>3 DEF Retried!Goto, RetriedRefusals
<1>4. ASSUME NEW d \in {a, b}, Retried!Look(d) \/ Retried!Patch(d) \/ Retried!Reread(d) PROVE RetriedRefusals'
  <2>1. call' = call => call' = [call EXCEPT ![d] = call'[d]]
    BY DEF RetriedRefusals
  <2>2. \A x : call' = [call EXCEPT ![d].pause = x] => call' = [call EXCEPT ![d] = call'[d]]
    BY DEF RetriedRefusals
  <2>3. CASE Retried!Look(d)
    BY <1>2, <1>3, <2>2, <2>3 DEF Retried!Look
  <2>4. CASE Retried!Patch(d)
    BY <1>2, <1>3, <2>1, <2>4 DEF Retried!Patch
  <2>5. CASE Retried!Reread(d)
    BY <1>2, <1>3, <2>1, <2>5 DEF Retried!Reread
  <2> QED
    BY <1>4, <2>3, <2>4, <2>5
<1>5. ASSUME NEW d \in {a, b}, Retried!Ask(d) \/ Retried!Retry(d) PROVE RetriedRefusals'
  BY <1>5 DEF Retried!Ask, Retried!Retry, Retried!local, Retried!Goto, RetriedRefusals
<1>6. ASSUME NEW d \in {a, b}, Retried!Finish(d) PROVE RetriedRefusals'
  BY <1>6 DEF Retried!Finish, Retried!Waiting, RetriedRefusals
<1>7. ASSUME NEW d \in {a, b}, Retried!Hear(d) PROVE RetriedRefusals'
  BY <1>7 DEF Retried!Hear, Retried!OthersLimit, Retried!Goto, Retried!After, RetriedRefusals
<1>8. ASSUME NEW S, Retried!Forgets(S), pc' = [d \in {a, b} |-> IF d \in S THEN "gone" ELSE pc[d]]
      PROVE  RetriedRefusals'
  BY <1>8 DEF Retried!Forgets, RetriedRefusals
<1>9. ASSUME NEW d \in {a, b}, Retried!Leave(d) PROVE RetriedRefusals'
  <2>1. Retried!Forgets({d}) /\ pc' = [pc EXCEPT ![d] = "gone"]
    BY <1>9 DEF Retried!Leave, Retried!Goto
  <2>2. pc' = [e \in {a, b} |-> IF e \in {d} THEN "gone" ELSE pc[e]]
    BY <2>1 DEF RetriedRefusals
  <2> QED
    BY <1>8, <2>1, <2>2
<1>10. ASSUME NEW r, Retried!Restart(r) PROVE RetriedRefusals'
  BY <1>8, <1>10 DEF Retried!Restart
<1>11. ASSUME NEW r, Retried!See(r) PROVE RetriedRefusals'
  BY <1>1, <1>11 DEF Retried!See, Retried!local
<1>12. CASE Retried!Wakes \/ Retried!Runs \/ Retried!Pauses \/ Retried!Paused \/ Retried!WritesStatus
              \/ Retried!Stamp
  BY <1>1, <1>12 DEF Retried!Wakes, Retried!Runs, Retried!Pauses, Retried!Paused, Retried!WritesStatus,
       Retried!Stamp, Retried!Others
<1>13. CASE Retried!Tick \/ UNCHANGED requestVars
  BY <1>1, <1>13 DEF Retried!Tick, Retried!local, requestVars
<1> QED
  BY <1>4, <1>5, <1>6, <1>7, <1>9, <1>10, <1>11, <1>12, <1>13 DEF Retried!Next, Retried!Wake

\* A request is refused for its own source's limit, never for that of another whose stamp
\* it waited on, in either part (RefusedForItself; wake.go:90).
THEOREM RefusedBeside == FairSpec => []RefusedForItself
<1> DEFINE Inv == (part = "shared" => SharedRefusals) /\ (part = "retried" => RetriedRefusals)
<1>1. Init => Inv
  <2>1. Init => (part = "shared" => Shared!Init) /\ (part = "retried" => Retried!Init)
    BY DEF Init
  <2> QED
    BY <2>1, SharedRefusalsInitially, RetriedRefusalsInitially
<1>2. Inv /\ [Next]_vars => Inv'
  BY PartsMove, SharedRefusalsKept, RetriedRefusalsKept
<1>3. Inv => RefusedForItself
  BY DEF SharedRefusals, RetriedRefusals, RefusedForItself, Shared!RefusedForItself, Retried!RefusedForItself
<1> QED
  BY <1>1, <1>2, <1>3, PTL DEF FairSpec
=================================================================================
