--------------------------- MODULE DependenciesProofs ---------------------------
(***************************************************************************)
(* Theorems about Dependencies, for any workloads, whatever they declare   *)
(* and learn, and however the graph lags: what an awake workload declares  *)
(* is awake, or stamped and so on its way.                                 *)
(*                                                                         *)
(* The argument is about one declared edge.  A wake stamps its end before  *)
(* the phase is written.  From then on, only a pause clears the stamp, and *)
(* a pause needs a clock that has run out since: longer ago than the graph *)
(* takes to tell of the dependent, which then holds it.                    *)
(***************************************************************************)
EXTENDS Dependencies, TLAPS

\* w is awake, or waking, and d is one it declares.
Needs(w, d) == d \in DeclaredEdges(w) /\ phase[w] \in {"Running", "Resuming"}

\* It's on its way if it went, or goes, to zero,
OnItsWay == \A w, d \in Workloads : Needs(w, d) /\ phase[d] \in {"Pausing", "Paused"} => stamped[d]

\* and wouldn't go before the graph has told of w.
HeldInTime ==
  \A w, d \in Workloads :
    Needs(w, d) /\ phase[d] = "Running" /\ quiet[d] => node[w].phase # "Paused"

EdgeInv == TypeOK /\ OnItsWay /\ HeldInTime

-----------------------------------------------------------------------------
LEMMA EdgesTyped ==
  ASSUME Assumptions, NEW w \in Workloads
  PROVE  /\ DeclaredEdges(w) \subseteq AllEdges(w)
         /\ DeclaredEdges(w) \subseteq Declared[w]
         /\ DeclaredEdges(w) \subseteq Workloads
BY DEF Assumptions, DeclaredEdges, AllEdges

LEMMA TypeInitially == ASSUME Assumptions, Init PROVE TypeOK
<1>1. phase \in [Workloads -> Phases]
  BY DEF Init, Phases
<1>2. learned \in [Workloads -> SUBSET Workloads]
  BY DEF Init, Assumptions
<1>3. node \in [Workloads -> Node]
  BY <1>1, <1>2 DEF Init, Node
<1>4. {stamped, quiet, overdue} \subseteq [Workloads -> BOOLEAN]
  BY DEF Init
<1>5. pods \in [Workloads -> {"zero", "none", "some", "all"}]
  BY DEF Init
<1>6. chances \in 0..Chances
  BY DEF Init, Assumptions
<1> QED
  BY <1>1, <1>2, <1>3, <1>4, <1>5, <1>6 DEF TypeOK

\* What a stamp, or some, leaves: stamps only come, and clocks only restart.
LEMMA StampsOnlyCome ==
  ASSUME TypeOK, NEW ds, Stamped(ds)
  PROVE  /\ {stamped', quiet'} \subseteq [Workloads -> BOOLEAN]
         /\ \A v \in Workloads : (stamped[v] => stamped'[v]) /\ (quiet'[v] => quiet[v])
BY DEF TypeOK, Stamped

LEMMA StampReaches ==
  ASSUME TypeOK, NEW ds, Stamped(ds), NEW d \in ds, d \in Workloads
  PROVE  ~quiet'[d] /\ (phase[d] \in {"Pausing", "Paused"} => stamped'[d])
BY DEF TypeOK, Stamped

LEMMA FaultTyped ==
  ASSUME Assumptions, TypeOK, NEW kind, Fault(kind)
  PROVE  chances' \in 0..Chances
BY DEF Assumptions, TypeOK, Fault

LEMMA AllStamped ==
  ASSUME Assumptions, TypeOK, NEW ds, StampDependencies(ds)
  PROVE  /\ chances' \in 0..Chances
         /\ {stamped', quiet'} \subseteq [Workloads -> BOOLEAN]
         /\ \A v \in Workloads : (stamped[v] => stamped'[v]) /\ (quiet'[v] => quiet[v])
         /\ "failStamp" \notin Others => Stamped(ds)
<1>1. CASE Stamped(ds) /\ UNCHANGED chances
  BY <1>1, StampsOnlyCome DEF TypeOK
<1>2. CASE Fault("failStamp") /\ \E d \in ds : Stamped(ds \ {d})
  <2>1. PICK d \in ds : Stamped(ds \ {d})
    BY <1>2
  <2> QED
    BY <1>2, <2>1, FaultTyped, StampsOnlyCome DEF Fault
<1> QED
  BY <1>1, <1>2 DEF StampDependencies

LEMMA TypeKept == ASSUME Assumptions, TypeOK, [Next]_vars PROVE TypeOK'
<1>1. CASE UNCHANGED vars
  BY <1>1 DEF TypeOK, vars
<1>2. ASSUME NEW w \in Workloads, Pauses(w) PROVE TypeOK'
  BY <1>2 DEF TypeOK, Pauses, Phases, Node
<1>3. ASSUME NEW w \in Workloads, Settles(w) PROVE TypeOK'
  BY <1>3 DEF TypeOK, Settles, Phases, Node
<1>4. ASSUME NEW w \in Workloads, Wakes(w) PROVE TypeOK'
  <2>1. learned' \in [Workloads -> SUBSET Workloads]
    BY <1>4 DEF Wakes, LearnsFromWake, TypeOK
  <2>2. {stamped', quiet'} \subseteq [Workloads -> BOOLEAN] /\ chances' \in 0..Chances
    BY <1>4, AllStamped DEF Wakes
  <2> QED
    BY <1>4, <2>1, <2>2 DEF TypeOK, Wakes, Phases, Node
<1>5. ASSUME NEW w \in Workloads, WakeFails(w) PROVE TypeOK'
  BY <1>5, StampsOnlyCome, FaultTyped DEF TypeOK, WakeFails, Node
<1>6. ASSUME NEW w \in Workloads, Waits(w) PROVE TypeOK'
  BY <1>6, StampsOnlyCome DEF TypeOK, Waits, Node
<1>7. ASSUME NEW w \in Workloads, Resumes(w) PROVE TypeOK'
  <2>1. phase' \in [Workloads -> Phases] /\ quiet' \in [Workloads -> BOOLEAN]
    BY <1>7 DEF TypeOK, Resumes, Phases
  <2>2. pods' \in [Workloads -> {"zero", "none", "some", "all"}]
    BY <1>7 DEF TypeOK, Resumes
  <2> QED
    BY <1>7, <2>1, <2>2 DEF TypeOK, Resumes
<1>8. ASSUME NEW w \in Workloads, Hears(w) PROVE TypeOK'
  BY <1>8 DEF TypeOK, Hears, Node
<1>9. ASSUME NEW w \in Workloads, PodsReady(w) PROVE TypeOK'
  BY <1>9 DEF TypeOK, PodsReady, Node
<1>10. ASSUME NEW w \in Workloads, RunsOut(w) PROVE TypeOK'
  BY <1>10 DEF TypeOK, RunsOut, Node
<1>11. ASSUME NEW w \in Workloads, Overdue(w) PROVE TypeOK'
  BY <1>11 DEF TypeOK, Overdue, Node
<1>12. ASSUME NEW w \in Workloads, Used(w) PROVE TypeOK'
  BY <1>12, StampsOnlyCome, FaultTyped DEF TypeOK, Used, Node
<1>13. ASSUME NEW w \in Workloads, ScaledToZero(w) PROVE TypeOK'
  BY <1>13, FaultTyped DEF TypeOK, ScaledToZero, Node
<1> QED
  BY <1>1, <1>2, <1>3, <1>4, <1>5, <1>6, <1>7, <1>8, <1>9, <1>10, <1>11, <1>12, <1>13 DEF Next

-----------------------------------------------------------------------------
\* A declared dependent holds what it declares, whatever that has learned.
LEMMA DeclaredHolds ==
  ASSUME Assumptions, NEW w \in Workloads, NEW d \in DeclaredEdges(w), node[w].phase # "Paused"
  PROVE  Held(d)
BY EdgesTyped DEF Held, IsAwake, Holds, DeclaredEdges

LEMMA EdgesInitially == ASSUME Assumptions, Init PROVE EdgeInv
<1>1. ASSUME NEW w \in Workloads, NEW d \in Workloads, Needs(w, d) PROVE phase[d] = "Running" /\ ~quiet[d]
  BY <1>1, EdgesTyped DEF Needs, Init
<1> QED
  BY <1>1, TypeInitially DEF EdgeInv, OnItsWay, HeldInTime

\* A step that wakes no one, and pauses no one, with stamps that only come, clocks that only
\* restart, and the graph as it was.
LEMMA QuietStep ==
  ASSUME EdgeInv, TypeOK', UNCHANGED <<phase, node>>,
         \A v \in Workloads : (stamped[v] => stamped'[v]) /\ (quiet'[v] => quiet[v])
  PROVE  EdgeInv'
BY DEF EdgeInv, OnItsWay, HeldInTime, Needs, DeclaredEdges, Allows

LEMMA EdgesKept ==
  ASSUME Assumptions, "failStamp" \notin Others, EdgeInv, [Next]_vars
  PROVE  EdgeInv'
<1> TypeOK /\ TypeOK'
  BY TypeKept DEF EdgeInv
<1>1. CASE UNCHANGED vars
  BY <1>1, QuietStep DEF vars
<1>2. ASSUME NEW w \in Workloads, Pauses(w) PROVE EdgeInv'
  <2>1. \A v \in Workloads : ~Needs(v, w)
    <3> SUFFICES ASSUME NEW v \in Workloads, Needs(v, w) PROVE FALSE
      OBVIOUS
    <3>1. node[v].phase # "Paused"
      BY <1>2 DEF EdgeInv, HeldInTime, Pauses
    <3> QED
      BY <1>2, <3>1, DeclaredHolds DEF Needs, Pauses
  <2>2. \A v, d \in Workloads : Needs(v, d)' => Needs(v, d) /\ d # w
    BY <1>2, <2>1 DEF Needs, Pauses, DeclaredEdges, Allows, TypeOK
  <2> QED
    BY <1>2, <2>2 DEF EdgeInv, OnItsWay, HeldInTime, Pauses, TypeOK
<1>3. ASSUME NEW w \in Workloads, Settles(w) PROVE EdgeInv'
  <2>1. \A v, d \in Workloads : Needs(v, d)' => Needs(v, d)
    BY <1>3 DEF Needs, Settles, DeclaredEdges, Allows, TypeOK
  <2> QED
    BY <1>3, <2>1 DEF EdgeInv, OnItsWay, HeldInTime, Settles, TypeOK
<1>4. ASSUME NEW w \in Workloads, Wakes(w) PROVE EdgeInv'
  <2>1. /\ Stamped(AllEdges(w))
        /\ \A v \in Workloads : (stamped[v] => stamped'[v]) /\ (quiet'[v] => quiet[v])
    BY <1>4, AllStamped DEF Wakes
  <2>2. \A v, d \in Workloads : Needs(v, d)' => v = w \/ Needs(v, d)
    BY <1>4 DEF Needs, Wakes, DeclaredEdges, Allows, TypeOK
  <2>3. \A d \in Workloads :
          Needs(w, d)' => d # w /\ ~quiet'[d] /\ (phase[d] \in {"Pausing", "Paused"} => stamped'[d])
    BY <1>4, <2>1, StampReaches, EdgesTyped DEF Needs, DeclaredEdges, Allows
  <2> QED
    BY <1>4, <2>1, <2>2, <2>3 DEF EdgeInv, OnItsWay, HeldInTime, Wakes, TypeOK
<1>5. ASSUME NEW w \in Workloads, WakeFails(w) PROVE EdgeInv'
  BY <1>5, StampsOnlyCome, QuietStep DEF WakeFails
<1>6. ASSUME NEW w \in Workloads, Waits(w) PROVE EdgeInv'
  BY <1>6, StampsOnlyCome, QuietStep DEF Waits
<1>7. ASSUME NEW w \in Workloads, Resumes(w) PROVE EdgeInv'
  <2>1. \A v, d \in Workloads : Needs(v, d)' => Needs(v, d)
    BY <1>7 DEF Needs, Resumes, DeclaredEdges, Allows, TypeOK
  <2>2. \A v \in Workloads : quiet'[v] => quiet[v] /\ (phase'[v] = "Running" => phase[v] = "Running")
    BY <1>7 DEF Resumes, TypeOK
  <2>3. \A v \in Workloads : phase'[v] \in {"Pausing", "Paused"} => phase[v] \in {"Pausing", "Paused"}
    BY <1>7 DEF Resumes, TypeOK
  <2> QED
    BY <1>7, <2>1, <2>2, <2>3 DEF EdgeInv, OnItsWay, HeldInTime, Resumes
<1>8. ASSUME NEW w \in Workloads, Hears(w) PROVE EdgeInv'
  <2>1. \A v \in Workloads : node'[v].phase = node[v].phase \/ (v = w /\ node'[v].phase = phase[w])
    BY <1>8 DEF Hears, TypeOK
  <2> QED
    BY <1>8, <2>1 DEF EdgeInv, OnItsWay, HeldInTime, Needs, DeclaredEdges, Allows, Hears
<1>9. ASSUME NEW w \in Workloads, PodsReady(w) PROVE EdgeInv'
  BY <1>9, QuietStep DEF PodsReady
<1>10. ASSUME NEW w \in Workloads, RunsOut(w) PROVE EdgeInv'
  <2>1. \A v \in Workloads : node[v].phase = phase[v]
    <3> SUFFICES ASSUME NEW v \in Workloads PROVE node[v].phase = phase[v]
      OBVIOUS
    <3>1. node[v] = [phase |-> phase[v], learned |-> learned[v]]
      BY <1>10, Zenon DEF RunsOut, Heard
    <3>2. [phase |-> phase[v], learned |-> learned[v]].phase = phase[v]
      OBVIOUS
    <3> QED
      BY <3>1, <3>2
  <2> QED
    BY <1>10, <2>1 DEF EdgeInv, OnItsWay, HeldInTime, Needs, DeclaredEdges, Allows, RunsOut
<1>11. ASSUME NEW w \in Workloads, Overdue(w) PROVE EdgeInv'
  BY <1>11, QuietStep DEF Overdue
<1>12. ASSUME NEW w \in Workloads, Used(w) PROVE EdgeInv'
  BY <1>12, StampsOnlyCome, QuietStep DEF Used
<1>13. ASSUME NEW w \in Workloads, ScaledToZero(w) PROVE EdgeInv'
  BY <1>13, QuietStep DEF ScaledToZero
<1> QED
  BY <1>1, <1>2, <1>3, <1>4, <1>5, <1>6, <1>7, <1>8, <1>9, <1>10, <1>11, <1>12, <1>13 DEF Next

\* Whatever is declared by a workload that's awake or waking, and is paused, is about to wake.
LEMMA NeededIsWokenNow == ASSUME EdgeInv PROVE NeededIsWoken
BY EdgesTyped DEF EdgeInv, OnItsWay, Needs, NeededIsWoken, Without, WakeDue

\* The variables keep their types, for any workloads and dependencies (dependencies.go:112-210).
THEOREM DependenciesTyped == ASSUME Assumptions PROVE Init /\ [][Next]_vars => []TypeOK
<1>1. Init => TypeOK
  BY TypeInitially
<1>2. TypeOK /\ [Next]_vars => TypeOK'
  BY TypeKept
<1> QED
  BY <1>1, <1>2, PTL

\* No workload is left paused under one that's awake, or waking, and declares it, where every
\* stamp a wake passes on is written (dependencies.go:370-382).
THEOREM NeededWoken ==
  ASSUME Assumptions, "failStamp" \notin Others
  PROVE  Init /\ [][Next]_vars => []NeededIsWoken
<1>1. Init => EdgeInv
  BY EdgesInitially
<1>2. EdgeInv /\ [Next]_vars => EdgeInv'
  BY EdgesKept
<1>3. EdgeInv => NeededIsWoken
  BY NeededIsWokenNow
<1> QED
  BY <1>1, <1>2, <1>3, PTL
===============================================================================
