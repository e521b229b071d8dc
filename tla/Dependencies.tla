------------------------------ MODULE Dependencies ------------------------------
(***************************************************************************)
(* Workloads that depend on each other: a workload holds those it depends  *)
(* on awake while it's awake, wakes them as it wakes, and starts once the  *)
(* ones it waits for serve.  Some dependencies are declared, and others    *)
(* learned from the requests that wake a workload.                         *)
(*                                                                         *)
(* Reconciles of different workloads run at once, each of a copy of its    *)
(* own object and of a graph of the others that a watch keeps, and that    *)
(* lags.  One of an old copy of its own does nothing here, since its write *)
(* conflicts.  What takes a minute, a check, a clock that runs out or a     *)
(* deadline, comes after what is due at once: a wake of a paused workload, *)
(* and, but for a check under way, what was written reaching the graph.    *)
(***************************************************************************)
EXTENDS Naturals, FiniteSets

CONSTANTS
  Workloads,
  Declared, WaitsFor,  \* of each, its dependsOn, and those of them with waitForReady
  FromEnvironment,     \* of each, those its environment names
  Forbidden,           \* <<w, d>> where d's namespace doesn't allow dependents from w's
  Crashing, Limping,   \* whose pods never become Ready, and of which only some do
  Deadlines,           \* whether time to start runs out
  Chances,             \* bounds what others do
  Others               \* the kinds of thing they do

Assumptions ==
  /\ IsFiniteSet(Workloads) /\ Forbidden \subseteq Workloads \X Workloads
  /\ {Declared, WaitsFor, FromEnvironment} \subseteq [Workloads -> SUBSET Workloads]
  /\ \A w \in Workloads : WaitsFor[w] \subseteq Declared[w]
  /\ Crashing \cup Limping \subseteq Workloads /\ Deadlines \in BOOLEAN /\ Chances \in Nat

VARIABLES
  phase,    \* of each, as its status has it
  learned,  \* the dependencies each has learned
  node,     \* what the graph has of each
  stamped,  \* whether its annotation is newer than its pause
  quiet,    \* whether its clock has run out
  pods,     \* how many of its pods are Ready, or that it's at zero
  overdue,  \* whether it has waited as long as it does for anything
  chances

vars == <<phase, learned, node, stamped, quiet, pods, overdue, chances>>

Phases == {"Running", "Pausing", "Paused", "Resuming"}
Node == [phase : Phases, learned : SUBSET Workloads]

TypeOK ==
  /\ phase \in [Workloads -> Phases] /\ learned \in [Workloads -> SUBSET Workloads]
  /\ node \in [Workloads -> Node]
  /\ {stamped, quiet, overdue} \subseteq [Workloads -> BOOLEAN]
  /\ pods \in [Workloads -> {"zero", "none", "some", "all"}]
  /\ chances \in 0..Chances

Init ==
  /\ phase \in [Workloads -> {"Running", "Paused"}]
  /\ learned = FromEnvironment
  /\ node = [w \in Workloads |-> [phase |-> phase[w], learned |-> learned[w]]]
  /\ stamped = [w \in Workloads |-> FALSE]
  /\ quiet = [w \in Workloads |-> FALSE]
  /\ pods = [w \in Workloads |->
       IF phase[w] = "Paused" THEN "zero" ELSE IF w \in Limping THEN "some" ELSE "all"]
  /\ overdue = [w \in Workloads |-> FALSE]
  /\ chances = Chances
  /\ \A w \in Crashing : phase[w] = "Paused"
  \* No one is paused while held, nor awake without what it depends on.
  /\ \A w \in Workloads : phase[w] = "Running" => \A d \in Declared[w] : phase[d] = "Running"

-----------------------------------------------------------------------------
Allows(w, d) == <<w, d>> \notin Forbidden

\* The edges of the graph: a workload isn't one of its own dependencies.
DeclaredEdges(w) == {d \in Declared[w] \ {w} : Allows(w, d)}
WaitForReadyEdges(w) == {d \in WaitsFor[w] \ {w} : Allows(w, d)}
AllEdges(w) == {d \in (Declared[w] \cup node[w].learned) \ {w} : Allows(w, d)}

\* The workloads that following edges from each of ws leads to.
Following(Edges(_), ws) ==
  LET Step[n \in 0..Cardinality(Workloads)] ==
        IF n = 0 THEN UNION {Edges(v) : v \in ws} ELSE Step[n - 1] \cup UNION {Edges(v) : v \in Step[n - 1]}
  IN  Step[Cardinality(Workloads)]
Reaches(w, to, Edges(_)) == to \in Following(Edges, {w})

\* Mutant: one that has only learned of the other holds it too.
HoldsAlways(dependent, w) == TRUE

\* Of two that would hold each other, one that has only learned of the other doesn't.
Holds(dependent, w) == w \in Declared[dependent] \/ ~Reaches(w, dependent, AllEdges)

IsAwake(d) == node[d].phase # "Paused"
InCycle(w) == Reaches(w, w, DeclaredEdges)
Held(w) == InCycle(w) \/ \E d \in Workloads : w \in AllEdges(d) /\ IsAwake(d) /\ Holds(d, w)

\* The dependency's phase, with some of its pods Ready, says whether they're all it will have.
ServesDependents(d) == pods[d] = "all" \/ (pods[d] = "some" /\ node[d].phase = "Running")

\* Why not to wait for one that doesn't serve: it's off, it waits for this one, or time is up.
WontStart(d) == node[d].phase = "Running" /\ pods[d] = "zero"
WaitsOn(d, w) == Reaches(d, w, WaitForReadyEdges)

\* Mutant: one that waits for this one is waited for.
WaitingForAll(w) ==
  {d \in WaitForReadyEdges(w) : ~ServesDependents(d) /\ ~WontStart(d) /\ ~overdue[w]}

Waiting(w) ==
  {d \in WaitForReadyEdges(w) :
     ~ServesDependents(d) /\ ~WontStart(d) /\ ~WaitsOn(d, w) /\ ~overdue[w]}

-----------------------------------------------------------------------------
\* Mutant: a pause under way takes no notice of a stamp.
StampedPaused(ds) ==
  /\ stamped' = [w \in Workloads |-> stamped[w] \/ (w \in ds /\ phase[w] = "Paused")]
  /\ quiet' = [w \in Workloads |-> quiet[w] /\ w \notin ds]

\* A stamp on each of ds, which wakes a paused workload and restarts the clock of another.
Stamped(ds) ==
  /\ stamped' = [w \in Workloads |-> stamped[w] \/ (w \in ds /\ phase[w] \in {"Pausing", "Paused"})]
  /\ quiet' = [w \in Workloads |-> quiet[w] /\ w \notin ds]

\* The stamps may fail, each of them, and the others are still tried.
Fault(kind) == kind \in Others /\ chances > 0 /\ chances' = chances - 1
StampDependencies(ds) ==
  \/ Stamped(ds) /\ UNCHANGED chances
  \/ Fault("failStamp") /\ \E d \in ds : Stamped(ds \ {d})

\* A request wakes w, from a pod of some workload: one not paused, which then depends on it.
LearnsFromWake(w) ==
  \/ UNCHANGED learned
  \/ \E from \in Workloads \ {w} :
       /\ "learn" \in Others /\ pods[from] \in {"some", "all"} /\ Allows(from, w)
       /\ learned' = [learned EXCEPT ![from] = @ \cup {w}]

-----------------------------------------------------------------------------
\* A stamped workload is woken at once.
WakeDue == \E w \in Workloads : phase[w] = "Paused" /\ stamped[w]

\* An idle workload pauses unless it's held; its pods go, and it's Paused.  What its
\* annotations said as it began is recorded.
Pauses(w) ==
  /\ ~WakeDue
  /\ phase[w] = "Running" /\ quiet[w] /\ pods[w] # "zero" /\ ~Held(w)
  /\ phase' = [phase EXCEPT ![w] = "Pausing"]
  /\ stamped' = [stamped EXCEPT ![w] = FALSE]
  /\ UNCHANGED <<learned, node, quiet, pods, overdue, chances>>
Settles(w) ==
  /\ phase[w] = "Pausing"
  /\ phase' = [phase EXCEPT ![w] = "Paused"]
  /\ pods' = [pods EXCEPT ![w] = "zero"]
  /\ UNCHANGED <<learned, node, stamped, quiet, overdue, chances>>

\* A stamped workload learns who woke it, wakes what it depends on, and is Resuming.
Wakes(w) ==
  /\ phase[w] = "Paused" /\ stamped[w]
  /\ LearnsFromWake(w)
  /\ StampDependencies(AllEdges(w))
  /\ phase' = [phase EXCEPT ![w] = "Resuming"]
  /\ overdue' = [overdue EXCEPT ![w] = FALSE]
  /\ UNCHANGED <<node, pods>>

\* Its write fails, with what it depends on awake already.
WakeFails(w) ==
  /\ Fault("failWake") /\ phase[w] = "Paused" /\ stamped[w]
  /\ Stamped(AllEdges(w))
  /\ UNCHANGED <<phase, learned, node, pods, overdue>>

\* A resuming workload that waits stamps the ones still paused again.
Waits(w) ==
  /\ phase[w] = "Resuming" /\ Waiting(w) # {}
  /\ Stamped({d \in Waiting(w) : ~IsAwake(d)})
  /\ UNCHANGED <<phase, learned, node, pods, overdue, chances>>

\* Otherwise it's scaled up, and Running once its pods are Ready, or as many as will be.
Resumes(w) ==
  /\ phase[w] = "Resuming" /\ Waiting(w) = {}
  /\ \/ pods[w] = "zero" /\ pods' = [pods EXCEPT ![w] = "none"] /\ UNCHANGED <<phase, quiet>>
     \/ /\ pods[w] \in {"some", "all"}
        /\ phase' = [phase EXCEPT ![w] = "Running"] /\ quiet' = [quiet EXCEPT ![w] = FALSE]
        /\ UNCHANGED pods
  /\ UNCHANGED <<learned, node, stamped, overdue, chances>>

Reconciles(w) == Pauses(w) \/ Settles(w) \/ Wakes(w) \/ Waits(w) \/ Resumes(w)

-----------------------------------------------------------------------------
\* The watch brings the graph what was written of w.
Hears(w) ==
  /\ node[w] # [phase |-> phase[w], learned |-> learned[w]]
  /\ node' = [node EXCEPT ![w] = [phase |-> phase[w], learned |-> learned[w]]]
  /\ UNCHANGED <<phase, learned, stamped, quiet, pods, overdue, chances>>
Heard == \A w \in Workloads : node[w] = [phase |-> phase[w], learned |-> learned[w]]

PodsReady(w) ==
  /\ pods[w] = "none" /\ w \notin Crashing
  /\ pods' = [pods EXCEPT ![w] = IF w \in Limping THEN "some" ELSE "all"]
  /\ UNCHANGED <<phase, learned, node, stamped, quiet, overdue, chances>>

\* Time passes: a clock runs out, or a deadline.
RunsOut(w) ==
  /\ Heard /\ ~WakeDue /\ phase[w] = "Running" /\ ~quiet[w]
  /\ quiet' = [quiet EXCEPT ![w] = TRUE]
  /\ UNCHANGED <<phase, learned, node, stamped, pods, overdue, chances>>
Overdue(w) ==
  /\ Deadlines /\ Heard /\ ~WakeDue /\ phase[w] = "Resuming" /\ ~overdue[w]
  /\ overdue' = [overdue EXCEPT ![w] = TRUE]
  /\ UNCHANGED <<phase, learned, node, stamped, quiet, pods, chances>>

\* Someone uses a workload, or scales it to zero.
Used(w) ==
  /\ Fault("use") /\ Stamped({w})
  /\ UNCHANGED <<phase, learned, node, pods, overdue>>
ScaledToZero(w) ==
  /\ Fault("zero") /\ phase[w] = "Running" /\ pods[w] # "zero"
  /\ pods' = [pods EXCEPT ![w] = "zero"]
  /\ UNCHANGED <<phase, learned, node, stamped, quiet, overdue>>

Next ==
  \E w \in Workloads :
    \/ Pauses(w) \/ Settles(w) \/ Wakes(w) \/ WakeFails(w) \/ Waits(w) \/ Resumes(w)
    \/ Hears(w) \/ PodsReady(w) \/ RunsOut(w) \/ Overdue(w) \/ Used(w) \/ ScaledToZero(w)

\* Reconciles are requeued, the watch and the pods get there, and time passes.
Passes(w) == RunsOut(w) \/ Overdue(w)
Fairness ==
  \A w \in Workloads : WF_vars(Reconciles(w)) /\ WF_vars(Hears(w)) /\ WF_vars(PodsReady(w)) /\ WF_vars(Passes(w))
FairSpec == Init /\ [][Next]_vars /\ Fairness

-----------------------------------------------------------------------------
\* Whoever wakes gets to run, whatever it depends on: workloads that wait for each
\* other's readiness, in a cycle of any length, don't wait for ever, nor until
\* the deadline (dependencies.go:444-453, 487-491).
Starting(w) == w \notin Crashing /\ phase[w] = "Resuming"
NoneWaitsForever == \A w \in Workloads : Starting(w) ~> ~Starting(w)

\* Once nothing is used, everything pauses but what a declared cycle holds awake:
\* workloads that learned of each other don't hold each other awake for
\* ever (dependencies.go:190-203).
HeldByCycle(w) == w \in UNION {{v} \cup Following(AllEdges, {v}) : v \in {u \in Workloads : InCycle(u)}}
MayPause(w) == ~HeldByCycle(w) /\ phase[w] # "Paused" /\ w \notin Crashing /\ pods[w] # "zero"
NoneHeldForever == \A w \in Workloads : []<>~MayPause(w)

\* No workload is left paused under one that's awake, or waking, and declares it: one that
\* pauses as its dependent wakes is woken by what that stamped, unless the stamp
\* failed, as soon as the watch has told of both (dependencies.go:370-382).
Without(w, d) == d \in DeclaredEdges(w) /\ phase[w] \in {"Running", "Resuming"} /\ phase[d] = "Paused"
NeededIsWoken == Heard /\ ~WakeDue => ~\E w, d \in Workloads : Without(w, d)
==================================================================================
