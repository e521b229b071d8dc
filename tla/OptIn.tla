--------------------------------- MODULE OptIn ---------------------------------
(***************************************************************************)
(* The opt-in controllers (internal/controller/optin_controller.go), which *)
(* give each workload of one namespace that is labelled, or whose          *)
(* namespace is, a ManagedWorkload whose spec follows the annotations, and *)
(* take it back when the label goes or someone writes one.                 *)
(*                                                                         *)
(* A workload's labels are one value: "true" opts it in, "refused" is any  *)
(* that keeps it out (the ignore label, another value of the managed one,  *)
(* or Napwake's own), and "" leaves it to its namespace, which may be      *)
(* protected.  Of the settings, dryRun and dependsOn stand for all: of     *)
(* those annotations alone a value that can't be read does more than pass  *)
(* to the next level.  waitForReady stands for what users set themselves.  *)
(*                                                                         *)
(* A reconcile reads the caches, which lag behind the API server, and then *)
(* makes one write.  Workloads themselves are neither made nor deleted.    *)
(***************************************************************************)
EXTENDS FiniteSets, Integers

CONSTANTS
  Targets,        \* the workloads
  Plain,          \* the name each has, which one of another kind may share
  Qualified,      \* its name with its kind's
  NoMW, NoList, Unread,
  Lists,          \* the values of the dependsOn annotations, absent, unreadable, or a set
  FirstLists,     \* those each workload may start with
  Chances,        \* how many times others act
  Others          \* what they may do

Names == {Plain[t] : t \in Targets} \cup {Qualified[t] : t \in Targets}

Assumptions ==
  /\ IsFiniteSet(Targets) /\ Chances \in Nat
  /\ FirstLists \in [Targets -> SUBSET Lists] /\ Lists \subseteq {NoList, Unread} \cup SUBSET Targets
  /\ \A t, u \in Targets : Qualified[t] # Plain[u] /\ (Qualified[t] = Qualified[u] => t = u)
  /\ Others \subseteq {"label", "annotate", "namespace", "write", "delete", "edit", "adopt", "install", "crash"}

VARIABLES
  meta,           \* the workloads' labels and annotations
  ns,             \* the namespace's
  stored,         \* the ManagedWorkloads
  seenMeta, seenNs, cached,  \* the caches of the three
  owed,           \* the workloads with events of their ManagedWorkloads to come
  queue,          \* the workloads to reconcile
  doing,          \* the write a reconcile is about to make
  chances

vars == <<meta, ns, stored, seenMeta, seenNs, cached, owed, queue, doing, chances>>

Values == {"", "true", "false", "typo"}
Specs == [dryRun : BOOLEAN, dependsOn : SUBSET Targets, waitForReady : SUBSET Targets]
ManagedWorkload == [target : Targets, fromLabel : BOOLEAN, leaving : BOOLEAN, spec : Specs,
                    operator : {"", "ours", "another"}, duplicate : BOOLEAN, created : Nat]
Nothing == [verb |-> "none"]

TypeOK ==
  /\ \A m \in {meta, seenMeta} :
       m \in [Targets -> [label : {"", "true", "refused"}, dryRun : Values, dependsOn : Lists]]
  /\ \A n \in {ns, seenNs} : n \in [label : {"", "true", "protected"}, dryRun : Values, dependsOn : Lists]
  /\ \A s \in {stored, cached} : s \in [Names -> ManagedWorkload \cup {NoMW}]
  /\ owed \subseteq Targets /\ queue \subseteq Targets
  /\ \A t \in Targets : doing[t].verb \in {"none", "create", "update", "delete"}
  /\ chances \in 0..Chances

\* Every object is listed when the operator starts.
Init ==
  /\ \E own \in [Targets -> Lists], list \in Lists :
       /\ \A t \in Targets : own[t] \in FirstLists[t]
       /\ meta = [t \in Targets |-> [label |-> "", dryRun |-> "", dependsOn |-> own[t]]]
       /\ ns = [label |-> "true", dryRun |-> "", dependsOn |-> list]
  /\ stored = [n \in Names |-> NoMW]
  /\ seenMeta = meta /\ seenNs = ns /\ cached = stored
  /\ owed = {} /\ queue = Targets
  /\ doing = [t \in Targets |-> Nothing]
  /\ chances = Chances

-----------------------------------------------------------------------------
(* What the labels and annotations ask for. *)

OptedIn(m, n) == m.label # "refused" /\ n.label # "protected" /\ "true" \in {m.label, n.label}

\* The workload's value, or else its namespace's; one that can't be read is "true".
DryRun(m, n) == (IF m.dryRun # "" THEN m.dryRun ELSE n.dryRun) \in {"true", "typo"}

Read(list) == IF list \in {NoList, Unread} THEN {} ELSE list

\* Whether the namespace's list, or what a workload it leads to depends on, names t.
LeadsTo(ms, n, t) ==
  LET Named[i \in Nat] ==
        IF i = 0 THEN Read(n.dependsOn)
        ELSE Named[i - 1] \cup UNION {Read(ms[u].dependsOn) : u \in Named[i - 1] \ {t}}
  IN t \in Named[Cardinality(Targets)]
\* Of a list that names t itself only.
NamedOutright(ms, n, t) == n.dependsOn = NoList \/ t \notin Read(n.dependsOn)
InheritsDependsOn(ms, n, t) == n.dependsOn = NoList \/ ~LeadsTo(ms, n, t)

DependsOn(ms, n, t) ==
  (IF ms[t].dependsOn \notin {NoList, Unread} THEN ms[t].dependsOn
   ELSE IF InheritsDependsOn(ms, n, t) THEN Read(n.dependsOn) ELSE {}) \ {t}

OptInSpec(ms, n, t) ==
  [dryRun |-> DryRun(ms[t], n), dependsOn |-> DependsOn(ms, n, t), waitForReady |-> {}]

KeepUserSettings(spec, current) == [spec EXCEPT !.waitForReady = current.waitForReady \cap spec.dependsOn]

-----------------------------------------------------------------------------
(* A reconcile. *)

ManagedWorkloadsFor(mws, t) == {n \in Names : mws[n] # NoMW /\ mws[n].target = t}
Ours(mws, t) == {n \in ManagedWorkloadsFor(mws, t) : ~mws[n].leaving /\ mws[n].fromLabel}
Written(mws, t) == {n \in ManagedWorkloadsFor(mws, t) : ~mws[n].leaving /\ ~mws[n].fromLabel}
Leaving(mws, t) == {n \in ManagedWorkloadsFor(mws, t) : mws[n].leaving /\ mws[n].fromLabel}

Release(n) == [verb |-> "delete", name |-> n]
Update(t, n) ==
  LET spec == KeepUserSettings(OptInSpec(seenMeta, seenNs, t), cached[n].spec)
  IN IF spec = cached[n].spec THEN Nothing
     ELSE [verb |-> "update", name |-> n, read |-> cached[n], spec |-> spec]
FreeNames(mws, t) == {n \in {Plain[t], Qualified[t]} : mws[n] = NoMW}
Create(t) ==
  IF FreeNames(cached, t) = {} THEN Nothing
  ELSE [verb |-> "create", name |-> IF Plain[t] \in FreeNames(cached, t) THEN Plain[t] ELSE Qualified[t],
        spec |-> OptInSpec(seenMeta, seenNs, t)]

\* What a reconcile sets out to write.  The list comes in no order, so that of several
\* that are ours, it takes any.
Plan(t, ours) ==
  IF ours # NoMW /\ cached[ours].operator = "another" THEN Nothing
  ELSE IF Written(cached, t) # {} \/ ~OptedIn(seenMeta[t], seenNs)
       THEN IF ours = NoMW THEN Nothing ELSE Release(ours)
  ELSE IF ours # NoMW THEN Update(t, ours)
  ELSE IF Leaving(cached, t) # {} THEN Nothing
  ELSE Create(t)

Reads(t) ==
  /\ t \in queue /\ doing[t] = Nothing
  /\ queue' = queue \ {t}
  /\ \E ours \in IF Ours(cached, t) = {} THEN {NoMW} ELSE Ours(cached, t) :
       doing' = [doing EXCEPT ![t] = Plan(t, ours)]
  /\ UNCHANGED <<meta, ns, stored, seenMeta, seenNs, cached, owed, chances>>

\* Deleting goes by name.  One with a finalizer stays until it's handed back.
Deleted(mws, n) ==
  IF mws[n] = NoMW THEN mws
  ELSE [mws EXCEPT ![n] = IF @.operator = "" THEN NoMW ELSE [@ EXCEPT !.leaving = TRUE]]
Youngest(mws) == LET ages == {mws[n].created : n \in {m \in Names : mws[m] # NoMW}}
                 IN CHOOSE a \in ages \cup {0} : \A b \in ages : b <= a
Made(mws, n, t, fromLabel, spec) ==
  [mws EXCEPT ![n] = [target |-> t, fromLabel |-> fromLabel, leaving |-> FALSE, spec |-> spec,
                      operator |-> "", duplicate |-> FALSE, created |-> Youngest(mws) + 1]]

\* The watch passes on a change of a ManagedWorkload's spec, labels or deletion, which a
\* status write isn't, to the target it has, and the one it had.
SpecOrLabelsChanged(a, b) ==
  \/ NoMW \in {a, b}
  \/ <<a.spec, a.fromLabel, a.leaving, a.created>> # <<b.spec, b.fromLabel, b.leaving, b.created>>
TargetsOf(mws) == {mw.target : mw \in mws \ {NoMW}}
Stores(mws) ==
  /\ stored' = mws
  /\ owed' = owed \cup TargetsOf(UNION {{stored[n], mws[n]} :
                 n \in {m \in Names : stored[m] # mws[m] /\ SpecOrLabelsChanged(stored[m], mws[m])}})

\* A write that lost to another is retried from what the caches show then.
Stale(w) ==
  \/ w.verb = "update" /\ stored[w.name] # w.read
  \/ w.verb = "create" /\ stored[w.name] # NoMW
After(t, w) ==
  CASE w.verb = "delete" -> Deleted(stored, w.name)
    [] w.verb = "update" -> [stored EXCEPT ![w.name].spec = w.spec]
    [] w.verb = "create" -> Made(stored, w.name, t, TRUE, w.spec)
Writes(t) ==
  /\ doing[t] # Nothing
  /\ doing' = [doing EXCEPT ![t] = Nothing]
  /\ IF Stale(doing[t]) THEN queue' = queue \cup {t} /\ UNCHANGED <<stored, owed>>
     ELSE Stores(After(t, doing[t])) /\ UNCHANGED queue
  /\ UNCHANGED <<meta, ns, seenMeta, seenNs, cached, chances>>

-----------------------------------------------------------------------------
(* The ManagedWorkload's own reconcile (managedworkload_controller.go): it *)
(* takes on one that no older one shares the target of, and lets one being *)
(* deleted go once its target is handed back.                              *)

ClaimsTargetFirst(a, b) == a.created < b.created
Duplicate(mws, n) ==
  \E m \in ManagedWorkloadsFor(mws, mws[n].target) \ {n} :
    ~mws[m].leaving /\ ClaimsTargetFirst(mws[m], mws[n])
TakenOn(n) == [cached[n] EXCEPT !.operator = "ours", !.duplicate = Duplicate(cached, n)]
TakesOn(n) ==
  /\ cached[n] # NoMW /\ cached[n] = stored[n]
  /\ cached[n].operator # "another" /\ ~cached[n].leaving
  /\ TakenOn(n) # stored[n]
  /\ Stores([stored EXCEPT ![n] = TakenOn(n)])
  /\ UNCHANGED <<meta, ns, seenMeta, seenNs, cached, queue, doing, chances>>
HandsBack(n) ==
  /\ stored[n] # NoMW /\ stored[n].leaving
  /\ stored[n].operator = "ours" => cached[n] = stored[n]
  /\ Stores([stored EXCEPT ![n] = NoMW])
  /\ UNCHANGED <<meta, ns, seenMeta, seenNs, cached, queue, doing, chances>>

-----------------------------------------------------------------------------
(* The watches, which fill the caches and fill the queue. *)

HearsOfOne(t) ==
  /\ seenMeta[t] # meta[t]
  /\ seenMeta' = [seenMeta EXCEPT ![t] = meta[t]] /\ queue' = queue \cup {t}
  /\ UNCHANGED <<meta, ns, stored, seenNs, cached, owed, doing, chances>>
HearsOfWorkload(t) ==
  /\ seenMeta[t] # meta[t]
  /\ seenMeta' = [seenMeta EXCEPT ![t] = meta[t]]
  /\ LET beside == meta[t].dependsOn # seenMeta[t].dependsOn /\ seenNs.dependsOn # NoList
     IN queue' = queue \cup (IF beside THEN Targets ELSE {t})
  /\ UNCHANGED <<meta, ns, stored, seenNs, cached, owed, doing, chances>>
HearsOfNamespace ==
  /\ seenNs # ns /\ seenNs' = ns /\ queue' = Targets
  /\ UNCHANGED <<meta, ns, stored, seenMeta, cached, owed, doing, chances>>

HearsOfManagedWorkloads ==
  /\ cached # stored \/ owed # {}
  /\ cached' = stored /\ owed' = {} /\ queue' = queue \cup owed
  /\ UNCHANGED <<meta, ns, stored, seenMeta, seenNs, doing, chances>>

-----------------------------------------------------------------------------
(* Everyone else. *)

Act(kind) == kind \in Others /\ chances > 0 /\ chances' = chances - 1
CachesAndStepsStay == UNCHANGED <<seenMeta, seenNs, cached, queue, doing>>

Labels(t) ==
  /\ Act("label")
  /\ \E v \in {"", "true", "refused"} \ {meta[t].label} : meta' = [meta EXCEPT ![t].label = v]
  /\ UNCHANGED <<ns, stored, owed>> /\ CachesAndStepsStay
Annotates(t) ==
  /\ Act("annotate")
  /\ \/ \E v \in Values \ {meta[t].dryRun} : meta' = [meta EXCEPT ![t].dryRun = v]
     \/ \E v \in Lists \ {meta[t].dependsOn} : meta' = [meta EXCEPT ![t].dependsOn = v]
  /\ UNCHANGED <<ns, stored, owed>> /\ CachesAndStepsStay
ChangesNamespace ==
  /\ Act("namespace")
  /\ \/ \E v \in {"", "true", "protected"} \ {ns.label} : ns' = [ns EXCEPT !.label = v]
     \/ \E v \in Lists \ {ns.dependsOn} : ns' = [ns EXCEPT !.dependsOn = v]
  /\ UNCHANGED <<meta, stored, owed>> /\ CachesAndStepsStay
WritesOne(t) ==
  /\ Act("write")
  /\ \E n \in {Plain[t], Qualified[t]} :
       /\ stored[n] = NoMW
       /\ Stores(Made(stored, n, t, FALSE, [dryRun |-> FALSE, dependsOn |-> {}, waitForReady |-> {}]))
  /\ UNCHANGED <<meta, ns>> /\ CachesAndStepsStay
DeletesOne(n) ==
  /\ Act("delete") /\ stored[n] # NoMW /\ ~stored[n].leaving
  /\ Stores(Deleted(stored, n))
  /\ UNCHANGED <<meta, ns>> /\ CachesAndStepsStay
EditsOne(n) ==
  /\ Act("edit") /\ stored[n] # NoMW
  /\ \E w \in SUBSET stored[n].spec.dependsOn \ {stored[n].spec.waitForReady} :
       Stores([stored EXCEPT ![n].spec.waitForReady = w])
  /\ UNCHANGED <<meta, ns>> /\ CachesAndStepsStay
\* Someone takes the from-label label off, to keep it as their own.
Adopts(n) ==
  /\ Act("adopt") /\ stored[n] # NoMW /\ stored[n].fromLabel /\ ~stored[n].leaving
  /\ Stores([stored EXCEPT ![n].fromLabel = FALSE])
  /\ UNCHANGED <<meta, ns>> /\ CachesAndStepsStay
AnotherTakesOn(n) ==
  /\ Act("install") /\ stored[n] # NoMW /\ stored[n].operator = "" /\ ~stored[n].leaving
  /\ Stores([stored EXCEPT ![n].operator = "another"])
  /\ UNCHANGED <<meta, ns>> /\ CachesAndStepsStay
Restarts ==
  /\ Act("crash")
  /\ seenMeta' = meta /\ seenNs' = ns /\ cached' = stored
  /\ owed' = {} /\ queue' = Targets /\ doing' = [t \in Targets |-> Nothing]
  /\ UNCHANGED <<meta, ns, stored>>

Next ==
  \/ \E t \in Targets : Reads(t) \/ Writes(t) \/ HearsOfWorkload(t)
  \/ HearsOfNamespace \/ HearsOfManagedWorkloads
  \/ \E n \in Names : TakesOn(n) \/ HandsBack(n)
  \/ \E t \in Targets : Labels(t) \/ Annotates(t) \/ WritesOne(t)
  \/ \E n \in Names : DeletesOne(n) \/ EditsOne(n) \/ Adopts(n) \/ AnotherTakesOn(n)
  \/ ChangesNamespace \/ Restarts

Spec == Init /\ [][Next]_vars
Keeps(n) == TakesOn(n) \/ HandsBack(n)
Reconcile == (\E t \in Targets : Reads(t) \/ Writes(t)) \/ (\E n \in Names : Keeps(n))
Hear == HearsOfNamespace \/ HearsOfManagedWorkloads \/ \E t \in Targets : HearsOfWorkload(t)
Fairness == WF_vars(Reconcile) /\ WF_vars(Hear)

-----------------------------------------------------------------------------
(* What the labels and annotations ask for now, and who manages the target *)
(* accordingly: a ManagedWorkload someone wrote, or else one of the        *)
(* label's, or nobody; and of several the oldest, the rest being marked.   *)
Wanted(t) == OptedIn(meta[t], ns) /\ Written(stored, t) = {}
Follows(t) ==
  IF Wanted(t)
  THEN \E n \in Ours(stored, t) :
         /\ ~Duplicate(stored, n)
         /\ stored[n].spec = KeepUserSettings(OptInSpec(meta, ns, t), stored[n].spec)
  ELSE Ours(stored, t) = {}
Managed(t) ==
  /\ \/ \E n \in Ours(stored, t) : stored[n].operator = "another"
     \/ Follows(t)
  /\ Leaving(stored, t) = {}
  /\ \A n \in ManagedWorkloadsFor(stored, t) :
       stored[n].operator # "" /\ (stored[n].operator = "ours" => stored[n].duplicate = Duplicate(stored, n))

\* In the end every workload is managed as its labels, its annotations and what
\* people wrote ask for, whatever order the caches learn of them in.
OptInSettles == \A t \in Targets : []<>(Managed(t) \/ chances > 0)

\* No workload takes the namespace's list into a cycle of dependencies, which would
\* keep every workload in it from pausing.
Depended(t) ==
  LET Reached[i \in Nat] ==
        IF i = 0 THEN DependsOn(meta, ns, t)
        ELSE Reached[i - 1] \cup UNION {DependsOn(meta, ns, u) : u \in Reached[i - 1]}
  IN Reached[Cardinality(Targets)]
InheritingMakesNoCycle ==
  \A t \in Targets :
    meta[t].dependsOn \in {NoList, Unread} => t \notin Depended(t)
================================================================================
