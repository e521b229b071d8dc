------------------------------ MODULE OptInProofs ------------------------------
(***************************************************************************)
(* A theorem about OptIn, for any workloads, lists and order of changes:   *)
(* no workload that inherits its namespace's list is in a cycle by it.     *)
(*                                                                         *)
(* What a workload depends on, and what the namespace's list leads to, are *)
(* each what some walk along the lists reaches.  The argument is that the  *)
(* first stays within the second, as long as the second hasn't the         *)
(* workload itself: which inheriting makes sure of.                        *)
(***************************************************************************)
EXTENDS OptIn, FiniteSetTheorems, WellFoundedInduction, TLAPS

\* A walk of j steps along E that starts in B, and leaves no place of X.
Walks(B, E, X, T, j, x) ==
  \E p \in [0..j -> T] :
    p[0] \in B /\ p[j] = x /\ \A k \in 0..(j - 1) : p[k] \notin X /\ p[k + 1] \in E[p[k]]
Walked(B, E, X, T) == [i \in Nat |-> {x \in T : \E j \in 0..i : Walks(B, E, X, T, j, x)}]

LEMMA WalkedStep ==
  ASSUME NEW T, NEW B \in SUBSET T, NEW E \in [T -> SUBSET T], NEW X
  PROVE  LET W == Walked(B, E, X, T) IN
         /\ W[0] = B
         /\ \A i \in Nat : W[i] \in SUBSET T
         /\ \A i \in Nat \ {0} : W[i] = W[i - 1] \cup UNION {E[u] : u \in W[i - 1] \ X}
<1> DEFINE W == Walked(B, E, X, T)
           Walk(j, x) == Walks(B, E, X, T, j, x)
<1>1. \A i \in Nat : W[i] = {x \in T : \E j \in 0..i : Walk(j, x)}
  BY DEF Walked
<1>2. W[0] = B
  <2>1. ASSUME NEW x \in T, Walk(0, x) PROVE x \in B
    BY <2>1 DEF Walks
  <2>2. ASSUME NEW x \in B PROVE Walk(0, x)
    <3> DEFINE p == [k \in 0..0 |-> x]
    <3>1. p \in [0..0 -> T] /\ p[0] = x /\ \A k \in 0..(0 - 1) : FALSE
      BY <2>2
    <3> QED
      BY <2>2, <3>1 DEF Walks
  <2> HIDE DEF Walk, W
  <2>3. W[0] = {x \in T : Walk(0, x)}
    <3>1. \A j : j \in 0..0 <=> j = 0
      OBVIOUS
    <3>2. W[0] = {x \in T : \E j \in 0..0 : Walk(j, x)}
      BY <1>1
    <3> QED
      BY <3>1, <3>2
  <2> QED
    BY <2>1, <2>2, <2>3
<1>3. ASSUME NEW i \in Nat \ {0}, NEW x \in W[i] PROVE x \in W[i - 1] \/ \E u \in W[i - 1] \ X : x \in E[u]
  <2>1. PICK j \in 0..i : Walk(j, x) /\ x \in T
    BY <1>1, <1>3
  <2>2. CASE j <= i - 1
    BY <1>1, <2>1, <2>2
  <2>3. CASE j = i
    <3>1. PICK p \in [0..i -> T] : p[0] \in B /\ p[i] = x /\ \A k \in 0..(i - 1) : p[k] \notin X
            /\ p[k + 1] \in E[p[k]]
      BY <2>1, <2>3 DEF Walks
    <3> DEFINE q == [k \in 0..(i - 1) |-> p[k]]
               u == p[i - 1]
    <3>2. u \in T /\ u \notin X /\ x \in E[u] /\ i - 1 \in 0..(i - 1) /\ i - 1 \in Nat
      BY <3>1
    <3>3. q \in [0..(i - 1) -> T] /\ q[0] \in B /\ q[i - 1] = u
          /\ \A k \in 0..(i - 1 - 1) : q[k] \notin X /\ q[k + 1] \in E[q[k]]
      BY <3>1
    <3>4. Walk(i - 1, u)
      BY <3>3 DEF Walks
    <3> HIDE DEF q, u, Walk, W
    <3>5. u \in W[i - 1]
      BY <1>1, <3>2, <3>4
    <3> QED
      BY <3>2, <3>5
  <2> QED
    BY <2>1, <2>2, <2>3
<1>4. ASSUME NEW i \in Nat \ {0}, NEW x \in W[i - 1] PROVE x \in W[i]
  BY <1>1, <1>4
<1>5. ASSUME NEW i \in Nat \ {0}, NEW u \in W[i - 1] \ X, NEW x \in E[u] PROVE x \in W[i]
  <2>1. PICK j \in 0..(i - 1) : Walk(j, u) /\ u \in T
    BY <1>1, <1>5
  <2>2. PICK p \in [0..j -> T] : p[0] \in B /\ p[j] = u /\ \A k \in 0..(j - 1) : p[k] \notin X
          /\ p[k + 1] \in E[p[k]]
    BY <2>1 DEF Walks
  <2>3. x \in T
    BY <2>1, <1>5
  <2> DEFINE q == [k \in 0..(j + 1) |-> IF k = j + 1 THEN x ELSE p[k]]
  <2>4. q \in [0..(j + 1) -> T] /\ q[0] \in B /\ q[j + 1] = x
    BY <2>2, <2>3
  <2>5. ASSUME NEW k \in 0..(j + 1 - 1) PROVE q[k] \notin X /\ q[k + 1] \in E[q[k]]
    <3>1. CASE k = j
      BY <1>5, <2>2, <3>1
    <3>2. CASE k # j
      BY <2>2, <3>2
    <3> QED
      BY <3>1, <3>2
  <2>6. Walk(j + 1, x)
    <3> HIDE DEF q
    <3>1. \A k \in 0..(j + 1 - 1) : q[k] \notin X /\ q[k + 1] \in E[q[k]]
      BY <2>5
    <3> SUFFICES \E r \in [0..(j + 1) -> T] :
                   /\ r[0] \in B /\ r[j + 1] = x
                   /\ \A k \in 0..(j + 1 - 1) : r[k] \notin X /\ r[k + 1] \in E[r[k]]
      BY DEF Walks
    <3> q \in [0..(j + 1) -> T]
      BY <2>4
    <3> WITNESS q \in [0..(j + 1) -> T]
    <3> QED
      BY <2>4, <3>1
  <2> HIDE DEF q, Walk, W
  <2>7. j + 1 \in 0..i
    OBVIOUS
  <2> QED
    BY <1>1, <2>3, <2>6, <2>7
<1>6. \A i \in Nat : W[i] \in SUBSET T
  BY <1>1
<1> HIDE DEF W
<1>7. ASSUME NEW i \in Nat \ {0} PROVE W[i] = W[i - 1] \cup UNION {E[u] : u \in W[i - 1] \ X}
  BY <1>3, <1>4, <1>5
<1> QED
  BY <1>2, <1>6, <1>7 DEF W

\* The first of some numbers.
LEMMA FirstOf ==
  ASSUME NEW S \in SUBSET Nat, S # {}
  PROVE  \E m \in S : \A k \in S : m <= k
<1>1. PICK m \in S : \A k \in S : ~(<<k, m>> \in OpToRel(<, Nat))
  BY NatLessThanWellFounded, WFMin
<1>2. \A k \in S : ~(k < m)
  BY <1>1 DEF OpToRel
<1> QED
  BY <1>2

\* What f has early on it has later.
LEMMA Grows ==
  ASSUME NEW f, \A i \in Nat \ {0} : f[i - 1] \subseteq f[i], NEW i \in Nat, NEW k \in Nat, i <= k
  PROVE  f[i] \subseteq f[k]
<1> SUFFICES ASSUME NEW x \in f[i], x \notin f[k] PROVE FALSE
  OBVIOUS
<1> DEFINE S == {j \in Nat : i <= j /\ x \notin f[j]}
<1>1. PICK m \in S : \A j \in S : m <= j
  BY FirstOf
<1>2. m # i /\ m \in Nat \ {0} /\ i <= m - 1 /\ m - 1 \in Nat
  BY <1>1
<1>3. x \in f[m - 1]
  BY <1>1, <1>2
<1> QED
  BY <1>1, <1>2, <1>3

-----------------------------------------------------------------------------
(* The module's recursive functions are such walks. *)

LEMMA NamedAre ==
  ASSUME NEW ms, NEW n, NEW t, \A u \in Targets : Read(ms[u].dependsOn) \in SUBSET Targets,
         Read(n.dependsOn) \in SUBSET Targets
  PROVE  \E f : /\ LeadsTo(ms, n, t) <=> t \in f[Cardinality(Targets)]
                /\ f[0] = Read(n.dependsOn)
                /\ \A i \in Nat \ {0} : f[i] = f[i - 1] \cup UNION {Read(ms[u].dependsOn) : u \in f[i - 1] \ {t}}
<1> DEFINE Is(f) == f = [i \in Nat |-> IF i = 0 THEN Read(n.dependsOn)
                                       ELSE f[i - 1] \cup UNION {Read(ms[u].dependsOn) : u \in f[i - 1] \ {t}}]
           E == [u \in Targets |-> Read(ms[u].dependsOn)]
           W == Walked(Read(n.dependsOn), E, {t}, Targets)
<1>1. LeadsTo(ms, n, t) <=> t \in (CHOOSE f : Is(f))[Cardinality(Targets)]
  BY DEF LeadsTo
<1>2. E \in [Targets -> SUBSET Targets]
  OBVIOUS
<1>3. /\ W[0] = Read(n.dependsOn)
      /\ \A i \in Nat : W[i] \in SUBSET Targets
      /\ \A i \in Nat \ {0} : W[i] = W[i - 1] \cup UNION {E[u] : u \in W[i - 1] \ {t}}
  BY <1>2, WalkedStep
<1>4. W = [i \in Nat |-> W[i]]
  BY DEF Walked
<1>5. ASSUME NEW i \in Nat \ {0}
      PROVE  W[i] = W[i - 1] \cup UNION {Read(ms[u].dependsOn) : u \in W[i - 1] \ {t}}
  <2>1. W[i - 1] \subseteq Targets
    BY <1>3
  <2>2. \A u \in W[i - 1] : E[u] = Read(ms[u].dependsOn)
    BY <2>1
  <2> HIDE DEF W, E
  <2> QED
    BY <1>3, <2>2
<1>6. Is(W)
  <2> HIDE DEF W, E
  <2> QED
    BY <1>3, <1>4, <1>5
<1>7. Is(CHOOSE f : Is(f))
  <2> HIDE DEF Is, W
  <2> QED
    BY <1>6
<1> DEFINE N == CHOOSE f : Is(f)
<1>8. LeadsTo(ms, n, t) <=> t \in N[Cardinality(Targets)]
  BY <1>1
<1>9. Is(N)
  BY <1>7
<1> HIDE DEF N
<1>10. N[0] = Read(n.dependsOn)
  BY <1>9
<1>11. \A i \in Nat \ {0} : N[i] = N[i - 1] \cup UNION {Read(ms[u].dependsOn) : u \in N[i - 1] \ {t}}
  BY <1>9
<1> QED
  BY <1>8, <1>10, <1>11

LEMMA DependedAre ==
  ASSUME NEW t, \A u \in Targets : DependsOn(meta, ns, u) \in SUBSET Targets, t \in Targets
  PROVE  \E f : /\ Depended(t) = f[Cardinality(Targets)]
                /\ f[0] = DependsOn(meta, ns, t)
                /\ \A i \in Nat \ {0} : f[i] = f[i - 1] \cup UNION {DependsOn(meta, ns, u) : u \in f[i - 1]}
<1> DEFINE Is(f) == f = [i \in Nat |-> IF i = 0 THEN DependsOn(meta, ns, t)
                                       ELSE f[i - 1] \cup UNION {DependsOn(meta, ns, u) : u \in f[i - 1]}]
           E == [u \in Targets |-> DependsOn(meta, ns, u)]
           W == Walked(DependsOn(meta, ns, t), E, {}, Targets)
<1>1. Depended(t) = (CHOOSE f : Is(f))[Cardinality(Targets)]
  BY DEF Depended
<1>2. E \in [Targets -> SUBSET Targets] /\ DependsOn(meta, ns, t) \in SUBSET Targets
  OBVIOUS
<1>3. /\ W[0] = DependsOn(meta, ns, t)
      /\ \A i \in Nat : W[i] \in SUBSET Targets
      /\ \A i \in Nat \ {0} : W[i] = W[i - 1] \cup UNION {E[u] : u \in W[i - 1] \ {}}
  BY <1>2, WalkedStep
<1>4. W = [i \in Nat |-> W[i]]
  BY DEF Walked
<1>5. ASSUME NEW i \in Nat \ {0}
      PROVE  W[i] = W[i - 1] \cup UNION {DependsOn(meta, ns, u) : u \in W[i - 1]}
  <2>1. W[i - 1] \subseteq Targets
    BY <1>3
  <2>2. \A u \in W[i - 1] : E[u] = DependsOn(meta, ns, u)
    BY <2>1
  <2> HIDE DEF W, E
  <2> QED
    BY <1>3, <2>2
<1>6. Is(W)
  <2> HIDE DEF W, E
  <2> QED
    BY <1>3, <1>4, <1>5
<1> DEFINE R == CHOOSE f : Is(f)
<1>7. Is(R)
  <2> HIDE DEF Is, W
  <2> QED
    BY <1>6
<1>8. Depended(t) = R[Cardinality(Targets)]
  BY <1>1
<1> HIDE DEF R
<1>9. R[0] = DependsOn(meta, ns, t)
  BY <1>7
<1>10. \A i \in Nat \ {0} : R[i] = R[i - 1] \cup UNION {DependsOn(meta, ns, u) : u \in R[i - 1]}
  BY <1>7
<1> QED
  BY <1>8, <1>9, <1>10

\* What holds at the first number, and is passed on to the next, holds at each.
LEMMA StaysWithin ==
  ASSUME NEW f, NEW g, NEW m \in Nat, f[0] \subseteq g[0],
         \A i \in 1..m : f[i - 1] \subseteq g[i - 1] => f[i] \subseteq g[i]
  PROVE  f[m] \subseteq g[m]
<1> SUFFICES ASSUME ~(f[m] \subseteq g[m]) PROVE FALSE
  OBVIOUS
<1> DEFINE S == {j \in 0..m : ~(f[j] \subseteq g[j])}
<1>1. S \in SUBSET Nat /\ S # {}
  OBVIOUS
<1>2. PICK k \in S : \A j \in S : k <= j
  BY <1>1, FirstOf
<1>3. k \in 1..m /\ k - 1 \in 0..m /\ k - 1 \notin S
  BY <1>2
<1>4. f[k - 1] \subseteq g[k - 1]
  BY <1>3
<1> QED
  BY <1>2, <1>3, <1>4

-----------------------------------------------------------------------------
\* What workloads and their namespace are labelled and annotated with.
ListsTyped ==
  /\ meta \in [Targets -> [label : {"", "true", "refused"}, dryRun : Values, dependsOn : Lists]]
  /\ ns \in [label : {"", "true", "protected"}, dryRun : Values, dependsOn : Lists]

LEMMA ReadTyped ==
  ASSUME Assumptions, ListsTyped
  PROVE  /\ \A t \in Targets : Read(meta[t].dependsOn) \in SUBSET Targets
         /\ Read(ns.dependsOn) \in SUBSET Targets
BY DEF Assumptions, ListsTyped, Read

LEMMA DependsOnTyped ==
  ASSUME Assumptions, ListsTyped, NEW t \in Targets
  PROVE  /\ DependsOn(meta, ns, t) \in SUBSET Targets
         /\ DependsOn(meta, ns, t) \subseteq Read(meta[t].dependsOn) \cup Read(ns.dependsOn)
BY ReadTyped DEF DependsOn, Read

\* Whatever follows from what a workload inherits, its namespace's list leads to.
LEMMA NoCycleNow == ASSUME Assumptions, ListsTyped PROVE InheritingMakesNoCycle
<1> SUFFICES ASSUME NEW t \in Targets, meta[t].dependsOn \in {NoList, Unread} PROVE t \notin Depended(t)
  BY DEF InheritingMakesNoCycle
<1> DEFINE c == Cardinality(Targets)
<1>1. c \in Nat
  BY FS_CardinalityType DEF Assumptions
<1> HIDE DEF c
<1>2. PICK N : /\ LeadsTo(meta, ns, t) <=> t \in N[c]
               /\ N[0] = Read(ns.dependsOn)
               /\ \A i \in Nat \ {0} :
                    N[i] = N[i - 1] \cup UNION {Read(meta[u].dependsOn) : u \in N[i - 1] \ {t}}
  <2>1. /\ \A u \in Targets : Read(meta[u].dependsOn) \in SUBSET Targets
        /\ Read(ns.dependsOn) \in SUBSET Targets
    BY ReadTyped
  <2> QED
    BY <2>1, NamedAre DEF c
<1>3. PICK R : /\ Depended(t) = R[c]
               /\ R[0] = DependsOn(meta, ns, t)
               /\ \A i \in Nat \ {0} : R[i] = R[i - 1] \cup UNION {DependsOn(meta, ns, u) : u \in R[i - 1]}
  <2>1. \A u \in Targets : DependsOn(meta, ns, u) \in SUBSET Targets
    BY DependsOnTyped
  <2> QED
    BY <2>1, DependedAre, Zenon DEF c
<1>4. CASE DependsOn(meta, ns, t) = {}
  <2> DEFINE Z == [i \in Nat |-> {}]
  <2>1. \A i \in 1..c : R[i - 1] \subseteq Z[i - 1] => R[i] \subseteq Z[i]
    <3> SUFFICES ASSUME NEW i \in 1..c, R[i - 1] \subseteq Z[i - 1] PROVE R[i] \subseteq Z[i]
      OBVIOUS
    <3>1. i \in Nat \ {0} /\ R[i - 1] = {}
      BY <1>1
    <3> QED
      BY <1>3, <3>1
  <2>2. R[0] \subseteq Z[0]
    BY <1>3, <1>4
  <2>3. R[c] \subseteq Z[c]
    BY <1>1, <2>1, <2>2, StaysWithin
  <2> QED
    BY <1>1, <1>3, <2>3
<1>5. CASE DependsOn(meta, ns, t) # {}
  <2>1. /\ ns.dependsOn # NoList /\ ~LeadsTo(meta, ns, t)
        /\ DependsOn(meta, ns, t) \subseteq Read(ns.dependsOn)
    BY <1>5 DEF DependsOn, InheritsDependsOn, Read
  <2>2. t \notin N[c]
    BY <1>2, <2>1
  <2>3. ASSUME NEW i \in 1..c PROVE t \notin N[i - 1]
    <3>1. i - 1 \in Nat /\ i - 1 <= c
      BY <1>1
    <3>2. \A j \in Nat \ {0} : N[j - 1] \subseteq N[j]
      BY <1>2
    <3> QED
      BY <1>1, <2>2, <3>1, <3>2, Grows
  <2>4. ASSUME NEW i \in Nat PROVE Read(ns.dependsOn) \subseteq N[i]
    <3>1. \A j \in Nat \ {0} : N[j - 1] \subseteq N[j]
      BY <1>2
    <3>2. N[0] \subseteq N[i]
      BY <3>1, Grows
    <3> QED
      BY <1>2, <3>2
  <2>5. ASSUME NEW i \in Nat, i <= c PROVE N[i] \subseteq Targets
    <3> DEFINE G == [k \in Nat |-> Targets]
    <3>1. \A k \in 1..i : N[k - 1] \subseteq G[k - 1] => N[k] \subseteq G[k]
      <4> SUFFICES ASSUME NEW k \in 1..i, N[k - 1] \subseteq Targets PROVE N[k] \subseteq Targets
        OBVIOUS
      <4> QED
        BY <1>2, ReadTyped
    <3>2. N[0] \subseteq G[0]
      BY <1>2, ReadTyped
    <3>3. N[i] \subseteq G[i]
      BY <3>1, <3>2, StaysWithin
    <3> QED
      BY <3>3
  <2>6. ASSUME NEW i \in 1..c, R[i - 1] \subseteq N[i - 1] PROVE R[i] \subseteq N[i]
    <3>1. i \in Nat \ {0} /\ i - 1 \in Nat /\ i - 1 <= c
      BY <1>1
    <3>2. ASSUME NEW u \in R[i - 1], NEW x \in DependsOn(meta, ns, u) PROVE x \in N[i]
      <4>1. u \in N[i - 1] \ {t} /\ u \in Targets
        BY <2>3, <2>5, <2>6, <3>1
      <4>2. x \in Read(meta[u].dependsOn) \/ x \in Read(ns.dependsOn)
        BY <3>2, <4>1, DependsOnTyped
      <4> QED
        BY <1>2, <2>4, <3>1, <4>1, <4>2
    <3>3. N[i - 1] \subseteq N[i]
      BY <1>2, <3>1
    <3> QED
      BY <1>3, <2>6, <3>1, <3>2, <3>3
  <2>7. R[0] \subseteq N[0]
    BY <1>2, <1>3, <2>1
  <2>8. R[c] \subseteq N[c]
    BY <1>1, <2>6, <2>7, StaysWithin
  <2> QED
    BY <1>3, <2>2, <2>8
<1> QED
  BY <1>4, <1>5

LEMMA ListsInitially == ASSUME Assumptions, Init PROVE ListsTyped
<1>1. PICK own \in [Targets -> Lists], list \in Lists :
        /\ meta = [t \in Targets |-> [label |-> "", dryRun |-> "", dependsOn |-> own[t]]]
        /\ ns = [label |-> "true", dryRun |-> "", dependsOn |-> list]
  BY DEF Init
<1>2. "" \in Values
  BY DEF Values
<1>3. meta \in [Targets -> [label : {"", "true", "refused"}, dryRun : Values, dependsOn : Lists]]
  BY <1>1, <1>2
<1>4. ns \in [label : {"", "true", "protected"}, dryRun : Values, dependsOn : Lists]
  BY <1>1, <1>2
<1> QED
  BY <1>3, <1>4 DEF ListsTyped

LEMMA ListsKept == ASSUME ListsTyped, [Next]_vars PROVE ListsTyped'
<1>1. CASE UNCHANGED <<meta, ns>>
  BY <1>1 DEF ListsTyped
<1>2. ASSUME NEW t \in Targets, Labels(t) PROVE ListsTyped'
  <2>1. PICK v \in {"", "true", "refused"} : meta' = [meta EXCEPT ![t].label = v]
    BY <1>2 DEF Labels
  <2>2. ns' = ns
    BY <1>2 DEF Labels
  <2> QED
    BY <2>1, <2>2 DEF ListsTyped
<1>3. ASSUME NEW t \in Targets, Annotates(t) PROVE ListsTyped'
  <2>1. ns' = ns
    BY <1>3 DEF Annotates
  <2>2. CASE \E v \in Values : meta' = [meta EXCEPT ![t].dryRun = v]
    <3>1. PICK v \in Values : meta' = [meta EXCEPT ![t].dryRun = v]
      BY <2>2
    <3> QED
      BY <2>1, <3>1 DEF ListsTyped
  <2>3. CASE \E v \in Lists : meta' = [meta EXCEPT ![t].dependsOn = v]
    <3>1. PICK v \in Lists : meta' = [meta EXCEPT ![t].dependsOn = v]
      BY <2>3
    <3> QED
      BY <2>1, <3>1 DEF ListsTyped
  <2> QED
    BY <1>3, <2>2, <2>3 DEF Annotates
<1>4. CASE ChangesNamespace
  BY <1>4 DEF ChangesNamespace, ListsTyped
<1>5. ASSUME NEW t \in Targets, Reads(t) \/ Writes(t) \/ HearsOfWorkload(t)
               \/ WritesOne(t) PROVE ListsTyped'
  BY <1>1, <1>5 DEF Reads, Writes, HearsOfWorkload, WritesOne
<1>6. ASSUME NEW n \in Names,
             TakesOn(n) \/ HandsBack(n) \/ DeletesOne(n) \/ EditsOne(n) \/ Adopts(n) \/ AnotherTakesOn(n)
      PROVE  ListsTyped'
  BY <1>1, <1>6 DEF TakesOn, HandsBack, DeletesOne, EditsOne, Adopts, AnotherTakesOn
<1>7. CASE HearsOfNamespace \/ HearsOfManagedWorkloads \/ Restarts \/ UNCHANGED vars
  BY <1>1, <1>7 DEF HearsOfNamespace, HearsOfManagedWorkloads, Restarts, vars
<1> QED
  BY <1>2, <1>3, <1>4, <1>5, <1>6, <1>7 DEF Next

\* No workload takes its namespace's list into a cycle of dependencies, which would keep
\* every workload in it from pausing, whatever the lists name, and however they change
\* (InheritingMakesNoCycle; optin_controller.go:165-171).
THEOREM NoCycleInherited == ASSUME Assumptions PROVE Spec => []InheritingMakesNoCycle
<1>1. Init => ListsTyped
  BY ListsInitially
<1>2. ListsTyped /\ [Next]_vars => ListsTyped'
  BY ListsKept
<1>3. ListsTyped => InheritingMakesNoCycle
  BY NoCycleNow
<1> QED
  BY <1>1, <1>2, <1>3, PTL DEF Spec
==============================================================================
