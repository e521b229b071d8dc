----------------------------- MODULE SpareCapacity -----------------------------
(***************************************************************************)
(* One sample of what the cluster's nodes couldn't hold of all that is     *)
(* paused, and each paused workload's share of it.                         *)
(*                                                                         *)
(* Of CPU and memory, which are measured alike, there is one.  Amounts are *)
(* in units of which a replica's requests, and what nodes have, are        *)
(* multiples, so that shares are whole numbers, or rounded down to one.    *)
(***************************************************************************)
EXTENDS FiniteSets, Functions, Integers

CONSTANTS
  Nodes, PoolOf,    \* PoolOf[n]: the pool its labels name
  Pods, Workloads,
  Allocatable, MaxRequests, MaxReplicas

Unit == 12
Pools == {PoolOf[n] : n \in Nodes}
AnyPool == "*"                  \* of the replicas whose pool wasn't recorded
Places == Pools \cup {AnyPool}
Unbound == "none"

Assumptions ==
  /\ IsFiniteSet(Nodes) /\ IsFiniteSet(Pods) /\ IsFiniteSet(Workloads)
  /\ {Allocatable, MaxRequests, MaxReplicas} \subseteq Nat
  /\ AnyPool \notin Pools /\ Unbound \notin Nodes

\* How many of a workload's replicas ran in each pool as it paused.
Ran == {ran \in [Places -> 0..MaxReplicas] :
          /\ SumFunction(ran) \in 1..MaxReplicas
          /\ ran[AnyPool] = 0 \/ \A p \in Pools : ran[p] = 0}

VARIABLES
  ready,    \* the nodes that are Ready and schedulable
  pods,     \* pods that aren't Napwake's to hold: the node each is bound to, and what it requests
  paused,   \* what each workload's replicas request, and where they ran
  shares    \* what the last sample gave each workload, if there was one

vars == <<ready, pods, paused, shares>>
NoShares == [w \in Workloads |-> 0]

TypeOK ==
  /\ ready \subseteq Nodes
  /\ pods \in [Pods -> [node : Nodes \cup {Unbound}, requests : 1..MaxRequests, finished : BOOLEAN]]
  /\ paused \in [Workloads -> [requests : 1..MaxRequests, ran : Ran]]
  /\ shares \in [Workloads -> Nat]

Init ==
  /\ ready \in SUBSET Nodes
  /\ pods \in [Pods -> [node : Nodes \cup {Unbound}, requests : {1, MaxRequests}, finished : {FALSE}]
                       \cup [node : Nodes, requests : {MaxRequests}, finished : {TRUE}]]
  /\ paused \in [Workloads -> [requests : {1, MaxRequests}, ran : Ran]]
  /\ shares = NoShares

Beyond(m, n) == IF m > n THEN m - n ELSE 0

\* What a node's bound, unfinished pods leave of it: less than nothing when they request more than it has.
Room(n) ==
  LET here == {p \in Pods : pods[p].node = n /\ ~pods[p].finished} IN
  Unit * (Allocatable - SumFunction([p \in here |-> pods[p].requests]))

InPool(pool) == {n \in ready : PoolOf[n] = pool}

\* Mutant: a node whose pods request more than it has takes from its neighbours.
SpareInAll(pool) == Beyond(SumFunction([n \in InPool(pool) |-> Room(n)]), 0)

Spare(pool) == SumFunction([n \in InPool(pool) |-> Beyond(Room(n), 0)])

\* What a workload holds paused in each pool, by how many of its replicas ran there.
Held(w) ==
  LET total == Unit * paused[w].requests * SumFunction(paused[w].ran)
      ran == SumFunctionOnSet(paused[w].ran, Pools) IN
  [p \in Places |->
     IF p = AnyPool THEN IF ran = 0 THEN total ELSE 0
     ELSE IF ran = 0 THEN 0 ELSE (total * paused[w].ran[p]) \div ran]

\* Each pool's shortfall, and each workload's share of them in proportion to what it holds there.  Where the
\* pool isn't known, it's against what every pool has left once its own are held.
Realise(held) ==
  LET inAll == [p \in Places |-> SumFunction([w \in Workloads |-> held[w][p]])]
      spare == [p \in Pools |-> Spare(p)]
      left == SumFunction([p \in Pools |-> Beyond(spare[p], inAll[p])])
      shortfall == [p \in Places |-> Beyond(inAll[p], IF p = AnyPool THEN left ELSE spare[p])] IN
  [w \in Workloads |->
     SumFunction([p \in Places |-> IF inAll[p] = 0 THEN 0 ELSE (shortfall[p] * held[w][p]) \div inAll[p]])]

Sample ==
  /\ shares' = Realise([w \in Workloads |-> Held(w)])
  /\ UNCHANGED <<ready, pods, paused>>

\* The cluster's nodes come and go.
Changes ==
  /\ shares # NoShares /\ shares' = NoShares
  /\ \E n \in Nodes : ready' = (ready \ {n}) \cup ({n} \ ready)
  /\ UNCHANGED <<pods, paused>>

Next == Sample \/ Changes

Spec == Init /\ [][Next]_vars

\* "Real packing only needs more": however the paused replicas came back, each whole, on a node of the pool it
\* ran in that has room for it, those for which there's none would need as much as is credited of them all.
\* (realise, spareByPool, heldPaused)
Replicas == {r \in Workloads \X Places \X (1..MaxReplicas) : r[3] <= paused[r[1]].ran[r[2]]}
Requests(rs) == SumFunction([r \in rs |-> Unit * paused[r[1]].requests])
MayRun(r, n) == r[2] \in {AnyPool, PoolOf[n]}
NeverCreditsRoom ==
  \A on \in [Replicas -> ready \cup {Unbound}] :
    (\A n \in ready :
       LET here == {r \in Replicas : on[r] = n} IN
       (\A r \in here : MayRun(r, n)) /\ (here # {} => Requests(here) <= Room(n)))
    => SumFunction(shares) <= Requests({r \in Replicas : on[r] = Unbound})
=================================================================================
