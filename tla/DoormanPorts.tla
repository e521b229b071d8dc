----------------------------- MODULE DoormanPorts -----------------------------
(***************************************************************************)
(* The doorman's ports: how the operator gives each Service port of a      *)
(* paused workload a port of the doorman's, points the Service at it with  *)
(* an EndpointSlice, and takes both back; and whom the doorman serves on   *)
(* each port, by what the workloads' statuses say.                         *)
(*                                                                         *)
(* One leader reconciles every workload, several at once, and keeps the    *)
(* port allocator in memory.  A reconcile reads a workload and its slices  *)
(* from caches that lag, writes slices one by one, and its status last; a  *)
(* write may fail, or the leader die, between any two.  The lifecycle is   *)
(* reduced to the phase a reconcile's status write may change.             *)
(*                                                                         *)
(* Time is counted in units of RouteDrain, by Tick.  Nothing that takes    *)
(* less lasts through one: a delivery to a cache, the start of a queued    *)
(* reconcile, a sync of the doorman's.                                     *)
(***************************************************************************)
EXTENDS Integers, FiniteSets

CONSTANTS
  Workloads, Keys,  \* a key is a port of one of a workload's Services
  Ports,            \* the doorman's
  NoPort, NoOne,    \* none of Ports; none of Workloads, nor a route
  PortDrain,        \* how long a released port drains (2)
  SliceSettle,      \* how long the cache may miss a slice after a phase change (2)
  Reload,           \* how often the allocator reads the cluster again (60)
  MaxAge,           \* the longest a reconcile lasts (4)
  Lag,              \* the caches a reconcile may start from when they're out of date
  Budget,           \* bounds what others do
  Externals         \* the kinds of thing they do

ASSUME PortsAssumption ==
  /\ NoPort \notin Ports /\ NoOne \notin Workloads \cup (Workloads \X Keys)
  /\ IsFiniteSet(Keys) /\ IsFiniteSet(Ports)
ASSUME TimesAssumption ==
  /\ PortDrain \in Nat \ {0} /\ SliceSettle \in Nat \ {0}
  /\ Reload \in Nat /\ MaxAge \in Nat /\ MaxAge < Reload
  /\ Lag \subseteq {"workload", "slices"} /\ Budget \in Nat

RouteDrain == 1     \* the doorman's own drain, and how long a proxy goes on sending

Phases == {"awake", "paused", "resuming"}
Routes == Workloads \X Keys
Routing == [Keys -> Ports \cup {NoPort}]
Unrouted == [k \in Keys |-> NoPort]
PortsOf(routes) == {routes[k] : k \in Keys} \ {NoPort}

\* What the status of a ManagedWorkload says of its routes and their drains,
\* each with how long it has left; and how long since its phase changed.
\* "drained" says a drain has begun since its deletion did.
Status ==
  [phase : Phases, routes : Routing, drains : [Ports -> 0..PortDrain],
   settling : 0..SliceSettle, deleting : BOOLEAN, drained : BOOLEAN, gone : BOOLEAN]

NoDrains == [p \in Ports |-> 0]
New ==
  [phase |-> "awake", routes |-> Unrouted, drains |-> NoDrains, settling |-> 0,
   deleting |-> FALSE, drained |-> FALSE, gone |-> FALSE]

\* The allocator: claims, and the ones made since it last read the cluster;
\* drains, the ones that are over until it looks at them again included; and how
\* long until it's due to read the cluster again.
Draining == [owner : Workloads \cup {NoOne}, left : 0..PortDrain]
Free == [owner |-> NoOne, left |-> 0]
Allocator ==
  [loaded : BOOLEAN, claims : [Ports -> Workloads \cup {NoOne}], recent : SUBSET Ports,
   draining : [Ports -> Draining], reloadIn : 0..Reload]
NoClaims ==
  [loaded |-> FALSE, claims |-> [p \in Ports |-> NoOne], recent |-> {},
   draining |-> [p \in Ports |-> Free], reloadIn |-> 0]

\* What a read of the cluster finds in use.
PortsInUse ==
  [routes : [Workloads -> Routing], drains : [Workloads -> [Ports -> 0..PortDrain]],
   slices : [Workloads -> Routing]]
NothingRead ==
  [routes |-> [x \in Workloads |-> Unrouted], drains |-> [x \in Workloads |-> NoDrains],
   slices |-> [x \in Workloads |-> Unrouted]]

\* One port of the doorman's: the route it serves there, and the one
\* draining, with how long it has left.
Serving == [serves : Routes \cup {NoOne}, drains : Routes \cup {NoOne}, left : 0..RouteDrain]
Closed == [serves |-> NoOne, drains |-> NoOne, left |-> 0]

VARIABLES
  status, slices,      \* of each workload, at the API server
  seen, seenFresh,     \* its status in the operator's cache, and whether that's current
  seenSlices,          \* its slices there
  plan,                \* the keys its Services would have routed
  up,                  \* whether the doorman has Ready pods
  mem,                 \* the leader's allocator
  wait,                \* how long until its next reconcile is due, or Unqueued
  pc,                  \* what its reconcile does next
  copy, fresh,         \* its copy of the status, and whether it's of the current version
  keys, cur, todo,     \* the keys to route, the slices listed, the keys left to do
  read,                \* its read of the cluster
  result, age,         \* how its routing went, and how long it has run
  doorman,             \* each port, as the doorman serves it
  lingering,           \* the routes that clients still follow to a port without a slice
  left                 \* what's left of Budget

api == <<status, slices>>
caches == <<seen, seenFresh, seenSlices>>
world == <<plan, up, doorman, lingering, left>>
local == <<pc, copy, fresh, keys, cur, todo, read, result, age>>
vars == <<api, caches, world, mem, wait, local>>

Unqueued == -1
Steps == {"idle", "list", "merge", "assign", "apply", "unroute", "write"}
Results == {"ok", "stale", "failed"}

TypeOK ==
  /\ status \in [Workloads -> Status] /\ slices \in [Workloads -> Routing]
  /\ seen \in [Workloads -> Status] /\ seenFresh \in [Workloads -> BOOLEAN]
  /\ seenSlices \in [Workloads -> Routing]
  /\ plan \in [Workloads -> SUBSET Keys] /\ up \in BOOLEAN
  /\ mem \in Allocator
  /\ wait \in [Workloads -> Unqueued..PortDrain]
  /\ pc \in [Workloads -> Steps]
  /\ copy \in [Workloads -> Status] /\ fresh \in [Workloads -> BOOLEAN]
  /\ keys \in [Workloads -> SUBSET Keys] /\ cur \in [Workloads -> Routing]
  /\ todo \in [Workloads -> SUBSET Keys] /\ read \in [Workloads -> PortsInUse]
  /\ result \in [Workloads -> Results] /\ age \in [Workloads -> 0..MaxAge]
  /\ doorman \in [Ports -> Serving] /\ lingering \in [Ports -> SUBSET Routes]
  /\ left \in 0..Budget

All(v) == [x \in Workloads |-> v]

Init ==
  /\ status = All(New) /\ slices = All(Unrouted)
  /\ seen = All(New) /\ seenFresh = All(TRUE) /\ seenSlices = All(Unrouted)
  /\ plan = All(Keys) /\ up = TRUE
  /\ mem = NoClaims
  /\ wait = All(0)
  /\ pc = All("idle") /\ copy = All(New) /\ fresh = All(TRUE)
  /\ keys = All({}) /\ cur = All(Unrouted) /\ todo = All({}) /\ read = All(NothingRead)
  /\ result = All("ok") /\ age = All(0)
  /\ doorman = [p \in Ports |-> Closed] /\ lingering = [p \in Ports |-> {}]
  /\ left = Budget

----------------------------------------------------------------------------
(* Slices, and the clients that follow them. *)

\* Everything but a slice of x's for k is as it was.  Clients that followed it
\* to a port it no longer names linger there.
SliceWritten(x, k, port) ==
  LET old == slices[x][k]
  IN /\ slices' = [slices EXCEPT ![x][k] = port]
     /\ lingering' = IF old \in {port, NoPort} THEN lingering
                     ELSE [lingering EXCEPT ![old] = @ \cup {<<x, k>>}]
     /\ UNCHANGED <<status, caches, plan, up, doorman, left, mem>>

\* What others may do, or make fail, within Budget.
Do(kind) == kind \in Externals /\ left > 0 /\ left' = left - 1

NoWrites == UNCHANGED <<api, caches, world>>

Goto(x, step) == pc' = [pc EXCEPT ![x] = step]

\* The reconcile ends, with the next one due after that long, unless it's queued
\* already.
End(x, after) ==
  /\ Goto(x, "idle") /\ copy' = [copy EXCEPT ![x] = New]
  /\ fresh' = [fresh EXCEPT ![x] = TRUE] /\ keys' = [keys EXCEPT ![x] = {}]
  /\ cur' = [cur EXCEPT ![x] = Unrouted] /\ todo' = [todo EXCEPT ![x] = {}]
  /\ read' = [read EXCEPT ![x] = NothingRead] /\ result' = [result EXCEPT ![x] = "ok"]
  /\ age' = [age EXCEPT ![x] = 0]
  /\ wait' = [wait EXCEPT ![x] = IF @ = 0 THEN 0 ELSE after]

----------------------------------------------------------------------------
(* A reconcile's routing: reconcileDoorman. *)

Eligible(m) == m.phase = "paused" \/ (m.phase = "resuming" /\ m.routes # Unrouted)

\* Mutant: the cache is enough.
NeverMissSlices(m) == FALSE

\* Whether the cache may not have a slice of the workload's.
MayMissSlices(m) ==
  \/ m.routes # Unrouted
  \/ IF m.deleting THEN ~(m.drained /\ m.drains # NoDrains) ELSE m.settling > 0

LoadDue == ~mem.loaded \/ mem.reloadIn = 0

\* A reconcile may start at any time: something it watches may change, or five
\* minutes go by.  The workload and its slices are read from the cache; one whose
\* cached phase isn't the live one isn't routed (staleForRouting).
Start(x) ==
  /\ pc[x] = "idle" /\ ~seen[x].gone
  /\ "workload" \notin Lag => seenFresh[x]
  /\ "slices" \notin Lag => seenSlices[x] = slices[x]
  /\ LET m == seen[x]
         routed == Eligible(m) /\ ~m.deleting /\ up
         listed == IF routed \/ ~MayMissSlices(m) THEN seenSlices[x] ELSE slices[x]
     IN /\ Eligible(m) /\ ~m.deleting => m.phase = status[x].phase
        /\ copy' = [copy EXCEPT ![x] = m] /\ fresh' = [fresh EXCEPT ![x] = seenFresh[x]]
        /\ cur' = [cur EXCEPT ![x] = listed]
        /\ keys' = [keys EXCEPT ![x] = IF routed THEN plan[x] ELSE {}]
        /\ todo' = [todo EXCEPT ![x] = IF routed THEN {} ELSE {k \in Keys : listed[k] # NoPort}]
        /\ Goto(x, IF ~routed THEN "unroute" ELSE IF LoadDue THEN "list" ELSE "assign")
  /\ wait' = [wait EXCEPT ![x] = Unqueued]
  /\ UNCHANGED <<mem, read, result, age>> /\ NoWrites

\* routeReader.list, without the allocator's lock.
List(x) ==
  /\ pc[x] = "list"
  /\ read' = [read EXCEPT ![x] =
       [routes |-> [y \in Workloads |-> IF status[y].gone THEN Unrouted ELSE status[y].routes],
        drains |-> [y \in Workloads |-> IF status[y].gone THEN NoDrains ELSE status[y].drains],
        slices |-> slices]]
  /\ Goto(x, "merge")
  /\ UNCHANGED <<wait, mem, copy, fresh, keys, cur, todo, result, age>> /\ NoWrites

OneOf(S) == IF S = {} THEN {NoOne} ELSE S

ClaimKept(p) == IF p \in mem.recent THEN mem.claims[p] ELSE NoOne

\* portAllocator.merge.  Claims are the statuses', then the slices', then the
\* ones made since the last load; a port draining for its owner isn't claimed.
\* (Which of the claims made while the read went on are from before it is left
\* out: what makes them has ended by the next.)
Merge(x) ==
  /\ pc[x] = "merge"
  /\ IF ~LoadDue THEN mem' = mem
     ELSE \E drainers, claims \in [Ports -> Workloads \cup {NoOne}] :
            LET users(p, of) == {y \in Workloads : p \in PortsOf(of[y])}
                draining == [p \in Ports |-> IF drainers[p] = NoOne THEN mem.draining[p]
                  ELSE [owner |-> drainers[p], left |-> read[x].drains[drainers[p]][p]]]
                stated(p) == users(p, read[x].routes) \ {mem.draining[p].owner}
                sliced(p) == users(p, read[x].slices) \ {draining[p].owner}
            IN /\ \A p \in Ports :
                    /\ drainers[p] \in OneOf({y \in Workloads :
                         mem.draining[p].owner = NoOne /\ read[x].drains[y][p] > 0})
                    /\ claims[p] \in IF stated(p) # {} THEN stated(p)
                                     ELSE IF sliced(p) # {} THEN sliced(p) ELSE {ClaimKept(p)}
               /\ mem' = [loaded |-> TRUE, claims |-> claims, recent |-> {},
                          draining |-> draining, reloadIn |-> Reload - age[x]]
  /\ Goto(x, "assign")
  /\ UNCHANGED <<wait, copy, fresh, keys, cur, todo, read, result, age>> /\ NoWrites

\* recordDrains, as the reconcile's copy of the status takes on routes.
WithRoutes(m, routes) ==
  LET given == PortsOf(m.routes) \ PortsOf(routes)
  IN [m EXCEPT
        !.routes = routes,
        !.drains = [p \in Ports |->
          IF p \in PortsOf(routes) THEN 0
          ELSE IF m.drains[p] = 0 /\ p \in given THEN PortDrain ELSE m.drains[p]],
        !.drained = @ \/ (m.deleting /\ \E p \in given : m.drains[p] = 0)]

\* Mutant: a port that's let go of doesn't drain.
ReleasedAtOnce(x, keep) ==
  LET gone == {p \in Ports : mem.claims[p] = x} \ keep
  IN [mem EXCEPT !.claims = [p \in Ports |-> IF p \in gone THEN NoOne ELSE @[p]], !.recent = @ \ gone]

\* portAllocator.releaseLocked, for all of x's claims but those to keep.
Released(x, keep) ==
  LET gone == {p \in Ports : mem.claims[p] = x} \ keep
  IN [mem EXCEPT
        !.claims = [p \in Ports |-> IF p \in gone THEN NoOne ELSE @[p]],
        !.recent = @ \ gone,
        !.draining = [p \in Ports |->
          IF p \in gone THEN [owner |-> x, left |-> PortDrain] ELSE @[p]]]

\* Mutant: the slices' ports only.
ExistingSlice(x, k) == cur[x][k]

Existing(x, k) == IF copy[x].routes[k] # NoPort THEN copy[x].routes[k] ELSE cur[x][k]

\* Mutant: drains aren't looked at.
Unclaimed(x, p) == mem.claims[p] \in {NoOne, x}

\* Mutant: claims aren't.
Undrained(x, p) == mem.draining[p].left = 0 \/ mem.draining[p].owner = x

\* portAllocator.free, drains that are over aside.
FreeFor(x, p) ==
  /\ mem.claims[p] \in {NoOne, x}
  /\ mem.draining[p].left = 0 \/ mem.draining[p].owner = x

\* The routes portAllocator.assign may choose: the keys are taken in turn, and
\* each keeps the port it has, if that's free and not taken by one before, or is
\* given any that is.
Choices(x) ==
  {r \in [Keys -> Ports \cup {NoPort}] :
    /\ \A k \in Keys : IF k \in keys[x] THEN r[k] # NoPort /\ FreeFor(x, r[k]) ELSE r[k] = NoPort
    /\ \E rank \in [keys[x] -> 1..Cardinality(keys[x])] :
         \A k \in keys[x] :
           LET before == {j \in keys[x] \ {k} : rank[j] <= rank[k]}
               taken == {r[j] : j \in before}
           IN /\ \A j \in before : rank[j] # rank[k]
              /\ r[k] \notin taken
              /\ Existing(x, k) # NoPort /\ FreeFor(x, Existing(x, k)) /\ Existing(x, k) \notin taken
                   => r[k] = Existing(x, k)}

\* portAllocator.assign, then the routes and drains in the reconcile's status.
\* Without a port for each key, the routing is left as it is, as it is for a
\* workload over its limits.
Assign(x) ==
  /\ pc[x] = "assign"
  /\ IF Choices(x) # {}
     THEN \E r \in Choices(x) :
            LET m == Released(x, PortsOf(r))
            IN /\ mem' = [m EXCEPT
                    !.claims = [p \in Ports |-> IF p \in PortsOf(r) THEN x ELSE @[p]],
                    !.recent = @ \cup PortsOf(r),
                    !.draining = [p \in Ports |->
                      IF p \in PortsOf(r) \/ @[p].left = 0 THEN Free ELSE @[p]]]
               /\ copy' = [copy EXCEPT ![x] = WithRoutes(@, r)]
               /\ todo' = [todo EXCEPT ![x] = keys[x] \cup {k \in Keys : cur[x][k] # NoPort}]
               /\ Goto(x, "apply")
     ELSE /\ mem' = [mem EXCEPT !.draining = [p \in Ports |-> IF @[p].left = 0 THEN Free ELSE @[p]]]
          /\ Goto(x, "write") /\ UNCHANGED <<copy, todo>>
  /\ read' = [read EXCEPT ![x] = NothingRead]
  /\ UNCHANGED <<wait, fresh, keys, cur, result, age>> /\ NoWrites

\* deleteDoormanSlices, and the error a failed one ends them with.
DeleteSlice(x, k) ==
  /\ SliceWritten(x, k, NoPort)
  /\ todo' = [todo EXCEPT ![x] = @ \ {k}] /\ UNCHANGED <<pc, result>>
DeletesFail(x) ==
  /\ Do("failSlice")
  /\ todo' = [todo EXCEPT ![x] = {}] /\ result' = [result EXCEPT ![x] = "failed"]
  /\ Goto(x, "write")
  /\ UNCHANGED <<api, caches, plan, up, doorman, lingering, mem>>

\* applyDoormanSlice, which creates or updates the slice by what the cache has of it.
ApplySlice(x, k) ==
  LET want == copy[x].routes[k]
      cached == seenSlices[x][k]
      to(r) == /\ UNCHANGED <<api, caches, world, mem>>
               /\ result' = [result EXCEPT ![x] = IF @ = "failed" THEN @ ELSE r]
  IN /\ \/ cached # want /\ cached = slices[x][k] /\ SliceWritten(x, k, want) /\ UNCHANGED result
        \/ cached = want /\ to(result[x])
        \/ cached # want /\ cached # slices[x][k]
             /\ to(IF slices[x][k] = NoPort THEN "failed" ELSE "stale")
        \/ /\ Do("failSlice") /\ UNCHANGED <<api, caches, plan, up, doorman, lingering, mem>>
           /\ result' = [result EXCEPT ![x] = "failed"]
     /\ todo' = [todo EXCEPT ![x] = @ \ {k}] /\ UNCHANGED pc

\* One slice's turn: the ones to route, then the ones to prune.
WriteSlice(x) ==
  /\ pc[x] \in {"apply", "unroute"}
  /\ \E k \in todo[x] :
       IF k \in keys[x] THEN ApplySlice(x, k)
       ELSE todo[x] \cap keys[x] = {} /\ (DeleteSlice(x, k) \/ DeletesFail(x))
  /\ UNCHANGED <<wait, copy, fresh, keys, cur, read, age>>

\* Mutant: the ports are let go of while slices still name them.
ReleaseFirst(x) ==
  /\ pc[x] = "unroute"
  /\ mem' = Released(x, {}) /\ copy' = [copy EXCEPT ![x] = WithRoutes(@, Unrouted)]
  /\ Goto(x, "write")
  /\ UNCHANGED <<wait, fresh, keys, cur, todo, read, result, age>> /\ NoWrites

\* removeDoorman, once the slices are gone.
Release(x) ==
  /\ pc[x] = "unroute" /\ todo[x] = {}
  /\ mem' = Released(x, {}) /\ copy' = [copy EXCEPT ![x] = WithRoutes(@, Unrouted)]
  /\ Goto(x, "write")
  /\ UNCHANGED <<wait, fresh, keys, cur, todo, read, result, age>> /\ NoWrites

----------------------------------------------------------------------------
(* The end of a reconcile. *)

\* How soon a reconcile whose routing went that way is repeated.  A failure is
\* waited out for 5s, 10s, 20s and so on: less than a unit, for the few in a row
\* that Budget allows.
After(x) == IF result[x] = "ok" THEN Unqueued ELSE 0

Written(x, m) ==
  /\ status' = [status EXCEPT ![x] = m] /\ seenFresh' = [seenFresh EXCEPT ![x] = m = status[x]]
  /\ UNCHANGED <<slices, seen, seenSlices, world>>

Following == [awake |-> {"awake", "paused"}, paused |-> {"paused", "resuming", "awake"},
              resuming |-> {"resuming", "awake"}]

WriteDue(x) == pc[x] = "write" \/ (pc[x] = "apply" /\ todo[x] = {})

\* The status is written, in the phase the lifecycle moves on to.
WriteStatus(x) ==
  /\ WriteDue(x) /\ ~copy[x].deleting /\ fresh[x]
  /\ \E phase \in Following[copy[x].phase] :
       Written(x, IF phase = copy[x].phase THEN copy[x]
                  ELSE [copy[x] EXCEPT !.phase = phase, !.settling = SliceSettle])
  /\ End(x, After(x)) /\ UNCHANGED mem

\* It isn't: the copy is out of date, a deletion's slices aren't gone, a resume waits
\* for pods, or the call fails.
WriteNothing(x) ==
  /\ WriteDue(x)
  /\ \/ /\ fresh[x] => IF copy[x].deleting THEN result[x] = "failed" ELSE copy[x].phase = "resuming"
        /\ NoWrites
     \/ Do("failStatus") /\ UNCHANGED <<api, caches, plan, up, doorman, lingering>>
  /\ End(x, 0) /\ UNCHANGED mem

\* reconcileDelete: the drains are waited for, in the status; then it goes.
LetGo(x) ==
  /\ WriteDue(x) /\ copy[x].deleting /\ result[x] # "failed" /\ fresh[x]
  /\ IF copy[x].drains # NoDrains
     THEN /\ Written(x, copy[x]) /\ UNCHANGED mem
          /\ \E p \in Ports : /\ \A q \in Ports : copy[x].drains[q] <= copy[x].drains[p]
                              /\ End(x, copy[x].drains[p])
     ELSE /\ Written(x, [copy[x] EXCEPT !.gone = TRUE])
          /\ mem' = Released(x, {}) /\ End(x, Unqueued)

Reconcile(x) ==
  \/ Start(x) \/ List(x) \/ Merge(x) \/ Assign(x) \/ WriteSlice(x) \/ Release(x)
  \/ WriteStatus(x) \/ WriteNothing(x) \/ LetGo(x)

----------------------------------------------------------------------------
(* The caches, and what others do. *)

Deliver(x) ==
  /\ ~seenFresh[x]
  /\ seen' = [seen EXCEPT ![x] = status[x]] /\ seenFresh' = [seenFresh EXCEPT ![x] = TRUE]
  /\ wait' = [wait EXCEPT ![x] = IF status[x].gone THEN Unqueued ELSE 0]
  /\ UNCHANGED <<api, seenSlices, world, mem, local>>

DeliverSlices(x) ==
  /\ seenSlices[x] # slices[x]
  /\ seenSlices' = [seenSlices EXCEPT ![x] = slices[x]]
  /\ UNCHANGED <<api, seen, seenFresh, world, mem, wait, local>>

\* Someone else writes the ManagedWorkload: a spec, an annotation, its deletion.
Rewritten(x, m) ==
  /\ status' = [status EXCEPT ![x] = m]
  /\ seenFresh' = [seenFresh EXCEPT ![x] = FALSE] /\ fresh' = [fresh EXCEPT ![x] = FALSE]
  /\ UNCHANGED <<slices, seen, seenSlices, plan, up, doorman, lingering, mem, wait, pc, copy,
                 keys, cur, todo, read, result, age>>
Touch(x) == Do("touch") /\ ~status[x].gone /\ Rewritten(x, status[x])
Delete(x) ==
  /\ Do("delete") /\ ~status[x].gone /\ ~status[x].deleting
  /\ Rewritten(x, [status[x] EXCEPT !.deleting = TRUE, !.drained = FALSE])

Queued(phases) ==
  wait' = [x \in Workloads |-> IF seen[x].phase \in phases /\ ~seen[x].gone THEN 0 ELSE wait[x]]

\* A Service or an Ingress changes (findPausedWorkloadsInNamespace).
Replan(x) ==
  /\ Do("plan")
  /\ \E routed \in SUBSET Keys \ {plan[x]} : plan' = [plan EXCEPT ![x] = routed]
  /\ Queued({"paused"})
  /\ UNCHANGED <<api, caches, up, doorman, lingering, mem, local>>

\* The doorman's last Ready pod goes, or its first comes (findWorkloadsForDoorman).
DoormanMoves ==
  /\ Do("up") /\ up' = ~up
  /\ Queued({"paused", "resuming"})
  /\ UNCHANGED <<api, caches, plan, doorman, lingering, mem, local>>

\* The leader dies, and the next starts with no memory and with current caches.
Crash ==
  /\ Do("crash")
  /\ mem' = NoClaims
  /\ seen' = status /\ seenFresh' = All(TRUE) /\ seenSlices' = slices
  /\ wait' = [x \in Workloads |-> IF status[x].gone THEN Unqueued ELSE 0]
  /\ pc' = All("idle") /\ copy' = All(New) /\ fresh' = All(TRUE)
  /\ keys' = All({}) /\ cur' = All(Unrouted) /\ todo' = All({}) /\ read' = All(NothingRead)
  /\ result' = All("ok") /\ age' = All(0)
  /\ UNCHANGED <<api, plan, up, doorman, lingering>>

----------------------------------------------------------------------------
(* The doorman. *)

Claims(p) == {r \in Routes : ~status[r[1]].gone /\ status[r[1]].routes[r[2]] = p}

\* Server.resolve: what was served and isn't claimed by itself drains, and counts
\* as a claim until that's over; a port with two claims is served for neither.
Resolved(d, claims) ==
  LET given == d.serves \notin {NoOne, d.drains} /\ claims # {d.serves}
      drain == IF given THEN d.serves ELSE d.drains
      time == IF given THEN RouteDrain ELSE d.left
      drains == IF time = 0 \/ claims = {drain} THEN NoOne ELSE drain
      all == claims \cup ({drains} \ {NoOne})
  IN [serves |-> IF Cardinality(all) = 1 THEN CHOOSE r \in all : TRUE ELSE NoOne,
      drains |-> drains, left |-> IF drains = NoOne THEN 0 ELSE time]

Synced == [p \in Ports |-> Resolved(doorman[p], Claims(p))]

\* Server.syncRoutes.
Sync ==
  /\ doorman # Synced /\ doorman' = Synced
  /\ UNCHANGED <<api, caches, plan, up, lingering, left, mem, wait, local>>

\* Another pod of the doorman's takes over, which knows of no drains.
DoormanRestarts ==
  /\ Do("restart")
  /\ doorman' = [p \in Ports |-> Resolved(Closed, Claims(p))]
  /\ UNCHANGED <<api, caches, plan, up, lingering, mem, wait, local>>

----------------------------------------------------------------------------
(* Time. *)

\* Mutant: what's over goes on running.
Decreased(n) == n - 1

Less(n) == IF n > 0 THEN n - 1 ELSE n
Older(m) == [m EXCEPT !.drains = [p \in Ports |-> Less(@[p])], !.settling = Less(@)]

Tick ==
  /\ \A x \in Workloads :
       /\ seenFresh[x] /\ seenSlices[x] = slices[x]
       /\ IF pc[x] = "idle" THEN wait[x] # 0 ELSE age[x] < MaxAge
  /\ doorman = Synced
  /\ status' = [x \in Workloads |-> Older(status[x])] /\ seen' = status'
  /\ copy' = [x \in Workloads |-> Older(copy[x])]
  /\ read' = [x \in Workloads |->
       [read[x] EXCEPT !.drains = [y \in Workloads |-> [p \in Ports |-> Less(@[y][p])]]]]
  /\ mem' = [mem EXCEPT
       !.draining = [p \in Ports |-> [@[p] EXCEPT !.left = Less(@)]], !.reloadIn = Less(@)]
  /\ wait' = [x \in Workloads |-> Less(wait[x])]
  /\ age' = [x \in Workloads |-> IF pc[x] = "idle" THEN 0 ELSE age[x] + 1]
  /\ doorman' = [p \in Ports |-> Resolved([doorman[p] EXCEPT !.left = Less(@)], Claims(p))]
  /\ lingering' = [p \in Ports |-> {}]
  /\ UNCHANGED <<slices, seenFresh, seenSlices, plan, up, left, pc, fresh, keys, cur, todo, result>>

Environment ==
  \/ \E x \in Workloads : Deliver(x) \/ DeliverSlices(x) \/ Touch(x) \/ Delete(x) \/ Replan(x)
  \/ DoormanMoves \/ Crash \/ Sync \/ DoormanRestarts \/ Tick

Next == Environment \/ \E x \in Workloads : Reconcile(x)

Spec == Init /\ [][Next]_vars

----------------------------------------------------------------------------
(* Properties. *)

Follow(r, p) == slices[r[1]][r[2]] = p \/ r \in lingering[p]

\* Clients of a Service that are sent to a port of the doorman's are never taken
\* for another workload's (doorman.go:404: "would deliver that traffic to the
\* wrong workload").
NoMisdelivery ==
  \A p \in Ports, r \in Routes :
    Follow(r, p) /\ doorman[p].serves # NoOne => doorman[p].serves[1] = r[1]

\* A port that's in use is taken, to the allocator, for whoever uses it: claimed, or
\* draining; and no two workloads' statuses give the same one, which the doorman would
\* serve for neither.
InUseIsTaken ==
  /\ mem.loaded => \A x \in Workloads : \A p \in PortsOf(slices[x]) \cup PortsOf(status[x].routes) :
       \/ mem.claims[p] = x
       \/ mem.draining[p].owner = x /\ mem.draining[p].left > 0
  /\ \A x, y \in Workloads :
       x # y /\ ~status[x].gone /\ ~status[y].gone
         => PortsOf(status[x].routes) \cap PortsOf(status[y].routes) = {}

\* A route keeps its port for as long as it's there.
Stays ==
  \A x \in Workloads, k \in Keys :
    NoPort \notin {status[x].routes[k], status'[x].routes[k]}
      => status'[x].routes[k] = status[x].routes[k]
PortsStay == [][Stays]_vars

\* A workload that's awake, and settled, or gone, has no slices left sending its
\* clients to the doorman.
NothingLeftBehind ==
  \A x \in Workloads :
    status[x].gone \/ (status[x].phase = "awake" /\ status[x].settling = 0 /\ seenFresh[x]
                       /\ pc[x] = "idle" /\ wait[x] = Unqueued)
      => slices[x] = Unrouted
==============================================================================
