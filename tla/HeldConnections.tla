---------------------------- MODULE HeldConnections ----------------------------
(***************************************************************************)
(* The connections that one replica of the doorman holds for paused        *)
(* workloads, from accept until they're passed on or end: the places they  *)
(* take, and the endpoints they wait for, which they share, learn of from  *)
(* a cache that lags, and check against the pods themselves.               *)
(*                                                                         *)
(* A connection is first offered to the pods that are Ready; then its      *)
(* caller's first bytes decide; then it waits, going round the loop of     *)
(* heldConn.await.                                                         *)
(***************************************************************************)
EXTENDS Integers, FiniteSets, Functions

CONSTANTS
  Conns, Sources, Workloads, SourceOf, WorkloadOf,
  MaxHeld, MaxHeldPerWorkload, MaxHeldPerSource, MaxHeldPerSourceWorkload,
  MaxProxied, MaxProxiedPerSource,
  MaxBuffered, MaxBufferedPerConn,   \* in chunks past a connection's first
  SourceIdle,                        \* how long a source is remembered
  MaxTime, Chances                   \* bounds: time, and what goes wrong or changes

Assumptions ==
  /\ IsFiniteSet(Conns) /\ SourceOf \in [Conns -> Sources] /\ WorkloadOf \in [Conns -> Workloads]
  /\ {MaxHeld, MaxHeldPerWorkload, MaxHeldPerSource, MaxHeldPerSourceWorkload, MaxProxied,
      MaxProxiedPerSource, MaxBuffered, MaxBufferedPerConn, SourceIdle, MaxTime, Chances} \subseteq Nat

VARIABLES
  hour,
  up, stored, event,   \* a workload's pod: whether it's up, the cached slice has it, and its event is due
  routes,              \* whether the doorman's port is routed, drains, or is gone
  set, listed,         \* the endpoints shared for it, Ready or not, and whether they're current
  known,               \* what was read of its pod
  step, drained,       \* a connection's step; whether it last saw its route draining
  got, open, failing,  \* the endpoints it got, the channel that comes with them, and what failed
  passedAt,            \* when it was passed on
  counted,             \* the chunks it has buffered
  held, byWorkload, proxied, buffered, source,   \* admission
  woke,                \* the sources with wakes not yet refilled
  chances

world == <<hour, up, stored, event, routes, set, listed, known>>
place == <<held, byWorkload, proxied, buffered, source, counted, woke>>
local == <<step, drained, got, open, failing, passedAt>>
vars == <<world, place, local, chances>>

\* Waiting is the loop of await; Holding has a held place, and Proxying a proxied one.
Waiting == {"route", "look", "looked", "dialling", "pause", "select"}
Holding == {"offer", "offered", "offering", "head", "leaving"} \cup Waiting
Proxying == {"offering", "dialling", "passed", "proxied"}
Steps == {"new", "ended"} \cup Holding \cup Proxying
Failures == {"wake", "dial", "list"}

SourceState == [held : Nat, proxied : Nat, byWorkload : [Workloads -> Nat], seen : 0..MaxTime]
Forgotten == [held |-> 0, proxied |-> 0, byWorkload |-> [w \in Workloads |-> 0], seen |-> -1]

TypeOK ==
  /\ hour \in 0..MaxTime /\ chances \in 0..Chances
  /\ {up, stored, event, set, listed} \subseteq [Workloads -> BOOLEAN]
  /\ routes \in [Workloads -> {"routed", "draining", "gone"}]
  /\ known \in [Workloads -> {"unknown", "has", "lacks"}]
  /\ step \in [Conns -> Steps] /\ {drained, got, open} \subseteq [Conns -> BOOLEAN]
  /\ failing \in [Conns -> SUBSET Failures] /\ passedAt \in [Conns -> 0..MaxTime]
  /\ counted \in [Conns -> 0..MaxBufferedPerConn]
  /\ held \in 0..MaxHeld /\ proxied \in 0..MaxProxied /\ buffered \in 0..MaxBuffered
  /\ byWorkload \in [Workloads -> 0..MaxHeldPerWorkload]
  /\ source \in [Sources -> SourceState \cup {Forgotten}] /\ woke \subseteq Sources

Init ==
  /\ hour = 0 /\ chances = Chances
  /\ up = [w \in Workloads |-> FALSE] /\ stored = up /\ event = up /\ set = up /\ listed = up
  /\ routes = [w \in Workloads |-> "routed"] /\ known = [w \in Workloads |-> "unknown"]
  /\ step = [c \in Conns |-> "new"] /\ failing = [c \in Conns |-> {}]
  /\ drained = [c \in Conns |-> FALSE] /\ got = drained /\ open = drained
  /\ counted = [c \in Conns |-> 0] /\ passedAt = counted
  /\ held = 0 /\ byWorkload = [w \in Workloads |-> 0] /\ proxied = 0 /\ buffered = 0
  /\ source = [s \in Sources |-> Forgotten] /\ woke = {}

----------------------------------------------------------------------------
(* Admission. *)

\* A source is seen whenever it's counted.
Source(s) == [source[s] EXCEPT !.seen = hour]

Room(s, w) ==
  /\ held < MaxHeld /\ byWorkload[w] < MaxHeldPerWorkload
  /\ source[s].held < MaxHeldPerSource /\ source[s].byWorkload[w] < MaxHeldPerSourceWorkload

\* allowWake, and refusals, count nothing.
See(s) ==
  /\ source' = [source EXCEPT ![s] = Source(s)]
  /\ UNCHANGED <<held, byWorkload, proxied, buffered, counted>>

\* hold and release
Counts(s, w, n) ==
  /\ held' = held + n /\ byWorkload' = [byWorkload EXCEPT ![w] = @ + n]
  /\ source' = [source EXCEPT ![s] =
       [Source(s) EXCEPT !.held = @ + n, !.byWorkload[w] = @ + n]]
Hold(s, w, n) == Counts(s, w, n) /\ UNCHANGED <<proxied, buffered, counted>>
Release(c, s, w) ==
  /\ Counts(s, w, -1)
  /\ buffered' = buffered - counted[c] /\ counted' = [counted EXCEPT ![c] = 0]
  /\ UNCHANGED proxied

CanProxy(s) == proxied < MaxProxied /\ source[s].proxied < MaxProxiedPerSource

\* proxy and unproxy
Proxy(s, n) ==
  /\ proxied' = proxied + n
  /\ source' = [source EXCEPT ![s] = [Source(s) EXCEPT !.proxied = @ + n]]
  /\ UNCHANGED <<held, byWorkload, buffered, counted>>

\* Mutant: one that's still passed through is forgotten too.
IdleUnheld(s) == source[s].held = 0
Idle(s) == source[s].held = 0 /\ source[s].proxied = 0
Prune(s) ==
  /\ source[s] # Forgotten /\ Idle(s) /\ hour - source[s].seen > SourceIdle
  /\ source' = [source EXCEPT ![s] = Forgotten]
  /\ UNCHANGED <<world, local, held, byWorkload, proxied, buffered, counted, woke, chances>>

----------------------------------------------------------------------------
(* The endpoints. *)

On(w) == {c \in Conns : WorkloadOf[c] = w}

\* Mutant: those who wait are woken to what they had.
WakesOnly(W) ==
  open' = [c \in Conns |-> open[c] /\ WorkloadOf[c] \notin W] /\ UNCHANGED listed
\* backends.changed, changedAll: whoever holds the channel hears of it.
Invalidate(W) ==
  /\ listed' = [w \in Workloads |-> listed[w] /\ w \notin W]
  /\ open' = [c \in Conns |-> open[c] /\ WorkloadOf[c] \notin W]

\* isPod: a pod without the address isn't read again too soon.
HasAddress(w) == IF known[w] = "unknown" THEN up[w] ELSE known[w] = "has"

\* backends.get, for a connection: from the pods the cached slices name, or what's shared.
Get(c) ==
  LET w == WorkloadOf[c]
      ready == IF listed[w] THEN set[w] ELSE stored[w] /\ HasAddress(w)
      reads == ~listed[w] /\ stored[w] /\ known[w] = "unknown"
  IN
  /\ open' = [open EXCEPT ![c] = TRUE]
  /\ \/ /\ set' = [set EXCEPT ![w] = ready] /\ listed' = [listed EXCEPT ![w] = TRUE]
        /\ known' = IF reads THEN [known EXCEPT ![w] = IF up[w] THEN "has" ELSE "lacks"] ELSE known
        /\ got' = [got EXCEPT ![c] = ready]
        /\ failing' = [failing EXCEPT ![c] = @ \ {"list"}]
        /\ UNCHANGED chances
     \/ /\ reads /\ chances > 0 /\ chances' = chances - 1
        /\ got' = [got EXCEPT ![c] = FALSE] /\ failing' = [failing EXCEPT ![c] = @ \cup {"list"}]
        /\ UNCHANGED <<set, listed, known>>

\* A pod comes up, or goes.
PodChanges(w) ==
  /\ up[w] => chances > 0
  /\ chances' = IF up[w] THEN chances - 1 ELSE chances
  /\ up' = [up EXCEPT ![w] = ~@]
  /\ UNCHANGED <<hour, stored, event, routes, set, listed, known, place, local>>

\* The cache stores its slice, and then says so (watchEndpoints).
Stores(w) ==
  /\ stored[w] # up[w] /\ stored' = [stored EXCEPT ![w] = up[w]]
  /\ event' = [event EXCEPT ![w] = TRUE]
  /\ UNCHANGED <<hour, up, routes, set, listed, known, place, local, chances>>
Hears(w) ==
  /\ event[w] /\ event' = [event EXCEPT ![w] = FALSE] /\ Invalidate({w})
  /\ UNCHANGED <<hour, up, stored, routes, set, known, place, step, drained, got, failing, passedAt, chances>>

\* What was read of its pod may be read again.
Recheck(w) ==
  /\ known[w] # "unknown" /\ known' = [known EXCEPT ![w] = "unknown"]
  /\ UNCHANGED <<hour, up, stored, event, routes, set, listed, place, local, chances>>

\* changedAll, every resyncEvery.
Poll ==
  /\ Invalidate(Workloads)
  /\ UNCHANGED <<hour, up, stored, event, routes, set, known, place, step, drained, got, failing, passedAt, chances>>

\* syncRoutes: a route drains, and is gone once it has.
Drains(w) ==
  /\ \/ routes[w] = "routed" /\ routes' = [routes EXCEPT ![w] = "draining"]
     \/ routes[w] = "draining" /\ routes' = [routes EXCEPT ![w] = "gone"]
  /\ Invalidate({w})
  /\ UNCHANGED <<hour, up, stored, event, set, known, place, step, drained, got, failing, passedAt, chances>>

\* It's wanted again before then.
RoutedAgain(w) ==
  /\ routes[w] = "draining" /\ chances > 0 /\ chances' = chances - 1
  /\ routes' = [routes EXCEPT ![w] = "routed"]
  /\ UNCHANGED <<hour, up, stored, event, set, listed, known, place, local>>

----------------------------------------------------------------------------
(* A connection. *)

Goto(c, s) == step' = [step EXCEPT ![c] = s]
Fails(c, gone, now) == failing' = [failing EXCEPT ![c] = (@ \ gone) \cup now]

\* What it learnt, nothing reads now.
Forgets(c) ==
  /\ drained' = [drained EXCEPT ![c] = FALSE] /\ got' = [got EXCEPT ![c] = FALSE]
  /\ open' = [open EXCEPT ![c] = FALSE] /\ failing' = [failing EXCEPT ![c] = {}]
  /\ passedAt' = [passedAt EXCEPT ![c] = 0]

\* handle: it's held, unless a cap is reached.
Accept(c) ==
  LET s == SourceOf[c] w == WorkloadOf[c] IN
  /\ step[c] = "new" /\ routes[w] # "gone"
  /\ drained' = [drained EXCEPT ![c] = Room(s, w) /\ routes[w] = "draining"]
  /\ IF Room(s, w) THEN Hold(s, w, 1) /\ Goto(c, "offer") ELSE See(s) /\ Goto(c, "ended")
  /\ UNCHANGED <<world, got, open, failing, passedAt, woke, chances>>

\* It ends, and gives back what it holds (handle's deferred calls).
Leave(c) ==
  /\ step[c] = "leaving"
  /\ Goto(c, "ended") /\ Forgets(c)
  /\ Release(c, SourceOf[c], WorkloadOf[c])
  /\ UNCHANGED <<world, woke, chances>>

\* backends.get: at once, for one just accepted (hold, passThrough), or in the loop.
Look(c) ==
  /\ step[c] \in {"offer", "look"} /\ Get(c)
  /\ Goto(c, IF step[c] = "offer" THEN "offered" ELSE "looked")
  /\ UNCHANGED <<hour, up, stored, event, routes, place, drained, passedAt>>

\* Where it goes when no pod takes it: on a route that drains, it's refused.
Otherwise(c, first) ==
  IF first THEN (IF drained[c] THEN "leaving" ELSE "head") ELSE "pause"

\* With endpoints, it takes a proxied place to dial with, if there's one.
Dial(c) ==
  LET first == step[c] = "offered"  s == SourceOf[c] IN
  /\ step[c] \in {"offered", "looked"} /\ got[c]
  /\ IF CanProxy(s)
     THEN Proxy(s, 1) /\ Goto(c, IF first THEN "offering" ELSE "dialling") /\ UNCHANGED failing
     ELSE /\ See(s) /\ Goto(c, Otherwise(c, first))
          /\ IF first THEN UNCHANGED failing ELSE Fails(c, {}, {"dial"})
  /\ UNCHANGED <<world, drained, got, open, passedAt, woke, chances>>

\* With none, it waits for some, unless the route drains.
NoneReady(c) ==
  /\ step[c] \in {"offered", "looked"} /\ ~got[c]
  /\ Goto(c, IF step[c] = "looked" /\ drained[c] /\ "list" \notin failing[c] THEN "leaving"
             ELSE Otherwise(c, step[c] = "offered"))
  /\ UNCHANGED <<world, place, drained, got, open, failing, passedAt, chances>>

\* It's passed on, and gives its held place back.
PassedOn(c) ==
  LET s == SourceOf[c] w == WorkloadOf[c] IN
  /\ step[c] \in {"offering", "dialling"} /\ up[w]
  /\ Goto(c, IF step[c] = "offering" THEN "proxied" ELSE "passed")
  /\ Hold(s, w, -1)
  /\ drained' = [drained EXCEPT ![c] = FALSE] /\ got' = [got EXCEPT ![c] = FALSE]
  /\ open' = [open EXCEPT ![c] = FALSE] /\ failing' = [failing EXCEPT ![c] = {}]
  /\ passedAt' = [passedAt EXCEPT ![c] = hour]
  /\ UNCHANGED <<world, woke, chances>>

\* Mutant: the place taken for a dial that failed is kept.
KeepsPlace(s) == See(s)
GivesBack(s) == Proxy(s, -1)
DialFails(c) ==
  LET first == step[c] = "offering" IN
  /\ step[c] \in {"offering", "dialling"} /\ ~up[WorkloadOf[c]]
  /\ GivesBack(SourceOf[c]) /\ Goto(c, Otherwise(c, first))
  /\ IF first THEN UNCHANGED failing ELSE Fails(c, {}, {"dial"})
  /\ UNCHANGED <<world, drained, got, open, passedAt, woke, chances>>

\* requestWake: the source's allowance is spent on it, or it fails.
Wakes(c, fails) ==
  IF fails THEN UNCHANGED woke ELSE woke' = woke \cup {SourceOf[c]}

\* The caller's first bytes decide: it's answered, with a wake if it's shown the page, or waits.
Head(c) ==
  /\ step[c] = "head" /\ See(SourceOf[c])
  /\ \/ /\ Goto(c, "leaving") /\ \E fails \in BOOLEAN : Wakes(c, fails)
        /\ UNCHANGED <<failing, chances>>
     \/ /\ Goto(c, "route")
        /\ \/ Fails(c, Failures, {}) /\ Wakes(c, FALSE) /\ UNCHANGED chances
           \/ /\ chances > 0 /\ chances' = chances - 1
              /\ Fails(c, Failures, {"wake"}) /\ Wakes(c, TRUE)
  /\ UNCHANGED <<world, drained, got, open, passedAt>>

\* currentRoute
Route(c) ==
  /\ step[c] = "route" /\ Goto(c, "look")
  /\ drained' = [drained EXCEPT ![c] = routes[WorkloadOf[c]] # "routed"]
  /\ UNCHANGED <<world, place, got, open, failing, passedAt, chances>>

\* A wake that failed is asked for again, in time.
Pause(c) ==
  /\ step[c] = "pause" /\ Goto(c, "select")
  /\ \/ UNCHANGED <<failing, woke, source>>
     \/ /\ "wake" \in failing[c] /\ ~drained[c]
        /\ Fails(c, {"wake"}, {}) /\ Wakes(c, FALSE) /\ See(SourceOf[c])
  /\ UNCHANGED <<world, held, byWorkload, proxied, buffered, counted, drained, got, open, passedAt, chances>>

\* It goes round again, once the endpoints may have changed, or after a while if anything failed.
Again(c) ==
  /\ step[c] = "select" /\ (~open[c] \/ failing[c] # {}) /\ Goto(c, "route")
  /\ UNCHANGED <<world, place, drained, got, open, failing, passedAt, chances>>

\* Its caller leaves, or maxWait runs out.
GivesUp(c) ==
  /\ step[c] = "select" /\ Goto(c, "leaving")
  /\ UNCHANGED <<world, place, drained, got, open, failing, passedAt, chances>>

\* What its caller sends meanwhile is buffered (room), until it's read to be passed on (passedOn).
Buffer(c) ==
  /\ step[c] \in Waiting \cup {"passed"}
  /\ counted[c] < MaxBufferedPerConn /\ buffered < MaxBuffered
  /\ counted' = [counted EXCEPT ![c] = @ + 1] /\ buffered' = buffered + 1
  /\ UNCHANGED <<world, local, held, byWorkload, proxied, source, woke, chances>>
ReadOn(c) ==
  /\ step[c] = "passed" /\ Goto(c, "proxied")
  /\ counted' = [counted EXCEPT ![c] = 0] /\ buffered' = buffered - counted[c]
  /\ UNCHANGED <<world, held, byWorkload, proxied, source, drained, got, open, failing, passedAt, woke, chances>>

\* It's over: its place is given back as of when it was passed on.
Closes(c) ==
  /\ step[c] \in {"passed", "proxied"} /\ Goto(c, "ended") /\ Forgets(c)
  /\ proxied' = proxied - 1
  /\ source' = [source EXCEPT ![SourceOf[c]] =
       [source[SourceOf[c]] EXCEPT !.proxied = @ - 1, !.seen = passedAt[c]]]
  /\ counted' = [counted EXCEPT ![c] = 0] /\ buffered' = buffered - counted[c]
  /\ UNCHANGED <<world, held, byWorkload, woke, chances>>

\* An hour goes by, and the allowances have refilled.
Tick ==
  /\ hour < MaxTime /\ hour' = hour + 1 /\ woke' = {}
  /\ UNCHANGED <<up, stored, event, routes, set, listed, known, local, held, byWorkload, proxied,
                 buffered, counted, source, chances>>

Handles(c) ==
  \/ Leave(c) \/ Look(c) \/ Dial(c) \/ NoneReady(c) \/ PassedOn(c) \/ DialFails(c)
  \/ Head(c) \/ Route(c) \/ Pause(c) \/ Again(c)

Next ==
  \/ \E c \in Conns : Accept(c) \/ Handles(c) \/ GivesUp(c) \/ Buffer(c) \/ ReadOn(c) \/ Closes(c)
  \/ \E w \in Workloads :
       PodChanges(w) \/ Stores(w) \/ Hears(w) \/ Recheck(w) \/ Drains(w) \/ RoutedAgain(w)
  \/ \E s \in Sources : Prune(s)
  \/ Poll \/ Tick

Spec == Init /\ [][Next]_vars

\* Goroutines run, the cache catches up, what was read of a pod expires, and the polls go on.
Fairness ==
  /\ \A c \in Conns : WF_vars(Handles(c))
  /\ \A w \in Workloads : WF_vars(Stores(w)) /\ WF_vars(Recheck(w))
  /\ WF_vars(Poll)
FairSpec == Spec /\ Fairness

----------------------------------------------------------------------------

With(steps, C) == Cardinality({c \in C : step[c] \in steps})
From(s) == {c \in Conns : SourceOf[c] = s}

\* Every place taken is some connection's, and given back whichever way it ends: the
\* counts are those of the connections held, or passed on, or dialling, although sources
\* are forgotten and seen again between (limits.go:153 and limits.go:182).
PlacesReturned ==
  /\ held = With(Holding, Conns) /\ proxied = With(Proxying, Conns)
  /\ \A w \in Workloads : byWorkload[w] = With(Holding, On(w))
  /\ \A s \in Sources :
       /\ source[s].held = With(Holding, From(s)) /\ source[s].proxied = With(Proxying, From(s))
       /\ \A w \in Workloads : source[s].byWorkload[w] = With(Holding, From(s) \cap On(w))
  /\ buffered = FoldFunction(+, 0, counted)

\* It waits for what has come: its pod is Ready, with room for it, or its route has gone
\* with none Ready.
Left(c) ==
  LET w == WorkloadOf[c] IN
  step[c] \in Waiting /\ IF up[w] THEN CanProxy(SourceOf[c]) ELSE routes[w] # "routed"

\* No connection waits for what has come: however the events, the cached slices, the
\* reads of pods, the drains and the failed dials fall, it's passed on or refused, rather
\* than held until maxWait (conn.go:236).
NoneLeftWaiting == \A c \in Conns : Left(c) ~> ~Left(c)

\* A source isn't forgotten while its allowance of wakes is still spent (limits.go:89: "Its
\* wake allowance has long refilled by then").
ForgottenRefilled ==
  [][\A s \in Sources : source[s] # Forgotten /\ source'[s] = Forgotten => s \notin woke]_vars
================================================================================
