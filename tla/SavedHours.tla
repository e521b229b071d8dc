------------------------------ MODULE SavedHours ------------------------------
(***************************************************************************)
(* What pausing one workload is counted as freeing and as saving.          *)
(*                                                                         *)
(* Its reconciles add the time since its cost was last brought up to date  *)
(* to the hours of its phase.  Beside them the leader samples what the     *)
(* cluster's nodes couldn't hold of all that is paused, and credits the    *)
(* workload its share of that, in memory, until a reconcile drains it into *)
(* the status; a write that fails then loses it.                           *)
(*                                                                         *)
(* Of CPU and memory, which are counted alike, there is one, in units of a *)
(* replica's requests.                                                     *)
(***************************************************************************)
EXTENDS Integers

CONSTANTS
  SampleInterval, StatusFlush, MaxInterval, Pricing,
  MonthStart,          \* when the second month begins
  MaxTime, Chances,    \* bound time, and what goes wrong
  Others               \* the kinds of thing that go wrong or change

Assumptions ==
  /\ {SampleInterval, StatusFlush, MaxInterval, Pricing} \subseteq Nat \ {0}
  /\ {MonthStart, MaxTime, Chances} \subseteq Nat

Never == -1
Times == Never..MaxTime
Smaller(m, n) == IF m < n THEN m ELSE n
Beyond(m, n) == IF m > n THEN m - n ELSE 0
MonthOf(t) == IF t < MonthStart THEN 0 ELSE MonthStart

\* What was last read of the target and its pods.  Requests that couldn't be read are zero.
Unread == [replicas |-> Never, requests |-> 0]
Snapshot == [replicas : 0..2, requests : 0..2] \cup {Unread}
\* In halves, which shares may be.
Requested(rs) == 2 * rs.replicas * rs.requests

Cost == [last : Times, tracked : Nat, awake : Nat, freed : Nat, saved : Nat, running : Snapshot,
         pricedAt : Times, hash : 0..2]
NoCost == [last |-> Never, tracked |-> 0, awake |-> 0, freed |-> 0, saved |-> 0, running |-> Unread,
           pricedAt |-> Never, hash |-> 0]

\* The workload's object.  "hash" stands for the pod template its activity was last read under.
Object ==
  [uid : 0..1, phase : {"Running", "Pausing", "Paused", "Resuming"}, cost : Cost, hash : 0..2,
   pausedAt : Times, resources : Snapshot]
New(uid) ==
  [uid |-> uid, phase |-> "Running", cost |-> NoCost, hash |-> 0,
   pausedAt |-> Never, resources |-> Unread]

VARIABLES
  now,
  stored, seen,       \* the object, and the operator's cache of it
  replicas, requests, \* what the target's replicas are, or will be again, and its template requests
  zero,               \* whether the target is scaled to zero
  sampledAt, credited, \* the leader's sampler
  due,                \* when it samples next
  chances,
  down, past          \* what was really paused, and what was saved in the months before

vars == <<now, stored, seen, replicas, requests, zero, sampledAt, credited, due, chances, down, past>>

TypeOK ==
  /\ now \in 0..MaxTime /\ stored \in Object /\ seen \in Object
  /\ replicas \in 1..2 /\ requests \in 1..2 /\ zero \in BOOLEAN
  /\ sampledAt \in Times /\ credited \in [0..1 -> Nat] /\ due \in Nat
  /\ chances \in 0..Chances /\ {down, past} \subseteq Nat

Init ==
  /\ now = 0 /\ stored = New(0) /\ seen = New(0) /\ replicas = 1 /\ requests = 1 /\ zero = FALSE
  /\ sampledAt = Never /\ credited = [u \in 0..1 |-> 0] /\ due = 0
  /\ chances = Chances /\ down = 0 /\ past = 0

(***************************************************************************)
(* The hours of a phase.                                                   *)
(***************************************************************************)
StartMonth(c) ==
  IF c.last = Never \/ MonthOf(c.last) = MonthOf(now) THEN c
  ELSE [NoCost EXCEPT !.running = c.running, !.pricedAt = c.pricedAt, !.hash = c.hash, !.last = MonthOf(now)]

Counted(c) == IF c.last = Never THEN 0 ELSE Smaller(now - c.last, MaxInterval)

PricingDue(w, c) ==
  \/ c.pricedAt = Never \/ now - c.pricedAt >= Pricing
  \/ w.hash # 0 /\ w.hash # c.hash

Accumulated(c) == [c EXCEPT !.tracked = @ + Counted(c), !.last = now]

AccruePaused(c, rs) == [Accumulated(c) EXCEPT !.freed = @ + Requested(rs) * Counted(c)]

\* "can" names what can be read: the target's replicas, and its pods' requests.
Running(w, c, can) ==
  [replicas |-> IF "replicas" \notin can THEN c.running.replicas ELSE IF zero THEN 0 ELSE replicas,
   requests |-> IF PricingDue(w, c) /\ "requests" \in can THEN requests ELSE c.running.requests]
AccrueAwake(w, c, can) ==
  LET running == Running(w, c, can) IN
  [Accumulated(c) EXCEPT
     !.awake = @ + Requested(running) * Counted(c), !.running = running,
     !.pricedAt = IF PricingDue(w, c) THEN now ELSE @,
     !.hash = IF PricingDue(w, c) THEN w.hash ELSE @]

\* With the replicas unreadable and never read, the interval is left for later.
Settles(w, can) == w.phase = "Paused" \/ "replicas" \in can \/ StartMonth(w.cost).running # Unread
Drained(w, can) == IF Settles(w, can) THEN credited[w.uid] ELSE 0
Settle(w, can) ==
  LET c == StartMonth(w.cost)
      hours == IF w.phase = "Paused" THEN AccruePaused(c, w.resources) ELSE AccrueAwake(w, c, can) IN
  [w EXCEPT !.cost = IF Settles(w, can) THEN [hours EXCEPT !.saved = @ + credited[w.uid]] ELSE c]

\* What is drained is forgotten, whatever comes of the write.
Drain(w, can) == credited' = [credited EXCEPT ![w.uid] = @ - Drained(w, can)]
Store(w) ==
  /\ stored' = w
  /\ past' = IF stored.cost.last # Never /\ MonthOf(w.cost.last) # MonthOf(stored.cost.last)
             THEN past + stored.cost.saved ELSE past

(***************************************************************************)
(* Each reconcile starts from the cache, and its write fails if that is    *)
(* stale, or the call does.                                                *)
(***************************************************************************)
All == {"replicas", "requests"}
Readable == IF chances > 0 /\ "unread" \in Others THEN SUBSET All ELSE {All}
Spends(can) == chances' = chances - (IF can = All THEN 0 ELSE 1)

\* The write of w, settled from the cache.
Writes(w) ==
  IF seen = stored THEN Store(w) ELSE UNCHANGED <<stored, past>>

Check(can) ==
  /\ seen.phase \in {"Running", "Paused"}
  /\ seen.cost.last = Never \/ now - seen.cost.last >= StatusFlush
  /\ LET w == IF seen.phase = "Running" THEN [seen EXCEPT !.hash = requests] ELSE seen IN
     Drain(w, can) /\ Writes(Settle(w, can))
  /\ Spends(can)
  /\ UNCHANGED <<now, seen, replicas, requests, zero, sampledAt, due, down>>

\* A reconcile whose write of what it settled fails: nothing else comes of it.
WriteFails(can) ==
  /\ chances > 0 /\ "conflict" \in Others
  /\ seen.phase # "Running" \/ seen.cost.last # now
  /\ Drain(seen, can) /\ chances' = chances - 1
  /\ UNCHANGED <<now, stored, seen, replicas, requests, zero, sampledAt, due, down, past>>

CaptureResourceSnapshot(w, can) ==
  [replicas |-> replicas, requests |-> IF "requests" \in can THEN requests ELSE w.cost.running.requests]

BeginPause(can) ==
  /\ seen.phase = "Running"
  /\ Writes([Settle(seen, can) EXCEPT !.phase = "Pausing", !.resources = CaptureResourceSnapshot(seen, can)])
  /\ Drain(seen, can) /\ Spends(can)
  /\ UNCHANGED <<now, seen, replicas, requests, zero, sampledAt, due, down>>

\* Scaled to zero, it is Paused once its pods have stopped, in this reconcile or a later one.
ScaleDown(can) ==
  /\ seen.phase = "Pausing"
  /\ zero' = TRUE
  /\ LET w == IF seen.pausedAt = Never THEN [seen EXCEPT !.pausedAt = now] ELSE seen
         read == Settle(w, can) IN
     \/ Writes([read EXCEPT !.phase = "Paused"]) /\ Drain(w, can)
     \/ seen.pausedAt = Never /\ Writes(w) /\ UNCHANGED credited
  /\ Spends(can)
  /\ UNCHANGED <<now, seen, replicas, requests, sampledAt, due, down>>

\* Written, the target is scaled up.
Resume(can) ==
  /\ seen.phase \in {"Pausing", "Paused"}
  /\ Writes([Settle(seen, can) EXCEPT !.phase = "Resuming"])
  /\ zero' = (zero /\ seen # stored)
  /\ Drain(seen, can) /\ Spends(can)
  /\ UNCHANGED <<now, seen, replicas, requests, sampledAt, due, down>>

Resumed(can) ==
  /\ seen.phase = "Resuming"
  /\ Writes([Settle(seen, can) EXCEPT !.phase = "Running", !.pausedAt = Never, !.resources = Unread])
  /\ Drain(seen, can) /\ Spends(can)
  /\ UNCHANGED <<now, seen, replicas, requests, zero, sampledAt, due, down>>

(***************************************************************************)
(* The sampler.                                                            *)
(***************************************************************************)
\* Mutant: when the workload was paused is left out.
WholeInterval(w) == Smaller(now - sampledAt, SampleInterval)

\* The interval since the last sample, or the part of it since the target was scaled to zero.
Covered(w) == Smaller(Smaller(now - sampledAt, SampleInterval), now - w.pausedAt)
Credit(w, share) ==
  [u \in 0..1 |-> IF u # w.uid THEN 0
                  ELSE credited[u] + (IF sampledAt = Never \/ share = 0 THEN 0 ELSE share * Covered(w))]

\* Its share of what the nodes can't hold is at most what it requested: Shortfall's.
Sample(halves) ==
  /\ now = due
  /\ LET held == IF seen.phase = "Paused" THEN Requested(seen.resources) ELSE 0 IN
     credited' = Credit(seen, (held * halves) \div 2)
  /\ sampledAt' = now /\ due' = now + SampleInterval
  /\ UNCHANGED <<now, stored, seen, replicas, requests, zero, chances, down, past>>

\* A list fails: the interval isn't credited.
ForgetSample ==
  /\ chances > 0 /\ "list" \in Others
  /\ now = due
  /\ sampledAt' = Never /\ due' = now + SampleInterval /\ chances' = chances - 1
  /\ UNCHANGED <<now, stored, seen, replicas, requests, zero, credited, down, past>>

(***************************************************************************)
(* Time, and the others.                                                   *)
(***************************************************************************)
\* A watch event takes less than a unit of time.
Hears ==
  /\ seen # stored /\ seen' = stored
  /\ UNCHANGED <<now, stored, replicas, requests, zero, sampledAt, credited, due, chances, down, past>>

Tick ==
  /\ now < MaxTime /\ now < due /\ seen = stored
  /\ now' = now + 1
  /\ down' = down + (IF zero THEN Requested(stored.resources) ELSE 0)
  /\ UNCHANGED <<stored, seen, replicas, requests, zero, sampledAt, credited, due, chances, past>>

Other(kind) == chances > 0 /\ kind \in Others /\ chances' = chances - 1

Deploys ==
  /\ Other("deploy") /\ requests' = 3 - requests
  /\ UNCHANGED <<now, stored, seen, replicas, zero, sampledAt, credited, due, down, past>>
Scales ==
  /\ Other("scale") /\ ~zero /\ replicas' = 3 - replicas
  /\ UNCHANGED <<now, stored, seen, requests, zero, sampledAt, credited, due, down, past>>

\* Another operator leads: it samples at once, and knows of no sample before.
Restarts ==
  /\ Other("restart")
  /\ sampledAt' = Never /\ credited' = [u \in 0..1 |-> 0] /\ due' = now
  /\ UNCHANGED <<now, stored, seen, replicas, requests, zero, down, past>>

\* The ManagedWorkload is deleted, and its target handed back; another is created for it.
Recreated ==
  /\ Other("recreate") /\ stored.uid = 0 /\ seen = stored
  /\ stored' = New(1) /\ zero' = FALSE /\ down' = 0 /\ past' = 0
  /\ UNCHANGED <<now, seen, replicas, requests, sampledAt, credited, due>>

Next ==
  \/ \E can \in Readable :
       Check(can) \/ WriteFails(can) \/ BeginPause(can) \/ ScaleDown(can) \/ Resume(can) \/ Resumed(can)
  \/ \E halves \in 0..2 : Sample(halves)
  \/ ForgetSample \/ Hears \/ Tick \/ Deploys \/ Scales \/ Restarts \/ Recreated

Spec == Init /\ [][Next]_vars

(***************************************************************************)
(* Properties.                                                             *)
(***************************************************************************)
\* Whatever fails, is late, or restarts, no hour is counted twice: a month's totals cover no more time than has
\* passed of it, and no more is freed, or saved, than the workload's replicas requested for as long as Napwake
\* kept them at zero, a month's start, another operator and a new ManagedWorkload included.
\* (startMonth, Counted, credit's intervals, Drain and transition's settling)
HoursCountedOnce ==
  LET c == stored.cost IN
  /\ c.last # Never => c.tracked <= c.last - MonthOf(c.last)
  /\ c.freed <= down
  /\ past + c.saved + credited[stored.uid] <= down

\* The docs' words for savedCPUHours: "at most the paused hours".
SavedAtMostPaused == stored.cost.saved <= stored.cost.freed
===============================================================================
