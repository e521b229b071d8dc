------------------------------ MODULE DoormanWake ------------------------------
(***************************************************************************)
(* How the doorman wakes one paused workload: connections held by several  *)
(* of its replicas stamp the workload's last-request annotation, and the   *)
(* operator takes a stamp that differs from the one its pause recorded as  *)
(* a wake.                                                                 *)
(*                                                                         *)
(* The connections of a replica share one stamp in flight.  Replicas don't *)
(* know of each other: each reads the workload from a cache that lags, and *)
(* writes it at the version it read, twice; the third write is for any     *)
(* version.  The operator, and whoever else stamps the workload, write it  *)
(* in between.                                                             *)
(*                                                                         *)
(* Time is in seconds.                                                     *)
(***************************************************************************)
EXTENDS Integers, FiniteSets

CONSTANTS
  Conns, Replicas, Sources,
  ReplicaOf, SourceOf,   \* the replica that holds a connection, and where it's from
  NoConn,                \* none of Conns
  Asks,                  \* whether the workload wakes only for a click
  StampAttempts,         \* how often a stamp is written (3)
  StampInterval,         \* how long a replica trusts a stamp it made (10)
  ClickInterval,         \* how long after a stamp a click makes no other (60)
  SourceBurst, Burst,    \* the wakes a source may start, and all of them
  MaxTime, Budget,       \* bounds: how long the model runs, and what others do
  Externals              \* the kinds of thing they do

ASSUME ConnsAssumption ==
  /\ NoConn \notin Conns
  /\ ReplicaOf \in [Conns -> Replicas] /\ SourceOf \in [Conns -> Sources]
ASSUME LimitsAssumption ==
  /\ StampAttempts \in Nat \ {0} /\ StampInterval \in Nat /\ ClickInterval \in Nat
  /\ SourceBurst \in Nat \ {0} /\ Burst \in Nat \ {0}
  /\ MaxTime \in Nat /\ Budget \in Nat /\ Asks \in BOOLEAN

Times == 0..MaxTime
Before == -1

\* A last-request value: a time to the second, or to the nanosecond, which only
\* the connection that made it could have written in that second.
Values == [second : Times \cup {Before}, nano : Conns \cup {NoConn}]
Unset == [second |-> Before, nano |-> NoConn]

\* The ManagedWorkload: when its last pause began, the value that recorded, and the
\* one it carries.
Phases == {"running", "pausing", "paused", "resuming"}
Workload == [phase : Phases, pausedAt : Times, recorded : Values, stamp : Values]
Asleep == [phase |-> "paused", pausedAt |-> 0, recorded |-> Unset, stamp |-> Unset]

\* A replica's record of the last stamp it made; and what a stamp came to, with
\* the source of whoever made it.
StampRecord == [pausedAt : Times \cup {Before}, at : Times]
NoStamp == [pausedAt |-> Before, at |-> 0]
Results == {"ok", "limited", "clicked", "failed"}
Call == [result : Results, source : Sources, pause : Times \cup {Before}]

VARIABLES
  now, mw,
  seen, seenFresh,   \* each replica's cached copy, and whether it's of the current version
  calls,             \* each replica's stamp in flight: whose it is, or NoConn
  stamped,           \* its record of its last stamp
  used,              \* the allowance its sources have used
  pc,
  copy, fresh,       \* the copy a connection's stamp works from
  began, attempt,    \* when it began, and its attempts so far
  call,              \* what the stamp a connection waited on came to
  announced,         \* how often the wake on its way, or the last, was announced
  left               \* what's left of Budget

replicas == <<seen, seenFresh, stamped, used>>
local == <<copy, fresh, began, attempt, call>>
vars == <<now, mw, replicas, calls, pc, local, announced, left>>

\* A connection is "new", then has asked for a wake, and ends "woken", its workload
\* on its way, or "gone"; "held" is one whose wake failed and is yet to be retried.
Steps == {"new", "asking", "waiting", "heard", "look", "patch", "reread", "finish",
          "held", "woken", "gone"}

NoCall == [result |-> "ok", source |-> CHOOSE s \in Sources : TRUE, pause |-> Before]

TypeOK ==
  /\ now \in Times /\ mw \in Workload
  /\ seen \in [Replicas -> Workload] /\ seenFresh \in [Replicas -> BOOLEAN]
  /\ calls \in [Replicas -> Conns \cup {NoConn}]
  /\ stamped \in [Replicas -> StampRecord]
  /\ used \in [Replicas -> [Sources -> 0..SourceBurst]]
  /\ pc \in [Conns -> Steps]
  /\ copy \in [Conns -> Workload] /\ fresh \in [Conns -> BOOLEAN]
  /\ began \in [Conns -> Times] /\ attempt \in [Conns -> 0..StampAttempts]
  /\ call \in [Conns -> Call]
  /\ announced \in 0..Cardinality(Conns) /\ left \in 0..Budget

Init ==
  /\ now = 0 /\ mw = Asleep
  /\ seen = [r \in Replicas |-> Asleep] /\ seenFresh = [r \in Replicas |-> TRUE]
  /\ calls = [r \in Replicas |-> NoConn]
  /\ stamped = [r \in Replicas |-> NoStamp]
  /\ used = [r \in Replicas |-> [s \in Sources |-> 0]]
  /\ pc = [c \in Conns |-> "new"]
  /\ copy = [c \in Conns |-> Asleep] /\ fresh = [c \in Conns |-> FALSE]
  /\ began = [c \in Conns |-> 0] /\ attempt = [c \in Conns |-> 0]
  /\ call = [c \in Conns |-> NoCall]
  /\ announced = 0 /\ left = Budget

----------------------------------------------------------------------------
(* The workload. *)

\* needsWake.  (Every pause records the value it finds.)
NeedsWake(w) == w.phase = "paused" /\ (w.stamp = Unset \/ w.stamp = w.recorded)

\* Mutant: the value is always to the second.
PlainValue(w, time, c) == [second |-> time, nano |-> NoConn]
\* setStamp: the value made at that time, for that connection.
NewValue(w, time, c) ==
  LET plain == [second |-> time, nano |-> NoConn]
  IN IF plain \in {w.stamp, w.recorded} THEN [plain EXCEPT !.nano = c] ELSE plain

\* A write of the ManagedWorkload, announced that often: every copy of it is of an
\* older version now.
Write(w, announcements) ==
  /\ mw' = w
  /\ seenFresh' = [r \in Replicas |-> FALSE] /\ fresh' = [c \in Conns |-> FALSE]
  /\ announced' = IF NeedsWake(w) THEN 0 ELSE announced + announcements

Goto(c, step) == pc' = [pc EXCEPT ![c] = step]

\* Those connections are over.
Forgets(S) ==
  /\ copy' = [c \in Conns |-> IF c \in S THEN Asleep ELSE copy[c]]
  /\ fresh' = [c \in Conns |-> c \notin S /\ fresh[c]]
  /\ began' = [c \in Conns |-> IF c \in S THEN 0 ELSE began[c]]
  /\ attempt' = [c \in Conns |-> IF c \in S THEN 0 ELSE attempt[c]]
  /\ call' = [c \in Conns |-> IF c \in S THEN NoCall ELSE call[c]]

\* What others may do, or make fail, within Budget.
Do(kind) == kind \in Externals /\ left > 0 /\ left' = left - 1

----------------------------------------------------------------------------
(* A connection's wake: requestWake and stamp. *)

\* Under the server's lock: it makes the stamp, or waits for the one in flight.
Ask(c) ==
  /\ pc[c] \in {"new", "asking"}
  /\ IF calls[ReplicaOf[c]] = NoConn
     THEN calls' = [calls EXCEPT ![ReplicaOf[c]] = c] /\ Goto(c, "look")
     ELSE Goto(c, "waiting") /\ UNCHANGED calls
  /\ UNCHANGED <<now, mw, replicas, local, announced, left>>

\* The stamp comes to that, for the connection that makes it.
Came(c, result, pause) ==
  /\ call' = [call EXCEPT ![c] = [result |-> result, source |-> SourceOf[c], pause |-> pause]]
  /\ Goto(c, "finish")

PauseOf(w) == IF w.phase = "paused" THEN w.pausedAt ELSE Before

Trusted(r, w) == stamped[r].pausedAt = w.pausedAt /\ now - stamped[r].at < StampInterval

Spent(r) == Cardinality({u \in Sources \X (1..SourceBurst) : u[2] <= used[r][u[1]]})
Allowed(r, s) == used[r][s] < SourceBurst /\ Spent(r) < Burst

\* The cached workload is looked at, and the allowances.
Look(c) ==
  LET r == ReplicaOf[c]
      w == seen[r]
  IN
  /\ pc[c] = "look"
  /\ began' = [began EXCEPT ![c] = now]
  /\ \/ (~NeedsWake(w) \/ Trusted(r, w)) /\ Came(c, "ok", PauseOf(w))
        /\ UNCHANGED <<copy, fresh, attempt, used>>
     \/ /\ NeedsWake(w) /\ ~Trusted(r, w)
        /\ IF Asks /\ w.stamp # Unset /\ now - w.stamp.second < ClickInterval
           THEN Came(c, "clicked", PauseOf(w)) /\ UNCHANGED <<copy, fresh, attempt, used>>
           ELSE IF ~Allowed(r, SourceOf[c])
           THEN Came(c, "limited", PauseOf(w)) /\ UNCHANGED <<copy, fresh, attempt, used>>
           ELSE /\ used' = [used EXCEPT ![r][SourceOf[c]] = @ + 1]
                /\ copy' = [copy EXCEPT ![c] = w] /\ fresh' = [fresh EXCEPT ![c] = seenFresh[r]]
                /\ attempt' = [attempt EXCEPT ![c] = 1]
                /\ call' = [call EXCEPT ![c].pause = w.pausedAt]
                /\ Goto(c, "patch")
  /\ UNCHANGED <<now, mw, seen, seenFresh, calls, stamped, announced, left>>

\* Mutant: one write too many is locked.
LockedOnceMore(n) == n <= StampAttempts
\* The last write is for any version.
Locked(n) == n < StampAttempts

\* Mutant: every write is announced.
EveryWrite(n) == TRUE
Announced(n) == Locked(n)

\* Mutant: the record is made whatever comes of the stamp.
RecordedAlways(r, c, ok) ==
  [stamped EXCEPT ![r] = [pausedAt |-> call[c].pause, at |-> began[c]]]

\* The replica's record, once patchStamp is done, of the pause it was called for.
Recorded(r, c, ok) ==
  IF ok THEN [stamped EXCEPT ![r] = [pausedAt |-> call[c].pause, at |-> began[c]]]
  ELSE stamped

\* patchStamp's write: one that lands is recorded, and announced if it was locked.
\* A locked one lands only on the version it was made from.
Patch(c) ==
  LET r == ReplicaOf[c]
      value == NewValue(copy[c], began[c], c)
      lands(n) == Write([mw EXCEPT !.stamp = value], n)
  IN
  /\ pc[c] = "patch"
  /\ \/ /\ fresh[c] \/ ~Locked(attempt[c])
        /\ lands(IF Announced(attempt[c]) THEN 1 ELSE 0)
        /\ stamped' = Recorded(r, c, TRUE)
        /\ Came(c, "ok", PauseOf(copy[c])) /\ UNCHANGED left
     \/ /\ ~fresh[c] /\ Locked(attempt[c])
        /\ Goto(c, "reread") /\ UNCHANGED <<mw, seenFresh, fresh, announced, stamped, call, left>>
     \/ /\ Do("fail")                      \* the call fails
        /\ stamped' = Recorded(r, c, FALSE)
        /\ Came(c, "failed", Before) /\ UNCHANGED <<mw, seenFresh, fresh, announced>>
     \/ /\ Do("unheard") /\ (fresh[c] \/ ~Locked(attempt[c]))
        /\ lands(0)                        \* it lands, and its answer is lost
        /\ stamped' = Recorded(r, c, FALSE)
        /\ Came(c, "failed", Before)
  /\ UNCHANGED <<now, seen, used, calls, copy, began, attempt>>

\* After a conflict, the cached workload is read again.
Reread(c) ==
  LET r == ReplicaOf[c] IN
  /\ pc[c] = "reread"
  /\ IF NeedsWake(seen[r])
     THEN /\ copy' = [copy EXCEPT ![c] = seen[r]] /\ fresh' = [fresh EXCEPT ![c] = seenFresh[r]]
          /\ attempt' = [attempt EXCEPT ![c] = @ + 1]
          /\ Goto(c, "patch") /\ UNCHANGED <<call, stamped>>
     ELSE /\ stamped' = Recorded(r, c, TRUE)
          /\ Came(c, "ok", PauseOf(seen[r])) /\ UNCHANGED <<copy, fresh, attempt>>
  /\ UNCHANGED <<now, mw, seen, seenFresh, used, calls, began, announced, left>>

After(result) == IF result = "ok" THEN "woken" ELSE "held"

Waiting(r) == {c \in Conns : ReplicaOf[c] = r /\ pc[c] = "waiting"}

\* Mutant: the stamp stays in flight.
StillInFlight(r) == calls
Landed(r) == [calls EXCEPT ![r] = NoConn]

\* The stamp is over, for everyone who waits on it.
Finish(c) ==
  LET r == ReplicaOf[c] IN
  /\ pc[c] = "finish"
  /\ calls' = Landed(r)
  /\ call' = [d \in Conns |-> IF d \in Waiting(r) THEN call[c] ELSE call[d]]
  /\ pc' = [d \in Conns |->
       IF d = c THEN After(call[c].result) ELSE IF d \in Waiting(r) THEN "heard" ELSE pc[d]]
  /\ copy' = [copy EXCEPT ![c] = Asleep] /\ fresh' = [fresh EXCEPT ![c] = FALSE]
  /\ attempt' = [attempt EXCEPT ![c] = 0]
  /\ began' = [began EXCEPT ![c] = IF call[c].result = "ok" THEN 0 ELSE @]
  /\ UNCHANGED <<now, mw, replicas, announced, left>>

\* Mutant: a limit's a limit.
AnyLimit(c) == FALSE
\* Another source's limit says nothing of this one's.
OthersLimit(c) == call[c].result = "limited" /\ call[c].source # SourceOf[c]

Hear(c) ==
  /\ pc[c] = "heard"
  /\ Goto(c, IF OthersLimit(c) THEN "asking" ELSE After(call[c].result))
  /\ began' = [began EXCEPT ![c] = IF call[c].result = "ok" THEN 0 ELSE now]
  /\ UNCHANGED <<now, mw, replicas, calls, copy, fresh, attempt, call, announced, left>>

\* A held connection whose wake failed asks again, later; a click's doesn't.
Retry(c) ==
  /\ pc[c] = "held" /\ ~Asks /\ now > began[c] /\ Goto(c, "asking")
  /\ UNCHANGED <<now, mw, replicas, calls, local, announced, left>>

\* The caller leaves, or is out of time.  Whoever makes a stamp goes on with it.
Leave(c) ==
  /\ pc[c] \in {"waiting", "held"} /\ Goto(c, "gone") /\ Forgets({c})
  /\ UNCHANGED <<now, mw, replicas, calls, announced, left>>

Wake(c) == Ask(c) \/ Look(c) \/ Patch(c) \/ Reread(c) \/ Finish(c) \/ Hear(c)

----------------------------------------------------------------------------
(* The operator, and everyone else. *)

Others == UNCHANGED <<now, seen, stamped, used, calls, pc, copy, began, attempt, call>>

\* It wakes for a stamp, or for anything else.
Wakes == mw.phase = "paused" /\ Write([mw EXCEPT !.phase = "resuming"], 0) /\ Others /\ UNCHANGED left
Runs == mw.phase = "resuming" /\ Write([mw EXCEPT !.phase = "running"], 0) /\ Others /\ UNCHANGED left
\* It's long awake before it pauses again: no stamp made for the pause before is
\* still to land, and no cache still shows that pause.
Settled ==
  /\ \A c \in Conns : pc[c] \notin {"patch", "reread"}
  /\ \A r \in Replicas : seen[r].phase # "paused"
Pauses ==
  /\ mw.phase = "running" /\ now > mw.pausedAt /\ Settled
  /\ Write([mw EXCEPT !.phase = "pausing", !.recorded = mw.stamp], 0)
  /\ Others /\ UNCHANGED left
Paused ==
  /\ mw.phase = "pausing"
  /\ Write([mw EXCEPT !.phase = "paused", !.pausedAt = now], 0)
  /\ Others /\ UNCHANGED left
WritesStatus == Write(mw, 0) /\ Others /\ UNCHANGED left

\* A portal stamps the workload too, with a value of its own.
Stamp ==
  LET plain == [second |-> now, nano |-> NoConn] IN
  /\ Do("portal") /\ plain # mw.recorded
  /\ Write([mw EXCEPT !.stamp = plain], 0)
  /\ Others

See(r) ==
  /\ ~seenFresh[r]
  /\ seen' = [seen EXCEPT ![r] = mw] /\ seenFresh' = [seenFresh EXCEPT ![r] = TRUE]
  /\ UNCHANGED <<now, mw, stamped, used, calls, pc, local, announced, left>>

\* A replica dies, with its connections; another takes its place.
Restart(r) ==
  LET its == {c \in Conns : ReplicaOf[c] = r /\ pc[c] # "new"} IN
  /\ Do("restart")
  /\ pc' = [c \in Conns |-> IF c \in its THEN "gone" ELSE pc[c]] /\ Forgets(its)
  /\ calls' = [calls EXCEPT ![r] = NoConn] /\ stamped' = [stamped EXCEPT ![r] = NoStamp]
  /\ used' = [used EXCEPT ![r] = [s \in Sources |-> 0]]
  /\ seen' = [seen EXCEPT ![r] = mw] /\ seenFresh' = [seenFresh EXCEPT ![r] = TRUE]
  /\ UNCHANGED <<now, mw, announced>>

\* A second goes by, and the allowances refill.
Tick ==
  /\ now < MaxTime /\ now' = now + 1
  /\ used' = [r \in Replicas |-> [s \in Sources |-> 0]]
  /\ UNCHANGED <<mw, seen, seenFresh, stamped, calls, pc, local, announced, left>>

Next ==
  \/ \E c \in Conns : Wake(c) \/ Retry(c) \/ Leave(c)
  \/ Wakes \/ Runs \/ Pauses \/ Paused \/ WritesStatus \/ Stamp
  \/ \E r \in Replicas : See(r) \/ Restart(r)
  \/ Tick

Spec == Init /\ [][Next]_vars

\* A replica's goroutines run, and its calls end, within apiTimeout.
FairSpec == Spec /\ \A c \in Conns : WF_vars(Wake(c))

----------------------------------------------------------------------------
(* Properties. *)

\* A connection that takes its workload to be waking, because of a stamp it made, or
\* waited on, or found, is right: for as long as that pause lasts, it's stamped
\* (wake.go:170: "so the wake is never lost").
WakeOnItsWay ==
  \A c \in Conns :
    pc[c] = "woken" /\ mw.phase = "paused" /\ call[c].pause = mw.pausedAt => ~NeedsWake(mw)

\* A wake is announced once, whichever replicas stamp it (wake.go:165: "only the
\* first to land announces the wake").
AnnouncedOnce == announced <= 1

\* The stamp a replica remembers for a pause is still there: what lets it leave out
\* another while the cache doesn't show it.
StampsRemembered ==
  \A r \in Replicas :
    mw.phase = "paused" /\ stamped[r].pausedAt = mw.pausedAt => ~NeedsWake(mw)

\* A connection is refused for its own source's limit, never another's.
RefusedForItself ==
  \A c \in Conns :
    pc[c] = "held" /\ call[c].result = "limited" => call[c].source = SourceOf[c]

Asked(c) == pc[c] \in {"asking", "waiting", "heard", "look"}
Answered(c) == pc[c] \in {"woken", "held", "gone"}
\* Whoever asks for a wake gets an answer, without running out of time for it, unless
\* they leave first (wake.go:74).
RequestsEnd == \A c \in Conns : Asked(c) ~> Answered(c)
================================================================================
