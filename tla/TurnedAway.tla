------------------------------ MODULE TurnedAway ------------------------------
(***************************************************************************)
(* How the requests that a workload which asks has turned away are         *)
(* counted: each replica of the doorman counts its own, and adds them now  *)
(* and then to an annotation the replicas share; the operator copies that  *)
(* into status.  A count is of one pause.                                  *)
(***************************************************************************)
EXTENDS Integers, FiniteSets, Functions

CONSTANTS
  Replicas,
  StampAttempts,       \* the writes of one flush (3)
  MaxPause, MaxAway,   \* bounds: how many pauses, and requests turned away in each
  MaxFails                \* and the flushes of which a call fails

Assumptions ==
  IsFiniteSet(Replicas) /\ StampAttempts \in Nat \ {0} /\ MaxPause \in Nat \ {0} /\ MaxAway \in Nat /\ MaxFails \in Nat

\* Pauses are numbered from 1; a count names its pause, and None names none.
Pauses == 1..MaxPause
Count == [pause : 0..MaxPause, n : Nat]
None == [pause |-> 0, n |-> 0]

VARIABLES
  pause, asleep,    \* the current or last pause, and whether it's still on
  annotation,       \* the count the replicas share
  status,           \* the operator's
  cached, cachedFresh,      \* each replica's cached workload, and whether it's of the current version
  route,            \* the pause its last sync of routes saw
  away,             \* its own count since its last flush
  flushing,         \* the count it's adding, or None
  tries,          \* which write of it is next
  base, ours,       \* the workload that write is made from, and whether it's still current
  turned,           \* how many requests were turned away in each pause
  displaced,        \* the pauses of which a count was dropped for an earlier one's
  unheard,          \* and those of which an addition landed, and was taken to have failed
  fails

cluster == <<pause, asleep, annotation>>
replica == <<cached, cachedFresh, route, away, flushing, tries, base, ours>>
vars == <<cluster, status, replica, turned, displaced, unheard, fails>>

\* What a replica reads of the workload.
Workload == [pause : 0..MaxPause, asleep : BOOLEAN, annotation : Count]
Current == [pause |-> pause, asleep |-> asleep, annotation |-> annotation]

TypeOK ==
  /\ Current \in Workload /\ status \in Count
  /\ cached \in [Replicas -> Workload] /\ base \in [Replicas -> Workload]
  /\ cachedFresh \in [Replicas -> BOOLEAN] /\ ours \in [Replicas -> BOOLEAN]
  /\ route \in [Replicas -> 0..MaxPause]
  /\ away \in [Replicas -> Count] /\ flushing \in [Replicas -> Count]
  /\ tries \in [Replicas -> 0..StampAttempts]
  /\ turned \in [Pauses -> 0..MaxAway] /\ displaced \subseteq Pauses
  /\ unheard \subseteq Pauses /\ fails \in 0..MaxFails

Init ==
  /\ pause = 0 /\ asleep = FALSE /\ annotation = None /\ status = None
  /\ cached = [r \in Replicas |-> Current] /\ cachedFresh = [r \in Replicas |-> TRUE]
  /\ base = [r \in Replicas |-> Current] /\ ours = [r \in Replicas |-> FALSE]
  /\ route = [r \in Replicas |-> 0]
  /\ away = [r \in Replicas |-> None] /\ flushing = [r \in Replicas |-> None]
  /\ tries = [r \in Replicas |-> 0] /\ turned = [p \in Pauses |-> 0] /\ displaced = {}
  /\ unheard = {} /\ fails = MaxFails

----------------------------------------------------------------------------
(* The operator. *)

\* A write makes every base old.
Written ==
  /\ cachedFresh' = [r \in Replicas |-> FALSE] /\ ours' = [r \in Replicas |-> FALSE]
  /\ UNCHANGED <<cached, route, away, flushing, tries, base, turned, displaced, unheard, fails>>

\* recordTurnedAway, in whatever status write the pause or the wake is part of.
Recorded(p) ==
  LET current == IF p > 0 /\ status.pause # p THEN [pause |-> p, n |-> 0] ELSE status
  IN IF annotation.pause = current.pause /\ current.pause > 0 THEN annotation ELSE current

Pause ==
  /\ ~asleep /\ pause < MaxPause /\ pause' = pause + 1 /\ asleep' = TRUE
  /\ status' = Recorded(pause + 1) /\ UNCHANGED annotation /\ Written
Wakes ==
  /\ asleep /\ asleep' = FALSE
  /\ status' = Recorded(pause) /\ UNCHANGED <<pause, annotation>> /\ Written
Records ==
  /\ status' = Recorded(IF asleep THEN pause ELSE 0) /\ status' # status
  /\ UNCHANGED cluster /\ Written

----------------------------------------------------------------------------
(* A replica. *)

\* Its cache, and then its routes, catch up.
See(r) ==
  /\ ~cachedFresh[r] /\ cached' = [cached EXCEPT ![r] = Current] /\ cachedFresh' = [cachedFresh EXCEPT ![r] = TRUE]
  /\ UNCHANGED <<cluster, status, route, away, flushing, tries, base, ours, turned, displaced, unheard, fails>>
Sync(r) ==
  LET to == IF cached[r].asleep THEN cached[r].pause ELSE 0 IN
  /\ route[r] # to /\ route' = [route EXCEPT ![r] = to]
  /\ UNCHANGED <<cluster, status, cached, cachedFresh, away, flushing, tries, base, ours, turned, displaced, unheard, fails>>

\* turnedAway: a count of another pause is dropped.
TurnAway(r) ==
  LET p == route[r] IN
  /\ p > 0 /\ turned[p] < MaxAway
  /\ turned' = [turned EXCEPT ![p] = @ + 1]
  /\ away' = [away EXCEPT ![r] =
                [pause |-> p, n |-> IF @.pause = p THEN @.n + 1 ELSE 1]]
  /\ UNCHANGED <<cluster, status, cached, cachedFresh, route, flushing, tries, base, ours, displaced, unheard, fails>>

\* flushTurnedAway takes what there is, and addTurnedAway reads the cached workload.
ReadFor(r, n) ==
  /\ tries' = [tries EXCEPT ![r] = n]
  /\ base' = [base EXCEPT ![r] = cached[r]] /\ ours' = [ours EXCEPT ![r] = cachedFresh[r]]
Flush(r) ==
  /\ flushing[r] = None /\ away[r] # None
  /\ flushing' = [flushing EXCEPT ![r] = away[r]] /\ away' = [away EXCEPT ![r] = None]
  /\ ReadFor(r, 1)
  /\ UNCHANGED <<cluster, status, cached, cachedFresh, route, turned, displaced, unheard, fails>>

\* withTurnedAway: the annotation with c added, or None if it's of a later pause.
\* Latest is 0 while the workload is awake.
WithTurnedAway(have, c, latest) ==
  IF have.pause = 0 \/ (latest > 0 /\ have.pause > latest) \/ have.pause < c.pause THEN c
  ELSE IF have.pause > c.pause THEN None
  ELSE [c EXCEPT !.n = @ + have.n]

Done(r) ==
  /\ flushing' = [flushing EXCEPT ![r] = None] /\ tries' = [tries EXCEPT ![r] = 0]
  /\ base' = [base EXCEPT ![r] = [pause |-> 0, asleep |-> FALSE, annotation |-> None]]

\* A flush that can't be written is kept for the next, over whatever's counted since,
\* unless that is of the same pause.
PutBack(r) ==
  LET c == flushing[r]
      more == IF away[r].pause = c.pause THEN away[r].n ELSE 0
  IN /\ away' = [away EXCEPT ![r] = [c EXCEPT !.n = @ + more]]
     /\ displaced' = IF away[r].pause > c.pause THEN displaced \cup {away[r].pause} ELSE displaced

\* Mutant: the annotation's written at any version.
AtAnyVersion(r) == TRUE
AtVersion(r) == ours[r]

\* One write of it, at the version read.
Add(r) ==
  LET c == flushing[r]
      latest == IF base[r].asleep THEN base[r].pause ELSE 0
      count == WithTurnedAway(base[r].annotation, c, latest)
      same == UNCHANGED <<pause, asleep, annotation, cachedFresh>>
  IN
  /\ tries[r] > 0
  /\ \/ count = None /\ Done(r) /\ same /\ UNCHANGED <<away, ours, displaced, unheard, fails>>
     \/ /\ count # None /\ AtVersion(r)
        /\ annotation' = count /\ cachedFresh' = [q \in Replicas |-> FALSE]
        /\ ours' = [q \in Replicas |-> FALSE]
        /\ Done(r) /\ UNCHANGED <<pause, asleep, away, displaced, unheard, fails>>
     \/ /\ count # None /\ ~AtVersion(r) /\ same /\ UNCHANGED <<unheard, fails>>
        /\ IF tries[r] < StampAttempts
           THEN ReadFor(r, tries[r] + 1) /\ UNCHANGED <<flushing, away, displaced>>
           ELSE PutBack(r) /\ Done(r) /\ UNCHANGED ours
     \/ /\ fails > 0 /\ fails' = fails - 1
        /\ PutBack(r) /\ Done(r)
        /\ \/ same /\ UNCHANGED <<ours, unheard>>
           \/ /\ count # None /\ AtVersion(r)
              /\ annotation' = count /\ unheard' = unheard \cup {c.pause}
              /\ cachedFresh' = [q \in Replicas |-> FALSE]
              /\ ours' = [q \in Replicas |-> FALSE]
              /\ UNCHANGED <<pause, asleep>>
  /\ UNCHANGED <<status, cached, route, turned>>

Next ==
  \/ Pause \/ Wakes \/ Records
  \/ \E r \in Replicas : See(r) \/ Sync(r) \/ TurnAway(r) \/ Flush(r) \/ Add(r)

Spec == Init /\ [][Next]_vars

----------------------------------------------------------------------------

Of(count, p) == IF count.pause = p THEN count.n ELSE 0

\* What the replicas have yet to add to it.
ToAdd(p) == FoldFunction(+, 0, [r \in Replicas |-> Of(away[r], p) + Of(flushing[r], p)])

\* While a pause is on, every request it turned away is counted once: in the annotation,
\* or by a replica that has yet to add it (away.go:74: "A count that can't be written is
\* kept for the next flush"), unless an earlier pause's has displaced it; twice at most
\* when an addition landed unheard.  What status says was turned away was.
EachCountedOnce ==
  /\ asleep /\ pause \notin displaced =>
       LET counted == Of(annotation, pause) + ToAdd(pause) IN
       /\ counted >= turned[pause]
       /\ pause \notin unheard => counted = turned[pause]
  /\ status.pause > 0 /\ status.pause \notin unheard => status.n <= turned[status.pause]

\* A replica that has counted for a pause doesn't go back to an earlier one, unless it
\* has nothing of the later to add (away.go:47: "Requests from an earlier pause not yet
\* flushed are dropped: that pause is over").
LaterCountKept ==
  [][\A r \in Replicas : away'[r] = None \/ away'[r].pause >= away[r].pause]_vars

================================================================================
