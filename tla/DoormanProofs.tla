----------------------------- MODULE DoormanProofs -----------------------------
(***************************************************************************)
(* The doorman's safety, for any connections, replicas and limits.         *)
(*                                                                         *)
(* Of DoormanWake: no wake is lost, announced twice, or refused for        *)
(* another source's limit.  The argument is about pauses.  A pause is      *)
(* known by when it began, and a later one began later; once one is        *)
(* stamped it stays stamped, since whoever writes a stamp writes one that  *)
(* the pause didn't record.                                                *)
(*                                                                         *)
(* Of HeldConnections: each step moves the counts by what it moves the     *)
(* connection.  Of TurnedAway: what a replica has yet to add, and what     *)
(* the annotation has, make up what was turned away.  Both need sums over  *)
(* functions, which come first.  Of WakeKey: keys come in a button's time  *)
(* apart, so that no replica that reads the Secret is two behind.          *)
(*                                                                         *)
(* Of DoormanPorts: what a reconcile of a workload has still to do, the    *)
(* slices it has yet to delete among it, tells what may be left behind.    *)
(***************************************************************************)
EXTENDS MCDoorman, Functions, FiniteSetTheorems, TLAPS

-----------------------------------------------------------------------------
(* Wakes. *)


Typed ==
  /\ now \in Times /\ mw \in Workload
  /\ seen \in [Replicas -> Workload] /\ seenFresh \in [Replicas -> BOOLEAN]
  /\ stamped \in [Replicas -> StampRecord]
  /\ pc \in [Conns -> Steps]
  /\ copy \in [Conns -> Workload] /\ fresh \in [Conns -> BOOLEAN]
  /\ began \in [Conns -> Times] /\ call \in [Conns -> Call]
  /\ announced \in Nat

\* Time, and the last pause's.
InOrder ==
  /\ mw.pausedAt <= now /\ (mw.phase = "pausing" => mw.pausedAt < now)
  /\ \A c \in Conns : began[c] <= now

\* A copy that shows a pause shows the last one, which isn't stamped any less since.
OfLastPause(w) ==
  w.phase = "paused" =>
    /\ mw.phase # "pausing" /\ w.pausedAt = mw.pausedAt /\ w.recorded = mw.recorded
    /\ mw.phase = "paused" /\ ~NeedsWake(w) => ~NeedsWake(mw)

CachesRight ==
  \A r \in Replicas : OfLastPause(seen[r]) /\ (seenFresh[r] => seen[r] = mw)

\* What a stamp that's yet to land is made from.
AtWork(c) == pc[c] \in {"patch", "reread"}
CopiesRight ==
  \A c \in Conns : AtWork(c) =>
    /\ NeedsWake(copy[c]) /\ OfLastPause(copy[c]) /\ call[c].pause = mw.pausedAt
    /\ mw.phase = "paused" => seen[ReplicaOf[c]].phase = "paused"
    /\ pc[c] = "patch" /\ fresh[c] => copy[c] = mw

\* The pause that began then is stamped, or over.
Stamped(p) == p <= mw.pausedAt /\ (mw.phase = "paused" /\ p = mw.pausedAt => ~NeedsWake(mw))

Remembered == \A r \in Replicas : Stamped(stamped[r].pausedAt)
Told(c) == pc[c] = "woken" \/ (pc[c] \in {"finish", "heard"} /\ call[c].result = "ok")
ToldRight == \A c \in Conns : Told(c) => Stamped(call[c].pause)

\* A value that only c could have made, c made before the one it's about to.
Spoken(c, v) ==
  v.nano = c =>
    /\ pc[c] # "new"
    /\ pc[c] \in {"asking", "waiting", "heard", "look"} => v.second < now
    /\ AtWork(c) => v.second < began[c]
    /\ pc[c] \in {"finish", "held"} => v.second <= began[c]
ValuesOnce == \A c \in Conns : Spoken(c, mw.stamp) /\ Spoken(c, mw.recorded)

WakeInv ==
  /\ Typed /\ InOrder /\ CachesRight /\ CopiesRight /\ Remembered /\ ToldRight /\ ValuesOnce

\* A workload that's to be woken has no wake announced yet.
AnnounceInv == AnnouncedOnce /\ (NeedsWake(mw) => announced = 0)

\* A refusal that's kept, or about to be, is of one's own source.
RefuseInv ==
  \A c \in Conns :
    pc[c] \in {"finish", "held"} /\ call[c].result = "limited" => call[c].source = SourceOf[c]

----------------------------------------------------------------------------
(* The types. *)

LEMMA NoCallTyped ==
  ASSUME NEW c \in Conns
  PROVE  NoCall \in Call
<1>1. SourceOf[c] \in Sources BY ConnsAssumption
<1>2. (CHOOSE s \in Sources : TRUE) \in Sources BY <1>1
<1> QED BY <1>2 DEF NoCall, Call, Results

LEMMA InitTyped == Init => Typed
<1> SUFFICES ASSUME Init PROVE Typed OBVIOUS
<1>1. 0 \in Times /\ Before \in Times \cup {Before} BY LimitsAssumption DEF Times
<1>2. Unset \in Values BY <1>1 DEF Unset, Values
<1>3. Asleep \in Workload BY <1>1, <1>2 DEF Asleep, Workload, Phases
<1>4. NoStamp \in StampRecord BY <1>1 DEF NoStamp, StampRecord
<1>5. call \in [Conns -> Call] BY NoCallTyped DEF Init
<1>6. pc \in [Conns -> Steps] BY DEF Init, Steps
<1> QED BY <1>1, <1>3, <1>4, <1>5, <1>6 DEF Init, Typed

\* What a connection's next value is: never the one the pause recorded.
LEMMA ValueMade ==
  ASSUME NEW w \in Workload, NEW time \in Times, NEW c \in Conns,
         w.recorded.nano = c => w.recorded.second < time
  PROVE  /\ NewValue(w, time, c) \in Values
         /\ NewValue(w, time, c).second = time
         /\ NewValue(w, time, c).nano \in {c, NoConn}
         /\ NewValue(w, time, c) \notin {Unset, w.recorded}
<1> DEFINE plain == [second |-> time, nano |-> NoConn]
<1>1. time \in Nat /\ NoConn \notin Conns
  BY LimitsAssumption, ConnsAssumption DEF Times
<1>2. NewValue(w, time, c) \in {plain, [second |-> time, nano |-> c]} BY DEF NewValue
<1>3. CASE plain \in {w.stamp, w.recorded}
  <2>1. NewValue(w, time, c) = [second |-> time, nano |-> c] BY <1>3 DEF NewValue
  <2>2. [second |-> time, nano |-> c] # w.recorded BY <1>1
  <2> QED BY <1>1, <2>1, <2>2 DEF Values, Unset, Before
<1>4. CASE plain \notin {w.stamp, w.recorded}
  <2>1. NewValue(w, time, c) = plain BY <1>4 DEF NewValue
  <2> QED BY <1>1, <1>4, <2>1 DEF Values, Unset, Before
<1> QED BY <1>3, <1>4

LEMMA PauseTyped ==
  ASSUME NEW w \in Workload
  PROVE  PauseOf(w) \in Times \cup {Before} /\ w.pausedAt \in Times \cup {Before}
BY DEF PauseOf, Workload

LEMMA CameTyped ==
  ASSUME Typed, NEW c \in Conns, NEW said \in Results, NEW p \in Times \cup {Before},
         Came(c, said, p)
  PROVE  /\ call' \in [Conns -> Call] /\ pc' \in [Conns -> Steps]
         /\ call' = [call EXCEPT ![c] = [result |-> said, source |-> SourceOf[c], pause |-> p]]
         /\ pc' = [pc EXCEPT ![c] = "finish"]
<1>1. SourceOf[c] \in Sources BY ConnsAssumption
<1>2. [result |-> said, source |-> SourceOf[c], pause |-> p] \in Call BY <1>1 DEF Call
<1> QED BY <1>2 DEF Typed, Came, Goto, Steps

LEMMA WriteTyped ==
  ASSUME Typed, NEW w \in Workload, NEW n \in Nat, Write(w, n)
  PROVE  /\ mw' = w /\ mw' \in Workload /\ announced' \in Nat
         /\ seenFresh' \in [Replicas -> BOOLEAN] /\ fresh' \in [Conns -> BOOLEAN]
BY DEF Typed, Write

LEMMA ForgetsTyped ==
  ASSUME Typed, NEW S, Forgets(S)
  PROVE  /\ copy' \in [Conns -> Workload] /\ fresh' \in [Conns -> BOOLEAN]
         /\ began' \in [Conns -> Times] /\ call' \in [Conns -> Call]
<1>1. 0 \in Times /\ Unset \in Values BY LimitsAssumption DEF Times, Unset, Values
<1>2. Asleep \in Workload BY <1>1 DEF Asleep, Workload, Phases
<1>3. copy' \in [Conns -> Workload] BY <1>2 DEF Typed, Forgets
<1>4. fresh' \in [Conns -> BOOLEAN]
  <2> SUFFICES ASSUME NEW c \in Conns PROVE (c \notin S /\ fresh[c]) \in BOOLEAN
    BY DEF Forgets
  <2> QED OBVIOUS
<1>5. began' \in [Conns -> Times] BY <1>1 DEF Typed, Forgets
<1>6. call' \in [Conns -> Call] BY NoCallTyped DEF Typed, Forgets
<1> QED BY <1>3, <1>4, <1>5, <1>6
LEMMA ReplicaHolds == \A c \in Conns : ReplicaOf[c] \in Replicas
BY ConnsAssumption

\* The value that a stamp lands with, of what its maker has at hand.
LEMMA LandedTyped ==
  ASSUME Typed, CopiesRight, ValuesOnce, NEW c \in Conns, pc[c] = "patch"
  PROVE  LET value == NewValue(copy[c], began[c], c) IN
         /\ value \in Values /\ value.second = began[c] /\ value.nano \in {c, NoConn}
         /\ value \notin {Unset, mw.recorded} /\ copy[c].recorded = mw.recorded
         /\ [mw EXCEPT !.stamp = value] \in Workload
<1>1. copy[c] \in Workload /\ began[c] \in Times /\ mw \in Workload BY DEF Typed
<1>2. AtWork(c) BY DEF AtWork
<1>3. copy[c].recorded = mw.recorded
  BY <1>2 DEF CopiesRight, OfLastPause, NeedsWake
<1>4. mw.recorded.nano = c => mw.recorded.second < began[c]
  BY <1>2 DEF ValuesOnce, Spoken
<1>5. /\ NewValue(copy[c], began[c], c) \in Values
      /\ NewValue(copy[c], began[c], c).second = began[c]
      /\ NewValue(copy[c], began[c], c).nano \in {c, NoConn}
      /\ NewValue(copy[c], began[c], c) \notin {Unset, copy[c].recorded}
  BY <1>1, <1>3, <1>4, ValueMade
<1>6. [mw EXCEPT !.stamp = NewValue(copy[c], began[c], c)] \in Workload
  BY <1>1, <1>5 DEF Workload
<1> QED BY <1>3, <1>5, <1>6

----------------------------------------------------------------------------
(* What a step does to the workload. *)

SamePause == mw' = mw
Restamped ==
  \E v \in Values : v \notin {Unset, mw.recorded} /\ mw' = [mw EXCEPT !.stamp = v]
Awakens ==
  \E phase \in {"resuming", "running"} :
    mw.phase # "pausing" /\ mw' = [mw EXCEPT !.phase = phase]
Begins ==
  /\ mw.phase = "running" /\ mw.pausedAt < now /\ Settled
  /\ mw' = [mw EXCEPT !.phase = "pausing", !.recorded = mw.stamp]
Completes == mw.phase = "pausing" /\ mw' = [mw EXCEPT !.phase = "paused", !.pausedAt = now]

Moves == SamePause \/ Restamped \/ Awakens \/ Begins \/ Completes

LEMMA MovesTyped ==
  ASSUME Typed, Moves
  PROVE  mw' \in Workload
<1>1. mw \in Workload /\ now \in Times BY DEF Typed
<1>2. CASE SamePause BY <1>1, <1>2 DEF SamePause
<1>3. CASE Restamped BY <1>1, <1>3 DEF Restamped, Workload
<1>4. CASE Awakens BY <1>1, <1>4 DEF Awakens, Workload, Phases
<1>5. CASE Begins BY <1>1, <1>5 DEF Begins, Workload, Phases
<1>6. CASE Completes BY <1>1, <1>6 DEF Completes, Workload, Phases
<1> QED BY <1>2, <1>3, <1>4, <1>5, <1>6 DEF Moves

\* A pause that's stamped, or over, stays so.
LEMMA StampedLasts ==
  ASSUME Typed, InOrder, Moves, NEW p \in Times \cup {Before}, Stamped(p)
  PROVE  Stamped(p)'
<1>1. mw \in Workload /\ now \in Times /\ mw.pausedAt \in Nat /\ p \in Int /\ now \in Nat
  BY LimitsAssumption DEF Typed, Times, Workload, Before
<1>2. CASE SamePause BY <1>2 DEF SamePause, Stamped, NeedsWake
<1>3. CASE Restamped BY <1>1, <1>3 DEF Restamped, Stamped, NeedsWake, Workload
<1>4. CASE Awakens BY <1>1, <1>4 DEF Awakens, Stamped, NeedsWake, Workload
<1>5. CASE Begins BY <1>1, <1>5 DEF Begins, Stamped, NeedsWake, Workload
<1>6. CASE Completes
  <2>1. mw.pausedAt < now BY <1>6 DEF InOrder, Completes
  <2> QED BY <1>1, <1>6, <2>1 DEF Completes, Stamped, NeedsWake, Workload
<1> QED BY <1>2, <1>3, <1>4, <1>5, <1>6 DEF Moves

\* A copy of the last pause stays one until the next begins.
LEMMA CopyLasts ==
  ASSUME Typed, Moves, ~Begins, NEW w \in Workload, OfLastPause(w)
  PROVE  OfLastPause(w)'
<1>1. mw \in Workload BY DEF Typed
<1>2. CASE SamePause BY <1>2 DEF SamePause, OfLastPause, NeedsWake
<1>3. CASE Restamped BY <1>1, <1>3 DEF Restamped, OfLastPause, NeedsWake, Workload
<1>4. CASE Awakens BY <1>1, <1>4 DEF Awakens, OfLastPause, NeedsWake, Workload
<1>6. CASE Completes BY <1>1, <1>6 DEF Completes, OfLastPause, NeedsWake, Workload
<1> QED BY <1>2, <1>3, <1>4, <1>6 DEF Moves

LEMMA OrderLasts ==
  ASSUME Typed, InOrder, Moves, now' = now, \A c \in Conns : began'[c] \in {began[c], now, 0}
  PROVE  InOrder'
<1>1. /\ mw \in Workload /\ now \in Nat /\ mw.pausedAt \in Nat
      /\ \A c \in Conns : began[c] \in Nat
  BY LimitsAssumption DEF Typed, Times, Workload
<1>2. \A c \in Conns : began'[c] <= now' BY <1>1 DEF InOrder
<1>3. mw'.pausedAt <= now' /\ (mw'.phase = "pausing" => mw'.pausedAt < now')
  <2>2. CASE SamePause BY <2>2 DEF SamePause, InOrder
  <2>3. CASE Restamped BY <1>1, <2>3 DEF Restamped, InOrder, Workload
  <2>4. CASE Awakens BY <1>1, <2>4 DEF Awakens, InOrder, Workload
  <2>5. CASE Begins BY <1>1, <2>5 DEF Begins, InOrder, Workload
  <2>6. CASE Completes BY <1>1, <2>6 DEF Completes, InOrder, Workload
  <2> QED BY <2>2, <2>3, <2>4, <2>5, <2>6 DEF Moves
<1> QED BY <1>2, <1>3 DEF InOrder

\* The caches take on the workload as it is, or keep what they have.
CachesMove ==
  \A r \in Replicas :
    \/ seen'[r] = seen[r] /\ (seenFresh'[r] => seenFresh[r] /\ mw' = mw)
    \/ seen'[r] = mw /\ mw' = mw

LEMMA CachesStayRight ==
  ASSUME Typed, Moves, CachesRight, CachesMove
  PROVE  CachesRight'
<1> SUFFICES ASSUME NEW r \in Replicas
             PROVE  OfLastPause(seen[r])' /\ (seenFresh'[r] => seen'[r] = mw')
  BY DEF CachesRight
<1>1. mw \in Workload /\ seen[r] \in Workload BY DEF Typed
<1>2. CASE seen'[r] = mw /\ mw' = mw
  <2>1. OfLastPause(mw) BY <1>1, CachesRight DEF OfLastPause, NeedsWake, CachesRight
  <2>2. OfLastPause(seen[r])' BY <1>2, <2>1 DEF OfLastPause, NeedsWake
  <2> QED BY <1>2, <2>2
<1>3. CASE seen'[r] = seen[r] /\ (seenFresh'[r] => seenFresh[r] /\ mw' = mw)
  <2>1. seenFresh'[r] => seen'[r] = mw' BY <1>3 DEF CachesRight
  <2>2. CASE Begins
    <3>1. seen[r].phase # "paused" BY <2>2 DEF Begins, Settled
    <3> QED BY <1>3, <2>1, <3>1 DEF OfLastPause
  <2>3. CASE ~Begins
    <3>1. OfLastPause(seen[r]) BY DEF CachesRight
    <3>2. \A w \in Workload : OfLastPause(w) => OfLastPause(w)' BY <2>3, CopyLasts
    <3> QED BY <1>1, <1>3, <2>1, <3>1, <3>2 DEF OfLastPause
  <2> QED BY <2>2, <2>3
<1> QED BY <1>2, <1>3 DEF CachesMove
----------------------------------------------------------------------------
(* What a step does to everything else, and that the invariant allows it. *)

\* Time goes on, and a connection begins when it is.
TimeMoves ==
  /\ now' = now \/ (now' = now + 1 /\ mw' = mw)
  /\ \A c \in Conns : began'[c] \in {began[c], now, 0}

\* What a connection works from, it has had, or takes from the cache.
CopiesMove ==
  \A c \in Conns : AtWork(c)' =>
    \/ /\ AtWork(c) /\ copy'[c] = copy[c] /\ call'[c] = call[c]
       /\ pc'[c] = "patch" /\ fresh'[c] => pc[c] = "patch" /\ fresh[c] /\ mw' = mw
    \/ /\ NeedsWake(seen[ReplicaOf[c]]) /\ mw' = mw /\ seen' = seen
       /\ copy'[c] = seen[ReplicaOf[c]] /\ fresh'[c] = seenFresh[ReplicaOf[c]]
       /\ call'[c].pause = seen[ReplicaOf[c]].pausedAt

\* What's remembered was, or is of a pause that's stamped now.
RecordsMove ==
  \A r \in Replicas : stamped'[r] \in {stamped[r], NoStamp} \/ Stamped(stamped[r].pausedAt)'

\* What's told was told to someone, or is of a pause that's stamped now.
ToldMoves ==
  \A c \in Conns : Told(c)' =>
    \/ Stamped(call[c].pause)'
    \/ \E d \in Conns : Told(d) /\ call'[c].pause = call[d].pause

\* A connection that's about to make a value has gone on to a later second than its last.
Preparing == {"new", "asking", "waiting", "heard", "look"}
SpeaksOn(c) ==
  /\ pc'[c] = "new" => pc[c] = "new"
  /\ pc'[c] \in Preparing \ {"new"} =>
       pc[c] \in Preparing \/ (pc[c] = "held" /\ now > began[c])
  /\ AtWork(c)' =>
       (AtWork(c) /\ began'[c] = began[c]) \/ (pc[c] = "look" /\ began'[c] = now)
  /\ pc'[c] \in {"finish", "held"} =>
       \/ pc[c] \in {"patch", "reread", "finish", "held"} /\ began'[c] = began[c]
       \/ pc[c] \in {"look", "heard"} /\ began'[c] = now
ValuesMove ==
  /\ \A c \in Conns : SpeaksOn(c)
  /\ mw'.stamp = mw.stamp \/ \A c \in Conns : Spoken(c, mw.stamp)'

Step ==
  /\ Typed' /\ Moves
  /\ TimeMoves /\ CachesMove /\ CopiesMove /\ RecordsMove /\ ToldMoves /\ ValuesMove

LEMMA TimeKeepsOrder ==
  ASSUME WakeInv, Step
  PROVE  InOrder'
<1>1. Typed /\ InOrder /\ Moves /\ TimeMoves BY DEF WakeInv, Step
<1>2. CASE now' = now BY <1>1, <1>2, OrderLasts DEF TimeMoves
<1>3. CASE now' = now + 1 /\ mw' = mw
  <2>1. /\ mw \in Workload /\ now \in Nat /\ mw.pausedAt \in Nat
        /\ \A c \in Conns : began[c] \in Nat
    BY <1>1, LimitsAssumption DEF Typed, Times, Workload
  <2>2. mw.pausedAt <= now /\ (\A c \in Conns : began[c] <= now) BY <1>1 DEF InOrder
  <2>3. \A c \in Conns : began'[c] <= now' BY <1>1, <1>3, <2>1, <2>2 DEF TimeMoves
  <2> QED BY <1>3, <2>1, <2>2, <2>3 DEF InOrder
<1> QED BY <1>1, <1>2, <1>3 DEF TimeMoves

LEMMA CopiesStayRight ==
  ASSUME WakeInv, Step
  PROVE  CopiesRight'
<1>1. /\ Typed /\ Typed' /\ Moves /\ CopiesMove /\ CachesMove /\ CachesRight /\ CopiesRight
      /\ CachesRight'
  BY CachesStayRight DEF WakeInv, Step
<1> SUFFICES ASSUME NEW c \in Conns, AtWork(c)'
             PROVE  /\ (NeedsWake(copy[c]) /\ OfLastPause(copy[c]))' /\ call'[c].pause = mw'.pausedAt
                    /\ mw'.phase = "paused" => seen'[ReplicaOf[c]].phase = "paused"
                    /\ pc'[c] = "patch" /\ fresh'[c] => copy'[c] = mw'
  BY DEF CopiesRight
<1>r. ReplicaOf[c] \in Replicas BY ReplicaHolds
<1>t. mw \in Workload /\ copy[c] \in Workload /\ seen[ReplicaOf[c]] \in Workload
  BY <1>1, <1>r DEF Typed
<1>2. CASE /\ AtWork(c) /\ copy'[c] = copy[c] /\ call'[c] = call[c]
           /\ pc'[c] = "patch" /\ fresh'[c] => pc[c] = "patch" /\ fresh[c] /\ mw' = mw
  <2>1. /\ NeedsWake(copy[c]) /\ OfLastPause(copy[c]) /\ call[c].pause = mw.pausedAt
        /\ mw.phase = "paused" => seen[ReplicaOf[c]].phase = "paused"
        /\ pc[c] = "patch" /\ fresh[c] => copy[c] = mw
    BY <1>1, <1>2 DEF CopiesRight
  <2>2. ~Begins /\ ~Completes
    <3>1. ~Begins BY <1>2 DEF Begins, Settled, AtWork
    <3>2. copy[c].phase = "paused" BY <2>1 DEF NeedsWake
    <3> QED BY <2>1, <3>1, <3>2 DEF Completes, OfLastPause
  <2>3. /\ mw'.pausedAt = mw.pausedAt
        /\ mw'.phase = "paused" => mw.phase = "paused"
    <3>1. CASE SamePause BY <3>1 DEF SamePause
    <3>2. CASE Restamped BY <1>t, <3>2 DEF Restamped, Workload
    <3>3. CASE Awakens BY <1>t, <3>3 DEF Awakens, Workload
    <3> QED BY <1>1, <2>2, <3>1, <3>2, <3>3 DEF Moves
  <2>4. OfLastPause(copy[c])'
    <3>1. \A w \in Workload : OfLastPause(w) => OfLastPause(w)' BY <1>1, <2>2, CopyLasts
    <3> QED BY <1>2, <1>t, <2>1, <3>1 DEF OfLastPause
  <2>5. NeedsWake(copy[c])' BY <1>2, <2>1 DEF NeedsWake
  <2>6. mw'.phase = "paused" => seen'[ReplicaOf[c]].phase = "paused"
    BY <1>1, <1>r, <2>1, <2>3 DEF CachesMove
  <2> QED BY <1>2, <2>1, <2>3, <2>4, <2>5, <2>6
<1>3. CASE /\ NeedsWake(seen[ReplicaOf[c]]) /\ mw' = mw /\ seen' = seen
           /\ copy'[c] = seen[ReplicaOf[c]] /\ fresh'[c] = seenFresh[ReplicaOf[c]]
           /\ call'[c].pause = seen[ReplicaOf[c]].pausedAt
  <2>1. /\ OfLastPause(seen[ReplicaOf[c]]) /\ seen[ReplicaOf[c]].phase = "paused"
        /\ seenFresh[ReplicaOf[c]] => seen[ReplicaOf[c]] = mw
    BY <1>1, <1>3, <1>r DEF CachesRight, NeedsWake
  <2>2. OfLastPause(copy[c])' BY <1>3, <2>1 DEF OfLastPause, NeedsWake
  <2>3. NeedsWake(copy[c])' BY <1>3 DEF NeedsWake
  <2>4. call'[c].pause = mw'.pausedAt BY <1>3, <2>1 DEF OfLastPause
  <2> QED BY <1>3, <2>1, <2>2, <2>3, <2>4
<1> QED BY <1>1, <1>2, <1>3 DEF CopiesMove

LEMMA RecordsStayRight ==
  ASSUME WakeInv, Step
  PROVE  Remembered'
<1>1. /\ Typed /\ Typed' /\ InOrder /\ Moves /\ RecordsMove /\ Remembered
  BY DEF WakeInv, Step
<1> SUFFICES ASSUME NEW r \in Replicas PROVE Stamped(stamped[r].pausedAt)'
  BY DEF Remembered
<1>2. CASE stamped'[r] = stamped[r]
  <2>1. stamped[r].pausedAt \in Times \cup {Before} /\ Stamped(stamped[r].pausedAt)
    BY <1>1 DEF Typed, StampRecord, Remembered
  <2>2. \A p \in Times \cup {Before} : Stamped(p) => Stamped(p)' BY <1>1, StampedLasts
  <2> QED BY <1>2, <2>1, <2>2 DEF Stamped
<1>3. CASE stamped'[r] = NoStamp
  <2>1. mw' \in Workload BY <1>1 DEF Typed
  <2>2. mw'.pausedAt \in Nat BY <2>1, LimitsAssumption DEF Workload, Times
  <2> QED BY <1>3, <2>2 DEF Stamped, NoStamp, Before
<1> QED BY <1>1, <1>2, <1>3 DEF RecordsMove

LEMMA ToldStaysRight ==
  ASSUME WakeInv, Step
  PROVE  ToldRight'
<1>1. /\ Typed /\ InOrder /\ Moves /\ ToldMoves /\ ToldRight
  BY DEF WakeInv, Step
<1> SUFFICES ASSUME NEW c \in Conns, Told(c)', ~Stamped(call[c].pause)'
             PROVE  Stamped(call[c].pause)'
  BY DEF ToldRight
<1>2. PICK d \in Conns : Told(d) /\ call'[c].pause = call[d].pause
  BY <1>1 DEF ToldMoves
<1>3. call[d].pause \in Times \cup {Before} /\ Stamped(call[d].pause)
  BY <1>1, <1>2 DEF Typed, Call, ToldRight
<1>4. \A p \in Times \cup {Before} : Stamped(p) => Stamped(p)' BY <1>1, StampedLasts
<1> QED BY <1>2, <1>3, <1>4 DEF Stamped

LEMMA SpokenLasts ==
  ASSUME Typed, InOrder, Typed', TimeMoves, NEW c \in Conns, SpeaksOn(c),
         NEW v \in Values, Spoken(c, v)
  PROVE  Spoken(c, v)'
<1> SUFFICES ASSUME v.nano = c PROVE Spoken(c, v)' BY DEF Spoken
<1>1. now \in Nat /\ now' \in Nat /\ began[c] \in Nat /\ began'[c] \in Nat /\ v.second \in Int
  BY LimitsAssumption DEF Typed, Times, Values, Before
<1>2. began[c] <= now /\ now <= now' BY <1>1 DEF InOrder, TimeMoves
<1>3. pc[c] # "new" BY DEF Spoken
<1>4. pc'[c] # "new" BY <1>3 DEF SpeaksOn
<1>5. pc'[c] \in {"asking", "waiting", "heard", "look"} => v.second < now'
  <2> SUFFICES ASSUME pc'[c] \in {"asking", "waiting", "heard", "look"} PROVE v.second < now'
    OBVIOUS
  <2>1. pc[c] \in {"asking", "waiting", "heard", "look"} \/ (pc[c] = "held" /\ now > began[c])
    BY <1>3 DEF SpeaksOn, Preparing
  <2> QED BY <1>1, <1>2, <2>1 DEF Spoken
<1>6. AtWork(c)' => v.second < began'[c] BY <1>1, <1>2 DEF SpeaksOn, Spoken
<1>7. pc'[c] \in {"finish", "held"} => v.second <= began'[c]
  <2> SUFFICES ASSUME pc'[c] \in {"finish", "held"} PROVE v.second <= began'[c] OBVIOUS
  <2>1. CASE pc[c] \in {"patch", "reread", "finish", "held"} /\ began'[c] = began[c]
    BY <1>1, <2>1 DEF Spoken, AtWork
  <2>2. CASE pc[c] \in {"look", "heard"} /\ began'[c] = now
    BY <1>1, <2>2 DEF Spoken
  <2> QED BY <2>1, <2>2 DEF SpeaksOn
<1> QED BY <1>4, <1>5, <1>6, <1>7 DEF Spoken

LEMMA ValuesStayOnce ==
  ASSUME WakeInv, Step
  PROVE  ValuesOnce'
<1>1. /\ Typed /\ InOrder /\ Typed' /\ TimeMoves /\ Moves /\ ValuesMove /\ ValuesOnce
  BY DEF WakeInv, Step
<1>2. mw \in Workload BY <1>1 DEF Typed
<1>3. mw.stamp \in Values /\ mw.recorded \in Values BY <1>2 DEF Workload
<1>4. mw'.recorded \in {mw.recorded, mw.stamp}
  <2>1. CASE SamePause BY <2>1 DEF SamePause
  <2>2. CASE Restamped BY <1>2, <2>2 DEF Restamped, Workload
  <2>3. CASE Awakens BY <1>2, <2>3 DEF Awakens, Workload
  <2>4. CASE Begins BY <1>2, <2>4 DEF Begins, Workload
  <2>5. CASE Completes BY <1>2, <2>5 DEF Completes, Workload
  <2> QED BY <1>1, <2>1, <2>2, <2>3, <2>4, <2>5 DEF Moves
<1> SUFFICES ASSUME NEW c \in Conns PROVE Spoken(c, mw.stamp)' /\ Spoken(c, mw.recorded)'
  BY DEF ValuesOnce
<1>5. \A v \in Values : Spoken(c, v) => Spoken(c, v)' BY <1>1, SpokenLasts DEF ValuesMove
<1>6. Spoken(c, mw.recorded)' BY <1>1, <1>3, <1>4, <1>5 DEF ValuesOnce, Spoken
<1>7. Spoken(c, mw.stamp)' BY <1>1, <1>3, <1>5 DEF ValuesOnce, ValuesMove, Spoken
<1> QED BY <1>6, <1>7

LEMMA StepKeeps ==
  ASSUME WakeInv, Step
  PROVE  WakeInv'
<1>1. CachesRight' BY CachesStayRight DEF WakeInv, Step
<1> QED BY <1>1, TimeKeepsOrder, CopiesStayRight, RecordsStayRight, ToldStaysRight, ValuesStayOnce
        DEF WakeInv, Step
----------------------------------------------------------------------------
(* A connection's steps. *)

\* Most steps leave the workload, the caches, and what's remembered, alone.
LEMMA Alone ==
  ASSUME Typed, mw' = mw, now' = now, seen' = seen, seenFresh' = seenFresh
  PROVE  /\ Moves /\ CachesMove /\ mw'.stamp = mw.stamp
         /\ stamped' = stamped => RecordsMove
         /\ (\A c \in Conns : began'[c] \in {began[c], now, 0}) => TimeMoves
BY DEF Moves, SamePause, CachesMove, RecordsMove, TimeMoves

LEMMA AskSteps ==
  ASSUME WakeInv, NEW c \in Conns, Ask(c)
  PROVE  Step
<1>1. Typed BY DEF WakeInv
<1>2. /\ mw' = mw /\ now' = now /\ seen' = seen /\ seenFresh' = seenFresh /\ stamped' = stamped
      /\ copy' = copy /\ fresh' = fresh /\ began' = began /\ call' = call /\ announced' = announced
      /\ pc[c] \in {"new", "asking"}
      /\ pc' = [pc EXCEPT ![c] = "look"] \/ pc' = [pc EXCEPT ![c] = "waiting"]
  BY DEF Ask, replicas, local, Goto
<1>3. pc' \in [Conns -> Steps] BY <1>1, <1>2 DEF Typed, Steps
<1>4. Typed' BY <1>1, <1>2, <1>3 DEF Typed
<1>5. \A d \in Conns : pc'[d] = pc[d] \/ (d = c /\ pc'[d] \in {"look", "waiting"})
  BY <1>1, <1>2 DEF Typed
<1>6. CopiesMove BY <1>2, <1>5 DEF CopiesMove, AtWork
<1>7. ToldMoves BY <1>2, <1>5 DEF ToldMoves, Told
<1>8. ValuesMove BY <1>2, <1>5 DEF ValuesMove, SpeaksOn, Preparing, AtWork
<1> QED BY <1>1, <1>2, <1>4, <1>6, <1>7, <1>8, Alone DEF Step

\* What a look that asks for nothing says of the pause.
LEMMA LookedStamped ==
  ASSUME WakeInv, NEW r \in Replicas, ~NeedsWake(seen[r]) \/ Trusted(r, seen[r])
  PROVE  Stamped(PauseOf(seen[r]))
<1>1. /\ Typed /\ mw \in Workload /\ seen[r] \in Workload /\ OfLastPause(seen[r])
      /\ Stamped(stamped[r].pausedAt)
  BY DEF WakeInv, Typed, CachesRight, Remembered
<1>2. mw.pausedAt \in Nat BY <1>1, LimitsAssumption DEF Workload, Times
<1>3. CASE seen[r].phase # "paused" BY <1>2, <1>3 DEF PauseOf, Stamped, Before
<1>4. CASE seen[r].phase = "paused"
  <2>1. PauseOf(seen[r]) = mw.pausedAt BY <1>1, <1>4 DEF PauseOf, OfLastPause
  <2>2. CASE ~NeedsWake(seen[r])
    BY <1>1, <1>2, <1>4, <2>1, <2>2 DEF OfLastPause, Stamped
  <2>3. CASE Trusted(r, seen[r])
    BY <1>1, <1>2, <1>4, <2>1, <2>3 DEF OfLastPause, Trusted, Stamped
  <2> QED BY <2>2, <2>3
<1> QED BY <1>3, <1>4

LEMMA LookSteps ==
  ASSUME WakeInv, NEW c \in Conns, Look(c)
  PROVE  Step
<1> DEFINE r == ReplicaOf[c]
           w == seen[r]
<1>1. Typed /\ r \in Replicas BY ReplicaHolds DEF WakeInv
<1>2. w \in Workload /\ PauseOf(w) \in Times \cup {Before} /\ now \in Times
  BY <1>1, PauseTyped DEF Typed
<1>3. /\ mw' = mw /\ now' = now /\ seen' = seen /\ seenFresh' = seenFresh /\ stamped' = stamped
      /\ announced' = announced /\ pc[c] = "look" /\ began' = [began EXCEPT ![c] = now]
  BY DEF Look
<1>4. began' \in [Conns -> Times] BY <1>1, <1>2, <1>3 DEF Typed
<1>5. \A d \in Conns : began'[d] = IF d = c THEN now ELSE began[d] BY <1>1, <1>3 DEF Typed
<1>6. Moves /\ CachesMove /\ RecordsMove /\ TimeMoves BY <1>1, <1>3, <1>5, Alone
<1>7. CASE \E said \in {"ok", "clicked", "limited"} :
             /\ Came(c, said, PauseOf(w)) /\ UNCHANGED <<copy, fresh>>
             /\ said = "ok" => ~NeedsWake(w) \/ Trusted(r, w)
  <2>1. PICK said \in {"ok", "clicked", "limited"} :
             /\ Came(c, said, PauseOf(w)) /\ copy' = copy /\ fresh' = fresh
             /\ said = "ok" => ~NeedsWake(w) \/ Trusted(r, w)
    BY <1>7
  <2>2. /\ call' \in [Conns -> Call] /\ pc' \in [Conns -> Steps]
        /\ call' = [call EXCEPT ![c] =
             [result |-> said, source |-> SourceOf[c], pause |-> PauseOf(w)]]
        /\ pc' = [pc EXCEPT ![c] = "finish"]
    BY <1>1, <1>2, <2>1, CameTyped DEF Results
  <2>3. Typed' BY <1>1, <1>3, <1>4, <2>1, <2>2 DEF Typed
  <2>4. /\ \A d \in Conns : d # c => pc'[d] = pc[d] /\ call'[d] = call[d]
        /\ pc'[c] = "finish" /\ call'[c].result = said /\ call'[c].pause = PauseOf(w)
    BY <1>1, <2>2 DEF Typed
  <2>5. CopiesMove BY <1>3, <2>1, <2>4 DEF CopiesMove, AtWork
  <2>6. ToldMoves
    <3> SUFFICES ASSUME NEW d \in Conns, Told(d)'
                 PROVE  \/ Stamped(call[d].pause)'
                        \/ \E e \in Conns : Told(e) /\ call'[d].pause = call[e].pause
      BY DEF ToldMoves
    <3>1. CASE d # c BY <2>4, <3>1 DEF Told
    <3>2. CASE d = c
      <4>1. said = "ok" BY <2>4, <3>2 DEF Told
      <4>2. Stamped(PauseOf(w)) BY <1>1, <2>1, <4>1, LookedStamped
      <4> QED BY <1>3, <2>4, <3>2, <4>2 DEF Stamped, NeedsWake
    <3> QED BY <3>1, <3>2
  <2>7. ValuesMove
    BY <1>3, <1>5, <2>4 DEF ValuesMove, SpeaksOn, Preparing, AtWork
  <2> QED BY <1>6, <2>3, <2>5, <2>6, <2>7 DEF Step
<1>8. CASE /\ NeedsWake(w)
           /\ copy' = [copy EXCEPT ![c] = w] /\ fresh' = [fresh EXCEPT ![c] = seenFresh[r]]
           /\ call' = [call EXCEPT ![c].pause = w.pausedAt]
           /\ Goto(c, "patch")
  <2>1. pc' = [pc EXCEPT ![c] = "patch"] BY <1>8 DEF Goto
  <2>2. pc' \in [Conns -> Steps] BY <1>1, <2>1 DEF Typed, Steps
  <2>3. copy' \in [Conns -> Workload] /\ fresh' \in [Conns -> BOOLEAN]
    BY <1>1, <1>2, <1>8 DEF Typed
  <2>4. call' \in [Conns -> Call]
    <3>1. call[c] \in Call /\ w.pausedAt \in Times \cup {Before}
      BY <1>1, <1>2, PauseTyped DEF Typed
    <3>2. [call[c] EXCEPT !.pause = w.pausedAt] \in Call BY <3>1 DEF Call
    <3>3. call' = [call EXCEPT ![c] = [call[c] EXCEPT !.pause = w.pausedAt]] BY <1>8
    <3> QED BY <1>1, <3>2, <3>3 DEF Typed
  <2>5. Typed' BY <1>1, <1>3, <1>4, <2>2, <2>3, <2>4 DEF Typed
  <2>6. call'[c].pause = w.pausedAt
    <3>1. call[c] \in Call BY <1>1 DEF Typed
    <3> QED BY <1>1, <1>8, <3>1 DEF Typed, Call
  <2>7. /\ \A d \in Conns : d # c =>
             pc'[d] = pc[d] /\ call'[d] = call[d] /\ copy'[d] = copy[d] /\ fresh'[d] = fresh[d]
        /\ pc'[c] = "patch" /\ copy'[c] = w /\ fresh'[c] = seenFresh[r]
    BY <1>1, <1>8, <2>1 DEF Typed
  <2>8. CopiesMove BY <1>3, <1>8, <2>6, <2>7 DEF CopiesMove, AtWork
  <2>9. ToldMoves BY <2>7 DEF ToldMoves, Told
  <2>10. ValuesMove BY <1>3, <1>5, <2>7 DEF ValuesMove, SpeaksOn, Preparing, AtWork
  <2> QED BY <1>6, <2>5, <2>8, <2>9, <2>10 DEF Step
<1> QED BY <1>7, <1>8 DEF Look
\* A stamp of c's that lands, whether or not its answer is heard.
LEMMA LandsSteps ==
  ASSUME WakeInv, NEW c \in Conns, pc[c] = "patch",
         NEW n \in Nat, Write([mw EXCEPT !.stamp = NewValue(copy[c], began[c], c)], n),
         NEW said \in {"ok", "failed"}, NEW p \in Times \cup {Before}, Came(c, said, p),
         p = IF said = "ok" THEN PauseOf(copy[c]) ELSE Before,
         stamped' = Recorded(ReplicaOf[c], c, said = "ok"),
         now' = now, seen' = seen, copy' = copy, began' = began
  PROVE  Step
<1> DEFINE r == ReplicaOf[c]
           v == NewValue(copy[c], began[c], c)
<1>1. Typed /\ r \in Replicas /\ AtWork(c) BY ReplicaHolds DEF WakeInv, AtWork
<1>2. /\ v \in Values /\ v.second = began[c] /\ v.nano \in {c, NoConn}
      /\ v \notin {Unset, mw.recorded} /\ [mw EXCEPT !.stamp = v] \in Workload
  BY <1>1, LandedTyped DEF WakeInv
<1>3. /\ mw' = [mw EXCEPT !.stamp = v] /\ mw' \in Workload /\ announced' \in Nat
      /\ seenFresh' \in [Replicas -> BOOLEAN] /\ fresh' \in [Conns -> BOOLEAN]
      /\ \A q \in Replicas : ~seenFresh'[q]
      /\ \A d \in Conns : ~fresh'[d]
  BY <1>1, <1>2, WriteTyped DEF Write
<1>4. Moves BY <1>2, <1>3 DEF Moves, Restamped
<1>5. /\ call' \in [Conns -> Call] /\ pc' \in [Conns -> Steps]
      /\ \A d \in Conns : d # c => pc'[d] = pc[d] /\ call'[d] = call[d]
      /\ pc'[c] = "finish" /\ call'[c].result = said /\ call'[c].pause = p
  BY <1>1, CameTyped DEF Typed, Results
<1>6. call[c].pause \in Times \cup {Before} /\ began[c] \in Times /\ mw \in Workload
  BY <1>1 DEF Typed, Call
<1>7. /\ call[c].pause = mw.pausedAt /\ copy[c].pausedAt = mw.pausedAt
      /\ copy[c].phase = "paused" /\ mw'.pausedAt = mw.pausedAt
  BY <1>1, <1>3, <1>6 DEF WakeInv, CopiesRight, OfLastPause, NeedsWake, Workload
<1>8. Stamped(mw.pausedAt)'
  <2>1. mw'.stamp = v /\ mw'.recorded = mw.recorded BY <1>3, <1>6 DEF Workload
  <2>2. ~NeedsWake(mw)' BY <1>2, <2>1 DEF NeedsWake
  <2>3. mw.pausedAt \in Nat BY <1>6, LimitsAssumption DEF Workload, Times
  <2> QED BY <1>7, <2>2, <2>3 DEF Stamped
<1>9. /\ stamped' \in [Replicas -> StampRecord]
      /\ \A q \in Replicas : stamped'[q] = stamped[q] \/ stamped'[q].pausedAt = mw.pausedAt
  <2>1. CASE said = "failed" BY <1>1, <2>1 DEF Recorded, Typed
  <2>2. CASE said = "ok"
    <3>1. [pausedAt |-> call[c].pause, at |-> began[c]] \in StampRecord BY <1>6 DEF StampRecord
    <3>2. stamped' = [stamped EXCEPT ![r] = [pausedAt |-> call[c].pause, at |-> began[c]]]
      BY <2>2 DEF Recorded
    <3> QED BY <1>1, <1>7, <3>1, <3>2 DEF Typed
  <2> QED BY <2>1, <2>2
<1>10. Typed' BY <1>1, <1>3, <1>5, <1>9 DEF Typed
<1>11. TimeMoves BY DEF TimeMoves
<1>12. CachesMove BY <1>3 DEF CachesMove
<1>13. CopiesMove BY <1>3, <1>5 DEF CopiesMove, AtWork
<1>14. RecordsMove
  <2> SUFFICES ASSUME NEW q \in Replicas
               PROVE  stamped'[q] \in {stamped[q], NoStamp} \/ Stamped(stamped[q].pausedAt)'
    BY DEF RecordsMove
  <2> QED BY <1>8, <1>9, <1>7 DEF Stamped
<1>15. ToldMoves
  <2> SUFFICES ASSUME NEW d \in Conns, Told(d)'
               PROVE  \/ Stamped(call[d].pause)'
                      \/ \E e \in Conns : Told(e) /\ call'[d].pause = call[e].pause
    BY DEF ToldMoves
  <2>1. CASE d # c BY <1>5, <2>1 DEF Told
  <2>2. CASE d = c
    <3>1. said = "ok" BY <1>5, <2>2 DEF Told
    <3>2. call'[d].pause = mw.pausedAt BY <1>5, <1>7, <2>2, <3>1 DEF PauseOf
    <3> QED BY <1>7, <1>8, <3>2 DEF Stamped
  <2> QED BY <2>1, <2>2
<1>16. ValuesMove
  <2>1. \A d \in Conns : SpeaksOn(d) BY <1>5 DEF SpeaksOn, Preparing, AtWork
  <2>2. \A d \in Conns : Spoken(d, mw.stamp)'
    <3> SUFFICES ASSUME NEW d \in Conns PROVE Spoken(d, mw.stamp)' OBVIOUS
    <3>1. mw'.stamp = v BY <1>3, <1>6 DEF Workload
    <3>2. d # c => v.nano # d BY <1>2, ConnsAssumption
    <3>3. began[c] \in Nat BY <1>6, LimitsAssumption DEF Times
    <3> QED BY <1>2, <1>5, <3>1, <3>2, <3>3 DEF Spoken, AtWork
  <2> QED BY <2>1, <2>2 DEF ValuesMove
<1> QED BY <1>4, <1>10, <1>11, <1>12, <1>13, <1>14, <1>15, <1>16 DEF Step

LEMMA PatchSteps ==
  ASSUME WakeInv, NEW c \in Conns, Patch(c)
  PROVE  Step
<1> DEFINE r == ReplicaOf[c]
           v == NewValue(copy[c], began[c], c)
<1>1. Typed /\ r \in Replicas BY ReplicaHolds DEF WakeInv
<1>2. /\ pc[c] = "patch" /\ now' = now /\ seen' = seen /\ copy' = copy /\ began' = began
  BY DEF Patch
<1>3. PauseOf(copy[c]) \in Times \cup {Before} /\ Before \in Times \cup {Before}
  BY <1>1, PauseTyped DEF Typed
<1>4. CASE \E n \in {0, 1} :
             /\ Write([mw EXCEPT !.stamp = v], n)
             /\ stamped' = Recorded(r, c, TRUE) /\ Came(c, "ok", PauseOf(copy[c]))
  <2>1. stamped' = Recorded(r, c, "ok" = "ok") BY <1>4 DEF Recorded
  <2> QED BY <1>2, <1>3, <1>4, <2>1, LandsSteps
<1>5. CASE /\ Write([mw EXCEPT !.stamp = v], 0)
           /\ stamped' = Recorded(r, c, FALSE) /\ Came(c, "failed", Before)
  <2>1. stamped' = Recorded(r, c, "failed" = "ok") BY <1>5 DEF Recorded
  <2> QED BY <1>2, <1>3, <1>5, <2>1, LandsSteps
<1>6. CASE /\ Goto(c, "reread") /\ UNCHANGED <<mw, seenFresh, fresh, announced, stamped, call>>
  <2>1. /\ pc' \in [Conns -> Steps] /\ pc'[c] = "reread"
        /\ \A d \in Conns : d # c => pc'[d] = pc[d]
    BY <1>1, <1>6 DEF Typed, Goto, Steps
  <2>2. Typed' BY <1>1, <1>2, <1>6, <2>1 DEF Typed
  <2>3. CopiesMove BY <1>2, <1>6, <2>1 DEF CopiesMove, AtWork
  <2>4. ToldMoves BY <1>6, <2>1 DEF ToldMoves, Told
  <2>5. ValuesMove BY <1>2, <1>6, <2>1 DEF ValuesMove, SpeaksOn, Preparing, AtWork
  <2> QED BY <1>1, <1>2, <1>6, <2>2, <2>3, <2>4, <2>5, Alone DEF Step
<1>7. CASE /\ stamped' = Recorded(r, c, FALSE) /\ Came(c, "failed", Before)
           /\ UNCHANGED <<mw, seenFresh, fresh, announced>>
  <2>1. stamped' = stamped BY <1>7 DEF Recorded
  <2>2. /\ call' \in [Conns -> Call] /\ pc' \in [Conns -> Steps]
        /\ \A d \in Conns : d # c => pc'[d] = pc[d] /\ call'[d] = call[d]
        /\ pc'[c] = "finish" /\ call'[c].result = "failed"
    BY <1>1, <1>3, <1>7, CameTyped DEF Typed, Results
  <2>3. Typed' BY <1>1, <1>2, <1>7, <2>1, <2>2 DEF Typed
  <2>4. CopiesMove BY <1>2, <1>7, <2>2 DEF CopiesMove, AtWork
  <2>5. ToldMoves BY <2>2 DEF ToldMoves, Told
  <2>6. ValuesMove BY <1>2, <1>7, <2>2 DEF ValuesMove, SpeaksOn, Preparing, AtWork
  <2> QED BY <1>1, <1>2, <1>7, <2>1, <2>3, <2>4, <2>5, <2>6, Alone DEF Step
<1> QED BY <1>4, <1>5, <1>6, <1>7 DEF Patch

LEMMA RereadSteps ==
  ASSUME WakeInv, NEW c \in Conns, Reread(c)
  PROVE  Step
<1> DEFINE r == ReplicaOf[c]
           w == seen[r]
<1>1. Typed /\ r \in Replicas /\ AtWork(c) BY ReplicaHolds DEF WakeInv, Reread, AtWork
<1>2. /\ pc[c] = "reread" /\ mw' = mw /\ now' = now /\ seen' = seen /\ seenFresh' = seenFresh
      /\ began' = began /\ announced' = announced
  BY DEF Reread
<1>3. /\ w \in Workload /\ PauseOf(w) \in Times \cup {Before} /\ mw \in Workload
      /\ OfLastPause(w) /\ call[c].pause = mw.pausedAt
      /\ mw.phase = "paused" => w.phase = "paused"
  BY <1>1, PauseTyped DEF Typed, WakeInv, CachesRight, CopiesRight
<1>4. CASE NeedsWake(w)
  <2>1. /\ copy' = [copy EXCEPT ![c] = w] /\ fresh' = [fresh EXCEPT ![c] = seenFresh[r]]
        /\ pc' = [pc EXCEPT ![c] = "patch"] /\ call' = call /\ stamped' = stamped
    BY <1>4 DEF Reread, Goto
  <2>2. /\ pc' \in [Conns -> Steps] /\ pc'[c] = "patch"
        /\ copy' \in [Conns -> Workload] /\ fresh' \in [Conns -> BOOLEAN]
        /\ \A d \in Conns : d # c => pc'[d] = pc[d] /\ copy'[d] = copy[d] /\ fresh'[d] = fresh[d]
        /\ copy'[c] = w /\ fresh'[c] = seenFresh[r]
    BY <1>1, <1>3, <2>1 DEF Typed, Steps
  <2>3. Typed' BY <1>1, <1>2, <2>1, <2>2 DEF Typed
  <2>4. w.pausedAt = mw.pausedAt BY <1>3, <1>4 DEF OfLastPause, NeedsWake
  <2>5. CopiesMove BY <1>2, <1>3, <1>4, <2>1, <2>2, <2>4 DEF CopiesMove, AtWork
  <2>6. ToldMoves BY <2>1, <2>2 DEF ToldMoves, Told
  <2>7. ValuesMove BY <1>2, <2>2 DEF ValuesMove, SpeaksOn, Preparing, AtWork
  <2> QED BY <1>1, <1>2, <2>1, <2>3, <2>5, <2>6, <2>7, Alone DEF Step
<1>5. CASE ~NeedsWake(w)
  <2>1. /\ stamped' = Recorded(r, c, TRUE) /\ Came(c, "ok", PauseOf(w))
        /\ copy' = copy /\ fresh' = fresh
    BY <1>5 DEF Reread
  <2>2. mw.pausedAt \in Nat BY <1>3, LimitsAssumption DEF Workload, Times
  <2>3. Stamped(mw.pausedAt) /\ Stamped(PauseOf(w))
    BY <1>3, <1>5, <2>2 DEF Stamped, OfLastPause, PauseOf, Before
  <2>4. /\ call' \in [Conns -> Call] /\ pc' \in [Conns -> Steps]
        /\ \A d \in Conns : d # c => pc'[d] = pc[d] /\ call'[d] = call[d]
        /\ pc'[c] = "finish" /\ call'[c].pause = PauseOf(w)
    BY <1>1, <1>3, <2>1, CameTyped DEF Typed, Results
  <2>5. stamped' = [stamped EXCEPT ![r] = [pausedAt |-> call[c].pause, at |-> began[c]]]
    BY <2>1 DEF Recorded
  <2>6. [pausedAt |-> call[c].pause, at |-> began[c]] \in StampRecord
    BY <1>1 DEF Typed, Call, StampRecord
  <2>7. /\ stamped' \in [Replicas -> StampRecord]
        /\ \A q \in Replicas : stamped'[q] = stamped[q] \/ stamped'[q].pausedAt = mw.pausedAt
    BY <1>1, <1>3, <2>5, <2>6 DEF Typed
  <2>8. Typed' BY <1>1, <1>2, <2>1, <2>4, <2>7 DEF Typed
  <2>9. RecordsMove BY <1>2, <2>3, <2>7 DEF RecordsMove, Stamped, NeedsWake
  <2>10. ToldMoves BY <1>2, <2>3, <2>4 DEF ToldMoves, Told, Stamped, NeedsWake
  <2>11. CopiesMove BY <1>2, <2>1, <2>4 DEF CopiesMove, AtWork
  <2>12. ValuesMove BY <1>2, <2>4 DEF ValuesMove, SpeaksOn, Preparing, AtWork
  <2> QED BY <1>1, <1>2, <2>8, <2>9, <2>10, <2>11, <2>12, Alone DEF Step
<1> QED BY <1>4, <1>5

LEMMA FinishSteps ==
  ASSUME WakeInv, NEW c \in Conns, Finish(c)
  PROVE  Step
<1> DEFINE r == ReplicaOf[c]
<1>1. Typed BY DEF WakeInv
<1>2. /\ pc[c] = "finish" /\ mw' = mw /\ now' = now /\ seen' = seen /\ seenFresh' = seenFresh
      /\ stamped' = stamped /\ announced' = announced
      /\ copy' = [copy EXCEPT ![c] = Asleep] /\ fresh' = [fresh EXCEPT ![c] = FALSE]
      /\ began' = [began EXCEPT ![c] = IF call[c].result = "ok" THEN 0 ELSE @]
  BY DEF Finish, replicas
<1>3. /\ call' = [d \in Conns |-> IF d \in Waiting(r) THEN call[c] ELSE call[d]]
      /\ pc' = [d \in Conns |->
           IF d = c THEN After(call[c].result) ELSE IF d \in Waiting(r) THEN "heard" ELSE pc[d]]
  BY DEF Finish
<1>4. 0 \in Times /\ Asleep \in Workload
  BY LimitsAssumption DEF Asleep, Workload, Phases, Unset, Values, Times
<1>5. call' \in [Conns -> Call] BY <1>1, <1>3 DEF Typed
<1>6. pc' \in [Conns -> Steps] BY <1>1, <1>3 DEF Typed, Steps, After
<1>7. /\ copy' \in [Conns -> Workload] /\ fresh' \in [Conns -> BOOLEAN]
      /\ began' \in [Conns -> Times]
      /\ \A d \in Conns : d # c =>
           copy'[d] = copy[d] /\ fresh'[d] = fresh[d] /\ began'[d] = began[d]
      /\ began'[c] \in {began[c], 0} /\ (call[c].result # "ok" => began'[c] = began[c])
    BY <1>1, <1>2, <1>4 DEF Typed
<1>8. Typed' BY <1>1, <1>2, <1>5, <1>6, <1>7 DEF Typed
<1>9. c \notin Waiting(r) BY <1>2 DEF Waiting
<1>10. pc'[c] = After(call[c].result) /\ call'[c] = call[c] BY <1>3, <1>9
<1>11. \A d \in Conns : d # c =>
         \/ pc[d] = "waiting" /\ pc'[d] = "heard" /\ call'[d] = call[c]
         \/ pc'[d] = pc[d] /\ call'[d] = call[d]
  BY <1>3 DEF Waiting
<1>12. CopiesMove BY <1>2, <1>7, <1>10, <1>11 DEF CopiesMove, AtWork, After
<1>13. ToldMoves
  <2> SUFFICES ASSUME NEW d \in Conns, Told(d)'
               PROVE  \E e \in Conns : Told(e) /\ call'[d].pause = call[e].pause
    BY DEF ToldMoves
  <2>1. CASE d = c BY <1>2, <1>10, <2>1 DEF Told, After
  <2>2. CASE pc[d] = "waiting" /\ pc'[d] = "heard" /\ call'[d] = call[c]
    BY <1>2, <2>2 DEF Told
  <2>3. CASE pc'[d] = pc[d] /\ call'[d] = call[d] BY <2>3 DEF Told
  <2> QED BY <1>11, <2>1, <2>2, <2>3
<1>14. ValuesMove
  <2>1. SpeaksOn(c) BY <1>2, <1>7, <1>10 DEF SpeaksOn, Preparing, AtWork, After
  <2>2. \A d \in Conns : d # c => SpeaksOn(d)
    BY <1>7, <1>11 DEF SpeaksOn, Preparing, AtWork
  <2> QED BY <1>2, <2>1, <2>2 DEF ValuesMove
<1>15. \A d \in Conns : began'[d] \in {began[d], now, 0} BY <1>7
<1> QED BY <1>1, <1>2, <1>8, <1>12, <1>13, <1>14, <1>15, Alone DEF Step
LEMMA HearSteps ==
  ASSUME WakeInv, NEW c \in Conns, Hear(c)
  PROVE  Step
<1>1. Typed BY DEF WakeInv
<1>2. /\ pc[c] = "heard" /\ mw' = mw /\ now' = now /\ seen' = seen /\ seenFresh' = seenFresh
      /\ stamped' = stamped /\ announced' = announced /\ copy' = copy /\ fresh' = fresh
      /\ call' = call
      /\ began' = [began EXCEPT ![c] = IF call[c].result = "ok" THEN 0 ELSE now]
      /\ pc' = [pc EXCEPT ![c] = IF OthersLimit(c) THEN "asking" ELSE After(call[c].result)]
  BY DEF Hear, replicas, Goto
<1>3. 0 \in Times /\ now \in Times BY <1>1, LimitsAssumption DEF Typed, Times
<1>4. began' \in [Conns -> Times] /\ pc' \in [Conns -> Steps]
  BY <1>1, <1>2, <1>3 DEF Typed, Steps, After
<1>5. /\ \A d \in Conns : d # c => pc'[d] = pc[d] /\ began'[d] = began[d]
      /\ pc'[c] \in {"asking", "woken", "held"} /\ began'[c] \in {0, now}
      /\ pc'[c] = "woken" => call[c].result = "ok"
      /\ pc'[c] = "held" => began'[c] = now
  BY <1>1, <1>2 DEF Typed, After
<1>6. Typed' BY <1>1, <1>2, <1>4 DEF Typed
<1>7. CopiesMove BY <1>2, <1>5 DEF CopiesMove, AtWork
<1>8. ToldMoves BY <1>2, <1>5 DEF ToldMoves, Told
<1>9. ValuesMove BY <1>2, <1>5 DEF ValuesMove, SpeaksOn, Preparing, AtWork
<1>10. \A d \in Conns : began'[d] \in {began[d], now, 0} BY <1>5
<1> QED BY <1>1, <1>2, <1>6, <1>7, <1>8, <1>9, <1>10, Alone DEF Step

LEMMA RetrySteps ==
  ASSUME WakeInv, NEW c \in Conns, Retry(c)
  PROVE  Step
<1>1. Typed BY DEF WakeInv
<1>2. /\ pc[c] = "held" /\ mw' = mw /\ now' = now /\ seen' = seen /\ seenFresh' = seenFresh
      /\ stamped' = stamped /\ announced' = announced /\ copy' = copy /\ fresh' = fresh
      /\ call' = call /\ began' = began /\ now > began[c] /\ pc' = [pc EXCEPT ![c] = "asking"]
  BY DEF Retry, replicas, local, Goto
<1>3. /\ pc' \in [Conns -> Steps] /\ pc'[c] = "asking"
      /\ \A d \in Conns : d # c => pc'[d] = pc[d]
  BY <1>1, <1>2 DEF Typed, Steps
<1>4. Typed' BY <1>1, <1>2, <1>3 DEF Typed
<1>5. CopiesMove BY <1>2, <1>3 DEF CopiesMove, AtWork
<1>6. ToldMoves BY <1>2, <1>3 DEF ToldMoves, Told
<1>7. ValuesMove BY <1>2, <1>3 DEF ValuesMove, SpeaksOn, Preparing, AtWork
<1> QED BY <1>1, <1>2, <1>4, <1>5, <1>6, <1>7, Alone DEF Step

\* Connections that end, alone or with their replica.
LEMMA EndsMove ==
  ASSUME Typed, NEW S, Forgets(S), mw' = mw, now' = now, stamped' \in [Replicas -> StampRecord],
         seen' \in [Replicas -> Workload], seenFresh' \in [Replicas -> BOOLEAN],
         announced' = announced,
         pc' = [c \in Conns |-> IF c \in S THEN "gone" ELSE pc[c]]
  PROVE  /\ Typed' /\ Moves /\ TimeMoves /\ CopiesMove /\ ToldMoves /\ ValuesMove
<1>1. /\ copy' \in [Conns -> Workload] /\ fresh' \in [Conns -> BOOLEAN]
      /\ began' \in [Conns -> Times] /\ call' \in [Conns -> Call]
  BY ForgetsTyped
<1>2. pc' \in [Conns -> Steps] BY DEF Typed, Steps
<1>3. Typed' BY <1>1, <1>2 DEF Typed
<1>4. /\ \A c \in Conns \ S : /\ pc'[c] = pc[c] /\ copy'[c] = copy[c] /\ began'[c] = began[c]
                              /\ call'[c] = call[c] /\ (fresh'[c] => fresh[c])
      /\ \A c \in Conns \cap S : pc'[c] = "gone" /\ began'[c] = 0
  BY DEF Forgets
<1>5. Moves /\ TimeMoves BY <1>4 DEF Moves, SamePause, TimeMoves
<1>6. CopiesMove BY <1>4 DEF CopiesMove, AtWork
<1>7. ToldMoves BY <1>4 DEF ToldMoves, Told
<1>8. ValuesMove BY <1>4 DEF ValuesMove, SpeaksOn, Preparing, AtWork
<1> QED BY <1>3, <1>5, <1>6, <1>7, <1>8

LEMMA LeaveSteps ==
  ASSUME WakeInv, NEW c \in Conns, Leave(c)
  PROVE  Step
<1>1. Typed BY DEF WakeInv
<1>2. /\ Forgets({c}) /\ mw' = mw /\ now' = now /\ seen' = seen /\ seenFresh' = seenFresh
      /\ stamped' = stamped /\ announced' = announced /\ pc' = [pc EXCEPT ![c] = "gone"]
  BY DEF Leave, replicas, Goto
<1>3. pc' = [d \in Conns |-> IF d \in {c} THEN "gone" ELSE pc[d]] BY <1>1, <1>2 DEF Typed
<1>4. CachesMove /\ RecordsMove BY <1>1, <1>2, Alone
<1> QED BY <1>1, <1>2, <1>3, <1>4, EndsMove DEF Step, Typed

----------------------------------------------------------------------------
(* Everyone else's. *)

LEMMA RestartSteps ==
  ASSUME WakeInv, NEW r \in Replicas, Restart(r)
  PROVE  Step
<1> DEFINE its == {c \in Conns : ReplicaOf[c] = r /\ pc[c] # "new"}
<1>1. Typed BY DEF WakeInv
<1>2. /\ pc' = [c \in Conns |-> IF c \in its THEN "gone" ELSE pc[c]] /\ Forgets(its)
      /\ stamped' = [stamped EXCEPT ![r] = NoStamp]
      /\ seen' = [seen EXCEPT ![r] = mw] /\ seenFresh' = [seenFresh EXCEPT ![r] = TRUE]
      /\ now' = now /\ mw' = mw /\ announced' = announced
  BY DEF Restart
<1>3. NoStamp \in StampRecord BY LimitsAssumption DEF NoStamp, StampRecord, Times
<1>4. /\ stamped' \in [Replicas -> StampRecord] /\ seen' \in [Replicas -> Workload]
      /\ seenFresh' \in [Replicas -> BOOLEAN]
  BY <1>1, <1>2, <1>3 DEF Typed
<1>5. CachesMove BY <1>1, <1>2 DEF CachesMove, Typed
<1>6. RecordsMove BY <1>1, <1>2 DEF RecordsMove, Typed
<1> HIDE DEF its
<1> QED BY <1>1, <1>2, <1>4, <1>5, <1>6, EndsMove DEF Step

LEMMA SeeSteps ==
  ASSUME WakeInv, NEW r \in Replicas, See(r)
  PROVE  Step
<1>1. Typed BY DEF WakeInv
<1>2. /\ seen' = [seen EXCEPT ![r] = mw] /\ seenFresh' = [seenFresh EXCEPT ![r] = TRUE]
      /\ now' = now /\ mw' = mw /\ announced' = announced /\ stamped' = stamped /\ pc' = pc
      /\ copy' = copy /\ fresh' = fresh /\ began' = began /\ call' = call
  BY DEF See, local
<1>3. Typed' BY <1>1, <1>2 DEF Typed
<1>4. CachesMove BY <1>1, <1>2 DEF CachesMove, Typed
<1>5. Moves /\ TimeMoves /\ RecordsMove BY <1>2 DEF Moves, SamePause, TimeMoves, RecordsMove
<1>6. CopiesMove BY <1>2 DEF CopiesMove, AtWork
<1>7. ToldMoves BY <1>2 DEF ToldMoves, Told
<1>8. ValuesMove BY <1>2 DEF ValuesMove, SpeaksOn, Preparing, AtWork
<1> QED BY <1>3, <1>4, <1>5, <1>6, <1>7, <1>8 DEF Step

\* The operator's writes, and a portal's.
LEMMA OthersStep ==
  ASSUME WakeInv, NEW w, Write(w, 0), Others, Moves,
         mw'.stamp = mw.stamp \/ \A c \in Conns : mw'.stamp.nano # c
  PROVE  Step
<1>1. Typed BY DEF WakeInv
<1>2. /\ now' = now /\ seen' = seen /\ stamped' = stamped /\ pc' = pc /\ copy' = copy
      /\ began' = began /\ call' = call /\ mw' = w
      /\ seenFresh' = [r \in Replicas |-> FALSE] /\ fresh' = [c \in Conns |-> FALSE]
  BY DEF Others, Write
<1>3. mw' \in Workload BY <1>1, MovesTyped
<1>4. announced' \in Nat BY <1>1 DEF Typed, Write
<1>5. Typed' BY <1>1, <1>2, <1>3, <1>4 DEF Typed
<1>6. CachesMove /\ TimeMoves /\ RecordsMove
  BY <1>2 DEF CachesMove, TimeMoves, RecordsMove
<1>7. CopiesMove BY <1>2 DEF CopiesMove, AtWork
<1>8. ToldMoves BY <1>2 DEF ToldMoves, Told
<1>9. ValuesMove BY <1>2 DEF ValuesMove, SpeaksOn, Preparing, AtWork, Spoken
<1> QED BY <1>5, <1>6, <1>7, <1>8, <1>9 DEF Step

LEMMA OperatorSteps ==
  ASSUME WakeInv, Wakes \/ Runs \/ Pauses \/ Paused \/ WritesStatus
  PROVE  Step
<1>1. mw \in Workload BY DEF WakeInv, Typed
<1>2. CASE Wakes
  <2>1. mw' = [mw EXCEPT !.phase = "resuming"] /\ mw.phase = "paused" BY <1>2 DEF Wakes, Write
  <2>2. Moves BY <2>1 DEF Moves, Awakens
  <2>3. mw'.stamp = mw.stamp BY <1>1, <2>1 DEF Workload
  <2> QED BY <1>2, <2>2, <2>3, OthersStep DEF Wakes
<1>3. CASE Runs
  <2>1. mw' = [mw EXCEPT !.phase = "running"] /\ mw.phase = "resuming" BY <1>3 DEF Runs, Write
  <2>2. Moves BY <2>1 DEF Moves, Awakens
  <2>3. mw'.stamp = mw.stamp BY <1>1, <2>1 DEF Workload
  <2> QED BY <1>3, <2>2, <2>3, OthersStep DEF Runs
<1>4. CASE Pauses
  <2>1. /\ mw' = [mw EXCEPT !.phase = "pausing", !.recorded = mw.stamp]
        /\ mw.phase = "running" /\ now > mw.pausedAt /\ Settled
    BY <1>4 DEF Pauses, Write
  <2>2. mw.pausedAt < now
    <3>1. mw.pausedAt \in Nat /\ now \in Nat
      BY <1>1, LimitsAssumption DEF Workload, Times, WakeInv, Typed
    <3> QED BY <2>1, <3>1
  <2>3. Moves BY <2>1, <2>2 DEF Moves, Begins
  <2>4. mw'.stamp = mw.stamp BY <1>1, <2>1 DEF Workload
  <2> QED BY <1>4, <2>3, <2>4, OthersStep DEF Pauses
<1>5. CASE Paused
  <2>1. mw' = [mw EXCEPT !.phase = "paused", !.pausedAt = now] /\ mw.phase = "pausing"
    BY <1>5 DEF Paused, Write
  <2>2. Moves BY <2>1 DEF Moves, Completes
  <2>3. mw'.stamp = mw.stamp BY <1>1, <2>1 DEF Workload
  <2> QED BY <1>5, <2>2, <2>3, OthersStep DEF Paused
<1>6. CASE WritesStatus
  <2>1. mw' = mw BY <1>6 DEF WritesStatus, Write
  <2>2. Moves BY <2>1 DEF Moves, SamePause
  <2> QED BY <1>6, <2>1, <2>2, OthersStep DEF WritesStatus
<1> QED BY <1>2, <1>3, <1>4, <1>5, <1>6

LEMMA StampSteps ==
  ASSUME WakeInv, Stamp
  PROVE  Step
<1> DEFINE plain == [second |-> now, nano |-> NoConn]
<1>1. mw \in Workload /\ now \in Times BY DEF WakeInv, Typed
<1>2. Write([mw EXCEPT !.stamp = plain], 0) /\ Others /\ plain # mw.recorded BY DEF Stamp
<1>3. plain \in Values /\ plain # Unset
  BY <1>1, LimitsAssumption DEF Values, Unset, Before, Times
<1>4. mw' = [mw EXCEPT !.stamp = plain] BY <1>2 DEF Write
<1>5. Moves BY <1>2, <1>3, <1>4 DEF Moves, Restamped
<1>6. mw'.stamp = plain BY <1>1, <1>4 DEF Workload
<1>7. \A c \in Conns : mw'.stamp.nano # c BY <1>6, ConnsAssumption
<1> QED BY <1>2, <1>5, <1>7, OthersStep

LEMMA TickSteps ==
  ASSUME WakeInv, Tick
  PROVE  Step
<1>1. Typed BY DEF WakeInv
<1>2. /\ now < MaxTime /\ now' = now + 1 /\ mw' = mw /\ seen' = seen /\ seenFresh' = seenFresh
      /\ stamped' = stamped /\ pc' = pc /\ copy' = copy /\ fresh' = fresh /\ began' = began
      /\ call' = call /\ announced' = announced
  BY DEF Tick, local
<1>3. now' \in Times BY <1>1, <1>2, LimitsAssumption DEF Typed, Times
<1>4. Typed' BY <1>1, <1>2, <1>3 DEF Typed
<1>5. Moves /\ TimeMoves /\ CachesMove /\ RecordsMove
  BY <1>2 DEF Moves, SamePause, TimeMoves, CachesMove, RecordsMove
<1>6. CopiesMove BY <1>2 DEF CopiesMove, AtWork
<1>7. ToldMoves BY <1>2 DEF ToldMoves, Told
<1>8. ValuesMove BY <1>2 DEF ValuesMove, SpeaksOn, Preparing, AtWork
<1> QED BY <1>4, <1>5, <1>6, <1>7, <1>8 DEF Step

LEMMA StutterSteps ==
  ASSUME WakeInv, UNCHANGED vars
  PROVE  Step
<1>1. Typed BY DEF WakeInv
<1>2. /\ now' = now /\ mw' = mw /\ seen' = seen /\ seenFresh' = seenFresh
      /\ stamped' = stamped /\ pc' = pc /\ copy' = copy /\ fresh' = fresh /\ began' = began
      /\ call' = call /\ announced' = announced
  BY DEF vars, replicas, local
<1>3. Typed' BY <1>1, <1>2 DEF Typed
<1>4. Moves /\ TimeMoves /\ CachesMove /\ RecordsMove
  BY <1>2 DEF Moves, SamePause, TimeMoves, CachesMove, RecordsMove
<1>5. CopiesMove BY <1>2 DEF CopiesMove, AtWork
<1>6. ToldMoves BY <1>2 DEF ToldMoves, Told
<1>7. ValuesMove BY <1>2 DEF ValuesMove, SpeaksOn, Preparing, AtWork
<1> QED BY <1>3, <1>4, <1>5, <1>6, <1>7 DEF Step

LEMMA EveryStep ==
  ASSUME WakeInv, [Next]_vars
  PROVE  Step
<1>1. ASSUME NEW c \in Conns, Wake(c) PROVE Step
  BY <1>1, AskSteps, LookSteps, PatchSteps, RereadSteps, FinishSteps, HearSteps DEF Wake
<1>2. ASSUME NEW c \in Conns, Retry(c) \/ Leave(c) PROVE Step BY <1>2, RetrySteps, LeaveSteps
<1>3. ASSUME NEW r \in Replicas, See(r) \/ Restart(r) PROVE Step BY <1>3, SeeSteps, RestartSteps
<1>4. CASE Wakes \/ Runs \/ Pauses \/ Paused \/ WritesStatus BY <1>4, OperatorSteps
<1>5. CASE Stamp BY <1>5, StampSteps
<1>6. CASE Tick BY <1>6, TickSteps
<1>7. CASE UNCHANGED vars BY <1>7, StutterSteps
<1> QED BY <1>1, <1>2, <1>3, <1>4, <1>5, <1>6, <1>7 DEF Next

LEMMA InitWake == Init => WakeInv
<1> SUFFICES ASSUME Init PROVE WakeInv OBVIOUS
<1>1. Typed BY InitTyped
<1>2. /\ now = 0 /\ mw = Asleep /\ mw.pausedAt = 0 /\ mw.phase = "paused"
      /\ mw.stamp = Unset /\ mw.recorded = Unset
  BY DEF Init, Asleep
<1>3. InOrder BY <1>2 DEF Init, InOrder
<1>4. CachesRight BY <1>2 DEF Init, CachesRight, OfLastPause, NeedsWake, Asleep
<1>5. CopiesRight BY DEF Init, CopiesRight, AtWork
<1>6. Remembered BY <1>2 DEF Init, Remembered, Stamped, NoStamp, Before
<1>7. ToldRight BY DEF Init, ToldRight, Told
<1>8. ValuesOnce
  <2>1. \A c \in Conns : Unset.nano # c BY ConnsAssumption DEF Unset
  <2> QED BY <1>2, <2>1 DEF ValuesOnce, Spoken
<1> QED BY <1>1, <1>3, <1>4, <1>5, <1>6, <1>7, <1>8 DEF WakeInv

LEMMA WakeInvariant == Spec => []WakeInv
<1>1. Init => WakeInv BY InitWake
<1>2. WakeInv /\ [Next]_vars => WakeInv' BY EveryStep, StepKeeps
<1> QED BY <1>1, <1>2, PTL DEF Spec

\* A connection that takes its workload to be waking is right, whatever the replicas'
\* caches show, the order their writes land in, and the answers that are lost
\* (wake.go:170: "so the wake is never lost").
THEOREM NoWakeIsLost == Spec => []WakeOnItsWay
<1>1. WakeInv => WakeOnItsWay BY DEF WakeInv, ToldRight, Told, Stamped, WakeOnItsWay
<1> QED BY <1>1, WakeInvariant, PTL

\* The stamp a replica remembers for a pause is still there.
THEOREM RemembersRight == Spec => []StampsRemembered
<1>1. WakeInv => StampsRemembered BY DEF WakeInv, Remembered, Stamped, StampsRemembered
<1> QED BY <1>1, WakeInvariant, PTL
----------------------------------------------------------------------------
(* The announcements. *)

\* Only a write that finds the workload asleep, and unstamped, announces.
Announces ==
  \/ mw' = mw /\ announced' = announced
  \/ \E n \in {0, 1} :
       /\ n = 1 => NeedsWake(mw)
       /\ announced' = IF NeedsWake(mw)' THEN 0 ELSE announced + n

LEMMA WritesAnnounce ==
  ASSUME NEW w, NEW n \in {0, 1}, n = 1 => NeedsWake(mw), Write(w, n)
  PROVE  Announces
BY DEF Write, Announces, NeedsWake

LEMMA EveryStepAnnounces ==
  ASSUME WakeInv, [Next]_vars
  PROVE  Announces
<1>1. ASSUME NEW c \in Conns, Patch(c) PROVE Announces
  <2>1. pc[c] = "patch" /\ AtWork(c) BY <1>1 DEF Patch, AtWork
  <2>2. fresh[c] => NeedsWake(mw) BY <2>1 DEF WakeInv, CopiesRight
  <2> DEFINE w == [mw EXCEPT !.stamp = NewValue(copy[c], began[c], c)]
  <2>3. CASE (fresh[c] \/ ~Locked(attempt[c])) /\ Write(w, IF Announced(attempt[c]) THEN 1 ELSE 0)
    <3>1. Locked(attempt[c]) => fresh[c] BY <2>3
    <3>2. CASE Locked(attempt[c])
      <4>1. Write(w, 1) BY <2>3, <3>2 DEF Announced
      <4> HIDE DEF w
      <4> QED BY <2>2, <3>1, <3>2, <4>1, WritesAnnounce
    <3>3. CASE ~Locked(attempt[c])
      <4>1. Write(w, 0) BY <2>3, <3>3 DEF Announced
      <4> HIDE DEF w
      <4> QED BY <4>1, WritesAnnounce
    <3> QED BY <3>2, <3>3
  <2>4. CASE Write(w, 0)
    <3> HIDE DEF w
    <3> QED BY <2>4, WritesAnnounce
  <2>5. CASE UNCHANGED <<mw, seenFresh, fresh, announced>> BY <2>5 DEF Announces
  <2> QED BY <1>1, <2>3, <2>4, <2>5 DEF Patch
<1>2. ASSUME NEW c \in Conns, Ask(c) \/ Look(c) \/ Reread(c) \/ Finish(c) \/ Hear(c)
                              \/ Retry(c) \/ Leave(c)
      PROVE  Announces
  BY <1>2 DEF Ask, Look, Reread, Finish, Hear, Retry, Leave, Announces
<1>3. CASE Wakes \/ Runs \/ Pauses \/ Paused \/ WritesStatus \/ Stamp
  <2>1. PICK w : Write(w, 0) BY <1>3 DEF Wakes, Runs, Pauses, Paused, WritesStatus, Stamp
  <2> QED BY <2>1, WritesAnnounce
<1>4. ASSUME NEW r \in Replicas, See(r) \/ Restart(r) PROVE Announces
  BY <1>4 DEF See, Restart, Announces
<1>5. CASE Tick BY <1>5 DEF Tick, Announces
<1>6. CASE UNCHANGED vars BY <1>6 DEF vars, Announces
<1> QED BY <1>1, <1>2, <1>3, <1>4, <1>5, <1>6 DEF Next, Wake

\* A wake is announced once, however many replicas stamp it at the same time
\* (wake.go:165: "only the first to land announces the wake").
THEOREM WakesAreAnnouncedOnce == Spec => []AnnouncedOnce
<1>1. Init => AnnounceInv BY DEF Init, AnnounceInv, AnnouncedOnce
<1>2. WakeInv /\ AnnounceInv /\ [Next]_vars => AnnounceInv'
  <2> SUFFICES ASSUME WakeInv, AnnounceInv, [Next]_vars PROVE AnnounceInv' OBVIOUS
  <2>1. Announces BY EveryStepAnnounces
  <2>2. announced \in Nat BY DEF WakeInv, Typed
  <2>3. CASE mw' = mw /\ announced' = announced
    BY <2>3 DEF AnnounceInv, AnnouncedOnce, NeedsWake
  <2>4. CASE \E n \in {0, 1} :
               /\ n = 1 => NeedsWake(mw)
               /\ announced' = IF NeedsWake(mw)' THEN 0 ELSE announced + n
    BY <2>2, <2>4 DEF AnnounceInv, AnnouncedOnce
  <2> QED BY <2>1, <2>3, <2>4 DEF Announces
<1>3. AnnounceInv => AnnouncedOnce BY DEF AnnounceInv
<1> QED BY <1>1, <1>2, <1>3, WakeInvariant, PTL DEF Spec

----------------------------------------------------------------------------
(* The refusals. *)

\* A connection that's refused was, or has just made or heard a stamp of its own source.
Refuses ==
  \A c \in Conns : pc'[c] \in {"finish", "held"} /\ call'[c].result = "limited" =>
    \/ pc[c] \in {"finish", "held"} /\ call'[c] = call[c]
    \/ call'[c].source = SourceOf[c]

LEMMA CameRefuses ==
  ASSUME Typed, NEW c \in Conns, NEW said, NEW p, Came(c, said, p)
  PROVE  Refuses
BY DEF Typed, Came, Goto, Refuses

LEMMA EveryStepRefuses ==
  ASSUME WakeInv, [Next]_vars
  PROVE  Refuses
<1>0. Typed BY DEF WakeInv
<1>1. ASSUME NEW c \in Conns, Look(c) \/ Patch(c) \/ Reread(c) PROVE Refuses
  <2>1. CASE \E said, p : Came(c, said, p) BY <1>0, <2>1, CameRefuses
  <2>2. CASE \E goal \in {"patch", "reread"} : Goto(c, goal) /\ (\A d \in Conns : d # c => call'[d] = call[d])
    BY <1>0, <2>2 DEF Typed, Goto, Refuses
  <2>3. CASE Look(c)
    <3>1. call' = [call EXCEPT ![c].pause = seen[ReplicaOf[c]].pausedAt] =>
            \A d \in Conns : d # c => call'[d] = call[d]
      BY <1>0 DEF Typed
    <3> QED BY <2>1, <2>2, <2>3, <3>1 DEF Look
  <2>4. CASE Patch(c) BY <2>1, <2>2, <2>4 DEF Patch
  <2>5. CASE Reread(c) BY <2>1, <2>2, <2>5 DEF Reread
  <2> QED BY <1>1, <2>3, <2>4, <2>5
<1>2. ASSUME NEW c \in Conns, Ask(c) \/ Retry(c) PROVE Refuses
  BY <1>0, <1>2 DEF Typed, Ask, Retry, local, Goto, Refuses
<1>3. ASSUME NEW c \in Conns, Finish(c) PROVE Refuses
  BY <1>0, <1>3 DEF Typed, Finish, Waiting, Refuses
<1>4. ASSUME NEW c \in Conns, Hear(c) PROVE Refuses
  BY <1>0, <1>4 DEF Typed, Hear, OthersLimit, Goto, After, Refuses
<1>5. ASSUME NEW S, Forgets(S), pc' = [d \in Conns |-> IF d \in S THEN "gone" ELSE pc[d]]
      PROVE  Refuses
  BY <1>5 DEF Forgets, Refuses
<1>6. ASSUME NEW c \in Conns, Leave(c) PROVE Refuses
  <2>1. Forgets({c}) /\ pc' = [pc EXCEPT ![c] = "gone"] BY <1>6 DEF Leave, Goto
  <2>2. pc' = [d \in Conns |-> IF d \in {c} THEN "gone" ELSE pc[d]] BY <1>0, <2>1 DEF Typed
  <2> QED BY <1>5, <2>1, <2>2
<1>7. ASSUME NEW r \in Replicas, Restart(r) PROVE Refuses
  <2> DEFINE its == {c \in Conns : ReplicaOf[c] = r /\ pc[c] # "new"}
  <2>1. Forgets(its) /\ pc' = [c \in Conns |-> IF c \in its THEN "gone" ELSE pc[c]]
    BY <1>7 DEF Restart
  <2> HIDE DEF its
  <2> QED BY <1>5, <2>1
<1>8. CASE pc' = pc /\ call' = call BY <1>8 DEF Refuses
<1>9. ASSUME NEW r \in Replicas, See(r) PROVE Refuses BY <1>8, <1>9 DEF See, local
<1>10. CASE Wakes \/ Runs \/ Pauses \/ Paused \/ WritesStatus \/ Stamp
  BY <1>8, <1>10 DEF Wakes, Runs, Pauses, Paused, WritesStatus, Stamp, Others
<1>11. CASE Tick \/ UNCHANGED vars BY <1>8, <1>11 DEF Tick, vars, local
<1> QED BY <1>1, <1>2, <1>3, <1>4, <1>6, <1>7, <1>9, <1>10, <1>11 DEF Next, Wake

\* A connection is refused for its own source's limit, never for that of another whose
\* stamp it waited on (wake.go:90: "Another source's allowance says nothing about
\* this one's").
THEOREM RefusalsAreOnesOwn == Spec => []RefusedForItself
<1>1. Init => RefuseInv BY DEF Init, RefuseInv
<1>2. WakeInv /\ RefuseInv /\ [Next]_vars => RefuseInv'
  <2> SUFFICES ASSUME WakeInv, RefuseInv, [Next]_vars PROVE RefuseInv' OBVIOUS
  <2> QED BY EveryStepRefuses DEF RefuseInv, Refuses
<1>3. RefuseInv => RefusedForItself BY DEF RefuseInv, RefusedForItself
<1> QED BY <1>1, <1>2, <1>3, WakeInvariant, PTL DEF Spec


-----------------------------------------------------------------------------
(* Sums. *)

\* f[x] of each x of T.
Units(f, T) == UNION {{x} \X (1..f[x]) : x \in T}
Total(f, T) == Cardinality(Units(f, T))

LEMMA OwnUnits ==
  ASSUME NEW x, NEW n \in Nat
  PROVE  IsFiniteSet({x} \X (1..n)) /\ Cardinality({x} \X (1..n)) = n
<1>1. IsFiniteSet({x}) /\ Cardinality({x}) = 1
  BY FS_Singleton
<1>2. IsFiniteSet(1..n) /\ Cardinality(1..n) = n
  BY FS_Interval
<1>3. /\ IsFiniteSet({x} \X (1..n))
      /\ Cardinality({x} \X (1..n)) = Cardinality({x}) * Cardinality(1..n)
  BY <1>1, <1>2, FS_Product
<1> QED
  BY <1>1, <1>2, <1>3

LEMMA UnitsOf ==
  ASSUME NEW f, NEW S, IsFiniteSet(S), \A x \in S : f[x] \in Nat
  PROVE  /\ IsFiniteSet(Units(f, S)) /\ Total(f, S) \in Nat
<1> DEFINE Infinite == {s \in SUBSET S : ~IsFiniteSet(Units(f, s))}
<1>1. \A s \in SUBSET S : IsFiniteSet(s)
  BY FS_Subset
<1>2. Infinite = {}
  <2> SUFFICES ASSUME Infinite # {} PROVE FALSE
    OBVIOUS
  <2>1. IsWellFoundedOn(StrictSubsetOrdering(S), FiniteSubsetsOf(S))
    BY FS_StrictSubsetOrderingWellFounded
  <2>2. Infinite \subseteq FiniteSubsetsOf(S)
    BY <1>1 DEF FiniteSubsetsOf
  <2> HIDE DEF Infinite
  <2>3. PICK s \in Infinite : \A t \in Infinite : ~(<<t, s>> \in StrictSubsetOrdering(S))
    BY <2>1, <2>2, WFMin
  <2> USE DEF Infinite
  <2>4. s \in SUBSET S /\ ~IsFiniteSet(Units(f, s))
    OBVIOUS
  <2>5. Units(f, {}) = {}
    BY DEF Units
  <2>6. PICK x \in s : TRUE
    BY <2>4, <2>5, FS_EmptySet
  <2>7. <<s \ {x}, s>> \in StrictSubsetOrdering(S)
    BY <2>4, <2>6 DEF StrictSubsetOrdering
  <2>8. IsFiniteSet(Units(f, s \ {x}))
    BY <2>3, <2>4, <2>7
  <2>9. IsFiniteSet({x} \X (1..f[x]))
    BY <2>4, <2>6, OwnUnits
  <2>10. Units(f, s) = ({x} \X (1..f[x])) \cup Units(f, s \ {x})
    BY <2>6 DEF Units
  <2>11. IsFiniteSet(({x} \X (1..f[x])) \cup Units(f, s \ {x}))
    BY <2>8, <2>9, FS_Union
  <2> QED
    BY <2>4, <2>10, <2>11
<1>3. IsFiniteSet(Units(f, S))
  BY <1>2
<1> QED
  BY <1>3, FS_CardinalityType DEF Total

LEMMA TotalWithout ==
  ASSUME NEW f, NEW S, IsFiniteSet(S), \A x \in S : f[x] \in Nat, NEW x \in S
  PROVE  /\ Total(f, S) = f[x] + Total(f, S \ {x})
         /\ Total(f, S \ {x}) \in Nat
<1> DEFINE Own == {x} \X (1..f[x])
           Rest == Units(f, S \ {x})
<1>1. IsFiniteSet(Own) /\ Cardinality(Own) = f[x]
  BY OwnUnits
<1>2. IsFiniteSet(Rest)
  <2>1. IsFiniteSet(S \ {x})
    BY FS_RemoveElement
  <2> QED
    BY <2>1, UnitsOf
<1>3. Units(f, S) = Own \cup Rest
  BY DEF Units
<1>4. Own \cap Rest = {}
  BY DEF Units
<1>5. Cardinality(Own \cup Rest) = Cardinality(Own) + Cardinality(Rest) - Cardinality(Own \cap Rest)
  BY <1>1, <1>2, FS_Union
<1>6. Cardinality(Rest) \in Nat
  BY <1>2, FS_CardinalityType
<1>7. Total(f, S) = Cardinality(Own) + Cardinality(Rest) - 0
  BY <1>3, <1>4, <1>5, FS_EmptySet DEF Total
<1>8. Total(f, S \ {x}) = Cardinality(Rest)
  BY DEF Total
<1> HIDE DEF Own, Rest
<1> QED
  BY <1>1, <1>6, <1>7, <1>8

\* The fold of + over a function.
LEMMA SumIsTotal ==
  ASSUME NEW f, IsFiniteSet(DOMAIN f), \A x \in DOMAIN f : f[x] \in Nat
  PROVE  FoldFunction(+, 0, f) = Total(f, DOMAIN f)
<1> DEFINE S == DOMAIN f
           First(s) == CHOOSE x \in s : TRUE
           Folds(g) == g = [s \in SUBSET S |-> IF s = {} THEN 0 ELSE f[First(s)] + g[s \ {First(s)}]]
           Totals == [s \in SUBSET S |-> Total(f, s)]
<1>1. \A s \in SUBSET S : IsFiniteSet(s)
  BY FS_Subset
<1>2. \A s \in SUBSET S : s # {} => First(s) \in s
  OBVIOUS
<1>3. \A s \in SUBSET S : s # {} => Total(f, s) = f[First(s)] + Total(f, s \ {First(s)})
  <2> SUFFICES ASSUME NEW s \in SUBSET S, s # {}
               PROVE  Total(f, s) = f[First(s)] + Total(f, s \ {First(s)})
    OBVIOUS
  <2> DEFINE x == First(s)
  <2>1. x \in s /\ IsFiniteSet(s) /\ \A y \in s : f[y] \in Nat
    BY <1>1, <1>2
  <2> HIDE DEF x
  <2>2. Total(f, s) = f[x] + Total(f, s \ {x})
    BY <2>1, TotalWithout
  <2> QED
    BY <2>2 DEF x
<1>4. Total(f, {}) = 0
  BY FS_EmptySet DEF Total, Units
<1>5. Folds(Totals)
  <2>1. \A s \in SUBSET S : Totals[s] = IF s = {} THEN 0 ELSE f[First(s)] + Totals[s \ {First(s)}]
    BY <1>3, <1>4
  <2> QED
    BY <2>1
<1>6. ASSUME NEW g, Folds(g) PROVE g[S] = Totals[S]
  <2> DEFINE Other == {s \in SUBSET S : g[s] # Totals[s]}
  <2> SUFFICES ASSUME Other # {} PROVE FALSE
    OBVIOUS
  <2>1. IsWellFoundedOn(StrictSubsetOrdering(S), FiniteSubsetsOf(S))
    BY FS_StrictSubsetOrderingWellFounded
  <2>2. Other \subseteq FiniteSubsetsOf(S)
    BY <1>1 DEF FiniteSubsetsOf
  <2> HIDE DEF Other
  <2>3. PICK s \in Other : \A t \in Other : ~(<<t, s>> \in StrictSubsetOrdering(S))
    BY <2>1, <2>2, WFMin
  <2> USE DEF Other
  <2>4. s \in SUBSET S /\ g[s] # Totals[s]
    OBVIOUS
  <2>5. s # {}
    BY <1>4, <1>6, <2>4
  <2>6. g[s] = f[First(s)] + g[s \ {First(s)}]
    BY <1>6, <2>4, <2>5
  <2>7. <<s \ {First(s)}, s>> \in StrictSubsetOrdering(S)
    BY <1>2, <2>4, <2>5 DEF StrictSubsetOrdering
  <2>8. g[s \ {First(s)}] = Totals[s \ {First(s)}]
    BY <2>3, <2>4, <2>7
  <2> QED
    BY <1>3, <2>4, <2>5, <2>6, <2>8
<1>7. FoldFunction(+, 0, f) = (CHOOSE g : Folds(g))[S]
  BY DEF FoldFunction, FoldFunctionOnSet, MapThenFoldSet
<1>8. Folds(CHOOSE g : Folds(g))
  <2> HIDE DEF Folds, Totals
  <2> QED
    BY <1>5
<1>9. (CHOOSE g : Folds(g))[S] = Totals[S]
  <2> HIDE DEF Folds, Totals
  <2> QED
    BY <1>6, <1>8
<1> QED
  BY <1>7, <1>9

SumOf(f) == FoldFunction(+, 0, f)

\* A function that differs from another for one of their arguments.
LEMMA SumMoves ==
  ASSUME NEW S, IsFiniteSet(S), NEW f \in [S -> Nat], NEW g \in [S -> Nat], NEW x \in S,
         \A y \in S : y # x => g[y] = f[y]
  PROVE  SumOf(f) \in Nat /\ SumOf(g) \in Nat /\ SumOf(g) = SumOf(f) - f[x] + g[x]
<1>1. SumOf(f) = Total(f, S) /\ SumOf(g) = Total(g, S)
  <2>1. DOMAIN f = S /\ DOMAIN g = S
    OBVIOUS
  <2> QED
    BY <2>1, SumIsTotal DEF SumOf
<1>2. Total(f, S) = f[x] + Total(f, S \ {x}) /\ Total(f, S \ {x}) \in Nat
  BY TotalWithout
<1>3. Total(g, S) = g[x] + Total(g, S \ {x})
  BY TotalWithout
<1>4. Total(g, S \ {x}) = Total(f, S \ {x})
  <2>1. Units(g, S \ {x}) = Units(f, S \ {x})
    BY DEF Units
  <2> QED
    BY <2>1 DEF Total
<1>5. f[x] \in Nat /\ g[x] \in Nat
  OBVIOUS
<1> QED
  BY <1>1, <1>2, <1>3, <1>4, <1>5

LEMMA SumOfNone ==
  ASSUME NEW S, IsFiniteSet(S), NEW f \in [S -> Nat], \A y \in S : f[y] = 0
  PROVE  SumOf(f) = 0
<1>1. SumOf(f) = Total(f, S)
  <2>1. DOMAIN f = S
    OBVIOUS
  <2> QED
    BY <2>1, SumIsTotal DEF SumOf
<1>2. Units(f, S) = {}
  BY DEF Units
<1> QED
  BY <1>1, <1>2, FS_EmptySet DEF Total

-----------------------------------------------------------------------------
(* The places connections take. *)

\* Records of numbers, which are at least none once they count something.
Numbers == [held : Int, proxied : Int, byWorkload : [Targets -> Int], seen : Int]
Counted ==
  /\ step \in [Conns -> Places!Steps] /\ counted \in [Conns -> Nat]
  /\ held \in Int /\ proxied \in Int /\ buffered \in Int
  /\ byWorkload \in [Targets -> Int] /\ source \in [Origins -> Numbers]
  /\ hour \in Int /\ passedAt \in [Conns -> Int]

PlaceInv == Counted /\ Places!PlacesReturned

\* Whether a step is one of those.
One(x, steps) == IF x \in steps THEN 1 ELSE 0

LEMMA StepsKnown ==
  /\ Places!Waiting \subseteq Places!Steps /\ Places!Holding \subseteq Places!Steps
     /\ Places!Proxying \subseteq Places!Steps
  /\ {"new", "ended"} \subseteq Places!Steps /\ {"new", "ended"} \cap (Places!Holding \cup Places!Proxying) = {}
  /\ Places!Waiting \subseteq Places!Holding /\ Places!Waiting \cap Places!Proxying = {"dialling"}
BY DEF Places!Steps, Places!Waiting, Places!Holding, Places!Proxying

\* A connection that goes from one step to another is one fewer of those at the first, and
\* one more of those at the other.
LEMMA WithMoves ==
  ASSUME IsFiniteSet(Conns), NEW C \in SUBSET Conns, NEW steps, NEW c \in Conns, NEW t,
         step \in [Conns -> Places!Steps], step' = [step EXCEPT ![c] = t]
  PROVE  /\ Places!With(steps, C) \in Nat
         /\ Places!With(steps, C)' =
              Places!With(steps, C) + (IF c \in C THEN One(t, steps) - One(step[c], steps) ELSE 0)
<1> DEFINE Now == {x \in C : step[x] \in steps}
           Next_ == {x \in C : step'[x] \in steps}
<1>1. IsFiniteSet(C)
  BY FS_Subset
<1>2. IsFiniteSet(Now) /\ Cardinality(Now) \in Nat
  <2>1. Now \in SUBSET C
    OBVIOUS
  <2>2. IsFiniteSet(Now)
    BY <1>1, <2>1, FS_Subset
  <2> QED
    BY <2>2, FS_CardinalityType
<1>3. Places!With(steps, C) = Cardinality(Now) /\ Places!With(steps, C)' = Cardinality(Next_)
  BY DEF Places!With, Places!Cardinality, Cardinality
<1>4. CASE c \notin C
  <2>1. Next_ = Now
    BY <1>4
  <2> HIDE DEF Now, Next_
  <2> QED
    BY <1>2, <1>3, <1>4, <2>1
<1>5. CASE c \in C /\ t \in steps
  <2>1. Next_ = Now \cup {c}
    BY <1>5
  <2>2. c \in Now <=> step[c] \in steps
    BY <1>5
  <2>3. Cardinality(Next_) = IF c \in Now THEN Cardinality(Now) ELSE Cardinality(Now) + 1
    BY <1>2, <2>1, FS_AddElement
  <2> HIDE DEF Now, Next_
  <2> QED
    BY <1>2, <1>3, <1>5, <2>2, <2>3 DEF One
<1>6. CASE c \in C /\ t \notin steps
  <2>1. Next_ = Now \ {c}
    BY <1>6
  <2>2. c \in Now <=> step[c] \in steps
    BY <1>6
  <2>3. Cardinality(Next_) = IF c \in Now THEN Cardinality(Now) - 1 ELSE Cardinality(Now)
    BY <1>2, <2>1, FS_RemoveElement
  <2> HIDE DEF Now, Next_
  <2> QED
    BY <1>2, <1>3, <1>6, <2>2, <2>3 DEF One
<1> QED
  BY <1>4, <1>5, <1>6

\* What c's source and workload, and all of them, are counted as having more.
Takes(c, holds, proxies) ==
  /\ held' = held + holds /\ proxied' = proxied + proxies
  /\ \A w \in Targets : byWorkload'[w] = byWorkload[w] + (IF w = TargetOf[c] THEN holds ELSE 0)
  /\ \A s \in Origins :
       /\ source'[s].held = source[s].held + (IF s = OriginOf[c] THEN holds ELSE 0)
       /\ source'[s].proxied = source[s].proxied + (IF s = OriginOf[c] THEN proxies ELSE 0)
       /\ \A w \in Targets :
            source'[s].byWorkload[w] =
              source[s].byWorkload[w] + (IF s = OriginOf[c] /\ w = TargetOf[c] THEN holds ELSE 0)

\* PlacesReturned, but for what is buffered.
PlacesCounted ==
  /\ held = Places!With(Places!Holding, Conns) /\ proxied = Places!With(Places!Proxying, Conns)
  /\ \A w \in Targets : byWorkload[w] = Places!With(Places!Holding, Places!On(w))
  /\ \A s \in Origins :
       /\ source[s].held = Places!With(Places!Holding, Places!From(s))
          /\ source[s].proxied = Places!With(Places!Proxying, Places!From(s))
       /\ \A w \in Targets : source[s].byWorkload[w] = Places!With(Places!Holding,
          Places!From(s) \cap Places!On(w))
BufferCounted == buffered = SumOf(counted)

LEMMA PlacesTwo == Places!PlacesReturned <=> PlacesCounted /\ BufferCounted
BY DEF
     Places!PlacesReturned, PlacesCounted, BufferCounted, SumOf, FoldFunction, FoldFunctionOnSet,
     MapThenFoldSet, Places!FoldFunction, Places!FoldFunctionOnSet, Places!MapThenFoldSet

LEMMA PlacesTwoNext == Places!PlacesReturned' <=> PlacesCounted' /\ BufferCounted'
BY PlacesTwo, PTL

\* What it's counted as having is right after its step if it's as the step says.
LEMMA PlacesMove ==
  ASSUME Places!Assumptions, Counted, PlacesCounted, NEW c \in Conns, NEW t, step' = [step EXCEPT ![c] = t],
         Takes(c, One(t, Places!Holding) - One(step[c], Places!Holding), One(t,
           Places!Proxying) - One(step[c], Places!Proxying))
  PROVE  PlacesCounted'
<1> DEFINE dh == One(t, Places!Holding) - One(step[c], Places!Holding)
           dp == One(t, Places!Proxying) - One(step[c], Places!Proxying)
<1>1. IsFiniteSet(Conns) /\ step \in [Conns -> Places!Steps]
  BY DEF Places!Assumptions, Counted, Places!IsFiniteSet, IsFiniteSet
<1>2. dh \in Int /\ dp \in Int
  BY DEF One
<1>3. ASSUME NEW C \in SUBSET Conns
      PROVE  /\ Places!With(Places!Holding, C)' = Places!With(Places!Holding, C) + (IF c \in C THEN dh ELSE 0)
             /\ Places!With(Places!Proxying, C)' = Places!With(Places!Proxying, C) + (IF c \in C THEN dp ELSE 0)
  BY <1>1, WithMoves
<1>4. Takes(c, dh, dp)
  OBVIOUS
<1> HIDE DEF dh, dp
<1>5. held' = Places!With(Places!Holding, Conns)' /\ proxied' = Places!With(Places!Proxying, Conns)'
  BY <1>3, <1>4 DEF Takes, PlacesCounted
<1>6. ASSUME NEW w \in Targets PROVE byWorkload'[w] = Places!With(Places!Holding, Places!On(w))'
  <2>1. Places!On(w) \in SUBSET Conns /\ (c \in Places!On(w) <=> w = TargetOf[c])
    BY DEF Places!On
  <2> QED
    BY <1>3, <1>4, <2>1 DEF Takes, PlacesCounted
<1>7. ASSUME NEW s \in Origins
      PROVE  source'[s].held = Places!With(Places!Holding, Places!From(s))'
               /\ source'[s].proxied = Places!With(Places!Proxying, Places!From(s))'
  <2>1. Places!From(s) \in SUBSET Conns /\ (c \in Places!From(s) <=> s = OriginOf[c])
    BY DEF Places!From
  <2> QED
    BY <1>3, <1>4, <2>1 DEF Takes, PlacesCounted
<1>8. ASSUME NEW s \in Origins, NEW w \in Targets
      PROVE  source'[s].byWorkload[w] = Places!With(Places!Holding, Places!From(s) \cap Places!On(w))'
  <2> DEFINE C == Places!From(s) \cap Places!On(w)
  <2>1. C \in SUBSET Conns /\ (c \in C <=> s = OriginOf[c] /\ w = TargetOf[c])
    BY DEF Places!From, Places!On
  <2>2. Places!With(Places!Holding, C)' = Places!With(Places!Holding, C) + (IF c \in C THEN dh ELSE 0)
    BY <1>3, <2>1
  <2> QED
    BY <1>4, <2>1, <2>2 DEF Takes, PlacesCounted
<1> QED
  BY <1>5, <1>6, <1>7, <1>8 DEF PlacesCounted

\* How admission counts.
LEMMA SeenStays ==
  ASSUME NEW r \in Numbers, NEW h \in Int
  PROVE  [r EXCEPT !.seen = h] \in Numbers
BY DEF Numbers

LEMMA ProxiedStays ==
  ASSUME NEW r \in Numbers, NEW h \in Int, NEW n \in Int
  PROVE  [r EXCEPT !.seen = h, !.proxied = @ + n] \in Numbers
<1>1. r.proxied + n \in Int
  BY DEF Numbers
<1>2. [r EXCEPT !.seen = h, !.proxied = r.proxied + n] \in Numbers
  BY <1>1 DEF Numbers
<1>3. [r EXCEPT !.seen = h, !.proxied = @ + n] = [r EXCEPT !.seen = h, !.proxied = r.proxied + n]
  BY DEF Numbers
<1> QED
  BY <1>2, <1>3

LEMMA HeldStays ==
  ASSUME NEW r \in Numbers, NEW h \in Int, NEW n \in Int, NEW w \in Targets
  PROVE  [r EXCEPT !.seen = h, !.held = @ + n, !.byWorkload[w] = @ + n] \in Numbers
<1> DEFINE by == [r.byWorkload EXCEPT ![w] = @ + n]
<1>1. by \in [Targets -> Int] /\ r.held + n \in Int
  BY DEF Numbers
<1>2. [r EXCEPT !.seen = h, !.held = @ + n, !.byWorkload[w] = @ + n] =
        [r EXCEPT !.seen = h, !.held = r.held + n, !.byWorkload = by]
  BY DEF Numbers
<1> HIDE DEF by
<1>3. [r EXCEPT !.seen = h, !.held = r.held + n, !.byWorkload = by] \in Numbers
  BY <1>1 DEF Numbers
<1> QED
  BY <1>2, <1>3

LEMMA SourceMoves ==
  ASSUME source \in [Origins -> Numbers], NEW s \in Origins, NEW r \in Numbers,
           source' = [source EXCEPT ![s] = r]
  PROVE  source' \in [Origins -> Numbers]
OBVIOUS

LEMMA CountsTakes ==
  ASSUME Places!Assumptions, Counted, NEW c \in Conns, NEW n \in Int,
         Places!Counts(OriginOf[c], TargetOf[c], n), proxied' = proxied
  PROVE  /\ Takes(c, n, 0) /\ held' \in Int
         /\ byWorkload' \in [Targets -> Int] /\ source' \in [Origins -> Numbers]
<1>1. OriginOf[c] \in Origins /\ TargetOf[c] \in Targets
  BY DEF Places!Assumptions, Places!IsFiniteSet, IsFiniteSet
<1>2. held' = held + n /\ byWorkload' = [byWorkload EXCEPT ![TargetOf[c]] = @ + n]
  BY DEF Places!Counts
<1>3. source' = [source EXCEPT ![OriginOf[c]] =
        [source[OriginOf[c]] EXCEPT !.seen = hour, !.held = @ + n, !.byWorkload[TargetOf[c]] = @ + n]]
  BY <1>1 DEF Places!Counts, Places!Source, Counted, Numbers
<1>4. source' \in [Origins -> Numbers]
  <2>1. source \in [Origins -> Numbers] /\ source[OriginOf[c]] \in Numbers /\ hour \in Int
    BY <1>1 DEF Counted
  <2>2. [source[OriginOf[c]] EXCEPT !.seen = hour, !.held = @ + n,
          !.byWorkload[TargetOf[c]] = @ + n] \in Numbers
    BY <1>1, <2>1, HeldStays
  <2> QED
    BY <1>1, <1>3, <2>1, <2>2, SourceMoves
<1>5. byWorkload' \in [Targets -> Int]
  BY <1>1, <1>2 DEF Counted
<1>6. ASSUME NEW s \in Origins
      PROVE  /\ source'[s].held = source[s].held + (IF s = OriginOf[c] THEN n ELSE 0)
             /\ source'[s].proxied = source[s].proxied
             /\ \A w \in Targets :
                  source'[s].byWorkload[w] =
                    source[s].byWorkload[w] + (IF s = OriginOf[c] /\ w = TargetOf[c] THEN n ELSE 0)
  BY <1>1, <1>3 DEF Counted, Numbers
<1>7. \A w \in Targets : byWorkload'[w] = byWorkload[w] + (IF w = TargetOf[c] THEN n ELSE 0)
  BY <1>1, <1>2 DEF Counted
<1>8. \A s \in Origins : source[s].proxied \in Int
  BY DEF Counted, Numbers
<1>9. held' \in Int /\ proxied \in Int
  BY <1>2 DEF Counted
<1> QED
  BY <1>2, <1>4, <1>5, <1>6, <1>7, <1>8, <1>9 DEF Takes

LEMMA ProxyTakes ==
  ASSUME Places!Assumptions, Counted, NEW c \in Conns, NEW n \in Int, Places!Proxy(OriginOf[c], n)
  PROVE  /\ Takes(c, 0, n) /\ proxied' \in Int
         /\ source' \in [Origins -> Numbers]
<1>1. OriginOf[c] \in Origins /\ TargetOf[c] \in Targets
  BY DEF Places!Assumptions, Places!IsFiniteSet, IsFiniteSet
<1>2. source' = [source EXCEPT ![OriginOf[c]] = [source[OriginOf[c]] EXCEPT !.seen = hour, !.proxied = @ + n]]
  BY <1>1 DEF Places!Proxy, Places!Source, Counted, Numbers
<1>3. source' \in [Origins -> Numbers]
  <2>1. source \in [Origins -> Numbers] /\ source[OriginOf[c]] \in Numbers /\ hour \in Int
    BY <1>1 DEF Counted
  <2>2. [source[OriginOf[c]] EXCEPT !.seen = hour, !.proxied = @ + n] \in Numbers
    BY <2>1, ProxiedStays
  <2> QED
    BY <1>1, <1>2, <2>1, <2>2, SourceMoves
<1>4. ASSUME NEW s \in Origins
      PROVE  /\ source'[s].held = source[s].held
             /\ source'[s].proxied = source[s].proxied + (IF s = OriginOf[c] THEN n ELSE 0)
             /\ source'[s].byWorkload = source[s].byWorkload
  BY <1>1, <1>2 DEF Counted, Numbers
<1>5. \A s \in Origins : source[s].held \in Int /\ source[s].byWorkload \in [Targets -> Int]
  BY DEF Counted, Numbers
<1>6. held' = held /\ byWorkload' = byWorkload /\ proxied' = proxied + n
  BY DEF Places!Proxy
<1>7. held \in Int /\ proxied \in Int /\ byWorkload \in [Targets -> Int]
  BY DEF Counted
<1> QED
  BY <1>3, <1>4, <1>5, <1>6, <1>7 DEF Takes

LEMMA SeeTakes ==
  ASSUME Places!Assumptions, Counted, NEW c \in Conns, Places!See(OriginOf[c])
  PROVE  Takes(c, 0, 0) /\ source' \in [Origins -> Numbers]
<1>1. OriginOf[c] \in Origins
  BY DEF Places!Assumptions, Places!IsFiniteSet, IsFiniteSet
<1>2. source' = [source EXCEPT ![OriginOf[c]] = [source[OriginOf[c]] EXCEPT !.seen = hour]]
  BY DEF Places!See, Places!Source
<1>3. source' \in [Origins -> Numbers]
  <2>1. source \in [Origins -> Numbers] /\ source[OriginOf[c]] \in Numbers /\ hour \in Int
    BY <1>1 DEF Counted
  <2>2. [source[OriginOf[c]] EXCEPT !.seen = hour] \in Numbers
    BY <2>1, SeenStays
  <2> QED
    BY <1>1, <1>2, <2>1, <2>2, SourceMoves
<1>4. ASSUME NEW s \in Origins
      PROVE  /\ source'[s].held = source[s].held /\ source'[s].proxied = source[s].proxied
             /\ source'[s].byWorkload = source[s].byWorkload
  BY <1>1, <1>2 DEF Counted, Numbers
<1>5. \A s \in Origins : source[s].held \in Int /\ source[s].proxied \in Int
        /\ source[s].byWorkload \in [Targets -> Int]
  BY DEF Counted, Numbers
<1>6. held' = held /\ byWorkload' = byWorkload /\ proxied' = proxied
  BY DEF Places!See
<1>7. held \in Int /\ proxied \in Int /\ byWorkload \in [Targets -> Int]
  BY DEF Counted
<1> QED
  BY <1>3, <1>4, <1>5, <1>6, <1>7 DEF Takes

\* What's buffered is right after a connection's own changes with it.
LEMMA BufferMoves ==
  ASSUME Places!Assumptions, Counted, BufferCounted, NEW c \in Conns, NEW n \in Nat,
         counted' = [counted EXCEPT ![c] = n], buffered' = buffered - counted[c] + n
  PROVE  BufferCounted' /\ counted' \in [Conns -> Nat] /\ buffered' \in Int
<1>1. IsFiniteSet(Conns) /\ counted \in [Conns -> Nat]
  BY DEF Places!Assumptions, Counted, Places!IsFiniteSet, IsFiniteSet
<1>2. counted' \in [Conns -> Nat] /\ counted'[c] = n /\ \A x \in Conns : x # c => counted'[x] = counted[x]
  BY <1>1
<1> DEFINE new == counted'
<1>3. /\ SumOf(counted) \in Nat /\ SumOf(new) \in Nat
      /\ SumOf(new) = SumOf(counted) - counted[c] + new[c]
  <2>1. new \in [Conns -> Nat] /\ \A x \in Conns : x # c => new[x] = counted[x]
    BY <1>2
  <2> HIDE DEF new
  <2> QED
    BY <1>1, <2>1, SumMoves
<1>4. SumOf(counted)' = SumOf(new)
  BY DEF SumOf, FoldFunction, FoldFunctionOnSet, MapThenFoldSet
<1> DEFINE Sum == SumOf(counted)
<1>5. buffered = Sum /\ Sum \in Nat /\ Sum' = Sum - counted[c] + n
  BY <1>1, <1>2, <1>3, <1>4, Zenon DEF BufferCounted
<1>6. counted[c] \in Nat
  BY <1>1
<1> HIDE DEF Sum
<1>7. buffered' = Sum' /\ buffered' \in Int
  BY <1>5, <1>6
<1> QED
  BY <1>2, <1>7 DEF BufferCounted, Sum

\* A step of one connection: it goes to t, with what it's counted as having as that says,
\* and n chunks buffered.
LEMMA ConnMoves ==
  ASSUME Places!Assumptions, PlaceInv, NEW c \in Conns, NEW t \in Places!Steps, Places!Goto(c, t),
         Takes(c, One(t, Places!Holding) - One(step[c], Places!Holding), One(t,
           Places!Proxying) - One(step[c], Places!Proxying)),
         byWorkload' \in [Targets -> Int], source' \in [Origins -> Numbers],
         NEW n \in Nat, counted' = [counted EXCEPT ![c] = n], buffered' = buffered - counted[c] + n,
         hour' \in Int, passedAt' \in [Conns -> Int]
  PROVE  PlaceInv'
<1>1. Counted /\ PlacesCounted /\ BufferCounted
  BY PlacesTwo DEF PlaceInv
<1>2. PlacesCounted'
  BY <1>1, PlacesMove DEF Places!Goto
<1>3. BufferCounted' /\ counted' \in [Conns -> Nat] /\ buffered' \in Int
  BY <1>1, BufferMoves
<1>4. step' \in [Conns -> Places!Steps]
  BY <1>1 DEF Places!Goto, Counted
<1>5. held' \in Int /\ proxied' \in Int
  BY <1>1 DEF Takes, One, Counted
<1>6. Places!PlacesReturned'
  BY <1>2, <1>3, PlacesTwoNext
<1> QED
  BY <1>3, <1>4, <1>5, <1>6 DEF PlaceInv, Counted

\* One that buffers nothing, and gives nothing of it back.
LEMMA ConnGoes ==
  ASSUME Places!Assumptions, PlaceInv, NEW c \in Conns, NEW t \in Places!Steps, Places!Goto(c, t),
         Takes(c, One(t, Places!Holding) - One(step[c], Places!Holding), One(t,
           Places!Proxying) - One(step[c], Places!Proxying)),
         byWorkload' \in [Targets -> Int], source' \in [Origins -> Numbers],
         UNCHANGED <<counted, buffered>>,
         hour' \in Int, passedAt' \in [Conns -> Int]
  PROVE  PlaceInv'
<1>1. counted[c] \in Nat /\ buffered \in Int /\ counted \in [Conns -> Nat]
  BY DEF PlaceInv, Counted
<1>2. counted' = [counted EXCEPT ![c] = counted[c]] /\ buffered' = buffered - counted[c] + counted[c]
  BY <1>1
<1> QED
  BY <1>1, <1>2, ConnMoves

-----------------------------------------------------------------------------
LEMMA PlacesFirst == ASSUME Places!Assumptions, Places!Init PROVE PlaceInv
<1>1. step = [c \in Conns |-> "new"] /\ counted = [c \in Conns |-> 0] /\ passedAt = counted
  BY DEF Places!Init
<1>2. Places!Forgotten \in Numbers
  BY DEF Places!Forgotten, Numbers
<1>3. Counted
  BY <1>1, <1>2, StepsKnown DEF Places!Init, Counted
<1>4. ASSUME NEW C \in SUBSET Conns PROVE Places!With(Places!Holding, C) = 0
               /\ Places!With(Places!Proxying, C) = 0
  <2>1. {c \in C : step[c] \in Places!Holding} = {} /\ {c \in C : step[c] \in Places!Proxying} = {}
    BY <1>1, StepsKnown
  <2> QED
    BY <2>1, FS_EmptySet DEF Places!With, Places!Cardinality, Cardinality
<1>5. PlacesCounted
  BY <1>4 DEF Places!Init, PlacesCounted, Places!On, Places!From, Places!Forgotten
<1>6. BufferCounted
  <2>1. SumOf(counted) = 0
    BY <1>1, SumOfNone DEF Places!Assumptions, Places!IsFiniteSet, IsFiniteSet
  <2> QED
    BY <2>1 DEF BufferCounted, Places!Init
<1> QED
  BY <1>3, <1>5, <1>6, PlacesTwo DEF PlaceInv

\* A step that moves no connection, and counts nothing.
LEMMA PlacesStay ==
  ASSUME PlaceInv, UNCHANGED <<step, held, byWorkload, proxied, buffered, source, counted>>,
         hour' \in Int, passedAt' \in [Conns -> Int]
  PROVE  PlaceInv'
<1>1. Counted'
  BY DEF PlaceInv, Counted
<1>2. PlacesCounted'
  <2>1. \A C : Places!With(Places!Holding, C)' = Places!With(Places!Holding, C)
          /\ Places!With(Places!Proxying, C)' = Places!With(Places!Proxying, C)
    BY DEF Places!With, Places!Cardinality, Cardinality
  <2> QED
    BY <2>1, PlacesTwo DEF PlaceInv, PlacesCounted
<1>3. BufferCounted'
  <2>1. SumOf(counted)' = SumOf(counted)
    BY DEF SumOf, FoldFunction, FoldFunctionOnSet, MapThenFoldSet
  <2> QED
    BY <2>1, PlacesTwo, Zenon DEF PlaceInv, BufferCounted
<1> QED
  BY <1>1, <1>2, <1>3, PlacesTwoNext DEF PlaceInv

LEMMA PruneKeeps ==
  ASSUME Places!Assumptions, PlaceInv, NEW s \in Origins, Places!Prune(s)
  PROVE  PlaceInv'
<1>1. Counted /\ PlacesCounted /\ BufferCounted
  BY PlacesTwo DEF PlaceInv
<1>2. source' = [source EXCEPT ![s] = Places!Forgotten] /\ source[s].held = 0 /\ source[s].proxied = 0
  BY DEF Places!Prune, Places!Idle
<1>3. UNCHANGED <<step, held, byWorkload, proxied, buffered, counted, hour, passedAt>>
  BY DEF Places!Prune, Places!world, Places!local
<1>4. Places!Forgotten \in Numbers
  BY DEF Places!Forgotten, Numbers
<1>5. source' \in [Origins -> Numbers]
  BY <1>1, <1>2, <1>4 DEF Counted
<1>6. ASSUME NEW w \in Targets PROVE Places!With(Places!Holding, Places!From(s) \cap Places!On(w)) = 0
  <2> DEFINE Of == {c \in Places!From(s) : step[c] \in Places!Holding}
             Those == {c \in Places!From(s) \cap Places!On(w) : step[c] \in Places!Holding}
  <2>1. IsFiniteSet(Of)
    <3>1. IsFiniteSet(Conns) /\ Of \in SUBSET Conns
      BY DEF Places!Assumptions, Places!From, Places!IsFiniteSet, IsFiniteSet
    <3> QED
      BY <3>1, FS_Subset
  <2>2. Cardinality(Of) = 0
    <3>1. Places!With(Places!Holding, Places!From(s)) = Cardinality(Of)
      BY DEF Places!With, Places!Cardinality, Cardinality
    <3>2. Places!With(Places!Holding, Places!From(s)) = 0
      BY <1>1, <1>2 DEF PlacesCounted
    <3> QED
      BY <3>1, <3>2
  <2>3. Of = {}
    BY <2>1, <2>2, FS_EmptySet
  <2>4. Those = {}
    BY <2>3
  <2> QED
    BY <2>4, FS_EmptySet DEF Places!With, Places!Cardinality, Cardinality
<1>7. PlacesCounted'
  <2>1. \A C : Places!With(Places!Holding, C)' = Places!With(Places!Holding, C)
          /\ Places!With(Places!Proxying, C)' = Places!With(Places!Proxying, C)
    BY <1>3 DEF Places!With, Places!Cardinality, Cardinality
  <2>2. ASSUME NEW t \in Origins
        PROVE  /\ source'[t].held = Places!With(Places!Holding, Places!From(t))
                  /\ source'[t].proxied = Places!With(Places!Proxying, Places!From(t))
               /\ \A w \in Targets : source'[t].byWorkload[w] = Places!With(Places!Holding,
                  Places!From(t) \cap Places!On(w))
    <3>1. CASE t = s
      BY <1>1, <1>2, <1>6, <3>1 DEF Counted, PlacesCounted, Places!Forgotten
    <3>2. CASE t # s
      BY <1>1, <1>2, <3>2 DEF Counted, PlacesCounted
    <3> QED
      BY <3>1, <3>2
  <2> QED
    BY <1>1, <1>3, <2>1, <2>2 DEF PlacesCounted
<1>8. BufferCounted'
  <2>1. SumOf(counted)' = SumOf(counted)
    BY <1>3 DEF SumOf, FoldFunction, FoldFunctionOnSet, MapThenFoldSet
  <2> QED
    BY <1>1, <1>3, <2>1, Zenon DEF BufferCounted
<1> QED
  BY <1>1, <1>3, <1>5, <1>7, <1>8, PlacesTwoNext DEF PlaceInv, Counted


\* What c's going from its step to t counts as.
Counting(c, t, holds, proxies) ==
  /\ One(t, Places!Holding) - One(step[c], Places!Holding) = holds
  /\ One(t, Places!Proxying) - One(step[c], Places!Proxying) = proxies

\* The kinds of steps of a connection, by what they count.
LEMMA GoesUncounted ==
  ASSUME Places!Assumptions, PlaceInv, NEW c \in Conns, NEW t \in Places!Steps, Places!Goto(c, t),
           Counting(c, t, 0, 0),
         UNCHANGED <<held, byWorkload, proxied, source, counted, buffered>>,
         hour' \in Int, passedAt' \in [Conns -> Int]
  PROVE  PlaceInv'
<1>1. Counted
  BY DEF PlaceInv
<1>2. /\ held \in Int /\ proxied \in Int /\ byWorkload \in [Targets -> Int]
      /\ source \in [Origins -> Numbers]
  BY <1>1 DEF Counted
<1>3. Takes(c, 0, 0)
  BY <1>2 DEF Takes, Numbers
<1>4. Takes(c, One(t, Places!Holding) - One(step[c], Places!Holding), One(t,
        Places!Proxying) - One(step[c], Places!Proxying))
  BY <1>3 DEF Counting
<1>5. byWorkload' \in [Targets -> Int] /\ source' \in [Origins -> Numbers]
  BY <1>2
<1> QED
  BY <1>4, <1>5, ConnGoes

LEMMA GoesSeen ==
  ASSUME Places!Assumptions, PlaceInv, NEW c \in Conns, NEW t \in Places!Steps, Places!Goto(c, t),
           Counting(c, t, 0, 0),
         Places!See(OriginOf[c]), hour' \in Int, passedAt' \in [Conns -> Int]
  PROVE  PlaceInv'
<1>1. Counted
  BY DEF PlaceInv
<1>2. Takes(c, 0, 0) /\ source' \in [Origins -> Numbers]
  BY <1>1, SeeTakes
<1>3. Takes(c, One(t, Places!Holding) - One(step[c], Places!Holding), One(t,
        Places!Proxying) - One(step[c], Places!Proxying))
  BY <1>2 DEF Counting
<1>4. byWorkload' \in [Targets -> Int] /\ UNCHANGED <<counted, buffered>>
  BY <1>1 DEF Places!See, Counted
<1> QED
  BY <1>2, <1>3, <1>4, ConnGoes

LEMMA GoesHeld ==
  ASSUME Places!Assumptions, PlaceInv, NEW c \in Conns, NEW t \in Places!Steps, NEW n \in Int,
         Places!Goto(c, t), Counting(c, t, n, 0),
         Places!Hold(OriginOf[c], TargetOf[c], n), hour' \in Int, passedAt' \in [Conns -> Int]
  PROVE  PlaceInv'
<1>1. Counted
  BY DEF PlaceInv
<1>2. Places!Counts(OriginOf[c], TargetOf[c], n) /\ proxied' = proxied /\ UNCHANGED <<counted, buffered>>
  BY DEF Places!Hold
<1>3. Takes(c, n, 0) /\ byWorkload' \in [Targets -> Int] /\ source' \in [Origins -> Numbers]
  BY <1>1, <1>2, CountsTakes
<1>4. Takes(c, One(t, Places!Holding) - One(step[c], Places!Holding), One(t,
        Places!Proxying) - One(step[c], Places!Proxying))
  BY <1>3 DEF Counting
<1> QED
  BY <1>2, <1>3, <1>4, ConnGoes

LEMMA GoesProxied ==
  ASSUME Places!Assumptions, PlaceInv, NEW c \in Conns, NEW t \in Places!Steps, NEW n \in Int,
         Places!Goto(c, t), Counting(c, t, 0, n),
         Places!Proxy(OriginOf[c], n), hour' \in Int, passedAt' \in [Conns -> Int]
  PROVE  PlaceInv'
<1>1. Counted
  BY DEF PlaceInv
<1>2. Takes(c, 0, n) /\ source' \in [Origins -> Numbers]
  BY <1>1, ProxyTakes
<1>3. Takes(c, One(t, Places!Holding) - One(step[c], Places!Holding), One(t,
        Places!Proxying) - One(step[c], Places!Proxying))
  BY <1>2 DEF Counting
<1>4. byWorkload' \in [Targets -> Int] /\ UNCHANGED <<counted, buffered>>
  BY <1>1 DEF Places!Proxy, Counted
<1> QED
  BY <1>2, <1>3, <1>4, ConnGoes

LEMMA AcceptKeeps ==
  ASSUME Places!Assumptions, PlaceInv, NEW c \in Conns, Places!Accept(c)
  PROVE  PlaceInv'
<1> DEFINE w == TargetOf[c]
           s == OriginOf[c]
<1>1. hour' \in Int /\ passedAt' \in [Conns -> Int] /\ step[c] = "new"
  BY DEF Places!Accept, Places!world, PlaceInv, Counted
<1>2. Counting(c, "offer", 1, 0) /\ Counting(c, "ended", 0, 0) /\ "offer" \in Places!Steps
        /\ "ended" \in Places!Steps
  BY <1>1 DEF Counting, One, Places!Holding, Places!Proxying, Places!Waiting, Places!Steps
<1>3. CASE Places!Room(s, w)
  <2>1. Places!Hold(s, w, 1) /\ Places!Goto(c, "offer")
    BY <1>3 DEF Places!Accept
  <2>2. 1 \in Int
    OBVIOUS
  <2> QED
    BY <1>1, <1>2, <2>1, <2>2, GoesHeld
<1>4. CASE ~Places!Room(s, w)
  <2>1. Places!See(s) /\ Places!Goto(c, "ended")
    BY <1>4 DEF Places!Accept
  <2> QED
    BY <1>1, <1>2, <2>1, GoesSeen
<1> QED
  BY <1>3, <1>4

LEMMA LeaveKeeps ==
  ASSUME Places!Assumptions, PlaceInv, NEW c \in Conns, Places!Leave(c)
  PROVE  PlaceInv'
<1>0. Counted
  BY DEF PlaceInv
<1>1. /\ step[c] = "leaving" /\ Places!Goto(c, "ended") /\ Places!Release(c, OriginOf[c], TargetOf[c])
      /\ hour' \in Int /\ passedAt' \in [Conns -> Int]
  BY <1>0 DEF Places!Leave, Places!world, Places!Forgets, Counted
<1>2. Counting(c, "ended", -1, 0) /\ "ended" \in Places!Steps /\ -1 \in Int
  BY <1>1 DEF Counting, One, Places!Holding, Places!Proxying, Places!Waiting, Places!Steps
<1>3. Places!Counts(OriginOf[c], TargetOf[c], -1) /\ proxied' = proxied
  BY <1>1 DEF Places!Release
<1>4. Takes(c, -1, 0) /\ byWorkload' \in [Targets -> Int] /\ source' \in [Origins -> Numbers]
  BY <1>0, <1>2, <1>3, CountsTakes
<1>5. Takes(c, One("ended", Places!Holding) - One(step[c], Places!Holding), One("ended",
        Places!Proxying) - One(step[c], Places!Proxying))
  BY <1>2, <1>4 DEF Counting
<1>6. counted' = [counted EXCEPT ![c] = 0] /\ buffered' = buffered - counted[c] + 0 /\ 0 \in Nat
  BY <1>0, <1>1 DEF Places!Release, Counted
<1> QED
  BY <1>1, <1>2, <1>4, <1>5, <1>6, ConnMoves

LEMMA DialKeeps ==
  ASSUME Places!Assumptions, PlaceInv, NEW c \in Conns, Places!Dial(c)
  PROVE  PlaceInv'
<1> DEFINE s == OriginOf[c]
           first == step[c] = "offered"
           t == IF first THEN "offering" ELSE "dialling"
           u == Places!Otherwise(c, first)
<1>1. hour' \in Int /\ passedAt' \in [Conns -> Int] /\ step[c] \in {"offered", "looked"}
  BY DEF Places!Dial, Places!world, PlaceInv, Counted
<1>2. Counting(c, t, 0, 1) /\ t \in Places!Steps
  BY <1>1 DEF Counting, One, Places!Holding, Places!Proxying, Places!Waiting, Places!Steps
<1>3. Counting(c, u, 0, 0) /\ u \in Places!Steps
  BY <1>1 DEF Counting, One, Places!Holding, Places!Proxying, Places!Waiting, Places!Steps, Places!Otherwise
<1>4. CASE Places!CanProxy(s)
  <2>1. Places!Proxy(s, 1) /\ Places!Goto(c, t)
    BY <1>4 DEF Places!Dial
  <2>2. 1 \in Int
    OBVIOUS
  <2> HIDE DEF t
  <2> QED
    BY <1>1, <1>2, <2>1, <2>2, GoesProxied
<1>5. CASE ~Places!CanProxy(s)
  <2>1. Places!See(s) /\ Places!Goto(c, u)
    BY <1>5 DEF Places!Dial
  <2> HIDE DEF u
  <2> QED
    BY <1>1, <1>3, <2>1, GoesSeen
<1> QED
  BY <1>4, <1>5

LEMMA NoneReadyKeeps ==
  ASSUME Places!Assumptions, PlaceInv, NEW c \in Conns, Places!NoneReady(c)
  PROVE  PlaceInv'
<1> DEFINE t == IF step[c] = "looked" /\ drained[c] /\ "list" \notin failing[c] THEN "leaving"
                ELSE Places!Otherwise(c, step[c] = "offered")
<1>1. /\ hour' \in Int /\ passedAt' \in [Conns -> Int] /\ step[c] \in {"offered", "looked"} /\ Places!Goto(c, t)
      /\ UNCHANGED <<held, byWorkload, proxied, source, counted, buffered>>
  BY DEF Places!NoneReady, Places!world, Places!place, PlaceInv, Counted
<1>2. Counting(c, t, 0, 0) /\ t \in Places!Steps
  BY <1>1 DEF Counting, One, Places!Holding, Places!Proxying, Places!Waiting, Places!Steps, Places!Otherwise
<1> HIDE DEF t
<1> QED
  BY <1>1, <1>2, GoesUncounted

LEMMA PassedOnKeeps ==
  ASSUME Places!Assumptions, PlaceInv, NEW c \in Conns, Places!PassedOn(c)
  PROVE  PlaceInv'
<1> DEFINE t == IF step[c] = "offering" THEN "proxied" ELSE "passed"
<1>1. /\ hour' \in Int /\ passedAt' \in [Conns -> Int] /\ step[c] \in {"offering", "dialling"}
      /\ Places!Goto(c, t) /\ Places!Hold(OriginOf[c], TargetOf[c], -1)
  BY DEF Places!PassedOn, Places!world, PlaceInv, Counted
<1>2. Counting(c, t, -1, 0) /\ t \in Places!Steps /\ -1 \in Int
  BY <1>1 DEF Counting, One, Places!Holding, Places!Proxying, Places!Waiting, Places!Steps
<1> HIDE DEF t
<1> QED
  BY <1>1, <1>2, GoesHeld

LEMMA DialFailsKeeps ==
  ASSUME Places!Assumptions, PlaceInv, NEW c \in Conns, Places!DialFails(c)
  PROVE  PlaceInv'
<1> DEFINE t == Places!Otherwise(c, step[c] = "offering")
<1>1. /\ hour' \in Int /\ passedAt' \in [Conns -> Int] /\ step[c] \in {"offering", "dialling"}
      /\ Places!Goto(c, t) /\ Places!Proxy(OriginOf[c], -1)
  BY DEF Places!DialFails, Places!GivesBack, Places!world, PlaceInv, Counted
<1>2. Counting(c, t, 0, -1) /\ t \in Places!Steps /\ -1 \in Int
  BY <1>1 DEF Counting, One, Places!Holding, Places!Proxying, Places!Waiting, Places!Steps, Places!Otherwise
<1> HIDE DEF t
<1> QED
  BY <1>1, <1>2, GoesProxied

LEMMA HeadKeeps ==
  ASSUME Places!Assumptions, PlaceInv, NEW c \in Conns, Places!Head(c)
  PROVE  PlaceInv'
<1>1. /\ hour' \in Int /\ passedAt' \in [Conns -> Int] /\ step[c] = "head" /\ Places!See(OriginOf[c])
      /\ Places!Goto(c, "leaving") \/ Places!Goto(c, "route")
  BY DEF Places!Head, Places!world, PlaceInv, Counted
<1>2. Counting(c, "leaving", 0, 0) /\ Counting(c, "route", 0, 0) /\ "leaving" \in Places!Steps
        /\ "route" \in Places!Steps
  BY <1>1 DEF Counting, One, Places!Holding, Places!Proxying, Places!Waiting, Places!Steps
<1> QED
  BY <1>1, <1>2, GoesSeen

LEMMA PauseKeeps ==
  ASSUME Places!Assumptions, PlaceInv, NEW c \in Conns, Places!Pause(c)
  PROVE  PlaceInv'
<1>1. /\ hour' \in Int /\ passedAt' \in [Conns -> Int] /\ step[c] = "pause" /\ Places!Goto(c, "select")
      /\ UNCHANGED <<held, byWorkload, proxied, counted, buffered>>
      /\ UNCHANGED source \/ Places!See(OriginOf[c])
  BY DEF Places!Pause, Places!world, PlaceInv, Counted
<1>2. Counting(c, "select", 0, 0) /\ "select" \in Places!Steps
  BY <1>1 DEF Counting, One, Places!Holding, Places!Proxying, Places!Waiting, Places!Steps
<1>3. CASE UNCHANGED source
  BY <1>1, <1>2, <1>3, GoesUncounted
<1>4. CASE Places!See(OriginOf[c])
  BY <1>1, <1>2, <1>4, GoesSeen
<1> QED
  BY <1>1, <1>3, <1>4

\* The steps that count nothing.
LEMMA UncountedKeeps ==
  ASSUME Places!Assumptions, PlaceInv, NEW c \in Conns, Places!Look(c) \/ Places!Route(c)
           \/ Places!Again(c) \/ Places!GivesUp(c)
  PROVE  PlaceInv'
<1> DEFINE Goes(t) ==
      /\ hour' \in Int /\ passedAt' \in [Conns -> Int] /\ Places!Goto(c, t)
      /\ UNCHANGED <<held, byWorkload, proxied, source, counted, buffered>>
      /\ Counting(c, t, 0, 0) /\ t \in Places!Steps
<1>1. CASE Places!Look(c)
  <2> DEFINE t == IF step[c] = "offer" THEN "offered" ELSE "looked"
  <2>1. /\ hour' \in Int /\ passedAt' \in [Conns -> Int] /\ step[c] \in {"offer", "look"} /\ Places!Goto(c, t)
        /\ UNCHANGED <<held, byWorkload, proxied, source, counted, buffered>>
    BY <1>1 DEF Places!Look, Places!place, PlaceInv, Counted
  <2>2. Counting(c, t, 0, 0) /\ t \in Places!Steps
    BY <2>1 DEF Counting, One, Places!Holding, Places!Proxying, Places!Waiting, Places!Steps
  <2> HIDE DEF t
  <2> QED
    BY <2>1, <2>2, GoesUncounted
<1>2. CASE Places!Route(c)
  <2>1. /\ hour' \in Int /\ passedAt' \in [Conns -> Int] /\ step[c] = "route" /\ Places!Goto(c, "look")
        /\ UNCHANGED <<held, byWorkload, proxied, source, counted, buffered>>
    BY <1>2 DEF Places!Route, Places!place, Places!world, PlaceInv, Counted
  <2>2. Counting(c, "look", 0, 0) /\ "look" \in Places!Steps
    BY <2>1 DEF Counting, One, Places!Holding, Places!Proxying, Places!Waiting, Places!Steps
  <2> QED
    BY <2>1, <2>2, GoesUncounted
<1>3. CASE Places!Again(c)
  <2>1. /\ hour' \in Int /\ passedAt' \in [Conns -> Int] /\ step[c] = "select" /\ Places!Goto(c, "route")
        /\ UNCHANGED <<held, byWorkload, proxied, source, counted, buffered>>
    BY <1>3 DEF Places!Again, Places!place, Places!world, PlaceInv, Counted
  <2>2. Counting(c, "route", 0, 0) /\ "route" \in Places!Steps
    BY <2>1 DEF Counting, One, Places!Holding, Places!Proxying, Places!Waiting, Places!Steps
  <2> QED
    BY <2>1, <2>2, GoesUncounted
<1>4. CASE Places!GivesUp(c)
  <2>1. /\ hour' \in Int /\ passedAt' \in [Conns -> Int] /\ step[c] = "select" /\ Places!Goto(c, "leaving")
        /\ UNCHANGED <<held, byWorkload, proxied, source, counted, buffered>>
    BY <1>4 DEF Places!GivesUp, Places!place, Places!world, PlaceInv, Counted
  <2>2. Counting(c, "leaving", 0, 0) /\ "leaving" \in Places!Steps
    BY <2>1 DEF Counting, One, Places!Holding, Places!Proxying, Places!Waiting, Places!Steps
  <2> QED
    BY <2>1, <2>2, GoesUncounted
<1> QED
  BY <1>1, <1>2, <1>3, <1>4

\* The steps that change what is buffered.
LEMMA BufferKeeps ==
  ASSUME Places!Assumptions, PlaceInv, NEW c \in Conns, Places!Buffer(c)
  PROVE  PlaceInv'
<1>1. Counted /\ PlacesCounted /\ BufferCounted
  BY PlacesTwo DEF PlaceInv
<1>2. UNCHANGED <<step, held, byWorkload, proxied, source, hour, passedAt>>
  BY DEF Places!Buffer, Places!world, Places!local
<1>3. counted[c] \in Nat /\ buffered \in Int
  BY <1>1 DEF Counted
<1>4. /\ counted' = [counted EXCEPT ![c] = counted[c] + 1] /\ counted[c] + 1 \in Nat
      /\ buffered' = buffered - counted[c] + (counted[c] + 1)
  BY <1>3 DEF Places!Buffer
<1>5. BufferCounted' /\ counted' \in [Conns -> Nat] /\ buffered' \in Int
  BY <1>1, <1>4, BufferMoves
<1>6. PlacesCounted'
  <2>1. \A C : Places!With(Places!Holding, C)' = Places!With(Places!Holding, C)
          /\ Places!With(Places!Proxying, C)' = Places!With(Places!Proxying, C)
    BY <1>2 DEF Places!With, Places!Cardinality, Cardinality
  <2> QED
    BY <1>1, <1>2, <2>1 DEF PlacesCounted
<1> QED
  BY <1>1, <1>2, <1>5, <1>6, PlacesTwoNext DEF PlaceInv, Counted

LEMMA ReadOnKeeps ==
  ASSUME Places!Assumptions, PlaceInv, NEW c \in Conns, Places!ReadOn(c)
  PROVE  PlaceInv'
<1>0. Counted
  BY DEF PlaceInv
<1>1. /\ step[c] = "passed" /\ Places!Goto(c, "proxied") /\ hour' \in Int /\ passedAt' \in [Conns -> Int]
      /\ UNCHANGED <<held, byWorkload, proxied, source>>
  BY <1>0 DEF Places!ReadOn, Places!world, Counted
<1>2. Counting(c, "proxied", 0, 0) /\ "proxied" \in Places!Steps
  BY <1>1 DEF Counting, One, Places!Holding, Places!Proxying, Places!Waiting, Places!Steps
<1>3. Takes(c, 0, 0) /\ byWorkload' \in [Targets -> Int] /\ source' \in [Origins -> Numbers]
  BY <1>0, <1>1 DEF Takes, Numbers, Counted
<1>4. Takes(c, One("proxied", Places!Holding) - One(step[c], Places!Holding), One("proxied",
        Places!Proxying) - One(step[c], Places!Proxying))
  BY <1>2, <1>3 DEF Counting
<1>5. counted' = [counted EXCEPT ![c] = 0] /\ buffered' = buffered - counted[c] + 0 /\ 0 \in Nat
  BY <1>0 DEF Places!ReadOn, Counted
<1> QED
  BY <1>1, <1>2, <1>3, <1>4, <1>5, ConnMoves

LEMMA ClosesKeeps ==
  ASSUME Places!Assumptions, PlaceInv, NEW c \in Conns, Places!Closes(c)
  PROVE  PlaceInv'
<1>0. Counted
  BY DEF PlaceInv
<1>1. /\ step[c] \in {"passed", "proxied"} /\ Places!Goto(c, "ended") /\ hour' \in Int
         /\ passedAt' \in [Conns -> Int]
      /\ UNCHANGED <<held, byWorkload>> /\ proxied' = proxied - 1
  BY <1>0 DEF Places!Closes, Places!world, Places!Forgets, Counted
<1>2. Counting(c, "ended", 0, -1) /\ "ended" \in Places!Steps
  BY <1>1 DEF Counting, One, Places!Holding, Places!Proxying, Places!Waiting, Places!Steps
<1>3. OriginOf[c] \in Origins
  BY DEF Places!Assumptions, Places!IsFiniteSet, IsFiniteSet
<1> DEFINE r == source[OriginOf[c]]
           closed == [r EXCEPT !.proxied = r.proxied - 1, !.seen = passedAt[c]]
<1>4. r \in Numbers /\ passedAt[c] \in Int /\ source \in [Origins -> Numbers]
  BY <1>0, <1>3 DEF Counted
<1>5. closed \in Numbers
  <2>1. r.proxied - 1 \in Int
    BY <1>4 DEF Numbers
  <2> HIDE DEF r
  <2> QED
    BY <1>4, <2>1 DEF Numbers
<1>6. source' = [source EXCEPT ![OriginOf[c]] = closed]
  BY <1>4 DEF Places!Closes, Numbers
<1>7. source' \in [Origins -> Numbers]
  <2> HIDE DEF closed
  <2> QED
    BY <1>3, <1>4, <1>5, <1>6, SourceMoves
<1>8. ASSUME NEW s \in Origins
      PROVE  /\ source'[s].held = source[s].held
             /\ source'[s].proxied = source[s].proxied + (IF s = OriginOf[c] THEN -1 ELSE 0)
             /\ source'[s].byWorkload = source[s].byWorkload
  BY <1>3, <1>4, <1>6 DEF Numbers
<1>9. Takes(c, 0, -1)
  <2>1. /\ held \in Int /\ byWorkload \in [Targets -> Int]
        /\ \A s \in Origins : source[s].held \in Int /\ source[s].byWorkload \in [Targets -> Int]
    BY <1>0 DEF Counted, Numbers
  <2>2. proxied' = proxied + -1
    BY <1>0, <1>1 DEF Counted
  <2> QED
    BY <1>1, <1>8, <2>1, <2>2 DEF Takes
<1>10. Takes(c, One("ended", Places!Holding) - One(step[c], Places!Holding), One("ended",
         Places!Proxying) - One(step[c], Places!Proxying))
  BY <1>2, <1>9 DEF Counting
<1>11. counted' = [counted EXCEPT ![c] = 0] /\ buffered' = buffered - counted[c] + 0 /\ 0 \in Nat
  BY <1>0 DEF Places!Closes, Counted
<1>12. byWorkload' \in [Targets -> Int]
  BY <1>0, <1>1 DEF Counted
<1> QED
  BY <1>1, <1>2, <1>7, <1>10, <1>11, <1>12, ConnMoves

\* What happens around them counts nothing.
LEMMA WorldKeeps ==
  ASSUME PlaceInv,
         \/ Places!Poll \/ Places!Tick
         \/ \E w \in Targets :
              Places!PodChanges(w) \/ Places!Stores(w) \/ Places!Hears(w) \/ Places!Recheck(w)
                \/ Places!Drains(w) \/ Places!RoutedAgain(w)
  PROVE  PlaceInv'
<1>1. UNCHANGED <<step, held, byWorkload, proxied, buffered, source, counted, passedAt>>
  BY DEF
       Places!Poll, Places!Tick, Places!PodChanges, Places!Stores, Places!Hears, Places!Recheck,
       Places!Drains, Places!RoutedAgain, Places!place, Places!local
<1>2. hour' = hour \/ hour' = hour + 1
  BY DEF
       Places!Poll, Places!Tick, Places!PodChanges, Places!Stores, Places!Hears, Places!Recheck,
       Places!Drains, Places!RoutedAgain
<1>3. hour' \in Int /\ passedAt' \in [Conns -> Int]
  BY <1>1, <1>2 DEF PlaceInv, Counted
<1> QED
  BY <1>1, <1>3, PlacesStay

LEMMA PlacesKept == ASSUME Places!Assumptions, PlaceInv, [Places!Next]_(Places!vars) PROVE PlaceInv'
<1>1. CASE \E c \in Conns : Places!Accept(c) \/ Places!Handles(c) \/ Places!GivesUp(c) \/ Places!Buffer(c)
             \/ Places!ReadOn(c) \/ Places!Closes(c)
  BY <1>1, AcceptKeeps, LeaveKeeps, DialKeeps, NoneReadyKeeps, PassedOnKeeps, DialFailsKeeps, HeadKeeps,
     PauseKeeps, UncountedKeeps, BufferKeeps, ReadOnKeeps, ClosesKeeps DEF Places!Handles
<1>2. CASE \E s \in Origins : Places!Prune(s)
  BY <1>2, PruneKeeps
<1>3. CASE \/ Places!Poll \/ Places!Tick
           \/ \E w \in Targets :
                Places!PodChanges(w) \/ Places!Stores(w) \/ Places!Hears(w) \/ Places!Recheck(w)
                  \/ Places!Drains(w) \/ Places!RoutedAgain(w)
  BY <1>3, WorldKeeps
<1>4. CASE UNCHANGED Places!vars
  <2>1. UNCHANGED <<step, held, byWorkload, proxied, buffered, source, counted>> /\ UNCHANGED <<hour, passedAt>>
    BY <1>4 DEF Places!vars, Places!place, Places!local, Places!world
  <2>2. hour' \in Int /\ passedAt' \in [Conns -> Int]
    BY <2>1 DEF PlaceInv, Counted
  <2> QED
    BY <2>1, <2>2, PlacesStay
<1> QED
  BY <1>1, <1>2, <1>3, <1>4 DEF Places!Next

\* Every place taken is some connection's, and given back whichever way it ends, for any
\* number of connections, sources and workloads, and any caps (PlacesReturned; limits.go:153).
THEOREM PlacesAlwaysReturned == ASSUME Places!Assumptions PROVE Places!Spec => []Places!PlacesReturned
<1>1. Places!Init => PlaceInv
  BY PlacesFirst
<1>2. PlaceInv /\ [Places!Next]_(Places!vars) => PlaceInv'
  BY PlacesKept
<1>3. PlaceInv => Places!PlacesReturned
  BY DEF PlaceInv
<1> QED
  BY <1>1, <1>2, <1>3, PTL DEF Places!Spec

-----------------------------------------------------------------------------
(* The requests turned away. *)

\* What a replica has yet to add of a pause.
Own(r, p) == Away!Of(away[r], p) + Away!Of(flushing[r], p)

\* No count, base or route is of a later pause than what it comes from.
Ordered ==
  /\ annotation.pause <= pause /\ (asleep => pause > 0)
  /\ \A r \in Replicas :
       /\ cached[r].pause <= pause /\ cached[r].annotation.pause <= pause
       /\ base[r].pause <= pause /\ base[r].annotation.pause <= pause
       /\ away[r].pause <= cached[r].pause /\ flushing[r].pause <= cached[r].pause
       /\ route[r] <= cached[r].pause
       /\ route[r] > 0 => away[r].pause <= route[r] /\ flushing[r].pause <= route[r]

\* What is held to be current is.
StillCurrent ==
  \A r \in Replicas :
    /\ cachedFresh[r] => cached[r] = Away!Current
    /\ tries[r] > 0 /\ ours[r] => base[r] = Away!Current

\* What is added is of some pause.
Named ==
  \A r \in Replicas : (away[r] = Away!None \/ away[r].pause > 0) /\ (tries[r] > 0 => flushing[r].pause > 0)

NoneAhead == \A p \in Away!Pauses : p > pause => turned[p] = 0
NeverMore == \A p \in Away!Pauses : p \notin unheard => Away!Of(annotation, p) + Away!ToAdd(p) <= turned[p]
NeverLess ==
  \A p \in Away!Pauses : asleep /\ p = pause /\ p \notin displaced => Away!Of(annotation,
    p) + Away!ToAdd(p) >= turned[p]
StatusBelow == status.pause > 0 /\ status.pause \notin unheard => status.n <= turned[status.pause]

AwayInv == Away!TypeOK /\ Ordered /\ StillCurrent /\ Named /\ NoneAhead /\ NeverMore /\ NeverLess /\ StatusBelow

\* Counts are numbers.
LEMMA OfCounts == ASSUME NEW x \in Away!Count, NEW p PROVE Away!Of(x, p) \in Nat
BY DEF Away!Of, Away!Count

LEMMA OwnCounts ==
  ASSUME Away!TypeOK, NEW r \in Replicas, NEW p
  PROVE  Own(r, p) \in Nat
<1>1. away[r] \in Away!Count /\ flushing[r] \in Away!Count
  BY DEF Away!TypeOK
<1>2. Away!Of(away[r], p) \in Nat /\ Away!Of(flushing[r], p) \in Nat
  BY <1>1, OfCounts
<1> QED
  BY <1>2 DEF Own

LEMMA OwnCountsNext ==
  ASSUME Away!TypeOK', NEW r \in Replicas, NEW p
  PROVE  Own(r, p)' \in Nat
<1>1. away'[r] \in Away!Count /\ flushing'[r] \in Away!Count
  BY DEF Away!TypeOK
<1>2. Away!Of(away'[r], p) \in Nat /\ Away!Of(flushing'[r], p) \in Nat
  BY <1>1, OfCounts
<1> QED
  BY <1>2 DEF Own, Away!Of

LEMMA ToAddIsSum == ASSUME NEW p PROVE Away!ToAdd(p) = SumOf([r \in Replicas |-> Own(r, p)])
BY DEF
     SumOf, Away!ToAdd, Own, FoldFunction, FoldFunctionOnSet, MapThenFoldSet, Away!FoldFunction,
     Away!FoldFunctionOnSet, Away!MapThenFoldSet

LEMMA ToAddPrimed ==
  ASSUME NEW p PROVE Away!ToAdd(p)' = SumOf([r \in Replicas |-> Own(r, p)'])
BY DEF
     SumOf, Away!ToAdd, Own, Away!Of, FoldFunction, FoldFunctionOnSet, MapThenFoldSet,
     Away!FoldFunction, Away!FoldFunctionOnSet, Away!MapThenFoldSet

\* What is yet to be added changes by what the replica that moves has more.
LEMMA ToAddMoves ==
  ASSUME Away!Assumptions, Away!TypeOK, Away!TypeOK', NEW r \in Replicas, NEW p,
         \A q \in Replicas : q # r => away'[q] = away[q] /\ flushing'[q] = flushing[q]
  PROVE  /\ Away!ToAdd(p) \in Nat /\ Away!ToAdd(p)' \in Nat
         /\ Away!ToAdd(p)' = Away!ToAdd(p) - Own(r, p) + Own(r, p)'
<1> DEFINE f == [q \in Replicas |-> Own(q, p)]
           g == [q \in Replicas |-> Own(q, p)']
<1>1. f \in [Replicas -> Nat]
  BY OwnCounts
<1>2. g \in [Replicas -> Nat]
  BY OwnCountsNext
<1>3. \A q \in Replicas : q # r => g[q] = f[q]
  BY DEF Own, Away!Of
<1>4. f[r] = Own(r, p) /\ g[r] = Own(r, p)'
  OBVIOUS
<1>5. Away!ToAdd(p) = SumOf(f)
  BY ToAddIsSum
<1>6. Away!ToAdd(p)' = SumOf(g)
  BY ToAddPrimed
<1> HIDE DEF f, g
<1>7. /\ SumOf(f) \in Nat /\ SumOf(g) \in Nat
      /\ SumOf(g) = SumOf(f) - f[r] + g[r]
  <2>1. IsFiniteSet(Replicas)
    BY DEF Away!Assumptions, Away!IsFiniteSet, IsFiniteSet
  <2> QED
    BY <1>1, <1>2, <1>3, <2>1, SumMoves
<1> QED
  BY <1>4, <1>5, <1>6, <1>7

LEMMA ToAddStays ==
  ASSUME UNCHANGED <<away, flushing>>, NEW p
  PROVE  Away!ToAdd(p)' = Away!ToAdd(p)
BY DEF
     SumOf, Away!ToAdd, Away!Of, FoldFunction, FoldFunctionOnSet, MapThenFoldSet, Away!FoldFunction,
     Away!FoldFunctionOnSet, Away!MapThenFoldSet

LEMMA ToAddCounts ==
  ASSUME Away!Assumptions, Away!TypeOK, NEW p
  PROVE  Away!ToAdd(p) \in Nat
<1> DEFINE f == [q \in Replicas |-> Own(q, p)]
<1>1. f \in [Replicas -> Nat]
  BY OwnCounts
<1>2. Away!ToAdd(p) = SumOf(f)
  BY ToAddIsSum
<1>3. CASE Replicas = {}
  <2>1. \A y \in Replicas : f[y] = 0
    BY <1>3
  <2> HIDE DEF f
  <2>2. SumOf(f) = 0
    BY <1>1, <2>1, SumOfNone DEF Away!Assumptions, Away!IsFiniteSet, IsFiniteSet
  <2> QED
    BY <1>2, <2>2
<1>4. CASE Replicas # {}
  <2>1. PICK r \in Replicas : TRUE
    BY <1>4
  <2> HIDE DEF f
  <2>2. SumOf(f) \in Nat
    BY <1>1, <2>1, SumMoves DEF Away!Assumptions, Away!IsFiniteSet, IsFiniteSet
  <2> QED
    BY <1>2, <2>2
<1> QED
  BY <1>3, <1>4

LEMMA AwayFirst == ASSUME Away!Assumptions, Away!Init PROVE AwayInv
<1>0. 0 \in 0..MaxPause /\ 0 \in 0..MaxAway /\ 0 \in 0..StampAttempts /\ MaxFails \in 0..MaxFails
  BY DEF Away!Assumptions, Away!IsFiniteSet, IsFiniteSet
<1>1. Away!None \in Away!Count /\ Away!Current \in Away!Workload /\ Away!Current = [pause |-> 0,
        asleep |-> FALSE, annotation |-> Away!None]
  BY <1>0 DEF Away!None, Away!Count, Away!Init, Away!Current, Away!Workload
<1>2. Away!TypeOK
  BY <1>0, <1>1 DEF Away!Init, Away!TypeOK
<1>3. \A p \in Away!Pauses : Away!ToAdd(p) = 0
  <2> SUFFICES ASSUME NEW p \in Away!Pauses PROVE Away!ToAdd(p) = 0
    OBVIOUS
  <2> DEFINE f == [q \in Replicas |-> Own(q, p)]
  <2>1. f \in [Replicas -> Nat] /\ \A y \in Replicas : f[y] = 0
    BY DEF Own, Away!Of, Away!None, Away!Init, Away!Pauses
  <2>2. Away!ToAdd(p) = SumOf(f)
    BY ToAddIsSum
  <2> HIDE DEF f
  <2> QED
    BY <2>1, <2>2, SumOfNone DEF Away!Assumptions, Away!IsFiniteSet, IsFiniteSet
<1>4. \A p \in Away!Pauses : Away!Of(annotation, p) = 0
  BY DEF Away!Of, Away!Init, Away!None, Away!Pauses
<1>5. Ordered /\ StillCurrent /\ Named /\ NoneAhead /\ NeverLess /\ StatusBelow
  BY <1>1 DEF Ordered, StillCurrent, Named, NoneAhead, NeverLess, StatusBelow, Away!Init, Away!None, Away!Pauses
<1>6. NeverMore
  BY <1>3, <1>4 DEF NeverMore, Away!Init, Away!Pauses
<1> QED
  BY <1>2, <1>5, <1>6 DEF AwayInv

\* What status is to say was turned away was.
LEMMA RecordedBelow ==
  ASSUME Away!Assumptions, AwayInv, NEW p \in 0..MaxPause
  PROVE  /\ Away!Recorded(p) \in Away!Count
         /\ Away!Recorded(p).pause > 0 /\ Away!Recorded(p).pause \notin unheard =>
              Away!Recorded(p).n <= turned[Away!Recorded(p).pause]
<1> DEFINE latest == IF p > 0 /\ status.pause # p THEN [pause |-> p, n |-> 0] ELSE status
<1>1. status \in Away!Count /\ annotation \in Away!Count /\ \A q \in Away!Pauses : turned[q] \in Nat
  BY DEF AwayInv, Away!TypeOK, Away!Current, Away!Workload
<1>2. latest \in Away!Count
  BY <1>1 DEF Away!Count
<1>3. latest.pause > 0 /\ latest.pause \notin unheard => latest.n <= turned[latest.pause]
  <2>1. CASE p > 0 /\ status.pause # p
    BY <1>1, <2>1 DEF Away!Pauses
  <2>2. CASE ~(p > 0 /\ status.pause # p)
    BY <2>2 DEF AwayInv, StatusBelow
  <2> QED
    BY <2>1, <2>2
<1>4. annotation.pause > 0 /\ annotation.pause \notin unheard => annotation.n <= turned[annotation.pause]
  <2> SUFFICES ASSUME annotation.pause > 0, annotation.pause \notin unheard
               PROVE  annotation.n <= turned[annotation.pause]
    OBVIOUS
  <2> DEFINE q == annotation.pause
  <2>1. q \in Away!Pauses
    BY <1>1 DEF Away!Count, Away!Pauses
  <2>2. Away!Of(annotation, q) + Away!ToAdd(q) <= turned[q] /\ Away!Of(annotation, q) = annotation.n
    BY <2>1 DEF AwayInv, NeverMore, Away!Of
  <2>3. Away!ToAdd(q) \in Nat
    BY ToAddCounts DEF AwayInv
  <2>4. annotation.n \in Nat /\ turned[q] \in Nat
    BY <1>1, <2>1 DEF Away!Count
  <2> HIDE DEF q
  <2>5. annotation.n <= turned[q]
    BY <2>2, <2>3, <2>4
  <2> QED
    BY <2>5 DEF q
<1>5. Away!Recorded(p) = IF annotation.pause = latest.pause /\ latest.pause > 0 THEN annotation ELSE latest
  BY DEF Away!Recorded
<1> HIDE DEF latest
<1> QED
  BY <1>1, <1>2, <1>3, <1>4, <1>5

LEMMA OperatorKeeps ==
  ASSUME Away!Assumptions, AwayInv, Away!Pause \/ Away!Wakes \/ Away!Records
  PROVE  AwayInv'
<1>1. PICK p \in 0..MaxPause : status' = Away!Recorded(p)
  <2>1. pause \in 0..MaxPause /\ (Away!Pause => pause + 1 \in 0..MaxPause) /\ 0 \in 0..MaxPause
    BY DEF AwayInv, Away!TypeOK, Away!Current, Away!Workload, Away!Assumptions, Away!Pause
  <2>2. CASE Away!Pause
    BY <2>1, <2>2 DEF Away!Pause
  <2>3. CASE Away!Wakes
    BY <2>1, <2>3 DEF Away!Wakes
  <2>4. CASE Away!Records
    BY <2>1, <2>4 DEF Away!Records
  <2> QED
    BY <2>2, <2>3, <2>4
<1>2. /\ annotation' = annotation /\ asleep' \in BOOLEAN
      /\ pause \in 0..MaxPause /\ pause' \in 0..MaxPause
      /\ \/ pause' = pause /\ (asleep' => asleep)
         \/ pause' = pause + 1
  <2>1. pause \in 0..MaxPause /\ asleep \in BOOLEAN /\ MaxPause \in Nat
    BY DEF Away!Assumptions, AwayInv, Away!TypeOK, Away!Current, Away!Workload
  <2>2. CASE Away!Pause
    BY <2>1, <2>2 DEF Away!Pause
  <2>3. CASE Away!Wakes
    BY <2>1, <2>3 DEF Away!Wakes
  <2>4. CASE Away!Records
    BY <2>1, <2>4 DEF Away!Records, Away!cluster
  <2> QED
    BY <2>2, <2>3, <2>4
<1>3. Away!Written
  BY DEF Away!Pause, Away!Wakes, Away!Records
<1>4. UNCHANGED <<cached, route, away, flushing, tries, base, turned, displaced, unheard, fails>>
  BY <1>3 DEF Away!Written
<1>5. cachedFresh' = [r \in Replicas |-> FALSE] /\ ours' = [r \in Replicas |-> FALSE]
  BY <1>3 DEF Away!Written
<1>6. status' \in Away!Count /\ (status'.pause > 0 /\ status'.pause \notin unheard
        => status'.n <= turned[status'.pause])
  BY <1>1, RecordedBelow
<1>7. Away!TypeOK'
  <2>1. Away!Current' \in Away!Workload
    BY <1>2 DEF AwayInv, Away!TypeOK, Away!Current, Away!Workload
  <2> QED
    BY <1>4, <1>5, <1>6, <2>1 DEF AwayInv, Away!TypeOK
<1>8. Ordered'
  <2>1. /\ annotation.pause \in 0..MaxPause
        /\ \A r \in Replicas : /\ cached[r].pause \in 0..MaxPause /\ cached[r].annotation.pause \in 0..MaxPause
                               /\ base[r].pause \in 0..MaxPause /\ base[r].annotation.pause \in 0..MaxPause
    BY DEF AwayInv, Away!TypeOK, Away!Current, Away!Workload, Away!Count
  <2>2. pause <= pause' /\ (asleep' => pause' > 0)
    BY <1>2 DEF AwayInv, Ordered
  <2>3. annotation'.pause <= pause'
    BY <1>2, <2>1, <2>2 DEF AwayInv, Ordered
  <2>4. ASSUME NEW r \in Replicas
        PROVE  /\ cached[r].pause <= pause' /\ cached[r].annotation.pause <= pause'
               /\ base[r].pause <= pause' /\ base[r].annotation.pause <= pause'
    BY <1>2, <2>1, <2>2 DEF AwayInv, Ordered
  <2> QED
    BY <1>4, <2>2, <2>3, <2>4 DEF AwayInv, Ordered
<1>9. StillCurrent'
  BY <1>5 DEF StillCurrent
<1>15. Named'
  BY <1>4 DEF AwayInv, Named
<1>10. NoneAhead'
  BY <1>2, <1>4 DEF AwayInv, NoneAhead, Away!Pauses
<1>11. \A q : Away!ToAdd(q)' = Away!ToAdd(q) /\ Away!Of(annotation, q)' = Away!Of(annotation, q)
  BY <1>2, <1>4, ToAddStays DEF Away!Of
<1>12. NeverMore'
  BY <1>4, <1>11 DEF AwayInv, NeverMore
<1>13. NeverLess'
  <2> SUFFICES ASSUME NEW q \in Away!Pauses, asleep', q = pause', q \notin displaced'
               PROVE  Away!Of(annotation, q)' + Away!ToAdd(q)' >= turned'[q]
    BY DEF NeverLess
  <2>1. CASE pause' = pause /\ asleep
    BY <1>4, <1>11, <2>1 DEF AwayInv, NeverLess
  <2>2. CASE pause' = pause + 1
    <3>1. turned[q] = 0
      BY <1>2, <2>2 DEF AwayInv, NoneAhead, Away!Pauses
    <3>2. Away!ToAdd(q) \in Nat
      BY ToAddCounts DEF AwayInv
    <3>3. Away!Of(annotation, q) \in Nat
      <4>1. annotation \in Away!Count
        BY DEF AwayInv, Away!TypeOK, Away!Current, Away!Workload
      <4> QED
        BY <4>1, OfCounts
    <3> QED
      BY <1>4, <1>11, <3>1, <3>2, <3>3
  <2> QED
    BY <1>2, <2>1, <2>2
<1>14. StatusBelow'
  BY <1>4, <1>6 DEF StatusBelow
<1> QED
  BY <1>7, <1>8, <1>9, <1>10, <1>12, <1>13, <1>14, <1>15 DEF AwayInv

\* A replica's caches and routes count nothing.
LEMMA SumsStay ==
  ASSUME Away!Assumptions, AwayInv, UNCHANGED <<pause, asleep, annotation, status, away, flushing, turned,
           displaced, unheard>>
  PROVE  NoneAhead' /\ NeverMore' /\ NeverLess' /\ StatusBelow'
<1>1. \A q : Away!ToAdd(q)' = Away!ToAdd(q) /\ Away!Of(annotation, q)' = Away!Of(annotation, q)
  BY ToAddStays DEF Away!Of
<1> QED
  BY <1>1 DEF AwayInv, NoneAhead, NeverMore, NeverLess, StatusBelow

LEMMA SeeKeeps ==
  ASSUME Away!Assumptions, AwayInv, NEW r \in Replicas, Away!See(r)
  PROVE  AwayInv'
<1>1. UNCHANGED <<pause, asleep, annotation, status, route, away, flushing, tries, base, ours, turned,
        displaced, unheard, fails>>
  BY DEF Away!See, Away!cluster
<1>2. cached' = [cached EXCEPT ![r] = Away!Current] /\ cachedFresh' = [cachedFresh EXCEPT ![r] = TRUE]
  BY DEF Away!See
<1>3. Away!Current' = Away!Current
  BY <1>1 DEF Away!Current
<1>4. Away!TypeOK'
  BY <1>1, <1>2, <1>3 DEF AwayInv, Away!TypeOK
<1>5. Ordered'
  <2>1. Away!Current.pause = pause /\ Away!Current.annotation = annotation
    BY DEF Away!Current
  <2>2. \A q \in Replicas : away[q].pause <= pause /\ flushing[q].pause <= pause /\ route[q] <= pause
    <3>1. \A q \in Replicas : /\ away[q].pause \in 0..MaxPause /\ flushing[q].pause \in 0..MaxPause /\ route[q] \in 0..MaxPause
                              /\ cached[q].pause \in 0..MaxPause /\ pause \in 0..MaxPause
      BY DEF AwayInv, Away!TypeOK, Away!Current, Away!Workload, Away!Count
    <3>2. \A x, y, z \in 0..MaxPause : x <= y /\ y <= z => x <= z
      BY DEF Away!Assumptions, Away!IsFiniteSet, IsFiniteSet
    <3> QED
      BY <3>1, <3>2 DEF AwayInv, Ordered
  <2>3. \A q \in Replicas : cached'[q] = IF q = r THEN Away!Current ELSE cached[q]
    BY <1>2 DEF AwayInv, Away!TypeOK
  <2>4. pause <= pause
    BY DEF AwayInv, Away!TypeOK, Away!Current, Away!Workload
  <2>5. ASSUME NEW q \in Replicas
        PROVE  /\ cached'[q].pause <= pause /\ cached'[q].annotation.pause <= pause
               /\ away[q].pause <= cached'[q].pause /\ flushing[q].pause <= cached'[q].pause
               /\ route[q] <= cached'[q].pause
    <3>1. CASE q = r
      BY <2>1, <2>2, <2>3, <2>4, <3>1 DEF AwayInv, Ordered
    <3>2. CASE q # r
      BY <2>3, <3>2 DEF AwayInv, Ordered
    <3> QED
      BY <3>1, <3>2
  <2> QED
    BY <1>1, <2>5 DEF AwayInv, Ordered
<1>6. StillCurrent'
  BY <1>1, <1>2, <1>3 DEF AwayInv, StillCurrent, Away!TypeOK
<1>7. Named'
  BY <1>1 DEF AwayInv, Named
<1> QED
  BY <1>1, <1>4, <1>5, <1>6, <1>7, SumsStay DEF AwayInv

LEMMA SyncKeeps ==
  ASSUME Away!Assumptions, AwayInv, NEW r \in Replicas, Away!Sync(r)
  PROVE  AwayInv'
<1> DEFINE to == IF cached[r].asleep THEN cached[r].pause ELSE 0
<1>1. UNCHANGED <<pause, asleep, annotation, status, cached, cachedFresh, away, flushing, tries, base,
        ours, turned, displaced, unheard, fails>>
  BY DEF Away!Sync, Away!cluster
<1>2. route' = [route EXCEPT ![r] = to]
  BY DEF Away!Sync
<1>3. to \in 0..MaxPause /\ cached[r].pause \in 0..MaxPause /\ to \in {0, cached[r].pause}
  BY DEF AwayInv, Away!TypeOK, Away!Workload, Away!Assumptions
<1> HIDE DEF to
<1>4. Away!TypeOK'
  <2>1. Away!Current' = Away!Current
    BY <1>1 DEF Away!Current
  <2> QED
    BY <1>1, <1>2, <1>3, <2>1 DEF AwayInv, Away!TypeOK
<1>5. Ordered'
  <2>1. \A q \in Replicas : route'[q] = IF q = r THEN to ELSE route[q]
    BY <1>2 DEF AwayInv, Away!TypeOK
  <2>2. to <= cached[r].pause
    BY <1>3
  <2>3. to > 0 => away[r].pause <= to /\ flushing[r].pause <= to
    BY <1>3 DEF AwayInv, Ordered
  <2>4. ASSUME NEW q \in Replicas
        PROVE  /\ route'[q] <= cached[q].pause
               /\ route'[q] > 0 => away[q].pause <= route'[q] /\ flushing[q].pause <= route'[q]
    <3>1. CASE q = r
      BY <2>1, <2>2, <2>3, <3>1
    <3>2. CASE q # r
      BY <2>1, <3>2 DEF AwayInv, Ordered
    <3> QED
      BY <3>1, <3>2
  <2> QED
    BY <1>1, <2>4 DEF AwayInv, Ordered
<1>6. StillCurrent'
  BY <1>1 DEF AwayInv, StillCurrent, Away!Current
<1>7. Named'
  BY <1>1 DEF AwayInv, Named
<1> QED
  BY <1>1, <1>4, <1>5, <1>6, <1>7, SumsStay DEF AwayInv

LEMMA TurnAwayKeeps ==
  ASSUME Away!Assumptions, AwayInv, NEW r \in Replicas, Away!TurnAway(r)
  PROVE  AwayInv'
<1> DEFINE p == route[r]
           c == [pause |-> p, n |-> IF away[r].pause = p THEN away[r].n + 1 ELSE 1]
<1>1. UNCHANGED <<pause, asleep, annotation, status, cached, cachedFresh, route, flushing, tries, base,
        ours, displaced, unheard, fails>>
  BY DEF Away!TurnAway, Away!cluster
<1>2. away' = [away EXCEPT ![r] = c] /\ turned' = [turned EXCEPT ![p] = @ + 1] /\ p > 0 /\ turned[p] < MaxAway
  BY DEF Away!TurnAway
<1>3. away[r] \in Away!Count /\ p \in Away!Pauses /\ turned \in [Away!Pauses -> 0..MaxAway]
  BY <1>2 DEF AwayInv, Away!TypeOK, Away!Pauses
<1>4. c \in Away!Count /\ c.pause = p
  BY <1>3 DEF Away!Count, Away!Pauses
<1>5. turned[p] \in 0..MaxAway /\ turned[p] + 1 \in 0..MaxAway
  BY <1>2, <1>3 DEF Away!Assumptions, Away!IsFiniteSet, IsFiniteSet
<1>6. \A q \in Away!Pauses : turned'[q] = turned[q] + (IF q = p THEN 1 ELSE 0)
  BY <1>2, <1>3 DEF Away!Assumptions, Away!IsFiniteSet, IsFiniteSet
<1>7. \A q \in Replicas : away'[q] = IF q = r THEN c ELSE away[q]
  BY <1>2 DEF AwayInv, Away!TypeOK
<1>8. ASSUME NEW q \in Away!Pauses
      PROVE  /\ Own(r, q)' <= Own(r, q) + (IF q = p THEN 1 ELSE 0)
             /\ away[r].pause <= p => (q >= p => Own(r, q)' = Own(r, q) + (IF q = p THEN 1 ELSE 0))
  <2>1. Own(r, q) = Away!Of(away[r], q) + Away!Of(flushing[r], q) /\ Own(r, q)' = Away!Of(c,
          q) + Away!Of(flushing[r], q)
    BY <1>1, <1>7 DEF Own, Away!Of
  <2>2. Away!Of(c, q) = IF q = p THEN (IF away[r].pause = p THEN away[r].n + 1 ELSE 1) ELSE 0
    BY <1>4 DEF Away!Of
  <2>3. Away!Of(away[r], q) = IF away[r].pause = q THEN away[r].n ELSE 0
    BY DEF Away!Of
  <2>4. away[r].n \in Nat /\ away[r].pause \in Nat /\ p \in Nat /\ q \in Nat
    BY <1>3 DEF Away!Count, Away!Pauses
  <2>5. Away!Of(flushing[r], q) \in Nat
    <3>1. flushing[r] \in Away!Count
      BY DEF AwayInv, Away!TypeOK
    <3> QED
      BY <3>1, OfCounts
  <2> HIDE DEF c, p
  <2> QED
    BY <2>1, <2>2, <2>3, <2>4, <2>5
<1> HIDE DEF c
<1>9. Away!TypeOK'
  <2>1. Away!Current' = Away!Current
    BY <1>1 DEF Away!Current
  <2>2. turned' \in [Away!Pauses -> 0..MaxAway]
    BY <1>2, <1>3, <1>5
  <2> HIDE DEF p
  <2> QED
    BY <1>1, <1>2, <1>4, <2>1, <2>2 DEF AwayInv, Away!TypeOK
<1>10. p <= cached[r].pause /\ p <= pause /\ away[r].pause <= p
  <2>1. p <= cached[r].pause /\ cached[r].pause <= pause /\ away[r].pause <= p
    BY <1>2 DEF AwayInv, Ordered
  <2>2. p \in Nat /\ cached[r].pause \in Nat /\ pause \in Nat
    BY <1>3 DEF AwayInv, Away!TypeOK, Away!Current, Away!Workload, Away!Pauses
  <2> QED
    BY <2>1, <2>2
<1>11. Ordered'
  <2>1. ASSUME NEW q \in Replicas
        PROVE  away'[q].pause <= cached[q].pause /\ (route[q] > 0 => away'[q].pause <= route[q])
    <3>1. CASE q = r
      <4>1. p <= p
        BY <1>3 DEF Away!Pauses
      <4> QED
        BY <1>4, <1>7, <1>10, <3>1, <4>1
    <3>2. CASE q # r
      BY <1>7, <3>2 DEF AwayInv, Ordered
    <3> QED
      BY <3>1, <3>2
  <2> QED
    BY <1>1, <2>1 DEF AwayInv, Ordered
<1>12. StillCurrent'
  BY <1>1 DEF AwayInv, StillCurrent, Away!Current
<1>13. NoneAhead'
  <2>1. pause \in Nat /\ p \in Nat
    BY <1>3 DEF AwayInv, Away!TypeOK, Away!Current, Away!Workload, Away!Pauses
  <2> HIDE DEF p
  <2> QED
    BY <1>1, <1>6, <1>10, <2>1 DEF AwayInv, NoneAhead, Away!Pauses
<1>14. ASSUME NEW q
       PROVE  /\ Away!ToAdd(q) \in Nat /\ Away!ToAdd(q)' = Away!ToAdd(q) - Own(r, q) + Own(r, q)'
                 /\ Away!Of(annotation, q)' = Away!Of(annotation, q)
              /\ Own(r, q) \in Nat /\ Own(r, q)' \in Nat /\ Away!Of(annotation, q) \in Nat
  <2>1. Away!ToAdd(q) \in Nat /\ Away!ToAdd(q)' = Away!ToAdd(q) - Own(r, q) + Own(r, q)'
    BY <1>1, <1>7, <1>9, ToAddMoves DEF AwayInv
  <2>2. Own(r, q) \in Nat
    BY OwnCounts DEF AwayInv
  <2>3. Own(r, q)' \in Nat
    BY <1>9, OwnCountsNext
  <2>4. Away!Of(annotation, q)' = Away!Of(annotation, q) /\ Away!Of(annotation, q) \in Nat
    BY <1>1, OfCounts DEF Away!Of, AwayInv, Away!TypeOK, Away!Current, Away!Workload
  <2> QED
    BY <2>1, <2>2, <2>3, <2>4
<1>15. NeverMore'
  <2> SUFFICES ASSUME NEW q \in Away!Pauses, q \notin unheard'
               PROVE  Away!Of(annotation, q)' + Away!ToAdd(q)' <= turned'[q]
    BY DEF NeverMore
  <2>1. Away!Of(annotation, q) + Away!ToAdd(q) <= turned[q] /\ turned[q] \in Nat
    BY <1>1, <1>3 DEF AwayInv, NeverMore
  <2> HIDE DEF p
  <2>2. Own(r, q)' <= Own(r, q) + (IF q = p THEN 1 ELSE 0)
    BY <1>8
  <2> QED
    BY <1>6, <1>14, <2>1, <2>2
<1>16. NeverLess'
  <2> SUFFICES ASSUME NEW q \in Away!Pauses, asleep, q = pause, q \notin displaced
               PROVE  Away!Of(annotation, q)' + Away!ToAdd(q)' >= turned'[q]
    BY <1>1 DEF NeverLess
  <2>1. Away!Of(annotation, q) + Away!ToAdd(q) >= turned[q] /\ turned[q] \in Nat
    BY <1>3 DEF AwayInv, NeverLess
  <2>2. q >= p
    <3>1. q \in Nat /\ p \in Nat
      BY <1>3 DEF Away!Pauses
    <3> QED
      BY <1>10, <3>1
  <2>3. Own(r, q)' = Own(r, q) + (IF q = p THEN 1 ELSE 0)
    BY <1>8, <1>10, <2>2
  <2> HIDE DEF p
  <2> QED
    BY <1>6, <1>14, <2>1, <2>3
<1>17. StatusBelow'
  <2>1. status \in Away!Count
    BY DEF AwayInv, Away!TypeOK
  <2>2. status.pause > 0 => status.pause \in Away!Pauses /\ turned'[status.pause] >= turned[status.pause]
          /\ turned[status.pause] \in Nat
    BY <1>3, <1>6, <2>1 DEF Away!Count, Away!Pauses
  <2>3. status.n \in Nat
    BY <2>1 DEF Away!Count
  <2>4. status.pause > 0 => turned'[status.pause] \in Nat
    BY <1>3, <1>6, <2>2
  <2> QED
    BY <1>1, <2>2, <2>3, <2>4 DEF AwayInv, StatusBelow
<1>18. Named'
  <2>1. c.pause > 0
    BY <1>2, <1>4
  <2> HIDE DEF p
  <2> QED
    BY <1>1, <1>7, <2>1 DEF AwayInv, Named
<1> QED
  BY <1>18, <1>9, <1>11, <1>12, <1>13, <1>15, <1>16, <1>17 DEF AwayInv

\* A flush's steps: what it has yet to add, with what's added, is neither more nor,
\* of a pause that's on, less.
LEMMA FlushCounts ==
  ASSUME Away!Assumptions, AwayInv, Away!TypeOK', NEW r \in Replicas,
         \A q \in Replicas : q # r => away'[q] = away[q] /\ flushing'[q] = flushing[q],
         UNCHANGED <<pause, asleep, status, turned>>, displaced \subseteq displaced',
           unheard \subseteq unheard',
         \A p \in Away!Pauses : p \notin unheard' => Away!Of(annotation', p) + Own(r,
           p)' <= Away!Of(annotation, p) + Own(r, p),
         \A p \in Away!Pauses : asleep /\ p = pause /\ p \notin displaced' =>
           Away!Of(annotation', p) + Own(r, p)' >= Away!Of(annotation, p) + Own(r, p)
  PROVE  NoneAhead' /\ NeverMore' /\ NeverLess' /\ StatusBelow'
<1>1. ASSUME NEW p \in Away!Pauses
      PROVE  /\ Away!ToAdd(p) \in Nat /\ Away!ToAdd(p)' \in Nat /\ Away!ToAdd(p)' = Away!ToAdd(p) - Own(r,
                p) + Own(r, p)'
             /\ Own(r, p) \in Nat /\ Own(r, p)' \in Nat
             /\ Away!Of(annotation, p) \in Nat /\ Away!Of(annotation', p) \in Nat /\ turned[p] \in Nat
             /\ Away!Of(annotation, p)' = Away!Of(annotation', p)
  <2>1. Away!ToAdd(p) \in Nat /\ Away!ToAdd(p)' \in Nat /\ Away!ToAdd(p)' = Away!ToAdd(p) - Own(r,
          p) + Own(r, p)'
    BY ToAddMoves DEF AwayInv
  <2>2. Own(r, p) \in Nat
    BY OwnCounts DEF AwayInv
  <2>3. Own(r, p)' \in Nat
    BY OwnCountsNext
  <2>4. annotation \in Away!Count /\ annotation' \in Away!Count /\ turned[p] \in Nat
    BY DEF AwayInv, Away!TypeOK, Away!Current, Away!Workload
  <2>5. Away!Of(annotation, p) \in Nat /\ Away!Of(annotation', p) \in Nat
    BY <2>4, OfCounts
  <2> QED
    BY <2>1, <2>2, <2>3, <2>4, <2>5 DEF Away!Of
<1>2. NoneAhead' /\ StatusBelow'
  BY DEF AwayInv, NoneAhead, StatusBelow
<1>3. NeverMore'
  <2> SUFFICES ASSUME NEW p \in Away!Pauses, p \notin unheard'
               PROVE  Away!Of(annotation, p)' + Away!ToAdd(p)' <= turned[p]
    BY DEF NeverMore
  <2>1. Away!Of(annotation, p) + Away!ToAdd(p) <= turned[p]
    BY DEF AwayInv, NeverMore
  <2>2. Away!Of(annotation', p) + Own(r, p)' <= Away!Of(annotation, p) + Own(r, p)
    OBVIOUS
  <2> QED
    BY <1>1, <2>1, <2>2
<1>4. NeverLess'
  <2> SUFFICES ASSUME NEW p \in Away!Pauses, asleep, p = pause, p \notin displaced'
               PROVE  Away!Of(annotation, p)' + Away!ToAdd(p)' >= turned[p]
    BY DEF NeverLess
  <2>1. Away!Of(annotation, p) + Away!ToAdd(p) >= turned[p]
    BY DEF AwayInv, NeverLess
  <2>2. Away!Of(annotation', p) + Own(r, p)' >= Away!Of(annotation, p) + Own(r, p)
    OBVIOUS
  <2> QED
    BY <1>1, <2>1, <2>2
<1> QED
  BY <1>2, <1>3, <1>4

LEMMA NoneCounts == ASSUME Away!Assumptions PROVE Away!None \in Away!Count /\ \A p : Away!Of(Away!None, p) = 0
BY DEF Away!Assumptions, Away!None, Away!Count, Away!Of

LEMMA FlushKeeps ==
  ASSUME Away!Assumptions, AwayInv, NEW r \in Replicas, Away!Flush(r)
  PROVE  AwayInv'
<1>1. UNCHANGED <<pause, asleep, annotation, status, cached, cachedFresh, route, turned, displaced,
        unheard, fails>>
  BY DEF Away!Flush, Away!cluster
<1>2. /\ flushing' = [flushing EXCEPT ![r] = away[r]] /\ away' = [away EXCEPT ![r] = Away!None]
         /\ flushing[r] = Away!None
      /\ tries' = [tries EXCEPT ![r] = 1] /\ base' = [base EXCEPT ![r] = cached[r]]
         /\ ours' = [ours EXCEPT ![r] = cachedFresh[r]]
  BY DEF Away!Flush, Away!ReadFor
<1>3. /\ \A q \in Replicas : flushing'[q] = IF q = r THEN away[r] ELSE flushing[q]
      /\ \A q \in Replicas : away'[q] = IF q = r THEN Away!None ELSE away[q]
      /\ \A q \in Replicas : base'[q] = IF q = r THEN cached[r] ELSE base[q]
      /\ \A q \in Replicas : ours'[q] = IF q = r THEN cachedFresh[r] ELSE ours[q]
      /\ \A q \in Replicas : tries'[q] = IF q = r THEN 1 ELSE tries[q]
  BY <1>2 DEF AwayInv, Away!TypeOK
<1>4. Away!Current' = Away!Current
  BY <1>1 DEF Away!Current
<1>5. Away!TypeOK'
  <2>1. 1 \in 0..StampAttempts
    BY DEF Away!Assumptions, Away!IsFiniteSet, IsFiniteSet
  <2>2. Away!None \in Away!Count
    BY NoneCounts
  <2> QED
    BY <1>1, <1>2, <1>4, <2>1, <2>2 DEF AwayInv, Away!TypeOK
<1>6. Ordered'
  <2>1. ASSUME NEW q \in Replicas
        PROVE  /\ base'[q].pause <= pause /\ base'[q].annotation.pause <= pause
               /\ away'[q].pause <= cached[q].pause /\ flushing'[q].pause <= cached[q].pause
               /\ route[q] > 0 => away'[q].pause <= route[q] /\ flushing'[q].pause <= route[q]
    <3>1. CASE q = r
      <4>1. Away!None.pause = 0 /\ cached[r].pause \in Nat /\ route[r] \in Nat
        BY DEF Away!None, AwayInv, Away!TypeOK, Away!Workload
      <4> QED
        BY <1>3, <3>1, <4>1 DEF AwayInv, Ordered
    <3>2. CASE q # r
      BY <1>3, <3>2 DEF AwayInv, Ordered
    <3> QED
      BY <3>1, <3>2
  <2> QED
    BY <1>1, <2>1 DEF AwayInv, Ordered
<1>7. StillCurrent'
  <2>1. ASSUME NEW q \in Replicas
        PROVE  tries'[q] > 0 /\ ours'[q] => base'[q] = Away!Current
    BY <1>3 DEF AwayInv, StillCurrent
  <2> QED
    BY <1>1, <1>4, <2>1 DEF AwayInv, StillCurrent
<1>8. \A p : Own(r, p)' = Own(r, p)
  <2> SUFFICES ASSUME NEW p PROVE Own(r, p)' = Own(r, p)
    OBVIOUS
  <2>1. Own(r, p) = Away!Of(away[r], p) + 0
    BY <1>2, NoneCounts DEF Own
  <2>2. Own(r, p)' = 0 + Away!Of(away[r], p)
    <3>1. away'[r] = Away!None /\ flushing'[r] = away[r]
      BY <1>3
    <3>2. Own(r, p)' = Away!Of(away'[r], p) + Away!Of(flushing'[r], p)
      BY DEF Own, Away!Of
    <3> QED
      BY <3>1, <3>2, NoneCounts
  <2>3. Away!Of(away[r], p) \in Nat
    <3>1. away[r] \in Away!Count
      BY DEF AwayInv, Away!TypeOK
    <3> QED
      BY <3>1, OfCounts
  <2> QED
    BY <2>1, <2>2, <2>3
<1>9. \A p : Own(r, p) \in Nat /\ Away!Of(annotation, p) \in Nat
  <2>1. annotation \in Away!Count
    BY DEF AwayInv, Away!TypeOK, Away!Current, Away!Workload
  <2> QED
    BY <2>1, OfCounts, OwnCounts DEF AwayInv
<1>10. \A q \in Replicas : q # r => away'[q] = away[q] /\ flushing'[q] = flushing[q]
  BY <1>3
<1>11. /\ \A p \in Away!Pauses : Away!Of(annotation', p) + Own(r, p)' <= Away!Of(annotation, p) + Own(r, p)
       /\ \A p \in Away!Pauses : Away!Of(annotation', p) + Own(r, p)' >= Away!Of(annotation, p) + Own(r, p)
  BY <1>1, <1>8, <1>9
<1>12. NoneAhead' /\ NeverMore' /\ NeverLess' /\ StatusBelow'
  BY <1>1, <1>5, <1>10, <1>11, FlushCounts
<1>13. Named'
  <2>1. away[r] # Away!None
    BY DEF Away!Flush
  <2> QED
    BY <1>3, <2>1 DEF AwayInv, Named
<1> QED
  BY <1>5, <1>6, <1>7, <1>12, <1>13 DEF AwayInv

\* What a write of its flush is to make of the annotation.
Added(r) ==
  Away!WithTurnedAway(base[r].annotation, flushing[r], IF base[r].asleep THEN base[r].pause ELSE 0)

\* It has nothing to add to one of a later pause.
LEMMA NoneIsPast ==
  ASSUME Away!Assumptions, AwayInv, NEW r \in Replicas, Added(r) = Away!None
  PROVE  flushing[r] = Away!None \/ flushing[r].pause < pause
<1> DEFINE c == flushing[r]
           have == base[r].annotation
<1>1. c \in Away!Count /\ have \in Away!Count /\ have.pause <= pause /\ pause \in Nat
  BY DEF AwayInv, Away!TypeOK, Away!Current, Away!Workload, Ordered
<1>2. CASE have.pause > c.pause
  BY <1>1, <1>2 DEF Away!Count
<1>3. CASE ~(have.pause > c.pause)
  <2>1. CASE have.pause = 0 \/ have.pause < c.pause
    BY <2>1 DEF Added, Away!WithTurnedAway
  <2>2. CASE have.pause # 0 /\ ~(have.pause < c.pause)
    <3>1. have.pause = c.pause /\ c.pause # 0
      BY <1>1, <1>3, <2>2 DEF Away!Count
    <3>2. Away!None \in {c, [c EXCEPT !.n = @ + have.n]}
      BY <1>3 DEF Added, Away!WithTurnedAway
    <3>3. Away!None.pause = c.pause
      BY <1>1, <3>2 DEF Away!Count
    <3> QED
      BY <3>1, <3>3 DEF Away!None
  <2> QED
    BY <2>1, <2>2
<1> QED
  BY <1>2, <1>3

\* A write at the version it was made from adds its flush to what is there.
LEMMA AddsToCurrent ==
  ASSUME Away!Assumptions, AwayInv, NEW r \in Replicas, Added(r) # Away!None, tries[r] > 0, ours[r]
  PROVE  /\ Added(r) \in Away!Count /\ Added(r).pause = flushing[r].pause
         /\ \A p : Away!Of(Added(r), p) <= Away!Of(annotation, p) + Away!Of(flushing[r], p)
         /\ \A p : p # flushing[r].pause => Away!Of(Added(r), p) = 0
         /\ pause > 0 => Away!Of(Added(r), pause) = Away!Of(annotation, pause) + Away!Of(flushing[r], pause)
<1> DEFINE c == flushing[r]
           latest == IF asleep THEN pause ELSE 0
<1>1. base[r] = Away!Current
  BY DEF AwayInv, StillCurrent
<1>2. Added(r) = Away!WithTurnedAway(annotation, c, latest)
  BY <1>1 DEF Added, Away!Current
<1>3. c \in Away!Count /\ annotation \in Away!Count /\ annotation.pause <= pause /\ pause \in Nat
        /\ c.pause <= pause
  <2>1. c \in Away!Count /\ annotation \in Away!Count /\ annotation.pause <= pause /\ pause \in Nat
    BY DEF AwayInv, Away!TypeOK, Away!Current, Away!Workload, Ordered
  <2>2. c.pause <= cached[r].pause /\ cached[r].pause <= pause /\ cached[r].pause \in Nat
    BY DEF AwayInv, Away!TypeOK, Away!Workload, Ordered
  <2>3. c.pause \in Nat
    BY <2>1 DEF Away!Count
  <2> QED
    BY <2>1, <2>2, <2>3
<1>4. ~(latest > 0 /\ annotation.pause > latest)
  BY <1>3 DEF Away!Count
<1> HIDE DEF c, latest
<1> DEFINE both == [c EXCEPT !.n = @ + annotation.n]
<1>5. \/ annotation.pause # c.pause /\ Added(r) = c /\ (annotation.pause = 0 \/ annotation.pause < c.pause)
      \/ annotation.pause = 0 /\ c.pause = 0 /\ Added(r) = c
      \/ annotation.pause = c.pause /\ c.pause > 0 /\ Added(r) = both
  BY <1>2, <1>3, <1>4 DEF Away!WithTurnedAway, Away!Count
<1>6. /\ c.n \in Nat /\ annotation.n \in Nat /\ c.pause \in Nat /\ annotation.pause \in Nat
      /\ both \in Away!Count /\ both.pause = c.pause /\ both.n = c.n + annotation.n
  BY <1>3 DEF Away!Count
<1> HIDE DEF both
<1>7. Added(r) \in Away!Count /\ Added(r).pause = c.pause
  BY <1>3, <1>5, <1>6
<1>8. ASSUME NEW p PROVE Away!Of(Added(r), p) <= Away!Of(annotation, p) + Away!Of(c, p)
  <2>1. CASE Added(r) = c
    BY <1>6, <2>1 DEF Away!Of
  <2>2. CASE Added(r) = both /\ annotation.pause = c.pause
    BY <1>6, <2>2 DEF Away!Of
  <2> QED
    BY <1>5, <2>1, <2>2
<1>9. ASSUME NEW p, p # c.pause PROVE Away!Of(Added(r), p) = 0
  BY <1>7, <1>9 DEF Away!Of
<1>10. ASSUME pause > 0 PROVE Away!Of(Added(r), pause) = Away!Of(annotation, pause) + Away!Of(c, pause)
  <2>1. CASE Added(r) = c /\ (annotation.pause = 0 \/ annotation.pause < c.pause)
    <3>1. annotation.pause # pause
      BY <1>3, <1>6, <1>10, <2>1
    <3>2. Away!Of(annotation, pause) = 0
      BY <3>1 DEF Away!Of
    <3>3. Away!Of(c, pause) \in Nat
      BY <1>3, OfCounts
    <3> QED
      BY <2>1, <3>2, <3>3
  <2>2. CASE Added(r) = both /\ annotation.pause = c.pause
    BY <1>6, <2>2 DEF Away!Of
  <2> QED
    BY <1>5, <2>1, <2>2
<1> QED
  BY <1>7, <1>8, <1>9, <1>10 DEF c

\* A flush that isn't to be added is put back over what's counted since.
LEMMA PutBackCounts ==
  ASSUME Away!Assumptions, AwayInv, NEW r \in Replicas, Away!PutBack(r), Away!Done(r)
  PROVE  /\ away'[r] \in Away!Count /\ away'[r].pause = flushing[r].pause
         /\ \A p : Own(r, p)' <= Own(r, p)
         /\ asleep /\ pause \notin displaced' => Own(r, pause) <= Away!Of(away'[r], pause)
         /\ displaced \subseteq displaced' /\ displaced' \subseteq Away!Pauses
<1> DEFINE c == flushing[r]
           more == IF away[r].pause = c.pause THEN away[r].n ELSE 0
           back == [c EXCEPT !.n = @ + more]
<1>1. c \in Away!Count /\ away[r] \in Away!Count /\ away[r].pause <= pause /\ c.pause <= pause /\ pause \in Nat
  <2>1. c \in Away!Count /\ away[r] \in Away!Count /\ pause \in Nat /\ cached[r].pause \in Nat
    BY DEF AwayInv, Away!TypeOK, Away!Current, Away!Workload
  <2>2. c.pause <= cached[r].pause /\ away[r].pause <= cached[r].pause /\ cached[r].pause <= pause
    BY DEF AwayInv, Ordered
  <2> HIDE DEF c
  <2>3. c.pause \in Nat /\ away[r].pause \in Nat
    BY <2>1 DEF Away!Count
  <2> QED
    BY <2>1, <2>2, <2>3
<1>2. /\ away' = [away EXCEPT ![r] = back] /\ away \in [Replicas -> Away!Count]
      /\ displaced' = IF away[r].pause > c.pause THEN displaced \cup {away[r].pause} ELSE displaced
      /\ flushing' = [flushing EXCEPT ![r] = Away!None] /\ flushing \in [Replicas -> Away!Count]
         /\ displaced \subseteq Away!Pauses
  BY DEF Away!PutBack, Away!Done, AwayInv, Away!TypeOK
<1>3. away'[r] = back /\ flushing'[r] = Away!None
  BY <1>2
<1> HIDE DEF c
<1>4. back \in Away!Count /\ back.pause = c.pause /\ back.n = c.n + more
  BY <1>1 DEF Away!Count
<1> HIDE DEF back
<1>5. /\ c.n \in Nat /\ c.pause \in Nat /\ away[r].n \in Nat /\ away[r].pause \in Nat
         /\ away[r].pause \in 0..MaxPause
  BY <1>1 DEF Away!Count
<1>6. ASSUME NEW p PROVE Own(r, p) = Away!Of(away[r], p) + Away!Of(c, p) /\ Own(r, p)' = Away!Of(back, p)
  <2>1. Own(r, p)' = Away!Of(back, p) + Away!Of(Away!None, p)
    BY <1>3 DEF Own, Away!Of
  <2>2. Away!Of(back, p) \in Nat
    BY <1>4, OfCounts
  <2> QED
    BY <2>1, <2>2, NoneCounts DEF Own, c
<1>7. \A p : Own(r, p)' <= Own(r, p)
  BY <1>4, <1>5, <1>6 DEF Away!Of
<1>8. ASSUME asleep, pause \notin displaced' PROVE Own(r, pause) <= Away!Of(back, pause)
  <2>1. pause > 0
    BY <1>8 DEF AwayInv, Ordered
  <2>2. ~(away[r].pause > c.pause /\ away[r].pause = pause)
    BY <1>2, <1>8
  <2>3. Own(r, pause) = Away!Of(away[r], pause) + Away!Of(c, pause)
    BY <1>6
  <2> QED
    BY <1>1, <1>4, <1>5, <2>1, <2>2, <2>3 DEF Away!Of
<1>9. away[r].pause > c.pause => away[r].pause \in Away!Pauses
  BY <1>5 DEF Away!Pauses
<1> QED
  BY <1>2, <1>3, <1>4, <1>7, <1>8, <1>9 DEF c

\* Every way a write of its flush may end.
LEMMA AddEnds ==
  ASSUME NEW r \in Replicas, Away!Add(r)
  PROVE  /\ tries[r] > 0 /\ UNCHANGED <<status, cached, route, turned>>
         /\ \/ /\ Added(r) = Away!None /\ Away!Done(r)
               /\ UNCHANGED <<pause, asleep, annotation, cachedFresh, away, ours, displaced, unheard, fails>>
            \/ /\ Added(r) # Away!None /\ ours[r] /\ Away!Done(r) /\ annotation' = Added(r)
               /\ cachedFresh' = [q \in Replicas |-> FALSE] /\ ours' = [q \in Replicas |-> FALSE]
               /\ UNCHANGED <<pause, asleep, away, displaced, unheard, fails>>
            \/ /\ tries[r] < StampAttempts /\ Away!ReadFor(r, tries[r] + 1)
               /\ UNCHANGED <<pause, asleep, annotation, cachedFresh, flushing, away, displaced, unheard,
                  fails>>
            \/ /\ Away!PutBack(r) /\ Away!Done(r) /\ (fails' = fails \/ (fails > 0 /\ fails' = fails - 1))
               /\ UNCHANGED <<pause, asleep, annotation, cachedFresh, ours, unheard>>
            \/ /\ Away!PutBack(r) /\ Away!Done(r) /\ fails > 0 /\ fails' = fails - 1
               /\ Added(r) # Away!None /\ ours[r] /\ annotation' = Added(r)
                  /\ unheard' = unheard \cup {flushing[r].pause}
               /\ cachedFresh' = [q \in Replicas |-> FALSE] /\ ours' = [q \in Replicas |-> FALSE]
               /\ UNCHANGED <<pause, asleep>>
<1> DEFINE latest == IF base[r].asleep THEN base[r].pause ELSE 0
           count == Away!WithTurnedAway(base[r].annotation, flushing[r], latest)
           same == UNCHANGED <<pause, asleep, annotation, cachedFresh>>
<1>1. count = Added(r)
  BY DEF Added
<1>2. /\ tries[r] > 0
      /\ \/ count = Away!None /\ Away!Done(r) /\ same /\ UNCHANGED <<away, ours, displaced, unheard, fails>>
         \/ /\ count # Away!None /\ Away!AtVersion(r)
            /\ annotation' = count /\ cachedFresh' = [q \in Replicas |-> FALSE]
            /\ ours' = [q \in Replicas |-> FALSE]
            /\ Away!Done(r) /\ UNCHANGED <<pause, asleep, away, displaced, unheard, fails>>
         \/ /\ count # Away!None /\ ~Away!AtVersion(r) /\ same /\ UNCHANGED <<unheard, fails>>
            /\ IF tries[r] < StampAttempts
               THEN Away!ReadFor(r, tries[r] + 1) /\ UNCHANGED <<flushing, away, displaced>>
               ELSE Away!PutBack(r) /\ Away!Done(r) /\ UNCHANGED ours
         \/ /\ fails > 0 /\ fails' = fails - 1
            /\ Away!PutBack(r) /\ Away!Done(r)
            /\ \/ same /\ UNCHANGED <<ours, unheard>>
               \/ /\ count # Away!None /\ Away!AtVersion(r)
                  /\ annotation' = count /\ unheard' = unheard \cup {flushing[r].pause}
                  /\ cachedFresh' = [q \in Replicas |-> FALSE]
                  /\ ours' = [q \in Replicas |-> FALSE]
                  /\ UNCHANGED <<pause, asleep>>
      /\ UNCHANGED <<status, cached, route, turned>>
  BY DEF Away!Add
<1> HIDE DEF count
<1> QED
  BY <1>1, <1>2 DEF Away!AtVersion

\* What a flush that's over leaves of itself.
LEMMA DoneLeaves ==
  ASSUME Away!Assumptions, AwayInv, NEW r \in Replicas, Away!Done(r)
  PROVE  /\ \A q \in Replicas : flushing'[q] = IF q = r THEN Away!None ELSE flushing[q]
         /\ \A q \in Replicas : tries'[q] = IF q = r THEN 0 ELSE tries[q]
         /\ \A q \in Replicas : base'[q] = IF q = r THEN [pause |-> 0, asleep |-> FALSE,
            annotation |-> Away!None] ELSE base[q]
         /\ flushing' \in [Replicas -> Away!Count] /\ tries' \in [Replicas -> 0..StampAttempts]
            /\ base' \in [Replicas -> Away!Workload]
<1>1. /\ flushing \in [Replicas -> Away!Count] /\ tries \in [Replicas -> 0..StampAttempts]
         /\ base \in [Replicas -> Away!Workload]
  BY DEF AwayInv, Away!TypeOK
<1>2. Away!None \in Away!Count /\ 0 \in 0..StampAttempts /\ 0 \in 0..MaxPause
  BY NoneCounts DEF Away!Assumptions, Away!IsFiniteSet, IsFiniteSet
<1>3. [pause |-> 0, asleep |-> FALSE, annotation |-> Away!None] \in Away!Workload
  BY <1>2 DEF Away!Workload
<1> QED
  BY <1>1, <1>2, <1>3 DEF Away!Done

\* One that's over, with what it leaves to add, and the annotation, in order.
LEMMA DoneKeeps ==
  ASSUME Away!Assumptions, AwayInv, NEW r \in Replicas, Away!Done(r), UNCHANGED <<pause, asleep, status,
           cached, route, turned>>,
         away' \in [Replicas -> Away!Count], \A q \in Replicas : q # r => away'[q] = away[q],
         away'[r].pause \in {away[r].pause, flushing[r].pause},
         annotation' \in Away!Count, annotation'.pause \in {annotation.pause, flushing[r].pause},
         \/ UNCHANGED <<annotation, cachedFresh, ours>>
         \/ cachedFresh' = [q \in Replicas |-> FALSE] /\ ours' = [q \in Replicas |-> FALSE],
         displaced' \subseteq Away!Pauses, unheard' \subseteq Away!Pauses, fails' \in 0..MaxFails,
         away'[r] = Away!None \/ away'[r].pause > 0
  PROVE  Away!TypeOK' /\ Ordered' /\ StillCurrent' /\ Named'
<1>1. /\ \A q \in Replicas : flushing'[q] = IF q = r THEN Away!None ELSE flushing[q]
      /\ \A q \in Replicas : tries'[q] = IF q = r THEN 0 ELSE tries[q]
      /\ \A q \in Replicas : base'[q] = IF q = r THEN [pause |-> 0, asleep |-> FALSE,
         annotation |-> Away!None] ELSE base[q]
      /\ flushing' \in [Replicas -> Away!Count] /\ tries' \in [Replicas -> 0..StampAttempts]
         /\ base' \in [Replicas -> Away!Workload]
  BY DoneLeaves
<1>2. Away!TypeOK'
  <2>1. Away!Current' \in Away!Workload
    BY DEF AwayInv, Away!TypeOK, Away!Current, Away!Workload
  <2>2. cachedFresh' \in [Replicas -> BOOLEAN] /\ ours' \in [Replicas -> BOOLEAN]
    BY DEF AwayInv, Away!TypeOK
  <2> QED
    BY <1>1, <2>1, <2>2 DEF AwayInv, Away!TypeOK
<1>3. /\ pause \in Nat /\ annotation.pause <= pause /\ flushing[r].pause \in Nat
         /\ flushing[r].pause <= cached[r].pause
      /\ cached[r].pause \in Nat /\ cached[r].pause <= pause /\ route[r] \in Nat
  BY DEF AwayInv, Away!TypeOK, Away!Current, Away!Workload, Away!Count, Ordered
<1>4. annotation'.pause <= pause
  BY <1>3
<1>5. ASSUME NEW q \in Replicas
      PROVE  /\ base'[q].pause <= pause /\ base'[q].annotation.pause <= pause
             /\ away'[q].pause <= cached[q].pause /\ flushing'[q].pause <= cached[q].pause
             /\ route[q] > 0 => away'[q].pause <= route[q] /\ flushing'[q].pause <= route[q]
  <2>1. CASE q = r
    <3>1. base'[r].pause = 0 /\ base'[r].annotation.pause = 0 /\ flushing'[r].pause = 0
      BY <1>1 DEF Away!None
    <3>2. away'[r].pause <= cached[r].pause /\ (route[r] > 0 => away'[r].pause <= route[r])
      BY DEF AwayInv, Ordered
    <3> QED
      BY <1>3, <2>1, <3>1, <3>2
  <2>2. CASE q # r
    BY <1>1, <2>2 DEF AwayInv, Ordered
  <2> QED
    BY <2>1, <2>2
<1>6. Ordered'
  BY <1>4, <1>5 DEF AwayInv, Ordered
<1>7. StillCurrent'
  <2>1. CASE UNCHANGED <<annotation, cachedFresh, ours>>
    <3>1. Away!Current' = Away!Current
      BY <2>1 DEF Away!Current
    <3>2. ASSUME NEW q \in Replicas PROVE tries'[q] > 0 /\ ours[q] => base'[q] = Away!Current
      BY <1>1 DEF AwayInv, StillCurrent
    <3> QED
      BY <2>1, <3>1, <3>2 DEF AwayInv, StillCurrent
  <2>2. CASE cachedFresh' = [q \in Replicas |-> FALSE] /\ ours' = [q \in Replicas |-> FALSE]
    BY <2>2 DEF StillCurrent
  <2> QED
    BY <2>1, <2>2
<1>8. Named'
  BY <1>1 DEF AwayInv, Named
<1> QED
  BY <1>2, <1>6, <1>7, <1>8

LEMMA AddKeeps ==
  ASSUME Away!Assumptions, AwayInv, NEW r \in Replicas, Away!Add(r)
  PROVE  AwayInv'
<1>1. tries[r] > 0 /\ UNCHANGED <<status, cached, route, turned>>
  BY AddEnds
<1>2. /\ away \in [Replicas -> Away!Count] /\ annotation \in Away!Count /\ flushing \in [Replicas -> Away!Count]
      /\ displaced \subseteq Away!Pauses /\ unheard \subseteq Away!Pauses /\ fails \in 0..MaxFails
         /\ pause \in Nat
  BY DEF AwayInv, Away!TypeOK, Away!Current, Away!Workload
<1>0. (away[r] = Away!None \/ away[r].pause > 0) /\ flushing[r].pause > 0
  BY <1>1 DEF AwayInv, Named
<1>3. ASSUME NEW p PROVE Own(r, p) \in Nat /\ Away!Of(annotation, p) \in Nat /\ Away!Of(away[r],
               p) \in Nat /\ Away!Of(flushing[r], p) \in Nat
  BY <1>2, OfCounts, OwnCounts DEF AwayInv
<1>4. Away!Done(r) => \A q \in Replicas : q # r => flushing'[q] = flushing[q]
  BY DoneLeaves
<1>5. ASSUME Away!Done(r), UNCHANGED away, NEW p PROVE Own(r, p)' = Away!Of(away[r], p)
  <2>1. flushing'[r] = Away!None
    BY <1>5, DoneLeaves
  <2>2. Own(r, p)' = Away!Of(away[r], p) + Away!Of(Away!None, p)
    BY <1>5, <2>1 DEF Own, Away!Of
  <2> QED
    BY <1>3, <2>2, NoneCounts
<1>6. Away!PutBack(r) => \A q \in Replicas : q # r => away'[q] = away[q]
  BY <1>2 DEF Away!PutBack
<1>7. CASE /\ Added(r) = Away!None /\ Away!Done(r)
           /\ UNCHANGED <<pause, asleep, annotation, cachedFresh, away, ours, displaced, unheard, fails>>
  <2>1. Away!TypeOK' /\ Ordered' /\ StillCurrent' /\ Named'
    BY <1>0, <1>1, <1>2, <1>7, DoneKeeps
  <2>2. \A p \in Away!Pauses : Away!Of(annotation', p) + Own(r, p)' <= Away!Of(annotation, p) + Own(r, p)
    BY <1>3, <1>5, <1>7 DEF Own
  <2>3. \A p \in Away!Pauses : asleep /\ p = pause => Away!Of(annotation', p) + Own(r,
          p)' >= Away!Of(annotation, p) + Own(r, p)
    <3> SUFFICES ASSUME NEW p \in Away!Pauses, p = pause PROVE Own(r, p)' = Own(r, p)
      BY <1>3, <1>7
    <3>1. flushing[r] = Away!None \/ flushing[r].pause < pause
      BY <1>7, NoneIsPast
    <3>2. flushing[r].pause \in Nat
      BY <1>2 DEF Away!Count
    <3>3. Away!Of(flushing[r], p) = 0
      BY <1>2, <3>1, <3>2, NoneCounts DEF Away!Of
    <3> QED
      BY <1>3, <1>5, <1>7, <3>3 DEF Own
  <2>4. NoneAhead' /\ NeverMore' /\ NeverLess' /\ StatusBelow'
    BY <1>1, <1>4, <1>7, <2>1, <2>2, <2>3, FlushCounts
  <2> QED
    BY <2>1, <2>4 DEF AwayInv
<1>8. CASE /\ Added(r) # Away!None /\ ours[r] /\ Away!Done(r) /\ annotation' = Added(r)
           /\ cachedFresh' = [q \in Replicas |-> FALSE] /\ ours' = [q \in Replicas |-> FALSE]
           /\ UNCHANGED <<pause, asleep, away, displaced, unheard, fails>>
  <2>0. /\ Added(r) \in Away!Count /\ Added(r).pause = flushing[r].pause
        /\ \A p : Away!Of(Added(r), p) <= Away!Of(annotation, p) + Away!Of(flushing[r], p)
        /\ pause > 0 => Away!Of(Added(r), pause) = Away!Of(annotation, pause) + Away!Of(flushing[r], pause)
    BY <1>1, <1>8, AddsToCurrent
  <2>1. Away!TypeOK' /\ Ordered' /\ StillCurrent' /\ Named'
    BY <1>0, <1>1, <1>2, <1>8, <2>0, DoneKeeps
  <2>a. ASSUME NEW p PROVE Away!Of(Added(r), p) \in Nat
    BY <2>0, OfCounts
  <2>2. \A p \in Away!Pauses : Away!Of(annotation', p) + Own(r, p)' <= Away!Of(annotation, p) + Own(r, p)
    BY <1>3, <1>5, <1>8, <2>0, <2>a DEF Own
  <2>3. \A p \in Away!Pauses : asleep /\ p = pause => Away!Of(annotation', p) + Own(r,
          p)' >= Away!Of(annotation, p) + Own(r, p)
    <3> SUFFICES ASSUME NEW p \in Away!Pauses, p = pause
                 PROVE  Away!Of(Added(r), p) + Own(r, p)' = Away!Of(annotation, p) + Own(r, p)
      BY <1>3, <1>8
    <3>1. pause > 0
      BY DEF Away!Pauses
    <3> QED
      BY <1>3, <1>5, <1>8, <2>0, <2>a, <3>1 DEF Own
  <2>4. NoneAhead' /\ NeverMore' /\ NeverLess' /\ StatusBelow'
    BY <1>1, <1>4, <1>8, <2>1, <2>2, <2>3, FlushCounts
  <2> QED
    BY <2>1, <2>4 DEF AwayInv
<1>9. CASE /\ tries[r] < StampAttempts /\ Away!ReadFor(r, tries[r] + 1)
           /\ UNCHANGED <<pause, asleep, annotation, cachedFresh, flushing, away, displaced, unheard, fails>>
  <2>1. /\ \A q \in Replicas : base'[q] = IF q = r THEN cached[r] ELSE base[q]
        /\ \A q \in Replicas : ours'[q] = IF q = r THEN cachedFresh[r] ELSE ours[q]
        /\ \A q \in Replicas : tries'[q] = IF q = r THEN tries[r] + 1 ELSE tries[q]
        /\ base' \in [Replicas -> Away!Workload] /\ ours' \in [Replicas -> BOOLEAN]
           /\ tries' \in [Replicas -> 0..StampAttempts]
    <3>1. tries[r] + 1 \in 0..StampAttempts
      BY <1>9 DEF AwayInv, Away!TypeOK, Away!Assumptions
    <3> QED
      BY <1>9, <3>1 DEF AwayInv, Away!TypeOK, Away!ReadFor
  <2>2. Away!Current' = Away!Current
    BY <1>9 DEF Away!Current
  <2>3. Away!TypeOK'
    BY <1>1, <1>9, <2>1, <2>2 DEF AwayInv, Away!TypeOK
  <2>4. Ordered'
    <3>1. ASSUME NEW q \in Replicas
          PROVE  base'[q].pause <= pause /\ base'[q].annotation.pause <= pause
      BY <2>1 DEF AwayInv, Ordered
    <3> QED
      BY <1>1, <1>9, <3>1 DEF AwayInv, Ordered
  <2>5. StillCurrent'
    <3>1. ASSUME NEW q \in Replicas PROVE tries'[q] > 0 /\ ours'[q] => base'[q] = Away!Current
      BY <2>1 DEF AwayInv, StillCurrent
    <3> QED
      BY <1>1, <1>9, <2>2, <3>1 DEF AwayInv, StillCurrent
  <2>6. Named'
    BY <1>0, <1>9, <2>1 DEF AwayInv, Named
  <2> QED
    BY <1>1, <1>9, <2>3, <2>4, <2>5, <2>6, SumsStay DEF AwayInv
<1>10. CASE /\ Away!PutBack(r) /\ Away!Done(r) /\ (fails' = fails \/ (fails > 0 /\ fails' = fails - 1))
            /\ UNCHANGED <<pause, asleep, annotation, cachedFresh, ours, unheard>>
  <2>0. /\ away'[r] \in Away!Count /\ away'[r].pause = flushing[r].pause
        /\ \A p : Own(r, p)' <= Own(r, p)
        /\ asleep /\ pause \notin displaced' => Own(r, pause) <= Away!Of(away'[r], pause)
        /\ displaced \subseteq displaced' /\ displaced' \subseteq Away!Pauses
    BY <1>10, PutBackCounts
  <2>1. Away!TypeOK' /\ Ordered' /\ StillCurrent' /\ Named'
    <3>1. away' \in [Replicas -> Away!Count]
      BY <1>2, <1>10, <2>0 DEF Away!PutBack
    <3>2. fails' \in 0..MaxFails
      BY <1>2, <1>10 DEF Away!Assumptions, Away!IsFiniteSet, IsFiniteSet
    <3> QED
      BY <1>0, <1>1, <1>2, <1>6, <1>10, <2>0, <3>1, <3>2, DoneKeeps
  <2>a. ASSUME NEW p PROVE Own(r, p)' \in Nat /\ Away!Of(away'[r], p) <= Own(r, p)'
    <3>1. flushing'[r] = Away!None
      BY <1>10, DoneLeaves
    <3>2. Own(r, p)' = Away!Of(away'[r], p) + Away!Of(Away!None, p) /\ Away!Of(away'[r], p) \in Nat
      BY <2>0, <3>1, OfCounts DEF Own, Away!Of
    <3> QED
      BY <3>2, NoneCounts
  <2>2. \A p \in Away!Pauses : Away!Of(annotation', p) + Own(r, p)' <= Away!Of(annotation, p) + Own(r, p)
    BY <1>3, <1>10, <2>0, <2>a
  <2>3. \A p \in Away!Pauses : asleep /\ p = pause /\ p \notin displaced' =>
          Away!Of(annotation', p) + Own(r, p)' >= Away!Of(annotation, p) + Own(r, p)
    <3> SUFFICES ASSUME NEW p \in Away!Pauses, asleep, p = pause, p \notin displaced' PROVE Own(r,
      p)' >= Own(r, p)
      BY <1>3, <1>10, <2>a
    <3>1. Own(r, p) <= Away!Of(away'[r], p) /\ Away!Of(away'[r], p) \in Nat
      BY <2>0, OfCounts
    <3> QED
      BY <1>3, <2>a, <3>1
  <2>4. NoneAhead' /\ NeverMore' /\ NeverLess' /\ StatusBelow'
    BY <1>1, <1>4, <1>6, <1>10, <2>0, <2>1, <2>2, <2>3, FlushCounts
  <2> QED
    BY <2>1, <2>4 DEF AwayInv
<1>11. CASE /\ Away!PutBack(r) /\ Away!Done(r) /\ fails > 0 /\ fails' = fails - 1
            /\ Added(r) # Away!None /\ ours[r] /\ annotation' = Added(r)
               /\ unheard' = unheard \cup {flushing[r].pause}
            /\ cachedFresh' = [q \in Replicas |-> FALSE] /\ ours' = [q \in Replicas |-> FALSE]
            /\ UNCHANGED <<pause, asleep>>
  <2>0. /\ away'[r] \in Away!Count /\ away'[r].pause = flushing[r].pause
        /\ \A p : Own(r, p)' <= Own(r, p)
        /\ asleep /\ pause \notin displaced' => Own(r, pause) <= Away!Of(away'[r], pause)
        /\ displaced \subseteq displaced' /\ displaced' \subseteq Away!Pauses
    BY <1>11, PutBackCounts
  <2>b. /\ Added(r) \in Away!Count /\ Added(r).pause = flushing[r].pause
        /\ \A p : p # flushing[r].pause => Away!Of(Added(r), p) = 0
        /\ pause > 0 => Away!Of(Added(r), pause) = Away!Of(annotation, pause) + Away!Of(flushing[r], pause)
    BY <1>1, <1>11, AddsToCurrent
  <2>1. Away!TypeOK' /\ Ordered' /\ StillCurrent' /\ Named'
    <3>1. away' \in [Replicas -> Away!Count]
      BY <1>2, <1>11, <2>0 DEF Away!PutBack
    <3>2. fails' \in 0..MaxFails
      BY <1>2, <1>11 DEF Away!Assumptions, Away!IsFiniteSet, IsFiniteSet
    <3>3. unheard' \subseteq Away!Pauses
      <4>1. flushing[r].pause \in 0..MaxPause
        BY <1>2 DEF Away!Count
      <4>2. flushing[r].pause \in Away!Pauses
        BY <1>0, <4>1 DEF Away!Pauses
      <4> QED
        BY <1>2, <1>11, <4>2
    <3> QED
      BY <1>0, <1>1, <1>2, <1>6, <1>11, <2>0, <2>b, <3>1, <3>2, <3>3, DoneKeeps
  <2>a. ASSUME NEW p
        PROVE  Own(r, p)' \in Nat /\ Away!Of(away'[r], p) <= Own(r, p)' /\ Away!Of(away'[r], p) \in Nat
                 /\ Away!Of(Added(r), p) \in Nat
    <3>1. flushing'[r] = Away!None
      BY <1>11, DoneLeaves
    <3>2. Own(r, p)' = Away!Of(away'[r], p) + Away!Of(Away!None, p) /\ Away!Of(away'[r], p) \in Nat
            /\ Away!Of(Added(r), p) \in Nat
      BY <2>0, <2>b, <3>1, OfCounts DEF Own, Away!Of
    <3> QED
      BY <3>2, NoneCounts
  <2>2. \A p \in Away!Pauses : p \notin unheard' => Away!Of(annotation', p) + Own(r,
          p)' <= Away!Of(annotation, p) + Own(r, p)
    <3> SUFFICES ASSUME NEW p \in Away!Pauses, p \notin unheard' PROVE Away!Of(Added(r), p) = 0
      BY <1>3, <1>11, <2>0, <2>a
    <3> QED
      BY <1>11, <2>b
  <2>3. \A p \in Away!Pauses : asleep /\ p = pause /\ p \notin displaced' =>
          Away!Of(annotation', p) + Own(r, p)' >= Away!Of(annotation, p) + Own(r, p)
    <3> SUFFICES ASSUME NEW p \in Away!Pauses, asleep, p = pause, p \notin displaced'
                 PROVE  Away!Of(Added(r), p) >= Away!Of(annotation, p) /\ Own(r, p)' >= Own(r, p)
      BY <1>3, <1>11, <2>a
    <3>1. Own(r, p) <= Away!Of(away'[r], p)
      BY <2>0
    <3>2. Away!Of(Added(r), p) = Away!Of(annotation, p) + Away!Of(flushing[r], p)
      BY <2>b DEF Away!Pauses
    <3> QED
      BY <1>3, <2>a, <3>1, <3>2
  <2>4. NoneAhead' /\ NeverMore' /\ NeverLess' /\ StatusBelow'
    BY <1>1, <1>4, <1>6, <1>11, <2>0, <2>1, <2>2, <2>3, FlushCounts
  <2> QED
    BY <2>1, <2>4 DEF AwayInv
<1> QED
  BY <1>7, <1>8, <1>9, <1>10, <1>11, AddEnds

LEMMA AwayKept == ASSUME Away!Assumptions, AwayInv, [Away!Next]_(Away!vars) PROVE AwayInv'
<1>1. CASE UNCHANGED Away!vars
  <2>1. UNCHANGED <<pause, asleep, annotation, status, cached, cachedFresh, route, away, flushing, tries,
          base, ours,
                    turned, displaced, unheard, fails>>
    BY <1>1 DEF Away!vars, Away!cluster, Away!replica
  <2>2. Away!Current' = Away!Current
    BY <2>1 DEF Away!Current
  <2>3. Away!TypeOK' /\ Ordered' /\ StillCurrent' /\ Named'
    BY <2>1, <2>2 DEF AwayInv, Away!TypeOK, Ordered, StillCurrent, Named
  <2> QED
    BY <2>1, <2>3, SumsStay DEF AwayInv
<1> QED
  BY <1>1, OperatorKeeps, SeeKeeps, SyncKeeps, TurnAwayKeeps, FlushKeeps, AddKeeps DEF Away!Next

LEMMA CountedNow == ASSUME Away!Assumptions, AwayInv PROVE Away!EachCountedOnce
<1>1. ASSUME asleep, pause \notin displaced
      PROVE  /\ Away!Of(annotation, pause) + Away!ToAdd(pause) >= turned[pause]
             /\ pause \notin unheard => Away!Of(annotation, pause) + Away!ToAdd(pause) = turned[pause]
  <2>1. pause \in Away!Pauses
    BY <1>1 DEF AwayInv, Ordered, Away!TypeOK, Away!Current, Away!Workload, Away!Pauses
  <2>2. Away!Of(annotation, pause) + Away!ToAdd(pause) >= turned[pause]
    BY <1>1, <2>1 DEF AwayInv, NeverLess
  <2>3. pause \notin unheard => Away!Of(annotation, pause) + Away!ToAdd(pause) <= turned[pause]
    BY <2>1 DEF AwayInv, NeverMore
  <2>4. annotation \in Away!Count /\ turned[pause] \in Nat
    BY <2>1 DEF AwayInv, Away!TypeOK, Away!Current, Away!Workload
  <2>5. Away!Of(annotation, pause) \in Nat /\ Away!ToAdd(pause) \in Nat
    BY <2>4, OfCounts, ToAddCounts DEF AwayInv
  <2> QED
    BY <2>2, <2>3, <2>4, <2>5
<1> QED
  BY <1>1 DEF Away!EachCountedOnce, AwayInv, StatusBelow

\* While a pause is on, every request it turned away is counted once, for any number of
\* replicas, pauses and failed flushes (EachCountedOnce; away.go:74).
THEOREM AlwaysCountedOnce == ASSUME Away!Assumptions PROVE Away!Spec => []Away!EachCountedOnce
<1>1. Away!Init => AwayInv
  BY AwayFirst
<1>2. AwayInv /\ [Away!Next]_(Away!vars) => AwayInv'
  BY AwayKept
<1>3. AwayInv => Away!EachCountedOnce
  BY CountedNow
<1> QED
  BY <1>1, <1>2, <1>3, PTL DEF Away!Spec

-----------------------------------------------------------------------------
(* The key. *)

\* A button lasts longer than it takes to read the key again, as often as that may fail
\* (token.go:35, token.go:39 and wakekey.go:35: ten minutes, and one, and one).
ButtonOutlasts == Refresh <= Skew /\ (1 + KeyFaults) * Refresh < TTL + Skew

\* How long after a key came in a replica may still not have read it.
Late == (1 + KeyFaults - faults) * Refresh

\* The Secret has held it.
Shared(x) == \E e \in keyed : e.key = x

\* Keys come in one after the other, a button's time apart.
KeysInTurn ==
  /\ [key |-> 1, at |-> 0] \in keyed
  /\ \A e \in keyed : e.at <= clock /\ e.key <= made
  /\ \A j, e \in keyed : j.key = e.key => j = e
  /\ \A j, e \in keyed : j.key < e.key /\ j.key # 1 => j.at + TTL + Skew <= e.at
  /\ secret # Key!NoKey => Shared(secret) /\ \A e \in keyed : e.key <= secret
  /\ secret = Key!NoKey => \A e \in keyed : e.key = 1 \/ e.at + TTL + Skew <= clock

\* A fill takes no time, and finds the Secret as it read it, or filled.
Filled ==
  \A r \in Replicas :
    /\ filling[r] \in {0, 1} /\ clock <= next[r] /\ next[r] <= clock + Refresh
    /\ filling[r] = 1 => /\ next[r] = clock
                         /\ clean[r] => secret = Key!NoKey
                         /\ ~clean[r] => \E e \in keyed : e.key = secret /\ e.key # 1 /\ e.at = clock

\* A replica that has read the Secret has the keys that had come in by then.
HasRead ==
  \A r \in Replicas :
    /\ current[r] <= made /\ (since[r] = Key!Before => Shared(current[r]))
    /\ Key!Serves(r) /\ ~stale[r] /\ filling[r] = 0 =>
         Shared(current[r]) /\ \A e \in keyed : e.at + Refresh < next[r] => e.key <= current[r]
NotLate ==
  \A r \in Replicas : \A e \in keyed :
    Shared(current[r]) /\ current[r] < e.key => next[r] <= e.at + Late

\* No key came in between.
Follows(j, e) == j.key < e.key /\ \A i \in keyed : i.key <= j.key \/ e.key <= i.key

\* One that hasn't restarted accepts the key before its own long enough.
KeepsPrevious ==
  \A r \in Replicas : since[r] = Key!Before /\ current[r] # 1 =>
    \E j, e \in keyed : /\ j.key = previous[r] /\ e.key = current[r] /\ Follows(j, e)
                        /\ e.at + TTL + Skew <= until[r]

\* A button is signed with a key that has only just been replaced, if it has.
ShownInTime ==
  token # Key!NoToken =>
    /\ token.shown <= clock /\ token.key <= made
    /\ ~token.stale => \A j, e \in keyed : j.key = token.key /\ j.key < e.key => token.shown <= e.at + Refresh

KeyInv == Key!TypeOK /\ KeysInTurn /\ Filled /\ HasRead /\ NotLate /\ KeepsPrevious /\ ShownInTime

LEMMA KeyTypes ==
  ASSUME Key!Assumptions, KeyInv
  PROVE  /\ clock \in Nat /\ made \in Nat /\ made > 0 /\ faults \in Nat /\ secret \in Nat
         /\ TTL \in Nat /\ TTL > 0 /\ Skew \in Nat /\ Refresh \in Nat /\ Refresh > 0 /\ KeyFaults \in Nat
         /\ \A e \in keyed : e.key \in Nat /\ e.key > 0 /\ e.at \in Nat
         /\ \A r \in Replicas : /\ current[r] \in Nat /\ current[r] > 0 /\ previous[r] \in Nat /\ until[r] \in Nat
                                /\ next[r] \in Nat /\ since[r] \in Int /\ stale[r] \in BOOLEAN
                                   /\ clean[r] \in BOOLEAN
<1>1. /\ clock \in Nat /\ made \in Nat /\ made > 0 /\ faults \in Nat /\ secret \in Nat
      /\ TTL \in Nat /\ TTL > 0 /\ Skew \in Nat /\ Refresh \in Nat /\ Refresh > 0 /\ KeyFaults \in Nat
         /\ KeyTime \in Nat
  BY DEF Key!Assumptions, KeyInv, Key!TypeOK, Key!Times, Key!Keys, Key!NoKey
<1>2. \A e \in keyed : e.key \in Nat /\ e.key > 0 /\ e.at \in Nat
  BY DEF KeyInv, Key!TypeOK, Key!Times, Key!Keys
<1>3. ASSUME NEW r \in Replicas
      PROVE  /\ current[r] \in Nat /\ current[r] > 0 /\ previous[r] \in Nat /\ until[r] \in Nat
             /\ next[r] \in Nat /\ since[r] \in Int /\ stale[r] \in BOOLEAN /\ clean[r] \in BOOLEAN
  <2>1. current[r] \in Key!Keys /\ previous[r] \in Key!Keys \cup {Key!NoKey}
          /\ since[r] \in Key!Times \cup {Key!Before}
    BY DEF KeyInv, Key!TypeOK
  <2>2. until[r] \in Nat /\ next[r] \in Nat
    BY DEF KeyInv, Key!TypeOK
  <2>3. stale[r] \in BOOLEAN /\ clean[r] \in BOOLEAN
    BY DEF KeyInv, Key!TypeOK
  <2> QED
    BY <2>1, <2>2, <2>3 DEF Key!Keys, Key!NoKey, Key!Times, Key!Before
<1> QED
  BY <1>1, <1>2, <1>3

LEMMA LateIs ==
  ASSUME Key!Assumptions, ButtonOutlasts, faults \in 0..KeyFaults
  PROVE  Late \in Nat /\ Refresh <= Late /\ Late < TTL + Skew
<1>1. Refresh \in Nat /\ KeyFaults \in Nat /\ TTL \in Nat /\ Skew \in Nat /\ faults \in Nat
        /\ KeyFaults - faults \in Nat
  BY DEF Key!Assumptions
<1> DEFINE more == KeyFaults - faults
<1>2. Late = Refresh + more * Refresh
  BY <1>1 DEF Late
<1>3. (1 + KeyFaults) * Refresh = Refresh + more * Refresh + faults * Refresh
  BY <1>1
<1>4. more * Refresh \in Nat /\ faults * Refresh \in Nat
  BY <1>1
<1> DEFINE x == more * Refresh
           y == faults * Refresh
<1>5. x \in Nat /\ y \in Nat /\ Late = Refresh + x /\ Refresh + x + y < TTL + Skew
  BY <1>2, <1>3, <1>4 DEF ButtonOutlasts
<1> HIDE DEF x, y
<1> QED
  BY <1>1, <1>5

LEMMA LateGrows ==
  ASSUME Key!Assumptions, faults \in 0..KeyFaults, faults > 0, faults' = faults - 1
  PROVE  Late' = Late + Refresh
<1>1. Refresh \in Nat /\ KeyFaults \in Nat /\ faults \in Nat
  BY DEF Key!Assumptions
<1>2. Late' = (1 + KeyFaults - (faults - 1)) * Refresh
  BY DEF Late
<1> QED
  BY <1>1, <1>2 DEF Late

\* Nobody is two keys behind, nor one behind when there's none to read.
LEMMA AtMostOneBehind ==
  ASSUME Key!Assumptions, ButtonOutlasts, KeyInv, NEW r \in Replicas, Shared(current[r])
  PROVE  /\ secret = Key!NoKey => \A e \in keyed : e.key <= current[r]
         /\ \A j, e \in keyed : current[r] < j.key /\ j.key < e.key => FALSE
<1>1. Late \in Nat /\ Late < TTL + Skew
  BY LateIs DEF KeyInv, Key!TypeOK
<1>2. clock <= next[r]
  BY DEF KeyInv, Filled
<1>3. ASSUME NEW e \in keyed, current[r] < e.key PROVE clock <= e.at + Late /\ e.key # 1
  BY <1>1, <1>2, <1>3, KeyTypes DEF KeyInv, NotLate
<1>4. ASSUME secret = Key!NoKey, NEW e \in keyed, ~(e.key <= current[r]) PROVE FALSE
  <2>1. current[r] < e.key
    BY <1>4, KeyTypes
  <2>2. e.at + TTL + Skew <= clock
    BY <1>3, <1>4, <2>1 DEF KeyInv, KeysInTurn
  <2> QED
    BY <1>1, <1>3, <2>1, <2>2, KeyTypes
<1>5. ASSUME NEW j \in keyed, NEW e \in keyed, current[r] < j.key, j.key < e.key PROVE FALSE
  <2>1. j.at + TTL + Skew <= e.at /\ e.at <= clock
    BY <1>3, <1>5 DEF KeyInv, KeysInTurn
  <2> QED
    BY <1>1, <1>3, <1>5, <2>1, KeyTypes
<1> QED
  BY <1>4, <1>5


\* One that hasn't restarted accepts what's signed with its key, or the one before.
LEMMA Accepts ==
  ASSUME Key!Assumptions, ButtonOutlasts, KeyInv, NEW r \in Replicas, since[r] = Key!Before,
         token # Key!NoToken, clock < Key!Expires(token), ~token.stale,
         NEW e \in keyed, e.key = token.key, e.key <= current[r]
  PROVE  Key!Valid(r)
<1>0. token \in Key!Tokens
  BY DEF KeyInv, Key!TypeOK
<1>1. token.shown \in Nat /\ token.shown <= clock /\ clock < token.shown + TTL
  BY <1>0 DEF KeyInv, ShownInTime, Key!Tokens, Key!Times, Key!Expires
<1>2. \A i \in keyed : e.key < i.key => token.shown <= i.at + Refresh
  BY DEF KeyInv, ShownInTime
<1>3. Key!Expires(token) <= clock + TTL + Skew
  BY <1>1, KeyTypes DEF Key!Expires
<1>4. CASE e.key = current[r]
  BY <1>3, <1>4 DEF Key!Valid
<1>5. CASE e.key # current[r]
  <2>1. current[r] # 1 /\ e.key < current[r]
    BY <1>5, KeyTypes
  <2>2. PICK i \in keyed, j \in keyed : /\ i.key = previous[r] /\ j.key = current[r] /\ Follows(i, j)
                                        /\ j.at + TTL + Skew <= until[r]
    BY <2>1 DEF KeyInv, KeepsPrevious
  <2>3. token.shown <= j.at + Refresh
    BY <1>2, <2>1, <2>2
  <2>4. clock < until[r]
    BY <1>1, <2>2, <2>3, KeyTypes DEF ButtonOutlasts
  <2>5. e.key <= i.key
    BY <2>1, <2>2, KeyTypes DEF Follows
  <2>6. CASE e.key = i.key
    BY <1>3, <2>2, <2>4, <2>6 DEF Key!Valid
  <2>7. CASE e.key # i.key
    <3>1. token.shown <= i.at + Refresh
      BY <1>2, <2>5, <2>7, KeyTypes
    <3>2. i.key # 1 /\ i.key < j.key
      BY <2>2, <2>5, <2>7, KeyTypes DEF Follows
    <3>3. i.at + TTL + Skew <= j.at /\ j.at <= clock
      BY <3>2 DEF KeyInv, KeysInTurn
    <3> QED
      BY <1>1, <3>1, <3>3, KeyTypes DEF ButtonOutlasts
  <2> QED
    BY <2>6, <2>7
<1> QED
  BY <1>4, <1>5

\* A button that a replica which has read the Secret accepts.
LEMMA ClicksWorkNow == ASSUME Key!Assumptions, ButtonOutlasts, KeyInv PROVE Key!ClicksWork
<1> SUFFICES ASSUME NEW r \in Replicas,
                    clock < Key!Expires(token), since[r] = Key!Before \/ token.key = secret,
                    Key!Serves(r), ~token.stale, ~stale[r],
                    NEW e \in keyed, e.key = token.key, e.at + Refresh < clock \/ e.key = 1
             PROVE  Key!Valid(r)
  BY DEF Key!ClicksWork
<1>1. token # Key!NoToken
  BY KeyTypes DEF Key!NoToken
<1>2. filling[r] \in {0, 1} /\ clock <= next[r]
  BY DEF KeyInv, Filled
<1>3. CASE filling[r] = 0
  <2>1. Shared(current[r]) /\ \A j \in keyed : j.at + Refresh < next[r] => j.key <= current[r]
    BY <1>3 DEF KeyInv, HasRead
  <2>2. e.key <= current[r]
    BY <1>2, <2>1, KeyTypes
  <2>3. CASE since[r] = Key!Before
    BY <1>1, <2>2, <2>3, Accepts
  <2>4. CASE token.key = secret
    <3>1. PICK j \in keyed : j.key = current[r]
      BY <2>1 DEF Shared
    <3>2. j.key <= secret
      BY <2>4, KeyTypes DEF KeyInv, KeysInTurn, Key!NoKey
    <3>3. token.key = current[r]
      BY <2>2, <2>4, <3>1, <3>2, KeyTypes
    <3>4. token.shown \in Nat /\ token.shown <= clock
      BY <1>1 DEF KeyInv, Key!TypeOK, ShownInTime, Key!Tokens, Key!Times
    <3>5. Key!Expires(token) <= clock + TTL + Skew
      BY <3>4, KeyTypes DEF Key!Expires
    <3> QED
      BY <3>3, <3>5 DEF Key!Valid
  <2> QED
    BY <2>3, <2>4
<1>4. CASE filling[r] = 1
  <2>1. CASE clean[r]
    <3>1. secret = Key!NoKey
      BY <1>4, <2>1 DEF KeyInv, Filled
    <3>2. since[r] = Key!Before
      BY <3>1, KeyTypes DEF Key!NoKey
    <3>3. e.key <= current[r]
      BY <3>1, <3>2, AtMostOneBehind DEF KeyInv, HasRead
    <3> QED
      BY <1>1, <3>2, <3>3, Accepts
  <2>2. CASE ~clean[r]
    <3>1. PICK j \in keyed : j.key = secret /\ j.key # 1 /\ j.at = clock
      BY <1>4, <2>2 DEF KeyInv, Filled
    <3>2. e.key # j.key
      <4>1. j # e
        BY <3>1, KeyTypes
      <4> QED
        BY <4>1 DEF KeyInv, KeysInTurn
    <3>3. since[r] = Key!Before
      BY <3>1, <3>2
    <3>4. e.key < j.key
      BY <3>1, <3>2, KeyTypes DEF KeyInv, KeysInTurn, Key!NoKey
    <3>5. e.key <= current[r]
      <4>1. Shared(current[r])
        BY <3>3 DEF KeyInv, HasRead
      <4> QED
        BY <3>4, <4>1, AtMostOneBehind, KeyTypes
    <3> QED
      BY <1>1, <3>3, <3>5, Accepts
  <2> QED
    BY <2>1, <2>2
<1> QED
  BY <1>2, <1>3, <1>4

-----------------------------------------------------------------------------
LEMMA KeyFirst == ASSUME Key!Assumptions, ButtonOutlasts, Key!Init PROVE KeyInv
<1>0. /\ TTL \in Nat /\ TTL > 0 /\ Skew \in Nat /\ Refresh \in Nat /\ Refresh > 0 /\ KeyFaults \in Nat
         /\ KeyTime \in Nat
      /\ KeyFaults \in 0..KeyFaults /\ 0 \in Key!Times /\ 1 \in Key!Keys /\ 0 \in 0..(KeyTime + TTL + Skew)
      /\ 0..Refresh \subseteq 0..(KeyTime + Refresh)
  BY DEF Key!Assumptions, Key!Times, Key!Keys
<1>1. /\ clock = 0 /\ secret = 1 /\ made = 1 /\ keyed = {[key |-> 1, at |-> 0]} /\ faults = KeyFaults
         /\ token = Key!NoToken
      /\ \A r \in Replicas : /\ current[r] = 1 /\ previous[r] = Key!NoKey /\ until[r] = 0 /\ next[r] \in 0..Refresh
                             /\ filling[r] = 0 /\ since[r] = Key!Before
  BY DEF Key!Init
<1>2. Key!TypeOK
  <2>1. next \in [Replicas -> 0..(KeyTime + Refresh)]
    BY <1>0 DEF Key!Init
  <2>2. keyed \subseteq [key : Key!Keys, at : Key!Times]
    BY <1>0, <1>1
  <2> QED
    BY <1>0, <2>1, <2>2 DEF Key!Init, Key!TypeOK
<1>3. KeysInTurn
  BY <1>1 DEF KeysInTurn, Shared, Key!NoKey
<1>4. Filled
  <2>1. ASSUME NEW r \in Replicas
        PROVE  filling[r] \in {0, 1} /\ filling[r] # 1 /\ clock <= next[r] /\ next[r] <= clock + Refresh
    <3>1. next[r] \in 0..Refresh /\ filling[r] = 0
      BY <1>1
    <3> QED
      BY <1>0, <1>1, <3>1
  <2> QED
    BY <2>1 DEF Filled
<1>5. HasRead /\ NotLate /\ KeepsPrevious
  BY <1>1 DEF HasRead, NotLate, KeepsPrevious, Shared
<1>6. ShownInTime
  BY <1>1 DEF ShownInTime
<1> QED
  BY <1>2, <1>3, <1>4, <1>5, <1>6 DEF KeyInv

LEMMA LateStays ==
  ASSUME Key!Assumptions, ButtonOutlasts, KeyInv
  PROVE  /\ Late \in Nat /\ Refresh <= Late
         /\ faults' = faults => Late' = Late
         /\ faults > 0 /\ faults' = faults - 1 => Late' = Late + Refresh
<1>1. faults \in 0..KeyFaults
  BY DEF KeyInv, Key!TypeOK
<1> QED
  BY <1>1, LateIs, LateGrows DEF Late

\* A read of the key.
LEMMA UseKeeps ==
  ASSUME Key!Assumptions, ButtonOutlasts, KeyInv, NEW r \in Replicas, secret # Key!NoKey, Key!Use(r, secret),
         filling' = [filling EXCEPT ![r] = 0], next' = [next EXCEPT ![r] = clock + Refresh],
         UNCHANGED <<clock, secret, keyed, made, clean, since, token, faults>>,
         stale' = stale \/ stale' = [stale EXCEPT ![r] = FALSE]
  PROVE  KeyInv'
<1> USE KeyTypes
<1>1. PICK e \in keyed : e.key = secret
  BY DEF KeyInv, KeysInTurn, Shared
<1>2. e.at <= clock /\ e.key <= made /\ \A i \in keyed : i.key <= secret
  BY DEF KeyInv, KeysInTurn
<1>3. /\ \A q \in Replicas : current'[q] = IF q = r THEN secret ELSE current[q]
      /\ \A q \in Replicas : q # r => previous'[q] = previous[q] /\ until'[q] = until[q]
      /\ current[r] = secret => UNCHANGED Key!keys
      /\ current[r] # secret => previous'[r] = current[r] /\ until'[r] = clock + TTL + Skew
      /\ \A q \in Replicas : next'[q] = IF q = r THEN clock + Refresh ELSE next[q]
      /\ \A q \in Replicas : filling'[q] = IF q = r THEN 0 ELSE filling[q]
      /\ \A q \in Replicas : q # r => stale'[q] = stale[q]
  <2>1. /\ current \in [Replicas -> Key!Keys] /\ previous \in [Replicas -> Key!Keys \cup {Key!NoKey}]
        /\ until \in [Replicas -> 0..(KeyTime + TTL + Skew)] /\ next \in [Replicas -> 0..(KeyTime + Refresh)]
        /\ filling \in [Replicas -> 0..2] /\ stale \in [Replicas -> BOOLEAN]
    BY DEF KeyInv, Key!TypeOK
  <2>2. CASE current[r] = secret
    BY <2>1, <2>2 DEF Key!Use, Key!keys
  <2>3. CASE current[r] # secret
    BY <2>1, <2>3 DEF Key!Use
  <2> QED
    BY <2>2, <2>3
<1>4. Key!TypeOK'
  <2>1. clock + TTL + Skew \in 0..(KeyTime + TTL + Skew) /\ clock + Refresh \in 0..(KeyTime + Refresh)
    BY DEF KeyInv, Key!TypeOK, Key!Times, Key!Assumptions
  <2>2. secret \in Key!Keys
    BY DEF KeyInv, Key!TypeOK
  <2>3. /\ current' \in [Replicas -> Key!Keys] /\ previous' \in [Replicas -> Key!Keys \cup {Key!NoKey}]
        /\ until' \in [Replicas -> 0..(KeyTime + TTL + Skew)]
    <3>1. CASE current[r] = secret
      BY <3>1 DEF Key!Use, Key!keys, KeyInv, Key!TypeOK
    <3>2. CASE current[r] # secret
      BY <2>1, <2>2, <3>2 DEF Key!Use, KeyInv, Key!TypeOK
    <3> QED
      BY <3>1, <3>2
  <2>4. next' \in [Replicas -> 0..(KeyTime + Refresh)] /\ filling' \in [Replicas -> 0..2]
    BY <2>1 DEF KeyInv, Key!TypeOK
  <2>5. stale' \in [Replicas -> BOOLEAN]
    BY DEF KeyInv, Key!TypeOK
  <2> QED
    BY <2>3, <2>4, <2>5 DEF KeyInv, Key!TypeOK
<1>5. KeysInTurn'
  BY DEF KeyInv, KeysInTurn, Shared
<1>6. \A x : Shared(x)' <=> Shared(x)
  BY DEF Shared
<1>7. Filled'
  <2>1. clock <= clock + Refresh /\ clock + Refresh <= clock + Refresh
    OBVIOUS
  <2> QED
    BY <1>3, <2>1 DEF KeyInv, Filled
<1>8. HasRead'
  <2> SUFFICES ASSUME NEW q \in Replicas
               PROVE  /\ current'[q] <= made /\ (since[q] = Key!Before => Shared(current'[q]))
                      /\ next'[q] > since[q] /\ ~stale'[q] /\ filling'[q] = 0 =>
                           /\ Shared(current'[q])
                           /\ \A i \in keyed : i.at + Refresh < next'[q] => i.key <= current'[q]
    BY <1>6 DEF HasRead, Key!Serves, Shared
  <2>1. CASE q = r
    BY <1>1, <1>2, <1>3, <2>1 DEF Shared
  <2>2. CASE q # r
    BY <1>3, <2>2 DEF KeyInv, HasRead, Key!Serves
  <2> QED
    BY <2>1, <2>2
<1>9. NotLate'
  <2>1. Late' = Late
    BY LateStays
  <2> SUFFICES ASSUME NEW q \in Replicas, NEW i \in keyed, Shared(current'[q]), current'[q] < i.key
               PROVE  next'[q] <= i.at + Late
    BY <1>6, <2>1 DEF NotLate, Shared
  <2>2. q # r
    BY <1>2, <1>3
  <2> QED
    BY <1>3, <2>2 DEF KeyInv, NotLate
<1>10. KeepsPrevious'
  <2> SUFFICES ASSUME NEW q \in Replicas, since[q] = Key!Before, current'[q] # 1
               PROVE  \E i, j \in keyed : /\ i.key = previous'[q] /\ j.key = current'[q] /\ Follows(i, j)
                                          /\ j.at + TTL + Skew <= until'[q]
    BY DEF KeepsPrevious, Follows
  <2>1. CASE q # r \/ current[r] = secret
    <3>1. current'[q] = current[q] /\ previous'[q] = previous[q] /\ until'[q] = until[q]
      BY <1>3, <2>1 DEF Key!keys
    <3> QED
      BY <3>1 DEF KeyInv, KeepsPrevious
  <2>2. CASE q = r /\ current[r] # secret
    <3>1. Shared(current[r])
      BY <2>2 DEF KeyInv, HasRead
    <3>2. PICK j \in keyed : j.key = current[r]
      BY <3>1 DEF Shared
    <3>3. j.key < e.key
      BY <1>1, <1>2, <2>2, <3>2
    <3>4. \A i \in keyed : i.key <= j.key \/ e.key <= i.key
      BY <3>1, <3>2, <1>1, AtMostOneBehind
    <3>5. e.at + TTL + Skew <= until'[r]
      BY <1>2, <1>3, <2>2
    <3> QED
      BY <1>1, <1>3, <2>2, <3>2, <3>3, <3>4, <3>5 DEF Follows
  <2> QED
    BY <2>1, <2>2
<1>11. ShownInTime'
  BY DEF KeyInv, ShownInTime
<1> QED
  BY <1>4, <1>5, <1>7, <1>8, <1>9, <1>10, <1>11 DEF KeyInv

\* The steps after which everybody's keys, and what has come in, are as before.
LEMMA KeysStay ==
  ASSUME KeyInv, UNCHANGED <<keyed, Key!keys, since>>
  PROVE  KeepsPrevious'
BY DEF KeyInv, KeepsPrevious, Follows, Key!keys

LEMMA LoadKeeps ==
  ASSUME Key!Assumptions, ButtonOutlasts, KeyInv, NEW r \in Replicas, Key!Load(r)
  PROVE  KeyInv'
<1> USE KeyTypes
<1>1. UNCHANGED <<clock, secret, keyed, made, since, token>> /\ filling[r] = 0 /\ next[r] = clock
  BY DEF Key!Load, KeyInv, Filled
<1>2. CASE Key!Read(r, 1) /\ stale' = [stale EXCEPT ![r] = FALSE] /\ UNCHANGED faults /\ secret # Key!NoKey
  <2>1. /\ Key!Use(r, secret) /\ filling' = [filling EXCEPT ![r] = 0]
        /\ next' = [next EXCEPT ![r] = clock + Refresh] /\ UNCHANGED clean
    BY <1>2 DEF Key!Read
  <2> QED
    BY <1>1, <1>2, <2>1, UseKeeps
<1>3. CASE Key!Read(r, 1) /\ stale' = [stale EXCEPT ![r] = FALSE] /\ UNCHANGED faults /\ secret = Key!NoKey
  <2>1. /\ filling' = [filling EXCEPT ![r] = 1] /\ clean' = [clean EXCEPT ![r] = TRUE]
        /\ UNCHANGED <<Key!keys, next>>
    BY <1>3 DEF Key!Read
  <2>2. /\ \A q \in Replicas : filling'[q] = IF q = r THEN 1 ELSE filling[q]
        /\ \A q \in Replicas : clean'[q] = IF q = r THEN TRUE ELSE clean[q]
        /\ \A q \in Replicas : stale'[q] = IF q = r THEN FALSE ELSE stale[q]
        /\ UNCHANGED <<current, previous, until>>
    BY <1>3, <2>1 DEF KeyInv, Key!TypeOK, Key!keys
  <2>3. Key!TypeOK'
    BY <1>1, <1>3, <2>1, <2>2 DEF KeyInv, Key!TypeOK
  <2>4. KeysInTurn'
    BY <1>1 DEF KeyInv, KeysInTurn, Shared
  <2>5. Filled'
    <3> SUFFICES ASSUME NEW q \in Replicas
                 PROVE  /\ filling'[q] \in {0, 1} /\ clock <= next[q] /\ next[q] <= clock + Refresh
                        /\ filling'[q] = 1 =>
                             /\ next[q] = clock
                             /\ clean'[q] => secret = Key!NoKey
                             /\ ~clean'[q] => \E e \in keyed : e.key = secret /\ e.key # 1 /\ e.at = clock
      BY <1>1, <2>1 DEF Filled
    <3>1. CASE q = r
      <4>1. filling'[q] = 1 /\ next[q] = clock
        BY <1>1, <2>2, <3>1
      <4>2. clean'[q]
        BY <2>2, <3>1
      <4> QED
        BY <1>3, <4>1, <4>2
    <3>2. CASE q # r
      <4>1. filling'[q] = filling[q] /\ clean'[q] = clean[q]
        BY <2>2, <3>2
      <4> QED
        BY <4>1 DEF KeyInv, Filled
    <3> QED
      BY <3>1, <3>2
  <2>6. HasRead'
    <3>1. ASSUME NEW q \in Replicas, filling'[q] = 0 PROVE filling[q] = 0 /\ stale'[q] = stale[q]
      <4>1. q # r
        BY <2>2, <3>1
      <4> QED
        BY <2>2, <3>1, <4>1
    <3> QED
      BY <1>1, <2>1, <2>2, <3>1 DEF KeyInv, HasRead, Key!Serves, Shared
  <2>7. NotLate'
    BY <1>1, <1>3, <2>1, <2>2, LateStays DEF KeyInv, NotLate, Shared
  <2>8. KeepsPrevious' /\ ShownInTime'
    BY <1>1, <2>1, KeysStay DEF KeyInv, ShownInTime
  <2> QED
    BY <2>3, <2>4, <2>5, <2>6, <2>7, <2>8 DEF KeyInv
<1>4. CASE /\ faults > 0 /\ faults' = faults - 1 /\ stale' = [stale EXCEPT ![r] = TRUE]
           /\ next' = [next EXCEPT ![r] = clock + Refresh] /\ UNCHANGED <<Key!keys, filling, clean>>
  <2>1. /\ \A q \in Replicas : next'[q] = IF q = r THEN clock + Refresh ELSE next[q]
        /\ \A q \in Replicas : stale'[q] = IF q = r THEN TRUE ELSE stale[q]
        /\ UNCHANGED <<current, previous, until>>
    BY <1>4 DEF KeyInv, Key!TypeOK, Key!keys
  <2>2. Key!TypeOK'
    <3>1. clock + Refresh \in 0..(KeyTime + Refresh) /\ faults - 1 \in 0..KeyFaults
      BY <1>4 DEF KeyInv, Key!TypeOK, Key!Times, Key!Assumptions
    <3> QED
      BY <1>1, <1>4, <2>1, <3>1 DEF KeyInv, Key!TypeOK
  <2>3. KeysInTurn'
    BY <1>1 DEF KeyInv, KeysInTurn, Shared
  <2>4. Filled'
    <3>1. clock <= clock + Refresh /\ clock + Refresh <= clock + Refresh
      OBVIOUS
    <3> QED
      BY <1>1, <1>4, <2>1, <3>1 DEF KeyInv, Filled
  <2>5. HasRead'
    <3>1. \A q \in Replicas : ~stale'[q] => q # r
      BY <2>1
    <3> QED
      BY <1>1, <1>4, <2>1, <3>1 DEF KeyInv, HasRead, Key!Serves, Shared
  <2>6. NotLate'
    <3>1. Late \in Nat /\ Late' = Late + Refresh
      BY <1>4, LateStays
    <3> SUFFICES ASSUME NEW q \in Replicas, NEW i \in keyed, Shared(current[q]), current[q] < i.key
                 PROVE  next'[q] <= i.at + Late'
      BY <1>1, <2>1 DEF NotLate, Shared
    <3>2. next[q] <= i.at + Late
      BY DEF KeyInv, NotLate
    <3>3. next'[q] <= next[q] + Refresh
      BY <1>1, <2>1
    <3>4. next'[q] \in Nat
      BY <2>1
    <3> HIDE DEF Late
    <3> QED
      BY <3>1, <3>2, <3>3, <3>4
  <2>7. KeepsPrevious' /\ ShownInTime'
    BY <1>1, <1>4, KeysStay DEF KeyInv, ShownInTime
  <2> QED
    BY <2>2, <2>3, <2>4, <2>5, <2>6, <2>7 DEF KeyInv
<1> QED
  BY <1>2, <1>3, <1>4 DEF Key!Load

\* A fill that lands, with everybody else's keys one behind at most.
LEMMA FillLands ==
  ASSUME Key!Assumptions, ButtonOutlasts, KeyInv, NEW r \in Replicas, Key!Fill(r), clean[r]
  PROVE  KeyInv'
<1> USE KeyTypes
<1> DEFINE new == [key |-> made + 1, at |-> clock]
<1>1. /\ made' = made + 1 /\ secret' = made + 1 /\ keyed' = keyed \cup {new} /\ Key!Use(r, made + 1)
      /\ clean' = [q \in Replicas |-> FALSE]
      /\ filling' = [filling EXCEPT ![r] = 0] /\ next' = [next EXCEPT ![r] = clock + Refresh]
      /\ UNCHANGED <<clock, since, stale, token, faults>>
  BY DEF Key!Fill, Key!Lands
<1>2. filling[r] = 1 /\ secret = Key!NoKey
  <2>1. filling[r] \in {0, 1} /\ filling[r] > 0
    BY DEF Key!Fill, KeyInv, Filled
  <2> QED
    BY <2>1 DEF KeyInv, Filled
<1>3. new.key = made + 1 /\ new.at = clock /\ new \in keyed' /\ new.key # 1
  BY <1>1
<1>4. \A i \in keyed' : i \in keyed \/ i = new
  BY <1>1
<1>5. \A i \in keyed : i \in keyed' /\ i.key <= made /\ i.at <= clock /\ i.key < new.key
                       /\ (i.key = 1 \/ i.at + TTL + Skew <= clock)
  BY <1>1, <1>2, <1>3 DEF KeyInv, KeysInTurn
<1> HIDE DEF new
<1>6. \A q \in Replicas : current[q] <= made
  BY DEF KeyInv, HasRead
<1>7. \A x : Shared(x) => Shared(x)'
  BY <1>5 DEF Shared
<1>8. /\ current'[r] = made + 1 /\ previous'[r] = current[r] /\ until'[r] = clock + TTL + Skew
      /\ \A q \in Replicas : q # r => current'[q] = current[q] /\ previous'[q] = previous[q]
         /\ until'[q] = until[q]
      /\ current' \in [Replicas -> Key!Keys] /\ previous' \in [Replicas -> Key!Keys \cup {Key!NoKey}]
      /\ until' \in [Replicas -> 0..(KeyTime + TTL + Skew)]
  <2>1. /\ current \in [Replicas -> Key!Keys] /\ previous \in [Replicas -> Key!Keys \cup {Key!NoKey}]
        /\ until \in [Replicas -> 0..(KeyTime + TTL + Skew)]
        /\ clock + TTL + Skew \in 0..(KeyTime + TTL + Skew) /\ made + 1 \in Key!Keys
    BY DEF KeyInv, Key!TypeOK, Key!Times, Key!Assumptions, Key!Keys
  <2>2. /\ current' = [current EXCEPT ![r] = made + 1] /\ previous' = [previous EXCEPT ![r] = current[r]]
        /\ until' = [until EXCEPT ![r] = clock + TTL + Skew]
    <3>1. current[r] # made + 1
      BY <1>6
    <3> QED
      BY <1>1, <3>1 DEF Key!Use
  <2>3. current[r] \in Key!Keys
    BY <2>1
  <2> QED
    BY <2>1, <2>2, <2>3
<1>9. /\ next'[r] = clock + Refresh /\ filling'[r] = 0
      /\ \A q \in Replicas : q # r => next'[q] = next[q] /\ filling'[q] = filling[q]
      /\ next' \in [Replicas -> 0..(KeyTime + Refresh)] /\ filling' \in [Replicas -> 0..2]
  <2>1. clock + Refresh \in 0..(KeyTime + Refresh)
    BY DEF KeyInv, Key!TypeOK, Key!Times, Key!Assumptions
  <2>2. next \in [Replicas -> 0..(KeyTime + Refresh)] /\ filling \in [Replicas -> 0..2]
    BY DEF KeyInv, Key!TypeOK
  <2> QED
    BY <1>1, <2>1, <2>2
<1>10. Key!TypeOK'
  <2>1. made' \in Key!Keys /\ secret' \in Key!Keys
    BY <1>1 DEF Key!Keys
  <2>2. keyed' \subseteq [key : Key!Keys, at : Key!Times]
    <3>1. new \in [key : Key!Keys, at : Key!Times]
      BY <2>1, <1>1 DEF new, KeyInv, Key!TypeOK
    <3> QED
      BY <1>1, <3>1 DEF KeyInv, Key!TypeOK
  <2>3. clean' \in [Replicas -> BOOLEAN]
    BY <1>1
  <2> QED
    BY <1>1, <1>8, <1>9, <2>1, <2>2, <2>3 DEF KeyInv, Key!TypeOK
<1>11. KeysInTurn'
  <2>1. [key |-> 1, at |-> 0] \in keyed'
    BY <1>1 DEF KeyInv, KeysInTurn
  <2>2. \A i \in keyed' : i.at <= clock' /\ i.key <= made'
    BY <1>1, <1>3, <1>4, <1>5
  <2>3. ASSUME NEW i \in keyed', NEW j \in keyed', i.key = j.key PROVE i = j
    <3>1. CASE i \in keyed /\ j \in keyed
      BY <2>3, <3>1 DEF KeyInv, KeysInTurn
    <3>2. CASE i = new \/ j = new
      BY <1>3, <1>4, <1>5, <2>3, <3>2
    <3> QED
      BY <1>4, <3>1, <3>2
  <2>4. ASSUME NEW i \in keyed', NEW j \in keyed', i.key < j.key, i.key # 1
        PROVE  i.at + TTL + Skew <= j.at
    <3>1. i \in keyed
      BY <1>3, <1>4, <1>5, <2>4
    <3>2. CASE j \in keyed
      BY <2>4, <3>1, <3>2 DEF KeyInv, KeysInTurn
    <3>3. CASE j = new
      BY <1>3, <1>5, <2>4, <3>1, <3>3
    <3> QED
      BY <1>4, <3>2, <3>3
  <2>5. Shared(secret)' /\ \A i \in keyed' : i.key <= secret'
    BY <1>1, <1>3, <1>4, <1>5 DEF Shared
  <2>6. secret' # Key!NoKey
    BY <1>1 DEF Key!NoKey
  <2> QED
    BY <2>1, <2>2, <2>3, <2>4, <2>5, <2>6 DEF KeysInTurn
<1>12. Filled'
  <2> SUFFICES ASSUME NEW q \in Replicas
               PROVE  /\ filling'[q] \in {0, 1} /\ clock <= next'[q] /\ next'[q] <= clock + Refresh
                      /\ filling'[q] = 1 => next'[q] = clock
    BY <1>1, <1>3 DEF Filled
  <2>1. CASE q = r
    BY <1>9, <2>1
  <2>2. CASE q # r
    BY <1>9, <2>2 DEF KeyInv, Filled
  <2> QED
    BY <2>1, <2>2
<1>13. HasRead'
  <2> SUFFICES ASSUME NEW q \in Replicas
               PROVE  /\ current'[q] <= made' /\ (since[q] = Key!Before => Shared(current[q])')
                      /\ next'[q] > since[q] /\ ~stale[q] /\ filling'[q] = 0 =>
                           /\ Shared(current[q])'
                           /\ \A i \in keyed' : i.at + Refresh < next'[q] => i.key <= current'[q]
    BY <1>1 DEF HasRead, Key!Serves
  <2>1. CASE q = r
    <3>1. \A i \in keyed' : i.key <= current'[q]
      BY <1>3, <1>4, <1>5, <1>8, <2>1
    <3>2. Shared(current[q])'
      BY <1>3, <1>8, <2>1 DEF Shared
    <3> QED
      BY <1>1, <1>8, <2>1, <3>1, <3>2
  <2>2. CASE q # r
    <3>1. current'[q] = current[q] /\ next'[q] = next[q] /\ filling'[q] = filling[q]
      BY <1>8, <1>9, <2>2
    <3>2. Shared(current[q]) => Shared(current[q])'
      BY <3>1, <1>5 DEF Shared
    <3>3. current'[q] <= made'
      BY <1>1, <1>6, <3>1
    <3>4. since[q] = Key!Before => Shared(current[q])
      BY DEF KeyInv, HasRead
    <3>5. ASSUME next[q] > since[q], ~stale[q], filling[q] = 0
          PROVE  Shared(current[q]) /\ \A i \in keyed' : i.at + Refresh < next[q] => i.key <= current[q]
      <4>1. Shared(current[q]) /\ \A i \in keyed : i.at + Refresh < next[q] => i.key <= current[q]
        BY <3>5 DEF KeyInv, HasRead, Key!Serves
      <4>2. ~(clock + Refresh < next[q])
        BY DEF KeyInv, Filled
      <4> QED
        BY <1>3, <1>4, <4>1, <4>2
    <3> QED
      BY <3>1, <3>2, <3>3, <3>4, <3>5
  <2> QED
    BY <2>1, <2>2
<1>14. NotLate'
  <2>1. Late \in Nat /\ Refresh <= Late /\ Late' = Late
    BY <1>1, LateStays
  <2> SUFFICES ASSUME NEW q \in Replicas, NEW i \in keyed', Shared(current[q])', current'[q] < i.key
               PROVE  next'[q] <= i.at + Late
    BY <2>1 DEF NotLate
  <2> HIDE DEF Late
  <2>2. q # r
    BY <1>3, <1>4, <1>5, <1>8
  <2>3. current'[q] = current[q] /\ next'[q] = next[q]
    BY <1>8, <1>9, <2>2
  <2>4. Shared(current[q])
    <3>1. PICK j \in keyed' : j.key = current'[q]
      BY DEF Shared
    <3>2. j # new
      BY <1>3, <1>6, <2>3, <3>1
    <3> QED
      BY <1>4, <2>3, <3>1, <3>2 DEF Shared
  <2>5. CASE i \in keyed
    BY <2>3, <2>4, <2>5 DEF KeyInv, NotLate
  <2>6. CASE i = new
    <3>1. next[q] <= clock + Refresh
      BY DEF KeyInv, Filled
    <3> QED
      BY <1>3, <2>1, <2>3, <2>6, <3>1
  <2> QED
    BY <1>4, <2>5, <2>6
<1>15. KeepsPrevious'
  <2> SUFFICES ASSUME NEW q \in Replicas, since[q] = Key!Before, current'[q] # 1
               PROVE  \E i, j \in keyed' : /\ i.key = previous'[q] /\ j.key = current'[q] /\ Follows(i, j)'
                                           /\ j.at + TTL + Skew <= until'[q]
    BY <1>1 DEF KeepsPrevious
  <2>1. CASE q = r
    <3>1. Shared(current[r])
      BY <2>1 DEF KeyInv, HasRead
    <3>2. PICK j \in keyed : j.key = current[r]
      BY <3>1 DEF Shared
    <3>3. \A i \in keyed : i.key <= j.key
      BY <1>2, <3>1, <3>2, AtMostOneBehind
    <3>4. j.key < new.key /\ \A i \in keyed' : i.key <= j.key \/ new.key <= i.key
      BY <1>3, <1>4, <1>5, <3>3
    <3>5. new.at + TTL + Skew <= until'[r]
      BY <1>3, <1>8
    <3> QED
      BY <1>3, <1>5, <1>8, <2>1, <3>2, <3>4, <3>5 DEF Follows
  <2>2. CASE q # r
    <3>1. current'[q] = current[q] /\ previous'[q] = previous[q] /\ until'[q] = until[q]
      BY <1>8, <2>2
    <3>2. PICK i \in keyed, j \in keyed : /\ i.key = previous[q] /\ j.key = current[q] /\ Follows(i, j)
                                          /\ j.at + TTL + Skew <= until[q]
      BY <3>1 DEF KeyInv, KeepsPrevious
    <3>3. i.key < j.key /\ \A h \in keyed' : h.key <= i.key \/ j.key <= h.key
      BY <1>3, <1>4, <1>5, <3>2 DEF Follows
    <3> QED
      BY <1>5, <3>1, <3>2, <3>3 DEF Follows
  <2> QED
    BY <2>1, <2>2
<1>16. ShownInTime'
  <2> SUFFICES ASSUME token # Key!NoToken
               PROVE  /\ token.shown <= clock /\ token.key <= made'
                      /\ ~token.stale => \A i, j \in keyed' : i.key = token.key /\ i.key < j.key =>
                                           token.shown <= j.at + Refresh
    BY <1>1 DEF ShownInTime
  <2>1. token.key \in Nat /\ token.shown \in Nat /\ token.shown <= clock /\ token.key <= made
    BY DEF KeyInv, Key!TypeOK, ShownInTime, Key!Tokens, Key!Times, Key!Keys
  <2>2. ASSUME ~token.stale, NEW i \in keyed', NEW j \in keyed', i.key = token.key, i.key < j.key
        PROVE  token.shown <= j.at + Refresh
    <3>1. i \in keyed
      BY <1>3, <1>4, <2>1, <2>2
    <3>2. CASE j \in keyed
      BY <2>2, <3>1, <3>2 DEF KeyInv, ShownInTime
    <3>3. CASE j = new
      BY <1>3, <2>1, <3>3
    <3> QED
      BY <1>4, <3>2, <3>3
  <2> QED
    BY <1>1, <2>1, <2>2
<1> QED
  BY <1>10, <1>11, <1>12, <1>13, <1>14, <1>15, <1>16 DEF KeyInv

LEMMA FillKeeps ==
  ASSUME Key!Assumptions, ButtonOutlasts, KeyInv, NEW r \in Replicas, Key!Fill(r)
  PROVE  KeyInv'
<1>1. CASE clean[r]
  BY <1>1, FillLands
<1>2. CASE ~clean[r]
  <2>1. filling[r] = 1
    <3>1. filling[r] \in {0, 1} /\ filling[r] > 0
      BY DEF Key!Fill, KeyInv, Filled
    <3> QED
      BY <3>1
  <2>2. secret # Key!NoKey
    <3>1. PICK j \in keyed : j.key = secret
      BY <1>2, <2>1 DEF KeyInv, Filled
    <3> QED
      BY <3>1, KeyTypes DEF Key!NoKey
  <2>3. Key!Read(r, 2) /\ UNCHANGED <<secret, keyed, made, clock, since, stale, token, faults>>
    BY <1>2, <2>1 DEF Key!Fill, Key!Lands
  <2>4. /\ Key!Use(r, secret) /\ filling' = [filling EXCEPT ![r] = 0]
        /\ next' = [next EXCEPT ![r] = clock + Refresh] /\ UNCHANGED clean
    BY <2>2, <2>3 DEF Key!Read
  <2> QED
    BY <2>2, <2>3, <2>4, UseKeeps
<1> QED
  BY <1>1, <1>2

LEMMA ShowKeeps ==
  ASSUME Key!Assumptions, ButtonOutlasts, KeyInv, NEW r \in Replicas, Key!Show(r)
  PROVE  KeyInv'
<1> USE KeyTypes
<1>1. /\ token' = [key |-> current[r], shown |-> clock, stale |-> stale[r]] /\ Key!Serves(r)
      /\ UNCHANGED <<clock, secret, keyed, made, current, previous, until, next, filling, clean, since,
         stale, faults>>
  BY DEF Key!Show, Key!keys
<1>2. Key!TypeOK'
  <2>1. token' \in Key!Tokens
    BY <1>1 DEF KeyInv, Key!TypeOK, Key!Tokens
  <2> QED
    BY <1>1, <2>1 DEF KeyInv, Key!TypeOK
<1>3. KeysInTurn' /\ Filled'
  BY <1>1 DEF KeyInv, KeysInTurn, Shared, Filled
<1>4. HasRead' /\ NotLate' /\ KeepsPrevious'
  <2>1. HasRead'
    BY <1>1 DEF KeyInv, HasRead, Key!Serves, Shared
  <2>2. NotLate'
    BY <1>1 DEF KeyInv, NotLate, Late, Shared
  <2>3. KeepsPrevious'
    BY <1>1, KeysStay DEF Key!keys
  <2> QED
    BY <2>1, <2>2, <2>3
<1>5. ASSUME ~stale[r], NEW i \in keyed, NEW j \in keyed, i.key = current[r], i.key < j.key
      PROVE  clock <= j.at + Refresh
  <2>1. filling[r] \in {0, 1} /\ clock <= next[r]
    BY DEF KeyInv, Filled
  <2>2. CASE filling[r] = 0
    <3>1. j.at + Refresh < next[r] => j.key <= current[r]
      BY <1>1, <1>5, <2>2 DEF KeyInv, HasRead
    <3> QED
      BY <1>5, <2>1, <3>1
  <2>3. CASE filling[r] = 1
    <3>1. Shared(current[r])
      BY <1>5 DEF Shared
    <3>2. secret # Key!NoKey
      BY <1>5, <3>1, AtMostOneBehind
    <3>3. ~clean[r]
      BY <2>3, <3>2 DEF KeyInv, Filled
    <3>4. PICK h \in keyed : h.key = secret /\ h.at = clock
      BY <2>3, <3>3 DEF KeyInv, Filled
    <3>5. j.key <= h.key
      BY <3>2, <3>4 DEF KeyInv, KeysInTurn
    <3>6. j.key = h.key
      BY <1>5, <3>1, <3>5, AtMostOneBehind
    <3>7. j = h
      BY <3>6 DEF KeyInv, KeysInTurn
    <3> QED
      BY <3>4, <3>7
  <2> QED
    BY <2>1, <2>2, <2>3
<1>6. ShownInTime'
  <2>1. token'.key = current[r] /\ token'.shown = clock /\ token'.stale = stale[r]
    BY <1>1
  <2>2. current[r] <= made
    BY DEF KeyInv, HasRead
  <2> QED
    BY <1>1, <1>5, <2>1, <2>2 DEF ShownInTime
<1> QED
  BY <1>2, <1>3, <1>4, <1>6 DEF KeyInv

LEMMA EmptyKeeps == ASSUME Key!Assumptions, ButtonOutlasts, KeyInv, Key!Empty PROVE KeyInv'
<1> USE KeyTypes
<1>1. /\ secret # Key!NoKey /\ secret' = Key!NoKey /\ clean' = [r \in Replicas |-> FALSE]
      /\ \A j \in keyed : j.key = 1 \/ j.at + TTL + Skew <= clock
      /\ UNCHANGED <<clock, keyed, made, current, previous, until, next, filling, since, stale, token, faults>>
  BY DEF Key!Empty, Key!keys
<1>2. Key!TypeOK'
  BY <1>1 DEF KeyInv, Key!TypeOK
<1>3. KeysInTurn'
  BY <1>1 DEF KeyInv, KeysInTurn, Key!NoKey
<1>4. \A r \in Replicas : filling[r] = 0
  <2> SUFFICES ASSUME NEW r \in Replicas, filling[r] = 1 PROVE FALSE
    BY DEF KeyInv, Filled
  <2>1. ~clean[r]
    BY <1>1 DEF KeyInv, Filled
  <2>2. PICK j \in keyed : j.key # 1 /\ j.at = clock
    BY <2>1 DEF KeyInv, Filled
  <2> QED
    BY <1>1, <2>2
<1>5. Filled'
  BY <1>1, <1>4 DEF KeyInv, Filled
<1>6. HasRead' /\ NotLate'
  BY <1>1 DEF KeyInv, HasRead, NotLate, Late, Key!Serves, Shared
<1>7. KeepsPrevious' /\ ShownInTime'
  BY <1>1, KeysStay DEF Key!keys, KeyInv, ShownInTime
<1> QED
  BY <1>2, <1>3, <1>5, <1>6, <1>7 DEF KeyInv

LEMMA TickKeeps == ASSUME Key!Assumptions, ButtonOutlasts, KeyInv, Key!Tick PROVE KeyInv'
<1> USE KeyTypes
<1>1. /\ clock' = clock + 1 /\ clock < KeyTime /\ \A r \in Replicas : next[r] > clock /\ filling[r] = 0
      /\ UNCHANGED <<secret, keyed, made, current, previous, until, next, filling, clean, since, stale,
         token, faults>>
  BY DEF Key!Tick, Key!keys
<1>2. Key!TypeOK'
  <2>1. clock' \in Key!Times
    BY <1>1 DEF KeyInv, Key!TypeOK, Key!Times, Key!Assumptions
  <2> QED
    BY <1>1, <2>1 DEF KeyInv, Key!TypeOK
<1>3. KeysInTurn'
  <2>1. \A j \in keyed : /\ j.at <= clock' /\ j.key <= made
                         /\ j.at + TTL + Skew <= clock => j.at + TTL + Skew <= clock'
    BY <1>1 DEF KeyInv, KeysInTurn
  <2> QED
    BY <1>1, <2>1 DEF KeyInv, KeysInTurn, Shared
<1>4. Filled'
  <2>1. ASSUME NEW r \in Replicas
        PROVE  filling[r] = 0 /\ clock' <= next[r] /\ next[r] <= clock' + Refresh
    BY <1>1 DEF KeyInv, Filled
  <2> QED
    BY <1>1, <2>1 DEF Filled
<1>5. HasRead' /\ NotLate'
  BY <1>1 DEF KeyInv, HasRead, NotLate, Late, Key!Serves, Shared
<1>6. KeepsPrevious'
  BY <1>1, KeysStay DEF Key!keys
<1>7. ShownInTime'
  <2>1. token # Key!NoToken => token.shown \in Nat /\ token.shown <= clock'
    BY <1>1 DEF KeyInv, Key!TypeOK, ShownInTime, Key!Tokens, Key!Times
  <2> QED
    BY <1>1, <2>1 DEF KeyInv, ShownInTime
<1> QED
  BY <1>2, <1>3, <1>4, <1>5, <1>6, <1>7 DEF KeyInv

LEMMA RestartKeeps ==
  ASSUME Key!Assumptions, ButtonOutlasts, KeyInv, NEW r \in Replicas, Key!Restart(r)
  PROVE  KeyInv'
<1> USE KeyTypes
<1>1. /\ faults > 0 /\ faults' = faults - 1 /\ made' = made + 1
      /\ UNCHANGED <<clock, secret, keyed, clean, stale, token>>
  BY DEF Key!Restart
<1>2. /\ current' = [current EXCEPT ![r] = made + 1] /\ previous' = [previous EXCEPT ![r] = Key!NoKey]
      /\ until' = [until EXCEPT ![r] = 0] /\ filling' = [filling EXCEPT ![r] = 0]
      /\ next' = [next EXCEPT ![r] = clock] /\ since' = [since EXCEPT ![r] = clock]
  BY DEF Key!Restart
<1>3. /\ current \in [Replicas -> Key!Keys] /\ previous \in [Replicas -> Key!Keys \cup {Key!NoKey}]
      /\ until \in [Replicas -> 0..(KeyTime + TTL + Skew)]
      /\ next \in [Replicas -> 0..(KeyTime + Refresh)] /\ filling \in [Replicas -> 0..2]
      /\ since \in [Replicas -> Key!Times \cup {Key!Before}]
  BY DEF KeyInv, Key!TypeOK
<1>4. /\ current'[r] = made + 1 /\ filling'[r] = 0 /\ next'[r] = clock /\ since'[r] = clock
      /\ \A q \in Replicas : q # r =>
           /\ current'[q] = current[q] /\ previous'[q] = previous[q] /\ until'[q] = until[q]
           /\ filling'[q] = filling[q] /\ next'[q] = next[q] /\ since'[q] = since[q]
  BY <1>2, <1>3
<1>5. Key!TypeOK'
  <2>1. /\ made + 1 \in Key!Keys /\ clock \in 0..(KeyTime + Refresh) /\ faults - 1 \in 0..KeyFaults
           /\ clock \in Key!Times
        /\ 0 \in 0..(KeyTime + TTL + Skew)
    BY <1>1 DEF KeyInv, Key!TypeOK, Key!Times, Key!Keys, Key!Assumptions
  <2>2. current' \in [Replicas -> Key!Keys] /\ previous' \in [Replicas -> Key!Keys \cup {Key!NoKey}]
    BY <1>2, <1>3, <2>1
  <2>3. until' \in [Replicas -> 0..(KeyTime + TTL + Skew)] /\ next' \in [Replicas -> 0..(KeyTime + Refresh)]
    BY <1>2, <1>3, <2>1
  <2>4. filling' \in [Replicas -> 0..2] /\ since' \in [Replicas -> Key!Times \cup {Key!Before}]
    BY <1>2, <1>3, <2>1
  <2> QED
    BY <1>1, <2>1, <2>2, <2>3, <2>4 DEF KeyInv, Key!TypeOK
<1>6. KeysInTurn'
  BY <1>1 DEF KeyInv, KeysInTurn, Shared
<1>7. \A x : Shared(x)' <=> Shared(x)
  BY <1>1 DEF Shared
<1>8. ~Shared(made + 1)
  BY DEF KeyInv, KeysInTurn, Shared
<1>9. Filled'
  <2> SUFFICES ASSUME NEW q \in Replicas
               PROVE  /\ filling'[q] \in {0, 1} /\ clock <= next'[q] /\ next'[q] <= clock + Refresh
                      /\ filling'[q] = 1 =>
                           /\ next'[q] = clock
                           /\ clean[q] => secret = Key!NoKey
                           /\ ~clean[q] => \E j \in keyed : j.key = secret /\ j.key # 1 /\ j.at = clock
    BY <1>1 DEF Filled
  <2>1. CASE q = r
    BY <1>4, <2>1
  <2>2. CASE q # r
    BY <1>4, <2>2 DEF KeyInv, Filled
  <2> QED
    BY <2>1, <2>2
<1>10. HasRead'
  <2> SUFFICES ASSUME NEW q \in Replicas
               PROVE  /\ current'[q] <= made + 1 /\ (since'[q] = Key!Before => Shared(current'[q]))
                      /\ next'[q] > since'[q] /\ ~stale[q] /\ filling'[q] = 0 =>
                           /\ Shared(current'[q])
                           /\ \A i \in keyed : i.at + Refresh < next'[q] => i.key <= current'[q]
    BY <1>1, <1>7 DEF HasRead, Key!Serves, Shared
  <2>1. CASE q = r
    BY <1>4, <2>1 DEF Key!Before
  <2>2. CASE q # r
    BY <1>4, <2>2 DEF KeyInv, HasRead, Key!Serves
  <2> QED
    BY <2>1, <2>2
<1>11. NotLate'
  <2>1. Late \in Nat /\ Late' = Late + Refresh
    BY <1>1, LateStays
  <2> SUFFICES ASSUME NEW q \in Replicas, NEW i \in keyed, Shared(current'[q]), current'[q] < i.key
               PROVE  next'[q] <= i.at + Late'
    BY <1>1 DEF NotLate, Shared
  <2>2. q # r
    BY <1>4, <1>8
  <2>3. next'[q] = next[q] /\ next[q] <= i.at + Late
    BY <1>4, <2>2 DEF KeyInv, NotLate
  <2> HIDE DEF Late
  <2> QED
    BY <2>1, <2>3
<1>12. KeepsPrevious'
  <2> SUFFICES ASSUME NEW q \in Replicas, since'[q] = Key!Before, current'[q] # 1
               PROVE  \E i, j \in keyed : /\ i.key = previous'[q] /\ j.key = current'[q] /\ Follows(i, j)
                                          /\ j.at + TTL + Skew <= until'[q]
    BY <1>1 DEF KeepsPrevious, Follows
  <2>1. q # r
    BY <1>4 DEF Key!Before
  <2> QED
    BY <1>4, <2>1 DEF KeyInv, KeepsPrevious
<1>13. ShownInTime'
  <2>1. token # Key!NoToken => token.key \in Nat /\ token.key <= made'
    BY <1>1 DEF KeyInv, Key!TypeOK, ShownInTime, Key!Tokens, Key!Keys
  <2> QED
    BY <1>1, <2>1 DEF KeyInv, ShownInTime
<1> QED
  BY <1>5, <1>6, <1>9, <1>10, <1>11, <1>12, <1>13 DEF KeyInv

\* While nothing changes, nothing does.
LEMMA KeyStutters == ASSUME KeyInv, UNCHANGED Key!vars PROVE KeyInv'
<1>1. UNCHANGED <<clock, secret, keyed, made, current, previous, until, next, filling, clean, since,
        stale, token, faults>>
  BY DEF Key!vars, Key!keys
<1>2. Key!TypeOK' /\ KeysInTurn' /\ Filled'
  BY <1>1 DEF KeyInv, Key!TypeOK, KeysInTurn, Shared, Filled
<1>3. HasRead' /\ NotLate' /\ ShownInTime'
  BY <1>1 DEF KeyInv, HasRead, Key!Serves, Shared, NotLate, Late, ShownInTime
<1>4. KeepsPrevious'
  BY <1>1, KeysStay DEF Key!keys
<1> QED
  BY <1>2, <1>3, <1>4 DEF KeyInv

LEMMA KeyKept == ASSUME Key!Assumptions, ButtonOutlasts, KeyInv, Key!Next PROVE KeyInv'
<1>1. ASSUME NEW r \in Replicas, Key!Load(r) \/ Key!Fill(r) \/ Key!Show(r) \/ Key!Restart(r) PROVE KeyInv'
  BY <1>1, LoadKeeps, FillKeeps, ShowKeeps, RestartKeeps
<1>2. CASE Key!Empty
  BY <1>2, EmptyKeeps
<1>3. CASE Key!Tick
  BY <1>3, TickKeeps
<1> QED
  BY <1>1, <1>2, <1>3 DEF Key!Next

\* A button that is shown works wherever it's clicked, for any number of replicas, and whichever
\* of them fill the Secret at once, as long as a button outlasts the reads that fail
\* (ClicksWork; token.go:64).
THEOREM ButtonsWork == ASSUME Key!Assumptions, ButtonOutlasts PROVE Key!Spec => []Key!ClicksWork
<1>1. Key!Init => KeyInv
  BY KeyFirst
<1>2. KeyInv /\ [Key!Next]_(Key!vars) => KeyInv'
  BY KeyKept, KeyStutters
<1>3. KeyInv => Key!ClicksWork
  BY ClicksWorkNow
<1> QED
  BY <1>1, <1>2, <1>3, PTL DEF Key!Spec

-----------------------------------------------------------------------------
(* Ports: what's left of a workload's routing. *)

LEMMA RoutingDurations == PortDrain \in Nat \ {0} /\ SliceSettle \in Nat \ {0}
BY RoutingAssumption

\* The types of what a workload's own reconcile reads and writes.
RoutingTyped ==
  /\ routed \in [Backends -> Routing!Status] /\ inCache \in [Backends -> Routing!Status]
  /\ work \in [Backends -> Routing!Status]
  /\ slices \in [Backends -> Routing!Routing] /\ inCacheSlices \in [Backends -> Routing!Routing]
  /\ cur \in [Backends -> Routing!Routing]
  /\ plan \in [Backends -> SUBSET Services] /\ keys \in [Backends -> SUBSET Services] /\ todo \in [Backends -> SUBSET Services]
  /\ inCacheFresh \in [Backends -> BOOLEAN] /\ workFresh \in [Backends -> BOOLEAN]
  /\ doing \in [Backends -> Routing!Steps] /\ result \in [Backends -> Routing!Results]
  /\ wait \in [Backends -> Routing!Unqueued..PortDrain]

\* Before a route is taken back, or the last of a workload, the copy says it's awake or going.
Ends(x) == work[x].phase = "awake" \/ work[x].deleting
Drained(m) == m.deleting /\ m.drained

\* The cache knows of a deletion by when a drain has begun since; and a copy of the current version
\* tells what the status does.
CopyFits(x) ==
  /\ inCacheFresh[x] => inCache[x] = routed[x]
  /\ routed[x].gone => routed[x].deleting
  /\ routed[x].gone \/ Drained(routed[x]) => inCache[x].deleting
  /\ ~work[x].gone
  /\ doing[x] # "idle" /\ workFresh[x] =>
       /\ inCacheFresh[x] /\ ~routed[x].gone /\ work[x].phase = routed[x].phase
       /\ work[x].settling = routed[x].settling /\ work[x].deleting = routed[x].deleting

\* Slices are made only for a workload that's paused or resuming, and not let go of yet.
RoutesAlive(x) ==
  doing[x] \in {"list", "merge", "assign", "apply"} =>
    /\ ~Ends(x) /\ routed[x].phase # "awake" /\ ~routed[x].gone /\ ~Drained(routed[x])

\* The slices left are still to be deleted, or a deletion has failed.
Unroutes(x) ==
  /\ doing[x] = "unroute" => keys[x] = {}
  /\ doing[x] \in {"unroute", "write"} /\ Ends(x) /\ workFresh[x] /\ result[x] # "failed"
       => \A key \in Services : slices[x][key] = NoPort \/ (doing[x] = "unroute" /\ key \in todo[x])

\* A workload whose drains are waited for has no slices, one that's been awake for a while has none that
\* the cache doesn't know of, and one that's at rest has none.
Bare(x) == \A key \in Services : slices[x][key] = NoPort
DrainsBare(x) == Drained(routed[x]) => Bare(x)
SlicesKnown(x) ==
  routed[x].phase = "awake" /\ routed[x].settling = 0
    => \A key \in Services : slices[x][key] # NoPort => inCacheSlices[x][key] # NoPort
RestsBare(x) ==
  \/ routed[x].gone
  \/ routed[x].phase = "awake" /\ inCacheFresh[x] /\ doing[x] = "idle" /\ wait[x] = Routing!Unqueued
  => Bare(x)

BehindAt(x) == CopyFits(x) /\ RoutesAlive(x) /\ Unroutes(x) /\ DrainsBare(x) /\ SlicesKnown(x) /\ RestsBare(x)
BehindInv == RoutingTyped /\ \A x \in Backends : BehindAt(x)

LEMMA BareNow ==
  ASSUME RoutingTyped, NEW x \in Backends PROVE Bare(x) <=> slices[x] = Routing!Unrouted
<1>1. slices[x] \in [Services -> Ports \cup {NoPort}]
  BY DEF RoutingTyped, Routing!Routing
<1> QED
  BY <1>1 DEF Bare, Routing!Unrouted

LEMMA NewRouting ==
  /\ Routing!New \in Routing!Status /\ Routing!Unrouted \in Routing!Routing
  /\ Routing!New.phase = "awake" /\ ~Routing!New.gone /\ ~Routing!New.deleting
<1>1. Routing!Unrouted \in Routing!Routing
  BY DEF Routing!Unrouted, Routing!Routing
<1>2. Routing!NoDrains \in [Ports -> 0..PortDrain] /\ 0 \in 0..SliceSettle
  BY RoutingDurations DEF Routing!NoDrains
<1> QED
  BY <1>1, <1>2 DEF Routing!New, Routing!Status, Routing!Phases

LEMMA BehindFirst == Routing!Init => BehindInv
<1> SUFFICES ASSUME Routing!Init PROVE BehindInv
  OBVIOUS
<1>1. 0 \in Routing!Unqueued..PortDrain /\ 0 # Routing!Unqueued
  BY RoutingDurations DEF Routing!Unqueued
<1>2. RoutingTyped
  BY <1>1, NewRouting DEF RoutingTyped, Routing!Init, Routing!All, Routing!Steps, Routing!Results
<1>3. ASSUME NEW x \in Backends PROVE BehindAt(x)
  <2>1. /\ routed[x] = Routing!New /\ inCache[x] = Routing!New /\ work[x] = Routing!New /\ doing[x] = "idle"
        /\ slices[x] = Routing!Unrouted
    BY DEF Routing!Init, Routing!All
  <2>2. Bare(x)
    BY <2>1 DEF Bare, Routing!Unrouted
  <2>3. CopyFits(x) /\ RoutesAlive(x) /\ Unroutes(x) /\ DrainsBare(x) /\ SlicesKnown(x) /\ RestsBare(x)
    BY <2>1, <2>2, NewRouting DEF CopyFits, RoutesAlive, Unroutes, DrainsBare, SlicesKnown, RestsBare, Bare, Drained
  <2> QED
    BY <2>3 DEF BehindAt
<1> QED
  BY <1>2, <1>3 DEF BehindInv

\* A workload that nothing is done to.
AsItWas(x) ==
  /\ routed'[x] = routed[x] /\ slices'[x] = slices[x]
  /\ inCache'[x] = inCache[x] /\ inCacheFresh'[x] = inCacheFresh[x] /\ inCacheSlices'[x] = inCacheSlices[x]
  /\ doing'[x] = doing[x] /\ work'[x] = work[x] /\ workFresh'[x] = workFresh[x]
  /\ keys'[x] = keys[x] /\ todo'[x] = todo[x] /\ result'[x] = result[x]

LEMMA BehindStays ==
  ASSUME NEW x, BehindAt(x), AsItWas(x), wait'[x] = wait[x] \/ wait'[x] # Routing!Unqueued
  PROVE  BehindAt(x)'
<1>1. CopyFits(x)' /\ RoutesAlive(x)'
  BY DEF BehindAt, AsItWas, CopyFits, RoutesAlive, Ends, Drained
<1>2. Unroutes(x)' /\ DrainsBare(x)' /\ SlicesKnown(x)' /\ RestsBare(x)'
  BY DEF BehindAt, AsItWas, Unroutes, DrainsBare, SlicesKnown, RestsBare, Bare, Ends, Drained
<1> QED
  BY <1>1, <1>2 DEF BehindAt

LEMMA WithRoutesTyped ==
  ASSUME NEW m \in Routing!Status, NEW r \in Routing!Routing
  PROVE  LET new == Routing!WithRoutes(m, r)
         IN  /\ new \in Routing!Status /\ new.phase = m.phase /\ new.settling = m.settling
             /\ new.deleting = m.deleting /\ new.gone = m.gone
<1> DEFINE given == Routing!PortsOf(m.routes) \ Routing!PortsOf(r)
           drains == [p \in Ports |->
             IF p \in Routing!PortsOf(r) THEN 0
             ELSE IF m.drains[p] = 0 /\ p \in given THEN PortDrain ELSE m.drains[p]]
           over == m.drained \/ (m.deleting /\ \E p \in given : m.drains[p] = 0)
<1>1. drains \in [Ports -> 0..PortDrain] /\ over \in BOOLEAN
  <2>1. m.drains \in [Ports -> 0..PortDrain] /\ m.drained \in BOOLEAN
    BY DEF Routing!Status
  <2> QED
    BY <2>1, RoutingDurations
<1>2. Routing!WithRoutes(m, r) = [m EXCEPT !.routes = r, !.drains = drains, !.drained = over]
  BY DEF Routing!WithRoutes
<1> HIDE DEF drains, over
<1> QED
  BY <1>1, <1>2 DEF Routing!Status

LEMMA OlderTyped ==
  ASSUME NEW m \in Routing!Status
  PROVE  LET new == Routing!Older(m)
         IN  /\ new \in Routing!Status /\ new.phase = m.phase /\ new.settling = Routing!Less(m.settling)
             /\ new.deleting = m.deleting /\ new.drained = m.drained /\ new.gone = m.gone
<1> DEFINE drains == [p \in Ports |-> Routing!Less(m.drains[p])]
           settling == Routing!Less(m.settling)
<1>1. drains \in [Ports -> 0..PortDrain] /\ settling \in 0..SliceSettle
  <2>1. m.drains \in [Ports -> 0..PortDrain] /\ m.settling \in 0..SliceSettle
    BY DEF Routing!Status
  <2> QED
    BY <2>1, RoutingDurations DEF Routing!Less
<1>2. Routing!Older(m) = [m EXCEPT !.drains = drains, !.settling = settling]
  BY DEF Routing!Older
<1>3. settling = Routing!Less(m.settling)
  OBVIOUS
<1> HIDE DEF drains, settling
<1> QED
  BY <1>1, <1>2, <1>3 DEF Routing!Status

LEMMA RoutingEnd ==
  ASSUME RoutingTyped, NEW x \in Backends, NEW after \in Routing!Unqueued..PortDrain, Routing!End(x, after)
  PROVE  /\ work' \in [Backends -> Routing!Status] /\ workFresh' \in [Backends -> BOOLEAN]
         /\ keys' \in [Backends -> SUBSET Services] /\ todo' \in [Backends -> SUBSET Services]
         /\ cur' \in [Backends -> Routing!Routing]
         /\ doing' \in [Backends -> Routing!Steps] /\ result' \in [Backends -> Routing!Results]
         /\ wait' \in [Backends -> Routing!Unqueued..PortDrain]
         /\ doing'[x] = "idle" /\ work'[x] = Routing!New /\ wait'[x] \in {0, after}
<1>1. 0 \in Routing!Unqueued..PortDrain
  BY RoutingDurations DEF Routing!Unqueued
<1> QED
  BY <1>1, NewRouting DEF RoutingTyped, Routing!End, Routing!Goto, Routing!Steps, Routing!Results

\* A reconcile touches no other workload's.
LEMMA ReconcileOthers ==
  ASSUME RoutingTyped, NEW x \in Backends, NEW y \in Backends, y # x, Routing!Reconcile(x)
  PROVE  AsItWas(y) /\ wait'[y] = wait[y]
<1>1. CASE Routing!Start(x) \/ Routing!List(x) \/ Routing!Merge(x) \/ Routing!Release(x)
  <2>1. CASE Routing!Start(x)
    BY <2>1 DEF Routing!Start, Routing!Goto, Routing!NoWrites, Routing!api, Routing!caches, RoutingTyped, AsItWas
  <2>2. CASE Routing!List(x) \/ Routing!Merge(x) \/ Routing!Release(x)
    BY <2>2 DEF Routing!List, Routing!Merge, Routing!Release, Routing!Goto,
                Routing!NoWrites, Routing!api, Routing!caches, RoutingTyped, AsItWas
  <2> QED
    BY <1>1, <2>1, <2>2
<1>2. CASE Routing!Assign(x)
  <2>1. UNCHANGED <<routed, slices, inCache, inCacheFresh, inCacheSlices, workFresh, keys, result, wait>>
    BY <1>2 DEF Routing!Assign, Routing!NoWrites, Routing!api, Routing!caches
  <2>2. doing'[y] = doing[y] /\ work'[y] = work[y] /\ todo'[y] = todo[y]
    <3>1. CASE Routing!Choices(x) # {}
      <4>1. \E m, rest : work' = [work EXCEPT ![x] = m] /\ todo' = [todo EXCEPT ![x] = rest]
        BY <1>2, <3>1 DEF Routing!Assign
      <4>2. doing' = [doing EXCEPT ![x] = "apply"]
        BY <1>2, <3>1 DEF Routing!Assign, Routing!Goto
      <4> QED
        BY <4>1, <4>2 DEF RoutingTyped
    <3>2. CASE Routing!Choices(x) = {}
      <4>1. UNCHANGED <<work, todo>> /\ doing' = [doing EXCEPT ![x] = "write"]
        BY <1>2, <3>2 DEF Routing!Assign, Routing!Goto
      <4> QED
        BY <4>1 DEF RoutingTyped
    <3> QED
      BY <3>1, <3>2
  <2> QED
    BY <2>1, <2>2 DEF AsItWas
<1>3. CASE Routing!WriteSlice(x)
  <2>1. UNCHANGED <<inCache, inCacheFresh, inCacheSlices, work, workFresh, keys, wait, routed>>
    BY <1>3 DEF Routing!WriteSlice, Routing!ApplySlice, Routing!DeleteSlice, Routing!DeletesFail,
                Routing!SliceWritten, Routing!api, Routing!caches
  <2>2. slices'[y] = slices[y] /\ doing'[y] = doing[y] /\ todo'[y] = todo[y] /\ result'[y] = result[y]
    BY <1>3 DEF Routing!WriteSlice, Routing!ApplySlice, Routing!DeleteSlice, Routing!DeletesFail,
                Routing!SliceWritten, Routing!api, Routing!caches, Routing!Goto, RoutingTyped
  <2> QED
    BY <2>1, <2>2 DEF AsItWas
<1>4. CASE Routing!WriteStatus(x) \/ Routing!WriteNothing(x) \/ Routing!LetGo(x)
  <2>1. \E after : Routing!End(x, after)
    BY <1>4 DEF Routing!WriteStatus, Routing!WriteNothing, Routing!LetGo
  <2>2. /\ doing'[y] = doing[y] /\ work'[y] = work[y] /\ workFresh'[y] = workFresh[y]
        /\ keys'[y] = keys[y] /\ todo'[y] = todo[y] /\ result'[y] = result[y] /\ wait'[y] = wait[y]
    BY <2>1 DEF Routing!End, Routing!Goto, RoutingTyped
  <2>3. UNCHANGED <<slices, inCache, inCacheSlices>> /\ routed'[y] = routed[y] /\ inCacheFresh'[y] = inCacheFresh[y]
    <3>1. (\E m : Routing!Written(x, m)) \/ UNCHANGED <<Routing!api, Routing!caches>>
      BY <1>4 DEF Routing!WriteStatus, Routing!WriteNothing, Routing!LetGo, Routing!NoWrites
    <3> QED
      BY <3>1 DEF Routing!Written, Routing!api, Routing!caches, RoutingTyped
  <2> QED
    BY <2>2, <2>3 DEF AsItWas
<1> QED
  BY <1>1, <1>2, <1>3, <1>4 DEF Routing!Reconcile

\* What a reconcile does to its own.
BehindNow(x) == RoutingTyped' /\ BehindAt(x)'

LEMMA BehindStart ==
  ASSUME BehindInv, NEW x \in Backends, Routing!Start(x) PROVE BehindNow(x)
<1> DEFINE m == inCache[x]
           on == Routing!Eligible(m) /\ ~m.deleting /\ ready
           asks == IF on \/ ~Routing!MayMissSlices(m) THEN inCacheSlices[x] ELSE slices[x]
<1>0. /\ BehindAt(x) /\ m \in Routing!Status
      /\ doing[x] = "idle" /\ ~m.gone /\ (Routing!Eligible(m) /\ ~m.deleting => m.phase = routed[x].phase)
      /\ UNCHANGED <<routed, slices, inCache, inCacheFresh, inCacheSlices, plan, result>>
      /\ work' = [work EXCEPT ![x] = m] /\ workFresh' = [workFresh EXCEPT ![x] = inCacheFresh[x]]
      /\ cur' = [cur EXCEPT ![x] = asks] /\ keys' = [keys EXCEPT ![x] = IF on THEN plan[x] ELSE {}]
      /\ todo' = [todo EXCEPT ![x] = IF on THEN {} ELSE {key \in Services : asks[key] # NoPort}]
      /\ wait' = [wait EXCEPT ![x] = Routing!Unqueued]
      /\ \E to \in {"unroute", "list", "assign"} : (to = "unroute" <=> ~on) /\ doing' = [doing EXCEPT ![x] = to]
  BY DEF BehindInv, RoutingTyped, Routing!Start, Routing!NoWrites, Routing!api, Routing!caches, Routing!world, Routing!Goto
<1>1. m.settling \in 0..SliceSettle /\ m.phase \in Routing!Phases
  BY <1>0 DEF Routing!Status
<1>2. Routing!Eligible(m) => m.phase # "awake"
  BY DEF Routing!Eligible
<1>3. on => ~m.deleting /\ Routing!Eligible(m)
  OBVIOUS
<1>4. inCacheFresh[x] /\ ~on /\ (m.phase = "awake" \/ m.deleting)
        => \A key \in Services : slices[x][key] = NoPort \/ asks[key] # NoPort
  <2> SUFFICES ASSUME inCacheFresh[x], ~on, m.phase = "awake" \/ m.deleting, NEW key \in Services
               PROVE  slices[x][key] = NoPort \/ asks[key] # NoPort
    OBVIOUS
  <2>1. m = routed[x]
    BY <1>0 DEF BehindAt, CopyFits
  <2>2. CASE Routing!MayMissSlices(m)
    BY <2>2
  <2>3. CASE ~Routing!MayMissSlices(m) /\ m.deleting
    <3>1. Drained(m)
      BY <2>3 DEF Routing!MayMissSlices, Drained
    <3> QED
      BY <1>0, <2>1, <3>1 DEF BehindAt, DrainsBare, Bare
  <2>4. CASE ~Routing!MayMissSlices(m) /\ ~m.deleting
    <3>1. m.phase = "awake" /\ m.settling = 0
      BY <1>1, <2>4 DEF Routing!MayMissSlices
    <3>2. slices[x][key] # NoPort => inCacheSlices[x][key] # NoPort
      BY <1>0, <2>1, <3>1 DEF BehindAt, SlicesKnown
    <3> QED
      BY <2>4, <3>2
  <2> QED
    BY <2>2, <2>3, <2>4
<1>5. asks \in Routing!Routing
  BY DEF BehindInv, RoutingTyped
<1> HIDE DEF m, on, asks
<1>6. RoutingTyped'
  <2>1. Routing!Unqueued \in Routing!Unqueued..PortDrain
    BY RoutingDurations DEF Routing!Unqueued
  <2> QED
    BY <1>0, <1>5, <2>1 DEF BehindInv, RoutingTyped, Routing!Steps
<1>7. /\ work'[x] = m /\ workFresh'[x] = inCacheFresh[x] /\ (~on => keys'[x] = {})
      /\ (~on => todo'[x] = {key \in Services : asks[key] # NoPort})
      /\ doing'[x] \in {"unroute", "list", "assign"} /\ (doing'[x] = "unroute" <=> ~on)
  BY <1>0 DEF BehindInv, RoutingTyped
<1>8. CopyFits(x)'
  BY <1>0, <1>7 DEF BehindAt, CopyFits, m
<1>9. RoutesAlive(x)'
  BY <1>0, <1>2, <1>3, <1>7 DEF BehindAt, CopyFits, RoutesAlive, Ends, Drained, m
<1>10. Unroutes(x)'
  BY <1>0, <1>4, <1>7 DEF Unroutes, Ends
<1>11. DrainsBare(x)' /\ SlicesKnown(x)' /\ RestsBare(x)'
  BY <1>0, <1>7 DEF BehindAt, DrainsBare, SlicesKnown, RestsBare, Bare, Drained
<1> QED
  BY <1>6, <1>8, <1>9, <1>10, <1>11 DEF BehindNow, BehindAt

\* The steps that write nothing.
LEMMA BehindThinks ==
  ASSUME BehindInv, NEW x \in Backends, Routing!List(x) \/ Routing!Merge(x) \/ Routing!Assign(x) \/ Routing!Release(x)
  PROVE  BehindNow(x)
<1>0. /\ BehindAt(x) /\ RoutingTyped /\ work[x] \in Routing!Status /\ keys[x] \in SUBSET Services
      /\ UNCHANGED <<routed, slices, inCache, inCacheFresh, inCacheSlices, plan, result, workFresh, keys, cur, wait>>
  BY DEF BehindInv, RoutingTyped, Routing!List, Routing!Merge, Routing!Assign, Routing!Release, Routing!NoWrites,
         Routing!api, Routing!caches, Routing!world
<1>1. PICK m \in Routing!Status, rest \in SUBSET Services, to \in Routing!Steps \ {"idle", "unroute"} :
        /\ work' = [work EXCEPT ![x] = m] /\ todo' = [todo EXCEPT ![x] = rest] /\ doing' = [doing EXCEPT ![x] = to]
        /\ m.phase = work[x].phase /\ m.settling = work[x].settling /\ m.deleting = work[x].deleting /\ m.gone = work[x].gone
        /\ \/ doing[x] \in {"list", "merge", "assign"}
           \/ doing[x] = "unroute" /\ to = "write" /\ todo[x] = {}
  <2>1. CASE Routing!List(x) \/ Routing!Merge(x)
    <3>1. UNCHANGED <<work, todo>> /\ doing[x] \in {"list", "merge", "assign"}
      BY <2>1 DEF Routing!List, Routing!Merge
    <3>2. work = [work EXCEPT ![x] = work[x]] /\ todo = [todo EXCEPT ![x] = todo[x]] /\ todo[x] \in SUBSET Services
      BY <1>0 DEF RoutingTyped
    <3>3. \E to \in {"merge", "assign"} : doing' = [doing EXCEPT ![x] = to]
      BY <2>1 DEF Routing!List, Routing!Merge, Routing!Goto
    <3> QED
      BY <1>0, <3>1, <3>2, <3>3 DEF Routing!Steps
  <2>2. CASE Routing!Assign(x)
    <3>1. CASE Routing!Choices(x) # {}
      <4>1. PICK r \in Routing!Choices(x) :
              /\ work' = [work EXCEPT ![x] = Routing!WithRoutes(work[x], r)]
              /\ todo' = [todo EXCEPT ![x] = keys[x] \cup {key \in Services : cur[x][key] # NoPort}]
              /\ doing' = [doing EXCEPT ![x] = "apply"]
        BY <2>2, <3>1 DEF Routing!Assign, Routing!Goto
      <4>2. r \in Routing!Routing
        BY DEF Routing!Choices, Routing!Routing
      <4>3. doing[x] = "assign"
        BY <2>2 DEF Routing!Assign
      <4> QED
        BY <1>0, <4>1, <4>2, <4>3, WithRoutesTyped DEF Routing!Steps
    <3>2. CASE Routing!Choices(x) = {}
      <4>1. UNCHANGED <<work, todo>> /\ doing[x] = "assign" /\ doing' = [doing EXCEPT ![x] = "write"]
        BY <2>2, <3>2 DEF Routing!Assign, Routing!Goto
      <4>2. work = [work EXCEPT ![x] = work[x]] /\ todo = [todo EXCEPT ![x] = todo[x]] /\ todo[x] \in SUBSET Services
        BY <1>0 DEF RoutingTyped
      <4> QED
        BY <1>0, <4>1, <4>2 DEF Routing!Steps
    <3> QED
      BY <3>1, <3>2
  <2>3. CASE Routing!Release(x)
    <3>1. /\ work' = [work EXCEPT ![x] = Routing!WithRoutes(work[x], Routing!Unrouted)] /\ UNCHANGED todo
          /\ doing[x] = "unroute" /\ doing' = [doing EXCEPT ![x] = "write"] /\ todo[x] = {}
      BY <2>3 DEF Routing!Release, Routing!Goto
    <3>2. todo = [todo EXCEPT ![x] = todo[x]]
      BY <1>0 DEF RoutingTyped
    <3> QED
      BY <1>0, <3>1, <3>2, NewRouting, WithRoutesTyped DEF Routing!Steps
  <2> QED
    BY <2>1, <2>2, <2>3
<1>2. RoutingTyped'
  BY <1>0, <1>1 DEF RoutingTyped
<1>3. work'[x] = m /\ todo'[x] = rest /\ doing'[x] = to /\ doing[x] # "idle"
  BY <1>0, <1>1 DEF RoutingTyped
<1>4. Ends(x)' <=> Ends(x)
  BY <1>1, <1>3 DEF Ends
<1>5. CopyFits(x)'
  BY <1>0, <1>1, <1>3 DEF BehindAt, CopyFits, Drained
<1>6. RoutesAlive(x)'
  BY <1>0, <1>1, <1>3, <1>4 DEF BehindAt, RoutesAlive, Drained
<1>7. Unroutes(x)'
  BY <1>0, <1>1, <1>3, <1>4 DEF BehindAt, RoutesAlive, Unroutes
<1>8. DrainsBare(x)' /\ SlicesKnown(x)' /\ RestsBare(x)'
  BY <1>0, <1>1, <1>3 DEF BehindAt, DrainsBare, SlicesKnown, RestsBare, Bare, Drained
<1> QED
  BY <1>2, <1>5, <1>6, <1>7, <1>8 DEF BehindNow, BehindAt

LEMMA BehindSlice ==
  ASSUME BehindInv, NEW x \in Backends, Routing!WriteSlice(x) PROVE BehindNow(x)
<1>0. /\ BehindAt(x) /\ RoutingTyped /\ doing[x] \in {"apply", "unroute"}
      /\ UNCHANGED <<routed, inCache, inCacheFresh, inCacheSlices, plan, work, workFresh, keys, cur, wait>>
  BY DEF BehindInv, RoutingTyped, Routing!WriteSlice, Routing!ApplySlice, Routing!DeleteSlice, Routing!DeletesFail,
         Routing!SliceWritten, Routing!api, Routing!caches, Routing!world
<1>1. PICK turn \in todo[x] :
        IF turn \in keys[x] THEN Routing!ApplySlice(x, turn)
        ELSE todo[x] \cap keys[x] = {} /\ (Routing!DeleteSlice(x, turn) \/ Routing!DeletesFail(x))
  BY DEF Routing!WriteSlice
<1>2. turn \in Services
  BY <1>0 DEF RoutingTyped
<1>3. doing[x] = "unroute" => turn \notin keys[x]
  BY <1>0 DEF BehindAt, Unroutes
<1>4. CopyFits(x)'
  <2>1. doing'[x] # "idle" => doing[x] # "idle"
    BY <1>0
  <2> QED
    BY <1>0, <2>1 DEF BehindAt, CopyFits, Drained
<1>5. CASE turn \in keys[x]
  <2>1. doing[x] = "apply" /\ Routing!ApplySlice(x, turn)
    BY <1>0, <1>1, <1>3, <1>5
  <2>2. work[x].routes[turn] \in Ports \cup {NoPort}
    BY <1>0, <1>2 DEF RoutingTyped, Routing!Status, Routing!Routing
  <2>3. /\ doing' = doing /\ todo' = [todo EXCEPT ![x] = @ \ {turn}]
        /\ slices' = slices \/ slices' = [slices EXCEPT ![x][turn] = work[x].routes[turn]]
        /\ result' = result \/ \E r \in Routing!Results : result' = [result EXCEPT ![x] = r]
    BY <1>0, <2>1 DEF Routing!ApplySlice, Routing!SliceWritten, Routing!api, Routing!Results, RoutingTyped
  <2>4. slices' \in [Backends -> Routing!Routing]
    <3>1. ASSUME NEW port \in Ports \cup {NoPort} PROVE [slices EXCEPT ![x][turn] = port] \in [Backends -> Routing!Routing]
      BY <1>0, <1>2 DEF RoutingTyped, Routing!Routing
    <3>2. slices \in [Backends -> Routing!Routing]
      BY <1>0 DEF RoutingTyped
    <3> QED
      BY <2>2, <2>3, <3>1, <3>2
  <2>5. RoutingTyped'
    BY <1>0, <2>3, <2>4 DEF RoutingTyped
  <2>6. doing'[x] = "apply" /\ ~Ends(x) /\ routed[x].phase # "awake" /\ ~routed[x].gone /\ ~Drained(routed[x])
    BY <1>0, <2>1, <2>3 DEF BehindAt, RoutesAlive
  <2>7. RoutesAlive(x)' /\ Unroutes(x)' /\ DrainsBare(x)' /\ SlicesKnown(x)' /\ RestsBare(x)'
    BY <1>0, <2>6 DEF RoutesAlive, Unroutes, DrainsBare, SlicesKnown, RestsBare, Ends, Drained
  <2> QED
    BY <1>4, <2>5, <2>7 DEF BehindNow, BehindAt
<1>6. CASE turn \notin keys[x] /\ Routing!DeleteSlice(x, turn)
  <2>1. /\ slices' = [slices EXCEPT ![x][turn] = NoPort] /\ doing' = doing /\ result' = result
        /\ todo' = [todo EXCEPT ![x] = @ \ {turn}]
    BY <1>6 DEF Routing!DeleteSlice, Routing!SliceWritten
  <2>2. slices' \in [Backends -> Routing!Routing]
    BY <1>0, <1>2, <2>1 DEF RoutingTyped, Routing!Routing
  <2>3. RoutingTyped'
    BY <1>0, <2>1, <2>2 DEF RoutingTyped
  <2>4. /\ todo'[x] = todo[x] \ {turn} /\ slices'[x][turn] = NoPort
        /\ \A key \in Services \ {turn} : slices'[x][key] = slices[x][key]
    BY <1>0, <1>2, <2>1 DEF RoutingTyped, Routing!Routing
  <2>5. RoutesAlive(x)'
    BY <1>0, <2>1 DEF BehindAt, RoutesAlive, Ends, Drained
  <2>6. Unroutes(x)'
    BY <1>0, <2>1, <2>4 DEF BehindAt, Unroutes, Ends
  <2>7. DrainsBare(x)' /\ SlicesKnown(x)' /\ RestsBare(x)'
    BY <1>0, <2>1, <2>4 DEF BehindAt, DrainsBare, SlicesKnown, RestsBare, Bare, Drained
  <2> QED
    BY <1>4, <2>3, <2>5, <2>6, <2>7 DEF BehindNow, BehindAt
<1>7. CASE turn \notin keys[x] /\ Routing!DeletesFail(x)
  <2>1. /\ slices' = slices /\ doing' = [doing EXCEPT ![x] = "write"] /\ result' = [result EXCEPT ![x] = "failed"]
        /\ todo' = [todo EXCEPT ![x] = {}]
    BY <1>7 DEF Routing!DeletesFail, Routing!Goto, Routing!api
  <2>2. RoutingTyped'
    BY <1>0, <2>1 DEF RoutingTyped, Routing!Steps, Routing!Results
  <2>3. doing'[x] = "write" /\ result'[x] = "failed"
    BY <1>0, <2>1 DEF RoutingTyped
  <2>4. RoutesAlive(x)' /\ Unroutes(x)'
    BY <2>3 DEF RoutesAlive, Unroutes
  <2>5. DrainsBare(x)' /\ SlicesKnown(x)' /\ RestsBare(x)'
    BY <1>0, <2>1, <2>3 DEF BehindAt, DrainsBare, SlicesKnown, RestsBare, Bare, Drained
  <2> QED
    BY <1>4, <2>2, <2>4, <2>5 DEF BehindNow, BehindAt
<1> QED
  BY <1>1, <1>5, <1>6, <1>7

\* When a reconcile of a workload that's awake, or going, has written its status, and none of its deletions failed.
LEMMA BareByThen ==
  ASSUME BehindInv, NEW x \in Backends, Routing!WriteDue(x), Ends(x), workFresh[x], result[x] # "failed" PROVE Bare(x)
<1>1. BehindAt(x) /\ doing[x] = "write"
  BY DEF BehindInv, BehindAt, RoutesAlive, Routing!WriteDue
<1> QED
  BY <1>1 DEF BehindAt, Unroutes, Bare

\* What follows, when the reconcile has ended, from what it wrote.
LEMMA BehindEnd ==
  ASSUME BehindInv, NEW x \in Backends, NEW after \in Routing!Unqueued..PortDrain, Routing!End(x, after),
         NEW m \in Routing!Status, routed' = [routed EXCEPT ![x] = m],
         NEW f \in BOOLEAN, inCacheFresh' = [inCacheFresh EXCEPT ![x] = f],
         UNCHANGED <<slices, inCache, inCacheSlices, plan>>,
         f => inCache[x] = m,
         m.gone => m.deleting /\ Bare(x), Drained(m) => Bare(x),
         m.gone \/ Drained(m) => inCache[x].deleting,
         m.phase = "awake" /\ m.settling = 0 => routed[x].phase = "awake" /\ routed[x].settling = 0,
         m.phase = "awake" /\ f /\ after = Routing!Unqueued => Bare(x)
  PROVE  BehindNow(x)
<1>0. RoutingTyped /\ BehindAt(x)
  BY DEF BehindInv
<1>1. RoutingTyped'
  BY <1>0, RoutingEnd DEF RoutingTyped
<1>2. routed'[x] = m /\ inCacheFresh'[x] = f /\ doing'[x] = "idle" /\ work'[x] = Routing!New /\ wait'[x] \in {0, after}
  BY <1>0, RoutingEnd DEF RoutingTyped
<1>3. CopyFits(x)' /\ RoutesAlive(x)' /\ Unroutes(x)'
  BY <1>2, NewRouting DEF CopyFits, RoutesAlive, Unroutes
<1>4. DrainsBare(x)' /\ SlicesKnown(x)'
  BY <1>0, <1>2 DEF BehindAt, DrainsBare, SlicesKnown, Bare
<1>5. RestsBare(x)'
  BY <1>2 DEF RestsBare, Bare, Routing!Unqueued
<1> QED
  BY <1>1, <1>3, <1>4, <1>5 DEF BehindNow, BehindAt

LEMMA BehindWrites ==
  ASSUME BehindInv, NEW x \in Backends, Routing!WriteStatus(x) \/ Routing!WriteNothing(x) \/ Routing!LetGo(x)
  PROVE  BehindNow(x)
<1>0. /\ BehindAt(x) /\ RoutingTyped /\ routed[x] \in Routing!Status /\ work[x] \in Routing!Status
      /\ inCacheFresh[x] \in BOOLEAN /\ Routing!WriteDue(x) /\ doing[x] # "idle"
      /\ Routing!Unqueued \in Routing!Unqueued..PortDrain /\ 0 \in Routing!Unqueued..PortDrain /\ 0 # Routing!Unqueued
  <2>1. Routing!WriteDue(x)
    BY DEF Routing!WriteStatus, Routing!WriteNothing, Routing!LetGo
  <2>2. BehindAt(x) /\ RoutingTyped
    BY DEF BehindInv
  <2>3. routed[x] \in Routing!Status /\ work[x] \in Routing!Status /\ inCacheFresh[x] \in BOOLEAN
    BY <2>2 DEF RoutingTyped
  <2>4. Routing!Unqueued \in Routing!Unqueued..PortDrain /\ 0 \in Routing!Unqueued..PortDrain /\ 0 # Routing!Unqueued
    BY RoutingDurations DEF Routing!Unqueued
  <2> QED
    BY <2>1, <2>2, <2>3, <2>4 DEF Routing!WriteDue
<1>1. workFresh[x] =>
        /\ inCacheFresh[x] /\ inCache[x] = routed[x] /\ ~work[x].gone /\ ~routed[x].gone /\ work[x].phase = routed[x].phase
        /\ work[x].settling = routed[x].settling /\ work[x].deleting = routed[x].deleting
  BY <1>0 DEF BehindAt, CopyFits
<1>2. CASE Routing!WriteStatus(x)
  <2>1. PICK phase \in Routing!Following[work[x].phase] :
          Routing!Written(x, IF phase = work[x].phase THEN work[x]
                             ELSE [work[x] EXCEPT !.phase = phase, !.settling = SliceSettle])
    BY <1>2 DEF Routing!WriteStatus
  <2> DEFINE m == IF phase = work[x].phase THEN work[x]
                  ELSE [work[x] EXCEPT !.phase = phase, !.settling = SliceSettle]
             f == m = routed[x]
  <2>2. ~work[x].deleting /\ workFresh[x] /\ Routing!End(x, Routing!After(x))
    BY <1>2 DEF Routing!WriteStatus
  <2>3. phase \in Routing!Phases
    <3>1. work[x].phase \in Routing!Phases
      BY <1>0 DEF Routing!Status
    <3> QED
      BY <3>1 DEF Routing!Following, Routing!Phases
  <2>4. SliceSettle \in 0..SliceSettle /\ SliceSettle # 0
    BY RoutingDurations
  <2>5. /\ m \in Routing!Status /\ m.phase = phase /\ ~m.deleting /\ ~m.gone
        /\ phase # work[x].phase => m.settling # 0
        /\ phase = work[x].phase => m.settling = work[x].settling
    BY <1>0, <1>1, <2>2, <2>3, <2>4 DEF Routing!Status
  <2>6. /\ routed' = [routed EXCEPT ![x] = m] /\ inCacheFresh' = [inCacheFresh EXCEPT ![x] = f]
        /\ UNCHANGED <<slices, inCache, inCacheSlices, plan>>
    BY <2>1 DEF Routing!Written, Routing!world
  <2>7. f \in BOOLEAN /\ (f => inCache[x] = m)
    BY <1>1, <2>2
  <2> HIDE DEF m
  <2>8. Routing!After(x) \in Routing!Unqueued..PortDrain
    BY <1>0 DEF Routing!After
  <2>9. m.phase = "awake" /\ f /\ Routing!After(x) = Routing!Unqueued => Bare(x)
    <3> SUFFICES ASSUME m.phase = "awake", f, Routing!After(x) = Routing!Unqueued PROVE Bare(x)
      OBVIOUS
    <3>1. Ends(x)
      BY <1>1, <2>2 DEF Ends
    <3>2. result[x] = "ok"
      BY <1>0 DEF Routing!After
    <3> QED
      BY <1>0, <2>2, <3>1, <3>2, BareByThen
  <2>10. m.phase = "awake" /\ m.settling = 0 => routed[x].phase = "awake" /\ routed[x].settling = 0
    BY <1>1, <2>2, <2>5
  <2> HIDE DEF f
  <2> QED
    BY <2>2, <2>5, <2>6, <2>7, <2>8, <2>9, <2>10, BehindEnd DEF Drained
<1>3. CASE Routing!WriteNothing(x)
  <2>1. Routing!End(x, 0) /\ UNCHANGED <<routed, slices, inCache, inCacheFresh, inCacheSlices, plan>>
    BY <1>3 DEF Routing!WriteNothing, Routing!NoWrites, Routing!api, Routing!caches, Routing!world
  <2>2. routed = [routed EXCEPT ![x] = routed[x]] /\ inCacheFresh = [inCacheFresh EXCEPT ![x] = inCacheFresh[x]]
    BY <1>0 DEF RoutingTyped
  <2>3. /\ inCacheFresh[x] => inCache[x] = routed[x]
        /\ routed[x].gone => routed[x].deleting /\ Bare(x)
        /\ Drained(routed[x]) => Bare(x)
        /\ routed[x].gone \/ Drained(routed[x]) => inCache[x].deleting
    BY <1>0 DEF BehindAt, CopyFits, DrainsBare, RestsBare
  <2> QED
    BY <1>0, <2>1, <2>2, <2>3, BehindEnd
<1>4. CASE Routing!LetGo(x)
  <2>1. work[x].deleting /\ workFresh[x] /\ Bare(x)
    BY <1>0, <1>4, BareByThen DEF Routing!LetGo, Ends
  <2>2. inCache[x].deleting
    BY <1>1, <2>1
  <2>3. PICK m \in Routing!Status, after \in Routing!Unqueued..PortDrain :
          /\ Routing!Written(x, m) /\ Routing!End(x, after)
          /\ m.phase = work[x].phase /\ m.settling = work[x].settling /\ m.deleting
    <3>1. CASE work[x].drains # Routing!NoDrains
      <4>1. PICK p \in Ports : Routing!End(x, work[x].drains[p])
        BY <1>4, <3>1 DEF Routing!LetGo
      <4>2. Routing!Written(x, work[x])
        BY <1>4, <3>1 DEF Routing!LetGo
      <4>3. work[x].drains[p] \in Routing!Unqueued..PortDrain
        <5>1. work[x].drains[p] \in 0..PortDrain
          BY <1>0 DEF Routing!Status
        <5> QED
          BY <5>1, RoutingDurations DEF Routing!Unqueued
      <4> QED
        BY <1>0, <2>1, <4>1, <4>2, <4>3
    <3>2. CASE work[x].drains = Routing!NoDrains
      <4>1. Routing!Written(x, [work[x] EXCEPT !.gone = TRUE]) /\ Routing!End(x, Routing!Unqueued)
        BY <1>4, <3>2 DEF Routing!LetGo
      <4>2. /\ [work[x] EXCEPT !.gone = TRUE] \in Routing!Status
            /\ [work[x] EXCEPT !.gone = TRUE].phase = work[x].phase /\ [work[x] EXCEPT !.gone = TRUE].deleting
            /\ [work[x] EXCEPT !.gone = TRUE].settling = work[x].settling
        BY <1>0, <2>1 DEF Routing!Status
      <4> QED
        BY <1>0, <4>1, <4>2
    <3> QED
      BY <3>1, <3>2
  <2> DEFINE f == m = routed[x]
  <2>4. /\ routed' = [routed EXCEPT ![x] = m] /\ inCacheFresh' = [inCacheFresh EXCEPT ![x] = f]
        /\ UNCHANGED <<slices, inCache, inCacheSlices, plan>>
    BY <2>3 DEF Routing!Written, Routing!world
  <2>5. f \in BOOLEAN /\ (f => inCache[x] = m)
    BY <1>1, <2>1
  <2>6. m.phase = "awake" /\ m.settling = 0 => routed[x].phase = "awake" /\ routed[x].settling = 0
    BY <1>1, <2>1, <2>3
  <2> HIDE DEF f
  <2> QED
    BY <2>1, <2>2, <2>3, <2>4, <2>5, <2>6, BehindEnd
<1> QED
  BY <1>2, <1>3, <1>4

LEMMA BehindReconcile ==
  ASSUME BehindInv, NEW x \in Backends, Routing!Reconcile(x) PROVE BehindInv'
<1>1. BehindNow(x)
  BY BehindStart, BehindThinks, BehindSlice, BehindWrites DEF Routing!Reconcile
<1>2. ASSUME NEW y \in Backends PROVE BehindAt(y)'
  <2>1. CASE y = x
    BY <1>1, <2>1 DEF BehindNow
  <2>2. CASE y # x
    BY <2>2, ReconcileOthers, BehindStays DEF BehindInv
  <2> QED
    BY <2>1, <2>2
<1> QED
  BY <1>1, <1>2 DEF BehindNow, BehindInv

\* The caches, and what others do to a workload.
LEMMA BehindOthers ==
  ASSUME BehindInv, NEW x \in Backends,
         Routing!Deliver(x) \/ Routing!DeliverSlices(x) \/ Routing!Touch(x) \/ Routing!Delete(x)
  PROVE  BehindInv'
<1>0. RoutingTyped /\ BehindAt(x) /\ (\A y \in Backends : BehindAt(y)) /\ routed[x] \in Routing!Status
  BY DEF BehindInv, RoutingTyped
<1>1. ASSUME BehindNow(x), \A y \in Backends \ {x} : AsItWas(y) /\ wait'[y] = wait[y] PROVE BehindInv'
  BY <1>0, <1>1, BehindStays DEF BehindNow, BehindInv
<1>2. CASE Routing!Deliver(x)
  <2>1. /\ inCache' = [inCache EXCEPT ![x] = routed[x]] /\ inCacheFresh' = [inCacheFresh EXCEPT ![x] = TRUE]
        /\ wait' = [wait EXCEPT ![x] = IF routed[x].gone THEN Routing!Unqueued ELSE 0]
        /\ UNCHANGED <<routed, slices, inCacheSlices, plan, doing, work, workFresh, keys, cur, todo, result>>
    BY <1>2 DEF Routing!Deliver, Routing!api, Routing!world, Routing!local
  <2>2. RoutingTyped'
    <3>1. Routing!Unqueued \in Routing!Unqueued..PortDrain /\ 0 \in Routing!Unqueued..PortDrain
      BY RoutingDurations DEF Routing!Unqueued
    <3> QED
      BY <1>0, <2>1, <3>1 DEF RoutingTyped
  <2>3. inCache'[x] = routed[x] /\ inCacheFresh'[x] /\ (routed[x].gone \/ wait'[x] # Routing!Unqueued)
    BY <1>0, <2>1 DEF RoutingTyped, Routing!Unqueued
  <2>4. CopyFits(x)' /\ RoutesAlive(x)' /\ Unroutes(x)'
    BY <1>0, <2>1, <2>3 DEF BehindAt, CopyFits, RoutesAlive, Unroutes, Ends, Drained
  <2>5. DrainsBare(x)' /\ SlicesKnown(x)' /\ RestsBare(x)'
    BY <1>0, <2>1, <2>3 DEF BehindAt, DrainsBare, SlicesKnown, RestsBare, Bare, Drained
  <2>6. \A y \in Backends \ {x} : AsItWas(y) /\ wait'[y] = wait[y]
    BY <1>0, <2>1 DEF RoutingTyped, AsItWas
  <2> QED
    BY <1>1, <2>2, <2>4, <2>5, <2>6 DEF BehindNow, BehindAt
<1>3. CASE Routing!DeliverSlices(x)
  <2>1. /\ inCacheSlices' = [inCacheSlices EXCEPT ![x] = slices[x]]
        /\ UNCHANGED <<routed, slices, inCache, inCacheFresh, plan, wait, doing, work, workFresh, keys, cur, todo, result>>
    BY <1>3 DEF Routing!DeliverSlices, Routing!api, Routing!world, Routing!local
  <2>2. RoutingTyped' /\ inCacheSlices'[x] = slices[x]
    BY <1>0, <2>1 DEF RoutingTyped
  <2>3. CopyFits(x)' /\ RoutesAlive(x)' /\ Unroutes(x)' /\ DrainsBare(x)' /\ RestsBare(x)'
    BY <1>0, <2>1 DEF BehindAt, CopyFits, RoutesAlive, Unroutes, DrainsBare, RestsBare, Bare, Ends, Drained
  <2>4. SlicesKnown(x)'
    BY <2>1, <2>2 DEF SlicesKnown
  <2>5. \A y \in Backends \ {x} : AsItWas(y) /\ wait'[y] = wait[y]
    BY <1>0, <2>1 DEF RoutingTyped, AsItWas
  <2> QED
    BY <1>1, <2>2, <2>3, <2>4, <2>5 DEF BehindNow, BehindAt
<1>4. CASE Routing!Touch(x) \/ Routing!Delete(x)
  <2>1. PICK m \in Routing!Status :
          /\ Routing!Rewritten(x, m) /\ m.phase = routed[x].phase /\ m.settling = routed[x].settling
          /\ ~m.gone /\ (Drained(m) => m = routed[x])
    <3>1. CASE Routing!Touch(x)
      BY <1>0, <3>1 DEF Routing!Touch
    <3>2. CASE Routing!Delete(x)
      <4> DEFINE m == [routed[x] EXCEPT !.deleting = TRUE, !.drained = FALSE]
      <4>1. Routing!Rewritten(x, m) /\ ~routed[x].gone
        BY <3>2 DEF Routing!Delete
      <4>2. m \in Routing!Status /\ m.phase = routed[x].phase /\ m.settling = routed[x].settling /\ ~m.gone /\ ~Drained(m)
        BY <1>0, <4>1 DEF Routing!Status, Drained
      <4> HIDE DEF m
      <4> QED
        BY <4>1, <4>2
    <3> QED
      BY <1>4, <3>1, <3>2
  <2>2. /\ routed' = [routed EXCEPT ![x] = m] /\ inCacheFresh' = [inCacheFresh EXCEPT ![x] = FALSE]
        /\ workFresh' = [workFresh EXCEPT ![x] = FALSE]
        /\ UNCHANGED <<slices, inCache, inCacheSlices, plan, wait, doing, work, keys, cur, todo, result>>
    BY <2>1 DEF Routing!Rewritten
  <2>3. RoutingTyped' /\ routed'[x] = m /\ ~inCacheFresh'[x] /\ ~workFresh'[x]
    BY <1>0, <2>2 DEF RoutingTyped
  <2>4. CopyFits(x)' /\ RoutesAlive(x)' /\ Unroutes(x)'
    BY <1>0, <2>1, <2>2, <2>3 DEF BehindAt, CopyFits, RoutesAlive, Unroutes, Ends
  <2>5. DrainsBare(x)' /\ SlicesKnown(x)' /\ RestsBare(x)'
    BY <1>0, <2>1, <2>2, <2>3 DEF BehindAt, DrainsBare, SlicesKnown, RestsBare, Bare
  <2>6. \A y \in Backends \ {x} : AsItWas(y) /\ wait'[y] = wait[y]
    BY <1>0, <2>2 DEF RoutingTyped, AsItWas
  <2> QED
    BY <1>1, <2>3, <2>4, <2>5, <2>6 DEF BehindNow, BehindAt
<1> QED
  BY <1>2, <1>3, <1>4

\* What moves the doorman and what's planned, and queues workloads.
LEMMA BehindQueued ==
  ASSUME BehindInv,
         \/ \E x \in Backends : Routing!Replan(x)
         \/ Routing!DoormanMoves \/ Routing!Sync \/ Routing!DoormanRestarts \/ UNCHANGED Routing!vars
  PROVE  BehindInv'
<1>0. RoutingTyped
  BY DEF BehindInv
<1>1. /\ UNCHANGED <<routed, slices, inCache, inCacheFresh, inCacheSlices, doing, work, workFresh, keys, cur, todo, result>>
      /\ wait' = wait \/ \E phases : Routing!Queued(phases)
      /\ plan' = plan \/ \E x \in Backends, planned \in SUBSET Services : plan' = [plan EXCEPT ![x] = planned]
  BY DEF Routing!Replan, Routing!DoormanMoves, Routing!Sync, Routing!DoormanRestarts, Routing!vars, Routing!api,
         Routing!caches, Routing!world, Routing!local
<1>2. /\ wait' \in [Backends -> Routing!Unqueued..PortDrain]
      /\ \A x \in Backends : wait'[x] = wait[x] \/ wait'[x] # Routing!Unqueued
  <2>1. 0 \in Routing!Unqueued..PortDrain /\ 0 # Routing!Unqueued
    BY RoutingDurations DEF Routing!Unqueued
  <2> QED
    BY <1>0, <1>1, <2>1 DEF RoutingTyped, Routing!Queued
<1>3. plan' \in [Backends -> SUBSET Services]
  BY <1>0, <1>1 DEF RoutingTyped
<1>4. RoutingTyped'
  BY <1>0, <1>1, <1>2, <1>3 DEF RoutingTyped
<1>5. ASSUME NEW x \in Backends PROVE BehindAt(x)'
  <2>1. AsItWas(x)
    BY <1>1 DEF AsItWas
  <2> QED
    BY <1>2, <2>1, BehindStays DEF BehindInv
<1> QED
  BY <1>4, <1>5 DEF BehindInv

LEMMA BehindCrash == ASSUME BehindInv, Routing!Crash PROVE BehindInv'
<1>0. RoutingTyped
  BY DEF BehindInv
<1>1. /\ UNCHANGED <<routed, slices, plan>> /\ inCache' = routed /\ inCacheSlices' = slices
      /\ inCacheFresh' = [x \in Backends |-> TRUE]
      /\ wait' = [x \in Backends |-> IF routed[x].gone THEN Routing!Unqueued ELSE 0]
      /\ doing' = [x \in Backends |-> "idle"] /\ work' = [x \in Backends |-> Routing!New]
      /\ workFresh' = [x \in Backends |-> TRUE] /\ keys' = [x \in Backends |-> {}]
      /\ cur' = [x \in Backends |-> Routing!Unrouted] /\ todo' = [x \in Backends |-> {}]
      /\ result' = [x \in Backends |-> "ok"]
  BY DEF Routing!Crash, Routing!All, Routing!api
<1>2. RoutingTyped'
  <2>1. Routing!Unqueued \in Routing!Unqueued..PortDrain /\ 0 \in Routing!Unqueued..PortDrain
    BY RoutingDurations DEF Routing!Unqueued
  <2> QED
    BY <1>0, <1>1, <2>1, NewRouting DEF RoutingTyped, Routing!Steps, Routing!Results
<1>3. ASSUME NEW x \in Backends PROVE BehindAt(x)'
  <2>1. /\ BehindAt(x) /\ inCache'[x] = routed[x] /\ doing'[x] = "idle" /\ work'[x] = Routing!New
        /\ routed[x].gone \/ wait'[x] # Routing!Unqueued
    BY <1>1 DEF BehindInv, Routing!Unqueued
  <2>2. CopyFits(x)' /\ RoutesAlive(x)' /\ Unroutes(x)'
    BY <1>1, <2>1, NewRouting DEF BehindAt, CopyFits, RoutesAlive, Unroutes, Drained
  <2>3. DrainsBare(x)' /\ SlicesKnown(x)' /\ RestsBare(x)'
    BY <1>1, <2>1 DEF BehindAt, DrainsBare, SlicesKnown, RestsBare, Bare
  <2> QED
    BY <2>2, <2>3 DEF BehindAt
<1> QED
  BY <1>2, <1>3 DEF BehindInv

LEMMA BehindTick == ASSUME BehindInv, Routing!Tick PROVE BehindInv'
<1>0. RoutingTyped
  BY DEF BehindInv
<1>1. /\ \A x \in Backends : inCacheFresh[x] /\ inCacheSlices[x] = slices[x]
      /\ routed' = [x \in Backends |-> Routing!Older(routed[x])] /\ inCache' = routed'
      /\ work' = [x \in Backends |-> Routing!Older(work[x])] /\ wait' = [x \in Backends |-> Routing!Less(wait[x])]
      /\ UNCHANGED <<slices, inCacheFresh, inCacheSlices, plan, doing, workFresh, keys, cur, todo, result>>
  BY DEF Routing!Tick
<1>2. ASSUME NEW x \in Backends
      PROVE  /\ routed[x] \in Routing!Status /\ work[x] \in Routing!Status
             /\ wait[x] \in Routing!Unqueued..PortDrain /\ Routing!Less(wait[x]) \in Routing!Unqueued..PortDrain
             /\ Routing!Less(wait[x]) = Routing!Unqueued => wait[x] = Routing!Unqueued
  <2>1. routed[x] \in Routing!Status /\ work[x] \in Routing!Status /\ wait[x] \in Routing!Unqueued..PortDrain
    BY <1>0 DEF RoutingTyped
  <2> QED
    BY <2>1, RoutingDurations DEF Routing!Less, Routing!Unqueued
<1>3. RoutingTyped'
  BY <1>0, <1>1, <1>2, OlderTyped DEF RoutingTyped
<1>4. ASSUME NEW x \in Backends PROVE BehindAt(x)'
  <2>1. /\ BehindAt(x) /\ inCacheFresh[x] /\ inCacheSlices[x] = slices[x]
        /\ routed'[x] = Routing!Older(routed[x]) /\ inCache'[x] = Routing!Older(routed[x])
        /\ work'[x] = Routing!Older(work[x]) /\ wait'[x] = Routing!Less(wait[x])
    BY <1>1 DEF BehindInv
  <2>2. /\ routed'[x].phase = routed[x].phase /\ routed'[x].deleting = routed[x].deleting
        /\ routed'[x].gone = routed[x].gone /\ routed'[x].drained = routed[x].drained
        /\ routed'[x].settling = Routing!Less(routed[x].settling)
        /\ work'[x].phase = work[x].phase /\ work'[x].deleting = work[x].deleting /\ work'[x].gone = work[x].gone
        /\ work'[x].settling = Routing!Less(work[x].settling)
    BY <1>2, <2>1, OlderTyped
  <2>3. CopyFits(x)'
    <3>1. routed[x].gone \/ Drained(routed[x]) => routed[x].deleting
      BY <2>1 DEF BehindAt, CopyFits, Drained
    <3> QED
      BY <1>1, <2>1, <2>2, <3>1 DEF BehindAt, CopyFits, Drained
  <2>4. RoutesAlive(x)' /\ Unroutes(x)'
    BY <1>1, <2>1, <2>2 DEF BehindAt, RoutesAlive, Unroutes, Ends, Drained
  <2>5. DrainsBare(x)' /\ SlicesKnown(x)' /\ RestsBare(x)'
    BY <1>1, <1>2, <2>1, <2>2 DEF BehindAt, DrainsBare, SlicesKnown, RestsBare, Bare, Drained
  <2> QED
    BY <2>3, <2>4, <2>5 DEF BehindAt
<1> QED
  BY <1>3, <1>4 DEF BehindInv

LEMMA BehindKept == ASSUME BehindInv, [Routing!Next]_(Routing!vars) PROVE BehindInv'
BY BehindReconcile, BehindOthers, BehindQueued, BehindCrash, BehindTick DEF Routing!Next, Routing!Environment

LEMMA NothingBehindNow == BehindInv => Routing!NothingLeftBehind
<1> SUFFICES ASSUME BehindInv, NEW x \in Backends,
                    \/ routed[x].gone
                    \/ /\ routed[x].phase = "awake" /\ inCacheFresh[x]
                       /\ doing[x] = "idle" /\ wait[x] = Routing!Unqueued
             PROVE  slices[x] = Routing!Unrouted
  BY DEF Routing!NothingLeftBehind
<1> QED
  BY BareNow DEF BehindInv, BehindAt, RestsBare

\* A workload that's awake and at rest, or gone, has no slice left that would send its Service to the doorman: for
\* any workloads, ports and durations, whichever caches lag, writes fail and leaders die, however long a reconcile
\* takes (removeDoorman, mayMissSlices, reconcileDelete).
THEOREM NothingStaysBehind == Routing!Spec => []Routing!NothingLeftBehind
<1>1. Routing!Init => BehindInv
  BY BehindFirst
<1>2. BehindInv /\ [Routing!Next]_(Routing!vars) => BehindInv'
  BY BehindKept
<1>3. BehindInv => Routing!NothingLeftBehind
  BY NothingBehindNow
<1> QED
  BY <1>1, <1>2, <1>3, PTL DEF Routing!Spec

-----------------------------------------------------------------------------
(* The parts beside each other, as the runs have them. *)

\* Whichever of the parts moves, the others' state is as it was.
LEMMA PartsMove ==
  ASSUME [PartsNext]_<<part, vars, keyVars, awayVars, placeVars, portVars>>
  PROVE  /\ part' = part
         /\ part = "places" => [Places!Next]_(Places!vars)
         /\ part = "away" => [Away!Next]_(Away!vars)
         /\ part = "key" => [Key!Next]_(Key!vars)
         /\ part = "ports" => [Routing!Next]_(Routing!vars)
<1>1. CASE PartsNext
  BY <1>1 DEF PartsNext
<1>2. CASE UNCHANGED <<part, vars, keyVars, awayVars, placeVars, portVars>>
  <2>1. UNCHANGED Places!vars
    BY <1>2 DEF placeVars, Places!vars, Places!world, Places!place, Places!local
  <2>2. UNCHANGED Away!vars
    BY <1>2 DEF awayVars, Away!vars, Away!cluster, Away!replica
  <2>3. UNCHANGED Key!vars
    BY <1>2 DEF keyVars, Key!vars, Key!keys
  <2>4. UNCHANGED Routing!vars
    BY <1>2 DEF portVars, Routing!vars, Routing!api, Routing!caches, Routing!world, Routing!local
  <2> QED
    BY <1>2, <2>1, <2>2, <2>3, <2>4
<1> QED
  BY <1>1, <1>2

\* PlacesReturned, of the part in which connections move.
THEOREM PlacesReturnedBeside == PartsSpec => []PlacesReturned
<1> DEFINE Inv == part = "places" => PlaceInv
<1>1. PartsInit => Inv
  BY PlacesFirst, PlacesAssumption DEF PartsInit
<1>2. Inv /\ [PartsNext]_<<part, vars, keyVars, awayVars, placeVars, portVars>> => Inv'
  BY PartsMove, PlacesKept, PlacesAssumption
<1>3. Inv => PlacesReturned
  BY DEF PlaceInv, PlacesReturned
<1> QED
  BY <1>1, <1>2, <1>3, PTL DEF PartsSpec

\* EachCountedOnce, of the part in which requests are turned away.
THEOREM CountedOnceBeside == PartsSpec => []EachCountedOnce
<1> DEFINE Inv == part = "away" => AwayInv
<1>1. PartsInit => Inv
  BY AwayFirst, AwayAssumption DEF PartsInit
<1>2. Inv /\ [PartsNext]_<<part, vars, keyVars, awayVars, placeVars, portVars>> => Inv'
  BY PartsMove, AwayKept, AwayAssumption
<1>3. Inv => EachCountedOnce
  BY CountedNow, AwayAssumption DEF EachCountedOnce
<1> QED
  BY <1>1, <1>2, <1>3, PTL DEF PartsSpec

\* ClicksWork, of the part in which the key changes.
THEOREM ButtonsWorkBeside == ASSUME ButtonOutlasts PROVE PartsSpec => []ClicksWork
<1> DEFINE Inv == part = "key" => KeyInv
<1>1. PartsInit => Inv
  BY KeyFirst, KeyAssumption DEF PartsInit
<1>2. Inv /\ [PartsNext]_<<part, vars, keyVars, awayVars, placeVars, portVars>> => Inv'
  BY PartsMove, KeyKept, KeyStutters, KeyAssumption
<1>3. Inv => ClicksWork
  BY ClicksWorkNow, KeyAssumption DEF ClicksWork
<1> QED
  BY <1>1, <1>2, <1>3, PTL DEF PartsSpec

\* NothingLeftBehind, of the part in which ports and slices are given and taken back.
THEOREM NothingLeftBeside == PartsSpec => []NothingLeftBehind
<1> DEFINE Inv == part = "ports" => BehindInv
<1>1. PartsInit => Inv
  BY BehindFirst DEF PartsInit
<1>2. Inv /\ [PartsNext]_<<part, vars, keyVars, awayVars, placeVars, portVars>> => Inv'
  BY PartsMove, BehindKept
<1>3. Inv => NothingLeftBehind
  BY NothingBehindNow DEF NothingLeftBehind
<1> QED
  BY <1>1, <1>2, <1>3, PTL DEF PartsSpec
================================================================================
