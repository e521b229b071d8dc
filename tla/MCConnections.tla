----------------------------- MODULE MCConnections -----------------------------
(***************************************************************************)
(* The connections of one replica of the doorman, for TLC, in two          *)
(* instances: two of them, which share the endpoints they wait for and the *)
(* one place to be passed on by; and one, with time and buffers as well.   *)
(***************************************************************************)
EXTENDS TLC

CONSTANTS
  a, b, s1, w1,
  MaxHeld, MaxHeldPerWorkload, MaxHeldPerSource, MaxHeldPerSourceWorkload,
  MaxProxied, MaxProxiedPerSource, SourceIdle, Chances

VARIABLES
  part,
  hour, up, stored, event, routes, set, listed, known, step, drained, got, open, failing, passedAt,
  held, byWorkload, proxied, buffered, source, counted, woke, chances

Two == INSTANCE HeldConnections WITH
  Conns <- {a, b}, SourceOf <- a :> s1 @@ b :> s1, WorkloadOf <- a :> w1 @@ b :> w1,
  Sources <- {s1}, Workloads <- {w1}, MaxTime <- 0, MaxBuffered <- 0, MaxBufferedPerConn <- 0
One == INSTANCE HeldConnections WITH
  Conns <- {a}, SourceOf <- a :> s1, WorkloadOf <- a :> w1,
  Sources <- {s1}, Workloads <- {w1}, MaxTime <- 1, MaxBuffered <- 1, MaxBufferedPerConn <- 1
ASSUME TwoAssumption == Two!Assumptions
ASSUME OneAssumption == One!Assumptions

vars == <<part, hour, up, stored, event, routes, set, listed, known, step, drained, got, open, failing,
          passedAt, held, byWorkload, proxied, buffered, source, counted, woke, chances>>

In(p) == part = p /\ UNCHANGED part

Init ==
  \/ part = "two" /\ Two!Init
  \/ part = "one" /\ One!Init

Next ==
  \/ In("two") /\ Two!Next
  \/ In("one") /\ One!Next

\* The fairness of HeldConnections, in the behaviours of each.
FairSpec ==
  /\ Init /\ [][Next]_vars
  /\ WF_vars((In("two") /\ Two!Handles(a)) \/ (In("one") /\ One!Handles(a)))
  /\ WF_vars(In("two") /\ Two!Handles(b))
  /\ WF_vars((In("two") /\ Two!Stores(w1)) \/ (In("one") /\ One!Stores(w1)))
  /\ WF_vars((In("two") /\ Two!Recheck(w1)) \/ (In("one") /\ One!Recheck(w1)))
  /\ WF_vars((In("two") /\ Two!Poll) \/ (In("one") /\ One!Poll))

Left(c) == IF part = "two" THEN Two!Left(c) ELSE c = a /\ One!Left(c)

\* What others do is bounded, so that in the end nobody waits for what has come, which
\* implies HeldConnections' property of each.
NoneLeftWaiting == []<>(\A c \in {a, b} : ~Left(c))
================================================================================
