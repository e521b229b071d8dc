---------------------------- MODULE PauseContract ----------------------------
(***************************************************************************)
(* What pausing a workload promises, apart from how.  Napwake turns a      *)
(* target off only once it owes it: once a record says what to bring it    *)
(* back to.  The debt lasts, whatever fails, until the target isn't off by *)
(* Napwake's doing.                                                        *)
(***************************************************************************)

VARIABLES
  power, \* "on", "off" by Napwake's doing, or "out": off, or gone, by another's
  owed   \* whether a record says what to bring the target back to

vars == <<power, owed>>

TypeOK == power \in {"on", "off", "out"} /\ owed \in BOOLEAN

Init == power = "on" /\ owed = FALSE

\* A record is written, of a target not off by Napwake's doing.
Owe == ~owed /\ power # "off" /\ owed' = TRUE /\ UNCHANGED power

TurnOff == owed /\ power = "on" /\ power' = "off" /\ UNCHANGED owed

TurnOn == owed /\ power # "on" /\ power' = "on" /\ UNCHANGED owed

Settle == owed /\ power # "off" /\ owed' = FALSE /\ UNCHANGED power

\* Others turn the target on or off, and may delete it with what it carries.
Meddle == power' \in {"on", "out"} /\ (owed' = owed \/ (power' = "out" /\ ~owed'))

Next == Owe \/ TurnOff \/ TurnOn \/ Settle \/ Meddle

Spec == Init /\ [][Next]_vars
=============================================================================
