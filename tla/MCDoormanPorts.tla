---------------------------- MODULE MCDoormanPorts ----------------------------
(* Constants for TLC. *)
EXTENDS DoormanPorts, TLC

CONSTANTS a, b, k, p1, p2

TwoWorkloads == {a, b}
OneKey == {k}
TwoPorts == {p1, p2}

Alike == Permutations({a, b}) \cup Permutations({p1, p2})
==============================================================================
