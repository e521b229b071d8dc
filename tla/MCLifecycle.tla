----------------------------- MODULE MCLifecycle -----------------------------
(* Values for the constants of Lifecycle. *)
EXTENDS Lifecycle

\* ScaledObjects without paused-replicas of their own, and with.
NotHeld == {NoHold}
MaybeHeld == {NoHold, MaxReplicas}
=============================================================================
