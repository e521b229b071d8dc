------------------------------- MODULE WakeKey -------------------------------
(***************************************************************************)
(* The key that the doorman's replicas sign the asleep page's button with. *)
(* They share it in a Secret, which whoever replaces the key empties, and  *)
(* the first replica to notice fills.  Each reads it again every Refresh,  *)
(* and goes on accepting the key before for as long as a button signed     *)
(* with it might last.                                                     *)
(***************************************************************************)
EXTENDS Integers

CONSTANTS
  Replicas,
  TTL, Skew, Refresh,   \* tokenTTL, tokenSkew and wakeKeyRefresh, in minutes
  MaxTime, Budget       \* bounds: how long it runs; reads that fail, and replicas that restart

Assumptions ==
  /\ TTL \in Nat \ {0} /\ Skew \in Nat /\ Refresh \in Nat \ {0}
  /\ MaxTime \in Nat /\ Budget \in Nat

\* Keys are numbered in the order they're made.
Keys == Nat \ {0}
NoKey == 0
Times == 0..MaxTime
Tokens == [key : Keys, shown : Times, stale : BOOLEAN]
NoToken == [key |-> 0, shown |-> 0, stale |-> FALSE]

VARIABLES
  clock,
  secret,              \* the key in the Secret, or NoKey
  keyed,               \* the keys it has held, each with when it came in
  made,                \* how many keys have been made
  current, previous,   \* each replica's keys
  until,               \* when it stops accepting the previous one
  next,                \* when it reads the Secret next
  filling,             \* the fill it's at, after reading an empty Secret, or 0
  clean,               \* whether what it read is still the current version
  since,               \* when it started, or Before
  stale,               \* whether its last read failed
  token,               \* the button on somebody's screen
  faults

Before == -1
keys == <<current, previous, until>>
vars == <<clock, secret, keyed, made, keys, next, filling, clean, since, stale, token, faults>>

TypeOK ==
  /\ clock \in Times /\ secret \in Keys \cup {NoKey} /\ made \in Keys
  /\ keyed \subseteq [key : Keys, at : Times]
  /\ current \in [Replicas -> Keys] /\ previous \in [Replicas -> Keys \cup {NoKey}]
  /\ until \in [Replicas -> 0..(MaxTime + TTL + Skew)]
  /\ next \in [Replicas -> 0..(MaxTime + Refresh)] /\ filling \in [Replicas -> 0..2]
  /\ clean \in [Replicas -> BOOLEAN] /\ since \in [Replicas -> Times \cup {Before}]
  /\ stale \in [Replicas -> BOOLEAN] /\ token \in Tokens \cup {NoToken} /\ faults \in 0..Budget

\* Every replica has long loaded the first key.
Init ==
  /\ clock = 0 /\ secret = 1 /\ made = 1 /\ keyed = {[key |-> 1, at |-> 0]}
  /\ current = [r \in Replicas |-> 1] /\ previous = [r \in Replicas |-> NoKey]
  /\ until = [r \in Replicas |-> 0]
  /\ next \in [Replicas -> 0..Refresh]
  /\ filling = [r \in Replicas |-> 0] /\ clean = [r \in Replicas |-> FALSE]
  /\ since = [r \in Replicas |-> Before] /\ stale = [r \in Replicas |-> FALSE]
  /\ token = NoToken /\ faults = Budget

----------------------------------------------------------------------------

\* Mutant: the previous key lasts no longer than a button.
UseBriefly(r, key) ==
  IF key = current[r] THEN UNCHANGED keys
  ELSE /\ current' = [current EXCEPT ![r] = key]
       /\ previous' = [previous EXCEPT ![r] = current[r]]
       /\ until' = [until EXCEPT ![r] = clock + TTL]

\* wakeKeys.use
Use(r, key) ==
  IF key = current[r] THEN UNCHANGED keys
  ELSE /\ current' = [current EXCEPT ![r] = key]
       /\ previous' = [previous EXCEPT ![r] = current[r]]
       /\ until' = [until EXCEPT ![r] = clock + TTL + Skew]

\* loadWakeKey's read of the Secret, the first or, once another has filled it, the second.
Read(r, attempt) ==
  IF secret # NoKey
  THEN /\ Use(r, secret) /\ filling' = [filling EXCEPT ![r] = 0]
       /\ next' = [next EXCEPT ![r] = clock + Refresh] /\ UNCHANGED clean
  ELSE /\ filling' = [filling EXCEPT ![r] = attempt] /\ clean' = [clean EXCEPT ![r] = TRUE]
       /\ UNCHANGED <<keys, next>>

\* watchWakeKey's tick; a read that fails leaves the keys as they are.
Load(r) ==
  /\ filling[r] = 0 /\ next[r] <= clock
  /\ \/ Read(r, 1) /\ stale' = [stale EXCEPT ![r] = FALSE] /\ UNCHANGED faults
     \/ /\ faults > 0 /\ faults' = faults - 1 /\ stale' = [stale EXCEPT ![r] = TRUE]
        /\ next' = [next EXCEPT ![r] = clock + Refresh] /\ UNCHANGED <<keys, filling, clean>>
  /\ UNCHANGED <<clock, secret, keyed, made, since, token>>

\* Mutant: the fill isn't locked to the version read.
LandsAnyway(r) == TRUE
Lands(r) == clean[r]

\* Its write of a new key to the empty Secret.  Of two that conflict twice, one gives up.
Fill(r) ==
  /\ filling[r] > 0
  /\ IF Lands(r)
     THEN /\ made' = made + 1
          /\ secret' = made + 1 /\ keyed' = keyed \cup {[key |-> made + 1, at |-> clock]}
          /\ Use(r, made + 1)
          /\ clean' = [q \in Replicas |-> FALSE]
          /\ filling' = [filling EXCEPT ![r] = 0] /\ next' = [next EXCEPT ![r] = clock + Refresh]
     ELSE /\ IF filling[r] = 1 THEN Read(r, 2)
             ELSE /\ filling' = [filling EXCEPT ![r] = 0]
                  /\ next' = [next EXCEPT ![r] = clock + Refresh] /\ UNCHANGED <<keys, clean>>
          /\ UNCHANGED <<secret, keyed, made>>
  /\ UNCHANGED <<clock, since, stale, token, faults>>

\* It serves once its first read is over.
Serves(r) == next[r] > since[r]

Expires(t) == t.shown + TTL

\* A page with the button is shown (sign).
Show(r) ==
  /\ Serves(r) /\ (token = NoToken \/ clock >= Expires(token))
  /\ token' = [key |-> current[r], shown |-> clock, stale |-> stale[r]]
  /\ UNCHANGED <<clock, secret, keyed, made, keys, next, filling, clean, since, stale, faults>>

\* Someone empties the Secret, long enough after the last time.
Empty ==
  /\ secret # NoKey
  /\ \A k \in keyed : k.key = 1 \/ k.at + TTL + Skew <= clock
  /\ secret' = NoKey /\ clean' = [r \in Replicas |-> FALSE]
  /\ UNCHANGED <<clock, keyed, made, keys, next, filling, since, stale, token, faults>>

\* Another pod takes a replica's place, with a key of its own until it has loaded one.
Restart(r) ==
  /\ faults > 0 /\ faults' = faults - 1
  /\ made' = made + 1
  /\ current' = [current EXCEPT ![r] = made + 1] /\ previous' = [previous EXCEPT ![r] = NoKey]
  /\ until' = [until EXCEPT ![r] = 0]
  /\ filling' = [filling EXCEPT ![r] = 0] /\ next' = [next EXCEPT ![r] = clock]
  /\ since' = [since EXCEPT ![r] = clock]
  /\ UNCHANGED <<clock, secret, keyed, clean, stale, token>>

\* A minute goes by: what's due has been read by then.
Tick ==
  /\ clock < MaxTime /\ clock' = clock + 1
  /\ \A r \in Replicas : next[r] > clock /\ filling[r] = 0
  /\ UNCHANGED <<secret, keyed, made, keys, next, filling, clean, since, stale, token, faults>>

Next ==
  \/ \E r \in Replicas : Load(r) \/ Fill(r) \/ Show(r) \/ Restart(r)
  \/ Empty \/ Tick

Spec == Init /\ [][Next]_vars

----------------------------------------------------------------------------

\* wakeKeys.valid
Valid(r) ==
  /\ clock < Expires(token) /\ Expires(token) <= clock + TTL + Skew
  /\ token.key = current[r] \/ (clock < until[r] /\ token.key = previous[r])

\* A button that a replica has shown works on every other until it expires, whoever
\* has changed the key, and however many filled the Secret at once: unless the key is
\* so new that not every replica has had the time to read it, or either's last read
\* failed, or the other has restarted and the key been replaced (token.go:64: "a key
\* changed by another replica doesn't fail a click on a page shown a moment before").
ClicksWork ==
  \A r \in Replicas :
    /\ clock < Expires(token) /\ (since[r] = Before \/ token.key = secret)
    /\ Serves(r) /\ ~token.stale /\ ~stale[r]
    /\ \E k \in keyed : k.key = token.key /\ (k.at + Refresh < clock \/ k.key = 1)
    => Valid(r)
================================================================================
