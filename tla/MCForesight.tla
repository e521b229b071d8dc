------------------------------ MODULE MCForesight ------------------------------
(***************************************************************************)
(* What a forecast learns, and what is done by one, for TLC, side by side. *)
(* A behaviour is of one of the two: what is forecast is any, to the rules *)
(* that act on it.                                                         *)
(***************************************************************************)
EXTENDS Foresight

CONSTANTS Day, Days, RegimeChange, Threshold, Margin, MaxGap

VARIABLES
  part,
  last, n, stage, before, scores, counted, recent, above, below, coverage, slots, held, doubting, made,
  broke, scored, since

learnVars == <<last, n, stage, before, scores, counted, recent, above, below, coverage, slots, held,
               doubting, made, broke, scored, since>>

Learning == INSTANCE Forecast WITH phase <- stage, seen <- slots
ASSUME LearningAssumption == Learning!Assumptions
ASSUME Assumptions

\* The forecast, while the rules are the part that moves, is blank.
NoLearning ==
  /\ last = 0 /\ n = 0 /\ stage = 0 /\ before = 0 /\ scores = 0 /\ counted = 0 /\ recent = 0 /\ above = 0
  /\ below = 0 /\ coverage = 0 /\ slots = 0 /\ held = 0 /\ doubting = 0 /\ made = 0 /\ broke = 0
  /\ scored = 0 /\ since = 0
Still == Init /\ phase = "Paused" /\ \A h \in Hours : expect[h] = "none"

PartsInit ==
  \/ part = "rules" /\ Init /\ NoLearning
  \/ part = "learning" /\ Still /\ Learning!Init
PartsNext ==
  /\ UNCHANGED part
  /\ \/ part = "rules" /\ Next /\ UNCHANGED learnVars
     \/ part = "learning" /\ Learning!Next /\ UNCHANGED vars
PartsSpec == PartsInit /\ [][PartsNext]_<<part, vars, learnVars>>

PartsTypeOK == IF part = "rules" THEN TypeOK ELSE Learning!TypeOK
\* Forecast's.
ActsOnEvidence == part = "learning" => Learning!ActsOnEvidence
LearnsWhatLasts == part = "learning" => Learning!LearnsWhatLasts
================================================================================
