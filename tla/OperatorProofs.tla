----------------------------- MODULE OperatorProofs -----------------------------
(***************************************************************************)
(* Theorems about the operator's parts beside one another, as MCOperator   *)
(* has them: the lifecycle of a workload, its idle clock, live, early and  *)
(* in dry-run, what pausing one is counted as freeing and saving, and what *)
(* the nodes couldn't hold of all that is paused.                          *)
(***************************************************************************)
EXTENDS MCOperator, LifecycleProofs, FiniteSetTheorems, TLAPS

\* IdleClockProofs', of the three clocks.
LiveClock == INSTANCE IdleClockProofs WITH MaxTime <- MaxTime + 1, DryRun <- FALSE, Others <- LiveOthers
EarlyClock == INSTANCE IdleClockProofs WITH
  IdleAfter <- LongIdleAfter, MaxTime <- MaxTime + 2, DryRun <- FALSE, Others <- EarlyOthers
DryClock == INSTANCE IdleClockProofs WITH DryRun <- TRUE, Others <- DryOthers

-----------------------------------------------------------------------------
(* A behaviour of the parts is one of the clock's, if that is the part that moves. *)

LEMMA LiveBegins == ASSUME PartsInit, part = "live" PROVE Live!Init
BY DEF PartsInit

LEMMA LiveMoves ==
  ASSUME [PartsNext]_<<part, vars, clockVars, costVars, spareVars>>, part = "live"
  PROVE  part' = "live" /\ [Live!Next]_clockVars
BY DEF PartsNext, In, Clock

LEMMA EarlyBegins == ASSUME PartsInit, part = "early" PROVE Early!Init
BY DEF PartsInit

LEMMA EarlyMoves ==
  ASSUME [PartsNext]_<<part, vars, clockVars, costVars, spareVars>>, part = "early"
  PROVE  part' = "early" /\ [Early!Next]_clockVars
BY DEF PartsNext, In, Clock

LEMMA DryBegins == ASSUME PartsInit, part = "dry" PROVE Dry!Init
BY DEF PartsInit

LEMMA DryMoves ==
  ASSUME [PartsNext]_<<part, vars, clockVars, costVars, spareVars>>, part = "dry"
  PROVE  part' = "dry" /\ [Dry!Next]_clockVars
BY DEF PartsNext, In, Clock

LEMMA SameLiveClock ==
  /\ Live!Assumptions <=> LiveClock!Assumptions
  /\ Live!Init <=> LiveClock!Init
  /\ Live!Next <=> LiveClock!Next
  /\ Live!PausesLate <=> LiveClock!PausesLate
  /\ Live!PausesTold <=> LiveClock!PausesTold
  /\ UNCHANGED clockVars <=> UNCHANGED LiveClock!vars
  /\ Live!GapTolerance = LiveClock!GapTolerance
<1>1. UNCHANGED clockVars <=> UNCHANGED LiveClock!vars
  BY DEF clockVars, LiveClock!vars
<1>2. Live!Assumptions <=> LiveClock!Assumptions
  BY Zenon DEF Live!Assumptions, LiveClock!Assumptions
<1>3. Live!Init <=> LiveClock!Init
  BY Zenon DEF
       Live!Never, Live!Fresh, Live!New, Live!Init, LiveClock!Never, LiveClock!Fresh, LiveClock!New,
       LiveClock!Init
<1>4. Live!GapTolerance = LiveClock!GapTolerance
  BY Zenon DEF
       Live!Smaller, Live!Larger, Live!GapTolerance, LiveClock!Smaller, LiveClock!Larger,
       LiveClock!GapTolerance
<1>5. Live!Remembered = LiveClock!Remembered
  BY Zenon DEF
       Live!Never, Live!Larger, Live!Fresh, Live!Nothing, Live!Forgot, Live!RecordActivity,
       Live!Remembered, LiveClock!Never, LiveClock!Larger, LiveClock!Fresh, LiveClock!Nothing,
       LiveClock!Forgot, LiveClock!RecordActivity, LiveClock!Remembered
<1>6. Live!Unwatched <=> LiveClock!Unwatched
  BY <1>4, <1>5, Zenon DEF
       Live!Unwatched, Live!Forgot, Live!Nothing, Live!Fresh, Live!Never, Live!InWouldBePause,
       LiveClock!Unwatched, LiveClock!Forgot, LiveClock!Nothing, LiveClock!Fresh, LiveClock!Never,
       LiveClock!InWouldBePause
<1>7. ASSUME NEW cpu, NEW query PROVE Live!Readable(cpu, query) <=> LiveClock!Readable(cpu, query)
  BY Zenon DEF Live!Readable, LiveClock!Readable
<1>8. ASSUME NEW cpu, NEW query PROVE Live!Counts(cpu, query) <=> LiveClock!Counts(cpu, query)
  BY Zenon DEF
       Live!InWouldBePause, Live!QueryHeld, Live!Counts, LiveClock!InWouldBePause, LiveClock!QueryHeld,
       LiveClock!Counts
<1>9. ASSUME NEW x, NEW y PROVE Live!Smaller(x, y) = LiveClock!Smaller(x, y)
  BY Zenon DEF Live!Smaller, LiveClock!Smaller
<1>10. ASSUME NEW clock, NEW t, NEW source PROVE Live!RecordActivity(clock, t, source) = LiveClock!RecordActivity(clock, t, source)
  BY Zenon DEF Live!RecordActivity, LiveClock!RecordActivity
<1>11. ASSUME NEW cpu, NEW query PROVE Live!Observed(cpu, query) = LiveClock!Observed(cpu, query)
  BY <1>5, <1>6, <1>7, <1>8, <1>9, <1>10 DEF Live!Observed, LiveClock!Observed
<1>12. ASSUME NEW cpu, NEW query PROVE Live!Checked(cpu, query) = LiveClock!Checked(cpu, query)
  BY <1>7, <1>11, Zenon DEF
       Live!Checked, Live!Told, Live!QueryHeld, Live!InWouldBePause, LiveClock!Checked, LiveClock!Told,
       LiveClock!QueryHeld, LiveClock!InWouldBePause
<1>13. ASSUME NEW cpu, NEW query PROVE Live!Finds(cpu, query) <=> LiveClock!Finds(cpu, query)
  BY Zenon DEF
       Live!Never, Live!Smaller, Live!Larger, Live!GapTolerance, Live!InWouldBePause, Live!QueryHeld,
       Live!Counts, Live!Readable, Live!Finds, LiveClock!Never, LiveClock!Smaller, LiveClock!Larger,
       LiveClock!GapTolerance, LiveClock!InWouldBePause, LiveClock!QueryHeld, LiveClock!Counts,
       LiveClock!Readable, LiveClock!Finds
<1>14. Live!Gap <=> LiveClock!Gap
  BY <1>6, Zenon DEF Live!Gap, Live!InWouldBePause, LiveClock!Gap, LiveClock!InWouldBePause
<1>15. ASSUME NEW copied PROVE Live!Persist(copied) <=> LiveClock!Persist(copied)
  BY Zenon DEF
       Live!Smaller, Live!Writes, Live!Behind, Live!FlushDue, Live!OnlyMoved, Live!Persist,
       LiveClock!Smaller, LiveClock!Writes, LiveClock!Behind, LiveClock!FlushDue, LiveClock!OnlyMoved,
       LiveClock!Persist
<1>16. ASSUME NEW copied PROVE Live!StaysUp(copied) <=> LiveClock!StaysUp(copied)
  BY <1>6, <1>14, <1>15, Zenon DEF
       Live!Larger, Live!Writes, Live!Conflicts, Live!Moved, Live!EndWouldBePause,
       Live!ActiveSinceClockRanOut, Live!Remember, Live!StaysUp, LiveClock!Larger, LiveClock!Writes,
       LiveClock!Conflicts, LiveClock!Moved, LiveClock!EndWouldBePause, LiveClock!ActiveSinceClockRanOut,
       LiveClock!Remember, LiveClock!StaysUp
<1>17. ASSUME NEW copied, NEW early PROVE Live!RunsOut(copied, early) <=> LiveClock!RunsOut(copied, early)
  BY <1>6, <1>14, <1>15, Zenon DEF
       Live!Writes, Live!Moved, Live!BeginWouldBePause, Live!ActiveSinceClockRanOut, Live!MayPauseEarly,
       Live!Remember, Live!RunsOut, LiveClock!Writes, LiveClock!Moved, LiveClock!BeginWouldBePause,
       LiveClock!ActiveSinceClockRanOut, LiveClock!MayPauseEarly, LiveClock!Remember, LiveClock!RunsOut
<1>18. ASSUME NEW copied PROVE Live!HeldBack(copied) <=> LiveClock!HeldBack(copied)
  BY <1>6, <1>14, <1>15, Zenon DEF
       Live!ActiveSinceClockRanOut, Live!Remember, Live!HeldBack, LiveClock!ActiveSinceClockRanOut,
       LiveClock!Remember, LiveClock!HeldBack
<1>19. ASSUME NEW copied PROVE Live!CantTell(copied) <=> LiveClock!CantTell(copied)
  BY <1>6, <1>14, <1>15, Zenon DEF Live!Remember, Live!CantTell, LiveClock!Remember, LiveClock!CantTell
<1>20. ASSUME NEW cpu, NEW query PROVE Live!Check(cpu, query) <=> LiveClock!Check(cpu, query)
  BY <1>7, <1>12, <1>13, <1>16, <1>17, <1>18, <1>19, Zenon DEF Live!Check, LiveClock!Check
<1>21. ASSUME NEW query PROVE Live!Requested(query) <=> LiveClock!Requested(query)
  BY Zenon DEF
       Live!Writes, Live!Moved, Live!BeginWouldBePause, Live!Requested, LiveClock!Writes, LiveClock!Moved,
       LiveClock!BeginWouldBePause, LiveClock!Requested
<1>22. Live!Pauses <=> LiveClock!Pauses
  BY Zenon DEF Live!Pauses, LiveClock!Pauses
<1>23. Live!Wakes <=> LiveClock!Wakes
  BY Zenon DEF
       Live!Fresh, Live!Writes, Live!Moved, Live!Remember, Live!Wakes, LiveClock!Fresh, LiveClock!Writes,
       LiveClock!Moved, LiveClock!Remember, LiveClock!Wakes
<1>24. Live!Refill <=> LiveClock!Refill
  BY Zenon DEF Live!Refill, LiveClock!Refill
<1>25. Live!Restart <=> LiveClock!Restart
  BY Zenon DEF
       Live!Never, Live!Fresh, Live!Nothing, Live!Restart, LiveClock!Never, LiveClock!Fresh,
       LiveClock!Nothing, LiveClock!Restart
<1>26. Live!Stamp <=> LiveClock!Stamp
  BY Zenon DEF Live!Stamp, LiveClock!Stamp
<1>27. Live!Hold <=> LiveClock!Hold
  BY Zenon DEF Live!Hold, LiveClock!Hold
<1>28. Live!Deploy <=> LiveClock!Deploy
  BY Zenon DEF Live!Deploy, LiveClock!Deploy
<1>29. Live!Tick <=> LiveClock!Tick
  BY Zenon DEF Live!Tick, LiveClock!Tick
<1>30. Live!PausesLate <=> LiveClock!PausesLate
  BY Zenon DEF
       Live!Smaller, Live!IdledByClock, Live!Floor, Live!PausesLate, LiveClock!Smaller,
       LiveClock!IdledByClock, LiveClock!Floor, LiveClock!PausesLate
<1>31. Live!PausesTold <=> LiveClock!PausesTold
  BY Zenon DEF Live!IdledByClock, Live!PausesTold, LiveClock!IdledByClock, LiveClock!PausesTold
<1>32. Live!Next <=> LiveClock!Next
  BY <1>20, <1>21, <1>22, <1>23, <1>24, <1>25, <1>26, <1>27, <1>28, <1>29, Zenon DEF Live!Next, LiveClock!Next
<1> QED
  BY <1>1, <1>2, <1>3, <1>4, <1>30, <1>31, <1>32

LEMMA SameDryClock ==
  /\ Dry!Assumptions <=> DryClock!Assumptions
  /\ Dry!Init <=> DryClock!Init
  /\ Dry!Next <=> DryClock!Next
  /\ Dry!EndsByUse <=> DryClock!EndsByUse
  /\ Dry!CountsIdleTime <=> DryClock!CountsIdleTime
  /\ UNCHANGED clockVars <=> UNCHANGED DryClock!vars
<1>1. UNCHANGED clockVars <=> UNCHANGED DryClock!vars
  BY DEF clockVars, DryClock!vars
<1>2. Dry!Assumptions <=> DryClock!Assumptions
  BY Zenon DEF Dry!Assumptions, DryClock!Assumptions
<1>3. Dry!Init <=> DryClock!Init
  BY Zenon DEF
       Dry!Never, Dry!Fresh, Dry!New, Dry!Init, DryClock!Never, DryClock!Fresh, DryClock!New,
       DryClock!Init
<1>4. Dry!GapTolerance = DryClock!GapTolerance
  BY Zenon DEF
       Dry!Smaller, Dry!Larger, Dry!GapTolerance, DryClock!Smaller, DryClock!Larger,
       DryClock!GapTolerance
<1>5. Dry!Remembered = DryClock!Remembered
  BY Zenon DEF
       Dry!Never, Dry!Larger, Dry!Fresh, Dry!Nothing, Dry!Forgot, Dry!RecordActivity,
       Dry!Remembered, DryClock!Never, DryClock!Larger, DryClock!Fresh, DryClock!Nothing,
       DryClock!Forgot, DryClock!RecordActivity, DryClock!Remembered
<1>6. Dry!Unwatched <=> DryClock!Unwatched
  BY <1>4, <1>5, Zenon DEF
       Dry!Unwatched, Dry!Forgot, Dry!Nothing, Dry!Fresh, Dry!Never, Dry!InWouldBePause,
       DryClock!Unwatched, DryClock!Forgot, DryClock!Nothing, DryClock!Fresh, DryClock!Never,
       DryClock!InWouldBePause
<1>7. ASSUME NEW cpu, NEW query PROVE Dry!Readable(cpu, query) <=> DryClock!Readable(cpu, query)
  BY Zenon DEF Dry!Readable, DryClock!Readable
<1>8. ASSUME NEW cpu, NEW query PROVE Dry!Counts(cpu, query) <=> DryClock!Counts(cpu, query)
  BY Zenon DEF
       Dry!InWouldBePause, Dry!QueryHeld, Dry!Counts, DryClock!InWouldBePause, DryClock!QueryHeld,
       DryClock!Counts
<1>9. ASSUME NEW x, NEW y PROVE Dry!Smaller(x, y) = DryClock!Smaller(x, y)
  BY Zenon DEF Dry!Smaller, DryClock!Smaller
<1>10. ASSUME NEW clock, NEW t, NEW source PROVE Dry!RecordActivity(clock, t, source) = DryClock!RecordActivity(clock, t, source)
  BY Zenon DEF Dry!RecordActivity, DryClock!RecordActivity
<1>11. ASSUME NEW cpu, NEW query PROVE Dry!Observed(cpu, query) = DryClock!Observed(cpu, query)
  BY <1>5, <1>6, <1>7, <1>8, <1>9, <1>10 DEF Dry!Observed, DryClock!Observed
<1>12. ASSUME NEW cpu, NEW query PROVE Dry!Checked(cpu, query) = DryClock!Checked(cpu, query)
  BY <1>7, <1>11, Zenon DEF
       Dry!Checked, Dry!Told, Dry!QueryHeld, Dry!InWouldBePause, DryClock!Checked, DryClock!Told,
       DryClock!QueryHeld, DryClock!InWouldBePause
<1>13. ASSUME NEW cpu, NEW query PROVE Dry!Finds(cpu, query) <=> DryClock!Finds(cpu, query)
  BY Zenon DEF
       Dry!Never, Dry!Smaller, Dry!Larger, Dry!GapTolerance, Dry!InWouldBePause, Dry!QueryHeld,
       Dry!Counts, Dry!Readable, Dry!Finds, DryClock!Never, DryClock!Smaller, DryClock!Larger,
       DryClock!GapTolerance, DryClock!InWouldBePause, DryClock!QueryHeld, DryClock!Counts,
       DryClock!Readable, DryClock!Finds
<1>14. Dry!Gap <=> DryClock!Gap
  BY <1>6, Zenon DEF Dry!Gap, Dry!InWouldBePause, DryClock!Gap, DryClock!InWouldBePause
<1>15. ASSUME NEW copied PROVE Dry!Persist(copied) <=> DryClock!Persist(copied)
  BY Zenon DEF
       Dry!Smaller, Dry!Writes, Dry!Behind, Dry!FlushDue, Dry!OnlyMoved, Dry!Persist,
       DryClock!Smaller, DryClock!Writes, DryClock!Behind, DryClock!FlushDue, DryClock!OnlyMoved,
       DryClock!Persist
<1>16. ASSUME NEW copied PROVE Dry!StaysUp(copied) <=> DryClock!StaysUp(copied)
  BY <1>6, <1>14, <1>15, Zenon DEF
       Dry!Larger, Dry!Writes, Dry!Conflicts, Dry!Moved, Dry!EndWouldBePause,
       Dry!ActiveSinceClockRanOut, Dry!Remember, Dry!StaysUp, DryClock!Larger, DryClock!Writes,
       DryClock!Conflicts, DryClock!Moved, DryClock!EndWouldBePause, DryClock!ActiveSinceClockRanOut,
       DryClock!Remember, DryClock!StaysUp
<1>17. ASSUME NEW copied, NEW early PROVE Dry!RunsOut(copied, early) <=> DryClock!RunsOut(copied, early)
  BY <1>6, <1>14, <1>15, Zenon DEF
       Dry!Writes, Dry!Moved, Dry!BeginWouldBePause, Dry!ActiveSinceClockRanOut, Dry!MayPauseEarly,
       Dry!Remember, Dry!RunsOut, DryClock!Writes, DryClock!Moved, DryClock!BeginWouldBePause,
       DryClock!ActiveSinceClockRanOut, DryClock!MayPauseEarly, DryClock!Remember, DryClock!RunsOut
<1>18. ASSUME NEW copied PROVE Dry!HeldBack(copied) <=> DryClock!HeldBack(copied)
  BY <1>6, <1>14, <1>15, Zenon DEF
       Dry!ActiveSinceClockRanOut, Dry!Remember, Dry!HeldBack, DryClock!ActiveSinceClockRanOut,
       DryClock!Remember, DryClock!HeldBack
<1>19. ASSUME NEW copied PROVE Dry!CantTell(copied) <=> DryClock!CantTell(copied)
  BY <1>6, <1>14, <1>15, Zenon DEF Dry!Remember, Dry!CantTell, DryClock!Remember, DryClock!CantTell
<1>20. ASSUME NEW cpu, NEW query PROVE Dry!Check(cpu, query) <=> DryClock!Check(cpu, query)
  BY <1>7, <1>12, <1>13, <1>16, <1>17, <1>18, <1>19, Zenon DEF Dry!Check, DryClock!Check
<1>21. ASSUME NEW query PROVE Dry!Requested(query) <=> DryClock!Requested(query)
  BY Zenon DEF
       Dry!Writes, Dry!Moved, Dry!BeginWouldBePause, Dry!Requested, DryClock!Writes, DryClock!Moved,
       DryClock!BeginWouldBePause, DryClock!Requested
<1>22. Dry!Pauses <=> DryClock!Pauses
  BY Zenon DEF Dry!Pauses, DryClock!Pauses
<1>23. Dry!Wakes <=> DryClock!Wakes
  BY Zenon DEF
       Dry!Fresh, Dry!Writes, Dry!Moved, Dry!Remember, Dry!Wakes, DryClock!Fresh, DryClock!Writes,
       DryClock!Moved, DryClock!Remember, DryClock!Wakes
<1>24. Dry!Refill <=> DryClock!Refill
  BY Zenon DEF Dry!Refill, DryClock!Refill
<1>25. Dry!Restart <=> DryClock!Restart
  BY Zenon DEF
       Dry!Never, Dry!Fresh, Dry!Nothing, Dry!Restart, DryClock!Never, DryClock!Fresh,
       DryClock!Nothing, DryClock!Restart
<1>26. Dry!Stamp <=> DryClock!Stamp
  BY Zenon DEF Dry!Stamp, DryClock!Stamp
<1>27. Dry!Hold <=> DryClock!Hold
  BY Zenon DEF Dry!Hold, DryClock!Hold
<1>28. Dry!Deploy <=> DryClock!Deploy
  BY Zenon DEF Dry!Deploy, DryClock!Deploy
<1>29. Dry!Tick <=> DryClock!Tick
  BY Zenon DEF Dry!Tick, DryClock!Tick
<1>30. Dry!EndsByUse <=> DryClock!EndsByUse
  BY Zenon DEF Dry!Larger, Dry!EndsByUse, DryClock!Larger, DryClock!EndsByUse
<1>31. Dry!CountsIdleTime <=> DryClock!CountsIdleTime
  BY Zenon DEF Dry!CountsIdleTime, DryClock!CountsIdleTime
<1>32. Dry!Next <=> DryClock!Next
  BY <1>20, <1>21, <1>22, <1>23, <1>24, <1>25, <1>26, <1>27, <1>28, <1>29, Zenon DEF Dry!Next, DryClock!Next
<1> QED
  BY <1>1, <1>2, <1>3, <1>30, <1>31, <1>32

LEMMA SameEarlyClock ==
  /\ Early!Assumptions <=> EarlyClock!Assumptions
  /\ Early!Init <=> EarlyClock!Init
  /\ Early!Next <=> EarlyClock!Next
  /\ Early!PausesLate <=> EarlyClock!PausesLate
  /\ Early!PausesTold <=> EarlyClock!PausesTold
  /\ UNCHANGED clockVars <=> UNCHANGED EarlyClock!vars
  /\ Early!GapTolerance = EarlyClock!GapTolerance
<1>1. UNCHANGED clockVars <=> UNCHANGED EarlyClock!vars
  BY DEF clockVars, EarlyClock!vars
<1>2. Early!Assumptions <=> EarlyClock!Assumptions
  BY Zenon DEF Early!Assumptions, EarlyClock!Assumptions
<1>3. Early!Init <=> EarlyClock!Init
  BY Zenon DEF
       Early!Never, Early!Fresh, Early!New, Early!Init, EarlyClock!Never, EarlyClock!Fresh,
       EarlyClock!New, EarlyClock!Init
<1>4. Early!GapTolerance = EarlyClock!GapTolerance
  BY Zenon DEF
       Early!Smaller, Early!Larger, Early!GapTolerance, EarlyClock!Smaller, EarlyClock!Larger,
       EarlyClock!GapTolerance
<1>5. Early!Remembered = EarlyClock!Remembered
  BY Zenon DEF
       Early!Never, Early!Larger, Early!Fresh, Early!Nothing, Early!Forgot, Early!RecordActivity,
       Early!Remembered, EarlyClock!Never, EarlyClock!Larger, EarlyClock!Fresh, EarlyClock!Nothing,
       EarlyClock!Forgot, EarlyClock!RecordActivity, EarlyClock!Remembered
<1>6. Early!Unwatched <=> EarlyClock!Unwatched
  BY <1>4, <1>5, Zenon DEF
       Early!Unwatched, Early!Forgot, Early!Nothing, Early!Fresh, Early!Never, Early!InWouldBePause,
       EarlyClock!Unwatched, EarlyClock!Forgot, EarlyClock!Nothing, EarlyClock!Fresh, EarlyClock!Never,
       EarlyClock!InWouldBePause
<1>7. ASSUME NEW cpu, NEW query PROVE Early!Readable(cpu, query) <=> EarlyClock!Readable(cpu, query)
  BY Zenon DEF Early!Readable, EarlyClock!Readable
<1>8. ASSUME NEW cpu, NEW query PROVE Early!Counts(cpu, query) <=> EarlyClock!Counts(cpu, query)
  BY Zenon DEF
       Early!InWouldBePause, Early!QueryHeld, Early!Counts, EarlyClock!InWouldBePause,
       EarlyClock!QueryHeld, EarlyClock!Counts
<1>9. ASSUME NEW x, NEW y PROVE Early!Smaller(x, y) = EarlyClock!Smaller(x, y)
  BY Zenon DEF Early!Smaller, EarlyClock!Smaller
<1>10. ASSUME NEW clock, NEW t, NEW source PROVE Early!RecordActivity(clock, t, source) = EarlyClock!RecordActivity(clock, t, source)
  BY Zenon DEF Early!RecordActivity, EarlyClock!RecordActivity
<1>11. ASSUME NEW cpu, NEW query PROVE Early!Observed(cpu, query) = EarlyClock!Observed(cpu, query)
  BY <1>5, <1>6, <1>7, <1>8, <1>9, <1>10 DEF Early!Observed, EarlyClock!Observed
<1>12. ASSUME NEW cpu, NEW query PROVE Early!Checked(cpu, query) = EarlyClock!Checked(cpu, query)
  BY <1>7, <1>11, Zenon DEF
       Early!Checked, Early!Told, Early!QueryHeld, Early!InWouldBePause, EarlyClock!Checked,
       EarlyClock!Told, EarlyClock!QueryHeld, EarlyClock!InWouldBePause
<1>13. ASSUME NEW cpu, NEW query PROVE Early!Finds(cpu, query) <=> EarlyClock!Finds(cpu, query)
  BY Zenon DEF
       Early!Never, Early!Smaller, Early!Larger, Early!GapTolerance, Early!InWouldBePause,
       Early!QueryHeld, Early!Counts, Early!Readable, Early!Finds, EarlyClock!Never, EarlyClock!Smaller,
       EarlyClock!Larger, EarlyClock!GapTolerance, EarlyClock!InWouldBePause, EarlyClock!QueryHeld,
       EarlyClock!Counts, EarlyClock!Readable, EarlyClock!Finds
<1>14. Early!Gap <=> EarlyClock!Gap
  BY <1>6, Zenon DEF Early!Gap, Early!InWouldBePause, EarlyClock!Gap, EarlyClock!InWouldBePause
<1>15. ASSUME NEW copied PROVE Early!Persist(copied) <=> EarlyClock!Persist(copied)
  BY Zenon DEF
       Early!Smaller, Early!Writes, Early!Behind, Early!FlushDue, Early!OnlyMoved, Early!Persist,
       EarlyClock!Smaller, EarlyClock!Writes, EarlyClock!Behind, EarlyClock!FlushDue,
       EarlyClock!OnlyMoved, EarlyClock!Persist
<1>16. ASSUME NEW copied PROVE Early!StaysUp(copied) <=> EarlyClock!StaysUp(copied)
  BY <1>6, <1>14, <1>15, Zenon DEF
       Early!Larger, Early!Writes, Early!Conflicts, Early!Moved, Early!EndWouldBePause,
       Early!ActiveSinceClockRanOut, Early!Remember, Early!StaysUp, EarlyClock!Larger, EarlyClock!Writes,
       EarlyClock!Conflicts, EarlyClock!Moved, EarlyClock!EndWouldBePause,
       EarlyClock!ActiveSinceClockRanOut, EarlyClock!Remember, EarlyClock!StaysUp
<1>17. ASSUME NEW copied, NEW early PROVE Early!RunsOut(copied, early) <=> EarlyClock!RunsOut(copied, early)
  BY <1>6, <1>14, <1>15, Zenon DEF
       Early!Writes, Early!Moved, Early!BeginWouldBePause, Early!ActiveSinceClockRanOut,
       Early!MayPauseEarly, Early!Remember, Early!RunsOut, EarlyClock!Writes, EarlyClock!Moved,
       EarlyClock!BeginWouldBePause, EarlyClock!ActiveSinceClockRanOut, EarlyClock!MayPauseEarly,
       EarlyClock!Remember, EarlyClock!RunsOut
<1>18. ASSUME NEW copied PROVE Early!HeldBack(copied) <=> EarlyClock!HeldBack(copied)
  BY <1>6, <1>14, <1>15, Zenon DEF
       Early!ActiveSinceClockRanOut, Early!Remember, Early!HeldBack, EarlyClock!ActiveSinceClockRanOut,
       EarlyClock!Remember, EarlyClock!HeldBack
<1>19. ASSUME NEW copied PROVE Early!CantTell(copied) <=> EarlyClock!CantTell(copied)
  BY <1>6, <1>14, <1>15, Zenon DEF Early!Remember, Early!CantTell, EarlyClock!Remember, EarlyClock!CantTell
<1>20. ASSUME NEW cpu, NEW query PROVE Early!Check(cpu, query) <=> EarlyClock!Check(cpu, query)
  BY <1>7, <1>12, <1>13, <1>16, <1>17, <1>18, <1>19, Zenon DEF Early!Check, EarlyClock!Check
<1>21. ASSUME NEW query PROVE Early!Requested(query) <=> EarlyClock!Requested(query)
  BY Zenon DEF
       Early!Writes, Early!Moved, Early!BeginWouldBePause, Early!Requested, EarlyClock!Writes,
       EarlyClock!Moved, EarlyClock!BeginWouldBePause, EarlyClock!Requested
<1>22. Early!Pauses <=> EarlyClock!Pauses
  BY Zenon DEF Early!Pauses, EarlyClock!Pauses
<1>23. Early!Wakes <=> EarlyClock!Wakes
  BY Zenon DEF
       Early!Fresh, Early!Writes, Early!Moved, Early!Remember, Early!Wakes, EarlyClock!Fresh,
       EarlyClock!Writes, EarlyClock!Moved, EarlyClock!Remember, EarlyClock!Wakes
<1>24. Early!Refill <=> EarlyClock!Refill
  BY Zenon DEF Early!Refill, EarlyClock!Refill
<1>25. Early!Restart <=> EarlyClock!Restart
  BY Zenon DEF
       Early!Never, Early!Fresh, Early!Nothing, Early!Restart, EarlyClock!Never, EarlyClock!Fresh,
       EarlyClock!Nothing, EarlyClock!Restart
<1>26. Early!Stamp <=> EarlyClock!Stamp
  BY Zenon DEF Early!Stamp, EarlyClock!Stamp
<1>27. Early!Hold <=> EarlyClock!Hold
  BY Zenon DEF Early!Hold, EarlyClock!Hold
<1>28. Early!Deploy <=> EarlyClock!Deploy
  BY Zenon DEF Early!Deploy, EarlyClock!Deploy
<1>29. Early!Tick <=> EarlyClock!Tick
  BY Zenon DEF Early!Tick, EarlyClock!Tick
<1>30. Early!PausesLate <=> EarlyClock!PausesLate
  BY Zenon DEF
       Early!Smaller, Early!IdledByClock, Early!Floor, Early!PausesLate, EarlyClock!Smaller,
       EarlyClock!IdledByClock, EarlyClock!Floor, EarlyClock!PausesLate
<1>31. Early!PausesTold <=> EarlyClock!PausesTold
  BY Zenon DEF Early!IdledByClock, Early!PausesTold, EarlyClock!IdledByClock, EarlyClock!PausesTold
<1>32. Early!Next <=> EarlyClock!Next
  BY <1>20, <1>21, <1>22, <1>23, <1>24, <1>25, <1>26, <1>27, <1>28, <1>29, Zenon DEF Early!Next, EarlyClock!Next
<1> QED
  BY <1>1, <1>2, <1>3, <1>4, <1>30, <1>31, <1>32

-----------------------------------------------------------------------------
(* The idle clock. *)

\* Both clocks are in a state of IdleClockProofs' invariant.
ClocksKnow ==
  /\ part = "live" => LiveClock!TimeInv /\ LiveClock!KnownInv
  /\ part = "early" => EarlyClock!TimeInv /\ EarlyClock!KnownInv

LEMMA ClocksFirst == PartsInit => ClocksKnow
BY LiveAssumption, EarlyAssumption, LiveBegins, EarlyBegins, SameLiveClock, SameEarlyClock,
   LiveClock!TimeFirst, LiveClock!KnownFirst, EarlyClock!TimeFirst, EarlyClock!KnownFirst DEF ClocksKnow

LEMMA ClocksKept == ClocksKnow /\ [PartsNext]_<<part, vars, clockVars, costVars, spareVars>> => ClocksKnow'
<1> SUFFICES ASSUME ClocksKnow, [PartsNext]_<<part, vars, clockVars, costVars, spareVars>> PROVE ClocksKnow'
  OBVIOUS
<1>1. part' = part
  BY DEF PartsNext, In, Clock
<1>2. CASE part = "live"
  <2>1. LiveClock!Assumptions /\ LiveClock!TimeInv /\ LiveClock!KnownInv /\ [LiveClock!Next]_(LiveClock!vars)
    BY <1>2, LiveAssumption, LiveMoves, SameLiveClock DEF ClocksKnow
  <2> QED
    BY <1>1, <1>2, <2>1, LiveClock!TimeKept, LiveClock!KnownKept DEF ClocksKnow
<1>3. CASE part = "early"
  <2>1. EarlyClock!Assumptions /\ EarlyClock!TimeInv /\ EarlyClock!KnownInv /\ [EarlyClock!Next]_(EarlyClock!vars)
    BY <1>3, EarlyAssumption, EarlyMoves, SameEarlyClock DEF ClocksKnow
  <2> QED
    BY <1>1, <1>3, <2>1, EarlyClock!TimeKept, EarlyClock!KnownKept DEF ClocksKnow
<1> QED
  BY <1>1, <1>2, <1>3 DEF ClocksKnow

\* The property NeverPausedEarly: whatever an operator saw and didn't write before another took over, missed, or
\* couldn't read, a workload it makes Idle has gone unused, and been watched, for as long as its idleAfter, or as
\* a pause the forecast brings forward must wait (evaluateActivity, observeActivity, mergeActivity).
THEOREM NeverEarlyBeside == PartsSpec => NeverPausedEarly
<1>1. PartsInit => ClocksKnow
  BY ClocksFirst
<1>2. ClocksKnow /\ [PartsNext]_<<part, vars, clockVars, costVars, spareVars>> => ClocksKnow'
  BY ClocksKept
<1>3. ClocksKnow /\ [PartsNext]_<<part, vars, clockVars, costVars, spareVars>> =>
        [/\ part = "live" => Live!PausesLate
         /\ part = "early" => Early!PausesLate]_clockVars
  <2> SUFFICES ASSUME ClocksKnow, [PartsNext]_<<part, vars, clockVars, costVars, spareVars>>
               PROVE  /\ part = "live" => Live!PausesLate
                      /\ part = "early" => Early!PausesLate
    OBVIOUS
  <2>1. CASE part = "live"
    BY <2>1, LiveAssumption, LiveMoves, SameLiveClock, LiveClock!WhenIdle DEF ClocksKnow, LiveClock!PausesLate
  <2>2. CASE part = "early"
    BY <2>2, EarlyAssumption, EarlyMoves, SameEarlyClock, EarlyClock!WhenIdle DEF ClocksKnow, EarlyClock!PausesLate
  <2> QED
    BY <2>1, <2>2
<1> QED
  BY <1>1, <1>2, <1>3, PTL DEF PartsSpec, NeverPausedEarly

ClocksTell ==
  /\ part = "live" => LiveClock!UntoldInv
  /\ part = "early" => EarlyClock!UntoldInv

\* The property GapTold: a clock that restarted for a gap in watching has been told of before the workload goes Idle
\* by it.  idleAfter is more than two minutes, and a pause brought forward waits longer than a gap may last, as
\* earlyPauseIdle's twenty do (evaluateActivity).
THEOREM GapsToldBeside ==
  ASSUME IdleAfter > 2, LongIdleAfter > 2, EarlyAfter > Live!GapTolerance, EarlyAfter > Early!GapTolerance
  PROVE  PartsSpec => GapTold
<1>0. LiveClock!TellsFirst /\ EarlyClock!TellsFirst
  BY SameLiveClock, SameEarlyClock DEF LiveClock!TellsFirst, EarlyClock!TellsFirst
<1> DEFINE Inv == ClocksKnow /\ ClocksTell
<1>1. PartsInit => Inv
  <2> SUFFICES ASSUME PartsInit PROVE Inv
    OBVIOUS
  <2>1. part = "live" => LiveClock!UntoldInv
    BY LiveAssumption, LiveBegins, SameLiveClock, LiveClock!UntoldFirst
  <2>2. part = "early" => EarlyClock!UntoldInv
    BY EarlyAssumption, EarlyBegins, SameEarlyClock, EarlyClock!UntoldFirst
  <2> QED
    BY <2>1, <2>2, ClocksFirst DEF ClocksTell
<1>2. Inv /\ [PartsNext]_<<part, vars, clockVars, costVars, spareVars>> => Inv'
  <2> SUFFICES ASSUME Inv, [PartsNext]_<<part, vars, clockVars, costVars, spareVars>> PROVE Inv'
    OBVIOUS
  <2>1. part' = part
    BY DEF PartsNext, In, Clock
  <2>2. CASE part = "live"
    BY <1>0, <2>1, <2>2, LiveAssumption, LiveMoves, SameLiveClock, LiveClock!UntoldKept, ClocksKept DEF ClocksKnow, ClocksTell
  <2>3. CASE part = "early"
    BY <1>0, <2>1, <2>3, EarlyAssumption, EarlyMoves, SameEarlyClock, EarlyClock!UntoldKept, ClocksKept DEF ClocksKnow, ClocksTell
  <2> QED
    BY <2>1, <2>2, <2>3, ClocksKept DEF ClocksTell
<1>3. Inv /\ [PartsNext]_<<part, vars, clockVars, costVars, spareVars>> =>
        [/\ part = "live" => Live!PausesTold
         /\ part = "early" => Early!PausesTold]_clockVars
  <2> SUFFICES ASSUME Inv, [PartsNext]_<<part, vars, clockVars, costVars, spareVars>>
               PROVE  /\ part = "live" => Live!PausesTold
                      /\ part = "early" => Early!PausesTold
    OBVIOUS
  <2>1. CASE part = "live"
    BY <1>0, <2>1, LiveAssumption, LiveMoves, SameLiveClock, LiveClock!WhatIsTold DEF ClocksKnow, ClocksTell, LiveClock!PausesTold
  <2>2. CASE part = "early"
    BY <1>0, <2>2, EarlyAssumption, EarlyMoves, SameEarlyClock, EarlyClock!WhatIsTold DEF ClocksKnow, ClocksTell, EarlyClock!PausesTold
  <2> QED
    BY <2>1, <2>2
<1> QED
  BY <1>1, <1>2, <1>3, PTL DEF PartsSpec, GapTold

\* The dry-run clock is in a state of IdleClockProofs' invariant.
DryKnows == part = "dry" => DryClock!TimeInv /\ DryClock!DryInv

\* The property WouldBePausesCounted: what ends a would-be pause is use or a hold since it began, never a gap or a
\* query that showed activity as it was asked for, and what it adds to the time slept is time the workload was Idle
\* for (beginWouldBePause, endWouldBePause, observeActivity).
THEOREM WouldBeBeside == PartsSpec => WouldBePausesCounted
<1>1. PartsInit => DryKnows
  BY DryAssumption, DryBegins, SameDryClock, DryClock!TimeFirst, DryClock!DryFirst DEF DryKnows
<1>2. DryKnows /\ [PartsNext]_<<part, vars, clockVars, costVars, spareVars>> =>
        DryKnows' /\ (part = "dry" => Dry!EndsByUse /\ Dry!CountsIdleTime)
  <2> SUFFICES ASSUME DryKnows, [PartsNext]_<<part, vars, clockVars, costVars, spareVars>>
               PROVE  DryKnows' /\ (part = "dry" => Dry!EndsByUse /\ Dry!CountsIdleTime)
    OBVIOUS
  <2>1. part' = part
    BY DEF PartsNext, In, Clock
  <2>2. CASE part = "dry"
    <3>1. DryClock!Assumptions /\ DryClock!TimeInv /\ DryClock!DryInv /\ [DryClock!Next]_(DryClock!vars)
      BY <2>2, DryAssumption, DryMoves, SameDryClock DEF DryKnows
    <3>2. DryClock!TimeInv' /\ DryClock!DryInv' /\ DryClock!EndsByUse /\ DryClock!CountsIdleTime
      BY <3>1, DryClock!TimeKept, DryClock!DryStep
    <3> QED
      BY <3>2, SameDryClock DEF DryKnows
  <2> QED
    BY <2>1, <2>2 DEF DryKnows
<1>3. DryKnows /\ [PartsNext]_<<part, vars, clockVars, costVars, spareVars>> =>
        [part = "dry" => Dry!EndsByUse /\ Dry!CountsIdleTime]_clockVars
  BY <1>2
<1> QED
  BY <1>1, <1>2, <1>3, PTL DEF PartsSpec, WouldBePausesCounted

-----------------------------------------------------------------------------
(* What pausing is counted as: its hours, and what reads and writes do.  Of  *)
(* Cost, the workload's object is object, the operator's cache of it copy.   *)

LEMMA CostConstants ==
  /\ {SampleInterval, CostFlush, MaxInterval, Pricing} \subseteq Nat \ {0} /\ {MonthStart, MaxTime, Chances} \subseteq Nat
BY CostAssumption DEF Cost!Assumptions

LEMMA CostBegins == ASSUME PartsInit, part = "cost" PROVE Cost!Init
BY DEF PartsInit

LEMMA CostMoves ==
  ASSUME [PartsNext]_<<part, vars, clockVars, costVars, spareVars>>, part = "cost"
  PROVE  part' = "cost" /\ (Cost!Next \/ UNCHANGED costVars)
BY DEF PartsNext, In, Clock

\* What's paused is a multiple of the time it's paused for.
LEMMA MoreForLonger == ASSUME NEW r \in 0..8, NEW a \in Nat, NEW b \in Nat, a <= b PROVE r * a <= r * b /\ r * a \in Nat
<1>1. r = 0 \/ r = 1 \/ r = 2 \/ r = 3 \/ r = 4 \/ r = 5 \/ r = 6 \/ r = 7 \/ r = 8
  OBVIOUS
<1> QED
  BY <1>1

LEMMA OneMore == ASSUME NEW r \in 0..8, NEW a \in Nat PROVE r * (a + 1) = r * a + r
<1>1. r = 0 \/ r = 1 \/ r = 2 \/ r = 3 \/ r = 4 \/ r = 5 \/ r = 6 \/ r = 7 \/ r = 8
  OBVIOUS
<1> QED
  BY <1>1

LEMMA RequestedIs == ASSUME NEW rs \in Cost!Snapshot PROVE Cost!Requested(rs) \in 0..8
<1>1. CASE rs = Cost!Unread
  BY <1>1 DEF Cost!Unread, Cost!Requested, Cost!Never
<1>2. CASE rs \in [replicas : 0..2, requests : 0..2]
  <2>1. rs.replicas \in {0, 1, 2} /\ rs.requests \in {0, 1, 2}
    BY <1>2
  <2> QED
    BY <2>1 DEF Cost!Requested
<1> QED
  BY <1>1, <1>2 DEF Cost!Snapshot

LEMMA MonthIs ==
  ASSUME NEW t \in Nat
  PROVE  /\ Cost!MonthOf(t) \in Nat /\ Cost!MonthOf(t) <= t
         /\ Cost!MonthOf(Cost!MonthOf(t)) = Cost!MonthOf(t)
         /\ \A u \in Nat : u <= t /\ Cost!MonthOf(u) # Cost!MonthOf(t) => u <= Cost!MonthOf(t)
BY CostConstants DEF Cost!MonthOf

\* A month's start leaves only what was last read.
LEMMA StartMonthIs ==
  ASSUME hour \in 0..MaxTime, NEW c \in Cost!Cost, c.last <= hour
  PROVE  LET m == Cost!StartMonth(c) IN
         /\ m \in Cost!Cost /\ m.running = c.running
         /\ c.last = -1 => m = c
         /\ c.last # -1 => m.last \in Nat /\ m.last <= hour /\ Cost!MonthOf(m.last) = Cost!MonthOf(hour)
         /\ \/ m = c
            \/ /\ c.last # -1 /\ Cost!MonthOf(c.last) # Cost!MonthOf(hour)
               /\ m.last = Cost!MonthOf(hour) /\ m.last >= c.last /\ m.tracked = 0 /\ m.freed = 0 /\ m.saved = 0
<1> DEFINE m == Cost!StartMonth(c)
<1>1. hour \in Nat /\ hour <= MaxTime /\ MaxTime \in Nat /\ c.last \in -1..MaxTime /\ c.running \in Cost!Snapshot /\ c.pricedAt \in -1..MaxTime /\ c.hash \in 0..2
  BY CostConstants DEF Cost!Cost, Cost!Times, Cost!Never
<1>2. CASE c.last = -1 \/ Cost!MonthOf(c.last) = Cost!MonthOf(hour)
  <2>1. m = c
    BY <1>2 DEF Cost!StartMonth, Cost!Never
  <2> QED
    BY <1>1, <1>2, <2>1
<1>3. CASE ~(c.last = -1 \/ Cost!MonthOf(c.last) = Cost!MonthOf(hour))
  <2>1. m = [Cost!NoCost EXCEPT !.running = c.running, !.pricedAt = c.pricedAt, !.hash = c.hash, !.last = Cost!MonthOf(hour)]
    BY <1>3 DEF Cost!StartMonth, Cost!Never
  <2>2. m = [last |-> Cost!MonthOf(hour), tracked |-> 0, awake |-> 0, freed |-> 0, saved |-> 0, running |-> c.running,
             pricedAt |-> c.pricedAt, hash |-> c.hash]
    BY <2>1 DEF Cost!NoCost
  <2>3. c.last \in Nat
    BY <1>1, <1>3
  <2>4. /\ Cost!MonthOf(hour) \in Nat /\ Cost!MonthOf(hour) <= hour /\ c.last <= Cost!MonthOf(hour)
        /\ Cost!MonthOf(Cost!MonthOf(hour)) = Cost!MonthOf(hour)
    BY <1>1, <1>3, <2>3, MonthIs
  <2>5. Cost!MonthOf(hour) \in -1..MaxTime
    BY <1>1, <2>4
  <2>6. m \in Cost!Cost
    BY <1>1, <2>2, <2>5 DEF Cost!Cost, Cost!Times, Cost!Never
  <2> QED
    BY <1>3, <2>2, <2>4, <2>6
<1> QED
  BY <1>2, <1>3

-----------------------------------------------------------------------------
(* What has been counted, and what may be. *)

\* What the sampler may still credit the workload wl's pause with, when next it samples.
Uncredited(wl) == Cost!Requested(wl.resources) * Cost!Smaller(hour - sampledAt, hour - wl.pausedAt)
Sum == past + object.cost.saved + credited[object.uid]

\* Scaled to zero, and not yet back.
IsKept(wl) == wl.phase = "Paused" \/ (wl.phase = "Pausing" /\ wl.pausedAt # -1)

\* The target's replicas haven't been read since the ManagedWorkload was made.  An interval begun then may be left
\* to a later phase: of the reads that takes, this many have failed.
Failed(wl) ==
  IF wl.cost.last = -1 THEN CASE wl.phase = "Pausing" -> 1 [] wl.phase = "Paused" -> 2 [] OTHER -> 0
  ELSE CASE wl.phase = "Pausing" -> 4 [] wl.phase = "Running" -> 3 [] OTHER -> 2
ReadFails == "unread" \notin CostOthers \/ Chances < 5

CostTimes ==
  /\ object.cost.last <= hour /\ copy.cost.last <= hour /\ sampledAt <= hour
  /\ object.pausedAt <= hour /\ copy.pausedAt <= hour
  /\ object.uid = 0 => credited[1] = 0 /\ copy.uid = 0
  /\ IsKept(object) => zero /\ object.pausedAt # -1
  /\ IsKept(copy) => copy.pausedAt # -1
  /\ object.phase = "Running" => object.pausedAt = -1
  /\ object.cost.running = Cost!Unread /\ "unread" \in CostOthers => turns + Failed(object) <= Chances
CostCounts ==
  /\ object.cost.last = -1 => object.cost.tracked = 0
  /\ object.cost.last # -1 => object.cost.tracked <= object.cost.last - Cost!MonthOf(object.cost.last)
  /\ object.cost.freed <= down /\ Sum <= down
  /\ object.phase = "Paused" /\ object.cost.last # -1 =>
       object.cost.freed + Cost!Requested(object.resources) * (hour - object.cost.last) <= down
  /\ sampledAt # -1 /\ IsKept(object) => Sum + Uncredited(object) <= down
  /\ sampledAt # -1 /\ IsKept(copy) /\ copy.uid = object.uid => Sum + Uncredited(copy) <= down
CostInv == Cost!TypeOK /\ CostTimes /\ CostCounts

LEMMA CostTyped ==
  ASSUME CostInv
  PROVE  /\ hour \in Nat /\ hour <= MaxTime /\ MaxTime \in Nat /\ sampledAt \in Int /\ down \in Nat /\ past \in Nat /\ turns \in Nat
         /\ turns <= Chances /\ Chances \in Nat
         /\ credited \in [0..1 -> Nat] /\ object.uid \in 0..1 /\ copy.uid \in 0..1
         /\ object.pausedAt \in Int /\ copy.pausedAt \in Int
         /\ object.cost \in Cost!Cost /\ copy.cost \in Cost!Cost
         /\ object.cost.last \in Int /\ object.cost.tracked \in Nat /\ object.cost.freed \in Nat /\ object.cost.saved \in Nat
         /\ Cost!Requested(object.resources) \in 0..8 /\ Cost!Requested(copy.resources) \in 0..8
         /\ Sum \in Nat /\ credited[object.uid] \in Nat /\ credited[copy.uid] \in Nat
<1>1. object \in Cost!Object /\ copy \in Cost!Object /\ credited \in [0..1 -> Nat] /\ sampledAt \in -1..MaxTime
  BY DEF CostInv, Cost!TypeOK, Cost!Times, Cost!Never
<1>2. /\ object.uid \in 0..1 /\ copy.uid \in 0..1 /\ object.cost \in Cost!Cost /\ copy.cost \in Cost!Cost
      /\ object.resources \in Cost!Snapshot /\ copy.resources \in Cost!Snapshot
      /\ object.pausedAt \in -1..MaxTime /\ copy.pausedAt \in -1..MaxTime
  BY <1>1 DEF Cost!Object, Cost!Times, Cost!Never
<1>3. object.cost.last \in -1..MaxTime /\ object.cost.tracked \in Nat /\ object.cost.freed \in Nat /\ object.cost.saved \in Nat
  BY <1>1, <1>2 DEF Cost!Cost, Cost!Times, Cost!Never
<1>4. hour \in 0..MaxTime /\ down \in Nat /\ past \in Nat /\ turns \in 0..Chances
  BY DEF CostInv, Cost!TypeOK
<1>5. MaxTime \in Nat /\ Chances \in Nat
  BY CostConstants
<1> QED
  BY <1>1, <1>2, <1>3, <1>4, <1>5, RequestedIs DEF Sum

\* What a reconcile that reads "can" makes of wl's cost: counted to now, or left for later with what has been read of
\* the target, and no hour of it twice.
LEMMA SettledIs ==
  ASSUME CostInv, copy = object, NEW wl \in Cost!Object, NEW can \in Cost!Readable,
         wl.cost = object.cost, wl.uid = object.uid, wl.phase = object.phase, wl.resources = object.resources
  PROVE  LET c == Cost!Settle(wl, can).cost IN
         /\ Cost!Settle(wl, can) = [wl EXCEPT !.cost = c] /\ c \in Cost!Cost /\ c.last <= hour
         /\ Cost!Settles(wl, can) => c.last = hour
         /\ c.last = -1 => c.tracked = 0
         /\ c.last # -1 => c.tracked <= c.last - Cost!MonthOf(c.last)
         /\ c.freed <= down
         /\ (IF object.cost.last # -1 /\ Cost!MonthOf(c.last) # Cost!MonthOf(object.cost.last)
             THEN past + object.cost.saved ELSE past) + c.saved + (credited[wl.uid] - Cost!Drained(wl, can)) = Sum
         /\ Cost!Drained(wl, can) \in {0, credited[wl.uid]}
         /\ ~Cost!Settles(wl, can) => /\ "replicas" \notin can /\ object.phase # "Paused" /\ object.cost.running = Cost!Unread
                                     /\ c.running = Cost!Unread /\ (c.last = -1 <=> object.cost.last = -1)
         /\ c.running = Cost!Unread => /\ object.cost.running = Cost!Unread
                                       /\ object.phase = "Paused" \/ ~Cost!Settles(wl, can)
<1> DEFINE m == Cost!StartMonth(wl.cost)
           r == Cost!Requested(wl.resources)
           k == Cost!Counted(m)
           settled == Cost!Settle(wl, can)
<1>1. /\ hour \in Nat /\ hour <= MaxTime /\ MaxTime \in Nat /\ r \in 0..8 /\ wl.cost \in Cost!Cost /\ wl.cost.last <= hour
      /\ wl.uid \in 0..1 /\ credited[wl.uid] \in Nat /\ down \in Nat /\ past \in Nat
      /\ object.cost.last \in Int /\ object.cost.tracked \in Nat /\ object.cost.freed \in Nat /\ object.cost.saved \in Nat
  BY CostTyped DEF CostInv, CostTimes
<1>2. /\ m \in Cost!Cost /\ m.running = wl.cost.running
      /\ wl.cost.last = -1 => m = wl.cost
      /\ wl.cost.last # -1 => m.last \in Nat /\ m.last <= hour /\ Cost!MonthOf(m.last) = Cost!MonthOf(hour)
      /\ \/ m = wl.cost
         \/ /\ wl.cost.last # -1 /\ Cost!MonthOf(wl.cost.last) # Cost!MonthOf(hour)
            /\ m.last = Cost!MonthOf(hour) /\ m.last >= wl.cost.last /\ m.tracked = 0 /\ m.freed = 0 /\ m.saved = 0
  BY <1>1, StartMonthIs
<1>3. wl.cost.last \in Int /\ wl.cost.last >= -1 /\ m.last \in Int /\ m.last >= -1 /\ m.tracked \in Nat /\ m.freed \in Nat /\ m.saved \in Nat /\ m.running \in Cost!Snapshot
  BY <1>1, <1>2 DEF Cost!Cost, Cost!Times, Cost!Never
<1>4. k \in Nat /\ (m.last = -1 => k = 0) /\ (m.last # -1 => k <= hour - m.last)
  BY <1>1, <1>2, <1>3, CostConstants DEF Cost!Counted, Cost!Smaller, Cost!Never
<1>5. Cost!MonthOf(hour) \in Nat /\ Cost!MonthOf(hour) <= hour
  BY <1>1, MonthIs
<1>6. m.last = -1 => m.tracked = 0
  BY <1>1, <1>2, <1>5 DEF CostInv, CostCounts
<1>7. m.last # -1 => m.tracked <= m.last - Cost!MonthOf(hour)
  BY <1>1, <1>2, <1>3, <1>5 DEF CostInv, CostCounts
<1>8. m.freed <= down
  BY <1>1, <1>2 DEF CostInv, CostCounts
<1>9. Cost!Drained(wl, can) = IF Cost!Settles(wl, can) THEN credited[wl.uid] ELSE 0
  BY DEF Cost!Drained
<1>10. (IF object.cost.last # -1 /\ Cost!MonthOf(hour) # Cost!MonthOf(object.cost.last)
        THEN past + object.cost.saved ELSE past) + m.saved = past + object.cost.saved
  BY <1>1, <1>2, <1>3
<1> DEFINE hours == IF wl.phase = "Paused" THEN Cost!AccruePaused(m, wl.resources) ELSE Cost!AccrueAwake(wl, m, can)
<1>11. settled = [wl EXCEPT !.cost = IF Cost!Settles(wl, can) THEN [hours EXCEPT !.saved = @ + credited[wl.uid]] ELSE m]
  BY DEF Cost!Settle
<1>12. ASSUME Cost!Settles(wl, can)
       PROVE  /\ hours \in Cost!Cost /\ hours.last = hour /\ hours.tracked = m.tracked + k /\ hours.saved = m.saved
              /\ hours.freed <= down
              /\ hours.running = Cost!Unread => m.running = Cost!Unread /\ wl.phase = "Paused"
  <2>1. hour \in -1..MaxTime /\ m.pricedAt \in -1..MaxTime /\ m.hash \in 0..2 /\ m.awake \in Nat /\ m.tracked + k \in Nat
    BY <1>1, <1>2, <1>3, <1>4 DEF Cost!Cost, Cost!Times, Cost!Never
  <2>2. Cost!Accumulated(m) =
          [last |-> hour, tracked |-> m.tracked + k, awake |-> m.awake, freed |-> m.freed, saved |-> m.saved,
           running |-> m.running, pricedAt |-> m.pricedAt, hash |-> m.hash]
    <3>1. Cost!Accumulated(m) = [m EXCEPT !.tracked = m.tracked + k, !.last = hour]
      BY DEF Cost!Accumulated
    <3> HIDE DEF m, k
    <3> QED
      BY <1>2, <3>1 DEF Cost!Cost
  <2>3. CASE wl.phase = "Paused"
    <3>1. r * k \in Nat /\ m.freed + r * k \in Nat
      BY <1>1, <1>3, <1>4, MoreForLonger
    <3>2. hours = [Cost!Accumulated(m) EXCEPT !.freed = @ + r * k]
      BY <2>3 DEF Cost!AccruePaused
    <3>3. hours =
            [last |-> hour, tracked |-> m.tracked + k, awake |-> m.awake, freed |-> m.freed + r * k, saved |-> m.saved,
             running |-> m.running, pricedAt |-> m.pricedAt, hash |-> m.hash]
      BY <2>2, <3>2
    <3>4. m.freed + r * k <= down
      <4>1. CASE m.last = -1
        <5>1. k = 0
          BY <1>4, <4>1
        <5> HIDE DEF r, k, m
        <5>2. r * k = 0
          BY <1>1, <5>1
        <5> QED
          BY <1>3, <1>8, <5>2
      <4>2. CASE m.last # -1
        <5>1. wl.cost.last # -1 /\ wl.cost.last \in Nat /\ wl.cost.last <= m.last
          BY <1>1, <1>2, <1>3, <4>2
        <5>2. k <= hour - wl.cost.last /\ hour - wl.cost.last \in Nat
          BY <1>1, <1>2, <1>3, <1>4, <4>2, <5>1
        <5>3. r * k <= r * (hour - wl.cost.last) /\ r * (hour - wl.cost.last) \in Nat
          BY <1>1, <1>4, <5>2, MoreForLonger
        <5>4. wl.cost.freed + r * (hour - wl.cost.last) <= down
          BY <2>3, <5>1 DEF CostInv, CostCounts
        <5>5. m.freed <= wl.cost.freed
          BY <1>1, <1>2
        <5> QED
          BY <1>1, <1>3, <3>1, <5>3, <5>4, <5>5
      <4> QED
        BY <4>1, <4>2
    <3>5. hours \in Cost!Cost
      BY <1>3, <2>1, <3>1, <3>3 DEF Cost!Cost, Cost!Times, Cost!Never
    <3> QED
      BY <2>3, <3>3, <3>4, <3>5
  <2>4. CASE wl.phase # "Paused"
    <3> DEFINE running == Cost!Running(wl, m, can)
    <3>1. running \in [replicas : 0..2, requests : 0..2]
      <4>1. replicas \in 1..2 /\ requests \in 1..2
        BY DEF CostInv, Cost!TypeOK
      <4>2. "replicas" \in can \/ m.running # Cost!Unread
        BY <1>12, <2>4 DEF Cost!Settles
      <4>3. m.running = Cost!Unread => m.running.requests = 0
        BY DEF Cost!Unread
      <4>4. m.running.requests \in 0..2 /\ ("replicas" \notin can => m.running.replicas \in 0..2)
        BY <1>3, <4>2, <4>3 DEF Cost!Snapshot
      <4> QED
        BY <4>1, <4>4 DEF Cost!Running
    <3>2. running \in Cost!Snapshot /\ running # Cost!Unread /\ running.replicas \in 0..2 /\ running.requests \in 0..2
      BY <3>1 DEF Cost!Snapshot, Cost!Unread, Cost!Never
    <3> HIDE DEF running
    <3>3. Cost!Requested(running) * k \in Nat
      BY <1>4, <3>2, RequestedIs, MoreForLonger
    <3>4. wl.hash \in 0..2
      BY DEF Cost!Object
    <3>5. hours =
            [last |-> hour, tracked |-> m.tracked + k, awake |-> m.awake + Cost!Requested(running) * k, freed |-> m.freed,
             saved |-> m.saved, running |-> running, pricedAt |-> IF Cost!PricingDue(wl, m) THEN hour ELSE m.pricedAt,
             hash |-> IF Cost!PricingDue(wl, m) THEN wl.hash ELSE m.hash]
      <4> DEFINE a == Cost!Accumulated(m)
      <4>1. hours = [a EXCEPT !.awake = a.awake + Cost!Requested(running) * k, !.running = running,
                       !.pricedAt = IF Cost!PricingDue(wl, m) THEN hour ELSE a.pricedAt,
                       !.hash = IF Cost!PricingDue(wl, m) THEN wl.hash ELSE a.hash]
        BY <2>4 DEF Cost!AccrueAwake, running
      <4> HIDE DEF a, m, k, hours
      <4>2. a = [last |-> hour, tracked |-> m.tracked + k, awake |-> m.awake, freed |-> m.freed, saved |-> m.saved,
                 running |-> m.running, pricedAt |-> m.pricedAt, hash |-> m.hash]
        BY <2>2 DEF a
      <4> QED
        BY <4>1, <4>2
    <3>6. hours \in Cost!Cost
      BY <1>3, <2>1, <3>2, <3>3, <3>4, <3>5 DEF Cost!Cost, Cost!Times, Cost!Never
    <3> QED
      BY <1>8, <3>2, <3>5, <3>6
  <2> QED
    BY <2>3, <2>4
<1> HIDE DEF hours
<1>13. CASE Cost!Settles(wl, can)
  <2> DEFINE c == [hours EXCEPT !.saved = hours.saved + credited[wl.uid]]
  <2>1. /\ c \in Cost!Cost /\ c.last = hour /\ c.tracked = hours.tracked /\ c.freed = hours.freed
        /\ c.saved = hours.saved + credited[wl.uid] /\ c.running = hours.running
    BY <1>1, <1>12, <1>13 DEF Cost!Cost
  <2>2. settled = [wl EXCEPT !.cost = c]
    BY <1>11, <1>13
  <2>3. settled.cost = c /\ settled = [wl EXCEPT !.cost = settled.cost]
    BY <2>2 DEF Cost!Object
  <2> HIDE DEF c, settled, m, k
  <2>4. c.tracked <= hour - Cost!MonthOf(hour)
    BY <1>1, <1>2, <1>3, <1>4, <1>5, <1>6, <1>7, <1>12, <1>13, <2>1
  <2>5. (IF object.cost.last # -1 /\ Cost!MonthOf(c.last) # Cost!MonthOf(object.cost.last)
         THEN past + object.cost.saved ELSE past) + c.saved + (credited[wl.uid] - Cost!Drained(wl, can)) = Sum
    BY <1>1, <1>3, <1>9, <1>10, <1>12, <1>13, <2>1 DEF Sum
  <2> QED
    BY <1>1, <1>2, <1>9, <1>12, <1>13, <2>1, <2>3, <2>4, <2>5 DEF settled
<1>14. CASE ~Cost!Settles(wl, can)
  <2>1. settled.cost = m /\ settled = [wl EXCEPT !.cost = settled.cost]
    BY <1>11, <1>14 DEF Cost!Object
  <2>2. "replicas" \notin can /\ wl.phase # "Paused" /\ m.running = Cost!Unread
    BY <1>14 DEF Cost!Settles
  <2> HIDE DEF settled, m, k
  <2>3. m.last # -1 => m.tracked <= m.last - Cost!MonthOf(m.last)
    BY <1>2, <1>7
  <2>4. (IF object.cost.last # -1 /\ Cost!MonthOf(m.last) # Cost!MonthOf(object.cost.last)
         THEN past + object.cost.saved ELSE past) + m.saved + (credited[wl.uid] - Cost!Drained(wl, can)) = Sum
    BY <1>1, <1>2, <1>3, <1>9, <1>10, <1>14 DEF Sum
  <2> QED
    BY <1>1, <1>2, <1>3, <1>6, <1>8, <1>9, <1>14, <2>1, <2>2, <2>3, <2>4 DEF settled
<1> QED
  BY <1>13, <1>14

\* A reconcile whose write fails, or that has nothing to write, loses at most what it drained.
LEMMA CostLost ==
  ASSUME CostInv, UNCHANGED <<hour, object, copy, replicas, requests, sampledAt, due, down, past>>,
         NEW d \in {0, credited[copy.uid]}, credited' = [credited EXCEPT ![copy.uid] = @ - d],
         turns' \in 0..turns, zero' \in BOOLEAN, zero => zero'
  PROVE  CostInv'
<1>1. credited' \in [0..1 -> Nat] /\ \A u \in 0..1 : credited'[u] \in Nat /\ credited'[u] <= credited[u]
  BY CostTyped
<1>2. Sum' <= Sum /\ Sum' \in Nat /\ (credited[1] = 0 => credited'[1] = 0)
  BY <1>1, CostTyped DEF Sum
<1>3. Cost!TypeOK'
  BY <1>1, CostTyped DEF CostInv, Cost!TypeOK
<1>4. CostTimes'
  <2>1. object'.uid = 0 => credited'[1] = 0 /\ copy'.uid = 0
    BY <1>2 DEF CostInv, CostTimes
  <2>2. IsKept(object)' => zero' /\ object'.pausedAt # -1
    BY DEF CostInv, CostTimes, IsKept
  <2>3. object'.cost.running = Cost!Unread /\ "unread" \in CostOthers => turns' + Failed(object)' <= Chances
    <3>1. Failed(object)' = Failed(object) /\ Failed(object) \in Nat
      BY DEF Failed
    <3> QED
      BY <3>1, CostTyped DEF CostInv, CostTimes
  <2> QED
    BY <2>1, <2>2, <2>3 DEF CostInv, CostTimes, IsKept
<1>5. CostCounts'
  <2>1. Sum' <= down'
    BY <1>2, CostTyped DEF CostInv, CostCounts
  <2>2. ASSUME NEW wl \in Cost!Object, sampledAt # -1, Sum + Uncredited(wl) <= down, IsKept(wl), wl.pausedAt <= hour, wl.pausedAt # -1
        PROVE  Sum' + Uncredited(wl) <= down
    <3>1. Uncredited(wl) \in Nat
      <4>1. Cost!Requested(wl.resources) \in 0..8 /\ wl.pausedAt \in Int
        BY RequestedIs DEF Cost!Object, Cost!Times, Cost!Never
      <4>2. hour - sampledAt \in Nat /\ hour - wl.pausedAt \in Nat
        BY <2>2, <4>1, CostTyped DEF CostInv, CostTimes
      <4> QED
        BY <4>1, <4>2, MoreForLonger DEF Uncredited, Cost!Smaller
    <3> QED
      BY <1>2, <2>2, <3>1, CostTyped
  <2>3. object \in Cost!Object /\ copy \in Cost!Object
    BY DEF CostInv, Cost!TypeOK
  <2>4. sampledAt' # -1 /\ IsKept(object)' => Sum' + Uncredited(object)' <= down'
    BY <2>2, <2>3 DEF CostInv, CostTimes, CostCounts, Uncredited, IsKept
  <2>5. sampledAt' # -1 /\ IsKept(copy)' /\ copy'.uid = object'.uid => Sum' + Uncredited(copy)' <= down'
    BY <2>2, <2>3 DEF CostInv, CostTimes, CostCounts, Uncredited, IsKept
  <2> QED
    BY <2>1, <2>4, <2>5 DEF CostInv, CostCounts
<1> QED
  BY <1>3, <1>4, <1>5 DEF CostInv

\* Each write of what was settled moves the workload on, or leaves it as it is.
Moves == {<<"Running", "Running">>, <<"Running", "Pausing">>, <<"Pausing", "Paused">>, <<"Pausing", "Resuming">>,
          <<"Paused", "Paused">>, <<"Paused", "Resuming">>, <<"Resuming", "Running">>}

LEMMA CostWritten ==
  ASSUME CostInv, ReadFails, copy = object, UNCHANGED <<hour, copy, replicas, requests, sampledAt, due, down>>,
         NEW wl \in Cost!Object, NEW can \in Cost!Readable, Cost!Spends(can),
         wl.cost = object.cost, wl.uid = object.uid, wl.phase = object.phase, wl.resources = object.resources,
         credited' = [credited EXCEPT ![copy.uid] = @ - Cost!Drained(wl, can)],
         NEW phase, NEW hash \in 0..2, NEW pausedAt \in -1..hour, NEW resources \in Cost!Snapshot,
         object' = [uid |-> object.uid, phase |-> phase, cost |-> Cost!Settle(wl, can).cost, hash |-> hash,
                    pausedAt |-> pausedAt, resources |-> resources],
         past' = IF object.cost.last # -1 /\ Cost!MonthOf(object'.cost.last) # Cost!MonthOf(object.cost.last)
                 THEN past + object.cost.saved ELSE past,
         <<object.phase, phase>> \in Moves,
         zero' \in BOOLEAN, phase = "Paused" => zero' /\ pausedAt # -1,
         phase \in {"Running", "Pausing"} => pausedAt = -1,
         phase = "Paused" => \/ IsKept(object) /\ pausedAt = object.pausedAt /\ resources = object.resources
                             \/ pausedAt = hour
  PROVE  CostInv'
<1> DEFINE c == Cost!Settle(wl, can).cost
<1>1. /\ c \in Cost!Cost /\ c.last <= hour
      /\ Cost!Settles(wl, can) => c.last = hour
      /\ c.last = -1 => c.tracked = 0
      /\ c.last # -1 => c.tracked <= c.last - Cost!MonthOf(c.last)
      /\ c.freed <= down
      /\ (IF object.cost.last # -1 /\ Cost!MonthOf(c.last) # Cost!MonthOf(object.cost.last)
          THEN past + object.cost.saved ELSE past) + c.saved + (credited[wl.uid] - Cost!Drained(wl, can)) = Sum
      /\ Cost!Drained(wl, can) \in {0, credited[wl.uid]}
      /\ ~Cost!Settles(wl, can) => /\ "replicas" \notin can /\ object.phase # "Paused" /\ object.cost.running = Cost!Unread
                                  /\ c.running = Cost!Unread /\ (c.last = -1 <=> object.cost.last = -1)
      /\ c.running = Cost!Unread => /\ object.cost.running = Cost!Unread
                                    /\ object.phase = "Paused" \/ ~Cost!Settles(wl, can)
  BY SettledIs
<1> HIDE DEF c
<1>2. object'.cost = c /\ object'.phase = phase /\ object'.pausedAt = pausedAt /\ object'.resources = resources /\ object'.uid = object.uid
  BY DEF c
<1>3. credited' \in [0..1 -> Nat] /\ credited'[object.uid] = credited[object.uid] - Cost!Drained(wl, can)
      /\ (object.uid = 0 => credited'[1] = credited[1]) /\ past' \in Nat /\ object.uid \in 0..1
  BY <1>1, CostTyped
<1>4. Sum' = Sum
  BY <1>1, <1>2, <1>3 DEF Sum
<1>5. phase \in {"Running", "Pausing", "Paused", "Resuming"}
  BY DEF Moves
<1>6. /\ turns' \in Nat /\ turns' <= turns
      /\ "replicas" \notin can => turns' = turns - 1 /\ turns > 0 /\ "unread" \in CostOthers
  BY CostTyped DEF Cost!Spends, Cost!Readable, Cost!All
<1>7. object' \in Cost!Object
  <2>1. pausedAt \in -1..MaxTime /\ object.uid \in 0..1
    BY CostTyped
  <2> QED
    BY <1>1, <1>5, <2>1 DEF Cost!Object, Cost!Times, Cost!Never, c
<1>8. Cost!TypeOK'
  BY <1>3, <1>6, <1>7, CostTyped DEF CostInv, Cost!TypeOK
<1>9. ASSUME phase = "Paused", c.last # -1 PROVE c.last = hour
  <2>1. SUFFICES ASSUME ~Cost!Settles(wl, can) PROVE FALSE
    BY <1>1
  <2>2. object.phase = "Pausing" /\ object.cost.last # -1 /\ object.cost.running = Cost!Unread
    BY <1>1, <1>9, <2>1 DEF Moves
  <2>3. turns + 4 <= Chances /\ turns > 0 /\ "unread" \in CostOthers
    BY <1>1, <1>6, <2>1, <2>2 DEF CostInv, CostTimes, Failed
  <2> QED
    BY <2>3, CostTyped DEF ReadFails
<1>10. object'.cost.running = Cost!Unread /\ "unread" \in CostOthers => turns' + Failed(object)' <= Chances
  <2>1. SUFFICES ASSUME c.running = Cost!Unread, "unread" \in CostOthers PROVE turns' + Failed(object)' <= Chances
    BY <1>2
  <2>2. object.cost.running = Cost!Unread /\ turns + Failed(object) <= Chances
    BY <1>1, <2>1 DEF CostInv, CostTimes
  <2>3. CASE Cost!Settles(wl, can)
    <3>1. object.phase = "Paused" /\ phase \in {"Paused", "Resuming"} /\ c.last # -1
      BY <1>1, <2>1, <2>3, CostTyped DEF Moves
    <3>2. Failed(object) = 2 /\ Failed(object)' = 2
      BY <1>2, <3>1 DEF Failed
    <3> QED
      BY <1>6, <2>2, <3>2, CostTyped
  <2>4. CASE ~Cost!Settles(wl, can)
    <3>1. turns' = turns - 1 /\ object.phase # "Paused" /\ (c.last = -1 <=> object.cost.last = -1)
      BY <1>1, <1>6, <2>4
    <3>2. Failed(object)' <= Failed(object) + 1 /\ Failed(object) \in Nat /\ Failed(object)' \in Nat
      <4>1. CASE object.cost.last = -1
        <5>1. c.last = -1
          BY <3>1, <4>1
        <5> QED
          BY <1>2, <3>1, <4>1, <5>1 DEF Failed, Moves
      <4>2. CASE object.cost.last # -1
        <5>1. c.last # -1
          BY <3>1, <4>2
        <5> QED
          BY <1>2, <3>1, <4>2, <5>1 DEF Failed, Moves
      <4> QED
        BY <4>1, <4>2
    <3> QED
      BY <1>6, <2>2, <3>1, <3>2, CostTyped
  <2> QED
    BY <2>3, <2>4
<1>11. CostTimes'
  <2>1. object'.cost.last <= hour' /\ object'.pausedAt <= hour'
    BY <1>1, <1>2, CostTyped
  <2>2. object'.uid = 0 => credited'[1] = 0 /\ copy'.uid = 0
    BY <1>2, <1>3 DEF CostInv, CostTimes
  <2>3. IsKept(object)' => zero' /\ object'.pausedAt # -1
    BY <1>2 DEF IsKept
  <2>4. object'.phase = "Running" => object'.pausedAt = -1
    BY <1>2
  <2> QED
    BY <1>10, <2>1, <2>2, <2>3, <2>4 DEF CostInv, CostTimes, IsKept
<1>12. sampledAt' # -1 /\ IsKept(object)' => Sum' + Uncredited(object)' <= down'
  <2>1. SUFFICES ASSUME sampledAt # -1, phase = "Paused" PROVE Sum' + Uncredited(object)' <= down
    BY <1>2 DEF IsKept
  <2>2. CASE IsKept(object) /\ pausedAt = object.pausedAt /\ resources = object.resources
    <3>1. Uncredited(object)' = Uncredited(object)
      BY <1>2, <2>2 DEF Uncredited
    <3> QED
      BY <1>4, <2>1, <2>2, <3>1 DEF CostInv, CostCounts
  <2>3. CASE pausedAt = hour
    <3>1. Cost!Requested(resources) \in 0..8
      BY RequestedIs
    <3>2. Cost!Smaller(hour - sampledAt, hour - hour) = 0
      BY CostTyped DEF CostInv, CostTimes, Cost!Smaller
    <3>3. Uncredited(object)' = 0
      BY <1>2, <2>3, <3>1, <3>2 DEF Uncredited
    <3> QED
      BY <1>4, <3>3, CostTyped DEF CostInv, CostCounts
  <2> QED
    BY <2>1, <2>2, <2>3
<1>13. sampledAt' # -1 /\ IsKept(copy)' /\ copy'.uid = object'.uid => Sum' + Uncredited(copy)' <= down'
  <2>1. Uncredited(copy)' = Uncredited(copy) /\ (IsKept(copy)' <=> IsKept(copy))
    BY DEF Uncredited, IsKept
  <2> QED
    BY <1>2, <1>4, <2>1 DEF CostInv, CostCounts
<1>14. object'.phase = "Paused" /\ object'.cost.last # -1 =>
         object'.cost.freed + Cost!Requested(object'.resources) * (hour' - object'.cost.last) <= down'
  <2>1. SUFFICES ASSUME phase = "Paused", c.last # -1 PROVE c.freed + Cost!Requested(resources) * (hour - hour) <= down
    BY <1>2, <1>9
  <2>2. Cost!Requested(resources) \in 0..8 /\ c.freed \in Nat
    BY <1>1, RequestedIs DEF Cost!Cost
  <2> QED
    BY <1>1, <2>2, CostTyped
<1>15. CostCounts'
  BY <1>1, <1>2, <1>4, <1>12, <1>13, <1>14 DEF CostInv, CostCounts
<1> QED
  BY <1>8, <1>11, <1>15 DEF CostInv

-----------------------------------------------------------------------------
(* One lemma per step. *)

LEMMA CostFirst == Cost!Init => CostInv
<1> SUFFICES ASSUME Cost!Init PROVE CostInv
  OBVIOUS
<1>1. MaxTime \in Nat /\ Chances \in Nat
  BY CostConstants
<1>2. /\ hour = 0 /\ sampledAt = -1 /\ down = 0 /\ past = 0 /\ turns = Chances /\ zero = FALSE /\ due = 0
      /\ replicas = 1 /\ requests = 1 /\ credited = [u \in 0..1 |-> 0]
  BY DEF Cost!Init, Cost!Never
<1>3. /\ object = Cost!New(0) /\ copy = Cost!New(0)
      /\ Cost!New(0) = [uid |-> 0, phase |-> "Running", cost |-> Cost!NoCost, hash |-> 0, pausedAt |-> -1, resources |-> Cost!Unread]
  BY DEF Cost!Init, Cost!New, Cost!Never
<1>4. Cost!NoCost = [last |-> -1, tracked |-> 0, awake |-> 0, freed |-> 0, saved |-> 0, running |-> Cost!Unread, pricedAt |-> -1, hash |-> 0]
  BY DEF Cost!NoCost, Cost!Never
<1>5. Cost!Unread \in Cost!Snapshot
  BY DEF Cost!Snapshot
<1>6. Cost!NoCost \in Cost!Cost
  BY <1>1, <1>4, <1>5 DEF Cost!Cost, Cost!Times, Cost!Never
<1>7. Cost!New(0) \in Cost!Object
  BY <1>1, <1>3, <1>5, <1>6 DEF Cost!Object, Cost!Times, Cost!Never
<1>8. Cost!TypeOK
  <2>1. zero \in BOOLEAN
    BY <1>2, Zenon
  <2>2. credited \in [0..1 -> Nat] /\ sampledAt \in -1..MaxTime /\ turns \in 0..Chances /\ hour \in 0..MaxTime
    BY <1>1, <1>2
  <2> QED
    BY <1>2, <1>3, <1>7, <2>1, <2>2 DEF Cost!TypeOK, Cost!Times, Cost!Never
<1>9. CostTimes
  BY <1>1, <1>2, <1>3, <1>4 DEF CostTimes, IsKept, Failed
<1>10. CostCounts
  BY <1>1, <1>2, <1>3, <1>4 DEF CostCounts, Sum, IsKept
<1> QED
  BY <1>8, <1>9, <1>10 DEF CostInv

LEMMA SettledHas ==
  ASSUME NEW wl \in Cost!Object, NEW can
  PROVE  Cost!Settle(wl, can) = [uid |-> wl.uid, phase |-> wl.phase, cost |-> Cost!Settle(wl, can).cost, hash |-> wl.hash,
                                pausedAt |-> wl.pausedAt, resources |-> wl.resources]
<1> DEFINE s == Cost!Settle(wl, can)
<1>1. \E x : s = [wl EXCEPT !.cost = x]
  BY Zenon DEF Cost!Settle
<1>2. wl = [uid |-> wl.uid, phase |-> wl.phase, cost |-> wl.cost, hash |-> wl.hash, pausedAt |-> wl.pausedAt, resources |-> wl.resources]
  BY DEF Cost!Object
<1> HIDE DEF s
<1>3. PICK x : s = [wl EXCEPT !.cost = x]
  BY <1>1
<1>4. s = [uid |-> wl.uid, phase |-> wl.phase, cost |-> x, hash |-> wl.hash, pausedAt |-> wl.pausedAt, resources |-> wl.resources]
  BY <1>2, <1>3
<1> QED
  BY <1>4 DEF s

\* What a failed or an unneeded write leaves.
LEMMA CostUnwritten ==
  ASSUME CostInv, UNCHANGED <<hour, object, copy, replicas, requests, sampledAt, due, down, past>>,
         NEW wl, wl.uid = copy.uid, NEW can \in Cost!Readable,
         credited' = [credited EXCEPT ![wl.uid] = @ - Cost!Drained(wl, can)],
         turns' \in 0..turns, zero' \in BOOLEAN, zero => zero'
  PROVE  CostInv'
<1>1. Cost!Drained(wl, can) \in {0, credited[copy.uid]}
  BY DEF Cost!Drained
<1>2. credited' = [credited EXCEPT ![copy.uid] = @ - Cost!Drained(wl, can)]
  OBVIOUS
<1> QED
  BY <1>1, <1>2, CostLost

LEMMA CostSpends ==
  ASSUME CostInv, NEW can \in Cost!Readable, Cost!Spends(can)
  PROVE  turns' \in 0..turns
BY CostTyped DEF Cost!Spends, Cost!Readable

\* What a reconcile starts from.
LEMMA CostHas ==
  ASSUME CostInv
  PROVE  /\ copy \in Cost!Object /\ object \in Cost!Object /\ zero \in BOOLEAN /\ replicas \in 1..2 /\ requests \in 1..2
         /\ copy = [uid |-> copy.uid, phase |-> copy.phase, cost |-> copy.cost, hash |-> copy.hash, pausedAt |-> copy.pausedAt,
                    resources |-> copy.resources]
         /\ copy.hash \in 0..2 /\ copy.resources \in Cost!Snapshot /\ copy.pausedAt \in -1..MaxTime
         /\ copy.phase \in {"Running", "Pausing", "Paused", "Resuming"}
         /\ copy.cost \in Cost!Cost /\ hour \in 0..MaxTime
BY DEF CostInv, Cost!TypeOK, Cost!Object, Cost!Times, Cost!Never

LEMMA CostChecked ==
  ASSUME CostInv, ReadFails, NEW can \in Cost!Readable, Cost!Check(can)
  PROVE  CostInv'
<1> DEFINE wl == IF copy.phase = "Running" THEN [copy EXCEPT !.hash = requests] ELSE copy
<1>1. /\ copy.phase \in {"Running", "Paused"} /\ Cost!Drain(wl, can) /\ Cost!Writes(Cost!Settle(wl, can)) /\ Cost!Spends(can)
      /\ UNCHANGED <<hour, copy, replicas, requests, zero, sampledAt, due, down>>
  BY DEF Cost!Check
<1>2. wl \in Cost!Object /\ wl.uid = copy.uid /\ wl.phase = copy.phase /\ wl.cost = copy.cost /\ wl.pausedAt = copy.pausedAt
      /\ wl.resources = copy.resources /\ wl.hash \in 0..2
  <2>1. CASE copy.phase = "Running"
    <3>1. wl = [copy EXCEPT !.hash = requests]
      BY <2>1
    <3> HIDE DEF wl
    <3>2. wl = [uid |-> copy.uid, phase |-> copy.phase, cost |-> copy.cost, hash |-> requests, pausedAt |-> copy.pausedAt,
               resources |-> copy.resources]
      BY <3>1, CostHas
    <3> QED
      BY <3>2, CostHas, CostTyped DEF Cost!Object, Cost!Times, Cost!Never
  <2>2. CASE copy.phase # "Running"
    BY <2>2, CostHas
  <2> QED
    BY <2>1, <2>2
<1> HIDE DEF wl
<1>3. credited' = [credited EXCEPT ![wl.uid] = @ - Cost!Drained(wl, can)] /\ turns' \in 0..turns
  BY <1>1, CostSpends DEF Cost!Drain
<1>4. CASE copy # object
  <2>1. UNCHANGED <<object, past>>
    BY <1>1, <1>4 DEF Cost!Writes
  <2>2. zero' \in BOOLEAN
    BY <1>1, CostHas
  <2> QED
    BY <1>1, <1>2, <1>3, <2>1, <2>2, CostUnwritten
<1>5. CASE copy = object
  <2>1. /\ object' = Cost!Settle(wl, can)
        /\ past' = IF object.cost.last # -1 /\ Cost!MonthOf(object'.cost.last) # Cost!MonthOf(object.cost.last)
                   THEN past + object.cost.saved ELSE past
    BY <1>1, <1>5 DEF Cost!Writes, Cost!Store, Cost!Never
  <2>2. object' = [uid |-> object.uid, phase |-> object.phase, cost |-> Cost!Settle(wl, can).cost, hash |-> wl.hash,
                   pausedAt |-> object.pausedAt, resources |-> object.resources]
    BY <1>2, <1>5, <2>1, SettledHas
  <2>3. object.pausedAt \in -1..hour
    BY <1>5, CostHas, CostTyped DEF CostInv, CostTimes
  <2>4. /\ object.phase = "Paused" => zero' /\ object.pausedAt # -1 /\ IsKept(object)
        /\ object.phase \in {"Running", "Pausing"} => object.pausedAt = -1
    BY <1>1, <1>5 DEF CostInv, CostTimes, IsKept
  <2>5. <<object.phase, object.phase>> \in Moves
    BY <1>1, <1>5 DEF Moves
  <2>6. zero' \in BOOLEAN /\ object.resources \in Cost!Snapshot
    BY <1>1, <1>5, CostHas
  <2>7. credited' = [credited EXCEPT ![copy.uid] = @ - Cost!Drained(wl, can)]
    BY <1>2, <1>3
  <2> QED
    BY <1>1, <1>2, <1>5, <2>1, <2>2, <2>3, <2>4, <2>5, <2>6, <2>7, CostWritten
<1> QED
  BY <1>4, <1>5

LEMMA CostFails ==
  ASSUME CostInv, NEW can \in Cost!Readable, Cost!WriteFails(can)
  PROVE  CostInv'
<1>1. /\ UNCHANGED <<hour, object, copy, replicas, requests, zero, sampledAt, due, down, past>>
      /\ credited' = [credited EXCEPT ![copy.uid] = @ - Cost!Drained(copy, can)] /\ turns > 0 /\ turns' = turns - 1
  BY DEF Cost!WriteFails, Cost!Drain
<1>2. turns' \in 0..turns /\ zero' \in BOOLEAN /\ (zero => zero')
  BY <1>1, CostTyped, CostHas
<1> QED
  BY <1>1, <1>2, CostUnwritten

\* What a reconcile that settles and moves a workload on writes.
LEMMA CostTurns ==
  ASSUME CostInv, ReadFails, NEW can \in Cost!Readable, Cost!Spends(can), Cost!Drain(copy, can),
         NEW phase, NEW pausedAt, NEW resources \in Cost!Snapshot, <<copy.phase, phase>> \in Moves, phase # "Paused",
         phase \in {"Running", "Pausing"} => pausedAt = -1, pausedAt \in {-1, copy.pausedAt},
         Cost!Writes([uid |-> copy.uid, phase |-> phase, cost |-> Cost!Settle(copy, can).cost, hash |-> copy.hash,
                      pausedAt |-> pausedAt, resources |-> resources]),
         zero' \in BOOLEAN, copy # object => (zero' <=> zero),
         UNCHANGED <<hour, copy, replicas, requests, sampledAt, due, down>>
  PROVE  CostInv'
<1>1. credited' = [credited EXCEPT ![copy.uid] = @ - Cost!Drained(copy, can)] /\ turns' \in 0..turns
  BY CostSpends DEF Cost!Drain
<1>2. CASE copy # object
  <2>1. UNCHANGED <<object, past>>
    BY <1>2 DEF Cost!Writes
  <2> QED
    BY <1>1, <1>2, <2>1, CostUnwritten
<1>3. CASE copy = object
  <2>1. /\ object' = [uid |-> copy.uid, phase |-> phase, cost |-> Cost!Settle(copy, can).cost, hash |-> copy.hash,
                      pausedAt |-> pausedAt, resources |-> resources]
        /\ past' = IF object.cost.last # -1 /\ Cost!MonthOf(object'.cost.last) # Cost!MonthOf(object.cost.last)
                   THEN past + object.cost.saved ELSE past
    BY <1>3 DEF Cost!Writes, Cost!Store, Cost!Never
  <2>2. object' = [uid |-> object.uid, phase |-> phase, cost |-> Cost!Settle(copy, can).cost, hash |-> object.hash,
                   pausedAt |-> pausedAt, resources |-> resources]
    BY <1>3, <2>1
  <2>3. pausedAt \in -1..hour /\ object.hash \in 0..2
    BY <1>3, CostHas, CostTyped DEF CostInv, CostTimes
  <2>4. /\ copy.cost = object.cost /\ copy.uid = object.uid /\ copy.phase = object.phase /\ copy.resources = object.resources
        /\ copy \in Cost!Object /\ <<object.phase, phase>> \in Moves
    BY <1>3, CostHas
  <2>5. /\ phase = "Paused" => zero' /\ pausedAt # -1
        /\ phase = "Paused" => \/ IsKept(object) /\ pausedAt = object.pausedAt /\ resources = object.resources
                               \/ pausedAt = hour
    OBVIOUS
  <2>6. credited' = [credited EXCEPT ![copy.uid] = @ - Cost!Drained(copy, can)]
    BY <1>1
  <2> QED
    BY <1>3, <2>1, <2>2, <2>3, <2>4, <2>5, <2>6, CostWritten
<1> QED
  BY <1>2, <1>3

LEMMA CostPauses ==
  ASSUME CostInv, ReadFails, NEW can \in Cost!Readable, Cost!BeginPause(can)
  PROVE  CostInv'
<1> DEFINE s == Cost!Settle(copy, can)
           rs == Cost!CaptureResourceSnapshot(copy, can)
<1>1. /\ copy.phase = "Running" /\ Cost!Drain(copy, can) /\ Cost!Spends(can)
      /\ Cost!Writes([s EXCEPT !.phase = "Pausing", !.resources = rs])
      /\ UNCHANGED <<hour, copy, replicas, requests, zero, sampledAt, due, down>>
  BY DEF Cost!BeginPause
<1>2. s = [uid |-> copy.uid, phase |-> copy.phase, cost |-> s.cost, hash |-> copy.hash, pausedAt |-> copy.pausedAt,
           resources |-> copy.resources]
  BY CostHas, SettledHas
<1>3. rs \in Cost!Snapshot
  <2>1. copy.cost.running.requests \in 0..2
    <3>1. copy.cost.running \in Cost!Snapshot
      BY CostHas DEF Cost!Cost
    <3> QED
      BY <3>1 DEF Cost!Snapshot, Cost!Unread
  <2> QED
    BY <2>1, CostHas DEF Cost!CaptureResourceSnapshot, Cost!Snapshot
<1> HIDE DEF s, rs
<1>4. PICK c : s.cost = c
  OBVIOUS
<1>5. [s EXCEPT !.phase = "Pausing", !.resources = rs] =
      [uid |-> copy.uid, phase |-> "Pausing", cost |-> c, hash |-> copy.hash, pausedAt |-> copy.pausedAt, resources |-> rs]
  <2>1. s = [uid |-> copy.uid, phase |-> copy.phase, cost |-> c, hash |-> copy.hash, pausedAt |-> copy.pausedAt,
             resources |-> copy.resources]
    BY <1>2, <1>4, Zenon
  <2>2. PICK new : new = [s EXCEPT !.phase = "Pausing", !.resources = rs]
    OBVIOUS
  <2>3. new = [uid |-> copy.uid, phase |-> "Pausing", cost |-> c, hash |-> copy.hash, pausedAt |-> copy.pausedAt, resources |-> rs]
    BY <2>1, <2>2
  <2> QED
    BY <2>2, <2>3
<1>6. copy # object => (zero' <=> zero)
  BY <1>1
<1>7. zero' \in BOOLEAN
  BY <1>1, CostHas
<1>8. Cost!Writes([uid |-> copy.uid, phase |-> "Pausing", cost |-> Cost!Settle(copy, can).cost, hash |-> copy.hash,
                   pausedAt |-> copy.pausedAt, resources |-> rs])
  BY <1>1, <1>4, <1>5, Zenon DEF s
<1>9. <<copy.phase, "Pausing">> \in Moves
  BY <1>1 DEF Moves
<1>10. CASE copy = object
  <2>1. copy.pausedAt = -1
    BY <1>1, <1>10 DEF CostInv, CostTimes
  <2> QED
    BY <1>1, <1>3, <1>6, <1>7, <1>8, <1>9, <2>1, CostTurns
<1>11. CASE copy # object
  <2>1. UNCHANGED <<object, past>>
    BY <1>1, <1>11 DEF Cost!Writes
  <2> QED
    BY <1>1, <1>6, <1>7, <1>11, <2>1, CostSpends, CostUnwritten DEF Cost!Drain
<1> QED
  BY <1>10, <1>11

LEMMA CostResumes ==
  ASSUME CostInv, ReadFails, NEW can \in Cost!Readable, Cost!Resume(can)
  PROVE  CostInv'
<1> DEFINE s == Cost!Settle(copy, can)
<1>1. /\ copy.phase \in {"Pausing", "Paused"} /\ Cost!Drain(copy, can) /\ Cost!Spends(can)
      /\ Cost!Writes([s EXCEPT !.phase = "Resuming"])
      /\ UNCHANGED <<hour, copy, replicas, requests, sampledAt, due, down>>
  BY DEF Cost!Resume
<1>2. s = [uid |-> copy.uid, phase |-> copy.phase, cost |-> s.cost, hash |-> copy.hash, pausedAt |-> copy.pausedAt,
           resources |-> copy.resources]
  BY CostHas, SettledHas
<1>3. zero' = (zero /\ copy # object)
  BY Zenon DEF Cost!Resume
<1> HIDE DEF s
<1>4. PICK c : s.cost = c
  OBVIOUS
<1>5. [s EXCEPT !.phase = "Resuming"] =
      [uid |-> copy.uid, phase |-> "Resuming", cost |-> c, hash |-> copy.hash, pausedAt |-> copy.pausedAt, resources |-> copy.resources]
  BY <1>2, <1>4
<1>6. copy # object => (zero' <=> zero)
  BY <1>3, Zenon
<1>7. zero' \in BOOLEAN
  BY <1>3, CostHas, Zenon
<1>8. Cost!Writes([uid |-> copy.uid, phase |-> "Resuming", cost |-> Cost!Settle(copy, can).cost, hash |-> copy.hash,
                   pausedAt |-> copy.pausedAt, resources |-> copy.resources])
  BY <1>1, <1>4, <1>5, Zenon DEF s
<1>9. <<copy.phase, "Resuming">> \in Moves
  BY <1>1 DEF Moves
<1> QED
  BY <1>1, <1>6, <1>7, <1>8, <1>9, CostHas, CostTurns

LEMMA CostResumed ==
  ASSUME CostInv, ReadFails, NEW can \in Cost!Readable, Cost!Resumed(can)
  PROVE  CostInv'
<1> DEFINE s == Cost!Settle(copy, can)
<1>1. /\ copy.phase = "Resuming" /\ Cost!Drain(copy, can) /\ Cost!Spends(can)
      /\ Cost!Writes([s EXCEPT !.phase = "Running", !.pausedAt = -1, !.resources = Cost!Unread])
      /\ UNCHANGED <<hour, copy, replicas, requests, zero, sampledAt, due, down>>
  BY DEF Cost!Resumed, Cost!Never
<1>2. s = [uid |-> copy.uid, phase |-> copy.phase, cost |-> s.cost, hash |-> copy.hash, pausedAt |-> copy.pausedAt,
           resources |-> copy.resources]
  BY CostHas, SettledHas
<1> HIDE DEF s
<1>4. PICK c : s.cost = c
  OBVIOUS
<1>5. [s EXCEPT !.phase = "Running", !.pausedAt = -1, !.resources = Cost!Unread] =
      [uid |-> copy.uid, phase |-> "Running", cost |-> c, hash |-> copy.hash, pausedAt |-> -1, resources |-> Cost!Unread]
  <2>1. s = [uid |-> copy.uid, phase |-> copy.phase, cost |-> c, hash |-> copy.hash, pausedAt |-> copy.pausedAt,
             resources |-> copy.resources]
    BY <1>2, <1>4, Zenon
  <2>2. PICK new : new = [s EXCEPT !.phase = "Running", !.pausedAt = -1, !.resources = Cost!Unread]
    OBVIOUS
  <2>3. new = [uid |-> copy.uid, phase |-> "Running", cost |-> c, hash |-> copy.hash, pausedAt |-> -1, resources |-> Cost!Unread]
    BY <2>1, <2>2
  <2> QED
    BY <2>2, <2>3
<1>6. copy # object => (zero' <=> zero)
  BY <1>1
<1>7. zero' \in BOOLEAN /\ Cost!Unread \in Cost!Snapshot
  BY <1>1, CostHas DEF Cost!Snapshot
<1>8. Cost!Writes([uid |-> copy.uid, phase |-> "Running", cost |-> Cost!Settle(copy, can).cost, hash |-> copy.hash,
                   pausedAt |-> -1, resources |-> Cost!Unread])
  BY <1>1, <1>4, <1>5, Zenon DEF s
<1>9. <<copy.phase, "Running">> \in Moves
  BY <1>1 DEF Moves
<1> QED
  BY <1>1, <1>6, <1>7, <1>8, <1>9, CostTurns

\* It's first written when the target was scaled to zero, or, its pods gone already, that it's Paused.
LEMMA CostStamps ==
  ASSUME CostInv, copy = object, object.phase = "Pausing", object.pausedAt = -1, zero' = TRUE, turns' \in 0..turns,
         object' = [object EXCEPT !.pausedAt = hour],
         UNCHANGED <<hour, copy, replicas, requests, sampledAt, credited, due, down, past>>
  PROVE  CostInv'
<1>1. object' = [uid |-> object.uid, phase |-> "Pausing", cost |-> object.cost, hash |-> object.hash, pausedAt |-> hour,
                 resources |-> object.resources]
  BY CostHas
<1>2. Cost!TypeOK'
  <2>1. object' \in Cost!Object
    <3>1. hour \in -1..MaxTime
      BY CostTyped
    <3> QED
      BY <1>1, <3>1, CostHas, CostTyped DEF Cost!Object, Cost!Times, Cost!Never
  <2>2. zero' \in BOOLEAN
    OBVIOUS
  <2> QED
    BY <2>1, <2>2, CostTyped DEF CostInv, Cost!TypeOK, Cost!Times, Cost!Never
<1>3. CostTimes'
  <2>1. Failed(object)' = Failed(object) /\ Failed(object) \in Nat
    BY <1>1 DEF Failed
  <2> QED
    BY <1>1, <2>1, CostTyped DEF CostInv, CostTimes, IsKept
<1>4. CostCounts'
  <2>1. Sum' = Sum
    BY <1>1 DEF Sum
  <2>2. sampledAt' # -1 => Uncredited(object)' = 0
    <3>1. sampledAt # -1 => Cost!Smaller(hour - sampledAt, hour - hour) = 0
      BY CostTyped DEF CostInv, CostTimes, Cost!Smaller
    <3> QED
      BY <1>1, <3>1, CostTyped DEF Uncredited
  <2>3. ~IsKept(copy)'
    BY DEF IsKept
  <2> QED
    BY <1>1, <2>1, <2>2, <2>3, CostTyped DEF CostInv, CostCounts
<1> QED
  BY <1>2, <1>3, <1>4 DEF CostInv

LEMMA CostScales ==
  ASSUME CostInv, ReadFails, NEW can \in Cost!Readable, Cost!ScaleDown(can)
  PROVE  CostInv'
<1> DEFINE wl == IF copy.pausedAt = -1 THEN [copy EXCEPT !.pausedAt = hour] ELSE copy
           s == Cost!Settle(wl, can)
<1>1. /\ copy.phase = "Pausing" /\ zero' = TRUE /\ Cost!Spends(can)
      /\ \/ Cost!Writes([s EXCEPT !.phase = "Paused"]) /\ Cost!Drain(wl, can)
         \/ copy.pausedAt = -1 /\ Cost!Writes(wl) /\ UNCHANGED credited
      /\ UNCHANGED <<hour, copy, replicas, requests, sampledAt, due, down>>
  BY Zenon DEF Cost!ScaleDown, Cost!Never
<1>2. /\ wl \in Cost!Object /\ wl.uid = copy.uid /\ wl.phase = copy.phase /\ wl.cost = copy.cost /\ wl.resources = copy.resources
      /\ wl.hash = copy.hash /\ wl.pausedAt = IF copy.pausedAt = -1 THEN hour ELSE copy.pausedAt
  <2>1. CASE copy.pausedAt = -1
    <3>1. wl = [copy EXCEPT !.pausedAt = hour]
      BY <2>1
    <3> HIDE DEF wl
    <3>2. wl = [uid |-> copy.uid, phase |-> copy.phase, cost |-> copy.cost, hash |-> copy.hash, pausedAt |-> hour,
               resources |-> copy.resources]
      BY <3>1, CostHas
    <3>3. hour \in -1..MaxTime /\ copy.uid \in 0..1
      BY CostTyped
    <3> QED
      BY <2>1, <3>2, <3>3, CostHas DEF Cost!Object, Cost!Times, Cost!Never
  <2>2. CASE copy.pausedAt # -1
    BY <2>2, CostHas
  <2> QED
    BY <2>1, <2>2
<1>3. copy.pausedAt = -1 => wl = [copy EXCEPT !.pausedAt = hour]
  OBVIOUS
<1> HIDE DEF wl
<1>4. s = [uid |-> wl.uid, phase |-> wl.phase, cost |-> s.cost, hash |-> wl.hash, pausedAt |-> wl.pausedAt, resources |-> wl.resources]
  BY <1>2, SettledHas
<1> HIDE DEF s
<1>5. turns' \in 0..turns /\ zero' \in BOOLEAN /\ (zero => zero')
  BY <1>1, CostSpends
<1>6. CASE copy # object
  <2>1. UNCHANGED <<object, past>>
    BY <1>1, <1>6 DEF Cost!Writes
  <2>2. CASE Cost!Drain(wl, can)
    BY <1>1, <1>2, <1>5, <2>1, <2>2, CostUnwritten DEF Cost!Drain
  <2>3. CASE UNCHANGED credited
    <3>1. credited' = [credited EXCEPT ![copy.uid] = @ - 0]
      BY <2>3, CostTyped
    <3> QED
      BY <1>1, <1>5, <2>1, <3>1, CostLost
  <2> QED
    BY <1>1, <2>2, <2>3
<1>7. CASE copy = object /\ Cost!Writes([s EXCEPT !.phase = "Paused"]) /\ Cost!Drain(wl, can)
  <2>1. PICK c : s.cost = c
    OBVIOUS
  <2>2. [s EXCEPT !.phase = "Paused"] =
        [uid |-> wl.uid, phase |-> "Paused", cost |-> c, hash |-> wl.hash, pausedAt |-> wl.pausedAt, resources |-> wl.resources]
    BY <1>4, <2>1
  <2>3. Cost!Writes([uid |-> wl.uid, phase |-> "Paused", cost |-> Cost!Settle(wl, can).cost, hash |-> wl.hash,
                     pausedAt |-> wl.pausedAt, resources |-> wl.resources])
    BY <1>7, <2>1, <2>2, Zenon DEF s
  <2>4. /\ object' = [uid |-> wl.uid, phase |-> "Paused", cost |-> Cost!Settle(wl, can).cost, hash |-> wl.hash,
                      pausedAt |-> wl.pausedAt, resources |-> wl.resources]
        /\ past' = IF object.cost.last # -1 /\ Cost!MonthOf(object'.cost.last) # Cost!MonthOf(object.cost.last)
                   THEN past + object.cost.saved ELSE past
    BY <1>7, <2>3 DEF Cost!Writes, Cost!Store, Cost!Never
  <2>5. object' = [uid |-> object.uid, phase |-> "Paused", cost |-> Cost!Settle(wl, can).cost, hash |-> wl.hash,
                   pausedAt |-> wl.pausedAt, resources |-> wl.resources]
    BY <1>2, <1>7, <2>4
  <2>6. wl.pausedAt \in -1..hour /\ wl.hash \in 0..2 /\ wl.resources \in Cost!Snapshot
    BY <1>2, <1>7, CostHas, CostTyped DEF CostInv, CostTimes
  <2>7. <<object.phase, "Paused">> \in Moves
    BY <1>1, <1>7 DEF Moves
  <2>8. wl.cost = object.cost /\ wl.uid = object.uid /\ wl.phase = object.phase /\ wl.resources = object.resources
    BY <1>2, <1>7
  <2>9. /\ zero' /\ wl.pausedAt # -1
        /\ \/ IsKept(object) /\ wl.pausedAt = object.pausedAt /\ wl.resources = object.resources
           \/ wl.pausedAt = hour
    BY <1>1, <1>2, <1>7, CostTyped DEF IsKept
  <2>10. credited' = [credited EXCEPT ![copy.uid] = @ - Cost!Drained(wl, can)]
    BY <1>2, <1>7 DEF Cost!Drain
  <2> QED
    BY <1>1, <1>2, <1>5, <1>7, <2>4, <2>5, <2>6, <2>7, <2>8, <2>9, <2>10, CostWritten
<1>8. CASE copy = object /\ copy.pausedAt = -1 /\ Cost!Writes(wl) /\ UNCHANGED credited
  <2>1. object' = wl
    BY <1>8 DEF Cost!Writes, Cost!Store
  <2>2. past' = past
    BY <1>2, <1>8, <2>1 DEF Cost!Writes, Cost!Store
  <2>3. object' = [object EXCEPT !.pausedAt = hour]
    BY <1>3, <1>8, <2>1
  <2> QED
    BY <1>1, <1>5, <1>8, <2>2, <2>3, CostStamps
<1> QED
  BY <1>1, <1>6, <1>7, <1>8

LEMMA CostSampled ==
  ASSUME CostInv, NEW halves \in 0..2, Cost!Sample(halves)
  PROVE  CostInv'
<1> DEFINE held == IF copy.phase = "Paused" THEN Cost!Requested(copy.resources) ELSE 0
           share == (held * halves) \div 2
           more == IF sampledAt = -1 \/ share = 0 THEN 0 ELSE share * Cost!Covered(copy)
<1>1. /\ credited' = [u \in 0..1 |-> IF u # copy.uid THEN 0 ELSE credited[u] + more]
      /\ sampledAt' = hour /\ due' = hour + SampleInterval
      /\ UNCHANGED <<hour, object, copy, replicas, requests, zero, turns, down, past>>
  BY DEF Cost!Sample, Cost!Credit, Cost!Never
<1>2. share \in 0..8 /\ share <= held /\ held \in 0..8
  <2>1. held \in 0..8
    BY CostTyped
  <2> HIDE DEF held
  <2>2. halves = 0 \/ halves = 1 \/ halves = 2
    OBVIOUS
  <2> QED
    BY <2>1, <2>2
<1>3. more \in Nat
  <2>1. CASE sampledAt = -1 \/ share = 0
    BY <2>1
  <2>2. CASE sampledAt # -1 /\ share # 0
    <3>1. IsKept(copy) /\ copy.pausedAt # -1 /\ copy.pausedAt \in -1..MaxTime
      BY <1>2, <2>2, CostHas DEF CostInv, CostTimes, IsKept
    <3>2. Cost!Covered(copy) \in Nat
      BY <2>2, <3>1, CostTyped, CostConstants DEF CostInv, CostTimes, Cost!Covered, Cost!Smaller
    <3> HIDE DEF share
    <3> QED
      BY <1>2, <2>2, <3>2, MoreForLonger
  <2> QED
    BY <2>1, <2>2
<1>4. copy.uid = object.uid => Sum + more <= down
  <2>1. CASE sampledAt = -1 \/ share = 0
    BY <2>1, CostTyped DEF CostInv, CostCounts
  <2>2. CASE sampledAt # -1 /\ share # 0
    <3>1. copy.phase = "Paused" /\ IsKept(copy) /\ copy.pausedAt # -1 /\ copy.pausedAt \in -1..MaxTime
      BY <1>2, <2>2, CostHas DEF CostInv, CostTimes, IsKept
    <3>2. hour - sampledAt \in Nat /\ hour - copy.pausedAt \in Nat
      BY <2>2, <3>1, CostTyped, CostHas DEF CostInv, CostTimes, Cost!TypeOK, Cost!Times, Cost!Never
    <3> DEFINE most == Cost!Smaller(hour - sampledAt, hour - copy.pausedAt)
    <3>3. Cost!Covered(copy) \in Nat /\ most \in Nat /\ Cost!Covered(copy) <= most
      BY <3>2, CostConstants DEF Cost!Covered, Cost!Smaller
    <3>4. Uncredited(copy) = held * most
      BY <3>1 DEF Uncredited
    <3> HIDE DEF share, held, most
    <3>5. share * Cost!Covered(copy) <= share * most
      BY <1>2, <3>3, MoreForLonger
    <3>6. share * most <= held * most
      <4>1. \A a, b \in 0..8 : a <= b => a * most <= b * most
        <5> SUFFICES ASSUME NEW a \in 0..8, NEW b \in 0..8, a <= b PROVE a * most <= b * most
          OBVIOUS
        <5>1. b - a \in 0..8 /\ b = a + (b - a)
          OBVIOUS
        <5>2. (b - a) * most \in Nat /\ a * most \in Nat
          BY <3>3, <5>1, MoreForLonger
        <5>3. b * most = a * most + (b - a) * most
          <6>1. b - a \in {0, 1, 2, 3, 4, 5, 6, 7, 8} /\ b \in {0, 1, 2, 3, 4, 5, 6, 7, 8} /\ a \in {0, 1, 2, 3, 4, 5, 6, 7, 8}
            BY <5>1
          <6> QED
            BY <3>3, <6>1
        <5> QED
          BY <5>2, <5>3
      <4> QED
        BY <1>2, <4>1
    <3>7. more = share * Cost!Covered(copy)
      BY <2>2
    <3> QED
      <4>1. share * Cost!Covered(copy) \in Nat /\ share * most \in Nat /\ held * most \in Nat
        BY <1>2, <3>3, MoreForLonger
      <4>2. copy.uid = object.uid => Sum + held * most <= down
        BY <2>2, <3>1, <3>4 DEF CostInv, CostCounts
      <4> HIDE DEF more
      <4> QED
        BY <3>5, <3>6, <3>7, <4>1, <4>2, CostTyped
  <2> QED
    BY <2>1, <2>2
<1> HIDE DEF more, share, held
<1>5. /\ credited' \in [0..1 -> Nat]
      /\ credited'[object.uid] = IF copy.uid = object.uid THEN credited[object.uid] + more ELSE 0
      /\ copy.uid = 0 => credited'[1] = 0
  BY <1>1, <1>3, CostTyped
<1>6. Sum' <= down'
  <2>1. Sum' = past + object.cost.saved + credited'[object.uid]
    BY <1>1 DEF Sum
  <2>2. past \in Nat /\ object.cost.saved \in Nat /\ credited[object.uid] \in Nat /\ down \in Nat
    BY CostTyped
  <2>3. Sum = past + object.cost.saved + credited[object.uid] /\ Sum <= down
    BY DEF Sum, CostInv, CostCounts
  <2>4. CASE copy.uid = object.uid
    BY <1>1, <1>3, <1>4, <1>5, <2>1, <2>2, <2>3, <2>4
  <2>5. CASE copy.uid # object.uid
    BY <1>1, <1>5, <2>1, <2>2, <2>3, <2>5
  <2> QED
    BY <2>4, <2>5
<1>7. ASSUME NEW wl \in Cost!Object, wl.pausedAt <= hour PROVE Cost!Requested(wl.resources) * Cost!Smaller(hour - hour, hour - wl.pausedAt) = 0
  <2>1. Cost!Smaller(hour - hour, hour - wl.pausedAt) = 0
    BY <1>7, CostTyped DEF Cost!Smaller, Cost!Object, Cost!Times, Cost!Never
  <2>2. Cost!Requested(wl.resources) \in 0..8
    BY RequestedIs DEF Cost!Object
  <2> QED
    BY <2>1, <2>2
<1>8. Uncredited(object)' = 0 /\ Uncredited(copy)' = 0
  <2>1. object.pausedAt <= hour /\ copy.pausedAt <= hour
    BY DEF CostInv, CostTimes
  <2> QED
    BY <1>1, <1>7, <2>1, CostHas DEF Uncredited
<1>9. Cost!TypeOK'
  BY <1>1, <1>5, CostTyped, CostConstants DEF CostInv, Cost!TypeOK, Cost!Times, Cost!Never
<1>10. CostTimes'
  <2>1. object'.uid = 0 => credited'[1] = 0 /\ copy'.uid = 0
    BY <1>1, <1>5 DEF CostInv, CostTimes
  <2> QED
    BY <1>1, <2>1, CostTyped DEF CostInv, CostTimes, IsKept, Failed
<1>11. CostCounts'
  BY <1>1, <1>5, <1>6, <1>8, CostTyped DEF CostInv, CostCounts, Sum, IsKept
<1> QED
  BY <1>9, <1>10, <1>11 DEF CostInv

\* The cache comes to show the object.
LEMMA CostHears == ASSUME CostInv, Cost!Hears PROVE CostInv'
<1>1. copy' = object /\ UNCHANGED <<hour, object, replicas, requests, zero, sampledAt, credited, due, turns, down, past>>
  BY DEF Cost!Hears
<1>2. Cost!TypeOK'
  BY <1>1 DEF CostInv, Cost!TypeOK
<1>3. CostTimes'
  BY <1>1 DEF CostInv, CostTimes, IsKept, Failed
<1>4. Sum' = Sum /\ Uncredited(object)' = Uncredited(object) /\ Uncredited(copy)' = Uncredited(object)
      /\ (IsKept(object)' <=> IsKept(object)) /\ (IsKept(copy)' <=> IsKept(object))
  BY <1>1 DEF Sum, Uncredited, IsKept
<1>5. CostCounts'
  BY <1>1, <1>4 DEF CostInv, CostCounts
<1> QED
  BY <1>2, <1>3, <1>5 DEF CostInv

\* As long again is left to be counted as the target is kept at zero.
LEMMA CostTicks == ASSUME CostInv, Cost!Tick PROVE CostInv'
<1> DEFINE r == Cost!Requested(object.resources)
<1>1. /\ copy = object /\ hour < MaxTime /\ hour' = hour + 1 /\ down' = down + (IF zero THEN r ELSE 0)
      /\ UNCHANGED <<object, copy, replicas, requests, zero, sampledAt, credited, due, turns, past>>
  BY DEF Cost!Tick
<1>2. r \in 0..8 /\ down' \in Nat /\ down' >= down /\ (IsKept(object) => down' = down + r)
  <2>1. r \in 0..8
    BY CostTyped
  <2> HIDE DEF r
  <2> QED
    BY <1>1, <2>1, CostTyped DEF CostInv, CostTimes
<1>3. Cost!TypeOK'
  <2>1. hour' \in 0..MaxTime
    BY <1>1, CostTyped
  <2> QED
    BY <1>1, <1>2, <2>1 DEF CostInv, Cost!TypeOK
<1>4. CostTimes'
  BY <1>1, CostTyped, CostHas DEF CostInv, CostTimes, IsKept, Failed
<1>5. Sum' = Sum /\ (IsKept(object)' <=> IsKept(object)) /\ copy' = object'
  BY <1>1 DEF Sum, IsKept
<1>6. ASSUME sampledAt # -1, IsKept(object) PROVE Sum + Uncredited(object)' <= down'
  <2> DEFINE k == Cost!Smaller(hour - sampledAt, hour - object.pausedAt)
  <2>1. object.pausedAt # -1 /\ object.pausedAt \in -1..MaxTime /\ sampledAt \in -1..MaxTime
    BY <1>1, <1>6, CostHas DEF CostInv, CostTimes, Cost!TypeOK, Cost!Times, Cost!Never
  <2>2. k \in Nat /\ Cost!Smaller(hour + 1 - sampledAt, hour + 1 - object.pausedAt) = k + 1
    BY <1>6, <2>1, CostTyped DEF CostInv, CostTimes, Cost!Smaller
  <2>3. Uncredited(object) = r * k /\ Uncredited(object)' = r * (k + 1)
    <3>1. Uncredited(object)' = Cost!Requested(object'.resources) * Cost!Smaller(hour' - sampledAt', hour' - object'.pausedAt)
      BY DEF Uncredited
    <3>2. hour' = hour + 1 /\ sampledAt' = sampledAt /\ object' = object
      BY <1>1
    <3>3. Cost!Smaller(hour' - sampledAt', hour' - object'.pausedAt) = k + 1
      BY <1>6, <2>1, <3>2, CostTyped DEF CostInv, CostTimes, Cost!Smaller
    <3>4. Uncredited(object)' = r * (k + 1)
      BY <3>1, <3>2, <3>3, Zenon
    <3>5. Uncredited(object) = r * k
      BY Zenon DEF Uncredited
    <3> QED
      BY <3>4, <3>5
  <2>4. Sum + Uncredited(object) <= down
    BY <1>6 DEF CostInv, CostCounts
  <2> HIDE DEF k, r
  <2>5. r * (k + 1) = r * k + r /\ r * k \in Nat
    BY <1>2, <2>2, OneMore, MoreForLonger
  <2> QED
    BY <1>2, <1>6, <2>3, <2>4, <2>5, CostTyped
<1>7. ASSUME object.phase = "Paused", object.cost.last # -1
      PROVE  object'.cost.freed + Cost!Requested(object'.resources) * (hour' - object'.cost.last) <= down'
  <2> DEFINE k == hour - object.cost.last
  <2>1. k \in Nat /\ hour' - object'.cost.last = k + 1
    BY <1>1, CostTyped DEF CostInv, CostTimes
  <2>2. object.cost.freed + r * k <= down
    BY <1>7 DEF CostInv, CostCounts
  <2>3. IsKept(object)
    BY <1>7 DEF IsKept
  <2>4. object'.cost.freed = object.cost.freed /\ Cost!Requested(object'.resources) = r
    BY <1>1
  <2> HIDE DEF r, k
  <2>5. r * (k + 1) = r * k + r /\ r * k \in Nat
    <3>1. r \in 0..8 /\ k \in Nat
      BY <1>2, <2>1
    <3> QED
      BY <3>1, OneMore, MoreForLonger
  <2>6. Cost!Requested(object'.resources) * (hour' - object'.cost.last) = r * k + r
    BY <2>1, <2>4, <2>5, Zenon
  <2> QED
    BY <1>2, <2>2, <2>3, <2>4, <2>5, <2>6, CostTyped
<1>8. CostCounts'
  <2>1. object'.cost.freed <= down' /\ Sum' <= down'
    BY <1>1, <1>2, <1>5, CostTyped DEF CostInv, CostCounts
  <2>2. sampledAt' # -1 /\ IsKept(object)' => Sum' + Uncredited(object)' <= down'
    BY <1>1, <1>5, <1>6
  <2>3. sampledAt' # -1 /\ IsKept(copy)' => Sum' + Uncredited(copy)' <= down'
    <3>1. Uncredited(copy)' = Uncredited(object)' /\ (IsKept(copy)' <=> IsKept(object)')
      BY <1>5 DEF Uncredited, IsKept
    <3> QED
      BY <2>2, <3>1
  <2>4. object'.phase = "Paused" /\ object'.cost.last # -1 =>
          object'.cost.freed + Cost!Requested(object'.resources) * (hour' - object'.cost.last) <= down'
    <3>1. object'.phase = object.phase /\ object'.cost.last = object.cost.last
      BY <1>1
    <3> QED
      BY <1>7, <3>1, Zenon
  <2> QED
    BY <1>1, <2>1, <2>2, <2>3, <2>4 DEF CostInv, CostCounts
<1> QED
  BY <1>3, <1>4, <1>8 DEF CostInv

\* What else happens, to the sampler, the target or the ManagedWorkload: no hour is counted by it.
LEMMA CostForgets ==
  ASSUME CostInv, UNCHANGED <<hour, object, copy, zero, down, past>>,
         sampledAt' \in {-1, sampledAt}, credited' \in {credited, [u \in 0..1 |-> 0]}, turns' \in 0..turns,
         replicas' \in 1..2, requests' \in 1..2, due' \in Nat
  PROVE  CostInv'
<1>1. credited' \in [0..1 -> Nat] /\ \A u \in 0..1 : credited'[u] \in Nat /\ credited'[u] <= credited[u]
  BY CostTyped
<1>2. Sum' \in Nat /\ Sum' <= Sum /\ (credited[1] = 0 => credited'[1] = 0)
  BY <1>1, CostTyped DEF Sum
<1>3. Cost!TypeOK'
  BY <1>1, CostTyped DEF CostInv, Cost!TypeOK, Cost!Times, Cost!Never
<1>4. CostTimes'
  <2>1. Failed(object)' = Failed(object) /\ Failed(object) \in Nat
    BY DEF Failed
  <2>2. sampledAt' <= hour
    BY CostTyped DEF CostInv, CostTimes
  <2> QED
    BY <1>2, <2>1, <2>2, CostTyped DEF CostInv, CostTimes, IsKept
<1>5. CostCounts'
  <2>1. /\ sampledAt' # -1 => Uncredited(object)' = Uncredited(object) /\ Uncredited(copy)' = Uncredited(copy)
        /\ (IsKept(object)' <=> IsKept(object)) /\ (IsKept(copy)' <=> IsKept(copy))
    BY DEF Uncredited, IsKept
  <2>2. \A wl \in {object, copy} : sampledAt # -1 /\ wl.pausedAt # -1 => Uncredited(wl) \in Nat
    <3> SUFFICES ASSUME NEW wl \in {object, copy}, sampledAt # -1, wl.pausedAt # -1 PROVE Uncredited(wl) \in Nat
      OBVIOUS
    <3>1. hour - sampledAt \in Nat /\ hour - wl.pausedAt \in Nat
      BY CostTyped DEF CostInv, CostTimes
    <3>2. Cost!Requested(wl.resources) \in 0..8
      BY CostTyped
    <3> QED
      BY <3>1, <3>2, MoreForLonger DEF Uncredited, Cost!Smaller
  <2>3. sampledAt' # -1 /\ IsKept(object)' => Sum' + Uncredited(object)' <= down
    BY <1>2, <2>1, <2>2, CostTyped DEF CostInv, CostTimes, CostCounts
  <2>4. sampledAt' # -1 /\ IsKept(copy)' /\ copy'.uid = object'.uid => Sum' + Uncredited(copy)' <= down
    BY <1>2, <2>1, <2>2, CostTyped DEF CostInv, CostTimes, CostCounts
  <2>5. Sum' <= down'
    BY <1>2, CostTyped DEF CostInv, CostCounts
  <2> QED
    BY <2>3, <2>4, <2>5 DEF CostInv, CostCounts
<1> QED
  BY <1>3, <1>4, <1>5 DEF CostInv

LEMMA CostOther == ASSUME CostInv, Cost!ForgetSample \/ Cost!Deploys \/ Cost!Scales \/ Cost!Restarts PROVE CostInv'
<1>1. replicas \in 1..2 /\ requests \in 1..2 /\ due \in Nat /\ hour + SampleInterval \in Nat /\ hour \in Nat
  BY CostTyped, CostConstants DEF CostInv, Cost!TypeOK
<1>2. CASE Cost!ForgetSample
  BY <1>1, <1>2, CostTyped, CostForgets DEF Cost!ForgetSample, Cost!Never
<1>3. CASE Cost!Deploys
  BY <1>1, <1>3, CostTyped, CostForgets DEF Cost!Deploys, Cost!Other
<1>4. CASE Cost!Scales
  BY <1>1, <1>4, CostTyped, CostForgets DEF Cost!Scales, Cost!Other
<1>5. CASE Cost!Restarts
  BY <1>1, <1>5, CostTyped, CostForgets DEF Cost!Restarts, Cost!Other, Cost!Never
<1> QED
  BY <1>2, <1>3, <1>4, <1>5

LEMMA CostRecreated == ASSUME CostInv, Cost!Recreated PROVE CostInv'
<1>1. /\ object.uid = 0 /\ copy = object /\ object' = Cost!New(1) /\ zero' = FALSE /\ down' = 0 /\ past' = 0
      /\ turns > 0 /\ turns' = turns - 1
      /\ UNCHANGED <<hour, copy, replicas, requests, sampledAt, credited, due>>
  BY DEF Cost!Recreated, Cost!Other
<1>2. object' = [uid |-> 1, phase |-> "Running", cost |-> Cost!NoCost, hash |-> 0, pausedAt |-> -1, resources |-> Cost!Unread]
  BY <1>1 DEF Cost!New, Cost!Never
<1>3. Cost!NoCost = [last |-> -1, tracked |-> 0, awake |-> 0, freed |-> 0, saved |-> 0, running |-> Cost!Unread, pricedAt |-> -1, hash |-> 0]
  BY DEF Cost!NoCost, Cost!Never
<1>4. Cost!Unread \in Cost!Snapshot
  BY DEF Cost!Snapshot
<1>5. Cost!NoCost \in Cost!Cost
  BY <1>3, <1>4, CostTyped DEF Cost!Cost, Cost!Times, Cost!Never
<1>6. object' \in Cost!Object
  BY <1>2, <1>4, <1>5, CostTyped DEF Cost!Object, Cost!Times, Cost!Never
<1>7. Cost!TypeOK'
  <2>1. zero' \in BOOLEAN
    BY <1>1, Zenon
  <2> QED
    BY <1>1, <1>6, <2>1, CostTyped DEF CostInv, Cost!TypeOK
<1>8. CostTimes'
  BY <1>1, <1>2, <1>3, CostTyped DEF CostInv, CostTimes, IsKept, Failed
<1>9. CostCounts'
  <2>1. credited[1] = 0
    BY <1>1 DEF CostInv, CostTimes
  <2> QED
    BY <1>1, <1>2, <1>3, <2>1 DEF CostCounts, Sum, IsKept
<1> QED
  BY <1>7, <1>8, <1>9 DEF CostInv

LEMMA CostKept == ASSUME CostInv, ReadFails, Cost!Next \/ UNCHANGED costVars PROVE CostInv'
<1>1. CASE \E can \in Cost!Readable :
             \/ Cost!Check(can) \/ Cost!WriteFails(can) \/ Cost!BeginPause(can)
             \/ Cost!ScaleDown(can) \/ Cost!Resume(can) \/ Cost!Resumed(can)
  <2>1. PICK can \in Cost!Readable :
               \/ Cost!Check(can) \/ Cost!WriteFails(can) \/ Cost!BeginPause(can)
               \/ Cost!ScaleDown(can) \/ Cost!Resume(can) \/ Cost!Resumed(can)
    BY <1>1
  <2> QED
    BY <2>1, CostChecked, CostFails, CostPauses, CostScales, CostResumes, CostResumed
<1>2. CASE \E halves \in 0..2 : Cost!Sample(halves)
  BY <1>2, CostSampled
<1>3. CASE Cost!ForgetSample \/ Cost!Deploys \/ Cost!Scales \/ Cost!Restarts
  BY <1>3, CostOther
<1>4. CASE Cost!Hears \/ Cost!Tick \/ Cost!Recreated
  BY <1>4, CostHears, CostTicks, CostRecreated
<1>5. CASE UNCHANGED costVars
  <2>1. UNCHANGED <<hour, object, copy, replicas, requests, zero, sampledAt, credited, due, turns, down, past>>
    BY <1>5 DEF costVars
  <2>2. /\ sampledAt' \in {-1, sampledAt} /\ credited' \in {credited, [u \in 0..1 |-> 0]} /\ turns' \in 0..turns
        /\ replicas' \in 1..2 /\ requests' \in 1..2 /\ due' \in Nat
    BY <2>1, CostTyped DEF CostInv, Cost!TypeOK
  <2> QED
    BY <2>1, <2>2, CostForgets
<1> QED
  BY <1>1, <1>2, <1>3, <1>4, <1>5 DEF Cost!Next

\* The property HoursCountedOnce: a month's totals cover no more time than has passed of it, and no more is freed, or
\* saved, than the workload requested for as long as Napwake kept it at zero, whatever fails, is late, restarts or is
\* made anew, if replicas can't go unread from before a pause to the middle of the next (accrue, settleCost,
\* SavingsSampler.credit and Drain).
THEOREM HoursOnce == ASSUME ReadFails PROVE PartsSpec => []HoursCountedOnce
<1> DEFINE Inv == part = "cost" => CostInv
<1>1. PartsInit => Inv
  BY CostBegins, CostFirst
<1>2. Inv /\ [PartsNext]_<<part, vars, clockVars, costVars, spareVars>> => Inv'
  <2> SUFFICES ASSUME Inv, [PartsNext]_<<part, vars, clockVars, costVars, spareVars>>, part' = "cost" PROVE CostInv'
    OBVIOUS
  <2>1. part = "cost"
    BY DEF PartsNext, In, Clock
  <2> QED
    BY <2>1, CostMoves, CostKept
<1>3. Inv => HoursCountedOnce
  <2> SUFFICES ASSUME CostInv PROVE Cost!HoursCountedOnce
    BY DEF HoursCountedOnce
  <2> QED
    BY CostTyped DEF CostInv, CostCounts, Sum, Cost!HoursCountedOnce, Cost!Never
<1> QED
  BY <1>1, <1>2, <1>3, PTL DEF PartsSpec

-----------------------------------------------------------------------------
(* The lifecycle. *)

\* A behaviour of the parts whose lifecycle is the part that moves is in a state of LifecycleProofs' invariant.
LifecycleKnows == part = "asked" => TypeInv /\ \E c \in Replicas : Alike(c)

LEMMA LifecycleMoves ==
  ASSUME [PartsNext]_<<part, vars, clockVars, costVars, spareVars>>
  PROVE  part' = part /\ (part = "asked" => [Next]_vars)
BY DEF PartsNext, In, Clock

LEMMA LifecycleFirst == ASSUME ScaledByNapwakeAlone, PartsInit PROVE LifecycleKnows
BY TypeInvInit, AlikeFirst DEF PartsInit, LifecycleKnows

LEMMA LifecycleKept ==
  ASSUME ScaledByNapwakeAlone, LifecycleKnows, [PartsNext]_<<part, vars, clockVars, costVars, spareVars>>
  PROVE  LifecycleKnows'
<1> SUFFICES ASSUME part' = "asked" PROVE (TypeInv /\ \E c \in Replicas : Alike(c))'
  BY DEF LifecycleKnows
<1>1. part = "asked" /\ [Next]_vars
  BY LifecycleMoves
<1>2. TypeInv /\ \E c \in Replicas : Alike(c)
  BY <1>1 DEF LifecycleKnows
<1>3. PICK c \in Replicas : Alike(c)
  BY <1>2
<1> QED
  BY <1>1, <1>2, <1>3, TypeInvStep, AlikeStep

\* The property BroughtBack, with nobody but Napwake scaling the target: a workload is brought back with the
\* replicas it was taken down from, within its autoscaler's range, however often its pause and its resume were
\* interrupted and retried (preparePause, Pauser.Resume, Pauser.Restore and recoverPause).
THEOREM BroughtBackBeside == ASSUME ScaledByNapwakeAlone PROVE PartsSpec => BroughtBack
<1>1. PartsInit => LifecycleKnows
  BY LifecycleFirst
<1>2. LifecycleKnows /\ [PartsNext]_<<part, vars, clockVars, costVars, spareVars>> => LifecycleKnows'
  BY LifecycleKept
<1>3. LifecycleKnows /\ [PartsNext]_<<part, vars, clockVars, costVars, spareVars>>
        => [part = "asked" => Restores]_vars
  BY LifecycleMoves, AlikeRestores DEF LifecycleKnows
<1> QED
  BY <1>1, <1>2, <1>3, PTL DEF PartsSpec, BroughtBack

-----------------------------------------------------------------------------
(* Sums, as DoormanProofs has them, of functions over sets. *)

\* f[x] of each x of T.
Units(f, T) == UNION {{x} \X (1..f[x]) : x \in T}
Total(f, T) == Cardinality(Units(f, T))

LEMMA OwnUnits ==
  ASSUME NEW x, NEW many \in Nat
  PROVE  IsFiniteSet({x} \X (1..many)) /\ Cardinality({x} \X (1..many)) = many
<1>1. IsFiniteSet({x}) /\ Cardinality({x}) = 1
  BY FS_Singleton
<1>2. IsFiniteSet(1..many) /\ Cardinality(1..many) = many
  BY FS_Interval
<1>3. /\ IsFiniteSet({x} \X (1..many))
      /\ Cardinality({x} \X (1..many)) = Cardinality({x}) * Cardinality(1..many)
  BY <1>1, <1>2, FS_Product
<1> QED
  BY <1>1, <1>2, <1>3

LEMMA UnitsOf ==
  ASSUME NEW f, NEW S, IsFiniteSet(S), \A x \in S : f[x] \in Nat
  PROVE  /\ IsFiniteSet(Units(f, S)) /\ Total(f, S) \in Nat
<1> DEFINE Infinite == {s \in SUBSET S : ~IsFiniteSet(Units(f, s))}
<1>1. \A s \in SUBSET S : IsFiniteSet(s)
  BY FS_Subset
<1>2. Infinite = {}
  <2> SUFFICES ASSUME Infinite # {} PROVE FALSE
    OBVIOUS
  <2>1. IsWellFoundedOn(StrictSubsetOrdering(S), FiniteSubsetsOf(S))
    BY FS_StrictSubsetOrderingWellFounded
  <2>2. Infinite \subseteq FiniteSubsetsOf(S)
    BY <1>1 DEF FiniteSubsetsOf
  <2> HIDE DEF Infinite
  <2>3. PICK s \in Infinite : \A t \in Infinite : ~(<<t, s>> \in StrictSubsetOrdering(S))
    BY <2>1, <2>2, WFMin
  <2> USE DEF Infinite
  <2>4. s \in SUBSET S /\ ~IsFiniteSet(Units(f, s))
    OBVIOUS
  <2>5. Units(f, {}) = {}
    BY DEF Units
  <2>6. PICK x \in s : TRUE
    BY <2>4, <2>5, FS_EmptySet
  <2>7. <<s \ {x}, s>> \in StrictSubsetOrdering(S)
    BY <2>4, <2>6 DEF StrictSubsetOrdering
  <2>8. IsFiniteSet(Units(f, s \ {x}))
    BY <2>3, <2>4, <2>7
  <2>9. IsFiniteSet({x} \X (1..f[x]))
    BY <2>4, <2>6, OwnUnits
  <2>10. Units(f, s) = ({x} \X (1..f[x])) \cup Units(f, s \ {x})
    BY <2>6 DEF Units
  <2>11. IsFiniteSet(({x} \X (1..f[x])) \cup Units(f, s \ {x}))
    BY <2>8, <2>9, FS_Union
  <2> QED
    BY <2>4, <2>10, <2>11
<1>3. IsFiniteSet(Units(f, S))
  BY <1>2
<1> QED
  BY <1>3, FS_CardinalityType DEF Total

LEMMA TotalWithout ==
  ASSUME NEW f, NEW S, IsFiniteSet(S), \A x \in S : f[x] \in Nat, NEW x \in S
  PROVE  /\ Total(f, S) = f[x] + Total(f, S \ {x})
         /\ Total(f, S \ {x}) \in Nat
<1> DEFINE Own == {x} \X (1..f[x])
           Rest == Units(f, S \ {x})
<1>1. IsFiniteSet(Own) /\ Cardinality(Own) = f[x]
  BY OwnUnits
<1>2. IsFiniteSet(Rest)
  <2>1. IsFiniteSet(S \ {x})
    BY FS_RemoveElement
  <2> QED
    BY <2>1, UnitsOf
<1>3. Units(f, S) = Own \cup Rest
  BY DEF Units
<1>4. Own \cap Rest = {}
  BY DEF Units
<1>5. Cardinality(Own \cup Rest) = Cardinality(Own) + Cardinality(Rest) - Cardinality(Own \cap Rest)
  BY <1>1, <1>2, FS_Union
<1>6. Cardinality(Rest) \in Nat
  BY <1>2, FS_CardinalityType
<1>7. Total(f, S) = Cardinality(Own) + Cardinality(Rest) - 0
  BY <1>3, <1>4, <1>5, FS_EmptySet DEF Total
<1>8. Total(f, S \ {x}) = Cardinality(Rest)
  BY DEF Total
<1> HIDE DEF Own, Rest
<1> QED
  BY <1>1, <1>6, <1>7, <1>8

\* Whatever grows by f[x] with each x sums up f.
LEMMA OnlyTotal ==
  ASSUME NEW f, NEW S, IsFiniteSet(S), \A x \in S : f[x] \in Nat, NEW g, g[{}] = 0,
         \A s \in SUBSET S : s # {} => \E x \in s : g[s] = f[x] + g[s \ {x}]
  PROVE  g[S] = Total(f, S)
<1> DEFINE Other == {s \in SUBSET S : g[s] # Total(f, s)}
<1>1. \A s \in SUBSET S : IsFiniteSet(s)
  BY FS_Subset
<1>2. Other = {}
  <2> SUFFICES ASSUME Other # {} PROVE FALSE
    OBVIOUS
  <2>1. IsWellFoundedOn(StrictSubsetOrdering(S), FiniteSubsetsOf(S))
    BY FS_StrictSubsetOrderingWellFounded
  <2>2. Other \subseteq FiniteSubsetsOf(S)
    BY <1>1 DEF FiniteSubsetsOf
  <2> HIDE DEF Other
  <2>3. PICK s \in Other : \A t \in Other : ~(<<t, s>> \in StrictSubsetOrdering(S))
    BY <2>1, <2>2, WFMin
  <2> USE DEF Other
  <2>4. s \in SUBSET S /\ g[s] # Total(f, s)
    OBVIOUS
  <2>5. s # {}
    BY <2>4, FS_EmptySet DEF Total, Units
  <2>6. PICK x \in s : g[s] = f[x] + g[s \ {x}]
    BY <2>4, <2>5
  <2>7. <<s \ {x}, s>> \in StrictSubsetOrdering(S)
    BY <2>4 DEF StrictSubsetOrdering
  <2>8. g[s \ {x}] = Total(f, s \ {x})
    BY <2>3, <2>4, <2>7
  <2>9. Total(f, s) = f[x] + Total(f, s \ {x})
    <3>1. IsFiniteSet(s) /\ \A y \in s : f[y] \in Nat
      BY <1>1, <2>4
    <3> QED
      BY <3>1, TotalWithout
  <2> QED
    BY <2>4, <2>6, <2>8, <2>9
<1> QED
  BY <1>2

LEMMA TotalOfNone == ASSUME NEW f PROVE Total(f, {}) = 0
BY FS_EmptySet DEF Total, Units

LEMMA SumIsTotal ==
  ASSUME NEW f, NEW S, IsFiniteSet(S), \A x \in S : f[x] \in Nat
  PROVE  Capacity!SumFunctionOnSet(f, S) = Total(f, S) /\ Total(f, S) \in Nat
<1> DEFINE First(s) == CHOOSE x \in s : TRUE
           Folds(g) == g = [s \in SUBSET S |-> IF s = {} THEN 0 ELSE f[First(s)] + g[s \ {First(s)}]]
           Totals == [s \in SUBSET S |-> Total(f, s)]
           fold == CHOOSE g : Folds(g)
<1>1. Folds(Totals)
  <2>1. ASSUME NEW s \in SUBSET S, s # {} PROVE Total(f, s) = f[First(s)] + Total(f, s \ {First(s)})
    <3> DEFINE x == First(s)
    <3>1. x \in s /\ IsFiniteSet(s) /\ \A y \in s : f[y] \in Nat
      BY <2>1, FS_Subset
    <3> HIDE DEF x
    <3>2. Total(f, s) = f[x] + Total(f, s \ {x})
      BY <3>1, TotalWithout
    <3> QED
      BY <3>2 DEF x
  <2>2. \A s \in SUBSET S : Totals[s] = IF s = {} THEN 0 ELSE f[First(s)] + Totals[s \ {First(s)}]
    BY <2>1, TotalOfNone
  <2> QED
    BY <2>2
<1>2. Folds(fold)
  <2> HIDE DEF Folds, Totals
  <2> QED
    BY <1>1
<1>3. fold[S] = Total(f, S)
  <2> HIDE DEF fold
  <2>1. fold[{}] = 0
    BY <1>2
  <2>2. \A s \in SUBSET S : s # {} => \E x \in s : fold[s] = f[x] + fold[s \ {x}]
    BY <1>2
  <2> QED
    BY <2>1, <2>2, OnlyTotal
<1>4. Capacity!SumFunctionOnSet(f, S) = fold[S]
  BY DEF Capacity!SumFunctionOnSet, Capacity!FoldFunctionOnSet, Capacity!MapThenFoldSet
<1> QED
  BY <1>3, <1>4, UnitsOf

LEMMA TotalSame ==
  ASSUME NEW f, NEW g, NEW S, \A x \in S : f[x] = g[x] PROVE Total(f, S) = Total(g, S)
BY DEF Total, Units

LEMMA TotalLeq ==
  ASSUME NEW f, NEW g, NEW S, IsFiniteSet(S), \A x \in S : f[x] \in Nat /\ g[x] \in Nat /\ f[x] <= g[x]
  PROVE  Total(f, S) <= Total(g, S)
<1>1. Units(f, S) \in SUBSET Units(g, S)
  BY DEF Units
<1>2. IsFiniteSet(Units(g, S))
  BY UnitsOf
<1> QED
  BY <1>1, <1>2, FS_Subset DEF Total

LEMMA TotalJoined ==
  ASSUME NEW f, NEW S, NEW T, IsFiniteSet(S), IsFiniteSet(T), S \cap T = {}, \A x \in S \cup T : f[x] \in Nat
  PROVE  Total(f, S \cup T) = Total(f, S) + Total(f, T)
<1>1. IsFiniteSet(Units(f, S)) /\ IsFiniteSet(Units(f, T)) /\ Total(f, S) \in Nat /\ Total(f, T) \in Nat
  BY UnitsOf
<1>2. Units(f, S \cup T) = Units(f, S) \cup Units(f, T) /\ Units(f, S) \cap Units(f, T) = {}
  BY DEF Units
<1>3. Cardinality(Units(f, S) \cup Units(f, T)) = Total(f, S) + Total(f, T) - Cardinality({})
  BY <1>1, <1>2, FS_Union DEF Total
<1>4. Cardinality({}) = 0
  BY FS_EmptySet
<1>5. Total(f, S \cup T) = Cardinality(Units(f, S) \cup Units(f, T))
  BY <1>2 DEF Total
<1> QED
  BY <1>1, <1>3, <1>4, <1>5

LEMMA TotalAdded ==
  ASSUME NEW f, NEW g, NEW h, NEW S, IsFiniteSet(S),
         \A x \in S : f[x] \in Nat /\ g[x] \in Nat /\ h[x] = f[x] + g[x]
  PROVE  Total(h, S) = Total(f, S) + Total(g, S)
<1> DEFINE both == [s \in SUBSET S |-> Total(f, s) + Total(g, s)]
<1>1. both[{}] = 0
  BY TotalOfNone
<1>2. ASSUME NEW s \in SUBSET S, s # {} PROVE \E x \in s : both[s] = h[x] + both[s \ {x}]
  <2>1. PICK x \in s : TRUE
    BY <1>2
  <2>2. IsFiniteSet(s)
    BY FS_Subset
  <2>3. Total(f, s) = f[x] + Total(f, s \ {x}) /\ Total(f, s \ {x}) \in Nat
    <3>1. \A y \in s : f[y] \in Nat
      OBVIOUS
    <3> QED
      BY <2>1, <2>2, <3>1, TotalWithout
  <2>4. Total(g, s) = g[x] + Total(g, s \ {x}) /\ Total(g, s \ {x}) \in Nat
    <3>1. \A y \in s : g[y] \in Nat
      OBVIOUS
    <3> QED
      BY <2>1, <2>2, <3>1, TotalWithout
  <2>5. both[s] = h[x] + both[s \ {x}]
    BY <2>1, <2>3, <2>4
  <2> QED
    BY <2>1, <2>5
<1>3. \A x \in S : h[x] \in Nat
  OBVIOUS
<1> HIDE DEF both
<1>4. both[S] = Total(h, S)
  BY <1>1, <1>2, <1>3, OnlyTotal
<1> QED
  BY <1>4 DEF both

LEMMA TotalTimes ==
  ASSUME NEW f, NEW S, IsFiniteSet(S), NEW many \in Nat, NEW h, \A x \in S : f[x] \in Nat /\ h[x] = many * f[x]
  PROVE  Total(h, S) = many * Total(f, S)
<1> DEFINE times == [s \in SUBSET S |-> many * Total(f, s)]
<1>1. times[{}] = 0
  BY TotalOfNone
<1>2. ASSUME NEW s \in SUBSET S, s # {} PROVE \E x \in s : times[s] = h[x] + times[s \ {x}]
  <2>1. PICK x \in s : TRUE
    BY <1>2
  <2>2. IsFiniteSet(s)
    BY FS_Subset
  <2>3. Total(f, s) = f[x] + Total(f, s \ {x}) /\ Total(f, s \ {x}) \in Nat
    BY <2>1, <2>2, TotalWithout
  <2>4. f[x] \in Nat /\ h[x] = many * f[x]
    BY <2>1
  <2>5. many * (f[x] + Total(f, s \ {x})) = many * f[x] + many * Total(f, s \ {x})
    BY <2>3, <2>4
  <2> QED
    BY <2>1, <2>3, <2>4, <2>5
<1>3. \A x \in S : h[x] \in Nat
  OBVIOUS
<1> HIDE DEF times
<1>4. times[S] = Total(h, S)
  BY <1>1, <1>2, <1>3, OnlyTotal
<1> QED
  BY <1>4 DEF times

\* A sum is that of its parts' sums.
LEMMA TotalOfParts ==
  ASSUME NEW f, NEW S, IsFiniteSet(S), \A x \in S : f[x] \in Nat,
         NEW K, IsFiniteSet(K), NEW key, \A x \in S : key[x] \in K,
         NEW of, \A i \in K : \A x : x \in of[i] <=> x \in S /\ key[x] = i,
         NEW sums, \A i \in K : sums[i] = Total(f, of[i])
  PROVE  Total(f, S) = Total(sums, K)
<1> DEFINE Of(s) == {x \in S : key[x] \in s}
           joined == [s \in SUBSET K |-> Total(f, Of(s))]
<1>1. \A s \in SUBSET K : IsFiniteSet(Of(s)) /\ \A x \in Of(s) : f[x] \in Nat
  BY FS_Subset
<1>2. joined[{}] = 0
  <2>1. Of({}) = {}
    OBVIOUS
  <2> QED
    BY <2>1, TotalOfNone
<1>3. \A i \in K : sums[i] = Total(f, Of({i}))
  <2>1. \A i \in K : Of({i}) = of[i]
    OBVIOUS
  <2> QED
    BY <2>1
<1>4. \A i \in K : sums[i] \in Nat
  <2> SUFFICES ASSUME NEW i \in K PROVE Total(f, Of({i})) \in Nat
    BY <1>3
  <2> DEFINE mine == Of({i})
  <2>1. IsFiniteSet(mine) /\ \A x \in mine : f[x] \in Nat
    <3>1. {i} \in SUBSET K
      OBVIOUS
    <3> HIDE DEF Of
    <3> QED
      BY <1>1, <3>1
  <2> HIDE DEF mine
  <2>2. Total(f, mine) \in Nat
    BY <2>1, UnitsOf
  <2> QED
    BY <2>2 DEF mine
<1>5. ASSUME NEW s \in SUBSET K, s # {} PROVE \E i \in s : joined[s] = sums[i] + joined[s \ {i}]
  <2>1. PICK i \in s : TRUE
    BY <1>5
  <2> DEFINE mine == Of({i})
             rest == Of(s \ {i})
  <2>2. Of(s) = mine \cup rest /\ mine \cap rest = {}
    BY <2>1
  <2>3. IsFiniteSet(mine) /\ IsFiniteSet(rest) /\ \A x \in mine \cup rest : f[x] \in Nat
    <3>1. {i} \in SUBSET K /\ s \ {i} \in SUBSET K
      BY <2>1
    <3> HIDE DEF Of
    <3> QED
      BY <1>1, <3>1
  <2>4. Total(f, mine \cup rest) = Total(f, mine) + Total(f, rest)
    <3> HIDE DEF mine, rest
    <3> QED
      BY <2>2, <2>3, TotalJoined
  <2>5. joined[s] = Total(f, mine \cup rest) /\ joined[s \ {i}] = Total(f, rest) /\ sums[i] = Total(f, mine)
    BY <1>3, <2>1, <2>2
  <2> HIDE DEF mine, rest, joined
  <2> QED
    BY <2>1, <2>4, <2>5
<1>6. Of(K) = S
  OBVIOUS
<1> HIDE DEF joined
<1>7. joined[K] = Total(sums, K)
  BY <1>2, <1>4, <1>5, OnlyTotal
<1> QED
  BY <1>6, <1>7 DEF joined

\* The sum of a table's rows is that of its columns.
LEMMA TotalEitherWay ==
  ASSUME NEW S, IsFiniteSet(S), NEW T, IsFiniteSet(T), NEW a \in [S -> [T -> Nat]]
  PROVE  Total([x \in S |-> Total(a[x], T)], S) = Total([y \in T |-> Total([x \in S |-> a[x][y]], S)], T)
<1> DEFINE rows == [x \in S |-> Total(a[x], T)]
           column(y) == [x \in S |-> a[x][y]]
           upto(s) == [y \in T |-> Total(column(y), s)]
           sums == [s \in SUBSET S |-> Total(upto(s), T)]
<1>1. \A x \in S : rows[x] \in Nat
  <2>1. \A x \in S : \A y \in T : a[x][y] \in Nat
    OBVIOUS
  <2> QED
    BY <2>1, UnitsOf
<1>2. sums[{}] = 0
  <2> DEFINE g == upto({})
             h == [y \in T |-> 0 * g[y]]
  <2>1. \A y \in T : g[y] = 0
    BY TotalOfNone
  <2>2. Total(g, T) = 0 * Total(g, T)
    <3> HIDE DEF g
    <3> QED
      BY <2>1, TotalTimes
  <2>3. Total(g, T) \in Nat
    <3> HIDE DEF g
    <3> QED
      BY <2>1, UnitsOf
  <2> QED
    BY <2>2, <2>3
<1>3. ASSUME NEW s \in SUBSET S, s # {} PROVE \E x \in s : sums[s] = rows[x] + sums[s \ {x}]
  <2>1. PICK x \in s : TRUE
    BY <1>3
  <2>2. IsFiniteSet(s)
    BY FS_Subset
  <2>3. \A y \in T : /\ a[x][y] \in Nat /\ Total(column(y), s \ {x}) \in Nat
                     /\ Total(column(y), s) = a[x][y] + Total(column(y), s \ {x})
    <3> SUFFICES ASSUME NEW y \in T
                 PROVE  /\ a[x][y] \in Nat /\ Total(column(y), s \ {x}) \in Nat
                        /\ Total(column(y), s) = a[x][y] + Total(column(y), s \ {x})
      OBVIOUS
    <3> DEFINE c == column(y)
    <3>1. c[x] = a[x][y] /\ a[x][y] \in Nat /\ \A z \in s : c[z] \in Nat
      BY <2>1
    <3> HIDE DEF c
    <3>2. Total(c, s) = c[x] + Total(c, s \ {x}) /\ Total(c, s \ {x}) \in Nat
      BY <2>1, <2>2, <3>1, TotalWithout
    <3> QED
      BY <3>1, <3>2 DEF c
  <2> DEFINE g == upto(s)
             h == upto(s \ {x})
  <2>4. \A y \in T : a[x][y] \in Nat /\ h[y] \in Nat /\ g[y] = a[x][y] + h[y]
    BY <2>3
  <2>5. Total(g, T) = Total(a[x], T) + Total(h, T)
    <3> HIDE DEF g, h
    <3> QED
      BY <2>4, TotalAdded
  <2> QED
    BY <2>1, <2>5
<1> HIDE DEF rows, sums
<1>4. sums[S] = Total(rows, S)
  BY <1>1, <1>2, <1>3, OnlyTotal
<1> QED
  BY <1>4 DEF rows, sums

LEMMA TotalOfZeros == ASSUME NEW f, NEW S, \A x \in S : f[x] = 0 PROVE Total(f, S) = 0
<1>1. Units(f, S) = {}
  BY DEF Units
<1> QED
  BY <1>1, FS_EmptySet DEF Total

LEMMA DivBelow ==
  ASSUME NEW x \in Nat, NEW d \in Nat \ {0} PROVE x \div d \in Nat /\ d * (x \div d) <= x
OBVIOUS

LEMMA DivExact ==
  ASSUME NEW x \in Nat, NEW y \in Nat, NEW d \in Nat \ {0} PROVE ((x * d) * y) \div d = x * y
<1>1. (x * d) * y = (x * y) * d /\ x * y \in Nat
  OBVIOUS
<1>2. \A z \in Nat : (z * d) \div d = z
  OBVIOUS
<1> QED
  BY <1>1, <1>2

\* Shares rounded down are no more than what is shared.
LEMMA SharesWithin ==
  ASSUME NEW f, NEW S, IsFiniteSet(S), NEW whole \in Nat, \A x \in S : f[x] \in Nat, Total(f, S) # 0,
         NEW g, \A x \in S : g[x] = (whole * f[x]) \div Total(f, S)
  PROVE  (\A x \in S : g[x] \in Nat) /\ Total(g, S) <= whole
<1> DEFINE d == Total(f, S)
           ups == [x \in S |-> d * g[x]]
           all == [x \in S |-> whole * f[x]]
<1>1. d \in Nat \ {0}
  BY UnitsOf
<1> HIDE DEF d
<1>2. \A x \in S : g[x] \in Nat /\ all[x] \in Nat /\ ups[x] \in Nat /\ ups[x] <= all[x]
  <2> SUFFICES ASSUME NEW x \in S PROVE g[x] \in Nat /\ all[x] \in Nat /\ ups[x] \in Nat /\ ups[x] <= all[x]
    OBVIOUS
  <2> DEFINE y == whole * f[x]
  <2>1. y \in Nat /\ g[x] = y \div d
    BY DEF d
  <2>2. all[x] = y /\ ups[x] = d * g[x]
    OBVIOUS
  <2> HIDE DEF y, all, ups
  <2>3. g[x] \in Nat /\ d * g[x] <= y
    BY <1>1, <2>1, DivBelow
  <2>4. d * g[x] \in Nat
    BY <1>1, <2>3
  <2> QED
    BY <2>1, <2>2, <2>3, <2>4
<1>3. Total(ups, S) = d * Total(g, S) /\ Total(g, S) \in Nat
  <2>1. \A x \in S : g[x] \in Nat /\ ups[x] = d * g[x]
    BY <1>2
  <2> HIDE DEF ups
  <2> QED
    BY <1>1, <2>1, TotalTimes, UnitsOf
<1>4. Total(all, S) = whole * d
  <2>1. \A x \in S : f[x] \in Nat /\ all[x] = whole * f[x]
    OBVIOUS
  <2> HIDE DEF all
  <2>2. Total(all, S) = whole * Total(f, S)
    BY <2>1, TotalTimes
  <2> QED
    BY <2>2 DEF d
<1>5. Total(ups, S) <= Total(all, S)
  <2> HIDE DEF all, ups
  <2> QED
    BY <1>2, TotalLeq
<1> HIDE DEF all, ups
<1>6. d * Total(g, S) <= d * whole
  BY <1>1, <1>3, <1>4, <1>5
<1>7. Total(g, S) <= whole
  <2> DEFINE sum == Total(g, S)
  <2>1. sum \in Nat /\ d * sum <= d * whole
    BY <1>3, <1>6
  <2> HIDE DEF sum
  <2>2. sum <= whole
    BY <1>1, <2>1
  <2> QED
    BY <2>2 DEF sum
<1> QED
  BY <1>2, <1>7

-----------------------------------------------------------------------------
(* The room that nodes have. *)

Needs(wl, p) == Capacity!Unit * paused[wl].requests * paused[wl].ran[p]

RoomTyped ==
  /\ ready \subseteq Nodes
  /\ pods \in [Pods -> [node : Nodes \cup {Capacity!Unbound}, requests : Nat, finished : BOOLEAN]]
  /\ paused \in [Asleep -> [requests : Nat, ran : Capacity!Ran]]

RoomInv ==
  /\ RoomTyped
  /\ shares = Capacity!NoShares \/ shares = Capacity!Realise([wl \in Asleep |-> Capacity!Held(wl)])

LEMMA RoomFinite ==
  ASSUME Capacity!Assumptions
  PROVE  /\ IsFiniteSet(Nodes) /\ IsFiniteSet(Pods) /\ IsFiniteSet(Asleep)
         /\ IsFiniteSet(Capacity!Pools) /\ IsFiniteSet(Capacity!Places)
         /\ Capacity!Places = Capacity!Pools \cup {Capacity!AnyPool} /\ Capacity!AnyPool \notin Capacity!Pools
         /\ Capacity!Unbound \notin Nodes /\ MaxAsleep \in Nat /\ Allocatable \in Nat /\ MaxRequests \in Nat
<1>1. /\ IsFiniteSet(Nodes) /\ IsFiniteSet(Pods) /\ IsFiniteSet(Asleep)
      /\ Capacity!AnyPool \notin Capacity!Pools /\ Capacity!Unbound \notin Nodes
      /\ MaxAsleep \in Nat /\ Allocatable \in Nat /\ MaxRequests \in Nat
      /\ Capacity!Places = Capacity!Pools \cup {Capacity!AnyPool}
  <2>1. {Allocatable, MaxRequests, MaxAsleep} \subseteq Nat
    BY DEF Capacity!Assumptions
  <2>2. MaxAsleep \in Nat /\ Allocatable \in Nat /\ MaxRequests \in Nat
    BY <2>1
  <2>3. Capacity!Places = Capacity!Pools \cup {Capacity!AnyPool}
    BY DEF Capacity!Places
  <2> QED
    BY <2>2, <2>3 DEF Capacity!Assumptions, Capacity!IsFiniteSet, IsFiniteSet
<1>2. IsFiniteSet(Capacity!Pools)
  <2> DEFINE pool == [node \in Nodes |-> PoolOf[node]]
  <2>1. pool \in Surjection(Nodes, Capacity!Pools)
    BY DEF Surjection, Capacity!Pools
  <2> QED
    BY <1>1, <2>1, FS_Surjection
<1> QED
  BY <1>1, <1>2, FS_AddElement

LEMMA HeldIs ==
  ASSUME Capacity!Assumptions, RoomTyped, NEW wl \in Asleep, NEW p \in Capacity!Places
  PROVE  Capacity!Held(wl)[p] = Needs(wl, p) /\ Needs(wl, p) \in Nat
<1> DEFINE ran == paused[wl].ran
           one == Capacity!Unit * paused[wl].requests
           everywhere == Capacity!SumFunction(ran)
           inPools == Capacity!SumFunctionOnSet(ran, Capacity!Pools)
<1>0. /\ IsFiniteSet(Capacity!Pools) /\ IsFiniteSet(Capacity!Places) /\ MaxAsleep \in Nat
      /\ Capacity!Places = Capacity!Pools \cup {Capacity!AnyPool} /\ Capacity!AnyPool \notin Capacity!Pools
  BY RoomFinite
<1>1. /\ ran \in [Capacity!Places -> 0..MaxAsleep] /\ paused[wl].requests \in Nat
      /\ ran[Capacity!AnyPool] = 0 \/ \A q \in Capacity!Pools : ran[q] = 0
  BY DEF RoomTyped, Capacity!Ran
<1>2. one \in Nat
  BY <1>1 DEF Capacity!Unit
<1>3. \A q \in Capacity!Places : ran[q] \in Nat
  BY <1>0, <1>1
<1>4. everywhere = Total(ran, Capacity!Places) /\ inPools = Total(ran, Capacity!Pools) /\ inPools \in Nat
  <2>1. DOMAIN ran = Capacity!Places
    BY <1>1
  <2>2. \A q \in Capacity!Pools : ran[q] \in Nat
    BY <1>0, <1>3
  <2> HIDE DEF ran
  <2>3. everywhere = Capacity!SumFunctionOnSet(ran, Capacity!Places)
    BY <2>1 DEF Capacity!SumFunction
  <2> QED
    BY <1>0, <1>3, <2>2, <2>3, SumIsTotal
<1>5. everywhere = ran[Capacity!AnyPool] + inPools
  <2>1. Capacity!Places \ {Capacity!AnyPool} = Capacity!Pools /\ Capacity!AnyPool \in Capacity!Places
    BY <1>0
  <2> HIDE DEF ran
  <2>2. Total(ran, Capacity!Places) = ran[Capacity!AnyPool] + Total(ran, Capacity!Places \ {Capacity!AnyPool})
    BY <1>0, <1>3, <2>1, TotalWithout
  <2> QED
    BY <1>4, <2>1, <2>2
<1>6. Capacity!Held(wl)[p] =
        IF p = Capacity!AnyPool THEN IF inPools = 0 THEN one * everywhere ELSE 0
        ELSE IF inPools = 0 THEN 0 ELSE ((one * everywhere) * ran[p]) \div inPools
  BY DEF Capacity!Held
<1>7. Needs(wl, p) = one * ran[p]
  BY DEF Needs
<1>8. \A q \in Capacity!Pools : inPools = 0 => ran[q] = 0
  <2> SUFFICES ASSUME NEW q \in Capacity!Pools PROVE ran[q] <= inPools
    BY <1>0, <1>3, <1>4
  <2>1. \A r \in Capacity!Pools : ran[r] \in Nat
    BY <1>0, <1>3
  <2> HIDE DEF ran
  <2>2. /\ Total(ran, Capacity!Pools) = ran[q] + Total(ran, Capacity!Pools \ {q})
        /\ Total(ran, Capacity!Pools \ {q}) \in Nat
    BY <1>0, <2>1, TotalWithout
  <2> QED
    BY <1>4, <2>1, <2>2
<1>9. (\A q \in Capacity!Pools : ran[q] = 0) => inPools = 0
  <2> HIDE DEF ran
  <2> QED
    BY <1>4, TotalOfZeros
<1>10. ran[p] \in Nat /\ ran[Capacity!AnyPool] \in Nat /\ one * ran[p] \in Nat
  BY <1>0, <1>2, <1>3
<1> HIDE DEF ran, one, everywhere, inPools
<1>11. CASE inPools = 0
  BY <1>0, <1>2, <1>4, <1>5, <1>6, <1>7, <1>8, <1>10, <1>11
<1>12. CASE inPools # 0
  <2>1. ran[Capacity!AnyPool] = 0 /\ everywhere = inPools
    BY <1>1, <1>4, <1>5, <1>9, <1>12 DEF ran
  <2>2. CASE p = Capacity!AnyPool
    BY <1>2, <1>6, <1>7, <1>10, <1>12, <2>1, <2>2
  <2>3. CASE p # Capacity!AnyPool
    <3>1. ((one * inPools) * ran[p]) \div inPools = one * ran[p]
      BY <1>2, <1>4, <1>10, <1>12, DivExact
    <3> QED
      BY <1>6, <1>7, <1>10, <1>12, <2>1, <2>3, <3>1
  <2> QED
    BY <2>2, <2>3
<1> QED
  BY <1>11, <1>12

LEMMA SumOfFunction ==
  ASSUME NEW S, IsFiniteSet(S), NEW f, DOMAIN f = S, \A x \in S : f[x] \in Nat
  PROVE  Capacity!SumFunction(f) = Total(f, S) /\ Total(f, S) \in Nat
BY SumIsTotal DEF Capacity!SumFunction

LEMMA RoomTypedIs ==
  ASSUME Capacity!Assumptions, RoomTyped, NEW node \in Nodes
  PROVE  Capacity!Room(node) \in Int
<1> DEFINE here == {p \in Pods : pods[p].node = node /\ ~pods[p].finished}
           asked == [p \in here |-> pods[p].requests]
<1>1. IsFiniteSet(here)
  BY RoomFinite, FS_Subset
<1>2. DOMAIN asked = here /\ \A p \in here : asked[p] \in Nat
  BY DEF RoomTyped
<1>3. Capacity!SumFunction(asked) \in Nat
  <2> HIDE DEF here, asked
  <2> QED
    BY <1>1, <1>2, SumOfFunction
<1>4. Capacity!Room(node) = Capacity!Unit * (Allocatable - Capacity!SumFunction(asked))
  BY DEF Capacity!Room
<1> HIDE DEF asked
<1> QED
  BY <1>3, <1>4, RoomFinite DEF Capacity!Unit

Above(node) == Capacity!Beyond(Capacity!Room(node), 0)

LEMMA SpareIs ==
  ASSUME Capacity!Assumptions, RoomTyped, NEW pool
  PROVE  /\ IsFiniteSet(Capacity!InPool(pool)) /\ \A node \in Capacity!InPool(pool) : Above(node) \in Nat
         /\ Capacity!Spare(pool) = Total([node \in Capacity!InPool(pool) |-> Above(node)], Capacity!InPool(pool))
         /\ Capacity!Spare(pool) \in Nat
<1> DEFINE nodes == Capacity!InPool(pool)
           above == [node \in nodes |-> Above(node)]
<1>1. nodes \subseteq Nodes /\ IsFiniteSet(nodes)
  <2>1. nodes \in SUBSET Nodes
    BY DEF Capacity!InPool, RoomTyped
  <2> QED
    BY <2>1, RoomFinite, FS_Subset
<1>2. \A node \in nodes : Above(node) \in Nat
  BY <1>1, RoomTypedIs DEF Above, Capacity!Beyond
<1>3. DOMAIN above = nodes /\ \A node \in nodes : above[node] \in Nat
  BY <1>2
<1>4. Capacity!Spare(pool) = Capacity!SumFunction(above)
  BY DEF Capacity!Spare, Above
<1>5. Capacity!SumFunction(above) = Total(above, nodes) /\ Total(above, nodes) \in Nat
  <2> HIDE DEF above, nodes
  <2> QED
    BY <1>1, <1>3, SumOfFunction
<1> QED
  BY <1>1, <1>2, <1>4, <1>5

\* All that is held in a place, what the pools have left, and each place's shortfall.
Whole(p) == Total([wl \in Asleep |-> Needs(wl, p)], Asleep)
LeftIn(p) == Capacity!Beyond(Capacity!Spare(p), Whole(p))
Left == Total([p \in Capacity!Pools |-> LeftIn(p)], Capacity!Pools)
Short(p) == Capacity!Beyond(Whole(p), IF p = Capacity!AnyPool THEN Left ELSE Capacity!Spare(p))
ShareOf(wl, p) == IF Whole(p) = 0 THEN 0 ELSE (Short(p) * Needs(wl, p)) \div Whole(p)

LEMMA WholeIs ==
  ASSUME Capacity!Assumptions, RoomTyped, NEW p \in Capacity!Places
  PROVE  /\ Capacity!SumFunction([wl \in Asleep |-> Capacity!Held(wl)[p]]) = Whole(p)
         /\ Whole(p) \in Nat
<1> DEFINE each == [wl \in Asleep |-> Needs(wl, p)]
<1>1. each = [wl \in Asleep |-> Capacity!Held(wl)[p]]
  BY HeldIs
<1>2. DOMAIN each = Asleep /\ \A wl \in Asleep : each[wl] \in Nat
  BY HeldIs
<1>3. Whole(p) = Total(each, Asleep)
  BY DEF Whole
<1> HIDE DEF each
<1> QED
  BY <1>1, <1>2, <1>3, RoomFinite, SumOfFunction

LEMMA ShortIs ==
  ASSUME Capacity!Assumptions, RoomTyped
  PROVE  /\ \A p \in Capacity!Pools : LeftIn(p) \in Nat
         /\ Capacity!SumFunction([p \in Capacity!Pools |-> LeftIn(p)]) = Left /\ Left \in Nat
         /\ \A p \in Capacity!Places : Short(p) \in Nat
<1> DEFINE each == [p \in Capacity!Pools |-> LeftIn(p)]
<1>1. \A p \in Capacity!Pools : LeftIn(p) \in Nat
  <2> SUFFICES ASSUME NEW p \in Capacity!Pools PROVE LeftIn(p) \in Nat
    OBVIOUS
  <2>1. p \in Capacity!Places
    BY RoomFinite
  <2>2. Whole(p) \in Nat /\ Capacity!Spare(p) \in Nat
    BY <2>1, SpareIs, WholeIs
  <2> QED
    BY <2>2 DEF LeftIn, Capacity!Beyond
<1>2. Capacity!SumFunction(each) = Left /\ Left \in Nat
  <2>1. DOMAIN each = Capacity!Pools /\ \A p \in Capacity!Pools : each[p] \in Nat
    BY <1>1
  <2>2. Left = Total(each, Capacity!Pools)
    BY DEF Left
  <2> HIDE DEF each
  <2> QED
    BY <2>1, <2>2, RoomFinite, SumOfFunction
<1>3. \A p \in Capacity!Places : Short(p) \in Nat
  <2> SUFFICES ASSUME NEW p \in Capacity!Places PROVE Short(p) \in Nat
    OBVIOUS
  <2>1. Whole(p) \in Nat /\ Capacity!Spare(p) \in Nat
    BY SpareIs, WholeIs
  <2> QED
    BY <1>2, <2>1 DEF Short, Capacity!Beyond
<1> QED
  BY <1>1, <1>2, <1>3

LEMMA RealiseIs ==
  ASSUME Capacity!Assumptions, RoomTyped, NEW wl \in Asleep
  PROVE  /\ Capacity!Realise([x \in Asleep |-> Capacity!Held(x)])[wl] =
              Total([p \in Capacity!Places |-> ShareOf(wl, p)], Capacity!Places)
         /\ \A p \in Capacity!Places : ShareOf(wl, p) \in Nat
<1> DEFINE held == [x \in Asleep |-> Capacity!Held(x)]
           inAll == [p \in Capacity!Places |-> Capacity!SumFunction([x \in Asleep |-> held[x][p]])]
           spare == [p \in Capacity!Pools |-> Capacity!Spare(p)]
           over == [p \in Capacity!Pools |-> Capacity!Beyond(spare[p], inAll[p])]
           shortfall == [p \in Capacity!Places |->
             Capacity!Beyond(inAll[p], IF p = Capacity!AnyPool THEN Capacity!SumFunction(over) ELSE spare[p])]
           mine == [p \in Capacity!Places |->
             IF inAll[p] = 0 THEN 0 ELSE (shortfall[p] * held[wl][p]) \div inAll[p]]
           each == [p \in Capacity!Places |-> ShareOf(wl, p)]
<1>1. Capacity!Realise(held)[wl] = Capacity!SumFunction(mine)
  BY DEF Capacity!Realise
<1>2. \A p \in Capacity!Places : inAll[p] = Whole(p)
  <2> SUFFICES ASSUME NEW p \in Capacity!Places
               PROVE  Capacity!SumFunction([x \in Asleep |-> held[x][p]]) = Whole(p)
    OBVIOUS
  <2>1. [x \in Asleep |-> held[x][p]] = [x \in Asleep |-> Capacity!Held(x)[p]]
    OBVIOUS
  <2> HIDE DEF held
  <2> QED
    BY <2>1, WholeIs
<1>3. Capacity!SumFunction(over) = Left
  <2>1. over = [p \in Capacity!Pools |-> LeftIn(p)]
    BY <1>2, RoomFinite DEF LeftIn
  <2> HIDE DEF over
  <2> QED
    BY <2>1, ShortIs
<1>4. \A p \in Capacity!Places : shortfall[p] = Short(p)
  <2> HIDE DEF inAll, over
  <2>1. \A p \in Capacity!Places : p # Capacity!AnyPool => spare[p] = Capacity!Spare(p)
    BY RoomFinite
  <2> QED
    BY <1>2, <1>3, <2>1 DEF Short
<1>5. mine = each
  <2>1. \A p \in Capacity!Places : held[wl][p] = Needs(wl, p)
    BY HeldIs
  <2> HIDE DEF held, inAll, shortfall
  <2> QED
    BY <1>2, <1>4, <2>1 DEF ShareOf
<1>6. \A p \in Capacity!Places : ShareOf(wl, p) \in Nat
  <2> SUFFICES ASSUME NEW p \in Capacity!Places, Whole(p) # 0 PROVE (Short(p) * Needs(wl, p)) \div Whole(p) \in Nat
    BY DEF ShareOf
  <2>1. Short(p) \in Nat /\ Needs(wl, p) \in Nat /\ Whole(p) \in Nat \ {0}
    BY HeldIs, ShortIs, WholeIs
  <2>2. Short(p) * Needs(wl, p) \in Nat
    BY <2>1
  <2> QED
    BY <2>1, <2>2, DivBelow
<1>7. DOMAIN each = Capacity!Places /\ \A p \in Capacity!Places : each[p] \in Nat
  BY <1>6
<1>8. Capacity!SumFunction(each) = Total(each, Capacity!Places)
  <2> HIDE DEF each
  <2> QED
    BY <1>7, RoomFinite, SumOfFunction
<1> HIDE DEF mine, each
<1>9. Capacity!Realise(held)[wl] = Total(each, Capacity!Places)
  BY <1>1, <1>5, <1>8
<1> QED
  BY <1>6, <1>9 DEF each

\* What is out is no more than the places' shortfalls.
LEMMA CreditWithin ==
  ASSUME Capacity!Assumptions, RoomTyped
  PROVE  LET out == Capacity!Realise([x \in Asleep |-> Capacity!Held(x)])
         IN  /\ Capacity!SumFunction(out) \in Nat
             /\ Capacity!SumFunction(out) <= Total([p \in Capacity!Places |-> Short(p)], Capacity!Places)
<1> DEFINE given == Capacity!Realise([x \in Asleep |-> Capacity!Held(x)])
           table == [wl \in Asleep |-> [p \in Capacity!Places |-> ShareOf(wl, p)]]
           rows == [wl \in Asleep |-> Total(table[wl], Capacity!Places)]
           columns == [p \in Capacity!Places |-> Total([wl \in Asleep |-> table[wl][p]], Asleep)]
           shorts == [p \in Capacity!Places |-> Short(p)]
<1>0. IsFiniteSet(Asleep) /\ IsFiniteSet(Capacity!Places)
  BY RoomFinite
<1>1. table \in [Asleep -> [Capacity!Places -> Nat]]
  BY RealiseIs
<1>2. given = rows
  <2>1. given = [wl \in Asleep |-> given[wl]]
    BY DEF Capacity!Realise
  <2>2. \A wl \in Asleep : given[wl] = rows[wl]
    BY RealiseIs
  <2> HIDE DEF given
  <2> QED
    BY <2>1, <2>2
<1>3. DOMAIN rows = Asleep /\ \A wl \in Asleep : rows[wl] \in Nat
  <2>1. \A wl \in Asleep : \A p \in Capacity!Places : table[wl][p] \in Nat
    BY <1>1
  <2> HIDE DEF table
  <2> QED
    BY <1>0, <2>1, UnitsOf
<1>4. Capacity!SumFunction(rows) = Total(rows, Asleep) /\ Total(rows, Asleep) \in Nat
  <2> HIDE DEF rows
  <2> QED
    BY <1>0, <1>3, SumOfFunction
<1>5. Total(rows, Asleep) = Total(columns, Capacity!Places)
  <2> HIDE DEF table
  <2> QED
    BY <1>0, <1>1, TotalEitherWay
<1>6. \A p \in Capacity!Places : columns[p] \in Nat /\ shorts[p] \in Nat /\ columns[p] <= shorts[p]
  <2> SUFFICES ASSUME NEW p \in Capacity!Places PROVE columns[p] \in Nat /\ Short(p) \in Nat /\ columns[p] <= Short(p)
    OBVIOUS
  <2> DEFINE column == [wl \in Asleep |-> ShareOf(wl, p)]
             needs == [wl \in Asleep |-> Needs(wl, p)]
  <2>1. columns[p] = Total(column, Asleep)
    <3>1. [wl \in Asleep |-> table[wl][p]] = column
      OBVIOUS
    <3> HIDE DEF table, column
    <3> QED
      BY <3>1
  <2>2. Short(p) \in Nat /\ Whole(p) \in Nat /\ Whole(p) = Total(needs, Asleep)
    BY ShortIs, WholeIs DEF Whole
  <2>3. CASE Whole(p) = 0
    <3>1. \A wl \in Asleep : column[wl] = 0
      BY <2>3 DEF ShareOf
    <3> HIDE DEF column, columns
    <3>2. Total(column, Asleep) = 0
      BY <3>1, TotalOfZeros
    <3> QED
      BY <2>1, <2>2, <3>2
  <2>4. CASE Whole(p) # 0
    <3>1. \A wl \in Asleep : needs[wl] \in Nat /\ column[wl] = (Short(p) * needs[wl]) \div Whole(p)
      BY <2>4, HeldIs DEF ShareOf
    <3> HIDE DEF column, columns, needs
    <3>2. (\A wl \in Asleep : column[wl] \in Nat) /\ Total(column, Asleep) <= Short(p)
      BY <1>0, <2>2, <2>4, <3>1, SharesWithin
    <3>3. Total(column, Asleep) \in Nat
      BY <1>0, <3>2, UnitsOf
    <3> QED
      BY <2>1, <2>2, <3>2, <3>3
  <2> QED
    BY <2>3, <2>4
<1>7. Total(columns, Capacity!Places) <= Total(shorts, Capacity!Places)
  <2> HIDE DEF columns, shorts
  <2> QED
    BY <1>0, <1>6, TotalLeq
<1> HIDE DEF given, rows, columns
<1> QED
  BY <1>2, <1>4, <1>5, <1>7 DEF given

LEMMA TotalOfSame ==
  ASSUME NEW S, IsFiniteSet(S), NEW many \in Nat, NEW f, \A x \in S : f[x] = many
  PROVE  Total(f, S) = Cardinality(S) * many
<1>1. Units(f, S) = S \X (1..many)
  BY DEF Units
<1>2. IsFiniteSet(1..many) /\ Cardinality(1..many) = many
  BY FS_Interval
<1>3. Cardinality(S \X (1..many)) = Cardinality(S) * Cardinality(1..many)
  BY <1>2, FS_Product
<1> QED
  BY <1>1, <1>2, <1>3 DEF Total

\* What each replica requests.
PerReplica == [r \in Capacity!Replicas |-> Capacity!Unit * paused[r[1]].requests]

LEMMA ReplicasFinite ==
  ASSUME Capacity!Assumptions, RoomTyped
  PROVE  /\ IsFiniteSet(Capacity!Replicas) /\ \A r \in Capacity!Replicas : PerReplica[r] \in Nat
         /\ \A r \in Capacity!Replicas : r[1] \in Asleep /\ r[2] \in Capacity!Places
<1> DEFINE pairs == Asleep \X Capacity!Places
           all == Asleep \X Capacity!Places \X (1..MaxAsleep)
           flat == [x \in pairs \X (1..MaxAsleep) |-> <<x[1][1], x[1][2], x[2]>>]
<1>1. IsFiniteSet(pairs) /\ IsFiniteSet(1..MaxAsleep)
  <2>1. MaxAsleep \in Int /\ 1 \in Int /\ IsFiniteSet(Asleep) /\ IsFiniteSet(Capacity!Places)
    BY RoomFinite
  <2> QED
    BY <2>1, FS_Product, FS_Interval
<1>2. IsFiniteSet(pairs \X (1..MaxAsleep))
  <2> HIDE DEF pairs
  <2> QED
    BY <1>1, FS_Product
<1>3. flat \in Surjection(pairs \X (1..MaxAsleep), all)
  <2>1. flat \in [pairs \X (1..MaxAsleep) -> all]
    OBVIOUS
  <2>2. ASSUME NEW r \in all PROVE \E x \in pairs \X (1..MaxAsleep) : flat[x] = r
    <3>1. <<<<r[1], r[2]>>, r[3]>> \in pairs \X (1..MaxAsleep)
      OBVIOUS
    <3>2. flat[<<<<r[1], r[2]>>, r[3]>>] = r
      BY <3>1
    <3> QED
      BY <3>1, <3>2
  <2> HIDE DEF flat, all, pairs
  <2> QED
    BY <2>1, <2>2 DEF Surjection
<1>4. IsFiniteSet(all)
  <2> HIDE DEF flat, all, pairs
  <2> QED
    BY <1>2, <1>3, FS_Surjection
<1>5. Capacity!Replicas \in SUBSET all
  BY DEF Capacity!Replicas
<1>6. \A r \in all : r[1] \in Asleep /\ r[2] \in Capacity!Places
  OBVIOUS
<1>7. \A r \in Capacity!Replicas : PerReplica[r] \in Nat
  <2>1. \A wl \in Asleep : Capacity!Unit * paused[wl].requests \in Nat
    BY DEF RoomTyped, Capacity!Unit
  <2> HIDE DEF all
  <2> QED
    BY <1>5, <1>6, <2>1 DEF PerReplica
<1> HIDE DEF all
<1> QED
  BY <1>4, <1>5, <1>6, <1>7, FS_Subset

LEMMA RequestsIs ==
  ASSUME Capacity!Assumptions, RoomTyped, NEW S \in SUBSET Capacity!Replicas
  PROVE  Capacity!Requests(S) = Total(PerReplica, S) /\ Total(PerReplica, S) \in Nat
<1> DEFINE each == [r \in S |-> Capacity!Unit * paused[r[1]].requests]
<1>1. IsFiniteSet(S) /\ \A r \in S : PerReplica[r] \in Nat /\ each[r] = PerReplica[r]
  BY ReplicasFinite, FS_Subset DEF PerReplica
<1>2. DOMAIN each = S /\ \A r \in S : each[r] \in Nat
  BY <1>1
<1>3. Capacity!Requests(S) = Capacity!SumFunction(each)
  BY DEF Capacity!Requests
<1> HIDE DEF each
<1>4. Capacity!SumFunction(each) = Total(each, S) /\ Total(each, S) \in Nat
  BY <1>1, <1>2, SumOfFunction
<1>5. Total(each, S) = Total(PerReplica, S)
  BY <1>1, TotalSame
<1> QED
  BY <1>3, <1>4, <1>5

\* What a workload's replicas of a place request is what it holds there.
LEMMA NeedsIs ==
  ASSUME Capacity!Assumptions, RoomTyped, NEW wl \in Asleep, NEW p \in Capacity!Places
  PROVE  Total(PerReplica, {r \in Capacity!Replicas : r[2] = p /\ r[1] = wl}) = Needs(wl, p)
<1> DEFINE mine == {r \in Capacity!Replicas : r[2] = p /\ r[1] = wl}
           many == paused[wl].ran[p]
           one == Capacity!Unit * paused[wl].requests
           nth == [i \in 1..many |-> <<wl, p, i>>]
<1>1. many \in Nat /\ many <= MaxAsleep /\ one \in Nat
  BY RoomFinite DEF RoomTyped, Capacity!Ran, Capacity!Unit
<1>2. nth \in Bijection(1..many, mine)
  <2>1. nth \in [1..many -> mine]
    <3> SUFFICES ASSUME NEW i \in 1..many PROVE <<wl, p, i>> \in mine
      OBVIOUS
    <3>1. i \in 1..MaxAsleep
      BY <1>1, RoomFinite
    <3> QED
      BY <3>1 DEF Capacity!Replicas
  <2>2. ASSUME NEW i \in 1..many, NEW j \in 1..many, nth[i] = nth[j] PROVE i = j
    BY <2>2
  <2>3. ASSUME NEW r \in mine PROVE \E i \in 1..many : nth[i] = r
    <3>1. r = <<wl, p, r[3]>> /\ r[3] \in 1..many
      BY <1>1, RoomFinite DEF Capacity!Replicas
    <3> QED
      BY <3>1
  <2> HIDE DEF nth, mine, many
  <2> QED
    BY <2>1, <2>2, <2>3 DEF Bijection, Injection, Surjection, IsInjective
<1>3. \A r \in mine : PerReplica[r] = one
  BY DEF PerReplica
<1> HIDE DEF nth, mine, many, one
<1>4. IsFiniteSet(1..many) /\ Cardinality(1..many) = many
  BY <1>1, FS_Interval
<1>5. IsFiniteSet(mine) /\ Cardinality(mine) = many
  BY <1>2, <1>4, FS_Bijection DEF ExistsBijection
<1>6. Total(PerReplica, mine) = many * one
  BY <1>1, <1>3, <1>5, TotalOfSame
<1>7. Needs(wl, p) = one * many /\ many * one = one * many
  <2>1. many * one = one * many
    BY <1>1
  <2> QED
    BY <2>1 DEF Needs, one, many
<1> QED
  BY <1>6, <1>7 DEF mine

LEMMA WholeIsCost ==
  ASSUME Capacity!Assumptions, RoomTyped, NEW p \in Capacity!Places
  PROVE  Whole(p) = Total(PerReplica, {r \in Capacity!Replicas : r[2] = p})
<1> DEFINE S == {r \in Capacity!Replicas : r[2] = p}
           key == [r \in Capacity!Replicas |-> r[1]]
           needs == [wl \in Asleep |-> Needs(wl, p)]
<1>1. IsFiniteSet(S) /\ \A r \in S : PerReplica[r] \in Nat /\ key[r] \in Asleep
  BY ReplicasFinite, FS_Subset
<1>2. ASSUME NEW wl \in Asleep PROVE needs[wl] = Total(PerReplica, {r \in S : key[r] = wl})
  <2>1. {r \in S : key[r] = wl} = {r \in Capacity!Replicas : r[2] = p /\ r[1] = wl}
    OBVIOUS
  <2> HIDE DEF S, key
  <2> QED
    BY <2>1, NeedsIs
<1>3. Whole(p) = Total(needs, Asleep)
  BY DEF Whole
<1> HIDE DEF S, key, needs
<1>4. Total(PerReplica, S) = Total(needs, Asleep)
  <2>1. IsFiniteSet(Asleep)
    BY RoomFinite
  <2> DEFINE of == [wl \in Asleep |-> {r \in S : key[r] = wl}]
  <2>2. \A wl \in Asleep : needs[wl] = Total(PerReplica, of[wl])
    BY <1>2
  <2>3. \A wl \in Asleep : \A r : r \in of[wl] <=> r \in S /\ key[r] = wl
    OBVIOUS
  <2>4. (\A r \in S : PerReplica[r] \in Nat) /\ \A r \in S : key[r] \in Asleep
    BY <1>1
  <2> HIDE DEF of
  <2> QED
    BY <1>1, <2>1, <2>2, <2>3, <2>4, TotalOfParts
<1> QED
  BY <1>3, <1>4 DEF S

\* Of replicas that came back on nodes, as NeverCreditsRoom has them.
HaveRoom(on) ==
  \A node \in ready :
    LET here == {r \in Capacity!Replicas : on[r] = node} IN
    (\A r \in here : Capacity!MayRun(r, node)) /\ (here # {} => Capacity!Requests(here) <= Capacity!Room(node))
Back(on, p) == {r \in Capacity!Replicas : on[r] # Capacity!Unbound /\ r[2] = p}
Guests(on, p) == {r \in Back(on, Capacity!AnyPool) : PoolOf[on[r]] = p}
OutOf(on, p) == {r \in Capacity!Replicas : on[r] = Capacity!Unbound /\ r[2] = p}

LEMMA Placed ==
  ASSUME Capacity!Assumptions, RoomTyped, NEW on, NEW p
  PROVE  /\ Total(PerReplica, Back(on, p)) \in Nat /\ Total(PerReplica, Guests(on, p)) \in Nat
         /\ Total(PerReplica, OutOf(on, p)) \in Nat
<1>1. /\ Back(on, p) \in SUBSET Capacity!Replicas /\ Guests(on, p) \in SUBSET Capacity!Replicas
      /\ OutOf(on, p) \in SUBSET Capacity!Replicas
  BY DEF Back, Guests, OutOf
<1> QED
  BY <1>1, RequestsIs

\* Those that are back in a pool, with those that may be in any and are in this, have room there.
LEMMA RoomFor ==
  ASSUME Capacity!Assumptions, RoomTyped, NEW on \in [Capacity!Replicas -> ready \cup {Capacity!Unbound}], HaveRoom(on),
         NEW p \in Capacity!Pools
  PROVE  Total(PerReplica, Back(on, p)) + Total(PerReplica, Guests(on, p)) <= Capacity!Spare(p)
<1> DEFINE inside == {r \in Capacity!Replicas : on[r] \in Capacity!InPool(p)}
           above == [node \in Capacity!InPool(p) |-> Above(node)]
           there == [node \in Capacity!InPool(p) |-> Total(PerReplica, {r \in inside : on[r] = node})]
<1>0. /\ IsFiniteSet(Capacity!InPool(p)) /\ Capacity!Spare(p) = Total(above, Capacity!InPool(p))
      /\ \A node \in Capacity!InPool(p) : above[node] \in Nat /\ node \in ready /\ node \in Nodes /\ PoolOf[node] = p
  BY SpareIs DEF Capacity!InPool, RoomTyped
<1>1. /\ p # Capacity!AnyPool /\ Capacity!Unbound \notin ready
      /\ \A node \in ready : PoolOf[node] \in Capacity!Pools
  BY RoomFinite DEF RoomTyped, Capacity!Pools
<1>2. inside = Back(on, p) \cup Guests(on, p)
  <2>1. ASSUME NEW r \in inside PROVE r \in Back(on, p) \cup Guests(on, p)
    <3>1. r \in Capacity!Replicas /\ on[r] \in ready /\ PoolOf[on[r]] = p /\ on[r] # Capacity!Unbound
      BY <1>0, <1>1
    <3>2. r[2] \in {Capacity!AnyPool, p}
      BY <3>1 DEF HaveRoom, Capacity!MayRun
    <3> QED
      BY <3>1, <3>2 DEF Back, Guests
  <2>2. ASSUME NEW r \in Back(on, p) \cup Guests(on, p) PROVE r \in inside
    <3>1. r \in Capacity!Replicas /\ on[r] # Capacity!Unbound /\ on[r] \in ready
      BY DEF Back, Guests
    <3>2. r[2] \in {Capacity!AnyPool, PoolOf[on[r]]}
      BY <3>1 DEF HaveRoom, Capacity!MayRun
    <3>3. PoolOf[on[r]] = p
      BY <1>1, <3>2 DEF Back, Guests
    <3> QED
      BY <3>1, <3>3 DEF Capacity!InPool
  <2> QED
    BY <2>1, <2>2
<1>3. Back(on, p) \cap Guests(on, p) = {}
  BY <1>1 DEF Back, Guests
<1>4. /\ IsFiniteSet(Back(on, p)) /\ IsFiniteSet(Guests(on, p)) /\ IsFiniteSet(inside)
      /\ \A r \in Capacity!Replicas : PerReplica[r] \in Nat
  BY ReplicasFinite, FS_Subset DEF Back, Guests
<1>5. Total(PerReplica, inside) = Total(PerReplica, Back(on, p)) + Total(PerReplica, Guests(on, p))
  <2>1. \A r \in Back(on, p) \cup Guests(on, p) : PerReplica[r] \in Nat
    BY <1>4 DEF Back, Guests
  <2> QED
    BY <1>2, <1>3, <1>4, <2>1, TotalJoined
<1>6. Total(PerReplica, inside) = Total(there, Capacity!InPool(p))
  <2> DEFINE nodes == Capacity!InPool(p)
  <2>1. \A r \in inside : PerReplica[r] \in Nat
    BY <1>4
  <2>2. \A r \in inside : on[r] \in nodes
    OBVIOUS
  <2>3. \A node \in nodes : there[node] = Total(PerReplica, {r \in inside : on[r] = node})
    OBVIOUS
  <2>4. IsFiniteSet(inside) /\ IsFiniteSet(nodes)
    BY <1>0, <1>4
  <2> DEFINE of == [node \in nodes |-> {r \in inside : on[r] = node}]
  <2>5. \A node \in nodes : there[node] = Total(PerReplica, of[node])
    BY <2>3
  <2>6. \A node \in nodes : \A r : r \in of[node] <=> r \in inside /\ on[r] = node
    OBVIOUS
  <2> HIDE DEF inside, there, nodes, of
  <2>7. Total(PerReplica, inside) = Total(there, nodes)
    BY <2>1, <2>2, <2>4, <2>5, <2>6, TotalOfParts
  <2> QED
    BY <2>7 DEF nodes
<1>7. ASSUME NEW node \in Capacity!InPool(p) PROVE there[node] \in Nat /\ there[node] <= above[node]
  <2> DEFINE here == {r \in Capacity!Replicas : on[r] = node}
  <2>1. there[node] = Total(PerReplica, here)
    <3>1. {r \in inside : on[r] = node} = here
      OBVIOUS
    <3> QED
      BY <3>1
  <2>2. Capacity!Requests(here) = Total(PerReplica, here) /\ Total(PerReplica, here) \in Nat
    <3>1. here \in SUBSET Capacity!Replicas
      OBVIOUS
    <3> HIDE DEF here
    <3> QED
      BY <3>1, RequestsIs
  <2>3. Capacity!Room(node) \in Int /\ above[node] \in Nat
    BY <1>0, RoomTypedIs
  <2>4. here = {} \/ Capacity!Requests(here) <= Capacity!Room(node)
    BY <1>0 DEF HaveRoom
  <2>5. above[node] = IF Capacity!Room(node) > 0 THEN Capacity!Room(node) - 0 ELSE 0
    BY DEF Above, Capacity!Beyond
  <2> HIDE DEF here, there, above
  <2>6. CASE here = {}
    BY <2>1, <2>2, <2>3, <2>6, TotalOfNone
  <2>7. CASE Capacity!Requests(here) <= Capacity!Room(node)
    BY <2>1, <2>2, <2>3, <2>5, <2>7
  <2> QED
    BY <2>4, <2>6, <2>7
<1>8. Total(there, Capacity!InPool(p)) <= Total(above, Capacity!InPool(p))
  <2> HIDE DEF there, above
  <2> QED
    BY <1>0, <1>7, TotalLeq
<1> QED
  BY <1>0, <1>5, <1>6, <1>8

\* What is held in a place is of those that are back and of those that aren't.
LEMMA BackOrOut ==
  ASSUME Capacity!Assumptions, RoomTyped, NEW on, NEW p \in Capacity!Places
  PROVE  Whole(p) = Total(PerReplica, Back(on, p)) + Total(PerReplica, OutOf(on, p))
<1>1. {r \in Capacity!Replicas : r[2] = p} = Back(on, p) \cup OutOf(on, p) /\ Back(on, p) \cap OutOf(on, p) = {}
  BY DEF Back, OutOf
<1>2. IsFiniteSet(Back(on, p)) /\ IsFiniteSet(OutOf(on, p))
  BY ReplicasFinite, FS_Subset DEF Back, OutOf
<1>3. \A r \in Back(on, p) \cup OutOf(on, p) : PerReplica[r] \in Nat
  BY ReplicasFinite DEF Back, OutOf
<1> DEFINE back == Back(on, p)
           out == OutOf(on, p)
<1>4. Whole(p) = Total(PerReplica, back \cup out)
  BY <1>1, WholeIsCost
<1> HIDE DEF back, out
<1>5. Total(PerReplica, back \cup out) = Total(PerReplica, back) + Total(PerReplica, out)
  BY <1>1, <1>2, <1>3, TotalJoined DEF back, out
<1> QED
  BY <1>4, <1>5 DEF back, out

LEMMA GuestsAreBack ==
  ASSUME Capacity!Assumptions, RoomTyped, NEW on \in [Capacity!Replicas -> ready \cup {Capacity!Unbound}]
  PROVE  Total(PerReplica, Back(on, Capacity!AnyPool)) =
           Total([p \in Capacity!Pools |-> Total(PerReplica, Guests(on, p))], Capacity!Pools)
<1> DEFINE S == Back(on, Capacity!AnyPool)
           key == [r \in Capacity!Replicas |-> PoolOf[on[r]]]
           each == [p \in Capacity!Pools |-> Total(PerReplica, Guests(on, p))]
<1>1. IsFiniteSet(S) /\ IsFiniteSet(Capacity!Pools)
  BY ReplicasFinite, RoomFinite, FS_Subset DEF Back
<1>2. \A r \in S : PerReplica[r] \in Nat /\ key[r] \in Capacity!Pools
  BY ReplicasFinite DEF Back, Capacity!Pools, RoomTyped
<1>3. ASSUME NEW p \in Capacity!Pools PROVE each[p] = Total(PerReplica, {r \in S : key[r] = p})
  <2>1. {r \in S : key[r] = p} = Guests(on, p)
    BY DEF Guests, Back
  <2> HIDE DEF S, key
  <2> QED
    BY <2>1
<1> HIDE DEF S, key, each
<1>4. Total(PerReplica, S) = Total(each, Capacity!Pools)
  <2> DEFINE of == [p \in Capacity!Pools |-> {r \in S : key[r] = p}]
  <2>1. \A p \in Capacity!Pools : each[p] = Total(PerReplica, of[p])
    BY <1>3
  <2>2. \A p \in Capacity!Pools : \A r : r \in of[p] <=> r \in S /\ key[r] = p
    OBVIOUS
  <2>3. (\A r \in S : PerReplica[r] \in Nat) /\ \A r \in S : key[r] \in Capacity!Pools
    BY <1>2
  <2> HIDE DEF of
  <2> QED
    BY <1>1, <2>1, <2>2, <2>3, TotalOfParts
<1> QED
  BY <1>4 DEF S, each

LEMMA OutInAll ==
  ASSUME Capacity!Assumptions, RoomTyped, NEW on
  PROVE  Capacity!Requests({r \in Capacity!Replicas : on[r] = Capacity!Unbound}) =
           Total([p \in Capacity!Places |-> Total(PerReplica, OutOf(on, p))], Capacity!Places)
<1> DEFINE S == {r \in Capacity!Replicas : on[r] = Capacity!Unbound}
           key == [r \in Capacity!Replicas |-> r[2]]
           each == [p \in Capacity!Places |-> Total(PerReplica, OutOf(on, p))]
<1>1. S \in SUBSET Capacity!Replicas /\ IsFiniteSet(S) /\ IsFiniteSet(Capacity!Places)
  BY ReplicasFinite, RoomFinite, FS_Subset
<1>2. \A r \in S : PerReplica[r] \in Nat /\ key[r] \in Capacity!Places
  BY ReplicasFinite
<1>3. ASSUME NEW p \in Capacity!Places PROVE each[p] = Total(PerReplica, {r \in S : key[r] = p})
  <2>1. {r \in S : key[r] = p} = OutOf(on, p)
    BY DEF OutOf
  <2> HIDE DEF S, key
  <2> QED
    BY <2>1
<1> HIDE DEF S, key, each
<1>4. Total(PerReplica, S) = Total(each, Capacity!Places)
  <2> DEFINE of == [p \in Capacity!Places |-> {r \in S : key[r] = p}]
  <2>1. \A p \in Capacity!Places : each[p] = Total(PerReplica, of[p])
    BY <1>3
  <2>2. \A p \in Capacity!Places : \A r : r \in of[p] <=> r \in S /\ key[r] = p
    OBVIOUS
  <2>3. (\A r \in S : PerReplica[r] \in Nat) /\ \A r \in S : key[r] \in Capacity!Places
    BY <1>2
  <2> HIDE DEF of
  <2> QED
    BY <1>1, <2>1, <2>2, <2>3, TotalOfParts
<1>5. Capacity!Requests(S) = Total(PerReplica, S)
  BY <1>1, RequestsIs
<1> QED
  BY <1>4, <1>5 DEF S, each

\* The shortfalls are no more than those that aren't back request.
LEMMA ShortWithin ==
  ASSUME Capacity!Assumptions, RoomTyped, NEW on \in [Capacity!Replicas -> ready \cup {Capacity!Unbound}], HaveRoom(on)
  PROVE  Total([p \in Capacity!Places |-> Short(p)], Capacity!Places) <=
           Capacity!Requests({r \in Capacity!Replicas : on[r] = Capacity!Unbound})
<1> DEFINE Pools == Capacity!Pools
           anywhere == Capacity!AnyPool
           shorts == [p \in Capacity!Places |-> Short(p)]
           outs == [p \in Capacity!Places |-> Total(PerReplica, OutOf(on, p))]
           guests == [p \in Pools |-> Total(PerReplica, Guests(on, p))]
           lefts == [p \in Pools |-> LeftIn(p)]
           needed == [p \in Pools |-> shorts[p] + guests[p]]
           found == [p \in Pools |-> outs[p] + lefts[p]]
<1>0. /\ IsFiniteSet(Pools) /\ IsFiniteSet(Capacity!Places) /\ anywhere \notin Pools
      /\ Capacity!Places = Pools \cup {anywhere}
  BY RoomFinite
<1>1. /\ \A p \in Capacity!Places : shorts[p] \in Nat /\ outs[p] \in Nat
      /\ \A p \in Pools : shorts[p] \in Nat /\ outs[p] \in Nat /\ guests[p] \in Nat /\ lefts[p] \in Nat
  BY <1>0, ShortIs, Placed
<1>2. ASSUME NEW p \in Pools PROVE shorts[p] <= outs[p] /\ shorts[p] + guests[p] <= outs[p] + lefts[p]
  <2> DEFINE back == Total(PerReplica, Back(on, p))
             spare == Capacity!Spare(p)
  <2>1. back \in Nat /\ spare \in Nat /\ Whole(p) \in Nat /\ p \in Capacity!Places /\ p # anywhere
    BY <1>0, Placed, SpareIs, WholeIs
  <2>2. back + guests[p] <= spare
    BY RoomFor
  <2>3. Whole(p) = back + outs[p]
    BY <2>1, BackOrOut
  <2>4. shorts[p] = IF Whole(p) > spare THEN Whole(p) - spare ELSE 0
    BY <2>1 DEF Short, Capacity!Beyond
  <2>5. lefts[p] = IF spare > Whole(p) THEN spare - Whole(p) ELSE 0
    BY <2>1 DEF LeftIn, Capacity!Beyond
  <2>6. shorts[p] \in Nat /\ outs[p] \in Nat /\ guests[p] \in Nat /\ lefts[p] \in Nat
    BY <1>1
  <2> HIDE DEF back, spare, shorts, outs, guests, lefts
  <2> QED
    BY <2>1, <2>2, <2>3, <2>4, <2>5, <2>6
<1>3. Total(guests, Pools) = Total(PerReplica, Back(on, anywhere))
  BY GuestsAreBack
<1>4. /\ Whole(anywhere) = Total(guests, Pools) + outs[anywhere] /\ Whole(anywhere) \in Nat
      /\ shorts[anywhere] = IF Whole(anywhere) > Left THEN Whole(anywhere) - Left ELSE 0
  <2>1. anywhere \in Capacity!Places
    BY <1>0
  <2>2. Whole(anywhere) = Total(PerReplica, Back(on, anywhere)) + outs[anywhere] /\ Whole(anywhere) \in Nat
    BY <2>1, BackOrOut, WholeIs
  <2>3. shorts[anywhere] = IF Whole(anywhere) > Left THEN Whole(anywhere) - Left ELSE 0
    BY <2>1 DEF Short, Capacity!Beyond
  <2> HIDE DEF guests, outs, shorts
  <2> QED
    BY <1>3, <2>2, <2>3
<1>5. Left = Total(lefts, Pools)
  BY DEF Left
<1>6. Capacity!Requests({r \in Capacity!Replicas : on[r] = Capacity!Unbound}) = Total(outs, Capacity!Places)
  BY OutInAll
<1> HIDE DEF Pools, anywhere, shorts, outs, guests, lefts
<1>7. /\ Total(shorts, Capacity!Places) = shorts[anywhere] + Total(shorts, Pools)
      /\ Total(outs, Capacity!Places) = outs[anywhere] + Total(outs, Pools)
  <2>1. Capacity!Places \ {anywhere} = Pools /\ anywhere \in Capacity!Places
    BY <1>0
  <2>2. Total(shorts, Capacity!Places) = shorts[anywhere] + Total(shorts, Capacity!Places \ {anywhere})
    BY <1>0, <1>1, <2>1, TotalWithout
  <2>3. Total(outs, Capacity!Places) = outs[anywhere] + Total(outs, Capacity!Places \ {anywhere})
    BY <1>0, <1>1, <2>1, TotalWithout
  <2> QED
    BY <2>1, <2>2, <2>3
<1>8. /\ Total(shorts, Pools) \in Nat /\ Total(outs, Pools) \in Nat
      /\ Total(guests, Pools) \in Nat /\ Total(lefts, Pools) \in Nat
  BY <1>0, <1>1, UnitsOf
<1>9. Total(shorts, Pools) <= Total(outs, Pools)
  BY <1>0, <1>1, <1>2, TotalLeq
<1>10. Total(shorts, Pools) + Total(guests, Pools) <= Total(outs, Pools) + Total(lefts, Pools)
  <2>1. \A p \in Pools : needed[p] \in Nat /\ found[p] \in Nat /\ needed[p] <= found[p]
    BY <1>1, <1>2
  <2>2. /\ \A p \in Pools : shorts[p] \in Nat /\ guests[p] \in Nat /\ needed[p] = shorts[p] + guests[p]
        /\ \A p \in Pools : outs[p] \in Nat /\ lefts[p] \in Nat /\ found[p] = outs[p] + lefts[p]
    BY <1>1
  <2> HIDE DEF needed, found
  <2>3. Total(needed, Pools) = Total(shorts, Pools) + Total(guests, Pools)
    BY <1>0, <2>2, TotalAdded
  <2>4. Total(found, Pools) = Total(outs, Pools) + Total(lefts, Pools)
    BY <1>0, <2>2, TotalAdded
  <2>5. Total(needed, Pools) <= Total(found, Pools)
    BY <1>0, <2>1, TotalLeq
  <2> QED
    BY <2>3, <2>4, <2>5
<1>11. outs[anywhere] \in Nat /\ shorts[anywhere] \in Nat
  BY <1>0, <1>1
<1> DEFINE shortIn == Total(shorts, Pools)
           outIn == Total(outs, Pools)
           guestsIn == Total(guests, Pools)
           leftIn == Total(lefts, Pools)
           whole == Whole(anywhere)
           short == shorts[anywhere]
           out == outs[anywhere]
<1>12. /\ shortIn \in Nat /\ outIn \in Nat /\ guestsIn \in Nat /\ leftIn \in Nat
       /\ whole \in Nat /\ short \in Nat /\ out \in Nat
       /\ shortIn <= outIn /\ shortIn + guestsIn <= outIn + leftIn /\ whole = guestsIn + out
       /\ short = IF whole > leftIn THEN whole - leftIn ELSE 0
  BY <1>4, <1>5, <1>8, <1>9, <1>10, <1>11
<1>13. Total(shorts, Capacity!Places) = short + shortIn /\ Total(outs, Capacity!Places) = out + outIn
  BY <1>7
<1> HIDE DEF shortIn, outIn, guestsIn, leftIn, whole, short, out
<1>14. short + shortIn <= out + outIn
  BY <1>12
<1>15. Total(shorts, Capacity!Places) <= Total(outs, Capacity!Places)
  BY <1>13, <1>14
<1> QED
  BY <1>6, <1>15 DEF shorts

LEMMA NeverCreditsNow == ASSUME Capacity!Assumptions, RoomInv PROVE Capacity!NeverCreditsRoom
<1> SUFFICES ASSUME NEW on \in [Capacity!Replicas -> ready \cup {Capacity!Unbound}], HaveRoom(on)
             PROVE  Capacity!SumFunction(shares) <=
                      Capacity!Requests({r \in Capacity!Replicas : on[r] = Capacity!Unbound})
  BY DEF Capacity!NeverCreditsRoom, HaveRoom
<1>1. Capacity!Requests({r \in Capacity!Replicas : on[r] = Capacity!Unbound}) \in Nat
  BY RequestsIs DEF RoomInv
<1>2. CASE shares = Capacity!NoShares
  <2>1. DOMAIN shares = Asleep /\ \A wl \in Asleep : shares[wl] = 0
    BY <1>2 DEF Capacity!NoShares
  <2>2. Capacity!SumFunction(shares) = 0
    BY <2>1, RoomFinite, SumOfFunction, TotalOfZeros
  <2> QED
    BY <1>1, <2>2
<1>3. CASE shares = Capacity!Realise([wl \in Asleep |-> Capacity!Held(wl)])
  <2> DEFINE bound == Total([p \in Capacity!Places |-> Short(p)], Capacity!Places)
             out == Capacity!Requests({r \in Capacity!Replicas : on[r] = Capacity!Unbound})
  <2>1. Capacity!SumFunction(shares) \in Nat /\ Capacity!SumFunction(shares) <= bound
    BY <1>3, CreditWithin DEF RoomInv
  <2>2. bound <= out
    BY ShortWithin DEF RoomInv
  <2>3. bound \in Nat
    <3> DEFINE shorts == [p \in Capacity!Places |-> Short(p)]
    <3>1. \A p \in Capacity!Places : shorts[p] \in Nat
      BY ShortIs DEF RoomInv
    <3> HIDE DEF shorts
    <3>2. Total(shorts, Capacity!Places) \in Nat
      BY <3>1, RoomFinite, UnitsOf
    <3> QED
      BY <3>2 DEF shorts
  <2> HIDE DEF bound, out
  <2>4. out \in Nat
    BY <1>1 DEF out
  <2>5. Capacity!SumFunction(shares) <= out
    BY <2>1, <2>2, <2>3, <2>4
  <2> QED
    BY <2>5 DEF out
<1> QED
  BY <1>2, <1>3 DEF RoomInv

LEMMA RoomFirst == ASSUME Capacity!Assumptions, Capacity!Init PROVE RoomInv
<1>1. 1 \in Nat /\ MaxRequests \in Nat
  BY RoomFinite
<1>2. RoomTyped
  BY <1>1 DEF Capacity!Init, RoomTyped
<1> QED
  BY <1>2 DEF Capacity!Init, RoomInv

\* What a sample would give, of what it reads.
Sampled == Capacity!Realise([wl \in Asleep |-> Capacity!Held(wl)])

LEMMA SampledKept == ASSUME UNCHANGED <<ready, pods, paused>> PROVE RoomTyped' = RoomTyped /\ Sampled' = Sampled
<1>1. RoomTyped' = RoomTyped
  BY DEF RoomTyped
<1> DEFINE held == [wl \in Asleep |-> Capacity!Held(wl)]
           has == [p \in Capacity!Pools |-> Capacity!Spare(p)]
           Given(h, spare) ==
             LET inAll == [p \in Capacity!Places |-> Capacity!SumFunction([wl \in Asleep |-> h[wl][p]])]
                 over == Capacity!SumFunction([p \in Capacity!Pools |-> Capacity!Beyond(spare[p], inAll[p])])
                 shortfall == [p \in Capacity!Places |->
                   Capacity!Beyond(inAll[p], IF p = Capacity!AnyPool THEN over ELSE spare[p])] IN
             [wl \in Asleep |-> Capacity!SumFunction([p \in Capacity!Places |->
                IF inAll[p] = 0 THEN 0 ELSE (shortfall[p] * h[wl][p]) \div inAll[p]])]
<1>2. held' = held
  BY DEF Capacity!Held
<1>3. has' = has
  BY DEF Capacity!Spare, Capacity!InPool, Capacity!Room
<1>4. Sampled = Given(held, has) /\ Sampled' = Given(held', has')
  BY DEF Sampled, Capacity!Realise
<1> HIDE DEF held, has, Given
<1>5. Sampled' = Sampled
  BY <1>2, <1>3, <1>4
<1> QED
  BY <1>1, <1>5

LEMMA RoomKept ==
  ASSUME RoomInv, Capacity!Next \/ UNCHANGED Capacity!vars PROVE RoomInv'
<1>1. CASE Capacity!Sample
  <2>1. shares' = Sampled /\ UNCHANGED <<ready, pods, paused>>
    BY <1>1 DEF Capacity!Sample, Sampled
  <2>2. RoomTyped' /\ shares' = Sampled'
    BY <2>1, SampledKept DEF RoomInv
  <2> QED
    BY <2>2 DEF RoomInv, Sampled
<1>2. CASE Capacity!Changes
  BY <1>2 DEF Capacity!Changes, RoomInv, RoomTyped, Capacity!NoShares
<1>3. CASE UNCHANGED Capacity!vars
  <2>1. shares' = shares /\ UNCHANGED <<ready, pods, paused>>
    BY <1>3 DEF Capacity!vars
  <2>2. RoomTyped' /\ Sampled' = Sampled
    BY <2>1, SampledKept DEF RoomInv
  <2>3. shares' = Capacity!NoShares' \/ shares' = Sampled'
    BY <2>1, <2>2 DEF RoomInv, Sampled, Capacity!NoShares
  <2> QED
    BY <2>2, <2>3 DEF RoomInv, Sampled
<1> QED
  BY <1>1, <1>2, <1>3 DEF Capacity!Next

\* No more is credited to what is paused than the nodes couldn't hold of it, however its replicas came back: for any
\* nodes, pools, pods and paused workloads (realise, spareByPool, heldPaused: "Real packing only needs more").
THEOREM NeverCreditsWhatFits ==
  ASSUME Capacity!Assumptions PROVE Capacity!Spec => []Capacity!NeverCreditsRoom
<1>1. Capacity!Init => RoomInv
  BY RoomFirst
<1>2. RoomInv /\ [Capacity!Next]_(Capacity!vars) => RoomInv'
  BY RoomKept
<1>3. RoomInv => Capacity!NeverCreditsRoom
  BY NeverCreditsNow
<1> QED
  BY <1>1, <1>2, <1>3, PTL DEF Capacity!Spec

\* And so beside the operator's other parts.
THEOREM NeverCreditsBeside == PartsSpec => []NeverCreditsRoom
<1> DEFINE Inv == part = "capacity" => RoomInv
<1>1. PartsInit => Inv
  BY RoomFirst, CapacityAssumption DEF PartsInit
<1>2. Inv /\ [PartsNext]_<<part, vars, clockVars, costVars, spareVars>> => Inv'
  <2> SUFFICES ASSUME Inv, [PartsNext]_<<part, vars, clockVars, costVars, spareVars>>, part' = "capacity"
               PROVE  RoomInv'
    OBVIOUS
  <2>1. part = "capacity" /\ (Capacity!Next \/ UNCHANGED Capacity!vars)
    BY DEF PartsNext, In, Clock, spareVars, Capacity!vars
  <2> QED
    BY <2>1, RoomKept
<1>3. Inv => NeverCreditsRoom
  BY NeverCreditsNow, CapacityAssumption DEF NeverCreditsRoom
<1> QED
  BY <1>1, <1>2, <1>3, PTL DEF PartsSpec

=================================================================================
