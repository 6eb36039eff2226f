-------------------------- MODULE ClientApp_proofs --------------------------
(***************************************************************************)
(* Proofs about ClientApp, for any number of collectors: the types and all *)
(* its invariants.                                                         *)
(***************************************************************************)
EXTENDS ClientApp, TLAPS

\* initialize is not over; Main::stop has come to its finalize.
Before == {"new", "configured", "collection", "fill", "collector", "create", "analysis",
           "alert", "ready"}
Ending == Finalizing \cup {"done"}

\* What keeps the indices within bounds.
Sizes ==
  /\ run \in {"new", "configured", "collection"} => size = 0
  /\ run = "fill" => size < i /\ i <= sources + 1

\* What a stop in time finds is not added to.
Early == run \in Before => ~initialized_ /\ ~inTime

\* Until finalize comes, what the run thread is about to use is there.
Present ==
  /\ run = "create" /\ ctl \notin Ending => i <= size
  /\ run = "take" /\ ctl \notin Ending => i \in readers
  /\ run \in {"ready", "run", "start", "store"} \cup Loop /\ ctl \notin Ending => alertSinks

\* A fault has its cause, and is never there before a stop.
Cause == run = "fault" => ctl \in Ending \/ (~inTime /\ ctl # "off")

\* The loop goes on until a stop or the end of its only pass.
Looping ==
  /\ exit # "none" => run = "exited"
  /\ run \in Loop /\ ctl = "off" => running_ \/ (run = "leave" /\ singlePass)
  /\ run = "leave" => ctl # "off" \/ singlePass
  /\ exit = "EXIT_SUCCESS" => ctl # "off" \/ singlePass

\* What finalize has still to release lies ahead of its walk.
Releasing ==
  /\ ctl = "off" \/ (inTime /\ ctl \in Stopping) => polling \cup readers \subseteq 1..size
  /\ ctl = "release" /\ inTime => end = size /\ polling \cup readers \subseteq j..size
  /\ ctl \in {"alertRelease", "flags", "done"} /\ inTime => readers = {} /\ polling = {} /\ size = 0
  /\ ctl \in {"flags", "done"} /\ inTime => ~alertSinks
  /\ ctl = "done" /\ inTime => ~configured_ /\ ~initialized_

Inv == TypeOK /\ Sizes /\ Early /\ Present /\ Cause /\ Looping /\ Releasing

LEMMA InvInit == Init => Inv
<1> SUFFICES ASSUME Init
             PROVE  Inv
  OBVIOUS
<1>1. TypeOK
  BY NAssumption, 1 \in 1..N + 1, 0 \in 0..N DEF Init, TypeOK
<1>2. Sizes /\ Early /\ Present /\ Cause /\ Looping /\ Releasing
  BY DEF Init, Sizes, Early, Present, Cause, Looping, Releasing, Before, Ending, Loop, Stopping,
         Finalizing
<1> QED
  BY <1>1, <1>2 DEF Inv

\* Every step keeps the invariant.
LEMMA InvStep == Inv /\ [Next]_vars => Inv'
<1> SUFFICES ASSUME Inv, [Next]_vars
             PROVE  Inv'
  OBVIOUS
<1> USE NAssumption DEF Inv, TypeOK, Sizes, Early, Present, Cause, Looping, Releasing, Before,
        Ending, Starting, Loop, Stopping, Finalizing, flags, collection, alert, runThread,
        control, Exit
<1>1. CASE Configure
  BY <1>1 DEF Configure
<1>2. CASE Initialize
  BY <1>2 DEF Initialize
<1>3. CASE InitCollection
  BY <1>3 DEF InitCollection
<1>4. CASE Fill
  BY <1>4 DEF Fill, Walking
<1>5. CASE Filled
  BY <1>5 DEF Filled
<1>6. CASE InitNext
  <2>1. TypeOK'
    BY <1>6 DEF InitNext
  <2>2. Sizes'
    BY <1>6 DEF InitNext
  <2>3. Early'
    BY <1>6 DEF InitNext
  <2>4. Present'
    BY <1>6 DEF InitNext
  <2>5. Cause'
    BY <1>6 DEF InitNext
  <2>6. Looping'
    BY <1>6 DEF InitNext
  <2>7. Releasing'
    BY <1>6 DEF InitNext
  <2> QED
    BY <2>1, <2>2, <2>3, <2>4, <2>5, <2>6, <2>7
<1>7. CASE InitCollector
  <2>a. i \in 1..N + 1 /\ size \in 0..N
    OBVIOUS
  <2>b. i <= size => i \in 1..size /\ i \in 1..N /\ i + 1 \in 1..N + 1
    BY <2>a
  <2>c. \/ i <= size /\ i' = i + 1 /\ polling' = polling \cup {i} /\ readers' = readers \cup {i}
        \/ UNCHANGED <<i, polling, readers>>
    BY <1>7 DEF InitCollector
  <2>1. TypeOK'
    <3>1. i' \in 1..N + 1 /\ polling' \in SUBSET (1..N) /\ readers' \in SUBSET (1..N)
      BY <2>a, <2>b, <2>c
    <3> QED
      BY <1>7, <3>1 DEF InitCollector
  <2>2. Sizes'
    BY <1>7 DEF InitCollector
  <2>3. Early'
    BY <1>7 DEF InitCollector
  <2>4. Present'
    BY <1>7 DEF InitCollector
  <2>5. Cause'
    BY <1>7 DEF InitCollector
  <2>6. Looping'
    BY <1>7 DEF InitCollector
  <2>7. Releasing'
    <3>1. ~inTime
      BY <1>7 DEF InitCollector
    <3>2. ctl = "off" /\ i <= size => polling' \cup readers' \subseteq 1..size
      BY <2>b, <2>c
    <3> QED
      BY <1>7, <3>1, <3>2 DEF InitCollector
  <2> QED
    BY <2>1, <2>2, <2>3, <2>4, <2>5, <2>6, <2>7
<1>8. CASE InitAnalysis
  BY <1>8 DEF InitAnalysis
<1>9. CASE InitAlert
  BY <1>9 DEF InitAlert
<1>10. CASE Initialized
  BY <1>10 DEF Initialized
<1>11. CASE RunBegins
  BY <1>11 DEF RunBegins
<1>12. CASE StartCollection
  BY <1>12 DEF StartCollection
<1>13. CASE StoreRunning
  BY <1>13 DEF StoreRunning
<1>14. CASE While
  BY <1>14 DEF While
<1>15. CASE PollOnce
  BY <1>15 DEF PollOnce, PassFails
<1>16. CASE NextCollector
  BY <1>16 DEF NextCollector, PassFails
<1>17. CASE TakeSamples
  BY <1>17 DEF TakeSamples
<1>18. CASE Analyze
  BY <1>18 DEF Analyze, PassFails
<1>19. CASE Publish
  BY <1>19 DEF Publish, PassFails
<1>20. CASE CallSinks
  BY <1>20 DEF CallSinks, PassFails
<1>21. CASE Passed
  BY <1>21 DEF Passed
<1>22. CASE Leave
  <2>1. TypeOK'
    BY <1>22 DEF Leave
  <2>2. Sizes'
    BY <1>22 DEF Leave
  <2>3. Early'
    BY <1>22 DEF Leave
  <2>4. Present'
    BY <1>22 DEF Leave
  <2>5. Cause'
    BY <1>22 DEF Leave
  <2>6. Looping'
    BY <1>22 DEF Leave
  <2>7. Releasing'
    BY <1>22 DEF Leave
  <2> QED
    BY <2>1, <2>2, <2>3, <2>4, <2>5, <2>6, <2>7
<1>23. CASE StopBegins
  <2>1. TypeOK'
    <3>1. size' \in 0..N /\ i' \in 1..N + 1 /\ j' \in 1..N + 1 /\ end' \in 0..N
      BY <1>23, 1 \in 1..N + 1, 0 \in 0..N DEF StopBegins
    <3> QED
      BY <1>23, <3>1 DEF StopBegins
  <2>2. Sizes'
    BY <1>23 DEF StopBegins
  <2>3. Early'
    BY <1>23 DEF StopBegins
  <2>4. Present'
    BY <1>23 DEF StopBegins
  <2>5. Cause'
    BY <1>23 DEF StopBegins
  <2>6. Looping'
    BY <1>23 DEF StopBegins
  <2>7. Releasing'
    BY <1>23 DEF StopBegins
  <2> QED
    BY <2>1, <2>2, <2>3, <2>4, <2>5, <2>6, <2>7
<1>24. CASE StopCollector
  BY <1>24 DEF StopCollector
<1>25. CASE StopCollection
  <2>1. TypeOK'
    BY <1>25 DEF StopCollection
  <2>2. Sizes'
    BY <1>25 DEF StopCollection
  <2>3. Early'
    BY <1>25 DEF StopCollection
  <2>4. Present'
    BY <1>25 DEF StopCollection
  <2>5. Cause'
    BY <1>25 DEF StopCollection
  <2>6. Looping'
    BY <1>25 DEF StopCollection
  <2>7. Releasing'
    BY <1>25 DEF StopCollection
  <2> QED
    BY <2>1, <2>2, <2>3, <2>4, <2>5, <2>6, <2>7
<1>26. CASE StopAlert
  <2>1. TypeOK'
    <3>1. size' \in 0..N /\ i' \in 1..N + 1 /\ j' \in 1..N + 1 /\ end' \in 0..N
      BY <1>26, 1 \in 1..N + 1, 0 \in 0..N DEF StopAlert
    <3> QED
      BY <1>26, <3>1 DEF StopAlert
  <2>2. Sizes'
    BY <1>26 DEF StopAlert
  <2>3. Early'
    BY <1>26 DEF StopAlert
  <2>4. Present'
    BY <1>26 DEF StopAlert
  <2>5. Cause'
    BY <1>26 DEF StopAlert
  <2>6. Looping'
    BY <1>26 DEF StopAlert
  <2>7. Releasing'
    BY <1>26 DEF StopAlert
  <2> QED
    BY <2>1, <2>2, <2>3, <2>4, <2>5, <2>6, <2>7
<1>27. CASE ReleaseCollector
  BY <1>27 DEF ReleaseCollector
<1>28. CASE ReleaseOvertakes
  BY <1>28 DEF ReleaseOvertakes
<1>29. CASE ClearCollection
  <2>1. TypeOK'
    <3>1. size' \in 0..N /\ i' \in 1..N + 1 /\ j' \in 1..N + 1 /\ end' \in 0..N
      BY <1>29, 1 \in 1..N + 1, 0 \in 0..N DEF ClearCollection
    <3>2. /\ ctl' = "alertRelease" /\ colRunning' = FALSE
          /\ UNCHANGED <<flags, polling, readers, alert, runThread, inTime>>
      BY <1>29 DEF ClearCollection
    <3>3. /\ colRunning' \in BOOLEAN
          /\ ctl' \in {"off", "done"} \cup Stopping \cup Finalizing
      BY <3>2
    <3>4. /\ sources' \in 0..N /\ singlePass' \in BOOLEAN
          /\ configured_' \in BOOLEAN /\ initialized_' \in BOOLEAN /\ running_' \in BOOLEAN
          /\ alertRunning' \in BOOLEAN /\ alertSinks' \in BOOLEAN /\ inTime' \in BOOLEAN
      BY <3>2
    <3>5. /\ polling' \in SUBSET (1..N) /\ readers' \in SUBSET (1..N)
          /\ run' \in {"new", "configured", "exited", "fault"} \cup Starting \cup Loop
          /\ exit' \in {"none", "EXIT_SUCCESS", "EXIT_FAILURE"}
      BY <3>2
    <3> QED
      BY <3>1, <3>3, <3>4, <3>5
  <2>2. Sizes'
    BY <1>29 DEF ClearCollection
  <2>3. Early'
    BY <1>29 DEF ClearCollection
  <2>4. Present'
    BY <1>29 DEF ClearCollection
  <2>5. Cause'
    BY <1>29 DEF ClearCollection
  <2>6. Looping'
    BY <1>29 DEF ClearCollection
  <2>7. Releasing'
    BY <1>29 DEF ClearCollection
  <2> QED
    BY <2>1, <2>2, <2>3, <2>4, <2>5, <2>6, <2>7
<1>30. CASE FinalizeAlert
  <2>1. TypeOK'
    BY <1>30 DEF FinalizeAlert
  <2>2. Sizes'
    BY <1>30 DEF FinalizeAlert
  <2>3. Early'
    BY <1>30 DEF FinalizeAlert
  <2>4. Present'
    BY <1>30 DEF FinalizeAlert
  <2>5. Cause'
    BY <1>30 DEF FinalizeAlert
  <2>6. Looping'
    BY <1>30 DEF FinalizeAlert
  <2>7. Releasing'
    BY <1>30 DEF FinalizeAlert
  <2> QED
    BY <2>1, <2>2, <2>3, <2>4, <2>5, <2>6, <2>7
<1>31. CASE FinalizeFlags
  <2>1. TypeOK'
    BY <1>31 DEF FinalizeFlags
  <2>2. Sizes'
    BY <1>31 DEF FinalizeFlags
  <2>3. Early'
    BY <1>31 DEF FinalizeFlags
  <2>4. Present'
    BY <1>31 DEF FinalizeFlags
  <2>5. Cause'
    BY <1>31 DEF FinalizeFlags
  <2>6. Looping'
    BY <1>31 DEF FinalizeFlags
  <2>7. Releasing'
    BY <1>31 DEF FinalizeFlags
  <2> QED
    BY <2>1, <2>2, <2>3, <2>4, <2>5, <2>6, <2>7
<1>32. CASE UNCHANGED vars
  BY <1>32 DEF vars
<1> QED
  BY <1>1, <1>2, <1>3, <1>4, <1>5, <1>6, <1>7, <1>8, <1>9, <1>10, <1>11, <1>12, <1>13,
     <1>14, <1>15, <1>16, <1>17, <1>18, <1>19, <1>20, <1>21, <1>22, <1>23, <1>24, <1>25,
     <1>26, <1>27, <1>28, <1>29, <1>30, <1>31, <1>32
  DEF Next, RunThread, Control

\* Types are kept for any number of sources.
THEOREM TypeCorrect == Spec => []TypeOK
<1>1. Inv => TypeOK
  BY DEF Inv
<1> QED
  BY <1>1, InvInit, InvStep, PTL DEF Spec

\* A stage that fails by itself never looks like a shutdown that was asked for:
\* SecurityClientApp.cpp:190-224.
THEOREM SuccessMeansStoppedHolds == Spec => []SuccessMeansStopped
<1>1. Inv => SuccessMeansStopped
  BY DEF Inv, Looping, SuccessMeansStopped
<1> QED
  BY <1>1, InvInit, InvStep, PTL DEF Spec

\* Only finalize under a running run, or a stop during initialize, makes the run
\* thread use what is gone: Main.cpp:98-104, CollectionStage.cpp:58-64.
THEOREM FaultNeedsFinalizeHolds == Spec => []FaultNeedsFinalize
<1>1. Inv => FaultNeedsFinalize
  BY DEF Inv, Cause, Ending, FaultNeedsFinalize
<1> QED
  BY <1>1, InvInit, InvStep, PTL DEF Spec

\* Main::stop leaves nothing of an initialized application, wherever run is:
\* Main.cpp:98-104, SecurityClientApp.cpp:235-244.
THEOREM NothingLeftHolds == Spec => []NothingLeft
<1>1. Inv => NothingLeft
  BY DEF Inv, Releasing, NothingLeft
<1> QED
  BY <1>1, InvInit, InvStep, PTL DEF Spec
==============================================================================
