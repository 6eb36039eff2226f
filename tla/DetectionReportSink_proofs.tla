--------------------- MODULE DetectionReportSink_proofs ---------------------
(***************************************************************************)
(* Proofs about DetectionReportSink, for any number of publish calls and   *)
(* of findings: the types and all its invariants.                          *)
(***************************************************************************)
EXTENDS DetectionReportSink, TLAPS

\* Before finalize deletes anything.
Early == {"off", "stopping", "stopped"}

\* What initialize has created after k creations.
First(k) == {e \in Entities : \E n \in 1..k : e = Order[n]}

\* Every finding of the call is written or still to be written.
Count == todo + written = wanted

\* A call that has not returned has no result.
Unreturned == run \in {"new", "configured"} \cup Publishing => ret = "none"

\* A mask that says "matched", in memory or in a register, was seen in this call.
Seen ==
  /\ writerMask_ # 0 => register # 0
  /\ run \in Publishing \ {"check", "look"} => (register # 0 => sawMatch)
  /\ run = "write" => sawMatch
  /\ run = "check" => written = 0
  /\ written > 0 => sawMatch

\* Only a stop makes an enabled sink unusable.
Up == ctl = "off" /\ enabled /\ run \in {"idle"} \cup Publishing
        => initialized_ /\ "writer" \in ptr

\* Until finalize deletes something, the members hold what exists, and the
\* writer is there when it is needed.
Intact ==
  ctl \in Early =>
    /\ ptr = live
    /\ run \in {"new", "configured"} => ptr = First(made)
    /\ run \in Publishing \ {"check"} => "writer" \in ptr

\* No member is set before its turn.
Turn == ptr \subseteq First(made)

Inv == /\ TypeOK /\ Count /\ Unreturned /\ Seen /\ Up /\ Intact /\ Turn
       /\ FaultNeedsFinalize /\ NoOrphan /\ TrueMeansWritten

\* The four entities, and what has been made after each creation.
LEMMA Creations ==
  /\ Entities = {"participant", "publisher", "topic", "writer"}
  /\ First(0) = {} /\ First(1) = {"participant"}
  /\ First(2) = {"participant", "publisher"}
  /\ First(3) = {"participant", "publisher", "topic"} /\ First(4) = Entities
<1>1. Entities = {Order[1], Order[2], Order[3], Order[4]}
  <2>1. 1..4 = {1, 2, 3, 4}
    OBVIOUS
  <2> QED
    BY <2>1 DEF Entities
<1>2. Order[1] = "participant" /\ Order[2] = "publisher" /\ Order[3] = "topic" /\ Order[4] = "writer"
  BY DEF Order
<1>3. 1..0 = {} /\ 1..1 = {1} /\ 1..2 = {1, 2} /\ 1..3 = {1, 2, 3} /\ 1..4 = {1, 2, 3, 4}
  OBVIOUS
<1> QED
  BY <1>1, <1>2, <1>3 DEF First

LEMMA InvInit == Init => Inv
<1> SUFFICES ASSUME Init
             PROVE  Inv
  OBVIOUS
<1>1. TypeOK
  <2>1. 0 \in 0..MaxFindings /\ 0 \in 0..MaxPublishes /\ 0 \in 0..4
    BY MaxFindingsAssumption, MaxPublishesAssumption
  <2> QED
    BY <2>1 DEF Init, TypeOK, kPrimaryWriter
<1>2. Count /\ Unreturned /\ Seen /\ Up
  BY DEF Init, Count, Unreturned, Seen, Up, Publishing, Waiting
<1>3. Intact /\ Turn
  BY Creations DEF Init, Intact, Turn, Publishing, Waiting
<1>4. FaultNeedsFinalize /\ NoOrphan /\ TrueMeansWritten
  BY DEF Init, FaultNeedsFinalize, NoOrphan, TrueMeansWritten
<1> QED
  BY <1>1, <1>2, <1>3, <1>4 DEF Inv

\* Every step keeps the invariant.
LEMMA InvStep == Inv /\ [Next]_vars => Inv'
<1> SUFFICES ASSUME Inv, [Next]_vars
             PROVE  Inv'
  OBVIOUS
<1> USE MaxFindingsAssumption, MaxPublishesAssumption
    DEF Inv, TypeOK, Count, Unreturned, Seen, Up, Intact, Turn, FaultNeedsFinalize, NoOrphan,
        TrueMeansWritten, Publishing, Waiting, Early, kPrimaryWriter, sink, call
<1>1. CASE Configure
  <2>1. TypeOK'
    BY <1>1 DEF Configure
  <2>2. /\ Count' /\ Unreturned' /\ Seen' /\ Up' /\ Intact' /\ Turn'
        /\ FaultNeedsFinalize' /\ NoOrphan' /\ TrueMeansWritten'
    BY <1>1 DEF Configure
  <2> QED
    BY <2>1, <2>2
<1>2. CASE InitializeDisabled
  BY <1>2, Creations DEF InitializeDisabled
<1>3. CASE CreateEntity
  <2> USE DEF CreateEntity, Creating
  <2>1. made \in {0, 1, 2, 3} /\ made' \in 1..4 /\ Order[made'] \in Entities
    BY <1>3 DEF Entities
  <2>2. First(made') = First(made) \cup {Order[made']}
    BY <1>3, <2>1 DEF First
  <2>3. "participant" \in ptr'
    BY <1>3, <2>1 DEF Valid, Needed, Order
  <2>4. TypeOK' /\ Count' /\ Unreturned' /\ Seen' /\ Up'
    BY <1>3, <2>1
  <2>5. Intact' /\ Turn'
    BY <1>3, <2>1, <2>2
  <2>6. FaultNeedsFinalize' /\ NoOrphan' /\ TrueMeansWritten'
    BY <1>3, <2>3
  <2> QED
    BY <2>4, <2>5, <2>6
<1>4. CASE CreationFails
  BY <1>4, Creations DEF CreationFails, Creating, Valid, Needed, Deleted
<1>5. CASE CreationFaults
  BY <1>5, Creations DEF CreationFaults, Creating, Valid, Needed
<1>6. CASE InitializeDone
  BY <1>6, Creations DEF InitializeDone, Look
<1>7. CASE Begin
  <2>1. TypeOK'
    <3>1. wanted' \in 0..MaxFindings /\ todo' \in 0..MaxFindings /\ written' \in 0..MaxFindings
          /\ calls' \in 0..MaxPublishes
      BY <1>7 DEF Begin
    <3> QED
      BY <1>7, <3>1 DEF Begin
  <2>2. Count'
    <3>1. wanted' \in Nat /\ todo' = wanted' /\ written' = 0
      BY <1>7 DEF Begin
    <3>2. wanted' + 0 = wanted'
      BY <3>1, \A n \in Nat : n + 0 = n
    <3> QED
      BY <3>1, <3>2, Zenon
  <2>3. Unreturned' /\ Seen' /\ Up' /\ Intact' /\ Turn'
    BY <1>7 DEF Begin
  <2>4. FaultNeedsFinalize' /\ NoOrphan' /\ TrueMeansWritten'
    BY <1>7 DEF Begin
  <2> QED
    BY <2>1, <2>2, <2>3, <2>4
<1>8. CASE Skip
  BY <1>8 DEF Skip, Return, Usable
<1>9. CASE Proceed
  BY <1>9 DEF Proceed, Usable
<1>10. CASE LookAtWriter
  BY <1>10 DEF LookAtWriter, Look
<1>11. CASE TestMask
  BY <1>11 DEF TestMask, Masks, Return
<1>12. CASE WaitLoop
  BY <1>12 DEF WaitLoop
<1>13. CASE Poll
  BY <1>13 DEF Poll, Look
<1>14. CASE PollTest
  BY <1>14 DEF PollTest, Masks
<1>15. CASE LastTest
  BY <1>15 DEF LastTest, Masks, Return
<1>16. CASE WriteFinding
  BY <1>16 DEF WriteFinding, Writable
<1>17. CASE WriteFails
  BY <1>17 DEF WriteFails, Writable, Return
<1>18. CASE WriteFaults
  BY <1>18 DEF WriteFaults, Writable
<1>19. CASE AllWritten
  BY <1>19 DEF AllWritten, Return
<1>20. CASE StopFlag
  <2>1. TypeOK'
    <3>1. initialized_' \in BOOLEAN /\ ctl' = "stopping"
      BY <1>20 DEF StopFlag
    <3> QED
      BY <1>20, <3>1 DEF StopFlag
  <2>2. /\ Count' /\ Unreturned' /\ Seen' /\ Up' /\ Intact' /\ Turn'
        /\ FaultNeedsFinalize' /\ NoOrphan' /\ TrueMeansWritten'
    BY <1>20 DEF StopFlag
  <2> QED
    BY <2>1, <2>2
<1>21. CASE StopMask
  BY <1>21 DEF StopMask
<1>22. CASE DeleteWriter
  <2>1. TypeOK'
    <3>1. live' \in SUBSET Entities /\ matched' \in BOOLEAN /\ ctl' = "writerDeleted"
      BY <1>22 DEF DeleteWriter
    <3> QED
      BY <1>22, <3>1 DEF DeleteWriter
  <2>2. /\ Count' /\ Unreturned' /\ Seen' /\ Up' /\ Intact' /\ Turn'
        /\ FaultNeedsFinalize' /\ NoOrphan' /\ TrueMeansWritten'
    BY <1>22, Creations DEF DeleteWriter, Deleted
  <2> QED
    BY <2>1, <2>2
<1>23. CASE NoWriter
  BY <1>23 DEF NoWriter
<1>30. CASE DeletePublisher
  <2>1. TypeOK'
    <3>1. /\ live' \in SUBSET Entities /\ ctl' = "publisherDeleted"
          /\ run' \in {run, "fault"}
      BY <1>30 DEF DeletePublisher
    <3> QED
      BY <1>30, <3>1 DEF DeletePublisher
  <2>2. /\ Count' /\ Unreturned' /\ Seen' /\ Up' /\ Intact' /\ Turn'
        /\ FaultNeedsFinalize' /\ NoOrphan' /\ TrueMeansWritten'
    BY <1>30 DEF DeletePublisher
  <2> QED
    BY <2>1, <2>2
<1>24. CASE NullWriter
  BY <1>24, Creations DEF NullWriter
<1>25. CASE ReleaseRest
  <2>1. live' = {}
    BY <1>25 DEF ReleaseRest, Deleted
  <2>2. TypeOK'
    <3>1. ptr' \in SUBSET Entities /\ matched' \in BOOLEAN /\ ctl' = "released"
      BY <1>25 DEF ReleaseRest
    <3> QED
      BY <1>25, <2>1, <3>1 DEF ReleaseRest
  <2>3. /\ Count' /\ Unreturned' /\ Seen' /\ Up' /\ Intact' /\ Turn'
        /\ FaultNeedsFinalize' /\ NoOrphan' /\ TrueMeansWritten'
    BY <1>25, <2>1 DEF ReleaseRest
  <2> QED
    BY <2>2, <2>3
<1>26. CASE FinalizeFlags
  <2>1. TypeOK'
    BY <1>26 DEF FinalizeFlags
  <2>2. /\ Count' /\ Unreturned' /\ Seen' /\ Up' /\ Intact' /\ Turn'
        /\ FaultNeedsFinalize' /\ NoOrphan' /\ TrueMeansWritten'
    BY <1>26 DEF FinalizeFlags
  <2> QED
    BY <2>1, <2>2
<1>27. CASE Match
  BY <1>27 DEF Match
<1>28. CASE Deadline
  BY <1>28 DEF Deadline
<1>29. CASE UNCHANGED vars
  BY <1>29 DEF vars
<1> QED
  BY <1>1, <1>2, <1>3, <1>4, <1>5, <1>6, <1>7, <1>8, <1>9, <1>10, <1>11, <1>12, <1>13,
     <1>14, <1>15, <1>16, <1>17, <1>18, <1>19, <1>20, <1>21, <1>22, <1>23, <1>24, <1>25,
     <1>26, <1>27, <1>28, <1>29, <1>30
  DEF Next, RunThread, Control

\* Types are kept for any number of calls and findings.
THEOREM TypeCorrect == Spec => []TypeOK
<1>1. Inv => TypeOK
  BY DEF Inv
<1> QED
  BY <1>1, InvInit, InvStep, PTL DEF Spec, WaitSpec

\* Only a finalize that overlaps publish or initialize makes it touch what is
\* gone, stop alone never does: DdsDetectionReportSink.cpp:152-163, 212-234.
THEOREM FaultNeedsFinalizeHolds == Spec => []FaultNeedsFinalize
<1>1. Inv => FaultNeedsFinalize
  BY DEF Inv
<1> QED
  BY <1>1, InvInit, InvStep, PTL DEF Spec, WaitSpec

\* Every entity that exists can still be released, and a failed initialize leaves
\* none: DdsDetectionReportSink.cpp:58-98, 212-234.
THEOREM NoOrphanHolds == Spec => []NoOrphan
<1>1. Inv => NoOrphan
  BY DEF Inv
<1> QED
  BY <1>1, InvInit, InvStep, PTL DEF Spec, WaitSpec

\* true means that the writer accepted every finding, unless the sink was not
\* usable: DdsDetectionReportSink.cpp:107-150.
THEOREM TrueMeansWrittenHolds == Spec => []TrueMeansWritten
<1>1. Inv => TrueMeansWritten
  BY DEF Inv
<1> QED
  BY <1>1, InvInit, InvStep, PTL DEF Spec, WaitSpec

\* No finding is written in a call that has not seen a matched subscriber:
\* DdsDetectionReportSink.cpp:122-127, 187-210.
THEOREM NoBlindWriteHolds == Spec => []NoBlindWrite
<1>1. Inv => NoBlindWrite
  BY DEF Inv, Seen, NoBlindWrite
<1> QED
  BY <1>1, InvInit, InvStep, PTL DEF Spec, WaitSpec
==============================================================================
