------------------------- MODULE DetectionReportSink -------------------------
(***************************************************************************)
(* DdsDetectionReportSink: the alert sink that publishes detection reports *)
(* through a DDS writer.  Two threads use one sink with no lock: the run   *)
(* thread (initialize, then publish in SecurityClientApp's loop) and the   *)
(* control thread (Main::stop, which calls stop and then finalize while    *)
(* the run thread may be anywhere).  Only initialized_ is atomic; the      *)
(* entity pointers and writerMask_ are plain members, so the steps below   *)
(* are the single reads and writes of shared members.                      *)
(*                                                                         *)
(* A call through a pointer whose entity is deleted, or through a null     *)
(* pointer, is undefined: from there on nothing is claimed ("fault").  A   *)
(* test of writerMask_ right after its assignment may use the value still  *)
(* in a register or the one another thread has put in memory.              *)
(***************************************************************************)
EXTENDS Naturals

CONSTANTS MaxFindings,   \* a publish call has at most this many findings
          MaxPublishes   \* and there are at most this many calls

ASSUME MaxFindingsAssumption == MaxFindings \in Nat \ {0}
ASSUME MaxPublishesAssumption == MaxPublishes \in Nat

VARIABLES
  enabled,       \* config_.enabled
  ptr,           \* the members participant_, publisher_, topic_, writer_ that are not null
  live,          \* the entities that exist
  initialized_,  \* std::atomic_bool
  writerMask_,   \* unsigned int: 0 or kPrimaryWriter
  register,      \* what the run thread assigned to writerMask_ last
  run,           \* the run thread's place
  made,          \* in initialize: the entities created so far
  todo,          \* the findings of this publish call still to be written
  late,          \* the deadline of waitForMatch has passed
  ret,           \* what the last publish call returned
  ctl,           \* the control thread's place
  matched,       \* a subscriber matches the writer
  calls,         \* publish calls so far
  wanted,        \* history variable: the findings this call was given
  written,       \* history variable: how many of them the writer accepted
  sawMatch,      \* history variable: this call has seen a matched subscriber
  skipped        \* history variable: this call found the sink not usable

sink == <<enabled, ptr, live, initialized_, writerMask_, made>>
call == <<register, todo, late, ret, calls, wanted, written, sawMatch, skipped>>
vars == <<sink, call, run, ctl, matched>>

kPrimaryWriter == 1

\* In the order initialize creates them.
Order == <<"participant", "publisher", "topic", "writer">>
Entities == {Order[i] : i \in 1..4}

Waiting == {"loop", "poll", "pollTest", "lastLook", "lastTest"}
Publishing == {"check", "look", "test", "write"} \cup Waiting

TypeOK ==
  /\ enabled \in BOOLEAN /\ initialized_ \in BOOLEAN
  /\ late \in BOOLEAN /\ matched \in BOOLEAN
  /\ sawMatch \in BOOLEAN /\ skipped \in BOOLEAN
  /\ ptr \in SUBSET Entities /\ live \in SUBSET Entities
  /\ writerMask_ \in {0, kPrimaryWriter} /\ register \in {0, kPrimaryWriter}
  /\ made \in 0..4
  /\ run \in {"new", "configured", "idle", "noSink", "fault"} \cup Publishing
  /\ ctl \in {"off", "stopping", "stopped", "writerDeleted", "publisherDeleted", "writerNull",
              "released", "done"}
  /\ ret \in {"none", "true", "false"}
  /\ todo \in 0..MaxFindings /\ wanted \in 0..MaxFindings /\ written \in 0..MaxFindings
  /\ calls \in 0..MaxPublishes

Init ==
  /\ enabled = FALSE /\ initialized_ = FALSE /\ writerMask_ = 0 /\ register = 0
  /\ ptr = {} /\ live = {} /\ made = 0
  /\ run = "new" /\ ctl = "off"
  /\ late = FALSE /\ matched = FALSE
  /\ todo = 0 /\ wanted = 0 /\ written = 0 /\ calls = 0
  /\ ret = "none" /\ sawMatch = FALSE /\ skipped = FALSE

------------------------------------------------------------------------------
(* The run thread: configure, initialize.                                  *)

Configure ==
  /\ run = "new"
  /\ enabled' \in BOOLEAN
  /\ run' = "configured"
  /\ UNCHANGED <<ptr, live, initialized_, writerMask_, made, call, ctl, matched>>

\* initialize of a disabled sink creates nothing and succeeds.
InitializeDisabled ==
  /\ run = "configured" /\ ~enabled
  /\ run' = "idle"
  /\ UNCHANGED <<sink, call, ctl, matched>>

\* Mutant: the participant stays.
DeletedOnlyParts(p) == p \ {"participant"}

\* What releaseWriter deletes through the members in p: the participant goes
\* with everything it contains.
Deleted(p) == IF "participant" \in p THEN Entities ELSE p

\* The calls through the members in p are good: what they point to exists.
Valid(p) == p \subseteq ptr \cap live

\* The members that creation k + 1 goes through.
Needed(k) == CASE k = 0 -> {}
               [] k \in {1, 2} -> {"participant"}
               [] k = 3 -> {"publisher", "topic"}

Creating == run = "configured" /\ enabled /\ made < 4

CreateEntity ==
  /\ Creating /\ Valid(Needed(made))
  /\ made' = made + 1
  /\ ptr' = ptr \cup {Order[made']} /\ live' = live \cup {Order[made']}
  /\ UNCHANGED <<enabled, initialized_, writerMask_, call, run, ctl, matched>>

\* A creation fails, and releaseWriter takes back the ones before it, through
\* the members that are not null by now.
CreationFails ==
  /\ Creating /\ Valid(Needed(made))
  /\ Valid(ptr) /\ (ptr # {} => "participant" \in ptr)
  /\ live' = live \ Deleted(ptr)
  /\ ptr' = {}
  /\ run' = "noSink"
  /\ UNCHANGED <<enabled, initialized_, writerMask_, made, call, ctl, matched>>

CreationFaults ==
  /\ Creating
  /\ \/ ~Valid(Needed(made))
     \/ ~Valid(ptr) \/ (ptr # {} /\ "participant" \notin ptr)
  /\ run' = "fault"
  /\ UNCHANGED <<sink, call, ctl, matched>>

\* currentWriterMask(), then on to step next.
Look(next) ==
  IF "writer" \in ptr \ live
    THEN /\ run' = "fault"
         /\ UNCHANGED <<writerMask_, register, sawMatch>>
    ELSE /\ writerMask_' = IF "writer" \in ptr /\ matched THEN kPrimaryWriter ELSE 0
         /\ register' = writerMask_'
         /\ sawMatch' = (sawMatch \/ writerMask_' # 0)
         /\ run' = next

\* The end of initialize: initialized_ is set whatever stop did meanwhile.
InitializeDone ==
  /\ run = "configured" /\ made = 4
  /\ Look("idle")
  /\ initialized_' = (run' = "idle" \/ initialized_)
  /\ UNCHANGED <<enabled, ptr, live, made, todo, late, ret, calls, wanted, written, skipped, ctl, matched>>

------------------------------------------------------------------------------
(* The run thread: publish, with a list of findings that is not empty.     *)

Begin ==
  /\ run = "idle" /\ calls < MaxPublishes
  /\ calls' = calls + 1
  /\ wanted' \in 1..MaxFindings
  /\ todo' = wanted'
  /\ late' = FALSE /\ ret' = "none" /\ written' = 0
  /\ sawMatch' = FALSE /\ skipped' = FALSE
  /\ run' = "check"
  /\ UNCHANGED <<sink, register, ctl, matched>>

Return(value) == ret' = value /\ run' = "idle"

Usable == initialized_ /\ enabled /\ "writer" \in ptr

\* A sink that is not usable swallows the findings and reports success.
Skip ==
  /\ run = "check" /\ ~Usable
  /\ Return("true")
  /\ skipped' = TRUE
  /\ UNCHANGED <<sink, register, todo, late, calls, wanted, written, sawMatch, ctl, matched>>

Proceed ==
  /\ run = "check" /\ Usable
  /\ run' = "look"
  /\ UNCHANGED <<sink, call, ctl, matched>>

LookAtWriter ==
  /\ run = "look"
  /\ Look("test")
  /\ UNCHANGED <<enabled, ptr, live, initialized_, made, todo, late, ret, calls, wanted,
                 written, skipped, ctl, matched>>

\* The value a test of writerMask_ may see.
Masks == {writerMask_, register}

\* writerMask_ == 0 && !waitForMatch(): without a writer, give up at once.
TestMask ==
  /\ run = "test"
  /\ \/ Masks # {0} /\ run' = "write" /\ UNCHANGED ret
     \/ /\ 0 \in Masks
        /\ IF "writer" \in ptr THEN run' = "loop" /\ UNCHANGED ret ELSE Return("false")
  /\ UNCHANGED <<sink, register, todo, late, calls, wanted, written, sawMatch, skipped, ctl, matched>>

\* Mutants: one of the two conditions is missing.
WaitUnlimited ==
  /\ run = "loop"
  /\ run' = IF initialized_ THEN "poll" ELSE "lastLook"
  /\ UNCHANGED <<sink, call, ctl, matched>>

WaitFullTime ==
  /\ run = "loop"
  /\ run' = IF ~late THEN "poll" ELSE "lastLook"
  /\ UNCHANGED <<sink, call, ctl, matched>>

\* while (initialized_.load() && now < deadline)
WaitLoop ==
  /\ run = "loop"
  /\ run' = IF initialized_ /\ ~late THEN "poll" ELSE "lastLook"
  /\ UNCHANGED <<sink, call, ctl, matched>>

Poll ==
  /\ run \in {"poll", "lastLook"}
  /\ Look(IF run = "poll" THEN "pollTest" ELSE "lastTest")
  /\ UNCHANGED <<enabled, ptr, live, initialized_, made, todo, late, ret, calls, wanted,
                 written, skipped, ctl, matched>>

PollTest ==
  /\ run = "pollTest"
  /\ \E mask \in Masks : run' = IF mask # 0 THEN "write" ELSE "loop"
  /\ UNCHANGED <<sink, call, ctl, matched>>

\* Mutant: the wait always succeeds.
LastTestPasses ==
  /\ run = "lastTest"
  /\ run' = "write"
  /\ UNCHANGED <<sink, call, ctl, matched>>

\* return writerMask_ != 0; and publish gives up if it is 0.
LastTest ==
  /\ run = "lastTest"
  /\ \/ Masks # {0} /\ run' = "write" /\ UNCHANGED ret
     \/ 0 \in Masks /\ Return("false")
  /\ UNCHANGED <<sink, register, todo, late, calls, wanted, written, sawMatch, skipped, ctl, matched>>

Writable == "writer" \in ptr \cap live

\* Mutant: one finding too many.
WriteOneMore ==
  /\ run = "write" /\ todo >= 0 /\ Writable
  /\ todo' = todo - 1
  /\ written' = written + 1
  /\ UNCHANGED <<sink, register, late, ret, calls, wanted, sawMatch, skipped, run, ctl, matched>>

WriteFinding ==
  /\ run = "write" /\ todo > 0 /\ Writable
  /\ todo' = todo - 1
  /\ written' = written + 1
  /\ UNCHANGED <<sink, register, late, ret, calls, wanted, sawMatch, skipped, run, ctl, matched>>

\* Mutant: a failed write is only logged.
WriteFailsOn ==
  /\ run = "write" /\ todo > 0 /\ Writable
  /\ todo' = todo - 1
  /\ UNCHANGED <<sink, register, late, ret, calls, wanted, written, sawMatch, skipped, run, ctl, matched>>

\* The findings after the one that fails are not tried.
WriteFails ==
  /\ run = "write" /\ todo > 0 /\ Writable
  /\ Return("false")
  /\ UNCHANGED <<sink, register, todo, late, calls, wanted, written, sawMatch, skipped, ctl, matched>>

WriteFaults ==
  /\ run = "write" /\ todo > 0 /\ ~Writable
  /\ run' = "fault"
  /\ UNCHANGED <<sink, call, ctl, matched>>

AllWritten ==
  /\ run = "write" /\ todo = 0
  /\ Return("true")
  /\ UNCHANGED <<sink, register, todo, late, calls, wanted, written, sawMatch, skipped, ctl, matched>>

RunThread ==
  \/ Configure \/ InitializeDisabled \/ CreateEntity \/ CreationFails \/ CreationFaults
  \/ InitializeDone \/ Skip \/ Proceed \/ LookAtWriter \/ TestMask \/ WaitLoop \/ Poll \/ PollTest \/ LastTest
  \/ WriteFinding \/ WriteFails \/ WriteFaults \/ AllWritten

------------------------------------------------------------------------------
(* The control thread: stop, then finalize.                                *)

StopFlag ==
  /\ ctl = "off" /\ run # "new"
  /\ initialized_' = FALSE
  /\ ctl' = "stopping"
  /\ UNCHANGED <<enabled, ptr, live, writerMask_, made, call, run, matched>>

\* Mutant: stop resets the writer as well.
StopDropsWriter ==
  /\ ctl = "stopping"
  /\ writerMask_' = 0
  /\ ptr' = ptr \ {"writer"}
  /\ ctl' = "stopped"
  /\ UNCHANGED <<enabled, live, initialized_, made, call, run, matched>>

StopMask ==
  /\ ctl = "stopping"
  /\ writerMask_' = 0
  /\ ctl' = "stopped"
  /\ UNCHANGED <<enabled, ptr, live, initialized_, made, call, run, matched>>

\* finalize, releaseWriter: if there is a publisher, the writer goes first (if
\* initialize has made it by now) ...
DeleteWriter ==
  /\ ctl = "stopped" /\ "publisher" \in ptr
  /\ live' = live \ {"writer"}
  /\ ctl' = "writerDeleted"
  /\ matched' = FALSE
  /\ UNCHANGED <<enabled, ptr, initialized_, writerMask_, made, call, run>>

\* ... then the publisher, through participant_: refused if initialize has made
\* a writer in between, and a null pointer if its failure has released all.
DeletePublisher ==
  /\ ctl = "writerDeleted"
  /\ IF Valid({"participant", "publisher"})
       THEN /\ live' = IF "writer" \in live THEN live ELSE live \ {"publisher"}
            /\ UNCHANGED run
       ELSE run' = "fault" /\ UNCHANGED live
  /\ ctl' = "publisherDeleted"
  /\ UNCHANGED <<enabled, ptr, initialized_, writerMask_, made, call, matched>>

NoWriter ==
  /\ ctl = "stopped" /\ "publisher" \notin ptr
  /\ ctl' = "writerNull"
  /\ UNCHANGED <<sink, call, run, matched>>

\* ... and only then are their members reset.
NullWriter ==
  /\ ctl = "publisherDeleted"
  /\ ptr' = ptr \ {"publisher", "writer"}
  /\ ctl' = "writerNull"
  /\ UNCHANGED <<enabled, live, initialized_, writerMask_, made, call, run, matched>>

\* The topic and the participant; what initialize made since then goes with
\* it, but its member stays.
ReleaseRest ==
  /\ ctl = "writerNull"
  /\ live' = live \ Deleted(ptr)
  /\ ptr' = ptr \ {"topic", "participant"}
  /\ matched' = (matched /\ "writer" \in live')
  /\ ctl' = "released"
  /\ UNCHANGED <<enabled, initialized_, writerMask_, made, call, run>>

FinalizeFlags ==
  /\ ctl = "released"
  /\ initialized_' = FALSE
  /\ writerMask_' = 0
  /\ ctl' = "done"
  /\ UNCHANGED <<enabled, ptr, live, made, call, run, matched>>

Control == \/ StopFlag \/ StopMask \/ DeleteWriter \/ NoWriter \/ DeletePublisher \/ NullWriter
           \/ ReleaseRest \/ FinalizeFlags

------------------------------------------------------------------------------
(* Subscribers and the clock.                                              *)

Match == /\ "writer" \in live
         /\ matched' = ~matched
         /\ UNCHANGED <<sink, call, run, ctl>>

Deadline == /\ run \in Waiting /\ ~late
            /\ late' = TRUE
            /\ UNCHANGED <<sink, register, todo, ret, calls, wanted, written, sawMatch, skipped,
                           run, ctl, matched>>

Next == RunThread \/ Begin \/ Control \/ Match \/ Deadline

(* Fairness: both threads are scheduled and their DDS calls return; a stop  *)
(* need not come (StopFlag) but runs to its end, and subscribers come and   *)
(* go as they like.  WaitSpec leaves the clock out.                         *)
WaitSpec == /\ Init /\ [][Next]_vars
            /\ WF_vars(RunThread)
            /\ WF_vars(Control /\ ctl # "off")
Spec == WaitSpec /\ WF_vars(Deadline)

------------------------------------------------------------------------------
(* Properties.                                                             *)

\* stop alone never makes publish touch an entity that is gone: only a
\* finalize that overlaps it can.  DdsDetectionReportSink.cpp:152-163, 212-234.
FaultNeedsFinalize == run = "fault" => ctl \notin {"off", "stopping", "stopped"}

\* Whatever fails or overlaps, releaseWriter can still delete every entity that
\* exists: the participant that contains it is held, and, but for the moment when
\* publisher_ and writer_ are null and the participant is next, so is the entity
\* itself.  A failed initialize leaves nothing.
\* DdsDetectionReportSink.cpp:58-98, 212-234.
NoOrphan == /\ live # {} => "participant" \in ptr
            /\ ctl # "writerNull" => live \subseteq ptr
            /\ run = "noSink" => live = {}

\* true means that the writer accepted every finding of the call, unless the
\* sink was disabled, not created or on its way down when the call began.
\* DdsDetectionReportSink.cpp:107-150.
TrueMeansWritten == ret = "true" => \/ written = wanted
                                    \/ skipped /\ written = 0 /\ (~enabled \/ ctl # "off")

\* No finding is written in a call that has not seen a matched subscriber,
\* however the wait ends and whatever stop does to the mask meanwhile.
\* DdsDetectionReportSink.cpp:122-127, 187-210.
NoBlindWrite == written > 0 => sawMatch

\* Every publish call returns (or faults), matched subscriber or not.
PublishReturns == run \in Publishing ~> run \in {"idle", "fault"}

\* A call that has the stop request before it is cut short: it returns even if
\* the two seconds never pass.
StopCutsWait == (run \in Waiting /\ ~initialized_) ~> run \in {"idle", "fault"}
==============================================================================
