------------------------- MODULE ManagerBridge_proofs -------------------------
(***************************************************************************)
(* ManagerBridge for any set of clients, any domains and any number of     *)
(* reports: types, the life of the DDS entities, the meaning of run's      *)
(* result, and that the bridge implements ReportRelay.                     *)
(***************************************************************************)
EXTENDS ManagerBridge, FiniteSetTheorems, TLAPS

USE DEF Outside, Bridging

------------------------------------------------------------------------------
(* Types.                                                                  *)

\* Giving reports up keeps lost a function into sets of numbers.
LEMMA GiveUpType ==
  ASSUME TypeOK, NEW slots \in SUBSET Slot
  PROVE  GiveUp(slots) \in [Clients -> SUBSET Nat]
<1> SUFFICES ASSUME NEW c \in Clients
             PROVE  lost[c] \cup {s.seq : s \in {t \in slots : t.kind = "report" /\ t.from = c}}
                      \in SUBSET Nat
  BY DEF GiveUp
<1>1. lost[c] \in SUBSET Nat
  BY DEF TypeOK
<1>2. \A t \in slots : t.kind = "report" => t.seq \in Nat
  BY DEF Slot, Empty, Invalid
<1>3. QED
  BY <1>1, <1>2

\* Whatever a history can be given fits into its slot.
LEMMA SlotTypes ==
  /\ Empty \in Slot /\ Invalid \in Slot
  /\ \A c \in Clients, n \in Nat : ReportSample(c, n) \in Slot /\ EchoSample(c, n) \in Slot
BY DEF Slot, ReportSample, EchoSample

\* What a client's writer holds is made of samples.
LEMMA InFlightType == ASSUME TypeOK, NEW c \in Clients PROVE InFlight(c) \in SUBSET Slot
BY SlotTypes DEF InFlight, TypeOK

\* Dropping the reader (cleanup, crash) keeps the types of what it touches.
LEMMA DropReaderType ==
  ASSUME TypeOK, DropReader
  PROVE  /\ lost' \in [Clients -> SUBSET Nat]
         /\ history' \in Slot /\ hand' \in Slot /\ echo' \in Slot
         /\ wire' \in [Clients -> Nat]
         /\ match' \in SUBSET Clients /\ ownMatch' \in BOOLEAN /\ statusTrig' \in BOOLEAN
         /\ active' \in SUBSET {"readcond", "statuscond"}
         /\ published' \in [Clients -> Nat]
         /\ out' \in Seq([from : Clients, seq : Nat])
<1>1. {history, hand} \cup UNION {InFlight(c) : c \in Clients} \in SUBSET Slot
  BY InFlightType DEF TypeOK
<1>2. lost' \in [Clients -> SUBSET Nat]
  BY <1>1, GiveUpType DEF DropReader
<1>3. QED
  BY <1>2, SlotTypes DEF DropReader, TypeOK

\* The entities of a creation that stops anywhere are entities of its side.
LEMMA EntityTypes ==
  /\ \A k \in 0..6 : FirstOf(InputOrder, k) \in SUBSET InputEntities
  /\ \A k \in 0..4 : FirstOf(OutputOrder, k) \in SUBSET OutputEntities
  /\ FirstOf(InputOrder, 6) = InputEntities
  /\ FirstOf(OutputOrder, 4) = OutputEntities
BY DEF FirstOf, InputEntities, OutputEntities

\* bridgeLoop's sample holds a client's report exactly while it is written:
\* without this the type of what WriteOk appends is not known.
HandOk == IF pc = "forward" THEN hand.kind = "report" ELSE hand = Empty

\* In the forward step the local sample of bridgeLoop is a client's report.
LEMMA HandType ==
  ASSUME TypeOK, HandOk, pc = "forward"
  PROVE  /\ hand.from \in Clients /\ hand.seq \in Nat
         /\ [from |-> hand.from, seq |-> hand.seq] \in [from : Clients, seq : Nat]
         /\ hand = ReportSample(hand.from, hand.seq)
BY DEF TypeOK, HandOk, Slot, Empty, Invalid, ReportSample

\* Steps of the main thread.
LEMMA MainThreadType == TypeOK /\ HandOk /\ MainThread => TypeOK'
<1> SUFFICES ASSUME TypeOK, HandOk, MainThread PROVE TypeOK'
  OBVIOUS
<1> USE DEF network, ghosts, PCs
<1>1. CASE Configure
  <2>1. config' \in Configs
    <3>1. PICK in \in Domains, dest \in Domains, topic_override \in Overrides :
            config' = [input_domain |-> in, output_domain |-> dest,
                       in_name |-> IF topic_override = "" THEN DET_TOPIC_PRIMARY
                                                          ELSE topic_override,
                       out_name |-> DET_TOPIC_LEGACY]
      BY <1>1 DEF Configure
    <3>2. (IF topic_override = "" THEN DET_TOPIC_PRIMARY ELSE topic_override)
             \in Overrides \ {""}
      BY DEF Overrides, DET_TOPIC_PRIMARY
    <3>3. QED
      BY <3>1, <3>2 DEF Configs
  <2>2. QED
    BY <1>1, <2>1 DEF Configure, TypeOK
<1>2. CASE CreateInputEntities
  BY <1>2, EntityTypes DEF CreateInputEntities, TypeOK
<1>3. CASE AwaitStopped
  BY <1>3 DEF AwaitStopped, TypeOK
<1>4. CASE PollPublishers
  BY <1>4 DEF PollPublishers, TypeOK
<1>5. CASE CreateOutputEntities
  BY <1>5, EntityTypes DEF CreateOutputEntities, TypeOK
<1>6. CASE LoopHead
  BY <1>6 DEF LoopHead, TypeOK
<1>7. CASE WaitReturns
  BY <1>7 DEF WaitReturns, TypeOK, Triggered
<1>8. CASE WaitTimesOut
  BY <1>8 DEF WaitTimesOut, TypeOK
<1>9. CASE DispatchRead
  BY <1>9 DEF DispatchRead, TypeOK
<1>10. CASE DispatchStatus
  BY <1>10 DEF DispatchStatus, TypeOK
<1>19. CASE StatusNotRead
  BY <1>19 DEF StatusNotRead, TypeOK
<1>11. CASE DispatchDone
  BY <1>11 DEF DispatchDone, TypeOK
<1>12. CASE TakeSample
  BY <1>12, SlotTypes DEF TakeSample, TypeOK
<1>13. CASE TakeNothing
  BY <1>13 DEF TakeNothing, TypeOK
<1>14. CASE WriteOk
  <2>1. out' \in Seq([from : Clients, seq : Nat])
    BY <1>14, HandType DEF WriteOk, TypeOK
  <2>2. echo' \in Slot
    BY <1>14, HandType, SlotTypes DEF WriteOk, TypeOK
  <2>3. QED
    BY <1>14, <2>1, <2>2, SlotTypes DEF WriteOk, TypeOK
<1>15. CASE WriteFails
  BY <1>15, GiveUpType, SlotTypes DEF WriteFails, TypeOK
<1>16. CASE FailAndReturn
  BY <1>16, DropReaderType DEF FailAndReturn, Cleanup, TypeOK
<1>17. CASE ShutDownAndReturn
  BY <1>17, DropReaderType DEF ShutDownAndReturn, Cleanup, TypeOK
<1>18. QED
  BY <1>1, <1>2, <1>3, <1>4, <1>5, <1>6, <1>7, <1>8, <1>9, <1>10, <1>11, <1>12,
     <1>13, <1>14, <1>15, <1>16, <1>17, <1>19 DEF MainThread

\* Steps of everybody else.
LEMMA EnvironmentType == TypeOK /\ Environment => TypeOK'
<1> SUFFICES ASSUME TypeOK, Environment PROVE TypeOK'
  OBVIOUS
<1> USE DEF thread, network, ghosts, PCs
<1>1. CASE Stop
  BY <1>1 DEF Stop, TypeOK
<1>2. CASE Crash
  BY <1>2, DropReaderType DEF Crash, TypeOK
<1>3. CASE Restart
  BY <1>3 DEF Restart, TypeOK
<1>4. CASE MatchOwn
  BY <1>4 DEF MatchOwn, TypeOK
<1>5. CASE DeliverEcho
  <2>1. lost' \in [Clients -> SUBSET Nat]
    BY <1>5, GiveUpType DEF DeliverEcho, Arrive, TypeOK
  <2>2. QED
    BY <1>5, <2>1, SlotTypes DEF DeliverEcho, Arrive, TypeOK
<1>6. CASE InvalidArrives
  BY <1>6, SlotTypes DEF InvalidArrives, TypeOK
<1>7. ASSUME NEW c \in Clients, MatchClient(c) PROVE TypeOK'
  BY <1>7 DEF MatchClient, TypeOK
<1>8. ASSUME NEW c \in Clients, UnmatchClient(c) PROVE TypeOK'
  <2>1. lost' \in [Clients -> SUBSET Nat]
    BY <1>8, GiveUpType, InFlightType DEF UnmatchClient
  <2>2. QED
    BY <1>8, <2>1 DEF UnmatchClient, TypeOK
<1>9. ASSUME NEW c \in Clients, Publish(c) PROVE TypeOK'
  <2>1. published[c] + 1 \in Nat
    BY DEF TypeOK
  <2>2. lost' \in [Clients -> SUBSET Nat]
    <3>1. {ReportSample(c, published[c] + 1)} \in SUBSET Slot
      BY <2>1, SlotTypes
    <3>2. QED
      BY <1>9, <3>1, GiveUpType, InFlightType DEF Publish
  <2>3. published' \in [Clients -> Nat] /\ wire' \in [Clients -> Nat]
    BY <1>9, <2>1 DEF Publish, TypeOK
  <2>4. QED
    BY <1>9, <2>2, <2>3 DEF Publish, TypeOK
<1>10. ASSUME NEW c \in Clients, Deliver(c) PROVE TypeOK'
  <2>1. lost' \in [Clients -> SUBSET Nat]
    BY <1>10, GiveUpType DEF Deliver, Arrive, TypeOK
  <2>2. history' \in Slot
    BY <1>10, SlotTypes DEF Deliver, Arrive, TypeOK
  <2>3. QED
    BY <1>10, <2>1, <2>2 DEF Deliver, Arrive, TypeOK
<1>11. QED
  BY <1>1, <1>2, <1>3, <1>4, <1>5, <1>6, <1>7, <1>8, <1>9, <1>10 DEF Environment

\* Every step keeps HandOk: only TakeSample goes to the forward step, and only
\* with a client's report.
LEMMA NextHandOk == TypeOK /\ HandOk /\ [Next]_vars => HandOk'
<1> SUFFICES ASSUME TypeOK, HandOk, [Next]_vars PROVE HandOk'
  OBVIOUS
<1> USE DEF HandOk, network, ghosts, thread, DropReader
<1>1. CASE UNCHANGED vars
  BY <1>1 DEF vars
<1>2. CASE TakeSample
  BY <1>2 DEF TakeSample, Skipped, OwnSample, TypeOK, Slot, Empty, Invalid
<1>3. CASE MainThread /\ ~TakeSample
  BY <1>3 DEF MainThread, Configure, CreateInputEntities, AwaitStopped, PollPublishers,
     CreateOutputEntities, LoopHead, WaitReturns, WaitTimesOut, DispatchRead,
     DispatchStatus, StatusNotRead, DispatchDone, TakeNothing, WriteOk, WriteFails, FailAndReturn,
     ShutDownAndReturn, Cleanup
<1>4. CASE Environment
  BY <1>4 DEF Environment, Stop, Crash, Restart, MatchOwn, DeliverEcho, InvalidArrives,
     MatchClient, UnmatchClient, Publish, Deliver
<1>5. QED
  BY <1>1, <1>2, <1>3, <1>4 DEF Next

\* The initial state is well typed and has nothing in hand.
LEMMA InitTypes == Init => TypeOK /\ HandOk
<1> SUFFICES ASSUME Init PROVE TypeOK /\ HandOk
  OBVIOUS
<1>1. HandOk
  BY DEF Init, HandOk
<1>2. /\ config \in Configs \cup {NoConfig} /\ pc \in PCs
      /\ input \in SUBSET InputEntities /\ output \in SUBSET OutputEntities
      /\ active \in SUBSET {"readcond", "statuscond"} /\ match \in SUBSET Clients
  BY DEF Init, PCs
<1>3. history \in Slot /\ hand \in Slot /\ echo \in Slot
  BY SlotTypes DEF Init
<1>4. /\ wire \in [Clients -> Nat] /\ published \in [Clients -> Nat]
      /\ lost \in [Clients -> SUBSET Nat]
      /\ out \in Seq([from : Clients, seq : Nat])
  BY DEF Init
<1>5. /\ g_running \in BOOLEAN /\ statusTrig \in BOOLEAN /\ ownMatch \in BOOLEAN
      /\ result \in BOOLEAN /\ failed \in BOOLEAN
  BY DEF Init
<1>6. QED
  BY <1>1, <1>2, <1>3, <1>4, <1>5 DEF TypeOK

\* The inductive invariant behind the types.
LEMMA TypesInvariant == Spec => [](TypeOK /\ HandOk)
<1>1. TypeOK /\ HandOk /\ [Next]_vars => TypeOK' /\ HandOk'
  <2>1. TypeOK /\ UNCHANGED vars => TypeOK'
    BY DEF vars, thread, network, ghosts, TypeOK
  <2>2. QED
    BY <2>1, MainThreadType, EnvironmentType, NextHandOk DEF Next
<1>2. QED
  BY InitTypes, <1>1, PTL DEF Spec

\* TypeOK is an invariant: no slot, list or set of the manager ever holds
\* anything but what its declaration says, in particular bridgeLoop never
\* writes an empty or invalid sample.
THEOREM TypeCorrect == Spec => []TypeOK
BY TypesInvariant, PTL

------------------------------------------------------------------------------
(* The entities and the result of run.                                     *)

\* The inductive strengthening of Lifecycle and ExitHasCause: why run is on
\* its way out, and that no create call has failed before.
LifeInv ==
  /\ Lifecycle
  /\ ExitHasCause
  /\ pc \in {"fail", "shutdown"} => failed \/ ~g_running
  /\ failed => pc \in {"fail", "returned", "crashed"}

\* The entities' invariant holds before anything is created.
LEMMA InitLife == Init => LifeInv
BY DEF Init, LifeInv, Lifecycle, ExitHasCause

\* Every step of run, of its failures and of its end keeps the entities' invariant.
LEMMA NextLife == TypeOK /\ LifeInv /\ [Next]_vars => LifeInv'
<1> SUFFICES ASSUME TypeOK, LifeInv, [Next]_vars PROVE LifeInv'
  OBVIOUS
<1> USE DEF LifeInv, Lifecycle, ExitHasCause, network, ghosts, thread
<1>1. CASE UNCHANGED vars
  BY <1>1 DEF vars
<1>2. CASE MainThread
  <2>1. CASE CreateInputEntities
    BY <2>1, EntityTypes DEF CreateInputEntities
  <2>2. CASE CreateOutputEntities
    BY <2>2, EntityTypes DEF CreateOutputEntities
  <2>3. CASE ShutDownAndReturn \/ FailAndReturn
    BY <2>3 DEF ShutDownAndReturn, FailAndReturn, Cleanup, TypeOK
  <2>4. CASE LoopHead \/ AwaitStopped
    BY <2>4 DEF LoopHead, AwaitStopped
  <2>8. CASE PollPublishers
    BY <2>8 DEF PollPublishers
  <2>9. CASE Configure
    BY <2>9 DEF Configure
  <2>5. CASE \/ WaitReturns \/ WaitTimesOut \/ DispatchRead \/ DispatchStatus
             \/ StatusNotRead \/ DispatchDone
    BY <2>5 DEF WaitReturns, WaitTimesOut, DispatchRead, DispatchStatus, StatusNotRead,
       DispatchDone
  <2>6. CASE TakeSample \/ TakeNothing \/ WriteOk \/ WriteFails
    BY <2>6 DEF TakeSample, TakeNothing, WriteOk, WriteFails
  <2>7. QED
    BY <1>2, <2>1, <2>2, <2>3, <2>4, <2>5, <2>6, <2>8, <2>9 DEF MainThread
<1>3. CASE Environment
  <2>1. CASE Stop
    BY <2>1 DEF Stop
  <2>2. CASE Crash \/ Restart
    BY <2>2 DEF Crash, Restart
  <2>3. CASE MatchOwn \/ DeliverEcho \/ InvalidArrives
    BY <2>3 DEF MatchOwn, DeliverEcho, InvalidArrives
  <2>4. CASE \E c \in Clients : MatchClient(c) \/ UnmatchClient(c) \/ Publish(c) \/ Deliver(c)
    BY <2>4 DEF MatchClient, UnmatchClient, Publish, Deliver
  <2>5. QED
    BY <1>3, <2>1, <2>2, <2>3, <2>4 DEF Environment
<1>4. QED
  BY <1>1, <1>2, <1>3 DEF Next

\* Nothing leaks on any way out of run, and nothing is used that was not
\* created or is deleted already.
THEOREM LifecycleHolds == Spec => []Lifecycle
<1>1. LifeInv => Lifecycle
  BY DEF LifeInv
<1>2. QED
  BY InitLife, NextLife, TypesInvariant, <1>1, PTL DEF Spec

\* run returns only after a stop request or a failed creation, and its result
\* tells a success only for the former.
THEOREM ExitHasCauseHolds == Spec => []ExitHasCause
<1>1. LifeInv => ExitHasCause
  BY DEF LifeInv
<1>2. QED
  BY InitLife, NextLife, TypesInvariant, <1>1, PTL DEF Spec

------------------------------------------------------------------------------
(* The order of the reports, and the promise of ReportRelay.               *)

\* With nothing published there is nothing out of order.
LEMMA InitOrder == Init => PipelineOrder
BY DEF Init, PipelineOrder, Empty

\* Steps that leave the stations of a report and the log alone.
LEMMA OrderKept ==
  ASSUME PipelineOrder, UNCHANGED <<published, out, wire, history, hand, echo>>
  PROVE  PipelineOrder'
BY DEF PipelineOrder, Ahead, Behind

\* The reader goes: only the log is left.
LEMMA DropReaderOrder == ASSUME PipelineOrder, DropReader PROVE PipelineOrder'
BY DEF PipelineOrder, DropReader, Empty

\* The elements of a sequence are members of its set.
LEMMA SeqElements ==
  ASSUME NEW S, NEW s \in Seq(S) PROVE \A i \in 1..Len(s) : s[i] \in S
OBVIOUS

\* What was forwarded is a list of numbered reports of clients.
LEMMA LogTypes ==
  ASSUME TypeOK
  PROVE  /\ Len(out) \in Nat
         /\ \A i \in 1..Len(out) : out[i].from \in Clients /\ out[i].seq \in Nat
<1>1. out \in Seq([from : Clients, seq : Nat])
  BY DEF TypeOK
<1>2. \A i \in 1..Len(out) : out[i] \in [from : Clients, seq : Nat]
  BY <1>1, SeqElements
<1>3. QED
  BY <1>1, <1>2

\* take_next_sample moves a report from the reader to the local sample without
\* overtaking.
LEMMA TakeOrder == ASSUME TypeOK, HandOk, PipelineOrder, TakeSample PROVE PipelineOrder'
<1>1. history'.kind # "report" /\ echo'.kind # "report"
  BY DEF TakeSample, Empty, PipelineOrder
<1>2. hand'.kind = "report" => hand' = history /\ history.kind = "report"
  BY DEF TakeSample, HandOk, Empty
<1>3. UNCHANGED <<published, out, wire>>
  BY DEF TakeSample, ghosts
<1>4. CASE hand'.kind = "report"
  BY <1>1, <1>2, <1>3, <1>4 DEF PipelineOrder, Ahead, Behind
<1>5. CASE hand'.kind # "report"
  BY <1>1, <1>3, <1>5 DEF PipelineOrder, Ahead, Behind
<1>6. QED
  BY <1>4, <1>5

\* A write that succeeds appends a report newer than all before it of its client.
LEMMA WriteOkOrder == ASSUME TypeOK, HandOk, PipelineOrder, WriteOk PROVE PipelineOrder'
<1> DEFINE r == [from |-> hand.from, seq |-> hand.seq]
<1>1. /\ Len(out') = Len(out) + 1 /\ Len(out) \in Nat
      /\ \A i \in 1..Len(out) : out'[i] = out[i]
      /\ out'[Len(out) + 1] = r
  BY HandType DEF WriteOk, TypeOK
<1>2. hand'.kind # "report" /\ echo'.kind # "report"
  BY DEF WriteOk, Empty, EchoSample, PipelineOrder
<1>3. hand.kind = "report" /\ UNCHANGED <<published, wire, history>>
  BY DEF WriteOk, HandOk
<1>4. \A i \in 1..Len(out') : out'[i].seq \in 1..published'[out'[i].from]
  BY <1>1, <1>3 DEF PipelineOrder, Ahead
<1>5. \A c, n : Ahead(c, n) /\ Behind(hand, c, n) => Ahead(c, n)'
  BY <1>1, <1>3 DEF Ahead, Behind
<1>6. QED
  BY <1>2, <1>3, <1>4, <1>5 DEF PipelineOrder, Behind

\* A write that fails leaves the order of the others alone.
LEMMA WriteFailsOrder == ASSUME PipelineOrder, WriteFails PROVE PipelineOrder'
BY DEF PipelineOrder, WriteFails, network, Ahead, Behind, Empty

\* A client's next report is newer than everything of it on the way.
LEMMA PublishOrder ==
  ASSUME TypeOK, PipelineOrder, NEW c \in Clients, Publish(c)
  PROVE  PipelineOrder'
<1>1. published' = [published EXCEPT ![c] = @ + 1] /\ published[c] \in Nat
  BY DEF Publish, TypeOK
<1>k. PICK k \in Nat : k = published[c] + 1
  BY <1>1
<1>2. UNCHANGED <<out, history, hand, echo>>
  BY DEF Publish, thread
<1>3. \A d \in Clients : \A n : n \in 1..published[d] => n \in 1..published'[d]
  BY <1>1 DEF TypeOK
<1>4. \A i \in 1..Len(out) : out[i].from \in Clients
  BY LogTypes
<1>5. /\ hand.kind = "report" => hand.from \in Clients
      /\ history.kind = "report" => history.from \in Clients
  BY DEF TypeOK, Slot, Empty, Invalid
<1>6. \A i \in 1..Len(out') : out'[i].seq \in 1..published'[out'[i].from]
  BY <1>2, <1>3, <1>4 DEF PipelineOrder
<1>7. \A d \in Clients : \A n : Ahead(d, n) => Ahead(d, n)'
  BY <1>2, <1>3 DEF Ahead
<1>8. \A d \in Clients : wire'[d] # wire[d] => d = c /\ wire'[d] = k
  BY <1>k DEF Publish, TypeOK
<1>9. /\ Ahead(c, k)'
      /\ Behind(hand, c, k)
      /\ Behind(history, c, k)
  <2>1. published'[c] = k
    BY <1>1, <1>k DEF TypeOK
  <2>2. \A i \in 1..Len(out) : out[i].from = c => out[i].seq < k
    BY <1>1, <1>k, LogTypes DEF PipelineOrder
  <2>3. Ahead(c, k)'
    BY <1>1, <1>2, <1>k, <2>1, <2>2 DEF Ahead
  <2>4. QED
    BY <1>1, <1>k, <2>3 DEF PipelineOrder, Ahead, Behind
<1>10. ASSUME NEW d \in Clients, wire'[d] # 0
       PROVE  Ahead(d, wire[d])' /\ Behind(hand, d, wire[d])' /\ Behind(history, d, wire[d])'
  <2>1. CASE wire'[d] = wire[d]
    BY <1>2, <1>7, <1>10, <2>1 DEF PipelineOrder, Behind
  <2>2. CASE wire'[d] # wire[d]
    <3>1. d = c /\ wire'[d] = k
      BY <1>8, <2>2
    <3>2. Ahead(d, wire[d])'
      BY <1>9, <3>1 DEF Ahead
    <3>3. QED
      BY <1>2, <1>9, <3>1, <3>2 DEF Behind
  <2>3. QED
    BY <2>1, <2>2
<1>11. /\ hand'.kind = "report" => Ahead(hand.from, hand.seq)'
       /\ history'.kind = "report" => /\ Ahead(history.from, history.seq)'
                                      /\ Behind(hand, history.from, history.seq)'
  BY <1>2, <1>5, <1>7 DEF PipelineOrder, Behind
<1>12. QED
  BY <1>2, <1>6, <1>10, <1>11 DEF PipelineOrder

\* Delivery moves a report from a client's writer to the reader, in order.
LEMMA DeliverOrder ==
  ASSUME TypeOK, PipelineOrder, NEW c \in Clients, Deliver(c)
  PROVE  PipelineOrder'
<1>1. /\ history' = ReportSample(c, wire[c]) /\ wire[c] # 0
      /\ wire' = [wire EXCEPT ![c] = 0]
      /\ UNCHANGED <<published, out, hand, echo>>
  BY DEF Deliver, Arrive, thread
<1>2. history'.kind = "report" /\ history'.from = c /\ history'.seq = wire[c]
  BY <1>1 DEF ReportSample
<1>3. \A d \in Clients : wire'[d] # 0 => d # c /\ wire'[d] = wire[d]
  BY <1>1 DEF TypeOK
<1>4. QED
  BY <1>1, <1>2, <1>3 DEF PipelineOrder, Ahead, Behind

\* Every step keeps the order along the pipeline.
LEMMA NextOrder == TypeOK /\ HandOk /\ PipelineOrder /\ [Next]_vars => PipelineOrder'
<1> SUFFICES ASSUME TypeOK, HandOk, PipelineOrder, [Next]_vars PROVE PipelineOrder'
  OBVIOUS
<1> USE DEF network, ghosts, thread
<1>1. CASE UNCHANGED vars
  BY <1>1, OrderKept DEF vars
<1>2. CASE MainThread
  <2>1. CASE TakeSample \/ WriteOk \/ WriteFails
    BY <2>1, TakeOrder, WriteOkOrder, WriteFailsOrder
  <2>2. CASE FailAndReturn \/ ShutDownAndReturn
    BY <2>2, DropReaderOrder DEF FailAndReturn, ShutDownAndReturn, Cleanup
  <2>3. CASE \/ Configure \/ CreateInputEntities \/ AwaitStopped \/ PollPublishers
             \/ CreateOutputEntities \/ LoopHead
    BY <2>3, OrderKept DEF Configure, CreateInputEntities, AwaitStopped, PollPublishers,
       CreateOutputEntities, LoopHead
  <2>4. CASE \/ WaitReturns \/ WaitTimesOut \/ DispatchRead \/ DispatchStatus
             \/ StatusNotRead \/ DispatchDone \/ TakeNothing
    BY <2>4, OrderKept DEF WaitReturns, WaitTimesOut, DispatchRead, DispatchStatus,
       StatusNotRead, DispatchDone, TakeNothing
  <2>5. QED
    BY <1>2, <2>1, <2>2, <2>3, <2>4 DEF MainThread
<1>3. CASE Environment
  <2>1. CASE Stop \/ Restart \/ MatchOwn
    BY <2>1, OrderKept DEF Stop, Restart, MatchOwn
  <2>2. CASE Crash
    BY <2>2, DropReaderOrder DEF Crash
  <2>3. CASE DeliverEcho
    BY <2>3 DEF DeliverEcho, Arrive, PipelineOrder, Ahead, Behind, Empty
  <2>4. CASE InvalidArrives
    BY <2>4 DEF InvalidArrives, PipelineOrder, Ahead, Behind, Invalid
  <2>5. ASSUME NEW c \in Clients, MatchClient(c) PROVE PipelineOrder'
    BY <2>5, OrderKept DEF MatchClient
  <2>6. ASSUME NEW c \in Clients, UnmatchClient(c) PROVE PipelineOrder'
    <3>1. \A d \in Clients : wire'[d] # 0 => wire'[d] = wire[d]
      BY <2>6 DEF UnmatchClient, TypeOK
    <3>2. QED
      BY <2>6, <3>1 DEF UnmatchClient, PipelineOrder, Ahead, Behind
  <2>7. ASSUME NEW c \in Clients, Publish(c) \/ Deliver(c) PROVE PipelineOrder'
    BY <2>7, PublishOrder, DeliverOrder
  <2>8. QED
    BY <1>3, <2>1, <2>2, <2>3, <2>4, <2>5, <2>6, <2>7 DEF Environment
<1>4. QED
  BY <1>1, <1>2, <1>3 DEF Next

\* The reports of a client keep their order through the manager and none is
\* doubled, for any number of clients and reports, crashes included.
THEOREM PipelineOrderHolds == Spec => []PipelineOrder
BY InitOrder, NextOrder, TypesInvariant, PTL DEF Spec

\* Every step of the bridge is a publication, a relaying or a stutter of ReportRelay.
LEMMA NextRelay == TypeOK /\ HandOk /\ PipelineOrder /\ [Next]_vars => [Relay!Next]_(Relay!vars)
<1> SUFFICES ASSUME TypeOK, HandOk, PipelineOrder, [Next]_vars
             PROVE  [Relay!Next]_(Relay!vars)
  OBVIOUS
<1> USE DEF network, ghosts, thread
<1>1. CASE WriteOk
  <2>1. hand.from \in Clients /\ Ahead(hand.from, hand.seq)
    BY <1>1, HandType DEF WriteOk, PipelineOrder, HandOk
  <2>2. Relay!Relay(hand.from, hand.seq)
    BY <1>1, <2>1 DEF WriteOk, Relay!Relay, Relay!Newer, Ahead
  <2>3. QED
    BY <2>1, <2>2 DEF Relay!Next, Ahead
<1>2. ASSUME NEW c \in Clients, Publish(c) PROVE Relay!Next
  BY <1>2 DEF Publish, Relay!Next, Relay!Publish
<1>3. CASE UNCHANGED vars
  BY <1>3 DEF vars, Relay!vars
<1>4. CASE MainThread /\ ~WriteOk
  BY <1>4 DEF MainThread, Configure, CreateInputEntities, AwaitStopped, PollPublishers,
     CreateOutputEntities, LoopHead, WaitReturns, WaitTimesOut, DispatchRead,
     DispatchStatus, StatusNotRead, DispatchDone, TakeSample, TakeNothing, WriteFails, FailAndReturn,
     ShutDownAndReturn, Cleanup, DropReader, Relay!vars
<1>5. CASE Environment
  <2>1. CASE Stop \/ Crash \/ Restart \/ MatchOwn \/ DeliverEcho \/ InvalidArrives
    BY <2>1 DEF Stop, Crash, Restart, MatchOwn, DeliverEcho, InvalidArrives, DropReader,
       Relay!vars
  <2>2. ASSUME NEW c \in Clients, MatchClient(c) \/ UnmatchClient(c) \/ Deliver(c)
        PROVE  UNCHANGED Relay!vars
    BY <2>2 DEF MatchClient, UnmatchClient, Deliver, Relay!vars
  <2>3. QED
    BY <1>2, <1>5, <2>1, <2>2 DEF Environment
<1>6. QED
  BY <1>1, <1>2, <1>3, <1>4, <1>5 DEF Next

\* The bridge implements ReportRelay: what it forwards was published, goes out
\* at most once and in each client's order, also when it reads its own output,
\* stops, crashes or is started again.
THEOREM ImplementsRelay == Spec => RelaySpec
<1>1. Init => Relay!Init
  BY DEF Init, Relay!Init
<1>2. QED
  BY <1>1, InitOrder, NextOrder, NextRelay, TypesInvariant, PTL DEF Spec, RelaySpec, Relay!Spec
------------------------------------------------------------------------------
(* Every report is accounted for.                                          *)

\* Report n of c was written to the output.
Forwarded(c, n) == \E i \in 1..Len(out) : out[i] = [from |-> c, seq |-> n]

\* Report n of c is at a station of the bridge, or behind the last one.
Held(c, n) == \/ wire[c] = n
              \/ history = ReportSample(c, n)
              \/ hand = ReportSample(c, n)
              \/ Forwarded(c, n)

\* What a client published and nobody holds is exactly what was given up.  With
\* PipelineOrder, which keeps the stations apart, this is Accounted.
LostIsRest ==
  \A c \in Clients :
    /\ lost[c] \subseteq 1..published[c]
    /\ \A n \in 1..published[c] : n \in lost[c] <=> ~Held(c, n)

\* A sample that is a report is the one its fields name.
LEMMA SlotReport ==
  ASSUME NEW s \in Slot, s.kind = "report"
  PROVE  s.from \in Clients /\ s.seq \in Nat /\ s = ReportSample(s.from, s.seq)
BY DEF Slot, Empty, Invalid, ReportSample

\* The fields of a report, and that no two reports share them.
LEMMA ReportFields ==
  ASSUME NEW c, NEW n
  PROVE  /\ ReportSample(c, n).kind = "report"
         /\ ReportSample(c, n).from = c /\ ReportSample(c, n).seq = n
BY DEF ReportSample

\* GiveUp adds the reports in the given slots, and nothing else.
LEMMA GiveUpReports ==
  ASSUME NEW slots \in SUBSET Slot, NEW c \in Clients, NEW n
  PROVE  n \in GiveUp(slots)[c] <=> n \in lost[c] \/ ReportSample(c, n) \in slots
<1>1. GiveUp(slots)[c] =
        lost[c] \cup {s.seq : s \in {t \in slots : t.kind = "report" /\ t.from = c}}
  BY DEF GiveUp
<1>2. ASSUME NEW s \in slots, s.kind = "report", s.from = c, s.seq = n
      PROVE  ReportSample(c, n) \in slots
  BY <1>2, SlotReport
<1>3. ASSUME ReportSample(c, n) \in slots
      PROVE  \E s \in {t \in slots : t.kind = "report" /\ t.from = c} : s.seq = n
  BY <1>3, ReportFields
<1>4. QED
  BY <1>1, <1>2, <1>3

\* At most one station holds a report, and none holds a number never published.
LEMMA StationsApart ==
  ASSUME TypeOK, PipelineOrder, NEW c \in Clients, NEW n \in Nat
  PROVE  /\ Forwarded(c, n) => /\ hand # ReportSample(c, n)
                               /\ history # ReportSample(c, n)
                               /\ wire[c] # 0 => wire[c] # n
         /\ hand = ReportSample(c, n) => /\ history # ReportSample(c, n)
                                         /\ wire[c] # 0 => wire[c] # n
         /\ history = ReportSample(c, n) => (wire[c] # 0 => wire[c] # n)
         /\ Held(c, n) /\ n # 0 => n \in 1..published[c]
<1> USE ReportFields
<1>1. Forwarded(c, n) => hand # ReportSample(c, n)
  BY DEF PipelineOrder, Ahead, Forwarded
<1>2. Forwarded(c, n) => history # ReportSample(c, n)
  BY DEF PipelineOrder, Ahead, Forwarded
<1>3. Forwarded(c, n) => (wire[c] # 0 => wire[c] # n)
  BY DEF PipelineOrder, Ahead, Forwarded
<1>4. hand = ReportSample(c, n) => /\ history # ReportSample(c, n)
                                   /\ wire[c] # 0 => wire[c] # n
  BY DEF PipelineOrder, Behind
<1>5. history = ReportSample(c, n) => (wire[c] # 0 => wire[c] # n)
  BY DEF PipelineOrder, Behind
<1>6. Held(c, n) /\ n # 0 => n \in 1..published[c]
  BY DEF PipelineOrder, Ahead, Held, Forwarded
<1>7. QED
  BY <1>1, <1>2, <1>3, <1>4, <1>5, <1>6

\* With nothing published there is nothing to account for.
LEMMA InitLost == Init => LostIsRest
BY DEF Init, LostIsRest

\* Steps that leave the reports where they are.
LEMMA LostKept ==
  ASSUME LostIsRest, UNCHANGED <<published, out, wire, history, hand, lost>>
  PROVE  LostIsRest'
BY DEF LostIsRest, Held, Forwarded

\* A step that publishes nothing keeps LostIsRest when it gives up exactly the
\* reports nobody holds after it and somebody held before.
LEMMA MoveLost ==
  ASSUME TypeOK, PipelineOrder, LostIsRest, UNCHANGED published,
         NEW slots \in SUBSET Slot, lost' = GiveUp(slots),
         \A c \in Clients : \A n \in 1..published[c] :
            /\ Held(c, n)' => Held(c, n)
            /\ Held(c, n) => (ReportSample(c, n) \in slots <=> ~Held(c, n)'),
         \A c \in Clients : \A n \in Nat :
            ReportSample(c, n) \in slots => n \in 1..published[c]
  PROVE  LostIsRest'
<1> SUFFICES ASSUME NEW c \in Clients
             PROVE  /\ lost'[c] \subseteq 1..published[c]
                    /\ \A n \in 1..published[c] : n \in lost'[c] <=> ~Held(c, n)'
  BY DEF LostIsRest
<1>1. \A n : n \in lost'[c] <=> n \in lost[c] \/ ReportSample(c, n) \in slots
  BY GiveUpReports
<1>2. lost'[c] \subseteq 1..published[c]
  <2>1. \A n : ReportSample(c, n) \in slots => n \in Nat
    BY SlotReport, ReportFields
  <2>2. QED
    BY <1>1, <2>1 DEF LostIsRest
<1>3. ASSUME NEW n \in 1..published[c], ~Held(c, n)
      PROVE  n \in lost'[c] /\ ~Held(c, n)'
  BY <1>1, <1>3 DEF LostIsRest
<1>4. ASSUME NEW n \in 1..published[c], Held(c, n)
      PROVE  n \in lost'[c] <=> ~Held(c, n)'
  BY <1>1, <1>4 DEF LostIsRest
<1>5. QED
  BY <1>2, <1>3, <1>4

\* take_next_sample: a report goes from the reader to the local sample.
LEMMA TakeLost == ASSUME TypeOK, HandOk, LostIsRest, TakeSample PROVE LostIsRest'
<1>1. hand = Empty /\ history' = Empty /\ UNCHANGED <<published, out, wire, lost>>
  BY DEF TakeSample, HandOk, ghosts
<1>2. hand' = history \/ (hand' = Empty /\ history.kind # "report")
  BY <1>1 DEF TakeSample, Skipped, OwnSample, Invalid
<1>3. \A c, n : Held(c, n)' <=> Held(c, n)
  BY <1>1, <1>2, ReportFields DEF Held, Forwarded, Empty
<1>4. QED
  BY <1>1, <1>3 DEF LostIsRest

\* A write that succeeds: a report goes from the local sample to the log.
LEMMA WriteOkLost == ASSUME TypeOK, HandOk, LostIsRest, WriteOk PROVE LostIsRest'
<1> DEFINE r == [from |-> hand.from, seq |-> hand.seq]
<1>1. /\ Len(out') = Len(out) + 1 /\ Len(out) \in Nat
      /\ \A i \in 1..Len(out) : out'[i] = out[i]
      /\ out'[Len(out) + 1] = r
  BY HandType DEF WriteOk, TypeOK
<1>2. hand' = Empty /\ UNCHANGED <<published, wire, history, lost>>
  BY DEF WriteOk
<1>3. hand = ReportSample(hand.from, hand.seq)
  BY HandType DEF WriteOk
<1>4. \A c, n : hand = ReportSample(c, n) <=> r = [from |-> c, seq |-> n]
  BY <1>3, ReportFields
<1>5. \A c, n : hand' # ReportSample(c, n)
  BY <1>2, ReportFields DEF Empty
<1>6. \A c, n : Forwarded(c, n)' <=> Forwarded(c, n) \/ r = [from |-> c, seq |-> n]
  <2> SUFFICES ASSUME NEW c, NEW n
               PROVE  Forwarded(c, n)' <=> Forwarded(c, n) \/ r = [from |-> c, seq |-> n]
    OBVIOUS
  <2> HIDE DEF r
  <2> QED
    BY <1>1 DEF Forwarded
<1>7. \A c, n : Held(c, n)' <=> Held(c, n)
  BY <1>2, <1>4, <1>5, <1>6 DEF Held
<1>8. QED
  BY <1>2, <1>7 DEF LostIsRest

\* A write that fails: the report of the local sample is given up.
LEMMA WriteFailsLost ==
  ASSUME TypeOK, HandOk, PipelineOrder, LostIsRest, WriteFails
  PROVE  LostIsRest'
<1>1. hand' = Empty /\ UNCHANGED <<published, out, wire, history>> /\ lost' = GiveUp({hand})
  BY DEF WriteFails, network
<1>2. \A c, n : hand' # ReportSample(c, n)
  BY <1>1, ReportFields DEF Empty
<1>3. {hand} \in SUBSET Slot
  BY DEF TypeOK
<1>4. \A c \in Clients : \A n \in 1..published[c] :
         /\ Held(c, n)' => Held(c, n)
         /\ Held(c, n) => (ReportSample(c, n) \in {hand} <=> ~Held(c, n)')
  BY <1>1, <1>2, StationsApart DEF Held, Forwarded
<1>5. \A c \in Clients : \A n \in Nat : ReportSample(c, n) \in {hand} => n \in 1..published[c]
  BY ReportFields DEF PipelineOrder, Ahead
<1>6. QED
  BY <1>1, <1>3, <1>4, <1>5, MoveLost

\* The reader goes: what it, the local sample and the writers held is given up.
LEMMA DropReaderLost ==
  ASSUME TypeOK, PipelineOrder, LostIsRest, DropReader
  PROVE  LostIsRest'
<1> DEFINE slots == {history, hand} \cup UNION {InFlight(c) : c \in Clients}
<1>1. /\ hand' = Empty /\ history' = Empty /\ wire' = [c \in Clients |-> 0]
      /\ UNCHANGED <<published, out>>
      /\ lost' = GiveUp(slots)
  BY DEF DropReader
<1>2. \A c, n : hand' # ReportSample(c, n) /\ history' # ReportSample(c, n)
  BY <1>1, ReportFields DEF Empty
<1>3. slots \in SUBSET Slot
  BY InFlightType DEF TypeOK
<1>4. \A c \in Clients, n \in Nat :
         ReportSample(c, n) \in slots <=> \/ history = ReportSample(c, n)
                                          \/ hand = ReportSample(c, n)
                                          \/ wire[c] # 0 /\ wire[c] = n
  BY ReportFields DEF InFlight
<1> HIDE DEF slots
<1>5. ASSUME NEW c \in Clients, NEW n \in 1..published[c]
      PROVE  /\ Held(c, n)' => Held(c, n)
             /\ Held(c, n) => (ReportSample(c, n) \in slots <=> ~Held(c, n)')
  <2>1. n \in Nat /\ n # 0 /\ wire'[c] = 0
    BY <1>1 DEF TypeOK
  <2>2. Held(c, n)' <=> Forwarded(c, n)
    BY <1>1, <1>2, <2>1 DEF Held, Forwarded
  <2>3. QED
    BY <1>4, <2>1, <2>2, StationsApart DEF Held
<1>6. \A c \in Clients : \A n \in Nat : ReportSample(c, n) \in slots => n \in 1..published[c]
  BY <1>4, ReportFields DEF PipelineOrder, Ahead
<1>7. QED
  BY <1>1, <1>3, <1>5, <1>6, MoveLost

\* A client leaves: what its writer held is given up.
LEMMA UnmatchLost ==
  ASSUME TypeOK, PipelineOrder, LostIsRest, NEW d \in Clients, UnmatchClient(d)
  PROVE  LostIsRest'
<1>1. /\ wire' = [wire EXCEPT ![d] = 0] /\ UNCHANGED <<published, out, history, hand>>
      /\ lost' = GiveUp(InFlight(d))
  BY DEF UnmatchClient, thread
<1>2. InFlight(d) \in SUBSET Slot
  BY InFlightType
<1>3. \A c, n : ReportSample(c, n) \in InFlight(d) <=> c = d /\ wire[d] # 0 /\ wire[d] = n
  BY ReportFields DEF InFlight
<1>4. ASSUME NEW c \in Clients, NEW n \in 1..published[c]
      PROVE  /\ Held(c, n)' => Held(c, n)
             /\ Held(c, n) => (ReportSample(c, n) \in InFlight(d) <=> ~Held(c, n)')
  <2>1. n \in Nat /\ n # 0 /\ wire'[c] = IF c = d THEN 0 ELSE wire[c]
    BY <1>1 DEF TypeOK
  <2>2. Forwarded(c, n)' <=> Forwarded(c, n)
    BY <1>1 DEF Forwarded
  <2>3. QED
    BY <1>1, <1>3, <2>1, <2>2, StationsApart DEF Held
<1>5. \A c \in Clients : \A n \in Nat :
         ReportSample(c, n) \in InFlight(d) => n \in 1..published[c]
  BY <1>3 DEF PipelineOrder, Ahead
<1>6. QED
  BY <1>1, <1>2, <1>4, <1>5, MoveLost

\* A sample that is no report, or the one of a client's writer, displaces what
\* the reader held.
LEMMA DeliverLost ==
  ASSUME TypeOK, PipelineOrder, LostIsRest, NEW d \in Clients, Deliver(d)
  PROVE  LostIsRest'
<1>1. /\ wire[d] # 0 /\ history' = ReportSample(d, wire[d])
      /\ wire' = [wire EXCEPT ![d] = 0] /\ UNCHANGED <<published, out, hand>>
      /\ lost' = GiveUp({history})
  BY DEF Deliver, Arrive, thread
<1>2. {history} \in SUBSET Slot
  BY DEF TypeOK
<1>3. \A c, n : history' = ReportSample(c, n) <=> c = d /\ n = wire[d]
  BY <1>1, ReportFields
<1>4. ASSUME NEW c \in Clients, NEW n \in 1..published[c]
      PROVE  /\ Held(c, n)' => Held(c, n)
             /\ Held(c, n) => (ReportSample(c, n) \in {history} <=> ~Held(c, n)')
  <2>1. n \in Nat /\ n # 0 /\ wire'[c] = IF c = d THEN 0 ELSE wire[c]
    BY <1>1 DEF TypeOK
  <2>2. (Forwarded(c, n)' <=> Forwarded(c, n)) /\ hand' = hand
    BY <1>1 DEF Forwarded
  <2>3. QED
    BY <1>1, <1>3, <2>1, <2>2, StationsApart DEF Held
<1>5. \A c \in Clients : \A n \in Nat :
         ReportSample(c, n) \in {history} => n \in 1..published[c]
  BY ReportFields DEF PipelineOrder, Ahead
<1>6. QED
  BY <1>1, <1>2, <1>4, <1>5, MoveLost

\* The own writer's sample displaces what the reader held.
LEMMA DeliverEchoLost ==
  ASSUME TypeOK, PipelineOrder, LostIsRest, DeliverEcho
  PROVE  LostIsRest'
<1>1. /\ history' = echo /\ UNCHANGED <<published, out, wire, hand>>
      /\ lost' = GiveUp({history})
  BY DEF DeliverEcho, Arrive, thread
<1>2. {history} \in SUBSET Slot
  BY DEF TypeOK
<1>3. \A c, n : history' # ReportSample(c, n)
  BY <1>1, ReportFields DEF PipelineOrder
<1>4. ASSUME NEW c \in Clients, NEW n \in 1..published[c]
      PROVE  /\ Held(c, n)' => Held(c, n)
             /\ Held(c, n) => (ReportSample(c, n) \in {history} <=> ~Held(c, n)')
  <2>1. n \in Nat /\ n # 0
    BY DEF TypeOK
  <2>2. (Forwarded(c, n)' <=> Forwarded(c, n)) /\ hand' = hand /\ wire' = wire
    BY <1>1 DEF Forwarded
  <2>3. QED
    BY <1>3, <2>1, <2>2, StationsApart DEF Held
<1>5. \A c \in Clients : \A n \in Nat :
         ReportSample(c, n) \in {history} => n \in 1..published[c]
  BY ReportFields DEF PipelineOrder, Ahead
<1>6. QED
  BY <1>1, <1>2, <1>4, <1>5, MoveLost

\* A client publishes: the report it displaces on the wire is given up, or the
\* new one is, when the client is not matched.
LEMMA PublishLost ==
  ASSUME TypeOK, PipelineOrder, LostIsRest, NEW d \in Clients, Publish(d)
  PROVE  LostIsRest'
<1>k. PICK k \in Nat : k = published[d] + 1
  BY DEF TypeOK
<1>1. /\ published' = [published EXCEPT ![d] = k] /\ UNCHANGED <<out, history, hand>>
      /\ published[d] \in Nat
  BY <1>k DEF Publish, TypeOK, thread
<1>2. \A c \in Clients : /\ 1..published'[c] = (1..published[c]) \cup (IF c = d THEN {k} ELSE {})
                         /\ c = d => k \notin 1..published[c]
  <2>1. 1..k = (1..published[d]) \cup {k} /\ k \notin 1..published[d]
    BY <1>k, <1>1
  <2>2. QED
    BY <1>1, <2>1 DEF TypeOK
<1>3. ~Held(d, k) /\ k # 0
  BY <1>k, <1>1, StationsApart
<1>4. \A c, n : Forwarded(c, n)' <=> Forwarded(c, n)
  BY <1>1 DEF Forwarded
<1>5. ASSUME NEW c \in Clients
      PROVE  /\ lost'[c] \subseteq 1..published'[c]
             /\ \A n \in 1..published'[c] : n \in lost'[c] <=> ~Held(c, n)'
  <2>1. CASE d \in match
    <3>1. wire' = [wire EXCEPT ![d] = k] /\ lost' = GiveUp(InFlight(d))
      BY <1>k, <2>1 DEF Publish
    <3>2. \A n : n \in lost'[c] <=> n \in lost[c] \/ (c = d /\ wire[d] # 0 /\ wire[d] = n)
      <4>1. \A n : ReportSample(c, n) \in InFlight(d) <=> c = d /\ wire[d] # 0 /\ wire[d] = n
        BY ReportFields DEF InFlight
      <4>2. QED
        BY <3>1, <4>1, GiveUpReports, InFlightType
    <3>3. wire'[c] = IF c = d THEN k ELSE wire[c]
      BY <3>1 DEF TypeOK
    <3>4. lost'[c] \subseteq 1..published'[c]
      BY <1>2, <3>2 DEF LostIsRest, PipelineOrder, Ahead
    <3>5. ASSUME NEW n \in 1..published[c]
          PROVE  n \in lost'[c] <=> ~Held(c, n)'
      BY <1>1, <1>2, <1>4, <3>2, <3>3, StationsApart DEF Held, LostIsRest
    <3>6. c = d => (k \in lost'[c] <=> ~Held(c, k)')
      BY <1>2, <1>3, <3>2, <3>3 DEF Held, LostIsRest
    <3>7. QED
      BY <1>2, <3>4, <3>5, <3>6
  <2>2. CASE d \notin match
    <3>1. wire' = wire /\ lost' = GiveUp({ReportSample(d, k)})
      BY <1>k, <2>2 DEF Publish
    <3>2. \A n : n \in lost'[c] <=> n \in lost[c] \/ (c = d /\ n = k)
      <4>1. {ReportSample(d, k)} \in SUBSET Slot
        BY SlotTypes
      <4>2. \A n : ReportSample(c, n) \in {ReportSample(d, k)} <=> c = d /\ n = k
        BY ReportFields
      <4>3. QED
        BY <3>1, <4>1, <4>2, GiveUpReports
    <3>3. \A n : Held(c, n)' <=> Held(c, n)
      BY <1>1, <1>4, <3>1 DEF Held
    <3>4. lost'[c] \subseteq 1..published'[c]
      BY <1>2, <3>2 DEF LostIsRest
    <3>5. \A n \in 1..published[c] : n \in lost'[c] <=> ~Held(c, n)'
      BY <1>2, <3>2, <3>3 DEF LostIsRest
    <3>6. c = d => (k \in lost'[c] <=> ~Held(c, k)')
      BY <1>3, <3>2, <3>3
    <3>7. QED
      BY <1>2, <3>4, <3>5, <3>6
  <2>3. QED
    BY <2>1, <2>2
<1>6. QED
  BY <1>5 DEF LostIsRest

\* Every step keeps the account.
LEMMA NextLost ==
  TypeOK /\ HandOk /\ PipelineOrder /\ LostIsRest /\ [Next]_vars => LostIsRest'
<1> SUFFICES ASSUME TypeOK, HandOk, PipelineOrder, LostIsRest, [Next]_vars
             PROVE  LostIsRest'
  OBVIOUS
<1> USE DEF network, ghosts, thread
<1>1. CASE UNCHANGED vars
  BY <1>1, LostKept DEF vars
<1>2. CASE MainThread
  <2>1. CASE TakeSample \/ WriteOk \/ WriteFails
    BY <2>1, TakeLost, WriteOkLost, WriteFailsLost
  <2>2. CASE FailAndReturn \/ ShutDownAndReturn
    BY <2>2, DropReaderLost DEF FailAndReturn, ShutDownAndReturn, Cleanup
  <2>3. CASE \/ Configure \/ CreateInputEntities \/ AwaitStopped \/ PollPublishers
             \/ CreateOutputEntities \/ LoopHead
    BY <2>3, LostKept DEF Configure, CreateInputEntities, AwaitStopped, PollPublishers,
       CreateOutputEntities, LoopHead
  <2>4. CASE \/ WaitReturns \/ WaitTimesOut \/ DispatchRead \/ DispatchStatus
             \/ StatusNotRead \/ DispatchDone \/ TakeNothing
    BY <2>4, LostKept DEF WaitReturns, WaitTimesOut, DispatchRead, DispatchStatus,
       StatusNotRead, DispatchDone, TakeNothing
  <2>5. QED
    BY <1>2, <2>1, <2>2, <2>3, <2>4 DEF MainThread
<1>3. CASE Environment
  <2>1. CASE Stop \/ Restart \/ MatchOwn
    BY <2>1, LostKept DEF Stop, Restart, MatchOwn
  <2>2. CASE Crash
    BY <2>2, DropReaderLost DEF Crash
  <2>3. CASE DeliverEcho
    BY <2>3, DeliverEchoLost
  <2>4. CASE InvalidArrives
    <3>1. \A c, n : history # ReportSample(c, n) /\ history' # ReportSample(c, n)
      BY <2>4, ReportFields DEF InvalidArrives, Empty, Invalid
    <3>2. \A c, n : Held(c, n)' <=> Held(c, n)
      BY <2>4, <3>1 DEF InvalidArrives, Held, Forwarded
    <3>3. QED
      BY <2>4, <3>2 DEF InvalidArrives, LostIsRest
  <2>5. ASSUME NEW c \in Clients, MatchClient(c) PROVE LostIsRest'
    BY <2>5, LostKept DEF MatchClient
  <2>6. ASSUME NEW c \in Clients, UnmatchClient(c) \/ Publish(c) \/ Deliver(c)
        PROVE  LostIsRest'
    BY <2>6, UnmatchLost, PublishLost, DeliverLost
  <2>7. QED
    BY <1>3, <2>1, <2>2, <2>3, <2>4, <2>5, <2>6 DEF Environment
<1>4. QED
  BY <1>1, <1>2, <1>3 DEF Next

\* The account, with the stations apart, is that each report is in one place.
LEMMA OnePlace == TypeOK /\ PipelineOrder /\ LostIsRest => Accounted
<1> SUFFICES ASSUME TypeOK, PipelineOrder, LostIsRest,
                    NEW c \in Clients, NEW n \in 1..published[c]
             PROVE  Cardinality(Places(c, n)) = 1
  BY DEF Accounted
<1> DEFINE P == {"wire", "history", "hand", "out", "lost"}
<1>1. n \in Nat /\ n # 0
  BY DEF TypeOK
<1>2. /\ \A p \in Places(c, n) : p \in P
      /\ "wire" \in Places(c, n) <=> wire[c] = n
      /\ "history" \in Places(c, n) <=> history = ReportSample(c, n)
      /\ "hand" \in Places(c, n) <=> hand = ReportSample(c, n)
      /\ "out" \in Places(c, n) <=> Forwarded(c, n)
      /\ "lost" \in Places(c, n) <=> n \in lost[c]
  BY DEF Places, Forwarded
<1>3. "lost" \in Places(c, n) <=> ~Held(c, n)
  BY <1>2 DEF LostIsRest
<1>4. \E p : Places(c, n) = {p}
  <2>1. \E p : p \in Places(c, n)
    BY <1>2, <1>3 DEF Held
  <2>2. \A p, q \in Places(c, n) : p = q
    BY <1>1, <1>2, <1>3, StationsApart DEF Held
  <2>3. QED
    BY <2>1, <2>2
<1>5. QED
  BY <1>4, FS_Singleton

\* Every report a client publishes stays accounted for: it is on its way,
\* forwarded, or given up for a cause the code names, exactly one of these, for
\* any number of clients and reports, failed writes, crashes and restarts included.
THEOREM AccountedHolds == Spec => []Accounted
BY InitOrder, NextOrder, InitLost, NextLost, OnePlace, TypesInvariant, PTL DEF Spec
===============================================================================
