---------------------------- MODULE ManagerBridge ----------------------------
(***************************************************************************)
(* The SecurityManager process: ManagerState (ManagerState.cpp) driven by  *)
(* Main (SecurityManager/Main.cpp), the DDS readers and writers it owns,   *)
(* and the security clients on the other side of its input topic.          *)
(*                                                                         *)
(* Threads: the main thread runs Main::start -> ManagerState::run, whose   *)
(* position is pc; Main::stop runs on another one and may come at any      *)
(* time.  Fast DDS delivers, matches and unmatches between any two steps.  *)
(* Every data reader and data writer here is RELIABLE with a KEEP_LAST     *)
(* history of depth 1 on a keyless topic, so each is one slot that the     *)
(* next sample overwrites.                                                 *)
(*                                                                         *)
(* topics[0] is the only topic (topic_count = 1).  The flags matched and   *)
(* out_matched only choose what is logged and are left out.                *)
(***************************************************************************)
EXTENDS Naturals, Sequences, FiniteSets

CONSTANTS Clients,     \* the security clients, one data writer each
          NoClient,    \* the sender of an empty slot
          Domains,     \* the DDS domains the manager may be told to use
          MaxReports   \* a client publishes at most this many reports

ASSUME ClientsAssumption == NoClient \notin Clients
ASSUME MaxReportsAssumption == MaxReports \in Nat

VARIABLES
  config,      \* input_domain, output_domain, in_name, out_name
  pc,          \* where the main thread is in Main::configure / ManagerState::run
  g_running,   \* ManagerState::g_running
  input,       \* the input entities that exist, by name
  output,      \* the output entities that exist, by name
  history,     \* the input data reader's history: one slot
  statusTrig,  \* the reader's subscription_matched status changed, unread
  active,      \* ConditionSeq active: conditions still to be handled
  hand,        \* the local variable sample of bridgeLoop: one slot
  match,       \* client writers matched with the input reader
  ownMatch,    \* the manager's own writer is matched with its own reader
  wire,        \* [Clients -> Nat]: report in the client writer's history, 0 if none
  echo,        \* a sample of the own writer on its way to the own reader: one slot
  result,      \* what ManagerState::run returned
  published,   \* history variable: reports published by each client
  out,         \* history variable: reports the output writer accepted, in order
  lost,        \* history variable: [Clients -> reports that can't be forwarded any more]
  failed       \* history variable: a create_* call of this run failed

thread == <<config, pc, g_running, input, output, active, hand, result, failed>>
network == <<history, statusTrig, match, ownMatch, wire, echo>>
ghosts == <<published, out, lost>>
vars == <<thread, network, ghosts>>

------------------------------------------------------------------------------
(* Samples, entities, configuration.                                       *)

Empty == [kind |-> "empty", from |-> NoClient, seq |-> 0]
Invalid == [kind |-> "invalid", from |-> NoClient, seq |-> 0]
ReportSample(c, n) == [kind |-> "report", from |-> c, seq |-> n]
EchoSample(c, n) == [kind |-> "echo", from |-> c, seq |-> n]

Slot == [kind : {"report", "echo"}, from : Clients, seq : Nat] \cup {Empty, Invalid}

\* What createInputEntities and createOutputEntities make, in that order.
InputOrder == <<"participant", "subscriber", "waitset", "topic", "reader", "readcond">>
OutputOrder == <<"participant", "publisher", "topic", "writer">>
FirstOf(order, k) == {order[i] : i \in 1..k}
InputEntities == FirstOf(InputOrder, 6)
OutputEntities == FirstOf(OutputOrder, 4)

DET_TOPIC_PRIMARY == "DetectionReport"
DET_TOPIC_LEGACY == "security/DetectionReport"

\* Values of the -t option: not given, or a topic name.
Overrides == {"", DET_TOPIC_PRIMARY, DET_TOPIC_LEGACY}
Configs == [input_domain : Domains, output_domain : Domains,
            in_name : Overrides \ {""}, out_name : {DET_TOPIC_LEGACY}]
\* The members as ManagerState's constructor leaves them.
NoConfig == [input_domain |-> 0, output_domain |-> 0, in_name |-> "", out_name |-> ""]

\* Input and output are the same topic of the same domain: the manager reads
\* back what it writes.
SameChannel == /\ config.input_domain = config.output_domain
               /\ config.in_name = config.out_name

Outside == {"start", "returned", "crashed"}
PCs == Outside \cup {"configured", "await", "createOutput", "loop", "wait",
                     "dispatch", "take", "forward", "fail", "shutdown"}
Bridging == {"loop", "wait", "dispatch", "take", "forward"}

TypeOK ==
  /\ config \in Configs \cup {NoConfig}
  /\ pc \in PCs
  /\ g_running \in BOOLEAN
  /\ input \in SUBSET InputEntities
  /\ output \in SUBSET OutputEntities
  /\ history \in Slot
  /\ statusTrig \in BOOLEAN
  /\ active \in SUBSET {"readcond", "statuscond"}
  /\ hand \in Slot
  /\ match \in SUBSET Clients
  /\ ownMatch \in BOOLEAN
  /\ wire \in [Clients -> Nat]
  /\ echo \in Slot
  /\ result \in BOOLEAN
  /\ published \in [Clients -> Nat]
  /\ out \in Seq([from : Clients, seq : Nat])
  /\ lost \in [Clients -> SUBSET Nat]
  /\ failed \in BOOLEAN

Init ==
  /\ config = NoConfig
  /\ pc = "start"
  /\ g_running = TRUE
  /\ input = {} /\ output = {}
  /\ history = Empty /\ hand = Empty /\ echo = Empty
  /\ statusTrig = FALSE
  /\ active = {}
  /\ match = {} /\ ownMatch = FALSE
  /\ wire = [c \in Clients |-> 0]
  /\ result = FALSE
  /\ published = [c \in Clients |-> 0]
  /\ out = <<>>
  /\ lost = [c \in Clients |-> {}]
  /\ failed = FALSE

\* lost, once the reports in the given slots are given up as well.
GiveUp(slots) ==
  [c \in Clients |-> lost[c] \cup {s.seq : s \in {t \in slots : t.kind = "report" /\ t.from = c}}]

InFlight(c) == IF wire[c] = 0 THEN {} ELSE {ReportSample(c, wire[c])}

\* The reader, its matches and everything unread in it cease to exist.
DropReader ==
  /\ lost' = GiveUp({history, hand} \cup UNION {InFlight(c) : c \in Clients})
  /\ history' = Empty /\ hand' = Empty /\ echo' = Empty
  /\ wire' = [c \in Clients |-> 0]
  /\ match' = {} /\ ownMatch' = FALSE
  /\ statusTrig' = FALSE
  /\ active' = {}
  /\ UNCHANGED <<published, out>>

------------------------------------------------------------------------------
(* The main thread.                                                        *)

\* Main::configure, ManagerState::config.
Configure ==
  /\ pc = "start"
  /\ \E in \in Domains, dest \in Domains, topic_override \in Overrides :
       config' = [input_domain |-> in, output_domain |-> dest,
                  in_name |-> IF topic_override = "" THEN DET_TOPIC_PRIMARY
                                                     ELSE topic_override,
                  out_name |-> DET_TOPIC_LEGACY]
  /\ pc' = "configured"
  /\ UNCHANGED <<g_running, input, output, active, hand, result, failed, network, ghosts>>

\* run calls createInputEntities: the first k creations succeed, and the next
\* one fails unless there is none (the wait set cannot fail to be created).
CreateInputEntities ==
  /\ pc = "configured"
  /\ \E k \in {0, 1, 3, 4, 5, 6} :
       /\ input' = FirstOf(InputOrder, k)
       /\ pc' = IF k = 6 THEN "await" ELSE "fail"
       /\ failed' = (k # 6)
  /\ UNCHANGED <<config, g_running, output, active, hand, result, network, ghosts>>

\* Mutant: waitForAnyPublisher loops until there is a publisher, told to stop or not.
AwaitRegardless ==
  /\ pc = "await" /\ ~g_running
  /\ pc' = IF match # {} THEN "createOutput" ELSE "await"
  /\ UNCHANGED <<config, g_running, input, output, active, hand, result, failed, network, ghosts>>

\* waitForAnyPublisher: the loop condition is read first, so a stop request
\* wins over a publisher that is there already.
AwaitStopped ==
  /\ pc = "await" /\ ~g_running
  /\ pc' = "fail"
  /\ UNCHANGED <<config, g_running, input, output, active, hand, result, failed, network, ghosts>>

\* ... otherwise get_subscription_matched_status, which resets the status; a round in
\* which the call fails changes nothing, and is a stuttering step.
PollPublishers ==
  /\ pc = "await" /\ g_running
  /\ pc' = IF match # {} THEN "createOutput" ELSE "await"
  /\ statusTrig' = FALSE
  /\ UNCHANGED <<config, g_running, input, output, active, hand, result, failed,
                 history, match, ownMatch, wire, echo, ghosts>>

CreateOutputEntities ==
  /\ pc = "createOutput"
  /\ \E k \in 0..4 :
       /\ output' = FirstOf(OutputOrder, k)
       /\ pc' = IF k = 4 THEN "loop" ELSE "fail"
       /\ failed' = (k # 4)
  /\ UNCHANGED <<config, g_running, input, active, hand, result, network, ghosts>>

\* bridgeLoop: while (g_running.load()) { active.clear(); ...
LoopHead ==
  /\ pc = "loop"
  /\ pc' = IF g_running THEN "wait" ELSE "shutdown"
  /\ active' = {}
  /\ UNCHANGED <<config, g_running, input, output, hand, result, failed, network, ghosts>>

\* Mutant: the read condition is not attached to the wait set.
TriggeredByStatus == {c \in {"statuscond"} : statusTrig}

Triggered == {c \in {"readcond", "statuscond"} :
                \/ c = "readcond" /\ history # Empty
                \/ c = "statuscond" /\ statusTrig}

WaitReturns ==
  /\ pc = "wait" /\ Triggered # {}
  /\ active' = Triggered
  /\ pc' = "dispatch"
  /\ UNCHANGED <<config, g_running, input, output, hand, result, failed, network, ghosts>>

\* Mutant: a wait that does not return OK ends the loop.
WaitTimeoutBreaks ==
  /\ pc = "wait" /\ Triggered = {}
  /\ pc' = "shutdown"
  /\ UNCHANGED <<config, g_running, input, output, active, hand, result, failed, network, ghosts>>

\* 500 ms without a trigger: wait does not return OK, continue.
WaitTimesOut ==
  /\ pc = "wait" /\ Triggered = {}
  /\ pc' = "loop"
  /\ UNCHANGED <<config, g_running, input, output, active, hand, result, failed, network, ghosts>>

\* for (auto* condition : active): the order in which wait lists them is not known.
DispatchRead ==
  /\ pc = "dispatch" /\ "readcond" \in active
  /\ active' = active \ {"readcond"}
  /\ pc' = "take"
  /\ UNCHANGED <<config, g_running, input, output, hand, result, failed, network, ghosts>>

\* get_subscription_matched_status does not return OK: the status stays set.
StatusNotRead ==
  /\ pc = "dispatch" /\ "statuscond" \in active
  /\ active' = active \ {"statuscond"}
  /\ UNCHANGED <<config, pc, g_running, input, output, hand, result, failed, network, ghosts>>

\* It does, and resets the status.
DispatchStatus ==
  /\ pc = "dispatch" /\ "statuscond" \in active
  /\ active' = active \ {"statuscond"}
  /\ statusTrig' = FALSE
  /\ UNCHANGED <<config, pc, g_running, input, output, hand, result, failed,
                 history, match, ownMatch, wire, echo, ghosts>>

DispatchDone ==
  /\ pc = "dispatch" /\ active = {}
  /\ pc' = "loop"
  /\ UNCHANGED <<config, g_running, input, output, active, hand, result, failed, network, ghosts>>

\* Mutants: the test of the publication handle is missing, or skips everything
\* that comes over a shared channel.
OwnSampleNever(s) == FALSE
OwnSampleByChannel(s) == SameChannel
\* info.publication_handle == topic.writer_handle
OwnSample(s) == s.kind = "echo"

\* Mutant: info.valid_data is not looked at.
SkippedOwnOnly(s) == OwnSample(s)
\* What bridgeLoop takes and passes over.
Skipped(s) == s = Invalid \/ OwnSample(s)

\* Mutant: read_next_sample, which leaves the sample in the reader.
ReadSample ==
  /\ pc = "take" /\ history # Empty
  /\ IF Skipped(history)
       THEN history' = Empty /\ UNCHANGED <<pc, hand>>
       ELSE pc' = "forward" /\ hand' = history /\ UNCHANGED history
  /\ UNCHANGED <<config, g_running, input, output, active, result, failed,
                 statusTrig, match, ownMatch, wire, echo, ghosts>>

\* take_next_sample returned a sample: without valid data, or the manager's
\* own, it is skipped; any other one is written next.
TakeSample ==
  /\ pc = "take" /\ history # Empty
  /\ history' = Empty
  /\ IF Skipped(history)
       THEN UNCHANGED <<pc, hand>>
       ELSE pc' = "forward" /\ hand' = history
  /\ UNCHANGED <<config, g_running, input, output, active, result, failed,
                 statusTrig, match, ownMatch, wire, echo, ghosts>>

\* take_next_sample found nothing: only this ends the inner loop.
TakeNothing ==
  /\ pc = "take" /\ history = Empty
  /\ pc' = "dispatch"
  /\ UNCHANGED <<config, g_running, input, output, active, hand, result, failed, network, ghosts>>

\* The own writer's history keeps one sample for the own reader.
WriteOk ==
  /\ pc = "forward"
  /\ out' = Append(out, [from |-> hand.from, seq |-> hand.seq])
  /\ echo' = IF ownMatch THEN EchoSample(hand.from, hand.seq) ELSE echo
  /\ hand' = Empty
  /\ pc' = "take"
  /\ UNCHANGED <<config, g_running, input, output, active, result, failed,
                 history, statusTrig, match, ownMatch, wire, published, lost>>

\* A write that fails is logged, and the report is not tried again.
WriteFails ==
  /\ pc = "forward"
  /\ lost' = GiveUp({hand})
  /\ hand' = Empty
  /\ pc' = "take"
  /\ UNCHANGED <<config, g_running, input, output, active, result, failed, network, published, out>>

\* Mutant: the output participant is forgotten.
CleanupInput == input' = {} /\ UNCHANGED output /\ DropReader

\* cleanup(): whatever exists is deleted.
Cleanup ==
  /\ input' = {} /\ output' = {}
  /\ DropReader

\* run: cleanup(); return false;
FailAndReturn ==
  /\ pc = "fail"
  /\ Cleanup
  /\ result' = FALSE
  /\ pc' = "returned"
  /\ UNCHANGED <<config, g_running, failed>>

\* run, after bridgeLoop: cleanup(); return !g_running.load();
ShutDownAndReturn ==
  /\ pc = "shutdown"
  /\ Cleanup
  /\ result' = ~g_running
  /\ pc' = "returned"
  /\ UNCHANGED <<config, g_running, failed>>

MainThread ==
  \/ Configure \/ CreateInputEntities \/ AwaitStopped \/ PollPublishers
  \/ CreateOutputEntities \/ LoopHead \/ WaitReturns \/ WaitTimesOut
  \/ DispatchRead \/ DispatchStatus \/ StatusNotRead \/ DispatchDone
  \/ TakeSample \/ TakeNothing \/ WriteOk \/ WriteFails \/ FailAndReturn \/ ShutDownAndReturn

------------------------------------------------------------------------------
(* Everybody else.                                                         *)

\* Main::stop, ManagerState::stop: any time while the process lives.
Stop ==
  /\ pc \notin {"returned", "crashed"}
  /\ g_running' = FALSE
  /\ UNCHANGED <<config, pc, input, output, active, hand, result, failed, network, ghosts>>

\* The process dies: its entities go with it.
Crash ==
  /\ pc \notin Outside
  /\ pc' = "crashed"
  /\ input' = {} /\ output' = {}
  /\ DropReader
  /\ UNCHANGED <<config, g_running, result, failed>>

\* restart: unless-stopped.  A new process: members as constructed.
Restart ==
  /\ pc \in {"returned", "crashed"}
  /\ pc' = "start"
  /\ config' = NoConfig
  /\ g_running' = TRUE
  /\ failed' = FALSE
  /\ result' = FALSE
  /\ UNCHANGED <<input, output, active, hand, network, ghosts>>

ReaderUp == "reader" \in input

\* Discovery of a client's writer by the input reader, and its departure.
MatchClient(c) ==
  /\ ReaderUp /\ c \notin match
  /\ match' = match \cup {c}
  /\ statusTrig' = TRUE
  /\ UNCHANGED <<thread, history, ownMatch, wire, echo, ghosts>>

UnmatchClient(c) ==
  /\ ReaderUp /\ c \in match
  /\ match' = match \ {c}
  /\ statusTrig' = TRUE
  /\ lost' = GiveUp(InFlight(c))
  /\ wire' = [wire EXCEPT ![c] = 0]
  /\ UNCHANGED <<thread, history, ownMatch, echo, published, out>>

\* Discovery of the manager's own writer by its own reader.
MatchOwn ==
  /\ ReaderUp /\ "writer" \in output /\ SameChannel /\ ~ownMatch
  /\ ownMatch' = TRUE
  /\ statusTrig' = TRUE
  /\ UNCHANGED <<thread, history, match, wire, echo, ghosts>>

\* A client writes its next report: it replaces the one its writer still
\* holds, and is for nobody when there is no match (readers are VOLATILE).
Publish(c) ==
  /\ published[c] < MaxReports
  /\ published' = [published EXCEPT ![c] = @ + 1]
  /\ IF c \in match
       THEN /\ wire' = [wire EXCEPT ![c] = published[c] + 1]
            /\ lost' = GiveUp(InFlight(c))
       ELSE /\ lost' = GiveUp({ReportSample(c, published[c] + 1)})
            /\ UNCHANGED wire
  /\ UNCHANGED <<thread, history, statusTrig, match, ownMatch, echo, out>>

\* The sample s reaches the reader's history, in place of the one in it.
Arrive(s) == /\ history' = s
             /\ lost' = GiveUp({history})

Deliver(c) ==
  /\ wire[c] # 0
  /\ Arrive(ReportSample(c, wire[c]))
  /\ wire' = [wire EXCEPT ![c] = 0]
  /\ UNCHANGED <<thread, statusTrig, match, ownMatch, echo, published, out>>

DeliverEcho ==
  /\ echo # Empty
  /\ Arrive(echo)
  /\ echo' = Empty
  /\ UNCHANGED <<thread, statusTrig, match, ownMatch, wire, published, out>>

\* A sample without valid data (a writer's change of state), into a free slot.
InvalidArrives ==
  /\ ReaderUp /\ history = Empty
  /\ history' = Invalid
  /\ UNCHANGED <<thread, statusTrig, match, ownMatch, wire, echo, ghosts>>

Environment ==
  \/ Stop \/ Crash \/ Restart \/ MatchOwn \/ DeliverEcho \/ InvalidArrives
  \/ \E c \in Clients : MatchClient(c) \/ UnmatchClient(c) \/ Publish(c) \/ Deliver(c)

Next == MainThread \/ Environment

(* Fairness: the main thread is scheduled, every call it makes returns, and *)
(* Fast DDS delivers what it accepted.  SF of TakeNothing says that         *)
(* publishers leave gaps: the inner loop looks at nothing but the reader,   *)
(* so against an endless stream of samples it would never return.  SF of    *)
(* DispatchStatus says that a status that is read again and again is read   *)
(* with RETCODE_OK at some time.                                            *)
Fairness == /\ WF_vars(MainThread)
            /\ SF_vars(TakeNothing)
            /\ SF_vars(DispatchStatus)
            /\ WF_vars(DeliverEcho)
            /\ \A c \in Clients : WF_vars(Deliver(c))

Spec == Init /\ [][Next]_vars
FairSpec == Spec /\ Fairness

------------------------------------------------------------------------------
(* Properties.                                                             *)

\* How a report of c with number n may stand, each way at most once:
\* still on its way (in the client's writer, in the manager's reader, in
\* bridgeLoop's sample), forwarded, or given up.
Places(c, n) == {p \in {"wire", "history", "hand", "out", "lost"} :
                   \/ p = "wire" /\ wire[c] = n
                   \/ p = "history" /\ history = ReportSample(c, n)
                   \/ p = "hand" /\ hand = ReportSample(c, n)
                   \/ p = "out" /\ \E i \in 1..Len(out) : out[i] = [from |-> c, seq |-> n]
                   \/ p = "lost" /\ n \in lost[c]}

\* Every published report is in exactly one place: the manager neither drops
\* one without a cause (an overwritten slot, a failed write, the end of the
\* reader) nor handles one twice.  bridgeLoop, ManagerState.cpp:283-312.
Accounted == \A c \in Clients : \A n \in 1..published[c] : Cardinality(Places(c, n)) = 1

\* Report n of c is published and newer than every report of c forwarded so far.
Ahead(c, n) == /\ n \in 1..published[c]
               /\ \A i \in 1..Len(out) : out[i].from = c => out[i].seq < n

\* If slot s holds a report of c, n is newer.
Behind(s, c, n) == s.kind = "report" /\ s.from = c => s.seq < n

\* On the way of one client's reports from its writer through the reader and
\* the local sample to the output, each station holds a strictly newer report
\* than the next: no step overtakes, and none leaves a copy behind.  The own
\* writer's samples never pass for a client's.
PipelineOrder ==
  /\ \A i \in 1..Len(out) : out[i].seq \in 1..published[out[i].from]
  /\ hand.kind = "report" => Ahead(hand.from, hand.seq)
  /\ history.kind = "report" => /\ Ahead(history.from, history.seq)
                                /\ Behind(hand, history.from, history.seq)
  /\ \A c \in Clients : wire[c] # 0 => /\ Ahead(c, wire[c])
                                       /\ Behind(hand, c, wire[c])
                                       /\ Behind(history, c, wire[c])
  /\ echo.kind # "report"

\* Whichever way run ends, and when the process is not in run at all, nothing
\* it created is left; what a step of run uses exists while it uses it: the
\* reader and its conditions from waitForAnyPublisher on, the writer as well in
\* bridgeLoop.  cleanup, ManagerState.cpp:51-76 and 230-245.
Lifecycle == /\ pc \in Outside \cup {"configured"} => input = {} /\ output = {}
             /\ pc \in Bridging \cup {"await", "createOutput"} => input = InputEntities
             /\ pc \in Bridging => output = OutputEntities

\* run returns only because it was told to stop or could not create an entity,
\* and true only in the first case.  ManagerState.cpp:51-76.
ExitHasCause == pc = "returned" => /\ failed \/ ~g_running
                                   /\ result => ~failed /\ ~g_running

\* ManagerState.cpp:74: "return true when shutdown was requested (graceful
\* stop), false on unexpected failure".
GracefulStopReturnsTrue == pc = "returned" /\ ~failed => result

\* The promise of ReportRelay, whatever the channel, crashes and restarts
\* included: nothing made up, nothing twice, no client's reports reordered;
\* a manager that reads its own output does not feed on it.
Relay == INSTANCE ReportRelay WITH relayed <- out
RelaySpec == Relay!Spec

\* A stop request ends the process from wherever it is.
StopTerminates == (pc # "returned" /\ ~g_running) ~> (pc \in {"returned", "crashed"})

\* A change of the matched publishers is read, so that it does not keep the
\* wait set awake for ever.  bridgeLoop, ManagerState.cpp:313-321.
StatusIsRead == (pc \in Bridging /\ statusTrig) ~> ~statusTrig

\* What a client has on its way to a bridging manager is forwarded, or is
\* given up for one of the causes in Accounted: it is never left lying in
\* the reader.
ReportIsDecided ==
  \A c \in Clients : \A n \in 1..MaxReports :
    (pc \in Bridging /\ wire[c] = n) ~>
       (n \in lost[c] \/ \E i \in 1..Len(out) : out[i] = [from |-> c, seq |-> n])
==============================================================================
