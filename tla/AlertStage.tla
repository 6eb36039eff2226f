----------------------------- MODULE AlertStage -----------------------------
(***************************************************************************)
(* The alert sinks and response handlers of a security client:             *)
(* SecurityClientApp::initialize makes them from the configuration,        *)
(* AlertResponseStage configures, initializes, feeds, stops and finalizes  *)
(* them.  The run thread initializes and publishes; the control thread     *)
(* (Main::stop) stops the stage and may do so in the middle of a publish.  *)
(*                                                                         *)
(* A sink is what it was configured with and whether it is up (its         *)
(* initialize succeeded with an enabled configuration, and neither stop    *)
(* nor finalize came since); how it publishes is DetectionReportSink's.    *)
(* Handlers ignore their configuration (NoopResponseHandler), so only      *)
(* their number matters.  Finalizing during a publish is in ClientApp.     *)
(***************************************************************************)
EXTENDS Naturals, Sequences, SequencesExt

CONSTANTS Topics,        \* topics a sink may be configured for
          MaxSinks,      \* the configuration lists at most so many sinks
          MaxHandlers,   \* and enables at most so many handlers
          MaxFindings    \* a publish call has at most so many findings

ASSUME BoundsAssumption == {MaxSinks, MaxHandlers, MaxFindings} \subseteq Nat

VARIABLES
  config,     \* config_.alertSinks
  sinks,      \* alertSinks_
  handlers,   \* responseHandlers_: how many
  running_,
  run,        \* the run thread's place
  next,       \* in publish: the sink or handler whose turn it is
  finding,    \* in publish: the finding the handlers are given
  findings,   \* in publish: how many there are
  ok,         \* in publish: the local ok; after it: what it returned
  ctl,        \* the control thread's place
  stopNext,   \* in stop: the sink whose turn it is
  reached,    \* history variable: topics this publish wrote to
  tried,      \* history variable: the sinks it called
  handled,    \* history variable: the <<finding, handler>> pairs it called
  failures    \* history variable: how many of these calls failed

stage == <<config, sinks, handlers, running_>>
history == <<reached, tried, handled, failures>>
publishing == <<next, finding, findings, ok, history>>
control == <<ctl, stopNext>>
vars == <<stage, run, publishing, control>>

SinkConfig == [enabled : BOOLEAN, topic : Topics \cup {"DetectionReport"}]
\* AlertSinkConfig {}
DefaultSinkConfig == [enabled |-> TRUE, topic |-> "DetectionReport"]
Sink == [cfg : SinkConfig, up : BOOLEAN]

TypeOK ==
  /\ config \in BoundedSeq(SinkConfig, MaxSinks)
  /\ sinks \in BoundedSeq(Sink, MaxSinks)
  /\ handlers \in 0..MaxHandlers
  /\ running_ \in BOOLEAN /\ ok \in BOOLEAN
  /\ run \in {"new", "configured", "idle", "sinks", "handlers", "failed"}
  /\ next \in 1..MaxSinks + MaxHandlers + 1
  /\ finding \in 1..MaxFindings + 1 /\ findings \in 0..MaxFindings
  /\ ctl \in {"off", "stopping", "stopped", "done"}
  /\ stopNext \in 1..MaxSinks + 1
  /\ reached \in SUBSET (Topics \cup {"DetectionReport"})
  /\ tried \in SUBSET (1..MaxSinks)
  /\ handled \in SUBSET ((1..MaxFindings) \X (1..MaxHandlers))
  /\ failures \in Nat

Init ==
  /\ config = <<>> /\ sinks = <<>> /\ handlers = 0
  /\ running_ = FALSE
  /\ run = "new"
  /\ next = 1 /\ finding = 1 /\ findings = 0 /\ ok = TRUE
  /\ reached = {} /\ tried = {} /\ handled = {} /\ failures = 0
  /\ ctl = "off" /\ stopNext = 1

------------------------------------------------------------------------------
(* The run thread.                                                         *)

Configure ==
  /\ run = "new"
  /\ config' \in BoundedSeq([enabled : BOOLEAN, topic : Topics], MaxSinks)
  /\ run' = "configured"
  /\ UNCHANGED <<sinks, handlers, running_, publishing, control>>

\* Mutant: the position after the new sink has been added.
BoundLate(i) == IF i < Len(config) THEN config[i + 1] ELSE DefaultSinkConfig

\* addAlertSink: the new sink takes the configuration at its own position.
Bound(i) == IF i <= Len(config) THEN config[i] ELSE DefaultSinkConfig

\* SecurityClientApp::initialize makes a sink for each configuration that is
\* enabled and hands them to addAlertSink one after the other.
EnabledSinks == Cardinality({i \in 1..Len(config) : config[i].enabled})

\* ... then AlertResponseStage::initialize: running_ first, then the sinks in
\* order until one fails.  A disabled sink initializes by doing nothing.
Initialize ==
  /\ run = "configured"
  /\ handlers' \in 0..MaxHandlers
  /\ running_' = TRUE
  /\ \E upTo \in 0..EnabledSinks :
       /\ upTo < EnabledSinks => Bound(upTo + 1).enabled
       /\ sinks' = [i \in 1..EnabledSinks |->
                      [cfg |-> Bound(i), up |-> i <= upTo /\ Bound(i).enabled]]
       /\ run' = IF upTo = EnabledSinks THEN "idle" ELSE "failed"
  /\ UNCHANGED <<config, publishing, control>>

\* publish when stopped; run does not call it without findings.
PublishRefused ==
  /\ run = "idle" /\ ~running_
  /\ ok' = FALSE
  /\ findings' = 0
  /\ reached' = {} /\ tried' = {} /\ handled' = {} /\ failures' = 0
  /\ UNCHANGED <<stage, run, next, finding, control>>

PublishBegins ==
  /\ run = "idle" /\ running_
  /\ ok' = TRUE
  /\ findings' \in 1..MaxFindings
  /\ next' = 1 /\ finding' = 1
  /\ reached' = {} /\ tried' = {} /\ handled' = {} /\ failures' = 0
  /\ run' = "sinks"
  /\ UNCHANGED <<stage, control>>

\* Mutant: only the last outcome counts.
LastOutcome(good) ==
  /\ ok' = good
  /\ failures' = IF good THEN failures ELSE failures + 1

\* The outcome of the call the publish loops are at, and on to the next.
Outcome(good) ==
  /\ ok' = (ok /\ good)
  /\ failures' = IF good THEN failures ELSE failures + 1

\* Mutant: the first failure ends the round.
SinkPublishesUntilFailure ==
  /\ run = "sinks" /\ next <= Len(sinks)
  /\ \E good \in BOOLEAN :
       /\ good \/ sinks[next].up
       /\ Outcome(good)
       /\ reached' = IF good /\ sinks[next].up THEN reached \cup {sinks[next].cfg.topic}
                                               ELSE reached
       /\ next' = IF good THEN next + 1 ELSE Len(sinks) + 1
  /\ tried' = tried \cup {next}
  /\ UNCHANGED <<stage, run, finding, findings, handled, control>>

\* A sink that is up writes the findings or fails; any other one reports
\* success for nothing.
SinkPublishes ==
  /\ run = "sinks" /\ next <= Len(sinks)
  /\ \E good \in BOOLEAN :
       /\ good \/ sinks[next].up
       /\ Outcome(good)
       /\ reached' = IF good /\ sinks[next].up THEN reached \cup {sinks[next].cfg.topic}
                                               ELSE reached
  /\ tried' = tried \cup {next}
  /\ next' = next + 1
  /\ UNCHANGED <<stage, run, finding, findings, handled, control>>

SinksDone ==
  /\ run = "sinks" /\ next > Len(sinks)
  /\ run' = "handlers"
  /\ next' = 1
  /\ UNCHANGED <<stage, finding, findings, ok, history, control>>

\* Mutant: one handler too many.
HandlerHandlesMore ==
  /\ run = "handlers" /\ finding <= findings /\ next <= handlers + 1
  /\ \E good \in BOOLEAN : Outcome(good)
  /\ handled' = handled \cup {<<finding, next>>}
  /\ next' = next + 1
  /\ UNCHANGED <<stage, run, finding, findings, reached, tried, control>>

HandlerHandles ==
  /\ run = "handlers" /\ finding <= findings /\ next <= handlers
  /\ \E good \in BOOLEAN : Outcome(good)
  /\ handled' = handled \cup {<<finding, next>>}
  /\ next' = next + 1
  /\ UNCHANGED <<stage, run, finding, findings, reached, tried, control>>

NextFinding ==
  /\ run = "handlers" /\ finding <= findings /\ next > handlers
  /\ finding' = finding + 1
  /\ next' = 1
  /\ UNCHANGED <<stage, run, findings, ok, history, control>>

PublishReturns ==
  /\ run = "handlers" /\ finding > findings
  /\ run' = "idle"
  /\ UNCHANGED <<stage, publishing, control>>

------------------------------------------------------------------------------
(* The control thread.                                                     *)

StopBegins ==
  /\ ctl = "off" /\ run \notin {"new", "configured"}
  /\ ctl' = "stopping"
  /\ UNCHANGED <<stage, run, publishing, stopNext>>

StopSink ==
  /\ ctl = "stopping" /\ stopNext <= Len(sinks)
  /\ sinks' = [sinks EXCEPT ![stopNext].up = FALSE]
  /\ stopNext' = stopNext + 1
  /\ UNCHANGED <<config, handlers, running_, run, publishing, ctl>>

StopEnds ==
  /\ ctl = "stopping" /\ stopNext > Len(sinks)
  /\ running_' = FALSE
  /\ ctl' = "stopped"
  /\ UNCHANGED <<config, sinks, handlers, run, publishing, stopNext>>

Finalize ==
  /\ ctl = "stopped" /\ run \in {"idle", "failed"}
  /\ sinks' = <<>> /\ handlers' = 0
  /\ running_' = FALSE
  /\ ctl' = "done"
  /\ UNCHANGED <<config, run, publishing, stopNext>>

Next ==
  \/ Configure \/ Initialize \/ PublishRefused \/ PublishBegins \/ SinkPublishes
  \/ SinksDone \/ HandlerHandles \/ NextFinding \/ PublishReturns
  \/ StopBegins \/ StopSink \/ StopEnds \/ Finalize

Spec == Init /\ [][Next]_vars

------------------------------------------------------------------------------
(* Properties.                                                             *)

\* A publish that was not refused has returned.
Returned == run = "idle" /\ findings > 0

Wanted == {config[i].topic : i \in {j \in 1..Len(config) : config[j].enabled}}

\* AlertResponseStage_test.cpp:147, "PublishRoutesFindingsToConfiguredSinksAndHandlers":
\* a publish that succeeds with nobody stopping it has reached the topic of
\* every sink the configuration enables.
RoutesToConfiguredSinks == Returned /\ ok /\ ctl = "off" => reached = Wanted

\* The same, where no disabled sink precedes an enabled one: then the positions
\* of sinks and configurations agree.  AlertResponseStage.cpp:137-141.
RoutesWhenDisabledLast ==
  (\A i, j \in 1..Len(config) : i < j /\ config[j].enabled => config[i].enabled)
     => RoutesToConfiguredSinks

\* One failing sink or handler keeps nothing from the others, and a stop in the
\* middle does not either: every sink is called, and every handler for every
\* finding.  AlertResponseStage.cpp:70-91.
FanOut == Returned /\ ctl # "done" => /\ tried = 1..Len(sinks)
                                      /\ handled = (1..findings) \X (1..handlers)

\* publish reports a failure exactly if one of these calls failed, however late
\* or early it was.  AlertResponseStage.cpp:68-93.
FailureIsReported == Returned => (ok <=> failures = 0)
==============================================================================
