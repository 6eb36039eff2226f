---------------------------- MODULE StageRuntime ----------------------------
(***************************************************************************)
(* StageRuntime (SecurityClient/app/StageRuntime.cpp), the wrapper that    *)
(* owns a SecurityClientApp and guards it with flags of its own: its       *)
(* caller configures, initializes, runs, stops and finalizes it in any     *)
(* order and any number of times, on one thread, and any creation inside   *)
(* may fail.  Below it are the life cycles of SecurityClientApp, of the    *)
(* collectors of CollectionStage and of the sinks of AlertResponseStage,   *)
(* down to the pointers to their DDS entities.                             *)
(*                                                                         *)
(* A pointer is the participant whose entity it refers to, 0 if null; each *)
(* collector has a participant, a subscriber, a topic and a reader, each   *)
(* sink a participant, a publisher, a topic and a writer.  A call that is  *)
(* refused, or an initialize that ends because a stage does not take its   *)
(* configuration, does nothing to any of this and is left out.  So are the *)
(* response handlers, which do nothing.                                    *)
(***************************************************************************)
EXTENDS Integers, Sequences, FiniteSets

CONSTANTS
  Configs,    \* configurations: the type of each source, 0 if unsupported; each sink's enabled
  MaxCalls,   \* bound: calls of configure
  MaxInits    \* bound: calls of initialize

ASSUME ConfigsAssumption == Configs \subseteq [sources : Seq(Nat), sinks : Seq(BOOLEAN)]
ASSUME BoundsAssumption == MaxCalls \in Nat /\ MaxInits \in Nat

VARIABLES
  rtConfigured, rtInitialized,  \* members of StageRuntime
  configured_, initialized_,    \* members of SecurityClientApp
  config,        \* config_: what, and the call of configure that gave it
  launch,        \* launchOptions_: the call of configure that gave it
  collectors,    \* CollectionStage::collectors_
  sinks,         \* AlertResponseStage::alertSinks_
  alive,         \* the DDS participants that exist
  pc,            \* "idle", or where initialize is
  k, n,          \* in initialize: the collector or sink, the entity to create
  exit,          \* what run returned last
  calls, inits,  \* number of calls so far
  entered,       \* history variable: the application has been in initialize and not
                 \* been finalized since
  again          \* history variable: initialize was entered when that was so, "failed"
                 \* if it failed then, "no" if it never was

wrapper == <<rtConfigured, rtInitialized>>
app == <<configured_, initialized_>>
given == <<config, launch>>
objects == <<collectors, sinks, alive>>
counters == <<calls, inits>>
history == <<entered, again>>
vars == <<wrapper, app, given, objects, pc, k, n, exit, counters, history>>

Pointers == <<"participant", "endpoint", "topic", "access">>
Null == [participant |-> 0, endpoint |-> 0, topic |-> 0, access |-> 0]
NewCollector == [participant |-> 0, endpoint |-> 0, topic |-> 0, access |-> 0,
                 running |-> FALSE, sampleType |-> 0, readerType |-> 0]
NewSink(enabled) == [participant |-> 0, endpoint |-> 0, topic |-> 0, access |-> 0,
                     enabled |-> enabled]
NoConfig == [sources |-> <<>>, sinks |-> <<>>, call |-> 0]

Init ==
  /\ rtConfigured = FALSE /\ rtInitialized = FALSE
  /\ configured_ = FALSE /\ initialized_ = FALSE
  /\ config = NoConfig /\ launch = 0
  /\ collectors = <<>> /\ sinks = <<>> /\ alive = {}
  /\ pc = "idle" /\ k = 1 /\ n = 1 /\ exit = "none"
  /\ calls = 0 /\ inits = 0 /\ entered = FALSE /\ again = "no"

Fresh == CHOOSE p \in 1..Cardinality(alive) + 1 : p \notin alive

\* initialize returns false.
Fails ==
  /\ pc' = "idle" /\ k' = 1 /\ n' = 1
  /\ again' = IF again = "yes" THEN "failed" ELSE again

------------------------------------------------------------------------------
(* configure.                                                              *)

Given(c) == config' = [sources |-> c.sources, sinks |-> c.sinks, call |-> calls']

\* configure(options) with files that load ...
Configure(c) ==
  /\ pc = "idle" /\ calls < MaxCalls
  /\ calls' = calls + 1 /\ launch' = calls' /\ Given(c)
  /\ configured_' = TRUE /\ rtConfigured' = TRUE
  /\ UNCHANGED <<rtInitialized, initialized_, objects, pc, k, n, exit, inits, history>>

\* Mutant: the wrapper's flag survives.
ConfigureFailsQuietly ==
  /\ pc = "idle" /\ calls < MaxCalls
  /\ calls' = calls + 1 /\ launch' = calls'
  /\ UNCHANGED <<wrapper, app, config, objects, pc, k, n, exit, inits, history>>

\* ... and with files that do not: the application keeps its configuration and its
\* flag, and the new options; only the wrapper forgets.
ConfigureFails ==
  /\ pc = "idle" /\ calls < MaxCalls
  /\ calls' = calls + 1 /\ launch' = calls'
  /\ rtConfigured' = FALSE
  /\ UNCHANGED <<rtInitialized, app, config, objects, pc, k, n, exit, inits, history>>

\* configure(config, options) always succeeds.
ConfigureOverride(c) ==
  /\ pc = "idle" /\ calls < MaxCalls
  /\ calls' = calls + 1 /\ launch' = calls' /\ Given(c)
  /\ configured_' = TRUE /\ rtConfigured' = TRUE
  /\ UNCHANGED <<rtInitialized, initialized_, objects, pc, k, n, exit, inits, history>>

------------------------------------------------------------------------------
(* initialize.                                                             *)

\* The stages are configured; collectors are made only if there are none.
Initialize ==
  /\ pc = "idle" /\ rtConfigured /\ configured_ /\ inits < MaxInits
  /\ inits' = inits + 1
  /\ entered' = TRUE
  /\ again' = IF entered /\ again = "no" THEN "yes" ELSE again
  /\ collectors' = IF collectors = <<>> THEN [s \in DOMAIN config.sources |-> NewCollector]
                                        ELSE collectors
  /\ pc' = "collector" /\ k' = 1 /\ n' = 1
  /\ UNCHANGED <<wrapper, app, given, sinks, alive, exit, calls>>

\* A collector beyond the sources gets a default one, whose type is unsupported.
SourceType == IF k <= Len(config.sources) THEN config.sources[k] ELSE 0

ConfigureCollector ==
  /\ pc = "collector" /\ k <= Len(collectors)
  /\ collectors' = [collectors EXCEPT ![k].sampleType = SourceType]
  /\ IF SourceType = 0 THEN Fails ELSE pc' = "reader" /\ n' = 1 /\ UNCHANGED <<k, again>>
  /\ UNCHANGED <<wrapper, app, given, sinks, alive, exit, counters, entered>>

\* createReader: participant_ and the others are overwritten as they are made.
CreateForReader ==
  /\ pc = "reader"
  /\ alive' = IF n = 1 THEN alive \cup {Fresh} ELSE alive
  /\ collectors' =
       [collectors EXCEPT ![k] =
          IF n = 1 THEN [@ EXCEPT !.participant = Fresh]
          ELSE IF n < 4 THEN [@ EXCEPT ![Pointers[n]] = collectors[k].participant]
          ELSE [@ EXCEPT !.access = collectors[k].participant, !.running = TRUE,
                         !.readerType = collectors[k].sampleType]]
  /\ IF n = 4 THEN pc' = "collector" /\ k' = k + 1 /\ n' = 1
              ELSE n' = n + 1 /\ UNCHANGED <<pc, k>>
  /\ UNCHANGED <<wrapper, app, given, sinks, exit, counters, history>>

\* Mutant: only participant_ is reset.
ReleasedPartly(c) == [c EXCEPT !.participant = 0]

\* releaseReader: with a participant everything it contains is deleted.
Released(c) == [c EXCEPT !.participant = 0, !.endpoint = 0, !.topic = 0, !.access = 0]

\* Mutant: a later creation that fails only clears its own pointer.
ReaderFailsUnreleased ==
  /\ pc = "reader"
  /\ collectors' = [collectors EXCEPT ![k][Pointers[n]] = 0, ![k].participant = 0]
  /\ Fails
  /\ UNCHANGED <<wrapper, app, given, sinks, alive, exit, counters, entered>>

\* Without a participant the function just returns; later failures release.
ReaderFails ==
  /\ pc = "reader"
  /\ IF n = 1
       THEN /\ collectors' = [collectors EXCEPT ![k].participant = 0]
            /\ UNCHANGED alive
       ELSE /\ collectors' = [collectors EXCEPT ![k] = Released(@)]
            /\ alive' = alive \ {collectors[k].participant}
  /\ Fails
  /\ UNCHANGED <<wrapper, app, given, sinks, exit, counters, entered>>

\* addAlertSink binds the next sink to the configuration at its position.
BoundEnabled(place) == IF place <= Len(config.sinks) THEN config.sinks[place] ELSE TRUE
EnabledSinks == Cardinality({s \in DOMAIN config.sinks : config.sinks[s]})

\* All collectors are up; the analysis stage, which may fail; then a sink is added
\* for every enabled configuration, to those that are there.
AddSinks ==
  /\ pc = "collector" /\ k > Len(collectors)
  /\ sinks' = sinks \o [s \in 1..EnabledSinks |-> NewSink(BoundEnabled(Len(sinks) + s))]
  /\ pc' = "sink" /\ k' = 1 /\ n' = 1
  /\ UNCHANGED <<wrapper, app, given, collectors, alive, exit, counters, history>>

AnalysisFails ==
  /\ pc = "collector" /\ k > Len(collectors)
  /\ Fails
  /\ UNCHANGED <<wrapper, app, given, objects, exit, counters, entered>>

\* Mutant: the index runs past the end.
NextSinkAlways ==
  /\ pc = "sink"
  /\ IF k <= Len(sinks) /\ sinks[k].enabled THEN pc' = "writer" /\ UNCHANGED k
                                            ELSE k' = k + 1 /\ UNCHANGED pc
  /\ UNCHANGED <<wrapper, app, given, objects, n, exit, counters, history>>

\* A disabled sink is skipped by its own initialize.
NextSink ==
  /\ pc = "sink" /\ k <= Len(sinks)
  /\ IF sinks[k].enabled THEN pc' = "writer" /\ UNCHANGED k ELSE k' = k + 1 /\ UNCHANGED pc
  /\ UNCHANGED <<wrapper, app, given, objects, n, exit, counters, history>>

CreateForWriter ==
  /\ pc = "writer"
  /\ alive' = IF n = 1 THEN alive \cup {Fresh} ELSE alive
  /\ sinks' = [sinks EXCEPT ![k][Pointers[n]] = IF n = 1 THEN Fresh ELSE sinks[k].participant]
  /\ IF n = 4 THEN pc' = "sink" /\ k' = k + 1 /\ n' = 1
              ELSE n' = n + 1 /\ UNCHANGED <<pc, k>>
  /\ UNCHANGED <<wrapper, app, given, collectors, exit, counters, history>>

\* releaseWriter: the writer is forgotten only along with a publisher.
ReleasedSink(s) ==
  [s EXCEPT !.access = IF s.endpoint # 0 THEN 0 ELSE @,
            !.endpoint = 0, !.topic = 0, !.participant = 0]

\* Mutant: without the null tests of the members.
ReleaseAlwaysFaults(s) == s.participant = 0

\* It goes through participant_ for each of the others.
ReleaseFaults(s) == s.participant = 0 /\ (s.endpoint # 0 \/ s.topic # 0)

WriterFails ==
  /\ pc = "writer"
  /\ IF n = 1
       THEN /\ sinks' = [sinks EXCEPT ![k].participant = 0]
            /\ UNCHANGED alive
       ELSE /\ sinks' = [sinks EXCEPT ![k] = ReleasedSink([@ EXCEPT ![Pointers[n]] = 0])]
            /\ alive' = alive \ {sinks[k].participant}
  /\ Fails
  /\ UNCHANGED <<wrapper, app, given, collectors, exit, counters, entered>>

Initialized ==
  /\ pc = "sink" /\ k > Len(sinks)
  /\ initialized_' = TRUE /\ rtInitialized' = TRUE
  /\ pc' = "idle" /\ k' = 1 /\ n' = 1
  /\ UNCHANGED <<rtConfigured, configured_, given, objects, exit, counters, history>>

------------------------------------------------------------------------------
(* run, stop, finalize.                                                    *)

Polled(c) == c.running /\ c.access # 0

\* poll takes samples of the configured type from a reader made for another.
PollFaults ==
  \E c \in DOMAIN collectors :
    /\ collectors[c].sampleType \notin {0, collectors[c].readerType}
    /\ \A b \in 1..c : Polled(collectors[b])

\* One pass; analysis and publishing may fail.
Run ==
  /\ pc = "idle" /\ rtInitialized /\ initialized_
  /\ IF PollFaults THEN pc' = "fault" /\ UNCHANGED exit
     ELSE /\ \/ /\ \A c \in DOMAIN collectors : Polled(collectors[c])
                /\ exit' = "EXIT_SUCCESS"
             \/ exit' = "EXIT_FAILURE"
          /\ UNCHANGED pc
  /\ UNCHANGED <<wrapper, app, given, objects, k, n, counters, history>>

Stop ==
  /\ pc = "idle" /\ rtInitialized
  /\ collectors' = [c \in DOMAIN collectors |-> [collectors[c] EXCEPT !.running = FALSE]]
  /\ UNCHANGED <<wrapper, app, given, sinks, alive, pc, k, n, exit, counters, history>>

Owned == {collectors[c].participant : c \in DOMAIN collectors}
         \cup {sinks[s].participant : s \in DOMAIN sinks}

\* Mutant: the alert stage keeps its sinks.
FinalizeKeepsSinks ==
  /\ pc = "idle" /\ rtInitialized
  /\ collectors' = <<>> /\ alive' = alive \ Owned
  /\ sinks' = [s \in DOMAIN sinks |-> ReleasedSink(sinks[s])]
  /\ initialized_' = FALSE /\ configured_' = FALSE
  /\ rtInitialized' = FALSE /\ rtConfigured' = FALSE
  /\ entered' = FALSE
  /\ UNCHANGED <<given, pc, k, n, exit, counters, again>>

\* finalize of an initialized application: everything owned is released, unless a
\* sink faults on the way.
Finalize ==
  /\ pc = "idle" /\ rtInitialized
  /\ IF \E s \in DOMAIN sinks : ReleaseFaults(sinks[s])
       THEN pc' = "fault" /\ UNCHANGED <<wrapper, app, objects, entered>>
       ELSE /\ collectors' = <<>> /\ sinks' = <<>> /\ alive' = alive \ Owned
            /\ initialized_' = FALSE /\ configured_' = FALSE
            /\ rtInitialized' = FALSE /\ rtConfigured' = FALSE
            /\ entered' = FALSE
            /\ UNCHANGED pc
  /\ UNCHANGED <<given, k, n, exit, counters, again>>

\* finalize after an initialize that failed does not reach the application.
FinalizeWrapper ==
  /\ pc = "idle" /\ ~rtInitialized /\ rtConfigured
  /\ rtConfigured' = FALSE
  /\ UNCHANGED <<rtInitialized, app, given, objects, pc, k, n, exit, counters, history>>

Next ==
  \/ \E c \in Configs : Configure(c) \/ ConfigureOverride(c)
  \/ ConfigureFails \/ Initialize
  \/ ConfigureCollector \/ CreateForReader \/ ReaderFails \/ AddSinks \/ AnalysisFails
  \/ NextSink \/ CreateForWriter \/ WriterFails \/ Initialized
  \/ Run \/ Stop \/ Finalize \/ FinalizeWrapper

Spec == Init /\ [][Next]_vars

------------------------------------------------------------------------------
(* Properties.                                                             *)

TypeOK ==
  /\ {rtConfigured, rtInitialized, configured_, initialized_, entered} \subseteq BOOLEAN
  /\ again \in {"no", "yes", "failed"} /\ exit \in {"none", "EXIT_SUCCESS", "EXIT_FAILURE"}
  /\ pc \in {"idle", "collector", "reader", "sink", "writer", "fault"} /\ n \in 1..4
  /\ k \in 1..Len(collectors) + 1 \/ k \in 1..Len(sinks) + 1
  /\ calls \in 0..MaxCalls /\ inits \in 0..MaxInits /\ launch \in 0..calls

\* No pointer of a collector or a sink ever refers to a participant that was
\* deleted, whatever failed and however often initialize was entered.
NothingDangles ==
  /\ \A c \in DOMAIN collectors, p \in DOMAIN Null : collectors[c][p] \in alive \cup {0}
  /\ \A s \in DOMAIN sinks, p \in DOMAIN Null : sinks[s][p] \in alive \cup {0}

\* A participant nobody owns is left only by an initialize on an application that
\* had been in initialize and not been finalized (the wrapper's finalize after a
\* failed initialize does not count).  DdsCollector.cpp:136, StageRuntime.cpp:85-94.
LeakNeedsReinit == alive \subseteq Owned \/ again # "no"

\* The null participant of finalize and the reader of another type in poll need
\* such an initialize that failed.  DdsDetectionReportSink.cpp:217, DdsCollector.cpp:88-109.
FaultNeedsFailedReinit == pc = "fault" => again = "failed"

\* initialize never works with the configuration of one call of configure and the
\* options of another, although a configure that fails leaves the application
\* configured, with options of its own.  StageRuntime.cpp:23-37, SecurityClientApp.cpp:59-73.
InitializesWhatWasConfigured == pc \notin {"idle", "fault"} => config.call = launch

\* There are never more sinks than the configuration enables unless initialize was
\* repeated.  SecurityClientApp.cpp:127-142.
NoSurplusSinks == pc = "sink" => Len(sinks) = EnabledSinks \/ again # "no"
==============================================================================
