------------------------------ MODULE ClientApp ------------------------------
(***************************************************************************)
(* The security client process: Main (SecurityClient/Main.cpp) drives      *)
(* SecurityClientApp, which owns the collection stage with its collectors, *)
(* the analysis stage (of the external library libdds-ids) and the alert   *)
(* stage.  The run thread is in Main::configure, Main::start               *)
(* (SecurityClientApp::initialize, then run).  Main::stop runs on another  *)
(* thread, stops the application and finalizes it at once, with no lock    *)
(* and without waiting for run.                                            *)
(*                                                                         *)
(* A collector is followed through its own flag and reader; the alert      *)
(* stage, whose inside is AlertStage's, is one flag and whether its sinks  *)
(* exist.  A call through an object or entity that is gone, or an element  *)
(* of a vector that has moved meanwhile, is undefined: from there on       *)
(* nothing is claimed ("fault").                                           *)
(***************************************************************************)
EXTENDS Naturals

CONSTANT N  \* the configuration lists 0..N sources, one collector each

ASSUME NAssumption == N \in Nat

VARIABLES
  sources,       \* config_.collection.sources: how many
  singlePass,    \* launchOptions_.singlePass: never set by Main, but by other callers
  configured_, initialized_, running_,   \* members of SecurityClientApp
  colRunning,    \* CollectionStage::running_
  size,          \* collectors_.size()
  polling,       \* the collectors whose DdsCollector::running_ is set
  readers,       \* the collectors whose reader exists
  alertRunning,  \* AlertResponseStage::running_
  alertSinks,    \* the alert stage's sinks exist
  run,           \* the run thread's place
  i,             \* in initialize and pollOnce: the collector, counted from 1
  exit,          \* what Main::start returned
  ctl,           \* the control thread's place
  j,             \* in CollectionStage::stop and finalize: the collector ...
  end,           \* ... and the end of collectors_ when the walk began
  inTime         \* history variable: initialize had succeeded when stop began

flags == <<configured_, initialized_, running_>>
collection == <<colRunning, size, polling, readers>>
alert == <<alertRunning, alertSinks>>
runThread == <<sources, singlePass, run, i, exit>>
control == <<ctl, j, end, inTime>>
vars == <<flags, collection, alert, runThread, control>>

Starting == {"collection", "fill", "collector", "create", "analysis", "alert", "ready", "run", "start", "store"}
Loop == {"while", "pollOnce", "next", "take", "analyze", "publish", "sinks", "passed",
         "leave"}
Stopping == {"collectors", "alert"}
Finalizing == {"release", "clear", "alertRelease", "flags"}

TypeOK ==
  /\ sources \in 0..N /\ size \in 0..N /\ singlePass \in BOOLEAN
  /\ configured_ \in BOOLEAN /\ initialized_ \in BOOLEAN /\ running_ \in BOOLEAN
  /\ colRunning \in BOOLEAN /\ alertRunning \in BOOLEAN /\ alertSinks \in BOOLEAN
  /\ polling \in SUBSET (1..N) /\ readers \in SUBSET (1..N)
  /\ run \in {"new", "configured", "exited", "fault"} \cup Starting \cup Loop
  /\ i \in 1..N + 1 /\ j \in 1..N + 1 /\ end \in 0..N
  /\ exit \in {"none", "EXIT_SUCCESS", "EXIT_FAILURE"}
  /\ ctl \in {"off", "done"} \cup Stopping \cup Finalizing
  /\ inTime \in BOOLEAN

Init ==
  /\ sources = 0 /\ size = 0 /\ singlePass = FALSE
  /\ configured_ = FALSE /\ initialized_ = FALSE /\ running_ = FALSE
  /\ colRunning = FALSE /\ alertRunning = FALSE /\ alertSinks = FALSE
  /\ polling = {} /\ readers = {}
  /\ run = "new" /\ i = 1 /\ exit = "none"
  /\ ctl = "off" /\ j = 1 /\ end = 0 /\ inTime = FALSE

------------------------------------------------------------------------------
(* The run thread.                                                         *)

Exit(code) == run' = "exited" /\ exit' = code

\* Main::configure with a configuration that loads; without one the process
\* ends before anything starts.
Configure ==
  /\ run = "new"
  /\ sources' \in 0..N
  /\ singlePass' \in BOOLEAN
  /\ configured_' = TRUE
  /\ run' = "configured"
  /\ UNCHANGED <<initialized_, running_, collection, alert, i, exit, control>>

\* Main::start calls initialize, which configures the stages; only the analysis stage,
\* which is external, may refuse its configuration.
Initialize ==
  /\ run = "configured"
  /\ \/ configured_ /\ run' = "collection" /\ UNCHANGED exit
     \/ Exit("EXIT_FAILURE")
  /\ UNCHANGED <<flags, collection, alert, sources, singlePass, i, control>>

\* CollectionStage::initialize: collectors_ is empty ...
InitCollection ==
  /\ run = "collection"
  /\ i' = 1
  /\ run' = "fill"
  /\ UNCHANGED <<flags, collection, alert, sources, singlePass, exit, control>>

\* The control thread is in the middle of a walk over collectors_.
Walking == ctl \in {"collectors", "release"} /\ j <= end

\* ... and filled; a push_back may move the elements from under a walk.
Fill ==
  /\ run = "fill" /\ i <= sources
  /\ \/ size' = size + 1 /\ i' = i + 1 /\ UNCHANGED run
     \/ Walking /\ run' = "fault" /\ UNCHANGED <<size, i>>
  /\ UNCHANGED <<flags, colRunning, polling, readers, alert, sources, singlePass, exit, control>>

Filled ==
  /\ run = "fill" /\ i > sources
  /\ i' = 1
  /\ run' = "collector"
  /\ UNCHANGED <<flags, collection, alert, sources, singlePass, exit, control>>

\* for (index < collectors_.size()): a finalize that came before ends it early.
InitNext ==
  /\ run = "collector"
  /\ IF i <= size THEN run' = "create" /\ UNCHANGED colRunning
                  ELSE run' = "analysis" /\ colRunning' = TRUE
  /\ UNCHANGED <<flags, size, polling, readers, alert, sources, singlePass, i, exit, control>>

\* configure and initialize of a collector, which a finalize must not overtake:
\* the collector may be gone.
InitCollector ==
  /\ run = "create"
  /\ \/ /\ i <= size
        /\ polling' = polling \cup {i} /\ readers' = readers \cup {i}
        /\ i' = i + 1 /\ run' = "collector" /\ UNCHANGED exit
     \/ i <= size /\ Exit("EXIT_FAILURE") /\ UNCHANGED <<i, polling, readers>>
     \/ i > size /\ run' = "fault" /\ UNCHANGED <<i, exit, polling, readers>>
  /\ UNCHANGED <<flags, colRunning, size, alert, sources, singlePass, control>>

InitAnalysis ==
  /\ run = "analysis"
  /\ \/ run' = "alert" /\ UNCHANGED exit
     \/ Exit("EXIT_FAILURE")
  /\ UNCHANGED <<flags, collection, alert, sources, singlePass, i, control>>

\* The sinks are made and initialized; the stage's flag is set even if one fails.
InitAlert ==
  /\ run = "alert"
  /\ alertRunning' = TRUE /\ alertSinks' = TRUE
  /\ \/ run' = "ready" /\ UNCHANGED exit
     \/ Exit("EXIT_FAILURE")
  /\ UNCHANGED <<flags, collection, sources, singlePass, i, control>>

Initialized ==
  /\ run = "ready"
  /\ initialized_' = TRUE
  /\ run' = "run"
  /\ UNCHANGED <<configured_, running_, collection, alert, sources, singlePass, i, exit, control>>

\* run: if (!initialized_) return EXIT_FAILURE;
RunBegins ==
  /\ run = "run"
  /\ IF initialized_ THEN run' = "start" /\ UNCHANGED exit ELSE Exit("EXIT_FAILURE")
  /\ UNCHANGED <<flags, collection, alert, sources, singlePass, i, control>>

StartCollection ==
  /\ run = "start"
  /\ colRunning' = TRUE
  /\ run' = "store"
  /\ UNCHANGED <<flags, size, polling, readers, alert, sources, singlePass, i, exit, control>>

\* running_.store(true): also over the false of a stop that came before.
StoreRunning ==
  /\ run = "store"
  /\ running_' = TRUE
  /\ run' = "while"
  /\ UNCHANGED <<configured_, initialized_, collection, alert, sources, singlePass, i, exit, control>>

While ==
  /\ run = "while"
  /\ run' = IF running_ THEN "pollOnce" ELSE "leave"
  /\ UNCHANGED <<flags, collection, alert, sources, singlePass, i, exit, control>>

\* Mutant: the loop is left by break.
PassBreaks == Exit("EXIT_SUCCESS")

\* A stage call of the loop that returns false ends run.
PassFails == Exit("EXIT_FAILURE")

PollOnce ==
  /\ run = "pollOnce"
  /\ i' = 1
  /\ IF colRunning THEN run' = "next" /\ UNCHANGED exit ELSE PassFails
  /\ UNCHANGED <<flags, collection, alert, sources, singlePass, control>>

\* for (index < collectors_.size()), and DdsCollector::poll's guard.
NextCollector ==
  /\ run = "next"
  /\ IF i > size THEN run' = "analyze" /\ UNCHANGED exit
     ELSE IF i \in polling \cap readers THEN run' = "take" /\ UNCHANGED exit
     ELSE PassFails
  /\ UNCHANGED <<flags, collection, alert, sources, singlePass, i, control>>

\* take_next_sample until there is nothing more.
TakeSamples ==
  /\ run = "take"
  /\ IF i \in readers THEN i' = i + 1 /\ run' = "next"
                      ELSE run' = "fault" /\ UNCHANGED i
  /\ UNCHANGED <<flags, collection, alert, sources, singlePass, exit, control>>

\* What analyze makes of the samples: no findings, findings, or a failure.
Analyze ==
  /\ run = "analyze"
  /\ \/ run' \in {"passed", "publish"} /\ UNCHANGED exit
     \/ PassFails
  /\ UNCHANGED <<flags, collection, alert, sources, singlePass, i, control>>

\* Mutant: publish waits for the stage to run.
PublishWhenRunning ==
  /\ run = "publish" /\ alertRunning
  /\ run' = "sinks"
  /\ UNCHANGED <<flags, collection, alert, sources, singlePass, i, exit, control>>

\* AlertResponseStage::publish refuses when the stage is not running ...
Publish ==
  /\ run = "publish"
  /\ IF alertRunning THEN run' = "sinks" /\ UNCHANGED exit ELSE PassFails
  /\ UNCHANGED <<flags, collection, alert, sources, singlePass, i, control>>

\* ... and otherwise calls its sinks and handlers, some of which may fail.
CallSinks ==
  /\ run = "sinks"
  /\ \/ run' = (IF alertSinks THEN "passed" ELSE "fault") /\ UNCHANGED exit
     \/ PassFails
  /\ UNCHANGED <<flags, collection, alert, sources, singlePass, i, control>>

\* if (launchOptions_.singlePass) break; otherwise sleep and go on.
Passed ==
  /\ run = "passed"
  /\ run' = IF singlePass THEN "leave" ELSE "while"
  /\ UNCHANGED <<flags, collection, alert, sources, singlePass, i, exit, control>>

Leave ==
  /\ run = "leave"
  /\ running_' = FALSE
  /\ Exit("EXIT_SUCCESS")
  /\ UNCHANGED <<configured_, initialized_, collection, alert, sources, singlePass, i, control>>

RunThread ==
  \/ Initialize \/ InitCollection \/ Fill \/ Filled \/ InitNext \/ InitCollector \/ InitAnalysis \/ InitAlert
  \/ Initialized \/ RunBegins \/ StartCollection \/ StoreRunning \/ While \/ PollOnce \/ NextCollector
  \/ TakeSamples \/ Analyze \/ Publish \/ CallSinks \/ Passed \/ Leave

------------------------------------------------------------------------------
(* The control thread: Main::stop.                                         *)

\* SecurityClientApp::stop: running_ first.
StopBegins ==
  /\ ctl = "off" /\ run # "new"
  /\ running_' = FALSE
  /\ inTime' = initialized_
  /\ ctl' = "collectors" /\ j' = 1 /\ end' = size
  /\ UNCHANGED <<configured_, initialized_, collection, alert, runThread>>

\* Mutants: stop releases the reader as well, or goes one collector too far.
StopReleases ==
  /\ ctl = "collectors" /\ j <= end
  /\ polling' = polling \ {j} /\ readers' = readers \ {j}
  /\ j' = j + 1
  /\ UNCHANGED <<flags, colRunning, size, alert, runThread, ctl, end, inTime>>

StopOneMore ==
  /\ ctl = "collectors" /\ j <= end + 1
  /\ polling' = polling \ {j}
  /\ j' = j + 1
  /\ UNCHANGED <<flags, colRunning, size, readers, alert, runThread, ctl, end, inTime>>

\* CollectionStage::stop, DdsCollector::stop: the reader stays.
StopCollector ==
  /\ ctl = "collectors" /\ j <= end
  /\ polling' = polling \ {j}
  /\ j' = j + 1
  /\ UNCHANGED <<flags, colRunning, size, readers, alert, runThread, ctl, end, inTime>>

StopCollection ==
  /\ ctl = "collectors" /\ j > end
  /\ colRunning' = FALSE
  /\ ctl' = "alert"
  /\ UNCHANGED <<flags, size, polling, readers, alert, runThread, j, end, inTime>>

StopAlert ==
  /\ ctl = "alert"
  /\ alertRunning' = FALSE
  /\ ctl' = "release" /\ j' = 1 /\ end' = size
  /\ UNCHANGED <<flags, collection, alertSinks, runThread, inTime>>

\* Mutant: finalize keeps the reader.
KeepReader ==
  /\ ctl = "release" /\ j <= end
  /\ polling' = polling \ {j}
  /\ j' = j + 1
  /\ UNCHANGED <<flags, colRunning, size, readers, alert, runThread, ctl, end, inTime>>

\* CollectionStage::finalize, DdsCollector::finalize.
ReleaseCollector ==
  /\ ctl = "release" /\ j <= end
  /\ readers' = readers \ {j} /\ polling' = polling \ {j}
  /\ j' = j + 1
  /\ UNCHANGED <<flags, colRunning, size, alert, runThread, ctl, end, inTime>>

\* A participant is deleted while createReader is using it.
ReleaseOvertakes ==
  /\ ctl = "release" /\ j <= end
  /\ run = "create" /\ i = j
  /\ run' = "fault"
  /\ UNCHANGED <<flags, collection, alert, sources, singlePass, i, exit, control>>

ClearCollection ==
  /\ ctl = "release" /\ j > end
  /\ colRunning' = FALSE
  /\ size' = 0
  /\ ctl' = "alertRelease"
  /\ UNCHANGED <<flags, polling, readers, alert, runThread, j, end, inTime>>

FinalizeAlert ==
  /\ ctl = "alertRelease"
  /\ alertRunning' = FALSE /\ alertSinks' = FALSE
  /\ ctl' = "flags"
  /\ UNCHANGED <<flags, collection, runThread, j, end, inTime>>

FinalizeFlags ==
  /\ ctl = "flags"
  /\ configured_' = FALSE /\ initialized_' = FALSE /\ running_' = FALSE
  /\ ctl' = "done"
  /\ UNCHANGED <<collection, alert, runThread, j, end, inTime>>

Control ==
  \/ StopCollector \/ StopCollection \/ StopAlert \/ ReleaseCollector \/ ReleaseOvertakes
  \/ ClearCollection \/ FinalizeAlert \/ FinalizeFlags

Next == Configure \/ RunThread \/ StopBegins \/ Control

(* Fairness: both threads are scheduled, and the calls they make return.   *)
Spec == Init /\ [][Next]_vars /\ WF_vars(RunThread) /\ WF_vars(Control)

------------------------------------------------------------------------------
(* Properties.                                                             *)

\* EXIT_SUCCESS of a process that is to run until stopped tells that somebody
\* asked it to stop: a stage that fails by itself never looks like that.  SecurityClientApp.cpp:190-224.
SuccessMeansStopped == exit = "EXIT_SUCCESS" => ctl # "off" \/ singlePass

\* app_.stop() alone is safe at any point of run: only the finalize that
\* Main::stop makes right after it, or a walk over the collectors that began
\* before initialize was done, can pull something away under the run thread.
\* Main.cpp:98-104, CollectionStage.cpp:58-64.
FaultNeedsFinalize == run = "fault" => ctl \in Finalizing \cup {"done"} \/ ~inTime

\* Once Main::stop has returned, nothing of an application that it found
\* initialized exists any more, wherever run is.
NothingLeft == ctl = "done" /\ inTime => /\ readers = {} /\ polling = {} /\ size = 0
                                         /\ ~alertSinks /\ ~configured_ /\ ~initialized_

\* A stop that finds run in its loop ends it (or run faults under finalize).
StopEndsRun == (ctl = "collectors" /\ run \in Loop) ~> run \in {"exited", "fault"}
==============================================================================
