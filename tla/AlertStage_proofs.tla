-------------------------- MODULE AlertStage_proofs --------------------------
(***************************************************************************)
(* Proofs about AlertStage, for any topics and any number of sinks,        *)
(* handlers and findings: the types and all invariants that hold.          *)
(***************************************************************************)
EXTENDS AlertStage, TLAPS, FiniteSetTheorems

\* The types, with the bounds on lengths stated apart.
Types ==
  /\ config \in Seq(SinkConfig) /\ Len(config) <= MaxSinks
  /\ sinks \in Seq(Sink) /\ Len(sinks) <= MaxSinks
  /\ handlers \in 0..MaxHandlers
  /\ running_ \in BOOLEAN /\ ok \in BOOLEAN
  /\ run \in {"new", "configured", "idle", "sinks", "handlers", "failed"}
  /\ next \in 1..MaxSinks + MaxHandlers + 1
  /\ finding \in 1..MaxFindings + 1 /\ findings \in 0..MaxFindings
  /\ ctl \in {"off", "stopping", "stopped", "done"}
  /\ stopNext \in 1..MaxSinks + 1
  /\ reached \in SUBSET (Topics \cup {"DetectionReport"})
  /\ tried \in SUBSET (1..MaxSinks)
  /\ handled \in SUBSET ((1..MaxFindings) \X (1..MaxHandlers))
  /\ failures \in Nat

\* Where the calls are, in the life of the stage.
Stages ==
  /\ run \in {"new", "configured"} => sinks = <<>> /\ findings = 0 /\ ctl = "off"
  /\ ctl = "done" => ~running_ /\ run \in {"idle", "failed"}

\* The outcome so far counts the failures so far.
Reported ==
  run \in {"sinks", "handlers"} \/ (run = "idle" /\ findings > 0) => (ok <=> failures = 0)

\* What a publish has called: every sink and pair before the place it is at.
Called ==
  /\ run = "sinks" => /\ next <= Len(sinks) + 1 /\ finding = 1
                      /\ tried = 1..next - 1 /\ handled = {}
  /\ run = "handlers" =>
       /\ next <= handlers + 1 /\ finding <= findings + 1
       /\ tried = 1..Len(sinks)
       /\ handled = ((1..finding - 1) \X (1..handlers)) \cup ({finding} \X (1..next - 1))
       /\ finding > findings => next = 1
  /\ run = "idle" /\ findings > 0 /\ ctl # "done" =>
       /\ tried = 1..Len(sinks)
       /\ handled = (1..findings) \X (1..handlers)

\* No disabled sink precedes an enabled one.
DisabledLast == \A i, j \in 1..Len(config) : i < j /\ config[j].enabled => config[i].enabled

TopicsBefore(s, n) == {s[i].cfg.topic : i \in 1..n - 1}

\* Then, while nobody stops them, the sinks have the enabled configurations and
\* are up, and a publish without failures has reached those it has called.
Routed ==
  DisabledLast /\ ctl = "off" =>
    /\ run \in {"idle", "sinks", "handlers"} =>
         /\ Wanted = TopicsBefore(sinks, Len(sinks) + 1)
         /\ \A i \in 1..Len(sinks) : sinks[i].up
    /\ run = "sinks" /\ ok => reached = TopicsBefore(sinks, next)
    /\ (run = "handlers" \/ (run = "idle" /\ findings > 0)) /\ ok => reached = Wanted

Inv == Types /\ Stages /\ Reported /\ Called /\ Routed

LEMMA Bounds == MaxSinks \in Nat /\ MaxHandlers \in Nat /\ MaxFindings \in Nat
  BY BoundsAssumption

\* The places everything starts from.
LEMMA Firsts ==
  /\ 1 \in 1..MaxSinks + MaxHandlers + 1 /\ 1 \in 1..MaxFindings + 1 /\ 1 \in 1..MaxSinks + 1
  /\ 0 \in 0..MaxHandlers /\ 0 \in 0..MaxFindings
  /\ \A S : <<>> \in Seq(S)
  /\ Len(<<>>) <= MaxSinks
  BY Bounds

\* Which sinks are called before the next one.
LEMMA OneMore ==
  ASSUME NEW s, NEW n \in Nat \ {0}
  PROVE  TopicsBefore(s, n + 1) = TopicsBefore(s, n) \cup {s[n].cfg.topic}
<1>1. 1..(n + 1) - 1 = (1..n - 1) \cup {n}
  OBVIOUS
<1> QED
  BY <1>1 DEF TopicsBefore

\* While the configurations stay, so does what follows from them.
LEMMA SameConfig ==
  ASSUME config' = config
  PROVE  Wanted' = Wanted /\ DisabledLast' = DisabledLast
  BY DEF Wanted, DisabledLast

\* What a bounded sequence is.
LEMMA BoundedSequence ==
  ASSUME NEW S, NEW n \in Nat, NEW s
  PROVE  s \in BoundedSeq(S, n) <=> s \in Seq(S) /\ Len(s) <= n
<1>1. ASSUME s \in BoundedSeq(S, n)
      PROVE  s \in Seq(S) /\ Len(s) <= n
  <2>1. PICK m \in 0..n : s \in [1..m -> S]
    BY <1>1 DEF BoundedSeq, SeqOf
  <2> QED
    BY <2>1
<1>2. ASSUME s \in Seq(S), Len(s) <= n
      PROVE  s \in BoundedSeq(S, n)
  <2>1. Len(s) \in 0..n /\ s \in [1..Len(s) -> S]
    BY <1>2
  <2> QED
    BY <2>1 DEF BoundedSeq, SeqOf
<1> QED
  BY <1>1, <1>2

LEMMA WiderSequence ==
  ASSUME NEW S, NEW T, S \subseteq T, NEW s \in Seq(S)
  PROVE  s \in Seq(T)
<1>1. Len(s) \in Nat /\ s \in [1..Len(s) -> S]
  OBVIOUS
<1>2. s \in [1..Len(s) -> T]
  BY <1>1
<1> QED
  BY <1>1, <1>2

\* There are no more enabled sinks than configurations, and they are the first
\* ones if no disabled one precedes them.
LEMMA Enabled ==
  ASSUME config \in Seq(SinkConfig)
  PROVE  /\ EnabledSinks \in Nat /\ EnabledSinks <= Len(config)
         /\ DisabledLast => {i \in 1..Len(config) : config[i].enabled} = 1..EnabledSinks
<1> DEFINE E == {i \in 1..Len(config) : config[i].enabled}
<1>1. Len(config) \in Nat /\ EnabledSinks = Cardinality(E)
  BY DEF EnabledSinks
<1>2. IsFiniteSet(1..Len(config)) /\ Cardinality(1..Len(config)) = Len(config)
  BY <1>1, FS_Interval
<1>3. IsFiniteSet(E) /\ Cardinality(E) \in Nat /\ Cardinality(E) <= Len(config)
  BY <1>2, FS_Subset, FS_CardinalityType
<1>4. ASSUME DisabledLast
      PROVE  E = 1..Cardinality(E)
  <2>1. ASSUME NEW i \in E
        PROVE  i \in 1..Cardinality(E)
    <3>1. i \in 1..Len(config) /\ i \in Nat
      BY <1>1
    <3>2. 1..i \subseteq E
      BY <1>4, <3>1, <1>1 DEF DisabledLast
    <3>3. Cardinality(1..i) = i
      BY <3>1, FS_Interval
    <3>4. Cardinality(1..i) <= Cardinality(E)
      BY <1>3, <3>2, FS_Subset
    <3> QED
      BY <1>3, <3>1, <3>3, <3>4
  <2>2. IsFiniteSet(1..Cardinality(E)) /\ Cardinality(1..Cardinality(E)) = Cardinality(E)
    BY <1>3, FS_Interval
  <2> QED
    BY <2>1, <2>2, FS_Subset
<1> QED
  BY <1>1, <1>3, <1>4

LEMMA InvInit == Init => Inv
<1> SUFFICES ASSUME Init
             PROVE  Inv
  OBVIOUS
<1>1. Types
  BY Firsts DEF Init, Types
<1>2. Stages /\ Reported /\ Called /\ Routed
  BY DEF Init, Stages, Reported, Called, Routed
<1> QED
  BY <1>1, <1>2 DEF Inv

\* Every step keeps the invariant.
LEMMA InvStep == Inv /\ [Next]_vars => Inv'
<1> SUFFICES ASSUME Inv, [Next]_vars
             PROVE  Inv'
  OBVIOUS
<1> USE Bounds DEF Inv, Types, Stages, Reported, Called, Routed, stage, history, publishing, control
<1>1. CASE Configure
  <2>1. Types'
    <3>1. config' \in Seq([enabled : BOOLEAN, topic : Topics]) /\ Len(config') <= MaxSinks
      BY <1>1, BoundedSequence DEF Configure
    <3>2. [enabled : BOOLEAN, topic : Topics] \subseteq SinkConfig
      BY DEF SinkConfig
    <3>3. config' \in Seq(SinkConfig)
      BY <3>1, <3>2, WiderSequence
    <3> QED
      BY <1>1, <3>1, <3>3 DEF Configure
  <2>2. Stages'
    BY <1>1 DEF Configure
  <2>3. Reported'
    BY <1>1 DEF Configure
  <2>4. Called'
    BY <1>1 DEF Configure
  <2>5. Routed'
    BY <1>1 DEF Configure
  <2> QED
    BY <2>1, <2>2, <2>3, <2>4, <2>5
<1>2. CASE Initialize
  <2>1. Types'
    <3>1. EnabledSinks \in Nat /\ EnabledSinks <= MaxSinks
      BY Enabled
    <3>2. \A i \in 1..EnabledSinks : Bound(i) \in SinkConfig
      <4>1. DefaultSinkConfig \in SinkConfig
        BY DEF DefaultSinkConfig, SinkConfig
      <4> QED
        BY <4>1, <3>1 DEF Bound
    <3>3. PICK upTo \in 0..EnabledSinks :
            sinks' = [i \in 1..EnabledSinks |->
                        [cfg |-> Bound(i), up |-> i <= upTo /\ Bound(i).enabled]]
      BY <1>2 DEF Initialize
    <3>4. \A i \in 1..EnabledSinks :
            [cfg |-> Bound(i), up |-> i <= upTo /\ Bound(i).enabled] \in Sink
      <4>1. \A i \in 1..EnabledSinks : (i <= upTo /\ Bound(i).enabled) \in BOOLEAN
        OBVIOUS
      <4> QED
        BY <3>2, <4>1 DEF Sink
    <3>5. sinks' \in Seq(Sink) /\ Len(sinks') = EnabledSinks
      BY <3>1, <3>3, <3>4
    <3> QED
      BY <1>2, <3>1, <3>5 DEF Initialize
  <2>2. Stages'
    BY <1>2 DEF Initialize
  <2>3. Reported'
    BY <1>2 DEF Initialize
  <2>4. Called'
    BY <1>2 DEF Initialize
  <2>5. Routed'
    <3>1. ASSUME DisabledLast, run' = "idle"
          PROVE  /\ Wanted = TopicsBefore(sinks', Len(sinks') + 1)
                 /\ \A i \in 1..Len(sinks') : sinks'[i].up
      <4>1. \A i \in 1..EnabledSinks : config[i].enabled /\ Bound(i) = config[i]
        BY <3>1, Enabled, Bounds DEF Bound
      <4>2. Len(sinks') = EnabledSinks
        BY <1>2, Enabled DEF Initialize
      <4>2a. sinks' = [i \in 1..EnabledSinks |->
                        [cfg |-> Bound(i), up |-> i <= EnabledSinks /\ Bound(i).enabled]]
        BY <1>2, <3>1 DEF Initialize
      <4>2b. \A i \in 1..EnabledSinks : i <= EnabledSinks
        BY Enabled
      <4>3. \A i \in 1..EnabledSinks : sinks'[i].cfg = config[i] /\ sinks'[i].up
        BY <4>1, <4>2a, <4>2b
      <4>4. 1..(EnabledSinks + 1) - 1 = 1..EnabledSinks
        BY Enabled
      <4>5. Wanted = {config[i].topic : i \in 1..EnabledSinks}
        BY <3>1, Enabled DEF Wanted
      <4>6. TopicsBefore(sinks', Len(sinks') + 1) = {sinks'[i].cfg.topic : i \in 1..EnabledSinks}
        <5>1. Len(sinks') + 1 = EnabledSinks + 1
          BY <4>2
        <5> QED
          BY <5>1, <4>4, Zenon DEF TopicsBefore
      <4>7. {sinks'[i].cfg.topic : i \in 1..EnabledSinks}
              = {config[i].topic : i \in 1..EnabledSinks}
        <5>1. \A i \in 1..EnabledSinks : sinks'[i].cfg.topic = config[i].topic
          BY <4>3, Zenon
        <5> HIDE DEF Inv
        <5> QED
          BY <5>1, SMT
      <4>8. \A i \in 1..Len(sinks') : sinks'[i].up
        BY <4>2, <4>3, Zenon
      <4> QED
        BY <4>5, <4>6, <4>7, <4>8, Zenon
    <3>2. /\ run = "configured" /\ run' \in {"idle", "failed"}
          /\ config' = config /\ findings' = findings /\ ctl' = ctl
      BY <1>2 DEF Initialize
    <3>3. Wanted' = Wanted /\ DisabledLast' = DisabledLast /\ findings' = 0
      BY <3>2, SameConfig
    <3>4. CASE run' = "failed"
      BY <3>3, <3>4
    <3>5. CASE run' = "idle" /\ ~DisabledLast
      BY <3>3, <3>5
    <3>6. CASE run' = "idle" /\ DisabledLast
      BY <3>1, <3>3, <3>6
    <3> QED
      BY <3>2, <3>4, <3>5, <3>6
  <2> QED
    BY <2>1, <2>2, <2>3, <2>4, <2>5
<1>3. CASE PublishRefused
  <2>1. Types'
    BY <1>3, Firsts DEF PublishRefused
  <2>2. Stages'
    BY <1>3 DEF PublishRefused
  <2>3. Reported'
    BY <1>3 DEF PublishRefused
  <2>4. Called'
    BY <1>3 DEF PublishRefused
  <2>5. Routed'
    BY <1>3, SameConfig DEF PublishRefused
  <2> QED
    BY <2>1, <2>2, <2>3, <2>4, <2>5
<1>4. CASE PublishBegins
  <2>1. Types'
    BY <1>4 DEF PublishBegins
  <2>2. Stages'
    BY <1>4 DEF PublishBegins
  <2>3. Reported'
    BY <1>4 DEF PublishBegins
  <2>4. Called'
    BY <1>4 DEF PublishBegins
  <2>5. Routed'
    <3>1. TopicsBefore(sinks, 1) = {}
      BY DEF TopicsBefore
    <3> QED
      BY <1>4, <3>1, SameConfig DEF PublishBegins
  <2> QED
    BY <2>1, <2>2, <2>3, <2>4, <2>5
<1>5. CASE SinkPublishes
  <2>1. Types'
    <3>1. next \in 1..Len(sinks) /\ next \in 1..MaxSinks /\ next' \in 1..MaxSinks + MaxHandlers + 1
      BY <1>5 DEF SinkPublishes
    <3>2. sinks[next].cfg.topic \in Topics \cup {"DetectionReport"}
      <4>1. sinks[next] \in Sink
        BY <3>1
      <4> QED
        BY <4>1 DEF Sink, SinkConfig
    <3>3. reached' \in SUBSET (Topics \cup {"DetectionReport"}) /\ tried' \in SUBSET (1..MaxSinks)
      BY <1>5, <3>1, <3>2 DEF SinkPublishes
    <3>4. ok' \in BOOLEAN /\ failures' \in Nat
      BY <1>5 DEF SinkPublishes, Outcome
    <3> QED
      BY <1>5, <3>1, <3>3, <3>4 DEF SinkPublishes
  <2>2. Stages'
    BY <1>5 DEF SinkPublishes, Outcome
  <2>3. Reported'
    BY <1>5 DEF SinkPublishes, Outcome
  <2>4. Called'
    BY <1>5 DEF SinkPublishes, Outcome
  <2>5. Routed'
    <3>1. next \in 1..Len(sinks) /\ next \in Nat \ {0}
      BY <1>5 DEF SinkPublishes
    <3>2. TopicsBefore(sinks, next') = TopicsBefore(sinks, next) \cup {sinks[next].cfg.topic}
      BY <1>5, <3>1, OneMore DEF SinkPublishes
    <3>3. ASSUME DisabledLast, ctl = "off", ok'
          PROVE  ok /\ reached' = reached \cup {sinks[next].cfg.topic}
      BY <1>5, <3>1, <3>3 DEF SinkPublishes, Outcome
    <3> QED
      BY <1>5, <3>2, <3>3, SameConfig DEF SinkPublishes
  <2> QED
    BY <2>1, <2>2, <2>3, <2>4, <2>5
<1>6. CASE SinksDone
  <2>1. Types'
    BY <1>6 DEF SinksDone
  <2>2. Stages'
    BY <1>6 DEF SinksDone
  <2>3. Reported'
    BY <1>6 DEF SinksDone
  <2>4. Called'
    BY <1>6 DEF SinksDone
  <2>5. Routed'
    <3>1. next = Len(sinks) + 1
      BY <1>6 DEF SinksDone
    <3> QED
      BY <1>6, <3>1, SameConfig DEF SinksDone
  <2> QED
    BY <2>1, <2>2, <2>3, <2>4, <2>5
<1>7. CASE HandlerHandles
  <2>1. Types'
    BY <1>7 DEF HandlerHandles, Outcome
  <2>2. Stages'
    BY <1>7 DEF HandlerHandles, Outcome
  <2>3. Reported'
    BY <1>7 DEF HandlerHandles, Outcome
  <2>4. Called'
    BY <1>7 DEF HandlerHandles, Outcome
  <2>5. Routed'
    BY <1>7, SameConfig DEF HandlerHandles, Outcome
  <2> QED
    BY <2>1, <2>2, <2>3, <2>4, <2>5
<1>8. CASE NextFinding
  <2>1. Types'
    BY <1>8 DEF NextFinding
  <2>2. Stages'
    BY <1>8 DEF NextFinding
  <2>3. Reported'
    BY <1>8 DEF NextFinding
  <2>4. Called'
    BY <1>8 DEF NextFinding
  <2>5. Routed'
    BY <1>8, SameConfig DEF NextFinding
  <2> QED
    BY <2>1, <2>2, <2>3, <2>4, <2>5
<1>9. CASE PublishReturns
  <2>1. Types'
    BY <1>9 DEF PublishReturns
  <2>2. Stages'
    BY <1>9 DEF PublishReturns
  <2>3. Reported'
    BY <1>9 DEF PublishReturns
  <2>4. Called'
    BY <1>9 DEF PublishReturns
  <2>5. Routed'
    BY <1>9, SameConfig DEF PublishReturns
  <2> QED
    BY <2>1, <2>2, <2>3, <2>4, <2>5
<1>10. CASE StopBegins
  <2>1. Types'
    BY <1>10 DEF StopBegins
  <2>2. Stages'
    BY <1>10 DEF StopBegins
  <2>3. Reported'
    BY <1>10 DEF StopBegins
  <2>4. Called'
    BY <1>10 DEF StopBegins
  <2>5. Routed'
    BY <1>10, SameConfig DEF StopBegins
  <2> QED
    BY <2>1, <2>2, <2>3, <2>4, <2>5
<1>11. CASE StopSink
  <2>1. Types'
    <3>1. sinks' \in Seq(Sink) /\ Len(sinks') = Len(sinks)
      <4>1. stopNext \in 1..Len(sinks) /\ sinks[stopNext] \in Sink
        BY <1>11 DEF StopSink
      <4>2. [sinks[stopNext] EXCEPT !.up = FALSE] \in Sink
        BY <4>1 DEF Sink
      <4> QED
        BY <1>11, <4>1, <4>2 DEF StopSink
    <3>2. stopNext' \in 1..MaxSinks + 1
      BY <1>11 DEF StopSink
    <3> QED
      BY <1>11, <3>1, <3>2 DEF StopSink
  <2>2. Stages'
    BY <1>11 DEF StopSink
  <2>3. Reported'
    BY <1>11 DEF StopSink
  <2>4. Called'
    BY <1>11 DEF StopSink
  <2>5. Routed'
    BY <1>11, SameConfig DEF StopSink
  <2> QED
    BY <2>1, <2>2, <2>3, <2>4, <2>5
<1>12. CASE StopEnds
  <2>1. Types'
    BY <1>12 DEF StopEnds
  <2>2. Stages'
    BY <1>12 DEF StopEnds
  <2>3. Reported'
    BY <1>12 DEF StopEnds
  <2>4. Called'
    BY <1>12 DEF StopEnds
  <2>5. Routed'
    BY <1>12, SameConfig DEF StopEnds
  <2> QED
    BY <2>1, <2>2, <2>3, <2>4, <2>5
<1>13. CASE Finalize
  <2>1. Types'
    BY <1>13, Firsts DEF Finalize
  <2>2. Stages'
    BY <1>13 DEF Finalize
  <2>3. Reported'
    BY <1>13 DEF Finalize
  <2>4. Called'
    BY <1>13 DEF Finalize
  <2>5. Routed'
    BY <1>13, SameConfig DEF Finalize
  <2> QED
    BY <2>1, <2>2, <2>3, <2>4, <2>5
<1>14. CASE UNCHANGED vars
  BY <1>14, SameConfig DEF vars
<1> QED
  BY <1>1, <1>2, <1>3, <1>4, <1>5, <1>6, <1>7, <1>8, <1>9, <1>10, <1>11, <1>12, <1>13, <1>14
  DEF Next

\* Types are kept for any topics and bounds.
THEOREM TypeCorrect == Spec => []TypeOK
<1>1. Inv => TypeOK
  <2>1. ASSUME Inv
        PROVE  config \in BoundedSeq(SinkConfig, MaxSinks) /\ sinks \in BoundedSeq(Sink, MaxSinks)
    BY <2>1, Bounds, BoundedSequence DEF Inv, Types
  <2> QED
    BY <2>1 DEF Inv, Types, TypeOK
<1> QED
  BY <1>1, InvInit, InvStep, PTL DEF Spec

\* Where no disabled sink precedes an enabled one, a publish that succeeds has
\* reached every sink the configuration enables: AlertResponseStage.cpp:137-141.
THEOREM RoutesWhenDisabledLastHolds == Spec => []RoutesWhenDisabledLast
<1>1. Inv => RoutesWhenDisabledLast
  BY DEF Inv, Routed, DisabledLast, RoutesWhenDisabledLast, RoutesToConfiguredSinks, Returned
<1> QED
  BY <1>1, InvInit, InvStep, PTL DEF Spec

\* Neither a failing call nor a stop keeps a finding from the sinks and handlers
\* that come after it: AlertResponseStage.cpp:70-91.
THEOREM FanOutHolds == Spec => []FanOut
<1>1. Inv => FanOut
  BY DEF Inv, Called, FanOut, Returned
<1> QED
  BY <1>1, InvInit, InvStep, PTL DEF Spec

\* publish returns false exactly if one of its calls failed:
\* AlertResponseStage.cpp:68-93.
THEOREM FailureIsReportedHolds == Spec => []FailureIsReported
<1>1. Inv => FailureIsReported
  BY DEF Inv, Reported, FailureIsReported, Returned
<1> QED
  BY <1>1, InvInit, InvStep, PTL DEF Spec
==============================================================================
