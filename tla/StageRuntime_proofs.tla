------------------------ MODULE StageRuntime_proofs ------------------------
(***************************************************************************)
(* StageRuntime for any configurations, any number of sources, sinks and   *)
(* calls, and any creation failing: which configuration initialize works   *)
(* with, that no pointer outlives its participant, and that a leak, a      *)
(* fault or a surplus sink takes an initialize that was repeated.          *)
(***************************************************************************)
EXTENDS StageRuntime, FiniteSetTheorems, SequenceTheorems, TLAPS

------------------------------------------------------------------------------
(* The configuration and its options.                                      *)

\* The wrapper's flag stands for a configuration and options of the same call, and
\* nothing is configured while initialize works.
Inv ==
  /\ rtConfigured => config.call = launch
  /\ pc \notin {"idle", "fault"} => config.call = launch

LEMMA InvInit == Init => Inv
  BY DEF Init, Inv, NoConfig

LEMMA InvStep == Inv /\ [Next]_vars => Inv'
<1> SUFFICES ASSUME Inv, [Next]_vars
             PROVE  Inv'
  OBVIOUS
<1> USE DEF Inv
<1>1. ASSUME NEW c \in Configs, Configure(c) \/ ConfigureOverride(c)
      PROVE  Inv'
  <2>1. config'.call = launch' /\ pc' = "idle"
    BY <1>1 DEF Configure, ConfigureOverride, Given
  <2> QED
    BY <2>1
<1>2. CASE ConfigureFails
  BY <1>2 DEF ConfigureFails
<1>3. CASE Initialize
  BY <1>3 DEF Initialize, wrapper, given
<1>4. CASE \/ ConfigureCollector \/ CreateForReader \/ ReaderFails \/ AddSinks \/ AnalysisFails
           \/ NextSink \/ CreateForWriter \/ WriterFails \/ Initialized
  <2>1. UNCHANGED <<config, launch, rtConfigured>> /\ pc \notin {"idle", "fault"}
    BY <1>4 DEF ConfigureCollector, CreateForReader, ReaderFails, AddSinks, AnalysisFails,
                NextSink, CreateForWriter, WriterFails, Initialized, wrapper, given
  <2> QED
    BY <2>1
<1>5. CASE Run \/ Stop \/ Finalize \/ FinalizeWrapper
  <2>1. /\ UNCHANGED <<config, launch>> /\ pc' \in {"idle", "fault"}
        /\ rtConfigured' => rtConfigured
    BY <1>5 DEF Run, Stop, Finalize, FinalizeWrapper, wrapper, given
  <2> QED
    BY <2>1
<1>6. CASE UNCHANGED vars
  BY <1>6 DEF vars, wrapper, given
<1> QED
  BY <1>1, <1>2, <1>3, <1>4, <1>5, <1>6 DEF Next

\* initialize never mixes the configuration of one call of configure with the launch
\* options of another: StageRuntime.cpp:23-37, SecurityClientApp.cpp:59-73.
THEOREM InitializesWhatWasConfiguredHolds == Spec => []InitializesWhatWasConfigured
<1>1. Inv => InitializesWhatWasConfigured
  BY DEF Inv, InitializesWhatWasConfigured
<1> QED
  BY <1>1, InvInit, InvStep, PTL DEF Spec
------------------------------------------------------------------------------
(* Types.                                                                  *)

CollectorType == [participant : Nat, endpoint : Nat, topic : Nat, access : Nat,
                  running : BOOLEAN, sampleType : Nat, readerType : Nat]
SinkType == [participant : Nat, endpoint : Nat, topic : Nat, access : Nat,
             enabled : BOOLEAN]

\* What the members hold; participants are numbered from 1, so that 0 is nobody's.
Objects ==
  /\ config \in [sources : Seq(Nat), sinks : Seq(BOOLEAN), call : Nat]
  /\ collectors \in Seq(CollectorType)
  /\ sinks \in Seq(SinkType)
  /\ alive \in SUBSET (Nat \ {0}) /\ IsFiniteSet(alive)

\* Between its entry and its return.
Working == pc \notin {"idle", "fault"}

\* initialize walks through the collectors, then through the sinks, and through
\* the entities of one that it has begun.
Progress ==
  /\ pc \in {"collector", "reader"} => k \in 1..Len(collectors) + 1
  /\ pc = "reader" => k <= Len(collectors)
  /\ pc \in {"sink", "writer"} => k \in 1..Len(sinks) + 1
  /\ pc = "writer" => k <= Len(sinks)
  /\ ~Working => k = 1
  /\ pc \notin {"reader", "writer"} => n = 1

Shape == TypeOK /\ Objects /\ Progress

\* A participant just created is none of those that exist.
LEMMA FreshIsNew ==
  ASSUME IsFiniteSet(alive)
  PROVE  Fresh \in Nat \ {0} /\ Fresh \notin alive
<1>1. Cardinality(alive) \in Nat
  BY FS_CardinalityType
<1> DEFINE I == 1..Cardinality(alive) + 1
<1>2. IsFiniteSet(I) /\ Cardinality(I) = Cardinality(alive) + 1
  <2>1. Cardinality(alive) + 1 \in Int /\ 1 \in Int /\ ~(1 > Cardinality(alive) + 1)
    BY <1>1
  <2>2. Cardinality(I) = (Cardinality(alive) + 1) - 1 + 1 /\ IsFiniteSet(I)
    BY <2>1, FS_Interval
  <2>3. QED
    BY <1>1, <2>2
<1>3. \E p \in I : p \notin alive
  <2> SUFFICES ASSUME I \subseteq alive PROVE FALSE
    OBVIOUS
  <2>1. Cardinality(I) <= Cardinality(alive)
    BY FS_Subset
  <2> HIDE DEF I
  <2>2. QED
    BY <1>1, <1>2, <2>1
<1>4. Fresh \in I /\ Fresh \notin alive
  BY <1>3 DEF Fresh
<1>5. QED
  BY <1>1, <1>4

\* The alert stage adds a natural number of sinks, bound to flags.
LEMMA SinksGiven ==
  ASSUME Objects
  PROVE  /\ EnabledSinks \in Nat
         /\ \A place \in Nat \ {0} : BoundEnabled(place) \in BOOLEAN
<1>1. config.sinks \in Seq(BOOLEAN)
  BY DEF Objects
<1>2. Len(config.sinks) \in Nat /\ DOMAIN config.sinks = 1..Len(config.sinks)
  BY <1>1
<1>3. IsFiniteSet(DOMAIN config.sinks)
  BY <1>2, FS_Interval
<1>4. EnabledSinks \in Nat
  BY <1>3, FS_Subset, FS_CardinalityType DEF EnabledSinks
<1>5. ASSUME NEW place \in Nat \ {0} PROVE BoundEnabled(place) \in BOOLEAN
  <2>1. CASE place <= Len(config.sinks)
    <3>1. place \in 1..Len(config.sinks)
      BY <1>2, <2>1
    <3>2. config.sinks[place] \in BOOLEAN
      BY <1>1, <3>1, ElementOfSeq
    <3>3. QED
      BY <2>1, <3>2 DEF BoundEnabled
  <2>2. CASE ~(place <= Len(config.sinks))
    BY <2>2 DEF BoundEnabled
  <2>3. QED
    BY <2>1, <2>2
<1>6. QED
  BY <1>4, <1>5

\* A list with one element replaced.
LEMMA Replaced ==
  ASSUME NEW S, NEW s \in Seq(S), NEW i \in 1..Len(s), NEW e \in S
  PROVE  /\ [s EXCEPT ![i] = e] \in Seq(S)
         /\ Len([s EXCEPT ![i] = e]) = Len(s)
         /\ [s EXCEPT ![i] = e][i] = e
         /\ \A j \in 1..Len(s) : j # i => [s EXCEPT ![i] = e][j] = s[j]
BY ExceptSeq

\* A list is as long as its domain.
LEMMA SameRange == ASSUME NEW a \in Nat, NEW b \in Nat, 1..a = 1..b PROVE a = b
<1>1. Cardinality(1..a) = a /\ Cardinality(1..b) = b
  BY FS_Interval
<1>2. QED
  BY <1>1

\* The elements of the two lists are records of their types.
LEMMA Elements ==
  ASSUME Objects
  PROVE  /\ Len(collectors) \in Nat /\ DOMAIN collectors = 1..Len(collectors)
         /\ \A c \in 1..Len(collectors) : collectors[c] \in CollectorType
         /\ Len(sinks) \in Nat /\ DOMAIN sinks = 1..Len(sinks)
         /\ \A s \in 1..Len(sinks) : sinks[s] \in SinkType
BY ElementOfSeq, LenProperties DEF Objects

------------------------------------------------------------------------------
(* What the steps of initialize do to the collector or sink they are at.   *)

\* configure of a collector sets what it will read.
LEMMA ConfigureCollectorEffect ==
  ASSUME Shape, ConfigureCollector
  PROVE  /\ k \in 1..Len(collectors) /\ SourceType \in Nat
         /\ collectors' \in Seq(CollectorType) /\ Len(collectors') = Len(collectors)
         /\ collectors'[k] = [collectors[k] EXCEPT !.sampleType = SourceType]
         /\ \A c \in 1..Len(collectors) : c # k => collectors'[c] = collectors[c]
<1>1. k \in 1..Len(collectors)
  BY DEF Shape, Progress, ConfigureCollector
<1>2. SourceType \in Nat
  <2>1. config.sources \in Seq(Nat) /\ k \in Nat /\ k >= 1
    BY <1>1, Elements DEF Shape, Objects
  <2>2. QED
    BY <2>1 DEF SourceType
<1>3. collectors[k] \in CollectorType
  BY <1>1, Elements DEF Shape
<1>4. [collectors[k] EXCEPT !.sampleType = SourceType] \in CollectorType
  BY <1>2, <1>3 DEF CollectorType
<1>5. collectors' = [collectors EXCEPT ![k] = [collectors[k] EXCEPT !.sampleType = SourceType]]
  BY DEF ConfigureCollector
<1>6. collectors \in Seq(CollectorType)
  BY DEF Shape, Objects
<1>7. QED
  BY <1>1, <1>2, <1>4, <1>5, <1>6, Replaced

\* createReader makes the next entity and enters it into its own pointer.
LEMMA CreateForReaderEffect ==
  ASSUME Shape, CreateForReader
  PROVE  /\ k \in 1..Len(collectors)
         /\ collectors' \in Seq(CollectorType) /\ Len(collectors') = Len(collectors)
         /\ collectors'[k] =
              CASE n = 1 -> [collectors[k] EXCEPT !.participant = Fresh]
                [] n = 2 -> [collectors[k] EXCEPT !.endpoint = collectors[k].participant]
                [] n = 3 -> [collectors[k] EXCEPT !.topic = collectors[k].participant]
                [] n = 4 -> [collectors[k] EXCEPT !.access = collectors[k].participant,
                                                  !.running = TRUE,
                                                  !.readerType = collectors[k].sampleType]
         /\ \A c \in 1..Len(collectors) : c # k => collectors'[c] = collectors[c]
<1> DEFINE x == collectors[k]
           new == CASE n = 1 -> [x EXCEPT !.participant = Fresh]
                    [] n = 2 -> [x EXCEPT !.endpoint = x.participant]
                    [] n = 3 -> [x EXCEPT !.topic = x.participant]
                    [] n = 4 -> [x EXCEPT !.access = x.participant, !.running = TRUE,
                                          !.readerType = x.sampleType]
<1>1. k \in 1..Len(collectors) /\ n \in 1..4
  BY DEF Shape, Progress, CreateForReader, TypeOK
<1>2. x \in CollectorType
  BY <1>1, Elements DEF Shape
<1>3. n \in {1, 2, 3, 4}
  BY <1>1
<1>4. new \in CollectorType
  BY <1>2, <1>3, FreshIsNew DEF CollectorType, Shape, Objects
<1>5. collectors' = [collectors EXCEPT ![k] = new]
  <2> DEFINE made == IF n = 1 THEN [x EXCEPT !.participant = Fresh]
                     ELSE IF n < 4 THEN [x EXCEPT ![Pointers[n]] = x.participant]
                     ELSE [x EXCEPT !.access = x.participant, !.running = TRUE,
                                    !.readerType = x.sampleType]
  <2>1. collectors' = [collectors EXCEPT ![k] = made]
    BY DEF CreateForReader
  <2>2. Pointers[2] = "endpoint" /\ Pointers[3] = "topic"
    BY DEF Pointers
  <2>3. CASE n = 2
    <3>1. made = [x EXCEPT ![Pointers[2]] = x.participant]
      BY <2>3
    <3>2. made = new
      BY <2>2, <2>3, <3>1
    <3>3. QED
      BY <2>1, <3>2
  <2>4. CASE n = 3
    <3>1. made = [x EXCEPT ![Pointers[3]] = x.participant]
      BY <2>4
    <3>2. made = new
      BY <2>2, <2>4, <3>1
    <3>3. QED
      BY <2>1, <3>2
  <2>5. CASE n = 1 \/ n = 4
    <3>1. made = new
      BY <2>5
    <3>2. QED
      BY <2>1, <3>1
  <2>6. QED
    BY <1>3, <2>3, <2>4, <2>5
<1>6. collectors \in Seq(CollectorType)
  BY DEF Shape, Objects
<1> HIDE DEF new
<1>7. /\ collectors' \in Seq(CollectorType) /\ Len(collectors') = Len(collectors)
      /\ collectors'[k] = new
      /\ \A c \in 1..Len(collectors) : c # k => collectors'[c] = collectors[c]
  BY <1>1, <1>4, <1>5, <1>6, Replaced
<1>8. QED
  BY <1>1, <1>7 DEF new

\* createReader fails: everything made so far is released.
LEMMA ReaderFailsEffect ==
  ASSUME Shape, ReaderFails
  PROVE  /\ k \in 1..Len(collectors)
         /\ collectors' \in Seq(CollectorType) /\ Len(collectors') = Len(collectors)
         /\ collectors'[k] = IF n = 1 THEN [collectors[k] EXCEPT !.participant = 0]
                                      ELSE Released(collectors[k])
         /\ \A c \in 1..Len(collectors) : c # k => collectors'[c] = collectors[c]
<1> DEFINE new == IF n = 1 THEN [collectors[k] EXCEPT !.participant = 0]
                           ELSE Released(collectors[k])
<1>1. k \in 1..Len(collectors)
  BY DEF Shape, Progress, ReaderFails
<1>2. collectors[k] \in CollectorType
  BY <1>1, Elements DEF Shape
<1>3. new \in CollectorType
  BY <1>2 DEF CollectorType, Released
<1>4. collectors' = [collectors EXCEPT ![k] = new]
  BY DEF ReaderFails
<1>5. collectors \in Seq(CollectorType)
  BY DEF Shape, Objects
<1> HIDE DEF new
<1>6. QED
  BY <1>1, <1>3, <1>4, <1>5, Replaced DEF new

\* The sinks that are there stay, and new ones come behind them.
LEMMA AddSinksEffect ==
  ASSUME Shape, AddSinks
  PROVE  /\ sinks' \in Seq(SinkType) /\ Len(sinks') = Len(sinks) + EnabledSinks
         /\ Len(sinks) \in Nat /\ EnabledSinks \in Nat
         /\ \A s \in 1..Len(sinks) : sinks'[s] = sinks[s]
         /\ \A s \in 1..Len(sinks') : s > Len(sinks) => \E e \in BOOLEAN : sinks'[s] = NewSink(e)
<1> DEFINE more == [s \in 1..EnabledSinks |-> NewSink(BoundEnabled(Len(sinks) + s))]
<1>1. Len(sinks) \in Nat /\ EnabledSinks \in Nat /\ sinks \in Seq(SinkType)
  BY Elements, SinksGiven DEF Shape, Objects
<1>2. \A s \in 1..EnabledSinks : BoundEnabled(Len(sinks) + s) \in BOOLEAN
  BY <1>1, SinksGiven DEF Shape
<1>3. \A e \in BOOLEAN : NewSink(e) \in SinkType
  BY DEF NewSink, SinkType
<1>4. \A s \in 1..EnabledSinks : more[s] \in SinkType /\ \E e \in BOOLEAN : more[s] = NewSink(e)
  BY <1>2, <1>3
<1>5. more \in [1..EnabledSinks -> SinkType]
  BY <1>4
<1>6. more \in Seq(SinkType) /\ Len(more) = EnabledSinks
  <2> HIDE DEF more
  <2>1. more \in Seq(SinkType)
    BY <1>1, <1>5, SeqDef
  <2>2. DOMAIN more = 1..Len(more) /\ DOMAIN more = 1..EnabledSinks /\ Len(more) \in Nat
    BY <1>5, <2>1, LenProperties
  <2>3. QED
    BY <1>1, <2>1, <2>2, SameRange
<1>7. sinks' = sinks \o more
  BY DEF AddSinks
<1> HIDE DEF more
<1>8. /\ sinks' \in Seq(SinkType) /\ Len(sinks') = Len(sinks) + EnabledSinks
      /\ \A s \in 1..Len(sinks) + EnabledSinks :
            sinks'[s] = IF s <= Len(sinks) THEN sinks[s] ELSE more[s - Len(sinks)]
  BY <1>1, <1>6, <1>7, ConcatProperties
<1>9. QED
  BY <1>1, <1>4, <1>8

\* createWriter makes the next entity and enters it into its own pointer.
LEMMA CreateForWriterEffect ==
  ASSUME Shape, CreateForWriter
  PROVE  /\ k \in 1..Len(sinks)
         /\ sinks' \in Seq(SinkType) /\ Len(sinks') = Len(sinks)
         /\ sinks'[k] =
              CASE n = 1 -> [sinks[k] EXCEPT !.participant = Fresh]
                [] n = 2 -> [sinks[k] EXCEPT !.endpoint = sinks[k].participant]
                [] n = 3 -> [sinks[k] EXCEPT !.topic = sinks[k].participant]
                [] n = 4 -> [sinks[k] EXCEPT !.access = sinks[k].participant]
         /\ \A s \in 1..Len(sinks) : s # k => sinks'[s] = sinks[s]
<1> DEFINE x == sinks[k]
           new == CASE n = 1 -> [x EXCEPT !.participant = Fresh]
                    [] n = 2 -> [x EXCEPT !.endpoint = x.participant]
                    [] n = 3 -> [x EXCEPT !.topic = x.participant]
                    [] n = 4 -> [x EXCEPT !.access = x.participant]
<1>1. k \in 1..Len(sinks) /\ n \in 1..4
  BY DEF Shape, Progress, CreateForWriter, TypeOK
<1>2. x \in SinkType
  BY <1>1, Elements DEF Shape
<1>3. n \in {1, 2, 3, 4}
  BY <1>1
<1>4. new \in SinkType
  BY <1>2, <1>3, FreshIsNew DEF SinkType, Shape, Objects
<1>5. sinks' = [sinks EXCEPT ![k] = new]
  <2>1. sinks' = [sinks EXCEPT ![k] = [x EXCEPT ![Pointers[n]] =
                                         IF n = 1 THEN Fresh ELSE x.participant]]
    BY DEF CreateForWriter
  <2>2. /\ Pointers[1] = "participant" /\ Pointers[2] = "endpoint"
        /\ Pointers[3] = "topic" /\ Pointers[4] = "access"
    BY DEF Pointers
  <2>3. QED
    BY <1>3, <2>1, <2>2
<1>6. sinks \in Seq(SinkType)
  BY DEF Shape, Objects
<1> HIDE DEF new
<1>7. /\ sinks' \in Seq(SinkType) /\ Len(sinks') = Len(sinks)
      /\ sinks'[k] = new
      /\ \A s \in 1..Len(sinks) : s # k => sinks'[s] = sinks[s]
  BY <1>1, <1>4, <1>5, <1>6, Replaced
<1>8. QED
  BY <1>1, <1>7 DEF new

\* createWriter fails: what releaseWriter makes of the sink, by what was to be made.
LEMMA WriterFailsEffect ==
  ASSUME Shape, WriterFails
  PROVE  /\ k \in 1..Len(sinks)
         /\ sinks' \in Seq(SinkType) /\ Len(sinks') = Len(sinks)
         /\ n = 1 => sinks'[k] = [sinks[k] EXCEPT !.participant = 0]
         /\ n # 1 =>
              /\ sinks'[k].participant = 0 /\ sinks'[k].endpoint = 0 /\ sinks'[k].topic = 0
              /\ sinks'[k].access \in {0, sinks[k].access}
              /\ n # 2 /\ sinks[k].endpoint # 0 => sinks'[k].access = 0
         /\ \A s \in 1..Len(sinks) : s # k => sinks'[s] = sinks[s]
<1> DEFINE x == sinks[k]
           new == IF n = 1 THEN [x EXCEPT !.participant = 0]
                           ELSE ReleasedSink([x EXCEPT ![Pointers[n]] = 0])
<1>1. k \in 1..Len(sinks) /\ n \in 1..4
  BY DEF Shape, Progress, WriterFails, TypeOK
<1>2. x \in SinkType
  BY <1>1, Elements DEF Shape
<1>3. n \in {1, 2, 3, 4}
  BY <1>1
<1>4. /\ Pointers[1] = "participant" /\ Pointers[2] = "endpoint"
      /\ Pointers[3] = "topic" /\ Pointers[4] = "access"
  BY DEF Pointers
<1>5. /\ new \in SinkType
      /\ n = 1 => new = [x EXCEPT !.participant = 0]
      /\ n # 1 => /\ new.participant = 0 /\ new.endpoint = 0 /\ new.topic = 0
                  /\ new.access \in {0, x.access}
                  /\ n # 2 /\ x.endpoint # 0 => new.access = 0
  <2>1. CASE n = 1
    BY <1>2, <2>1 DEF SinkType
  <2>2. CASE n = 2
    BY <1>2, <1>4, <2>2 DEF SinkType, ReleasedSink
  <2>3. CASE n = 3
    BY <1>2, <1>4, <2>3 DEF SinkType, ReleasedSink
  <2>4. CASE n = 4
    BY <1>2, <1>4, <2>4 DEF SinkType, ReleasedSink
  <2>5. QED
    BY <1>3, <2>1, <2>2, <2>3, <2>4
<1>6. sinks' = [sinks EXCEPT ![k] = new]
  BY DEF WriterFails
<1>7. sinks \in Seq(SinkType)
  BY DEF Shape, Objects
<1> HIDE DEF new
<1>8. /\ sinks' \in Seq(SinkType) /\ Len(sinks') = Len(sinks)
      /\ sinks'[k] = new
      /\ \A s \in 1..Len(sinks) : s # k => sinks'[s] = sinks[s]
  BY <1>1, <1>5, <1>6, <1>7, Replaced
<1>9. QED
  BY <1>1, <1>5, <1>8

\* stop only takes the running flags away.
LEMMA StopEffect ==
  ASSUME Shape, Stop
  PROVE  /\ collectors' \in Seq(CollectorType) /\ Len(collectors') = Len(collectors)
         /\ \A c \in 1..Len(collectors) :
               collectors'[c] = [collectors[c] EXCEPT !.running = FALSE]
<1>1. Len(collectors) \in Nat /\ DOMAIN collectors = 1..Len(collectors)
  BY Elements DEF Shape
<1>2. \A c \in 1..Len(collectors) : [collectors[c] EXCEPT !.running = FALSE] \in CollectorType
  BY Elements DEF CollectorType, Shape
<1>3. collectors' = [c \in 1..Len(collectors) |-> [collectors[c] EXCEPT !.running = FALSE]]
  BY <1>1 DEF Stop
<1>4. collectors' \in [1..Len(collectors) -> CollectorType]
  BY <1>2, <1>3
<1>5. collectors' \in Seq(CollectorType)
  BY <1>1, <1>4, SeqDef
<1>6. Len(collectors') = Len(collectors)
  <2>1. DOMAIN collectors' = 1..Len(collectors') /\ Len(collectors') \in Nat
    BY <1>5, LenProperties
  <2>2. DOMAIN collectors' = 1..Len(collectors)
    BY <1>3
  <2>3. QED
    BY <1>1, <2>1, <2>2, SameRange
<1>7. QED
  BY <1>3, <1>5, <1>6

\* initialize makes a collector for each source, unless there are collectors.
LEMMA InitializeEffect ==
  ASSUME Shape, Initialize
  PROVE  /\ collectors' \in Seq(CollectorType)
         /\ collectors # <<>> => collectors' = collectors
         /\ collectors = <<>> => \A c \in 1..Len(collectors') : collectors'[c] = NewCollector
<1>1. config.sources \in Seq(Nat) /\ collectors \in Seq(CollectorType)
  BY DEF Shape, Objects
<1>2. Len(config.sources) \in Nat /\ DOMAIN config.sources = 1..Len(config.sources)
  BY <1>1
<1>3. NewCollector \in CollectorType
  BY DEF NewCollector, CollectorType
<1>4. CASE collectors = <<>>
  <2>1. collectors' = [s \in 1..Len(config.sources) |-> NewCollector]
    BY <1>2, <1>4 DEF Initialize
  <2>2. collectors' \in [1..Len(config.sources) -> CollectorType]
    BY <1>3, <2>1
  <2>3. collectors' \in Seq(CollectorType)
    BY <1>2, <2>2, SeqDef
  <2>4. DOMAIN collectors' = 1..Len(collectors') /\ DOMAIN collectors' = 1..Len(config.sources)
    BY <2>1, <2>3, LenProperties
  <2>5. QED
    BY <1>4, <2>1, <2>3, <2>4
<1>5. CASE collectors # <<>>
  BY <1>1, <1>5 DEF Initialize
<1>6. QED
  BY <1>4, <1>5

\* What is true of the position whenever initialize is not under way.
LEMMA AtRest ==
  ASSUME Objects', pc' \in {"idle", "fault"}, k' = 1, n' = 1
  PROVE  /\ k' \in 1..Len(collectors') + 1
         /\ Progress'
<1>1. Len(collectors') \in Nat
  BY LenProperties DEF Objects
<1>2. QED
  BY <1>1 DEF Progress, Working

\* The initial state is well formed.
LEMMA InitShape == Init => Shape
<1> SUFFICES ASSUME Init PROVE Shape
  OBVIOUS
<1>1. Objects
  <2>1. config \in [sources : Seq(Nat), sinks : Seq(BOOLEAN), call : Nat]
    BY DEF Init, NoConfig
  <2>2. collectors \in Seq(CollectorType) /\ sinks \in Seq(SinkType)
    BY DEF Init
  <2>3. alive \in SUBSET (Nat \ {0}) /\ IsFiniteSet(alive)
    BY FS_EmptySet DEF Init
  <2>4. QED
    BY <2>1, <2>2, <2>3 DEF Objects
<1>2. Len(collectors) = 0 /\ Len(sinks) = 0
  BY DEF Init
<1>3. Progress
  BY <1>2 DEF Init, Progress, Working
<1>4. TypeOK
  <2>1. {rtConfigured, rtInitialized, configured_, initialized_, entered} \subseteq BOOLEAN
    BY DEF Init
  <2>2. k \in 1..Len(collectors) + 1 /\ n \in 1..4
    BY <1>2 DEF Init
  <2>3. calls \in 0..MaxCalls /\ inits \in 0..MaxInits /\ launch \in 0..calls
    BY BoundsAssumption DEF Init
  <2>4. QED
    BY <2>1, <2>2, <2>3 DEF Init, TypeOK
<1>5. QED
  BY <1>1, <1>3, <1>4 DEF Shape

\* Steps of the callers between two calls, configure and run, and their failures.
LEMMA QuietObjects ==
  ASSUME Shape, UNCHANGED objects,
         config' \in [sources : Seq(Nat), sinks : Seq(BOOLEAN), call : Nat]
  PROVE  Objects'
BY DEF Shape, Objects, objects

\* configure keeps the types.
LEMMA ConfigureShape ==
  ASSUME Shape, \/ ConfigureFails
                \/ \E c \in Configs : Configure(c) \/ ConfigureOverride(c)
  PROVE  Shape'
<1>1. calls' = calls + 1 /\ calls < MaxCalls /\ launch' = calls' /\ inits' = inits
  BY DEF ConfigureFails, Configure, ConfigureOverride, counters
<1>2. calls' \in 0..MaxCalls /\ launch' \in 0..calls' /\ calls' \in Nat
  BY <1>1, BoundsAssumption DEF Shape, TypeOK
<1>3. config' \in [sources : Seq(Nat), sinks : Seq(BOOLEAN), call : Nat]
  <2>1. CASE ConfigureFails
    BY <2>1 DEF ConfigureFails, Shape, Objects
  <2>2. ASSUME NEW c \in Configs, Configure(c) \/ ConfigureOverride(c)
        PROVE  config' \in [sources : Seq(Nat), sinks : Seq(BOOLEAN), call : Nat]
    <3>1. config' = [sources |-> c.sources, sinks |-> c.sinks, call |-> calls']
      BY <2>2 DEF Configure, ConfigureOverride, Given
    <3>2. c.sources \in Seq(Nat) /\ c.sinks \in Seq(BOOLEAN)
      BY ConfigsAssumption
    <3>3. QED
      BY <1>2, <3>1, <3>2
  <2>3. QED
    BY <2>1, <2>2
<1>4. UNCHANGED <<objects, pc, k, n, exit, history>>
  BY DEF ConfigureFails, Configure, ConfigureOverride
<1>5. Objects'
  BY <1>3, <1>4, QuietObjects
<1>6. Progress'
  BY <1>4 DEF Shape, Progress, Working, objects
<1>7. /\ {rtConfigured', rtInitialized', configured_', initialized_'} \subseteq BOOLEAN
  BY DEF ConfigureFails, Configure, ConfigureOverride, app, Shape, TypeOK
<1>8. TypeOK'
  BY <1>1, <1>2, <1>4, <1>7 DEF Shape, TypeOK, objects, history
<1>9. QED
  BY <1>5, <1>6, <1>8 DEF Shape

\* The steps of initialize keep the types.
LEMMA InitializeShape ==
  ASSUME Shape, \/ Initialize \/ ConfigureCollector \/ CreateForReader \/ ReaderFails
                \/ AddSinks \/ AnalysisFails \/ NextSink \/ CreateForWriter \/ WriterFails
                \/ Initialized
  PROVE  Shape'
<1> USE DEF wrapper, app, given, objects, counters, history
<1>1. \A x : x \in alive => IsFiniteSet(alive \ {x}) /\ alive \ {x} \subseteq alive
  BY FS_RemoveElement DEF Shape, Objects
<1>2. IsFiniteSet(alive \cup {Fresh}) /\ alive \cup {Fresh} \in SUBSET (Nat \ {0})
  BY FreshIsNew, FS_AddElement DEF Shape, Objects
<1>3. \A x : IsFiniteSet(alive \ {x}) /\ alive \ {x} \in SUBSET (Nat \ {0})
  BY FS_RemoveElement DEF Shape, Objects
<1>4. /\ Len(collectors) \in Nat /\ Len(sinks) \in Nat
  BY Elements DEF Shape
<1>5. CASE Initialize
  <2>1. Objects' /\ Len(collectors') \in Nat
    BY <1>5, InitializeEffect, LenProperties DEF Shape, Objects, Initialize
  <2>2. inits' \in 0..MaxInits
    BY <1>5, BoundsAssumption DEF Initialize, Shape, TypeOK
  <2>3. k' \in 1..Len(collectors') + 1 /\ n' = 1 /\ pc' = "collector"
    BY <1>5, <2>1 DEF Initialize
  <2>4. TypeOK'
    BY <1>5, <2>2, <2>3 DEF Initialize, Shape, TypeOK
  <2>5. Progress'
    BY <2>3 DEF Progress, Working
  <2>6. QED
    BY <2>1, <2>4, <2>5 DEF Shape
<1>6. CASE ConfigureCollector
  <2>1. Objects'
    BY <1>6, ConfigureCollectorEffect DEF Shape, Objects, ConfigureCollector
  <2>2. Len(collectors') = Len(collectors) /\ k \in 1..Len(collectors)
    BY <1>6, ConfigureCollectorEffect
  <2>3. CASE SourceType = 0
    <3>1. /\ pc' = "idle" /\ k' = 1 /\ n' = 1
          /\ again' = IF again = "yes" THEN "failed" ELSE again
      BY <1>6, <2>3 DEF ConfigureCollector, Fails
    <3>2. k' \in 1..Len(collectors') + 1 /\ Progress'
      BY <2>1, <3>1, AtRest
    <3>3. TypeOK'
      BY <1>6, <3>1, <3>2 DEF ConfigureCollector, Shape, TypeOK
    <3>4. QED
      BY <2>1, <3>2, <3>3 DEF Shape
  <2>4. CASE SourceType # 0
    <3>1. pc' = "reader" /\ n' = 1 /\ k' = k /\ again' = again
      BY <1>6, <2>4 DEF ConfigureCollector
    <3>2. k' \in 1..Len(collectors') + 1 /\ k' <= Len(collectors')
      BY <1>4, <2>2, <3>1
    <3>3. Progress'
      BY <3>1, <3>2 DEF Progress, Working
    <3>4. TypeOK'
      BY <1>6, <3>1, <3>2 DEF ConfigureCollector, Shape, TypeOK
    <3>5. QED
      BY <2>1, <3>3, <3>4 DEF Shape
  <2>5. QED
    BY <2>3, <2>4
<1>7. CASE CreateForReader
  <2>1. Objects'
    <3>1. alive' = alive \cup {Fresh} \/ alive' = alive
      BY <1>7 DEF CreateForReader
    <3>2. QED
      BY <1>2, <1>7, <3>1, CreateForReaderEffect DEF Shape, Objects, CreateForReader
  <2>2. Len(collectors') = Len(collectors) /\ k \in 1..Len(collectors) /\ n \in 1..4
    BY <1>7, CreateForReaderEffect DEF Shape, TypeOK
  <2>3. \/ pc' = "collector" /\ k' = k + 1 /\ n' = 1
        \/ pc' = "reader" /\ k' = k /\ n' \in 1..4
    BY <1>7, <2>2 DEF CreateForReader
  <2>4. k' \in 1..Len(collectors') + 1 /\ (pc' = "reader" => k' <= Len(collectors'))
    BY <1>4, <2>2, <2>3
  <2>5. Progress'
    BY <2>3, <2>4 DEF Progress, Working
  <2>6. TypeOK'
    BY <1>7, <2>3, <2>4 DEF CreateForReader, Shape, TypeOK
  <2>7. QED
    BY <2>1, <2>5, <2>6 DEF Shape
<1>8. CASE ReaderFails
  <2>1. Objects'
    <3>1. alive' = alive \/ \E x : alive' = alive \ {x}
      BY <1>8 DEF ReaderFails
    <3>2. QED
      BY <1>3, <1>8, <3>1, ReaderFailsEffect DEF Shape, Objects, ReaderFails
  <2>2. /\ pc' = "idle" /\ k' = 1 /\ n' = 1
        /\ again' = IF again = "yes" THEN "failed" ELSE again
    BY <1>8 DEF ReaderFails, Fails
  <2>3. k' \in 1..Len(collectors') + 1 /\ Progress'
    BY <2>1, <2>2, AtRest
  <2>4. TypeOK'
    BY <1>8, <2>2, <2>3 DEF ReaderFails, Shape, TypeOK
  <2>5. QED
    BY <2>1, <2>3, <2>4 DEF Shape
<1>9. CASE AddSinks
  <2>1. Objects' /\ Len(sinks') \in Nat
    BY <1>9, AddSinksEffect, LenProperties DEF Shape, Objects, AddSinks
  <2>2. pc' = "sink" /\ k' = 1 /\ n' = 1
    BY <1>9 DEF AddSinks
  <2>3. k' \in 1..Len(sinks') + 1
    BY <2>1, <2>2
  <2>4. TypeOK' /\ Progress'
    BY <1>9, <2>2, <2>3 DEF AddSinks, Shape, TypeOK, Progress, Working
  <2>5. QED
    BY <2>1, <2>4 DEF Shape
<1>10. CASE AnalysisFails
  <2>1. Objects'
    BY <1>10, QuietObjects DEF AnalysisFails, Shape, Objects
  <2>2. /\ pc' = "idle" /\ k' = 1 /\ n' = 1
        /\ again' = IF again = "yes" THEN "failed" ELSE again
    BY <1>10 DEF AnalysisFails, Fails
  <2>3. k' \in 1..Len(collectors') + 1 /\ Progress'
    BY <2>1, <2>2, AtRest
  <2>4. TypeOK'
    BY <1>10, <2>2, <2>3 DEF AnalysisFails, Shape, TypeOK
  <2>5. QED
    BY <2>1, <2>3, <2>4 DEF Shape
<1>11. CASE NextSink
  <2>1. Objects' /\ Len(sinks') = Len(sinks)
    BY <1>11, QuietObjects DEF NextSink, Shape, Objects
  <2>2. /\ \/ pc' = "writer" /\ k' = k
           \/ pc' = "sink" /\ k' = k + 1
        /\ n' = n /\ pc = "sink" /\ k <= Len(sinks)
    BY <1>11 DEF NextSink
  <2>4. n = 1 /\ k \in 1..Len(sinks) + 1
    BY <2>2 DEF Shape, Progress
  <2>3. k' \in 1..Len(sinks') + 1 /\ (pc' = "writer" => k' <= Len(sinks'))
    BY <1>4, <2>1, <2>2, <2>4
  <2>5. TypeOK' /\ Progress'
    BY <1>11, <2>2, <2>3, <2>4 DEF NextSink, Shape, TypeOK, Progress, Working
  <2>6. QED
    BY <2>1, <2>5 DEF Shape
<1>12. CASE CreateForWriter
  <2>1. Objects'
    <3>1. alive' = alive \cup {Fresh} \/ alive' = alive
      BY <1>12 DEF CreateForWriter
    <3>2. QED
      BY <1>2, <1>12, <3>1, CreateForWriterEffect DEF Shape, Objects, CreateForWriter
  <2>2. Len(sinks') = Len(sinks) /\ k \in 1..Len(sinks) /\ n \in 1..4
    BY <1>12, CreateForWriterEffect DEF Shape, TypeOK
  <2>3. \/ pc' = "sink" /\ k' = k + 1 /\ n' = 1
        \/ pc' = "writer" /\ k' = k /\ n' \in 1..4
    BY <1>12, <2>2 DEF CreateForWriter
  <2>4. k' \in 1..Len(sinks') + 1 /\ (pc' = "writer" => k' <= Len(sinks'))
    BY <1>4, <2>2, <2>3
  <2>5. Progress'
    BY <2>3, <2>4 DEF Progress, Working
  <2>6. TypeOK'
    BY <1>12, <2>3, <2>4 DEF CreateForWriter, Shape, TypeOK
  <2>7. QED
    BY <2>1, <2>5, <2>6 DEF Shape
<1>13. CASE WriterFails
  <2>1. Objects'
    <3>1. alive' = alive \/ \E x : alive' = alive \ {x}
      BY <1>13 DEF WriterFails
    <3>2. IsFiniteSet(alive') /\ alive' \in SUBSET (Nat \ {0})
      BY <1>3, <3>1 DEF Shape, Objects
    <3>3. UNCHANGED <<config, collectors>> /\ sinks' \in Seq(SinkType)
      BY <1>13, WriterFailsEffect DEF WriterFails
    <3>4. QED
      BY <3>2, <3>3 DEF Shape, Objects
  <2>2. /\ pc' = "idle" /\ k' = 1 /\ n' = 1
        /\ again' = IF again = "yes" THEN "failed" ELSE again
    BY <1>13 DEF WriterFails, Fails
  <2>3. k' \in 1..Len(collectors') + 1 /\ Progress'
    BY <2>1, <2>2, AtRest
  <2>4. TypeOK'
    BY <1>13, <2>2, <2>3 DEF WriterFails, Shape, TypeOK
  <2>5. QED
    BY <2>1, <2>3, <2>4 DEF Shape
<1>14. CASE Initialized
  <2>1. Objects'
    BY <1>14, QuietObjects DEF Initialized, Shape, Objects
  <2>2. pc' = "idle" /\ k' = 1 /\ n' = 1
    BY <1>14 DEF Initialized
  <2>3. k' \in 1..Len(collectors') + 1 /\ Progress'
    BY <2>1, <2>2, AtRest
  <2>4. TypeOK'
    BY <1>14, <2>2, <2>3 DEF Initialized, Shape, TypeOK
  <2>5. QED
    BY <2>1, <2>3, <2>4 DEF Shape
<1>15. QED
  BY <1>5, <1>6, <1>7, <1>8, <1>9, <1>10, <1>11, <1>12, <1>13, <1>14

\* run, stop and finalize keep the types.
LEMMA RunShape ==
  ASSUME Shape, Run \/ Stop \/ Finalize \/ FinalizeWrapper
  PROVE  Shape'
<1> USE DEF wrapper, app, given, objects, counters, history
<1>1. /\ pc' \in {"idle", "fault"} /\ k' = 1 /\ n' = 1
      /\ exit' \in {"none", "EXIT_SUCCESS", "EXIT_FAILURE"}
      /\ {rtConfigured', rtInitialized', configured_', initialized_', entered'} \subseteq BOOLEAN
      /\ UNCHANGED <<again, calls, inits, launch, config>>
  <2>1. CASE Run
    <3>1. pc = "idle" /\ UNCHANGED <<wrapper, app, given, k, n, counters, history>>
      BY <2>1 DEF Run
    <3>2. pc' \in {"idle", "fault"} /\ exit' \in {exit, "EXIT_SUCCESS", "EXIT_FAILURE"}
      BY <2>1 DEF Run
    <3>3. k = 1 /\ n = 1
      BY <3>1 DEF Shape, Progress, Working
    <3>4. QED
      BY <3>1, <3>2, <3>3 DEF Shape, TypeOK
  <2>2. CASE Stop \/ FinalizeWrapper
    BY <2>2 DEF Stop, FinalizeWrapper, Shape, TypeOK, Progress, Working
  <2>3. CASE Finalize
    BY <2>3 DEF Finalize, Shape, TypeOK, Progress, Working
  <2>4. QED
    BY <2>1, <2>2, <2>3
<1>2. Objects'
  <2>1. CASE Run \/ FinalizeWrapper
    BY <2>1, QuietObjects DEF Run, FinalizeWrapper, Shape, Objects
  <2>2. CASE Stop
    BY <2>2, StopEffect DEF Stop, Shape, Objects
  <2>3. CASE Finalize
    <3>1. IsFiniteSet(alive \ Owned) /\ alive \ Owned \in SUBSET (Nat \ {0})
      BY FS_Subset DEF Shape, Objects
    <3>2. \/ UNCHANGED objects
          \/ collectors' = <<>> /\ sinks' = <<>> /\ alive' = alive \ Owned
      BY <2>3 DEF Finalize
    <3>3. CASE UNCHANGED objects
      BY <1>1, <3>3, QuietObjects DEF Shape, Objects
    <3>4. CASE collectors' = <<>> /\ sinks' = <<>> /\ alive' = alive \ Owned
      BY <1>1, <3>1, <3>4, EmptySeq DEF Shape, Objects
    <3>5. QED
      BY <3>2, <3>3, <3>4
  <2>4. QED
    BY <2>1, <2>2, <2>3
<1>3. k' \in 1..Len(collectors') + 1 /\ Progress'
  BY <1>1, <1>2, AtRest
<1>4. TypeOK'
  BY <1>1, <1>3 DEF Shape, TypeOK
<1>5. QED
  BY <1>2, <1>3, <1>4 DEF Shape

\* Every step keeps the types.
LEMMA NextShape == Shape /\ [Next]_vars => Shape'
<1>1. Shape /\ UNCHANGED vars => Shape'
  BY DEF Shape, TypeOK, Objects, Progress, Working, vars, wrapper, app, given, objects,
         counters, history
<1>2. QED
  BY <1>1, ConfigureShape, InitializeShape, RunShape DEF Next

\* The position in initialize never leaves the lists it walks, whichever collectors
\* and sinks are there from earlier calls: DdsCollector.cpp:130-166,
\* AlertResponseStage.cpp:21-35.
THEOREM TypeCorrect == Spec => []TypeOK
<1>1. Shape => TypeOK
  BY DEF Shape
<1>2. QED
  BY <1>1, InitShape, NextShape, PTL DEF Spec

------------------------------------------------------------------------------
(* The pointers.                                                           *)

PointsTo(x, p) == p \in {x.participant, x.endpoint, x.topic, x.access}

\* Every pointer is null or refers to a participant in a.
Live(x, a) == \A p : PointsTo(x, p) => p \in a \cup {0}

\* Nobody refers to a participant that is not there, and no two to the same one:
\* else a release would leave the other one dangling.
Apart ==
  /\ \A c \in 1..Len(collectors) : Live(collectors[c], alive)
  /\ \A s \in 1..Len(sinks) : Live(sinks[s], alive)
  /\ \A p \in alive :
       /\ \A b, c \in 1..Len(collectors) :
             PointsTo(collectors[b], p) /\ PointsTo(collectors[c], p) => b = c
       /\ \A r, s \in 1..Len(sinks) :
             PointsTo(sinks[r], p) /\ PointsTo(sinks[s], p) => r = s
       /\ \A c \in 1..Len(collectors), s \in 1..Len(sinks) :
             ~(PointsTo(collectors[c], p) /\ PointsTo(sinks[s], p))

\* While the entities of one reader or writer are made, its participant is there, and
\* a writer left from an earlier attempt is not taken for one of it.
Halfway ==
  /\ pc = "reader" /\ n > 1 => collectors[k].participant # 0
  /\ pc = "writer" /\ n > 1 => sinks[k].participant # 0
  /\ pc = "writer" /\ n > 2 => sinks[k].endpoint # 0
  /\ pc = "writer" /\ n = 2 => sinks[k].access # sinks[k].participant

\* x refers to nothing y did not refer to, but for the participants in new.
Narrows(x, y, new) == \A p : PointsTo(x, p) => p = 0 \/ PointsTo(y, p) \/ p \in new

\* A step that makes no pointer refer to more than it did, and deletes only what
\* nobody refers to any more, keeps them apart.
LEMMA MoveApart ==
  ASSUME Shape, Apart, alive' \subseteq alive,
         Len(collectors') \in Nat, Len(sinks') \in Nat,
         \A c \in 1..Len(collectors') :
            \/ c \in 1..Len(collectors) /\ Narrows(collectors'[c], collectors[c], {})
            \/ \A p : PointsTo(collectors'[c], p) => p = 0,
         \A s \in 1..Len(sinks') :
            \/ s \in 1..Len(sinks) /\ Narrows(sinks'[s], sinks[s], {})
            \/ \A p : PointsTo(sinks'[s], p) => p = 0,
         \A p \in alive \ alive' :
            /\ \A c \in 1..Len(collectors') : ~PointsTo(collectors'[c], p)
            /\ \A s \in 1..Len(sinks') : ~PointsTo(sinks'[s], p)
  PROVE  Apart'
<1>1. \A c \in 1..Len(collectors') : \A p :
         PointsTo(collectors'[c], p) =>
           p = 0 \/ (c \in 1..Len(collectors) /\ PointsTo(collectors[c], p))
  BY DEF Narrows
<1>2. \A s \in 1..Len(sinks') : \A p :
         PointsTo(sinks'[s], p) => p = 0 \/ (s \in 1..Len(sinks) /\ PointsTo(sinks[s], p))
  BY DEF Narrows
<1>3. ASSUME NEW c \in 1..Len(collectors') PROVE Live(collectors'[c], alive')
  BY <1>1 DEF Live, Apart
<1>4. ASSUME NEW s \in 1..Len(sinks') PROVE Live(sinks'[s], alive')
  BY <1>2 DEF Live, Apart
<1>5. 0 \notin alive'
  BY DEF Shape, Objects
<1>6. ASSUME NEW p \in alive'
      PROVE  /\ \A b, c \in 1..Len(collectors') :
                   PointsTo(collectors'[b], p) /\ PointsTo(collectors'[c], p) => b = c
             /\ \A r, s \in 1..Len(sinks') :
                   PointsTo(sinks'[r], p) /\ PointsTo(sinks'[s], p) => r = s
             /\ \A c \in 1..Len(collectors'), s \in 1..Len(sinks') :
                   ~(PointsTo(collectors'[c], p) /\ PointsTo(sinks'[s], p))
  BY <1>1, <1>2, <1>5 DEF Apart
<1>7. QED
  BY <1>3, <1>4, <1>6 DEF Apart, PointsTo, Live

\* The steps that make and delete no participant: pointers only go, or appear null.
LEMMA SameAliveApart ==
  ASSUME Shape, Apart, alive' = alive, Len(collectors') \in Nat, Len(sinks') \in Nat,
         \A c \in 1..Len(collectors') :
            \/ c \in 1..Len(collectors) /\ Narrows(collectors'[c], collectors[c], {})
            \/ \A p : PointsTo(collectors'[c], p) => p = 0,
         \A s \in 1..Len(sinks') :
            \/ s \in 1..Len(sinks) /\ Narrows(sinks'[s], sinks[s], {})
            \/ \A p : PointsTo(sinks'[s], p) => p = 0
  PROVE  Apart'
BY MoveApart

\* A collector that gets a participant nobody had stays apart from the others.
LEMMA NewReaderApart ==
  ASSUME Shape, Apart, NEW new, new \notin alive, new # 0, alive' = alive \cup {new},
         NEW c0 \in 1..Len(collectors), Len(collectors') = Len(collectors), sinks' = sinks,
         \A c \in 1..Len(collectors) : c # c0 => collectors'[c] = collectors[c],
         Narrows(collectors'[c0], collectors[c0], {new})
  PROVE  Apart'
<1>1. \A c \in 1..Len(collectors) : \A p :
         PointsTo(collectors'[c], p) =>
           p = 0 \/ PointsTo(collectors[c], p) \/ (p = new /\ c = c0)
  BY DEF Narrows
<1>2. /\ \A c \in 1..Len(collectors) : ~PointsTo(collectors[c], new)
      /\ \A s \in 1..Len(sinks) : ~PointsTo(sinks[s], new)
  BY DEF Live, Apart
<1>3. \A c \in 1..Len(collectors') : Live(collectors'[c], alive')
  BY <1>1 DEF Live, Apart
<1>4. \A s \in 1..Len(sinks') : Live(sinks'[s], alive')
  BY DEF Live, Apart
<1>5. 0 \notin alive'
  BY DEF Shape, Objects
<1>6. ASSUME NEW p \in alive'
      PROVE  /\ \A b, c \in 1..Len(collectors') :
                   PointsTo(collectors'[b], p) /\ PointsTo(collectors'[c], p) => b = c
             /\ \A r, s \in 1..Len(sinks') :
                   PointsTo(sinks'[r], p) /\ PointsTo(sinks'[s], p) => r = s
             /\ \A c \in 1..Len(collectors'), s \in 1..Len(sinks') :
                   ~(PointsTo(collectors'[c], p) /\ PointsTo(sinks'[s], p))
  <2>1. CASE p = new
    <3>1. /\ \A c \in 1..Len(collectors') : PointsTo(collectors'[c], p) => c = c0
          /\ \A s \in 1..Len(sinks') : ~PointsTo(sinks'[s], p)
      BY <1>1, <1>2, <2>1
    <3>2. QED
      BY <2>1, <3>1
  <2>2. CASE p # new
    <3>1. p \in alive /\ p # 0
      BY <1>5, <1>6, <2>2
    <3>2. /\ \A c \in 1..Len(collectors') :
               PointsTo(collectors'[c], p) => PointsTo(collectors[c], p)
          /\ \A s \in 1..Len(sinks') : PointsTo(sinks'[s], p) => PointsTo(sinks[s], p)
      BY <1>1, <2>2, <3>1
    <3>3. QED
      BY <3>1, <3>2 DEF Apart
  <2>3. QED
    BY <2>1, <2>2
<1>7. QED
  BY <1>3, <1>4, <1>6 DEF Apart, PointsTo, Live

\* The same of a sink.
LEMMA NewWriterApart ==
  ASSUME Shape, Apart, NEW new, new \notin alive, new # 0, alive' = alive \cup {new},
         NEW s0 \in 1..Len(sinks), Len(sinks') = Len(sinks), collectors' = collectors,
         \A s \in 1..Len(sinks) : s # s0 => sinks'[s] = sinks[s],
         Narrows(sinks'[s0], sinks[s0], {new})
  PROVE  Apart'
<1>1. \A s \in 1..Len(sinks) : \A p :
         PointsTo(sinks'[s], p) =>
           p = 0 \/ PointsTo(sinks[s], p) \/ (p = new /\ s = s0)
  BY DEF Narrows
<1>2. /\ \A c \in 1..Len(collectors) : ~PointsTo(collectors[c], new)
      /\ \A s \in 1..Len(sinks) : ~PointsTo(sinks[s], new)
  BY DEF Live, Apart
<1>3. \A c \in 1..Len(collectors') : Live(collectors'[c], alive')
  BY DEF Live, Apart
<1>4. \A s \in 1..Len(sinks') : Live(sinks'[s], alive')
  BY <1>1 DEF Live, Apart
<1>5. 0 \notin alive'
  BY DEF Shape, Objects
<1>6. ASSUME NEW p \in alive'
      PROVE  /\ \A b, c \in 1..Len(collectors') :
                   PointsTo(collectors'[b], p) /\ PointsTo(collectors'[c], p) => b = c
             /\ \A r, s \in 1..Len(sinks') :
                   PointsTo(sinks'[r], p) /\ PointsTo(sinks'[s], p) => r = s
             /\ \A c \in 1..Len(collectors'), s \in 1..Len(sinks') :
                   ~(PointsTo(collectors'[c], p) /\ PointsTo(sinks'[s], p))
  <2>1. CASE p = new
    <3>1. /\ \A c \in 1..Len(collectors') : ~PointsTo(collectors'[c], p)
          /\ \A s \in 1..Len(sinks') : PointsTo(sinks'[s], p) => s = s0
      BY <1>1, <1>2, <2>1
    <3>2. QED
      BY <2>1, <3>1
  <2>2. CASE p # new
    <3>1. p \in alive /\ p # 0
      BY <1>5, <1>6, <2>2
    <3>2. /\ \A c \in 1..Len(collectors') :
               PointsTo(collectors'[c], p) => PointsTo(collectors[c], p)
          /\ \A s \in 1..Len(sinks') : PointsTo(sinks'[s], p) => PointsTo(sinks[s], p)
      BY <1>1, <2>2, <3>1
    <3>3. QED
      BY <3>1, <3>2 DEF Apart
  <2>3. QED
    BY <2>1, <2>2
<1>7. QED
  BY <1>3, <1>4, <1>6 DEF Apart, PointsTo, Live

\* An element that stays as it is refers to nothing else.
LEMMA SameNarrows == \A x, new : Narrows(x, x, new)
BY DEF Narrows

\* createReader keeps the pointers apart.
LEMMA CreateForReaderApart ==
  ASSUME Shape, Apart, CreateForReader
  PROVE  Apart'
<1>1. /\ k \in 1..Len(collectors) /\ Len(collectors') = Len(collectors)
      /\ \A c \in 1..Len(collectors) : c # k => collectors'[c] = collectors[c]
      /\ sinks' = sinks /\ Len(collectors) \in Nat /\ Len(sinks) \in Nat
      /\ collectors[k] \in CollectorType /\ n \in {1, 2, 3, 4}
  BY CreateForReaderEffect, Elements DEF Shape, TypeOK, CreateForReader
<1>2. CASE n = 1
  <2>1. collectors'[k] = [collectors[k] EXCEPT !.participant = Fresh]
    BY <1>2, CreateForReaderEffect
  <2>2. Narrows(collectors'[k], collectors[k], {Fresh})
    BY <1>1, <2>1 DEF Narrows, PointsTo, CollectorType
  <2>3. Fresh \notin alive /\ Fresh # 0 /\ alive' = alive \cup {Fresh}
    BY <1>2, FreshIsNew DEF Shape, Objects, CreateForReader
  <2>4. QED
    BY <1>1, <2>2, <2>3, NewReaderApart
<1>3. CASE n # 1
  <2>1. Narrows(collectors'[k], collectors[k], {})
    <3>1. CASE n = 2
      <4>1. collectors'[k] = [collectors[k] EXCEPT !.endpoint = collectors[k].participant]
        BY <3>1, CreateForReaderEffect
      <4>2. QED
        BY <1>1, <4>1 DEF Narrows, PointsTo, CollectorType
    <3>2. CASE n = 3
      <4>1. collectors'[k] = [collectors[k] EXCEPT !.topic = collectors[k].participant]
        BY <3>2, CreateForReaderEffect
      <4>2. QED
        BY <1>1, <4>1 DEF Narrows, PointsTo, CollectorType
    <3>3. CASE n = 4
      <4>1. collectors'[k] = [collectors[k] EXCEPT !.access = collectors[k].participant,
                                                   !.running = TRUE,
                                                   !.readerType = collectors[k].sampleType]
        BY <3>3, CreateForReaderEffect
      <4>2. QED
        BY <1>1, <4>1 DEF Narrows, PointsTo, CollectorType
    <3>4. QED
      BY <1>1, <1>3, <3>1, <3>2, <3>3
  <2>2. alive' = alive
    BY <1>3 DEF CreateForReader
  <2>3. QED
    BY <1>1, <2>1, <2>2, SameNarrows, SameAliveApart
<1>4. QED
  BY <1>2, <1>3

\* createWriter keeps the pointers apart.
LEMMA CreateForWriterApart ==
  ASSUME Shape, Apart, CreateForWriter
  PROVE  Apart'
<1>1. /\ k \in 1..Len(sinks) /\ Len(sinks') = Len(sinks)
      /\ \A s \in 1..Len(sinks) : s # k => sinks'[s] = sinks[s]
      /\ collectors' = collectors /\ Len(collectors) \in Nat /\ Len(sinks) \in Nat
      /\ sinks[k] \in SinkType /\ n \in {1, 2, 3, 4}
  BY CreateForWriterEffect, Elements DEF Shape, TypeOK, CreateForWriter
<1>2. CASE n = 1
  <2>1. sinks'[k] = [sinks[k] EXCEPT !.participant = Fresh]
    BY <1>2, CreateForWriterEffect
  <2>2. Narrows(sinks'[k], sinks[k], {Fresh})
    BY <1>1, <2>1 DEF Narrows, PointsTo, SinkType
  <2>3. Fresh \notin alive /\ Fresh # 0 /\ alive' = alive \cup {Fresh}
    BY <1>2, FreshIsNew DEF Shape, Objects, CreateForWriter
  <2>4. QED
    BY <1>1, <2>2, <2>3, NewWriterApart
<1>3. CASE n # 1
  <2>1. Narrows(sinks'[k], sinks[k], {})
    <3>1. CASE n = 2
      <4>1. sinks'[k] = [sinks[k] EXCEPT !.endpoint = sinks[k].participant]
        BY <3>1, CreateForWriterEffect
      <4>2. QED
        BY <1>1, <4>1 DEF Narrows, PointsTo, SinkType
    <3>2. CASE n = 3
      <4>1. sinks'[k] = [sinks[k] EXCEPT !.topic = sinks[k].participant]
        BY <3>2, CreateForWriterEffect
      <4>2. QED
        BY <1>1, <4>1 DEF Narrows, PointsTo, SinkType
    <3>3. CASE n = 4
      <4>1. sinks'[k] = [sinks[k] EXCEPT !.access = sinks[k].participant]
        BY <3>3, CreateForWriterEffect
      <4>2. QED
        BY <1>1, <4>1 DEF Narrows, PointsTo, SinkType
    <3>4. QED
      BY <1>1, <1>3, <3>1, <3>2, <3>3
  <2>2. alive' = alive
    BY <1>3 DEF CreateForWriter
  <2>3. QED
    BY <1>1, <2>1, <2>2, SameNarrows, SameAliveApart
<1>4. QED
  BY <1>2, <1>3

\* A reader that cannot be made: its participant goes, and nobody else had it.
LEMMA ReaderFailsApart ==
  ASSUME Shape, Apart, Halfway, ReaderFails
  PROVE  Apart'
<1>1. /\ k \in 1..Len(collectors) /\ Len(collectors') = Len(collectors)
      /\ \A c \in 1..Len(collectors) : c # k => collectors'[c] = collectors[c]
      /\ sinks' = sinks /\ Len(collectors) \in Nat /\ Len(sinks) \in Nat
      /\ collectors[k] \in CollectorType
  BY ReaderFailsEffect, Elements DEF Shape, ReaderFails
<1>2. CASE n = 1
  <2>1. Narrows(collectors'[k], collectors[k], {})
    BY <1>1, <1>2, ReaderFailsEffect DEF Narrows, PointsTo, CollectorType
  <2>2. alive' = alive
    BY <1>2 DEF ReaderFails
  <2>3. QED
    BY <1>1, <2>1, <2>2, SameNarrows, SameAliveApart
<1>3. CASE n # 1
  <2> DEFINE x == collectors[k].participant
  <2>1. alive' = alive \ {x} /\ n > 1 /\ pc = "reader"
    BY <1>3 DEF ReaderFails, Shape, TypeOK
  <2>2. \A p : PointsTo(collectors'[k], p) => p = 0
    BY <1>1, <1>3, ReaderFailsEffect DEF PointsTo, CollectorType, Released
  <2>3. x \in alive
    BY <1>1, <2>1 DEF Halfway, Apart, Live, PointsTo
  <2>4. PointsTo(collectors[k], x) /\ x # 0
    BY <2>1 DEF PointsTo, Halfway
  <2> HIDE DEF x
  <2>5. /\ \A c \in 1..Len(collectors) : c # k => ~PointsTo(collectors[c], x)
        /\ \A s \in 1..Len(sinks) : ~PointsTo(sinks[s], x)
    BY <1>1, <2>3, <2>4 DEF Apart
  <2>6. \A p \in alive \ alive' :
           /\ \A c \in 1..Len(collectors') : ~PointsTo(collectors'[c], p)
           /\ \A s \in 1..Len(sinks') : ~PointsTo(sinks'[s], p)
    BY <1>1, <2>1, <2>2, <2>4, <2>5
  <2>7. alive' \subseteq alive
    BY <2>1
  <2>8. /\ \A c \in 1..Len(collectors') :
             \/ c \in 1..Len(collectors) /\ Narrows(collectors'[c], collectors[c], {})
             \/ \A p : PointsTo(collectors'[c], p) => p = 0
        /\ \A s \in 1..Len(sinks') : s \in 1..Len(sinks) /\ Narrows(sinks'[s], sinks[s], {})
    BY <1>1, <2>2, SameNarrows
  <2>9. QED
    BY <1>1, <2>6, <2>7, <2>8, MoveApart
<1>4. QED
  BY <1>2, <1>3

\* A writer that cannot be made: the pointer releaseWriter may leave is not to the
\* participant that goes.
LEMMA WriterFailsApart ==
  ASSUME Shape, Apart, Halfway, WriterFails
  PROVE  Apart'
<1>1. /\ k \in 1..Len(sinks) /\ Len(sinks') = Len(sinks)
      /\ \A s \in 1..Len(sinks) : s # k => sinks'[s] = sinks[s]
      /\ collectors' = collectors /\ Len(collectors) \in Nat /\ Len(sinks) \in Nat
      /\ sinks[k] \in SinkType /\ n \in {1, 2, 3, 4} /\ pc = "writer"
  BY WriterFailsEffect, Elements DEF Shape, TypeOK, WriterFails
<1>2. Narrows(sinks'[k], sinks[k], {})
  <2>1. CASE n = 1
    BY <1>1, <2>1, WriterFailsEffect DEF Narrows, PointsTo, SinkType
  <2>2. CASE n # 1
    BY <1>1, <2>2, WriterFailsEffect DEF Narrows, PointsTo, SinkType
  <2>3. QED
    BY <2>1, <2>2
<1>3. CASE n = 1
  <2>1. alive' = alive
    BY <1>3 DEF WriterFails
  <2>2. QED
    BY <1>1, <1>2, <2>1, SameNarrows, SameAliveApart
<1>4. CASE n # 1
  <2> DEFINE x == sinks[k].participant
  <2>1. alive' = alive \ {x} /\ n > 1
    BY <1>1, <1>4 DEF WriterFails
  <2>2. x # 0 /\ PointsTo(sinks[k], x)
    BY <1>1, <2>1 DEF PointsTo, Halfway
  <2>3. ~PointsTo(sinks'[k], x)
    <3>1. /\ sinks'[k].participant = 0 /\ sinks'[k].endpoint = 0 /\ sinks'[k].topic = 0
          /\ sinks'[k].access \in {0, sinks[k].access}
          /\ n # 2 /\ sinks[k].endpoint # 0 => sinks'[k].access = 0
      BY <1>4, WriterFailsEffect
    <3>2. sinks'[k].access # x
      BY <1>1, <1>4, <2>2, <3>1 DEF Halfway
    <3>3. QED
      BY <2>2, <3>1, <3>2 DEF PointsTo
  <2>4. x \in alive
    BY <1>1, <2>2 DEF Apart, Live
  <2> HIDE DEF x
  <2>5. /\ \A s \in 1..Len(sinks) : s # k => ~PointsTo(sinks[s], x)
        /\ \A c \in 1..Len(collectors) : ~PointsTo(collectors[c], x)
    BY <1>1, <2>2, <2>4 DEF Apart
  <2>6. \A p \in alive \ alive' :
           /\ \A c \in 1..Len(collectors') : ~PointsTo(collectors'[c], p)
           /\ \A s \in 1..Len(sinks') : ~PointsTo(sinks'[s], p)
    BY <1>1, <2>1, <2>3, <2>5
  <2>7. alive' \subseteq alive
    BY <2>1
  <2>8. /\ \A s \in 1..Len(sinks') : s \in 1..Len(sinks) /\ Narrows(sinks'[s], sinks[s], {})
        /\ \A c \in 1..Len(collectors') :
              c \in 1..Len(collectors) /\ Narrows(collectors'[c], collectors[c], {})
    BY <1>1, <1>2, SameNarrows
  <2>9. QED
    BY <1>1, <2>6, <2>7, <2>8, MoveApart
<1>5. QED
  BY <1>3, <1>4

\* Every step keeps the pointers apart.
LEMMA NextApart == Shape /\ Apart /\ Halfway /\ [Next]_vars => Apart'
<1> SUFFICES ASSUME Shape, Apart, Halfway, [Next]_vars PROVE Apart'
  OBVIOUS
<1>1. ASSUME UNCHANGED objects PROVE Apart'
  BY <1>1 DEF Apart, objects
<1>2. \/ UNCHANGED vars \/ ConfigureFails \/ AnalysisFails \/ NextSink \/ Initialized \/ Run
      \/ FinalizeWrapper \/ (\E c \in Configs : Configure(c) \/ ConfigureOverride(c))
      => UNCHANGED objects
  BY DEF vars, objects, ConfigureFails, AnalysisFails, NextSink, Initialized, Run,
         FinalizeWrapper, Configure, ConfigureOverride
<1>3. CASE Initialize
  <2>1. \A p : PointsTo(NewCollector, p) => p = 0
    BY DEF NewCollector, PointsTo
  <2>2. alive' = alive /\ sinks' = sinks /\ Len(sinks) \in Nat /\ Len(collectors') \in Nat
    BY <1>3, InitializeEffect, Elements, LenProperties DEF Initialize, Shape
  <2>3. \A c \in 1..Len(collectors') :
           \/ c \in 1..Len(collectors) /\ Narrows(collectors'[c], collectors[c], {})
           \/ \A p : PointsTo(collectors'[c], p) => p = 0
    BY <1>3, <2>1, InitializeEffect, SameNarrows
  <2>4. QED
    BY <2>2, <2>3, SameNarrows, SameAliveApart
<1>4. CASE ConfigureCollector
  <2>1. /\ k \in 1..Len(collectors) /\ Len(collectors') = Len(collectors)
        /\ \A c \in 1..Len(collectors) : c # k => collectors'[c] = collectors[c]
        /\ sinks' = sinks /\ Len(collectors) \in Nat /\ Len(sinks) \in Nat /\ alive' = alive
        /\ collectors[k] \in CollectorType
    BY <1>4, ConfigureCollectorEffect, Elements DEF Shape, ConfigureCollector
  <2>2. Narrows(collectors'[k], collectors[k], {})
    <3>1. collectors'[k] = [collectors[k] EXCEPT !.sampleType = SourceType]
      BY <1>4, ConfigureCollectorEffect
    <3>2. QED
      BY <2>1, <3>1 DEF Narrows, PointsTo, CollectorType
  <2>3. QED
    BY <2>1, <2>2, SameNarrows, SameAliveApart
<1>5. CASE AddSinks
  <2>1. /\ alive' = alive /\ collectors' = collectors
        /\ Len(collectors) \in Nat /\ Len(sinks') \in Nat
    BY <1>5, AddSinksEffect, Elements, LenProperties DEF Shape, AddSinks
  <2>2. \A e : \A p : PointsTo(NewSink(e), p) => p = 0
    BY DEF NewSink, PointsTo
  <2>3. \A s \in 1..Len(sinks') :
           \/ s \in 1..Len(sinks) /\ Narrows(sinks'[s], sinks[s], {})
           \/ \A p : PointsTo(sinks'[s], p) => p = 0
    BY <1>5, <2>2, AddSinksEffect, SameNarrows
  <2>4. QED
    BY <2>1, <2>3, SameNarrows, SameAliveApart
<1>6. CASE Stop
  <2>1. /\ alive' = alive /\ sinks' = sinks /\ Len(collectors') = Len(collectors)
        /\ Len(collectors) \in Nat /\ Len(sinks) \in Nat
    BY <1>6, StopEffect, Elements DEF Shape, Stop
  <2>2. ASSUME NEW c \in 1..Len(collectors')
        PROVE  c \in 1..Len(collectors) /\ Narrows(collectors'[c], collectors[c], {})
    <3>1. collectors'[c] = [collectors[c] EXCEPT !.running = FALSE]
      BY <1>6, <2>1, StopEffect
    <3>2. collectors[c] \in CollectorType
      BY <2>1, Elements DEF Shape
    <3>3. QED
      BY <2>1, <3>1, <3>2 DEF Narrows, PointsTo, CollectorType
  <2>3. QED
    BY <2>1, <2>2, SameNarrows, SameAliveApart
<1>7. CASE Finalize
  <2>1. UNCHANGED objects \/ (collectors' = <<>> /\ sinks' = <<>>)
    BY <1>7 DEF Finalize
  <2>2. CASE collectors' = <<>> /\ sinks' = <<>>
    BY <2>2 DEF Apart
  <2>3. QED
    BY <1>1, <2>1, <2>2
<1>8. QED
  BY <1>1, <1>2, <1>3, <1>4, <1>5, <1>6, <1>7, CreateForReaderApart, ReaderFailsApart,
     CreateForWriterApart, WriterFailsApart DEF Next

\* Every step keeps Halfway.
LEMMA NextHalfway == Shape /\ Apart /\ Halfway /\ [Next]_vars => Halfway'
<1> SUFFICES ASSUME Shape, Apart, Halfway, [Next]_vars PROVE Halfway'
  OBVIOUS
<1>1. CASE UNCHANGED vars
  BY <1>1 DEF Halfway, vars, objects
<1>2. ASSUME pc' \notin {"reader", "writer"} \/ n' = 1 PROVE Halfway'
  BY <1>2 DEF Halfway
<1>3. \/ Initialize \/ ConfigureCollector \/ ReaderFails \/ AddSinks \/ AnalysisFails
      \/ WriterFails \/ Initialized \/ Run \/ Finalize
      => pc' \notin {"reader", "writer"} \/ n' = 1
  BY DEF Initialize, ConfigureCollector, ReaderFails, AddSinks, AnalysisFails, WriterFails,
         Initialized, Run, Finalize, Fails
<1>4. \/ ConfigureFails \/ Stop \/ FinalizeWrapper
      \/ (\E c \in Configs : Configure(c) \/ ConfigureOverride(c))
      => pc' \notin {"reader", "writer"} \/ n' = 1
  BY DEF ConfigureFails, Stop, FinalizeWrapper, Configure, ConfigureOverride
<1>5. CASE NextSink
  <2>1. n' = n /\ pc = "sink"
    BY <1>5 DEF NextSink
  <2>2. n = 1
    BY <2>1 DEF Shape, Progress
  <2>3. QED
    BY <1>2, <2>1, <2>2
<1>6. CASE CreateForReader
  <2>1. CASE n = 4
    BY <1>2, <1>6, <2>1 DEF CreateForReader
  <2>2. CASE n # 4
    <3>1. pc' = "reader" /\ k' = k /\ n' = n + 1 /\ pc = "reader" /\ n \in {1, 2, 3}
      BY <1>6, <2>2 DEF CreateForReader, Shape, TypeOK
    <3>2. k \in 1..Len(collectors) /\ collectors[k] \in CollectorType
      BY <1>6, CreateForReaderEffect, Elements DEF Shape
    <3>3. collectors'[k].participant # 0
      <4>1. CASE n = 1
        <5>1. collectors'[k] = [collectors[k] EXCEPT !.participant = Fresh]
          BY <1>6, <4>1, CreateForReaderEffect
        <5>2. QED
          BY <3>2, <5>1, FreshIsNew DEF CollectorType, Shape, Objects
      <4>2. CASE n = 2
        <5>1. collectors'[k] = [collectors[k] EXCEPT !.endpoint = collectors[k].participant]
          BY <1>6, <4>2, CreateForReaderEffect
        <5>2. QED
          BY <3>1, <3>2, <4>2, <5>1 DEF CollectorType, Halfway
      <4>3. CASE n = 3
        <5>1. collectors'[k] = [collectors[k] EXCEPT !.topic = collectors[k].participant]
          BY <1>6, <4>3, CreateForReaderEffect
        <5>2. QED
          BY <3>1, <3>2, <4>3, <5>1 DEF CollectorType, Halfway
      <4>4. QED
        BY <3>1, <4>1, <4>2, <4>3
    <3>4. QED
      BY <3>1, <3>3 DEF Halfway
  <2>3. QED
    BY <2>1, <2>2
<1>7. CASE CreateForWriter
  <2>1. CASE n = 4
    BY <1>2, <1>7, <2>1 DEF CreateForWriter
  <2>2. CASE n # 4
    <3>1. pc' = "writer" /\ k' = k /\ n' = n + 1 /\ pc = "writer" /\ n \in {1, 2, 3}
      BY <1>7, <2>2 DEF CreateForWriter, Shape, TypeOK
    <3>2. k \in 1..Len(sinks) /\ sinks[k] \in SinkType
      BY <1>7, CreateForWriterEffect, Elements DEF Shape
    <3>3. CASE n = 1
      <4>1. sinks'[k] = [sinks[k] EXCEPT !.participant = Fresh]
        BY <1>7, <3>3, CreateForWriterEffect
      <4>2. sinks'[k].participant = Fresh /\ sinks'[k].access = sinks[k].access
        BY <3>2, <4>1 DEF SinkType
      <4>3. Fresh # 0 /\ Fresh \notin alive
        BY FreshIsNew DEF Shape, Objects
      <4>4. sinks[k].access \in alive \cup {0}
        BY <3>2 DEF Apart, Live, PointsTo
      <4>5. QED
        BY <3>1, <3>3, <4>2, <4>3, <4>4 DEF Halfway
    <3>4. CASE n = 2
      <4>1. sinks'[k] = [sinks[k] EXCEPT !.endpoint = sinks[k].participant]
        BY <1>7, <3>4, CreateForWriterEffect
      <4>2. /\ sinks'[k].participant = sinks[k].participant
            /\ sinks'[k].endpoint = sinks[k].participant
        BY <3>2, <4>1 DEF SinkType
      <4>3. QED
        BY <3>1, <3>4, <4>2 DEF Halfway
    <3>5. CASE n = 3
      <4>1. sinks'[k] = [sinks[k] EXCEPT !.topic = sinks[k].participant]
        BY <1>7, <3>5, CreateForWriterEffect
      <4>2. /\ sinks'[k].participant = sinks[k].participant
            /\ sinks'[k].endpoint = sinks[k].endpoint
        BY <3>2, <4>1 DEF SinkType
      <4>3. QED
        BY <3>1, <3>5, <4>2 DEF Halfway
    <3>6. QED
      BY <3>1, <3>3, <3>4, <3>5
  <2>3. QED
    BY <2>1, <2>2
<1>8. QED
  BY <1>1, <1>2, <1>3, <1>4, <1>5, <1>6, <1>7 DEF Next

\* In the beginning there are no pointers.
LEMMA InitApart == Init => Apart /\ Halfway
BY DEF Init, Apart, Halfway

\* The inductive invariant of the pointers.
LEMMA PointersInvariant == Spec => [](Shape /\ Apart /\ Halfway)
<1>1. Shape /\ Apart /\ Halfway /\ [Next]_vars => Shape' /\ Apart' /\ Halfway'
  BY NextShape, NextApart, NextHalfway
<1>2. QED
  BY <1>1, InitShape, InitApart, PTL DEF Spec

\* No pointer of a collector or a sink outlives its participant, for any
\* configurations, wherever the creation of an entity fails and however often
\* initialize is repeated: releaseReader, releaseWriter, finalize.
THEOREM NothingDanglesHolds == Spec => []NothingDangles
<1>1. Shape /\ Apart => NothingDangles
  <2> SUFFICES ASSUME Shape, Apart PROVE NothingDangles
    OBVIOUS
  <2>1. DOMAIN Null = {"participant", "endpoint", "topic", "access"}
    BY DEF Null
  <2>2. DOMAIN collectors = 1..Len(collectors) /\ DOMAIN sinks = 1..Len(sinks)
    BY Elements DEF Shape
  <2>3. ASSUME NEW c \in DOMAIN collectors, NEW p \in DOMAIN Null
        PROVE  collectors[c][p] \in alive \cup {0}
    BY <2>1, <2>2 DEF Apart, Live, PointsTo
  <2>4. ASSUME NEW s \in DOMAIN sinks, NEW p \in DOMAIN Null
        PROVE  sinks[s][p] \in alive \cup {0}
    BY <2>1, <2>2 DEF Apart, Live, PointsTo
  <2>5. QED
    BY <2>3, <2>4 DEF NothingDangles
<1>2. QED
  BY <1>1, PointersInvariant, PTL

------------------------------------------------------------------------------
(* What needs a repeated initialize to go wrong.                           *)

Untouched(x) == x.participant = 0 /\ x.endpoint = 0 /\ x.topic = 0

\* As long as initialize was not repeated: before it there is nothing, in it nothing
\* that was not made by it, and whoever is not reached yet has nothing.
FirstTime ==
  again = "no" =>
    /\ ~entered => alive = {} /\ collectors = <<>> /\ sinks = <<>>
    /\ Working => ~rtInitialized
    /\ alive \subseteq Owned
    /\ pc \in {"collector", "reader"} =>
         /\ sinks = <<>>
         /\ \A c \in 1..Len(collectors) :
              c > k \/ (c = k /\ n = 1) => collectors[c].participant = 0
    /\ pc \in {"sink", "writer"} =>
         /\ Len(sinks) = EnabledSinks
         /\ \A s \in 1..Len(sinks) : s > k \/ (s = k /\ n = 1) => Untouched(sinks[s])

\* initialize is remembered.  The readers that it has made are for the types their
\* collectors expect.
Typed ==
  /\ Working => entered
  /\ ~entered => ~rtInitialized
  /\ pc \in {"collector", "reader"} =>
       \A c \in 1..Len(collectors) : c < k => collectors[c].readerType = collectors[c].sampleType
  /\ pc \in {"sink", "writer"} =>
       \A c \in 1..Len(collectors) : collectors[c].readerType = collectors[c].sampleType

\* As long as no repeated initialize failed, no call meets a null participant in a
\* sink that has entities, or a reader of another type.
NoFailure ==
  again # "failed" =>
    /\ pc # "fault"
    /\ \A s \in 1..Len(sinks) : ~ReleaseFaults(sinks[s])
    /\ rtInitialized /\ ~Working =>
         \A c \in 1..Len(collectors) : collectors[c].readerType = collectors[c].sampleType

\* The owners, by position.
LEMMA Owners ==
  ASSUME Objects
  PROVE  \A p : p \in Owned <=> \/ \E c \in 1..Len(collectors) : collectors[c].participant = p
                                \/ \E s \in 1..Len(sinks) : sinks[s].participant = p
BY Elements DEF Owned

\* A step after which initialize is not under way and every owner is still one.
LEMMA RestFirstTime ==
  ASSUME Shape, FirstTime, UNCHANGED <<again, entered, alive>>, ~Working',
         ~entered => collectors' = collectors /\ sinks' = sinks,
         \A p \in alive : p \in Owned => p \in Owned'
  PROVE  FirstTime'
BY DEF FirstTime, Working

\* The steps of initialize that fail, when it was not repeated.
LEMMA FailsFirstTime ==
  ASSUME Shape, FirstTime, Typed, Working, entered' = entered, Fails, Objects',
         again = "no" => alive' \subseteq Owned'
  PROVE  FirstTime'
BY DEF FirstTime, Typed, Working, Fails

\* Every step keeps FirstTime: the steps of initialize.
LEMMA InitializeFirstTime ==
  ASSUME Shape, Shape', Apart, Halfway, FirstTime, Typed,
         \/ Initialize \/ ConfigureCollector \/ CreateForReader \/ ReaderFails
         \/ AddSinks \/ AnalysisFails \/ NextSink \/ CreateForWriter \/ WriterFails
         \/ Initialized
  PROVE  FirstTime'
<1> USE DEF wrapper, app, given, objects, counters, history
<1>a. Objects /\ Objects'
  BY DEF Shape
<1>b. /\ \A p : p \in Owned' <=> \/ \E c \in 1..Len(collectors') : collectors'[c].participant = p
                                 \/ \E s \in 1..Len(sinks') : sinks'[s].participant = p
      /\ \A p : p \in Owned <=> \/ \E c \in 1..Len(collectors) : collectors[c].participant = p
                                \/ \E s \in 1..Len(sinks) : sinks[s].participant = p
  <2>1. DOMAIN collectors' = 1..Len(collectors') /\ DOMAIN sinks' = 1..Len(sinks')
    BY <1>a, LenProperties DEF Objects
  <2>2. QED
    BY <1>a, <2>1, Owners DEF Owned
<1>1. CASE Initialize
  <2> SUFFICES ASSUME again' = "no" PROVE FirstTime'
    BY DEF FirstTime
  <2>1. again = "no" /\ ~entered /\ entered' /\ pc' = "collector" /\ n' = 1 /\ k' = 1
    BY <1>1 DEF Initialize
  <2>2. alive' = {} /\ collectors = <<>> /\ sinks' = <<>> /\ ~rtInitialized'
    BY <1>1, <2>1 DEF Initialize, FirstTime, Typed
  <2>3. \A c \in 1..Len(collectors') : collectors'[c].participant = 0
    BY <1>1, <2>2, InitializeEffect DEF NewCollector
  <2>4. QED
    BY <2>1, <2>2, <2>3 DEF FirstTime
<1>2. CASE ConfigureCollector
  <2>1. /\ sinks' = sinks /\ Len(collectors') = Len(collectors) /\ alive' = alive
        /\ k \in 1..Len(collectors) /\ UNCHANGED <<entered, rtInitialized>>
        /\ pc = "collector"
    BY <1>2, ConfigureCollectorEffect DEF ConfigureCollector
  <2>2. \A c \in 1..Len(collectors) : collectors'[c].participant = collectors[c].participant
    BY <1>2, ConfigureCollectorEffect, Elements DEF Shape, CollectorType
  <2>3. alive \subseteq Owned => alive' \subseteq Owned'
    BY <1>b, <2>1, <2>2
  <2>4. CASE Fails
    BY <1>a, <2>1, <2>3, <2>4, FailsFirstTime DEF FirstTime, Typed, Working
  <2>5. CASE ~Fails
    <3>1. pc' = "reader" /\ n' = 1 /\ k' = k /\ again' = again /\ n = 1
      BY <1>2, <2>5 DEF ConfigureCollector, Shape, Progress
    <3>2. QED
      BY <2>1, <2>2, <2>3, <3>1 DEF FirstTime, Typed, Working
  <2>6. QED
    BY <2>4, <2>5
<1>3. CASE CreateForReader
  <2>1. /\ sinks' = sinks /\ Len(collectors') = Len(collectors)
        /\ k \in 1..Len(collectors) /\ UNCHANGED <<entered, again, rtInitialized>>
        /\ pc = "reader" /\ n \in {1, 2, 3, 4}
        /\ \A c \in 1..Len(collectors) : c # k => collectors'[c] = collectors[c]
        /\ collectors[k] \in CollectorType
    BY <1>3, CreateForReaderEffect, Elements DEF CreateForReader, Shape, TypeOK
  <2>2. collectors'[k].participant = IF n = 1 THEN Fresh ELSE collectors[k].participant
    <3>1. CASE n = 1
      <4>1. collectors'[k] = [collectors[k] EXCEPT !.participant = Fresh]
        BY <1>3, <3>1, CreateForReaderEffect
      <4>2. QED
        BY <2>1, <3>1, <4>1 DEF CollectorType
    <3>2. CASE n = 2
      <4>1. collectors'[k] = [collectors[k] EXCEPT !.endpoint = collectors[k].participant]
        BY <1>3, <3>2, CreateForReaderEffect
      <4>2. QED
        BY <2>1, <3>2, <4>1 DEF CollectorType
    <3>3. CASE n = 3
      <4>1. collectors'[k] = [collectors[k] EXCEPT !.topic = collectors[k].participant]
        BY <1>3, <3>3, CreateForReaderEffect
      <4>2. QED
        BY <2>1, <3>3, <4>1 DEF CollectorType
    <3>4. CASE n = 4
      <4>1. collectors'[k] = [collectors[k] EXCEPT !.access = collectors[k].participant,
                                                   !.running = TRUE,
                                                   !.readerType = collectors[k].sampleType]
        BY <1>3, <3>4, CreateForReaderEffect
      <4>2. QED
        BY <2>1, <3>4, <4>1 DEF CollectorType
    <3>5. QED
      BY <2>1, <3>1, <3>2, <3>3, <3>4
  <2>3. alive' = IF n = 1 THEN alive \cup {Fresh} ELSE alive
    BY <1>3 DEF CreateForReader
  <2>4. again = "no" => alive' \subseteq Owned'
    <3> SUFFICES ASSUME again = "no", NEW p \in alive' PROVE p \in Owned'
      OBVIOUS
    <3>1. CASE n = 1
      <4>1. collectors[k].participant = 0 /\ 0 \notin alive
        BY <2>1, <3>1 DEF FirstTime, Shape, Objects
      <4>2. p = Fresh \/ (p \in alive /\ p \in Owned)
        BY <2>3, <3>1 DEF FirstTime
      <4>3. CASE p = Fresh
        BY <1>b, <2>1, <2>2, <3>1, <4>3
      <4>4. CASE p \in alive /\ p \in Owned
        BY <1>b, <2>1, <4>1, <4>4
      <4>5. QED
        BY <4>2, <4>3, <4>4
    <3>2. CASE n # 1
      BY <1>b, <2>1, <2>2, <2>3, <3>2 DEF FirstTime
    <3>3. QED
      BY <3>1, <3>2
  <2>5. \/ pc' = "collector" /\ k' = k + 1 /\ n' = 1
        \/ pc' = "reader" /\ k' = k /\ n' = n + 1
    BY <1>3 DEF CreateForReader
  <2>6. \A c \in 1..Len(collectors') : c > k' \/ (c = k' /\ n' = 1) => c > k
    BY <2>1, <2>5
  <2>7. QED
    BY <2>1, <2>4, <2>5, <2>6 DEF FirstTime, Typed, Working
<1>4. CASE ReaderFails
  <2>1. /\ sinks' = sinks /\ Len(collectors') = Len(collectors)
        /\ k \in 1..Len(collectors) /\ entered' = entered /\ Fails /\ Working
        /\ pc = "reader"
        /\ \A c \in 1..Len(collectors) : c # k => collectors'[c] = collectors[c]
    BY <1>4, ReaderFailsEffect DEF ReaderFails, Working
  <2>2. alive' = IF n = 1 THEN alive ELSE alive \ {collectors[k].participant}
    BY <1>4 DEF ReaderFails
  <2>3. again = "no" => alive' \subseteq Owned'
    <3> SUFFICES ASSUME again = "no", NEW p \in alive' PROVE p \in Owned'
      OBVIOUS
    <3>1. p # collectors[k].participant
      <4>1. n = 1 => collectors[k].participant = 0 /\ 0 \notin alive
        BY <2>1 DEF FirstTime, Shape, Objects
      <4>2. QED
        BY <2>2, <4>1
    <3>2. p \in Owned
      BY <2>2 DEF FirstTime
    <3>3. QED
      BY <1>b, <2>1, <3>1, <3>2
  <2>4. QED
    BY <1>a, <2>1, <2>3, FailsFirstTime
<1>5. CASE AddSinks
  <2> SUFFICES ASSUME again' = "no" PROVE FirstTime'
    BY DEF FirstTime
  <2>1. /\ UNCHANGED <<again, entered, rtInitialized, alive, collectors, config>>
        /\ pc = "collector" /\ pc' = "sink" /\ k' = 1 /\ n' = 1
    BY <1>5 DEF AddSinks
  <2>2. Len(sinks) = 0 /\ alive \subseteq Owned /\ entered /\ ~rtInitialized
    BY <2>1 DEF FirstTime, Typed, Working
  <2>3. EnabledSinks' = EnabledSinks
    BY <2>1 DEF EnabledSinks
  <2>4. Len(sinks') = EnabledSinks'
    BY <1>5, <2>2, <2>3, AddSinksEffect
  <2>5. \A s \in 1..Len(sinks') : Untouched(sinks'[s])
    <3>1. \A e : Untouched(NewSink(e))
      BY DEF Untouched, NewSink
    <3>2. \A s \in 1..Len(sinks') : \E e \in BOOLEAN : sinks'[s] = NewSink(e)
      BY <1>5, <2>2, AddSinksEffect
    <3>3. QED
      BY <3>1, <3>2
  <2>6. alive' \subseteq Owned'
    BY <1>b, <2>1, <2>2
  <2>7. QED
    BY <2>1, <2>2, <2>4, <2>5, <2>6 DEF FirstTime, Typed, Working
<1>6. CASE AnalysisFails
  <2>1. UNCHANGED <<entered, collectors, sinks, alive>> /\ Fails /\ Working
    BY <1>6 DEF AnalysisFails, Working
  <2>2. again = "no" => alive' \subseteq Owned'
    BY <2>1 DEF FirstTime, Owned
  <2>3. QED
    BY <1>a, <2>1, <2>2, FailsFirstTime
<1>7. CASE NextSink
  <2>1. /\ UNCHANGED <<again, entered, rtInitialized, alive, collectors, sinks, config>>
        /\ pc = "sink" /\ n' = n
        /\ (pc' = "writer" /\ k' = k) \/ (pc' = "sink" /\ k' = k + 1)
    BY <1>7 DEF NextSink
  <2>2. EnabledSinks' = EnabledSinks /\ Owned' = Owned
    BY <2>1 DEF EnabledSinks, Owned
  <2>3. n = 1 /\ k \in Nat
    BY <2>1 DEF Shape, Progress
  <2>4. \A s \in 1..Len(sinks) : s > k' \/ (s = k' /\ n' = 1) => s > k \/ (s = k /\ n = 1)
    BY <2>1, <2>3
  <2>5. QED
    BY <2>1, <2>2, <2>4 DEF FirstTime, Typed, Working
<1>8. CASE CreateForWriter
  <2>1. /\ collectors' = collectors /\ Len(sinks') = Len(sinks)
        /\ k \in 1..Len(sinks) /\ UNCHANGED <<entered, again, rtInitialized, config>>
        /\ pc = "writer" /\ n \in {1, 2, 3, 4}
        /\ \A s \in 1..Len(sinks) : s # k => sinks'[s] = sinks[s]
        /\ sinks[k] \in SinkType
    BY <1>8, CreateForWriterEffect, Elements DEF CreateForWriter, Shape, TypeOK
  <2>2. sinks'[k].participant = IF n = 1 THEN Fresh ELSE sinks[k].participant
    <3>1. CASE n = 1
      <4>1. sinks'[k] = [sinks[k] EXCEPT !.participant = Fresh]
        BY <1>8, <3>1, CreateForWriterEffect
      <4>2. QED
        BY <2>1, <3>1, <4>1 DEF SinkType
    <3>2. CASE n = 2
      <4>1. sinks'[k] = [sinks[k] EXCEPT !.endpoint = sinks[k].participant]
        BY <1>8, <3>2, CreateForWriterEffect
      <4>2. QED
        BY <2>1, <3>2, <4>1 DEF SinkType
    <3>3. CASE n = 3
      <4>1. sinks'[k] = [sinks[k] EXCEPT !.topic = sinks[k].participant]
        BY <1>8, <3>3, CreateForWriterEffect
      <4>2. QED
        BY <2>1, <3>3, <4>1 DEF SinkType
    <3>4. CASE n = 4
      <4>1. sinks'[k] = [sinks[k] EXCEPT !.access = sinks[k].participant]
        BY <1>8, <3>4, CreateForWriterEffect
      <4>2. QED
        BY <2>1, <3>4, <4>1 DEF SinkType
    <3>5. QED
      BY <2>1, <3>1, <3>2, <3>3, <3>4
  <2>3. alive' = IF n = 1 THEN alive \cup {Fresh} ELSE alive
    BY <1>8 DEF CreateForWriter
  <2>4. again = "no" => alive' \subseteq Owned'
    <3> SUFFICES ASSUME again = "no", NEW p \in alive' PROVE p \in Owned'
      OBVIOUS
    <3>1. CASE n = 1
      <4>1. sinks[k].participant = 0 /\ 0 \notin alive
        BY <2>1, <3>1 DEF FirstTime, Untouched, Shape, Objects
      <4>2. p = Fresh \/ (p \in alive /\ p \in Owned)
        BY <2>3, <3>1 DEF FirstTime
      <4>3. CASE p = Fresh
        BY <1>b, <2>1, <2>2, <3>1, <4>3
      <4>4. CASE p \in alive /\ p \in Owned
        BY <1>b, <2>1, <4>1, <4>4
      <4>5. QED
        BY <4>2, <4>3, <4>4
    <3>2. CASE n # 1
      BY <1>b, <2>1, <2>2, <2>3, <3>2 DEF FirstTime
    <3>3. QED
      BY <3>1, <3>2
  <2>5. \/ pc' = "sink" /\ k' = k + 1 /\ n' = 1
        \/ pc' = "writer" /\ k' = k /\ n' = n + 1
    BY <1>8 DEF CreateForWriter
  <2>6. \A s \in 1..Len(sinks') : s > k' \/ (s = k' /\ n' = 1) => s > k
    BY <2>1, <2>5
  <2>7. EnabledSinks' = EnabledSinks
    BY <2>1 DEF EnabledSinks
  <2>8. QED
    BY <2>1, <2>4, <2>5, <2>6, <2>7 DEF FirstTime, Typed, Working
<1>9. CASE WriterFails
  <2>1. /\ collectors' = collectors /\ Len(sinks') = Len(sinks)
        /\ k \in 1..Len(sinks) /\ entered' = entered /\ Fails /\ Working
        /\ pc = "writer"
        /\ \A s \in 1..Len(sinks) : s # k => sinks'[s] = sinks[s]
    BY <1>9, WriterFailsEffect DEF WriterFails, Working
  <2>2. alive' = IF n = 1 THEN alive ELSE alive \ {sinks[k].participant}
    BY <1>9 DEF WriterFails
  <2>3. again = "no" => alive' \subseteq Owned'
    <3> SUFFICES ASSUME again = "no", NEW p \in alive' PROVE p \in Owned'
      OBVIOUS
    <3>1. p # sinks[k].participant
      <4>1. n = 1 => sinks[k].participant = 0 /\ 0 \notin alive
        BY <2>1 DEF FirstTime, Untouched, Shape, Objects
      <4>2. QED
        BY <2>2, <4>1
    <3>2. p \in Owned
      BY <2>2 DEF FirstTime
    <3>3. QED
      BY <1>b, <2>1, <3>1, <3>2
  <2>4. QED
    BY <1>a, <2>1, <2>3, FailsFirstTime
<1>10. CASE Initialized
  <2>1. UNCHANGED <<again, entered, collectors, sinks, alive>> /\ pc' = "idle"
    BY <1>10 DEF Initialized
  <2>2. Owned' = Owned
    BY <2>1 DEF Owned
  <2>3. QED
    BY <2>1, <2>2 DEF FirstTime, Typed, Working
<1>11. QED
  BY <1>1, <1>2, <1>3, <1>4, <1>5, <1>6, <1>7, <1>8, <1>9, <1>10

\* Every step keeps FirstTime.
LEMMA NextFirstTime ==
  Shape /\ Apart /\ Halfway /\ FirstTime /\ Typed /\ [Next]_vars => FirstTime'
<1> SUFFICES ASSUME Shape, Apart, Halfway, FirstTime, Typed, [Next]_vars PROVE FirstTime'
  OBVIOUS
<1> USE DEF wrapper, app, given, objects, counters, history
<1>0. Shape'
  BY NextShape
<1>1. CASE \/ Initialize \/ ConfigureCollector \/ CreateForReader \/ ReaderFails
           \/ AddSinks \/ AnalysisFails \/ NextSink \/ CreateForWriter \/ WriterFails
           \/ Initialized
  BY <1>0, <1>1, InitializeFirstTime
<1>2. CASE ConfigureFails \/ (\E c \in Configs : Configure(c) \/ ConfigureOverride(c))
  <2>1. UNCHANGED <<again, entered, alive, collectors, sinks>> /\ pc' = "idle"
    BY <1>2 DEF ConfigureFails, Configure, ConfigureOverride
  <2>2. Owned' = Owned
    BY <2>1 DEF Owned
  <2>3. QED
    BY <2>1, <2>2, RestFirstTime DEF Working
<1>3. CASE Run \/ FinalizeWrapper
  <2>1. UNCHANGED <<again, entered, alive, collectors, sinks>> /\ pc' \in {"idle", "fault"}
    BY <1>3 DEF Run, FinalizeWrapper
  <2>2. Owned' = Owned
    BY <2>1 DEF Owned
  <2>3. QED
    BY <2>1, <2>2, RestFirstTime DEF Working
<1>4. CASE Stop
  <2>1. /\ UNCHANGED <<again, entered, alive, sinks>> /\ pc' = "idle" /\ entered
        /\ Len(collectors') = Len(collectors)
    BY <1>4, StopEffect DEF Stop, Typed
  <2>2. \A c \in 1..Len(collectors) : collectors'[c].participant = collectors[c].participant
    BY <1>4, StopEffect, Elements DEF Shape, CollectorType
  <2>3. DOMAIN collectors' = 1..Len(collectors') /\ DOMAIN sinks' = 1..Len(sinks')
    BY <1>0, LenProperties DEF Shape, Objects
  <2>4. \A p \in alive : p \in Owned => p \in Owned'
    BY <2>1, <2>2, <2>3, Owners DEF Owned, Shape
  <2>5. QED
    BY <2>1, <2>4, RestFirstTime DEF Working
<1>5. CASE Finalize
  <2>1. CASE pc' = "fault"
    <3>1. UNCHANGED <<again, entered, alive, collectors, sinks>>
      BY <1>5, <2>1 DEF Finalize
    <3>2. Owned' = Owned
      BY <3>1 DEF Owned
    <3>3. QED
      BY <2>1, <3>1, <3>2, RestFirstTime DEF Working
  <2>2. CASE pc' # "fault"
    <3>1. /\ collectors' = <<>> /\ sinks' = <<>> /\ alive' = alive \ Owned /\ again' = again
          /\ pc' = "idle"
      BY <1>5, <2>2 DEF Finalize
    <3>2. again = "no" => alive' = {}
      BY <3>1 DEF FirstTime
    <3>3. QED
      BY <3>1, <3>2 DEF FirstTime, Working
  <2>3. QED
    BY <2>1, <2>2
<1>6. CASE UNCHANGED vars
  <2>1. UNCHANGED <<again, entered, alive, collectors, sinks, config, pc, k, n, rtInitialized>>
    BY <1>6 DEF vars
  <2>2. Owned' = Owned /\ EnabledSinks' = EnabledSinks
    BY <2>1 DEF Owned, EnabledSinks
  <2>3. QED
    BY <2>1, <2>2 DEF FirstTime, Typed, Working
<1>7. QED
  BY <1>1, <1>2, <1>3, <1>4, <1>5, <1>6 DEF Next

\* Every step keeps Typed: ConfigureCollector makes a collector's type and its reader's
\* differ only until the reader is made.
LEMMA NextTyped == Shape /\ Typed /\ [Next]_vars => Typed'
<1> SUFFICES ASSUME Shape, Typed, [Next]_vars PROVE Typed'
  OBVIOUS
<1> USE DEF wrapper, app, given, objects, counters, history
<1>1. CASE \/ ReaderFails \/ AnalysisFails \/ WriterFails \/ Run \/ Stop \/ Finalize
           \/ FinalizeWrapper \/ ConfigureFails
           \/ (\E c \in Configs : Configure(c) \/ ConfigureOverride(c))
  <2>1. /\ pc' \in {"idle", "fault"}
        /\ (entered' = entered /\ rtInitialized' = rtInitialized) \/ ~rtInitialized'
    BY <1>1 DEF ReaderFails, AnalysisFails, WriterFails, Fails, Run, Stop, Finalize,
       FinalizeWrapper, ConfigureFails, Configure, ConfigureOverride
  <2>2. QED
    BY <2>1 DEF Typed, Working
<1>2. CASE Initialize
  <2>1. pc' = "collector" /\ k' = 1 /\ entered'
    BY <1>2 DEF Initialize
  <2>2. QED
    BY <2>1 DEF Typed, Working
<1>3. CASE ConfigureCollector
  <2>1. /\ UNCHANGED <<entered, rtInitialized>>
        /\ pc = "collector" /\ (pc' = "idle" \/ (pc' = "reader" /\ k' = k))
    BY <1>3 DEF ConfigureCollector, Fails
  <2>2. /\ Len(collectors') = Len(collectors)
        /\ \A c \in 1..Len(collectors) : c < k => collectors'[c] = collectors[c]
    BY <1>3, ConfigureCollectorEffect
  <2>3. QED
    BY <2>1, <2>2 DEF Typed, Working
<1>4. CASE CreateForReader
  <2>1. /\ UNCHANGED <<entered, rtInitialized>> /\ n \in {1, 2, 3, 4} /\ pc = "reader"
        /\ \/ n = 4 /\ pc' = "collector" /\ k' = k + 1
           \/ n # 4 /\ pc' = "reader" /\ k' = k
    BY <1>4 DEF CreateForReader, Shape, TypeOK
  <2>2. /\ Len(collectors') = Len(collectors) /\ k \in 1..Len(collectors)
        /\ \A c \in 1..Len(collectors) : c # k => collectors'[c] = collectors[c]
        /\ collectors[k] \in CollectorType
    BY <1>4, CreateForReaderEffect, Elements DEF Shape
  <2>3. CASE n = 4
    <3>1. collectors'[k] = [collectors[k] EXCEPT !.access = collectors[k].participant,
                                                 !.running = TRUE,
                                                 !.readerType = collectors[k].sampleType]
      BY <1>4, <2>3, CreateForReaderEffect
    <3>2. collectors'[k].readerType = collectors'[k].sampleType
      BY <2>2, <3>1 DEF CollectorType
    <3>3. ASSUME NEW c \in 1..Len(collectors'), c < k'
          PROVE  collectors'[c].readerType = collectors'[c].sampleType
      BY <2>1, <2>2, <2>3, <3>2, <3>3 DEF Typed, Working
    <3>4. QED
      BY <2>1, <2>3, <3>3 DEF Typed, Working
  <2>4. CASE n # 4
    BY <2>1, <2>2, <2>4 DEF Typed, Working
  <2>5. QED
    BY <2>3, <2>4
<1>5. CASE AddSinks
  <2>1. /\ UNCHANGED <<entered, rtInitialized, collectors>> /\ pc = "collector"
        /\ k > Len(collectors) /\ pc' = "sink"
    BY <1>5 DEF AddSinks
  <2>2. k \in Nat /\ Len(collectors) \in Nat
    BY <2>1, Elements DEF Shape, Progress
  <2>3. QED
    BY <2>1, <2>2 DEF Typed, Working
<1>6. CASE NextSink \/ CreateForWriter
  <2>1. /\ UNCHANGED <<entered, rtInitialized, collectors>>
        /\ pc \in {"sink", "writer"} /\ pc' \in {"sink", "writer"}
    BY <1>6 DEF NextSink, CreateForWriter
  <2>2. QED
    BY <2>1 DEF Typed, Working
<1>7. CASE Initialized
  BY <1>7 DEF Initialized, Typed, Working
<1>8. CASE UNCHANGED vars
  BY <1>8 DEF vars, Typed, Working
<1>9. QED
  BY <1>1, <1>2, <1>3, <1>4, <1>5, <1>6, <1>7, <1>8 DEF Next

\* Every step keeps NoFailure.
LEMMA NextNoFailure ==
  Shape /\ Halfway /\ FirstTime /\ Typed /\ NoFailure /\ [Next]_vars => NoFailure'
<1> SUFFICES ASSUME Shape, Halfway, FirstTime, Typed, NoFailure, [Next]_vars,
                    again' # "failed"
             PROVE  NoFailure'
  BY DEF NoFailure
<1> USE DEF wrapper, app, given, objects, counters, history
<1>1. CASE Initialize
  <2>1. again # "failed" /\ pc' = "collector" /\ sinks' = sinks
    BY <1>1 DEF Initialize
  <2>2. QED
    BY <2>1 DEF NoFailure, Working
<1>2. CASE ConfigureCollector \/ ReaderFails \/ AnalysisFails
  <2>1. /\ sinks' = sinks /\ again # "failed" /\ rtInitialized' = rtInitialized /\ Working
        /\ pc' = "reader" \/ (pc' = "idle" /\ again = "no")
    BY <1>2 DEF ConfigureCollector, ReaderFails, AnalysisFails, Fails, Working, Shape, TypeOK
  <2>2. pc' = "idle" => ~rtInitialized'
    BY <2>1 DEF FirstTime
  <2>3. QED
    BY <2>1, <2>2 DEF NoFailure, Working
<1>3. CASE CreateForReader \/ NextSink
  <2>1. /\ UNCHANGED <<sinks, again>>
        /\ pc' \in {"collector", "reader", "sink", "writer"}
    BY <1>3 DEF CreateForReader, NextSink
  <2>2. QED
    BY <2>1 DEF NoFailure, Working
<1>4. CASE AddSinks
  <2>1. again' = again /\ pc' = "sink"
    BY <1>4 DEF AddSinks
  <2>2. \A e : ~ReleaseFaults(NewSink(e))
    BY DEF ReleaseFaults, NewSink
  <2>3. \A s \in 1..Len(sinks') :
           \/ s \in 1..Len(sinks) /\ sinks'[s] = sinks[s]
           \/ \E e \in BOOLEAN : sinks'[s] = NewSink(e)
    BY <1>4, AddSinksEffect
  <2>4. QED
    BY <2>1, <2>2, <2>3 DEF NoFailure, Working
<1>5. CASE CreateForWriter
  <2>1. /\ again' = again /\ pc' \in {"sink", "writer"} /\ n \in {1, 2, 3, 4}
        /\ k \in 1..Len(sinks) /\ sinks[k] \in SinkType /\ Len(sinks') = Len(sinks)
        /\ \A s \in 1..Len(sinks) : s # k => sinks'[s] = sinks[s]
        /\ pc = "writer"
    BY <1>5, CreateForWriterEffect, Elements DEF CreateForWriter, Shape, TypeOK
  <2>2. sinks'[k].participant # 0
    <3>1. CASE n = 1
      <4>1. sinks'[k] = [sinks[k] EXCEPT !.participant = Fresh]
        BY <1>5, <3>1, CreateForWriterEffect
      <4>2. QED
        BY <2>1, <4>1, FreshIsNew DEF SinkType, Shape, Objects
    <3>2. CASE n = 2
      <4>1. sinks'[k] = [sinks[k] EXCEPT !.endpoint = sinks[k].participant]
        BY <1>5, <3>2, CreateForWriterEffect
      <4>2. QED
        BY <2>1, <3>2, <4>1 DEF SinkType, Halfway
    <3>3. CASE n = 3
      <4>1. sinks'[k] = [sinks[k] EXCEPT !.topic = sinks[k].participant]
        BY <1>5, <3>3, CreateForWriterEffect
      <4>2. QED
        BY <2>1, <3>3, <4>1 DEF SinkType, Halfway
    <3>4. CASE n = 4
      <4>1. sinks'[k] = [sinks[k] EXCEPT !.access = sinks[k].participant]
        BY <1>5, <3>4, CreateForWriterEffect
      <4>2. QED
        BY <2>1, <3>4, <4>1 DEF SinkType, Halfway
    <3>5. QED
      BY <2>1, <3>1, <3>2, <3>3, <3>4
  <2>3. \A s \in 1..Len(sinks') : ~ReleaseFaults(sinks'[s])
    BY <2>1, <2>2 DEF ReleaseFaults, NoFailure
  <2>4. QED
    BY <2>1, <2>3 DEF NoFailure, Working
<1>6. CASE WriterFails
  <2>1. /\ again = "no" /\ pc' = "idle" /\ rtInitialized' = rtInitialized
        /\ pc = "writer" /\ n \in {1, 2, 3, 4}
    BY <1>6 DEF WriterFails, Fails, Shape, TypeOK
  <2>2. ~rtInitialized'
    BY <2>1 DEF FirstTime, Working
  <2>3. /\ k \in 1..Len(sinks) /\ sinks[k] \in SinkType /\ Len(sinks') = Len(sinks)
        /\ \A s \in 1..Len(sinks) : s # k => sinks'[s] = sinks[s]
    BY <1>6, WriterFailsEffect, Elements DEF Shape
  <2>4. sinks'[k].endpoint = 0 /\ sinks'[k].topic = 0
    <3>1. CASE n = 1
      <4>1. sinks'[k] = [sinks[k] EXCEPT !.participant = 0]
        BY <1>6, <3>1, WriterFailsEffect
      <4>2. Untouched(sinks[k])
        BY <2>1, <2>3, <3>1 DEF FirstTime
      <4>3. QED
        BY <2>3, <4>1, <4>2 DEF Untouched, SinkType
    <3>2. CASE n # 1
      BY <1>6, <3>2, WriterFailsEffect
    <3>3. QED
      BY <3>1, <3>2
  <2>5. \A s \in 1..Len(sinks') : ~ReleaseFaults(sinks'[s])
    BY <2>1, <2>3, <2>4 DEF ReleaseFaults, NoFailure
  <2>6. QED
    BY <2>1, <2>2, <2>5 DEF NoFailure
<1>7. CASE Initialized
  <2>1. UNCHANGED <<again, sinks, collectors>> /\ pc = "sink" /\ pc' = "idle"
    BY <1>7 DEF Initialized
  <2>2. QED
    BY <2>1 DEF NoFailure, Typed
<1>8. CASE Run
  <2>1. /\ UNCHANGED <<again, sinks, collectors, rtInitialized>> /\ rtInitialized
        /\ pc = "idle" /\ (pc' = "fault" => PollFaults) /\ pc' \in {"idle", "fault"}
    BY <1>8 DEF Run
  <2>2. \A c \in 1..Len(collectors) : collectors[c].readerType = collectors[c].sampleType
    BY <2>1 DEF NoFailure, Working
  <2>3. ~PollFaults
    BY <2>2, Elements DEF PollFaults, Shape
  <2>4. QED
    BY <2>1, <2>2, <2>3 DEF NoFailure
<1>9. CASE Stop
  <2>1. /\ UNCHANGED <<again, sinks, rtInitialized>> /\ pc = "idle" /\ pc' = "idle"
        /\ Len(collectors') = Len(collectors)
    BY <1>9, StopEffect DEF Stop
  <2>2. \A c \in 1..Len(collectors) :
           /\ collectors'[c].readerType = collectors[c].readerType
           /\ collectors'[c].sampleType = collectors[c].sampleType
    BY <1>9, StopEffect, Elements DEF Shape, CollectorType
  <2>3. QED
    BY <2>1, <2>2 DEF NoFailure, Working
<1>10. CASE Finalize
  <2>1. again' = again /\ \A s \in DOMAIN sinks : ~ReleaseFaults(sinks[s])
    BY <1>10, Elements DEF Finalize, NoFailure, Shape
  <2>2. pc' = "idle" /\ sinks' = <<>> /\ ~rtInitialized'
    BY <1>10, <2>1 DEF Finalize
  <2>3. QED
    BY <2>1, <2>2 DEF NoFailure
<1>11. CASE \/ FinalizeWrapper \/ ConfigureFails
            \/ (\E c \in Configs : Configure(c) \/ ConfigureOverride(c))
  <2>1. UNCHANGED <<again, sinks, collectors, rtInitialized, pc>>
    BY <1>11 DEF FinalizeWrapper, ConfigureFails, Configure, ConfigureOverride
  <2>2. QED
    BY <2>1 DEF NoFailure, Working
<1>12. CASE UNCHANGED vars
  BY <1>12 DEF vars, NoFailure, Working
<1>13. QED
  BY <1>1, <1>2, <1>3, <1>4, <1>5, <1>6, <1>7, <1>8, <1>9, <1>10, <1>11, <1>12 DEF Next

\* Nothing is owned, unreleased or of another type in the beginning.
LEMMA InitFirstTime == Init => FirstTime /\ Typed /\ NoFailure
BY DEF Init, FirstTime, Typed, NoFailure, Working

\* The inductive invariant of all that a repeated initialize can spoil.
LEMMA RepeatInvariant == Spec => [](Shape /\ FirstTime /\ NoFailure)
<1> DEFINE All == Shape /\ Apart /\ Halfway /\ FirstTime /\ Typed /\ NoFailure
<1>1. All /\ [Next]_vars => All'
  BY NextShape, NextApart, NextHalfway, NextFirstTime, NextTyped, NextNoFailure
<1>2. Init => All
  BY InitShape, InitApart, InitFirstTime
<1>3. All => Shape /\ FirstTime /\ NoFailure
  OBVIOUS
<1> HIDE DEF All
<1>4. QED
  BY <1>1, <1>2, <1>3, PTL DEF Spec

\* A participant is left without an owner only if initialize was entered on an
\* application that had been in it and not been finalized: DdsCollector.cpp:136,
\* StageRuntime.cpp:85-94.
THEOREM LeakNeedsReinitHolds == Spec => []LeakNeedsReinit
<1>1. FirstTime => LeakNeedsReinit
  BY DEF FirstTime, LeakNeedsReinit
<1>2. QED
  BY <1>1, RepeatInvariant, PTL

\* The null participant that finalize goes through and the reader of another type in
\* poll are met only after such an initialize failed: DdsDetectionReportSink.cpp:217,
\* DdsCollector.cpp:88-109.
THEOREM FaultNeedsFailedReinitHolds == Spec => []FaultNeedsFailedReinit
<1>1. NoFailure => FaultNeedsFailedReinit
  BY DEF NoFailure, FaultNeedsFailedReinit
<1>2. QED
  BY <1>1, RepeatInvariant, PTL

\* The alert stage has a sink for each enabled configuration and no more, unless
\* initialize was repeated: SecurityClientApp.cpp:127-142.
THEOREM NoSurplusSinksHolds == Spec => []NoSurplusSinks
<1>1. FirstTime => NoSurplusSinks
  BY DEF FirstTime, NoSurplusSinks
<1>2. QED
  BY <1>1, RepeatInvariant, PTL
==============================================================================
