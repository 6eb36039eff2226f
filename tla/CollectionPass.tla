--------------------------- MODULE CollectionPass ---------------------------
(***************************************************************************)
(* One sample's way from the vehicle's topics to the detectors: each       *)
(* collector (DdsCollector) has a DDS reader that keeps the last sample of *)
(* its source; every pass of SecurityClientApp::run polls the collectors   *)
(* in turn (CollectionStage::pollOnce), puts what they took into the       *)
(* observation store and hands the whole batch to the analysis stage.      *)
(* Publishers go on while it does.  A collector that is inactive, or an    *)
(* analysis that fails, ends the run in the middle.                        *)
(*                                                                         *)
(* A sample is its source and its number; several sources may have the     *)
(* same topic.                                                             *)
(***************************************************************************)
EXTENDS Naturals, Sequences

CONSTANTS
  N,           \* the sources 1..N, one collector each
  TopicOf,     \* [1..N -> topics]
  MaxSamples   \* bound: samples each source publishes

ASSUME PassAssumption == N \in Nat /\ MaxSamples \in Nat /\ DOMAIN TopicOf = 1..N

VARIABLES
  published,  \* [1..N -> Nat]: how many samples each source published
  slot,       \* the reader's history: a sample's number, or
              \* Nothing or Invalid (a change of the instance, without data)
  pc,         \* the run thread's place
  k,          \* in pollOnce: the collector, counted from 1
  samples,    \* in pollOnce: what collector k returned and is not stored yet
  batch,      \* outSamples
  store,      \* ObservationStore: the latest sample of each topic, or None
  stored,     \* history variable: everything that was upserted, in order
  analyzed,   \* history variable: everything analyze was given in passes that succeeded
  displaced,  \* history variable: what a newer sample displaced in a reader
  dropped     \* history variable: what was taken in a pass that failed

reader == <<published, slot, displaced>>
pass == <<k, samples, batch, store, stored>>
vars == <<reader, pass, pc, analyzed, dropped>>

Sources == 1..N
Topics == {TopicOf[s] : s \in Sources}
Sample == [from : Sources, seq : 1..MaxSamples]
None == [from |-> 0, seq |-> 0]
Nothing == 0
Invalid == MaxSamples + 1

\* The samples in a sequence.
In(s) == {s[n] : n \in DOMAIN s}
From(s, seq) == [from |-> s, seq |-> seq]

TypeOK ==
  /\ published \in [Sources -> 0..MaxSamples] /\ slot \in [Sources -> 0..Invalid]
  /\ pc \in {"idle", "collector", "poll", "upsert", "analyze", "failed"} /\ k \in 1..N + 1
  /\ In(samples) \cup In(batch) \cup In(stored) \cup In(analyzed) \subseteq Sample
  /\ displaced \cup dropped \subseteq Sample
  /\ store \in [Topics -> Sample \cup {None}]

Init ==
  /\ published = [s \in Sources |-> 0] /\ slot = [s \in Sources |-> Nothing]
  /\ pc = "idle" /\ k = 1 /\ samples = <<>> /\ batch = <<>>
  /\ store = [t \in Topics |-> None]
  /\ stored = <<>> /\ analyzed = <<>> /\ displaced = {} /\ dropped = {}

------------------------------------------------------------------------------
(* The vehicle and DDS.                                                    *)

Displaced(s) == IF slot[s] \in {Nothing, Invalid} THEN {} ELSE {From(s, slot[s])}

Publish(s) ==
  /\ published[s] < MaxSamples
  /\ published' = [published EXCEPT ![s] = @ + 1]
  /\ slot' = [slot EXCEPT ![s] = published'[s]]
  /\ displaced' = displaced \cup Displaced(s)
  /\ UNCHANGED <<pass, pc, analyzed, dropped>>

\* A sample without valid data arrives.
InvalidArrives(s) ==
  /\ slot[s] # Invalid
  /\ slot' = [slot EXCEPT ![s] = Invalid]
  /\ displaced' = displaced \cup Displaced(s)
  /\ UNCHANGED <<published, pass, pc, analyzed, dropped>>

------------------------------------------------------------------------------
(* The run thread.                                                         *)

\* The next pass: samples and outSamples are cleared.
PollOnce ==
  /\ pc = "idle"
  /\ k' = 1 /\ samples' = <<>> /\ batch' = <<>>
  /\ pc' = "collector"
  /\ UNCHANGED <<reader, store, stored, analyzed, dropped>>

\* The guard of poll: the collector runs and has a reader.
Active ==
  /\ pc = "collector" /\ k <= N
  /\ pc' = "poll"
  /\ UNCHANGED <<reader, pass, analyzed, dropped>>

\* poll of an inactive collector: pollOnce returns false at once, and so does run;
\* what earlier collectors gave is in the store but is not analyzed.
Inactive ==
  /\ pc = "collector" /\ k <= N
  /\ pc' = "failed"
  /\ dropped' = dropped \cup In(batch)
  /\ UNCHANGED <<reader, pass, analyzed>>

\* Mutants: valid_data is not looked at; the sample is read but not taken.
TakeAnything ==
  /\ pc = "poll" /\ slot[k] # Nothing
  /\ samples' = Append(samples, From(k, slot[k]))
  /\ slot' = [slot EXCEPT ![k] = Nothing]
  /\ UNCHANGED <<published, displaced, k, batch, store, stored, pc, analyzed, dropped>>

ReadSample ==
  /\ pc = "poll" /\ slot[k] # Nothing
  /\ samples' = IF slot[k] = Invalid THEN samples ELSE Append(samples, From(k, slot[k]))
  /\ pc' = "upsert"
  /\ UNCHANGED <<reader, k, batch, store, stored, analyzed, dropped>>

\* poll: take_next_sample, as long as there is one.
TakeSample ==
  /\ pc = "poll" /\ slot[k] # Nothing
  /\ samples' = IF slot[k] = Invalid THEN samples ELSE Append(samples, From(k, slot[k]))
  /\ slot' = [slot EXCEPT ![k] = Nothing]
  /\ UNCHANGED <<published, displaced, k, batch, store, stored, pc, analyzed, dropped>>

NothingLeft ==
  /\ pc = "poll" /\ slot[k] = Nothing
  /\ pc' = "upsert"
  /\ UNCHANGED <<reader, pass, analyzed, dropped>>

\* Mutant: a sample is stored only if its topic has none of this pass.
UpsertFirst ==
  /\ pc = "upsert" /\ samples # <<>>
  /\ LET sample == Head(samples) IN
       /\ store' = IF store[TopicOf[sample.from]] \in In(batch) THEN store
                   ELSE [store EXCEPT ![TopicOf[sample.from]] = sample]
       /\ batch' = Append(batch, sample)
       /\ stored' = Append(stored, sample)
  /\ samples' = Tail(samples)
  /\ UNCHANGED <<reader, k, pc, analyzed, dropped>>

\* observationStore_.upsert(sample); outSamples.push_back(sample);
Upsert ==
  /\ pc = "upsert" /\ samples # <<>>
  /\ LET sample == Head(samples) IN
       /\ store' = [store EXCEPT ![TopicOf[sample.from]] = sample]
       /\ batch' = Append(batch, sample)
       /\ stored' = Append(stored, sample)
  /\ samples' = Tail(samples)
  /\ UNCHANGED <<reader, k, pc, analyzed, dropped>>

NextCollector ==
  /\ pc = "upsert" /\ samples = <<>>
  /\ k' = k + 1
  /\ pc' = "collector"
  /\ UNCHANGED <<reader, samples, batch, store, stored, analyzed, dropped>>

Polled ==
  /\ pc = "collector" /\ k > N
  /\ pc' = "analyze"
  /\ UNCHANGED <<reader, pass, analyzed, dropped>>

\* Mutant: a pass whose last collector had nothing is not analyzed.
AnalyzeOnNews ==
  /\ pc = "analyze"
  /\ analyzed' = IF batch # <<>> /\ batch[Len(batch)].from = N THEN analyzed \o batch ELSE analyzed
  /\ pc' = "idle"
  /\ k' = 1 /\ batch' = <<>> /\ UNCHANGED <<reader, samples, store, stored, dropped>>

\* analyze takes the batch, and the pass is over; the batch is not used again.
Analyze ==
  /\ pc = "analyze"
  /\ analyzed' = analyzed \o batch
  /\ pc' = "idle"
  /\ k' = 1 /\ batch' = <<>> /\ UNCHANGED <<reader, samples, store, stored, dropped>>

\* analyze or the publishing of its findings fails: run returns.
AnalyzeFails ==
  /\ pc = "analyze"
  /\ dropped' = dropped \cup In(batch)
  /\ pc' = "failed"
  /\ UNCHANGED <<reader, pass, analyzed>>

Run == \/ PollOnce \/ Active \/ Inactive \/ TakeSample \/ NothingLeft \/ Upsert
       \/ NextCollector \/ Polled \/ Analyze \/ AnalyzeFails

Next == Run \/ \E s \in Sources : Publish(s) \/ InvalidArrives(s)

Spec == Init /\ [][Next]_vars

------------------------------------------------------------------------------
(* Properties.                                                             *)

\* Every published sample is in exactly one place: in its reader, displaced there
\* by a newer one, on its way in this pass, analyzed, or dropped with a pass that
\* failed and ended the run.  DdsCollector.cpp:88-110, CollectionStage.cpp:111-127.
Waiting == {From(s, slot[s]) : s \in {s \in Sources : slot[s] \notin {Nothing, Invalid}}}
Places == <<Waiting, displaced, In(samples),
            IF pc = "failed" THEN dropped ELSE In(batch), In(analyzed)>>
SampleFate ==
  /\ UNION {Places[p] : p \in 1..5} = {From(s, seq) : s \in Sources, seq \in 1..MaxSamples}
                                      \cap {x \in Sample : x.seq <= published[x.from]}
  /\ \A p, q \in 1..5 : p < q => Places[p] \cap Places[q] = {}
  /\ pc # "failed" => dropped = {}

\* A detector that reads the store sees what one that reads the batch sees: for each
\* topic the batch has samples of, its last one.  CollectionStage.cpp:122-126.
StoreMatchesBatch ==
  pc = "analyze" =>
    \A n \in DOMAIN batch :
      LET topic == TopicOf[batch[n].from] IN
        (\A m \in n + 1..Len(batch) : TopicOf[batch[m].from] # topic) => store[topic] = batch[n]

\* The way into the store implements ReportRelay: the samples of each source get in
\* in the order they were published, at most once, and none that was not.
\* DdsCollector.cpp:76-115, CollectionStage.cpp:100-131.
Relay == INSTANCE ReportRelay WITH Clients <- Sources, relayed <- stored
StoreRelay == Relay!Spec
==============================================================================
