------------------------ MODULE CollectionPass_proofs ------------------------
(***************************************************************************)
(* CollectionPass implements ReportRelay for any number of sources, any    *)
(* assignment of topics to them and any number of samples.                 *)
(***************************************************************************)
EXTENDS CollectionPass, SequenceTheorems, TLAPS

Samples == [from : Sources, seq : Nat]

\* Sample n of source s is newer than every one of s in the log.
NewerThan(log, s, n) == \A i \in 1..Len(log) : log[i].from = s => log[i].seq < n

\* What the reader of source s holds, if it is a sample.
Held(s) == slot[s] \notin {Nothing, Invalid}

Types ==
  /\ published \in [Sources -> 0..MaxSamples]
  /\ slot \in [Sources -> 0..MaxSamples + 1]
  /\ samples \in Seq(Samples) /\ stored \in Seq(Samples) /\ k \in Nat \ {0}

\* Only the collector at work has samples in hand.
InHand ==
  /\ samples # <<>> => pc \in {"poll", "upsert"}
  /\ pc \in {"poll", "upsert"} => k \in Sources
  /\ \A i \in 1..Len(samples) : samples[i].from = k

\* Each source's samples get newer from the store over the hand to the reader, and
\* none is newer than what was published.
Ordered ==
  /\ \A i \in 1..Len(stored) : stored[i].seq \in 1..published[stored[i].from]
  /\ \A i \in 1..Len(samples) : /\ samples[i].seq \in 1..published[samples[i].from]
                                /\ NewerThan(stored, samples[i].from, samples[i].seq)
  /\ \A i, j \in 1..Len(samples) : i < j => samples[i].seq < samples[j].seq
  /\ \A s \in Sources : Held(s) => /\ slot[s] \in 1..published[s]
                                   /\ NewerThan(stored, s, slot[s])
                                   /\ NewerThan(samples, s, slot[s])

Inv == Types /\ InHand /\ Ordered

LEMMA InvInit == Init => Inv
  BY PassAssumption DEF Init, Inv, Types, InHand, Ordered, Held, Nothing, Invalid, Samples

\* A new sample is newer than everything on its way.
LEMMA PublishInv == ASSUME Inv, NEW s \in Sources, Publish(s) PROVE Inv'
<1>1. /\ published' = [published EXCEPT ![s] = published[s] + 1]
      /\ slot' = [slot EXCEPT ![s] = published[s] + 1]
      /\ UNCHANGED <<samples, stored, pc, k>> /\ published[s] < MaxSamples
  BY DEF Publish, pass, Inv, Types
<1>2. \A t \in Sources : published[t] \in Nat /\ published'[t] \in Nat /\ published[t] <= published'[t]
  BY <1>1, PassAssumption DEF Inv, Types
<1>3. Types'
  BY <1>1, PassAssumption DEF Inv, Types
<1>4. InHand'
  BY <1>1 DEF Inv, InHand
<1>5. /\ \A i \in 1..Len(stored) : stored[i] \in Samples
      /\ \A i \in 1..Len(samples) : samples[i] \in Samples
  BY DEF Inv, Types
<1>6. /\ \A i \in 1..Len(stored') : stored'[i].seq \in 1..published'[stored'[i].from]
      /\ \A i \in 1..Len(samples') : samples'[i].seq \in 1..published'[samples'[i].from]
  BY <1>1, <1>2, <1>5 DEF Inv, Ordered, Samples
<1>7. /\ \A i \in 1..Len(samples') : NewerThan(stored', samples'[i].from, samples'[i].seq)
      /\ \A i, j \in 1..Len(samples') : i < j => samples'[i].seq < samples'[j].seq
  BY <1>1 DEF Inv, Ordered, NewerThan
<1>8. ASSUME NEW t \in Sources, Held(t)'
      PROVE  /\ slot'[t] \in 1..published'[t]
             /\ NewerThan(stored', t, slot'[t]) /\ NewerThan(samples', t, slot'[t])
  <2>1. CASE t = s
    <3>1. slot'[s] = published[s] + 1 /\ published'[s] = published[s] + 1
      BY <1>1 DEF Inv, Types
    <3>2. NewerThan(stored, s, published[s] + 1) /\ NewerThan(samples, s, published[s] + 1)
      BY <1>2, <1>5 DEF Inv, Ordered, NewerThan, Samples
    <3> QED
      BY <1>1, <1>2, <2>1, <3>1, <3>2 DEF NewerThan
  <2>2. CASE t # s
    <3>1. slot'[t] = slot[t] /\ published'[t] = published[t] /\ Held(t)
      BY <1>1, <1>8, <2>2 DEF Inv, Types, Held
    <3> QED
      BY <1>1, <3>1 DEF Inv, Ordered, NewerThan
  <2> QED
    BY <2>1, <2>2
<1> QED
  BY <1>3, <1>4, <1>6, <1>7, <1>8 DEF Inv, Ordered

LEMMA InvalidInv == ASSUME Inv, NEW s \in Sources, InvalidArrives(s) PROVE Inv'
<1>1. /\ slot' = [slot EXCEPT ![s] = MaxSamples + 1]
      /\ UNCHANGED <<published, samples, stored, pc, k>>
  BY DEF InvalidArrives, pass, Invalid
<1>2. \A t \in Sources : Held(t)' => slot'[t] = slot[t] /\ Held(t)
  BY <1>1 DEF Inv, Types, Held, Invalid
<1>3. Types' /\ InHand'
  BY <1>1, PassAssumption DEF Inv, Types, InHand
<1>4. Ordered'
  BY <1>1, <1>2 DEF Inv, Ordered, NewerThan
<1> QED
  BY <1>3, <1>4 DEF Inv

\* What is taken from the reader is newer than what was taken before it.
LEMMA TakeInv == ASSUME Inv, TakeSample PROVE Inv'
<1>1. /\ pc = "poll" /\ slot[k] # Nothing /\ k \in Sources
      /\ slot' = [slot EXCEPT ![k] = Nothing]
      /\ UNCHANGED <<published, stored, pc, k>>
  BY DEF TakeSample, Inv, InHand
<1>2. \A t \in Sources : Held(t)' => slot'[t] = slot[t] /\ Held(t) /\ t # k
  BY <1>1 DEF Inv, Types, Held
<1>3. slot' \in [Sources -> 0..MaxSamples + 1]
  BY <1>1, PassAssumption DEF Inv, Types, Nothing
<1>4. CASE slot[k] = Invalid
  <2>1. samples' = samples
    BY <1>4 DEF TakeSample
  <2>2. Types' /\ InHand'
    BY <1>1, <1>3, <2>1 DEF Inv, Types, InHand
  <2>3. Ordered'
    BY <1>1, <1>2, <2>1 DEF Inv, Ordered, NewerThan
  <2> QED
    BY <2>2, <2>3 DEF Inv
<1>5. CASE slot[k] # Invalid
  <2> DEFINE x == From(k, slot[k])
  <2>1. samples' = Append(samples, x) /\ x.from = k /\ x.seq = slot[k]
    BY <1>5 DEF TakeSample, From
  <2>2. Held(k) /\ slot[k] \in 1..published[k] /\ NewerThan(stored, k, slot[k])
        /\ NewerThan(samples, k, slot[k])
    BY <1>1, <1>5 DEF Inv, Ordered, Held
  <2>3. x \in Samples
    BY <1>1, <2>2 DEF Samples, From, Inv, Types
  <2>4. /\ Len(samples') = Len(samples) + 1 /\ Len(samples) \in Nat
        /\ \A i \in 1..Len(samples) : samples'[i] = samples[i]
        /\ samples'[Len(samples) + 1] = x /\ samples' \in Seq(Samples)
    BY <2>1, <2>3 DEF Inv, Types
  <2>5. Types' /\ InHand'
    BY <1>1, <1>3, <2>1, <2>4 DEF Inv, Types, InHand
  <2>6. \A i \in 1..Len(samples') : /\ samples'[i].seq \in 1..published[samples'[i].from]
                                    /\ NewerThan(stored, samples'[i].from, samples'[i].seq)
    BY <2>1, <2>2, <2>4 DEF Inv, Ordered
  <2>7. \A i, j \in 1..Len(samples') : i < j => samples'[i].seq < samples'[j].seq
    <3> SUFFICES ASSUME NEW i \in 1..Len(samples'), NEW j \in 1..Len(samples'), i < j
                 PROVE  samples'[i].seq < samples'[j].seq
      OBVIOUS
    <3>1. i \in 1..Len(samples)
      BY <2>4
    <3>2. CASE j \in 1..Len(samples)
      BY <2>4, <3>1, <3>2 DEF Inv, Ordered
    <3>3. CASE j = Len(samples) + 1
      BY <2>1, <2>2, <2>4, <3>1, <3>3 DEF Inv, InHand, NewerThan
    <3> QED
      BY <2>4, <3>2, <3>3
  <2>8. ASSUME NEW t \in Sources, Held(t)'
        PROVE  NewerThan(samples', t, slot'[t])
    BY <1>2, <2>1, <2>4, <2>8 DEF Inv, Ordered, NewerThan
  <2>9. Ordered'
    BY <1>1, <1>2, <2>6, <2>7, <2>8 DEF Inv, Ordered, NewerThan
  <2> QED
    BY <2>5, <2>9 DEF Inv
<1> QED
  BY <1>4, <1>5

\* The first sample in hand goes into the store; the others, and what the reader
\* holds, are newer.
LEMMA UpsertInv ==
  ASSUME Inv, Upsert
  PROVE  /\ Inv'
         /\ stored' = Append(stored, Head(samples)) /\ UNCHANGED published
         /\ Head(samples) \in Samples
         /\ Head(samples).seq \in 1..published[Head(samples).from]
         /\ NewerThan(stored, Head(samples).from, Head(samples).seq)
<1> DEFINE x == Head(samples)
<1>1. /\ pc = "upsert" /\ samples # <<>> /\ k \in Sources
      /\ stored' = Append(stored, x) /\ samples' = Tail(samples)
      /\ UNCHANGED <<published, slot, pc, k>>
  BY DEF Upsert, reader, Inv, InHand
<1>2. Len(samples) \in Nat \ {0} /\ x = samples[1] /\ x \in Samples /\ 1 \in 1..Len(samples)
  BY <1>1 DEF Inv, Types
<1>3. /\ Len(samples') = Len(samples) - 1 /\ samples' \in Seq(Samples)
      /\ \A i \in 1..Len(samples') : i + 1 \in 1..Len(samples) /\ samples'[i] = samples[i + 1]
  BY <1>1, <1>2 DEF Inv, Types
<1>4. /\ Len(stored') = Len(stored) + 1 /\ Len(stored) \in Nat /\ stored' \in Seq(Samples)
      /\ \A i \in 1..Len(stored) : stored'[i] = stored[i]
      /\ stored'[Len(stored) + 1] = x
  BY <1>1, <1>2 DEF Inv, Types
<1>5. x.from = k /\ x.seq \in 1..published[x.from] /\ NewerThan(stored, x.from, x.seq)
  BY <1>2 DEF Inv, Ordered, InHand
<1>6. Types' /\ InHand'
  BY <1>1, <1>3, <1>4 DEF Inv, Types, InHand
<1>7. \A i \in 1..Len(stored') : stored'[i].seq \in 1..published[stored'[i].from]
  BY <1>4, <1>5 DEF Inv, Ordered
<1>8. ASSUME NEW i \in 1..Len(samples')
      PROVE  /\ samples'[i].seq \in 1..published[samples'[i].from]
             /\ NewerThan(stored', samples'[i].from, samples'[i].seq)
  <2>1. samples'[i] = samples[i + 1] /\ i + 1 \in 1..Len(samples) /\ x.seq < samples[i + 1].seq
    BY <1>2, <1>3 DEF Inv, Ordered
  <2>2. /\ samples[i + 1].seq \in 1..published[samples[i + 1].from]
        /\ NewerThan(stored, samples[i + 1].from, samples[i + 1].seq)
    BY <2>1 DEF Inv, Ordered
  <2>3. NewerThan(stored', samples[i + 1].from, samples[i + 1].seq)
    <3> SUFFICES ASSUME NEW m \in 1..Len(stored'), stored'[m].from = samples[i + 1].from
                 PROVE  stored'[m].seq < samples[i + 1].seq
      BY DEF NewerThan
    <3>1. CASE m \in 1..Len(stored)
      BY <1>4, <2>2, <3>1 DEF NewerThan
    <3>2. CASE m = Len(stored) + 1
      BY <1>4, <2>1, <3>2
    <3> QED
      BY <1>4, <3>1, <3>2
  <2> QED
    BY <1>1, <2>1, <2>2, <2>3
<1>9. ASSUME NEW i \in 1..Len(samples'), NEW j \in 1..Len(samples'), i < j
      PROVE  samples'[i].seq < samples'[j].seq
  <2>1. /\ i + 1 \in 1..Len(samples) /\ j + 1 \in 1..Len(samples) /\ i + 1 < j + 1
        /\ samples'[i] = samples[i + 1] /\ samples'[j] = samples[j + 1]
    BY <1>3, <1>9
  <2> QED
    BY <2>1 DEF Inv, Ordered
<1>10. ASSUME NEW t \in Sources, Held(t)'
       PROVE  /\ slot'[t] \in 1..published'[t]
              /\ NewerThan(stored', t, slot'[t]) /\ NewerThan(samples', t, slot'[t])
  <2>1. /\ Held(t) /\ slot'[t] = slot[t] /\ slot[t] \in 1..published[t]
        /\ NewerThan(stored, t, slot[t]) /\ NewerThan(samples, t, slot[t])
    BY <1>1, <1>10 DEF Inv, Ordered, Held
  <2>2. NewerThan(stored', t, slot[t])
    BY <1>2, <1>4, <2>1 DEF NewerThan
  <2>3. NewerThan(samples', t, slot[t])
    BY <1>3, <2>1 DEF NewerThan
  <2> QED
    BY <1>1, <2>1, <2>2, <2>3
<1>11. Ordered'
  BY <1>1, <1>7, <1>8, <1>9, <1>10 DEF Ordered
<1> QED
  BY <1>1, <1>2, <1>5, <1>6, <1>11 DEF Inv

\* The other steps only move the place in the pass.
Moves == \/ PollOnce \/ Active \/ Inactive \/ NothingLeft \/ NextCollector
         \/ Polled \/ Analyze \/ AnalyzeFails \/ UNCHANGED vars

LEMMA MovesInv == ASSUME Inv, Moves PROVE Inv' /\ UNCHANGED <<published, stored>>
<1>1. UNCHANGED <<published, slot, stored>>
  BY DEF Moves, PollOnce, Active, Inactive, NothingLeft, NextCollector, Polled, Analyze,
         AnalyzeFails, vars, reader, pass
<1>2. \/ samples' = samples
      \/ samples' = <<>> /\ pc' = "collector"
  BY DEF Moves, PollOnce, Active, Inactive, NothingLeft, NextCollector, Polled, Analyze,
         AnalyzeFails, vars, reader, pass
<1>3. k' \in Nat \ {0}
  BY DEF Moves, PollOnce, Active, Inactive, NothingLeft, NextCollector, Polled, Analyze,
         AnalyzeFails, vars, reader, pass, Inv, Types
<1>4. /\ samples' # <<>> => pc' \in {"poll", "upsert"} /\ k' = k
      /\ pc' \in {"poll", "upsert"} => k' \in Sources
  BY DEF Moves, PollOnce, Active, Inactive, NothingLeft, NextCollector, Polled, Analyze,
         AnalyzeFails, vars, reader, pass, Inv, Types, InHand, Sources
<1>5. Ordered'
  BY <1>1, <1>2 DEF Inv, Ordered, Held, NewerThan
<1>6. Types'
  <2>1. <<>> \in Seq(Samples)
    OBVIOUS
  <2>2. samples' \in Seq(Samples)
    BY <1>2, <2>1 DEF Inv, Types
  <2> QED
    BY <1>1, <1>3, <2>2 DEF Inv, Types
<1>7. InHand'
  <2>1. CASE samples' = <<>>
    BY <1>4, <2>1 DEF InHand
  <2>2. CASE samples' # <<>>
    BY <1>2, <1>4, <2>2 DEF Inv, InHand
  <2> QED
    BY <2>1, <2>2
<1> QED
  BY <1>1, <1>5, <1>6, <1>7 DEF Inv

LEMMA InvStep == Inv /\ [Next]_vars => Inv'
  BY PublishInv, InvalidInv, TakeInv, UpsertInv, MovesInv DEF Next, Run, Moves

\* The samples of each source get into the observation store in the order they were
\* published, at most once and none that was not: DdsCollector.cpp:76-115,
\* CollectionStage.cpp:100-131.
THEOREM ImplementsRelay == Spec => StoreRelay
<1>1. Init => Relay!Init
  BY DEF Init, Relay!Init
<1>2. Inv /\ [Next]_vars => [Relay!Next]_Relay!vars
  <2> SUFFICES ASSUME Inv, [Next]_vars
               PROVE  Relay!Next \/ UNCHANGED <<published, stored>>
    BY DEF Relay!vars
  <2>1. ASSUME NEW s \in Sources, Publish(s)
        PROVE  Relay!Next
    BY <2>1 DEF Publish, pass, Relay!Next, Relay!Publish
  <2>2. CASE \E s \in Sources : InvalidArrives(s)
    BY <2>2 DEF InvalidArrives, pass
  <2>3. CASE TakeSample
    BY <2>3 DEF TakeSample
  <2>4. CASE Upsert
    <3> DEFINE x == Head(samples)
    <3>1. /\ stored' = Append(stored, x) /\ UNCHANGED published /\ x \in Samples
          /\ x.seq \in 1..published[x.from] /\ NewerThan(stored, x.from, x.seq)
      BY <2>4, UpsertInv
    <3>2. x.from \in Sources /\ x = [from |-> x.from, seq |-> x.seq]
      BY <3>1 DEF Samples
    <3>3. Relay!Relay(x.from, x.seq)
      BY <3>1, <3>2 DEF Relay!Relay, Relay!Newer, NewerThan
    <3> QED
      BY <3>1, <3>2, <3>3 DEF Relay!Next
  <2>5. CASE Moves
    BY <2>5, MovesInv
  <2> QED
    BY <2>1, <2>2, <2>3, <2>4, <2>5 DEF Next, Run, Moves
<1> QED
  BY <1>1, <1>2, InvInit, InvStep, PTL DEF Spec, StoreRelay, Relay!Spec

------------------------------------------------------------------------------
(* Where each sample is.                                                   *)

\* The samples in a sequence, as it grows and shrinks.
LEMMA Elements ==
  ASSUME NEW S, NEW s \in Seq(S)
  PROVE  /\ In(s) = {s[i] : i \in 1..Len(s)} /\ In(s) \subseteq S
         /\ s = <<>> => In(s) = {}
  BY DEF In

LEMMA AppendElements ==
  ASSUME NEW S, NEW s \in Seq(S), NEW x \in S
  PROVE  Append(s, x) \in Seq(S) /\ In(Append(s, x)) = In(s) \cup {x}
<1> DEFINE t == Append(s, x)
<1>1. /\ t \in Seq(S) /\ Len(t) = Len(s) + 1 /\ Len(s) \in Nat
      /\ \A i \in 1..Len(s) : t[i] = s[i]
      /\ t[Len(s) + 1] = x
  BY AppendProperties
<1> HIDE DEF t
<1>2. In(s) = {s[i] : i \in 1..Len(s)} /\ In(t) = {t[i] : i \in 1..Len(t)}
  BY <1>1, Elements
<1>3. 1..Len(t) = 1..Len(s) \cup {Len(s) + 1}
  BY <1>1
<1> QED
  BY <1>1, <1>2, <1>3 DEF t

LEMMA TailElements ==
  ASSUME NEW S, NEW s \in Seq(S), s # <<>>
  PROVE  /\ Head(s) \in S /\ Tail(s) \in Seq(S)
         /\ In(s) = {Head(s)} \cup In(Tail(s))
<1> DEFINE t == Tail(s)
<1>1. /\ t \in Seq(S) /\ Len(t) = Len(s) - 1 /\ Len(s) \in Nat \ {0} /\ Head(s) = s[1]
      /\ \A i \in 1..Len(t) : t[i] = s[i + 1]
  BY HeadTailProperties, EmptySeq, LenProperties
<1> HIDE DEF t
<1>2. In(s) = {s[i] : i \in 1..Len(s)} /\ In(t) = {t[i] : i \in 1..Len(t)}
  BY <1>1, Elements
<1>3. \A x : x \in In(s) => x = s[1] \/ x \in In(t)
  <2> SUFFICES ASSUME NEW i \in 1..Len(s), i # 1 PROVE s[i] \in In(t)
    BY <1>2
  <2>1. i - 1 \in 1..Len(t) /\ t[i - 1] = s[i]
    BY <1>1
  <2> QED
    BY <1>2, <2>1
<1>4. \A x : x \in In(t) => x \in In(s)
  <2> SUFFICES ASSUME NEW i \in 1..Len(t) PROVE t[i] \in In(s)
    BY <1>2
  <2>1. i + 1 \in 1..Len(s) /\ t[i] = s[i + 1]
    BY <1>1
  <2> QED
    BY <1>2, <2>1
<1>5. s[1] \in In(s) /\ s[1] \in S
  BY <1>1, <1>2
<1>6. t \in Seq(S) /\ Head(s) \in S /\ In(s) = {Head(s)} \cup In(t)
  BY <1>1, <1>3, <1>4, <1>5
<1> QED
  BY <1>6 DEF t

LEMMA ConcatElements ==
  ASSUME NEW S, NEW s \in Seq(S), NEW t \in Seq(S)
  PROVE  s \o t \in Seq(S) /\ In(s \o t) = In(s) \cup In(t)
<1> DEFINE u == s \o t
<1>1. /\ u \in Seq(S) /\ Len(u) = Len(s) + Len(t) /\ Len(s) \in Nat /\ Len(t) \in Nat
      /\ \A i \in 1..Len(s) : u[i] = s[i]
      /\ \A i \in Len(s) + 1..Len(u) : u[i] = t[i - Len(s)]
  BY ConcatProperties, LenProperties
<1> HIDE DEF u
<1>2. /\ In(s) = {s[i] : i \in 1..Len(s)} /\ In(t) = {t[i] : i \in 1..Len(t)}
      /\ In(u) = {u[i] : i \in 1..Len(u)}
  BY <1>1, Elements
<1>3. \A x : x \in In(u) => x \in In(s) \cup In(t)
  <2> SUFFICES ASSUME NEW i \in 1..Len(u) PROVE u[i] \in In(s) \cup In(t)
    BY <1>2
  <2>1. CASE i \in 1..Len(s)
    BY <1>1, <1>2, <2>1
  <2>2. CASE i \notin 1..Len(s)
    <3>1. i \in Len(s) + 1..Len(u) /\ i - Len(s) \in 1..Len(t)
      BY <1>1, <2>2
    <3> QED
      BY <1>1, <1>2, <3>1
  <2> QED
    BY <2>1, <2>2
<1>4. \A x : x \in In(s) => x \in In(u)
  <2> SUFFICES ASSUME NEW i \in 1..Len(s) PROVE s[i] \in In(u)
    BY <1>2
  <2>1. i \in 1..Len(u) /\ u[i] = s[i]
    BY <1>1
  <2> QED
    BY <1>2, <2>1
<1>5. \A x : x \in In(t) => x \in In(u)
  <2> SUFFICES ASSUME NEW i \in 1..Len(t) PROVE t[i] \in In(u)
    BY <1>2
  <2>1. i + Len(s) \in Len(s) + 1..Len(u) /\ i + Len(s) \in 1..Len(u)
        /\ (i + Len(s)) - Len(s) = i
    BY <1>1
  <2>2. u[i + Len(s)] = t[i]
    BY <1>1, <2>1
  <2> QED
    BY <1>2, <2>1, <2>2
<1>6. u \in Seq(S) /\ In(u) = In(s) \cup In(t)
  BY <1>1, <1>3, <1>4, <1>5
<1> QED
  BY <1>6 DEF u

\* The samples that were published.
Published == {x \in Sample : x.seq <= published[x.from]}

Shape ==
  /\ pc \in {"idle", "collector", "poll", "upsert", "analyze", "failed"} /\ k \in 1..N + 1
  /\ batch \in Seq(Samples) /\ analyzed \in Seq(Samples)
  /\ store \in [Topics -> Sample \cup {None}]

\* The batch is empty between two passes; only the pass that failed dropped anything, and
\* that was its batch.
InPass ==
  /\ pc = "idle" => batch = <<>>
  /\ dropped = IF pc = "failed" THEN In(batch) ELSE {}

\* What was analyzed and what is about to be went through the store, and not twice; what
\* a newer sample displaced did not, and never will.
Placed ==
  /\ displaced \cup Waiting \subseteq Published
  /\ In(batch) \cup In(analyzed) \subseteq In(stored)
  /\ In(batch) \cap In(analyzed) = {}
  /\ displaced \cap (In(stored) \cup In(samples) \cup Waiting) = {}
  /\ Published \subseteq Waiting \cup displaced \cup In(samples) \cup In(batch) \cup In(analyzed)

FateInv == Inv /\ Shape /\ InPass /\ Placed

\* What the reader holds is newer than what was taken from it, and what is in hand
\* than what is stored.
LEMMA ApartInOrder ==
  ASSUME Inv
  PROVE  /\ In(samples) \cap In(stored) = {} /\ Waiting \cap In(stored) = {}
         /\ Waiting \cap In(samples) = {}
         /\ In(samples) \cup In(stored) \cup Waiting \subseteq Published
<1>1. /\ In(samples) = {samples[i] : i \in 1..Len(samples)}
      /\ In(stored) = {stored[i] : i \in 1..Len(stored)}
      /\ \A i \in 1..Len(samples) : samples[i] \in Samples
      /\ \A i \in 1..Len(stored) : stored[i] \in Samples
  BY Elements DEF Inv, Types
<1>2. ASSUME NEW x \in In(samples), x \in In(stored)
      PROVE  FALSE
  <2>1. PICK i \in 1..Len(samples) : x = samples[i]
    BY <1>1
  <2>2. PICK j \in 1..Len(stored) : x = stored[j]
    BY <1>1, <1>2
  <2>3. NewerThan(stored, x.from, x.seq) /\ x.seq \in Nat
    BY <1>1, <2>1 DEF Inv, Ordered, Samples
  <2> QED
    BY <2>2, <2>3 DEF NewerThan
<1>3. ASSUME NEW x \in Waiting
      PROVE  /\ x \in Samples /\ x.seq \in 1..published[x.from]
             /\ NewerThan(stored, x.from, x.seq) /\ NewerThan(samples, x.from, x.seq)
  <2>1. PICK s \in Sources : Held(s) /\ x = From(s, slot[s])
    BY DEF Waiting, Held
  <2>2. x.from = s /\ x.seq = slot[s]
    BY <2>1 DEF From
  <2>3. slot[s] \in Nat
    BY PassAssumption DEF Inv, Types
  <2> QED
    BY <2>1, <2>2, <2>3 DEF Inv, Ordered, From, Samples
<1>4. ASSUME NEW x \in Waiting, x \in In(stored)
      PROVE  FALSE
  <2>1. PICK j \in 1..Len(stored) : x = stored[j]
    BY <1>1, <1>4
  <2>2. x.seq \in Nat
    BY <1>3 DEF Samples
  <2> QED
    BY <1>3, <2>1, <2>2 DEF NewerThan
<1>5. ASSUME NEW x \in Waiting, x \in In(samples)
      PROVE  FALSE
  <2>1. PICK j \in 1..Len(samples) : x = samples[j]
    BY <1>1, <1>5
  <2>2. x.seq \in Nat
    BY <1>3 DEF Samples
  <2> QED
    BY <1>3, <2>1, <2>2 DEF NewerThan
<1>6. ASSUME NEW x \in In(samples) \cup In(stored) \cup Waiting
      PROVE  x \in Published
  <2>1. x \in Samples /\ x.seq \in 1..published[x.from]
    BY <1>1, <1>3 DEF Inv, Ordered
  <2>2. x.from \in Sources /\ x = [from |-> x.from, seq |-> x.seq]
    BY <2>1 DEF Samples
  <2>3. published[x.from] \in 0..MaxSamples
    BY <2>2 DEF Inv, Types
  <2>4. x.seq \in 1..MaxSamples /\ x.seq <= published[x.from]
    BY <2>1, <2>3, PassAssumption
  <2> QED
    BY <2>2, <2>4 DEF Published, Sample
<1> QED
  BY <1>2, <1>4, <1>5, <1>6

LEMMA FateInit == Init => FateInv
<1> SUFFICES ASSUME Init PROVE FateInv
  OBVIOUS
<1>1. <<>> \in Seq(Samples) /\ In(<<>>) = {}
  BY Elements, EmptySeq
<1>2. Shape /\ InPass
  BY <1>1, PassAssumption DEF Init, Shape, InPass, Topics
<1>3. Waiting = {} /\ Published = {}
  BY DEF Init, Waiting, Published, Sample, Nothing
<1> QED
  BY <1>1, <1>2, <1>3, InvInit DEF Init, FateInv, Placed

\* A publication puts one sample into the reader, and there displaces one at most.
LEMMA PublishFate == ASSUME FateInv, NEW s \in Sources, Publish(s) PROVE FateInv'
<1> DEFINE x == From(s, published[s] + 1)
<1>1. /\ published' = [published EXCEPT ![s] = published[s] + 1]
      /\ slot' = [slot EXCEPT ![s] = published[s] + 1]
      /\ displaced' = displaced \cup Displaced(s) /\ published[s] < MaxSamples
      /\ UNCHANGED <<pass, pc, analyzed, dropped>>
  BY DEF Publish, FateInv, Inv, Types
<1>2. Shape' /\ InPass'
  BY <1>1 DEF FateInv, Shape, InPass, pass
<1>3. published[s] + 1 \in 1..MaxSamples /\ published[s] + 1 \notin {Nothing, Invalid}
  BY <1>1, PassAssumption DEF FateInv, Inv, Types, Nothing, Invalid
<1>4. Displaced(s) \subseteq Waiting /\ x \notin Published
  BY <1>3, PassAssumption DEF Displaced, Waiting, Published, From, FateInv, Inv, Types
<1>5. Waiting' = (Waiting \ Displaced(s)) \cup {x}
  <2>1. ASSUME NEW t \in Sources, t # s
        PROVE  slot'[t] = slot[t]
    BY <1>1, <2>1 DEF FateInv, Inv, Types
  <2>2. slot'[s] = published[s] + 1
    BY <1>1 DEF FateInv, Inv, Types
  <2>3. \A t \in Sources : t # s => From(t, slot[t]) \notin Displaced(s)
    BY DEF Displaced, From
  <2>4. \A y : y \in Waiting' => y = x \/ (y \in Waiting /\ y \notin Displaced(s))
    <3> SUFFICES ASSUME NEW t \in Sources, slot'[t] \notin {Nothing, Invalid}, t # s
                 PROVE  From(t, slot'[t]) \in Waiting \ Displaced(s)
      BY <2>2 DEF Waiting
    <3> QED
      BY <2>1, <2>3 DEF Waiting
  <2>5. \A y : y \in Waiting /\ y \notin Displaced(s) => y \in Waiting'
    <3> SUFFICES ASSUME NEW t \in Sources, slot[t] \notin {Nothing, Invalid},
                        From(t, slot[t]) \notin Displaced(s)
                 PROVE  From(t, slot[t]) \in Waiting'
      BY DEF Waiting
    <3>1. t # s
      BY DEF Displaced
    <3> QED
      BY <2>1, <3>1 DEF Waiting
  <2>6. x \in Waiting'
    BY <1>3, <2>2 DEF Waiting
  <2> QED
    BY <2>4, <2>5, <2>6
<1>6. Published' = Published \cup {x}
  <2>1. ASSUME NEW y \in Sample
        PROVE  y.seq <= published'[y.from] <=> y.seq <= published[y.from] \/ y = x
    <3>1. y.from \in Sources /\ y.seq \in 1..MaxSamples /\ y = From(y.from, y.seq)
      BY DEF Sample, From
    <3>2. CASE y.from = s
      <4>1. published'[y.from] = published[s] + 1 /\ published[s] \in Nat
        BY <1>1, <3>2, PassAssumption DEF FateInv, Inv, Types
      <4>2. y = x <=> y.seq = published[s] + 1
        BY <3>1, <3>2 DEF From
      <4> QED
        BY <3>1, <3>2, <4>1, <4>2, PassAssumption
    <3>3. CASE y.from # s
      <4>1. published'[y.from] = published[y.from] /\ y # x
        BY <1>1, <3>1, <3>3 DEF FateInv, Inv, Types, From
      <4> QED
        BY <4>1
    <3> QED
      BY <3>2, <3>3
  <2>2. x \in Sample
    BY <1>3 DEF Sample, From
  <2> HIDE DEF x
  <2> QED
    BY <2>1, <2>2 DEF Published
<1> HIDE DEF x
<1>7. /\ Waiting \cap (In(stored) \cup In(samples)) = {}
      /\ In(samples) \cup In(stored) \subseteq Published
  BY ApartInOrder DEF FateInv
<1>8. UNCHANGED <<In(stored), In(samples), In(batch), In(analyzed)>>
  BY <1>1 DEF pass
<1>9. Placed'
  BY <1>1, <1>4, <1>5, <1>6, <1>7, <1>8 DEF FateInv, Placed
<1> QED
  BY <1>2, <1>9, PublishInv DEF FateInv

\* A change of the instance displaces one sample at most.
LEMMA InvalidFate == ASSUME FateInv, NEW s \in Sources, InvalidArrives(s) PROVE FateInv'
<1>1. /\ slot' = [slot EXCEPT ![s] = Invalid]
      /\ displaced' = displaced \cup Displaced(s)
      /\ UNCHANGED <<published, pass, pc, analyzed, dropped>>
  BY DEF InvalidArrives
<1>2. Shape' /\ InPass' /\ Published' = Published
  BY <1>1 DEF FateInv, Shape, InPass, pass, Published
<1>3. Displaced(s) \subseteq Waiting
  BY DEF Displaced, Waiting
<1>4. Waiting' = Waiting \ Displaced(s)
  <2>1. ASSUME NEW t \in Sources, t # s
        PROVE  slot'[t] = slot[t] /\ From(t, slot[t]) \notin Displaced(s)
    BY <1>1, <2>1 DEF FateInv, Inv, Types, Displaced, From
  <2>2. slot'[s] = Invalid
    BY <1>1 DEF FateInv, Inv, Types
  <2>3. \A t \in Sources : slot[t] \notin {Nothing, Invalid} /\ From(t, slot[t]) \notin Displaced(s)
          => t # s
    BY DEF Displaced
  <2>4. \A y : y \in Waiting' => y \in Waiting \ Displaced(s)
    BY <2>1, <2>2 DEF Waiting
  <2>5. \A y : y \in Waiting \ Displaced(s) => y \in Waiting'
    BY <2>1, <2>3 DEF Waiting
  <2> QED
    BY <2>4, <2>5
<1>5. /\ Waiting \cap (In(stored) \cup In(samples)) = {}
      /\ In(samples) \cup In(stored) \subseteq Published
  BY ApartInOrder DEF FateInv
<1>6. UNCHANGED <<In(stored), In(samples), In(batch), In(analyzed)>>
  BY <1>1 DEF pass
<1>7. Placed'
  BY <1>1, <1>2, <1>3, <1>4, <1>5, <1>6 DEF FateInv, Placed
<1> QED
  BY <1>2, <1>7, InvalidInv DEF FateInv

\* What the reader held, if it is a sample, is in hand then.
LEMMA TakeFate == ASSUME FateInv, TakeSample PROVE FateInv'
<1>1. /\ pc = "poll" /\ slot[k] # Nothing /\ k \in Sources
      /\ slot' = [slot EXCEPT ![k] = Nothing]
      /\ UNCHANGED <<published, displaced, k, batch, store, stored, pc, analyzed, dropped>>
  BY DEF TakeSample, FateInv, Inv, InHand
<1>2. Shape' /\ InPass' /\ Published' = Published
  BY <1>1 DEF FateInv, Shape, InPass, Published
<1>3. Waiting' = Waiting \ {From(k, slot[k])}
  <2>1. ASSUME NEW t \in Sources, t # k
        PROVE  slot'[t] = slot[t] /\ From(t, slot[t]) # From(k, slot[k])
    BY <1>1, <2>1 DEF FateInv, Inv, Types, From
  <2>2. slot'[k] = Nothing
    BY <1>1 DEF FateInv, Inv, Types
  <2>3. \A y : y \in Waiting' => y \in Waiting \ {From(k, slot[k])}
    BY <2>1, <2>2 DEF Waiting
  <2>4. \A y : y \in Waiting \ {From(k, slot[k])} => y \in Waiting'
    BY <2>1 DEF Waiting
  <2> QED
    BY <2>3, <2>4
<1>4. Waiting \cap In(stored) = {} /\ Waiting \subseteq Published
  BY ApartInOrder DEF FateInv
<1>5. UNCHANGED <<In(stored), In(batch), In(analyzed)>>
  BY <1>1
<1>6. CASE slot[k] = Invalid
  <2>1. samples' = samples /\ From(k, slot[k]) \notin Waiting
    BY <1>1, <1>6 DEF TakeSample, Waiting, From
  <2>2. Placed'
    BY <1>1, <1>2, <1>3, <1>5, <2>1 DEF FateInv, Placed
  <2> QED
    BY <1>2, <2>2, TakeInv DEF FateInv
<1>7. CASE slot[k] # Invalid
  <2>1. samples' = Append(samples, From(k, slot[k])) /\ From(k, slot[k]) \in Waiting
    BY <1>1, <1>7 DEF TakeSample, Waiting
  <2>2. From(k, slot[k]) \in Samples
    BY <1>4, <2>1 DEF Published, Sample, Samples
  <2>3. In(samples') = In(samples) \cup {From(k, slot[k])}
    BY <2>1, <2>2, AppendElements DEF FateInv, Inv, Types
  <2>4. Placed'
    BY <1>1, <1>2, <1>3, <1>4, <1>5, <2>1, <2>3 DEF FateInv, Placed
  <2> QED
    BY <1>2, <2>4, TakeInv DEF FateInv
<1> QED
  BY <1>6, <1>7

\* The first sample in hand goes into the store and into the batch.
LEMMA UpsertFate == ASSUME FateInv, Upsert PROVE FateInv'
<1> DEFINE x == Head(samples)
<1>1. /\ pc = "upsert" /\ samples # <<>> /\ samples' = Tail(samples)
      /\ batch' = Append(batch, x) /\ stored' = Append(stored, x)
      /\ store' = [store EXCEPT ![TopicOf[x.from]] = x]
      /\ UNCHANGED <<published, slot, displaced, k, pc, analyzed, dropped>>
  BY DEF Upsert, reader
<1>2. /\ samples \in Seq(Samples) /\ stored \in Seq(Samples) /\ batch \in Seq(Samples)
  BY DEF FateInv, Inv, Types, Shape
<1>3. x \in Samples /\ In(samples) = {x} \cup In(samples')
  BY <1>1, <1>2, TailElements
<1>4. In(stored') = In(stored) \cup {x}
  BY <1>1, <1>2, <1>3, AppendElements
<1>5. In(batch') = In(batch) \cup {x} /\ batch' \in Seq(Samples)
  BY <1>1, <1>2, <1>3, AppendElements
<1>6. x \in Published /\ x \notin In(stored)
  BY <1>3, ApartInOrder DEF FateInv
<1> HIDE DEF x
<1>7. Shape' /\ InPass'
  BY <1>1, <1>5, <1>6 DEF FateInv, Shape, InPass, Published
<1>8. Waiting' = Waiting /\ Published' = Published /\ In(analyzed') = In(analyzed)
      /\ displaced' = displaced
  BY <1>1 DEF Waiting, Published
<1>9. x \notin displaced /\ x \notin In(analyzed)
  BY <1>3, <1>6 DEF FateInv, Placed
<1>10. Placed'
  BY <1>3, <1>4, <1>5, <1>6, <1>8, <1>9 DEF FateInv, Placed
<1> QED
  BY <1>7, <1>10, UpsertInv DEF FateInv

\* The steps between: only Analyze moves samples, the whole batch.
LEMMA MovesFate == ASSUME FateInv, Moves PROVE FateInv'
<1>1. /\ UNCHANGED <<published, slot, displaced, stored, store>>
      /\ Waiting' = Waiting /\ Published' = Published /\ In(stored') = In(stored)
  BY DEF Moves, PollOnce, Active, Inactive, NothingLeft, NextCollector, Polled, Analyze,
         AnalyzeFails, vars, reader, pass, Waiting, Published
<1>2. In(<<>>) = {} /\ <<>> \in Seq(Samples)
  BY Elements, EmptySeq
<1>3. Inv'
  BY MovesInv DEF FateInv
<1>4. CASE PollOnce
  <2>1. samples = <<>> /\ samples' = <<>> /\ batch = <<>> /\ batch' = <<>>
    BY <1>4 DEF PollOnce, FateInv, InPass, Inv, InHand
  <2>2. UNCHANGED <<analyzed, dropped>> /\ dropped = {}
    BY <1>4 DEF PollOnce, FateInv, InPass
  <2>3. Placed'
    BY <1>1, <2>1, <2>2 DEF FateInv, Placed
  <2>4. Shape' /\ InPass'
    BY <1>1, <1>4, <2>1, <2>2, PassAssumption DEF PollOnce, FateInv, Shape, InPass
  <2> QED
    BY <1>3, <2>3, <2>4 DEF FateInv
<1>5. CASE Active \/ NothingLeft \/ Polled \/ NextCollector \/ UNCHANGED vars
  <2>1. UNCHANGED <<samples, batch, analyzed, dropped>>
    BY <1>5 DEF Active, NothingLeft, Polled, NextCollector, vars, pass
  <2>2. Placed'
    BY <1>1, <2>1 DEF FateInv, Placed
  <2>3. /\ k' = k \/ (k \in Sources /\ k' = k + 1)
        /\ pc' = pc \/ pc' \in {"collector", "poll", "upsert", "analyze"}
    BY <1>5 DEF Active, NothingLeft, Polled, NextCollector, vars, pass, FateInv, Inv, InHand
  <2>4. k' \in 1..N + 1
    BY <2>3, PassAssumption DEF FateInv, Shape, Sources
  <2>5. pc' = pc \/ (pc # "failed" /\ pc' \notin {"idle", "failed"})
    BY <1>5 DEF Active, NothingLeft, Polled, NextCollector, vars, pass
  <2>6. Shape' /\ InPass'
    BY <1>1, <2>1, <2>3, <2>4, <2>5 DEF FateInv, Shape, InPass
  <2> QED
    BY <1>3, <2>2, <2>6 DEF FateInv
<1>6. CASE Inactive \/ AnalyzeFails
  <2>1. UNCHANGED <<samples, batch, analyzed, k>> /\ pc # "failed" /\ pc' = "failed"
        /\ dropped' = dropped \cup In(batch)
    BY <1>6 DEF Inactive, AnalyzeFails, pass
  <2>2. Placed'
    BY <1>1, <2>1 DEF FateInv, Placed
  <2>3. Shape' /\ InPass'
    BY <1>1, <2>1 DEF FateInv, Shape, InPass
  <2> QED
    BY <1>3, <2>2, <2>3 DEF FateInv
<1>7. CASE Analyze
  <2>1. /\ pc = "analyze" /\ pc' = "idle" /\ k' = 1 /\ batch' = <<>> /\ samples' = samples
        /\ dropped' = dropped /\ dropped = {} /\ analyzed' = analyzed \o batch
    BY <1>7 DEF Analyze, FateInv, InPass
  <2>2. analyzed' \in Seq(Samples) /\ In(analyzed') = In(analyzed) \cup In(batch)
    BY <2>1, ConcatElements DEF FateInv, Shape
  <2>3. In(batch') = {}
    BY <1>2, <2>1
  <2>4. Placed'
    BY <1>1, <2>1, <2>2, <2>3 DEF FateInv, Placed
  <2>5. Shape' /\ InPass'
    BY <1>1, <1>2, <2>1, <2>2, PassAssumption DEF FateInv, Shape, InPass
  <2> QED
    BY <1>3, <2>4, <2>5 DEF FateInv
<1> QED
  BY <1>4, <1>5, <1>6, <1>7 DEF Moves

LEMMA FateStep == FateInv /\ [Next]_vars => FateInv'
  BY PublishFate, InvalidFate, TakeFate, UpsertFate, MovesFate DEF Next, Run, Moves

\* The variables stay in their ranges, and every sample that is anywhere was published:
\* DdsCollector.cpp:76-115, CollectionStage.cpp:100-131.
THEOREM TypeCorrect == Spec => []TypeOK
<1>1. FateInv => TypeOK
  <2> SUFFICES ASSUME FateInv PROVE TypeOK
    OBVIOUS
  <2>1. In(samples) \cup In(stored) \subseteq Sample
    BY ApartInOrder DEF FateInv, Published
  <2>2. In(batch) \cup In(analyzed) \subseteq Sample
    BY <2>1 DEF FateInv, Placed
  <2>3. displaced \cup dropped \subseteq Sample
    BY <2>2 DEF FateInv, Placed, Published, InPass
  <2> QED
    BY <2>1, <2>2, <2>3 DEF FateInv, Inv, Types, Shape, TypeOK, Invalid
<1> QED
  BY <1>1, FateInit, FateStep, PTL DEF Spec

\* Every published sample is in exactly one place: in its reader, displaced there by a
\* newer one, on its way in this pass, analyzed, or dropped with the pass that failed:
\* DdsCollector.cpp:88-110, CollectionStage.cpp:111-127.
THEOREM SampleFateHolds == Spec => []SampleFate
<1>1. FateInv => SampleFate
  <2> SUFFICES ASSUME FateInv PROVE SampleFate
    OBVIOUS
  <2> DEFINE inPass == IF pc = "failed" THEN dropped ELSE In(batch)
  <2>1. inPass = In(batch)
    BY DEF FateInv, InPass
  <2>2. /\ Places[1] = Waiting /\ Places[2] = displaced /\ Places[3] = In(samples)
        /\ Places[4] = In(batch) /\ Places[5] = In(analyzed)
    BY <2>1 DEF Places
  <2> HIDE DEF inPass
  <2>3. UNION {Places[p] : p \in 1..5}
          = Waiting \cup displaced \cup In(samples) \cup In(batch) \cup In(analyzed)
    <3>1. 1..5 = {1, 2, 3, 4, 5}
      OBVIOUS
    <3> QED
      BY <2>2, <3>1
  <2>4. /\ In(samples) \cap In(stored) = {} /\ Waiting \cap In(stored) = {}
        /\ Waiting \cap In(samples) = {}
        /\ In(samples) \cup In(stored) \cup Waiting \subseteq Published
    BY ApartInOrder DEF FateInv
  <2>5. UNION {Places[p] : p \in 1..5} = Published
    BY <2>3, <2>4 DEF FateInv, Placed
  <2>6. Published = {From(s, seq) : s \in Sources, seq \in 1..MaxSamples}
                    \cap {x \in Sample : x.seq <= published[x.from]}
    BY DEF Published, Sample, From
  <2>7. ASSUME NEW p \in 1..5, NEW q \in 1..5, p < q
        PROVE  Places[p] \cap Places[q] = {}
    <3>1. \/ p = 1 /\ q \in {2, 3, 4, 5}
          \/ p = 2 /\ q \in {3, 4, 5}
          \/ p = 3 /\ q \in {4, 5}
          \/ p = 4 /\ q = 5
      BY <2>7
    <3> QED
      BY <2>2, <2>4, <3>1 DEF FateInv, Placed
  <2>8. pc # "failed" => dropped = {}
    BY DEF FateInv, InPass
  <2> QED
    BY <2>5, <2>6, <2>7, <2>8 DEF SampleFate
<1> QED
  BY <1>1, FateInit, FateStep, PTL DEF Spec

------------------------------------------------------------------------------
(* The store and the batch.                                                *)

\* Of each topic that the batch has samples of, the store has the last one.
LastOfTopic ==
  \A n \in 1..Len(batch) :
    (\A m \in n + 1..Len(batch) : TopicOf[batch[m].from] # TopicOf[batch[n].from])
      => store[TopicOf[batch[n].from]] = batch[n]

LEMMA LastStep == FateInv /\ LastOfTopic /\ [Next]_vars => LastOfTopic'
<1> SUFFICES ASSUME FateInv, LastOfTopic, [Next]_vars PROVE LastOfTopic'
  OBVIOUS
<1>1. CASE Upsert
  <2> DEFINE x == Head(samples)
  <2>1. batch' = Append(batch, x) /\ store' = [store EXCEPT ![TopicOf[x.from]] = x]
        /\ samples # <<>>
    BY <1>1 DEF Upsert
  <2>2. x \in Samples /\ batch \in Seq(Samples) /\ store \in [Topics -> Sample \cup {None}]
    BY <2>1, TailElements DEF FateInv, Inv, Types, Shape
  <2>3. TopicOf[x.from] \in Topics
    BY <2>2 DEF Samples, Topics
  <2> HIDE DEF x
  <2>4. /\ Len(batch') = Len(batch) + 1 /\ Len(batch) \in Nat
        /\ \A i \in 1..Len(batch) : batch'[i] = batch[i]
        /\ batch'[Len(batch) + 1] = x
    BY <2>1, <2>2, AppendProperties
  <2> SUFFICES ASSUME NEW n \in 1..Len(batch'),
                      \A m \in n + 1..Len(batch') :
                        TopicOf[batch'[m].from] # TopicOf[batch'[n].from]
               PROVE  store'[TopicOf[batch'[n].from]] = batch'[n]
    BY DEF LastOfTopic
  <2>5. CASE n = Len(batch) + 1
    BY <2>1, <2>2, <2>3, <2>4, <2>5
  <2>6. CASE n \in 1..Len(batch)
    <3>1. TopicOf[x.from] # TopicOf[batch[n].from]
      <4>1. Len(batch) + 1 \in n + 1..Len(batch')
        BY <2>4, <2>6
      <4> QED
        BY <2>4, <2>6, <4>1
    <3>2. \A m \in n + 1..Len(batch) : TopicOf[batch[m].from] # TopicOf[batch[n].from]
      BY <2>4, <2>6
    <3>3. store[TopicOf[batch[n].from]] = batch[n]
      BY <2>6, <3>2 DEF LastOfTopic
    <3>4. TopicOf[batch[n].from] \in Topics
      <4>1. batch[n] \in Samples
        BY <2>2, <2>6, ElementOfSeq
      <4> QED
        BY <4>1 DEF Samples, Topics
    <3> QED
      BY <2>1, <2>2, <2>4, <2>6, <3>1, <3>3, <3>4
  <2> QED
    BY <2>4, <2>5, <2>6
<1>2. CASE PollOnce \/ Analyze
  BY <1>2 DEF PollOnce, Analyze, LastOfTopic
<1>3. CASE TakeSample \/ Active \/ Inactive \/ NothingLeft \/ NextCollector \/ Polled \/ AnalyzeFails
  BY <1>3 DEF TakeSample, Active, Inactive, NothingLeft, NextCollector, Polled, AnalyzeFails,
              pass, LastOfTopic
<1>4. CASE \E s \in Sources : Publish(s) \/ InvalidArrives(s)
  BY <1>4 DEF Publish, InvalidArrives, pass, LastOfTopic
<1>5. CASE UNCHANGED vars
  BY <1>5 DEF vars, pass, LastOfTopic
<1> QED
  BY <1>1, <1>2, <1>3, <1>4, <1>5 DEF Next, Run

\* A detector that reads the store sees what one that reads the batch sees, for each
\* topic of the batch its last sample: CollectionStage.cpp:122-126.
THEOREM StoreMatchesBatchHolds == Spec => []StoreMatchesBatch
<1>1. Init => LastOfTopic
  BY DEF Init, LastOfTopic
<1>2. FateInv /\ LastOfTopic => StoreMatchesBatch
  <2> SUFFICES ASSUME FateInv, LastOfTopic PROVE StoreMatchesBatch
    OBVIOUS
  <2>1. DOMAIN batch = 1..Len(batch)
    BY DEF FateInv, Shape
  <2> QED
    BY <2>1 DEF StoreMatchesBatch, LastOfTopic
<1> QED
  BY <1>1, <1>2, FateInit, FateStep, LastStep, PTL DEF Spec
==============================================================================
