---------------------------- MODULE MCConfigLoad ----------------------------
(***************************************************************************)
(* ConfigLoad for TLC, with an int of 2 bits and a long of 4: -2..1 and    *)
(* -8..7, unsigned 0..3 and 0..15.  Documents are a plain one in which one *)
(* or two items take every interesting form.                               *)
(***************************************************************************)
EXTENDS ConfigLoad

Text(s) == [text |-> s]
Number(n) == [number |-> n]
Numeral(n) == [text |-> ToString(n), numeral |-> n]
Values == {Number(n) : n \in {-9, -8, -3, -2, 1, 2, 7, 8, 15, 16}}
  \cup {Numeral(n) : n \in {-16, -15, -9, -3, -2, -1, 1, 2, 7, 8, 15, 16}} \cup {Absent, [bool |-> TRUE]}
Flags == {Absent, [bool |-> FALSE], Text("TRUE"), Text("True"), Numeral(0), Numeral(1), Number(0)}
Names == {Absent, Text(""), Text("a"), Numeral(1)}

Transport(id, n) == [id |-> Text(id), domain_id |-> n]
Source(id, topic, cache, mode, ttl) ==
  [id |-> id, transport_id |-> Text("t"), topic |-> topic, cache |-> cache, mode |-> mode, ttl_ms |-> ttl]
Detector(type, enabled, inputs) == [type |-> type, enabled |-> enabled, inputs |-> inputs]
Sink(type, enabled, n) ==
  [id |-> Text("s"), type |-> type, enabled |-> enabled, domain_id |-> n, topic |-> Absent]
Handler(type) == [id |-> Text("h"), type |-> type, enabled |-> Absent]
Cached == [object |-> <<>>]

PlainRuntime ==
  [client |-> Absent, transports |-> <<>>, handlers |-> <<>>,
   sources |-> <<Source(Text("s"), Text("t"), Absent, Absent, Absent)>>,
   detectors |-> <<Detector(Absent, Absent, <<Text("s")>>)>>,
   sinks |-> <<Sink(Absent, Absent, Numeral(1))>>]

Sources == {Source(id, topic, Absent, Absent, Absent) : id \in Names, topic \in Names}
  \cup {Source(Text("a"), Text("b"), Cached, Absent, v) : v \in Values}
  \cup {Source(Text("a"), Text("b"), Cached, mode, Absent) : mode \in {Text("oldest"), Numeral(1)}}
Detectors == {Detector(type, enabled, inputs) :
  type \in {Absent, Text("cycle-rule"), Numeral(2)}, enabled \in {Absent, Numeral(1)},
  inputs \in {<<>>, <<Text("s"), Number(1)>>, <<Numeral(1)>>}}
Sinks == {Sink(type, enabled, Number(3)) : type \in {Absent, Text("file")}, enabled \in Flags}
  \cup {Sink(Absent, Absent, v) : v \in Values}
Handlers == {Handler(type) : type \in {Absent, Text("NOOP"), Text("block")}}

Runtimes ==
  {[PlainRuntime EXCEPT !.transports = <<Transport(t, v), Transport("t", Number(1))>>] :
     t \in {"t", "u"}, v \in Values}
  \cup {[PlainRuntime EXCEPT !.transports = <<[id |-> v, domain_id |-> Number(1)],
                                                Transport("", Number(-1))>>,
                            !.sources = <<[@[1] EXCEPT !.transport_id = w]>>] : v \in Names, w \in Names}
  \cup {[PlainRuntime EXCEPT !.sources = Append(@, s)] : s \in Sources}
  \cup {[PlainRuntime EXCEPT !.detectors = <<d>> \o @] : d \in Detectors}
  \cup {[PlainRuntime EXCEPT !.sinks = <<s>> \o @] : s \in Sinks}
  \cup {[PlainRuntime EXCEPT !.handlers = <<h, Handler(Absent)>>] : h \in Handlers}

Rule1(id, severity) == [rule_id |-> id, enabled |-> Absent, severity |-> severity]
HostRule(id, severity, flag) == [signal_rule |-> flag] @@ Rule1(id, severity)
Cycle(id, severity, low) == [low |-> low, high |-> Numeral(7)] @@ Rule1(id, severity)
Rtps(id, severity, vendors) == [vendors |-> vendors] @@ Rule1(id, severity)
SomeSeverities == {Absent, Text("HIGH"), Text("urgent")}

PlainPolicy ==
  [hostIds |-> <<[name |-> Text("b"), rules |-> <<HostRule(Numeral(1), Absent, Text("TRUE"))>>]>>,
   networkIds |-> <<[name |-> Absent, cycle |-> <<Cycle(Numeral(2), Absent, Number(1))>>,
                     rtps |-> <<>>]>>]

HostTopics == {[name |-> n, rules |-> <<HostRule(Numeral(1), s, f), HostRule(Number(-1), Absent, f)>>] :
  n \in Names, s \in SomeSeverities, f \in {Absent, Text("True")}}
NetworkTopics ==
  {[name |-> n, cycle |-> <<Cycle(Number(1), s, Absent)>>, rtps |-> <<Rtps(Number(1), t, <<>>)>>] :
     n \in {Absent, Text("a")}, s \in SomeSeverities, t \in SomeSeverities}
  \cup {[name |-> Absent, cycle |-> <<Cycle(v, Absent, v)>>,
         rtps |-> <<Rtps(v, Absent, <<[object |-> <<v, v>>], v, [object |-> <<Numeral(3)>>]>>)>>] : v \in Values}

Policies ==
  {[PlainPolicy EXCEPT !.hostIds = <<t>> \o @] : t \in HostTopics}
  \cup {[PlainPolicy EXCEPT !.networkIds = Append(@, t)] : t \in NetworkTopics}

\* The wide run: one call.
WideRuntimes == Runtimes
WidePolicies == Policies
OneOption == {[client |-> "", domain |-> {}]}

\* The run with several calls: a few documents, good and bad ones.
FewRuntimes ==
  {PlainRuntime,
   [PlainRuntime EXCEPT !.client = Text("c"), !.sinks = Append(@, Sink(Absent, [bool |-> FALSE], Number(-1)))],
   [PlainRuntime EXCEPT !.detectors = <<Detector(Text("Cycle"), Absent, <<>>)>>],
   [PlainRuntime EXCEPT !.detectors = <<Detector(Absent, Absent, <<Number(1)>>)>>]}
FewPolicies ==
  {PlainPolicy, [PlainPolicy EXCEPT !.hostIds[1].name = Absent],
   [PlainPolicy EXCEPT !.hostIds[1].rules[1].severity = Text("urgent")]}
SomeOptions == {[client |-> "", domain |-> {}], [client |-> "cli", domain |-> {0}],
                [client |-> "cli", domain |-> {1}]}
==============================================================================
