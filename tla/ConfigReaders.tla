---------------------------- MODULE ConfigReaders ----------------------------
(***************************************************************************)
(* What SecurityClientConfigLoader (SecurityClient/config) makes of one    *)
(* value, one list item or one topic rule of its two JSON documents.       *)
(*                                                                         *)
(* A JSON value is a record whose field names its kind: [text |-> s],      *)
(* [number |-> n], [bool |-> b], [object |-> the sequence of its values],  *)
(* or Absent.  A text that begins with a decimal number n has that beside  *)
(* it: [text |-> s, numeral |-> n].  The readers accept several names for  *)
(* each key, which are one key here; a list that is absent or not an array *)
(* has no items.  Texts that no decision depends on (names of signals,     *)
(* logLevel) are left out.                                                 *)
(***************************************************************************)
EXTENDS Integers, Sequences, SequencesExt

CONSTANTS
  IntHalf,   \* 2^31: int holds -IntHalf..IntHalf-1, unsigned int 0..2*IntHalf-1
  LongHalf   \* 2^63: the same for std::int64_t and unsigned long

ASSUME WidthAssumption ==
  /\ IntHalf \in Nat \ {0} /\ LongHalf \in Nat \ {0}
  /\ LongHalf % IntHalf = 0

IntRange == -IntHalf..IntHalf - 1
UintRange == 0..2 * IntHalf - 1
Int64Range == -LongHalf..LongHalf - 1
UlongMax == 2 * LongHalf - 1

Absent == [absent |-> TRUE]
Is(kind, v) == kind \in DOMAIN v

\* Two's complement in the width whose negative half has the size half.
Wrap(n, half) == ((n + half) % (2 * half)) - half

\* is_number_integer: larger ones are stored as floating point.
IsInteger(v) == Is("number", v) /\ v.number \in -LongHalf..UlongMax

------------------------------------------------------------------------------
(* The readers of single values.                                           *)

ReadString(v, fallback) == IF Is("text", v) THEN v.text ELSE fallback

ReadBool(v, fallback) ==
  IF Is("bool", v) THEN v.bool
  ELSE IF Is("text", v) THEN v.text \in {"true", "TRUE", "1"} ELSE fallback

\* Mutant: the text is read by stol and narrowed like a number.
ReadIntByLong(v, fallback) ==
  IF IsInteger(v) THEN Wrap(v.number, IntHalf)
  ELSE IF Is("numeral", v) /\ v.numeral \in Int64Range THEN Wrap(v.numeral, IntHalf) ELSE fallback

\* A number is narrowed in silence; a text out of range throws and is replaced.
ReadInt(v, fallback) ==
  IF IsInteger(v) THEN Wrap(v.number, IntHalf)
  ELSE IF Is("numeral", v) /\ v.numeral \in IntRange THEN v.numeral ELSE fallback

\* stoul takes a sign and up to 64 bits; what it returns is truncated.
ParseUint(v, fallback) ==
  IF IsInteger(v) THEN v.number % (2 * IntHalf)
  ELSE IF Is("numeral", v) /\ v.numeral \in -UlongMax..UlongMax
       THEN v.numeral % (2 * IntHalf) ELSE fallback

ParseInt64(v, fallback) ==
  IF IsInteger(v) THEN Wrap(v.number, LongHalf)
  ELSE IF Is("numeral", v) /\ v.numeral \in Int64Range THEN v.numeral ELSE fallback

\* The spellings each enumeration accepts.
CacheModes == [latest |-> {"latest", "LATEST"}]
DetectorTypes ==
  [signal_mismatch |-> {"signal_mismatch", "signal-mismatch", "SIGNAL_MISMATCH"},
   cycle_rule |-> {"cycle_rule", "cycle-rule", "CYCLE_RULE"},
   rtps_header_rule |-> {"rtps_header_rule", "rtps-header-rule", "RTPS_HEADER_RULE"}]
AlertSinkTypes ==
  [dds_detection_report |-> {"dds_detection_report", "dds-detection-report", "DDS_DETECTION_REPORT"}]
ResponseHandlerTypes == [noop |-> {"noop", "NOOP"}]
Severities == [critical |-> {"critical", "CRITICAL"}, high |-> {"high", "HIGH"},
               medium |-> {"medium", "MEDIUM"}, low |-> {"low", "LOW"}]

Named(spellings, v, fallback) == {t \in DOMAIN spellings : ReadString(v, fallback) \in spellings[t]}

------------------------------------------------------------------------------
(* The readers of items: what is appended, or why the load ends.           *)

Read(items) == [outcome |-> "read", items |-> items]
Rejected == [outcome |-> "rejected", items |-> <<>>]
Threw == [outcome |-> "threw", items |-> <<>>]

ReadTransport(item) ==
  Read(<<[id |-> ReadString(item.id, ""), domainId |-> ReadInt(item.domain_id, 0)]>>)

\* item.cache is Absent, or Present with the keys mode and ttl_ms beside it.
ReadSource(item) ==
  LET id == ReadString(item.id, "")  topic == ReadString(item.topic, "")
      cached == item.cache # Absent
  IN IF \/ cached /\ Named(CacheModes, item.mode, "latest") = {}
        \/ id = "" \/ topic = ""
     THEN Rejected
     ELSE Read(<<[id |-> id, topic |-> topic,
                  transportId |-> ReadString(item.transport_id, ""), domainId |-> 0,
                  ttlMs |-> IF cached THEN ParseInt64(item.ttl_ms, 0) ELSE 0]>>)

\* input.get<std::string>() throws on anything but a string, and nobody catches it.
ReadDetector(item) ==
  IF Named(DetectorTypes, item.type, "signal_mismatch") = {} THEN Rejected
  ELSE IF \E k \in DOMAIN item.inputs : ~Is("text", item.inputs[k]) THEN Threw
  ELSE Read(<<[types |-> Named(DetectorTypes, item.type, "signal_mismatch"),
               enabled |-> ReadBool(item.enabled, TRUE),
               inputs |-> [k \in DOMAIN item.inputs |-> item.inputs[k].text]]>>)

ReadSink(item) ==
  IF Named(AlertSinkTypes, item.type, "dds_detection_report") = {} THEN Rejected
  ELSE Read(<<[id |-> ReadString(item.id, ""), enabled |-> ReadBool(item.enabled, TRUE),
               domainId |-> ReadInt(item.domain_id, 0),
               topic |-> ReadString(item.topic, "DetectionReport")]>>)

ReadHandler(item) ==
  IF Named(ResponseHandlerTypes, item.type, "noop") = {} THEN Rejected
  ELSE Read(<<[id |-> ReadString(item.id, ""), enabled |-> ReadBool(item.enabled, TRUE)]>>)

SeverityKnown(rule) == Named(Severities, rule.severity, "medium") # {}

\* What the three kinds of rules have in common.
Rule(kind, topic, rule) ==
  [kind |-> kind, topic |-> topic, ruleId |-> ParseUint(rule.rule_id, 0),
   enabled |-> ReadBool(rule.enabled, TRUE),
   severity |-> Named(Severities, rule.severity, "medium")]

SignalRule(item, rule) ==
  [common |-> Rule("signal", ReadString(item.name, ""), rule),
   signalRule |-> ReadBool(rule.signal_rule, FALSE)]

\* HOST_IDS: a topic without a name is skipped, and its rules are not looked at.
ReadHostTopic(item) ==
  IF ReadString(item.name, "") = "" THEN Read(<<>>)
  ELSE IF \E k \in DOMAIN item.rules : ~SeverityKnown(item.rules[k]) THEN Rejected
  ELSE Read([k \in DOMAIN item.rules |-> SignalRule(item, item.rules[k])])

\* Mutant: the values of an object stay unsigned.
VendorIdsUnsigned(v) ==
  IF Is("object", v) THEN [k \in DOMAIN v.object |-> ParseUint(v.object[k], 0)]
  ELSE IF IsInteger(v) THEN <<Wrap(v.number, IntHalf)>> ELSE <<>>

\* The elements of a vendor list: the values of an object, or a number; others go.
VendorIds(v) ==
  IF Is("object", v) THEN [k \in DOMAIN v.object |-> Wrap(ParseUint(v.object[k], 0), IntHalf)]
  ELSE IF IsInteger(v) THEN <<Wrap(v.number, IntHalf)>> ELSE <<>>

CycleRule(item, rule) ==
  [common |-> Rule("cycle", ReadString(item.name, ""), rule),
   lowMs |-> ParseInt64(rule.low, 0), highMs |-> ParseInt64(rule.high, 0)]

RtpsRule(rule) ==
  [common |-> Rule("rtps", "", rule),
   vendorIdAllowlist |-> FlattenSeq([k \in DOMAIN rule.vendors |-> VendorIds(rule.vendors[k])])]

\* NETWORK_IDS: a topic needs no name.
ReadNetworkTopic(item) ==
  IF \/ \E k \in DOMAIN item.cycle : ~SeverityKnown(item.cycle[k])
     \/ \E k \in DOMAIN item.rtps : ~SeverityKnown(item.rtps[k])
  THEN Rejected
  ELSE Read([k \in DOMAIN item.cycle |-> CycleRule(item, item.cycle[k])]
            \o [k \in DOMAIN item.rtps |-> RtpsRule(item.rtps[k])])

\* resolve_source_config of CollectionStage: a source gets the domain of the first
\* transport of its name; one that names none keeps the default.
ResolveSourceConfig(source, transports) ==
  LET named == {k \in DOMAIN transports : transports[k].id = source.transportId}
      first == CHOOSE k \in named : \A l \in named : k <= l
  IN IF named = {} THEN source ELSE [source EXCEPT !.domainId = transports[first].domainId]
==============================================================================
