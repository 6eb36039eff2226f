----------------------------- MODULE ConfigLoad -----------------------------
(***************************************************************************)
(* SecurityClientApp::configure: the launch options are kept, the loader   *)
(* reads the runtime and the policy document item by item into locals of   *)
(* its own and hands them over together, and the launch options override   *)
(* what was loaded.  One thread; configure is called again and again, with *)
(* other files, after calls that failed, threw or succeeded, mixed with    *)
(* the overload that takes a finished configuration and with finalize.     *)
(***************************************************************************)
EXTENDS ConfigReaders

CONSTANTS
  RuntimeDocs, PolicyDocs,  \* the documents that parse as JSON: section -> items
  Options,                  \* AppLaunchOptions: clientId, "" if unset; detectionDomainId, a set of
                            \* at most one
  MaxCalls                  \* bound: calls of configure

Sections == <<"transports", "sources", "detectors", "sinks", "handlers", "hostIds", "networkIds">>
RuntimeSections == 5   \* the first five are in the runtime document

RuntimeKeys == {"transports", "sources", "detectors", "sinks", "handlers"}
PolicyKeys == {"hostIds", "networkIds"}

IsList(items) == Len(items) \in Nat /\ DOMAIN items = 1..Len(items)
IsValue(v) ==
  \/ \E kind \in {"text", "number", "bool", "object", "absent"} : DOMAIN v = {kind}
  \/ DOMAIN v = {"text", "numeral"}
IsVendors(list) ==
  IsList(list) /\ \A k \in DOMAIN list : Is("object", list[k]) => IsList(list[k].object)

\* What an item of a section is made of, whatever values it has.
WellFormed(s, it) ==
  /\ s \in {"transports", "sinks"} => IsValue(it.domain_id)
  /\ s = "hostIds" => IsList(it.rules)
  /\ s = "networkIds" =>
       /\ IsList(it.cycle) /\ IsList(it.rtps)
       /\ \A k \in DOMAIN it.rtps : IsVendors(it.rtps[k].vendors)

Document(d, keys) == \A s \in keys : IsList(d[s]) /\ \A k \in DOMAIN d[s] : WellFormed(s, d[s][k])

ASSUME DocsAssumption ==
  /\ \A d \in RuntimeDocs : DOMAIN d = RuntimeKeys \cup {"client"} /\ Document(d, RuntimeKeys)
  /\ \A d \in PolicyDocs : DOMAIN d = PolicyKeys /\ Document(d, PolicyKeys)

\* std::optional<int> of the launch options.
ASSUME OptionsAssumption ==
  \A o \in Options : o.domain \subseteq IntRange /\ \A d, e \in o.domain : d = e

ASSUME CallsAssumption == MaxCalls \in Nat

\* f, and g where f is not defined (the provers know nothing of @@ of TLC).
Merged(f, g) == [x \in DOMAIN f \cup DOMAIN g |-> IF x \in DOMAIN f THEN f[x] ELSE g[x]]

Empty == [s \in {Sections[n] : n \in 1..Len(Sections)} |-> <<>>]
DefaultConfig == Merged([client |-> "security-client-v2"], Empty)
Nothing == Merged([client |-> Absent], Empty)

VARIABLES
  config_, configured_, launchOptions_,  \* members of SecurityClientApp
  pc,       \* where the call is
  result,   \* what the last call made of it
  docs,     \* the documents read so far, merged: section -> items
  section,  \* the section being read: its place in Sections
  item,     \* the item to read next
  loaded,   \* runtimeConfig and policyConfig of load
  calls,
  source    \* history variable: what config_ should mean, and the options of that call

app == <<config_, configured_, launchOptions_>>
locals == <<docs, section, item, loaded>>
vars == <<app, pc, result, locals, calls, source>>

NoOptions == [client |-> "", domain |-> {}]

Init ==
  /\ config_ = DefaultConfig /\ configured_ = FALSE /\ launchOptions_ = NoOptions
  /\ pc = "idle" /\ result = "none"
  /\ docs = Nothing /\ section = 1 /\ item = 1 /\ loaded = DefaultConfig
  /\ calls = 0
  /\ source = [config |-> DefaultConfig, options |-> NoOptions]

------------------------------------------------------------------------------
(* Helpers.                                                                *)

\* The reader of each section's items.
ReadItemOf(s, it) ==
  CASE s = "transports" -> ReadTransport(it)
    [] s = "sources" -> ReadSource(it)
    [] s = "detectors" -> ReadDetector(it)
    [] s = "sinks" -> ReadSink(it)
    [] s = "handlers" -> ReadHandler(it)
    [] s = "hostIds" -> ReadHostTopic(it)
    [] s = "networkIds" -> ReadNetworkTopic(it)

\* Mutant: a sink that is disabled keeps its domain.
OverriddenEnabled(o, c) ==
  [c EXCEPT !.client = IF o.client = "" THEN @ ELSE o.client,
            !.sinks = [k \in DOMAIN @ |->
                         IF o.domain = {} \/ ~@[k].enabled THEN @[k]
                         ELSE [@[k] EXCEPT !.domainId = CHOOSE d \in o.domain : TRUE]]]

\* apply_launch_overrides: every sink is of the one type there is.
Overridden(o, c) ==
  [c EXCEPT !.client = IF o.client = "" THEN @ ELSE o.client,
            !.sinks = [k \in DOMAIN @ |->
                         IF o.domain = {} THEN @[k]
                         ELSE [@[k] EXCEPT !.domainId = CHOOSE d \in o.domain : TRUE]]]

\* What a pair of documents means, taken as a whole.
Meaning(d) ==
  Merged([client |-> ReadString(d.client, "security-client-v2")],
         [s \in DOMAIN Empty |-> FlattenSeq([k \in DOMAIN d[s] |-> ReadItemOf(s, d[s][k]).items])])

AllRead(d) == \A s \in DOMAIN Empty : \A k \in DOMAIN d[s] : ReadItemOf(s, d[s][k]).outcome = "read"

\* The call ends: its locals are gone.
Return(r) ==
  /\ pc' = "idle" /\ result' = r
  /\ docs' = Nothing /\ section' = 1 /\ item' = 1 /\ loaded' = DefaultConfig

------------------------------------------------------------------------------
(* Calls.                                                                  *)

Configure(o) ==
  /\ pc = "idle" /\ calls < MaxCalls
  /\ launchOptions_' = o
  /\ calls' = calls + 1
  /\ pc' = "runtime" /\ result' = "none"
  /\ UNCHANGED <<config_, configured_, locals, source>>

\* configure(options, configOverride)
ConfigureOverride(o, c) ==
  /\ pc = "idle" /\ calls < MaxCalls
  /\ launchOptions_' = o
  /\ config_' = Overridden(o, c)
  /\ configured_' = TRUE
  /\ source' = [config |-> c, options |-> o]
  /\ calls' = calls + 1
  /\ result' = "true"
  /\ UNCHANGED <<pc, locals>>

\* SecurityClientApp::finalize keeps the configuration and the options.
Finalize ==
  /\ pc = "idle" /\ configured_
  /\ configured_' = FALSE
  /\ UNCHANGED <<config_, launchOptions_, pc, result, locals, calls, source>>

\* The file is missing or is not JSON.
Unreadable ==
  /\ pc \in {"runtime", "policy"}
  /\ Return("false")
  /\ UNCHANGED <<app, calls, source>>

\* Mutant: the system section of an earlier configuration stays.
OpenRuntimeKeeps ==
  /\ pc = "runtime"
  /\ \E d \in RuntimeDocs :
       /\ docs' = Merged(d, Nothing)
       /\ loaded' = [DefaultConfig EXCEPT !.client = ReadString(d.client, config_.client)]
  /\ section' = 1 /\ item' = 1 /\ pc' = "items"
  /\ UNCHANGED <<app, result, calls, source>>

\* loadRuntimeConfig: the file parses, and config = {} with the system section.
OpenRuntime ==
  /\ pc = "runtime"
  /\ \E d \in RuntimeDocs :
       /\ docs' = Merged(d, Nothing)
       /\ loaded' = [DefaultConfig EXCEPT !.client = ReadString(d.client, "security-client-v2")]
  /\ section' = 1 /\ item' = 1 /\ pc' = "items"
  /\ UNCHANGED <<app, result, calls, source>>

\* loadPolicyConfig begins.
OpenPolicy ==
  /\ pc = "policy"
  /\ \E d \in PolicyDocs : docs' = Merged(d, docs)
  /\ section' = RuntimeSections + 1 /\ item' = 1 /\ pc' = "items"
  /\ UNCHANGED <<app, result, loaded, calls, source>>

Current == ReadItemOf(Sections[section], docs[Sections[section]][item])
MoreItems == pc = "items" /\ item <= Len(docs[Sections[section]])

\* Mutant: an item that is rejected is left out.
LoadItemLenient ==
  /\ MoreItems /\ Current.outcome \in {"read", "rejected"}
  /\ loaded' = [loaded EXCEPT ![Sections[section]] = @ \o Current.items]
  /\ item' = item + 1
  /\ UNCHANGED <<app, pc, result, docs, section, calls, source>>

LoadItem ==
  /\ MoreItems /\ Current.outcome = "read"
  /\ loaded' = [loaded EXCEPT ![Sections[section]] = @ \o Current.items]
  /\ item' = item + 1
  /\ UNCHANGED <<app, pc, result, docs, section, calls, source>>

\* return false, or an exception that leaves load and configure.
RejectItem ==
  /\ MoreItems /\ Current.outcome # "read"
  /\ Return(IF Current.outcome = "threw" THEN "threw" ELSE "false")
  /\ UNCHANGED <<app, calls, source>>

\* Mutant: what the runtime document gave is handed over before the policies.
HandOverEarly ==
  /\ pc = "items" /\ item > Len(docs[Sections[section]])
  /\ section' = section + 1 /\ item' = 1
  /\ pc' = IF section = RuntimeSections THEN "policy"
           ELSE IF section = Len(Sections) THEN "commit" ELSE "items"
  /\ config_' = IF section = RuntimeSections THEN loaded ELSE config_
  /\ UNCHANGED <<configured_, launchOptions_, result, docs, loaded, calls, source>>

\* The end of a section, of the runtime document, of the policy document.
NextSection ==
  /\ pc = "items" /\ item > Len(docs[Sections[section]])
  /\ section' = section + 1 /\ item' = 1
  /\ pc' = IF section = RuntimeSections THEN "policy"
           ELSE IF section = Len(Sections) THEN "commit" ELSE "items"
  /\ UNCHANGED <<app, result, docs, loaded, calls, source>>

\* config = runtimeConfig; config.policies = policyConfig;
HandOver ==
  /\ pc = "commit"
  /\ config_' = loaded
  /\ source' = [config |-> Meaning(docs), options |-> launchOptions_]
  /\ pc' = "overrides"
  /\ UNCHANGED <<configured_, launchOptions_, result, locals, calls>>

ApplyOverrides ==
  /\ pc = "overrides"
  /\ config_' = Overridden(launchOptions_, config_)
  /\ configured_' = TRUE
  /\ Return("true")
  /\ UNCHANGED <<launchOptions_, calls, source>>

Call ==
  \/ \E o \in Options : Configure(o)
  \/ \E o \in Options, d \in RuntimeDocs :
       AllRead(Merged(d, Nothing)) /\ ConfigureOverride(o, Meaning(Merged(d, Nothing)))
  \/ Finalize

Load ==
  \/ Unreadable \/ OpenRuntime \/ OpenPolicy \/ LoadItem \/ RejectItem
  \/ NextSection \/ HandOver \/ ApplyOverrides

Next == Call \/ Load

Spec == Init /\ [][Next]_vars

------------------------------------------------------------------------------
(* Properties.                                                             *)

RuleNumbers(r) ==
  /\ r.common.ruleId \in UintRange
  /\ r.common.kind = "cycle" => r.lowMs \in Int64Range /\ r.highMs \in Int64Range
  /\ r.common.kind = "rtps" =>
       \A k \in DOMAIN r.vendorIdAllowlist : r.vendorIdAllowlist[k] \in IntRange
Numbers(c) ==
  /\ \A k \in DOMAIN c.transports : c.transports[k].domainId \in IntRange
  /\ \A k \in DOMAIN c.sources : c.sources[k].ttlMs \in Int64Range
  /\ \A k \in DOMAIN c.sinks : c.sinks[k].domainId \in IntRange
  /\ \A k \in DOMAIN c.hostIds : RuleNumbers(c.hostIds[k])
  /\ \A k \in DOMAIN c.networkIds : RuleNumbers(c.networkIds[k])

\* Every number fits the member it is stored in, whatever the documents hold: domains,
\* rule ids, the times of sources, the windows of cycle rules and the vendor ids, which
\* are read as unsigned and kept as int.  A signal rule always names its topic.
\* SecurityClientConfigLoader.cpp:92-113, 207-263, 433-436, 482-486, 517-534.
TypeOK ==
  /\ DOMAIN config_ = DOMAIN DefaultConfig /\ DOMAIN loaded = DOMAIN DefaultConfig
  /\ Numbers(config_) /\ Numbers(loaded)
  /\ \A k \in DOMAIN config_.hostIds : config_.hostIds[k].common.topic # ""
  /\ configured_ \in BOOLEAN /\ launchOptions_ \in Options \cup {NoOptions}
  /\ pc \in {"idle", "runtime", "items", "policy", "commit", "overrides"}
  /\ result \in {"none", "true", "false", "threw"}
  /\ section \in 1..Len(Sections) + 1 /\ item \in Nat \ {0} /\ calls \in 0..MaxCalls

\* Between calls the configuration is what one successful call's two documents
\* mean as a whole, with that call's overrides: nothing is left over from an
\* earlier call, and a call that fails or throws at any item leaves no trace.
\* SecurityClientConfigLoader.cpp:546-569, SecurityClientApp.cpp:59-80.
ConfigIsOneLoad == pc # "overrides" => config_ = Overridden(source.options, source.config)

\* A configuration is handed over only if no item of either document was
\* rejected or threw.  SecurityClientConfigLoader.cpp:552-565.
AllOrNothing == [][config_' # config_ => pc = "idle" \/ AllRead(docs)]_vars

\* A number and its text give the same value where that fits an int; a text that
\* does not fit gives the default, however long it is.  That holds of the domain in
\* which the reader of a source is made as well, which it has from the first transport
\* it names.  SecurityClientConfigLoader.cpp:92-113, CollectionStage.cpp:24-40.
Faithful(v, got) ==
  /\ IsInteger(v) /\ v.number \in IntRange => got = v.number
  /\ Is("numeral", v) => got = IF v.numeral \in IntRange THEN v.numeral ELSE 0
Name(v) == ReadString(v, "")
FirstNamed(transports, name) ==
  {k \in DOMAIN transports : /\ Name(transports[k].id) = name
                            /\ \A l \in 1..k - 1 : Name(transports[l].id) # name}
NumbersFaithful ==
  pc = "commit" =>
    /\ \A k \in DOMAIN docs.transports :
         Faithful(docs.transports[k].domain_id, loaded.transports[k].domainId)
    /\ \A k \in DOMAIN docs.sources :
         \A l \in FirstNamed(docs.transports, Name(docs.sources[k].transport_id)) :
           Faithful(docs.transports[l].domain_id,
                    ResolveSourceConfig(loaded.sources[k], loaded.transports).domainId)
    /\ \A k \in DOMAIN docs.sinks : Faithful(docs.sinks[k].domain_id, loaded.sinks[k].domainId)

\* The domain and the client of the launch options are in force wherever they
\* are used: at every sink, enabled or not.  SecurityClientApp.cpp:31-55.
OverridesReach ==
  pc # "overrides" =>
    /\ \A d \in source.options.domain :
         \A k \in DOMAIN config_.sinks : config_.sinks[k].domainId = d
    /\ source.options.client # "" => config_.client = source.options.client
==============================================================================
