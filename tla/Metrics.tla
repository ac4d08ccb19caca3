----------------------------------- MODULE Metrics -----------------------------------
(*****************************************************************************)
(* plugins/observer-prometheus: Emit counts events by label sets, a scrape   *)
(* shows one sample per label set, and Configure decides, while both go on,  *)
(* whether the tenant is one of the labels.  What is counted under one       *)
(* setting is shown under another.  All three hold the mutex throughout; the *)
(* HTTP server is a goroutine of its own.                                    *)
(*                                                                           *)
(* An address stands for listen and path.  tokens stands for the four        *)
(* numbers of a usage, whose maps have the same keys; it is 0 if all are.    *)
(* provider stands for all the labels of a catalog's entry but its model.    *)
(*****************************************************************************)
EXTENDS Integers, Sequences, FiniteSets, Functions, Subsequences

CONSTANTS GatewayEvents,  (* what the gateway can report                     *)
          EmitCalls,      (* the batches Emit can be called with             *)
          ConfigureCalls, (* what Configure can be called with               *)
          Sanitized,      (* what sanitizeMetricName makes of each namespace *)
          DefaultAddress, DefaultNamespace,
          MaxEvents, MaxReconfigurations   (* bounds on events and calls     *)

(* A setting that is not given is the empty string, or the empty set.  An    *)
(* entry of a catalog without a model is left out.                           *)
MetricsConfig == [address : STRING, namespace : STRING, labels : SUBSET BOOLEAN,
                  catalog : SUBSET Seq([model : STRING, provider : STRING])]

EventType == [type : STRING, tenant : STRING, provider : STRING, requested : STRING,
              upstream : STRING, tokens : Nat]

(* Sums are over finitely many events. *)
ASSUME MetricsAssumption ==
    /\ GatewayEvents \subseteq EventType /\ IsFiniteSet(GatewayEvents)
    /\ EmitCalls \subseteq Seq(GatewayEvents)
    /\ \A c \in ConfigureCalls :
          /\ c \in MetricsConfig
          /\ c.namespace \in DOMAIN Sanitized \union {""}
          /\ Cardinality(c.labels) <= 1 /\ Cardinality(c.catalog) <= 1
    /\ MaxEvents \in Nat /\ MaxReconfigurations \in Nat

VARIABLES address, namespace, enableTenantLabels, modelCatalog,   (* settings *)
          serverStarted,
          servers,          (* the goroutines that serve scrapes             *)
          events, requestResults, usage,   (* the counters, by key           *)
          reconfigurations, (* how often Configure was called                *)
          received,         (* history: how often each event was received    *)
          labelled          (* history: were events counted with tenants?    *)

settings == <<address, namespace, enableTenantLabels, modelCatalog>>
counters == <<events, requestResults, usage>>
history == <<received, labelled>>
metricsVars == <<settings, serverStarted, servers, counters, reconfigurations, history>>

MetricsInit ==
    /\ address = DefaultAddress /\ namespace = DefaultNamespace
    /\ enableTenantLabels = FALSE /\ modelCatalog = <<>>
    /\ serverStarted = FALSE /\ servers = {}
    /\ events = <<>> /\ requestResults = <<>> /\ usage = <<>>
    /\ reconfigurations = 0
    /\ received = [ev \in GatewayEvents |-> 0]
    /\ labelled = FALSE

-----------------------------------------------------------------------------
(* Configure, in the mutex.  What is not given stays as it was.              *)
GivenString(s, old) == IF s = "" THEN old ELSE s
GivenSet(set, old) == IF set = {} THEN old ELSE CHOOSE x \in set : TRUE

parseModelCatalog(entries) == Kept(entries, {i \in DOMAIN entries : entries[i].model # ""})

SettingsFrom(c) ==
    /\ reconfigurations < MaxReconfigurations
    /\ reconfigurations' = reconfigurations + 1
    /\ address' = GivenString(c.address, address)
    /\ namespace' = IF c.namespace = "" THEN namespace ELSE Sanitized[c.namespace]
    /\ enableTenantLabels' = GivenSet(c.labels, enableTenantLabels)
    /\ modelCatalog' = IF c.catalog = {} THEN modelCatalog
                       ELSE parseModelCatalog(GivenSet(c.catalog, <<>>))

Goroutine == [of |-> reconfigurations', at |-> address', state |-> "starting"]

(* Mutant of ConfigureMetrics: a change of the labels begins new maps. *)
ConfigureResets(c) ==
    /\ SettingsFrom(c)
    /\ serverStarted' = TRUE
    /\ servers' = IF serverStarted THEN servers ELSE servers \union {Goroutine}
    /\ requestResults' = <<>> /\ usage' = <<>>
    /\ UNCHANGED <<events, history>>

(* The first Configure starts the server, where it was told to. *)
ConfigureMetrics(c) ==
    /\ SettingsFrom(c)
    /\ serverStarted' = TRUE
    /\ servers' = IF serverStarted THEN servers ELSE servers \union {Goroutine}
    /\ UNCHANGED <<counters, history>>

Becomes(s, state) == servers' = (servers \ {s}) \union {[s EXCEPT !.state = state]}

(* The goroutine listens, and nobody else can then at its address. *)
Listen(s) ==
    /\ s.state = "starting"
    /\ \A other \in servers : ~(other.at = s.at /\ other.state = "listening")
    /\ Becomes(s, "listening")
    /\ UNCHANGED <<settings, serverStarted, counters, reconfigurations, history>>

(* The address is taken, or accepting fails.  It is not tried again. *)
Stops(s) ==
    /\ s.state \in {"starting", "listening"}
    /\ Becomes(s, "stopped")
    /\ UNCHANGED <<settings, serverStarted, counters, reconfigurations, history>>

-----------------------------------------------------------------------------
(* Emit, in the mutex for the whole batch.                                   *)

Tenant(ev) == IF enableTenantLabels THEN ev.tenant ELSE ""

labelKey(ev) == [type |-> ev.type, tenant |-> Tenant(ev)]

HasResult(ev) == ev.type \in {"request.completed", "request.failed"}
Status(type) == IF type = "request.completed" THEN "completed" ELSE "failed"

(* Mutant of resultKey: the tenant is kept although it is not asked for. *)
resultKeyTenant(ev) == [status |-> Status(ev.type), tenant |-> ev.tenant]

resultKey(ev) == [status |-> Status(ev.type), tenant |-> Tenant(ev)]

(* Mutant of usageKey: the tenant is kept although it is not asked for. *)
usageKeyTenant(ev) ==
    [provider |-> ev.provider, upstream |-> ev.upstream, tenant |-> ev.tenant,
     model |-> GivenString(ev.requested, ev.upstream)]

usageKey(ev) ==
    [provider |-> ev.provider, upstream |-> ev.upstream, tenant |-> Tenant(ev),
     model |-> GivenString(ev.requested, ev.upstream)]

(* What a counter holds; a counter that is not there yet holds 0. *)
Count(map, key) == IF key \in DOMAIN map THEN map[key] ELSE 0

(* What a batch adds to a key: charges says, for the positions in the batch   *)
(* of the events that count, which key they are counted at, and how much.    *)
Adds(charges, key) ==
    SumFunctionOnSet([i \in DOMAIN charges |-> charges[i].amount],
                     {i \in DOMAIN charges : charges[i].key = key})

KeysOf(charges) == {charges[i].key : i \in DOMAIN charges}

(* Mutant of Added: the sums of a batch replace what was counted. *)
AddedAnew(map, charges) ==
    [k \in DOMAIN map \union KeysOf(charges) |->
        IF k \in KeysOf(charges) THEN Adds(charges, k) ELSE map[k]]

Added(map, charges) ==
    [k \in DOMAIN map \union KeysOf(charges) |-> Count(map, k) + Adds(charges, k)]

EventCharges(batch) ==
    [i \in DOMAIN batch |-> [key |-> labelKey(batch[i]), amount |-> 1]]

ResultCharges(batch) ==
    [i \in {j \in DOMAIN batch : HasResult(batch[j])} |->
        [key |-> resultKey(batch[i]), amount |-> 1]]

UsageCharges(batch) ==
    [i \in {j \in DOMAIN batch : batch[j].tokens # 0} |->
        [key |-> usageKey(batch[i]), amount |-> batch[i].tokens]]

Total(number) == SumFunctionOnSet(number, GatewayEvents)

Emit(batch) ==
    /\ Total(received) + Len(batch) <= MaxEvents
    /\ events' = Added(events, EventCharges(batch))
    /\ requestResults' = Added(requestResults, ResultCharges(batch))
    /\ usage' = Added(usage, UsageCharges(batch))
    /\ received' = [ev \in GatewayEvents |->
                       received[ev] + Cardinality({i \in DOMAIN batch : batch[i] = ev})]
    /\ labelled' = (labelled \/ enableTenantLabels)
    /\ UNCHANGED <<settings, serverStarted, servers, reconfigurations>>

-----------------------------------------------------------------------------
(* What a scrape shows, in the mutex: a sample for every key, with labels,   *)
(* pairs of a name and a value, that follow the present settings.  key tells *)
(* samples of equal labels apart.                                            *)

TenantLabel(tenant) == IF enableTenantLabels THEN {<<"tenant_id", tenant>>} ELSE {}

EventLabels(key) == {<<"event_type", key.type>>} \union TenantLabel(key.tenant)
ResultLabels(key) == {<<"status", key.status>>} \union TenantLabel(key.tenant)

(* The model of the upstream is shown only if it is another. *)
UsageLabels(key) ==
    {<<"provider", key.provider>>, <<"model", key.model>>}
      \union TenantLabel(key.tenant)
      \union (IF key.upstream \in {"", key.model} THEN {}
              ELSE {<<"upstream_model", key.upstream>>})

Family(name, map, labels) ==
    {[name |-> <<namespace, name>>, key |-> k, labels |-> labels[k], value |-> map[k]] :
        k \in DOMAIN map}

(* An entry of the catalog has a sample of its own, a gauge that is 1. *)
InfoSamples ==
    {[name |-> <<namespace, "model_info">>, key |-> [entry |-> i], value |-> 1,
      labels |-> {<<"model", modelCatalog[i].model>>,
                  <<"provider", modelCatalog[i].provider>>}] : i \in DOMAIN modelCatalog}

CounterSamples ==
    Family("events_total", events, [k \in DOMAIN events |-> EventLabels(k)])
      \union Family("requests_total", requestResults,
                    [k \in DOMAIN requestResults |-> ResultLabels(k)])
      \union Family("usage_total", usage, [k \in DOMAIN usage |-> UsageLabels(k)])

Samples == CounterSamples \union InfoSamples

-----------------------------------------------------------------------------
MetricsNext == \/ \E c \in ConfigureCalls : ConfigureMetrics(c)
               \/ \E s \in servers : Listen(s) \/ Stops(s)
               \/ \E batch \in EmitCalls : Emit(batch)

MetricsSpec == MetricsInit /\ [][MetricsNext]_metricsVars

-----------------------------------------------------------------------------
(* Types of the variables.  A counter that is there has counted something,   *)
(* and it names a tenant only if tenants were labels at some time.           *)
MetricsTypeOK ==
    /\ address \in {c.address : c \in ConfigureCalls} \union {DefaultAddress}
    /\ namespace \in {Sanitized[n] : n \in DOMAIN Sanitized} \union {DefaultNamespace}
    /\ enableTenantLabels \in BOOLEAN /\ serverStarted \in BOOLEAN
    /\ \A i \in DOMAIN modelCatalog : modelCatalog[i].model # ""
    /\ reconfigurations \in 0..MaxReconfigurations
    /\ \A s \in servers : s.state \in {"starting", "listening", "stopped"}
    /\ \A k \in DOMAIN events : events[k] > 0
    /\ \A k \in DOMAIN requestResults : requestResults[k] > 0
    /\ \A k \in DOMAIN usage : usage[k] > 0
    /\ received \in [GatewayEvents -> 0..MaxEvents]
    /\ labelled \/ \A k \in DOMAIN events \union DOMAIN requestResults \union DOMAIN usage :
                      k.tenant = ""

(* The sum of some counters of a map. *)
Sum(map, keys) == SumFunctionOnSet(map, keys)

(* Nothing that was received is lost, and nothing counted twice, however     *)
(* often the labels changed: the sums by type, by status, and by provider    *)
(* and model, that dashboards/vulpes-gateway.json asks for, are those of the *)
(* events (main.go:117-139).                                                 *)
NothingLost ==
    \A ev \in GatewayEvents :
        /\ Sum(events, {k \in DOMAIN events : k.type = ev.type})
             = Total([e \in GatewayEvents |-> IF e.type = ev.type THEN received[e] ELSE 0])
        /\ HasResult(ev) =>
             Sum(requestResults, {k \in DOMAIN requestResults : k.status = Status(ev.type)})
               = Total([e \in GatewayEvents |-> IF e.type = ev.type THEN received[e] ELSE 0])
        /\ LET Model(e) == GivenString(e.requested, e.upstream)
               Same(e) == e.provider = ev.provider /\ Model(e) = Model(ev)
           IN  Sum(usage, {k \in DOMAIN usage : k.provider = ev.provider /\ k.model = Model(ev)})
                 = Total([e \in GatewayEvents |-> IF Same(e) THEN received[e] * e.tokens ELSE 0])

(* A scrape agrees with itself: for every tenant it shows as many requests   *)
(* with a result as it shows events of the type (main.go:122-127).           *)
ResultsMatchEvents ==
    \A ev \in GatewayEvents : HasResult(ev) =>
        \A tenant \in {e.tenant : e \in GatewayEvents} \union {""} :
            Count(requestResults, [status |-> Status(ev.type), tenant |-> tenant])
              = Count(events, [type |-> ev.type, tenant |-> tenant])

(* Two samples that share their name and labels differ in the tenant, after  *)
(* tenants were labels once and are not any more; or they are usages of a    *)
(* model, of which one names no model of the upstream and the other this     *)
(* model itself; or they are of one entry that the catalog repeats           *)
(* (main.go:129-134, :144-184, :212-224).                                    *)
SeriesToldApart ==
    \A s, t \in Samples : s.name = t.name /\ s.labels = t.labels /\ s # t =>
        \/ /\ s.name[2] = "model_info"
           /\ modelCatalog[s.key.entry].model = modelCatalog[t.key.entry].model
           /\ modelCatalog[s.key.entry].provider = modelCatalog[t.key.entry].provider
        \/ /\ s.name[2] # "model_info" /\ s.key.tenant # t.key.tenant
           /\ labelled /\ ~enableTenantLabels
        \/ /\ s.name[2] = "usage_total" /\ s.key.model = t.key.model
           /\ {s.key.upstream, t.key.upstream} = {"", s.key.model}

(* A counter neither falls nor goes away while its name and the tenant       *)
(* labels are the same, whatever else is reconfigured (main.go:114-184).     *)
CountersNeverFall ==
    [][namespace' = namespace /\ enableTenantLabels' = enableTenantLabels =>
          \A s \in CounterSamples : \E t \in CounterSamples' :
              t.name = s.name /\ t.labels = s.labels /\ t.value >= s.value]_metricsVars

=============================================================================
