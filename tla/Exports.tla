----------------------------------- MODULE Exports -----------------------------------
(*****************************************************************************)
(* Where events go: plugins/observer-stdout prints them, and                 *)
(* plugins/observer-otel exports them as spans and counters or, for an       *)
(* endpoint that takes OTLP logs, as log records.                            *)
(*                                                                           *)
(* observer-stdout takes no lock: its Configure sets includePayloads to true *)
(* first and to what was configured then, and Emit reads it for every event. *)
(* observer-otel copies everything under its mutex.  A payload is            *)
(* request_json and response_json.  A span leaves them out and a log record  *)
(* holds them, so that of an export no more is kept than what it is.         *)
(*****************************************************************************)
EXTENDS Naturals, Sequences

CONSTANTS StdoutConfigs,   (* [include, omit], "" for a missing field        *)
          OtelConfigs      (* [collector, logs]: logs if its endpoint takes them *)

NoCollector == ""

VARIABLES
    include,       (* includePayloads of observer-stdout                     *)
    includeNext,   (* what its Configure is about to assign, "idle" if none  *)
    stdoutGiven,   (* history: the configuration it was given last           *)
    logURL,        (* the collector that log records go to, "" if none       *)
    tracer,        (* the collector of the tracer and the counters, "" if none *)
    providers      (* the collectors whose providers are running             *)

stdoutVars == <<include, includeNext, stdoutGiven>>
otelVars == <<logURL, tracer, providers>>
exportsVars == <<stdoutVars, otelVars>>

-----------------------------------------------------------------------------
(* The final value that observer-stdout's Configure comes to. *)
Included(config) == config.include # "false" /\ config.omit # "true"

StdoutIsIdle == includeNext = "idle"

(* Mutant of IncludeFirst: what the configuration does not say stays as it is. *)
IncludeIfTold(config) ==
    /\ StdoutIsIdle
    /\ includeNext' = IF Included(config) /\ (include \/ config.include # "")
                      THEN "all" ELSE "omit"
    /\ stdoutGiven' = config
    /\ UNCHANGED <<include, otelVars>>

(* Configure: everything is included first... *)
IncludeFirst(config) ==
    /\ StdoutIsIdle
    /\ include' = TRUE
    /\ includeNext' = IF Included(config) THEN "all" ELSE "omit"
    /\ stdoutGiven' = config
    /\ UNCHANGED otelVars

(* ... and then what the configuration says. *)
IncludeAsConfigured ==
    /\ ~StdoutIsIdle
    /\ include' = (includeNext = "all")
    /\ includeNext' = "idle"
    /\ UNCHANGED <<stdoutGiven, otelVars>>

(* What Emit makes of an event when it looks: without payloads, a marker. *)
PrintedPayload(payload) == payload /\ include

-----------------------------------------------------------------------------
(* Configure of observer-otel, under its mutex.  An endpoint for logs stays  *)
(* in force whatever is configured after it; the exporters of any other may  *)
(* fail to be made, and the providers made before are not shut down.         *)
ConfigureOtel(config) ==
    /\ IF config.logs
       THEN logURL' = config.collector /\ UNCHANGED <<tracer, providers>>
       ELSE /\ tracer' \in {tracer, config.collector}
            /\ providers' = providers \union {tracer'}
            /\ UNCHANGED logURL
    /\ UNCHANGED stdoutVars

(* What Emit copies under the mutex. *)
OtelCopy == [logURL |-> logURL, tracer |-> tracer]

Export(request, what, collector) ==
    [request |-> request, what |-> what, collector |-> collector]

LogRecord(request, collector) == {Export(request, "log", collector)}

(* A provider that was shut down would drop the span, and the count with it. *)
Span(request, collector) ==
    IF collector \in providers THEN {Export(request, "span", collector)} ELSE {}

(* Mutant of Count: the counter is read from the plugin, not from the copy. *)
CountNow(request, collector) ==
    IF tracer \in providers THEN {Export(request, "count", tracer)} ELSE {}

Count(request, collector) ==
    IF collector \in providers THEN {Export(request, "count", collector)} ELSE {}

(* Both observers have been configured once. *)
ExportsInit ==
    /\ \E c \in StdoutConfigs : stdoutGiven = c /\ include = Included(c)
    /\ includeNext = "idle"
    /\ \E c \in OtelConfigs :
          IF c.logs
          THEN logURL = c.collector /\ tracer = NoCollector /\ providers = {}
          ELSE logURL = NoCollector /\ tracer = c.collector /\ providers = {c.collector}
=============================================================================
