--------------------------------- MODULE RequestPath ---------------------------------
(*****************************************************************************)
(* A request on its way through the plugins that hold no lock: the gateway   *)
(* has its key authenticated (Authn), its prompt resolved (Prompts) and its  *)
(* routes chosen (Routes), and hands its event to the observers (Exports).   *)
(* Any plugin may be configured again at any moment of it.                   *)
(*                                                                           *)
(* The gateway itself is not in this repository: that it asks for these      *)
(* answers one after the other and passes the identity on is its part        *)
(* (README.md:57-78).                                                        *)
(*****************************************************************************)
EXTENDS Authn, Prompts, Routes, Exports

CONSTANTS Requests,        (* identifiers                                    *)
          Deployments,     (* [authn, prompt, router]: the plugins in use    *)
          Calls,           (* what a client may ask: [bearer, apiKey, ref, version,
                              model, messages, payload], and decodes: whether the
                              plugins can read the messages                  *)
          Candidates,      (* the gateway's candidates for router-weighted   *)
          MaxConfigures,   (* bound: reconfigurations                        *)
          MaxChanges       (* bound: changes in the database and in Consul   *)

ASSUME CallsAssumption ==
    /\ \A call \in Calls : call.messages \in Seq(Message) /\ call.decodes \in BOOLEAN
    /\ Candidates \in Seq(Range(Candidates))
    /\ \A n \in DOMAIN Candidates : Candidates[n].weight \in Int

ASSUME DeploymentsAssumption ==
    Deployments \subseteq [authn : {"static", "postgres"}, prompt : {"registry", "injector"},
                           router : {"weighted", "consul"}]

VARIABLES
    plugins,     (* the deployment of this gateway                           *)
    dead,        (* the plugins whose process a torn read has ended          *)
    configures,  (* how many reconfigurations there were                     *)
    changes,     (* how many changes of the environment there were           *)
    req,         (* what is known of every request                           *)
    lines,       (* history: what observer-stdout printed                    *)
    exported     (* history: what observer-otel sent                         *)

pathVars == <<req, lines, exported, dead>>
vars == <<authnVars, promptsVars, routesVars, exportsVars, pathVars, plugins,
          configures, changes>>

(* rest and mine are the instances that router-consul has yet to look at and *)
(* those that had the model.  basis, before, steady, given and under are     *)
(* histories: the keys last configured when it was authenticated, the rows   *)
(* revoked when it arrived, whether the list its last answer came from was   *)
(* complete, the prompts configured, and the prefixes the models were read by; *)
(* told is the configuration that observer-stdout's answer is due to, if any. *)
NewRequest ==
    [phase |-> "new", call |-> Missing, identity |-> Denied, table |-> Missing,
     prompt |-> NoPrompt, messages |-> <<>>, found |-> {}, rest |-> {}, mine |-> {},
     routes |-> <<>>, shown |-> FALSE, copy |-> Missing, basis |-> <<>>, before |-> {},
     steady |-> FALSE, given |-> <<>>, under |-> {}, told |-> {}]

Init == /\ plugins \in Deployments
        /\ dead = {}
        /\ configures = 0
        /\ changes = 0
        /\ req = [r \in Requests |-> NewRequest]
        /\ lines = {}
        /\ exported = {}
        /\ AuthnInit(plugins.authn)
        /\ PromptsInit(plugins.prompt)
        /\ RoutesInit(plugins.router)
        /\ ExportsInit

-----------------------------------------------------------------------------
(* Reconfigurations: the first step is counted, the others follow.           *)
Alive(plugin) == plugins[plugin] \notin dead
InUse(name) == (\E c \in DOMAIN plugins : plugins[c] = name) /\ name \notin dead

ConfigureAuthn ==
    /\ \/ InUse("static") /\ \E c \in KeyConfigs : EmptyKeys(c)
       \/ InUse("postgres") /\ \E c \in DbConfigs : NameTable(c)
    /\ UNCHANGED <<promptsVars, routesVars, exportsVars>>

ConfigurePrompts ==
    /\ Alive("prompt")
    /\ \E c \in PromptConfigs : EmptyPrompts(c)
    /\ UNCHANGED <<authnVars, routesVars, exportsVars>>

ConfigureRoutes ==
    /\ \E c \in RouterConfigs : ConfigureRouter(plugins.router, c)
    /\ UNCHANGED <<authnVars, promptsVars, exportsVars>>

ConfigureExports ==
    /\ \/ \E c \in StdoutConfigs : IncludeFirst(c)
       \/ \E c \in OtelConfigs : ConfigureOtel(c)
    /\ UNCHANGED <<authnVars, promptsVars, routesVars>>

Configure ==
    /\ configures < MaxConfigures
    /\ configures' = configures + 1
    /\ ConfigureAuthn \/ ConfigurePrompts \/ ConfigureRoutes \/ ConfigureExports
    /\ UNCHANGED <<plugins, changes, pathVars>>

ContinueConfigure ==
    /\ \/ /\ (InUse("static") /\ AppendKey) \/ (InUse("postgres") /\ Connect)
          /\ UNCHANGED <<promptsVars, exportsVars>>
       \/ /\ Alive("prompt") /\ AppendPrompt(plugins.prompt)
          /\ UNCHANGED <<authnVars, exportsVars>>
       \/ /\ IncludeAsConfigured
          /\ UNCHANGED <<authnVars, promptsVars>>
    /\ UNCHANGED <<routesVars, plugins, configures, changes, pathVars>>

(* What changes around the plugins: a key is revoked, an instance comes or goes. *)
Environment ==
    /\ changes < MaxChanges
    /\ changes' = changes + 1
    /\ \/ InUse("postgres") /\ (\E row \in Rows : Revoke(row)) /\ UNCHANGED routesVars
       \/ InUse("consul") /\ (\E i \in Services : HealthChanges(i)) /\ UNCHANGED authnVars
    /\ UNCHANGED <<promptsVars, exportsVars, plugins, configures, pathVars>>

-----------------------------------------------------------------------------
(* The steps of a request.                                                   *)
componentVars == <<authnVars, promptsVars, routesVars, exportsVars, plugins, configures, changes>>

At(r, phase, plugin) == req[r].phase = phase /\ InUse(plugin)

(* What becomes known of the request; all else of it stays. *)
Updated(old, known) == [f \in DOMAIN old |-> IF f \in DOMAIN known THEN known[f] ELSE old[f]]
Becomes(r, known) == req' = [req EXCEPT ![r] = Updated(@, known)]

Only(r, known) == Becomes(r, known) /\ UNCHANGED <<componentVars, lines, exported, dead>>

(* A read that meets an assignment to a slice half way may pair a pointer    *)
(* with the length of another array: the process panics.                     *)
Panics(r, plugin) ==
    /\ Becomes(r, [phase |-> "failed"])
    /\ dead' = dead \union {plugin}
    /\ UNCHANGED <<componentVars, lines, exported>>

(* bearer, and X-API-Key without it. *)
Token(call) == IF call.bearer # Missing THEN call.bearer ELSE call.apiKey

Arrive(r) ==
    /\ req[r].phase = "new"
    /\ \E call \in Calls : Only(r, [phase |-> "authn", call |-> call, before |-> revoked])

Answered(r, identity) ==
    Only(r, [phase |-> IF identity = Denied THEN "denied" ELSE "prompt",
             identity |-> identity, basis |-> keysGiven, steady |-> ~KeysAreLoading])

AuthenticateStatic(r) ==
    /\ At(r, "authn", "static")
    /\ Answered(r, KeyHolder(Token(req[r].call)))

AuthenticateTorn(r) ==
    /\ At(r, "authn", "static")
    /\ KeysAreLoading
    /\ Panics(r, "static")

(* Authenticate of the postgres plugin: the table is read, then the pool.    *)
AuthenticatePostgres(r) ==
    /\ At(r, "authn", "postgres")
    /\ IF Token(req[r].call) = Missing THEN Answered(r, Denied)
       ELSE Only(r, [phase |-> "lookup", table |-> table])

Lookup(r) ==
    /\ At(r, "lookup", "postgres")
    /\ LET rows == RowsOf(Token(req[r].call), req[r].table)
       IN \/ rows = {} /\ Answered(r, Denied)
          \/ \E row \in rows : Answered(r, [tenant |-> row.tenant, subject |-> row.subject])

(* The query fails, or the database does not answer in time. *)
LookupFails(r) ==
    /\ At(r, "lookup", "postgres")
    /\ Only(r, [phase |-> "failed"])

ResolvePrompt(r) ==
    /\ At(r, "prompt", plugins.prompt)
    /\ LET p == Select(plugins.prompt, req[r].call, req[r].identity)
       IN Only(r, [phase |-> "route", prompt |-> p,
                   messages |-> Resolved(plugins.prompt, p, req[r].call),
                   steady |-> ~PromptsAreLoading, given |-> promptsGiven])

ResolveTorn(r) ==
    /\ At(r, "prompt", plugins.prompt)
    /\ PromptsAreLoading
    /\ Panics(r, plugins.prompt)

RouteWeighted(r) ==
    /\ At(r, "route", "weighted")
    /\ \E routes \in WeightedAnswers(Candidates) :
          Only(r, [phase |-> "emit", routes |-> routes])

Discover(r) ==
    /\ At(r, "route", "consul")
    /\ Only(r, [phase |-> "choose", found |-> Discovered, rest |-> Discovered,
                mine |-> {}, under |-> {}])

(* Consul does not answer, or not with a 200. *)
DiscoverFails(r) ==
    /\ At(r, "route", "consul")
    /\ Only(r, [phase |-> "failed"])

(* The loop over Consul's answer, in any order: one instance. *)
Inspect(r) ==
    /\ At(r, "choose", "consul")
    /\ \E i \in req[r].rest :
          Only(r, [rest |-> req[r].rest \ {i},
                   mine |-> IF HasModel(i, req[r].call.model) THEN req[r].mine \union {i}
                            ELSE req[r].mine,
                   under |-> req[r].under \union {router.prefix}])

RouteConsul(r) ==
    /\ At(r, "choose", "consul")
    /\ req[r].rest = {}
    /\ \E routes \in ConsulAnswers(req[r].mine) :
          Only(r, [phase |-> "emit", routes |-> routes])

(* Emit of observer-stdout: the settings are read, and the event is encoded  *)
(* with what they were.                                                      *)
ReadInclude(r) ==
    /\ req[r].phase = "emit"
    /\ Only(r, [phase |-> "print", shown |-> PrintedPayload(req[r].call.payload),
                told |-> IF StdoutIsIdle THEN {stdoutGiven} ELSE {}])

PrintEvent(r) ==
    /\ req[r].phase = "print"
    /\ lines' = lines \union {[request |-> r, payload |-> req[r].shown]}
    /\ Becomes(r, [phase |-> "copy"])
    /\ UNCHANGED <<componentVars, exported, dead>>

(* Emit of observer-otel. *)
CopySettings(r) ==
    /\ req[r].phase = "copy"
    /\ Only(r, [phase |-> "export", copy |-> OtelCopy])

Sends(r, what, phase) ==
    /\ exported' = exported \union what
    /\ Becomes(r, [phase |-> phase])
    /\ UNCHANGED <<componentVars, lines, dead>>

PostLogs(r) ==
    /\ req[r].phase = "export"
    /\ req[r].copy.logURL # NoCollector
    /\ Sends(r, LogRecord(r, req[r].copy.logURL), "done")

(* The collector refuses the records: Emit returns an error, nothing more.   *)
PostFails(r) ==
    /\ req[r].phase = "export"
    /\ req[r].copy.logURL # NoCollector
    /\ Only(r, [phase |-> "unexported"])

StartSpan(r) ==
    /\ req[r].phase = "export"
    /\ req[r].copy.logURL = NoCollector
    /\ req[r].copy.tracer # NoCollector
    /\ Sends(r, Span(r, req[r].copy.tracer), "count")

AddCount(r) ==
    /\ req[r].phase = "count"
    /\ Sends(r, Count(r, req[r].copy.tracer), "done")

Step(r) ==
    \/ Arrive(r)
    \/ AuthenticateStatic(r)
    \/ AuthenticateTorn(r)
    \/ AuthenticatePostgres(r)
    \/ Lookup(r)
    \/ LookupFails(r)
    \/ ResolvePrompt(r)
    \/ ResolveTorn(r)
    \/ RouteWeighted(r)
    \/ Discover(r)
    \/ DiscoverFails(r)
    \/ Inspect(r)
    \/ RouteConsul(r)
    \/ ReadInclude(r)
    \/ PrintEvent(r)
    \/ CopySettings(r)
    \/ PostLogs(r)
    \/ PostFails(r)
    \/ StartSpan(r)
    \/ AddCount(r)

Next == \/ \E r \in Requests : Step(r)
        \/ Configure
        \/ ContinueConfigure
        \/ Environment

Spec == Init /\ [][Next]_vars

-----------------------------------------------------------------------------
Answers(r) == req[r].phase \notin {"new", "authn", "lookup", "denied", "failed"}
Resolution(r) == Answers(r) /\ req[r].phase # "prompt"
Routed(r) == Resolution(r) /\ req[r].phase \notin {"route", "choose"}

(* The identity of an admitted request is what its key has in the last       *)
(* configuration the static plugin was given, even while that is loaded or   *)
(* after it was rejected: a key that was taken out admits nobody, and one    *)
(* that is listed twice is its first holder; and such a key is turned away   *)
(* only while the list is loaded.  From the database the identity is that of *)
(* a row with the key that was still active when the request came.           *)
IdentityIsOfToken ==
    \A r \in Requests :
        LET token == Token(req[r].call)
            identity == req[r].identity
            given == req[r].basis
            holders == {i \in DOMAIN given :
                           /\ given[i].value = token
                           /\ \A j \in 1..(i - 1) : given[j].value \notin {token, Missing}}
        IN /\ Answers(r) /\ plugins.authn = "static" =>
                 \E i \in holders :
                    /\ given[i].tenant \in {Missing, identity.tenant}
                    /\ given[i].subject \in {Missing, identity.subject}
           /\ Answers(r) /\ plugins.authn = "postgres" =>
                 \E row \in Rows \ req[r].before :
                    /\ row.value = token
                    /\ identity = [tenant |-> row.tenant, subject |-> row.subject]
           /\ req[r].phase = "denied" /\ req[r].steady /\ token # Missing => holders = {}

(* A prompt meant for one tenant, or another version than the one asked for, *)
(* never reaches a request; and only a request that meets Configure at work  *)
(* goes without a prompt that fits it, or misses the default one.            *)
PromptFits ==
    \A r \in Requests : Resolution(r) =>
        LET p == req[r].prompt
            call == req[r].call
            Suits(q) == /\ q.tenant \in {Unset, "*", req[r].identity.tenant}
                        /\ q.subject \in {Unset, "*", req[r].identity.subject}
                        /\ q.model \in {Unset, "*", call.model}
                        /\ q.ref \in {Unset, "*", call.ref}
            versioned == plugins.prompt = "registry" /\ call.version # Unset
            Version(q) == IF q.version = Unset THEN "v1" ELSE q.version
            suitable == {q \in ToSet(req[r].given) :
                            Suits(q) /\ (versioned => Version(q) = call.version)}
        IN /\ p # NoPrompt => Suits(p) /\ (versioned => p.version = call.version)
           /\ req[r].steady /\ suitable # {} => p # NoPrompt
           /\ (/\ req[r].steady
               /\ plugins.prompt = "registry"
               /\ ~versioned
               /\ \E q \in suitable : q.default) => p.default

DocumentedModes == {"replace", "prepend_system", "replace_system", "prepend", "append"}

(* Whatever prompt is applied, the messages for the provider are those of    *)
(* the prompt and those of the call, each in their order, none lost and none *)
(* twice; of the call all go there that the mode does not say it replaces:   *)
(* "replace_system" leaves out what the system said, "replace" everything,   *)
(* and so does a mode the registry does not know.  (Messages that a plugin   *)
(* cannot decode count as none: with a prompt they are lost in any mode, and *)
(* nobody is told.)                                                          *)
MessagesKept ==
    \A r \in Requests : Resolution(r) =>
        LET sent == req[r].messages
            said == Current(req[r].call)
            p == req[r].prompt
            replaces == \/ p.mode = "replace"
                        \/ plugins.prompt = "registry" /\ p.mode \notin DocumentedModes
        IN IF p = NoPrompt THEN sent = req[r].call.messages
           ELSE \E kept \in SUBSET DOMAIN sent :
                   /\ Kept(sent, kept) = IF replaces THEN <<>>
                                         ELSE IF p.mode = "replace_system" THEN NotSystem(said)
                                         ELSE said
                   /\ Kept(sent, DOMAIN sent \ kept) = p.messages

(* The fallback chain names every healthy candidate, and as often as it was  *)
(* named.  That of router-consul names no instance twice, and every one that *)
(* Consul named and that has the model by whichever tag prefix was in force  *)
(* while Route looked; by none of them, and it is not there.  So it is exact *)
(* unless Configure replaces the prefix in the middle of the answer, whatever *)
(* becomes of strategy, service and instances meanwhile.                     *)
RoutesComplete ==
    \A r \in Requests : Routed(r) =>
        LET routes == req[r].routes
            healthy == {n \in DOMAIN Candidates : Candidates[n].healthy}
            Has(i, prefix) == i.model[prefix] = req[r].call.model
        IN IF plugins.router = "weighted"
           THEN /\ Range(routes) = {Candidates[n] : n \in healthy}
                /\ Len(routes) = Cardinality(healthy)
           ELSE /\ {i \in req[r].found : \A prefix \in req[r].under : Has(i, prefix)}
                        \subseteq Range(routes)
                /\ Range(routes) \subseteq
                        {i \in req[r].found : \E prefix \in req[r].under : Has(i, prefix)}
                /\ Len(routes) = Cardinality(Range(routes))

(* An event that observer-otel accepted went to one collector, either as a   *)
(* log record or as a span with its count, also when Configure replaced the  *)
(* providers between the copy and the export.                                *)
ExportedOnce ==
    \A r \in Requests : req[r].phase = "done" =>
        \E collector \in {e.collector : e \in exported} :
            {<<e.what, e.collector>> : e \in {x \in exported : x.request = r}}
                \in {{<<"log", collector>>},
                     {<<"span", collector>>, <<"count", collector>>}}

(* An event is printed with its payload if the configuration that            *)
(* observer-stdout was given last when Emit looked includes payloads, and    *)
(* without it otherwise, however often it was configured before and whatever *)
(* Configure does until the line is written.  (An Emit that looks while      *)
(* Configure is at work may print what no configuration includes:            *)
(* observer-stdout/main.go:18.)                                              *)
PayloadsAsConfigured ==
    \A line \in lines : \A config \in req[line.request].told :
        line.payload <=> req[line.request].call.payload /\ Included(config)
=============================================================================
