# A verification project for vulpes-core-plugins

TLA+ models of the plugins in this repository and of the SDK they are served
by, the TLC configurations that check them, and TLAPS proofs about them.
Source locations are written `sdk/server.go:290`, relative to `src/`.

- [The system](#the-system): inventory, state, operations, interactions, hazards
- [Modules](#modules): what models what, and how
- [Runs](#runs): what each run checks, its bounds, fairness
- [Proofs](#proofs): what holds for every value of the constants, and why
- [Where code and words differ](#where-code-and-words-differ)
- [Not modelled](#not-modelled) and [Plan](#plan)

## The system

Every plugin is a process of its own. The gateway (vulpes-core, another
repository) talks to it over net/rpc on a Unix socket; `sdk/server.go` turns the
calls into calls of a Go interface that the plugin implements. net/rpc starts a
goroutine for every call, so any two operations of a plugin can run at once. No
plugin keeps anything on disk; a restarted plugin is configured anew.

| Component | State | Operations | What is hard | What makes it correct |
| --- | --- | --- | --- | --- |
| SDK streaming, `sdk/server.go:246-312` | `streams` (sync.Map), `nextID`, per stream a channel of 32 and a context | InvokeStart, InvokeNext, InvokeCancel; a producer goroutine per stream | four actors per stream; close, cancel and delete race with a blocked reader | order, no loss, honest end of stream, every reader answered, cancelled producers end |
| SDK serving, `sdk/server.go:92-244, 314-376` | socket path, listener, accept loop, signal context | ServeUnix, forwarding RPCs, Configure | a signal races with a failing Accept; crashes leave sockets; lives of two processes overlap | alone, a process is reachable from Listen until it stops; a stop is not an error, nor an error a stop; no socket is left behind |
| upstream-openai | base URL, key, HTTP client (no lock) | Configure, Invoke, ListModels | errors at four stages of a call, sends to a channel nobody may read | an error ends the stream, and is reported |
| upstream-codex | the same, and OAuth tokens (mutex) | the same, and token refresh | as above; concurrent refreshes with one refresh token | as above; no token is lost |
| ratelimit-memory | buckets by key, rules (mutex) | Configure, Check, Commit (no-op) | window boundaries, buckets shared by rules | no rule's limit is exceeded in a minute |
| cache-memory | entries by key, settings (mutex) | Configure, Lookup, Store | settings and time are read before the lock is taken; eviction | a hit is the tenant's own, latest, live response; bounded size |
| router-litellm | deployments with counters, `inflightByRequest` (mutex) | Configure, Route, Emit | feedback arrives late, in batches, after fallbacks, across a reconfiguration | counts balance, limits and cooldowns hold |
| router-weighted | strategy (no lock) | Configure, Route | drawing by weight, ties, unhealthy candidates | the chain has every healthy candidate once |
| router-consul | address, service, tag prefixes, strategy (no lock) | Configure, Route | Configure and Consul change between discovery, the look at each instance, and choice | the chain has every instance found with the model, by the prefix in force, once |
| observer-stdout | `includePayloads` (no lock) | Configure, Emit | two assignments, read by Emit in between | beside Configure, an event is printed with its payload just as configured last |
| observer-prometheus | counters and histograms by label set (mutex) | Configure, Emit, scrape | label sets change with the configuration | sums are exact, counters only grow, series are told apart |
| observer-otel | tracer, counters, log endpoint (mutex) | Configure, Emit | providers are replaced between the copy and the export; exporters fail to be made | an accepted event is whole at one collector |
| observer-s3-transcripts | S3 client, database pool, options (mutex) | Configure, Emit | a batch fails in the middle; partial Configure | bypassed tenants are never stored; index points at stored objects |
| prompt-context-injector, prompt-template-registry | rules, prompts (no lock) | Configure, ResolvePrompt | patterns on the identity, versions and defaults; requests meet a half-filled list | no tenant's prompt reaches another, what was said is kept |
| authn-static-api-key | key table (no lock) | Configure, Authenticate | the table is emptied and filled beside calls | a key admits its own tenant and subject |
| authn-postgres-api-key | table name, connection pool (no lock) | Configure, Authenticate | name and pool change at different moments; keys are revoked behind its back | as above, from a row that was active |

The components meet in the gateway only: it authenticates, looks in the cache,
checks the rate limit, asks the router for an ordered list of routes, invokes
the upstreams in that order, stores the response, and emits events to the
observers, of which router-litellm is one. The gateway is therefore part of the
environment of every model here, and modelled from how the plugins use it.

The hazards this code is exposed to are listed, each at its line and with the
properties that cover it, in `PROJECT.json` under `hazards`.

## Modules

### ChunkStream and InvokeStream: a streaming upstream call

`ChunkStream` is the promise to the gateway: a stream is opened once, chunks are
delivered in order, each once, at most `Window` are in flight, and end of stream
is signalled only when all that was produced has been delivered and nothing more
will be.

`InvokeStream` is the code: the three RPCs of `sdk/server.go:246-312` and the
control of both providers. Per stream it has

| Variable | In the code |
| --- | --- |
| `provider` | which plugin `Service.UpstreamProvider` is |
| `nextID`, `streams` | `Service.nextID`, the keys of `Service.streams` |
| `pc`, `pending`, `why`, `streaming` | where the producer goroutine is, what it still has to send before it reads on, how it came to its end, and which of the two read loops it is in |
| `ctx` | the context of `contextFromCall`: `background` has no deadline and cannot be cancelled |
| `ch` | the contents of the channel; it is closed when `pc` is `done` |
| `next` | the InvokeNext call in flight |
| `heard`, `missed` | histories: what the provider made of the answer it was told, and whether it passed over an event |
| `sent`, `got`, `cancelled` | histories: what was put on the channel and taken from it, and whether a cancel found the stream |

InvokeNext is three actions (read the map, receive, delete after EOF), because
everything else can come between them; InvokeCancel is one, since LoadAndDelete
is atomic and what cancelling does takes effect at once. Every send of a
provider is an action that needs room in the channel; those in a `select` with
`ctx.Done()` have a second action that gives up. `Guarded` says which these are,
and it is the difference between the two providers. Chunks are reduced to their
kind. What the upstream does (accept, refuse, stream, truncate) is a free choice.

A streamed answer can be less than the upstream meant to give, and nobody be told. Both
providers skip an event they cannot parse, and upstream-codex those that report an error
(`SkipEvent`), and a body that stops without `[DONE]` ends the scan as `[DONE]` does
(`ReadEnd`, `why` is `cut`). So `QuietEOFHidesNothingHeard` does not say that an answer
without an error is whole. It says that nothing the provider was told is kept from the
reader: what it heard has all arrived, and no failure it met was dropped, unless the
context had ended.

### FixedWindow and RateLimitMemory: the rate limiter

`FixedWindow` resets all budgets at the turn of each window. `RateLimitMemory`
is the code: it resets a bucket when its key is next used, rules are matched in
order, several rules may charge one bucket, a denied request costs nothing but
may still create or renew a bucket. `admissions` records under which limits a request was admitted: a
request that was denied must have left the budgets alone. Check and Configure hold the mutex
throughout, and are one action each. Names are sequences of atoms, so that the
keys are the concatenations the code makes. `CallsAssumption` says what a call
and a rule consist of; the proofs need no more than that.

### TTLCache and CacheMemory: the cache

`TTLCache` is the promise to the tenants: each stores and asks under its own keys
only, an answer is the response stored last under the key and was alive when the
question was asked, and a question goes unanswered for a reason only: nothing was stored there since the last
Configure, or it has expired by now, or more was stored than there is room for.
`CacheMemory` is the code, and implements it with `latest`, the history of what was
stored, in place of the map (`ImplementsTTLCache`): a store takes effect when it has
the mutex, and one that waits for it is not seen. Which entry is evicted is not part
of the promise, and cannot be: a Lookup that has waited for the mutex dates its entry
back to the moment it began, so that an entry may be evicted before others that were
used earlier.

Lookup and Store read the settings, and Lookup the time, before they lock; each
is modelled as a step that reads and a step under the lock. What Configure
replaces it replaces even when it then reports an error. Eviction is described
by its result: any part of the map of the right size none of whose entries is
older than a removed one, since the map order decides among equals. With a
negative limit it never ends (`stuck`).

A read of a setting that races with Configure is modelled as returning the old
or the new value. In Store, the ttl and the namespace are read in one step.
The key joins namespace, tenant and request key with colons and escapes nothing
(main.go:90), so names with colons in them can make one key of two tenants' names,
and then nothing in the plugin keeps these tenants apart: what one stores under the
key the other is answered with. `HitsAreFaithful` allows another tenant's response
there and nowhere else, `TTLCache` lets tenants own the same key, and the run has
two that do.

### LitellmRouter: the router and its feedback

Route counts a request for the first route it returns; Emit later learns, from
events that the gateway sends in batches, how it went. `gateway` and `bus` are
the gateway: it tries the routes in order, reports each failed attempt and the
end of the request. Orders that depend on chance or on latency (an average over
real time) are free choices; the other strategies are exact. Deployments come
from a configured `model_list`, with `respect_rpm_tpm` as it is by default; request
identifiers are not empty and are used once. A batch is one event or two.
`ListAssumption` says that the deployments and the fallbacks are lists, and that weights
and limits are integers.

A list may name a provider and model more than once. The plugin finds a deployment by
that pair and takes the first entry that has it (`main.go:366-373`), which is `Place(i)`:
requests, tokens and failures of every entry are kept there, and so is the rpm that
counts; whether an entry is limited and whether it cools down is looked up in the entry
itself. `RpmOfFirstChoices` is a claim about a provider and model, not an entry, and
needs each of its entries to have some limit. A request for which no route was found ends with an
event that names none (`NoRoute`), and Emit passes over it.

### CodexOAuth: tokens shared by concurrent calls

`calls[c].pc` follows one call of upstream-codex's Invoke
(`upstream-codex/main.go:93-145`) through bearerToken, canRefresh and
refreshOAuthToken (417-496), with one step for each time the mutex is held:

| Place | In the code |
| --- | --- |
| `bearer` | `do()` is about to ask bearerToken |
| `request` | `p.http.Do` with `token` |
| `refresh`, `post`, `store` | refreshOAuthToken before it reads the refresh token, with the read one (`holding`) on its way, with the answer (`grant`) in hand |
| `reread` | bearerToken after its own refresh |
| `served`, `failed` | the upstream streams its answer; an error chunk is sent |

A token is the number of the grant it came with, 0 for what the configuration
holds, so that newer and older can be told apart. The authorization server and
the upstream are external. The server accepts one refresh token at a time; if it
rotates, every grant replaces it. That is the strictest server, and the hardest
for the plugin: with one that goes on accepting old refresh tokens fewer calls
fail. `lost` remembers that a grant did not reach the plugin, which then holds a
worthless refresh token whatever the code does.

Configure takes no lock. It is two steps, one that writes the mode and the
access token and one that writes the refresh token, and the properties about
tokens are claimed up to the first of them: a refresh that was under way writes
its tokens over those of the new configuration. In the code the mode is empty for
a moment when `auth_mode` is not given; that moment is left out.

### S3Transcripts: objects and the rows that point at them

| Variable | In the code (`observer-s3-transcripts/main.go`) |
| --- | --- |
| `options`, `client`, `pg` | the fields of `plugin` (22-42); a client stands for the endpoint it writes to, a pool for its database |
| `emits[i]` | one call of Emit (129-184): the copies it took in the mutex, its place in the batch, the key of the event it is at |
| `objects`, `rows` | external: the object stores, where a key names at most one object, and the tables, where a request and an event type name at most one row |
| `asked` | history: what Configure was last called with, whether or not it reported an error |
| `replaced` | history: the objects that another replaced under their key |

Emit copies the settings in the mutex (`Begin`) and then works without it: one
step skips or prepares an event, one writes the object, one writes the row.
Either write may fail, before or after it took effect, and ends the batch.
Configure holds the mutex and is one step with three outcomes: it stops before
there is a client (`Rejected`), before there is a pool (`WithoutPool`, also when
no database is configured), or gets both (`WithPool`). In all three the options
are replaced, and what is not reached stays as it was.

Keys are records of what `transcriptKey` joins. What `safePart` does to a
request identifier is the constant `SafePart`, which may map several to one;
`Alone` are the identifiers for which it does not. The event type is kept as it is,
for `safePart` and the dots of a key change nothing in those the gateway has. An event
without a timestamp is filed under any hour (`FiledIn`). Identifiers and buckets are not
empty.

Two events of one type can have one key: of one request in the same hour, or of two that
are filed alike. `OkMeansStored` therefore says of a transcript that it was written, and
that it is there or was replaced by another of its type and file name. That it is
still there does not hold.

### Metrics: counters and the labels they are shown with

`events`, `requestResults` and `usage` are the maps of
`observer-prometheus/main.go:25-30` as functions from the keys counted so far;
`usage` stands for four maps that have the same keys. Emit and Configure hold
the mutex throughout and are one action each. `Added` is what a whole batch does
to a map. A scrape changes nothing: `Samples` is what it would show in a state,
the counters (`CounterSamples`) with the labels that the present settings give to the
keys, and a model_info gauge for every entry of the catalog (`InfoSamples`). `servers` are the
goroutines that Configure has started: `starting`, `listening`, or `stopped`,
which is not tried again. `received` and `labelled` are histories.

Whether the tenant is one of the labels can be reconfigured while the counters
stay. Two samples of a scrape can then have the same name and labels, and
`SeriesToldApart` says for which reasons: tenants were labels once and are not any more;
or a usage names the requested model as the upstream's, and another no upstream model at
all; or the catalog repeats an entry. Prometheus refuses such a scrape.
Labels are sets of pairs of a name and a value. The events the gateway can report are
a finite set, over which the sums in `NothingLost` are taken.

`servers` is part of the model for the sake of Configure; no property observes it.

### Serve: the life of a plugin process

`stage` follows `ServeUnix` (`sdk/server.go:104-141`) from the removal of a stale
socket to the deferred calls, `acceptor` its accept loop, and `errCh`, `signalled`
and `open` are what the two share: the channel of capacity one, the context of
`signal.NotifyContext` and the listener. The loop looks at the
context (`Judge`) and sends what it found (`Report`) in two steps, between which a signal
may come. `path` is external: whose socket the name
in the file system stands for. `ln.Close` removes that name before it closes the
descriptor and the deferred `os.Remove` does so again, whosever socket it is by
then; so each is a step of its own. The gateway starts processes one after the
other or over one another (`overlapped`), and any of them may be killed at any
step. `os.Remove` is taken to succeed where there is something, and `RegisterName` fails
only for a type that is no service. Connections that are being served are not modelled: `ServeUnix` does not
wait for them, and calls in flight at a stop are cut off.

### Authn, Prompts, Routes, Exports and RequestPath: the plugins without locks

A request passes an authenticator, a prompt provider and a router and leaves an
event with the observers. `RequestPath` composes one of each, chosen by
`plugins`, and lets Configure run beside every step of a request.

| Module | State in the code | Concurrency it keeps |
| --- | --- | --- |
| `Authn` | `keys` of authn-static-api-key; `table` and `pool` of authn-postgres-api-key | the table of keys is emptied and appended to while calls read it; the table name is assigned before the dial, the pool after it; a call reads the name and then asks the pool; rows are revoked in the database (`Revoke`) |
| `Prompts` | `prompts` of prompt-template-registry, `rules` of prompt-context-injector | the list is emptied and appended to while calls read it |
| `Routes` | `router`: strategy, service and `tag_prefix_model`; `passing`: what Consul would answer (external) | router-consul reads the service before it asks, the prefix for every instance of the answer (`Inspect`), and the strategy after the last; instances come and go in between |
| `Exports` | `include` of observer-stdout; `logURL`, `tracer`, and the `providers` that run, of observer-otel | `includePayloads` is assigned twice, and read (`ReadInclude`) before the event is written (`PrintEvent`); observer-otel copies in its mutex and exports without it |

`req[r]` is what is known of a request: where it is (`phase`), and the answers it
has got. A read of a slice that races with an assignment to it returns the old
one, the new one, or a pointer with the length of another array, on which the
process may panic: `AuthenticateTorn` and `ResolveTorn` end it for good (`dead`).
Other racing reads return the old or the new value. What Configure has assigned
is visible up to any point of it, in the order of the source. `basis`, `before`,
`steady`, `given`, `under` and `told` are histories: which configuration an answer is
measured against, and whether it was complete by then.

Random orders are any order: `Orders` are the bijections from places to what is
ordered, and where the code sorts, `ByWeight` keeps those that are sorted as it
sorts. router-weighted's candidates are known by their place, because two may be
equal. A version is compared through `VersionOrder`, the order of strings, in which
`v10` comes before `v2`. A conversation that a plugin cannot decode counts as an empty
one (`Current`), for it ignores the error: with a prompt the messages sent are then the
prompt's alone, and without one the request goes on as it came. A payload is whether
there is one, and kept for observer-stdout only; `stdoutGiven` is the configuration it was
given last. Of an export no more is kept than what it is and where it went. The model begins when
every plugin has been configured once; observer-otel's Emit without a tracer, which
then does nothing, is not reached.

### Subsequences and Facts: what the proofs share

`Subsequences` defines `Kept`, what is left of a sequence at some of its positions: a
filter with a recursive function in place of `SelectSeq`, so that it can be reasoned
about. `Facts` has no model in it, only lemmas: on sums over finite sets (a sum is the
sum of its parts, grows with what is added, can be regrouped by a key) and on `Kept`
(its length and members, what one more element does, that two complementary filters
make up the whole), and that a finite set can be listed in any order that is total and
transitive (`SortExists`). The prover has no induction on data; each of these is shown by a
least counterexample instead, a set or a sequence from which nothing can be taken
without making the claim true.

## Runs

| Run | Expects | Question |
| --- | --- | --- |
| `InvokeOneStream` | pass | Does one call of either provider, streamed or not, with or without a deadline and cancelled at any moment, keep every promise of the stream, safety and liveness? |
| `InvokeCancelOpenAI` | violation | Does InvokeCancel end the producer of upstream-openai? |
| `RateLimit` | pass | Is a limit ever exceeded in a minute of the clock, or exceeded twofold in any 60 seconds, and are lazily reset buckets the same as eagerly reset ones? |
| `CacheTenants` | pass | Can a hit be another tenant's, superseded or expired, can the cache outgrow its bound, evict what was just stored, or miss for no reason? |
| `CacheRejectedLimit` | violation | Can a rejected configuration do harm? |
| `CodexOAuth` | pass | Do concurrent refreshes lose a refresh token, or retry with the rejected access token, and does every call end? |
| `Metrics` | pass | Are counters exact, monotone, mutually consistent and told apart in a scrape while labels, namespace and address are reconfigured? |
| `Router` | pass | Do in-flight counts, request limits and cooldowns survive fallbacks, batches and a reconfiguration? |
| `RouterAttribution` | violation | Are failures charged to the deployment that failed? |
| `S3Transcripts` | pass | With writes that fail, overlapping batches and a rejected configuration, does a row ever dangle, is a bypassed tenant ever stored, and has an Emit that reports success written everything it had to? |
| `Serve` | pass | Is a process reachable at its path whatever crashed before it, is a stop distinguished from an error, does nothing stay behind, and do processes come up and go down? |
| `RequestPath` | pass | While plugins are reconfigured without a lock and keys and instances go: is the identity that of the key, the prompt the tenant's own, the conversation kept, the chain complete, the event whole at one collector, and printed with its payload only as configured? |

Bounds, and why they are enough:

- `InvokeOneStream`: a channel of 2 (32 in the code) with up to 4 chunks, and up
  to 2 deltas in an event, so that the channel is empty, partly full, and full
  with sends waiting, in the middle and at the end of an event. The proofs cover
  every other size. Streams share
  only the map and the counter; that they leave each other alone is proved.
- `RateLimit`: a minute of 2 ticks and two and a half minutes, so that windows
  end, are skipped, and a 60-second span straddles two; 4 admissions fill every
  limit of the configurations; two configurations, one of them with shared
  buckets and a later rule that is shadowed.
- `CacheTenants`: room for one entry and two tenants, so that every store of the
  other tenant evicts; ttl 1 and a clock of 2, so that entries live and expire; a
  tenant and a key have colons in their names, so that one key of each tenant joins to
  the same.
- `CodexOAuth`: two calls, so that refreshes overlap; three grants, so that one
  call can be granted twice, or one call be overtaken by another that refreshes
  and is refused in between; one reconfiguration; both kinds of server; and every
  combination of tokens the README of the plugins describes. The proofs cover
  any number of each.
- `Router`: `allowed_fails` 2, a failure window of 1, a minute and a cooldown of
  2 and a clock to 2, so that failures fall inside and outside the window and
  cooldowns and request times expire; two deployments of one group, one limited in
  requests and one in tokens, the first with an earlier entry in another group, where all
  that is learned of it is kept; three requests, so that two can fill both limits and the
  third then ends without a route; one reconfiguration. Requests differ in their identifiers only, and are symmetric. The
  proofs cover any list and number. `RouterAttribution` has a deployment and one of
  another group to fall back to.
- `S3Transcripts`: two Emits and three Configure calls, so that each Emit can
  begin under a configuration of its own and overlap the other; three
  configurations, of which one indexes, one does not and bypasses a tenant, and
  one is rejected; batches of two events, among them two requests of different
  tenants that are filed alike, one of them without a timestamp. The proofs cover
  any number of each.
- `Serve`: two processes, which can follow or overlap each other in any way; three
  (268506 states) show nothing else. The proofs cover any number.
- `RequestPath`: one request, because a request only reads what it shares with
  others, and writes what is its own; two reconfigurations, which may be of one
  plugin or of two, and one revoked key or changed instance; two deployments that
  together hold every plugin; lists of keys with an entry without an id, with one
  key twice and with one that is rejected in the middle; prompts of a tenant, of
  all, a default, versions whose order as strings is not that of numbers, modes
  that keep, prepend, append and replace; candidates with weight 0 and an
  unhealthy one; an instance that has the model under one tag prefix and not under the
  other; a conversation that cannot be decoded; collectors for spans and for logs.
- `Metrics`: three Configure calls, so that tenant labels go on and off again, or
  change before the server listens; five kinds of event, with and without usage,
  result and tenant, two of which differ in the tenant only and two in the
  upstream's model only; batches with one key twice, and up to four events in all.

Deadlock is checked in `RateLimit`, where there is always another request to check.
In the other runs the clock, the number of streams, requests, calls, processes or
configurations is bounded, and a run that has used them up stops; what must not stop
there is stated as liveness (`ReaderReachesEnd`, `CancelEndsCodexStream`,
`EveryCallEnds`, `ComesUp`, `StopsWhenAsked`) or, for the requests of `Router`, as
`NothingLeaks`.

Fairness is assumed in `InvokeOneStream`, `InvokeCancelOpenAI`, `CodexOAuth` and
`Serve`:

- a producer that can take a step takes one. Goroutines are scheduled, and the
  upstream answers or fails in the end because both providers set
  `http.Client.Timeout`, which covers reading the body as well
  (`upstream-openai/main.go:35-39`, `upstream-codex/main.go:85-89`);
- an InvokeNext that can return does;
- the gateway calls InvokeNext again until it is told EOF or "unknown stream".
  The comment at `sdk/server.go:280-283` demands it. For a cancelled stream this
  gives nothing, since the next call is answered "unknown stream";
- in `CodexOAuth`, a call that can take a step takes one, for the same reason:
  the client's timeout ends the exchange with the upstream, and that with the
  authorization server;
- in `Serve`, the goroutine of ServeUnix takes a step when it can, and so does the
  accept loop of a living process once Accept has failed. That Accept fails, that
  a process is started, signalled or killed is never assumed.

InvokeCancel, deadlines, the expiry of tokens and Configure are never assumed to
happen.

## Proofs

A component's proofs are in a module of their own that extends it; `SdkProofs` holds
those about InvokeStream and Serve, `ObserverProofs` those about Metrics and
S3Transcripts. Every safety invariant and every action property that a passing run
checks is stated by one of the theorems below.

`SdkProofs` proves, for any number of streams, any positive channel
capacity, either provider and any mix of deadlines and of streamed and
unstreamed answers:

| Theorem | Statement |
| --- | --- |
| `TypeCorrect` | `Spec => []TypeOK` |
| `InOrder` | `Spec => []InOrderNoLoss` |
| `UnknownAfterCancel` | `Spec => []UnknownOnlyAfterCancel` |
| `EntriesLeave` | `Spec => EntriesLeaveDrainedOrCancelled` |
| `QuietEOF` | `Spec => []QuietEOFHidesNothingHeard` |
| `ErrorLast` | `Spec => []ErrorIsLast` |
| `Refinement` | `Spec => ImplementsChunkStream` |

They rest on `BoundsAssumption` and `ChoicesAssumption` of `InvokeStream`, which TLC
evaluates on every run. The inductive invariant is `IInv`. None of the properties is
inductive as it stands. "unknown stream" only after a cancel needs to know that a
started stream stays registered until EOF or a cancel (`StartedRegistered`), which
needs identifiers to be fresh (`UnstartedUntouched`); that an entry leaves drained
needs that a reader that has been told EOF left the channel empty and closed
(`EndIsDrained`); the refinement needs the channel to stay within its capacity
(`WithinCapacity`) and that delivering the head of the channel is delivering the
next chunk produced (`InOrderNoLoss`). `QuietEOF` has an invariant of its own,
`QuietInv`, that follows an error from the producer's decision to report it, through
`pending` and `sent`, to `got`, and needs that what was heard is what was sent and what
is still to send (`HeardAccounted`). `ErrorLast` needs that whoever has written an error
has nothing pending and does not read on. These invariants were model-checked before
they were proved.

`CodexOAuthProofs` proves, for any number of concurrent calls, grants and
reconfigurations, and either kind of server:

| Theorem | Statement |
| --- | --- |
| `TypeCorrect` | `Spec => []TypeOK`, and with it that no call makes a third attempt |
| `RefreshKept` | `Spec => []RefreshTokenKept` |
| `RetryAnother` | `Spec => []RetryUsesAnother` |
| `EveryCallRunsDown` | `Spec => CallsRunDown`, and a call is never more than sixteen steps from its end |

They rest on `CodexAssumption`. `TypeOK` is not inductive: that the attempts stop
at two needs to know that a refresh for a 401 is one of the first attempt
(`FirstAttemptRefreshes`). `RefreshTokenKept` is not either: with a server that
rotates, it needs that a grant under way is the only one and is of a token nobody
else holds (`OneRotation`), because the refresh token it was granted for is then
worthless to every other call. `RetryUsesAnother` needs that a grant under way is
newer than every token any call has used or been rejected with
(`GrantsAreFresh`), and that the rejected token is not the plugin's any more once
the call has refreshed (`RejectedIsGone`). All three invariants were
model-checked, also with three calls, before they were proved.

`EveryCallEnds` is liveness and stays with TLC; `CallsRunDown` is what it needs besides
fairness. `StepsLeft` counts the steps a call can still take: the stages of one way
from bearerToken to the upstream's answer, and those of another refresh ahead of it
before the second attempt, and of two before the first. Every step lowers it, because
`FirstAttemptRefreshes` lets a refresh send a call back to bearerToken only once.

`ObserverProofs` proves of S3Transcripts, for any events, batches, configurations,
mapping of identifiers to file names and number of overlapping Emits:

| Theorem | Statement |
| --- | --- |
| `TypeCorrect` | `Spec => []TypeOK` |
| `NoDanglingRows` | `Spec => []RowsHaveObjects` |
| `BypassCorrect` | `Spec => []BypassHonoured` |
| `OkIsStored` | `Spec => []OkMeansStored` |

They rest on `TranscriptsAssumption`. That the row about to be written has its
object already (`PutBeforeIndex`) is the heart of it: objects are replaced but
never removed, so it stays true while other Emits write. That the object is one
of the right request needs that keys, objects and rows agree about request and
type (`KeysOfEvents`, `ObjectsMatchKeys`, `RowsMatchKeys`), for otherwise the
replacement of one object by another could change whose transcript a row points
at. `BypassHonoured` needs that the options are always those Configure was last
asked for, and an Emit's those that were in force when it began (`BypassKnown`).
`OkIsStored` needs that the transcript of every event an Emit has passed was written under a key
of this event and is there or among the replaced (`PassedAreStored`), and that this lasts
while other Emits write: an object or a row may be replaced, but no key and no
identifier ever disappears (`StoresKeep`).

`ObserverProofs` proves of Metrics, for any finite set of events, any batches and any
reconfigurations:

| Theorem | Statement |
| --- | --- |
| `SumsAreExact` | `MetricsSpec => []NothingLost` |
| `ScrapeAgrees` | `MetricsSpec => []ResultsMatchEvents` |
| `SeriesAreToldApart` | `MetricsSpec => []SeriesToldApart` |
| `CountersDoNotFall` | `MetricsSpec => CountersNeverFall` |
| `MetricsTyped` | `MetricsSpec => []MetricsTypeOK`, and with it that no counter shown is 0 |

They rest on `MetricsAssumption`. The invariant is `MInv`. That what is counted is
what was received (`SumsAgree`) survives a batch because the sum over some keys grows
by the charges of those keys, and charges summed by key are charges summed by event,
whichever of the two label sets is in force (`AddedSum`, `BatchSum`). For
`ResultsMatchEvents` the keys must be records of known shape (`CountersTyped`): a
result and the event it belongs to are then charged to the same tenant. `SeriesToldApart`
needs that no key names a tenant before tenants were labels (`NoTenants`); what is left is
that labels determine the rest of a key, but for an upstream model that is not shown.

`SdkProofs` proves of Serve, for any number of processes, killed or signalled
anywhere and with lives that overlap:

| Theorem | Statement |
| --- | --- |
| `AloneIsReachable` | `ServeSpec => []Reachable` |
| `StopsCleanly` | `ServeSpec => []CleanStop` |
| `LeavesNothing` | `ServeSpec => []NothingStale` |
| `ServeTyped` | `ServeSpec => []ServeTypeOK` |

They rest on `InstancesAssumption`; the invariant is `ServeInv`. That one process of
many keeps its path needs that only a living process changes what the path names,
and that two living ones know of each other (`PathKept`, `OverlapsMarked`).
`StopsCleanly` needs that a loop that had not judged its error when the signal came
judges it to be a stop, and neither holds nor has sent an error (`ReportsKnow`); of a
signal that comes later nothing is claimed. `LeavesNothing` needs that a path names only
who has bound it (`PathIsBound`).

`CacheMemoryProofs` proves, for any number of concurrent calls, tenants, keys and
configurations, rejected ones among them:

| Theorem | Statement |
| --- | --- |
| `TypeCorrect` | `Spec => []TypeOK` |
| `StaysBounded` | `Spec => []WithinMaxEntries` |
| `FaithfulHits` | `Spec => HitsAreFaithful` |
| `StoredSurvives` | `Spec => StoredEntrySurvives` |
| `CacheIsTTLCache` | `Spec => ImplementsTTLCache` |
| `StoresNeverBlock` | `Spec => []StoresHaveOutcomes` |

They rest on `TimeAssumption` and `ConfigsAssumption`; names may be any sequences,
colons and all. What a hit
relies on is `Agrees`: whatever is in the map is what was stored last under its
key, and under a key of its own tenant. The second half is known of a response
long before it is in the map, from the moment its Store computed the key
(`CallsOwnKeys`), which may be a configuration ago. The bound needs the map to be
finite and speaks of limits that are not negative; a negative one is
`CacheRejectedLimit`.

`CacheIsTTLCache` rests on `RInv`. A hit is one of `TTLCache`'s because of `Agrees`. A
miss needs an account of every key that was stored and is not in the map (`Accounts`):
it has expired, or more keys were stored than there is room for. Eviction keeps that
account because it removes nothing before the map is over its limit, and the map has
only keys that were stored. What is stored must live as long as its lifetime said
(`Lived`).

Eviction is modelled by its result, and a result that no map could have would block
the model where the code goes on: `WithinMaxEntries` would then hold for want of a step.
`StoresNeverBlock` says that there always is one: of any finite map as many of its
oldest entries can be removed as there are too many.

`RateLimitMemoryProofs` proves, for any minute, rules, configurations and requests:

| Theorem | Statement |
| --- | --- |
| `TypeCorrect` | `Spec => []TypeOK` |
| `LazyResetIsFixedWindow` | `Spec => ImplementsFixedWindow` |
| `LimitsHold` | `Spec => []WindowLimit` |
| `TwiceAtMost` | `Spec => []SlidingLimit` |

They rest on `TimeAssumption` and `CallsAssumption`. A bucket is a minute old at the
turn of the minute and not before because windows begin on multiples of a minute;
the arithmetic is in a few lemmas about `%` (`NextMultiple`, `MultiplesApart`,
`TruncateIsStart`). The refinement maps a bucket of an earlier minute to a budget
that is not used.

The limits are about a history, `admitted`, and the code keeps buckets.
`BucketsCount` joins them: what a bucket holds is what was admitted under its key
since its window began, in requests and in tokens. `KeysHaveBuckets` says that
nothing was admitted under a key after the end of its bucket's window, so that a
bucket that begins anew begins with nothing charged to it. `LimitsKept` says of
every minute, the current one and all before, that no limit was exceeded in it: one
admission adds to one minute, and is only made when every bucket it is charged to
has room. Several rules may charge one bucket, which then counts for all of them; a
rule's admissions are among those of its bucket, and the sum over a part of them is
no larger. `TwiceAtMost` then follows from the minutes that sixty seconds can touch,
which are two. The invariant was model-checked in every state of the run before it
was proved.

`LitellmRouterProofs` proves, for any list of deployments, strategy, limits and
number of requests:

| Theorem | Statement |
| --- | --- |
| `CountsMatch` | `Spec => []InFlightCounts` |
| `AllReleased` | `Spec => []NothingLeaks` |
| `FailuresCool` | `Spec => []RepeatedFailuresCool` |
| `RpmIsKept` | `Spec => []RpmOfFirstChoices` |
| `TypeCorrect` | `Spec => []TypeOK`, for finitely many requests |
| `RoutesLeaveNoneOut` | `Spec => []RoutesAreTheCandidates` |

They rest on `TimeAssumption` and `ListAssumption`. The counts are only right
because every event on the bus is of a request that is still counted
or of one that never had a route (`EventsCounted`), so that no release is lost or doubled; that holds because the
event that ends a request is its last (`EndsAreLast`). Nothing leaks because a
request that is counted and not tried any more has its end on the bus
(`EndsReported`). The whole invariant was model-checked before it was proved.

The next two have an invariant of their own, `TimesInv`. That a deployment cools down
(`Cools`) is disturbed inside Emit, where one batch applies several events one after the
other, so the invariant is of what Emit has in its hands after each of them
(`Learned`). Pruning only takes failures away, so it cannot make "enough failures"
true. `RpmOfFirstChoices` speaks of a history of first choices, and the code of request
times that it prunes; the two agree on the last minute, whatever was pruned
(`Remembered`), at the first entry of each provider and model, and where every entry of
it is limited none is a candidate when there is no room left. `TypeCorrect`
bounds the counts across a reconfiguration too, where they are not what the map holds:
no count exceeds the number of requests that were ever routed (`NumbersBounded`).

`Orders` describes sorting by its result as well. `RoutesLeaveNoneOut` says that there
is a result whenever Route is asked, because each strategy compares any two deployments
and does so transitively (`StrategyOrders`), and that it is a list of all the
candidates (`ListsAll`): where one attempt fails, no deployment is passed over.

`RequestPathProofs` proves, for any configurations, rows, deployments, calls and
number of requests:

| Theorem | Statement |
| --- | --- |
| `IdentityIsRight` | `Spec => []IdentityIsOfToken` |
| `EventsExportedOnce` | `Spec => []ExportedOnce` |
| `PayloadsPrinted` | `Spec => []PayloadsAsConfigured` |
| `PromptIsRight` | `Spec => []PromptFits` |
| `MessagesAreKept` | `Spec => []MessagesKept` |
| `RoutesAreComplete` | `Spec => []RoutesComplete` |
| `RoutersAnswer` | `Spec => []AnswersExist` |

They rest on `KeyConfigsAssumption`, `PromptConfigsAssumption`, `ServicesAssumption`
(there are finitely many instances, and their ids can be compared), `CallsAssumption`
and `DeploymentsAssumption`. A
call meets the table of keys half filled, emptied, or cut off by a rejected entry, and
yet finds only what the configuration given last says, because the table is at any moment
the beginning of that list (`KeysFollow`), and the first holder of a key in a
beginning of the list is its first holder in the list. That it turns a listed key
away only while the list is loaded needs to know where the table may end when
Configure is done. `EventsExportedOnce` needs that whatever Emit copied still runs
(`ExportOK`), which is so because Configure shuts no provider down; if it did, the
count could be lost after its span. `PayloadsPrinted` follows `includePayloads` through the
two assignments of Configure (`IncludeFollows`), and what Emit saw of it until the line is
written (`PrintInv`). For `PromptIsRight` the list of prompts
is, like the table of keys, the beginning of what was given (`PromptsFollow`), and
all of it when Configure is done; the registry's choice also needs that there is a
greatest version among the prompts that fit (`LatestExists`).

What `MessagesKept` claims is that the messages sent are an interleaving of the
prompt's and of those the mode leaves of the call's: there is a set of places at which
the one is found, in its order, and at the others the other. It is carried from the
moment the answer is computed (`RightMessages`), and rests on `KeptHalves` of `Facts`.
`RoutesComplete` compares a chain with what it was made of, which router-consul read in
earlier steps and under prefixes that may have changed between them. `RouteInv` follows
its loop: of the instances looked at so far, `mine` has those with the model under every
prefix met, and none without it under all of them (`RoutesOK`). There are finitely many
instances, and an order of a finite set has each member once (`OrderIsWhole`).
`RoutersAnswer` adds that there is such an answer to every request, whatever strategy
Configure sets meanwhile, so that `RoutesComplete` is not kept by a router that blocks.

Type correctness is proved of InvokeStream, CodexOAuth, S3Transcripts, CacheMemory,
RateLimitMemory, LitellmRouter, Metrics and Serve. No run checks it, since the proofs
cover the runs' instances too.

Only model-checked is liveness, which under fairness is out of the prover's reach:
`CancelEndsCodexStream`, `ReaderReachesEnd`, `EveryCallEnds`, `ComesUp` and
`StopsWhenAsked`. That a guard holds somewhere is said without ENABLED, as the existence
of an outcome (`StoresNeverBlock`, `RoutesLeaveNoneOut`, `RoutersAnswer`).

## Where code and words differ

Each of these is a run that expects a violation; `PROJECT.json` quotes the
words.

- `InvokeCancelOpenAI`: the last send of `streamChunks` in upstream-openai does
  not look at the context, so a cancelled stream whose channel is full keeps its
  goroutine and its response body for ever. upstream-codex has that send in a
  `select`.
- `CacheRejectedLimit`: Configure of cache-memory assigns before it judges; a
  rejected negative `max_entries` makes the next Store loop for ever with the
  mutex held.
- `RouterAttribution`: router-litellm charges every failure of a request in
  flight to its first route, also that of a fallback.

Met while modelling, and not kept as runs, though some of it is against the words of the
repository as well:

- upstream-codex: a call whose refresh token another call has rotated away
  meanwhile reports the 401 it met, though the plugin has a valid access token by
  then, and with an empty message, for it reads the body it has closed
  (`upstream-codex/main.go:120-131`).
- SDK: a setup error is dropped when the deadline has passed
  (`sdk/server.go:270-273`, against the comment above it); a signal that comes after the
  accept loop has taken a failed Accept for an error may still be answered with that
  error, and main panic (`sdk/server.go:128-143`), which is why `CleanStop` speaks of
  the time before; of two processes with overlapping lives the one that ends deletes the
  other's socket (`sdk/server.go:109`), which is why `Reachable` and `ComesUp`
  except them. A call without a deadline has a context that cannot be cancelled
  (`sdk/server.go:371-376`), so that InvokeCancel only forgets its stream and any producer
  with a full channel stays blocked, where the comment at `sdk/server.go:301-304` says "The
  producer's context is cancelled"; `CancelEndsCodexStream` excepts such calls.
- the upstreams: a streamed answer that stops before `[DONE]` or `response.completed`,
  events that do not parse, and for upstream-codex those that report an error, leave no
  trace (`upstream-openai/main.go:148-160`, `upstream-codex/main.go:313-338`), which is why
  `QuietEOFHidesNothingHeard` does not claim that a streamed answer is whole.
- cache-memory: keys are joined without escaping (`main.go:90`), so that tenants whose
  names have colons in them can share one; eviction does not look at expiry, and a Lookup that waits for the
  lock dates an entry back (`cache-memory/main.go:50, 94-106`, against
  `README.md:21`).
- router-litellm: Configure zeroes in-flight counts and keeps the map they count
  (`main.go:97-102`), which is why `InFlightCounts`, `NothingLeaks` and
  `RpmOfFirstChoices` speak of the time before one; failures older than the
  failure window still count when nothing has pruned them (`main.go:187`);
  attempts at a fallback are not counted against its rpm (`main.go:123-129`), and an
  entry without limits is not held to those of an earlier entry of its provider and
  model (`main.go:219-224`); and of a provider and model that is listed for two groups only
  the first entry cools down (`main.go:216`, and 366-373 for Emit), so that the other goes on
  being routed to, against the "cooldown after repeated upstream failures" of
  `router-litellm/README.md:19`.
- observer-prometheus: a Configure that moves `listen` or `path` after the first
  has no effect (`main.go:92-110`); an entry that the catalog repeats has two samples
  with the same labels (`main.go:159-169`), and so has every event type that was counted
  for two tenants once tenants are not labels any more (`main.go:118-122, 152`).
- observer-s3-transcripts: a Configure without `database_url` keeps the pool of the
  one before, and rows go on being written to the old database (`main.go:112-122`); of two
  events with one key the later object replaces the earlier, with no error (`main.go:344-359`),
  though `README.md:46` has `store_all_events` "store every observer event".
- observer-otel: `logURL` is never cleared, so that a later endpoint for spans
  is not used and its headers go to the old endpoint (`main.go:72`); a log record has every
  property of its event as attributes, and the event as its body (`main.go:249-275`), payloads
  and all, which `observer-otel/README.md:31` says "are intentionally ignored by this plugin".
- observer-stdout: payloads are included from the moment Configure begins until it has read
  what it was given (`main.go:18-29`), and an Emit that looks meanwhile prints them, though
  every configuration says `omit_payloads` (`observer-stdout/README.md:13`); which is why
  `PayloadsAsConfigured` speaks of those that look beside Configure.
- authn-postgres-api-key: the table name is assigned before a dial that may fail
  (`main.go:34`); the earlier database is then asked for the new table.
- prompt-template-registry: versions are ordered as strings, `v10` before `v2`
  (`main.go:70-94`), and a mode it does not know replaces the conversation
  (`main.go:96-118`).
- both prompt providers: the error of decoding the messages is ignored
  (`prompt-template-registry/main.go:122`, `prompt-context-injector/main.go:46`), and a
  prompt then goes out alone, in any mode.
- authn-static-api-key and the prompt providers: slices are assigned without a
  lock and read by calls; a torn read may end the process
  (`authn-static-api-key/main.go:22`, `prompt-context-injector/main.go:25`).

Hazards that are real and have no property, because nothing in the code or its docs
says what should hold: the map of buckets only grows
(`ratelimit-memory/main.go:73`), and a reconfiguration grants fresh budgets (42); a
final event that never comes leaves its deployment busy for ever
(`router-litellm/main.go:169`); "no deployments for requested model" is also said
when all are cooling down (118); a rotated refresh token whose answer is lost leaves
the plugin with a worthless one (`upstream-codex/main.go:489`); Configure of the upstreams takes no lock (`upstream-openai/main.go:26`); calls in flight are cut
off when the process stops (`sdk/server.go:137`).

## Not modelled

`PROJECT.json` lists every component with its status. Left out for good:
`sdk/types.go` (type declarations), the translation of requests and responses to
and from the upstreams' JSON, cost estimates, logging, the SQL files, dashboards
and examples. Of the modelled components, left out:

- SDK: the handshake and the wrappers that forward one call; connections while they
  are served.
- ratelimit-memory, cache-memory: remaining counts and wording in replies; the
  cache's size field and cache id.
- upstream-codex: the settings that have no part in choosing a token.
- router-litellm: the gateway's candidates instead of a `model_list`, its latency
  average, and `respect_rpm_tpm` set to false.
- observer-s3-transcripts: bodies, compression, schema. observer-prometheus: the text
  format; of a catalog's entry all labels but the model are one.
- observer-otel: attributes and bodies, payloads among them, headers, what exporters do in the
  background, and Emit before the first successful Configure. observer-stdout: the
  format of its lines.
- the authenticators: names of headers and trimming of tokens, and the creation of
  the schema. The prompt providers: the substitution of `{{variables}}`.
- router-consul: base URLs and provider models, with the tag prefixes they are read by,
  which only decorate a route. The prefix of the model decides whether there is one, and
  is modelled.

## Plan

What the development would gain most from next, in this order:

1. An abstract router that only knows which requests are held for which deployment,
   and LitellmRouter up to a reconfiguration as an implementation of it, as
   InvokeStream is of ChunkStream.
2. `LitellmRouter` with the gateway's candidates instead of a `model_list`.
