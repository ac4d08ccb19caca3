-------------------------------- MODULE LitellmRouter --------------------------------
(*****************************************************************************)
(* plugins/router-litellm: a router that is also an observer.  Route orders  *)
(* the deployments that may serve a request and counts the first as in       *)
(* flight; Emit learns from the gateway's events how the request went.  Both *)
(* hold the plugin's mutex throughout, as Configure does, and each is one    *)
(* action.                                                                   *)
(*                                                                           *)
(* A list may give the same provider and model several entries.  Requests,   *)
(* tokens and failures are then all kept at the first of them (Place), and   *)
(* an entry's own counters stay as Configure made them.                      *)
(*                                                                           *)
(* The gateway (vulpes-core, not in this repository) is modelled from how    *)
(* this code uses it: it tries the routes in order, reports every failed     *)
(* attempt with an upstream.error, and the end of the request with a         *)
(* request.completed or a request.failed, which names no route if there was  *)
(* none.  All of them reach Emit in order, in batches, some time later.      *)
(* Request identifiers are not empty and are used once.  Latency is          *)
(* abstracted: where it decides, any order may result.                       *)
(*****************************************************************************)
EXTENDS Integers, Sequences, FiniteSets, Functions, Subsequences

CONSTANTS Requests,       (* request identifiers                             *)
          Deployments,    (* model_list: a sequence of deployments           *)
          RequestedModel, (* the model all the requests ask for              *)
          Fallbacks,      (* the model groups it falls back to, in order     *)
          Strategy,       (* routing_strategy                                *)
          AllowedFails, FailureWindow, CooldownTime,
          Minute,         (* ticks in a minute                               *)
          Usage,          (* tokens a completed request can report           *)
          MaxTime,        (* bound: the clock stops there                    *)
          MaxConfigures   (* bound: calls of Configure after the first       *)

ASSUME TimeAssumption ==
    /\ {AllowedFails, FailureWindow, CooldownTime, Minute} \subseteq Nat \ {0}
    /\ {MaxTime, MaxConfigures} \subseteq Nat
    /\ Usage \subseteq Nat

ASSUME ListAssumption ==
    /\ Deployments \in Seq(Range(Deployments))
    /\ Fallbacks \in Seq(Range(Fallbacks))
    /\ \A i \in DOMAIN Deployments :
           {Deployments[i].weight, Deployments[i].rpm, Deployments[i].tpm} \subseteq Int

VARIABLES now,
          dep,         (* what the plugin keeps about each deployment        *)
          inflight,    (* plugin.inflightByRequest; a key as its Place       *)
          configures,  (* how often Configure was called                     *)
          gateway,     (* per request: its routes, and the one being tried   *)
          bus,         (* the events on their way to Emit                    *)
          chosen       (* history: per Place, when it was first choice       *)

vars == <<now, dep, inflight, configures, gateway, bus, chosen>>
plugin == <<dep, inflight>>

D == DOMAIN Deployments
NoRoute == 0

(* findDeployment: the first deployment of the same provider and model. *)
Place(i) == CHOOSE p \in D : /\ Deployments[p].key = Deployments[i].key
                             /\ \A q \in D : Deployments[q].key = Deployments[i].key => p <= q

-----------------------------------------------------------------------------
After(times, cutoff) == Kept(times, {n \in DOMAIN times : times[n] > cutoff})
TokensAfter(events, cutoff) == Kept(events, {n \in DOMAIN events : events[n].at > cutoff})

Unused == [inFlight |-> 0, cooldownUntil |-> 0, failures |-> <<>>,
           requestTimes |-> <<>>, tokenEvents |-> <<>>]

(* Mutant of Pruned: request times are kept for the failure window. *)
PrunedByFailureWindow(d) ==
    [d EXCEPT !.failures = After(@, now - FailureWindow),
              !.requestTimes = After(@, now - FailureWindow),
              !.tokenEvents = TokensAfter(@, now - Minute)]

(* prune, for one deployment. *)
Pruned(d) == [d EXCEPT !.failures = After(@, now - FailureWindow),
                       !.requestTimes = After(@, now - Minute),
                       !.tokenEvents = TokensAfter(@, now - Minute)]

TokensIn(events) == SumFunction([n \in DOMAIN events |-> events[n].tokens])

RecentTokens(d) == TokensIn(TokensAfter(d.tokenEvents, now - Minute))

Limited(i) == Deployments[i].rpm > 0 \/ Deployments[i].tpm > 0

Exhausted(p) ==
    LET rpm == Deployments[p].rpm
        tpm == Deployments[p].tpm
    IN  \/ rpm > 0 /\ Len(After(dep[p].requestTimes, now - Minute)) >= rpm
        \/ tpm > 0 /\ RecentTokens(dep[p]) >= tpm

(* An entry without limits is not held to those of its first entry. *)
OverLimit(i) == Limited(i) /\ Exhausted(Place(i))

CoolingDown(i) == dep[i].cooldownUntil > now

(* modelOrder: the requested model, then its fallbacks. *)
ModelOrder == <<RequestedModel>> \o Fallbacks
Rank(i) == CHOOSE n \in DOMAIN ModelOrder :
               /\ ModelOrder[n] = Deployments[i].model
               /\ \A m \in 1..(n - 1) : ModelOrder[m] # Deployments[i].model

CandidateDeployments ==
    {i \in D : /\ \E n \in DOMAIN ModelOrder : ModelOrder[n] = Deployments[i].model
               /\ ~CoolingDown(i)
               /\ ~OverLimit(i)}

(* Whether the strategy lets i come before j of the same model group. *)
MayPrecede(i, j) ==
    CASE Strategy = "least-busy" -> dep[i].inFlight <= dep[j].inFlight
      [] Strategy = "usage-based-routing" ->
            \/ RecentTokens(dep[Place(i)]) < RecentTokens(dep[Place(j)])
            \/ RecentTokens(dep[Place(i)]) = RecentTokens(dep[Place(j)]) /\ i < j
      [] Strategy \in {"fallback", "ordered"} ->
            \/ Deployments[i].weight > Deployments[j].weight
            \/ Deployments[i].weight = Deployments[j].weight /\ i < j
      [] OTHER -> TRUE

(* order: the groups by rank, each in an order of the strategy. *)
Orders(candidates) ==
    {s \in [1..Cardinality(candidates) -> candidates] :
        \A a, b \in DOMAIN s : a < b =>
            /\ s[a] # s[b]
            /\ \/ Rank(s[a]) < Rank(s[b])
               \/ Rank(s[a]) = Rank(s[b]) /\ MayPrecede(s[a], s[b])}

-----------------------------------------------------------------------------
NewRequest == [routes |-> <<>>, at |-> 0]      \* not routed yet
Ended == [routes |-> <<>>, at |-> 1]
Trying(r) == gateway[r].at \in DOMAIN gateway[r].routes

(* An event names the provider and model of a route, or none. *)
Event(type, r, route, tokens) ==
    [type |-> type, request |-> r, route |-> route, tokens |-> tokens]

Init == /\ now = 0
        /\ dep = [i \in D |-> Unused]
        /\ inflight = [r \in {} |-> 0]
        /\ configures = 0
        /\ gateway = [r \in Requests |-> NewRequest]
        /\ bus = <<>>
        /\ chosen = [i \in D |-> <<>>]

Tick == /\ now < MaxTime
        /\ now' = now + 1
        /\ UNCHANGED <<plugin, configures, gateway, bus, chosen>>

(* Configure makes the deployments anew; inflightByRequest it leaves alone.  *)
Configure ==
    /\ configures < MaxConfigures
    /\ configures' = configures + 1
    /\ dep' = [i \in D |-> Unused]
    /\ UNCHANGED <<now, inflight, gateway, bus, chosen>>

(* Mutant of Counted: the request is not entered in inflightByRequest. *)
CountedWithoutID(r, first) ==
    /\ dep' = [i \in D |-> IF i # first THEN Pruned(dep[i])
                           ELSE [Pruned(dep[i]) EXCEPT
                                     !.inFlight = @ + 1,
                                     !.requestTimes = Append(@, now)]]
    /\ UNCHANGED inflight

(* The first route is taken for the one that will be used. *)
Counted(r, first) ==
    /\ dep' = [i \in D |-> IF i # first THEN Pruned(dep[i])
                           ELSE [Pruned(dep[i]) EXCEPT
                                     !.inFlight = @ + 1,
                                     !.requestTimes = Append(@, now)]]
    /\ inflight' = [q \in DOMAIN inflight \union {r} |->
                        IF q = r THEN first ELSE inflight[q]]

Route(r) ==
    /\ gateway[r] = NewRequest
    /\ CandidateDeployments # {}
    /\ \E s \in Orders(CandidateDeployments) :
          /\ Counted(r, Place(s[1]))
          /\ gateway' = [gateway EXCEPT ![r] = [routes |-> s, at |-> 1]]
          /\ chosen' = [chosen EXCEPT ![Place(s[1])] = Append(@, now)]
    /\ UNCHANGED <<now, configures, bus>>

(* No route: nothing is counted, and the gateway reports the failure.        *)
RouteToNone(r) ==
    /\ gateway[r] = NewRequest
    /\ CandidateDeployments = {}
    /\ dep' = [i \in D |-> Pruned(dep[i])]
    /\ gateway' = [gateway EXCEPT ![r] = Ended]
    /\ bus' = Append(bus, Event("request.failed", r, NoRoute, 0))
    /\ UNCHANGED <<now, inflight, configures, chosen>>

-----------------------------------------------------------------------------
(* The gateway, as far as this plugin can tell. *)
Tried(r) == Place(gateway[r].routes[gateway[r].at])

AttemptSucceeds(r) ==
    /\ Trying(r)
    /\ \E tokens \in Usage :
          bus' = Append(bus, Event("request.completed", r, Tried(r), tokens))
    /\ gateway' = [gateway EXCEPT ![r] = Ended]
    /\ UNCHANGED <<now, plugin, configures, chosen>>

AttemptFails(r) ==
    /\ Trying(r)
    /\ LET s == gateway[r].routes
           n == gateway[r].at
           error == Event("upstream.error", r, Tried(r), 0)
       IN  IF n < Len(s)
           THEN /\ bus' = Append(bus, error)
                /\ gateway' = [gateway EXCEPT ![r].at = n + 1]
           ELSE /\ bus' = bus \o <<error, Event("request.failed", r, Tried(r), 0)>>
                /\ gateway' = [gateway EXCEPT ![r] = Ended]
    /\ UNCHANGED <<now, plugin, configures, chosen>>

-----------------------------------------------------------------------------
(* What one event does to a state s of the plugin, a record of dep and       *)
(* inflight.  The deployment is the one the request was counted for, and the *)
(* one the event names only if there is none.                                *)
DeploymentOf(s, e) == IF e.request \in DOMAIN s.inflight
                      THEN s.inflight[e.request] ELSE e.route

Forget(map, r) == [q \in DOMAIN map \ {r} |-> map[q]]

Release(d) == [d EXCEPT !.inFlight = IF @ > 0 THEN @ - 1 ELSE @]

Charged(d, tokens) ==
    IF tokens = 0 THEN d
    ELSE [d EXCEPT !.tokenEvents = Append(@, [at |-> now, tokens |-> tokens])]

Completed(s, e) ==
    LET i == DeploymentOf(s, e)
    IN  [dep |-> [s.dep EXCEPT ![i] = Charged(Release(@), e.tokens)],
         inflight |-> Forget(s.inflight, e.request)]

(* Mutant of Penalised: one failure more is allowed than allowed_fails says. *)
PenalisedLate(d) ==
    LET failures == Append(d.failures, now)
    IN  [d EXCEPT !.failures = failures,
                  !.cooldownUntil = IF Len(failures) > AllowedFails
                                    THEN now + CooldownTime ELSE @]

(* A failure is recorded, and all those not yet pruned are counted. *)
Penalised(d) ==
    LET failures == Append(d.failures, now)
    IN  [d EXCEPT !.failures = failures,
                  !.cooldownUntil = IF Len(failures) >= AllowedFails
                                    THEN now + CooldownTime ELSE @]

(* Mutant of Failed: upstream.error releases the request as request.failed does. *)
FailedReleasingTwice(s, e) ==
    LET i == DeploymentOf(s, e)
    IN  [dep |-> [s.dep EXCEPT ![i] = Penalised(Release(@))],
         inflight |-> Forget(s.inflight, e.request)]

(* Only the end of the request releases it, and only if it was counted. *)
Failed(s, e) ==
    LET i == DeploymentOf(s, e)
        ends == e.type = "request.failed" /\ s.dep[i].inFlight > 0
    IN  [dep |-> [s.dep EXCEPT ![i] = Penalised(IF ends THEN Release(@) ELSE @)],
         inflight |-> IF ends THEN Forget(s.inflight, e.request) ELSE s.inflight]

(* An event of no deployment of the list is passed over. *)
Learn(s, e) == IF DeploymentOf(s, e) \notin D THEN s
               ELSE IF e.type = "request.completed" THEN Completed(s, e)
               ELSE Failed(s, e)

(* A batch of one or two events, in order, and one prune at its end. *)
Emit(n) ==
    /\ n <= Len(bus)
    /\ LET one == Learn([dep |-> dep, inflight |-> inflight], bus[1])
           after == IF n = 1 THEN one ELSE Learn(one, bus[2])
       IN  /\ dep' = [i \in D |-> Pruned(after.dep[i])]
           /\ inflight' = after.inflight
    /\ bus' = SubSeq(bus, n + 1, Len(bus))
    /\ UNCHANGED <<now, configures, gateway, chosen>>

Next == \/ Tick \/ Configure
        \/ \E r \in Requests : Route(r) \/ RouteToNone(r)
                               \/ AttemptSucceeds(r) \/ AttemptFails(r)
        \/ \E n \in 1..2 : Emit(n)

Spec == Init /\ [][Next]_vars

-----------------------------------------------------------------------------
(* Types of the variables. *)
TypeOK ==
    /\ now \in 0..MaxTime
    /\ \A i \in D : /\ dep[i].inFlight \in 0..Cardinality(Requests)
                    /\ dep[i].cooldownUntil \in 0..(MaxTime + CooldownTime)
                    /\ \A n \in DOMAIN dep[i].failures : dep[i].failures[n] \in 0..now
                    /\ \A n \in DOMAIN dep[i].requestTimes : dep[i].requestTimes[n] \in 0..now
    /\ DOMAIN inflight \subseteq Requests
    /\ \A r \in DOMAIN inflight : inflight[r] \in D
    /\ configures \in 0..MaxConfigures

(* The in-flight count of a deployment is the number of requests that        *)
(* inflightByRequest holds for it, until a reconfiguration, which resets the *)
(* one and not the other (README.md:20; main.go:97-102, :123-130, :165-185). *)
InFlightCounts ==
    configures = 0 =>
        \A i \in D : dep[i].inFlight = Cardinality({r \in DOMAIN inflight : inflight[r] = i})

(* Once every request has ended and its events were delivered, nothing is in *)
(* flight, however attempts, fallbacks and batches fell (main.go:166-185).   *)
NothingLeaks ==
    configures = 0 /\ bus = <<>> /\ (\A r \in Requests : ~Trying(r)) =>
        inflight = <<>> /\ \A i \in D : dep[i].inFlight = 0

(* Enough failures on record keep a deployment cooling down for the whole    *)
(* cooldown time after the last of them (README.md:19; main.go:186-189).     *)
RepeatedFailuresCool ==
    \A i \in D :
        LET fs == dep[i].failures
        IN  Len(fs) >= AllowedFails => dep[i].cooldownUntil >= fs[Len(fs)] + CooldownTime

(* rpm: a provider and model is the first choice of at most rpm requests in  *)
(* any 60 seconds, as long as it is not reconfigured.  The rpm is that of    *)
(* its first entry, and further entries must have a limit of their own to be *)
(* held to it (README.md:17; main.go:219-224, :319-330, :340-349, :366-373). *)
RpmOfFirstChoices ==
    \A p \in D :
        /\ configures = 0 /\ p = Place(p) /\ Deployments[p].rpm > 0
        /\ \A i \in D : Place(i) = p => Limited(i)
        => Len(After(chosen[p], now - Minute)) <= Deployments[p].rpm

(* A deployment is charged with failures of its own: one is recorded for it  *)
(* only when an event says that the attempt at it failed (README.md:19-20,   *)
(* main_test.go:72-77).                                                      *)
Emitted == {bus[n] : n \in 1..(Len(bus) - Len(bus'))}
FailuresAttributed ==
    [][\A i \in D : Len(dep'[i].failures) > Len(dep[i].failures) =>
          \E e \in Emitted : e.route = i /\ e.type # "request.completed"]_vars
=============================================================================
