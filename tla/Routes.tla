------------------------------------ MODULE Routes -----------------------------------
(*****************************************************************************)
(* The two routers without memory: plugins/router-weighted orders the        *)
(* candidates of the request, plugins/router-consul those that Consul names. *)
(* A route is kept as the candidate or instance it leads to; its Priority is *)
(* its place in the answer.                                                  *)
(*                                                                           *)
(* Neither takes a lock.  router-consul reads its service name before it     *)
(* asks Consul, tag_prefix_model for every instance of the answer, and its   *)
(* strategy after the last one: Configure may come between any two of these. *)
(* What the other prefixes make of a route, its base URL and provider model, *)
(* is left out.                                                              *)
(*****************************************************************************)
EXTENDS SequencesExt

CONSTANTS RouterConfigs,   (* [strategy, service, prefix], "" for a missing field *)
          Services         (* [service, id, model]: what Consul may know.  An id is a
                              number; model[p] is the logical model that an instance
                              has in its first tag with the prefix p, or without
                              such a tag in its metadata                     *)

ASSUME ServicesAssumption == IsFiniteSet(Services) /\ \A i \in Services : i.id \in Int

VARIABLES
    router,   (* plugin: the settings of the router                          *)
    passing   (* environment: the instances whose health check passes        *)

routesVars == <<router, passing>>

RouterSettings(kind, config) ==
    [strategy |-> IF config.strategy # "" THEN config.strategy
                  ELSE IF kind = "weighted" THEN "weighted" ELSE "shuffle",
     service |-> IF config.service = "" THEN "litellm" ELSE config.service,
     prefix |-> IF config.prefix = "" THEN "model:" ELSE config.prefix]

ConfigureRouter(kind, config) ==
    /\ router' = RouterSettings(kind, config)
    /\ UNCHANGED passing

(* An instance comes or goes, or its health check changes. *)
HealthChanges(instance) ==
    /\ passing' \in {passing \ {instance}, passing \union {instance}} \ {passing}
    /\ UNCHANGED router

-----------------------------------------------------------------------------
(* Every order of a set. *)
Orders(set) == Bijection(1..Cardinality(set), set)

(* router-weighted; a candidate is known by its place among the candidates.  *)
Healthy(candidates) == {i \in DOMAIN candidates : candidates[i].healthy}

(* The stable sort: heavier first, equal weights in the order they came in.  *)
ByWeight(candidates, places) ==
    LET Before(i, j) == \/ candidates[i].weight > candidates[j].weight
                        \/ (candidates[i].weight = candidates[j].weight /\ i < j)
    IN {order \in Orders(places) :
           \A m, n \in DOMAIN order : m < n => Before(order[m], order[n])}

Placed(candidates, order) == [n \in DOMAIN order |-> candidates[order[n]]]

(* Mutant of WeightedAnswers: unhealthy candidates are routed to as well. *)
WeightedAnswersAll(candidates) ==
    {Placed(candidates, order) :
        order \in IF router.strategy \in {"ordered", "fallback"}
                  THEN ByWeight(candidates, DOMAIN candidates)
                  ELSE Orders(DOMAIN candidates)}

(* The answers Route may give: shuffle and weighted may both come to any     *)
(* order, a weight of zero or less counting as one.                          *)
WeightedAnswers(candidates) ==
    {Placed(candidates, order) :
        order \in IF router.strategy \in {"ordered", "fallback"}
                  THEN ByWeight(candidates, Healthy(candidates))
                  ELSE Orders(Healthy(candidates))}

(* router-consul: discover, with the service of the settings at this moment. *)
Discovered == {i \in passing : i.service = router.service}

(* Mutant of HasModel: an instance without the tag counts as any model. *)
HasModelOrNone(instance, model) == instance.model[router.prefix] \in {model, ""}

(* Route, for one instance: its model by the prefix of this moment. *)
HasModel(instance, model) == instance.model[router.prefix] = model

(* ... and for all that had the model: the order of Consul's answer is lost  *)
(* in the shuffle or, but for instances of one id, in the sort.              *)
ConsulAnswers(mine) ==
    IF router.strategy = "shuffle"
    THEN Orders(mine)
    ELSE {order \in Orders(mine) :
             \A m, n \in DOMAIN order : m < n => order[m].id <= order[n].id}

RoutesInit(kind) ==
    /\ \E c \in RouterConfigs : router = RouterSettings(kind, c)
    /\ passing = Services
=============================================================================
