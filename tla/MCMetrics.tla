----------------------------------- MODULE MCMetrics ----------------------------------
(* Metrics on a small instance. *)
EXTENDS Metrics

Done(tenant, requested, upstream, tokens) ==
    [type |-> "request.completed", tenant |-> tenant, provider |-> "p",
     requested |-> requested, upstream |-> upstream, tokens |-> tokens]

(* Two tenants, a name that is a model's own and an alias of another, and a  *)
(* usage that names no model of the upstream.                                *)
Plain == Done("ta", "m", "m", 2)
Unasked == Done("ta", "", "m", 1)
Alias == Done("tb", "m", "m2", 1)
Unnamed == Done("ta", "m", "", 1)
Failed == [Done("tb", "m", "m", 1) EXCEPT !.type = "request.failed"]
Other == [Done("", "", "", 0) EXCEPT !.type = "cache.hit"]

MCGatewayEvents == {Plain, Unasked, Alias, Unnamed, Failed, Other}
MCEmitCalls == {<<Plain, Unasked>>, <<Alias, Alias>>, <<Failed>>, <<Plain>>, <<Unnamed>>,
                <<Other>>}

Keep == [address |-> "", namespace |-> "", labels |-> {}, catalog |-> {}]
MCConfigureCalls ==
    {[Keep EXCEPT !.address = "other"],
     [Keep EXCEPT !.labels = {TRUE}],
     [Keep EXCEPT !.labels = {FALSE},
                  !.catalog = {<<[model |-> "", provider |-> "p"],
                                 [model |-> "a", provider |-> "p"],
                                 [model |-> "a", provider |-> "p"]>>}],
     [Keep EXCEPT !.namespace = "my-gateway"]}

MCSanitized == [n \in {"my-gateway"} |-> "my_gateway"]
=============================================================================
