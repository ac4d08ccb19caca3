-------------------------------- MODULE MCRequestPath --------------------------------
(* RequestPath on a small instance: two tenants with one key each.           *)
EXTENDS RequestPath

Key(id, value, tenant) == [id |-> id, value |-> value, tenant |-> tenant, subject |-> ""]

(* A key without id, a key listed twice, a list rejected at its second entry. *)
MCKeyConfigs ==
    {<<Key("a", "ka", "ta"), Key("", "kb", "")>>,
     <<Key("a", "ka", "ta"), Key("b", "ka", "tb")>>,
     <<Key("b", "kb", "tb"), Key("x", "", "tb"), Key("a", "ka", "ta")>>}

MCDbConfigs == {[database |-> "d1", table |-> "t1"], [database |-> "d2", table |-> "t2"]}
Row(database, name, value, tenant) ==
    [database |-> database, table |-> name, value |-> value, tenant |-> tenant, subject |-> "s"]
MCRows == {Row("d1", "t1", "ka", "ta"), Row("d2", "t2", "kb", "tb"), Row("d1", "t2", "ka", "tb")}

Text(role, text) == [role |-> role, text |-> text]
Prompt(version, default, tenant, mode) ==
    [ref |-> "", version |-> version, default |-> default, tenant |-> tenant, subject |-> "",
     model |-> "*", mode |-> mode, messages |-> <<Text("system", version)>>]

MCPromptConfigs ==
    {<<Prompt("v10", FALSE, "ta", "append"), Prompt("v2", TRUE, "", "replace_system")>>,
     <<Prompt("", FALSE, "*", ""), Prompt("v2", FALSE, "tb", "other")>>,
     <<>>}
MCVersionOrder == <<"v1", "v10", "v2">>

MCRouterConfigs == {[strategy |-> "", service |-> "", prefix |-> ""],
                    [strategy |-> "id", service |-> "other", prefix |-> "m:"]}

(* The model by the prefix "model:", and that by "m:". *)
Instance(service, id, model, m) ==
    [service |-> service, id |-> id,
     model |-> [p \in {"model:", "m:"} |-> IF p = "m:" THEN m ELSE model]]
MCServices == {Instance("litellm", 1, "m", ""), Instance("litellm", 2, "n", "m"),
               Instance("other", 3, "m", "m"), Instance("other", 4, "", "n")}
Candidate(name, weight, healthy) == [name |-> name, weight |-> weight, healthy |-> healthy]
MCCandidates == <<Candidate("p", 0, TRUE), Candidate("q", 2, TRUE), Candidate("r", 3, FALSE)>>

MCStdoutConfigs == {[include |-> "true", omit |-> "true"], [include |-> "", omit |-> ""]}
MCOtelConfigs == {[collector |-> "c1", logs |-> FALSE], [collector |-> "c2", logs |-> FALSE],
                  [collector |-> "l1", logs |-> TRUE]}

MCDeployments == {[authn |-> "static", prompt |-> "registry", router |-> "weighted"],
                  [authn |-> "postgres", prompt |-> "injector", router |-> "consul"]}

Said == <<Text("user", "q1"), Text("system", "policy"), Text("user", "q2")>>
Call(bearer, apiKey, version, decodes) ==
    [bearer |-> bearer, apiKey |-> apiKey, ref |-> "p", version |-> version, model |-> "m",
     messages |-> Said, payload |-> TRUE, decodes |-> decodes]
MCCalls == {Call("ka", "kb", "", TRUE), Call("", "kb", "v2", FALSE), Call("", "", "", TRUE)}
=============================================================================
