----------------------------- MODULE MCRateLimitMemory -----------------------------
(* RateLimitMemory with two tenants, one of them unauthenticated, two models *)
(* and a rule for one group that shares buckets with the defaults.           *)
EXTENDS RateLimitMemory

Rule(tenant, model, group, rpm, tpm) ==
    [tenant |-> tenant, subject |-> <<>>, model |-> model, group |-> group,
     requestsPerMinute |-> rpm, tokensPerMinute |-> tpm]

Defaults(rpm, tpm) == [requestsPerMinute |-> rpm, tokensPerMinute |-> tpm]

(* The README's configuration in the small: a group with higher limits.      *)
AdminRule == [keyBy |-> "tenant_model",
              defaults |-> Defaults(1, 2),
              rules |-> <<Rule(<<"t">>, <<"m">>, <<"admin">>, 2, 3)>>]

(* One bucket per tenant, a limit of its own for one model, no default       *)
(* request limit.                                                            *)
TenantBudget == [keyBy |-> "tenant",
                 defaults |-> Defaults(0, 3),
                 rules |-> <<Rule(Wildcard, <<"m">>, <<>>, 1, 0),
                             Rule(<<>>, <<"m">>, <<"admin">>, 9, 9)>>]

Request(tenant, model, groups, tokens) ==
    [tenant |-> tenant, subject |-> <<>>, model |-> model, groups |-> groups,
     tokens |-> tokens]

MCConfigs == {AdminRule, TenantBudget}
MCRequests == {Request(<<"t">>, <<"m">>, {<<"admin">>}, 1),
               Request(<<"t">>, <<"m">>, {}, 1),
               Request(<<"t">>, <<"x">>, {}, 2),
               Request(<<>>, <<"m">>, {}, 0)}
=============================================================================
