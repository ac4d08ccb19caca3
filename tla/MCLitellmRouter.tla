------------------------------- MODULE MCLitellmRouter -------------------------------
(* LitellmRouter with deployments of the requested model and of one it falls *)
(* back to.                                                                  *)
EXTENDS LitellmRouter, TLC

Deployment(model, key, weight, rpm, tpm) ==
    [model |-> model, key |-> key, weight |-> weight, rpm |-> rpm, tpm |-> tpm]

(* Two of the requested group, one limited to a request a minute and one to *)
(* a token a minute; the first is an entry of another group as well, before. *)
Listed == <<Deployment("mini", "a", 1, 1, 0), Deployment("gpt", "b", 1, 0, 1),
            Deployment("gpt", "a", 100, 2, 0)>>

(* A deployment and its fallback. *)
WithFallback == <<Deployment("gpt", "a", 1, 0, 0), Deployment("mini", "b", 1, 1, 0)>>

NoFallback == <<>>
ToMini == <<"mini">>

(* Requests differ in their identifiers only. *)
SymmetricRequests == Permutations(Requests)
=============================================================================
