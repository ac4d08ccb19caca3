--------------------------------- MODULE TTLCache ---------------------------------
(*****************************************************************************)
(* What a response cache promises its tenants, with no mutex and no eviction *)
(* order: a tenant stores and asks under its own keys only; an answer is the *)
(* response last stored under that key, and was alive when the question was  *)
(* asked; and a question goes unanswered for a reason only.  A key may be    *)
(* more than one tenant's: such tenants share what is under it.              *)
(* CacheMemory implements it.                                                *)
(*****************************************************************************)
EXTENDS Integers, FiniteSets

CONSTANTS Callers, Tenants, Responses, Lifetimes, Limits,
          KeysFor  (* the keys of each tenant                                *)

VARIABLES now,     (* the clock                                              *)
          stored,  (* what was stored under each key since Configure         *)
          limit,   (* how many entries there is room for                     *)
          asks     (* the question each caller has put, or its answer        *)

vars == <<now, stored, limit, asks>>

Idle == [op |-> "idle"]
Nothing == [entry \in {} |-> 0]

Init == /\ now = 0
        /\ stored = Nothing
        /\ limit \in Limits
        /\ asks = [c \in Callers |-> Idle]

Tick == now' = now + 1 /\ UNCHANGED <<stored, limit, asks>>

Configure == /\ stored' = Nothing
             /\ limit' \in Limits
             /\ UNCHANGED <<now, asks>>

Store(key, response, lifetime) ==
    /\ key \in KeysFor[response.tenant]
    /\ stored' = [k \in DOMAIN stored \union {key} |->
                    IF k = key
                    THEN [response |-> response, expiresAt |-> now + lifetime]
                    ELSE stored[k]]
    /\ UNCHANGED <<now, limit, asks>>

Ask(c, tenant, key) ==
    /\ asks[c] = Idle
    /\ asks' = [asks EXCEPT ![c] = [op |-> "lookup", tenant |-> tenant,
                                    key |-> key, at |-> now]]
    /\ UNCHANGED <<now, stored, limit>>

Hit(c) ==
    /\ asks[c].op = "lookup"
    /\ asks[c].key \in DOMAIN stored
    /\ asks[c].at <= stored[asks[c].key].expiresAt
    /\ asks' = [asks EXCEPT ![c] = [op |-> "hit", tenant |-> asks[c].tenant,
                                    key |-> asks[c].key, at |-> asks[c].at,
                                    response |-> stored[asks[c].key].response]]
    /\ UNCHANGED <<now, stored, limit>>

(* Nothing was stored, or it has expired by now, or there was not room for   *)
(* everything that was stored.                                               *)
Miss(c) ==
    /\ asks[c].op = "lookup"
    /\ \/ asks[c].key \notin DOMAIN stored
       \/ stored[asks[c].key].expiresAt < now
       \/ Cardinality(DOMAIN stored) > limit
    /\ asks' = [asks EXCEPT ![c] = Idle]
    /\ UNCHANGED <<now, stored, limit>>

Reply(c) == /\ asks[c].op = "hit"
            /\ asks' = [asks EXCEPT ![c] = Idle]
            /\ UNCHANGED <<now, stored, limit>>

Next == \/ Tick
        \/ Configure
        \/ \E r \in Responses, l \in Lifetimes : \E key \in KeysFor[r.tenant] :
              Store(key, r, l)
        \/ \E c \in Callers :
              \/ \E tenant \in Tenants : \E key \in KeysFor[tenant] : Ask(c, tenant, key)
              \/ Hit(c) \/ Miss(c) \/ Reply(c)

Spec == Init /\ [][Next]_vars
=============================================================================
