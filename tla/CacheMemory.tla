-------------------------------- MODULE CacheMemory --------------------------------
(*****************************************************************************)
(* plugins/cache-memory: a TTL cache bounded by LRU eviction.  Every RPC     *)
(* runs in a goroutine of its own.  Lookup and Store compute their key, and  *)
(* Lookup its "now" and Store its ttl, before they take the mutex, so each   *)
(* is two steps that anything can come between; Configure is one.            *)
(*                                                                           *)
(* A name is a sequence of atoms, so that key() is the concatenation it is   *)
(* in the code.  A Response keeps whose it is and which one it is.           *)
(*****************************************************************************)
EXTENDS Integers, Sequences, FiniteSets

CONSTANTS Callers,      (* concurrent RPC calls                              *)
          Tenants,      (* Identity.TenantID                                 *)
          CacheKeys,    (* the keys the core computes                        *)
          Versions,     (* what distinguishes responses of a tenant          *)
          PolicyTTLs,   (* Policy.TTLMillis, 0 for none                      *)
          Configs,      (* what Configure can be called with                 *)
          MaxTime       (* bound: the clock stops there                      *)

ASSUME TimeAssumption == MaxTime \in Nat /\ PolicyTTLs \subseteq Nat

ASSUME ConfigsAssumption ==
    \A c \in Configs : c.defaultTTL \in Int /\ c.maxEntries \in Int

VARIABLES now,         (* the clock                                          *)
          items,       (* plugin.items                                       *)
          defaultTTL, maxEntries, namespace,
          stuck,       (* evictLocked loops for ever, holding the mutex      *)
          calls,       (* the calls in flight                                *)
          latest       (* history: the last entry stored under each key      *)

settings == <<defaultTTL, maxEntries, namespace>>
vars == <<now, items, settings, stuck, calls, latest>>

Responses == [tenant : Tenants, version : Versions]
Idle == [op |-> "idle"]

-----------------------------------------------------------------------------
(* Mutant of Key: the tenant is left out of the key. *)
KeyWithoutTenant(tenant, cacheKey) == namespace \o <<":">> \o cacheKey

(* key joins three names with colons and escapes nothing: a name with a      *)
(* colon in it can make one key of two tenants' names.                       *)
Joined(ns, tenant, cacheKey) == ns \o <<":">> \o tenant \o <<":">> \o cacheKey

Key(tenant, cacheKey) == Joined(namespace, tenant, cacheKey)

(* A map without key k, and a map with k set to v. *)
Without(map, k) == [j \in DOMAIN map \ {k} |-> map[j]]
With(map, k, v) == [j \in DOMAIN map \union {k} |-> IF j = k THEN v ELSE map[j]]

Init == /\ now = 0
        /\ items = <<>>
        /\ \E c \in Configs : /\ c.maxEntries > 0
                              /\ defaultTTL = c.defaultTTL
                              /\ maxEntries = c.maxEntries
                              /\ namespace = c.namespace
        /\ stuck = FALSE
        /\ calls = [c \in Callers |-> Idle]
        /\ latest = <<>>

Tick == /\ now < MaxTime
        /\ now' = now + 1
        /\ UNCHANGED <<items, settings, stuck, calls, latest>>

(* Every setting is assigned before max_entries is judged: the error that    *)
(* "max_entries must be positive" reports changes nothing of it.             *)
Configure(config) ==
    /\ ~stuck
    /\ items' = <<>>
    /\ defaultTTL' = config.defaultTTL
    /\ maxEntries' = config.maxEntries
    /\ namespace' = config.namespace
    /\ latest' = <<>>
    /\ UNCHANGED <<now, stuck, calls>>

-----------------------------------------------------------------------------
BeginLookup(c, tenant, cacheKey) ==
    /\ calls[c] = Idle
    /\ calls' = [calls EXCEPT ![c] =
                    [op |-> "lookup", tenant |-> tenant,
                     key |-> Key(tenant, cacheKey), at |-> now]]
    /\ UNCHANGED <<now, items, settings, stuck, latest>>

(* Mutant of Expired: the last instant of an entry is not its own. *)
ExpiredAtOnce(entry, at) == at >= entry.expiresAt

Expired(entry, at) == at > entry.expiresAt

LookupMiss(c) ==
    /\ calls[c].op = "lookup" /\ ~stuck
    /\ LET k == calls[c].key
       IN  /\ k \in DOMAIN items => Expired(items[k], calls[c].at)
           /\ items' = Without(items, k)
    /\ calls' = [calls EXCEPT ![c] = Idle]
    /\ UNCHANGED <<now, settings, stuck, latest>>

LookupHit(c) ==
    /\ calls[c].op = "lookup" /\ ~stuck
    /\ LET k == calls[c].key
       IN  /\ k \in DOMAIN items /\ ~Expired(items[k], calls[c].at)
           /\ items' = [items EXCEPT ![k].lastUsed = calls[c].at]
           /\ calls' = [calls EXCEPT ![c] =
                           [op |-> "hit", tenant |-> calls[c].tenant, key |-> k,
                            at |-> calls[c].at, response |-> items[k].response]]
    /\ UNCHANGED <<now, settings, stuck, latest>>

Reply(c) == /\ calls[c].op = "hit"
            /\ calls' = [calls EXCEPT ![c] = Idle]
            /\ UNCHANGED <<now, items, settings, stuck, latest>>

-----------------------------------------------------------------------------
(* Store does nothing at all when the ttl that applies is not positive. *)
BeginStore(c, response, cacheKey, policyTTL) ==
    LET ttl == IF policyTTL > 0 THEN policyTTL ELSE defaultTTL
    IN  /\ calls[c] = Idle /\ ttl > 0
        /\ calls' = [calls EXCEPT ![c] =
                        [op |-> "store", response |-> response, ttl |-> ttl,
                         key |-> Key(response.tenant, cacheKey)]]
        /\ UNCHANGED <<now, items, settings, stuck, latest>>

(* evictLocked removes, one by one, an entry with the earliest LastUsed (in  *)
(* map order when several have it): what it may leave of the map m is a part *)
(* of the right size none of whose entries was used before a removed one.    *)
PartsOf(m, size) == {s \in SUBSET DOMAIN m : Cardinality(s) = size}

SizeAfterEviction(m) == IF Cardinality(DOMAIN m) > maxEntries
                        THEN maxEntries ELSE Cardinality(DOMAIN m)

(* Mutant of EvictionsOf: the loop stops one entry too early. *)
EvictionsOneShort(m) ==
    {[k \in kept |-> m[k]] : kept \in
        {s \in SUBSET DOMAIN m : Cardinality(s) \in {maxEntries + 1, Cardinality(DOMAIN m)}}}

(* Mutant of EvictionsOf: Before for After, the latest entry goes first. *)
EvictionsOfLatest(m) ==
    {[k \in kept |-> m[k]] : kept \in
        {s \in PartsOf(m, SizeAfterEviction(m)) :
            \A k \in s, gone \in DOMAIN m \ s : m[gone].lastUsed >= m[k].lastUsed}}

EvictionsOf(m) ==
    {[k \in kept |-> m[k]] : kept \in
        {s \in PartsOf(m, SizeAfterEviction(m)) :
            \A k \in s, gone \in DOMAIN m \ s : m[gone].lastUsed <= m[k].lastUsed}}

Put(c) == With(items, calls[c].key,
               [response |-> calls[c].response, expiresAt |-> now + calls[c].ttl,
                lastUsed |-> now])

FinishStore(c) ==
    /\ calls[c].op = "store" /\ ~stuck
    /\ maxEntries >= 0
    /\ items' \in EvictionsOf(Put(c))
    /\ latest' = With(latest, calls[c].key, Put(c)[calls[c].key])
    /\ calls' = [calls EXCEPT ![c] = Idle]
    /\ UNCHANGED <<now, settings, stuck>>

(* With a negative max_entries the loop empties the map and never ends. *)
LoopForEver(c) ==
    /\ calls[c].op = "store" /\ ~stuck
    /\ maxEntries < 0
    /\ items' = <<>>
    /\ stuck' = TRUE
    /\ UNCHANGED <<now, settings, calls, latest>>

Next == \/ Tick
        \/ \E config \in Configs : Configure(config)
        \/ \E c \in Callers :
              \/ \E tenant \in Tenants, k \in CacheKeys : BeginLookup(c, tenant, k)
              \/ LookupMiss(c) \/ LookupHit(c) \/ Reply(c)
              \/ \E r \in Responses, k \in CacheKeys, ttl \in PolicyTTLs :
                     BeginStore(c, r, k, ttl)
              \/ FinishStore(c) \/ LoopForEver(c)

Spec == Init /\ [][Next]_vars

-----------------------------------------------------------------------------
(* Types of the variables. *)
TypeOK ==
    /\ now \in 0..MaxTime
    /\ \A k \in DOMAIN items : /\ items[k].response \in Responses
                               /\ items[k].expiresAt \in Nat
                               /\ items[k].lastUsed \in 0..now
    /\ stuck \in BOOLEAN
    /\ \A c \in Callers : calls[c].op \in {"idle", "lookup", "hit", "store"}

(* Between calls the map is within max_entries (main.go:85, :94-106).        *)
WithinMaxEntries == maxEntries >= 0 => Cardinality(DOMAIN items) <= maxEntries

(* All keys that a tenant's names can ever be joined to. *)
Namespaces == {c.namespace : c \in Configs}
KeysOf(tenant) == {Joined(ns, tenant, k) : ns \in Namespaces, k \in CacheKeys}

(* A hit is the response last stored under the key, and one that had not     *)
(* expired when the lookup began, whatever was stored, evicted or configured *)
(* since; and it is the tenant's own, unless another tenant's names join to  *)
(* that very key (main.go:48-67, :89-92; README.md:21).                      *)
HitStep(c) == calls[c].op = "lookup" /\ calls'[c].op = "hit"
HitsAreFaithful ==
    [][\A c \in Callers : HitStep(c) =>
          LET call == calls'[c]
          IN  /\ call.response = latest[call.key].response
              /\ call.response.tenant # call.tenant =>
                     call.key \in KeysOf(call.response.tenant) \cap KeysOf(call.tenant)
              /\ latest[call.key].expiresAt >= call.at]_vars

(* What was just stored is not what eviction removes, unless an entry that   *)
(* stays was used at the very same instant (main.go:84-85, :99-102).         *)
StoreStep(c) == calls[c].op = "store" /\ calls'[c] = Idle
StoredEntrySurvives ==
    [][\A c \in Callers : StoreStep(c) /\ maxEntries > 0 =>
          \/ calls[c].key \in DOMAIN items'
          \/ \E k \in DOMAIN items' : items'[k].lastUsed = now]_vars

(* "max_entries must be positive" (main.go:42-44): eviction is never left to *)
(* run with a limit that it cannot reach.                                    *)
EvictionEnds == ~stuck

-----------------------------------------------------------------------------
(* The cache implements TTLCache: between calls that overlap with stores,    *)
(* evictions and reconfigurations a lookup answers with what was stored last *)
(* under a key its tenant's names join to, and misses only if nothing was    *)
(* stored since the last Configure, if it has expired or if more keys were   *)
(* stored than max_entries (main.go:48-67).  A store in flight is not seen.  *)
Lifetimes == {ttl \in PolicyTTLs \union {c.defaultTTL : c \in Configs} : ttl > 0}

Stored == [k \in DOMAIN latest |-> [response |-> latest[k].response,
                                   expiresAt |-> latest[k].expiresAt]]

Asks == [c \in Callers |-> IF calls[c].op = "store" THEN Idle ELSE calls[c]]

Abstract == INSTANCE TTLCache
              WITH KeysFor <- [t \in Tenants |-> KeysOf(t)],
                   Limits <- {c.maxEntries : c \in Configs},
                   stored <- Stored, limit <- maxEntries, asks <- Asks
ImplementsTTLCache == Abstract!Spec
=============================================================================
