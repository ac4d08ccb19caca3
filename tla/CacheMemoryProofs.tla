------------------------------ MODULE CacheMemoryProofs -------------------------------
(*****************************************************************************)
(* Proofs about CacheMemory, for any number of concurrent calls, tenants,    *)
(* keys and configurations, rejected ones among them.                        *)
(*                                                                           *)
(* IInv is inductive.  What hits rely on is Agrees: that whatever is in the  *)
(* map is what latest says of its key, and under a key of its own tenant;    *)
(* the second half is known of a response long before it is stored, from     *)
(* the moment its Store computed the key (CallsOwnKeys).                     *)
(*****************************************************************************)
EXTENDS CacheMemory, Facts, FiniteSetTheorems, TLAPS

CallType ==
    {Idle} \union [op : {"lookup"}, tenant : Tenants, key : UNION {KeysOf(t) : t \in Tenants},
                   at : Nat]
           \union [op : {"hit"}, tenant : Tenants, key : UNION {KeysOf(t) : t \in Tenants},
                   at : Nat, response : Responses]
           \union [op : {"store"}, response : Responses, ttl : Nat \ {0},
                   key : UNION {KeysOf(t) : t \in Tenants}]

EntryType == [response : Responses, expiresAt : Nat, lastUsed : Nat]

Types ==
    /\ now \in 0..MaxTime
    /\ items \in [DOMAIN items -> EntryType]
    /\ latest \in [DOMAIN latest -> EntryType]
    /\ namespace \in Namespaces /\ defaultTTL \in Int /\ maxEntries \in Int
    /\ stuck \in BOOLEAN
    /\ calls \in [Callers -> CallType]

(* Nothing was used in the future. *)
PastUses ==
    /\ \A k \in DOMAIN items : items[k].lastUsed <= now
    /\ \A c \in Callers : calls[c].op = "lookup" => calls[c].at <= now

CallsOwnKeys ==
    \A c \in Callers :
        /\ calls[c].op = "lookup" => calls[c].key \in KeysOf(calls[c].tenant)
        /\ calls[c].op = "store" => calls[c].key \in KeysOf(calls[c].response.tenant)

Agrees ==
    \A k \in DOMAIN items :
        /\ k \in DOMAIN latest
        /\ items[k].response = latest[k].response
        /\ items[k].expiresAt = latest[k].expiresAt
        /\ k \in KeysOf(items[k].response.tenant)

Bounded == IsFiniteSet(DOMAIN items) /\ WithinMaxEntries

IInv == Types /\ PastUses /\ CallsOwnKeys /\ Agrees /\ Bounded

-----------------------------------------------------------------------------
(* The key that a call computes is one of its tenant's. *)
LEMMA KeyIsOwn ==
    ASSUME namespace \in Namespaces, NEW t \in Tenants, NEW k \in CacheKeys
    PROVE  Key(t, k) \in KeysOf(t)
BY DEF Key, KeysOf

(* An eviction leaves a part of the map, of a size the limit allows, and     *)
(* nothing that was used before what it removes.                             *)
LEMMA EvictionLeaves ==
    ASSUME NEW m, IsFiniteSet(DOMAIN m), maxEntries \in Nat, NEW n \in EvictionsOf(m)
    PROVE  /\ DOMAIN n \subseteq DOMAIN m
           /\ n = [k \in DOMAIN n |-> m[k]]
           /\ Cardinality(DOMAIN n) <= maxEntries
           /\ Cardinality(DOMAIN n) = SizeAfterEviction(m)
           /\ \A k \in DOMAIN n, gone \in DOMAIN m \ DOMAIN n : m[gone].lastUsed <= m[k].lastUsed
<1>1. PICK s \in PartsOf(m, SizeAfterEviction(m)) :
            /\ \A k \in s, gone \in DOMAIN m \ s : m[gone].lastUsed <= m[k].lastUsed
            /\ n = [k \in s |-> m[k]]
    BY DEF EvictionsOf
<1>2. s = DOMAIN n /\ s \subseteq DOMAIN m /\ Cardinality(s) = SizeAfterEviction(m)
    BY <1>1 DEF PartsOf
<1>3. SizeAfterEviction(m) <= maxEntries
    BY FS_CardinalityType DEF SizeAfterEviction
<1> QED
    BY <1>1, <1>2, <1>3

-----------------------------------------------------------------------------
(* At the start the map is empty and nobody calls. *)
LEMMA InitIInv == Init => IInv
<1> SUFFICES ASSUME Init PROVE IInv
    OBVIOUS
<1>1. DOMAIN items = {} /\ DOMAIN latest = {}
    BY DEF Init
<1>2. Types
    <2>1. now \in 0..MaxTime
        BY TimeAssumption DEF Init
    <2>2. namespace \in Namespaces /\ defaultTTL \in Int /\ maxEntries \in Int
        BY ConfigsAssumption DEF Init, Namespaces
    <2>3. calls \in [Callers -> CallType]
        BY DEF Init, CallType
    <2>4. items \in [DOMAIN items -> EntryType] /\ latest \in [DOMAIN latest -> EntryType]
        BY DEF Init
    <2>5. stuck \in BOOLEAN
        BY DEF Init
    <2> QED
        BY <2>1, <2>2, <2>3, <2>4, <2>5 DEF Types
<1>3. PastUses /\ CallsOwnKeys /\ Agrees
    BY <1>1 DEF Init, PastUses, CallsOwnKeys, Agrees, Idle
<1>4. Bounded
    BY <1>1, <1>2, FS_EmptySet DEF Bounded, WithinMaxEntries, Types
<1> QED
    BY <1>2, <1>3, <1>4 DEF IInv

(* Configure empties the map, so that what it is rejected for does no harm   *)
(* yet.                                                                      *)
LEMMA ConfigureKeeps ==
    ASSUME IInv, NEW config \in Configs, Configure(config)
    PROVE  IInv'
<1>1. DOMAIN items' = {} /\ DOMAIN latest' = {}
    BY DEF Configure
<1>2. Types'
    BY <1>1, ConfigsAssumption DEF Configure, Types, Namespaces, IInv
<1>3. PastUses' /\ CallsOwnKeys' /\ Agrees'
    BY <1>1 DEF Configure, PastUses, CallsOwnKeys, Agrees, IInv
<1>4. Bounded'
    BY <1>1, <1>2, FS_EmptySet DEF Bounded, WithinMaxEntries, Types
<1> QED
    BY <1>2, <1>3, <1>4 DEF IInv

(* A Lookup that begins knows a key of its tenant, and the time. *)
LEMMA BeginLookupKeeps ==
    ASSUME IInv, NEW c \in Callers, NEW tenant \in Tenants, NEW k \in CacheKeys,
           BeginLookup(c, tenant, k)
    PROVE  IInv'
<1>1. Key(tenant, k) \in KeysOf(tenant)
    BY KeyIsOwn DEF IInv, Types
<1> DEFINE call == [op |-> "lookup", tenant |-> tenant, key |-> Key(tenant, k), at |-> now]
<1>2. call \in CallType
    BY <1>1, TimeAssumption DEF CallType, IInv, Types
<1> HIDE DEF call
<1>3. calls' = [calls EXCEPT ![c] = call]
    BY DEF BeginLookup, call
<1>4. Types'
    BY <1>2, <1>3 DEF BeginLookup, IInv, Types, settings
<1>5. call.op = "lookup" /\ call.at <= now /\ call.key \in KeysOf(call.tenant)
    BY <1>1 DEF call, IInv, Types
<1>6. PastUses' /\ CallsOwnKeys'
    BY <1>3, <1>5 DEF BeginLookup, IInv, Types, PastUses, CallsOwnKeys
<1>7. Agrees' /\ Bounded'
    BY DEF BeginLookup, IInv, Agrees, Bounded, WithinMaxEntries, settings
<1> QED
    BY <1>4, <1>6, <1>7 DEF IInv

(* A miss removes at most the entry it did not return. *)
LEMMA LookupMissKeeps ==
    ASSUME IInv, NEW c \in Callers, LookupMiss(c)
    PROVE  IInv'
<1>1. /\ items' = [j \in DOMAIN items \ {calls[c].key} |-> items[j]]
      /\ calls' = [calls EXCEPT ![c] = Idle]
      /\ UNCHANGED <<now, defaultTTL, maxEntries, namespace, stuck, latest>>
    BY DEF LookupMiss, Without, settings
<1>2. Types'
    BY <1>1 DEF IInv, Types, CallType
<1>3. PastUses' /\ CallsOwnKeys' /\ Agrees'
    BY <1>1 DEF IInv, Types, PastUses, CallsOwnKeys, Agrees, Idle
<1>4. DOMAIN items' \subseteq DOMAIN items
    BY <1>1
<1>5. IsFiniteSet(DOMAIN items') /\ Cardinality(DOMAIN items') <= Cardinality(DOMAIN items)
    BY <1>4, FS_Subset DEF IInv, Bounded
<1>6. Bounded'
    BY <1>1, <1>5, FS_CardinalityType DEF IInv, Bounded, WithinMaxEntries, Types
<1> QED
    BY <1>2, <1>3, <1>6 DEF IInv

(* A hit dates its entry and changes nothing else of it. *)
LEMMA LookupHitKeeps ==
    ASSUME IInv, NEW c \in Callers, LookupHit(c)
    PROVE  IInv'
<1> DEFINE k == calls[c].key
<1> DEFINE call == [op |-> "hit", tenant |-> calls[c].tenant, key |-> k,
                    at |-> calls[c].at, response |-> items[k].response]
<1>1. /\ calls[c].op = "lookup" /\ k \in DOMAIN items
      /\ items' = [items EXCEPT ![k].lastUsed = calls[c].at]
      /\ calls' = [calls EXCEPT ![c] = call]
      /\ UNCHANGED <<now, defaultTTL, maxEntries, namespace, stuck, latest>>
    BY DEF LookupHit, settings
<1>2. /\ calls[c].tenant \in Tenants /\ calls[c].at \in Nat
      /\ k \in UNION {KeysOf(t) : t \in Tenants}
    BY <1>1 DEF IInv, Types, CallType, Idle
<1>3. items[k] \in EntryType
    BY <1>1 DEF IInv, Types
<1>4. call \in CallType
    BY <1>2, <1>3 DEF CallType, EntryType
<1>5. call.op = "hit"
    OBVIOUS
<1> HIDE DEF k, call
<1>6. /\ DOMAIN items' = DOMAIN items
      /\ items' \in [DOMAIN items' -> EntryType]
      /\ \A j \in DOMAIN items :
            /\ items'[j].response = items[j].response
            /\ items'[j].expiresAt = items[j].expiresAt
            /\ items'[j].lastUsed = IF j = k THEN calls[c].at ELSE items[j].lastUsed
    BY <1>1, <1>2, <1>3 DEF IInv, Types, EntryType
<1>7. Types'
    BY <1>1, <1>4, <1>6 DEF IInv, Types
<1>8. PastUses'
    BY <1>1, <1>5, <1>6 DEF IInv, Types, PastUses
<1>9. CallsOwnKeys'
    BY <1>1, <1>5 DEF IInv, Types, CallsOwnKeys
<1>10. Agrees' /\ Bounded'
    BY <1>1, <1>6 DEF IInv, Agrees, Bounded, WithinMaxEntries
<1> QED
    BY <1>7, <1>8, <1>9, <1>10 DEF IInv

(* A Store that begins knows a key of the tenant whose response it has. *)
LEMMA BeginStoreKeeps ==
    ASSUME IInv, NEW c \in Callers, NEW r \in Responses, NEW k \in CacheKeys,
           NEW policyTTL \in PolicyTTLs, BeginStore(c, r, k, policyTTL)
    PROVE  IInv'
<1> DEFINE ttl == IF policyTTL > 0 THEN policyTTL ELSE defaultTTL
<1> DEFINE call == [op |-> "store", response |-> r, ttl |-> ttl, key |-> Key(r.tenant, k)]
<1>1. r.tenant \in Tenants
    BY DEF Responses
<1>2. Key(r.tenant, k) \in KeysOf(r.tenant)
    BY <1>1, KeyIsOwn DEF IInv, Types
<1>3. ttl \in Nat \ {0}
    BY TimeAssumption DEF BeginStore, IInv, Types
<1>4. call \in CallType
    BY <1>1, <1>2, <1>3 DEF CallType
<1>5. call.op = "store" /\ call.key \in KeysOf(call.response.tenant)
    BY <1>2
<1>6. calls' = [calls EXCEPT ![c] = call]
    BY DEF BeginStore
<1> HIDE DEF ttl, call
<1>7. Types'
    BY <1>4, <1>6 DEF BeginStore, IInv, Types, settings
<1>8. PastUses' /\ CallsOwnKeys'
    BY <1>5, <1>6 DEF BeginStore, IInv, Types, PastUses, CallsOwnKeys
<1>9. Agrees' /\ Bounded'
    BY DEF BeginStore, IInv, Agrees, Bounded, WithinMaxEntries, settings
<1> QED
    BY <1>7, <1>8, <1>9 DEF IInv

(* What a Store puts into the map: the new entry beside the others. *)
LEMMA WhatIsPut ==
    ASSUME IInv, NEW c \in Callers, calls[c].op = "store"
    PROVE  LET k == calls[c].key
           IN  /\ calls[c].response \in Responses
               /\ k \in KeysOf(calls[c].response.tenant)
               /\ DOMAIN Put(c) = DOMAIN items \union {k}
               /\ Put(c) \in [DOMAIN items \union {k} -> EntryType]
               /\ Put(c)[k].response = calls[c].response
               /\ Put(c)[k].lastUsed = now
               /\ \A j \in DOMAIN items : j # k => Put(c)[j] = items[j]
               /\ IsFiniteSet(DOMAIN Put(c))
<1> DEFINE k == calls[c].key
<1> DEFINE new == [response |-> calls[c].response, expiresAt |-> now + calls[c].ttl,
                   lastUsed |-> now]
<1>1. calls[c].response \in Responses /\ calls[c].ttl \in Nat
    BY DEF IInv, Types, CallType, Idle
<1>2. new \in EntryType
    BY <1>1, TimeAssumption DEF EntryType, IInv, Types
<1>3. Put(c) = [j \in DOMAIN items \union {k} |-> IF j = k THEN new ELSE items[j]]
    BY DEF Put, With
<1>4. new.response = calls[c].response /\ new.lastUsed = now
    OBVIOUS
<1>5. IsFiniteSet(DOMAIN items \union {k})
    BY FS_AddElement DEF IInv, Bounded
<1>6. k \in KeysOf(calls[c].response.tenant)
    BY DEF IInv, CallsOwnKeys
<1> HIDE DEF k, new
<1>7. Put(c) \in [DOMAIN items \union {k} -> EntryType]
    BY <1>2, <1>3 DEF IInv, Types
<1> QED
    BY <1>1, <1>3, <1>4, <1>5, <1>6, <1>7 DEF k

(* A Store leaves no more than the limit allows, and what latest says.       *)
LEMMA FinishStoreKeeps ==
    ASSUME IInv, NEW c \in Callers, FinishStore(c)
    PROVE  IInv'
<1> DEFINE k == calls[c].key
<1>1. /\ calls[c].op = "store" /\ maxEntries \in Nat
      /\ items' \in EvictionsOf(Put(c))
      /\ latest' = With(latest, k, Put(c)[k])
      /\ calls' = [calls EXCEPT ![c] = Idle]
      /\ UNCHANGED <<now, defaultTTL, maxEntries, namespace, stuck>>
    BY DEF FinishStore, settings, IInv, Types
<1>2. /\ k \in KeysOf(calls[c].response.tenant)
      /\ DOMAIN Put(c) = DOMAIN items \union {k}
      /\ Put(c) \in [DOMAIN items \union {k} -> EntryType]
      /\ Put(c)[k].response = calls[c].response
      /\ Put(c)[k].lastUsed = now
      /\ \A j \in DOMAIN items : j # k => Put(c)[j] = items[j]
      /\ IsFiniteSet(DOMAIN Put(c))
    BY <1>1, WhatIsPut
<1>3. /\ DOMAIN items' \subseteq DOMAIN items \union {k}
      /\ items' = [j \in DOMAIN items' |-> Put(c)[j]]
      /\ Cardinality(DOMAIN items') <= maxEntries
    BY <1>1, <1>2, EvictionLeaves
<1>4. latest' = [j \in DOMAIN latest \union {k} |-> IF j = k THEN Put(c)[k] ELSE latest[j]]
    BY <1>1 DEF With
<1> HIDE DEF k
<1>5. items' \in [DOMAIN items' -> EntryType]
    BY <1>2, <1>3
<1>6. latest' \in [DOMAIN latest' -> EntryType]
    BY <1>2, <1>4 DEF IInv, Types
<1>7. Types'
    BY <1>1, <1>5, <1>6 DEF IInv, Types, CallType
<1>8. \A j \in DOMAIN items' : items'[j] = Put(c)[j] /\ (j # k => j \in DOMAIN items)
    BY <1>3
<1>9. PastUses'
    BY <1>1, <1>2, <1>8 DEF IInv, Types, PastUses, Idle
<1>10. CallsOwnKeys'
    BY <1>1 DEF IInv, Types, CallsOwnKeys, Idle
<1>11. Agrees'
    BY <1>2, <1>4, <1>8 DEF IInv, Agrees
<1>12. IsFiniteSet(DOMAIN items')
    BY <1>2, <1>3, FS_Subset
<1>13. Bounded'
    BY <1>1, <1>3, <1>12 DEF Bounded, WithinMaxEntries
<1> QED
    BY <1>7, <1>9, <1>10, <1>11, <1>13 DEF IInv

(* The loop that does not end has emptied the map. *)
LEMMA LoopKeeps ==
    ASSUME IInv, NEW c \in Callers, LoopForEver(c)
    PROVE  IInv'
<1>1. DOMAIN items' = {}
    BY DEF LoopForEver
<1>2. Types' /\ PastUses' /\ CallsOwnKeys' /\ Agrees'
    BY <1>1 DEF LoopForEver, IInv, Types, PastUses, CallsOwnKeys, Agrees, settings
<1>3. Bounded'
    BY <1>1, <1>2, FS_EmptySet DEF Bounded, WithinMaxEntries, Types
<1> QED
    BY <1>2, <1>3 DEF IInv

LEMMA IInvKept == IInv /\ [Next]_vars => IInv'
<1> SUFFICES ASSUME IInv, [Next]_vars
             PROVE  IInv'
    OBVIOUS
<1>1. CASE Tick
    <2>1. /\ now < now' /\ now' \in 0..MaxTime
          /\ UNCHANGED <<items, defaultTTL, maxEntries, namespace, stuck, calls, latest>>
        BY <1>1, TimeAssumption DEF Tick, settings, IInv, Types
    <2>2. \A c \in Callers : calls[c].op = "lookup" => calls[c].at \in Nat
        BY DEF IInv, Types, CallType, Idle
    <2>3. \A k \in DOMAIN items : items[k].lastUsed \in Nat
        BY DEF IInv, Types, EntryType
    <2>4. PastUses'
        BY <2>1, <2>2, <2>3, TimeAssumption DEF IInv, Types, PastUses
    <2> QED
        BY <2>1, <2>4 DEF IInv, Types, CallsOwnKeys, Agrees, Bounded, WithinMaxEntries
<1>2. CASE \E config \in Configs : Configure(config)
    BY <1>2, ConfigureKeeps
<1>3. ASSUME NEW c \in Callers, NEW tenant \in Tenants, NEW k \in CacheKeys,
             BeginLookup(c, tenant, k)
      PROVE  IInv'
    BY <1>3, BeginLookupKeeps
<1>4. ASSUME NEW c \in Callers, LookupMiss(c) \/ LookupHit(c)
      PROVE  IInv'
    BY <1>4, LookupMissKeeps, LookupHitKeeps
<1>5. ASSUME NEW c \in Callers, Reply(c)
      PROVE  IInv'
    <2>1. calls' = [calls EXCEPT ![c] = Idle] /\ Idle \in CallType
        BY <1>5 DEF Reply, CallType
    <2>2. Idle.op = "idle"
        BY DEF Idle
    <2>3. UNCHANGED <<now, items, defaultTTL, maxEntries, namespace, stuck, latest>>
        BY <1>5 DEF Reply, settings
    <2>4. Types'
        BY <2>1, <2>3 DEF IInv, Types
    <2>5. PastUses' /\ CallsOwnKeys'
        BY <2>1, <2>2, <2>3 DEF IInv, Types, PastUses, CallsOwnKeys
    <2>6. Agrees' /\ Bounded'
        BY <2>3 DEF IInv, Agrees, Bounded, WithinMaxEntries
    <2> QED
        BY <2>4, <2>5, <2>6 DEF IInv
<1>6. ASSUME NEW c \in Callers, NEW r \in Responses, NEW k \in CacheKeys,
             NEW ttl \in PolicyTTLs, BeginStore(c, r, k, ttl)
      PROVE  IInv'
    BY <1>6, BeginStoreKeeps
<1>7. ASSUME NEW c \in Callers, FinishStore(c) \/ LoopForEver(c)
      PROVE  IInv'
    BY <1>7, FinishStoreKeeps, LoopKeeps
<1>8. CASE UNCHANGED vars
    BY <1>8 DEF vars, settings, IInv, Types, PastUses, CallsOwnKeys, Agrees, Bounded,
                WithinMaxEntries
<1> QED
    BY <1>1, <1>2, <1>3, <1>4, <1>5, <1>6, <1>7, <1>8 DEF Next

LEMMA IInvHolds == Spec => []IInv
<1>1. Init => IInv
    BY InitIInv
<1>2. IInv /\ [Next]_vars => IInv'
    BY IInvKept
<1> QED
    BY <1>1, <1>2, PTL DEF Spec

-----------------------------------------------------------------------------
(* The cache stays within max_entries, also right after a configuration that *)
(* lowers it, as long as that is not negative.                               *)
THEOREM StaysBounded == Spec => []WithinMaxEntries
<1>1. IInv => WithinMaxEntries
    BY DEF IInv, Bounded
<1> QED
    BY <1>1, IInvHolds, PTL

(* Only LookupHit makes a hit. *)
LEMMA HitsAreMadeByLookups ==
    ASSUME IInv, [Next]_vars, NEW c \in Callers, HitStep(c)
    PROVE  LookupHit(c)
<1>1. calls[c].op = "lookup" /\ calls'[c].op = "hit" /\ calls \in [Callers -> CallType]
    BY DEF HitStep, IInv, Types
<1>2. ASSUME NEW d \in Callers, NEW v, calls' = [calls EXCEPT ![d] = v], v.op # "hit"
      PROVE  FALSE
    BY <1>1, <1>2
<1>3. ASSUME NEW d \in Callers, LookupHit(d)
      PROVE  LookupHit(c)
    <2> DEFINE v == [op |-> "hit", tenant |-> calls[d].tenant, key |-> calls[d].key,
                     at |-> calls[d].at, response |-> items[calls[d].key].response]
    <2>1. calls' = [calls EXCEPT ![d] = v]
        BY <1>3 DEF LookupHit
    <2> HIDE DEF v
    <2>2. d = c
        BY <1>1, <2>1
    <2> QED
        BY <1>3, <2>2
<1>4. ASSUME NEW d \in Callers, LookupMiss(d) \/ Reply(d) \/ FinishStore(d)
      PROVE  FALSE
    <2>1. calls' = [calls EXCEPT ![d] = Idle]
        BY <1>4 DEF LookupMiss, Reply, FinishStore
    <2>2. Idle.op # "hit"
        BY DEF Idle
    <2> QED
        BY <1>2, <2>1, <2>2
<1>5. ASSUME NEW d \in Callers, NEW t \in Tenants, NEW k \in CacheKeys, BeginLookup(d, t, k)
      PROVE  FALSE
    <2> DEFINE v == [op |-> "lookup", tenant |-> t, key |-> Key(t, k), at |-> now]
    <2>1. calls' = [calls EXCEPT ![d] = v] /\ v.op # "hit"
        BY <1>5 DEF BeginLookup
    <2> HIDE DEF v
    <2> QED
        BY <1>2, <2>1
<1>6. ASSUME NEW d \in Callers, NEW r \in Responses, NEW k \in CacheKeys,
             NEW ttl \in PolicyTTLs, BeginStore(d, r, k, ttl)
      PROVE  FALSE
    <2> DEFINE v == [op |-> "store", response |-> r,
                     ttl |-> IF ttl > 0 THEN ttl ELSE defaultTTL, key |-> Key(r.tenant, k)]
    <2>1. calls' = [calls EXCEPT ![d] = v] /\ v.op # "hit"
        BY <1>6 DEF BeginStore
    <2> HIDE DEF v
    <2> QED
        BY <1>2, <2>1
<1>7. ASSUME calls' = calls
      PROVE  FALSE
    BY <1>1, <1>7
<1>8. ASSUME NEW d \in Callers, LoopForEver(d)
      PROVE  FALSE
    BY <1>7, <1>8 DEF LoopForEver
<1>9. ~Tick /\ ~(\E config \in Configs : Configure(config)) /\ ~(UNCHANGED vars)
    BY <1>7 DEF Tick, Configure, vars
<1> QED
    BY <1>3, <1>4, <1>5, <1>6, <1>8, <1>9 DEF Next

(* A hit is the latest and a live response under its key, however many calls, *)
(* evictions and reconfigurations overlap it; and a response of another      *)
(* tenant only if that tenant's names join to the key too, whatever the      *)
(* tenants, keys and namespaces are called.                                  *)
THEOREM FaithfulHits == Spec => HitsAreFaithful
<1>1. ASSUME IInv, [Next]_vars, NEW c \in Callers, HitStep(c)
      PROVE  LET call == calls'[c]
             IN  /\ call.response = latest[call.key].response
                 /\ call.response.tenant # call.tenant =>
                       call.key \in KeysOf(call.response.tenant) \cap KeysOf(call.tenant)
                 /\ latest[call.key].expiresAt >= call.at
    <2> DEFINE k == calls[c].key
    <2>1. LookupHit(c)
        BY <1>1, HitsAreMadeByLookups
    <2>2. /\ calls[c].op = "lookup" /\ k \in DOMAIN items /\ ~(calls[c].at > items[k].expiresAt)
          /\ calls'[c] = [op |-> "hit", tenant |-> calls[c].tenant, key |-> k,
                          at |-> calls[c].at, response |-> items[k].response]
        BY <1>1, <2>1 DEF LookupHit, Expired, IInv, Types
    <2>3. calls[c].tenant \in Tenants /\ calls[c].at \in Nat
        BY <1>1, <2>2 DEF IInv, Types, CallType, Idle
    <2>4. items[k] \in EntryType /\ items[k].response.tenant \in Tenants
        BY <1>1, <2>2 DEF IInv, Types, EntryType, Responses
    <2>5. /\ items[k].response = latest[k].response
          /\ items[k].expiresAt = latest[k].expiresAt
          /\ k \in KeysOf(items[k].response.tenant)
        BY <1>1, <2>2 DEF IInv, Agrees
    <2>6. k \in KeysOf(calls[c].tenant)
        BY <1>1, <2>2 DEF IInv, CallsOwnKeys
    <2>8. items[k].expiresAt >= calls[c].at
        BY <2>2, <2>3, <2>4 DEF EntryType
    <2> HIDE DEF k
    <2> QED
        BY <2>2, <2>5, <2>6, <2>8
<1>2. IInv /\ [Next]_vars =>
          [\A c \in Callers : HitStep(c) =>
              LET call == calls'[c]
              IN  /\ call.response = latest[call.key].response
                  /\ call.response.tenant # call.tenant =>
                        call.key \in KeysOf(call.response.tenant) \cap KeysOf(call.tenant)
                  /\ latest[call.key].expiresAt >= call.at]_vars
    BY <1>1
<1> QED
    BY <1>2, IInvHolds, PTL DEF Spec, HitsAreFaithful

(* The variables have their types, and nothing is dated in the future. *)
THEOREM TypeCorrect == Spec => []TypeOK
<1>1. ASSUME IInv
      PROVE  TypeOK
    <2>1. \A k \in DOMAIN items : /\ items[k].response \in Responses
                                  /\ items[k].expiresAt \in Nat
                                  /\ items[k].lastUsed \in Nat
        BY <1>1 DEF IInv, Types, EntryType
    <2>2. \A k \in DOMAIN items : items[k].lastUsed \in 0..now
        BY <1>1, <2>1, TimeAssumption DEF IInv, Types, PastUses
    <2>3. \A c \in Callers : calls[c].op \in {"idle", "lookup", "hit", "store"}
        <3> SUFFICES ASSUME NEW c \in Callers
                     PROVE  calls[c].op \in {"idle", "lookup", "hit", "store"}
            OBVIOUS
        <3>1. calls[c] \in CallType
            BY <1>1 DEF IInv, Types
        <3> QED
            BY <3>1 DEF CallType, Idle
    <2> QED
        BY <1>1, <2>1, <2>2, <2>3 DEF TypeOK, IInv, Types
<1> QED
    BY <1>1, IInvHolds, PTL

(* A Store that comes to its end took its step under the lock. *)
LEMMA StoresFinish ==
    ASSUME IInv, [Next]_vars, NEW c \in Callers, StoreStep(c)
    PROVE  FinishStore(c)
<1>1. calls[c].op = "store" /\ calls'[c] = Idle /\ calls \in [Callers -> CallType]
    BY DEF StoreStep, IInv, Types
<1>2. Idle.op = "idle"
    BY DEF Idle
<1>3. ASSUME NEW d \in Callers, NEW v, calls' = [calls EXCEPT ![d] = v]
      PROVE  d = c
    BY <1>1, <1>2, <1>3
<1>4. calls' # calls
    BY <1>1, <1>2
<1>5. ~Tick /\ ~(\E config \in Configs : Configure(config)) /\ ~(UNCHANGED vars)
    BY <1>4 DEF Tick, Configure, vars
<1>6. \A d \in Callers : ~LoopForEver(d)
    BY <1>4 DEF LoopForEver
<1>7. ASSUME NEW d \in Callers,
             \/ LookupMiss(d) \/ LookupHit(d) \/ Reply(d)
             \/ \E t \in Tenants, k \in CacheKeys : BeginLookup(d, t, k)
             \/ \E r \in Responses, k \in CacheKeys, ttl \in PolicyTTLs :
                    BeginStore(d, r, k, ttl)
      PROVE  FALSE
    <2>1. PICK v : calls' = [calls EXCEPT ![d] = v]
        BY <1>7 DEF LookupMiss, LookupHit, Reply, BeginLookup, BeginStore
    <2>2. d = c
        BY <1>3, <2>1
    <2>3. calls[d].op # "store"
        BY <1>2, <1>7 DEF LookupMiss, LookupHit, Reply, BeginLookup, BeginStore
    <2> QED
        BY <1>1, <2>2, <2>3
<1>8. ASSUME NEW d \in Callers, FinishStore(d)
      PROVE  d = c
    BY <1>3, <1>8 DEF FinishStore
<1> QED
    BY <1>5, <1>6, <1>7, <1>8 DEF Next

(* What was just stored is evicted only in favour of what was used at the    *)
(* same instant, whatever the limit and whatever else is stored.             *)
THEOREM StoredSurvives == Spec => StoredEntrySurvives
<1>1. ASSUME IInv, [Next]_vars, NEW c \in Callers, StoreStep(c), maxEntries > 0,
             calls[c].key \notin DOMAIN items'
      PROVE  \E k \in DOMAIN items' : items'[k].lastUsed = now
    <2> DEFINE k == calls[c].key
    <2>1. calls[c].op = "store" /\ items' \in EvictionsOf(Put(c)) /\ maxEntries \in Nat
        BY <1>1, StoresFinish DEF FinishStore, IInv, Types
    <2>2. /\ DOMAIN Put(c) = DOMAIN items \union {k}
          /\ Put(c) \in [DOMAIN items \union {k} -> EntryType]
          /\ Put(c)[k].lastUsed = now
          /\ \A j \in DOMAIN items : j # k => Put(c)[j] = items[j]
          /\ IsFiniteSet(DOMAIN Put(c))
        BY <1>1, <2>1, WhatIsPut
    <2>3. /\ DOMAIN items' \subseteq DOMAIN Put(c)
          /\ items' = [j \in DOMAIN items' |-> Put(c)[j]]
          /\ Cardinality(DOMAIN items') = SizeAfterEviction(Put(c))
          /\ \A j \in DOMAIN items', gone \in DOMAIN Put(c) \ DOMAIN items' :
                 Put(c)[gone].lastUsed <= Put(c)[j].lastUsed
        BY <2>1, <2>2, EvictionLeaves
    <2>4. Cardinality(DOMAIN Put(c)) # 0
        BY <2>2, FS_EmptySet
    <2>5. Cardinality(DOMAIN items') # 0
        BY <1>1, <2>1, <2>3, <2>4 DEF SizeAfterEviction
    <2>6. PICK j \in DOMAIN items' : TRUE
        BY <2>5, FS_EmptySet
    <2>7. j \in DOMAIN items /\ j # k /\ items'[j] = items[j]
        BY <1>1, <2>2, <2>3
    <2>8. now <= items[j].lastUsed
        BY <1>1, <2>2, <2>3, <2>7
    <2>9. items[j].lastUsed <= now /\ items[j].lastUsed \in Nat /\ now \in Nat
        BY <1>1, <2>7, TimeAssumption DEF IInv, PastUses, Types, EntryType
    <2> HIDE DEF k
    <2> QED
        BY <2>7, <2>8, <2>9
<1>2. IInv /\ [Next]_vars =>
          [\A c \in Callers : StoreStep(c) /\ maxEntries > 0 =>
              \/ calls[c].key \in DOMAIN items'
              \/ \E k \in DOMAIN items' : items'[k].lastUsed = now]_vars
    BY <1>1
<1> QED
    BY <1>2, IInvHolds, PTL DEF Spec, StoredEntrySurvives

-----------------------------------------------------------------------------
(* The cache implements TTLCache.  IInv does not say why a key that was      *)
(* stored is no longer in the map, and a miss needs that reason: it is       *)
(* Accounts.  Lived bounds the lifetimes a Store in flight can bring.        *)
Accounts ==
    /\ IsFiniteSet(DOMAIN latest)
    /\ \A k \in DOMAIN latest \ DOMAIN items :
          \/ stuck
          \/ latest[k].expiresAt < now
          \/ Cardinality(DOMAIN latest) > maxEntries

Lived ==
    /\ defaultTTL \in {c.defaultTTL : c \in Configs}
    /\ \A c \in Callers : calls[c].op = "store" => calls[c].ttl \in Lifetimes

RInv == IInv /\ Accounts /\ Lived

LEMMA InitRInv == Init => RInv
<1> SUFFICES ASSUME Init PROVE Accounts /\ Lived
    BY InitIInv DEF RInv
<1>1. DOMAIN latest = {}
    BY DEF Init
<1>2. Accounts
    BY <1>1, FS_EmptySet DEF Accounts
<1>3. Lived
    BY DEF Init, Lived, Idle
<1> QED
    BY <1>2, <1>3

(* Whatever leaves what was stored alone, and removes nothing. *)
LEMMA QuietKeeps ==
    ASSUME RInv, UNCHANGED <<latest, maxEntries, stuck, defaultTTL>>,
           now' \in Int, now <= now', DOMAIN items \subseteq DOMAIN items',
           \A c \in Callers : calls'[c].op = "store" => calls'[c].ttl \in Lifetimes
    PROVE  (Accounts /\ Lived)'
<1>1. \A k \in DOMAIN latest : latest[k].expiresAt \in Int
    BY DEF RInv, IInv, Types, EntryType
<1>2. now \in Int
    BY TimeAssumption DEF RInv, IInv, Types
<1>3. ASSUME NEW k \in DOMAIN latest \ DOMAIN items'
      PROVE  stuck \/ latest[k].expiresAt < now' \/ Cardinality(DOMAIN latest) > maxEntries
    <2>1. stuck \/ latest[k].expiresAt < now \/ Cardinality(DOMAIN latest) > maxEntries
        BY DEF RInv, Accounts
    <2> QED
        BY <1>1, <1>2, <2>1
<1>4. Accounts'
    BY <1>3 DEF RInv, Accounts
<1>5. Lived'
    BY DEF RInv, Lived, Lifetimes
<1> QED
    BY <1>4, <1>5

(* A miss may remove an entry that has expired.  It need not have expired    *)
(* when the lookup began that finds it gone: what counts is that it has now. *)
LEMMA MissKeepsAccounts ==
    ASSUME RInv, NEW c \in Callers, LookupMiss(c)
    PROVE  (Accounts /\ Lived)'
<1>1. /\ items' = [j \in DOMAIN items \ {calls[c].key} |-> items[j]]
      /\ calls' = [calls EXCEPT ![c] = Idle]
      /\ UNCHANGED <<now, defaultTTL, maxEntries, namespace, stuck, latest>>
      /\ calls[c].op = "lookup"
      /\ calls[c].key \in DOMAIN items => calls[c].at > items[calls[c].key].expiresAt
    BY DEF LookupMiss, Without, settings, Expired
<1>2. ASSUME NEW k \in DOMAIN latest \ DOMAIN items'
      PROVE  stuck \/ latest[k].expiresAt < now \/ Cardinality(DOMAIN latest) > maxEntries
    <2>1. CASE k \notin DOMAIN items
        BY <2>1 DEF RInv, Accounts
    <2>2. CASE k \in DOMAIN items
        <3>1. k = calls[c].key
            BY <1>1, <2>2
        <3>2. calls[c].at > items[k].expiresAt
            BY <1>1, <2>2, <3>1
        <3>3. calls[c].at <= now /\ calls[c].at \in Int
            BY <1>1 DEF RInv, IInv, PastUses, Types, CallType, Idle
        <3>4. items[k].expiresAt = latest[k].expiresAt /\ latest[k].expiresAt \in Int
            BY <2>2 DEF RInv, IInv, Agrees, Types, EntryType
        <3>5. now \in Int
            BY TimeAssumption DEF RInv, IInv, Types
        <3> QED
            BY <3>2, <3>3, <3>4, <3>5
    <2> QED
        BY <2>1, <2>2
<1>3. Accounts'
    BY <1>1, <1>2 DEF RInv, Accounts
<1>4. \A d \in Callers : calls'[d].op = "store" => calls'[d] = calls[d]
    BY <1>1 DEF RInv, IInv, Types, Idle
<1>5. Lived'
    BY <1>1, <1>4 DEF RInv, Lived, Lifetimes
<1> QED
    BY <1>3, <1>5

(* A part of a finite set with as many elements is all of it. *)
LEMMA WholePart ==
    ASSUME NEW S, IsFiniteSet(S), NEW T \in SUBSET S, Cardinality(T) = Cardinality(S)
    PROVE  T = S
BY FS_Subset

(* What a Store evicts there was no room for. *)
LEMMA StoreKeepsAccounts ==
    ASSUME RInv, NEW c \in Callers, FinishStore(c)
    PROVE  (Accounts /\ Lived)'
<1> PICK k : k = calls[c].key
    OBVIOUS
<1> PICK m : m = Put(c)
    OBVIOUS
<1>1. /\ calls[c].op = "store" /\ maxEntries \in Nat
      /\ items' \in EvictionsOf(m)
      /\ latest' = With(latest, k, m[k])
      /\ calls' = [calls EXCEPT ![c] = Idle]
      /\ UNCHANGED <<now, defaultTTL, maxEntries, namespace, stuck>>
    BY DEF FinishStore, settings, RInv, IInv, Types
<1>2. /\ k \in KeysOf(calls[c].response.tenant)
      /\ DOMAIN m = DOMAIN items \union {k}
      /\ m[k].response = calls[c].response
      /\ IsFiniteSet(DOMAIN m)
    BY <1>1, WhatIsPut DEF RInv
<1>3. /\ DOMAIN items' \subseteq DOMAIN m
      /\ Cardinality(DOMAIN items') = SizeAfterEviction(m)
    BY <1>1, <1>2, EvictionLeaves
<1>4. /\ DOMAIN latest' = DOMAIN latest \union {k}
      /\ latest'[k] = m[k]
      /\ \A j \in DOMAIN latest : j # k => latest'[j] = latest[j]
    BY <1>1 DEF With
<1>5. IsFiniteSet(DOMAIN latest')
    BY <1>4, FS_AddElement DEF RInv, Accounts
<1>6. DOMAIN m \subseteq DOMAIN latest'
    BY <1>2, <1>4 DEF RInv, IInv, Agrees
<1>7. ASSUME NEW j \in DOMAIN latest' \ DOMAIN items'
      PROVE  stuck \/ latest'[j].expiresAt < now \/ Cardinality(DOMAIN latest') > maxEntries
    <2>1. CASE j \in DOMAIN m
        <3>1. Cardinality(DOMAIN items') # Cardinality(DOMAIN m)
            BY <1>2, <1>3, <2>1, WholePart
        <3>2. Cardinality(DOMAIN m) > maxEntries
            BY <1>3, <3>1 DEF SizeAfterEviction
        <3>3. Cardinality(DOMAIN m) \in Nat /\ Cardinality(DOMAIN latest') \in Nat
            BY <1>2, <1>5, FS_CardinalityType
        <3>4. Cardinality(DOMAIN m) <= Cardinality(DOMAIN latest')
            BY <1>5, <1>6, FS_Subset
        <3> QED
            BY <1>1, <3>2, <3>3, <3>4
    <2>2. CASE j \notin DOMAIN m
        <3>1. j \in DOMAIN latest \ DOMAIN items /\ latest'[j] = latest[j]
            BY <1>2, <1>4, <2>2
        <3>2. \/ stuck
              \/ latest[j].expiresAt < now
              \/ Cardinality(DOMAIN latest) > maxEntries
            BY <3>1 DEF RInv, Accounts
        <3>3. Cardinality(DOMAIN latest) \in Nat /\ Cardinality(DOMAIN latest') \in Nat
            BY <1>5, FS_CardinalityType DEF RInv, Accounts
        <3>4. Cardinality(DOMAIN latest) <= Cardinality(DOMAIN latest')
            BY <1>4, <1>5, FS_Subset
        <3> QED
            BY <1>1, <3>1, <3>2, <3>3, <3>4
    <2> QED
        BY <2>1, <2>2
<1>8. Accounts'
    BY <1>1, <1>5, <1>7 DEF Accounts
<1>10. \A d \in Callers : calls'[d].op = "store" => calls'[d] = calls[d]
    BY <1>1 DEF RInv, IInv, Types, Idle
<1>11. Lived'
    BY <1>1, <1>10 DEF RInv, Lived, Lifetimes
<1> QED
    BY <1>8, <1>11

(* What a Store has begun with is a lifetime. *)
LEMMA BegunLifetimes ==
    ASSUME RInv, NEW c \in Callers, NEW r \in Responses, NEW k \in CacheKeys,
           NEW policyTTL \in PolicyTTLs, BeginStore(c, r, k, policyTTL)
    PROVE  \A d \in Callers : calls'[d].op = "store" => calls'[d].ttl \in Lifetimes
<1> DEFINE ttl == IF policyTTL > 0 THEN policyTTL ELSE defaultTTL
<1> DEFINE call == [op |-> "store", response |-> r, ttl |-> ttl, key |-> Key(r.tenant, k)]
<1>1. ttl > 0 /\ calls' = [calls EXCEPT ![c] = call]
    BY DEF BeginStore
<1>2. ttl \in Lifetimes
    BY <1>1 DEF RInv, Lived, Lifetimes
<1>3. call.ttl \in Lifetimes
    BY <1>2
<1> HIDE DEF call, ttl
<1>4. \A d \in Callers : calls'[d] = IF d = c THEN call ELSE calls[d]
    BY <1>1 DEF RInv, IInv, Types
<1> QED
    BY <1>3, <1>4 DEF RInv, Lived

LEMMA RInvKept == RInv /\ [Next]_vars => RInv'
<1> SUFFICES ASSUME RInv, [Next]_vars
             PROVE  (Accounts /\ Lived)'
    BY IInvKept DEF RInv
<1>1. now \in Nat /\ DOMAIN items \subseteq DOMAIN items
    BY TimeAssumption DEF RInv, IInv, Types
<1>2. \A c \in Callers : calls[c].op = "store" => calls[c].ttl \in Lifetimes
    BY DEF RInv, Lived
<1>3. CASE Tick
    <2>1. /\ now' \in Int /\ now <= now' /\ DOMAIN items \subseteq DOMAIN items'
          /\ UNCHANGED <<latest, maxEntries, stuck, defaultTTL, calls>>
        BY <1>1, <1>3 DEF Tick, settings
    <2> QED
        BY <1>2, <2>1, QuietKeeps
<1>4. ASSUME NEW config \in Configs, Configure(config)
      PROVE  (Accounts /\ Lived)'
    <2>1. DOMAIN latest' = {}
        BY <1>4 DEF Configure
    <2>2. Accounts'
        BY <2>1, FS_EmptySet DEF Accounts
    <2>3. Lived'
        BY <1>4 DEF Configure, RInv, Lived, Lifetimes
    <2> QED
        BY <2>2, <2>3
<1>5. ASSUME NEW c \in Callers, NEW call, call.op # "store",
             calls' = [calls EXCEPT ![c] = call],
             UNCHANGED <<now, latest, maxEntries, stuck, defaultTTL>>,
             DOMAIN items' = DOMAIN items
      PROVE  (Accounts /\ Lived)'
    <2>1. \A d \in Callers : calls'[d].op = "store" => calls'[d] = calls[d]
        BY <1>5 DEF RInv, IInv, Types
    <2>2. \A d \in Callers : calls'[d].op = "store" => calls'[d].ttl \in Lifetimes
        BY <1>2, <2>1
    <2>3. now' \in Int /\ now <= now' /\ DOMAIN items \subseteq DOMAIN items'
        BY <1>1, <1>5
    <2> QED
        BY <1>5, <2>2, <2>3, QuietKeeps
<1>6. ASSUME NEW c \in Callers, NEW tenant \in Tenants, NEW k \in CacheKeys,
             BeginLookup(c, tenant, k)
      PROVE  (Accounts /\ Lived)'
    <2> DEFINE call == [op |-> "lookup", tenant |-> tenant, key |-> Key(tenant, k), at |-> now]
    <2>1. /\ calls' = [calls EXCEPT ![c] = call] /\ call.op # "store"
          /\ UNCHANGED <<now, items, latest, maxEntries, stuck, defaultTTL>>
        BY <1>6 DEF BeginLookup, settings
    <2> HIDE DEF call
    <2> QED
        BY <1>5, <2>1
<1>7. ASSUME NEW c \in Callers, LookupHit(c)
      PROVE  (Accounts /\ Lived)'
    <2> DEFINE k == calls[c].key
    <2> DEFINE call == [op |-> "hit", tenant |-> calls[c].tenant, key |-> k,
                        at |-> calls[c].at, response |-> items[k].response]
    <2>1. /\ calls' = [calls EXCEPT ![c] = call] /\ call.op # "store"
          /\ UNCHANGED <<now, latest, maxEntries, stuck, defaultTTL>>
          /\ items' = [items EXCEPT ![k].lastUsed = calls[c].at]
        BY <1>7 DEF LookupHit, settings
    <2>2. DOMAIN items' = DOMAIN items
        BY <2>1
    <2> HIDE DEF k, call
    <2> QED
        BY <1>5, <2>1, <2>2
<1>8. ASSUME NEW c \in Callers, Reply(c)
      PROVE  (Accounts /\ Lived)'
    <2>1. /\ calls' = [calls EXCEPT ![c] = Idle] /\ Idle.op # "store"
          /\ UNCHANGED <<now, items, latest, maxEntries, stuck, defaultTTL>>
        BY <1>8 DEF Reply, settings, Idle
    <2> QED
        BY <1>5, <2>1
<1>9. ASSUME NEW c \in Callers, NEW r \in Responses, NEW k \in CacheKeys,
             NEW ttl \in PolicyTTLs, BeginStore(c, r, k, ttl)
      PROVE  (Accounts /\ Lived)'
    <2>1. \A d \in Callers : calls'[d].op = "store" => calls'[d].ttl \in Lifetimes
        BY <1>9, BegunLifetimes
    <2>2. UNCHANGED <<now, items, latest, maxEntries, stuck, defaultTTL>>
        BY <1>9 DEF BeginStore, settings
    <2> QED
        BY <1>1, <2>1, <2>2, QuietKeeps
<1>10. ASSUME NEW c \in Callers, LoopForEver(c)
       PROVE  (Accounts /\ Lived)'
    <2>1. stuck' /\ UNCHANGED <<latest, defaultTTL, calls>>
        BY <1>10 DEF LoopForEver, settings
    <2> QED
        BY <2>1 DEF RInv, Accounts, Lived, Lifetimes
<1>11. CASE UNCHANGED vars
    BY <1>1, <1>2, <1>11, QuietKeeps DEF vars, settings
<1> QED
    BY <1>3, <1>4, <1>6, <1>7, <1>8, <1>9, <1>10, <1>11, MissKeepsAccounts,
       StoreKeepsAccounts DEF Next

LEMMA RInvHolds == Spec => []RInv
BY InitRInv, RInvKept, PTL DEF Spec

-----------------------------------------------------------------------------
(* The refinement mapping. *)
(* TTLCache counts as CacheMemory does. *)
LEMMA CountsAlike == \A s : Abstract!Cardinality(s) = Cardinality(s)
BY DEF Abstract!Cardinality, Cardinality

(* What Stored says of a key, and how many keys it has. *)
LEMMA StoredIs ==
    /\ DOMAIN Stored = DOMAIN latest
    /\ \A k \in DOMAIN latest : /\ Stored[k].response = latest[k].response
                               /\ Stored[k].expiresAt = latest[k].expiresAt
BY DEF Stored

LEMMA AsksAre ==
    ASSUME NEW c \in Callers, calls[c].op # "store"
    PROVE  Asks[c] = calls[c]
BY DEF Asks

(* A step of one call, as TTLCache sees it. *)
LEMMA AsksChange ==
    ASSUME calls \in [Callers -> CallType], NEW c \in Callers, NEW call,
           calls' = [calls EXCEPT ![c] = call], call.op # "store"
    PROVE  Asks' = [Asks EXCEPT ![c] = call]
<1>1. \A d \in Callers : calls'[d] = IF d = c THEN call ELSE calls[d]
    OBVIOUS
<1> QED
    BY <1>1 DEF Asks

LEMMA AbstractInit == Init => Abstract!Init
<1> SUFFICES ASSUME Init PROVE Abstract!Init
    OBVIOUS
<1>1. DOMAIN latest = {} /\ now = 0 /\ maxEntries \in {c.maxEntries : c \in Configs}
    BY DEF Init
<1>3. Stored = Abstract!Nothing
    BY <1>1 DEF Stored, Abstract!Nothing
<1>4. Asks = [c \in Callers |-> Abstract!Idle]
    BY DEF Init, Asks, Idle, Abstract!Idle
<1> QED
    BY <1>1, <1>3, <1>4 DEF Abstract!Init

LEMMA ConfigureRefines ==
    ASSUME NEW config \in Configs, Configure(config)
    PROVE  Abstract!Configure
<1>1. /\ DOMAIN latest' = {} /\ maxEntries' \in {c.maxEntries : c \in Configs}
      /\ UNCHANGED <<now, calls>>
    BY DEF Configure
<1>3. Stored' = Abstract!Nothing
    BY <1>1 DEF Stored, Abstract!Nothing
<1>4. Asks' = Asks
    BY <1>1 DEF Asks
<1> QED
    BY <1>1, <1>3, <1>4 DEF Abstract!Configure

LEMMA BeginLookupRefines ==
    ASSUME RInv, NEW c \in Callers, NEW tenant \in Tenants, NEW k \in CacheKeys,
           BeginLookup(c, tenant, k)
    PROVE  \E key \in KeysOf(tenant) : Abstract!Ask(c, tenant, key)
<1> PICK key : key = Key(tenant, k)
    OBVIOUS
<1>1. key \in KeysOf(tenant)
    BY KeyIsOwn DEF RInv, IInv, Types
<1> PICK call : call = [op |-> "lookup", tenant |-> tenant, key |-> key, at |-> now]
    OBVIOUS
<1>2. /\ calls[c] = Idle /\ calls' = [calls EXCEPT ![c] = call]
      /\ UNCHANGED <<now, maxEntries, latest>>
    BY DEF BeginLookup, settings
<1>3. Asks' = [Asks EXCEPT ![c] = call]
    BY <1>2, AsksChange DEF RInv, IInv, Types
<1>4. Asks[c] = Abstract!Idle
    BY <1>2 DEF Asks, Idle, Abstract!Idle
<1>5. Stored' = Stored
    BY <1>2 DEF Stored
<1>6. Abstract!Ask(c, tenant, key)
    BY <1>2, <1>3, <1>4, <1>5 DEF Abstract!Ask
<1> QED
    BY <1>1, <1>6

(* A hit is what was stored last under the key: by IInv, what is in the map  *)
(* is latest's.                                                              *)
LEMMA LookupHitRefines ==
    ASSUME RInv, NEW c \in Callers, LookupHit(c)
    PROVE  Abstract!Hit(c)
<1> PICK k : k = calls[c].key
    OBVIOUS
<1> PICK t : t = calls[c].tenant
    OBVIOUS
<1> PICK call : call = [op |-> "hit", tenant |-> t, key |-> k, at |-> calls[c].at,
                        response |-> items[k].response]
    OBVIOUS
<1>1. /\ calls[c].op = "lookup" /\ k \in DOMAIN items /\ ~(calls[c].at > items[k].expiresAt)
      /\ calls' = [calls EXCEPT ![c] = call]
      /\ UNCHANGED <<now, maxEntries, latest>>
    BY DEF LookupHit, Expired, settings
<1>2. calls[c].tenant \in Tenants /\ calls[c].at \in Nat
    BY <1>1 DEF RInv, IInv, Types, CallType, Idle
<1>3. items[k] \in EntryType
    BY <1>1 DEF RInv, IInv, Types
<1>4. /\ k \in DOMAIN latest
      /\ items[k].response = latest[k].response
      /\ items[k].expiresAt = latest[k].expiresAt
    BY <1>1 DEF RInv, IInv, Agrees
<1>5. k \in DOMAIN Stored /\ Stored[k].response = items[k].response
    BY <1>4, StoredIs
<1>6. calls[c].at <= Stored[k].expiresAt
    BY <1>1, <1>2, <1>3, <1>4, StoredIs DEF EntryType
<1>7. Asks[c] = calls[c]
    BY <1>1 DEF Asks
<1>8. Asks' = [Asks EXCEPT ![c] = call]
    BY <1>1, AsksChange DEF RInv, IInv, Types
<1>9. Stored' = Stored
    BY <1>1 DEF Stored
<1> QED
    BY <1>1, <1>5, <1>6, <1>7, <1>8, <1>9 DEF Abstract!Hit

(* A miss has one of TTLCache's reasons: the map's entry has expired, or it  *)
(* is Accounts' reason that there is none.                                   *)
LEMMA LookupMissRefines ==
    ASSUME RInv, NEW c \in Callers, LookupMiss(c)
    PROVE  Abstract!Miss(c)
<1> PICK k : k = calls[c].key
    OBVIOUS
<1>1. /\ calls[c].op = "lookup" /\ ~stuck
      /\ k \in DOMAIN items => calls[c].at > items[k].expiresAt
      /\ calls' = [calls EXCEPT ![c] = Idle]
      /\ UNCHANGED <<now, maxEntries, latest>>
    BY DEF LookupMiss, Expired, settings
<1>2. Asks[c] = calls[c] /\ Asks[c].key = k
    BY <1>1 DEF Asks
<1>3. Idle.op # "store" /\ Idle = Abstract!Idle
    BY DEF Idle, Abstract!Idle
<1>4. Asks' = [Asks EXCEPT ![c] = Abstract!Idle]
    BY <1>1, <1>3, AsksChange DEF RInv, IInv, Types
<1>5. Stored' = Stored
    BY <1>1 DEF Stored
<1>6. ASSUME k \in DOMAIN latest
      PROVE  latest[k].expiresAt < now \/ Cardinality(DOMAIN latest) > maxEntries
    <2>1. CASE k \in DOMAIN items
        <3>1. calls[c].at > latest[k].expiresAt
            BY <1>1, <2>1 DEF RInv, IInv, Agrees
        <3>2. calls[c].at <= now /\ calls[c].at \in Int
            BY <1>1 DEF RInv, IInv, PastUses, Types, CallType, Idle
        <3>3. latest[k].expiresAt \in Int /\ now \in Int
            BY <1>6, TimeAssumption DEF RInv, IInv, Types, EntryType
        <3> QED
            BY <3>1, <3>2, <3>3
    <2>2. CASE k \notin DOMAIN items
        BY <1>1, <1>6, <2>2 DEF RInv, Accounts
    <2> QED
        BY <2>1, <2>2
<1>7. \/ Asks[c].key \notin DOMAIN Stored
      \/ Stored[Asks[c].key].expiresAt < now
      \/ Abstract!Cardinality(DOMAIN Stored) > maxEntries
    BY <1>2, <1>6, StoredIs, CountsAlike
<1>8. Asks[c].op = "lookup" /\ now' = now /\ maxEntries' = maxEntries
    BY <1>1, <1>2
<1> QED
    BY ONLY <1>4, <1>5, <1>7, <1>8 DEF Abstract!Miss

LEMMA ReplyRefines ==
    ASSUME RInv, NEW c \in Callers, Reply(c)
    PROVE  Abstract!Reply(c)
<1>1. /\ calls[c].op = "hit" /\ calls' = [calls EXCEPT ![c] = Idle]
      /\ UNCHANGED <<now, maxEntries, latest>>
    BY DEF Reply, settings
<1>2. Idle.op # "store" /\ Idle = Abstract!Idle
    BY DEF Idle, Abstract!Idle
<1>3. Asks' = [Asks EXCEPT ![c] = Abstract!Idle]
    BY <1>1, <1>2, AsksChange DEF RInv, IInv, Types
<1>4. Asks[c] = calls[c]
    BY <1>1 DEF Asks
<1>5. Stored' = Stored
    BY <1>1 DEF Stored
<1> QED
    BY <1>1, <1>3, <1>4, <1>5 DEF Abstract!Reply

(* A Store that ends stores one entry under a key of its tenant, whatever it *)
(* evicts.                                                                   *)
LEMMA FinishStoreRefines ==
    ASSUME RInv, NEW c \in Callers, FinishStore(c)
    PROVE  \E r \in Responses, l \in Lifetimes : \E key \in KeysOf(r.tenant) :
              Abstract!Store(key, r, l)
<1> PICK k : k = calls[c].key
    OBVIOUS
<1> PICK r : r = calls[c].response
    OBVIOUS
<1> PICK l : l = calls[c].ttl
    OBVIOUS
<1> PICK new : new = Put(c)[k]
    OBVIOUS
<1>1. /\ calls[c].op = "store" /\ latest' = With(latest, k, new)
      /\ calls' = [calls EXCEPT ![c] = Idle]
      /\ UNCHANGED <<now, maxEntries>>
    BY DEF FinishStore, settings
<1>2. r \in Responses /\ r.tenant \in Tenants /\ k \in KeysOf(r.tenant) /\ l \in Lifetimes
    BY <1>1, WhatIsPut DEF RInv, Lived, Responses
<1>3. new.response = r /\ new.expiresAt = now + l
    BY DEF Put, With
<1>4. /\ DOMAIN latest' = DOMAIN latest \union {k}
      /\ latest'[k] = new
      /\ \A j \in DOMAIN latest : j # k => latest'[j] = latest[j]
    BY <1>1 DEF With
<1> DEFINE after == [j \in DOMAIN Stored \union {k} |->
                        IF j = k THEN [response |-> r, expiresAt |-> now + l]
                        ELSE Stored[j]]
<1>5. Stored' = after
    BY <1>3, <1>4 DEF Stored
<1>6. Asks' = Asks
    <2>1. \A d \in Callers : calls'[d] = IF d = c THEN Idle ELSE calls[d]
        BY <1>1 DEF RInv, IInv, Types
    <2> QED
        BY <1>1, <2>1 DEF Asks, Idle
<1>7. Abstract!Store(k, r, l)
    BY <1>1, <1>2, <1>5, <1>6 DEF Abstract!Store
<1> QED
    BY <1>2, <1>7

(* Whatever the overlap of the calls, the evictions and the configurations,  *)
(* rejected ones among them, and however the tenants share the map.          *)
THEOREM CacheIsTTLCache == Spec => ImplementsTTLCache
<1>1. RInv /\ [Next]_vars => [Abstract!Next]_Abstract!vars
    <2> SUFFICES ASSUME RInv, [Next]_vars
                 PROVE  Abstract!Next \/ UNCHANGED Abstract!vars
        OBVIOUS
    <2>1. ASSUME UNCHANGED <<now, latest, maxEntries, calls>>
          PROVE  UNCHANGED Abstract!vars
        BY <2>1 DEF Abstract!vars, Stored, Asks
    <2>2. CASE Tick
        <3>1. now' = now + 1 /\ UNCHANGED <<latest, maxEntries, calls>>
            BY <2>2 DEF Tick, settings
        <3>2. Abstract!Tick
            BY <3>1 DEF Abstract!Tick, Stored, Asks
        <3> QED
            BY <3>2 DEF Abstract!Next
    <2>3. ASSUME NEW config \in Configs, Configure(config)
          PROVE  Abstract!Next
        BY <2>3, ConfigureRefines DEF Abstract!Next
    <2>4. ASSUME NEW c \in Callers, NEW tenant \in Tenants, NEW k \in CacheKeys,
                 BeginLookup(c, tenant, k)
          PROVE  Abstract!Next
        BY <2>4, BeginLookupRefines DEF Abstract!Next
    <2>5. ASSUME NEW c \in Callers, LookupMiss(c) \/ LookupHit(c) \/ Reply(c)
          PROVE  Abstract!Next
        BY <2>5, LookupMissRefines, LookupHitRefines, ReplyRefines DEF Abstract!Next
    <2>6. ASSUME NEW c \in Callers, NEW r \in Responses, NEW k \in CacheKeys,
                 NEW policyTTL \in PolicyTTLs, BeginStore(c, r, k, policyTTL)
          PROVE  UNCHANGED Abstract!vars
        <3> DEFINE call == [op |-> "store", response |-> r,
                            ttl |-> IF policyTTL > 0 THEN policyTTL ELSE defaultTTL,
                            key |-> Key(r.tenant, k)]
        <3>1. /\ calls[c] = Idle /\ calls' = [calls EXCEPT ![c] = call] /\ call.op = "store"
              /\ UNCHANGED <<now, latest, maxEntries>>
            BY <2>6 DEF BeginStore, settings
        <3> HIDE DEF call
        <3>2. \A d \in Callers : calls'[d] = IF d = c THEN call ELSE calls[d]
            BY <3>1 DEF RInv, IInv, Types
        <3>3. Asks' = Asks
            BY <3>1, <3>2 DEF Asks, Idle
        <3> QED
            BY <3>1, <3>3 DEF Abstract!vars, Stored
    <2>7. ASSUME NEW c \in Callers, FinishStore(c)
          PROVE  Abstract!Next
        <3>1. \A r \in Responses : r.tenant \in Tenants
            BY DEF Responses
        <3> QED
            BY <2>7, <3>1, FinishStoreRefines DEF Abstract!Next
    <2>8. ASSUME NEW c \in Callers, LoopForEver(c)
          PROVE  UNCHANGED Abstract!vars
        BY <2>1, <2>8 DEF LoopForEver, settings
    <2>9. CASE UNCHANGED vars
        BY <2>1, <2>9 DEF vars, settings
    <2> QED
        BY <2>2, <2>3, <2>4, <2>5, <2>6, <2>7, <2>8, <2>9 DEF Next
<1> QED
    BY AbstractInit, <1>1, RInvHolds, PTL DEF Spec, ImplementsTTLCache, Abstract!Spec

-----------------------------------------------------------------------------
(* What evictLocked's loop comes to exists, whatever the entries and their   *)
(* dates: a part of the right size, from which the oldest went first.        *)

(* What may be left when the oldest are removed, one by one. *)
Remains(m, s) ==
    \A k \in s, gone \in DOMAIN m \ s : m[gone].lastUsed <= m[k].lastUsed

(* The loop takes one entry more, an oldest of those that are left. *)
LEMMA OldestGoesNext ==
    ASSUME NEW m, \A k \in DOMAIN m : m[k].lastUsed \in Nat,
           NEW s \in SUBSET DOMAIN m, IsFiniteSet(s), s # {}, Remains(m, s)
    PROVE  \E k \in s : Remains(m, s \ {k})
<1> DEFINE R == {p \in s \X s : m[p[1]].lastUsed >= m[p[2]].lastUsed}
<1>1. ASSUME NEW x \in s, NEW y \in s
      PROVE  <<x, y>> \in R <=> m[x].lastUsed >= m[y].lastUsed
    OBVIOUS
<1> HIDE DEF R
<1>2. IsOrder(R, s)
    <2>1. \A x \in s : m[x].lastUsed \in Nat
        OBVIOUS
    <2>2. ASSUME NEW x \in s, NEW y \in s
          PROVE  <<x, y>> \in R \/ <<y, x>> \in R
        <3>1. m[x].lastUsed >= m[y].lastUsed \/ m[y].lastUsed >= m[x].lastUsed
            BY <2>1
        <3> QED
            BY <1>1, <3>1
    <2>3. ASSUME NEW x \in s, NEW y \in s, NEW z \in s, <<x, y>> \in R, <<y, z>> \in R
          PROVE  <<x, z>> \in R
        <3>1. m[x].lastUsed >= m[y].lastUsed /\ m[y].lastUsed >= m[z].lastUsed
            BY <1>1, <2>3
        <3>2. m[x].lastUsed >= m[z].lastUsed
            BY <2>1, <3>1
        <3> QED
            BY <1>1, <3>2
    <2> QED
        BY <2>2, <2>3 DEF IsOrder
<1>3. PICK k \in s : \A x \in s : <<x, k>> \in R
    BY <1>2, LastExists
<1>4. \A x \in s : m[k].lastUsed <= m[x].lastUsed
    BY <1>1, <1>3
<1>5. ASSUME NEW x \in s \ {k}, NEW gone \in DOMAIN m \ (s \ {k})
      PROVE  m[gone].lastUsed <= m[x].lastUsed
    BY <1>4, <1>5 DEF Remains
<1>6. Remains(m, s \ {k})
    BY <1>5 DEF Remains
<1> QED
    BY <1>6

LEMMA EvictionExists ==
    ASSUME NEW m, IsFiniteSet(DOMAIN m), \A k \in DOMAIN m : m[k].lastUsed \in Nat,
           maxEntries \in Nat
    PROVE  EvictionsOf(m) # {}
<1> PICK n : n = SizeAfterEviction(m)
    OBVIOUS
<1>1. n \in Nat /\ n <= Cardinality(DOMAIN m) /\ Cardinality(DOMAIN m) \in Nat
    BY FS_CardinalityType DEF SizeAfterEviction
<1> DEFINE U == {s \in SUBSET DOMAIN m : Remains(m, s) /\ n <= Cardinality(s)}
<1>2. DOMAIN m \in U
    BY <1>1 DEF Remains
<1>3. PICK s \in U : \A k \in s : s \ {k} \notin U
    BY <1>2, LeastSubset
<1>4. IsFiniteSet(s) /\ Cardinality(s) \in Nat /\ n <= Cardinality(s) /\ Remains(m, s)
    BY <1>3, FS_Subset, FS_CardinalityType
<1>5. Cardinality(s) = n
    <2> SUFFICES ASSUME n < Cardinality(s) PROVE FALSE
        BY <1>1, <1>4
    <2>1. s # {}
        BY <1>1, FS_EmptySet
    <2>2. PICK k \in s : Remains(m, s \ {k})
        BY <1>3, <1>4, <2>1, OldestGoesNext
    <2>3. Cardinality(s \ {k}) = Cardinality(s) - 1
        BY <1>4, FS_RemoveElement
    <2>4. n <= Cardinality(s \ {k})
        BY <1>1, <1>4, <2>3
    <2>5. s \ {k} \in SUBSET DOMAIN m
        BY <1>3
    <2> QED
        BY <1>3, <2>2, <2>4, <2>5
<1>6. s \in PartsOf(m, SizeAfterEviction(m))
    BY <1>3, <1>5 DEF PartsOf
<1>7. [k \in s |-> m[k]] \in EvictionsOf(m)
    BY <1>4, <1>6 DEF Remains, EvictionsOf
<1> QED
    BY <1>7

(* A Store that holds the mutex always has an outcome: no state of the map   *)
(* keeps evictLocked from ending but a negative max_entries (main.go:79-106). *)
StoresHaveOutcomes ==
    \A c \in Callers : calls[c].op = "store" /\ maxEntries >= 0 => EvictionsOf(Put(c)) # {}

THEOREM StoresNeverBlock == Spec => []StoresHaveOutcomes
<1>1. ASSUME IInv, NEW c \in Callers, calls[c].op = "store", maxEntries >= 0
      PROVE  EvictionsOf(Put(c)) # {}
    <2>1. maxEntries \in Nat
        BY <1>1 DEF IInv, Types
    <2>2. /\ Put(c) \in [DOMAIN Put(c) -> EntryType]
          /\ IsFiniteSet(DOMAIN Put(c))
        BY <1>1, WhatIsPut
    <2>3. \A k \in DOMAIN Put(c) : Put(c)[k].lastUsed \in Nat
        BY <2>2 DEF EntryType
    <2> QED
        BY <2>1, <2>2, <2>3, EvictionExists
<1>2. IInv => StoresHaveOutcomes
    BY <1>1 DEF StoresHaveOutcomes
<1> QED
    BY <1>2, IInvHolds, PTL

=============================================================================
