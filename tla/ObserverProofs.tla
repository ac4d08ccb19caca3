------------------------------- MODULE ObserverProofs -------------------------------
(*****************************************************************************)
(* Machine-checked proofs about the two observers that keep something: the   *)
(* counters of observer-prometheus (Metrics), for any finite set of events,  *)
(* any batches and any configurations; and the transcripts of observer-s3    *)
(* (S3Transcripts), for any events, batches, configurations and number of    *)
(* concurrent Emits.  The two share no state.                                *)
(*                                                                           *)
(* MInv is the invariant of Metrics.  Its heart is SumsAgree: the counters   *)
(* whose keys agree in what a dashboard groups by add up to the weighted     *)
(* number of the events received.  SumByKey of Facts splits the sum over a   *)
(* batch by the keys it is charged to.                                       *)
(*****************************************************************************)
EXTENDS Metrics, S3Transcripts, Facts, TLAPS

-----------------------------------------------------------------------------
(* What adding the charges of a batch does to a map of counters.             *)

AreCounters(map) == IsFiniteSet(DOMAIN map) /\ \A k \in DOMAIN map : map[k] \in Nat
AreCharges(charges) ==
    IsFiniteSet(DOMAIN charges) /\ \A i \in DOMAIN charges : charges[i].amount \in Nat

Amounts(charges) == [i \in DOMAIN charges |-> charges[i].amount]
At(charges, key) == {i \in DOMAIN charges : charges[i].key = key}

LEMMA ChargesAdd ==
    ASSUME NEW charges, AreCharges(charges), NEW key
    PROVE  /\ Adds(charges, key) = SumFunctionOnSet(Amounts(charges), At(charges, key))
           /\ Adds(charges, key) \in Nat
           /\ key \notin KeysOf(charges) => Adds(charges, key) = 0
<1>1. Adds(charges, key) = SumFunctionOnSet(Amounts(charges), At(charges, key))
    BY DEF Adds, Amounts, At
<1>2. IsFiniteSet(At(charges, key))
    BY FS_Subset DEF At, AreCharges
<1>3. \A i \in At(charges, key) : Amounts(charges)[i] \in Nat
    BY DEF At, Amounts, AreCharges
<1>4. Adds(charges, key) \in Nat
    BY <1>1, <1>2, <1>3, SumIsNat
<1>5. ASSUME key \notin KeysOf(charges)
      PROVE  Adds(charges, key) = 0
    <2>1. At(charges, key) = {}
        BY <1>5 DEF At, KeysOf
    <2>2. SumFunctionOnSet(Amounts(charges), {}) = 0
        BY SumEmpty
    <2>3. SumFunctionOnSet(Amounts(charges), At(charges, key))
            = SumFunctionOnSet(Amounts(charges), {})
        BY <2>1, Zenon
    <2> QED
        BY <1>1, <2>2, <2>3
<1> QED
    BY <1>1, <1>4, <1>5

LEMMA AddedCounters ==
    ASSUME NEW map, AreCounters(map), NEW charges, AreCharges(charges)
    PROVE  /\ AreCounters(Added(map, charges))
           /\ DOMAIN Added(map, charges) = DOMAIN map \union KeysOf(charges)
           /\ \A k \in DOMAIN map : Added(map, charges)[k] >= map[k]
           /\ \A k : Count(Added(map, charges), k) = Count(map, k) + Adds(charges, k)
<1> DEFINE new == Added(map, charges)
<1>1. DOMAIN new = DOMAIN map \union KeysOf(charges)
    BY DEF Added
<1>2. IsFiniteSet(KeysOf(charges))
    <2>1. IsFiniteSet(DOMAIN charges)
        BY DEF AreCharges
    <2> DEFINE key == [i \in DOMAIN charges |-> charges[i].key]
    <2>2. KeysOf(charges) = {key[i] : i \in DOMAIN charges}
        BY DEF KeysOf
    <2> HIDE DEF key
    <2> QED
        BY <2>1, <2>2, FiniteImage
<1>3. IsFiniteSet(DOMAIN new)
    BY <1>1, <1>2, FS_Union DEF AreCounters
<1>4. \A k : Count(map, k) \in Nat
    BY DEF Count, AreCounters
<1>5. \A k : Adds(charges, k) \in Nat /\ (k \notin KeysOf(charges) => Adds(charges, k) = 0)
    BY ChargesAdd
<1>6. \A k \in DOMAIN new : new[k] = Count(map, k) + Adds(charges, k)
    BY DEF Added
<1> HIDE DEF new
<1>7. \A k \in DOMAIN new : new[k] \in Nat
    BY <1>4, <1>5, <1>6
<1>8. \A k \in DOMAIN map : new[k] >= map[k]
    BY <1>1, <1>4, <1>5, <1>6 DEF Count
<1>9. \A k : Count(new, k) = Count(map, k) + Adds(charges, k)
    BY <1>1, <1>4, <1>5, <1>6 DEF Count
<1> QED
    BY <1>1, <1>3, <1>7, <1>8, <1>9 DEF new, AreCounters

(* Over any keys, the counters grow by what was charged to those keys. *)
LEMMA AddedSum ==
    ASSUME NEW map, AreCounters(map), NEW charges, AreCharges(charges),
           NEW P \in SUBSET DOMAIN Added(map, charges)
    PROVE  Sum(Added(map, charges), P)
             = Sum(map, P \intersect DOMAIN map)
                 + SumFunctionOnSet(Amounts(charges), {i \in DOMAIN charges : charges[i].key \in P})
<1> DEFINE new == Added(map, charges)
           old == [k \in P |-> Count(map, k)]
           more == [k \in P |-> Adds(charges, k)]
           amount == Amounts(charges)
           S == {i \in DOMAIN charges : charges[i].key \in P}
           key == [i \in DOMAIN charges |-> charges[i].key]
           Q == P \intersect DOMAIN map
<1>1. AreCounters(new) /\ IsFiniteSet(P)
    BY AddedCounters, FS_Subset DEF AreCounters
<1>2. \A k : Count(map, k) \in Nat /\ Adds(charges, k) \in Nat
    BY ChargesAdd DEF Count, AreCounters
<1>3. \A k \in P : old[k] \in Int /\ more[k] \in Int /\ new[k] = old[k] + more[k]
    BY <1>2 DEF Added
<1>4. /\ Q \in SUBSET P
      /\ \A k \in Q : old[k] = map[k]
      /\ \A k \in P \ Q : old[k] = 0
    BY DEF Count
<1>5. IsFiniteSet(S) /\ \A i \in S : amount[i] \in Int
    BY FS_Subset DEF AreCharges, Amounts
<1>6. \A i \in S : key[i] \in P
    OBVIOUS
<1> DEFINE part == [k \in P |-> At(charges, k)]
<1>7. /\ \A k \in P : part[k] \in SUBSET S /\ more[k] = SumFunctionOnSet(amount, part[k])
      /\ \A k \in P : \A i \in S : i \in part[k] <=> key[i] = k
    BY ChargesAdd DEF At
<1> HIDE DEF new, old, more, amount, S, key, Q, part
<1>8. SumFunctionOnSet(new, P) = SumFunctionOnSet(old, P) + SumFunctionOnSet(more, P)
    BY <1>1, <1>3, SumPlus
<1>9. SumFunctionOnSet(old, P) = SumFunctionOnSet(old, Q)
    BY <1>1, <1>3, <1>4, SumZeros
<1>10. SumFunctionOnSet(old, Q) = SumFunctionOnSet(map, Q)
    BY <1>1, <1>4, FS_Subset, SumSame
<1>11. SumFunctionOnSet(more, P) = SumFunctionOnSet(amount, S)
    BY <1>1, <1>5, <1>6, <1>7, SumByKey
<1>12. SumFunctionOnSet(new, P) = SumFunctionOnSet(map, Q) + SumFunctionOnSet(amount, S)
    BY ONLY <1>8, <1>9, <1>10, <1>11
<1> QED
    BY ONLY <1>12 DEF Sum, new, amount, S, Q

-----------------------------------------------------------------------------
(* A batch, summed event by event, is the sum of its events times how often  *)
(* they are in it.                                                           *)

Times(batch, e) == Cardinality({i \in DOMAIN batch : batch[i] = e})
Weighted(w, number) == Total([e \in GatewayEvents |-> w[e] * number[e]])

LEMMA TimesIsNat ==
    ASSUME NEW batch \in Seq(GatewayEvents), NEW e
    PROVE  /\ IsFiniteSet({i \in DOMAIN batch : batch[i] = e})
           /\ Times(batch, e) \in Nat
<1>1. IsFiniteSet(DOMAIN batch)
    BY FS_Interval
<1>2. IsFiniteSet({i \in DOMAIN batch : batch[i] = e})
    BY <1>1, FS_Subset
<1> QED
    BY <1>2, FS_CardinalityType DEF Times

LEMMA BatchSum ==
    ASSUME NEW batch \in Seq(GatewayEvents),
           NEW w, \A e \in GatewayEvents : w[e] \in Nat,
           NEW f, NEW S \in SUBSET DOMAIN batch, \A i \in S : f[i] = w[batch[i]],
           \A i \in DOMAIN batch \ S : w[batch[i]] = 0,
           NEW number, \A e \in GatewayEvents : number[e] = Times(batch, e)
    PROVE  SumFunctionOnSet(f, S) = Weighted(w, number)
<1> DEFINE D == DOMAIN batch
           h == [i \in D |-> w[batch[i]]]
           part == [e \in GatewayEvents |-> {i \in D : batch[i] = e}]
           g == [e \in GatewayEvents |-> w[e] * number[e]]
<1>1. IsFiniteSet(D) /\ \A i \in D : batch[i] \in GatewayEvents
    BY FS_Interval
<1>2. IsFiniteSet(GatewayEvents)
    BY MetricsAssumption
<1>3. /\ \A i \in D : h[i] \in Int
      /\ \A i \in S : f[i] = h[i]
      /\ \A i \in D \ S : h[i] = 0
    BY <1>1
<1>4. /\ \A e \in GatewayEvents : part[e] \in SUBSET D
      /\ \A e \in GatewayEvents : \A i \in D : i \in part[e] <=> batch[i] = e
    OBVIOUS
<1>5. ASSUME NEW e \in GatewayEvents
      PROVE  g[e] = SumFunctionOnSet(h, part[e])
    <2>1. IsFiniteSet(part[e]) /\ Cardinality(part[e]) = Times(batch, e) /\ Times(batch, e) \in Nat
        <3>1. \A x : /\ IsFiniteSet({i \in DOMAIN batch : batch[i] = x})
                     /\ Times(batch, x) \in Nat
                     /\ Times(batch, x) = Cardinality({i \in DOMAIN batch : batch[i] = x})
            BY TimesIsNat DEF Times
        <3>2. part[e] = {i \in DOMAIN batch : batch[i] = e}
            OBVIOUS
        <3> HIDE DEF part
        <3> QED
            BY ONLY <3>1, <3>2, Zenon
    <2> PICK c : c = w[e]
        OBVIOUS
    <2>2. \A i \in part[e] : h[i] = c
        OBVIOUS
    <2>3. g[e] = c * Times(batch, e) /\ c \in Int
        OBVIOUS
    <2> HIDE DEF part, h, g
    <2>4. SumFunctionOnSet(h, part[e]) = c * Cardinality(part[e])
        BY ONLY <2>1, <2>2, <2>3, SumConstant
    <2> QED
        BY ONLY <2>1, <2>3, <2>4
<1>6. Weighted(w, number) = SumFunctionOnSet(g, GatewayEvents)
    BY DEF Weighted, Total
<1> HIDE DEF D, h, part, g
<1>7. SumFunctionOnSet(g, GatewayEvents) = SumFunctionOnSet(h, D)
    BY <1>1, <1>2, <1>3, <1>4, <1>5, SumByKey
<1>8. S \in SUBSET D
    BY DEF D
<1>9. SumFunctionOnSet(h, D) = SumFunctionOnSet(h, S)
    BY <1>1, <1>3, <1>8, SumZeros
<1>10. SumFunctionOnSet(h, S) = SumFunctionOnSet(f, S)
    BY <1>1, <1>3, <1>8, FS_Subset, SumSame
<1> QED
    BY ONLY <1>6, <1>7, <1>9, <1>10

LEMMA WeightedGrows ==
    ASSUME NEW w, \A e \in GatewayEvents : w[e] \in Nat,
           NEW old, NEW more, NEW new,
           \A e \in GatewayEvents : old[e] \in Nat /\ more[e] \in Nat /\ new[e] = old[e] + more[e]
    PROVE  Weighted(w, new) = Weighted(w, old) + Weighted(w, more)
<1> DEFINE f == [e \in GatewayEvents |-> w[e] * old[e]]
           g == [e \in GatewayEvents |-> w[e] * more[e]]
           h == [e \in GatewayEvents |-> w[e] * new[e]]
<1>1. ASSUME NEW e \in GatewayEvents
      PROVE  f[e] \in Int /\ g[e] \in Int /\ h[e] = f[e] + g[e]
    <2> PICK a \in Nat : a = w[e]
        OBVIOUS
    <2> PICK b \in Nat : b = old[e]
        OBVIOUS
    <2> PICK c \in Nat : c = more[e]
        OBVIOUS
    <2>1. f[e] = a * b /\ g[e] = a * c /\ h[e] = a * (b + c)
        OBVIOUS
    <2>2. a * (b + c) = a * b + a * c /\ a * b \in Int /\ a * c \in Int
        OBVIOUS
    <2> QED
        BY ONLY <2>1, <2>2
<1>2. IsFiniteSet(GatewayEvents)
    BY MetricsAssumption
<1> HIDE DEF f, g, h
<1>3. SumFunctionOnSet(h, GatewayEvents)
        = SumFunctionOnSet(f, GatewayEvents) + SumFunctionOnSet(g, GatewayEvents)
    BY <1>1, <1>2, SumPlus
<1> QED
    BY ONLY <1>3 DEF Weighted, Total, f, g, h

(* If what is counted at some keys is what some events weigh, it stays so. *)
LEMMA SumsStayEqual ==
    ASSUME NEW map, AreCounters(map), NEW charges, AreCharges(charges),
           NEW batch \in Seq(GatewayEvents), DOMAIN charges \subseteq DOMAIN batch,
           NEW w, \A e \in GatewayEvents : w[e] \in Nat,
           NEW P \in SUBSET DOMAIN Added(map, charges),
           \A i \in DOMAIN charges : charges[i].key \in P => charges[i].amount = w[batch[i]],
           \A i \in DOMAIN batch :
               ~(i \in DOMAIN charges /\ charges[i].key \in P) => w[batch[i]] = 0,
           NEW old, NEW new,
           \A e \in GatewayEvents : old[e] \in Nat /\ new[e] = old[e] + Times(batch, e),
           NEW Q, Q = P \intersect DOMAIN map, Sum(map, Q) = Weighted(w, old)
    PROVE  Sum(Added(map, charges), P) = Weighted(w, new)
<1> DEFINE S == {i \in DOMAIN charges : charges[i].key \in P}
           f == Amounts(charges)
           more == [e \in GatewayEvents |-> Times(batch, e)]
<1>1. /\ S \in SUBSET DOMAIN batch
      /\ \A i \in S : f[i] = w[batch[i]]
      /\ \A i \in DOMAIN batch \ S : w[batch[i]] = 0
    BY DEF Amounts
<1>2. \A e \in GatewayEvents : /\ more[e] = Times(batch, e)
                               /\ more[e] \in Nat
                               /\ new[e] = old[e] + more[e]
    BY TimesIsNat
<1>3. Sum(Added(map, charges), P) = Sum(map, P \intersect DOMAIN map) + SumFunctionOnSet(f, S)
    BY AddedSum
<1> HIDE DEF S, f, more
<1>4. SumFunctionOnSet(f, S) = Weighted(w, more)
    BY <1>1, <1>2, BatchSum
<1>5. Weighted(w, new) = Weighted(w, old) + Weighted(w, more)
    BY <1>2, WeightedGrows
<1>6. Sum(map, P \intersect DOMAIN map) = Sum(map, Q)
    BY Zenon
<1>7. Sum(map, Q) = Weighted(w, old)
    OBVIOUS
<1> QED
    BY ONLY <1>3, <1>4, <1>5, <1>6, <1>7

-----------------------------------------------------------------------------
(* The invariant.                                                            *)

IsEventKey(k) == k = [type |-> k.type, tenant |-> k.tenant]
IsResultKey(k) == k = [status |-> k.status, tenant |-> k.tenant]
IsUsageKey(k) ==
    k = [provider |-> k.provider, upstream |-> k.upstream,
         tenant |-> k.tenant, model |-> k.model]

CountersTyped ==
    /\ enableTenantLabels \in BOOLEAN /\ labelled \in BOOLEAN
    /\ received \in [GatewayEvents -> Nat]
    /\ AreCounters(events) /\ \A k \in DOMAIN events : IsEventKey(k)
    /\ AreCounters(requestResults) /\ \A k \in DOMAIN requestResults : IsResultKey(k)
    /\ AreCounters(usage) /\ \A k \in DOMAIN usage : IsUsageKey(k)

(* No key names a tenant before tenants are asked for. *)
NoTenants ==
    ~labelled =>
        \A k \in DOMAIN events \union DOMAIN requestResults \union DOMAIN usage : k.tenant = ""

(* NothingLost, of weights. *)
TypeWeight(ev) == [e \in GatewayEvents |-> IF e.type = ev.type THEN 1 ELSE 0]

SameModel(e, ev) ==
    /\ e.provider = ev.provider
    /\ GivenString(e.requested, e.upstream) = GivenString(ev.requested, ev.upstream)
ModelWeight(ev) == [e \in GatewayEvents |-> IF SameModel(e, ev) THEN e.tokens ELSE 0]

OfType(map, ev) == {k \in DOMAIN map : k.type = ev.type}
OfStatus(map, ev) == {k \in DOMAIN map : k.status = Status(ev.type)}
OfModel(map, ev) ==
    {k \in DOMAIN map : /\ k.provider = ev.provider
                        /\ k.model = GivenString(ev.requested, ev.upstream)}

SumsAgree ==
    \A ev \in GatewayEvents :
        /\ Sum(events, OfType(events, ev)) = Weighted(TypeWeight(ev), received)
        /\ HasResult(ev) =>
              Sum(requestResults, OfStatus(requestResults, ev)) = Weighted(TypeWeight(ev), received)
        /\ Sum(usage, OfModel(usage, ev)) = Weighted(ModelWeight(ev), received)

MInv == CountersTyped /\ NoTenants /\ SumsAgree /\ ResultsMatchEvents

LEMMA EventTypes == \A e \in GatewayEvents : e.tokens \in Nat
BY MetricsAssumption DEF EventType

LEMMA WeightsAreNat ==
    ASSUME NEW ev \in GatewayEvents
    PROVE  /\ \A e \in GatewayEvents : TypeWeight(ev)[e] \in Nat
           /\ \A e \in GatewayEvents : ModelWeight(ev)[e] \in Nat
BY EventTypes DEF TypeWeight, ModelWeight

LEMMA WeightedIsTotal ==
    ASSUME NEW number \in [GatewayEvents -> Nat], NEW ev \in GatewayEvents
    PROVE  /\ Weighted(TypeWeight(ev), number)
                = Total([e \in GatewayEvents |-> IF e.type = ev.type THEN number[e] ELSE 0])
           /\ Weighted(ModelWeight(ev), number)
                = Total([e \in GatewayEvents |->
                            IF SameModel(e, ev) THEN number[e] * e.tokens ELSE 0])
<1>1. IsFiniteSet(GatewayEvents)
    BY MetricsAssumption
<1>2. \A e \in GatewayEvents : e.tokens \in Nat /\ number[e] \in Nat
    BY EventTypes
<1>3. Weighted(TypeWeight(ev), number)
        = Total([e \in GatewayEvents |-> IF e.type = ev.type THEN number[e] ELSE 0])
    <2> DEFINE f == [e \in GatewayEvents |-> TypeWeight(ev)[e] * number[e]]
               g == [e \in GatewayEvents |-> IF e.type = ev.type THEN number[e] ELSE 0]
    <2>1. \A e \in GatewayEvents : f[e] = g[e]
        BY <1>2 DEF TypeWeight
    <2> HIDE DEF f, g
    <2>2. SumFunctionOnSet(f, GatewayEvents) = SumFunctionOnSet(g, GatewayEvents)
        BY <1>1, <2>1, SumSame
    <2> QED
        BY ONLY <2>2 DEF Weighted, Total, f, g
<1>4. Weighted(ModelWeight(ev), number)
        = Total([e \in GatewayEvents |-> IF SameModel(e, ev) THEN number[e] * e.tokens ELSE 0])
    <2> DEFINE f == [e \in GatewayEvents |-> ModelWeight(ev)[e] * number[e]]
               g == [e \in GatewayEvents |-> IF SameModel(e, ev) THEN number[e] * e.tokens ELSE 0]
    <2>1. ASSUME NEW e \in GatewayEvents
          PROVE  f[e] = g[e]
        <3> PICK a \in Nat : a = e.tokens
            BY <1>2
        <3> PICK b \in Nat : b = number[e]
            BY <1>2
        <3>1. CASE SameModel(e, ev)
            <4>1. f[e] = a * b /\ g[e] = b * a
                BY <3>1 DEF ModelWeight
            <4> QED
                BY ONLY <4>1, a \in Nat, b \in Nat
        <3>2. CASE ~SameModel(e, ev)
            BY <3>2 DEF ModelWeight
        <3> QED
            BY <3>1, <3>2
    <2> HIDE DEF f, g
    <2>2. SumFunctionOnSet(f, GatewayEvents) = SumFunctionOnSet(g, GatewayEvents)
        BY <1>1, <2>1, SumSame
    <2> QED
        BY ONLY <2>2 DEF Weighted, Total, f, g
<1> QED
    BY <1>3, <1>4

LEMMA SumsAreNothingLost == MInv => NothingLost
<1> SUFFICES ASSUME MInv, NEW ev \in GatewayEvents
             PROVE  /\ Sum(events, {k \in DOMAIN events : k.type = ev.type})
                          = Total([e \in GatewayEvents |->
                                      IF e.type = ev.type THEN received[e] ELSE 0])
                    /\ HasResult(ev) =>
                          Sum(requestResults,
                              {k \in DOMAIN requestResults : k.status = Status(ev.type)})
                            = Total([e \in GatewayEvents |->
                                        IF e.type = ev.type THEN received[e] ELSE 0])
                    /\ Sum(usage, {k \in DOMAIN usage :
                                      /\ k.provider = ev.provider
                                      /\ k.model = GivenString(ev.requested, ev.upstream)})
                          = Total([e \in GatewayEvents |->
                                      IF SameModel(e, ev) THEN received[e] * e.tokens ELSE 0])
    BY DEF NothingLost, SameModel
<1>1. received \in [GatewayEvents -> Nat]
    BY DEF MInv, CountersTyped
<1>2. /\ Sum(events, OfType(events, ev)) = Weighted(TypeWeight(ev), received)
      /\ HasResult(ev) =>
            Sum(requestResults, OfStatus(requestResults, ev)) = Weighted(TypeWeight(ev), received)
      /\ Sum(usage, OfModel(usage, ev)) = Weighted(ModelWeight(ev), received)
    BY DEF MInv, SumsAgree
<1> QED
    BY ONLY <1>1, <1>2, WeightedIsTotal, ev \in GatewayEvents DEF OfType, OfStatus, OfModel

-----------------------------------------------------------------------------
(* Emit keeps it. *)

LEMMA BatchEvents ==
    ASSUME NEW batch \in EmitCalls
    PROVE  /\ batch \in Seq(GatewayEvents)
           /\ IsFiniteSet(DOMAIN batch)
           /\ \A i \in DOMAIN batch : batch[i] \in GatewayEvents
<1>1. batch \in Seq(GatewayEvents)
    BY MetricsAssumption
<1> QED
    BY <1>1, FS_Interval

LEMMA KeysTyped ==
    ASSUME NEW ev \in GatewayEvents
    PROVE  /\ IsEventKey(labelKey(ev)) /\ IsResultKey(resultKey(ev))
           /\ ev.tokens # 0 => IsUsageKey(usageKey(ev))
           /\ ~enableTenantLabels =>
                 /\ labelKey(ev).tenant = "" /\ resultKey(ev).tenant = ""
                 /\ usageKey(ev).tenant = ""
<1>1. IsEventKey(labelKey(ev)) /\ labelKey(ev).tenant = Tenant(ev)
    BY DEF IsEventKey, labelKey
<1>2. IsResultKey(resultKey(ev)) /\ resultKey(ev).tenant = Tenant(ev)
    BY DEF IsResultKey, resultKey
<1>3. /\ ev.tokens # 0 => IsUsageKey(usageKey(ev))
      /\ usageKey(ev).tenant = Tenant(ev)
    BY EventTypes DEF IsUsageKey, usageKey
<1>4. ~enableTenantLabels => Tenant(ev) = ""
    BY DEF Tenant
<1> QED
    BY <1>1, <1>2, <1>3, <1>4

(* What a batch is charged to, and how much. *)
LEMMA ChargesTyped ==
    ASSUME MInv, NEW batch \in EmitCalls
    PROVE  /\ AreCharges(EventCharges(batch))
           /\ \A k \in KeysOf(EventCharges(batch)) : IsEventKey(k)
           /\ AreCharges(ResultCharges(batch))
           /\ \A k \in KeysOf(ResultCharges(batch)) : IsResultKey(k)
           /\ AreCharges(UsageCharges(batch))
           /\ \A k \in KeysOf(UsageCharges(batch)) : IsUsageKey(k)
           /\ ~enableTenantLabels =>
                 \A k \in KeysOf(EventCharges(batch)) \union KeysOf(ResultCharges(batch))
                              \union KeysOf(UsageCharges(batch)) : k.tenant = ""
<1>1. IsFiniteSet(DOMAIN batch) /\ \A i \in DOMAIN batch : batch[i] \in GatewayEvents
    BY BatchEvents
<1>2. /\ DOMAIN EventCharges(batch) = DOMAIN batch
      /\ DOMAIN ResultCharges(batch) \in SUBSET DOMAIN batch
      /\ DOMAIN UsageCharges(batch) \in SUBSET DOMAIN batch
    BY DEF EventCharges, ResultCharges, UsageCharges
<1>3. /\ IsFiniteSet(DOMAIN EventCharges(batch))
      /\ IsFiniteSet(DOMAIN ResultCharges(batch))
      /\ IsFiniteSet(DOMAIN UsageCharges(batch))
    BY <1>1, <1>2, FS_Subset
<1>4. ASSUME NEW i \in DOMAIN EventCharges(batch)
      PROVE  /\ EventCharges(batch)[i].amount \in Nat
             /\ IsEventKey(EventCharges(batch)[i].key)
             /\ ~enableTenantLabels => EventCharges(batch)[i].key.tenant = ""
    <2> PICK ev : ev = batch[i]
        OBVIOUS
    <2>1. ev \in GatewayEvents
        BY <1>1 DEF EventCharges
    <2>2. EventCharges(batch)[i].key = labelKey(ev) /\ EventCharges(batch)[i].amount = 1
        BY DEF EventCharges
    <2>3. 1 \in Nat
        BY <2>1, EventTypes
    <2>4. IsEventKey(labelKey(ev)) /\ (~enableTenantLabels => labelKey(ev).tenant = "")
        BY <2>1, KeysTyped
    <2> QED
        BY ONLY <2>2, <2>3, <2>4, Zenon
<1>5. ASSUME NEW i \in DOMAIN ResultCharges(batch)
      PROVE  /\ ResultCharges(batch)[i].amount \in Nat
             /\ IsResultKey(ResultCharges(batch)[i].key)
             /\ ~enableTenantLabels => ResultCharges(batch)[i].key.tenant = ""
    <2> PICK ev : ev = batch[i]
        OBVIOUS
    <2>1. ev \in GatewayEvents /\ HasResult(ev)
        BY <1>1 DEF ResultCharges
    <2>2. ResultCharges(batch)[i].key = resultKey(ev) /\ ResultCharges(batch)[i].amount = 1
        BY DEF ResultCharges
    <2>3. 1 \in Nat
        BY <2>1, EventTypes
    <2>4. IsResultKey(resultKey(ev)) /\ (~enableTenantLabels => resultKey(ev).tenant = "")
        BY <2>1, KeysTyped
    <2> QED
        BY ONLY <2>2, <2>3, <2>4, Zenon
<1>6. ASSUME NEW i \in DOMAIN UsageCharges(batch)
      PROVE  /\ UsageCharges(batch)[i].amount \in Nat
             /\ IsUsageKey(UsageCharges(batch)[i].key)
             /\ ~enableTenantLabels => UsageCharges(batch)[i].key.tenant = ""
    <2> PICK ev : ev = batch[i]
        OBVIOUS
    <2>1. ev \in GatewayEvents /\ ev.tokens # 0
        BY <1>1 DEF UsageCharges
    <2>2. UsageCharges(batch)[i].key = usageKey(ev) /\ UsageCharges(batch)[i].amount = ev.tokens
        BY DEF UsageCharges
    <2>3. ev.tokens \in Nat
        BY <2>1, EventTypes
    <2>4. IsUsageKey(usageKey(ev)) /\ (~enableTenantLabels => usageKey(ev).tenant = "")
        BY <2>1, KeysTyped
    <2> QED
        BY ONLY <2>2, <2>3, <2>4, Zenon
<1>7. /\ AreCharges(EventCharges(batch)) /\ AreCharges(ResultCharges(batch))
      /\ AreCharges(UsageCharges(batch))
    BY <1>3, <1>4, <1>5, <1>6 DEF AreCharges
<1>8. \A k \in KeysOf(EventCharges(batch)) :
           IsEventKey(k) /\ (~enableTenantLabels => k.tenant = "")
    BY <1>4 DEF KeysOf
<1>9. \A k \in KeysOf(ResultCharges(batch)) :
           IsResultKey(k) /\ (~enableTenantLabels => k.tenant = "")
    BY <1>5 DEF KeysOf
<1>10. \A k \in KeysOf(UsageCharges(batch)) :
           IsUsageKey(k) /\ (~enableTenantLabels => k.tenant = "")
    BY <1>6 DEF KeysOf
<1> QED
    BY <1>7, <1>8, <1>9, <1>10

LEMMA EmitTyped ==
    ASSUME MInv, NEW batch \in EmitCalls, Emit(batch)
    PROVE  CountersTyped' /\ NoTenants'
<1>1. /\ events' = Added(events, EventCharges(batch))
      /\ requestResults' = Added(requestResults, ResultCharges(batch))
      /\ usage' = Added(usage, UsageCharges(batch))
      /\ received' = [ev \in GatewayEvents |-> received[ev] + Times(batch, ev)]
      /\ labelled' = (labelled \/ enableTenantLabels)
      /\ enableTenantLabels' = enableTenantLabels
    BY DEF Emit, settings, Times
<1>2. CountersTyped
    BY DEF MInv
<1>3. received' \in [GatewayEvents -> Nat]
    <2>1. \A ev \in GatewayEvents : Times(batch, ev) \in Nat /\ received[ev] \in Nat
        BY <1>2, BatchEvents, TimesIsNat DEF CountersTyped
    <2> QED
        BY <1>1, <2>1
<1>4. /\ AreCounters(events') /\ DOMAIN events' = DOMAIN events \union KeysOf(EventCharges(batch))
      /\ AreCounters(requestResults')
      /\ DOMAIN requestResults' = DOMAIN requestResults \union KeysOf(ResultCharges(batch))
      /\ AreCounters(usage') /\ DOMAIN usage' = DOMAIN usage \union KeysOf(UsageCharges(batch))
    BY <1>1, <1>2, ChargesTyped, AddedCounters DEF CountersTyped
<1>5. CountersTyped'
    BY <1>1, <1>2, <1>3, <1>4, ChargesTyped DEF CountersTyped, AreCounters
<1>6. NoTenants'
    BY <1>1, <1>4, ChargesTyped DEF MInv, NoTenants
<1> QED
    BY <1>5, <1>6

LEMMA EmitSums ==
    ASSUME MInv, NEW batch \in EmitCalls, Emit(batch)
    PROVE  SumsAgree'
<1>1. /\ events' = Added(events, EventCharges(batch))
      /\ requestResults' = Added(requestResults, ResultCharges(batch))
      /\ usage' = Added(usage, UsageCharges(batch))
      /\ \A e \in GatewayEvents : /\ received[e] \in Nat
                                   /\ received'[e] = received[e] + Times(batch, e)
    BY DEF Emit, Times, MInv, CountersTyped
<1>2. batch \in Seq(GatewayEvents) /\ \A i \in DOMAIN batch : batch[i] \in GatewayEvents
    BY BatchEvents
<1>3. AreCounters(events) /\ AreCounters(requestResults) /\ AreCounters(usage)
    BY DEF MInv, CountersTyped
<1>4. /\ AreCharges(EventCharges(batch)) /\ AreCharges(ResultCharges(batch))
      /\ AreCharges(UsageCharges(batch))
    BY ChargesTyped
<1> SUFFICES ASSUME NEW ev \in GatewayEvents
             PROVE  /\ Sum(events', OfType(events', ev)) = Weighted(TypeWeight(ev), received')
                    /\ HasResult(ev) =>
                          Sum(requestResults', OfStatus(requestResults', ev))
                            = Weighted(TypeWeight(ev), received')
                    /\ Sum(usage', OfModel(usage', ev)) = Weighted(ModelWeight(ev), received')
    BY DEF SumsAgree, Sum, OfType, OfStatus, OfModel, Weighted, TypeWeight, ModelWeight, Total
<1>5. /\ Sum(events, OfType(events, ev)) = Weighted(TypeWeight(ev), received)
      /\ HasResult(ev) =>
            Sum(requestResults, OfStatus(requestResults, ev)) = Weighted(TypeWeight(ev), received)
      /\ Sum(usage, OfModel(usage, ev)) = Weighted(ModelWeight(ev), received)
    BY DEF MInv, SumsAgree
<1>6. Sum(events', OfType(events', ev)) = Weighted(TypeWeight(ev), received')
    <2> DEFINE charges == EventCharges(batch)
               w == TypeWeight(ev)
               P == OfType(events', ev)
               Q == OfType(events, ev)
    <2>1. DOMAIN charges \subseteq DOMAIN batch
        BY DEF EventCharges
    <2>2. DOMAIN events' = DOMAIN events \union KeysOf(charges)
        BY <1>1, <1>3, <1>4, AddedCounters
    <2>3. P \in SUBSET DOMAIN Added(events, charges) /\ Q = P \intersect DOMAIN events
        BY <1>1, <2>2 DEF OfType
    <2>4. ASSUME NEW i \in DOMAIN batch
          PROVE  /\ i \in DOMAIN charges /\ charges[i].key \in P => charges[i].amount = w[batch[i]]
                 /\ ~(i \in DOMAIN charges /\ charges[i].key \in P) => w[batch[i]] = 0
        <3>1. /\ i \in DOMAIN charges /\ charges[i].key \in KeysOf(charges)
              /\ charges[i].key.type = batch[i].type /\ charges[i].amount = 1
            BY DEF EventCharges, KeysOf, labelKey
        <3>2. charges[i].key \in P <=> batch[i].type = ev.type
            BY <2>2, <3>1 DEF OfType
        <3> QED
            BY <1>2, <3>1, <3>2 DEF TypeWeight
    <2>5. \A e \in GatewayEvents : w[e] \in Nat
        BY WeightsAreNat
    <2>6. Sum(events, Q) = Weighted(w, received)
        BY <1>5
    <2>7. AreCharges(charges)
        BY <1>4
    <2> HIDE DEF charges, w, P, Q
    <2>8. Sum(Added(events, charges), P) = Weighted(w, received')
        BY ONLY <1>1, <1>2, <1>3, <2>1, <2>3, <2>4, <2>5, <2>6, <2>7, SumsStayEqual, SMTT(30)
    <2> QED
        BY ONLY <1>1, <2>8 DEF charges, w, P
<1>7. ASSUME HasResult(ev)
      PROVE  Sum(requestResults', OfStatus(requestResults', ev))
                 = Weighted(TypeWeight(ev), received')
    <2> DEFINE charges == ResultCharges(batch)
               w == TypeWeight(ev)
               P == OfStatus(requestResults', ev)
               Q == OfStatus(requestResults, ev)
    <2>1. DOMAIN charges \subseteq DOMAIN batch
        BY DEF ResultCharges
    <2>2. DOMAIN requestResults' = DOMAIN requestResults \union KeysOf(charges)
        BY <1>1, <1>3, <1>4, AddedCounters
    <2>3. P \in SUBSET DOMAIN Added(requestResults, charges)
          /\ Q = P \intersect DOMAIN requestResults
        BY <1>1, <2>2 DEF OfStatus
    <2>4. ASSUME NEW i \in DOMAIN batch
          PROVE  /\ i \in DOMAIN charges /\ charges[i].key \in P => charges[i].amount = w[batch[i]]
                 /\ ~(i \in DOMAIN charges /\ charges[i].key \in P) => w[batch[i]] = 0
        <3>1. i \in DOMAIN charges <=> HasResult(batch[i])
            BY DEF ResultCharges
        <3>2. i \in DOMAIN charges =>
                  /\ charges[i].key \in KeysOf(charges)
                  /\ charges[i].key.status = Status(batch[i].type) /\ charges[i].amount = 1
            BY DEF ResultCharges, KeysOf, resultKey
        <3>3. HasResult(batch[i]) =>
                  (Status(batch[i].type) = Status(ev.type) <=> batch[i].type = ev.type)
            BY <1>7 DEF HasResult, Status
        <3>4. batch[i].type = ev.type => HasResult(batch[i])
            BY <1>7 DEF HasResult
        <3>5. i \in DOMAIN charges => (charges[i].key \in P <=> batch[i].type = ev.type)
            BY <2>2, <3>1, <3>2, <3>3 DEF OfStatus
        <3>6. w[batch[i]] = IF batch[i].type = ev.type THEN 1 ELSE 0
            BY <1>2 DEF TypeWeight
        <3> HIDE DEF charges, w, P
        <3> QED
            BY <3>1, <3>2, <3>4, <3>5, <3>6
    <2>5. \A e \in GatewayEvents : w[e] \in Nat
        BY WeightsAreNat
    <2>6. Sum(requestResults, Q) = Weighted(w, received)
        BY <1>5, <1>7
    <2>7. AreCharges(charges)
        BY <1>4
    <2> HIDE DEF charges, w, P, Q
    <2>8. Sum(Added(requestResults, charges), P) = Weighted(w, received')
        BY ONLY <1>1, <1>2, <1>3, <2>1, <2>3, <2>4, <2>5, <2>6, <2>7, SumsStayEqual
    <2> QED
        BY ONLY <1>1, <2>8 DEF charges, w, P
<1>8. Sum(usage', OfModel(usage', ev)) = Weighted(ModelWeight(ev), received')
    <2> DEFINE charges == UsageCharges(batch)
               w == ModelWeight(ev)
               P == OfModel(usage', ev)
               Q == OfModel(usage, ev)
    <2>1. DOMAIN charges \subseteq DOMAIN batch
        BY DEF UsageCharges
    <2>2. DOMAIN usage' = DOMAIN usage \union KeysOf(charges)
        BY <1>1, <1>3, <1>4, AddedCounters
    <2>3. P \in SUBSET DOMAIN Added(usage, charges) /\ Q = P \intersect DOMAIN usage
        BY <1>1, <2>2 DEF OfModel
    <2>4. ASSUME NEW i \in DOMAIN batch
          PROVE  /\ i \in DOMAIN charges /\ charges[i].key \in P => charges[i].amount = w[batch[i]]
                 /\ ~(i \in DOMAIN charges /\ charges[i].key \in P) => w[batch[i]] = 0
        <3>1. i \in DOMAIN charges <=> batch[i].tokens # 0
            BY DEF UsageCharges
        <3>2. i \in DOMAIN charges =>
                  /\ charges[i].key \in KeysOf(charges)
                  /\ charges[i].key = usageKey(batch[i]) /\ charges[i].amount = batch[i].tokens
            BY DEF UsageCharges, KeysOf
        <3>3. i \in DOMAIN charges => (charges[i].key \in P <=> SameModel(batch[i], ev))
            BY <2>2, <3>2 DEF OfModel, SameModel, usageKey
        <3>4. w[batch[i]] = IF SameModel(batch[i], ev) THEN batch[i].tokens ELSE 0
            BY <1>2 DEF ModelWeight
        <3> HIDE DEF charges, w, P
        <3> QED
            BY <3>1, <3>2, <3>3, <3>4
    <2>5. \A e \in GatewayEvents : w[e] \in Nat
        BY WeightsAreNat
    <2>6. Sum(usage, Q) = Weighted(w, received)
        BY <1>5
    <2>7. AreCharges(charges)
        BY <1>4
    <2> HIDE DEF charges, w, P, Q
    <2>8. Sum(Added(usage, charges), P) = Weighted(w, received')
        BY ONLY <1>1, <1>2, <1>3, <2>1, <2>3, <2>4, <2>5, <2>6, <2>7, SumsStayEqual
    <2> QED
        BY ONLY <1>1, <2>8 DEF charges, w, P
<1> QED
    BY <1>6, <1>7, <1>8

(* A request with a result is charged alike to its status and to its type. *)
LEMMA EmitMatches ==
    ASSUME MInv, NEW batch \in EmitCalls, Emit(batch)
    PROVE  ResultsMatchEvents'
<1> SUFFICES ASSUME NEW ev \in GatewayEvents, HasResult(ev), NEW tenant,
                    Count(requestResults, [status |-> Status(ev.type), tenant |-> tenant])
                      = Count(events, [type |-> ev.type, tenant |-> tenant])
             PROVE  Count(requestResults', [status |-> Status(ev.type), tenant |-> tenant])
                      = Count(events', [type |-> ev.type, tenant |-> tenant])
    BY DEF MInv, ResultsMatchEvents, Count
<1> DEFINE results == ResultCharges(batch)
           types == EventCharges(batch)
           status == [status |-> Status(ev.type), tenant |-> tenant]
           type == [type |-> ev.type, tenant |-> tenant]
<1>1. /\ events' = Added(events, types) /\ requestResults' = Added(requestResults, results)
      /\ AreCounters(events) /\ AreCounters(requestResults)
      /\ AreCharges(types) /\ AreCharges(results)
    BY ChargesTyped DEF Emit, MInv, CountersTyped
<1>2. At(results, status) = At(types, type)
    <2>1. ASSUME NEW i
          PROVE  i \in At(results, status) <=> i \in At(types, type)
        <3>1. i \in At(results, status) <=>
                 i \in DOMAIN batch /\ HasResult(batch[i]) /\ resultKey(batch[i]) = status
            BY DEF At, ResultCharges
        <3>2. i \in At(types, type) <=> i \in DOMAIN batch /\ labelKey(batch[i]) = type
            BY DEF At, EventCharges
        <3>3. HasResult(batch[i]) /\ resultKey(batch[i]) = status <=> labelKey(batch[i]) = type
            BY DEF HasResult, resultKey, labelKey, Status
        <3> QED
            BY <3>1, <3>2, <3>3
    <2> QED
        BY <2>1
<1>3. \A i \in At(types, type) : Amounts(results)[i] = Amounts(types)[i]
    <2>1. \A i \in DOMAIN results : Amounts(results)[i] = 1
        BY DEF Amounts, ResultCharges
    <2>2. \A i \in DOMAIN types : Amounts(types)[i] = 1
        BY DEF Amounts, EventCharges
    <2>3. \A i \in At(types, type) : i \in DOMAIN results /\ i \in DOMAIN types
        BY <1>2 DEF At
    <2> QED
        BY <2>1, <2>2, <2>3
<1>4. IsFiniteSet(At(types, type))
    BY <1>1, FS_Subset DEF At, AreCharges
<1> HIDE DEF results, types, status, type
<1>5. SumFunctionOnSet(Amounts(results), At(types, type))
        = SumFunctionOnSet(Amounts(types), At(types, type))
    BY <1>3, <1>4, SumSame
<1>6. SumFunctionOnSet(Amounts(results), At(results, status))
        = SumFunctionOnSet(Amounts(results), At(types, type))
    BY ONLY <1>2, Zenon
<1>7. /\ Adds(results, status) = SumFunctionOnSet(Amounts(results), At(results, status))
      /\ Adds(types, type) = SumFunctionOnSet(Amounts(types), At(types, type))
    BY <1>1, ChargesAdd
<1>8. Adds(results, status) = Adds(types, type)
    BY ONLY <1>5, <1>6, <1>7
<1>9. /\ Count(Added(requestResults, results), status)
            = Count(requestResults, status) + Adds(results, status)
      /\ Count(Added(events, types), type) = Count(events, type) + Adds(types, type)
    BY ONLY <1>1, AddedCounters
<1>10. Count(requestResults, status) = Count(events, type)
    BY DEF status, type
<1> QED
    BY ONLY <1>1, <1>8, <1>9, <1>10 DEF status, type

-----------------------------------------------------------------------------
LEMMA InitMInv == MetricsInit => MInv
<1> SUFFICES ASSUME MetricsInit
             PROVE  MInv
    OBVIOUS
<1>1. /\ DOMAIN events = {} /\ DOMAIN requestResults = {} /\ DOMAIN usage = {}
      /\ labelled = FALSE /\ enableTenantLabels = FALSE
      /\ received = [ev \in GatewayEvents |-> 0]
    BY DEF MetricsInit
<1>2. CountersTyped
    BY <1>1, FS_EmptySet DEF CountersTyped, AreCounters
<1>3. NoTenants
    BY <1>1 DEF NoTenants
<1>4. SumsAgree
    <2>1. ASSUME NEW w, \A e \in GatewayEvents : w[e] \in Nat
          PROVE  Weighted(w, received) = 0
        <3> DEFINE f == [e \in GatewayEvents |-> w[e] * received[e]]
        <3>1. \A e \in GatewayEvents : f[e] = 0
            BY <1>1, <2>1
        <3>2. IsFiniteSet(GatewayEvents)
            BY MetricsAssumption
        <3> HIDE DEF f
        <3>3. SumFunctionOnSet(f, GatewayEvents) = 0
            <4>1. \A e \in GatewayEvents : f[e] \in Int
                BY <3>1
            <4>2. SumFunctionOnSet(f, GatewayEvents) = SumFunctionOnSet(f, {})
                BY <3>1, <3>2, <4>1, SumZeros
            <4> QED
                BY <4>2, SumEmpty
        <3> QED
            BY ONLY <3>3 DEF Weighted, Total, f
    <2>2. ASSUME NEW ev \in GatewayEvents
          PROVE  /\ Weighted(TypeWeight(ev), received) = 0
                 /\ Weighted(ModelWeight(ev), received) = 0
        BY ONLY <2>1, WeightsAreNat, ev \in GatewayEvents
    <2>3. ASSUME NEW ev
          PROVE  /\ OfType(events, ev) = {} /\ OfStatus(requestResults, ev) = {}
                 /\ OfModel(usage, ev) = {}
        BY <1>1 DEF OfType, OfStatus, OfModel
    <2>4. ASSUME NEW ev
          PROVE  /\ Sum(events, OfType(events, ev)) = 0
                 /\ Sum(requestResults, OfStatus(requestResults, ev)) = 0
                 /\ Sum(usage, OfModel(usage, ev)) = 0
        <3>1. Sum(events, {}) = 0 /\ Sum(requestResults, {}) = 0 /\ Sum(usage, {}) = 0
            BY SumEmpty DEF Sum
        <3> QED
            BY ONLY <2>3, <3>1, Zenon
    <2> QED
        BY ONLY <2>2, <2>4 DEF SumsAgree
<1>5. ResultsMatchEvents
    BY <1>1 DEF ResultsMatchEvents, Count
<1> QED
    BY <1>2, <1>3, <1>4, <1>5 DEF MInv

LEMMA CountersUnchanged ==
    ASSUME MInv, UNCHANGED <<counters, history>>, enableTenantLabels' \in BOOLEAN
    PROVE  MInv'
<1>1. /\ events' = events /\ requestResults' = requestResults /\ usage' = usage
      /\ received' = received /\ labelled' = labelled
    BY DEF counters, history
<1>2. CountersTyped' /\ NoTenants'
    BY <1>1 DEF MInv, CountersTyped, NoTenants, AreCounters
<1>3. SumsAgree'
    BY <1>1 DEF MInv, SumsAgree, Sum, OfType, OfStatus, OfModel, Weighted, TypeWeight,
                ModelWeight, Total
<1>4. ResultsMatchEvents'
    BY <1>1 DEF MInv, ResultsMatchEvents, Count
<1> QED
    BY <1>2, <1>3, <1>4 DEF MInv

LEMMA MInvKept == MInv /\ [MetricsNext]_metricsVars => MInv'
<1> SUFFICES ASSUME MInv, [MetricsNext]_metricsVars
             PROVE  MInv'
    OBVIOUS
<1>0. enableTenantLabels \in BOOLEAN
    BY DEF MInv, CountersTyped
<1>1. ASSUME NEW c \in ConfigureCalls, ConfigureMetrics(c)
      PROVE  MInv'
    <2>1. /\ UNCHANGED <<counters, history>>
          /\ enableTenantLabels' = GivenSet(c.labels, enableTenantLabels)
        BY <1>1 DEF ConfigureMetrics, SettingsFrom
    <2>2. c.labels \in SUBSET BOOLEAN
        BY MetricsAssumption DEF MetricsConfig
    <2>3. GivenSet(c.labels, enableTenantLabels) \in BOOLEAN
        BY <1>0, <2>2 DEF GivenSet
    <2> QED
        BY <2>1, <2>3, CountersUnchanged
<1>2. ASSUME NEW s \in servers, Listen(s) \/ Stops(s)
      PROVE  MInv'
    BY <1>0, <1>2, CountersUnchanged DEF Listen, Stops, settings
<1>3. ASSUME NEW batch \in EmitCalls, Emit(batch)
      PROVE  MInv'
    BY <1>3, EmitTyped, EmitSums, EmitMatches DEF MInv
<1>4. CASE UNCHANGED metricsVars
    BY <1>0, <1>4, CountersUnchanged DEF metricsVars, settings
<1> QED
    BY <1>1, <1>2, <1>3, <1>4 DEF MetricsNext

LEMMA MInvHolds == MetricsSpec => []MInv
BY InitMInv, MInvKept, PTL DEF MetricsSpec

(* Nothing that was received is lost, and nothing counted twice, by type, by *)
(* status and by provider and model, however often the labels changed.       *)
THEOREM SumsAreExact == MetricsSpec => []NothingLost
BY SumsAreNothingLost, MInvHolds, PTL

(* A scrape shows as many requests with a result as events of their type.    *)
THEOREM ScrapeAgrees == MetricsSpec => []ResultsMatchEvents
<1>1. MInv => ResultsMatchEvents
    BY DEF MInv
<1> QED
    BY <1>1, MInvHolds, PTL

-----------------------------------------------------------------------------
(* What a scrape shows. *)

LEMMA InLabels ==
    ASSUME NEW name, NEW value, NEW key
    PROVE  /\ <<name, value>> \in EventLabels(key) <=>
                 \/ name = "event_type" /\ value = key.type
                 \/ enableTenantLabels /\ name = "tenant_id" /\ value = key.tenant
           /\ <<name, value>> \in ResultLabels(key) <=>
                 \/ name = "status" /\ value = key.status
                 \/ enableTenantLabels /\ name = "tenant_id" /\ value = key.tenant
           /\ <<name, value>> \in UsageLabels(key) <=>
                 \/ name = "provider" /\ value = key.provider
                 \/ name = "model" /\ value = key.model
                 \/ enableTenantLabels /\ name = "tenant_id" /\ value = key.tenant
                 \/ /\ name = "upstream_model" /\ value = key.upstream
                    /\ key.upstream # "" /\ key.upstream # key.model
<1>1. <<name, value>> \in TenantLabel(key.tenant) <=>
          enableTenantLabels /\ name = "tenant_id" /\ value = key.tenant
    BY DEF TenantLabel
<1> QED
    BY <1>1 DEF EventLabels, ResultLabels, UsageLabels

LEMMA NamesDiffer ==
    /\ "event_type" # "tenant_id" /\ "status" # "tenant_id" /\ "provider" # "tenant_id"
    /\ "model" # "tenant_id" /\ "upstream_model" # "tenant_id" /\ "provider" # "model"
    /\ "upstream_model" # "provider" /\ "upstream_model" # "model"
    /\ "events_total" # "requests_total" /\ "events_total" # "usage_total"
    /\ "requests_total" # "usage_total"
OBVIOUS

(* Keys of the same labels are one, if the tenant is a label or the same,    *)
(* except that two usages of a model may differ in what UsageLabels hides.   *)
LEMMA LabelsTell ==
    ASSUME NEW j, NEW k, enableTenantLabels \/ j.tenant = k.tenant
    PROVE  /\ IsEventKey(j) /\ IsEventKey(k) /\ EventLabels(j) = EventLabels(k) => j = k
           /\ IsResultKey(j) /\ IsResultKey(k) /\ ResultLabels(j) = ResultLabels(k) => j = k
           /\ IsUsageKey(j) /\ IsUsageKey(k) /\ UsageLabels(j) = UsageLabels(k)
                 => /\ j.model = k.model
                    /\ j = k \/ {j.upstream, k.upstream} = {"", j.model}
<1>1. ASSUME IsEventKey(j), IsEventKey(k), EventLabels(j) = EventLabels(k)
      PROVE  j = k
    <2>1. j.type = k.type
        <3>1. <<"event_type", j.type>> \in EventLabels(j)
            BY InLabels
        <3>2. <<"event_type", j.type>> \in EventLabels(k)
            BY <1>1, <3>1, Zenon
        <3>3. PICK value : value = j.type
            OBVIOUS
        <3>4. <<"event_type", value>> \in EventLabels(k)
            BY <3>2, <3>3, Zenon
        <3>5. value = k.type \/ "event_type" = "tenant_id"
            BY <3>4, InLabels, Zenon
        <3>6. value = k.type
            BY ONLY <3>5
        <3> QED
            BY <3>3, <3>6
    <2>2. j.tenant = k.tenant
        <3>1. enableTenantLabels => <<"tenant_id", j.tenant>> \in EventLabels(j)
            BY InLabels
        <3>2. enableTenantLabels => <<"tenant_id", j.tenant>> \in EventLabels(k)
            BY <1>1, <3>1, Zenon
        <3>3. PICK value : value = j.tenant
            OBVIOUS
        <3>4. enableTenantLabels => <<"tenant_id", value>> \in EventLabels(k)
            BY <3>2, <3>3, Zenon
        <3>5. ASSUME enableTenantLabels
              PROVE  value = k.tenant \/ "tenant_id" = "event_type"
            <4>1. <<"tenant_id", value>> \in EventLabels(k)
                BY <3>4, <3>5
            <4>2. \/ "tenant_id" = "event_type" /\ value = k.type
                  \/ enableTenantLabels /\ "tenant_id" = "tenant_id" /\ value = k.tenant
                BY ONLY <4>1, InLabels, Zenon
            <4> QED
                BY ONLY <4>2
        <3>6. enableTenantLabels => value = k.tenant
            BY ONLY <3>5
        <3> QED
            BY <3>3, <3>6
    <2> QED
        BY <1>1, <2>1, <2>2 DEF IsEventKey
<1>2. ASSUME IsResultKey(j), IsResultKey(k), ResultLabels(j) = ResultLabels(k)
      PROVE  j = k
    <2>1. j.status = k.status
        <3>1. <<"status", j.status>> \in ResultLabels(j)
            BY InLabels
        <3>2. <<"status", j.status>> \in ResultLabels(k)
            BY <1>2, <3>1, Zenon
        <3>3. PICK value : value = j.status
            OBVIOUS
        <3>4. <<"status", value>> \in ResultLabels(k)
            BY <3>2, <3>3, Zenon
        <3>5. value = k.status \/ "status" = "tenant_id"
            BY <3>4, InLabels, Zenon
        <3>6. value = k.status
            BY ONLY <3>5
        <3> QED
            BY <3>3, <3>6
    <2>2. j.tenant = k.tenant
        <3>1. enableTenantLabels => <<"tenant_id", j.tenant>> \in ResultLabels(j)
            BY InLabels
        <3>2. enableTenantLabels => <<"tenant_id", j.tenant>> \in ResultLabels(k)
            BY <1>2, <3>1, Zenon
        <3>3. PICK value : value = j.tenant
            OBVIOUS
        <3>4. enableTenantLabels => <<"tenant_id", value>> \in ResultLabels(k)
            BY <3>2, <3>3, Zenon
        <3>5. ASSUME enableTenantLabels
              PROVE  value = k.tenant \/ "tenant_id" = "status"
            <4>1. <<"tenant_id", value>> \in ResultLabels(k)
                BY <3>4, <3>5
            <4>2. \/ "tenant_id" = "status" /\ value = k.status
                  \/ enableTenantLabels /\ "tenant_id" = "tenant_id" /\ value = k.tenant
                BY ONLY <4>1, InLabels, Zenon
            <4> QED
                BY ONLY <4>2
        <3>6. enableTenantLabels => value = k.tenant
            BY ONLY <3>5
        <3> QED
            BY <3>3, <3>6
    <2> QED
        BY <1>2, <2>1, <2>2 DEF IsResultKey
<1>3. ASSUME IsUsageKey(j), IsUsageKey(k), UsageLabels(j) = UsageLabels(k)
      PROVE  j.model = k.model /\ (j = k \/ {j.upstream, k.upstream} = {"", j.model})
    <2>1. j.provider = k.provider
        <3>1. <<"provider", j.provider>> \in UsageLabels(j)
            BY InLabels
        <3>2. <<"provider", j.provider>> \in UsageLabels(k)
            BY <1>3, <3>1, Zenon
        <3>3. PICK value : value = j.provider
            OBVIOUS
        <3>4. <<"provider", value>> \in UsageLabels(k)
            BY <3>2, <3>3, Zenon
        <3>5. \/ value = k.provider
              \/ "provider" = "model" \/ "provider" = "tenant_id" \/ "provider" = "upstream_model"
            BY <3>4, InLabels, Zenon
        <3>6. value = k.provider
            BY ONLY <3>5
        <3> QED
            BY <3>3, <3>6
    <2>2. j.model = k.model
        <3>1. <<"model", j.model>> \in UsageLabels(j)
            BY InLabels
        <3>2. <<"model", j.model>> \in UsageLabels(k)
            BY <1>3, <3>1, Zenon
        <3>3. PICK value : value = j.model
            OBVIOUS
        <3>4. <<"model", value>> \in UsageLabels(k)
            BY <3>2, <3>3, Zenon
        <3>5. \/ value = k.model
              \/ "model" = "provider" \/ "model" = "tenant_id" \/ "model" = "upstream_model"
            BY <3>4, InLabels, Zenon
        <3>6. value = k.model
            BY ONLY <3>5
        <3> QED
            BY <3>3, <3>6
    <2>3. j.tenant = k.tenant
        <3>1. enableTenantLabels => <<"tenant_id", j.tenant>> \in UsageLabels(j)
            BY InLabels
        <3>2. enableTenantLabels => <<"tenant_id", j.tenant>> \in UsageLabels(k)
            BY <1>3, <3>1, Zenon
        <3>3. PICK value : value = j.tenant
            OBVIOUS
        <3>4. enableTenantLabels => <<"tenant_id", value>> \in UsageLabels(k)
            BY <3>2, <3>3, Zenon
        <3>5. ASSUME enableTenantLabels
              PROVE  value = k.tenant
                  \/ "tenant_id" = "provider" \/ "tenant_id" = "model"
                  \/ "tenant_id" = "upstream_model"
            <4>1. <<"tenant_id", value>> \in UsageLabels(k)
                BY <3>4, <3>5
            <4>2. \/ "tenant_id" = "provider" /\ value = k.provider
                  \/ "tenant_id" = "model" /\ value = k.model
                  \/ enableTenantLabels /\ "tenant_id" = "tenant_id" /\ value = k.tenant
                  \/ /\ "tenant_id" = "upstream_model" /\ value = k.upstream
                     /\ k.upstream # "" /\ k.upstream # k.model
                BY ONLY <4>1, InLabels, Zenon
            <4> QED
                BY ONLY <4>2
        <3>6. enableTenantLabels => value = k.tenant
            BY ONLY <3>5
        <3> QED
            BY <3>3, <3>6
    <2>4. ASSUME NEW x, NEW y, UsageLabels(x) = UsageLabels(y), x.model = y.model,
                 x.upstream # "", x.upstream # x.model
          PROVE  x.upstream = y.upstream
        <3>1. <<"upstream_model", x.upstream>> \in UsageLabels(x)
            BY ONLY <2>4, InLabels, Zenon
        <3>2. <<"upstream_model", x.upstream>> \in UsageLabels(y)
            BY <2>4, <3>1, Zenon
        <3>3. PICK value : value = x.upstream
            OBVIOUS
        <3>4. <<"upstream_model", value>> \in UsageLabels(y)
            BY <3>2, <3>3, Zenon
        <3>5. value = y.upstream
            BY ONLY <3>4, NamesDiffer, InLabels
        <3> QED
            BY <3>3, <3>5
    <2>5. j.upstream = k.upstream \/ {j.upstream, k.upstream} = {"", j.model}
        <3>1. j.upstream \notin {"", j.model} => j.upstream = k.upstream
            BY <1>3, <2>2, <2>4
        <3>2. k.upstream \notin {"", k.model} => j.upstream = k.upstream
            BY <1>3, <2>2, <2>4
        <3> QED
            BY <2>2, <3>1, <3>2
    <2> QED
        BY <1>3, <2>1, <2>2, <2>3, <2>5 DEF IsUsageKey
<1> QED
    BY <1>1, <1>2, <1>3

EventSample(k) == [name |-> <<namespace, "events_total">>, key |-> k,
                   labels |-> EventLabels(k), value |-> events[k]]
ResultSample(k) == [name |-> <<namespace, "requests_total">>, key |-> k,
                    labels |-> ResultLabels(k), value |-> requestResults[k]]
UsageSample(k) == [name |-> <<namespace, "usage_total">>, key |-> k,
                   labels |-> UsageLabels(k), value |-> usage[k]]

LEMMA InSamples ==
    /\ \A s \in CounterSamples : \/ \E k \in DOMAIN events : s = EventSample(k)
                                 \/ \E k \in DOMAIN requestResults : s = ResultSample(k)
                                 \/ \E k \in DOMAIN usage : s = UsageSample(k)
    /\ \A k \in DOMAIN events : EventSample(k) \in CounterSamples
    /\ \A k \in DOMAIN requestResults : ResultSample(k) \in CounterSamples
    /\ \A k \in DOMAIN usage : UsageSample(k) \in CounterSamples
BY DEF CounterSamples, Family, EventSample, ResultSample, UsageSample

(* Entries of the catalog with the same labels are the same entry.           *)
LEMMA InfoTold ==
    ASSUME NEW s \in InfoSamples, NEW t \in InfoSamples, s.labels = t.labels
    PROVE  modelCatalog[s.key.entry].model = modelCatalog[t.key.entry].model
           /\ modelCatalog[s.key.entry].provider = modelCatalog[t.key.entry].provider
<1>1. PICK i \in DOMAIN modelCatalog :
         /\ s.key.entry = i
         /\ s.labels = {<<"model", modelCatalog[i].model>>, <<"provider", modelCatalog[i].provider>>}
    BY DEF InfoSamples
<1>2. PICK j \in DOMAIN modelCatalog :
         /\ t.key.entry = j
         /\ t.labels = {<<"model", modelCatalog[j].model>>, <<"provider", modelCatalog[j].provider>>}
    BY DEF InfoSamples
<1>3. PICK a, b, c, d : /\ a = modelCatalog[i].model /\ b = modelCatalog[i].provider
                        /\ c = modelCatalog[j].model /\ d = modelCatalog[j].provider
    OBVIOUS
<1>4. {<<"model", a>>, <<"provider", b>>} = {<<"model", c>>, <<"provider", d>>}
    BY <1>1, <1>2, <1>3
<1>5. <<"model", a>> = <<"model", c>> \/ <<"model", a>> = <<"provider", d>>
    BY ONLY <1>4, Zenon
<1>6. <<"provider", b>> = <<"model", c>> \/ <<"provider", b>> = <<"provider", d>>
    BY ONLY <1>4, Zenon
<1>7. a = c /\ b = d
    BY ONLY <1>5, <1>6
<1> QED
    BY <1>1, <1>2, <1>3, <1>7

(* Why two samples share their labels. *)
Excuse(s, t) ==
    \/ /\ s.name[2] = "model_info"
       /\ modelCatalog[s.key.entry].model = modelCatalog[t.key.entry].model
       /\ modelCatalog[s.key.entry].provider = modelCatalog[t.key.entry].provider
    \/ /\ s.name[2] # "model_info" /\ s.key.tenant # t.key.tenant
       /\ labelled /\ ~enableTenantLabels
    \/ /\ s.name[2] = "usage_total" /\ s.key.model = t.key.model
       /\ {s.key.upstream, t.key.upstream} = {"", s.key.model}

(* Keys of a map, with labels that are the same. *)
LEMMA KeysExcused ==
    ASSUME NoTenants, NEW s, NEW t,
           s.key \in DOMAIN events \union DOMAIN requestResults \union DOMAIN usage,
           t.key \in DOMAIN events \union DOMAIN requestResults \union DOMAIN usage,
           s.name[2] # "model_info",
           enableTenantLabels \/ s.key.tenant = t.key.tenant => Excuse(s, t)
    PROVE  Excuse(s, t)
<1>1. CASE enableTenantLabels \/ s.key.tenant = t.key.tenant
    BY <1>1
<1>2. CASE ~enableTenantLabels /\ s.key.tenant # t.key.tenant
    <2>1. labelled
        BY <1>2 DEF NoTenants
    <2> QED
        BY <1>2, <2>1 DEF Excuse
<1> QED
    BY <1>1, <1>2

LEMMA MInvSeriesToldApart == MInv => SeriesToldApart
<1> SUFFICES ASSUME CountersTyped, NoTenants, NEW s \in Samples, NEW t \in Samples,
                    s.name = t.name, s.labels = t.labels, s # t
             PROVE  Excuse(s, t)
    BY DEF MInv, SeriesToldApart, Excuse
<1>1. /\ \A x \in InfoSamples : x.name[2] = "model_info"
      /\ \A x \in CounterSamples : x.name[2] \in {"events_total", "requests_total", "usage_total"}
    BY InSamples DEF InfoSamples, EventSample, ResultSample, UsageSample
<1>2. CASE s \in InfoSamples
    <2>1. s.name[2] = "model_info" /\ t \in InfoSamples
        BY <1>1, <1>2 DEF Samples
    <2> QED
        BY <1>2, <2>1, InfoTold DEF Excuse
<1>3. CASE s \in CounterSamples
    <2>1. t \in CounterSamples /\ s.name[2] # "model_info"
        BY <1>1, <1>3 DEF Samples
    <2>2. CASE \E j \in DOMAIN events : s = EventSample(j)
        <3>1. PICK j \in DOMAIN events : s = EventSample(j)
            BY <2>2
        <3>2. PICK k \in DOMAIN events : t = EventSample(k)
            BY <2>1, <3>1, InSamples, NamesDiffer DEF EventSample, ResultSample, UsageSample
        <3>3. EventLabels(j) = EventLabels(k) /\ s.key = j /\ t.key = k /\ j # k
            BY <3>1, <3>2 DEF EventSample
        <3>4. IsEventKey(j) /\ IsEventKey(k)
            BY DEF CountersTyped
        <3>5. ~(enableTenantLabels \/ j.tenant = k.tenant)
            BY <3>3, <3>4, LabelsTell
        <3> QED
            BY <2>1, <3>3, <3>5, KeysExcused
    <2>3. CASE \E j \in DOMAIN requestResults : s = ResultSample(j)
        <3>1. PICK j \in DOMAIN requestResults : s = ResultSample(j)
            BY <2>3
        <3>2. PICK k \in DOMAIN requestResults : t = ResultSample(k)
            BY <2>1, <3>1, InSamples, NamesDiffer DEF EventSample, ResultSample, UsageSample
        <3>3. ResultLabels(j) = ResultLabels(k) /\ s.key = j /\ t.key = k /\ j # k
            BY <3>1, <3>2 DEF ResultSample
        <3>4. IsResultKey(j) /\ IsResultKey(k)
            BY DEF CountersTyped
        <3>5. ~(enableTenantLabels \/ j.tenant = k.tenant)
            BY <3>3, <3>4, LabelsTell
        <3> QED
            BY <2>1, <3>3, <3>5, KeysExcused
    <2>4. CASE \E j \in DOMAIN usage : s = UsageSample(j)
        <3>1. PICK j \in DOMAIN usage : s = UsageSample(j)
            BY <2>4
        <3>2. PICK k \in DOMAIN usage : t = UsageSample(k)
            BY <2>1, <3>1, InSamples, NamesDiffer DEF EventSample, ResultSample, UsageSample
        <3>3. /\ UsageLabels(j) = UsageLabels(k) /\ s.key = j /\ t.key = k /\ j # k
              /\ s.name[2] = "usage_total"
            BY <3>1, <3>2 DEF UsageSample
        <3>4. IsUsageKey(j) /\ IsUsageKey(k)
            BY DEF CountersTyped
        <3>5. ASSUME enableTenantLabels \/ j.tenant = k.tenant
              PROVE  j.model = k.model /\ {j.upstream, k.upstream} = {"", j.model}
            BY <3>3, <3>4, <3>5, LabelsTell
        <3>6. enableTenantLabels \/ s.key.tenant = t.key.tenant => Excuse(s, t)
            BY <3>3, <3>5 DEF Excuse
        <3> QED
            BY <2>1, <3>3, <3>6, KeysExcused
    <2> QED
        BY <1>3, <2>2, <2>3, <2>4, InSamples
<1> QED
    BY <1>2, <1>3 DEF Samples

(* Two samples share their labels only for one of the three reasons.         *)
THEOREM SeriesAreToldApart == MetricsSpec => []SeriesToldApart
BY MInvSeriesToldApart, MInvHolds, PTL

CountersGrow ==
    /\ \A k \in DOMAIN events : k \in DOMAIN events' /\ events'[k] >= events[k]
    /\ \A k \in DOMAIN requestResults :
          k \in DOMAIN requestResults' /\ requestResults'[k] >= requestResults[k]
    /\ \A k \in DOMAIN usage : k \in DOMAIN usage' /\ usage'[k] >= usage[k]

LEMMA StepsGrow == MInv /\ [MetricsNext]_metricsVars => CountersGrow
<1> SUFFICES ASSUME MInv, [MetricsNext]_metricsVars
             PROVE  CountersGrow
    OBVIOUS
<1>1. CountersTyped
    BY DEF MInv
<1>2. CASE UNCHANGED counters
    BY <1>1, <1>2 DEF counters, CountersTyped, AreCounters, CountersGrow
<1>3. ASSUME NEW batch \in EmitCalls, Emit(batch)
      PROVE  CountersGrow
    BY <1>1, <1>3, ChargesTyped, AddedCounters DEF Emit, CountersTyped, CountersGrow
<1> QED
    BY <1>2, <1>3 DEF MetricsNext, ConfigureMetrics, Listen, Stops, metricsVars

LEMMA SamplesGrow ==
    ASSUME CountersGrow, namespace' = namespace, enableTenantLabels' = enableTenantLabels,
           NEW s \in CounterSamples
    PROVE  \E t \in CounterSamples' : t.name = s.name /\ t.labels = s.labels /\ t.value >= s.value
<1>1. ASSUME NEW key
      PROVE  /\ EventLabels(key)' = EventLabels(key)
             /\ ResultLabels(key)' = ResultLabels(key)
             /\ UsageLabels(key)' = UsageLabels(key)
    BY DEF EventLabels, ResultLabels, UsageLabels, TenantLabel
<1>2. /\ \A k \in DOMAIN events' : EventSample(k)' \in CounterSamples'
      /\ \A k \in DOMAIN requestResults' : ResultSample(k)' \in CounterSamples'
      /\ \A k \in DOMAIN usage' : UsageSample(k)' \in CounterSamples'
    BY DEF CounterSamples, Family, EventSample, ResultSample, UsageSample
<1>3. CASE \E k \in DOMAIN events : s = EventSample(k)
    <2>1. PICK k \in DOMAIN events : s = EventSample(k)
        BY <1>3
    <2>2. EventSample(k)' \in CounterSamples'
        BY <1>2 DEF CountersGrow
    <2> QED
        BY <1>1, <2>1, <2>2 DEF EventSample, CountersGrow
<1>4. CASE \E k \in DOMAIN requestResults : s = ResultSample(k)
    <2>1. PICK k \in DOMAIN requestResults : s = ResultSample(k)
        BY <1>4
    <2>2. ResultSample(k)' \in CounterSamples'
        BY <1>2 DEF CountersGrow
    <2> QED
        BY <1>1, <2>1, <2>2 DEF ResultSample, CountersGrow
<1>5. CASE \E k \in DOMAIN usage : s = UsageSample(k)
    <2>1. PICK k \in DOMAIN usage : s = UsageSample(k)
        BY <1>5
    <2>2. UsageSample(k)' \in CounterSamples'
        BY <1>2 DEF CountersGrow
    <2> QED
        BY <1>1, <2>1, <2>2 DEF UsageSample, CountersGrow
<1> QED
    BY <1>3, <1>4, <1>5, InSamples

(* A counter neither falls nor goes away while its name and the tenant       *)
(* labels are the same, whatever else is reconfigured.                       *)
THEOREM CountersDoNotFall == MetricsSpec => CountersNeverFall
<1>1. MInv /\ [MetricsNext]_metricsVars =>
          [namespace' = namespace /\ enableTenantLabels' = enableTenantLabels =>
              \A s \in CounterSamples : \E t \in CounterSamples' :
                  t.name = s.name /\ t.labels = s.labels /\ t.value >= s.value]_metricsVars
    BY StepsGrow, SamplesGrow
<1> QED
    BY <1>1, MInvHolds, PTL DEF MetricsSpec, CountersNeverFall

-----------------------------------------------------------------------------
(* The types.  A counter that is there has counted something, because a      *)
(* batch charges no key without an amount.                                   *)

Positive(map) == \A k \in DOMAIN map : map[k] > 0

LEMMA AddedPositive ==
    ASSUME NEW map, AreCounters(map), Positive(map), NEW charges, AreCharges(charges),
           \A i \in DOMAIN charges : charges[i].amount > 0
    PROVE  Positive(Added(map, charges))
<1> DEFINE new == Added(map, charges)
<1>1. DOMAIN new = DOMAIN map \union KeysOf(charges)
    BY DEF Added
<1>2. ASSUME NEW k \in DOMAIN map
      PROVE  new[k] > 0
    <2>1. map[k] \in Nat /\ map[k] > 0
        BY DEF AreCounters, Positive
    <2>2. new[k] = map[k] + Adds(charges, k)
        BY DEF Added, Count
    <2>3. Adds(charges, k) \in Nat
        BY ChargesAdd
    <2> HIDE DEF new
    <2> QED
        BY <2>1, <2>2, <2>3
<1>3. ASSUME NEW k \in KeysOf(charges), k \notin DOMAIN map
      PROVE  new[k] > 0
    <2> DEFINE S == At(charges, k)
               f == Amounts(charges)
    <2>1. new[k] = 0 + Adds(charges, k)
        BY <1>3 DEF Added, Count
    <2>2. PICK i \in DOMAIN charges : charges[i].key = k
        BY DEF KeysOf
    <2>3. i \in S /\ f[i] \in Nat /\ f[i] > 0
        BY <2>2 DEF At, Amounts, AreCharges
    <2>4. IsFiniteSet(S) /\ IsFiniteSet(S \ {i})
        BY FS_Subset DEF At, AreCharges
    <2>5. \A j \in S : f[j] \in Nat
        BY DEF At, Amounts, AreCharges
    <2>6. Adds(charges, k) = SumFunctionOnSet(f, S)
        BY ChargesAdd
    <2> HIDE DEF S, f, new
    <2>7. SumFunctionOnSet(f, S) = f[i] + SumFunctionOnSet(f, S \ {i})
        BY <2>3, <2>4, <2>5, SumRemove
    <2>8. SumFunctionOnSet(f, S \ {i}) \in Nat
        BY <2>4, <2>5, SumIsNat
    <2> QED
        BY <2>1, <2>3, <2>6, <2>7, <2>8
<1> HIDE DEF new
<1>4. \A k \in DOMAIN new : new[k] > 0
    BY <1>1, <1>2, <1>3
<1> QED
    BY <1>4 DEF new, Positive

LEMMA ReceivedBounded ==
    ASSUME CountersTyped, NEW batch \in EmitCalls, Emit(batch)
    PROVE  received' \in [GatewayEvents -> 0..MaxEvents]
<1>1. /\ Total(received) + Len(batch) <= MaxEvents
      /\ received' = [ev \in GatewayEvents |-> received[ev] + Times(batch, ev)]
    BY DEF Emit, Times
<1>2. received \in [GatewayEvents -> Nat] /\ IsFiniteSet(GatewayEvents) /\ MaxEvents \in Nat
    BY MetricsAssumption DEF CountersTyped
<1>3. batch \in Seq(GatewayEvents) /\ Len(batch) \in Nat
    BY BatchEvents
<1>4. Total(received) \in Nat
    BY <1>2, SumIsNat DEF Total
<1>5. ASSUME NEW ev \in GatewayEvents
      PROVE  received[ev] + Times(batch, ev) \in 0..MaxEvents
    <2>1. Times(batch, ev) \in Nat /\ Times(batch, ev) <= Len(batch)
        <3> DEFINE S == {i \in DOMAIN batch : batch[i] = ev}
        <3>1. DOMAIN batch = 1..Len(batch) /\ IsFiniteSet(1..Len(batch))
              /\ Cardinality(1..Len(batch)) = Len(batch)
            <4>1. DOMAIN batch = 1..Len(batch)
                BY ONLY <1>3
            <4>2. /\ IsFiniteSet(1..Len(batch))
                  /\ Cardinality(1..Len(batch)) = IF 1 > Len(batch) THEN 0 ELSE Len(batch) - 1 + 1
                BY ONLY <1>3, FS_Interval
            <4> QED
                BY ONLY <1>3, <4>1, <4>2
        <3>2. S \in SUBSET (1..Len(batch))
            BY <3>1
        <3> HIDE DEF S
        <3>3. Cardinality(S) <= Len(batch)
            <4>1. Cardinality(S) <= Cardinality(1..Len(batch))
                BY <3>1, <3>2, FS_Subset
            <4> QED
                BY ONLY <3>1, <4>1
        <3> QED
            BY <1>3, <3>3, TimesIsNat DEF Times, S
    <2>2. Total(received) = received[ev] + SumFunctionOnSet(received, GatewayEvents \ {ev})
        BY <1>2, SumRemove DEF Total
    <2>3. SumFunctionOnSet(received, GatewayEvents \ {ev}) \in Nat
        BY <1>2, FS_Subset, SumIsNat
    <2>4. received[ev] \in Nat
        BY <1>2
    <2> QED
        BY <1>1, <1>2, <1>3, <1>4, <2>1, <2>2, <2>3, <2>4
<1> QED
    BY <1>1, <1>5

LEMMA CatalogNamed ==
    ASSUME NEW c \in ConfigureCalls, c.catalog # {}
    PROVE  LET catalog == parseModelCatalog(GivenSet(c.catalog, <<>>))
           IN  \A i \in DOMAIN catalog : catalog[i].model # ""
<1> DEFINE Entry == [model : STRING, provider : STRING]
           entries == GivenSet(c.catalog, <<>>)
           named == {i \in DOMAIN entries : entries[i].model # ""}
<1>1. entries \in Seq(Entry)
    <2>1. entries \in c.catalog
        BY DEF GivenSet
    <2>2. c.catalog \in SUBSET Seq(Entry)
        BY MetricsAssumption DEF MetricsConfig
    <2> QED
        BY <2>1, <2>2
<1>2. \A n \in {m \in 1..Len(entries) : m \in named} : entries[n].model # ""
    OBVIOUS
<1> HIDE DEF Entry, entries, named
<1>3. Kept(entries, named) \in Seq(Entry)
    BY <1>1, KeptIsSeq
<1>4. {Kept(entries, named)[i] : i \in 1..Len(Kept(entries, named))}
        = {entries[n] : n \in {m \in 1..Len(entries) : m \in named}}
    BY <1>1, KeptMembers
<1>5. \A i \in 1..Len(Kept(entries, named)) : Kept(entries, named)[i].model # ""
    BY <1>2, <1>4
<1>6. DOMAIN Kept(entries, named) = 1..Len(Kept(entries, named))
    BY <1>3
<1>7. parseModelCatalog(entries) = Kept(entries, named)
    BY DEF parseModelCatalog, named
<1> QED
    BY <1>5, <1>6, <1>7 DEF entries

LEMMA ConfigureTyped ==
    ASSUME MInv, MetricsTypeOK, NEW c \in ConfigureCalls, ConfigureMetrics(c)
    PROVE  MetricsTypeOK'
<1>1. /\ UNCHANGED <<events, requestResults, usage, received, labelled>>
      /\ reconfigurations < MaxReconfigurations /\ reconfigurations' = reconfigurations + 1
      /\ address' = GivenString(c.address, address)
      /\ namespace' = IF c.namespace = "" THEN namespace ELSE Sanitized[c.namespace]
      /\ enableTenantLabels' = GivenSet(c.labels, enableTenantLabels)
      /\ modelCatalog' = IF c.catalog = {} THEN modelCatalog
                         ELSE parseModelCatalog(GivenSet(c.catalog, <<>>))
      /\ serverStarted' = TRUE
      /\ servers' = servers \/ servers' = servers \union {Goroutine}
    BY DEF ConfigureMetrics, SettingsFrom, counters, history
<1>2. c \in MetricsConfig /\ c.namespace \in DOMAIN Sanitized \union {""}
      /\ MaxReconfigurations \in Nat
    BY MetricsAssumption
<1>3. address' \in {x.address : x \in ConfigureCalls} \union {DefaultAddress}
    BY <1>1 DEF MetricsTypeOK, GivenString
<1>4. namespace' \in {Sanitized[n] : n \in DOMAIN Sanitized} \union {DefaultNamespace}
    BY <1>1, <1>2 DEF MetricsTypeOK
<1>5. enableTenantLabels' \in BOOLEAN
    <2>1. c.labels \in SUBSET BOOLEAN
        BY <1>2 DEF MetricsConfig
    <2> QED
        BY <1>1, <2>1 DEF GivenSet, MetricsTypeOK
<1>6. \A i \in DOMAIN modelCatalog' : modelCatalog'[i].model # ""
    <2>1. CASE c.catalog = {}
        BY <1>1, <2>1 DEF MetricsTypeOK
    <2>2. CASE c.catalog # {}
        BY <1>1, <2>2, CatalogNamed
    <2> QED
        BY <2>1, <2>2
<1>7. reconfigurations' \in 0..MaxReconfigurations
    <2>1. reconfigurations \in 0..MaxReconfigurations
        BY DEF MetricsTypeOK
    <2>2. /\ reconfigurations < MaxReconfigurations /\ MaxReconfigurations \in Nat
          /\ reconfigurations' = reconfigurations + 1
        BY <1>1, <1>2
    <2> QED
        BY ONLY <2>1, <2>2
<1>8. \A s \in servers' : s.state \in {"starting", "listening", "stopped"}
    <2>1. \A s \in servers : s.state \in {"starting", "listening", "stopped"}
        BY DEF MetricsTypeOK
    <2>2. Goroutine.state = "starting"
        BY DEF Goroutine
    <2> QED
        BY ONLY <1>1, <2>1, <2>2
<1> QED
    BY <1>1, <1>3, <1>4, <1>5, <1>6, <1>7, <1>8 DEF MetricsTypeOK

LEMMA ServerTyped ==
    ASSUME MetricsTypeOK, NEW s \in servers, Listen(s) \/ Stops(s)
    PROVE  MetricsTypeOK'
<1>1. UNCHANGED <<settings, serverStarted, counters, reconfigurations, history>>
    BY DEF Listen, Stops
<1>2. PICK state \in {"listening", "stopped"} :
          servers' = (servers \ {s}) \union {[s EXCEPT !.state = state]}
    BY DEF Listen, Stops, Becomes
<1>3. s.state \in {"starting", "listening", "stopped"}
    BY DEF MetricsTypeOK
<1>4. [s EXCEPT !.state = state].state \in {"starting", "listening", "stopped"}
    BY <1>2, <1>3
<1>5. \A t \in servers' : t.state \in {"starting", "listening", "stopped"}
    BY <1>2, <1>4 DEF MetricsTypeOK
<1> QED
    BY <1>1, <1>5 DEF MetricsTypeOK, settings, counters, history

LEMMA EmitKeepsTypes ==
    ASSUME MInv, MInv', MetricsTypeOK, NEW batch \in EmitCalls, Emit(batch)
    PROVE  MetricsTypeOK'
<1>1. /\ events' = Added(events, EventCharges(batch))
      /\ requestResults' = Added(requestResults, ResultCharges(batch))
      /\ usage' = Added(usage, UsageCharges(batch))
      /\ UNCHANGED <<settings, serverStarted, servers, reconfigurations>>
    BY DEF Emit
<1>2. CountersTyped /\ NoTenants'
    BY DEF MInv
<1>3. \A i \in DOMAIN batch : batch[i] \in GatewayEvents /\ batch[i].tokens \in Nat
    BY BatchEvents, EventTypes
<1>4. /\ \A i \in DOMAIN EventCharges(batch) : EventCharges(batch)[i].amount > 0
      /\ \A i \in DOMAIN ResultCharges(batch) : ResultCharges(batch)[i].amount > 0
    BY DEF EventCharges, ResultCharges
<1>5. \A i \in DOMAIN UsageCharges(batch) : UsageCharges(batch)[i].amount > 0
    BY <1>3 DEF UsageCharges
<1>6. Positive(events) /\ Positive(requestResults) /\ Positive(usage)
    BY DEF MetricsTypeOK, Positive
<1>7. Positive(events') /\ Positive(requestResults') /\ Positive(usage')
    BY <1>1, <1>2, <1>4, <1>5, <1>6, ChargesTyped, AddedPositive DEF CountersTyped
<1>8. received' \in [GatewayEvents -> 0..MaxEvents]
    BY <1>2, ReceivedBounded
<1>9. UNCHANGED <<address, namespace, enableTenantLabels, modelCatalog,
                  serverStarted, servers, reconfigurations>>
    BY <1>1 DEF settings
<1> QED
    BY <1>2, <1>7, <1>8, <1>9 DEF MetricsTypeOK, Positive, NoTenants

(* The types, and that no counter is shown that has counted nothing.         *)
THEOREM MetricsTyped == MetricsSpec => []MetricsTypeOK
<1>1. MetricsInit => MetricsTypeOK
    <2> SUFFICES ASSUME MetricsInit PROVE MetricsTypeOK
        OBVIOUS
    <2>1. MaxEvents \in Nat /\ MaxReconfigurations \in Nat
        BY MetricsAssumption
    <2>2. DOMAIN events = {} /\ DOMAIN requestResults = {} /\ DOMAIN usage = {}
          /\ DOMAIN modelCatalog = {}
        BY DEF MetricsInit
    <2>3. reconfigurations = 0 /\ servers = {} /\ enableTenantLabels = FALSE
          /\ serverStarted = FALSE /\ received = [ev \in GatewayEvents |-> 0]
          /\ address = DefaultAddress /\ namespace = DefaultNamespace
        BY DEF MetricsInit
    <2>4. /\ reconfigurations \in 0..MaxReconfigurations
          /\ received \in [GatewayEvents -> 0..MaxEvents]
        BY ONLY <2>1, <2>3
    <2> QED
        BY ONLY <2>2, <2>3, <2>4 DEF MetricsTypeOK
<1>2. MInv /\ MInv' /\ MetricsTypeOK /\ [MetricsNext]_metricsVars => MetricsTypeOK'
    <2> SUFFICES ASSUME MInv, MInv', MetricsTypeOK, [MetricsNext]_metricsVars
                 PROVE  MetricsTypeOK'
        OBVIOUS
    <2>1. CASE UNCHANGED metricsVars
        BY <2>1 DEF metricsVars, settings, counters, history, MetricsTypeOK
    <2> QED
        BY <2>1, ConfigureTyped, ServerTyped, EmitKeepsTypes DEF MetricsNext
<1> QED
    BY <1>1, <1>2, MInvHolds, PTL DEF MetricsSpec

-----------------------------------------------------------------------------
(* The inductive invariant of S3Transcripts. *)

Working(i) == emits[i].pc \in {"put", "index"}

(* Where an Emit writes, and what. *)
Here(i) == Where(i, emits[i].key)
Mine(i) == Transcript(i, Event(i), emits[i].key)

(* An Emit at an event has the key of this event. *)
KeysOfEvents ==
    \A i \in Emits : Working(i) =>
        /\ Event(i).request \in Requests
        /\ emits[i].key.request = SafePart[Event(i).request]
        /\ emits[i].key.type = Event(i).type

ObjectsMatchKeys ==
    \A o \in objects :
        /\ o.event.request \in Requests
        /\ o.where.key.request = SafePart[o.event.request]
        /\ o.where.key.type = o.event.type

RowsMatchKeys ==
    \A r \in rows :
        /\ r.id.request \in Requests
        /\ r.key.request = SafePart[r.id.request]
        /\ r.key.type = r.id.type

(* There is an object before there is a row. *)
PutBeforeIndex ==
    /\ \A i \in Emits : emits[i].pc = "index" => \E o \in objects : o.where = Here(i)
    /\ \A r \in rows : \E o \in objects : o.where.bucket = r.bucket /\ o.where.key = r.key

(* What an Emit works with is what Configure was asked for, and it does not  *)
(* work on an event that it must not store.                                  *)
BypassKnown ==
    /\ options = asked
    /\ \A i \in Emits :
          /\ emits[i].options = emits[i].asked
          /\ Working(i) => Event(i).tenant \notin emits[i].asked.bypass
    /\ \A o \in objects : o.by \in Emits /\ emits[o.by].pc # "idle"
    /\ \A r \in rows : r.by \in Emits /\ emits[r.by].pc # "idle"

IInv == /\ TypeOK
        /\ KeysOfEvents /\ ObjectsMatchKeys /\ RowsMatchKeys
        /\ PutBeforeIndex
        /\ BypassKnown /\ BypassHonoured

-----------------------------------------------------------------------------
(* Lemmas. *)

(* The place of an Emit in its batch is an event. *)
LEMMA EventInBatch ==
    ASSUME TypeOK, NEW i \in Emits, emits[i].at \in DOMAIN emits[i].batch
    PROVE  Event(i) \in Events
<1>1. emits[i].batch \in Batches \union {<<>>}
  BY DEF TypeOK, EmitStates
<1>2. emits[i].batch \in Seq(Events)
  BY <1>1, TranscriptsAssumption
<1> QED
  BY <1>2 DEF Event

(* What stands for no key is typed as one. *)
LEMMA NoKeyIsKey == NoKey \in Keys
<1>1. Unconfigured \in Settings /\ Unconfigured.prefix = ""
  BY DEF Settings, Unconfigured
<1>2. "" \in {c.prefix : c \in Settings}
  BY <1>1
<1> QED
  BY <1>2 DEF NoKey, Keys

(* In the beginning nothing is stored. *)
LEMMA InitIInv == Init => IInv
<1> SUFFICES ASSUME Init PROVE IInv
  OBVIOUS
<1>1. Unconfigured \in Settings /\ None \in Clients /\ None \in Pools
  BY DEF Settings, Clients, Pools
<1>2. NoKey \in Keys
  BY NoKeyIsKey
<1>3. NewEmit \in EmitStates
  BY <1>1, <1>2 DEF NewEmit, EmitStates
<1>4. \A i \in Emits : emits[i] = NewEmit
  BY DEF Init
<1>5. TypeOK
  BY <1>1, <1>3, <1>4, TranscriptsAssumption DEF Init, TypeOK, NewEmit
<1>6. /\ KeysOfEvents /\ ObjectsMatchKeys /\ RowsMatchKeys
      /\ PutBeforeIndex /\ BypassKnown /\ BypassHonoured
  BY <1>4 DEF Init, NewEmit, KeysOfEvents, ObjectsMatchKeys, RowsMatchKeys, PutBeforeIndex,
              BypassKnown, BypassHonoured, Working
<1> QED
  BY <1>5, <1>6 DEF IInv

(* What Configure assigns are settings, and it touches no Emit. *)
LEMMA ConfigureStep ==
    ASSUME IInv, NEW c \in Configs, Configure(c)
    PROVE  IInv'
<1>1. /\ configures' \in 0..MaxConfigures
      /\ options' = c /\ asked' = c /\ c \in Settings
      /\ UNCHANGED <<emits, objects, rows>>
  BY TranscriptsAssumption
     DEF Configure, Rejected, WithoutPool, WithPool, Assign, IInv, TypeOK, Settings
<1>2. client' \in Clients /\ pg' \in Pools /\ (client' = None => pg' = None)
  BY TranscriptsAssumption
     DEF Configure, Rejected, WithoutPool, WithPool, Assign, IInv, TypeOK, Clients, Pools
<1>3. TypeOK'
  BY <1>1, <1>2 DEF IInv, TypeOK
<1>4. (KeysOfEvents /\ ObjectsMatchKeys /\ RowsMatchKeys)'
  BY <1>1 DEF IInv, KeysOfEvents, ObjectsMatchKeys, RowsMatchKeys, Working, Event
<1>5. (PutBeforeIndex /\ BypassKnown /\ BypassHonoured)'
  BY <1>1 DEF IInv, PutBeforeIndex, BypassKnown, BypassHonoured, Working, Event, Here, Where
<1> QED
  BY <1>3, <1>4, <1>5 DEF IInv

(* An Emit begins with copies of the settings. *)
LEMMA BeginStep ==
    ASSUME IInv, NEW i \in Emits, NEW batch \in Batches, Begin(i, batch)
    PROVE  IInv'
<1>1. PICK s \in EmitStates :
         /\ s.pc \in {"ok", "event"} /\ s.options = options /\ s.asked = asked
         /\ emits' = [emits EXCEPT ![i] = s]
  <2> DEFINE s == [pc |-> IF client = None THEN "ok" ELSE "event", options |-> options,
                   client |-> client, pg |-> pg, batch |-> batch, at |-> 1, key |-> NoKey,
                   asked |-> asked]
  <2>1. NoKey \in Keys
    BY NoKeyIsKey
  <2>2. s \in EmitStates
    BY <2>1 DEF EmitStates, IInv, TypeOK
  <2>3. emits' = [emits EXCEPT ![i] = s]
    BY DEF Begin
  <2> QED
    BY <2>2, <2>3
<1>2. emits[i].pc = "idle" /\ UNCHANGED <<options, client, pg, configures, asked, objects, rows>>
  BY DEF Begin
<1>3. emits'[i] = s /\ \A j \in Emits : j # i => emits'[j] = emits[j]
  BY <1>1 DEF IInv, TypeOK
<1>4. TypeOK'
  BY <1>1, <1>2, <1>3 DEF IInv, TypeOK
<1>5. (KeysOfEvents /\ ObjectsMatchKeys /\ RowsMatchKeys)'
  BY <1>1, <1>2, <1>3 DEF IInv, KeysOfEvents, ObjectsMatchKeys, RowsMatchKeys, Working, Event
<1>6. PutBeforeIndex'
  BY <1>1, <1>2, <1>3 DEF IInv, PutBeforeIndex, Here, Where
<1>7. (BypassKnown /\ BypassHonoured)'
  BY <1>1, <1>2, <1>3 DEF IInv, BypassKnown, BypassHonoured, Working, Event
<1> QED
  BY <1>4, <1>5, <1>6, <1>7 DEF IInv

(* Writing an object loses none, and the new one matches its key. *)
LEMMA WrittenFacts ==
    ASSUME IInv, NEW i \in Emits, Working(i)
    PROVE  /\ \A o \in Written(i) :
                 /\ o.event.request \in Requests
                 /\ o.where.key.request = SafePart[o.event.request]
                 /\ o.where.key.type = o.event.type
                 /\ o \in objects \/ (o.by = i /\ o.event.tenant \notin emits[i].asked.bypass)
           /\ \A o \in objects : \E q \in Written(i) : q.where = o.where
           /\ \E o \in Written(i) : o.where = Here(i)
<1> DEFINE new == Mine(i)
<1>1. /\ new.where = Here(i) /\ new.event = Event(i) /\ new.by = i
      /\ new.where.key = emits[i].key
  BY DEF Mine, Transcript, Here, Where
<1>2. /\ Event(i).request \in Requests
      /\ emits[i].key.request = SafePart[Event(i).request]
      /\ emits[i].key.type = Event(i).type
      /\ Event(i).tenant \notin emits[i].asked.bypass
  BY DEF IInv, KeysOfEvents, BypassKnown
<1>3. Written(i) = {o \in objects : o.where # Here(i)} \union {new}
  BY DEF Written, Mine, Here
<1> HIDE DEF new
<1>4. ASSUME NEW o \in Written(i)
      PROVE  /\ o.event.request \in Requests
             /\ o.where.key.request = SafePart[o.event.request]
             /\ o.where.key.type = o.event.type
             /\ o \in objects \/ (o.by = i /\ o.event.tenant \notin emits[i].asked.bypass)
  <2>1. CASE o = new
    BY <1>1, <1>2, <2>1
  <2>2. CASE o \in objects
    BY <2>2 DEF IInv, ObjectsMatchKeys
  <2> QED
    BY <1>3, <2>1, <2>2
<1>5. ASSUME NEW o \in objects
      PROVE  \E q \in Written(i) : q.where = o.where
  <2>1. CASE o.where = Here(i)
    BY <1>1, <1>3, <2>1
  <2>2. CASE o.where # Here(i)
    BY <1>3, <2>2
  <2> QED
    BY <2>1, <2>2
<1>6. \E o \in Written(i) : o.where = Here(i)
  BY <1>1, <1>3
<1> QED
  BY <1>4, <1>5, <1>6

(* The row that is written has its object already. *)
LEMMA UpsertedFacts ==
    ASSUME IInv, NEW i \in Emits, emits[i].pc = "index"
    PROVE  \A r \in Upserted(i) :
              /\ r.id.request \in Requests
              /\ r.key.request = SafePart[r.id.request]
              /\ r.key.type = r.id.type
              /\ r \in rows \/ (r.by = i /\ r.tenant \notin emits[i].asked.bypass)
              /\ \E o \in objects : o.where.bucket = r.bucket /\ o.where.key = r.key
<1> DEFINE new == [id |-> RowId(i, Event(i)), bucket |-> emits[i].options.bucket,
                   key |-> emits[i].key, tenant |-> Event(i).tenant, by |-> i]
<1>1. /\ new.id.request = Event(i).request /\ new.id.type = Event(i).type
      /\ new.bucket = emits[i].options.bucket /\ new.key = emits[i].key
      /\ new.tenant = Event(i).tenant /\ new.by = i
  BY DEF RowId
<1>2. /\ Event(i).request \in Requests
      /\ emits[i].key.request = SafePart[Event(i).request]
      /\ emits[i].key.type = Event(i).type
      /\ Event(i).tenant \notin emits[i].asked.bypass
  BY DEF IInv, KeysOfEvents, BypassKnown, Working
<1>3. \E o \in objects : /\ o.where.bucket = emits[i].options.bucket
                         /\ o.where.key = emits[i].key
  <2>1. PICK o \in objects : o.where = Here(i)
    BY DEF IInv, PutBeforeIndex
  <2> QED
    BY <2>1 DEF Here, Where
<1>4. Upserted(i) = {r \in rows : r.id # RowId(i, Event(i))} \union {new}
  BY DEF Upserted
<1> HIDE DEF new
<1> SUFFICES ASSUME NEW r \in Upserted(i)
             PROVE  /\ r.id.request \in Requests
                    /\ r.key.request = SafePart[r.id.request]
                    /\ r.key.type = r.id.type
                    /\ r \in rows \/ (r.by = i /\ r.tenant \notin emits[i].asked.bypass)
                    /\ \E o \in objects : /\ o.where.bucket = r.bucket
                                          /\ o.where.key = r.key
  OBVIOUS
<1>5. CASE r = new
  BY <1>1, <1>2, <1>3, <1>5
<1>6. CASE r \in rows
  BY <1>6 DEF IInv, RowsMatchKeys, PutBeforeIndex
<1> QED
  BY <1>4, <1>5, <1>6

(* A step of an Emit preserves the invariant if it changes no more than its  *)
(* place and key, prepares what it is going to write, and loses no object.   *)
LEMMA EmitStep ==
    ASSUME IInv, NEW i \in Emits, NEW s \in EmitStates, emits' = [emits EXCEPT ![i] = s],
           emits[i].pc # "idle", s.pc # "idle",
           s.options = emits[i].options, s.client = emits[i].client, s.pg = emits[i].pg,
           s.batch = emits[i].batch, s.asked = emits[i].asked,
           s.pc \in {"put", "index"} =>
              /\ s.at \in DOMAIN s.batch
              /\ s.batch[s.at].request \in Requests
              /\ s.key.request = SafePart[s.batch[s.at].request]
              /\ s.key.type = s.batch[s.at].type
              /\ s.batch[s.at].tenant \notin s.asked.bypass,
           s.pc = "index" => /\ s.pg # None
                             /\ s.key = emits[i].key
                             /\ \E o \in objects' : o.where = Here(i),
           UNCHANGED <<options, client, pg, configures, asked>>,
           objects' = objects \/ (objects' = Written(i) /\ Working(i)),
           rows' = rows \/ (rows' = Upserted(i) /\ emits[i].pc = "index")
    PROVE  IInv'
<1>1. emits'[i] = s /\ \A j \in Emits : j # i => emits'[j] = emits[j]
  BY DEF IInv, TypeOK
<1>2. \A j \in Emits : emits'[j].asked = emits[j].asked
  BY <1>1
<1>3. /\ \A o \in objects' :
            /\ o.event.request \in Requests
            /\ o.where.key.request = SafePart[o.event.request]
            /\ o.where.key.type = o.event.type
            /\ o \in objects \/ (o.by = i /\ o.event.tenant \notin emits[i].asked.bypass)
      /\ \A o \in objects : \E q \in objects' : q.where = o.where
  <2>1. CASE objects' = objects
    BY <2>1 DEF IInv, ObjectsMatchKeys
  <2>2. CASE objects' = Written(i) /\ Working(i)
    BY <2>2, WrittenFacts
  <2> QED
    BY <2>1, <2>2
<1>4. \A r \in rows' :
         /\ r.id.request \in Requests
         /\ r.key.request = SafePart[r.id.request]
         /\ r.key.type = r.id.type
         /\ r \in rows \/ (r.by = i /\ r.tenant \notin emits[i].asked.bypass)
         /\ \E o \in objects : o.where.bucket = r.bucket /\ o.where.key = r.key
  <2>1. CASE rows' = rows
    BY <2>1 DEF IInv, RowsMatchKeys, PutBeforeIndex
  <2>2. CASE rows' = Upserted(i) /\ emits[i].pc = "index"
    BY <2>2, UpsertedFacts
  <2> QED
    BY <2>1, <2>2
<1>5. TypeOK'
  BY <1>1 DEF IInv, TypeOK
<1>6. (KeysOfEvents /\ ObjectsMatchKeys /\ RowsMatchKeys)'
  <2>1. KeysOfEvents'
    <3> SUFFICES ASSUME NEW j \in Emits, Working(j)'
                 PROVE  (/\ Event(j).request \in Requests
                         /\ emits[j].key.request = SafePart[Event(j).request]
                         /\ emits[j].key.type = Event(j).type)'
      BY DEF KeysOfEvents
    <3>1. CASE j = i
      BY <1>1, <3>1 DEF Working, Event
    <3>2. CASE j # i
      BY <1>1, <3>2 DEF IInv, KeysOfEvents, Working, Event
    <3> QED
      BY <3>1, <3>2
  <2>2. ObjectsMatchKeys'
    BY ONLY <1>3 DEF ObjectsMatchKeys
  <2>3. RowsMatchKeys'
    BY ONLY <1>4 DEF RowsMatchKeys
  <2> QED
    BY <2>1, <2>2, <2>3
<1>7. PutBeforeIndex'
  <2>1. \A r \in rows' : \E o \in objects' : o.where.bucket = r.bucket /\ o.where.key = r.key
    <3>1. SUFFICES ASSUME NEW r \in rows'
                   PROVE  \E q \in objects' : q.where.bucket = r.bucket /\ q.where.key = r.key
      OBVIOUS
    <3>2. PICK o \in objects : o.where.bucket = r.bucket /\ o.where.key = r.key
      BY <1>4
    <3>3. PICK q \in objects' : q.where = o.where
      BY <1>3
    <3> QED
      BY <3>2, <3>3
  <2>2. ASSUME NEW j \in Emits, emits'[j].pc = "index"
        PROVE  \E q \in objects' : q.where = Here(j)'
    <3>1. CASE j = i
      <4>1. Here(i)' = Here(i)
        BY <1>1, <2>2, <3>1 DEF Here, Where
      <4> QED
        BY <1>1, <2>2, <3>1, <4>1
    <3>2. CASE j # i
      <4>1. Here(j)' = Here(j)
        BY <1>1, <3>2 DEF Here, Where
      <4>2. PICK o \in objects : o.where = Here(j)
        BY <1>1, <2>2, <3>2 DEF IInv, PutBeforeIndex
      <4> QED
        BY <1>3, <4>1, <4>2
    <3> QED
      BY <3>1, <3>2
  <2> QED
    BY <2>1, <2>2 DEF PutBeforeIndex
<1>8. BypassKnown'
  <2>1. options' = asked'
    BY DEF IInv, BypassKnown
  <2>2. ASSUME NEW j \in Emits
        PROVE  (/\ emits[j].options = emits[j].asked
                /\ Working(j) => Event(j).tenant \notin emits[j].asked.bypass)'
    <3>1. CASE j = i
      BY <1>1, <3>1 DEF IInv, BypassKnown, Working, Event
    <3>2. CASE j # i
      BY <1>1, <3>2 DEF IInv, BypassKnown, Working, Event
    <3> QED
      BY <3>1, <3>2
  <2>3. /\ \A o \in objects : o.by \in Emits /\ emits[o.by].pc # "idle"
        /\ \A r \in rows : r.by \in Emits /\ emits[r.by].pc # "idle"
    BY DEF IInv, BypassKnown
  <2>4. \A j \in Emits : emits[j].pc # "idle" => emits'[j].pc # "idle"
    BY <1>1
  <2>5. emits'[i].pc # "idle"
    BY <1>1
  <2>6. \A o \in objects' : o.by \in Emits /\ emits'[o.by].pc # "idle"
    BY ONLY <1>3, <2>3, <2>4, <2>5, i \in Emits
  <2>7. \A r \in rows' : r.by \in Emits /\ emits'[r.by].pc # "idle"
    BY ONLY <1>4, <2>3, <2>4, <2>5, i \in Emits
  <2> QED
    BY <2>1, <2>2, <2>6, <2>7 DEF BypassKnown
<1>9. BypassHonoured'
  <2>1. /\ \A o \in objects : o.by \in Emits /\ o.event.tenant \notin emits[o.by].asked.bypass
        /\ \A r \in rows : r.by \in Emits /\ r.tenant \notin emits[r.by].asked.bypass
    BY DEF IInv, BypassKnown, BypassHonoured
  <2>2. \A o \in objects' : o.event.tenant \notin emits'[o.by].asked.bypass
    BY ONLY <1>2, <1>3, <2>1, i \in Emits
  <2>3. \A r \in rows' : r.tenant \notin emits'[r.by].asked.bypass
    BY ONLY <1>2, <1>4, <2>1, i \in Emits
  <2> QED
    BY ONLY <2>2, <2>3 DEF BypassHonoured
<1> QED
  BY <1>5, <1>6, <1>7, <1>8, <1>9 DEF IInv

(* The steps of an Emit after its first. *)
LEMMA WorkStep ==
    ASSUME IInv, NEW i \in Emits,
           Done(i) \/ Skip(i) \/ Prepare(i) \/ PutObject(i) \/ PutFails(i)
              \/ Index(i) \/ IndexFails(i)
    PROVE  IInv'
<1>1. /\ emits[i] \in EmitStates
      /\ emits[i].at \in Nat \ {0} /\ emits[i].batch \in Seq(Events)
  <2>1. emits[i] \in EmitStates
    BY DEF IInv, TypeOK
  <2>2. emits[i].batch \in Batches \union {<<>>}
    BY <2>1 DEF EmitStates
  <2>3. emits[i].batch \in Seq(Events)
    <3>1. CASE emits[i].batch \in Batches
      BY <3>1, TranscriptsAssumption
    <3>2. CASE emits[i].batch = <<>>
      BY <3>2
    <3> QED
      BY <2>2, <3>1, <3>2
  <2> QED
    BY <2>1, <2>3 DEF EmitStates
<1>2. UNCHANGED <<options, client, pg, configures, asked>>
  BY DEF Done, Skip, Prepare, PutObject, PutFails, Index, IndexFails, Step
<1>3. ASSUME NEW place \in {"ok", "error", "index"}, Goto(i, place)
      PROVE  /\ emits' = [emits EXCEPT ![i] = [emits[i] EXCEPT !.pc = place]]
             /\ [emits[i] EXCEPT !.pc = place] \in EmitStates
  BY <1>1, <1>3 DEF Goto, EmitStates, IInv, TypeOK
<1>4. ASSUME NextEvent(i)
      PROVE  /\ emits' = [emits EXCEPT ![i] = [emits[i] EXCEPT !.pc = "event", !.at = @ + 1]]
             /\ [emits[i] EXCEPT !.pc = "event", !.at = @ + 1] \in EmitStates
  BY <1>1, <1>4 DEF NextEvent, EmitStates, IInv, TypeOK
<1>5. CASE Done(i)
  <2>1. Goto(i, "ok") /\ UNCHANGED <<objects, rows>> /\ emits[i].pc # "idle"
    BY <1>5 DEF Done
  <2> QED
    BY <1>1, <1>2, <1>3, <2>1, EmitStep DEF EmitStates
<1>6. CASE Skip(i)
  <2>1. NextEvent(i) /\ UNCHANGED <<objects, rows>> /\ emits[i].pc # "idle"
    BY <1>6 DEF Skip
  <2> QED
    BY <1>1, <1>2, <1>4, <2>1, EmitStep DEF EmitStates
<1>7. CASE PutFails(i)
  <2>1. Goto(i, "error") /\ rows' = rows /\ emits[i].pc = "put"
        /\ objects' \in {objects, Written(i)}
    BY <1>7 DEF PutFails
  <2> QED
    BY <1>1, <1>2, <1>3, <2>1, EmitStep DEF EmitStates, Working
<1>8. CASE IndexFails(i)
  <2>1. Goto(i, "error") /\ objects' = objects /\ emits[i].pc = "index"
        /\ rows' \in {rows, Upserted(i)}
    BY <1>8 DEF IndexFails
  <2> QED
    BY <1>1, <1>2, <1>3, <2>1, EmitStep DEF EmitStates
<1>9. CASE Index(i)
  <2>1. NextEvent(i) /\ objects' = objects /\ emits[i].pc = "index" /\ rows' = Upserted(i)
    BY <1>9 DEF Index
  <2> QED
    BY <1>1, <1>2, <1>4, <2>1, EmitStep DEF EmitStates
<1>10. CASE PutObject(i)
  <2>1. rows' = rows /\ emits[i].pc = "put" /\ objects' = Written(i)
    BY <1>10 DEF PutObject
  <2>2. CASE emits[i].pg = None
    <3>1. NextEvent(i)
      BY <1>10, <2>2 DEF PutObject
    <3> QED
      BY <1>1, <1>2, <1>4, <2>1, <3>1, EmitStep DEF EmitStates, Working
  <2>3. CASE emits[i].pg # None
    <3>1. Goto(i, "index")
      BY <1>10, <2>3 DEF PutObject
    <3>2. \E o \in objects' : o.where = Here(i)
      BY <2>1, WrittenFacts DEF Working
    <3>3. /\ emits[i].at \in DOMAIN emits[i].batch
          /\ Event(i).request \in Requests
          /\ emits[i].key.request = SafePart[Event(i).request]
          /\ emits[i].key.type = Event(i).type
          /\ Event(i).tenant \notin emits[i].asked.bypass
      BY <2>1 DEF IInv, TypeOK, KeysOfEvents, BypassKnown, Working
    <3> QED
      BY <1>1, <1>2, <1>3, <2>1, <2>3, <3>1, <3>2, <3>3, EmitStep
         DEF EmitStates, Working, Event
  <2> QED
    BY <2>2, <2>3
<1>11. CASE Prepare(i)
  <2>1. /\ emits[i].pc = "event" /\ emits[i].at \in DOMAIN emits[i].batch
        /\ Wanted(i, Event(i)) /\ UNCHANGED <<objects, rows>>
    BY <1>1, <1>11 DEF Prepare
  <2>2. Event(i) \in Events
    BY <2>1, EventInBatch DEF IInv
  <2>3. PICK hour \in Hours \union {None} :
           emits' = [emits EXCEPT ![i].pc = "put", ![i].key = transcriptKey(i, Event(i), hour)]
    BY <1>11, <2>2 DEF Prepare, FiledIn, Events
  <2> DEFINE key == transcriptKey(i, Event(i), hour)
  <2>4. /\ key \in Keys
        /\ key.request = SafePart[Event(i).request]
        /\ key.type = Event(i).type
    <3>1. emits[i].options \in Settings
      BY <1>1 DEF EmitStates
    <3>2. emits[i].options.gzip \in BOOLEAN
      <4>1. CASE emits[i].options \in Configs
        <5>1. emits[i].options \in ConfigType
          BY <4>1, TranscriptsAssumption
        <5> QED
          BY <5>1 DEF ConfigType
      <4>2. CASE emits[i].options = Unconfigured
        <5>1. Unconfigured.gzip = FALSE
          BY DEF Unconfigured
        <5> QED
          BY <4>2, <5>1, Zenon
      <4> QED
        BY <3>1, <4>1, <4>2 DEF Settings
    <3> QED
      BY <2>2, <3>1, <3>2 DEF transcriptKey, Keys, Events
  <2> HIDE DEF key
  <2>5. /\ emits' = [emits EXCEPT ![i] = [emits[i] EXCEPT !.pc = "put", !.key = key]]
        /\ [emits[i] EXCEPT !.pc = "put", !.key = key] \in EmitStates
    <3>1. emits' = [emits EXCEPT ![i].pc = "put", ![i].key = key]
      BY <2>3 DEF key
    <3> QED
      BY <1>1, <2>4, <3>1 DEF EmitStates, IInv, TypeOK
  <2>6. Event(i).request \in Requests /\ Event(i).tenant \notin emits[i].asked.bypass
    BY <2>1, <2>2 DEF Events, Wanted, IInv, BypassKnown
  <2> QED
    BY <1>1, <1>2, <2>1, <2>4, <2>5, <2>6, EmitStep DEF EmitStates, Event
<1> QED
  BY <1>5, <1>6, <1>7, <1>8, <1>9, <1>10, <1>11

(* Every step preserves the invariant. *)
LEMMA StepIInv == IInv /\ [Next]_vars => IInv'
<1> SUFFICES ASSUME IInv, [Next]_vars PROVE IInv'
  OBVIOUS
<1>1. ASSUME NEW c \in Configs, Configure(c) PROVE IInv'
  BY <1>1, ConfigureStep
<1>2. ASSUME NEW i \in Emits, NEW batch \in Batches, Begin(i, batch) PROVE IInv'
  BY <1>2, BeginStep
<1>3. ASSUME NEW i \in Emits,
             Done(i) \/ Skip(i) \/ Prepare(i) \/ PutObject(i) \/ PutFails(i)
                \/ Index(i) \/ IndexFails(i)
      PROVE  IInv'
  BY <1>3, WorkStep
<1>4. CASE UNCHANGED vars
  BY <1>4 DEF vars, IInv, TypeOK, KeysOfEvents, ObjectsMatchKeys, RowsMatchKeys,
              PutBeforeIndex, BypassKnown, BypassHonoured, Working, Event, Here, Where
<1> QED
  BY <1>1, <1>2, <1>3, <1>4 DEF Next

-----------------------------------------------------------------------------
(* The inductive invariant holds (main.go:57-186). *)
THEOREM Invariant == Spec => []IInv
  BY InitIInv, StepIInv, PTL DEF Spec

(* Every variable keeps its type, there is no pool without a client, and no  *)
(* Emit leaves its batch (main.go:57-186).                                   *)
THEOREM TypeCorrect == Spec => []TypeOK
<1>1. IInv => TypeOK
  BY DEF IInv
<1> QED
  BY <1>1, Invariant, PTL

(* No row dangles, whatever fails, races or is reconfigured                  *)
(* (main.go:173-181).                                                        *)
THEOREM NoDanglingRows == Spec => []RowsHaveObjects
<1>1. ASSUME IInv PROVE RowsHaveObjects
  <2>1. SUFFICES ASSUME NEW r \in rows
                 PROVE  \E o \in objects :
                           /\ o.where.bucket = r.bucket /\ o.where.key = r.key
                           /\ o.event.type = r.id.type
                           /\ SafePart[o.event.request] = SafePart[r.id.request]
                           /\ Alone(r.id.request) => o.event.request = r.id.request
    BY DEF RowsHaveObjects
  <2>2. PICK o \in objects : o.where.bucket = r.bucket /\ o.where.key = r.key
    BY <1>1 DEF IInv, PutBeforeIndex
  <2>3. /\ o.event.request \in Requests
        /\ SafePart[o.event.request] = SafePart[r.id.request]
        /\ o.event.type = r.id.type
    BY <1>1, <2>2 DEF IInv, ObjectsMatchKeys, RowsMatchKeys
  <2> QED
    BY <2>2, <2>3 DEF Alone
<1> QED
  BY <1>1, Invariant, PTL

(* A tenant is not stored once Configure has been asked to bypass it         *)
(* (main.go:87, :145).                                                       *)
THEOREM BypassCorrect == Spec => []BypassHonoured
<1>1. IInv => BypassHonoured
  BY DEF IInv
<1> QED
  BY <1>1, Invariant, PTL

-----------------------------------------------------------------------------
(* What an Emit has passed is stored.                                        *)

(* Of a transcript that was written, one is left under its key.              *)
Left(objs, gone, t) == \E o \in objs : o.where = t.where /\ (o = t \/ t \in gone)

HasObject(i, ev) ==
    \E hour \in FiledIn(ev) :
        Left(objects, replaced, Transcript(i, ev, transcriptKey(i, ev, hour)))

HasRow(i, ev) == emits[i].pg = None \/ \E r \in rows : r.id = RowId(i, ev)

Passed(i, k) == k < emits[i].at \/ emits[i].pc = "ok"

KeysPrepared ==
    \A i \in Emits : Working(i) =>
        \E hour \in FiledIn(Event(i)) : emits[i].key = transcriptKey(i, Event(i), hour)

PutIsLeft == \A i \in Emits : emits[i].pc = "index" => Left(objects, replaced, Mine(i))

PassedAreStored ==
    \A i \in Emits, k \in Nat, ev \in Events :
        /\ emits[i].client # None
        /\ k \in DOMAIN emits[i].batch /\ emits[i].batch[k] = ev
        /\ Passed(i, k) /\ Wanted(i, ev)
        => HasObject(i, ev) /\ HasRow(i, ev)

StoredInv == KeysPrepared /\ PutIsLeft /\ PassedAreStored

(* Objects and rows are replaced, but no key and no identifier disappears.   *)
StoresKeep ==
    /\ \A o \in objects : \E q \in objects' : q.where = o.where /\ (q = o \/ o \in replaced')
    /\ replaced \subseteq replaced'
    /\ \A r \in rows : \E q \in rows' : q.id = r.id

LEMMA WritesKeep ==
    ASSUME NEW i \in Emits, objects' \in {objects, Written(i)}, rows' \in {rows, Upserted(i)},
           replaced' = replaced \union (objects \ objects')
    PROVE  StoresKeep
<1>1. ASSUME NEW o \in objects
      PROVE  \E q \in objects' : q.where = o.where /\ (q = o \/ o \in replaced')
  <2> DEFINE new == Mine(i)
  <2>1. new.where = Here(i) /\ Written(i) = {q \in objects : q.where # Here(i)} \union {new}
    BY DEF Written, Mine, Transcript, Here
  <2> HIDE DEF new
  <2>2. \E q \in objects' : q.where = o.where
    BY <2>1
  <2>3. o \in objects' \/ o \in replaced'
    OBVIOUS
  <2> QED
    BY <2>2, <2>3
<1>2. ASSUME NEW r \in rows PROVE \E q \in rows' : q.id = r.id
  <2> DEFINE new == [id |-> RowId(i, Event(i)), bucket |-> emits[i].options.bucket,
                     key |-> emits[i].key, tenant |-> Event(i).tenant, by |-> i]
  <2>1. new.id = RowId(i, Event(i))
        /\ Upserted(i) = {q \in rows : q.id # RowId(i, Event(i))} \union {new}
    BY DEF Upserted
  <2> HIDE DEF new
  <2> QED
    BY <2>1
<1> QED
  BY <1>1, <1>2 DEF StoresKeep

(* Under the same settings it stays there.                                   *)
LEMMA LeftStays ==
    ASSUME StoresKeep, NEW t, Left(objects, replaced, t)
    PROVE  Left(objects', replaced', t)
<1>1. PICK o \in objects : o.where = t.where /\ (o = t \/ t \in replaced)
  BY DEF Left
<1>2. PICK q \in objects' : q.where = o.where /\ (q = o \/ o \in replaced')
  BY DEF StoresKeep
<1>3. q = t \/ t \in replaced'
  BY <1>1, <1>2 DEF StoresKeep
<1> QED
  BY <1>1, <1>2, <1>3 DEF Left

LEMMA StoresKept ==
    ASSUME StoresKeep, NEW j \in Emits, NEW ev,
           emits'[j].options = emits[j].options, emits'[j].client = emits[j].client,
           emits'[j].pg = emits[j].pg
    PROVE  /\ HasObject(j, ev) => HasObject(j, ev)'
           /\ HasRow(j, ev) => HasRow(j, ev)'
<1>1. \A hour : transcriptKey(j, ev, hour)' = transcriptKey(j, ev, hour)
  BY DEF transcriptKey
<1>2. RowId(j, ev)' = RowId(j, ev)
  BY DEF RowId
<1>3. ASSUME HasObject(j, ev) PROVE HasObject(j, ev)'
  <2>1. PICK hour \in FiledIn(ev) :
           Left(objects, replaced, Transcript(j, ev, transcriptKey(j, ev, hour)))
    BY <1>3 DEF HasObject
  <2>2. Transcript(j, ev, transcriptKey(j, ev, hour))'
          = Transcript(j, ev, transcriptKey(j, ev, hour))
    BY <1>1 DEF Transcript, Where
  <2>3. Left(objects', replaced', Transcript(j, ev, transcriptKey(j, ev, hour))')
    BY <2>1, <2>2, LeftStays
  <2> QED
    BY <2>3 DEF HasObject
<1>4. ASSUME HasRow(j, ev) PROVE HasRow(j, ev)'
  BY <1>2, <1>4 DEF HasRow, StoresKeep
<1> QED
  BY <1>3, <1>4

(* A step of Emit i under settings and a batch that stay the same: what it   *)
(* passes in this step must be stored after it.                              *)
LEMMA StoredStep ==
    ASSUME IInv, StoredInv, StoresKeep, NEW i \in Emits, NEW s, emits' = [emits EXCEPT ![i] = s],
           s.options = emits[i].options, s.client = emits[i].client, s.pg = emits[i].pg,
           s.batch = emits[i].batch,
           s.pc \in {"put", "index"} =>
              \E hour \in FiledIn(s.batch[s.at]) : s.key = transcriptKey(i, s.batch[s.at], hour),
           s.pc = "index" => Left(objects, replaced, Mine(i))',
           \A k \in DOMAIN s.batch : \A ev \in Events :
              /\ k \in Nat /\ s.batch[k] = ev
              /\ k < s.at \/ s.pc = "ok"
              /\ ~Passed(i, k) /\ Wanted(i, ev)
              => HasObject(i, ev)' /\ HasRow(i, ev)'
    PROVE  StoredInv'
<1>1. emits'[i] = s /\ \A j \in Emits : j # i => emits'[j] = emits[j]
  BY DEF IInv, TypeOK
<1>2. KeysPrepared'
  <2>1. ASSUME Working(i)'
        PROVE  \E hour \in FiledIn(Event(i)') :
                  emits'[i].key = transcriptKey(i, Event(i), hour)'
    BY <1>1, <2>1 DEF Working, Event, transcriptKey
  <2>2. ASSUME NEW j \in Emits, j # i, Working(j)'
        PROVE  \E hour \in FiledIn(Event(j)') :
                  emits'[j].key = transcriptKey(j, Event(j), hour)'
    <3>1. emits'[j] = emits[j]
      BY <1>1, <2>2
    <3>2. Working(j)
      BY <2>2, <3>1 DEF Working
    <3>3. PICK hour \in FiledIn(Event(j)) : emits[j].key = transcriptKey(j, Event(j), hour)
      BY <3>2 DEF StoredInv, KeysPrepared
    <3>4. Event(j)' = Event(j) /\ transcriptKey(j, Event(j), hour)' = transcriptKey(j, Event(j), hour)
      BY <3>1 DEF Event, transcriptKey
    <3> QED
      BY <3>1, <3>3, <3>4
  <2> QED
    BY <2>1, <2>2 DEF KeysPrepared
<1>3. ASSUME NEW j \in Emits, NEW k \in Nat, NEW ev \in Events, emits'[j].client # None,
             k \in DOMAIN emits'[j].batch, emits'[j].batch[k] = ev,
             Passed(j, k)', Wanted(j, ev)'
      PROVE  HasObject(j, ev)' /\ HasRow(j, ev)'
  <2>1. /\ emits'[j].options = emits[j].options /\ emits'[j].client = emits[j].client
        /\ emits'[j].pg = emits[j].pg /\ emits'[j].batch = emits[j].batch
    BY <1>1
  <2>2. Wanted(j, ev)
    BY <1>3, <2>1 DEF Wanted
  <2>3. CASE Passed(j, k)
    <3>1. HasObject(j, ev) /\ HasRow(j, ev)
      BY <1>3, <2>1, <2>2, <2>3 DEF StoredInv, PassedAreStored
    <3> QED
      BY <2>1, <3>1, StoresKept
  <2>4. CASE ~Passed(j, k)
    <3>1. j = i
      BY <1>1, <1>3, <2>4 DEF Passed
    <3>2. s.batch[k] = ev /\ k \in DOMAIN s.batch /\ (k < s.at \/ s.pc = "ok")
      BY <1>1, <1>3, <3>1 DEF Passed
    <3> QED
      BY <2>2, <2>4, <3>1, <3>2
  <2> QED
    BY <2>3, <2>4
<1>4. PutIsLeft'
  <2>1. ASSUME NEW j \in Emits, j # i, emits'[j].pc = "index"
        PROVE  Left(objects, replaced, Mine(j))'
    <3>1. Mine(j)' = Mine(j) /\ Left(objects, replaced, Mine(j))
      BY <1>1, <2>1 DEF StoredInv, PutIsLeft, Mine, Transcript, Where, Event
    <3>2. Left(objects', replaced', Mine(j)')
      BY <3>1, LeftStays
    <3> QED
      BY <3>2
  <2> QED
    BY <1>1, <2>1 DEF PutIsLeft
<1> QED
  BY <1>2, <1>3, <1>4 DEF StoredInv, PassedAreStored

(* A call of Configure moves no Emit, and the first step of one passes       *)
(* nothing unless there is no client.                                        *)
LEMMA StoredConfigure ==
    ASSUME StoredInv, UNCHANGED <<emits, objects, rows, replaced>>
    PROVE  StoredInv'
<1>1. StoresKeep
  BY DEF StoresKeep
<1>2. KeysPrepared'
  BY DEF StoredInv, KeysPrepared, Working, Event, transcriptKey
<1>3. \A i \in Emits, k \in Nat, ev \in Events : /\ Passed(i, k)' <=> Passed(i, k)
                                                 /\ Wanted(i, ev)' <=> Wanted(i, ev)
  BY DEF Passed, Wanted
<1>4. PassedAreStored'
  <2> SUFFICES ASSUME NEW i \in Emits, NEW k \in Nat, NEW ev \in Events,
                      emits'[i].client # None, k \in DOMAIN emits'[i].batch,
                      emits'[i].batch[k] = ev, Passed(i, k)', Wanted(i, ev)'
               PROVE  HasObject(i, ev)' /\ HasRow(i, ev)'
    BY DEF PassedAreStored
  <2>1. HasObject(i, ev) /\ HasRow(i, ev)
    BY <1>3 DEF StoredInv, PassedAreStored
  <2>2. /\ emits'[i].options = emits[i].options /\ emits'[i].client = emits[i].client
        /\ emits'[i].pg = emits[i].pg
    OBVIOUS
  <2> QED
    BY <1>1, <2>1, <2>2, StoresKept
<1>5. PutIsLeft'
  BY DEF StoredInv, PutIsLeft, Left, Mine, Transcript, Where, Event
<1> QED
  BY <1>2, <1>4, <1>5 DEF StoredInv

LEMMA StoredBegin ==
    ASSUME IInv, StoredInv, NEW i \in Emits, NEW batch \in Batches, Begin(i, batch)
    PROVE  StoredInv'
<1> DEFINE s == [pc |-> IF client = None THEN "ok" ELSE "event", options |-> options,
                 client |-> client, pg |-> pg, batch |-> batch, at |-> 1, key |-> NoKey,
                 asked |-> asked]
<1>1. /\ emits' = [emits EXCEPT ![i] = s]
      /\ s.pc \in {"ok", "event"} /\ s.at = 1 /\ s.batch = batch
      /\ s.client = None \/ s.pc = "event"
  BY DEF Begin
<1> HIDE DEF s
<1>2. /\ emits'[i] = s /\ \A j \in Emits : j # i => emits'[j] = emits[j]
      /\ UNCHANGED <<objects, rows, replaced>>
  BY <1>1 DEF IInv, TypeOK, Begin
<1>3. KeysPrepared'
  BY <1>1, <1>2 DEF StoredInv, KeysPrepared, Working, Event, transcriptKey
<1>4. ASSUME NEW j \in Emits, NEW k \in Nat, NEW ev \in Events, emits'[j].client # None,
             k \in DOMAIN emits'[j].batch, emits'[j].batch[k] = ev,
             Passed(j, k)', Wanted(j, ev)'
      PROVE  HasObject(j, ev)' /\ HasRow(j, ev)'
  <2>1. j # i
    <3>1. ASSUME j = i PROVE FALSE
      <4>1. batch \in Seq(Events)
        BY TranscriptsAssumption
      <4>2. k >= 1
        BY <1>1, <1>2, <1>4, <3>1, <4>1
      <4> QED
        BY <1>1, <1>2, <1>4, <3>1, <4>2 DEF Passed
    <3> QED
      BY <3>1
  <2>2. emits'[j] = emits[j]
    BY <1>2, <2>1
  <2>3. HasObject(j, ev) /\ HasRow(j, ev)
    BY <1>4, <2>2 DEF StoredInv, PassedAreStored, Passed, Wanted
  <2>4. StoresKeep
    BY <1>2 DEF StoresKeep
  <2> QED
    BY <2>2, <2>3, <2>4, StoresKept
<1>5. PutIsLeft'
  BY <1>1, <1>2 DEF StoredInv, PutIsLeft, Left, Mine, Transcript, Where, Event
<1> QED
  BY <1>3, <1>4, <1>5 DEF StoredInv, PassedAreStored

(* The steps of an Emit after its first. *)
LEMMA StoredWork ==
    ASSUME IInv, StoredInv, NEW i \in Emits,
           Done(i) \/ Skip(i) \/ Prepare(i) \/ PutObject(i) \/ PutFails(i)
              \/ Index(i) \/ IndexFails(i)
    PROVE  StoredInv'
<1>1. StoresKeep
  <2>1. /\ objects' \in {objects, Written(i)} /\ rows' \in {rows, Upserted(i)}
        /\ replaced' = replaced \union (objects \ objects')
    BY DEF Done, Skip, Prepare, PutObject, PutFails, Index, IndexFails, Step
  <2> QED
    BY <2>1, WritesKeep
<1>2. /\ emits[i] \in EmitStates /\ emits[i].at \in Nat \ {0}
      /\ emits[i].batch \in Seq(Events)
  <2>1. emits[i] \in EmitStates
    BY DEF IInv, TypeOK
  <2>2. emits[i].batch \in Batches \union {<<>>}
    BY <2>1 DEF EmitStates
  <2>3. emits[i].batch \in Seq(Events)
    <3>1. <<>> \in Seq(Events)
      OBVIOUS
    <3> QED
      BY <2>2, <3>1, TranscriptsAssumption
  <2> QED
    BY <2>1, <2>3 DEF EmitStates
<1>3. \A k \in DOMAIN emits[i].batch : k \in Nat
  BY <1>2
<1>4. ASSUME NEW place \in {"error", "index"}, Goto(i, place),
             place = "index" => Working(i) /\ Left(objects', replaced', Mine(i))
      PROVE  StoredInv'
  <2> DEFINE s == [emits[i] EXCEPT !.pc = place]
  <2>1. /\ emits' = [emits EXCEPT ![i] = s]
        /\ s.pc = place /\ s.options = emits[i].options /\ s.client = emits[i].client
        /\ s.pg = emits[i].pg /\ s.batch = emits[i].batch /\ s.at = emits[i].at
        /\ s.key = emits[i].key
    BY <1>2, <1>4 DEF Goto, EmitStates, IInv, TypeOK
  <2> HIDE DEF s
  <2>2. s.pc \in {"put", "index"} =>
           \E hour \in FiledIn(s.batch[s.at]) : s.key = transcriptKey(i, s.batch[s.at], hour)
    BY <1>4, <2>1 DEF StoredInv, KeysPrepared, Event
  <2>3. \A k \in DOMAIN s.batch : k < s.at \/ s.pc = "ok" => Passed(i, k)
    BY <1>4, <2>1 DEF Passed
  <2>4. Mine(i)' = Mine(i)
    <3>1. emits'[i] = s
      BY <2>1 DEF IInv, TypeOK
    <3> QED
      BY <2>1, <3>1 DEF Mine, Transcript, Where, Event
  <2>5. s.pc = "index" => Left(objects, replaced, Mine(i))'
    BY <1>4, <2>1, <2>4
  <2> QED
    BY <1>1, <2>1, <2>2, <2>3, <2>5, StoredStep
<1>5. ASSUME NextEvent(i),
             \A ev \in Events : ev = Event(i) /\ Wanted(i, ev)
                => HasObject(i, ev)' /\ HasRow(i, ev)'
      PROVE  StoredInv'
  <2> DEFINE s == [emits[i] EXCEPT !.pc = "event", !.at = @ + 1]
  <2>1. /\ emits' = [emits EXCEPT ![i] = s]
        /\ s.pc = "event" /\ s.options = emits[i].options /\ s.client = emits[i].client
        /\ s.pg = emits[i].pg /\ s.batch = emits[i].batch /\ s.at = emits[i].at + 1
    BY <1>2, <1>5 DEF NextEvent, EmitStates, IInv, TypeOK
  <2> HIDE DEF s
  <2>2. ASSUME NEW k \in DOMAIN s.batch, NEW ev \in Events, k \in Nat, s.batch[k] = ev,
               k < s.at \/ s.pc = "ok", ~Passed(i, k), Wanted(i, ev)
        PROVE  HasObject(i, ev)' /\ HasRow(i, ev)'
    <3>1. k = emits[i].at
      BY <1>2, <2>1, <2>2 DEF Passed
    <3>2. ev = Event(i)
      BY <2>1, <2>2, <3>1 DEF Event
    <3> QED
      BY <1>5, <2>2, <3>2
  <2>3. s.pc \notin {"put", "index"}
    BY <2>1
  <2> QED
    BY <1>1, <2>1, <2>2, <2>3, StoredStep
<1>6. CASE Done(i)
  <2> DEFINE s == [emits[i] EXCEPT !.pc = "ok"]
  <2>1. /\ emits' = [emits EXCEPT ![i] = s]
        /\ s.pc = "ok" /\ s.options = emits[i].options /\ s.client = emits[i].client
        /\ s.pg = emits[i].pg /\ s.batch = emits[i].batch
    BY <1>2, <1>6 DEF Done, Goto, EmitStates, IInv, TypeOK
  <2> HIDE DEF s
  <2>2. emits[i].at > Len(emits[i].batch)
    BY <1>6 DEF Done
  <2>3. \A k \in DOMAIN s.batch : Passed(i, k)
    BY <1>2, <2>1, <2>2 DEF Passed
  <2>4. s.pc \notin {"put", "index"}
    BY <2>1
  <2> QED
    BY <1>1, <2>1, <2>3, <2>4, StoredStep
<1>7. CASE Skip(i)
  BY <1>5, <1>7 DEF Skip
<1>8. CASE PutFails(i) \/ IndexFails(i)
  BY <1>4, <1>8 DEF PutFails, IndexFails
<1>9. CASE Prepare(i)
  <2>1. emits[i].at \in DOMAIN emits[i].batch /\ emits[i].pc = "event"
    BY <1>2, <1>9 DEF Prepare
  <2>2. Event(i) \in Events
    BY <2>1, EventInBatch DEF IInv
  <2>3. PICK hour \in FiledIn(Event(i)) :
           emits' = [emits EXCEPT ![i].pc = "put", ![i].key = transcriptKey(i, Event(i), hour)]
    BY <1>9, <2>2 DEF Prepare
  <2> DEFINE key == transcriptKey(i, Event(i), hour)
             s == [emits[i] EXCEPT !.pc = "put", !.key = key]
  <2>4. emits' = [emits EXCEPT ![i].pc = "put", ![i].key = key]
    BY <2>3
  <2> HIDE DEF key
  <2>5. /\ emits' = [emits EXCEPT ![i] = s]
        /\ s.pc = "put" /\ s.options = emits[i].options /\ s.client = emits[i].client
        /\ s.pg = emits[i].pg /\ s.batch = emits[i].batch /\ s.at = emits[i].at /\ s.key = key
    BY <1>2, <2>4 DEF EmitStates, IInv, TypeOK
  <2> HIDE DEF s
  <2>6. \E h \in FiledIn(s.batch[s.at]) : s.key = transcriptKey(i, s.batch[s.at], h)
    BY <2>5 DEF key, Event
  <2>7. \A k \in DOMAIN s.batch : k < s.at \/ s.pc = "ok" => Passed(i, k)
    BY <2>5 DEF Passed
  <2> QED
    BY <1>1, <2>5, <2>6, <2>7, StoredStep
<1>10. ASSUME Working(i), Left(objects', replaced', Mine(i)),
              emits'[i].client = emits[i].client, emits'[i].options = emits[i].options,
              NEW ev \in Events, ev = Event(i)
       PROVE  HasObject(i, ev)'
  <2>1. PICK hour \in FiledIn(ev) : emits[i].key = transcriptKey(i, ev, hour)
    BY <1>10 DEF StoredInv, KeysPrepared
  <2>2. transcriptKey(i, ev, hour)' = transcriptKey(i, ev, hour)
    BY <1>10 DEF transcriptKey
  <2>3. Transcript(i, ev, transcriptKey(i, ev, hour))' = Mine(i)
    BY <1>10, <2>1, <2>2 DEF Mine, Transcript, Where
  <2>4. Left(objects', replaced', Transcript(i, ev, transcriptKey(i, ev, hour))')
    BY <1>10, <2>3
  <2> QED
    BY <2>4 DEF HasObject
<1>11. ASSUME NextEvent(i)
       PROVE  /\ emits'[i].client = emits[i].client /\ emits'[i].options = emits[i].options
              /\ emits'[i].pg = emits[i].pg
  BY <1>2, <1>11 DEF NextEvent, EmitStates, IInv, TypeOK
<1>12. CASE PutObject(i)
  <2>1. emits[i].pc = "put" /\ objects' = Written(i)
    BY <1>12 DEF PutObject
  <2>4. Left(objects', replaced', Mine(i))
    <3>1. Mine(i) \in objects'
      BY <2>1 DEF Written, Mine
    <3> QED
      BY <3>1 DEF Left
  <2>2. CASE emits[i].pg = None
    <3>1. NextEvent(i)
      BY <1>12, <2>2 DEF PutObject
    <3>3. \A ev \in Events : HasRow(i, ev)'
      BY <1>11, <2>2, <3>1 DEF HasRow
    <3>4. \A ev \in Events : ev = Event(i) => HasObject(i, ev)'
      BY <1>10, <1>11, <2>1, <2>4, <3>1 DEF Working
    <3> QED
      BY <1>5, <3>1, <3>3, <3>4
  <2>3. CASE emits[i].pg # None
    <3>1. Goto(i, "index")
      BY <1>12, <2>3 DEF PutObject
    <3> QED
      BY <1>4, <2>1, <2>4, <3>1 DEF Working
  <2> QED
    BY <2>2, <2>3
<1>13. CASE Index(i)
  <2>1. NextEvent(i) /\ emits[i].pc = "index" /\ objects' = objects /\ rows' = Upserted(i)
    BY <1>13 DEF Index
  <2>2. Left(objects', replaced', Mine(i))
    <3>1. Left(objects, replaced, Mine(i))
      BY <2>1 DEF StoredInv, PutIsLeft
    <3> QED
      BY <1>1, <3>1, LeftStays
  <2>3. \A ev \in Events : ev = Event(i) => HasObject(i, ev)'
    BY <1>10, <1>11, <2>1, <2>2 DEF Working
  <2>4. ASSUME NEW ev \in Events, ev = Event(i) PROVE HasRow(i, ev)'
    <3> DEFINE new == [id |-> RowId(i, Event(i)), bucket |-> emits[i].options.bucket,
                       key |-> emits[i].key, tenant |-> Event(i).tenant, by |-> i]
    <3>1. new \in rows' /\ new.id = RowId(i, ev)
      BY <2>1, <2>4 DEF Upserted
    <3>2. RowId(i, ev)' = RowId(i, ev)
      BY <1>11, <2>1 DEF RowId
    <3> HIDE DEF new
    <3> QED
      BY <3>1, <3>2 DEF HasRow
  <2> QED
    BY <1>5, <2>1, <2>3, <2>4
<1> QED
  BY <1>6, <1>7, <1>8, <1>9, <1>12, <1>13

LEMMA StoredStepAny == IInv /\ StoredInv /\ [Next]_vars => StoredInv'
<1> SUFFICES ASSUME IInv, StoredInv, [Next]_vars PROVE StoredInv'
  OBVIOUS
<1>1. ASSUME NEW c \in Configs, Configure(c) PROVE StoredInv'
  BY <1>1, StoredConfigure DEF Configure, WithoutPool, WithPool, Rejected, Assign
<1>2. ASSUME UNCHANGED vars PROVE StoredInv'
  BY <1>2, StoredConfigure DEF vars
<1> QED
  BY <1>1, <1>2, StoredBegin, StoredWork DEF Next

(* An Emit that reports no error wrote the transcript of every event of its  *)
(* batch that it had to, and it is there unless one filed alike replaced it, *)
(* whatever other Emits and Configure did meanwhile (main.go:144-183).       *)
THEOREM OkIsStored == Spec => []OkMeansStored
<1>1. Init => IInv /\ StoredInv
  <2>1. ASSUME Init PROVE StoredInv
    <3>1. \A i \in Emits : emits[i].pc = "idle" /\ emits[i].client = None
      BY <2>1 DEF Init, NewEmit
    <3> QED
      BY <3>1 DEF StoredInv, KeysPrepared, PutIsLeft, PassedAreStored, Working
  <2> QED
    BY <2>1, InitIInv
<1>2. IInv /\ StoredInv /\ [Next]_vars => (IInv /\ StoredInv)'
  BY StepIInv, StoredStepAny
<1>3. IInv /\ StoredInv => OkMeansStored
  <2> SUFFICES ASSUME IInv, StoredInv, NEW i \in Emits,
                      emits[i].pc = "ok", emits[i].client # None,
                      NEW k \in DOMAIN emits[i].batch, NEW ev, ev = emits[i].batch[k],
                      Wanted(i, ev)
               PROVE  /\ \E hour \in FiledIn(ev), o \in objects :
                            LET t == Transcript(i, ev, transcriptKey(i, ev, hour))
                            IN  /\ o = t \/ t \in replaced
                                /\ o.where = t.where /\ o.event.type = ev.type
                                /\ SafePart[o.event.request] = SafePart[ev.request]
                      /\ emits[i].pg = None \/ \E r \in rows : r.id = RowId(i, ev)
    BY DEF OkMeansStored
  <2>1. emits[i].batch \in Seq(Events)
    <3>1. emits[i].batch \in Batches \union {<<>>}
      BY DEF IInv, TypeOK, EmitStates
    <3>2. <<>> \in Seq(Events)
      OBVIOUS
    <3> QED
      BY <3>1, <3>2, TranscriptsAssumption
  <2>2. k \in Nat /\ k \in DOMAIN emits[i].batch /\ ev \in Events
    BY <2>1
  <2>3. HasObject(i, ev) /\ HasRow(i, ev)
    BY <2>2 DEF StoredInv, PassedAreStored, Passed
  <2>4. PICK hour \in FiledIn(ev), o \in objects :
           LET t == Transcript(i, ev, transcriptKey(i, ev, hour))
           IN  o.where = t.where /\ (o = t \/ t \in replaced)
    BY <2>3 DEF HasObject, Left
  <2>5. o.where.key.request = SafePart[ev.request] /\ o.where.key.type = ev.type
    BY <2>4 DEF Transcript, Where, transcriptKey
  <2>6. SafePart[o.event.request] = SafePart[ev.request] /\ o.event.type = ev.type
    BY <2>5 DEF IInv, ObjectsMatchKeys
  <2> QED
    BY <2>3, <2>4, <2>6 DEF HasRow
<1> QED
  BY <1>1, <1>2, <1>3, PTL DEF Spec
=============================================================================
