----------------------------- MODULE LitellmRouterProofs -----------------------------
(*****************************************************************************)
(* Proofs about LitellmRouter, for every list of deployments, strategy,      *)
(* limit and number of requests: the in-flight counts are right, nothing     *)
(* stays in flight once its end has been reported, repeated failures cool a  *)
(* deployment down, rpm bounds the first choices of a minute, and the types. *)
(*                                                                           *)
(* The first two speak of the time before a reconfiguration.  Why they hold  *)
(* is found on the bus (IInv): every event there is of a request that is     *)
(* still counted, or of one that never had a route (EventsCounted), because  *)
(* the event that ends a request is its last (EndsAreLast); and a request    *)
(* that is counted and no longer tried has its end on the bus (EndsReported). *)
(*                                                                           *)
(* The next two are about the times that Prune throws away (TimesInv): it    *)
(* only throws away what no later count could see, because the clock does    *)
(* not go back (AfterTwice), so that the failures and the requests that are  *)
(* left count as much as all there were.                                     *)
(*****************************************************************************)
EXTENDS LitellmRouter, Facts, FiniteSetTheorems, TLAPS

Types == {"request.completed", "request.failed", "upstream.error"}
EventRecord == [type : Types, request : Requests, route : D \union {NoRoute},
                tokens : Nat]

(* The parts of the invariant that concern one state s of the plugin. *)
Shape(s) ==
    /\ DOMAIN s.dep = D
    /\ \A i \in D : "inFlight" \in DOMAIN s.dep[i] /\ s.dep[i].inFlight \in Nat
    /\ IsFiniteSet(DOMAIN s.inflight)
    /\ \A r \in DOMAIN s.inflight : r \in Requests /\ s.inflight[r] \in D

CountedFor(map, i) == {r \in DOMAIN map : map[r] = i}
CountsAgree(s) == \A i \in D : s.dep[i].inFlight = Cardinality(CountedFor(s.inflight, i))

Plugin == [dep |-> dep, inflight |-> inflight]

Queues ==
    /\ bus \in Seq(EventRecord)
    /\ gateway \in [Requests -> [routes : Seq(D), at : Nat]]
    /\ configures \in Nat
    /\ inflight = [r \in DOMAIN inflight |-> inflight[r]]

EventsCounted ==
    \A n \in DOMAIN bus : bus[n].request \in DOMAIN inflight \/ bus[n].route = NoRoute

EndsAreLast ==
    \A m, n \in DOMAIN bus :
        m < n /\ bus[m].request = bus[n].request => bus[m].type = "upstream.error"

TriedAreCounted ==
    \A r \in Requests : Trying(r) =>
        /\ r \in DOMAIN inflight
        /\ \A n \in DOMAIN bus : bus[n].request = r => bus[n].type = "upstream.error"

NewAreUnknown ==
    \A r \in Requests : gateway[r] = NewRequest =>
        /\ r \notin DOMAIN inflight
        /\ \A n \in DOMAIN bus : bus[n].request # r

EndsReported ==
    configures = 0 =>
        \A r \in DOMAIN inflight :
            \/ Trying(r)
            \/ \E n \in DOMAIN bus : bus[n].request = r /\ bus[n].type # "upstream.error"

IInv == /\ Shape(Plugin)
        /\ Queues
        /\ EventsCounted
        /\ EndsAreLast
        /\ TriedAreCounted
        /\ NewAreUnknown
        /\ EndsReported
        /\ configures = 0 => CountsAgree(Plugin)

-----------------------------------------------------------------------------
LEMMA DFinite == IsFiniteSet(D) /\ D \subseteq Nat /\ NoRoute \notin D
<1>1. D = 1..Len(Deployments) /\ Len(Deployments) \in Nat
    BY ListAssumption DEF D, Range
<1> QED
    BY <1>1, FS_Interval DEF NoRoute

(* findDeployment finds an entry of the list for every entry of the list.    *)
LEMMA PlaceIsEntry == ASSUME NEW i \in D PROVE Place(i) \in D
<1> DEFINE S == {p \in D : Deployments[p].key = Deployments[i].key}
<1>1. S \in SUBSET Nat /\ i \in S
    BY DFinite
<1>2. PICK p \in S : \A q \in S : p <= q
    BY <1>1, LeastExists
<1> QED
    BY <1>2 DEF Place

(* prune drops what is too old and leaves the rest of a deployment alone. *)
LEMMA PrunedKeeps ==
    ASSUME NEW d, "inFlight" \in DOMAIN d
    PROVE  "inFlight" \in DOMAIN Pruned(d) /\ Pruned(d).inFlight = d.inFlight
BY DEF Pruned

LEMMA PenalisedKeeps ==
    ASSUME NEW d, "inFlight" \in DOMAIN d
    PROVE  "inFlight" \in DOMAIN Penalised(d) /\ Penalised(d).inFlight = d.inFlight
BY DEF Penalised

LEMMA ReleaseCounts ==
    ASSUME NEW d, "inFlight" \in DOMAIN d, d.inFlight \in Nat
    PROVE  /\ "inFlight" \in DOMAIN Release(d)
           /\ Release(d).inFlight = IF d.inFlight > 0 THEN d.inFlight - 1 ELSE 0
BY DEF Release

(* Of the requests counted for i, forgetting r removes r and no other. *)
LEMMA ForgetCounts ==
    ASSUME NEW map, IsFiniteSet(DOMAIN map), NEW r \in DOMAIN map, NEW i
    PROVE  /\ IsFiniteSet(CountedFor(map, i))
           /\ Cardinality(CountedFor(map, i)) \in Nat
           /\ map[r] = i => Cardinality(CountedFor(map, i)) > 0
           /\ map[r] = i => Cardinality(CountedFor(Forget(map, r), i))
                             = Cardinality(CountedFor(map, i)) - 1
           /\ map[r] # i => CountedFor(Forget(map, r), i) = CountedFor(map, i)
<1>1. IsFiniteSet(CountedFor(map, i))
    BY FS_Subset DEF CountedFor
<1>2. Cardinality(CountedFor(map, i)) \in Nat
    BY <1>1, FS_CardinalityType
<1>3. CASE map[r] = i
    <2>1. CountedFor(Forget(map, r), i) = CountedFor(map, i) \ {r}
        BY DEF CountedFor, Forget
    <2>2. r \in CountedFor(map, i)
        BY <1>3 DEF CountedFor
    <2>3. Cardinality(CountedFor(map, i)) > 0
        BY <1>1, <1>2, <2>2, FS_EmptySet
    <2> QED
        BY <1>1, <1>2, <1>3, <2>1, <2>2, <2>3, FS_RemoveElement
<1>4. CASE map[r] # i
    BY <1>1, <1>2, <1>4 DEF CountedFor, Forget
<1> QED
    BY <1>3, <1>4

(* What one event does to the counts: only the end of a request changes      *)
(* them, and then the count and the map together.                            *)
Ends(e) == e.type # "upstream.error"

LEMMA LearnKeeps ==
    ASSUME NEW s, Shape(s), NEW e, e.type \in Types, e.request \in DOMAIN s.inflight
    PROVE  LET t == Learn(s, e)
           IN  /\ Shape(t)
               /\ t.inflight = s.inflight \/ t.inflight = Forget(s.inflight, e.request)
               /\ ~Ends(e) => t.inflight = s.inflight
               /\ CountsAgree(s) => CountsAgree(t)
               /\ CountsAgree(s) /\ Ends(e) => t.inflight = Forget(s.inflight, e.request)
<1> DEFINE t == Learn(s, e)
           r == e.request
           i == s.inflight[r]
<1>1. DeploymentOf(s, e) = i /\ i \in D
    BY DEF DeploymentOf, Shape
<1>2. /\ DOMAIN s.dep = D
      /\ \A j \in D : "inFlight" \in DOMAIN s.dep[j] /\ s.dep[j].inFlight \in Nat
    BY DEF Shape
<1>3. \A map : map = s.inflight \/ map = Forget(s.inflight, r) =>
          /\ IsFiniteSet(DOMAIN map)
          /\ \A q \in DOMAIN map : q \in Requests /\ map[q] \in D
    BY FS_Subset DEF Shape, Forget
<1>4. \A j \in D :
          /\ Cardinality(CountedFor(s.inflight, j)) \in Nat
          /\ i = j => Cardinality(CountedFor(s.inflight, j)) > 0
          /\ i = j => Cardinality(CountedFor(Forget(s.inflight, r), j))
                       = Cardinality(CountedFor(s.inflight, j)) - 1
          /\ i # j => CountedFor(Forget(s.inflight, r), j) = CountedFor(s.inflight, j)
    BY ForgetCounts DEF Shape
(* Two shapes a step can have: it releases one request, or none. *)
<1>5. ASSUME t.inflight = Forget(s.inflight, r), DOMAIN t.dep = D,
             \A j \in D : "inFlight" \in DOMAIN t.dep[j],
             \A j \in D \ {i} : t.dep[j].inFlight = s.dep[j].inFlight,
             t.dep[i].inFlight = IF s.dep[i].inFlight > 0
                                 THEN s.dep[i].inFlight - 1 ELSE 0
      PROVE  Shape(t) /\ (CountsAgree(s) => CountsAgree(t))
    <2>1. \A j \in D : t.dep[j].inFlight \in Nat
        <3>1. s.dep[i].inFlight \in Nat
            BY ONLY <1>1, <1>2
        <3>2. t.dep[i].inFlight \in Nat
            BY ONLY <1>5, <3>1
        <3>3. \A j \in D \ {i} : t.dep[j].inFlight \in Nat
            BY ONLY <1>2, <1>5
        <3> QED
            BY ONLY <3>2, <3>3
    <2>2. Shape(t)
        BY <1>3, <1>5, <2>1 DEF Shape
    <2>3. ASSUME CountsAgree(s), NEW j \in D
          PROVE  t.dep[j].inFlight = Cardinality(CountedFor(t.inflight, j))
        <3>1. s.dep[j].inFlight = Cardinality(CountedFor(s.inflight, j))
            BY <2>3 DEF CountsAgree
        <3> HIDE DEF t, i, r
        <3>2. CASE i = j
            BY <1>4, <1>5, <2>3, <3>1, <3>2
        <3>3. CASE i # j
            BY <1>4, <1>5, <2>3, <3>1, <3>3
        <3> QED
            BY <3>2, <3>3
    <2> QED
        BY <2>2, <2>3 DEF CountsAgree
<1>6. ASSUME t.inflight = s.inflight, DOMAIN t.dep = D,
             \A j \in D : /\ "inFlight" \in DOMAIN t.dep[j]
                          /\ t.dep[j].inFlight = s.dep[j].inFlight
      PROVE  Shape(t) /\ (CountsAgree(s) => CountsAgree(t))
    BY <1>2, <1>6 DEF Shape, CountsAgree
<1>7. CASE e.type = "request.completed"
    <2>1. t = Completed(s, e)
        BY <1>1, <1>7 DEF Learn
    <2> DEFINE d == s.dep[i]
    <2>2. t.dep = [s.dep EXCEPT ![i] = Charged(Release(d), e.tokens)]
        BY <1>1, <2>1 DEF Completed
    <2>3. t.inflight = Forget(s.inflight, r)
        BY <2>1 DEF Completed
    <2>4. /\ "inFlight" \in DOMAIN Release(d)
          /\ Release(d).inFlight = IF d.inFlight > 0 THEN d.inFlight - 1 ELSE 0
        BY <1>1, <1>2, ReleaseCounts
    <2>5. t.dep[i] = Charged(Release(d), e.tokens)
        BY <1>1, <1>2, <2>2
    <2>6. "inFlight" \in DOMAIN t.dep[i] /\ t.dep[i].inFlight = Release(d).inFlight
        BY <2>4, <2>5 DEF Charged
    <2>7. DOMAIN t.dep = D /\ \A j \in D \ {i} : t.dep[j] = s.dep[j]
        BY <1>1, <1>2, <2>2
    <2>8. \A j \in D : "inFlight" \in DOMAIN t.dep[j]
        BY <1>2, <2>6, <2>7
    <2> HIDE DEF t
    <2>9. Shape(t) /\ (CountsAgree(s) => CountsAgree(t))
        BY <1>5, <2>3, <2>4, <2>6, <2>7, <2>8
    <2> QED
        BY <1>7, <2>3, <2>9 DEF t, Ends
<1>8. CASE e.type # "request.completed"
    <2> DEFINE d == s.dep[i]
               ends == e.type = "request.failed" /\ d.inFlight > 0
               x == IF ends THEN Release(d) ELSE d
    <2>1. t = Failed(s, e)
        BY <1>1, <1>8 DEF Learn
    <2>2. /\ t.dep = [s.dep EXCEPT ![i] = Penalised(x)]
          /\ t.inflight = IF ends THEN Forget(s.inflight, r) ELSE s.inflight
        BY <1>1, <2>1 DEF Failed
    <2>3. /\ "inFlight" \in DOMAIN x
          /\ x.inFlight = IF ends THEN d.inFlight - 1 ELSE d.inFlight
        BY <1>1, <1>2, ReleaseCounts
    <2>4. "inFlight" \in DOMAIN Penalised(x) /\ Penalised(x).inFlight = x.inFlight
        <3> PICK y : y = x
            OBVIOUS
        <3>1. "inFlight" \in DOMAIN Penalised(y) /\ Penalised(y).inFlight = y.inFlight
            BY <2>3, PenalisedKeeps
        <3> QED
            BY <3>1
    <2>5. DOMAIN t.dep = D /\ t.dep[i] = Penalised(x) /\ \A j \in D \ {i} : t.dep[j] = s.dep[j]
        BY <1>1, <1>2, <2>2
    <2>6. \A j \in D : "inFlight" \in DOMAIN t.dep[j]
        BY <1>2, <2>4, <2>5
    <2>7. CASE ends
        <3>1. t.inflight = Forget(s.inflight, r)
            BY <2>2, <2>7
        <3>2. t.dep[i].inFlight = IF d.inFlight > 0 THEN d.inFlight - 1 ELSE 0
            BY <2>3, <2>4, <2>5, <2>7
        <3> HIDE DEF t
        <3>3. Shape(t) /\ (CountsAgree(s) => CountsAgree(t))
            BY <1>5, <2>5, <2>6, <3>1, <3>2
        <3> QED
            BY <2>7, <3>1, <3>3 DEF t, Ends
    <2>8. CASE ~ends
        <3>1. t.inflight = s.inflight
            BY <2>2, <2>8
        <3>2. t.dep[i].inFlight = s.dep[i].inFlight
            BY <2>3, <2>4, <2>5, <2>8
        <3>3. ASSUME CountsAgree(s)
              PROVE  s.dep[i].inFlight > 0
            <4>1. s.dep[i].inFlight = Cardinality(CountedFor(s.inflight, i))
                BY <1>1, <3>3 DEF CountsAgree
            <4> QED
                BY <1>1, <1>4, <4>1
        <3>4. ~(CountsAgree(s) /\ Ends(e))
            BY <1>1, <1>2, <1>8, <2>8, <3>3 DEF Types, Ends
        <3> HIDE DEF t, d, ends, x
        <3>5. \A j \in D : t.dep[j].inFlight = s.dep[j].inFlight
            BY <2>5, <3>2
        <3>6. Shape(t) /\ (CountsAgree(s) => CountsAgree(t))
            BY <1>6, <2>5, <2>6, <3>1, <3>5
        <3> QED
            BY <3>1, <3>4, <3>6 DEF t
    <2> QED
        BY <2>7, <2>8
<1> QED
    BY <1>7, <1>8

(* The end of a request that never had a route teaches nothing.              *)
LEMMA LearnPasses ==
    ASSUME NEW s, NEW e, e.request \notin DOMAIN s.inflight, e.route = NoRoute
    PROVE  Learn(s, e) = s
BY DFinite DEF Learn, DeploymentOf

-----------------------------------------------------------------------------
(* A route is one of the deployments, and there is at least one.             *)
LEMMA OrdersAreRoutes ==
    ASSUME CandidateDeployments # {}, NEW s \in Orders(CandidateDeployments)
    PROVE  s \in Seq(D) /\ 1 \in DOMAIN s /\ s[1] \in D /\ Place(s[1]) \in D
<1> DEFINE C == CandidateDeployments
<1>1. C \subseteq D
    BY DEF CandidateDeployments
<1>2. IsFiniteSet(C) /\ C # {}
    BY <1>1, DFinite, FS_Subset
<1>3. Cardinality(C) \in Nat /\ Cardinality(C) # 0
    BY <1>2, FS_CardinalityType, FS_EmptySet
<1>4. s \in [1..Cardinality(C) -> C]
    BY DEF Orders
<1> HIDE DEF C
<1>5. s \in [1..Cardinality(C) -> D]
    BY <1>1, <1>4
<1>6. s \in Seq(D) /\ DOMAIN s = 1..Cardinality(C)
    BY <1>3, <1>5
<1>7. 1 \in DOMAIN s /\ s[1] \in D
    BY <1>3, <1>5, <1>6
<1> QED
    BY <1>6, <1>7, PlaceIsEntry

(* What is said of requests and events holds again when neither moved.       *)
LEMMA Elsewhere ==
    ASSUME IInv, UNCHANGED <<inflight, gateway, bus>>, Shape(Plugin)',
           configures' \in Nat, configures' = 0 => configures = 0,
           configures' = 0 => CountsAgree(Plugin)'
    PROVE  IInv'
BY DEF IInv, Queues, EventsCounted, EndsAreLast, TriedAreCounted, NewAreUnknown,
       EndsReported, Trying

LEMMA PruningKeeps ==
    ASSUME Shape(Plugin), dep' = [i \in D |-> Pruned(dep[i])], UNCHANGED inflight
    PROVE  Shape(Plugin)' /\ (CountsAgree(Plugin) => CountsAgree(Plugin)')
<1>1. \A i \in D : "inFlight" \in DOMAIN dep[i]
    BY DEF Shape, Plugin
<1>2. \A i \in D : "inFlight" \in DOMAIN dep'[i] /\ dep'[i].inFlight = dep[i].inFlight
    BY <1>1, PrunedKeeps
<1>3. DOMAIN dep' = D
    OBVIOUS
<1> QED
    BY <1>2, <1>3 DEF Shape, CountsAgree, Plugin

(* Counting a request that was not counted.                                  *)
LEMMA CountedAgrees ==
    ASSUME Shape(Plugin), NEW r \in Requests, r \notin DOMAIN inflight,
           NEW first \in D, Counted(r, first)
    PROVE  /\ Shape(Plugin)'
           /\ CountsAgree(Plugin) => CountsAgree(Plugin)'
           /\ DOMAIN inflight' = DOMAIN inflight \union {r}
<1>1. \A i \in D : "inFlight" \in DOMAIN dep[i] /\ dep[i].inFlight \in Nat
    BY DEF Shape, Plugin
<1>2. \A i \in D : "inFlight" \in DOMAIN Pruned(dep[i])
                   /\ Pruned(dep[i]).inFlight = dep[i].inFlight
    BY <1>1, PrunedKeeps
<1>3. DOMAIN dep' = D
    BY DEF Counted
<1>4. \A i \in D : /\ "inFlight" \in DOMAIN dep'[i]
                   /\ dep'[i].inFlight = IF i = first THEN dep[i].inFlight + 1
                                         ELSE dep[i].inFlight
    <2> TAKE i \in D
    <2>1. CASE i = first
        <3>1. dep'[i] = [Pruned(dep[i]) EXCEPT !.inFlight = @ + 1,
                                               !.requestTimes = Append(@, now)]
            BY <2>1 DEF Counted
        <3> QED
            BY <1>2, <2>1, <3>1
    <2>2. CASE i # first
        BY <1>2, <2>2 DEF Counted
    <2> QED
        BY <2>1, <2>2
<1>5. /\ DOMAIN inflight' = DOMAIN inflight \union {r}
      /\ inflight'[r] = first
      /\ \A q \in DOMAIN inflight : inflight'[q] = inflight[q]
    BY DEF Counted
<1>6. IsFiniteSet(DOMAIN inflight)
    BY DEF Shape, Plugin
<1>7. IsFiniteSet(DOMAIN inflight')
    BY <1>5, <1>6, FS_AddElement
<1>8. Shape(Plugin)'
    BY <1>1, <1>3, <1>4, <1>5, <1>7 DEF Shape, Plugin
<1>9. ASSUME CountsAgree(Plugin), NEW i \in D
      PROVE  dep'[i].inFlight = Cardinality(CountedFor(inflight', i))
    <2>1. dep[i].inFlight = Cardinality(CountedFor(inflight, i))
        BY <1>9 DEF CountsAgree, Plugin
    <2>2. CASE i = first
        <3>1. CountedFor(inflight', i) = CountedFor(inflight, i) \union {r}
            BY <1>5, <2>2 DEF CountedFor
        <3>2. r \notin CountedFor(inflight, i) /\ IsFiniteSet(CountedFor(inflight, i))
            BY <1>6, FS_Subset DEF CountedFor
        <3>3. Cardinality(CountedFor(inflight', i)) = Cardinality(CountedFor(inflight, i)) + 1
            BY <3>1, <3>2, FS_AddElement
        <3> QED
            BY <1>4, <2>1, <2>2, <3>3
    <2>3. CASE i # first
        <3>1. CountedFor(inflight', i) = CountedFor(inflight, i)
            BY <1>5, <2>3 DEF CountedFor
        <3> QED
            BY <1>4, <2>1, <2>3, <3>1
    <2> QED
        BY <2>2, <2>3
<1> QED
    BY <1>5, <1>8, <1>9 DEF CountsAgree, Plugin

-----------------------------------------------------------------------------
LEMMA InitIInv == Init => IInv
<1> SUFFICES ASSUME Init PROVE IInv
    OBVIOUS
<1>1. DOMAIN inflight = {} /\ inflight = [r \in DOMAIN inflight |-> inflight[r]]
    BY DEF Init
<1>2. \A i \in D : "inFlight" \in DOMAIN dep[i] /\ dep[i].inFlight = 0
    BY DEF Init, Unused
<1>3. DOMAIN dep = D
    BY DEF Init
<1>4. Shape(Plugin)
    BY <1>1, <1>2, <1>3, FS_EmptySet DEF Shape, Plugin
<1>5. \A i \in D : CountedFor(inflight, i) = {}
    BY <1>1 DEF CountedFor
<1>6. CountsAgree(Plugin)
    BY <1>2, <1>5, FS_EmptySet DEF CountsAgree, Plugin
<1>7. gateway \in [Requests -> [routes : Seq(D), at : Nat]] /\ bus = <<>> /\ configures = 0
    BY DEF Init, NewRequest
<1>8. \A r \in Requests : ~Trying(r)
    BY DEF Init, NewRequest, Trying
<1>9. Queues
    BY <1>1, <1>7 DEF Queues
<1> QED
    BY <1>1, <1>4, <1>6, <1>7, <1>8, <1>9
       DEF IInv, EventsCounted, EndsAreLast, TriedAreCounted, NewAreUnknown, EndsReported

LEMMA RouteKeeps == ASSUME IInv, NEW r \in Requests, Route(r) PROVE IInv'
<1>1. PICK s \in Orders(CandidateDeployments) :
          /\ Counted(r, Place(s[1]))
          /\ gateway' = [gateway EXCEPT ![r] = [routes |-> s, at |-> 1]]
    BY DEF Route
<1>2. s \in Seq(D) /\ 1 \in DOMAIN s /\ Place(s[1]) \in D
    BY OrdersAreRoutes DEF Route
<1>3. r \notin DOMAIN inflight
    BY DEF Route, IInv, NewAreUnknown
<1>4. /\ Shape(Plugin)'
      /\ CountsAgree(Plugin) => CountsAgree(Plugin)'
      /\ DOMAIN inflight' = DOMAIN inflight \union {r}
    BY <1>1, <1>2, <1>3, CountedAgrees DEF IInv
<1>5. UNCHANGED <<bus, configures>>
    BY DEF Route
<1>6. gateway \in [Requests -> [routes : Seq(D), at : Nat]]
    BY DEF IInv, Queues
<1>7. /\ gateway' \in [Requests -> [routes : Seq(D), at : Nat]]
      /\ Trying(r)' /\ gateway'[r] # NewRequest
      /\ \A q \in Requests \ {r} : gateway'[q] = gateway[q] /\ (Trying(q)' <=> Trying(q))
    BY <1>1, <1>2, <1>6 DEF Trying, NewRequest
<1>8. inflight' = [q \in DOMAIN inflight' |-> inflight'[q]]
    BY <1>1 DEF Counted
<1>9. \A n \in DOMAIN bus : bus[n].request # r
    BY DEF IInv, NewAreUnknown, Route
<1>10. Queues'
    BY <1>5, <1>7, <1>8 DEF IInv, Queues
<1>11. EventsCounted' /\ EndsAreLast'
    BY <1>4, <1>5 DEF IInv, EventsCounted, EndsAreLast
<1>12. TriedAreCounted'
    BY <1>4, <1>5, <1>7, <1>9 DEF IInv, TriedAreCounted
<1>13. NewAreUnknown'
    BY <1>4, <1>5, <1>7 DEF IInv, NewAreUnknown
<1>14. EndsReported'
    <2> SUFFICES ASSUME configures = 0, NEW q \in DOMAIN inflight'
                 PROVE  \/ Trying(q)'
                        \/ \E n \in DOMAIN bus : bus[n].request = q
                                                 /\ bus[n].type # "upstream.error"
        BY <1>5 DEF EndsReported
    <2>1. CASE q = r
        BY <1>7, <2>1
    <2>2. CASE q # r
        <3>1. q \in DOMAIN inflight /\ q \in Requests
            BY <1>4, <2>2 DEF IInv, Shape, Plugin
        <3> QED
            BY <1>7, <2>2, <3>1 DEF IInv, EndsReported
    <2> QED
        BY <2>1, <2>2
<1> QED
    BY <1>4, <1>5, <1>10, <1>11, <1>12, <1>13, <1>14 DEF IInv

LEMMA RouteToNoneKeeps == ASSUME IInv, NEW r \in Requests, RouteToNone(r) PROVE IInv'
<1>1. Shape(Plugin)' /\ (CountsAgree(Plugin) => CountsAgree(Plugin)')
    BY PruningKeeps DEF IInv, RouteToNone
<1>2. UNCHANGED <<inflight, configures>>
    BY DEF RouteToNone
<1>3. gateway \in [Requests -> [routes : Seq(D), at : Nat]] /\ bus \in Seq(EventRecord)
    BY DEF IInv, Queues
<1>4. /\ gateway' \in [Requests -> [routes : Seq(D), at : Nat]]
      /\ ~Trying(r)' /\ ~Trying(r) /\ gateway'[r] # NewRequest
      /\ \A q \in Requests \ {r} : gateway'[q] = gateway[q] /\ (Trying(q)' <=> Trying(q))
    BY <1>3 DEF RouteToNone, Trying, NewRequest, Ended
<1>5. PICK e : /\ bus' = Append(bus, e) /\ e \in EventRecord
               /\ e.request = r /\ e.route = NoRoute
    <2>1. bus' = Append(bus, Event("request.failed", r, NoRoute, 0))
        BY DEF RouteToNone
    <2>2. Event("request.failed", r, NoRoute, 0) \in EventRecord
        BY DEF Event, EventRecord, Types
    <2> QED
        BY <2>1, <2>2 DEF Event
<1>6. /\ bus' \in Seq(EventRecord) /\ Len(bus) \in Nat /\ DOMAIN bus = 1..Len(bus)
      /\ DOMAIN bus' = 1..(Len(bus) + 1) /\ bus'[Len(bus) + 1] = e
      /\ \A n \in DOMAIN bus : n \in DOMAIN bus' /\ bus'[n] = bus[n]
    BY <1>3, <1>5
<1>7. \A n \in DOMAIN bus' : n \in DOMAIN bus \/ (n = Len(bus) + 1 /\ bus'[n] = e)
    BY <1>6
<1>8. \A n \in DOMAIN bus : bus[n].request # r
    BY DEF IInv, NewAreUnknown, RouteToNone
<1>9. Queues'
    BY <1>2, <1>4, <1>6 DEF IInv, Queues
<1>10. EventsCounted'
    BY <1>2, <1>5, <1>6, <1>7 DEF IInv, EventsCounted
<1>11. EndsAreLast'
    <2> SUFFICES ASSUME NEW m \in DOMAIN bus', NEW n \in DOMAIN bus', m < n,
                        bus'[m].request = bus'[n].request
                 PROVE  bus'[m].type = "upstream.error"
        BY DEF EndsAreLast
    <2>1. m \in DOMAIN bus
        BY <1>6
    <2>2. n \in DOMAIN bus
        BY <1>5, <1>6, <1>7, <1>8, <2>1
    <2> QED
        BY <1>6, <2>1, <2>2 DEF IInv, EndsAreLast
<1>12. TriedAreCounted'
    <2> SUFFICES ASSUME NEW q \in Requests, Trying(q)'
                 PROVE  /\ q \in DOMAIN inflight
                        /\ \A n \in DOMAIN bus' : bus'[n].request = q =>
                                                  bus'[n].type = "upstream.error"
        BY <1>2 DEF TriedAreCounted
    <2>1. q # r /\ Trying(q)
        BY <1>4
    <2> QED
        BY <1>5, <1>6, <1>7, <2>1 DEF IInv, TriedAreCounted
<1>13. NewAreUnknown'
    BY <1>2, <1>4, <1>5, <1>6, <1>7 DEF IInv, NewAreUnknown
<1>14. DOMAIN inflight \subseteq Requests
    BY DEF IInv, Shape, Plugin
<1>15. EndsReported'
    <2>1. EndsReported /\ \A q \in Requests : Trying(q) => Trying(q)'
        BY <1>4 DEF IInv
    <2> QED
        BY ONLY <1>2, <1>6, <1>14, <2>1 DEF EndsReported
<1> QED
    BY <1>1, <1>2, <1>9, <1>10, <1>11, <1>12, <1>13, <1>15 DEF IInv

-----------------------------------------------------------------------------
(* What the gateway may report of a request it is trying: failed attempts,   *)
(* and an end exactly when it stops.                                         *)
LEMMA ReportKeeps ==
    ASSUME IInv, NEW r \in Requests, Trying(r), UNCHANGED <<plugin, configures>>,
           bus' \in Seq(EventRecord), Len(bus) < Len(bus'),
           \A n \in DOMAIN bus : bus'[n] = bus[n],
           \A n \in DOMAIN bus' \ DOMAIN bus :
               /\ bus'[n].request = r
               /\ n < Len(bus') \/ Trying(r)' => bus'[n].type = "upstream.error",
           ~Trying(r)' => bus'[Len(bus')].type # "upstream.error",
           gateway' \in [Requests -> [routes : Seq(D), at : Nat]],
           gateway'[r] # NewRequest,
           \A q \in Requests \ {r} : gateway'[q] = gateway[q]
    PROVE  IInv'
<1>1. bus \in Seq(EventRecord) /\ Len(bus) \in Nat /\ Len(bus') \in Nat
    BY DEF IInv, Queues
<1>2. DOMAIN bus \subseteq DOMAIN bus' /\ Len(bus') \in DOMAIN bus' \ DOMAIN bus
    BY <1>1
<1>3. \A m \in DOMAIN bus, n \in DOMAIN bus' : m < n \/ n \in DOMAIN bus \/ n > m
    BY <1>1
<1>4. r \in DOMAIN inflight /\ \A n \in DOMAIN bus : bus[n].request = r =>
                                                     bus[n].type = "upstream.error"
    BY DEF IInv, TriedAreCounted
<1>5. \A q \in Requests \ {r} : Trying(q)' <=> Trying(q)
    BY DEF Trying
<1>6. Shape(Plugin)' /\ (configures' = 0 => CountsAgree(Plugin)')
    BY DEF IInv, Shape, CountsAgree, Plugin, plugin
<1>7. Queues'
    BY DEF IInv, Queues, plugin
<1>8. EventsCounted'
    BY <1>4 DEF IInv, EventsCounted, plugin
<1>9. EndsAreLast'
    <2> SUFFICES ASSUME NEW m \in DOMAIN bus', NEW n \in DOMAIN bus', m < n,
                        bus'[m].request = bus'[n].request
                 PROVE  bus'[m].type = "upstream.error"
        BY DEF EndsAreLast
    <2>1. CASE n \in DOMAIN bus
        <3>1. m \in DOMAIN bus
            BY <1>1, <2>1
        <3> QED
            BY <2>1, <3>1 DEF IInv, EndsAreLast
    <2>2. CASE n \notin DOMAIN bus /\ m \in DOMAIN bus
        BY <1>4, <2>2
    <2>3. CASE n \notin DOMAIN bus /\ m \notin DOMAIN bus
        BY <1>1, <2>3
    <2> QED
        BY <2>1, <2>2, <2>3
<1>10. TriedAreCounted'
    <2> SUFFICES ASSUME NEW q \in Requests, Trying(q)'
                 PROVE  /\ q \in DOMAIN inflight
                        /\ \A n \in DOMAIN bus' : bus'[n].request = q =>
                                                  bus'[n].type = "upstream.error"
        BY DEF TriedAreCounted, plugin
    <2>1. CASE q = r
        BY <1>4, <2>1
    <2>2. CASE q # r
        BY <1>5, <2>2 DEF IInv, TriedAreCounted
    <2> QED
        BY <2>1, <2>2
<1>11. NewAreUnknown'
    <2> SUFFICES ASSUME NEW q \in Requests, gateway'[q] = NewRequest
                 PROVE  /\ q \notin DOMAIN inflight
                        /\ \A n \in DOMAIN bus' : bus'[n].request # q
        BY DEF NewAreUnknown, plugin
    <2>1. q # r /\ gateway[q] = NewRequest
        OBVIOUS
    <2> QED
        BY <2>1 DEF IInv, NewAreUnknown
<1>12. EndsReported'
    <2> SUFFICES ASSUME configures = 0, NEW q \in DOMAIN inflight
                 PROVE  \/ Trying(q)'
                        \/ \E n \in DOMAIN bus' : bus'[n].request = q
                                                  /\ bus'[n].type # "upstream.error"
        BY DEF EndsReported, plugin
    <2>1. CASE q = r
        BY <1>2, <2>1
    <2>2. CASE q # r
        <3>1. q \in Requests
            BY DEF IInv, Shape, Plugin
        <3>2. \/ Trying(q)
              \/ \E n \in DOMAIN bus : bus[n].request = q /\ bus[n].type # "upstream.error"
            BY DEF IInv, EndsReported
        <3>3. Trying(q) => Trying(q)'
            BY <1>5, <2>2, <3>1
        <3> QED
            BY <1>2, <3>2, <3>3
    <2> QED
        BY <2>1, <2>2
<1> QED
    BY <1>6, <1>7, <1>8, <1>9, <1>10, <1>11, <1>12 DEF IInv

LEMMA EventsAreRecords ==
    ASSUME IInv, NEW r \in Requests, Trying(r), NEW type \in Types, NEW tokens \in Nat
    PROVE  /\ Event(type, r, Tried(r), tokens) \in EventRecord
           /\ Event(type, r, Tried(r), tokens).type = type
           /\ Event(type, r, Tried(r), tokens).request = r
<1>1. gateway[r].routes \in Seq(D) /\ gateway[r].at \in DOMAIN gateway[r].routes
    BY DEF IInv, Queues, Trying
<1>2. gateway[r].routes[gateway[r].at] \in D
    BY <1>1
<1>3. Tried(r) \in D
    BY <1>2, PlaceIsEntry DEF Tried
<1> QED
    BY <1>3 DEF Event, EventRecord

LEMMA SuccessKeeps == ASSUME IInv, NEW r \in Requests, AttemptSucceeds(r) PROVE IInv'
<1>1. PICK tokens \in Usage : bus' = Append(bus, Event("request.completed", r, Tried(r), tokens))
    BY DEF AttemptSucceeds
<1> DEFINE e == Event("request.completed", r, Tried(r), tokens)
<1>2. Trying(r) /\ UNCHANGED <<plugin, configures>>
    BY DEF AttemptSucceeds
<1>3. tokens \in Nat
    BY TimeAssumption
<1>4. e \in EventRecord /\ e.type = "request.completed" /\ e.request = r
    BY <1>2, <1>3, EventsAreRecords DEF Types
<1> HIDE DEF e
<1>5. bus \in Seq(EventRecord) /\ gateway \in [Requests -> [routes : Seq(D), at : Nat]]
    BY DEF IInv, Queues
<1>6. /\ bus' \in Seq(EventRecord) /\ Len(bus') = Len(bus) + 1
      /\ \A n \in DOMAIN bus : bus'[n] = bus[n]
      /\ bus'[Len(bus')] = e
    BY <1>1, <1>4, <1>5 DEF e
<1>7. Len(bus) < Len(bus') /\ \A n \in DOMAIN bus' \ DOMAIN bus : n = Len(bus')
    BY <1>5, <1>6
<1>8. gateway' = [gateway EXCEPT ![r] = Ended]
    BY DEF AttemptSucceeds
<1>9. /\ gateway' \in [Requests -> [routes : Seq(D), at : Nat]]
      /\ gateway'[r] # NewRequest /\ ~Trying(r)'
      /\ \A q \in Requests \ {r} : gateway'[q] = gateway[q]
    BY <1>5, <1>8 DEF Ended, NewRequest, Trying
<1>10. \A n \in DOMAIN bus' \ DOMAIN bus :
           /\ bus'[n].request = r
           /\ n < Len(bus') \/ Trying(r)' => bus'[n].type = "upstream.error"
    BY <1>4, <1>5, <1>6, <1>7, <1>9
<1>11. bus'[Len(bus')].type # "upstream.error"
    BY <1>4, <1>6
<1> QED
    BY <1>2, <1>6, <1>7, <1>9, <1>10, <1>11, ReportKeeps

LEMMA FailureKeeps == ASSUME IInv, NEW r \in Requests, AttemptFails(r) PROVE IInv'
<1> DEFINE s == gateway[r].routes
           n == gateway[r].at
           error == Event("upstream.error", r, Tried(r), 0)
           end == Event("request.failed", r, Tried(r), 0)
<1>1. Trying(r) /\ UNCHANGED <<plugin, configures>>
    BY DEF AttemptFails
<1>2. /\ error \in EventRecord /\ error.type = "upstream.error" /\ error.request = r
      /\ end \in EventRecord /\ end.type = "request.failed" /\ end.request = r
    BY <1>1, EventsAreRecords DEF Types
<1>3. bus \in Seq(EventRecord) /\ gateway \in [Requests -> [routes : Seq(D), at : Nat]]
    BY DEF IInv, Queues
<1>4. n \in DOMAIN s /\ s \in Seq(D) /\ n \in Nat
    BY <1>1, <1>3 DEF Trying
<1>5. CASE n < Len(s)
    <2>1. bus' = Append(bus, error) /\ gateway' = [gateway EXCEPT ![r].at = n + 1]
        BY <1>5 DEF AttemptFails
    <2>2. /\ gateway' \in [Requests -> [routes : Seq(D), at : Nat]]
          /\ gateway'[r].routes = s /\ gateway'[r].at = n + 1
          /\ \A q \in Requests \ {r} : gateway'[q] = gateway[q]
        <3> DEFINE g == [gateway[r] EXCEPT !.at = n + 1]
        <3>1. g \in [routes : Seq(D), at : Nat] /\ g.routes = s /\ g.at = n + 1
            BY <1>3, <1>4
        <3>2. gateway' = [gateway EXCEPT ![r] = g]
            BY <2>1
        <3> HIDE DEF g
        <3> QED
            BY <1>3, <3>1, <3>2
    <2>3. gateway'[r] # NewRequest /\ Trying(r)'
        BY <1>4, <1>5, <2>2 DEF NewRequest, Trying
    <2> HIDE DEF error, s, n
    <2>4. /\ bus' \in Seq(EventRecord) /\ Len(bus') = Len(bus) + 1
          /\ \A k \in DOMAIN bus : bus'[k] = bus[k]
          /\ bus'[Len(bus')] = error
        BY <1>2, <1>3, <2>1
    <2>5. Len(bus) < Len(bus') /\ \A k \in DOMAIN bus' \ DOMAIN bus : k = Len(bus')
        BY <1>3, <2>4
    <2>6. \A k \in DOMAIN bus' \ DOMAIN bus :
              /\ bus'[k].request = r
              /\ k < Len(bus') \/ Trying(r)' => bus'[k].type = "upstream.error"
        BY <1>2, <2>4, <2>5
    <2> QED
        BY <1>1, <2>2, <2>3, <2>4, <2>5, <2>6, ReportKeeps
<1>6. CASE ~(n < Len(s))
    <2>1. bus' = bus \o <<error, end>> /\ gateway' = [gateway EXCEPT ![r] = Ended]
        BY <1>6 DEF AttemptFails
    <2>2. /\ gateway' \in [Requests -> [routes : Seq(D), at : Nat]]
          /\ gateway'[r] # NewRequest /\ ~Trying(r)'
          /\ \A q \in Requests \ {r} : gateway'[q] = gateway[q]
        BY <1>3, <2>1 DEF Ended, NewRequest, Trying
    <2> HIDE DEF error, end, s, n
    <2>3. <<error, end>> \in Seq(EventRecord) /\ Len(<<error, end>>) = 2
        BY <1>2
    <2>4. /\ bus' \in Seq(EventRecord) /\ Len(bus') = Len(bus) + 2
          /\ \A k \in DOMAIN bus : bus'[k] = bus[k]
          /\ bus'[Len(bus) + 1] = error /\ bus'[Len(bus')] = end
        BY <1>3, <2>1, <2>3
    <2>5. /\ Len(bus) < Len(bus')
          /\ \A k \in DOMAIN bus' \ DOMAIN bus : k = Len(bus) + 1 \/ k = Len(bus')
        BY <1>3, <2>4
    <2>6. \A k \in DOMAIN bus' \ DOMAIN bus :
              /\ bus'[k].request = r
              /\ k < Len(bus') \/ Trying(r)' => bus'[k].type = "upstream.error"
        BY <1>2, <1>3, <2>2, <2>4, <2>5
    <2>7. bus'[Len(bus')].type # "upstream.error"
        BY <1>2, <2>4
    <2> QED
        BY <1>1, <2>2, <2>4, <2>5, <2>6, <2>7, ReportKeeps
<1> QED
    BY <1>5, <1>6

-----------------------------------------------------------------------------
(* The state t of the plugin after the first k events on the bus: a request  *)
(* is counted as before unless one of them ended it, and then it is not.     *)
AfterEvents(t, k) ==
    /\ Shape(t)
    /\ CountsAgree(Plugin) => CountsAgree(t)
    /\ t.inflight = [q \in DOMAIN t.inflight |-> inflight[q]]
    /\ DOMAIN t.inflight \subseteq DOMAIN inflight
    /\ \A q \in DOMAIN inflight :
           (\A m \in 1..k : bus[m].request = q => ~Ends(bus[m])) => q \in DOMAIN t.inflight
    /\ CountsAgree(Plugin) =>
           \A m \in 1..k : Ends(bus[m]) => bus[m].request \notin DOMAIN t.inflight

LEMMA OneMoreEvent ==
    ASSUME IInv, NEW k \in Nat, k + 1 \in DOMAIN bus, NEW t, AfterEvents(t, k)
    PROVE  AfterEvents(Learn(t, bus[k + 1]), k + 1)
<1> DEFINE e == bus[k + 1]
           u == Learn(t, e)
<1>1. bus \in Seq(EventRecord) /\ e.type \in Types
    <2>1. bus \in Seq(EventRecord)
        BY DEF IInv, Queues
    <2>2. e \in EventRecord
        BY <2>1
    <2> QED
        BY <2>1, <2>2 DEF EventRecord
<1>2. \A m \in 1..k : m \in DOMAIN bus /\ m < k + 1
    BY <1>1
<1>3. e.request \in DOMAIN inflight \/ e.route = NoRoute
    BY DEF IInv, EventsCounted
<1>4. \A m \in 1..k : bus[m].request = e.request => ~Ends(bus[m])
    BY <1>2 DEF IInv, EndsAreLast, Ends
<1>5. \/ e.request \in DOMAIN t.inflight
      \/ e.route = NoRoute /\ e.request \notin DOMAIN t.inflight
    BY <1>3, <1>4 DEF AfterEvents
<1> HIDE DEF e
<1>6. /\ Shape(u)
      /\ u.inflight = t.inflight \/ u.inflight = Forget(t.inflight, e.request)
      /\ ~Ends(e) => u.inflight = t.inflight
      /\ CountsAgree(t) => CountsAgree(u)
      /\ CountsAgree(t) /\ Ends(e) => e.request \notin DOMAIN u.inflight
    <2>1. CASE e.request \in DOMAIN t.inflight
        <3>1. /\ Shape(u)
              /\ u.inflight = t.inflight \/ u.inflight = Forget(t.inflight, e.request)
              /\ ~Ends(e) => u.inflight = t.inflight
              /\ CountsAgree(t) => CountsAgree(u)
              /\ CountsAgree(t) /\ Ends(e) => u.inflight = Forget(t.inflight, e.request)
            BY <1>1, <2>1, LearnKeeps DEF AfterEvents
        <3>2. e.request \notin DOMAIN Forget(t.inflight, e.request)
            BY DEF Forget
        <3> HIDE DEF u
        <3> QED
            BY ONLY <3>1, <3>2
    <2>2. CASE e.request \notin DOMAIN t.inflight
        <3>1. u = t
            BY <1>5, <2>2, LearnPasses
        <3> QED
            BY <2>2, <3>1 DEF AfterEvents
    <2> QED
        BY <2>1, <2>2
<1> HIDE DEF u
<1>7. /\ DOMAIN Forget(t.inflight, e.request) = DOMAIN t.inflight \ {e.request}
      /\ Forget(t.inflight, e.request)
           = [q \in DOMAIN t.inflight \ {e.request} |-> inflight[q]]
    BY DEF Forget, AfterEvents
<1>8. /\ u.inflight = [q \in DOMAIN u.inflight |-> inflight[q]]
      /\ DOMAIN u.inflight \subseteq DOMAIN inflight
    BY <1>6, <1>7 DEF AfterEvents
<1>9. \A m \in 1..(k + 1) : m \in 1..k \/ bus[m] = e
    BY DEF e
<1>10. ASSUME NEW q \in DOMAIN inflight,
              \A m \in 1..(k + 1) : bus[m].request = q => ~Ends(bus[m])
       PROVE  q \in DOMAIN u.inflight
    <2>1. \A m \in 1..k : m \in 1..(k + 1)
        OBVIOUS
    <2>2. q \in DOMAIN t.inflight
        BY <1>10, <2>1 DEF AfterEvents
    <2>3. e.request = q => ~Ends(e)
        BY <1>10 DEF e
    <2> QED
        BY <1>6, <1>7, <2>2, <2>3
<1>11. ASSUME CountsAgree(Plugin), NEW m \in 1..(k + 1), Ends(bus[m])
       PROVE  bus[m].request \notin DOMAIN u.inflight
    <2>1. CASE m \in 1..k
        <3>1. bus[m].request \notin DOMAIN t.inflight
            BY <1>11, <2>1 DEF AfterEvents
        <3> QED
            BY <1>6, <1>7, <3>1
    <2>2. CASE bus[m] = e
        BY <1>6, <1>7, <1>11, <2>2 DEF AfterEvents
    <2> QED
        BY <1>9, <2>1, <2>2
<1>12. CountsAgree(Plugin) => CountsAgree(u)
    BY <1>6 DEF AfterEvents
<1>13. AfterEvents(u, k + 1)
    BY <1>6, <1>8, <1>10, <1>11, <1>12 DEF AfterEvents
<1> QED
    BY <1>13 DEF u, e

LEMMA EmitKeeps == ASSUME IInv, NEW n \in 1..2, Emit(n) PROVE IInv'
<1> DEFINE one == Learn(Plugin, bus[1])
           after == IF n = 1 THEN one ELSE Learn(one, bus[2])
<1>1. /\ n <= Len(bus)
      /\ dep' = [i \in D |-> Pruned(after.dep[i])]
      /\ inflight' = after.inflight
      /\ bus' = SubSeq(bus, n + 1, Len(bus))
      /\ UNCHANGED <<configures, gateway>>
    BY DEF Emit, Plugin
<1>2. bus \in Seq(EventRecord) /\ Len(bus) \in Nat
    BY DEF IInv, Queues
<1>3. AfterEvents(Plugin, 0)
    BY DEF IInv, Queues, AfterEvents, Plugin
<1>4. AfterEvents(one, 1)
    <2>1. 0 + 1 \in DOMAIN bus /\ 0 + 1 = 1
        BY <1>1, <1>2
    <2> HIDE DEF one
    <2>2. AfterEvents(Learn(Plugin, bus[0 + 1]), 0 + 1)
        BY <1>3, <2>1, OneMoreEvent
    <2> QED
        BY <2>2 DEF one
<1> HIDE DEF one
<1>5. AfterEvents(after, n)
    <2>1. CASE n = 1
        BY <1>4, <2>1
    <2>2. CASE n = 2
        <3>1. 1 + 1 \in DOMAIN bus /\ 1 + 1 = 2
            BY <1>1, <1>2, <2>2
        <3>2. AfterEvents(Learn(one, bus[1 + 1]), 1 + 1)
            BY <1>4, <3>1, OneMoreEvent
        <3> QED
            BY <2>2, <3>2
    <2> QED
        BY <2>1, <2>2
<1> HIDE DEF after
<1>6. \A i \in D : "inFlight" \in DOMAIN after.dep[i] /\ after.dep[i].inFlight \in Nat
    BY <1>5 DEF AfterEvents, Shape
<1>7. \A i \in D : "inFlight" \in DOMAIN dep'[i] /\ dep'[i].inFlight = after.dep[i].inFlight
    BY <1>1, <1>6, PrunedKeeps
<1>8. DOMAIN dep' = D
    BY <1>1
<1>9. Shape(Plugin)'
    BY <1>1, <1>5, <1>6, <1>7, <1>8 DEF AfterEvents, Shape, Plugin
<1>10. CountsAgree(Plugin) => CountsAgree(Plugin)'
    BY <1>1, <1>5, <1>7 DEF AfterEvents, CountsAgree, Plugin
<1>11. /\ bus' \in Seq(EventRecord) /\ Len(bus') = Len(bus) - n
       /\ \A m \in DOMAIN bus' : m + n \in DOMAIN bus /\ bus'[m] = bus[m + n]
    BY <1>1, <1>2
<1>12. \A m \in 1..n : m \in DOMAIN bus
    BY <1>1, <1>2
<1>13. \A m \in DOMAIN bus : m \in 1..n \/ (m - n \in DOMAIN bus' /\ bus'[m - n] = bus[m])
    BY <1>1, <1>2, <1>11
<1>14. Queues'
    BY <1>1, <1>5, <1>11 DEF IInv, Queues, AfterEvents
<1>15. EventsCounted'
    <2> SUFFICES ASSUME NEW k \in DOMAIN bus'
                 PROVE  bus'[k].request \in DOMAIN inflight' \/ bus'[k].route = NoRoute
        BY DEF EventsCounted
    <2>1. bus'[k] = bus[k + n] /\ k + n \in DOMAIN bus
        BY <1>11
    <2>2. \A m \in 1..n : m < k + n
        BY <1>2, <1>11
    <2>3. \A m \in 1..n : bus[m].request = bus[k + n].request => ~Ends(bus[m])
        BY <1>12, <2>1, <2>2 DEF IInv, EndsAreLast, Ends
    <2>4. bus[k + n].request \in DOMAIN inflight \/ bus[k + n].route = NoRoute
        BY <2>1 DEF IInv, EventsCounted
    <2> QED
        BY <1>1, <1>5, <2>1, <2>3, <2>4 DEF AfterEvents
<1>16. EndsAreLast'
    <2> SUFFICES ASSUME NEW m \in DOMAIN bus', NEW k \in DOMAIN bus', m < k,
                        bus'[m].request = bus'[k].request
                 PROVE  bus'[m].type = "upstream.error"
        BY DEF EndsAreLast
    <2>1. m + n \in DOMAIN bus /\ k + n \in DOMAIN bus /\ m + n < k + n
        BY <1>2, <1>11
    <2> QED
        BY <1>11, <2>1 DEF IInv, EndsAreLast
<1>17. TriedAreCounted'
    <2> SUFFICES ASSUME NEW r \in Requests, Trying(r)
                 PROVE  /\ r \in DOMAIN inflight'
                        /\ \A m \in DOMAIN bus' : bus'[m].request = r =>
                                                  bus'[m].type = "upstream.error"
        BY <1>1 DEF TriedAreCounted, Trying
    <2>1. /\ r \in DOMAIN inflight
          /\ \A m \in DOMAIN bus : bus[m].request = r => bus[m].type = "upstream.error"
        BY DEF IInv, TriedAreCounted
    <2>2. \A m \in 1..n : bus[m].request = r => ~Ends(bus[m])
        BY <1>12, <2>1 DEF Ends
    <2> QED
        BY <1>1, <1>5, <1>11, <2>1, <2>2 DEF AfterEvents
<1>18. NewAreUnknown'
    BY <1>1, <1>5, <1>11 DEF IInv, NewAreUnknown, AfterEvents
<1>19. EndsReported'
    <2> SUFFICES ASSUME configures = 0, NEW r \in DOMAIN inflight', ~Trying(r)
                 PROVE  \E m \in DOMAIN bus' : bus'[m].request = r
                                               /\ bus'[m].type # "upstream.error"
        BY <1>1 DEF EndsReported, Trying
    <2>1. r \in DOMAIN inflight
        BY <1>1, <1>5 DEF AfterEvents
    <2>2. PICK m \in DOMAIN bus : bus[m].request = r /\ bus[m].type # "upstream.error"
        BY <2>1 DEF IInv, EndsReported
    <2>3. m \notin 1..n
        BY <1>1, <1>5, <2>2 DEF IInv, AfterEvents, Ends
    <2>4. m - n \in DOMAIN bus' /\ bus'[m - n] = bus[m]
        BY <1>13, <2>3
    <2> QED
        BY <2>2, <2>4
<1>20. configures' = 0 => CountsAgree(Plugin)'
    BY <1>1, <1>10 DEF IInv
<1> QED
    BY <1>9, <1>14, <1>15, <1>16, <1>17, <1>18, <1>19, <1>20 DEF IInv

-----------------------------------------------------------------------------
LEMMA NextIInv == IInv /\ [Next]_vars => IInv'
<1> SUFFICES ASSUME IInv, [Next]_vars PROVE IInv'
    OBVIOUS
<1>1. configures \in Nat
    BY DEF IInv, Queues
<1>2. CASE Tick \/ UNCHANGED vars
    <2>1. UNCHANGED <<dep, inflight, gateway, bus, configures>>
        BY <1>2 DEF Tick, vars, plugin
    <2>2. UNCHANGED Plugin
        BY <2>1 DEF Plugin
    <2>3. Shape(Plugin)' /\ (configures' = 0 => CountsAgree(Plugin)')
        BY <2>1, <2>2 DEF IInv, Shape, CountsAgree
    <2> QED
        BY <1>1, <2>1, <2>3, Elsewhere
<1>3. CASE Configure
    <2>1. /\ dep' = [i \in D |-> Unused] /\ configures' = configures + 1
          /\ UNCHANGED <<inflight, gateway, bus>>
        BY <1>3 DEF Configure
    <2>2. Shape(Plugin)'
        BY <2>1 DEF IInv, Shape, Plugin, Unused
    <2> QED
        BY <1>1, <2>1, <2>2, Elsewhere
<1>4. ASSUME NEW r \in Requests, Route(r) PROVE IInv'
    BY <1>4, RouteKeeps
<1>5. ASSUME NEW r \in Requests, RouteToNone(r) PROVE IInv'
    BY <1>5, RouteToNoneKeeps
<1>6. ASSUME NEW r \in Requests, AttemptSucceeds(r) PROVE IInv'
    BY <1>6, SuccessKeeps
<1>7. ASSUME NEW r \in Requests, AttemptFails(r) PROVE IInv'
    BY <1>7, FailureKeeps
<1>8. ASSUME NEW n \in 1..2, Emit(n) PROVE IInv'
    BY <1>8, EmitKeeps
<1> QED
    BY <1>2, <1>3, <1>4, <1>5, <1>6, <1>7, <1>8 DEF Next

LEMMA Inductive == Spec => []IInv
BY InitIInv, NextIInv, PTL DEF Spec

(* The count that least-busy goes by is the number of requests the plugin    *)
(* holds for the deployment (main.go:123-130, :165-185).                     *)
THEOREM CountsMatch == Spec => []InFlightCounts
<1>1. IInv => InFlightCounts
    BY DEF IInv, CountsAgree, CountedFor, Plugin, InFlightCounts
<1> QED
    BY <1>1, Inductive, PTL

(* When all requests have ended and their events have been delivered, no     *)
(* deployment is taken for busy (main.go:166-185).                           *)
THEOREM AllReleased == Spec => []NothingLeaks
<1>1. IInv => NothingLeaks
    <2> SUFFICES ASSUME IInv, configures = 0, bus = <<>>, \A r \in Requests : ~Trying(r)
                 PROVE  inflight = <<>> /\ \A i \in D : dep[i].inFlight = 0
        BY DEF NothingLeaks
    <2>1. DOMAIN inflight = {}
        <3> SUFFICES ASSUME NEW r \in DOMAIN inflight PROVE FALSE
            OBVIOUS
        <3>1. r \in Requests
            BY DEF IInv, Shape, Plugin
        <3>2. \E n \in DOMAIN bus : bus[n].request = r
            BY <3>1 DEF IInv, EndsReported
        <3>3. DOMAIN bus = {}
            OBVIOUS
        <3> QED
            BY <3>2, <3>3
    <2>2. inflight = <<>>
        <3>1. inflight \in Seq({})
            BY <2>1 DEF IInv, Queues
        <3> QED
            BY <2>1, <3>1
    <2>3. ASSUME NEW i \in D PROVE dep[i].inFlight = 0
        <3>1. CountedFor(inflight, i) = {}
            BY <2>1 DEF CountedFor
        <3> QED
            BY <3>1, FS_EmptySet DEF IInv, CountsAgree, Plugin
    <2> QED
        BY <2>2, <2>3
<1> QED
    BY <1>1, Inductive, PTL

-----------------------------------------------------------------------------
(* What is left after a cutoff. *)

LEMMA AfterShorter ==
    ASSUME NEW A, NEW times \in Seq(A), NEW cutoff
    PROVE  /\ After(times, cutoff) \in Seq(A)
           /\ Len(After(times, cutoff)) <= Len(times)
           /\ \A i \in 1..Len(After(times, cutoff)) :
                  \E n \in 1..Len(times) : After(times, cutoff)[i] = times[n]
<1> DEFINE S == {n \in DOMAIN times : times[n] > cutoff}
           K == Kept(times, S)
           In == {n \in 1..Len(times) : n \in S}
<1>1. K \in Seq(A) /\ Len(K) = Cardinality(In)
    BY KeptIsSeq, KeptLength
<1>2. {K[i] : i \in 1..Len(K)} = {times[n] : n \in In}
    BY KeptMembers
<1>3. Len(times) \in Nat /\ IsFiniteSet(1..Len(times))
      /\ Cardinality(1..Len(times)) = Len(times)
    <2>1. Len(times) \in Nat
        OBVIOUS
    <2>2. /\ IsFiniteSet(1..Len(times))
          /\ Cardinality(1..Len(times)) = IF 1 > Len(times) THEN 0 ELSE Len(times) - 1 + 1
        BY <2>1, FS_Interval
    <2> QED
        BY <2>1, <2>2
<1>4. Cardinality(In) <= Len(times)
    BY <1>3, FS_Subset
<1>5. \A i \in 1..Len(K) : \E n \in In : K[i] = times[n]
    BY <1>2
<1>6. After(times, cutoff) = K
    BY DEF After
<1> HIDE DEF S, K
<1> QED
    BY <1>1, <1>4, <1>5, <1>6

LEMMA AfterAppend ==
    ASSUME NEW A, NEW times \in Seq(A), NEW x \in A, NEW cutoff
    PROVE  After(Append(times, x), cutoff)
             = IF x > cutoff THEN Append(After(times, cutoff), x) ELSE After(times, cutoff)
<1> DEFINE t == Append(times, x)
           S == {n \in DOMAIN times : times[n] > cutoff}
           T == {n \in DOMAIN t : t[n] > cutoff}
<1>1. /\ DOMAIN times = 1..Len(times) /\ DOMAIN t = 1..(Len(times) + 1) /\ Len(times) \in Nat
      /\ t[Len(times) + 1] = x /\ \A n \in 1..Len(times) : t[n] = times[n]
    OBVIOUS
<1>2. Kept(t, T) = IF Len(times) + 1 \in T THEN Append(Kept(times, T), x) ELSE Kept(times, T)
    <2> PICK U : U = T
        OBVIOUS
    <2>1. Kept(t, U) = IF Len(times) + 1 \in U THEN Append(Kept(times, U), x) ELSE Kept(times, U)
        BY ONLY times \in Seq(A), x \in A, KeptAppend
    <2> QED
        BY ONLY <2>1, U = T
<1>3. Len(times) + 1 \in T <=> x > cutoff
    BY <1>1
<1>4. \A n \in 1..Len(times) : n \in T <=> n \in S
    BY <1>1
<1>5. Kept(times, T) = Kept(times, S)
    BY <1>4, KeptSame
<1> QED
    BY <1>2, <1>3, <1>5 DEF After

LEMMA AfterEmpty == \A cutoff : After(<<>>, cutoff) = <<>>
BY KeptEmpty DEF After

(* A later cutoff leaves of what an earlier one left what it leaves of all.  *)
LEMMA AfterTwice ==
    ASSUME NEW times \in Seq(Int), NEW a \in Int, NEW b \in Int, a <= b
    PROVE  After(After(times, a), b) = After(times, b)
<1> DEFINE Bad == {t \in Seq(Int) : After(After(t, a), b) # After(t, b)}
<1> SUFFICES ASSUME Bad # {} PROVE FALSE
    OBVIOUS
<1>1. PICK t \in Bad : \/ t = <<>>
                       \/ \E r \in Seq(Int), x \in Int : t = Append(r, x) /\ r \notin Bad
    BY LeastSequence
<1>2. CASE t = <<>>
    BY <1>2, AfterEmpty
<1>3. ASSUME NEW r \in Seq(Int), NEW x \in Int, t = Append(r, x), r \notin Bad
      PROVE  FALSE
    <2>1. After(After(r, a), b) = After(r, b) /\ After(r, a) \in Seq(Int)
        BY <1>3, AfterShorter
    <2>2. \A c : After(Append(r, x), c) = IF x > c THEN Append(After(r, c), x) ELSE After(r, c)
        BY ONLY r \in Seq(Int), x \in Int, AfterAppend
    <2>3. After(Append(After(r, a), x), b)
            = IF x > b THEN Append(After(After(r, a), b), x) ELSE After(After(r, a), b)
        <3> PICK q : q = After(r, a)
            OBVIOUS
        <3>1. After(Append(q, x), b) = IF x > b THEN Append(After(q, b), x) ELSE After(q, b)
            <4>1. q \in Seq(Int)
                BY ONLY <2>1, q = After(r, a)
            <4> QED
                BY ONLY <4>1, x \in Int, AfterAppend
        <3> QED
            BY ONLY <3>1, q = After(r, a)
    <2>4. After(After(t, a), b) # After(t, b)
        OBVIOUS
    <2>5. x > b => x > a
        OBVIOUS
    <2> HIDE DEF Bad
    <2> QED
        BY <1>3, <2>1, <2>2, <2>3, <2>4, <2>5
<1> QED
    BY <1>1, <1>2, <1>3

(* So pruning cannot be noticed by whoever looks later. *)
LEMMA PruningUnseen ==
    ASSUME NEW s \in Seq(Int), NEW t \in Seq(Int), NEW a \in Int, NEW b \in Int, a <= b,
           After(s, a) = After(t, a)
    PROVE  /\ After(s, b) = After(t, b)
           /\ Len(After(t, b)) <= Len(After(t, a))
<1>1. After(s, b) = After(After(s, a), b) /\ After(t, b) = After(After(t, a), b)
    BY AfterTwice
<1>2. After(t, a) \in Seq(Int)
    BY AfterShorter
<1>3. Len(After(After(t, a), b)) <= Len(After(t, a))
    BY <1>2, AfterShorter
<1> QED
    BY <1>1, <1>3

-----------------------------------------------------------------------------
(* The invariant about what is learnt, for a state s of the plugin: times    *)
(* are of the past, and as long as enough failures are on record the         *)
(* deployment cools down for the cooldown time after each of them.           *)
DeploymentType(t) ==
    [inFlight : Nat, cooldownUntil : Nat, failures : Seq(0..t), requestTimes : Seq(0..t),
     tokenEvents : Seq([at : 0..t, tokens : Nat])]

Cools(d) ==
    Len(d.failures) >= AllowedFails =>
        \A n \in 1..Len(d.failures) : d.cooldownUntil >= d.failures[n] + CooldownTime

Learned(s) ==
    /\ s.dep \in [D -> DeploymentType(now)]
    /\ \A i \in D : Cools(s.dep[i])
    /\ \A r \in DOMAIN s.inflight : s.inflight[r] \in D

(* The plugin remembers every first choice of the last minute. *)
Remembered ==
    \A i \in D : After(dep[i].requestTimes, now - Minute) = After(chosen[i], now - Minute)

TimesInv == /\ now \in Nat
            /\ Learned(Plugin)
            /\ chosen \in [D -> Seq(0..now)]
            /\ configures = 0 => Remembered
            /\ RpmOfFirstChoices

LEMMA PrunedTyped ==
    ASSUME now \in Nat, NEW d \in DeploymentType(now), Cools(d)
    PROVE  /\ Pruned(d) \in DeploymentType(now) /\ Cools(Pruned(d))
           /\ Pruned(d).requestTimes = After(d.requestTimes, now - Minute)
<1> DEFINE fs == After(d.failures, now - FailureWindow)
           rs == After(d.requestTimes, now - Minute)
           ts == TokensAfter(d.tokenEvents, now - Minute)
<1>1. /\ d.failures \in Seq(0..now) /\ d.requestTimes \in Seq(0..now)
      /\ d.tokenEvents \in Seq([at : 0..now, tokens : Nat])
      /\ d.inFlight \in Nat /\ d.cooldownUntil \in Nat
    BY DEF DeploymentType
<1>2. /\ fs \in Seq(0..now) /\ Len(fs) <= Len(d.failures)
      /\ \A i \in 1..Len(fs) : \E n \in 1..Len(d.failures) : fs[i] = d.failures[n]
    <2> PICK a : a = d.failures
        OBVIOUS
    <2> PICK c : c = now - FailureWindow
        OBVIOUS
    <2>1. a \in Seq(0..now)
        BY <1>1
    <2>2. /\ After(a, c) \in Seq(0..now) /\ Len(After(a, c)) <= Len(a)
          /\ \A i \in 1..Len(After(a, c)) : \E n \in 1..Len(a) : After(a, c)[i] = a[n]
        BY ONLY <2>1, AfterShorter
    <2> QED
        BY <2>2
<1>3. rs \in Seq(0..now)
    BY <1>1, AfterShorter
<1>4. ts \in Seq([at : 0..now, tokens : Nat])
    BY <1>1, KeptIsSeq DEF TokensAfter
<1> DEFINE p == [d EXCEPT !.failures = fs, !.requestTimes = rs, !.tokenEvents = ts]
<1>5. Pruned(d) = p
    BY DEF Pruned
<1> HIDE DEF fs, rs, ts
<1>6. p \in DeploymentType(now) /\ p.requestTimes = rs /\ p.failures = fs
      /\ p.cooldownUntil = d.cooldownUntil
    BY <1>1, <1>2, <1>3, <1>4 DEF DeploymentType
<1>7. Len(fs) >= AllowedFails => Len(d.failures) >= AllowedFails
    <2>1. Len(fs) \in Nat /\ Len(d.failures) \in Nat /\ AllowedFails \in Nat
        BY <1>1, <1>2, TimeAssumption
    <2> QED
        BY <1>2, <2>1
<1> HIDE DEF p
<1>8. Cools(p)
    BY <1>2, <1>6, <1>7 DEF Cools
<1> QED
    BY <1>5, <1>6, <1>8 DEF rs

LEMMA PenalisedTyped ==
    ASSUME now \in Nat, NEW d \in DeploymentType(now), Cools(d)
    PROVE  /\ Penalised(d) \in DeploymentType(now) /\ Cools(Penalised(d))
           /\ Penalised(d).requestTimes = d.requestTimes
<1> DEFINE fs == Append(d.failures, now)
           until == IF Len(fs) >= AllowedFails THEN now + CooldownTime ELSE d.cooldownUntil
           p == [d EXCEPT !.failures = fs, !.cooldownUntil = until]
<1>1. /\ d.failures \in Seq(0..now) /\ d.requestTimes \in Seq(0..now)
      /\ d.tokenEvents \in Seq([at : 0..now, tokens : Nat])
      /\ d.inFlight \in Nat /\ d.cooldownUntil \in Nat
    BY DEF DeploymentType
<1>2. CooldownTime \in Nat
    BY TimeAssumption
<1>3. now \in 0..now
    OBVIOUS
<1>4. fs \in Seq(0..now)
    BY <1>1, <1>3
<1>5. until \in Nat
    BY <1>1, <1>2
<1>6. Penalised(d) = p
    BY DEF Penalised
<1>7. \A n \in 1..Len(fs) : fs[n] \in 0..now
    BY <1>4
<1> HIDE DEF fs
<1>8. p \in DeploymentType(now) /\ p.requestTimes = d.requestTimes /\ p.failures = fs
      /\ p.cooldownUntil = until
    BY <1>1, <1>4, <1>5 DEF DeploymentType
<1>9. Len(fs) >= AllowedFails => \A n \in 1..Len(fs) : until >= fs[n] + CooldownTime
    <2> SUFFICES ASSUME Len(fs) >= AllowedFails, NEW n \in 1..Len(fs)
                 PROVE  now + CooldownTime >= fs[n] + CooldownTime
        OBVIOUS
    <2> QED
        BY <1>2, <1>7
<1> HIDE DEF p, until
<1>10. Cools(p)
    BY <1>8, <1>9 DEF Cools
<1> QED
    BY <1>6, <1>8, <1>10

LEMMA ReleaseTyped ==
    ASSUME NEW t, NEW d \in DeploymentType(t), Cools(d)
    PROVE  /\ Release(d) \in DeploymentType(t) /\ Cools(Release(d))
           /\ Release(d).requestTimes = d.requestTimes
<1> DEFINE n == IF d.inFlight > 0 THEN d.inFlight - 1 ELSE d.inFlight
<1>1. n \in Nat
    BY DEF DeploymentType
<1>2. Release(d) = [d EXCEPT !.inFlight = n]
    BY DEF Release, DeploymentType
<1> HIDE DEF n
<1>3. /\ Release(d) \in DeploymentType(t)
      /\ Release(d).failures = d.failures /\ Release(d).cooldownUntil = d.cooldownUntil
      /\ Release(d).requestTimes = d.requestTimes
    BY <1>1, <1>2 DEF DeploymentType
<1> QED
    BY <1>3 DEF Cools

LEMMA ChargedTyped ==
    ASSUME now \in Nat, NEW d \in DeploymentType(now), Cools(d), NEW tokens \in Nat
    PROVE  /\ Charged(d, tokens) \in DeploymentType(now) /\ Cools(Charged(d, tokens))
           /\ Charged(d, tokens).requestTimes = d.requestTimes
<1> DEFINE es == Append(d.tokenEvents, [at |-> now, tokens |-> tokens])
<1>1. es \in Seq([at : 0..now, tokens : Nat])
    <2>1. [at |-> now, tokens |-> tokens] \in [at : 0..now, tokens : Nat]
        OBVIOUS
    <2>2. d.tokenEvents \in Seq([at : 0..now, tokens : Nat])
        BY DEF DeploymentType
    <2> QED
        BY <2>1, <2>2
<1>2. Charged(d, tokens) = d \/ Charged(d, tokens) = [d EXCEPT !.tokenEvents = es]
    BY DEF Charged, DeploymentType
<1> HIDE DEF es
<1>3. /\ Charged(d, tokens) \in DeploymentType(now)
      /\ Charged(d, tokens).failures = d.failures
      /\ Charged(d, tokens).cooldownUntil = d.cooldownUntil
      /\ Charged(d, tokens).requestTimes = d.requestTimes
    BY <1>1, <1>2 DEF DeploymentType
<1> QED
    BY <1>3 DEF Cools

LEMMA LearnTyped ==
    ASSUME now \in Nat, NEW s, Learned(s), NEW e \in EventRecord
    PROVE  /\ Learned(Learn(s, e))
           /\ \A i \in D : Learn(s, e).dep[i].requestTimes = s.dep[i].requestTimes
<1> DEFINE i == DeploymentOf(s, e)
           d == s.dep[i]
           t == Learn(s, e)
<1> SUFFICES ASSUME i \in D
             PROVE  Learned(t) /\ \A j \in D : t.dep[j].requestTimes = s.dep[j].requestTimes
    BY DEF Learn
<1>1. i \in D /\ e.tokens \in Nat
    BY DEF EventRecord
<1>2. d \in DeploymentType(now) /\ Cools(d)
    BY <1>1 DEF Learned
<1>3. ASSUME NEW x \in DeploymentType(now), Cools(x), x.requestTimes = d.requestTimes,
             t.dep = [s.dep EXCEPT ![i] = x],
             t.inflight = s.inflight \/ t.inflight = Forget(s.inflight, e.request)
      PROVE  Learned(t) /\ \A j \in D : t.dep[j].requestTimes = s.dep[j].requestTimes
    <2>1. \A r \in DOMAIN t.inflight : t.inflight[r] \in D
        BY <1>3 DEF Learned, Forget
    <2> HIDE DEF i, t
    <2> QED
        BY <1>1, <1>3, <2>1 DEF Learned, d
<1>4. CASE e.type = "request.completed"
    <2> DEFINE x == Charged(Release(d), e.tokens)
    <2>1. /\ Release(d) \in DeploymentType(now) /\ Cools(Release(d))
          /\ Release(d).requestTimes = d.requestTimes
        BY <1>2, ReleaseTyped
    <2>2. x \in DeploymentType(now) /\ Cools(x) /\ x.requestTimes = d.requestTimes
        BY <1>1, <2>1, ChargedTyped
    <2>3. t.dep = [s.dep EXCEPT ![i] = x] /\ t.inflight = Forget(s.inflight, e.request)
        BY <1>1, <1>4 DEF Learn, Completed
    <2> HIDE DEF i, t, x
    <2> QED
        BY <1>3, <2>2, <2>3 DEF t
<1>5. CASE e.type # "request.completed"
    <2> DEFINE ends == e.type = "request.failed" /\ d.inFlight > 0
               y == IF ends THEN Release(d) ELSE d
               x == Penalised(y)
    <2>1. y \in DeploymentType(now) /\ Cools(y) /\ y.requestTimes = d.requestTimes
        BY <1>2, ReleaseTyped
    <2> HIDE DEF y
    <2>2. x \in DeploymentType(now) /\ Cools(x) /\ x.requestTimes = d.requestTimes
        BY <2>1, PenalisedTyped
    <2>3. /\ t.dep = [s.dep EXCEPT ![i] = x]
          /\ t.inflight = s.inflight \/ t.inflight = Forget(s.inflight, e.request)
        BY <1>1, <1>5 DEF Learn, Failed, y
    <2> HIDE DEF i, t, x
    <2> QED
        BY <1>3, <2>2, <2>3 DEF t
<1> QED
    BY <1>4, <1>5

-----------------------------------------------------------------------------
(* The steps keep it. *)

(* Pruning all deployments, after what happened to them. *)
LEMMA PruningLearns ==
    ASSUME now \in Nat, NEW s, Learned(s), dep' = [i \in D |-> Pruned(s.dep[i])],
           inflight' = s.inflight, now' = now
    PROVE  /\ Learned(Plugin)'
           /\ \A i \in D : dep'[i].requestTimes = After(s.dep[i].requestTimes, now - Minute)
<1>1. \A i \in D : s.dep[i] \in DeploymentType(now) /\ Cools(s.dep[i])
    BY DEF Learned
<1>2. \A i \in D :
          /\ Pruned(s.dep[i]) \in DeploymentType(now) /\ Cools(Pruned(s.dep[i]))
          /\ Pruned(s.dep[i]).requestTimes = After(s.dep[i].requestTimes, now - Minute)
    BY <1>1, PrunedTyped
<1>3. \A i \in D : dep'[i] = Pruned(s.dep[i])
    OBVIOUS
<1>4. dep' \in [D -> DeploymentType(now)]
    BY <1>2
<1> QED
    BY <1>2, <1>3, <1>4 DEF Learned, Plugin, DeploymentType, Cools

(* Nobody sees the pruning of what is more than a minute old. *)
LEMMA PruningRemembers ==
    ASSUME TimesInv, chosen' = chosen, now' = now, configures' = configures,
           Learned(Plugin)',
           \A i \in D : dep'[i].requestTimes = After(dep[i].requestTimes, now - Minute)
    PROVE  TimesInv'
<1>1. now - Minute \in Int
    BY TimeAssumption DEF TimesInv
<1>2. \A i \in D : dep[i].requestTimes \in Seq(Int)
    <2>1. \A i \in D : dep[i].requestTimes \in Seq(0..now)
        BY DEF TimesInv, Learned, Plugin, DeploymentType
    <2>2. 0..now \subseteq Int
        OBVIOUS
    <2> QED
        BY <2>1, <2>2, WiderSeq
<1>3. ASSUME NEW i \in D
      PROVE  After(dep'[i].requestTimes, now - Minute) = After(dep[i].requestTimes, now - Minute)
    BY <1>1, <1>2, AfterTwice
<1>4. Remembered => Remembered'
    BY <1>3 DEF Remembered
<1> QED
    BY <1>4 DEF TimesInv, RpmOfFirstChoices

LEMMA TickTimes == ASSUME TimesInv, Tick PROVE TimesInv'
<1>1. now \in Nat /\ now' = now + 1 /\ UNCHANGED <<dep, inflight, chosen, configures>>
    BY DEF Tick, plugin, TimesInv
<1>2. 0..now \subseteq 0..now'
    BY <1>1
<1>3. Learned(Plugin)'
    <2>1. DeploymentType(now) \subseteq DeploymentType(now')
        <3>1. [at : 0..now, tokens : Nat] \subseteq [at : 0..now', tokens : Nat]
            BY <1>2
        <3>2. /\ Seq(0..now) \subseteq Seq(0..now')
              /\ Seq([at : 0..now, tokens : Nat]) \subseteq Seq([at : 0..now', tokens : Nat])
            BY <1>2, <3>1, WiderSeq
        <3> QED
            BY <3>2 DEF DeploymentType
    <2> QED
        BY <1>1, <2>1 DEF TimesInv, Learned, Plugin, Cools
<1>4. chosen' \in [D -> Seq(0..now')]
    BY <1>1, <1>2 DEF TimesInv
<1>5. /\ now - Minute \in Int /\ now' - Minute \in Int /\ now - Minute <= now' - Minute
    BY <1>1, TimeAssumption
<1>6. \A i \in D : dep[i].requestTimes \in Seq(Int) /\ chosen[i] \in Seq(Int)
    <2>1. \A i \in D : dep[i].requestTimes \in Seq(0..now) /\ chosen[i] \in Seq(0..now)
        BY DEF TimesInv, Learned, Plugin, DeploymentType
    <2>2. 0..now \subseteq Int
        OBVIOUS
    <2> QED
        BY <2>1, <2>2, WiderSeq
<1>7. configures = 0 => Remembered'
    BY <1>1, <1>5, <1>6, PruningUnseen DEF TimesInv, Remembered
<1>8. RpmOfFirstChoices'
    <2> SUFFICES ASSUME NEW i \in D, configures = 0, i = Place(i), Deployments[i].rpm > 0,
                        \A j \in D : Place(j) = i => Limited(j)
                 PROVE  Len(After(chosen[i], now' - Minute)) <= Deployments[i].rpm
        BY <1>1 DEF RpmOfFirstChoices
    <2>1. Len(After(chosen[i], now - Minute)) <= Deployments[i].rpm
        BY DEF TimesInv, RpmOfFirstChoices
    <2>2. Len(After(chosen[i], now' - Minute)) <= Len(After(chosen[i], now - Minute))
        BY <1>5, <1>6, PruningUnseen
    <2>3. /\ After(chosen[i], now - Minute) \in Seq(Int)
          /\ After(chosen[i], now' - Minute) \in Seq(Int)
        BY <1>6, AfterShorter
    <2>4. /\ Len(After(chosen[i], now - Minute)) \in Nat
          /\ Len(After(chosen[i], now' - Minute)) \in Nat
        BY <2>3
    <2> QED
        BY <2>1, <2>2, <2>4, ListAssumption DEF D
<1> QED
    BY <1>1, <1>3, <1>4, <1>7, <1>8 DEF TimesInv

LEMMA RouteTimes == ASSUME IInv, TimesInv, NEW r \in Requests, Route(r) PROVE TimesInv'
<1>1. PICK s \in Orders(CandidateDeployments) :
          /\ Counted(r, Place(s[1]))
          /\ chosen' = [chosen EXCEPT ![Place(s[1])] = Append(@, now)]
    BY DEF Route
<1> DEFINE first == Place(s[1])
<1>2. first \in D /\ s[1] \in D
    BY OrdersAreRoutes DEF Route
<1>3. s[1] \in CandidateDeployments
    <2>1. s \in [1..Cardinality(CandidateDeployments) -> CandidateDeployments]
        BY DEF Orders
    <2>2. 1 \in DOMAIN s
        BY OrdersAreRoutes DEF Route
    <2> QED
        BY <2>1, <2>2
<1>4. now' = now /\ configures' = configures /\ now \in Nat /\ Minute \in Nat \ {0}
    BY TimeAssumption DEF Route, TimesInv
<1> PICK c : c = now - Minute
    OBVIOUS
<1>5. c \in Int /\ now > c /\ c <= c
    BY <1>4
<1>6. \A i \in D : dep[i] \in DeploymentType(now) /\ Cools(dep[i])
    BY DEF TimesInv, Learned, Plugin
<1>7. \A i \in D : /\ Pruned(dep[i]) \in DeploymentType(now) /\ Cools(Pruned(dep[i]))
                   /\ Pruned(dep[i]).requestTimes = After(dep[i].requestTimes, c)
    BY <1>4, <1>6, PrunedTyped
<1>8. \A i \in D : /\ After(dep[i].requestTimes, c) \in Seq(0..now) /\ chosen[i] \in Seq(0..now)
                   /\ dep[i].requestTimes \in Seq(0..now)
    <2>1. \A i \in D : dep[i].requestTimes \in Seq(0..now) /\ chosen[i] \in Seq(0..now)
        BY <1>6 DEF TimesInv, DeploymentType
    <2> QED
        BY <2>1, AfterShorter
<1>9. \A i \in D : /\ dep[i].requestTimes \in Seq(Int) /\ After(dep[i].requestTimes, c) \in Seq(Int)
                   /\ chosen[i] \in Seq(Int)
    <2>1. Seq(0..now) \subseteq Seq(Int)
        <3>1. 0..now \subseteq Int
            OBVIOUS
        <3> QED
            BY <3>1, WiderSeq
    <2> QED
        BY <1>8, <2>1
<1> DEFINE times == Append(After(dep[first].requestTimes, c), now)
           n == dep[first].inFlight + 1
           d == [Pruned(dep[first]) EXCEPT !.inFlight = n, !.requestTimes = times]
<1>10. Pruned(dep[first]).inFlight = dep[first].inFlight /\ n \in Nat
    BY <1>2, <1>6 DEF Pruned, DeploymentType
<1>11. times \in Seq(0..now)
    BY <1>2, <1>4, <1>8
<1>12. dep' = [i \in D |-> IF i = first THEN d ELSE Pruned(dep[i])]
    <2>1. [Pruned(dep[first]) EXCEPT !.inFlight = @ + 1, !.requestTimes = Append(@, now)] = d
        BY <1>2, <1>7, <1>10
    <2> QED
        BY <1>1, <2>1 DEF Counted
<1> HIDE DEF times, n, first
<1>13. /\ d \in DeploymentType(now) /\ d.requestTimes = times
       /\ d.failures = Pruned(dep[first]).failures
       /\ d.cooldownUntil = Pruned(dep[first]).cooldownUntil
    BY <1>2, <1>7, <1>10, <1>11 DEF DeploymentType
<1> HIDE DEF d
<1>14. Cools(d)
    BY <1>2, <1>7, <1>13 DEF Cools
<1>15. /\ dep' \in [D -> DeploymentType(now)]
       /\ \A i \in D : Cools(dep'[i])
       /\ dep'[first].requestTimes = times
       /\ \A i \in D \ {first} : dep'[i].requestTimes = After(dep[i].requestTimes, c)
    BY <1>2, <1>7, <1>12, <1>13, <1>14
<1>16. Learned(Plugin)'
    <2>1. \A q \in DOMAIN inflight' : inflight'[q] \in D
        BY <1>1, <1>2 DEF Counted, TimesInv, Learned, Plugin, first
    <2> QED
        BY <1>4, <1>15, <2>1 DEF Learned, Plugin, DeploymentType, Cools
<1>17. chosen' = [chosen EXCEPT ![first] = Append(@, now)] /\ chosen \in [D -> Seq(0..now)]
    BY <1>1 DEF first, TimesInv
<1>18. chosen' \in [D -> Seq(0..now)]
    <2>1. Append(chosen[first], now) \in Seq(0..now)
        BY <1>2, <1>4, <1>8
    <2> QED
        BY <1>17, <2>1
<1>19. /\ chosen'[first] = Append(chosen[first], now)
       /\ \A i \in D \ {first} : chosen'[i] = chosen[i]
    BY <1>2, <1>17
<1>20. After(chosen'[first], c) = Append(After(chosen[first], c), now)
    <2>1. now \in Int /\ chosen[first] \in Seq(Int)
        BY <1>2, <1>4, <1>9
    <2>2. After(Append(chosen[first], now), c)
              = IF now > c THEN Append(After(chosen[first], c), now) ELSE After(chosen[first], c)
        BY <2>1, AfterAppend
    <2> QED
        BY <1>5, <1>19, <2>2
<1>21. \A i \in D : After(After(dep[i].requestTimes, c), c) = After(dep[i].requestTimes, c)
    BY <1>5, <1>9, AfterTwice
<1>22. ASSUME configures = 0
       PROVE  Remembered'
    <2>1. \A i \in D : After(dep[i].requestTimes, c) = After(chosen[i], c)
        BY <1>22 DEF TimesInv, Remembered
    <2>2. After(times, c) = Append(After(dep[first].requestTimes, c), now)
        <3>1. now \in Int /\ After(dep[first].requestTimes, c) \in Seq(Int)
            BY <1>2, <1>4, <1>9
        <3> PICK a : a = After(dep[first].requestTimes, c)
            OBVIOUS
        <3>2. After(Append(a, now), c) = IF now > c THEN Append(After(a, c), now) ELSE After(a, c)
            <4>1. now \in Int /\ a \in Seq(Int)
                BY <3>1
            <4> QED
                BY ONLY <4>1, AfterAppend
        <3> QED
            BY <1>2, <1>5, <1>21, <3>2 DEF times
    <2>3. ASSUME NEW i \in D
          PROVE  After(dep'[i].requestTimes, c) = After(chosen'[i], c)
        <3>1. CASE i = first
            BY <1>2, <1>15, <1>20, <2>1, <2>2, <3>1
        <3>2. CASE i # first
            BY <1>15, <1>19, <1>21, <2>1, <3>2
        <3> QED
            BY <3>1, <3>2
    <2> QED
        BY <1>4, <2>3 DEF Remembered
<1>23. RpmOfFirstChoices'
    <2> SUFFICES ASSUME NEW i \in D, configures = 0, i = Place(i), Deployments[i].rpm > 0,
                        \A j \in D : Place(j) = i => Limited(j)
                 PROVE  Len(After(chosen'[i], c)) <= Deployments[i].rpm
        BY <1>4 DEF RpmOfFirstChoices
    <2>1. CASE i # first
        BY <1>19, <2>1 DEF TimesInv, RpmOfFirstChoices
    <2>2. CASE i = first
        <3>1. ~OverLimit(s[1]) /\ Limited(s[1])
            BY <1>2, <1>3, <2>2 DEF CandidateDeployments, first
        <3>2. ~(Len(After(dep[first].requestTimes, c)) >= Deployments[first].rpm)
            BY <2>2, <3>1 DEF OverLimit, Exhausted, first
        <3>3. After(dep[first].requestTimes, c) = After(chosen[first], c)
            BY <1>2 DEF TimesInv, Remembered
        <3>4. After(chosen[first], c) \in Seq(0..now)
            BY <1>2, <1>8, <3>3
        <3>5. /\ Len(After(chosen[first], c)) \in Nat
              /\ Len(Append(After(chosen[first], c), now)) = Len(After(chosen[first], c)) + 1
            BY <1>4, <3>4
        <3>6. Deployments[first].rpm \in Int
            BY <1>2, ListAssumption DEF D
        <3> QED
            BY <1>20, <2>2, <3>2, <3>3, <3>5, <3>6
    <2> QED
        BY <2>1, <2>2
<1> QED
    BY <1>4, <1>16, <1>18, <1>22, <1>23 DEF TimesInv

LEMMA EmitTimes == ASSUME IInv, TimesInv, NEW n \in 1..2, Emit(n) PROVE TimesInv'
<1> DEFINE one == Learn(Plugin, bus[1])
           after == IF n = 1 THEN one ELSE Learn(one, bus[2])
<1>1. /\ n <= Len(bus)
      /\ dep' = [i \in D |-> Pruned(after.dep[i])]
      /\ inflight' = after.inflight
      /\ UNCHANGED <<now, configures, chosen>>
    BY DEF Emit, Plugin
<1>2. now \in Nat /\ Learned(Plugin) /\ bus \in Seq(EventRecord)
    BY DEF TimesInv, IInv, Queues
<1>3. bus[1] \in EventRecord /\ (n = 2 => bus[2] \in EventRecord)
    BY <1>1, <1>2
<1>4. Learned(one) /\ \A i \in D : one.dep[i].requestTimes = dep[i].requestTimes
    BY <1>2, <1>3, LearnTyped DEF Plugin
<1> HIDE DEF one
<1>5. Learned(after) /\ \A i \in D : after.dep[i].requestTimes = dep[i].requestTimes
    <2>1. CASE n = 1
        BY <1>4, <2>1
    <2>2. CASE n # 1
        <3>1. Learned(Learn(one, bus[2]))
              /\ \A i \in D : Learn(one, bus[2]).dep[i].requestTimes = one.dep[i].requestTimes
            BY <1>2, <1>3, <1>4, <2>2, LearnTyped
        <3> QED
            BY <1>4, <2>2, <3>1
    <2> QED
        BY <2>1, <2>2
<1> HIDE DEF after
<1>6. /\ Learned(Plugin)'
      /\ \A i \in D : dep'[i].requestTimes = After(after.dep[i].requestTimes, now - Minute)
    BY <1>1, <1>2, <1>5, PruningLearns
<1> QED
    BY <1>1, <1>5, <1>6, PruningRemembers

LEMMA NextTimes == IInv /\ TimesInv /\ [Next]_vars => TimesInv'
<1> SUFFICES ASSUME IInv, TimesInv, [Next]_vars PROVE TimesInv'
    OBVIOUS
<1>1. CASE Tick
    BY <1>1, TickTimes
<1>2. CASE Configure
    <2>1. /\ dep' = [i \in D |-> Unused] /\ configures' = configures + 1
          /\ UNCHANGED <<now, inflight, chosen>> /\ configures' # 0
        BY <1>2 DEF Configure, IInv, Queues
    <2>2. Unused \in DeploymentType(now) /\ Unused.failures = <<>>
        BY DEF Unused, DeploymentType, TimesInv
    <2>3. Cools(Unused)
        BY <2>2, TimeAssumption DEF Cools
    <2>4. Learned(Plugin)'
        BY <2>1, <2>2, <2>3 DEF Learned, Plugin, TimesInv, DeploymentType, Cools
    <2> QED
        BY <2>1, <2>4 DEF TimesInv, RpmOfFirstChoices
<1>3. ASSUME NEW r \in Requests, Route(r) PROVE TimesInv'
    BY <1>3, RouteTimes
<1>4. ASSUME NEW r \in Requests, RouteToNone(r) PROVE TimesInv'
    <2>1. /\ dep' = [i \in D |-> Pruned(Plugin.dep[i])] /\ inflight' = Plugin.inflight
          /\ UNCHANGED <<now, configures, chosen>>
        BY <1>4 DEF RouteToNone, Plugin
    <2>2. /\ Learned(Plugin)'
          /\ \A i \in D : dep'[i].requestTimes = After(Plugin.dep[i].requestTimes, now - Minute)
        BY <2>1, PruningLearns DEF TimesInv
    <2> QED
        BY <2>1, <2>2, PruningRemembers DEF Plugin
<1>5. ASSUME NEW r \in Requests, AttemptSucceeds(r) \/ AttemptFails(r) PROVE TimesInv'
    <2>1. UNCHANGED <<now, dep, inflight, configures, chosen>>
        BY <1>5 DEF AttemptSucceeds, AttemptFails, plugin
    <2> QED
        BY <2>1 DEF TimesInv, Learned, Plugin, Remembered, RpmOfFirstChoices
<1>6. ASSUME NEW n \in 1..2, Emit(n) PROVE TimesInv'
    BY <1>6, EmitTimes
<1>7. CASE UNCHANGED vars
    <2>1. UNCHANGED <<now, dep, inflight, configures, chosen>>
        BY <1>7 DEF vars, plugin
    <2> QED
        BY <2>1 DEF TimesInv, Learned, Plugin, Remembered, RpmOfFirstChoices
<1> QED
    BY <1>1, <1>2, <1>3, <1>4, <1>5, <1>6, <1>7 DEF Next

LEMMA InitTimes == Init => TimesInv
<1> SUFFICES ASSUME Init PROVE TimesInv
    OBVIOUS
<1>1. now = 0 /\ dep = [i \in D |-> Unused] /\ DOMAIN inflight = {} /\ chosen = [i \in D |-> <<>>]
    BY DEF Init
<1>2. Unused \in DeploymentType(now) /\ Unused.failures = <<>> /\ Unused.requestTimes = <<>>
    BY DEF Unused, DeploymentType
<1>3. Cools(Unused)
    BY <1>2, TimeAssumption DEF Cools
<1>4. Learned(Plugin)
    BY <1>1, <1>2, <1>3 DEF Learned, Plugin
<1>5. Remembered
    BY <1>1, <1>2 DEF Remembered
<1>6. \A i \in D : After(chosen[i], now - Minute) = <<>>
    BY <1>1, AfterEmpty
<1>7. RpmOfFirstChoices
    BY <1>6, ListAssumption DEF RpmOfFirstChoices, D
<1> QED
    BY <1>1, <1>4, <1>5, <1>7 DEF TimesInv

LEMMA TimesHold == Spec => []TimesInv
BY InitIInv, NextIInv, InitTimes, NextTimes, PTL DEF Spec

(* Enough failures on record keep a deployment cooling down for the cooldown *)
(* time after the last of them, whatever is pruned (main.go:186-189).        *)
THEOREM FailuresCool == Spec => []RepeatedFailuresCool
<1>1. TimesInv => RepeatedFailuresCool
    <2> SUFFICES ASSUME TimesInv, NEW i \in D, Len(dep[i].failures) >= AllowedFails
                 PROVE  dep[i].cooldownUntil
                          >= dep[i].failures[Len(dep[i].failures)] + CooldownTime
        BY DEF RepeatedFailuresCool
    <2>1. Cools(dep[i]) /\ dep[i].failures \in Seq(0..now)
        BY DEF TimesInv, Learned, Plugin, DeploymentType
    <2>2. Len(dep[i].failures) \in 1..Len(dep[i].failures)
        BY <2>1, TimeAssumption
    <2> QED
        BY <2>1, <2>2 DEF Cools
<1> QED
    BY <1>1, TimesHold, PTL

(* A provider and model is the first choice of no more requests in any 60    *)
(* seconds than the rpm of its first entry, as long as it is not             *)
(* reconfigured and all its entries have limits: what is pruned is too old   *)
(* to count, and all entries count at one (main.go:219-224, :319-330,        *)
(* :340-349, :366-373).                                                      *)
THEOREM RpmIsKept == Spec => []RpmOfFirstChoices
BY TimesHold, PTL DEF TimesInv

-----------------------------------------------------------------------------
(* What bounds the numbers, across a reconfiguration too: every request adds *)
(* one to one count, and only once; a cooldown begins by the present time.   *)
Routed == {r \in Requests : gateway[r] # NewRequest}

Bounded(d, n) == d.inFlight <= n /\ d.cooldownUntil <= MaxTime + CooldownTime

NumbersBounded ==
    /\ now <= MaxTime
    /\ configures <= MaxConfigures
    /\ \A i \in D : Bounded(dep[i], Cardinality(Routed))

LEMMA OneEventBounded ==
    ASSUME now \in Nat, now <= MaxTime, NEW n \in Nat,
           NEW d \in DeploymentType(now), Cools(d), Bounded(d, n)
    PROVE  /\ Bounded(Pruned(d), n)
           /\ Bounded(Penalised(d), n)
           /\ Bounded(Release(d), n)
           /\ \A tokens : Bounded(Charged(d, tokens), n)
<1>1. d.inFlight \in Nat /\ d.cooldownUntil \in Nat /\ MaxTime \in Nat /\ CooldownTime \in Nat
    BY TimeAssumption DEF DeploymentType
<1>2. Bounded(Pruned(d), n)
    BY DEF Bounded, Pruned, DeploymentType
<1>3. Bounded(Penalised(d), n)
    <2> DEFINE until == IF Len(Append(d.failures, now)) >= AllowedFails
                        THEN now + CooldownTime ELSE d.cooldownUntil
    <2>1. /\ Penalised(d).inFlight = d.inFlight
          /\ Penalised(d).cooldownUntil = until
        BY DEF Penalised, DeploymentType
    <2>2. until = now + CooldownTime \/ until = d.cooldownUntil
        OBVIOUS
    <2> HIDE DEF until
    <2> QED
        BY <1>1, <2>1, <2>2 DEF Bounded
<1>4. Bounded(Release(d), n)
    BY <1>1 DEF Bounded, Release, DeploymentType
<1>5. \A tokens : Bounded(Charged(d, tokens), n)
    BY DEF Bounded, Charged, DeploymentType
<1> QED
    BY <1>2, <1>3, <1>4, <1>5

LEMMA LearnBounded ==
    ASSUME now \in Nat, now <= MaxTime, NEW s, Learned(s), NEW e \in EventRecord,
           NEW n \in Nat, \A i \in D : Bounded(s.dep[i], n)
    PROVE  \A i \in D : Bounded(Learn(s, e).dep[i], n)
<1> DEFINE i == DeploymentOf(s, e)
           d == s.dep[i]
<1> SUFFICES ASSUME i \in D PROVE \A j \in D : Bounded(Learn(s, e).dep[j], n)
    BY DEF Learn
<1>1. i \in D /\ e.tokens \in Nat
    BY DEF EventRecord
<1>2. d \in DeploymentType(now) /\ Cools(d) /\ Bounded(d, n) /\ DOMAIN s.dep = D
    BY <1>1 DEF Learned
<1>3. /\ Release(d) \in DeploymentType(now) /\ Cools(Release(d)) /\ Bounded(Release(d), n)
    BY <1>2, ReleaseTyped, OneEventBounded
<1>4. PICK x : Bounded(x, n) /\ Learn(s, e).dep = [s.dep EXCEPT ![i] = x]
    <2>1. CASE e.type = "request.completed"
        <3>1. Learn(s, e).dep = [s.dep EXCEPT ![i] = Charged(Release(d), e.tokens)]
            BY <1>1, <2>1 DEF Learn, Completed
        <3>2. Bounded(Charged(Release(d), e.tokens), n)
            BY <1>3, OneEventBounded
        <3> QED
            BY <3>1, <3>2
    <2>2. CASE e.type # "request.completed"
        <3> DEFINE ends == e.type = "request.failed" /\ d.inFlight > 0
                   y == IF ends THEN Release(d) ELSE d
        <3>1. Learn(s, e).dep = [s.dep EXCEPT ![i] = Penalised(y)]
            BY <1>1, <2>2 DEF Learn, Failed
        <3>2. y \in DeploymentType(now) /\ Cools(y) /\ Bounded(y, n)
            BY <1>2, <1>3
        <3> HIDE DEF y
        <3>3. Bounded(Penalised(y), n)
            BY <3>2, OneEventBounded
        <3> QED
            BY <3>1, <3>3
    <2> QED
        BY <2>1, <2>2
<1> HIDE DEF i
<1> QED
    BY <1>1, <1>2, <1>4

LEMMA PruningBounded ==
    ASSUME now \in Nat, now <= MaxTime, NEW s, Learned(s), NEW n \in Nat,
           \A i \in D : Bounded(s.dep[i], n), dep' = [i \in D |-> Pruned(s.dep[i])]
    PROVE  \A i \in D : Bounded(dep'[i], n)
BY OneEventBounded DEF Learned

(* A request that is routed, or turned away, is one more; the others stay. *)
LEMMA RoutedGrows ==
    ASSUME IsFiniteSet(Requests), IInv, [Next]_vars
    PROVE  /\ Cardinality(Routed) \in Nat /\ Cardinality(Routed') \in Nat
           /\ Cardinality(Routed) <= Cardinality(Routed')
           /\ \A r \in Requests : Route(r) => Cardinality(Routed') = Cardinality(Routed) + 1
<1>1. Routed \subseteq Requests /\ Routed' \subseteq Requests
    BY DEF Routed
<1>2. IsFiniteSet(Routed) /\ IsFiniteSet(Routed')
    BY <1>1, FS_Subset
<1>3. /\ DOMAIN gateway = Requests
      /\ \A r \in Requests : gateway[r] = [routes |-> gateway[r].routes, at |-> gateway[r].at]
      /\ \A r \in Requests : gateway[r].at \in Nat
    BY DEF IInv, Queues
<1>4. \A r \in Requests : Route(r) => Routed' = Routed \union {r} /\ r \notin Routed
    BY <1>3 DEF Route, Routed, NewRequest
<1>5. Routed \subseteq Routed'
    <2>1. ASSUME NEW r \in Requests, RouteToNone(r) PROVE Routed \subseteq Routed'
        BY <1>3, <2>1 DEF RouteToNone, Routed, NewRequest, Ended
    <2>2. ASSUME NEW r \in Requests, AttemptSucceeds(r) PROVE Routed \subseteq Routed'
        BY <1>3, <2>2 DEF AttemptSucceeds, Routed, NewRequest, Ended
    <2>3. ASSUME NEW r \in Requests, AttemptFails(r) PROVE Routed \subseteq Routed'
        <3>1. \/ gateway' = [gateway EXCEPT ![r] = Ended]
              \/ gateway' = [gateway EXCEPT ![r].at = gateway[r].at + 1]
            BY <2>3 DEF AttemptFails
        <3>2. gateway'[r] # NewRequest /\ \A q \in Requests \ {r} : gateway'[q] = gateway[q]
            BY <1>3, <3>1 DEF NewRequest, Ended
        <3> QED
            BY <3>2 DEF Routed
    <2>4. CASE gateway' = gateway
        BY <2>4 DEF Routed
    <2>5. Tick \/ Configure \/ (\E n \in 1..2 : Emit(n)) \/ UNCHANGED vars => gateway' = gateway
        BY DEF Tick, Configure, Emit, vars
    <2> QED
        BY <1>4, <2>1, <2>2, <2>3, <2>4, <2>5 DEF Next
<1>6. /\ Cardinality(Routed) \in Nat /\ Cardinality(Routed') \in Nat
      /\ Cardinality(Routed) <= Cardinality(Routed')
    BY <1>2, <1>5, FS_CardinalityType, FS_Subset
<1>7. \A r \in Requests : Route(r) => Cardinality(Routed') = Cardinality(Routed) + 1
    BY <1>2, <1>4, FS_AddElement
<1> QED
    BY <1>6, <1>7

LEMMA NextBounded ==
    ASSUME IsFiniteSet(Requests), IInv, TimesInv, NumbersBounded, [Next]_vars
    PROVE  NumbersBounded'
<1> DEFINE m == Cardinality(Routed)
           n == Cardinality(Routed)'
<1>1. m \in Nat /\ n \in Nat /\ m <= n
    BY RoutedGrows
<1>2. now \in Nat /\ now <= MaxTime /\ configures <= MaxConfigures
      /\ MaxTime \in Nat /\ MaxConfigures \in Nat /\ CooldownTime \in Nat /\ configures \in Nat
    BY TimeAssumption DEF TimesInv, NumbersBounded, IInv, Queues
<1>3. \A i \in D : /\ dep[i] \in DeploymentType(now) /\ Cools(dep[i])
                   /\ Bounded(dep[i], n)
    <2>1. \A i \in D : dep[i] \in DeploymentType(now) /\ Cools(dep[i]) /\ Bounded(dep[i], m)
        BY DEF TimesInv, Learned, Plugin, NumbersBounded
    <2>2. \A i \in D : dep[i].inFlight \in Nat
        BY <2>1 DEF DeploymentType
    <2> HIDE DEF m, n
    <2> QED
        BY <1>1, <2>1, <2>2 DEF Bounded
<1> HIDE DEF m, n
<1>4. Learned(Plugin) /\ Plugin.dep = dep
    BY DEF TimesInv, Plugin
<1>5. CASE Tick
    BY <1>2, <1>3, <1>5 DEF Tick, plugin, NumbersBounded, n
<1>6. CASE Configure
    <2>1. configures' = configures + 1 /\ configures < MaxConfigures /\ now' = now
        BY <1>6 DEF Configure
    <2>2. \A i \in D : dep'[i] = Unused
        BY <1>6 DEF Configure
    <2>3. Bounded(Unused, n)
        BY <1>1, <1>2 DEF Bounded, Unused
    <2> QED
        BY <1>2, <2>1, <2>2, <2>3 DEF NumbersBounded, n
<1>7. ASSUME NEW r \in Requests, Route(r) PROVE NumbersBounded'
    <2>1. PICK first : /\ Counted(r, first)
                       /\ UNCHANGED <<now, configures>>
        BY <1>7 DEF Route
    <2>2. n = m + 1
        BY <1>7, RoutedGrows DEF m, n
    <2>3. ASSUME NEW i \in D
          PROVE  Bounded(dep'[i], n)
        <3>1. /\ Bounded(Pruned(dep[i]), n) /\ Pruned(dep[i]) \in DeploymentType(now)
              /\ Pruned(dep[i]).inFlight = dep[i].inFlight
            BY <1>1, <1>2, <1>3, OneEventBounded, PrunedTyped, PrunedKeeps DEF DeploymentType
        <3>2. CASE i # first
            BY <2>1, <3>1, <3>2 DEF Counted
        <3>3. CASE i = first
            <4> DEFINE p == Pruned(dep[i])
            <4>1. dep'[i] = [p EXCEPT !.inFlight = @ + 1, !.requestTimes = Append(@, now)]
                BY <2>1, <3>3 DEF Counted
            <4>2. p.inFlight <= m /\ p.inFlight \in Nat
                BY <3>1 DEF NumbersBounded, Bounded, m, DeploymentType
            <4> HIDE DEF p
            <4>3. /\ dep'[i].inFlight = p.inFlight + 1
                  /\ dep'[i].cooldownUntil = p.cooldownUntil
                BY <3>1, <4>1 DEF DeploymentType, p
            <4> QED
                BY <1>1, <2>2, <3>1, <4>2, <4>3 DEF Bounded, p
        <3> QED
            BY <3>2, <3>3
    <2> QED
        BY <1>2, <2>1, <2>3 DEF NumbersBounded, n
<1>8. ASSUME NEW r \in Requests, RouteToNone(r) PROVE NumbersBounded'
    <2>1. dep' = [i \in D |-> Pruned(Plugin.dep[i])] /\ UNCHANGED <<now, configures>>
        BY <1>4, <1>8 DEF RouteToNone
    <2>2. \A i \in D : Bounded(dep'[i], n)
        BY <1>1, <1>2, <1>3, <1>4, <2>1, PruningBounded
    <2> QED
        BY <1>2, <2>1, <2>2 DEF NumbersBounded, n
<1>9. ASSUME NEW k \in 1..2, Emit(k) PROVE NumbersBounded'
    <2> DEFINE one == Learn(Plugin, bus[1])
               after == IF k = 1 THEN one ELSE Learn(one, bus[2])
    <2>1. /\ k <= Len(bus) /\ UNCHANGED <<now, configures>>
          /\ dep' = [i \in D |-> Pruned(after.dep[i])]
        BY <1>9 DEF Emit, Plugin
    <2>2. bus \in Seq(EventRecord)
        BY DEF IInv, Queues
    <2>3. bus[1] \in EventRecord /\ (k = 2 => bus[2] \in EventRecord)
        BY <2>1, <2>2
    <2>4. Learned(one) /\ \A i \in D : Bounded(one.dep[i], n)
        BY <1>1, <1>2, <1>3, <1>4, <2>3, LearnTyped, LearnBounded
    <2> HIDE DEF one
    <2>5. Learned(after) /\ \A i \in D : Bounded(after.dep[i], n)
        <3>1. CASE k = 1
            BY <2>4, <3>1
        <3>2. CASE k = 2
            <4>1. /\ Learned(Learn(one, bus[2]))
                  /\ \A i \in D : Bounded(Learn(one, bus[2]).dep[i], n)
                BY <1>1, <1>2, <2>3, <2>4, <3>2, LearnTyped, LearnBounded
            <4> QED
                BY <3>2, <4>1
        <3> QED
            BY <3>1, <3>2
    <2> HIDE DEF after
    <2>6. \A i \in D : Bounded(dep'[i], n)
        BY <1>1, <1>2, <2>1, <2>5, PruningBounded
    <2> QED
        BY <1>2, <2>1, <2>6 DEF NumbersBounded, n
<1>10. CASE UNCHANGED <<now, dep, configures>>
    BY <1>2, <1>3, <1>10 DEF NumbersBounded, n
<1>11. \A r \in Requests :
           AttemptSucceeds(r) \/ AttemptFails(r) => UNCHANGED <<now, dep, configures>>
    BY DEF AttemptSucceeds, AttemptFails, plugin
<1>12. UNCHANGED vars => UNCHANGED <<now, dep, configures>>
    BY DEF vars
<1> QED
    BY <1>5, <1>6, <1>7, <1>8, <1>9, <1>10, <1>11, <1>12 DEF Next

(* Types, and bounds: no deployment is ever counted busy with more requests  *)
(* than there are, though Configure zeroes the counts and keeps the map they *)
(* count (main.go:97-102, :123-130, :165-185).                               *)
THEOREM TypeCorrect == ASSUME IsFiniteSet(Requests) PROVE Spec => []TypeOK
<1>1. Init => NumbersBounded
    <2> SUFFICES ASSUME Init PROVE NumbersBounded
        OBVIOUS
    <2>1. Routed = {}
        BY DEF Init, Routed
    <2>2. Cardinality(Routed) = 0
        BY <2>1, FS_EmptySet
    <2>3. Bounded(Unused, 0)
        BY TimeAssumption DEF Bounded, Unused
    <2> QED
        BY <2>2, <2>3, TimeAssumption DEF Init, NumbersBounded
<1>2. IInv /\ TimesInv /\ NumbersBounded /\ [Next]_vars => NumbersBounded'
    BY NextBounded
<1>3. IInv /\ TimesInv /\ NumbersBounded => TypeOK
    <2> SUFFICES ASSUME IInv, TimesInv, NumbersBounded PROVE TypeOK
        OBVIOUS
    <2> DEFINE m == Cardinality(Routed)
               all == Cardinality(Requests)
    <2>1. m \in Nat /\ all \in Nat /\ m <= all
        <3>1. Routed \subseteq Requests
            BY DEF Routed
        <3> QED
            BY <3>1, FS_Subset, FS_CardinalityType
    <2>2. \A i \in D : dep[i] \in DeploymentType(now) /\ Bounded(dep[i], m)
        BY DEF TimesInv, Learned, Plugin, NumbersBounded
    <2>3. now \in 0..MaxTime /\ configures \in 0..MaxConfigures
        BY TimeAssumption DEF TimesInv, NumbersBounded, IInv, Queues
    <2>4. DOMAIN inflight \subseteq Requests /\ \A r \in DOMAIN inflight : inflight[r] \in D
        BY DEF IInv, Shape, Plugin
    <2> HIDE DEF m, all
    <2>5. ASSUME NEW i \in D
          PROVE  /\ dep[i].inFlight \in 0..all
                 /\ dep[i].cooldownUntil \in 0..(MaxTime + CooldownTime)
                 /\ \A k \in DOMAIN dep[i].failures : dep[i].failures[k] \in 0..now
                 /\ \A k \in DOMAIN dep[i].requestTimes : dep[i].requestTimes[k] \in 0..now
        <3>1. /\ dep[i].inFlight \in Nat /\ dep[i].cooldownUntil \in Nat
              /\ dep[i].failures \in Seq(0..now) /\ dep[i].requestTimes \in Seq(0..now)
            BY <2>2 DEF DeploymentType
        <3>2. dep[i].inFlight <= m /\ dep[i].cooldownUntil <= MaxTime + CooldownTime
            BY <2>2 DEF Bounded
        <3>3. MaxTime + CooldownTime \in Nat
            BY TimeAssumption
        <3>4. /\ dep[i].inFlight \in 0..all
              /\ dep[i].cooldownUntil \in 0..(MaxTime + CooldownTime)
            BY <2>1, <3>1, <3>2, <3>3
        <3>5. ASSUME NEW A, NEW times \in Seq(A), NEW k \in DOMAIN times
              PROVE  times[k] \in A
            BY ONLY <3>5
        <3> QED
            BY <3>1, <3>4, <3>5
    <2> QED
        BY <2>3, <2>4, <2>5 DEF TypeOK, all
<1> QED
    BY <1>1, <1>2, <1>3, InitIInv, NextIInv, InitTimes, NextTimes, PTL DEF Spec
-----------------------------------------------------------------------------
(* Routes.  Whatever the strategy, the candidates can be listed as it wants  *)
(* them: a step that Route takes whenever there is a candidate.              *)

(* A listing as long as the set, without repetition, leaves nothing out.     *)
LEMMA ListsAll ==
    ASSUME NEW S, IsFiniteSet(S), NEW s \in [1..Cardinality(S) -> S],
           \A a, b \in 1..Cardinality(S) : a < b => s[a] # s[b]
    PROVE  Range(s) = S
<1>1. Cardinality(S) \in Nat
    BY FS_CardinalityType
<1> PICK k : k = Cardinality(S)
    OBVIOUS
<1>2. \A a, b \in 1..k : s[a] = s[b] => a = b
    <2> SUFFICES ASSUME NEW a \in 1..k, NEW b \in 1..k, s[a] = s[b], a # b PROVE FALSE
        OBVIOUS
    <2>1. a < b \/ b < a
        BY <1>1
    <2> QED
        BY <2>1
<1>3. s \in Injection(1..k, S)
    BY <1>2 DEF Injection, IsInjective
<1>4. Cardinality(1..k) = k
    BY <1>1, FS_Interval
<1>5. s \in Surjection(1..k, S)
    BY <1>3, <1>4, FS_Injection
<1> QED
    BY <1>5 DEF Surjection, Range

LEMMA TokensAreCounted ==
    ASSUME NEW t, NEW d \in DeploymentType(t)
    PROVE  RecentTokens(d) \in Nat
<1> DEFINE es == TokensAfter(d.tokenEvents, now - Minute)
           f == [n \in DOMAIN es |-> es[n].tokens]
<1>1. d.tokenEvents \in Seq([at : 0..t, tokens : Nat])
    BY DEF DeploymentType
<1>2. es \in Seq([at : 0..t, tokens : Nat])
    BY <1>1, KeptIsSeq DEF TokensAfter
<1> HIDE DEF es
<1>3. DOMAIN es = 1..Len(es) /\ Len(es) \in Nat
    BY <1>2
<1>4. IsFiniteSet(DOMAIN es)
    BY <1>3, FS_Interval
<1>5. ASSUME NEW n \in DOMAIN es PROVE f[n] \in Nat
    <2>1. es[n] \in [at : 0..t, tokens : Nat]
        <3>1. ASSUME NEW A, NEW s \in Seq(A), NEW m \in DOMAIN s
              PROVE  s[m] \in A
            BY ONLY <3>1
        <3> QED
            BY <1>2, <3>1
    <2>2. es[n].tokens \in Nat
        BY ONLY <2>1
    <2> QED
        BY <2>2
<1>6. DOMAIN f = DOMAIN es
    OBVIOUS
<1> HIDE DEF f
<1>7. SumFunctionOnSet(f, DOMAIN f) \in Nat
    BY <1>4, <1>5, <1>6, SumIsNat
<1> QED
    BY <1>7 DEF RecentTokens, TokensIn, SumFunction, f, es

LEMMA RankIsPlace ==
    ASSUME NEW i, \E n \in DOMAIN ModelOrder : ModelOrder[n] = Deployments[i].model
    PROVE  Rank(i) \in Nat
<1> DEFINE S == {n \in DOMAIN ModelOrder : ModelOrder[n] = Deployments[i].model}
<1>1. ModelOrder \in Seq({RequestedModel} \union Range(Fallbacks))
    <2>1. Fallbacks \in Seq({RequestedModel} \union Range(Fallbacks))
        BY ListAssumption, WiderSeq
    <2> QED
        BY <2>1 DEF ModelOrder
<1>2. DOMAIN ModelOrder = 1..Len(ModelOrder) /\ Len(ModelOrder) \in Nat
    BY <1>1
<1>3. S \in SUBSET Nat /\ S # {}
    BY <1>2
<1>4. PICK n \in S : \A m \in S : n <= m
    BY <1>3, LeastExists
<1>5. \A m \in 1..(n - 1) : ModelOrder[m] # Deployments[i].model
    BY <1>2, <1>4
<1>6. Rank(i) \in DOMAIN ModelOrder
    BY <1>4, <1>5 DEF Rank
<1> QED
    BY <1>2, <1>6

(* Every strategy allows for some order: of two deployments one may precede, *)
(* and precedence carries over.                                              *)
LEMMA StrategyOrders ==
    ASSUME TimesInv, NEW i \in D, NEW j \in D, NEW k \in D
    PROVE  /\ i = j \/ MayPrecede(i, j) \/ MayPrecede(j, i)
           /\ MayPrecede(i, j) /\ MayPrecede(j, k) => MayPrecede(i, k)
<1>1. ASSUME NEW x \in D
      PROVE  /\ x \in Nat
             /\ dep[x].inFlight \in Nat
             /\ RecentTokens(dep[Place(x)]) \in Nat
             /\ Deployments[x].weight \in Int
    <2>1. dep[x] \in DeploymentType(now)
        BY DEF TimesInv, Learned, Plugin
    <2>2. dep[x].inFlight \in Nat
        BY <2>1 DEF DeploymentType
    <2>3. RecentTokens(dep[Place(x)]) \in Nat
        BY PlaceIsEntry, TokensAreCounted DEF TimesInv, Learned, Plugin
    <2>4. Deployments[x].weight \in Int
        BY ListAssumption DEF D
    <2> QED
        BY <2>2, <2>3, <2>4, DFinite
<1> DEFINE busy(x) == dep[x].inFlight
           used(x) == RecentTokens(dep[Place(x)])
           weight(x) == Deployments[x].weight
<1>2. CASE Strategy = "least-busy"
    <2>1. \A x, y \in D : MayPrecede(x, y) <=> busy(x) <= busy(y)
        BY <1>2 DEF MayPrecede
    <2>2. busy(i) \in Nat /\ busy(j) \in Nat /\ busy(k) \in Nat
        BY <1>1
    <2> HIDE DEF busy
    <2> QED
        BY <2>1, <2>2
<1>3. CASE Strategy = "usage-based-routing"
    <2>1. \A x, y \in D : MayPrecede(x, y) <=> \/ used(x) < used(y)
                                               \/ used(x) = used(y) /\ x < y
        BY <1>3 DEF MayPrecede
    <2>2. used(i) \in Nat /\ used(j) \in Nat /\ used(k) \in Nat
        BY <1>1
    <2>3. i \in Nat /\ j \in Nat /\ k \in Nat
        BY <1>1
    <2> HIDE DEF used
    <2> PICK a, b, c : a = used(i) /\ b = used(j) /\ c = used(k)
        OBVIOUS
    <2>4. /\ MayPrecede(i, j) <=> a < b \/ (a = b /\ i < j)
          /\ MayPrecede(j, i) <=> b < a \/ (b = a /\ j < i)
          /\ MayPrecede(j, k) <=> b < c \/ (b = c /\ j < k)
          /\ MayPrecede(i, k) <=> a < c \/ (a = c /\ i < k)
        BY <2>1
    <2>5. a \in Int /\ b \in Int /\ c \in Int
        BY <2>2
    <2>6. a < b \/ b < a \/ a = b
        BY <2>5
    <2>7. i < j \/ j < i \/ i = j
        BY <2>3
    <2>8. (a < b \/ (a = b /\ i < j)) /\ (b < c \/ (b = c /\ j < k))
              => a < c \/ (a = c /\ i < k)
        BY ONLY <2>3, <2>5
    <2>9. i = j \/ MayPrecede(i, j) \/ MayPrecede(j, i)
        BY <2>4, <2>6, <2>7
    <2> QED
        BY ONLY <2>4, <2>8, <2>9
<1>4. CASE Strategy \in {"fallback", "ordered"}
    <2>1. \A x, y \in D : MayPrecede(x, y) <=> \/ weight(x) > weight(y)
                                               \/ weight(x) = weight(y) /\ x < y
        BY <1>4 DEF MayPrecede
    <2>2. weight(i) \in Int /\ weight(j) \in Int /\ weight(k) \in Int
        BY <1>1
    <2>3. i \in Nat /\ j \in Nat /\ k \in Nat
        BY <1>1
    <2> HIDE DEF weight
    <2> PICK a, b, c : a = weight(i) /\ b = weight(j) /\ c = weight(k)
        OBVIOUS
    <2>4. /\ MayPrecede(i, j) <=> a > b \/ (a = b /\ i < j)
          /\ MayPrecede(j, i) <=> b > a \/ (b = a /\ j < i)
          /\ MayPrecede(j, k) <=> b > c \/ (b = c /\ j < k)
          /\ MayPrecede(i, k) <=> a > c \/ (a = c /\ i < k)
        BY <2>1
    <2>5. a \in Int /\ b \in Int /\ c \in Int
        BY <2>2
    <2>6. a > b \/ b > a \/ a = b
        BY <2>5
    <2>7. i < j \/ j < i \/ i = j
        BY <2>3
    <2>8. (a > b \/ (a = b /\ i < j)) /\ (b > c \/ (b = c /\ j < k))
              => a > c \/ (a = c /\ i < k)
        BY ONLY <2>3, <2>5
    <2>9. i = j \/ MayPrecede(i, j) \/ MayPrecede(j, i)
        BY <2>4, <2>6, <2>7
    <2> QED
        BY ONLY <2>4, <2>8, <2>9
<1>5. CASE Strategy \notin {"least-busy", "usage-based-routing", "fallback", "ordered"}
    BY <1>5 DEF MayPrecede
<1> QED
    BY <1>2, <1>3, <1>4, <1>5

(* A request with a candidate to serve it is never left unrouted for want of *)
(* an order, and its routes are the candidates, each once: where one attempt *)
(* fails no deployment is passed over (main.go:219-229, :245-271).           *)
RoutesAreTheCandidates ==
    LET candidates == CandidateDeployments
    IN  /\ Orders(candidates) # {}
        /\ \A s \in Orders(candidates) : Range(s) = candidates

THEOREM RoutesLeaveNoneOut == Spec => []RoutesAreTheCandidates
<1>1. TimesInv => RoutesAreTheCandidates
    <2> SUFFICES ASSUME TimesInv PROVE RoutesAreTheCandidates
        OBVIOUS
    <2> DEFINE C == CandidateDeployments
               k == Cardinality(C)
               Before(i, j) == \/ Rank(i) < Rank(j)
                               \/ Rank(i) = Rank(j) /\ MayPrecede(i, j)
               R == {p \in C \X C : p[1] = p[2] \/ Before(p[1], p[2])}
    <2>1. C \subseteq D /\ IsFiniteSet(C) /\ k \in Nat
        BY DFinite, FS_Subset, FS_CardinalityType DEF CandidateDeployments
    <2>2. \A i \in C : Rank(i) \in Nat
        BY RankIsPlace DEF CandidateDeployments
    <2>3. Orders(C) = {s \in [1..k -> C] :
                           \A a, b \in 1..k : a < b => s[a] # s[b] /\ Before(s[a], s[b])}
        BY DEF Orders
    <2> HIDE DEF C
    <2>4. \A i, j \in C : <<i, j>> \in R <=> i = j \/ Before(i, j)
        OBVIOUS
    <2>5. IsOrder(R, C)
        <3>1. ASSUME NEW i \in C, NEW j \in C PROVE i = j \/ Before(i, j) \/ Before(j, i)
            BY <2>1, <2>2, StrategyOrders
        <3>2. ASSUME NEW x \in C, NEW y \in C, NEW z \in C, Before(x, y), Before(y, z)
              PROVE  Before(x, z)
            <4>1. MayPrecede(x, y) /\ MayPrecede(y, z) => MayPrecede(x, z)
                BY <2>1, StrategyOrders
            <4>2. Rank(x) \in Nat /\ Rank(y) \in Nat /\ Rank(z) \in Nat
                BY <2>2
            <4> QED
                BY <3>2, <4>1, <4>2
        <3> HIDE DEF R, Before
        <3> QED
            BY <2>4, <3>1, <3>2 DEF IsOrder
    <2> HIDE DEF R, Before, k
    <2>6. Orders(C) # {}
        <3>1. PICK s : ListsInOrder(s, C, R)
            BY <2>1, <2>5, SortExists
        <3>2. s \in [1..k -> C] /\ \A a, b \in 1..k : a < b => s[a] # s[b] /\ <<s[a], s[b]>> \in R
            BY <3>1 DEF ListsInOrder, k
        <3>3. s \in Orders(C)
            BY <2>3, <2>4, <3>2
        <3> QED
            BY <3>3
    <2>7. ASSUME NEW s \in Orders(C) PROVE Range(s) = C
        <3>1. s \in [1..k -> C] /\ \A a, b \in 1..k : a < b => s[a] # s[b]
            BY <2>3, <2>7
        <3> QED
            BY <2>1, <3>1, ListsAll DEF k
    <2> QED
        BY <2>6, <2>7 DEF RoutesAreTheCandidates, C
<1> QED
    BY <1>1, TimesHold, PTL
=============================================================================
