---------------------------- MODULE RateLimitMemoryProofs -----------------------------
(*****************************************************************************)
(* Proofs about RateLimitMemory, for any minute, rules, configurations and   *)
(* requests: the buckets are well-formed; a limiter that renews a bucket     *)
(* when its key comes back implements FixedWindow, which renews them all     *)
(* when the minute turns; and no rule admits more than its limits in a       *)
(* minute of the clock, nor more than twice them in any 60 seconds.          *)
(*                                                                           *)
(* The first two turn on two facts about %: windows begin on multiples of a  *)
(* minute, so that a bucket is a minute old at the turn and not before.  The *)
(* limits need to be told what a bucket counts: the admissions of its key,   *)
(* by whatever rule, since its window began (BucketsCount).                  *)
(*****************************************************************************)
EXTENDS RateLimitMemory, Facts, SequenceTheorems, TLAPS

-----------------------------------------------------------------------------
(* Facts about numbers. *)

LEMMA Division ==
    ASSUME NEW m \in Nat \ {0}, NEW a \in Nat
    PROVE  a \div m \in Nat /\ a % m \in 0..(m - 1) /\ a = m * (a \div m) + (a % m)
OBVIOUS

LEMMA Remainder ==
    ASSUME NEW m \in Nat \ {0}, NEW q \in Nat, NEW r \in 0..(m - 1)
    PROVE  (m * q + r) % m = r
OBVIOUS

LEMMA NextMultiple ==
    ASSUME NEW m \in Nat \ {0}, NEW p \in Nat, NEW q \in Nat, p < q
    PROVE  m * p \in Nat /\ m * q \in Nat /\ m * q >= m * p + m
<1>1. m * q = m * p + m * (q - p)
    OBVIOUS
<1>2. m * (q - p) = m + m * (q - p - 1)
    OBVIOUS
<1>3. m * (q - p - 1) >= 0
    OBVIOUS
<1>4. m * q \in Nat /\ m * p \in Nat /\ m * (q - p) \in Int /\ m * (q - p - 1) \in Int
    OBVIOUS
<1> QED
    BY <1>1, <1>2, <1>3, <1>4

(* Two different multiples of m are at least m apart... *)
LEMMA MultiplesApart ==
    ASSUME NEW m \in Nat \ {0}, NEW a \in Nat, NEW b \in Nat, a % m = 0, b % m = 0, a < b
    PROVE  b - a >= m
<1> DEFINE p == a \div m
<1> DEFINE q == b \div m
<1>1. p \in Nat /\ q \in Nat /\ a = m * p /\ b = m * q
    BY Division
<1> HIDE DEF p, q
<1>2. CASE p < q
    BY <1>1, <1>2, NextMultiple
<1>3. CASE p = q
    BY <1>1, <1>3
<1>4. CASE q < p
    <2>1. m * p >= m * q + m
        BY <1>1, <1>4, NextMultiple
    <2> QED
        BY <1>1, <2>1
<1> QED
    BY <1>1, <1>2, <1>3, <1>4

(* ... and a multiple and m make a multiple. *)
LEMMA MultipleAfter ==
    ASSUME NEW m \in Nat \ {0}, NEW a \in Nat, a % m = 0
    PROVE  (a + m) % m = 0
<1> DEFINE p == a \div m
<1>1. p \in Nat /\ a = m * p
    BY Division
<1> HIDE DEF p
<1>2. a + m = m * (p + 1) + 0 /\ 0 \in 0..(m - 1)
    BY <1>1
<1> QED
    BY <1>1, <1>2, Remainder

(* Truncate gives the beginning of the minute. *)
LEMMA TruncateIsStart ==
    ASSUME NEW a \in Nat
    PROVE  /\ Truncate(a) \in 0..a
           /\ Truncate(a) % Minute = 0
           /\ a - Truncate(a) < Minute
<1> DEFINE p == a \div Minute
<1>1. p \in Nat /\ a = Minute * p + (a % Minute) /\ a % Minute \in 0..(Minute - 1)
    BY TimeAssumption, Division
<1> HIDE DEF p
<1>2. a - (a % Minute) = Minute * p + 0 /\ Minute * p \in Nat /\ 0 \in 0..(Minute - 1)
    BY <1>1, TimeAssumption
<1>3. (Minute * p + 0) % Minute = 0
    BY <1>1, <1>2, TimeAssumption, Remainder
<1> QED
    BY <1>1, <1>2, <1>3, TimeAssumption DEF Truncate

-----------------------------------------------------------------------------
(* The inductive invariant: buckets are counters whose window began on a     *)
(* minute.                                                                   *)
BucketType(t) == [windowStart : {u \in 0..t : u % Minute = 0}, requests : Nat, tokens : Nat]

IInv ==
    /\ now \in 0..MaxTime
    /\ config \in Configs
    /\ \A k \in DOMAIN buckets : buckets[k] \in BucketType(now)

(* The bucket of a key is always of the present minute... *)
LEMMA BucketIsPresent ==
    ASSUME IInv, NEW k
    PROVE  BucketFor(k) \in BucketType(now) /\ now - BucketFor(k).windowStart < Minute
<1>1. now \in Nat /\ Truncate(now) \in 0..now /\ Truncate(now) % Minute = 0
      /\ now - Truncate(now) < Minute
    BY TruncateIsStart, TimeAssumption DEF IInv
<1>2. [windowStart |-> Truncate(now), requests |-> 0, tokens |-> 0] \in BucketType(now)
    BY <1>1 DEF BucketType
<1> QED
    BY <1>1, <1>2 DEF BucketFor, IInv

(* ... and what Check leaves in the map is what it finds there next. *)
LEMMA OthersKeepTheirs ==
    ASSUME IInv, NEW key, NEW b \in BucketType(now), now - b.windowStart < Minute,
           now' = now, buckets' = WithBucket(key, b)
    PROVE  /\ BucketFor(key)' = b
           /\ \A k : k # key => BucketFor(k)' = BucketFor(k)
           /\ \A k \in DOMAIN buckets' : buckets'[k] \in BucketType(now')
BY DEF WithBucket, BucketFor, IInv, Truncate

LEMMA ChargedBucket ==
    ASSUME NEW t, NEW b \in BucketType(t), NEW amount \in Nat
    PROVE  [b EXCEPT !.requests = @ + 1, !.tokens = @ + amount] \in BucketType(t)
<1> DEFINE c == [b EXCEPT !.requests = @ + 1]
<1>1. c \in BucketType(t)
    BY DEF BucketType
<1>2. [b EXCEPT !.requests = @ + 1, !.tokens = @ + amount] = [c EXCEPT !.tokens = @ + amount]
    BY DEF BucketType
<1> HIDE DEF c
<1>3. [c EXCEPT !.tokens = @ + amount] \in BucketType(t)
    BY <1>1 DEF BucketType
<1> QED
    BY <1>2, <1>3

LEMMA InitIInv == Init => IInv
BY TimeAssumption DEF Init, IInv

LEMMA IInvKept == IInv /\ [Next]_vars => IInv'
<1> SUFFICES ASSUME IInv, [Next]_vars
             PROVE  IInv'
    OBVIOUS
<1>1. CASE Tick
    <2>1. now \in Nat /\ now' = now + 1 /\ now' \in 0..MaxTime /\ UNCHANGED <<config, buckets>>
        BY <1>1, TimeAssumption DEF Tick, IInv
    <2>2. \A k \in DOMAIN buckets : buckets[k] \in BucketType(now')
        BY <2>1 DEF IInv, BucketType
    <2> QED
        BY <2>1, <2>2 DEF IInv
<1>2. ASSUME NEW c \in Configs, Configure(c)
      PROVE  IInv'
    BY <1>2 DEF Configure, IInv
<1>3. ASSUME NEW req \in Requests, Check(req)
      PROVE  IInv'
    <2> DEFINE key == Key(config.keyBy, req)
    <2>1. BucketFor(key) \in BucketType(now) /\ now - BucketFor(key).windowStart < Minute
        BY BucketIsPresent
    <2>2. PICK b \in BucketType(now) : /\ b.windowStart = BucketFor(key).windowStart
                                       /\ buckets' = WithBucket(key, b)
        <3>1. CASE CheckAllows(req)
            <4> DEFINE b == [BucketFor(key) EXCEPT !.requests = @ + 1, !.tokens = @ + req.tokens]
            <4>1. b \in BucketType(now)
                BY <2>1, ChargedBucket, CallsAssumption
            <4>2. b.windowStart = BucketFor(key).windowStart
                BY <2>1 DEF BucketType
            <4>3. buckets' = WithBucket(key, b)
                BY <3>1 DEF CheckAllows
            <4> QED
                BY <4>1, <4>2, <4>3
        <3>2. CASE CheckDenies(req)
            BY <2>1, <3>2 DEF CheckDenies
        <3> QED
            BY <1>3, <3>1, <3>2 DEF Check
    <2>3. UNCHANGED <<now, config>>
        BY <1>3 DEF Check, CheckAllows, CheckDenies
    <2> HIDE DEF key
    <2>4. now - b.windowStart < Minute
        BY <2>1, <2>2
    <2>5. \A k \in DOMAIN buckets' : buckets'[k] \in BucketType(now')
        BY <2>2, <2>3, <2>4, OthersKeepTheirs
    <2> QED
        BY <2>3, <2>5 DEF IInv
<1>4. CASE UNCHANGED vars
    BY <1>4 DEF vars, IInv
<1> QED
    BY <1>1, <1>2, <1>3, <1>4 DEF Next

LEMMA IInvHolds == Spec => []IInv
<1>1. Init => IInv
    BY InitIInv
<1>2. IInv /\ [Next]_vars => IInv'
    BY IInvKept
<1> QED
    BY <1>1, <1>2, PTL DEF Spec

(* Windows begin on a minute of the past, and counters are natural numbers.  *)
THEOREM TypeCorrect == Spec => []TypeOK
<1>1. IInv => TypeOK
    BY DEF IInv, TypeOK, BucketType
<1> QED
    BY <1>1, IInvHolds, PTL

-----------------------------------------------------------------------------
(* RateLimitMemory implements FixedWindow. *)

Admission(t) == [key : Keys, rule : Nat, at : 0..t, tokens : Nat]

Admissions(as) == [j \in DOMAIN as |-> AdmittedUnder(as[j])]

LEMMA AbstractInit == Init => Abstract!Init
<1>1. Admissions(<<>>) = <<>>
    BY DEF Admissions
<1> QED
    BY <1>1 DEF Init, Abstract!Init, Abstract!Fresh, BucketFor, Admissions

(* What Append adds, and that it adds nothing else. *)
LEMMA OneMore ==
    ASSUME NEW S, NEW s \in Seq(S), NEW a \in S
    PROVE  /\ Len(s) \in Nat /\ DOMAIN s = 1..Len(s) /\ \A j \in 1..Len(s) : s[j] \in S
           /\ DOMAIN Append(s, a) = 1..(Len(s) + 1)
           /\ Append(s, a)[Len(s)+1] = a /\ \A j \in 1..Len(s) : Append(s, a)[j] = s[j]
OBVIOUS

(* A sequence that continues another by one element is its Append. *)
LEMMA AppendOne ==
  ASSUME NEW T, NEW n \in Nat, NEW f \in [1..n -> T], NEW x \in T, NEW g \in [1..(n + 1) -> T],
         g[n + 1] = x, \A j \in 1..n : g[j] = f[j]
  PROVE  g = Append(f, x)
<1>1. f \in Seq(T) /\ Len(f) = n
  OBVIOUS
<1>2. /\ Append(f, x) \in [1..(n + 1) -> T] /\ Append(f, x)[n + 1] = x
      /\ \A j \in 1..n : Append(f, x)[j] = f[j]
  <2>1. /\ DOMAIN Append(f, x) = 1..(n + 1) /\ Append(f, x)[n + 1] = x
        /\ \A j \in 1..n : Append(f, x)[j] = f[j]
    BY <1>1, OneMore
  <2>2. Append(f, x) \in Seq(T) /\ Len(Append(f, x)) = n + 1
    BY <1>1
  <2>3. Append(f, x) \in [1..(n + 1) -> T]
    BY <2>2, LenProperties
  <2> QED
    BY <2>1, <2>3
<1>3. \A j \in 1..(n + 1) : g[j] = Append(f, x)[j]
  <2>1. \A j \in 1..(n + 1) : j = n + 1 \/ j \in 1..n
     OBVIOUS
  <2> QED BY <1>2, <2>1
<1> QED
  BY <1>2, <1>3

(* Mapping the elements of a sequence commutes with Append. *)
LEMMA MapGrows ==
    ASSUME NEW S, NEW s \in Seq(S), NEW a \in S, NEW F
    PROVE  [j \in DOMAIN Append(s, a) |-> F[Append(s, a)[j]]]
              = Append([j \in DOMAIN s |-> F[s[j]]], F[a])
<1> DEFINE n == Len(s)
           t == Append(s, a)
           f == [j \in DOMAIN s |-> F[s[j]]]
           g == [j \in DOMAIN t |-> F[t[j]]]
           T == {F[y] : y \in S}
<1>1. /\ n \in Nat /\ DOMAIN s = 1..n /\ \A j \in 1..n : s[j] \in S
      /\ DOMAIN t = 1..(n + 1) /\ t[n + 1] = a /\ \A j \in 1..n : t[j] = s[j]
  BY OneMore
<1> HIDE DEF n, t
<1>2. f \in [1..n -> T] /\ F[a] \in T
  BY <1>1
<1>3. g \in [1..(n + 1) -> T] /\ g[n + 1] = F[a] /\ \A j \in 1..n : g[j] = f[j]
  BY <1>1
<1> HIDE DEF f, g, T
<1> QED
  <2>1. g = Append(f, F[a])
    BY <1>1, <1>2, <1>3, AppendOne
  <2> QED
    BY <2>1 DEF f, g, t

(* One admission more is one more at the end, whatever rule it is under. *)
LEMMA AdmissionsGrow ==
    ASSUME NEW S, NEW s \in Seq(S), NEW a \in S
    PROVE  Admissions(Append(s, a)) = Append(Admissions(s), AdmittedUnder(a))
<1> DEFINE F == [x \in S |-> AdmittedUnder(x)]
           t == Append(s, a)
<1>1. /\ \A j \in DOMAIN t : t[j] \in S
      /\ \A j \in DOMAIN s : s[j] \in S
    BY OneMore
<1>2. [j \in DOMAIN t |-> F[t[j]]] = Append([j \in DOMAIN s |-> F[s[j]]], F[a])
    <2> HIDE DEF F
    <2> QED
        BY MapGrows
<1> HIDE DEF t
<1>3. /\ [j \in DOMAIN t |-> F[t[j]]] = [j \in DOMAIN t |-> AdmittedUnder(t[j])]
      /\ [j \in DOMAIN s |-> F[s[j]]] = [j \in DOMAIN s |-> AdmittedUnder(s[j])]
      /\ F[a] = AdmittedUnder(a)
    BY <1>1
<1> QED
    BY <1>2, <1>3 DEF Admissions, t

(* The limits that apply are limits of some configuration. *)
LEMMA LimitIsARule ==
    ASSUME IInv, NEW req
    PROVE  Limit(Match(req)) \in Rules
<1> DEFINE applying == {n \in 1..Len(config.rules) : RuleApplies(config.rules[n], req)}
<1>1. config.rules \in Seq({config.rules[n] : n \in DOMAIN config.rules})
    BY CallsAssumption DEF IInv
<1>2. DOMAIN config.rules = 1..Len(config.rules)
    BY <1>1
<1>3. CASE applying = {}
    BY <1>3 DEF Match, Limit, Rules, IInv
<1>4. CASE applying # {}
    <2>1. \E n \in applying : \A m \in applying : n <= m
        <3>1. applying \in SUBSET Nat
            BY <1>1
        <3> HIDE DEF applying
        <3> QED
            BY <1>4, <3>1, LeastExists
    <2>2. Match(req) \in applying
        BY <1>4, <2>1 DEF Match
    <2>3. Match(req) \in DOMAIN config.rules /\ Match(req) # 0
        BY <1>1, <1>2, <2>2
    <2> QED
        BY <2>3 DEF Limit, Rules, IInv
<1> QED
    BY <1>3, <1>4

(* Whatever the key is made of, it is one of Keys. *)
LEMMA KeyIsAKey ==
    ASSUME NEW keyBy, NEW req \in Requests
    PROVE  Key(keyBy, req) \in Keys
<1>1. CASE keyBy \in KeyKinds
    BY <1>1 DEF Keys
<1>2. CASE keyBy \notin KeyKinds
    <2>1. Key(keyBy, req) = Key("tenant_model", req)
        BY <1>2 DEF Key, KeyKinds
    <2>2. "tenant_model" \in KeyKinds
        BY DEF KeyKinds
    <2> QED
        BY <2>1, <2>2 DEF Keys
<1> QED
    BY <1>1, <1>2

(* At the turn of the minute every bucket is out of date, and at no other    *)
(* moment does one become so.                                                *)
LEMMA TickRefines ==
    ASSUME IInv, Tick
    PROVE  Abstract!Tick
<1>1. now \in Nat /\ now' = now + 1 /\ buckets' = buckets /\ Minute \in Nat \ {0}
    BY TimeAssumption DEF Tick, IInv
<1>2. ASSUME NEW k \in DOMAIN buckets
      PROVE  /\ now' % Minute = 0 => ~(now' - buckets[k].windowStart < Minute)
             /\ now' % Minute # 0 =>
                    (now' - buckets[k].windowStart < Minute
                         <=> now - buckets[k].windowStart < Minute)
    <2> PICK u : u = buckets[k].windowStart
        OBVIOUS
    <2>1. u \in 0..now /\ u % Minute = 0
        BY DEF IInv, BucketType
    <2>4. u \in Nat /\ now' \in Nat /\ u < now'
        BY <1>1, <2>1
    <2>2. CASE now' % Minute = 0
        <3>1. now' - u >= Minute
            BY <1>1, <2>1, <2>2, <2>4, MultiplesApart
        <3>2. ~(now' - u < Minute)
            BY <1>1, <2>4, <3>1
        <3> QED
            BY <2>2, <3>2
    <2>3. CASE now' % Minute # 0
        <3>1. now' # u + Minute
            BY <1>1, <2>3, <2>1, <2>4, MultipleAfter
        <3>2. now' - u < Minute <=> now - u < Minute
            BY <1>1, <2>4, <3>1
        <3> QED
            BY <2>3, <3>2
    <2> QED
        BY <2>2, <2>3
<1>5. UNCHANGED [j \in DOMAIN admitted |-> AdmittedUnder(admitted[j])]
    BY DEF Tick, AdmittedUnder, Limit
<1>3. CASE now' % Minute = 0
    <2>1. \A k : BucketFor(k)'.requests = 0 /\ BucketFor(k)'.tokens = 0
        BY <1>1, <1>2, <1>3 DEF BucketFor
    <2> QED
        BY <1>1, <1>3, <1>5, <2>1 DEF Abstract!Tick, Abstract!Fresh
<1>4. CASE now' % Minute # 0
    <2>1. \A k : /\ BucketFor(k)'.requests = BucketFor(k).requests
                 /\ BucketFor(k)'.tokens = BucketFor(k).tokens
        BY <1>1, <1>2, <1>4 DEF BucketFor
    <2> QED
        BY <1>1, <1>4, <1>5, <2>1 DEF Abstract!Tick
<1> QED
    BY <1>3, <1>4

LEMMA MatchIsARule ==
    ASSUME IInv, NEW req
    PROVE  Match(req) \in 0..Len(config.rules)
<1> DEFINE applying == {n \in 1..Len(config.rules) : RuleApplies(config.rules[n], req)}
<1>1. Len(config.rules) \in Nat /\ applying \in SUBSET Nat
    BY CallsAssumption DEF IInv
<1>2. CASE applying = {}
    BY <1>1, <1>2 DEF Match
<1>3. CASE applying # {}
    <2> HIDE DEF applying
    <2>1. \E n \in applying : \A m \in applying : n <= m
        BY <1>1, <1>3, LeastExists
    <2>2. Match(req) \in applying
        BY <1>3, <2>1 DEF Match, applying
    <2> QED
        BY <1>1, <2>2 DEF applying
<1> QED
    BY <1>2, <1>3

(* Admitting a request charges the budget of its key, and no other. *)
LEMMA AllowRefines ==
    ASSUME IInv, admitted \in Seq(Admission(now)), NEW req \in Requests, CheckAllows(req)
    PROVE  Abstract!Admit(Key(config.keyBy, req))
<1> PICK key : key = Key(config.keyBy, req)
    OBVIOUS
<1> PICK b : b = BucketFor(key)
    OBVIOUS
<1> PICK limit : limit = Limit(Match(req))
    OBVIOUS
<1> DEFINE c == [b EXCEPT !.requests = @ + 1, !.tokens = @ + req.tokens]
<1>1. b \in BucketType(now) /\ now - b.windowStart < Minute
    BY BucketIsPresent
<1>2. /\ c \in BucketType(now) /\ c.windowStart = b.windowStart
      /\ c.requests = b.requests + 1 /\ c.tokens = b.tokens + req.tokens
    <2>1. c \in BucketType(now)
        BY <1>1, ChargedBucket, CallsAssumption
    <2> QED
        BY <1>1, <2>1 DEF BucketType
<1>3. /\ Allowed(b, limit, req.tokens)
      /\ buckets' = WithBucket(key, c) /\ now' = now
    BY DEF CheckAllows
<1>4. key \in Keys
    BY KeyIsAKey
<1>5. limit \in Rules
    BY LimitIsARule
<1> HIDE DEF c
<1>6. BucketFor(key)' = c /\ \A k : k # key => BucketFor(k)' = BucketFor(k)
    BY <1>1, <1>2, <1>3, OthersKeepTheirs
<1>7. /\ limit.requestsPerMinute > 0 => b.requests + 1 <= limit.requestsPerMinute
      /\ req.tokens > 0 =>
            (limit.tokensPerMinute > 0 => b.tokens + req.tokens <= limit.tokensPerMinute)
    BY <1>3 DEF Allowed
<1> DEFINE Limits == {r.requestsPerMinute : r \in Rules} \union {r.tokensPerMinute : r \in Rules}
<1>8. limit.requestsPerMinute \in Limits /\ limit.tokensPerMinute \in Limits
    BY <1>5
<1>9. /\ [k \in Keys |-> BucketFor(k).requests]'
            = [[k \in Keys |-> BucketFor(k).requests] EXCEPT ![key] = @ + 1]
      /\ [k \in Keys |-> BucketFor(k).tokens]'
            = [[k \in Keys |-> BucketFor(k).tokens] EXCEPT ![key] = @ + req.tokens]
    BY <1>2, <1>4, <1>6
<1>10. req.tokens \in {r.tokens : r \in Requests}
    OBVIOUS
<1>11. [j \in DOMAIN admitted |-> AdmittedUnder(admitted[j])]'
          = Append([j \in DOMAIN admitted |-> AdmittedUnder(admitted[j])],
                   [key |-> key, requestsPerMinute |-> limit.requestsPerMinute,
                    tokensPerMinute |-> limit.tokensPerMinute, amount |-> req.tokens])
    <2> DEFINE x == [key |-> key, rule |-> Match(req), at |-> now, tokens |-> req.tokens]
    <2>1. x \in Admission(now)
        <3>1. Match(req) \in Nat /\ now \in 0..now /\ req.tokens \in Nat
            BY MatchIsARule, CallsAssumption, TimeAssumption DEF IInv
        <3> QED
            BY <1>4, <3>1 DEF Admission
    <2>2. admitted' = Append(admitted, x) /\ config' = config
        BY DEF CheckAllows
    <2>3. AdmittedUnder(x)
              = [key |-> key, requestsPerMinute |-> limit.requestsPerMinute,
                 tokensPerMinute |-> limit.tokensPerMinute, amount |-> req.tokens]
        BY DEF AdmittedUnder
    <2> HIDE DEF x
    <2>4. Admissions(Append(admitted, x)) = Append(Admissions(admitted), AdmittedUnder(x))
        BY <2>1, AdmissionsGrow
    <2>5. [j \in DOMAIN admitted |-> AdmittedUnder(admitted[j])]' = Admissions(admitted')
        BY <2>2 DEF Admissions, AdmittedUnder, Limit
    <2> QED
        BY <2>2, <2>3, <2>4, <2>5 DEF Admissions
<1> HIDE DEF Limits
<1> QED
    BY <1>3, <1>4, <1>7, <1>8, <1>9, <1>10, <1>11
       DEF Abstract!Admit, Abstract!Fits, Abstract!Admission, Limits

(* Denying one, though it may put a bucket into the map, charges nothing. *)
LEMMA DenyRefines ==
    ASSUME IInv, NEW req \in Requests, CheckDenies(req)
    PROVE  UNCHANGED Abstract!windowVars
<1> PICK key : key = Key(config.keyBy, req)
    OBVIOUS
<1> PICK b : b = BucketFor(key)
    OBVIOUS
<1>1. b \in BucketType(now) /\ now - b.windowStart < Minute
    BY BucketIsPresent
<1>2. /\ buckets' = WithBucket(key, b) /\ now' = now
      /\ admitted' = admitted /\ config' = config
    BY DEF CheckDenies
<1>3. \A k : BucketFor(k)' = BucketFor(k)
    BY <1>1, <1>2, OthersKeepTheirs
<1> QED
    BY <1>2, <1>3 DEF Abstract!windowVars, AdmittedUnder, Limit

-----------------------------------------------------------------------------
(* That the limits are kept.  A bucket counts what its key was charged since *)
(* the bucket's window began, so no rule can have let more through than      *)
(* that, whichever rules the others were admitted by.                        *)

(* The admissions of a key, by any rule, in the minute from t on. *)
ChargedTo(k, t) ==
    {j \in DOMAIN admitted : /\ admitted[j].key = k
                             /\ admitted[j].at \in t..(t + Minute - 1)}

KeysHaveBuckets ==
    \A j \in DOMAIN admitted :
        /\ admitted[j].key \in DOMAIN buckets
        /\ admitted[j].at < buckets[admitted[j].key].windowStart + Minute

TokensIn(a, js) == SumFunctionOnSet([j \in DOMAIN a |-> a[j].tokens], js)

Counts(b, js) == b.requests = Cardinality(js) /\ b.tokens = TokensIn(admitted, js)

BucketsCount ==
    \A k \in DOMAIN buckets : Counts(buckets[k], ChargedTo(k, buckets[k].windowStart))

LimitsKept ==
    \A n \in 0..Len(config.rules), t \in 0..MaxTime :
        t % Minute = 0 => LimitKept(n, t, 1)

AInv == /\ admitted \in Seq(Admission(now))
        /\ KeysHaveBuckets
        /\ BucketsCount
        /\ LimitsKept

LEMMA AdmissionsFinite ==
    ASSUME NEW t, NEW a \in Seq(Admission(t)), NEW js \in SUBSET DOMAIN a
    PROVE  /\ IsFiniteSet(js)
           /\ Cardinality(js) \in Nat
           /\ \A j \in js : [i \in DOMAIN a |-> a[i].tokens][j] \in Nat
           /\ SumFunctionOnSet([i \in DOMAIN a |-> a[i].tokens], js) \in Nat
<1>1. IsFiniteSet(DOMAIN a)
    BY FS_Interval
<1>2. IsFiniteSet(js) /\ Cardinality(js) \in Nat
    BY <1>1, FS_Subset, FS_CardinalityType
<1> DEFINE f == [i \in DOMAIN a |-> a[i].tokens]
<1>3. \A j \in js : f[j] \in Nat
    <2>1. \A j \in js : a[j] \in Admission(t)
        OBVIOUS
    <2> QED
        BY <2>1 DEF Admission
<1> HIDE DEF f
<1>4. SumFunctionOnSet(f, js) \in Nat
    BY <1>2, <1>3, SumIsNat
<1> QED
    BY <1>2, <1>3, <1>4 DEF f

(* An admission adds its own tokens where it counts, and nothing elsewhere. *)
LEMMA OneMoreAdmission ==
    ASSUME NEW js, IsFiniteSet(js), NEW y, y \notin js, NEW f, NEW g,
           \A j \in js : f[j] \in Nat /\ g[j] = f[j], g[y] \in Nat
    PROVE  /\ SumFunctionOnSet(g, js) = SumFunctionOnSet(f, js)
           /\ SumFunctionOnSet(g, js \union {y}) = SumFunctionOnSet(f, js) + g[y]
           /\ Cardinality(js \union {y}) = Cardinality(js) + 1
<1>1. SumFunctionOnSet(g, js) = SumFunctionOnSet(f, js) /\ SumFunctionOnSet(f, js) \in Nat
    BY SumSame, SumIsNat
<1>2. SumFunctionOnSet(g, js \union {y}) = g[y] + SumFunctionOnSet(g, js)
    BY SumAdd
<1>3. Cardinality(js \union {y}) = Cardinality(js) + 1
    BY FS_AddElement
<1> QED
    BY <1>1, <1>2, <1>3

(* The bucket Check works on begins with the present minute, and counts what *)
(* its key was charged in it.                                                *)
LEMMA BucketCounts ==
    ASSUME IInv, AInv, NEW key
    PROVE  /\ BucketFor(key).windowStart = Truncate(now)
           /\ Counts(BucketFor(key), ChargedTo(key, Truncate(now)))
           /\ \A j \in DOMAIN admitted :
                 admitted[j].key = key => admitted[j].at < Truncate(now) + Minute
<1> PICK u : u = Truncate(now)
    OBVIOUS
<1>1. /\ now \in Nat /\ Minute \in Nat \ {0} /\ u \in 0..now /\ u % Minute = 0
      /\ now - u < Minute
    BY TimeAssumption, TruncateIsStart DEF IInv
<1>2. \A j \in DOMAIN admitted : admitted[j].at \in 0..now
    <2>1. \A j \in DOMAIN admitted : admitted[j] \in Admission(now)
        BY DEF AInv
    <2> QED
        BY <2>1 DEF Admission
<1>3. \A j \in DOMAIN admitted : admitted[j].at < u + Minute
    BY <1>1, <1>2
<1>4. CASE key \in DOMAIN buckets /\ now - buckets[key].windowStart < Minute
    <2> PICK v : v = buckets[key].windowStart
        OBVIOUS
    <2>1. v \in 0..now /\ v % Minute = 0 /\ now - v < Minute
        BY <1>4 DEF IInv, BucketType
    <2>2. ~(u < v) /\ ~(v < u)
        <3>1. u < v => v - u >= Minute
            BY <1>1, <2>1, MultiplesApart
        <3>2. v < u => u - v >= Minute
            BY <1>1, <2>1, MultiplesApart
        <3> QED
            BY <1>1, <2>1, <3>1, <3>2
    <2>3. u = v
        BY <1>1, <2>1, <2>2
    <2> QED
        BY <1>3, <1>4, <2>3 DEF BucketFor, AInv, BucketsCount
<1>5. CASE ~(key \in DOMAIN buckets /\ now - buckets[key].windowStart < Minute)
    <2>1. BucketFor(key) = [windowStart |-> u, requests |-> 0, tokens |-> 0]
        BY <1>5 DEF BucketFor
    <2>2. \A j \in DOMAIN admitted : admitted[j].key = key => admitted[j].at < u
        <3> SUFFICES ASSUME NEW j \in DOMAIN admitted, admitted[j].key = key
                     PROVE  admitted[j].at < u
            OBVIOUS
        <3> PICK v : v = buckets[key].windowStart
            OBVIOUS
        <3>1. key \in DOMAIN buckets /\ admitted[j].at < v + Minute
            BY DEF AInv, KeysHaveBuckets
        <3>2. v \in 0..now /\ v % Minute = 0 /\ ~(now - v < Minute)
            BY <1>5, <3>1 DEF IInv, BucketType
        <3>3. v < u
            BY <1>1, <3>2
        <3>4. u - v >= Minute
            BY <1>1, <3>2, <3>3, MultiplesApart
        <3> QED
            BY <1>1, <1>2, <3>1, <3>2, <3>4
    <2>3. ChargedTo(key, u) = {}
        BY <1>1, <1>2, <2>2 DEF ChargedTo
    <2>4. TokensIn(admitted, {}) = 0
        BY SumEmpty DEF TokensIn
    <2> QED
        BY <1>3, <2>1, <2>3, <2>4, FS_EmptySet DEF Counts
<1> QED
    BY <1>4, <1>5

(* The present minute is the only one, of those of the clock, with now in it. *)
LEMMA PresentMinute ==
    ASSUME IInv, NEW t \in Nat, t % Minute = 0
    PROVE  now \in t..(t + Minute - 1) <=> t = Truncate(now)
<1> PICK u : u = Truncate(now)
    OBVIOUS
<1>1. /\ now \in Nat /\ Minute \in Nat \ {0} /\ u \in 0..now /\ u % Minute = 0
      /\ now - u < Minute
    BY TimeAssumption, TruncateIsStart DEF IInv
<1>2. u < t => t - u >= Minute
    BY <1>1, MultiplesApart
<1>3. t < u => u - t >= Minute
    BY <1>1, MultiplesApart
<1> QED
    BY <1>1, <1>2, <1>3

(* What one admission adds to what is counted. *)
LEMMA AdmissionCounts ==
    ASSUME AInv, NEW x \in Admission(now), x.at = now, admitted' = Append(admitted, x),
           NEW y, y = Len(admitted) + 1
    PROVE  /\ \A k, t : ChargedTo(k, t)' =
                 ChargedTo(k, t) \union (IF x.key = k /\ now \in t..(t + Minute - 1)
                                         THEN {y} ELSE {})
           /\ \A k, n, t : AdmissionsIn(k, n, t)' =
                 AdmissionsIn(k, n, t)
                     \union (IF x.key = k /\ x.rule = n /\ now \in t..(t + Minute - 1)
                             THEN {y} ELSE {})
<1>1. admitted \in Seq(Admission(now))
    BY DEF AInv
<1>2. /\ DOMAIN admitted = 1..Len(admitted) /\ DOMAIN admitted' = 1..(Len(admitted) + 1)
      /\ Len(admitted) \in Nat /\ admitted'[Len(admitted) + 1] = x
      /\ \A j \in 1..Len(admitted) : admitted'[j] = admitted[j]
    BY <1>1
<1>3. ASSUME NEW k, NEW t
      PROVE  ChargedTo(k, t)' =
                 ChargedTo(k, t) \union (IF x.key = k /\ now \in t..(t + Minute - 1)
                                         THEN {y} ELSE {})
    BY <1>2 DEF ChargedTo
<1>4. ASSUME NEW k, NEW n, NEW t
      PROVE  AdmissionsIn(k, n, t)' =
                 AdmissionsIn(k, n, t)
                     \union (IF x.key = k /\ x.rule = n /\ now \in t..(t + Minute - 1)
                             THEN {y} ELSE {})
    BY <1>2 DEF AdmissionsIn
<1> QED
    BY <1>3, <1>4

(* What one admission more adds to the admissions js: nothing, unless js     *)
(* counts it.                                                                *)
AddsOne(js, y, tokens) ==
    /\ TokensIn(admitted', js) = TokensIn(admitted, js)
    /\ TokensIn(admitted', js \union {y}) = TokensIn(admitted, js) + tokens
    /\ Cardinality(js \union {y}) = Cardinality(js) + 1

LEMMA AdmissionAdds ==
    ASSUME AInv, NEW x \in Admission(now), admitted' = Append(admitted, x),
           NEW y, y = Len(admitted) + 1
    PROVE  \A js \in SUBSET DOMAIN admitted : AddsOne(js, y, x.tokens)
<1> TAKE js \in SUBSET DOMAIN admitted
<1>1. admitted \in Seq(Admission(now))
    BY DEF AInv
<1>2. /\ DOMAIN admitted = 1..Len(admitted) /\ DOMAIN admitted' = 1..(Len(admitted) + 1)
      /\ Len(admitted) \in Nat /\ admitted'[Len(admitted) + 1] = x
      /\ \A j \in 1..Len(admitted) : admitted'[j] = admitted[j]
    BY <1>1
<1>3. /\ SumFunctionOnSet([i \in DOMAIN admitted' |-> admitted'[i].tokens], js)
              = SumFunctionOnSet([i \in DOMAIN admitted |-> admitted[i].tokens], js)
      /\ SumFunctionOnSet([i \in DOMAIN admitted' |-> admitted'[i].tokens], js \union {y})
              = SumFunctionOnSet([i \in DOMAIN admitted |-> admitted[i].tokens], js) + x.tokens
      /\ Cardinality(js \union {y}) = Cardinality(js) + 1
    <2> DEFINE f == [i \in DOMAIN admitted |-> admitted[i].tokens]
               g == [i \in DOMAIN admitted' |-> admitted'[i].tokens]
    <2>1. IsFiniteSet(js) /\ \A j \in js : f[j] \in Nat
        BY <1>1, AdmissionsFinite
    <2>2. y \notin js
        BY <1>2
    <2>3. \A j \in js : g[j] = f[j]
        BY <1>2
    <2>4. g[y] = x.tokens /\ x.tokens \in Nat
        BY <1>2 DEF Admission
    <2> HIDE DEF f, g
    <2>5. \A j \in js : f[j] \in Nat /\ g[j] = f[j]
        BY <2>1, <2>3
    <2>6. g[y] \in Nat
        BY <2>4
    <2>7. SumFunctionOnSet(g, js) = SumFunctionOnSet(f, js)
        BY <2>1, <2>5, SumSame
    <2>8. Cardinality(js \union {y}) = Cardinality(js) + 1
        BY <2>1, <2>2, FS_AddElement
    <2>9. SumFunctionOnSet(g, js \union {y}) = SumFunctionOnSet(f, js) + g[y]
        BY ONLY <2>1, <2>2, <2>5, <2>6, OneMoreAdmission
    <2> QED
        BY <2>4, <2>7, <2>8, <2>9 DEF f, g
<1>4. TokensIn(admitted', js) = SumFunctionOnSet([i \in DOMAIN admitted' |-> admitted'[i].tokens], js)
    BY DEF TokensIn
<1>5. TokensIn(admitted', js \union {y})
        = SumFunctionOnSet([i \in DOMAIN admitted' |-> admitted'[i].tokens], js \union {y})
    BY DEF TokensIn
<1>6. TokensIn(admitted, js) = SumFunctionOnSet([i \in DOMAIN admitted |-> admitted[i].tokens], js)
    BY DEF TokensIn
<1> QED
    BY <1>3, <1>4, <1>5, <1>6 DEF AddsOne

LEMMA CountsOfAdmissions ==
    ASSUME AInv, NEW js \in SUBSET DOMAIN admitted, NEW ks \in SUBSET js
    PROVE  /\ Cardinality(js) \in Nat /\ TokensIn(admitted, js) \in Nat
           /\ Cardinality(ks) \in Nat /\ TokensIn(admitted, ks) \in Nat
           /\ Cardinality(ks) <= Cardinality(js) /\ TokensIn(admitted, ks) <= TokensIn(admitted, js)
<1> DEFINE f == [i \in DOMAIN admitted |-> admitted[i].tokens]
<1>1. admitted \in Seq(Admission(now))
    BY DEF AInv
<1>2. /\ IsFiniteSet(js) /\ Cardinality(js) \in Nat /\ SumFunctionOnSet(f, js) \in Nat
      /\ \A j \in js : f[j] \in Nat
    BY <1>1, AdmissionsFinite
<1>3. Cardinality(ks) \in Nat /\ SumFunctionOnSet(f, ks) \in Nat
    BY <1>1, AdmissionsFinite
<1>4. Cardinality(ks) <= Cardinality(js)
    BY <1>2, FS_Subset
<1> HIDE DEF f
<1>5. SumFunctionOnSet(f, ks) <= SumFunctionOnSet(f, js)
    BY <1>2, SumSubset
<1>6. \A is : TokensIn(admitted, is) = SumFunctionOnSet(f, is)
    BY DEF TokensIn, f
<1> QED
    BY <1>2, <1>3, <1>4, <1>5, <1>6

(* The limits of a rule, applying or not. *)
LEMMA LimitIsInt ==
    ASSUME IInv, NEW n \in 0..Len(config.rules)
    PROVE  Limit(n).requestsPerMinute \in Int /\ Limit(n).tokensPerMinute \in Int
<1>1. DOMAIN config.rules = 1..Len(config.rules) /\ Len(config.rules) \in Nat
    BY CallsAssumption DEF IInv
<1>2. Limit(n) \in {config.defaults} \union {config.rules[i] : i \in DOMAIN config.rules}
    BY <1>1 DEF Limit
<1> QED
    BY <1>2, CallsAssumption DEF IInv

(* The limits hold of every name, one under which nothing was admitted too. *)
LEMMA LimitsOfAnyKey ==
    ASSUME IInv, AInv, NEW n \in 0..Len(config.rules), NEW t \in 0..MaxTime, t % Minute = 0,
           NEW k
    PROVE  /\ Limit(n).requestsPerMinute > 0 =>
                  Cardinality(AdmissionsIn(k, n, t)) <= Limit(n).requestsPerMinute
           /\ Limit(n).tokensPerMinute > 0 =>
                  TokensIn(admitted, AdmissionsIn(k, n, t)) <= Limit(n).tokensPerMinute
<1>1. Limit(n).requestsPerMinute \in Int /\ Limit(n).tokensPerMinute \in Int
    BY LimitIsInt
<1>2. CASE k \in {admitted[j].key : j \in DOMAIN admitted}
    <2>1. LimitKept(n, t, 1)
        BY DEF AInv, LimitsKept
    <2>2. /\ Limit(n).requestsPerMinute > 0 =>
                 Cardinality(AdmissionsIn(k, n, t)) <= 1 * Limit(n).requestsPerMinute
          /\ Limit(n).tokensPerMinute > 0 =>
                 TokensIn(admitted, AdmissionsIn(k, n, t)) <= 1 * Limit(n).tokensPerMinute
        BY <1>2, <2>1 DEF LimitKept, TokensOf, TokensIn
    <2> QED
        BY <1>1, <2>2
<1>3. CASE k \notin {admitted[j].key : j \in DOMAIN admitted}
    <2>1. AdmissionsIn(k, n, t) = {}
        BY <1>3 DEF AdmissionsIn
    <2>2. Cardinality({}) = 0 /\ TokensIn(admitted, {}) = 0
        BY SumEmpty, FS_EmptySet DEF TokensIn
    <2> QED
        BY <1>1, <2>1, <2>2
<1> QED
    BY <1>2, <1>3

(* A request admitted is charged to the bucket of its key, and to no other; *)
(* and the one rule it is admitted by still has room for it.                *)
LEMMA AllowKeepsLimits ==
    ASSUME IInv, AInv, NEW req \in Requests, CheckAllows(req)
    PROVE  AInv'
<1> PICK key : key = Key(config.keyBy, req)
    OBVIOUS
<1> PICK b : b = BucketFor(key)
    OBVIOUS
<1> PICK r : r = Match(req)
    OBVIOUS
<1> PICK y : y = Len(admitted) + 1
    OBVIOUS
<1> PICK u : u = Truncate(now)
    OBVIOUS
<1> DEFINE c == [b EXCEPT !.requests = @ + 1, !.tokens = @ + req.tokens]
           x == [key |-> key, rule |-> r, at |-> now, tokens |-> req.tokens]
<1>1. /\ now \in Nat /\ Minute \in Nat \ {0} /\ u \in 0..now /\ u % Minute = 0
      /\ now - u < Minute /\ now \in u..(u + Minute - 1)
    <2>1. now \in Nat /\ Minute \in Nat \ {0} /\ u \in 0..now /\ u % Minute = 0
          /\ now - u < Minute
        BY TimeAssumption, TruncateIsStart DEF IInv
    <2> QED
        BY <2>1
<1>2. /\ b \in BucketType(now) /\ b.windowStart = u
      /\ b.requests \in Nat /\ b.tokens \in Nat
      /\ b.requests = Cardinality(ChargedTo(key, u))
      /\ b.tokens = TokensIn(admitted, ChargedTo(key, u))
      /\ \A j \in DOMAIN admitted : admitted[j].key = key => admitted[j].at < u + Minute
    BY BucketIsPresent, BucketCounts DEF BucketType, Counts
<1>3. /\ c \in BucketType(now) /\ c.windowStart = u
      /\ c.requests = b.requests + 1 /\ c.tokens = b.tokens + req.tokens
    <2>1. c \in BucketType(now)
        BY <1>2, ChargedBucket, CallsAssumption
    <2> QED
        BY <1>2, <2>1 DEF BucketType
<1>4. /\ Allowed(b, Limit(r), req.tokens)
      /\ buckets' = WithBucket(key, c) /\ admitted' = Append(admitted, x)
      /\ now' = now /\ config' = config
    BY DEF CheckAllows
<1>5. /\ x \in Admission(now) /\ x.key = key /\ x.rule = r /\ x.at = now
      /\ x.tokens = req.tokens /\ req.tokens \in Nat
    <2>1. key \in Keys
        BY KeyIsAKey
    <2>2. r \in Nat
        BY MatchIsARule
    <2> QED
        BY <1>1, <2>1, <2>2, CallsAssumption DEF Admission
<1>6. /\ admitted \in Seq(Admission(now)) /\ admitted' \in Seq(Admission(now))
      /\ DOMAIN admitted = 1..Len(admitted) /\ DOMAIN admitted' = 1..(Len(admitted) + 1)
      /\ Len(admitted) \in Nat /\ admitted'[y] = x
      /\ \A j \in 1..Len(admitted) : admitted'[j] = admitted[j]
    BY <1>4, <1>5 DEF AInv
<1>7. /\ DOMAIN buckets' = DOMAIN buckets \union {key}
      /\ buckets'[key] = c
      /\ \A k \in DOMAIN buckets \ {key} : buckets'[k] = buckets[k]
    BY <1>4 DEF WithBucket
<1> HIDE DEF c, x
<1>8. /\ \A k, t : ChargedTo(k, t)' =
            ChargedTo(k, t) \union (IF key = k /\ now \in t..(t + Minute - 1) THEN {y} ELSE {})
      /\ \A k, n, t : AdmissionsIn(k, n, t)' =
            AdmissionsIn(k, n, t)
                \union (IF key = k /\ r = n /\ now \in t..(t + Minute - 1) THEN {y} ELSE {})
      /\ \A js \in SUBSET DOMAIN admitted :
            /\ TokensIn(admitted', js) = TokensIn(admitted, js)
            /\ TokensIn(admitted', js \union {y}) = TokensIn(admitted, js) + req.tokens
            /\ Cardinality(js \union {y}) = Cardinality(js) + 1
    <2> PICK z : z = x
        OBVIOUS
    <2>1. /\ z \in Admission(now) /\ z.at = now /\ admitted' = Append(admitted, z)
          /\ z.key = key /\ z.rule = r /\ z.tokens = req.tokens
        BY <1>4, <1>5
    <2>2. y = Len(admitted) + 1
        OBVIOUS
    <2>3. \A k, t : ChargedTo(k, t)' =
              ChargedTo(k, t)
                  \union (IF z.key = k /\ now \in t..(t + Minute - 1) THEN {y} ELSE {})
        BY ONLY AInv, <2>1, <2>2, AdmissionCounts
    <2>4. \A k, n, t : AdmissionsIn(k, n, t)' =
              AdmissionsIn(k, n, t)
                  \union (IF z.key = k /\ z.rule = n /\ now \in t..(t + Minute - 1)
                          THEN {y} ELSE {})
        BY ONLY AInv, <2>1, <2>2, AdmissionCounts
    <2>5. \A js \in SUBSET DOMAIN admitted :
              /\ TokensIn(admitted', js) = TokensIn(admitted, js)
              /\ TokensIn(admitted', js \union {y}) = TokensIn(admitted, js) + z.tokens
              /\ Cardinality(js \union {y}) = Cardinality(js) + 1
        <3>1. \A js \in SUBSET DOMAIN admitted : AddsOne(js, y, z.tokens)
            BY ONLY AInv, <2>1, <2>2, AdmissionAdds
        <3> QED
            BY ONLY <3>1 DEF AddsOne
    <2> QED
        BY ONLY <2>1, <2>3, <2>4, <2>5, Zenon
<1>9. KeysHaveBuckets'
    <2> SUFFICES ASSUME NEW j \in DOMAIN admitted'
                 PROVE  /\ admitted'[j].key \in DOMAIN buckets'
                        /\ admitted'[j].at < buckets'[admitted'[j].key].windowStart + Minute
        BY DEF KeysHaveBuckets
    <2>1. CASE j = y
        BY <1>1, <1>3, <1>5, <1>6, <1>7, <2>1
    <2>2. CASE j \in DOMAIN admitted
        <3>1. admitted'[j] = admitted[j]
            BY <1>6, <2>2
        <3>2. admitted[j].key \in DOMAIN buckets
              /\ admitted[j].at < buckets[admitted[j].key].windowStart + Minute
            BY <2>2 DEF AInv, KeysHaveBuckets
        <3>3. CASE admitted[j].key = key
            BY <1>2, <1>3, <1>7, <2>2, <3>1, <3>3
        <3>4. CASE admitted[j].key # key
            BY <1>7, <3>1, <3>2, <3>4
        <3> QED
            BY <3>3, <3>4
    <2> QED
        BY <1>6, <2>1, <2>2
<1>10. BucketsCount'
    <2> SUFFICES ASSUME NEW k \in DOMAIN buckets', NEW w, w = buckets'[k].windowStart,
                        NEW js, js = ChargedTo(k, w)'
                 PROVE  /\ buckets'[k].requests = Cardinality(js)
                        /\ buckets'[k].tokens = TokensIn(admitted', js)
        BY DEF BucketsCount, Counts, ChargedTo
    <2> PICK ks : ks = ChargedTo(k, w)
        OBVIOUS
    <2>1. ks \in SUBSET DOMAIN admitted
        BY DEF ChargedTo
    <2>2. CASE k = key
        <3>1. w = u /\ js = ks \union {y}
            BY <1>1, <1>3, <1>7, <1>8, <2>2
        <3>2. /\ TokensIn(admitted', js) = TokensIn(admitted, ks) + req.tokens
              /\ Cardinality(js) = Cardinality(ks) + 1
            BY <1>8, <2>1, <3>1
        <3>3. ks = ChargedTo(key, u)
            BY <2>2, <3>1
        <3> QED
            BY <1>2, <1>3, <1>7, <2>2, <3>2, <3>3
    <2>3. CASE k # key
        <3>1. js = ks /\ k \in DOMAIN buckets /\ buckets'[k] = buckets[k]
            BY <1>7, <1>8, <2>3
        <3>2. TokensIn(admitted', ks) = TokensIn(admitted, ks)
            BY <1>8, <2>1
        <3>3. /\ buckets[k].requests = Cardinality(ks)
              /\ buckets[k].tokens = TokensIn(admitted, ks)
            BY <3>1 DEF AInv, BucketsCount, Counts
        <3> QED
            BY <3>1, <3>2, <3>3
    <2> QED
        BY <2>2, <2>3
<1>11. LimitsKept'
    <2> SUFFICES ASSUME NEW n \in 0..Len(config.rules), NEW t \in 0..MaxTime, t % Minute = 0,
                        NEW k, NEW js, js = AdmissionsIn(k, n, t)'
                 PROVE  /\ Limit(n).requestsPerMinute > 0 =>
                               Cardinality(js) <= Limit(n).requestsPerMinute
                        /\ Limit(n).tokensPerMinute > 0 =>
                               TokensIn(admitted', js) <= Limit(n).tokensPerMinute
        <3>1. \A n \in 0..Len(config.rules) : /\ Limit(n)' = Limit(n)
                                              /\ Limit(n).requestsPerMinute \in Int
                                              /\ Limit(n).tokensPerMinute \in Int
            BY <1>4, LimitIsInt DEF Limit
        <3> SUFFICES ASSUME NEW n \in 0..Len(config.rules), NEW t \in 0..MaxTime, t % Minute = 0,
                            NEW k
                     PROVE  /\ Limit(n)'.requestsPerMinute > 0 =>
                                  Cardinality(AdmissionsIn(k, n, t)') <= 1 * Limit(n)'.requestsPerMinute
                            /\ Limit(n)'.tokensPerMinute > 0 =>
                                  TokensIn(admitted', AdmissionsIn(k, n, t)')
                                      <= 1 * Limit(n)'.tokensPerMinute
            BY <1>4 DEF LimitsKept, LimitKept, TokensOf, TokensIn
        <3> PICK js : js = AdmissionsIn(k, n, t)'
            OBVIOUS
        <3>2. /\ Limit(n).requestsPerMinute > 0 => Cardinality(js) <= Limit(n).requestsPerMinute
              /\ Limit(n).tokensPerMinute > 0 =>
                    TokensIn(admitted', js) <= Limit(n).tokensPerMinute
            OBVIOUS
        <3> QED
            BY <3>1, <3>2
    <2> PICK limit : limit = Limit(n)
        OBVIOUS
    <2> PICK ks : ks = AdmissionsIn(k, n, t)
        OBVIOUS
    <2>1. limit.requestsPerMinute \in Int /\ limit.tokensPerMinute \in Int
        BY LimitIsInt
    <2>2. ks \in SUBSET DOMAIN admitted
        BY DEF AdmissionsIn
    <2>3. /\ limit.requestsPerMinute > 0 => Cardinality(ks) <= limit.requestsPerMinute
          /\ limit.tokensPerMinute > 0 => TokensIn(admitted, ks) <= limit.tokensPerMinute
        BY LimitsOfAnyKey
    <2>4. t \in Nat /\ (now \in t..(t + Minute - 1) <=> t = u)
        BY PresentMinute, TimeAssumption
    <2>5. CASE key = k /\ r = n /\ t = u
        <3>1. js = ks \union {y}
            BY <1>8, <2>4, <2>5
        <3>2. /\ TokensIn(admitted', js) = TokensIn(admitted, ks) + req.tokens
              /\ Cardinality(js) = Cardinality(ks) + 1
            BY <1>8, <2>2, <3>1
        <3> PICK cs : cs = ChargedTo(key, u)
            OBVIOUS
        <3>3. ks \in SUBSET cs /\ cs \in SUBSET DOMAIN admitted
            BY <2>5 DEF AdmissionsIn, ChargedTo
        <3>4. /\ Cardinality(cs) \in Nat /\ TokensIn(admitted, cs) \in Nat
              /\ Cardinality(ks) \in Nat /\ TokensIn(admitted, ks) \in Nat
              /\ Cardinality(ks) <= Cardinality(cs)
              /\ TokensIn(admitted, ks) <= TokensIn(admitted, cs)
            BY <3>3, CountsOfAdmissions
        <3>5. b.requests = Cardinality(cs) /\ b.tokens = TokensIn(admitted, cs)
            BY <1>2
        <3>6. /\ limit.requestsPerMinute > 0 => b.requests + 1 <= limit.requestsPerMinute
              /\ limit.tokensPerMinute > 0 /\ req.tokens > 0 =>
                     b.tokens + req.tokens <= limit.tokensPerMinute
            BY <1>4, <2>5 DEF Allowed
        <3>7. limit.requestsPerMinute > 0 => Cardinality(js) <= limit.requestsPerMinute
            BY <2>1, <3>2, <3>4, <3>5, <3>6
        <3>8. limit.tokensPerMinute > 0 => TokensIn(admitted', js) <= limit.tokensPerMinute
            BY <1>5, <2>1, <2>3, <3>2, <3>4, <3>5, <3>6
        <3> QED
            BY <3>7, <3>8
    <2>6. CASE ~(key = k /\ r = n /\ t = u)
        <3>1. js = ks
            BY <1>8, <2>4, <2>6
        <3>2. TokensIn(admitted', ks) = TokensIn(admitted, ks)
            BY <1>8, <2>2
        <3> QED
            BY <2>3, <3>1, <3>2
    <2> QED
        BY <2>5, <2>6
<1> QED
    BY <1>4, <1>6, <1>9, <1>10, <1>11 DEF AInv

LEMMA LimitsUnchanged ==
    ASSUME LimitsKept, config' = config, admitted' = admitted
    PROVE  LimitsKept'
<1>1. ASSUME NEW n
      PROVE  Limit(n)' = Limit(n)
    BY DEF Limit
<1>2. ASSUME NEW k, NEW n, NEW t
      PROVE  AdmissionsIn(k, n, t)' = AdmissionsIn(k, n, t)
    BY DEF AdmissionsIn
<1>3. ASSUME NEW n \in 0..Len(config.rules), NEW t \in 0..MaxTime, t % Minute = 0
      PROVE  LimitKept(n, t, 1)'
    <2>1. LimitKept(n, t, 1)
        BY <1>3, Zenon DEF LimitsKept
    <2> QED
        BY <1>1, <1>2, <2>1 DEF LimitKept, TokensOf
<1> QED
    BY <1>3 DEF LimitsKept

(* A request denied is charged nothing, though its bucket may be a new one. *)
LEMMA DenyKeepsLimits ==
    ASSUME IInv, AInv, NEW req \in Requests, CheckDenies(req)
    PROVE  AInv'
<1> PICK key : key = Key(config.keyBy, req)
    OBVIOUS
<1> PICK b : b = BucketFor(key)
    OBVIOUS
<1> PICK u : u = Truncate(now)
    OBVIOUS
<1>1. /\ buckets' = WithBucket(key, b) /\ admitted' = admitted
      /\ now' = now /\ config' = config
    BY DEF CheckDenies
<1>2. /\ b.windowStart = u
      /\ Counts(b, ChargedTo(key, u))
      /\ \A j \in DOMAIN admitted : admitted[j].key = key => admitted[j].at < u + Minute
    BY BucketCounts
<1>3. /\ DOMAIN buckets' = DOMAIN buckets \union {key}
      /\ buckets'[key] = b
      /\ \A k \in DOMAIN buckets \ {key} : buckets'[k] = buckets[k]
    BY <1>1 DEF WithBucket
<1>4. admitted' \in Seq(Admission(now))'
    BY <1>1 DEF AInv, Admission
<1>5. KeysHaveBuckets'
    <2> SUFFICES ASSUME NEW j \in DOMAIN admitted
                 PROVE  /\ admitted[j].key \in DOMAIN buckets'
                        /\ admitted[j].at < buckets'[admitted[j].key].windowStart + Minute
        BY <1>1 DEF KeysHaveBuckets
    <2> QED
        BY <1>2, <1>3 DEF AInv, KeysHaveBuckets
<1>6. BucketsCount'
    <2> SUFFICES ASSUME NEW k \in DOMAIN buckets', NEW w, w = buckets'[k].windowStart
                 PROVE  Counts(buckets'[k], ChargedTo(k, w))
        BY <1>1 DEF BucketsCount, Counts, ChargedTo
    <2>1. CASE k = key
        BY <1>2, <1>3, <2>1
    <2>2. CASE k # key
        BY <1>3, <2>2 DEF AInv, BucketsCount
    <2> QED
        BY <2>1, <2>2
<1>7. LimitsKept'
    BY <1>1, LimitsUnchanged DEF AInv
<1> QED
    BY <1>4, <1>5, <1>6, <1>7 DEF AInv

LEMMA NoAdmissions ==
    ASSUME admitted = <<>>, buckets = <<>>
    PROVE  AInv
<1>1. DOMAIN admitted = {} /\ DOMAIN buckets = {}
    OBVIOUS
<1> QED
    BY <1>1 DEF AInv, KeysHaveBuckets, BucketsCount, LimitsKept, LimitKept

LEMMA AInvKept == IInv /\ AInv /\ [Next]_vars => AInv'
<1> SUFFICES ASSUME IInv, AInv, [Next]_vars
             PROVE  AInv'
    OBVIOUS
<1>1. CASE Tick
    <2>1. now \in Nat /\ now' = now + 1 /\ UNCHANGED <<config, buckets, admitted>>
        BY <1>1, TimeAssumption DEF Tick, IInv
    <2>2. Admission(now) \subseteq Admission(now')
        BY <2>1 DEF Admission
    <2>3. admitted' \in Seq(Admission(now'))
        BY <2>1, <2>2, WiderSeq DEF AInv
    <2>4. KeysHaveBuckets' /\ BucketsCount'
        BY <2>1 DEF AInv, KeysHaveBuckets, BucketsCount, Counts, ChargedTo
    <2>5. LimitsKept'
        BY <2>1, LimitsUnchanged DEF AInv
    <2> QED
        BY <2>3, <2>4, <2>5 DEF AInv, Admission
<1>2. ASSUME NEW c \in Configs, Configure(c)
      PROVE  AInv'
    <2>1. admitted' = <<>> /\ buckets' = <<>>
        BY <1>2 DEF Configure
    <2>2. DOMAIN admitted' = {} /\ DOMAIN buckets' = {}
        BY <2>1
    <2>3. admitted' \in Seq(Admission(now'))
        BY <2>1
    <2> QED
        BY <2>2, <2>3 DEF AInv, Admission, KeysHaveBuckets, BucketsCount, LimitsKept, LimitKept
<1>3. ASSUME NEW req \in Requests, Check(req)
      PROVE  AInv'
    BY <1>3, AllowKeepsLimits, DenyKeepsLimits DEF Check
<1>4. CASE UNCHANGED vars
    <2>1. LimitsKept'
        BY <1>4, LimitsUnchanged DEF vars, AInv
    <2> QED
        BY <1>4, <2>1 DEF vars, AInv, Admission, KeysHaveBuckets, BucketsCount, Counts, ChargedTo
<1> QED
    BY <1>1, <1>2, <1>3, <1>4 DEF Next

LEMMA AInvHolds == Spec => []AInv
<1>1. Init => AInv
    BY NoAdmissions DEF Init
<1>2. IInv /\ AInv /\ [Next]_vars => AInv'
    BY AInvKept
<1> QED
    BY <1>1, <1>2, IInvHolds, PTL DEF Spec

(* In no minute of the clock does a rule admit more than its limits. *)
THEOREM LimitsHold == Spec => []WindowLimit
<1>1. IInv /\ AInv => WindowLimit
    BY TimeAssumption DEF IInv, AInv, LimitsKept, WindowLimit
<1> QED
    BY <1>1, IInvHolds, AInvHolds, PTL

(* What is counted in two windows, each within the limit, is within twice    *)
(* the limit.                                                                *)
LEMMA TwoWindows ==
    ASSUME NEW limit \in Int, NEW a \in Nat, NEW b \in Nat, NEW first \in Nat, NEW second \in Nat,
           a <= first, b <= second,
           limit > 0 => first <= limit, limit > 0 => second <= limit,
           NEW whole, whole = a + b
    PROVE  limit > 0 => whole <= 2 * limit
OBVIOUS

(* In no 60 seconds does it admit more than twice its limits: they lie in    *)
(* two minutes of the clock, and in each of them the limits are kept.        *)
THEOREM TwiceAtMost == Spec => []SlidingLimit
<1>1. ASSUME IInv, AInv, NEW n \in 0..Len(config.rules), NEW t \in 0..now, NEW k
      PROVE  /\ Limit(n).requestsPerMinute > 0 =>
                    Cardinality(AdmissionsIn(k, n, t)) <= 2 * Limit(n).requestsPerMinute
             /\ Limit(n).tokensPerMinute > 0 =>
                    TokensIn(admitted, AdmissionsIn(k, n, t)) <= 2 * Limit(n).tokensPerMinute
    <2> PICK rpm : rpm = Limit(n).requestsPerMinute
        OBVIOUS
    <2> PICK tpm : tpm = Limit(n).tokensPerMinute
        OBVIOUS
    <2> PICK u : u = Truncate(t)
        OBVIOUS
    <2> PICK js : js = AdmissionsIn(k, n, t)
        OBVIOUS
    <2> PICK first : first = AdmissionsIn(k, n, u)
        OBVIOUS
    <2> PICK v : v = u + Minute
        OBVIOUS
    <2> PICK second : second = AdmissionsIn(k, n, v)
        OBVIOUS
    <2>1. /\ now \in 0..MaxTime /\ t \in Nat /\ u \in 0..t /\ u % Minute = 0
          /\ t - u < Minute /\ Minute \in Nat \ {0}
        BY <1>1, TimeAssumption, TruncateIsStart DEF IInv
    <2>13. u \in 0..MaxTime
        BY <2>1, TimeAssumption
    <2>2. rpm \in Int /\ tpm \in Int
        BY <1>1, LimitIsInt
    <2>3. /\ rpm > 0 => Cardinality(first) <= rpm
          /\ tpm > 0 => TokensIn(admitted, first) <= tpm
        BY <1>1, <2>1, <2>13, LimitsOfAnyKey
    <2>4. /\ rpm > 0 => Cardinality(second) <= rpm
          /\ tpm > 0 => TokensIn(admitted, second) <= tpm
        <3>1. CASE v \in 0..MaxTime
            <4>1. v % Minute = 0
                BY <2>1, MultipleAfter
            <4> QED
                BY <1>1, <3>1, <4>1, LimitsOfAnyKey
        <3>2. CASE v \notin 0..MaxTime
            <4>1. \A j \in DOMAIN admitted : admitted[j] \in Admission(now)
                BY <1>1 DEF AInv
            <4>2. \A j \in DOMAIN admitted : admitted[j].at < v
                BY <2>1, <3>2, <4>1, TimeAssumption DEF Admission
            <4>3. second = {}
                BY <2>1, <4>1, <4>2 DEF AdmissionsIn, Admission
            <4>4. Cardinality({}) = 0 /\ TokensIn(admitted, {}) = 0
                BY SumEmpty, FS_EmptySet DEF TokensIn
            <4>5. Cardinality(second) = 0 /\ TokensIn(admitted, second) = 0
                BY ONLY <4>3, <4>4, Zenon
            <4> QED
                BY <2>2, <4>5
        <3> QED
            BY <3>1, <3>2
    <2>5. js \in SUBSET DOMAIN admitted /\ first \in SUBSET DOMAIN admitted
          /\ second \in SUBSET DOMAIN admitted
        BY DEF AdmissionsIn
    <2> PICK early : early = js \intersect first
        OBVIOUS
    <2> PICK late : late = js \ early
        OBVIOUS
    <2>6. early \in SUBSET first /\ early \in SUBSET js /\ late \in SUBSET js
        OBVIOUS
    <2>7. late \in SUBSET second
        <3>1. \A j \in DOMAIN admitted : admitted[j] \in Admission(now)
            BY <1>1 DEF AInv
        <3>2. \A j \in DOMAIN admitted : admitted[j].at \in Int
            BY <2>1, <3>1 DEF Admission
        <3>3. \A a \in Int : a \in t..(t + Minute - 1)
                                  => a \in u..(u + Minute - 1) \/ a \in v..(v + Minute - 1)
            BY ONLY <2>1, v = u + Minute
        <3>4. \A j \in js : j \in first \/ j \in second
            BY <3>2, <3>3 DEF AdmissionsIn
        <3> QED
            BY ONLY <3>4, early = js \intersect first, late = js \ early
    <2>8. /\ Cardinality(js) = Cardinality(early) + Cardinality(late)
          /\ TokensIn(admitted, js) = TokensIn(admitted, early) + TokensIn(admitted, late)
        <3> DEFINE f == [i \in DOMAIN admitted |-> admitted[i].tokens]
        <3>1. IsFiniteSet(js) /\ \A j \in js : f[j] \in Nat
            <4>1. admitted \in Seq(Admission(now))
                BY <1>1 DEF AInv
            <4> QED
                BY <2>5, <4>1, AdmissionsFinite
        <3>2. \A is : TokensIn(admitted, is) = SumFunctionOnSet(f, is)
            BY DEF TokensIn
        <3> HIDE DEF f
        <3>3. SumFunctionOnSet(f, js) = SumFunctionOnSet(f, early) + SumFunctionOnSet(f, late)
            <4>1. \A j \in js : f[j] \in Int
                BY <3>1
            <4> QED
                BY <2>6, <3>1, <4>1, SumSplit
        <3>4. Cardinality(js) = Cardinality(early) + Cardinality(late)
            <4>1. IsFiniteSet(early) /\ IsFiniteSet(late) /\ Cardinality(early \intersect late) = 0
                BY <2>6, <3>1, FS_Subset, FS_EmptySet
            <4>2. js = early \union late
                OBVIOUS
            <4>3. /\ Cardinality(early) \in Nat /\ Cardinality(late) \in Nat
                  /\ Cardinality(early \union late)
                        = Cardinality(early) + Cardinality(late) - Cardinality(early \intersect late)
                BY <4>1, FS_Union, FS_CardinalityType
            <4> QED
                BY ONLY <4>1, <4>2, <4>3
        <3> QED
            BY <3>2, <3>3, <3>4
    <2>9. /\ Cardinality(early) \in Nat /\ Cardinality(first) \in Nat
          /\ Cardinality(early) <= Cardinality(first)
          /\ TokensIn(admitted, early) \in Nat /\ TokensIn(admitted, first) \in Nat
          /\ TokensIn(admitted, early) <= TokensIn(admitted, first)
        BY <1>1, <2>5, <2>6, CountsOfAdmissions
    <2>10. /\ Cardinality(late) \in Nat /\ Cardinality(second) \in Nat
           /\ Cardinality(late) <= Cardinality(second)
           /\ TokensIn(admitted, late) \in Nat /\ TokensIn(admitted, second) \in Nat
           /\ TokensIn(admitted, late) <= TokensIn(admitted, second)
        BY <1>1, <2>5, <2>7, CountsOfAdmissions
    <2>11. rpm > 0 => Cardinality(js) <= 2 * rpm
        BY ONLY <2>2, <2>3, <2>4, <2>8, <2>9, <2>10, TwoWindows
    <2>12. tpm > 0 => TokensIn(admitted, js) <= 2 * tpm
        BY ONLY <2>2, <2>3, <2>4, <2>8, <2>9, <2>10, TwoWindows
    <2> QED
        BY <2>11, <2>12
<1>2. IInv /\ AInv => SlidingLimit
    BY <1>1 DEF SlidingLimit, LimitKept, TokensOf, TokensIn
<1> QED
    BY <1>2, IInvHolds, AInvHolds, PTL
-----------------------------------------------------------------------------
(* Renewing a bucket when its key comes back cannot be told from renewing    *)
(* all of them when the minute turns, and what is charged is what is         *)
(* admitted.                                                                 *)
THEOREM LazyResetIsFixedWindow == Spec => ImplementsFixedWindow
<1>1. IInv /\ AInv /\ [Next]_vars => [Abstract!Next]_Abstract!windowVars
    <2> SUFFICES ASSUME IInv, AInv, [Next]_vars
                 PROVE  Abstract!Next \/ UNCHANGED Abstract!windowVars
        OBVIOUS
    <2>1. CASE Tick
        BY <2>1, TickRefines DEF Abstract!Next
    <2>2. ASSUME NEW c \in Configs, Configure(c)
          PROVE  Abstract!Clear
        <3>1. [j \in DOMAIN admitted |-> AdmittedUnder(admitted[j])]' = <<>>
            BY <2>2 DEF Configure
        <3> QED
            BY <2>2, <3>1 DEF Configure, Abstract!Clear, Abstract!Fresh, BucketFor
    <2>3. ASSUME NEW req \in Requests, CheckAllows(req)
          PROVE  Abstract!Next
        BY <2>3, AllowRefines, KeyIsAKey DEF Abstract!Next, AInv
    <2>4. ASSUME NEW req \in Requests, CheckDenies(req)
          PROVE  UNCHANGED Abstract!windowVars
        BY <2>4, DenyRefines
    <2>5. CASE UNCHANGED vars
        BY <2>5 DEF vars, Abstract!windowVars, BucketFor, AdmittedUnder, Limit
    <2> QED
        BY <2>1, <2>2, <2>3, <2>4, <2>5 DEF Next, Check, Abstract!Next
<1> QED
    BY AbstractInit, <1>1, IInvHolds, AInvHolds, PTL DEF Spec, ImplementsFixedWindow, Abstract!Spec
=============================================================================
