------------------------------ MODULE RateLimitMemory ------------------------------
(*****************************************************************************)
(* plugins/ratelimit-memory: a fixed-window limiter of requests and tokens   *)
(* per minute.  Check and Configure hold the plugin's mutex from beginning   *)
(* to end, so each is one atomic action; Commit changes nothing, and is left *)
(* out.                                                                      *)
(*                                                                           *)
(* A name is a sequence of atoms (the empty name is the empty sequence), so  *)
(* that the concatenations that make bucket keys are concatenations here.    *)
(* time.Minute is Minute ticks; the clock only moves forward.                *)
(*****************************************************************************)
EXTENDS Integers, Sequences, FiniteSets, Functions

CONSTANTS Minute,     (* ticks in a minute                                   *)
          MaxTime,    (* bound: the clock stops there                        *)
          MaxAdmits,  (* bound: requests admitted after a Configure          *)
          Configs,    (* the configurations Configure can be called with     *)
          Requests    (* the requests Check can be called with               *)

ASSUME TimeAssumption == /\ Minute \in Nat \ {0}
                         /\ MaxTime \in Nat
                         /\ MaxAdmits \in Nat

ASSUME CallsAssumption ==
    /\ \A c \in Configs : c.rules \in Seq({c.rules[n] : n \in DOMAIN c.rules})
    /\ \A c \in Configs : \A r \in {c.defaults} \union {c.rules[n] : n \in DOMAIN c.rules} :
          r.requestsPerMinute \in Int /\ r.tokensPerMinute \in Int
    /\ \A req \in Requests : req.tokens \in Nat

VARIABLES now,       (* the clock                                            *)
          config,    (* keyBy, defaults and rules                            *)
          buckets,   (* the map of buckets, by key                           *)
          admitted   (* history: the admissions since the last Configure     *)

vars == <<now, config, buckets, admitted>>

-----------------------------------------------------------------------------
Wildcard == <<"*">>
Anonymous == <<"anonymous">>

Matches(pattern, value) == pattern \in {<<>>, Wildcard, value}

RuleApplies(rule, req) ==
    /\ Matches(rule.tenant, req.tenant)
    /\ Matches(rule.subject, req.subject)
    /\ Matches(rule.model, req.model)
    /\ rule.group \in {<<>>, Wildcard} \union req.groups

(* The first rule that applies, by number; 0 stands for the defaults.        *)
Match(req) ==
    LET applying == {n \in 1..Len(config.rules) : RuleApplies(config.rules[n], req)}
    IN  IF applying = {} THEN 0 ELSE CHOOSE n \in applying : \A m \in applying : n <= m

Limit(n) == IF n = 0 THEN config.defaults ELSE config.rules[n]

OrAnonymous(name) == IF name = <<>> THEN Anonymous ELSE name

KeyKinds == {"tenant", "subject", "subject_model", "tenant_model"}

Key(keyBy, req) ==
    LET tenant == OrAnonymous(req.tenant)
        subject == OrAnonymous(req.subject)
    IN  CASE keyBy = "tenant" -> tenant
          [] keyBy = "subject" -> subject
          [] keyBy = "subject_model" -> subject \o <<":">> \o req.model
          [] OTHER -> tenant \o <<":">> \o req.model

(* now.Truncate(time.Minute) *)
Truncate(t) == t - (t % Minute)

-----------------------------------------------------------------------------
Init == /\ now = 0
        /\ config \in Configs
        /\ buckets = <<>>
        /\ admitted = <<>>

Configure(c) ==
    /\ config' = c
    /\ buckets' = <<>>
    /\ admitted' = <<>>
    /\ UNCHANGED now

Tick == /\ now < MaxTime
        /\ now' = now + 1
        /\ UNCHANGED <<config, buckets, admitted>>

(* Mutant of BucketFor: a bucket is renewed one tick early. *)
BucketEarly(key) ==
    IF key \in DOMAIN buckets /\ now - buckets[key].windowStart < Minute - 1
    THEN buckets[key]
    ELSE [windowStart |-> Truncate(now), requests |-> 0, tokens |-> 0]

(* The bucket Check works on: a fresh one if there is none or it is a minute *)
(* old, which it puts in the map whatever it decides.                        *)
BucketFor(key) ==
    IF key \in DOMAIN buckets /\ now - buckets[key].windowStart < Minute
    THEN buckets[key]
    ELSE [windowStart |-> Truncate(now), requests |-> 0, tokens |-> 0]

WithBucket(key, b) ==
    [k \in DOMAIN buckets \union {key} |-> IF k = key THEN b ELSE buckets[k]]

(* Mutant of Allowed: the comparison is off by one. *)
AllowedOneMore(b, limit, amount) ==
    /\ limit.requestsPerMinute > 0 => b.requests <= limit.requestsPerMinute
    /\ limit.tokensPerMinute > 0 /\ amount > 0 =>
           b.tokens + amount <= limit.tokensPerMinute

Allowed(b, limit, amount) ==
    /\ limit.requestsPerMinute > 0 => b.requests + 1 <= limit.requestsPerMinute
    /\ limit.tokensPerMinute > 0 /\ amount > 0 =>
           b.tokens + amount <= limit.tokensPerMinute

CheckAllows(req) ==
    LET key == Key(config.keyBy, req)
        b == BucketFor(key)
        n == Match(req)
    IN  /\ Allowed(b, Limit(n), req.tokens)
        /\ Len(admitted) < MaxAdmits
        /\ buckets' = WithBucket(key, [b EXCEPT !.requests = @ + 1,
                                                !.tokens = @ + req.tokens])
        /\ admitted' = Append(admitted, [key |-> key, rule |-> n, at |-> now,
                                         tokens |-> req.tokens])
        /\ UNCHANGED <<now, config>>

(* Mutant of CheckDenies: the request is counted before the limits are looked at. *)
CheckDeniesCharged(req) ==
    LET key == Key(config.keyBy, req)
        b == BucketFor(key)
    IN  /\ ~Allowed(b, Limit(Match(req)), req.tokens)
        /\ buckets' = WithBucket(key, [b EXCEPT !.requests = @ + 1])
        /\ UNCHANGED <<now, config, admitted>>

CheckDenies(req) ==
    LET key == Key(config.keyBy, req)
        b == BucketFor(key)
    IN  /\ ~Allowed(b, Limit(Match(req)), req.tokens)
        /\ buckets' = WithBucket(key, b)
        /\ UNCHANGED <<now, config, admitted>>

Check(req) == CheckAllows(req) \/ CheckDenies(req)

Next == \/ Tick
        \/ \E c \in Configs : Configure(c)
        \/ \E req \in Requests : Check(req)

Spec == Init /\ [][Next]_vars

-----------------------------------------------------------------------------
(* Types of the variables; a bucket's window began on a minute, in the past. *)
TypeOK ==
    /\ now \in 0..MaxTime
    /\ config \in Configs
    /\ \A k \in DOMAIN buckets :
          /\ buckets[k].windowStart \in {t \in 0..now : t % Minute = 0}
          /\ buckets[k].requests \in Nat
          /\ buckets[k].tokens \in Nat

(* The admissions that rule n let through for key k from time t on, for the  *)
(* length of a minute.                                                       *)
AdmissionsIn(k, n, t) ==
    {j \in DOMAIN admitted : /\ admitted[j].key = k /\ admitted[j].rule = n
                             /\ admitted[j].at \in t..(t + Minute - 1)}

TokensOf(js) == SumFunctionOnSet([j \in DOMAIN admitted |-> admitted[j].tokens], js)

(* At most factor times the limit of rule n is admitted for any key in the   *)
(* minute from t on.                                                         *)
LimitKept(n, t, factor) ==
    \A k \in {admitted[j].key : j \in DOMAIN admitted} :
        LET js == AdmissionsIn(k, n, t)
        IN  /\ Limit(n).requestsPerMinute > 0 =>
                   Cardinality(js) <= factor * Limit(n).requestsPerMinute
            /\ Limit(n).tokensPerMinute > 0 =>
                   TokensOf(js) <= factor * Limit(n).tokensPerMinute

(* In no minute of the clock does a rule admit more requests or tokens for a *)
(* bucket than its limits, whatever other rules share the bucket             *)
(* (README.md:3, :23; main.go:71-92).                                        *)
WindowLimit ==
    \A n \in 0..Len(config.rules), t \in 0..now :
        t % Minute = 0 => LimitKept(n, t, 1)

(* In no 60 seconds whatever, so also across the turn of the minute, does it *)
(* admit more than twice its limits (the price of a fixed window).           *)
SlidingLimit ==
    \A n \in 0..Len(config.rules), t \in 0..now : LimitKept(n, t, 2)

-----------------------------------------------------------------------------
(* What is used up of a key's budget: nothing once its bucket is out of date. *)
Keys == {Key(keyBy, req) : keyBy \in KeyKinds, req \in Requests}

Rules == UNION {{c.defaults} \union {c.rules[n] : n \in DOMAIN c.rules} : c \in Configs}

(* An admission with the limits of the rule that let it through. *)
AdmittedUnder(a) == [key |-> a.key,
                     requestsPerMinute |-> Limit(a.rule).requestsPerMinute,
                     tokensPerMinute |-> Limit(a.rule).tokensPerMinute,
                     amount |-> a.tokens]

Abstract == INSTANCE FixedWindow WITH
                Keys <- Keys,
                Limits <- {r.requestsPerMinute : r \in Rules}
                              \union {r.tokensPerMinute : r \in Rules},
                Amounts <- {req.tokens : req \in Requests},
                Period <- Minute,
                requests <- [k \in Keys |-> BucketFor(k).requests],
                tokens <- [k \in Keys |-> BucketFor(k).tokens],
                admissions <- [j \in DOMAIN admitted |-> AdmittedUnder(admitted[j])]

(* Resetting a bucket when it is next used cannot be told from resetting all *)
(* of them at the turn of the minute; a request is charged when and only     *)
(* when it is admitted, and for both limits together, so that a denied one   *)
(* costs nothing (main.go:71-74, :78-94).                                    *)
ImplementsFixedWindow == Abstract!Spec
=============================================================================
