------------------------------- MODULE FixedWindow -------------------------------
(*****************************************************************************)
(* What a fixed-window limiter promises: time is cut into windows of Period  *)
(* ticks that all keys share, every key has one budget of requests and one   *)
(* of tokens per window, and at the turn of a window every budget is fresh,  *)
(* whether or not anybody asks.  A budget is charged for admissions and for  *)
(* nothing else: admissions names each of them with the limits it was        *)
(* admitted under.  RateLimitMemory, which resets a key's bucket only when   *)
(* that key is next used, implements it.                                     *)
(*****************************************************************************)
EXTENDS Integers, Sequences

CONSTANTS Keys, Limits, Amounts, Period

VARIABLES now, requests, tokens, admissions

windowVars == <<now, requests, tokens, admissions>>

Fresh == [k \in Keys |-> 0]

Init == now = 0 /\ requests = Fresh /\ tokens = Fresh /\ admissions = <<>>

Tick == /\ now' = now + 1
        /\ IF now' % Period = 0
           THEN requests' = Fresh /\ tokens' = Fresh
           ELSE UNCHANGED <<requests, tokens>>
        /\ UNCHANGED admissions

(* A limit of zero or less is no limit. *)
Fits(used, amount, limit) == limit > 0 => used + amount <= limit

Admission(k, perMinute, tokensPerMinute, amount) ==
    [key |-> k, requestsPerMinute |-> perMinute, tokensPerMinute |-> tokensPerMinute,
     amount |-> amount]

Admit(k) == \E perMinute, tokensPerMinute \in Limits, amount \in Amounts :
    /\ Fits(requests[k], 1, perMinute)
    /\ amount > 0 => Fits(tokens[k], amount, tokensPerMinute)
    /\ requests' = [requests EXCEPT ![k] = @ + 1]
    /\ tokens' = [tokens EXCEPT ![k] = @ + amount]
    /\ admissions' = Append(admissions, Admission(k, perMinute, tokensPerMinute, amount))
    /\ UNCHANGED now

Clear == requests' = Fresh /\ tokens' = Fresh /\ admissions' = <<>> /\ UNCHANGED now

Next == Tick \/ Clear \/ \E k \in Keys : Admit(k)

Spec == Init /\ [][Next]_windowVars

=============================================================================
