------------------------------ MODULE CodexOAuthProofs ------------------------------
(* Machine-checked proofs about CodexOAuth, for any number of concurrent     *)
(* calls, of grants and of reconfigurations, and either kind of server.      *)
EXTENDS CodexOAuth, TLAPS

-----------------------------------------------------------------------------
(* The inductive invariants. *)

Refreshing(c) == calls[c].pc \in {"refresh", "post", "store"}

Ended(c) == calls[c].pc \in {"served", "failed"}

(* A 401 leads to a refresh once per call. *)
FirstAttemptRefreshes ==
    \A c \in Calls : Refreshing(c) /\ calls[c].on401 => calls[c].attempt = 1

(* No token is known that was not issued. *)
TokensWereIssued ==
    /\ access <= issued /\ refresh <= issued /\ validRefresh <= issued
    /\ configuring \subseteq {0, None}
    /\ \A c \in Calls : /\ calls[c].token <= issued
                        /\ calls[c].rejected <= issued
                        /\ calls[c].holding <= issued
                        /\ calls[c].grant <= issued

Configuring == configuring # {} => configures > 0

IInv == TypeOK /\ FirstAttemptRefreshes /\ TokensWereIssued /\ Configuring

(* A server that rotates has at most one grant under way, of the refresh     *)
(* token it holds valid, which is not known to anyone else yet.              *)
OneRotation ==
    \A c \in Calls : rotates /\ At(c, "store") =>
        /\ calls[c].grant = validRefresh
        /\ refresh # validRefresh
        /\ \A d \in Calls : /\ At(d, "post") => calls[d].holding # validRefresh
                            /\ At(d, "store") => d = c

KeptInv ==
    ~lost /\ configures = 0 =>
        /\ OneRotation
        /\ ~rotates => refresh = validRefresh
        /\ RefreshTokenKept

(* Only a call with OAuth refreshes or retries. *)
RetriesUseOAuth ==
    \A c \in Calls : Refreshing(c) \/ calls[c].attempt = 2 => authMode = "oauth_env"

(* A grant under way was never used by any call, and no two are the same. *)
GrantsAreFresh ==
    \A c \in Calls : At(c, "store") =>
        /\ 0 < calls[c].grant /\ access # calls[c].grant
        /\ \A d \in Calls :
              /\ calls[d].token # calls[c].grant
              /\ calls[d].rejected # calls[c].grant
              /\ d # c /\ At(d, "store") => calls[d].grant # calls[c].grant

(* Once a call has refreshed, the token it met a 401 with is gone for good. *)
RejectedIsGone ==
    \A c \in Calls : calls[c].attempt = 2 /\ ~Ended(c) => access # calls[c].rejected

RetryInv ==
    configures = 0 =>
        RetriesUseOAuth /\ GrantsAreFresh /\ RejectedIsGone /\ RetryUsesAnother

-----------------------------------------------------------------------------
(* Init establishes the invariants, and every step preserves them. *)

(* Tokens are numbers, and a configuration's are among them. *)
LEMMA TokenTypes == Grants \subseteq Int /\ 0 \in Tokens /\ None \in Tokens /\ Tokens \subseteq Int
BY CodexAssumption DEF Grants, Tokens, None

(* What a step changes in the state of a call. *)
LEMMA CallChanges ==
    ASSUME NEW f \in [Calls -> CallStates], NEW c \in Calls,
           NEW place \in Places, NEW b \in BOOLEAN, NEW t \in Tokens
    PROVE  /\ [f EXCEPT ![c].pc = place, ![c].token = t] \in [Calls -> CallStates]
           /\ [f EXCEPT ![c].pc = place, ![c].on401 = b] \in [Calls -> CallStates]
           /\ [f EXCEPT ![c].pc = place, ![c].on401 = b, ![c].rejected = t]
                 \in [Calls -> CallStates]
           /\ [f EXCEPT ![c].pc = place, ![c].holding = t] \in [Calls -> CallStates]
           /\ [f EXCEPT ![c].pc = place, ![c].grant = t] \in [Calls -> CallStates]
<1>1. [f EXCEPT ![c].pc = place, ![c].token = t] \in [Calls -> CallStates]
  <2>1. [f[c] EXCEPT !.pc = place, !.token = t] \in CallStates
    BY DEF CallStates
  <2> QED
    BY ONLY <2>1, f \in [Calls -> CallStates], c \in Calls
<1>2. [f EXCEPT ![c].pc = place, ![c].on401 = b] \in [Calls -> CallStates]
  <2>1. [f[c] EXCEPT !.pc = place, !.on401 = b] \in CallStates
    BY DEF CallStates
  <2> QED
    BY ONLY <2>1, f \in [Calls -> CallStates], c \in Calls
<1>3. [f EXCEPT ![c].pc = place, ![c].on401 = b, ![c].rejected = t] \in [Calls -> CallStates]
  <2>1. [f[c] EXCEPT !.pc = place, !.on401 = b, !.rejected = t] \in CallStates
    BY DEF CallStates
  <2> QED
    BY ONLY <2>1, f \in [Calls -> CallStates], c \in Calls
<1>4. [f EXCEPT ![c].pc = place, ![c].holding = t] \in [Calls -> CallStates]
  <2>1. [f[c] EXCEPT !.pc = place, !.holding = t] \in CallStates
    BY DEF CallStates
  <2> QED
    BY ONLY <2>1, f \in [Calls -> CallStates], c \in Calls
<1>5. [f EXCEPT ![c].pc = place, ![c].grant = t] \in [Calls -> CallStates]
  <2>1. [f[c] EXCEPT !.pc = place, !.grant = t] \in CallStates
    BY DEF CallStates
  <2> QED
    BY ONLY <2>1, f \in [Calls -> CallStates], c \in Calls
<1> QED
  BY <1>1, <1>2, <1>3, <1>4, <1>5

(* In the beginning no token has been issued, and no call has made a request. *)
LEMMA InitIInv == Init => IInv
<1> SUFFICES ASSUME Init PROVE IInv
  OBVIOUS
<1>1. /\ access \in {0, None} /\ refresh \in {0, None}
      /\ authMode \in {"api_key", "oauth_env"}
  <2>1. PICK c \in Configs : authMode = c.authMode /\ access = c.access /\ refresh = c.refresh
    BY DEF Init
  <2> QED
    BY <2>1, CodexAssumption
<1>2. NewCall \in CallStates
  BY TokenTypes DEF NewCall, CallStates, Places
<1>3. TypeOK
  <2>1. access \in Tokens /\ refresh \in Tokens /\ validRefresh \in Tokens
    BY <1>1, TokenTypes DEF Init
  <2>2. calls \in [Calls -> CallStates]
    BY <1>2 DEF Init
  <2>3. 0 \in Grants /\ 0 \in 0..MaxConfigures
    BY CodexAssumption DEF Grants
  <2>4. rotates \in BOOLEAN /\ lost \in BOOLEAN
    BY CodexAssumption DEF Init
  <2>5. issued = 0 /\ validAccess = {0} /\ configuring = {} /\ configures = 0
    BY DEF Init
  <2> QED
    BY <1>1, <2>1, <2>2, <2>3, <2>4, <2>5 DEF TypeOK
<1>4. \A d \in Calls : calls[d] = NewCall
  BY DEF Init
<1>5. FirstAttemptRefreshes /\ TokensWereIssued /\ Configuring
  BY <1>1, <1>4 DEF Init, NewCall, FirstAttemptRefreshes, TokensWereIssued, Configuring,
                    Refreshing, None
<1> QED
  BY <1>3, <1>5 DEF IInv

(* Every step keeps the types; a refresh after a 401 makes the second attempt. *)
LEMMA StepType ==
    ASSUME IInv, [Next]_vars
    PROVE  TypeOK'
<1> USE CodexAssumption, TokenTypes DEF IInv, TypeOK, plugin, server
<1>1. ASSUME NEW c \in Calls, Start(c) PROVE TypeOK'
  BY <1>1 DEF Start, At, Goto, CallStates, Places
<1>2. ASSUME NEW c \in Calls, BearerKnown(c) PROVE TypeOK'
  <2>1. PICK bearer \in Tokens :
           /\ calls' = [calls EXCEPT ![c].pc = "request", ![c].token = bearer]
           /\ "request" \in Places
    BY <1>2 DEF BearerKnown, Use, Places
  <2>2. UNCHANGED <<plugin, server>>
    BY <1>2 DEF BearerKnown
  <2>3. calls' \in [Calls -> CallStates]
    BY <2>1, CallChanges
  <2> QED
    BY <2>2, <2>3
<1>3. ASSUME NEW c \in Calls, BearerMissing(c) PROVE TypeOK'
  <2>1. PICK place \in Places :
           /\ calls' = [calls EXCEPT ![c].pc = place, ![c].on401 = FALSE]
    BY <1>3 DEF BearerMissing, Places
  <2>2. UNCHANGED <<plugin, server>>
    BY <1>3 DEF BearerMissing
  <2>3. calls' \in [Calls -> CallStates]
    BY <2>1, CallChanges
  <2> QED
    BY <2>2, <2>3
<1>4. ASSUME NEW c \in Calls, BearerAgain(c) PROVE TypeOK'
  BY <1>4 DEF BearerAgain, At, Goto, Use, CallStates, Places
<1>5. ASSUME NEW c \in Calls, Accepted(c) PROVE TypeOK'
  BY <1>5 DEF Accepted, At, Goto, CallStates, Places
<1>6. ASSUME NEW c \in Calls, RequestFails(c) PROVE TypeOK'
  BY <1>6 DEF RequestFails, At, Goto, CallStates, Places
<1>7. ASSUME NEW c \in Calls, Unauthorized(c) PROVE TypeOK'
  <2>1. PICK place \in Places :
           /\ calls' = [calls EXCEPT ![c].pc = place, ![c].on401 = TRUE,
                                     ![c].rejected = calls[c].token]
    BY <1>7 DEF Unauthorized, Places
  <2>2. UNCHANGED <<plugin, server>>
    BY <1>7 DEF Unauthorized
  <2>3. calls' \in [Calls -> CallStates]
    BY <2>1, CallChanges DEF CallStates
  <2> QED
    BY <2>2, <2>3
<1>8. ASSUME NEW c \in Calls, ReadRefresh(c) PROVE TypeOK'
  <2>1. PICK place \in Places :
           /\ calls' = [calls EXCEPT ![c].pc = place, ![c].holding = refresh]
    BY <1>8 DEF ReadRefresh, Places
  <2>2. UNCHANGED <<plugin, server>>
    BY <1>8 DEF ReadRefresh
  <2>3. calls' \in [Calls -> CallStates]
    BY <2>1, CallChanges
  <2> QED
    BY <2>2, <2>3
<1>9. ASSUME NEW c \in Calls, Granted(c) PROVE TypeOK'
  <2>0. "store" \in Places
    BY DEF Places
  <2>1. issued + 1 \in Grants /\ issued + 1 \in Tokens
    BY <1>9 DEF Granted, Grant, Grants, Tokens
  <2>2. calls' = [calls EXCEPT ![c].pc = "store", ![c].grant = issued + 1]
    BY <1>9 DEF Granted
  <2>3. calls' \in [Calls -> CallStates]
    BY <2>1, <2>2, <2>0, CallChanges
  <2>4. issued' = issued + 1 /\ validRefresh' \in Tokens /\ validAccess' \subseteq Grants
    BY <1>9, <2>1 DEF Granted, Grant
  <2>5. UNCHANGED <<plugin, rotates, lost>>
    BY <1>9 DEF Granted
  <2> QED
    BY <2>1, <2>3, <2>4, <2>5
<1>10. ASSUME NEW c \in Calls, GrantLost(c) PROVE TypeOK'
  BY <1>10 DEF GrantLost, Grant, At, Goto, Tokens, Grants, CallStates, Places
<1>11. ASSUME NEW c \in Calls, RefreshFails(c) PROVE TypeOK'
  BY <1>11 DEF RefreshFails, At, Goto, CallStates, Places
<1>12. ASSUME NEW c \in Calls, Store(c) PROVE TypeOK'
  BY <1>12 DEF Store, AfterRefresh, At, Goto, FirstAttemptRefreshes, Refreshing,
     CallStates, Places
<1>13. ASSUME NEW config \in Configs, BeginConfigure(config) PROVE TypeOK'
  BY <1>13 DEF BeginConfigure
<1>14. ASSUME EndConfigure PROVE TypeOK'
  BY <1>14 DEF EndConfigure
<1>15. ASSUME NEW token \in Grants, Expire(token) PROVE TypeOK'
  BY <1>15 DEF Expire
<1>16. CASE UNCHANGED vars
  BY <1>16 DEF vars
<1> QED
  BY <1>1, <1>2, <1>3, <1>4, <1>5, <1>6, <1>7, <1>8, <1>9, <1>10, <1>11, <1>12,
     <1>13, <1>14, <1>15, <1>16 DEF Next, Call

(* Every step keeps that all tokens were issued, and what goes with it. *)
LEMMA StepIInv ==
    ASSUME IInv, [Next]_vars
    PROVE  IInv'
<1> USE StepType, TokenTypes DEF IInv, TypeOK, CallStates, FirstAttemptRefreshes,
       TokensWereIssued, Configuring, Refreshing, plugin, server
<1>1. ASSUME NEW c \in Calls, Start(c) PROVE IInv'
  BY <1>1 DEF Start, At, Goto
<1>2. ASSUME NEW c \in Calls, BearerKnown(c) PROVE IInv'
  BY <1>2 DEF BearerKnown, At, Use
<1>3. ASSUME NEW c \in Calls, BearerMissing(c) PROVE IInv'
  BY <1>3 DEF BearerMissing, At
<1>4. ASSUME NEW c \in Calls, BearerAgain(c) PROVE IInv'
  BY <1>4 DEF BearerAgain, At, Goto, Use
<1>5. ASSUME NEW c \in Calls, Accepted(c) PROVE IInv'
  BY <1>5 DEF Accepted, At, Goto
<1>6. ASSUME NEW c \in Calls, RequestFails(c) PROVE IInv'
  BY <1>6 DEF RequestFails, At, Goto
<1>7. ASSUME NEW c \in Calls, Unauthorized(c) PROVE IInv'
  BY <1>7 DEF Unauthorized, At
<1>8. ASSUME NEW c \in Calls, ReadRefresh(c) PROVE IInv'
  BY <1>8 DEF ReadRefresh, At
<1>9. ASSUME NEW c \in Calls, Granted(c) PROVE IInv'
  BY <1>9 DEF Granted, Grant, At
<1>10. ASSUME NEW c \in Calls, GrantLost(c) PROVE IInv'
  BY <1>10 DEF GrantLost, Grant, At, Goto
<1>11. ASSUME NEW c \in Calls, RefreshFails(c) PROVE IInv'
  BY <1>11 DEF RefreshFails, At, Goto
<1>12. ASSUME NEW c \in Calls, Store(c) PROVE IInv'
  BY <1>12 DEF Store, AfterRefresh, At, Goto
<1>13. ASSUME NEW config \in Configs, BeginConfigure(config) PROVE IInv'
  <2>1. /\ access' \in {0, None} /\ configuring' \subseteq {0, None}
        /\ configures' > 0
        /\ UNCHANGED <<refresh, calls, server>>
    BY <1>13, CodexAssumption DEF BeginConfigure
  <2>2. access' <= issued
    BY <2>1, CodexAssumption DEF None, Grants
  <2> QED
    BY <1>13, <2>1, <2>2
<1>14. ASSUME EndConfigure PROVE IInv'
  <2>1. /\ refresh' \in {0, None} /\ configuring' = {}
        /\ UNCHANGED <<authMode, access, configures, calls, server>>
    BY <1>14 DEF EndConfigure
  <2>2. refresh' <= issued
    BY <2>1, CodexAssumption DEF None, Grants
  <2> QED
    BY <1>14, <2>1, <2>2
<1>15. ASSUME NEW token \in Grants, Expire(token) PROVE IInv'
  BY <1>15 DEF Expire
<1>16. CASE UNCHANGED vars
  BY <1>16 DEF vars
<1> QED
  BY <1>1, <1>2, <1>3, <1>4, <1>5, <1>6, <1>7, <1>8, <1>9, <1>10, <1>11, <1>12,
     <1>13, <1>14, <1>15, <1>16 DEF Next, Call

(* There is no grant under way in the beginning. *)
LEMMA InitKeptInv == Init => KeptInv
BY DEF Init, NewCall, At, KeptInv, OneRotation, RefreshTokenKept

(* A rotation under way is the only one, and ends with what the server accepts. *)
LEMMA OnlyRotation ==
    ASSUME KeptInv, NEW c \in Calls, At(c, "store")
    PROVE  rotates /\ ~lost /\ configures = 0 =>
              /\ calls[c].grant = validRefresh
              /\ \A d \in Calls : calls[d].pc = "store" => d = c
BY DEF KeptInv, OneRotation, At

(* A grant is of the token that the server accepts, so nobody else has one. *)
LEMMA StepKeptInv ==
    ASSUME IInv, KeptInv, [Next]_vars
    PROVE  KeptInv'
<1> USE CodexAssumption DEF IInv, TypeOK, CallStates, FirstAttemptRefreshes,
       TokensWereIssued, Configuring, Refreshing, Tokens, Grants, Places, None,
       KeptInv, OneRotation, RefreshTokenKept, At, plugin, server
<1>1. ASSUME NEW c \in Calls, Start(c) PROVE KeptInv'
  BY <1>1 DEF Start, At, Goto
<1>2. ASSUME NEW c \in Calls, BearerKnown(c) PROVE KeptInv'
  BY <1>2 DEF BearerKnown, At, Use
<1>3. ASSUME NEW c \in Calls, BearerMissing(c) PROVE KeptInv'
  BY <1>3 DEF BearerMissing, At
<1>4. ASSUME NEW c \in Calls, BearerAgain(c) PROVE KeptInv'
  BY <1>4 DEF BearerAgain, At, Goto, Use
<1>5. ASSUME NEW c \in Calls, Accepted(c) PROVE KeptInv'
  BY <1>5 DEF Accepted, At, Goto
<1>6. ASSUME NEW c \in Calls, RequestFails(c) PROVE KeptInv'
  BY <1>6 DEF RequestFails, At, Goto
<1>7. ASSUME NEW c \in Calls, Unauthorized(c) PROVE KeptInv'
  <2>1. /\ \A d \in Calls : /\ calls'[d].pc \in {"store", "post"} \/ calls[d].pc \in {"store", "post"}
                                  => calls'[d].pc = calls[d].pc
                            /\ calls'[d].grant = calls[d].grant
                            /\ calls'[d].holding = calls[d].holding
        /\ UNCHANGED <<plugin, server>>
    BY <1>7 DEF Unauthorized, At
  <2> QED
    BY ONLY KeptInv, <2>1
<1>8. ASSUME NEW c \in Calls, ReadRefresh(c) PROVE KeptInv'
  BY <1>8 DEF ReadRefresh, At
<1>9. ASSUME NEW c \in Calls, Granted(c) PROVE KeptInv'
  BY <1>9 DEF Granted, Grant, At
<1>10. ASSUME NEW c \in Calls, GrantLost(c) PROVE KeptInv'
  BY <1>10 DEF GrantLost, Grant, At, Goto
<1>11. ASSUME NEW c \in Calls, RefreshFails(c) PROVE KeptInv'
  BY <1>11 DEF RefreshFails, At, Goto
<1>12. ASSUME NEW c \in Calls, Store(c) PROVE KeptInv'
  <2>1. /\ calls'[c].pc \in {"bearer", "reread"}
        /\ \A d \in Calls : d # c => calls'[d] = calls[d]
    BY <1>12 DEF Store, AfterRefresh, Goto
  <2>2. /\ calls[c].pc = "store"
        /\ refresh' = IF rotates THEN calls[c].grant ELSE refresh
        /\ UNCHANGED <<configures, server>>
    BY <1>12 DEF Store, At
  <2>3. rotates /\ ~lost /\ configures = 0 =>
           refresh' = validRefresh /\ \A d \in Calls : calls'[d].pc # "store"
    <3>1. rotates /\ ~lost /\ configures = 0 =>
             /\ calls[c].grant = validRefresh
             /\ \A d \in Calls : calls[d].pc = "store" => d = c
      BY <2>2, OnlyRotation
    <3> QED
      BY <2>1, <2>2, <3>1
  <2> QED
    BY <2>1, <2>2, <2>3
<1>13. ASSUME NEW config \in Configs, BeginConfigure(config) PROVE KeptInv'
  BY <1>13 DEF BeginConfigure
<1>14. ASSUME EndConfigure PROVE KeptInv'
  BY <1>14 DEF EndConfigure
<1>15. ASSUME NEW token \in Grants, Expire(token) PROVE KeptInv'
  BY <1>15 DEF Expire
<1>16. CASE UNCHANGED vars
  BY <1>16 DEF vars
<1> QED
  BY <1>1, <1>2, <1>3, <1>4, <1>5, <1>6, <1>7, <1>8, <1>9, <1>10, <1>11, <1>12,
     <1>13, <1>14, <1>15, <1>16 DEF Next, Call

(* No call has been rejected in the beginning. *)
LEMMA InitRetryInv == Init => RetryInv
BY DEF Init, NewCall, At, Refreshing, RetryInv, RetriesUseOAuth, GrantsAreFresh,
       RejectedIsGone, RetryUsesAnother, Ended

(* A grant is newer than every token that was used, until it is stored. *)
LEMMA StepRetryInv ==
    ASSUME IInv, RetryInv, [Next]_vars
    PROVE  RetryInv'
<1> USE CodexAssumption DEF IInv, TypeOK, CallStates, FirstAttemptRefreshes,
       TokensWereIssued, Configuring, Refreshing, Tokens, Grants, Places, None,
       RetryInv, RetriesUseOAuth, GrantsAreFresh, RejectedIsGone, RetryUsesAnother,
       Ended, At, plugin, server
<1>1. ASSUME NEW c \in Calls, Start(c) PROVE RetryInv'
  BY <1>1 DEF Start, At, Goto
<1>2. ASSUME NEW c \in Calls, BearerKnown(c) PROVE RetryInv'
  BY <1>2 DEF BearerKnown, At, Use
<1>3. ASSUME NEW c \in Calls, BearerMissing(c) PROVE RetryInv'
  BY <1>3 DEF BearerMissing, At
<1>4. ASSUME NEW c \in Calls, BearerAgain(c) PROVE RetryInv'
  BY <1>4 DEF BearerAgain, At, Goto, Use
<1>5. ASSUME NEW c \in Calls, Accepted(c) PROVE RetryInv'
  BY <1>5 DEF Accepted, At, Goto
<1>6. ASSUME NEW c \in Calls, RequestFails(c) PROVE RetryInv'
  BY <1>6 DEF RequestFails, At, Goto
<1>7. ASSUME NEW c \in Calls, Unauthorized(c) PROVE RetryInv'
  <2>1. /\ \A d \in Calls : /\ d # c => calls'[d] = calls[d]
                            /\ calls'[d].grant = calls[d].grant
                            /\ calls'[d].token = calls[d].token
                            /\ calls'[d].attempt = calls[d].attempt
        /\ calls'[c].rejected = calls[c].token
        /\ \/ calls'[c].pc = "failed"
           \/ calls'[c].pc = "refresh" /\ authMode = "oauth_env" /\ calls[c].attempt = 1
        /\ calls[c].pc = "request"
        /\ UNCHANGED <<plugin, server>>
    BY <1>7 DEF Unauthorized, At
  <2> SUFFICES ASSUME configures = 0
               PROVE  (RetriesUseOAuth /\ GrantsAreFresh /\ RejectedIsGone /\ RetryUsesAnother)'
    BY <2>1
  <2>2. RetriesUseOAuth /\ GrantsAreFresh /\ RejectedIsGone /\ RetryUsesAnother
    OBVIOUS
  <2>3. RetriesUseOAuth'
    BY ONLY <2>1, <2>2
  <2>4. GrantsAreFresh'
    BY ONLY <2>1, <2>2
  <2>5. RejectedIsGone' /\ RetryUsesAnother'
    BY ONLY <2>1, <2>2
  <2> QED
    BY ONLY <2>3, <2>4, <2>5
<1>8. ASSUME NEW c \in Calls, ReadRefresh(c) PROVE RetryInv'
  BY <1>8 DEF ReadRefresh, At
<1>9. ASSUME NEW c \in Calls, Granted(c) PROVE RetryInv'
  BY <1>9 DEF Granted, Grant, At
<1>10. ASSUME NEW c \in Calls, GrantLost(c) PROVE RetryInv'
  BY <1>10 DEF GrantLost, Grant, At, Goto
<1>11. ASSUME NEW c \in Calls, RefreshFails(c) PROVE RetryInv'
  BY <1>11 DEF RefreshFails, At, Goto
<1>12. ASSUME NEW c \in Calls, Store(c) PROVE RetryInv'
  BY <1>12 DEF Store, AfterRefresh, At, Goto
<1>13. ASSUME NEW config \in Configs, BeginConfigure(config) PROVE RetryInv'
  BY <1>13 DEF BeginConfigure
<1>14. ASSUME EndConfigure PROVE RetryInv'
  BY <1>14 DEF EndConfigure
<1>15. ASSUME NEW token \in Grants, Expire(token) PROVE RetryInv'
  BY <1>15 DEF Expire
<1>16. CASE UNCHANGED vars
  BY <1>16 DEF vars
<1> QED
  BY <1>1, <1>2, <1>3, <1>4, <1>5, <1>6, <1>7, <1>8, <1>9, <1>10, <1>11, <1>12,
     <1>13, <1>14, <1>15, <1>16 DEF Next, Call

-----------------------------------------------------------------------------
(* The inductive invariant holds (main.go:40-145, 417-496). *)
THEOREM Invariant == Spec => []IInv
<1>1. IInv /\ [Next]_vars => IInv'
  BY StepIInv
<1> QED
  BY <1>1, InitIInv, PTL DEF Spec

(* Every variable keeps its type, and no call makes more than two attempts,  *)
(* whatever Configure does meanwhile (main.go:113-134).                      *)
THEOREM TypeCorrect == Spec => []TypeOK
<1>1. IInv => TypeOK
  BY DEF IInv
<1> QED
  BY <1>1, Invariant, PTL

(* Whatever the interleaving of refreshes, the refresh token the server      *)
(* accepts is the plugin's or about to be (main.go:451-496).                 *)
THEOREM RefreshKept == Spec => []RefreshTokenKept
<1>1. IInv /\ KeptInv /\ [Next]_vars => KeptInv'
  BY StepKeptInv
<1>2. IInv /\ KeptInv => RefreshTokenKept
  BY CodexAssumption DEF IInv, TypeOK, KeptInv, RefreshTokenKept
<1> QED
  BY <1>1, <1>2, InitKeptInv, Invariant, PTL DEF Spec

(* The attempt after a refresh never repeats the rejected token, whichever   *)
(* call's refresh the token it uses comes from (main.go:119-128, :489-494).  *)
THEOREM RetryAnother == Spec => []RetryUsesAnother
<1>1. IInv /\ RetryInv /\ [Next]_vars => RetryInv'
  BY StepRetryInv
<1>2. RetryInv => RetryUsesAnother
  BY DEF RetryInv, RetryUsesAnother
<1> QED
  BY <1>1, <1>2, InitRetryInv, Invariant, PTL DEF Spec

-----------------------------------------------------------------------------
(* How many steps a call can still take.  A stage counts those of one way    *)
(* from bearerToken to the upstream's answer; before the second attempt      *)
(* there may be another refresh, and before the first two.                   *)
Stage(pc) ==
    CASE pc = "request" -> 1
      [] pc = "reread"  -> 2
      [] pc = "store"   -> 3
      [] pc = "post"    -> 4
      [] pc = "refresh" -> 5
      [] pc = "bearer"  -> 6
      [] pc = "idle"    -> 7
      [] OTHER          -> 0

Ahead(call) ==
    IF call.attempt = 2 \/ call.pc \in {"served", "failed"} THEN 0
    ELSE IF call.on401 /\ call.pc \in {"refresh", "post", "store"} THEN 4
    ELSE 9

StepsLeft(call) == Stage(call.pc) + Ahead(call)

(* Whatever happens to a call leaves it fewer steps.                         *)
RunsDown(c) == calls'[c] # calls[c] => StepsLeft(calls'[c]) < StepsLeft(calls[c])

LEMMA OneCallMoves ==
    ASSUME TypeOK, NEW c \in Calls, Start(c) \/ Call(c)
    PROVE  \A d \in Calls \ {c} : calls'[d] = calls[d]
BY DEF TypeOK, Start, Call, BearerKnown, BearerMissing, BearerAgain, Accepted, RequestFails,
       Unauthorized, ReadRefresh, Granted, GrantLost, RefreshFails, Store, AfterRefresh, Goto, Use

LEMMA CallRunsDown ==
    ASSUME IInv, NEW c \in Calls, Start(c) \/ Call(c)
    PROVE  StepsLeft(calls'[c]) < StepsLeft(calls[c])
<1>1. calls \in [Calls -> CallStates]
  BY DEF IInv, TypeOK
<1> PICK x : x = calls[c]
  OBVIOUS
<1> PICK y : y = calls'[c]
  OBVIOUS
<1>2. x \in CallStates
  BY <1>1
<1>3. x.attempt \in {1, 2} /\ x.on401 \in BOOLEAN
  BY <1>2 DEF CallStates
<1> USE DEF At, Goto, Use
<1>4. CASE Start(c)
  <2>1. x.pc = "idle" /\ y = [x EXCEPT !.pc = "bearer"]
    BY <1>1, <1>4 DEF Start
  <2>2. y.pc = "bearer" /\ y.attempt = x.attempt
    BY <1>2, <2>1 DEF CallStates
  <2> QED
    BY <1>3, <2>1, <2>2 DEF StepsLeft, Stage, Ahead

<1>5. CASE BearerKnown(c)
  <2>1. x.pc = "bearer"
    BY <1>5 DEF BearerKnown
  <2>2. y.pc = "request" /\ y.attempt = x.attempt
    BY <1>1, <1>2, <1>5 DEF BearerKnown, CallStates
  <2> QED
    BY <1>3, <2>1, <2>2 DEF StepsLeft, Stage, Ahead
<1>6. CASE BearerMissing(c)
  <2>1. x.pc = "bearer"
    BY <1>6 DEF BearerMissing
  <2>2. y.pc \in {"failed", "refresh"} /\ y.attempt = x.attempt /\ ~y.on401
    BY <1>1, <1>2, <1>6 DEF BearerMissing, CallStates
  <2> QED
    BY <1>3, <2>1, <2>2 DEF StepsLeft, Stage, Ahead
<1>7. CASE BearerAgain(c)
  <2>1. x.pc = "reread"
    BY <1>7 DEF BearerAgain
  <2>2. y.pc \in {"failed", "request"} /\ y.attempt = x.attempt
    BY <1>1, <1>2, <1>7 DEF BearerAgain, CallStates
  <2> QED
    BY <1>3, <2>1, <2>2 DEF StepsLeft, Stage, Ahead
<1>8. CASE Accepted(c)
  <2>1. x.pc = "request"
    BY <1>8 DEF Accepted
  <2>2. y.pc = "served"
    BY <1>1, <1>2, <1>8 DEF Accepted, CallStates
  <2> QED
    BY <1>3, <2>1, <2>2 DEF StepsLeft, Stage, Ahead
<1>9. CASE RequestFails(c)
  <2>1. x.pc = "request"
    BY <1>9 DEF RequestFails
  <2>2. y.pc = "failed"
    BY <1>1, <1>2, <1>9 DEF RequestFails, CallStates
  <2> QED
    BY <1>3, <2>1, <2>2 DEF StepsLeft, Stage, Ahead
<1>10. CASE Unauthorized(c)
  <2>1. x.pc = "request"
    BY <1>10 DEF Unauthorized
  <2>2. \/ y.pc = "failed"
        \/ y.pc = "refresh" /\ x.attempt = 1 /\ y.attempt = 1 /\ y.on401
    BY <1>1, <1>2, <1>10 DEF Unauthorized, CallStates
  <2> QED
    BY <1>3, <2>1, <2>2 DEF StepsLeft, Stage, Ahead
<1>11. CASE ReadRefresh(c)
  <2>1. x.pc = "refresh"
    BY <1>11 DEF ReadRefresh
  <2>2. y.pc \in {"failed", "post"} /\ y.attempt = x.attempt /\ y.on401 = x.on401
    BY <1>1, <1>2, <1>11 DEF ReadRefresh, CallStates
  <2> QED
    BY <1>3, <2>1, <2>2 DEF StepsLeft, Stage, Ahead
<1>12. CASE Granted(c)
  <2>1. x.pc = "post"
    BY <1>12 DEF Granted, Grant
  <2>2. y.pc = "store" /\ y.attempt = x.attempt /\ y.on401 = x.on401
    BY <1>1, <1>2, <1>12 DEF Granted, Grant, CallStates
  <2> QED
    BY <1>3, <2>1, <2>2 DEF StepsLeft, Stage, Ahead
<1>13. CASE GrantLost(c)
  <2>1. x.pc = "post"
    BY <1>13 DEF GrantLost, Grant
  <2>2. y.pc = "failed"
    BY <1>1, <1>2, <1>13 DEF GrantLost, Grant, CallStates
  <2> QED
    BY <1>3, <2>1, <2>2 DEF StepsLeft, Stage, Ahead
<1>14. CASE RefreshFails(c)
  <2>1. x.pc = "post"
    BY <1>14 DEF RefreshFails
  <2>2. y.pc = "failed"
    BY <1>1, <1>2, <1>14 DEF RefreshFails, CallStates
  <2> QED
    BY <1>3, <2>1, <2>2 DEF StepsLeft, Stage, Ahead
<1>15. CASE Store(c)
  <2>1. x.pc = "store"
    BY <1>15 DEF Store
  <2>2. x.on401 => x.attempt = 1
    BY <2>1 DEF IInv, FirstAttemptRefreshes, Refreshing
  <2>3. IF x.on401 THEN y.pc = "bearer" /\ y.attempt = x.attempt + 1
        ELSE y.pc = "reread" /\ y.attempt = x.attempt
    BY <1>1, <1>2, <1>15 DEF Store, AfterRefresh, CallStates
  <2> QED
    BY <1>3, <2>1, <2>2, <2>3 DEF StepsLeft, Stage, Ahead
<1> QED
  BY <1>4, <1>5, <1>6, <1>7, <1>8, <1>9, <1>10, <1>11, <1>12, <1>13, <1>14, <1>15 DEF Call

(* No call goes round for ever: each of its steps takes it nearer to its     *)
(* end, which is at most sixteen steps away, whatever other calls, the       *)
(* server and Configure do meanwhile (main.go:113-134, :417-496).            *)
CallsRunDown == [][\A c \in Calls : RunsDown(c)]_vars

THEOREM EveryCallRunsDown ==
    Spec => CallsRunDown /\ [](\A c \in Calls : StepsLeft(calls[c]) \in 0..16)
<1>1. IInv /\ [Next]_vars => [\A c \in Calls : RunsDown(c)]_vars
  <2> SUFFICES ASSUME IInv, Next, NEW c \in Calls, calls'[c] # calls[c]
               PROVE  StepsLeft(calls'[c]) < StepsLeft(calls[c])
    BY DEF RunsDown
  <2>1. CASE \E d \in Calls : Start(d) \/ Call(d)
    BY <2>1, OneCallMoves, CallRunsDown DEF IInv
  <2>2. CASE \/ \E config \in Configs : BeginConfigure(config)
             \/ EndConfigure
             \/ \E token \in Grants : Expire(token)
    BY <2>2 DEF BeginConfigure, EndConfigure, Expire
  <2> QED
    BY <2>1, <2>2 DEF Next
<1>2. IInv => \A c \in Calls : StepsLeft(calls[c]) \in 0..16
  <2> SUFFICES ASSUME NEW x \in CallStates PROVE StepsLeft(x) \in 0..16
    BY DEF IInv, TypeOK
  <2> QED
    BY DEF CallStates, Places, StepsLeft, Stage, Ahead
<1> QED
  BY <1>1, <1>2, Invariant, PTL DEF Spec, CallsRunDown
=============================================================================
