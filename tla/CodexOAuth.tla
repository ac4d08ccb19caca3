--------------------------------- MODULE CodexOAuth ---------------------------------
(*****************************************************************************)
(* How concurrent calls of plugins/upstream-codex share its OAuth tokens:    *)
(* bearerToken, canRefresh and refreshOAuthToken, around the two attempts of *)
(* Invoke.  The mutex is held for each read and each write of the tokens,    *)
(* and for nothing longer, so two calls may refresh at the same time;        *)
(* Configure does not take it at all.                                        *)
(*                                                                           *)
(* A token is the number of the grant it came with, 0 for what the           *)
(* configuration holds (the API key included).  The authorization server     *)
(* and the upstream are external: the server may issue a new refresh token   *)
(* with every grant, and the old one is worthless then; access tokens expire *)
(* at any time; answers may be lost.                                         *)
(*****************************************************************************)
EXTENDS Integers, FiniteSets

CONSTANTS Calls,          (* concurrent calls of Invoke                      *)
          Configs,        (* what Configure can be called with               *)
          Rotations,      (* whether the server rotates refresh tokens       *)
          MaxGrants,      (* bound: grants the server issues                 *)
          MaxConfigures   (* bound: calls of Configure after the first       *)

None == -1
Grants == 0..MaxGrants
Tokens == Grants \union {None}

ASSUME CodexAssumption ==
    /\ MaxGrants \in Nat /\ MaxConfigures \in Nat
    /\ Rotations \subseteq BOOLEAN
    /\ Configs \subseteq [authMode : {"api_key", "oauth_env"},
                          access : {0, None}, refresh : {0, None}]

VARIABLES authMode, access, refresh,   (* of the plugin                      *)
          configuring,   (* {r}: Configure has still to write refresh token r *)
          configures,    (* how often Configure was called again             *)
          calls,         (* the calls                                        *)
          rotates, issued, validRefresh, validAccess,   (* of the server     *)
          lost           (* history: a grant did not reach the plugin        *)

plugin == <<authMode, access, refresh, configuring, configures>>
server == <<rotates, issued, validRefresh, validAccess, lost>>
vars == <<plugin, calls, server>>

(* attempt: how often it called do().  on401: what a refresh is for.  token: what *)
(* the attempt uses.  rejected: what the first attempt used.  holding: the   *)
(* refresh token being sent.  grant: what the server answered.               *)
NewCall == [pc |-> "idle", attempt |-> 1, on401 |-> FALSE, token |-> None,
            rejected |-> None, holding |-> None, grant |-> None]

Init ==
    /\ \E c \in Configs :
          /\ c.authMode = "oauth_env" => c.access # None \/ c.refresh # None
          /\ authMode = c.authMode
          /\ access = c.access
          /\ refresh = c.refresh
    /\ configuring = {}
    /\ configures = 0
    /\ calls = [c \in Calls |-> NewCall]
    /\ rotates \in Rotations
    /\ issued = 0
    /\ validRefresh = refresh
    /\ validAccess = {0}
    /\ lost = FALSE

At(c, place) == calls[c].pc = place
Goto(c, place) == calls' = [calls EXCEPT ![c].pc = place]

-----------------------------------------------------------------------------
(* Configure assigns the fields one after the other, without the mutex. *)
BeginConfigure(c) ==
    /\ configuring = {} /\ configures < MaxConfigures
    /\ configures' = configures + 1
    /\ authMode' = c.authMode
    /\ access' = c.access
    /\ configuring' = {c.refresh}
    /\ UNCHANGED <<refresh, calls, server>>

EndConfigure ==
    /\ configuring # {}
    /\ refresh' \in configuring
    /\ configuring' = {}
    /\ UNCHANGED <<authMode, access, configures, calls, server>>

-----------------------------------------------------------------------------
(* do(): a request is made with the token bearerToken finds. *)
Start(c) == At(c, "idle") /\ Goto(c, "bearer") /\ UNCHANGED <<plugin, server>>

Use(c, token) == calls' = [calls EXCEPT ![c].pc = "request", ![c].token = token]

(* bearerToken: the key, or the access token if there is one. *)
BearerKnown(c) ==
    /\ At(c, "bearer")
    /\ authMode = "api_key" \/ access # None
    /\ Use(c, IF authMode = "api_key" THEN 0 ELSE access)
    /\ UNCHANGED <<plugin, server>>

(* bearerToken without one: a refresh, if there is anything to refresh with. *)
BearerMissing(c) ==
    /\ At(c, "bearer")
    /\ authMode # "api_key" /\ access = None
    /\ calls' = [calls EXCEPT ![c].pc = IF refresh = None THEN "failed" ELSE "refresh",
                              ![c].on401 = FALSE]
    /\ UNCHANGED <<plugin, server>>

(* bearerToken after its refresh reads the access token again. *)
BearerAgain(c) ==
    /\ At(c, "reread")
    /\ IF access = None THEN Goto(c, "failed") ELSE Use(c, access)
    /\ UNCHANGED <<plugin, server>>

(* The upstream serves valid tokens, and may fail for any other reason. *)
Accepted(c) ==
    /\ At(c, "request") /\ calls[c].token \in validAccess
    /\ Goto(c, "served")
    /\ UNCHANGED <<plugin, server>>

RequestFails(c) == At(c, "request") /\ Goto(c, "failed") /\ UNCHANGED <<plugin, server>>

(* 401 or 403: the first attempt refreshes if canRefresh, the second does not. *)
Unauthorized(c) ==
    /\ At(c, "request") /\ calls[c].token \notin validAccess
    /\ calls' = [calls EXCEPT ![c].pc = IF /\ calls[c].attempt = 1
                                           /\ authMode = "oauth_env" /\ refresh # None
                                        THEN "refresh" ELSE "failed",
                              ![c].on401 = TRUE,
                              ![c].rejected = calls[c].token]
    /\ UNCHANGED <<plugin, server>>

-----------------------------------------------------------------------------
(* refreshOAuthToken: read the refresh token, post it, store the answer. *)
ReadRefresh(c) ==
    /\ At(c, "refresh")
    /\ calls' = [calls EXCEPT ![c].pc = IF refresh = None THEN "failed" ELSE "post",
                              ![c].holding = refresh]
    /\ UNCHANGED <<plugin, server>>

(* The server grants new tokens for the refresh token it holds valid. *)
Grant(c) ==
    /\ At(c, "post") /\ calls[c].holding = validRefresh
    /\ issued < MaxGrants
    /\ issued' = issued + 1
    /\ validAccess' = validAccess \union {issued + 1}
    /\ validRefresh' = IF rotates THEN issued + 1 ELSE validRefresh

Granted(c) ==
    /\ Grant(c)
    /\ calls' = [calls EXCEPT ![c].pc = "store", ![c].grant = issued + 1]
    /\ UNCHANGED <<plugin, rotates, lost>>

(* The answer is lost, cannot be decoded or has no access token in it. *)
GrantLost(c) ==
    /\ Grant(c)
    /\ Goto(c, "failed")
    /\ lost' = TRUE
    /\ UNCHANGED <<plugin, rotates>>

(* Mutant of RefreshFails: a call that met a 401 tries again all the same. *)
RefreshIgnored(c) ==
    /\ At(c, "post")
    /\ Goto(c, IF calls[c].on401 THEN "bearer" ELSE "failed")
    /\ UNCHANGED <<plugin, server>>

(* The server refuses, or is not reached: Invoke reports the 401 it had. *)
RefreshFails(c) == At(c, "post") /\ Goto(c, "failed") /\ UNCHANGED <<plugin, server>>

AfterRefresh(c) ==
    IF calls[c].on401
    THEN calls' = [calls EXCEPT ![c].pc = "bearer", ![c].attempt = @ + 1]
    ELSE Goto(c, "reread")

(* Mutant of Store: a refresh token is stored only if there was none. *)
StoreFirstRefresh(c) ==
    /\ At(c, "store")
    /\ access' = calls[c].grant
    /\ refresh' = IF rotates /\ refresh = None THEN calls[c].grant ELSE refresh
    /\ AfterRefresh(c)
    /\ UNCHANGED <<authMode, configuring, configures, server>>

(* Mutant of Store: the tokens are stored only if both are new. *)
StoreBoth(c) ==
    /\ At(c, "store")
    /\ access' = IF rotates THEN calls[c].grant ELSE access
    /\ refresh' = IF rotates THEN calls[c].grant ELSE refresh
    /\ AfterRefresh(c)
    /\ UNCHANGED <<authMode, configuring, configures, server>>

Store(c) ==
    /\ At(c, "store")
    /\ access' = calls[c].grant
    /\ refresh' = IF rotates THEN calls[c].grant ELSE refresh
    /\ AfterRefresh(c)
    /\ UNCHANGED <<authMode, configuring, configures, server>>

(* Access tokens expire, or are revoked. *)
Expire(token) ==
    /\ token \in validAccess
    /\ validAccess' = validAccess \ {token}
    /\ UNCHANGED <<plugin, calls, rotates, issued, validRefresh, lost>>

-----------------------------------------------------------------------------
Call(c) == \/ BearerKnown(c) \/ BearerMissing(c) \/ BearerAgain(c)
           \/ Accepted(c) \/ RequestFails(c) \/ Unauthorized(c)
           \/ ReadRefresh(c) \/ Granted(c) \/ GrantLost(c) \/ RefreshFails(c)
           \/ Store(c)

Next == \/ \E c \in Calls : Start(c) \/ Call(c)
        \/ \E config \in Configs : BeginConfigure(config)
        \/ EndConfigure
        \/ \E token \in Grants : Expire(token)

Spec == Init /\ [][Next]_vars

(* A call that can go on does: http.Client.Timeout ends every exchange.      *)
FairSpec == Spec /\ \A c \in Calls : WF_vars(Call(c))

-----------------------------------------------------------------------------
Places == {"idle", "bearer", "reread", "request", "refresh", "post", "store",
           "served", "failed"}

CallStates == [pc : Places, attempt : {1, 2}, on401 : BOOLEAN, token : Tokens,
               rejected : Tokens, holding : Tokens, grant : Tokens]

(* Types of the variables; no call makes more than two attempts. *)
TypeOK ==
    /\ authMode \in {"api_key", "oauth_env"}
    /\ access \in Tokens /\ refresh \in Tokens
    /\ configuring \subseteq Tokens
    /\ configures \in 0..MaxConfigures
    /\ calls \in [Calls -> CallStates]
    /\ rotates \in BOOLEAN
    /\ issued \in Grants
    /\ validRefresh \in Tokens
    /\ validAccess \subseteq Grants
    /\ lost \in BOOLEAN

(* The refresh token that the server accepts is not forgotten: the plugin    *)
(* holds it, or a call that is about to store it does, however the refreshes *)
(* of concurrent calls interleave, unless the server's answer itself was     *)
(* lost or the plugin was reconfigured (main.go:451-496).                    *)
RefreshTokenKept ==
    lost \/ configures > 0
    \/ refresh = validRefresh
    \/ \E c \in Calls : At(c, "store") /\ calls[c].grant = validRefresh

(* The attempt after a refresh never repeats the token that was rejected,    *)
(* whichever of several refreshes the token it uses comes from, unless the   *)
(* plugin was reconfigured (main.go:119-128, :489-494).                      *)
RetryUsesAnother ==
    \A c \in Calls : At(c, "request") /\ calls[c].attempt = 2 /\ configures = 0 =>
        calls[c].token # calls[c].rejected

(* Every call ends, whatever other calls, the server and Configure do        *)
(* meanwhile: neither a refresh that fails nor a token that is rejected sends *)
(* it round again (main.go:113-134).                                         *)
EveryCallEnds == \A c \in Calls : At(c, "bearer") ~> calls[c].pc \in {"served", "failed"}
=============================================================================
