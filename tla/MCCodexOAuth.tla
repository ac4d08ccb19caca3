-------------------------------- MODULE MCCodexOAuth --------------------------------
(* CodexOAuth on small instances. *)
EXTENDS CodexOAuth

Config(mode, a, r) == [authMode |-> mode, access |-> a, refresh |-> r]

(* The README's: an access token, a refresh token, both, or an API key; and  *)
(* one that is rejected, for there is no token at all.                       *)
MCConfigs == {Config("oauth_env", 0, 0), Config("oauth_env", None, 0),
              Config("oauth_env", 0, None), Config("api_key", None, None),
              Config("oauth_env", None, None)}
=============================================================================
