------------------------------- MODULE MCCacheMemory -------------------------------
(* CacheMemory on small instances. *)
EXTENDS CacheMemory

Config(ttl, limit, ns) == [defaultTTL |-> ttl, maxEntries |-> limit, namespace |-> ns]

(* Two tenants and two keys, with room for one entry.  The first tenant's    *)
(* second key and the second tenant's first are joined alike, a:t:u:k.  The  *)
(* second configuration is one that is rejected, and stores nothing by       *)
(* default.                                                                  *)
TwoTenants == {<<"t">>, <<"t", ":", "u">>}
TwoKeys == {<<"k">>, <<"u", ":", "k">>}
TenantConfigs == {Config(1, 1, <<"a">>), Config(0, -1, <<"b">>)}

(* One tenant and one key. *)
OneTenant == {<<"t">>}
OneKey == {<<"k">>}

(* A reconfiguration that is rejected. *)
RejectedLimit == {Config(1, 1, <<"a">>), Config(1, -1, <<"a">>)}
=============================================================================
