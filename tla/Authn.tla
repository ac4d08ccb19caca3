------------------------------------ MODULE Authn ------------------------------------
(*****************************************************************************)
(* The two authenticators: plugins/authn-static-api-key keeps its keys in    *)
(* memory, plugins/authn-postgres-api-key asks a database.                   *)
(*                                                                           *)
(* Neither takes a lock.  The static table is emptied and filled again, one  *)
(* key at a time, while calls read it; the postgres plugin assigns its table *)
(* name before it has connected and its pool after, and a call reads the     *)
(* name before the pool.  The database itself is an environment: its keys    *)
(* are revoked (or expire) behind the plugin's back.                         *)
(*****************************************************************************)
EXTENDS Sequences, FiniteSetsExt, TLC

CONSTANTS KeyConfigs,    (* "keys" of the static plugin: sequences of entries
                            [id, value, tenant, subject], "" for a missing field *)
          DbConfigs,     (* [database, table] of the postgres plugin         *)
          Rows           (* [database, table, value, tenant, subject]        *)

Missing == ""     (* a field that is not given                                 *)

ASSUME KeyConfigsAssumption ==
    /\ KeyConfigs \subseteq
          Seq([id : STRING, value : STRING, tenant : STRING, subject : STRING])
    /\ \A c \in KeyConfigs : \A i \in DOMAIN c : "key-" \o ToString(i - 1) # Missing

VARIABLES
    keys,       (* plugin.keys of the static plugin                          *)
    keysLeft,   (* the entries its Configure has still to append             *)
    keysGiven,  (* history: "keys" of the last Configure call                *)
    table,      (* plugin.table of the postgres plugin                       *)
    pool,       (* the database its pool is connected to, "" before          *)
    dialing,    (* the database its Configure is connecting to, "" if none   *)
    revoked     (* the rows that are not active any more, or have expired    *)

staticVars == <<keys, keysLeft, keysGiven>>
postgresVars == <<table, pool, dialing, revoked>>
authnVars == <<staticVars, postgresVars>>

Denied == [tenant |-> Missing, subject |-> Missing]

-----------------------------------------------------------------------------
(* The static plugin.                                                        *)

(* An entry without an id gets one from its place (counted from 0); tenant   *)
(* and subject default to the id.                                            *)
WithDefaults(e, i) ==
    LET id == IF e.id = Missing THEN "key-" \o ToString(i) ELSE e.id
    IN [id |-> id, value |-> e.value,
        tenant |-> IF e.tenant = Missing THEN id ELSE e.tenant,
        subject |-> IF e.subject = Missing THEN id ELSE e.subject]

KeysAreLoading == keysLeft # <<>>

(* Mutant of EmptyKeys: the keys of the last configuration stay. *)
KeepKeys(config) ==
    /\ ~KeysAreLoading
    /\ keysLeft' = config
    /\ keysGiven' = config
    /\ UNCHANGED <<keys, postgresVars>>

(* Configure begins: keys = nil, and an empty list is an error already. *)
EmptyKeys(config) ==
    /\ ~KeysAreLoading
    /\ keys' = <<>>
    /\ keysLeft' = config
    /\ keysGiven' = config
    /\ UNCHANGED postgresVars

(* One turn of its loop.  An entry without a value is an error: Configure    *)
(* returns, and the entries before it stay in force.                         *)
AppendKey ==
    /\ KeysAreLoading
    /\ IF Head(keysLeft).value = Missing
       THEN keysLeft' = <<>> /\ UNCHANGED keys
       ELSE /\ keys' = Append(keys, WithDefaults(Head(keysLeft), Len(keys)))
            /\ keysLeft' = Tail(keysLeft)
    /\ UNCHANGED <<keysGiven, postgresVars>>

(* Who the first key with this value is. *)
KeyHolder(value) ==
    LET hits == {i \in DOMAIN keys : keys[i].value = value}
    IN IF value = Missing \/ hits = {}
       THEN Denied
       ELSE [tenant |-> keys[Min(hits)].tenant, subject |-> keys[Min(hits)].subject]

-----------------------------------------------------------------------------
(* The postgres plugin.                                                      *)

(* Configure: the table is assigned first, then it connects... *)
NameTable(config) ==
    /\ dialing = Missing
    /\ table' = config.table
    /\ dialing' = config.database
    /\ UNCHANGED <<pool, revoked, staticVars>>

(* ... and the pool only when the database has answered.  A failure leaves   *)
(* the earlier pool with the new table.  Creating the schema adds no row.    *)
Connect ==
    /\ dialing # Missing
    /\ pool' \in {pool, dialing}
    /\ dialing' = Missing
    /\ UNCHANGED <<table, revoked, staticVars>>

(* The operator sets active to false, or the time passes expires_at. *)
Revoke(row) ==
    /\ row \notin revoked
    /\ revoked' = revoked \union {row}
    /\ UNCHANGED <<table, pool, dialing, staticVars>>

(* What the query finds: key_hash is unique in a table. *)
RowsOf(value, name) ==
    {row \in Rows \ revoked : row.database = pool /\ row.table = name /\ row.value = value}

-----------------------------------------------------------------------------
(* The plugin in use has been configured once. *)
AuthnInit(kind) ==
    /\ IF kind = "static"
       THEN keysGiven \in {c \in KeyConfigs : \A i \in DOMAIN c : c[i].value # Missing}
       ELSE keysGiven = <<>>
    /\ keys = [i \in DOMAIN keysGiven |-> WithDefaults(keysGiven[i], i - 1)]
    /\ keysLeft = <<>>
    /\ IF kind = "postgres"
       THEN \E c \in DbConfigs : table = c.table /\ pool = c.database
       ELSE table = Missing /\ pool = Missing
    /\ dialing = Missing
    /\ revoked = {}
=============================================================================
