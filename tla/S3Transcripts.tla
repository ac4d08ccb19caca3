------------------------------- MODULE S3Transcripts -------------------------------
(*****************************************************************************)
(* plugins/observer-s3-transcripts: Emit writes the transcript of each event *)
(* of a batch to an object store and, with a database, a row that points at  *)
(* it.  Emit copies what Configure has set and works without the mutex, so   *)
(* several batches and Configure go on at the same time, and each write may  *)
(* fail, also after it took effect.  Configure assigns as it goes: one that  *)
(* fails in the middle leaves some of the old settings.                      *)
(*                                                                           *)
(* A client stands for the endpoint it writes to, a pool for its database;   *)
(* of a body only the event is kept.  Request identifiers and buckets are not *)
(* empty; safePart, and the dots of a key, leave the gateway's event types   *)
(* as they are.                                                              *)
(*****************************************************************************)
EXTENDS Integers, Sequences

CONSTANTS Requests,    (* request identifiers                                *)
          SafePart,    (* what safePart makes of each                        *)
          Tenants, Types, Hours,
          Configs,     (* what Configure can be called with                  *)
          Batches,     (* what Emit can be called with                       *)
          Emits,       (* calls of Emit                                      *)
          MaxConfigures   (* bound: calls of Configure                       *)

None == "none"

Stored == {"request.completed", "request.failed"}

(* hour is None for an event without a timestamp. *)
Events == [request : Requests, tenant : Tenants, type : Types, hour : Hours \union {None}]

(* valid: there are credentials.  database is None if there is no URL. *)
ConfigType == [valid : BOOLEAN, endpoint : STRING, bucket : STRING, prefix : STRING,
               storeAll : BOOLEAN, gzip : BOOLEAN, table : STRING, database : STRING,
               bypass : SUBSET Tenants]

ASSUME TranscriptsAssumption ==
    /\ DOMAIN SafePart = Requests
    /\ None \notin Hours /\ None \notin Types
    /\ \A c \in Configs : c \in ConfigType /\ c.endpoint # None
    /\ Batches \subseteq Seq(Events)
    /\ MaxConfigures \in Nat

VARIABLES options,      (* the settings that Configure assigns first         *)
          client, pg,   (* the client and the pool, None before there is one *)
          configures,   (* how often Configure was called                    *)
          emits,        (* the calls of Emit                                 *)
          objects,      (* external: the object stores                       *)
          rows,         (* external: the tables                              *)
          asked,        (* history: what Configure was last called with      *)
          replaced      (* history: the objects that a later one replaced    *)

vars == <<options, client, pg, configures, emits, objects, rows, asked, replaced>>

Unconfigured == [valid |-> FALSE, endpoint |-> None, bucket |-> "", prefix |-> "",
                 storeAll |-> FALSE, gzip |-> FALSE, table |-> "", database |-> None,
                 bypass |-> {}]

(* The copies that an Emit works with; its place in the batch; the key of    *)
(* the event it is at.                                                       *)
NoKey == [prefix |-> "", hour |-> None, request |-> None, type |-> None, gzip |-> FALSE]

NewEmit == [pc |-> "idle", options |-> Unconfigured, client |-> None, pg |-> None,
            batch |-> <<>>, at |-> 1, key |-> NoKey, asked |-> Unconfigured]

Init ==
    /\ options = Unconfigured /\ asked = Unconfigured
    /\ client = None /\ pg = None
    /\ configures = 0
    /\ emits = [i \in Emits |-> NewEmit]
    /\ objects = {} /\ rows = {} /\ replaced = {}

-----------------------------------------------------------------------------
(* Configure, in the mutex: what it is called with replaces all the options. *)
Assign(c) ==
    /\ configures < MaxConfigures
    /\ configures' = configures + 1
    /\ options' = c
    /\ asked' = c
    /\ UNCHANGED <<emits, objects, rows, replaced>>

(* Mutant of Rejected: it validates before it assigns. *)
RejectedFirst(c) ==
    /\ configures < MaxConfigures
    /\ configures' = configures + 1
    /\ asked' = c
    /\ UNCHANGED <<options, emits, objects, rows, client, pg, replaced>>

(* No credentials, or no usable AWS configuration.  The old client stays. *)
Rejected(c) ==
    /\ Assign(c)
    /\ UNCHANGED <<client, pg>>

(* Without a database, or with one that does not answer, the old pool stays. *)
WithoutPool(c) ==
    /\ c.valid
    /\ Assign(c)
    /\ client' = c.endpoint
    /\ UNCHANGED pg

(* Whether or not the schema can be created then. *)
WithPool(c) ==
    /\ c.valid /\ c.database # None
    /\ Assign(c)
    /\ client' = c.endpoint
    /\ pg' = c.database

Configure(c) == WithoutPool(c) \/ WithPool(c) \/ Rejected(c)

-----------------------------------------------------------------------------
(* Emit copies the settings in the mutex.  Without a client it does nothing. *)
Begin(i, batch) ==
    /\ emits[i].pc = "idle"
    /\ emits' = [emits EXCEPT ![i] =
          [pc |-> IF client = None THEN "ok" ELSE "event", options |-> options,
           client |-> client, pg |-> pg, batch |-> batch, at |-> 1, key |-> NoKey,
           asked |-> asked]]
    /\ UNCHANGED <<options, client, pg, configures, asked, objects, rows, replaced>>

(* A step of an Emit leaves the settings alone. *)
Step(i) ==
    /\ replaced' = replaced \union (objects \ objects')
    /\ UNCHANGED <<options, client, pg, configures, asked>>

Event(i) == emits[i].batch[emits[i].at]

Wanted(i, ev) ==
    /\ ev.tenant \notin emits[i].options.bypass
    /\ emits[i].options.storeAll \/ ev.type \in Stored

Goto(i, place) == emits' = [emits EXCEPT ![i].pc = place]
NextEvent(i) == emits' = [emits EXCEPT ![i].pc = "event", ![i].at = @ + 1]

Done(i) ==
    /\ emits[i].pc = "event" /\ emits[i].at > Len(emits[i].batch)
    /\ Goto(i, "ok")
    /\ UNCHANGED <<objects, rows>> /\ Step(i)

Skip(i) ==
    /\ emits[i].pc = "event" /\ emits[i].at <= Len(emits[i].batch)
    /\ ~Wanted(i, Event(i))
    /\ NextEvent(i)
    /\ UNCHANGED <<objects, rows>> /\ Step(i)

(* An event without a timestamp is filed under the current hour. *)
FiledIn(ev) == IF ev.hour = None THEN Hours ELSE {ev.hour}

transcriptKey(i, ev, hour) ==
    [prefix |-> emits[i].options.prefix, hour |-> hour, request |-> SafePart[ev.request],
     type |-> ev.type, gzip |-> emits[i].options.gzip]

Prepare(i) ==
    /\ emits[i].pc = "event" /\ emits[i].at <= Len(emits[i].batch)
    /\ Wanted(i, Event(i))
    /\ \E hour \in FiledIn(Event(i)) :
          emits' = [emits EXCEPT ![i].pc = "put",
                                 ![i].key = transcriptKey(i, Event(i), hour)]
    /\ UNCHANGED <<objects, rows>> /\ Step(i)

(* An object replaces one with its key. *)
Where(i, key) == [endpoint |-> emits[i].client, bucket |-> emits[i].options.bucket,
                  key |-> key]

Transcript(i, ev, key) == [where |-> Where(i, key), event |-> ev, by |-> i]

Written(i) == {o \in objects : o.where # Where(i, emits[i].key)}
                 \union {Transcript(i, Event(i), emits[i].key)}

PutObject(i) ==
    /\ emits[i].pc = "put"
    /\ objects' = Written(i)
    /\ IF emits[i].pg = None THEN NextEvent(i) ELSE Goto(i, "index")
    /\ Step(i) /\ UNCHANGED rows

(* Mutant of PutFails: the row is written all the same. *)
PutIgnored(i) ==
    /\ emits[i].pc = "put"
    /\ objects' \in {objects, Written(i)}
    /\ IF emits[i].pg = None THEN NextEvent(i) ELSE Goto(i, "index")
    /\ Step(i) /\ UNCHANGED rows

(* The error of one event ends the batch; the object may be there or not. *)
PutFails(i) ==
    /\ emits[i].pc = "put"
    /\ objects' \in {objects, Written(i)}
    /\ Goto(i, "error")
    /\ Step(i) /\ UNCHANGED rows

(* The upsert: a row is known by its request and type. *)
RowId(i, ev) == [database |-> emits[i].pg, table |-> emits[i].options.table,
                 request |-> ev.request, type |-> ev.type]

Upserted(i) == {r \in rows : r.id # RowId(i, Event(i))}
                  \union {[id |-> RowId(i, Event(i)), bucket |-> emits[i].options.bucket,
                           key |-> emits[i].key, tenant |-> Event(i).tenant, by |-> i]}

Index(i) ==
    /\ emits[i].pc = "index"
    /\ rows' = Upserted(i)
    /\ NextEvent(i)
    /\ UNCHANGED objects /\ Step(i)

(* Mutant of IndexFails: an event that cannot be indexed is passed over. *)
IndexSkipped(i) ==
    /\ emits[i].pc = "index"
    /\ rows' \in {rows, Upserted(i)}
    /\ NextEvent(i)
    /\ UNCHANGED objects /\ Step(i)

IndexFails(i) ==
    /\ emits[i].pc = "index"
    /\ rows' \in {rows, Upserted(i)}
    /\ Goto(i, "error")
    /\ UNCHANGED objects /\ Step(i)

-----------------------------------------------------------------------------
Next == \/ \E c \in Configs : Configure(c)
        \/ \E i \in Emits :
              \/ \E batch \in Batches : Begin(i, batch)
              \/ Done(i) \/ Skip(i) \/ Prepare(i)
              \/ PutObject(i) \/ PutFails(i) \/ Index(i) \/ IndexFails(i)

Spec == Init /\ [][Next]_vars

-----------------------------------------------------------------------------
Settings == Configs \union {Unconfigured}
Clients == {c.endpoint : c \in Configs} \union {None}
Pools == {c.database : c \in Configs} \union {None}
Keys == [prefix : {c.prefix : c \in Settings}, hour : Hours \union {None},
         request : {SafePart[r] : r \in Requests} \union {None},
         type : Types \union {None}, gzip : BOOLEAN]
EmitStates == [pc : {"idle", "event", "put", "index", "ok", "error"},
               options : Settings, client : Clients, pg : Pools,
               batch : Batches \union {<<>>}, at : Nat \ {0}, key : Keys,
               asked : Settings]

(* Types of the variables.  There is no pool before there is a client, and   *)
(* no Emit is at an event that is not in its batch.                          *)
TypeOK ==
    /\ options \in Settings /\ asked \in Settings
    /\ client \in Clients
    /\ pg \in Pools
    /\ client = None => pg = None
    /\ configures \in 0..MaxConfigures
    /\ emits \in [Emits -> EmitStates]
    /\ \A i \in Emits :
          /\ emits[i].pc \in {"put", "index"} => emits[i].at \in DOMAIN emits[i].batch
          /\ emits[i].pc = "index" => emits[i].pg # None

(* Two requests are filed alike if their identifiers differ only in what     *)
(* safePart replaces.                                                        *)
Alone(request) == \A q \in Requests : SafePart[q] = SafePart[request] => q = request

(* A row never dangles: in the bucket it names there is, under its key, the  *)
(* transcript of an event of its type and of its request (or of one that is  *)
(* filed alike), whatever failed, raced or was reconfigured since            *)
(* (main.go:173-181).                                                        *)
RowsHaveObjects ==
    \A r \in rows : \E o \in objects :
        /\ o.where.bucket = r.bucket /\ o.where.key = r.key
        /\ o.event.type = r.id.type
        /\ SafePart[o.event.request] = SafePart[r.id.request]
        /\ Alone(r.id.request) => o.event.request = r.id.request

(* No tenant is stored or indexed by an Emit that began after Configure had  *)
(* been asked to bypass the tenant, even if that Configure then reported an  *)
(* error (main.go:87, :145).                                                 *)
BypassHonoured ==
    /\ \A o \in objects : o.event.tenant \notin emits[o.by].asked.bypass
    /\ \A r \in rows : r.tenant \notin emits[r.by].asked.bypass

(* An Emit that reports no error wrote the transcript of every event of its  *)
(* batch that it had to store: this transcript is still there, or one of the *)
(* same type, of the request or one filed alike, has replaced it under its   *)
(* key; with a database, the index has a row of the request and type         *)
(* (main.go:144-183).                                                        *)
OkMeansStored ==
    \A i \in Emits : emits[i].pc = "ok" /\ emits[i].client # None =>
        \A k \in DOMAIN emits[i].batch :
            LET ev == emits[i].batch[k]
            IN  Wanted(i, ev) =>
                  /\ \E hour \in FiledIn(ev), o \in objects :
                        LET t == Transcript(i, ev, transcriptKey(i, ev, hour))
                        IN  /\ o = t \/ t \in replaced
                            /\ o.where = t.where /\ o.event.type = ev.type
                            /\ SafePart[o.event.request] = SafePart[ev.request]
                  /\ emits[i].pg = None \/ \E r \in rows : r.id = RowId(i, ev)
=============================================================================
