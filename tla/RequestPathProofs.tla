------------------------------ MODULE RequestPathProofs ------------------------------
(*****************************************************************************)
(* What holds of RequestPath for any configurations, deployments, calls and  *)
(* number of requests: whose identity a request gets, where its event goes,  *)
(* whether its payload is printed, which prompt is put into it and how, and  *)
(* what its routes are.                                                      *)
(*                                                                           *)
(* The first is the hard one, for the table of keys is emptied and filled    *)
(* again beside the calls that read it.  It holds because the table is at    *)
(* any moment the beginning of the list that was configured last             *)
(* (KeysFollow), and ends there only while it is loaded or where an entry    *)
(* without a value stopped Configure.  AuthInv is the invariant for it, and  *)
(* ExportInv, PromptInv, RouteInv and PrintInv are those for the others.     *)
(*****************************************************************************)
EXTENDS RequestPath, Facts, WellFoundedInduction, TLAPS

Fields == {"phase", "call", "identity", "table", "prompt", "messages", "found", "rest", "mine",
           "routes", "shown", "copy", "basis", "before", "steady", "given", "under",
           "told"}

Shape == DOMAIN req = Requests /\ \A r \in Requests : DOMAIN req[r] = Fields

Entry == [id : STRING, value : STRING, tenant : STRING, subject : STRING]
Held == {WithDefaults(e, i) : e \in Entry, i \in Nat}

(* The table of keys is the beginning of the list it is filled from. *)
KeysFollow ==
    /\ keysGiven \in KeyConfigs \union {<<>>}
    /\ keysLeft \in Seq(Entry)
    /\ keys \in Seq(Held)
    /\ Len(keys) <= Len(keysGiven)
    /\ \A i \in DOMAIN keys : /\ keys[i] = WithDefaults(keysGiven[i], i - 1)
                              /\ keysGiven[i].value # Missing
    /\ keysLeft # <<>> =>
          /\ Len(keys) + Len(keysLeft) = Len(keysGiven)
          /\ \A n \in DOMAIN keysLeft : keysLeft[n] = keysGiven[Len(keys) + n]
    /\ keysLeft = <<>> =>
          Len(keys) = Len(keysGiven) \/ keysGiven[Len(keys) + 1].value = Missing
    /\ plugins.authn # "static" => keysGiven = <<>>

(* The part of IdentityIsOfToken that speaks of r. *)
Holders(r) ==
    {i \in DOMAIN req[r].basis :
        /\ req[r].basis[i].value = Token(req[r].call)
        /\ \A j \in 1..(i - 1) : req[r].basis[j].value \notin {Token(req[r].call), Missing}}

FromKeys(r) ==
    \E i \in Holders(r) :
        /\ req[r].basis[i].tenant \in {Missing, req[r].identity.tenant}
        /\ req[r].basis[i].subject \in {Missing, req[r].identity.subject}

FromRows(r) ==
    \E row \in Rows \ req[r].before :
        /\ row.value = Token(req[r].call)
        /\ req[r].identity = [tenant |-> row.tenant, subject |-> row.subject]

RightlyDenied(r) == req[r].steady /\ Token(req[r].call) # Missing => Holders(r) = {}

IdentityOK(r) ==
    /\ Answers(r) /\ plugins.authn = "static" => FromKeys(r)
    /\ Answers(r) /\ plugins.authn = "postgres" => FromRows(r)
    /\ req[r].phase = "denied" => RightlyDenied(r)

AuthInv ==
    /\ Shape
    /\ plugins \in Deployments
    /\ KeysFollow
    /\ \A r \in Requests : req[r].before \subseteq revoked
    /\ \A r \in Requests : IdentityOK(r)

-----------------------------------------------------------------------------
(* What a step makes known of r is all that changes. *)
LEMMA Known ==
    ASSUME Shape, NEW r \in Requests, NEW known, DOMAIN known \subseteq Fields,
           Becomes(r, known)
    PROVE  /\ Shape'
           /\ \A q \in Requests \ {r} : req'[q] = req[q]
           /\ \A f \in DOMAIN known : req'[r][f] = known[f]
           /\ \A f \in Fields \ DOMAIN known : req'[r][f] = req[r][f]
<1> DEFINE new == Updated(req[r], known)
<1>1. /\ DOMAIN new = Fields
      /\ \A f \in DOMAIN known : new[f] = known[f]
      /\ \A f \in Fields \ DOMAIN known : new[f] = req[r][f]
    BY DEF Shape, Updated
<1>2. req' = [req EXCEPT ![r] = new]
    BY DEF Becomes
<1> HIDE DEF new
<1> QED
    BY <1>1, <1>2 DEF Shape

(* A set of indices has a least one, and Min is it. *)
LEMMA MinIsLeast ==
    ASSUME NEW S, S \subseteq Nat, S # {}
    PROVE  Min(S) \in S /\ \A i \in S : Min(S) <= i
<1>1. PICK x \in S : \A y \in S : ~(<<y, x>> \in OpToRel(<, Nat))
    BY NatLessThanWellFounded, WFMin
<1>2. \A y \in S : ~(y < x)
    BY <1>1 DEF OpToRel
<1>3. \A y \in S : x <= y
    BY <1>2
<1> QED
    BY <1>3 DEF Min

(* Whoever has a key has a name. *)
LEMMA HoldersAreNamed ==
    ASSUME KeysFollow, NEW i \in DOMAIN keys
    PROVE  /\ keys[i].tenant # Missing /\ keys[i].value = keysGiven[i].value
           /\ keysGiven[i].tenant \in {Missing, keys[i].tenant}
           /\ keysGiven[i].subject \in {Missing, keys[i].subject}
<1>1. /\ keysGiven \in KeyConfigs \union {<<>>} /\ keys \in Seq(Held)
      /\ Len(keys) <= Len(keysGiven) /\ keys[i] = WithDefaults(keysGiven[i], i - 1)
    BY DEF KeysFollow
<1>2. keysGiven \in Seq(Entry)
    BY <1>1, KeyConfigsAssumption DEF Entry
<1>3. i \in DOMAIN keysGiven
    BY <1>1, <1>2
<1>4. "key-" \o ToString(i - 1) # Missing
    <2>1. keysGiven # <<>>
        BY ONLY <1>3
    <2>2. keysGiven \in KeyConfigs
        BY ONLY <1>1, <2>1, Zenon
    <2>3. \A c \in KeyConfigs : \A j \in DOMAIN c : "key-" \o ToString(j - 1) # Missing
        BY ONLY KeyConfigsAssumption, Zenon
    <2> QED
        BY ONLY <1>3, <2>2, <2>3, Zenon
<1> QED
    BY <1>1, <1>4 DEF WithDefaults

(* Whom Authenticate of the static plugin names, with the table as it is. *)
LEMMA KeyHolderIsRight ==
    ASSUME KeysFollow, NEW token
    PROVE  LET identity == KeyHolder(token)
               holders == {i \in DOMAIN keysGiven :
                              /\ keysGiven[i].value = token
                              /\ \A j \in 1..(i - 1) : keysGiven[j].value \notin {token, Missing}}
           IN  /\ identity # Denied =>
                     \E i \in holders : /\ keysGiven[i].tenant \in {Missing, identity.tenant}
                                        /\ keysGiven[i].subject \in {Missing, identity.subject}
               /\ identity = Denied /\ ~KeysAreLoading /\ token # Missing => holders = {}
<1> DEFINE identity == KeyHolder(token)
           hits == {i \in DOMAIN keys : keys[i].value = token}
           holders == {i \in DOMAIN keysGiven :
                          /\ keysGiven[i].value = token
                          /\ \A j \in 1..(i - 1) : keysGiven[j].value \notin {token, Missing}}
<1>1. /\ keysGiven \in Seq(Entry) /\ keys \in Seq(Held) /\ Len(keys) <= Len(keysGiven)
      /\ \A i \in DOMAIN keys : keysGiven[i].value # Missing
    BY KeyConfigsAssumption DEF KeysFollow, Entry
<1>2. hits \subseteq Nat
    BY <1>1
<1>3. ASSUME token # Missing, hits # {}
      PROVE  /\ identity # Denied
             /\ \E i \in holders : /\ keysGiven[i].tenant \in {Missing, identity.tenant}
                                   /\ keysGiven[i].subject \in {Missing, identity.subject}
    <2> DEFINE m == Min(hits)
    <2>1. m \in hits /\ \A i \in hits : m <= i
        BY <1>2, <1>3, MinIsLeast
    <2>2. identity = [tenant |-> keys[m].tenant, subject |-> keys[m].subject]
        BY <1>3 DEF KeyHolder
    <2> HIDE DEF m, identity
    <2>3. m \in DOMAIN keys /\ keys[m].value = token
        BY <2>1
    <2>4. /\ keys[m].tenant # Missing /\ keysGiven[m].value = token
          /\ keysGiven[m].tenant \in {Missing, keys[m].tenant}
          /\ keysGiven[m].subject \in {Missing, keys[m].subject}
        BY <2>3, HoldersAreNamed
    <2>5. ASSUME NEW j \in 1..(m - 1)
          PROVE  keysGiven[j].value \notin {token, Missing}
        <3>1. j \in DOMAIN keys /\ j < m
            BY <1>1, <2>3
        <3>2. keys[j].value # token
            <4>1. j \notin hits
                <5>1. j \in hits => m <= j
                    BY <2>1
                <5>2. m \in Nat /\ j \in Nat
                    BY <1>1, <2>3, <3>1
                <5> QED
                    BY <3>1, <5>1, <5>2
            <4> QED
                BY <3>1, <4>1
        <3>3. keysGiven[j].value = keys[j].value
            BY <3>1, HoldersAreNamed
        <3> QED
            BY <1>1, <3>1, <3>2, <3>3
    <2>6. m \in holders
        BY <1>1, <2>3, <2>4, <2>5
    <2> QED
        BY <2>2, <2>4, <2>6 DEF Denied
<1>4. token = Missing \/ hits = {} => identity = Denied
    BY DEF KeyHolder
<1>5. ASSUME identity = Denied, ~KeysAreLoading, token # Missing, NEW i \in holders
      PROVE  FALSE
    <2>1. hits = {}
        BY <1>3, <1>5
    <2>2. Len(keys) = Len(keysGiven) \/ keysGiven[Len(keys) + 1].value = Missing
        BY <1>5 DEF KeysFollow, KeysAreLoading
    <2>3. i \in Nat /\ 1 <= i /\ i <= Len(keysGiven) /\ keysGiven[i].value = token
        BY <1>1
    <2>4. CASE i \in DOMAIN keys
        <3>1. keys[i].value = token
            BY <2>3, <2>4, HoldersAreNamed
        <3> QED
            BY <2>1, <2>4, <3>1
    <2>5. CASE i \notin DOMAIN keys
        <3>1. Len(keys) < i
            BY <1>1, <2>3, <2>5
        <3>2. keysGiven[Len(keys) + 1].value = Missing
            BY <1>1, <2>2, <2>3, <3>1
        <3>3. Len(keys) + 1 \in 1..(i - 1) \/ Len(keys) + 1 = i
            BY <1>1, <2>3, <3>1
        <3> QED
            BY <1>5, <2>3, <3>2, <3>3
    <2> QED
        BY <2>4, <2>5
<1> QED
    BY <1>3, <1>4, <1>5

-----------------------------------------------------------------------------
(* The table follows its list through every step of Configure.               *)
LEMMA KeysFollowConfigure ==
    ASSUME KeysFollow, UNCHANGED plugins, plugins.authn = "static",
           NEW c \in KeyConfigs, EmptyKeys(c)
    PROVE  KeysFollow'
<1>1. keys' = <<>> /\ keysLeft' = c /\ keysGiven' = c
    BY DEF EmptyKeys
<1>2. c \in Seq(Entry)
    BY KeyConfigsAssumption DEF Entry
<1>3. c = <<>> => Len(c) = 0
    OBVIOUS
<1>4. <<>> \in Seq(Held) /\ Len(<<>>) = 0 /\ DOMAIN <<>> = {} /\ Len(c) \in Nat
    BY <1>2
<1>5. \A n \in DOMAIN c : c[n] = c[0 + n]
    BY <1>2
<1> QED
    BY <1>1, <1>2, <1>3, <1>4, <1>5 DEF KeysFollow

LEMMA KeysFollowLoading ==
    ASSUME KeysFollow, UNCHANGED plugins, plugins.authn = "static", AppendKey
    PROVE  KeysFollow'
<1>1. /\ keysGiven \in KeyConfigs \union {<<>>} /\ keysLeft \in Seq(Entry) /\ keys \in Seq(Held)
      /\ Len(keys) + Len(keysLeft) = Len(keysGiven) /\ keysLeft # <<>>
      /\ \A n \in DOMAIN keysLeft : keysLeft[n] = keysGiven[Len(keys) + n]
      /\ keysGiven' = keysGiven
    BY DEF KeysFollow, AppendKey, KeysAreLoading
<1>2. keysGiven \in Seq(Entry)
    BY <1>1, KeyConfigsAssumption DEF Entry
<1> DEFINE e == Head(keysLeft)
           n == Len(keys)
<1>3. /\ e \in Entry /\ e = keysGiven[n + 1] /\ n \in Nat /\ n + 1 <= Len(keysGiven)
      /\ Len(keysLeft) \in Nat /\ Len(keysLeft) > 0
    BY <1>1, <1>2
<1>4. CASE e.value = Missing
    <2>1. keysLeft' = <<>> /\ keys' = keys
        BY <1>4 DEF AppendKey
    <2>2. <<>> \in Seq(Entry)
        OBVIOUS
    <2> HIDE DEF e, n
    <2>3. keysGiven[n + 1].value = Missing
        BY <1>3, <1>4
    <2> QED
        BY <1>1, <2>1, <2>2, <2>3 DEF KeysFollow, n
<1>5. CASE e.value # Missing
    <2> DEFINE k == WithDefaults(e, n)
    <2>1. keys' = Append(keys, k) /\ keysLeft' = Tail(keysLeft)
        BY <1>5 DEF AppendKey
    <2>2. k \in Held
        BY <1>3 DEF Held
    <2> HIDE DEF k, e, n
    <2>3. /\ keys' \in Seq(Held) /\ Len(keys') = n + 1
          /\ keys'[n + 1] = k /\ \A i \in DOMAIN keys : keys'[i] = keys[i]
          /\ DOMAIN keys' = DOMAIN keys \union {n + 1}
        BY <1>1, <2>1, <2>2 DEF n
    <2>4. /\ keysLeft' \in Seq(Entry) /\ Len(keysLeft') = Len(keysLeft) - 1
          /\ \A i \in DOMAIN keysLeft' : keysLeft'[i] = keysLeft[i + 1] /\ i + 1 \in DOMAIN keysLeft
        BY <1>1, <2>1
    <2>5. \A i \in DOMAIN keysLeft' : keysLeft'[i] = keysGiven[Len(keys') + i]
        <3> TAKE i \in DOMAIN keysLeft'
        <3>1. keysLeft'[i] = keysGiven[n + (i + 1)] /\ i \in Nat
            BY <1>1, <2>4 DEF n
        <3>2. n + (i + 1) = (n + 1) + i
            BY <1>3, <3>1
        <3> QED
            BY <2>3, <3>1, <3>2
    <2>6. Len(keys') + Len(keysLeft') = Len(keysGiven)
        <3>1. Len(keys') = Len(keys) + 1 /\ Len(keys) \in Nat /\ Len(keysLeft) \in Nat
            BY <1>3, <2>3 DEF n
        <3>2. Len(keys) + Len(keysLeft) = Len(keysGiven)
            BY <1>1
        <3>3. Len(keysLeft') = Len(keysLeft) - 1
            BY <2>4
        <3> QED
            BY <3>1, <3>2, <3>3
    <2>7. keysLeft' = <<>> => Len(keysLeft') = 0
        OBVIOUS
    <2>8. Len(keys') <= Len(keysGiven) /\ (keysLeft' = <<>> => Len(keys') = Len(keysGiven))
        BY <1>3, <2>3, <2>6, <2>7
    <2>9. k = WithDefaults(keysGiven[n + 1], (n + 1) - 1) /\ keysGiven[n + 1].value # Missing
        <3>1. (n + 1) - 1 = n
            BY <1>3
        <3> QED
            BY <1>3, <1>5, <3>1 DEF k
    <2>10. \A i \in DOMAIN keys' : /\ keys'[i] = WithDefaults(keysGiven[i], i - 1)
                                   /\ keysGiven[i].value # Missing
        BY <2>3, <2>9 DEF KeysFollow
    <2> QED
        BY <1>1, <2>3, <2>4, <2>5, <2>6, <2>8, <2>10 DEF KeysFollow
<1> QED
    BY <1>4, <1>5

LEMMA KeysFollowInit == Init => KeysFollow /\ plugins \in Deployments
<1> SUFFICES ASSUME Init PROVE KeysFollow
    BY DEF Init
<1>1. CASE plugins.authn = "static"
    <2>1. /\ keysGiven \in KeyConfigs /\ \A i \in DOMAIN keysGiven : keysGiven[i].value # Missing
          /\ keys = [i \in DOMAIN keysGiven |-> WithDefaults(keysGiven[i], i - 1)]
          /\ keysLeft = <<>>
        BY <1>1 DEF Init, AuthnInit
    <2>2. keysGiven \in Seq(Entry)
        BY <2>1, KeyConfigsAssumption DEF Entry
    <2>3. \A i \in DOMAIN keysGiven : WithDefaults(keysGiven[i], i - 1) \in Held
        BY <2>2 DEF Held
    <2>4. keys \in Seq(Held) /\ Len(keys) = Len(keysGiven) /\ DOMAIN keys = DOMAIN keysGiven
        BY <2>1, <2>2, <2>3
    <2>5. keysLeft \in Seq(Entry) /\ Len(keysGiven) \in Nat
        BY <2>1, <2>2
    <2> QED
        BY <1>1, <2>1, <2>4, <2>5 DEF KeysFollow
<1>2. CASE plugins.authn # "static"
    <2>1. keysGiven = <<>> /\ keys = [i \in DOMAIN keysGiven |-> WithDefaults(keysGiven[i], i - 1)]
          /\ keysLeft = <<>>
        BY <1>2 DEF Init, AuthnInit
    <2>2. keys = <<>>
        BY <2>1
    <2>3. <<>> \in Seq(Held) /\ <<>> \in Seq(Entry) /\ Len(<<>>) = 0 /\ DOMAIN <<>> = {}
        OBVIOUS
    <2> QED
        BY <2>1, <2>2, <2>3 DEF KeysFollow
<1> QED
    BY <1>1, <1>2

-----------------------------------------------------------------------------
(* What is said of r's identity stays true while r's own record, or the part *)
(* of it that matters, does not change.                                      *)
LEMMA Others ==
    ASSUME NEW r \in Requests, NEW q \in Requests, req'[q] = req[q], UNCHANGED plugins,
           IdentityOK(q)
    PROVE  IdentityOK(q)'
BY DEF IdentityOK, Answers, FromKeys, FromRows, RightlyDenied, Holders

LEMMA Later ==
    ASSUME Shape, NEW r \in Requests, IdentityOK(r), UNCHANGED plugins,
           \A f \in {"call", "identity", "basis", "before"} : req'[r][f] = req[r][f],
           Answers(r), req'[r].phase # "denied"
    PROVE  IdentityOK(r)'
<1>1. /\ req'[r].call = req[r].call /\ req'[r].identity = req[r].identity
      /\ req'[r].basis = req[r].basis /\ req'[r].before = req[r].before
    OBVIOUS
<1> QED
    BY <1>1 DEF IdentityOK, FromKeys, FromRows, Holders

(* A step of r that makes nothing known but an answer already given leaves   *)
(* the invariant alone.                                                      *)
LEMMA StepKeeps ==
    ASSUME AuthInv, NEW r \in Requests, NEW known, DOMAIN known \subseteq Fields,
           Becomes(r, known), UNCHANGED componentVars,
           (req[r].before \subseteq revoked => req'[r].before \subseteq revoked),
           IdentityOK(r)'
    PROVE  AuthInv'
<1>1. Shape' /\ \A q \in Requests \ {r} : req'[q] = req[q]
    BY Known DEF AuthInv
<1>2. UNCHANGED <<plugins, keys, keysLeft, keysGiven, revoked>>
    BY DEF componentVars, authnVars, staticVars, postgresVars
<1>3. KeysFollow'
    BY <1>2 DEF AuthInv, KeysFollow
<1>4. \A q \in Requests : req'[q].before \subseteq revoked'
    BY <1>1, <1>2 DEF AuthInv
<1>5. \A q \in Requests : IdentityOK(q)'
    BY <1>1, <1>2, Others DEF AuthInv
<1> QED
    BY <1>1, <1>2, <1>3, <1>4, <1>5 DEF AuthInv

(* Steps after the identity is known, and those that end without one.        *)
LEMMA LaterStepKeeps ==
    ASSUME AuthInv, NEW r \in Requests, NEW known, Becomes(r, known), UNCHANGED componentVars,
           DOMAIN known \subseteq Fields \ {"call", "identity", "basis", "before"},
           "phase" \in DOMAIN known, known["phase"] # "denied",
           Answers(r) \/ known["phase"] \in {"failed", "lookup", "authn"}
    PROVE  AuthInv'
<1>1. DOMAIN known \subseteq Fields
    OBVIOUS
<1>2. /\ \A f \in DOMAIN known : req'[r][f] = known[f]
      /\ \A f \in Fields \ DOMAIN known : req'[r][f] = req[r][f]
    BY <1>1, Known DEF AuthInv
<1>3. \A f \in {"call", "identity", "basis", "before"} : req'[r][f] = req[r][f]
    BY <1>2 DEF Fields
<1>4. req'[r].phase = known["phase"] /\ req'[r].before = req[r].before
    BY <1>2, <1>3
<1>5. IdentityOK(r)'
    <2>1. CASE Answers(r)
        <3>1. UNCHANGED plugins
            BY DEF componentVars
        <3> QED
            BY <1>3, <1>4, <2>1, <3>1, Later DEF AuthInv
    <2>2. CASE known["phase"] \in {"failed", "lookup", "authn"}
        BY <1>4, <2>2 DEF IdentityOK, Answers
    <2> QED
        BY <2>1, <2>2
<1> QED
    BY <1>1, <1>4, <1>5, StepKeeps

(* The answer of an authenticator.                                           *)
LEMMA AnsweredKeeps ==
    ASSUME AuthInv, NEW r \in Requests, NEW identity, Answered(r, identity),
           LET token == Token(req[r].call)
               holders == {i \in DOMAIN keysGiven :
                              /\ keysGiven[i].value = token
                              /\ \A j \in 1..(i - 1) : keysGiven[j].value \notin {token, Missing}}
           IN  /\ identity # Denied /\ plugins.authn = "static" =>
                     \E i \in holders : /\ keysGiven[i].tenant \in {Missing, identity.tenant}
                                        /\ keysGiven[i].subject \in {Missing, identity.subject}
               /\ identity # Denied /\ plugins.authn = "postgres" =>
                     \E row \in Rows \ revoked :
                        /\ row.value = token
                        /\ identity = [tenant |-> row.tenant, subject |-> row.subject]
               /\ identity = Denied /\ ~KeysAreLoading /\ token # Missing => holders = {}
    PROVE  AuthInv'
<1> DEFINE known == [phase |-> IF identity = Denied THEN "denied" ELSE "prompt",
                     identity |-> identity, basis |-> keysGiven, steady |-> ~KeysAreLoading]
<1>1. Becomes(r, known) /\ UNCHANGED componentVars
    BY DEF Answered, Only
<1>2. /\ DOMAIN known = {"phase", "identity", "basis", "steady"}
      /\ known["phase"] = IF identity = Denied THEN "denied" ELSE "prompt"
      /\ known["identity"] = identity /\ known["basis"] = keysGiven
      /\ known["steady"] = ~KeysAreLoading
    OBVIOUS
<1> HIDE DEF known
<1>3. DOMAIN known \subseteq Fields
    BY <1>2 DEF Fields
<1>4. /\ \A f \in DOMAIN known : req'[r][f] = known[f]
      /\ \A f \in Fields \ DOMAIN known : req'[r][f] = req[r][f]
    BY <1>1, <1>3, Known DEF AuthInv
<1>5. /\ req'[r].phase = IF identity = Denied THEN "denied" ELSE "prompt"
      /\ req'[r].identity = identity /\ req'[r].basis = keysGiven
      /\ req'[r].steady = ~KeysAreLoading
      /\ req'[r].call = req[r].call /\ req'[r].before = req[r].before
    BY <1>2, <1>4 DEF Fields
<1>6. plugins' = plugins /\ req[r].before \subseteq revoked
    BY <1>1 DEF componentVars, AuthInv
<1> DEFINE token == Token(req[r].call)
           holders == {i \in DOMAIN keysGiven :
                          /\ keysGiven[i].value = token
                          /\ \A j \in 1..(i - 1) : keysGiven[j].value \notin {token, Missing}}
<1>7. Token(req[r].call)' = token
    BY <1>5 DEF Token
<1>8. Holders(r)' = holders
    BY <1>5, <1>7 DEF Holders
<1>9. identity # Denied /\ plugins.authn = "static" => FromKeys(r)'
    BY <1>5, <1>8 DEF FromKeys
<1>10. identity # Denied /\ plugins.authn = "postgres" => FromRows(r)'
    BY <1>5, <1>6, <1>7 DEF FromRows
<1>11. identity = Denied => RightlyDenied(r)'
    BY <1>5, <1>7, <1>8 DEF RightlyDenied
<1>12. IdentityOK(r)'
    BY <1>5, <1>6, <1>9, <1>10, <1>11 DEF IdentityOK, Answers
<1> QED
    BY <1>1, <1>3, <1>5, <1>12, StepKeeps

-----------------------------------------------------------------------------
LEMMA InUseMeans ==
    ASSUME plugins \in Deployments
    PROVE  /\ InUse("static") => plugins.authn = "static"
           /\ InUse("postgres") => plugins.authn = "postgres"
<1>1. plugins \in [authn : {"static", "postgres"}, prompt : {"registry", "injector"},
                   router : {"weighted", "consul"}]
    BY DeploymentsAssumption
<1> QED
    BY <1>1 DEF InUse

LEMMA AuthInvArrive == ASSUME AuthInv, NEW r \in Requests, Arrive(r) PROVE AuthInv'
<1>1. PICK call \in Calls : Only(r, [phase |-> "authn", call |-> call, before |-> revoked])
    BY DEF Arrive
<1> DEFINE known == [phase |-> "authn", call |-> call, before |-> revoked]
<1>2. Becomes(r, known) /\ UNCHANGED componentVars
    BY <1>1 DEF Only
<1>3. /\ DOMAIN known = {"phase", "call", "before"}
      /\ known["phase"] = "authn" /\ known["before"] = revoked
    OBVIOUS
<1> HIDE DEF known
<1>4. DOMAIN known \subseteq Fields
    BY <1>3 DEF Fields
<1>5. \A f \in DOMAIN known : req'[r][f] = known[f]
    BY <1>2, <1>4, Known DEF AuthInv
<1>6. req'[r].phase = "authn" /\ req'[r].before = revoked
    BY <1>3, <1>5
<1>7. IdentityOK(r)'
    BY <1>6 DEF IdentityOK, Answers
<1> QED
    BY <1>2, <1>4, <1>6, <1>7, StepKeeps

LEMMA AuthInvStatic == ASSUME AuthInv, NEW r \in Requests, AuthenticateStatic(r) PROVE AuthInv'
<1> DEFINE identity == KeyHolder(Token(req[r].call))
<1>1. Answered(r, identity) /\ plugins.authn = "static"
    BY InUseMeans DEF AuthenticateStatic, At, AuthInv
<1>2. KeysFollow
    BY DEF AuthInv
<1> DEFINE token == Token(req[r].call)
           holders == {i \in DOMAIN keysGiven :
                          /\ keysGiven[i].value = token
                          /\ \A j \in 1..(i - 1) : keysGiven[j].value \notin {token, Missing}}
<1>3. /\ identity # Denied =>
            \E i \in holders : /\ keysGiven[i].tenant \in {Missing, identity.tenant}
                               /\ keysGiven[i].subject \in {Missing, identity.subject}
      /\ identity = Denied /\ ~KeysAreLoading /\ token # Missing => holders = {}
    BY <1>2, KeyHolderIsRight
<1> HIDE DEF identity
<1> QED
    BY <1>1, <1>3, AnsweredKeeps

LEMMA AuthInvPostgres ==
    ASSUME AuthInv, NEW r \in Requests, AuthenticatePostgres(r) \/ Lookup(r)
    PROVE  AuthInv'
<1>1. plugins.authn = "postgres" /\ keysGiven = <<>>
    BY InUseMeans DEF AuthenticatePostgres, Lookup, At, AuthInv, KeysFollow
<1> DEFINE token == Token(req[r].call)
           holders == {i \in DOMAIN keysGiven :
                          /\ keysGiven[i].value = token
                          /\ \A j \in 1..(i - 1) : keysGiven[j].value \notin {token, Missing}}
<1>2. holders = {}
    BY <1>1
<1>3. ASSUME Answered(r, Denied) PROVE AuthInv'
    BY <1>1, <1>2, <1>3, AnsweredKeeps
<1>4. ASSUME NEW row \in RowsOf(Token(req[r].call), req[r].table),
             Answered(r, [tenant |-> row.tenant, subject |-> row.subject])
      PROVE  AuthInv'
    <2> DEFINE identity == [tenant |-> row.tenant, subject |-> row.subject]
    <2>1. row \in Rows \ revoked /\ row.value = token
        BY DEF RowsOf
    <2>2. \E s \in Rows \ revoked :
              s.value = token /\ identity = [tenant |-> s.tenant, subject |-> s.subject]
        BY <2>1
    <2>3. Answered(r, identity)
        BY <1>4
    <2> HIDE DEF identity
    <2> QED
        BY <1>1, <1>2, <2>2, <2>3, AnsweredKeeps
<1>5. CASE Only(r, [phase |-> "lookup", table |-> table])
    <2> DEFINE known == [phase |-> "lookup", table |-> table]
    <2>1. Becomes(r, known) /\ UNCHANGED componentVars
        BY <1>5 DEF Only
    <2>2. DOMAIN known = {"phase", "table"} /\ known["phase"] = "lookup"
        OBVIOUS
    <2> HIDE DEF known
    <2>3. DOMAIN known \subseteq Fields \ {"call", "identity", "basis", "before"}
        BY <2>2 DEF Fields
    <2> QED
        BY <2>1, <2>2, <2>3, LaterStepKeeps
<1> QED
    BY <1>3, <1>4, <1>5 DEF AuthenticatePostgres, Lookup

(* All that follows the answer of the authenticator, and all failures.       *)
LaterSteps(r) ==
    \/ AuthenticateTorn(r) \/ LookupFails(r) \/ ResolvePrompt(r) \/ ResolveTorn(r)
    \/ RouteWeighted(r) \/ Discover(r) \/ DiscoverFails(r) \/ Inspect(r) \/ RouteConsul(r)
    \/ ReadInclude(r) \/ PrintEvent(r) \/ CopySettings(r) \/ PostLogs(r) \/ PostFails(r)
    \/ StartSpan(r) \/ AddCount(r)

LEMMA AuthInvLater == ASSUME AuthInv, NEW r \in Requests, LaterSteps(r) PROVE AuthInv'
<1> DEFINE Settled == Fields \ {"call", "identity", "basis", "before"}
<1>1. ASSUME NEW known, Becomes(r, known), UNCHANGED componentVars,
             DOMAIN known \subseteq {"phase", "prompt", "messages", "steady", "given", "routes",
                                     "found", "rest", "mine", "under", "shown", "told", "copy"},
             "phase" \in DOMAIN known, known["phase"] # "denied",
             Answers(r) \/ known["phase"] = "failed"
      PROVE  AuthInv'
    <2>1. DOMAIN known \subseteq Settled
        BY <1>1 DEF Fields
    <2> QED
        BY <1>1, <2>1, LaterStepKeeps
<1>2. ASSUME NEW phase, phase # "denied", Becomes(r, [phase |-> phase]),
             UNCHANGED componentVars, Answers(r) \/ phase = "failed"
      PROVE  AuthInv'
    <2> DEFINE known == [phase |-> phase]
    <2>1. DOMAIN known = {"phase"} /\ known["phase"] = phase
        OBVIOUS
    <2>2. Becomes(r, known)
        BY <1>2
    <2> HIDE DEF known
    <2> QED
        BY <1>1, <1>2, <2>1, <2>2
<1>3. CASE AuthenticateTorn(r) \/ LookupFails(r) \/ ResolveTorn(r) \/ DiscoverFails(r)
    <2>1. Becomes(r, [phase |-> "failed"]) /\ UNCHANGED componentVars
        BY <1>3 DEF AuthenticateTorn, LookupFails, ResolveTorn, DiscoverFails, Panics, Only
    <2> QED
        BY <1>2, <2>1
<1>4. CASE PostFails(r)
    <2>1. Becomes(r, [phase |-> "unexported"]) /\ UNCHANGED componentVars /\ Answers(r)
        BY <1>4 DEF PostFails, Only, Answers
    <2> QED
        BY <1>2, <2>1
<1>5. CASE PostLogs(r) \/ AddCount(r)
    <2>1. Becomes(r, [phase |-> "done"]) /\ UNCHANGED componentVars /\ Answers(r)
        BY <1>5 DEF PostLogs, AddCount, Sends, Answers
    <2> QED
        BY <1>2, <2>1
<1>6. CASE StartSpan(r)
    <2>1. Becomes(r, [phase |-> "count"]) /\ UNCHANGED componentVars /\ Answers(r)
        BY <1>6 DEF StartSpan, Sends, Answers
    <2> QED
        BY <1>2, <2>1
<1>7. CASE PrintEvent(r)
    <2>1. Becomes(r, [phase |-> "copy"]) /\ UNCHANGED componentVars /\ Answers(r)
        BY <1>7 DEF PrintEvent, Answers
    <2> QED
        BY <1>2, <2>1
<1>8. CASE ResolvePrompt(r)
    <2> DEFINE p == Select(plugins.prompt, req[r].call, req[r].identity)
               known == [phase |-> "route", prompt |-> p,
                         messages |-> Resolved(plugins.prompt, p, req[r].call),
                         steady |-> ~PromptsAreLoading, given |-> promptsGiven]
    <2>1. Becomes(r, known) /\ UNCHANGED componentVars /\ Answers(r)
        BY <1>8 DEF ResolvePrompt, At, Only, Answers
    <2>2. DOMAIN known = {"phase", "prompt", "messages", "steady", "given"}
          /\ known["phase"] = "route"
        OBVIOUS
    <2> HIDE DEF known
    <2> QED
        BY <1>1, <2>1, <2>2
<1>9. CASE RouteWeighted(r) \/ RouteConsul(r)
    <2>1. PICK routes : Only(r, [phase |-> "emit", routes |-> routes]) /\ Answers(r)
        BY <1>9 DEF RouteWeighted, RouteConsul, At, Answers
    <2> DEFINE known == [phase |-> "emit", routes |-> routes]
    <2>2. Becomes(r, known) /\ UNCHANGED componentVars
        BY <2>1 DEF Only
    <2>3. DOMAIN known = {"phase", "routes"} /\ known["phase"] = "emit"
        OBVIOUS
    <2> HIDE DEF known
    <2> QED
        BY <1>1, <2>1, <2>2, <2>3
<1>10. CASE Discover(r)
    <2> DEFINE known == [phase |-> "choose", found |-> Discovered, rest |-> Discovered,
                         mine |-> {}, under |-> {}]
    <2>1. Becomes(r, known) /\ UNCHANGED componentVars /\ Answers(r)
        BY <1>10 DEF Discover, At, Only, Answers
    <2>2. /\ DOMAIN known = {"phase", "found", "rest", "mine", "under"}
          /\ known["phase"] = "choose"
        OBVIOUS
    <2> HIDE DEF known
    <2> QED
        BY <1>1, <2>1, <2>2
<1>11. CASE CopySettings(r)
    <2> DEFINE known == [phase |-> "export", copy |-> OtelCopy]
    <2>1. Becomes(r, known) /\ UNCHANGED componentVars /\ Answers(r)
        BY <1>11 DEF CopySettings, Only, Answers
    <2>2. DOMAIN known = {"phase", "copy"} /\ known["phase"] = "export"
        OBVIOUS
    <2> HIDE DEF known
    <2> QED
        BY <1>1, <2>1, <2>2
<1>12. CASE Inspect(r)
    <2>1. PICK rest, mine, under : Only(r, [rest |-> rest, mine |-> mine, under |-> under])
        BY <1>12 DEF Inspect
    <2> DEFINE known == [rest |-> rest, mine |-> mine, under |-> under]
    <2>2. Becomes(r, known) /\ UNCHANGED componentVars /\ req[r].phase = "choose"
        BY <1>12, <2>1 DEF Only, Inspect, At
    <2>3. DOMAIN known = {"rest", "mine", "under"}
        OBVIOUS
    <2> HIDE DEF known
    <2>4. DOMAIN known \subseteq Fields
        BY <2>3 DEF Fields
    <2>5. \A f \in Fields \ DOMAIN known : req'[r][f] = req[r][f]
        BY <2>2, <2>4, Known DEF AuthInv
    <2>6. /\ \A f \in {"call", "identity", "basis", "before"} : req'[r][f] = req[r][f]
          /\ req'[r].phase = "choose" /\ req'[r].before = req[r].before
        BY <2>2, <2>3, <2>5 DEF Fields
    <2>7. IdentityOK(r)'
        BY <2>2, <2>6, Later DEF AuthInv, Answers, componentVars
    <2> QED
        BY <2>2, <2>4, <2>6, <2>7, StepKeeps
<1>13. CASE ReadInclude(r)
    <2>1. PICK shown, told :
             Only(r, [phase |-> "print", shown |-> shown, told |-> told]) /\ Answers(r)
        BY <1>13 DEF ReadInclude, Answers
    <2> DEFINE known == [phase |-> "print", shown |-> shown, told |-> told]
    <2>2. Becomes(r, known) /\ UNCHANGED componentVars
        BY <2>1 DEF Only
    <2>3. DOMAIN known = {"phase", "shown", "told"} /\ known["phase"] = "print"
        OBVIOUS
    <2> HIDE DEF known
    <2> QED
        BY <1>1, <2>1, <2>2, <2>3
<1> QED
    BY <1>3, <1>4, <1>5, <1>6, <1>7, <1>8, <1>9, <1>10, <1>11, <1>12, <1>13 DEF LaterSteps

-----------------------------------------------------------------------------
(* What is not a step of a request leaves the requests alone, and keys can   *)
(* only be revoked.                                                          *)
LEMMA Beside ==
    ASSUME AuthInv, UNCHANGED <<plugins, req>>, KeysFollow', revoked \subseteq revoked'
    PROVE  AuthInv'
<1>1. \A q \in Requests : IdentityOK(q)'
    BY Others DEF AuthInv
<1>2. \A q \in Requests : req'[q].before \subseteq revoked'
    BY DEF AuthInv
<1> QED
    BY <1>1, <1>2 DEF AuthInv, Shape

LEMMA KeysAlone ==
    ASSUME KeysFollow, UNCHANGED <<plugins, staticVars>>
    PROVE  KeysFollow'
BY DEF KeysFollow, staticVars

LEMMA AuthInvBeside ==
    ASSUME AuthInv, Configure \/ ContinueConfigure \/ Environment \/ UNCHANGED vars
    PROVE  AuthInv'
<1>1. KeysFollow /\ plugins \in Deployments
    BY DEF AuthInv
<1>2. UNCHANGED <<plugins, req>>
    BY DEF Configure, ContinueConfigure, Environment, vars, pathVars
<1>3. CASE UNCHANGED <<staticVars, revoked>>
    BY <1>1, <1>2, <1>3, KeysAlone, Beside
<1>4. CASE UNCHANGED staticVars /\ revoked \subseteq revoked'
    BY <1>1, <1>2, <1>4, KeysAlone, Beside
<1>5. CASE InUse("static") /\ UNCHANGED revoked /\ \E c \in KeyConfigs : EmptyKeys(c)
    <2>1. plugins.authn = "static"
        BY <1>1, <1>5, InUseMeans
    <2> QED
        BY <1>1, <1>2, <1>5, <2>1, KeysFollowConfigure, Beside
<1>6. CASE InUse("static") /\ UNCHANGED revoked /\ AppendKey
    <2>1. plugins.authn = "static"
        BY <1>1, <1>6, InUseMeans
    <2> QED
        BY <1>1, <1>2, <1>6, <2>1, KeysFollowLoading, Beside
<1>7. ASSUME Configure PROVE AuthInv'
    <2>1. CASE ConfigureAuthn
        <3>1. CASE InUse("static") /\ \E c \in KeyConfigs : EmptyKeys(c)
            BY <1>5, <3>1 DEF EmptyKeys, postgresVars
        <3>2. CASE \E c \in DbConfigs : NameTable(c)
            BY <1>3, <3>2 DEF NameTable
        <3> QED
            BY <2>1, <3>1, <3>2 DEF ConfigureAuthn
    <2>2. CASE ConfigurePrompts \/ ConfigureRoutes \/ ConfigureExports
        BY <1>3, <2>2 DEF ConfigurePrompts, ConfigureRoutes, ConfigureExports, authnVars,
                          postgresVars
    <2> QED
        BY <1>7, <2>1, <2>2 DEF Configure
<1>8. ASSUME ContinueConfigure PROVE AuthInv'
    <2>1. CASE InUse("static") /\ AppendKey
        BY <1>6, <2>1 DEF AppendKey, postgresVars
    <2>2. CASE Connect
        BY <1>3, <2>2 DEF Connect
    <2>3. CASE UNCHANGED authnVars
        BY <1>3, <2>3 DEF authnVars, postgresVars
    <2> QED
        BY <1>8, <2>1, <2>2, <2>3 DEF ContinueConfigure
<1>9. ASSUME Environment PROVE AuthInv'
    <2>1. CASE \E row \in Rows : Revoke(row)
        BY <1>4, <2>1 DEF Revoke
    <2>2. CASE UNCHANGED authnVars
        BY <1>3, <2>2 DEF authnVars, postgresVars
    <2> QED
        BY <1>9, <2>1, <2>2 DEF Environment
<1>10. ASSUME UNCHANGED vars PROVE AuthInv'
    BY <1>3, <1>10 DEF vars, authnVars, postgresVars
<1> QED
    BY <1>7, <1>8, <1>9, <1>10

LEMMA AuthInvInit == Init => AuthInv
<1> SUFFICES ASSUME Init PROVE AuthInv
    OBVIOUS
<1>1. KeysFollow /\ plugins \in Deployments
    BY KeysFollowInit
<1>2. req = [r \in Requests |-> NewRequest] /\ revoked = {}
    BY DEF Init, AuthnInit
<1>3. /\ DOMAIN NewRequest = Fields /\ NewRequest.phase = "new" /\ NewRequest.before = {}
    BY DEF NewRequest, Fields
<1>4. Shape /\ \A r \in Requests : req[r].phase = "new" /\ req[r].before = {}
    BY <1>2, <1>3 DEF Shape
<1>5. \A r \in Requests : IdentityOK(r)
    BY <1>4 DEF IdentityOK, Answers
<1> QED
    BY <1>1, <1>4, <1>5 DEF AuthInv

LEMMA AuthInvNext == AuthInv /\ [Next]_vars => AuthInv'
<1> SUFFICES ASSUME AuthInv, [Next]_vars PROVE AuthInv'
    OBVIOUS
<1>1. ASSUME NEW r \in Requests, Step(r) PROVE AuthInv'
    BY <1>1, AuthInvArrive, AuthInvStatic, AuthInvPostgres, AuthInvLater DEF Step, LaterSteps
<1> QED
    BY <1>1, AuthInvBeside DEF Next

(* A key admits the tenant and the subject it has in the configuration given *)
(* last, or in a row not revoked when the request came; and the static       *)
(* plugin turns such a key away only while it loads its list                 *)
(* (authn-static-api-key/main.go:21-67, authn-postgres-api-key/main.go:54-92). *)
THEOREM IdentityIsRight == Spec => []IdentityIsOfToken
<1>1. AuthInv => IdentityIsOfToken
    BY DEF AuthInv, IdentityOK, FromKeys, FromRows, RightlyDenied, Holders, IdentityIsOfToken
<1> QED
    BY <1>1, AuthInvInit, AuthInvNext, PTL DEF Spec

-----------------------------------------------------------------------------
(* Where the event of a request goes.  What observer-otel sent for r: *)
Of(r) == {<<e.what, e.collector>> : e \in {x \in exported : x.request = r}}

Whole(r) == \E collector : Of(r) \in {{<<"log", collector>>},
                                      {<<"span", collector>>, <<"count", collector>>}}

(* What Emit copied stays usable: Configure shuts no provider down.          *)
ExportOK(r) ==
    /\ req[r].phase \notin {"count", "done"} => Of(r) = {}
    /\ req[r].phase \in {"export", "count"} /\ req[r].copy.tracer # NoCollector
          => req[r].copy.tracer \in providers
    /\ req[r].phase = "count" => /\ req[r].copy.tracer # NoCollector
                                 /\ Of(r) = {<<"span", req[r].copy.tracer>>}
    /\ req[r].phase = "done" => Whole(r)

ExportInv ==
    /\ Shape
    /\ tracer # NoCollector => tracer \in providers
    /\ \A r \in Requests : ExportOK(r)

(* A step of r that exports nothing, or what its next phase is due.          *)
LEMMA ExportKeeps ==
    ASSUME ExportInv, NEW r \in Requests, NEW known, DOMAIN known \subseteq Fields,
           Becomes(r, known), UNCHANGED componentVars,
           \A q \in Requests \ {r} : Of(q)' = Of(q),
           ExportOK(r)'
    PROVE  ExportInv'
<1>1. Shape' /\ \A q \in Requests \ {r} : req'[q] = req[q]
    BY Known DEF ExportInv
<1>2. UNCHANGED <<tracer, providers>>
    BY DEF componentVars, exportsVars, otelVars
<1>3. \A q \in Requests \ {r} : ExportOK(q)'
    BY <1>1, <1>2 DEF ExportInv, ExportOK, Whole
<1> QED
    BY <1>1, <1>2, <1>3 DEF ExportInv

Quiet == {"new", "authn", "denied", "lookup", "failed", "prompt", "route", "choose", "emit",
          "print", "copy", "unexported"}

(* Steps before the export, and those that end without one.                  *)
LEMMA QuietKeeps ==
    ASSUME ExportInv, NEW r \in Requests, NEW known, DOMAIN known \subseteq Fields,
           IF "phase" \in DOMAIN known THEN known["phase"] \in Quiet ELSE req[r].phase \in Quiet,
           Becomes(r, known), UNCHANGED componentVars, UNCHANGED exported,
           req[r].phase \notin {"count", "done"}
    PROVE  ExportInv'
<1>1. req'[r].phase \in Quiet
    <2>1. CASE "phase" \in DOMAIN known
        BY <2>1, Known DEF ExportInv
    <2>2. CASE "phase" \notin DOMAIN known
        <3>1. req'[r]["phase"] = req[r]["phase"]
            BY <2>2, Known DEF ExportInv, Fields
        <3> QED
            BY <2>2, <3>1
    <2> QED
        BY <2>1, <2>2
<1>2. \A q \in Requests : Of(q)' = Of(q)
    BY DEF Of
<1>3. Of(r) = {}
    BY DEF ExportInv, ExportOK
<1>4. ExportOK(r)'
    BY <1>1, <1>2, <1>3 DEF ExportOK, Quiet
<1> QED
    BY <1>2, <1>4, ExportKeeps DEF ExportInv

(* One more export of r adds its pair to what was sent for r.                *)
LEMMA ExportAdds ==
    ASSUME NEW r \in Requests, NEW what, NEW collector,
           exported' = exported \union {Export(r, what, collector)}
    PROVE  /\ Of(r)' = Of(r) \union {<<what, collector>>}
           /\ \A q \in Requests \ {r} : Of(q)' = Of(q)
<1> DEFINE e == Export(r, what, collector)
<1>1. e.request = r /\ e.what = what /\ e.collector = collector
    BY DEF Export
<1> HIDE DEF e
<1>2. exported' = exported \union {e}
    BY DEF e
<1>3. {x \in exported' : x.request = r} = {x \in exported : x.request = r} \union {e}
    BY <1>1, <1>2
<1>4. \A q \in Requests \ {r} :
          {x \in exported' : x.request = q} = {x \in exported : x.request = q}
    BY <1>1, <1>2
<1> QED
    BY <1>1, <1>3, <1>4 DEF Of

LEMMA ExportInvQuiet ==
    ASSUME ExportInv, NEW r \in Requests,
           \/ Arrive(r) \/ AuthenticateStatic(r) \/ AuthenticateTorn(r)
           \/ AuthenticatePostgres(r) \/ Lookup(r) \/ LookupFails(r) \/ ResolvePrompt(r)
           \/ ResolveTorn(r) \/ RouteWeighted(r) \/ Discover(r) \/ DiscoverFails(r)
           \/ Inspect(r) \/ RouteConsul(r) \/ ReadInclude(r) \/ PrintEvent(r) \/ PostFails(r)
    PROVE  ExportInv'
<1>1. req[r].phase \notin {"count", "done"}
    BY DEF Arrive, AuthenticateStatic, AuthenticateTorn, AuthenticatePostgres, Lookup,
           LookupFails, ResolvePrompt, ResolveTorn, RouteWeighted, Discover, DiscoverFails,
           Inspect, RouteConsul, ReadInclude, PrintEvent, PostFails, At
<1>2. ASSUME NEW known, DOMAIN known \subseteq Fields, "phase" \in DOMAIN known,
             known["phase"] \in Quiet, Only(r, known)
      PROVE  ExportInv'
    BY <1>1, <1>2, QuietKeeps DEF Only
<1>3. CASE Arrive(r)
    <2>1. PICK call \in Calls : Only(r, [phase |-> "authn", call |-> call, before |-> revoked])
        BY <1>3 DEF Arrive
    <2> QED
        BY <1>2, <2>1 DEF Fields, Quiet
<1>4. ASSUME NEW identity, Answered(r, identity) PROVE ExportInv'
    BY <1>2, <1>4 DEF Answered, Fields, Quiet
<1>5. CASE AuthenticateStatic(r) \/ Lookup(r)
    BY <1>4, <1>5 DEF AuthenticateStatic, Lookup
<1>6. CASE AuthenticatePostgres(r)
    <2>1. CASE Only(r, [phase |-> "lookup", table |-> table])
        BY <1>2, <2>1 DEF Fields, Quiet
    <2> QED
        BY <1>4, <1>6, <2>1 DEF AuthenticatePostgres
<1>7. CASE AuthenticateTorn(r) \/ ResolveTorn(r)
    <2> DEFINE known == [phase |-> "failed"]
    <2>1. Becomes(r, known) /\ UNCHANGED componentVars /\ UNCHANGED exported
        BY <1>7 DEF AuthenticateTorn, ResolveTorn, Panics
    <2>2. DOMAIN known \subseteq Fields /\ "phase" \in DOMAIN known /\ known["phase"] \in Quiet
        BY DEF Fields, Quiet
    <2> HIDE DEF known
    <2> QED
        BY <1>1, <2>1, <2>2, QuietKeeps
<1>8. CASE LookupFails(r) \/ DiscoverFails(r) \/ PostFails(r)
    <2>1. Only(r, [phase |-> "failed"]) \/ Only(r, [phase |-> "unexported"])
        BY <1>8 DEF LookupFails, DiscoverFails, PostFails
    <2> QED
        BY <1>2, <2>1 DEF Fields, Quiet
<1>9. CASE ResolvePrompt(r)
    <2> DEFINE p == Select(plugins.prompt, req[r].call, req[r].identity)
               known == [phase |-> "route", prompt |-> p,
                         messages |-> Resolved(plugins.prompt, p, req[r].call),
                         steady |-> ~PromptsAreLoading, given |-> promptsGiven]
    <2>1. Only(r, known)
        BY <1>9 DEF ResolvePrompt
    <2>2. DOMAIN known \subseteq Fields /\ "phase" \in DOMAIN known /\ known["phase"] \in Quiet
        BY DEF Fields, Quiet
    <2> HIDE DEF known
    <2> QED
        BY <1>2, <2>1, <2>2
<1>10. CASE RouteWeighted(r) \/ RouteConsul(r)
    <2>1. PICK routes : Only(r, [phase |-> "emit", routes |-> routes])
        BY <1>10 DEF RouteWeighted, RouteConsul
    <2> QED
        BY <1>2, <2>1 DEF Fields, Quiet
<1>11. CASE Discover(r)
    <2>1. Only(r, [phase |-> "choose", found |-> Discovered, rest |-> Discovered,
                   mine |-> {}, under |-> {}])
        BY <1>11 DEF Discover
    <2> QED
        BY <1>2, <2>1 DEF Fields, Quiet
<1>12. CASE Inspect(r)
    <2>1. PICK rest, mine, under : Only(r, [rest |-> rest, mine |-> mine, under |-> under])
        BY <1>12 DEF Inspect
    <2> DEFINE known == [rest |-> rest, mine |-> mine, under |-> under]
    <2>2. /\ Becomes(r, known) /\ UNCHANGED componentVars /\ UNCHANGED exported
          /\ req[r].phase \in Quiet
        BY <1>12, <2>1 DEF Only, Inspect, At, Quiet
    <2>3. DOMAIN known = {"rest", "mine", "under"}
        OBVIOUS
    <2> HIDE DEF known
    <2> QED
        BY <1>1, <2>2, <2>3, QuietKeeps DEF Fields
<1>13. CASE ReadInclude(r)
    <2>1. PICK shown, told :
             Only(r, [phase |-> "print", shown |-> shown, told |-> told])
        BY <1>13 DEF ReadInclude
    <2> QED
        BY <1>2, <2>1 DEF Fields, Quiet
<1>14. CASE PrintEvent(r)
    <2> DEFINE known == [phase |-> "copy"]
    <2>1. Becomes(r, known) /\ UNCHANGED componentVars /\ UNCHANGED exported
        BY <1>14 DEF PrintEvent
    <2>2. DOMAIN known \subseteq Fields /\ "phase" \in DOMAIN known /\ known["phase"] \in Quiet
        BY DEF Fields, Quiet
    <2> HIDE DEF known
    <2> QED
        BY <1>1, <2>1, <2>2, QuietKeeps
<1> QED
    BY <1>3, <1>5, <1>6, <1>7, <1>8, <1>9, <1>10, <1>11, <1>12, <1>13, <1>14

LEMMA ExportInvCopy == ASSUME ExportInv, NEW r \in Requests, CopySettings(r) PROVE ExportInv'
<1> DEFINE known == [phase |-> "export", copy |-> OtelCopy]
<1>1. /\ Becomes(r, known) /\ UNCHANGED componentVars /\ UNCHANGED exported
      /\ req[r].phase = "copy"
    BY DEF CopySettings, Only
<1>2. DOMAIN known = {"phase", "copy"} /\ known["phase"] = "export" /\ known["copy"] = OtelCopy
    OBVIOUS
<1> HIDE DEF known
<1>3. DOMAIN known \subseteq Fields
    BY <1>2 DEF Fields
<1>4. req'[r].phase = "export" /\ req'[r].copy.tracer = tracer
    BY <1>1, <1>2, <1>3, Known DEF ExportInv, OtelCopy
<1>5. UNCHANGED <<tracer, providers>> /\ \A q \in Requests : Of(q)' = Of(q)
    BY <1>1 DEF componentVars, exportsVars, otelVars, Of
<1>6. ExportOK(r)'
    BY <1>1, <1>4, <1>5 DEF ExportInv, ExportOK
<1> QED
    BY <1>1, <1>3, <1>5, <1>6, ExportKeeps DEF ExportInv

(* The steps that may export: what they make known is the phase alone.       *)
LEMMA PhaseKeeps ==
    ASSUME ExportInv, NEW r \in Requests, NEW phase, Becomes(r, [phase |-> phase]),
           UNCHANGED componentVars,
           \A q \in Requests \ {r} : Of(q)' = Of(q),
           phase = "done" => Whole(r)',
           phase = "count" => /\ req[r].copy.tracer \in providers \ {NoCollector}
                              /\ Of(r)' = {<<"span", req[r].copy.tracer>>},
           phase \in {"count", "done"}
    PROVE  ExportInv'
<1> DEFINE known == [phase |-> phase]
<1>1. DOMAIN known = {"phase"} /\ known["phase"] = phase /\ Becomes(r, known)
    OBVIOUS
<1> HIDE DEF known
<1>2. DOMAIN known \subseteq Fields
    BY <1>1 DEF Fields
<1>3. req'[r].phase = phase /\ req'[r].copy = req[r].copy
    BY <1>1, <1>2, Known DEF ExportInv, Fields
<1>4. UNCHANGED providers
    BY DEF componentVars, exportsVars, otelVars
<1>5. ExportOK(r)'
    BY <1>3, <1>4 DEF ExportOK
<1> QED
    BY <1>1, <1>2, <1>5, ExportKeeps

LEMMA ExportInvSends ==
    ASSUME ExportInv, NEW r \in Requests, PostLogs(r) \/ StartSpan(r) \/ AddCount(r)
    PROVE  ExportInv'
<1>1. ExportOK(r)
    BY DEF ExportInv
<1>2. CASE PostLogs(r)
    <2> DEFINE collector == req[r].copy.logURL
    <2>1. /\ exported' = exported \union {Export(r, "log", collector)}
          /\ Becomes(r, [phase |-> "done"]) /\ UNCHANGED componentVars
          /\ Of(r) = {}
        BY <1>1, <1>2 DEF PostLogs, Sends, LogRecord, ExportOK
    <2> HIDE DEF collector
    <2>2. Of(r)' = {<<"log", collector>>} /\ \A q \in Requests \ {r} : Of(q)' = Of(q)
        BY <2>1, ExportAdds
    <2>3. Whole(r)'
        BY <2>2 DEF Whole
    <2> QED
        BY <2>1, <2>2, <2>3, PhaseKeeps
<1>3. CASE StartSpan(r)
    <2> DEFINE collector == req[r].copy.tracer
    <2>1. collector \in providers \ {NoCollector}
        BY <1>1, <1>3 DEF StartSpan, ExportOK
    <2>2. /\ exported' = exported \union {Export(r, "span", collector)}
          /\ Becomes(r, [phase |-> "count"]) /\ UNCHANGED componentVars
          /\ Of(r) = {}
        BY <1>1, <1>3, <2>1 DEF StartSpan, Sends, Span, ExportOK
    <2> HIDE DEF collector
    <2>3. Of(r)' = {<<"span", collector>>} /\ \A q \in Requests \ {r} : Of(q)' = Of(q)
        <3>1. /\ Of(r)' = Of(r) \union {<<"span", collector>>}
              /\ \A q \in Requests \ {r} : Of(q)' = Of(q)
            BY ONLY <2>2, r \in Requests, ExportAdds
        <3> QED
            BY ONLY <2>2, <3>1
    <2> USE DEF collector
    <2> QED
        BY <2>1, <2>2, <2>3, PhaseKeeps
<1>4. CASE AddCount(r)
    <2> DEFINE collector == req[r].copy.tracer
    <2>1. collector \in providers /\ Of(r) = {<<"span", collector>>}
        BY <1>1, <1>4 DEF AddCount, ExportOK
    <2>2. /\ exported' = exported \union {Export(r, "count", collector)}
          /\ Becomes(r, [phase |-> "done"]) /\ UNCHANGED componentVars
        BY <1>4, <2>1 DEF AddCount, Sends, Count
    <2> HIDE DEF collector
    <2>3. /\ Of(r)' = {<<"span", collector>>, <<"count", collector>>}
          /\ \A q \in Requests \ {r} : Of(q)' = Of(q)
        <3>1. /\ Of(r)' = Of(r) \union {<<"count", collector>>}
              /\ \A q \in Requests \ {r} : Of(q)' = Of(q)
            BY ONLY <2>2, r \in Requests, ExportAdds
        <3> QED
            BY ONLY <2>1, <3>1
    <2>4. Whole(r)'
        BY <2>3 DEF Whole
    <2> QED
        BY <2>2, <2>3, <2>4, PhaseKeeps
<1> QED
    BY <1>2, <1>3, <1>4

(* Configure of observer-otel only adds providers. *)
LEMMA ExportInvBeside ==
    ASSUME ExportInv, Configure \/ ContinueConfigure \/ Environment \/ UNCHANGED vars
    PROVE  ExportInv'
<1>1. UNCHANGED <<req, exported>>
    BY DEF Configure, ContinueConfigure, Environment, vars, pathVars
<1>2. \A q \in Requests : Of(q)' = Of(q) /\ (Whole(q) => Whole(q)')
    BY <1>1 DEF Of, Whole
<1>3. ASSUME providers \subseteq providers' PROVE \A q \in Requests : ExportOK(q)'
    BY <1>1, <1>2, <1>3 DEF ExportInv, ExportOK
<1>4. ASSUME providers \subseteq providers', tracer' # NoCollector => tracer' \in providers'
      PROVE  ExportInv'
    BY <1>1, <1>3, <1>4 DEF ExportInv, Shape
<1>5. CASE UNCHANGED <<tracer, providers>>
    BY <1>4, <1>5 DEF ExportInv
<1>6. CASE \E c \in OtelConfigs : ConfigureOtel(c)
    <2>1. /\ providers \subseteq providers'
          /\ tracer' # NoCollector => tracer' \in providers'
        BY <1>6 DEF ConfigureOtel, ExportInv
    <2> QED
        BY <1>4, <2>1
<1>7. ASSUME Configure PROVE ExportInv'
    BY <1>5, <1>6, <1>7 DEF Configure, ConfigureAuthn, ConfigurePrompts, ConfigureRoutes,
                            ConfigureExports, IncludeFirst, exportsVars, otelVars
<1>8. ASSUME ContinueConfigure PROVE ExportInv'
    BY <1>5, <1>8 DEF ContinueConfigure, IncludeAsConfigured, exportsVars, otelVars
<1> QED
    BY <1>5, <1>7, <1>8 DEF Environment, vars, exportsVars, otelVars

LEMMA ExportInvInit == Init => ExportInv
<1> SUFFICES ASSUME Init PROVE ExportInv
    OBVIOUS
<1>1. req = [r \in Requests |-> NewRequest] /\ exported = {} /\ ExportsInit
    BY DEF Init
<1>2. DOMAIN NewRequest = Fields /\ NewRequest.phase = "new"
    BY DEF NewRequest, Fields
<1>3. Shape /\ \A r \in Requests : req[r].phase = "new" /\ Of(r) = {}
    BY <1>1, <1>2 DEF Shape, Of
<1>4. \A r \in Requests : ExportOK(r)
    BY <1>3 DEF ExportOK
<1>5. tracer # NoCollector => tracer \in providers
    BY <1>1 DEF ExportsInit
<1> QED
    BY <1>3, <1>4, <1>5 DEF ExportInv

LEMMA ExportInvNext == ExportInv /\ [Next]_vars => ExportInv'
<1> SUFFICES ASSUME ExportInv, [Next]_vars PROVE ExportInv'
    OBVIOUS
<1>1. ASSUME NEW r \in Requests, Step(r) PROVE ExportInv'
    BY <1>1, ExportInvQuiet, ExportInvCopy, ExportInvSends DEF Step
<1> QED
    BY <1>1, ExportInvBeside DEF Next

(* An event that observer-otel accepted is whole at one collector, a log     *)
(* record or a span with its count, whatever Configure replaces between the  *)
(* copy and the export (observer-otel/main.go:122-174).                      *)
THEOREM EventsExportedOnce == Spec => []ExportedOnce
<1>1. ExportInv => ExportedOnce
    <2> SUFFICES ASSUME ExportInv, NEW r \in Requests, req[r].phase = "done"
                 PROVE  \E collector \in {e.collector : e \in exported} :
                            Of(r) \in {{<<"log", collector>>},
                                       {<<"span", collector>>, <<"count", collector>>}}
        BY DEF ExportedOnce, Of
    <2>1. PICK collector : Of(r) \in {{<<"log", collector>>},
                                      {<<"span", collector>>, <<"count", collector>>}}
        BY DEF ExportInv, ExportOK, Whole
    <2>2. \E what : <<what, collector>> \in Of(r)
        BY <2>1
    <2>3. PICK e \in exported : e.collector = collector
        BY <2>2 DEF Of
    <2> QED
        BY <2>1, <2>3
<1> QED
    BY <1>1, ExportInvInit, ExportInvNext, PTL DEF Spec

-----------------------------------------------------------------------------
(* The prompt of a request.  The list of prompts, too, is the beginning of   *)
(* the list that was configured last.                                        *)
HeldPrompt == {PromptDefaults(kind, p) : kind \in {"registry", "injector"}, p \in PromptType}

PromptsFollow ==
    /\ promptsGiven \in PromptConfigs
    /\ promptsLeft \in Seq(PromptType)
    /\ prompts \in Seq(HeldPrompt)
    /\ Len(prompts) + Len(promptsLeft) = Len(promptsGiven)
    /\ \A n \in DOMAIN promptsLeft : promptsLeft[n] = promptsGiven[Len(prompts) + n]
    /\ \A i \in DOMAIN prompts : prompts[i] = PromptDefaults(plugins.prompt, promptsGiven[i])

Suits(q, call, identity) ==
    /\ q.tenant \in {Unset, "*", identity.tenant}
    /\ q.subject \in {Unset, "*", identity.subject}
    /\ q.model \in {Unset, "*", call.model}
    /\ q.ref \in {Unset, "*", call.ref}

Versioned(kind, call) == kind = "registry" /\ call.version # Unset
VersionOf(q) == IF q.version = Unset THEN "v1" ELSE q.version

Suitable(kind, call, identity, given) ==
    {q \in ToSet(given) : /\ Suits(q, call, identity)
                          /\ Versioned(kind, call) => VersionOf(q) = call.version}

(* The parts of PromptFits for the answer p. *)
RightPrompt(p, kind, call, identity, given, steady) ==
    /\ p # NoPrompt => /\ Suits(p, call, identity)
                       /\ Versioned(kind, call) => p.version = call.version
    /\ steady /\ Suitable(kind, call, identity, given) # {} => p # NoPrompt
    /\ (/\ steady
        /\ kind = "registry"
        /\ ~Versioned(kind, call)
        /\ \E q \in Suitable(kind, call, identity, given) : q.default) => p.default

(* The parts of MessagesKept for the prompt p. *)
Replaces(p, kind) == p.mode = "replace" \/ (kind = "registry" /\ p.mode \notin DocumentedModes)

Remains(p, kind, said) == IF Replaces(p, kind) THEN <<>>
                          ELSE IF p.mode = "replace_system" THEN NotSystem(said)
                          ELSE said

MadeOf(sent, remains, own) ==
    \E kept \in SUBSET DOMAIN sent : /\ Kept(sent, kept) = remains
                                    /\ Kept(sent, DOMAIN sent \ kept) = own

RightMessages(sent, p, kind, call) ==
    IF p = NoPrompt THEN sent = call.messages
    ELSE MadeOf(sent, Remains(p, kind, Current(call)), p.messages)

PromptOK(r) ==
    Resolution(r) => /\ RightPrompt(req[r].prompt, plugins.prompt, req[r].call,
                                    req[r].identity, req[r].given, req[r].steady)
                     /\ RightMessages(req[r].messages, req[r].prompt, plugins.prompt,
                                      req[r].call)

PromptInv ==
    /\ Shape
    /\ plugins \in Deployments
    /\ PromptsFollow
    /\ \A r \in Requests : PromptOK(r)
    /\ \A r \in Requests : req[r].phase # "new" => req[r].call \in Calls

-----------------------------------------------------------------------------
LEMMA PluginKinds ==
    ASSUME plugins \in Deployments
    PROVE  plugins.prompt \in {"registry", "injector"}
BY DeploymentsAssumption

(* What the defaults leave as it was given. *)
LEMMA DefaultedPrompt ==
    ASSUME NEW kind, NEW p \in PromptType
    PROVE  LET d == PromptDefaults(kind, p)
           IN  /\ d.ref = p.ref /\ d.tenant = p.tenant /\ d.subject = p.subject
               /\ d.model = p.model /\ d.default = p.default /\ d # NoPrompt
               /\ d.messages = p.messages
               /\ kind = "registry" => d.version = VersionOf(p)
<1> DEFINE v == IF kind = "registry" /\ p.version = Unset THEN "v1" ELSE p.version
           m == IF p.mode # Unset THEN p.mode
                ELSE IF kind = "registry" THEN "replace" ELSE "prepend_system"
           d == PromptDefaults(kind, p)
<1>1. d = [[p EXCEPT !.version = v] EXCEPT !.mode = m]
    BY DEF PromptDefaults, PromptType
<1>2. kind = "registry" => v = VersionOf(p)
    BY DEF VersionOf
<1>3. "tenant" \notin DOMAIN NoPrompt
    BY DEF NoPrompt
<1> HIDE DEF v, m, d
<1>4. /\ d.ref = p.ref /\ d.tenant = p.tenant /\ d.subject = p.subject
      /\ d.model = p.model /\ d.default = p.default /\ d.version = v
      /\ d.messages = p.messages
      /\ "tenant" \in DOMAIN d
    BY <1>1 DEF PromptType
<1> QED
    BY <1>2, <1>3, <1>4 DEF d

(* Every prompt in the list is the one given at its place. *)
LEMMA PromptsAreGiven ==
    ASSUME PromptsFollow, NEW i \in DOMAIN prompts
    PROVE  /\ i \in DOMAIN promptsGiven /\ promptsGiven[i] \in PromptType
           /\ prompts[i] = PromptDefaults(plugins.prompt, promptsGiven[i])
           /\ prompts[i] # NoPrompt
<1>1. /\ promptsGiven \in Seq(PromptType) /\ prompts \in Seq(HeldPrompt)
      /\ Len(promptsLeft) \in Nat /\ Len(prompts) + Len(promptsLeft) = Len(promptsGiven)
    BY PromptConfigsAssumption DEF PromptsFollow
<1>2. i \in DOMAIN promptsGiven
    BY <1>1
<1> QED
    BY <1>1, <1>2, DefaultedPrompt DEF PromptsFollow

(* There is a greatest version among any prompts of the registry. *)
LEMMA LatestExists ==
    ASSUME PromptsFollow, plugins.prompt = "registry",
           NEW fits, fits \subseteq DOMAIN prompts, fits # {}
    PROVE  \E i \in fits : \A j \in fits : Rank(prompts[j].version) <= Rank(prompts[i].version)
<1> DEFINE N == Len(VersionOrder)
           R(i) == Rank(prompts[i].version)
           S == {N - R(i) : i \in fits}
<1>1. ASSUME NEW i \in fits PROVE R(i) \in 1..N
    <2>1. /\ promptsGiven[i] \in PromptType /\ i \in DOMAIN promptsGiven
          /\ prompts[i] = PromptDefaults("registry", promptsGiven[i])
        BY PromptsAreGiven
    <2>2. \E n \in DOMAIN VersionOrder : VersionOrder[n] = prompts[i].version
        BY <2>1, PromptConfigsAssumption DEF PromptsFollow
    <2>3. R(i) \in DOMAIN VersionOrder
        BY <2>2 DEF Rank
    <2> QED
        BY <2>3, PromptConfigsAssumption
<1>2. N \in Nat
    BY PromptConfigsAssumption
<1> HIDE DEF R, N
<1>3. S \subseteq Nat /\ S # {}
    BY <1>1, <1>2
<1>4. Min(S) \in S /\ \A s \in S : Min(S) <= s
    BY <1>3, MinIsLeast
<1>5. PICK i \in fits : Min(S) = N - R(i)
    BY <1>4
<1>6. ASSUME NEW j \in fits PROVE R(j) <= R(i)
    <2>1. N - R(i) <= N - R(j)
        BY <1>4, <1>5
    <2> QED
        BY <1>1, <1>2, <2>1
<1> QED
    BY <1>6 DEF R

-----------------------------------------------------------------------------
(* What ResolvePrompt chooses from the list as it is.                        *)
LEMMA SelectIsRight ==
    ASSUME PromptsFollow, plugins \in Deployments, NEW call, NEW identity
    PROVE  RightPrompt(Select(plugins.prompt, call, identity), plugins.prompt, call, identity,
                       promptsGiven, ~PromptsAreLoading)
<1> DEFINE kind == plugins.prompt
           p == Select(kind, call, identity)
           versioned == Versioned(kind, call)
           suitable == Suitable(kind, call, identity, promptsGiven)
           fits == {i \in DOMAIN prompts : Fits(prompts[i], call, identity)}
           asked == {i \in fits : prompts[i].version = call.version}
           defaults == {i \in fits : prompts[i].default}
           latest == {i \in fits : \A j \in fits :
                         Rank(prompts[j].version) <= Rank(prompts[i].version)}
           Among(S) == \E i \in S : p = prompts[i]
<1>1. kind \in {"registry", "injector"}
    BY PluginKinds
<1>2. ASSUME NEW i \in fits PROVE Suits(prompts[i], call, identity) /\ prompts[i] # NoPrompt
    BY PromptsAreGiven DEF Fits, Matches, Suits
<1>3. ASSUME NEW S \in SUBSET fits, S # {} PROVE \E i \in S : FirstOf(prompts, S) = prompts[i]
    <2>1. S \subseteq Nat
        BY DEF PromptsFollow
    <2> QED
        BY <1>3, <2>1, MinIsLeast DEF FirstOf
<1>4. asked \subseteq fits /\ defaults \subseteq fits /\ latest \subseteq fits
    OBVIOUS
<1>5. kind = "registry" /\ fits # {} => latest # {}
    BY LatestExists
(* A prompt that was given and suits is in the complete list. *)
<1>6. ASSUME ~PromptsAreLoading, NEW q \in suitable
      PROVE  \E i \in fits : /\ prompts[i].default = q.default
                             /\ versioned => prompts[i].version = call.version
    <2>1. PICK i \in DOMAIN promptsGiven : q = promptsGiven[i]
        BY DEF Suitable, ToSet
    <2>2. promptsLeft = <<>>
        BY <1>6 DEF PromptsAreLoading
    <2>3. i \in DOMAIN prompts
        <3>1. Len(prompts) = Len(promptsGiven)
            BY <2>2, PromptConfigsAssumption DEF PromptsFollow
        <3> QED
            BY <2>1, <3>1, PromptConfigsAssumption DEF PromptsFollow
    <2>4. prompts[i] = PromptDefaults(kind, q) /\ q \in PromptType
        BY <2>1, <2>3, PromptsAreGiven
    <2>5. /\ prompts[i].ref = q.ref /\ prompts[i].tenant = q.tenant
          /\ prompts[i].subject = q.subject /\ prompts[i].model = q.model
          /\ prompts[i].default = q.default
          /\ kind = "registry" => prompts[i].version = VersionOf(q)
        BY <2>4, DefaultedPrompt
    <2>6. Suits(q, call, identity) /\ (versioned => VersionOf(q) = call.version)
        BY DEF Suitable
    <2>7. Fits(prompts[i], call, identity)
        BY <2>5, <2>6 DEF Fits, Matches, Suits
    <2> QED
        BY <2>3, <2>5, <2>6, <2>7 DEF Versioned
<1>7. CASE kind = "injector"
    <2>1. p = IF fits = {} THEN NoPrompt ELSE FirstOf(prompts, fits)
        BY <1>7 DEF Select, SelectRule
    <2>2. ~versioned
        BY <1>7 DEF Versioned
    <2>3. fits = {} \/ Among(fits)
        BY <1>3, <2>1
    <2> HIDE DEF p, fits, suitable, kind, versioned
    <2>4. p # NoPrompt => Suits(p, call, identity)
        BY <1>2, <2>1, <2>3
    <2>5. ~PromptsAreLoading /\ suitable # {} => p # NoPrompt
        BY <1>2, <1>6, <2>3
    <2> QED
        BY <1>7, <2>2, <2>4, <2>5 DEF RightPrompt, p, suitable, kind, versioned
<1>8. CASE kind = "registry" /\ versioned
    <2>1. p = IF asked = {} THEN NoPrompt ELSE FirstOf(prompts, asked)
        BY <1>8 DEF Select, SelectVersion, Versioned
    <2>2. asked = {} \/ Among(asked)
        BY <1>3, <1>4, <2>1
    <2>3. ASSUME ~PromptsAreLoading, suitable # {} PROVE asked # {}
        BY <1>6, <1>8, <2>3
    <2>4. \A i \in asked : i \in fits /\ prompts[i].version = call.version
        OBVIOUS
    <2> HIDE DEF p, fits, suitable, kind, versioned, asked
    <2>5. p # NoPrompt => Suits(p, call, identity) /\ p.version = call.version
        BY <1>2, <2>1, <2>2, <2>4
    <2>6. ~PromptsAreLoading /\ suitable # {} => p # NoPrompt
        BY <1>2, <2>2, <2>3, <2>4
    <2> QED
        BY <1>8, <2>5, <2>6 DEF RightPrompt, p, suitable, kind, versioned
<1>9. CASE kind = "registry" /\ ~versioned
    <2>1. p = IF fits = {} THEN NoPrompt
              ELSE FirstOf(prompts, IF defaults # {} THEN defaults ELSE latest)
        BY <1>9 DEF Select, SelectVersion, Versioned
    <2>2. fits = {} \/ Among(fits)
        <3>1. fits # {} => (IF defaults # {} THEN defaults ELSE latest) # {}
            BY <1>5, <1>9
        <3>2. (IF defaults # {} THEN defaults ELSE latest) \in SUBSET fits
            OBVIOUS
        <3> HIDE DEF defaults, latest, fits, p
        <3> QED
            BY <1>3, <2>1, <3>1, <3>2
    <2>3. defaults # {} => Among(defaults)
        <3>1. defaults # {} => p = FirstOf(prompts, defaults)
            BY <1>4, <2>1
        <3> HIDE DEF p
        <3> QED
            BY <1>3, <1>4, <3>1
    <2>4. ASSUME ~PromptsAreLoading, NEW q \in suitable, q.default PROVE defaults # {}
        BY <1>6, <2>4
    <2>5. \A i \in defaults : prompts[i].default
        OBVIOUS
    <2> HIDE DEF p, fits, suitable, kind, versioned, defaults
    <2>6. p # NoPrompt => Suits(p, call, identity)
        BY <1>2, <2>1, <2>2
    <2>7. ~PromptsAreLoading /\ suitable # {} => p # NoPrompt
        BY <1>2, <1>6, <2>2
    <2>8. ~PromptsAreLoading /\ (\E q \in suitable : q.default) => p.default
        BY <2>3, <2>4, <2>5
    <2> QED
        BY <1>9, <2>6, <2>7, <2>8 DEF RightPrompt, p, suitable, kind, versioned
<1> QED
    BY <1>1, <1>7, <1>8, <1>9

-----------------------------------------------------------------------------
(* What Resolved makes of the messages.                                      *)
LEMMA SelectIsHeld ==
    ASSUME PromptsFollow, plugins \in Deployments, NEW call, NEW identity,
           Select(plugins.prompt, call, identity) # NoPrompt
    PROVE  \E i \in DOMAIN prompts : Select(plugins.prompt, call, identity) = prompts[i]
<1> DEFINE kind == plugins.prompt
           p == Select(kind, call, identity)
           fits == {i \in DOMAIN prompts : Fits(prompts[i], call, identity)}
           asked == {i \in fits : prompts[i].version = call.version}
           defaults == {i \in fits : prompts[i].default}
           latest == {i \in fits : \A j \in fits :
                         Rank(prompts[j].version) <= Rank(prompts[i].version)}
<1>1. ASSUME NEW S \in SUBSET DOMAIN prompts, S # {}
      PROVE  \E i \in DOMAIN prompts : FirstOf(prompts, S) = prompts[i]
    <2>1. S \subseteq Nat
        BY DEF PromptsFollow
    <2> QED
        BY <1>1, <2>1, MinIsLeast DEF FirstOf
<1>2. \E S \in SUBSET DOMAIN prompts : S # {} /\ p = FirstOf(prompts, S)
    <2>1. CASE kind = "injector"
        <3>1. p = IF fits = {} THEN NoPrompt ELSE FirstOf(prompts, fits)
            BY <2>1 DEF Select, SelectRule
        <3> QED
            BY <3>1
    <2>2. CASE kind = "registry" /\ call.version # Unset
        <3>1. p = IF asked = {} THEN NoPrompt ELSE FirstOf(prompts, asked)
            BY <2>2 DEF Select, SelectVersion
        <3> QED
            BY <3>1
    <2>3. CASE kind = "registry" /\ call.version = Unset
        <3>1. p = IF fits = {} THEN NoPrompt
                  ELSE FirstOf(prompts, IF defaults # {} THEN defaults ELSE latest)
            BY <2>3 DEF Select, SelectVersion
        <3>2. fits # {}
            BY <3>1
        <3>3. latest # {}
            BY <2>3, <3>2, LatestExists
        <3>4. defaults \in SUBSET DOMAIN prompts /\ latest \in SUBSET DOMAIN prompts
            OBVIOUS
        <3> HIDE DEF defaults, latest, fits, p
        <3> QED
            BY <3>1, <3>2, <3>3, <3>4
    <2> QED
        BY <2>1, <2>2, <2>3, PluginKinds
<1> QED
    BY <1>1, <1>2

LEMMA SplicesAreMade ==
    ASSUME NEW own \in Seq(Message), NEW said \in Seq(Message)
    PROVE  /\ MadeOf(own, <<>>, own)
           /\ MadeOf(own \o said, said, own)
           /\ MadeOf(said \o own, said, own)
<1>1. MadeOf(own, <<>>, own)
    <2>1. DOMAIN own = 1..Len(own) /\ DOMAIN own \ {} = DOMAIN own
        OBVIOUS
    <2>2. Kept(own, {}) = <<>> /\ Kept(own, DOMAIN own) = own
        BY <2>1, KeptNothing, KeptFirst
    <2> QED
        BY <2>1, <2>2 DEF MadeOf
<1>2. ASSUME NEW s \in Seq(Message), NEW t \in Seq(Message)
      PROVE  MadeOf(s \o t, t, s) /\ MadeOf(s \o t, s, t)
    <2> DEFINE all == s \o t
               first == 1..Len(s)
               second == (1..Len(all)) \ first
    <2>1. Kept(all, first) = s /\ Kept(all, second) = t
        BY KeptHalves
    <2>2. DOMAIN all = 1..Len(all) /\ first \subseteq 1..Len(all)
        OBVIOUS
    <2> HIDE DEF all
    <2>3. DOMAIN all \ first = second /\ DOMAIN all \ second = first
        BY <2>2
    <2>4. first \in SUBSET DOMAIN all /\ second \in SUBSET DOMAIN all
        BY <2>2
    <2> HIDE DEF first, second
    <2>5. MadeOf(all, t, s)
        BY <2>1, <2>3, <2>4 DEF MadeOf
    <2>6. MadeOf(all, s, t)
        BY <2>1, <2>3, <2>4 DEF MadeOf
    <2> QED
        BY <2>5, <2>6 DEF all
<1> QED
    BY <1>1, <1>2

LEMMA ResolvedIsRight ==
    ASSUME PromptsFollow, plugins \in Deployments, NEW call \in Calls, NEW identity,
           NEW p, p = Select(plugins.prompt, call, identity)
    PROVE  RightMessages(Resolved(plugins.prompt, p, call), p, plugins.prompt, call)
<1> DEFINE kind == plugins.prompt
           said == Current(call)
           own == p.messages
<1>1. CASE p = NoPrompt
    BY <1>1 DEF Resolved, RightMessages
<1>2. CASE p # NoPrompt
    <2>1. own \in Seq(Message)
        <3>1. PICK i \in DOMAIN prompts : p = prompts[i]
            BY <1>2, SelectIsHeld
        <3>2. promptsGiven[i] \in PromptType /\ p = PromptDefaults(kind, promptsGiven[i])
            BY <3>1, PromptsAreGiven
        <3>3. own = promptsGiven[i].messages
            BY <3>2, DefaultedPrompt
        <3> QED
            BY <3>2, <3>3 DEF PromptType
    <2>2. said \in Seq(Message) /\ NotSystem(said) \in Seq(Message)
        <3>1. said \in Seq(Message)
            BY CallsAssumption DEF Current
        <3> QED
            BY <3>1, KeptIsSeq DEF NotSystem
    <2>3. kind \in {"registry", "injector"}
        BY PluginKinds
    <2> DEFINE sent == ApplyMode(kind, p, said)
    <2> HIDE DEF own, said, kind
    <2> SUFFICES MadeOf(sent, Remains(p, kind, said), own)
        BY <1>2 DEF Resolved, RightMessages, own, said, kind
    <2>4. CASE p.mode = "replace"
        BY <2>1, <2>2, <2>4, SplicesAreMade DEF ApplyMode, Remains, Replaces, own
    <2>5. CASE p.mode = "replace_system"
        BY <2>1, <2>2, <2>5, SplicesAreMade
        DEF ApplyMode, Remains, Replaces, DocumentedModes, own
    <2>6. CASE p.mode = "append"
        BY <2>1, <2>2, <2>6, SplicesAreMade
        DEF ApplyMode, Remains, Replaces, DocumentedModes, own
    <2>7. CASE p.mode \in {"prepend", "prepend_system"}
        BY <2>1, <2>2, <2>7, SplicesAreMade
        DEF ApplyMode, Remains, Replaces, DocumentedModes, own
    <2>8. CASE p.mode \notin DocumentedModes
        BY <2>1, <2>2, <2>3, <2>8, SplicesAreMade
        DEF ApplyMode, Remains, Replaces, DocumentedModes, own
    <2> QED
        BY <2>4, <2>5, <2>6, <2>7, <2>8 DEF DocumentedModes
<1> QED
    BY <1>1, <1>2

-----------------------------------------------------------------------------
(* The list follows what was given through every step of Configure.          *)
LEMMA PromptsFollowConfigure ==
    ASSUME PromptsFollow, UNCHANGED plugins, NEW c \in PromptConfigs, EmptyPrompts(c)
    PROVE  PromptsFollow'
<1>1. prompts' = <<>> /\ promptsLeft' = c /\ promptsGiven' = c
    BY DEF EmptyPrompts
<1>2. c \in Seq(PromptType)
    BY PromptConfigsAssumption
<1>3. <<>> \in Seq(HeldPrompt) /\ Len(<<>>) = 0 /\ DOMAIN <<>> = {} /\ Len(c) \in Nat
    BY <1>2
<1>4. 0 + Len(c) = Len(c) /\ \A n \in DOMAIN c : c[n] = c[0 + n]
    BY <1>2
<1> QED
    BY <1>1, <1>2, <1>3, <1>4 DEF PromptsFollow

LEMMA PromptsFollowLoading ==
    ASSUME PromptsFollow, plugins \in Deployments, UNCHANGED plugins,
           AppendPrompt(plugins.prompt)
    PROVE  PromptsFollow'
<1> DEFINE e == Head(promptsLeft)
           n == Len(prompts)
           k == PromptDefaults(plugins.prompt, e)
<1>1. /\ promptsGiven \in PromptConfigs /\ promptsLeft \in Seq(PromptType)
      /\ prompts \in Seq(HeldPrompt) /\ promptsLeft # <<>>
      /\ Len(prompts) + Len(promptsLeft) = Len(promptsGiven)
      /\ \A i \in DOMAIN promptsLeft : promptsLeft[i] = promptsGiven[Len(prompts) + i]
      /\ promptsGiven' = promptsGiven
      /\ prompts' = Append(prompts, k) /\ promptsLeft' = Tail(promptsLeft)
    BY DEF PromptsFollow, AppendPrompt, PromptsAreLoading
<1>2. promptsGiven \in Seq(PromptType)
    BY <1>1, PromptConfigsAssumption
<1>3. /\ e \in PromptType /\ e = promptsGiven[n + 1] /\ n \in Nat
      /\ Len(promptsLeft) \in Nat /\ Len(promptsLeft) > 0
    <2>1. n \in Nat
        BY ONLY <1>1
    <2>2. Len(promptsLeft) \in Nat /\ Len(promptsLeft) > 0
        BY ONLY <1>1
    <2>3. e = promptsLeft[1] /\ 1 \in DOMAIN promptsLeft
        BY ONLY <1>1
    <2>4. e \in PromptType
        BY ONLY <1>1
    <2> QED
        BY ONLY <1>1, <2>1, <2>2, <2>3, <2>4
<1>4. k \in HeldPrompt
    BY <1>3, PluginKinds DEF HeldPrompt
<1> HIDE DEF e, k
<1>5. /\ prompts' \in Seq(HeldPrompt) /\ Len(prompts') = n + 1
      /\ prompts'[n + 1] = k /\ \A i \in DOMAIN prompts : prompts'[i] = prompts[i]
      /\ DOMAIN prompts' = DOMAIN prompts \union {n + 1}
    BY <1>1, <1>4
<1>6. /\ promptsLeft' \in Seq(PromptType) /\ Len(promptsLeft') = Len(promptsLeft) - 1
      /\ \A i \in DOMAIN promptsLeft' :
            promptsLeft'[i] = promptsLeft[i + 1] /\ i + 1 \in DOMAIN promptsLeft /\ i \in Nat
    BY <1>1
<1>7. \A i \in DOMAIN promptsLeft' : promptsLeft'[i] = promptsGiven[Len(prompts') + i]
    <2> TAKE i \in DOMAIN promptsLeft'
    <2>1. promptsLeft'[i] = promptsGiven[n + (i + 1)] /\ i \in Nat
        BY <1>1, <1>6
    <2>2. n + (i + 1) = Len(prompts') + i
        BY <1>3, <1>5, <2>1
    <2> QED
        BY <2>1, <2>2
<1>8. Len(prompts') + Len(promptsLeft') = Len(promptsGiven)
    BY <1>1, <1>3, <1>5, <1>6
<1>9. \A i \in DOMAIN prompts' : prompts'[i] = PromptDefaults(plugins.prompt, promptsGiven[i])
    BY <1>3, <1>5 DEF PromptsFollow, k
<1> QED
    BY <1>1, <1>5, <1>6, <1>7, <1>8, <1>9 DEF PromptsFollow

LEMMA PromptsFollowInit == Init => PromptsFollow
<1> SUFFICES ASSUME Init PROVE PromptsFollow
    OBVIOUS
<1>1. /\ promptsGiven \in PromptConfigs /\ plugins \in Deployments /\ promptsLeft = <<>>
      /\ prompts = [i \in DOMAIN promptsGiven |-> PromptDefaults(plugins.prompt, promptsGiven[i])]
    BY DEF Init, PromptsInit
<1>2. promptsGiven \in Seq(PromptType)
    BY <1>1, PromptConfigsAssumption
<1>3. \A i \in DOMAIN promptsGiven : PromptDefaults(plugins.prompt, promptsGiven[i]) \in HeldPrompt
    BY <1>1, <1>2, PluginKinds DEF HeldPrompt
<1>4. prompts \in Seq(HeldPrompt) /\ Len(prompts) = Len(promptsGiven)
    BY <1>1, <1>2, <1>3
<1>5. promptsLeft \in Seq(PromptType) /\ Len(promptsLeft) = 0 /\ Len(promptsGiven) \in Nat
      /\ DOMAIN promptsLeft = {}
    BY <1>1, <1>2
<1> QED
    BY <1>1, <1>4, <1>5 DEF PromptsFollow

-----------------------------------------------------------------------------
(* A step of r that leaves the plugins alone.  Once the prompt is resolved,  *)
(* nothing that PromptOK speaks of changes.                                  *)
LEMMA PromptStep ==
    ASSUME PromptInv, NEW r \in Requests, NEW known, DOMAIN known \subseteq Fields,
           Becomes(r, known), UNCHANGED componentVars, PromptOK(r)',
           req'[r].phase # "new" => req'[r].call \in Calls
    PROVE  PromptInv'
<1>1. Shape' /\ \A q \in Requests \ {r} : req'[q] = req[q]
    BY Known DEF PromptInv
<1>2. UNCHANGED <<plugins, promptsVars>>
    BY DEF componentVars
<1>3. PromptsFollow'
    BY <1>2 DEF PromptInv, PromptsFollow, promptsVars
<1>4. \A q \in Requests : PromptOK(q)'
    BY <1>1, <1>2 DEF PromptInv, PromptOK, Resolution, Answers
<1>5. \A q \in Requests : req'[q].phase # "new" => req'[q].call \in Calls
    BY <1>1 DEF PromptInv
<1> QED
    BY <1>1, <1>2, <1>3, <1>4, <1>5 DEF PromptInv

Unresolved == {"new", "authn", "lookup", "denied", "failed", "prompt"}

LEMMA UnresolvedStep ==
    ASSUME PromptInv, NEW r \in Requests, NEW known, DOMAIN known \subseteq Fields,
           Becomes(r, known), UNCHANGED componentVars,
           "phase" \in DOMAIN known, known["phase"] \in Unresolved,
           IF "call" \in DOMAIN known THEN known["call"] \in Calls ELSE req[r].phase # "new"
    PROVE  PromptInv'
<1>1. req'[r].phase \in Unresolved
    BY Known DEF PromptInv
<1>3. req'[r].call \in Calls
    <2>1. CASE "call" \in DOMAIN known
        <3>1. req'[r]["call"] = known["call"]
            BY <2>1, Known DEF PromptInv
        <3> QED
            BY <2>1, <3>1
    <2>2. CASE "call" \notin DOMAIN known
        <3>1. req'[r]["call"] = req[r]["call"]
            BY <2>2, Known DEF PromptInv, Fields
        <3> QED
            BY <2>2, <3>1 DEF PromptInv
    <2> QED
        BY <2>1, <2>2
<1>2. PromptOK(r)'
    BY <1>1 DEF PromptOK, Resolution, Answers, Unresolved
<1> QED
    BY <1>2, <1>3, PromptStep

LEMMA ResolvedStep ==
    ASSUME PromptInv, NEW r \in Requests, NEW known, Resolution(r),
           DOMAIN known \subseteq {"phase", "routes", "found", "rest", "mine", "under", "shown",
                                   "told", "copy"},
           Becomes(r, known), UNCHANGED componentVars
    PROVE  PromptInv'
<1>1. DOMAIN known \subseteq Fields
    BY DEF Fields
<1>2. \A f \in Fields \ DOMAIN known : req'[r][f] = req[r][f]
    BY <1>1, Known DEF PromptInv
<1>3. /\ req'[r].prompt = req[r].prompt /\ req'[r].call = req[r].call
      /\ req'[r].identity = req[r].identity /\ req'[r].given = req[r].given
      /\ req'[r].steady = req[r].steady /\ req'[r].messages = req[r].messages
    BY <1>2 DEF Fields
<1>4. plugins' = plugins
    BY DEF componentVars
<1>5. PromptOK(r)'
    BY <1>3, <1>4 DEF PromptInv, PromptOK
<1>6. req'[r].call \in Calls
    BY <1>3 DEF PromptInv, Resolution, Answers
<1> QED
    BY <1>1, <1>5, <1>6, PromptStep

LEMMA PromptInvResolve ==
    ASSUME PromptInv, NEW r \in Requests, ResolvePrompt(r)
    PROVE  PromptInv'
<1> DEFINE p == Select(plugins.prompt, req[r].call, req[r].identity)
           text == Resolved(plugins.prompt, p, req[r].call)
           known == [phase |-> "route", prompt |-> p, messages |-> text,
                     steady |-> ~PromptsAreLoading, given |-> promptsGiven]
<1>1. Becomes(r, known) /\ UNCHANGED componentVars
    BY DEF ResolvePrompt, Only
<1> HIDE DEF p, text
<1>2. /\ DOMAIN known = {"phase", "prompt", "messages", "steady", "given"}
      /\ known["prompt"] = p /\ known["steady"] = ~PromptsAreLoading
      /\ known["given"] = promptsGiven /\ known["messages"] = text
    OBVIOUS
<1> HIDE DEF known
<1>3. DOMAIN known \subseteq Fields
    BY <1>2 DEF Fields
<1>4. /\ \A f \in DOMAIN known : req'[r][f] = known[f]
      /\ \A f \in Fields \ DOMAIN known : req'[r][f] = req[r][f]
    BY <1>1, <1>3, Known DEF PromptInv
<1>5. /\ req'[r].prompt = p /\ req'[r].steady = ~PromptsAreLoading
      /\ req'[r].given = promptsGiven /\ req'[r].call = req[r].call
      /\ req'[r].identity = req[r].identity /\ req'[r].messages = text
    BY <1>2, <1>4 DEF Fields
<1>6. RightPrompt(p, plugins.prompt, req[r].call, req[r].identity, promptsGiven,
                  ~PromptsAreLoading)
    BY SelectIsRight DEF PromptInv, p
<1>7. plugins' = plugins
    BY <1>1 DEF componentVars
<1>8. req[r].call \in Calls
    BY DEF PromptInv, ResolvePrompt, At
<1>9. RightMessages(text, p, plugins.prompt, req[r].call)
    <2> HIDE DEF Select
    <2>1. p = Select(plugins.prompt, req[r].call, req[r].identity)
        BY DEF p
    <2> QED
        BY <1>8, <2>1, ResolvedIsRight DEF PromptInv, text
<1>10. PromptOK(r)'
    BY <1>5, <1>6, <1>7, <1>9 DEF PromptOK
<1>11. req'[r].call \in Calls
    BY <1>5, <1>8
<1> QED
    BY <1>1, <1>3, <1>10, <1>11, PromptStep

(* The steps before there is a prompt, and those that fail. *)
EarlySteps(r) ==
    \/ Arrive(r) \/ AuthenticateStatic(r) \/ AuthenticateTorn(r) \/ AuthenticatePostgres(r)
    \/ Lookup(r) \/ LookupFails(r) \/ ResolveTorn(r) \/ DiscoverFails(r)

LEMMA PromptInvEarly == ASSUME PromptInv, NEW r \in Requests, EarlySteps(r) PROVE PromptInv'
<1>1. ASSUME NEW identity, Answered(r, identity), req[r].phase # "new" PROVE PromptInv'
    <2> DEFINE known == [phase |-> IF identity = Denied THEN "denied" ELSE "prompt",
                         identity |-> identity, basis |-> keysGiven, steady |-> ~KeysAreLoading]
    <2>1. Becomes(r, known) /\ UNCHANGED componentVars
        BY <1>1 DEF Answered, Only
    <2>2. /\ DOMAIN known = {"phase", "identity", "basis", "steady"}
          /\ known["phase"] \in {"denied", "prompt"}
        OBVIOUS
    <2> HIDE DEF known
    <2> QED
        BY <1>1, <2>1, <2>2, UnresolvedStep DEF Fields, Unresolved
<1>2. CASE Arrive(r)
    <2>1. PICK call \in Calls : Only(r, [phase |-> "authn", call |-> call, before |-> revoked])
        BY <1>2 DEF Arrive
    <2> DEFINE known == [phase |-> "authn", call |-> call, before |-> revoked]
    <2>2. Becomes(r, known) /\ UNCHANGED componentVars
        BY <2>1 DEF Only
    <2>3. /\ DOMAIN known = {"phase", "call", "before"} /\ known["phase"] = "authn"
          /\ known["call"] \in Calls
        OBVIOUS
    <2> HIDE DEF known
    <2> QED
        BY <2>2, <2>3, UnresolvedStep DEF Fields, Unresolved
<1>3. CASE AuthenticateTorn(r) \/ LookupFails(r) \/ ResolveTorn(r) \/ DiscoverFails(r)
    <2> DEFINE known == [phase |-> "failed"]
    <2>0. req[r].phase # "new"
        BY <1>3 DEF AuthenticateTorn, LookupFails, ResolveTorn, DiscoverFails, At
    <2>1. Becomes(r, known) /\ UNCHANGED componentVars
        BY <1>3 DEF AuthenticateTorn, LookupFails, ResolveTorn, DiscoverFails, Panics, Only
    <2>2. DOMAIN known = {"phase"} /\ known["phase"] = "failed"
        OBVIOUS
    <2> HIDE DEF known
    <2> QED
        BY <2>0, <2>1, <2>2, UnresolvedStep DEF Fields, Unresolved
<1>4. ASSUME Only(r, [phase |-> "lookup", table |-> table]), req[r].phase # "new" PROVE PromptInv'
    <2> DEFINE known == [phase |-> "lookup", table |-> table]
    <2>1. Becomes(r, known) /\ UNCHANGED componentVars
        BY <1>4 DEF Only
    <2>2. DOMAIN known = {"phase", "table"} /\ known["phase"] = "lookup"
        OBVIOUS
    <2> HIDE DEF known
    <2> QED
        BY <1>4, <2>1, <2>2, UnresolvedStep DEF Fields, Unresolved
<1>5. CASE AuthenticateStatic(r) \/ AuthenticatePostgres(r) \/ Lookup(r)
    BY <1>1, <1>4, <1>5 DEF AuthenticateStatic, AuthenticatePostgres, Lookup, At
<1> QED
    BY <1>2, <1>3, <1>5 DEF EarlySteps

(* The steps after it. *)
LateSteps(r) ==
    \/ RouteWeighted(r) \/ Discover(r) \/ Inspect(r) \/ RouteConsul(r) \/ ReadInclude(r)
    \/ PrintEvent(r) \/ CopySettings(r) \/ PostLogs(r) \/ PostFails(r) \/ StartSpan(r)
    \/ AddCount(r)

LEMMA PromptInvLate == ASSUME PromptInv, NEW r \in Requests, LateSteps(r) PROVE PromptInv'
<1>1. Resolution(r)
    BY DEF LateSteps, RouteWeighted, Discover, Inspect, RouteConsul, ReadInclude, CopySettings,
           PostLogs, PostFails, StartSpan, AddCount, PrintEvent, At, Resolution, Answers
<1>2. ASSUME NEW phase, Becomes(r, [phase |-> phase]), UNCHANGED componentVars
      PROVE  PromptInv'
    <2> DEFINE known == [phase |-> phase]
    <2>1. Becomes(r, known) /\ DOMAIN known = {"phase"}
        BY <1>2
    <2> HIDE DEF known
    <2> QED
        BY <1>1, <1>2, <2>1, ResolvedStep
<1>3. CASE PostLogs(r) \/ AddCount(r) \/ StartSpan(r) \/ PostFails(r) \/ PrintEvent(r)
    BY <1>2, <1>3 DEF PostLogs, AddCount, StartSpan, PostFails, PrintEvent, Sends, Only
<1>4. CASE RouteWeighted(r) \/ RouteConsul(r)
    <2>1. PICK routes : Only(r, [phase |-> "emit", routes |-> routes])
        BY <1>4 DEF RouteWeighted, RouteConsul
    <2> DEFINE known == [phase |-> "emit", routes |-> routes]
    <2>2. Becomes(r, known) /\ UNCHANGED componentVars /\ DOMAIN known = {"phase", "routes"}
        BY <2>1 DEF Only
    <2> HIDE DEF known
    <2> QED
        BY <1>1, <2>2, ResolvedStep
<1>5. CASE Discover(r)
    <2> DEFINE known == [phase |-> "choose", found |-> Discovered, rest |-> Discovered,
                         mine |-> {}, under |-> {}]
    <2>1. /\ Becomes(r, known) /\ UNCHANGED componentVars
          /\ DOMAIN known = {"phase", "found", "rest", "mine", "under"}
        BY <1>5 DEF Discover, Only
    <2> HIDE DEF known
    <2> QED
        BY <1>1, <2>1, ResolvedStep
<1>6. CASE CopySettings(r)
    <2> DEFINE known == [phase |-> "export", copy |-> OtelCopy]
    <2>1. Becomes(r, known) /\ UNCHANGED componentVars /\ DOMAIN known = {"phase", "copy"}
        BY <1>6 DEF CopySettings, Only
    <2> HIDE DEF known
    <2> QED
        BY <1>1, <2>1, ResolvedStep
<1>7. CASE Inspect(r)
    <2>1. PICK rest, mine, under : Only(r, [rest |-> rest, mine |-> mine, under |-> under])
        BY <1>7 DEF Inspect
    <2> DEFINE known == [rest |-> rest, mine |-> mine, under |-> under]
    <2>2. /\ Becomes(r, known) /\ UNCHANGED componentVars
          /\ DOMAIN known = {"rest", "mine", "under"}
        BY <2>1 DEF Only
    <2> HIDE DEF known
    <2> QED
        BY <1>1, <2>2, ResolvedStep
<1>8. CASE ReadInclude(r)
    <2>1. PICK shown, told :
             Only(r, [phase |-> "print", shown |-> shown, told |-> told])
        BY <1>8 DEF ReadInclude
    <2> DEFINE known == [phase |-> "print", shown |-> shown, told |-> told]
    <2>2. Becomes(r, known) /\ UNCHANGED componentVars /\ DOMAIN known = {"phase", "shown", "told"}
        BY <2>1 DEF Only
    <2> HIDE DEF known
    <2> QED
        BY <1>1, <2>2, ResolvedStep
<1> QED
    BY <1>3, <1>4, <1>5, <1>6, <1>7, <1>8 DEF LateSteps

LEMMA PromptInvBeside ==
    ASSUME PromptInv, Configure \/ ContinueConfigure \/ Environment \/ UNCHANGED vars
    PROVE  PromptInv'
<1>1. UNCHANGED <<plugins, req>>
    BY DEF Configure, ContinueConfigure, Environment, vars, pathVars
<1>2. ASSUME PromptsFollow' PROVE PromptInv'
    BY <1>1, <1>2 DEF PromptInv, PromptOK, Shape, Resolution, Answers
<1>3. CASE UNCHANGED promptsVars
    BY <1>1, <1>2, <1>3 DEF PromptInv, PromptsFollow, promptsVars
<1>4. CASE \E c \in PromptConfigs : EmptyPrompts(c)
    BY <1>1, <1>2, <1>4, PromptsFollowConfigure DEF PromptInv
<1>5. CASE AppendPrompt(plugins.prompt)
    BY <1>1, <1>2, <1>5, PromptsFollowLoading DEF PromptInv
<1>6. ASSUME Configure PROVE PromptInv'
    BY <1>3, <1>4, <1>6 DEF Configure, ConfigureAuthn, ConfigurePrompts, ConfigureRoutes,
                            ConfigureExports
<1>7. ASSUME ContinueConfigure PROVE PromptInv'
    BY <1>3, <1>5, <1>7 DEF ContinueConfigure
<1> QED
    BY <1>3, <1>6, <1>7 DEF Environment, vars

LEMMA PromptInvInit == Init => PromptInv
<1> SUFFICES ASSUME Init PROVE PromptInv
    OBVIOUS
<1>1. Shape /\ plugins \in Deployments
    BY AuthInvInit DEF AuthInv
<1>2. \A r \in Requests : req[r].phase = "new"
    BY DEF Init, NewRequest
<1>3. \A r \in Requests : PromptOK(r)
    BY <1>2 DEF PromptOK, Resolution, Answers
<1> QED
    BY <1>1, <1>2, <1>3, PromptsFollowInit DEF PromptInv

LEMMA PromptInvNext == PromptInv /\ [Next]_vars => PromptInv'
<1> SUFFICES ASSUME PromptInv, [Next]_vars PROVE PromptInv'
    OBVIOUS
<1>1. ASSUME NEW r \in Requests, Step(r) PROVE PromptInv'
    BY <1>1, PromptInvEarly, PromptInvResolve, PromptInvLate DEF Step, EarlySteps, LateSteps
<1> QED
    BY <1>1, PromptInvBeside DEF Next

(* The prompt of a request is meant for its tenant, subject, model and ref,  *)
(* and has the version asked for; and only a request that meets Configure at *)
(* work misses one, or the default one, that fits it                         *)
(* (prompt-template-registry/main.go:26-104,                                 *)
(* prompt-context-injector/main.go:24-77).                                   *)
THEOREM PromptIsRight == Spec => []PromptFits
<1>1. ASSUME PromptInv, NEW r \in Requests, Resolution(r)
      PROVE  RightPrompt(req[r].prompt, plugins.prompt, req[r].call, req[r].identity,
                         req[r].given, req[r].steady)
    BY <1>1 DEF PromptInv, PromptOK
<1>2. PromptInv => PromptFits
    BY <1>1 DEF PromptFits, RightPrompt, Suitable, Suits, Versioned, VersionOf
<1> QED
    BY <1>2, PromptInvInit, PromptInvNext, PTL DEF Spec

(* Whatever prompt is applied, the messages for the provider are those of    *)
(* the prompt and those the mode leaves of the call, each in their order,    *)
(* none lost and none twice (prompt-template-registry/main.go:96-118,        *)
(* prompt-context-injector/main.go:58-83).                                   *)
THEOREM MessagesAreKept == Spec => []MessagesKept
<1>1. ASSUME PromptInv, NEW r \in Requests, Resolution(r)
      PROVE  RightMessages(req[r].messages, req[r].prompt, plugins.prompt, req[r].call)
    BY <1>1 DEF PromptInv, PromptOK
<1>2. PromptInv => MessagesKept
    BY <1>1 DEF MessagesKept, RightMessages, MadeOf, Remains, Replaces
<1> QED
    BY <1>2, PromptInvInit, PromptInvNext, PTL DEF Spec

-----------------------------------------------------------------------------
(* The routes of a request.                                                  *)
Certain(found, under, model) == {i \in found : \A prefix \in under : i.model[prefix] = model}
Possible(found, under, model) == {i \in found : \E prefix \in under : i.model[prefix] = model}

(* The parts of RoutesComplete for the answer routes. *)
RightRoutes(routes, kind, found, under, model) ==
    IF kind = "weighted"
    THEN /\ Range(routes) = {Candidates[n] : n \in Healthy(Candidates)}
         /\ Len(routes) = Cardinality(Healthy(Candidates))
    ELSE /\ Certain(found, under, model) \subseteq Range(routes)
         /\ Range(routes) \subseteq Possible(found, under, model)
         /\ Len(routes) = Cardinality(Range(routes))

(* What holds in the loop over Consul's answer: every instance that was      *)
(* looked at is chosen if it has the model by all prefixes it may have been  *)
(* looked at with, and only if it has it by one of them.                     *)
RightlyChosen(found, rest, mine, under, model) ==
    /\ rest \subseteq found
    /\ Certain(found, under, model) \ rest \subseteq mine
    /\ mine \subseteq Possible(found, under, model)

RoutesOK(r) ==
    /\ req[r].phase = "choose" =>
          RightlyChosen(req[r].found, req[r].rest, req[r].mine, req[r].under, req[r].call.model)
    /\ Routed(r) => RightRoutes(req[r].routes, plugins.router, req[r].found, req[r].under,
                                req[r].call.model)

RouteInv ==
    /\ Shape
    /\ plugins \in Deployments
    /\ passing \subseteq Services
    /\ \A r \in Requests : req[r].found \subseteq Services
    /\ \A r \in Requests : RoutesOK(r)

(* An order of a finite set names each of its members, and once. *)
LEMMA OrderIsWhole ==
    ASSUME NEW set, IsFiniteSet(set), NEW order \in Orders(set)
    PROVE  /\ DOMAIN order = 1..Cardinality(set) /\ Cardinality(set) \in Nat
           /\ Range(order) = set
           /\ Len(order) = Cardinality(set)
<1>1. Cardinality(set) \in Nat
    BY FS_CardinalityType
<1> DEFINE n == Cardinality(set)
<1> HIDE DEF n
<1>2. order \in Bijection(1..n, set)
    BY DEF Orders, n
<1>3. order \in [1..n -> set] /\ \A x \in set : \E i \in 1..n : order[i] = x
    BY <1>2 DEF Bijection, Surjection, Injection
<1>4. Range(order) = set
    BY <1>3 DEF Range
<1>5. Len(order) = n
    BY <1>1, <1>3 DEF n
<1> QED
    BY <1>1, <1>3, <1>4, <1>5 DEF n

LEMMA WeightedIsRight ==
    ASSUME NEW routes \in WeightedAnswers(Candidates), NEW found, NEW under, NEW model
    PROVE  RightRoutes(routes, "weighted", found, under, model)
<1> DEFINE healthy == Healthy(Candidates)
<1>1. PICK order \in Orders(healthy) : routes = Placed(Candidates, order)
    BY DEF WeightedAnswers, ByWeight
<1>2. IsFiniteSet(healthy)
    <2>1. IsFiniteSet(1..Len(Candidates)) /\ healthy \subseteq 1..Len(Candidates)
        BY CallsAssumption, FS_Interval DEF Healthy
    <2> QED
        BY <2>1, FS_Subset
<1> HIDE DEF healthy
<1>3. /\ DOMAIN order = 1..Cardinality(healthy) /\ Cardinality(healthy) \in Nat
      /\ Range(order) = healthy
    BY <1>2, OrderIsWhole
<1>4. routes = [n \in 1..Cardinality(healthy) |-> Candidates[order[n]]]
    BY <1>1, <1>3 DEF Placed
<1>5. Range(routes) = {Candidates[n] : n \in healthy}
    BY <1>3, <1>4 DEF Range
<1>6. Len(routes) = Cardinality(healthy)
    BY <1>3, <1>4
<1> QED
    BY <1>5, <1>6 DEF RightRoutes, healthy

LEMMA ConsulIsRight ==
    ASSUME NEW found, found \subseteq Services, NEW mine, NEW under, NEW model,
           RightlyChosen(found, {}, mine, under, model), NEW routes \in ConsulAnswers(mine)
    PROVE  RightRoutes(routes, "consul", found, under, model)
<1>1. routes \in Orders(mine)
    BY DEF ConsulAnswers
<1>2. IsFiniteSet(mine)
    <2>1. mine \subseteq Services
        BY DEF RightlyChosen, Possible
    <2> QED
        BY <2>1, ServicesAssumption, FS_Subset
<1>3. Range(routes) = mine /\ Len(routes) = Cardinality(mine)
    BY <1>1, <1>2, OrderIsWhole
<1>4. "consul" # "weighted"
    OBVIOUS
<1> QED
    BY <1>3, <1>4 DEF RightRoutes, RightlyChosen

(* One instance more. *)
LEMMA OneMoreChosen ==
    ASSUME NEW found, NEW rest, NEW mine, NEW under, NEW model,
           RightlyChosen(found, rest, mine, under, model), NEW i \in rest, NEW prefix,
           NEW more, more = IF i.model[prefix] = model THEN mine \union {i} ELSE mine
    PROVE  RightlyChosen(found, rest \ {i}, more, under \union {prefix}, model)
BY DEF RightlyChosen, Certain, Possible

-----------------------------------------------------------------------------
(* A step of r that leaves the plugins alone. *)
LEMMA RouteStep ==
    ASSUME RouteInv, NEW r \in Requests, NEW known, DOMAIN known \subseteq Fields,
           Becomes(r, known), UNCHANGED componentVars,
           "found" \in DOMAIN known => known["found"] \subseteq Services, RoutesOK(r)'
    PROVE  RouteInv'
<1>1. /\ Shape' /\ \A q \in Requests \ {r} : req'[q] = req[q]
      /\ \A f \in DOMAIN known : req'[r][f] = known[f]
      /\ \A f \in Fields \ DOMAIN known : req'[r][f] = req[r][f]
    BY Known DEF RouteInv
<1>2. plugins' = plugins /\ passing' = passing
    BY DEF componentVars, routesVars
<1>3. req'[r].found \subseteq Services
    BY <1>1 DEF RouteInv, Fields
<1>4. \A q \in Requests : RoutesOK(q)'
    BY <1>1, <1>2 DEF RouteInv, RoutesOK, Routed, Resolution, Answers
<1> QED
    BY <1>1, <1>2, <1>3, <1>4 DEF RouteInv

Unrouted == {"new", "authn", "lookup", "denied", "failed", "prompt", "route", "choose"}

LEMMA UnroutedStep ==
    ASSUME RouteInv, NEW r \in Requests, NEW known, DOMAIN known \subseteq Fields,
           Becomes(r, known), UNCHANGED componentVars,
           "found" \in DOMAIN known => known["found"] \subseteq Services,
           "phase" \in DOMAIN known, known["phase"] \in Unrouted \ {"choose"}
    PROVE  RouteInv'
<1>1. req'[r].phase \in Unrouted \ {"choose"}
    BY Known DEF RouteInv
<1>2. RoutesOK(r)'
    BY <1>1 DEF RoutesOK, Routed, Resolution, Answers, Unrouted
<1> QED
    BY <1>2, RouteStep

(* Once there are routes, nothing that RoutesOK speaks of changes.           *)
LEMMA RoutedStep ==
    ASSUME RouteInv, NEW r \in Requests, NEW known, Routed(r),
           DOMAIN known \subseteq {"phase", "shown", "told", "copy"},
           "phase" \in DOMAIN known, known["phase"] # "choose",
           Becomes(r, known), UNCHANGED componentVars
    PROVE  RouteInv'
<1>1. DOMAIN known \subseteq Fields
    BY DEF Fields
<1>2. \A f \in Fields \ DOMAIN known : req'[r][f] = req[r][f]
    BY <1>1, Known DEF RouteInv
<1>3. /\ req'[r].routes = req[r].routes /\ req'[r].call = req[r].call
      /\ req'[r].found = req[r].found /\ req'[r].under = req[r].under
    BY <1>2 DEF Fields
<1>6. req'[r].phase # "choose"
    BY <1>1, Known DEF RouteInv
<1>4. plugins' = plugins
    BY DEF componentVars
<1>5. RoutesOK(r)'
    BY <1>3, <1>4, <1>6 DEF RouteInv, RoutesOK
<1> QED
    BY <1>1, <1>5, RouteStep

(* Route answers.                                                            *)
LEMMA RouteInvAnswers ==
    ASSUME RouteInv, NEW r \in Requests, RouteWeighted(r) \/ RouteConsul(r)
    PROVE  RouteInv'
<1>1. PICK routes : /\ Only(r, [phase |-> "emit", routes |-> routes])
                    /\ RightRoutes(routes, plugins.router, req[r].found, req[r].under,
                                   req[r].call.model)
    <2>1. CASE RouteWeighted(r)
        <3>1. PICK routes \in WeightedAnswers(Candidates) :
                  Only(r, [phase |-> "emit", routes |-> routes])
            BY <2>1 DEF RouteWeighted
        <3>2. plugins.router = "weighted"
            BY <2>1, DeploymentsAssumption DEF RouteWeighted, At, InUse, RouteInv
        <3> QED
            BY <3>1, <3>2, WeightedIsRight
    <2>2. CASE RouteConsul(r)
        <3>1. PICK routes \in ConsulAnswers(req[r].mine) :
                  Only(r, [phase |-> "emit", routes |-> routes])
            BY <2>2 DEF RouteConsul
        <3>2. plugins.router = "consul"
            BY <2>2, DeploymentsAssumption DEF RouteConsul, At, InUse, RouteInv
        <3>3. req[r].found \subseteq Services
            BY DEF RouteInv
        <3>4. RightlyChosen(req[r].found, {}, req[r].mine, req[r].under, req[r].call.model)
            BY <2>2 DEF RouteInv, RoutesOK, RouteConsul, At
        <3> QED
            BY <3>1, <3>2, <3>3, <3>4, ConsulIsRight
    <2> QED
        BY <2>1, <2>2
<1> DEFINE known == [phase |-> "emit", routes |-> routes]
<1>2. Becomes(r, known) /\ UNCHANGED componentVars
    BY <1>1 DEF Only
<1>3. /\ DOMAIN known = {"phase", "routes"} /\ known["routes"] = routes
      /\ known["phase"] = "emit"
    OBVIOUS
<1> HIDE DEF known
<1>4. DOMAIN known \subseteq Fields /\ "found" \notin DOMAIN known
    BY <1>3 DEF Fields
<1>5. /\ \A f \in DOMAIN known : req'[r][f] = known[f]
      /\ \A f \in Fields \ DOMAIN known : req'[r][f] = req[r][f]
    BY <1>2, <1>4, Known DEF RouteInv
<1>6. /\ req'[r].routes = routes /\ req'[r].found = req[r].found
      /\ req'[r].call = req[r].call /\ req'[r].under = req[r].under
      /\ req'[r].phase = "emit"
    BY <1>3, <1>5 DEF Fields
<1>7. plugins' = plugins
    BY <1>2 DEF componentVars
<1>8. RoutesOK(r)'
    BY <1>1, <1>6, <1>7 DEF RoutesOK
<1> QED
    BY <1>2, <1>4, <1>8, RouteStep

(* An instance looked at, and the first of that: the answer of Consul. *)
LEMMA RouteInvChoose ==
    ASSUME RouteInv, NEW r \in Requests, Discover(r) \/ Inspect(r)
    PROVE  RouteInv'
<1>1. CASE Discover(r)
    <2> DEFINE known == [phase |-> "choose", found |-> Discovered, rest |-> Discovered,
                         mine |-> {}, under |-> {}]
    <2>1. Becomes(r, known) /\ UNCHANGED componentVars
        BY <1>1 DEF Discover, Only
    <2>2. /\ DOMAIN known = {"phase", "found", "rest", "mine", "under"}
          /\ known["phase"] = "choose" /\ known["found"] = Discovered
          /\ known["rest"] = Discovered /\ known["mine"] = {}
        OBVIOUS
    <2> HIDE DEF known
    <2>3. DOMAIN known \subseteq Fields
        BY <2>2 DEF Fields
    <2>4. \A f \in DOMAIN known : req'[r][f] = known[f]
        BY <2>1, <2>3, Known DEF RouteInv
    <2>5. /\ req'[r].phase = "choose" /\ req'[r].found = Discovered
          /\ req'[r].rest = Discovered /\ req'[r].mine = {}
        BY <2>2, <2>4
    <2>6. RoutesOK(r)'
        BY <2>5 DEF RoutesOK, RightlyChosen, Certain, Routed, Resolution, Answers
    <2>7. Discovered \subseteq Services
        BY DEF RouteInv, Discovered
    <2> QED
        BY <2>1, <2>2, <2>3, <2>6, <2>7, RouteStep
<1>2. CASE Inspect(r)
    <2>1. PICK i \in req[r].rest :
              Only(r, [rest |-> req[r].rest \ {i},
                       mine |-> IF HasModel(i, req[r].call.model) THEN req[r].mine \union {i}
                                ELSE req[r].mine,
                       under |-> req[r].under \union {router.prefix}])
        BY <1>2 DEF Inspect
    <2> DEFINE more == IF HasModel(i, req[r].call.model) THEN req[r].mine \union {i}
                       ELSE req[r].mine
               known == [rest |-> req[r].rest \ {i}, mine |-> more,
                         under |-> req[r].under \union {router.prefix}]
    <2>2. Becomes(r, known) /\ UNCHANGED componentVars
        BY <2>1 DEF Only
    <2>3. more = IF i.model[router.prefix] = req[r].call.model THEN req[r].mine \union {i}
                 ELSE req[r].mine
        BY DEF HasModel
    <2> HIDE DEF more
    <2>4. /\ DOMAIN known = {"rest", "mine", "under"}
          /\ known["rest"] = req[r].rest \ {i} /\ known["mine"] = more
          /\ known["under"] = req[r].under \union {router.prefix}
        OBVIOUS
    <2> HIDE DEF known
    <2>5. DOMAIN known \subseteq Fields
        BY <2>4 DEF Fields
    <2>6. /\ \A f \in DOMAIN known : req'[r][f] = known[f]
          /\ \A f \in Fields \ DOMAIN known : req'[r][f] = req[r][f]
        BY <2>2, <2>5, Known DEF RouteInv
    <2>7. /\ req'[r].rest = req[r].rest \ {i} /\ req'[r].mine = more
          /\ req'[r].under = req[r].under \union {router.prefix}
          /\ req'[r].found = req[r].found /\ req'[r].call = req[r].call
          /\ req'[r].phase = req[r].phase
        BY <2>4, <2>6 DEF Fields
    <2>8. req[r].phase = "choose"
        BY <1>2 DEF Inspect, At
    <2>9. RightlyChosen(req[r].found, req[r].rest, req[r].mine, req[r].under, req[r].call.model)
        BY <2>8 DEF RouteInv, RoutesOK
    <2>10. RightlyChosen(req[r].found, req[r].rest \ {i}, more,
                         req[r].under \union {router.prefix}, req[r].call.model)
        BY <2>1, <2>3, <2>9, OneMoreChosen
    <2>11. RoutesOK(r)'
        BY <2>7, <2>8, <2>10 DEF RoutesOK, Routed, Resolution, Answers
    <2> QED
        BY <2>2, <2>4, <2>5, <2>11, RouteStep
<1> QED
    BY <1>1, <1>2

(* The steps before there is anything to route, and those that fail. *)
LEMMA RouteInvEarly ==
    ASSUME RouteInv, NEW r \in Requests, EarlySteps(r) \/ ResolvePrompt(r)
    PROVE  RouteInv'
<1>1. ASSUME NEW known, Becomes(r, known), UNCHANGED componentVars,
             DOMAIN known \subseteq Fields, "found" \notin DOMAIN known,
             "phase" \in DOMAIN known, known["phase"] \in Unrouted \ {"choose"}
      PROVE  RouteInv'
    BY <1>1, UnroutedStep
<1>2. ASSUME NEW identity, Answered(r, identity) PROVE RouteInv'
    <2> DEFINE known == [phase |-> IF identity = Denied THEN "denied" ELSE "prompt",
                         identity |-> identity, basis |-> keysGiven, steady |-> ~KeysAreLoading]
    <2>1. Becomes(r, known) /\ UNCHANGED componentVars
        BY <1>2 DEF Answered, Only
    <2>2. /\ DOMAIN known = {"phase", "identity", "basis", "steady"}
          /\ known["phase"] \in {"denied", "prompt"}
        OBVIOUS
    <2> HIDE DEF known
    <2> QED
        BY <1>1, <2>1, <2>2 DEF Fields, Unrouted
<1>3. CASE Arrive(r)
    <2>1. PICK call \in Calls : Only(r, [phase |-> "authn", call |-> call, before |-> revoked])
        BY <1>3 DEF Arrive
    <2> DEFINE known == [phase |-> "authn", call |-> call, before |-> revoked]
    <2>2. Becomes(r, known) /\ UNCHANGED componentVars
        BY <2>1 DEF Only
    <2>3. DOMAIN known = {"phase", "call", "before"} /\ known["phase"] = "authn"
        OBVIOUS
    <2> HIDE DEF known
    <2> QED
        BY <1>1, <2>2, <2>3 DEF Fields, Unrouted
<1>4. CASE AuthenticateTorn(r) \/ LookupFails(r) \/ ResolveTorn(r) \/ DiscoverFails(r)
    <2> DEFINE known == [phase |-> "failed"]
    <2>1. Becomes(r, known) /\ UNCHANGED componentVars
        BY <1>4 DEF AuthenticateTorn, LookupFails, ResolveTorn, DiscoverFails, Panics, Only
    <2>2. DOMAIN known = {"phase"} /\ known["phase"] = "failed"
        OBVIOUS
    <2> HIDE DEF known
    <2> QED
        BY <1>1, <2>1, <2>2 DEF Fields, Unrouted
<1>5. CASE Only(r, [phase |-> "lookup", table |-> table])
    <2> DEFINE known == [phase |-> "lookup", table |-> table]
    <2>1. Becomes(r, known) /\ UNCHANGED componentVars
        BY <1>5 DEF Only
    <2>2. DOMAIN known = {"phase", "table"} /\ known["phase"] = "lookup"
        OBVIOUS
    <2> HIDE DEF known
    <2> QED
        BY <1>1, <2>1, <2>2 DEF Fields, Unrouted
<1>6. CASE AuthenticateStatic(r) \/ AuthenticatePostgres(r) \/ Lookup(r)
    BY <1>2, <1>5, <1>6 DEF AuthenticateStatic, AuthenticatePostgres, Lookup
<1>7. CASE ResolvePrompt(r)
    <2> DEFINE p == Select(plugins.prompt, req[r].call, req[r].identity)
               text == Resolved(plugins.prompt, p, req[r].call)
               known == [phase |-> "route", prompt |-> p, messages |-> text,
                         steady |-> ~PromptsAreLoading, given |-> promptsGiven]
    <2>1. Becomes(r, known) /\ UNCHANGED componentVars
        BY <1>7 DEF ResolvePrompt, Only
    <2> HIDE DEF p, text
    <2>2. /\ DOMAIN known = {"phase", "prompt", "messages", "steady", "given"}
          /\ known["phase"] = "route"
        OBVIOUS
    <2> HIDE DEF known
    <2> QED
        BY <1>1, <2>1, <2>2 DEF Fields, Unrouted
<1> QED
    BY <1>3, <1>4, <1>6, <1>7 DEF EarlySteps

(* The steps of the observers. *)
LEMMA RouteInvObservers ==
    ASSUME RouteInv, NEW r \in Requests,
           \/ ReadInclude(r) \/ PrintEvent(r) \/ CopySettings(r) \/ PostLogs(r)
           \/ PostFails(r) \/ StartSpan(r) \/ AddCount(r)
    PROVE  RouteInv'
<1>1. Routed(r)
    BY DEF ReadInclude, CopySettings, PostLogs, PostFails, StartSpan, AddCount, PrintEvent,
           Routed, Resolution, Answers
<1>2. ASSUME NEW phase, phase # "choose", Becomes(r, [phase |-> phase]),
             UNCHANGED componentVars
      PROVE  RouteInv'
    <2> DEFINE known == [phase |-> phase]
    <2>1. Becomes(r, known) /\ DOMAIN known = {"phase"} /\ known["phase"] = phase
        BY <1>2
    <2> HIDE DEF known
    <2> QED
        BY <1>1, <1>2, <2>1, RoutedStep
<1>3. CASE PostLogs(r) \/ AddCount(r) \/ StartSpan(r) \/ PostFails(r) \/ PrintEvent(r)
    BY <1>2, <1>3 DEF PostLogs, AddCount, StartSpan, PostFails, PrintEvent, Sends, Only
<1>4. CASE CopySettings(r)
    <2> DEFINE known == [phase |-> "export", copy |-> OtelCopy]
    <2>1. /\ Becomes(r, known) /\ UNCHANGED componentVars
          /\ DOMAIN known = {"phase", "copy"} /\ known["phase"] = "export"
        BY <1>4 DEF CopySettings, Only
    <2> HIDE DEF known
    <2> QED
        BY <1>1, <2>1, RoutedStep
<1>5. CASE ReadInclude(r)
    <2>1. PICK shown, told :
             Only(r, [phase |-> "print", shown |-> shown, told |-> told])
        BY <1>5 DEF ReadInclude
    <2> DEFINE known == [phase |-> "print", shown |-> shown, told |-> told]
    <2>2. /\ Becomes(r, known) /\ UNCHANGED componentVars
          /\ DOMAIN known = {"phase", "shown", "told"} /\ known["phase"] = "print"
        BY <2>1 DEF Only
    <2> HIDE DEF known
    <2> QED
        BY <1>1, <2>2, RoutedStep
<1> QED
    BY <1>3, <1>4, <1>5

(* Configure cannot change what was found or answered. *)
LEMMA RouteInvBeside ==
    ASSUME RouteInv, Configure \/ ContinueConfigure \/ Environment \/ UNCHANGED vars
    PROVE  RouteInv'
<1>1. UNCHANGED <<plugins, req>>
    BY DEF Configure, ContinueConfigure, Environment, vars, pathVars
<1>2. passing' \subseteq Services
    <2>1. CASE UNCHANGED passing
        BY <2>1 DEF RouteInv
    <2>2. CASE \E i \in Services : HealthChanges(i)
        BY <2>2 DEF HealthChanges, RouteInv
    <2>3. ASSUME Configure PROVE UNCHANGED passing
        BY <2>3 DEF Configure, ConfigureAuthn, ConfigurePrompts, ConfigureRoutes,
                    ConfigureExports, ConfigureRouter, routesVars
    <2> QED
        BY <2>1, <2>2, <2>3 DEF ContinueConfigure, Environment, vars, routesVars
<1> QED
    BY <1>1, <1>2 DEF RouteInv, Shape, RoutesOK, Routed, Resolution, Answers

LEMMA RouteInvInit == Init => RouteInv
<1> SUFFICES ASSUME Init PROVE RouteInv
    OBVIOUS
<1>1. Shape /\ plugins \in Deployments
    BY AuthInvInit DEF AuthInv
<1>2. \A r \in Requests : req[r].phase = "new" /\ req[r].found = {}
    BY DEF Init, NewRequest
<1>3. passing \subseteq Services
    BY DEF Init, RoutesInit
<1>4. \A r \in Requests : RoutesOK(r)
    BY <1>2 DEF RoutesOK, Routed, Resolution, Answers
<1> QED
    BY <1>1, <1>2, <1>3, <1>4 DEF RouteInv

LEMMA RouteInvNext == RouteInv /\ [Next]_vars => RouteInv'
<1> SUFFICES ASSUME RouteInv, [Next]_vars PROVE RouteInv'
    OBVIOUS
<1>1. ASSUME NEW r \in Requests, Step(r) PROVE RouteInv'
    BY <1>1, RouteInvEarly, RouteInvChoose, RouteInvAnswers, RouteInvObservers
    DEF Step, EarlySteps
<1> QED
    BY <1>1, RouteInvBeside DEF Next

(* The fallback chain holds what it should, nothing else, and as often as it *)
(* was named, where router-consul may have looked at its instances with more *)
(* than one tag prefix (router-weighted/main.go:20-46,                       *)
(* router-consul/main.go:57-99).                                             *)
THEOREM RoutesAreComplete == Spec => []RoutesComplete
<1>1. ASSUME RouteInv, NEW r \in Requests, Routed(r)
      PROVE  RightRoutes(req[r].routes, plugins.router, req[r].found, req[r].under,
                         req[r].call.model)
    BY <1>1 DEF RouteInv, RoutesOK
<1>2. RouteInv => RoutesComplete
    BY <1>1 DEF RoutesComplete, RightRoutes, Certain, Possible, Healthy
<1> QED
    BY <1>2, RouteInvInit, RouteInvNext, PTL DEF Spec

-----------------------------------------------------------------------------
(* The answers are there: what a strategy asks for can be had.               *)

LEMMA SortedIsOrder ==
    ASSUME NEW set, IsFiniteSet(set), NEW R, NEW s, ListsInOrder(s, set, R)
    PROVE  s \in Orders(set) /\ DOMAIN s = 1..Cardinality(set)
<1>1. Cardinality(set) \in Nat
    BY FS_CardinalityType
<1> PICK k : k = Cardinality(set)
    OBVIOUS
<1>2. /\ s \in [1..k -> set]
      /\ \A x \in set : \E n \in 1..k : s[n] = x
      /\ \A m, n \in 1..k : m < n => s[m] # s[n]
    BY DEF ListsInOrder
<1>3. ASSUME NEW a \in 1..k, NEW b \in 1..k, s[a] = s[b] PROVE a = b
    <2>1. a < b \/ b < a \/ a = b
        BY <1>1
    <2> QED
        BY <1>2, <1>3, <2>1
<1>4. s \in Bijection(1..k, set)
    BY <1>2, <1>3 DEF Bijection, Injection, Surjection, IsInjective
<1> QED
    BY <1>2, <1>4 DEF Orders

LEMMA OrderExists ==
    ASSUME NEW set, IsFiniteSet(set)
    PROVE  Orders(set) # {}
<1>1. IsOrder(set \X set, set)
    BY DEF IsOrder
<1> QED
    BY <1>1, SortExists, SortedIsOrder

LEMMA WeightedAnswersExist == WeightedAnswers(Candidates) # {}
<1> DEFINE healthy == Healthy(Candidates)
           w(i) == Candidates[i].weight
           Before(i, j) == w(i) > w(j) \/ (w(i) = w(j) /\ i < j)
           R == {p \in healthy \X healthy : p[1] = p[2] \/ Before(p[1], p[2])}
<1>1. Len(Candidates) \in Nat /\ DOMAIN Candidates = 1..Len(Candidates)
    BY CallsAssumption
<1>2. IsFiniteSet(healthy) /\ healthy \subseteq 1..Len(Candidates)
    <2>1. IsFiniteSet(1..Len(Candidates)) /\ healthy \subseteq 1..Len(Candidates)
        BY <1>1, FS_Interval DEF Healthy
    <2> QED
        BY <2>1, FS_Subset
<1>3. \A i \in healthy : w(i) \in Int /\ i \in Int
    BY <1>1, <1>2, CallsAssumption
<1>4. ByWeight(Candidates, healthy) =
          {order \in Orders(healthy) : \A m, n \in DOMAIN order :
                                           m < n => Before(order[m], order[n])}
    BY DEF ByWeight
<1>5. Orders(healthy) # {}
    BY <1>2, OrderExists
<1>6. ByWeight(Candidates, healthy) # {}
    <2> HIDE DEF healthy, w
    <2>1. \A i, j \in healthy : <<i, j>> \in R <=> i = j \/ Before(i, j)
        OBVIOUS
    <2>2. IsOrder(R, healthy)
        <3>1. ASSUME NEW i \in healthy, NEW j \in healthy
              PROVE  i = j \/ Before(i, j) \/ Before(j, i)
            BY <1>3
        <3>2. ASSUME NEW i \in healthy, NEW j \in healthy, NEW l \in healthy,
                     Before(i, j), Before(j, l)
              PROVE  Before(i, l)
            BY <1>3, <3>2
        <3> HIDE DEF R, Before
        <3> QED
            BY <2>1, <3>1, <3>2 DEF IsOrder
    <2> HIDE DEF R, Before
    <2>3. PICK s : ListsInOrder(s, healthy, R)
        BY <1>2, <2>2, SortExists
    <2>4. s \in Orders(healthy) /\ DOMAIN s = 1..Cardinality(healthy)
        BY <1>2, <2>3, SortedIsOrder
    <2>5. /\ s \in [1..Cardinality(healthy) -> healthy]
          /\ \A m, n \in DOMAIN s : m < n => s[m] # s[n] /\ <<s[m], s[n]>> \in R
        BY <2>3, <2>4 DEF ListsInOrder
    <2>6. \A m, n \in DOMAIN s : m < n => Before(s[m], s[n])
        BY <2>1, <2>4, <2>5
    <2>7. s \in ByWeight(Candidates, healthy)
        BY <1>4, <2>4, <2>6
    <2> QED
        BY <2>7
<1> QED
    BY <1>5, <1>6 DEF WeightedAnswers

LEMMA ConsulAnswersExist ==
    ASSUME NEW mine, mine \subseteq Services
    PROVE  ConsulAnswers(mine) # {}
<1> DEFINE R == {p \in mine \X mine : p[1].id <= p[2].id}
<1>1. IsFiniteSet(mine) /\ \A i \in mine : i.id \in Int
    BY ServicesAssumption, FS_Subset
<1>2. ConsulAnswers(mine) =
          IF router.strategy = "shuffle" THEN Orders(mine)
          ELSE {order \in Orders(mine) :
                   \A m, n \in DOMAIN order : m < n => order[m].id <= order[n].id}
    BY DEF ConsulAnswers
<1>3. Orders(mine) # {}
    BY <1>1, OrderExists
<1>4. \A i, j \in mine : <<i, j>> \in R <=> i.id <= j.id
    OBVIOUS
<1> HIDE DEF R
<1>5. IsOrder(R, mine)
    <2>1. \A i, j \in mine : i.id <= j.id \/ j.id <= i.id
        BY <1>1
    <2>2. \A i, j, l \in mine : i.id <= j.id /\ j.id <= l.id => i.id <= l.id
        BY <1>1
    <2> QED
        BY <1>4, <2>1, <2>2 DEF IsOrder
<1>6. PICK s : ListsInOrder(s, mine, R)
    BY <1>1, <1>5, SortExists
<1>7. s \in Orders(mine) /\ DOMAIN s = 1..Cardinality(mine)
    BY <1>1, <1>6, SortedIsOrder
<1>8. /\ s \in [1..Cardinality(mine) -> mine]
      /\ \A m, n \in DOMAIN s : m < n => <<s[m], s[n]>> \in R
    BY <1>6, <1>7 DEF ListsInOrder
<1>9. \A m, n \in DOMAIN s : m < n => s[m].id <= s[n].id
    BY <1>4, <1>7, <1>8
<1> QED
    BY <1>2, <1>3, <1>7, <1>9

(* Route always has an answer to give: no setting of the strategy, and none  *)
(* that Configure makes between the question to Consul and its answer, asks  *)
(* for an order that there is not (router-weighted/main.go:21-78,            *)
(* router-consul/main.go:57-99).                                             *)
AnswersExist ==
    /\ WeightedAnswers(Candidates) # {}
    /\ \A r \in Requests : req[r].phase = "choose" => ConsulAnswers(req[r].mine) # {}

THEOREM RoutersAnswer == Spec => []AnswersExist
<1>1. ASSUME RouteInv, NEW r \in Requests, req[r].phase = "choose"
      PROVE  req[r].mine \subseteq Services
    BY <1>1 DEF RouteInv, RoutesOK, RightlyChosen, Possible
<1>2. RouteInv => AnswersExist
    BY <1>1, WeightedAnswersExist, ConsulAnswersExist DEF AnswersExist
<1> QED
    BY <1>2, RouteInvInit, RouteInvNext, PTL DEF Spec

-----------------------------------------------------------------------------
(* What is printed.  Configure of observer-stdout assigns twice; whatever it *)
(* was given, the second assignment comes to what that says, so that a look  *)
(* at the setting beside Configure sees the configuration given last, and    *)
(* what was seen then is kept until it is printed.                           *)
IncludeFollows ==
    /\ includeNext \in {"idle", "all", "omit"}
    /\ StdoutIsIdle => (include <=> Included(stdoutGiven))
    /\ includeNext = "all" => Included(stdoutGiven)
    /\ includeNext = "omit" => ~Included(stdoutGiven)

Printed == {"copy", "export", "count", "done", "unexported"}

AsTold(payload, r) ==
    \A config \in req[r].told : payload <=> req[r].call.payload /\ Included(config)

PrintInv ==
    /\ Shape
    /\ IncludeFollows
    /\ \A r \in Requests : req[r].phase = "print" => AsTold(req[r].shown, r)
    /\ \A line \in lines : /\ line.request \in Requests
                           /\ req[line.request].phase \in Printed
                           /\ AsTold(line.payload, line.request)

(* A step of r that prints nothing, and keeps what r was told if it is       *)
(* printed already.                                                          *)
LEMMA PrintKeeps ==
    ASSUME PrintInv, NEW r \in Requests, NEW known, DOMAIN known \subseteq Fields,
           Becomes(r, known), UNCHANGED componentVars, UNCHANGED lines,
           req'[r].phase = "print" => AsTold(req[r].shown, r)',
           req[r].phase \in Printed => /\ req'[r].phase \in Printed
                                       /\ UNCHANGED <<req[r].told, req[r].call>>
    PROVE  PrintInv'
<1>1. Shape' /\ \A q \in Requests \ {r} : req'[q] = req[q]
    BY Known DEF PrintInv
<1>2. IncludeFollows'
    BY DEF PrintInv, IncludeFollows, StdoutIsIdle, Included, componentVars, exportsVars,
           stdoutVars
<1>3. \A q \in Requests : req'[q].phase = "print" => AsTold(req[q].shown, q)'
    BY <1>1 DEF PrintInv, AsTold
<1>4. ASSUME NEW line \in lines
      PROVE  /\ line.request \in Requests
             /\ req'[line.request].phase \in Printed
             /\ AsTold(line.payload, line.request)'
    <2>1. /\ line.request \in Requests /\ req[line.request].phase \in Printed
          /\ AsTold(line.payload, line.request)
        BY DEF PrintInv
    <2>2. UNCHANGED <<req[line.request].told, req[line.request].call>>
        BY <1>1, <2>1
    <2>3. req'[line.request].phase \in Printed
        BY <1>1, <2>1
    <2> QED
        BY <2>1, <2>2, <2>3 DEF AsTold
<1> QED
    BY <1>1, <1>2, <1>3, <1>4 DEF PrintInv

(* The steps up to Emit: no line is of r yet.                                *)
LEMMA PrintInvEarly ==
    ASSUME PrintInv, NEW r \in Requests,
           \/ Arrive(r) \/ AuthenticateStatic(r) \/ AuthenticateTorn(r)
           \/ AuthenticatePostgres(r) \/ Lookup(r) \/ LookupFails(r) \/ ResolvePrompt(r)
           \/ ResolveTorn(r) \/ RouteWeighted(r) \/ Discover(r) \/ DiscoverFails(r)
           \/ Inspect(r) \/ RouteConsul(r)
    PROVE  PrintInv'
<1>1. req[r].phase \notin Printed \union {"print"}
    BY DEF Arrive, AuthenticateStatic, AuthenticateTorn, AuthenticatePostgres, Lookup,
           LookupFails, ResolvePrompt, ResolveTorn, RouteWeighted, Discover, DiscoverFails,
           Inspect, RouteConsul, At, Printed
<1>2. ASSUME NEW known, DOMAIN known \subseteq Fields,
             "phase" \in DOMAIN known => known["phase"] # "print",
             Becomes(r, known), UNCHANGED componentVars, UNCHANGED lines
      PROVE  PrintInv'
    <2>1. req'[r].phase # "print"
        BY <1>1, <1>2, Known DEF PrintInv, Fields
    <2> QED
        BY <1>1, <1>2, <2>1, PrintKeeps
<1>3. ASSUME NEW known, DOMAIN known \subseteq Fields,
             "phase" \in DOMAIN known => known["phase"] # "print", Only(r, known)
      PROVE  PrintInv'
    BY <1>2, <1>3 DEF Only
<1>4. CASE Arrive(r)
    <2>1. PICK call \in Calls : Only(r, [phase |-> "authn", call |-> call, before |-> revoked])
        BY <1>4 DEF Arrive
    <2> QED
        BY <1>3, <2>1 DEF Fields
<1>5. ASSUME NEW identity, Answered(r, identity) PROVE PrintInv'
    <2> DEFINE known == [phase |-> IF identity = Denied THEN "denied" ELSE "prompt",
                         identity |-> identity, basis |-> keysGiven,
                         steady |-> ~KeysAreLoading]
    <2>1. Only(r, known)
        BY <1>5 DEF Answered
    <2>2. DOMAIN known \subseteq Fields /\ known["phase"] # "print"
        BY DEF Fields
    <2> HIDE DEF known
    <2> QED
        BY <1>3, <2>1, <2>2
<1>6. CASE AuthenticateStatic(r) \/ Lookup(r)
    BY <1>5, <1>6 DEF AuthenticateStatic, Lookup
<1>7. CASE AuthenticatePostgres(r)
    <2>1. CASE Only(r, [phase |-> "lookup", table |-> table])
        BY <1>3, <2>1 DEF Fields
    <2> QED
        BY <1>5, <1>7, <2>1 DEF AuthenticatePostgres
<1>8. CASE AuthenticateTorn(r) \/ ResolveTorn(r)
    <2> DEFINE known == [phase |-> "failed"]
    <2>1. Becomes(r, known) /\ UNCHANGED componentVars /\ UNCHANGED lines
        BY <1>8 DEF AuthenticateTorn, ResolveTorn, Panics
    <2>2. DOMAIN known \subseteq Fields /\ known["phase"] # "print"
        BY DEF Fields
    <2> HIDE DEF known
    <2> QED
        BY <1>2, <2>1, <2>2
<1>9. CASE LookupFails(r) \/ DiscoverFails(r)
    <2>1. Only(r, [phase |-> "failed"])
        BY <1>9 DEF LookupFails, DiscoverFails
    <2> QED
        BY <1>3, <2>1 DEF Fields
<1>10. CASE ResolvePrompt(r)
    <2>1. PICK p, messages, steady, given :
             Only(r, [phase |-> "route", prompt |-> p, messages |-> messages,
                      steady |-> steady, given |-> given])
        BY <1>10 DEF ResolvePrompt
    <2> DEFINE known == [phase |-> "route", prompt |-> p, messages |-> messages,
                         steady |-> steady, given |-> given]
    <2>2. DOMAIN known \subseteq Fields /\ known["phase"] # "print"
        BY DEF Fields
    <2>3. Only(r, known)
        BY <2>1
    <2> HIDE DEF known
    <2> QED
        BY <1>3, <2>2, <2>3
<1>11. CASE RouteWeighted(r) \/ RouteConsul(r)
    <2>1. PICK routes : Only(r, [phase |-> "emit", routes |-> routes])
        BY <1>11 DEF RouteWeighted, RouteConsul
    <2> QED
        BY <1>3, <2>1 DEF Fields
<1>12. CASE Discover(r)
    <2> DEFINE known == [phase |-> "choose", found |-> Discovered, rest |-> Discovered,
                         mine |-> {}, under |-> {}]
    <2>1. Only(r, known)
        BY <1>12 DEF Discover
    <2>2. DOMAIN known \subseteq Fields /\ known["phase"] # "print"
        BY DEF Fields
    <2> HIDE DEF known
    <2> QED
        BY <1>3, <2>1, <2>2
<1>13. CASE Inspect(r)
    <2>1. PICK rest, mine, under : Only(r, [rest |-> rest, mine |-> mine, under |-> under])
        BY <1>13 DEF Inspect
    <2> DEFINE known == [rest |-> rest, mine |-> mine, under |-> under]
    <2>2. DOMAIN known = {"rest", "mine", "under"} /\ Only(r, known)
        BY <2>1
    <2> HIDE DEF known
    <2> QED
        BY <1>3, <2>2 DEF Fields
<1> QED
    BY <1>4, <1>6, <1>7, <1>8, <1>9, <1>10, <1>11, <1>12, <1>13

(* What Emit reads while Configure is not at work is what was configured.    *)
LEMMA PrintInvRead == ASSUME PrintInv, NEW r \in Requests, ReadInclude(r) PROVE PrintInv'
<1> DEFINE known == [phase |-> "print", shown |-> PrintedPayload(req[r].call.payload),
                     told |-> IF StdoutIsIdle THEN {stdoutGiven} ELSE {}]
<1>1. /\ Becomes(r, known) /\ UNCHANGED componentVars /\ UNCHANGED lines
      /\ req[r].phase = "emit"
    BY DEF ReadInclude, Only
<1>2. /\ DOMAIN known = {"phase", "shown", "told"}
      /\ known["phase"] = "print"
      /\ known["shown"] = PrintedPayload(req[r].call.payload)
      /\ known["told"] = IF StdoutIsIdle THEN {stdoutGiven} ELSE {}
    OBVIOUS
<1> HIDE DEF known
<1>3. DOMAIN known \subseteq Fields
    BY <1>2 DEF Fields
<1>4. /\ \A f \in DOMAIN known : req'[r][f] = known[f]
      /\ \A f \in Fields \ DOMAIN known : req'[r][f] = req[r][f]
    BY <1>1, <1>3, Known DEF PrintInv
<1>5. /\ req'[r].shown = PrintedPayload(req[r].call.payload)
      /\ req'[r].told = IF StdoutIsIdle THEN {stdoutGiven} ELSE {}
      /\ req'[r].call = req[r].call
    BY <1>2, <1>4 DEF Fields
<1>6. \A config \in req'[r].told : config = stdoutGiven /\ StdoutIsIdle
    BY <1>5
<1>7. ASSUME NEW config \in req'[r].told
      PROVE  req'[r].shown <=> req'[r].call.payload /\ Included(config)
    BY <1>5, <1>6 DEF PrintInv, IncludeFollows, PrintedPayload
<1>8. AsTold(req[r].shown, r)'
    BY <1>7 DEF AsTold, Included
<1>9. req[r].phase \notin Printed
    BY <1>1 DEF Printed
<1> QED
    BY <1>1, <1>3, <1>8, <1>9, PrintKeeps

LEMMA PrintInvPrint == ASSUME PrintInv, NEW r \in Requests, PrintEvent(r) PROVE PrintInv'
<1> DEFINE known == [phase |-> "copy"]
           new == [request |-> r, payload |-> req[r].shown]
<1>1. /\ Becomes(r, known) /\ UNCHANGED componentVars /\ lines' = lines \union {new}
      /\ req[r].phase = "print" /\ AsTold(req[r].shown, r)
    BY DEF PrintEvent, PrintInv
<1>2. /\ DOMAIN known = {"phase"} /\ known["phase"] = "copy"
      /\ new.request = r /\ new.payload = req[r].shown
    OBVIOUS
<1> HIDE DEF known, new
<1>3. DOMAIN known \subseteq Fields
    BY <1>2 DEF Fields
<1>4. /\ Shape' /\ \A q \in Requests \ {r} : req'[q] = req[q]
      /\ \A f \in DOMAIN known : req'[r][f] = known[f]
      /\ \A f \in Fields \ DOMAIN known : req'[r][f] = req[r][f]
    BY <1>1, <1>3, Known DEF PrintInv
<1>5. req'[r].phase = "copy" /\ req'[r].told = req[r].told /\ req'[r].call = req[r].call
    BY <1>2, <1>4 DEF Fields
<1>6. IncludeFollows'
    BY <1>1 DEF PrintInv, IncludeFollows, StdoutIsIdle, Included, componentVars, exportsVars,
                stdoutVars
<1>7. \A q \in Requests : req'[q].phase = "print" => AsTold(req[q].shown, q)'
    BY <1>4, <1>5 DEF PrintInv, AsTold
<1>8. ASSUME NEW line \in lines'
      PROVE  /\ line.request \in Requests
             /\ req'[line.request].phase \in Printed
             /\ AsTold(line.payload, line.request)'
    <2>1. CASE line = new
        BY <1>1, <1>2, <1>5, <2>1 DEF AsTold, Printed
    <2>2. CASE line \in lines
        <3>1. /\ line.request \in Requests /\ req[line.request].phase \in Printed
              /\ AsTold(line.payload, line.request)
            BY <2>2 DEF PrintInv
        <3>2. line.request # r
            BY <1>1, <3>1 DEF Printed
        <3> QED
            BY <1>4, <3>1, <3>2 DEF AsTold
    <2> QED
        BY <1>1, <2>1, <2>2
<1> QED
    BY <1>4, <1>6, <1>7, <1>8 DEF PrintInv

LEMMA PrintInvLate ==
    ASSUME PrintInv, NEW r \in Requests,
           \/ CopySettings(r) \/ PostLogs(r) \/ PostFails(r) \/ StartSpan(r) \/ AddCount(r)
    PROVE  PrintInv'
<1>1. ASSUME NEW known, DOMAIN known \subseteq {"phase", "copy"}, "phase" \in DOMAIN known,
             known["phase"] \in Printed, Becomes(r, known), UNCHANGED componentVars,
             UNCHANGED lines
      PROVE  PrintInv'
    <2>1. DOMAIN known \subseteq Fields
        BY <1>1 DEF Fields
    <2>2. /\ \A f \in DOMAIN known : req'[r][f] = known[f]
          /\ \A f \in Fields \ DOMAIN known : req'[r][f] = req[r][f]
        BY <1>1, <2>1, Known DEF PrintInv
    <2>3. req'[r].phase = known["phase"]
        BY <1>1, <2>2
    <2>4. UNCHANGED <<req[r].told, req[r].call>>
        BY <1>1, <2>2 DEF Fields
    <2>5. req'[r].phase # "print"
        BY <1>1, <2>3 DEF Printed
    <2> QED
        BY <1>1, <2>1, <2>3, <2>4, <2>5, PrintKeeps
<1>2. CASE CopySettings(r)
    <2> DEFINE known == [phase |-> "export", copy |-> OtelCopy]
    <2>1. Becomes(r, known) /\ UNCHANGED componentVars /\ UNCHANGED lines
        BY <1>2 DEF CopySettings, Only
    <2>2. DOMAIN known = {"phase", "copy"} /\ known["phase"] \in Printed
        BY DEF Printed
    <2> HIDE DEF known
    <2> QED
        BY <1>1, <2>1, <2>2
<1>3. ASSUME NEW phase \in Printed, Becomes(r, [phase |-> phase]), UNCHANGED componentVars,
             UNCHANGED lines
      PROVE  PrintInv'
    <2> DEFINE known == [phase |-> phase]
    <2>1. DOMAIN known = {"phase"} /\ known["phase"] \in Printed /\ Becomes(r, known)
        BY <1>3
    <2> HIDE DEF known
    <2> QED
        BY <1>1, <1>3, <2>1
<1>4. CASE PostLogs(r) \/ PostFails(r) \/ StartSpan(r) \/ AddCount(r)
    <2>1. PICK phase \in Printed : Becomes(r, [phase |-> phase])
        BY <1>4 DEF PostLogs, PostFails, StartSpan, AddCount, Sends, Only, Printed
    <2>2. UNCHANGED componentVars /\ UNCHANGED lines
        BY <1>4 DEF PostLogs, PostFails, StartSpan, AddCount, Sends, Only
    <2> QED
        BY <1>3, <2>1, <2>2
<1> QED
    BY <1>2, <1>4

(* Configure includes everything first, and is at work until it has assigned *)
(* what was configured.                                                      *)
LEMMA PrintInvBeside ==
    ASSUME PrintInv, Configure \/ ContinueConfigure \/ Environment \/ UNCHANGED vars
    PROVE  PrintInv'
<1>1. UNCHANGED <<req, lines>>
    BY DEF Configure, ContinueConfigure, Environment, vars, pathVars
<1>2. ASSUME IncludeFollows' PROVE PrintInv'
    BY <1>1, <1>2 DEF PrintInv, Shape, AsTold
<1>3. CASE UNCHANGED stdoutVars
    BY <1>2, <1>3 DEF PrintInv, IncludeFollows, StdoutIsIdle, Included, stdoutVars
<1>4. CASE \E c \in StdoutConfigs : IncludeFirst(c)
    <2>1. PICK c \in StdoutConfigs : IncludeFirst(c)
        BY <1>4
    <2>2. /\ stdoutGiven' = c
          /\ includeNext' = IF Included(c) THEN "all" ELSE "omit"
        BY <2>1 DEF IncludeFirst
    <2>3. Included(stdoutGiven)' <=> Included(c)
        BY <2>2 DEF Included
    <2> QED
        BY <1>2, <2>2, <2>3 DEF IncludeFollows, StdoutIsIdle
<1>5. CASE IncludeAsConfigured
    <2>1. /\ UNCHANGED stdoutGiven
          /\ includeNext' = "idle" /\ include' = (includeNext = "all")
          /\ includeNext \in {"all", "omit"}
        BY <1>5 DEF IncludeAsConfigured, StdoutIsIdle, PrintInv, IncludeFollows
    <2>2. include' <=> Included(stdoutGiven)
        BY <2>1 DEF PrintInv, IncludeFollows
    <2> QED
        BY <1>2, <2>1, <2>2 DEF IncludeFollows, StdoutIsIdle, Included
<1>6. ASSUME Configure PROVE PrintInv'
    BY <1>3, <1>4, <1>6 DEF Configure, ConfigureAuthn, ConfigurePrompts, ConfigureRoutes,
                            ConfigureExports, ConfigureOtel, exportsVars
<1>7. ASSUME ContinueConfigure PROVE PrintInv'
    BY <1>3, <1>5, <1>7 DEF ContinueConfigure, exportsVars
<1> QED
    BY <1>3, <1>6, <1>7 DEF Environment, vars, exportsVars

LEMMA PrintInvInit == Init => PrintInv
<1> SUFFICES ASSUME Init PROVE PrintInv
    OBVIOUS
<1>1. req = [r \in Requests |-> NewRequest] /\ lines = {} /\ ExportsInit
    BY DEF Init
<1>2. DOMAIN NewRequest = Fields /\ NewRequest.phase = "new"
    BY DEF NewRequest, Fields
<1>3. Shape /\ \A r \in Requests : req[r].phase = "new"
    BY <1>1, <1>2 DEF Shape
<1>4. IncludeFollows
    BY <1>1 DEF ExportsInit, IncludeFollows, StdoutIsIdle
<1> QED
    BY <1>1, <1>3, <1>4 DEF PrintInv

(* An event is printed with its payload exactly if the configuration that    *)
(* observer-stdout was given last includes payloads, when Emit looks beside  *)
(* Configure, whatever Configure does before the line is written             *)
(* (observer-stdout/main.go:17-45).                                          *)
THEOREM PayloadsPrinted == Spec => []PayloadsAsConfigured
<1>1. PrintInv => PayloadsAsConfigured
    BY DEF PrintInv, PayloadsAsConfigured, AsTold
<1>2. PrintInv /\ [Next]_vars => PrintInv'
    <2> SUFFICES ASSUME PrintInv, [Next]_vars PROVE PrintInv'
        OBVIOUS
    <2>1. ASSUME NEW r \in Requests, Step(r) PROVE PrintInv'
        BY <2>1, PrintInvEarly, PrintInvRead, PrintInvPrint, PrintInvLate DEF Step
    <2> QED
        BY <2>1, PrintInvBeside DEF Next
<1> QED
    BY <1>1, <1>2, PrintInvInit, PTL DEF Spec
=============================================================================
