--------------------------------- MODULE Keys ---------------------------------
(***************************************************************************)
(* API keys. A secret is kept as its hash alone, so keys move between      *)
(* instances as records of id and hash, and an import must not bring back  *)
(* what was revoked since the export. SQL has a unique index on the hash;  *)
(* Mongo's index is not unique, and what import and add read before they   *)
(* insert is all there is against a second record of one key.              *)
(***************************************************************************)
EXTENDS Naturals

CONSTANTS
    KeyId, Secret,
    Admin,      \* CLI commands and dashboard requests at a time
    Foreign,    \* bound: records of another instance that may be imported
    NoDoc       \* no document

VARIABLES
    sqlKeys,    \* whether the backend is SQL
    docs,       \* api_keys
    file,       \* the last export, or another instance's
    admin,
    dead        \* secrets a revoke has answered for, for properties

keysVars == <<sqlKeys, docs, file, admin, dead>>

KeyRecord == [id : KeyId, key_sha : Secret]
Doc       == [key_sha : Secret, revoked : BOOLEAN]

ASSUME KeysAssumption == NoDoc \notin Doc /\ Foreign \subseteq KeyRecord

AdminIdle == [pc |-> "idle", rows |-> {}, ids |-> {}, shas |-> {}]

KeysTypeOK ==
    /\ sqlKeys \in BOOLEAN
    /\ docs \in [KeyId -> Doc \union {NoDoc}]
    /\ file \subseteq KeyRecord
    /\ admin \in [Admin -> [pc : {"idle", "add", "import"}, rows : SUBSET KeyRecord,
                            ids : SUBSET KeyId, shas : SUBSET Secret]]
    /\ dead \subseteq Secret

KeysInit ==
    /\ sqlKeys \in BOOLEAN
    /\ docs = [k \in KeyId |-> NoDoc]
    /\ file \in SUBSET Foreign
    /\ admin = [a \in Admin |-> AdminIdle]
    /\ dead = {}

-----------------------------------------------------------------------------

Taken    == {k \in KeyId : docs[k] # NoDoc}
Standing == {k \in Taken : ~docs[k].revoked}

\* Mutant: revoked records do not count as present, as for find_api_key_by_hash.
LiveShas == {docs[k].key_sha : k \in Standing}

AllShas  == {docs[k].key_sha : k \in Taken}

\* find_api_key_by_hash: what verify accepts.
Accepted == {docs[k].key_sha : k \in Standing}

\* On Mongo one administrator works at a time here; two are a race that both
\* reads lose.
MayStart(a) == admin[a].pc = "idle" /\ (sqlKeys \/ \A b \in Admin : admin[b].pc = "idle")
Rest(a)     == admin' = [admin EXCEPT ![a] = AdminIdle]

\* The indexes: the id, and on SQL the hash as well.
Insertable(k, s) == docs[k] = NoDoc /\ (sqlKeys => s \notin AllShas)
Inserted(k, s)   == docs' = [docs EXCEPT ![k] = [key_sha |-> s, revoked |-> FALSE]]

\* generate, with a random secret: nothing has seen it before.
Seen == AllShas \union {r.key_sha : r \in file \union UNION {admin[a].rows : a \in Admin}}

Generate(k, s) ==
    /\ docs[k] = NoDoc /\ s \notin Seen
    /\ Inserted(k, s)
    /\ UNCHANGED <<sqlKeys, file, admin, dead>>

\* generate, with a given secret: refused when any record has it.
BeginProvided(a, k, s) ==
    /\ MayStart(a) /\ s \notin AllShas
    /\ admin' = [admin EXCEPT ![a] = [AdminIdle EXCEPT
                    !.pc = "add", !.rows = {[id |-> k, key_sha |-> s]}]]
    /\ UNCHANGED <<sqlKeys, docs, file, dead>>

InsertProvided(a) ==
    /\ admin[a].pc = "add"
    /\ \E r \in admin[a].rows :
          IF Insertable(r.id, r.key_sha) THEN Inserted(r.id, r.key_sha) ELSE UNCHANGED docs
    /\ Rest(a)
    /\ UNCHANGED <<sqlKeys, file, dead>>

Export ==
    /\ file' = {[id |-> k, key_sha |-> docs[k].key_sha] : k \in Standing}
    /\ UNCHANGED <<sqlKeys, docs, admin, dead>>

BeginImport(a) ==
    /\ MayStart(a) /\ file # {}
    /\ admin' = [admin EXCEPT ![a] = [pc |-> "import", rows |-> file,
                                      ids |-> Taken, shas |-> AllShas]]
    /\ UNCHANGED <<sqlKeys, docs, file, dead>>

SkipRow(a, r) ==
    /\ admin[a].pc = "import" /\ r \in admin[a].rows
    /\ r.key_sha \in admin[a].shas
    /\ admin' = [admin EXCEPT ![a].rows = @ \ {r}]
    /\ UNCHANGED <<sqlKeys, docs, file, dead>>

\* A taken id is remapped to a random one; a refused insert ends the import,
\* with the rows before it kept.
ImportRow(a, r, k) ==
    /\ admin[a].pc = "import" /\ r \in admin[a].rows
    /\ r.key_sha \notin admin[a].shas
    /\ IF r.id \in admin[a].ids THEN docs[k] = NoDoc ELSE k = r.id
    /\ IF Insertable(k, r.key_sha)
       THEN /\ Inserted(k, r.key_sha)
            /\ admin' = [admin EXCEPT ![a].rows = @ \ {r}, ![a].ids = @ \union {k},
                                      ![a].shas = @ \union {r.key_sha}]
       ELSE Rest(a) /\ UNCHANGED docs
    /\ UNCHANGED <<sqlKeys, file, dead>>

EndImport(a) ==
    /\ admin[a].pc = "import" /\ admin[a].rows = {}
    /\ Rest(a)
    /\ UNCHANGED <<sqlKeys, docs, file, dead>>

Revoke(k) ==
    /\ k \in Taken /\ ~docs[k].revoked
    /\ docs' = [docs EXCEPT ![k].revoked = TRUE]
    /\ dead' = dead \union {docs[k].key_sha}
    /\ UNCHANGED <<sqlKeys, file, admin>>

AdminDies(a) ==
    /\ admin[a].pc # "idle"
    /\ Rest(a)
    /\ UNCHANGED <<sqlKeys, docs, file, dead>>

KeysNext ==
    \/ Export
    \/ \E k \in KeyId : Revoke(k) \/ \E s \in Secret : Generate(k, s)
    \/ \E a \in Admin :
          \/ InsertProvided(a) \/ BeginImport(a) \/ EndImport(a) \/ AdminDies(a)
          \/ \E k \in KeyId, s \in Secret : BeginProvided(a, k, s)
          \/ \E r \in admin[a].rows : SkipRow(a, r) \/ \E k \in KeyId : ImportRow(a, r, k)

Keys == KeysInit /\ [][KeysNext]_keysVars

-----------------------------------------------------------------------------

\* A key whose revocation was answered is refused from then on: an import of
\* what was exported before the revocation skips it, on this instance, however
\* often it is imported and whatever id it has come to have (import_keys:
\* "Idempotent: a key_sha already present is skipped").
RevokedStaysRevoked == dead \intersect Accepted = {}
=============================================================================
