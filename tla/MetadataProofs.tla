--------------------------- MODULE MetadataProofs ---------------------------
(***************************************************************************)
(* What the metadata store promises: a revoked key stays revoked, a walk   *)
(* of a listing shows a row that stands still exactly once, SQL and Mongo  *)
(* show and answer alike; and what the settings of a request come to. For  *)
(* any number of keys, commands, rows, changes, pages, tenants, labels,    *)
(* profiles and modes, and any size of an image.                           *)
(***************************************************************************)
EXTENDS MCMetadata, CodesProofs, FiniteSetTheorems, TLAPS

-----------------------------------------------------------------------------
(* API keys (Keys)                                                         *)

\* Every secret has one record, and a dead one has it still. On SQL the index on
\* the hash sees to that; on Mongo the one command at work has read every hash
\* that is there of those it is going to insert.
OneRecord ==
    /\ KeysTypeOK
    /\ RevokedStaysRevoked
    /\ dead \subseteq AllShas
    /\ \A k, l \in Taken : docs[k].key_sha = docs[l].key_sha => k = l
    /\ ~sqlKeys => \A a \in Admin :
          /\ admin[a].pc # "idle" => \A b \in Admin : admin[b].pc # "idle" => b = a
          /\ admin[a].pc = "add" => \A r \in admin[a].rows : r.key_sha \notin AllShas
          /\ admin[a].pc = "import" => \A r \in admin[a].rows :
                r.key_sha \in AllShas => r.key_sha \in admin[a].shas

AdminType == [pc : {"idle", "add", "import"}, rows : SUBSET KeyRecord,
              ids : SUBSET KeyId, shas : SUBSET Secret]

LEMMA InitOneRecord == KeysInit => OneRecord
BY KeysAssumption DEF KeysInit, OneRecord, KeysTypeOK, RevokedStaysRevoked, AllShas, Accepted, Taken,
   Standing, AdminIdle

\* A record is added under a free id, for a secret that has none.
LEMMA InsertOne ==
    ASSUME OneRecord, NEW k \in KeyId, NEW s \in Secret, docs[k] = NoDoc, s \notin AllShas,
           Inserted(k, s)
    PROVE  /\ docs' \in [KeyId -> Doc \union {NoDoc}]
           /\ AllShas' = AllShas \union {s}
           /\ Accepted' = Accepted \union {s}
           /\ \A i, j \in Taken' : docs'[i].key_sha = docs'[j].key_sha => i = j
<1> USE KeysAssumption
<1>1. /\ docs' \in [KeyId -> Doc \union {NoDoc}]
      /\ docs'[k] = [key_sha |-> s, revoked |-> FALSE] /\ docs'[k] \in Doc
      /\ \A i \in KeyId \ {k} : docs'[i] = docs[i]
  BY DEF OneRecord, KeysTypeOK, Inserted, Doc
<1>2. Taken' = Taken \union {k} /\ Standing' = Standing \union {k} /\ k \notin Taken
  <2>1. \A i \in KeyId : i \in Taken' <=> i \in Taken \/ i = k
    BY <1>1 DEF Taken
  <2>2. \A i \in KeyId : i \in Standing' <=> i \in Standing \/ i = k
    BY <1>1, <2>1 DEF Standing, Taken
  <2>3. QED
    BY <2>1, <2>2 DEF Taken, Standing
<1>3. \A i \in Taken : i # k /\ docs'[i] = docs[i] /\ i \in KeyId
  BY <1>1, <1>2 DEF Taken
<1>4. AllShas' = AllShas \union {s}
  BY <1>1, <1>2, <1>3 DEF AllShas
<1>5. Accepted' = Accepted \union {s}
  BY <1>1, <1>2, <1>3 DEF Accepted, Standing
<1>6. \A i \in Taken : docs[i].key_sha # s
  BY DEF AllShas
<1>7. \A i, j \in Taken' : docs'[i].key_sha = docs'[j].key_sha => i = j
  BY <1>1, <1>2, <1>3, <1>6 DEF OneRecord
<1>8. QED
  BY <1>1, <1>4, <1>5, <1>7

\* What a command reads and does besides inserting is no matter to the records.
LEMMA ReadsOneRecord ==
    ASSUME OneRecord, UNCHANGED <<sqlKeys, docs, dead>>, NEW a \in Admin, NEW r \in AdminType,
           file' \subseteq KeyRecord, admin' = [admin EXCEPT ![a] = r],
           ~sqlKeys /\ r.pc # "idle" =>
              /\ \A b \in Admin : admin[b].pc # "idle" => b = a
              /\ r.pc = "add" => \A x \in r.rows : x.key_sha \notin AllShas
              /\ r.pc = "import" => \A x \in r.rows : x.key_sha \in AllShas => x.key_sha \in r.shas
    PROVE  OneRecord'
<1>1. /\ admin' \in [Admin -> AdminType] /\ admin'[a] = r
      /\ \A b \in Admin : b # a => admin'[b] = admin[b]
  BY DEF OneRecord, KeysTypeOK, AdminType
<1>2. KeysTypeOK'
  BY <1>1 DEF OneRecord, KeysTypeOK, AdminType
<1>3. AllShas' = AllShas /\ Taken' = Taken /\ Accepted' = Accepted
  BY DEF AllShas, Taken, Accepted, Standing
<1>4. ASSUME ~sqlKeys, NEW b \in Admin
      PROVE  /\ admin'[b].pc # "idle" => \A c \in Admin : admin'[c].pc # "idle" => c = b
             /\ admin'[b].pc = "add" => \A x \in admin'[b].rows : x.key_sha \notin AllShas
             /\ admin'[b].pc = "import" => \A x \in admin'[b].rows :
                   x.key_sha \in AllShas => x.key_sha \in admin'[b].shas
  BY <1>1, <1>4 DEF OneRecord
<1>5. QED
  BY <1>2, <1>3, <1>4 DEF OneRecord, RevokedStaysRevoked

\* A record inserted for a secret that no other command at work on Mongo holds.
LEMMA InsertsOneRecord ==
    ASSUME OneRecord, NEW k \in KeyId, NEW s \in Secret, docs[k] = NoDoc, s \notin AllShas,
           Inserted(k, s), UNCHANGED <<sqlKeys, file, dead>>,
           admin' \in [Admin -> AdminType],
           ~sqlKeys => \A a \in Admin :
              /\ admin'[a].pc # "idle" => admin[a].pc = admin'[a].pc
              /\ admin'[a].rows \subseteq admin[a].rows \/ admin'[a].pc = "idle"
              /\ admin[a].shas \subseteq admin'[a].shas \/ admin'[a].pc = "idle"
              /\ admin'[a].pc # "idle" =>
                    s \in admin'[a].shas \/ \A x \in admin'[a].rows : x.key_sha # s
              /\ admin'[a].pc = "add" => \A x \in admin'[a].rows : x.key_sha # s
    PROVE  OneRecord'
<1>1. /\ docs' \in [KeyId -> Doc \union {NoDoc}]
      /\ AllShas' = AllShas \union {s}
      /\ Accepted' = Accepted \union {s}
      /\ \A i, j \in Taken' : docs'[i].key_sha = docs'[j].key_sha => i = j
  BY InsertOne
<1>2. KeysTypeOK'
  BY <1>1 DEF OneRecord, KeysTypeOK, AdminType
<1>3. RevokedStaysRevoked' /\ dead' \subseteq AllShas'
  BY <1>1 DEF OneRecord, RevokedStaysRevoked
<1>4. ASSUME ~sqlKeys, NEW b \in Admin
      PROVE  /\ admin'[b].pc # "idle" => \A c \in Admin : admin'[c].pc # "idle" => c = b
             /\ admin'[b].pc = "add" => \A x \in admin'[b].rows : x.key_sha \notin AllShas'
             /\ admin'[b].pc = "import" => \A x \in admin'[b].rows :
                   x.key_sha \in AllShas' => x.key_sha \in admin'[b].shas
  BY <1>1, <1>4 DEF OneRecord
<1>5. QED
  BY <1>1, <1>2, <1>3, <1>4 DEF OneRecord

\* The one record of a secret is the only one that a revocation has to reach.
LEMMA RevokeOneRecord ==
    ASSUME OneRecord, NEW k \in KeyId, Revoke(k) PROVE OneRecord'
<1> USE KeysAssumption
<1>1. /\ k \in Taken /\ docs[k] \in Doc /\ docs[k].key_sha \in Secret
      /\ UNCHANGED <<sqlKeys, file, admin>> /\ dead' = dead \union {docs[k].key_sha}
  BY DEF Revoke, OneRecord, KeysTypeOK, Taken, Doc
<1>2. /\ docs' \in [KeyId -> Doc \union {NoDoc}]
      /\ docs'[k] \in Doc /\ docs'[k].key_sha = docs[k].key_sha /\ docs'[k].revoked
      /\ \A i \in KeyId : i # k => docs'[i] = docs[i]
  BY <1>1 DEF Revoke, OneRecord, KeysTypeOK, Doc
<1>3. Taken' = Taken /\ \A i \in Taken : i \in KeyId /\ docs'[i].key_sha = docs[i].key_sha
  BY <1>1, <1>2 DEF Taken
<1>4. Standing' = Standing \ {k}
  BY <1>2, <1>3 DEF Standing
<1>5. AllShas' = AllShas
  BY <1>3 DEF AllShas
<1>6. Accepted' \subseteq Accepted
  BY <1>3, <1>4 DEF Accepted, Standing
<1>7. docs[k].key_sha \notin Accepted' /\ docs[k].key_sha \in AllShas
  BY <1>1, <1>3, <1>4 DEF OneRecord, Accepted, Standing, AllShas
<1>8. KeysTypeOK'
  BY <1>1, <1>2 DEF OneRecord, KeysTypeOK
<1>9. QED
  BY <1>1, <1>3, <1>5, <1>6, <1>7, <1>8 DEF OneRecord, RevokedStaysRevoked

LEMMA StepOneRecord == OneRecord /\ [KeysNext]_keysVars => OneRecord'
<1> SUFFICES ASSUME OneRecord, [KeysNext]_keysVars PROVE OneRecord'
  OBVIOUS
<1>0. admin \in [Admin -> AdminType] /\ \A a \in Admin : admin[a] \in AdminType
  BY DEF OneRecord, KeysTypeOK, AdminType
<1>1. CASE UNCHANGED keysVars
  BY <1>1 DEF keysVars, OneRecord, KeysTypeOK, RevokedStaysRevoked, AllShas, Accepted,
              Taken, Standing
<1>2. CASE Export
  <2>1. file' \subseteq KeyRecord
    <3>1. \A k \in Standing : k \in KeyId /\ docs[k] \in Doc
      BY DEF Standing, Taken, OneRecord, KeysTypeOK
    <3>2. QED
      BY <1>2, <3>1 DEF Export, KeyRecord, Doc
  <2>2. QED
    BY <1>2, <2>1 DEF Export, OneRecord, KeysTypeOK, RevokedStaysRevoked, AllShas,
                      Accepted, Taken, Standing
<1>3. ASSUME NEW k \in KeyId, Revoke(k) PROVE OneRecord'
  BY <1>3, RevokeOneRecord
<1>4. ASSUME NEW k \in KeyId, NEW s \in Secret, Generate(k, s) PROVE OneRecord'
  <2>1. /\ docs[k] = NoDoc /\ s \notin Seen /\ Inserted(k, s)
        /\ UNCHANGED <<sqlKeys, file, admin, dead>>
    BY <1>4 DEF Generate
  <2>2. s \notin AllShas /\ \A a \in Admin : \A x \in admin[a].rows : x.key_sha # s
    BY <2>1 DEF Seen
  <2>3. QED
    BY <1>0, <2>1, <2>2, InsertsOneRecord
<1>5. ASSUME NEW a \in Admin, NEW k \in KeyId, NEW s \in Secret, BeginProvided(a, k, s)
      PROVE  OneRecord'
  <2> DEFINE r == [AdminIdle EXCEPT !.pc = "add", !.rows = {[id |-> k, key_sha |-> s]}]
  <2>0. [id |-> k, key_sha |-> s] \in KeyRecord
    BY DEF KeyRecord
  <2>1. r \in AdminType /\ r.pc = "add" /\ \A x \in r.rows : x.key_sha = s
    <3>1. AdminIdle \in AdminType
      BY DEF AdminType, AdminIdle
    <3>2. r \in AdminType /\ r.pc = "add" /\ r.rows = {[id |-> k, key_sha |-> s]}
      BY <2>0, <3>1 DEF AdminType
    <3>3. QED
      BY <3>2
  <2>2. /\ s \notin AllShas /\ admin' = [admin EXCEPT ![a] = r]
        /\ UNCHANGED <<sqlKeys, docs, file, dead>>
        /\ ~sqlKeys => \A b \in Admin : admin[b].pc = "idle"
    BY <1>5 DEF BeginProvided, MayStart
  <2>3. file' \subseteq KeyRecord
    BY <2>2 DEF OneRecord, KeysTypeOK
  <2> HIDE DEF r
  <2>4. QED
    BY <2>1, <2>2, <2>3, ReadsOneRecord
<1>6. ASSUME NEW a \in Admin, BeginImport(a) PROVE OneRecord'
  <2> DEFINE r == [pc |-> "import", rows |-> file, ids |-> Taken, shas |-> AllShas]
  <2>1. AllShas \subseteq Secret /\ Taken \subseteq KeyId /\ file \subseteq KeyRecord
    BY DEF AllShas, Taken, OneRecord, KeysTypeOK, Doc
  <2>2. r \in AdminType /\ r.pc = "import" /\ r.shas = AllShas
    BY <2>1 DEF AdminType
  <2>3. /\ admin' = [admin EXCEPT ![a] = r]
        /\ UNCHANGED <<sqlKeys, docs, file, dead>>
        /\ ~sqlKeys => \A b \in Admin : admin[b].pc = "idle"
    BY <1>6 DEF BeginImport, MayStart
  <2> HIDE DEF r
  <2>4. QED
    BY <2>1, <2>2, <2>3, ReadsOneRecord
<1>7. ASSUME NEW a \in Admin, NEW x \in admin[a].rows, SkipRow(a, x) PROVE OneRecord'
  <2> DEFINE r == [admin[a] EXCEPT !.rows = @ \ {x}]
  <2>1. /\ r \in AdminType /\ r.pc = admin[a].pc /\ r.shas = admin[a].shas
        /\ r.rows = admin[a].rows \ {x}
    BY <1>0 DEF AdminType
  <2>2. /\ admin' = [admin EXCEPT ![a] = r] /\ admin[a].pc = "import"
        /\ UNCHANGED <<sqlKeys, docs, file, dead>>
    BY <1>0, <1>7 DEF SkipRow
  <2>3. file' \subseteq KeyRecord
    BY <2>2 DEF OneRecord, KeysTypeOK
  <2> HIDE DEF r
  <2>4. ~sqlKeys => /\ \A b \in Admin : admin[b].pc # "idle" => b = a
                    /\ \A y \in admin[a].rows : y.key_sha \in AllShas => y.key_sha \in admin[a].shas
    BY <2>2 DEF OneRecord
  <2>5. QED
    BY <2>1, <2>2, <2>3, <2>4, ReadsOneRecord
<1>8. ASSUME NEW a \in Admin, Rest(a), UNCHANGED <<sqlKeys, docs, file, dead>> PROVE OneRecord'
  <2>1. AdminIdle \in AdminType /\ AdminIdle.pc = "idle"
    BY DEF AdminType, AdminIdle
  <2>2. file' \subseteq KeyRecord /\ admin' = [admin EXCEPT ![a] = AdminIdle]
    BY <1>8 DEF OneRecord, KeysTypeOK, Rest
  <2>3. QED
    BY <1>8, <2>1, <2>2, ReadsOneRecord
<1>9. ASSUME NEW a \in Admin, InsertProvided(a) PROVE OneRecord'
  <2>1. PICK x \in admin[a].rows :
           IF Insertable(x.id, x.key_sha) THEN Inserted(x.id, x.key_sha) ELSE UNCHANGED docs
    BY <1>9 DEF InsertProvided
  <2>2. /\ admin[a].pc = "add" /\ Rest(a) /\ UNCHANGED <<sqlKeys, file, dead>>
        /\ x.id \in KeyId /\ x.key_sha \in Secret
    BY <1>0, <1>9, <2>1 DEF InsertProvided, AdminType, KeyRecord
  <2>3. CASE ~Insertable(x.id, x.key_sha)
    BY <1>8, <2>1, <2>2, <2>3
  <2>4. CASE Insertable(x.id, x.key_sha)
    <3>1. docs[x.id] = NoDoc /\ x.key_sha \notin AllShas
      BY <2>1, <2>2, <2>4 DEF Insertable, OneRecord
    <3>2. /\ admin' \in [Admin -> AdminType] /\ admin'[a].pc = "idle"
          /\ \A b \in Admin : b # a => admin'[b] = admin[b]
      BY <1>0, <2>2 DEF Rest, AdminIdle, AdminType
    <3>3. ~sqlKeys => \A b \in Admin : admin'[b].pc = "idle"
      BY <2>2, <3>2 DEF OneRecord
    <3>4. QED
      BY <2>1, <2>2, <2>4, <3>1, <3>2, <3>3, InsertsOneRecord
  <2>5. QED
    BY <2>3, <2>4
<1>10. ASSUME NEW a \in Admin, NEW x \in admin[a].rows, NEW k \in KeyId, ImportRow(a, x, k)
       PROVE  OneRecord'
  <2>1. /\ admin[a].pc = "import" /\ x.key_sha \notin admin[a].shas
        /\ UNCHANGED <<sqlKeys, file, dead>>
        /\ x \in KeyRecord /\ x.key_sha \in Secret
    BY <1>0, <1>10 DEF ImportRow, AdminType, KeyRecord
  <2>2. CASE ~Insertable(k, x.key_sha)
    BY <1>8, <1>10, <2>2 DEF ImportRow
  <2>3. CASE Insertable(k, x.key_sha)
    <3> DEFINE r == [admin[a] EXCEPT !.rows = @ \ {x}, !.ids = @ \union {k},
                                     !.shas = @ \union {x.key_sha}]
    <3>1. /\ r \in AdminType /\ r.pc = "import" /\ r.rows = admin[a].rows \ {x}
          /\ r.shas = admin[a].shas \union {x.key_sha}
      BY <1>0, <2>1 DEF AdminType
    <3>2. Inserted(k, x.key_sha) /\ admin' = [admin EXCEPT ![a] = r]
      BY <1>0, <1>10, <2>3 DEF ImportRow
    <3> HIDE DEF r
    <3>3. docs[k] = NoDoc /\ x.key_sha \notin AllShas
      BY <2>1, <2>3 DEF Insertable, OneRecord
    <3>4. /\ admin' \in [Admin -> AdminType] /\ admin'[a] = r
          /\ \A b \in Admin : b # a => admin'[b] = admin[b]
      BY <1>0, <3>1, <3>2
    <3>5. ~sqlKeys => \A b \in Admin : b # a => admin'[b].pc = "idle"
      BY <2>1, <3>4 DEF OneRecord
    <3>6. QED
      BY <2>1, <3>1, <3>2, <3>3, <3>4, <3>5, InsertsOneRecord
  <2>4. QED
    BY <2>2, <2>3
<1>11. QED
  BY <1>1, <1>2, <1>3, <1>4, <1>5, <1>6, <1>7, <1>8, <1>9, <1>10
     DEF KeysNext, EndImport, AdminDies

\* The inductive invariant of the keys: one record for every secret.
THEOREM OneRecordHolds == Keys => []OneRecord
BY InitOneRecord, StepOneRecord, PTL DEF Keys

\* A key whose revocation was answered is refused from then on.
THEOREM RevokedStaysRevokedHolds == Keys => []RevokedStaysRevoked
<1>1. OneRecord => RevokedStaysRevoked
  BY DEF OneRecord
<1>2. QED
  BY <1>1, OneRecordHolds, PTL

-----------------------------------------------------------------------------
(* Listings (Listing)                                                      *)

\* While the client pages, the rows on its pages so far are, of those nothing
\* has happened to, the ones its query shows that are not beyond the cursor.
Walked ==
    /\ ListingTypeOK
    /\ SteadyListedOnce
    /\ walk.pc = "idle" => walk.first /\ \A r \in RowId : listed[r] = 0
    /\ walk.pc = "paging" =>
          \A r \in steady :
             listed[r] = IF Shown(r, walk.query) /\ ~Beyond(r) THEN 1 ELSE 0

-----------------------------------------------------------------------------

\* A value is in an entry of the copy that names the tenant exactly when the
\* tenant has that label.
LEMMA EntryHas ==
    ASSUME NEW ls \in SUBSET Label, NEW h, NEW v \in Value
    PROVE  (\E e \in Lbl(ls) : e.tenant = h /\ v \in e.values) <=> <<h, v>> \in ls
<1>1. ASSUME NEW e \in Lbl(ls), e.tenant = h, v \in e.values PROVE <<h, v>> \in ls
  <2>1. PICK l \in ls : e = [tenant |-> l[1], values |-> {u \in Value : <<l[1], u>> \in ls}]
    BY <1>1 DEF Lbl
  <2>2. QED
    BY <1>1, <2>1
<1>2. ASSUME <<h, v>> \in ls PROVE \E e \in Lbl(ls) : e.tenant = h /\ v \in e.values
  <2>0. PICK l \in ls : l = <<h, v>>
    BY <1>2
  <2> DEFINE e == [tenant |-> l[1], values |-> {u \in Value : <<l[1], u>> \in ls}]
  <2>1. e \in Lbl(ls)
    BY DEF Lbl
  <2>2. e.tenant = h /\ v \in e.values
    BY <1>2, <2>0
  <2>3. QED
    BY <2>1, <2>2
<1>3. QED
  BY <1>1, <1>2

\* An entry is of a tenant with a label, and has all the tenant's values.
LEMMA EntryFull ==
    ASSUME NEW ls \in SUBSET Label, NEW e \in Lbl(ls)
    PROVE  e.values = {v \in Value : <<e.tenant, v>> \in ls}
<1>1. PICK l \in ls : e = [tenant |-> l[1], values |-> {u \in Value : <<l[1], u>> \in ls}]
  BY DEF Lbl
<1>2. QED
  BY <1>1

\* The three forms of a scope ask for the same labels.
LEMMA ScopesAgree ==
    ASSUME NEW ls \in SUBSET Label, NEW q \in Query
    PROVE  /\ ScopeMongo(ls, q) <=> ScopeSql(ls, q)
           /\ AllowsSha(ls, q) <=> ScopeSql(ls, q)
<1>1. CASE ~Scoped(q)
  BY <1>1 DEF ScopeMongo, ScopeSql, AllowsSha
<1>2. CASE Scoped(q)
  <2> DEFINE h == q.holder
  <2>1. h \in Holder /\ ScopeOf[h] \subseteq Value /\ ScopeOf[h] # {}
    BY <1>2, ListingAssumption DEF Scoped, Query
  <2> HIDE DEF h
  <2>2. ScopeSql(ls, q) <=> \A v \in ScopeOf[h] : <<h, v>> \in ls
    BY <1>2 DEF ScopeSql, h
  <2>3. ScopeMongo(ls, q) <=> \E e \in Lbl(ls) : e.tenant = h /\ ScopeOf[h] \subseteq e.values
    BY <1>2 DEF ScopeMongo, h
  <2>4. AllowsSha(ls, q) <=> \A v \in ScopeOf[h] : \E l \in ls : l[1] = h /\ l[2] = v
    BY <1>2 DEF AllowsSha, h
  <2>5. ASSUME \A v \in ScopeOf[h] : <<h, v>> \in ls
        PROVE  \E e \in Lbl(ls) : e.tenant = h /\ ScopeOf[h] \subseteq e.values
    <3>1. PICK u \in ScopeOf[h] : u \in Value /\ <<h, u>> \in ls
      BY <2>1, <2>5
    <3>2. PICK e \in Lbl(ls) : e.tenant = h
      BY <3>1, EntryHas
    <3>3. ScopeOf[h] \subseteq e.values
      BY <2>1, <2>5, <3>2, EntryFull
    <3>4. QED
      BY <3>2, <3>3
  <2>6. ASSUME \E e \in Lbl(ls) : e.tenant = h /\ ScopeOf[h] \subseteq e.values
        PROVE  \A v \in ScopeOf[h] : <<h, v>> \in ls
    BY <2>1, <2>6, EntryHas
  <2>7. \A v : (\E l \in ls : l[1] = h /\ l[2] = v) <=> <<h, v>> \in ls
    <3>1. \A l \in ls : l = <<l[1], l[2]>>
      BY DEF Label
    <3>2. QED
      BY <3>1
  <2>8. QED
    BY <2>2, <2>3, <2>4, <2>5, <2>6, <2>7
<1>3. QED
  BY <1>1, <1>2

\* The two forms of a query show the same rows.
LEMMA QueriesAgree ==
    ASSUME NEW ls \in SUBSET Label, NEW q \in Query
    PROVE  ShownMongo(ls, q) <=> ShownSql(ls, q)
<1>1. q.values \subseteq Value
  BY DEF Query
<1>2. ASSUME NEW v \in q.values
      PROVE  (\E e \in Lbl(ls) : v \in e.values /\ (Scoped(q) => e.tenant = q.holder))
             <=> (\E l \in ls : l[2] = v /\ (Scoped(q) => l[1] = q.holder))
  <2>1. ASSUME NEW e \in Lbl(ls), v \in e.values, Scoped(q) => e.tenant = q.holder
        PROVE  \E l \in ls : l[2] = v /\ (Scoped(q) => l[1] = q.holder)
    <3>1. <<e.tenant, v>> \in ls
      BY <1>1, <2>1, EntryHas
    <3>2. QED
      BY <2>1, <3>1
  <2>2. ASSUME NEW l \in ls, l[2] = v, Scoped(q) => l[1] = q.holder
        PROVE  \E e \in Lbl(ls) : v \in e.values /\ (Scoped(q) => e.tenant = q.holder)
    <3>1. <<l[1], v>> \in ls
      BY <2>2 DEF Label
    <3>2. PICK e \in Lbl(ls) : e.tenant = l[1] /\ v \in e.values
      BY <1>1, <3>1, EntryHas
    <3>3. QED
      BY <2>2, <3>2
  <2>3. QED
    BY <2>1, <2>2
<1>3. QED
  BY <1>2, ScopesAgree DEF ShownMongo, ShownSql

-----------------------------------------------------------------------------

\* The order of a listing is total on the rows, and no row is ahead of itself.
LEMMA AheadTotal ==
    ASSUME ListingTypeOK
    PROVE  /\ \A r \in RowId : ~Ahead(r, r)
           /\ \A r, s \in RowId : r # s => Ahead(r, s) \/ Ahead(s, r)
           /\ \A r, s, t \in RowId : Ahead(r, s) /\ Ahead(s, t) => Ahead(r, t)
<1>1. \A r \in RowId : r \in Int /\ rows[r].key \in Int
  BY ListingAssumption DEF ListingTypeOK, Row
<1>2. QED
  BY <1>1 DEF Ahead, Precedes

\* A finite page that is not empty has a last row.
LEMMA LastRow ==
    ASSUME ListingTypeOK, NEW page \in SUBSET RowId, page # {}
    PROVE  /\ Last(page) \in page
           /\ \A s \in page \ {Last(page)} : Ahead(s, Last(page))
<1> DEFINE After(r) == {s \in page : Ahead(r, s)}
           T == {After(r) : r \in page}
<1>1. IsFiniteSet(page)
  BY ListingAssumption, FS_Subset
<1>2. T \subseteq FiniteSubsetsOf(page) /\ T # {}
  <2>1. \A r \in page : After(r) \in SUBSET page /\ IsFiniteSet(After(r))
    BY <1>1, FS_Subset
  <2>2. QED
    BY <2>1 DEF FiniteSubsetsOf
<1>3. PICK x \in T : \A y \in T : <<y, x>> \notin StrictSubsetOrdering(page)
  <2>1. IsWellFoundedOn(StrictSubsetOrdering(page), FiniteSubsetsOf(page))
    BY FS_StrictSubsetOrderingWellFounded
  <2> HIDE DEF T
  <2>2. QED
    BY <1>2, <2>1, WFMin
<1>4. PICK r \in page : x = After(r)
  BY DEF T
<1>5. ASSUME NEW s \in page, s # r PROVE Ahead(s, r)
  <2>1. SUFFICES ASSUME Ahead(r, s) PROVE FALSE
    BY <1>5, AheadTotal
  <2>2. After(s) \subseteq After(r)
    BY <2>1, AheadTotal
  <2>3. s \in After(r) /\ s \notin After(s)
    BY <2>1, AheadTotal
  <2>4. <<After(s), After(r)>> \in StrictSubsetOrdering(page)
    BY <2>2, <2>3 DEF StrictSubsetOrdering
  <2>5. QED
    BY <1>3, <1>4, <2>4 DEF T
<1>6. \E t \in page : \A s \in page \ {t} : Ahead(s, t)
  BY <1>5
<1>7. QED
  BY <1>6 DEF Last

\* Past the cursor of a page are the rows that were, but for the page.
LEMMA Beyonds ==
    ASSUME ListingTypeOK, NEW page \in SUBSET RowId, page # {}, page \subseteq Candidates,
           \A r \in page, s \in Candidates \ page : Ahead(r, s),
           NEW r \in RowId, Shown(r, walk.query)
    PROVE  Ahead(Last(page), r) <=> Beyond(r) /\ r \notin page
<1> DEFINE l == Last(page)
<1>1. l \in page /\ l \in RowId /\ l \in Candidates /\ \A s \in page \ {l} : Ahead(s, l)
  BY LastRow
<1> HIDE DEF l
<1>2. CASE r \in page
  BY <1>1, <1>2, AheadTotal DEF l
<1>3. CASE r \notin page /\ Beyond(r)
  <2>1. r \in Candidates \ page
    BY <1>3 DEF Candidates
  <2>2. QED
    BY <1>1, <1>3, <2>1 DEF l
<1>4. CASE ~Beyond(r)
  <2>1. /\ r \in Int /\ rows[r].key \in Int /\ l \in Int /\ rows[l].key \in Int
        /\ walk.id \in Int /\ walk.key \in Int
    BY <1>1, ListingAssumption DEF ListingTypeOK, Row, Walk
  <2>2. Precedes(walk.key, walk.id, rows[l].key, l) /\ ~walk.first
        /\ ~Precedes(walk.key, walk.id, rows[r].key, r)
    BY <1>1, <1>4 DEF Candidates, Beyond
  <2>3. ~Ahead(l, r)
    BY <2>1, <2>2 DEF Ahead, Precedes
  <2>4. QED
    BY <1>4, <2>3 DEF l
<1>5. QED
  BY <1>2, <1>3, <1>4

-----------------------------------------------------------------------------

LEMMA InitWalked == ListingInit => Walked
<1> SUFFICES ASSUME ListingInit PROVE Walked
  OBVIOUS
<1>1. (CHOOSE k \in SortKey : TRUE) \in SortKey /\ (CHOOSE r \in RowId : TRUE) \in RowId
  BY QueriesAssumption
<1>2. rows \in [RowId -> Row]
  BY DEF ListingInit, Row
<1>3. walk \in Walk /\ walk.pc = "idle" /\ walk.first
  BY <1>1, QueriesAssumption DEF ListingInit, Walk
<1>4. listed \in [RowId -> Nat] /\ \A r \in RowId : listed[r] = 0
  BY DEF ListingInit
<1>5. steady \subseteq RowId /\ changes \in 0..MaxChanges
  BY ListingAssumption DEF ListingInit
<1>6. QED
  BY <1>2, <1>3, <1>4, <1>5 DEF Walked, ListingTypeOK, SteadyListedOnce

LEMMA BeginWalked ==
    ASSUME Walked, Begin
    PROVE  Walked'
<1> DEFINE n == Cardinality({r \in RowId : Shown(r, walk.query)})
<1>1. n \in Nat
  BY ListingAssumption, FS_Subset, FS_CardinalityType
<1> DEFINE t == IF n > CountCap THEN CountCap ELSE n
           c == n > CountCap
<1>2. walk' = [walk EXCEPT !.pc = "paging", !.total = t, !.capped = c]
  BY DEF Begin, Counted
<1> HIDE DEF n
<1>7. t \in Nat /\ c \in BOOLEAN
  BY <1>1, ListingAssumption
<1> HIDE DEF t, c
<1>3. /\ walk \in Walk /\ walk.first /\ \A r \in RowId : listed[r] = 0
      /\ steady' = RowId /\ UNCHANGED <<rows, listed, changes>>
  BY DEF Walked, ListingTypeOK, Begin
<1>4. walk' \in Walk /\ walk'.pc = "paging" /\ walk'.first
  BY <1>2, <1>3, <1>7 DEF Walk
<1>5. ListingTypeOK'
  BY <1>3, <1>4 DEF Walked, ListingTypeOK
<1>6. QED
  BY <1>3, <1>4, <1>5 DEF Walked, SteadyListedOnce, Beyond

\* A page lists each of its rows once.
LEMMA PageListed ==
    ASSUME ListingTypeOK, NEW page \in SUBSET RowId, Listed(page)
    PROVE  /\ listed' \in [RowId -> Nat]
           /\ \A r \in RowId : listed'[r] = IF r \in page THEN listed[r] + 1 ELSE listed[r]
BY DEF ListingTypeOK, Listed

LEMMA NextPageWalked ==
    ASSUME Walked, NEW page \in SUBSET RowId, NextPage(page)
    PROVE  Walked'
<1> DEFINE l == Last(page)
<1>1. /\ ListingTypeOK /\ walk \in Walk /\ walk.pc = "paging" /\ page # {}
      /\ page \subseteq Candidates
      /\ \A r \in page, s \in Candidates \ page : Ahead(r, s)
      /\ walk' = [walk EXCEPT !.key = rows[l].key, !.id = l, !.first = FALSE]
      /\ UNCHANGED <<rows, steady, changes>>
  BY ListingAssumption, FS_EmptySet DEF Walked, ListingTypeOK, NextPage, Full
<1>2. l \in RowId
  BY <1>1, LastRow
<1> HIDE DEF l
<1>3. /\ walk' \in Walk /\ walk'.pc = "paging" /\ walk'.query = walk.query
      /\ walk'.desc = walk.desc /\ walk'.key = rows[l].key /\ walk'.id = l /\ ~walk'.first
  BY <1>1, <1>2 DEF Walk, ListingTypeOK, Row
<1>4. /\ listed' \in [RowId -> Nat]
      /\ \A r \in RowId : listed'[r] = IF r \in page THEN listed[r] + 1 ELSE listed[r]
  BY <1>1, PageListed DEF NextPage
<1>5. ListingTypeOK'
  BY <1>1, <1>3, <1>4 DEF ListingTypeOK
<1>6. ASSUME NEW r \in steady
      PROVE  listed'[r] = IF Shown(r, walk.query)' /\ ~Beyond(r)' THEN 1 ELSE 0
  <2>1. r \in RowId /\ listed[r] = IF Shown(r, walk.query) /\ ~Beyond(r) THEN 1 ELSE 0
    BY <1>1 DEF Walked, ListingTypeOK
  <2>2. Shown(r, walk.query)' <=> Shown(r, walk.query)
    BY <1>1, <1>3 DEF Shown
  <2>3. Beyond(r)' <=> Ahead(l, r)
    BY <1>1, <1>3 DEF Beyond, Ahead, Precedes
  <2>4. r \in page => Shown(r, walk.query) /\ Beyond(r)
    BY <1>1 DEF Candidates
  <2>5. Shown(r, walk.query) => (Ahead(l, r) <=> Beyond(r) /\ r \notin page)
    BY <1>1, <2>1, Beyonds DEF l
  <2>6. QED
    BY <1>4, <2>1, <2>2, <2>3, <2>4, <2>5
<1>7. QED
  BY <1>1, <1>3, <1>5, <1>6 DEF Walked, SteadyListedOnce

LEMMA LastPageWalked ==
    ASSUME Walked, NEW page \in SUBSET RowId, LastPage(page)
    PROVE  Walked'
<1>1. /\ ListingTypeOK /\ walk \in Walk /\ walk.pc = "paging" /\ page = Candidates
      /\ walk' = [walk EXCEPT !.pc = "ended"]
      /\ UNCHANGED <<rows, steady, changes>>
  BY DEF Walked, ListingTypeOK, LastPage, Final
<1>2. walk' \in Walk /\ walk'.pc = "ended" /\ walk'.query = walk.query
  BY <1>1 DEF Walk
<1>3. /\ listed' \in [RowId -> Nat]
      /\ \A r \in RowId : listed'[r] = IF r \in page THEN listed[r] + 1 ELSE listed[r]
  BY <1>1, PageListed DEF LastPage
<1>4. ListingTypeOK'
  BY <1>1, <1>2, <1>3 DEF ListingTypeOK
<1>5. ASSUME NEW r \in steady PROVE listed'[r] = IF Shown(r, walk.query)' THEN 1 ELSE 0
  <2>1. r \in RowId /\ listed[r] = IF Shown(r, walk.query) /\ ~Beyond(r) THEN 1 ELSE 0
    BY <1>1 DEF Walked, ListingTypeOK
  <2>2. Shown(r, walk.query)' <=> Shown(r, walk.query)
    BY <1>1, <1>2 DEF Shown
  <2>3. r \in page <=> Shown(r, walk.query) /\ Beyond(r)
    BY <1>1, <2>1 DEF Candidates
  <2>4. QED
    BY <1>3, <2>1, <2>2, <2>3
<1>6. QED
  BY <1>1, <1>2, <1>4, <1>5 DEF Walked, SteadyListedOnce

\* Whatever happens to a row happens to that row alone, and it is steady no more.
LEMMA ChangeWalked ==
    ASSUME Walked, NEW r \in RowId, Changed(r), NEW x \in Row, rows' = [rows EXCEPT ![r] = x]
    PROVE  Walked'
<1>1. /\ ListingTypeOK /\ walk.pc = "paging" /\ changes' \in 0..MaxChanges
      /\ steady' = steady \ {r} /\ UNCHANGED <<walk, listed>>
  BY ListingAssumption DEF Walked, ListingTypeOK, Changed
<1>2. rows' \in [RowId -> Row] /\ \A s \in RowId : s # r => rows'[s] = rows[s]
  BY <1>1 DEF ListingTypeOK
<1>3. ListingTypeOK'
  BY <1>1, <1>2 DEF ListingTypeOK
<1>4. ASSUME NEW s \in steady'
      PROVE  listed'[s] = IF Shown(s, walk.query)' /\ ~Beyond(s)' THEN 1 ELSE 0
  <2>1. /\ s \in RowId /\ rows'[s] = rows[s] /\ s \in steady
        /\ listed[s] = IF Shown(s, walk.query) /\ ~Beyond(s) THEN 1 ELSE 0
    BY <1>1, <1>2 DEF Walked, ListingTypeOK
  <2>2. /\ Shown(s, walk.query)' <=> Shown(s, walk.query)
        /\ Beyond(s)' <=> Beyond(s)
    BY <1>1, <2>1 DEF Shown, Beyond, Precedes
  <2>3. QED
    BY <1>1, <2>1, <2>2
<1>5. QED
  BY <1>1, <1>3, <1>4 DEF Walked, SteadyListedOnce

LEMMA NextWalked == Walked /\ [ListingNext]_listingVars => Walked'
<1> SUFFICES ASSUME Walked, [ListingNext]_listingVars PROVE Walked'
  OBVIOUS
<1>1. CASE Begin
  BY <1>1, BeginWalked
<1>2. ASSUME NEW page \in SUBSET RowId, NextPage(page) \/ LastPage(page) PROVE Walked'
  BY <1>2, NextPageWalked, LastPageWalked
<1>3. ASSUME NEW r \in RowId, Delete(r) PROVE Walked'
  <2>1. [rows[r] EXCEPT !.there = FALSE] \in Row
    BY DEF Walked, ListingTypeOK, Row
  <2>2. rows' = [rows EXCEPT ![r] = [rows[r] EXCEPT !.there = FALSE]] /\ Changed(r)
    BY <1>3 DEF Delete
  <2>3. QED
    BY <2>1, <2>2, ChangeWalked
<1>4. ASSUME NEW r \in RowId, NEW k \in SortKey, Move(r, k) PROVE Walked'
  <2>1. [rows[r] EXCEPT !.key = k] \in Row
    BY DEF Walked, ListingTypeOK, Row
  <2>2. rows' = [rows EXCEPT ![r] = [rows[r] EXCEPT !.key = k]] /\ Changed(r)
    BY <1>4 DEF Move
  <2>3. QED
    BY <2>1, <2>2, ChangeWalked
<1>5. ASSUME NEW r \in RowId, NEW ls \in Labelling, Relabel(r, ls) PROVE Walked'
  <2>1. [rows[r] EXCEPT !.labels = ls] \in Row
    BY DEF Walked, ListingTypeOK, Row
  <2>2. rows' = [rows EXCEPT ![r] = [rows[r] EXCEPT !.labels = ls]] /\ Changed(r)
    BY <1>5 DEF Relabel
  <2>3. QED
    BY <2>1, <2>2, ChangeWalked
<1>6. ASSUME NEW r \in RowId, NEW ls \in Labelling, NEW k \in SortKey, Insert(r, k, ls)
      PROVE  Walked'
  <2>1. [there |-> TRUE, key |-> k, labels |-> ls] \in Row
    BY DEF Row
  <2>2. rows' = [rows EXCEPT ![r] = [there |-> TRUE, key |-> k, labels |-> ls]] /\ Changed(r)
    BY <1>6 DEF Insert
  <2>3. QED
    BY <2>1, <2>2, ChangeWalked
<1>7. CASE UNCHANGED listingVars
  BY <1>7 DEF listingVars, Walked, ListingTypeOK, SteadyListedOnce, Shown, Beyond, Precedes
<1>8. QED
  BY <1>1, <1>2, <1>3, <1>4, <1>5, <1>6, <1>7 DEF ListingNext

\* The cursor knows what the pages have shown: of the rows that stand still, each
\* one the query shows and the cursor has passed once, and no other.
THEOREM WalkedHolds == ListingSpec => []Walked
<1>1. ListingInit => Walked
  BY InitWalked
<1>2. Walked /\ [ListingNext]_listingVars => Walked'
  BY NextWalked
<1>3. QED
  BY <1>1, <1>2, PTL DEF ListingSpec

\* A walk of the pages of any length, over any rows, with any sort keys and any
\* page size, shows a row that nothing happened to once if the query shows it
\* and never otherwise (query_artifacts, query_jobs).
THEOREM SteadyListedOnceHolds == ListingSpec => []SteadyListedOnce
<1>1. Walked => SteadyListedOnce
  BY DEF Walked
<1>2. QED
  BY <1>1, WalkedHolds, PTL

\* For any tenants, values, scopes and labels, _scope_filter over the copy of
\* the labels shows and refuses what Scope.sql does, and so does
\* scope_allows_sha.
THEOREM BackendsAgreeHolds == ListingSpec => []BackendsAgree
<1>1. Walked => BackendsAgree
  <2> SUFFICES ASSUME Walked, NEW r \in RowId, NEW q \in Query
               PROVE  /\ ShownMongo(rows[r].labels, q) <=> ShownSql(rows[r].labels, q)
                      /\ AllowsSha(rows[r].labels, q) <=> ScopeSql(rows[r].labels, q)
    BY DEF BackendsAgree
  <2>1. rows[r].labels \in SUBSET Label
    BY QueriesAssumption DEF Walked, ListingTypeOK, Row
  <2>2. QED
    BY <2>1, QueriesAgree, ScopesAgree
<1>2. QED
  BY <1>1, WalkedHolds, PTL

-----------------------------------------------------------------------------
(* Single reads (Lookups)                                                  *)

\* Mongo's window takes in every artifact an image has.
WindowSeesAll == IsFiniteSet(Variant) /\ Cardinality(Variant) <= Window

BoundOnce ==
    /\ LookupsTypeOK
    /\ \A n \in Namespace : \A b, c \in bound[n] : b = c

LEMMA InitBound == LookupsInit => BoundOnce
BY LookupsAssumption DEF LookupsInit, BoundOnce, LookupsTypeOK, Making, NotMade, Rule

LEMMA NextBound == BoundOnce /\ [LookupsNext]_lookupsVars => BoundOnce'
<1> SUFFICES ASSUME BoundOnce, [LookupsNext]_lookupsVars PROVE BoundOnce'
  OBVIOUS
<1> USE LookupsAssumption
<1>1. LookupsTypeOK /\ NotMade \in Making
  BY DEF BoundOnce, Making, NotMade
<1>2. CASE Tick
  BY <1>1, <1>2 DEF Tick, BoundOnce, LookupsTypeOK
<1>3. CASE DropImageRows
  BY <1>1, <1>3 DEF DropImageRows, BoundOnce, LookupsTypeOK
<1>4. ASSUME NEW v \in Variant, MakeVariant(v) \/ ExpireVariant(v) PROVE BoundOnce'
  <2>0. second \in 0..MaxSeconds
    BY <1>1 DEF LookupsTypeOK
  <2>1. /\ [at |-> second, live |-> TRUE] \in Making
        /\ [variants[v] EXCEPT !.live = FALSE] \in Making
    BY <1>1, <2>0 DEF LookupsTypeOK, Making
  <2>2. variants' \in [Variant -> Making]
    BY <1>1, <1>4, <2>1 DEF LookupsTypeOK, MakeVariant, ExpireVariant
  <2>3. QED
    BY <1>1, <1>4, <2>2 DEF MakeVariant, ExpireVariant, BoundOnce, LookupsTypeOK
<1>5. ASSUME NEW n \in Namespace, NEW b \in Variant \union {NoneGiven}, BindTo(n, b)
      PROVE  BoundOnce'
  BY <1>1, <1>5 DEF BindTo, BoundOnce, LookupsTypeOK
<1>6. ASSUME NEW n \in Namespace, Release(n) PROVE BoundOnce'
  BY <1>1, <1>6 DEF Release, BoundOnce, LookupsTypeOK
<1>7. ASSUME NEW w \in Namespace \X Word, AddWord(w) PROVE BoundOnce'
  BY <1>1, <1>7 DEF AddWord, BoundOnce, LookupsTypeOK
<1>8. ASSUME NEW r \in Rule, AddRule(r) \/ DropRule(r) PROVE BoundOnce'
  BY <1>1, <1>8 DEF AddRule, DropRule, BoundOnce, LookupsTypeOK
<1>9. CASE UNCHANGED lookupsVars
  BY <1>9 DEF lookupsVars, BoundOnce, LookupsTypeOK
<1>10. QED
  BY <1>2, <1>3, <1>4, <1>5, <1>6, <1>7, <1>8, <1>9 DEF LookupsNext

\* Where the window takes in every artifact, it is the only one.
LEMMA OneWindow ==
    ASSUME WindowSeesAll, NEW vs \in SUBSET Variant
    PROVE  Windows(vs) = {vs}
<1>1. IsFiniteSet(vs) /\ Cardinality(vs) <= Cardinality(Variant)
  BY FS_Subset DEF WindowSeesAll
<1>2. Cardinality(vs) \in Nat /\ Cardinality(Variant) \in Nat /\ Window \in Nat
  BY <1>1, FS_CardinalityType, LookupsAssumption DEF WindowSeesAll
<1>3. Cardinality(vs) = Window \/ Cardinality(vs) < Window
  BY <1>1, <1>2 DEF WindowSeesAll
<1>4. vs \in Windows(vs)
  BY <1>3 DEF Windows
<1>5. ASSUME NEW w \in Windows(vs) PROVE w = vs
  <2>1. w \in SUBSET vs /\ (Cardinality(w) = Window \/ w = vs)
    BY <1>5 DEF Windows
  <2>2. CASE Cardinality(w) = Window
    <3>1. Cardinality(w) <= Cardinality(vs) /\ (Cardinality(vs) = Cardinality(w) => vs = w)
      BY <1>1, <2>1, FS_Subset
    <3>2. QED
      BY <1>2, <1>3, <2>2, <3>1
  <2>3. QED
    BY <2>1, <2>2
<1>6. QED
  BY <1>4, <1>5

LEMMA FirstLiveAgrees ==
    ASSUME WindowSeesAll, NEW vs \in SUBSET Variant
    PROVE  FirstLive(vs) = LiveFirst(vs)
<1>1. Windows(vs) = {vs}
  BY OneWindow
<1>2. FirstLive(vs) = LET alive == {v \in vs : Alive(v)}
                      IN  Newest(IF alive = {} THEN vs ELSE alive)
  BY <1>1 DEF FirstLive
<1>3. QED
  BY <1>2 DEF LiveFirst

\* A code read without a profile names the one its tenant has bound it to.
LEMMA ByCodeAgrees ==
    ASSUME WindowSeesAll, BoundOnce, NEW n \in Namespace, NEW p \in Variant \union {NoneGiven}
    PROVE  SqlByCode(n, p) = MongoByCode(n, p)
<1> DEFINE given == bound[n] \ {NoneGiven}
           found == {v \in Having(p) : \E b \in bound[n] : p # NoneGiven \/ b \in {NoneGiven, v}}
<1>1. bound[n] \subseteq Variant \union {NoneGiven} /\ NoneGiven \notin Variant
      /\ \A b, c \in bound[n] : b = c
  BY LookupsAssumption DEF BoundOnce, LookupsTypeOK
<1>2. SqlByCode(n, p) = LiveFirst(found)
  BY DEF SqlByCode
<1>3. CASE bound[n] = {}
  <2>1. found = {}
    BY <1>3
  <2>2. LiveFirst({}) = {}
    BY DEF LiveFirst, Newest
  <2>3. QED
    BY <1>2, <1>3, <2>1, <2>2 DEF MongoByCode
<1>4. CASE bound[n] # {} /\ (p # NoneGiven \/ given = {})
  <2>1. found = Having(p)
    BY <1>1, <1>4
  <2>2. MongoByCode(n, p) = FirstLive(Having(p))
    BY <1>4 DEF MongoByCode
  <2>3. Having(p) \in SUBSET Variant
    BY DEF Having
  <2>4. QED
    BY <1>2, <2>1, <2>2, <2>3, FirstLiveAgrees
<1>5. CASE p = NoneGiven /\ given # {}
  <2>1. found = Having(NoneGiven) \intersect given
    BY <1>1, <1>5 DEF Having
  <2>2. MongoByCode(n, p) = FirstLive(Having(NoneGiven) \intersect given)
    BY <1>5 DEF MongoByCode
  <2>3. Having(NoneGiven) \intersect given \in SUBSET Variant
    BY DEF Having
  <2>4. QED
    BY <1>2, <2>1, <2>2, <2>3, FirstLiveAgrees
<1>6. QED
  BY <1>3, <1>4, <1>5

LEMMA PublicAgrees ==
    ASSUME BoundOnce PROVE SqlPublic <=> MongoPublic
<1>1. /\ \A w \in words : w = <<w[1], w[2]>> /\ w[1] \in Namespace
      /\ \A r \in rules : r[1] \in Namespace \union {NoneGiven}
  BY DEF BoundOnce, LookupsTypeOK, Rule
<1>2. ASSUME NEW r \in rules, NEW w \in words, w[2] = r[2], r[1] = NoneGiven \/ w[1] = r[1]
      PROVE  MongoPublic
  <2>1. w[1] \in Namespace /\ (r[1] # NoneGiven => w[1] = r[1])
        /\ r[2] \in {u[2] : u \in {l \in words : l[1] = w[1]}}
    BY <1>1, <1>2
  <2>2. QED
    BY <2>1 DEF MongoPublic
<1>3. ASSUME NEW r \in rules, NEW n \in Namespace, r[1] # NoneGiven => n = r[1],
             r[2] \in {u[2] : u \in {l \in words : l[1] = n}}
      PROVE  SqlPublic
  <2>1. PICK w \in words : w[1] = n /\ w[2] = r[2]
    BY <1>3
  <2>2. QED
    BY <1>3, <2>1 DEF SqlPublic
<1>4. QED
  BY <1>2, <1>3 DEF SqlPublic, MongoPublic

\* A tenant's code is bound to one profile at a time.
THEOREM BoundOnceHolds == Lookups => []BoundOnce
<1>1. LookupsInit => BoundOnce
  BY InitBound
<1>2. BoundOnce /\ [LookupsNext]_lookupsVars => BoundOnce'
  BY NextBound
<1>3. QED
  BY <1>1, <1>2, PTL DEF Lookups

\* SQL and Mongo answer every read of an image alike, and no expired artifact
\* hides a live one, for any number of profiles that the window of _live_first
\* takes in, of tenants, labels and rules.
THEOREM ReadsAgreeHolds ==
    ASSUME WindowSeesAll PROVE Lookups => []ReadsAgree
<1>1. BoundOnce => ReadsAgree
  <2> SUFFICES ASSUME BoundOnce PROVE ReadsAgree
    OBVIOUS
  <2>1. ASSUME NEW p \in Variant \union {NoneGiven} PROVE SqlRefs(p) = MongoRefs(p)
    <3>1. Having(p) \in SUBSET Variant
      BY DEF Having
    <3>2. QED
      BY <3>1, FirstLiveAgrees DEF SqlRefs, MongoRefs
  <2>2. ASSUME NEW p \in Variant, NEW n \in Namespace, p # NoneGiven, Usable(n, p)
        PROVE  SqlByCode(n, p) = {p}
    <3>1. /\ MadeAt(p) > 0 /\ Alive(p) /\ bound[n] # {} /\ MadeAt(p) \in Nat
      BY <2>2 DEF Usable, MadeAt, BoundOnce, LookupsTypeOK, Making
    <3>2. {v \in Having(p) : \E b \in bound[n] : p # NoneGiven \/ b \in {NoneGiven, v}} = {p}
      BY <2>2, <3>1 DEF Having
    <3>3. LiveFirst({p}) = {p}
      BY <3>1 DEF LiveFirst, Newest
    <3>4. QED
      BY <3>2, <3>3 DEF SqlByCode
  <2>3. ASSUME NEW p \in Variant \union {NoneGiven}, NEW u \in Having(p), Alive(u),
               NEW v \in SqlRefs(p)
        PROVE  Alive(v)
    BY <2>3 DEF SqlRefs, LiveFirst, Newest
  <2>4. QED
    BY <2>1, <2>2, <2>3, ByCodeAgrees, PublicAgrees DEF ReadsAgree
<1>2. QED
  BY <1>1, BoundOnceHolds, PTL

-----------------------------------------------------------------------------
(* The settings of a request (Redaction)                                   *)

\* A class that the request sets to null resolves as if the request left it out.
LEMMA ModesResolved ==
    ASSUME RedactionTypeOK, NEW c \in Class, request.modes # Null, request.modes[c] = Null,
           config.modes = Null \/ config.modes[c] \in {Null, Omitted}
    PROVE  Normalised(DeepMerge(config, [request EXCEPT !.modes[c] = Omitted])) = Resolved
<1> DEFINE omitting == [request EXCEPT !.modes[c] = Omitted]
           with(o)  == DeepMerge(config, o)
<1>1. /\ request \in Redact /\ config \in Redact /\ Null # Omitted
      /\ request.modes \in [Class -> ModeGiven]
      /\ Omitted \in ModeGiven /\ Null \in ModeGiven
  BY RedactionAssumption DEF RedactionTypeOK, Redact, ModeGiven
<1>2. \A f \in [Class -> ModeGiven] : f # Null
  BY RedactionAssumption DEF Class, ModeGiven
<1>3. /\ omitting.mode = request.mode /\ omitting.modes \in [Class -> ModeGiven]
      /\ omitting.modes[c] = Omitted
      /\ \A d \in Class : d # c => omitting.modes[d] = request.modes[d]
  BY <1>1 DEF Redact
<1> HIDE DEF omitting
<1>4. ASSUME NEW o, o.mode = request.mode, o.modes \in [Class -> ModeGiven]
      PROVE  Normalised(with(o)) =
                [mode  |-> Merged(config.mode, request.mode),
                 modes |-> [d \in Class |->
                    LET m == IF config.modes = Null THEN o.modes[d]
                             ELSE Merged(config.modes[d], o.modes[d])
                    IN  IF m = Null THEN Omitted ELSE m]]
  <2>1. CASE config.modes = Null
    <3>1. with(o) = [mode |-> Merged(config.mode, request.mode), modes |-> o.modes]
      BY <1>2, <1>4, <2>1 DEF DeepMerge
    <3>2. NoOverride(o.modes) =
             [d \in Class |-> IF o.modes[d] = Null THEN Omitted ELSE o.modes[d]]
      BY <1>2, <1>4 DEF NoOverride
    <3>3. QED
      BY <2>1, <3>1, <3>2 DEF Normalised
  <2>2. CASE config.modes # Null
    <3> DEFINE f == [d \in Class |-> Merged(config.modes[d], o.modes[d])]
    <3>1. config.modes \in [Class -> ModeGiven]
      BY <1>1, <2>2 DEF Redact
    <3>2. f \in [Class -> ModeGiven] /\ f # Null
      BY <1>2, <1>4, <3>1 DEF Merged
    <3>3. with(o) = [mode |-> Merged(config.mode, request.mode), modes |-> f]
      BY <1>2, <1>4, <2>2 DEF DeepMerge
    <3>4. NoOverride(f) =
             [d \in Class |-> IF Merged(config.modes[d], o.modes[d]) = Null THEN Omitted
                              ELSE Merged(config.modes[d], o.modes[d])]
      BY <3>2 DEF NoOverride
    <3> HIDE DEF f
    <3>5. QED
      BY <2>2, <3>3, <3>4 DEF Normalised
  <2>3. QED
    BY <2>1, <2>2
<1> HIDE DEF with
<1>5. ASSUME NEW d \in Class
      PROVE  LET m(o) == IF config.modes = Null THEN o.modes[d]
                         ELSE Merged(config.modes[d], o.modes[d])
             IN  (IF m(omitting) = Null THEN Omitted ELSE m(omitting))
                   = (IF m(request) = Null THEN Omitted ELSE m(request))
  BY <1>1, <1>3 DEF Merged
<1>6. Normalised(with(omitting)) = Normalised(with(request))
  BY <1>1, <1>3, <1>4, <1>5
<1>7. QED
  BY <1>6 DEF with, omitting, Resolved

\* The gate, of any profile, any request and any allowed modes.
LEMMA ModesGated == RedactionTypeOK => ModesAreGated
<1> SUFFICES ASSUME RedactionTypeOK PROVE ModesAreGated
  OBVIOUS
<1>1. ASSUME Accepts(Resolved, allowed), NEW c \in Class PROVE ModeOf(c, Resolved) \in allowed
  BY <1>1 DEF Accepts, ModesUsed, ModeOf
<1>2. QED
  BY <1>1, ModesResolved DEF ModesAreGated

-----------------------------------------------------------------------------
(* The patch of a detection (Redaction)                                    *)

\* What a product keeps of an order.
LEMMA Scales ==
    ASSUME NEW a \in Int, NEW b \in Int, NEW k \in Nat, a <= b
    PROVE  a * k <= b * k
<1>1. PICK d \in Nat : b = a + d
  <2>1. b - a \in Nat /\ b = a + (b - a)
    OBVIOUS
  <2>2. QED
    BY <2>1
<1>2. d * k >= 0 /\ (a + d) * k = a * k + d * k
  OBVIOUS
<1>3. QED
  BY <1>1, <1>2

LEMMA ScalesBack ==
    ASSUME NEW a \in Int, NEW b \in Int, NEW k \in Nat \ {0}, a * k <= b * k
    PROVE  a <= b
<1>1. SUFFICES ASSUME b + 1 <= a PROVE FALSE
  OBVIOUS
<1>2. (b + 1) * k <= a * k
  BY <1>1, Scales
<1>3. (b + 1) * k = b * k + k
  OBVIOUS
<1>4. QED
  BY <1>2, <1>3

LEMMA Quotient ==
    ASSUME NEW n \in Int, NEW k \in Nat \ {0}
    PROVE  /\ n \div k \in Int
           /\ (n \div k) * k <= n
           /\ n < (n \div k) * k + k
OBVIOUS

LEMMA QuotientNat ==
    ASSUME NEW n \in Nat, NEW k \in Nat \ {0}
    PROVE  n \div k \in Nat
OBVIOUS

\* Rounding is off by half a pixel at most.
LEMMA RoundedNear ==
    ASSUME NEW n \in Int
    PROVE  /\ Rounded(n) \in Int
           /\ 200 * Rounded(n) <= n + 100
           /\ n <= 200 * Rounded(n) + 100
BY DEF Rounded

\* A box in pixels of the working copy, back in pixels of the image: each end is
\* off by what two roundings of a corner and of a size can take.
LEMMA SeenBack ==
    ASSUME NEW from \in Float, NEW to \in Float, from < to
    PROVE  LET seen == Detected(from, to)
               back == ScaledBack(seen)
           IN  /\ seen.at \in Nat /\ seen.size \in Nat /\ back.at \in Nat /\ back.size \in Nat
               /\ seen.at * Grain <= from
               /\ to < (seen.at + seen.size + 2) * Grain
               /\ back.at * MaxSide <= seen.at * Side
               /\ (seen.at + seen.size) * Side <= (back.at + back.size + 2) * MaxSide
<1> DEFINE seen == Detected(from, to)
           back == ScaledBack(seen)
<1>1. /\ Grain \in Nat \ {0} /\ MaxSide \in Nat \ {0} /\ Side \in Nat
  BY RedactionAssumption
<1>2. from \in Nat /\ to \in Nat /\ to - from \in Nat
  BY <1>1 DEF Float
<1>3. seen.at = from \div Grain /\ seen.size = (to - from) \div Grain
  BY DEF Detected
<1>4. /\ seen.at \in Nat /\ seen.at * Grain <= from /\ from < seen.at * Grain + Grain
      /\ seen.size \in Nat /\ to - from < seen.size * Grain + Grain
  BY <1>1, <1>2, <1>3, Quotient, QuotientNat
<1> HIDE DEF seen
<1>5. back.at = (seen.at * Side) \div MaxSide /\ back.size = (seen.size * Side) \div MaxSide
  BY DEF ScaledBack
<1>6. seen.at * Side \in Nat /\ seen.size * Side \in Nat
  BY <1>1, <1>4
<1>7. /\ back.at \in Nat /\ back.at * MaxSide <= seen.at * Side
      /\ seen.at * Side < back.at * MaxSide + MaxSide
      /\ back.size \in Nat /\ seen.size * Side < back.size * MaxSide + MaxSide
  <2>1. ASSUME NEW n \in Nat
        PROVE  /\ n \div MaxSide \in Nat /\ (n \div MaxSide) * MaxSide <= n
               /\ n < (n \div MaxSide) * MaxSide + MaxSide
    BY <1>1, Quotient, QuotientNat
  <2> HIDE DEF back
  <2>2. QED
    BY <1>5, <1>6, <2>1
<1> HIDE DEF back
<1>8. (seen.at + seen.size + 2) * Grain = seen.at * Grain + seen.size * Grain + 2 * Grain
  BY <1>1, <1>4
<1>9. to < (seen.at + seen.size + 2) * Grain
  <2> DEFINE x == seen.at * Grain
             y == seen.size * Grain
  <2>1. x \in Int /\ y \in Int
    BY <1>1, <1>4
  <2> HIDE DEF x, y
  <2>2. from < x + Grain /\ to - from < y + Grain
    BY <1>4 DEF x, y
  <2>3. to < x + y + 2 * Grain
    BY <1>1, <1>2, <2>1, <2>2
  <2>4. QED
    BY <1>8, <2>3 DEF x, y
<1>10. (seen.at + seen.size) * Side <= (back.at + back.size + 2) * MaxSide
  <2> DEFINE a == seen.at * Side
             s == seen.size * Side
             b == back.at * MaxSide
             t == back.size * MaxSide
  <2>1. a \in Int /\ s \in Int /\ b \in Int /\ t \in Int
    BY <1>1, <1>4, <1>7
  <2>2. /\ (seen.at + seen.size) * Side = a + s
        /\ (back.at + back.size + 2) * MaxSide = b + t + 2 * MaxSide
    BY <1>1, <1>4, <1>7
  <2>3. a < b + MaxSide /\ s < t + MaxSide
    BY <1>7
  <2> HIDE DEF a, s, b, t
  <2>4. a + s <= b + t + 2 * MaxSide
    BY <1>1, <2>1, <2>3
  <2>5. QED
    BY <2>2, <2>4
<1>11. QED
  BY <1>4, <1>7, <1>9, <1>10 DEF seen, back

\* Once the growth makes up for all of it, the patch covers what was seen.
LEMMA GrowthCovers ==
    ASSUME NEW from \in Float, NEW to \in Float, from < to, NEW e \in Nat,
           NEW seen \in [at : Nat, size : Nat], NEW back \in [at : Nat, size : Nat],
           seen.at * Grain <= from,
           to < (seen.at + seen.size + 2) * Grain,
           back.at * MaxSide <= seen.at * Side,
           (seen.at + seen.size) * Side <= (back.at + back.size + 2) * MaxSide,
           back.size * e * MaxSide >= 200 * 2 * Side + 500 * MaxSide
    PROVE  /\ Low(back, e) * MaxSide * Grain <= from * Side
           /\ \/ High(back, e) * MaxSide * Grain >= to * Side
              \/ High(back, e) = Side
<1>1. /\ Grain \in Nat \ {0} /\ MaxSide \in Nat \ {0} /\ Side \in Nat
      /\ from \in Nat /\ to \in Nat
      /\ seen.at \in Nat /\ seen.size \in Nat /\ back.at \in Nat /\ back.size \in Nat
  BY RedactionAssumption DEF Float
<1> DEFINE g == back.size * e
           low  == Rounded(200 * back.at - g)
           high == Rounded(200 * (back.at + back.size) + g)
<1>2. g \in Nat
  BY <1>1
<1>3. g * MaxSide >= 400 * Side + 500 * MaxSide
  BY <1>1
<1> HIDE DEF g
<1>4. /\ low \in Int /\ 200 * low <= 200 * back.at - g + 100
      /\ high \in Int /\ 200 * (back.at + back.size) + g <= 200 * high + 100
  <2>1. 200 * back.at - g \in Int /\ 200 * (back.at + back.size) + g \in Int
    BY <1>1, <1>2
  <2>2. QED
    BY <2>1, RoundedNear
<1>5. /\ Low(back, e) = IF low < 0 THEN 0 ELSE low
      /\ High(back, e) = IF high > Side THEN Side ELSE high
  BY DEF Low, High, g
<1> HIDE DEF low, high
<1>6. low * MaxSide <= seen.at * Side
  <2> DEFINE b == back.at * MaxSide
             l == low * MaxSide
             q == g * MaxSide
             a == seen.at * Side
  <2>1. (200 * low) * MaxSide <= (200 * back.at - g + 100) * MaxSide
    BY <1>1, <1>2, <1>4, Scales
  <2>2. /\ (200 * low) * MaxSide = 200 * l
        /\ (200 * back.at - g + 100) * MaxSide = 200 * b - q + 100 * MaxSide
    BY <1>1, <1>2, <1>4
  <2>3. b \in Int /\ l \in Int /\ q \in Int /\ a \in Int
    BY <1>1, <1>2, <1>4
  <2>4. b <= a /\ q >= 400 * Side + 500 * MaxSide
    BY <1>3
  <2> HIDE DEF b, l, q, a
  <2>5. l <= a
    BY <1>1, <2>1, <2>2, <2>3, <2>4
  <2>6. QED
    BY <2>5 DEF l, a
<1>7. (seen.at + seen.size + 2) * Side <= high * MaxSide
  <2> DEFINE b == (back.at + back.size) * MaxSide
             h == high * MaxSide
             q == g * MaxSide
             a == (seen.at + seen.size) * Side
  <2>1. (200 * (back.at + back.size) + g) * MaxSide <= (200 * high + 100) * MaxSide
    BY <1>1, <1>2, <1>4, Scales
  <2>2. /\ (200 * (back.at + back.size) + g) * MaxSide = 200 * b + q
        /\ (200 * high + 100) * MaxSide = 200 * h + 100 * MaxSide
        /\ (back.at + back.size + 2) * MaxSide = b + 2 * MaxSide
        /\ (seen.at + seen.size + 2) * Side = a + 2 * Side
    BY <1>1, <1>2, <1>4
  <2>3. b \in Int /\ h \in Int /\ q \in Int /\ a \in Int
    BY <1>1, <1>2, <1>4
  <2>4. a <= b + 2 * MaxSide /\ q >= 400 * Side + 500 * MaxSide
    BY <1>3, <2>2
  <2> HIDE DEF b, h, q, a
  <2>5. a + 2 * Side <= h
    BY <1>1, <2>1, <2>2, <2>3, <2>4
  <2>6. QED
    BY <2>2, <2>5 DEF h
<1>8. Low(back, e) * MaxSide * Grain <= from * Side
  <2>1. CASE low < 0
    <3>1. Low(back, e) = 0 /\ from * Side >= 0
      BY <1>1, <1>5, <2>1
    <3>2. 0 * MaxSide * Grain = 0
      BY <1>1
    <3>3. QED
      BY <3>1, <3>2
  <2>2. CASE ~(low < 0)
    <3>1. (low * MaxSide) * Grain <= (seen.at * Side) * Grain
      BY <1>1, <1>4, <1>6, Scales
    <3>2. (seen.at * Grain) * Side <= from * Side
      BY <1>1, Scales
    <3>3. (seen.at * Side) * Grain = (seen.at * Grain) * Side
      BY <1>1
    <3>4. low * MaxSide * Grain \in Int /\ (seen.at * Grain) * Side \in Int /\ from * Side \in Int
      BY <1>1, <1>4
    <3>5. QED
      BY <1>5, <2>2, <3>1, <3>2, <3>3, <3>4
  <2>3. QED
    BY <2>1, <2>2
<1>9. CASE high > Side
  BY <1>5, <1>8, <1>9
<1>10. CASE ~(high > Side)
  <2> DEFINE z == seen.at + seen.size + 2
  <2>1. z \in Nat /\ to <= z * Grain /\ z * Grain \in Int
    BY <1>1
  <2> HIDE DEF z
  <2>2. (z * Side) * Grain <= (high * MaxSide) * Grain
    <3>1. z * Side <= high * MaxSide /\ z * Side \in Int /\ high * MaxSide \in Int
      BY <1>1, <1>4, <1>7, <2>1 DEF z
    <3>2. QED
      BY <1>1, <3>1, Scales
  <2>3. to * Side <= (z * Grain) * Side
    BY <1>1, <2>1, Scales
  <2>4. (z * Side) * Grain = (z * Grain) * Side
    BY <1>1, <2>1
  <2>5. to * Side \in Int /\ (z * Grain) * Side \in Int /\ (high * MaxSide) * Grain \in Int
    BY <1>1, <1>4, <2>1
  <2>6. to * Side <= (high * MaxSide) * Grain
    BY <2>2, <2>3, <2>4, <2>5
  <2>7. QED
    BY <1>5, <1>8, <1>10, <2>5, <2>6
<1>11. QED
  BY <1>9, <1>10

\* The patch, of any box and any growth.
LEMMA BoxesCovered == RedactionTypeOK => BoxesAreCovered
<1> SUFFICES ASSUME RedactionTypeOK PROVE BoxesAreCovered
  OBVIOUS
<1> DEFINE seen == Detected(box[1], box[2])
           back == ScaledBack(seen)
<1>1. expand \in Nat
  BY RedactionAssumption DEF RedactionTypeOK
<1>2. CASE box \in Boxes
  <2>1. box[1] \in Float /\ box[2] \in Float /\ box[1] < box[2]
    BY <1>2 DEF Boxes
  <2>2. /\ seen.at \in Nat /\ seen.size \in Nat /\ back.at \in Nat /\ back.size \in Nat
        /\ seen.at * Grain <= box[1]
        /\ box[2] < (seen.at + seen.size + 2) * Grain
        /\ back.at * MaxSide <= seen.at * Side
        /\ (seen.at + seen.size) * Side <= (back.at + back.size + 2) * MaxSide
    BY <2>1, SeenBack
  <2>3. seen \in [at : Nat, size : Nat] /\ back \in [at : Nat, size : Nat]
    <3>1. /\ seen = [at |-> seen.at, size |-> seen.size]
          /\ back = [at |-> back.at, size |-> back.size]
      BY DEF Detected, ScaledBack
    <3> HIDE DEF seen, back
    <3>2. QED
      BY <2>2, <3>1
  <2> HIDE DEF seen, back
  <2>4. back.size * expand * MaxSide >= 200 * 2 * Side + 500 * MaxSide =>
            /\ Low(back, expand) * MaxSide * Grain <= box[1] * Side
            /\ \/ High(back, expand) * MaxSide * Grain >= box[2] * Side
               \/ High(back, expand) = Side
    BY <1>1, <2>1, <2>2, <2>3, GrowthCovers
  <2>5. QED
    BY <2>4 DEF BoxesAreCovered, seen, back
<1>3. CASE box = NoBox
  <2>1. /\ Grain \in Nat \ {0} /\ MaxSide \in Nat \ {0} /\ Side \in Nat
    BY RedactionAssumption
  <2>2. seen.size = 0
    BY <1>3, <2>1 DEF NoBox, Detected
  <2>3. back.size = 0
    BY <2>1, <2>2 DEF ScaledBack
  <2> HIDE DEF seen, back
  <2>4. ~(back.size * expand * MaxSide >= 200 * 2 * Side + 500 * MaxSide)
    BY <1>1, <2>1, <2>3
  <2>5. QED
    BY <2>4 DEF BoxesAreCovered, seen, back
<1>4. QED
  BY <1>2, <1>3 DEF RedactionTypeOK
-----------------------------------------------------------------------------
(* Together (MCMetadata)                                                   *)

\* Where a part does not run it starts in one of its initial states.
LEMMA StandingStill ==
    /\ NoCodes => Init
    /\ NoWalk => ListingInit
    /\ NoSettings => RedactionInit
<1>1. ASSUME NoCodes PROVE Init
  <2>1. PICK i \in Image, p \in Profile, c \in Code : TRUE
    BY PartsAssumption
  <2>2. PICK s : s = [pc |-> "new", code |-> c, image |-> i, profile |-> p,
                      policy |-> "reuse", found |-> None]
    OBVIOUS
  <2>3. s \in Submission /\ s.pc = "new" /\ s.found = None
    BY <2>2 DEF Submission, Policy
  <2>4. \E r \in Submission : r.pc = "new" /\ r.found = None
    BY <2>3
  <2>5. PICK r \in Submission :
           /\ r.pc = "new" /\ r.found = None
           /\ r = CHOOSE q \in Submission : q.pc = "new" /\ q.found = None
    BY <2>4
  <2>6. jobs \in [Job -> {q \in Submission : q.pc = "new" /\ q.found = None}]
    BY <1>1, <2>5 DEF NoCodes
  <2>7. QED
    BY <1>1, <2>6 DEF NoCodes, Init
<1>2. ASSUME NoWalk PROVE ListingInit
  <2>1. PICK k \in SortKey : k = CHOOSE n \in SortKey : TRUE
    BY QueriesAssumption
  <2>2. PICK q \in Queries : q = CHOOSE x \in Queries : TRUE
    BY PartsAssumption
  <2>3. PICK shape : shape = [r \in RowId |-> <<k, {}>>]
    OBVIOUS
  <2>4. shape \in [RowId -> SortKey \X Labelling]
    BY <2>3, PartsAssumption
  <2>5. rows = [r \in RowId |-> [there |-> shape[r][2] # {}, key |-> shape[r][1],
                                labels |-> shape[r][2]]]
    BY <1>2, <2>1, <2>3 DEF NoWalk
  <2>6. walk = [pc |-> "idle", query |-> q, desc |-> TRUE, total |-> 0,
                key |-> CHOOSE n \in SortKey : TRUE, id |-> CHOOSE r \in RowId : TRUE,
                first |-> TRUE, capped |-> FALSE]
    BY <1>2, <2>2 DEF NoWalk
  <2>7. \E x \in Queries, desc \in BOOLEAN :
           walk = [pc |-> "idle", query |-> x, desc |-> desc, total |-> 0,
                   key |-> CHOOSE n \in SortKey : TRUE, id |-> CHOOSE r \in RowId : TRUE,
                   first |-> TRUE, capped |-> FALSE]
    BY <2>6
  <2>8. QED
    BY <1>2, <2>4, <2>5, <2>7 DEF NoWalk, ListingInit
<1>3. ASSUME NoSettings PROVE RedactionInit
  <2>1. Plain \in Redact /\ Plain.mode # Omitted
    BY RedactionAssumption DEF Plain, Redact, ModeGiven, NoModes, Class
  <2>2. Mode \in (SUBSET Mode) \ {{}}
    BY RedactionAssumption
  <2>3. QED
    BY <1>3, <2>1, <2>2 DEF NoSettings, RedactionInit, Configured
<1>4. QED
  BY <1>1, <1>2, <1>3

\* The settings of a request are of their types, whichever they are.
LEMMA SettingsTyped == RedactionInit => RedactionTypeOK
<1>1. Plain \in Redact
  BY RedactionAssumption DEF Plain, Redact, ModeGiven, NoModes, Class
<1>2. (CHOOSE e \in Expands : TRUE) \in Expands
  BY RedactionAssumption
<1>3. QED
  BY <1>1, <1>2 DEF RedactionInit, RedactionTypeOK, Configured

\* What the run checks is what is proved of: a behaviour of the composition is
\* one of each part, which takes its own steps or stands still.
THEOREM MetadataIsItsParts ==
    Metadata => /\ Spec /\ ListingSpec /\ Keys /\ Lookups
                /\ RedactionInit /\ [][FALSE]_redactionVars
<1>1. MetadataInit => Init /\ ListingInit /\ KeysInit /\ LookupsInit /\ RedactionInit
  BY StandingStill DEF MetadataInit
<1>2. [MetadataNext]_metadataVars =>
         /\ [Next]_vars /\ [ListingNext]_listingVars /\ [KeysNext]_keysVars
         /\ [LookupsNext]_lookupsVars /\ [FALSE]_redactionVars
  BY DEF MetadataNext, metadataVars
<1>3. QED
  BY <1>1, <1>2, PTL DEF Metadata, Spec, ListingSpec, Keys, Lookups

\* No step changes the settings of a request.
LEMMA SettingsHold == Metadata => []RedactionTypeOK
<1>1. RedactionTypeOK /\ [FALSE]_redactionVars => RedactionTypeOK'
  BY DEF redactionVars, RedactionTypeOK
<1>2. QED
  BY <1>1, SettingsTyped, MetadataIsItsParts, PTL

\* The variables of every part keep their types, in whichever part runs.
THEOREM MetadataTypeCorrect == Metadata => []MetadataTypeOK
<1>1. Walked /\ OneRecord /\ BoundOnce => ListingTypeOK /\ KeysTypeOK /\ LookupsTypeOK
  BY DEF Walked, OneRecord, BoundOnce
<1>2. TypeOK /\ ListingTypeOK /\ KeysTypeOK /\ LookupsTypeOK /\ RedactionTypeOK
         => MetadataTypeOK
  BY DEF MetadataTypeOK
<1>3. QED
  BY <1>1, <1>2, MetadataIsItsParts, CodesTypeCorrect, WalkedHolds, OneRecordHolds,
     BoundOnceHolds, SettingsHold, PTL

\* Whatever a profile and a request say of the modes, or leave out, or set to
\* null: a request let through is redacted in allowed modes, and no override has
\* one identity (resolve_profile, apply).
THEOREM ModesAreGatedHolds == Metadata => []ModesAreGated
BY ModesGated, SettingsHold, PTL

\* A detection that is large enough for its growth to make up for the roundings
\* is covered to its last pixel, at every size of the image and of the working
\* copy and every growth (detect, run_detectors, _expand_box).
THEOREM BoxesAreCoveredHolds == Metadata => []BoxesAreCovered
BY BoxesCovered, SettingsHold, PTL
=============================================================================
