------------------------------- MODULE Lookups -------------------------------
(***************************************************************************)
(* Which artifact a read is answered with. A source may have an artifact   *)
(* per profile, live or expired; a read by sha takes the newest live one,  *)
(* a read by code the processing the code is bound to, and a public read   *)
(* needs a rule that matches a label now. Each is one query on SQL and     *)
(* several on Mongo. The record of an image is looked up differently from  *)
(* its bytes, and the local client reads the bytes through the record.     *)
(*                                                                         *)
(* There is one image here and one code text, which every tenant may bind. *)
(* An answer is the set of the artifacts it may be: rows of the same       *)
(* second have no order.                                                   *)
(***************************************************************************)
EXTENDS Naturals, FiniteSets

CONSTANTS
    Variant,    \* profile hashes
    Namespace,  \* tenants
    Word,       \* tags, and metadata as <<key, value>>
    Window,     \* Mongo's _live_first sees the newest 8
    MaxSeconds,
    NoneGiven         \* no profile, tenant or binding is given

ASSUME LookupsAssumption ==
    /\ Window \in Nat \ {0} /\ MaxSeconds \in Nat \ {0}
    /\ NoneGiven \notin Variant \union Namespace

VARIABLES
    second,
    variants,   \* the image's artifacts: when each was made, whether it lives
    bound,      \* the profile each tenant's code is bound to
    words,      \* the image's labels
    rules       \* public_rules

lookupsVars == <<second, variants, bound, words, rules>>

Making  == [at : 0..MaxSeconds, live : BOOLEAN]
Rule    == (Namespace \union {NoneGiven}) \X Word
NotMade == [at |-> 0, live |-> FALSE]

LookupsTypeOK ==
    /\ second \in 1..MaxSeconds
    /\ variants \in [Variant -> Making]
    /\ bound \in [Namespace -> SUBSET (Variant \union {NoneGiven})]
    /\ words \subseteq Namespace \X Word
    /\ rules \subseteq Rule

LookupsInit ==
    /\ second = 1
    /\ variants = [v \in Variant |-> NotMade]
    /\ bound = [n \in Namespace |-> {}]
    /\ words = {} /\ rules = {}

-----------------------------------------------------------------------------
(* By sha *)

MadeAt(v)  == variants[v].at
Alive(v)   == variants[v].live
Having(p)  == {v \in Variant : MadeAt(v) > 0 /\ p \in {NoneGiven, v}}
Newest(vs) == {v \in vs : \A u \in vs : MadeAt(u) <= MadeAt(v)}

\* Mutant: the newest row, live or not, as for a record.
NewestFirst(vs) == Newest(vs)

\* _live_first of SQL: live rows before expired ones, then the newest.
LiveFirst(vs) == LET alive == {v \in vs : Alive(v)}
                 IN  IF alive # {} THEN Newest(alive) ELSE Newest(vs)

\* _live_first of Mongo: the newest Window documents, and the first live one.
Windows(vs) ==
    {w \in SUBSET vs :
        /\ Cardinality(w) = Window \/ (w = vs /\ Cardinality(vs) < Window)
        /\ \A v \in w, u \in vs \ w : MadeAt(u) <= MadeAt(v)}
FirstLive(vs) == UNION {LET alive == {v \in w : Alive(v)}
                        IN  Newest(IF alive = {} THEN w ELSE alive) : w \in Windows(vs)}

\* blob_ref, thumb_for and artifact_for_sha.
SqlRefs(p)   == LiveFirst(Having(p))
MongoRefs(p) == FirstLive(Having(p))

-----------------------------------------------------------------------------
(* By code, of a tenant *)

\* blob_ref_by_code of SQL: each code joined with the artifacts it may mean.
SqlByCode(n, p) ==
    LiveFirst({v \in Having(p) : \E b \in bound[n] : p # NoneGiven \/ b \in {NoneGiven, v}})

\* blob_ref_by_code of Mongo: the codes first, then their artifacts.
MongoByCode(n, p) ==
    LET given == bound[n] \ {NoneGiven} IN
    IF bound[n] = {} THEN {}
    ELSE FirstLive(IF p # NoneGiven \/ given = {} THEN Having(p)
                   ELSE Having(NoneGiven) \intersect given)

\* resolve_code, for a submission with a code: a usable artifact or none.
Usable(n, p) == bound[n] # {} /\ MadeAt(p) > 0 /\ Alive(p)

-----------------------------------------------------------------------------
(* Public reads: image_is_public *)

SqlPublic   == \E r \in rules, w \in words :
                  w[2] = r[2] /\ (r[1] = NoneGiven \/ w[1] = r[1])
MongoPublic == \E r \in rules : \E n \in Namespace :
                  /\ r[1] # NoneGiven => n = r[1]
                  /\ r[2] \in {w[2] : w \in {l \in words : l[1] = n}}

-----------------------------------------------------------------------------
(* The two clients *)

\* Client.get without a profile takes the newest artifact, with one that one.
Record(p) == Newest(Having(p))

\* Bytes are served, or refused as expired; a missing image is neither.
Answer(refs) == IF refs = {} THEN {"missing"}
                ELSE {IF Alive(v) THEN v ELSE "expired" : v \in refs}
LocalBlob(p)  == Answer(Record(p))
RemoteBlob(p) == Answer(SqlRefs(p))

-----------------------------------------------------------------------------

Tick ==
    /\ second < MaxSeconds
    /\ second' = second + 1
    /\ UNCHANGED <<variants, bound, words, rules>>

\* process: a new artifact, or one in the place of the one it found.
MakeVariant(v) ==
    /\ variants' = [variants EXCEPT ![v] = [at |-> second, live |-> TRUE]]
    /\ UNCHANGED <<second, bound, words, rules>>

ExpireVariant(v) ==
    /\ Alive(v)
    /\ variants' = [variants EXCEPT ![v].live = FALSE]
    /\ UNCHANGED <<second, bound, words, rules>>

\* A submission ends with its artifact bound. Codes of old bind no profile.
BindTo(n, b) ==
    /\ b # NoneGiven => MadeAt(b) > 0
    /\ b = NoneGiven => bound[n] = {}
    /\ bound' = [bound EXCEPT ![n] = {b}]
    /\ UNCHANGED <<second, variants, words, rules>>

AddWord(w) ==
    /\ words' = words \union {w}
    /\ UNCHANGED <<second, variants, bound, rules>>

\* release_tenant_labels: the tenant's labels and its code.
Release(n) ==
    /\ words' = {w \in words : w[1] # n}
    /\ bound' = [bound EXCEPT ![n] = {}]
    /\ UNCHANGED <<second, variants, rules>>

AddRule(r) ==
    /\ rules' = rules \union {r}
    /\ UNCHANGED <<second, variants, bound, words>>

DropRule(r) ==
    /\ r \in rules
    /\ rules' = rules \ {r}
    /\ UNCHANGED <<second, variants, bound, words>>

DropImageRows ==
    /\ variants' = [v \in Variant |-> NotMade]
    /\ bound' = [n \in Namespace |-> {}]
    /\ words' = {}
    /\ UNCHANGED <<second, rules>>

LookupsNext ==
    \/ Tick \/ DropImageRows
    \/ \E v \in Variant : MakeVariant(v) \/ ExpireVariant(v)
    \/ \E n \in Namespace : Release(n) \/ \E b \in Variant \union {NoneGiven} : BindTo(n, b)
    \/ \E w \in Namespace \X Word : AddWord(w)
    \/ \E r \in Rule : AddRule(r) \/ DropRule(r)

Lookups == LookupsInit /\ [][LookupsNext]_lookupsVars

-----------------------------------------------------------------------------

\* SQL and Mongo answer every read alike: the same artifact by sha and by a
\* tenant's code, with a profile and without, and the same public images; and
\* a read that a live artifact matches is never answered with an expired one
\* (_live_first: "a dead TTL'd variant can't shadow a live one"). What a
\* submission finds under a code is what a read of that code is answered with.
ReadsAgree ==
    /\ SqlPublic <=> MongoPublic
    /\ \A p \in Variant \union {NoneGiven} :
          /\ SqlRefs(p) = MongoRefs(p)
          /\ \A n \in Namespace :
                /\ SqlByCode(n, p) = MongoByCode(n, p)
                /\ p # NoneGiven /\ Usable(n, p) => SqlByCode(n, p) = {p}
          /\ (\E v \in Having(p) : Alive(v)) => \A v \in SqlRefs(p) : Alive(v)
=============================================================================
