------------------------------- MODULE Labels -------------------------------
(***************************************************************************)
(* The Mongo backend's labels. Which tenants claim an image (claims) and   *)
(* which codes name it (codeDocs) are canonical; every artifact document   *)
(* carries a copy of both (lbl), which listings filter on. A change of a   *)
(* label ends with _sync_labels: read the labels, read the codes, write    *)
(* the copy. Each call to the server is a step of its own, as there are no *)
(* transactions and commit does nothing.                                   *)
(*                                                                         *)
(* An image has one artifact here. A scope's labels are one claim of its   *)
(* tenant, and merge_tags and merge_metadata, which both add to it, are    *)
(* one step: the second, with a sync of its own, adds the claim again.     *)
(***************************************************************************)
EXTENDS Naturals

CONSTANTS
    Sha, Claimant,
    ExternalId, \* a code with its tenant, the key of the codes collection
    Owner,      \* the tenant of each
    Writer,     \* workers and HTTP threads of any replica
    Together,   \* two writers may work on one image at a time
    MaxDeaths,
    Nothing

ASSUME LabelsAssumption ==
    /\ Owner \in [ExternalId -> Claimant]
    /\ Nothing \notin Sha \union Claimant \union ExternalId
    /\ MaxDeaths \in Nat

VARIABLES
    images,     \* the images collection
    claims,     \* tenants that claim an image
    codeDocs,   \* the image a code names
    lbl,        \* the copy on the image's artifact, or Nothing without one
    writer,     \* what each writer does and has read
    work,       \* the images it does it to
    cut,        \* images a dead writer left unfinished, for properties
    deaths

labelsVars == <<images, claims, codeDocs, lbl, writer, work, cut, deaths>>

Copy == [tenants : SUBSET Claimant, codes : SUBSET ExternalId]
Idle == [pc |-> "idle", sha |-> Nothing, tenant |-> Nothing, code |-> Nothing,
         prev |-> Nothing, tenants |-> {}, codes |-> {}, next |-> "idle"]

LabelsTypeOK ==
    /\ images \subseteq Sha
    /\ claims \in [Sha -> SUBSET Claimant]
    /\ codeDocs \in [ExternalId -> Sha \union {Nothing}]
    /\ lbl \in [Sha -> Copy \union {Nothing}]
    /\ writer \in [Writer ->
         [pc : {"idle", "image", "merge", "artifact", "bind", "repoint",
                "release", "releaseCodes", "claimed", "coded", "dropArtifact",
                "dropLabels", "dropCodes", "dropImage",
                "syncLabels", "syncCodes", "syncWrite"},
          sha : Sha \union {Nothing}, prev : Sha \union {Nothing},
          tenant : Claimant \union {Nothing}, code : ExternalId \union {Nothing},
          tenants : SUBSET Claimant, codes : SUBSET ExternalId,
          next : {"idle", "artifact", "bind", "second", "claimed"}]]
    /\ work \in [Writer -> SUBSET Sha]
    /\ cut \subseteq Sha
    /\ deaths \in 0..MaxDeaths

LabelsInit ==
    /\ images = {}
    /\ claims = [s \in Sha |-> {}]
    /\ codeDocs = [c \in ExternalId |-> Nothing]
    /\ lbl = [s \in Sha |-> Nothing]
    /\ writer = [w \in Writer |-> Idle]
    /\ work = [w \in Writer |-> {}]
    /\ cut = {}
    /\ deaths = 0

-----------------------------------------------------------------------------

In(w, pc)   == writer[w].pc = pc
Go(w, pc)   == writer' = [writer EXCEPT ![w].pc = pc]
S(w)        == writer[w].sha
Done(w)     == writer' = [writer EXCEPT ![w] = Idle] /\ work' = [work EXCEPT ![w] = {}]
Untouched   == UNCHANGED <<cut, deaths>>
Free(w, s)  == Together \/ \A v \in Writer \ {w} : s \notin work[v]
CodesOf(s)  == {c \in ExternalId : codeDocs[c] = s}

\* A sync is due for the image, and then the writer goes on with `next`.
Sync(w, next) == writer' = [writer EXCEPT ![w].pc = "syncLabels", ![w].next = next]

\* A worker has the bytes of a submission, with or without a code. On a cache
\* hit the image is there already and keeps its artifact.
BeginSubmit(w, s, t, c) ==
    /\ In(w, "idle") /\ Free(w, s)
    /\ c # Nothing => Owner[c] = t
    /\ writer' = [writer EXCEPT ![w] = [Idle EXCEPT !.sha = s, !.tenant = t,
                    !.code = c, !.pc = IF lbl[s] = Nothing THEN "image" ELSE "merge"]]
    /\ work' = [work EXCEPT ![w] = {s}]
    /\ UNCHANGED <<images, claims, codeDocs, lbl>> /\ Untouched

UpsertImage(w) ==
    /\ In(w, "image")
    /\ images' = images \union {S(w)}
    /\ Go(w, "merge")
    /\ UNCHANGED <<claims, codeDocs, lbl, work>> /\ Untouched

Merge(w) ==
    /\ In(w, "merge")
    /\ claims' = [claims EXCEPT ![S(w)] = @ \union {writer[w].tenant}]
    /\ Sync(w, "artifact")
    /\ UNCHANGED <<images, codeDocs, lbl, work>> /\ Untouched

\* Neither tags nor metadata: both merges return without a claim.
NothingToMerge(w) ==
    /\ In(w, "merge")
    /\ Go(w, "artifact")
    /\ UNCHANGED <<images, claims, codeDocs, lbl, work>> /\ Untouched

\* The unique index refuses a second artifact, and the loser goes on with the
\* winner's.
InsertArtifact(w) ==
    /\ In(w, "artifact")
    /\ IF lbl[S(w)] = Nothing
       THEN /\ lbl' = [lbl EXCEPT ![S(w)] = [tenants |-> {}, codes |-> {}]]
            /\ Sync(w, "bind")
       ELSE Go(w, "bind") /\ UNCHANGED lbl
    /\ UNCHANGED <<images, claims, codeDocs, work>> /\ Untouched

\* bind_code, its lookup and its write in one: Codes has what comes between.
\* No code was given, or it names these bytes already.
NothingToBind(w) ==
    /\ In(w, "bind")
    /\ writer[w].code # Nothing => codeDocs[writer[w].code] = S(w)
    /\ Done(w)
    /\ UNCHANGED <<images, claims, codeDocs, lbl>> /\ Untouched

\* Mutant: the new code is not synced to the copy.
AddCodeUnsynced(w) ==
    /\ In(w, "bind") /\ writer[w].code # Nothing
    /\ codeDocs[writer[w].code] = Nothing
    /\ codeDocs' = [codeDocs EXCEPT ![writer[w].code] = S(w)]
    /\ Done(w)
    /\ UNCHANGED <<images, claims, lbl>> /\ Untouched

AddCode(w) ==
    /\ In(w, "bind") /\ writer[w].code # Nothing
    /\ codeDocs[writer[w].code] = Nothing
    /\ codeDocs' = [codeDocs EXCEPT ![writer[w].code] = S(w)]
    /\ Sync(w, "idle")
    /\ UNCHANGED <<images, claims, lbl, work>> /\ Untouched

\* repoint_code reads which image the code named, to sync that one as well.
ReadPrevious(w) ==
    /\ In(w, "bind") /\ writer[w].code # Nothing
    /\ LET prev == codeDocs[writer[w].code] IN
       /\ prev \notin {Nothing, S(w)} /\ Free(w, prev)
       /\ writer' = [writer EXCEPT ![w].pc = "repoint", ![w].prev = prev]
       /\ work' = [work EXCEPT ![w] = @ \union {prev}]
    /\ UNCHANGED <<images, claims, codeDocs, lbl>> /\ Untouched

\* An update of a code that is gone matches nothing.
Repoint(w) ==
    /\ In(w, "repoint")
    /\ codeDocs' = IF codeDocs[writer[w].code] = Nothing THEN codeDocs
                ELSE [codeDocs EXCEPT ![writer[w].code] = S(w)]
    /\ writer' = [writer EXCEPT ![w].pc = "syncLabels", ![w].next = "second",
                                ![w].sha = writer[w].prev, ![w].prev = S(w)]
    /\ UNCHANGED <<images, claims, lbl, work>> /\ Untouched

-----------------------------------------------------------------------------
(* _sync_labels *)

SyncLabels(w) ==
    /\ In(w, "syncLabels")
    /\ writer' = [writer EXCEPT ![w].pc = "syncCodes", ![w].tenants = claims[S(w)]]
    /\ UNCHANGED <<images, claims, codeDocs, lbl, work>> /\ Untouched

SyncCodes(w) ==
    /\ In(w, "syncCodes")
    /\ writer' = [writer EXCEPT ![w].pc = "syncWrite", ![w].codes = CodesOf(S(w))]
    /\ UNCHANGED <<images, claims, codeDocs, lbl, work>> /\ Untouched

Synced(w) ==
    IF lbl[S(w)] = Nothing THEN lbl
    ELSE [lbl EXCEPT ![S(w)] = [tenants |-> writer[w].tenants, codes |-> writer[w].codes]]

\* The copy is written, and the writer goes on. After the image a repointed
\* code has left comes the one it names now.
SyncWrite(w) ==
    /\ In(w, "syncWrite")
    /\ lbl' = Synced(w)
    /\ cut' = cut \ {S(w)}
    /\ CASE writer[w].next = "idle"   -> Done(w)
         [] writer[w].next = "second" ->
              /\ writer' = [writer EXCEPT ![w] = [Idle EXCEPT
                              !.pc = "syncLabels", !.sha = writer[w].prev]]
              /\ UNCHANGED work
         [] OTHER ->
              /\ writer' = [writer EXCEPT ![w].pc = writer[w].next, ![w].next = "idle",
                              ![w].tenants = {}, ![w].codes = {}]
              /\ UNCHANGED work
    /\ UNCHANGED <<images, claims, codeDocs, deaths>>

-----------------------------------------------------------------------------
(* Client.delete: of a tenant, or (Nothing) of the operator *)

BeginDelete(w, s, t) ==
    /\ In(w, "idle") /\ Free(w, s)
    /\ lbl[s] # Nothing
    /\ t # Nothing => t \in claims[s]
    /\ writer' = [writer EXCEPT ![w] = [Idle EXCEPT !.sha = s, !.tenant = t,
                    !.pc = IF t = Nothing THEN "dropArtifact" ELSE "release"]]
    /\ work' = [work EXCEPT ![w] = {s}]
    /\ UNCHANGED <<images, claims, codeDocs, lbl>> /\ Untouched

ReleaseLabels(w) ==
    /\ In(w, "release")
    /\ claims' = [claims EXCEPT ![S(w)] = @ \ {writer[w].tenant}]
    /\ Go(w, "releaseCodes")
    /\ UNCHANGED <<images, codeDocs, lbl, work>> /\ Untouched

ReleaseCodes(w) ==
    /\ In(w, "releaseCodes")
    /\ codeDocs' = [c \in ExternalId |->
         IF codeDocs[c] = S(w) /\ Owner[c] = writer[w].tenant THEN Nothing ELSE codeDocs[c]]
    /\ Sync(w, "claimed")
    /\ UNCHANGED <<images, claims, lbl, work>> /\ Untouched

\* has_any_labels: two reads, and the image goes when both find nothing.
AnyLabels(w) ==
    /\ In(w, "claimed")
    /\ IF claims[S(w)] # {} THEN Done(w) ELSE Go(w, "coded") /\ UNCHANGED work
    /\ UNCHANGED <<images, claims, codeDocs, lbl>> /\ Untouched

AnyCodes(w) ==
    /\ In(w, "coded")
    /\ IF CodesOf(S(w)) # {} THEN Done(w) ELSE Go(w, "dropArtifact") /\ UNCHANGED work
    /\ UNCHANGED <<images, claims, codeDocs, lbl>> /\ Untouched

\* delete_image: the cascade, the image's own record last.
DropArtifact(w) ==
    /\ In(w, "dropArtifact")
    /\ lbl' = [lbl EXCEPT ![S(w)] = Nothing]
    /\ Go(w, "dropLabels")
    /\ UNCHANGED <<images, claims, codeDocs, work>> /\ Untouched

DropLabels(w) ==
    /\ In(w, "dropLabels")
    /\ claims' = [claims EXCEPT ![S(w)] = {}]
    /\ Go(w, "dropCodes")
    /\ UNCHANGED <<images, codeDocs, lbl, work>> /\ Untouched

\* Mutant: the cascade forgets the codes.
DropNoCodes(w) ==
    /\ In(w, "dropCodes")
    /\ Go(w, "dropImage")
    /\ UNCHANGED <<images, claims, codeDocs, lbl, work>> /\ Untouched

DropCodes(w) ==
    /\ In(w, "dropCodes")
    /\ codeDocs' = [c \in ExternalId |-> IF codeDocs[c] = S(w) THEN Nothing ELSE codeDocs[c]]
    /\ Go(w, "dropImage")
    /\ UNCHANGED <<images, claims, lbl, work>> /\ Untouched

DropImage(w) ==
    /\ In(w, "dropImage")
    /\ images' = images \ {S(w)}
    /\ Done(w)
    /\ UNCHANGED <<claims, codeDocs, lbl>> /\ Untouched

\* A process dies, or a call fails, between any two steps.
WriterDies(w) ==
    /\ ~In(w, "idle") /\ deaths < MaxDeaths
    /\ deaths' = deaths + 1
    /\ cut' = cut \union work[w]
    /\ Done(w)
    /\ UNCHANGED <<images, claims, codeDocs, lbl>>

WriterStep(w) ==
    \/ UpsertImage(w) \/ Merge(w) \/ NothingToMerge(w)
    \/ InsertArtifact(w) \/ NothingToBind(w)
    \/ AddCode(w) \/ ReadPrevious(w) \/ Repoint(w)
    \/ SyncLabels(w) \/ SyncCodes(w) \/ SyncWrite(w)
    \/ ReleaseLabels(w) \/ ReleaseCodes(w) \/ AnyLabels(w) \/ AnyCodes(w)
    \/ DropArtifact(w) \/ DropLabels(w) \/ DropCodes(w) \/ DropImage(w)

LabelsNext ==
    \E w \in Writer :
        \/ WriterStep(w) \/ WriterDies(w)
        \/ \E s \in Sha : \/ \E t \in Claimant, c \in ExternalId \union {Nothing} :
                                BeginSubmit(w, s, t, c)
                          \/ \E t \in Claimant \union {Nothing} : BeginDelete(w, s, t)

LabelsSpec == LabelsInit /\ [][LabelsNext]_labelsVars

-----------------------------------------------------------------------------

\* An image that nobody works on is listed to exactly the tenants and codes
\* that claim it (_sync_labels: "the projection cannot drift"), unless a
\* writer died on it and no label of it has changed since.
ProjectionCurrent ==
    \A s \in Sha :
        (lbl[s] # Nothing /\ s \notin cut /\ \A w \in Writer : s \notin work[w])
            => lbl[s] = [tenants |-> claims[s], codes |-> CodesOf(s)]

\* Whatever names an image finds its record: it is written first and deleted
\* last, so this holds between any two calls and after any death (delete_image:
\* "a label pointing at an image that no longer exists").
PointersHaveImage ==
    \A s \in Sha \ images :
        lbl[s] = Nothing /\ claims[s] = {} /\ CodesOf(s) = {}
=============================================================================
