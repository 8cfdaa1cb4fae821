------------------------------- MODULE Images -------------------------------
(***************************************************************************)
(* What a redacted image consists of, and everybody who touches it: the    *)
(* redacted object and the retained source in the blob store, the artifact *)
(* row, the original's row and the tenants' labels in the database. They   *)
(* are written by pipeline.process on the workers of every replica, pruned *)
(* by sweeps and by reads past the deadline, and deleted over the API.     *)
(*                                                                         *)
(* Store and database know nothing of each other, so every operation is a  *)
(* sequence of steps on one or the other, and any of them may be the last. *)
(* One redaction profile is modelled: an image has at most one artifact.   *)
(* Every object counts as one byte towards the storage cap.                *)
(***************************************************************************)
EXTENDS Integers, FiniteSets

CONSTANTS
    Image,       \* source_sha values
    Tenant,
    Global,      \* the tenant of unrestricted keys
    Processor,   \* worker threads of all replicas
    Sweeper,     \* reaper threads of all replicas
    Reader,      \* HTTP threads that read past a deadline
    Deleter,     \* HTTP threads inside a DELETE
    NoImage,
    Request,     \* what a submission may ask for, see Requests
    Stored,      \* an image that is there from the beginning
    Cap,         \* storage.max_bytes; 0 would switch the check off
    Overlapping, \* an image may be deleted or pruned while it is written
    MaxJobs, MaxDeletes, MaxFaults

Kinds == {"tag", "code"}

\* A scoped key's labels are stamped on everything it submits.
Requests == {r \in [tenant : Tenant, asks : SUBSET Kinds, force : BOOLEAN,
                    keep : BOOLEAN] :
               r.tenant # Global => "tag" \in r.asks}

ASSUME StoresAssumption ==
    /\ Global \in Tenant /\ NoImage \notin Image
    /\ Processor \intersect (Sweeper \union Reader \union Deleter) = {}
    /\ Request \subseteq Requests
    /\ Stored \in {{}} \union {{i} : i \in Image}
    /\ Overlapping \in BOOLEAN
    /\ IsFiniteSet(Image) /\ IsFiniteSet(Processor)

ASSUME BoundsAssumption ==
    /\ Cap \in Nat \ {0} /\ Processor # {}
    /\ MaxJobs \in Nat /\ MaxDeletes \in Nat /\ MaxFaults \in Nat

Pruner == Sweeper \union Reader \union Processor

VARIABLES
    blobs,      \* images whose redacted object is in the store
    sources,    \* images whose original is in the store
    artifacts,  \* artifacts rows: id (0: no row), blob_path # '', past the TTL
    originals,  \* originals rows: present, blob_path # '', past the deadline
    labels,     \* tags and codes of an image: <<tenant, kind>>
    processor,  \* pipeline.process on each worker thread
    pruner,     \* a pass over expired rows: what is left and what is marked
    deleter,    \* Client.delete on each HTTP thread
    minted,     \* the last artifact id
    taken, deletions, faults,  \* bounded by the Max constants
    debris      \* what crashes and failed store calls left, for properties

store      == <<blobs, sources>>
metadata   == <<artifacts, originals, labels, minted>>
threads    == <<processor, pruner, deleter>>
counters   == <<taken, deletions, faults>>
imagesVars == <<store, metadata, threads, counters, debris>>

-----------------------------------------------------------------------------

NoArtifact == [id |-> 0, path |-> FALSE, due |-> FALSE]
NoOriginal == [row |-> FALSE, path |-> FALSE, due |-> FALSE]
NoJob      == [pc |-> "idle", image |-> NoImage, tenant |-> Global, asks |-> {},
               keep |-> "no", seen |-> 0]
NoPass     == [pc |-> "idle", todo |-> {}, cut |-> {}]
NoDelete   == [pc |-> "idle", image |-> NoImage, tenant |-> Global]

Artifact == [id : Nat, path : BOOLEAN, due : BOOLEAN]
Original == [row : BOOLEAN, path : BOOLEAN, due : BOOLEAN]
Handling == [pc : {"idle", "hit", "miss", "reclaim", "checked", "put", "bind"},
             image : Image \union {NoImage}, tenant : Tenant, asks : SUBSET Kinds,
             keep : {"no", "put", "row"}, seen : Nat]
Target   == [image : Image, id : Nat]
Passing  == [pc : {"idle", "blobs", "originals", "mark"},
             todo : SUBSET Target, cut : SUBSET Target]
Deletion == [pc : {"idle", "release", "look", "objects", "source", "rows"},
             image : Image \union {NoImage}, tenant : Tenant]

ImagesTypeOK ==
    /\ blobs \subseteq Image /\ sources \subseteq Image
    /\ artifacts \in [Image -> Artifact]
    /\ originals \in [Image -> Original]
    /\ labels \in [Image -> SUBSET (Tenant \X Kinds)]
    /\ processor \in [Processor -> Handling]
    /\ \A w \in Processor : processor[w].pc # "idle" => processor[w].image \in Image
    /\ pruner \in [Pruner -> Passing]
    /\ deleter \in [Deleter -> Deletion]
    /\ \A d \in Deleter : deleter[d].pc # "idle" => deleter[d].image \in Image
    /\ taken \in 0..MaxJobs /\ minted \in Nat
    /\ deletions \in 0..MaxDeletes /\ faults \in 0..MaxFaults
    /\ debris \subseteq {"blob", "source", "row", "original"} \X Image

ImagesInit ==
    /\ blobs = Stored /\ sources = {}
    /\ artifacts = [i \in Image |->
         IF i \in Stored THEN [id |-> 1, path |-> TRUE, due |-> FALSE]
                         ELSE NoArtifact]
    /\ originals = [i \in Image |-> NoOriginal]
    /\ labels = [i \in Image |-> {}]
    /\ processor = [w \in Processor |-> NoJob]
    /\ pruner = [p \in Pruner |-> NoPass]
    /\ deleter = [d \in Deleter |-> NoDelete]
    /\ minted = Cardinality(Stored) /\ taken = 0 /\ deletions = 0 /\ faults = 0
    /\ debris = {}

-----------------------------------------------------------------------------

Stands(w, pc) == processor[w].pc = pc
Goto(w, pc)   == processor' = [processor EXCEPT ![w].pc = pc]
Retire(w)     == processor' = [processor EXCEPT ![w] = NoJob]
Doing(w)      == processor[w].image

Live(i)       == artifacts[i].path /\ ~artifacts[i].due
LiveSource(i) == originals[i].path /\ ~originals[i].due

Writing(w, i)  == ~Stands(w, "idle") /\ Doing(w) = i
Pruning(p, i)  == \E t \in pruner[p].todo \union pruner[p].cut : t.image = i
Deleting(d, i) == deleter[d].pc # "idle" /\ deleter[d].image = i

\* Without Overlapping, nobody prunes or deletes an image that another is writing,
\* nor writes one that is being pruned or deleted, and a job takes less time
\* than the shortest TTL (config.py: 60 seconds).
Undisturbed(i) ==
    Overlapping \/ /\ \A p \in Pruner : ~Pruning(p, i)
                   /\ \A d \in Deleter : ~Deleting(d, i)
Unwritten(i, p) == Overlapping \/ \A w \in Processor \ {p} : ~Writing(w, i)
Outlasted(i) ==
    Overlapping \/ \A w \in Processor :
                      Writing(w, i) => processor[w].seen = artifacts[i].id

\* An uncommitted UPDATE of a prune pass locks the row.
RowsFree(i) ==
    \A p \in Pruner : pruner[p].pc = "blobs" =>
        \A t \in pruner[p].cut : t.image = i => t.id # artifacts[i].id

-----------------------------------------------------------------------------
(* pipeline.process: one job on one worker thread.                         *)

\* The bytes are here, the artifact is looked up, and the object with it: a
\* row alone is no cache hit.
Take(w, i, r) ==
    /\ Stands(w, "idle") /\ taken < MaxJobs /\ Undisturbed(i)
    /\ taken' = taken + 1
    /\ processor' = [processor EXCEPT ![w] =
                       [pc |-> IF Live(i) /\ ~r.force /\ i \in blobs
                               THEN "hit" ELSE "miss",
                        image |-> i, tenant |-> r.tenant, asks |-> r.asks,
                        keep |-> IF r.keep THEN "put" ELSE "no",
                        seen |-> artifacts[i].id]]
    /\ UNCHANGED <<store, metadata, pruner, deleter, deletions, faults, debris>>

\* Mutant: what has a row, if only a tombstone, is not put again.
PutSourceOnce(w) ==
    /\ processor[w].pc \in {"hit", "miss"} /\ processor[w].keep = "put"
    /\ sources' = IF originals[Doing(w)].row THEN sources
                                            ELSE sources \union {Doing(w)}
    /\ processor' = [processor EXCEPT ![w].keep = "row"]
    /\ UNCHANGED <<blobs, metadata, pruner, deleter, counters, debris>>

\* originals.retain: object first ...
PutSource(w) ==
    /\ processor[w].pc \in {"hit", "miss"} /\ processor[w].keep = "put"
    /\ sources' = sources \union {Doing(w)}
    /\ processor' = [processor EXCEPT ![w].keep = "row"]
    /\ UNCHANGED <<blobs, metadata, pruner, deleter, counters, debris>>

\* ... row second, in a commit of its own. The deadline only moves forward,
\* and a new one is in the future.
UpsertOriginal(w) ==
    /\ processor[w].keep = "row"
    /\ originals' = [originals EXCEPT ![Doing(w)] =
                        [row |-> TRUE, path |-> TRUE, due |-> FALSE]]
    /\ processor' = [processor EXCEPT ![w].keep = "no"]
    /\ debris' = debris \ {<<"source", Doing(w)>>, <<"original", Doing(w)>>}
    /\ UNCHANGED <<store, artifacts, labels, minted, pruner, deleter, counters>>

\* The result is stored: the external code is bound next, by the same thread.
Answer(w) == IF "code" \in processor[w].asks THEN Goto(w, "bind") ELSE Retire(w)

Labelled(w, kind) ==
    [labels EXCEPT ![Doing(w)] =
        @ \union ({processor[w].tenant} \X ({kind} \intersect processor[w].asks))]

\* The tags are merged. Their foreign key fails if the image is gone by now.
ServeHit(w) ==
    /\ Stands(w, "hit") /\ processor[w].keep = "no"
    /\ IF artifacts[Doing(w)].id = 0 /\ "tag" \in processor[w].asks
       THEN Retire(w) /\ UNCHANGED labels
       ELSE Answer(w) /\ labels' = Labelled(w, "tag")
    /\ UNCHANGED <<store, artifacts, originals, minted, pruner, deleter,
                   counters, debris>>

\* The bytes do not decode, or detection fails after the original was kept.
Fail(w) ==
    /\ Stands(w, "miss") /\ processor[w].keep # "row"
    /\ Retire(w)
    /\ UNCHANGED <<store, metadata, pruner, deleter, counters, debris>>

\* _live_bytes: what rows say is in the store, past its deadline or not.
Held        == {i \in Image : artifacts[i].path}
HeldSources == {i \in Image : originals[i].path}
Usage       == Cardinality(Held) + Cardinality(HeldSources)

\* Mutant: an exactly full store admits one object more.
FitsRounded == Usage <= Cap

Fits == Usage + 1 <= Cap

Expired(p) == {[image |-> i, id |-> artifacts[i].id] :
                 i \in {k \in Image : artifacts[k].path /\ artifacts[k].due
                                      /\ Unwritten(k, p)}}

Due(p) == {[image |-> i, id |-> 0] :
             i \in {k \in Image : originals[k].path /\ originals[k].due
                                  /\ Unwritten(k, p)}}

\* _check_storage_cap: over the cap, what is overdue is pruned first.
CheckCap(w) ==
    /\ Stands(w, "miss") /\ processor[w].keep = "no"
    /\ IF Fits
       THEN Goto(w, "checked") /\ UNCHANGED pruner
       ELSE /\ Goto(w, "reclaim")
            /\ pruner' = [pruner EXCEPT ![w] =
                            [pc |-> "blobs", todo |-> Expired(w), cut |-> {}]]
    /\ UNCHANGED <<store, metadata, deleter, counters, debris>>

\* Back from the pass: it fits now, or the job fails with storage_full.
Recheck(w) ==
    /\ Stands(w, "reclaim") /\ pruner[w].pc = "idle"
    /\ IF Fits THEN Goto(w, "checked") ELSE Retire(w)
    /\ UNCHANGED <<store, metadata, pruner, deleter, counters, debris>>

\* Mutant: an image that has a row already is not put again.
PutBlobOnce(w) ==
    /\ Stands(w, "checked")
    /\ blobs' = IF processor[w].seen # 0 THEN blobs ELSE blobs \union {Doing(w)}
    /\ Goto(w, "put")
    /\ UNCHANGED <<sources, metadata, pruner, deleter, counters, debris>>

\* Object first ...
PutBlob(w) ==
    /\ Stands(w, "checked")
    /\ blobs' = blobs \union {Doing(w)}
    /\ Goto(w, "put")
    /\ UNCHANGED <<sources, metadata, pruner, deleter, counters, debris>>

\* ... rows second, in one transaction: the row that was looked up is
\* replaced, a row that came since wins and this job serves it.
WriteRows(w) ==
    LET i == Doing(w) IN
    /\ Stands(w, "put") /\ RowsFree(i)
    /\ IF artifacts[i].id \in {0, processor[w].seen}
       THEN /\ artifacts' = [artifacts EXCEPT ![i] =
                               [id |-> minted + 1, path |-> TRUE, due |-> FALSE]]
            /\ minted' = minted + 1
            /\ debris' = debris \ {<<"blob", i>>, <<"row", i>>}
       ELSE UNCHANGED <<artifacts, minted, debris>>
    /\ labels' = Labelled(w, "tag")
    /\ Answer(w)
    /\ UNCHANGED <<store, originals, pruner, deleter, counters>>

\* jobs.bind_code, after process has returned; a foreign key again.
BindCode(w) ==
    /\ Stands(w, "bind")
    /\ labels' = IF artifacts[Doing(w)].id = 0 THEN labels
                                               ELSE Labelled(w, "code")
    /\ Retire(w)
    /\ UNCHANGED <<store, artifacts, originals, minted, pruner, deleter,
                   counters, debris>>

-----------------------------------------------------------------------------
(* JobQueue.prune_expired and originals.prune: a sweep, the same pass on a *)
(* worker at the storage cap, and its two halves on a read that comes too  *)
(* late (_check_expired, originals.lookup).                                *)

Pass(p, pc, todo, cut) ==
    pruner' = [pruner EXCEPT ![p] = [pc |-> pc, todo |-> todo, cut |-> cut]]

SelectBlobs(p) ==
    /\ p \in Sweeper /\ pruner[p].pc = "idle"
    /\ Pass(p, "blobs", Expired(p), {})
    /\ UNCHANGED <<store, metadata, processor, deleter, counters, debris>>

ReadExpired(p, t) ==
    /\ p \in Reader /\ pruner[p].pc = "idle"
    /\ Pass(p, "blobs", {t}, {})
    /\ UNCHANGED <<store, metadata, processor, deleter, counters, debris>>

\* A delete whose failure is swallowed: the row is marked all the same. Only a
\* late read of an artifact fails with the store.
Swallowed(kind, t) ==
    /\ faults < MaxFaults /\ faults' = faults + 1
    /\ debris' = debris \union {<<kind, t.image>>}
    /\ UNCHANGED store

\* The object goes, the row is marked in the open transaction.
DeleteBlob(p, t) ==
    /\ pruner[p].pc = "blobs" /\ t \in pruner[p].todo
    /\ \/ /\ blobs' = blobs \ {t.image}
          /\ UNCHANGED <<sources, faults, debris>>
       \/ p \notin Reader /\ Swallowed("blob", t)
    /\ Pass(p, "blobs", pruner[p].todo \ {t}, pruner[p].cut \union {t})
    /\ UNCHANGED <<metadata, processor, deleter, taken, deletions>>

Mark(cut) ==
    [i \in Image |-> [artifacts[i] EXCEPT
        !.path = @ /\ [image |-> i, id |-> artifacts[i].id] \notin cut]]

\* The originals left to prune, or the end of the pass.
Originals(p, todo) ==
    Pass(p, IF todo = {} THEN "idle" ELSE "originals", todo, {})

\* Mutant: a pass ends with the artifacts.
CommitAndEnd(p) ==
    /\ pruner[p].pc = "blobs" /\ pruner[p].todo = {}
    /\ artifacts' = Mark(pruner[p].cut)
    /\ Originals(p, {})
    /\ UNCHANGED <<store, originals, labels, minted, processor, deleter,
                   counters, debris>>

\* The commit; except on a read the originals that are due are selected next.
CommitExpired(p) ==
    /\ pruner[p].pc = "blobs" /\ pruner[p].todo = {}
    /\ artifacts' = Mark(pruner[p].cut)
    /\ Originals(p, IF p \in Reader THEN {} ELSE Due(p))
    /\ UNCHANGED <<store, originals, labels, minted, processor, deleter,
                   counters, debris>>

ReadDue(p, t) ==
    /\ p \in Reader /\ pruner[p].pc = "idle"
    /\ Pass(p, "originals", {t}, {})
    /\ UNCHANGED <<store, metadata, processor, deleter, counters, debris>>

DeleteSource(p, t) ==
    /\ pruner[p].pc = "originals" /\ t \in pruner[p].todo
    /\ \/ /\ sources' = sources \ {t.image}
          /\ UNCHANGED <<blobs, faults, debris>>
       \/ Swallowed("source", t)
    /\ Pass(p, "mark", pruner[p].todo \ {t}, {t})
    /\ UNCHANGED <<metadata, processor, deleter, taken, deletions>>

\* original_expire, by source_sha and whatever the row is by now.
ExpireOriginal(p) ==
    /\ pruner[p].pc = "mark"
    /\ originals' = [i \in Image |-> [originals[i] EXCEPT
                        !.path = @ /\ ~\E t \in pruner[p].cut : t.image = i]]
    /\ Originals(p, pruner[p].todo)
    /\ UNCHANGED <<store, artifacts, labels, minted, processor, deleter,
                   counters, debris>>

-----------------------------------------------------------------------------
(* Client.delete.                                                          *)

DeleterAt(d, pc) == deleter[d].pc = pc
DeleterGoto(d, pc) == deleter' = [deleter EXCEPT ![d].pc = pc]

\* Mutant: the answer is given and the deletion goes on.
EndDeleteLate(d) == deleter' = [deleter EXCEPT ![d].image = NoImage]

EndDelete(d) == deleter' = [deleter EXCEPT ![d] = NoDelete]

\* artifact_blob_paths, and for a scoped key scope.allows_sha.
Found(i, t) == artifacts[i].path /\ (t = Global \/ <<t, "tag">> \in labels[i])

\* Without a path to delete the image is said not to exist.
StartDelete(d, i, t) ==
    /\ DeleterAt(d, "idle") /\ deletions < MaxDeletes /\ Unwritten(i, d)
    /\ deletions' = deletions + 1
    /\ IF Found(i, t)
       THEN deleter' = [deleter EXCEPT ![d] =
                          [pc |-> IF t = Global THEN "objects" ELSE "release",
                           image |-> i, tenant |-> t]]
       ELSE UNCHANGED deleter
    /\ UNCHANGED <<store, metadata, processor, pruner, taken, faults, debris>>

\* release_tenant_labels, committed.
Release(d) ==
    LET i == deleter[d].image IN
    /\ DeleterAt(d, "release")
    /\ labels' = [labels EXCEPT ![i] = @ \ ({deleter[d].tenant} \X Kinds)]
    /\ DeleterGoto(d, "look")
    /\ UNCHANGED <<store, artifacts, originals, minted, processor, pruner,
                   counters, debris>>

\* Mutant: only tags count as a reference.
AnyTags(i) == \E l \in labels[i] : l[2] = "tag"

HasAnyLabels(i) == labels[i] # {}

Look(d) ==
    /\ DeleterAt(d, "look")
    /\ IF HasAnyLabels(deleter[d].image) THEN EndDelete(d)
                                         ELSE DeleterGoto(d, "objects")
    /\ UNCHANGED <<store, metadata, processor, pruner, counters, debris>>

DeleteObjects(d) ==
    LET i == deleter[d].image IN
    /\ DeleterAt(d, "objects")
    /\ blobs' = blobs \ {i}
    /\ debris' = debris \ {<<"blob", i>>}
    /\ DeleterGoto(d, "source")
    /\ UNCHANGED <<sources, metadata, processor, pruner, counters>>

\* Mutant: the original is left to its deadline, its row is not.
DeleteOriginalNot(d) ==
    /\ DeleterAt(d, "source")
    /\ DeleterGoto(d, "rows")
    /\ UNCHANGED <<store, metadata, processor, pruner, counters, debris>>

\* original_find, and the object of an original that is not pruned yet.
DeleteOriginal(d) ==
    LET i == deleter[d].image IN
    /\ DeleterAt(d, "source")
    /\ sources' = IF originals[i].path THEN sources \ {i} ELSE sources
    /\ DeleterGoto(d, "rows")
    /\ UNCHANGED <<blobs, metadata, processor, pruner, counters, debris>>

\* delete_image: rows, labels by cascade, the original's row.
DeleteRows(d) ==
    LET i == deleter[d].image IN
    /\ DeleterAt(d, "rows") /\ RowsFree(i)
    /\ artifacts' = [artifacts EXCEPT ![i] = NoArtifact]
    /\ originals' = [originals EXCEPT ![i] = NoOriginal]
    /\ labels' = [labels EXCEPT ![i] = {}]
    /\ debris' = debris \ {<<"row", i>>, <<"original", i>>}
    /\ EndDelete(d)
    /\ UNCHANGED <<store, minted, processor, pruner, counters>>

-----------------------------------------------------------------------------
(* Time, and what ends in the middle.                                      *)

Deadline(i) ==
    /\ Live(i) /\ Outlasted(i)
    /\ artifacts' = [artifacts EXCEPT ![i].due = TRUE]
    /\ UNCHANGED <<store, originals, labels, minted, threads, counters, debris>>

SourceDeadline(i) ==
    /\ LiveSource(i)
    /\ originals' = [originals EXCEPT ![i].due = TRUE]
    /\ UNCHANGED <<store, artifacts, labels, minted, threads, counters, debris>>

Fault == faults < MaxFaults /\ faults' = faults + 1

\* A worker's process dies, with the pass it may be in. A put that the store
\* refuses, or carries out and does not confirm, ends the job in the same way.
WorkerDies(w) ==
    /\ ~Stands(w, "idle") /\ Fault
    /\ Retire(w)
    /\ pruner' = [pruner EXCEPT ![w] = NoPass]
    /\ debris' = debris
         \union (IF Stands(w, "put") THEN {<<"blob", Doing(w)>>} ELSE {})
         \union (IF processor[w].keep = "row" THEN {<<"source", Doing(w)>>} ELSE {})
    /\ UNCHANGED <<store, metadata, deleter, taken, deletions>>

PassDies(p) ==
    /\ p \notin Processor /\ pruner[p].pc # "idle" /\ Fault
    /\ Pass(p, "idle", {}, {})
    /\ UNCHANGED <<store, metadata, processor, deleter, taken, deletions, debris>>

\* A deletion dies, or the store refuses the delete and it answers 500.
DeleteFails(d) ==
    /\ deleter[d].pc # "idle" /\ Fault
    /\ EndDelete(d)
    /\ debris' = debris \union
         (CASE DeleterAt(d, "source") -> {"row"}
            [] DeleterAt(d, "rows")   -> {"row", "original"}
            [] OTHER                  -> {}) \X {deleter[d].image}
    /\ UNCHANGED <<store, metadata, processor, pruner, taken, deletions>>

-----------------------------------------------------------------------------

WorkStep(w) ==
    \/ PutSource(w) \/ UpsertOriginal(w) \/ ServeHit(w)
    \/ Fail(w) \/ CheckCap(w) \/ Recheck(w) \/ PutBlob(w) \/ WriteRows(w)
    \/ BindCode(w)

PassStep(p) ==
    \/ \E t \in pruner[p].todo : DeleteBlob(p, t) \/ DeleteSource(p, t)
    \/ CommitExpired(p) \/ ExpireOriginal(p)

ReadStep(p) == \/ \E t \in Expired(p) : ReadExpired(p, t)
               \/ \E t \in Due(p) : ReadDue(p, t)

DeleteStep(d) ==
    \/ Release(d) \/ Look(d) \/ DeleteObjects(d) \/ DeleteOriginal(d)
    \/ DeleteRows(d)

ImagesNext ==
    \/ \E w \in Processor :
          \/ WorkStep(w) \/ WorkerDies(w)
          \/ \E i \in Image, r \in Request : Take(w, i, r)
    \/ \E p \in Pruner :
          SelectBlobs(p) \/ PassStep(p) \/ ReadStep(p) \/ PassDies(p)
    \/ \E d \in Deleter :
          \/ DeleteStep(d) \/ DeleteFails(d)
          \/ \E i \in Image, t \in Tenant : StartDelete(d, i, t)
    \/ \E i \in Image : Deadline(i) \/ SourceDeadline(i)

ImagesSpec == ImagesInit /\ [][ImagesNext]_imagesVars

\* Threads that have begun go on, and the sweep comes round again.
ImagesFairness ==
    /\ \A w \in Processor : WF_imagesVars(WorkStep(w))
    /\ \A p \in Pruner : WF_imagesVars(PassStep(p)) /\ WF_imagesVars(SelectBlobs(p))
    /\ \A d \in Deleter : WF_imagesVars(DeleteStep(d))

FairImages == ImagesSpec /\ ImagesFairness

-----------------------------------------------------------------------------

\* A deletion has taken objects and not the rows yet, or never will.
Torn(i) ==
    \/ <<"row", i>> \in debris
    \/ \E d \in Deleter : /\ deleter[d].pc \in {"source", "rows"}
                          /\ deleter[d].image = i

TornOriginal(i) ==
    \/ <<"original", i>> \in debris
    \/ \E d \in Deleter : DeleterAt(d, "rows") /\ deleter[d].image = i

\* A row that has not reached its deadline leads to bytes: no order of jobs
\* on the same image, prune passes, crashes and late reads leaves a record
\* without its object. Only a deletion that is under way or broke off may.
LiveRowHasBlob ==
    \A i \in Image : Live(i) => i \in blobs \/ Torn(i)

\* The same of retained originals.
LiveOriginalHasSource ==
    \A i \in Image : LiveSource(i) => i \in sources \/ TornOriginal(i)

\* No object is forgotten: each is named by a row that will be pruned or
\* deleted, is about to be, or was left by a crash between object and row or
\* by a delete the store refused.
ObjectsAccounted ==
    /\ \A i \in blobs :
          \/ artifacts[i].path \/ <<"blob", i>> \in debris
          \/ \E w \in Processor : Stands(w, "put") /\ Doing(w) = i
    /\ \A i \in sources :
          \/ originals[i].path \/ <<"source", i>> \in debris
          \/ \E w \in Processor : processor[w].keep = "row" /\ Doing(w) = i

\* Checking the cap and writing the row are steps of their own, so concurrent
\* workers overshoot it: what is stored and what was admitted since exceed it
\* by one object for every other worker, never more.
PastCheck == {w \in Processor : processor[w].pc \in {"checked", "put"}}

CapOvershoot ==
    Cardinality(Held) + Cardinality(PastCheck) <= Cap + Cardinality(Processor) - 1

\* One tenant's delete leaves the others their labels, and the image with
\* them: labels go with a delete of their own tenant or of the operator.
OthersKeepLabels ==
    [][\A i \in Image : \A l \in labels[i] \ labels'[i] :
          \E d \in Deleter : /\ deleter[d].image = i /\ deleter[d].pc # "idle"
                             /\ deleter[d].tenant \in {Global, l[1]}]_imagesVars

\* Whatever has reached its deadline is pruned in the end.
DueIsPruned ==
    \A i \in Image :
        /\ artifacts[i].path /\ artifacts[i].due
              ~> ~(artifacts[i].path /\ artifacts[i].due)
        /\ originals[i].path /\ originals[i].due
              ~> ~(originals[i].path /\ originals[i].due)

\* spec/originals.md: "Deleting the image (unscoped, or the last tenant's
\* scoped delete) deletes the object and the row." No DELETE of the operator is
\* answered while the original can still be read.
DeleteTakesOriginal ==
    [][\A d \in Deleter, i \in Image :
          /\ StartDelete(d, i, Global) \/ (DeleteRows(d) /\ deleter[d].image = i)
          /\ DeleterAt(d, "idle")'
          => ~LiveSource(i)']_imagesVars
=============================================================================
