---------------------------- MODULE ImagesProofs ----------------------------
(***************************************************************************)
(* For any number of images, workers, sweeps, reads and deletions: how far *)
(* concurrent workers overshoot storage.max_bytes; and, where nobody       *)
(* deletes or prunes an image that another thread is writing, that rows    *)
(* and objects account for each other and labels outlive other tenants'    *)
(* deletions.                                                              *)
(***************************************************************************)
EXTENDS Images, FiniteSetTheorems, TLAPS

\* A thread that moves on to another position of its job is at work on the
\* same image still.
LEMMA JobMoves ==
    ASSUME ImagesTypeOK, NEW w \in Processor, processor[w].pc # "idle",
           NEW pc \in {"hit", "miss", "reclaim", "checked", "put", "bind"},
           Goto(w, pc)
    PROVE  /\ processor' \in [Processor -> Handling]
           /\ \A v \in Processor : processor'[v].pc # "idle" => processor'[v].image \in Image
BY DEF ImagesTypeOK, Handling, Goto

LEMMA JobEnds ==
    ASSUME ImagesTypeOK, NEW w \in Processor, Retire(w)
    PROVE  /\ processor' \in [Processor -> Handling]
           /\ \A v \in Processor : processor'[v].pc # "idle" => processor'[v].image \in Image
BY StoresAssumption DEF ImagesTypeOK, Handling, Retire, NoJob

LEMMA Answered ==
    ASSUME ImagesTypeOK, NEW w \in Processor, processor[w].pc # "idle", Answer(w)
    PROVE  /\ processor' \in [Processor -> Handling]
           /\ \A v \in Processor : processor'[v].pc # "idle" => processor'[v].image \in Image
BY JobMoves, JobEnds DEF Answer

LEMMA LabelsGrow ==
    ASSUME ImagesTypeOK, NEW w \in Processor, processor[w].pc # "idle", NEW kind
    PROVE  Labelled(w, kind) \in [Image -> SUBSET (Tenant \X Kinds)]
<1>1. /\ processor[w].tenant \in Tenant /\ processor[w].asks \subseteq Kinds
  BY DEF ImagesTypeOK, Handling
<1>2. {processor[w].tenant} \X ({kind} \intersect processor[w].asks)
          \subseteq Tenant \X Kinds
  BY <1>1
<1>3. QED
  BY <1>2 DEF ImagesTypeOK, Labelled, Doing

LEMMA PassMoves ==
    ASSUME ImagesTypeOK, NEW p \in Pruner,
           NEW pc \in {"idle", "blobs", "originals", "mark"},
           NEW todo \in SUBSET Target, NEW cut \in SUBSET Target,
           Pass(p, pc, todo, cut)
    PROVE  pruner' \in [Pruner -> Passing]
BY DEF ImagesTypeOK, Passing, Pass

LEMMA Selections ==
    ASSUME ImagesTypeOK, NEW p \in Pruner
    PROVE  /\ Expired(p) \subseteq Target /\ Due(p) \subseteq Target
           /\ pruner[p].todo \subseteq Target /\ pruner[p].cut \subseteq Target
<1>1. \A i \in Image : artifacts[i].id \in Nat
  BY DEF ImagesTypeOK, Artifact
<1>2. QED
  BY <1>1 DEF ImagesTypeOK, Expired, Due, Target, Passing

LEMMA DeletionMoves ==
    ASSUME ImagesTypeOK, NEW d \in Deleter, ~DeleterAt(d, "idle"),
           NEW pc \in {"release", "look", "objects", "source", "rows"},
           DeleterGoto(d, pc)
    PROVE  /\ deleter' \in [Deleter -> Deletion]
           /\ \A e \in Deleter : deleter'[e].pc # "idle" => deleter'[e].image \in Image
BY DEF ImagesTypeOK, Deletion, DeleterAt, DeleterGoto

LEMMA DeletionEnds ==
    ASSUME ImagesTypeOK, NEW d \in Deleter, EndDelete(d)
    PROVE  /\ deleter' \in [Deleter -> Deletion]
           /\ \A e \in Deleter : deleter'[e].pc # "idle" => deleter'[e].image \in Image
BY StoresAssumption DEF ImagesTypeOK, Deletion, EndDelete, NoDelete

LEMMA StoredOne ==
    Stored \subseteq Image /\ IsFiniteSet(Stored) /\ Cardinality(Stored) \in 0..1
<1>1. Stored \subseteq Image
  BY StoresAssumption
<1>2. CASE Stored = {}
  <2>1. IsFiniteSet(Stored) /\ Cardinality(Stored) = 0
    BY <1>2, FS_EmptySet
  <2>2. QED
    BY <1>1, <2>1
<1>3. ASSUME NEW i \in Image, Stored = {i}
      PROVE  IsFiniteSet(Stored) /\ Cardinality(Stored) \in 0..1
  <2>1. IsFiniteSet({i}) /\ Cardinality({i}) = 1
    BY FS_Singleton
  <2>2. QED
    BY <1>3, <2>1
<1>4. QED
  BY <1>1, <1>2, <1>3, StoresAssumption

LEMMA TypeInit == ImagesInit => ImagesTypeOK
<1>1. /\ NoArtifact \in Artifact /\ NoOriginal \in Original
      /\ [id |-> 1, path |-> TRUE, due |-> FALSE] \in Artifact
  BY DEF NoArtifact, Artifact, NoOriginal, Original
<1>2. NoJob \in Handling /\ NoPass \in Passing /\ NoDelete \in Deletion
  BY StoresAssumption DEF NoJob, Handling, NoPass, Passing, NoDelete, Deletion
<1>3. Stored \subseteq Image /\ Cardinality(Stored) \in Nat
  BY StoredOne
<1>4. NoJob.pc = "idle" /\ NoDelete.pc = "idle"
  BY DEF NoJob, NoDelete
<1>5. QED
  BY <1>1, <1>2, <1>3, <1>4, BoundsAssumption DEF ImagesInit, ImagesTypeOK

LEMMA WorkTyped ==
    ASSUME ImagesTypeOK, NEW w \in Processor, WorkStep(w)
    PROVE  ImagesTypeOK'
<1> USE DEF store, metadata, counters
<1>0. w \in Pruner
  BY DEF Pruner
<1>1. CASE PutSource(w)
  <2>1. /\ processor' = [processor EXCEPT ![w].keep = "row"]
        /\ processor[w].pc # "idle" /\ sources' = sources \union {Doing(w)}
        /\ UNCHANGED <<blobs, metadata, pruner, deleter, counters, debris>>
    BY <1>1 DEF PutSource
  <2>2. /\ processor' \in [Processor -> Handling]
        /\ \A v \in Processor : processor'[v].pc # "idle" => processor'[v].image \in Image
    BY <2>1 DEF ImagesTypeOK, Handling
  <2>3. QED
    BY <2>1, <2>2 DEF ImagesTypeOK, Doing
<1>2. CASE UpsertOriginal(w)
  <2>1. /\ processor' = [processor EXCEPT ![w].keep = "no"]
        /\ originals' = [originals EXCEPT ![Doing(w)] =
                            [row |-> TRUE, path |-> TRUE, due |-> FALSE]]
        /\ debris' \subseteq debris
        /\ UNCHANGED <<store, artifacts, labels, minted, pruner, deleter,
                       counters>>
    BY <1>2 DEF UpsertOriginal
  <2>2. /\ processor' \in [Processor -> Handling]
        /\ \A v \in Processor : processor'[v].pc # "idle" => processor'[v].image \in Image
    BY <2>1 DEF ImagesTypeOK, Handling
  <2>3. originals' \in [Image -> Original]
    BY <2>1 DEF ImagesTypeOK, Original
  <2>4. QED
    BY <2>1, <2>2, <2>3 DEF ImagesTypeOK
<1>3. CASE ServeHit(w)
  <2>1. /\ Stands(w, "hit")
        /\ \/ Retire(w) /\ UNCHANGED labels
           \/ Answer(w) /\ labels' = Labelled(w, "tag")
        /\ UNCHANGED <<store, artifacts, originals, minted, pruner, deleter,
                       counters, debris>>
    BY <1>3 DEF ServeHit
  <2>2. processor[w].pc # "idle"
    BY <2>1 DEF Stands
  <2>3. /\ processor' \in [Processor -> Handling]
        /\ \A v \in Processor : processor'[v].pc # "idle" => processor'[v].image \in Image
    BY <2>1, <2>2, JobEnds, Answered
  <2>4. labels' \in [Image -> SUBSET (Tenant \X Kinds)]
    BY <2>1, <2>2, LabelsGrow DEF ImagesTypeOK
  <2>5. QED
    BY <2>1, <2>3, <2>4 DEF ImagesTypeOK
<1>4. CASE Fail(w)
  <2>1. Retire(w) /\ UNCHANGED <<store, metadata, pruner, deleter, counters, debris>>
    BY <1>4 DEF Fail
  <2>2. QED
    BY <2>1, JobEnds DEF ImagesTypeOK
<1>5. CASE CheckCap(w)
  <2>1. /\ processor[w].pc # "idle"
        /\ Goto(w, "checked") \/ Goto(w, "reclaim")
        /\ pruner' = pruner \/ Pass(w, "blobs", Expired(w), {})
        /\ UNCHANGED <<store, metadata, deleter, counters, debris>>
    BY <1>5 DEF CheckCap, Stands, Pass
  <2>2. /\ processor' \in [Processor -> Handling]
        /\ \A v \in Processor : processor'[v].pc # "idle" => processor'[v].image \in Image
    BY <2>1, JobMoves
  <2>3. pruner' \in [Pruner -> Passing]
    <3>1. {} \in SUBSET Target /\ Expired(w) \in SUBSET Target
      BY <1>0, Selections
    <3>2. QED
      BY <1>0, <2>1, <3>1, PassMoves DEF ImagesTypeOK
  <2>4. QED
    BY <2>1, <2>2, <2>3 DEF ImagesTypeOK
<1>6. CASE Recheck(w)
  <2>1. /\ processor[w].pc # "idle"
        /\ Goto(w, "checked") \/ Retire(w)
        /\ UNCHANGED <<store, metadata, pruner, deleter, counters, debris>>
    BY <1>6 DEF Recheck, Stands
  <2>2. QED
    BY <2>1, JobMoves, JobEnds DEF ImagesTypeOK
<1>7. CASE PutBlob(w)
  <2>1. /\ processor[w].pc # "idle"
        /\ Goto(w, "put") /\ blobs' = blobs \union {Doing(w)}
        /\ UNCHANGED <<sources, metadata, pruner, deleter, counters, debris>>
    BY <1>7 DEF PutBlob, Stands
  <2>2. QED
    BY <2>1, JobMoves DEF ImagesTypeOK, Doing
<1>8. CASE WriteRows(w)
  <2>1. /\ processor[w].pc # "idle" /\ Answer(w) /\ labels' = Labelled(w, "tag")
        /\ \/ UNCHANGED <<artifacts, minted, debris>>
           \/ /\ artifacts' = [artifacts EXCEPT ![Doing(w)] =
                     [id |-> minted + 1, path |-> TRUE, due |-> FALSE]]
              /\ minted' = minted + 1 /\ debris' \subseteq debris
        /\ UNCHANGED <<store, originals, pruner, deleter, counters>>
    BY <1>8 DEF WriteRows, Stands
  <2>a. minted' \in Nat
    BY <2>1 DEF ImagesTypeOK
  <2>b. [id |-> minted + 1, path |-> TRUE, due |-> FALSE] \in Artifact
    BY DEF ImagesTypeOK, Artifact
  <2>2. artifacts' \in [Image -> Artifact] /\ minted' \in Nat
    BY <2>1, <2>a, <2>b DEF ImagesTypeOK
  <2>3. debris' \subseteq {"blob", "source", "row", "original"} \X Image
    BY <2>1 DEF ImagesTypeOK
  <2>4. QED
    BY <2>1, <2>2, <2>3, Answered, LabelsGrow DEF ImagesTypeOK
<1>9. CASE BindCode(w)
  <2>1. /\ processor[w].pc # "idle" /\ Retire(w)
        /\ labels' = labels \/ labels' = Labelled(w, "code")
        /\ UNCHANGED <<store, artifacts, originals, minted, pruner, deleter,
                       counters, debris>>
    BY <1>9 DEF BindCode, Stands
  <2>2. QED
    BY <2>1, JobEnds, LabelsGrow DEF ImagesTypeOK
<1>10. QED
  BY <1>1, <1>2, <1>3, <1>4, <1>5, <1>6, <1>7, <1>8, <1>9 DEF WorkStep

LEMMA PassTyped ==
    ASSUME ImagesTypeOK, NEW p \in Pruner,
           SelectBlobs(p) \/ PassStep(p) \/ ReadStep(p)
    PROVE  ImagesTypeOK'
<1> USE DEF store, metadata, counters
<1>0. /\ Expired(p) \subseteq Target /\ Due(p) \subseteq Target
      /\ pruner[p].todo \subseteq Target /\ pruner[p].cut \subseteq Target
  BY Selections
<1>1. ASSUME NEW todo \in SUBSET Target, Originals(p, todo)
      PROVE  pruner' \in [Pruner -> Passing]
  BY <1>1, PassMoves DEF Originals
<1>2. CASE SelectBlobs(p)
  <2>1. /\ Pass(p, "blobs", Expired(p), {})
        /\ UNCHANGED <<store, metadata, processor, deleter, counters, debris>>
    BY <1>2 DEF SelectBlobs
  <2>2. Expired(p) \in SUBSET Target /\ {} \in SUBSET Target
    BY <1>0
  <2>3. QED
    BY <2>1, <2>2, PassMoves DEF ImagesTypeOK
<1>3. ASSUME NEW t \in Expired(p), ReadExpired(p, t) PROVE ImagesTypeOK'
  <2>1. /\ Pass(p, "blobs", {t}, {})
        /\ UNCHANGED <<store, metadata, processor, deleter, counters, debris>>
    BY <1>3 DEF ReadExpired
  <2>2. {t} \in SUBSET Target /\ {} \in SUBSET Target
    BY <1>0
  <2>3. QED
    BY <2>1, <2>2, PassMoves DEF ImagesTypeOK
<1>4. ASSUME NEW t \in Due(p), ReadDue(p, t) PROVE ImagesTypeOK'
  <2>1. /\ Pass(p, "originals", {t}, {})
        /\ UNCHANGED <<store, metadata, processor, deleter, counters, debris>>
    BY <1>4 DEF ReadDue
  <2>2. {t} \in SUBSET Target /\ {} \in SUBSET Target
    BY <1>0
  <2>3. QED
    BY <2>1, <2>2, PassMoves DEF ImagesTypeOK
<1>5. ASSUME NEW t \in pruner[p].todo, NEW kind \in {"blob", "source"},
             Swallowed(kind, t)
      PROVE  /\ debris' \subseteq {"blob", "source", "row", "original"} \X Image
             /\ faults' \in 0..MaxFaults /\ UNCHANGED store
  BY <1>0, <1>5, BoundsAssumption DEF Swallowed, ImagesTypeOK, Target
<1>6. ASSUME NEW t \in pruner[p].todo, DeleteBlob(p, t) PROVE ImagesTypeOK'
  <2>1. /\ Pass(p, "blobs", pruner[p].todo \ {t}, pruner[p].cut \union {t})
        /\ \/ blobs' = blobs \ {t.image} /\ UNCHANGED <<sources, faults, debris>>
           \/ Swallowed("blob", t)
        /\ UNCHANGED <<metadata, processor, deleter, taken, deletions>>
    BY <1>6 DEF DeleteBlob
  <2>2. /\ pruner[p].todo \ {t} \in SUBSET Target
        /\ pruner[p].cut \union {t} \in SUBSET Target
    BY <1>0
  <2>3. pruner' \in [Pruner -> Passing]
    BY <2>1, <2>2, PassMoves
  <2>4. /\ blobs' \subseteq Image /\ sources' \subseteq Image
        /\ debris' \subseteq {"blob", "source", "row", "original"} \X Image
        /\ faults' \in 0..MaxFaults
    BY <1>5, <2>1 DEF ImagesTypeOK
  <2>5. QED
    BY <2>1, <2>3, <2>4 DEF ImagesTypeOK
<1>7. ASSUME NEW t \in pruner[p].todo, DeleteSource(p, t) PROVE ImagesTypeOK'
  <2>1. /\ Pass(p, "mark", pruner[p].todo \ {t}, {t})
        /\ \/ sources' = sources \ {t.image} /\ UNCHANGED <<blobs, faults, debris>>
           \/ Swallowed("source", t)
        /\ UNCHANGED <<metadata, processor, deleter, taken, deletions>>
    BY <1>7 DEF DeleteSource
  <2>2. pruner[p].todo \ {t} \in SUBSET Target /\ {t} \in SUBSET Target
    BY <1>0
  <2>3. pruner' \in [Pruner -> Passing]
    BY <2>1, <2>2, PassMoves
  <2>4. /\ blobs' \subseteq Image /\ sources' \subseteq Image
        /\ debris' \subseteq {"blob", "source", "row", "original"} \X Image
        /\ faults' \in 0..MaxFaults
    BY <1>5, <2>1 DEF ImagesTypeOK
  <2>5. QED
    BY <2>1, <2>3, <2>4 DEF ImagesTypeOK
<1>8. CASE CommitExpired(p)
  <2>1. /\ artifacts' = Mark(pruner[p].cut)
        /\ Originals(p, {}) \/ Originals(p, Due(p))
        /\ UNCHANGED <<store, originals, labels, minted, processor, deleter,
                       counters, debris>>
    BY <1>8 DEF CommitExpired
  <2>2. pruner' \in [Pruner -> Passing]
    BY <1>0, <1>1, <2>1
  <2>3. artifacts' \in [Image -> Artifact]
    BY <2>1 DEF ImagesTypeOK, Mark, Artifact
  <2>4. QED
    BY <2>1, <2>2, <2>3 DEF ImagesTypeOK
<1>9. CASE ExpireOriginal(p)
  <2>1. /\ originals' = [i \in Image |-> [originals[i] EXCEPT
                            !.path = @ /\ ~\E t \in pruner[p].cut : t.image = i]]
        /\ Originals(p, pruner[p].todo)
        /\ UNCHANGED <<store, artifacts, labels, minted, processor, deleter,
                       counters, debris>>
    BY <1>9 DEF ExpireOriginal
  <2>2. pruner' \in [Pruner -> Passing]
    BY <1>0, <1>1, <2>1
  <2>3. originals' \in [Image -> Original]
    BY <2>1 DEF ImagesTypeOK, Original
  <2>4. QED
    BY <2>1, <2>2, <2>3 DEF ImagesTypeOK
<1>10. QED
  BY <1>2, <1>3, <1>4, <1>6, <1>7, <1>8, <1>9 DEF PassStep, ReadStep

LEMMA DeleteTyped ==
    ASSUME ImagesTypeOK, NEW d \in Deleter, DeleteStep(d)
    PROVE  ImagesTypeOK'
<1> USE DEF store, metadata, counters
<1>1. CASE Release(d)
  <2>1. /\ ~DeleterAt(d, "idle") /\ DeleterGoto(d, "look")
        /\ labels' = [labels EXCEPT ![deleter[d].image] =
                        @ \ ({deleter[d].tenant} \X Kinds)]
        /\ UNCHANGED <<store, artifacts, originals, minted, processor, pruner,
                       counters, debris>>
    BY <1>1 DEF Release, DeleterAt
  <2>2. labels' \in [Image -> SUBSET (Tenant \X Kinds)]
    BY <2>1 DEF ImagesTypeOK
  <2>3. QED
    BY <2>1, <2>2, DeletionMoves DEF ImagesTypeOK
<1>2. CASE Look(d)
  <2>1. /\ ~DeleterAt(d, "idle")
        /\ DeleterGoto(d, "objects") \/ EndDelete(d)
        /\ UNCHANGED <<store, metadata, processor, pruner, counters, debris>>
    BY <1>2 DEF Look, DeleterAt
  <2>2. QED
    BY <2>1, DeletionMoves, DeletionEnds DEF ImagesTypeOK
<1>3. CASE DeleteObjects(d)
  <2>1. /\ ~DeleterAt(d, "idle") /\ DeleterGoto(d, "source")
        /\ blobs' \subseteq blobs /\ debris' \subseteq debris
        /\ UNCHANGED <<sources, metadata, processor, pruner, counters>>
    BY <1>3 DEF DeleteObjects, DeleterAt
  <2>2. QED
    BY <2>1, DeletionMoves DEF ImagesTypeOK
<1>4. CASE DeleteOriginal(d)
  <2>1. /\ ~DeleterAt(d, "idle") /\ DeleterGoto(d, "rows")
        /\ sources' \subseteq sources
        /\ UNCHANGED <<blobs, metadata, processor, pruner, counters, debris>>
    BY <1>4 DEF DeleteOriginal, DeleterAt
  <2>2. QED
    BY <2>1, DeletionMoves DEF ImagesTypeOK
<1>5. CASE DeleteRows(d)
  <2>1. /\ EndDelete(d) /\ debris' \subseteq debris
        /\ artifacts' = [artifacts EXCEPT ![deleter[d].image] = NoArtifact]
        /\ originals' = [originals EXCEPT ![deleter[d].image] = NoOriginal]
        /\ labels' = [labels EXCEPT ![deleter[d].image] = {}]
        /\ UNCHANGED <<store, minted, processor, pruner, counters>>
    BY <1>5 DEF DeleteRows
  <2>2. NoArtifact \in Artifact /\ NoOriginal \in Original
    BY DEF NoArtifact, Artifact, NoOriginal, Original
  <2>3. QED
    BY <2>1, <2>2, DeletionEnds DEF ImagesTypeOK
<1>6. QED
  BY <1>1, <1>2, <1>3, <1>4, <1>5 DEF DeleteStep

LEMMA TypeStep == ImagesTypeOK /\ [ImagesNext]_imagesVars => ImagesTypeOK'
<1> SUFFICES ASSUME ImagesTypeOK, [ImagesNext]_imagesVars PROVE ImagesTypeOK'
  OBVIOUS
<1> USE DEF store, metadata, threads, counters
<1>0. Fault => faults' \in 0..MaxFaults
  BY BoundsAssumption DEF Fault, ImagesTypeOK
<1>1. ASSUME NEW w \in Processor, WorkerDies(w) PROVE ImagesTypeOK'
  <2>1. /\ Retire(w) /\ Fault /\ ~Stands(w, "idle")
        /\ pruner' = [pruner EXCEPT ![w] = NoPass]
        /\ debris' \subseteq debris \union ({"blob", "source"} \X {Doing(w)})
        /\ UNCHANGED <<store, metadata, deleter, taken, deletions>>
    BY <1>1 DEF WorkerDies
  <2>2. pruner' \in [Pruner -> Passing]
    BY <2>1 DEF ImagesTypeOK, NoPass, Passing
  <2>3. debris' \subseteq {"blob", "source", "row", "original"} \X Image
    BY <2>1 DEF ImagesTypeOK, Stands, Doing
  <2>4. QED
    BY <1>0, <2>1, <2>2, <2>3, JobEnds DEF ImagesTypeOK
<1>2. ASSUME NEW w \in Processor, NEW i \in Image, NEW r \in Request, Take(w, i, r)
      PROVE  ImagesTypeOK'
  <2>1. /\ r.tenant \in Tenant /\ r.asks \in SUBSET Kinds
        /\ artifacts[i].id \in Nat
    BY StoresAssumption DEF Requests, ImagesTypeOK, Artifact
  <2>2. PICK pc \in {"hit", "miss"}, keep \in {"put", "no"} :
          processor' = [processor EXCEPT ![w] =
                          [pc |-> pc, image |-> i, tenant |-> r.tenant,
                           asks |-> r.asks, keep |-> keep,
                           seen |-> artifacts[i].id]]
    BY <1>2 DEF Take
  <2>3. /\ processor' \in [Processor -> Handling]
        /\ \A v \in Processor : processor'[v].pc # "idle" => processor'[v].image \in Image
    BY <2>1, <2>2 DEF ImagesTypeOK, Handling
  <2>4. taken' \in 0..MaxJobs
    BY <1>2, BoundsAssumption DEF Take, ImagesTypeOK
  <2>5. QED
    BY <1>2, <2>3, <2>4 DEF Take, ImagesTypeOK
<1>3. ASSUME NEW p \in Pruner, PassDies(p) PROVE ImagesTypeOK'
  <2>1. /\ Pass(p, "idle", {}, {}) /\ Fault
        /\ UNCHANGED <<store, metadata, processor, deleter, taken, deletions, debris>>
    BY <1>3 DEF PassDies
  <2>2. {} \in SUBSET Target
    OBVIOUS
  <2>3. QED
    BY <1>0, <2>1, <2>2, PassMoves DEF ImagesTypeOK
<1>4. ASSUME NEW d \in Deleter, DeleteFails(d) PROVE ImagesTypeOK'
  <2>1. /\ EndDelete(d) /\ Fault /\ deleter[d].pc # "idle"
        /\ debris' \subseteq debris \union ({"row", "original"} \X {deleter[d].image})
        /\ UNCHANGED <<store, metadata, processor, pruner, taken, deletions>>
    BY <1>4 DEF DeleteFails
  <2>2. debris' \subseteq {"blob", "source", "row", "original"} \X Image
    BY <2>1 DEF ImagesTypeOK
  <2>3. QED
    BY <1>0, <2>1, <2>2, DeletionEnds DEF ImagesTypeOK
<1>5. ASSUME NEW d \in Deleter, NEW i \in Image, NEW t \in Tenant,
             StartDelete(d, i, t)
      PROVE  ImagesTypeOK'
  <2>1. PICK pc \in {"objects", "release"} :
          deleter' \in {deleter, [deleter EXCEPT ![d] =
                                    [pc |-> pc, image |-> i, tenant |-> t]]}
    BY <1>5 DEF StartDelete
  <2>a. [pc |-> pc, image |-> i, tenant |-> t] \in Deletion
    BY DEF Deletion
  <2>2. /\ deleter' \in [Deleter -> Deletion]
        /\ \A e \in Deleter : deleter'[e].pc # "idle" => deleter'[e].image \in Image
    BY <2>1, <2>a DEF ImagesTypeOK
  <2>3. deletions' \in 0..MaxDeletes
    BY <1>5, BoundsAssumption DEF StartDelete, ImagesTypeOK
  <2>4. QED
    BY <1>5, <2>2, <2>3 DEF StartDelete, ImagesTypeOK
<1>6. ASSUME NEW i \in Image, Deadline(i) \/ SourceDeadline(i) PROVE ImagesTypeOK'
  <2>1. CASE Deadline(i)
    BY <2>1 DEF Deadline, ImagesTypeOK, Artifact
  <2>2. CASE SourceDeadline(i)
    BY <2>2 DEF SourceDeadline, ImagesTypeOK, Original
  <2>3. QED
    BY <1>6, <2>1, <2>2
<1>7. CASE UNCHANGED imagesVars
  BY <1>7 DEF imagesVars, ImagesTypeOK
<1>8. QED
  BY <1>1, <1>2, <1>3, <1>4, <1>5, <1>6, <1>7, WorkTyped, PassTyped, DeleteTyped
  DEF ImagesNext

\* Every variable stays in its type.
THEOREM ImagesTypeCorrect == ImagesSpec => []ImagesTypeOK
BY TypeInit, TypeStep, PTL DEF ImagesSpec

-----------------------------------------------------------------------------

\* Sets of images and workers are finite, and what is in them can be counted.
LEMMA Counted ==
    /\ IsFiniteSet(Held) /\ IsFiniteSet(HeldSources) /\ IsFiniteSet(PastCheck)
    /\ Cardinality(Held) \in Nat /\ Cardinality(HeldSources) \in Nat
    /\ Cardinality(PastCheck) \in Nat /\ Cardinality(PastCheck) <= Cardinality(Processor)
    /\ Cardinality(Processor) \in Nat
<1>1. /\ Held \subseteq Image /\ HeldSources \subseteq Image
      /\ PastCheck \subseteq Processor
  BY DEF Held, HeldSources, PastCheck
<1>2. IsFiniteSet(Image) /\ IsFiniteSet(Processor)
  BY StoresAssumption
<1>3. QED
  BY <1>1, <1>2, FS_Subset, FS_CardinalityType

\* The bound survives steps that release objects and workers ...
LEMMA CapReleased ==
    ASSUME CapOvershoot, Held' \subseteq Held, PastCheck' \subseteq PastCheck
    PROVE  CapOvershoot'
<1>1. /\ Cardinality(Held') \in Nat /\ Cardinality(Held') <= Cardinality(Held)
      /\ Cardinality(PastCheck') \in Nat
      /\ Cardinality(PastCheck') <= Cardinality(PastCheck)
  BY Counted, FS_Subset, FS_CardinalityType
<1>2. QED
  BY <1>1, Counted, BoundsAssumption DEF CapOvershoot

\* ... the admission of a job that found room, whoever else was admitted ...
LEMMA CapAdmitted ==
    ASSUME Fits, Held' = Held, PastCheck' \subseteq Processor
    PROVE  CapOvershoot'
<1>1. Cardinality(Held) + 1 <= Cap
  BY Counted, BoundsAssumption DEF Fits, Usage
<1>2. /\ Cardinality(PastCheck') \in Nat
      /\ Cardinality(PastCheck') <= Cardinality(Processor)
  BY StoresAssumption, FS_Subset, FS_CardinalityType
<1>3. QED
  BY <1>1, <1>2, Counted, BoundsAssumption DEF CapOvershoot

\* ... and the row of a job that was admitted before.
LEMMA CapWritten ==
    ASSUME CapOvershoot, NEW w \in PastCheck, NEW i \in Image,
           Held' \subseteq Held \union {i}, PastCheck' \subseteq PastCheck \ {w}
    PROVE  CapOvershoot'
<1>1. /\ IsFiniteSet(Held \union {i})
      /\ Cardinality(Held \union {i}) \in Nat
      /\ Cardinality(Held \union {i}) <= Cardinality(Held) + 1
  <2>1. /\ IsFiniteSet(Held \union {i})
        /\ Cardinality(Held \union {i}) = IF i \in Held THEN Cardinality(Held)
                                           ELSE Cardinality(Held) + 1
    BY Counted, FS_AddElement
  <2>2. QED
    BY <2>1, Counted
<1>2. /\ IsFiniteSet(PastCheck \ {w})
      /\ Cardinality(PastCheck \ {w}) = Cardinality(PastCheck) - 1
  BY Counted, FS_RemoveElement
<1>3. /\ Cardinality(Held') \in Nat
      /\ Cardinality(Held') <= Cardinality(Held \union {i})
  BY <1>1, FS_Subset, FS_CardinalityType
<1>4. /\ Cardinality(PastCheck') \in Nat
      /\ Cardinality(PastCheck') <= Cardinality(PastCheck \ {w})
  BY <1>2, FS_Subset, FS_CardinalityType
<1>5. QED
  BY <1>1, <1>2, <1>3, <1>4, Counted, BoundsAssumption DEF CapOvershoot

\* A worker that leaves its position takes nobody past the check.
LEMMA LeavesCheck ==
    ASSUME ImagesTypeOK, NEW w \in Processor, Retire(w) \/ Answer(w)
    PROVE  PastCheck' \subseteq PastCheck \ {w}
<1>1. processor'[w].pc \in {"idle", "bind"}
  BY DEF ImagesTypeOK, Retire, Answer, Goto, NoJob, Handling
<1>2. ASSUME NEW v \in Processor, v # w PROVE processor'[v] = processor[v]
  BY <1>2 DEF ImagesTypeOK, Retire, Answer, Goto
<1>3. QED
  BY <1>1, <1>2 DEF PastCheck

LEMMA WorkBounded ==
    ASSUME ImagesTypeOK, CapOvershoot, NEW w \in Processor, WorkStep(w)
    PROVE  CapOvershoot'
<1> USE DEF store, metadata, counters
<1>1. CASE PutSource(w) \/ UpsertOriginal(w) \/ PutBlob(w)
  <2>a. \A v \in Processor : \/ processor'[v].pc = processor[v].pc
                             \/ (v = w /\ processor[w].pc = "checked")
    <3>1. ASSUME NEW v \in Processor, PutSource(w)
          PROVE  processor'[v].pc = processor[v].pc
      BY <3>1 DEF PutSource, ImagesTypeOK, Handling
    <3>2. ASSUME NEW v \in Processor, UpsertOriginal(w)
          PROVE  processor'[v].pc = processor[v].pc
      BY <3>2 DEF UpsertOriginal, ImagesTypeOK, Handling
    <3>3. ASSUME NEW v \in Processor, PutBlob(w)
          PROVE  \/ processor'[v].pc = processor[v].pc
                 \/ (v = w /\ processor[w].pc = "checked")
      BY <3>3 DEF PutBlob, Stands, Goto, ImagesTypeOK, Handling
    <3>4. CASE PutSource(w)
      BY <3>1, <3>4
    <3>5. CASE UpsertOriginal(w)
      BY <3>2, <3>5
    <3>6. CASE PutBlob(w)
      BY <3>3, <3>6
    <3>7. QED
      BY <1>1, <3>4, <3>5, <3>6
  <2>1. PastCheck' \subseteq PastCheck /\ artifacts' = artifacts
    BY <1>1, <2>a DEF PutSource, UpsertOriginal, PutBlob, PastCheck
  <2>2. QED
    BY <2>1, CapReleased DEF Held
<1>2. CASE ServeHit(w) \/ Fail(w) \/ BindCode(w)
  <2>1. (Retire(w) \/ Answer(w)) /\ artifacts' = artifacts
    BY <1>2 DEF ServeHit, Fail, BindCode
  <2>2. QED
    BY <2>1, LeavesCheck, CapReleased DEF Held
<1>3. CASE CheckCap(w) \/ Recheck(w)
  <2>1. /\ artifacts' = artifacts
        /\ \/ Fits /\ Goto(w, "checked")
           \/ Goto(w, "reclaim") \/ Retire(w)
    BY <1>3 DEF CheckCap, Recheck
  <2>2. Held' = Held
    BY <2>1 DEF Held
  <2>3. CASE Fits
    BY <2>2, <2>3, CapAdmitted DEF PastCheck
  <2>4. CASE Goto(w, "reclaim")
    <3>1. PastCheck' \subseteq PastCheck
      BY <2>4 DEF Goto, PastCheck, ImagesTypeOK
    <3>2. QED
      BY <2>2, <3>1, CapReleased
  <2>5. CASE Retire(w)
    BY <2>2, <2>5, LeavesCheck, CapReleased
  <2>6. QED
    BY <2>1, <2>3, <2>4, <2>5
<1>4. CASE WriteRows(w)
  <2>1. /\ w \in PastCheck /\ Answer(w) /\ Doing(w) \in Image
        /\ \/ artifacts' = artifacts
           \/ artifacts' = [artifacts EXCEPT ![Doing(w)] =
                    [id |-> minted + 1, path |-> TRUE, due |-> FALSE]]
    BY <1>4 DEF WriteRows, PastCheck, Stands, ImagesTypeOK, Doing
  <2>2. Held' \subseteq Held \union {Doing(w)}
    BY <2>1 DEF Held, ImagesTypeOK
  <2>3. QED
    BY <2>1, <2>2, LeavesCheck, CapWritten
<1>5. QED
  BY <1>1, <1>2, <1>3, <1>4 DEF WorkStep

LEMMA OthersBounded ==
    ASSUME ImagesTypeOK, CapOvershoot, [ImagesNext]_imagesVars,
           \A w \in Processor : ~WorkStep(w)
    PROVE  CapOvershoot'
<1> USE DEF store, metadata, threads, counters
<1>1. ASSUME NEW w \in Processor, NEW i \in Image, NEW r \in Request, Take(w, i, r)
      PROVE  PastCheck' \subseteq PastCheck /\ Held' \subseteq Held
  BY <1>1 DEF Take, PastCheck, Held, ImagesTypeOK
<1>2. ASSUME NEW w \in Processor, WorkerDies(w)
      PROVE  PastCheck' \subseteq PastCheck /\ Held' \subseteq Held
  BY <1>2, LeavesCheck DEF WorkerDies, Held
<1>3. ASSUME NEW p \in Pruner,
             SelectBlobs(p) \/ PassStep(p) \/ ReadStep(p) \/ PassDies(p)
      PROVE  PastCheck' \subseteq PastCheck /\ Held' \subseteq Held
  <2>1. processor' = processor /\ (artifacts' = artifacts \/ CommitExpired(p))
    BY <1>3 DEF SelectBlobs, PassStep, ReadStep, PassDies, DeleteBlob,
       DeleteSource, CommitExpired, ExpireOriginal, ReadExpired, ReadDue
  <2>2. \A i \in Image : artifacts'[i].path => artifacts[i].path
    BY <2>1 DEF CommitExpired, Mark, ImagesTypeOK, Artifact
  <2>3. QED
    BY <2>1, <2>2 DEF PastCheck, Held
<1>4. ASSUME NEW d \in Deleter,
             \/ DeleteStep(d) \/ DeleteFails(d)
             \/ \E i \in Image, t \in Tenant : StartDelete(d, i, t)
      PROVE  PastCheck' \subseteq PastCheck /\ Held' \subseteq Held
  <2>1. processor' = processor /\ (artifacts' = artifacts \/ DeleteRows(d))
    BY <1>4 DEF DeleteStep, DeleteFails, StartDelete, Release, Look,
       DeleteObjects, DeleteOriginal, DeleteRows
  <2>2. \A i \in Image : artifacts'[i].path => artifacts[i].path
    BY <2>1 DEF DeleteRows, NoArtifact, ImagesTypeOK, Artifact
  <2>3. QED
    BY <2>1, <2>2 DEF PastCheck, Held
<1>5. ASSUME NEW i \in Image, Deadline(i) \/ SourceDeadline(i)
      PROVE  PastCheck' \subseteq PastCheck /\ Held' \subseteq Held
  <2>1. processor' = processor /\ \A k \in Image : artifacts'[k].path = artifacts[k].path
    BY <1>5 DEF Deadline, SourceDeadline, ImagesTypeOK, Artifact
  <2>2. QED
    BY <2>1 DEF PastCheck, Held
<1>6. CASE UNCHANGED imagesVars
  BY <1>6, CapReleased DEF imagesVars, PastCheck, Held
<1>7. QED
  BY <1>1, <1>2, <1>3, <1>4, <1>5, <1>6, CapReleased DEF ImagesNext

\* However many workers check the cap at the same time, and whatever sweeps,
\* reads and deletions do meanwhile, what is stored and what was admitted since
\* exceed storage.max_bytes by less than one object a worker.
THEOREM CapOvershootHolds == ImagesSpec => []CapOvershoot
<1>1. ImagesInit => CapOvershoot
  <2> SUFFICES ASSUME ImagesInit PROVE CapOvershoot
    OBVIOUS
  <2>1. Held \subseteq Stored /\ PastCheck = {}
    BY StoredOne DEF ImagesInit, Held, PastCheck, NoArtifact, NoJob
  <2>2. Cardinality(Held) <= 1
    BY <2>1, Counted, StoredOne, FS_Subset
  <2>3. Cardinality(PastCheck) = 0
    BY <2>1, FS_EmptySet
  <2>4. Cardinality(Processor) # 0
    BY StoresAssumption, BoundsAssumption, FS_EmptySet
  <2>5. QED
    BY <2>2, <2>3, <2>4, Counted, BoundsAssumption DEF CapOvershoot
<1>2. ImagesTypeOK /\ CapOvershoot /\ [ImagesNext]_imagesVars => CapOvershoot'
  BY WorkBounded, OthersBounded
<1>3. QED
  BY <1>1, <1>2, ImagesTypeCorrect, PTL DEF ImagesSpec

-----------------------------------------------------------------------------
(* Without Overlapping: who is at work on an image has it for himself.     *)

\* Jobs keep off images that are deleted or pruned, except that a worker may
\* prune its own on the way to room for it; it does nothing else meanwhile.
Apart ==
    /\ \A w \in Processor :
          /\ processor[w].keep # "no" => processor[w].pc \in {"hit", "miss"}
          /\ pruner[w].pc # "idle" => Stands(w, "reclaim")
    /\ \A p \in Pruner :
          pruner[p].pc = "idle" => pruner[p].todo = {} /\ pruner[p].cut = {}
    /\ \A w \in Processor, i \in Image : Writing(w, i) =>
          /\ \A d \in Deleter : ~Deleting(d, i)
          /\ \A p \in Pruner \ {w} : ~Pruning(p, i)

\* Redacted objects: what a job has put is there until its row is; what a pass
\* is about to delete or has deleted is not live; and a row that came since a
\* job's lookup is.
Blobs ==
    /\ \A w \in Processor :
          /\ Stands(w, "put") => Doing(w) \in blobs
          /\ \A i \in Image :
                Writing(w, i) /\ artifacts[i].id \notin {0, processor[w].seen} => Live(i)
    /\ \A p \in Pruner : pruner[p].pc = "blobs" =>
          /\ \A t \in pruner[p].todo \union pruner[p].cut : ~Live(t.image)
          /\ \A t \in pruner[p].cut :
                t.image \in blobs => <<"blob", t.image>> \in debris
    /\ \A d \in Deleter : deleter[d].pc \in {"source", "rows"} => deleter[d].image \notin blobs
    /\ LiveRowHasBlob
    /\ \A i \in blobs :
          \/ artifacts[i].path \/ <<"blob", i>> \in debris
          \/ \E w \in Processor : Stands(w, "put") /\ Doing(w) = i

\* The same of retained originals.
Sources ==
    /\ \A w \in Processor : processor[w].keep = "row" => Doing(w) \in sources
    /\ \A p \in Pruner : pruner[p].pc \in {"originals", "mark"} =>
          /\ \A t \in pruner[p].todo \union pruner[p].cut : ~LiveSource(t.image)
          /\ \A t \in pruner[p].cut :
                t.image \in sources => <<"source", t.image>> \in debris
    /\ \A d \in Deleter : DeleterAt(d, "rows") /\ deleter[d].image \in sources =>
          <<"source", deleter[d].image>> \in debris
    /\ LiveOriginalHasSource
    /\ \A i \in sources :
          \/ originals[i].path \/ <<"source", i>> \in debris
          \/ \E w \in Processor : processor[w].keep = "row" /\ Doing(w) = i

\* A scoped deletion that goes on to the objects has found no label left.
Unlabelled ==
    \A d \in Deleter :
        deleter[d].pc \in {"objects", "source", "rows"} /\ deleter[d].tenant # Global =>
            labels[deleter[d].image] = {}

LEMMA ApartNext ==
    ASSUME \A w \in Processor :
              /\ processor'[w].keep # "no" => processor'[w].pc \in {"hit", "miss"}
              /\ pruner'[w].pc # "idle" => processor'[w].pc = "reclaim",
           \A p \in Pruner :
              pruner'[p].pc = "idle" => pruner'[p].todo = {} /\ pruner'[p].cut = {},
           \A w \in Processor, i \in Image : Writing(w, i)' =>
              /\ \A d \in Deleter : ~Deleting(d, i)'
              /\ \A p \in Pruner \ {w} : ~Pruning(p, i)'
    PROVE  Apart'
BY DEF Apart, Stands

\* A worker that goes on with its job or ends it stays clear of the others.
LEMMA JobApart ==
    ASSUME ImagesTypeOK, Apart, NEW w \in Processor, ~Stands(w, "idle"),
           UNCHANGED <<pruner, deleter>>,
           processor' \in [Processor -> Handling],
           \A v \in Processor \ {w} : processor'[v] = processor[v],
           processor'[w].keep # "no" => processor'[w].pc \in {"hit", "miss"},
           processor'[w].pc # "idle" => processor'[w].image = processor[w].image,
           pruner[w].pc # "idle" => processor'[w].pc = "reclaim"
    PROVE  Apart'
<1>1. \A v \in Processor : /\ processor'[v].keep # "no" => processor'[v].pc \in {"hit", "miss"}
                           /\ pruner[v].pc # "idle" => processor'[v].pc = "reclaim"
  BY DEF Apart, Stands
<1>2. ASSUME NEW v \in Processor, NEW i \in Image, Writing(v, i)' PROVE Writing(v, i)
  BY <1>2 DEF Writing, Stands, Doing
<1>3. \A d \in Deleter, i \in Image : Deleting(d, i)' = Deleting(d, i)
  BY DEF Deleting
<1>4. \A p \in Pruner, i \in Image : Pruning(p, i)' = Pruning(p, i)
  BY DEF Pruning
<1>5. QED
  BY <1>1, <1>2, <1>3, <1>4 DEF Apart, Stands

LEMMA RetireApart ==
    ASSUME ImagesTypeOK, Apart, NEW w \in Processor, Retire(w), ~Stands(w, "idle"),
           pruner[w].pc = "idle", UNCHANGED <<pruner, deleter>>
    PROVE  Apart'
<1>1. /\ processor' \in [Processor -> Handling]
      /\ \A v \in Processor \ {w} : processor'[v] = processor[v]
      /\ processor'[w] = NoJob
  BY JobEnds DEF Retire, ImagesTypeOK
<1>2. QED
  BY <1>1, JobApart DEF NoJob

LEMMA GotoApart ==
    ASSUME ImagesTypeOK, Apart, NEW w \in Processor, ~Stands(w, "idle"),
           NEW pc \in {"hit", "miss", "reclaim", "checked", "put", "bind"}, Goto(w, pc),
           processor[w].keep = "no", pruner[w].pc = "idle", UNCHANGED <<pruner, deleter>>
    PROVE  Apart'
<1>1. /\ processor' \in [Processor -> Handling]
      /\ \A v \in Processor \ {w} : processor'[v] = processor[v]
      /\ processor'[w] = [processor[w] EXCEPT !.pc = pc]
  BY JobMoves DEF Goto, ImagesTypeOK, Stands
<1>2. /\ processor'[w].keep = "no" /\ processor'[w].image = processor[w].image
  BY <1>1 DEF ImagesTypeOK, Handling
<1>3. QED
  BY <1>1, <1>2, JobApart

\* A pass takes on images that nobody else writes, and the worker that begins
\* one waits for it.
LEMMA PassApart ==
    ASSUME ImagesTypeOK, Apart, NEW p \in Pruner, UNCHANGED <<processor, deleter>>,
           NEW pc \in {"idle", "blobs", "originals", "mark"},
           NEW todo \in SUBSET Target, NEW cut \in SUBSET Target, Pass(p, pc, todo, cut),
           pc = "idle" => todo = {} /\ cut = {},
           p \in Processor => Stands(p, "reclaim"),
           \A t \in todo \union cut :
              \/ t \in pruner[p].todo \union pruner[p].cut
              \/ \A w \in Processor \ {p} : ~Writing(w, t.image)
    PROVE  Apart'
<1>1. /\ pruner'[p] = [pc |-> pc, todo |-> todo, cut |-> cut]
      /\ \A q \in Pruner \ {p} : pruner'[q] = pruner[q]
  BY DEF Pass, ImagesTypeOK
<1>2. \A w \in Processor : /\ pruner'[w].pc # "idle" => Stands(w, "reclaim")
                           /\ w \in Pruner
  BY <1>1 DEF Apart, Pruner
<1>3. \A q \in Pruner : pruner'[q].pc = "idle" => pruner'[q].todo = {} /\ pruner'[q].cut = {}
  BY <1>1 DEF Apart
<1>4. ASSUME NEW q \in Pruner, NEW i \in Image, Pruning(q, i)',
             NEW w \in Processor \ {q}, Writing(w, i)
      PROVE  FALSE
  <2>1. ~Pruning(q, i)
    BY <1>4 DEF Apart
  <2>2. q = p
    BY <1>1, <1>4, <2>1 DEF Pruning
  <2>3. PICK t \in todo \union cut : t.image = i
    BY <1>1, <1>4, <2>2 DEF Pruning
  <2>4. t \notin pruner[p].todo \union pruner[p].cut
    BY <2>1, <2>2, <2>3 DEF Pruning
  <2>5. QED
    BY <1>4, <2>2, <2>3, <2>4
<1>5. /\ \A d \in Deleter, i \in Image : Deleting(d, i)' = Deleting(d, i)
      /\ \A w \in Processor, i \in Image : Writing(w, i)' = Writing(w, i)
  BY DEF Deleting, Writing, Stands, Doing
<1>6. ASSUME NEW w \in Processor, NEW i \in Image, Writing(w, i)'
      PROVE  /\ \A d \in Deleter : ~Deleting(d, i)'
             /\ \A q \in Pruner \ {w} : ~Pruning(q, i)'
  <2>1. Writing(w, i)
    BY <1>5, <1>6
  <2>2. \A d \in Deleter : ~Deleting(d, i)
    BY <2>1 DEF Apart
  <2>3. ASSUME NEW q \in Pruner \ {w} PROVE ~Pruning(q, i)'
    <3>1. w \in Processor \ {q}
      OBVIOUS
    <3>2. QED
      BY <1>4, <2>1, <3>1
  <2>4. QED
    BY <1>5, <2>2, <2>3
<1>7. \A w \in Processor :
        /\ processor'[w].keep # "no" => processor'[w].pc \in {"hit", "miss"}
        /\ pruner'[w].pc # "idle" => processor'[w].pc = "reclaim"
  BY <1>2 DEF Apart, Stands
<1>8. QED
  BY <1>3, <1>6, <1>7, ApartNext

LEMMA WorkApart ==
    ASSUME ImagesTypeOK, Apart, ~Overlapping, NEW w \in Processor, WorkStep(w)
    PROVE  Apart'
<1>0. /\ w \in Pruner /\ processor[w] \in Handling
      /\ ~Stands(w, "reclaim") => pruner[w].pc = "idle"
  BY DEF Pruner, ImagesTypeOK, Apart
<1>1. CASE PutSource(w) \/ UpsertOriginal(w)
  <2>1. PICK keep \in {"row", "no"} :
          /\ processor' = [processor EXCEPT ![w].keep = keep]
          /\ processor[w].pc \in {"hit", "miss"}
          /\ UNCHANGED <<pruner, deleter>>
    BY <1>1 DEF PutSource, UpsertOriginal, Apart
  <2>2. /\ processor' \in [Processor -> Handling]
        /\ \A v \in Processor \ {w} : processor'[v] = processor[v]
        /\ processor'[w].pc = processor[w].pc /\ processor'[w].image = processor[w].image
    BY <2>1 DEF ImagesTypeOK, Handling
  <2>3. QED
    BY <1>0, <2>1, <2>2, JobApart DEF Stands
<1>2. CASE ServeHit(w) \/ Fail(w) \/ BindCode(w) \/ WriteRows(w) \/ PutBlob(w) \/ Recheck(w)
  <2>1. /\ \/ Retire(w)
           \/ processor[w].keep = "no" /\ \E pc \in {"bind", "checked", "put"} : Goto(w, pc)
        /\ ~Stands(w, "idle") /\ pruner[w].pc = "idle"
        /\ UNCHANGED <<pruner, deleter>>
    BY <1>0, <1>2 DEF ServeHit, Fail, BindCode, WriteRows, PutBlob, Recheck, Answer,
       Stands, Apart
  <2>2. QED
    BY <2>1, RetireApart, GotoApart
<1>3. CASE CheckCap(w)
  <2>1. /\ Stands(w, "miss") /\ processor[w].keep = "no" /\ deleter' = deleter
        /\ \/ Goto(w, "checked") /\ UNCHANGED pruner
           \/ /\ Goto(w, "reclaim")
              /\ Pass(w, "blobs", Expired(w), {})
    BY <1>3 DEF CheckCap, Pass
  <2>2. CASE Goto(w, "checked") /\ UNCHANGED pruner
    BY <1>0, <2>1, <2>2, GotoApart DEF Stands
  <2>3. CASE Goto(w, "reclaim") /\ Pass(w, "blobs", Expired(w), {})
    <3>1. /\ processor' \in [Processor -> Handling]
          /\ \A v \in Processor \ {w} : processor'[v] = processor[v]
          /\ processor'[w] = [processor[w] EXCEPT !.pc = "reclaim"]
      BY <2>1, <2>3, JobMoves DEF Goto, ImagesTypeOK, Stands
    <3>2. /\ processor'[w].keep = "no" /\ processor'[w].image = processor[w].image
          /\ processor'[w].pc = "reclaim"
      BY <1>0, <2>1, <3>1 DEF Handling
    <3>3. /\ pruner'[w] = [pc |-> "blobs", todo |-> Expired(w), cut |-> {}]
          /\ \A q \in Pruner \ {w} : pruner'[q] = pruner[q]
      BY <1>0, <2>3 DEF Pass, ImagesTypeOK
    <3>4. \A v \in Processor, i \in Image : Writing(v, i)' => Writing(v, i)
      BY <2>1, <3>1, <3>2 DEF Writing, Stands, Doing
    <3>5. \A d \in Deleter, i \in Image : Deleting(d, i)' = Deleting(d, i)
      BY <2>1 DEF Deleting
    <3>6. \A i \in Image, v \in Processor \ {w} : Pruning(w, i)' => ~Writing(v, i)
      <4>1. \A t \in Expired(w) : \A v \in Processor \ {w} : ~Writing(v, t.image)
        BY DEF Expired, Unwritten
      <4>2. QED
        BY <3>3, <4>1 DEF Pruning
    <3>7. \A i \in Image, q \in Pruner \ {w} : Pruning(q, i)' = Pruning(q, i)
      BY <3>3 DEF Pruning
    <3>8. /\ \A v \in Processor : /\ processor'[v].keep # "no" => processor'[v].pc \in {"hit", "miss"}
                                  /\ pruner'[v].pc # "idle" => processor'[v].pc = "reclaim"
          /\ \A p \in Pruner : pruner'[p].pc = "idle" => pruner'[p].todo = {} /\ pruner'[p].cut = {}
      <4>1. ASSUME NEW v \in Processor \ {w}
            PROVE  /\ processor'[v].keep # "no" => processor'[v].pc \in {"hit", "miss"}
                   /\ pruner'[v].pc # "idle" => processor'[v].pc = "reclaim"
        <5>1. processor'[v] = processor[v] /\ pruner'[v] = pruner[v]
          BY <3>1, <3>3 DEF Pruner
        <5>2. QED
          BY <5>1 DEF Apart, Stands
      <4>2. \A p \in Pruner : pruner'[p].pc = "idle" => pruner'[p].todo = {} /\ pruner'[p].cut = {}
        BY <3>3 DEF Apart
      <4>3. QED
        BY <3>2, <4>1, <4>2
    <3>9. ASSUME NEW v \in Processor, NEW i \in Image, Writing(v, i)'
          PROVE  /\ \A d \in Deleter : ~Deleting(d, i)'
                 /\ \A q \in Pruner \ {v} : ~Pruning(q, i)'
      <4>1. Writing(v, i)
        BY <3>4, <3>9
      <4>2. \A q \in Pruner \ {v} : ~Pruning(q, i)
        BY <4>1 DEF Apart
      <4>3. ASSUME NEW q \in Pruner \ {v} PROVE ~Pruning(q, i)'
        BY <3>6, <3>7, <4>1, <4>2
      <4>4. QED
        BY <3>5, <4>1, <4>3 DEF Apart
    <3>10. QED
      BY <3>8, <3>9, ApartNext
  <2>4. QED
    BY <2>1, <2>2, <2>3
<1>4. QED
  BY <1>1, <1>2, <1>3 DEF WorkStep

LEMMA PassesApart ==
    ASSUME ImagesTypeOK, Apart, ~Overlapping, NEW p \in Pruner,
           SelectBlobs(p) \/ PassStep(p) \/ ReadStep(p) \/ PassDies(p)
    PROVE  Apart'
<1>0. /\ Expired(p) \subseteq Target /\ Due(p) \subseteq Target
      /\ pruner[p].todo \subseteq Target /\ pruner[p].cut \subseteq Target
  BY Selections
<1>1. \A t \in Expired(p) \union Due(p) : \A w \in Processor \ {p} : ~Writing(w, t.image)
  BY DEF Expired, Due, Unwritten
<1>2. p \in Sweeper \union Reader => p \notin Processor
  BY StoresAssumption
<1>3. pruner[p].pc # "idle" /\ p \in Processor => Stands(p, "reclaim")
  BY DEF Apart
<1>4. CASE SelectBlobs(p) \/ ReadStep(p)
  <2>1. PICK todo \in SUBSET (Expired(p) \union Due(p)), pc \in {"blobs", "originals"} :
          /\ Pass(p, pc, todo, {})
          /\ p \in Sweeper \union Reader /\ UNCHANGED <<processor, deleter>>
    <3>1. CASE SelectBlobs(p)
      BY <3>1 DEF SelectBlobs
    <3>2. ASSUME NEW t \in Expired(p), ReadExpired(p, t)
          PROVE  Pass(p, "blobs", {t}, {}) /\ p \in Reader /\ UNCHANGED <<processor, deleter>>
      BY <3>2 DEF ReadExpired
    <3>3. ASSUME NEW t \in Due(p), ReadDue(p, t)
          PROVE  Pass(p, "originals", {t}, {}) /\ p \in Reader /\ UNCHANGED <<processor, deleter>>
      BY <3>3 DEF ReadDue
    <3>4. QED
      BY <1>4, <3>1, <3>2, <3>3 DEF ReadStep
  <2>2. todo \in SUBSET Target /\ {} \in SUBSET Target
    BY <1>0, <2>1
  <2>3. QED
    BY <1>1, <1>2, <2>1, <2>2, PassApart
<1>5. ASSUME NEW t \in pruner[p].todo, DeleteBlob(p, t) \/ DeleteSource(p, t)
      PROVE  Apart'
  <2>1. PICK cut \in SUBSET Target, pc \in {"blobs", "mark"} :
          /\ Pass(p, pc, pruner[p].todo \ {t}, cut) /\ cut \subseteq pruner[p].cut \union {t}
          /\ pruner[p].pc # "idle" /\ UNCHANGED <<processor, deleter>>
    <3>1. pruner[p].cut \union {t} \in SUBSET Target /\ {t} \in SUBSET Target
      BY <1>0
    <3>2. QED
      BY <1>5, <3>1 DEF DeleteBlob, DeleteSource
  <2>2. pruner[p].todo \ {t} \in SUBSET Target
    BY <1>0
  <2>3. QED
    BY <1>3, <2>1, <2>2, PassApart
<1>6. CASE CommitExpired(p) \/ ExpireOriginal(p)
  <2>1. PICK todo \in SUBSET (pruner[p].todo \union Due(p)) :
          /\ Originals(p, todo)
          /\ pruner[p].pc # "idle" /\ UNCHANGED <<processor, deleter>>
    BY <1>6 DEF CommitExpired, ExpireOriginal
  <2>2. todo \in SUBSET Target /\ {} \in SUBSET Target
    BY <1>0, <2>1
  <2>3. Pass(p, IF todo = {} THEN "idle" ELSE "originals", todo, {})
    BY <2>1 DEF Originals
  <2>4. CASE todo = {}
    BY <1>3, <2>1, <2>2, <2>3, <2>4, PassApart
  <2>5. CASE todo # {}
    BY <1>1, <1>3, <2>1, <2>2, <2>3, <2>5, PassApart
  <2>6. QED
    BY <2>4, <2>5
<1>7. CASE PassDies(p)
  <2>1. /\ Pass(p, "idle", {}, {}) /\ p \notin Processor
        /\ UNCHANGED <<processor, deleter>> /\ {} \in SUBSET Target
    BY <1>7 DEF PassDies
  <2>2. QED
    BY <2>1, PassApart
<1>8. QED
  BY <1>4, <1>5, <1>6, <1>7 DEF PassStep

\* A deletion goes on, ends, or begins on an image that nobody writes.
LEMMA DeleteApart ==
    ASSUME ImagesTypeOK, Apart, ~Overlapping, NEW d \in Deleter,
           \/ DeleteStep(d) \/ DeleteFails(d)
           \/ \E i \in Image, t \in Tenant : StartDelete(d, i, t)
    PROVE  Apart'
<1>1. UNCHANGED <<processor, pruner>>
  BY DEF DeleteStep, DeleteFails, StartDelete, Release, Look, DeleteObjects,
     DeleteOriginal, DeleteRows
<1>2. \A w \in Processor, p \in Pruner, i \in Image :
        Writing(w, i)' = Writing(w, i) /\ Pruning(p, i)' = Pruning(p, i)
  BY <1>1 DEF Writing, Pruning, Stands, Doing
<1>3. ASSUME NEW e \in Deleter, NEW i \in Image, Deleting(e, i)', ~Deleting(e, i)
      PROVE  \A w \in Processor : ~Writing(w, i)
  <2>1. CASE DeleteStep(d) \/ DeleteFails(d)
    <3>1. EndDelete(d) \/ \E pc \in {"look", "objects", "source", "rows"} :
                             ~DeleterAt(d, "idle") /\ DeleterGoto(d, pc)
      BY <2>1 DEF DeleteStep, DeleteFails, Release, Look, DeleteObjects, DeleteOriginal,
         DeleteRows, DeleterAt
    <3>2. \A f \in Deleter : deleter'[f].pc # "idle" =>
             deleter[f].pc # "idle" /\ deleter'[f].image = deleter[f].image
      BY <3>1 DEF EndDelete, DeleterGoto, DeleterAt, NoDelete, ImagesTypeOK, Deletion
    <3>3. QED
      BY <1>3, <3>2 DEF Deleting
  <2>2. ASSUME NEW k \in Image, NEW t \in Tenant, StartDelete(d, k, t)
        PROVE  \A w \in Processor : ~Writing(w, i)
    <3>1. \/ deleter' = deleter
          \/ \E pc \in {"objects", "release"} :
               deleter' = [deleter EXCEPT ![d] = [pc |-> pc, image |-> k, tenant |-> t]]
      BY <2>2 DEF StartDelete
    <3>2. i = k
      BY <1>3, <3>1 DEF Deleting, ImagesTypeOK
    <3>3. \A w \in Processor \ {d} : ~Writing(w, k)
      BY <2>2 DEF StartDelete, Unwritten
    <3>4. d \notin Processor
      BY StoresAssumption
    <3>5. QED
      BY <3>2, <3>3, <3>4
  <2>3. QED
    BY <2>1, <2>2
<1>4. ASSUME NEW w \in Processor, NEW i \in Image, Writing(w, i)'
      PROVE  /\ \A e \in Deleter : ~Deleting(e, i)'
             /\ \A q \in Pruner \ {w} : ~Pruning(q, i)'
  <2>1. Writing(w, i)
    BY <1>2, <1>4, w \in Pruner DEF Pruner
  <2>2. /\ \A e \in Deleter : ~Deleting(e, i)
        /\ \A q \in Pruner \ {w} : ~Pruning(q, i)
    BY <2>1 DEF Apart
  <2>3. QED
    BY <1>2, <1>3, <2>1, <2>2
<1>5. QED
  BY <1>1, <1>4 DEF Apart, Stands

LEMMA ApartStep ==
    ASSUME ImagesTypeOK, Apart, ~Overlapping, [ImagesNext]_imagesVars
    PROVE  Apart'
<1> USE DEF store, metadata, threads, counters
<1>1. ASSUME NEW w \in Processor, WorkerDies(w) PROVE Apart'
  <2>1. /\ w \in Pruner
        /\ \A q \in Pruner \ {w} : pruner'[q] = pruner[q]
        /\ pruner'[w] = NoPass
    BY <1>1 DEF WorkerDies, ImagesTypeOK, Pruner
  <2>2. /\ processor'[w] = NoJob /\ deleter' = deleter
        /\ \A v \in Processor \ {w} : processor'[v] = processor[v]
    BY <1>1 DEF WorkerDies, Retire, ImagesTypeOK
  <2>3. \A v \in Processor, i \in Image : Writing(v, i)' => Writing(v, i)
    BY <2>2 DEF Writing, Stands, Doing, NoJob
  <2>4. \A p \in Pruner, i \in Image : Pruning(p, i)' => Pruning(p, i)
    BY <2>1 DEF Pruning, NoPass
  <2>5. \A d \in Deleter, i \in Image : Deleting(d, i)' = Deleting(d, i)
    BY <2>2 DEF Deleting
  <2>6. /\ \A v \in Processor : /\ processor'[v].keep # "no" => processor'[v].pc \in {"hit", "miss"}
                                /\ pruner'[v].pc # "idle" => processor'[v].pc = "reclaim"
        /\ \A p \in Pruner : pruner'[p].pc = "idle" => pruner'[p].todo = {} /\ pruner'[p].cut = {}
    BY <2>1, <2>2 DEF Apart, Stands, NoJob, NoPass, Pruner
  <2>7. QED
    BY <2>3, <2>4, <2>5, <2>6 DEF Apart, Stands
<1>2. ASSUME NEW w \in Processor, NEW i \in Image, NEW r \in Request, Take(w, i, r)
      PROVE  Apart'
  <2>1. PICK pc \in {"hit", "miss"}, keep \in {"put", "no"} :
          processor' = [processor EXCEPT ![w] =
                          [pc |-> pc, image |-> i, tenant |-> r.tenant,
                           asks |-> r.asks, keep |-> keep, seen |-> artifacts[i].id]]
    BY <1>2 DEF Take
  <2>2. /\ processor'[w].pc = pc /\ processor'[w].image = i
        /\ \A v \in Processor \ {w} : processor'[v] = processor[v]
        /\ UNCHANGED <<pruner, deleter>> /\ Stands(w, "idle")
    BY <1>2, <2>1 DEF Take, ImagesTypeOK
  <2>3. \A v \in Processor, k \in Image : Writing(v, k)' => Writing(v, k) \/ k = i
    BY <2>2 DEF Writing, Stands, Doing
  <2>4. /\ \A p \in Pruner : ~Pruning(p, i)
        /\ \A d \in Deleter : ~Deleting(d, i)
    BY <1>2 DEF Take, Undisturbed
  <2>5. \A k \in Image : /\ \A p \in Pruner : Pruning(p, k)' = Pruning(p, k)
                         /\ \A d \in Deleter : Deleting(d, k)' = Deleting(d, k)
    BY <2>2 DEF Pruning, Deleting
  <2>6. \A v \in Processor : /\ processor'[v].keep # "no" => processor'[v].pc \in {"hit", "miss"}
                             /\ pruner[v].pc # "idle" => processor'[v].pc = "reclaim"
    BY <2>2 DEF Apart, Stands
  <2>7. \A v \in Processor, k \in Image : Writing(v, k)' =>
          /\ \A d \in Deleter : ~Deleting(d, k)
          /\ \A p \in Pruner \ {v} : ~Pruning(p, k)
    <3>1. ASSUME NEW v \in Processor, NEW k \in Image, Writing(v, k)'
          PROVE  /\ \A d \in Deleter : ~Deleting(d, k)
                 /\ \A p \in Pruner \ {v} : ~Pruning(p, k)
      <4>1. CASE k = i
        BY <2>4, <4>1
      <4>2. CASE Writing(v, k)
        BY <4>2 DEF Apart
      <4>3. QED
        BY <2>3, <3>1, <4>1, <4>2
    <3>2. QED
      BY <3>1
  <2>8. QED
    BY <2>2, <2>5, <2>6, <2>7 DEF Apart, Stands
<1>3. CASE UNCHANGED <<processor, pruner, deleter>>
  BY <1>3 DEF Apart, Stands, Writing, Doing, Deleting, Pruning
<1>4. CASE \E i \in Image : Deadline(i) \/ SourceDeadline(i)
  BY <1>3, <1>4 DEF Deadline, SourceDeadline
<1>5. CASE UNCHANGED imagesVars
  BY <1>3, <1>5 DEF imagesVars
<1>6. QED
  BY <1>1, <1>2, <1>4, <1>5, WorkApart, PassesApart, DeleteApart DEF ImagesNext

LEMMA ApartInit == ImagesInit => Apart
BY DEF ImagesInit, Apart, NoJob, NoPass, Stands, Writing, Pruner

-----------------------------------------------------------------------------
(* Redacted objects and their rows                                         *)

\* Steps that leave objects and artifact rows alone, and end no put without a trace.
LEMMA BlobsQuiet ==
    ASSUME Blobs, UNCHANGED <<blobs, artifacts>>,
           \A x : /\ <<"blob", x>> \in debris => <<"blob", x>> \in debris'
                  /\ <<"row", x>> \in debris => <<"row", x>> \in debris',
           \A v \in Processor :
              /\ Stands(v, "put")' => Stands(v, "put") /\ Doing(v)' = Doing(v)
              /\ Stands(v, "put") => \/ Stands(v, "put")' /\ Doing(v)' = Doing(v)
                                     \/ <<"blob", Doing(v)>> \in debris',
           \A v \in Processor, i \in Image : Writing(v, i)' =>
              \/ Writing(v, i) /\ processor'[v].seen = processor[v].seen
              \/ processor'[v].seen = artifacts[i].id,
           \A p \in Pruner : pruner'[p].pc = "blobs" =>
              \/ pruner'[p] = pruner[p]
              \/ pruner'[p].cut = {} /\ \A t \in pruner'[p].todo : ~Live(t.image),
           \A d \in Deleter :
              /\ deleter'[d].pc \in {"source", "rows"} =>
                    deleter[d].pc \in {"source", "rows"} /\ deleter'[d].image = deleter[d].image
              /\ deleter[d].pc \in {"source", "rows"} =>
                    \/ deleter'[d].pc \in {"source", "rows"} /\ deleter'[d].image = deleter[d].image
                    \/ <<"row", deleter[d].image>> \in debris'
    PROVE  Blobs'
<1>1. \A i : Live(i)' = Live(i)
  BY DEF Live
<1>2. \A w \in Processor :
          /\ Stands(w, "put")' => Doing(w)' \in blobs
          /\ \A i \in Image :
                Writing(w, i)' /\ artifacts[i].id \notin {0, processor'[w].seen} => Live(i)
  BY DEF Blobs
<1>3. ASSUME NEW p \in Pruner, pruner'[p].pc = "blobs"
      PROVE  /\ \A t \in pruner'[p].todo \union pruner'[p].cut : ~Live(t.image)
             /\ \A t \in pruner'[p].cut :
                   t.image \in blobs => <<"blob", t.image>> \in debris'
  BY <1>3 DEF Blobs
<1>4. \A d \in Deleter : deleter'[d].pc \in {"source", "rows"} => deleter'[d].image \notin blobs
  BY DEF Blobs
<1>5. \A i \in Image : Torn(i) => Torn(i)'
  BY DEF Torn
<1>6. LiveRowHasBlob'
  BY <1>1, <1>5 DEF Blobs, LiveRowHasBlob
<1>7. ASSUME NEW i \in blobs
      PROVE  \/ artifacts[i].path \/ <<"blob", i>> \in debris'
             \/ \E w \in Processor : Stands(w, "put")' /\ Doing(w)' = i
  <2>1. CASE artifacts[i].path
    BY <2>1
  <2>2. CASE <<"blob", i>> \in debris
    BY <2>2
  <2>3. ASSUME NEW w \in Processor, Stands(w, "put"), Doing(w) = i
        PROVE  \/ <<"blob", i>> \in debris'
               \/ Stands(w, "put")' /\ Doing(w)' = i
    BY <2>3
  <2>4. QED
    BY <2>1, <2>2, <2>3 DEF Blobs
<1>8. QED
  BY <1>1, <1>2, <1>3, <1>4, <1>6, <1>7 DEF Blobs

\* What a worker does to its own position, and to nobody else's.
LEMMA Alone ==
    ASSUME ImagesTypeOK, NEW w \in Processor,
           \/ Retire(w)
           \/ \E pc : Goto(w, pc) \/ \E keep : processor' = [processor EXCEPT ![w].keep = keep]
    PROVE  /\ \A v \in Processor \ {w} : processor'[v] = processor[v]
           /\ \/ processor'[w] = NoJob
              \/ /\ processor'[w].image = processor[w].image
                 /\ processor'[w].seen = processor[w].seen
<1>1. CASE Retire(w)
  BY <1>1 DEF Retire, ImagesTypeOK
<1>2. ASSUME NEW pc, Goto(w, pc)
      PROVE  /\ \A v \in Processor \ {w} : processor'[v] = processor[v]
             /\ processor'[w].image = processor[w].image
             /\ processor'[w].seen = processor[w].seen
  BY <1>2 DEF Goto, ImagesTypeOK, Handling
<1>3. ASSUME NEW keep, processor' = [processor EXCEPT ![w].keep = keep]
      PROVE  /\ \A v \in Processor \ {w} : processor'[v] = processor[v]
             /\ processor'[w].image = processor[w].image
             /\ processor'[w].seen = processor[w].seen
  BY <1>3 DEF ImagesTypeOK, Handling
<1>4. QED
  BY <1>1, <1>2, <1>3

\* A worker that writes has its image for itself, but for its own pass.
LEMMA HasForItself ==
    ASSUME ImagesTypeOK, Apart, NEW w \in Processor, ~Stands(w, "idle"), ~Stands(w, "reclaim")
    PROVE  /\ Doing(w) \in Image /\ Writing(w, Doing(w))
           /\ \A p \in Pruner : \A t \in pruner[p].todo \union pruner[p].cut : t.image # Doing(w)
           /\ \A d \in Deleter : deleter[d].pc # "idle" => deleter[d].image # Doing(w)
<1>1. Doing(w) \in Image /\ Writing(w, Doing(w))
  BY DEF ImagesTypeOK, Stands, Doing, Writing
<1>2. w \in Pruner /\ pruner[w].todo = {} /\ pruner[w].cut = {}
  BY DEF Apart, Pruner
<1>3. QED
  BY <1>1, <1>2 DEF Apart, Pruning, Deleting

LEMMA PutKeepsBlobs ==
    ASSUME ImagesTypeOK, Apart, Blobs, NEW w \in Processor, PutBlob(w)
    PROVE  Blobs'
<1> DEFINE i == Doing(w)
<1>0. /\ blobs' = blobs \union {i} /\ Goto(w, "put") /\ Stands(w, "checked")
      /\ UNCHANGED <<artifacts, debris, pruner, deleter>>
  BY DEF PutBlob, metadata
<1>1. /\ i \in Image
      /\ \A p \in Pruner : \A t \in pruner[p].todo \union pruner[p].cut : t.image # i
      /\ \A d \in Deleter : deleter[d].pc # "idle" => deleter[d].image # i
  BY <1>0, HasForItself DEF Stands
<1>2. /\ \A v \in Processor \ {w} : processor'[v] = processor[v]
      /\ processor'[w].pc = "put" /\ processor'[w].image = processor[w].image
      /\ processor'[w].seen = processor[w].seen
  BY <1>0 DEF Goto, ImagesTypeOK, Handling
<1>3. \A k : (Live(k)' <=> Live(k)) /\ (Torn(k)' <=> Torn(k))
  BY <1>0 DEF Live, Torn
<1>4. \A v \in Processor :
          /\ Stands(v, "put")' => Doing(v)' \in blobs'
          /\ \A k \in Image :
                Writing(v, k)' /\ artifacts[k].id \notin {0, processor'[v].seen} => Live(k)
  <2>1. ASSUME NEW v \in Processor, Stands(v, "put")' PROVE Doing(v)' \in blobs'
    BY <1>0, <1>2, <2>1 DEF Blobs, Stands, Doing
  <2>2. ASSUME NEW v \in Processor, NEW k \in Image, Writing(v, k)'
        PROVE  Writing(v, k) /\ processor'[v].seen = processor[v].seen
    BY <1>0, <1>2, <2>2 DEF Writing, Stands, Doing
  <2>3. QED
    BY <2>1, <2>2 DEF Blobs
<1>5. \A p \in Pruner : pruner[p].pc = "blobs" =>
          /\ \A t \in pruner[p].todo \union pruner[p].cut : ~Live(t.image)
          /\ \A t \in pruner[p].cut : t.image \in blobs' => <<"blob", t.image>> \in debris
  BY <1>0, <1>1 DEF Blobs
<1>6. \A d \in Deleter : deleter[d].pc \in {"source", "rows"} => deleter[d].image \notin blobs'
  BY <1>0, <1>1 DEF Blobs
<1>7. LiveRowHasBlob'
  BY <1>0, <1>3 DEF Blobs, LiveRowHasBlob
<1>8. ASSUME NEW k \in blobs'
      PROVE  \/ artifacts[k].path \/ <<"blob", k>> \in debris
             \/ \E v \in Processor : Stands(v, "put")' /\ Doing(v)' = k
  <2>1. CASE k = i
    BY <1>2, <2>1 DEF Stands, Doing
  <2>2. ASSUME NEW v \in Processor, Stands(v, "put"), Doing(v) = k
        PROVE  Stands(v, "put")' /\ Doing(v)' = k
    BY <1>0, <1>2, <2>2 DEF Stands, Doing
  <2>3. QED
    BY <1>0, <2>1, <2>2 DEF Blobs
<1>9. QED
  BY <1>0, <1>3, <1>4, <1>5, <1>6, <1>7, <1>8 DEF Blobs

LEMMA RowsKeepBlobs ==
    ASSUME ImagesTypeOK, Apart, Blobs, NEW w \in Processor, NEW i, i = Doing(w), WriteRows(w)
    PROVE  Blobs'
<1>0. /\ Stands(w, "put")
      /\ Retire(w) \/ Goto(w, "bind")
      /\ UNCHANGED <<blobs, pruner, deleter>>
  BY DEF WriteRows, Answer, store
<1>1. /\ i \in Image /\ Writing(w, i) /\ i \in blobs
      /\ \A p \in Pruner : \A t \in pruner[p].todo \union pruner[p].cut : t.image # i
  <2>1. ~Stands(w, "idle") /\ ~Stands(w, "reclaim")
    BY <1>0 DEF Stands
  <2>2. i \in blobs
    BY <1>0 DEF Blobs
  <2>3. QED
    BY <2>1, <2>2, HasForItself
<1>2. /\ \A v \in Processor \ {w} : processor'[v] = processor[v]
      /\ \/ processor'[w].pc = "idle"
         \/ /\ processor'[w].pc = "bind" /\ processor'[w].image = processor[w].image
            /\ processor'[w].seen = processor[w].seen
  BY <1>0 DEF Retire, Goto, NoJob, ImagesTypeOK, Handling
<1>3. \/ artifacts[i].id \notin {0, processor[w].seen} /\ UNCHANGED <<artifacts, debris>>
      \/ /\ artifacts' = [artifacts EXCEPT ![i] = [id |-> minted + 1, path |-> TRUE, due |-> FALSE]]
         /\ debris' = debris \ {<<"blob", i>>, <<"row", i>>}
  BY DEF WriteRows
<1>4. /\ Live(i)' /\ artifacts'[i].path
      /\ \A k \in Image \ {i} : artifacts'[k] = artifacts[k]
  <2>1. CASE artifacts[i].id \notin {0, processor[w].seen} /\ UNCHANGED <<artifacts, debris>>
    <3>1. Live(i)
      BY <1>1, <2>1 DEF Blobs
    <3>2. QED
      BY <2>1, <3>1 DEF Live
  <2>2. CASE /\ artifacts' = [artifacts EXCEPT ![i] = [id |-> minted + 1, path |-> TRUE, due |-> FALSE]]
             /\ debris' = debris \ {<<"blob", i>>, <<"row", i>>}
    BY <1>1, <2>2 DEF ImagesTypeOK, Live
  <2>3. QED
    BY <1>3, <2>1, <2>2
<1>d. ASSUME NEW k \in Image \ {i}, NEW kind \in {"blob", "row"}, <<kind, k>> \in debris
      PROVE  <<kind, k>> \in debris'
  BY <1>3, <1>d
<1>5. ASSUME NEW k \in Image \ {i}
      PROVE  /\ Live(k)' <=> Live(k)
             /\ Torn(k) => Torn(k)'
  <2>1. k # i /\ artifacts'[k] = artifacts[k]
    BY <1>4
  <2>2. <<"row", k>> \in debris => <<"row", k>> \in debris'
    BY <1>d
  <2>3. QED
    BY <1>0, <2>1, <2>2 DEF Live, Torn
<1>6. ASSUME NEW v \in Processor, Stands(v, "put")'
      PROVE  Doing(v)' \in blobs'
  BY <1>0, <1>2, <1>6 DEF Blobs, Stands, Doing
<1>7. ASSUME NEW v \in Processor, NEW k \in Image, Writing(v, k)',
             artifacts'[k].id \notin {0, processor'[v].seen}
      PROVE  Live(k)'
  <2>1. Writing(v, k) /\ processor'[v].seen = processor[v].seen
    <3>1. CASE v = w
      BY <1>0, <1>2, <1>7, <3>1 DEF Writing, Stands, Doing
    <3>2. CASE v # w
      BY <1>2, <1>7, <3>2 DEF Writing, Stands, Doing
    <3>3. QED
      BY <3>1, <3>2
  <2>2. CASE k = i
    BY <1>4, <2>2
  <2>3. CASE k # i
    <3>1. artifacts'[k] = artifacts[k]
      BY <1>4, <2>3
    <3>2. Live(k)
      BY <1>7, <2>1, <3>1 DEF Blobs
    <3>3. QED
      BY <1>5, <2>3, <3>2
  <2>4. QED
    BY <2>2, <2>3
<1>8. ASSUME NEW p \in Pruner, pruner[p].pc = "blobs"
      PROVE  /\ \A t \in pruner[p].todo \union pruner[p].cut : ~Live(t.image)'
             /\ \A t \in pruner[p].cut : t.image \in blobs => <<"blob", t.image>> \in debris'
  <2>1. pruner[p].todo \union pruner[p].cut \subseteq Target
    BY Selections
  <2>2. ASSUME NEW t \in pruner[p].todo \union pruner[p].cut
        PROVE  /\ t.image \in Image \ {i} /\ ~Live(t.image)
               /\ t \in pruner[p].cut /\ t.image \in blobs => <<"blob", t.image>> \in debris
    BY <1>1, <1>8, <2>1 DEF Blobs, Target
  <2>3. ASSUME NEW t \in pruner[p].todo \union pruner[p].cut
        PROVE  /\ ~Live(t.image)'
               /\ t \in pruner[p].cut /\ t.image \in blobs => <<"blob", t.image>> \in debris'
    <3>1. t.image \in Image \ {i}
      BY <2>2
    <3>2. <<"blob", t.image>> \in debris => <<"blob", t.image>> \in debris'
      BY <1>d, <3>1
    <3>3. QED
      BY <1>5, <2>2, <3>2
  <2>4. QED
    BY <2>3
<1>9. LiveRowHasBlob'
  BY <1>0, <1>1, <1>5 DEF Blobs, LiveRowHasBlob
<1>10. ASSUME NEW k \in blobs
       PROVE  \/ artifacts'[k].path \/ <<"blob", k>> \in debris'
              \/ \E v \in Processor : Stands(v, "put")' /\ Doing(v)' = k
  <2>1. CASE k = i
    BY <1>4, <2>1
  <2>2. ASSUME k # i, NEW v \in Processor, Stands(v, "put"), Doing(v) = k
        PROVE  Stands(v, "put")' /\ Doing(v)' = k
    BY <1>2, <2>2 DEF Stands, Doing
  <2>3. k \in Image
    BY DEF ImagesTypeOK
  <2>4. \/ artifacts[k].path
        \/ <<"blob", k>> \in debris
        \/ \E v \in Processor : Stands(v, "put") /\ Doing(v) = k
    BY DEF Blobs
  <2>5. CASE k # i /\ (artifacts[k].path \/ <<"blob", k>> \in debris)
    <3>1. artifacts'[k] = artifacts[k]
      BY <1>4, <2>3, <2>5
    <3>2. <<"blob", k>> \in debris => <<"blob", k>> \in debris'
      BY <1>d, <2>3, <2>5
    <3>3. QED
      BY <2>5, <3>1, <3>2
  <2>6. QED
    BY <2>1, <2>2, <2>4, <2>5
<1>11. QED
  BY <1>0, <1>6, <1>7, <1>8, <1>9, <1>10 DEF Blobs

\* A pass deletes objects of rows that are due, which no other thread puts.
LEMMA PruneKeepsBlobs ==
    ASSUME ImagesTypeOK, Apart, Blobs, NEW p \in Pruner, NEW t \in pruner[p].todo, DeleteBlob(p, t)
    PROVE  Blobs'
<1>0. /\ pruner[p].pc = "blobs"
      /\ UNCHANGED <<artifacts, processor, deleter>>
      /\ Pass(p, "blobs", pruner[p].todo \ {t}, pruner[p].cut \union {t})
  BY DEF DeleteBlob, metadata
<1>1. /\ blobs' \subseteq blobs /\ debris \subseteq debris'
      /\ t.image \in blobs' => <<"blob", t.image>> \in debris'
      /\ \A k \in blobs : k \notin blobs' => k = t.image
  BY DEF DeleteBlob, Swallowed, store
<1>2. /\ pruner'[p].todo = pruner[p].todo \ {t} /\ pruner'[p].cut = pruner[p].cut \union {t}
      /\ \A q \in Pruner \ {p} : pruner'[q] = pruner[q]
  BY <1>0 DEF Pass, ImagesTypeOK
<1>3. /\ t \in Target /\ ~Live(t.image)
  BY <1>0, Selections DEF Blobs
<1>4. /\ \A k : Live(k)' <=> Live(k)
      /\ \A w \in Processor, i \in Image : Writing(w, i)' <=> Writing(w, i)
      /\ \A w \in Processor : Stands(w, "put")' <=> Stands(w, "put")
  BY <1>0 DEF Live, Writing, Stands, Doing
<1>5. ASSUME NEW k, Torn(k) PROVE Torn(k)'
  BY <1>0, <1>1, <1>5 DEF Torn
<1>6. ASSUME NEW w \in Processor, Stands(w, "put") PROVE Doing(w) \in blobs'
  <2>1. ~Stands(w, "idle") /\ ~Stands(w, "reclaim")
    BY <1>6 DEF Stands
  <2>2. t.image # Doing(w)
    BY <2>1, HasForItself
  <2>3. QED
    BY <1>1, <1>6, <2>2 DEF Blobs
<1>7. ASSUME NEW q \in Pruner, pruner'[q].pc = "blobs"
      PROVE  /\ \A u \in pruner'[q].todo \union pruner'[q].cut : ~Live(u.image)
             /\ \A u \in pruner'[q].cut : u.image \in blobs' => <<"blob", u.image>> \in debris'
  <2>1. CASE q = p
    <3>1. \A u \in pruner[p].todo \union pruner[p].cut : ~Live(u.image)
      BY <1>0 DEF Blobs
    <3>2. \A u \in pruner[p].cut : u.image \in blobs => <<"blob", u.image>> \in debris
      BY <1>0 DEF Blobs
    <3>3. QED
      BY <1>1, <1>2, <2>1, <3>1, <3>2
  <2>2. CASE q # p
    BY <1>1, <1>2, <1>7, <2>2 DEF Blobs
  <2>3. QED
    BY <2>1, <2>2
<1>8. LiveRowHasBlob'
  BY <1>1, <1>3, <1>4, <1>5 DEF Blobs, LiveRowHasBlob
<1>9. ASSUME NEW k \in blobs'
      PROVE  \/ artifacts[k].path
             \/ <<"blob", k>> \in debris'
             \/ \E v \in Processor : Stands(v, "put") /\ Doing(v) = k
  BY <1>1 DEF Blobs
<1>10. \A d \in Deleter : deleter[d].pc \in {"source", "rows"} => deleter[d].image \notin blobs'
  BY <1>1 DEF Blobs
<1>11. \A w \in Processor : /\ Stands(w, "put")' => Doing(w)' \in blobs'
                            /\ \A i \in Image :
                                  Writing(w, i)' /\ artifacts[i].id \notin {0, processor[w].seen}
                                     => Live(i)
  BY <1>0, <1>4, <1>6 DEF Blobs, Doing
<1>12. QED
  BY <1>0, <1>4, <1>7, <1>8, <1>9, <1>10, <1>11 DEF Blobs, Doing

\* The commit marks rows whose objects are gone, and no live row.
LEMMA CommitKeepsBlobs ==
    ASSUME ImagesTypeOK, Apart, Blobs, NEW p \in Pruner, CommitExpired(p)
    PROVE  Blobs'
<1>0. /\ pruner[p].pc = "blobs" /\ artifacts' = Mark(pruner[p].cut)
      /\ UNCHANGED <<blobs, debris, processor, deleter>>
      /\ \E todo : Originals(p, todo)
  BY DEF CommitExpired, store
<1>1. /\ pruner'[p].pc # "blobs"
      /\ \A q \in Pruner \ {p} : pruner'[q] = pruner[q]
  BY <1>0 DEF Originals, Pass, ImagesTypeOK
<1>2. \A k \in Image : /\ artifacts'[k].id = artifacts[k].id /\ artifacts'[k].due = artifacts[k].due
                       /\ artifacts'[k].path => artifacts[k].path
                       /\ artifacts[k].path /\ ~artifacts'[k].path =>
                             [image |-> k, id |-> artifacts[k].id] \in pruner[p].cut
  BY <1>0 DEF Mark, ImagesTypeOK, Artifact
<1>3. \A u \in pruner[p].cut :
        ~Live(u.image) /\ (u.image \in blobs => <<"blob", u.image>> \in debris)
  BY <1>0 DEF Blobs
<1>4. ASSUME NEW k \in Image PROVE Live(k)' <=> Live(k)
  <2>1. [image |-> k, id |-> artifacts[k].id] \in pruner[p].cut => ~Live(k)
    BY <1>3
  <2>2. QED
    BY <1>2, <2>1 DEF Live
<1>5. /\ \A w \in Processor, i \in Image : Writing(w, i)' <=> Writing(w, i)
      /\ \A w \in Processor : Stands(w, "put")' <=> Stands(w, "put")
      /\ \A k : Torn(k)' <=> Torn(k)
  BY <1>0 DEF Writing, Stands, Doing, Torn
<1>6. ASSUME NEW w \in Processor, NEW i \in Image, Writing(w, i),
             artifacts'[i].id \notin {0, processor[w].seen}
      PROVE  Live(i)'
  BY <1>2, <1>4, <1>6 DEF Blobs
<1>7. ASSUME NEW q \in Pruner, pruner'[q].pc = "blobs"
      PROVE  /\ \A u \in pruner'[q].todo \union pruner'[q].cut : ~Live(u.image)'
             /\ \A u \in pruner'[q].cut : u.image \in blobs => <<"blob", u.image>> \in debris
  <2>1. q # p /\ pruner'[q] = pruner[q]
    BY <1>1, <1>7
  <2>2. pruner[q].todo \union pruner[q].cut \subseteq Target
    BY Selections
  <2>3. ASSUME NEW u \in pruner[q].todo \union pruner[q].cut
        PROVE  ~Live(u.image)'
    <3>1. u.image \in Image /\ ~Live(u.image)
      BY <1>7, <2>1, <2>2 DEF Blobs, Target
    <3>2. QED
      BY <1>4, <3>1
  <2>4. QED
    BY <1>7, <2>1, <2>3 DEF Blobs
<1>8. LiveRowHasBlob'
  BY <1>0, <1>4, <1>5 DEF Blobs, LiveRowHasBlob
<1>9. ASSUME NEW k \in blobs
      PROVE  \/ artifacts'[k].path
             \/ <<"blob", k>> \in debris
             \/ \E v \in Processor : Stands(v, "put") /\ Doing(v) = k
  <2>1. k \in Image
    BY DEF ImagesTypeOK
  <2>2. CASE [image |-> k, id |-> artifacts[k].id] \in pruner[p].cut
    BY <1>3, <2>2
  <2>3. CASE [image |-> k, id |-> artifacts[k].id] \notin pruner[p].cut
    BY <1>2, <2>1, <2>3 DEF Blobs
  <2>4. QED
    BY <2>2, <2>3
<1>10. QED
  BY <1>0, <1>5, <1>6, <1>7, <1>8, <1>9 DEF Blobs, Doing

\* A deletion takes the object of an image that nobody writes, and then its rows.
LEMMA ObjectsKeepBlobs ==
    ASSUME ImagesTypeOK, Apart, Blobs, NEW d \in Deleter, NEW i, i = deleter[d].image,
           DeleteObjects(d)
    PROVE  Blobs'
<1>0. /\ deleter[d].pc = "objects" /\ blobs' = blobs \ {i} /\ debris' = debris \ {<<"blob", i>>}
      /\ DeleterGoto(d, "source") /\ UNCHANGED <<artifacts, processor, pruner>>
  BY DEF DeleteObjects, DeleterAt, metadata
<1>1. /\ i \in Image
      /\ deleter'[d].pc = "source" /\ deleter'[d].image = i
      /\ \A e \in Deleter \ {d} : deleter'[e] = deleter[e]
  BY <1>0 DEF ImagesTypeOK, Deletion, DeleterGoto
<1>2. /\ \A k : Live(k)' <=> Live(k)
      /\ \A w \in Processor, k \in Image : Writing(w, k)' <=> Writing(w, k)
      /\ \A w \in Processor : Stands(w, "put")' <=> Stands(w, "put")
  BY <1>0 DEF Live, Writing, Stands, Doing
<1>3. ASSUME NEW k, k # i PROVE <<"blob", k>> \in debris => <<"blob", k>> \in debris'
  BY <1>0, <1>3
<1>4. ASSUME NEW k, Torn(k) PROVE Torn(k)'
  <2>1. CASE <<"row", k>> \in debris
    BY <1>0, <2>1 DEF Torn
  <2>2. ASSUME NEW e \in Deleter, deleter[e].pc \in {"source", "rows"}, deleter[e].image = k
        PROVE  Torn(k)'
    BY <1>0, <1>1, <2>2 DEF Torn
  <2>3. QED
    BY <1>4, <2>1, <2>2 DEF Torn
<1>5. ASSUME NEW w \in Processor, Stands(w, "put") PROVE Doing(w) \in blobs'
  <2>1. ~Stands(w, "idle") /\ ~Stands(w, "reclaim")
    BY <1>5 DEF Stands
  <2>2. i # Doing(w)
    BY <1>0, <2>1, HasForItself
  <2>3. QED
    BY <1>0, <1>5, <2>2 DEF Blobs
<1>6. ASSUME NEW q \in Pruner, pruner[q].pc = "blobs"
      PROVE  /\ \A u \in pruner[q].todo \union pruner[q].cut : ~Live(u.image)
             /\ \A u \in pruner[q].cut : u.image \in blobs' => <<"blob", u.image>> \in debris'
  <2>1. ASSUME NEW u \in pruner[q].cut, u.image \in blobs' PROVE <<"blob", u.image>> \in debris'
    BY <1>0, <1>3, <1>6, <2>1 DEF Blobs
  <2>2. QED
    BY <1>6, <2>1 DEF Blobs
<1>7. \A e \in Deleter : deleter'[e].pc \in {"source", "rows"} => deleter'[e].image \notin blobs'
  BY <1>0, <1>1 DEF Blobs
<1>8. LiveRowHasBlob'
  <2>1. Torn(i)'
    BY <1>1 DEF Torn
  <2>2. QED
    BY <1>0, <1>2, <1>4, <2>1 DEF Blobs, LiveRowHasBlob
<1>9. ASSUME NEW k \in blobs'
      PROVE  \/ artifacts[k].path
             \/ <<"blob", k>> \in debris'
             \/ \E v \in Processor : Stands(v, "put") /\ Doing(v) = k
  <2>1. k \in blobs /\ k # i
    BY <1>0
  <2>2. QED
    BY <1>3, <2>1 DEF Blobs
<1>10. QED
  BY <1>0, <1>2, <1>5, <1>6, <1>7, <1>8, <1>9 DEF Blobs, Doing

LEMMA DeletedKeepBlobs ==
    ASSUME ImagesTypeOK, Apart, Blobs, NEW d \in Deleter, NEW i, i = deleter[d].image,
           DeleteRows(d)
    PROVE  Blobs'
<1>0. /\ deleter[d].pc = "rows" /\ debris' = debris \ {<<"row", i>>, <<"original", i>>}
      /\ artifacts' = [artifacts EXCEPT ![i] = NoArtifact]
      /\ EndDelete(d) /\ UNCHANGED <<blobs, processor, pruner>>
  BY DEF DeleteRows, DeleterAt, store
<1>1. /\ i \in Image /\ i \notin blobs
      /\ deleter'[d].pc = "idle"
      /\ \A e \in Deleter \ {d} : deleter'[e] = deleter[e]
  BY <1>0 DEF ImagesTypeOK, EndDelete, NoDelete, Blobs
<1>2. /\ ~Live(i)'
      /\ \A k \in Image \ {i} : artifacts'[k] = artifacts[k]
  BY <1>0, <1>1 DEF Live, NoArtifact, ImagesTypeOK
<1>3. \A k \in Image \ {i} : Live(k)' <=> Live(k)
  BY <1>2 DEF Live
<1>4. ASSUME NEW k \in Image \ {i}, Torn(k) PROVE Torn(k)'
  <2>1. CASE <<"row", k>> \in debris
    <3>1. <<"row", k>> \in debris'
      BY <1>0, <2>1
    <3>2. QED
      BY <3>1 DEF Torn
  <2>2. ASSUME NEW e \in Deleter, deleter[e].pc \in {"source", "rows"}, deleter[e].image = k
        PROVE  Torn(k)'
    BY <1>1, <2>2 DEF Torn
  <2>3. QED
    BY <1>4, <2>1, <2>2 DEF Torn
<1>5. /\ \A w \in Processor, k \in Image : Writing(w, k)' <=> Writing(w, k)
      /\ \A w \in Processor : Stands(w, "put")' <=> Stands(w, "put")
  BY <1>0 DEF Writing, Stands, Doing
<1>6. ASSUME NEW w \in Processor, NEW k \in Image, Writing(w, k),
             artifacts'[k].id \notin {0, processor[w].seen}
      PROVE  Live(k)'
  <2>1. ~Deleting(d, k)
    BY <1>6 DEF Apart
  <2>2. k # i
    BY <1>0, <2>1 DEF Deleting
  <2>3. QED
    BY <1>2, <1>3, <1>6, <2>2 DEF Blobs
<1>7. ASSUME NEW q \in Pruner, pruner[q].pc = "blobs"
      PROVE  /\ \A u \in pruner[q].todo \union pruner[q].cut : ~Live(u.image)'
             /\ \A u \in pruner[q].cut : u.image \in blobs => <<"blob", u.image>> \in debris'
  <2>1. pruner[q].todo \union pruner[q].cut \subseteq Target
    BY Selections
  <2>2. ASSUME NEW u \in pruner[q].todo \union pruner[q].cut PROVE ~Live(u.image)'
    <3>1. u.image \in Image /\ ~Live(u.image)
      BY <1>7, <2>1 DEF Blobs, Target
    <3>2. QED
      BY <1>2, <1>3, <3>1
  <2>3. ASSUME NEW u \in pruner[q].cut, u.image \in blobs PROVE <<"blob", u.image>> \in debris'
    BY <1>0, <1>7, <2>3 DEF Blobs
  <2>4. QED
    BY <2>2, <2>3
<1>8. \A e \in Deleter : deleter'[e].pc \in {"source", "rows"} => deleter'[e].image \notin blobs
  BY <1>1 DEF Blobs
<1>9. LiveRowHasBlob'
  BY <1>0, <1>2, <1>3, <1>4 DEF Blobs, LiveRowHasBlob
<1>10. ASSUME NEW k \in blobs
       PROVE  \/ artifacts'[k].path
              \/ <<"blob", k>> \in debris'
              \/ \E v \in Processor : Stands(v, "put") /\ Doing(v) = k
  <2>1. k \in Image \ {i} /\ artifacts'[k] = artifacts[k]
    BY <1>1, <1>2 DEF ImagesTypeOK
  <2>2. <<"blob", k>> \in debris => <<"blob", k>> \in debris'
    BY <1>0
  <2>3. QED
    BY <2>1, <2>2 DEF Blobs
<1>11. QED
  BY <1>0, <1>5, <1>6, <1>7, <1>8, <1>9, <1>10 DEF Blobs, Doing

\* Time passes for rows that no job has to have written.
LEMMA DeadlineKeepsBlobs ==
    ASSUME ImagesTypeOK, Apart, Blobs, ~Overlapping, NEW i \in Image, Deadline(i)
    PROVE  Blobs'
<1>0. /\ artifacts' = [artifacts EXCEPT ![i].due = TRUE]
      /\ UNCHANGED <<blobs, debris, processor, pruner, deleter>>
  BY DEF Deadline, store, threads
<1>1. \A k \in Image : /\ artifacts'[k].id = artifacts[k].id /\ artifacts'[k].path = artifacts[k].path
                       /\ Live(k)' => Live(k)
                       /\ k # i => (Live(k)' <=> Live(k))
  BY <1>0 DEF ImagesTypeOK, Artifact, Live
<1>2. /\ \A w \in Processor, k \in Image : Writing(w, k)' <=> Writing(w, k)
      /\ \A w \in Processor : Stands(w, "put")' <=> Stands(w, "put")
      /\ \A k : Torn(k)' <=> Torn(k)
  BY <1>0 DEF Writing, Stands, Doing, Torn
<1>3. ASSUME NEW w \in Processor, NEW k \in Image, Writing(w, k),
             artifacts'[k].id \notin {0, processor[w].seen}
      PROVE  Live(k)'
  <2>1. k # i
    BY <1>1, <1>3 DEF Deadline, Outlasted
  <2>2. QED
    BY <1>1, <1>3, <2>1 DEF Blobs
<1>4. ASSUME NEW q \in Pruner, pruner[q].pc = "blobs"
      PROVE  \A u \in pruner[q].todo \union pruner[q].cut : ~Live(u.image)'
  <2>1. pruner[q].todo \union pruner[q].cut \subseteq Target
    BY Selections
  <2>2. ASSUME NEW u \in pruner[q].todo \union pruner[q].cut PROVE ~Live(u.image)'
    <3>1. u.image \in Image /\ ~Live(u.image)
      BY <1>4, <2>1 DEF Blobs, Target
    <3>2. QED
      BY <1>1, <3>1
  <2>3. QED
    BY <2>2
<1>5. LiveRowHasBlob'
  BY <1>0, <1>1, <1>2 DEF Blobs, LiveRowHasBlob
<1>6. ASSUME NEW k \in blobs
      PROVE  \/ artifacts'[k].path
             \/ <<"blob", k>> \in debris
             \/ \E v \in Processor : Stands(v, "put") /\ Doing(v) = k
  BY <1>1 DEF Blobs, ImagesTypeOK
<1>7. QED
  BY <1>0, <1>2, <1>3, <1>4, <1>5, <1>6 DEF Blobs, Doing

LEMMA BlobsInit == ImagesInit => Blobs
<1> SUFFICES ASSUME ImagesInit PROVE Blobs
  OBVIOUS
<1>1. \A w \in Processor : processor[w].pc = "idle" /\ processor[w].seen = 0
  BY DEF ImagesInit, NoJob
<1>2. \A p \in Pruner : pruner[p].pc = "idle"
  BY DEF ImagesInit, NoPass
<1>3. \A d \in Deleter : deleter[d].pc = "idle"
  BY DEF ImagesInit, NoDelete
<1>4. /\ \A i \in Image : Live(i) => i \in blobs
      /\ \A i \in blobs : artifacts[i].path
  BY StoresAssumption DEF ImagesInit, Live, NoArtifact
<1>5. QED
  BY <1>1, <1>2, <1>3, <1>4 DEF Blobs, LiveRowHasBlob, Writing, Stands

LEMMA BlobsStep ==
    ASSUME ImagesTypeOK, Apart, Blobs, ~Overlapping, [ImagesNext]_imagesVars
    PROVE  Blobs'
<1> USE DEF store, metadata, threads, counters
<1>1. ASSUME NEW w \in Processor, PutSource(w) \/ UpsertOriginal(w) PROVE Blobs'
  <2>1. /\ UNCHANGED <<blobs, artifacts, pruner, deleter>>
        /\ processor[w].keep # "no"
        /\ \E keep : processor' = [processor EXCEPT ![w].keep = keep]
        /\ \A k, x : k \in {"blob", "row"} /\ <<k, x>> \in debris => <<k, x>> \in debris'
    BY <1>1 DEF PutSource, UpsertOriginal
  <2>2. \A v \in Processor : /\ processor'[v].pc = processor[v].pc
                             /\ processor'[v].image = processor[v].image
                             /\ processor'[v].seen = processor[v].seen
    BY <2>1 DEF ImagesTypeOK, Handling
  <2>3. QED
    BY <2>1, <2>2, BlobsQuiet DEF Stands, Doing, Writing
<1>2. ASSUME NEW w \in Processor, ServeHit(w) \/ Fail(w) \/ CheckCap(w) \/ Recheck(w) \/ BindCode(w)
      PROVE  Blobs'
  <2>1. /\ UNCHANGED <<blobs, artifacts, debris, deleter>>
        /\ processor[w].pc \in {"hit", "miss", "reclaim", "bind"}
        /\ \/ Retire(w)
           \/ \E pc \in {"bind", "checked", "reclaim"} : Goto(w, pc)
    <3>1. CASE ServeHit(w)
      BY <3>1 DEF ServeHit, Stands, Answer
    <3>2. CASE Fail(w) \/ BindCode(w)
      BY <3>2 DEF Fail, BindCode, Stands
    <3>3. CASE CheckCap(w)
      BY <3>3 DEF CheckCap, Stands
    <3>4. CASE Recheck(w)
      BY <3>4 DEF Recheck, Stands
    <3>5. QED
      BY <1>2, <3>1, <3>2, <3>3, <3>4
  <2>2. /\ \A v \in Processor \ {w} : processor'[v] = processor[v]
        /\ processor'[w].pc # "put"
        /\ \/ processor'[w].pc = "idle"
           \/ /\ processor'[w].image = processor[w].image
              /\ processor'[w].seen = processor[w].seen
    BY <2>1 DEF Retire, Goto, NoJob, ImagesTypeOK, Handling
  <2>3. \A q \in Pruner : pruner'[q].pc = "blobs" =>
           \/ pruner'[q] = pruner[q]
           \/ pruner'[q].cut = {} /\ \A t \in pruner'[q].todo : ~Live(t.image)
    <3>1. CASE UNCHANGED pruner
      BY <3>1
    <3>2. CASE pruner' = [pruner EXCEPT ![w] = [pc |-> "blobs", todo |-> Expired(w), cut |-> {}]]
      BY <3>2 DEF Expired, Live, ImagesTypeOK
    <3>3. QED
      BY <1>2, <3>1, <3>2 DEF ServeHit, Fail, CheckCap, Recheck, BindCode
  <2>4. \A v \in Processor :
           /\ Stands(v, "put")' <=> Stands(v, "put")
           /\ Stands(v, "put") => Doing(v)' = Doing(v)
    BY <2>1, <2>2 DEF Stands, Doing
  <2>5. \A v \in Processor, i \in Image : Writing(v, i)' =>
           Writing(v, i) /\ processor'[v].seen = processor[v].seen
    BY <2>1, <2>2 DEF Stands, Doing, Writing
  <2>6. QED
    BY <2>1, <2>3, <2>4, <2>5, BlobsQuiet
<1>3. ASSUME NEW w \in Processor, WorkerDies(w) PROVE Blobs'
  <2>1. /\ UNCHANGED <<blobs, artifacts, deleter>>
        /\ debris \subseteq debris'
        /\ Stands(w, "put") => <<"blob", Doing(w)>> \in debris'
        /\ Retire(w) /\ w \in Pruner
    BY <1>3 DEF WorkerDies, Pruner
  <2>2. /\ \A v \in Processor \ {w} : processor'[v] = processor[v]
        /\ processor'[w].pc = "idle"
    BY <2>1 DEF Retire, NoJob, ImagesTypeOK
  <2>3. \A q \in Pruner : pruner'[q].pc = "blobs" => pruner'[q] = pruner[q]
    BY <1>3, <2>1 DEF WorkerDies, NoPass, ImagesTypeOK
  <2>4. \A v \in Processor :
           /\ Stands(v, "put")' => Stands(v, "put") /\ Doing(v)' = Doing(v)
           /\ Stands(v, "put") => \/ Stands(v, "put")' /\ Doing(v)' = Doing(v)
                                  \/ <<"blob", Doing(v)>> \in debris'
    BY <2>1, <2>2 DEF Stands, Doing
  <2>5. \A v \in Processor, i \in Image : Writing(v, i)' =>
           Writing(v, i) /\ processor'[v].seen = processor[v].seen
    BY <2>2 DEF Stands, Doing, Writing
  <2>6. QED
    BY <2>1, <2>3, <2>4, <2>5, BlobsQuiet
<1>4. ASSUME NEW w \in Processor, NEW i \in Image, NEW r \in Request, Take(w, i, r)
      PROVE  Blobs'
  <2>1. /\ UNCHANGED <<blobs, artifacts, pruner, deleter, debris>>
        /\ processor[w].pc = "idle"
        /\ \E pc \in {"hit", "miss"}, keep \in {"put", "no"} :
              processor' = [processor EXCEPT ![w] =
                          [pc |-> pc, image |-> i, tenant |-> r.tenant,
                           asks |-> r.asks, keep |-> keep, seen |-> artifacts[i].id]]
    BY <1>4 DEF Take, Stands
  <2>2. /\ \A v \in Processor \ {w} : processor'[v] = processor[v]
        /\ processor'[w].pc # "put" /\ processor'[w].image = i
        /\ processor'[w].seen = artifacts[i].id
    BY <2>1 DEF ImagesTypeOK
  <2>3. \A v \in Processor :
           /\ Stands(v, "put")' <=> Stands(v, "put")
           /\ Stands(v, "put") => Doing(v)' = Doing(v)
    BY <2>1, <2>2 DEF Stands, Doing
  <2>4. \A v \in Processor, k \in Image : Writing(v, k)' =>
           \/ Writing(v, k) /\ processor'[v].seen = processor[v].seen
           \/ processor'[v].seen = artifacts[k].id
    BY <2>2 DEF Stands, Doing, Writing
  <2>5. QED
    BY <2>1, <2>3, <2>4, BlobsQuiet
<1>5. ASSUME NEW p \in Pruner,
             \/ SelectBlobs(p) \/ ReadStep(p) \/ PassDies(p) \/ ExpireOriginal(p)
             \/ \E t \in pruner[p].todo : DeleteSource(p, t)
      PROVE  Blobs'
  <2>1. /\ UNCHANGED <<blobs, artifacts, processor, deleter>>
        /\ debris \subseteq debris'
    BY <1>5 DEF SelectBlobs, ReadStep, ReadExpired, ReadDue, PassDies, ExpireOriginal,
       DeleteSource, Swallowed
  <2>2. \/ Pass(p, "blobs", Expired(p), {})
        \/ \E t \in Expired(p) : Pass(p, "blobs", {t}, {})
        \/ \E pc, todo, cut : pc # "blobs" /\ Pass(p, pc, todo, cut)
    <3>1. CASE ExpireOriginal(p)
      BY <3>1 DEF ExpireOriginal, Originals
    <3>2. QED
      BY <1>5, <3>1 DEF SelectBlobs, ReadStep, ReadExpired, ReadDue, PassDies, DeleteSource
  <2>3. \A t \in Expired(p) : ~Live(t.image)
    BY DEF Expired, Live
  <2>4. \A q \in Pruner : pruner'[q].pc = "blobs" =>
           \/ pruner'[q] = pruner[q]
           \/ pruner'[q].cut = {} /\ \A t \in pruner'[q].todo : ~Live(t.image)
    BY <2>2, <2>3 DEF Pass, ImagesTypeOK
  <2>5. QED
    BY <2>1, <2>4, BlobsQuiet DEF Stands, Doing, Writing
<1>6. ASSUME NEW d \in Deleter,
             \/ Release(d) \/ Look(d) \/ DeleteOriginal(d) \/ DeleteFails(d)
             \/ \E k \in Image, t \in Tenant : StartDelete(d, k, t)
      PROVE  Blobs'
  <2>1. /\ UNCHANGED <<blobs, artifacts, processor, pruner>>
        /\ debris \subseteq debris'
    BY <1>6 DEF Release, Look, DeleteOriginal, DeleteFails, StartDelete
  <2>2. ASSUME NEW e \in Deleter
        PROVE  /\ deleter'[e].pc \in {"source", "rows"} =>
                     deleter[e].pc \in {"source", "rows"} /\ deleter'[e].image = deleter[e].image
               /\ deleter[e].pc \in {"source", "rows"} =>
                     \/ deleter'[e].pc \in {"source", "rows"} /\ deleter'[e].image = deleter[e].image
                     \/ <<"row", deleter[e].image>> \in debris'
    <3>1. CASE DeleteFails(d)
      <4>1. /\ \A f \in Deleter \ {d} : deleter'[f] = deleter[f]
            /\ deleter'[d].pc = "idle"
        BY <3>1 DEF DeleteFails, EndDelete, NoDelete, ImagesTypeOK
      <4>2. deleter[d].pc \in {"source", "rows"} => <<"row", deleter[d].image>> \in debris'
        BY <3>1 DEF DeleteFails, DeleterAt
      <4>3. QED
        BY <4>1, <4>2
    <3>2. CASE DeleteOriginal(d)
      BY <3>2 DEF DeleteOriginal, DeleterGoto, DeleterAt, ImagesTypeOK, Deletion
    <3>3. CASE Release(d) \/ Look(d)
      BY <3>3 DEF Release, Look, EndDelete, NoDelete, DeleterGoto, DeleterAt, ImagesTypeOK, Deletion
    <3>4. CASE \E k \in Image, t \in Tenant : StartDelete(d, k, t)
      <4>1. /\ deleter[d].pc = "idle"
            /\ \/ deleter' = deleter
               \/ \E pc \in {"objects", "release"}, k \in Image, t \in Tenant :
                     deleter' = [deleter EXCEPT ![d] = [pc |-> pc, image |-> k, tenant |-> t]]
        BY <3>4 DEF StartDelete, DeleterAt
      <4>2. QED
        BY <4>1 DEF ImagesTypeOK
    <3>5. QED
      BY <1>6, <3>1, <3>2, <3>3, <3>4
  <2>3. QED
    BY <2>1, <2>2, BlobsQuiet DEF Stands, Doing, Writing
<1>7. ASSUME NEW i \in Image, SourceDeadline(i) PROVE Blobs'
  BY <1>7, BlobsQuiet DEF SourceDeadline, Stands, Doing, Writing
<1>8. CASE UNCHANGED imagesVars
  BY <1>8, BlobsQuiet DEF imagesVars, Stands, Doing, Writing
<1>9. ASSUME NEW w \in Processor, WorkStep(w) \/ WorkerDies(w) \/ \E i \in Image, r \in Request : Take(w, i, r)
      PROVE  Blobs'
  BY <1>1, <1>2, <1>3, <1>4, <1>9, PutKeepsBlobs, RowsKeepBlobs DEF WorkStep
<1>10. ASSUME NEW p \in Pruner, SelectBlobs(p) \/ PassStep(p) \/ ReadStep(p) \/ PassDies(p)
       PROVE  Blobs'
  BY <1>5, <1>10, PruneKeepsBlobs, CommitKeepsBlobs DEF PassStep
<1>11. ASSUME NEW d \in Deleter,
              \/ DeleteStep(d) \/ DeleteFails(d)
              \/ \E i \in Image, t \in Tenant : StartDelete(d, i, t)
       PROVE  Blobs'
  BY <1>6, <1>11, ObjectsKeepBlobs, DeletedKeepBlobs DEF DeleteStep
<1>12. QED
  BY <1>7, <1>8, <1>9, <1>10, <1>11, DeadlineKeepsBlobs DEF ImagesNext

-----------------------------------------------------------------------------
(* Retained originals and their rows                                       *)

\* Steps that leave originals alone, and end no retention without a trace.
LEMMA SourcesQuiet ==
    ASSUME Sources, UNCHANGED <<sources, originals>>,
           \A x : /\ <<"source", x>> \in debris => <<"source", x>> \in debris'
                  /\ <<"original", x>> \in debris => <<"original", x>> \in debris',
           \A v \in Processor :
              /\ processor'[v].keep = "row" =>
                    processor[v].keep = "row" /\ processor'[v].image = processor[v].image
              /\ processor[v].keep = "row" =>
                    \/ processor'[v].keep = "row" /\ processor'[v].image = processor[v].image
                    \/ <<"source", processor[v].image>> \in debris',
           \A p \in Pruner : pruner'[p].pc \in {"originals", "mark"} =>
              \/ pruner'[p] = pruner[p]
              \/ pruner'[p].cut = {} /\ \A t \in pruner'[p].todo : ~LiveSource(t.image),
           \A d \in Deleter :
              /\ deleter'[d].pc = "rows" =>
                    deleter[d].pc = "rows" /\ deleter'[d].image = deleter[d].image
              /\ deleter[d].pc = "rows" =>
                    \/ deleter'[d].pc = "rows" /\ deleter'[d].image = deleter[d].image
                    \/ <<"original", deleter[d].image>> \in debris'
    PROVE  Sources'
<1>1. \A i : LiveSource(i)' <=> LiveSource(i)
  BY DEF LiveSource
<1>2. \A w \in Processor : processor'[w].keep = "row" => processor'[w].image \in sources
  BY DEF Sources, Doing
<1>3. ASSUME NEW p \in Pruner, pruner'[p].pc \in {"originals", "mark"}
      PROVE  /\ \A t \in pruner'[p].todo \union pruner'[p].cut : ~LiveSource(t.image)
             /\ \A t \in pruner'[p].cut :
                   t.image \in sources => <<"source", t.image>> \in debris'
  BY <1>3 DEF Sources
<1>4. \A d \in Deleter : deleter'[d].pc = "rows" /\ deleter'[d].image \in sources =>
        <<"source", deleter'[d].image>> \in debris'
  BY DEF Sources, DeleterAt
<1>5. \A i \in Image : TornOriginal(i) => TornOriginal(i)'
  BY DEF TornOriginal, DeleterAt
<1>6. LiveOriginalHasSource'
  BY <1>1, <1>5 DEF Sources, LiveOriginalHasSource
<1>7. ASSUME NEW i \in sources
      PROVE  \/ originals[i].path \/ <<"source", i>> \in debris'
             \/ \E w \in Processor : processor'[w].keep = "row" /\ processor'[w].image = i
  <2>1. CASE originals[i].path \/ <<"source", i>> \in debris
    BY <2>1
  <2>2. ASSUME NEW w \in Processor, processor[w].keep = "row", processor[w].image = i
        PROVE  \/ <<"source", i>> \in debris'
               \/ processor'[w].keep = "row" /\ processor'[w].image = i
    BY <2>2
  <2>3. QED
    BY <2>1, <2>2 DEF Sources, Doing
<1>8. QED
  BY <1>1, <1>2, <1>3, <1>4, <1>6, <1>7 DEF Sources, Doing, DeleterAt

\* The object of a new retention is one that nobody deletes.
LEMMA PutKeepsSources ==
    ASSUME ImagesTypeOK, Apart, Sources, NEW w \in Processor, NEW i, i = Doing(w), PutSource(w)
    PROVE  Sources'
<1>0. /\ sources' = sources \union {i} /\ processor' = [processor EXCEPT ![w].keep = "row"]
      /\ processor[w].pc \in {"hit", "miss"} /\ processor[w].keep = "put"
      /\ UNCHANGED <<originals, debris, pruner, deleter>>
  BY DEF PutSource, metadata
<1>1. /\ i \in Image
      /\ \A p \in Pruner : \A t \in pruner[p].todo \union pruner[p].cut : t.image # i
      /\ \A d \in Deleter : deleter[d].pc # "idle" => deleter[d].image # i
  BY <1>0, HasForItself DEF Stands
<1>2. /\ \A v \in Processor \ {w} : processor'[v] = processor[v]
      /\ processor'[w].keep = "row" /\ processor'[w].image = i
  BY <1>0 DEF Doing, ImagesTypeOK, Handling
<1>3. \A k : (LiveSource(k)' <=> LiveSource(k)) /\ (TornOriginal(k)' <=> TornOriginal(k))
  BY <1>0 DEF LiveSource, TornOriginal, DeleterAt
<1>4. \A v \in Processor : processor'[v].keep = "row" => processor'[v].image \in sources'
  BY <1>0, <1>2 DEF Sources, Doing
<1>5. ASSUME NEW p \in Pruner, pruner[p].pc \in {"originals", "mark"}
      PROVE  /\ \A t \in pruner[p].todo \union pruner[p].cut : ~LiveSource(t.image)
             /\ \A t \in pruner[p].cut :
                   t.image \in sources' => <<"source", t.image>> \in debris
  BY <1>0, <1>1, <1>5 DEF Sources
<1>6. \A d \in Deleter : deleter[d].pc = "rows" /\ deleter[d].image \in sources' =>
        <<"source", deleter[d].image>> \in debris
  BY <1>0, <1>1 DEF Sources, DeleterAt
<1>7. LiveOriginalHasSource'
  BY <1>0, <1>3 DEF Sources, LiveOriginalHasSource
<1>8. ASSUME NEW k \in sources'
      PROVE  \/ originals[k].path \/ <<"source", k>> \in debris
             \/ \E v \in Processor : processor'[v].keep = "row" /\ processor'[v].image = k
  <2>1. CASE k = i
    BY <1>2, <2>1
  <2>2. ASSUME NEW v \in Processor, processor[v].keep = "row", processor[v].image = k
        PROVE  processor'[v].keep = "row" /\ processor'[v].image = k
    BY <1>0, <1>2, <2>2
  <2>3. QED
    BY <1>0, <2>1, <2>2 DEF Sources, Doing
<1>9. QED
  BY <1>0, <1>3, <1>4, <1>5, <1>6, <1>7, <1>8 DEF Sources, Doing, DeleterAt

LEMMA UpsertKeepsSources ==
    ASSUME ImagesTypeOK, Apart, Sources, NEW w \in Processor, NEW i, i = Doing(w),
           UpsertOriginal(w)
    PROVE  Sources'
<1>0. /\ processor[w].keep = "row"
      /\ originals' = [originals EXCEPT ![i] = [row |-> TRUE, path |-> TRUE, due |-> FALSE]]
      /\ processor' = [processor EXCEPT ![w].keep = "no"]
      /\ debris' = debris \ {<<"source", i>>, <<"original", i>>}
      /\ UNCHANGED <<sources, pruner, deleter>>
  BY DEF UpsertOriginal, store
<1>1. /\ i \in Image /\ i \in sources
      /\ \A p \in Pruner : \A t \in pruner[p].todo \union pruner[p].cut : t.image # i
      /\ \A d \in Deleter : deleter[d].pc # "idle" => deleter[d].image # i
  <2>1. processor[w].pc \in {"hit", "miss"}
    BY <1>0 DEF Apart
  <2>2. QED
    BY <1>0, <2>1, HasForItself DEF Stands, Sources
<1>2. /\ \A v \in Processor \ {w} : processor'[v] = processor[v]
      /\ processor'[w].keep = "no"
  BY <1>0 DEF ImagesTypeOK, Handling
<1>3. /\ originals'[i].path
      /\ \A k \in Image \ {i} : originals'[k] = originals[k]
  BY <1>0, <1>1 DEF ImagesTypeOK
<1>4. ASSUME NEW k \in Image \ {i}
      PROVE  /\ LiveSource(k)' <=> LiveSource(k)
             /\ <<"source", k>> \in debris => <<"source", k>> \in debris'
             /\ TornOriginal(k) => TornOriginal(k)'
  <2>1. /\ <<"source", k>> \in debris => <<"source", k>> \in debris'
        /\ <<"original", k>> \in debris => <<"original", k>> \in debris'
    BY <1>0, <1>4
  <2>2. originals'[k] = originals[k]
    BY <1>3
  <2>3. QED
    BY <1>0, <2>1, <2>2 DEF LiveSource, TornOriginal, DeleterAt
<1>5. \A v \in Processor : processor'[v].keep = "row" => processor'[v].image \in sources
  BY <1>2 DEF Sources, Doing
<1>6. ASSUME NEW p \in Pruner, pruner[p].pc \in {"originals", "mark"}
      PROVE  /\ \A t \in pruner[p].todo \union pruner[p].cut : ~LiveSource(t.image)'
             /\ \A t \in pruner[p].cut :
                   t.image \in sources => <<"source", t.image>> \in debris'
  <2>1. pruner[p].todo \union pruner[p].cut \subseteq Target
    BY Selections
  <2>2. ASSUME NEW t \in pruner[p].todo \union pruner[p].cut
        PROVE  t.image \in Image \ {i} /\ ~LiveSource(t.image)
    BY <1>1, <1>6, <2>1 DEF Sources, Target
  <2>3. ASSUME NEW t \in pruner[p].cut, t.image \in sources
        PROVE  <<"source", t.image>> \in debris'
    BY <1>4, <1>6, <2>2, <2>3 DEF Sources
  <2>4. QED
    BY <1>4, <2>2, <2>3
<1>7. ASSUME NEW d \in Deleter, deleter[d].pc = "rows", deleter[d].image \in sources
      PROVE  <<"source", deleter[d].image>> \in debris'
  <2>1. deleter[d].image \in Image \ {i}
    BY <1>1, <1>7 DEF ImagesTypeOK
  <2>2. QED
    BY <1>4, <1>7, <2>1 DEF Sources, DeleterAt
<1>8. LiveOriginalHasSource'
  BY <1>0, <1>1, <1>4 DEF Sources, LiveOriginalHasSource
<1>9. ASSUME NEW k \in sources
      PROVE  \/ originals'[k].path \/ <<"source", k>> \in debris'
             \/ \E v \in Processor : processor'[v].keep = "row" /\ processor'[v].image = k
  <2>1. CASE k = i
    BY <1>3, <2>1
  <2>2. ASSUME k # i, NEW v \in Processor, processor[v].keep = "row", processor[v].image = k
        PROVE  processor'[v].keep = "row" /\ processor'[v].image = k
    BY <1>2, <2>2 DEF Doing
  <2>3. k \in Image
    BY DEF ImagesTypeOK
  <2>4. QED
    BY <1>3, <1>4, <2>1, <2>2, <2>3 DEF Sources, Doing
<1>10. QED
  BY <1>0, <1>5, <1>6, <1>7, <1>8, <1>9 DEF Sources, Doing, DeleterAt

\* A pass deletes originals that are due, which no other thread retains.
LEMMA PruneKeepsSources ==
    ASSUME ImagesTypeOK, Apart, Sources, NEW p \in Pruner, NEW t \in pruner[p].todo,
           DeleteSource(p, t)
    PROVE  Sources'
<1>0. /\ pruner[p].pc = "originals"
      /\ UNCHANGED <<originals, processor, deleter>>
      /\ Pass(p, "mark", pruner[p].todo \ {t}, {t})
  BY DEF DeleteSource, metadata
<1>1. /\ sources' \subseteq sources /\ debris \subseteq debris'
      /\ t.image \in sources' => <<"source", t.image>> \in debris'
      /\ \A k \in sources : k \notin sources' => k = t.image
  BY DEF DeleteSource, Swallowed, store
<1>2. /\ pruner'[p].todo = pruner[p].todo \ {t} /\ pruner'[p].cut = {t}
      /\ \A q \in Pruner \ {p} : pruner'[q] = pruner[q]
  BY <1>0 DEF Pass, ImagesTypeOK
<1>3. ~LiveSource(t.image) /\ \A k : LiveSource(k)' <=> LiveSource(k)
  BY <1>0 DEF Sources, LiveSource
<1>4. \A k : TornOriginal(k) => TornOriginal(k)'
  BY <1>0, <1>1 DEF TornOriginal, DeleterAt
<1>5. ASSUME NEW w \in Processor, processor[w].keep = "row" PROVE Doing(w) \in sources'
  <2>1. ~Stands(w, "idle") /\ ~Stands(w, "reclaim")
    BY <1>5 DEF Apart, Stands
  <2>2. t.image # Doing(w)
    BY <2>1, HasForItself
  <2>3. QED
    BY <1>1, <1>5, <2>2 DEF Sources
<1>6. ASSUME NEW q \in Pruner, pruner'[q].pc \in {"originals", "mark"}
      PROVE  /\ \A u \in pruner'[q].todo \union pruner'[q].cut : ~LiveSource(u.image)
             /\ \A u \in pruner'[q].cut : u.image \in sources' => <<"source", u.image>> \in debris'
  <2>1. CASE q = p
    <3>1. \A u \in pruner[p].todo : ~LiveSource(u.image)
      BY <1>0 DEF Sources
    <3>2. QED
      BY <1>1, <1>2, <1>3, <2>1, <3>1
  <2>2. CASE q # p
    BY <1>1, <1>2, <1>6, <2>2 DEF Sources
  <2>3. QED
    BY <2>1, <2>2
<1>7. \A d \in Deleter : deleter[d].pc = "rows" /\ deleter[d].image \in sources' =>
        <<"source", deleter[d].image>> \in debris'
  BY <1>1 DEF Sources, DeleterAt
<1>8. LiveOriginalHasSource'
  BY <1>1, <1>3, <1>4 DEF Sources, LiveOriginalHasSource
<1>9. ASSUME NEW k \in sources'
      PROVE  \/ originals[k].path \/ <<"source", k>> \in debris'
             \/ \E v \in Processor : processor[v].keep = "row" /\ processor[v].image = k
  BY <1>1 DEF Sources, Doing
<1>10. QED
  BY <1>0, <1>3, <1>5, <1>6, <1>7, <1>8, <1>9 DEF Sources, Doing, DeleterAt

\* The mark is for originals whose objects are gone, and for no live one.
LEMMA MarkKeepsSources ==
    ASSUME ImagesTypeOK, Apart, Sources, NEW p \in Pruner, ExpireOriginal(p)
    PROVE  Sources'
<1>0. /\ pruner[p].pc = "mark"
      /\ originals' = [i \in Image |-> [originals[i] EXCEPT
                          !.path = @ /\ ~\E t \in pruner[p].cut : t.image = i]]
      /\ Originals(p, pruner[p].todo)
      /\ UNCHANGED <<sources, debris, processor, deleter>>
  BY DEF ExpireOriginal, store
<1>1. /\ pruner'[p].todo = pruner[p].todo /\ pruner'[p].cut = {}
      /\ \A q \in Pruner \ {p} : pruner'[q] = pruner[q]
  BY <1>0 DEF Originals, Pass, ImagesTypeOK
<1>2. \A k \in Image : /\ originals'[k].due = originals[k].due
                       /\ originals'[k].path => originals[k].path
                       /\ originals[k].path /\ ~originals'[k].path =>
                             \E t \in pruner[p].cut : t.image = k
  BY <1>0 DEF ImagesTypeOK, Original
<1>3. \A t \in pruner[p].cut : t.image \in sources => <<"source", t.image>> \in debris
  BY <1>0 DEF Sources
<1>4. /\ \A k \in Image : LiveSource(k)' => LiveSource(k)
      /\ \A k : TornOriginal(k)' <=> TornOriginal(k)
  BY <1>0, <1>2 DEF LiveSource, TornOriginal, DeleterAt
<1>5. ASSUME NEW q \in Pruner, pruner'[q].pc \in {"originals", "mark"}
      PROVE  /\ \A u \in pruner'[q].todo \union pruner'[q].cut : ~LiveSource(u.image)'
             /\ \A u \in pruner'[q].cut : u.image \in sources => <<"source", u.image>> \in debris
  <2>1. pruner[q].todo \union pruner[q].cut \subseteq Target
    BY Selections
  <2>2. /\ pruner'[q].todo = pruner[q].todo /\ pruner'[q].cut \subseteq pruner[q].cut
        /\ pruner[q].pc \in {"originals", "mark"}
    BY <1>0, <1>1, <1>5
  <2>3. ASSUME NEW u \in pruner[q].todo \union pruner[q].cut
        PROVE  ~LiveSource(u.image)'
    <3>1. u.image \in Image /\ ~LiveSource(u.image)
      BY <2>1, <2>2 DEF Sources, Target
    <3>2. QED
      BY <1>4, <3>1
  <2>4. QED
    BY <2>2, <2>3 DEF Sources
<1>6. LiveOriginalHasSource'
  BY <1>0, <1>4 DEF Sources, LiveOriginalHasSource
<1>7. ASSUME NEW k \in sources
      PROVE  \/ originals'[k].path \/ <<"source", k>> \in debris
             \/ \E v \in Processor : processor[v].keep = "row" /\ processor[v].image = k
  <2>1. k \in Image
    BY DEF ImagesTypeOK
  <2>2. QED
    BY <1>2, <1>3, <2>1 DEF Sources, Doing
<1>8. QED
  BY <1>0, <1>5, <1>6, <1>7 DEF Sources, Doing, DeleterAt

\* A deletion finds the object of whatever original has a path.
LEMMA DeleteKeepsSources ==
    ASSUME ImagesTypeOK, Apart, Sources, NEW d \in Deleter, NEW i, i = deleter[d].image,
           DeleteOriginal(d)
    PROVE  Sources'
<1>0. /\ deleter[d].pc = "source"
      /\ sources' = IF originals[i].path THEN sources \ {i} ELSE sources
      /\ DeleterGoto(d, "rows") /\ UNCHANGED <<originals, debris, processor, pruner>>
  BY DEF DeleteOriginal, DeleterAt, metadata
<1>1. /\ i \in Image
      /\ deleter'[d].pc = "rows" /\ deleter'[d].image = i
      /\ \A e \in Deleter \ {d} : deleter'[e] = deleter[e]
  BY <1>0 DEF ImagesTypeOK, Deletion, DeleterGoto
<1>2. \A w \in Processor : processor[w].keep = "row" => processor[w].image # i
  <2>1. ASSUME NEW w \in Processor, processor[w].keep = "row" PROVE processor[w].image # i
    <3>1. ~Stands(w, "idle") /\ ~Stands(w, "reclaim")
      BY <2>1 DEF Apart, Stands
    <3>2. QED
      BY <1>0, <3>1, HasForItself DEF Doing
  <2>2. QED
    BY <2>1
<1>3. /\ \A k : LiveSource(k)' <=> LiveSource(k)
      /\ \A k : TornOriginal(k) => TornOriginal(k)'
      /\ TornOriginal(i)'
  <2>1. \A k : LiveSource(k)' <=> LiveSource(k)
    BY <1>0 DEF LiveSource
  <2>2. ASSUME NEW k, TornOriginal(k) PROVE TornOriginal(k)'
    <3>1. CASE <<"original", k>> \in debris
      BY <1>0, <3>1 DEF TornOriginal
    <3>2. ASSUME NEW e \in Deleter, deleter[e].pc = "rows", deleter[e].image = k
          PROVE  TornOriginal(k)'
      BY <1>0, <1>1, <3>2 DEF TornOriginal, DeleterAt
    <3>3. QED
      BY <2>2, <3>1, <3>2 DEF TornOriginal, DeleterAt
  <2>3. TornOriginal(i)'
    BY <1>1 DEF TornOriginal, DeleterAt
  <2>4. QED
    BY <2>1, <2>2, <2>3
<1>4. i \in sources' => <<"source", i>> \in debris
  BY <1>0, <1>2 DEF Sources, Doing
<1>5. \A w \in Processor : processor[w].keep = "row" => processor[w].image \in sources'
  BY <1>0, <1>2 DEF Sources, Doing
<1>6. ASSUME NEW q \in Pruner, pruner[q].pc \in {"originals", "mark"}
      PROVE  /\ \A u \in pruner[q].todo \union pruner[q].cut : ~LiveSource(u.image)
             /\ \A u \in pruner[q].cut : u.image \in sources' => <<"source", u.image>> \in debris
  BY <1>0, <1>6 DEF Sources
<1>7. \A e \in Deleter : deleter'[e].pc = "rows" /\ deleter'[e].image \in sources' =>
        <<"source", deleter'[e].image>> \in debris
  BY <1>0, <1>1, <1>4 DEF Sources, DeleterAt
<1>8. LiveOriginalHasSource'
  BY <1>0, <1>3 DEF Sources, LiveOriginalHasSource
<1>9. \A k \in sources' :
          \/ originals[k].path \/ <<"source", k>> \in debris
          \/ \E v \in Processor : processor[v].keep = "row" /\ processor[v].image = k
  BY <1>0 DEF Sources, Doing
<1>10. QED
  BY <1>0, <1>3, <1>5, <1>6, <1>7, <1>8, <1>9 DEF Sources, Doing, DeleterAt

LEMMA DeletedKeepSources ==
    ASSUME ImagesTypeOK, Apart, Sources, NEW d \in Deleter, NEW i, i = deleter[d].image,
           DeleteRows(d)
    PROVE  Sources'
<1>0. /\ deleter[d].pc = "rows" /\ debris' = debris \ {<<"row", i>>, <<"original", i>>}
      /\ originals' = [originals EXCEPT ![i] = NoOriginal]
      /\ EndDelete(d) /\ UNCHANGED <<sources, processor, pruner>>
  BY DEF DeleteRows, DeleterAt, store
<1>1. /\ i \in Image
      /\ i \in sources => <<"source", i>> \in debris
      /\ deleter'[d].pc = "idle"
      /\ \A e \in Deleter \ {d} : deleter'[e] = deleter[e]
  BY <1>0 DEF ImagesTypeOK, EndDelete, NoDelete, Sources, DeleterAt
<1>2. /\ ~LiveSource(i)'
      /\ \A k \in Image \ {i} : originals'[k] = originals[k]
  BY <1>0, <1>1 DEF LiveSource, NoOriginal, ImagesTypeOK
<1>3. /\ \A k : <<"source", k>> \in debris => <<"source", k>> \in debris'
      /\ \A k \in Image \ {i} : LiveSource(k)' <=> LiveSource(k)
  BY <1>0, <1>2 DEF LiveSource
<1>4. ASSUME NEW k \in Image \ {i}, TornOriginal(k) PROVE TornOriginal(k)'
  <2>1. CASE <<"original", k>> \in debris
    <3>1. <<"original", k>> \in debris'
      BY <1>0, <2>1
    <3>2. QED
      BY <3>1 DEF TornOriginal
  <2>2. ASSUME NEW e \in Deleter, deleter[e].pc = "rows", deleter[e].image = k
        PROVE  TornOriginal(k)'
    BY <1>1, <2>2 DEF TornOriginal, DeleterAt
  <2>3. QED
    BY <1>4, <2>1, <2>2 DEF TornOriginal, DeleterAt
<1>5. ASSUME NEW q \in Pruner, pruner[q].pc \in {"originals", "mark"}
      PROVE  /\ \A u \in pruner[q].todo \union pruner[q].cut : ~LiveSource(u.image)'
             /\ \A u \in pruner[q].cut : u.image \in sources => <<"source", u.image>> \in debris'
  <2>1. pruner[q].todo \union pruner[q].cut \subseteq Target
    BY Selections
  <2>2. ASSUME NEW u \in pruner[q].todo \union pruner[q].cut PROVE ~LiveSource(u.image)'
    <3>1. u.image \in Image /\ ~LiveSource(u.image)
      BY <1>5, <2>1 DEF Sources, Target
    <3>2. QED
      BY <1>2, <1>3, <3>1
  <2>3. QED
    BY <1>3, <1>5, <2>2 DEF Sources
<1>6. \A e \in Deleter : deleter'[e].pc = "rows" /\ deleter'[e].image \in sources =>
        <<"source", deleter'[e].image>> \in debris'
  BY <1>1, <1>3 DEF Sources, DeleterAt
<1>7. LiveOriginalHasSource'
  BY <1>0, <1>2, <1>3, <1>4 DEF Sources, LiveOriginalHasSource
<1>8. ASSUME NEW k \in sources
      PROVE  \/ originals'[k].path \/ <<"source", k>> \in debris'
             \/ \E v \in Processor : processor[v].keep = "row" /\ processor[v].image = k
  <2>1. k \in Image
    BY DEF ImagesTypeOK
  <2>2. QED
    BY <1>1, <1>2, <1>3, <2>1 DEF Sources, Doing
<1>9. QED
  BY <1>0, <1>3, <1>5, <1>6, <1>7, <1>8 DEF Sources, Doing, DeleterAt

LEMMA DeadlineKeepsSources ==
    ASSUME ImagesTypeOK, Sources, NEW i \in Image, SourceDeadline(i)
    PROVE  Sources'
<1>0. /\ originals' = [originals EXCEPT ![i].due = TRUE]
      /\ UNCHANGED <<sources, debris, processor, pruner, deleter>>
  BY DEF SourceDeadline, store, threads
<1>1. /\ \A k \in Image : originals'[k].path = originals[k].path /\ (LiveSource(k)' => LiveSource(k))
      /\ \A k : TornOriginal(k)' <=> TornOriginal(k)
  BY <1>0 DEF ImagesTypeOK, Original, LiveSource, TornOriginal, DeleterAt
<1>2. ASSUME NEW q \in Pruner, pruner[q].pc \in {"originals", "mark"}
      PROVE  \A u \in pruner[q].todo \union pruner[q].cut : ~LiveSource(u.image)'
  <2>1. pruner[q].todo \union pruner[q].cut \subseteq Target
    BY Selections
  <2>2. ASSUME NEW u \in pruner[q].todo \union pruner[q].cut PROVE ~LiveSource(u.image)'
    <3>1. u.image \in Image /\ ~LiveSource(u.image)
      BY <1>2, <2>1 DEF Sources, Target
    <3>2. QED
      BY <1>1, <3>1
  <2>3. QED
    BY <2>2
<1>3. LiveOriginalHasSource'
  BY <1>0, <1>1 DEF Sources, LiveOriginalHasSource
<1>4. ASSUME NEW k \in sources
      PROVE  \/ originals'[k].path \/ <<"source", k>> \in debris
             \/ \E v \in Processor : processor[v].keep = "row" /\ processor[v].image = k
  BY <1>1 DEF Sources, Doing, ImagesTypeOK
<1>5. QED
  BY <1>0, <1>2, <1>3, <1>4 DEF Sources, Doing, DeleterAt

LEMMA SourcesInit == ImagesInit => Sources
BY DEF ImagesInit, NoJob, NoPass, NoDelete, NoOriginal, Sources, LiveOriginalHasSource,
   LiveSource, DeleterAt

LEMMA SourcesStep ==
    ASSUME ImagesTypeOK, Apart, Sources, [ImagesNext]_imagesVars
    PROVE  Sources'
<1> USE DEF store, metadata, threads, counters
<1>1. ASSUME NEW w \in Processor, ServeHit(w) \/ Fail(w) \/ BindCode(w) \/ PutBlob(w) \/ WriteRows(w)
                                  \/ CheckCap(w) \/ Recheck(w)
      PROVE  Sources'
  <2>1. /\ UNCHANGED <<sources, originals, deleter>>
        /\ processor[w].keep # "row"
        /\ Retire(w) \/ \E pc : Goto(w, pc)
    <3>1. CASE ServeHit(w) \/ WriteRows(w)
      BY <3>1 DEF ServeHit, WriteRows, Answer, Apart, Stands
    <3>2. CASE Fail(w) \/ BindCode(w) \/ PutBlob(w)
      BY <3>2 DEF Fail, BindCode, PutBlob, Apart, Stands
    <3>3. CASE CheckCap(w)
      BY <3>3 DEF CheckCap
    <3>4. CASE Recheck(w)
      BY <3>4 DEF Recheck, Apart, Stands
    <3>5. QED
      BY <1>1, <3>1, <3>2, <3>3, <3>4
  <2>2. /\ \A v \in Processor \ {w} : processor'[v] = processor[v]
        /\ processor'[w].keep # "row"
    BY <2>1 DEF Retire, Goto, NoJob, ImagesTypeOK, Handling
  <2>3. \A q \in Pruner : pruner'[q].pc \in {"originals", "mark"} => pruner'[q] = pruner[q]
    <3>1. CASE UNCHANGED pruner
      BY <3>1
    <3>2. CASE pruner' = [pruner EXCEPT ![w] = [pc |-> "blobs", todo |-> Expired(w), cut |-> {}]]
      BY <3>2 DEF ImagesTypeOK
    <3>3. QED
      BY <1>1, <3>1, <3>2 DEF ServeHit, Fail, BindCode, PutBlob, WriteRows, CheckCap, Recheck
  <2>4. \A x : /\ <<"source", x>> \in debris => <<"source", x>> \in debris'
               /\ <<"original", x>> \in debris => <<"original", x>> \in debris'
    <3>1. CASE UNCHANGED debris
      BY <3>1
    <3>2. CASE debris' = debris \ {<<"blob", Doing(w)>>, <<"row", Doing(w)>>}
      BY <3>2
    <3>3. QED
      BY <1>1, <3>1, <3>2 DEF ServeHit, Fail, BindCode, PutBlob, WriteRows, CheckCap, Recheck
  <2>5. QED
    BY <2>1, <2>2, <2>3, <2>4, SourcesQuiet
<1>2. ASSUME NEW w \in Processor, WorkerDies(w) PROVE Sources'
  <2>1. /\ UNCHANGED <<sources, originals, deleter>>
        /\ debris \subseteq debris'
        /\ processor[w].keep = "row" => <<"source", Doing(w)>> \in debris'
        /\ Retire(w) /\ w \in Pruner
    BY <1>2 DEF WorkerDies, Pruner
  <2>2. /\ \A v \in Processor \ {w} : processor'[v] = processor[v]
        /\ processor'[w].keep = "no"
    BY <2>1 DEF Retire, NoJob, ImagesTypeOK
  <2>3. \A q \in Pruner : pruner'[q].pc \in {"originals", "mark"} => pruner'[q] = pruner[q]
    BY <1>2, <2>1 DEF WorkerDies, NoPass, ImagesTypeOK
  <2>4. QED
    BY <2>1, <2>2, <2>3, SourcesQuiet DEF Doing
<1>3. ASSUME NEW w \in Processor, NEW i \in Image, NEW r \in Request, Take(w, i, r)
      PROVE  Sources'
  <2>1. /\ UNCHANGED <<sources, originals, pruner, deleter, debris>>
        /\ processor[w].pc = "idle"
        /\ \E pc \in {"hit", "miss"}, keep \in {"put", "no"} :
              processor' = [processor EXCEPT ![w] =
                          [pc |-> pc, image |-> i, tenant |-> r.tenant,
                           asks |-> r.asks, keep |-> keep, seen |-> artifacts[i].id]]
    BY <1>3 DEF Take, Stands
  <2>2. /\ \A v \in Processor \ {w} : processor'[v] = processor[v]
        /\ processor'[w].keep # "row" /\ processor[w].keep # "row"
    BY <2>1 DEF ImagesTypeOK, Apart
  <2>3. QED
    BY <2>1, <2>2, SourcesQuiet
<1>4. ASSUME NEW p \in Pruner,
             \/ SelectBlobs(p) \/ ReadStep(p) \/ PassDies(p) \/ CommitExpired(p)
             \/ \E t \in pruner[p].todo : DeleteBlob(p, t)
      PROVE  Sources'
  <2>1. /\ UNCHANGED <<sources, originals, processor, deleter>>
        /\ debris \subseteq debris'
    BY <1>4 DEF SelectBlobs, ReadStep, ReadExpired, ReadDue, PassDies, CommitExpired,
       DeleteBlob, Swallowed
  <2>2. \/ \E todo, cut : Pass(p, "blobs", todo, cut)
        \/ \E t \in Due(p) : Pass(p, "originals", {t}, {})
        \/ Pass(p, "idle", {}, {})
        \/ Pass(p, "originals", Due(p), {})
    <3>1. CASE CommitExpired(p)
      BY <3>1 DEF CommitExpired, Originals
    <3>2. QED
      BY <1>4, <3>1 DEF SelectBlobs, ReadStep, ReadExpired, ReadDue, PassDies, DeleteBlob
  <2>3. \A t \in Due(p) : ~LiveSource(t.image)
    BY DEF Due, LiveSource
  <2>4. \A q \in Pruner : pruner'[q].pc \in {"originals", "mark"} =>
           \/ pruner'[q] = pruner[q]
           \/ pruner'[q].cut = {} /\ \A t \in pruner'[q].todo : ~LiveSource(t.image)
    BY <2>2, <2>3 DEF Pass, ImagesTypeOK
  <2>5. QED
    BY <2>1, <2>4, SourcesQuiet
<1>5. ASSUME NEW d \in Deleter,
             \/ Release(d) \/ Look(d) \/ DeleteObjects(d) \/ DeleteFails(d)
             \/ \E k \in Image, t \in Tenant : StartDelete(d, k, t)
      PROVE  Sources'
  <2>1. /\ UNCHANGED <<sources, originals, processor, pruner>>
        /\ \A k, x : k \in {"source", "original"} /\ <<k, x>> \in debris => <<k, x>> \in debris'
    BY <1>5 DEF Release, Look, DeleteObjects, DeleteFails, StartDelete
  <2>2. ASSUME NEW e \in Deleter
        PROVE  /\ deleter'[e].pc = "rows" =>
                     deleter[e].pc = "rows" /\ deleter'[e].image = deleter[e].image
               /\ deleter[e].pc = "rows" =>
                     \/ deleter'[e].pc = "rows" /\ deleter'[e].image = deleter[e].image
                     \/ <<"original", deleter[e].image>> \in debris'
    <3>1. CASE DeleteFails(d)
      <4>1. /\ \A f \in Deleter \ {d} : deleter'[f] = deleter[f]
            /\ deleter'[d].pc = "idle"
        BY <3>1 DEF DeleteFails, EndDelete, NoDelete, ImagesTypeOK
      <4>2. deleter[d].pc = "rows" => <<"original", deleter[d].image>> \in debris'
        BY <3>1 DEF DeleteFails, DeleterAt
      <4>3. QED
        BY <4>1, <4>2
    <3>2. CASE Release(d) \/ Look(d) \/ DeleteObjects(d)
      BY <3>2 DEF Release, Look, DeleteObjects, EndDelete, NoDelete, DeleterGoto, DeleterAt,
         ImagesTypeOK, Deletion
    <3>3. CASE \E k \in Image, t \in Tenant : StartDelete(d, k, t)
      <4>1. /\ deleter[d].pc = "idle"
            /\ \/ deleter' = deleter
               \/ \E pc \in {"objects", "release"}, k \in Image, t \in Tenant :
                     deleter' = [deleter EXCEPT ![d] = [pc |-> pc, image |-> k, tenant |-> t]]
        BY <3>3 DEF StartDelete, DeleterAt
      <4>2. QED
        BY <4>1 DEF ImagesTypeOK
    <3>4. QED
      BY <1>5, <3>1, <3>2, <3>3
  <2>3. QED
    BY <2>1, <2>2, SourcesQuiet
<1>6. ASSUME NEW i \in Image, Deadline(i) PROVE Sources'
  BY <1>6, SourcesQuiet DEF Deadline
<1>7. CASE UNCHANGED imagesVars
  BY <1>7, SourcesQuiet DEF imagesVars
<1>8. ASSUME NEW w \in Processor, WorkStep(w) \/ WorkerDies(w) \/ \E i \in Image, r \in Request : Take(w, i, r)
      PROVE  Sources'
  BY <1>1, <1>2, <1>3, <1>8, PutKeepsSources, UpsertKeepsSources DEF WorkStep
<1>9. ASSUME NEW p \in Pruner, SelectBlobs(p) \/ PassStep(p) \/ ReadStep(p) \/ PassDies(p)
      PROVE  Sources'
  BY <1>4, <1>9, PruneKeepsSources, MarkKeepsSources DEF PassStep
<1>10. ASSUME NEW d \in Deleter,
              \/ DeleteStep(d) \/ DeleteFails(d)
              \/ \E i \in Image, t \in Tenant : StartDelete(d, i, t)
       PROVE  Sources'
  BY <1>5, <1>10, DeleteKeepsSources, DeletedKeepSources DEF DeleteStep
<1>11. QED
  BY <1>6, <1>7, <1>8, <1>9, <1>10, DeadlineKeepsSources DEF ImagesNext

-----------------------------------------------------------------------------
(* Labels                                                                  *)

\* A step takes labels away in two places, and adds some only to an image that
\* its worker is writing.
LEMMA LabelSteps ==
    ASSUME ImagesTypeOK, [ImagesNext]_imagesVars, NEW i \in Image
    PROVE  /\ labels'[i] \subseteq labels[i] \/ \E w \in Processor : Writing(w, i)
           /\ \/ labels[i] \subseteq labels'[i]
              \/ \E d \in Deleter : /\ Release(d) \/ DeleteRows(d)
                                    /\ deleter[d].image = i
<1>1. ASSUME NEW w \in Processor, WorkStep(w)
      PROVE  /\ labels[i] \subseteq labels'[i]
             /\ labels'[i] \subseteq labels[i] \/ Writing(w, i)
  <2>1. CASE UNCHANGED labels
    BY <2>1
  <2>2. ASSUME NEW kind, labels' = Labelled(w, kind), processor[w].pc # "idle"
        PROVE  /\ labels[i] \subseteq labels'[i]
               /\ labels'[i] \subseteq labels[i] \/ Writing(w, i)
    BY <2>2 DEF Labelled, ImagesTypeOK, Writing, Stands, Doing
  <2>3. QED
    BY <1>1, <2>1, <2>2 DEF WorkStep, PutSource, UpsertOriginal, ServeHit, Fail, CheckCap, Recheck,
       PutBlob, WriteRows, BindCode, Stands, metadata
<1>2. ASSUME NEW d \in Deleter, DeleteStep(d)
      PROVE  /\ labels'[i] \subseteq labels[i]
             /\ \/ labels[i] \subseteq labels'[i]
                \/ (Release(d) \/ DeleteRows(d)) /\ deleter[d].image = i
  <2>1. CASE UNCHANGED labels
    BY <2>1
  <2>2. CASE Release(d)
    <3>1. labels' = [labels EXCEPT ![deleter[d].image] = @ \ ({deleter[d].tenant} \X Kinds)]
      BY <2>2 DEF Release
    <3>2. /\ labels'[i] \subseteq labels[i]
          /\ deleter[d].image # i => labels'[i] = labels[i]
      BY <3>1 DEF ImagesTypeOK
    <3>3. QED
      BY <2>2, <3>2
  <2>3. CASE DeleteRows(d)
    <3>1. labels' = [labels EXCEPT ![deleter[d].image] = {}]
      BY <2>3 DEF DeleteRows
    <3>2. /\ labels'[i] \subseteq labels[i]
          /\ deleter[d].image # i => labels'[i] = labels[i]
      BY <3>1 DEF ImagesTypeOK
    <3>3. QED
      BY <2>3, <3>2
  <2>4. CASE Look(d) \/ DeleteObjects(d) \/ DeleteOriginal(d)
    BY <2>1, <2>4 DEF Look, DeleteObjects, DeleteOriginal, metadata
  <2>5. QED
    BY <1>2, <2>2, <2>3, <2>4 DEF DeleteStep
<1>3. CASE UNCHANGED labels
  BY <1>3
<1>4. ASSUME NEW p \in Pruner, SelectBlobs(p) \/ PassStep(p) \/ ReadStep(p) \/ PassDies(p)
      PROVE  UNCHANGED labels
  BY <1>4 DEF SelectBlobs, PassStep, DeleteBlob, DeleteSource, CommitExpired, ExpireOriginal,
     ReadStep, ReadExpired, ReadDue, PassDies, metadata
<1>5. ASSUME NEW w \in Processor, WorkerDies(w) \/ \E k \in Image, r \in Request : Take(w, k, r)
      PROVE  UNCHANGED labels
  BY <1>5 DEF WorkerDies, Take, metadata
<1>6. ASSUME NEW d \in Deleter, DeleteFails(d) \/ \E k \in Image, t \in Tenant : StartDelete(d, k, t)
      PROVE  UNCHANGED labels
  BY <1>6 DEF DeleteFails, StartDelete, metadata
<1>7. ASSUME NEW k \in Image, Deadline(k) \/ SourceDeadline(k)
      PROVE  UNCHANGED labels
  BY <1>7 DEF Deadline, SourceDeadline
<1>8. CASE UNCHANGED imagesVars
  BY <1>3, <1>8 DEF imagesVars, metadata
<1>9. QED
  BY <1>1, <1>2, <1>3, <1>4, <1>5, <1>6, <1>7, <1>8 DEF ImagesNext

\* Where a scoped deletion may stand after a step.
LEMMA ScopedSteps ==
    ASSUME ImagesTypeOK, [ImagesNext]_imagesVars, NEW d \in Deleter,
           deleter'[d].pc \in {"objects", "source", "rows"}, deleter'[d].tenant # Global
    PROVE  /\ deleter'[d].image = deleter[d].image /\ deleter[d].pc # "idle"
           /\ \/ deleter[d].pc \in {"objects", "source", "rows"} /\ deleter[d].tenant # Global
              \/ labels[deleter[d].image] = {}
<1>1. ASSUME NEW e \in Deleter,
             \/ DeleteStep(e) \/ DeleteFails(e)
             \/ \E i \in Image, t \in Tenant : StartDelete(e, i, t)
      PROVE  /\ deleter'[d].image = deleter[d].image /\ deleter[d].pc # "idle"
             /\ \/ deleter[d].pc \in {"objects", "source", "rows"} /\ deleter[d].tenant # Global
                \/ labels[deleter[d].image] = {}
  <2>1. CASE Release(e) \/ Look(e)
    BY <2>1 DEF Release, Look, HasAnyLabels, DeleterAt, DeleterGoto, EndDelete, NoDelete,
       ImagesTypeOK, Deletion
  <2>2. CASE DeleteObjects(e) \/ DeleteOriginal(e)
    BY <2>2 DEF DeleteObjects, DeleteOriginal, DeleterAt, DeleterGoto, ImagesTypeOK, Deletion
  <2>3. CASE DeleteRows(e) \/ DeleteFails(e)
    BY <2>3 DEF DeleteRows, DeleteFails, EndDelete, NoDelete, ImagesTypeOK
  <2>4. ASSUME NEW i \in Image, NEW t \in Tenant, StartDelete(e, i, t)
        PROVE  deleter'[d] = deleter[d]
    BY <2>4 DEF StartDelete, ImagesTypeOK
  <2>5. QED
    BY <1>1, <2>1, <2>2, <2>3, <2>4 DEF DeleteStep
<1>2. CASE UNCHANGED deleter
  BY <1>2
<1>3. ASSUME NEW w \in Processor,
             WorkStep(w) \/ WorkerDies(w) \/ \E k \in Image, r \in Request : Take(w, k, r)
      PROVE  UNCHANGED deleter
  BY <1>3 DEF WorkStep, PutSource, UpsertOriginal, ServeHit, Fail, CheckCap, Recheck, PutBlob,
     WriteRows, BindCode, WorkerDies, Take
<1>4. ASSUME NEW p \in Pruner, SelectBlobs(p) \/ PassStep(p) \/ ReadStep(p) \/ PassDies(p)
      PROVE  UNCHANGED deleter
  BY <1>4 DEF SelectBlobs, PassStep, DeleteBlob, DeleteSource, CommitExpired, ExpireOriginal,
     ReadStep, ReadExpired, ReadDue, PassDies
<1>5. ASSUME NEW k \in Image, Deadline(k) \/ SourceDeadline(k)
      PROVE  UNCHANGED deleter
  BY <1>5 DEF Deadline, SourceDeadline, threads
<1>6. CASE UNCHANGED imagesVars
  BY <1>2, <1>6 DEF imagesVars, threads
<1>7. QED
  BY <1>1, <1>2, <1>3, <1>4, <1>5, <1>6 DEF ImagesNext

LEMMA UnlabelledStep ==
    ASSUME ImagesTypeOK, Apart, Unlabelled, [ImagesNext]_imagesVars
    PROVE  Unlabelled'
<1>1. ASSUME NEW d \in Deleter,
             deleter'[d].pc \in {"objects", "source", "rows"}, deleter'[d].tenant # Global
      PROVE  labels'[deleter'[d].image] = {}
  <2>1. /\ deleter'[d].image = deleter[d].image /\ deleter[d].pc # "idle"
        /\ labels[deleter[d].image] = {}
    BY <1>1, ScopedSteps DEF Unlabelled
  <2>2. deleter[d].image \in Image
    BY <2>1 DEF ImagesTypeOK
  <2>3. \A w \in Processor : ~Writing(w, deleter[d].image)
    BY <2>1, <2>2 DEF Apart, Deleting
  <2>4. QED
    BY <2>1, <2>2, <2>3, LabelSteps
<1>2. QED
  BY <1>1 DEF Unlabelled

LEMMA LabelsKept ==
    ASSUME ImagesTypeOK, Unlabelled, [ImagesNext]_imagesVars,
           NEW i \in Image, NEW l \in labels[i] \ labels'[i]
    PROVE  \E d \in Deleter : /\ deleter[d].image = i /\ deleter[d].pc # "idle"
                              /\ deleter[d].tenant \in {Global, l[1]}
<1>1. PICK d \in Deleter : (Release(d) \/ DeleteRows(d)) /\ deleter[d].image = i
  BY LabelSteps
<1>2. CASE Release(d)
  <2>1. deleter[d].pc = "release" /\ l \in {deleter[d].tenant} \X Kinds
    BY <1>1, <1>2 DEF Release, DeleterAt, ImagesTypeOK
  <2>2. QED
    BY <1>1, <2>1
<1>3. CASE DeleteRows(d)
  BY <1>1, <1>3 DEF DeleteRows, DeleterAt, Unlabelled
<1>4. QED
  BY <1>1, <1>2, <1>3

-----------------------------------------------------------------------------

LEMMA ImagesInvariant ==
    ASSUME ~Overlapping
    PROVE  ImagesSpec => [](ImagesTypeOK /\ Apart /\ Blobs /\ Sources /\ Unlabelled)
<1>1. ImagesInit => Apart /\ Blobs /\ Sources /\ Unlabelled
  BY ApartInit, BlobsInit, SourcesInit DEF ImagesInit, NoDelete, Unlabelled
<1>2. /\ ImagesTypeOK
      /\ Apart /\ Blobs /\ Sources /\ Unlabelled
      /\ [ImagesNext]_imagesVars
      => (Apart /\ Blobs /\ Sources /\ Unlabelled)'
  BY ApartStep, BlobsStep, SourcesStep, UnlabelledStep
<1>3. QED
  BY <1>1, <1>2, ImagesTypeCorrect, PTL DEF ImagesSpec

\* As long as nobody deletes or prunes an image that another thread is writing,
\* no order of jobs, prune passes, late reads, deletions, crashes and refused
\* store calls leaves a live artifact row without its object: only a deletion
\* that is under way, or broke off, may.
THEOREM LiveRowHasBlobHolds == ASSUME ~Overlapping PROVE ImagesSpec => []LiveRowHasBlob
<1>1. Blobs => LiveRowHasBlob
  BY DEF Blobs
<1>2. QED
  BY <1>1, ImagesInvariant, PTL

\* Under the same condition a row of a retained original that has not reached
\* its deadline leads to the source's bytes.
THEOREM LiveOriginalHasSourceHolds ==
    ASSUME ~Overlapping PROVE ImagesSpec => []LiveOriginalHasSource
<1>1. Sources => LiveOriginalHasSource
  BY DEF Sources
<1>2. QED
  BY <1>1, ImagesInvariant, PTL

\* Under the same condition no object is forgotten: a row names it, a worker is
\* about to write that row, or a crash or a refused delete left it.
THEOREM ObjectsAccountedHolds == ASSUME ~Overlapping PROVE ImagesSpec => []ObjectsAccounted
<1>1. Blobs /\ Sources => ObjectsAccounted
  BY DEF Blobs, Sources, ObjectsAccounted
<1>2. QED
  BY <1>1, ImagesInvariant, PTL

\* Under the same condition a tenant loses labels to its own deletions and to
\* the operator's alone, however deletions of several tenants interleave.
THEOREM OthersKeepLabelsHolds == ASSUME ~Overlapping PROVE ImagesSpec => OthersKeepLabels
<1>1. ImagesTypeOK /\ Unlabelled /\ [ImagesNext]_imagesVars =>
         [\A i \in Image : \A l \in labels[i] \ labels'[i] :
             \E d \in Deleter : /\ deleter[d].image = i /\ deleter[d].pc # "idle"
                                /\ deleter[d].tenant \in {Global, l[1]}]_imagesVars
  BY LabelsKept
<1>2. QED
  BY <1>1, ImagesInvariant, PTL DEF ImagesSpec, OthersKeepLabels
=============================================================================
