-------------------------------- MODULE Review --------------------------------
(***************************************************************************)
(* Manual regions: an operator draws black shapes over what the detectors  *)
(* missed, and apply_regions burns them into the stored bytes: it reads    *)
(* the object, draws, puts the object back under its name and records the  *)
(* regions on the artifact's row. There is one image here and one profile, *)
(* so one row and one name, and the same image may be submitted again,     *)
(* redacted again, expire or be deleted meanwhile.                         *)
(***************************************************************************)
EXTENDS Naturals

CONSTANTS
    Region,
    Editor,     \* HTTP threads of any replica that serve a PUT of regions
    Runner,     \* workers that process the image
    MaxRows,    \* bound: rows inserted
    MaxSlips,   \* bound: deaths and failed calls
    Absent

ASSUME ReviewAssumption == Absent \notin Nat /\ MaxRows \in Nat /\ MaxSlips \in Nat

VARIABLES
    record,     \* the artifact's row, or Absent
    object,     \* the regions burned into the stored bytes, or Absent
    editor,
    runner,
    prune,      \* the sweep: idle, or with the row it has selected
    deleting,   \* the paths are read, and their objects are being deleted
    lastId,
    torn,       \* a redaction's bytes were put, and no row of it followed
    slips

reviewVars == <<record, object, editor, runner, prune, deleting, lastId, torn, slips>>

Id     == 1..MaxRows
Burned == SUBSET Region

ReviewTypeOK ==
    /\ record \in [id : Id, regions : Burned, review : BOOLEAN,
                   held : BOOLEAN, due : BOOLEAN] \union {Absent}
    /\ object = Absent \/ object \in Burned
    /\ editor \in [Editor -> [pc : {"idle", "get", "put", "mark"}, id : Id \union {Absent},
                              regions : Burned, bytes : Burned]]
    /\ runner \in [Runner -> [pc : {"idle", "put", "drop", "insert"},
                              cached : Id \union {Absent}]]
    /\ prune \in [pc : {"idle", "object", "row"}, id : Id \union {Absent}]
    /\ deleting \in BOOLEAN
    /\ lastId \in 0..MaxRows /\ torn \in BOOLEAN /\ slips \in 0..MaxSlips

Resting   == [pc |-> "idle", id |-> Absent, regions |-> {}, bytes |-> {}]
Unstarted == [pc |-> "idle", cached |-> Absent]
NoPrune   == [pc |-> "idle", id |-> Absent]

ReviewInit ==
    /\ record = Absent /\ object = Absent
    /\ editor = [e \in Editor |-> Resting]
    /\ runner = [w \in Runner |-> Unstarted]
    /\ prune = NoPrune
    /\ deleting = FALSE /\ lastId = 0 /\ torn = FALSE /\ slips = 0

-----------------------------------------------------------------------------

RowId     == IF record = Absent THEN Absent ELSE record.id
Servable  == record # Absent /\ record.held /\ ~record.due
EditorAt(e, pc) == editor[e].pc = pc
RunnerAt(w, pc) == runner[w].pc = pc
EditorRests(e)  == editor' = [editor EXCEPT ![e] = Resting]

\* PUT .../regions: the row is read, and refused when it has expired.
BeginEdit(e, regions) ==
    /\ EditorAt(e, "idle") /\ Servable
    /\ editor' = [editor EXCEPT ![e] =
         [pc |-> IF regions = {} THEN "mark" ELSE "get", id |-> record.id,
          regions |-> regions, bytes |-> {}]]
    /\ UNCHANGED <<record, object, runner, prune, deleting, lastId, torn, slips>>

GetBlob(e) ==
    /\ EditorAt(e, "get") /\ object # Absent
    /\ editor' = [editor EXCEPT ![e].pc = "put",
                                ![e].bytes = object \union editor[e].regions]
    /\ UNCHANGED <<record, object, runner, prune, deleting, lastId, torn, slips>>

GetFails(e) ==
    /\ EditorAt(e, "get") /\ object = Absent
    /\ EditorRests(e)
    /\ UNCHANGED <<record, object, runner, prune, deleting, lastId, torn, slips>>

\* The object is written over, whatever has become of it since.
PutMasked(e) ==
    /\ EditorAt(e, "put")
    /\ object' = editor[e].bytes
    /\ editor' = [editor EXCEPT ![e].pc = "mark"]
    /\ UNCHANGED <<record, runner, prune, deleting, lastId, torn, slips>>

\* Mutant: the update is by the image and its profile.
ApplyByName(e) ==
    /\ EditorAt(e, "mark")
    /\ record' = IF record = Absent THEN record
                 ELSE [record EXCEPT !.regions = editor[e].regions, !.review = FALSE]
    /\ EditorRests(e)
    /\ UNCHANGED <<object, runner, prune, deleting, lastId, torn, slips>>

\* apply_manual_regions: the update is by the row's id, and an id is never
\* used again.
ApplyManualRegions(e) ==
    /\ EditorAt(e, "mark")
    /\ record' = IF RowId # editor[e].id \/ record = Absent THEN record
                 ELSE [record EXCEPT !.regions = editor[e].regions, !.review = FALSE]
    /\ EditorRests(e)
    /\ UNCHANGED <<object, runner, prune, deleting, lastId, torn, slips>>

EditorDies(e) ==
    /\ ~EditorAt(e, "idle") /\ slips < MaxSlips
    /\ slips' = slips + 1
    /\ EditorRests(e)
    /\ UNCHANGED <<record, object, runner, prune, deleting, lastId, torn>>

-----------------------------------------------------------------------------
(* process *)

\* The row it found stays with it. A live one whose object is there is a cache
\* hit, unless the job is forced: reprocess.
Begin(w, forced) ==
    /\ RunnerAt(w, "idle") /\ lastId < MaxRows
    /\ forced \/ ~Servable \/ object = Absent
    /\ runner' = [runner EXCEPT ![w] = [pc |-> "put", cached |-> RowId]]
    /\ UNCHANGED <<record, object, editor, prune, deleting, lastId, torn, slips>>

PutRedacted(w) ==
    /\ RunnerAt(w, "put")
    /\ object' = {}
    /\ runner' = [runner EXCEPT ![w].pc = "drop"]
    /\ UNCHANGED <<record, editor, prune, deleting, lastId, torn, slips>>

\* delete_artifact and insert_artifact are one transaction on SQL, and two calls
\* on Mongo.
DropCached(w) ==
    /\ RunnerAt(w, "drop")
    /\ record' = IF runner[w].cached # Absent /\ RowId = runner[w].cached
                 THEN Absent ELSE record
    /\ runner' = [runner EXCEPT ![w].pc = "insert"]
    /\ UNCHANGED <<object, editor, prune, deleting, lastId, torn, slips>>

InsertArtifactRow(w, review) ==
    /\ RunnerAt(w, "insert") /\ record = Absent /\ lastId < MaxRows
    /\ lastId' = lastId + 1
    /\ record' = [id |-> lastId', regions |-> {}, review |-> review,
                  held |-> TRUE, due |-> FALSE]
    /\ runner' = [runner EXCEPT ![w] = Unstarted]
    /\ torn' = FALSE
    /\ UNCHANGED <<object, editor, prune, deleting, slips>>

\* The dedup race is lost: the winner's row is served, over this job's bytes.
ServeWinner(w) ==
    /\ RunnerAt(w, "insert") /\ record # Absent
    /\ runner' = [runner EXCEPT ![w] = Unstarted]
    /\ torn' = TRUE
    /\ UNCHANGED <<record, object, editor, prune, deleting, lastId, slips>>

RunnerDies(w) ==
    /\ ~RunnerAt(w, "idle") /\ slips < MaxSlips
    /\ slips' = slips + 1
    /\ torn' = (torn \/ ~RunnerAt(w, "put"))
    /\ runner' = [runner EXCEPT ![w] = Unstarted]
    /\ UNCHANGED <<record, object, editor, prune, deleting, lastId>>

-----------------------------------------------------------------------------
(* Expiry and deletion: the object first, then the row *)

Expire ==
    /\ Servable
    /\ record' = [record EXCEPT !.due = TRUE]
    /\ UNCHANGED <<object, editor, runner, prune, deleting, lastId, torn, slips>>

SelectDue ==
    /\ prune.pc = "idle" /\ record # Absent
    /\ record.due /\ record.held
    /\ prune' = [pc |-> "object", id |-> record.id]
    /\ UNCHANGED <<record, object, editor, runner, deleting, lastId, torn, slips>>

PruneObject ==
    /\ prune.pc = "object"
    /\ object' = Absent
    /\ prune' = [prune EXCEPT !.pc = "row"]
    /\ UNCHANGED <<record, editor, runner, deleting, lastId, torn, slips>>

ExpireArtifact ==
    /\ prune.pc = "row"
    /\ record' = IF RowId = prune.id THEN [record EXCEPT !.held = FALSE] ELSE record
    /\ prune' = NoPrune
    /\ UNCHANGED <<object, editor, runner, deleting, lastId, torn, slips>>

DeleteObject ==
    /\ ~deleting /\ record # Absent /\ record.held
    /\ deleting' = TRUE /\ object' = Absent
    /\ UNCHANGED <<record, editor, runner, prune, lastId, torn, slips>>

DeleteImage ==
    /\ deleting
    /\ deleting' = FALSE /\ record' = Absent
    /\ UNCHANGED <<object, editor, runner, prune, lastId, torn, slips>>

-----------------------------------------------------------------------------

EditorStep(e) == GetBlob(e) \/ GetFails(e) \/ PutMasked(e) \/ ApplyManualRegions(e)
RunnerStep(w) == PutRedacted(w) \/ DropCached(w) \/ ServeWinner(w)
                 \/ \E review \in BOOLEAN : InsertArtifactRow(w, review)

ReviewNext ==
    \/ \E e \in Editor : \/ \E regions \in Burned : BeginEdit(e, regions)
                         \/ EditorStep(e) \/ EditorDies(e)
    \/ \E w \in Runner : \/ \E forced \in BOOLEAN : Begin(w, forced)
                         \/ RunnerStep(w) \/ RunnerDies(w)
    \/ Expire \/ SelectDue \/ PruneObject \/ ExpireArtifact \/ DeleteObject \/ DeleteImage

Review == ReviewInit /\ [][ReviewNext]_reviewVars

-----------------------------------------------------------------------------

\* What the record of an image lists as masked is masked in the bytes that are
\* served, whatever redaction, expiry or deletion an edit overlaps and wherever
\* either dies. Excepted is the time from a redaction's put to its row, and an
\* image where a redaction has died there or lost the race for the row.
RegionsBurned ==
    (Servable /\ object # Absent /\ ~torn /\ \A w \in Runner : runner[w].pc \in {"idle", "put"})
        => record.regions \subseteq object

\* An edit removes nothing from what is masked (apply_regions: "a manual region
\* can mask more, never reveal").
EditsOnlyMask ==
    [][\A e \in Editor :
          EditorAt(e, "put") /\ EditorAt(e, "mark")' /\ object # Absent => object \subseteq object'
      ]_reviewVars
=============================================================================
