--------------------------------- MODULE Moves ---------------------------------
(***************************************************************************)
(* migrate-blobs: the objects of an instance are copied from one store to  *)
(* the other, one at a time, while the server goes on redacting, editing   *)
(* and deleting in the store it was started with. An object that is at the *)
(* destination is not copied again, which is what makes a run resumable.   *)
(* The operator may run it in either direction, with --delete-source or    *)
(* without, and restart the server on the other store.                     *)
(***************************************************************************)
EXTENDS Naturals

CONSTANTS
    Blob,
    Mover,          \* runs of migrate-blobs at a time
    Careful,        \* whether the operator flips only after a complete copy
    MaxVersions,    \* bound: times the server writes an object
    NoBytes         \* no object

ASSUME MovesAssumption ==
    Careful \in BOOLEAN /\ MaxVersions \in Nat /\ NoBytes \notin Nat \union Blob

VARIABLES
    active,     \* the store the server was started with
    held,       \* the bytes of each store, as the number of the write
    listed,     \* the artifact's row: none, there, past its ttl, or expired
    freed,      \* objects a deletion has taken, with the row still there
    mover,
    whole,      \* stores to which a run has just copied everything, for properties
    versions

movesVars == <<active, held, listed, freed, mover, whole, versions>>

Backend == {"local", "s3"}
Other(b) == IF b = "s3" THEN "local" ELSE "s3"
Bytes   == 1..MaxVersions \union {NoBytes}
Parked  == [pc |-> "idle", dest |-> "s3", drops |-> FALSE, todo |-> {}, blob |-> NoBytes,
            bytes |-> NoBytes, exact |-> TRUE]

MovesTypeOK ==
    /\ active \in Backend
    /\ held \in [Backend -> [Blob -> Bytes]]
    /\ listed \in [Blob -> {"none", "live", "due", "expired"}]
    /\ freed \subseteq Blob
    /\ mover \in [Mover -> [pc : {"idle", "check", "get", "put", "drop"}, dest : Backend,
                            drops : BOOLEAN, todo : SUBSET Blob, blob : Blob \union {NoBytes},
                            bytes : Bytes, exact : BOOLEAN]]
    /\ whole \subseteq Backend
    /\ versions \in 0..MaxVersions

MovesInit ==
    /\ active \in Backend
    /\ held = [s \in Backend |-> [b \in Blob |-> NoBytes]]
    /\ listed = [b \in Blob |-> "none"] /\ freed = {}
    /\ mover = [m \in Mover |-> Parked]
    /\ whole = {} /\ versions = 0

-----------------------------------------------------------------------------
(* The server. A write ends what is known of copies.                       *)

MoverAt(m, pc) == mover[m].pc = pc
Holds(s, b)  == held[s][b] # NoBytes
Put(s, b, v) == held' = [held EXCEPT ![s][b] = v]
Touched ==
    /\ whole' = {}
    /\ mover' = [m \in Mover |-> [mover[m] EXCEPT !.exact = FALSE]]

\* process: the object, then its row; what may come between is module Images.
Redact(b) ==
    /\ versions < MaxVersions /\ b \notin freed
    /\ listed[b] = "live" => ~Holds(active, b)
    /\ versions' = versions + 1
    /\ Put(active, b, versions')
    /\ listed' = [listed EXCEPT ![b] = "live"]
    /\ Touched
    /\ UNCHANGED <<active, freed>>

\* apply_regions and reprocess: the object is put over itself.
Rewrite(b) ==
    /\ versions < MaxVersions /\ listed[b] = "live" /\ b \notin freed /\ Holds(active, b)
    /\ versions' = versions + 1
    /\ Put(active, b, versions')
    /\ Touched
    /\ UNCHANGED <<active, listed, freed>>

ReachTtl(b) ==
    /\ listed[b] = "live"
    /\ listed' = [listed EXCEPT ![b] = "due"]
    /\ UNCHANGED <<active, held, freed, mover, whole, versions>>

\* delete, and the sweep: the object of the active store, then the row.
FreeObject(b) ==
    /\ listed[b] \in {"live", "due"} /\ b \notin freed
    /\ freed' = freed \union {b}
    /\ Put(active, b, NoBytes)
    /\ UNCHANGED <<active, listed, mover, whole, versions>>

FreeRow(b) ==
    /\ b \in freed
    /\ freed' = freed \ {b}
    /\ listed' = [listed EXCEPT ![b] = IF @ = "due" THEN "expired" ELSE "none"]
    /\ UNCHANGED <<active, held, mover, whole, versions>>

\* config set storage.backend, and a restart; not while a run is under way
\* (spec/storage.md: "flip only once the copy is complete").
Flip ==
    /\ \A m \in Mover : MoverAt(m, "idle")
    /\ Careful => Other(active) \in whole
    /\ active' = Other(active)
    /\ UNCHANGED <<held, listed, freed, mover, whole, versions>>

-----------------------------------------------------------------------------
(* migrate-blobs *)

Source(m) == Other(mover[m].dest)

\* all_blob_paths, once, at the start. Runs at a time go the same way: two
\* opposite ones with drops can take an object's copies from under each other.
BeginMove(m, dest, drops) ==
    /\ MoverAt(m, "idle")
    /\ \A k \in Mover : MoverAt(k, "idle") \/ mover[k].dest = dest
    /\ mover' = [mover EXCEPT ![m] = [Parked EXCEPT
                    !.pc = "check", !.dest = dest, !.drops = drops,
                    !.todo = {b \in Blob : listed[b] \in {"live", "due"}}]]
    /\ UNCHANGED <<active, held, listed, freed, whole, versions>>

SkipPresent(m, b) ==
    /\ MoverAt(m, "check") /\ b \in mover[m].todo /\ Holds(mover[m].dest, b)
    /\ mover' = [mover EXCEPT ![m].todo = @ \ {b}]
    /\ UNCHANGED <<active, held, listed, freed, whole, versions>>

\* S3 is asked with a HEAD, and whatever is not a 200 counts as absent.
TakeAbsent(m, b) ==
    /\ MoverAt(m, "check") /\ b \in mover[m].todo
    /\ Holds(mover[m].dest, b) => mover[m].dest = "s3"
    /\ mover' = [mover EXCEPT ![m].todo = @ \ {b}, ![m].pc = "get", ![m].blob = b]
    /\ UNCHANGED <<active, held, listed, freed, whole, versions>>

\* Mutant: an object that has been read is gone from its source before it is put.
GetAndDrop(m) ==
    /\ MoverAt(m, "get") /\ Holds(Source(m), mover[m].blob)
    /\ mover' = [mover EXCEPT ![m].pc = "put", ![m].bytes = held[Source(m)][mover[m].blob]]
    /\ IF mover[m].drops THEN Put(Source(m), mover[m].blob, NoBytes) ELSE UNCHANGED held
    /\ UNCHANGED <<active, listed, freed, whole, versions>>

GetSource(m) ==
    /\ MoverAt(m, "get") /\ Holds(Source(m), mover[m].blob)
    /\ mover' = [mover EXCEPT ![m].pc = "put", ![m].bytes = held[Source(m)][mover[m].blob]]
    /\ UNCHANGED <<active, held, listed, freed, whole, versions>>

\* Any error of the source, the network's too, counts as missing.
CountMissing(m) ==
    /\ MoverAt(m, "get")
    /\ mover' = [mover EXCEPT ![m].pc = "check", ![m].exact = FALSE]
    /\ UNCHANGED <<active, held, listed, freed, whole, versions>>

PutDest(m) ==
    /\ MoverAt(m, "put")
    /\ Put(mover[m].dest, mover[m].blob, mover[m].bytes)
    /\ mover' = [mover EXCEPT ![m].pc = IF mover[m].drops THEN "drop" ELSE "check"]
    /\ UNCHANGED <<active, listed, freed, whole, versions>>

DropSource(m) ==
    /\ MoverAt(m, "drop")
    /\ Put(Source(m), mover[m].blob, NoBytes)
    /\ mover' = [k \in Mover |-> IF k = m THEN [mover[k] EXCEPT !.pc = "check"]
                                         ELSE [mover[k] EXCEPT !.exact = FALSE]]
    /\ whole' = whole \ {Source(m)}
    /\ UNCHANGED <<active, listed, freed, versions>>

EndMove(m) ==
    /\ MoverAt(m, "check") /\ mover[m].todo = {}
    /\ mover' = [mover EXCEPT ![m] = Parked]
    /\ whole' = IF mover[m].exact THEN whole \union {mover[m].dest} ELSE whole
    /\ UNCHANGED <<active, held, listed, freed, versions>>

\* --max is reached, a put or a delete fails, or the process dies.
StopMove(m) ==
    /\ ~MoverAt(m, "idle")
    /\ mover' = [mover EXCEPT ![m] = Parked]
    /\ UNCHANGED <<active, held, listed, freed, whole, versions>>

-----------------------------------------------------------------------------

MovesNext ==
    \/ Flip
    \/ \E b \in Blob : Redact(b) \/ Rewrite(b) \/ ReachTtl(b) \/ FreeObject(b) \/ FreeRow(b)
    \/ \E m \in Mover :
          \/ \E dest \in Backend, drops \in BOOLEAN : BeginMove(m, dest, drops)
          \/ \E b \in Blob : SkipPresent(m, b) \/ TakeAbsent(m, b)
          \/ GetSource(m) \/ CountMissing(m) \/ PutDest(m) \/ DropSource(m)
          \/ EndMove(m) \/ StopMove(m)

Moves == MovesInit /\ [][MovesNext]_movesVars

-----------------------------------------------------------------------------

\* Runs of one direction at a time, in whatever order or overlap with each other
\* and the server and wherever they die, never take the last copy of an image that
\* is still to be served; and one that missed nothing has left everything at its
\* destination (main.py, migrate-blobs: dropped after its put).
MovesLoseNothing ==
    \A b \in Blob : listed[b] = "live" /\ b \notin freed =>
        /\ \E s \in Backend : Holds(s, b)
        /\ \A s \in whole : Holds(s, b)

\* The server is restarted on a store to which all has been copied, and serves
\* what it served before (spec/storage.md: "flip only once the copy is complete").
FlipServesTheSame ==
    [][active' # active /\ active' \in whole =>
          \A b \in Blob : listed[b] = "live" /\ b \notin freed =>
              held[active][b] \in {held[active'][b], NoBytes}
      ]_movesVars
=============================================================================
