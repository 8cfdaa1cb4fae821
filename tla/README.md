# Verification of blurd

blurd accepts images over HTTP or from the command line, blurs faces and
plates, and serves the redacted result. This directory holds TLA+ models of its
parts, the TLC runs that check them and the proofs TLAPS has checked. Paths like
`src/src/jobs.py` are relative to the repository's parent.

## 1. The system

| Part | Code | State | Operations |
|---|---|---|---|
| job queue | `jobs.py` | `_q`, `_payloads`, `_queued_bytes`, `_running`, `_events`, `_stop`, `_draining`, all in one process's memory | `submit`, `_worker`/`_run`, `reap`, `stop`, the 30 s sweep |
| process lifecycle | `server.py` `BlurdServer`, `main.py` `daemon_cmd`, `client.py` `LocalClient` | instance id, heartbeat thread | register, beat, drain, unregister; a CLI run starts a queue of its own |
| metadata store | `db_sql.py`, `db_mongo.py` | tables `jobs`, `instances`, `images`, `artifacts`, `external_ids`, `originals`, `tags`, `metadata`, `audit`, ... | one function per statement; SQL statements join the thread's open transaction, Mongo's are visible at once |
| schema | `db.init`, `migrate`, `dialect.py` | shapes of tables, columns, indexes, a lock or lease | create, add columns, rebuild, lock, take a lease over |
| labels on Mongo | `db_mongo.py` | `tags`, `metadata`, `external_ids`, and a copy of them on every artifact | change a label, `_sync_labels`, cascade |
| listing | cursors of `db_sql`, `db_mongo` | none | keyset pages, scoped filters, capped counts |
| single reads | `db_*`, `client.py`, `server.py` | `public_rules` | by sha, by code, by a public rule |
| pipeline | `pipeline.py` | none | `process`: cache lookup, decode, detect, redact, encode, put the blob, write the rows |
| manual regions | `pipeline.apply_regions` | regions and review flag on the artifact's row | read, draw, put, record |
| blob store | `store.py`; `migrate_blobs` in `main.py` | objects by path | put, get, delete, exists, on disk or S3; copy all from one to the other |
| external codes | `jobs.bind_code`, `resolve_code`, `_instant_done` | `external_ids` | bind, touch, repoint, resolve |
| retained originals | `originals.py` | `originals`, objects | retain, lookup, prune |
| rate limiter | `server._RateLimiter` | `_hits`, `_blocked` | hit, flush; one audit row per blocked window |
| API keys | `auth.py` | `api_keys`, an exported file | generate, verify, revoke, export, import |
| tenants | `scope.py`, `client.delete` | labels per tenant on shared images | stamp, scoped read, scoped delete |
| request settings | `config.resolve_profile` | none | merge, gate, hash |
| geometry | `detect.py`, `redact.py` | none | box, scale back, expand, clip |
| sizing | `resources.py` | none | workers and queue bytes under `auto` |
| daemon | `daemon.py` | pid file | start, stop, status |
| detection models, fetching, feedback, disk guard, HTTP parsing, dashboard, sidecar | | | numeric or I/O code, section 16 |

How they interact: an HTTP thread calls `submit`, which writes a row and puts
the job in `_q`; a worker takes it, calls `pipeline.process`, which writes the
blob store and then the rows; every 30 s the same process's reaper reads other
processes' rows and beats, and prunes blobs that the pipeline of any process
may be writing. Reads, listings and edits of regions come over other HTTP
threads. Processes meet only in the two stores, and in the pid file.

What is hard: steps of several processes interleave between a read and the
write that depends on it; a process may die anywhere, and its memory with it; a
heartbeat may be late although the process lives; queues and byte budgets fill
up; transactions hide writes until their commit on one backend and not on
another; and two backends are to answer alike with different queries.

What makes each part correct: an accepted job is settled exactly once and not
lost (queue); at most the budget of bytes is held (admission); a process that
lives keeps its jobs (reaper); a row that says it has a blob has it (pipeline,
store, sweep, moves); what is listed as masked is masked (regions); a code
names one image and changes only on request (codes); what is past its deadline
goes (sweep, originals); a blocked request is audited once (rate limiter); one
tenant's delete leaves another's image alone, and a scope shows what is its own
(tenants, labels, listing); a revoked key stays revoked (keys); a start leaves
the labels there and comes to an end (schema).

## 2. Plan

| | Module | Component | State |
|---|---|---|---|
| 1 | `Replicas`, `ReplicasProofs` | the queue in several processes | done |
| 2 | `RateEvents` | the rate limiter and the sweep that flushes it | done |
| 3 | `Images`, `ImagesProofs` | `process`, originals, sweeps, deletes, the storage cap | done |
| 4 | `Codes`, `Bindings`, `CodesProofs` | external codes, and the abstract register they implement | done |
| 5 | `Schema` | migrations of several starting processes on three backends | done |
| 6 | `Labels` | Mongo's copy of the labels, call by call | done |
| 7 | `Review`, `Moves` | edits of regions, `migrate-blobs` | done |
| 8 | `Listing`, `Lookups`, `Keys` | what reads answer on both backends; keys | done |
| 9 | `Redaction`, `Sizing`, `Daemon` | settings and geometry, `auto`, the pid file | done |
| 10 | `SchemaProofs`, `StoresProofs`, `MetadataProofs`, `ServingProofs` | invariants of 2 and 5 to 9 for all instances, and of the compositions | done |
| 11 | `Sums` | sums over finite sets, for the byte budget and the audit | done |
| 12 | Connections | a thread's cached connection: what a failed statement or an abandoned transaction does to the next request on it, and what database errors do to the queue | planned |
| 13 | Lifecycle of a job | an abstract specification that `Replicas` implements | planned |
| 14 | Scopes | parsing of a scope and of settings | planned |

The order is by what is lost when it goes wrong: jobs, then images, then
addresses of images, then what is shown of them, then service quality.
`Replicas` and `Images` do not compose: a job's row and an image's rows share no
column, so `Replicas` lets a job succeed or fail at will and `Images` takes jobs
from anywhere. `Codes` and `Review` see of `Images` only whether a row and its
bytes are there.

Proofs follow the modules: an inductive invariant for each safety property, and
for each composition that what it runs are behaviours of its parts. Every
invariant and action property of the runs is now a theorem. Next on the list is
the refinement of 13 with its proof, and what the hypotheses of section 14
leave out.

## 3. Replicas

One process is an `Instance`; a restart is a new instance, as every start mints
a new id. `status` and `owner` are columns of `jobs`, `live` is the set that
`live_instances()` returns. The rest is memory: `queue` is `_q`, `payloads` the
keys of `_payloads`, `queuedBytes` the counter, `running` the set `_running`;
`worker`, `submitter`, `reaper` and `proc` are program counters of the threads,
with what each has read. A submission is one HTTP thread, so `submitter` and
`home` are indexed by the job it makes.

One action is one atomic step of the code: one SQL statement with its commit,
one critical section under `_lock`, one queue operation. Between them anything
may happen. On the SQL backends the reaper's updates wait for the commit at the
end of `reap()`: until then they are in `reaper[i].wrote`, invisible, and their
rows are locked (`Unlocked`). On Mongo (`Transactional = FALSE`) each is visible
at once. `Expire` and `Heartbeat` are the 45 s window: an instance in `Stalling`
may fall out of it while it lives. `Crash` clears the memory of a process in
`Mortal`; `Overlap = FALSE` restricts a home to one process at a time.

On one home a server may also meet a CLI run, which builds a queue of its own
and reaps (`LaunchCli`). `Next` is split into the steps of a process's threads
(start, submit, work, reap, drain) and its environment (heartbeats, expiry,
crashes).

Left out: what `pipeline.process` and `bind_code` do (a job succeeds or fails),
database errors, the events behind `wait`, SQLite's lock of the whole file (the
model locks rows, as Postgres does), and the reuse of a host's instance id.

The interleavings the code does not prevent are in the model, and no invariant
pretends otherwise. A url job of a live server is run a second time by a peer
that read the live list before it registered (`jobs.py:194`); a CLI run on a
home whose server missed its beats fails that server's uploads (`client.py:36`);
two servers pass the check of `_register_instance` together (`server.py:1136`);
a drain returns while a worker is between `_q.get` and `_running.add`
(`jobs.py:390`, `:125`), and `unregister` then hands its job to a peer.

## 4. RateEvents

`hits` and `blocked` are the two dictionaries of `_RateLimiter`, indexed by
bucket and window; `clock` is the current window. A request reads its window
(`server.py:79`) and counts under the lock in a later step. Reading the clock
and taking the lock may be apart, but by less than one window: `Tick` waits for
a request that still holds the window before. `Flush` is what a request
and the sweep both do: pop what is closed, then write one audit row for each,
of which any may fail. `PruneWorks = FALSE` is the sweep's `prune_audit` as it
is on the SQL backends: it raises, and the flush after it is skipped.

## 5. Images

A redacted image is an object and a row, a retained original is an object and a
row, and labels say whose it is. `processor` is `pipeline.process` and the
binding that follows; `pruner` is a pass over expired rows, of the sweep, of a
worker at the storage cap or of a read past the deadline; `deleter` is
`Client.delete`. One step is one store call, or the statements up to a commit.
`WorkerDies`, `PassDies` and `DeleteFails` end each of them anywhere, as a crash
or a failing store call does;
`Swallowed` is a store delete whose exception is caught.

A row's place in time is `due`. One profile is modelled, so an image has at
most one artifact and `seen` is the row the cache lookup returned. An object
counts as one byte towards the cap. A conflict of codes is a job that ends
without a label, as `Codes` has the rest. Each worker dies on its own, as if
each were a process of its own.

`Overlapping = FALSE` is an assumption about the environment: nobody prunes or
deletes an image while a worker writes that same image, and a job takes less
time than the shortest TTL (`config.py:251`, 60 s). The code does not ensure
it, so the invariants that need it are checked under it, and `SweepRace` shows
what happens without. Two more things happen only without it: an original
retained between the select and the `original_expire` of a sweep loses its path
although its object has been put (`originals.py:174`), and a tenant that labels
an image between another's `has_any_labels` and `delete_image` loses image and
label (`client.py:279`).

`debris` names what a crash or a swallowed error left and no code looks for
again: an object without its row (`"blob"`, `"source"`), and a row whose object a
deletion had taken when it broke off (`"row"`, `"original"`). A later write or
deletion of the same image takes an entry away. It exists for the properties:
`ObjectsAccounted` says that there is no other garbage, `LiveRowHasBlob` that
there is no other row without bytes.

## 6. Codes and Bindings

`Bindings` is what `spec/jobs-and-codes.md` promises: a code names one image
that was submitted under it, and is repointed only by a submission that asked
for it. `Codes` is the code: `submit`'s fast path reads the code's row, then
the artifact, then the artifact again, then writes; `bind_code` reads the row,
decides, then writes. A write and its commit are one step, since the row is
locked in between and what was written is rolled back with a crash. A code is a
tenant with an external id, the table's key. `artifacts` says of an image and a
profile whether there is a row, and whether its bytes can be served.

The refinement maps a submission to `Ask`, `insert_code` to `Bind`,
`repoint_code` to `Replace`, and deletions to `Forget`; touches and lookups
stutter.

Two things the properties have to allow, because the code does them. A touch is
by code: after a repoint it puts its own profile on the other image's row, and
reads by that code find no artifact until somebody touches it again
(`jobs.py:534`). A job that fails after `bind_code` commits the binding with
its failure (`jobs.py:454`). `stale` holds the codes this happened to.

## 7. Schema

A start runs `db.init` before it serves, and before the SQLite check for peers,
so CLI commands and servers may rebuild one file together. `starting` says where
each process is; `table`, `temp`, `column` and `index` are the database; `lock`
is Postgres' advisory lock or Mongo's lease document. On SQLite
`executescript` commits before it begins, so each statement of a rebuild (create
the copy, fill it, drop the table, rename) is on its own and a death between two
stays; on Postgres the columns are one transaction. On Mongo a lease older than
120 s is read in one call and deleted in the next, whoever holds it by then, and
a waiter goes on without it after 60 s. `LeaseAges` and `GiveUpWaiting` need a
holder that is dead or in `Slow`: for all others the limits are far away.

`lapsed` remembers that a lease was not waited for, `torn` that a SQLite rebuild
was cut short or had company. In both cases the code promises little: a start
may fail on a table that the other has dropped, and after a death between the
drop and the rename the rows are in `tags_new`, which the next start does not
look for (`db_sql.py:147`). They are still there, which is what `LabelsKept`
says. Two added columns stand for the eight; the backlog of thumbnails is left out.
`Script` is one step, although on SQLite the statements of the schema script
commit one by one: each only creates what is absent, so that a script that was
cut short is completed by the next start.

## 8. Labels

On Mongo every artifact carries a copy of its image's tags, metadata and codes,
which listings filter on, and no call waits for another. `claims` and `codeDocs`
are the collections, `lbl` the copy. A writer is a submission, a repoint or a
deletion; each of its calls is an action, and `WriterDies` ends it between any
two. `_sync_labels` is three actions: read the labels, read the codes, write.
`merge_tags` and `merge_metadata`, each with a sync of its own when it has
something to add, are one claim with one sync (`Merge`), or none
(`NothingToMerge`); `delete_image` also deletes thumbnails, the record of the
original and feedback, which no label or listing reads.

`Together = FALSE` keeps two writers off one image. With two, the one that read
first may write last, and the copy drifts until the next change of a label
(`db_mongo.py:189`); the code has nothing against it. `cut` names the images a
writer died on: they drift as well. `PointersHaveImage` holds after any death,
since the record of an image is written first and deleted last, but it too needs
one writer per image: a submission or a repoint that has found the record may
put a label on it after a deletion by another process has removed it.

## 9. Review and Moves

`Review` is one image with one row and one object. `object` is the set of
regions burned into the stored bytes, `record` the row. Editors, redactions, the
sweep and a deletion each go step by step, without any restriction on what they
overlap. A redaction's put and its row are two steps, and `torn` remembers that
the second did not follow the first: the process died, or its insert lost to
another's. Then the image is listed with regions that its bytes do not show, and
no code notices. An edit's put after a prune brings an object back to which no
row points any more, or a row that says it is expired.

`Moves` has the two stores, the bytes of an object as the number of the write
that made them, and runs of `migrate-blobs` that check, get, put and perhaps
drop one object after the other. `exact` and `whole` say whether a run has
copied everything and nothing has been written since. `Careful` is the operator
who flips only then. The server goes on writing and deleting in its own store,
and a run may stop anywhere. `BeginMove` lets runs at a time go one way only.

What the code allows and `BeginMove` leaves out: two opposite runs with
`--delete-source` can each drop the copy that the other relies on. What the model
has and no property forbids: an error of the source counts as missing and the
command still exits 0; S3's `exists` reads every error as absent, so an object
may be copied over newer bytes when the destination is the store in use;
originals are not copied at all (`main.py:375`).

## 10. What reads answer: Listing, Lookups, Keys

`Listing` is a walk over pages while rows come, go and change their labels or
sort key. A row's labels are pairs of a tenant and a value, and tags and metadata
are alike. `ShownSql` and `ShownMongo` are the two filters, and `BackendsAgree`
compares them in every state. Prefix filters are left out: SQL's `LIKE` takes
`%` and `_` as wildcards, Mongo's regular expression is escaped, and the two
differ there.

`Lookups` is one image with an artifact per profile and one code text per tenant.
An answer is a set of artifacts, as rows of one second have no order. On Mongo
a read sees only the newest `Window` (8) and may miss an older live one;
the checked instance has as many profiles as its window, two. Seen and not among the
properties: an operator's lookup by code does not name a tenant and takes any
(`client.py`); the local client reads bytes through the newest record, the remote
one through the live one first, so the two may disagree on an image whose newest
artifact has expired; and `download --code` ignores the profile the code is bound
to.

`Keys` is the table of keys, a file of exported records, and commands that read
ids and hashes before they insert. A key is told by its secret. On SQL the index
on the hash is unique. On Mongo it is not (`db_mongo.py:104`), and two imports at
a time can insert one key twice, of which a revocation then revokes one;
`MayStart` lets one command run at a time there.

## 11. Redaction, Sizing, Daemon

`Redaction` has two functions and no steps: every initial state is an input.
`Resolved` is `resolve_profile` with its gate, over every way a profile and a
request can give, omit or null a mode. `Low` and `High` are the patch that is
redacted, after truncation to pixels of the working copy, scaling back and
growth, in integers that keep every rounding of the code. Boxes that grow by less
than the roundings take may lose a pixel at the border; `BoxesAreCovered` states
from which growth on they do not. A `mode` of null and an absent one still hash
apart, as do a `min_aspect` of 0 and of null.

`Sizing` is `worker_budget`, `queue_budget_mb` and the two readings of the
machine that `JobQueue` makes. Bytes that HTTP threads hold before admission are
not counted by the code, nor here.

`Daemon` is the pid file, the servers that were started, the port and one command
at a time, each of which may be killed between its steps. A stranger may hold the
port, and its answer counts. Two `start`s at the same time can both spawn, which
is left out; so are reused pids. `stop` kills after 5 s a server whose drain may
take 20 s: `StopAnswers` has both, and the jobs that are left are those of a
crash in `Replicas`.

## 12. Runs

Every run checks the type invariant of what it runs. `MCServing`, `MCStores`,
`MCMetadata` and `MCSettles` hold several components that share no state: a
behaviour is one of them (`part`) and the others stand still, so such a run asks
of each exactly what a run of its own would. Constants with one name
(`Processor` and `Writer` and `Runner`, say) take the same model values.

| Run | Properties | Bounds | Distinct states |
|---|---|---|---|
| `Lone.cfg`, `MCReplicas` | `RunsOnce`, `NoLostJob`, `BytesCounted`, `PayloadsHeld` | one process at a time: a CLI run and a server that may crash, and a server that misses beats; two workers; a url job, an upload, an oversized upload; queue of 1, budget of 2 | 1.28 M |
| `Settles.cfg`, `MCSettles` | `JobsSettle` | a CLI run and a server that may crash, a server that stays; a url job and an upload | 105 k, both |
| | `DueIsPruned` | one image, two workers, a sweep, a reader, a deletion, one fault | |
| `Serving.cfg`, `MCServing` | `UploadHeldOnce`, `NoLostUpload`, `UploadsSettle` | two servers at once that miss beats while they live, one may crash; an upload | 78 k, all five |
| | `OneMigrator`, `StartsSucceed`, `StartsEnd`, `LabelsKept` | three starts, one on another host and slow; old, new or empty database; SQLite, Postgres, Mongo | |
| | `LimitExact`, `RefusedAccounted`, `BurstSurfaces` | two HTTP threads and the sweep, three windows, a limit of 1, two requests | |
| | `RecordedIsFound` | three servers started one after another, a stranger on the port | |
| | `AutoFits` | 19 sizes of memory around every step of the formulas, 4 of CPU | |
| `Stores.cfg`, `MCStores` | `LiveRowHasBlob`, `LiveOriginalHasSource`, `ObjectsAccounted`, `CapOvershoot`, `OthersKeepLabels` | two images, one of them stored; two workers, a sweep, a reader, a deletion; two jobs, one fault; a cap of 1 | 2.13 M, all four |
| | `ProjectionCurrent`, `PointersHaveImage` | two images, two tenants, one code, two writers, one death | |
| | `RegionsBurned` | two regions, an editor, two redactions, two rows, one fault | |
| | `MovesLoseNothing` | an object written twice, two runs of `migrate-blobs` | |
| `Metadata.cfg`, `MCMetadata` | `CodesKeepPromises`, `CodeNamesArtifact`, `DoneIsBound` | three submissions of one code, two images, two profiles, every policy | 758 k, all five |
| | `SteadyListedOnce`, `BackendsAgree` | three rows, two sort keys, two tenants, two values, pages of one, two changes | |
| | `RevokedStaysRevoked` | two secrets, three ids, two commands, another instance's export | |
| | `ReadsAgree` | two profiles, two tenants, one code text, three seconds | |
| | `ModesAreGated`, `BoxesAreCovered` | every way to give a mode; boxes on a grid of quarter pixels, 30 of the working copy for 50 of the image, two growths | |
| `LostAdoption.cfg` | `AdoptedIsQueued`, violated | two servers, a url job | section 15 |
| `RestartHang.cfg` | `StartCompletes`, violated | two url jobs for a queue of 1 | |
| `SweepStuck.cfg` | `BurstSurfaces`, violated | as in `Serving`, with SQL's pruning of audit rows | |
| `SweepRace.cfg` | `LiveRowHasBlob`, violated | one image, `Overlapping` | |
| `KeptOriginal.cfg` | `DeleteTakesOriginal`, violated | one image, no faults | |
| `LostMask.cfg` | `EditsOnlyMask`, violated | two regions, two editors | |
| `StaleCopy.cfg` | `FlipServesTheSame`, violated | an object written twice, one run at a time, a flip after a complete copy | |

Each property of a passing run has been seen to fail when one definition is
replaced by a form that a plausible bug would give it. The replaced forms stand
before the definitions, marked `Mutant`; `PROJECT.json` pairs them.

Why these bounds. In `Lone` a third process meets rows of two predecessors; a
queue of 1 with three jobs fills, a budget of 2 refuses a second upload and
admits the oversized one alone. In `Settles` the queue holds every url job,
because `start()` would hang otherwise (section 15). Two workers on two images
are two jobs on one image, or one past the cap check beside another; a cap of 1
with a stored image makes every job reclaim first. Three submissions of a code
are two that race and a third that moves the row between a lookup and a write.
Three starts are a holder of the lease, one that reads it as overdue, and one
that wins it before the second deletes it. Three rows on pages of one have a page
before, at and after the change. Two regions tell an edit from its predecessor.
Two runs of `migrate-blobs` overlap, and a third would only repeat the first.
`MaxJobs`, `MaxDeletes`, `MaxFaults`, `MaxDeaths`, `MaxRows`, `MaxSlips`,
`MaxVersions`, `MaxChanges`, `MaxPids`, `MaxSeconds`, `Last` and `MaxHits` bound
counters. Where a part may stop, or use up its bounds, deadlock is not checked;
`Lone` and `Settles` check it.

## 13. Fairness

Weak fairness of each thread that has begun: a worker, a request, a reaper, a
drain, a pass, a deletion and a migration go on, since the operating system
schedules threads and no step of theirs waits for more than a lock or a full
queue. A process that is started goes through `start()` (`StartStep`), and the 30 s
sweep comes round again, so reaping, `Sweep` and `SelectBlobs` are fair. A
heartbeat of a live process is fair, as its thread loops; so is the expiry of a
process that is gone, the ageing of a dead holder's lease (`LeaseAges`) and the
clock (`Tick`), as time passes. The hosts repeat the fairness of their parts,
and ask for what can be taken before anything has begun only in the part that
runs. Nothing is assumed of clients: submissions, reads and deletions may never
come, and crashes and failing calls need not happen. What others left is settled
by a process outside `Mortal`.

## 14. Proofs

Checked by TLAPS for all values of the constants, from the named `ASSUME`s of
each module.

- `ReplicasProofs`: `QueueTypeCorrect`; `UploadHeldOnceHolds`,
  `PayloadsHeldHolds`, `NoLostUploadHolds`. None of the three is inductive: an
  upload stays with its process only because its row says so, the process's
  queue and hands contain nothing else, and a reaper writes only to rows it has
  selected. `Custody` is the conjunction that is inductive: rows agree with
  submitters, every job's home serves it, dead processes hold nothing, reapers
  touch rows only, a finished submission has a settled or held job, and the three
  themselves. It assumes neither one process at a time nor timely heartbeats nor
  transactions, so it covers Mongo, where no run of the queue looks, and a CLI run
  beside a server, which the runs have only before or after one.
  `BytesCountedHolds` rests on it: `release` cuts the counter off at zero and an
  admission adds without looking, so the counter is the sum of the payloads only
  because an upload is admitted once and released with the bytes it came with.
  `NoLostJobHolds` and `RunsOnceHolds` assume `~Overlap`, one process of a home at
  a time; with two of them both are false (the `LostAdoption` run, and a url job
  that a peer runs a second time, section 3). `Custody` says nothing of
  jobs the reaper adopts, so `Tenure` does: each job has one custodian, who lives
  and owns the row or has the row's update in his open transaction; what a reaper
  has selected or written is nobody's work; and whoever is at the end of a job has
  settled its row. It needs no transactions either.
- `ServingProofs`: `LimiterTypeCorrect`, `LimitExactHolds`. The limit is exact
  only if `_gc` never forgets a window a request can still count in; that
  conjunct (`HitsKept`) makes it inductive, and rests on a request taking less
  than a window between its clock read and the lock. `RefusedAccountedHolds`:
  `Accounted` adds that a thread which takes counts has written all it took
  before, and says what each flusher holds as a sum over the flushers.
  `RecordedIsFoundHolds`: `OnRecord` says what the running command knows of the
  pid file at each of its steps, and that pids are used in order.
  `AutoFitsHolds`: `Sized` says that each of the two sizes either fits the
  reading it was made from or is the least there is; that the two fit together
  the larger reading is arithmetic on top of it.
- `ImagesProofs`: `ImagesTypeCorrect`, `CapOvershootHolds`. The bound is inductive
  once it counts jobs past the check; the lemmas say what a release, an
  admission and a write do to the two cardinalities. Under `~Overlapping`, which
  is a hypothesis of these four theorems: `LiveRowHasBlobHolds`,
  `LiveOriginalHasSourceHolds`, `ObjectsAccountedHolds`, `OthersKeepLabelsHolds`.
  The guards that make up `~Overlapping` look at one moment; `Apart` says that
  work on an image stays apart once it has begun, except for a worker that prunes
  its own image on the way to room for it. On top of it `Blobs` and `Sources` say
  what each thread knows between its steps: what a job has put is still there,
  what a pass is about to delete is not live, and a row that appeared since a
  job's lookup is live, so that the job may serve it instead of its own.
  `Unlabelled` says that a scoped deletion past its look has left no label.
- `StoresProofs`: `LabelsTypeCorrect`; `ProjectionCurrentHolds` and
  `PointersHaveImageHolds`, under `~Together`, one writer of an image at a time
  (two can leave the older copy, section 8). `Filed` is inductive: where the
  copy of an image differs from the tables and no writer has died on it, a
  writer owes the sync; what a sync has read is still so; and the image a code
  has left is the one the repoint still has to sync. `ReviewTypeCorrect`, and
  under `OneEditor` (two edits lose a mask, `LostMask`) `RegionsBurnedHolds`:
  `Marked` says that an edit either still has the row it began with, and then its
  bytes contain what that row lists, or finds a newer row, which its update by id
  does not touch. `MovesLoseNothingHolds`: `Copied` adds that runs at a time go
  one way, that a drop follows a put that is still there, and that an exact run
  has yet to look at whatever its destination lacks.
- `CodesProofs`: `CodesTypeCorrect`, `MemoryHolds`, `NoSpuriousConflictHolds`,
  `CodeNamesArtifactHolds`, `DoneIsBoundHolds` and the refinement
  `CodesImplementBindings`. `Memory` says what a job that is about to write has
  read, and that everything read was submitted. `NoSpuriousConflict` is only
  proved; no run checks it.
- `SchemaProofs`: `SchemaTypeCorrect`, `CopyOwnedHolds`, `LabelsKeptHolds`,
  `OneMigratorHolds`, `StartsSucceedHolds`. `LabelsKept` needs that what a process
  drops is what it has copied: a copy is created only where there is none, so it
  has one maker at a time, on SQLite too, where nothing locks. `OneMigrator` needs
  `Guarded`: who works on the schema holds the lock, and a lease is overdue or
  about to be stolen only once it has lapsed. `StartsSucceed` needs `Orderly`: as
  long as nobody was disturbed, what a start has read of the schema is what it
  finds when its statement comes, and a schema at rest is one the code can
  migrate from, also where a start died in any statement but a rebuild's.
- `MetadataProofs`: `RevokedStaysRevokedHolds`. A revocation reaches one record, so
  a key must have no second one (`OneRecord`): by the unique index on SQL, and by
  there being one command at a time on Mongo, which then has read every hash it
  might insert again. `SteadyListedOnceHolds`: `Walked` says that of the rows that
  stand still just those that match and lie behind the cursor have been shown,
  once; rows with equal sort keys are told apart by their ids, and the cursor's own
  row may be gone. `BackendsAgreeHolds` and `ReadsAgreeHolds` compare the operators
  of the two backends; the second assumes that the window of `_live_first` takes in
  every artifact of an image (`WindowSeesAll`; eight profiles of one image in the
  code), since beyond it Mongo may answer with an expired one, and rests on a
  tenant's code being bound to one processing (`BoundOnce`).
  `ModesAreGatedHolds` and `BoxesAreCoveredHolds` hold of every input of the right
  type; the second bounds what each of the three roundings can take from a box.
- `Sums`: a sum over a finite set is defined by the community modules through a
  recursive function, which has to be shown to exist and to be the only one. The
  lemmas do without induction over data: among the subsets on which two tables
  differ, or for which there is none, there is a smallest one
  (`SmallestSubset`, from the strict subset order of a finite set being well
  founded). `SumSplit`, `SumChanged` and `SumIsNat` are what the other proofs use.
- The compositions. `ServingIsItsParts`, `StoresIsItsParts` and
  `MetadataIsItsParts`: a behaviour that a run checks is one of each part's own
  specification, so that what is proved of a part holds in the run, whichever
  part moves; and with them `ServingTypeCorrect`, `StoresTypeCorrect` and
  `MetadataTypeCorrect`. The part of `MCMetadata` that stands still does so in one
  of its initial states, for which there must be one (`PartsAssumption`).

The hypotheses (`~Overlap`, `~Overlapping`, `~Together`, `OneEditor`,
`WindowSeesAll`) restrict how the program is used, as the passing runs do, and the
code enforces none of them: nothing keeps a peer, a sweep, a second writer or a
second edit away. Each has behaviours that meet it, a deployment of one process
that handles an image once at a time, and each is needed: `LostAdoption`,
`SweepRace` and `LostMask` break the property without it, and sections 8 and 10
say how the other two fail.

Only model-checked: liveness (`JobsSettle`, `UploadsSettle`, `DueIsPruned`,
`BurstSurfaces`, `StartsEnd`), which is beyond the prover. No `ENABLED` is proved,
and nothing about recursive definitions but the sums.

## 15. Disagreements found

Seven runs end in a counterexample.

- `LostAdoption.cfg`: a starting peer reads the live list, then a server registers
  and takes a url job, then the peer selects the orphans, the job among them. It
  adopts the job of a live owner and runs it to its end. The owner's worker had
  found the row unfinished and marks it running now: `mark_job_running`
  (`db_sql.py:875`) asks neither for the status nor for the owner. The owner
  crashes, and the row stays "running", owned by the peer and in nobody's memory;
  no reap selects it while the peer lives. One reaper is enough, and its
  transaction does not help: what undoes its work comes after the commit.
- `RestartHang.cfg`: `start()` reaps before it has workers, and `reap` puts
  with a blocking put. More orphaned url jobs than `queue_max` and the process
  never starts.
- `SweepStuck.cfg`: `audit_prune` raises `NameError` on the SQL backends, so the
  sweep never reaches the flush of rate events, nor are audit rows pruned.
- `SweepRace.cfg`: a sweep deletes, by path, the object a job has just put.
- `KeptOriginal.cfg`: a DELETE of an image whose artifact was pruned answers 404
  and leaves its live original.
- `LostMask.cfg`: of two edits that read the same object, the later put drops the
  earlier mask, and what it covered is served again.
- `StaleCopy.cfg`: an object rewritten after it was copied is skipped by every
  later `migrate-blobs`, which reports a complete copy; the flip serves the bytes
  from before.

Met on the way, in the model or in the sections above, without a run of its own:
opposite runs of `migrate-blobs`, and originals that are never copied (9); a
reprocessing that dies after its put leaves fewer masks than its row lists, and
an edit's put brings a pruned object back (9); the copy of the labels drifts
when two writers share an image (8); the hash of a key is not unique on Mongo
(10); a SQLite rebuild cut short leaves rows where no start looks, and a CLI
command migrates before any check for peers (7); two waiters may delete a lease
that a third has just won (7); two daemons started at once, and a SIGKILL after
5 s of a drain that may take 20 s (11); the two clients serve different bytes of
an image whose newest artifact has expired (10).

## 16. Not modelled

- Detection, redaction and encoding of pixels, and the models: numeric code of
  OpenCV and ONNX. Their geometry is in `Redaction`.
- Fetching, HTTP parsing and routing, the thread pool, the disk guard, errors,
  output, canonical JSON, the guide, image feedback: I/O, formatting, or one
  statement on rows nothing else reads.
- The dashboard and the relay sidecar: clients of the API.
- Database errors of the queue (`jobs.py:394`), and what a failed statement does
  to a thread's cached connection outside migrations (`db_sql.py:152`).
- `config set`'s read, modify and write of a file, the race of two processes on
  the originals' secret, the backlog of thumbnails, facets and statistics, prefix
  filters, parsing of a scope.
- Parts of modelled components that are left out are named in their sections and
  in `PROJECT.json`.
