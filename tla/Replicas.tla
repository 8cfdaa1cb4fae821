------------------------------ MODULE Replicas ------------------------------
(***************************************************************************)
(* The job queue of src/jobs.py in every process that shares one metadata  *)
(* store: submission, the worker threads, the reaper that reclaims the     *)
(* jobs of dead owners, the heartbeat that says who is alive, the drain    *)
(* on SIGTERM, and the crash that takes a process's memory with it.        *)
(*                                                                         *)
(* Only `status`, `owner` and `live` are in the database. Everything else  *)
(* is the memory of one process and disappears with it. A reaper of the    *)
(* SQL backends writes inside one transaction: until its commit nobody     *)
(* sees the rows it wrote and nobody else can write them.                  *)
(***************************************************************************)
EXTENDS Integers, Sequences, FiniteSets, FiniteSetsExt

CONSTANTS
    Instance,       \* process identities; every start mints a new one
    Cli,            \* those that are bare CLI runs: they never register
    Mortal,         \* those that may crash or be told to stop
    Job,
    Uploads,        \* the jobs with source_kind "stream"; the others are "url"
    Size,           \* bytes of a job's payload
    Worker,         \* worker threads of one process
    None,
    QueueMax,       \* cfg queue_max
    MaxBytes,       \* cfg queue_max_bytes
    Shareable,      \* dialect.shareable: FALSE on SQLite
    Transactional,  \* the reaper's writes wait for its commit: FALSE on Mongo
    Overlap,        \* the deployment may run two processes at once
    Stalling        \* processes that may miss heartbeats while they live

ASSUME SetsAssumption ==
    /\ {Cli, Mortal, Stalling} \subseteq SUBSET Instance
    /\ Uploads \subseteq Job
    /\ None \notin Instance /\ None \notin Job

ASSUME SizesAssumption ==
    /\ QueueMax \in Nat \ {0} /\ MaxBytes \in Nat \ {0}
    /\ Size \in [Job -> Nat]
    /\ \A j \in Job : Size[j] > 0 <=> j \in Uploads

ASSUME FlagsAssumption ==
    {Shareable, Transactional, Overlap} \subseteq BOOLEAN

VARIABLES
    status,       \* jobs.status
    owner,        \* jobs.owner_id
    live,         \* rows of `instances` that live_instances() returns
    proc,         \* where the main thread of each process is
    queue,        \* JobQueue._q
    payloads,     \* keys of JobQueue._payloads
    queuedBytes,  \* JobQueue._queued_bytes
    running,      \* JobQueue._running
    worker,       \* worker threads: position in _worker/_run, job in hand
    submitter,    \* the HTTP thread inside submit(): its position
    home,         \* the process whose submit() took the job
    reaper        \* the reaper: position in reap() and what it has read

database == <<status, owner, live>>
memory   == <<queue, payloads, queuedBytes, running>>
vars     == <<database, proc, memory, worker, submitter, home, reaper>>

-----------------------------------------------------------------------------

Unfinished == {"queued", "running"}
Settled    == {"done", "failed"}

ProcState      == {"off", "checked", "starting", "up", "draining", "idleSeen",
                   "stopped", "exiting", "gone"}
Hands          == [pc : {"idle", "ended"}, job : {None}] \union
                  [pc : {"got", "claimed", "found", "working", "finish"},
                   job : Job]
SubmitterState == {"new", "checked", "inserted", "admitted", "refusing",
                   "accepted", "refused"}

NoReap    == [pc |-> "idle", live |-> {}, rows |-> {}, put |-> None,
              wrote |-> {}]
FreeHands == [w \in Worker |-> [pc |-> "idle", job |-> None]]

TypeOK ==
    /\ status \in [Job -> {"absent"} \union Unfinished \union Settled]
    /\ owner \in [Job -> Instance \union {None}]
    /\ live \subseteq Instance
    /\ proc \in [Instance -> ProcState]
    /\ queue \in [Instance -> Seq(Job)]
    /\ payloads \in [Instance -> SUBSET Job]
    /\ queuedBytes \in [Instance -> Nat]
    /\ running \in [Instance -> SUBSET Job]
    /\ worker \in [Instance -> [Worker -> Hands]]
    /\ submitter \in [Job -> SubmitterState]
    /\ home \in [Job -> Instance \union {None}]
    /\ \A j \in Job : submitter[j] # "new" => home[j] \in Instance
    /\ reaper \in [Instance -> [pc : {"idle", "select", "act"},
                                live : SUBSET Instance,
                                rows : SUBSET Job,
                                put : Job \union {None},
                                wrote : SUBSET Job]]

Init ==
    /\ status = [j \in Job |-> "absent"]
    /\ owner = [j \in Job |-> None]
    /\ live = {}
    /\ proc = [i \in Instance |-> "off"]
    /\ queue = [i \in Instance |-> <<>>]
    /\ payloads = [i \in Instance |-> {}]
    /\ queuedBytes = [i \in Instance |-> 0]
    /\ running = [i \in Instance |-> {}]
    /\ worker = [i \in Instance |-> FreeHands]
    /\ submitter = [j \in Job |-> "new"]
    /\ home = [j \in Job |-> None]
    /\ reaper = [i \in Instance |-> NoReap]

-----------------------------------------------------------------------------

Alive(i)   == proc[i] \notin {"off", "checked", "gone"}

\* _stop is not set yet: worker and reaper loops go round again.
Looping(i) == proc[i] \in {"up", "draining", "idleSeen"}

\* The worker threads exist: start() has returned.
Staffed(i) == Alive(i) /\ proc[i] # "starting"

\* No other connection's open reap transaction holds the row's write lock.
Unlocked(j)        == \A k \in Instance : j \notin reaper[k].wrote
UnlockedFor(i, j)  == \A k \in Instance \ {i} : j \notin reaper[k].wrote

InQueue(i, j) == \E n \in 1..Len(queue[i]) : queue[i][n] = j
InHand(i, j)  == \E w \in Worker : worker[i][w].job = j
Holds(i, j)   == InQueue(i, j) \/ InHand(i, j)

OnceInQueue(i, j) == \A m, n \in 1..Len(queue[i]) :
                        queue[i][m] = j /\ queue[i][n] = j => m = n
OnceInHand(i, j)  == \A v, w \in Worker :
                        worker[i][v].job = j /\ worker[i][w].job = j => v = w

At(i, w, pc)  == worker[i][w].pc = pc
Hold(i, w, pc, j) == worker' = [worker EXCEPT ![i][w] = [pc |-> pc, job |-> j]]
Advance(i, w, pc) == Hold(i, w, pc, worker[i][w].job)

Reap(i, pc, alive, rows, put, wrote) ==
    reaper' = [reaper EXCEPT ![i] = [pc |-> pc, live |-> alive, rows |-> rows,
                                     put |-> put, wrote |-> wrote]]

-----------------------------------------------------------------------------
(* Starting, heartbeats, crashes: BlurdServer.__init__, _register_instance *)

Lone(i) == Overlap \/ \A k \in Instance \ {i} : proc[k] \in {"off", "gone"}

\* The peers are read, and a second process on a SQLite home is refused.
CheckPeers(i) ==
    /\ proc[i] = "off" /\ i \notin Cli /\ Lone(i)
    /\ Shareable \/ live = {}
    /\ proc' = [proc EXCEPT ![i] = "checked"]
    /\ UNCHANGED <<database, memory, worker, submitter, home, reaper>>

\* Only then is this instance's own row inserted.
Register(i) ==
    /\ proc[i] = "checked"
    /\ proc' = [proc EXCEPT ![i] = "starting"]
    /\ live' = live \union {i}
    /\ UNCHANGED <<status, owner, memory, worker, submitter, home, reaper>>

\* A local client builds a queue of its own and registers nothing.
LaunchCli(i) ==
    /\ proc[i] = "off" /\ i \in Cli /\ Lone(i)
    /\ proc' = [proc EXCEPT ![i] = "starting"]
    /\ UNCHANGED <<database, memory, worker, submitter, home, reaper>>

\* The row of a dead process, or of one that missed its beats, goes stale.
Expire(i) ==
    /\ i \in live
    /\ i \in Stalling \/ proc[i] = "gone"
    /\ live' = live \ {i}
    /\ UNCHANGED <<status, owner, proc, memory, worker, submitter, home,
                   reaper>>

\* A late beat brings the row back, until unregister has deleted it.
Heartbeat(i) ==
    /\ Alive(i) /\ proc[i] # "exiting" /\ i \notin Cli /\ i \notin live
    /\ live' = live \union {i}
    /\ UNCHANGED <<status, owner, proc, memory, worker, submitter, home,
                   reaper>>

\* A process ends: its threads, its memory and its open transaction with it.
Die(i) ==
    /\ proc' = [proc EXCEPT ![i] = "gone"]
    /\ queue' = [queue EXCEPT ![i] = <<>>]
    /\ payloads' = [payloads EXCEPT ![i] = {}]
    /\ queuedBytes' = [queuedBytes EXCEPT ![i] = 0]
    /\ running' = [running EXCEPT ![i] = {}]
    /\ worker' = [worker EXCEPT ![i] = FreeHands]
    /\ reaper' = [reaper EXCEPT ![i] = NoReap]
    /\ UNCHANGED <<database, submitter, home>>

Crash(i) == i \in Mortal /\ Alive(i) /\ Die(i)

-----------------------------------------------------------------------------
(* submit(), on an HTTP thread of the process that took the request.       *)

\* The draining check. A code hit, a full disk or a bad request ends here
\* too, without a job.
Arrive(i, j) ==
    /\ submitter[j] = "new" /\ proc[i] = "up"
    /\ submitter' = [submitter EXCEPT ![j] = "checked"]
    /\ home' = [home EXCEPT ![j] = i]
    /\ UNCHANGED <<database, proc, memory, worker, reaper>>

InsertJob(j) ==
    /\ submitter[j] = "checked" /\ Alive(home[j])
    /\ submitter' = [submitter EXCEPT ![j] = "inserted"]
    /\ status' = [status EXCEPT ![j] = "queued"]
    /\ owner' = [owner EXCEPT ![j] = home[j]]
    /\ UNCHANGED <<live, proc, memory, worker, home, reaper>>

Admits(i, j) ==
    \/ Size[j] = 0
    \/ queuedBytes[i] = 0
    \/ queuedBytes[i] + Size[j] <= MaxBytes

\* Mutants: the two halves of a release drift apart.
ReleaseWithoutBytes(i, j) ==
    /\ payloads' = [payloads EXCEPT ![i] = @ \ {j}]
    /\ UNCHANGED queuedBytes

ReleaseWithoutPop(i, j) ==
    /\ UNCHANGED payloads
    /\ queuedBytes' = IF j \in payloads[i]
                      THEN [queuedBytes EXCEPT ![i] =
                               IF @ >= Size[j] THEN @ - Size[j] ELSE 0]
                      ELSE queuedBytes

ReleasePayload(i, j) ==
    /\ payloads' = [payloads EXCEPT ![i] = @ \ {j}]
    /\ queuedBytes' = IF j \in payloads[i]
                      THEN [queuedBytes EXCEPT ![i] =
                               IF @ >= Size[j] THEN @ - Size[j] ELSE 0]
                      ELSE queuedBytes

\* Admission and reservation are one critical section.
Admit(j) ==
    LET i == home[j] IN
    /\ submitter[j] = "inserted" /\ Alive(i)
    /\ Admits(i, j)
    /\ submitter' = [submitter EXCEPT ![j] = "admitted"]
    /\ IF j \in Uploads
       THEN /\ payloads' = [payloads EXCEPT ![i] = @ \union {j}]
            /\ queuedBytes' = [queuedBytes EXCEPT ![i] = @ + Size[j]]
       ELSE UNCHANGED <<payloads, queuedBytes>>
    /\ UNCHANGED <<database, proc, queue, running, worker, home, reaper>>

OverBudget(j) ==
    /\ submitter[j] = "inserted" /\ Alive(home[j])
    /\ ~Admits(home[j], j)
    /\ submitter' = [submitter EXCEPT ![j] = "refusing"]
    /\ UNCHANGED <<database, proc, memory, worker, home, reaper>>

PutNowait(j) ==
    LET i == home[j] IN
    /\ submitter[j] = "admitted" /\ Alive(i)
    /\ Len(queue[i]) < QueueMax
    /\ queue' = [queue EXCEPT ![i] = Append(@, j)]
    /\ submitter' = [submitter EXCEPT ![j] = "accepted"]
    /\ UNCHANGED <<database, proc, payloads, queuedBytes, running, worker,
                   home, reaper>>

QueueFull(j) ==
    LET i == home[j] IN
    /\ submitter[j] = "admitted" /\ Alive(i)
    /\ Len(queue[i]) >= QueueMax
    /\ ReleasePayload(i, j)
    /\ submitter' = [submitter EXCEPT ![j] = "refusing"]
    /\ UNCHANGED <<database, proc, queue, running, worker, home, reaper>>

\* The row is failed, then the producer hears 503.
Reject(j) ==
    /\ submitter[j] = "refusing" /\ Alive(home[j]) /\ Unlocked(j)
    /\ status' = [status EXCEPT ![j] = "failed"]
    /\ submitter' = [submitter EXCEPT ![j] = "refused"]
    /\ UNCHANGED <<owner, live, proc, memory, worker, home, reaper>>

-----------------------------------------------------------------------------
(* _worker() and _run().                                                   *)

\* The blocking get of an idle worker; one may still return after _stop.
GetJob(i, w) ==
    /\ Staffed(i) /\ At(i, w, "idle") /\ queue[i] # <<>>
    /\ Hold(i, w, "got", Head(queue[i]))
    /\ queue' = [queue EXCEPT ![i] = Tail(@)]
    /\ UNCHANGED <<database, proc, payloads, queuedBytes, running, submitter,
                   home, reaper>>

Claim(i, w) ==
    /\ At(i, w, "got")
    /\ running' = [running EXCEPT ![i] = @ \union {worker[i][w].job}]
    /\ Advance(i, w, "claimed")
    /\ UNCHANGED <<database, proc, queue, payloads, queuedBytes, submitter,
                   home, reaper>>

\* find_job: a row that is already settled is skipped.
FindJob(i, w) ==
    /\ At(i, w, "claimed")
    /\ Advance(i, w, IF status[worker[i][w].job] \in Unfinished
                     THEN "found" ELSE "finish")
    /\ UNCHANGED <<database, proc, memory, submitter, home, reaper>>

MarkRunning(i, w) ==
    LET j == worker[i][w].job IN
    /\ At(i, w, "found") /\ Unlocked(j)
    /\ status' = [status EXCEPT ![j] = "running"]
    /\ Advance(i, w, "working")
    /\ UNCHANGED <<owner, live, proc, memory, submitter, home, reaper>>

\* pipeline.process and bind_code succeed; an upload needs its bytes.
MarkDone(i, w) ==
    LET j == worker[i][w].job IN
    /\ At(i, w, "working") /\ Unlocked(j)
    /\ j \in Uploads => j \in payloads[i]
    /\ status' = [status EXCEPT ![j] = "done"]
    /\ Advance(i, w, "finish")
    /\ UNCHANGED <<owner, live, proc, memory, submitter, home, reaper>>

\* Mutant: _fail without the commit that follows it.
FailUncommitted(i, w) ==
    /\ At(i, w, "working") /\ Unlocked(worker[i][w].job)
    /\ Advance(i, w, "finish")
    /\ UNCHANGED <<database, proc, memory, submitter, home, reaper>>

\* Anything that raises: a fetch, a decode, a conflict, the missing bytes.
MarkFailed(i, w) ==
    LET j == worker[i][w].job IN
    /\ At(i, w, "working") /\ Unlocked(j)
    /\ status' = [status EXCEPT ![j] = "failed"]
    /\ Advance(i, w, "finish")
    /\ UNCHANGED <<owner, live, proc, memory, submitter, home, reaper>>

\* Mutant: the worker goes back to get() with the job still in its hands.
FinishUnreset(i, w) ==
    LET j == worker[i][w].job IN
    /\ At(i, w, "finish")
    /\ running' = [running EXCEPT ![i] = @ \ {j}]
    /\ ReleasePayload(i, j)
    /\ Advance(i, w, IF Looping(i) THEN "idle" ELSE "ended")
    /\ UNCHANGED <<database, proc, queue, submitter, home, reaper>>

\* The finally block. The thread ends here if _stop was set meanwhile.
Finish(i, w) ==
    LET j == worker[i][w].job IN
    /\ At(i, w, "finish")
    /\ running' = [running EXCEPT ![i] = @ \ {j}]
    /\ ReleasePayload(i, j)
    /\ Hold(i, w, IF Looping(i) THEN "idle" ELSE "ended", None)
    /\ UNCHANGED <<database, proc, queue, submitter, home, reaper>>

\* The get timed out with _stop set.
EndWorker(i, w) ==
    /\ Staffed(i) /\ ~Looping(i) /\ At(i, w, "idle")
    /\ Advance(i, w, "ended")
    /\ UNCHANGED <<database, proc, memory, submitter, home, reaper>>

-----------------------------------------------------------------------------
(* reap(): once inside start(), before any worker exists, then every 30 s. *)

\* live_instances(), plus this instance whatever the table says.
ReadLive(i) ==
    /\ reaper[i].pc = "idle" /\ (Looping(i) \/ proc[i] = "starting")
    /\ Reap(i, "select", live \union {i}, {}, None, {})
    /\ UNCHANGED <<database, proc, memory, worker, submitter, home>>

\* Mutants: everything unfinished whoever owns it, as one process once did;
\* queued rows only.
AllUnfinished(alive) == {j \in Job : status[j] \in Unfinished}

OrphanedQueued(alive) ==
    {j \in Job : status[j] = "queued" /\ owner[j] \notin alive}

OrphanedJobs(alive) ==
    {j \in Job : status[j] \in Unfinished /\ owner[j] \notin alive}

SelectOrphans(i) ==
    /\ reaper[i].pc = "select"
    /\ Reap(i, "act", {}, OrphanedJobs(reaper[i].live), None, {})
    /\ UNCHANGED <<database, proc, memory, worker, submitter, home>>

\* The writes of i's reaper to the rows S become visible: an adopted url job
\* is queued under i, an upload whose bytes are lost is failed.
Publish(i, S) ==
    /\ status' = [j \in Job |-> IF j \notin S THEN status[j]
                                ELSE IF j \in Uploads THEN "failed"
                                     ELSE "queued"]
    /\ owner' = [j \in Job |-> IF j \in S \ Uploads THEN i ELSE owner[j]]

\* Mutants: the row is requeued and never put; an upload is put like a url.
ReclaimWithoutPut(i, j) ==
    /\ reaper[i].pc = "act" /\ reaper[i].put = None
    /\ j \in reaper[i].rows /\ UnlockedFor(i, j)
    /\ Publish(i, IF Transactional THEN {} ELSE {j})
    /\ Reap(i, "act", {}, reaper[i].rows \ {j}, None,
            reaper[i].wrote \union (IF Transactional THEN {j} ELSE {}))
    /\ UNCHANGED <<live, proc, memory, worker, submitter, home>>

ReclaimAnyKind(i, j) ==
    /\ reaper[i].pc = "act" /\ reaper[i].put = None
    /\ j \in reaper[i].rows /\ UnlockedFor(i, j)
    /\ Publish(i, IF Transactional THEN {} ELSE {j})
    /\ Reap(i, "act", {}, reaper[i].rows \ {j}, j,
            reaper[i].wrote \union (IF Transactional THEN {j} ELSE {}))
    /\ UNCHANGED <<live, proc, memory, worker, submitter, home>>

\* One UPDATE by id, whatever the row has become since it was selected.
ReclaimRow(i, j) ==
    /\ reaper[i].pc = "act" /\ reaper[i].put = None
    /\ j \in reaper[i].rows /\ UnlockedFor(i, j)
    /\ Publish(i, IF Transactional THEN {} ELSE {j})
    /\ Reap(i, "act", {}, reaper[i].rows \ {j},
            IF j \in Uploads THEN None ELSE j,
            reaper[i].wrote \union (IF Transactional THEN {j} ELSE {}))
    /\ UNCHANGED <<live, proc, memory, worker, submitter, home>>

\* The put that blocks while the queue is full, the transaction still open.
PutAdopted(i) ==
    /\ reaper[i].put # None /\ Len(queue[i]) < QueueMax
    /\ queue' = [queue EXCEPT ![i] = Append(@, reaper[i].put)]
    /\ Reap(i, "act", {}, reaper[i].rows, None, reaper[i].wrote)
    /\ UNCHANGED <<database, proc, payloads, queuedBytes, running, worker,
                   submitter, home>>

\* The commit; at start() the workers are spawned next.
CommitReap(i) ==
    /\ reaper[i].pc = "act" /\ reaper[i].rows = {} /\ reaper[i].put = None
    /\ Publish(i, reaper[i].wrote)
    /\ reaper' = [reaper EXCEPT ![i] = NoReap]
    /\ proc' = [proc EXCEPT ![i] = IF @ = "starting" THEN "up" ELSE @]
    /\ UNCHANGED <<live, memory, worker, submitter, home>>

-----------------------------------------------------------------------------
(* SIGTERM: BlurdServer.shutdown() and JobQueue.stop().                    *)

BeginDrain(i) ==
    /\ i \in Mortal \ Cli /\ proc[i] = "up"
    /\ proc' = [proc EXCEPT ![i] = "draining"]
    /\ UNCHANGED <<database, memory, worker, submitter, home, reaper>>

\* The drain loop looks at _running first ...
SeeNoneRunning(i) ==
    /\ proc[i] = "draining" /\ running[i] = {}
    /\ proc' = [proc EXCEPT ![i] = "idleSeen"]
    /\ UNCHANGED <<database, memory, worker, submitter, home, reaper>>

\* ... and at _q next.
SeeQueue(i) ==
    /\ proc[i] = "idleSeen"
    /\ proc' = [proc EXCEPT ![i] = IF queue[i] = <<>> THEN "stopped"
                                                      ELSE "draining"]
    /\ UNCHANGED <<database, memory, worker, submitter, home, reaper>>

DrainDeadline(i) ==
    /\ proc[i] = "draining"
    /\ proc' = [proc EXCEPT ![i] = "stopped"]
    /\ UNCHANGED <<database, memory, worker, submitter, home, reaper>>

Unregister(i) ==
    /\ proc[i] = "stopped"
    /\ proc' = [proc EXCEPT ![i] = "exiting"]
    /\ live' = live \ {i}
    /\ UNCHANGED <<status, owner, memory, worker, submitter, home, reaper>>

Exit(i) == proc[i] = "exiting" /\ Die(i)

-----------------------------------------------------------------------------

StartStep(i)     == CheckPeers(i) \/ Register(i) \/ LaunchCli(i)
SubmitStep(j)    == \/ InsertJob(j) \/ Admit(j) \/ OverBudget(j)
                    \/ PutNowait(j) \/ QueueFull(j) \/ Reject(j)
WorkerStep(i, w) == \/ GetJob(i, w) \/ Claim(i, w) \/ FindJob(i, w)
                    \/ MarkRunning(i, w) \/ MarkDone(i, w) \/ MarkFailed(i, w)
                    \/ Finish(i, w) \/ EndWorker(i, w)
ReapStep(i)      == \/ ReadLive(i) \/ SelectOrphans(i)
                    \/ \E j \in Job : ReclaimRow(i, j)
                    \/ PutAdopted(i) \/ CommitReap(i)
DrainStep(i)     == \/ SeeNoneRunning(i) \/ SeeQueue(i) \/ DrainDeadline(i)
                    \/ Unregister(i) \/ Exit(i)

Next ==
    \/ \E i \in Instance :
          \/ StartStep(i) \/ Expire(i) \/ Heartbeat(i) \/ Crash(i)
          \/ ReapStep(i) \/ BeginDrain(i) \/ DrainStep(i)
          \/ \E w \in Worker : WorkerStep(i, w)
          \/ \E j \in Job : Arrive(i, j)
    \/ \E j \in Job : SubmitStep(j)

Spec == Init /\ [][Next]_vars

\* Threads that can move do move, a started drain ends, a stale row is seen
\* to be stale, and an instance outside Mortal is started in the end.
Fairness ==
    /\ \A i \in Instance : /\ WF_vars(StartStep(i)) /\ WF_vars(ReapStep(i))
                           /\ WF_vars(DrainStep(i)) /\ WF_vars(Heartbeat(i))
                           /\ WF_vars(proc[i] = "gone" /\ Expire(i))
                           /\ \A w \in Worker : WF_vars(WorkerStep(i, w))
    /\ \A j \in Job : WF_vars(SubmitStep(j))

FairSpec == Spec /\ Fairness
-----------------------------------------------------------------------------
(* Properties that hold however many processes share the database, and     *)
(* whatever their heartbeats do.                                            *)

\* An upload is in one place at a time, and only in the process that took
\* its bytes: one position of its _q or one worker's hands. Reaping by peers,
\* stale heartbeats and restarts never give it a second runner.
UploadHeldOnce ==
    \A j \in Uploads, i \in Instance :
        /\ Holds(i, j) => submitter[j] = "accepted" /\ home[j] = i
        /\ ~(InQueue(i, j) /\ InHand(i, j))
        /\ OnceInQueue(i, j) /\ OnceInHand(i, j)

\* Bytes are held in memory exactly as long as somebody will use them: from
\* admission until the worker is done. A payload without a holder would leak
\* budget until every upload is refused; a holder without its payload would
\* fail with "Uploaded bytes are no longer available".
PayloadsHeld ==
    \A i \in Instance, j \in Uploads :
        j \in payloads[i] <=> \/ home[j] = i /\ Alive(i)
                                 /\ submitter[j] = "admitted"
                              \/ Holds(i, j)

\* No accepted upload is forgotten: while the row says queued or running and
\* its owner is alive, that process still has it in submit(), in its queue or
\* in a worker's hands.
NoLostUpload ==
    \A j \in Uploads :
        status[j] \in Unfinished /\ Alive(owner[j]) =>
            \/ submitter[j] \in {"inserted", "admitted", "refusing"}
            \/ Holds(owner[j], j)

\* What makes the three inductive. An upload has a row from insert_job on, and
\* the row's owner is the process that took it.
RowsMatchSubmitters ==
    \A j \in Uploads :
        /\ status[j] = "absent" <=> submitter[j] \in {"new", "checked"}
        /\ status[j] # "absent" => owner[j] = home[j]

\* A process that has taken a job has been up.
HomesServed ==
    \A j \in Job : submitter[j] # "new" => proc[home[j]] \notin {"off", "checked"}

\* A process that is not running holds nothing.
DeadHoldNothing ==
    \A i \in Instance : ~Alive(i) => /\ queue[i] = <<>> /\ payloads[i] = {}
                                     /\ \A w \in Worker : worker[i][w].job = None

\* Reapers run in living processes, fail no upload before it has a row, and
\* never queue one.
ReapersTouchRows ==
    \A i \in Instance :
        /\ ~Alive(i) => reaper[i].pc = "idle" /\ reaper[i].put = None
        /\ reaper[i].put \notin Uploads
        /\ \A j \in (reaper[i].rows \union reaper[i].wrote) \intersect Uploads :
              status[j] # "absent"

\* A worker in its finally block leaves a settled row behind.
FinishedIsSettled ==
    \A i \in Instance, w \in Worker :
        At(i, w, "finish") /\ worker[i][w].job \in Uploads
            => status[worker[i][w].job] \in Settled

Custody ==
    /\ RowsMatchSubmitters /\ HomesServed /\ DeadHoldNothing
    /\ ReapersTouchRows /\ FinishedIsSettled
    /\ UploadHeldOnce /\ PayloadsHeld /\ NoLostUpload

\* The counter never drifts from the payloads it stands for.
BytesCounted ==
    \A i \in Instance :
        queuedBytes[i] = MapThenSumSet(LAMBDA j : Size[j], payloads[i])

\* Every upload of which a row exists is settled in the end, by its own
\* process or by whoever outlives it.
UploadsSettle ==
    \A j \in Uploads : status[j] \in Unfinished ~> status[j] \in Settled

-----------------------------------------------------------------------------
(* Properties of a home that one process at a time uses.                   *)

\* No two workers run pipeline.process for the same job, and none runs one whose
\* producer was told 503 and may have submitted it again.
RunsOnce ==
    \A i \in Instance, v \in Worker : At(i, v, "working") =>
        /\ submitter[worker[i][v].job] # "refused"
        /\ \A k \in Instance, w \in Worker :
              At(k, w, "working") /\ worker[k][w].job = worker[i][v].job => i = k /\ v = w

\* As NoLostUpload, for the jobs the reaper adopts as well.
NoLostJob ==
    \A j \in Job :
        status[j] \in Unfinished /\ Alive(owner[j]) =>
            \/ /\ submitter[j] \in {"inserted", "admitted", "refusing"}
               /\ home[j] = owner[j]
            \/ Holds(owner[j], j)
            \/ reaper[owner[j]].put = j

\* Every job of which a row exists is settled in the end, however often the
\* process dies before one stays up.
JobsSettle ==
    \A j \in Job : status[j] \in Unfinished ~> status[j] \in Settled

-----------------------------------------------------------------------------
(* What the documents say and the code does not do.                        *)

\* spec/replicas.md: "a peer's crash is picked up without waiting for someone to
\* restart", as its url jobs are "adopted by the reaper and requeued": an
\* unfinished job with a living owner, whom no reaper asks about, is somewhere
\* in the memory of some process, not just owned.
AdoptedIsQueued ==
    \A j \in Job :
        status[j] \in Unfinished /\ Alive(owner[j]) =>
            \/ submitter[j] \in {"inserted", "admitted", "refusing"}
            \/ \E i \in Instance : Holds(i, j) \/ reaper[i].put = j

\* spec/jobs-and-codes.md: on daemon restart a url job is requeued. A process
\* that is not killed gets through start().
StartCompletes ==
    \A i \in Instance \ Mortal : proc[i] = "starting" ~> proc[i] = "up"
=============================================================================
