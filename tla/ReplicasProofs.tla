--------------------------- MODULE ReplicasProofs ---------------------------
(***************************************************************************)
(* What holds of Replicas for every set of processes, jobs and workers,    *)
(* whatever the bounds of the queue and whoever misses heartbeats.         *)
(***************************************************************************)
EXTENDS Replicas, SequenceTheorems, Sums, TLAPS

-----------------------------------------------------------------------------
(* A job appended to a queue, a job taken from its head.                   *)

LEMMA AppendElements ==
    ASSUME NEW S, NEW s \in Seq(S), NEW x \in S
    PROVE  /\ Append(s, x) \in Seq(S)
           /\ Len(Append(s, x)) = Len(s) + 1
           /\ \A n \in 1..Len(s) : Append(s, x)[n] = s[n]
           /\ Append(s, x)[Len(s) + 1] = x
OBVIOUS

LEMMA TailElements ==
    ASSUME NEW S, NEW s \in Seq(S), s # <<>>
    PROVE  /\ Tail(s) \in Seq(S) /\ Head(s) \in S
           /\ Head(s) = s[1] /\ Len(s) \in Nat \ {0}
           /\ Len(Tail(s)) = Len(s) - 1
           /\ \A n \in 1..Len(Tail(s)) : Tail(s)[n] = s[n + 1]
BY HeadTailProperties, EmptySeq

-----------------------------------------------------------------------------

\* Every variable stays in its type: in particular a worker only ever holds a
\* job and the byte counter never goes below zero.
THEOREM QueueTypeCorrect == Spec => []TypeOK
<1> USE SetsAssumption, SizesAssumption, FlagsAssumption
<1> USE DEF TypeOK, Unfinished, Settled, ProcState, SubmitterState
<1>1. Init => TypeOK
  BY DEF Init, NoReap, FreeHands, Hands
<1>2. TypeOK /\ [Next]_vars => TypeOK'
  <2> SUFFICES ASSUME TypeOK, [Next]_vars PROVE TypeOK'
    OBVIOUS
  <2> USE DEF database, memory, Alive, Advance, Hold, Reap, At, Staffed
  <2>1. ASSUME NEW i \in Instance, StartStep(i) PROVE TypeOK'
    <3>1. CASE CheckPeers(i)
      BY <3>1 DEF CheckPeers
    <3>2. CASE Register(i)
      BY <3>2 DEF Register
    <3>3. CASE LaunchCli(i)
      BY <3>3 DEF LaunchCli
    <3>4. QED
      BY <2>1, <3>1, <3>2, <3>3 DEF StartStep
  <2>2. ASSUME NEW i \in Instance, Expire(i) \/ Heartbeat(i) PROVE TypeOK'
    BY <2>2 DEF Expire, Heartbeat
  <2>3. ASSUME NEW i \in Instance, Crash(i) PROVE TypeOK'
    BY <2>3 DEF Crash, Die, FreeHands, NoReap, Hands
  <2>4. ASSUME NEW i \in Instance, ReapStep(i) PROVE TypeOK'
    <3>1. CASE ReadLive(i)
      BY <3>1 DEF ReadLive
    <3>2. CASE SelectOrphans(i)
      BY <3>2 DEF SelectOrphans, OrphanedJobs
    <3>3. ASSUME NEW j \in Job, ReclaimRow(i, j) PROVE TypeOK'
      BY <3>3 DEF ReclaimRow, Publish
    <3>4. CASE PutAdopted(i)
      BY <3>4, AppendElements DEF PutAdopted
    <3>5. CASE CommitReap(i)
      BY <3>5 DEF CommitReap, Publish, NoReap
    <3>6. QED
      BY <2>4, <3>1, <3>2, <3>3, <3>4, <3>5 DEF ReapStep
  <2>5. ASSUME NEW i \in Instance, BeginDrain(i) PROVE TypeOK'
    BY <2>5 DEF BeginDrain
  <2>6. ASSUME NEW i \in Instance, DrainStep(i) PROVE TypeOK'
    <3>1. CASE SeeNoneRunning(i)
      BY <3>1 DEF SeeNoneRunning
    <3>2. CASE SeeQueue(i)
      BY <3>2 DEF SeeQueue
    <3>3. CASE DrainDeadline(i)
      BY <3>3 DEF DrainDeadline
    <3>4. CASE Unregister(i)
      BY <3>4 DEF Unregister
    <3>5. CASE Exit(i)
      BY <3>5 DEF Exit, Die, FreeHands, NoReap, Hands
    <3>6. QED
      BY <2>6, <3>1, <3>2, <3>3, <3>4, <3>5 DEF DrainStep
  <2>7. ASSUME NEW i \in Instance, NEW w \in Worker, WorkerStep(i, w)
        PROVE  TypeOK'
    <3> USE DEF Hands
    <3>0. worker[i][w] \in Hands
      OBVIOUS
    <3>1. CASE GetJob(i, w)
      BY <3>1, TailElements DEF GetJob
    <3>2. CASE Claim(i, w)
      BY <3>2, <3>0 DEF Claim
    <3>3. CASE FindJob(i, w)
      BY <3>3, <3>0 DEF FindJob
    <3>4. CASE MarkRunning(i, w)
      BY <3>4, <3>0 DEF MarkRunning
    <3>5. CASE MarkDone(i, w)
      BY <3>5, <3>0 DEF MarkDone
    <3>6. CASE MarkFailed(i, w)
      BY <3>6, <3>0 DEF MarkFailed
    <3>7. CASE Finish(i, w)
      BY <3>7 DEF Finish, ReleasePayload
    <3>8. CASE EndWorker(i, w)
      BY <3>8, <3>0 DEF EndWorker
    <3>9. QED
      BY <2>7, <3>1, <3>2, <3>3, <3>4, <3>5, <3>6, <3>7, <3>8 DEF WorkerStep
  <2>8. ASSUME NEW i \in Instance, NEW j \in Job, Arrive(i, j) PROVE TypeOK'
    BY <2>8 DEF Arrive
  <2>9. ASSUME NEW j \in Job, SubmitStep(j) PROVE TypeOK'
    <3>1. CASE InsertJob(j)
      BY <3>1 DEF InsertJob
    <3>2. CASE Admit(j)
      <4>0. /\ home[j] \in Instance /\ Size[j] \in Nat
            /\ queuedBytes[home[j]] \in Nat
        BY <3>2 DEF Admit
      <4>1. /\ payloads' \in [Instance -> SUBSET Job]
            /\ queuedBytes' \in [Instance -> Nat]
        <5>1. CASE j \in Uploads
          <6>1. /\ payloads' = [payloads EXCEPT ![home[j]] = @ \union {j}]
                /\ queuedBytes' = [queuedBytes EXCEPT ![home[j]] = @ + Size[j]]
            BY <3>2, <5>1 DEF Admit
          <6>2. QED
            BY <6>1, <4>0
        <5>2. CASE j \notin Uploads
          BY <3>2, <5>2 DEF Admit
        <5>3. QED
          BY <5>1, <5>2
      <4>2. QED
        BY <3>2, <4>1 DEF Admit
    <3>3. CASE OverBudget(j)
      BY <3>3 DEF OverBudget
    <3>4. CASE PutNowait(j)
      BY <3>4, AppendElements DEF PutNowait
    <3>5. CASE QueueFull(j)
      BY <3>5 DEF QueueFull, ReleasePayload
    <3>6. CASE Reject(j)
      BY <3>6 DEF Reject
    <3>7. QED
      BY <2>9, <3>1, <3>2, <3>3, <3>4, <3>5, <3>6 DEF SubmitStep
  <2>10. CASE UNCHANGED vars
    BY <2>10 DEF vars
  <2>11. QED
    BY <2>1, <2>2, <2>3, <2>4, <2>5, <2>6, <2>7, <2>8, <2>9, <2>10 DEF Next
<1>3. QED
  BY <1>1, <1>2, PTL DEF Spec

-----------------------------------------------------------------------------
(* How one step changes who holds a job.                                   *)

LEMMA SameHolders ==
    ASSUME UNCHANGED <<queue, worker>>
    PROVE  \A k \in Instance, j \in Job :
              /\ InQueue(k, j)' <=> InQueue(k, j)
              /\ InHand(k, j)' <=> InHand(k, j)
              /\ OnceInQueue(k, j)' <=> OnceInQueue(k, j)
              /\ OnceInHand(k, j)' <=> OnceInHand(k, j)
BY DEF InQueue, InHand, OnceInQueue, OnceInHand

LEMMA AppendHolders ==
    ASSUME TypeOK, NEW i \in Instance, NEW x \in Job,
           queue' = [queue EXCEPT ![i] = Append(@, x)]
    PROVE  \A k \in Instance, j \in Job :
              /\ InQueue(k, j)' <=> InQueue(k, j) \/ (k = i /\ j = x)
              /\ OnceInQueue(k, j) /\ ~(k = i /\ j = x /\ InQueue(i, x))
                     => OnceInQueue(k, j)'
<1> TAKE k \in Instance, j \in Job
<1>0. queue[k] \in Seq(Job) /\ queue[i] \in Seq(Job)
  BY DEF TypeOK
<1>1. CASE k # i
  <2>1. queue'[k] = queue[k]
    BY <1>1 DEF TypeOK
  <2>2. QED
    BY <1>1, <2>1 DEF InQueue, OnceInQueue
<1>2. CASE k = i
  <2> DEFINE s == queue[i]
             t == Append(s, x)
  <2>1. queue'[k] = t
    BY <1>2 DEF TypeOK
  <2>2. /\ Len(t) = Len(s) + 1 /\ Len(s) \in Nat
        /\ \A n \in 1..Len(s) : t[n] = s[n]
        /\ t[Len(s) + 1] = x
    BY <1>0, AppendElements, LenProperties
  <2> HIDE DEF t
  <2>3. InQueue(k, j)' <=> \E n \in 1..Len(t) : t[n] = j
    BY <2>1 DEF InQueue
  <2>4. InQueue(k, j) <=> \E n \in 1..Len(s) : s[n] = j
    BY <1>2 DEF InQueue
  <2>5. OnceInQueue(k, j)' <=> \A m, n \in 1..Len(t) :
                                  t[m] = j /\ t[n] = j => m = n
    BY <2>1 DEF OnceInQueue
  <2>6. OnceInQueue(k, j) <=> \A m, n \in 1..Len(s) :
                                  s[m] = j /\ s[n] = j => m = n
    BY <1>2 DEF OnceInQueue
  <2> HIDE DEF s
  <2>7. InQueue(k, j)' <=> InQueue(k, j) \/ j = x
    BY <2>2, <2>3, <2>4
  <2>8. OnceInQueue(k, j) /\ ~(j = x /\ InQueue(k, x)) => OnceInQueue(k, j)'
    BY <2>2, <2>4, <2>5, <2>6
  <2>9. QED
    BY <1>2, <2>7, <2>8
<1>3. QED
  BY <1>1, <1>2

LEMMA TailHolders ==
    ASSUME TypeOK, NEW i \in Instance, queue[i] # <<>>,
           queue' = [queue EXCEPT ![i] = Tail(@)],
           NEW x \in Job, x = Head(queue[i])
    PROVE  /\ InQueue(i, x)
           /\ OnceInQueue(i, x) => ~InQueue(i, x)'
           /\ \A k \in Instance, j \in Job :
                 /\ InQueue(k, j)' => InQueue(k, j)
                 /\ InQueue(k, j) => InQueue(k, j)' \/ (k = i /\ j = x)
                 /\ OnceInQueue(k, j) => OnceInQueue(k, j)'
<1> DEFINE s == queue[i]
           t == Tail(s)
<1>1. /\ x = s[1] /\ Len(s) \in Nat \ {0} /\ Len(t) = Len(s) - 1
      /\ \A n \in 1..Len(t) : t[n] = s[n + 1]
  BY TailElements DEF TypeOK
<1>2. queue'[i] = t /\ \A k \in Instance : k # i => queue'[k] = queue[k]
  BY DEF TypeOK
<1> HIDE DEF t
<1>3. \A j : /\ InQueue(i, j)' <=> \E n \in 1..Len(t) : t[n] = j
             /\ OnceInQueue(i, j)' <=> \A m, n \in 1..Len(t) :
                                          t[m] = j /\ t[n] = j => m = n
  BY <1>2 DEF InQueue, OnceInQueue
<1>4. \A j : /\ InQueue(i, j) <=> \E n \in 1..Len(s) : s[n] = j
             /\ OnceInQueue(i, j) <=> \A m, n \in 1..Len(s) :
                                          s[m] = j /\ s[n] = j => m = n
  BY DEF InQueue, OnceInQueue
<1> HIDE DEF s
<1>5. \A n \in 1..Len(t) : n + 1 \in 1..Len(s)
  BY <1>1
<1>6. \A n \in 1..Len(s) : n = 1 \/ (n - 1 \in 1..Len(t) /\ s[n] = t[n - 1])
  BY <1>1
<1>7. InQueue(i, x) /\ (OnceInQueue(i, x) => ~InQueue(i, x)')
  <2>1. 1 \in 1..Len(s) /\ s[1] = x
    BY <1>1
  <2>2. InQueue(i, x)
    BY <1>4, <2>1
  <2>3. ASSUME OnceInQueue(i, x), NEW n \in 1..Len(t), t[n] = x
        PROVE  FALSE
    <3>1. n + 1 \in 1..Len(s) /\ s[n + 1] = x
      BY <1>1, <1>5, <2>3
    <3>2. n + 1 = 1
      BY <1>4, <2>1, <2>3, <3>1
    <3>3. QED
      BY <3>2
  <2>4. QED
    BY <1>3, <2>2, <2>3
<1>8. ASSUME NEW j \in Job
      PROVE  /\ InQueue(i, j)' => InQueue(i, j)
             /\ InQueue(i, j) => InQueue(i, j)' \/ j = x
             /\ OnceInQueue(i, j) => OnceInQueue(i, j)'
  <2>1. InQueue(i, j)' => InQueue(i, j)
    BY <1>1, <1>3, <1>4, <1>5
  <2>2. InQueue(i, j) => InQueue(i, j)' \/ j = x
    BY <1>1, <1>3, <1>4, <1>6
  <2>3. OnceInQueue(i, j) => OnceInQueue(i, j)'
    <3> SUFFICES ASSUME OnceInQueue(i, j),
                        NEW m \in 1..Len(t), NEW n \in 1..Len(t),
                        t[m] = j, t[n] = j
                 PROVE  m = n
      BY <1>3
    <3>1. s[m + 1] = j /\ s[n + 1] = j
      BY <1>1
    <3>2. m + 1 = n + 1
      BY <1>4, <1>5, <3>1
    <3>3. QED
      BY <1>1, <3>2
  <2>4. QED
    BY <2>1, <2>2, <2>3
<1>9. ASSUME NEW k \in Instance, NEW j \in Job, k # i
      PROVE  /\ InQueue(k, j)' <=> InQueue(k, j)
             /\ OnceInQueue(k, j) => OnceInQueue(k, j)'
  BY <1>2, <1>9 DEF InQueue, OnceInQueue
<1>10. QED
  BY <1>7, <1>8, <1>9 DEF s

LEMMA HandChange ==
    ASSUME TypeOK, NEW i \in Instance, NEW w \in Worker, NEW pc, NEW x,
           Hold(i, w, pc, x)
    PROVE  \A k \in Instance, v \in Worker :
              /\ worker'[k][v].job = IF k = i /\ v = w THEN x
                                     ELSE worker[k][v].job
              /\ worker'[k][v].pc = IF k = i /\ v = w THEN pc
                                    ELSE worker[k][v].pc
BY DEF TypeOK, Hold

\* A worker that only moves on in _run keeps the job it has.
LEMMA AdvanceHolders ==
    ASSUME TypeOK, NEW i \in Instance, NEW w \in Worker, NEW pc,
           Advance(i, w, pc), UNCHANGED queue
    PROVE  /\ \A k \in Instance, j \in Job :
                 /\ InQueue(k, j)' <=> InQueue(k, j)
                 /\ InHand(k, j)' <=> InHand(k, j)
                 /\ OnceInQueue(k, j)' <=> OnceInQueue(k, j)
                 /\ OnceInHand(k, j)' <=> OnceInHand(k, j)
           /\ \A k \in Instance, v \in Worker :
                 worker'[k][v].job = worker[k][v].job
<1>1. \A k \in Instance, v \in Worker :
         worker'[k][v].job = worker[k][v].job
  BY HandChange DEF Advance
<1>2. QED
  BY <1>1 DEF InQueue, InHand, OnceInQueue, OnceInHand

-----------------------------------------------------------------------------
(* Each kind of step keeps Custody.                                        *)

\* Steps of a main thread or a heartbeat: no row, queue or hand changes, and
\* a process only comes alive before it has taken any job.
LEMMA ProcStepKeeps ==
    ASSUME TypeOK, Custody,
           UNCHANGED <<status, owner, queue, payloads, worker, submitter,
                       home>>,
           ReapersTouchRows',
           \A k \in Instance :
              \/ proc'[k] = proc[k]
              \/ proc[k] \in {"off", "checked"}
              \/ Alive(k) /\ proc'[k] \notin {"off", "checked", "gone"}
    PROVE  Custody'
<1> USE DEF Custody, Alive
<1>0. /\ \A j \in Job : owner[j] \in Instance \union {None}
      /\ \A j \in Uploads : j \in Job
  BY SetsAssumption DEF TypeOK
<1>1. RowsMatchSubmitters' /\ FinishedIsSettled'
  BY DEF RowsMatchSubmitters, FinishedIsSettled, At
<1>2. \A j \in Job : submitter[j] # "new" =>
         /\ home[j] \in Instance /\ proc[home[j]] \notin {"off", "checked"}
         /\ Alive(home[j])' <=> Alive(home[j])
         /\ proc'[home[j]] \notin {"off", "checked"}
  BY DEF HomesServed, TypeOK
<1>3. HomesServed'
  BY <1>2 DEF HomesServed
<1>4. DeadHoldNothing'
  BY DEF DeadHoldNothing
<1>5. UploadHeldOnce'
  BY <1>0, SameHolders DEF UploadHeldOnce, Holds
<1>6. PayloadsHeld'
  <2> SUFFICES ASSUME NEW i \in Instance, NEW j \in Uploads
               PROVE  j \in payloads[i] <=>
                         \/ home[j] = i /\ Alive(i)'
                            /\ submitter[j] = "admitted"
                         \/ Holds(i, j)
    BY <1>0, SameHolders DEF PayloadsHeld, Holds
  <2>1. home[j] = i /\ submitter[j] = "admitted" =>
           (Alive(i)' <=> Alive(i))
    BY <1>0, <1>2
  <2>2. QED
    BY <2>1 DEF PayloadsHeld
<1>7. NoLostUpload'
  <2> SUFFICES ASSUME NEW j \in Uploads, status[j] \in Unfinished,
                      Alive(owner[j])'
               PROVE  \/ submitter[j] \in {"inserted", "admitted", "refusing"}
                      \/ Holds(owner[j], j)
    <3>1. \A j \in Uploads : owner[j] \in Instance =>
             (Holds(owner[j], j)' <=> Holds(owner[j], j))
      BY <1>0, SameHolders DEF Holds
    <3>2. \A j \in Uploads : status[j] \in Unfinished =>
             owner[j] \in Instance
      BY <1>0, <1>2 DEF RowsMatchSubmitters, Unfinished
    <3>3. QED
      BY <3>1, <3>2 DEF NoLostUpload
  <2>1. owner[j] = home[j] /\ submitter[j] # "new"
    BY <1>0 DEF RowsMatchSubmitters, Unfinished
  <2>2. Alive(owner[j])
    BY <1>0, <1>2, <2>1
  <2>3. QED
    BY <2>2 DEF NoLostUpload
<1>8. QED
  BY <1>1, <1>3, <1>4, <1>5, <1>6, <1>7

\* Steps that write rows and move workers along without moving any job: the
\* reaper's writes, and every step of _run.
LEMMA RowStepKeeps ==
    ASSUME TypeOK, TypeOK', Custody,
           UNCHANGED <<queue, payloads, submitter, home>>,
           \A k \in Instance, v \in Worker :
              worker'[k][v].job = worker[k][v].job,
           \A k \in Instance :
              proc'[k] = proc[k] \/ (Alive(k) /\ Alive(k)'),
           \A j \in Uploads :
              /\ owner'[j] = owner[j]
              /\ status'[j] = "absent" <=> status[j] = "absent"
              /\ status'[j] \in Unfinished =>
                    status[j] \in Unfinished \/ Holds(home[j], j),
           FinishedIsSettled', ReapersTouchRows'
    PROVE  Custody'
<1> USE DEF Custody
<1>0. \A j \in Uploads : j \in Job
  BY SetsAssumption
<1>1. \A k \in Instance : Alive(k)' <=> Alive(k)
  BY DEF Alive
<1>2. \A k \in Instance, j \in Job :
         /\ InQueue(k, j)' <=> InQueue(k, j)
         /\ InHand(k, j)' <=> InHand(k, j)
         /\ OnceInQueue(k, j)' <=> OnceInQueue(k, j)
         /\ OnceInHand(k, j)' <=> OnceInHand(k, j)
         /\ Holds(k, j)' <=> Holds(k, j)
  BY DEF InQueue, InHand, OnceInQueue, OnceInHand, Holds
<1>3. \A j \in Job : submitter[j] # "new" => home[j] \in Instance
  BY DEF TypeOK
<1>4. RowsMatchSubmitters'
  BY <1>0 DEF RowsMatchSubmitters
<1>5. HomesServed'
  BY <1>3 DEF HomesServed, Alive
<1>6. DeadHoldNothing'
  BY <1>1 DEF DeadHoldNothing
<1>7. UploadHeldOnce'
  BY <1>0, <1>2 DEF UploadHeldOnce
<1>8. PayloadsHeld'
  BY <1>0, <1>1, <1>2 DEF PayloadsHeld
<1>9. NoLostUpload'
  <2> SUFFICES ASSUME NEW j \in Uploads, status'[j] \in Unfinished,
                      Alive(owner[j])'
               PROVE  \/ submitter[j] \in {"inserted", "admitted", "refusing"}
                      \/ Holds(owner[j], j)'
    BY <1>0 DEF NoLostUpload
  <2>1. status[j] # "absent" /\ owner[j] = home[j] /\ home[j] \in Instance
    BY <1>0, <1>3 DEF RowsMatchSubmitters, Unfinished
  <2>2. Alive(owner[j]) /\ (Holds(owner[j], j)' <=> Holds(owner[j], j))
    BY <1>0, <1>1, <1>2, <2>1
  <2>3. QED
    BY <2>1, <2>2 DEF NoLostUpload
<1>10. QED
  BY <1>4, <1>5, <1>6, <1>7, <1>8, <1>9

\* A dead process held its jobs alone: they are nowhere now.
LEMMA DieKeeps ==
    ASSUME TypeOK, TypeOK', Custody, NEW i \in Instance, Alive(i), Die(i)
    PROVE  Custody'
<1> USE DEF Custody, Die, database
<1>0. /\ \A j \in Uploads : j \in Job
      /\ \A j \in Job : submitter[j] # "new" => home[j] \in Instance
  BY SetsAssumption DEF TypeOK
<1>1. /\ proc'[i] = "gone" /\ queue'[i] = <<>> /\ payloads'[i] = {}
      /\ \A w \in Worker : worker'[i][w].job = None /\ worker'[i][w].pc = "idle"
      /\ reaper'[i] = NoReap
  BY DEF TypeOK, FreeHands
<1>2. \A k \in Instance \ {i} :
         /\ proc'[k] = proc[k] /\ queue'[k] = queue[k]
         /\ payloads'[k] = payloads[k] /\ worker'[k] = worker[k]
         /\ reaper'[k] = reaper[k]
  BY DEF TypeOK
<1>3. \A j \in Job : ~Holds(i, j)' /\ OnceInQueue(i, j)' /\ OnceInHand(i, j)'
                     /\ ~InQueue(i, j)' /\ ~InHand(i, j)'
  <2>1. \A j \in Job : j # None
    BY SetsAssumption
  <2>2. QED
    BY <1>1, <2>1 DEF Holds, InQueue, InHand, OnceInQueue, OnceInHand
<1>4. \A k \in Instance \ {i}, j \in Job :
         /\ InQueue(k, j)' <=> InQueue(k, j)
         /\ InHand(k, j)' <=> InHand(k, j)
         /\ OnceInQueue(k, j)' <=> OnceInQueue(k, j)
         /\ OnceInHand(k, j)' <=> OnceInHand(k, j)
         /\ Holds(k, j)' <=> Holds(k, j)
  BY <1>2 DEF InQueue, InHand, OnceInQueue, OnceInHand, Holds
<1>5. RowsMatchSubmitters'
  BY DEF RowsMatchSubmitters
<1>6. HomesServed'
  BY <1>0, <1>1, <1>2 DEF HomesServed
<1>7. DeadHoldNothing'
  BY <1>1, <1>2 DEF DeadHoldNothing, Alive
<1>8. ReapersTouchRows'
  <2>1. NoReap.put \notin Uploads /\ NoReap.rows = {} /\ NoReap.wrote = {}
    BY SetsAssumption DEF NoReap
  <2>2. QED
    BY <1>1, <1>2, <2>1 DEF ReapersTouchRows, Alive, NoReap
<1>9. FinishedIsSettled'
  BY <1>1, <1>2 DEF FinishedIsSettled, At
<1>10. UploadHeldOnce'
  BY <1>0, <1>3, <1>4 DEF UploadHeldOnce
<1>11. PayloadsHeld'
  BY <1>0, <1>1, <1>2, <1>3, <1>4 DEF PayloadsHeld, Alive
<1>12. NoLostUpload'
  <2> SUFFICES ASSUME NEW j \in Uploads, status[j] \in Unfinished,
                      Alive(owner[j])'
               PROVE  \/ submitter[j] \in {"inserted", "admitted", "refusing"}
                      \/ Holds(owner[j], j)'
    BY DEF NoLostUpload
  <2>1. owner[j] = home[j] /\ home[j] \in Instance
    BY <1>0 DEF RowsMatchSubmitters, Unfinished
  <2>2. owner[j] # i /\ Alive(owner[j])
    BY <1>1, <1>2, <2>1 DEF Alive
  <2>3. QED
    BY <1>0, <1>4, <2>1, <2>2 DEF NoLostUpload
<1>13. QED
  BY <1>5, <1>6, <1>7, <1>8, <1>9, <1>10, <1>11, <1>12

\* Steps of submit() that leave queues and hands alone.
LEMMA SubmitKeeps ==
    ASSUME TypeOK, TypeOK', Custody, NEW x \in Job,
           \/ \E i \in Instance : Arrive(i, x)
           \/ InsertJob(x) \/ Admit(x) \/ OverBudget(x) \/ QueueFull(x)
           \/ Reject(x)
    PROVE  Custody'
<1> USE DEF Custody, database, memory
<1> DEFINE Early == {"new", "checked", "inserted", "admitted", "refusing"}
           Given == {"inserted", "admitted", "refusing"}
<1>0. /\ \A j \in Uploads : j \in Job
      /\ \A j \in Job : submitter[j] # "new" => home[j] \in Instance
      /\ \A j \in Job : submitter'[j] # "new" => home'[j] \in Instance
  BY SetsAssumption DEF TypeOK
<1>1. UNCHANGED <<proc, queue, worker, reaper>>
  BY DEF Arrive, InsertJob, Admit, OverBudget, QueueFull, Reject
<1>2. \A k \in Instance, j \in Job :
         /\ InQueue(k, j)' <=> InQueue(k, j)
         /\ InHand(k, j)' <=> InHand(k, j)
         /\ OnceInQueue(k, j)' <=> OnceInQueue(k, j)
         /\ OnceInHand(k, j)' <=> OnceInHand(k, j)
         /\ Holds(k, j)' <=> Holds(k, j)
  BY <1>1, SameHolders DEF Holds
<1>3. submitter[x] \in Early /\ submitter'[x] # "accepted"
  BY DEF Arrive, InsertJob, Admit, OverBudget, QueueFull, Reject, TypeOK
<1>4. \A k \in Instance : x \in Uploads => ~Holds(k, x)
  BY <1>3 DEF UploadHeldOnce
<1>5. \A j \in Job \ {x} : /\ status'[j] = status[j] /\ owner'[j] = owner[j]
                          /\ home'[j] = home[j]
                          /\ submitter'[j] = submitter[j]
  BY DEF TypeOK, Arrive, InsertJob, Admit, OverBudget, QueueFull, Reject
<1>6. /\ x \in Uploads =>
            /\ status'[x] = "absent" <=> submitter'[x] \in {"new", "checked"}
            /\ status'[x] # "absent" => owner'[x] = home'[x]
            /\ status[x] # "absent" => status'[x] # "absent"
            /\ status'[x] \in Unfinished => submitter'[x] \in Given
      /\ proc[home'[x]] \notin {"off", "checked"}
  <2>1. /\ x \in Uploads =>
              /\ status[x] = "absent" <=> submitter[x] \in {"new", "checked"}
              /\ status[x] # "absent" => owner[x] = home[x]
        /\ submitter[x] # "new" => proc[home[x]] \notin {"off", "checked"}
    BY DEF RowsMatchSubmitters, HomesServed
  <2>2. ASSUME NEW i \in Instance, Arrive(i, x)
        PROVE  <1>6
    BY <2>1, <2>2 DEF Arrive, TypeOK, Unfinished
  <2>3. CASE InsertJob(x)
    BY <2>1, <2>3, <1>0 DEF InsertJob, TypeOK
  <2>4. CASE Admit(x)
    BY <2>1, <2>4 DEF Admit, TypeOK
  <2>5. CASE OverBudget(x)
    BY <2>1, <2>5 DEF OverBudget, TypeOK
  <2>6. CASE QueueFull(x)
    BY <2>1, <2>6 DEF QueueFull, TypeOK
  <2>7. CASE Reject(x)
    BY <2>1, <2>7 DEF Reject, TypeOK, Unfinished
  <2>8. QED
    BY <2>2, <2>3, <2>4, <2>5, <2>6, <2>7
<1>7. RowsMatchSubmitters'
  BY <1>0, <1>5, <1>6 DEF RowsMatchSubmitters
<1>8. HomesServed'
  BY <1>1, <1>5, <1>6 DEF HomesServed
<1>9. ReapersTouchRows'
  <2>1. \A k \in Instance : /\ reaper[k].put \notin Uploads
                            /\ reaper[k].rows \subseteq Job
                            /\ reaper[k].wrote \subseteq Job
    BY DEF ReapersTouchRows, TypeOK
  <2>2. \A j \in Uploads : status[j] # "absent" => status'[j] # "absent"
    BY <1>0, <1>5, <1>6
  <2>3. QED
    BY <1>1, <2>1, <2>2 DEF ReapersTouchRows, Alive
<1>10. FinishedIsSettled'
  <2> SUFFICES ASSUME NEW k \in Instance, NEW w \in Worker,
                      At(k, w, "finish"), worker[k][w].job \in Uploads
               PROVE  status'[worker[k][w].job] \in Settled
    BY <1>1 DEF FinishedIsSettled, At
  <2>1. worker[k][w].job # x
    BY <1>0, <1>4 DEF Holds, InHand
  <2>2. QED
    BY <1>0, <1>5, <2>1 DEF FinishedIsSettled
<1>11. UploadHeldOnce'
  <2>1. \A k \in Instance, j \in Uploads :
           Holds(k, j) => submitter'[j] = "accepted" /\ home'[j] = k
    BY <1>0, <1>4, <1>5 DEF UploadHeldOnce
  <2>2. QED
    BY <1>0, <1>2, <2>1 DEF UploadHeldOnce
<1>12. /\ PayloadsHeld'
       /\ DeadHoldNothing'
  <2>1. \A k \in Instance : payloads'[k] \ {x} = payloads[k] \ {x}
    <3>1. CASE payloads' = payloads
      BY <3>1
    <3>2. CASE Admit(x) /\ payloads' # payloads
      <4>1. /\ home[x] \in Instance
            /\ payloads' = [payloads EXCEPT ![home[x]] = @ \union {x}]
        BY <3>2, <1>0 DEF Admit
      <4>2. QED
        BY <4>1 DEF TypeOK
    <3>3. CASE QueueFull(x)
      <4>1. /\ home[x] \in Instance
            /\ payloads' = [payloads EXCEPT ![home[x]] = @ \ {x}]
        BY <3>3, <1>0 DEF QueueFull, ReleasePayload
      <4>2. QED
        BY <4>1 DEF TypeOK
    <3>4. QED
      BY <3>1, <3>2, <3>3 DEF Arrive, InsertJob, OverBudget, Reject
  <2>2. ASSUME x \in Uploads, NEW k \in Instance
        PROVE  x \in payloads'[k] <=>
                  home'[x] = k /\ Alive(k) /\ submitter'[x] = "admitted"
    <3>1. x \in payloads[k] <=>
             home[x] = k /\ Alive(k) /\ submitter[x] = "admitted"
      BY <1>4, <2>2 DEF PayloadsHeld
    <3>2. ASSUME NEW i \in Instance, Arrive(i, x)
          PROVE  x \in payloads'[k] <=> home'[x] = k /\ Alive(k)
                                          /\ submitter'[x] = "admitted"
      BY <3>1, <3>2 DEF Arrive, TypeOK
    <3>3. CASE InsertJob(x)
      BY <3>1, <3>3 DEF InsertJob, TypeOK
    <3>4. CASE Admit(x)
      BY <3>1, <3>4, <2>2, <1>0 DEF Admit, TypeOK
    <3>5. CASE OverBudget(x)
      BY <3>1, <3>5 DEF OverBudget, TypeOK
    <3>6. CASE QueueFull(x)
      BY <3>1, <3>6, <1>0 DEF QueueFull, ReleasePayload, TypeOK
    <3>7. CASE Reject(x)
      BY <3>1, <3>7 DEF Reject, TypeOK
    <3>8. QED
      BY <3>2, <3>3, <3>4, <3>5, <3>6, <3>7
  <2>3. PayloadsHeld'
    BY <1>0, <1>1, <1>2, <1>4, <1>5, <2>1, <2>2 DEF PayloadsHeld, Alive
  <2>4. \A k \in Instance : ~Alive(k) => payloads'[k] = {}
    BY <1>0 DEF DeadHoldNothing, TypeOK, Alive, ReleasePayload,
                Arrive, InsertJob, Admit, OverBudget, QueueFull, Reject
  <2>5. QED
    BY <1>1, <2>3, <2>4 DEF DeadHoldNothing, Alive
<1>13. NoLostUpload'
  <2> SUFFICES ASSUME NEW j \in Uploads, status'[j] \in Unfinished,
                      Alive(owner'[j])
               PROVE  submitter'[j] \in Given \/ Holds(owner'[j], j)
    <3>1. \A j \in Uploads : status'[j] \in Unfinished =>
             owner'[j] \in Instance
      BY <1>0, <1>7 DEF RowsMatchSubmitters, Unfinished
    <3>2. QED
      BY <1>0, <1>1, <1>2, <3>1 DEF NoLostUpload, Alive, Holds, InQueue, InHand
  <2>1. CASE j = x
    BY <1>6, <2>1
  <2>2. CASE j # x
    BY <1>0, <1>5, <2>2 DEF NoLostUpload
  <2>3. QED
    BY <2>1, <2>2
<1>14. QED
  BY <1>7, <1>8, <1>9, <1>10, <1>11, <1>12, <1>13

\* An upload enters the queue of the process that took it: it was nowhere.
LEMMA PutNowaitKeeps ==
    ASSUME TypeOK, TypeOK', Custody, NEW x \in Job, PutNowait(x)
    PROVE  Custody'
<1> USE DEF Custody, database
<1> DEFINE i == home[x]
<1>0. /\ \A j \in Uploads : j \in Job
      /\ i \in Instance /\ Alive(i)
      /\ submitter[x] = "admitted" /\ submitter'[x] = "accepted"
      /\ queue' = [queue EXCEPT ![i] = Append(@, x)]
      /\ UNCHANGED <<status, owner, live, proc, payloads, worker, home, reaper>>
      /\ \A j \in Job \ {x} : submitter'[j] = submitter[j]
  BY SetsAssumption DEF PutNowait, TypeOK
<1> HIDE DEF i
<1>1. \A k \in Instance, j \in Job :
         /\ InQueue(k, j)' <=> InQueue(k, j) \/ (k = i /\ j = x)
         /\ OnceInQueue(k, j) /\ ~(k = i /\ j = x /\ InQueue(i, x))
                => OnceInQueue(k, j)'
         /\ InHand(k, j)' <=> InHand(k, j)
         /\ OnceInHand(k, j)' <=> OnceInHand(k, j)
         /\ Holds(k, j)' <=> Holds(k, j) \/ (k = i /\ j = x)
  <2>1. \A k \in Instance, j \in Job :
           /\ InQueue(k, j)' <=> InQueue(k, j) \/ (k = i /\ j = x)
           /\ OnceInQueue(k, j) /\ ~(k = i /\ j = x /\ InQueue(i, x))
                  => OnceInQueue(k, j)'
    BY <1>0, AppendHolders
  <2>2. \A k \in Instance, j \in Job :
           /\ InHand(k, j)' <=> InHand(k, j)
           /\ OnceInHand(k, j)' <=> OnceInHand(k, j)
    BY <1>0 DEF InHand, OnceInHand
  <2>3. QED
    BY <2>1, <2>2 DEF Holds
<1>2. x \in Uploads => \A k \in Instance : ~Holds(k, x)
  BY <1>0 DEF UploadHeldOnce
<1>3. /\ RowsMatchSubmitters' /\ HomesServed' /\ ReapersTouchRows'
      /\ FinishedIsSettled'
  BY <1>0 DEF RowsMatchSubmitters, HomesServed, ReapersTouchRows,
              FinishedIsSettled, At, Alive, i
<1>4. DeadHoldNothing'
  <2>1. \A k \in Instance : ~Alive(k) => queue'[k] = queue[k]
    BY <1>0 DEF TypeOK
  <2>2. QED
    BY <1>0, <2>1 DEF DeadHoldNothing, Alive
<1>5. UploadHeldOnce'
  BY <1>0, <1>1, <1>2 DEF UploadHeldOnce, Holds, i
<1>6. PayloadsHeld'
  <2> SUFFICES ASSUME NEW k \in Instance, NEW j \in Uploads
               PROVE  j \in payloads[k] <=>
                         \/ home[j] = k /\ Alive(k)
                            /\ submitter'[j] = "admitted"
                         \/ Holds(k, j)'
    BY <1>0 DEF PayloadsHeld, Alive
  <2>1. CASE j = x
    BY <1>0, <1>1, <1>2, <2>1 DEF PayloadsHeld, i
  <2>2. CASE j # x
    BY <1>0, <1>1, <2>2 DEF PayloadsHeld
  <2>3. QED
    BY <2>1, <2>2
<1>7. NoLostUpload'
  <2> SUFFICES ASSUME NEW j \in Uploads, status[j] \in Unfinished,
                      Alive(owner[j])
               PROVE  \/ submitter'[j] \in {"inserted", "admitted", "refusing"}
                      \/ Holds(owner[j], j)'
    <3>1. \A j \in Uploads : status[j] \in Unfinished => owner[j] \in Instance
      BY <1>0, <1>3 DEF RowsMatchSubmitters, Unfinished, TypeOK
    <3>2. QED
      BY <1>0, <3>1 DEF NoLostUpload, Alive, Holds, InQueue, InHand
  <2>1. owner[j] = home[j] /\ owner[j] \in Instance
    BY <1>0 DEF RowsMatchSubmitters, Unfinished, TypeOK
  <2>2. QED
    BY <1>0, <1>1, <2>1 DEF NoLostUpload, i
<1>8. QED
  BY <1>3, <1>4, <1>5, <1>6, <1>7

\* The reaper only ever puts url jobs, so no upload is anywhere it was not.
LEMMA PutAdoptedKeeps ==
    ASSUME TypeOK, TypeOK', Custody, NEW i \in Instance, PutAdopted(i)
    PROVE  Custody'
<1> USE DEF Custody, database
<1> DEFINE x == reaper[i].put
<1>0. /\ \A j \in Uploads : j \in Job
      /\ x \in Job /\ x \notin Uploads
      /\ queue' = [queue EXCEPT ![i] = Append(@, x)]
      /\ UNCHANGED <<status, owner, proc, payloads, worker, submitter, home>>
      /\ \A k \in Instance : /\ reaper'[k].put \in {None, reaper[k].put}
                             /\ reaper'[k].rows = reaper[k].rows
                             /\ reaper'[k].wrote = reaper[k].wrote
  BY SetsAssumption DEF PutAdopted, Reap, TypeOK, ReapersTouchRows
<1> HIDE DEF x
<1>1. \A k \in Instance, j \in Uploads :
         /\ InQueue(k, j)' <=> InQueue(k, j)
         /\ OnceInQueue(k, j) => OnceInQueue(k, j)'
         /\ InHand(k, j)' <=> InHand(k, j)
         /\ OnceInHand(k, j)' <=> OnceInHand(k, j)
         /\ Holds(k, j)' <=> Holds(k, j)
  <2>1. \A k \in Instance, j \in Uploads :
           /\ InQueue(k, j)' <=> InQueue(k, j)
           /\ OnceInQueue(k, j) => OnceInQueue(k, j)'
    BY <1>0, AppendHolders
  <2>2. \A k \in Instance, j \in Uploads :
           /\ InHand(k, j)' <=> InHand(k, j)
           /\ OnceInHand(k, j)' <=> OnceInHand(k, j)
    BY <1>0 DEF InHand, OnceInHand
  <2>3. QED
    BY <2>1, <2>2 DEF Holds
<1>2. Alive(i)
  BY SetsAssumption DEF ReapersTouchRows, PutAdopted
<1>3. RowsMatchSubmitters' /\ HomesServed' /\ FinishedIsSettled'
  BY <1>0 DEF RowsMatchSubmitters, HomesServed, FinishedIsSettled, At
<1>4. ReapersTouchRows'
  <2>1. \A k \in Instance : ~Alive(k) => reaper'[k] = reaper[k]
    BY <1>2 DEF PutAdopted, Reap, TypeOK
  <2>2. QED
    BY <1>0, <2>1, SetsAssumption DEF ReapersTouchRows, Alive
<1>5. DeadHoldNothing'
  <2>1. \A k \in Instance : ~Alive(k) => queue'[k] = queue[k]
    BY <1>0, <1>2 DEF TypeOK
  <2>2. QED
    BY <1>0, <2>1 DEF DeadHoldNothing, Alive
<1>6. UploadHeldOnce' /\ PayloadsHeld'
  BY <1>0, <1>1 DEF UploadHeldOnce, PayloadsHeld, Alive
<1>7. NoLostUpload'
  <2> SUFFICES ASSUME NEW j \in Uploads, status[j] \in Unfinished,
                      Alive(owner[j])
               PROVE  \/ submitter[j] \in {"inserted", "admitted", "refusing"}
                      \/ Holds(owner[j], j)'
    <3>1. \A j \in Uploads : status[j] \in Unfinished => owner[j] \in Instance
      BY <1>0, <1>3 DEF RowsMatchSubmitters, Unfinished, TypeOK
    <3>2. QED
      BY <1>0, <3>1 DEF NoLostUpload, Alive, Holds, InQueue, InHand
  <2>1. owner[j] \in Instance
    BY <1>0 DEF RowsMatchSubmitters, Unfinished, TypeOK
  <2>2. QED
    BY <1>0, <1>1, <2>1 DEF NoLostUpload
<1>8. QED
  BY <1>3, <1>4, <1>5, <1>6, <1>7

\* A job goes from the head of the queue to the worker that took it.
LEMMA GetJobKeeps ==
    ASSUME TypeOK, TypeOK', Custody, NEW i \in Instance, NEW w \in Worker,
           GetJob(i, w)
    PROVE  Custody'
<1> USE DEF Custody, database
<1>0. PICK x \in Job :
         /\ x = Head(queue[i]) /\ queue[i] # <<>>
         /\ queue' = [queue EXCEPT ![i] = Tail(@)]
         /\ Hold(i, w, "got", x)
  BY TailElements DEF GetJob, TypeOK
<1>1. /\ \A j \in Uploads : j \in Job
      /\ \A j \in Job : j # None
      /\ Alive(i) /\ worker[i][w].job = None
      /\ UNCHANGED <<status, owner, proc, payloads, submitter, home, reaper>>
  <2>1. worker[i][w] \in Hands /\ worker[i][w].pc = "idle"
    BY DEF GetJob, At, TypeOK
  <2>2. worker[i][w].job = None
    BY <2>1 DEF Hands
  <2>3. QED
    BY <2>2, SetsAssumption DEF GetJob, Staffed
<1>2. /\ InQueue(i, x)
      /\ OnceInQueue(i, x) => ~InQueue(i, x)'
      /\ \A k \in Instance, j \in Job :
            /\ InQueue(k, j)' => InQueue(k, j)
            /\ InQueue(k, j) => InQueue(k, j)' \/ (k = i /\ j = x)
            /\ OnceInQueue(k, j) => OnceInQueue(k, j)'
  BY <1>0, TailHolders
<1>3. \A k \in Instance, v \in Worker :
         /\ worker'[k][v].job = IF k = i /\ v = w THEN x
                                ELSE worker[k][v].job
         /\ worker'[k][v].pc = IF k = i /\ v = w THEN "got"
                               ELSE worker[k][v].pc
  BY <1>0, HandChange
<1>4. \A k \in Instance, j \in Job :
         /\ InHand(k, j)' <=> InHand(k, j) \/ (k = i /\ j = x)
         /\ OnceInHand(k, j) /\ ~(k = i /\ j = x /\ InHand(i, x))
                => OnceInHand(k, j)'
  BY <1>1, <1>3 DEF InHand, OnceInHand
<1>5. \A k \in Instance, j \in Job : Holds(k, j)' <=> Holds(k, j)
  BY <1>2, <1>4 DEF Holds
<1>6. RowsMatchSubmitters' /\ HomesServed' /\ ReapersTouchRows'
  BY <1>1 DEF RowsMatchSubmitters, HomesServed, ReapersTouchRows, Alive
<1>7. FinishedIsSettled'
  BY <1>1, <1>3 DEF FinishedIsSettled, At
<1>8. DeadHoldNothing'
  <2>1. \A k \in Instance : ~Alive(k) => queue'[k] = queue[k]
    BY <1>0, <1>1 DEF TypeOK
  <2>2. QED
    BY <1>1, <1>3, <2>1 DEF DeadHoldNothing, Alive
<1>9. UploadHeldOnce'
  <2> SUFFICES ASSUME NEW j \in Uploads, NEW k \in Instance
               PROVE  /\ Holds(k, j)' => submitter[j] = "accepted" /\ home[j] = k
                      /\ ~(InQueue(k, j)' /\ InHand(k, j)')
                      /\ OnceInQueue(k, j)' /\ OnceInHand(k, j)'
    BY <1>1 DEF UploadHeldOnce
  <2>1. /\ Holds(k, j) => submitter[j] = "accepted" /\ home[j] = k
        /\ ~(InQueue(k, j) /\ InHand(k, j))
        /\ OnceInQueue(k, j) /\ OnceInHand(k, j) /\ j \in Job
    BY <1>1 DEF UploadHeldOnce
  <2>2. CASE k = i /\ j = x
    BY <1>2, <1>4, <1>5, <2>1, <2>2
  <2>3. CASE ~(k = i /\ j = x)
    BY <1>2, <1>4, <1>5, <2>1, <2>3
  <2>4. QED
    BY <2>2, <2>3
<1>10. PayloadsHeld'
  BY <1>1, <1>5 DEF PayloadsHeld, Alive
<1>11. NoLostUpload'
  <2> SUFFICES ASSUME NEW j \in Uploads, status[j] \in Unfinished,
                      Alive(owner[j])
               PROVE  \/ submitter[j] \in {"inserted", "admitted", "refusing"}
                      \/ Holds(owner[j], j)'
    <3>1. \A j \in Uploads : status[j] \in Unfinished => owner[j] \in Instance
      BY <1>1, <1>6 DEF RowsMatchSubmitters, Unfinished, TypeOK
    <3>2. QED
      BY <1>1, <3>1 DEF NoLostUpload, Alive, Holds, InQueue, InHand
  <2>1. owner[j] \in Instance
    BY <1>1 DEF RowsMatchSubmitters, Unfinished, TypeOK
  <2>2. QED
    BY <1>1, <1>5, <2>1 DEF NoLostUpload
<1>12. QED
  BY <1>6, <1>7, <1>8, <1>9, <1>10, <1>11

\* The worker lets go of its job, and of the bytes, once the row is settled.
LEMMA FinishKeeps ==
    ASSUME TypeOK, TypeOK', Custody, NEW i \in Instance, NEW w \in Worker,
           Finish(i, w)
    PROVE  Custody'
<1> USE DEF Custody, database
<1>x. PICK x \in Job : x = worker[i][w].job
  <2>1. worker[i][w] \in Hands /\ worker[i][w].pc = "finish"
    BY DEF Finish, At, TypeOK
  <2>2. QED
    BY <2>1 DEF Hands
<1>0. /\ \A j \in Uploads : j \in Job
      /\ \A j \in Job : j # None
      /\ x \in Uploads => status[x] \in Settled
      /\ UNCHANGED <<status, owner, proc, queue, submitter, home, reaper>>
  BY <1>x, SetsAssumption DEF Finish, FinishedIsSettled, At
<1>1. payloads' = [payloads EXCEPT ![i] = @ \ {x}]
  BY <1>x DEF Finish, ReleasePayload
<1>2. /\ Alive(i)
      /\ worker'[i][w].pc \in {"idle", "ended"}
      /\ \A k \in Instance, v \in Worker :
            worker'[k][v].job = IF k = i /\ v = w THEN None
                                ELSE worker[k][v].job
      /\ \A k \in Instance, v \in Worker :
            ~(k = i /\ v = w) => worker'[k][v].pc = worker[k][v].pc
  <2>1. Alive(i)
    BY <1>0, <1>x DEF DeadHoldNothing
  <2>2. PICK pc \in {"idle", "ended"} : Hold(i, w, pc, None)
    BY DEF Finish
  <2>3. QED
    BY <2>1, <2>2, HandChange
<1>3. \A k \in Instance, j \in Job :
         /\ InQueue(k, j)' <=> InQueue(k, j)
         /\ OnceInQueue(k, j)' <=> OnceInQueue(k, j)
         /\ InHand(k, j)' => InHand(k, j)
         /\ InHand(k, j) => InHand(k, j)' \/ (k = i /\ j = x)
         /\ OnceInHand(k, j) => OnceInHand(k, j)'
         /\ Holds(k, j)' => Holds(k, j)
         /\ Holds(k, j) => Holds(k, j)' \/ (k = i /\ j = x)
  <2>1. \A k \in Instance, j \in Job :
           /\ InQueue(k, j)' <=> InQueue(k, j)
           /\ OnceInQueue(k, j)' <=> OnceInQueue(k, j)
    BY <1>0 DEF InQueue, OnceInQueue
  <2>2. \A k \in Instance, j \in Job :
           /\ InHand(k, j)' => InHand(k, j)
           /\ InHand(k, j) => InHand(k, j)' \/ (k = i /\ j = x)
           /\ OnceInHand(k, j) => OnceInHand(k, j)'
    BY <1>0, <1>x, <1>2 DEF InHand, OnceInHand
  <2>3. QED
    BY <2>1, <2>2 DEF Holds
<1>4. ASSUME x \in Uploads
      PROVE  /\ \A k \in Instance : ~Holds(k, x)'
             /\ submitter[x] = "accepted"
  <2>1. InHand(i, x)
    BY <1>x DEF InHand
  <2>2. /\ Holds(i, x) /\ submitter[x] = "accepted" /\ home[x] = i
        /\ ~InQueue(i, x) /\ OnceInHand(i, x)
    BY <1>4, <2>1 DEF UploadHeldOnce, Holds
  <2>3. \A v \in Worker : worker[i][v].job = x => v = w
    BY <1>x, <2>2 DEF OnceInHand
  <2>4. \A v \in Worker : worker'[i][v].job # x
    BY <1>0, <1>2, <2>3
  <2>5. \A k \in Instance : Holds(k, x) => k = i
    BY <1>4, <2>2 DEF UploadHeldOnce
  <2>6. ~InQueue(i, x)'
    BY <1>0, <1>3, <2>2
  <2>7. ~InHand(i, x)'
    BY <2>4 DEF InHand
  <2>8. \A k \in Instance : ~Holds(k, x)'
    BY <1>0, <1>3, <2>5, <2>6, <2>7 DEF Holds
  <2>9. QED
    BY <2>2, <2>8
<1>5. RowsMatchSubmitters' /\ HomesServed' /\ ReapersTouchRows'
  BY <1>0 DEF RowsMatchSubmitters, HomesServed, ReapersTouchRows, Alive
<1>6. FinishedIsSettled'
  BY <1>0, <1>2 DEF FinishedIsSettled, At
<1>7. DeadHoldNothing'
  <2>1. \A k \in Instance : ~Alive(k) => payloads'[k] = payloads[k]
    BY <1>1, <1>2 DEF TypeOK
  <2>2. \A k \in Instance, v \in Worker :
           ~Alive(k) => worker'[k][v].job = worker[k][v].job
    BY <1>2
  <2>3. QED
    BY <1>0, <2>1, <2>2 DEF DeadHoldNothing, Alive
<1>8. UploadHeldOnce'
  BY <1>0, <1>3 DEF UploadHeldOnce
<1>9. PayloadsHeld'
  <2> SUFFICES ASSUME NEW k \in Instance, NEW j \in Uploads
               PROVE  j \in payloads'[k] <=>
                         \/ home[j] = k /\ Alive(k)
                            /\ submitter[j] = "admitted"
                         \/ Holds(k, j)'
    BY <1>0 DEF PayloadsHeld, Alive
  <2>1. /\ payloads'[i] = payloads[i] \ {x}
        /\ k # i => payloads'[k] = payloads[k]
    BY <1>1 DEF TypeOK
  <2>2. CASE j = x
    <3>1. x \in payloads[k] => k = i
      <4>1. Holds(i, x)
        BY <1>x DEF InHand, Holds
      <4>2. QED
        BY <1>4, <2>2, <4>1 DEF PayloadsHeld, UploadHeldOnce
    <3>2. QED
      BY <1>4, <2>1, <2>2, <3>1
  <2>3. CASE j # x
    BY <1>0, <1>3, <2>1, <2>3 DEF PayloadsHeld
  <2>4. QED
    BY <2>2, <2>3
<1>10. NoLostUpload'
  <2> SUFFICES ASSUME NEW j \in Uploads, status[j] \in Unfinished,
                      Alive(owner[j])
               PROVE  \/ submitter[j] \in {"inserted", "admitted", "refusing"}
                      \/ Holds(owner[j], j)'
    <3>1. \A j \in Uploads : status[j] \in Unfinished => owner[j] \in Instance
      BY <1>0, <1>5 DEF RowsMatchSubmitters, Unfinished, TypeOK
    <3>2. QED
      BY <1>0, <3>1 DEF NoLostUpload, Alive, Holds, InQueue, InHand
  <2>1. owner[j] \in Instance /\ j # x
    BY <1>0 DEF RowsMatchSubmitters, Unfinished, Settled, TypeOK
  <2>2. QED
    BY <1>0, <1>3, <2>1 DEF NoLostUpload
<1>11. QED
  BY <1>5, <1>6, <1>7, <1>8, <1>9, <1>10

\* A worker moving through _worker and _run keeps its upload, and only it
\* writes that upload's row while it has it.
LEMMA RunStepKeeps ==
    ASSUME TypeOK, TypeOK', Custody, NEW i \in Instance, NEW w \in Worker,
           \/ Claim(i, w) \/ FindJob(i, w) \/ MarkRunning(i, w)
           \/ MarkDone(i, w) \/ MarkFailed(i, w) \/ EndWorker(i, w)
    PROVE  Custody'
<1> USE DEF Custody, database, memory
<1> DEFINE x == worker[i][w].job
<1>1. /\ UNCHANGED <<owner, proc, queue, payloads, submitter, home, reaper>>
      /\ \E pc : Advance(i, w, pc)
  BY DEF Claim, FindJob, MarkRunning, MarkDone, MarkFailed, EndWorker
<1>2. /\ \A k \in Instance, v \in Worker :
            worker'[k][v].job = worker[k][v].job
      /\ \A k \in Instance, v \in Worker :
            ~(k = i /\ v = w) => worker'[k][v].pc = worker[k][v].pc
  BY <1>1, HandChange DEF Advance
<1>3. worker[i][w] \in Hands
  BY DEF TypeOK
<1>4. x \in Uploads => /\ \A k \in Instance, v \in Worker :
                             worker[k][v].job = x => k = i /\ v = w
                       /\ Holds(i, x) /\ home[x] = i
                       /\ status[x] # "absent"
  <2> SUFFICES ASSUME x \in Uploads
               PROVE  /\ \A k \in Instance, v \in Worker :
                            worker[k][v].job = x => k = i /\ v = w
                      /\ Holds(i, x) /\ home[x] = i /\ status[x] # "absent"
    OBVIOUS
  <2>1. Holds(i, x)
    BY DEF Holds, InHand
  <2>2. submitter[x] = "accepted" /\ home[x] = i /\ OnceInHand(i, x)
    BY <2>1 DEF UploadHeldOnce
  <2>3. \A k \in Instance, v \in Worker :
           worker[k][v].job = x => k = i
    BY <2>2 DEF UploadHeldOnce, Holds, InHand
  <2>4. status[x] # "absent"
    BY <2>2, SetsAssumption DEF RowsMatchSubmitters
  <2>5. QED
    BY <2>1, <2>2, <2>3, <2>4 DEF OnceInHand
<1>5. /\ \A j \in Job : status'[j] # status[j] =>
            j = x /\ status'[x] \in {"running", "done", "failed"}
                  /\ worker[i][w].pc \in {"found", "working"}
      /\ worker'[i][w].pc = "finish" /\ x \in Uploads => status'[x] \in Settled
  <2>1. ASSUME UNCHANGED status, worker'[i][w].pc # "finish" PROVE <1>5
    BY <2>1
  <2>2. CASE Claim(i, w)
    BY <2>1, <2>2, HandChange DEF Claim, Advance
  <2>3. CASE FindJob(i, w)
    <3>1. /\ UNCHANGED status
          /\ worker'[i][w].pc = IF status[x] \in Unfinished
                                THEN "found" ELSE "finish"
      BY <2>3, HandChange DEF FindJob, Advance
    <3>2. x \in Uploads => status[x] \in Unfinished \union Settled
      BY <1>4, SetsAssumption DEF TypeOK
    <3>3. QED
      BY <3>1, <3>2
  <2>4. CASE MarkRunning(i, w)
    <3>1. worker'[i][w].pc = "working" /\ worker[i][w].pc = "found"
      BY <2>4, HandChange DEF MarkRunning, Advance, At
    <3>2. QED
      BY <2>4, <3>1 DEF MarkRunning, TypeOK
  <2>5. CASE MarkDone(i, w) \/ MarkFailed(i, w)
    <3>1. worker[i][w].pc = "working" /\ x \in Job
      BY <2>5, <1>3 DEF MarkDone, MarkFailed, At, Hands
    <3>2. QED
      BY <2>5, <3>1 DEF MarkDone, MarkFailed, TypeOK, Settled
  <2>6. CASE EndWorker(i, w)
    BY <2>1, <2>6, HandChange DEF EndWorker, Advance
  <2>7. QED
    BY <2>2, <2>3, <2>4, <2>5, <2>6
<1>6. \A j \in Uploads : status'[j] = "absent" <=> status[j] = "absent"
  BY <1>4, <1>5, SetsAssumption
<1>7. FinishedIsSettled'
  <2> SUFFICES ASSUME NEW k \in Instance, NEW v \in Worker,
                      worker'[k][v].pc = "finish",
                      worker[k][v].job \in Uploads
               PROVE  status'[worker[k][v].job] \in Settled
    BY <1>2 DEF FinishedIsSettled, At
  <2>1. CASE k = i /\ v = w
    BY <1>5, <2>1
  <2>2. CASE ~(k = i /\ v = w)
    <3>1. worker[k][v].job # x
      BY <1>4, <2>2
    <3>2. QED
      BY <1>2, <1>5, <2>2, <3>1, SetsAssumption DEF FinishedIsSettled, At
  <2>3. QED
    BY <2>1, <2>2
<1>8. ReapersTouchRows'
  BY <1>1, <1>6 DEF ReapersTouchRows, Alive, TypeOK
<1>9. \A j \in Uploads : status'[j] \in Unfinished =>
         status[j] \in Unfinished \/ Holds(home[j], j)
  BY <1>4, <1>5, SetsAssumption
<1>10. QED
  BY <1>1, <1>2, <1>6, <1>7, <1>8, <1>9, RowStepKeeps

\* The rows a reaper makes visible: no upload gets a new owner or is queued
\* again, it is only ever failed.
LEMMA PublishRows ==
    ASSUME TypeOK, NEW i \in Instance, NEW S \in SUBSET Job, Publish(i, S),
           \A j \in S \intersect Uploads : status[j] # "absent"
    PROVE  \A j \in Uploads :
              /\ owner'[j] = owner[j]
              /\ status'[j] = "absent" <=> status[j] = "absent"
              /\ status'[j] \in {status[j], "failed"}
BY SetsAssumption DEF Publish, TypeOK

LEMMA ReapRowKeeps ==
    ASSUME TypeOK, TypeOK', Custody, NEW i \in Instance,
           (\E x \in Job : ReclaimRow(i, x)) \/ CommitReap(i)
    PROVE  Custody'
<1> USE DEF Custody, memory
<1>1. PICK S \in SUBSET Job :
         /\ Publish(i, S)
         /\ \A j \in S \intersect Uploads : status[j] # "absent"
  <2>1. ASSUME NEW x \in Job, ReclaimRow(i, x)
        PROVE  \E S \in SUBSET Job :
                   /\ Publish(i, S)
                   /\ \A j \in S \intersect Uploads : status[j] # "absent"
    <3>1. x \in Uploads => status[x] # "absent"
      BY <2>1 DEF ReclaimRow, ReapersTouchRows
    <3>2. PICK S \in {{}, {x}} : Publish(i, S)
      BY <2>1 DEF ReclaimRow
    <3>3. QED
      BY <3>1, <3>2
  <2>2. ASSUME CommitReap(i)
        PROVE  \E S \in SUBSET Job :
                   /\ Publish(i, S)
                   /\ \A j \in S \intersect Uploads : status[j] # "absent"
    <3>1. reaper[i].wrote \in SUBSET Job
      BY DEF TypeOK
    <3>2. QED
      BY <2>2, <3>1 DEF CommitReap, ReapersTouchRows
  <2>3. QED
    BY <2>1, <2>2
<1>2. \A j \in Uploads :
         /\ owner'[j] = owner[j]
         /\ status'[j] = "absent" <=> status[j] = "absent"
         /\ status'[j] \in {status[j], "failed"}
  BY <1>1, PublishRows
<1>3. /\ UNCHANGED <<queue, payloads, worker, submitter, home>>
      /\ \A k \in Instance : proc'[k] = proc[k] \/ (Alive(k) /\ Alive(k)')
  <2>1. CASE \E x \in Job : ReclaimRow(i, x)
    BY <2>1 DEF ReclaimRow
  <2>2. CASE CommitReap(i)
    <3>1. \A k \in Instance :
             \/ proc'[k] = proc[k]
             \/ proc[k] = "starting" /\ proc'[k] = "up"
      BY <2>2 DEF CommitReap, TypeOK
    <3>2. QED
      BY <2>2, <3>1 DEF CommitReap, Alive
  <2>3. QED
    BY <2>1, <2>2
<1>4. FinishedIsSettled'
  BY <1>2, <1>3 DEF FinishedIsSettled, At, Settled
<1>5. ReapersTouchRows'
  <2>1. Alive(i)
    BY DEF ReapersTouchRows, ReclaimRow, CommitReap
  <2>2. \A k \in Instance \ {i} : reaper'[k] = reaper[k]
    BY DEF ReclaimRow, CommitReap, Reap, TypeOK
  <2>3. /\ reaper'[i].put \notin Uploads
        /\ \A j \in (reaper'[i].rows \union reaper'[i].wrote)
                       \intersect Uploads : status[j] # "absent"
    <3>1. ASSUME NEW x \in Job, ReclaimRow(i, x)
          PROVE  <2>3
      BY <3>1, SetsAssumption DEF ReclaimRow, Reap, ReapersTouchRows, TypeOK
    <3>2. CASE CommitReap(i)
      BY <3>2, SetsAssumption DEF CommitReap, NoReap, TypeOK
    <3>3. QED
      BY <3>1, <3>2
  <2>4. QED
    BY <1>2, <1>3, <2>1, <2>2, <2>3 DEF ReapersTouchRows, Alive
<1>6. \A j \in Uploads : status'[j] \in Unfinished => status[j] \in Unfinished
  BY <1>2 DEF Unfinished
<1>7. QED
  BY <1>2, <1>3, <1>4, <1>5, <1>6, RowStepKeeps

\* Steps that write neither a row nor a queue nor a hand.
LEMMA ProcKeeps ==
    ASSUME TypeOK, Custody, NEW i \in Instance,
           \/ StartStep(i) \/ Expire(i) \/ Heartbeat(i)
           \/ ReadLive(i) \/ SelectOrphans(i) \/ BeginDrain(i)
           \/ SeeNoneRunning(i) \/ SeeQueue(i) \/ DrainDeadline(i)
           \/ Unregister(i)
    PROVE  Custody'
<1> USE DEF database, memory
<1>1. UNCHANGED <<status, owner, queue, payloads, worker, submitter, home>>
  BY DEF StartStep, CheckPeers, Register, LaunchCli, Expire, Heartbeat,
         ReadLive, SelectOrphans, BeginDrain, SeeNoneRunning, SeeQueue,
         DrainDeadline, Unregister
<1>2. \A k \in Instance :
         \/ proc'[k] = proc[k]
         \/ proc[k] \in {"off", "checked"}
         \/ Alive(k) /\ proc'[k] \notin {"off", "checked", "gone"}
  BY DEF StartStep, CheckPeers, Register, LaunchCli, Expire, Heartbeat,
         ReadLive, SelectOrphans, BeginDrain, SeeNoneRunning, SeeQueue,
         DrainDeadline, Unregister, Alive, TypeOK
<1>3. ReapersTouchRows'
  <2> USE DEF Custody
  <2>1. CASE ReadLive(i)
    <3>1. /\ Alive(i) /\ reaper'[i].put = None /\ reaper'[i].rows = {}
          /\ reaper'[i].wrote = {}
          /\ \A k \in Instance \ {i} : reaper'[k] = reaper[k]
      BY <2>1 DEF ReadLive, Reap, Alive, Looping, TypeOK
    <3>2. UNCHANGED <<proc, status>>
      BY <2>1 DEF ReadLive
    <3>3. QED
      BY <3>1, <3>2, SetsAssumption DEF ReapersTouchRows, Alive
  <2>2. CASE SelectOrphans(i)
    <3>1. /\ Alive(i) /\ reaper'[i].put = None
          /\ \A j \in reaper'[i].rows : status[j] # "absent"
          /\ reaper'[i].wrote = {}
          /\ \A k \in Instance \ {i} : reaper'[k] = reaper[k]
      BY <2>2 DEF SelectOrphans, Reap, OrphanedJobs, Unfinished,
                  ReapersTouchRows, TypeOK
    <3>2. UNCHANGED <<proc, status>>
      BY <2>2 DEF SelectOrphans
    <3>3. QED
      BY <3>1, <3>2, SetsAssumption DEF ReapersTouchRows, Alive
  <2>3. CASE UNCHANGED reaper
    <3>1. \A k \in Instance : Alive(k) => Alive(k)'
      BY <1>2 DEF Alive
    <3>2. QED
      BY <1>1, <2>3, <3>1 DEF ReapersTouchRows
  <2>4. QED
    BY <2>1, <2>2, <2>3
    DEF StartStep, CheckPeers, Register, LaunchCli, Expire, Heartbeat,
        BeginDrain, SeeNoneRunning, SeeQueue, DrainDeadline, Unregister
<1>4. QED
  BY <1>1, <1>2, <1>3, ProcStepKeeps

-----------------------------------------------------------------------------

\* Custody is an invariant of every reachable state: Init, and one lemma for
\* each kind of step.
THEOREM CustodyHolds == Spec => []Custody
<1>1. Init => Custody
  <2> SUFFICES ASSUME Init PROVE Custody
    OBVIOUS
  <2>1. /\ \A j \in Uploads : j \in Job
        /\ \A j \in Job : j # None /\ home[j] = None
        /\ None \notin Uploads /\ None \notin Instance
    BY SetsAssumption DEF Init
  <2>2. \A k \in Instance, j \in Job :
           /\ ~InQueue(k, j) /\ ~InHand(k, j) /\ ~Holds(k, j)
           /\ OnceInQueue(k, j) /\ OnceInHand(k, j)
    BY <2>1 DEF Init, FreeHands, InQueue, InHand, Holds, OnceInQueue,
                OnceInHand
  <2>3. RowsMatchSubmitters /\ HomesServed /\ NoLostUpload
    BY <2>1 DEF Init, RowsMatchSubmitters, HomesServed, NoLostUpload,
                Unfinished
  <2>4. DeadHoldNothing /\ FinishedIsSettled /\ ReapersTouchRows
    BY <2>1 DEF Init, FreeHands, NoReap, DeadHoldNothing, FinishedIsSettled,
                ReapersTouchRows, At
  <2>5. UploadHeldOnce /\ PayloadsHeld
    BY <2>1, <2>2 DEF Init, UploadHeldOnce, PayloadsHeld
  <2>6. QED
    BY <2>3, <2>4, <2>5 DEF Custody
<1>2. TypeOK /\ TypeOK' /\ Custody /\ [Next]_vars => Custody'
  <2> SUFFICES ASSUME TypeOK, TypeOK', Custody, [Next]_vars PROVE Custody'
    OBVIOUS
  <2>1. ASSUME NEW i \in Instance,
               StartStep(i) \/ Expire(i) \/ Heartbeat(i) \/ BeginDrain(i)
        PROVE  Custody'
    BY <2>1, ProcKeeps
  <2>2. ASSUME NEW i \in Instance, Crash(i) PROVE Custody'
    BY <2>2, DieKeeps DEF Crash
  <2>3. ASSUME NEW i \in Instance, ReapStep(i) PROVE Custody'
    BY <2>3, ProcKeeps, ReapRowKeeps, PutAdoptedKeeps DEF ReapStep
  <2>4. ASSUME NEW i \in Instance, DrainStep(i) PROVE Custody'
    BY <2>4, ProcKeeps, DieKeeps DEF DrainStep, Exit, Alive
  <2>5. ASSUME NEW i \in Instance, NEW w \in Worker, WorkerStep(i, w)
        PROVE  Custody'
    BY <2>5, GetJobKeeps, RunStepKeeps, FinishKeeps DEF WorkerStep
  <2>6. ASSUME NEW i \in Instance, NEW j \in Job, Arrive(i, j)
        PROVE  Custody'
    BY <2>6, SubmitKeeps
  <2>7. ASSUME NEW j \in Job, SubmitStep(j) PROVE Custody'
    BY <2>7, SubmitKeeps, PutNowaitKeeps DEF SubmitStep
  <2>8. CASE UNCHANGED vars
    <3>1. UNCHANGED <<status, owner, proc, queue, payloads, worker, submitter,
                      home, reaper>>
      BY <2>8 DEF vars, database, memory
    <3>2. ReapersTouchRows'
      BY <3>1 DEF Custody, ReapersTouchRows, Alive
    <3>3. QED
      BY <3>1, <3>2, ProcStepKeeps
  <2>9. QED
    BY <2>1, <2>2, <2>3, <2>4, <2>5, <2>6, <2>7, <2>8 DEF Next
<1>3. QED
  BY <1>1, <1>2, QueueTypeCorrect, PTL DEF Spec

\* An upload is queued and run by the one process that took its bytes, and by
\* one worker of it: whatever reapers read, whoever is thought dead.
THEOREM UploadHeldOnceHolds == Spec => []UploadHeldOnce
BY CustodyHolds, PTL DEF Custody

\* Every payload in memory has a future user, and every user its payload.
THEOREM PayloadsHeldHolds == Spec => []PayloadsHeld
BY CustodyHolds, PTL DEF Custody

\* An accepted upload is settled or still in the memory of its living owner.
THEOREM NoLostUploadHolds == Spec => []NoLostUpload
BY CustodyHolds, PTL DEF Custody

-----------------------------------------------------------------------------
(* The byte counter.                                                       *)

\* The counter of each process is the sum of the payloads it holds.
Counted ==
    \A i \in Instance : /\ IsFiniteSet(payloads[i])
                        /\ queuedBytes[i] = Sum(Size, payloads[i])

\* The sums over the payloads of the next state, written out.
LEMMA StillCounted ==
    ASSUME \A i \in Instance : /\ IsFiniteSet(payloads'[i])
                               /\ queuedBytes'[i] = Sum(Size, payloads'[i])
    PROVE  Counted'
BY DEF Counted, Sum, Adds

\* A payload, held or not, is released with exactly its bytes: the counter is
\* never smaller than one payload that it counts, so it is never cut off at 0.
LEMMA ReleaseCounted ==
    ASSUME TypeOK, Counted, NEW i \in Instance, NEW j \in Job, ReleasePayload(i, j)
    PROVE  Counted'
<1>1. /\ payloads' = [payloads EXCEPT ![i] = payloads[i] \ {j}]
      /\ payloads \in [Instance -> SUBSET Job] /\ queuedBytes \in [Instance -> Nat]
  BY DEF ReleasePayload, TypeOK
<1>2. CASE j \notin payloads[i]
  <2>1. payloads' = payloads /\ queuedBytes' = queuedBytes
    BY <1>1, <1>2 DEF ReleasePayload
  <2>2. QED
    BY <2>1 DEF Counted
<1>3. CASE j \in payloads[i]
  <2>1. IsFiniteSet(payloads[i]) /\ IsFiniteSet(payloads[i] \ {j})
    BY FS_Subset DEF Counted
  <2>2. \A x \in payloads[i] : Size[x] \in Nat
    BY <1>1, SizesAssumption
  <2>3. Sum(Size, payloads[i]) = Size[j] + Sum(Size, payloads[i] \ {j})
    BY <1>3, <2>1, <2>2, SumSplit
  <2>4. Sum(Size, payloads[i] \ {j}) \in Nat /\ Size[j] \in Nat
    BY <1>3, <2>1, <2>2, SumIsNat
  <2>5. queuedBytes[i] = Sum(Size, payloads[i])
    BY DEF Counted
  <2>6. queuedBytes' = [queuedBytes EXCEPT ![i] =
                          IF queuedBytes[i] >= Size[j] THEN queuedBytes[i] - Size[j] ELSE 0]
    BY <1>3 DEF ReleasePayload
  <2>7. queuedBytes'[i] = Sum(Size, payloads[i] \ {j})
    BY <1>1, <2>3, <2>4, <2>5, <2>6
  <2>8. /\ payloads'[i] = payloads[i] \ {j}
        /\ \A k \in Instance \ {i} :
              payloads'[k] = payloads[k] /\ queuedBytes'[k] = queuedBytes[k]
    BY <1>1, <2>6
  <2>9. ASSUME NEW k \in Instance
        PROVE  /\ IsFiniteSet(payloads'[k])
               /\ queuedBytes'[k] = Sum(Size, payloads'[k])
    <3>1. CASE k = i
      BY <2>1, <2>7, <2>8, <3>1
    <3>2. CASE k # i
      BY <2>8, <3>2 DEF Counted
    <3>3. QED
      BY <3>1, <3>2
  <2>10. QED
    BY <2>9, StillCounted
<1>4. QED
  BY <1>2, <1>3

\* An admitted upload is counted once: its bytes were not held before.
LEMMA AdmitCounted ==
    ASSUME TypeOK, Custody, Counted, NEW j \in Job, Admit(j)
    PROVE  Counted'
<1> DEFINE i == home[j]
<1>1. /\ i \in Instance /\ submitter[j] = "inserted"
      /\ payloads \in [Instance -> SUBSET Job] /\ queuedBytes \in [Instance -> Nat]
  BY DEF Admit, TypeOK
<1>2. CASE j \notin Uploads
  BY <1>2 DEF Admit, Counted
<1>3. CASE j \in Uploads
  <2>1. /\ payloads' = [payloads EXCEPT ![i] = payloads[i] \union {j}]
        /\ queuedBytes' = [queuedBytes EXCEPT ![i] = queuedBytes[i] + Size[j]]
    BY <1>3 DEF Admit
  <2> HIDE DEF i
  <2>2. j \notin payloads[i]
    <3>1. submitter[j] # "admitted" /\ submitter[j] # "accepted"
      BY <1>1
    <3>2. ~Holds(i, j)
      BY <1>1, <1>3, <3>1 DEF Custody, UploadHeldOnce
    <3>3. QED
      BY <1>1, <1>3, <3>1, <3>2 DEF Custody, PayloadsHeld
  <2>3. /\ IsFiniteSet(payloads[i]) /\ IsFiniteSet(payloads[i] \union {j})
        /\ queuedBytes[i] = Sum(Size, payloads[i])
    BY <1>1, FS_AddElement DEF Counted
  <2>4. PICK S : S = payloads[i] \union {j} /\ S \ {j} = payloads[i]
    BY <2>2
  <2>5. \A x \in S : Size[x] \in Nat
    BY <1>1, <2>4, SizesAssumption
  <2>6. Sum(Size, S) = Size[j] + Sum(Size, payloads[i])
    <3>1. Sum(Size, S) = Size[j] + Sum(Size, S \ {j})
      BY <2>3, <2>4, <2>5, SumSplit
    <3>2. QED
      BY <2>4, <3>1
  <2>7. Sum(Size, payloads[i]) \in Nat /\ Size[j] \in Nat
    <3>1. \A x \in payloads[i] : Size[x] \in Nat
      BY <2>4, <2>5
    <3>2. Sum(Size, payloads[i]) \in Nat
      BY <2>3, <3>1, SumIsNat
    <3>3. QED
      BY <3>2, SizesAssumption
  <2>8. queuedBytes'[i] = Sum(Size, S) /\ payloads'[i] = S
    BY <1>1, <2>1, <2>3, <2>4, <2>6, <2>7
  <2>9. \A k \in Instance \ {i} :
           payloads'[k] = payloads[k] /\ queuedBytes'[k] = queuedBytes[k]
    BY <1>1, <2>1
  <2>10. ASSUME NEW k \in Instance
         PROVE  /\ IsFiniteSet(payloads'[k])
                /\ queuedBytes'[k] = Sum(Size, payloads'[k])
    <3>1. CASE k = i
      BY <2>3, <2>4, <2>8, <3>1
    <3>2. CASE k # i
      BY <2>9, <3>2 DEF Counted
    <3>3. QED
      BY <3>1, <3>2
  <2>11. QED
    BY <2>10, StillCounted
<1>4. QED
  BY <1>2, <1>3

\* A process that dies takes its counter and its payloads with it.
LEMMA DieCounted ==
    ASSUME TypeOK, Counted, NEW i \in Instance, Die(i)
    PROVE  Counted'
<1>1. /\ payloads'[i] = {} /\ queuedBytes'[i] = 0
      /\ \A k \in Instance \ {i} :
            payloads'[k] = payloads[k] /\ queuedBytes'[k] = queuedBytes[k]
  BY DEF Die, TypeOK
<1>2. Sum(Size, {}) = 0 /\ IsFiniteSet({})
  BY SumEmpty, FS_EmptySet
<1>3. ASSUME NEW k \in Instance
      PROVE  /\ IsFiniteSet(payloads'[k])
             /\ queuedBytes'[k] = Sum(Size, payloads'[k])
  <2>1. CASE k = i
    BY <1>1, <1>2, <2>1
  <2>2. CASE k # i
    BY <1>1, <2>2 DEF Counted
  <2>3. QED
    BY <2>1, <2>2
<1>4. QED
  BY <1>3, StillCounted

LEMMA StepCounted ==
    TypeOK /\ Custody /\ Counted /\ [Next]_vars => Counted'
<1> SUFFICES ASSUME TypeOK, Custody, Counted, [Next]_vars PROVE Counted'
  OBVIOUS
<1>1. CASE UNCHANGED <<payloads, queuedBytes>>
  BY <1>1 DEF Counted
<1> USE DEF memory, database
<1>2. ASSUME NEW i \in Instance,
             StartStep(i) \/ Expire(i) \/ Heartbeat(i) \/ ReapStep(i) \/ BeginDrain(i)
      PROVE  Counted'
  <2>1. UNCHANGED <<payloads, queuedBytes>>
    BY <1>2 DEF StartStep, CheckPeers, Register, LaunchCli, Expire, Heartbeat, ReapStep,
       ReadLive, SelectOrphans, ReclaimRow, PutAdopted, CommitReap, BeginDrain
  <2>2. QED
    BY <1>1, <2>1
<1>3. ASSUME NEW i \in Instance, Crash(i) \/ DrainStep(i) PROVE Counted'
  <2>1. CASE Die(i)
    BY <2>1, DieCounted
  <2>2. CASE SeeNoneRunning(i) \/ SeeQueue(i) \/ DrainDeadline(i) \/ Unregister(i)
    BY <1>1, <2>2 DEF SeeNoneRunning, SeeQueue, DrainDeadline, Unregister
  <2>3. QED
    BY <1>3, <2>1, <2>2 DEF Crash, DrainStep, Exit
<1>4. ASSUME NEW i \in Instance, NEW w \in Worker, WorkerStep(i, w) PROVE Counted'
  <2>1. CASE Finish(i, w)
    <3>1. worker[i][w].job \in Job
      <4>1. worker[i][w] \in Hands
        BY DEF TypeOK
      <4>2. worker[i][w].pc = "finish"
        BY <2>1 DEF Finish, At
      <4>3. QED
        BY <4>1, <4>2 DEF Hands
    <3>2. ReleasePayload(i, worker[i][w].job)
      BY <2>1 DEF Finish
    <3>3. QED
      BY <3>1, <3>2, ReleaseCounted
  <2>2. CASE ~Finish(i, w)
    BY <1>1, <1>4, <2>2 DEF WorkerStep, GetJob, Claim, FindJob, MarkRunning, MarkDone,
       MarkFailed, EndWorker
  <2>3. QED
    BY <2>1, <2>2
<1>5. ASSUME NEW j \in Job, SubmitStep(j) \/ \E i \in Instance : Arrive(i, j)
      PROVE  Counted'
  <2>1. CASE Admit(j)
    BY <2>1, AdmitCounted
  <2>2. CASE QueueFull(j)
    <3>1. home[j] \in Instance
      BY <2>2 DEF QueueFull, TypeOK
    <3>2. QED
      BY <2>2, <3>1, ReleaseCounted DEF QueueFull
  <2>3. CASE \/ InsertJob(j) \/ OverBudget(j) \/ PutNowait(j) \/ Reject(j)
             \/ \E i \in Instance : Arrive(i, j)
    BY <1>1, <2>3 DEF InsertJob, OverBudget, PutNowait, Reject, Arrive
  <2>4. QED
    BY <1>5, <2>1, <2>2, <2>3 DEF SubmitStep
<1>6. CASE UNCHANGED vars
  BY <1>1, <1>6 DEF vars
<1>7. QED
  BY <1>2, <1>3, <1>4, <1>5, <1>6 DEF Next

\* The byte budget never drifts: whatever was admitted, refused, finished or
\* lost with a process, each counter is the sum of the payloads still held.
THEOREM BytesCountedHolds == Spec => []BytesCounted
<1>1. Init => Counted
  <2>1. Sum(Size, {}) = 0 /\ IsFiniteSet({})
    BY SumEmpty, FS_EmptySet
  <2>2. QED
    BY <2>1 DEF Init, Counted
<1>2. Counted => BytesCounted
  BY SumIsSum DEF Counted, BytesCounted
<1>3. QED
  BY <1>1, <1>2, StepCounted, QueueTypeCorrect, CustodyHolds, PTL DEF Spec

-----------------------------------------------------------------------------
(* A home that one process at a time uses. Custody does not say enough of   *)
(* the jobs a reaper adopts: their rows change owner, and while the         *)
(* reaper's transaction is open the row in the table is not yet the one     *)
(* that the process works on.                                               *)

\* The process that has the job in its queue, in a worker's hands, or about to
\* be put.
Custodian(i, j) == Holds(i, j) \/ reaper[i].put = j

OneAtATime ==
    \A i, k \in Instance :
        i # k => proc[i] \in {"off", "gone"} \/ proc[k] \in {"off", "gone"}

\* A reaper that is not writing has nothing to write.
ReapersRest ==
    \A i \in Instance :
        /\ reaper[i].pc # "act" => /\ reaper[i].rows = {} /\ reaper[i].wrote = {}
                                   /\ reaper[i].put = None
        /\ reaper[i].pc = "select" => i \in reaper[i].live
        /\ ~Alive(i) => reaper[i].pc = "idle"

\* A row exists from insert_job on; its owner has been up; a process that
\* still serves the job's producer still owns the row.
RowsOwned ==
    \A j \in Job :
        /\ status[j] = "absent" <=> submitter[j] \in {"new", "checked"}
        /\ status[j] # "absent" => /\ owner[j] \in Instance
                                   /\ proc[owner[j]] \notin {"off", "checked"}
                                   /\ Alive(home[j]) => owner[j] = home[j]
        /\ submitter[j] = "refused" => status[j] \in Settled

\* A custodian lives, owns the row or is about to, and no producer of its own
\* is still deciding about the job.
CustodiansOwn ==
    \A i \in Instance, j \in Job : Custodian(i, j) =>
        /\ Alive(i) /\ status[j] # "absent"
        /\ owner[j] = i \/ j \in reaper[i].wrote
        /\ submitter[j] = "accepted" \/ (home[j] # i /\ submitter[j] # "refused")

\* What a reaper has selected or written belonged to somebody else and is
\* unfinished until its commit; what it has written is in its hands.
OrphansReaped ==
    \A i \in Instance :
        /\ \A j \in reaper[i].rows \union reaper[i].wrote :
              owner[j] # i /\ status[j] \in Unfinished
        /\ reaper[i].rows \intersect reaper[i].wrote = {}
        /\ \A j \in reaper[i].wrote \ Uploads : Custodian(i, j)

\* A job has one place in a process.
OnePlace ==
    \A i \in Instance, j \in Job :
        /\ OnceInQueue(i, j) /\ OnceInHand(i, j)
        /\ ~(InQueue(i, j) /\ InHand(i, j))
        /\ reaper[i].put = j => ~Holds(i, j)

\* Whatever the job, a worker in its finally block leaves a settled row.
WorkSettled ==
    \A i \in Instance, w \in Worker :
        At(i, w, "finish") => status[worker[i][w].job] \in Settled

Tenure ==
    /\ OneAtATime /\ ReapersRest /\ RowsOwned /\ CustodiansOwn
    /\ OrphansReaped /\ OnePlace /\ WorkSettled /\ NoLostJob

-----------------------------------------------------------------------------
(* Each kind of step keeps Tenure.                                          *)

LEMMA OneLives ==
    ASSUME Tenure, NEW i \in Instance, NEW k \in Instance, Alive(i), Alive(k)
    PROVE  i = k
BY DEF Tenure, OneAtATime, Alive

\* What a reaper has selected or written is with nobody but itself, and a row
\* it may still write is nobody's work.
LEMMA OrphansAlone ==
    ASSUME TypeOK, Tenure, NEW i \in Instance, NEW k \in Instance,
           NEW j \in Job, Alive(i), j \in reaper[k].rows \union reaper[k].wrote
    PROVE  /\ k = i
           /\ owner[j] # i /\ status[j] \in Unfinished
           /\ j \in reaper[k].rows =>
                 /\ j \notin reaper[k].wrote
                 /\ \A l \in Instance : ~Custodian(l, j)
<1> USE DEF Tenure
<1>1. Alive(k)
  BY DEF ReapersRest
<1>2. k = i
  BY <1>1, OneLives
<1>3. owner[j] # i /\ status[j] \in Unfinished
  BY <1>2 DEF OrphansReaped
<1>4. ASSUME j \in reaper[k].rows
      PROVE  /\ j \notin reaper[k].wrote
             /\ \A l \in Instance : ~Custodian(l, j)
  <2>1. j \notin reaper[k].wrote
    BY <1>4 DEF OrphansReaped
  <2>2. ASSUME NEW l \in Instance, Custodian(l, j) PROVE FALSE
    <3>1. Alive(l) /\ (owner[j] = l \/ j \in reaper[l].wrote)
      BY <2>2 DEF CustodiansOwn
    <3>2. l = i
      BY <3>1, OneLives
    <3>3. QED
      BY <1>2, <1>3, <2>1, <3>1, <3>2
  <2>3. QED
    BY <2>1, <2>2
<1>5. QED
  BY <1>2, <1>3, <1>4

\* Steps of a main thread, a heartbeat or a worker that move no job and write
\* no row.
LEMMA TenureQuiet ==
    ASSUME TypeOK, TypeOK', Custody, Tenure,
           UNCHANGED <<status, owner, queue, submitter, home, reaper>>,
           OneAtATime',
           \A k \in Instance :
              \/ proc'[k] = proc[k]
              \/ proc[k] \in {"off", "checked"}
              \/ Alive(k) /\ proc'[k] \notin {"off", "checked", "gone"},
           \A k \in Instance, v \in Worker :
              /\ worker'[k][v].job = worker[k][v].job
              /\ worker'[k][v].pc = "finish" =>
                    \/ worker[k][v].pc = "finish"
                    \/ status[worker[k][v].job] \in Settled
    PROVE  Tenure'
<1> USE DEF Tenure
<1>1. \A k \in Instance, j \in Job :
         /\ InQueue(k, j)' <=> InQueue(k, j)
         /\ InHand(k, j)' <=> InHand(k, j)
         /\ OnceInQueue(k, j)' <=> OnceInQueue(k, j)
         /\ OnceInHand(k, j)' <=> OnceInHand(k, j)
         /\ Holds(k, j)' <=> Holds(k, j)
         /\ Custodian(k, j)' <=> Custodian(k, j)
  BY DEF InQueue, InHand, OnceInQueue, OnceInHand, Holds, Custodian
<1>2. \A k \in Instance : Alive(k) => Alive(k)'
  BY DEF Alive
<1>3. \A k \in Instance : proc[k] \notin {"off", "checked"} =>
         /\ proc'[k] \notin {"off", "checked"}
         /\ Alive(k)' <=> Alive(k)
  BY DEF Alive
<1>4. ReapersRest'
  BY <1>2 DEF ReapersRest
<1>5. RowsOwned'
  <2> SUFFICES ASSUME NEW j \in Job, status[j] # "absent"
               PROVE  /\ owner[j] \in Instance
                      /\ proc'[owner[j]] \notin {"off", "checked"}
                      /\ Alive(home[j])' => owner[j] = home[j]
    BY DEF RowsOwned, Alive
  <2>1. submitter[j] # "new" /\ home[j] \in Instance
    BY DEF RowsOwned, TypeOK
  <2>2. proc[home[j]] \notin {"off", "checked"}
    BY <2>1 DEF Custody, HomesServed
  <2>3. /\ owner[j] \in Instance
        /\ proc[owner[j]] \notin {"off", "checked"}
        /\ Alive(home[j]) => owner[j] = home[j]
    BY DEF RowsOwned
  <2>4. QED
    BY <1>3, <2>1, <2>2, <2>3
<1>6. CustodiansOwn'
  BY <1>1, <1>2 DEF CustodiansOwn
<1>7. OrphansReaped'
  BY <1>1, SetsAssumption DEF OrphansReaped, TypeOK
<1>8. OnePlace'
  BY <1>1 DEF OnePlace
<1>9. WorkSettled'
  BY DEF WorkSettled, At
<1>10. NoLostJob'
  <2> SUFFICES ASSUME NEW j \in Job, status[j] \in Unfinished,
                      Alive(owner[j])'
               PROVE  \/ /\ submitter[j] \in {"inserted", "admitted", "refusing"}
                         /\ home[j] = owner[j]
                      \/ Holds(owner[j], j)'
                      \/ reaper[owner[j]].put = j
    BY DEF NoLostJob, Alive, Holds, InQueue, InHand
  <2>1. /\ owner[j] \in Instance
        /\ proc[owner[j]] \notin {"off", "checked"}
    BY DEF RowsOwned, Unfinished
  <2>2. Alive(owner[j])
    BY <1>3, <2>1
  <2>3. QED
    BY <1>1, <2>1, <2>2 DEF NoLostJob
<1>11. QED
  BY <1>4, <1>5, <1>6, <1>7, <1>8, <1>9, <1>10

\* What a dead process held is nowhere; its reaper's transaction never was.
LEMMA TenureDie ==
    ASSUME TypeOK, TypeOK', Tenure, NEW i \in Instance, Alive(i), Die(i)
    PROVE  Tenure'
<1> USE DEF Tenure, Die, database
<1>1. /\ proc'[i] = "gone" /\ queue'[i] = <<>>
      /\ \A w \in Worker : worker'[i][w].job = None /\ worker'[i][w].pc = "idle"
      /\ reaper'[i] = NoReap
      /\ UNCHANGED <<status, owner, submitter, home>>
  BY DEF TypeOK, FreeHands
<1>2. \A k \in Instance \ {i} :
         /\ proc'[k] = proc[k] /\ queue'[k] = queue[k]
         /\ worker'[k] = worker[k] /\ reaper'[k] = reaper[k]
  BY DEF TypeOK
<1>3. \A j \in Job : ~Holds(i, j)' /\ OnceInQueue(i, j)' /\ OnceInHand(i, j)'
                     /\ ~InQueue(i, j)' /\ ~InHand(i, j)' /\ ~Custodian(i, j)'
  <2>1. \A j \in Job : j # None
    BY SetsAssumption
  <2>2. NoReap.put = None
    BY DEF NoReap
  <2>3. QED
    BY <1>1, <2>1, <2>2
    DEF Holds, InQueue, InHand, OnceInQueue, OnceInHand, Custodian
<1>4. \A k \in Instance \ {i}, j \in Job :
         /\ InQueue(k, j)' <=> InQueue(k, j)
         /\ InHand(k, j)' <=> InHand(k, j)
         /\ OnceInQueue(k, j)' <=> OnceInQueue(k, j)
         /\ OnceInHand(k, j)' <=> OnceInHand(k, j)
         /\ Holds(k, j)' <=> Holds(k, j)
         /\ Custodian(k, j)' <=> Custodian(k, j)
  BY <1>2 DEF InQueue, InHand, OnceInQueue, OnceInHand, Holds, Custodian
<1>5. \A k \in Instance : Alive(k)' <=> Alive(k) /\ k # i
  BY <1>1, <1>2 DEF Alive
<1>6. OneAtATime'
  BY <1>1, <1>2 DEF OneAtATime
<1>7. ReapersRest'
  BY <1>1, <1>2, <1>5 DEF ReapersRest, NoReap
<1>8. RowsOwned'
  <2> SUFFICES ASSUME NEW j \in Job, status[j] # "absent"
               PROVE  /\ owner[j] \in Instance
                      /\ proc'[owner[j]] \notin {"off", "checked"}
                      /\ Alive(home[j])' => owner[j] = home[j]
    BY <1>1 DEF RowsOwned, Alive
  <2>1. home[j] \in Instance
    BY DEF RowsOwned, TypeOK
  <2>2. QED
    BY <1>1, <1>2, <1>5, <2>1 DEF RowsOwned
<1>9. CustodiansOwn'
  BY <1>1, <1>2, <1>3, <1>4, <1>5 DEF CustodiansOwn
<1>10. OrphansReaped'
  <2>1. NoReap.rows = {} /\ NoReap.wrote = {}
    BY DEF NoReap
  <2>2. ASSUME NEW k \in Instance \ {i}
        PROVE  \A j \in reaper[k].wrote \ Uploads :
                  Custodian(k, j)' <=> Custodian(k, j)
    BY <1>4 DEF TypeOK
  <2>3. QED
    BY <1>1, <1>2, <2>1, <2>2 DEF OrphansReaped
<1>11. OnePlace'
  BY <1>2, <1>3, <1>4, <1>1, SetsAssumption DEF OnePlace, NoReap
<1>12. WorkSettled'
  BY <1>1, <1>2 DEF WorkSettled, At
<1>13. NoLostJob'
  <2> SUFFICES ASSUME NEW j \in Job, status[j] \in Unfinished,
                      Alive(owner[j])'
               PROVE  \/ /\ submitter[j] \in {"inserted", "admitted", "refusing"}
                         /\ home[j] = owner[j]
                      \/ Holds(owner[j], j)'
                      \/ reaper'[owner[j]].put = j
    BY <1>1 DEF NoLostJob, Alive, Holds, InQueue, InHand
  <2>1. owner[j] \in Instance
    BY DEF RowsOwned, Unfinished
  <2>2. Alive(owner[j]) /\ owner[j] # i
    BY <1>5, <2>1
  <2>3. QED
    BY <1>2, <1>4, <2>1, <2>2 DEF NoLostJob
<1>14. QED
  BY <1>6, <1>7, <1>8, <1>9, <1>10, <1>11, <1>12, <1>13

\* MarkRunning, MarkDone and MarkFailed write the row of a job that the process
\* owns and that no open transaction has.
LEMMA TenureWrite ==
    ASSUME TypeOK, TypeOK', Tenure, NEW i \in Instance, NEW w \in Worker,
           MarkRunning(i, w) \/ MarkDone(i, w) \/ MarkFailed(i, w)
    PROVE  Tenure'
<1> USE DEF Tenure, memory
<1> DEFINE x == worker[i][w].job
<1>1. /\ UNCHANGED <<owner, proc, queue, submitter, home, reaper>>
      /\ \E pc : Advance(i, w, pc)
      /\ worker[i][w].pc \in {"found", "working"} /\ Unlocked(x)
  BY DEF MarkRunning, MarkDone, MarkFailed, At
<1>2. /\ \A k \in Instance, j \in Job :
            /\ InQueue(k, j)' <=> InQueue(k, j)
            /\ InHand(k, j)' <=> InHand(k, j)
            /\ OnceInQueue(k, j)' <=> OnceInQueue(k, j)
            /\ OnceInHand(k, j)' <=> OnceInHand(k, j)
      /\ \A k \in Instance, v \in Worker :
            worker'[k][v].job = worker[k][v].job
  BY <1>1, AdvanceHolders
<1>3. \A k \in Instance, j \in Job : /\ Holds(k, j)' <=> Holds(k, j)
                                     /\ Custodian(k, j)' <=> Custodian(k, j)
  BY <1>1, <1>2 DEF Holds, Custodian
<1>4. x \in Job /\ InHand(i, x) /\ Holds(i, x) /\ Custodian(i, x)
  <2>1. worker[i][w] \in Hands
    BY DEF TypeOK
  <2>2. QED
    BY <1>1, <2>1 DEF Hands, InHand, Holds, Custodian
<1>5. /\ Alive(i) /\ owner[x] = i /\ status[x] # "absent"
      /\ submitter[x] # "refused"
  BY <1>1, <1>4 DEF CustodiansOwn, Unlocked
<1>6. \A k \in Instance, v \in Worker :
         worker[k][v].job = x => k = i /\ v = w
  <2> SUFFICES ASSUME NEW k \in Instance, NEW v \in Worker,
                      worker[k][v].job = x
               PROVE  k = i /\ v = w
    OBVIOUS
  <2>1. Custodian(k, x)
    BY DEF InHand, Holds, Custodian
  <2>2. k = i
    BY <1>4, <1>5, <2>1, OneLives DEF CustodiansOwn
  <2>3. QED
    BY <1>4, <2>2 DEF OnePlace, OnceInHand
<1>7. /\ \A j \in Job \ {x} : status'[j] = status[j]
      /\ status'[x] \in {"running", "done", "failed"}
      /\ worker'[i][w].pc = "finish" => status'[x] \in Settled
      /\ \A k \in Instance, v \in Worker :
            ~(k = i /\ v = w) => worker'[k][v].pc = worker[k][v].pc
  <2>1. CASE MarkRunning(i, w)
    <3>1. worker'[i][w].pc = "working"
      BY <2>1, HandChange DEF MarkRunning, Advance
    <3>2. QED
      BY <2>1, <1>4, <3>1, HandChange DEF MarkRunning, Advance, TypeOK
  <2>2. CASE MarkDone(i, w)
    BY <2>2, <1>4, HandChange DEF MarkDone, Advance, TypeOK, Settled
  <2>3. CASE MarkFailed(i, w)
    BY <2>3, <1>4, HandChange DEF MarkFailed, Advance, TypeOK, Settled
  <2>4. QED
    BY <2>1, <2>2, <2>3
<1>8. \A k \in Instance : x \notin reaper[k].rows \union reaper[k].wrote
  BY <1>4, <1>5, OrphansAlone
<1> HIDE DEF x
<1>9. OneAtATime' /\ ReapersRest'
  BY <1>1 DEF OneAtATime, ReapersRest, Alive
<1>10. RowsOwned'
  <2> SUFFICES ASSUME NEW j \in Job
               PROVE  /\ status'[j] = "absent" <=> submitter[j] \in {"new", "checked"}
                      /\ status'[j] # "absent" =>
                            /\ owner[j] \in Instance
                            /\ proc[owner[j]] \notin {"off", "checked"}
                            /\ Alive(home[j]) => owner[j] = home[j]
                      /\ submitter[j] = "refused" => status'[j] \in Settled
    BY <1>1 DEF RowsOwned, Alive
  <2>1. status'[j] = "absent" <=> status[j] = "absent"
    BY <1>5, <1>7
  <2>2. QED
    BY <2>1, <1>5, <1>7 DEF RowsOwned
<1>11. CustodiansOwn'
  <2>1. \A j \in Job : status[j] # "absent" => status'[j] # "absent"
    BY <1>5, <1>7
  <2>2. \A k \in Instance : Alive(k)' <=> Alive(k)
    BY <1>1 DEF Alive
  <2>3. QED
    BY <1>1, <1>3, <2>1, <2>2 DEF CustodiansOwn
<1>12. OrphansReaped'
  <2> SUFFICES ASSUME NEW k \in Instance
               PROVE  /\ \A j \in reaper[k].rows \union reaper[k].wrote :
                            owner[j] # k /\ status'[j] \in Unfinished
                      /\ reaper[k].rows \intersect reaper[k].wrote = {}
                      /\ \A j \in reaper[k].wrote \ Uploads : Custodian(k, j)'
    BY <1>1 DEF OrphansReaped
  <2>1. reaper[k].rows \subseteq Job /\ reaper[k].wrote \subseteq Job
    BY DEF TypeOK
  <2>2. QED
    BY <1>3, <1>7, <1>8, <2>1 DEF OrphansReaped
<1>13. OnePlace'
  BY <1>1, <1>2, <1>3 DEF OnePlace
<1>14. WorkSettled'
  <2> SUFFICES ASSUME NEW k \in Instance, NEW v \in Worker,
                      worker'[k][v].pc = "finish"
               PROVE  status'[worker[k][v].job] \in Settled
    BY <1>2 DEF WorkSettled, At
  <2>1. CASE k = i /\ v = w
    BY <1>7, <2>1 DEF x
  <2>2. CASE ~(k = i /\ v = w)
    <3>1. worker[k][v] \in Hands /\ worker[k][v].pc = "finish"
      BY <1>7, <2>2 DEF TypeOK
    <3>2. worker[k][v].job \in Job \ {x}
      BY <1>6, <2>2, <3>1 DEF Hands
    <3>3. QED
      BY <1>7, <3>1, <3>2 DEF WorkSettled, At
  <2>3. QED
    BY <2>1, <2>2
<1>15. NoLostJob'
  <2> SUFFICES ASSUME NEW j \in Job, status'[j] \in Unfinished,
                      Alive(owner[j])
               PROVE  \/ /\ submitter[j] \in {"inserted", "admitted", "refusing"}
                         /\ home[j] = owner[j]
                      \/ Holds(owner[j], j)'
                      \/ reaper[owner[j]].put = j
    BY <1>1 DEF NoLostJob, Alive, Holds, InQueue, InHand
  <2>1. CASE j = x
    BY <1>1, <1>3, <1>4, <1>5, <2>1
  <2>2. CASE j # x
    <3>1. status[j] \in Unfinished /\ owner[j] \in Instance
      BY <1>7, <2>2 DEF RowsOwned, Unfinished
    <3>2. QED
      BY <1>1, <1>3, <3>1 DEF NoLostJob
  <2>3. QED
    BY <2>1, <2>2
<1>16. QED
  BY <1>9, <1>10, <1>11, <1>12, <1>13, <1>14, <1>15

\* The head of a queue moves into a worker's hands.
LEMMA TenureGet ==
    ASSUME TypeOK, TypeOK', Tenure, NEW i \in Instance, NEW w \in Worker,
           GetJob(i, w)
    PROVE  Tenure'
<1> USE DEF Tenure
<1>0. queue[i] # <<>> /\ Head(queue[i]) \in Job
  BY TailElements DEF TypeOK, GetJob
<1>2. PICK x \in Job : x = Head(queue[i])
  BY <1>0
<1>1. /\ UNCHANGED <<status, owner, live, proc, submitter, home, reaper>>
      /\ queue' = [queue EXCEPT ![i] = Tail(@)] /\ queue[i] # <<>>
      /\ Hold(i, w, "got", x) /\ worker[i][w].pc = "idle"
      /\ Alive(i)
  BY <1>2 DEF GetJob, database, At, Staffed
<1>3. /\ InQueue(i, x)
      /\ OnceInQueue(i, x) => ~InQueue(i, x)'
      /\ \A k \in Instance, j \in Job :
            /\ InQueue(k, j)' => InQueue(k, j)
            /\ InQueue(k, j) => InQueue(k, j)' \/ (k = i /\ j = x)
            /\ OnceInQueue(k, j) => OnceInQueue(k, j)'
  BY <1>1, <1>2, TailHolders
<1>4. /\ worker[i][w].job = None
      /\ \A k \in Instance, v \in Worker :
            /\ worker'[k][v].job = IF k = i /\ v = w THEN x
                                   ELSE worker[k][v].job
            /\ worker'[k][v].pc = IF k = i /\ v = w THEN "got"
                                  ELSE worker[k][v].pc
  <2>1. worker[i][w] \in Hands
    BY DEF TypeOK
  <2>2. QED
    BY <1>1, <2>1, HandChange DEF Hands
<1>5. \A k \in Instance, j \in Job :
         InHand(k, j)' <=> InHand(k, j) \/ (k = i /\ j = x)
  <2>1. \A j \in Job : j # None
    BY SetsAssumption
  <2>2. QED
    BY <1>4, <2>1 DEF InHand
<1>6. ~InHand(i, x) /\ OnceInQueue(i, x) /\ reaper[i].put # x
  BY <1>2, <1>3 DEF OnePlace, Holds
<1>7. \A k \in Instance, j \in Job : OnceInHand(k, j)'
  <2> SUFFICES ASSUME NEW k \in Instance, NEW j \in Job,
                      NEW u \in Worker, NEW v \in Worker,
                      worker'[k][u].job = j, worker'[k][v].job = j
               PROVE  u = v
    BY DEF OnceInHand
  <2>1. OnceInHand(k, j)
    BY DEF OnePlace
  <2>2. CASE k = i /\ j = x
    BY <1>4, <1>6, <2>2 DEF InHand
  <2>3. CASE ~(k = i /\ j = x)
    BY <1>4, <2>1, <2>3 DEF OnceInHand
  <2>4. QED
    BY <2>2, <2>3
<1>8. \A k \in Instance, j \in Job : /\ Holds(k, j)' <=> Holds(k, j)
                                     /\ Custodian(k, j)' <=> Custodian(k, j)
  BY <1>1, <1>3, <1>5 DEF Holds, Custodian
<1>9. OneAtATime' /\ ReapersRest' /\ RowsOwned'
  BY <1>1 DEF OneAtATime, ReapersRest, RowsOwned, Alive
<1>10. CustodiansOwn'
  BY <1>1, <1>8 DEF CustodiansOwn, Alive
<1>11. OrphansReaped'
  BY <1>1, <1>8 DEF OrphansReaped, TypeOK
<1>12. OnePlace'
  <2> SUFFICES ASSUME NEW k \in Instance, NEW j \in Job
               PROVE  /\ OnceInQueue(k, j)' /\ ~(InQueue(k, j)' /\ InHand(k, j)')
                      /\ reaper[k].put = j => ~Holds(k, j)
    BY <1>1, <1>7, <1>8 DEF OnePlace
  <2>1. /\ OnceInQueue(k, j) /\ ~(InQueue(k, j) /\ InHand(k, j))
        /\ reaper[k].put = j => ~Holds(k, j)
    BY DEF OnePlace
  <2>2. QED
    BY <1>3, <1>5, <1>6, <2>1
<1>13. WorkSettled'
  BY <1>1, <1>4 DEF WorkSettled, At
<1>14. NoLostJob'
  <2>1. \A j \in Job : status[j] \in Unfinished => owner[j] \in Instance
    BY DEF RowsOwned, Unfinished
  <2>2. \A j \in Job : status[j] \in Unfinished =>
           (Holds(owner[j], j)' <=> Holds(owner[j], j))
    BY <1>1, <1>8, <2>1
  <2>3. QED
    BY <1>1, <2>2 DEF NoLostJob, Alive
<1>15. QED
  BY <1>9, <1>10, <1>11, <1>12, <1>13, <1>14

\* A worker lets go of a job whose row is settled.
LEMMA TenureFinish ==
    ASSUME TypeOK, TypeOK', Tenure, NEW i \in Instance, NEW w \in Worker,
           Finish(i, w)
    PROVE  Tenure'
<1> USE DEF Tenure
<1> DEFINE x == worker[i][w].job
<1>1. /\ UNCHANGED <<status, owner, live, proc, queue, submitter, home, reaper>>
      /\ worker[i][w].pc = "finish"
      /\ \E pc \in {"idle", "ended"} : Hold(i, w, pc, None)
  BY DEF Finish, database, At
<1>2. x \in Job /\ status[x] \in Settled
  <2>1. worker[i][w] \in Hands
    BY DEF TypeOK
  <2>2. QED
    BY <1>1, <2>1 DEF Hands, WorkSettled, At
<1> HIDE DEF x
<1>3. /\ \A k \in Instance, v \in Worker :
            /\ worker'[k][v].job = IF k = i /\ v = w THEN None
                                   ELSE worker[k][v].job
            /\ worker'[k][v].pc = "finish" =>
                  ~(k = i /\ v = w) /\ worker[k][v].pc = "finish"
  BY <1>1, HandChange
<1>4. \A j \in Job : j # None
  BY SetsAssumption
<1>5. \A k \in Instance, j \in Job :
         /\ InQueue(k, j)' <=> InQueue(k, j)
         /\ OnceInQueue(k, j)' <=> OnceInQueue(k, j)
         /\ InHand(k, j)' => InHand(k, j)
         /\ InHand(k, j) => InHand(k, j)' \/ (k = i /\ j = x)
         /\ OnceInHand(k, j) => OnceInHand(k, j)'
  BY <1>1, <1>3, <1>4 DEF InQueue, OnceInQueue, InHand, OnceInHand, x
<1>6. \A k \in Instance, j \in Job :
         /\ Holds(k, j)' => Holds(k, j)
         /\ Holds(k, j) => Holds(k, j)' \/ (k = i /\ j = x)
         /\ Custodian(k, j)' => Custodian(k, j)
         /\ Custodian(k, j) => Custodian(k, j)' \/ (k = i /\ j = x)
  BY <1>1, <1>5 DEF Holds, Custodian
<1>7. OneAtATime' /\ ReapersRest' /\ RowsOwned'
  BY <1>1 DEF OneAtATime, ReapersRest, RowsOwned, Alive
<1>8. CustodiansOwn'
  BY <1>1, <1>6 DEF CustodiansOwn, Alive
<1>9. OrphansReaped'
  <2>1. \A k \in Instance : x \notin reaper[k].wrote
    BY <1>2 DEF OrphansReaped, Unfinished, Settled
  <2>2. QED
    BY <1>1, <1>6, <2>1 DEF OrphansReaped, TypeOK
<1>10. OnePlace'
  BY <1>1, <1>5, <1>6 DEF OnePlace
<1>11. WorkSettled'
  BY <1>1, <1>3 DEF WorkSettled, At
<1>12. NoLostJob'
  <2>1. \A j \in Job : status[j] \in Unfinished =>
           owner[j] \in Instance /\ j # x
    BY <1>2 DEF RowsOwned, Unfinished, Settled
  <2>2. \A j \in Job : status[j] \in Unfinished =>
           (Holds(owner[j], j)' <=> Holds(owner[j], j))
    BY <1>1, <1>6, <2>1
  <2>3. QED
    BY <1>1, <2>2 DEF NoLostJob, Alive
<1>13. QED
  BY <1>7, <1>8, <1>9, <1>10, <1>11, <1>12

\* Steps of submit() that move no job; whoever decides about a job still owns
\* its row, so no reaper has it.
LEMMA TenureSubmit ==
    ASSUME TypeOK, TypeOK', Tenure, NEW x \in Job,
           \/ \E i \in Instance : Arrive(i, x)
           \/ InsertJob(x) \/ Admit(x) \/ OverBudget(x) \/ QueueFull(x)
           \/ Reject(x)
    PROVE  Tenure'
<1> USE DEF Tenure, database, memory
<1>1. UNCHANGED <<proc, queue, worker, reaper>>
  BY DEF Arrive, InsertJob, Admit, OverBudget, QueueFull, Reject
<1>2. /\ \A k \in Instance, j \in Job :
            /\ InQueue(k, j)' <=> InQueue(k, j)
            /\ InHand(k, j)' <=> InHand(k, j)
            /\ OnceInQueue(k, j)' <=> OnceInQueue(k, j)
            /\ OnceInHand(k, j)' <=> OnceInHand(k, j)
            /\ Holds(k, j)' <=> Holds(k, j)
            /\ Custodian(k, j)' <=> Custodian(k, j)
      /\ \A k \in Instance : Alive(k)' <=> Alive(k)
  BY <1>1, SameHolders DEF Holds, Custodian, Alive
<1>3. \A j \in Job \ {x} : /\ status'[j] = status[j] /\ owner'[j] = owner[j]
                          /\ home'[j] = home[j]
                          /\ submitter'[j] = submitter[j]
  BY DEF TypeOK, Arrive, InsertJob, Admit, OverBudget, QueueFull, Reject
<1>4. /\ home'[x] \in Instance /\ Alive(home'[x])
      /\ submitter[x] # "new" => home'[x] = home[x]
      /\ submitter[x] \in {"new", "checked", "inserted", "admitted", "refusing"}
  BY DEF TypeOK, Arrive, InsertJob, Admit, OverBudget, QueueFull, Reject, Alive
<1>5. \A k \in Instance : ~Custodian(k, x)
  <2> SUFFICES ASSUME NEW k \in Instance, Custodian(k, x) PROVE FALSE
    OBVIOUS
  <2>1. /\ Alive(k) /\ status[x] # "absent"
        /\ submitter[x] = "accepted" \/ home[x] # k
    BY DEF CustodiansOwn
  <2>2. home[x] = home'[x]
    BY <1>4, <2>1 DEF RowsOwned
  <2>3. QED
    BY <1>4, <2>1, <2>2, OneLives
<1>6. \A k \in Instance : x \notin reaper[k].rows \union reaper[k].wrote
  <2> SUFFICES ASSUME NEW k \in Instance,
                      x \in reaper[k].rows \union reaper[k].wrote
               PROVE  FALSE
    OBVIOUS
  <2>1. owner[x] # home'[x] /\ status[x] \in Unfinished
    BY <1>4, OrphansAlone
  <2>2. /\ submitter[x] # "new"
        /\ Alive(home[x]) => owner[x] = home[x]
    BY <2>1 DEF RowsOwned, Unfinished
  <2>3. QED
    BY <1>4, <2>1, <2>2
<1>7. /\ status'[x] = "absent" <=> submitter'[x] \in {"new", "checked"}
      /\ status'[x] # "absent" => owner'[x] = home'[x]
      /\ submitter'[x] = "refused" => status'[x] = "failed"
      /\ status'[x] \in Unfinished =>
            submitter'[x] \in {"inserted", "admitted", "refusing"}
  <2>1. /\ status[x] = "absent" <=> submitter[x] \in {"new", "checked"}
        /\ status[x] # "absent" /\ Alive(home[x]) => owner[x] = home[x]
    BY DEF RowsOwned
  <2>2. ASSUME NEW i \in Instance, Arrive(i, x) PROVE <1>7
    BY <2>1, <2>2 DEF Arrive, TypeOK, Unfinished
  <2>3. CASE InsertJob(x)
    BY <2>1, <2>3 DEF InsertJob, TypeOK
  <2>4. CASE Admit(x)
    BY <1>4, <2>1, <2>4 DEF Admit, TypeOK
  <2>5. CASE OverBudget(x)
    BY <1>4, <2>1, <2>5 DEF OverBudget, TypeOK
  <2>6. CASE QueueFull(x)
    BY <1>4, <2>1, <2>6 DEF QueueFull, TypeOK
  <2>7. CASE Reject(x)
    BY <1>4, <2>1, <2>7 DEF Reject, TypeOK, Unfinished
  <2>8. QED
    BY <2>2, <2>3, <2>4, <2>5, <2>6, <2>7
<1>8. OneAtATime' /\ ReapersRest'
  BY <1>1, <1>2 DEF OneAtATime, ReapersRest
<1>9. RowsOwned'
  <2> SUFFICES ASSUME NEW j \in Job
               PROVE  /\ status'[j] = "absent" <=> submitter'[j] \in {"new", "checked"}
                      /\ status'[j] # "absent" =>
                            /\ owner'[j] \in Instance
                            /\ proc[owner'[j]] \notin {"off", "checked"}
                            /\ Alive(home[j])' => owner'[j] = home'[j]
                      /\ submitter'[j] = "refused" => status'[j] \in Settled
    BY <1>1 DEF RowsOwned
  <2>1. CASE j = x
    BY <1>4, <1>7, <2>1 DEF Alive, Settled
  <2>2. CASE j # x
    <3>1. Alive(home[j])' <=> Alive(home[j])
      BY <1>1, <1>3, <2>2 DEF Alive
    <3>2. QED
      BY <1>3, <2>2, <3>1 DEF RowsOwned
  <2>3. QED
    BY <2>1, <2>2
<1>10. CustodiansOwn'
  BY <1>1, <1>2, <1>3, <1>5 DEF CustodiansOwn
<1>11. OrphansReaped'
  <2>1. \A k \in Instance : /\ reaper[k].rows \subseteq Job
                            /\ reaper[k].wrote \subseteq Job
    BY DEF TypeOK
  <2>2. QED
    BY <1>1, <1>2, <1>3, <1>6, <2>1 DEF OrphansReaped
<1>12. OnePlace'
  BY <1>1, <1>2 DEF OnePlace
<1>13. WorkSettled'
  <2> SUFFICES ASSUME NEW k \in Instance, NEW v \in Worker,
                      worker[k][v].pc = "finish"
               PROVE  status'[worker[k][v].job] \in Settled
    BY <1>1 DEF WorkSettled, At
  <2>1. worker[k][v] \in Hands
    BY DEF TypeOK
  <2>2. worker[k][v].job \in Job /\ Custodian(k, worker[k][v].job)
    BY <2>1 DEF Hands, InHand, Holds, Custodian
  <2>3. QED
    BY <1>3, <1>5, <2>2 DEF WorkSettled, At
<1>14. NoLostJob'
  <2> SUFFICES ASSUME NEW j \in Job, status'[j] \in Unfinished,
                      Alive(owner'[j])
               PROVE  \/ /\ submitter'[j] \in {"inserted", "admitted", "refusing"}
                         /\ home'[j] = owner'[j]
                      \/ Holds(owner'[j], j)
                      \/ reaper[owner'[j]].put = j
    BY <1>1 DEF NoLostJob, Alive, Holds, InQueue, InHand
  <2>1. CASE j = x
    BY <1>7, <2>1 DEF Unfinished
  <2>2. CASE j # x
    BY <1>3, <2>2 DEF NoLostJob
  <2>3. QED
    BY <2>1, <2>2
<1>15. QED
  BY <1>8, <1>9, <1>10, <1>11, <1>12, <1>13, <1>14

\* A job enters the queue of the process that is serving its producer.
LEMMA TenurePut ==
    ASSUME TypeOK, TypeOK', Tenure, NEW x \in Job, PutNowait(x)
    PROVE  Tenure'
<1> USE DEF Tenure, database
<1>0. home[x] \in Instance
  BY DEF PutNowait, TypeOK
<1>1. PICK i \in Instance : i = home[x]
  BY <1>0
<1>2. /\ Alive(i) /\ submitter[x] = "admitted" /\ submitter'[x] = "accepted"
      /\ queue' = [queue EXCEPT ![i] = Append(@, x)]
      /\ UNCHANGED <<status, owner, live, proc, worker, home, reaper>>
      /\ \A j \in Job \ {x} : submitter'[j] = submitter[j]
  BY <1>1 DEF PutNowait, TypeOK
<1>3. owner[x] = i /\ status[x] # "absent"
  BY <1>1, <1>2 DEF RowsOwned
<1>4. \A k \in Instance : ~Custodian(k, x)
  BY <1>1, <1>2, OneLives DEF CustodiansOwn
<1>5. /\ \A k \in Instance, j \in Job :
            /\ InQueue(k, j)' <=> InQueue(k, j) \/ (k = i /\ j = x)
            /\ OnceInQueue(k, j) /\ ~(k = i /\ j = x /\ InQueue(i, x))
                  => OnceInQueue(k, j)'
  BY <1>2, AppendHolders
<1>6. \A k \in Instance, j \in Job :
         /\ InHand(k, j)' <=> InHand(k, j)
         /\ OnceInHand(k, j)' <=> OnceInHand(k, j)
         /\ Holds(k, j)' <=> Holds(k, j) \/ (k = i /\ j = x)
         /\ Custodian(k, j)' <=> Custodian(k, j) \/ (k = i /\ j = x)
  BY <1>2, <1>5 DEF InHand, OnceInHand, Holds, Custodian
<1>7. OneAtATime' /\ ReapersRest'
  BY <1>2 DEF OneAtATime, ReapersRest, Alive
<1>8. RowsOwned'
  <2> SUFFICES ASSUME NEW j \in Job
               PROVE  /\ status[j] = "absent" <=> submitter'[j] \in {"new", "checked"}
                      /\ status[j] # "absent" =>
                            /\ owner[j] \in Instance
                            /\ proc[owner[j]] \notin {"off", "checked"}
                            /\ Alive(home[j]) => owner[j] = home[j]
                      /\ submitter'[j] = "refused" => status[j] \in Settled
    BY <1>2 DEF RowsOwned, Alive
  <2>1. CASE j = x
    BY <1>2, <1>3, <2>1 DEF RowsOwned
  <2>2. CASE j # x
    BY <1>2, <2>2 DEF RowsOwned
  <2>3. QED
    BY <2>1, <2>2
<1>9. CustodiansOwn'
  <2>1. \A k \in Instance : Alive(k)' <=> Alive(k)
    BY <1>2 DEF Alive
  <2>2. QED
    BY <1>2, <1>3, <1>4, <1>6, <2>1 DEF CustodiansOwn
<1>10. OrphansReaped'
  BY <1>2, <1>6 DEF OrphansReaped, TypeOK
<1>11. OnePlace'
  <2> SUFFICES ASSUME NEW k \in Instance, NEW j \in Job
               PROVE  /\ OnceInQueue(k, j)' /\ OnceInHand(k, j)'
                      /\ ~(InQueue(k, j)' /\ InHand(k, j)')
                      /\ reaper[k].put = j => ~Holds(k, j)'
    BY <1>2 DEF OnePlace
  <2>1. /\ OnceInQueue(k, j) /\ OnceInHand(k, j)
        /\ ~(InQueue(k, j) /\ InHand(k, j))
        /\ reaper[k].put = j => ~Holds(k, j)
    BY DEF OnePlace
  <2>2. ~InQueue(i, x) /\ ~InHand(i, x) /\ reaper[i].put # x
    BY <1>4 DEF Custodian, Holds
  <2>3. QED
    BY <1>5, <1>6, <2>1, <2>2
<1>12. WorkSettled'
  BY <1>2 DEF WorkSettled, At
<1>13. NoLostJob'
  <2> SUFFICES ASSUME NEW j \in Job, status[j] \in Unfinished,
                      Alive(owner[j])
               PROVE  \/ /\ submitter'[j] \in {"inserted", "admitted", "refusing"}
                         /\ home[j] = owner[j]
                      \/ Holds(owner[j], j)'
                      \/ reaper[owner[j]].put = j
    BY <1>2 DEF NoLostJob, Alive
  <2>1. owner[j] \in Instance
    BY DEF RowsOwned, Unfinished
  <2>2. Holds(owner[j], j)' <=> Holds(owner[j], j) \/ (owner[j] = i /\ j = x)
    BY <1>2, <1>6, <2>1
  <2>3. QED
    BY <1>2, <1>3, <2>2 DEF NoLostJob
<1>14. QED
  BY <1>7, <1>8, <1>9, <1>10, <1>11, <1>12, <1>13

\* The put of an adopted job: from the reaper's hands into the queue.
LEMMA TenureAdopt ==
    ASSUME TypeOK, TypeOK', Tenure, NEW i \in Instance, PutAdopted(i)
    PROVE  Tenure'
<1> USE DEF Tenure, database
<1>0. reaper[i].put \in Job
  BY DEF PutAdopted, TypeOK
<1>1. PICK x \in Job : x = reaper[i].put
  BY <1>0
<1>2. /\ queue' = [queue EXCEPT ![i] = Append(@, x)]
      /\ UNCHANGED <<status, owner, live, proc, worker, submitter, home>>
      /\ reaper'[i] = [pc |-> "act", live |-> {}, rows |-> reaper[i].rows,
                       put |-> None, wrote |-> reaper[i].wrote]
      /\ \A k \in Instance \ {i} : reaper'[k] = reaper[k]
  BY <1>1 DEF PutAdopted, Reap, TypeOK
<1>3. /\ \A j \in Job : j # None
      /\ Alive(i) /\ ~Holds(i, x)
  BY <1>1, SetsAssumption DEF ReapersRest, OnePlace
<1>4. \A k \in Instance, j \in Job :
         /\ InQueue(k, j)' <=> InQueue(k, j) \/ (k = i /\ j = x)
         /\ OnceInQueue(k, j) /\ ~(k = i /\ j = x /\ InQueue(i, x))
               => OnceInQueue(k, j)'
  BY <1>2, AppendHolders
<1>5. \A k \in Instance, j \in Job :
         /\ InHand(k, j)' <=> InHand(k, j)
         /\ OnceInHand(k, j)' <=> OnceInHand(k, j)
         /\ Holds(k, j)' <=> Holds(k, j) \/ (k = i /\ j = x)
  BY <1>2, <1>4 DEF InHand, OnceInHand, Holds
<1>6. \A k \in Instance, j \in Job : Custodian(k, j)' <=> Custodian(k, j)
  <2> SUFFICES ASSUME NEW k \in Instance, NEW j \in Job
               PROVE  Custodian(k, j)' <=> Custodian(k, j)
    OBVIOUS
  <2>1. CASE k = i
    BY <1>1, <1>2, <1>3, <1>5, <2>1 DEF Custodian
  <2>2. CASE k # i
    BY <1>2, <1>5, <2>2 DEF Custodian
  <2>3. QED
    BY <2>1, <2>2
<1>7. OneAtATime' /\ RowsOwned' /\ WorkSettled'
  BY <1>2 DEF OneAtATime, RowsOwned, WorkSettled, At, Alive
<1>8. ReapersRest'
  BY <1>2, <1>3 DEF ReapersRest, Alive
<1>9. CustodiansOwn'
  <2>1. \A k \in Instance : reaper'[k].wrote = reaper[k].wrote
    BY <1>2
  <2>2. QED
    BY <1>2, <1>6, <2>1 DEF CustodiansOwn, Alive
<1>10. OrphansReaped'
  <2>1. \A k \in Instance : /\ reaper'[k].wrote = reaper[k].wrote
                            /\ reaper'[k].rows = reaper[k].rows
    BY <1>2
  <2>2. \A k \in Instance : reaper[k].wrote \subseteq Job
    BY DEF TypeOK
  <2>3. QED
    BY <1>2, <1>6, <2>1, <2>2 DEF OrphansReaped
<1>11. OnePlace'
  <2> SUFFICES ASSUME NEW k \in Instance, NEW j \in Job
               PROVE  /\ OnceInQueue(k, j)' /\ OnceInHand(k, j)'
                      /\ ~(InQueue(k, j)' /\ InHand(k, j)')
                      /\ reaper'[k].put = j => ~Holds(k, j)'
    BY <1>2 DEF OnePlace
  <2>1. /\ OnceInQueue(k, j) /\ OnceInHand(k, j)
        /\ ~(InQueue(k, j) /\ InHand(k, j))
        /\ reaper[k].put = j => ~Holds(k, j)
    BY DEF OnePlace
  <2>2. ~InQueue(i, x) /\ ~InHand(i, x)
    BY <1>3 DEF Holds
  <2>3. reaper'[k].put = j => k # i /\ reaper[k].put = j
    BY <1>2, <1>3
  <2>4. QED
    BY <1>4, <1>5, <2>1, <2>2, <2>3
<1>12. NoLostJob'
  <2> SUFFICES ASSUME NEW j \in Job, status[j] \in Unfinished,
                      Alive(owner[j])
               PROVE  \/ /\ submitter[j] \in {"inserted", "admitted", "refusing"}
                         /\ home[j] = owner[j]
                      \/ Holds(owner[j], j)'
                      \/ reaper'[owner[j]].put = j
    BY <1>2 DEF NoLostJob, Alive
  <2>1. owner[j] \in Instance
    BY DEF RowsOwned, Unfinished
  <2>2. Custodian(owner[j], j)' <=> Custodian(owner[j], j)
    BY <1>2, <1>6, <2>1
  <2>3. QED
    BY <1>2, <2>2 DEF NoLostJob, Custodian
<1>13. QED
  BY <1>7, <1>8, <1>9, <1>10, <1>11, <1>12

\* A reaper selects the rows of others: it counts itself among the living.
LEMMA TenureSelect ==
    ASSUME TypeOK, TypeOK', Tenure, NEW i \in Instance,
           ReadLive(i) \/ SelectOrphans(i)
    PROVE  Tenure'
<1> USE DEF Tenure, database, memory
<1>1. /\ UNCHANGED <<status, owner, live, proc, queue, worker, submitter, home>>
      /\ \A k \in Instance \ {i} : reaper'[k] = reaper[k]
      /\ Alive(i) /\ reaper[i].put = None /\ reaper[i].wrote = {}
  BY DEF ReadLive, SelectOrphans, Reap, ReapersRest, Looping, Alive, TypeOK
<1>2. /\ reaper'[i].put = None /\ reaper'[i].wrote = {}
      /\ \A j \in reaper'[i].rows : owner[j] # i /\ status[j] \in Unfinished
      /\ reaper'[i].pc # "act" => reaper'[i].rows = {}
      /\ reaper'[i].pc = "select" => i \in reaper'[i].live
  <2>1. CASE ReadLive(i)
    <3>1. reaper'[i] = [pc |-> "select", live |-> live \union {i}, rows |-> {},
                        put |-> None, wrote |-> {}]
      BY <2>1 DEF ReadLive, Reap, TypeOK
    <3>2. QED
      BY <3>1
  <2>2. CASE SelectOrphans(i)
    <3>1. /\ reaper'[i] = [pc |-> "act", live |-> {},
                           rows |-> OrphanedJobs(reaper[i].live),
                           put |-> None, wrote |-> {}]
          /\ i \in reaper[i].live
      BY <2>2 DEF SelectOrphans, Reap, ReapersRest, TypeOK
    <3>2. \A j \in OrphanedJobs(reaper[i].live) :
             owner[j] # i /\ status[j] \in Unfinished
      BY <3>1 DEF OrphanedJobs
    <3>3. QED
      BY <3>1, <3>2
  <2>3. QED
    BY <2>1, <2>2
<1>3. \A k \in Instance, j \in Job :
         /\ InQueue(k, j)' <=> InQueue(k, j)
         /\ InHand(k, j)' <=> InHand(k, j)
         /\ OnceInQueue(k, j)' <=> OnceInQueue(k, j)
         /\ OnceInHand(k, j)' <=> OnceInHand(k, j)
         /\ Holds(k, j)' <=> Holds(k, j)
  BY <1>1, SameHolders DEF Holds
<1>4. \A k \in Instance : /\ reaper'[k].put = reaper[k].put
                          /\ reaper'[k].wrote = reaper[k].wrote
  BY <1>1, <1>2
<1>5. \A k \in Instance, j \in Job : Custodian(k, j)' <=> Custodian(k, j)
  BY <1>3, <1>4 DEF Custodian
<1>6. OneAtATime' /\ RowsOwned' /\ WorkSettled'
  BY <1>1 DEF OneAtATime, RowsOwned, WorkSettled, At, Alive
<1>7. ReapersRest'
  BY <1>1, <1>2 DEF ReapersRest, Alive
<1>8. CustodiansOwn'
  BY <1>1, <1>4, <1>5 DEF CustodiansOwn, Alive
<1>9. OrphansReaped'
  <2> SUFFICES ASSUME NEW k \in Instance
               PROVE  /\ \A j \in reaper'[k].rows \union reaper'[k].wrote :
                            owner[j] # k /\ status[j] \in Unfinished
                      /\ reaper'[k].rows \intersect reaper'[k].wrote = {}
                      /\ \A j \in reaper'[k].wrote \ Uploads : Custodian(k, j)'
    BY <1>1 DEF OrphansReaped
  <2>1. CASE k = i
    BY <1>2, <2>1
  <2>2. CASE k # i
    BY <1>1, <1>5, <2>2 DEF OrphansReaped, TypeOK
  <2>3. QED
    BY <2>1, <2>2
<1>10. OnePlace'
  BY <1>1, <1>3, <1>4 DEF OnePlace
<1>11. NoLostJob'
  <2>1. \A j \in Job : status[j] \in Unfinished => owner[j] \in Instance
    BY DEF RowsOwned, Unfinished
  <2>2. \A j \in Job : status[j] \in Unfinished =>
           /\ Holds(owner[j], j)' <=> Holds(owner[j], j)
           /\ reaper'[owner[j]].put = reaper[owner[j]].put
    BY <1>1, <1>3, <1>4, <2>1
  <2>3. QED
    BY <1>1, <2>2 DEF NoLostJob, Alive
<1>12. QED
  BY <1>6, <1>7, <1>8, <1>9, <1>10, <1>11

\* One row of a dead owner: failed, or requeued under this process and put next.
LEMMA TenureReclaim ==
    ASSUME TypeOK, TypeOK', Custody, Tenure, NEW i \in Instance, NEW x \in Job,
           ReclaimRow(i, x)
    PROVE  Tenure'
<1> USE DEF Tenure, memory
<1>1. /\ UNCHANGED <<live, proc, queue, worker, submitter, home>>
      /\ x \in reaper[i].rows /\ reaper[i].put = None /\ reaper[i].pc = "act"
      /\ Publish(i, IF Transactional THEN {} ELSE {x})
      /\ reaper'[i] = [pc |-> "act", live |-> {},
                       rows |-> reaper[i].rows \ {x},
                       put |-> IF x \in Uploads THEN None ELSE x,
                       wrote |-> reaper[i].wrote
                                   \union (IF Transactional THEN {x} ELSE {})]
      /\ \A k \in Instance \ {i} : reaper'[k] = reaper[k]
  BY DEF ReclaimRow, Reap, TypeOK
<1>2. /\ Alive(i) /\ \A j \in Job : j # None
      /\ \A k \in Instance : reaper[k].rows \subseteq Job /\ reaper[k].wrote \subseteq Job
  BY <1>1, SetsAssumption DEF ReapersRest, TypeOK
<1>3. /\ owner[x] # i /\ status[x] \in Unfinished /\ x \notin reaper[i].wrote
      /\ \A k \in Instance : ~Custodian(k, x)
  BY <1>1, <1>2, OrphansAlone
<1>4. /\ submitter[x] \notin {"new", "checked", "refused"}
      /\ home[x] \in Instance /\ ~Alive(home[x]) /\ home[x] # i
  <2>1. submitter[x] \notin {"new", "checked", "refused"}
    BY <1>3 DEF RowsOwned, Unfinished, Settled
  <2>2. home[x] \in Instance
    BY <2>1 DEF TypeOK
  <2>3. Alive(home[x]) => home[x] = i
    BY <1>2, <2>2, OneLives
  <2>4. Alive(home[x]) => owner[x] = home[x]
    BY <1>3 DEF RowsOwned, Unfinished
  <2>5. QED
    BY <1>2, <1>3, <2>1, <2>2, <2>3, <2>4
<1>5. /\ \A j \in Job \ {x} : status'[j] = status[j] /\ owner'[j] = owner[j]
      /\ Transactional => status'[x] = status[x] /\ owner'[x] = owner[x]
      /\ ~Transactional =>
            /\ x \in Uploads => status'[x] = "failed" /\ owner'[x] = owner[x]
            /\ x \notin Uploads => status'[x] = "queued" /\ owner'[x] = i
  BY <1>1 DEF Publish, TypeOK
<1>6. \A k \in Instance, j \in Job :
         /\ InQueue(k, j)' <=> InQueue(k, j)
         /\ InHand(k, j)' <=> InHand(k, j)
         /\ OnceInQueue(k, j)' <=> OnceInQueue(k, j)
         /\ OnceInHand(k, j)' <=> OnceInHand(k, j)
         /\ Holds(k, j)' <=> Holds(k, j)
  BY <1>1, SameHolders DEF Holds
<1>7. \A k \in Instance, j \in Job :
         Custodian(k, j)' <=> Custodian(k, j) \/ (k = i /\ j = x /\ x \notin Uploads)
  <2> SUFFICES ASSUME NEW k \in Instance, NEW j \in Job
               PROVE  Custodian(k, j)' <=>
                         Custodian(k, j) \/ (k = i /\ j = x /\ x \notin Uploads)
    OBVIOUS
  <2>1. CASE k = i
    BY <1>1, <1>2, <1>6, <2>1 DEF Custodian
  <2>2. CASE k # i
    BY <1>1, <1>6, <2>2 DEF Custodian
  <2>3. QED
    BY <2>1, <2>2
<1>8. \A k \in Instance : Alive(k)' <=> Alive(k)
  BY <1>1 DEF Alive
<1>9. OneAtATime' /\ ReapersRest'
  BY <1>1, <1>2, <1>8 DEF OneAtATime, ReapersRest
<1>10. status[x] # "absent" /\ status'[x] # "absent" /\ owner'[x] \in {owner[x], i}
  BY <1>3, <1>5 DEF Unfinished
<1>11. RowsOwned'
  <2> SUFFICES ASSUME NEW j \in Job
               PROVE  /\ status'[j] = "absent" <=> submitter[j] \in {"new", "checked"}
                      /\ status'[j] # "absent" =>
                            /\ owner'[j] \in Instance
                            /\ proc[owner'[j]] \notin {"off", "checked"}
                            /\ Alive(home[j]) => owner'[j] = home[j]
                      /\ submitter[j] = "refused" => status'[j] \in Settled
    BY <1>1 DEF RowsOwned, Alive
  <2>1. CASE j = x
    <3>1. owner[x] \in Instance /\ proc[owner[x]] \notin {"off", "checked"}
      BY <1>10 DEF RowsOwned
    <3>2. proc[i] \notin {"off", "checked"}
      BY <1>2 DEF Alive
    <3>3. QED
      BY <1>4, <1>10, <2>1, <3>1, <3>2
  <2>2. CASE j # x
    BY <1>5, <2>2 DEF RowsOwned
  <2>3. QED
    BY <2>1, <2>2
<1>12. CustodiansOwn'
  <2> SUFFICES ASSUME NEW k \in Instance, NEW j \in Job, Custodian(k, j)'
               PROVE  /\ Alive(k) /\ status'[j] # "absent"
                      /\ owner'[j] = k \/ j \in reaper'[k].wrote
                      /\ \/ submitter[j] = "accepted"
                         \/ home[j] # k /\ submitter[j] # "refused"
    BY <1>1, <1>8 DEF CustodiansOwn
  <2>1. CASE j = x
    <3>1. k = i /\ x \notin Uploads
      BY <1>3, <1>7, <2>1
    <3>2. owner'[x] = i \/ x \in reaper'[i].wrote
      BY <1>1, <1>5, <3>1
    <3>3. QED
      BY <1>2, <1>4, <1>10, <2>1, <3>1, <3>2
  <2>2. CASE j # x
    <3>1. Custodian(k, j) /\ owner'[j] = owner[j] /\ status'[j] = status[j]
      BY <1>5, <1>7, <2>2
    <3>2. reaper[k].wrote \subseteq reaper'[k].wrote
      BY <1>1
    <3>3. QED
      BY <3>1, <3>2 DEF CustodiansOwn
  <2>3. QED
    BY <2>1, <2>2
<1>13. OrphansReaped'
  <2> SUFFICES ASSUME NEW k \in Instance
               PROVE  /\ \A j \in reaper'[k].rows \union reaper'[k].wrote :
                            owner'[j] # k /\ status'[j] \in Unfinished
                      /\ reaper'[k].rows \intersect reaper'[k].wrote = {}
                      /\ \A j \in reaper'[k].wrote \ Uploads : Custodian(k, j)'
    BY DEF OrphansReaped
  <2>1. CASE k = i
    <3>1. /\ reaper'[i].rows = reaper[i].rows \ {x}
          /\ Transactional => reaper'[i].wrote = reaper[i].wrote \union {x}
          /\ ~Transactional => reaper'[i].wrote = reaper[i].wrote
      BY <1>1
    <3>2. ASSUME NEW j \in (reaper'[i].rows \union reaper'[i].wrote) \ {x}
          PROVE  owner'[j] # i /\ status'[j] \in Unfinished
      <4>1. j \in reaper[i].rows \union reaper[i].wrote /\ j \in Job \ {x}
        BY <1>2, <3>1
      <4>2. QED
        BY <1>5, <4>1 DEF OrphansReaped
    <3>3. x \in reaper'[i].rows \union reaper'[i].wrote =>
             owner'[x] # i /\ status'[x] \in Unfinished
      BY <1>3, <1>5, <3>1
    <3>4. reaper'[i].rows \intersect reaper'[i].wrote = {}
      BY <3>1 DEF OrphansReaped
    <3>5. \A j \in reaper'[i].wrote \ Uploads : Custodian(i, j)'
      BY <1>2, <1>7, <3>1 DEF OrphansReaped
    <3>6. QED
      BY <2>1, <3>2, <3>3, <3>4, <3>5
  <2>2. CASE k # i
    <3>1. reaper'[k] = reaper[k] /\ reaper[k].rows = {} /\ reaper[k].wrote = {}
      BY <1>1, <1>2, <2>2, OneLives DEF ReapersRest
    <3>2. QED
      BY <3>1
  <2>3. QED
    BY <2>1, <2>2
<1>14. OnePlace'
  <2> SUFFICES ASSUME NEW k \in Instance, NEW j \in Job
               PROVE  reaper'[k].put = j => ~Holds(k, j)
    BY <1>6 DEF OnePlace
  <2>1. reaper'[k].put = j => reaper[k].put = j \/ j = x
    BY <1>1, <1>2
  <2>2. QED
    BY <1>3, <2>1 DEF OnePlace, Custodian
<1>15. WorkSettled'
  <2> SUFFICES ASSUME NEW k \in Instance, NEW v \in Worker,
                      worker[k][v].pc = "finish"
               PROVE  status'[worker[k][v].job] \in Settled
    BY <1>1 DEF WorkSettled, At
  <2>1. worker[k][v] \in Hands
    BY DEF TypeOK
  <2>2. worker[k][v].job \in Job /\ Custodian(k, worker[k][v].job)
    BY <2>1 DEF Hands, InHand, Holds, Custodian
  <2>3. QED
    BY <1>3, <1>5, <2>2 DEF WorkSettled, At
<1>16. NoLostJob'
  <2> SUFFICES ASSUME NEW j \in Job, status'[j] \in Unfinished,
                      Alive(owner'[j])
               PROVE  \/ /\ submitter[j] \in {"inserted", "admitted", "refusing"}
                         /\ home[j] = owner'[j]
                      \/ Holds(owner'[j], j)
                      \/ reaper'[owner'[j]].put = j
    <3>1. \A j \in Job : status'[j] \in Unfinished => owner'[j] \in Instance
      BY <1>11 DEF RowsOwned, Unfinished
    <3>2. QED
      BY <1>1, <1>6, <3>1 DEF NoLostJob, Alive, Holds, InQueue, InHand
  <2>1. CASE j = x /\ owner'[x] = i
    <3>1. x \notin Uploads
      BY <1>3, <1>5, <2>1
    <3>2. QED
      BY <1>1, <2>1, <3>1
  <2>2. CASE j = x /\ owner'[x] # i
    <3>1. owner[x] \in Instance /\ owner'[x] = owner[x]
      BY <1>10, <2>2 DEF RowsOwned
    <3>2. QED
      BY <1>2, <2>2, <3>1, OneLives
  <2>3. CASE j # x
    <3>1. /\ owner'[j] = owner[j] /\ status'[j] = status[j]
          /\ owner[j] \in Instance
      BY <1>5, <2>3 DEF RowsOwned, Unfinished
    <3>2. reaper[owner[j]].put = j => reaper'[owner[j]].put = j
      BY <1>1, <1>2, <3>1
    <3>3. QED
      BY <3>1, <3>2 DEF NoLostJob
  <2>4. QED
    BY <2>1, <2>2, <2>3
<1>17. QED
  BY <1>9, <1>11, <1>12, <1>13, <1>14, <1>15, <1>16

\* The commit gives the process the rows of the jobs it already holds.
LEMMA TenureCommit ==
    ASSUME TypeOK, TypeOK', Custody, Tenure, NEW i \in Instance, CommitReap(i)
    PROVE  Tenure'
<1> USE DEF Tenure, memory
<1>1. /\ UNCHANGED <<live, queue, worker, submitter, home>>
      /\ reaper[i].pc = "act" /\ reaper[i].rows = {} /\ reaper[i].put = None
      /\ Publish(i, reaper[i].wrote)
      /\ reaper'[i] = NoReap
      /\ \A k \in Instance \ {i} : reaper'[k] = reaper[k]
      /\ \A k \in Instance : \/ proc'[k] = proc[k]
                             \/ proc[k] = "starting" /\ proc'[k] = "up"
  BY DEF CommitReap, TypeOK
<1>0. PICK S \in SUBSET Job : S = reaper[i].wrote
  BY DEF TypeOK
<1>2. /\ Alive(i) /\ \A j \in Job : j # None
      /\ \A k \in Instance : Alive(k)' <=> Alive(k)
  BY <1>1, SetsAssumption DEF ReapersRest, Alive
<1>3. \A j \in S : /\ owner[j] # i /\ status[j] \in Unfinished
                   /\ j \notin Uploads => Custodian(i, j)
  BY <1>0 DEF OrphansReaped
<1>4. \A j \in S : /\ submitter[j] \notin {"new", "checked", "refused"}
                   /\ ~Alive(home[j]) /\ home[j] # i
  <2> SUFFICES ASSUME NEW j \in S
               PROVE  /\ submitter[j] \notin {"new", "checked", "refused"}
                      /\ ~Alive(home[j]) /\ home[j] # i
    OBVIOUS
  <2>1. submitter[j] \notin {"new", "checked", "refused"}
    BY <1>3 DEF RowsOwned, Unfinished, Settled
  <2>2. home[j] \in Instance
    BY <2>1 DEF TypeOK
  <2>3. Alive(home[j]) => home[j] = i
    BY <1>2, <2>2, OneLives
  <2>4. Alive(home[j]) => owner[j] = home[j]
    BY <1>3 DEF RowsOwned, Unfinished
  <2>5. QED
    BY <1>2, <1>3, <2>1, <2>3, <2>4
<1>5. /\ \A j \in Job \ S : status'[j] = status[j] /\ owner'[j] = owner[j]
      /\ \A j \in S \intersect Uploads :
            status'[j] = "failed" /\ owner'[j] = owner[j]
      /\ \A j \in S \ Uploads : status'[j] = "queued" /\ owner'[j] = i
  BY <1>0, <1>1 DEF Publish, TypeOK
<1>6. \A k \in Instance, j \in Job :
         /\ InQueue(k, j)' <=> InQueue(k, j)
         /\ InHand(k, j)' <=> InHand(k, j)
         /\ OnceInQueue(k, j)' <=> OnceInQueue(k, j)
         /\ OnceInHand(k, j)' <=> OnceInHand(k, j)
         /\ Holds(k, j)' <=> Holds(k, j)
  BY <1>1, SameHolders DEF Holds
<1>7. \A k \in Instance : reaper'[k].put = reaper[k].put
  BY <1>1 DEF NoReap
<1>8. \A k \in Instance, j \in Job : Custodian(k, j)' <=> Custodian(k, j)
  BY <1>6, <1>7 DEF Custodian
<1>9. \A j \in S \intersect Uploads, k \in Instance : ~Custodian(k, j)
  <2> SUFFICES ASSUME NEW j \in S \intersect Uploads, NEW k \in Instance,
                      Custodian(k, j)
               PROVE  FALSE
    OBVIOUS
  <2>1. k = i
    BY <1>2, OneLives DEF CustodiansOwn
  <2>2. Holds(i, j)
    BY <1>1, <1>2, <2>1 DEF Custodian
  <2>3. home[j] = i
    BY <2>2 DEF Custody, UploadHeldOnce
  <2>4. QED
    BY <1>4, <2>3
<1>10. OneAtATime'
  BY <1>1 DEF OneAtATime
<1>11. ReapersRest'
  BY <1>1, <1>2 DEF ReapersRest, NoReap
<1>12. RowsOwned'
  <2> SUFFICES ASSUME NEW j \in Job
               PROVE  /\ status'[j] = "absent" <=> submitter[j] \in {"new", "checked"}
                      /\ status'[j] # "absent" =>
                            /\ owner'[j] \in Instance
                            /\ proc'[owner'[j]] \notin {"off", "checked"}
                            /\ Alive(home[j])' => owner'[j] = home[j]
                      /\ submitter[j] = "refused" => status'[j] \in Settled
    BY <1>1 DEF RowsOwned
  <2>0. \A k \in Instance : proc[k] \notin {"off", "checked"} =>
           proc'[k] \notin {"off", "checked"}
    BY <1>1
  <2>1. CASE j \in S
    <3>1. owner[j] \in Instance /\ proc[owner[j]] \notin {"off", "checked"}
      BY <1>3, <2>1 DEF RowsOwned, Unfinished
    <3>2. proc[i] \notin {"off", "checked"}
      BY <1>2 DEF Alive
    <3>3. status'[j] # "absent" /\ owner'[j] \in {owner[j], i}
      BY <1>5, <2>1
    <3>4. home[j] \in Instance /\ submitter[j] \notin {"new", "checked", "refused"}
      BY <1>4, <2>1 DEF TypeOK
    <3>5. ~Alive(home[j])'
      BY <1>1, <1>2, <1>4, <2>1, <3>4 DEF Alive
    <3>6. QED
      BY <2>0, <3>1, <3>2, <3>3, <3>4, <3>5
  <2>2. CASE j \notin S
    <3>1. status'[j] = status[j] /\ owner'[j] = owner[j]
      BY <1>5, <2>2
    <3>2. status[j] # "absent" =>
             home[j] \in Instance /\ (Alive(home[j])' <=> Alive(home[j]))
      <4>1. status[j] # "absent" => home[j] \in Instance
        BY DEF RowsOwned, TypeOK
      <4>2. QED
        BY <1>1, <1>2, <4>1
    <3>3. QED
      BY <2>0, <3>1, <3>2 DEF RowsOwned
  <2>3. QED
    BY <2>1, <2>2
<1>13. CustodiansOwn'
  <2> SUFFICES ASSUME NEW k \in Instance, NEW j \in Job, Custodian(k, j)
               PROVE  /\ Alive(k) /\ status'[j] # "absent" /\ owner'[j] = k
                      /\ \/ submitter[j] = "accepted"
                         \/ home[j] # k /\ submitter[j] # "refused"
    BY <1>1, <1>2, <1>8 DEF CustodiansOwn
  <2>1. /\ Alive(k) /\ status[j] # "absent"
        /\ owner[j] = k \/ j \in reaper[k].wrote
        /\ submitter[j] = "accepted" \/ (home[j] # k /\ submitter[j] # "refused")
    BY DEF CustodiansOwn
  <2>2. k = i
    BY <1>2, <2>1, OneLives
  <2>3. CASE j \in S
    BY <1>5, <1>9, <2>1, <2>2, <2>3
  <2>4. CASE j \notin S
    BY <1>0, <1>5, <2>1, <2>2, <2>4
  <2>5. QED
    BY <2>3, <2>4
<1>14. OrphansReaped'
  <2>1. \A k \in Instance : reaper'[k].rows = {} /\ reaper'[k].wrote = {}
    BY <1>1, <1>2, OneLives DEF ReapersRest, NoReap
  <2>2. QED
    BY <2>1 DEF OrphansReaped
<1>15. OnePlace'
  BY <1>6, <1>7 DEF OnePlace
<1>16. WorkSettled'
  <2> SUFFICES ASSUME NEW k \in Instance, NEW v \in Worker,
                      worker[k][v].pc = "finish"
               PROVE  status'[worker[k][v].job] \in Settled
    BY <1>1 DEF WorkSettled, At
  <2>1. worker[k][v] \in Hands
    BY DEF TypeOK
  <2>2. /\ worker[k][v].job \in Job
        /\ status[worker[k][v].job] \in Settled
    BY <2>1 DEF Hands, WorkSettled, At
  <2>3. worker[k][v].job \notin S
    BY <1>3, <2>2 DEF Unfinished, Settled
  <2>4. QED
    BY <1>5, <2>2, <2>3
<1>17. NoLostJob'
  <2> SUFFICES ASSUME NEW j \in Job, status'[j] \in Unfinished,
                      Alive(owner[j])'
               PROVE  \/ /\ submitter[j] \in {"inserted", "admitted", "refusing"}
                         /\ home[j] = owner'[j]
                      \/ Custodian(owner'[j], j)
    <3>1. \A j \in Job : status'[j] \in Unfinished => owner'[j] \in Instance
      BY <1>12 DEF RowsOwned, Unfinished
    <3>2. \A j \in Job : status'[j] \in Unfinished =>
             /\ Holds(owner[j], j)' <=> Holds(owner'[j], j)
             /\ reaper'[owner'[j]].put = reaper[owner'[j]].put
      BY <1>6, <1>7, <3>1
    <3>3. QED
      BY <1>1, <3>1, <3>2 DEF NoLostJob, Custodian
  <2>1. CASE j \in S
    <3>1. owner'[j] = i /\ Custodian(i, j)
      BY <1>3, <1>5, <2>1 DEF Unfinished
    <3>2. QED
      BY <3>1
  <2>2. CASE j \notin S
    <3>1. /\ owner'[j] = owner[j] /\ status'[j] = status[j]
          /\ owner[j] \in Instance
      BY <1>5, <2>2 DEF RowsOwned, Unfinished
    <3>2. Alive(owner[j])
      BY <1>2, <3>1
    <3>3. QED
      BY <3>1, <3>2 DEF NoLostJob, Custodian
  <2>3. QED
    BY <2>1, <2>2
<1>18. QED
  BY <1>10, <1>11, <1>12, <1>13, <1>14, <1>15, <1>16, <1>17

-----------------------------------------------------------------------------

\* Where one process at a time uses the home, every reachable state satisfies
\* Tenure: Custody for the uploads, and one lemma for each kind of step.
THEOREM TenureHolds == ASSUME ~Overlap PROVE Spec => []Tenure
<1>1. Init => Tenure
  <2> SUFFICES ASSUME Init PROVE Tenure
    OBVIOUS
  <2>1. /\ \A j \in Job : j # None
        /\ \A i \in Instance : ~Alive(i) /\ reaper[i] = NoReap
    BY SetsAssumption DEF Init, Alive
  <2>2. \A i \in Instance, j \in Job :
           /\ ~InQueue(i, j) /\ ~InHand(i, j) /\ ~Holds(i, j)
           /\ OnceInQueue(i, j) /\ OnceInHand(i, j) /\ ~Custodian(i, j)
    BY <2>1 DEF Init, FreeHands, NoReap, InQueue, InHand, Holds, OnceInQueue,
                OnceInHand, Custodian
  <2>3. OneAtATime /\ ReapersRest /\ OrphansReaped /\ OnePlace
    BY <2>1, <2>2 DEF Init, NoReap, OneAtATime, ReapersRest, OrphansReaped,
                      OnePlace
  <2>4. RowsOwned /\ CustodiansOwn /\ WorkSettled /\ NoLostJob
    BY <2>1, <2>2 DEF Init, FreeHands, RowsOwned, CustodiansOwn, WorkSettled,
                      NoLostJob, At, Unfinished
  <2>5. QED
    BY <2>3, <2>4 DEF Tenure
<1>2. ASSUME ~Overlap, TypeOK, TypeOK', Custody, Tenure, [Next]_vars
      PROVE  Tenure'
  <2>0. ~Overlap /\ TypeOK /\ TypeOK' /\ Custody /\ Tenure /\ OneAtATime
    BY <1>2 DEF Tenure
  <2> USE <2>0
  <2> USE DEF database, memory
  <2>1. ASSUME NEW i \in Instance,
               StartStep(i) \/ Expire(i) \/ Heartbeat(i) \/ BeginDrain(i)
        PROVE  Tenure'
    <3>1. UNCHANGED <<status, owner, queue, worker, submitter, home, reaper>>
      BY <2>1 DEF StartStep, CheckPeers, Register, LaunchCli, Expire,
                  Heartbeat, BeginDrain
    <3>2. /\ OneAtATime'
          /\ \A k \in Instance :
                \/ proc'[k] = proc[k]
                \/ proc[k] \in {"off", "checked"}
                \/ Alive(k) /\ proc'[k] \notin {"off", "checked", "gone"}
      <4>1. CASE CheckPeers(i)
        BY <4>1 DEF CheckPeers, Lone, OneAtATime, TypeOK
      <4>2. CASE LaunchCli(i)
        BY <4>2 DEF LaunchCli, Lone, OneAtATime, TypeOK
      <4>3. CASE Register(i)
        BY <4>3 DEF Register, OneAtATime, TypeOK
      <4>4. CASE BeginDrain(i)
        BY <4>4 DEF BeginDrain, OneAtATime, Alive, TypeOK
      <4>5. CASE Expire(i) \/ Heartbeat(i)
        BY <4>5 DEF Expire, Heartbeat, OneAtATime
      <4>6. QED
        BY <2>1, <4>1, <4>2, <4>3, <4>4, <4>5 DEF StartStep
    <3>3. QED
      BY <3>1, <3>2, TenureQuiet
  <2>2. ASSUME NEW i \in Instance, Crash(i) PROVE Tenure'
    BY <2>2, TenureDie DEF Crash
  <2>3. ASSUME NEW i \in Instance, ReapStep(i) PROVE Tenure'
    BY <2>3, TenureSelect, TenureReclaim, TenureAdopt, TenureCommit
    DEF ReapStep
  <2>4. ASSUME NEW i \in Instance, DrainStep(i) PROVE Tenure'
    <3>1. CASE Exit(i)
      BY <3>1, TenureDie DEF Exit, Alive
    <3>2. CASE ~Exit(i)
      <4>1. /\ UNCHANGED <<status, owner, queue, worker, submitter, home,
                           reaper>>
            /\ \A k \in Instance :
                  \/ proc'[k] = proc[k]
                  \/ /\ proc[k] \in {"draining", "idleSeen", "stopped"}
                     /\ proc'[k] \in {"idleSeen", "draining", "stopped", "exiting"}
        BY <2>4, <3>2 DEF DrainStep, SeeNoneRunning, SeeQueue, DrainDeadline,
                          Unregister, TypeOK
      <4>2. OneAtATime'
        BY <4>1 DEF OneAtATime
      <4>3. \A k \in Instance :
               \/ proc'[k] = proc[k]
               \/ Alive(k) /\ proc'[k] \notin {"off", "checked", "gone"}
        BY <4>1 DEF Alive
      <4>4. QED
        BY <4>1, <4>2, <4>3, TenureQuiet
    <3>3. QED
      BY <3>1, <3>2
  <2>5. ASSUME NEW i \in Instance, NEW w \in Worker, WorkerStep(i, w)
        PROVE  Tenure'
    <3>1. CASE GetJob(i, w)
      BY <3>1, TenureGet
    <3>2. CASE MarkRunning(i, w) \/ MarkDone(i, w) \/ MarkFailed(i, w)
      BY <3>2, TenureWrite
    <3>3. CASE Finish(i, w)
      BY <3>3, TenureFinish
    <3>4. CASE Claim(i, w) \/ FindJob(i, w) \/ EndWorker(i, w)
      <4>1. /\ UNCHANGED <<status, owner, proc, queue, submitter, home, reaper>>
            /\ \E pc : /\ Advance(i, w, pc)
                       /\ pc = "finish" =>
                             /\ worker[i][w].pc = "claimed"
                             /\ status[worker[i][w].job] \notin Unfinished
        BY <3>4 DEF Claim, FindJob, EndWorker, At
      <4>2. /\ \A k \in Instance, v \in Worker :
                  worker'[k][v].job = worker[k][v].job
            /\ \A k \in Instance, v \in Worker :
                  worker'[k][v].pc = "finish" =>
                     \/ worker[k][v].pc = "finish"
                     \/ /\ k = i /\ v = w /\ worker[i][w].pc = "claimed"
                        /\ status[worker[i][w].job] \notin Unfinished
        BY <4>1, HandChange DEF Advance
      <4>3. worker[i][w].pc = "claimed" =>
               /\ worker[i][w].job \in Job
               /\ status[worker[i][w].job] # "absent"
        <5>1. worker[i][w] \in Hands
          BY DEF TypeOK
        <5>2. worker[i][w].pc = "claimed" =>
                 /\ worker[i][w].job \in Job
                 /\ Custodian(i, worker[i][w].job)
          BY <5>1 DEF Hands, Custodian, Holds, InHand
        <5>3. QED
          BY <5>2 DEF Tenure, CustodiansOwn
      <4>4. worker[i][w].pc = "claimed"
               /\ status[worker[i][w].job] \notin Unfinished
            => status[worker[i][w].job] \in Settled
        BY <4>3 DEF TypeOK
      <4>5. OneAtATime'
        BY <4>1 DEF OneAtATime
      <4>6. QED
        BY <4>1, <4>2, <4>4, <4>5, TenureQuiet
    <3>5. QED
      BY <2>5, <3>1, <3>2, <3>3, <3>4 DEF WorkerStep
  <2>6. ASSUME NEW i \in Instance, NEW j \in Job, Arrive(i, j)
        PROVE  Tenure'
    BY <2>6, TenureSubmit
  <2>7. ASSUME NEW j \in Job, SubmitStep(j) PROVE Tenure'
    BY <2>7, TenureSubmit, TenurePut DEF SubmitStep
  <2>8. CASE UNCHANGED vars
    <3>1. UNCHANGED <<status, owner, proc, queue, worker, submitter, home,
                      reaper>>
      BY <2>8 DEF vars
    <3>2. OneAtATime'
      BY <3>1 DEF OneAtATime
    <3>3. QED
      BY <3>1, <3>2, TenureQuiet
  <2>9. QED
    BY <1>2, <2>1, <2>2, <2>3, <2>4, <2>5, <2>6, <2>7, <2>8 DEF Next
<1>3. QED
  BY <1>1, <1>2, QueueTypeCorrect, CustodyHolds, PTL DEF Spec

\* Where one process at a time uses the home, a job whose row is queued or
\* running and whose owner lives is being submitted to it, queued in it, in the
\* hands of one of its workers, or about to be put by its reaper: adoption
\* loses no job, also while the reaper's transaction is open.
THEOREM NoLostJobHolds == ASSUME ~Overlap PROVE Spec => []NoLostJob
<1>1. Tenure => NoLostJob
  BY DEF Tenure
<1>2. QED
  BY <1>1, TenureHolds, PTL

\* There, no two workers ever run the pipeline for one job, and none runs one
\* whose producer was refused.
THEOREM RunsOnceHolds == ASSUME ~Overlap PROVE Spec => []RunsOnce
<1>1. TypeOK /\ Tenure => RunsOnce
  <2> SUFFICES ASSUME TypeOK, Tenure,
                      NEW i \in Instance, NEW v \in Worker, At(i, v, "working")
               PROVE  /\ submitter[worker[i][v].job] # "refused"
                      /\ \A k \in Instance, w \in Worker :
                            At(k, w, "working")
                               /\ worker[k][w].job = worker[i][v].job
                            => i = k /\ v = w
    BY DEF RunsOnce
  <2>1. worker[i][v] \in Hands
    BY DEF TypeOK
  <2>2. PICK x \in Job : x = worker[i][v].job
    BY <2>1 DEF At, Hands
  <2>3. InHand(i, x) /\ Custodian(i, x)
    BY <2>2 DEF InHand, Holds, Custodian
  <2>4. Alive(i) /\ submitter[x] # "refused"
    BY <2>3 DEF Tenure, CustodiansOwn
  <2>5. ASSUME NEW k \in Instance, NEW w \in Worker, worker[k][w].job = x
        PROVE  i = k /\ v = w
    <3>1. Custodian(k, x)
      BY <2>5 DEF InHand, Holds, Custodian
    <3>2. i = k
      BY <2>4, <3>1, OneLives DEF Tenure, CustodiansOwn
    <3>3. OnceInHand(i, x)
      BY DEF Tenure, OnePlace
    <3>4. QED
      BY <2>2, <2>5, <3>2, <3>3 DEF OnceInHand
  <2>6. QED
    BY <2>2, <2>4, <2>5
<1>2. QED
  BY <1>1, QueueTypeCorrect, TenureHolds, PTL
=============================================================================
