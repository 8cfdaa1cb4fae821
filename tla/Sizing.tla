-------------------------------- MODULE Sizing --------------------------------
(***************************************************************************)
(* How many workers and how many megabytes of queued uploads `auto` means  *)
(* on a machine. Memory is in MB, and CPUs are in tenths; products with    *)
(* HEADROOM are in hundredths, so nothing is rounded but what the code     *)
(* rounds.                                                                 *)
(***************************************************************************)
EXTENDS Integers

CONSTANTS
    Memories, Cpus,     \* what the machine may give
    Unknown             \* no budget could be read

ASSUME SizingAssumption ==
    Memories \subseteq Nat /\ Cpus \subseteq Nat /\ Unknown \notin Nat

BASE_MB           == 120
PER_WORKER_MB     == 90
HEADROOM          == 85     \* percent
QUEUE_SHARE       == 50     \* percent
QUEUE_MIN_MB      == 16
QUEUE_MAX_MB      == 512
QUEUE_FALLBACK_MB == 256

AtLeast(n, m) == IF m < n THEN n ELSE m
AtMost(n, m)  == IF m > n THEN n ELSE m

\* What of the memory may be used, in hundredths of a MB.
Budget(mb) == mb * HEADROOM

ByCpu(c) == IF c < 20 THEN 1 ELSE AtLeast(1, c \div 10 - 1)

\* Mutant: the workers are sized before the queue's floor is reserved.
ByMemoryUnreserved(mb) ==
    AtLeast(1, (Budget(mb) - 100 * BASE_MB) \div (100 * PER_WORKER_MB))

ByMemory(mb) ==
    AtLeast(1, (Budget(mb) - 100 * (QUEUE_MIN_MB + BASE_MB)) \div (100 * PER_WORKER_MB))

\* worker_budget
AutoWorkers(mb, c) == IF mb = Unknown THEN ByCpu(c) ELSE AtMost(ByCpu(c), ByMemory(mb))

EstimatePeakMb(workers, queueMb) == BASE_MB + PER_WORKER_MB * workers + queueMb

\* int(max(QUEUE_MIN_MB, min(QUEUE_MAX_MB, spare * QUEUE_SHARE))): the share is of
\* what the workers leave.
QueueBudgetMb(workers, mb) ==
    IF mb = Unknown THEN QUEUE_FALLBACK_MB
    ELSE LET spare == Budget(mb) - 100 * EstimatePeakMb(workers, 0)
         IN  AtLeast(QUEUE_MIN_MB, AtMost(QUEUE_MAX_MB, (spare * QUEUE_SHARE) \div 10000))

\* A machine without the room for one worker and the floor gets one worker anyway.
Least == EstimatePeakMb(1, QUEUE_MIN_MB)

-----------------------------------------------------------------------------
(* JobQueue.__init__: the machine is read for the workers and again for the  *)
(* queue, and what is available may have changed between.                    *)

VARIABLES
    workersFor, queueFor,   \* the two readings
    workers, queueMb    \* what they came to, 0 until then

sizingVars == <<workersFor, queueFor, workers, queueMb>>

Readings == Memories \union {Unknown}

SizingTypeOK ==
    /\ workersFor \in Readings /\ queueFor \in Readings
    /\ workers \in Nat /\ queueMb \in Nat

SizingInit == workersFor = Unknown /\ queueFor = Unknown /\ workers = 0 /\ queueMb = 0

SizeWorkers(mb, c) ==
    /\ workers = 0
    /\ workersFor' = mb /\ workers' = AutoWorkers(mb, c)
    /\ UNCHANGED <<queueFor, queueMb>>

SizeQueue(mb) ==
    /\ workers > 0 /\ queueMb = 0
    /\ queueFor' = mb /\ queueMb' = QueueBudgetMb(workers, mb)
    /\ UNCHANGED <<workersFor, workers>>

SizingNext ==
    \/ \E mb \in Readings, c \in Cpus : SizeWorkers(mb, c)
    \/ \E mb \in Readings : SizeQueue(mb)

Sizing == SizingInit /\ [][SizingNext]_sizingVars

-----------------------------------------------------------------------------

\* Sized by `auto`, the workers and the uploads that may wait for them fit the
\* budget of the larger reading together, wherever one worker does at all ("so
\* the two bounds cannot together promise more memory than exists").
AutoFits ==
    queueMb > 0 /\ workersFor # Unknown /\ queueFor # Unknown
    /\ 100 * Least <= Budget(AtLeast(workersFor, queueFor)) =>
        100 * EstimatePeakMb(workers, queueMb) <= Budget(AtLeast(workersFor, queueFor))
=============================================================================
