----------------------------- MODULE RateEvents -----------------------------
(***************************************************************************)
(* The per-IP rate limiter of src/server.py in one server process, and the *)
(* 30 s sweep of src/jobs.py that is to flush it: requests are counted in  *)
(* fixed windows, refused ones are counted per window too, and a closed    *)
(* window's count becomes an audit row. HTTP threads and the sweep flush   *)
(* concurrently; the lock is held while dictionaries change, not while the *)
(* clock is read before, nor while the rows are written after.             *)
(***************************************************************************)
EXTENDS Integers, FiniteSets, FiniteSetsExt

CONSTANTS
    Thread,      \* HTTP threads
    Sweeper,     \* the reaper thread
    Bucket,      \* (class, ip) pairs
    Limit,       \* requests a bucket may make in a window
    Last,        \* bound: the clock stops in this window
    MaxHits,     \* bound: requests per bucket and window
    PruneWorks   \* db.audit_prune returns: FALSE on the SQL backends

ASSUME LimitsAssumption ==
    /\ Limit \in [Bucket -> Nat] /\ Last \in Nat /\ MaxHits \in Nat
    /\ PruneWorks \in BOOLEAN
    /\ IsFiniteSet(Thread) /\ Sweeper \notin Thread

Window  == 0..Last
Flusher == Thread \union {Sweeper}

VARIABLES
    clock,     \* int(time.time() // WINDOW)
    hits,      \* _hits
    blocked,   \* _blocked: the counts
    thread,    \* each thread: position, the window it read, its bucket, the
               \* counts it has taken out of _blocked and not written yet
    written,   \* the counts in the audit rows of a window
    dropped,   \* the counts of rows whose insert failed
    allowed,   \* requests let through, for the properties
    refused    \* requests answered 429, for the properties

tables      == <<hits, blocked>>
audit       == <<written, dropped>>
seen        == <<allowed, refused>>
limiterVars == <<clock, tables, thread, audit, seen>>

Counts   == [Bucket -> [Window -> Nat]]
NoCounts == [b \in Bucket |-> [w \in Window |-> 0]]

Place == [pc : {"idle", "hit", "flush", "take", "write"},
          window : Window, bucket : Bucket, done : Counts]

LimiterTypeOK ==
    /\ clock \in Window
    /\ hits \in Counts /\ blocked \in Counts
    /\ written \in Counts /\ dropped \in Counts
    /\ allowed \in Counts /\ refused \in Counts
    /\ thread \in [Flusher -> Place]

LimiterInit ==
    /\ clock = 0
    /\ hits = NoCounts /\ blocked = NoCounts
    /\ written = NoCounts /\ dropped = NoCounts
    /\ allowed = NoCounts /\ refused = NoCounts
    /\ \E b \in Bucket :
          thread = [t \in Flusher |-> [pc |-> "idle", window |-> 0,
                                       bucket |-> b, done |-> NoCounts]]

ThreadAt(t, pc) == thread[t].pc = pc
Becomes(t, r)   == thread' = [thread EXCEPT ![t] = r]
Goto(t, pc)     == Becomes(t, [thread[t] EXCEPT !.pc = pc])

\* A request is between two windows for less than a window's length.
Tick ==
    /\ clock < Last
    /\ \A t \in Thread : ThreadAt(t, "hit") => thread[t].window = clock
    /\ clock' = clock + 1
    /\ UNCHANGED <<tables, thread, audit, seen>>

\* Mutant: the window's number rounded up.
HitRoundedUp(t, b) ==
    /\ t \in Thread /\ ThreadAt(t, "idle")
    /\ Becomes(t, [thread[t] EXCEPT !.pc = "hit", !.window = clock + 1,
                                    !.bucket = b])
    /\ UNCHANGED <<clock, tables, audit, seen>>

\* hit() reads the clock ...
Hit(t, b) ==
    /\ t \in Thread /\ ThreadAt(t, "idle")
    /\ allowed[b][clock] + refused[b][clock]
          + Cardinality({u \in Thread : ThreadAt(u, "hit")}) < MaxHits
    /\ Becomes(t, [thread[t] EXCEPT !.pc = "hit", !.window = clock,
                                    !.bucket = b])
    /\ UNCHANGED <<clock, tables, audit, seen>>

\* Mutant: one window kept instead of two.
GcCurrent(counts, w) ==
    [b \in Bucket |-> [v \in Window |-> IF v >= w THEN counts[b][v] ELSE 0]]

\* _gc()
Gc(counts, w) ==
    [b \in Bucket |-> [v \in Window |-> IF v >= w - 1 THEN counts[b][v] ELSE 0]]

\* ... and counts under the lock, in the window it has read.
Count(t) ==
    LET b == thread[t].bucket
        w == thread[t].window
        n == hits[b][w] + 1
    IN  /\ ThreadAt(t, "hit")
        /\ hits' = Gc([hits EXCEPT ![b][w] = n], w)
        /\ IF n > Limit[b]
           THEN /\ blocked' = [blocked EXCEPT ![b][w] = @ + 1]
                /\ refused' = [refused EXCEPT ![b][w] = @ + 1]
                /\ UNCHANGED allowed
           ELSE /\ allowed' = [allowed EXCEPT ![b][w] = @ + 1]
                /\ UNCHANGED <<blocked, refused>>
        /\ Goto(t, "flush")
        /\ UNCHANGED <<clock, audit>>

\* The sweep reaches on_sweep only if prune_audit before it does not raise.
Sweep ==
    /\ ThreadAt(Sweeper, "idle")
    /\ Goto(Sweeper, IF PruneWorks THEN "flush" ELSE "idle")
    /\ UNCHANGED <<clock, tables, audit, seen>>

\* flush() reads the clock ...
FlushTime(t) ==
    /\ ThreadAt(t, "flush")
    /\ Becomes(t, [thread[t] EXCEPT !.pc = "take", !.window = clock])
    /\ UNCHANGED <<clock, tables, audit, seen>>

\* Mutant: a window counts as closed one window late.
ClosedLate(w) ==
    [b \in Bucket |-> [v \in Window |-> IF v < w - 1 THEN blocked[b][v] ELSE 0]]

Closed(w) ==
    [b \in Bucket |-> [v \in Window |-> IF v < w THEN blocked[b][v] ELSE 0]]

\* Mutant: the closed windows are read under the lock and not popped.
TakeCopied(t) ==
    LET done == Closed(thread[t].window) IN
    /\ ThreadAt(t, "take")
    /\ Becomes(t, [thread[t] EXCEPT
                     !.pc = IF done = NoCounts THEN "idle" ELSE "write",
                     !.done = done])
    /\ UNCHANGED <<clock, tables, audit, seen>>

\* ... pops the closed windows under the lock ...
Take(t) ==
    LET done == Closed(thread[t].window) IN
    /\ ThreadAt(t, "take")
    /\ blocked' = [b \in Bucket |-> [v \in Window |->
                                       blocked[b][v] - done[b][v]]]
    /\ Becomes(t, [thread[t] EXCEPT
                     !.pc = IF done = NoCounts THEN "idle" ELSE "write",
                     !.done = done])
    /\ UNCHANGED <<clock, hits, audit, seen>>

\* ... and writes a row for each: an insert that fails is passed over.
Write(t, b, w) ==
    LET n    == thread[t].done[b][w]
        rest == [thread[t].done EXCEPT ![b][w] = 0]
    IN  /\ ThreadAt(t, "write") /\ n > 0
        /\ \/ /\ written' = [written EXCEPT ![b][w] = @ + n]
              /\ UNCHANGED dropped
           \/ /\ dropped' = [dropped EXCEPT ![b][w] = @ + n]
              /\ UNCHANGED written
        /\ Becomes(t, [thread[t] EXCEPT
                         !.pc = IF rest = NoCounts THEN "idle" ELSE "write",
                         !.done = rest])
        /\ UNCHANGED <<clock, tables, seen>>

Flush(t) == \/ FlushTime(t) \/ Take(t)
            \/ \E b \in Bucket, w \in Window : Write(t, b, w)

LimiterNext ==
    \/ Tick
    \/ Sweep
    \/ \E t \in Thread : Count(t) \/ \E b \in Bucket : Hit(t, b)
    \/ \E t \in Flusher : Flush(t)

LimiterSpec == LimiterInit /\ [][LimiterNext]_limiterVars

\* Time passes, threads that have begun go on, the sweep comes round again.
LimiterFairness ==
    /\ WF_limiterVars(Tick) /\ WF_limiterVars(Sweep)
    /\ \A t \in Thread : WF_limiterVars(Count(t))
    /\ \A t \in Flusher : WF_limiterVars(Flush(t))

FairLimiter == LimiterSpec /\ LimiterFairness

-----------------------------------------------------------------------------

\* The limit is exact in every window, however threads interleave with each
\* other and with the change of the window: no request beyond it passes, and
\* none is refused before it is used up.
LimitExact ==
    \A b \in Bucket, w \in Window :
        /\ allowed[b][w] <= Limit[b]
        /\ refused[b][w] > 0 => allowed[b][w] = Limit[b]

\* A refused request is in one place: still counted in memory, taken by one
\* flushing thread, in an audit row or lost with a failed insert. Concurrent
\* flushes neither lose a count nor write it twice.
RefusedAccounted ==
    \A b \in Bucket, w \in Window :
        refused[b][w] = blocked[b][w] + written[b][w] + dropped[b][w]
            + MapThenSumSet(LAMBDA t : thread[t].done[b][w], Flusher)

\* What the limit's exactness rests on: a window that a request can still be
\* counted in has not been forgotten, and its hits are the requests answered.
HitsKept ==
    /\ \A t \in Thread : ThreadAt(t, "hit") => thread[t].window \in {clock - 1, clock}
    /\ \A b \in Bucket, w \in Window :
          w >= clock - 1 => hits[b][w] = allowed[b][w] + refused[b][w]

\* server.py, _RateLimiter: flushing is "hooked into the queue's sweep so
\* events survive a burst that then goes quiet". A closed window's count does
\* not wait for another request.
BurstSurfaces ==
    \A b \in Bucket, w \in Window :
        blocked[b][w] > 0 /\ w < Last ~> blocked[b][w] = 0
=============================================================================
