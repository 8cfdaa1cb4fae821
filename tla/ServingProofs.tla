--------------------------- MODULE ServingProofs ----------------------------
(***************************************************************************)
(* What keeps one server in its bounds. The limit of src/server.py's       *)
(* limiter is exact and no refusal is lost or counted twice, for any       *)
(* number of HTTP threads, buckets and windows, as long as no request      *)
(* takes a whole window between reading the clock and taking the lock; the *)
(* pid file of src/daemon.py names every server on record for as long as   *)
(* it lives, for any number of starts, stops, deaths and strangers; and    *)
(* what src/resources.py sizes by itself fits the machine, whatever the    *)
(* machine has.                                                            *)
(***************************************************************************)
EXTENDS MCServing, ReplicasProofs, SchemaProofs, Sums, TLAPS

(***************************************************************************)
(* The limiter.                                                            *)
(***************************************************************************)

\* Counting once more in a slot, or not at all in it, gives counts again.
LEMMA CountsUpdated ==
    ASSUME NEW f \in Counts, NEW b \in Bucket, NEW w \in Window, NEW n \in Nat
    PROVE  /\ f[b][w] \in Nat
           /\ [f EXCEPT ![b][w] = n] \in Counts
BY DEF Counts

\* Forgetting windows gives counts again.
LEMMA GcCounts ==
    ASSUME NEW f \in Counts, NEW w \in Window
    PROVE  Gc(f, w) \in Counts
BY DEF Counts, Gc, Window

\* What a flush pops is what is there, in the windows before its own.
LEMMA ClosedCounts ==
    ASSUME blocked \in Counts, NEW w \in Window
    PROVE  /\ Closed(w) \in Counts
           /\ [b \in Bucket |-> [v \in Window |->
                   blocked[b][v] - Closed(w)[b][v]]] \in Counts
<1>1. Closed(w) \in Counts
  BY DEF Counts, Closed, Window
<1>2. ASSUME NEW b \in Bucket, NEW v \in Window
      PROVE  blocked[b][v] - Closed(w)[b][v] \in Nat
  <2>1. blocked[b][v] \in Nat
    BY DEF Counts
  <2>2. Closed(w)[b][v] = IF v < w THEN blocked[b][v] ELSE 0
    BY DEF Closed
  <2>3. CASE v < w
    BY <2>1, <2>2, <2>3
  <2>4. CASE ~(v < w)
    BY <2>1, <2>2, <2>4
  <2>5. QED
    BY <2>3, <2>4
<1>3. QED
  BY <1>1, <1>2 DEF Counts

\* Every variable stays in its type; no count goes below zero when the closed
\* windows are popped.
THEOREM LimiterTypeCorrect == LimiterSpec => []LimiterTypeOK
<1> USE LimitsAssumption
<1>1. LimiterInit => LimiterTypeOK
  <2>1. NoCounts \in Counts /\ 0 \in Window
    BY DEF NoCounts, Counts, Window
  <2>2. QED
    BY <2>1 DEF LimiterInit, LimiterTypeOK, Place
<1>2. LimiterTypeOK /\ [LimiterNext]_limiterVars => LimiterTypeOK'
  <2> SUFFICES ASSUME LimiterTypeOK, [LimiterNext]_limiterVars PROVE LimiterTypeOK'
    OBVIOUS
  <2> USE DEF tables, audit, seen, ThreadAt, Becomes, Goto
  <2>0. ASSUME NEW t \in Flusher
        PROVE  /\ thread[t] \in Place /\ thread[t].done \in Counts
               /\ thread[t].bucket \in Bucket /\ thread[t].window \in Window
    BY DEF LimiterTypeOK, Place
  <2>a. ASSUME NEW t \in Flusher, NEW r \in Place, Becomes(t, r)
        PROVE  thread' \in [Flusher -> Place]
    BY <2>a DEF LimiterTypeOK
  <2>1. CASE Tick
    BY <2>1 DEF Tick, LimiterTypeOK, Window
  <2>2. CASE Sweep
    <3>1. Sweeper \in Flusher
      BY DEF Flusher
    <3>2. [thread[Sweeper] EXCEPT !.pc = IF PruneWorks THEN "flush" ELSE "idle"]
             \in Place
      BY <2>0, <3>1 DEF Place
    <3>3. QED
      BY <2>2, <2>a, <3>1, <3>2 DEF Sweep, LimiterTypeOK
  <2>3. ASSUME NEW t \in Thread, Count(t) PROVE LimiterTypeOK'
    <3> DEFINE b == thread[t].bucket
               w == thread[t].window
    <3>1. t \in Flusher /\ b \in Bucket /\ w \in Window
      BY <2>0 DEF Flusher
    <3>2. /\ hits[b][w] \in Nat /\ blocked[b][w] \in Nat
          /\ allowed[b][w] \in Nat /\ refused[b][w] \in Nat
      BY <3>1, CountsUpdated DEF LimiterTypeOK
    <3>3. /\ hits[b][w] + 1 \in Nat /\ blocked[b][w] + 1 \in Nat
          /\ allowed[b][w] + 1 \in Nat /\ refused[b][w] + 1 \in Nat
      BY <3>2
    <3>4. /\ hits' = Gc([hits EXCEPT ![b][w] = hits[b][w] + 1], w)
          /\ \/ UNCHANGED blocked
             \/ blocked' = [blocked EXCEPT ![b][w] = blocked[b][w] + 1]
          /\ \/ UNCHANGED allowed
             \/ allowed' = [allowed EXCEPT ![b][w] = allowed[b][w] + 1]
          /\ \/ UNCHANGED refused
             \/ refused' = [refused EXCEPT ![b][w] = refused[b][w] + 1]
          /\ UNCHANGED <<clock, written, dropped>>
          /\ Becomes(t, [thread[t] EXCEPT !.pc = "flush"])
      BY <2>3 DEF Count
    <3>5. [thread[t] EXCEPT !.pc = "flush"] \in Place
      BY <2>0, <3>1 DEF Place
    <3>6. thread' \in [Flusher -> Place]
      BY <2>a, <3>1, <3>4, <3>5
    <3> HIDE DEF b, w
    <3>7. hits' \in Counts
      BY <3>1, <3>3, <3>4, CountsUpdated, GcCounts DEF LimiterTypeOK
    <3>8. blocked' \in Counts /\ allowed' \in Counts /\ refused' \in Counts
      BY <3>1, <3>3, <3>4, CountsUpdated DEF LimiterTypeOK
    <3>9. QED
      BY <3>4, <3>6, <3>7, <3>8 DEF LimiterTypeOK
  <2>4. ASSUME NEW t \in Thread, NEW b \in Bucket, Hit(t, b) PROVE LimiterTypeOK'
    <3>1. t \in Flusher
      BY DEF Flusher
    <3>2. [thread[t] EXCEPT !.pc = "hit", !.window = clock, !.bucket = b] \in Place
      BY <2>0, <3>1 DEF Place, LimiterTypeOK
    <3>3. QED
      BY <2>4, <2>a, <3>1, <3>2 DEF Hit, LimiterTypeOK
  <2>5. ASSUME NEW t \in Flusher, FlushTime(t) PROVE LimiterTypeOK'
    <3>1. [thread[t] EXCEPT !.pc = "take", !.window = clock] \in Place
      BY <2>0 DEF Place, LimiterTypeOK
    <3>2. QED
      BY <2>5, <2>a, <3>1 DEF FlushTime, LimiterTypeOK
  <2>6. ASSUME NEW t \in Flusher, Take(t) PROVE LimiterTypeOK'
    <3> DEFINE done == Closed(thread[t].window)
    <3>1. /\ done \in Counts
          /\ [b \in Bucket |-> [w \in Window |->
                                  blocked[b][w] - done[b][w]]] \in Counts
      BY <2>0, ClosedCounts DEF LimiterTypeOK
    <3> HIDE DEF done
    <3>2. [thread[t] EXCEPT !.pc = IF done = NoCounts THEN "idle" ELSE "write",
                            !.done = done] \in Place
      BY <2>0, <3>1 DEF Place
    <3>3. /\ blocked' = [b \in Bucket |-> [w \in Window |->
                                             blocked[b][w] - done[b][w]]]
          /\ UNCHANGED <<clock, hits, audit, seen>>
          /\ Becomes(t, [thread[t] EXCEPT
                            !.pc = IF done = NoCounts THEN "idle" ELSE "write",
                            !.done = done])
      BY <2>6 DEF Take, done
    <3>4. thread' \in [Flusher -> Place]
      BY <2>a, <3>2, <3>3
    <3>5. QED
      BY <3>1, <3>3, <3>4 DEF LimiterTypeOK
  <2>7. ASSUME NEW t \in Flusher, NEW b \in Bucket, NEW w \in Window,
               Write(t, b, w)
        PROVE  LimiterTypeOK'
    <3> DEFINE n    == thread[t].done[b][w]
               rest == [thread[t].done EXCEPT ![b][w] = 0]
    <3>1. n \in Nat /\ rest \in Counts
      BY <2>0, CountsUpdated
    <3>2. /\ written[b][w] \in Nat
          /\ dropped[b][w] \in Nat
      BY CountsUpdated DEF LimiterTypeOK
    <3> HIDE DEF n, rest
    <3>3. /\ written[b][w] + n \in Nat
          /\ dropped[b][w] + n \in Nat
      BY <3>1, <3>2
    <3>4. /\ [written EXCEPT ![b][w] = @ + n] \in Counts
          /\ [dropped EXCEPT ![b][w] = @ + n] \in Counts
      BY <3>3, CountsUpdated DEF LimiterTypeOK
    <3>5. /\ UNCHANGED <<clock, tables, seen>>
          /\ written' \in {written, [written EXCEPT ![b][w] = @ + n]}
          /\ dropped' \in {dropped, [dropped EXCEPT ![b][w] = @ + n]}
          /\ Becomes(t, [thread[t] EXCEPT
                            !.pc = IF rest = NoCounts THEN "idle" ELSE "write",
                            !.done = rest])
      BY <2>7 DEF Write, n, rest
    <3>6. [thread[t] EXCEPT !.pc = IF rest = NoCounts THEN "idle" ELSE "write",
                            !.done = rest] \in Place
      BY <2>0, <3>1 DEF Place
    <3>7. thread' \in [Flusher -> Place]
      BY <2>a, <3>5, <3>6
    <3>8. QED
      BY <3>4, <3>5, <3>7 DEF LimiterTypeOK
  <2>8. CASE UNCHANGED limiterVars
    BY <2>8 DEF limiterVars, LimiterTypeOK
  <2>9. QED
    BY <2>1, <2>2, <2>3, <2>4, <2>5, <2>6, <2>7, <2>8 DEF LimiterNext, Flush
<1>3. QED
  BY <1>1, <1>2, PTL DEF LimiterSpec

\* In every window exactly Limit requests pass before the first is refused,
\* and none passes after. Inductive with HitsKept: the limit is exact because
\* no window a request can still count in is forgotten.
THEOREM LimitIsExact == LimiterSpec => [](LimitExact /\ HitsKept)
<1> USE LimitsAssumption
<1>1. LimiterInit => LimitExact /\ HitsKept
  BY DEF LimiterInit, NoCounts, LimitExact, HitsKept, ThreadAt, Flusher
<1>2. LimiterTypeOK /\ LimitExact /\ HitsKept /\ [LimiterNext]_limiterVars
         => (LimitExact /\ HitsKept)'
  <2> SUFFICES ASSUME LimiterTypeOK, LimitExact, HitsKept, [LimiterNext]_limiterVars
               PROVE  LimitExact' /\ HitsKept'
    OBVIOUS
  <2> USE DEF tables, audit, seen, ThreadAt, Becomes, Goto
  <2>0. /\ clock \in Int /\ \A w \in Window : w \in Int
        /\ \A b \in Bucket : Limit[b] \in Nat
        /\ \A t \in Flusher : thread[t] \in Place
        /\ \A b \in Bucket, w \in Window :
              hits[b][w] \in Nat /\ allowed[b][w] \in Nat /\ refused[b][w] \in Nat
    BY DEF LimiterTypeOK, Counts, Window
  <2>1. CASE Tick
    <3>1. /\ \A t \in Thread : ThreadAt(t, "hit") => thread[t].window = clock
          /\ clock' = clock + 1 /\ UNCHANGED <<thread, hits, allowed, refused>>
      BY <2>1 DEF Tick
    <3>2. QED
      BY <2>0, <3>1 DEF LimitExact, HitsKept
  <2>2. ASSUME NEW t \in Thread, Count(t)
        PROVE  LimitExact' /\ HitsKept'
    <3> DEFINE b == thread[t].bucket
               w == thread[t].window
               n == hits[b][w] + 1
    <3>1. t \in Flusher /\ b \in Bucket /\ w \in Window
      BY <2>0 DEF Flusher, Place
    <3>2. /\ w \in {clock - 1, clock} /\ w >= clock - 1
          /\ hits[b][w] = allowed[b][w] + refused[b][w]
      <4>1. ThreadAt(t, "hit")
        BY <2>2 DEF Count
      <4>2. w \in {clock - 1, clock}
        BY <4>1 DEF HitsKept
      <4>3. w >= clock - 1
        BY <2>0, <3>1, <4>2
      <4>4. QED
        BY <3>1, <4>2, <4>3 DEF HitsKept
    <3>3. /\ allowed[b][w] <= Limit[b]
          /\ refused[b][w] > 0 => allowed[b][w] = Limit[b]
      BY <3>1 DEF LimitExact
    <3>4. /\ hits' = Gc([hits EXCEPT ![b][w] = n], w)
          /\ UNCHANGED clock
          /\ \/ /\ n > Limit[b]
                /\ refused' = [refused EXCEPT ![b][w] = @ + 1]
                /\ UNCHANGED allowed
             \/ /\ ~(n > Limit[b])
                /\ allowed' = [allowed EXCEPT ![b][w] = @ + 1]
                /\ UNCHANGED refused
      BY <2>2 DEF Count
    <3>5. /\ \A u \in Thread \ {t} : thread'[u] = thread[u]
          /\ thread'[t].pc = "flush"
      <4>1. thread' = [thread EXCEPT ![t] = [thread[t] EXCEPT !.pc = "flush"]]
        BY <2>2 DEF Count
      <4>2. QED
        BY <3>1, <4>1 DEF LimiterTypeOK, Place, Flusher
    <3> HIDE DEF b, w
    <3>6. \A c \in Bucket, v \in Window :
             v >= w - 1 =>
                hits'[c][v] = IF c = b /\ v = w THEN n ELSE hits[c][v]
      BY <3>1, <3>4 DEF Gc, LimiterTypeOK, Counts
    <3>7. \A c \in Bucket, v \in Window :
             ~(c = b /\ v = w) => /\ allowed'[c][v] = allowed[c][v]
                                  /\ refused'[c][v] = refused[c][v]
      BY <3>1, <3>4 DEF LimiterTypeOK, Counts
    <3>8. \/ /\ n > Limit[b]
             /\ allowed'[b][w] = allowed[b][w]
             /\ refused'[b][w] = refused[b][w] + 1
          \/ /\ ~(n > Limit[b])
             /\ allowed'[b][w] = allowed[b][w] + 1
             /\ refused'[b][w] = refused[b][w]
      BY <3>1, <3>4 DEF LimiterTypeOK, Counts
    <3>9. /\ hits[b][w] \in Nat /\ allowed[b][w] \in Nat
          /\ refused[b][w] \in Nat /\ Limit[b] \in Nat
      BY <2>0, <3>1
    <3>10. /\ allowed'[b][w] <= Limit[b]
           /\ refused'[b][w] > 0 => allowed'[b][w] = Limit[b]
           /\ allowed'[b][w] + refused'[b][w] = n
      BY <3>2, <3>3, <3>8, <3>9
    <3>11. LimitExact'
      <4>1. ASSUME NEW c \in Bucket, NEW v \in Window
            PROVE  /\ allowed'[c][v] <= Limit[c]
                   /\ refused'[c][v] > 0 => allowed'[c][v] = Limit[c]
        BY <3>7, <3>10 DEF LimitExact
      <4>2. QED
        BY <4>1 DEF LimitExact
    <3>12. HitsKept'
      <4>1. ASSUME NEW c \in Bucket, NEW v \in Window, v >= clock - 1
            PROVE  hits'[c][v] = allowed'[c][v] + refused'[c][v]
        <5>1. hits[c][v] = allowed[c][v] + refused[c][v]
          BY <4>1 DEF HitsKept
        <5>2. w \in Int /\ v \in Int /\ clock \in Int
          BY <2>0, <3>1
        <5>3. v >= w - 1
          BY <3>2, <4>1, <5>2
        <5>4. hits'[c][v] = IF c = b /\ v = w THEN n ELSE hits[c][v]
          BY <3>6, <5>3
        <5>5. QED
          BY <3>7, <3>10, <5>1, <5>4
      <4>2. ASSUME NEW u \in Thread, (ThreadAt(u, "hit"))'
            PROVE  thread'[u].window \in {clock - 1, clock}
        <5>1. u # t /\ thread'[u] = thread[u]
          BY <3>5, <4>2
        <5>2. QED
          BY <4>2, <5>1 DEF HitsKept
      <4>3. QED
        BY <3>4, <4>1, <4>2 DEF HitsKept
    <3>13. QED
      BY <3>11, <3>12
  <2>3. ASSUME NEW t \in Thread, NEW b \in Bucket, Hit(t, b)
        PROVE  LimitExact' /\ HitsKept'
    <3>1. /\ UNCHANGED <<clock, hits, allowed, refused>>
          /\ thread' = [thread EXCEPT ![t] =
                          [thread[t] EXCEPT !.pc = "hit", !.window = clock,
                                            !.bucket = b]]
      BY <2>3 DEF Hit
    <3>2. thread'[t].window = clock
          /\ \A u \in Thread \ {t} : thread'[u] = thread[u]
      BY <3>1 DEF LimiterTypeOK, Place, Flusher
    <3>3. QED
      BY <3>1, <3>2 DEF LimitExact, HitsKept
  <2>4. ASSUME NEW t \in Flusher, Flush(t) \/ (Sweep /\ t = Sweeper)
        PROVE  LimitExact' /\ HitsKept'
    <3>1. /\ UNCHANGED <<clock, hits, allowed, refused>>
          /\ \E r : r.pc # "hit" /\ thread' = [thread EXCEPT ![t] = r]
      <4>1. /\ [thread[t] EXCEPT !.pc = "take", !.window = clock].pc # "hit"
            /\ \A q, d : q # "hit" =>
                  [thread[t] EXCEPT !.pc = q, !.done = d].pc # "hit"
            /\ \A q : q # "hit" => [thread[t] EXCEPT !.pc = q].pc # "hit"
        BY <2>0 DEF Place
      <4>2. CASE FlushTime(t)
        BY <4>1, <4>2 DEF FlushTime
      <4>3. CASE Take(t)
        BY <4>1, <4>3 DEF Take
      <4>4. ASSUME NEW b \in Bucket, NEW w \in Window, Write(t, b, w)
            PROVE  /\ UNCHANGED <<clock, hits, allowed, refused>>
                   /\ \E r : r.pc # "hit" /\ thread' = [thread EXCEPT ![t] = r]
        BY <4>1, <4>4 DEF Write
      <4>5. CASE Sweep /\ t = Sweeper
        BY <4>1, <4>5 DEF Sweep
      <4>6. QED
        BY <2>4, <4>2, <4>3, <4>4, <4>5 DEF Flush
    <3>2. \A u \in Thread : thread'[u].pc = "hit" => thread'[u] = thread[u]
      BY <3>1 DEF LimiterTypeOK, Flusher
    <3>3. QED
      BY <3>1, <3>2 DEF LimitExact, HitsKept
  <2>5. CASE UNCHANGED limiterVars
    BY <2>5 DEF limiterVars, LimitExact, HitsKept
  <2>6. QED
    <3>1. Sweeper \in Flusher
      BY DEF Flusher
    <3>2. QED
      BY <2>1, <2>2, <2>3, <2>4, <2>5, <3>1 DEF LimiterNext
<1>3. QED
  BY <1>1, <1>2, LimiterTypeCorrect, PTL DEF LimiterSpec

\* LimitExact alone, as the runs check it.
THEOREM LimitExactHolds == LimiterSpec => []LimitExact
BY LimitIsExact, PTL

\* What each flushing thread has taken of one bucket's refusals in one window.
Taken(b, w) == [t \in Flusher |-> thread[t].done[b][w]]

\* RefusedAccounted with what makes it inductive: a thread that takes counts has
\* written all it took before, so nothing is overwritten.
Accounted ==
    /\ LimiterTypeOK
    /\ \A t \in Flusher : thread[t].pc # "write" => thread[t].done = NoCounts
    /\ \A b \in Bucket, w \in Window :
          refused[b][w] = blocked[b][w] + written[b][w] + dropped[b][w]
              + Sum(Taken(b, w), Flusher)

LEMMA FlusherFinite == IsFiniteSet(Flusher)
BY LimitsAssumption, FS_Singleton, FS_Union DEF Flusher

\* The types of what Accounted speaks of.
LEMMA CountsAreNat ==
    ASSUME LimiterTypeOK
    PROVE  /\ \A t \in Flusher : thread[t] \in Place /\ thread[t].done \in Counts
           /\ \A b \in Bucket, w \in Window :
                 /\ refused[b][w] \in Nat /\ blocked[b][w] \in Nat
                 /\ written[b][w] \in Nat /\ dropped[b][w] \in Nat
                 /\ \A t \in Flusher : Taken(b, w)[t] \in Nat
                 /\ Sum(Taken(b, w), Flusher) \in Nat
<1>1. \A t \in Flusher : thread[t] \in Place /\ thread[t].done \in Counts
  BY DEF LimiterTypeOK, Place
<1>2. ASSUME NEW b \in Bucket, NEW w \in Window
      PROVE  /\ refused[b][w] \in Nat /\ blocked[b][w] \in Nat
             /\ written[b][w] \in Nat /\ dropped[b][w] \in Nat
             /\ \A t \in Flusher : Taken(b, w)[t] \in Nat
             /\ Sum(Taken(b, w), Flusher) \in Nat
  <2>1. \A t \in Flusher : Taken(b, w)[t] \in Nat
    BY <1>1, CountsUpdated DEF Taken
  <2>2. Sum(Taken(b, w), Flusher) \in Nat
    BY <2>1, FlusherFinite, SumIsNat
  <2>3. QED
    BY <2>1, <2>2, CountsUpdated DEF LimiterTypeOK
<1>3. QED
  BY <1>1, <1>2

\* When one thread's counts change, what is on the way changes by as much.
LEMMA OneTakes ==
    ASSUME LimiterTypeOK, LimiterTypeOK', NEW t \in Flusher,
           \A u \in Flusher \ {t} : thread'[u] = thread[u],
           NEW b \in Bucket, NEW w \in Window
    PROVE  /\ Sum(Taken(b, w), Flusher)' \in Nat
           /\ Sum(Taken(b, w), Flusher)' + thread[t].done[b][w]
                  = Sum(Taken(b, w), Flusher) + thread'[t].done[b][w]
<1>1. PICK F, G : F = Taken(b, w) /\ G = Taken(b, w)'
  OBVIOUS
<1>2. \A u \in Flusher : F[u] \in Nat
  BY <1>1, CountsAreNat
<1>3. \A u \in Flusher : G[u] \in Nat
  <2>1. \A u \in Flusher : thread'[u].done \in Counts
    BY DEF LimiterTypeOK, Place
  <2>2. QED
    BY <1>1, <2>1, CountsUpdated DEF Taken
<1>4. \A u \in Flusher \ {t} : F[u] = G[u]
  BY <1>1 DEF Taken
<1>5. /\ Sum(G, Flusher) \in Nat
      /\ Sum(F, Flusher) + G[t] = Sum(G, Flusher) + F[t]
  BY <1>2, <1>3, <1>4, FlusherFinite, SumChanged, SumIsNat
<1>6. F[t] = thread[t].done[b][w] /\ G[t] = thread'[t].done[b][w]
  BY <1>1 DEF Taken
<1>7. Sum(Taken(b, w), Flusher)' = Sum(G, Flusher)
  BY <1>1 DEF Sum, Adds
<1>8. QED
  BY <1>1, <1>5, <1>6, <1>7


\* A step that moves no count: as many are on the way as were.
LEMMA QuietAccounted ==
    ASSUME Accounted, LimiterTypeOK', UNCHANGED <<blocked, audit, refused>>,
           NEW t \in Flusher, \A u \in Flusher \ {t} : thread'[u] = thread[u],
           thread'[t].done = thread[t].done,
           thread'[t].pc = "write" \/ thread[t].pc # "write"
    PROVE  Accounted'
<1>1. \A u \in Flusher : thread'[u].pc # "write" => thread'[u].done = NoCounts
  BY DEF Accounted
<1>2. ASSUME NEW b \in Bucket, NEW w \in Window
      PROVE  Sum(Taken(b, w), Flusher)' = Sum(Taken(b, w), Flusher)
  <2>1. /\ Sum(Taken(b, w), Flusher) \in Nat /\ Sum(Taken(b, w), Flusher)' \in Nat
        /\ thread[t].done[b][w] \in Nat
    <3>1. thread[t].done \in Counts
      BY CountsAreNat DEF Accounted
    <3>2. Sum(Taken(b, w), Flusher)' \in Nat
      BY OneTakes DEF Accounted
    <3>3. QED
      BY <3>1, <3>2, CountsAreNat, CountsUpdated DEF Accounted
  <2>2. Sum(Taken(b, w), Flusher)' + thread[t].done[b][w]
            = Sum(Taken(b, w), Flusher) + thread'[t].done[b][w]
    BY OneTakes DEF Accounted
  <2>3. QED
    BY <2>1, <2>2
<1>3. QED
  BY <1>1, <1>2 DEF Accounted, audit

\* Popping moves the closed counts from the table to the thread.
LEMMA TakeAccounted ==
    ASSUME Accounted, LimiterTypeOK', NEW t \in Flusher, Take(t)
    PROVE  Accounted'
<1> DEFINE done == Closed(thread[t].window)
<1>1. /\ thread[t] \in Place /\ thread[t].window \in Window
      /\ thread[t].done = NoCounts /\ thread \in [Flusher -> Place]
  BY DEF Accounted, LimiterTypeOK, Place, Take, ThreadAt
<1>2. /\ thread' = [thread EXCEPT ![t] =
                       [thread[t] EXCEPT !.pc = IF done = NoCounts THEN "idle" ELSE "write",
                                         !.done = done]]
      /\ UNCHANGED <<written, dropped, refused>>
  BY DEF Take, Becomes, audit, seen
<1>3. ASSUME NEW b \in Bucket, NEW w \in Window
      PROVE  /\ blocked'[b][w] = blocked[b][w] - done[b][w]
             /\ done[b][w] \in Nat
  BY <1>1, ClosedCounts, CountsUpdated DEF Take, Accounted, LimiterTypeOK
<1> HIDE DEF done
<1>4. /\ thread'[t].done = done
      /\ thread'[t].pc = IF done = NoCounts THEN "idle" ELSE "write"
      /\ \A u \in Flusher \ {t} : thread'[u] = thread[u]
  BY <1>1, <1>2 DEF Place
<1>5. \A u \in Flusher : thread'[u].pc # "write" => thread'[u].done = NoCounts
  BY <1>4 DEF Accounted
<1>6. ASSUME NEW b \in Bucket, NEW w \in Window
      PROVE  refused'[b][w] = blocked'[b][w] + written'[b][w] + dropped'[b][w]
                 + Sum(Taken(b, w), Flusher)'
  <2>1. Sum(Taken(b, w), Flusher)' + thread[t].done[b][w]
            = Sum(Taken(b, w), Flusher) + thread'[t].done[b][w]
    BY <1>4, OneTakes DEF Accounted
  <2>2. thread[t].done[b][w] = 0
    BY <1>1 DEF NoCounts
  <2>3. Sum(Taken(b, w), Flusher)' \in Nat
    BY <1>4, OneTakes DEF Accounted
  <2>4. /\ refused[b][w] \in Nat /\ blocked[b][w] \in Nat
        /\ written[b][w] \in Nat /\ dropped[b][w] \in Nat
        /\ Sum(Taken(b, w), Flusher) \in Nat
    BY CountsAreNat DEF Accounted
  <2>5. refused[b][w] = blocked[b][w] + written[b][w] + dropped[b][w]
            + Sum(Taken(b, w), Flusher)
    BY DEF Accounted
  <2>6. QED
    BY <1>2, <1>3, <1>4, <2>1, <2>2, <2>3, <2>4, <2>5
<1>7. QED
  BY <1>5, <1>6 DEF Accounted

\* A row written, or passed over, moves its counts from the thread to the row.
LEMMA WriteAccounted ==
    ASSUME Accounted, LimiterTypeOK', NEW t \in Flusher, NEW c \in Bucket,
           NEW v \in Window, Write(t, c, v)
    PROVE  Accounted'
<1> DEFINE n    == thread[t].done[c][v]
           rest == [thread[t].done EXCEPT ![c][v] = 0]
<1>1. /\ thread[t] \in Place /\ thread[t].done \in Counts
      /\ thread \in [Flusher -> Place] /\ n \in Nat
      /\ written \in Counts /\ dropped \in Counts
  BY CountsAreNat, CountsUpdated DEF Accounted, LimiterTypeOK
<1>2. \A b \in Bucket, w \in Window :
         rest[b][w] = IF b = c /\ w = v THEN 0 ELSE thread[t].done[b][w]
  BY <1>1 DEF Counts
<1> HIDE DEF n, rest
<1>3. /\ thread' = [thread EXCEPT ![t] =
                       [thread[t] EXCEPT !.pc = IF rest = NoCounts THEN "idle" ELSE "write",
                                         !.done = rest]]
      /\ UNCHANGED <<blocked, refused>>
      /\ \/ /\ written' = [written EXCEPT ![c][v] = @ + n]
            /\ UNCHANGED dropped
         \/ /\ dropped' = [dropped EXCEPT ![c][v] = @ + n]
            /\ UNCHANGED written
  BY DEF Write, Becomes, tables, seen, n, rest
<1>4. /\ thread'[t].done = rest
      /\ thread'[t].pc = IF rest = NoCounts THEN "idle" ELSE "write"
      /\ \A u \in Flusher \ {t} : thread'[u] = thread[u]
  BY <1>1, <1>3 DEF Place
<1>5. \A u \in Flusher : thread'[u].pc # "write" => thread'[u].done = NoCounts
  BY <1>4 DEF Accounted
<1>6. ASSUME NEW b \in Bucket, NEW w \in Window
      PROVE  refused'[b][w] = blocked'[b][w] + written'[b][w] + dropped'[b][w]
                 + Sum(Taken(b, w), Flusher)'
  <2>1. Sum(Taken(b, w), Flusher)' + thread[t].done[b][w]
            = Sum(Taken(b, w), Flusher) + thread'[t].done[b][w]
    BY <1>4, OneTakes DEF Accounted
  <2>2. /\ refused[b][w] \in Nat /\ blocked[b][w] \in Nat
        /\ written[b][w] \in Nat /\ dropped[b][w] \in Nat
        /\ Sum(Taken(b, w), Flusher) \in Nat /\ thread[t].done[b][w] \in Nat
    BY <1>1, CountsAreNat, CountsUpdated DEF Accounted
  <2>3. Sum(Taken(b, w), Flusher)' \in Nat
    BY <1>4, OneTakes DEF Accounted
  <2>4. refused[b][w] = blocked[b][w] + written[b][w] + dropped[b][w]
            + Sum(Taken(b, w), Flusher)
    BY DEF Accounted
  <2>5. CASE b = c /\ w = v
    <3>1. thread[t].done[b][w] = n /\ thread'[t].done[b][w] = 0
      BY <1>2, <1>4, <2>5 DEF n
    <3>2. written'[b][w] + dropped'[b][w] = written[b][w] + dropped[b][w] + n
      BY <1>1, <1>3, <2>2, <2>5 DEF Counts
    <3>3. written'[b][w] \in Nat /\ dropped'[b][w] \in Nat
      BY <2>5, CountsUpdated DEF LimiterTypeOK
    <3>4. QED
      BY <1>1, <1>3, <2>1, <2>2, <2>3, <2>4, <3>1, <3>2, <3>3
  <2>6. CASE ~(b = c /\ w = v)
    <3>1. thread'[t].done[b][w] = thread[t].done[b][w]
      BY <1>2, <1>4, <2>6
    <3>2. written'[b][w] = written[b][w] /\ dropped'[b][w] = dropped[b][w]
      BY <1>1, <1>3, <2>6 DEF Counts
    <3>3. QED
      BY <1>3, <2>1, <2>2, <2>3, <2>4, <3>1, <3>2
  <2>7. QED
    BY <2>5, <2>6
<1>7. QED
  BY <1>5, <1>6 DEF Accounted

\* A refusal is counted once where it is made and once in the table.
LEMMA CountAccounted ==
    ASSUME Accounted, LimiterTypeOK', NEW t \in Thread, Count(t)
    PROVE  Accounted'
<1> DEFINE c == thread[t].bucket
           v == thread[t].window
<1>1. /\ t \in Flusher /\ thread[t] \in Place /\ thread \in [Flusher -> Place]
      /\ c \in Bucket /\ v \in Window
      /\ blocked \in Counts /\ refused \in Counts
  BY DEF Accounted, LimiterTypeOK, Place, Flusher
<1>2. /\ thread' = [thread EXCEPT ![t] = [thread[t] EXCEPT !.pc = "flush"]]
      /\ UNCHANGED audit /\ thread[t].pc = "hit"
      /\ \/ UNCHANGED <<blocked, refused>>
         \/ /\ blocked' = [blocked EXCEPT ![c][v] = @ + 1]
            /\ refused' = [refused EXCEPT ![c][v] = @ + 1]
  BY DEF Count, Goto, Becomes, ThreadAt
<1> HIDE DEF c, v
<1>3. /\ thread'[t].done = thread[t].done /\ thread'[t].pc = "flush"
      /\ \A u \in Flusher \ {t} : thread'[u] = thread[u]
  BY <1>1, <1>2 DEF Place
<1>4. CASE UNCHANGED <<blocked, refused>>
  BY <1>1, <1>2, <1>3, <1>4, QuietAccounted
<1>5. CASE /\ blocked' = [blocked EXCEPT ![c][v] = @ + 1]
           /\ refused' = [refused EXCEPT ![c][v] = @ + 1]
  <2>1. \A u \in Flusher : thread'[u].pc # "write" => thread'[u].done = NoCounts
    BY <1>2, <1>3 DEF Accounted
  <2>2. ASSUME NEW b \in Bucket, NEW w \in Window
        PROVE  refused'[b][w] = blocked'[b][w] + written'[b][w] + dropped'[b][w]
                   + Sum(Taken(b, w), Flusher)'
    <3>1. Sum(Taken(b, w), Flusher)' + thread[t].done[b][w]
              = Sum(Taken(b, w), Flusher) + thread'[t].done[b][w]
      BY <1>1, <1>3, OneTakes DEF Accounted
    <3>2. /\ refused[b][w] \in Nat /\ blocked[b][w] \in Nat
          /\ written[b][w] \in Nat /\ dropped[b][w] \in Nat
          /\ Sum(Taken(b, w), Flusher) \in Nat /\ thread[t].done[b][w] \in Nat
      BY <1>1, CountsAreNat, CountsUpdated DEF Accounted
    <3>3. Sum(Taken(b, w), Flusher)' \in Nat
      BY <1>1, <1>3, OneTakes DEF Accounted
    <3>4. refused'[b][w] - refused[b][w] = blocked'[b][w] - blocked[b][w]
      BY <1>1, <1>5, <3>2 DEF Counts
    <3>5. refused'[b][w] \in Nat /\ blocked'[b][w] \in Nat
      BY CountsUpdated DEF LimiterTypeOK
    <3>6. refused[b][w] = blocked[b][w] + written[b][w] + dropped[b][w]
              + Sum(Taken(b, w), Flusher)
      BY DEF Accounted
    <3>7. written'[b][w] = written[b][w] /\ dropped'[b][w] = dropped[b][w]
      BY <1>2 DEF audit
    <3>8. Sum(Taken(b, w), Flusher)' = Sum(Taken(b, w), Flusher)
      BY <1>3, <3>1, <3>2, <3>3
    <3>9. QED
      BY <3>2, <3>4, <3>5, <3>6, <3>7, <3>8
  <2>3. QED
    BY <2>1, <2>2 DEF Accounted
<1>6. QED
  BY <1>2, <1>4, <1>5

\* Every step keeps it.
LEMMA StepAccounted ==
    Accounted /\ LimiterTypeOK' /\ [LimiterNext]_limiterVars => Accounted'
<1> SUFFICES ASSUME Accounted, LimiterTypeOK', [LimiterNext]_limiterVars PROVE Accounted'
  OBVIOUS
<1>0. thread \in [Flusher -> Place] /\ Sweeper \in Flusher
  BY DEF Accounted, LimiterTypeOK, Flusher
<1>1. CASE UNCHANGED <<blocked, audit, refused, thread>>
  BY <1>0, <1>1, QuietAccounted
<1>2. CASE Tick \/ UNCHANGED limiterVars
  BY <1>1, <1>2 DEF Tick, limiterVars, tables, seen
<1>3. CASE Sweep
  <2>1. /\ thread' = [thread EXCEPT ![Sweeper] =
                        [thread[Sweeper] EXCEPT !.pc = IF PruneWorks THEN "flush" ELSE "idle"]]
        /\ UNCHANGED <<blocked, audit, refused>> /\ thread[Sweeper].pc = "idle"
    BY <1>3 DEF Sweep, Goto, Becomes, ThreadAt, tables, seen
  <2>2. /\ thread'[Sweeper].done = thread[Sweeper].done
        /\ \A u \in Flusher \ {Sweeper} : thread'[u] = thread[u]
    BY <1>0, <2>1 DEF Place
  <2>3. QED
    BY <1>0, <2>1, <2>2, QuietAccounted
<1>4. ASSUME NEW t \in Thread, Count(t) PROVE Accounted'
  BY <1>4, CountAccounted
<1>5. ASSUME NEW t \in Thread, NEW b \in Bucket, Hit(t, b) PROVE Accounted'
  <2>1. /\ thread' = [thread EXCEPT ![t] =
                        [thread[t] EXCEPT !.pc = "hit", !.window = clock, !.bucket = b]]
        /\ UNCHANGED <<blocked, audit, refused>> /\ thread[t].pc = "idle"
    BY <1>5 DEF Hit, Becomes, ThreadAt, tables, seen
  <2>2. /\ t \in Flusher /\ thread'[t].done = thread[t].done
        /\ \A u \in Flusher \ {t} : thread'[u] = thread[u]
    BY <1>0, <2>1 DEF Place, Flusher
  <2>3. QED
    BY <2>1, <2>2, QuietAccounted
<1>6. ASSUME NEW t \in Flusher, FlushTime(t) PROVE Accounted'
  <2>1. /\ thread' = [thread EXCEPT ![t] =
                        [thread[t] EXCEPT !.pc = "take", !.window = clock]]
        /\ UNCHANGED <<blocked, audit, refused>> /\ thread[t].pc = "flush"
    BY <1>6 DEF FlushTime, Becomes, ThreadAt, tables, seen
  <2>2. /\ thread'[t].done = thread[t].done
        /\ \A u \in Flusher \ {t} : thread'[u] = thread[u]
    BY <1>0, <2>1 DEF Place
  <2>3. QED
    BY <2>1, <2>2, QuietAccounted
<1>7. ASSUME NEW t \in Flusher, Take(t) PROVE Accounted'
  BY <1>7, TakeAccounted
<1>8. ASSUME NEW t \in Flusher, NEW b \in Bucket, NEW w \in Window, Write(t, b, w)
      PROVE  Accounted'
  BY <1>8, WriteAccounted
<1>9. QED
  BY <1>2, <1>3, <1>4, <1>5, <1>6, <1>7, <1>8 DEF LimiterNext, Flush

\* Every refusal is accounted for, and a thread that is to take counts has none left.
THEOREM AccountedHolds == LimiterSpec => []Accounted
<1>1. LimiterInit /\ LimiterTypeOK => Accounted
  <2> SUFFICES ASSUME LimiterInit, LimiterTypeOK PROVE Accounted
    OBVIOUS
  <2>1. \A t \in Flusher : thread[t].done = NoCounts
    BY DEF LimiterInit
  <2>2. ASSUME NEW b \in Bucket, NEW w \in Window
        PROVE  Sum(Taken(b, w), Flusher) = 0
    <3>1. \A t \in Flusher : Taken(b, w)[t] = 0
      BY <2>1 DEF Taken, NoCounts
    <3>2. QED
      BY <3>1, FlusherFinite, SumZero
  <2>3. ASSUME NEW b \in Bucket, NEW w \in Window
        PROVE  /\ refused[b][w] = 0 /\ blocked[b][w] = 0
               /\ written[b][w] = 0 /\ dropped[b][w] = 0
    BY DEF LimiterInit, NoCounts
  <2>4. QED
    BY <2>1, <2>2, <2>3 DEF Accounted
<1>2. QED
  BY <1>1, StepAccounted, LimiterTypeCorrect, PTL DEF LimiterSpec

\* Concurrent flushes, the sweep's and the requests', neither lose a refusal nor
\* write it twice, with any number of threads.
THEOREM RefusedAccountedHolds == LimiterSpec => []RefusedAccounted
<1>1. Accounted => RefusedAccounted
  <2> SUFFICES ASSUME Accounted, NEW b \in Bucket, NEW w \in Window
               PROVE  MapThenSumSet(LAMBDA t : thread[t].done[b][w], Flusher)
                          = Sum(Taken(b, w), Flusher)
    BY DEF Accounted, RefusedAccounted
  <2> DEFINE Solves(g) ==
               g = [s \in SUBSET Flusher |->
                       IF s = {} THEN 0
                       ELSE thread[Pick(s)].done[b][w] + g[s \ {Pick(s)}]]
  <2>1. MapThenSumSet(LAMBDA t : thread[t].done[b][w], Flusher)
            = (CHOOSE g : Solves(g))[Flusher]
    BY DEF MapThenSumSet, MapThenFoldSet, Pick
  <2>2. ASSUME NEW g PROVE Solves(g) <=> Adds(g, Taken(b, w), Flusher)
    <3>1. \A s \in SUBSET Flusher : s # {} =>
             Taken(b, w)[Pick(s)] = thread[Pick(s)].done[b][w]
      BY PickIsThere DEF Taken
    <3>2. [s \in SUBSET Flusher |->
              IF s = {} THEN 0 ELSE thread[Pick(s)].done[b][w] + g[s \ {Pick(s)}]]
          = [s \in SUBSET Flusher |->
              IF s = {} THEN 0 ELSE Taken(b, w)[Pick(s)] + g[s \ {Pick(s)}]]
      BY <3>1
    <3>3. QED
      BY <3>2 DEF Adds
  <2> HIDE DEF Solves
  <2>3. \E g : Solves(g)
    BY <2>2, FlusherFinite, AddsExists
  <2>4. Adds(CHOOSE g : Solves(g), Taken(b, w), Flusher)
    BY <2>2, <2>3
  <2>5. PICK h : h = (CHOOSE g : Solves(g)) /\ Adds(h, Taken(b, w), Flusher)
    BY <2>4
  <2>6. PICK f : /\ Adds(f, Taken(b, w), Flusher)
                 /\ \A T \in SUBSET Flusher : Sum(Taken(b, w), T) = f[T]
    BY FlusherFinite, SumAdds
  <2>7. h[Flusher] = f[Flusher]
    BY <2>5, <2>6, FlusherFinite, AddsAgree
  <2>8. QED
    BY <2>1, <2>5, <2>6, <2>7
<1>2. QED
  BY <1>1, AccountedHolds, PTL

(***************************************************************************)
(* The daemon.                                                             *)
(***************************************************************************)

\* What the one command that runs knows agrees with the file: a start that has
\* not written finds no file, and one that has, or a stop, finds its own server's.
\* Servers are started in the order of their pids and put on record after that.
OnRecord ==
    /\ DaemonTypeOK
    /\ RecordedIsFound
    /\ \A p \in Pid : p > lastPid => server[p] = "unborn"
    /\ \A p \in onRecord : p <= lastPid
    /\ command.pc # "none" => command.pid \in Pid /\ command.pid <= lastPid
    /\ command.pc = "write" => pidFile = NoPid
    /\ command.pc \in {"await", "term"} => pidFile = command.pid

LEMMA InitOnRecord == DaemonInit => OnRecord
BY DaemonAssumption DEF DaemonInit, OnRecord, DaemonTypeOK, RecordedIsFound,
   MaybePid, NoCommand

\* A server that is killed leaves every other as it was and breathes no more.
LEMMA KilledOnRecord ==
    ASSUME OnRecord, NEW p \in Pid, p <= lastPid, Killed(p)
    PROVE  /\ server' \in [Pid -> {"unborn", "starting", "listening", "draining", "dead"}]
           /\ port' \in MaybePid \union {Stranger}
           /\ \A q \in Pid : q > lastPid => server'[q] = "unborn"
           /\ \A q \in Pid : Breathes(q)' => Breathes(q) /\ q # p
BY DaemonAssumption DEF OnRecord, DaemonTypeOK, Killed, Released, Breathes, MaybePid, Pid

\* Every step of a command, a server or a stranger keeps it.
LEMMA StepOnRecord == OnRecord /\ [DaemonNext]_daemonVars => OnRecord'
<1> SUFFICES ASSUME OnRecord, [DaemonNext]_daemonVars PROVE OnRecord'
  OBVIOUS
<1> USE DaemonAssumption DEF OnRecord, DaemonTypeOK, RecordedIsFound, Commanded,
        MaybePid, Pid, NoCommand
<1>1. CASE LookUp
  BY <1>1 DEF LookUp, FoundDead, Breathes
<1>2. CASE Spawn
  <2>1. /\ lastPid + 1 \in Pid /\ server[lastPid + 1] = "unborn"
        /\ lastPid + 1 \notin onRecord
    BY <1>2 DEF Spawn
  <2>2. \A p \in Pid : p # lastPid + 1 => server'[p] = server[p]
    BY <1>2 DEF Spawn
  <2>3. \A p \in onRecord : ~Breathes(p)'
    BY <1>2, <2>1, <2>2 DEF Spawn, FoundDead, Breathes
  <2>4. server' \in [Pid -> {"unborn", "starting", "listening", "draining", "dead"}]
    BY <1>2 DEF Spawn
  <2>5. QED
    BY <1>2, <2>1, <2>2, <2>3, <2>4 DEF Spawn, FoundDead
<1>3. CASE WritePid
  BY <1>3 DEF WritePid, Breathes
<1>4. CASE StartFails
  BY <1>4 DEF StartFails, Breathes
<1>5. CASE StartAnswers
  BY <1>5 DEF StartAnswers, Breathes
<1>6. CASE GiveUp
  BY <1>6 DEF GiveUp, Breathes
<1>7. CASE Terminate
  <2>1. pidFile \in Pid /\ pidFile <= lastPid
    BY <1>7 DEF Terminate, Breathes
  <2>2. CASE server[pidFile] = "starting"
    BY <1>7, <2>1, <2>2, KilledOnRecord DEF Terminate
  <2>3. CASE server[pidFile] # "starting"
    <3>1. server' = [server EXCEPT ![pidFile] = "draining"] /\ UNCHANGED port
      BY <1>7, <2>3 DEF Terminate
    <3>2. \A p \in Pid : Breathes(p)' => Breathes(p)
      BY <1>7, <2>1, <3>1 DEF Terminate, Breathes
    <3>3. QED
      BY <1>7, <2>1, <3>1, <3>2 DEF Terminate
  <2>4. QED
    BY <2>2, <2>3
<1>8. CASE StopAnswers
  <2>1. command.pid \in Pid /\ command.pid <= lastPid /\ pidFile = command.pid
    BY <1>8 DEF StopAnswers
  <2>2. QED
    BY <1>8, <2>1, KilledOnRecord DEF StopAnswers
<1>9. CASE StrangerBinds
  BY <1>9 DEF StrangerBinds, Breathes
<1>10. CASE StrangerLeaves
  BY <1>10 DEF StrangerLeaves, Breathes
<1>11. ASSUME NEW p \in Pid, Bind(p) PROVE OnRecord'
  <2>1. p <= lastPid
    BY <1>11 DEF Bind
  <2>2. CASE port = NoPid
    <3>1. \A q \in Pid : Breathes(q)' => Breathes(q)
      BY <1>11, <2>2 DEF Bind, Breathes
    <3>2. QED
      BY <1>11, <2>1, <2>2, <3>1 DEF Bind
  <2>3. CASE port # NoPid
    BY <1>11, <2>1, <2>3, KilledOnRecord DEF Bind
  <2>4. QED
    BY <2>2, <2>3
<1>12. ASSUME NEW p \in Pid, ServerDies(p) PROVE OnRecord'
  <2>1. p <= lastPid
    BY <1>12 DEF ServerDies, Breathes
  <2>2. QED
    BY <1>12, <2>1, KilledOnRecord DEF ServerDies
<1>13. CASE UNCHANGED daemonVars
  BY <1>13 DEF daemonVars, Breathes
<1>14. QED
  BY <1>1, <1>2, <1>3, <1>4, <1>5, <1>6, <1>7, <1>8, <1>9, <1>10, <1>11, <1>12, <1>13
     DEF DaemonNext

\* The inductive invariant of the pid file, its types included.
THEOREM OnRecordHolds == Daemons => []OnRecord
BY InitOnRecord, StepOnRecord, PTL DEF Daemons

\* A server on record is the one that stop and status find, as long as it lives.
THEOREM RecordedIsFoundHolds == Daemons => []RecordedIsFound
<1>1. OnRecord => RecordedIsFound
  BY DEF OnRecord
<1>2. QED
  BY <1>1, OnRecordHolds, PTL

(***************************************************************************)
(* The sizes.                                                              *)
(***************************************************************************)

\* The memory the workers need with the queue's floor beside them, in hundredths.
Needs(w, q) == 100 * EstimatePeakMb(w, q)

\* Each of the two sizes is either the least the code gives at all or fits the
\* reading it was made from: the workers with the queue's floor reserved beside
\* them, the queue with the workers that are there.
Sized ==
    /\ SizingTypeOK
    /\ workers = 0 => queueMb = 0
    /\ workers > 1 /\ workersFor # Unknown =>
           Needs(workers, QUEUE_MIN_MB) <= Budget(workersFor)
    /\ queueMb > 0 /\ queueFor # Unknown /\ queueMb # QUEUE_MIN_MB =>
           Needs(workers, queueMb) <= Budget(queueFor)

\* The workers a memory allows are one, or fit it with the queue's floor.
LEMMA ByMemoryFits ==
    ASSUME NEW mb \in Nat
    PROVE  /\ ByMemory(mb) \in Nat \ {0}
           /\ ByMemory(mb) > 1 => Needs(ByMemory(mb), QUEUE_MIN_MB) <= Budget(mb)
<1> DEFINE left == Budget(mb) - 100 * (QUEUE_MIN_MB + BASE_MB)
           w    == left \div (100 * PER_WORKER_MB)
<1>1. left \in Int /\ left = mb * 85 - 13600
  BY DEF Budget, HEADROOM, QUEUE_MIN_MB, BASE_MB
<1>2. w \in Int /\ 9000 * w <= left
  <2>1. w = left \div 9000
    BY DEF PER_WORKER_MB
  <2> HIDE DEF left
  <2>2. QED
    BY <1>1, <2>1
<1>3. ByMemory(mb) = AtLeast(1, w)
  BY DEF ByMemory
<1> HIDE DEF left, w
<1>4. ByMemory(mb) = IF w < 1 THEN 1 ELSE w
  BY <1>2, <1>3 DEF AtLeast
<1>5. QED
  BY <1>1, <1>2, <1>4 DEF Needs, EstimatePeakMb, Budget, HEADROOM, QUEUE_MIN_MB, BASE_MB,
     PER_WORKER_MB

\* `auto` gives one worker at least, and fits them to what memory it could read.
LEMMA AutoWorkersFit ==
    ASSUME NEW mb \in Readings, NEW c \in Cpus
    PROVE  /\ AutoWorkers(mb, c) \in Nat \ {0}
           /\ AutoWorkers(mb, c) > 1 /\ mb # Unknown =>
                  Needs(AutoWorkers(mb, c), QUEUE_MIN_MB) <= Budget(mb)
<1>1. ByCpu(c) \in Nat \ {0}
  BY SizingAssumption DEF ByCpu, AtLeast
<1>2. CASE mb = Unknown
  BY <1>1, <1>2 DEF AutoWorkers
<1>3. CASE mb # Unknown
  <2>1. mb \in Nat
    BY <1>3, SizingAssumption DEF Readings
  <2>2. AutoWorkers(mb, c) \in Nat \ {0} /\ AutoWorkers(mb, c) <= ByMemory(mb)
    BY <1>1, <1>3, <2>1, ByMemoryFits DEF AutoWorkers, AtMost
  <2>3. QED
    BY <2>1, <2>2, ByMemoryFits DEF Needs, EstimatePeakMb, Budget, HEADROOM, QUEUE_MIN_MB,
       BASE_MB, PER_WORKER_MB
<1>4. QED
  BY <1>2, <1>3

\* The queue is its floor, or fits beside the workers in what memory was read.
LEMMA QueueFits ==
    ASSUME NEW w \in Nat, NEW mb \in Readings
    PROVE  /\ QueueBudgetMb(w, mb) \in Nat \ {0}
           /\ mb # Unknown /\ QueueBudgetMb(w, mb) # QUEUE_MIN_MB =>
                  Needs(w, QueueBudgetMb(w, mb)) <= Budget(mb)
<1>1. CASE mb = Unknown
  BY <1>1 DEF QueueBudgetMb, QUEUE_FALLBACK_MB
<1>2. CASE mb # Unknown
  <2> DEFINE spare == Budget(mb) - 100 * EstimatePeakMb(w, 0)
             share == (spare * QUEUE_SHARE) \div 10000
  <2>1. mb \in Nat
    BY <1>2, SizingAssumption DEF Readings
  <2>2. spare \in Int /\ spare = mb * 85 - 12000 - 9000 * w
    BY <2>1 DEF Budget, HEADROOM, EstimatePeakMb, BASE_MB, PER_WORKER_MB
  <2>3. QueueBudgetMb(w, mb) = AtLeast(QUEUE_MIN_MB, AtMost(QUEUE_MAX_MB, share))
    BY <1>2 DEF QueueBudgetMb
  <2>4. share = (spare * 50) \div 10000
    BY DEF QUEUE_SHARE
  <2> HIDE DEF spare
  <2>5. share \in Int /\ 10000 * share <= spare * 50
    BY <2>2, <2>4
  <2> HIDE DEF share
  <2>6. /\ QueueBudgetMb(w, mb) \in Nat \ {0}
        /\ QueueBudgetMb(w, mb) # 16 =>
               QueueBudgetMb(w, mb) > 16 /\ QueueBudgetMb(w, mb) <= share
    BY <2>3, <2>5 DEF AtLeast, AtMost, QUEUE_MIN_MB, QUEUE_MAX_MB
  <2>7. QED
    BY <2>1, <2>2, <2>5, <2>6 DEF Needs, EstimatePeakMb, Budget, HEADROOM, QUEUE_MIN_MB,
       BASE_MB, PER_WORKER_MB
<1>3. QED
  BY <1>1, <1>2

\* The constructor keeps it: the workers are sized first, and once.
LEMMA StepSized == Sized /\ [SizingNext]_sizingVars => Sized'
<1> SUFFICES ASSUME Sized, [SizingNext]_sizingVars PROVE Sized'
  OBVIOUS
<1>1. ASSUME NEW mb \in Readings, NEW c \in Cpus, SizeWorkers(mb, c) PROVE Sized'
  <2>1. AutoWorkers(mb, c) \in Nat \ {0} /\ queueMb = 0
    BY <1>1, AutoWorkersFit DEF Sized, SizeWorkers
  <2>2. QED
    BY <1>1, <2>1, AutoWorkersFit DEF Sized, SizeWorkers, SizingTypeOK
<1>2. ASSUME NEW mb \in Readings, SizeQueue(mb) PROVE Sized'
  BY <1>2, QueueFits DEF Sized, SizeQueue, SizingTypeOK
<1>3. CASE UNCHANGED sizingVars
  BY <1>3 DEF Sized, SizingTypeOK, sizingVars
<1>4. QED
  BY <1>1, <1>2, <1>3 DEF SizingNext

\* Every size is a number, and each is the least there is or fits its reading.
THEOREM SizedHolds == Sizing => []Sized
<1>1. SizingInit => Sized
  BY DEF SizingInit, Sized, SizingTypeOK, Readings
<1>2. QED
  BY <1>1, StepSized, PTL DEF Sizing

\* Whatever the machine had at either reading, the workers and the queue fit the
\* larger of the two together, if one worker with the floor does.
THEOREM AutoFitsHolds == Sizing => []AutoFits
<1>1. Sized => AutoFits
  <2> SUFFICES ASSUME Sized, queueMb > 0, workersFor # Unknown, queueFor # Unknown,
                      100 * Least <= Budget(AtLeast(workersFor, queueFor))
               PROVE  100 * EstimatePeakMb(workers, queueMb)
                          <= Budget(AtLeast(workersFor, queueFor))
    BY DEF AutoFits
  <2>1. PICK m \in Nat : m = AtLeast(workersFor, queueFor)
                        /\ m >= workersFor /\ m >= queueFor
    BY SizingAssumption DEF Sized, SizingTypeOK, Readings, AtLeast
  <2>2. workersFor \in Nat /\ queueFor \in Nat /\ workers \in Nat \ {0} /\ queueMb \in Nat
    BY SizingAssumption DEF Sized, SizingTypeOK, Readings
  <2> USE DEF Needs, EstimatePeakMb, Budget, HEADROOM, QUEUE_MIN_MB, BASE_MB, PER_WORKER_MB
  <2>3. CASE queueMb # QUEUE_MIN_MB
    BY <2>1, <2>2, <2>3 DEF Sized
  <2>4. CASE queueMb = QUEUE_MIN_MB /\ workers > 1
    BY <2>1, <2>2, <2>4 DEF Sized
  <2>5. CASE queueMb = QUEUE_MIN_MB /\ workers = 1
    BY <2>1, <2>2, <2>5 DEF Least
  <2>6. QED
    BY <2>2, <2>3, <2>4, <2>5
<1>2. QED
  BY <1>1, SizedHolds, PTL

(***************************************************************************)
(* Together.                                                               *)
(***************************************************************************)

\* What the run checks is what is proved of: a behaviour of the composition is
\* one of each part, which takes its own steps or stands still.
THEOREM ServingIsItsParts ==
    Serving => Spec /\ SchemaSpec /\ LimiterSpec /\ Daemons /\ Sizing
<1>1. ServingInit => Init /\ SchemaInit /\ LimiterInit /\ DaemonInit /\ SizingInit
  BY DEF ServingInit
<1>2. [ServingNext]_servingVars =>
         /\ [Next]_vars /\ [SchemaNext]_schemaVars /\ [LimiterNext]_limiterVars
         /\ [DaemonNext]_daemonVars /\ [SizingNext]_sizingVars
  BY DEF ServingNext, servingVars
<1>3. ServingFairness => SchemaFairness
  BY PTL DEF ServingFairness
<1>4. QED
  BY <1>1, <1>2, <1>3, PTL DEF Serving, Spec, SchemaSpec, LimiterSpec, Daemons, Sizing

\* The variables of every part keep their types, in whichever part runs.
THEOREM ServingTypeCorrect == Serving => []ServingTypeOK
<1>1. OnRecord /\ Sized => DaemonTypeOK /\ SizingTypeOK
  BY DEF OnRecord, Sized
<1>2. TypeOK /\ SchemaTypeOK /\ LimiterTypeOK /\ DaemonTypeOK /\ SizingTypeOK => ServingTypeOK
  BY DEF ServingTypeOK
<1>3. QED
  BY <1>1, <1>2, ServingIsItsParts, QueueTypeCorrect, SchemaTypeCorrect,
     LimiterTypeCorrect, OnRecordHolds, SizedHolds, PTL
=============================================================================
