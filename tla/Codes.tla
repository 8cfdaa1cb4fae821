-------------------------------- MODULE Codes --------------------------------
(***************************************************************************)
(* External codes: the fast path of JobQueue.submit, which answers a known *)
(* code from the database, and bind_code, which a worker runs once         *)
(* pipeline.process has committed its rows. Both read the code's row in    *)
(* one statement and write it in a later one, so everything else that      *)
(* writes external_ids may come between.                                   *)
(*                                                                         *)
(* A write of the code and the commit that follows it are one step: until  *)
(* the commit the row is locked and nobody sees it. A Code here is a       *)
(* tenant with an external_id, which together are the key.                 *)
(***************************************************************************)
EXTENDS FiniteSets

CONSTANTS
    Code, Image, Profile,
    Job,     \* submissions; each is made once
    None

ASSUME NoneAssumption == None \notin Image /\ None \notin Profile

VARIABLES
    codes,      \* external_ids: the image and profile a code names
    artifacts,  \* rows of an image and profile: none, usable or past the TTL
    jobs,       \* submissions, and how far each is
    stale       \* codes written on the strength of a lookup that another
                \* step had overtaken, for properties

vars == <<codes, artifacts, jobs, stale>>

Policy == {"reuse", "replace", "reject"}
Unbound == [image |-> None, profile |-> None]

Binding == {Unbound} \union [image : Image, profile : Profile]
Submission ==
    [pc : {"new", "seen", "hit", "answer", "queued", "bind", "insert", "rebind",
           "touch", "repoint", "done", "conflict", "failed"},
     code : Code, image : Image, profile : Profile, policy : Policy,
     found : Image \union {None}]  \* source_sha of the row last read

TypeOK ==
    /\ codes \in [Code -> Binding]
    /\ artifacts \in [Image -> [Profile -> {"none", "usable", "expired"}]]
    /\ jobs \in [Job -> Submission]
    /\ stale \subseteq Code

Init ==
    /\ codes = [c \in Code |-> Unbound]
    /\ artifacts = [i \in Image |-> [p \in Profile |-> "none"]]
    /\ jobs \in [Job -> {s \in Submission : s.pc = "new" /\ s.found = None}]
    /\ stale = {}

-----------------------------------------------------------------------------

At(j, pc)   == jobs[j].pc = pc
Goto(j, pc) == jobs' = [jobs EXCEPT ![j].pc = pc]
Named(j)    == codes[jobs[j].code].image
Mine(j)     == jobs[j].image

\* The images row is there as long as one of its artifacts is.
Known(i) == \E p \in Profile : artifacts[i][p] # "none"

\* find_code, and where to go from what it found.
Find(j, pc) ==
    jobs' = [jobs EXCEPT ![j].found = Named(j), ![j].pc = pc]

\* touch_code: by code, whatever the row names by now.
Touched(j) ==
    IF Named(j) = None THEN codes
    ELSE [codes EXCEPT ![jobs[j].code].profile = jobs[j].profile]

\* The job's code now names its bytes, whatever it named before.
Bound(j) == [codes EXCEPT ![jobs[j].code] =
               [image |-> Mine(j), profile |-> jobs[j].profile]]

Made(j) == artifacts[Mine(j)][jobs[j].profile] # "none"

\* The binding is written and find_artifact follows. Without an artifact the
\* job fails, and _fail commits what was written.
Finish(j) == Goto(j, IF Made(j) THEN "done" ELSE "failed")

\* A touch of a row that is not what the job read, or of no use by now.
TouchedLate(j) ==
    IF Named(j) = None THEN stale
    ELSE IF Named(j) = jobs[j].found /\ artifacts[Named(j)][jobs[j].profile] # "none"
    THEN stale \ {jobs[j].code} ELSE stale \union {jobs[j].code}

BoundLate(j) == IF Made(j) THEN stale \ {jobs[j].code}
                           ELSE stale \union {jobs[j].code}

-----------------------------------------------------------------------------
(* submit: the fast path.                                                  *)

\* With force, or to retain an original, the bytes are needed anyway.
Submit(j) ==
    /\ At(j, "new")
    /\ \/ /\ jobs[j].policy = "reuse"
          /\ Find(j, IF Named(j) = None THEN "queued" ELSE "seen")
       \/ Goto(j, "queued")
    /\ UNCHANGED <<codes, artifacts, stale>>

\* resolve_code: only a usable artifact satisfies the code.
Resolve(j) ==
    /\ At(j, "seen")
    /\ Goto(j, IF artifacts[jobs[j].found][jobs[j].profile] = "usable"
               THEN "hit" ELSE "queued")
    /\ UNCHANGED <<codes, artifacts, stale>>

\* _instant_done looks the artifact up again. If it is gone the request fails
\* below, the touch still in the thread's transaction.
FindHit(j) ==
    /\ At(j, "hit")
    /\ IF artifacts[jobs[j].found][jobs[j].profile] # "none"
       THEN Goto(j, "answer") /\ UNCHANGED <<codes, stale>>
       ELSE /\ Goto(j, "failed")
            /\ \/ UNCHANGED <<codes, stale>>
               \/ codes' = Touched(j) /\ stale' = TouchedLate(j)
    /\ UNCHANGED artifacts

\* The code is touched and a finished job recorded; tags, in between, fail
\* if the image is gone.
AnswerHit(j) ==
    /\ At(j, "answer")
    /\ \/ Goto(j, "done") /\ codes' = Touched(j) /\ stale' = TouchedLate(j)
       \/ /\ ~Known(jobs[j].found)
          /\ Goto(j, "failed") /\ UNCHANGED <<codes, stale>>
    /\ UNCHANGED artifacts

-----------------------------------------------------------------------------
(* The worker: process, then bind_code, then find_artifact and the commit. *)

Process(j) ==
    /\ At(j, "queued")
    /\ \/ /\ artifacts' = [artifacts EXCEPT ![Mine(j)][jobs[j].profile] = "usable"]
          /\ Goto(j, "bind")
       \/ Goto(j, "failed") /\ UNCHANGED artifacts
    /\ UNCHANGED <<codes, stale>>

\* Same bytes are touched, others need a policy that says so.
Decide(j) ==
    IF Named(j) = Mine(j) THEN "touch"
    ELSE IF jobs[j].policy = "replace" THEN "repoint" ELSE "conflict"

FindCode(j) ==
    /\ At(j, "bind")
    /\ Find(j, IF Named(j) = None THEN "insert" ELSE Decide(j))
    /\ UNCHANGED <<codes, artifacts, stale>>

\* Mutant: the insert takes the code over.
InsertOrUpdate(j) ==
    /\ At(j, "insert")
    /\ IF Known(Mine(j))
       THEN codes' = Bound(j) /\ stale' = BoundLate(j) /\ Finish(j)
       ELSE Goto(j, "failed") /\ UNCHANGED <<codes, stale>>
    /\ UNCHANGED artifacts

\* insert_code: the primary key decides who is first, the foreign key
\* whether the image still is there.
InsertCode(j) ==
    /\ At(j, "insert")
    /\ \/ /\ Named(j) = None /\ Known(Mine(j))
          /\ codes' = Bound(j) /\ stale' = BoundLate(j) /\ Finish(j)
       \/ Named(j) # None /\ Goto(j, "rebind") /\ UNCHANGED <<codes, stale>>
       \/ ~Known(Mine(j)) /\ Goto(j, "failed") /\ UNCHANGED <<codes, stale>>
    /\ UNCHANGED artifacts

\* The row that won, read again. If it has been deleted since, the job fails.
Rebind(j) ==
    /\ At(j, "rebind")
    /\ Find(j, IF Named(j) = None THEN "failed" ELSE Decide(j))
    /\ UNCHANGED <<codes, artifacts, stale>>

TouchCode(j) ==
    /\ At(j, "touch")
    /\ codes' = Touched(j) /\ stale' = TouchedLate(j)
    /\ Finish(j)
    /\ UNCHANGED artifacts

\* Mutant: the profile of the old image stays.
RepointImage(j) ==
    /\ At(j, "repoint") /\ Known(Mine(j)) /\ Named(j) # None
    /\ codes' = [codes EXCEPT ![jobs[j].code].image = Mine(j)]
    /\ stale' = BoundLate(j)
    /\ Finish(j)
    /\ UNCHANGED artifacts

\* Mutant: the lookup decided that there is a row to replace.
RepointNothing(j) ==
    /\ At(j, "repoint") /\ Finish(j)
    /\ UNCHANGED <<codes, artifacts, stale>>

\* repoint_code: an UPDATE, which may find no row any more, and whose foreign
\* key fails if the image is gone.
RepointCode(j) ==
    /\ At(j, "repoint")
    /\ \/ /\ Named(j) # None /\ Known(Mine(j))
          /\ codes' = Bound(j) /\ stale' = BoundLate(j) /\ Finish(j)
       \/ Named(j) = None /\ Finish(j) /\ UNCHANGED <<codes, stale>>
       \/ /\ Named(j) # None /\ ~Known(Mine(j))
          /\ Goto(j, "failed") /\ UNCHANGED <<codes, stale>>
    /\ UNCHANGED artifacts

-----------------------------------------------------------------------------

\* A deadline passes, and the bytes are pruned.
Expire(i, p) ==
    /\ artifacts[i][p] = "usable"
    /\ artifacts' = [artifacts EXCEPT ![i][p] = "expired"]
    /\ UNCHANGED <<codes, jobs, stale>>

\* Mutant: the profile survives.
WithoutImage(gone) ==
    [c \in Code |-> IF c \in gone THEN [codes[c] EXCEPT !.image = None]
                                  ELSE codes[c]]

Without(gone) == [c \in Code |-> IF c \in gone THEN Unbound ELSE codes[c]]

\* delete_image: artifacts and codes by cascade.
DeleteImage(i) ==
    /\ Known(i)
    /\ artifacts' = [artifacts EXCEPT ![i] = [p \in Profile |-> "none"]]
    /\ codes' = Without({c \in Code : codes[c].image = i})
    /\ stale' = stale \ {c \in Code : codes[c].image = i}
    /\ UNCHANGED jobs

\* release_tenant_labels: the image stays, a tenant's code for it does not.
ReleaseCode(c) ==
    /\ codes[c] # Unbound
    /\ codes' = Without({c}) /\ stale' = stale \ {c}
    /\ UNCHANGED <<artifacts, jobs>>

Step(j) ==
    \/ Submit(j) \/ Resolve(j) \/ FindHit(j) \/ AnswerHit(j)
    \/ Process(j) \/ FindCode(j) \/ InsertCode(j) \/ Rebind(j)
    \/ TouchCode(j) \/ RepointCode(j)

Next ==
    \/ \E j \in Job : Step(j)
    \/ \E i \in Image : DeleteImage(i) \/ \E p \in Profile : Expire(i, p)
    \/ \E c \in Code : ReleaseCode(c)

Spec == Init /\ [][Next]_vars

-----------------------------------------------------------------------------

Submitted == {j \in Job : ~At(j, "new")}
Asked     == {<<jobs[j].code, jobs[j].image>> : j \in Submitted}
Replacing == {<<jobs[j].code, jobs[j].image>> :
                 j \in {k \in Submitted : jobs[k].policy = "replace"}}
Names     == [c \in Code |-> codes[c].image]

\* Codes keep what Bindings promises: whatever order lookups and writes of
\* concurrent submissions, deletions and deadlines take, a code names an image
\* submitted under it and is repointed only by a submission that asked for it.
B == INSTANCE Bindings WITH
        asked <- Asked, replacing <- Replacing, bound <- Names

CodesKeepPromises == B!Spec

\* A code names an image together with the profile it was redacted with, and
\* there is an artifact of the two: reads by code find it. The exceptions are
\* a touch that comes after the row was repointed, and a job whose artifact
\* was deleted before it bound its code.
CodeNamesArtifact ==
    \A c \in Code \ stale :
        codes[c] # Unbound => artifacts[codes[c].image][codes[c].profile] # "none"

\* Submissions of the same bytes under the same code never conflict: losing
\* the insert to one's twin is a success. A conflict has another image.
NoSpuriousConflict ==
    \A j \in Job : At(j, "conflict") =>
        \E k \in Submitted : /\ jobs[k].code = jobs[j].code
                             /\ jobs[k].image # jobs[j].image
                             /\ jobs[k].image = jobs[j].found

\* A worker's job that is reported done has its code name its bytes, unless
\* the row it read was removed or repointed before it wrote.
DoneIsBound ==
    [][\A j \in Job :
          /\ jobs[j].pc \in {"insert", "touch", "repoint"} /\ At(j, "done")'
          /\ Named(j) = jobs[j].found
          => Named(j)' = Mine(j)]_vars
=============================================================================
