----------------------------- MODULE CodesProofs -----------------------------
(***************************************************************************)
(* Proofs about Codes, for any number of submissions, codes, images and    *)
(* profiles: its types, what its jobs remember, the four properties its    *)
(* run checks, and that it implements Bindings.                            *)
(***************************************************************************)
EXTENDS Codes, TLAPS

\* The steps of one job, by what they do to codes and to the job.
LEMMA StepShape ==
    ASSUME TypeOK, NEW j \in Job, Step(j)
    PROVE  /\ \/ codes' = codes
              \/ codes' = Touched(j)
              \/ Known(Mine(j)) /\ codes' = Bound(j)
           /\ \/ \E pc \in {"seen", "hit", "answer", "queued", "bind", "insert",
                            "rebind", "touch", "repoint", "done", "conflict",
                            "failed"} :
                    jobs' = [jobs EXCEPT ![j].pc = pc]
              \/ \E pc \in {"seen", "queued", "insert", "touch", "repoint",
                            "conflict", "failed"} : Find(j, pc)
<1> USE DEF Goto
<1>1. CASE Submit(j)
  BY <1>1 DEF Submit
<1>2. CASE Resolve(j) \/ FindHit(j) \/ AnswerHit(j)
  BY <1>2 DEF Resolve, FindHit, AnswerHit
<1>3. CASE Process(j)
  BY <1>3 DEF Process
<1>4. CASE FindCode(j) \/ Rebind(j)
  BY <1>4 DEF FindCode, Rebind, Decide
<1>5. CASE InsertCode(j) \/ RepointCode(j)
  BY <1>5 DEF InsertCode, RepointCode, Finish
<1>6. CASE TouchCode(j)
  BY <1>6 DEF TouchCode, Finish
<1>7. QED
  BY <1>1, <1>2, <1>3, <1>4, <1>5, <1>6 DEF Step

LEMMA TypeStep == TypeOK /\ [Next]_vars => TypeOK'
<1> SUFFICES ASSUME TypeOK, [Next]_vars PROVE TypeOK'
  OBVIOUS
<1>1. ASSUME NEW j \in Job, Step(j) PROVE TypeOK'
  <2>1. jobs' \in [Job -> Submission]
    <3>1. Named(j) \in Image \union {None}
      BY DEF TypeOK, Binding, Unbound, Named, Submission
    <3>2. ASSUME NEW pc \in {"seen", "hit", "answer", "queued", "bind", "insert",
                             "rebind", "touch", "repoint", "done", "conflict",
                             "failed"},
                 \/ jobs' = [jobs EXCEPT ![j].pc = pc]
                 \/ jobs' = [jobs EXCEPT ![j].found = Named(j), ![j].pc = pc]
          PROVE  jobs' \in [Job -> Submission]
      <4>1. jobs[j] \in Submission
        BY DEF TypeOK
      <4>2. /\ [jobs[j] EXCEPT !.pc = pc] \in Submission
            /\ [jobs[j] EXCEPT !.found = Named(j), !.pc = pc] \in Submission
        BY <3>1, <4>1 DEF Submission
      <4>3. \/ jobs' = [jobs EXCEPT ![j] = [jobs[j] EXCEPT !.pc = pc]]
            \/ jobs' = [jobs EXCEPT ![j] =
                          [jobs[j] EXCEPT !.found = Named(j), !.pc = pc]]
        BY <3>2
      <4>4. QED
        BY <4>2, <4>3 DEF TypeOK
    <3>3. QED
      BY <1>1, <3>2, StepShape DEF Find
  <2>2. codes' \in [Code -> Binding]
    <3>1. Bound(j) \in [Code -> Binding]
      BY DEF TypeOK, Binding, Bound, Mine, Submission
    <3>2. Touched(j) \in [Code -> Binding]
      <4>1. CASE Named(j) = None
        BY <4>1 DEF Touched, TypeOK
      <4>2. CASE Named(j) # None
        <5>1. /\ jobs[j].code \in Code /\ jobs[j].profile \in Profile
              /\ codes[jobs[j].code] \in [image : Image, profile : Profile]
          BY <4>2 DEF TypeOK, Submission, Binding, Unbound, Named
        <5>2. [codes[jobs[j].code] EXCEPT !.profile = jobs[j].profile] \in Binding
          BY <5>1 DEF Binding
        <5>3. QED
          BY <4>2, <5>1, <5>2 DEF Touched, TypeOK
      <4>3. QED
        BY <4>1, <4>2
    <3>3. QED
      BY <1>1, <3>1, <3>2, StepShape DEF TypeOK
  <2>3. artifacts' \in [Image -> [Profile -> {"none", "usable", "expired"}]]
    <3>1. artifacts' = artifacts \/ Process(j)
      BY <1>1 DEF Step, Submit, Resolve, FindHit, AnswerHit, FindCode,
         InsertCode, Rebind, TouchCode, RepointCode
    <3>2. QED
      BY <3>1 DEF Process, TypeOK, Mine, Submission
  <2>4. stale' \subseteq Code
    <3>1. jobs[j].code \in Code
      BY DEF TypeOK, Submission
    <3>2. stale' \in {stale, TouchedLate(j), BoundLate(j)}
      BY <1>1 DEF Step, Submit, Resolve, FindHit, AnswerHit, Process, FindCode,
         InsertCode, Rebind, TouchCode, RepointCode
    <3>3. QED
      BY <3>1, <3>2 DEF TouchedLate, BoundLate, TypeOK
  <2>5. QED
    BY <2>1, <2>2, <2>3, <2>4 DEF TypeOK
<1>2. ASSUME NEW i \in Image, DeleteImage(i) PROVE TypeOK'
  BY <1>2 DEF DeleteImage, Without, TypeOK, Binding
<1>3. ASSUME NEW i \in Image, NEW p \in Profile, Expire(i, p) PROVE TypeOK'
  BY <1>3 DEF Expire, TypeOK
<1>4. ASSUME NEW c \in Code, ReleaseCode(c) PROVE TypeOK'
  BY <1>4 DEF ReleaseCode, Without, TypeOK, Binding
<1>5. CASE UNCHANGED vars
  BY <1>5 DEF vars, TypeOK
<1>6. QED
  BY <1>1, <1>2, <1>3, <1>4, <1>5 DEF Next

LEMMA TypeInit == Init => TypeOK
BY DEF Init, TypeOK, Binding, Submission

\* Every variable stays in its type.
THEOREM CodesTypeCorrect == Spec => []TypeOK
BY TypeInit, TypeStep, PTL DEF Spec

-----------------------------------------------------------------------------

\* What a code names, and what a job has read, somebody submitted.
Origins ==
    /\ \A c \in Code : codes[c].image # None => <<c, codes[c].image>> \in Asked
    /\ \A j \in Job :
          jobs[j].found # None => <<jobs[j].code, jobs[j].found>> \in Asked

\* What a job that is about to write has read before.
Looked ==
    \A j \in Job :
        /\ At(j, "insert") => jobs[j].found = None
        /\ At(j, "touch") => jobs[j].found = Mine(j)
        /\ At(j, "repoint") => jobs[j].policy = "replace" /\ jobs[j].found # None
        /\ At(j, "conflict") => jobs[j].found \notin {None, Mine(j)}

\* A submission is what it is, and once made it has been made.
LEMMA Parameters ==
    ASSUME TypeOK, [Next]_vars, NEW k \in Job
    PROVE  /\ jobs'[k].code = jobs[k].code /\ jobs'[k].image = jobs[k].image
           /\ jobs'[k].profile = jobs[k].profile
           /\ jobs'[k].policy = jobs[k].policy
           /\ k \in Submitted => k \in Submitted'
<1>1. ASSUME NEW j \in Job, Step(j)
      PROVE  /\ jobs'[k].code = jobs[k].code /\ jobs'[k].image = jobs[k].image
             /\ jobs'[k].profile = jobs[k].profile
             /\ jobs'[k].policy = jobs[k].policy
             /\ jobs[k].pc # "new" => jobs'[k].pc # "new"
  <2>1. PICK pc \in {"seen", "hit", "answer", "queued", "bind", "insert",
                     "rebind", "touch", "repoint", "done", "conflict", "failed"} :
            \/ jobs' = [jobs EXCEPT ![j].pc = pc]
            \/ jobs' = [jobs EXCEPT ![j].found = Named(j), ![j].pc = pc]
    BY <1>1, StepShape DEF Find
  <2>2. CASE k = j
    <3>1. jobs[j] \in Submission /\ pc # "new"
      BY <2>1 DEF TypeOK
    <3>2. \/ jobs'[j] = [jobs[j] EXCEPT !.pc = pc]
          \/ jobs'[j] = [jobs[j] EXCEPT !.found = Named(j), !.pc = pc]
      BY <2>1 DEF TypeOK
    <3>3. QED
      BY <2>2, <3>1, <3>2 DEF Submission
  <2>3. CASE k # j
    BY <2>1, <2>3 DEF TypeOK
  <2>4. QED
    BY <2>2, <2>3
<1>2. CASE jobs' = jobs
  BY <1>2 DEF Submitted, At
<1>3. QED
  BY <1>1, <1>2 DEF Next, vars, DeleteImage, Expire, ReleaseCode, Submitted, At

LEMMA AskedStays ==
    ASSUME TypeOK, [Next]_vars
    PROVE  Asked \subseteq Asked'
<1>1. ASSUME NEW k \in Submitted
      PROVE  /\ k \in Submitted'
             /\ <<jobs'[k].code, jobs'[k].image>> = <<jobs[k].code, jobs[k].image>>
  BY Parameters DEF Submitted
<1>2. QED
  BY <1>1 DEF Asked

\* The job that made the step, after it.
LEMMA StepMade ==
    ASSUME TypeOK, NEW j \in Job, Step(j)
    PROVE  /\ jobs'[j].pc # "new"
           /\ jobs'[j].found \in {jobs[j].found, Named(j)}
           /\ \A k \in Job \ {j} : jobs'[k] = jobs[k]
<1>1. PICK pc \in {"seen", "hit", "answer", "queued", "bind", "insert",
                   "rebind", "touch", "repoint", "done", "conflict", "failed"} :
          \/ jobs' = [jobs EXCEPT ![j].pc = pc]
          \/ jobs' = [jobs EXCEPT ![j].found = Named(j), ![j].pc = pc]
  BY StepShape DEF Find
<1>2. QED
  BY <1>1 DEF TypeOK, Submission

LEMMA OriginsStep == TypeOK /\ Origins /\ [Next]_vars => Origins'
<1> SUFFICES ASSUME TypeOK, Origins, [Next]_vars PROVE Origins'
  OBVIOUS
<1>0. TypeOK'
  BY TypeStep
<1>1. ASSUME NEW j \in Job, Step(j) PROVE Origins'
  <2>1. /\ jobs[j].code \in Code /\ jobs'[j].code = jobs[j].code
        /\ jobs'[j].image = jobs[j].image
    BY Parameters DEF TypeOK, Submission
  <2>2. <<jobs[j].code, jobs[j].image>> \in Asked'
    <3>1. j \in Submitted'
      BY <1>1, StepMade DEF Submitted, At
    <3>2. QED
      BY <2>1, <3>1 DEF Asked
  <2>3. ASSUME NEW c \in Code, codes'[c].image # None
        PROVE  <<c, codes'[c].image>> \in Asked'
    <3>1. CASE codes'[c].image = codes[c].image
      BY <2>3, <3>1, AskedStays DEF Origins
    <3>2. CASE codes'[c].image # codes[c].image
      <4>1. codes' = Bound(j)
        <5>1. codes' = Touched(j) => codes'[c].image = codes[c].image
          BY <2>1 DEF Touched, TypeOK, Binding
        <5>2. QED
          BY <1>1, <3>2, <5>1, StepShape
      <4>2. c = jobs[j].code /\ codes'[c].image = jobs[j].image
        BY <2>1, <3>2, <4>1 DEF Bound, Mine, TypeOK
      <4>3. QED
        BY <2>2, <4>2
    <3>3. QED
      BY <3>1, <3>2
  <2>4. ASSUME NEW k \in Job, jobs'[k].found # None
        PROVE  <<jobs'[k].code, jobs'[k].found>> \in Asked'
    <3>1. jobs'[k].code = jobs[k].code /\ jobs[k].code \in Code
      BY Parameters DEF TypeOK, Submission
    <3>2. jobs'[k].found \in {jobs[k].found, Named(k)}
      BY <1>1, StepMade
    <3>3. <<jobs[k].code, jobs'[k].found>> \in Asked
      BY <2>4, <3>1, <3>2 DEF Origins, Named
    <3>4. QED
      BY <3>1, <3>3, AskedStays
  <2>5. QED
    BY <2>3, <2>4 DEF Origins
<1>2. ASSUME jobs' = jobs, \A c \in Code : codes'[c] \in {codes[c], Unbound}
      PROVE  Origins'
  BY <1>2 DEF Origins, Asked, Submitted, At, Unbound
<1>3. ASSUME NEW i \in Image, DeleteImage(i) PROVE Origins'
  BY <1>2, <1>3 DEF DeleteImage, Without
<1>4. ASSUME NEW i \in Image, NEW p \in Profile, Expire(i, p) PROVE Origins'
  BY <1>2, <1>4 DEF Expire
<1>5. ASSUME NEW c \in Code, ReleaseCode(c) PROVE Origins'
  BY <1>2, <1>5 DEF ReleaseCode, Without
<1>6. CASE UNCHANGED vars
  BY <1>2, <1>6 DEF vars
<1>7. QED
  BY <1>1, <1>3, <1>4, <1>5, <1>6 DEF Next

LEMMA LookedStep == TypeOK /\ Looked /\ [Next]_vars => Looked'
<1> SUFFICES ASSUME TypeOK, Looked, [Next]_vars PROVE Looked'
  OBVIOUS
<1>1. ASSUME NEW j \in Job, Step(j) PROVE Looked'
  <2>1. \A k \in Job \ {j} : jobs'[k] = jobs[k]
    BY <1>1, StepMade
  <2>2. /\ jobs[j] \in Submission
        /\ jobs'[j].image = jobs[j].image /\ jobs'[j].policy = jobs[j].policy
    BY Parameters DEF TypeOK
  <2>3. CASE jobs'[j].pc \notin {"insert", "touch", "repoint", "conflict"}
    BY <2>1, <2>3 DEF Looked, At, Mine
  <2>4. CASE FindCode(j) \/ Rebind(j)
    <3>1. PICK pc \in {"insert", "touch", "repoint", "conflict", "failed"} :
             /\ Find(j, pc)
             /\ pc = "insert" => Named(j) = None
             /\ pc \in {"touch", "repoint", "conflict"} =>
                   Named(j) # None /\ pc = Decide(j)
      BY <2>4 DEF FindCode, Rebind, Decide
    <3>2. jobs'[j] = [jobs[j] EXCEPT !.found = Named(j), !.pc = pc]
      BY <3>1 DEF Find, TypeOK
    <3>3. jobs'[j].pc = pc /\ jobs'[j].found = Named(j)
      BY <2>2, <3>2 DEF Submission
    <3>4. /\ jobs'[j].pc = "insert" => jobs'[j].found = None
          /\ jobs'[j].pc = "touch" => jobs'[j].found = jobs'[j].image
          /\ jobs'[j].pc = "repoint" =>
                jobs'[j].policy = "replace" /\ jobs'[j].found # None
          /\ jobs'[j].pc = "conflict" => jobs'[j].found \notin {None, jobs'[j].image}
      BY <2>2, <3>1, <3>3 DEF Decide, Mine
    <3>5. QED
      BY <2>1, <3>4 DEF Looked, At, Mine
  <2>5. ASSUME NEW pc \in {"seen", "queued", "hit", "answer", "failed", "done",
                           "bind", "rebind"},
               \/ jobs' = [jobs EXCEPT ![j].pc = pc]
               \/ jobs' = [jobs EXCEPT ![j].found = Named(j), ![j].pc = pc]
        PROVE  jobs'[j].pc \notin {"insert", "touch", "repoint", "conflict"}
    <3>1. \/ jobs'[j] = [jobs[j] EXCEPT !.pc = pc]
          \/ jobs'[j] = [jobs[j] EXCEPT !.found = Named(j), !.pc = pc]
      BY <2>5 DEF TypeOK
    <3>2. jobs'[j].pc = pc
      BY <2>2, <3>1 DEF Submission
    <3>3. QED
      BY <3>2
  <2>6. CASE Submit(j)
    BY <2>3, <2>5, <2>6 DEF Submit, Find, Goto
  <2>7. CASE Resolve(j) \/ FindHit(j) \/ AnswerHit(j) \/ Process(j)
    BY <2>3, <2>5, <2>7 DEF Resolve, FindHit, AnswerHit, Process, Goto
  <2>8. CASE InsertCode(j) \/ RepointCode(j) \/ TouchCode(j)
    BY <2>3, <2>5, <2>8 DEF InsertCode, RepointCode, TouchCode, Finish, Goto
  <2>9. QED
    BY <1>1, <2>4, <2>6, <2>7, <2>8 DEF Step
<1>2. CASE jobs' = jobs
  BY <1>2 DEF Looked, At, Mine
<1>3. QED
  BY <1>1, <1>2 DEF Next, vars, DeleteImage, Expire, ReleaseCode

\* The inductive invariant.
Memory == TypeOK /\ Origins /\ Looked

\* What codes name and jobs have read was submitted, and jobs that are about
\* to write have read what lets them.
THEOREM MemoryHolds == Spec => []Memory
<1>1. Init => Memory
  <2>1. Init => Origins
    BY DEF Init, Origins, Unbound, Submission
  <2>2. Init => Looked
    BY DEF Init, Looked, At, Submission
  <2>3. QED
    BY <2>1, <2>2, TypeInit DEF Memory
<1>2. Memory /\ [Next]_vars => Memory'
  BY TypeStep, OriginsStep, LookedStep DEF Memory
<1>3. QED
  BY <1>1, <1>2, PTL DEF Spec

\* Submissions of the same bytes under the same code never conflict.
THEOREM NoSpuriousConflictHolds == Spec => []NoSpuriousConflict
<1>1. Memory => NoSpuriousConflict
  <2> SUFFICES ASSUME Memory, NEW j \in Job, At(j, "conflict")
               PROVE  \E k \in Submitted : /\ jobs[k].code = jobs[j].code
                                           /\ jobs[k].image # jobs[j].image
                                           /\ jobs[k].image = jobs[j].found
    BY DEF NoSpuriousConflict
  <2>1. jobs[j].found \notin {None, jobs[j].image}
    BY DEF Memory, Looked, Mine
  <2>2. <<jobs[j].code, jobs[j].found>> \in Asked
    BY <2>1 DEF Memory, Origins
  <2>3. QED
    BY <2>1, <2>2 DEF Asked
<1>2. QED
  BY <1>1, MemoryHolds, PTL

-----------------------------------------------------------------------------

\* What a job writes: nothing but an artifact, a touch, or its binding.
LEMMA WriteShape ==
    ASSUME NEW j \in Job, Step(j)
    PROVE  \/ codes' = codes /\ stale' = stale /\ (artifacts' = artifacts \/ Process(j))
           \/ codes' = Touched(j) /\ stale' = TouchedLate(j) /\ artifacts' = artifacts
           \/ codes' = Bound(j) /\ stale' = BoundLate(j) /\ artifacts' = artifacts
<1>1. CASE Submit(j) \/ Resolve(j)
  BY <1>1 DEF Submit, Resolve
<1>2. CASE FindHit(j) \/ AnswerHit(j) \/ TouchCode(j)
  BY <1>2 DEF FindHit, AnswerHit, TouchCode
<1>3. CASE Process(j) \/ FindCode(j) \/ Rebind(j)
  BY <1>3 DEF Process, FindCode, Rebind
<1>4. CASE InsertCode(j) \/ RepointCode(j)
  BY <1>4 DEF InsertCode, RepointCode
<1>5. QED
  BY <1>1, <1>2, <1>3, <1>4 DEF Step

LEMMA NamesStep ==
    TypeOK /\ CodeNamesArtifact /\ [Next]_vars => CodeNamesArtifact'
<1> SUFFICES ASSUME TypeOK, CodeNamesArtifact, [Next]_vars
             PROVE  CodeNamesArtifact'
  OBVIOUS
<1>1. ASSUME NEW j \in Job, Step(j) PROVE CodeNamesArtifact'
  <2>1. /\ jobs[j] \in Submission /\ jobs[j].code \in Code
        /\ jobs[j].image \in Image /\ jobs[j].profile \in Profile
    BY DEF TypeOK, Submission
  <2>2. CASE codes' = codes /\ stale' = stale /\ (artifacts' = artifacts \/ Process(j))
    <3>1. ASSUME NEW i \in Image, NEW p \in Profile, artifacts[i][p] # "none"
          PROVE  artifacts'[i][p] # "none"
      BY <2>1, <2>2, <3>1 DEF Process, Mine, TypeOK
    <3>2. \A c \in Code : codes[c] # Unbound =>
             codes[c].image \in Image /\ codes[c].profile \in Profile
      BY DEF TypeOK, Binding
    <3>3. QED
      BY <2>2, <3>1, <3>2 DEF CodeNamesArtifact
  <2>3. CASE codes' = Touched(j) /\ stale' = TouchedLate(j) /\ artifacts' = artifacts
    <3>1. CASE Named(j) = None
      BY <2>3, <3>1 DEF Touched, TouchedLate, CodeNamesArtifact
    <3>2. CASE Named(j) # None
      <4>1. /\ codes[jobs[j].code] \in [image : Image, profile : Profile]
            /\ Named(j) = codes[jobs[j].code].image
        BY <2>1, <3>2 DEF Named, TypeOK, Binding, Unbound
      <4>2. codes' = [codes EXCEPT ![jobs[j].code] =
                        [image |-> Named(j), profile |-> jobs[j].profile]]
        <5>1. [codes[jobs[j].code] EXCEPT !.profile = jobs[j].profile]
                 = [image |-> Named(j), profile |-> jobs[j].profile]
          BY <4>1
        <5>2. codes' = [codes EXCEPT ![jobs[j].code] =
                          [codes[jobs[j].code] EXCEPT !.profile = jobs[j].profile]]
          BY <2>3, <3>2 DEF Touched
        <5>3. QED
          BY <5>1, <5>2
      <4>3. \A c \in Code \ {jobs[j].code} :
               codes'[c] = codes[c] /\ (c \in stale => c \in stale')
        BY <2>3, <3>2, <4>2 DEF TouchedLate, TypeOK
      <4>4. \/ jobs[j].code \in stale'
            \/ artifacts[Named(j)][jobs[j].profile] # "none"
        BY <2>3, <3>2 DEF TouchedLate
      <4>5. codes'[jobs[j].code] = [image |-> Named(j), profile |-> jobs[j].profile]
        BY <2>1, <4>2 DEF TypeOK
      <4>6. QED
        BY <2>3, <4>3, <4>4, <4>5 DEF CodeNamesArtifact
    <3>3. QED
      BY <3>1, <3>2
  <2>4. CASE codes' = Bound(j) /\ stale' = BoundLate(j) /\ artifacts' = artifacts
    <3>1. \A c \in Code \ {jobs[j].code} :
             codes'[c] = codes[c] /\ (c \in stale => c \in stale')
      BY <2>4 DEF Bound, BoundLate, TypeOK
    <3>2. \/ jobs[j].code \in stale'
          \/ artifacts[jobs[j].image][jobs[j].profile] # "none"
      BY <2>4 DEF BoundLate, Made, Mine
    <3>3. codes'[jobs[j].code] = [image |-> jobs[j].image, profile |-> jobs[j].profile]
      BY <2>1, <2>4 DEF Bound, Mine, TypeOK
    <3>4. QED
      BY <2>4, <3>1, <3>2, <3>3 DEF CodeNamesArtifact
  <2>5. QED
    BY <1>1, <2>2, <2>3, <2>4, WriteShape
<1>2. ASSUME NEW i \in Image, DeleteImage(i) PROVE CodeNamesArtifact'
  <2>1. ASSUME NEW c \in Code \ stale', codes'[c] # Unbound
        PROVE  artifacts'[codes'[c].image][codes'[c].profile] # "none"
    <3>1. codes'[c] = codes[c] /\ codes[c].image # i /\ c \notin stale
      BY <1>2, <2>1 DEF DeleteImage, Without
    <3>2. codes[c].image \in Image
      BY <2>1, <3>1 DEF TypeOK, Binding
    <3>3. artifacts'[codes[c].image] = artifacts[codes[c].image]
      BY <1>2, <3>1, <3>2 DEF DeleteImage, TypeOK
    <3>4. QED
      BY <2>1, <3>1, <3>3 DEF CodeNamesArtifact
  <2>2. QED
    BY <2>1 DEF CodeNamesArtifact
<1>3. ASSUME NEW i \in Image, NEW p \in Profile, Expire(i, p)
      PROVE  CodeNamesArtifact'
  <2>1. ASSUME NEW k \in Image, NEW q \in Profile, artifacts[k][q] # "none"
        PROVE  artifacts'[k][q] # "none"
    BY <1>3, <2>1 DEF Expire, TypeOK
  <2>2. \A c \in Code : codes[c] # Unbound =>
           codes[c].image \in Image /\ codes[c].profile \in Profile
    BY DEF TypeOK, Binding
  <2>3. QED
    BY <1>3, <2>1, <2>2 DEF Expire, CodeNamesArtifact
<1>4. ASSUME NEW c \in Code, ReleaseCode(c) PROVE CodeNamesArtifact'
  BY <1>4 DEF ReleaseCode, Without, CodeNamesArtifact
<1>5. CASE UNCHANGED vars
  BY <1>5 DEF vars, CodeNamesArtifact
<1>6. QED
  BY <1>1, <1>2, <1>3, <1>4, <1>5 DEF Next

\* A code names an artifact that is there, unless a step wrote to it on the
\* strength of a lookup that another had overtaken.
THEOREM CodeNamesArtifactHolds == Spec => []CodeNamesArtifact
<1>1. Init => CodeNamesArtifact
  BY DEF Init, CodeNamesArtifact
<1>2. QED
  BY <1>1, TypeInit, TypeStep, NamesStep, PTL DEF Spec

\* A job that is reported done has its code name its bytes, unless the row it
\* read was overtaken.
THEOREM DoneIsBoundHolds == Spec => DoneIsBound
<1>1. ASSUME Memory, [Next]_vars, NEW j \in Job,
             jobs[j].pc \in {"insert", "touch", "repoint"}, jobs'[j].pc = "done",
             Named(j) = jobs[j].found
      PROVE  codes'[jobs'[j].code].image = jobs[j].image
  <2>1. /\ TypeOK /\ Looked /\ jobs[j] \in Submission /\ jobs[j].code \in Code
        /\ jobs'[j].code = jobs[j].code
    BY <1>1, Parameters DEF Memory, TypeOK, Submission
  <2>2. PICK k \in Job : Step(k)
    BY <1>1 DEF Next, vars, DeleteImage, Expire, ReleaseCode
  <2>3. k = j
    BY <1>1, <2>1, <2>2, StepMade
  <2>4. InsertCode(j) \/ TouchCode(j) \/ RepointCode(j)
    BY <1>1, <2>2, <2>3 DEF Step, Submit, Resolve, FindHit, AnswerHit, Process,
       FindCode, Rebind, At
  <2>5. codes' = Bound(j) => codes'[jobs[j].code].image = jobs[j].image
    BY <2>1 DEF Bound, Mine, TypeOK
  <2>6. CASE InsertCode(j)
    <3>1. codes' = Bound(j) \/ Goto(j, "rebind") \/ Goto(j, "failed")
      BY <2>6 DEF InsertCode
    <3>2. ~Goto(j, "rebind") /\ ~Goto(j, "failed")
      BY <1>1, <2>1 DEF Goto, TypeOK, Submission
    <3>3. QED
      BY <2>1, <2>5, <3>1, <3>2
  <2>7. CASE RepointCode(j)
    <3>1. codes' = Bound(j) \/ Named(j) = None \/ Goto(j, "failed")
      BY <2>7 DEF RepointCode
    <3>2. ~Goto(j, "failed")
      BY <1>1, <2>1 DEF Goto, TypeOK, Submission
    <3>3. Named(j) # None
      BY <1>1, <2>1, <2>7 DEF RepointCode, Looked, At
    <3>4. QED
      BY <2>1, <2>5, <3>1, <3>2, <3>3
  <2>8. CASE TouchCode(j)
    BY <1>1, <2>1, <2>8 DEF TouchCode, Touched, Looked, At, Mine, Named, TypeOK
  <2>9. QED
    BY <2>4, <2>6, <2>7, <2>8
<1>2. Memory /\ [Next]_vars =>
        [\A j \in Job :
            /\ jobs[j].pc \in {"insert", "touch", "repoint"} /\ At(j, "done")'
            /\ Named(j) = jobs[j].found
            => Named(j)' = Mine(j)]_vars
  BY <1>1 DEF At, Named, Mine
<1>3. QED
  BY <1>2, MemoryHolds, PTL DEF Spec, DoneIsBound

-----------------------------------------------------------------------------

\* A submission is an Ask.
LEMMA SubmitAsks ==
    ASSUME TypeOK, NEW j \in Job, Submit(j)
    PROVE  B!Ask(jobs[j].code, jobs[j].image)
<1>1. /\ j \notin Submitted /\ Submitted' = Submitted \union {j}
      /\ \A k \in Job : /\ jobs'[k].code = jobs[k].code
                        /\ jobs'[k].image = jobs[k].image
                        /\ jobs'[k].policy = jobs[k].policy
  <2>1. /\ jobs'[j].pc # "new" /\ \A k \in Job \ {j} : jobs'[k] = jobs[k]
    BY StepMade DEF Step
  <2>2. \A k \in Job : /\ jobs'[k].code = jobs[k].code
                       /\ jobs'[k].image = jobs[k].image
                       /\ jobs'[k].policy = jobs[k].policy
    BY Parameters DEF Next, Step
  <2>3. QED
    BY <2>1, <2>2 DEF Submit, Submitted, At
<1>2. Asked' = Asked \union {<<jobs[j].code, jobs[j].image>>}
  BY <1>1 DEF Asked, Submitted
<1>3. Replacing' \in {Replacing, Replacing \union {<<jobs[j].code, jobs[j].image>>}}
  <2>1. CASE jobs[j].policy = "replace"
    BY <1>1, <2>1 DEF Replacing, Submitted
  <2>2. CASE jobs[j].policy # "replace"
    BY <1>1, <2>2 DEF Replacing, Submitted
  <2>3. QED
    BY <2>1, <2>2
<1>4. Names' = Names
  BY DEF Submit, Names
<1>5. QED
  BY <1>2, <1>3, <1>4 DEF B!Ask

\* No other step of a job submits anything.
LEMMA AskedSame ==
    ASSUME TypeOK, NEW j \in Job, Step(j), ~At(j, "new")
    PROVE  Asked' = Asked /\ Replacing' = Replacing
<1>1. /\ jobs'[j].pc # "new" /\ \A k \in Job \ {j} : jobs'[k] = jobs[k]
  BY StepMade
<1>2. \A k \in Job : /\ jobs'[k].code = jobs[k].code
                     /\ jobs'[k].image = jobs[k].image
                     /\ jobs'[k].policy = jobs[k].policy
  BY Parameters DEF Next
<1>3. Submitted' = Submitted
  BY <1>1 DEF Submitted, At
<1>4. QED
  BY <1>2, <1>3 DEF Asked, Replacing, Submitted

LEMMA StepImplements ==
    ASSUME Memory, NEW j \in Job, Step(j)
    PROVE  B!Next \/ UNCHANGED B!vars
<1>1. /\ TypeOK /\ Looked /\ jobs[j] \in Submission
      /\ jobs[j].code \in Code /\ jobs[j].image \in Image
  BY DEF Memory, TypeOK, Submission
<1>2. CASE At(j, "new")
  <2>1. Submit(j)
    BY <1>2 DEF Step, Submit, Resolve, FindHit, AnswerHit, Process, FindCode,
       InsertCode, Rebind, TouchCode, RepointCode, At
  <2>2. QED
    BY <1>1, <2>1, SubmitAsks DEF B!Next
<1>3. CASE ~At(j, "new")
  <2>1. Asked' = Asked /\ Replacing' = Replacing
    BY <1>1, <1>3, AskedSame
  <2>2. CASE codes' = Touched(j) \/ codes' = codes
    <3>1. ASSUME NEW c \in Code PROVE codes'[c].image = codes[c].image
      <4>1. CASE codes' = codes
        BY <4>1
      <4>2. CASE codes' = Touched(j)
        BY <1>1, <4>2 DEF Touched, TypeOK, Binding
      <4>3. QED
        BY <2>2, <4>1, <4>2
    <3>2. Names' = Names
      BY <3>1 DEF Names
    <3>3. QED
      BY <2>1, <3>2 DEF B!vars
  <2>3. CASE codes' = Bound(j) /\ codes' # codes
    <3>1. Names' = [Names EXCEPT ![jobs[j].code] = jobs[j].image]
      <4>1. \A c \in Code : codes'[c].image =
               IF c = jobs[j].code THEN jobs[j].image ELSE codes[c].image
        BY <1>1, <2>3 DEF Bound, Mine, TypeOK
      <4>2. QED
        BY <4>1 DEF Names
    <3>2. Names[jobs[j].code] = Named(j)
      BY <1>1 DEF Names, Named
    <3>3. j \in Submitted
      BY <1>3 DEF Submitted
    <3>4. \/ InsertCode(j) /\ Named(j) = None
          \/ RepointCode(j) /\ Named(j) # None
          \/ codes' = Touched(j)
      <4>1. CASE InsertCode(j)
        BY <2>3, <4>1 DEF InsertCode
      <4>2. CASE RepointCode(j)
        BY <2>3, <4>2 DEF RepointCode
      <4>3. CASE FindHit(j) \/ AnswerHit(j) \/ TouchCode(j)
        BY <2>3, <4>3 DEF FindHit, AnswerHit, TouchCode
      <4>4. QED
        BY <2>3, <4>1, <4>2, <4>3 DEF Step, Submit, Resolve, Process, FindCode,
           Rebind
    <3>5. CASE InsertCode(j) /\ Named(j) = None
      <4>1. <<jobs[j].code, jobs[j].image>> \in Asked
        BY <3>3 DEF Asked
      <4>2. B!Bind(jobs[j].code, jobs[j].image)
        BY <2>1, <3>1, <3>2, <3>5, <4>1 DEF B!Bind
      <4>3. QED
        BY <1>1, <4>2 DEF B!Next
    <3>6. CASE RepointCode(j) /\ Named(j) # None
      <4>1. <<jobs[j].code, jobs[j].image>> \in Replacing
        BY <1>1, <3>3, <3>6 DEF Replacing, RepointCode, Looked
      <4>2. B!Replace(jobs[j].code, jobs[j].image)
        BY <2>1, <3>1, <3>2, <3>6, <4>1 DEF B!Replace
      <4>3. QED
        BY <1>1, <4>2 DEF B!Next
    <3>7. QED
      BY <2>2, <3>4, <3>5, <3>6
  <2>4. QED
    BY <1>1, <2>2, <2>3, StepShape
<1>4. QED
  BY <1>2, <1>3

LEMMA ForgetImplements ==
    ASSUME jobs' = jobs, NEW gone \in SUBSET Code, codes' = Without(gone)
    PROVE  B!Next
<1>1. Asked' = Asked /\ Replacing' = Replacing
  BY DEF Asked, Replacing, Submitted, At
<1>2. Names' = [c \in Code |-> IF c \in gone THEN None ELSE Names[c]]
  BY DEF Names, Without, Unbound
<1>3. QED
  BY <1>1, <1>2 DEF B!Forget, B!Next

\* Codes implements Bindings: a code names an image that was submitted under
\* it, and is repointed only by a submission that asked for it.
THEOREM CodesImplementBindings == Spec => CodesKeepPromises
<1>1. Init => B!Init
  BY DEF Init, B!Init, Asked, Replacing, Names, Submitted, At, Unbound, Submission
<1>2. Memory /\ [Next]_vars => [B!Next]_B!vars
  <2> SUFFICES ASSUME Memory, [Next]_vars PROVE B!Next \/ UNCHANGED B!vars
    OBVIOUS
  <2>1. ASSUME NEW j \in Job, Step(j) PROVE B!Next \/ UNCHANGED B!vars
    BY <2>1, StepImplements
  <2>2. ASSUME NEW i \in Image, DeleteImage(i) PROVE B!Next
    BY <2>2, ForgetImplements DEF DeleteImage
  <2>3. ASSUME NEW c \in Code, ReleaseCode(c) PROVE B!Next
    BY <2>3, ForgetImplements DEF ReleaseCode
  <2>4. CASE UNCHANGED <<codes, jobs>>
    BY <2>4 DEF B!vars, Asked, Replacing, Names, Submitted, At
  <2>5. QED
    BY <2>1, <2>2, <2>3, <2>4 DEF Next, Expire, vars
<1>3. QED
  BY <1>1, <1>2, MemoryHolds, PTL DEF Spec, CodesKeepPromises, B!Spec
=============================================================================
