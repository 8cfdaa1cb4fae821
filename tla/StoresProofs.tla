---------------------------- MODULE StoresProofs ----------------------------
(***************************************************************************)
(* What is said of an image and of its bytes: no label outlives the record *)
(* of its image and no copy of its labels stays behind, the regions a row  *)
(* lists are burned in the bytes it names, and migrate-blobs takes no last *)
(* copy, for any number of images, writers, workers, objects and runs.     *)
(***************************************************************************)
EXTENDS MCStores, ImagesProofs, TLAPS

-----------------------------------------------------------------------------
(* The labels of an image and the copy on its artifact (Labels)            *)

Syncing == {"syncLabels", "syncCodes", "syncWrite"}

\* The copy says what the canonical tables say.
Exact(s) == lbl[s] = [tenants |-> claims[s], codes |-> CodesOf(s)]

\* The writer has a sync of the image before it.
OwesSync(w, s) ==
    \/ writer[w].sha = s /\ writer[w].pc \in Syncing \union {"releaseCodes"}
    \/ writer[w].prev = s /\ writer[w].pc \in Syncing /\ writer[w].next = "second"

\* What a writer at work relies on: the images it works on are recorded once it
\* is past the upsert, what a sync has read is still so, the code it repoints
\* still names what it read, and what it has dropped stays dropped.
Engaged(w) ==
    /\ In(w, "idle") <=> work[w] = {}
    /\ ~In(w, "idle") => S(w) \in work[w]
    /\ writer[w].pc \notin {"idle", "image"} => S(w) \in images
    /\ writer[w].pc \in {"image", "merge"} => writer[w].tenant \in Claimant
    /\ In(w, "repoint") =>
          /\ writer[w].code \in ExternalId
          /\ writer[w].prev \in work[w] \intersect images
          /\ writer[w].code \in CodesOf(writer[w].prev)
    /\ writer[w].pc \in Syncing /\ writer[w].next = "second" =>
          writer[w].prev \in work[w] \intersect images
    /\ writer[w].pc \in {"syncCodes", "syncWrite"} => writer[w].tenants = claims[S(w)]
    /\ In(w, "syncWrite") => writer[w].codes = CodesOf(S(w))
    /\ writer[w].pc \in {"dropLabels", "dropCodes", "dropImage"} => lbl[S(w)] = Nothing
    /\ writer[w].pc \in {"dropCodes", "dropImage"} => claims[S(w)] = {}
    /\ In(w, "dropImage") => CodesOf(S(w)) = {}

\* A copy that is out of date is due to be written, or a death cut its sync off.
Current(s) ==
    lbl[s] # Nothing /\ s \notin cut => Exact(s) \/ \E w \in Writer : OwesSync(w, s)

Pointed(s) ==
    s \notin images => lbl[s] = Nothing /\ claims[s] = {} /\ CodesOf(s) = {}

SeparateWork == \A v, w \in Writer : v # w => work[v] \intersect work[w] = {}

Filed ==
    /\ LabelsTypeOK
    /\ SeparateWork
    /\ \A w \in Writer : Engaged(w)
    /\ \A s \in Sha : Current(s) /\ Pointed(s)

WriterType ==
    [pc : {"idle", "image", "merge", "artifact", "bind", "repoint",
           "release", "releaseCodes", "claimed", "coded", "dropArtifact",
           "dropLabels", "dropCodes", "dropImage",
           "syncLabels", "syncCodes", "syncWrite"},
     sha : Sha \union {Nothing}, prev : Sha \union {Nothing},
     tenant : Claimant \union {Nothing}, code : ExternalId \union {Nothing},
     tenants : SUBSET Claimant, codes : SUBSET ExternalId,
     next : {"idle", "artifact", "bind", "second", "claimed"}]

LEMMA InitFiled == LabelsInit => Filed
<1> SUFFICES ASSUME LabelsInit PROVE Filed
  OBVIOUS
<1>1. Idle \in WriterType /\ Idle.pc = "idle"
  BY DEF Idle, WriterType
<1>2. LabelsTypeOK
  <2>1. writer \in [Writer -> WriterType]
    BY <1>1 DEF LabelsInit
  <2>2. QED
    BY <2>1, LabelsAssumption DEF LabelsInit, LabelsTypeOK, WriterType
<1>3. \A w \in Writer : writer[w].pc = "idle" /\ work[w] = {}
  BY <1>1 DEF LabelsInit
<1>4. \A w \in Writer : Engaged(w)
  BY <1>3 DEF Engaged, In, Syncing
<1>5. \A s \in Sha : lbl[s] = Nothing /\ claims[s] = {} /\ CodesOf(s) = {}
  BY LabelsAssumption DEF LabelsInit, CodesOf
<1>6. QED
  BY <1>2, <1>3, <1>4, <1>5 DEF Filed, SeparateWork, Current, Pointed

\* An image that a writer works on is due to nobody else, and a sync that is due
\* is of an image the writer works on.
LEMMA OwnDues ==
    ASSUME Filed, NEW w \in Writer
    PROVE  /\ \A s \in Sha : OwesSync(w, s) => s \in work[w]
           /\ \A s \in work[w], v \in Writer : v # w => ~OwesSync(v, s)
           /\ \A s \in work[w] : s \in Sha
<1>1. \A v \in Writer, s \in Sha : OwesSync(v, s) => s \in work[v]
  BY DEF Filed, Engaged, OwesSync, Syncing, In, S
<1>2. \A s \in work[w] : s \in Sha
  BY DEF Filed, LabelsTypeOK
<1>3. QED
  BY <1>1, <1>2 DEF Filed, SeparateWork

\* Whatever a writer does to the images it works on leaves the others as they
\* are, and the other writers too.
LEMMA FiledFrame ==
    ASSUME Filed, NEW w \in Writer, LabelsTypeOK',
           \A v \in Writer : v # w => writer'[v] = writer[v] /\ work'[v] = work[v],
           \A s \in Sha : s \notin work[w] =>
              /\ s \in images' <=> s \in images
              /\ s \in cut' <=> s \in cut
              /\ claims'[s] = claims[s] /\ lbl'[s] = lbl[s]
              /\ CodesOf(s)' = CodesOf(s),
           \A s \in work'[w], v \in Writer : v # w => s \notin work[v],
           Engaged(w)',
           \A s \in work[w] : Current(s)' /\ Pointed(s)'
    PROVE  Filed'
<1>1. SeparateWork'
  BY DEF Filed, SeparateWork
<1>2. ASSUME NEW v \in Writer, v # w PROVE Engaged(v)'
  <2>1. writer'[v] = writer[v] /\ work'[v] = work[v] /\ work[v] \intersect work[w] = {}
        /\ work[v] \subseteq Sha /\ Engaged(v)
    BY <1>2 DEF Filed, SeparateWork, LabelsTypeOK
  <2>2. \A s \in work[v] :
           /\ s \in images' <=> s \in images
           /\ claims'[s] = claims[s] /\ lbl'[s] = lbl[s] /\ CodesOf(s)' = CodesOf(s)
    BY <2>1
  <2>3. /\ ~In(v, "idle") => S(v) \in work[v]
        /\ In(v, "repoint") => writer[v].prev \in work[v]
        /\ writer[v].pc \in Syncing /\ writer[v].next = "second" => writer[v].prev \in work[v]
    BY <2>1 DEF Engaged
  <2>4. In(v, "repoint") => CodesOf(writer[v].prev)' = CodesOf(writer[v].prev)
    BY <2>1, <2>2, <2>3 DEF CodesOf
  <2>5. ~In(v, "idle") => /\ S(v) \in images' <=> S(v) \in images
                          /\ claims'[S(v)] = claims[S(v)] /\ lbl'[S(v)] = lbl[S(v)]
                          /\ {c \in ExternalId : codeDocs'[c] = S(v)} = CodesOf(S(v))
    BY <2>2, <2>3 DEF CodesOf
  <2>6. In(v, "repoint") => {c \in ExternalId : codeDocs'[c] = writer[v].prev}
                               = CodesOf(writer[v].prev)
    BY <2>2, <2>3 DEF CodesOf
  <2>7. In(v, "idle")' <=> In(v, "idle")
    BY <2>1 DEF In
  <2>8. writer[v].pc \notin {"idle"} <=> ~In(v, "idle")
    BY DEF In
  <2>9. writer[v].pc \notin {"idle", "image"} => S(v) \in images'
    BY <2>1, <2>5, <2>8 DEF Engaged
  <2>10. In(v, "repoint") =>
           /\ writer[v].code \in ExternalId
           /\ writer[v].prev \in work[v] \intersect images'
           /\ writer[v].code \in {c \in ExternalId : codeDocs'[c] = writer[v].prev}
    BY <2>1, <2>2, <2>3, <2>6 DEF Engaged
  <2>11. writer[v].pc \in Syncing /\ writer[v].next = "second" =>
           writer[v].prev \in work[v] \intersect images'
    BY <2>1, <2>2, <2>3 DEF Engaged
  <2>12. /\ writer[v].pc \in {"syncCodes", "syncWrite"} => writer[v].tenants = claims'[S(v)]
         /\ In(v, "syncWrite") =>
               writer[v].codes = {c \in ExternalId : codeDocs'[c] = S(v)}
         /\ writer[v].pc \in {"dropLabels", "dropCodes", "dropImage"} => lbl'[S(v)] = Nothing
         /\ writer[v].pc \in {"dropCodes", "dropImage"} => claims'[S(v)] = {}
         /\ In(v, "dropImage") => {c \in ExternalId : codeDocs'[c] = S(v)} = {}
    BY <2>1, <2>5, <2>8 DEF Engaged, In
  <2>13. QED
    BY <2>1, <2>3, <2>9, <2>10, <2>11, <2>12 DEF Engaged, In, S, CodesOf, Syncing
<1>3. ASSUME NEW s \in Sha, s \notin work[w] PROVE Current(s)' /\ Pointed(s)'
  <2>1. Current(s) /\ Pointed(s)
    BY DEF Filed
  <2>2. Exact(s)' <=> Exact(s)
    BY <1>3 DEF Exact
  <2>3. ASSUME NEW v \in Writer, OwesSync(v, s) PROVE OwesSync(v, s)'
    <3>1. v # w
      BY <1>3, <2>3, OwnDues
    <3>2. QED
      BY <2>3, <3>1 DEF OwesSync
  <2>4. Pointed(s)'
    BY <1>3, <2>1 DEF Pointed
  <2>5. Current(s)'
    BY <1>3, <2>1, <2>2, <2>3 DEF Current
  <2>6. QED
    BY <2>4, <2>5
<1>4. QED
  BY <1>1, <1>2, <1>3 DEF Filed

\* A step that only reads: what was due to the writer is due to it still.
LEMMA FiledRead ==
    ASSUME Filed, NEW w \in Writer, LabelsTypeOK',
           UNCHANGED <<images, claims, codeDocs, lbl, cut>>,
           \A v \in Writer : v # w => writer'[v] = writer[v] /\ work'[v] = work[v],
           \A s \in work'[w], v \in Writer : v # w => s \notin work[v],
           Engaged(w)',
           \A s \in work[w] : OwesSync(w, s) => OwesSync(w, s)'
    PROVE  Filed'
<1>1. ASSUME NEW s \in work[w] PROVE Current(s)' /\ Pointed(s)'
  <2>1. s \in Sha /\ Current(s) /\ Pointed(s)
    BY OwnDues DEF Filed
  <2>2. Pointed(s)'
    BY <2>1 DEF Pointed, CodesOf
  <2>3. \A v \in Writer : OwesSync(v, s) => v = w
    BY OwnDues
  <2>4. Current(s)'
    BY <2>1, <2>3 DEF Current, Exact, CodesOf
  <2>5. QED
    BY <2>2, <2>4
<1>2. \A s \in Sha : CodesOf(s)' = CodesOf(s)
  BY DEF CodesOf
<1>3. QED
  BY <1>1, <1>2, FiledFrame

\* A writer at work changes its own record alone.
LEMMA OneWriter ==
    ASSUME LabelsTypeOK, NEW w \in Writer, NEW r \in WriterType,
           writer' = [writer EXCEPT ![w] = r]
    PROVE  /\ writer' \in [Writer -> WriterType] /\ writer'[w] = r
           /\ \A v \in Writer : v # w => writer'[v] = writer[v]
BY DEF LabelsTypeOK, WriterType

\* It is done.
LEMMA DoneWriter ==
    ASSUME LabelsTypeOK, NEW w \in Writer, Done(w)
    PROVE  /\ writer' \in [Writer -> WriterType] /\ writer'[w] = Idle
           /\ work' \in [Writer -> SUBSET Sha] /\ work'[w] = {}
           /\ \A v \in Writer : v # w => writer'[v] = writer[v] /\ work'[v] = work[v]
           /\ Engaged(w)'
<1>1. Idle \in WriterType
  BY DEF Idle, WriterType
<1>2. /\ writer' \in [Writer -> WriterType] /\ writer'[w] = Idle
      /\ \A v \in Writer : v # w => writer'[v] = writer[v]
  BY <1>1 DEF LabelsTypeOK, WriterType, Done
<1>3. /\ work' \in [Writer -> SUBSET Sha] /\ work'[w] = {}
      /\ \A v \in Writer : v # w => work'[v] = work[v]
  BY DEF LabelsTypeOK, Done
<1>4. writer'[w].pc = "idle" /\ writer'[w].next = "idle"
  BY <1>2 DEF Idle
<1>5. Engaged(w)'
  BY <1>3, <1>4 DEF Engaged, In, Syncing
<1>6. QED
  BY <1>2, <1>3, <1>5

\* Work is taken on an image that nobody works on.
LEMMA BeginsFiled ==
    ASSUME ~Together, Filed, NEW w \in Writer, NEW s \in Sha,
           NEW r \in WriterType, r.sha = s, r.next = "idle",
           \/ r.pc \in {"image", "merge"} /\ r.tenant \in Claimant
           \/ r.pc \in {"release", "dropArtifact"},
           r.pc \in {"merge", "release", "dropArtifact"} => lbl[s] # Nothing,
           In(w, "idle"), Free(w, s),
           writer' = [writer EXCEPT ![w] = r], work' = [work EXCEPT ![w] = {s}],
           UNCHANGED <<images, claims, codeDocs, lbl, cut, deaths>>
    PROVE  Filed'
<1>1. /\ writer' \in [Writer -> WriterType] /\ writer'[w] = r
      /\ \A v \in Writer : v # w => writer'[v] = writer[v]
  BY OneWriter DEF Filed
<1>2. /\ work' \in [Writer -> SUBSET Sha] /\ work'[w] = {s}
      /\ \A v \in Writer : v # w => work'[v] = work[v]
  BY DEF Filed, LabelsTypeOK
<1>3. LabelsTypeOK'
  BY <1>1, <1>2 DEF Filed, LabelsTypeOK, WriterType
<1>4. work[w] = {}
  BY DEF Filed, Engaged
<1>5. lbl[s] # Nothing => s \in images
  BY DEF Filed, Pointed
<1>6. Engaged(w)'
  BY <1>1, <1>2, <1>5 DEF Engaged, In, S, Syncing
<1>7. QED
  BY <1>1, <1>2, <1>3, <1>4, <1>6, FiledRead DEF Free

LEMMA BeginSubmitFiled ==
    ASSUME ~Together, Filed, NEW w \in Writer, NEW s \in Sha, NEW t \in Claimant,
           NEW c \in ExternalId \union {Nothing}, BeginSubmit(w, s, t, c)
    PROVE  Filed'
<1> DEFINE r == [Idle EXCEPT !.sha = s, !.tenant = t, !.code = c,
                    !.pc = IF lbl[s] = Nothing THEN "image" ELSE "merge"]
<1>1. /\ r \in WriterType /\ r.sha = s /\ r.next = "idle" /\ r.tenant \in Claimant
      /\ r.pc \in {"image", "merge"}
      /\ r.pc = "merge" => lbl[s] # Nothing
  BY DEF Idle, WriterType
<1>2. /\ writer' = [writer EXCEPT ![w] = r] /\ work' = [work EXCEPT ![w] = {s}]
      /\ In(w, "idle") /\ Free(w, s)
      /\ UNCHANGED <<images, claims, codeDocs, lbl, cut, deaths>>
  BY DEF BeginSubmit, Untouched
<1> HIDE DEF r
<1>3. QED
  BY <1>1, <1>2, BeginsFiled

LEMMA BeginDeleteFiled ==
    ASSUME ~Together, Filed, NEW w \in Writer, NEW s \in Sha,
           NEW t \in Claimant \union {Nothing}, BeginDelete(w, s, t)
    PROVE  Filed'
<1> DEFINE r == [Idle EXCEPT !.sha = s, !.tenant = t,
                    !.pc = IF t = Nothing THEN "dropArtifact" ELSE "release"]
<1>1. /\ r \in WriterType /\ r.sha = s /\ r.next = "idle"
      /\ r.pc \in {"release", "dropArtifact"} /\ lbl[s] # Nothing
  BY DEF Idle, WriterType, BeginDelete
<1>2. /\ writer' = [writer EXCEPT ![w] = r] /\ work' = [work EXCEPT ![w] = {s}]
      /\ In(w, "idle") /\ Free(w, s)
      /\ UNCHANGED <<images, claims, codeDocs, lbl, cut, deaths>>
  BY DEF BeginDelete, Untouched
<1> HIDE DEF r
<1>3. QED
  BY <1>1, <1>2, BeginsFiled

\* A step that changes the writer's own record and nothing else.
LEMMA OwnRecordFiled ==
    ASSUME Filed, NEW w \in Writer, NEW r \in WriterType, ~In(w, "idle"),
           writer' = [writer EXCEPT ![w] = r],
           UNCHANGED <<images, claims, codeDocs, lbl, work, cut, deaths>>,
           Engaged(w)',
           \A s \in work[w] : OwesSync(w, s) => OwesSync(w, s)'
    PROVE  Filed'
<1>1. /\ writer' \in [Writer -> WriterType]
      /\ \A v \in Writer : v # w => writer'[v] = writer[v]
  BY OneWriter DEF Filed
<1>2. LabelsTypeOK'
  BY <1>1 DEF Filed, LabelsTypeOK, WriterType
<1>3. \A s \in work'[w], v \in Writer : v # w => s \notin work[v]
  BY DEF Filed, SeparateWork
<1>4. QED
  BY <1>1, <1>2, <1>3, FiledRead

\* It ends with no sync left to do.
LEMMA EndFiled ==
    ASSUME Filed, NEW w \in Writer, Done(w),
           UNCHANGED <<images, claims, codeDocs, lbl, cut, deaths>>,
           \A s \in work[w] : ~OwesSync(w, s)
    PROVE  Filed'
<1>1. /\ writer' \in [Writer -> WriterType]
      /\ work' \in [Writer -> SUBSET Sha] /\ work'[w] = {}
      /\ \A v \in Writer : v # w => writer'[v] = writer[v] /\ work'[v] = work[v]
      /\ Engaged(w)'
  BY DoneWriter DEF Filed
<1>2. LabelsTypeOK'
  BY <1>1 DEF Filed, LabelsTypeOK, WriterType
<1>3. QED
  BY <1>1, <1>2, FiledRead

LEMMA ReadsFiled ==
    ASSUME Filed, NEW w \in Writer,
           \/ NothingToMerge(w) \/ NothingToBind(w)
           \/ SyncLabels(w) \/ SyncCodes(w) \/ AnyLabels(w) \/ AnyCodes(w)
    PROVE  Filed'
<1>1. /\ LabelsTypeOK /\ Engaged(w) /\ writer[w] \in WriterType
      /\ claims[S(w)] \subseteq Claimant \/ S(w) = Nothing
      /\ S(w) \in Sha \union {Nothing}
  BY DEF Filed, LabelsTypeOK, WriterType, S
<1>2. CASE NothingToBind(w)
  <2>1. \A s \in work[w] : ~OwesSync(w, s)
    BY <1>2 DEF NothingToBind, In, OwesSync, Syncing
  <2>2. QED
    BY <1>2, <2>1, EndFiled DEF NothingToBind, Untouched
<1>3. CASE SyncLabels(w)
  <2> DEFINE r == [writer[w] EXCEPT !.pc = "syncCodes", !.tenants = claims[S(w)]]
  <2>1. S(w) \in Sha /\ writer[w].pc = "syncLabels" /\ S(w) \in images /\ S(w) \in work[w]
    BY <1>1, <1>3 DEF SyncLabels, Engaged, In, LabelsTypeOK
  <2>2. r \in WriterType
    BY <1>1, <2>1, LabelsAssumption DEF WriterType, LabelsTypeOK
  <2>3. writer' = [writer EXCEPT ![w] = r]
        /\ UNCHANGED <<images, claims, codeDocs, lbl, work, cut, deaths>>
    BY <1>3 DEF SyncLabels, Untouched
  <2>4. /\ writer'[w].pc = "syncCodes" /\ writer'[w].tenants = claims[S(w)]
        /\ writer'[w].sha = writer[w].sha /\ writer'[w].prev = writer[w].prev
        /\ writer'[w].next = writer[w].next
    BY <2>3, <1>1 DEF LabelsTypeOK, WriterType
  <2>5. Engaged(w)'
    BY <1>1, <2>1, <2>3, <2>4 DEF Engaged, In, S, Syncing
  <2>6. \A s \in work[w] : OwesSync(w, s) => OwesSync(w, s)'
    BY <2>1, <2>4 DEF OwesSync, Syncing
  <2> HIDE DEF r
  <2>7. QED
    BY <2>1, <2>2, <2>3, <2>5, <2>6, OwnRecordFiled DEF In
<1>4. CASE SyncCodes(w)
  <2> DEFINE r == [writer[w] EXCEPT !.pc = "syncWrite", !.codes = CodesOf(S(w))]
  <2>1. S(w) \in Sha /\ writer[w].pc = "syncCodes" /\ S(w) \in images /\ S(w) \in work[w]
    BY <1>1, <1>4 DEF SyncCodes, Engaged, In, LabelsTypeOK
  <2>2. r \in WriterType
    BY <1>1, <2>1 DEF WriterType, CodesOf
  <2>3. writer' = [writer EXCEPT ![w] = r]
        /\ UNCHANGED <<images, claims, codeDocs, lbl, work, cut, deaths>>
    BY <1>4 DEF SyncCodes, Untouched
  <2>4. /\ writer'[w].pc = "syncWrite" /\ writer'[w].codes = CodesOf(S(w))
        /\ writer'[w].tenants = writer[w].tenants
        /\ writer'[w].sha = writer[w].sha /\ writer'[w].prev = writer[w].prev
        /\ writer'[w].next = writer[w].next
    BY <2>3, <1>1 DEF LabelsTypeOK, WriterType
  <2>5. Engaged(w)'
    BY <1>1, <2>1, <2>3, <2>4 DEF Engaged, In, S, Syncing, CodesOf
  <2>6. \A s \in work[w] : OwesSync(w, s) => OwesSync(w, s)'
    BY <2>1, <2>4 DEF OwesSync, Syncing
  <2> HIDE DEF r
  <2>7. QED
    BY <2>1, <2>2, <2>3, <2>5, <2>6, OwnRecordFiled DEF In
<1>5. ASSUME AnyLabels(w) \/ AnyCodes(w) PROVE Filed'
  <2>1. /\ writer[w].pc \in {"claimed", "coded"} /\ S(w) \in images /\ S(w) \in work[w]
        /\ ~In(w, "idle")
    BY <1>1, <1>5 DEF AnyLabels, AnyCodes, Engaged, In
  <2>2. \A s \in work[w] : ~OwesSync(w, s)
    BY <2>1 DEF OwesSync, Syncing
  <2>3. UNCHANGED <<images, claims, codeDocs, lbl, cut, deaths>>
    BY <1>5 DEF AnyLabels, AnyCodes, Untouched
  <2>4. CASE Done(w)
    BY <2>2, <2>3, <2>4, EndFiled
  <2>5. ASSUME NEW p \in {"coded", "dropArtifact"}, Go(w, p), UNCHANGED work PROVE Filed'
    <3> DEFINE r == [writer[w] EXCEPT !.pc = p]
    <3>1. r \in WriterType /\ writer' = [writer EXCEPT ![w] = r]
      BY <1>1, <2>5 DEF WriterType, Go
    <3>2. writer'[w].pc = p /\ writer'[w].sha = writer[w].sha
      BY <1>1, <2>5 DEF LabelsTypeOK, WriterType, Go
    <3>3. Engaged(w)'
      BY <1>1, <2>1, <2>3, <2>5, <3>2 DEF Engaged, In, S, Syncing
    <3> HIDE DEF r
    <3>4. QED
      BY <2>1, <2>2, <2>3, <2>5, <3>1, <3>3, OwnRecordFiled
  <2>6. QED
    BY <1>5, <2>4, <2>5 DEF AnyLabels, AnyCodes
<1>6. CASE NothingToMerge(w)
  <2> DEFINE r == [writer[w] EXCEPT !.pc = "artifact"]
  <2>1. /\ writer[w].pc = "merge" /\ S(w) \in images /\ S(w) \in work[w] /\ ~In(w, "idle")
    BY <1>1, <1>6 DEF NothingToMerge, Engaged, In
  <2>2. \A s \in work[w] : ~OwesSync(w, s)
    BY <2>1 DEF OwesSync, Syncing
  <2>3. /\ r \in WriterType /\ writer' = [writer EXCEPT ![w] = r]
        /\ UNCHANGED <<images, claims, codeDocs, lbl, work, cut, deaths>>
    BY <1>1, <1>6 DEF WriterType, NothingToMerge, Go, Untouched
  <2>4. writer'[w].pc = "artifact" /\ writer'[w].sha = writer[w].sha
    BY <1>1, <2>3 DEF LabelsTypeOK, WriterType
  <2>5. Engaged(w)'
    BY <1>1, <2>1, <2>3, <2>4 DEF Engaged, In, S, Syncing
  <2> HIDE DEF r
  <2>6. QED
    BY <2>1, <2>2, <2>3, <2>5, OwnRecordFiled
<1>7. QED
  BY <1>2, <1>3, <1>4, <1>5, <1>6

\* A step that changes what its image has: the image keeps the record of
\* whatever names it, and its copy is exact or the writer is about to sync it.
LEMMA OwnImageFiled ==
    ASSUME Filed, NEW w \in Writer, NEW r \in WriterType, ~In(w, "idle"),
           writer' = [writer EXCEPT ![w] = r], r.sha = S(w),
           images' \subseteq Sha, claims' \in [Sha -> SUBSET Claimant],
           lbl' \in [Sha -> Copy \union {Nothing}],
           UNCHANGED <<codeDocs, work, cut, deaths>>,
           \A s \in Sha : s # S(w) =>
              /\ s \in images' <=> s \in images
              /\ claims'[s] = claims[s] /\ lbl'[s] = lbl[s],
           \A s \in work[w] : OwesSync(w, s) => OwesSync(w, s)',
           Engaged(w)',
           S(w) \in Sha => Current(S(w))' /\ Pointed(S(w))'
    PROVE  Filed'
<1>1. /\ writer' \in [Writer -> WriterType]
      /\ \A v \in Writer : v # w => writer'[v] = writer[v]
  BY OneWriter DEF Filed
<1>2. LabelsTypeOK'
  BY <1>1 DEF Filed, LabelsTypeOK, WriterType
<1>3. \A s \in work'[w], v \in Writer : v # w => s \notin work[v]
  BY DEF Filed, SeparateWork
<1>4. S(w) \in work[w]
  BY DEF Filed, Engaged
<1>5. \A s \in Sha : CodesOf(s)' = CodesOf(s)
  BY DEF CodesOf
<1>6. ASSUME NEW s \in work[w] PROVE Current(s)' /\ Pointed(s)'
  <2>1. s \in Sha /\ Current(s) /\ Pointed(s)
    BY OwnDues DEF Filed
  <2>2. CASE s = S(w)
    <3>1. Current(S(w))' /\ Pointed(S(w))'
      BY <2>1, <2>2
    <3>2. S(w)' = S(w)
      BY OneWriter DEF S, Filed
    <3>3. QED
      BY <2>2, <3>1, <3>2 DEF Current, Pointed, Exact, CodesOf
  <2>3. CASE s # S(w)
    <3>1. \A v \in Writer : OwesSync(v, s) => v = w
      BY OwnDues
    <3>2. Current(s)'
      BY <2>1, <2>3, <3>1, <1>5 DEF Current, Exact
    <3>3. QED
      BY <2>1, <2>3, <3>2, <1>5 DEF Pointed
  <2>4. QED
    BY <2>2, <2>3
<1>7. QED
  BY <1>1, <1>2, <1>3, <1>4, <1>5, <1>6, FiledFrame

LEMMA UpsertFiled ==
    ASSUME Filed, NEW w \in Writer, UpsertImage(w)
    PROVE  Filed'
<1> DEFINE r == [writer[w] EXCEPT !.pc = "merge"]
<1>1. /\ LabelsTypeOK /\ Engaged(w) /\ writer[w] \in WriterType /\ writer[w].pc = "image"
      /\ ~In(w, "idle")
  BY DEF Filed, LabelsTypeOK, WriterType, UpsertImage, In
<1>2. S(w) \in work[w] /\ S(w) \in Sha /\ Current(S(w)) /\ Pointed(S(w))
  BY <1>1, OwnDues DEF Engaged, Filed
<1>3. /\ r \in WriterType /\ r.sha = S(w) /\ writer' = [writer EXCEPT ![w] = r]
      /\ images' = images \union {S(w)}
      /\ UNCHANGED <<claims, codeDocs, lbl, work, cut, deaths>>
  BY <1>1 DEF WriterType, UpsertImage, Go, Untouched, S
<1>4. /\ writer'[w].pc = "merge" /\ writer'[w].sha = writer[w].sha
      /\ writer'[w].tenant = writer[w].tenant
  BY <1>1, <1>3 DEF LabelsTypeOK, WriterType
<1>5. Engaged(w)'
  BY <1>1, <1>3, <1>4 DEF Engaged, In, S, Syncing
<1>6. \A s \in work[w] : ~OwesSync(w, s)
  BY <1>1 DEF OwesSync, Syncing
<1>7. Current(S(w))'
  <2>1. \A v \in Writer : ~OwesSync(v, S(w))
    BY <1>2, <1>6, OwnDues
  <2>2. Exact(S(w))' <=> Exact(S(w))
    BY <1>3, <1>4 DEF Exact, S, CodesOf
  <2>3. (lbl[S(w)] = Nothing)' <=> lbl[S(w)] = Nothing
    BY <1>3, <1>4 DEF S
  <2>4. S(w)' = S(w)
    BY <1>4 DEF S
  <2>5. QED
    BY <1>2, <1>3, <2>1, <2>2, <2>3, <2>4 DEF Current
<1>8. Pointed(S(w))'
  BY <1>3, <1>4 DEF Pointed, S
<1> HIDE DEF r
<1>9. images' \subseteq Sha /\ claims' \in [Sha -> SUBSET Claimant]
      /\ lbl' \in [Sha -> Copy \union {Nothing}]
  BY <1>1, <1>2, <1>3 DEF LabelsTypeOK
<1>10. \A s \in Sha : s # S(w) =>
              /\ s \in images' <=> s \in images
              /\ claims'[s] = claims[s] /\ lbl'[s] = lbl[s]
  BY <1>3
<1>11. UNCHANGED <<codeDocs, work, cut, deaths>>
  BY <1>3
<1>12. QED
  BY <1>1, <1>3, <1>5, <1>6, <1>7, <1>8, <1>9, <1>10, <1>11, OwnImageFiled

\* A claim is added or taken, and a sync of the image comes next.
LEMMA ClaimFiled ==
    ASSUME Filed, NEW w \in Writer, Merge(w) \/ ReleaseLabels(w)
    PROVE  Filed'
<1> DEFINE r == IF In(w, "merge")
                THEN [writer[w] EXCEPT !.pc = "syncLabels", !.next = "artifact"]
                ELSE [writer[w] EXCEPT !.pc = "releaseCodes"]
<1>1. /\ LabelsTypeOK /\ Engaged(w) /\ writer[w] \in WriterType
      /\ writer[w].pc \in {"merge", "release"} /\ ~In(w, "idle")
  BY DEF Filed, LabelsTypeOK, WriterType, Merge, ReleaseLabels, In
<1>2. S(w) \in work[w] /\ S(w) \in Sha /\ S(w) \in images
  BY <1>1, OwnDues DEF Engaged
<1>3. /\ r \in WriterType /\ r.sha = S(w) /\ writer' = [writer EXCEPT ![w] = r]
      /\ UNCHANGED <<images, codeDocs, lbl, work, cut, deaths>>
  BY <1>1 DEF WriterType, Merge, ReleaseLabels, Sync, Go, Untouched, In, S
<1>4. /\ claims' \in [Sha -> SUBSET Claimant]
      /\ \A s \in Sha : s # S(w) => claims'[s] = claims[s]
  BY <1>1, <1>2 DEF Merge, ReleaseLabels, LabelsTypeOK, Engaged, In
<1>5. /\ writer'[w].pc \in {"syncLabels", "releaseCodes"}
      /\ writer'[w].pc = "syncLabels" => writer'[w].next = "artifact"
      /\ writer'[w].sha = writer[w].sha
  BY <1>1, <1>3 DEF LabelsTypeOK, WriterType
<1>6. Engaged(w)'
  BY <1>1, <1>2, <1>3, <1>5 DEF Engaged, In, S, Syncing
<1>7. \A s \in work[w] : ~OwesSync(w, s)
  BY <1>1 DEF OwesSync, Syncing
<1>8. Current(S(w))'
  <2>1. OwesSync(w, S(w))'
    BY <1>5 DEF OwesSync, S, Syncing
  <2>2. QED
    BY <2>1 DEF Current
<1>9. Pointed(S(w))'
  BY <1>2, <1>3, <1>5 DEF Pointed, S
<1> HIDE DEF r
<1>10. images' \subseteq Sha /\ lbl' \in [Sha -> Copy \union {Nothing}]
       /\ \A s \in Sha : s # S(w) =>
              /\ s \in images' <=> s \in images
              /\ claims'[s] = claims[s] /\ lbl'[s] = lbl[s]
  BY <1>1, <1>3, <1>4 DEF LabelsTypeOK
<1>11. UNCHANGED <<codeDocs, work, cut, deaths>>
  BY <1>3
<1>12. QED
  BY <1>1, <1>3, <1>4, <1>6, <1>7, <1>8, <1>9, <1>10, <1>11, OwnImageFiled

\* The artifact comes with an empty copy, and a sync of the image comes next.
LEMMA InsertFiled ==
    ASSUME Filed, NEW w \in Writer, InsertArtifact(w)
    PROVE  Filed'
<1>1. /\ LabelsTypeOK /\ Engaged(w) /\ writer[w] \in WriterType
      /\ writer[w].pc = "artifact" /\ ~In(w, "idle")
  BY DEF Filed, LabelsTypeOK, WriterType, InsertArtifact, In
<1>2. S(w) \in work[w] /\ S(w) \in Sha /\ S(w) \in images
  BY <1>1, OwnDues DEF Engaged
<1>3. UNCHANGED <<images, claims, codeDocs, work, cut, deaths>>
  BY DEF InsertArtifact, Untouched
<1>4. \A s \in work[w] : ~OwesSync(w, s)
  BY <1>1 DEF OwesSync, Syncing
<1>5. CASE lbl[S(w)] = Nothing
  <2> DEFINE r == [writer[w] EXCEPT !.pc = "syncLabels", !.next = "bind"]
  <2>1. r \in WriterType /\ r.sha = S(w) /\ writer' = [writer EXCEPT ![w] = r]
    BY <1>1, <1>5 DEF WriterType, InsertArtifact, Sync, S
  <2>2. /\ lbl' \in [Sha -> Copy \union {Nothing}]
        /\ \A s \in Sha : s # S(w) => lbl'[s] = lbl[s]
    <3>1. [tenants |-> {}, codes |-> {}] \in Copy
      BY DEF Copy
    <3>2. lbl' = [lbl EXCEPT ![S(w)] = [tenants |-> {}, codes |-> {}]]
      BY <1>5 DEF InsertArtifact
    <3>3. lbl \in [Sha -> Copy \union {Nothing}]
      BY <1>1 DEF LabelsTypeOK
    <3> HIDE DEF r
    <3>4. QED
      BY <1>2, <3>1, <3>2, <3>3
  <2>3. /\ writer'[w].pc = "syncLabels" /\ writer'[w].next = "bind"
        /\ writer'[w].sha = writer[w].sha
    BY <1>1, <2>1 DEF LabelsTypeOK, WriterType
  <2>4. Engaged(w)'
    BY <1>1, <1>2, <1>3, <2>3 DEF Engaged, In, S, Syncing
  <2>5. Current(S(w))'
    BY <2>3 DEF Current, OwesSync, S, Syncing
  <2>6. Pointed(S(w))'
    BY <1>2, <1>3, <2>3 DEF Pointed, S
  <2> HIDE DEF r
  <2>7. images' \subseteq Sha /\ claims' \in [Sha -> SUBSET Claimant]
        /\ \A s \in Sha : s # S(w) =>
              /\ s \in images' <=> s \in images
              /\ claims'[s] = claims[s] /\ lbl'[s] = lbl[s]
    BY <1>1, <1>3, <2>2 DEF LabelsTypeOK
  <2>8. QED
    BY <1>1, <1>3, <1>4, <2>1, <2>2, <2>4, <2>5, <2>6, <2>7, OwnImageFiled
<1>6. CASE lbl[S(w)] # Nothing
  <2> DEFINE r == [writer[w] EXCEPT !.pc = "bind"]
  <2>1. r \in WriterType /\ writer' = [writer EXCEPT ![w] = r] /\ UNCHANGED lbl
    BY <1>1, <1>6 DEF WriterType, InsertArtifact, Go
  <2>2. writer'[w].pc = "bind" /\ writer'[w].sha = writer[w].sha
    BY <1>1, <2>1 DEF LabelsTypeOK, WriterType
  <2>3. Engaged(w)'
    BY <1>1, <1>2, <1>3, <2>2 DEF Engaged, In, S, Syncing
  <2> HIDE DEF r
  <2>4. QED
    BY <1>1, <1>3, <1>4, <2>1, <2>3, OwnRecordFiled
<1>7. QED
  BY <1>5, <1>6

\* The cascade: the copy, the claims, and in the end the image's own record.
LEMMA DropsFiled ==
    ASSUME Filed, NEW w \in Writer, DropArtifact(w) \/ DropLabels(w)
    PROVE  Filed'
<1> DEFINE p == IF In(w, "dropArtifact") THEN "dropLabels" ELSE "dropCodes"
           r == [writer[w] EXCEPT !.pc = p]
<1>1. /\ LabelsTypeOK /\ Engaged(w) /\ writer[w] \in WriterType
      /\ writer[w].pc \in {"dropArtifact", "dropLabels"} /\ ~In(w, "idle")
  BY DEF Filed, LabelsTypeOK, WriterType, DropArtifact, DropLabels, In
<1>2. S(w) \in work[w] /\ S(w) \in Sha /\ S(w) \in images
  BY <1>1, OwnDues DEF Engaged
<1>3. /\ r \in WriterType /\ r.sha = S(w) /\ writer' = [writer EXCEPT ![w] = r]
      /\ UNCHANGED <<images, codeDocs, work, cut, deaths>>
  BY <1>1 DEF WriterType, DropArtifact, DropLabels, Go, Untouched, In, S
<1>4. /\ claims' \in [Sha -> SUBSET Claimant] /\ lbl' \in [Sha -> Copy \union {Nothing}]
      /\ \A s \in Sha : s # S(w) => claims'[s] = claims[s] /\ lbl'[s] = lbl[s]
  BY <1>1, <1>2 DEF DropArtifact, DropLabels, LabelsTypeOK
<1>5. /\ lbl'[S(w)] = Nothing
      /\ writer'[w].pc \in {"dropLabels", "dropCodes"}
      /\ writer'[w].pc = "dropCodes" => claims'[S(w)] = {}
      /\ writer'[w].sha = writer[w].sha
  BY <1>1, <1>2, <1>3 DEF LabelsTypeOK, WriterType, DropArtifact, DropLabels, In, Engaged
<1>6. Engaged(w)'
  BY <1>1, <1>2, <1>3, <1>5 DEF Engaged, In, S, Syncing
<1>7. \A s \in work[w] : ~OwesSync(w, s)
  BY <1>1 DEF OwesSync, Syncing
<1>8. Current(S(w))'
  BY <1>5 DEF Current, S
<1>9. Pointed(S(w))'
  BY <1>2, <1>3, <1>5 DEF Pointed, S
<1> HIDE DEF r
<1>10. images' \subseteq Sha
       /\ \A s \in Sha : s # S(w) =>
              /\ s \in images' <=> s \in images
              /\ claims'[s] = claims[s] /\ lbl'[s] = lbl[s]
  BY <1>1, <1>3, <1>4 DEF LabelsTypeOK
<1>11. UNCHANGED <<codeDocs, work, cut, deaths>>
  BY <1>3
<1>12. QED
  BY <1>1, <1>3, <1>4, <1>6, <1>7, <1>8, <1>9, <1>10, <1>11, OwnImageFiled

LEMMA DropImageFiled ==
    ASSUME Filed, NEW w \in Writer, DropImage(w)
    PROVE  Filed'
<1>1. /\ LabelsTypeOK /\ Engaged(w) /\ writer[w].pc = "dropImage" /\ ~In(w, "idle")
  BY DEF Filed, DropImage, In
<1>2. S(w) \in work[w] /\ S(w) \in Sha /\ lbl[S(w)] = Nothing /\ claims[S(w)] = {}
      /\ CodesOf(S(w)) = {}
  BY <1>1, OwnDues DEF Engaged, In
<1>3. /\ writer' \in [Writer -> WriterType]
      /\ work' \in [Writer -> SUBSET Sha] /\ work'[w] = {}
      /\ \A v \in Writer : v # w => writer'[v] = writer[v] /\ work'[v] = work[v]
      /\ Engaged(w)'
  BY <1>1, DoneWriter DEF DropImage
<1>4. images' = images \ {S(w)} /\ UNCHANGED <<claims, codeDocs, lbl, cut, deaths>>
  BY DEF DropImage, Untouched
<1>5. LabelsTypeOK'
  BY <1>1, <1>3, <1>4 DEF LabelsTypeOK, WriterType
<1>6. \A s \in Sha : CodesOf(s)' = CodesOf(s)
  BY <1>4 DEF CodesOf
<1>7. \A s \in work[w] : ~OwesSync(w, s)
  BY <1>1 DEF OwesSync, Syncing
<1>8. ASSUME NEW s \in work[w] PROVE Current(s)' /\ Pointed(s)'
  <2>1. s \in Sha /\ Current(s) /\ Pointed(s)
    BY OwnDues DEF Filed
  <2>2. \A v \in Writer : ~OwesSync(v, s)
    BY <1>7, OwnDues
  <2>3. Current(s)'
    BY <1>4, <1>6, <2>1, <2>2 DEF Current, Exact
  <2>4. Pointed(s)'
    BY <1>2, <1>4, <1>6, <2>1 DEF Pointed
  <2>5. QED
    BY <2>3, <2>4
<1>9. QED
  BY <1>2, <1>3, <1>4, <1>5, <1>6, <1>8, FiledFrame

\* Codes come to an image and go from one: both are the writer's, and it is
\* about to sync them, or the image has no artifact.
LEMMA CodesFiled ==
    ASSUME Filed, NEW w \in Writer, NEW r \in WriterType, ~In(w, "idle"),
           writer' = [writer EXCEPT ![w] = r],
           codeDocs' \in [ExternalId -> Sha \union {Nothing}],
           UNCHANGED <<images, claims, lbl, work, cut, deaths>>,
           \A s \in Sha : s \notin work[w] => CodesOf(s)' = CodesOf(s),
           \A s \in work[w] : s \notin images => CodesOf(s)' = {},
           \A s \in work[w] : lbl[s] # Nothing => CodesOf(s)' = CodesOf(s) \/ OwesSync(w, s)',
           \A s \in work[w] : OwesSync(w, s) => OwesSync(w, s)',
           Engaged(w)'
    PROVE  Filed'
<1>1. /\ writer' \in [Writer -> WriterType]
      /\ \A v \in Writer : v # w => writer'[v] = writer[v]
  BY OneWriter DEF Filed
<1>2. LabelsTypeOK'
  BY <1>1 DEF Filed, LabelsTypeOK, WriterType
<1>3. \A s \in work'[w], v \in Writer : v # w => s \notin work[v]
  BY DEF Filed, SeparateWork
<1>4. ASSUME NEW s \in work[w] PROVE Current(s)' /\ Pointed(s)'
  <2>1. s \in Sha /\ Current(s) /\ Pointed(s)
    BY OwnDues DEF Filed
  <2>2. Pointed(s)'
    BY <2>1 DEF Pointed
  <2>3. \A v \in Writer : OwesSync(v, s) => v = w
    BY OwnDues
  <2>4. CodesOf(s)' = CodesOf(s) => (Exact(s)' <=> Exact(s))
    BY DEF Exact
  <2>5. Current(s)'
    BY <2>1, <2>3, <2>4 DEF Current
  <2>6. QED
    BY <2>2, <2>5
<1>5. QED
  BY <1>1, <1>2, <1>3, <1>4, FiledFrame

\* Writing one code moves it and no other.
LEMMA OneCode ==
    ASSUME LabelsTypeOK, NEW c \in ExternalId, NEW x \in Sha \union {Nothing},
           codeDocs' = [codeDocs EXCEPT ![c] = x]
    PROVE  /\ codeDocs' \in [ExternalId -> Sha \union {Nothing}]
           /\ \A s \in Sha : s # x /\ s # codeDocs[c] => CodesOf(s)' = CodesOf(s)
<1>1. /\ codeDocs' \in [ExternalId -> Sha \union {Nothing}] /\ codeDocs'[c] = x
      /\ \A d \in ExternalId : d # c => codeDocs'[d] = codeDocs[d]
  BY DEF LabelsTypeOK
<1>2. QED
  BY <1>1 DEF CodesOf

LEMMA AddCodeFiled ==
    ASSUME Filed, NEW w \in Writer, AddCode(w)
    PROVE  Filed'
<1> DEFINE r == [writer[w] EXCEPT !.pc = "syncLabels", !.next = "idle"]
<1>1. /\ LabelsTypeOK /\ Engaged(w) /\ writer[w] \in WriterType
      /\ writer[w].pc = "bind" /\ ~In(w, "idle")
  BY DEF Filed, LabelsTypeOK, WriterType, AddCode, In
<1>2. S(w) \in work[w] /\ S(w) \in Sha /\ S(w) \in images
  BY <1>1, OwnDues DEF Engaged
<1>3. /\ r \in WriterType /\ writer' = [writer EXCEPT ![w] = r]
      /\ UNCHANGED <<images, claims, lbl, work, cut, deaths>>
  BY <1>1 DEF WriterType, AddCode, Sync, Untouched
<1>4. /\ writer'[w].pc = "syncLabels" /\ writer'[w].next = "idle"
      /\ writer'[w].sha = writer[w].sha
  BY <1>1, <1>3 DEF LabelsTypeOK, WriterType
<1>5. PICK c \in ExternalId : c = writer[w].code
  BY <1>1 DEF WriterType, AddCode
<1>6. codeDocs[c] = Nothing /\ codeDocs' = [codeDocs EXCEPT ![c] = S(w)]
  BY <1>5 DEF AddCode
<1>7. /\ codeDocs' \in [ExternalId -> Sha \union {Nothing}]
      /\ \A s \in Sha : s # S(w) => CodesOf(s)' = CodesOf(s)
  <2>1. \A s \in Sha : s # Nothing
    BY LabelsAssumption
  <2>2. QED
    BY <1>1, <1>2, <1>6, <2>1, OneCode
<1>8. Engaged(w)'
  BY <1>1, <1>2, <1>3, <1>4 DEF Engaged, In, S, Syncing
<1>9. OwesSync(w, S(w))'
  BY <1>4 DEF OwesSync, S, Syncing
<1>10. \A s \in work[w] : s = S(w) => OwesSync(w, s)'
  BY <1>4 DEF OwesSync, S, Syncing
<1>11. \A s \in work[w] : ~OwesSync(w, s) /\ s \in Sha
  BY <1>1, OwnDues DEF OwesSync, Syncing
<1>12. \A s \in work[w] : s \notin images => CodesOf(s)' = {}
  BY <1>2, <1>7, <1>11 DEF Filed, Pointed
<1> HIDE DEF r
<1>13. QED
  BY <1>1, <1>2, <1>3, <1>7, <1>8, <1>10, <1>11, <1>12, CodesFiled

\* The code leaves one image of the writer's and comes to the other, and each is
\* synced in its turn.
LEMMA RepointFiled ==
    ASSUME Filed, NEW w \in Writer, Repoint(w)
    PROVE  Filed'
<1> DEFINE r == [writer[w] EXCEPT !.pc = "syncLabels", !.next = "second",
                                  !.sha = writer[w].prev, !.prev = S(w)]
<1>1. /\ LabelsTypeOK /\ Engaged(w) /\ writer[w] \in WriterType
      /\ writer[w].pc = "repoint" /\ ~In(w, "idle")
  BY DEF Filed, LabelsTypeOK, WriterType, Repoint, In
<1>2. /\ S(w) \in work[w] /\ S(w) \in Sha /\ S(w) \in images
      /\ writer[w].prev \in work[w] /\ writer[w].prev \in Sha /\ writer[w].prev \in images
      /\ writer[w].code \in CodesOf(writer[w].prev)
  BY <1>1, OwnDues DEF Engaged, In
<1>3. /\ r \in WriterType /\ writer' = [writer EXCEPT ![w] = r]
      /\ UNCHANGED <<images, claims, lbl, work, cut, deaths>>
  BY <1>1, <1>2 DEF WriterType, Repoint, Untouched
<1>4. /\ writer'[w].pc = "syncLabels" /\ writer'[w].next = "second"
      /\ writer'[w].sha = writer[w].prev /\ writer'[w].prev = S(w)
  BY <1>1, <1>2, <1>3 DEF LabelsTypeOK, WriterType
<1>5. PICK c \in ExternalId : c = writer[w].code
  BY <1>1 DEF Engaged, In
<1>6. codeDocs[c] = writer[w].prev /\ writer[w].prev # Nothing
  BY <1>2, <1>5, LabelsAssumption DEF CodesOf
<1>7. codeDocs' = [codeDocs EXCEPT ![c] = S(w)]
  BY <1>5, <1>6 DEF Repoint
<1>8. /\ codeDocs' \in [ExternalId -> Sha \union {Nothing}]
      /\ \A s \in Sha : s # S(w) /\ s # writer[w].prev => CodesOf(s)' = CodesOf(s)
  BY <1>1, <1>2, <1>6, <1>7, OneCode
<1>9. Engaged(w)'
  BY <1>1, <1>2, <1>3, <1>4 DEF Engaged, In, S, Syncing
<1>10. \A s \in work[w] : s = S(w) \/ s = writer[w].prev => OwesSync(w, s)'
  BY <1>4 DEF OwesSync, S, Syncing
<1>11. \A s \in work[w] : ~OwesSync(w, s) /\ s \in Sha
  BY <1>1, OwnDues DEF OwesSync, Syncing
<1>12. \A s \in work[w] : s \notin images => CodesOf(s)' = {}
  BY <1>2, <1>8, <1>11 DEF Filed, Pointed
<1> HIDE DEF r
<1>13. QED
  BY <1>1, <1>2, <1>3, <1>8, <1>9, <1>10, <1>11, <1>12, CodesFiled

\* A tenant's codes, or all of them, are taken off the image.
LEMMA CodesGoFiled ==
    ASSUME Filed, NEW w \in Writer, ReleaseCodes(w) \/ DropCodes(w)
    PROVE  Filed'
<1> DEFINE r == IF In(w, "releaseCodes")
                THEN [writer[w] EXCEPT !.pc = "syncLabels", !.next = "claimed"]
                ELSE [writer[w] EXCEPT !.pc = "dropImage"]
<1>1. /\ LabelsTypeOK /\ Engaged(w) /\ writer[w] \in WriterType
      /\ writer[w].pc \in {"releaseCodes", "dropCodes"} /\ ~In(w, "idle")
  BY DEF Filed, LabelsTypeOK, WriterType, ReleaseCodes, DropCodes, In
<1>2. S(w) \in work[w] /\ S(w) \in Sha /\ S(w) \in images
  BY <1>1, OwnDues DEF Engaged
<1>3. /\ r \in WriterType /\ writer' = [writer EXCEPT ![w] = r]
      /\ UNCHANGED <<images, claims, lbl, work, cut, deaths>>
  BY <1>1 DEF WriterType, ReleaseCodes, DropCodes, Sync, Go, Untouched, In
<1>4. /\ writer'[w].sha = writer[w].sha
      /\ writer[w].pc = "releaseCodes" =>
            writer'[w].pc = "syncLabels" /\ writer'[w].next = "claimed"
      /\ writer[w].pc = "dropCodes" => writer'[w].pc = "dropImage"
  BY <1>1, <1>3 DEF LabelsTypeOK, WriterType, In
<1>5. /\ codeDocs' \in [ExternalId -> Sha \union {Nothing}]
      /\ \A c \in ExternalId : codeDocs'[c] = codeDocs[c]
                               \/ (codeDocs[c] = S(w) /\ codeDocs'[c] = Nothing)
  <2>1. codeDocs \in [ExternalId -> Sha \union {Nothing}]
    BY <1>1 DEF LabelsTypeOK
  <2>2. CASE ReleaseCodes(w)
    <3>1. codeDocs' = [c \in ExternalId |->
             IF codeDocs[c] = S(w) /\ Owner[c] = writer[w].tenant THEN Nothing ELSE codeDocs[c]]
      BY <2>2 DEF ReleaseCodes
    <3>2. \A c \in ExternalId : codeDocs'[c] = codeDocs[c]
                               \/ (codeDocs[c] = S(w) /\ codeDocs'[c] = Nothing)
      BY <3>1
    <3>3. \A c \in ExternalId : codeDocs[c] \in Sha \union {Nothing}
      BY <2>1
    <3>4. QED
      BY <3>1, <3>2, <3>3
  <2>3. CASE DropCodes(w)
    <3>1. codeDocs' = [c \in ExternalId |->
             IF codeDocs[c] = S(w) THEN Nothing ELSE codeDocs[c]]
      BY <2>3 DEF DropCodes
    <3>2. \A c \in ExternalId : codeDocs'[c] = codeDocs[c]
                               \/ (codeDocs[c] = S(w) /\ codeDocs'[c] = Nothing)
      BY <3>1
    <3>3. \A c \in ExternalId : codeDocs[c] \in Sha \union {Nothing}
      BY <2>1
    <3>4. QED
      BY <3>1, <3>2, <3>3
  <2>4. QED
    BY <2>2, <2>3
<1>6. \A s \in Sha : s # S(w) => CodesOf(s)' = CodesOf(s)
  <2>1. \A s \in Sha : s # Nothing
    BY LabelsAssumption
  <2>2. QED
    BY <1>5, <2>1 DEF CodesOf
<1>7. writer[w].pc = "dropCodes" => {c \in ExternalId : codeDocs'[c] = S(w)} = {}
  BY <1>1, <1>2, LabelsAssumption DEF ReleaseCodes, DropCodes, In
<1>8. /\ writer[w].pc = "dropCodes" => lbl'[S(w)] = Nothing /\ claims'[S(w)] = {}
      /\ S(w)' = S(w) /\ S(w) \in work'[w] /\ S(w) \in images'
  BY <1>1, <1>2, <1>3, <1>4 DEF Engaged, S
<1>9. Engaged(w)'
  <2>1. CASE writer[w].pc = "releaseCodes"
    BY <1>1, <1>2, <1>3, <1>4, <1>8, <2>1 DEF Engaged, In, S, Syncing
  <2>2. CASE writer[w].pc = "dropCodes"
    BY <1>1, <1>2, <1>3, <1>4, <1>7, <1>8, <2>2 DEF Engaged, In, S, Syncing, CodesOf
  <2>3. QED
    BY <1>1, <2>1, <2>2
<1>10. \A s \in work[w] : s = S(w) => lbl[s] = Nothing \/ OwesSync(w, s)'
  BY <1>1, <1>3, <1>4, <1>8 DEF OwesSync, S, Syncing
<1>11. \A s \in work[w] : s \in Sha
  BY OwnDues
<1>12. \A s \in work[w] : OwesSync(w, s) => OwesSync(w, s)'
  BY <1>1, <1>4 DEF OwesSync, Syncing
<1>13. \A s \in work[w] : s \notin images => CodesOf(s)' = {}
  BY <1>2, <1>6, <1>11 DEF Filed, Pointed
<1> HIDE DEF r
<1>14. QED
  BY <1>1, <1>2, <1>3, <1>5, <1>6, <1>9, <1>10, <1>11, <1>12, <1>13, CodesFiled

LEMMA ReadPreviousFiled ==
    ASSUME ~Together, Filed, NEW w \in Writer, ReadPrevious(w)
    PROVE  Filed'
<1>1. /\ LabelsTypeOK /\ Engaged(w) /\ writer[w] \in WriterType
      /\ writer[w].pc = "bind" /\ ~In(w, "idle")
  BY DEF Filed, LabelsTypeOK, WriterType, ReadPrevious, In
<1>2. S(w) \in work[w] /\ S(w) \in Sha /\ S(w) \in images
  BY <1>1, OwnDues DEF Engaged
<1>3. PICK c \in ExternalId : c = writer[w].code
  BY <1>1 DEF WriterType, ReadPrevious
<1>4. PICK p \in Sha : p = codeDocs[c] /\ p # S(w)
  BY <1>1, <1>3 DEF ReadPrevious, LabelsTypeOK
<1>5. /\ Free(w, p)
      /\ writer' = [writer EXCEPT ![w] = [writer[w] EXCEPT !.pc = "repoint", !.prev = p]]
      /\ work' = [work EXCEPT ![w] = @ \union {p}]
      /\ UNCHANGED <<images, claims, codeDocs, lbl, cut, deaths>>
  BY <1>3, <1>4 DEF ReadPrevious, Untouched
<1> DEFINE r == [writer[w] EXCEPT !.pc = "repoint", !.prev = p]
<1>6. /\ r \in WriterType /\ r.pc = "repoint" /\ r.prev = p /\ r.sha = S(w) /\ r.code = c
  BY <1>1, <1>3 DEF WriterType, S
<1>7. /\ writer' \in [Writer -> WriterType] /\ writer'[w] = r
      /\ \A v \in Writer : v # w => writer'[v] = writer[v]
  BY <1>1, <1>5, <1>6, OneWriter
<1>8. /\ work' \in [Writer -> SUBSET Sha] /\ work'[w] = work[w] \union {p}
      /\ \A v \in Writer : v # w => work'[v] = work[v]
  BY <1>1, <1>5 DEF LabelsTypeOK
<1>9. LabelsTypeOK'
  BY <1>1, <1>5, <1>7, <1>8 DEF LabelsTypeOK, WriterType
<1>10. c \in CodesOf(p) /\ p \in images
  BY <1>3, <1>4 DEF CodesOf, Filed, Pointed
<1>11. /\ writer'[w].pc = "repoint" /\ writer'[w].prev = p /\ writer'[w].sha = S(w)
       /\ writer'[w].code = c
  BY <1>6, <1>7
<1> HIDE DEF r
<1>12. Engaged(w)'
  BY <1>1, <1>2, <1>3, <1>5, <1>8, <1>10, <1>11 DEF Engaged, In, S, Syncing, CodesOf
<1>13. \A s \in work[w] : ~OwesSync(w, s)
  BY <1>1 DEF OwesSync, Syncing
<1>14. \A s \in work'[w], v \in Writer : v # w => s \notin work[v]
  BY <1>5, <1>8 DEF Filed, SeparateWork, Free
<1>15. QED
  BY <1>5, <1>7, <1>8, <1>9, <1>12, <1>13, <1>14, FiledRead

\* The copy is written from what has been read, which is so still.
LEMMA SyncWriteFiled ==
    ASSUME Filed, NEW w \in Writer, SyncWrite(w)
    PROVE  Filed'
<1>1. /\ LabelsTypeOK /\ Engaged(w) /\ writer[w] \in WriterType
      /\ writer[w].pc = "syncWrite" /\ ~In(w, "idle")
  BY DEF Filed, LabelsTypeOK, WriterType, SyncWrite, In
<1>2. /\ S(w) \in work[w] /\ S(w) \in Sha /\ S(w) \in images
      /\ writer[w].tenants = claims[S(w)] /\ writer[w].codes = CodesOf(S(w))
      /\ writer[w].next = "second" =>
            writer[w].prev \in work[w] /\ writer[w].prev \in images
  BY <1>1, OwnDues DEF Engaged, In, Syncing
<1>3. /\ lbl' = Synced(w) /\ cut' = cut \ {S(w)}
      /\ UNCHANGED <<images, claims, codeDocs, deaths>>
  BY DEF SyncWrite
<1>4. \A s \in Sha : CodesOf(s)' = CodesOf(s)
  BY <1>3 DEF CodesOf
<1>5. /\ lbl' \in [Sha -> Copy \union {Nothing}]
      /\ \A s \in Sha : s # S(w) => lbl'[s] = lbl[s]
      /\ \A s \in Sha : s = S(w) /\ lbl'[s] # Nothing => Exact(s)'
  <2>1. [tenants |-> writer[w].tenants, codes |-> writer[w].codes] \in Copy
    BY <1>1 DEF Copy, WriterType
  <2>2. lbl \in [Sha -> Copy \union {Nothing}]
    BY <1>1 DEF LabelsTypeOK
  <2>3. CASE lbl[S(w)] = Nothing
    BY <1>3, <1>2, <2>2, <2>3 DEF Synced
  <2>4. CASE lbl[S(w)] # Nothing
    <3>1. lbl' = [lbl EXCEPT ![S(w)] =
                    [tenants |-> writer[w].tenants, codes |-> writer[w].codes]]
      BY <1>3, <2>4 DEF Synced
    <3>2. /\ lbl' \in [Sha -> Copy \union {Nothing}]
          /\ \A s \in Sha : s # S(w) => lbl'[s] = lbl[s]
          /\ lbl'[S(w)] = [tenants |-> writer[w].tenants, codes |-> writer[w].codes]
      BY <1>2, <2>1, <2>2, <3>1
    <3>3. lbl'[S(w)] = [tenants |-> claims'[S(w)],
                        codes |-> {c \in ExternalId : codeDocs'[c] = S(w)}]
      BY <1>2, <1>3, <3>2 DEF CodesOf
    <3>4. \A s \in Sha : s = S(w) => Exact(s)'
      BY <3>3 DEF Exact, CodesOf
    <3>5. QED
      BY <3>2, <3>4
  <2>5. QED
    BY <2>3, <2>4
<1>6. \A s \in Sha : s # S(w) => Exact(s)' <=> Exact(s)
  BY <1>3, <1>4, <1>5 DEF Exact
<1>7. /\ \A s \in work[w] : s \in Sha /\ Current(s) /\ Pointed(s)
      /\ \A s \in work[w], v \in Writer : OwesSync(v, s) => v = w
  BY OwnDues DEF Filed
<1>8. \A s \in work[w] : Pointed(s)'
  BY <1>2, <1>3, <1>4, <1>5, <1>7 DEF Pointed
<1>9. \A s \in Sha : s \notin work[w] =>
              /\ s \in images' <=> s \in images
              /\ s \in cut' <=> s \in cut
              /\ claims'[s] = claims[s] /\ lbl'[s] = lbl[s]
              /\ CodesOf(s)' = CodesOf(s)
  BY <1>2, <1>3, <1>4, <1>5
<1>10. cut' \subseteq Sha
  BY <1>1, <1>3 DEF LabelsTypeOK
<1>11. CASE writer[w].next = "idle"
  <2>1. Done(w)
    BY <1>11 DEF SyncWrite
  <2>2. /\ writer' \in [Writer -> WriterType]
        /\ work' \in [Writer -> SUBSET Sha] /\ work'[w] = {}
        /\ \A v \in Writer : v # w => writer'[v] = writer[v] /\ work'[v] = work[v]
        /\ Engaged(w)'
    BY <1>1, <2>1, DoneWriter
  <2>3. LabelsTypeOK'
    BY <1>1, <1>3, <1>5, <1>10, <2>2 DEF LabelsTypeOK, WriterType
  <2>4. \A s \in work[w] : s # S(w) => ~OwesSync(w, s)
    BY <1>11 DEF OwesSync, S
  <2>5. \A s \in work[w] : Current(s)'
    BY <1>3, <1>5, <1>6, <1>7, <2>4 DEF Current
  <2>6. QED
    BY <1>8, <1>9, <2>2, <2>3, <2>5, FiledFrame
<1>12. ASSUME NEW r \in WriterType, writer' = [writer EXCEPT ![w] = r], UNCHANGED work,
              \/ r.pc \in {"artifact", "bind", "claimed"} /\ r.sha = S(w)
              \/ /\ r.pc = "syncLabels" /\ r.next = "idle" /\ r.sha = writer[w].prev
                 /\ writer[w].next = "second",
              writer[w].next = "second" => r.pc = "syncLabels"
       PROVE  Filed'
  <2>1. /\ writer' \in [Writer -> WriterType] /\ writer'[w] = r
        /\ \A v \in Writer : v # w => writer'[v] = writer[v] /\ work'[v] = work[v]
    BY <1>1, <1>12, OneWriter
  <2>2. LabelsTypeOK'
    BY <1>1, <1>3, <1>5, <1>10, <1>12, <2>1 DEF LabelsTypeOK, WriterType
  <2>3. Engaged(w)'
    BY <1>1, <1>2, <1>3, <1>12, <2>1 DEF Engaged, In, S, Syncing
  <2>4. \A s \in work[w] : s # S(w) /\ OwesSync(w, s) => OwesSync(w, s)'
    BY <1>12, <2>1 DEF OwesSync, S, Syncing
  <2>5. \A s \in work[w] : Current(s)'
    BY <1>3, <1>5, <1>6, <1>7, <2>4 DEF Current
  <2>6. \A s \in work'[w], v \in Writer : v # w => s \notin work[v]
    BY <1>12 DEF Filed, SeparateWork
  <2>7. QED
    BY <1>8, <1>9, <2>1, <2>2, <2>3, <2>5, <2>6, FiledFrame
<1>13. CASE writer[w].next = "second"
  <2> DEFINE r == [Idle EXCEPT !.pc = "syncLabels", !.sha = writer[w].prev]
  <2>1. r \in WriterType /\ r.pc = "syncLabels" /\ r.next = "idle" /\ r.sha = writer[w].prev
    BY <1>1 DEF WriterType, Idle
  <2>2. writer' = [writer EXCEPT ![w] = r] /\ UNCHANGED work
    BY <1>13 DEF SyncWrite
  <2> HIDE DEF r
  <2>3. QED
    BY <1>12, <1>13, <2>1, <2>2
<1>14. CASE writer[w].next \notin {"idle", "second"}
  <2> DEFINE r == [writer[w] EXCEPT !.pc = writer[w].next, !.next = "idle",
                              !.tenants = {}, !.codes = {}]
  <2>1. r \in WriterType /\ r.pc \in {"artifact", "bind", "claimed"} /\ r.sha = S(w)
    BY <1>1, <1>14 DEF WriterType, S
  <2>2. writer' = [writer EXCEPT ![w] = r] /\ UNCHANGED work
    BY <1>14 DEF SyncWrite
  <2> HIDE DEF r
  <2>3. QED
    BY <1>12, <1>14, <2>1, <2>2
<1>15. QED
  BY <1>11, <1>13, <1>14

\* What a dead writer leaves is what it had done, and its images are set aside.
LEMMA WriterDiesFiled ==
    ASSUME Filed, NEW w \in Writer, WriterDies(w)
    PROVE  Filed'
<1>1. LabelsTypeOK /\ UNCHANGED <<images, claims, codeDocs, lbl>>
      /\ cut' = cut \union work[w] /\ deaths' \in 0..MaxDeaths
  BY LabelsAssumption DEF Filed, LabelsTypeOK, WriterDies
<1>2. /\ writer' \in [Writer -> WriterType]
      /\ work' \in [Writer -> SUBSET Sha] /\ work'[w] = {}
      /\ \A v \in Writer : v # w => writer'[v] = writer[v] /\ work'[v] = work[v]
      /\ Engaged(w)'
  BY <1>1, DoneWriter DEF WriterDies
<1>3. LabelsTypeOK'
  BY <1>1, <1>2 DEF LabelsTypeOK, WriterType
<1>4. \A s \in Sha : CodesOf(s)' = CodesOf(s)
  BY <1>1 DEF CodesOf
<1>5. \A s \in work[w] : Current(s)' /\ Pointed(s)'
  <2>1. \A s \in work[w] : s \in Sha /\ Pointed(s)
    BY OwnDues DEF Filed
  <2>2. QED
    BY <1>1, <1>4, <2>1 DEF Current, Pointed
<1>6. QED
  BY <1>1, <1>2, <1>3, <1>4, <1>5, FiledFrame

LEMMA NextFiled == ~Together /\ Filed /\ [LabelsNext]_labelsVars => Filed'
<1> SUFFICES ASSUME ~Together, Filed, [LabelsNext]_labelsVars PROVE Filed'
  OBVIOUS
<1>1. ASSUME NEW w \in Writer, WriterStep(w) PROVE Filed'
  BY <1>1, ReadsFiled, UpsertFiled, ClaimFiled, InsertFiled, AddCodeFiled, ReadPreviousFiled,
     RepointFiled, SyncWriteFiled, CodesGoFiled, DropsFiled, DropImageFiled DEF WriterStep
<1>2. ASSUME NEW w \in Writer, WriterDies(w) PROVE Filed'
  BY <1>2, WriterDiesFiled
<1>3. ASSUME NEW w \in Writer, NEW s \in Sha, NEW t \in Claimant,
             NEW c \in ExternalId \union {Nothing}, BeginSubmit(w, s, t, c)
      PROVE  Filed'
  BY <1>3, BeginSubmitFiled
<1>4. ASSUME NEW w \in Writer, NEW s \in Sha, NEW t \in Claimant \union {Nothing},
             BeginDelete(w, s, t)
      PROVE  Filed'
  BY <1>4, BeginDeleteFiled
<1>5. CASE UNCHANGED labelsVars
  BY <1>5 DEF labelsVars, Filed, LabelsTypeOK, SeparateWork, Engaged, Current, Pointed, Exact, OwesSync,
     In, S, CodesOf
<1>6. QED
  BY <1>1, <1>2, <1>3, <1>4, <1>5 DEF LabelsNext

\* While one writer at a time works on an image, a copy that is out of date has
\* a sync before it or was cut off by a death, every sync writes what the tables
\* say at that moment, and no writer finds its image's record gone.
THEOREM FiledHolds ==
    ASSUME ~Together PROVE LabelsSpec => []Filed
<1>1. LabelsInit => Filed
  BY InitFiled
<1>2. Filed /\ [LabelsNext]_labelsVars => Filed'
  BY NextFiled
<1>3. QED
  BY <1>1, <1>2, PTL DEF LabelsSpec

\* What keeps the labels' variables in their types, whoever works on what: a writer
\* has an image, and the tenant or the second image that it is to write.
Fit ==
    {r \in WriterType :
        /\ r.pc # "idle" => r.sha \in Sha
        /\ r.pc \in {"image", "merge"} => r.tenant \in Claimant
        /\ r.pc = "repoint" \/ r.next = "second" => r.prev \in Sha}

LabelsTyped == LabelsTypeOK /\ writer \in [Writer -> Fit]

\* A writer goes on to another place with what it has.
LEMMA GoTyped ==
    ASSUME LabelsTyped, NEW w \in Writer, NEW pc, Go(w, pc),
           pc \in {"merge", "artifact", "bind", "releaseCodes", "coded", "dropArtifact", "dropLabels",
                  "dropCodes", "dropImage"},
           writer[w].pc # "idle", pc = "merge" => writer[w].pc = "image"
    PROVE  writer' \in [Writer -> Fit]
<1>1. writer[w] \in Fit /\ writer \in [Writer -> Fit]
  BY DEF LabelsTyped
<1>2. PICK r : r = [writer[w] EXCEPT !.pc = pc]
  OBVIOUS
<1>3. r \in Fit
  BY <1>1, <1>2 DEF Fit, WriterType
<1>4. QED
  BY <1>1, <1>2, <1>3 DEF Go

\* A writer turns to a sync.
LEMMA SyncTyped ==
    ASSUME LabelsTyped, NEW w \in Writer, NEW next, Sync(w, next),
           writer[w].pc # "idle", next \in {"idle", "artifact", "bind", "claimed"}
    PROVE  writer' \in [Writer -> Fit]
<1>1. writer[w] \in Fit /\ writer \in [Writer -> Fit]
  BY DEF LabelsTyped
<1>2. PICK r : r = [writer[w] EXCEPT !.pc = "syncLabels", !.next = next]
  OBVIOUS
<1>3. r \in Fit
  BY <1>1, <1>2 DEF Fit, WriterType
<1>4. QED
  BY <1>1, <1>2, <1>3 DEF Sync

LEMMA DoneTyped ==
    ASSUME LabelsTyped, NEW w \in Writer, Done(w)
    PROVE  writer' \in [Writer -> Fit] /\ work' \in [Writer -> SUBSET Sha]
<1>1. Idle \in Fit
  BY DEF Idle, Fit, WriterType
<1>2. QED
  BY <1>1 DEF LabelsTyped, LabelsTypeOK, Done

\* A step of a writer that has begun.
LEMMA WriterTyped ==
    ASSUME LabelsTyped, NEW w \in Writer, WriterStep(w)
    PROVE  LabelsTyped'
<1>b. writer[w].pc # "idle"
  BY DEF WriterStep, UpsertImage, Merge, NothingToMerge, InsertArtifact,
     NothingToBind, AddCode, ReadPrevious, Repoint, SyncLabels, SyncCodes, SyncWrite,
     ReleaseLabels, ReleaseCodes, AnyLabels, AnyCodes, DropArtifact, DropLabels, DropCodes,
     DropImage, In
<1>0. /\ writer[w] \in Fit /\ writer[w] \in WriterType /\ writer \in [Writer -> Fit]
      /\ images \subseteq Sha /\ claims \in [Sha -> SUBSET Claimant]
      /\ codeDocs \in [ExternalId -> Sha \union {Nothing}]
      /\ lbl \in [Sha -> Copy \union {Nothing}]
      /\ work \in [Writer -> SUBSET Sha]
      /\ cut \subseteq Sha /\ deaths \in 0..MaxDeaths
      /\ S(w) \in Sha
  BY <1>b DEF LabelsTyped, LabelsTypeOK, Fit, S
<1>a. SUFFICES /\ writer' \in [Writer -> Fit]
               /\ images' \subseteq Sha /\ claims' \in [Sha -> SUBSET Claimant]
               /\ codeDocs' \in [ExternalId -> Sha \union {Nothing}]
               /\ lbl' \in [Sha -> Copy \union {Nothing}]
               /\ work' \in [Writer -> SUBSET Sha]
               /\ cut' \subseteq Sha /\ deaths' \in 0..MaxDeaths
  BY DEF LabelsTyped, LabelsTypeOK, Fit, WriterType
<1> USE DEF Untouched
<1>1. CASE UpsertImage(w)
  <2>1. writer' \in [Writer -> Fit]
    BY <1>1, GoTyped, <1>b DEF UpsertImage, In
  <2>2. QED
    BY <1>0, <1>1, <2>1 DEF UpsertImage
<1>2. CASE Merge(w)
  <2>1. writer' \in [Writer -> Fit]
    BY <1>2, SyncTyped, <1>b DEF Merge
  <2>2. claims' \in [Sha -> SUBSET Claimant]
    BY <1>0, <1>2 DEF Merge, In, Fit
  <2>3. QED
    BY <1>0, <1>2, <2>1, <2>2 DEF Merge
<1>3. CASE InsertArtifact(w)
  <2>1. writer' \in [Writer -> Fit]
    BY <1>3, SyncTyped, GoTyped, <1>b DEF InsertArtifact
  <2>2. lbl' \in [Sha -> Copy \union {Nothing}]
    BY <1>0, <1>3 DEF InsertArtifact, Copy
  <2>3. QED
    BY <1>0, <1>3, <2>1, <2>2 DEF InsertArtifact
<1>4. CASE NothingToBind(w)
  BY <1>0, <1>4, DoneTyped DEF NothingToBind
<1>5. CASE AddCode(w)
  <2>1. writer' \in [Writer -> Fit]
    BY <1>5, SyncTyped, <1>b DEF AddCode
  <2>2. QED
    BY <1>0, <1>5, <2>1 DEF AddCode
<1>6. CASE ReadPrevious(w)
  <2>1. PICK r, prev : /\ r = [writer[w] EXCEPT !.pc = "repoint", !.prev = prev]
                       /\ prev = codeDocs[writer[w].code]
    OBVIOUS
  <2>2. prev \in Sha
    BY <1>0, <1>6, <2>1 DEF ReadPrevious, WriterType
  <2>3. r \in Fit /\ r.pc = "repoint"
    BY <1>0, <1>b, <2>1, <2>2 DEF Fit, WriterType
  <2>4. writer' = [writer EXCEPT ![w] = r]
    BY <1>0, <1>6, <2>1 DEF ReadPrevious
  <2>5. writer' \in [Writer -> Fit]
    BY <1>0, <2>3, <2>4
  <2>6. work' \in [Writer -> SUBSET Sha]
    BY <1>0, <1>6, <2>1, <2>2 DEF ReadPrevious
  <2>7. QED
    BY <1>0, <1>6, <2>5, <2>6 DEF ReadPrevious
<1>7. CASE Repoint(w)
  <2>1. PICK r : r = [writer[w] EXCEPT !.pc = "syncLabels", !.next = "second",
                                       !.sha = writer[w].prev, !.prev = S(w)]
    OBVIOUS
  <2>2. r \in Fit /\ r.pc = "syncLabels"
    BY <1>0, <1>b, <1>7, <2>1 DEF Fit, WriterType, Repoint, In
  <2>3. writer' = [writer EXCEPT ![w] = r]
    BY <1>0, <1>7, <2>1 DEF Repoint
  <2>4. writer' \in [Writer -> Fit]
    BY <1>0, <2>2, <2>3
  <2>5. codeDocs' \in [ExternalId -> Sha \union {Nothing}]
    BY <1>0, <1>7 DEF Repoint
  <2>6. QED
    BY <1>0, <1>7, <2>4, <2>5 DEF Repoint
<1>8. CASE SyncLabels(w) \/ SyncCodes(w)
  <2>2. PICK r : /\ r \in Fit /\ r.pc \in {"syncCodes", "syncWrite"}
                 /\ writer' = [writer EXCEPT ![w] = r]
    <3>1. CASE SyncLabels(w)
      <4>1. PICK q : q = [writer[w] EXCEPT !.pc = "syncCodes", !.tenants = claims[S(w)]]
        OBVIOUS
      <4>2. claims[S(w)] \in SUBSET Claimant
        BY <1>0
      <4>3. q \in Fit /\ q.pc = "syncCodes"
        BY <1>0, <1>b, <4>1, <4>2 DEF Fit, WriterType
      <4>4. writer' = [writer EXCEPT ![w] = q]
        BY <1>0, <3>1, <4>1 DEF SyncLabels
      <4>5. QED
        BY <4>3, <4>4
    <3>2. CASE SyncCodes(w)
      <4>1. PICK q : q = [writer[w] EXCEPT !.pc = "syncWrite", !.codes = CodesOf(S(w))]
        OBVIOUS
      <4>2. CodesOf(S(w)) \in SUBSET ExternalId
        BY DEF CodesOf
      <4>3. q \in Fit /\ q.pc = "syncWrite"
        BY <1>0, <1>b, <4>1, <4>2 DEF Fit, WriterType
      <4>4. writer' = [writer EXCEPT ![w] = q]
        BY <1>0, <3>2, <4>1 DEF SyncCodes
      <4>5. QED
        BY <4>3, <4>4
    <3>3. QED
      BY <1>8, <3>1, <3>2
  <2>3. writer' \in [Writer -> Fit]
    BY <1>0, <2>2
  <2>4. QED
    BY <1>0, <1>8, <2>3 DEF SyncLabels, SyncCodes
<1>9. CASE SyncWrite(w)
  <2>1. lbl' \in [Sha -> Copy \union {Nothing}] /\ cut' \subseteq Sha
    BY <1>0, <1>9 DEF SyncWrite, Synced, Copy, WriterType
  <2>2. writer' \in [Writer -> Fit] /\ work' \in [Writer -> SUBSET Sha]
    <3>1. CASE writer[w].next = "idle"
      BY <1>9, <3>1, DoneTyped DEF SyncWrite
    <3>2. CASE writer[w].next = "second"
      <4>1. PICK r : r = [Idle EXCEPT !.pc = "syncLabels", !.sha = writer[w].prev]
        OBVIOUS
      <4>2. r \in Fit /\ r.pc = "syncLabels"
        BY <1>0, <3>2, <4>1 DEF Fit, WriterType, Idle
      <4>3. writer' = [writer EXCEPT ![w] = r] /\ UNCHANGED work
        BY <1>9, <3>2, <4>1 DEF SyncWrite
      <4>4. QED
        BY <1>0, <4>2, <4>3
    <3>3. CASE writer[w].next \notin {"idle", "second"}
      <4>1. PICK r : r = [writer[w] EXCEPT !.pc = writer[w].next, !.next = "idle",
                                           !.tenants = {}, !.codes = {}]
        OBVIOUS
      <4>2. r \in Fit /\ r.pc \in {"artifact", "bind", "claimed"}
        BY <1>0, <1>b, <3>3, <4>1 DEF Fit, WriterType
      <4>3. writer' = [writer EXCEPT ![w] = r] /\ UNCHANGED work
        BY <1>0, <1>9, <3>3, <4>1 DEF SyncWrite
      <4>4. QED
        BY <1>0, <4>2, <4>3
    <3>4. QED
      BY <3>1, <3>2, <3>3
  <2>3. QED
    BY <1>0, <1>9, <2>1, <2>2 DEF SyncWrite
<1>10. CASE ReleaseLabels(w) \/ DropLabels(w)
  <2>1. writer' \in [Writer -> Fit]
    BY <1>10, GoTyped, <1>b DEF ReleaseLabels, DropLabels
  <2>2. claims' \in [Sha -> SUBSET Claimant]
    BY <1>0, <1>10 DEF ReleaseLabels, DropLabels
  <2>3. QED
    BY <1>0, <1>10, <2>1, <2>2 DEF ReleaseLabels, DropLabels
<1>11. CASE ReleaseCodes(w)
  <2>1. writer' \in [Writer -> Fit]
    BY <1>11, SyncTyped, <1>b DEF ReleaseCodes
  <2>2. codeDocs' \in [ExternalId -> Sha \union {Nothing}]
    BY <1>0, <1>11 DEF ReleaseCodes
  <2>3. QED
    BY <1>0, <1>11, <2>1, <2>2 DEF ReleaseCodes
<1>12. CASE AnyLabels(w) \/ AnyCodes(w)
  <2>1. writer' \in [Writer -> Fit] /\ work' \in [Writer -> SUBSET Sha]
    BY <1>0, <1>12, GoTyped, DoneTyped, <1>b DEF AnyLabels, AnyCodes
  <2>2. QED
    BY <1>0, <1>12, <2>1 DEF AnyLabels, AnyCodes
<1>13. CASE DropArtifact(w)
  <2>1. writer' \in [Writer -> Fit]
    BY <1>13, GoTyped, <1>b DEF DropArtifact
  <2>2. lbl' \in [Sha -> Copy \union {Nothing}]
    BY <1>0, <1>13 DEF DropArtifact
  <2>3. QED
    BY <1>0, <1>13, <2>1, <2>2 DEF DropArtifact
<1>14. CASE DropCodes(w)
  <2>1. writer' \in [Writer -> Fit]
    BY <1>14, GoTyped, <1>b DEF DropCodes
  <2>2. codeDocs' \in [ExternalId -> Sha \union {Nothing}]
    BY <1>0, <1>14 DEF DropCodes
  <2>3. QED
    BY <1>0, <1>14, <2>1, <2>2 DEF DropCodes
<1>15. CASE DropImage(w)
  BY <1>0, <1>15, DoneTyped DEF DropImage
<1>16. CASE NothingToMerge(w)
  <2>1. writer' \in [Writer -> Fit]
    BY <1>16, GoTyped, <1>b DEF NothingToMerge
  <2>2. QED
    BY <1>0, <1>16, <2>1 DEF NothingToMerge
<1>17. QED
  BY <1>1, <1>2, <1>3, <1>4, <1>5, <1>6, <1>7, <1>8, <1>9, <1>10, <1>11, <1>12, <1>13,
     <1>14, <1>15, <1>16 DEF WriterStep

\* Every step, of any writers on any images.
LEMMA LabelsStepTyped == LabelsTyped /\ [LabelsNext]_labelsVars => LabelsTyped'
<1> SUFFICES ASSUME LabelsTyped, [LabelsNext]_labelsVars PROVE LabelsTyped'
  OBVIOUS
<1>1. ASSUME NEW w \in Writer, WriterStep(w) PROVE LabelsTyped'
  BY <1>1, WriterTyped
<1>2. ASSUME NEW w \in Writer, WriterDies(w) PROVE LabelsTyped'
  <2>1. /\ deaths + 1 \in 0..MaxDeaths /\ cut \union work[w] \subseteq Sha
    BY <1>2, LabelsAssumption DEF WriterDies, LabelsTyped, LabelsTypeOK
  <2>2. writer' \in [Writer -> Fit] /\ work' \in [Writer -> SUBSET Sha]
    BY <1>2, DoneTyped DEF WriterDies
  <2>3. QED
    BY <1>2, <2>1, <2>2 DEF WriterDies, LabelsTyped, LabelsTypeOK, Fit, WriterType
<1>3. ASSUME NEW w \in Writer, NEW r \in Fit, NEW s \in Sha,
             writer' = [writer EXCEPT ![w] = r], work' = [work EXCEPT ![w] = {s}],
             UNCHANGED <<images, claims, codeDocs, lbl>>, Untouched
      PROVE  LabelsTyped'
  <2>1. writer' \in [Writer -> Fit] /\ work' \in [Writer -> SUBSET Sha]
    BY <1>3 DEF LabelsTyped, LabelsTypeOK
  <2>2. QED
    BY <1>3, <2>1 DEF LabelsTyped, LabelsTypeOK, Fit, WriterType, Untouched
<1>4. ASSUME NEW w \in Writer, NEW s \in Sha, NEW t \in Claimant,
             NEW c \in ExternalId \union {Nothing}, BeginSubmit(w, s, t, c)
      PROVE  LabelsTyped'
  <2>1. PICK r : r = [Idle EXCEPT !.sha = s, !.tenant = t, !.code = c,
                          !.pc = IF lbl[s] = Nothing THEN "image" ELSE "merge"]
    OBVIOUS
  <2>2. r \in Fit
    BY <2>1 DEF Fit, WriterType, Idle
  <2>3. QED
    BY <1>3, <1>4, <2>1, <2>2 DEF BeginSubmit
<1>5. ASSUME NEW w \in Writer, NEW s \in Sha, NEW t \in Claimant \union {Nothing},
             BeginDelete(w, s, t)
      PROVE  LabelsTyped'
  <2>1. PICK r : r = [Idle EXCEPT !.sha = s, !.tenant = t,
                          !.pc = IF t = Nothing THEN "dropArtifact" ELSE "release"]
    OBVIOUS
  <2>2. r \in Fit
    BY <2>1 DEF Fit, WriterType, Idle
  <2>3. QED
    BY <1>3, <1>5, <2>1, <2>2 DEF BeginDelete
<1>6. CASE UNCHANGED labelsVars
  BY <1>6 DEF labelsVars, LabelsTyped, LabelsTypeOK
<1>7. QED
  BY <1>1, <1>2, <1>4, <1>5, <1>6 DEF LabelsNext

\* The variables of the labels keep their types, whoever works on what.
THEOREM LabelsTypeCorrect == LabelsSpec => []LabelsTypeOK
<1>1. LabelsInit => LabelsTyped
  <2>1. Idle \in Fit
    BY DEF Idle, Fit, WriterType
  <2>2. LabelsInit => LabelsTypeOK
    BY InitFiled DEF Filed
  <2>3. QED
    BY <2>1, <2>2 DEF LabelsInit, LabelsTyped
<1>2. LabelsTyped => LabelsTypeOK
  BY DEF LabelsTyped
<1>3. QED
  BY <1>1, <1>2, LabelsStepTyped, PTL DEF LabelsSpec

\* No listing shows an image to a tenant that has released it, or hides it from
\* one that claims it, once the writers have left it (_sync_labels).
THEOREM ProjectionCurrentHolds ==
    ASSUME ~Together PROVE LabelsSpec => []ProjectionCurrent
<1>1. Filed => ProjectionCurrent
  <2> SUFFICES ASSUME Filed, NEW s \in Sha, lbl[s] # Nothing, s \notin cut,
                      \A w \in Writer : s \notin work[w]
               PROVE  Exact(s)
    BY DEF ProjectionCurrent, Exact
  <2>1. \A w \in Writer : ~OwesSync(w, s)
    BY OwnDues
  <2>2. QED
    BY <2>1 DEF Filed, Current
<1>2. QED
  BY <1>1, FiledHolds, PTL

\* No label, code or artifact outlives the record of its image, at any moment
\* of a submission, a repointing or a deletion and after a death anywhere in one.
THEOREM PointersHaveImageHolds ==
    ASSUME ~Together PROVE LabelsSpec => []PointersHaveImage
<1>1. Filed => PointersHaveImage
  BY DEF Filed, PointersHaveImage, Pointed
<1>2. QED
  BY <1>1, FiledHolds, PTL

-----------------------------------------------------------------------------
(* An edit of the regions (Review)                                         *)

\* One edit of the image at a time.
OneEditor == \A e, f \in Editor : e = f

\* What is served is the work of a redaction that finished, and edits of it.
Sound == Servable /\ ~torn /\ \A w \in Runner : runner[w].pc \in {"idle", "put"}

\* An edit at work has the row it began with, or a later one that no edit has
\* marked yet. What it puts has its own regions and, of that row, those that are
\* recorded; and what it marks is burned in what it has put, while that is there.
Edited(e) ==
    ~EditorAt(e, "idle") =>
        /\ editor[e].id \in Id /\ editor[e].id <= lastId
        /\ record # Absent /\ record.id # editor[e].id => record.regions = {}
        /\ EditorAt(e, "put") => editor[e].regions \subseteq editor[e].bytes
        /\ Sound /\ record.id = editor[e].id =>
              /\ EditorAt(e, "put") => record.regions \subseteq editor[e].bytes
              /\ EditorAt(e, "mark") /\ object # Absent => editor[e].regions \subseteq object

Marked ==
    /\ ReviewTypeOK
    /\ record # Absent => record.id <= lastId
    /\ prune.pc # "idle" => prune.id \in Id
    /\ RegionsBurned
    /\ \A e \in Editor : Edited(e)

RecordType == [id : Id, regions : Burned, review : BOOLEAN, held : BOOLEAN, due : BOOLEAN]
EditorType == [pc : {"idle", "get", "put", "mark"}, id : Id \union {Absent},
               regions : Burned, bytes : Burned]
RunnerType == [pc : {"idle", "put", "drop", "insert"}, cached : Id \union {Absent}]

LEMMA InitMarked == ReviewInit => Marked
<1> SUFFICES ASSUME ReviewInit PROVE Marked
  OBVIOUS
<1>1. /\ Resting \in EditorType /\ Resting.pc = "idle"
      /\ Unstarted \in RunnerType
      /\ NoPrune \in [pc : {"idle", "object", "row"}, id : Id \union {Absent}]
      /\ NoPrune.pc = "idle"
  BY DEF Resting, Unstarted, NoPrune, EditorType, RunnerType, Burned
<1>2. ReviewTypeOK
  <2>1. editor \in [Editor -> EditorType] /\ runner \in [Runner -> RunnerType]
    BY <1>1 DEF ReviewInit
  <2>2. prune \in [pc : {"idle", "object", "row"}, id : Id \union {Absent}]
    BY <1>1 DEF ReviewInit
  <2>3. /\ record \in RecordType \union {Absent} /\ object = Absent
        /\ deleting \in BOOLEAN /\ torn \in BOOLEAN
    BY DEF ReviewInit
  <2>4. lastId \in 0..MaxRows /\ slips \in 0..MaxSlips
    BY ReviewAssumption DEF ReviewInit
  <2>5. QED
    BY <2>1, <2>2, <2>3, <2>4 DEF ReviewTypeOK, EditorType, RunnerType, RecordType
<1>3. \A e \in Editor : Edited(e)
  BY <1>1 DEF ReviewInit, Edited, EditorAt
<1>4. QED
  BY <1>1, <1>2, <1>3 DEF ReviewInit, Marked, RegionsBurned, Servable

\* A step that leaves the bytes and the edits alone, and the row or makes it less
\* than it was, and turns nothing sound that was not.
LEMMA QuietMarked ==
    ASSUME Marked, ReviewTypeOK', UNCHANGED <<object, editor>>,
           lastId <= lastId', prune'.pc # "idle" => prune'.id \in Id,
           record' # Absent => /\ record # Absent
                               /\ record'.id = record.id /\ record'.regions = record.regions,
           Sound' => Sound
    PROVE  Marked'
<1>1. record' # Absent => record'.id <= lastId'
  BY DEF Marked, ReviewTypeOK, Id
<1>2. RegionsBurned'
  BY DEF Marked, RegionsBurned, Sound, Servable
<1>3. ASSUME NEW e \in Editor PROVE Edited(e)'
  <2>1. Edited(e)
    BY DEF Marked
  <2>2. editor[e].id \in Id => editor[e].id \in Nat
    BY DEF Id
  <2>3. editor[e].id \in Id /\ editor[e].id <= lastId => editor[e].id <= lastId'
    BY <2>2 DEF Marked, ReviewTypeOK
  <2>4. Sound' => record' # Absent
    BY DEF Sound, Servable
  <2>5. QED
    BY <2>1, <2>3, <2>4 DEF Edited, EditorAt
<1>4. QED
  BY <1>1, <1>2, <1>3 DEF Marked

\* An edit is the only one.
LEMMA OneEdit ==
    ASSUME ReviewTypeOK, NEW e \in Editor, NEW r \in EditorType,
           editor' = [editor EXCEPT ![e] = r]
    PROVE  editor' \in [Editor -> EditorType] /\ editor'[e] = r
BY DEF ReviewTypeOK, EditorType

LEMMA BeginEditMarked ==
    ASSUME OneEditor, Marked, NEW e \in Editor, NEW regions \in Burned, BeginEdit(e, regions)
    PROVE  Marked'
<1> DEFINE r == [pc |-> IF regions = {} THEN "mark" ELSE "get", id |-> record.id,
                 regions |-> regions, bytes |-> {}]
<1>1. /\ ReviewTypeOK /\ record # Absent /\ record.id \in Id /\ record.id <= lastId
      /\ editor' = [editor EXCEPT ![e] = r]
      /\ UNCHANGED <<record, object, runner, prune, deleting, lastId, torn, slips>>
  BY DEF Marked, ReviewTypeOK, BeginEdit, Servable
<1>2. /\ r \in EditorType
      /\ r.pc = "mark" => r.regions = {}
  BY <1>1 DEF EditorType, Burned
<1>3. r.pc # "put" /\ r.id = record.id
  BY DEF r
<1> HIDE DEF r
<1>4. editor' \in [Editor -> EditorType] /\ editor'[e] = r
  BY <1>1, <1>2, OneEdit
<1>5. ReviewTypeOK'
  BY <1>1, <1>4 DEF ReviewTypeOK, EditorType
<1>6. Edited(e)'
  BY <1>1, <1>2, <1>3, <1>4 DEF Edited, EditorAt
<1>7. \A f \in Editor : Edited(f)'
  BY <1>6 DEF OneEditor
<1>8. RegionsBurned'
  BY <1>1 DEF Marked, RegionsBurned, Servable
<1>9. QED
  BY <1>1, <1>5, <1>7, <1>8 DEF Marked

\* What the edit puts has, of a sound row, what the bytes had.
LEMMA GetBlobMarked ==
    ASSUME OneEditor, Marked, NEW e \in Editor, GetBlob(e)
    PROVE  Marked'
<1> DEFINE r == [editor[e] EXCEPT !.pc = "put", !.bytes = object \union editor[e].regions]
<1>1. /\ ReviewTypeOK /\ Edited(e) /\ object # Absent /\ object \in Burned
      /\ editor[e] \in EditorType /\ editor[e].pc = "get"
      /\ UNCHANGED <<record, object, runner, prune, deleting, lastId, torn, slips>>
  BY DEF Marked, ReviewTypeOK, GetBlob, EditorType, EditorAt
<1>2. editor' = [editor EXCEPT ![e] = r]
  BY DEF GetBlob
<1>3. /\ r \in EditorType /\ r.pc = "put" /\ r.id = editor[e].id
      /\ r.regions = editor[e].regions /\ r.bytes = object \union editor[e].regions
  BY <1>1 DEF EditorType, Burned
<1> HIDE DEF r
<1>4. editor' \in [Editor -> EditorType] /\ editor'[e] = r
  BY <1>1, <1>2, <1>3, OneEdit
<1>5. ReviewTypeOK'
  BY <1>1, <1>4 DEF ReviewTypeOK, EditorType
<1>6. Sound => record.regions \subseteq object
  BY <1>1 DEF Marked, RegionsBurned, Sound
<1>7. Sound' => Sound
  BY <1>1 DEF Sound, Servable
<1>8. Edited(e)'
  BY <1>1, <1>3, <1>4, <1>6, <1>7 DEF Edited, EditorAt
<1>9. \A f \in Editor : Edited(f)'
  BY <1>8 DEF OneEditor
<1>10. RegionsBurned'
  BY <1>1 DEF Marked, RegionsBurned, Servable
<1>11. QED
  BY <1>1, <1>5, <1>9, <1>10 DEF Marked

LEMMA PutMaskedMarked ==
    ASSUME OneEditor, Marked, NEW e \in Editor, PutMasked(e)
    PROVE  Marked'
<1> DEFINE r == [editor[e] EXCEPT !.pc = "mark"]
<1>1. /\ ReviewTypeOK /\ Edited(e) /\ editor[e] \in EditorType /\ editor[e].pc = "put"
      /\ object' = editor[e].bytes
      /\ UNCHANGED <<record, runner, prune, deleting, lastId, torn, slips>>
  BY DEF Marked, ReviewTypeOK, PutMasked, EditorType, EditorAt
<1>2. editor' = [editor EXCEPT ![e] = r]
  BY DEF PutMasked
<1>3. /\ r \in EditorType /\ r.pc = "mark" /\ r.id = editor[e].id
      /\ r.regions = editor[e].regions
  BY <1>1 DEF EditorType
<1> HIDE DEF r
<1>4. editor' \in [Editor -> EditorType] /\ editor'[e] = r
  BY <1>1, <1>2, <1>3, OneEdit
<1>5. ReviewTypeOK'
  BY <1>1, <1>4 DEF ReviewTypeOK, EditorType
<1>6. Sound' => Sound
  BY <1>1 DEF Sound, Servable
<1>7. Edited(e)'
  BY <1>1, <1>3, <1>4, <1>6 DEF Edited, EditorAt
<1>8. \A f \in Editor : Edited(f)'
  BY <1>7 DEF OneEditor
<1>9. RegionsBurned'
  <2> SUFFICES ASSUME Sound' PROVE record'.regions \subseteq object'
    BY DEF RegionsBurned, Sound
  <2>1. Sound /\ record # Absent
    BY <1>6 DEF Sound, Servable
  <2>2. CASE record.id = editor[e].id
    BY <1>1, <2>1, <2>2 DEF Edited, EditorAt
  <2>3. CASE record.id # editor[e].id
    BY <1>1, <2>1, <2>3 DEF Edited, EditorAt
  <2>4. QED
    BY <2>2, <2>3
<1>10. QED
  BY <1>1, <1>5, <1>8, <1>9 DEF Marked

\* The regions the edit records are burned in what is there.
LEMMA ApplyMarked ==
    ASSUME OneEditor, Marked, NEW e \in Editor, ApplyManualRegions(e)
    PROVE  Marked'
<1>1. /\ ReviewTypeOK /\ Edited(e) /\ editor[e] \in EditorType /\ editor[e].pc = "mark"
      /\ editor' = [editor EXCEPT ![e] = Resting]
      /\ UNCHANGED <<object, runner, prune, deleting, lastId, torn, slips>>
  BY DEF Marked, ReviewTypeOK, ApplyManualRegions, EditorType, EditorAt, EditorRests
<1>2. Resting \in EditorType /\ Resting.pc = "idle"
  BY DEF Resting, EditorType, Burned
<1>3. editor' \in [Editor -> EditorType] /\ editor'[e].pc = "idle"
  BY <1>1, <1>2, OneEdit
<1>4. \A f \in Editor : Edited(f)'
  BY <1>3 DEF OneEditor, Edited, EditorAt
<1>5. CASE RowId # editor[e].id \/ record = Absent
  <2>1. record' = record
    BY <1>5 DEF ApplyManualRegions
  <2>2. ReviewTypeOK'
    BY <1>1, <1>3, <2>1 DEF ReviewTypeOK, EditorType
  <2>3. RegionsBurned'
    BY <1>1, <2>1 DEF Marked, RegionsBurned, Servable
  <2>4. QED
    BY <1>1, <1>4, <2>1, <2>2, <2>3 DEF Marked
<1>6. CASE RowId = editor[e].id /\ record # Absent
  <2>1. record' = [record EXCEPT !.regions = editor[e].regions, !.review = FALSE]
    BY <1>6 DEF ApplyManualRegions
  <2>2. /\ record \in RecordType /\ record.id = editor[e].id /\ record.id <= lastId
        /\ editor[e].regions \in Burned
    BY <1>1, <1>6 DEF Marked, ReviewTypeOK, RecordType, EditorType, RowId
  <2>3. /\ record' \in RecordType /\ record'.id = record.id /\ record'.held = record.held
        /\ record'.due = record.due /\ record'.regions = editor[e].regions
    BY <2>1, <2>2 DEF RecordType
  <2>4. ReviewTypeOK'
    BY <1>1, <1>3, <2>3 DEF ReviewTypeOK, EditorType, RecordType
  <2>5. Sound' => Sound
    BY <1>1, <1>6, <2>3 DEF Sound, Servable
  <2>6. RegionsBurned'
    <3> SUFFICES ASSUME Sound', object' # Absent PROVE record'.regions \subseteq object'
      BY DEF RegionsBurned, Sound
    <3>1. QED
      BY <1>1, <2>2, <2>3, <2>5 DEF Edited, EditorAt
  <2>7. QED
    BY <1>1, <1>4, <2>2, <2>3, <2>4, <2>6 DEF Marked
<1>7. QED
  BY <1>5, <1>6

\* An edit ends without a mark.
LEMMA EditEndsMarked ==
    ASSUME OneEditor, Marked, NEW e \in Editor, GetFails(e) \/ EditorDies(e)
    PROVE  Marked'
<1>1. /\ ReviewTypeOK /\ editor' = [editor EXCEPT ![e] = Resting]
      /\ UNCHANGED <<record, object, runner, prune, deleting, lastId, torn>>
      /\ slips' \in 0..MaxSlips
  BY ReviewAssumption DEF Marked, ReviewTypeOK, GetFails, EditorDies, EditorRests
<1>2. Resting \in EditorType /\ Resting.pc = "idle"
  BY DEF Resting, EditorType, Burned
<1>3. editor' \in [Editor -> EditorType] /\ editor'[e].pc = "idle"
  BY <1>1, <1>2, OneEdit
<1>4. \A f \in Editor : Edited(f)'
  BY <1>3 DEF OneEditor, Edited, EditorAt
<1>5. ReviewTypeOK'
  BY <1>1, <1>3 DEF ReviewTypeOK, EditorType
<1>6. RegionsBurned'
  BY <1>1 DEF Marked, RegionsBurned, Servable
<1>7. QED
  BY <1>1, <1>4, <1>5, <1>6 DEF Marked

LEMMA OneRun ==
    ASSUME ReviewTypeOK, NEW w \in Runner, NEW r \in RunnerType,
           runner' = [runner EXCEPT ![w] = r]
    PROVE  /\ runner' \in [Runner -> RunnerType] /\ runner'[w] = r
           /\ \A v \in Runner : v # w => runner'[v] = runner[v]
BY DEF ReviewTypeOK, RunnerType

\* The bytes of a redaction come with none of the edits, and until its row is
\* there nothing is said of them.
LEMMA RunMarked ==
    ASSUME Marked, NEW w \in Runner,
           \/ \E forced \in BOOLEAN : Begin(w, forced)
           \/ PutRedacted(w) \/ DropCached(w) \/ ServeWinner(w) \/ RunnerDies(w)
    PROVE  Marked'
<1>1. /\ ReviewTypeOK /\ runner[w] \in RunnerType /\ RowId \in Id \union {Absent}
      /\ torn \in BOOLEAN
  BY DEF Marked, ReviewTypeOK, RunnerType, RowId
<1>2. Unstarted \in RunnerType /\ Unstarted.pc = "idle"
  BY DEF Unstarted, RunnerType
<1>3. ASSUME NEW forced \in BOOLEAN, Begin(w, forced) PROVE Marked'
  <2> DEFINE r == [pc |-> "put", cached |-> RowId]
  <2>1. r \in RunnerType /\ runner' = [runner EXCEPT ![w] = r] /\ runner[w].pc = "idle"
        /\ UNCHANGED <<record, object, editor, prune, deleting, lastId, torn, slips>>
    BY <1>1, <1>3 DEF Begin, RunnerType, RunnerAt
  <2> HIDE DEF r
  <2>2. runner' \in [Runner -> RunnerType]
        /\ \A v \in Runner : v # w => runner'[v] = runner[v]
    BY <1>1, <2>1, OneRun
  <2>3. ReviewTypeOK'
    BY <1>1, <2>1, <2>2 DEF ReviewTypeOK, RunnerType
  <2>4. Sound' => Sound
    BY <2>1, <2>2 DEF Sound, Servable
  <2>5. QED
    BY <1>1, <2>1, <2>3, <2>4, QuietMarked DEF Marked, ReviewTypeOK
<1>4. CASE PutRedacted(w)
  <2> DEFINE r == [runner[w] EXCEPT !.pc = "drop"]
  <2>1. r \in RunnerType /\ r.pc = "drop" /\ runner' = [runner EXCEPT ![w] = r] /\ object' = {}
        /\ UNCHANGED <<record, editor, prune, deleting, lastId, torn, slips>>
    BY <1>1, <1>4 DEF PutRedacted, RunnerType
  <2> HIDE DEF r
  <2>2. runner' \in [Runner -> RunnerType] /\ runner'[w].pc = "drop"
    BY <1>1, <2>1, OneRun
  <2>3. ReviewTypeOK'
    BY <1>1, <2>1, <2>2 DEF ReviewTypeOK, RunnerType, Burned
  <2>4. ~Sound'
    BY <2>2 DEF Sound
  <2>5. RegionsBurned'
    BY <2>4 DEF RegionsBurned, Sound
  <2>6. \A e \in Editor : Edited(e)'
    BY <2>1, <2>4 DEF Marked, Edited, EditorAt
  <2>7. QED
    BY <2>1, <2>3, <2>5, <2>6 DEF Marked
<1>5. CASE DropCached(w)
  <2> DEFINE r == [runner[w] EXCEPT !.pc = "insert"]
  <2>1. /\ r \in RunnerType /\ r.pc = "insert" /\ runner' = [runner EXCEPT ![w] = r]
        /\ record' = record \/ record' = Absent
        /\ UNCHANGED <<object, editor, prune, deleting, lastId, torn, slips>>
    BY <1>1, <1>5 DEF DropCached, RunnerType
  <2> HIDE DEF r
  <2>2. runner' \in [Runner -> RunnerType] /\ runner'[w].pc = "insert"
    BY <1>1, <2>1, OneRun
  <2>3. ReviewTypeOK'
    BY <1>1, <2>1, <2>2 DEF ReviewTypeOK, RunnerType
  <2>4. ~Sound'
    BY <2>2 DEF Sound
  <2>5. QED
    BY <1>1, <2>1, <2>3, <2>4, QuietMarked DEF Marked, ReviewTypeOK
<1>6. ASSUME ServeWinner(w) \/ RunnerDies(w) PROVE Marked'
  <2>1. /\ runner' = [runner EXCEPT ![w] = Unstarted]
        /\ UNCHANGED <<record, object, editor, prune, deleting, lastId>>
    BY <1>6 DEF ServeWinner, RunnerDies
  <2>6. slips' \in 0..MaxSlips
    BY <1>1, <1>6, ReviewAssumption DEF ServeWinner, RunnerDies, ReviewTypeOK
  <2>7. torn' \in BOOLEAN /\ (torn' = TRUE \/ (runner[w].pc = "put" /\ torn' = torn))
    <3>1. CASE ServeWinner(w)
      BY <3>1 DEF ServeWinner
    <3>2. CASE RunnerDies(w)
      BY <1>1, <3>2, Zenon DEF RunnerDies, RunnerAt
    <3>3. QED
      BY <1>6, <3>1, <3>2
  <2>2. runner' \in [Runner -> RunnerType]
        /\ \A v \in Runner : v # w => runner'[v] = runner[v]
    BY <1>1, <1>2, <2>1, OneRun
  <2>3. ReviewTypeOK'
    BY <1>1, <2>1, <2>2, <2>6, <2>7 DEF ReviewTypeOK, RunnerType
  <2>4. Sound' => Sound
    BY <2>1, <2>2, <2>7 DEF Sound, Servable
  <2>5. QED
    BY <1>1, <2>1, <2>3, <2>4, QuietMarked DEF Marked, ReviewTypeOK
<1>7. QED
  BY <1>3, <1>4, <1>5, <1>6

\* A new row lists no region and has an id that no edit has.
LEMMA InsertMarked ==
    ASSUME Marked, NEW w \in Runner, NEW review \in BOOLEAN, InsertArtifactRow(w, review)
    PROVE  Marked'
<1>1. ReviewTypeOK /\ lastId \in Nat /\ lastId < MaxRows
  BY DEF Marked, ReviewTypeOK, InsertArtifactRow
<1>2. /\ lastId' = lastId + 1 /\ lastId' \in Id /\ lastId' \in 0..MaxRows /\ lastId <= lastId'
      /\ UNCHANGED <<object, editor, prune, deleting, slips>>
  BY <1>1, ReviewAssumption DEF InsertArtifactRow, Id
<1>3. /\ record' \in RecordType /\ record'.id = lastId' /\ record'.regions = {}
  BY <1>2 DEF InsertArtifactRow, RecordType, Burned
<1>4. /\ Unstarted \in RunnerType /\ runner' = [runner EXCEPT ![w] = Unstarted]
      /\ torn' \in BOOLEAN
  BY DEF InsertArtifactRow, Unstarted, RunnerType
<1>5. runner' \in [Runner -> RunnerType]
  BY <1>1, <1>4, OneRun
<1>6. ReviewTypeOK'
  BY <1>1, <1>2, <1>3, <1>4, <1>5 DEF ReviewTypeOK, RecordType, RunnerType
<1>7. RegionsBurned'
  BY <1>3 DEF RegionsBurned
<1>8. ASSUME NEW e \in Editor PROVE Edited(e)'
  <2>1. Edited(e) /\ editor' = editor
    BY <1>2 DEF Marked
  <2>2. editor[e].id \in Id /\ editor[e].id <= lastId
           => editor[e].id # record'.id /\ editor[e].id <= lastId'
    BY <1>1, <1>2, <1>3 DEF Id
  <2>3. QED
    BY <1>3, <2>1, <2>2 DEF Edited, EditorAt
<1>9. record'.id <= lastId'
  BY <1>1, <1>2, <1>3
<1>10. QED
  BY <1>2, <1>6, <1>7, <1>8, <1>9 DEF Marked

\* The sweep and a deletion only take away.
LEMMA SweepMarked ==
    ASSUME Marked,
           Expire \/ SelectDue \/ PruneObject \/ ExpireArtifact \/ DeleteObject \/ DeleteImage
    PROVE  Marked'
<1>1. /\ ReviewTypeOK /\ UNCHANGED <<editor, runner, lastId, torn, slips>>
      /\ record # Absent => record \in RecordType
  BY DEF Marked, ReviewTypeOK, RecordType, Expire, SelectDue, PruneObject, ExpireArtifact,
     DeleteObject, DeleteImage
<1>2. CASE Expire
  <2>1. /\ record # Absent /\ record \in RecordType
        /\ record' = [record EXCEPT !.due = TRUE]
        /\ UNCHANGED <<object, editor, runner, prune, deleting, lastId, torn, slips>>
    BY <1>1, <1>2 DEF Expire, Servable
  <2>2. /\ record' \in RecordType /\ record'.id = record.id
        /\ record'.regions = record.regions /\ record'.due
    BY <2>1 DEF RecordType
  <2>3. ReviewTypeOK'
    BY <1>1, <2>1, <2>2 DEF ReviewTypeOK, RecordType
  <2>4. ~Sound'
    BY <2>2 DEF Sound, Servable
  <2>5. QED
    BY <1>1, <2>1, <2>2, <2>3, <2>4, QuietMarked DEF Marked, ReviewTypeOK
<1>3. CASE SelectDue
  <2>1. /\ record.id \in Id /\ prune' = [pc |-> "object", id |-> record.id]
        /\ UNCHANGED <<record, object, editor, runner, deleting, lastId, torn, slips>>
    BY <1>1, <1>3 DEF SelectDue, RecordType
  <2>2. ReviewTypeOK' /\ prune'.id \in Id
    BY <1>1, <2>1 DEF ReviewTypeOK
  <2>3. Sound' => Sound
    BY <1>1, <2>1 DEF Sound, Servable
  <2>4. QED
    BY <1>1, <2>1, <2>2, <2>3, QuietMarked DEF ReviewTypeOK
<1>4. ASSUME PruneObject \/ DeleteObject PROVE Marked'
  <2>1. /\ object' = Absent /\ record' = record
        /\ prune' = prune \/ (prune.pc # "idle" /\ prune' = [prune EXCEPT !.pc = "row"])
        /\ deleting' \in BOOLEAN
    BY <1>1, <1>4 DEF PruneObject, DeleteObject, ReviewTypeOK
  <2>2. /\ prune' \in [pc : {"idle", "object", "row"}, id : Id \union {Absent}]
        /\ prune'.pc # "idle" => prune'.id \in Id
    BY <1>1, <2>1 DEF ReviewTypeOK, Marked
  <2>3. ReviewTypeOK'
    BY <1>1, <2>1, <2>2 DEF ReviewTypeOK
  <2>4. Sound' => Sound
    BY <1>1, <2>1 DEF Sound, Servable
  <2>5. \A e \in Editor : Edited(e)'
    BY <1>1, <2>1, <2>4 DEF Marked, Edited, EditorAt
  <2>6. RegionsBurned'
    BY <2>1 DEF RegionsBurned
  <2>7. QED
    BY <1>1, <2>1, <2>2, <2>3, <2>5, <2>6 DEF Marked
<1>5. CASE ExpireArtifact
  <2>1. /\ prune' = NoPrune /\ prune.id \in Id
        /\ UNCHANGED <<object, editor, runner, deleting, lastId, torn, slips>>
    BY <1>5 DEF ExpireArtifact, Marked
  <2>2. CASE RowId = prune.id
    <3>1. record # Absent /\ record \in RecordType
      BY <1>1, <2>1, <2>2, ReviewAssumption DEF RowId, Id
    <3>2. record' = [record EXCEPT !.held = FALSE]
      BY <1>5, <2>2 DEF ExpireArtifact
    <3>3. /\ record' \in RecordType /\ record'.id = record.id
          /\ record'.regions = record.regions /\ ~record'.held
      BY <3>1, <3>2 DEF RecordType
    <3>4. ReviewTypeOK'
      BY <1>1, <2>1, <3>3 DEF ReviewTypeOK, RecordType, NoPrune
    <3>5. ~Sound'
      BY <3>3 DEF Sound, Servable
    <3>6. QED
      BY <1>1, <2>1, <3>1, <3>3, <3>4, <3>5, QuietMarked DEF ReviewTypeOK, NoPrune
  <2>3. CASE RowId # prune.id
    <3>1. record' = record
      BY <1>5, <2>3 DEF ExpireArtifact
    <3>2. ReviewTypeOK'
      BY <1>1, <2>1, <3>1 DEF ReviewTypeOK, NoPrune
    <3>3. Sound' => Sound
      BY <2>1, <3>1 DEF Sound, Servable
    <3>4. QED
      BY <1>1, <2>1, <3>1, <3>2, <3>3, QuietMarked DEF ReviewTypeOK, NoPrune
  <2>4. QED
    BY <2>2, <2>3
<1>6. CASE DeleteImage
  <2>1. /\ record' = Absent /\ deleting' = FALSE
        /\ UNCHANGED <<object, editor, runner, prune, lastId, torn, slips>>
    BY <1>6 DEF DeleteImage
  <2>2. ReviewTypeOK'
    BY <1>1, <2>1 DEF ReviewTypeOK
  <2>3. ~Sound'
    BY <2>1 DEF Sound, Servable
  <2>4. QED
    BY <1>1, <2>1, <2>2, <2>3, QuietMarked DEF Marked, ReviewTypeOK
<1>7. QED
  BY <1>2, <1>3, <1>4, <1>5, <1>6

LEMMA NextMarked == OneEditor /\ Marked /\ [ReviewNext]_reviewVars => Marked'
<1> SUFFICES ASSUME OneEditor, Marked, [ReviewNext]_reviewVars PROVE Marked'
  OBVIOUS
<1>1. ASSUME NEW e \in Editor, NEW regions \in Burned, BeginEdit(e, regions) PROVE Marked'
  BY <1>1, BeginEditMarked
<1>2. ASSUME NEW e \in Editor, EditorStep(e) \/ EditorDies(e) PROVE Marked'
  BY <1>2, GetBlobMarked, EditEndsMarked, PutMaskedMarked, ApplyMarked DEF EditorStep
<1>3. ASSUME NEW w \in Runner,
             (\E forced \in BOOLEAN : Begin(w, forced)) \/ RunnerStep(w) \/ RunnerDies(w)
      PROVE  Marked'
  BY <1>3, RunMarked, InsertMarked DEF RunnerStep
<1>4. ASSUME Expire \/ SelectDue \/ PruneObject \/ ExpireArtifact \/ DeleteObject \/ DeleteImage
      PROVE  Marked'
  BY <1>4, SweepMarked
<1>5. CASE UNCHANGED reviewVars
  BY <1>5 DEF reviewVars, Marked, ReviewTypeOK, RegionsBurned, Edited, EditorAt, Sound, Servable
<1>6. QED
  BY <1>1, <1>2, <1>3, <1>4, <1>5 DEF ReviewNext

\* With one edit of an image at a time, an edit marks its row with what its own
\* put burned, or finds another row there.
THEOREM MarkedHolds ==
    ASSUME OneEditor PROVE Review => []Marked
<1>1. ReviewInit => Marked
  BY InitMarked
<1>2. Marked /\ [ReviewNext]_reviewVars => Marked'
  BY NextMarked
<1>3. QED
  BY <1>1, <1>2, PTL DEF Review

\* Every region the record of an image lists as masked is masked in the bytes
\* served (apply_regions), whatever redactions, expiry, deletion and deaths the
\* edit meets, for any number of workers and submissions.
THEOREM RegionsBurnedHolds ==
    ASSUME OneEditor PROVE Review => []RegionsBurned
<1>1. Marked => RegionsBurned
  BY DEF Marked
<1>2. QED
  BY <1>1, MarkedHolds, PTL

\* What keeps the review's variables in their types, however many edits there are: a
\* sweep at work has the row it has selected.
ReviewTyped == ReviewTypeOK /\ (prune.pc # "idle" => prune.id \in Id)

\* Every step, of any edits, runs and sweeps.
LEMMA ReviewStepTyped == ReviewTyped /\ [ReviewNext]_reviewVars => ReviewTyped'
<1> SUFFICES ASSUME ReviewTyped, [ReviewNext]_reviewVars PROVE ReviewTyped'
  OBVIOUS
<1> USE DEF ReviewTyped
<1>0. /\ record \in RecordType \union {Absent}
      /\ object = Absent \/ object \in Burned
      /\ editor \in [Editor -> EditorType] /\ runner \in [Runner -> RunnerType]
      /\ prune \in [pc : {"idle", "object", "row"}, id : Id \union {Absent}]
      /\ deleting \in BOOLEAN /\ torn \in BOOLEAN
      /\ lastId \in 0..MaxRows /\ slips \in 0..MaxSlips
  BY DEF ReviewTypeOK, RecordType, EditorType, RunnerType
<1>a. ASSUME record' \in RecordType \union {Absent},
             object' = Absent \/ object' \in Burned,
             editor' \in [Editor -> EditorType], runner' \in [Runner -> RunnerType],
             prune' \in [pc : {"idle", "object", "row"}, id : Id \union {Absent}],
             deleting' \in BOOLEAN, torn' \in BOOLEAN,
             lastId' \in 0..MaxRows, slips' \in 0..MaxSlips,
             prune'.pc # "idle" => prune'.id \in Id
      PROVE  ReviewTyped'
  BY <1>a DEF ReviewTypeOK, RecordType, EditorType, RunnerType
<1>b. /\ Resting \in EditorType /\ Unstarted \in RunnerType
      /\ NoPrune \in [pc : {"idle", "object", "row"}, id : Id \union {Absent}]
      /\ NoPrune.pc = "idle"
  BY DEF Resting, Unstarted, NoPrune, EditorType, RunnerType, Burned
<1>c. slips < MaxSlips => slips + 1 \in 0..MaxSlips
  BY <1>0, ReviewAssumption
<1>d. RowId \in Id \union {Absent} /\ (record # Absent => record.id \in Id)
  BY <1>0 DEF RowId, RecordType
<1>1. ASSUME NEW e \in Editor, NEW regions \in Burned, BeginEdit(e, regions)
      PROVE  editor' \in [Editor -> EditorType]
  <2>1. PICK r : r = [pc |-> IF regions = {} THEN "mark" ELSE "get", id |-> record.id,
                      regions |-> regions, bytes |-> {}]
    OBVIOUS
  <2>2. record.id \in Id /\ {} \in Burned
    BY <1>1, <1>d DEF BeginEdit, Servable, Burned
  <2>3. r \in EditorType
    BY <2>1, <2>2 DEF EditorType
  <2>4. editor' = [editor EXCEPT ![e] = r]
    BY <1>1, <2>1 DEF BeginEdit
  <2>5. QED
    BY <1>0, <2>3, <2>4
<1>2. ASSUME NEW e \in Editor, EditorStep(e) \/ EditorDies(e)
      PROVE  editor' \in [Editor -> EditorType]
  <2>1. editor[e] \in EditorType
    BY <1>0
  <2>2. CASE GetBlob(e)
    <3>1. [editor[e] EXCEPT !.pc = "put", !.bytes = object \union editor[e].regions] \in EditorType
      BY <1>0, <2>1, <2>2 DEF GetBlob, EditorType, Burned
    <3>2. editor' = [editor EXCEPT ![e] =
                       [editor[e] EXCEPT !.pc = "put", !.bytes = object \union editor[e].regions]]
      BY <1>0, <2>2 DEF GetBlob
    <3>3. QED
      BY <1>0, <3>1, <3>2
  <2>3. CASE PutMasked(e)
    BY <1>0, <2>1, <2>3 DEF PutMasked, EditorType
  <2>4. CASE GetFails(e) \/ ApplyManualRegions(e) \/ EditorDies(e)
    BY <1>0, <1>b, <2>4 DEF GetFails, ApplyManualRegions, EditorDies, EditorRests
  <2>5. QED
    BY <1>2, <2>2, <2>3, <2>4 DEF EditorStep
<1>3. ASSUME NEW e \in Editor,
             \/ \E regions \in Burned : BeginEdit(e, regions)
             \/ EditorStep(e) \/ EditorDies(e)
      PROVE  ReviewTyped'
  <2>1. editor' \in [Editor -> EditorType]
    BY <1>1, <1>2, <1>3
  <2>2. record' \in RecordType \union {Absent}
    <3>1. CASE ApplyManualRegions(e)
      <4>1. editor[e].regions \in Burned
        BY <1>0 DEF EditorType
      <4>2. QED
        BY <1>0, <3>1, <4>1 DEF ApplyManualRegions, RecordType
    <3>2. CASE ~ApplyManualRegions(e)
      BY <1>0, <1>3, <3>2 DEF BeginEdit, EditorStep, EditorDies, GetBlob, GetFails, PutMasked
    <3>3. QED
      BY <3>1, <3>2
  <2>3. object' = Absent \/ object' \in Burned
    BY <1>0, <1>3 DEF BeginEdit, EditorStep, EditorDies, GetBlob, GetFails, PutMasked,
       ApplyManualRegions, EditorType
  <2>4. slips' \in 0..MaxSlips /\ UNCHANGED <<runner, prune, deleting, lastId, torn>>
    BY <1>0, <1>c, <1>3 DEF BeginEdit, EditorStep, EditorDies, GetBlob, GetFails, PutMasked,
       ApplyManualRegions
  <2>5. QED
    BY <1>0, <2>1, <2>2, <2>3, <2>4, <1>a
<1>4. ASSUME NEW w \in Runner, (\E forced \in BOOLEAN : Begin(w, forced)) \/ PutRedacted(w)
                               \/ DropCached(w) \/ ServeWinner(w) \/ RunnerDies(w)
      PROVE  ReviewTyped'
  <2>1. runner' \in [Runner -> RunnerType]
    <3>1. runner[w] \in RunnerType /\ [pc |-> "put", cached |-> RowId] \in RunnerType
      BY <1>0, <1>d DEF RunnerType
    <3>2. QED
      BY <1>0, <1>b, <1>4, <3>1 DEF Begin, PutRedacted, DropCached, ServeWinner, RunnerDies,
         RunnerType
  <2>2. record' \in RecordType \union {Absent} /\ (object' = Absent \/ object' \in Burned)
    BY <1>0, <1>4 DEF Begin, PutRedacted, DropCached, ServeWinner, RunnerDies, Burned
  <2>3. torn' \in BOOLEAN
    BY <1>0, <1>4, Zenon DEF Begin, PutRedacted, DropCached, ServeWinner, RunnerDies
  <2>4. slips' \in 0..MaxSlips /\ UNCHANGED <<editor, prune, deleting, lastId>>
    BY <1>0, <1>c, <1>4 DEF Begin, PutRedacted, DropCached, ServeWinner, RunnerDies
  <2>5. QED
    BY <1>0, <2>1, <2>2, <2>3, <2>4, <1>a
<1>5. ASSUME NEW w \in Runner, NEW review \in BOOLEAN, InsertArtifactRow(w, review)
      PROVE  ReviewTyped'
  <2>1. lastId' \in 0..MaxRows /\ lastId' \in Id
    BY <1>0, <1>5, ReviewAssumption DEF InsertArtifactRow, Id
  <2>2. record' \in RecordType
    BY <1>5, <2>1 DEF InsertArtifactRow, RecordType, Burned
  <2>3. runner' \in [Runner -> RunnerType]
    BY <1>0, <1>b, <1>5 DEF InsertArtifactRow
  <2>4. torn' \in BOOLEAN /\ UNCHANGED <<object, editor, prune, deleting, slips>>
    BY <1>5 DEF InsertArtifactRow
  <2>5. QED
    BY <1>0, <2>1, <2>2, <2>3, <2>4, <1>a
<1>6. CASE Expire \/ DeleteObject \/ DeleteImage
  BY <1>0, <1>6, <1>a DEF Expire, DeleteObject, DeleteImage, Servable, RecordType
<1>7. CASE SelectDue
  BY <1>0, <1>d, <1>7, <1>a DEF SelectDue
<1>8. CASE PruneObject
  BY <1>0, <1>8, <1>a DEF PruneObject
<1>9. CASE ExpireArtifact
  <2>1. prune.id \in Id /\ Absent \notin Id
    BY <1>9, ReviewAssumption DEF ExpireArtifact, Id
  <2>2. record' \in RecordType \union {Absent}
    BY <1>0, <1>9, <2>1 DEF ExpireArtifact, RowId, RecordType
  <2>3. QED
    BY <1>0, <1>b, <1>9, <2>2, <1>a DEF ExpireArtifact
<1>10. CASE UNCHANGED reviewVars
  BY <1>0, <1>10, <1>a DEF reviewVars
<1>11. QED
  BY <1>3, <1>4, <1>5, <1>6, <1>7, <1>8, <1>9, <1>10 DEF ReviewNext, RunnerStep

\* The variables of the review keep their types, however many edits overlap.
THEOREM ReviewTypeCorrect == Review => []ReviewTypeOK
<1>1. ReviewInit => ReviewTyped
  BY InitMarked DEF Marked, ReviewTyped
<1>2. ReviewTyped => ReviewTypeOK
  BY DEF ReviewTyped
<1>3. QED
  BY <1>1, <1>2, ReviewStepTyped, PTL DEF Review

-----------------------------------------------------------------------------
(* migrate-blobs (Moves)                                                   *)

Served(b) == listed[b] = "live" /\ b \notin freed

\* Runs at a time go one way; a run that is to drop an object has put it where
\* it goes, unless the server there has deleted it since; and an exact run has
\* yet to look at what its destination lacks.
Copied ==
    /\ MovesTypeOK
    /\ MovesLoseNothing
    /\ \A m \in Mover :
          /\ mover[m].pc \in {"get", "put", "drop"} => mover[m].blob \in Blob
          /\ mover[m].pc = "put" => mover[m].bytes # NoBytes
          /\ mover[m].pc # "idle" =>
                \A k \in Mover : mover[k].pc # "idle" => mover[k].dest = mover[m].dest
          /\ mover[m].pc = "drop" =>
                \/ Holds(mover[m].dest, mover[m].blob)
                \/ active = mover[m].dest /\ ~Served(mover[m].blob)
          /\ mover[m].pc # "idle" /\ mover[m].exact =>
                \A b \in Blob : Served(b) =>
                   \/ b \in mover[m].todo
                   \/ mover[m].pc \in {"get", "put"} /\ mover[m].blob = b
                   \/ Holds(mover[m].dest, b)

MoverType == [pc : {"idle", "check", "get", "put", "drop"}, dest : Backend,
              drops : BOOLEAN, todo : SUBSET Blob, blob : Blob \union {NoBytes},
              bytes : Bytes, exact : BOOLEAN]

LEMMA InitCopied == MovesInit => Copied
BY MovesAssumption DEF MovesInit, Copied, MovesTypeOK, MovesLoseNothing, Parked, Served,
   Bytes, Backend

\* A write or a deletion changes one object of one store.
LEMMA PutOne ==
    ASSUME MovesTypeOK, NEW s \in Backend, NEW b \in Blob, NEW v \in Bytes, Put(s, b, v)
    PROVE  /\ held' \in [Backend -> [Blob -> Bytes]]
           /\ \A t \in Backend, c \in Blob :
                 held'[t][c] = IF t = s /\ c = b THEN v ELSE held[t][c]
BY DEF MovesTypeOK, Put

\* The server's writes void what runs know of copies.
LEMMA TouchedAll ==
    ASSUME MovesTypeOK, Touched
    PROVE  /\ mover' \in [Mover -> MoverType] /\ whole' = {}
           /\ \A m \in Mover :
                 /\ ~mover'[m].exact
                 /\ mover'[m].pc = mover[m].pc /\ mover'[m].dest = mover[m].dest
                 /\ mover'[m].blob = mover[m].blob /\ mover'[m].bytes = mover[m].bytes
BY DEF MovesTypeOK, MoverType, Touched

LEMMA WriteCopied ==
    ASSUME Copied, NEW b \in Blob, Redact(b) \/ Rewrite(b)
    PROVE  Copied'
<1> USE MovesAssumption
<1>1. versions + 1 \in Bytes /\ versions + 1 # NoBytes /\ versions' = versions + 1
      /\ versions' \in 0..MaxVersions
  BY DEF Copied, MovesTypeOK, Bytes, Redact, Rewrite
<1>2. /\ active \in Backend /\ MovesTypeOK /\ Put(active, b, versions') /\ Touched
      /\ UNCHANGED <<active, freed>>
  BY DEF Copied, MovesTypeOK, Redact, Rewrite
<1>3. listed' \in [Blob -> {"none", "live", "due", "expired"}]
      /\ \A c \in Blob : c # b => listed'[c] = listed[c]
  BY DEF Copied, MovesTypeOK, Redact, Rewrite
<1>4. /\ held' \in [Backend -> [Blob -> Bytes]]
      /\ \A t \in Backend, c \in Blob :
            held'[t][c] = IF t = active /\ c = b THEN versions' ELSE held[t][c]
  BY <1>1, <1>2, PutOne
<1>5. /\ mover' \in [Mover -> MoverType] /\ whole' = {}
      /\ \A m \in Mover :
            /\ ~mover'[m].exact
            /\ mover'[m].pc = mover[m].pc /\ mover'[m].dest = mover[m].dest
            /\ mover'[m].blob = mover[m].blob /\ mover'[m].bytes = mover[m].bytes
  BY <1>2, TouchedAll
<1>6. MovesTypeOK'
  BY <1>1, <1>2, <1>3, <1>4, <1>5 DEF MovesTypeOK, MoverType
<1>7. MovesLoseNothing'
  BY <1>1, <1>2, <1>3, <1>4, <1>5 DEF Copied, MovesLoseNothing, Holds
<1>8. ASSUME NEW m \in Mover, mover'[m].pc = "drop"
      PROVE  \/ Holds(mover[m].dest, mover[m].blob)'
             \/ active' = mover'[m].dest /\ ~Served(mover[m].blob)'
  <2>1. mover[m].blob \in Blob /\ mover[m].dest \in Backend
    BY <1>5, <1>8 DEF Copied, MovesTypeOK
  <2>2. CASE mover[m].blob = b
    BY <1>1, <1>2, <1>4, <1>5, <1>8, <2>1, <2>2 DEF Copied, Holds, Served
  <2>3. CASE mover[m].blob # b
    BY <1>2, <1>3, <1>4, <1>5, <1>8, <2>1, <2>3 DEF Copied, Holds, Served
  <2>4. QED
    BY <2>2, <2>3
<1>9. QED
  BY <1>5, <1>6, <1>7, <1>8 DEF Copied

\* Deletions, deadlines and restarts.
LEMMA ServerCopied ==
    ASSUME Copied,
           Flip \/ \E b \in Blob : ReachTtl(b) \/ FreeObject(b) \/ FreeRow(b)
    PROVE  Copied'
<1> USE MovesAssumption
<1>1. CASE Flip
  BY <1>1 DEF Flip, Copied, MovesTypeOK, MovesLoseNothing, MoverAt, Holds, Served,
     Other, Backend
<1>2. ASSUME NEW b \in Blob, ReachTtl(b) PROVE Copied'
  <2>1. \A c \in Blob : Served(c)' => Served(c)
    BY <1>2 DEF ReachTtl, Served, Copied, MovesTypeOK
  <2>2. MovesTypeOK'
    BY <1>2 DEF ReachTtl, Copied, MovesTypeOK
  <2>3. UNCHANGED <<active, held, mover, whole>>
    BY <1>2 DEF ReachTtl
  <2>4. QED
    BY <2>1, <2>2, <2>3 DEF Copied, MovesLoseNothing, Served, Holds
<1>3. ASSUME NEW b \in Blob, FreeObject(b) PROVE Copied'
  <2>1. /\ active \in Backend /\ NoBytes \in Bytes /\ Put(active, b, NoBytes)
        /\ freed' = freed \union {b} /\ UNCHANGED <<active, listed, mover, whole, versions>>
    BY <1>3 DEF FreeObject, Copied, MovesTypeOK, Bytes
  <2>2. /\ held' \in [Backend -> [Blob -> Bytes]]
        /\ \A t \in Backend, c \in Blob :
              held'[t][c] = IF t = active /\ c = b THEN NoBytes ELSE held[t][c]
    BY <2>1, PutOne DEF Copied
  <2>3. MovesTypeOK'
    BY <2>1, <2>2 DEF Copied, MovesTypeOK
  <2>4. MovesLoseNothing'
    BY <2>1, <2>2 DEF Copied, MovesTypeOK, MovesLoseNothing, Holds
  <2>5. \A m \in Mover : mover[m].dest \in Backend
    BY DEF Copied, MovesTypeOK
  <2>6. QED
    BY <2>1, <2>2, <2>3, <2>4, <2>5 DEF Copied, Holds, Served
<1>4. ASSUME NEW b \in Blob, FreeRow(b) PROVE Copied'
  <2>1. /\ freed' = freed \ {b} /\ UNCHANGED <<active, held, mover, whole, versions>>
        /\ listed' \in [Blob -> {"none", "live", "due", "expired"}] /\ listed'[b] # "live"
        /\ \A c \in Blob : c # b => listed'[c] = listed[c]
    BY <1>4 DEF FreeRow, Copied, MovesTypeOK
  <2>2. \A c \in Blob : Served(c)' => Served(c)
    BY <2>1 DEF Served
  <2>3. MovesTypeOK'
    BY <2>1 DEF Copied, MovesTypeOK
  <2>4. QED
    BY <2>1, <2>2, <2>3 DEF Copied, MovesLoseNothing, Served, Holds
<1>5. QED
  BY <1>1, <1>2, <1>3, <1>4

\* A run's step to a place with nothing to be said of it.
LEMMA RunCopied ==
    ASSUME Copied, NEW m \in Mover, NEW r \in MoverType, mover' = [mover EXCEPT ![m] = r],
           UNCHANGED <<active, held, listed, freed, whole, versions>>,
           r.pc \in {"get", "put"} => r.blob \in Blob,
           r.pc = "put" => r.bytes # NoBytes,
           r.pc # "drop",
           r.pc # "idle" => \A k \in Mover \ {m} : mover[k].pc # "idle" => mover[k].dest = r.dest,
           r.pc # "idle" /\ r.exact => \A b \in Blob : Served(b) =>
                   b \in r.todo \/ (r.pc \in {"get", "put"} /\ r.blob = b) \/ Holds(r.dest, b)
    PROVE  Copied'
<1>1. mover' \in [Mover -> MoverType] /\ mover'[m] = r
      /\ \A k \in Mover \ {m} : mover'[k] = mover[k]
  BY DEF Copied, MovesTypeOK, MoverType
<1>2. MovesTypeOK'
  BY <1>1 DEF Copied, MovesTypeOK, MoverType
<1>3. QED
  BY <1>1, <1>2 DEF Copied, MovesLoseNothing, Holds, Served

LEMMA LookCopied ==
    ASSUME Copied, NEW m \in Mover,
           \/ \E dest \in Backend, drops \in BOOLEAN : BeginMove(m, dest, drops)
           \/ \E b \in Blob : SkipPresent(m, b) \/ TakeAbsent(m, b)
           \/ GetSource(m) \/ CountMissing(m) \/ StopMove(m)
    PROVE  Copied'
<1> USE MovesAssumption
<1>0. /\ mover \in [Mover -> MoverType] /\ mover[m] \in MoverType
      /\ mover[m].dest \in Backend /\ Source(m) \in Backend /\ mover[m].todo \subseteq Blob
  BY DEF Copied, MovesTypeOK, MoverType, Source, Other, Backend
<1>1. ASSUME NEW dest \in Backend, NEW drops \in BOOLEAN, BeginMove(m, dest, drops)
      PROVE  Copied'
  <2> DEFINE r == [Parked EXCEPT !.pc = "check", !.dest = dest, !.drops = drops,
                                 !.todo = {b \in Blob : listed[b] \in {"live", "due"}}]
  <2>1. /\ r \in MoverType /\ r.pc = "check" /\ r.dest = dest
        /\ r.todo = {b \in Blob : listed[b] \in {"live", "due"}}
    BY DEF MoverType, Parked, Backend, Bytes
  <2>2. /\ mover' = [mover EXCEPT ![m] = r]
        /\ UNCHANGED <<active, held, listed, freed, whole, versions>>
        /\ \A k \in Mover : mover[k].pc # "idle" => mover[k].dest = dest
    BY <1>1 DEF BeginMove, MoverAt
  <2> HIDE DEF r
  <2>3. QED
    BY <2>1, <2>2, RunCopied DEF Served
<1>2. ASSUME NEW b \in Blob, SkipPresent(m, b) PROVE Copied'
  <2> DEFINE r == [mover[m] EXCEPT !.todo = @ \ {b}]
  <2>1. /\ r \in MoverType /\ r.pc = "check" /\ r.dest = mover[m].dest
        /\ r.todo = mover[m].todo \ {b} /\ r.exact = mover[m].exact
        /\ mover[m].pc = "check" /\ Holds(mover[m].dest, b)
    BY <1>0, <1>2 DEF MoverType, SkipPresent, MoverAt
  <2>2. /\ mover' = [mover EXCEPT ![m] = r]
        /\ UNCHANGED <<active, held, listed, freed, whole, versions>>
    BY <1>0, <1>2 DEF SkipPresent
  <2> HIDE DEF r
  <2>3. QED
    BY <2>1, <2>2, RunCopied DEF Copied
<1>3. ASSUME NEW b \in Blob, TakeAbsent(m, b) PROVE Copied'
  <2> DEFINE r == [mover[m] EXCEPT !.todo = @ \ {b}, !.pc = "get", !.blob = b]
  <2>1. /\ r \in MoverType /\ r.pc = "get" /\ r.dest = mover[m].dest /\ r.blob = b
        /\ r.todo = mover[m].todo \ {b} /\ r.exact = mover[m].exact
        /\ mover[m].pc = "check"
    BY <1>0, <1>3 DEF MoverType, TakeAbsent, MoverAt
  <2>2. /\ mover' = [mover EXCEPT ![m] = r]
        /\ UNCHANGED <<active, held, listed, freed, whole, versions>>
    BY <1>0, <1>3 DEF TakeAbsent
  <2> HIDE DEF r
  <2>3. QED
    BY <2>1, <2>2, RunCopied DEF Copied
<1>4. CASE GetSource(m)
  <2> DEFINE r == [mover[m] EXCEPT !.pc = "put", !.bytes = held[Source(m)][mover[m].blob]]
  <2>1. mover[m].pc = "get" /\ mover[m].blob \in Blob
    BY <1>4 DEF GetSource, MoverAt, Copied
  <2>2. /\ held[Source(m)][mover[m].blob] \in Bytes
        /\ held[Source(m)][mover[m].blob] # NoBytes
    BY <1>0, <1>4, <2>1 DEF GetSource, Holds, Copied, MovesTypeOK
  <2>3. /\ r \in MoverType /\ r.pc = "put" /\ r.dest = mover[m].dest
        /\ r.blob = mover[m].blob /\ r.bytes # NoBytes
        /\ r.todo = mover[m].todo /\ r.exact = mover[m].exact
    BY <1>0, <2>2 DEF MoverType
  <2>4. /\ mover' = [mover EXCEPT ![m] = r]
        /\ UNCHANGED <<active, held, listed, freed, whole, versions>>
    BY <1>0, <1>4 DEF GetSource
  <2> HIDE DEF r
  <2>5. QED
    BY <2>1, <2>3, <2>4, RunCopied DEF Copied
<1>5. CASE CountMissing(m)
  <2> DEFINE r == [mover[m] EXCEPT !.pc = "check", !.exact = FALSE]
  <2>1. /\ r \in MoverType /\ r.pc = "check" /\ r.dest = mover[m].dest /\ ~r.exact
        /\ mover[m].pc = "get"
    BY <1>0, <1>5 DEF MoverType, CountMissing, MoverAt
  <2>2. /\ mover' = [mover EXCEPT ![m] = r]
        /\ UNCHANGED <<active, held, listed, freed, whole, versions>>
    BY <1>0, <1>5 DEF CountMissing
  <2> HIDE DEF r
  <2>3. QED
    BY <2>1, <2>2, RunCopied DEF Copied
<1>6. CASE StopMove(m)
  <2>1. Parked \in MoverType /\ Parked.pc = "idle"
    BY DEF MoverType, Parked, Backend, Bytes
  <2>2. QED
    BY <1>6, <2>1, RunCopied DEF StopMove
<1>7. QED
  BY <1>1, <1>2, <1>3, <1>4, <1>5, <1>6

\* What a run puts at its destination, where nobody but the server deletes.
LEMMA PutDestCopied == ASSUME Copied, NEW m \in Mover, PutDest(m) PROVE Copied'
<1> USE MovesAssumption
<1> DEFINE d == mover[m].dest
           b == mover[m].blob
           v == mover[m].bytes
<1>1. /\ mover[m] \in MoverType /\ mover[m].pc = "put"
      /\ d \in Backend /\ b \in Blob /\ v \in Bytes /\ v # NoBytes
  BY DEF PutDest, MoverAt, Copied, MovesTypeOK, MoverType
<1>2. /\ Put(d, b, v) /\ UNCHANGED <<active, listed, freed, whole, versions>>
      /\ mover' = [mover EXCEPT ![m].pc = IF mover[m].drops THEN "drop" ELSE "check"]
  BY DEF PutDest
<1>3. /\ mover' \in [Mover -> MoverType]
      /\ mover'[m].pc \in {"drop", "check"} /\ mover'[m].dest = d /\ mover'[m].blob = b
      /\ mover'[m].todo = mover[m].todo /\ mover'[m].exact = mover[m].exact
      /\ \A k \in Mover \ {m} : mover'[k] = mover[k]
  BY <1>1, <1>2 DEF Copied, MovesTypeOK, MoverType
<1> HIDE DEF d, b, v
<1>4. /\ held' \in [Backend -> [Blob -> Bytes]]
      /\ \A t \in Backend, c \in Blob :
            held'[t][c] = IF t = d /\ c = b THEN v ELSE held[t][c]
  BY <1>1, <1>2, PutOne DEF Copied
<1>5. \A t \in Backend, c \in Blob : Holds(t, c) => Holds(t, c)'
  BY <1>1, <1>4 DEF Holds
<1>6. MovesTypeOK'
  BY <1>2, <1>3, <1>4 DEF Copied, MovesTypeOK, MoverType
<1>7. MovesLoseNothing'
  BY <1>2, <1>5 DEF Copied, MovesTypeOK, MovesLoseNothing
<1>8. ASSUME NEW k \in Mover
      PROVE  /\ mover'[k].pc = "drop" => \/ held'[mover'[k].dest][mover'[k].blob] # NoBytes
                                         \/ active' = mover'[k].dest /\ ~Served(mover[k].blob)'
             /\ mover'[k].pc # "idle" /\ mover'[k].exact =>
                   \A c \in Blob : Served(c)' =>
                      \/ c \in mover'[k].todo
                      \/ mover'[k].pc \in {"get", "put"} /\ mover'[k].blob = c
                      \/ held'[mover'[k].dest][c] # NoBytes
  <2>1. CASE k = m
    <3>1. held'[d][b] # NoBytes
      BY <1>1, <1>4
    <3>2. \A c \in Blob : c # b /\ Served(c)' /\ mover[m].exact =>
             c \in mover[m].todo \/ held'[d][c] # NoBytes
      BY <1>1, <1>2, <1>5 DEF Copied, Served, Holds, d, b
    <3>3. QED
      BY <1>3, <2>1, <3>1, <3>2
  <2>2. CASE k # m
    <3>1. /\ mover'[k] = mover[k] /\ mover[k].dest \in Backend
          /\ mover[k].pc = "drop" => mover[k].blob \in Blob
      BY <1>3, <2>2 DEF Copied, MovesTypeOK
    <3>2. mover[k].pc = "drop" => \/ Holds(mover[k].dest, mover[k].blob)
                                  \/ active = mover[k].dest /\ ~Served(mover[k].blob)
      BY DEF Copied
    <3>3. mover[k].pc # "idle" /\ mover[k].exact =>
             \A c \in Blob : Served(c) =>
                \/ c \in mover[k].todo
                \/ mover[k].pc \in {"get", "put"} /\ mover[k].blob = c
                \/ Holds(mover[k].dest, c)
      BY DEF Copied
    <3>4. /\ active' = active
          /\ \A c \in Blob : Served(c)' <=> Served(c)
          /\ \A c \in Blob : Holds(mover[k].dest, c) => held'[mover[k].dest][c] # NoBytes
      BY <1>2, <1>5, <3>1 DEF Served, Holds
    <3>5. QED
      BY <3>1, <3>2, <3>3, <3>4 DEF Served
  <2>3. QED
    BY <2>1, <2>2
<1>9. QED
  BY <1>1, <1>3, <1>6, <1>7, <1>8 DEF Copied, Holds, Served, d, b

\* What a run drops is at its destination.
LEMMA DropCopied == ASSUME Copied, NEW m \in Mover, DropSource(m) PROVE Copied'
<1> USE MovesAssumption
<1> DEFINE s == Source(m)
           b == mover[m].blob
<1>1. /\ mover[m] \in MoverType /\ mover[m].pc = "drop" /\ mover[m].dest \in Backend
      /\ s \in Backend /\ s # mover[m].dest /\ b \in Blob /\ NoBytes \in Bytes
  BY DEF DropSource, MoverAt, Copied, MovesTypeOK, MoverType, Source, Other, Backend, Bytes
<1>2. /\ Put(s, b, NoBytes) /\ whole' = whole \ {s}
      /\ UNCHANGED <<active, listed, freed, versions>>
  BY DEF DropSource
<1>3. /\ mover' \in [Mover -> MoverType]
      /\ mover'[m].pc = "check" /\ mover'[m].exact = mover[m].exact
      /\ \A k \in Mover \ {m} : ~mover'[k].exact /\ mover'[k].pc = mover[k].pc
      /\ \A k \in Mover : /\ mover'[k].dest = mover[k].dest /\ mover'[k].blob = mover[k].blob
                          /\ mover'[k].todo = mover[k].todo /\ mover'[k].bytes = mover[k].bytes
  <2>1. mover \in [Mover -> MoverType]
    BY DEF Copied, MovesTypeOK, MoverType
  <2>2. mover' = [k \in Mover |-> IF k = m THEN [mover[k] EXCEPT !.pc = "check"]
                                          ELSE [mover[k] EXCEPT !.exact = FALSE]]
    BY DEF DropSource
  <2>3. ASSUME NEW k \in Mover
        PROVE  /\ mover'[k] \in MoverType
               /\ mover'[k].dest = mover[k].dest /\ mover'[k].blob = mover[k].blob
               /\ mover'[k].todo = mover[k].todo /\ mover'[k].bytes = mover[k].bytes
               /\ k = m => mover'[m].pc = "check" /\ mover'[m].exact = mover[m].exact
               /\ k # m => ~mover'[k].exact /\ mover'[k].pc = mover[k].pc
    <3>1. mover[k] \in MoverType
      BY <2>1
    <3>2. CASE k = m
      BY <2>2, <3>1, <3>2 DEF MoverType
    <3>3. CASE k # m
      BY <2>2, <3>1, <3>3 DEF MoverType
    <3>4. QED
      BY <3>2, <3>3
  <2>4. QED
    BY <2>2, <2>3
<1> HIDE DEF s, b
<1>4. /\ held' \in [Backend -> [Blob -> Bytes]]
      /\ \A t \in Backend, c \in Blob :
            held'[t][c] = IF t = s /\ c = b THEN NoBytes ELSE held[t][c]
  BY <1>1, <1>2, PutOne DEF Copied
<1>5. \A t \in Backend, c \in Blob : t # s => (Holds(t, c)' <=> Holds(t, c))
  BY <1>4 DEF Holds
<1>6. MovesTypeOK'
  BY <1>2, <1>3, <1>4 DEF Copied, MovesTypeOK, MoverType
<1>7. \A k \in Mover : mover[k].pc # "idle" => mover[k].dest = mover[m].dest
  BY <1>1 DEF Copied
<1>8. Served(b) => Holds(mover[m].dest, b)
  <2>1. CASE Holds(mover[m].dest, b)
    BY <2>1
  <2>2. CASE ~Served(b)
    BY <2>2
  <2>3. QED
    BY <1>1, <2>1, <2>2 DEF Copied, b
<1>9. MovesLoseNothing'
  <2>1. ASSUME NEW c \in Blob, Served(c) PROVE \E t \in Backend : Holds(t, c)'
    <3>1. CASE c = b
      BY <1>1, <1>5, <1>8, <2>1, <3>1
    <3>2. CASE c # b
      <4>1. PICK t \in Backend : Holds(t, c)
        BY <2>1 DEF Copied, MovesLoseNothing, Served
      <4>2. Holds(t, c)'
        BY <1>4, <3>2, <4>1 DEF Holds
      <4>3. QED
        BY <4>2
    <3>3. QED
      BY <3>1, <3>2
  <2>2. ASSUME NEW c \in Blob, Served(c), NEW t \in whole' PROVE Holds(t, c)'
    BY <1>2, <1>5, <2>2 DEF Copied, MovesTypeOK, MovesLoseNothing, Served
  <2>3. QED
    BY <1>2, <2>1, <2>2 DEF MovesLoseNothing, Served
<1>10. ASSUME NEW k \in Mover, mover'[k].pc = "drop"
       PROVE  \/ held'[mover'[k].dest][mover'[k].blob] # NoBytes
              \/ active' = mover'[k].dest /\ ~Served(mover[k].blob)'
  <2>1. /\ k # m /\ mover[k].pc = "drop" /\ mover[k].blob \in Blob
        /\ mover[k].dest = mover[m].dest
    BY <1>3, <1>7, <1>10 DEF Copied
  <2>2. \/ Holds(mover[k].dest, mover[k].blob)
        \/ active = mover[k].dest /\ ~Served(mover[k].blob)
    BY <2>1 DEF Copied
  <2>3. Holds(mover[k].dest, mover[k].blob) =>
           held'[mover[k].dest][mover[k].blob] # NoBytes
    BY <1>1, <1>5, <2>1 DEF Holds
  <2>4. QED
    BY <1>2, <1>3, <2>2, <2>3 DEF Served
<1>11. ASSUME mover'[m].exact, NEW c \in Blob, Served(c)
       PROVE  c \in mover'[m].todo \/ held'[mover'[m].dest][c] # NoBytes
  <2>1. c \in mover[m].todo \/ Holds(mover[m].dest, c)
    BY <1>1, <1>3, <1>11 DEF Copied
  <2>2. Holds(mover[m].dest, c) => held'[mover[m].dest][c] # NoBytes
    BY <1>1, <1>5 DEF Holds
  <2>3. QED
    BY <1>3, <2>1, <2>2
<1>12. QED
  BY <1>2, <1>3, <1>6, <1>7, <1>9, <1>10, <1>11 DEF Copied, Holds, Served

LEMMA EndCopied == ASSUME Copied, NEW m \in Mover, EndMove(m) PROVE Copied'
<1>1. /\ mover' \in [Mover -> MoverType] /\ mover'[m].pc = "idle"
      /\ \A k \in Mover \ {m} : mover'[k] = mover[k]
  BY DEF EndMove, Copied, MovesTypeOK, MoverType, Parked, Backend, Bytes
<1>2. /\ UNCHANGED <<active, held, listed, freed, versions>> /\ whole' \subseteq Backend
      /\ mover[m].pc = "check" /\ mover[m].todo = {}
      /\ \A s \in whole' : s \in whole \/ (mover[m].exact /\ s = mover[m].dest)
  BY DEF EndMove, MoverAt, Copied, MovesTypeOK
<1>3. MovesTypeOK'
  BY <1>1, <1>2 DEF Copied, MovesTypeOK, MoverType
<1>4. MovesLoseNothing'
  BY <1>2 DEF Copied, MovesLoseNothing, Served, Holds
<1>5. QED
  BY <1>1, <1>2, <1>3, <1>4 DEF Copied, Holds, Served

LEMMA StepCopied == Copied /\ [MovesNext]_movesVars => Copied'
<1> SUFFICES ASSUME Copied, [MovesNext]_movesVars PROVE Copied'
  OBVIOUS
<1>1. CASE UNCHANGED movesVars
  BY <1>1 DEF movesVars, Copied, MovesTypeOK, MovesLoseNothing, Served, Holds
<1>2. CASE Flip \/ \E b \in Blob : ReachTtl(b) \/ FreeObject(b) \/ FreeRow(b)
  BY <1>2, ServerCopied
<1>3. ASSUME NEW b \in Blob, Redact(b) \/ Rewrite(b) PROVE Copied'
  BY <1>3, WriteCopied
<1>4. ASSUME NEW m \in Mover,
             \/ \E dest \in Backend, drops \in BOOLEAN : BeginMove(m, dest, drops)
             \/ \E b \in Blob : SkipPresent(m, b) \/ TakeAbsent(m, b)
             \/ GetSource(m) \/ CountMissing(m) \/ StopMove(m)
      PROVE  Copied'
  BY <1>4, LookCopied
<1>5. ASSUME NEW m \in Mover, PutDest(m) \/ DropSource(m) \/ EndMove(m) PROVE Copied'
  BY <1>5, PutDestCopied, DropCopied, EndCopied
<1>6. QED
  BY <1>1, <1>2, <1>3, <1>4, <1>5 DEF MovesNext

\* The inductive invariant of the copies, types included.
THEOREM CopiedHolds == Moves => []Copied
BY InitCopied, StepCopied, PTL DEF Moves

\* No run takes the last copy of what is still to be served, wherever it dies, and
\* an exact one has left all of it at its destination.
THEOREM MovesLoseNothingHolds == Moves => []MovesLoseNothing
<1>1. Copied => MovesLoseNothing
  BY DEF Copied
<1>2. QED
  BY <1>1, CopiedHolds, PTL

-----------------------------------------------------------------------------
(* Together                                                                *)

\* What the run checks is what is proved of: a behaviour of the composition is
\* one of each part, which takes its own steps or stands still.
THEOREM StoresIsItsParts == Stores => ImagesSpec /\ LabelsSpec /\ Review /\ Moves
<1>1. StoresInit => ImagesInit /\ LabelsInit /\ ReviewInit /\ MovesInit
  BY DEF StoresInit
<1>2. [StoresNext]_storesVars =>
         /\ [ImagesNext]_imagesVars /\ [LabelsNext]_labelsVars
         /\ [ReviewNext]_reviewVars /\ [MovesNext]_movesVars
  BY DEF StoresNext, storesVars
<1>3. QED
  BY <1>1, <1>2, PTL DEF Stores, ImagesSpec, LabelsSpec, Review, Moves

\* The variables of every part keep their types, in whichever part runs.
THEOREM StoresTypeCorrect == Stores => []StoresTypeOK
<1>1. Copied => MovesTypeOK
  BY DEF Copied
<1>2. ImagesTypeOK /\ LabelsTypeOK /\ ReviewTypeOK /\ MovesTypeOK => StoresTypeOK
  BY DEF StoresTypeOK
<1>3. QED
  BY <1>1, <1>2, StoresIsItsParts, ImagesTypeCorrect, LabelsTypeCorrect,
     ReviewTypeCorrect, CopiedHolds, PTL
=============================================================================
