--------------------------- MODULE CollectorProofs ---------------------------
(***************************************************************************)
(* TypeOK and CollectedSafely for every set of repositories, tags, blobs   *)
(* and manifests, for indexes nested to any depth, for every retention     *)
(* count and with or without DryRun.                                       *)
(*                                                                         *)
(* Between two steps of a run, a tag that resolves is in one of the places *)
(* that the run keeps it: in a repository still to come, among the tags    *)
(* still to read, among those read and not yet marked or deleted; or what  *)
(* its image can rely on is marked.  A push that meets a run relies on     *)
(* nothing, so the tags it moves are not the run's business, and nor are   *)
(* the images that the run fails to read.                                  *)
(***************************************************************************)
EXTENDS Collector, TLAPS

\* The files of the set X that a manifest leads to through files of X.
ContentsIn(m, X) ==
    UNION {{n} \cup (RefsOf[n] \cap X) : n \in Walk(m, X) \cap X}

Typed ==
    /\ stored \subseteq Digest
    /\ records \in [Repo -> [Manifest -> (0 .. MaxPushes) \cup {None}]]
    /\ tags \in [Repo -> [Tag -> Manifest \cup {None}]]
    /\ repos \subseteq Repo
    /\ push \in Push
    /\ running \in BOOLEAN
    /\ gc \in GC
    /\ promise \in [Repo -> [Manifest -> SUBSET Digest]]
    /\ pushes \in 0 .. MaxPushes
    /\ triggers \in 0 .. MaxTriggers
    /\ faults \in 0 .. MaxFaults

\* A push under way has a repository, a manifest and, until it is recorded, a number to
\* take, and it knows of a run.
PushInv ==
    /\ push.pc = "idle" => push = NoPush
    /\ push.pc # "idle" => /\ push.repo \in Repo
                           /\ push.dgst \in Manifest
                           /\ running => push.overlap
    /\ push.pc \in {"blobs", "record"} => pushes < MaxPushes

\* What each phase of a run has left behind.
PhaseInv ==
    /\ gc.pc = "idle" <=> ~ running
    /\ gc.pc \in {"tags", "mark"} => gc.repo \in Repo
    /\ gc.pc \notin {"tags", "mark"} => gc.repo = None
    /\ gc.pc = "mark" => gc.tags = {} /\ gc.infos = {}
    /\ gc.pc # "mark" => gc.keep = {} /\ gc.drop = {}
    /\ gc.pc = "sweep" => gc.repos = {}

\* What a manifest can rely on is enough to reach all of it from the manifest, and
\* ListRepositories finds its repository.
PromiseInv ==
    \A r \in Repo, m \in Manifest :
        /\ promise[r][m] \subseteq ContentsIn(m, promise[r][m])
        /\ promise[r][m] # {} => r \in repos

\* The run has tag t of repository r before it, in hand, or marked.
Accounted(r, t) ==
    \/ r \in gc.repos
    \/ r = gc.repo /\ t \in gc.tags
    \/ /\ r = gc.repo
       /\ \E i \in gc.infos \cup gc.keep \cup gc.drop : i.tag = t /\ i.dgst = tags[r][t]
    \/ promise[r][tags[r][t]] \subseteq gc.referenced

MarkInv ==
    ~ DryRun /\ gc.pc \in {"repo", "tags", "mark", "sweep"} =>
        \A r \in Repo, t \in Tag : Resolves(r, t) => Accounted(r, t)

IInv == Typed /\ PushInv /\ PhaseInv /\ PromiseInv /\ CollectedSafely /\ MarkInv

-----------------------------------------------------------------------------
(* What markManifest comes to *)

\* A manifest comes to itself, and from an index whose file is there to the manifests
\* that it names.
LEMMA WalkClosed ==
    ASSUME NEW m \in Manifest, NEW X
    PROVE  /\ m \in Walk(m, X)
           /\ Walk(m, X) \subseteq Manifest
           /\ \A n \in Walk(m, X) \cap X : ChildrenOf[n] \subseteq Walk(m, X)
BY ConstantsAssumption DEF Walk

\* More files lead to no fewer manifests.
LEMMA WalkMonotone ==
    ASSUME NEW m \in Manifest, NEW X, NEW Y, X \subseteq Y
    PROVE  Walk(m, X) \subseteq Walk(m, Y)
BY DEF Walk

\* Nor to fewer files.
LEMMA ContentsMonotone ==
    ASSUME NEW m \in Manifest, NEW X, NEW Y, X \subseteq Y
    PROVE  ContentsIn(m, X) \subseteq ContentsIn(m, Y)
<1>1. Walk(m, X) \subseteq Walk(m, Y)
    BY WalkMonotone
<1>2. QED
    BY <1>1 DEF ContentsIn

\* The files that a manifest leads to are files of the set.
LEMMA ContentsThere ==
    ASSUME NEW m \in Manifest, NEW X
    PROVE  ContentsIn(m, X) \subseteq X
BY DEF ContentsIn

\* The way from a manifest to what it leads to goes over what it leads to: with these
\* files and no others, it leads to the same.
LEMMA ContentsSupported ==
    ASSUME NEW m \in Manifest, NEW X
    PROVE  ContentsIn(m, X) \subseteq ContentsIn(m, ContentsIn(m, X))
<1> DEFINE C == ContentsIn(m, X)
           W == Walk(m, X)
<1>1. W \cap X \subseteq C
    BY DEF ContentsIn
<1>2. ASSUME NEW n \in W
      PROVE  n \in Walk(m, C)
    <2>1. n \in Manifest
        BY WalkClosed
    <2>2. ASSUME NEW Y \in SUBSET Manifest,
                 m \in Y /\ \A x \in Y \cap C : ChildrenOf[x] \subseteq Y
          PROVE  n \in Y
        <3> DEFINE Z == Y \cap W
        <3>1. m \in Z
            BY <2>2, WalkClosed
        <3>2. \A x \in Z \cap X : ChildrenOf[x] \subseteq Z
            BY <1>1, <2>2, WalkClosed
        <3>3. Z \in SUBSET Manifest
            OBVIOUS
        <3> HIDE DEF Z
        <3>4. n \in Z
            BY <1>2, <3>1, <3>2, <3>3 DEF Walk
        <3>5. QED
            BY <3>4 DEF Z
    <2>3. QED
        BY <2>1, <2>2 DEF Walk
<1>3. ASSUME NEW d \in C
      PROVE  d \in ContentsIn(m, C)
    <2>1. PICK n \in W \cap X : d \in {n} \cup (RefsOf[n] \cap X)
        BY <1>3 DEF ContentsIn
    <2>2. n \in Walk(m, C) \cap C
        BY <1>1, <1>2
    <2>3. d \in {n} \cup (RefsOf[n] \cap C)
        BY <2>1
    <2> HIDE DEF C, W
    <2>4. QED
        BY <2>2, <2>3 DEF ContentsIn
<1>4. QED
    BY <1>3

\* markManifest marks digests, and every file that its manifest leads to through those
\* it can read.
LEMMA MarksContents ==
    ASSUME NEW m \in Manifest, NEW X
    PROVE  /\ Marks(m, X) \subseteq Digest
           /\ ContentsIn(m, X) \subseteq Marks(m, X)
<1>1. Walk(m, X) \subseteq Manifest
    BY WalkClosed
<1>2. Marks(m, X) \subseteq Digest
    BY <1>1, ConstantsAssumption DEF Marks, Digest
<1>3. ASSUME NEW d \in ContentsIn(m, X)
      PROVE  d \in Marks(m, X)
    <2>1. PICK n \in Walk(m, X) \cap X : d \in {n} \cup (RefsOf[n] \cap X)
        BY <1>3 DEF ContentsIn
    <2>2. QED
        BY <2>1 DEF Marks
<1>4. QED
    BY <1>2, <1>3

\* The invariant is stronger than TypeOK.
LEMMA TypedTypeOK == Typed => TypeOK
<1> SUFFICES ASSUME Typed PROVE TypeOK
    OBVIOUS
<1>1. gc \in GC
    BY DEF Typed
<1>2. DOMAIN gc = DOMAIN NoGC
    BY <1>1 DEF GC, NoGC
<1>3. /\ gc.infos \cup gc.keep \cup gc.drop \subseteq TagInfo
      /\ gc.referenced \cup gc.files \subseteq Digest
    BY <1>1 DEF GC
<1>4. QED
    BY <1>2, <1>3 DEF Typed, TypeOK

\* Nothing is stored, recorded or running at the start.
LEMMA InitIInv == Init => IInv
<1> SUFFICES ASSUME Init PROVE IInv
    OBVIOUS
<1> USE DEF Init
<1>1. NoPush \in Push /\ NoGC \in GC
    BY DEF NoPush, Push, NoGC, GC
<1>2. Typed
    <2>1. 0 \in 0 .. MaxPushes /\ 0 \in 0 .. MaxTriggers /\ 0 \in 0 .. MaxFaults
        BY ConstantsAssumption
    <2>2. QED
        BY <1>1, <2>1 DEF Typed
<1>3. PushInv /\ PhaseInv
    BY DEF PushInv, PhaseInv, NoPush, NoGC
<1>4. PromiseInv
    BY DEF PromiseInv
<1>5. CollectedSafely
    BY DEF CollectedSafely, Resolves
<1>6. MarkInv
    BY DEF MarkInv, NoGC
<1>7. QED
    BY <1>2, <1>3, <1>4, <1>5, <1>6 DEF IInv

-----------------------------------------------------------------------------
(* Pushes *)

\* A step that removes no file and leaves the metadata store alone.
LEMMA FilesAdded ==
    ASSUME IInv, stored \subseteq stored', UNCHANGED <<db, gc, promise>>
    PROVE  PromiseInv' /\ CollectedSafely' /\ MarkInv'
<1> USE DEF IInv, db
<1>1. PromiseInv'
    BY DEF PromiseInv
<1>2. CollectedSafely'
    BY DEF CollectedSafely, Resolves
<1>3. MarkInv'
    BY DEF MarkInv, Resolves, Accounted
<1>4. QED
    BY <1>1, <1>2, <1>3

\* UploadBlob preserves the invariant.
LEMMA UploadBlobKeeps ==
    ASSUME IInv, NEW b \in Blob, UploadBlob(b)
    PROVE  IInv'
<1> USE DEF UploadBlob
<1>1. Typed' /\ PushInv' /\ PhaseInv'
    BY DEF IInv, Typed, PushInv, PhaseInv, db, bounds, Digest
<1>2. PromiseInv' /\ CollectedSafely' /\ MarkInv'
    BY FilesAdded
<1>3. QED
    BY <1>1, <1>2 DEF IInv

\* BeginPush preserves the invariant: the push knows whether a run is going on.
LEMMA BeginPushKeeps ==
    ASSUME IInv, NEW r \in Repo, NEW t \in Tag \cup {None}, NEW m \in Manifest,
           NEW clone \in BOOLEAN, BeginPush(r, t, m, clone)
    PROVE  IInv'
<1> USE DEF BeginPush
<1>1. RefsOf[m] \in SUBSET Blob
    BY ConstantsAssumption
<1>2. push' \in Push
    BY <1>1 DEF Push, IInv, Typed
<1>3. Typed'
    BY <1>2 DEF IInv, Typed, db, bounds
<1>4. PushInv' /\ PhaseInv'
    BY DEF IInv, PushInv, PhaseInv, bounds
<1>5. PromiseInv' /\ CollectedSafely' /\ MarkInv'
    BY FilesAdded
<1>6. QED
    BY <1>3, <1>4, <1>5 DEF IInv

\* Push_Blob preserves the invariant: a blob comes or the push is refused.
LEMMA PushBlobKeeps ==
    ASSUME IInv, NEW b \in Blob, Push_Blob(b)
    PROVE  IInv'
<1> USE DEF Push_Blob
<1>1. push \in Push /\ NoPush \in Push
    BY DEF IInv, Typed, NoPush, Push
<1>2. push' \in Push /\ (push' = NoPush \/ push' = [push EXCEPT !.todo = @ \ {b}])
    BY <1>1 DEF Push
<1>3. stored \subseteq stored' /\ stored' \subseteq Digest
    BY DEF IInv, Typed, Digest
<1>4. Typed'
    BY <1>2, <1>3 DEF IInv, Typed, db, bounds
<1>5. PushInv'
    <2>1. CASE push' = NoPush
        BY <2>1 DEF PushInv, NoPush
    <2>2. CASE push' = [push EXCEPT !.todo = @ \ {b}]
        BY <2>2, <1>1 DEF IInv, PushInv, Push, bounds
    <2>3. QED
        BY <1>2, <2>1, <2>2
<1>6. PhaseInv'
    BY DEF IInv, PhaseInv
<1>7. PromiseInv' /\ CollectedSafely' /\ MarkInv'
    BY <1>3, FilesAdded
<1>8. QED
    BY <1>4, <1>5, <1>6, <1>7 DEF IInv

\* Push_Store preserves the invariant.
LEMMA PushStoreKeeps ==
    ASSUME IInv, Push_Store
    PROVE  IInv'
<1> USE DEF Push_Store
<1>1. push \in Push
    BY DEF IInv, Typed
<1>2. push' \in Push
    BY <1>1 DEF Push
<1>3. push.dgst \in Digest
    BY DEF IInv, PushInv, Digest
<1>4. Typed'
    BY <1>2, <1>3 DEF IInv, Typed, db, bounds
<1>5. PushInv'
    BY <1>1 DEF IInv, PushInv, Push, bounds
<1>6. PhaseInv'
    BY DEF IInv, PhaseInv
<1>7. PromiseInv' /\ CollectedSafely' /\ MarkInv'
    BY FilesAdded
<1>8. QED
    BY <1>4, <1>5, <1>6, <1>7 DEF IInv

\* Push_Record preserves the invariant: what it promises is there, and if a run goes on
\* it promises nothing.
LEMMA PushRecordKeeps ==
    ASSUME IInv, Push_Record
    PROVE  IInv'
<1> DEFINE r == push.repo
           t == push.tag
           m == push.dgst
           P == IF push.overlap THEN {} ELSE Contents(m)
           T == IF push.clone THEN pushes + 1 ELSE 0
           q == IF Component THEN [push EXCEPT !.pc = "pull", !.todo = RefsOf[m]] ELSE NoPush
<1>1. push \in Push /\ push.pc = "record"
    BY DEF Push_Record, IInv, Typed
<1>2. r \in Repo /\ m \in Manifest /\ pushes < MaxPushes
    BY <1>1 DEF IInv, PushInv
<1>3. running => push.overlap
    BY <1>1 DEF IInv, PushInv
<1>4. /\ pushes' = pushes + 1
      /\ records' = [records EXCEPT ![r][m] = T]
      /\ tags' = IF t \in Tag THEN [tags EXCEPT ![r][t] = m] ELSE tags
      /\ repos' = repos \cup {r}
      /\ promise' = [promise EXCEPT ![r][m] = P]
      /\ push' = q
      /\ UNCHANGED <<stored, running, gc, triggers, faults>>
    BY DEF Push_Record
<1>5. Contents(m) = ContentsIn(m, stored)
    BY DEF Contents, ContentsIn
<1>6. P \subseteq stored
    BY <1>2, <1>5, ContentsThere
<1>7. P \subseteq ContentsIn(m, P)
    <2>1. CASE push.overlap
        BY <2>1
    <2>2. CASE ~ push.overlap
        BY <2>2, <1>2, <1>5, ContentsSupported
    <2>3. QED
        BY <2>1, <2>2
<1>8. running => P = {}
    BY <1>3
<1>9. T \in 0 .. MaxPushes /\ pushes + 1 \in 0 .. MaxPushes
    BY <1>2, ConstantsAssumption DEF IInv, Typed
<1>q. /\ q \in Push
      /\ q.pc = "idle" => q = NoPush
      /\ q.pc # "idle" => q.repo = r /\ q.dgst = m /\ q.overlap = push.overlap
      /\ q.pc \notin {"blobs", "record"}
    <2>1. RefsOf[m] \in SUBSET Blob
        BY <1>2, ConstantsAssumption
    <2>2. CASE Component
        BY <1>1, <2>1, <2>2 DEF Push
    <2>3. CASE ~ Component
        BY <2>3 DEF NoPush, Push
    <2>4. QED
        BY <2>2, <2>3
<1> HIDE DEF r, t, m, P, T, q
<1>10. /\ \A s \in Repo, n \in Manifest :
             promise'[s][n] = IF s = r /\ n = m THEN P ELSE promise[s][n]
       /\ \A s \in Repo, n \in Manifest :
             records'[s][n] = IF s = r /\ n = m THEN T ELSE records[s][n]
       /\ \A s \in Repo, u \in Tag :
             tags'[s][u] = IF s = r /\ u = t THEN m ELSE tags[s][u]
    BY <1>2, <1>4 DEF IInv, Typed
<1>11. Typed'
    <2>1. promise' \in [Repo -> [Manifest -> SUBSET Digest]]
        BY <1>2, <1>4, <1>6 DEF IInv, Typed
    <2>2. records' \in [Repo -> [Manifest -> (0 .. MaxPushes) \cup {None}]]
        BY <1>2, <1>4, <1>9 DEF IInv, Typed
    <2>3. tags' \in [Repo -> [Tag -> Manifest \cup {None}]]
        BY <1>2, <1>4 DEF IInv, Typed
    <2>4. push' \in Push
        BY <1>4, <1>q
    <2>5. QED
        BY <1>2, <1>4, <1>9, <2>1, <2>2, <2>3, <2>4 DEF IInv, Typed
<1>12. PushInv' /\ PhaseInv'
    BY <1>2, <1>3, <1>4, <1>q DEF IInv, PushInv, PhaseInv
<1>13. PromiseInv'
    BY <1>2, <1>4, <1>7, <1>10 DEF IInv, PromiseInv
<1>14. ASSUME NEW s \in Repo, NEW u \in Tag, Resolves(s, u)'
       PROVE  \/ Resolves(s, u) /\ tags'[s][u] = tags[s][u]
                   /\ promise'[s][tags'[s][u]] = promise[s][tags[s][u]]
              \/ promise'[s][tags'[s][u]] = P
    <2>1. tags'[s][u] \in Manifest /\ records'[s][tags'[s][u]] # None
        BY <1>14, <1>11 DEF Resolves, Typed
    <2>2. CASE s = r /\ tags'[s][u] = m
        BY <2>1, <2>2, <1>10
    <2>3. CASE ~ (s = r /\ tags'[s][u] = m)
        BY <2>1, <2>3, <1>2, <1>10, ConstantsAssumption DEF Resolves
    <2>4. QED
        BY <2>2, <2>3
<1>15. CollectedSafely'
    BY <1>4, <1>6, <1>14 DEF IInv, CollectedSafely
<1>16. MarkInv'
    <2> SUFFICES ASSUME ~ DryRun, gc.pc \in {"repo", "tags", "mark", "sweep"},
                        NEW s \in Repo, NEW u \in Tag, Resolves(s, u)'
                 PROVE  Accounted(s, u)'
        BY <1>4 DEF MarkInv
    <2>1. running
        BY DEF IInv, PhaseInv
    <2>2. CASE promise'[s][tags'[s][u]] = P
        BY <2>1, <2>2, <1>8 DEF Accounted
    <2>3. CASE /\ Resolves(s, u) /\ tags'[s][u] = tags[s][u]
               /\ promise'[s][tags'[s][u]] = promise[s][tags[s][u]]
        <3>1. Accounted(s, u)
            BY <2>3 DEF IInv, MarkInv
        <3>2. QED
            BY <2>3, <3>1, <1>4 DEF Accounted
    <2>4. QED
        BY <1>14, <2>2, <2>3
<1>17. QED
    BY <1>11, <1>12, <1>13, <1>15, <1>16 DEF IInv

\* Push_Pull preserves the invariant.
LEMMA PushPullKeeps ==
    ASSUME IInv, NEW b \in Blob, Push_Pull(b)
    PROVE  IInv'
<1> USE DEF Push_Pull
<1>1. push \in Push
    BY DEF IInv, Typed
<1>2. push' \in Push
    BY <1>1 DEF Push
<1>3. Typed'
    BY <1>2 DEF IInv, Typed, db, bounds, Digest
<1>4. PushInv' /\ PhaseInv'
    BY <1>1 DEF IInv, PushInv, PhaseInv, Push, bounds
<1>5. PromiseInv' /\ CollectedSafely' /\ MarkInv'
    BY FilesAdded
<1>6. QED
    BY <1>3, <1>4, <1>5 DEF IInv

\* Push_End preserves the invariant.
LEMMA PushEndKeeps ==
    ASSUME IInv, Push_End
    PROVE  IInv'
<1> USE DEF Push_End
<1>1. push' \in Push
    BY DEF NoPush, Push
<1>2. Typed'
    BY <1>1 DEF IInv, Typed, db, bounds
<1>3. PushInv' /\ PhaseInv'
    BY DEF IInv, PushInv, PhaseInv, NoPush
<1>4. PromiseInv' /\ CollectedSafely' /\ MarkInv'
    BY FilesAdded
<1>5. QED
    BY <1>2, <1>3, <1>4 DEF IInv

-----------------------------------------------------------------------------
(* Runs *)

\* A step of a run that touches nothing but its own state and accounts for every tag
\* that it accounted for.
LEMMA RunGoesOn ==
    ASSUME IInv, gc' \in GC, PhaseInv', UNCHANGED <<stored, db, push, running, promise, bounds>>,
           MarkInv'
    PROVE  IInv'
<1> USE DEF db, bounds
<1>1. Typed'
    BY DEF IInv, Typed
<1>2. PushInv'
    BY DEF IInv, PushInv
<1>3. PromiseInv'
    BY DEF IInv, PromiseInv
<1>4. CollectedSafely'
    BY DEF IInv, CollectedSafely, Resolves
<1>5. QED
    BY <1>1, <1>2, <1>3, <1>4 DEF IInv

\* The start of a run preserves the invariant: every push under way is told of it.
LEMMA RunKeeps ==
    ASSUME IInv, NEW caller \in {"schedule", "trigger"}, Run(caller),
           triggers' \in 0 .. MaxTriggers
    PROVE  IInv'
<1> USE DEF Run, db
<1>1. push \in Push
    BY DEF IInv, Typed
<1>2. push' \in Push
    BY <1>1 DEF Push
<1>3. /\ gc' \in GC /\ gc'.pc = "list" /\ gc'.repo = None
      /\ gc'.keep = {} /\ gc'.drop = {}
    BY DEF NoGC, GC
<1>4. Typed'
    BY <1>2, <1>3 DEF IInv, Typed
<1>5. PushInv'
    <2>1. CASE push = NoPush
        BY <2>1 DEF NoPush, PushInv
    <2>2. CASE push # NoPush
        <3>1. push.pc # "idle"
            BY <2>2 DEF IInv, PushInv
        <3>2. QED
            BY <1>1, <2>2, <3>1 DEF IInv, PushInv, Push
    <2>3. QED
        BY <2>1, <2>2
<1>6. PhaseInv'
    BY <1>3 DEF PhaseInv
<1>7. PromiseInv' /\ CollectedSafely'
    BY DEF IInv, PromiseInv, CollectedSafely, Resolves
<1>8. MarkInv'
    BY <1>3 DEF MarkInv
<1>9. QED
    BY <1>4, <1>5, <1>6, <1>7, <1>8 DEF IInv

\* The crash of the server preserves the invariant.
LEMMA PanicKeeps ==
    ASSUME IInv, ScheduleLoop_Panics
    PROVE  IInv'
<1> USE DEF ScheduleLoop_Panics, db, bounds
<1>1. push' \in Push /\ gc' \in GC
    BY DEF NoPush, Push, NoGC, GC
<1>2. Typed'
    BY <1>1 DEF IInv, Typed
<1>3. PushInv' /\ PhaseInv' /\ MarkInv'
    BY DEF PushInv, PhaseInv, MarkInv, NoPush, NoGC
<1>4. PromiseInv' /\ CollectedSafely'
    BY DEF IInv, PromiseInv, CollectedSafely, Resolves
<1>5. QED
    BY <1>2, <1>3, <1>4 DEF IInv

\* MarkPhase preserves the invariant: the list has every repository with a promise, and
\* if it cannot be had nobody relies on anything.
LEMMA MarkPhaseKeeps ==
    ASSUME IInv, MarkPhase
    PROVE  IInv'
<1> USE DEF db
<1>1. gc \in GC /\ gc.pc = "list" /\ repos \subseteq Repo
    BY DEF IInv, Typed, MarkPhase
<1>2. UNCHANGED <<stored, db, push, running, pushes, triggers>>
    BY DEF MarkPhase
<1>3. PushInv'
    BY <1>2 DEF IInv, PushInv
<1>4. CASE gc' = [gc EXCEPT !.pc = "repo", !.repos = repos] /\ UNCHANGED <<promise, faults>>
    <2>1. /\ gc' \in GC /\ gc'.pc = "repo" /\ gc'.repos = repos /\ gc'.repo = gc.repo
          /\ gc'.keep = gc.keep /\ gc'.drop = gc.drop
        BY <1>1, <1>4 DEF GC
    <2>2. PhaseInv'
        BY <1>1, <1>2, <2>1 DEF IInv, PhaseInv
    <2>3. MarkInv'
        <3> SUFFICES ASSUME NEW r \in Repo, NEW t \in Tag, Resolves(r, t)
                     PROVE  Accounted(r, t)'
            BY <1>2 DEF MarkInv, Resolves
        <3>1. tags[r][t] \in Manifest
            BY DEF Resolves, IInv, Typed
        <3>2. promise[r][tags[r][t]] = {} \/ r \in repos
            BY <3>1 DEF IInv, PromiseInv
        <3>3. QED
            BY <3>2, <1>2, <1>4, <2>1 DEF Accounted
    <2>4. QED
        BY <1>2, <1>4, <2>1, <2>2, <2>3, RunGoesOn DEF bounds
<1>5. CASE /\ Fault /\ gc' = [gc EXCEPT !.pc = "repo"]
           /\ promise' = [r \in Repo |-> [m \in Manifest |-> {}]]
    <2>1. /\ gc' \in GC /\ gc'.pc = "repo" /\ gc'.repo = gc.repo
          /\ gc'.keep = gc.keep /\ gc'.drop = gc.drop
        BY <1>1, <1>5 DEF GC
    <2>2. Typed'
        <3>1. promise' \in [Repo -> [Manifest -> SUBSET Digest]]
            BY <1>5
        <3>2. faults' \in 0 .. MaxFaults
            BY <1>5, ConstantsAssumption DEF IInv, Typed, Fault
        <3>3. QED
            BY <1>2, <2>1, <3>1, <3>2 DEF IInv, Typed
    <2>3. PhaseInv'
        BY <1>1, <1>2, <2>1 DEF IInv, PhaseInv
    <2>4. PromiseInv'
        BY <1>5 DEF PromiseInv
    <2>5. \A r \in Repo, t \in Tag : Resolves(r, t)' => promise'[r][tags'[r][t]] = {}
        BY <1>5, <2>2 DEF Resolves, Typed
    <2>6. CollectedSafely' /\ MarkInv'
        BY <2>5 DEF CollectedSafely, MarkInv, Accounted
    <2>7. QED
        BY <1>3, <2>2, <2>3, <2>4, <2>6 DEF IInv
<1>6. QED
    BY <1>4, <1>5 DEF MarkPhase

\* MarkRepo preserves the invariant: the repository's tags are all to be read, and if
\* they cannot be listed its images rely on nothing.
LEMMA MarkRepoKeeps ==
    ASSUME IInv, NEW r \in Repo, MarkRepo(r)
    PROVE  IInv'
<1> USE DEF db
<1>1. gc \in GC /\ gc.pc = "repo"
    BY DEF IInv, Typed, MarkRepo
<1>2. UNCHANGED <<stored, db, push, running, pushes, triggers>>
    BY DEF MarkRepo
<1>3. PushInv'
    BY <1>2 DEF IInv, PushInv
<1>4. gc.repo = None /\ gc.repo \notin Repo /\ running
    BY <1>1, ConstantsAssumption DEF IInv, PhaseInv
<1>5. CASE /\ gc' = [gc EXCEPT !.pc = "tags", !.repos = @ \ {r}, !.repo = r,
                               !.tags = {t \in Tag : tags[r][t] # None}]
           /\ UNCHANGED <<promise, faults>>
    <2>1. gc' \in GC
        BY <1>1, <1>5 DEF GC
    <2>2. /\ gc'.pc = "tags" /\ gc'.repos = gc.repos \ {r} /\ gc'.repo = r
          /\ gc'.tags = {t \in Tag : tags[r][t] # None}
          /\ gc'.keep = gc.keep /\ gc'.drop = gc.drop /\ gc'.referenced = gc.referenced
        BY <1>1, <1>5 DEF GC
    <2>3. PhaseInv'
        BY <1>1, <1>2, <1>4, <2>2 DEF IInv, PhaseInv
    <2>4. MarkInv'
        <3> SUFFICES ASSUME ~ DryRun, NEW s \in Repo, NEW t \in Tag, Resolves(s, t)
                     PROVE  Accounted(s, t)'
            BY <1>2 DEF MarkInv, Resolves
        <3>1. \/ s \in gc.repos
              \/ promise[s][tags[s][t]] \subseteq gc.referenced
            BY <1>1, <1>4 DEF IInv, MarkInv, Accounted
        <3>2. CASE s = r
            BY <3>2, <2>2 DEF Accounted, Resolves
        <3>3. CASE s # r
            BY <3>1, <3>3, <1>2, <1>5, <2>2 DEF Accounted
        <3>4. QED
            BY <3>2, <3>3
    <2>5. QED
        BY <1>2, <1>5, <2>1, <2>3, <2>4, RunGoesOn DEF bounds
<1>6. CASE /\ Fault /\ gc' = [gc EXCEPT !.repos = @ \ {r}]
           /\ promise' = [promise EXCEPT ![r] = [m \in Manifest |-> {}]]
    <2>1. gc' \in GC
        BY <1>1, <1>6 DEF GC
    <2>2. /\ gc'.pc = "repo" /\ gc'.repos = gc.repos \ {r} /\ gc'.repo = gc.repo
          /\ gc'.keep = gc.keep /\ gc'.drop = gc.drop /\ gc'.referenced = gc.referenced
        BY <1>1, <1>6 DEF GC
    <2>3. \A s \in Repo, m \in Manifest :
             promise'[s][m] = IF s = r THEN {} ELSE promise[s][m]
        BY <1>6 DEF IInv, Typed
    <2>4. Typed'
        <3>1. promise' \in [Repo -> [Manifest -> SUBSET Digest]]
            BY <1>6 DEF IInv, Typed
        <3>2. faults' \in 0 .. MaxFaults
            BY <1>6, ConstantsAssumption DEF IInv, Typed, Fault
        <3>3. QED
            BY <1>2, <2>1, <3>1, <3>2 DEF IInv, Typed
    <2>5. PhaseInv'
        BY <1>1, <1>2, <1>4, <2>2 DEF IInv, PhaseInv
    <2>6. PromiseInv'
        BY <1>2, <2>3 DEF IInv, PromiseInv
    <2>7. ASSUME NEW s \in Repo, NEW t \in Tag, Resolves(s, t)'
          PROVE  /\ promise'[s][tags'[s][t]] \subseteq stored
                 /\ ~ DryRun => Accounted(s, t)'
        <3>1. Resolves(s, t) /\ tags[s][t] \in Manifest
            BY <1>2, <2>7 DEF Resolves, IInv, Typed
        <3>2. CASE s = r
            <4>1. promise'[s][tags'[s][t]] = {}
                BY <1>2, <2>3, <3>1, <3>2
            <4>2. QED
                BY <4>1 DEF Accounted
        <3>3. CASE s # r
            <4>1. promise'[s][tags'[s][t]] = promise[s][tags[s][t]]
                BY <1>2, <2>3, <3>1, <3>3
            <4>2. promise[s][tags[s][t]] \subseteq stored
                BY <3>1 DEF IInv, CollectedSafely
            <4>3. ASSUME ~ DryRun
                  PROVE  s \in gc.repos \/ promise[s][tags[s][t]] \subseteq gc.referenced
                BY <4>3, <1>1, <1>4, <3>1 DEF IInv, MarkInv, Accounted
            <4>4. QED
                BY <3>3, <4>1, <4>2, <4>3, <2>2 DEF Accounted
        <3>4. QED
            BY <3>2, <3>3
    <2>8. CollectedSafely' /\ MarkInv'
        BY <1>2, <2>7 DEF CollectedSafely, MarkInv
    <2>9. QED
        BY <1>3, <2>4, <2>5, <2>6, <2>8 DEF IInv
<1>7. QED
    BY <1>5, <1>6 DEF MarkRepo

\* A run that could not read a manifest of its repository voids the promise of that one
\* and of no other.
LEMMA UnreadPromise ==
    ASSUME IInv, NEW m, Unread(m), gc.repo \in Repo
    PROVE  /\ promise' \in [Repo -> [Manifest -> SUBSET Digest]]
           /\ \A s \in Repo, n \in Manifest :
                 promise'[s][n] = IF s = gc.repo /\ n = m THEN {} ELSE promise[s][n]
           /\ faults' \in 0 .. MaxFaults
<1>1. promise \in [Repo -> [Manifest -> SUBSET Digest]]
    BY DEF IInv, Typed
<1>2. promise' = [promise EXCEPT ![gc.repo] =
                    [n \in Manifest |-> IF n = m THEN {} ELSE promise[gc.repo][n]]]
    BY DEF Unread
<1>3. faults' \in 0 .. MaxFaults
    BY ConstantsAssumption DEF IInv, Typed, Unread, Fault
<1>4. QED
    BY <1>1, <1>2, <1>3

\* A step that could not read manifest m, and accounts for every tag of another one.
LEMMA PassedOver ==
    ASSUME IInv, NEW m, Unread(m), gc.repo \in Repo, gc' \in GC, PhaseInv',
           UNCHANGED <<stored, db, push, running, pushes, triggers>>,
           \A s \in Repo, u \in Tag :
              /\ ~ DryRun
              /\ Resolves(s, u)
              /\ ~ (s = gc.repo /\ tags[s][u] = m)
              /\ promise'[s][tags[s][u]] = promise[s][tags[s][u]]
              => Accounted(s, u)'
    PROVE  IInv'
<1> USE DEF db
<1>1. /\ promise' \in [Repo -> [Manifest -> SUBSET Digest]]
      /\ \A s \in Repo, n \in Manifest :
            promise'[s][n] = IF s = gc.repo /\ n = m THEN {} ELSE promise[s][n]
      /\ faults' \in 0 .. MaxFaults
    BY UnreadPromise
<1>2. Typed'
    BY <1>1 DEF IInv, Typed
<1>3. PushInv'
    BY DEF IInv, PushInv
<1>4. PromiseInv'
    BY <1>1 DEF IInv, PromiseInv
<1>5. ASSUME NEW s \in Repo, NEW u \in Tag, Resolves(s, u)'
      PROVE  /\ promise'[s][tags'[s][u]] \subseteq stored
             /\ ~ DryRun => Accounted(s, u)'
    <2>1. Resolves(s, u) /\ tags[s][u] \in Manifest
        BY <1>5 DEF Resolves, IInv, Typed
    <2>2. CASE s = gc.repo /\ tags[s][u] = m
        <3>1. promise'[s][tags'[s][u]] = {}
            BY <1>1, <2>1, <2>2
        <3>2. QED
            BY <3>1 DEF Accounted
    <2>3. CASE ~ (s = gc.repo /\ tags[s][u] = m)
        <3>1. promise'[s][tags'[s][u]] = promise[s][tags[s][u]]
            BY <1>1, <2>1, <2>3
        <3>2. promise[s][tags[s][u]] \subseteq stored
            BY <2>1 DEF IInv, CollectedSafely
        <3>3. QED
            BY <2>1, <2>3, <3>1, <3>2
    <2>4. QED
        BY <2>2, <2>3
<1>6. CollectedSafely' /\ MarkInv'
    BY <1>5 DEF CollectedSafely, MarkInv
<1>7. QED
    BY <1>2, <1>3, <1>4, <1>6 DEF IInv

\* MarkRepo_Tag preserves the invariant: a tag that resolves is read as it is, and if it
\* cannot be read its image relies on nothing.
LEMMA MarkRepoTagKeeps ==
    ASSUME IInv, NEW t \in Tag, MarkRepo_Tag(t)
    PROVE  IInv'
<1> DEFINE r == gc.repo
           new == IF Resolves(r, t)
                  THEN {[tag |-> t, dgst |-> tags[r][t], time |-> records[r][tags[r][t]]]}
                  ELSE {}
<1>1. gc \in GC /\ gc.pc = "tags" /\ r \in Repo /\ running
    BY DEF IInv, Typed, PhaseInv, MarkRepo_Tag
<1>2. UNCHANGED <<stored, db, push, running, pushes, triggers>>
    BY DEF MarkRepo_Tag
<1>3. new \subseteq TagInfo
    <2> SUFFICES ASSUME Resolves(r, t)
                 PROVE  [tag |-> t, dgst |-> tags[r][t],
                         time |-> records[r][tags[r][t]]] \in TagInfo
        OBVIOUS
    <2>1. tags[r][t] \in Manifest
        BY <1>1 DEF Resolves, IInv, Typed
    <2>2. records[r][tags[r][t]] \in 0 .. MaxPushes
        BY <1>1, <2>1 DEF Resolves, IInv, Typed
    <2>3. QED
        BY <2>1, <2>2 DEF TagInfo
<1>4. Resolves(r, t) => \E i \in new : i.tag = t /\ i.dgst = tags[r][t]
    OBVIOUS
<1>5. \/ gc' = [gc EXCEPT !.tags = @ \ {t}, !.infos = @ \cup new] /\ UNCHANGED <<promise, faults>>
      \/ gc' = [gc EXCEPT !.tags = @ \ {t}] /\ Unread(tags[r][t])
    BY <1>1 DEF MarkRepo_Tag, GC
<1> HIDE DEF new
<1>6. CASE gc' = [gc EXCEPT !.tags = @ \ {t}, !.infos = @ \cup new] /\ UNCHANGED <<promise, faults>>
    <2>1. gc' \in GC
        BY <1>1, <1>3, <1>6 DEF GC
    <2>2. /\ gc'.pc = "tags" /\ gc'.repos = gc.repos /\ gc'.repo = r
          /\ gc'.tags = gc.tags \ {t} /\ gc'.infos = gc.infos \cup new
          /\ gc'.keep = gc.keep /\ gc'.drop = gc.drop /\ gc'.referenced = gc.referenced
        BY <1>1, <1>6 DEF GC
    <2>3. PhaseInv'
        BY <1>1, <1>2, <2>2 DEF IInv, PhaseInv
    <2>4. MarkInv'
        <3> SUFFICES ASSUME ~ DryRun, NEW s \in Repo, NEW u \in Tag, Resolves(s, u)
                     PROVE  Accounted(s, u)'
            BY <1>2 DEF MarkInv, Resolves, db
        <3>1. Accounted(s, u)
            BY <1>1 DEF IInv, MarkInv
        <3>2. CASE s = r /\ u = t
            BY <3>2, <1>2, <1>4, <2>2 DEF Accounted, db
        <3>3. CASE ~ (s = r /\ u = t)
            BY <3>1, <3>3, <1>2, <1>6, <2>2 DEF Accounted, db
        <3>4. QED
            BY <3>2, <3>3
    <2>5. QED
        BY <1>2, <1>6, <2>1, <2>3, <2>4, RunGoesOn DEF bounds
<1>7. CASE gc' = [gc EXCEPT !.tags = @ \ {t}] /\ Unread(tags[r][t])
    <2>1. gc' \in GC
        BY <1>1, <1>7 DEF GC
    <2>2. /\ gc'.pc = "tags" /\ gc'.repos = gc.repos /\ gc'.repo = r
          /\ gc'.tags = gc.tags \ {t} /\ gc'.infos = gc.infos
          /\ gc'.keep = gc.keep /\ gc'.drop = gc.drop /\ gc'.referenced = gc.referenced
        BY <1>1, <1>7 DEF GC
    <2>3. PhaseInv'
        BY <1>1, <1>2, <2>2 DEF IInv, PhaseInv
    <2>4. ASSUME NEW s \in Repo, NEW u \in Tag, ~ DryRun, Resolves(s, u),
                 ~ (s = r /\ tags[s][u] = tags[r][t]),
                 promise'[s][tags[s][u]] = promise[s][tags[s][u]]
          PROVE  Accounted(s, u)'
        <3>1. Accounted(s, u)
            BY <1>1, <2>4 DEF IInv, MarkInv
        <3>2. QED
            BY <3>1, <2>4, <1>2, <2>2 DEF Accounted, db
    <2>5. QED
        BY <1>1, <1>2, <1>7, <2>1, <2>3, <2>4, PassedOver
<1>8. QED
    BY <1>5, <1>6, <1>7

\* MarkRepo_Sort preserves the invariant: every tag that was read is kept or dropped.
LEMMA MarkRepoSortKeeps ==
    ASSUME IInv, MarkRepo_Sort
    PROVE  IInv'
<1>1. /\ gc \in GC /\ gc.pc = "tags" /\ gc.tags = {} /\ gc.repo \in Repo /\ running
      /\ gc.keep = {} /\ gc.drop = {}
    BY DEF IInv, Typed, PhaseInv, MarkRepo_Sort
<1>2. PICK keep \in SUBSET gc.infos :
         gc' = [gc EXCEPT !.pc = "mark", !.infos = {}, !.keep = keep,
                          !.drop = gc.infos \ keep]
    BY DEF MarkRepo_Sort
<1>3. UNCHANGED <<stored, db, push, running, promise, bounds>>
    BY DEF MarkRepo_Sort
<1>4. gc' \in GC
    BY <1>1, <1>2 DEF GC
<1>5. /\ gc'.pc = "mark" /\ gc'.repos = gc.repos /\ gc'.repo = gc.repo
      /\ gc'.tags = {} /\ gc'.infos = {} /\ gc'.keep = keep
      /\ gc'.drop = gc.infos \ keep /\ gc'.referenced = gc.referenced
    BY <1>1, <1>2 DEF GC
<1>6. PhaseInv'
    BY <1>1, <1>3, <1>5 DEF PhaseInv
<1>7. MarkInv'
    <2> SUFFICES ASSUME ~ DryRun, NEW s \in Repo, NEW u \in Tag, Resolves(s, u)
                 PROVE  Accounted(s, u)'
        BY <1>3 DEF MarkInv, Resolves, db
    <2>1. Accounted(s, u)
        BY <1>1 DEF IInv, MarkInv
    <2>2. QED
        BY <2>1, <1>1, <1>3, <1>5 DEF Accounted, db
<1>8. QED
    BY <1>3, <1>4, <1>6, <1>7, RunGoesOn

\* MarkManifest preserves the invariant: it marks all that an image can rely on, for
\* that is there and leads from the manifest to all of it, or the image relies on nothing.
LEMMA MarkManifestKeeps ==
    ASSUME IInv, NEW i \in gc.keep, MarkManifest(i)
    PROVE  IInv'
<1>1. gc \in GC /\ gc.pc = "mark" /\ gc.repo \in Repo /\ running
    BY DEF IInv, Typed, PhaseInv, MarkManifest
<1>2. PICK bad \in SUBSET (stored \cap Manifest) :
         /\ \/ bad = {} /\ UNCHANGED <<promise, faults>>
            \/ bad # {} /\ Unread(i.dgst)
         /\ gc' = [gc EXCEPT !.keep = @ \ {i},
                             !.referenced = @ \cup Marks(i.dgst, stored \ bad)]
    BY DEF MarkManifest
<1> DEFINE M == Marks(i.dgst, stored \ bad)
<1>3. UNCHANGED <<stored, db, push, running, pushes, triggers>>
    BY DEF MarkManifest
<1>4. i.dgst \in Manifest /\ i \in TagInfo
    BY <1>1 DEF GC, TagInfo
<1>5. M \subseteq Digest /\ ContentsIn(i.dgst, stored \ bad) \subseteq M
    BY <1>4, MarksContents
<1>6. gc' = [gc EXCEPT !.keep = @ \ {i}, !.referenced = @ \cup M]
    BY <1>2
<1> HIDE DEF M
<1>7. gc' \in GC
    BY <1>1, <1>5, <1>6 DEF GC
<1>8. /\ gc'.pc = "mark" /\ gc'.repos = gc.repos /\ gc'.repo = gc.repo
      /\ gc'.tags = gc.tags /\ gc'.infos = gc.infos /\ gc'.keep = gc.keep \ {i}
      /\ gc'.drop = gc.drop /\ gc'.referenced = gc.referenced \cup M
    BY <1>1, <1>6 DEF GC
<1>9. PhaseInv'
    BY <1>1, <1>3, <1>8 DEF IInv, PhaseInv
<1>10. ASSUME NEW s \in Repo, NEW u \in Tag, ~ DryRun, Resolves(s, u),
              ~ (s = gc.repo /\ tags[s][u] = i.dgst),
              promise'[s][tags[s][u]] = promise[s][tags[s][u]]
       PROVE  Accounted(s, u)'
    <2>1. Accounted(s, u)
        BY <1>1, <1>10 DEF IInv, MarkInv
    <2>2. QED
        BY <2>1, <1>10, <1>3, <1>8 DEF Accounted, db
<1>11. CASE bad = {} /\ UNCHANGED <<promise, faults>>
    <2>1. MarkInv'
        <3> SUFFICES ASSUME ~ DryRun, NEW s \in Repo, NEW u \in Tag, Resolves(s, u)
                     PROVE  Accounted(s, u)'
            BY <1>3 DEF MarkInv, Resolves, db
        <3>1. CASE s = gc.repo /\ tags[s][u] = i.dgst
            <4> DEFINE P == promise[s][i.dgst]
            <4>1. P \subseteq stored
                BY <3>1 DEF IInv, CollectedSafely
            <4>2. P \subseteq ContentsIn(i.dgst, P)
                BY <1>4 DEF IInv, PromiseInv
            <4>3. ContentsIn(i.dgst, P) \subseteq ContentsIn(i.dgst, stored)
                BY <1>4, <4>1, ContentsMonotone
            <4>4. stored \ bad = stored
                BY <1>11
            <4>5. P \subseteq M
                BY <1>5, <4>2, <4>3, <4>4
            <4>6. QED
                BY <3>1, <4>5, <1>3, <1>8, <1>11 DEF Accounted, db
        <3>2. CASE ~ (s = gc.repo /\ tags[s][u] = i.dgst)
            BY <3>2, <1>10, <1>11
        <3>3. QED
            BY <3>1, <3>2
    <2>2. QED
        BY <1>3, <1>7, <1>9, <1>11, <2>1, RunGoesOn DEF bounds
<1>12. CASE Unread(i.dgst)
    BY <1>1, <1>3, <1>7, <1>9, <1>10, <1>12, PassedOver
<1>13. QED
    BY <1>2, <1>11, <1>12

\* MarkRepo_Drop preserves the invariant: a tag of the manifest whose record goes
\* resolves no more, and the tags of other manifests are where they were.
LEMMA MarkRepoDropKeeps ==
    ASSUME IInv, NEW i \in gc.drop, MarkRepo_Drop(i)
    PROVE  IInv'
<1> DEFINE r == gc.repo
           t == i.tag
           m == tags[r][t]
           deletes == ~ DryRun /\ m # None
<1> USE DEF db, bounds
<1>1. gc \in GC /\ gc.pc = "mark" /\ r \in Repo /\ running
    BY DEF IInv, Typed, PhaseInv, MarkRepo_Drop
<1>2. gc' = [gc EXCEPT !.drop = @ \ {i}]
    BY DEF MarkRepo_Drop
<1>3. UNCHANGED <<stored, repos, push, running, bounds>>
    BY DEF MarkRepo_Drop
<1>4. t \in Tag /\ m \in Manifest \cup {None}
    BY <1>1 DEF GC, TagInfo, IInv, Typed
<1>5. gc' \in GC
    BY <1>1, <1>2 DEF GC
<1>6. /\ gc'.pc = "mark" /\ gc'.repos = gc.repos /\ gc'.repo = gc.repo
      /\ gc'.tags = gc.tags /\ gc'.infos = gc.infos /\ gc'.keep = gc.keep
      /\ gc'.drop = gc.drop \ {i} /\ gc'.referenced = gc.referenced
    BY <1>1, <1>2 DEF GC
<1>7. PushInv'
    BY <1>3 DEF IInv, PushInv
<1>8. PhaseInv'
    BY <1>1, <1>3, <1>6 DEF IInv, PhaseInv
<1>9. CASE ~ deletes
    <2>1. UNCHANGED <<tags, records, promise>>
        BY <1>9 DEF MarkRepo_Drop
    <2>2. MarkInv'
        <3> SUFFICES ASSUME ~ DryRun, NEW s \in Repo, NEW u \in Tag, Resolves(s, u)
                     PROVE  Accounted(s, u)'
            BY <2>1 DEF MarkInv, Resolves
        <3>1. Accounted(s, u)
            BY <1>1 DEF IInv, MarkInv
        <3>2. ~ (s = r /\ u = t)
            BY <1>9 DEF Resolves
        <3>3. QED
            BY <2>1, <3>1, <3>2, <1>6 DEF Accounted
    <2>3. QED
        BY <1>3, <1>5, <1>8, <2>1, <2>2, RunGoesOn
<1>10. CASE deletes
    <2>1. /\ tags' = [tags EXCEPT ![r][t] = None]
          /\ records' = [records EXCEPT ![r][m] = None]
          /\ promise' = [promise EXCEPT ![r][m] = {}]
        BY <1>10 DEF MarkRepo_Drop
    <2>2. m \in Manifest
        BY <1>4, <1>10
    <2> HIDE DEF r, t, m
    <2>3. /\ \A s \in Repo, n \in Manifest :
               promise'[s][n] = IF s = r /\ n = m THEN {} ELSE promise[s][n]
          /\ \A s \in Repo, n \in Manifest :
               records'[s][n] = IF s = r /\ n = m THEN None ELSE records[s][n]
          /\ \A s \in Repo, u \in Tag :
               tags'[s][u] = IF s = r /\ u = t THEN None ELSE tags[s][u]
        BY <1>1, <1>4, <2>1, <2>2 DEF IInv, Typed
    <2>4. Typed'
        <3>1. promise' \in [Repo -> [Manifest -> SUBSET Digest]]
            BY <1>1, <2>1, <2>2 DEF IInv, Typed
        <3>2. records' \in [Repo -> [Manifest -> (0 .. MaxPushes) \cup {None}]]
            BY <1>1, <2>1, <2>2 DEF IInv, Typed
        <3>3. tags' \in [Repo -> [Tag -> Manifest \cup {None}]]
            BY <1>1, <1>4, <2>1 DEF IInv, Typed
        <3>4. QED
            BY <1>3, <1>5, <3>1, <3>2, <3>3 DEF IInv, Typed
    <2>5. PromiseInv'
        BY <1>3, <2>3 DEF IInv, PromiseInv
    <2>6. ASSUME NEW s \in Repo, NEW u \in Tag, Resolves(s, u)'
          PROVE  /\ Resolves(s, u) /\ tags'[s][u] = tags[s][u] /\ ~ (s = r /\ u = t)
                 /\ promise'[s][tags'[s][u]] = promise[s][tags[s][u]]
        <3>1. tags'[s][u] \in Manifest /\ records'[s][tags'[s][u]] # None
            BY <2>4, <2>6 DEF Resolves, Typed
        <3>2. ~ (s = r /\ tags'[s][u] = m)
            BY <2>3, <3>1
        <3>3. ~ (s = r /\ u = t)
            BY <2>3, <3>1, ConstantsAssumption
        <3>4. QED
            BY <2>3, <3>1, <3>2, <3>3, ConstantsAssumption DEF Resolves
    <2>7. CollectedSafely'
        BY <1>3, <2>6 DEF IInv, CollectedSafely
    <2>8. MarkInv'
        <3> SUFFICES ASSUME ~ DryRun, NEW s \in Repo, NEW u \in Tag, Resolves(s, u)'
                     PROVE  Accounted(s, u)'
            BY DEF MarkInv
        <3>1. Accounted(s, u)
            BY <1>1, <2>6 DEF IInv, MarkInv
        <3>2. \A j \in gc.drop : j.tag = u /\ s = r => j \in gc.drop \ {i}
            BY <2>6 DEF t
        <3>3. QED
            BY <2>6, <3>1, <3>2, <1>6 DEF Accounted, r
    <2>9. QED
        BY <1>7, <1>8, <2>4, <2>5, <2>7, <2>8 DEF IInv
<1>11. QED
    BY <1>9, <1>10

\* MarkRepo_End preserves the invariant: nothing of the repository is left in hand.
LEMMA MarkRepoEndKeeps ==
    ASSUME IInv, MarkRepo_End
    PROVE  IInv'
<1>1. /\ gc \in GC /\ gc.pc = "mark" /\ gc.tags = {} /\ running
      /\ gc.infos \cup gc.keep \cup gc.drop = {}
    BY DEF IInv, Typed, PhaseInv, MarkRepo_End
<1>2. gc' = [gc EXCEPT !.pc = "repo", !.repo = None]
    BY DEF MarkRepo_End
<1>3. UNCHANGED <<stored, db, push, running, promise, bounds>>
    BY DEF MarkRepo_End
<1>4. gc' \in GC
    BY <1>1, <1>2 DEF GC
<1>5. /\ gc'.pc = "repo" /\ gc'.repos = gc.repos /\ gc'.repo = None
      /\ gc'.keep = gc.keep /\ gc'.drop = gc.drop /\ gc'.referenced = gc.referenced
    BY <1>1, <1>2 DEF GC
<1>6. PhaseInv'
    BY <1>1, <1>3, <1>5 DEF IInv, PhaseInv
<1>7. MarkInv'
    <2> SUFFICES ASSUME ~ DryRun, NEW s \in Repo, NEW u \in Tag, Resolves(s, u)
                 PROVE  Accounted(s, u)'
        BY <1>3 DEF MarkInv, Resolves, db
    <2>1. Accounted(s, u)
        BY <1>1 DEF IInv, MarkInv
    <2>2. QED
        BY <2>1, <1>1, <1>3, <1>5 DEF Accounted, db
<1>8. QED
    BY <1>3, <1>4, <1>6, <1>7, RunGoesOn

\* SweepPhase preserves the invariant.
LEMMA SweepPhaseKeeps ==
    ASSUME IInv, SweepPhase
    PROVE  IInv'
<1>1. gc \in GC /\ gc.pc = "repo" /\ gc.repos = {} /\ gc.repo = None /\ running
    BY DEF IInv, Typed, PhaseInv, SweepPhase
<1>2. gc' = [gc EXCEPT !.pc = "sweep", !.files = Digest]
    BY DEF SweepPhase
<1>3. UNCHANGED <<stored, db, push, running, promise, bounds>>
    BY DEF SweepPhase
<1>4. gc' \in GC
    BY <1>1, <1>2 DEF GC
<1>5. /\ gc'.pc = "sweep" /\ gc'.repos = {} /\ gc'.repo = None
      /\ gc'.keep = gc.keep /\ gc'.drop = gc.drop /\ gc'.referenced = gc.referenced
    BY <1>1, <1>2 DEF GC
<1>6. PhaseInv'
    BY <1>1, <1>3, <1>5 DEF IInv, PhaseInv
<1>7. MarkInv'
    <2> SUFFICES ASSUME ~ DryRun, NEW s \in Repo, NEW u \in Tag, Resolves(s, u)
                 PROVE  Accounted(s, u)'
        BY <1>3 DEF MarkInv, Resolves, db
    <2>1. promise[s][tags[s][u]] \subseteq gc.referenced
        BY <1>1, ConstantsAssumption DEF IInv, MarkInv, Accounted
    <2>2. QED
        BY <2>1, <1>3, <1>5 DEF Accounted, db
<1>8. QED
    BY <1>3, <1>4, <1>6, <1>7, RunGoesOn

\* Sweep_File preserves the invariant: what an image relies on is marked by now, and a
\* file that is not marked is part of no promise.
LEMMA SweepFileKeeps ==
    ASSUME IInv, NEW d \in Digest, Sweep_File(d)
    PROVE  IInv'
<1> USE DEF db, bounds
<1>1. gc \in GC /\ gc.pc = "sweep" /\ gc.repos = {} /\ gc.repo = None /\ running
    BY DEF IInv, Typed, PhaseInv, Sweep_File
<1>2. gc' = [gc EXCEPT !.files = @ \ {d}]
    BY DEF Sweep_File
<1>3. UNCHANGED <<db, push, running, promise, bounds>>
    BY DEF Sweep_File
<1>4. gc' \in GC
    BY <1>1, <1>2 DEF GC
<1>5. /\ gc'.pc = "sweep" /\ gc'.repos = {} /\ gc'.repo = None
      /\ gc'.keep = gc.keep /\ gc'.drop = gc.drop /\ gc'.referenced = gc.referenced
    BY <1>1, <1>2 DEF GC
<1>6. ASSUME NEW s \in Repo, NEW u \in Tag, Resolves(s, u), ~ DryRun
      PROVE  promise[s][tags[s][u]] \subseteq gc.referenced
    BY <1>1, <1>6, ConstantsAssumption DEF IInv, MarkInv, Accounted
<1>7. Typed'
    <2>1. stored' \subseteq Digest
        BY DEF Sweep_File, IInv, Typed
    <2>2. QED
        BY <1>3, <1>4, <2>1 DEF IInv, Typed
<1>8. PushInv'
    BY <1>3 DEF IInv, PushInv
<1>9. PhaseInv'
    BY <1>1, <1>3, <1>5 DEF IInv, PhaseInv
<1>10. PromiseInv'
    BY <1>3 DEF IInv, PromiseInv
<1>11. CollectedSafely'
    <2> SUFFICES ASSUME NEW s \in Repo, NEW u \in Tag, Resolves(s, u)
                 PROVE  promise[s][tags[s][u]] \subseteq stored'
        BY <1>3 DEF CollectedSafely, Resolves
    <2>1. promise[s][tags[s][u]] \subseteq stored
        BY DEF IInv, CollectedSafely
    <2>2. QED
        BY <1>6, <2>1 DEF Sweep_File
<1>12. MarkInv'
    <2> SUFFICES ASSUME ~ DryRun, NEW s \in Repo, NEW u \in Tag, Resolves(s, u)
                 PROVE  Accounted(s, u)'
        BY <1>3 DEF MarkInv, Resolves
    <2>1. QED
        BY <1>3, <1>5, <1>6 DEF Accounted
<1>13. QED
    BY <1>7, <1>8, <1>9, <1>10, <1>11, <1>12 DEF IInv

\* The end of a run preserves the invariant.
LEMMA RunEndKeeps ==
    ASSUME IInv, Run_End
    PROVE  IInv'
<1> USE DEF Run_End, db, bounds
<1>1. gc' \in GC
    BY DEF NoGC, GC
<1>2. Typed'
    BY <1>1 DEF IInv, Typed
<1>3. PushInv' /\ PhaseInv' /\ MarkInv'
    BY DEF IInv, PushInv, PhaseInv, MarkInv, NoGC
<1>4. PromiseInv' /\ CollectedSafely'
    BY DEF IInv, PromiseInv, CollectedSafely, Resolves
<1>5. QED
    BY <1>2, <1>3, <1>4 DEF IInv

-----------------------------------------------------------------------------
(* The theorems *)

\* Every step preserves the invariant.
LEMMA NextIInv == IInv /\ [Next]_vars => IInv'
<1> SUFFICES ASSUME IInv, [Next]_vars PROVE IInv'
    OBVIOUS
<1>1. CASE UNCHANGED vars
    <2>1. Typed' /\ PushInv' /\ PhaseInv'
        BY <1>1 DEF IInv, Typed, PushInv, PhaseInv, vars, db, bounds
    <2>2. PromiseInv' /\ CollectedSafely' /\ MarkInv'
        BY <1>1, FilesAdded DEF vars
    <2>3. QED
        BY <2>1, <2>2 DEF IInv
<1>2. CASE Pushes
    BY <1>2, UploadBlobKeeps, PushBlobKeeps, BeginPushKeeps, PushStoreKeeps,
       PushRecordKeeps, PushPullKeeps, PushEndKeeps DEF Pushes
<1>3. CASE ScheduleLoop
    <2>1. triggers' \in 0 .. MaxTriggers
        BY <1>3 DEF ScheduleLoop, IInv, Typed
    <2>2. QED
        BY <1>3, <2>1, RunKeeps DEF ScheduleLoop
<1>4. CASE Trigger
    <2>1. triggers' \in 0 .. MaxTriggers
        BY <1>4, ConstantsAssumption DEF Trigger, IInv, Typed
    <2>2. QED
        BY <1>4, <2>1, RunKeeps DEF Trigger
<1>5. CASE ScheduleLoop_Panics
    BY <1>5, PanicKeeps
<1>6. CASE Collect
    BY <1>6, MarkPhaseKeeps, MarkRepoKeeps, MarkRepoTagKeeps, MarkRepoSortKeeps,
       MarkManifestKeeps, MarkRepoDropKeeps, MarkRepoEndKeeps, SweepPhaseKeeps,
       SweepFileKeeps, RunEndKeeps DEF Collect
<1>7. QED
    BY <1>1, <1>2, <1>3, <1>4, <1>5, <1>6 DEF Next

\* The invariant holds of every reachable state.
LEMMA Invariance == Spec => []IInv
<1>1. ASSUME IInv, [Next]_vars PROVE IInv'
    BY <1>1, NextIInv
<1>2. QED
    BY <1>1, InitIInv, PTL DEF Spec

\* The stores, the push and the run's state keep their types: a tag that the run read
\* has a record with a time, and the run marks digests only.
THEOREM TypeCorrect == Spec => []TypeOK
<1>1. IInv => TypeOK
    BY TypedTypeOK DEF IInv
<1>2. QED
    BY <1>1, Invariance, PTL

\* A collection takes nothing from an image that nobody was pushing while it ran,
\* whatever pushes, failures and crashes come between its steps (markPhase, markRepo,
\* markManifest and sweepPhase).
THEOREM Collects == Spec => []CollectedSafely
<1>1. IInv => CollectedSafely
    BY DEF IInv
<1>2. QED
    BY <1>1, Invariance, PTL
=============================================================================
