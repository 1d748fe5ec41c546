------------------------------ MODULE Collector ------------------------------
(***************************************************************************)
(* internal/gc/collector.go: mark, retention and sweep, while clients push *)
(* and the release cloner records images.                                  *)
(*                                                                         *)
(* The collector takes no lock of the stores: every call it makes is a     *)
(* step, and pushes go on between any two of them.  Its sweep removes      *)
(* files.  Links and the manifest cache play no part in it.                *)
(***************************************************************************)
EXTENDS Integers, FiniteSets

CONSTANTS
    Repo, Tag,
    Blob,         \* digests of configs and layers
    Manifest,     \* digests of manifests
    RefsOf,       \* the config and the layers a manifest names
    ChildrenOf,   \* the manifests an index names
    KeepRecent,   \* Config.KeepRecent; 0 keeps all tags
    DryRun,
    Names,        \* bound: the names pushed to, pairs of a repository and a tag; None
                  \* for the tag is a push by digest
    MaxPushes,    \* bound: manifests recorded
    MaxTriggers,  \* bound: calls of Trigger
    MaxFaults,    \* bound: calls of a run whose reads fail
    None

Digest == Blob \cup Manifest

ASSUME ConstantsAssumption ==
    /\ Blob \cap Manifest = {}
    /\ RefsOf \in [Manifest -> SUBSET Blob]
    /\ ChildrenOf \in [Manifest -> SUBSET Manifest]
    /\ KeepRecent \in Nat
    /\ Names \subseteq Repo \X (Tag \cup {None})
    /\ DryRun \in BOOLEAN
    /\ {MaxPushes, MaxTriggers, MaxFaults} \subseteq Nat
    /\ None \notin Manifest \cup Repo \cup Tag

VARIABLES
    stored,   \* the files under blobs/
    records,  \* m:<repo>:<digest> -> CreatedAt; 0 is the zero time
    tags,     \* t:<repo>:<tag> -> digest
    repos,    \* r:<repo>
    push,     \* the push under way
    running,  \* Collector.running
    gc,       \* the goroutine in Run
    \* history
    promise,  \* what a repository can rely on: the digests of a manifest that were
              \* there when it was recorded, if no collection ran meanwhile and none
              \* has since failed to read it
    pushes, triggers, faults

db == <<records, tags, repos>>
bounds == <<pushes, triggers, faults>>
vars == <<stored, db, push, running, gc, promise, bounds>>

TagInfo == [tag : Tag, dgst : Manifest, time : 0 .. MaxPushes]

Push == [pc      : {"idle", "blobs", "record", "pull"},
         clone   : BOOLEAN,     \* by the release cloner, not by a client
         repo    : Repo \cup {None},
         tag     : Tag \cup {None},
         dgst    : Manifest \cup {None},
         todo    : SUBSET Blob,
         overlap : BOOLEAN]     \* a collection ran meanwhile
NoPush == [pc |-> "idle", clone |-> FALSE, repo |-> None, tag |-> None,
           dgst |-> None, todo |-> {}, overlap |-> FALSE]

GC == [pc         : {"idle", "list", "repo", "tags", "mark", "sweep"},
       caller     : {"schedule", "trigger", "nobody"},
       repos      : SUBSET Repo,      \* repositories to mark
       repo       : Repo \cup {None},
       tags       : SUBSET Tag,       \* tags of repo to read
       infos      : SUBSET TagInfo,   \* tagInfos
       keep       : SUBSET TagInfo,   \* those to mark
       drop       : SUBSET TagInfo,   \* those to delete
       referenced : SUBSET Digest,
       files      : SUBSET Digest]    \* places the walk has still to visit
NoGC == [pc |-> "idle", caller |-> "nobody", repos |-> {}, repo |-> None,
         tags |-> {}, infos |-> {}, keep |-> {}, drop |-> {}, referenced |-> {},
         files |-> {}]

TypeOK ==
    /\ stored \subseteq Digest
    /\ records \in [Repo -> [Manifest -> (0 .. MaxPushes) \cup {None}]]
    /\ tags \in [Repo -> [Tag -> Manifest \cup {None}]]
    /\ repos \subseteq Repo
    /\ push \in Push
    /\ running \in BOOLEAN
    /\ DOMAIN gc = DOMAIN NoGC
    /\ gc.infos \cup gc.keep \cup gc.drop \subseteq TagInfo
    /\ gc.referenced \cup gc.files \subseteq Digest
    /\ promise \in [Repo -> [Manifest -> SUBSET Digest]]
    /\ pushes \in 0 .. MaxPushes
    /\ triggers \in 0 .. MaxTriggers
    /\ faults \in 0 .. MaxFaults

Init ==
    /\ stored = {}
    /\ records = [r \in Repo |-> [m \in Manifest |-> None]]
    /\ tags = [r \in Repo |-> [t \in Tag |-> None]]
    /\ repos = {}
    /\ push = NoPush
    /\ running = FALSE
    /\ gc = NoGC
    /\ promise = [r \in Repo |-> [m \in Manifest |-> {}]]
    /\ pushes = 0
    /\ triggers = 0
    /\ faults = 0

\* GetManifest(repo, tag) finds a record.
Resolves(r, t) ==
    /\ tags[r][t] # None
    /\ records[r][tags[r][t]] # None

\* The manifests that the recursion of markManifest comes to from m: the least set with
\* m that has the manifests an index names with each index whose file is there.
Walk(m, files) ==
    {n \in Manifest : \A X \in SUBSET Manifest :
        (m \in X /\ \A x \in X \cap files : ChildrenOf[x] \subseteq X) => n \in X}

\* The files that a manifest leads to.
Contents(m) ==
    UNION {{n} \cup (RefsOf[n] \cap stored) : n \in Walk(m, stored) \cap stored}

\* As if the manifests of an index were marked and not read.
Marks_Flat(m, files) ==
    {m} \cup (IF m \in files THEN RefsOf[m] \cup ChildrenOf[m] ELSE {})

\* What markManifest marks when it can read files: a manifest, and if it can read and
\* decode its file what that names.
Marks(m, files) ==
    UNION {{n} \cup (IF n \in files THEN RefsOf[n] ELSE {}) : n \in Walk(m, files)}

-----------------------------------------------------------------------------
(* Pushes: handlePutManifest, and Clone and PullComponentImage of the cloner *)

UploadBlob(b) ==
    /\ b \notin stored
    /\ stored' = stored \cup {b}
    /\ UNCHANGED <<db, push, running, gc, promise, bounds>>

\* A component image of a release: recorded by digest, before its blobs are pulled.
Component == push.clone /\ push.tag = None

BeginPush(r, t, m, clone) ==
    /\ push = NoPush
    /\ <<r, t>> \in Names
    /\ pushes < MaxPushes
    /\ push' = [pc |-> "blobs", clone |-> clone, repo |-> r, tag |-> t, dgst |-> m,
                todo |-> IF clone /\ t = None THEN {} ELSE RefsOf[m],
                overlap |-> running]
    /\ UNCHANGED <<stored, db, running, gc, promise, bounds>>

\* The handler checks that a blob is there and refuses the manifest if not; the
\* cloner pulls it if it is not.
Push_Blob(b) ==
    /\ push.pc = "blobs"
    /\ b \in push.todo
    /\ \/ /\ push.clone \/ b \in stored
          /\ push' = [push EXCEPT !.todo = @ \ {b}]
          /\ stored' = stored \cup {b}
       \/ /\ ~ push.clone /\ b \notin stored
          /\ push' = NoPush
          /\ UNCHANGED stored
    /\ UNCHANGED <<db, running, gc, promise, bounds>>

Push_Store ==
    /\ push.pc = "blobs"
    /\ push.todo = {}
    /\ stored' = stored \cup {push.dgst}
    /\ push' = [push EXCEPT !.pc = "record"]
    /\ UNCHANGED <<db, running, gc, promise, bounds>>

\* metadata.PutManifest.  The handler leaves CreatedAt zero, the cloner sets it.  A
\* component has its blobs to come.
Push_Record ==
    LET r == push.repo
        t == push.tag
        m == push.dgst
    IN
    /\ push.pc = "record"
    /\ pushes' = pushes + 1
    /\ records' = [records EXCEPT ![r][m] = IF push.clone THEN pushes' ELSE 0]
    /\ tags' = IF t \in Tag THEN [tags EXCEPT ![r][t] = m] ELSE tags
    /\ repos' = repos \cup {r}
    /\ promise' = [promise EXCEPT ![r][m] =
                     IF push.overlap THEN {} ELSE Contents(m)]
    /\ push' = IF Component THEN [push EXCEPT !.pc = "pull", !.todo = RefsOf[m]] ELSE NoPush
    /\ UNCHANGED <<stored, running, gc, triggers, faults>>

\* syncBlobFromRepo, for each blob of a component.
Push_Pull(b) ==
    /\ push.pc = "pull"
    /\ b \in push.todo
    /\ stored' = stored \cup {b}
    /\ push' = [push EXCEPT !.todo = @ \ {b}]
    /\ UNCHANGED <<db, running, gc, promise, bounds>>

\* All is pulled, or a call fails and the push is given up.
Push_End ==
    /\ push # NoPush
    /\ push' = NoPush
    /\ UNCHANGED <<stored, db, running, gc, promise, bounds>>

-----------------------------------------------------------------------------
(* Run *)

Run(caller) ==
    /\ ~ running
    /\ running' = TRUE
    /\ gc' = [NoGC EXCEPT !.pc = "list", !.caller = caller]
    /\ push' = [push EXCEPT !.overlap = push # NoPush]
    /\ UNCHANGED <<stored, db, promise, pushes, faults>>

ScheduleLoop == Run("schedule") /\ UNCHANGED triggers

Trigger ==
    /\ triggers < MaxTriggers
    /\ triggers' = triggers + 1
    /\ Run("trigger")

\* Run returns nil because a Trigger is at work, and scheduleLoop reads the fields
\* of the result: the server crashes.  It comes up again with what is on disk.
ScheduleLoop_Panics ==
    /\ running
    /\ gc.caller = "trigger"
    /\ running' = FALSE
    /\ gc' = NoGC
    /\ push' = NoPush
    /\ UNCHANGED <<stored, db, promise, bounds>>

Fault == faults < MaxFaults /\ faults' = faults + 1

\* ListRepositories; an error leaves the marked set empty, and sweep goes ahead.
MarkPhase ==
    /\ gc.pc = "list"
    /\ \/ /\ gc' = [gc EXCEPT !.pc = "repo", !.repos = repos]
          /\ UNCHANGED <<promise, faults>>
       \/ /\ Fault
          /\ gc' = [gc EXCEPT !.pc = "repo"]
          /\ promise' = [r \in Repo |-> [m \in Manifest |-> {}]]
    /\ UNCHANGED <<stored, db, push, running, pushes, triggers>>

\* ListTags; after an error the repository is not marked.
MarkRepo(r) ==
    /\ gc.pc = "repo"
    /\ r \in gc.repos
    /\ \/ /\ gc' = [gc EXCEPT !.pc = "tags", !.repos = @ \ {r}, !.repo = r,
                              !.tags = {t \in Tag : tags[r][t] # None}]
          /\ UNCHANGED <<promise, faults>>
       \/ /\ Fault
          /\ gc' = [gc EXCEPT !.repos = @ \ {r}]
          /\ promise' = [promise EXCEPT ![r] = [m \in Manifest |-> {}]]
    /\ UNCHANGED <<stored, db, push, running, pushes, triggers>>

\* As if the error of GetManifest were ignored.
MarkRepo_Tag_NoError(t) ==
    LET r == gc.repo IN
    /\ gc.pc = "tags"
    /\ t \in gc.tags
    /\ gc' = [gc EXCEPT !.tags = @ \ {t},
                        !.infos = @ \cup {[tag |-> t, dgst |-> tags[r][t],
                                           time |-> records[r][tags[r][t]]]}]
    /\ UNCHANGED <<stored, db, push, running, promise, bounds>>

\* A call of the run could not read manifest m of its repository, and passed over it.
Unread(m) ==
    /\ Fault
    /\ promise' = [promise EXCEPT ![gc.repo] =
                     [n \in Manifest |-> IF n = m THEN {} ELSE promise[gc.repo][n]]]

\* GetManifest of one tag; a tag without a record, or whose read fails, is passed over.
MarkRepo_Tag(t) ==
    LET r == gc.repo IN
    /\ gc.pc = "tags"
    /\ t \in gc.tags
    /\ \/ /\ gc' = [gc EXCEPT !.tags = @ \ {t},
                              !.infos = IF Resolves(r, t)
                                        THEN @ \cup {[tag |-> t, dgst |-> tags[r][t],
                                                      time |-> records[r][tags[r][t]]]}
                                        ELSE @]
          /\ UNCHANGED <<promise, faults>>
       \/ /\ Unread(tags[r][t])
          /\ gc' = [gc EXCEPT !.tags = @ \ {t}]
    /\ UNCHANGED <<stored, db, push, running, pushes, triggers>>

\* Newest first; sort.Slice puts equal times in any order.
MarkRepo_Sort ==
    LET n == Cardinality(gc.infos)
        keepCount == IF KeepRecent > 0 /\ n > KeepRecent THEN KeepRecent ELSE n
    IN
    /\ gc.pc = "tags"
    /\ gc.tags = {}
    /\ \E keep \in SUBSET gc.infos :
          /\ Cardinality(keep) = keepCount
          /\ \A i \in keep, j \in gc.infos \ keep : i.time >= j.time
          /\ gc' = [gc EXCEPT !.pc = "mark", !.infos = {}, !.keep = keep,
                              !.drop = gc.infos \ keep]
    /\ UNCHANGED <<stored, db, push, running, promise, bounds>>

\* markManifest; it passes over a file that it cannot read or decode, and over all that
\* the file leads to.
MarkManifest(i) ==
    /\ gc.pc = "mark"
    /\ i \in gc.keep
    /\ \E bad \in SUBSET (stored \cap Manifest) :
          /\ \/ bad = {} /\ UNCHANGED <<promise, faults>>
             \/ bad # {} /\ Unread(i.dgst)
          /\ gc' = [gc EXCEPT !.keep = @ \ {i},
                              !.referenced = @ \cup Marks(i.dgst, stored \ bad)]
    /\ UNCHANGED <<stored, db, push, running, pushes, triggers>>

\* DeleteManifest(repo, tag) of an old tag: the tag as it is by now, and the record
\* of its manifest, whoever else is tagged with it.
MarkRepo_Drop(i) ==
    LET r == gc.repo
        m == tags[r][i.tag]
        deletes == ~ DryRun /\ m # None
    IN
    /\ gc.pc = "mark"
    /\ gc.keep = {}
    /\ i \in gc.drop
    /\ gc' = [gc EXCEPT !.drop = @ \ {i}]
    /\ tags' = IF deletes THEN [tags EXCEPT ![r][i.tag] = None] ELSE tags
    /\ records' = IF deletes THEN [records EXCEPT ![r][m] = None] ELSE records
    /\ promise' = IF deletes THEN [promise EXCEPT ![r][m] = {}] ELSE promise
    /\ UNCHANGED <<stored, repos, push, running, bounds>>

MarkRepo_End ==
    /\ gc.pc = "mark"
    /\ gc.keep \cup gc.drop = {}
    /\ gc' = [gc EXCEPT !.pc = "repo", !.repo = None]
    /\ UNCHANGED <<stored, db, push, running, promise, bounds>>

SweepPhase ==
    /\ gc.pc = "repo"
    /\ gc.repos = {}
    /\ gc' = [gc EXCEPT !.pc = "sweep", !.files = Digest]
    /\ UNCHANGED <<stored, db, push, running, promise, bounds>>

\* The walk comes to the place of d, and removes its file by name.
Sweep_File(d) ==
    /\ gc.pc = "sweep"
    /\ d \in gc.files
    /\ stored' = IF d \in gc.referenced \/ DryRun THEN stored ELSE stored \ {d}
    /\ gc' = [gc EXCEPT !.files = @ \ {d}]
    /\ UNCHANGED <<db, push, running, promise, bounds>>

\* As if Run had no deferred function.
Run_End_Running ==
    /\ gc.pc = "sweep"
    /\ gc.files = {}
    /\ gc' = NoGC
    /\ UNCHANGED <<running, stored, db, push, promise, bounds>>

\* Run is over; its deferred function clears running.
Run_End ==
    /\ gc.pc = "sweep"
    /\ gc.files = {}
    /\ gc' = NoGC
    /\ running' = FALSE
    /\ UNCHANGED <<stored, db, push, promise, bounds>>

-----------------------------------------------------------------------------
Pushes ==
    \/ \E b \in Blob : UploadBlob(b) \/ Push_Blob(b) \/ Push_Pull(b)
    \/ \E r \in Repo, t \in Tag \cup {None}, m \in Manifest, clone \in BOOLEAN :
          BeginPush(r, t, m, clone)
    \/ Push_Store
    \/ Push_Record
    \/ Push_End

\* The steps of a run.
Collect ==
    \/ MarkPhase
    \/ \E r \in Repo : MarkRepo(r)
    \/ \E t \in Tag : MarkRepo_Tag(t)
    \/ MarkRepo_Sort
    \/ \E i \in gc.keep : MarkManifest(i)
    \/ \E i \in gc.drop : MarkRepo_Drop(i)
    \/ MarkRepo_End
    \/ SweepPhase
    \/ \E d \in Digest : Sweep_File(d)
    \/ Run_End

Next == Pushes \/ ScheduleLoop \/ Trigger \/ ScheduleLoop_Panics \/ Collect

\* Every day scheduleLoop starts a run, and a run goes on to its end.
Spec ==
    /\ Init
    /\ [][Next]_vars
    /\ WF_vars(ScheduleLoop)
    /\ WF_vars(Collect)

-----------------------------------------------------------------------------
(* Properties *)

\* A collection takes nothing from a tagged image that it could read and that nobody was
\* pushing while it ran: what a tag that resolves could rely on when it was recorded is
\* still there.  A push that overlaps a run relies on nothing, nor does an image of which
\* the run failed to list the repository, to read the tag or to read a manifest, all of
\* which it passes over and sweeps (markPhase, markRepo, markManifest and sweepPhase).
CollectedSafely ==
    \A r \in Repo, t \in Tag :
        Resolves(r, t) => promise[r][tags[r][t]] \subseteq stored

\* The files that some tag leads to.
Reachable ==
    UNION {IF Resolves(n[1], n[2]) THEN Contents(tags[n[1]][n[2]]) ELSE {} :
             n \in Names \cap (Repo \X Tag)}

\* Garbage goes: no file stays for ever that no tag leads to, though runs fail half
\* way and crash ("Remove unused blobs on schedule"; scheduleLoop, sweepPhase).
GarbageGoes == \A d \in Digest : []<>~ (d \in stored \ Reachable)
=============================================================================
