-------------------------------- MODULE Sync --------------------------------
(***************************************************************************)
(* internal/sync: the scheduler (scheduler.go) and the sources it copies   *)
(* from, registry.go and quay.go, into the stores that clients delete from *)
(* meanwhile.                                                              *)
(*                                                                         *)
(* A Proc is a goroutine in runJob.  It keeps a stack of calls of syncTag, *)
(* which calls itself for the manifests of an index.  An error of syncTag  *)
(* is logged by whoever called it, who goes on: a call just returns.       *)
(* Progress counters are left out.                                         *)
(***************************************************************************)
EXTENDS Integers, FiniteSets, Sequences

CONSTANTS
    Proc, Job, Repo, Tag,
    Blob,         \* digests of configs and layers
    Manifest,     \* digests of manifests
    ConfigOf, LayersOf,
    ChildrenOf,   \* the manifests an index names
    Type,         \* SyncSource.Type: "registry" or "quay"
    Mode,         \* SyncSource.Mode: "once" or "continuous"
    Schedule,     \* SyncSource.Schedule: "none", "interval" for one that begins with */N,
                  \* "cron" for any other
    Source,       \* the registries upstream
    SourceOf,     \* SyncSource.URL
    Included,     \* the tags that IncludeTags and ExcludeTags let through
    FirstRepos, FirstTags,  \* what is on the first page of Quay's listings
    Upstream,     \* what each tag names upstream at first
    MaxTrouble,   \* bound: tags that move upstream, deletes of clients, triggers,
                  \* requests that fail, runs that time out, and crashes
    None

Digest == Blob \cup Manifest

ASSUME ConstantsAssumption ==
    /\ Blob \cap Manifest = {} /\ Tag \cap Manifest = {}
    /\ ConfigOf \in [Manifest -> Blob \cup {None}]
    /\ LayersOf \in [Manifest -> SUBSET Blob]
    /\ ChildrenOf \in [Manifest -> SUBSET Manifest]
    /\ Type \in [Job -> {"registry", "quay"}]
    /\ Mode \in [Job -> {"once", "continuous"}]
    /\ Schedule \in [Job -> {"none", "interval", "cron"}]
    /\ SourceOf \in [Job -> Source]
    /\ Included \in [Job -> SUBSET Tag]
    /\ FirstRepos \subseteq Repo /\ FirstTags \subseteq Tag
    /\ Upstream \in [Source -> [Repo -> [Tag -> Manifest]]]
    /\ MaxTrouble \in Nat
    /\ None \notin Job \cup Repo \cup Tag \cup Digest

VARIABLES
    upstream,  \* what the tags name upstream
    stored,    \* the files of the blob store
    records,   \* m:<repo>:<digest>
    tags,      \* t:<repo>:<tag> -> digest
    links,     \* br:<digest>:<repo>
    running,   \* the jobs with syncJob.running
    run,       \* the goroutines in runJob
    stopped,   \* Scheduler.ctx is cancelled
    \* history
    asked,     \* jobs for which TriggerSync returned nil and that did not run since
    dropped,   \* blobs and manifests that clients deleted and nobody stored again
    trouble    \* what the bound counts

db == <<records, tags, links>>
scheduler == <<running, run, stopped, asked>>
vars == <<upstream, stored, db, scheduler, dropped, trouble>>

\* A call of syncTag: its arguments and local variables.
Call == [pc   : {"exists", "fetch", "children", "config", "layers", "put", "link"},
         ref  : Tag \cup Manifest,
         want : Manifest \cup {None},  \* QuayTag.ManifestDigest
         dgst : Manifest \cup {None},  \* the digest of what was fetched
         todo : SUBSET Digest,         \* children or layers to do
         ok   : BOOLEAN]               \* errCh is empty

Idle == [pc |-> "idle", job |-> None, expired |-> FALSE, repos |-> {}, repo |-> None,
         tags |-> {}, wants |-> <<>>, calls |-> <<>>]

RunOK(r) ==
    /\ DOMAIN r = DOMAIN Idle
    /\ r.pc \in {"idle", "start", "list", "repos", "tags", "done"}
    /\ r.job \in Job \cup {None}
    /\ r.expired \in BOOLEAN
    /\ r.repos \subseteq Repo
    /\ r.repo \in Repo \cup {None}
    /\ r.tags \subseteq Tag
    /\ r.wants = <<>> \/ r.wants \in [Tag -> Manifest]
    /\ \A i \in DOMAIN r.calls : r.calls[i] \in Call

TypeOK ==
    /\ upstream \in [Source -> [Repo -> [Tag -> Manifest]]]
    /\ stored \subseteq Digest
    /\ records \in [Repo -> SUBSET Manifest]
    /\ tags \in [Repo -> [Tag -> Manifest \cup {None}]]
    /\ links \in [Repo -> SUBSET Digest]
    /\ running \subseteq Job
    /\ \A g \in Proc : RunOK(run[g])
    /\ stopped \in BOOLEAN
    /\ asked \subseteq Job
    /\ dropped \subseteq Digest
    /\ trouble \in 0 .. MaxTrouble

Starting(j) == [Idle EXCEPT !.pc = "start", !.job = j]

\* NewScheduler and the beginning of run, which starts the jobs of mode once.
FreshRuns(r) ==
    /\ \A g \in Proc : r[g] = Idle \/ \E j \in Job : r[g] = Starting(j)
    /\ \A j \in Job : Cardinality({g \in Proc : r[g].job = j}) =
                         IF Mode[j] = "once" THEN 1 ELSE 0

Init ==
    /\ upstream = Upstream
    /\ stored = {}
    /\ records = [r \in Repo |-> {}]
    /\ tags = [r \in Repo |-> [t \in Tag |-> None]]
    /\ links = [r \in Repo |-> {}]
    /\ running = {}
    /\ run \in [Proc -> {Idle} \cup {Starting(j) : j \in Job}]
    /\ FreshRuns(run)
    /\ stopped = FALSE
    /\ asked = {}
    /\ dropped = {}
    /\ trouble = 0

Trouble == trouble < MaxTrouble /\ trouble' = trouble + 1

\* The context of a run: it ends with the scheduler's, or after four hours.
Done(g) == stopped \/ run[g].expired

\* A request to upstream answers, or fails: it does when the context is done.
Answers(g) == ~ Done(g) /\ UNCHANGED trouble
RequestFails(g) == IF Done(g) THEN UNCHANGED trouble ELSE Trouble

\* MetadataStore.GetManifest of a tag or a digest; None if there is no record.
GetManifest(r, ref) ==
    LET d == IF ref \in Tag THEN tags[r][ref] ELSE ref IN
    IF d \in records[r] THEN d ELSE None

-----------------------------------------------------------------------------
(* The upstream registry, and clients of this one *)

Retag(s, r, t, m) ==
    /\ m # upstream[s][r][t]
    /\ upstream' = [upstream EXCEPT ![s][r][t] = m]
    /\ Trouble
    /\ UNCHANGED <<stored, db, scheduler, dropped>>

\* DELETE of a tag, and with it the record.
DeleteManifest(r, t) ==
    /\ tags[r][t] # None
    /\ Trouble
    /\ records' = [records EXCEPT ![r] = @ \ {tags[r][t]}]
    /\ tags' = [tags EXCEPT ![r][t] = None]
    /\ UNCHANGED <<upstream, stored, links, scheduler, dropped>>

\* DELETE of a blob in a repository; the file goes if that was the last link.
DeleteBlob(r, b) ==
    /\ b \in stored
    /\ Trouble
    /\ links' = [links EXCEPT ![r] = @ \ {b}]
    /\ IF \A q \in Repo : b \notin links'[q]
       THEN stored' = stored \ {b} /\ dropped' = dropped \cup {b}
       ELSE UNCHANGED <<stored, dropped>>
    /\ UNCHANGED <<upstream, records, tags, scheduler>>

-----------------------------------------------------------------------------
(* Scheduler *)

Set(g, r) == run' = [run EXCEPT ![g] = r]

\* shouldRun: of all schedules only */N fires, when N minutes have passed since lastRun.
\* At a given tick they have or have not.
ShouldRun(j) == Schedule[j] = "interval"

\* A tick.  checkJobs reads job.running and job.lastRun without the lock: it may see
\* values of the past, and start a job that is running.
CheckJobs(j, g) ==
    /\ ~ stopped
    /\ Mode[j] = "continuous"
    /\ ShouldRun(j)
    /\ run[g] = Idle
    /\ Set(g, Starting(j))
    /\ UNCHANGED <<upstream, stored, db, running, stopped, asked, dropped, trouble>>

\* As if TriggerSync did not look whether the job is running.
TriggerSync_Always(j, g) ==
    /\ run[g] = Idle
    /\ Trouble
    /\ Set(g, Starting(j))
    /\ asked' = asked \cup {j}
    /\ UNCHANGED <<upstream, stored, db, running, stopped, dropped>>

TriggerSync(j, g) ==
    /\ j \notin running
    /\ run[g] = Idle
    /\ Trouble
    /\ Set(g, Starting(j))
    /\ asked' = asked \cup {j}
    /\ UNCHANGED <<upstream, stored, db, running, stopped, dropped>>

\* As if runJob relied on the check of its caller.
RunJob_NoCheck(g) ==
    /\ run[g].pc = "start"
    /\ Set(g, [run[g] EXCEPT !.pc = "list"])
    /\ running' = running \cup {run[g].job}
    /\ asked' = asked \ {run[g].job}
    /\ UNCHANGED <<upstream, stored, db, stopped, dropped, trouble>>

\* The check and the set are under the lock.
RunJob(g) ==
    LET j == run[g].job IN
    /\ run[g].pc = "start"
    /\ \/ /\ j \in running
          /\ Set(g, Idle)
          /\ UNCHANGED <<running, asked>>
       \/ /\ j \notin running
          /\ Set(g, [run[g] EXCEPT !.pc = "list"])
          /\ running' = running \cup {j}
          /\ asked' = asked \ {j}
    /\ UNCHANGED <<upstream, stored, db, stopped, dropped, trouble>>

\* The catalog of a registry, page by page; an error ends the run.
ListRepositories_Registry(g) ==
    /\ run[g].pc = "list"
    /\ Type[run[g].job] = "registry"
    /\ \/ Answers(g) /\ Set(g, [run[g] EXCEPT !.pc = "repos", !.repos = Repo])
       \/ RequestFails(g) /\ Set(g, [run[g] EXCEPT !.pc = "done"])
    /\ UNCHANGED <<upstream, stored, db, running, stopped, asked, dropped>>

\* The organizations of Quay, one page of each; those that cannot be listed are passed
\* over.
ListRepositories_Quay(g) ==
    /\ run[g].pc = "list"
    /\ Type[run[g].job] = "quay"
    /\ \/ Answers(g) /\ Set(g, [run[g] EXCEPT !.pc = "repos", !.repos = FirstRepos])
       \/ /\ RequestFails(g)
          /\ \E rs \in (SUBSET FirstRepos) \ {FirstRepos} :
                Set(g, [run[g] EXCEPT !.pc = "repos", !.repos = rs])
    /\ UNCHANGED <<upstream, stored, db, running, stopped, asked, dropped>>

\* The tags that a job lists and lets through.  A registry is asked page by page, Quay
\* for one page.
ListTags(j) == Included[j] \cap (IF Type[j] = "quay" THEN FirstTags ELSE Tag)

\* Quay's listing tells the digests that the tags name; a registry's does not.
ManifestDigests(j, r) == IF Type[j] = "quay" THEN upstream[SourceOf[j]][r] ELSE <<>>

\* The tags of a repository are listed and filtered.
SyncRepository(g, r) ==
    LET j == run[g].job
        listed == [run[g] EXCEPT !.repos = @ \ {r}]
    IN
    /\ run[g].pc = "repos"
    /\ ~ Done(g)
    /\ r \in run[g].repos
    /\ \/ /\ Answers(g)
          /\ Set(g, [listed EXCEPT
                       !.pc = "tags", !.repo = r, !.tags = ListTags(j),
                       !.wants = ManifestDigests(j, r)])
       \/ /\ RequestFails(g)
          /\ Set(g, listed)
    /\ UNCHANGED <<upstream, stored, db, running, stopped, asked, dropped>>

RunJob_Done(g) ==
    /\ run[g].pc = "repos"
    /\ run[g].repos = {} \/ Done(g)
    /\ Set(g, [run[g] EXCEPT !.pc = "done"])
    /\ UNCHANGED <<upstream, stored, db, running, stopped, asked, dropped, trouble>>

\* The deferred function of runJob.
RunJob_Return(g) ==
    /\ run[g].pc = "done"
    /\ running' = running \ {run[g].job}
    /\ Set(g, Idle)
    /\ UNCHANGED <<upstream, stored, db, stopped, asked, dropped, trouble>>

Expire(g) ==
    /\ run[g].pc \notin {"idle", "start"}
    /\ ~ run[g].expired
    /\ Trouble
    /\ Set(g, [run[g] EXCEPT !.expired = TRUE])
    /\ UNCHANGED <<upstream, stored, db, running, stopped, asked, dropped>>

Stop ==
    /\ ~ stopped
    /\ stopped' = TRUE
    /\ UNCHANGED <<upstream, stored, db, running, run, asked, dropped, trouble>>

\* The server comes up again, and Start starts the jobs of mode once.
Crash ==
    /\ Trouble
    /\ running' = {}
    /\ run' \in [Proc -> {Idle} \cup {Starting(j) : j \in Job}]
    /\ FreshRuns(run')
    /\ stopped' = FALSE
    /\ asked' = {}
    /\ UNCHANGED <<upstream, stored, db, dropped>>

-----------------------------------------------------------------------------
(* syncTag *)

Top(g) == run[g].calls[Len(run[g].calls)]
InCall(g, pc) == run[g].calls # <<>> /\ Top(g).pc = pc

\* The call on top becomes c, returns, or calls another.
Becomes(g, c) == Set(g, [run[g] EXCEPT !.calls[Len(run[g].calls)] = c])
Returns(g) == Set(g, [run[g] EXCEPT !.calls = SubSeq(@, 1, Len(@) - 1)])

\* Quay looks for the digest of the listing before it fetches, a registry fetches
\* and then looks.
NewCall(g, ref, want) ==
    [pc |-> IF Type[run[g].job] = "quay" THEN "exists" ELSE "fetch",
     ref |-> ref, want |-> want, dgst |-> None, todo |-> {}, ok |-> TRUE]

SyncRepository_Tag(g, t) ==
    /\ run[g].pc = "tags"
    /\ run[g].calls = <<>>
    /\ t \in run[g].tags
    /\ ~ Done(g)
    /\ Set(g, [run[g] EXCEPT
                 !.tags = @ \ {t},
                 !.calls = <<NewCall(g, t, IF run[g].wants = <<>> THEN None
                                           ELSE run[g].wants[t])>>])
    /\ UNCHANGED <<upstream, stored, db, running, stopped, asked, dropped, trouble>>

SyncRepository_Return(g) ==
    /\ run[g].pc = "tags"
    /\ run[g].calls = <<>>
    /\ run[g].tags = {} \/ Done(g)
    /\ Set(g, [run[g] EXCEPT !.pc = "repos", !.repo = None, !.tags = {},
                              !.wants = <<>>])
    /\ UNCHANGED <<upstream, stored, db, running, stopped, asked, dropped, trouble>>

\* What upstream sends for the reference.
Fetched(g) ==
    LET ref == Top(g).ref IN
    IF ref \in Tag THEN upstream[SourceOf[run[g].job]][run[g].repo][ref] ELSE ref

FetchManifest(g) ==
    LET c == Top(g)
        next == IF Type[run[g].job] = "quay" THEN "config" ELSE "exists"
    IN
    /\ InCall(g, "fetch")
    /\ \/ Answers(g) /\ Becomes(g, [c EXCEPT !.pc = next, !.dgst = Fetched(g)])
       \/ RequestFails(g) /\ Returns(g)
    /\ UNCHANGED <<upstream, stored, db, running, stopped, asked, dropped>>

\* As if any manifest under the tag were the one upstream has.
Exists_Any(g) ==
    LET c == Top(g)
        quay == Type[run[g].job] = "quay"
    IN
    /\ InCall(g, "exists")
    /\ IF GetManifest(run[g].repo, c.ref) # None
       THEN Returns(g)
       ELSE Becomes(g, IF quay THEN [c EXCEPT !.pc = "fetch"]
                       ELSE [c EXCEPT !.pc = "children", !.todo = ChildrenOf[c.dgst]])
    /\ UNCHANGED <<upstream, stored, db, running, stopped, asked, dropped, trouble>>

\* "Already up to date"
Exists(g) ==
    LET c == Top(g)
        quay == Type[run[g].job] = "quay"
        existing == GetManifest(run[g].repo, c.ref)
    IN
    /\ InCall(g, "exists")
    /\ IF existing # None /\ existing = (IF quay THEN c.want ELSE c.dgst)
       THEN Returns(g)
       ELSE Becomes(g, IF quay THEN [c EXCEPT !.pc = "fetch"]
                       ELSE [c EXCEPT !.pc = "children", !.todo = ChildrenOf[c.dgst]])
    /\ UNCHANGED <<upstream, stored, db, running, stopped, asked, dropped, trouble>>

\* One manifest of an index after the other.
SyncTag_Child(g) ==
    LET c == Top(g) IN
    /\ InCall(g, "children")
    /\ \/ \E m \in c.todo :
             Set(g, [run[g] EXCEPT
                       !.calls = Append([@ EXCEPT ![Len(@)].todo = c.todo \ {m}],
                                        NewCall(g, m, None))])
       \/ c.todo = {} /\ Becomes(g, [c EXCEPT !.pc = "config"])
    /\ UNCHANGED <<upstream, stored, db, running, stopped, asked, dropped, trouble>>

Stores(d) == stored' = stored \cup {d} /\ dropped' = dropped \ {d}

\* syncBlob of the config, whose error ends the call.
SyncTag_Config(g) ==
    LET c == Top(g)
        b == ConfigOf[c.dgst]
        layers == [c EXCEPT !.pc = "layers", !.todo = LayersOf[c.dgst]]
    IN
    /\ InCall(g, "config")
    /\ \/ /\ b = None \/ b \in stored
          /\ Becomes(g, layers)
          /\ UNCHANGED <<stored, dropped, trouble>>
       \/ /\ b \notin stored \cup {None}
          /\ Answers(g)
          /\ Stores(b)
          /\ Becomes(g, layers)
       \/ /\ b \notin stored \cup {None}
          /\ RequestFails(g)
          /\ Returns(g)
          /\ UNCHANGED <<stored, dropped>>
    /\ UNCHANGED <<upstream, db, running, stopped, asked>>

\* As if the errors of the layers were only logged.
SyncTag_Layer_Logged(g, b) ==
    LET c == Top(g)
        next == [c EXCEPT !.todo = @ \ {b}]
    IN
    /\ InCall(g, "layers")
    /\ b \in c.todo
    /\ Becomes(g, next)
    /\ \/ b \in stored /\ UNCHANGED <<stored, dropped, trouble>>
       \/ b \notin stored /\ Answers(g) /\ Stores(b)
       \/ b \notin stored /\ RequestFails(g) /\ UNCHANGED <<stored, dropped>>
    /\ UNCHANGED <<upstream, db, running, stopped, asked>>

\* syncBlob of the layers, in parallel; each of them ends, whatever becomes of the
\* others.
SyncTag_Layer(g, b) ==
    LET c == Top(g)
        next == [c EXCEPT !.todo = @ \ {b}]
    IN
    /\ InCall(g, "layers")
    /\ b \in c.todo
    /\ \/ /\ b \in stored
          /\ Becomes(g, next)
          /\ UNCHANGED <<stored, dropped, trouble>>
       \/ /\ b \notin stored
          /\ Answers(g)
          /\ Stores(b)
          /\ Becomes(g, next)
       \/ /\ b \notin stored
          /\ RequestFails(g)
          /\ Becomes(g, [next EXCEPT !.ok = FALSE])
          /\ UNCHANGED <<stored, dropped>>
    /\ UNCHANGED <<upstream, db, running, stopped, asked>>

\* All layers have ended: an error of one ends the call, else the manifest is stored.
SyncTag_Store(g) ==
    LET c == Top(g) IN
    /\ InCall(g, "layers")
    /\ c.todo = {}
    /\ IF c.ok
       THEN Stores(c.dgst) /\ Becomes(g, [c EXCEPT !.pc = "put"])
       ELSE Returns(g) /\ UNCHANGED <<stored, dropped>>
    /\ UNCHANGED <<upstream, db, running, stopped, asked, trouble>>

\* metadata.PutManifest
PutManifest(g) ==
    LET c == Top(g)
        r == run[g].repo
    IN
    /\ InCall(g, "put")
    /\ records' = [records EXCEPT ![r] = @ \cup {c.dgst}]
    /\ tags' = IF c.ref \in Tag THEN [tags EXCEPT ![r][c.ref] = c.dgst] ELSE tags
    /\ Becomes(g, [c EXCEPT !.pc = "link"])
    /\ UNCHANGED <<upstream, stored, links, running, stopped, asked, dropped, trouble>>

\* As if every manifest had a config.
LinkBlobs_Config(g) ==
    LET m == Top(g).dgst IN
    /\ InCall(g, "link")
    /\ links' = [links EXCEPT ![run[g].repo] = @ \cup {m, ConfigOf[m]} \cup LayersOf[m]]
    /\ Returns(g)
    /\ UNCHANGED <<upstream, stored, records, tags, running, stopped, asked, dropped,
                   trouble>>

\* LinkBlobToRepo of the manifest, its config and its layers.
LinkBlobs(g) ==
    LET m == Top(g).dgst IN
    /\ InCall(g, "link")
    /\ links' = [links EXCEPT ![run[g].repo] =
                   @ \cup {m} \cup LayersOf[m] \cup ({ConfigOf[m]} \ {None})]
    /\ Returns(g)
    /\ UNCHANGED <<upstream, stored, records, tags, running, stopped, asked, dropped,
                   trouble>>

-----------------------------------------------------------------------------
Environment ==
    \/ \E s \in Source, r \in Repo, t \in Tag, m \in Manifest : Retag(s, r, t, m)
    \/ \E r \in Repo, t \in Tag : DeleteManifest(r, t)
    \/ \E r \in Repo, b \in Blob : DeleteBlob(r, b)
    \/ \E g \in Proc : Expire(g)
    \/ Stop
    \/ Crash

SyncTag(g) ==
    \/ FetchManifest(g)
    \/ Exists(g)
    \/ SyncTag_Child(g)
    \/ SyncTag_Config(g)
    \/ \E b \in Blob : SyncTag_Layer(g, b)
    \/ SyncTag_Store(g)
    \/ PutManifest(g)
    \/ LinkBlobs(g)

Step(g) ==
    \/ RunJob(g)
    \/ ListRepositories_Registry(g)
    \/ ListRepositories_Quay(g)
    \/ \E r \in Repo : SyncRepository(g, r)
    \/ \E t \in Tag : SyncRepository_Tag(g, t)
    \/ SyncRepository_Return(g)
    \/ SyncTag(g)
    \/ RunJob_Done(g)
    \/ RunJob_Return(g)

Tick(j) == \E g \in Proc : CheckJobs(j, g)

Next ==
    \/ Environment
    \/ \E j \in Job : Tick(j) \/ \E g \in Proc : TriggerSync(j, g)
    \/ \E g \in Proc : Step(g)

\* Goroutines go on: their requests have timeouts.  The N minutes of a schedule */N pass
\* after every run, so that the ticker starts the job again and again; strongly, because
\* only this model is short of goroutines.
Spec ==
    /\ Init
    /\ [][Next]_vars
    /\ \A g \in Proc : WF_vars(Step(g))
    /\ \A j \in Job : SF_vars(Tick(j))

-----------------------------------------------------------------------------
(* Properties *)

\* A job runs once at a time, though the ticker, TriggerSync and the start of the
\* server all start goroutines for it, and look at it first or do not (runJob).
OneRunPerJob ==
    \A j \in Job :
        Cardinality({g \in Proc : run[g].job = j /\ run[g].pc # "start"}) <= 1

\* A trigger that was accepted is not lost: until the job has begun to run after it, a
\* goroutine is on its way that will find it idle or running anew (TriggerSync, runJob).
TriggerNotLost == \A j \in asked : \E g \in Proc : run[g] = Starting(j)

\* A manifest is recorded only after its blobs were stored: no config and no layer that
\* a record names is missing, unless a client deleted it (syncTag of both clients).  It
\* says nothing of the manifests that an index names.
SyncedComplete ==
    \A r \in Repo : \A m \in records[r] :
        {m} \cup LayersOf[m] \cup ({ConfigOf[m]} \ {None}) \subseteq stored \cup dropped

\* The tags that the scheduler copies again and again.
Follows(j, r, t) ==
    /\ Mode[j] = "continuous"
    /\ ShouldRun(j)
    /\ t \in ListTags(j)
    /\ Type[j] = "quay" => r \in FirstRepos

\* Once upstream keeps still, every tag that a job follows comes to name what it names
\* upstream and stays there, whatever failed, crashed, was deleted or was overwritten by
\* a job with an older copy or by one of another source, unless that follows it too
\* (scheduler.go, syncTag).
Converges ==
    \A j \in Job, r \in Repo, t \in Tag :
        LET s == SourceOf[j] IN
        /\ Follows(j, r, t)
        /\ \A i \in Job : Follows(i, r, t) => SourceOf[i] = s
        => <>[](stopped \/ GetManifest(r, t) = upstream[s][r][t])

\* registry.go: "Handle manifest list/index - sync all referenced manifests".  If one
\* of them fails, the runs to come make up for it.
IndexSynced ==
    \A r \in Repo, m \in Manifest :
        []<>(m \in records[r] => stopped \/ ChildrenOf[m] \subseteq records[r])
=============================================================================
