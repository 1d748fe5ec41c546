# FastRegistry in TLA+

FastRegistry is a container registry with an OpenShift release mirror on top. This directory holds TLA+
models of the parts of it in which steps of several actors meet, the TLC runs that check them on small
instances, and TLAPS proofs of their safety properties, for instances of any size.

    tlc -workers 2 -config uploads.cfg MCBlobUploads      # one run: PROJECT.json lists them
    tlapm BlobUploadsProofs.tla                            # all proofs of a module

PROJECT.json maps every definition to the lines of code it stands for, and lists the hazards of the code,
the properties that cover them and, for every property, a mutation of the model that breaks it.

## The system

| component | state | operations | what is hard about it |
|---|---|---|---|
| blob store, `storage/blob.go` | files under `blobs/sha256/`, one RW lock | Put, Get, GetRange, Delete | Put verifies a stream and renames a file; readers go on without the lock; crashes |
| upload manager, `storage/upload.go` | sessions in memory, files under `uploads/`, a lock per session | Start, Get, Write, WriteAt, Finish, Cancel, cleanupStale | handlers keep pointers to sessions others take; Finish commits without the lock of the blob store; restart forgets the sessions |
| metadata store, `storage/metadata.go` | Badger keys `m: t: r: br: rb:` and `rel:` | PutManifest, GetManifest, DeleteManifest, DeleteRepository, links | optimistic transactions that notice changed keys, not new ones |
| LRU cache, `storage/cache.go` | a list and a map, with times to live | Get, Set, Delete | filled by requests that read long ago; writers of tags outside the handlers do not know it |
| distribution API, `api/v2/handlers.go` | none of its own | the handlers of the OCI protocol | every handler is a sequence of calls; anything runs between two of them, and a crash too |
| admin API, `api/router.go` | none | DELETE of a repository, status | races with pushes |
| release manager, `releases/manager.go` with `cloner.go`, `extractor.go` | one record per release, images in the blob store | discover, clone, mirror, extract, verify, reset, re-extract, import | every writer saves a whole record from an old copy; cancellation; crashes in the middle |
| garbage collector, `gc/collector.go` | a mark set | mark, retention, sweep | runs against pushes; deletes by tag what another tag shares |
| mirror proxy, `mirror/proxy.go` | none | pull-through GET of manifests and blobs | fills the store while the client reads, under the lock of the store |
| sync, `sync/scheduler.go`, `registry.go`, `quay.go` | jobs and their status | ticker, TriggerSync, syncTag | a job started twice; partial copies |
| replication between instances, `sync/replication.go` | none | pull, export, import | records of a peer meet records that change; exports are cut off at a limit |
| mesh, `mesh/` | members, a hash ring, a queue of jobs | join, leave, replicate, anti-entropy | placement changes under replication; a full queue |
| event store, `events/store.go`; download tracker, `api/download_tracker.go` | Badger keys by time, a counter | record, list, import | concurrent counters; a record has one key at home and another after an import |
| discovery, ISO, ignition, UI, auth, certificates, signing | – | – | I/O and formatting |

The handlers call the blob store, the upload manager and the metadata store directly and share them; the
release manager writes blobs and manifests through the same two stores, and its record through the metadata
store. The garbage collector, the mirror proxy and the sync sources use the two stores next to the handlers, each in its own
order of calls. Nothing spans two stores: consistency between them rests on that order. The scheduler and the proxy are
started by `main.go`; the collector and the mesh are not yet, and are modelled as their comments say they are to be called.

What makes the parts correct:

* a committed blob is the content its digest names, at every moment and for every reader, and a blob whose
  upload was acknowledged does not disappear while the machine has power (blob store, upload manager);
* every file belongs to somebody who will remove it; every request ends;
* a tag leads to a manifest, a manifest to blobs that are there, and a blob a manifest names is protected
  from a DELETE in another repository (metadata store, handlers);
* the cache agrees with the metadata;
* a release that says it is verified was complete, and no release stays in processing (release manager);
* a collection takes nothing from an image that a tag leads to, and garbage does not stay (garbage collector);
* what the proxy serves, records and links has been stored, and the next request needs no upstream (mirror proxy);
* a sync job runs once at a time, records nothing incomplete, and brings the tags to what upstream says (sync);
* counters count, records neither disappear nor multiply on their way between instances (event store, replication);
* nodes with the same members agree on where a blob is, and replicas get what they lack (mesh).

## Modules

| module | models | size of its state |
|---|---|---|
| `ContentStore` | the promise of the blob store: a map from digests to content | the map, and the number of power losses |
| `BlobUploads` | `blob.go`, `upload.go`, the upload and blob handlers | inodes, directories, sessions, locks, requests |
| `Registry` | the manifest, mount, delete and admin handlers over `metadata.go` and the cache, and the imports of sync, cloner and proxy | Badger keys, cache, requests |
| `ReleasePipeline` | every writer of a release record | the record, the writers' copies, the images that are local |
| `Collector` | `gc/collector.go`, and pushes by tag and by digest | files, Badger keys, the run, the push under way |
| `Sync` | `sync/scheduler.go`, `registry.go`, `quay.go` | upstream, files, Badger keys, goroutines with their stacks of syncTag |
| `Mirror` | `mirror/proxy.go` under the GET handlers | upstream, files, Badger keys, the token, requests |
| `Replication` | `events/store.go`, its writers, `sync/replication.go` | the ledger of every instance, goroutines, imports |
| `HashRing` | `mesh/hash.go` | none: operators on rings |
| `Mesh` | `mesh/gossip.go`, `router.go`, `replication.go` over `HashRing` | rings, stores, puts, queues, workers, anti-entropy of every node |
| `MC...` | constants for TLC | |
| `...Proofs` | the theorems of a module and their proofs | |

`Registry` composes on `ContentStore`: its variable `stored` is the set of digests the store holds, and the
run `uploads` shows, and `Refinement` proves, that the files, sessions and locks of `BlobUploads` implement that store. `Collector`, `Sync`, `Mirror` and
`Mesh` rest on the same promise: a Put is one step that stores a digest or fails. Only `Mirror` keeps the lock of the store, since its Put waits for a client. The
crashes of these modules are deaths of the process; what a power loss does to the entries of `blobs/` is in `BlobUploads` alone. `Replication` takes from `Sync` that jobs run
again and again, and leaves the release records of an export to `ReleasePipeline`. `Mesh` is composed of one `HashRing` per node.

### BlobUploads

A File is an inode. Creating a file takes an unused one, a rename moves a name and keeps the inode, so a
handle or a mapping that is open on a blob keeps pointing at it. An upload session is identified with its
inode. A Proc is the goroutine of a request; `req[h]` holds where it is and its local variables.

| actions | code |
|---|---|
| `Start`, `UploadChunk`, `FinishUpload`, `CancelTake` | the handlers up to the point where they hold a session |
| `Write` | the copy in `Upload.Write` and `WriteAt` under `upload.mu`; the body may break off after any byte, and the cleaner may have closed the file |
| `SetSize`, `Answer` | the update of Size at the end of both, and the answer of the PATCH, which reads Size without the lock |
| `FinishTake`, `FinishHash`, `FinishClose`, `FinishStat`, `FinishRename` | the steps of `Finish`; `FinishReadFails`, `FinishFails` and the last case of `FinishClose` are its error paths |
| `CancelRemove`, `CleanupStale` | `Cancel`, and a tick of the cleaner, which takes `um.mu` and not `upload.mu` |
| `PutBlob`, `PutDedup`, `PutDrain`, `PutCreate`, `PutCopy`, `PutCommit` | `Put`, which holds `BlobStore.mu` from `PutDedup` or `PutCreate` on; `PutCreateFails`, `PutBreaks`, `PutRejects` are its error paths |
| `GetBlob`, `GetOpen`, `GetDone`, `DeleteBlob` | `Get` and the reader it returns, `Delete` |
| `Crash` | the process dies and starts again: the disk is what it was, the session map is empty |
| `PowerLoss` | the machine goes down: unsynced bytes are cut off anywhere, and each entry of `blobs/` may be one it had before, since neither Put nor Finish syncs the directory (`names`) |

Contents are sequences of bytes and the digest is an arbitrary operator `DigestOf`. The proofs assume nothing
of it; the instance of TLC gives two contents a digest, one of which ends in a zero byte, so that a hole in a
sparse upload or a zero that Put preallocated can be mistaken for content. The age of sessions is left out:
any set of sessions may be stale. `acked` and `abandoned` are history.

### Registry

A transaction of Badger is one step when it reads at most one key. `DeleteRepository` collects keys with
iterators and deletes them at its commit, which is a second step and fails when one of the keys it met was
written in between (`Commits` marks it). Keys it did not meet are not in its read set. Handlers are one action
per call, in the order of the code: `PutManifest`, `Check`, `StoreManifest`, `Record`, `Link`, `Linked`,
`Forget` are handlePutManifest; `GetManifest`, `ReadMeta`, `Fill` handleGetManifest; `DeleteBlob`, `Count`,
`Drop` handleDeleteBlob; `MountBlob`, `MountExists`, `Link` handleMountBlob; `DeleteRepository`, `Purge` the
admin handler. The writers outside the handlers begin with `ImportManifest` and `Fetch`, which stand for syncTag of both clients and the
cloner's Clone and store the blobs first, or with `ProxyManifest` and `Proxy`, the proxy's GetManifest and PullComponentImage, which record a manifest
before its blobs (`proxied`). Their `Import` is PutManifest again, with links after it and no cache.Delete (`bypassed`). The order in which the cache evicts is left open: any entry may be the oldest one. A failed
write to Badger, of which the code ignores those of the links, is left out.

### ReleasePipeline

One release, whose record is a state and whether it carries a complete verification. Every writer reads the
record, keeps a copy and saves the whole copy. Any save may fail: CloneRelease returns the error of its first one, and everybody else ignores
it and goes on (`SavesAndGoes`) or ends (`SavesAndEnds`, which notes it in `unsaved`). An image is local when all its blobs are; a DELETE of one of
them (`LoseImage`) takes it away. `Stop` cancels the context and the goroutines run on; `Crash` ends them.
`Extracted` needs only the release image: missing components cost artifacts and no error. Progress counters,
events, times and the list of artifacts are left out.

### Collector

Every call of a store is a step of `Run`, and pushes go on between any two of them. `MarkPhase`, `MarkRepo`, `MarkRepo_Tag`,
`MarkRepo_Sort`, `MarkManifest`, `MarkRepo_Drop`, `MarkRepo_End` are the mark phase with retention; `SweepPhase` and `Sweep_File`
the walk over the files; `Run_End` the deferred function. Listings, GetManifest of a tag (`MarkRepo_Tag`) and the reading and decoding of a manifest
(`MarkManifest`, `bad`) may fail, and the run passes over what it could not read (`Unread`). A push is handlePutManifest, which leaves `CreatedAt`
zero, or the release cloner, which sets it (`clone`), by tag or by digest; a component image is recorded before its blobs are pulled
(`Component`, `Push_Pull`). sort.Slice may put equal times in any order. `ScheduleLoop_Panics` is the
nil result of Run that scheduleLoop dereferences while a Trigger is at work. `promise` is history: the files of an
image that were there when it was recorded, if no collection ran during the push and no run failed to read it. Reading
the manifests under an index (`Marks`) is one step; the recursion of markManifest is the least set closed under the indexes that can be
read (`Walk`).

### Sync

A Proc is a goroutine in runJob; syncTag calls itself for the manifests of an index, so it keeps a stack of calls. The two
clients share the actions and differ where the code does: Quay looks at the digest of the listing before it fetches, does not descend
into an index, passes over organizations it cannot list, and reads one page of each listing (`FirstRepos`, `FirstTags`). Each source has its own upstream. A schedule
is none, an interval `*/N`, or another cron line; shouldRun answers to the second only (`ShouldRun`). `Trouble` bounds together what the world does: tags that move, deletes,
triggers, failing requests, timeouts and crashes. `CheckJobs` may start a job that is running, since it reads the flag
without the lock. A DELETE of a blob is one step here; Registry has its steps. Writes to the stores do not fail.

### Mirror

A request waits for the end of the transfer that GetBlob starts in the background, so one Proc stands for both. `GetToken` takes the token at
hand, whatever repository it is for, `RequestToken` asks for another without the lock, and upstream refuses a token for another repository
(`Refused`). `Stream` is Put taking `BlobStore.mu` (`mu`) and beginning to read from the tee. The client has the whole body, of which Content-Length tells it the end,
at `ClientReads`, before Put has seen the end of its input; `Put_Return` is the fsync and the rename after that, or their failure; `Stream_Breaks`
a transfer that upstream, the timeout or the client breaks off. All the time other requests that need the store wait for the lock.
`failed`, `dropped` and `got` are history.

### Replication

A time stands for what was written at that time. A download is a record with its time under a key with a later time
(`ServeHTTP`), then the counter under `Store.mu` (`LoadCounter`, `SaveCounter`), then an event. A clone ends with an event and an entry
of its history. `Export` is what a peer sends; `ImportEvent`, `ImportCloneHistory` and `ImportDownloadRecord` put one key each, in the
order of syncMetadata. A request that fails is one that was not made. Badger reads and writes of the ledger succeed: the errors of loadCounter, which starts
again at zero, and of saveCounter and PutRaw, which the code ignores, are not in the model. Clock readings are distinct, over all instances.

### HashRing and Mesh

A ring is a value, as the code's struct: members, places, and the node of each place. memberlist is external: it tells each node
of joins and leaves on its own, rightly or wrongly. PutBlob asks the ring twice and the list of members once (`PutBlob`,
`PutBlob_Primary`, `PutBlob_Fallback`, `PutBlob_Send`). A request may fail before or after the other node has acted on it. A
full queue drops a job, which is the absence of `Replicate`; a call after Stop panics. `Pulling` is the anti-entropy pass.

## Runs

| run | checks | instance |
|---|---|---|
| `uploads` | TypeOK, BlobIntegrity, ReadersSeeDigest, AckedPresent, NoLeakedFiles, SizeCoversFile, ImplementsContentStore | 2 requests, 2 inodes, 2 digests, files up to 2 bytes, any number of deaths of the process and 1 power loss: 2.6 million states |
| `uploads_live` | RequestsEnd | 2 requests, 2 inodes, 1 digest; Put announces the size or 0, which means unknown |
| `registry` | ManifestsComplete, BlobsProtected | 2 requests, 2 repositories, a manifest by digest and its blob, 1 crash: 2.1 million states |
| `registry_tags` | TypeOK, TagsResolve, CacheFollowsTag | 2 requests, 1 repository, 1 tag, 2 manifests, a cache of one entry: 2.2 million states |
| `release` | TypeOK, VerifiedWasComplete, NotStuck, Settles | 2 writers, 2 components, 1 crash, imports of a record in processing, any saves failing: 1.3 million states |
| `mesh` | TypeOK, RingAgreement, NearestOwn, FoundInView, ReplicasHeal | 3 nodes with 2 places each on a ring of 13, 1 key, 2 replicas, a queue of one job, 3 calls, 2 troubles: 78 000 states |
| `gc` | TypeOK, CollectedSafely, GarbageGoes | an image with a blob and an index over it, names in 2 repositories and pushes by digest, 1 tag kept, 2 pushes, 1 trigger, 1 failing read: 1.5 million states |
| `sync` | TypeOK, OneRunPerJob, TriggerNotLost, SyncedComplete, Converges | 2 goroutines, a continuous registry job and a Quay job of mode once with a source each, 1 tag, an image and an index, 2 troubles |
| `mirror` | TypeOK, ServedStored, Backed, Fills | 2 requests, 2 repositories, 1 tag, 1 blob, 2 manifests, 2 troubles: 640 000 states |
| `replication` | TypeOK, CountersExact, RecordsKept, Spreads | 2 instances, 2 goroutines, exports of 1 entry, 4 readings of the clock, 1 crash: 270 000 states |
| `registry_unsafe` | SafeToDelete is violated | 2 requests |
| `sync_index` | IndexSynced is violated | 1 goroutine, 1 job, 1 failing request |

Two concurrent requests are enough for every race between a check and its use; a third party is present in
each model (the cleaner, a delete, a crash, a shutdown, upstream). Two inodes let a blob be renamed over another; two
bytes are enough to tell overlap, append, hole and cut. Two repositories are what a link must tell apart, two
manifests what a tag can move between. The cache has one entry, so that every fill of another key evicts. On the ring of `mesh`
the key lies past the last place, its successor has two places in a row and the other two nodes alternate. In `gc` the
image can be reached by its own tag and through the index, from two repositories. Two troubles are enough for a failure and a second one
during its repair. Exports of one entry cut off whatever is not the newest. The
requests a run does not send are named in its cfg (`Requests`); between them the runs send all. Processes,
inodes and repositories are symmetric in the runs that only check safety. `mesh` and `sync` may stop for good (clients stop calling;
the scheduler is stopped), so deadlock is not checked there.

The passing runs show that the upload and commit protocol is sound as written: although Finish neither takes
`BlobStore.mu` nor excludes the handlers that hold its session, `upload.mu`, the removal of the session under
`um.mu` and the order hash, close, rename suffice. The handlers keep manifests, blobs and links together
through the order of their calls, up to the exceptions that the properties name: a blob that a client deleted,
a link that a crash prevented. The cache parts from a tag before the PUT that moves it has come to cache.Delete, through
a GET that read the metadata before and sets the cache after, and through every import, which leaves the cache as it is; a stale entry of the last two kinds
stays until a PUT, an eviction or a restart. The proxy, the sync sources and the collector have the right order too; each
has an exception that its properties name: the proxy goes on after a failed Put, clients delete what a sync found in the
store, a collection that overlaps a push or cannot read an image may take its files.

What the properties except is not caught by them: a check of blobs overtaken by a DELETE (ManifestsComplete), links that a
crash prevented (BlobsProtected, SyncedComplete), pushes that overlap a collection (CollectedSafely), listings and reads of a collection that
fail, images without a tag, digests that the proxy failed to write (Backed, Fills), entries beyond the limit of an export (Spreads), a last save that failed (NotStuck, Settles),
blobs that a power loss took (AckedPresent). For each the hazards of PROJECT.json say what the code does.

### Where code and comments disagree

Checked by a run that finds the statement violated:

* **registry_unsafe** – "No references, safe to delete" (`handlers.go:468`): the count and the delete are two steps, and a mount or
  an upload links the blob in between.
* **sync_index** – "Handle manifest list/index - sync all referenced manifests" (`registry.go:236`): the failure of one is logged, the index
  is recorded, and every later run finds the index up to date.

Seen in the models, with no run of their own:

* "Clean up stale uploads on startup" (`upload.go:47`): the cleaner walks the session map, which a restart empties.
* "Invalidate cache" (`handlers.go:312`): a GET that read the metadata before a PUT sets the cache after it, and sync, cloner and proxy do
  not invalidate it at all. CacheFollowsTag allows for both.
* DeleteRepository "removes all metadata associated with a repo" (`metadata.go:212`) and leaves `br:<digest>:<repo>`.
* "state=cloned ⇒ release is fully self-contained locally" (`manager.go:289`): ResetState saves cloned for a release that is being cloned.
* "After it returns nil, the release is completely self-contained locally" (`cloner.go:663`): a worker that sees the cancellation between two
  components reports no error. The gate before `ready` catches it (VerifiedWasComplete).
* Verify is "Populated automatically before the state transitions to ready" (`types.go:34`): ReExtract passes no gate.
* "Verify all referenced blobs exist" (`handlers.go:258`): a DELETE between the check and the record leaves a manifest without its blob.
* "So a digest-pull of any component lands at /v2/<localRepo>/manifests/sha256:<d>." (`cloner.go:587`): the collector marks from tags only, and
  takes the files of what was recorded by digest.
* "sweepPhase deletes unreferenced blobs" (`collector.go:267`): an image pushed after its repository was marked loses files to the sweep.
* "Keep N most recent tags per repository" (README): tags that clients pushed have no time, and a dropped tag takes the record from a kept
  one that shares the manifest.
* "Cron-style scheduling or continuous mode" (README): only schedules whose first field is `*/N` ever fire (`ShouldRun`).
* "Set cache expiration per mirror" (README): `cacheTTL` is never read, so a tag that moved upstream after it was cached stays as it was.
* A DELETE by tag leaves the cache entry of the digest and the other way round; DeleteRepository can remove a repository from the catalog that a
  concurrent push gives a new tag; an import can take back a release record that advanced since it was compared, and with two
  architectures under one version saves only one; scheduleLoop dereferences the nil of a Run that found another at work.
* Two instances that pull from each other can exchange the entries of their clone history for ever: an import overwrites, older or newer.

### Fairness

`uploads_live` assumes strong fairness of each request's own steps: they wait for a mutex that others take
in turn, and `sync.Mutex` and `sync.RWMutex` let no waiter starve; weak fairness of the cleaner's ticker; and
weak fairness of the client's steps: it sends its body or its connection breaks. The server does not enforce the last one
(`main.go` sets `ReadTimeout: 0`), and a client that stalls inside Put holds `BlobStore.mu`; RequestsEnd is about
locks, given clients that proceed. `release` assumes weak fairness of the
goroutines: their requests to upstream end because the HTTP clients have timeouts (30 minutes in
`cloner.go`, 30 seconds in `discovery.go`).

`mesh` assumes weak fairness of the anti-entropy of each node: its ticker goes on and its requests have timeouts of two minutes, within which a blob
has to be pulled for ReplicasHeal to be about it; nothing is assumed of members, puts and replication jobs. `gc` assumes that scheduleLoop starts a run every day and that a run goes on to its end. `sync`
assumes weak fairness of goroutines, whose requests time out, and strong fairness of the ticker for each job that shouldRun lets run, whose interval
passes after every run: the code starts a new
goroutine, while the model has two of them for all jobs, so that a tick may find none free again and again. `mirror` assumes that
requests to upstream end (the proxy's client has a timeout), that tokens expire, that clients ask for a tag again and
again, and, as `ClientFairness`, that a client reads its body to the end or its connection breaks. The code does not see to the last: Put holds the lock
while it waits for the client, and `main.go` sets `WriteTimeout: 0`. Without it TLC shows one stalled GET stopping every fill. `replication` assumes that goroutines and imports go on and that every instance pulls from every other again and again, which is what
a continuous job of `Sync` does.

## Proofs

Every safety invariant that a run checks is also a theorem, and so is the refinement of ContentStore. All theorems hold for
every value of the constants that satisfies the named assumptions of the module, `ConstantsAssumption` and for the mesh
`HashAssumption`: the types of the parameters, that the null values are no members, that blobs, manifests and tags are told apart (digests
have a colon, tags have none; the content of a digest decides what it is), that the virtual nodes of two members do not collide, and that the
goroutines and instances of Replication, which the counter counts, are finitely many. TLC evaluates the assumptions in every run.

Most of the properties are not inductive: they say what holds between stores, and a request that is half way through its calls can
break them with its next one. The invariant of each module adds what a request carries from one call to the next. It is preserved
by one lemma per action, or per group of actions that change the same state.

| module | theorems | properties |
|---|---|---|
| `BlobUploadsProofs` | `TypeCorrect`, `Integrity`, `Readers`, `StaysStored`, `NothingLeaks`, `OffsetCovers`, `Refinement` | TypeOK, BlobIntegrity, ReadersSeeDigest, AckedPresent, NoLeakedFiles, SizeCoversFile, ImplementsContentStore |
| `RegistryProofs` | `TypeCorrect`, `RecordedComplete`, `LinksProtect`, `TagsLead`, `CacheCurrent` | TypeOK, ManifestsComplete, BlobsProtected, TagsResolve, CacheFollowsTag |
| `ReleasePipelineProofs` | `TypeCorrect`, `Verified`, `Unstuck` | TypeOK, VerifiedWasComplete, NotStuck |
| `CollectorProofs` | `TypeCorrect`, `Collects` | TypeOK, CollectedSafely |
| `SyncProofs` | `TypeCorrect`, `OneRun`, `TriggersKept`, `CopiesComplete` | TypeOK, OneRunPerJob, TriggerNotLost, SyncedComplete |
| `MirrorProofs` | `TypeCorrect`, `SeenStored`, `StoredFirst` | TypeOK, ServedStored, Backed |
| `ReplicationProofs` | `TypeCorrect`, `NoMiscount`, `RecordsSafe` | TypeOK, CountersExact, RecordsKept |
| `MeshProofs` | `TypeCorrect`, `RingsAgree`, `NearestChosen`, `PutsFound` | TypeOK, RingAgreement, NearestOwn, FoundInView |

**BlobUploadsProofs.** BlobIntegrity is not inductive: a committed inode could be changed by whoever holds
a handle on it. The invariant `IInv` says why nobody does:

* every committed blob, every inode that a power loss can put back under a digest and every file a reader holds is `Sealed`: synced, so that
  no outage cuts it, and not open for writing (`BlobsInv`, `ReaderOK`);
* between the hash and the rename the request holds `upload.mu`, the file is synced and still has the digest
  that was computed, and from the close on it is not open (`FinishOK`);
* a temporary file of Put is no session's file (`SessionOK`, `FilesInv`) and is reached only by the holder of
  `BlobStore.mu`; if the announced size is right, it holds the body and no preallocated zeros (`PutOK`);
* a blob that Put deduplicated against stays until Put returns, because Delete needs the lock (`DrainOK`), on which
  `StaysStored` rests.

`Refinement` maps a digest to the bytes of its inode (`stored`). A step changes the inode of at most one digest (`OneBlob`) and the bytes of
no sealed file (`SealedKept`), so it is a step of ContentStore for that digest or none; a power loss is one of ContentStore's. `NothingLeaks` has `OwnedInv` beside `IInv`: a
file of `uploads/` is a session's, or the request that took it is before the call that removes it; a temporary file belongs to the
holder of `BlobStore.mu`, which is not a Put that only drains. `OffsetCovers` needs in `SizeInv` that the handle's position is not beyond Size
either unless a writer is between its copy and its update of Size, since Write adds its bytes to Size and writes them at the position, and that an unused inode is empty.

**RegistryProofs.** `Complete` adds to ManifestsComplete that what handlePutManifest has checked was stored (`Held`). BlobsProtected is
inductive as it stands. Both leave out what the proxy or a component's pull recorded. `TagsInv` adds that a DeleteRepository whose transaction will commit has met the tag of every manifest that it has
met (`TagsRead`): a PutManifest of that manifest in between would have marked it. `CacheInv` names the PUT or DELETE that is
on its way to the cache.Delete that a stale entry waits for (`Invalidates`); entries that an import went past are in `bypassed`.

**ReleasePipelineProofs.** The
difficulty is that a copy of the record may be saved long after it was read. `CopyOK` says of every copy what
VerifiedWasComplete says of the record, and of a writer in the gate that the images it has passed are or were local; `StateOK`
that a record in processing has a writer at work whose last step is a save, unless there was a crash, an import or a last save that failed and
that no other save followed.

**CollectorProofs.** `MarkInv`: in a run that deletes, every tag that resolves is in a repository still to come, among the tags still to
read, among those read and neither marked nor dropped, or what its image can rely on is marked (`Accounted`). With the phases (`PhaseInv`) only the
last is left when the sweep begins; an image that a call of the run could not read relies on nothing. A push that meets a run knows it (`PushInv`) and relies on nothing. That markManifest marks all
that a manifest recorded earlier relies on, while other files come and go, needs that these files alone lead from the manifest to all of them
(`PromiseInv`). `WalkClosed`, `WalkMonotone`, `ContentsMonotone` and `ContentsSupported` are the facts about the walk, which is defined as
a least closed set, so that no induction over the nesting of indexes is needed.

**SyncProofs.** `ScheduleInv`: a goroutine past the check of runJob holds the running flag of its job, and only one does. `CallInv`, for every call
on every stack: what syncTag has copied before it came to its place in the code is stored, or a client deleted it. `CopiesComplete` follows, for indexes nested
to any depth.

**MirrorProofs.** `RequestOK`: after Put, the digest of a request is stored, failed to be stored or was deleted, and it stays so. `Locked`: a transfer
between its first byte and the return of Put holds the lock, so there is one at most; `Passed`: what clients have got beyond what is stored is the digest of that
transfer. With the lock free there is none, which is `SeenStored`.

**ReplicationProofs.** `ProcOK`: who is between loadCounter and saveCounter holds the lock, and what it has read is still the counter.
`MadeOK`, `DownloadsOK`, `PullOK`: the times and keys of downloads are all different readings of the clock, and each key in a store or in an
export is a download's own or its time, so that an import meets only itself.

**MeshProofs.** `AddRing` and `RemoveRing`: Add and Remove turn the ring of a set of members into the ring of another (`RingOf`), so that the order of
events leaves no trace, and RingAgreement follows. NearestOwn is then arithmetic on a circle: `SearchFirst`, `WayIs` and
`ReplicasAre` say that the first place at or after the key, and round the end, is the nearest one clockwise. `PrimaryHas`: the primary of the view that
a put succeeded in has the blob.

### Only model-checked

Liveness under fairness is out of the prover's reach: RequestsEnd, Settles, ReplicasHeal, GarbageGoes, Converges, Fills, Spreads. The two
statements that TLC refutes (SafeToDelete, IndexSynced) have nothing to prove. No module uses a RECURSIVE operator, so all of
them are open to the prover; where the code recurses over data, the models use least closed sets (`Walk`) or an explicit stack (Sync).

## What is left out

Discovery, ISO and ignition generation, the UI, authentication, certificates and signing are I/O, formatting or
stateless checks. Names, media types, headers and the text of errors are abstracted to model values. Reading
operations (listing, ranges, HEAD) appear where something depends on what they read.

The order of the LRU list and its times to live are left out: the manifest cache of Registry may evict any entry. ImportDownloadStats and
SyncAll have no callers. Hash collisions on the ring are excluded by HashAssumption; equal clock readings by the clock of Replication. The
Badger writes of the sync sources and of the event store do not fail in the model, those of the proxy and of the release manager do. Power losses are
modelled for the blob store only. A blob too large for a timeout (30 seconds in the proxy, two minutes in the mesh) is a transfer that breaks off each
time; no property says that it arrives.

## Plan

1. Storage, protocol and releases: `BlobUploads`, `Registry`, `ReleasePipeline` with their first theorems. *Done.*
2. `Collector`, `Mirror`, `Sync`, `Replication`, `HashRing` and `Mesh`. *Done.*
3. Proofs of every safety invariant that a run checks, and of the refinement of ContentStore. *Done.*
4. Proofs of action properties: what a step of a handler may never do to a record, a tag or a file that others rely on.
5. Release records of two architectures; the LRU list with times to live against the map that Registry uses.
