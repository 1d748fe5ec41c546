------------------------------ MODULE Registry ------------------------------
(***************************************************************************)
(* Manifests, tags, links and the manifest cache: the handlers of          *)
(* internal/api/v2/handlers.go over internal/storage/metadata.go, DELETE   *)
(* /admin/repositories of internal/api/router.go, and the writers that are *)
(* not handlers: sync, the release cloner and the mirror proxy, which call *)
(* MetadataStore.PutManifest themselves and do not know Handler.cache.     *)
(*                                                                         *)
(* The blob store is the set of digests it holds, as ContentStore shows    *)
(* for BlobUploads.  The metadata store is Badger: a transaction commits   *)
(* atomically, and fails when a key it READ was written since it began.    *)
(* Keys that an iterator did not meet were not read.  Every transaction    *)
(* but DeleteRepository reads at most one key, so its commit is one step;  *)
(* DeleteRepository is two.                                                *)
(*                                                                         *)
(* A Proc is the goroutine of one HTTP request or of one such import: it   *)
(* makes one call after the other, and others run between any two of them. *)
(* A request begins with its first call.                                   *)
(***************************************************************************)
EXTENDS Integers, Sequences, FiniteSets, Functions

CONSTANTS
    Proc,        \* request goroutines
    Repo, Tag,
    Blob,        \* digests of configs and layers
    Manifest,    \* digests of manifests
    RefsOf,      \* the config and the layers a manifest names, in order
    Capacity,    \* entries the LRU cache holds
    Requests,    \* bound: the kinds of requests that clients send
    MaxCrashes,  \* bound: crashes of the server
    None

Digest == Blob \cup Manifest
Ref == Tag \cup Manifest  \* a reference in a URL: a tag or a digest

ASSUME ConstantsAssumption ==
    /\ RefsOf \in [Manifest -> Seq(Blob)]
    /\ Blob \cap Manifest = {}
    /\ Tag \cap Digest = {}
    /\ Capacity \in Nat \ {0}
    /\ MaxCrashes \in Nat
    /\ None \notin Digest \cup Repo \cup Tag

VARIABLES
    stored,     \* the digests the blob store holds
    manifests,  \* m:<repo>:<digest>
    tags,       \* t:<repo>:<tag> -> digest
    repos,      \* r:<repo>
    br, rb,     \* br:<digest>:<repo> and rb:<repo>:<digest>, the links
    cache,      \* Handler.cache: <repo>:<ref> -> the digest of the ManifestMeta
    req,        \* the requests in progress
    \* history
    dropped,      \* blobs a DELETE removed and nobody stored again
    revoked,      \* manifests a DELETE removed and nobody put again
    excused,      \* links that a DELETE of the blob removed, or a crash kept a
                  \* handler from making, and nobody made since
    proxied,      \* records that were written before what they name was stored
    late,         \* tags whose cache entry was out of date when it was set
    bypassed,     \* tags an import moved away from their cache entry
    crashes

db == <<manifests, tags, repos, br, rb>>
history == <<dropped, revoked, excused, proxied, crashes>>
cached == <<cache, late, bypassed>>
vars == <<stored, db, cached, req, history>>

PCs == {"idle", "check", "store", "record", "link", "forget", "read", "fill",
        "mount", "count", "delete", "purge", "fetch", "proxy"}

\* The keys DeleteRepository collects, by prefix.
DbKey == ({"m"} \X Repo \X Manifest) \cup ({"t"} \X Repo \X Tag)
            \cup ({"rb"} \X Repo \X Digest)

Request == [pc       : PCs,
            repo     : Repo \cup {None},
            ref      : Ref \cup {None},
            dgst     : Digest \cup {None},
            todo     : Seq(Digest \cup Ref),  \* what a loop has still to visit
            keys     : SUBSET DbKey,      \* what DeleteRepository has read
            conflict : BOOLEAN]           \* one of keys was written since

NewReq(label, r, ref, d, todo) ==
    [pc |-> label, repo |-> r, ref |-> ref, dgst |-> d, todo |-> todo,
     keys |-> {}, conflict |-> FALSE]

Idle == NewReq("idle", None, None, None, <<>>)

TypeOK ==
    /\ stored \subseteq Digest
    /\ manifests \subseteq Repo \X Manifest
    /\ tags \in [Repo -> [Tag -> Manifest \cup {None}]]
    /\ repos \subseteq Repo
    /\ br \subseteq Digest \X Repo
    /\ rb \subseteq Repo \X Digest
    /\ cache \in [Repo -> [Ref -> Manifest \cup {None}]]
    /\ Cardinality({k \in Repo \X Ref : cache[k[1]][k[2]] # None}) <= Capacity
    /\ req \in [Proc -> Request]
    /\ dropped \subseteq Digest
    /\ revoked \subseteq Repo \X Manifest
    /\ excused \subseteq Digest \X Repo
    /\ proxied \subseteq Repo \X Manifest
    /\ late \subseteq Repo \X Tag
    /\ bypassed \subseteq Repo \X Tag
    /\ crashes \in 0 .. MaxCrashes

Init ==
    /\ stored = {}
    /\ manifests = {}
    /\ tags = [r \in Repo |-> [t \in Tag |-> None]]
    /\ repos = {}
    /\ br = {}
    /\ rb = {}
    /\ cache = [r \in Repo |-> [ref \in Ref |-> None]]
    /\ req = [h \in Proc |-> Idle]
    /\ dropped = {}
    /\ revoked = {}
    /\ excused = {}
    /\ proxied = {}
    /\ late = {}
    /\ bypassed = {}
    /\ crashes = 0

-----------------------------------------------------------------------------
(* Requests and transactions *)

Becomes(h, r) == req' = [req EXCEPT ![h] = r]
Begin(h, r) == req[h].pc = "idle" /\ Becomes(h, r)
Goes(h, label) == Becomes(h, [req[h] EXCEPT !.pc = label])
Ends(h) == Becomes(h, Idle)

\* h becomes r and its transaction writes some keys: a DeleteRepository that has
\* read one of them will not commit.
Commits(h, r, written) ==
    req' = [g \in Proc |->
              IF g = h THEN r
              ELSE [req[g] EXCEPT !.conflict = @ \/ req[g].keys \cap written # {}]]

-----------------------------------------------------------------------------
(* PUT /v2/<name>/manifests/<reference> *)

PutManifest(h) ==
    /\ \E r \in Repo, ref \in Ref, m \in Manifest :
          Begin(h, NewReq("check", r, ref, m, RefsOf[m]))
    /\ UNCHANGED <<stored, db, cached, history>>

\* The config and every layer must be in the blob store; blobs.Exists, one by one.
Check_Nothing(h) ==
    /\ req[h].pc = "check"
    /\ Goes(h, "store")
    /\ UNCHANGED <<stored, db, cached, history>>
Check(h) ==
    LET todo == req[h].todo IN
    /\ req[h].pc = "check"
    /\ \/ todo = <<>> /\ Goes(h, "store")
       \/ /\ todo # <<>>
          /\ Head(todo) \in stored
          /\ Becomes(h, [req[h] EXCEPT !.todo = Tail(@)])
       \/ todo # <<>> /\ Head(todo) \notin stored /\ Ends(h)
    /\ UNCHANGED <<stored, db, cached, history>>

\* blobs.Put of the manifest itself, or its failure.
StoreManifest(h) ==
    /\ req[h].pc = "store"
    /\ \/ /\ stored' = stored \cup {req[h].dgst}
          /\ dropped' = dropped \ {req[h].dgst}
          /\ Goes(h, "record")
       \/ Ends(h) /\ UNCHANGED <<stored, dropped>>
    /\ UNCHANGED <<db, cached, revoked, excused, proxied, crashes>>

\* The transaction of MetadataStore.PutManifest.
Record_Unlinked(h) ==
    LET r == req[h].repo
        m == req[h].dgst
        t == req[h].ref
    IN
    /\ req[h].pc = "record"
    /\ manifests' = manifests \cup {<<r, m>>}
    /\ tags' = IF t \in Tag THEN [tags EXCEPT ![r][t] = m] ELSE tags
    /\ repos' = repos \cup {r}
    /\ revoked' = revoked \ {<<r, m>>}
    /\ proxied' = proxied \ {<<r, m>>}
    /\ Commits(h, [req[h] EXCEPT !.pc = "link", !.todo = RefsOf[m]],
               {<<"m", r, m>>} \cup {<<"t", r, u>> : u \in {t} \cap Tag})
    /\ UNCHANGED <<stored, br, rb, cached, dropped, excused, crashes>>
Record(h) ==
    LET r == req[h].repo
        m == req[h].dgst
        t == req[h].ref
    IN
    /\ req[h].pc = "record"
    /\ manifests' = manifests \cup {<<r, m>>}
    /\ tags' = IF t \in Tag THEN [tags EXCEPT ![r][t] = m] ELSE tags
    /\ repos' = repos \cup {r}
    /\ revoked' = revoked \ {<<r, m>>}
    /\ proxied' = proxied \ {<<r, m>>}
    /\ Commits(h, [req[h] EXCEPT !.pc = "link", !.todo = <<m>> \o RefsOf[m]],
               {<<"m", r, m>>} \cup {<<"t", r, u>> : u \in {t} \cap Tag})
    /\ UNCHANGED <<stored, br, rb, cached, dropped, excused, crashes>>

\* It read r:<repo>, which another transaction has written meanwhile: 500.
RecordConflicts(h) ==
    /\ req[h].pc = "record"
    /\ Ends(h)
    /\ UNCHANGED <<stored, db, cached, history>>

\* LinkBlobToRepo, for the manifest, the config and each layer, and for an upload.
Link(h) ==
    LET r == req[h].repo
        d == Head(req[h].todo)
    IN
    /\ req[h].pc = "link"
    /\ req[h].todo # <<>>
    /\ br' = br \cup {<<d, r>>}
    /\ rb' = rb \cup {<<r, d>>}
    /\ excused' = excused \ {<<d, r>>}
    /\ Commits(h, [req[h] EXCEPT !.todo = Tail(@)], {<<"rb", r, d>>})
    /\ UNCHANGED <<stored, manifests, tags, repos, cached, dropped, revoked, proxied,
                   crashes>>

\* As if a PUT forgot the entry of the digest alone.
Linked_Digest(h) ==
    /\ req[h].pc = "link"
    /\ req[h].todo = <<>>
    /\ \/ req[h].ref = None /\ Ends(h)
       \/ /\ req[h].ref # None
          /\ Becomes(h, [req[h] EXCEPT !.pc = "forget", !.todo = <<req[h].dgst>>])
    /\ UNCHANGED <<stored, db, cached, history>>

\* All is linked: an upload is answered, a manifest invalidates the cache first.
Linked(h) ==
    /\ req[h].pc = "link"
    /\ req[h].todo = <<>>
    /\ \/ req[h].ref = None /\ Ends(h)
       \/ /\ req[h].ref # None
          /\ Becomes(h, [req[h] EXCEPT !.pc = "forget",
                                       !.todo = <<req[h].ref, req[h].dgst>>])
    /\ UNCHANGED <<stored, db, cached, history>>

\* cache.Delete of <repo>:<ref>, and after a PUT of <repo>:<digest>; then the answer.
Forget(h) ==
    /\ req[h].pc = "forget"
    /\ cache' = [cache EXCEPT ![req[h].repo][Head(req[h].todo)] = None]
    /\ late' = late \ {<<req[h].repo, Head(req[h].todo)>>}
    /\ bypassed' = bypassed \ {<<req[h].repo, Head(req[h].todo)>>}
    /\ IF Len(req[h].todo) > 1
       THEN Becomes(h, [req[h] EXCEPT !.todo = Tail(@)])
       ELSE Ends(h)
    /\ UNCHANGED <<stored, db, history>>

-----------------------------------------------------------------------------
(* GET and DELETE on /v2/<name>/manifests/<reference> *)

\* cache.Get misses; a hit changes nothing.
GetManifest(h) ==
    /\ \E r \in Repo, ref \in Ref :
          /\ cache[r][ref] = None
          /\ Begin(h, NewReq("read", r, ref, None, <<>>))
    /\ UNCHANGED <<stored, db, cached, history>>

\* The digest MetadataStore.GetManifest finds in the store, or None.
Resolve(r, ref) ==
    LET d == IF ref \in Tag THEN tags[r][ref] ELSE ref
    IN  IF <<r, d>> \in manifests THEN d ELSE None

ReadMeta(h) ==
    LET d == Resolve(req[h].repo, req[h].ref) IN
    /\ req[h].pc = "read"
    /\ IF d = None
       THEN Ends(h)
       ELSE Becomes(h, [req[h] EXCEPT !.pc = "fill", !.dgst = d])
    /\ UNCHANGED <<stored, db, cached, history>>

\* cache.Set: a new entry of a full cache evicts the least recently used one, which
\* may be any.  serveManifest then reads the blob store.
Fill_KeepsAll(h) ==
    /\ req[h].pc = "fill"
    /\ cache' = [cache EXCEPT ![req[h].repo][req[h].ref] = req[h].dgst]
    /\ Ends(h)
    /\ UNCHANGED <<stored, db, late, bypassed, history>>
Fill(h) ==
    LET r == req[h].repo
        ref == req[h].ref
        kept == {k \in Repo \X Ref : cache[k[1]][k[2]] # None} \cup {<<r, ref>>}
        filled == [cache EXCEPT ![r][ref] = req[h].dgst]
    IN
    /\ req[h].pc = "fill"
    /\ \/ Cardinality(kept) <= Capacity /\ cache' = filled
       \/ /\ Cardinality(kept) > Capacity
          /\ \E k \in kept \ {<<r, ref>>} :
                cache' = [filled EXCEPT ![k[1]][k[2]] = None]
    /\ late' = IF ref \in Tag /\ Resolve(r, ref) # req[h].dgst
               THEN late \cup {<<r, ref>>} ELSE late \ {<<r, ref>>}
    /\ bypassed' = bypassed \ {<<r, ref>>}
    /\ Ends(h)
    /\ UNCHANGED <<stored, db, history>>

\* The transaction of MetadataStore.DeleteManifest: a tag goes with its manifest.
\* A tag that is not there, or was written since it was read, is an error.
DeleteManifest(h) ==
    \E r \in Repo, ref \in Ref :
        LET d == IF ref \in Tag THEN tags[r][ref] ELSE ref IN
        /\ req[h].pc = "idle"
        /\ d # None
        /\ manifests' = manifests \ {<<r, d>>}
        /\ tags' = IF ref \in Tag THEN [tags EXCEPT ![r][ref] = None] ELSE tags
        /\ revoked' = revoked \cup {<<r, d>>}
        /\ Commits(h, NewReq("forget", r, ref, None, <<ref>>),
                   {<<"m", r, d>>} \cup {<<"t", r, t>> : t \in {ref} \cap Tag})
        /\ UNCHANGED <<stored, repos, br, rb, cached, dropped, excused, proxied,
                       crashes>>

-----------------------------------------------------------------------------
(* Blobs: uploads, mounts and DELETE *)

\* The end of an upload (POST with a digest, or PUT): the blob store has the blob
\* before the handler links it.
UploadBlob(h) ==
    \E r \in Repo, b \in Blob :
        /\ Begin(h, NewReq("link", r, None, b, <<b>>))
        /\ stored' = stored \cup {b}
        /\ dropped' = dropped \ {b}
        /\ UNCHANGED <<db, cached, revoked, excused, proxied, crashes>>

\* handleMountBlob looks for the link of the source repository, if one is given ...
MountBlob(h) ==
    /\ \E r \in Repo, b \in Blob, from \in Repo \cup {None} :
          /\ from # None => <<from, b>> \in rb
          /\ Begin(h, NewReq("mount", r, None, b, <<b>>))
    /\ UNCHANGED <<stored, db, cached, history>>

\* ... and then for the blob; without it the client is told to upload.
MountExists(h) ==
    /\ req[h].pc = "mount"
    /\ IF req[h].dgst \in stored THEN Goes(h, "link") ELSE Ends(h)
    /\ UNCHANGED <<stored, db, cached, history>>

\* handleDeleteBlob calls UnlinkBlobFromRepo ...
DeleteBlob(h) ==
    \E r \in Repo, d \in Digest :
        /\ req[h].pc = "idle"
        /\ br' = br \ {<<d, r>>}
        /\ rb' = rb \ {<<r, d>>}
        /\ excused' = excused \cup ({<<d, r>>} \cap br)
        /\ Commits(h, NewReq("count", r, None, d, <<>>), {<<"rb", r, d>>})
        /\ UNCHANGED <<stored, manifests, tags, repos, cached, dropped, revoked,
                       proxied, crashes>>

\* ... GetBlobRepos ...
Count(h) ==
    /\ req[h].pc = "count"
    /\ IF \E r \in Repo : <<req[h].dgst, r>> \in br THEN Ends(h) ELSE Goes(h, "delete")
    /\ UNCHANGED <<stored, db, cached, history>>

\* ... and blobs.Delete, whether or not the blob is there.
Drop(h) ==
    /\ req[h].pc = "delete"
    /\ stored' = stored \ {req[h].dgst}
    /\ dropped' = dropped \cup ({req[h].dgst} \cap stored)
    /\ Ends(h)
    /\ UNCHANGED <<db, cached, revoked, excused, proxied, crashes>>

-----------------------------------------------------------------------------
(* DELETE /admin/repositories/<repo> *)

\* The iterators of the transaction read the keys under three prefixes.
DeleteRepository(h) ==
    /\ \E r \in Repo :
          LET read == {<<"m", r, m>> : m \in {m \in Manifest : <<r, m>> \in manifests}}
                 \cup {<<"t", r, t>> : t \in {t \in Tag : tags[r][t] # None}}
                 \cup {<<"rb", r, d>> : d \in {d \in Digest : <<r, d>> \in rb}}
          IN  Begin(h, [NewReq("purge", r, None, None, <<>>) EXCEPT !.keys = read])
    /\ UNCHANGED <<stored, db, cached, history>>

\* It deletes them and r:<repo>, unless one of them was written meanwhile.
Purge_Blindly(h) ==
    LET r == req[h].repo
        keys == req[h].keys
    IN
    /\ req[h].pc = "purge"
    /\ manifests' = {x \in manifests : <<"m", x[1], x[2]>> \notin keys}
    /\ tags' = [tags EXCEPT ![r] =
                  [t \in Tag |-> IF <<"t", r, t>> \in keys THEN None ELSE @[t]]]
    /\ rb' = {x \in rb : <<"rb", x[1], x[2]>> \notin keys}
    /\ repos' = repos \ {r}
    /\ Commits(h, Idle, keys)
    /\ UNCHANGED <<stored, br, cached, history>>
Purge(h) ==
    LET r == req[h].repo
        keys == req[h].keys
    IN
    /\ req[h].pc = "purge"
    /\ ~req[h].conflict
    /\ manifests' = {x \in manifests : <<"m", x[1], x[2]>> \notin keys}
    /\ tags' = [tags EXCEPT ![r] =
                  [t \in Tag |-> IF <<"t", r, t>> \in keys THEN None ELSE @[t]]]
    /\ rb' = {x \in rb : <<"rb", x[1], x[2]>> \notin keys}
    /\ repos' = repos \ {r}
    /\ Commits(h, Idle, keys)
    /\ UNCHANGED <<stored, br, cached, history>>

PurgeConflicts(h) ==
    /\ req[h].pc = "purge"
    /\ req[h].conflict
    /\ Ends(h)
    /\ UNCHANGED <<stored, db, cached, history>>

-----------------------------------------------------------------------------
(* The writers that are not handlers *)

\* syncTag (of both sync clients) and Clone bring in the blobs a manifest
\* names and then the manifest.
ImportManifest(h) ==
    /\ \E r \in Repo, ref \in Ref, m \in Manifest :
          Begin(h, NewReq("fetch", r, ref, m, RefsOf[m] \o <<m>>))
    /\ UNCHANGED <<stored, db, cached, history>>

\* The mirror's GetManifest and the cloner's component images bring in the manifest
\* alone, and its blobs later, which is UploadBlob.
ProxyManifest(h) ==
    /\ \E r \in Repo, ref \in Ref, m \in Manifest :
          Begin(h, NewReq("proxy", r, ref, m, <<m>>))
    /\ UNCHANGED <<stored, db, cached, history>>

\* The next blob is there already or is put; or it cannot be had, and that is the end.
Fetch(h) ==
    /\ req[h].pc = "fetch"
    /\ req[h].todo # <<>>
    /\ \/ /\ stored' = stored \cup {Head(req[h].todo)}
          /\ dropped' = dropped \ {Head(req[h].todo)}
          /\ Becomes(h, [req[h] EXCEPT !.todo = Tail(@)])
       \/ Ends(h) /\ UNCHANGED <<stored, dropped>>
    /\ UNCHANGED <<db, cached, revoked, excused, proxied, crashes>>

\* The manifest is put, or that fails with a warning; the cloner then gives up.
Proxy(h) ==
    /\ req[h].pc = "proxy"
    /\ req[h].todo # <<>>
    /\ \/ /\ stored' = stored \cup {req[h].dgst}
          /\ dropped' = dropped \ {req[h].dgst}
          /\ Becomes(h, [req[h] EXCEPT !.todo = <<>>])
       \/ /\ Becomes(h, [req[h] EXCEPT !.todo = <<>>]) \/ Ends(h)
          /\ UNCHANGED <<stored, dropped>>
    /\ UNCHANGED <<db, cached, revoked, excused, proxied, crashes>>

\* MetadataStore.PutManifest again; what follows are the links, and no cache.Delete.
Import(h) ==
    LET r == req[h].repo
        m == req[h].dgst
        t == req[h].ref
        links == IF req[h].pc = "fetch" THEN <<m>> \o RefsOf[m] ELSE <<m>>
    IN
    /\ req[h].pc \in {"fetch", "proxy"}
    /\ req[h].todo = <<>>
    /\ manifests' = manifests \cup {<<r, m>>}
    /\ tags' = IF t \in Tag THEN [tags EXCEPT ![r][t] = m] ELSE tags
    /\ repos' = repos \cup {r}
    /\ revoked' = revoked \ {<<r, m>>}
    /\ proxied' = IF req[h].pc = "fetch" THEN proxied \ {<<r, m>>}
                  ELSE proxied \cup ({<<r, m>>} \ manifests)
    /\ bypassed' = IF t \in Tag /\ cache[r][t] \notin {None, m}
                   THEN bypassed \cup {<<r, t>>} ELSE bypassed
    /\ Commits(h, NewReq("link", r, None, m, links),
               {<<"m", r, m>>} \cup {<<"t", r, u>> : u \in {t} \cap Tag})
    /\ UNCHANGED <<stored, br, rb, cache, late, dropped, excused, crashes>>

\* Its transaction fails: sync and Clone give up, the others go on to the link.
ImportConflicts(h) ==
    /\ req[h].pc \in {"fetch", "proxy"}
    /\ req[h].todo = <<>>
    /\ IF req[h].pc = "fetch"
       THEN Ends(h)
       ELSE Becomes(h, NewReq("link", req[h].repo, None, req[h].dgst, <<req[h].dgst>>))
    /\ UNCHANGED <<stored, db, cached, history>>

-----------------------------------------------------------------------------
\* The server goes down between two calls of its handlers and starts again.  Badger
\* and the blob store keep what was committed; the cache starts empty.  A power loss,
\* which can undo a committed rename, is BlobUploads' PowerLoss and is not here.
Crash ==
    /\ crashes < MaxCrashes
    /\ crashes' = crashes + 1
    /\ excused' = excused \cup
          UNION {{<<req[h].todo[i], req[h].repo>> : i \in DOMAIN req[h].todo} :
                 h \in {h \in Proc : req[h].pc = "link"}}
    /\ cache' = [r \in Repo |-> [ref \in Ref |-> None]]
    /\ late' = {}
    /\ bypassed' = {}
    /\ req' = [h \in Proc |-> Idle]
    /\ UNCHANGED <<stored, db, dropped, revoked, proxied>>

NewRequest(h) ==
    \/ "PutManifest" \in Requests /\ PutManifest(h)
    \/ "GetManifest" \in Requests /\ GetManifest(h)
    \/ "DeleteManifest" \in Requests /\ DeleteManifest(h)
    \/ "UploadBlob" \in Requests /\ UploadBlob(h)
    \/ "MountBlob" \in Requests /\ MountBlob(h)
    \/ "DeleteBlob" \in Requests /\ DeleteBlob(h)
    \/ "DeleteRepository" \in Requests /\ DeleteRepository(h)
    \/ "ImportManifest" \in Requests /\ ImportManifest(h)
    \/ "ProxyManifest" \in Requests /\ ProxyManifest(h)

HandlerStep(h) ==
    \/ Check(h) \/ StoreManifest(h) \/ Record(h) \/ RecordConflicts(h)
    \/ Link(h) \/ Linked(h) \/ Forget(h)
    \/ ReadMeta(h) \/ Fill(h)
    \/ MountExists(h) \/ Count(h) \/ Drop(h)
    \/ Purge(h) \/ PurgeConflicts(h)
    \/ Fetch(h) \/ Proxy(h) \/ Import(h) \/ ImportConflicts(h)

Next == Crash \/ \E h \in Proc : NewRequest(h) \/ HandlerStep(h)

Spec == Init /\ [][Next]_vars

-----------------------------------------------------------------------------
(* Properties *)

\* A tag leads to a manifest record, unless a client deleted that manifest: no
\* interleaving of PUTs with a DeleteRepository, whose transaction collects keys
\* and deletes them later, leaves a tag that ListTags shows and nobody can pull.
TagsResolve ==
    \A r \in Repo, t \in Tag :
        tags[r][t] # None => <<r, tags[r][t]>> \in manifests \cup revoked

\* A manifest that a PUT, sync or Clone recorded was recorded after its config
\* and layers were stored: only a DELETE of the blob can take one away again, however
\* long the writer was delayed between its checks and PutManifest.
ManifestsComplete ==
    \A x \in manifests \ proxied :
        {x[2]} \cup Range(RefsOf[x[2]]) \subseteq stored \cup dropped

\* Everything such a manifest names is linked to its repository, so that a DELETE in
\* another repository spares it, or a writer or a crash stands between PutManifest and
\* the link, or a DELETE in this repository removed it.
BlobsProtected ==
    \A x \in manifests \ proxied : \A d \in {x[2]} \cup Range(RefsOf[x[2]]) :
        \/ <<d, x[1]>> \in br \cup excused
        \/ \E h \in Proc : /\ req[h].pc = "link"
                           /\ req[h].repo = x[1]
                           /\ d \in Range(req[h].todo)

\* The cache serves the manifest that a tag names, but for three cases: the PUT that
\* moved the tag has not come to its cache.Delete yet; a GET that had read the metadata
\* before it set the entry after it, which no PUT can prevent; or an import moved the
\* tag, after which the entry stays until a PUT, an eviction or a restart, as entries
\* do not expire (handleGetManifest, handlePutManifest, "Invalidate cache"; syncTag,
\* Clone and the proxy's GetManifest).
CacheFollowsTag ==
    \A r \in Repo, t \in Tag :
        tags[r][t] # None /\ cache[r][t] \notin {None, tags[r][t]} =>
            \/ <<r, t>> \in late \cup bypassed
            \/ \E h \in Proc : /\ req[h].pc \in {"link", "forget"}
                               /\ req[h].repo = r
                               /\ req[h].ref = t

\* handleDeleteBlob deletes a blob when there are "No references, safe to delete"
\* (handlers.go line 468).
SafeToDelete ==
    [][\A d \in stored \ stored' : \A r \in Repo : <<d, r>> \notin br]_vars
=============================================================================
