------------------------------- MODULE Mirror -------------------------------
(***************************************************************************)
(* internal/mirror/proxy.go under the GET handlers of api/v2/handlers.go:  *)
(* what is not here is fetched from Docker Hub, stored and recorded, and   *)
(* the client served meanwhile.                                            *)
(*                                                                         *)
(* A Proc is the goroutine of a request, and of the transfer in the        *)
(* background that GetBlob starts: the request waits for its end.  The     *)
(* transfer goes through BlobStore.Put, which holds the lock of the store  *)
(* while the client reads: everybody else who looks into the store waits.  *)
(* The upstream registry is external: it answers if the token is for the   *)
(* repository that is asked for.  The cache of the handlers is in Registry.*)
(***************************************************************************)
EXTENDS Integers, FiniteSets

CONSTANTS
    Proc, Repo, Tag,
    Blob, Manifest,  \* digests
    Upstream,        \* what each tag names upstream at first
    Wanted,          \* bound: what clients ask for, pairs of a repository and a tag or
                     \* a digest
    MaxTrouble,      \* bound: tags that move upstream, deletes, requests to upstream
                     \* and writes to the store that fail, clients that go away
    None

Digest == Blob \cup Manifest

ASSUME ConstantsAssumption ==
    /\ Blob \cap Manifest = {} /\ Tag \cap Digest = {}
    /\ Upstream \in [Repo -> [Tag -> Manifest]]
    /\ Wanted \subseteq Repo \X (Tag \cup Blob)
    /\ MaxTrouble \in Nat
    /\ None \notin Proc \cup Repo \cup Tag \cup Digest

VARIABLES
    upstream,
    stored,   \* the files of the blob store
    records,  \* m:<repo>:<digest>
    tags,     \* t:<repo>:<tag> -> digest
    links,    \* br:<digest>:<repo>
    mu,       \* the request whose transfer holds BlobStore.mu
    token,    \* the repository that upstream.token is for
    req,      \* the requests
    \* history
    got,      \* the blobs that a client got to the last byte
    failed,   \* digests whose Put failed, and nobody stored since
    dropped,  \* digests that a client deleted, and nobody stored since
    trouble   \* what the bound counts

db == <<records, tags, links>>
history == <<got, failed, dropped>>
vars == <<upstream, stored, db, mu, token, req, history, trouble>>

Request == [pc    : {"idle", "token", "ask", "fetch", "put", "record", "link", "exists",
                     "lock", "stream", "finish"},
            repo  : Repo \cup {None},
            ref   : Tag \cup Blob \cup {None},
            dgst  : Digest \cup {None},
            token : Repo \cup {None}]   \* the token in the request to upstream
Idle == [pc |-> "idle", repo |-> None, ref |-> None, dgst |-> None, token |-> None]

TypeOK ==
    /\ upstream \in [Repo -> [Tag -> Manifest]]
    /\ stored \subseteq Digest
    /\ records \in [Repo -> SUBSET Manifest]
    /\ tags \in [Repo -> [Tag -> Manifest \cup {None}]]
    /\ links \in [Repo -> SUBSET Digest]
    /\ mu \in Proc \cup {None}
    /\ token \in Repo \cup {None}
    /\ req \in [Proc -> Request]
    /\ got \subseteq Blob
    /\ failed \subseteq Digest
    /\ dropped \subseteq Digest
    /\ trouble \in 0 .. MaxTrouble

\* NewProxy has no token.
Init ==
    /\ upstream = Upstream
    /\ stored = {}
    /\ records = [r \in Repo |-> {}]
    /\ tags = [r \in Repo |-> [t \in Tag |-> None]]
    /\ links = [r \in Repo |-> {}]
    /\ mu = None
    /\ token = None
    /\ req = [p \in Proc |-> Idle]
    /\ got = {}
    /\ failed = {}
    /\ dropped = {}
    /\ trouble = 0

Trouble == trouble < MaxTrouble /\ trouble' = trouble + 1

Resolves(r, t) == tags[r][t] \in records[r]

Goes(p, pc) == req' = [req EXCEPT ![p].pc = pc]
Ends(p) == req' = [req EXCEPT ![p] = Idle]

\* The last step of BlobStore.Put succeeds, or not.
Puts(d) ==
    /\ stored' = stored \cup {d}
    /\ failed' = failed \ {d}
    /\ dropped' = dropped \ {d}
    /\ UNCHANGED trouble
PutFails(d) ==
    /\ Trouble
    /\ failed' = IF d \in stored THEN failed ELSE failed \cup {d}
    /\ UNCHANGED <<stored, dropped>>

-----------------------------------------------------------------------------
(* The world *)

Retag(r, t, m) ==
    /\ m # upstream[r][t]
    /\ Trouble
    /\ upstream' = [upstream EXCEPT ![r][t] = m]
    /\ UNCHANGED <<stored, db, mu, token, req, history>>

\* DELETE of a tag, with the record; of a blob, or a manifest as a blob.
DeleteManifest(r, t) ==
    /\ tags[r][t] # None
    /\ Trouble
    /\ records' = [records EXCEPT ![r] = @ \ {tags[r][t]}]
    /\ tags' = [tags EXCEPT ![r][t] = None]
    /\ UNCHANGED <<upstream, stored, links, mu, token, req, history>>

DeleteBlob(r, d) ==
    /\ mu = None
    /\ d \in stored
    /\ Trouble
    /\ links' = [links EXCEPT ![r] = @ \ {d}]
    /\ IF \A q \in Repo : d \notin links'[q]
       THEN stored' = stored \ {d} /\ dropped' = dropped \cup {d}
       ELSE UNCHANGED <<stored, dropped>>
    /\ UNCHANGED <<upstream, records, tags, mu, token, req, got, failed>>

\* tokenExp is past.
TokenExpires ==
    /\ token # None
    /\ token' = None
    /\ UNCHANGED <<upstream, stored, db, mu, req, history, trouble>>

-----------------------------------------------------------------------------
(* GET of a manifest *)

\* The metadata of this registry comes first, and upstream is asked if there is none.
\* With a record, serveManifest answers from the store, or with an error if the file
\* is not there.
GetManifest(p, r, t) ==
    /\ req[p] = Idle
    /\ <<r, t>> \in Wanted
    /\ ~ Resolves(r, t)
    /\ req' = [req EXCEPT ![p] = [Idle EXCEPT !.pc = "token", !.repo = r, !.ref = t]]
    /\ UNCHANGED <<upstream, stored, db, mu, token, history, trouble>>

\* getDockerHubToken: the token at hand, whatever repository it is for ...
GetToken(p) ==
    /\ req[p].pc = "token"
    /\ IF token # None
       THEN req' = [req EXCEPT ![p].pc = "fetch", ![p].token = token]
       ELSE Goes(p, "ask")
    /\ UNCHANGED <<upstream, stored, db, mu, token, history, trouble>>

\* ... or a new one, asked for without the lock and put in the place of whatever came
\* meanwhile; without a token the request goes out all the same.
RequestToken(p) ==
    LET r == req[p].repo IN
    /\ req[p].pc = "ask"
    /\ \/ /\ token' = r
          /\ req' = [req EXCEPT ![p].pc = "fetch", ![p].token = r]
          /\ UNCHANGED trouble
       \/ /\ Trouble
          /\ Goes(p, "fetch")
          /\ UNCHANGED token
    /\ UNCHANGED <<upstream, stored, db, mu, history>>

\* Upstream refuses the request, or the connection fails: the client is told that
\* there is no such manifest or blob.
Refused(p) ==
    /\ req[p].pc = "fetch"
    /\ IF req[p].token = req[p].repo THEN Trouble ELSE UNCHANGED trouble
    /\ Ends(p)
    /\ UNCHANGED <<upstream, stored, db, mu, token, history>>

FetchManifest(p) ==
    LET r == req[p].repo
        t == req[p].ref
    IN
    /\ req[p].pc = "fetch"
    /\ t \in Tag
    /\ req[p].token = r
    /\ req' = [req EXCEPT ![p].pc = "put", ![p].dgst = upstream[r][t]]
    /\ UNCHANGED <<upstream, stored, db, mu, token, history, trouble>>

\* As if the manifest were recorded without its file.
StoreManifest_Skipped(p) ==
    /\ req[p].pc = "put"
    /\ Goes(p, "record")
    /\ UNCHANGED <<upstream, stored, db, mu, token, history, trouble>>

\* A failure is logged, and the manifest recorded all the same.
StoreManifest(p) ==
    /\ req[p].pc = "put"
    /\ mu = None
    /\ Puts(req[p].dgst) \/ PutFails(req[p].dgst)
    /\ Goes(p, "record")
    /\ UNCHANGED <<upstream, db, mu, token, got>>

\* As if the digest were taken for the reference.
PutManifest_ByDigest(p) ==
    LET r == req[p].repo
        m == req[p].dgst
    IN
    /\ req[p].pc = "record"
    /\ records' = [records EXCEPT ![r] = @ \cup {m}]
    /\ Goes(p, "link")
    /\ UNCHANGED <<upstream, stored, tags, links, mu, token, history, trouble>>

\* metadata.PutManifest; a failure is logged.
PutManifest(p) ==
    LET r == req[p].repo
        m == req[p].dgst
    IN
    /\ req[p].pc = "record"
    /\ \/ /\ records' = [records EXCEPT ![r] = @ \cup {m}]
          /\ tags' = [tags EXCEPT ![r][req[p].ref] = m]
          /\ UNCHANGED trouble
       \/ /\ Trouble
          /\ UNCHANGED <<records, tags>>
    /\ Goes(p, "link")
    /\ UNCHANGED <<upstream, stored, links, mu, token, history>>

\* As if the reference were linked.
Link_Ref(p) ==
    /\ req[p].pc = "link"
    /\ links' = [links EXCEPT ![req[p].repo] = @ \cup {req[p].ref}]
    /\ Ends(p)
    /\ UNCHANGED <<upstream, stored, records, tags, mu, token, history, trouble>>

\* LinkBlobToRepo, for a manifest or a blob.  After that the manifest is served, or the
\* pipe to the client of a blob closed.
Link(p) ==
    /\ req[p].pc = "link"
    /\ links' = [links EXCEPT ![req[p].repo] = @ \cup {req[p].dgst}]
    /\ Ends(p)
    /\ UNCHANGED <<upstream, stored, records, tags, mu, token, history, trouble>>

-----------------------------------------------------------------------------
(* GET of a blob *)

\* The handler looks for the blob, the proxy looks once more.
GetBlob(p, r, b) ==
    /\ req[p] = Idle
    /\ <<r, b>> \in Wanted
    /\ mu = None
    /\ \/ /\ b \in stored
          /\ got' = got \cup {b}
          /\ UNCHANGED req
       \/ /\ b \notin stored
          /\ req' = [req EXCEPT ![p] = [Idle EXCEPT !.pc = "exists", !.repo = r,
                                                    !.ref = b, !.dgst = b]]
          /\ UNCHANGED got
    /\ UNCHANGED <<upstream, stored, db, mu, token, failed, dropped, trouble>>

Proxy_Exists(p) ==
    LET b == req[p].dgst IN
    /\ req[p].pc = "exists"
    /\ mu = None
    /\ \/ b \in stored /\ Ends(p) /\ got' = got \cup {b}
       \/ b \notin stored /\ Goes(p, "token") /\ UNCHANGED got
    /\ UNCHANGED <<upstream, stored, db, mu, token, failed, dropped, trouble>>

FetchBlob(p) ==
    /\ req[p].pc = "fetch"
    /\ req[p].ref \in Blob
    /\ req[p].token = req[p].repo
    /\ Goes(p, "lock")
    /\ UNCHANGED <<upstream, stored, db, mu, token, history, trouble>>

\* Put takes the lock.  It reads from the tee: what upstream sends goes to the client
\* first, through a pipe without a buffer, and then to Put.
Stream(p) ==
    /\ req[p].pc = "lock"
    /\ mu = None
    /\ mu' = p
    /\ Goes(p, "stream")
    /\ UNCHANGED <<upstream, stored, db, token, history, trouble>>

\* As if Put held the lock for the copy only.
ClientReads_Unlocks(p) ==
    /\ req[p].pc = "stream"
    /\ got' = got \cup {req[p].dgst}
    /\ Goes(p, "finish")
    /\ mu' = None
    /\ UNCHANGED <<upstream, stored, db, token, failed, dropped, trouble>>

\* The client takes the body to the last byte.  It knows that this is the last one by
\* Content-Length, before Put has seen the end of its input.
ClientReads(p) ==
    /\ req[p].pc = "stream"
    /\ got' = got \cup {req[p].dgst}
    /\ Goes(p, "finish")
    /\ UNCHANGED <<upstream, stored, db, mu, token, failed, dropped, trouble>>

\* Upstream breaks off, the 30 seconds of the proxy's client are over, the client goes
\* away, or it asked with HEAD and reads nothing.
Stream_Breaks(p) ==
    /\ req[p].pc = "stream"
    /\ PutFails(req[p].dgst)
    /\ mu' = None
    /\ Goes(p, "link")
    /\ UNCHANGED <<upstream, db, token, got>>

\* Put verifies, syncs and renames what it copied, or fails at it.
Put_Return(p) ==
    /\ req[p].pc = "finish"
    /\ Puts(req[p].dgst) \/ PutFails(req[p].dgst)
    /\ mu' = None
    /\ Goes(p, "link")
    /\ UNCHANGED <<upstream, db, token, got>>

-----------------------------------------------------------------------------
World ==
    \/ \E r \in Repo, t \in Tag, m \in Manifest : Retag(r, t, m)
    \/ \E r \in Repo, t \in Tag : DeleteManifest(r, t)
    \/ \E r \in Repo, d \in Digest : DeleteBlob(r, d)
    \/ TokenExpires

Arrives(r, t) == \E p \in Proc : GetManifest(p, r, t)

Step(p) ==
    \/ GetToken(p) \/ RequestToken(p) \/ Refused(p)
    \/ FetchManifest(p) \/ StoreManifest(p) \/ PutManifest(p) \/ Link(p)
    \/ Proxy_Exists(p) \/ FetchBlob(p) \/ Stream(p) \/ Put_Return(p)

Next ==
    \/ World
    \/ \E r \in Repo, t \in Tag : Arrives(r, t)
    \/ \E p \in Proc, r \in Repo, b \in Blob : GetBlob(p, r, b)
    \/ \E p \in Proc : Step(p) \/ ClientReads(p) \/ Stream_Breaks(p)

\* A client reads on.  Nothing in the server sees to it: the tee waits in a write to the
\* pipe, which the timeout of the proxy's client does not end, and WriteTimeout is 0.
ClientFairness == \A p \in Proc : WF_vars(ClientReads(p))

\* Requests to upstream end, for the client of the proxy has a timeout.  Fills is about
\* tags that clients ask for again and again, and about tokens, which expire.
Spec ==
    /\ Init
    /\ [][Next]_vars
    /\ \A p \in Proc : WF_vars(Step(p))
    /\ \A r \in Repo, t \in Tag : SF_vars(Arrives(r, t))
    /\ WF_vars(TokenExpires)
    /\ ClientFairness

-----------------------------------------------------------------------------
(* Properties *)

\* Pull-through: a client has all of a blob before the blob is stored, but nobody can
\* tell.  Whenever the store can be looked into, what any client has got is there, so that
\* the next one needs no upstream, unless writing it failed or it was deleted (Put holds
\* the lock from before the first byte until after the rename).
ServedStored == mu = None => got \subseteq stored \cup failed \cup dropped

\* Whatever is recorded or linked was stored before, except where the proxy goes on
\* after a failed Put (GetManifest and GetBlob of the proxy).
Backed ==
    \A r \in Repo : records[r] \cup links[r] \subseteq stored \cup failed \cup dropped

\* A tag that clients keep asking for comes to be answered from here, in spite of
\* failures of upstream, of a token that was issued for another repository and of
\* transfers that hold the store's lock, if their clients read on; a manifest whose file
\* could not be written or was deleted is never asked for again (handleGetManifest,
\* GetManifest and getDockerHubToken of the proxy).
Fills ==
    \A r \in Repo, t \in Tag : <<r, t>> \in Wanted =>
        <>[](Resolves(r, t) /\ tags[r][t] \in stored \cup failed \cup dropped)
=============================================================================
