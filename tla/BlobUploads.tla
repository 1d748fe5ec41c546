----------------------------- MODULE BlobUploads -----------------------------
(***************************************************************************)
(* The content-addressable store and the resumable uploads that feed it:   *)
(* internal/storage/blob.go, internal/storage/upload.go and the handlers   *)
(* of internal/api/v2/handlers.go that drive them.                         *)
(*                                                                         *)
(* A File is an inode.  os.Create and os.CreateTemp take one that was      *)
(* never used; a rename moves a name and leaves the inode, so a handle     *)
(* that is still open on a committed blob would still write into it.  An   *)
(* upload session is identified with the inode behind it: Start makes one  *)
(* random id and one file per session, and the id names the file.          *)
(*                                                                         *)
(* A Proc is the goroutine of one HTTP request.  req[h] holds the call it  *)
(* is about to make and its local variables.                               *)
(***************************************************************************)
EXTENDS Integers, Sequences

CONSTANTS
    Proc,         \* request goroutines
    File,         \* inodes
    Digest,       \* digests that clients name
    Byte, Zero,   \* byte values; Zero fills a hole in a file
    Chunk,        \* request bodies
    Offsets,      \* the starts a Content-Range header may give
    Sizes,        \* the sizes callers of BlobStore.Put may announce
    DigestOf(_),  \* digest.FromBytes
    MaxLen,       \* bound: the longest file and the largest Upload.Size
    MaxOutages,   \* bound: power losses; crashes of the process need none
    NoFile, NoProc, NoDigest,
    NoContent     \* what a digest names that is not stored

ASSUME ConstantsAssumption ==
    /\ Zero \in Byte
    /\ Chunk \subseteq Seq(Byte)
    /\ Offsets \subseteq Nat
    /\ Sizes \subseteq Nat
    /\ MaxLen \in Nat
    /\ MaxOutages \in Nat
    /\ NoFile \notin File
    /\ NoProc \notin Proc
    /\ NoDigest \notin Digest
    /\ NoContent \notin Seq(Byte)

VARIABLES
    \* what is on disk
    data,       \* the bytes of each inode
    synced,     \* the inodes whose bytes have reached the disk
    uploadDir,  \* the inodes named in <root>/uploads
    tmpDir,     \* the inodes named .upload-* beside a blob
    blobs,      \* blobs/sha256/xx/<hex>: the inode committed under each digest
    names,      \* what each of those entries has been since the last power loss
    \* what is in memory
    used,       \* inodes created so far
    open,       \* inodes the server holds a writable handle on
    uploads,    \* UploadManager.uploads: the sessions that exist
    pos,        \* the file position of a session's handle
    Size,       \* Upload.Size
    mu,         \* Upload.mu: its holder
    bsmu,       \* BlobStore.mu: the goroutine that holds it for writing
    req,        \* the requests in progress
    \* history
    acked,      \* digests a Put or Finish reported stored, not deleted since and not
                \* taken away by a power loss
    abandoned,  \* files that a crash left behind, or Finish when it could not read them
    outages

diskVars == <<data, synced, uploadDir, tmpDir, blobs, names>>
uploadVars == <<uploads, pos, Size, mu>>
historyVars == <<acked, abandoned, outages>>
vars == <<diskVars, used, open, uploadVars, bsmu, req, historyVars>>

\* No Content-Range header: Upload.Write rather than Upload.WriteAt.
NoOffset == -1

PCs == {"idle", "write", "writeThenFinish", "size", "sizeThenFinish", "answer",
        "finish", "hash", "close", "stat", "rename", "cancel", "putWait", "putDrain",
        "putCopy", "putCommit", "get", "serve"}

Request == [pc    : PCs,
            file  : File \cup {NoFile},      \* upload, tmp, or the handle of a reader
            want  : Digest \cup {NoDigest},  \* the digest parameter
            body  : Seq(Byte),               \* to be written; then, what was
            num   : Nat \cup {NoOffset},     \* Content-Range start; announced size; at
                                             \* the answer, the end of what was written
            match : BOOLEAN]  \* Finish: the computed digest is the expected one;
                              \* a chunk: all of it arrived

NewReq(label, f, d, c, n) ==
    [pc |-> label, file |-> f, want |-> d, body |-> c, num |-> n, match |-> FALSE]

Idle == NewReq("idle", NoFile, NoDigest, <<>>, NoOffset)

TypeOK ==
    /\ data \in [File -> Seq(Byte)]
    /\ synced \subseteq File
    /\ uploadDir \subseteq File
    /\ tmpDir \subseteq File
    /\ blobs \in [Digest -> File \cup {NoFile}]
    /\ names \in [Digest -> SUBSET (File \cup {NoFile})]
    /\ used \subseteq File
    /\ open \subseteq File
    /\ uploads \subseteq File
    /\ pos \in [File -> Nat]
    /\ Size \in [File -> Nat]
    /\ mu \in [File -> Proc \cup {NoProc}]
    /\ bsmu \in Proc \cup {NoProc}
    /\ req \in [Proc -> Request]
    /\ acked \subseteq Digest
    /\ abandoned \subseteq File
    /\ outages \in 0 .. MaxOutages

Init ==
    /\ data = [f \in File |-> <<>>]
    /\ synced = {}
    /\ uploadDir = {}
    /\ tmpDir = {}
    /\ blobs = [d \in Digest |-> NoFile]
    /\ names = [d \in Digest |-> {NoFile}]
    /\ used = {}
    /\ open = {}
    /\ uploads = {}
    /\ pos = [f \in File |-> 0]
    /\ Size = [f \in File |-> 0]
    /\ mu = [f \in File |-> NoProc]
    /\ bsmu = NoProc
    /\ req = [h \in Proc |-> Idle]
    /\ acked = {}
    /\ abandoned = {}
    /\ outages = 0

-----------------------------------------------------------------------------
(* Files and requests *)

\* The bytes of a file after c was written at offset p: what lies beyond stays,
\* and a gap before p reads as zeros.
WriteTo(bytes, p, c) ==
    [i \in 1 .. (IF p + Len(c) > Len(bytes) THEN p + Len(c) ELSE Len(bytes)) |->
        IF i > p /\ i <= p + Len(c) THEN c[i - p]
        ELSE IF i <= Len(bytes) THEN bytes[i] ELSE Zero]

\* A new file that Truncate(n) extended.
Zeros(n) == [i \in 1 .. n |-> Zero]

\* The first n bytes, or all of them.
Prefix(bytes, n) ==
    [i \in 1 .. (IF n < Len(bytes) THEN n ELSE Len(bytes)) |-> bytes[i]]

Begin(h, r) == req[h].pc = "idle" /\ req' = [req EXCEPT ![h] = r]
Goes(h, label) == req' = [req EXCEPT ![h].pc = label]
Ends(h) == req' = [req EXCEPT ![h] = Idle]
Unlock_Forgotten(f) == mu' = mu
Unlock(f) == mu' = [mu EXCEPT ![f] = NoProc]

\* Put or Finish returns without an error; the handler answers 201 Created.
Acknowledge(h) ==
    /\ acked' = acked \cup {req[h].want}
    /\ UNCHANGED <<abandoned, outages>>

\* The entry of a digest changes.  Nobody syncs the directory.
Names(d, f) ==
    /\ blobs' = [blobs EXCEPT ![d] = f]
    /\ names' = [names EXCEPT ![d] = @ \cup {f}]

-----------------------------------------------------------------------------
(* Upload sessions: POST, PATCH, PUT and DELETE on /blobs/uploads *)

\* UploadManager.Start, under um.mu.
Start ==
    \E f \in File \ used :
        /\ used' = used \cup {f}
        /\ uploadDir' = uploadDir \cup {f}
        /\ open' = open \cup {f}
        /\ uploads' = uploads \cup {f}
        /\ UNCHANGED <<data, synced, tmpDir, blobs, names, pos, Size, mu, bsmu, req,
                       historyVars>>

\* handleUploadChunk up to uploads.Get: the handler keeps the pointer it was given.
UploadChunk(h) ==
    /\ \E f \in uploads, c \in Chunk, o \in Offsets \cup {NoOffset} :
          Begin(h, NewReq("write", f, NoDigest, c, o))
    /\ UNCHANGED <<diskVars, used, open, uploadVars, bsmu, historyVars>>

\* handleFinishUpload up to uploads.Get, with or without a last piece of data.
FinishUpload(h) ==
    /\ \E f \in uploads, d \in Digest, c \in Chunk \cup {<<>>} :
          Begin(h, NewReq(IF c = <<>> THEN "finish" ELSE "writeThenFinish",
                          f, d, c, NoOffset))
    /\ UNCHANGED <<diskVars, used, open, uploadVars, bsmu, historyVars>>

\* Upload.Size after n bytes arrived: Write adds what it wrote, WriteAt keeps the
\* furthest end it has seen.
NewSize_NoMax(h, n) ==
    IF req[h].num = NoOffset THEN Size[req[h].file] + n ELSE req[h].num + n
NewSize_Swapped(h, n) ==
    IF req[h].num = NoOffset THEN Size[req[h].file] - n ELSE req[h].num + n
NewSize(h, n) ==
    LET size == Size[req[h].file] IN
    IF req[h].num = NoOffset THEN size + n
    ELSE IF req[h].num + n > size THEN req[h].num + n ELSE size

\* Upload.Write and Upload.WriteAt on a file that is still open, under upload.mu
\* from first to last byte.  The copy ends early when the client's body breaks
\* off or cleanupStale closes the file: n bytes of the body arrive.
CopyBody(h) ==
    LET f == req[h].file
        p == IF req[h].num = NoOffset THEN pos[f] ELSE req[h].num
    IN
    \E n \in 0 .. Len(req[h].body) :
        /\ n > 0 => NewSize(h, n) <= MaxLen
        /\ data' = [data EXCEPT ![f] =
                      IF n = 0 THEN @ ELSE WriteTo(@, p, Prefix(req[h].body, n))]
        /\ pos' = [pos EXCEPT ![f] = p + n]
        /\ synced' = IF n = 0 THEN synced ELSE synced \ {f}
        /\ mu' = [mu EXCEPT ![f] = h]
        /\ req' = [req EXCEPT
                ![h].pc = IF req[h].pc = "write" THEN "size" ELSE "sizeThenFinish",
                ![h].body = Prefix(req[h].body, n),
                ![h].match = (n = Len(req[h].body))]

\* A closed file takes nothing: handleUploadChunk answers with the error, and
\* handleFinishUpload ignores it.
Write(h) ==
    LET f == req[h].file IN
    /\ req[h].pc \in {"write", "writeThenFinish"}
    /\ mu[f] = NoProc
    /\ \/ f \in open /\ CopyBody(h)
       \/ /\ f \notin open
          /\ IF req[h].pc = "write" THEN Ends(h) ELSE Goes(h, "finish")
          /\ UNCHANGED <<data, pos, synced, mu>>
    /\ UNCHANGED <<uploadDir, tmpDir, blobs, names, used, open, uploads, Size, bsmu,
                   historyVars>>

\* The end of Write and WriteAt: the file has grown already, and those who read Size
\* without upload.mu have not seen it yet.
SetSize(h) ==
    LET f == req[h].file IN
    /\ Size' = [Size EXCEPT ![f] = NewSize(h, Len(req[h].body))]
    /\ Unlock(f)
    /\ \/ /\ req[h].pc = "sizeThenFinish"
          /\ req' = [req EXCEPT ![h] =
                       NewReq("finish", f, req[h].want, <<>>, NoOffset)]
       \/ /\ req[h].pc = "size" /\ req[h].match
          /\ req' = [req EXCEPT ![h] = NewReq("answer", f, NoDigest, <<>>, pos[f])]
       \/ /\ req[h].pc = "size" /\ ~req[h].match
          /\ Ends(h)
    /\ UNCHANGED <<diskVars, used, open, uploads, pos, bsmu, historyVars>>

\* handleUploadChunk reads Size for the Range of its answer, without upload.mu.
\* handleUploadStatus reads it in the same way at any time.
Answer(h) ==
    /\ req[h].pc = "answer"
    /\ Ends(h)
    /\ UNCHANGED <<diskVars, used, open, uploadVars, bsmu, historyVars>>

\* The first part of Finish, under um.mu: only one caller gets the session.
FinishTake(h) ==
    LET f == req[h].file IN
    /\ req[h].pc = "finish"
    /\ uploads' = uploads \ {f}
    /\ IF f \in uploads THEN Goes(h, "hash") ELSE Ends(h)
    /\ UNCHANGED <<diskVars, used, open, pos, Size, mu, bsmu, historyVars>>

\* The digest that Finish computes from the whole file is the expected one.
HashMatches(h) == DigestOf(data[req[h].file]) = req[h].want

\* Finish locks upload.mu, syncs and hashes the file.
FinishHash_NoSync(h) ==
    LET f == req[h].file IN
    /\ req[h].pc = "hash"
    /\ mu[f] = NoProc
    /\ mu' = [mu EXCEPT ![f] = h]
    /\ pos' = [pos EXCEPT ![f] = Len(data[f])]
    /\ req' = [req EXCEPT ![h].pc = "close",
                          ![h].match = HashMatches(h)]
    /\ UNCHANGED <<diskVars, used, open, uploads, Size, bsmu, historyVars>>
FinishHash(h) ==
    LET f == req[h].file IN
    /\ req[h].pc = "hash"
    /\ mu[f] = NoProc
    /\ mu' = [mu EXCEPT ![f] = h]
    /\ synced' = synced \cup {f}
    /\ pos' = [pos EXCEPT ![f] = Len(data[f])]
    /\ req' = [req EXCEPT ![h].pc = "close",
                          ![h].match = HashMatches(h)]
    /\ UNCHANGED <<data, uploadDir, tmpDir, blobs, names, used, open, uploads, Size,
                   bsmu, historyVars>>

\* Sync, Seek or the read fails and Finish returns at once: the session is gone and
\* its file stays, open.
FinishReadFails(h) ==
    LET f == req[h].file IN
    /\ req[h].pc = "hash"
    /\ mu[f] = NoProc
    /\ synced' \in {synced, synced \cup {f}}
    /\ Ends(h)
    /\ abandoned' = abandoned \cup {f}
    /\ UNCHANGED <<data, uploadDir, tmpDir, blobs, names, used, open, uploadVars, bsmu,
                   acked, outages>>

\* Finish closes the file and compares the digests; a failed Close leaves the file.
FinishClose(h) ==
    LET f == req[h].file IN
    /\ req[h].pc = "close"
    /\ open' = open \ {f}
    /\ \/ /\ req[h].match
          /\ Goes(h, "stat")
          /\ UNCHANGED <<uploadDir, mu, abandoned>>
       \/ /\ ~req[h].match
          /\ uploadDir' = uploadDir \ {f}
          /\ Unlock(f)
          /\ Ends(h)
          /\ UNCHANGED abandoned
       \/ /\ abandoned' = abandoned \cup {f}
          /\ Unlock(f)
          /\ Ends(h)
          /\ UNCHANGED uploadDir
    /\ UNCHANGED <<data, synced, tmpDir, blobs, names, used, uploads, pos, Size, bsmu,
                   acked, outages>>

\* Finish looks whether the blob is there already, without BlobStore.mu.
FinishStat_EarlyAck(h) ==
    /\ req[h].pc = "stat"
    /\ Acknowledge(h)
    /\ Goes(h, "rename")
    /\ UNCHANGED <<diskVars, used, open, uploadVars, bsmu>>
FinishStat(h) ==
    LET f == req[h].file IN
    /\ req[h].pc = "stat"
    /\ \/ /\ blobs[req[h].want] # NoFile
          /\ uploadDir' = uploadDir \ {f}
          /\ Unlock(f)
          /\ Ends(h)
          /\ Acknowledge(h)
       \/ /\ blobs[req[h].want] = NoFile
          /\ Goes(h, "rename")
          /\ UNCHANGED <<uploadDir, mu, historyVars>>
    /\ UNCHANGED <<data, synced, tmpDir, blobs, names, used, open, uploads, pos, Size,
                   bsmu>>

\* Finish renames the upload to its blob, over what another request may have put
\* there since the stat.
FinishRename(h) ==
    LET f == req[h].file IN
    /\ req[h].pc = "rename"
    /\ uploadDir' = uploadDir \ {f}
    /\ Names(req[h].want, f)
    /\ Unlock(f)
    /\ Ends(h)
    /\ Acknowledge(h)
    /\ UNCHANGED <<data, synced, tmpDir, used, open, uploads, pos, Size, bsmu>>

\* MkdirAll or Rename fails: Finish removes the upload and reports the error.
FinishFails_KeepsFile(h) ==
    /\ req[h].pc \in {"stat", "rename"}
    /\ Unlock(req[h].file)
    /\ Ends(h)
    /\ UNCHANGED <<diskVars, used, open, uploads, pos, Size, bsmu, historyVars>>
FinishFails(h) ==
    LET f == req[h].file IN
    /\ req[h].pc \in {"stat", "rename"}
    /\ uploadDir' = uploadDir \ {f}
    /\ Unlock(f)
    /\ Ends(h)
    /\ UNCHANGED <<data, synced, tmpDir, blobs, names, used, open, uploads, pos, Size,
                   bsmu, historyVars>>

\* Cancel takes the session under um.mu ...
CancelTake(h) ==
    \E f \in uploads :
        /\ Begin(h, NewReq("cancel", f, NoDigest, <<>>, NoOffset))
        /\ uploads' = uploads \ {f}
        /\ UNCHANGED <<diskVars, used, open, pos, Size, mu, bsmu, historyVars>>

\* ... and closes and removes its file under upload.mu.
CancelRemove(h) ==
    LET f == req[h].file IN
    /\ req[h].pc = "cancel"
    /\ mu[f] = NoProc
    /\ open' = open \ {f}
    /\ uploadDir' = uploadDir \ {f}
    /\ Ends(h)
    /\ UNCHANGED <<data, synced, tmpDir, blobs, names, used, uploadVars, bsmu, historyVars>>

\* One tick of cleanupStale.  Ages are not modelled: any sessions may be the ones
\* older than 24 hours.  It holds um.mu and not upload.mu: it closes files under
\* the hands of a Write.
CleanupStale ==
    \E stale \in SUBSET uploads :
    /\ stale # {}
    /\ open' = open \ stale
    /\ uploadDir' = uploadDir \ stale
    /\ uploads' = uploads \ stale
    /\ UNCHANGED <<data, synced, tmpDir, blobs, names, used, pos, Size, mu, bsmu, req,
                   historyVars>>

-----------------------------------------------------------------------------
(* BlobStore.Put, Delete and Get *)

\* A request that stores a blob in one call: the monolithic POST, a manifest, or
\* a fetch from an upstream registry.  num is the announced size, 0 if unknown.
PutBlob(h) ==
    /\ \E d \in Digest, c \in Chunk, s \in Sizes :
          Begin(h, NewReq("putWait", NoFile, d, c, s))
    /\ UNCHANGED <<diskVars, used, open, uploadVars, bsmu, historyVars>>

\* The stat of Put: a blob of the announced size is taken for the same blob.
Deduplicates(h) ==
    LET b == blobs[req[h].want] IN b # NoFile /\ Len(data[b]) = req[h].num

\* Put locks BlobStore.mu; if it needs no copy ...
PutDedup(h) ==
    /\ req[h].pc = "putWait"
    /\ bsmu = NoProc
    /\ Deduplicates(h)
    /\ bsmu' = h
    /\ Goes(h, "putDrain")
    /\ UNCHANGED <<diskVars, used, open, uploadVars, historyVars>>

\* ... it drains the body, to its end or until it breaks off, and returns.
PutDrain(h) ==
    /\ req[h].pc = "putDrain"
    /\ bsmu' = NoProc
    /\ Ends(h)
    /\ Acknowledge(h)
    /\ UNCHANGED <<diskVars, used, open, uploadVars>>

\* Otherwise it makes a temporary file, extended to the announced size if the file
\* system can do that.
PutCreate(h) ==
    /\ req[h].pc = "putWait"
    /\ bsmu = NoProc
    /\ ~Deduplicates(h)
    /\ \E f \in File \ used :
          /\ used' = used \cup {f}
          /\ open' = open \cup {f}
          /\ tmpDir' = tmpDir \cup {f}
          /\ \E n \in {0, req[h].num} : data' = [data EXCEPT ![f] = Zeros(n)]
          /\ req' = [req EXCEPT ![h].pc = "putCopy", ![h].file = f]
    /\ bsmu' = h
    /\ UNCHANGED <<synced, uploadDir, blobs, names, uploadVars, historyVars>>

\* CreateTemp fails.
PutCreateFails(h) ==
    /\ req[h].pc = "putWait"
    /\ bsmu = NoProc
    /\ ~Deduplicates(h)
    /\ Ends(h)
    /\ UNCHANGED <<diskVars, used, open, uploadVars, bsmu, historyVars>>

\* The body is copied from the client to the temporary file and the verifier.
PutCopy(h) ==
    /\ req[h].pc = "putCopy"
    /\ data' = [data EXCEPT ![req[h].file] = WriteTo(@, 0, req[h].body)]
    /\ Goes(h, "putCommit")
    /\ UNCHANGED <<synced, uploadDir, tmpDir, blobs, names, used, open, uploadVars, bsmu,
                   historyVars>>

\* The deferred clean-up and unlock of Put.
PutEnds(h) ==
    /\ open' = open \ {req[h].file}
    /\ tmpDir' = tmpDir \ {req[h].file}
    /\ bsmu' = NoProc
    /\ Ends(h)

\* Put verifies the digest of what it read and, if it was told one, the size.
PutAccepts(h) ==
    /\ DigestOf(req[h].body) = req[h].want
    /\ req[h].num > 0 => Len(req[h].body) = req[h].num

\* Put syncs, closes and renames.
PutCommit(h) ==
    /\ req[h].pc = "putCommit"
    /\ PutAccepts(h)
    /\ synced' = synced \cup {req[h].file}
    /\ Names(req[h].want, req[h].file)
    /\ PutEnds(h)
    /\ Acknowledge(h)
    /\ UNCHANGED <<data, uploadDir, used, uploadVars>>

\* The body breaks off while it is copied ...
PutBreaks(h) ==
    /\ req[h].pc = "putCopy"
    /\ PutEnds(h)
    /\ UNCHANGED <<data, synced, uploadDir, blobs, names, used, uploadVars, historyVars>>

\* ... a check fails, or Sync, Close or Rename does: Put returns an error.
PutRejects(h) ==
    /\ req[h].pc = "putCommit"
    /\ PutEnds(h)
    /\ UNCHANGED <<data, synced, uploadDir, blobs, names, used, uploadVars, historyVars>>

\* BlobStore.Delete, when a handler calls it for a blob that is there.
DeleteBlob_Truncates ==
    \E d \in Digest :
        /\ bsmu = NoProc
        /\ blobs[d] # NoFile
        /\ Names(d, NoFile)
        /\ data' = [data EXCEPT ![blobs[d]] = <<>>]
        /\ acked' = acked \ {d}
        /\ UNCHANGED <<synced, uploadDir, tmpDir, used, open, uploadVars, bsmu,
                       req, abandoned, outages>>
DeleteBlob_Directory ==
    /\ bsmu = NoProc
    /\ \E d \in Digest : blobs[d] # NoFile
    /\ blobs' = [d \in Digest |-> NoFile]
    /\ names' = [d \in Digest |-> names[d] \cup {NoFile}]
    /\ acked' = {}
    /\ UNCHANGED <<data, synced, uploadDir, tmpDir, used, open, uploadVars, bsmu,
                   req, abandoned, outages>>
DeleteBlob ==
    \E d \in Digest :
        /\ bsmu = NoProc
        /\ blobs[d] # NoFile
        /\ Names(d, NoFile)
        /\ acked' = acked \ {d}
        /\ UNCHANGED <<data, synced, uploadDir, tmpDir, used, open, uploadVars, bsmu,
                       req, abandoned, outages>>

\* handleGetBlob asks BlobStore.Get for a reader ...
GetBlob(h) ==
    /\ \E d \in Digest : Begin(h, NewReq("get", NoFile, d, <<>>, NoOffset))
    /\ UNCHANGED <<diskVars, used, open, uploadVars, bsmu, historyVars>>

\* ... which opens or maps the file under the read lock ...
GetOpen(h) ==
    LET b == blobs[req[h].want] IN
    /\ req[h].pc = "get"
    /\ bsmu = NoProc
    /\ \/ b # NoFile /\ req' = [req EXCEPT ![h].pc = "serve", ![h].file = b]
       \/ b = NoFile /\ Ends(h)
    /\ UNCHANGED <<diskVars, used, open, uploadVars, bsmu, historyVars>>

\* ... and reads it to the client long after it released the lock.
GetDone(h) ==
    /\ req[h].pc = "serve"
    /\ Ends(h)
    /\ UNCHANGED <<diskVars, used, open, uploadVars, bsmu, historyVars>>

-----------------------------------------------------------------------------
\* The process starts again: NewUploadManager makes an empty session map, and what
\* lies in uploads/ or beside a blob has no owner.
Restarts ==
    /\ open' = {}
    /\ uploads' = {}
    /\ pos' = [f \in File |-> 0]
    /\ Size' = [f \in File |-> 0]
    /\ mu' = [f \in File |-> NoProc]
    /\ bsmu' = NoProc
    /\ req' = [h \in Proc |-> Idle]
    /\ abandoned' = abandoned \cup uploadDir \cup tmpDir
    /\ UNCHANGED <<synced, uploadDir, tmpDir, used>>

\* The process dies, the machine runs on: files and directories are what they were.
Crash ==
    /\ Restarts
    /\ UNCHANGED <<data, blobs, names, acked, outages>>

\* The machine goes down.  Bytes that were not synced are cut off anywhere.  Put and
\* Finish sync the file and not the directory they rename it in, Delete syncs
\* nothing: an entry may be again what it was.  Which names in uploads/ and which
\* temporary ones are back, or gone, matters to nobody.
PowerLoss ==
    /\ outages < MaxOutages
    /\ outages' = outages + 1
    /\ Restarts
    /\ \E cut \in [used \ synced -> 0 .. MaxLen] :
          data' = [f \in File |-> IF f \in used \ synced THEN Prefix(data[f], cut[f])
                                  ELSE data[f]]
    /\ \E b \in [Digest -> File \cup {NoFile}] :
          /\ \A d \in Digest : b[d] \in names[d]
          /\ blobs' = b
          /\ names' = [d \in Digest |-> {b[d]}]
          /\ acked' = {d \in acked : b[d] # NoFile}

\* The steps of a request once it has begun, without and with the client, which
\* sends a body or takes an answer.
ServerStep(h) ==
    \/ SetSize(h) \/ Answer(h)
    \/ FinishTake(h) \/ FinishHash(h) \/ FinishReadFails(h) \/ FinishClose(h)
    \/ FinishStat(h) \/ FinishRename(h) \/ FinishFails(h)
    \/ CancelRemove(h)
    \/ PutDedup(h) \/ PutCreate(h) \/ PutCreateFails(h)
    \/ PutCommit(h) \/ PutRejects(h)
    \/ GetOpen(h)

ClientStep(h) == Write(h) \/ PutDrain(h) \/ PutCopy(h) \/ PutBreaks(h) \/ GetDone(h)

NewRequest(h) ==
    UploadChunk(h) \/ FinishUpload(h) \/ CancelTake(h) \/ PutBlob(h) \/ GetBlob(h)

Next ==
    \/ \E h \in Proc : NewRequest(h) \/ ServerStep(h) \/ ClientStep(h)
    \/ Start \/ CleanupStale \/ DeleteBlob \/ Crash \/ PowerLoss

Spec == Init /\ [][Next]_vars

\* Goroutines run and sync.Mutex and sync.RWMutex starve nobody; the cleaner's
\* ticker keeps ticking.
ServerFairness ==
    /\ \A h \in Proc : SF_vars(ServerStep(h))
    /\ WF_vars(CleanupStale)

\* Clients send the bodies they announced, or their connections break; main.go sets no
\* read timeout, so that the server alone does not bound a client.
ClientFairness == \A h \in Proc : WF_vars(ClientStep(h))

FairSpec == Spec /\ ServerFairness /\ ClientFairness

-----------------------------------------------------------------------------
(* Properties *)

\* A committed blob hashes to its name, whatever order handlers, the stale-upload
\* cleaner and crashes take: Finish hashes, closes and renames a file that other
\* goroutines still hold a pointer to, and Put verifies the stream, not the file.
BlobIntegrity ==
    \A d \in Digest : blobs[d] # NoFile => DigestOf(data[blobs[d]]) = d

\* A GET keeps reading the bytes it was promised after the blob was deleted or
\* renamed over: the handle or mapping that BlobStore.Get returned is never
\* written to again.
ReadersSeeDigest ==
    \A h \in Proc :
        req[h].pc = "serve" => DigestOf(data[req[h].file]) = req[h].want

\* A blob that Put or Finish reported stored is there until it is deleted, across
\* crashes of the process, two uploads of the same digest and deduplication.  A power
\* loss is the exception: it may undo a rename that was reported.
AckedPresent == \A d \in acked : blobs[d] # NoFile

\* Every file in the upload directory belongs to a session or to the one request
\* that took it, and every temporary file to the holder of BlobStore.mu, unless a
\* crash left it behind, or a Finish that could not read or close it: no other
\* error path forgets its file.
NoLeakedFiles ==
    /\ \A f \in uploadDir \ abandoned :
          \/ f \in uploads
          \/ \E h \in Proc :
                /\ req[h].file = f
                /\ req[h].pc \in {"hash", "close", "stat", "rename", "cancel"}
    /\ \A f \in tmpDir \ abandoned : bsmu # NoProc /\ req[bsmu].file = f

\* The offset a client is told to resume from, Upload.Size, is short of what the file
\* holds only while a Write holds upload.mu; and the Range a PATCH answers with, read
\* after it let go of the lock and while others write, never ends before its own
\* bytes do.
SizeCoversFile ==
    /\ \A f \in uploads : mu[f] = NoProc => Len(data[f]) <= Size[f]
    /\ \A h \in Proc : req[h].pc = "answer" => req[h].num <= Size[req[h].file]

\* What a digest names: the bytes of the inode committed under it.
stored == [d \in Digest |-> IF blobs[d] = NoFile THEN NoContent ELSE data[blobs[d]]]
Store == INSTANCE ContentStore WITH store <- stored, outages <- outages

\* The upload machinery implements the content store: every step of it stores a
\* blob under the digest of its bytes, removes one, or changes no blob at all, a
\* crash included; a power loss may bring blobs back and take others away.
ImplementsContentStore == Store!Spec

\* Every request that began is answered, whatever locks it has to wait for, when
\* clients send their bodies: nobody waits on an upload.mu or BlobStore.mu that
\* its holder cannot release.
RequestsEnd == \A h \in Proc : req[h].pc # "idle" ~> req[h].pc = "idle"
=============================================================================
