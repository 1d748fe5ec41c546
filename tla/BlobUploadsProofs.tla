-------------------------- MODULE BlobUploadsProofs --------------------------
(***************************************************************************)
(* TypeOK, BlobIntegrity, ReadersSeeDigest, AckedPresent, NoLeakedFiles,   *)
(* SizeCoversFile and the refinement of ContentStore, for every number of  *)
(* requests, files, digests, bodies, crashes and power losses.             *)
(*                                                                         *)
(* BlobIntegrity is not inductive. A committed file keeps its bytes        *)
(* because nobody can write to it any more: it is Sealed. A file that      *)
(* Finish has hashed is not sealed yet, but its upload.mu keeps the        *)
(* writers out until it is closed; a temporary file of Put is private to   *)
(* the holder of BlobStore.mu.  The refinement follows from the same       *)
(* invariant; ownership of files and the offset of a session have one of   *)
(* their own.                                                              *)
(***************************************************************************)
EXTENDS BlobUploads, TLAPS

SessionPCs == {"write", "writeThenFinish", "size", "sizeThenFinish", "answer",
               "finish", "hash", "close", "stat", "rename", "cancel"}
SizingPCs == {"size", "sizeThenFinish"}
LockedPCs == {"close", "stat", "rename"}
PutPCs == {"putCopy", "putCommit"}

\* No handle can write to the file and no power loss can cut it.
Sealed(f) == f \in File /\ f \in used /\ f \in synced /\ f \notin open

\* A request that names a digest names one of Digest.
WantOK(h) ==
    req[h].pc \notin {"idle", "write", "size", "answer", "cancel"} =>
        req[h].want \in Digest

\* The file of a session is never a temporary file of Put.
SessionOK(h) ==
    req[h].pc \in SessionPCs =>
        req[h].file \in File /\ req[h].file \in used /\ req[h].file \notin tmpDir

\* Write and WriteAt hold upload.mu until Size is up to date.
SizingOK(h) == req[h].pc \in SizingPCs => mu[req[h].file] = h

\* What Finish has hashed stays as it is until it is renamed.
FinishOK(h) ==
    req[h].pc \in LockedPCs =>
        /\ mu[req[h].file] = h
        /\ req[h].file \in synced
        /\ req[h].match => DigestOf(data[req[h].file]) = req[h].want
        /\ req[h].pc # "close" => req[h].match /\ req[h].file \notin open

\* Put owns its temporary file.  Once the body was copied, the file holds the body
\* and nothing else, if the body is as long as it was announced to be.
PutOK(h) ==
    /\ req[h].pc \in {"putWait"} \cup PutPCs => req[h].num \in Nat
    /\ req[h].pc \in PutPCs =>
          /\ bsmu = h
          /\ req[h].file \in File
          /\ req[h].file \in tmpDir
          /\ req[h].file \in open
    /\ req[h].pc = "putCopy" => Len(data[req[h].file]) \in {0, req[h].num}
    /\ req[h].pc = "putCommit" =>
          ((req[h].num > 0 => Len(req[h].body) = req[h].num)
           => data[req[h].file] = req[h].body)

\* The blob that Put found is there until it has drained the body: Delete waits for
\* BlobStore.mu, and a rename over it leaves one.
DrainOK(h) ==
    req[h].pc = "putDrain" => bsmu = h /\ blobs[req[h].want] # NoFile

\* A reader holds a sealed file with the content it was asked for.
ReaderOK(h) ==
    req[h].pc = "serve" =>
        Sealed(req[h].file) /\ DigestOf(data[req[h].file]) = req[h].want

RequestOK(h) ==
    /\ WantOK(h) /\ SessionOK(h) /\ SizingOK(h) /\ FinishOK(h) /\ PutOK(h)
    /\ DrainOK(h) /\ ReaderOK(h)

FilesInv ==
    /\ uploads \subseteq used
    /\ tmpDir \subseteq used
    /\ uploads \cap tmpDir = {}

\* Whatever a power loss can bring back is as good as what is there.
BlobsInv ==
    \A d \in Digest :
        /\ blobs[d] \in names[d]
        /\ \A b \in names[d] : b # NoFile => Sealed(b) /\ DigestOf(data[b]) = d

IInv == TypeOK /\ FilesInv /\ BlobsInv /\ \A h \in Proc : RequestOK(h)

-----------------------------------------------------------------------------
(* Files *)

\* A function from 1 .. n to bytes is a file's content.
LEMMA FunctionIsSeq ==
    ASSUME NEW n \in Nat, NEW s \in [1 .. n -> Byte]
    PROVE  s \in Seq(Byte) /\ Len(s) = n
  OBVIOUS

\* Writing bytes into a file leaves a file of bytes, as Upload.Write, WriteAt and
\* Put need.
LEMMA WriteToType ==
    ASSUME NEW bytes \in Seq(Byte), NEW c \in Seq(Byte), NEW p \in Nat
    PROVE  WriteTo(bytes, p, c) \in Seq(Byte)
  <1> DEFINE n == IF p + Len(c) > Len(bytes) THEN p + Len(c) ELSE Len(bytes)
  <1>1. n \in Nat
    OBVIOUS
  <1>2. WriteTo(bytes, p, c) \in [1 .. n -> Byte]
    BY ConstantsAssumption DEF WriteTo
  <1> QED
    BY <1>1, <1>2, FunctionIsSeq

\* Writing from the start of a file that is no longer than what is written leaves
\* exactly what was written: the zeros Put preallocated are gone.
LEMMA WriteToWhole ==
    ASSUME NEW bytes \in Seq(Byte), NEW c \in Seq(Byte), Len(bytes) <= Len(c)
    PROVE  WriteTo(bytes, 0, c) = c
  BY DEF WriteTo

\* A preallocated file.
LEMMA ZerosType ==
    ASSUME NEW n \in Nat
    PROVE  Zeros(n) \in Seq(Byte) /\ Len(Zeros(n)) = n
  <1>1. Zeros(n) \in [1 .. n -> Byte]
    BY ConstantsAssumption DEF Zeros
  <1> QED
    BY <1>1, FunctionIsSeq

\* A file that a crash or a broken connection cut.
LEMMA PrefixType ==
    ASSUME NEW bytes \in Seq(Byte), NEW n \in Nat
    PROVE  Prefix(bytes, n) \in Seq(Byte)
  <1> DEFINE m == IF n < Len(bytes) THEN n ELSE Len(bytes)
  <1>1. m \in Nat
    OBVIOUS
  <1>2. Prefix(bytes, n) \in [1 .. m -> Byte]
    BY DEF Prefix
  <1> QED
    BY <1>1, <1>2, FunctionIsSeq

-----------------------------------------------------------------------------
(* Requests *)

\* A request without a body.
LEMMA EmptyBody == <<>> \in Seq(Byte)
  OBVIOUS

\* The program counters of a request.
LEMMA Labels ==
    \A l \in {"idle", "write", "writeThenFinish", "size", "sizeThenFinish", "answer",
              "finish", "hash", "close", "stat", "rename", "cancel", "putWait",
              "putDrain", "putCopy", "putCommit", "get", "serve"} :
        l \in PCs
  BY DEF PCs

\* A goroutine that waits for its next request.
LEMMA IdleType == Idle \in Request /\ Idle.pc = "idle"
  BY EmptyBody, Labels DEF Idle, NewReq, Request

\* A handler begins, goes on or ends, and the other requests stay as they are.
LEMMA BeginFacts ==
    ASSUME req \in [Proc -> Request], NEW h \in Proc, NEW r \in Request, Begin(h, r)
    PROVE  /\ req' \in [Proc -> Request]
           /\ req'[h] = r
           /\ \A g \in Proc \ {h} : req'[g] = req[g]
  BY DEF Begin

\* A handler that goes on changes only its program counter.
LEMMA GoesFacts ==
    ASSUME req \in [Proc -> Request], NEW h \in Proc, NEW l \in PCs, Goes(h, l)
    PROVE  /\ req' \in [Proc -> Request]
           /\ req'[h].pc = l
           /\ req'[h].file = req[h].file
           /\ req'[h].want = req[h].want
           /\ req'[h].body = req[h].body
           /\ req'[h].num = req[h].num
           /\ req'[h].match = req[h].match
           /\ \A g \in Proc \ {h} : req'[g] = req[g]
  BY DEF Goes, Request

\* A handler that returns leaves nothing behind.
LEMMA EndsFacts ==
    ASSUME req \in [Proc -> Request], NEW h \in Proc, Ends(h)
    PROVE  /\ req' \in [Proc -> Request]
           /\ req'[h].pc = "idle"
           /\ \A g \in Proc \ {h} : req'[g] = req[g]
  BY IdleType DEF Ends

\* Finish keeps whether the digest it computed is the expected one.
LEMMA HashedFacts ==
    ASSUME req \in [Proc -> Request], NEW h \in Proc, NEW m \in BOOLEAN,
           req' = [req EXCEPT ![h].pc = "close", ![h].match = m]
    PROVE  /\ req' \in [Proc -> Request]
           /\ req'[h].pc = "close"
           /\ req'[h].file = req[h].file
           /\ req'[h].want = req[h].want
           /\ req'[h].match = m
           /\ \A g \in Proc \ {h} : req'[g] = req[g]
  BY DEF Request, PCs

\* Put has made its temporary file.
LEMMA CreatedFacts ==
    ASSUME req \in [Proc -> Request], NEW h \in Proc, NEW f \in File,
           req' = [req EXCEPT ![h].pc = "putCopy", ![h].file = f]
    PROVE  /\ req' \in [Proc -> Request]
           /\ req'[h].pc = "putCopy"
           /\ req'[h].file = f
           /\ req'[h].want = req[h].want
           /\ req'[h].num = req[h].num
           /\ \A g \in Proc \ {h} : req'[g] = req[g]
  BY DEF Request, PCs

\* BlobStore.Get has opened the blob.
LEMMA OpenedFacts ==
    ASSUME req \in [Proc -> Request], NEW h \in Proc, NEW f \in File,
           req' = [req EXCEPT ![h].pc = "serve", ![h].file = f]
    PROVE  /\ req' \in [Proc -> Request]
           /\ req'[h].pc = "serve"
           /\ req'[h].file = f
           /\ req'[h].want = req[h].want
           /\ \A g \in Proc \ {h} : req'[g] = req[g]
  BY DEF Request, PCs

-----------------------------------------------------------------------------
(* The inductive invariant, one lemma for each action *)

\* An empty registry satisfies IInv.
LEMMA InitIInv == Init => IInv
  <1> SUFFICES ASSUME Init PROVE IInv
    OBVIOUS
  <1>1. TypeOK
    BY ConstantsAssumption, IdleType DEF Init, TypeOK
  <1>2. \A h \in Proc : RequestOK(h)
    BY IdleType
      DEF Init, RequestOK, WantOK, SessionOK, SizingOK, FinishOK, PutOK, DrainOK, ReaderOK,
          Sealed, SessionPCs, SizingPCs, LockedPCs, PutPCs
  <1>3. FilesInv /\ BlobsInv
    BY DEF Init, FilesInv, BlobsInv
  <1> QED
    BY <1>1, <1>2, <1>3 DEF IInv

\* A request that has ended owns nothing.
LEMMA EndedOK == ASSUME NEW h \in Proc, req'[h].pc = "idle" PROVE RequestOK(h)'
  BY
    DEF RequestOK, WantOK, SessionOK, SizingOK, FinishOK, PutOK, DrainOK, ReaderOK, SessionPCs, SizingPCs,
        LockedPCs, PutPCs

\* A step that changes no file and no lock keeps IInv if it keeps it for the request
\* that takes it.
Quiet ==
    /\ UNCHANGED <<diskVars, used, open, pos, Size, mu, bsmu, outages>>
    /\ uploads' \subseteq uploads
    /\ acked' \subseteq Digest
    /\ abandoned' \subseteq File

LEMMA QuietKeeps ==
    ASSUME IInv, NEW h \in Proc, Quiet, RequestOK(h)',
           req' \in [Proc -> Request], \A g \in Proc \ {h} : req'[g] = req[g]
    PROVE  IInv'
  <1>1. TypeOK /\ FilesInv /\ BlobsInv /\ \A g \in Proc : RequestOK(g)
    BY DEF IInv
  <1>2. TypeOK'
    BY <1>1 DEF Quiet, diskVars, TypeOK
  <1>3. FilesInv' /\ BlobsInv'
    BY <1>1 DEF Quiet, diskVars, FilesInv, BlobsInv, Sealed
  <1>4. ASSUME NEW g \in Proc, g # h PROVE RequestOK(g)'
    BY <1>1, <1>4
      DEF Quiet, diskVars, RequestOK, WantOK, SessionOK, SizingOK, FinishOK, PutOK, DrainOK,
          ReaderOK, Sealed
  <1> QED
    BY <1>2, <1>3, <1>4 DEF IInv

\* handleUploadChunk starts with a session that exists, hence no temporary file.
LEMMA UploadChunkKeeps == ASSUME IInv, NEW h \in Proc, UploadChunk(h) PROVE IInv'
  <1> USE ConstantsAssumption DEF diskVars, uploadVars, historyVars
  <1>1. TypeOK /\ FilesInv /\ BlobsInv /\ \A g \in Proc : RequestOK(g)
    BY DEF IInv
  <1>0. PICK f \in uploads, c \in Chunk, o \in Offsets \cup {NoOffset} :
           Begin(h, NewReq("write", f, NoDigest, c, o))
    BY DEF UploadChunk
  <1> DEFINE r == NewReq("write", f, NoDigest, c, o)
  <1>t. c \in Seq(Byte) /\ o \in Nat \cup {NoOffset}
    BY EmptyBody
  <1>a. r \in Request /\ r.pc = "write" /\ r.file = f
    BY <1>1, <1>t, Labels DEF TypeOK, NewReq, Request
  <1>2. /\ req' \in [Proc -> Request]
        /\ req'[h] = r
        /\ \A g \in Proc \ {h} : req'[g] = req[g]
    BY <1>0, <1>1, <1>a, BeginFacts DEF TypeOK
  <1> HIDE DEF r
  <1>3. Quiet
    BY <1>1 DEF UploadChunk, Quiet, TypeOK
  <1>4. RequestOK(h)'
    BY <1>1, <1>2, <1>a
      DEF UploadChunk, TypeOK, Request, FilesInv, BlobsInv, RequestOK, WantOK,
          SessionOK, SizingOK, FinishOK, PutOK, DrainOK, ReaderOK, Sealed, SessionPCs, SizingPCs, LockedPCs,
          PutPCs
  <1> QED
    BY <1>2, <1>3, <1>4, QuietKeeps

\* handleFinishUpload starts with a session that exists.
LEMMA FinishUploadKeeps == ASSUME IInv, NEW h \in Proc, FinishUpload(h) PROVE IInv'
  <1> USE ConstantsAssumption DEF diskVars, uploadVars, historyVars
  <1>1. TypeOK /\ FilesInv /\ BlobsInv /\ \A g \in Proc : RequestOK(g)
    BY DEF IInv
  <1>0. PICK f \in uploads, d \in Digest, c \in Chunk \cup {<<>>} :
           Begin(h, NewReq(IF c = <<>> THEN "finish" ELSE "writeThenFinish",
                           f, d, c, NoOffset))
    BY DEF FinishUpload
  <1> DEFINE r == NewReq(IF c = <<>> THEN "finish" ELSE "writeThenFinish",
                           f, d, c, NoOffset)
  <1>t. c \in Seq(Byte)
    BY EmptyBody
  <1>a. /\ r \in Request
        /\ r.pc \in {"finish", "writeThenFinish"} /\ r.file = f /\ r.want = d
    BY <1>1, <1>t, Labels DEF TypeOK, NewReq, Request
  <1>2. /\ req' \in [Proc -> Request]
        /\ req'[h] = r
        /\ \A g \in Proc \ {h} : req'[g] = req[g]
    BY <1>0, <1>1, <1>a, BeginFacts DEF TypeOK
  <1> HIDE DEF r
  <1>3. Quiet
    BY <1>1 DEF FinishUpload, Quiet, TypeOK
  <1>4. RequestOK(h)'
    BY <1>1, <1>2, <1>a
      DEF FinishUpload, TypeOK, Request, FilesInv, BlobsInv, RequestOK, WantOK,
          SessionOK, SizingOK, FinishOK, PutOK, DrainOK, ReaderOK, Sealed, SessionPCs, SizingPCs, LockedPCs,
          PutPCs
  <1> QED
    BY <1>2, <1>3, <1>4, QuietKeeps

\* A request that calls BlobStore.Put has no file yet.
LEMMA PutBlobKeeps == ASSUME IInv, NEW h \in Proc, PutBlob(h) PROVE IInv'
  <1> USE ConstantsAssumption DEF diskVars, uploadVars, historyVars
  <1>1. TypeOK /\ FilesInv /\ BlobsInv /\ \A g \in Proc : RequestOK(g)
    BY DEF IInv
  <1>0. PICK d \in Digest, c \in Chunk, s \in Sizes :
           Begin(h, NewReq("putWait", NoFile, d, c, s))
    BY DEF PutBlob
  <1> DEFINE r == NewReq("putWait", NoFile, d, c, s)
  <1>t. c \in Seq(Byte) /\ s \in Nat
    BY EmptyBody
  <1>a. r \in Request /\ r.pc = "putWait" /\ r.want = d /\ r.num \in Nat
    BY <1>1, <1>t, Labels DEF TypeOK, NewReq, Request
  <1>2. /\ req' \in [Proc -> Request]
        /\ req'[h] = r
        /\ \A g \in Proc \ {h} : req'[g] = req[g]
    BY <1>0, <1>1, <1>a, BeginFacts DEF TypeOK
  <1> HIDE DEF r
  <1>3. Quiet
    BY <1>1 DEF PutBlob, Quiet, TypeOK
  <1>4. RequestOK(h)'
    BY <1>1, <1>2, <1>a
      DEF PutBlob, TypeOK, Request, FilesInv, BlobsInv, RequestOK, WantOK,
          SessionOK, SizingOK, FinishOK, PutOK, DrainOK, ReaderOK, Sealed, SessionPCs, SizingPCs, LockedPCs,
          PutPCs
  <1> QED
    BY <1>2, <1>3, <1>4, QuietKeeps

\* A request that calls BlobStore.Get has no file yet.
LEMMA GetBlobKeeps == ASSUME IInv, NEW h \in Proc, GetBlob(h) PROVE IInv'
  <1> USE ConstantsAssumption DEF diskVars, uploadVars, historyVars
  <1>1. TypeOK /\ FilesInv /\ BlobsInv /\ \A g \in Proc : RequestOK(g)
    BY DEF IInv
  <1>0. PICK d \in Digest : Begin(h, NewReq("get", NoFile, d, <<>>, NoOffset))
    BY DEF GetBlob
  <1> DEFINE r == NewReq("get", NoFile, d, <<>>, NoOffset)
  <1>a. r \in Request /\ r.pc = "get" /\ r.want = d
    BY <1>1, EmptyBody, Labels DEF TypeOK, NewReq, Request
  <1>2. /\ req' \in [Proc -> Request]
        /\ req'[h] = r
        /\ \A g \in Proc \ {h} : req'[g] = req[g]
    BY <1>0, <1>1, <1>a, BeginFacts DEF TypeOK
  <1> HIDE DEF r
  <1>3. Quiet
    BY <1>1 DEF GetBlob, Quiet, TypeOK
  <1>4. RequestOK(h)'
    BY <1>1, <1>2, <1>a
      DEF GetBlob, TypeOK, Request, FilesInv, BlobsInv, RequestOK, WantOK,
          SessionOK, SizingOK, FinishOK, PutOK, DrainOK, ReaderOK, Sealed, SessionPCs, SizingPCs, LockedPCs,
          PutPCs
  <1> QED
    BY <1>2, <1>3, <1>4, QuietKeeps

\* Cancel takes a session out of the map; its file stays used.
LEMMA CancelTakeKeeps == ASSUME IInv, NEW h \in Proc, CancelTake(h) PROVE IInv'
  <1> USE ConstantsAssumption DEF diskVars, uploadVars, historyVars
  <1>1. TypeOK /\ FilesInv /\ BlobsInv /\ \A g \in Proc : RequestOK(g)
    BY DEF IInv
  <1>0. PICK f \in uploads : Begin(h, NewReq("cancel", f, NoDigest, <<>>, NoOffset))
    BY DEF CancelTake
  <1> DEFINE r == NewReq("cancel", f, NoDigest, <<>>, NoOffset)
  <1>a. r \in Request /\ r.pc = "cancel" /\ r.file = f
    BY <1>1, EmptyBody, Labels DEF TypeOK, NewReq, Request
  <1>2. /\ req' \in [Proc -> Request]
        /\ req'[h] = r
        /\ \A g \in Proc \ {h} : req'[g] = req[g]
    BY <1>0, <1>1, <1>a, BeginFacts DEF TypeOK
  <1> HIDE DEF r
  <1>3. Quiet
    BY <1>1 DEF CancelTake, Quiet, TypeOK
  <1>4. RequestOK(h)'
    BY <1>1, <1>2, <1>a
      DEF CancelTake, TypeOK, Request, FilesInv, BlobsInv, RequestOK, WantOK,
          SessionOK, SizingOK, FinishOK, PutOK, DrainOK, ReaderOK, Sealed, SessionPCs, SizingPCs, LockedPCs,
          PutPCs
  <1> QED
    BY <1>2, <1>3, <1>4, QuietKeeps

\* Finish takes the session out of the map, or fails.
LEMMA FinishTakeKeeps == ASSUME IInv, NEW h \in Proc, FinishTake(h) PROVE IInv'
  <1> USE ConstantsAssumption DEF diskVars, uploadVars, historyVars
  <1>1. TypeOK /\ FilesInv /\ BlobsInv /\ \A g \in Proc : RequestOK(g)
    BY DEF IInv
  <1>2. /\ req' \in [Proc -> Request]
        /\ \A g \in Proc \ {h} : req'[g] = req[g]
        /\ \/ req'[h].pc = "idle"
           \/ /\ req'[h].pc = "hash"
              /\ req'[h].file = req[h].file /\ req'[h].want = req[h].want
    BY <1>1, GoesFacts, EndsFacts DEF FinishTake, TypeOK, PCs
  <1>3. Quiet
    BY <1>1 DEF FinishTake, Quiet, TypeOK
  <1>4. RequestOK(h)'
    BY <1>1, <1>2
      DEF FinishTake, TypeOK, Request, FilesInv, BlobsInv, RequestOK, WantOK,
          SessionOK, SizingOK, FinishOK, PutOK, DrainOK, ReaderOK, Sealed, SessionPCs, SizingPCs, LockedPCs,
          PutPCs
  <1> QED
    BY <1>2, <1>3, <1>4, QuietKeeps

\* HashMatches is a comparison.
LEMMA HashMatchesType == ASSUME NEW h PROVE HashMatches(h) \in BOOLEAN
  BY DEF HashMatches

\* Finish locks, syncs and hashes: from here on FinishOK binds the request.
LEMMA FinishHashKeeps == ASSUME IInv, NEW h \in Proc, FinishHash(h) PROVE IInv'
  <1> USE ConstantsAssumption DEF diskVars, uploadVars, historyVars
  <1>1. TypeOK /\ FilesInv /\ BlobsInv /\ \A g \in Proc : RequestOK(g)
    BY DEF IInv
  <1>2. /\ req' \in [Proc -> Request]
        /\ \A g \in Proc \ {h} : req'[g] = req[g]
        /\ req'[h].pc = "close"
        /\ req'[h].file = req[h].file /\ req'[h].want = req[h].want
        /\ req'[h].match = HashMatches(h)
    <2> DEFINE m == HashMatches(h)
    <2>1. m \in BOOLEAN
      BY HashMatchesType
    <2>2. req' = [req EXCEPT ![h].pc = "close", ![h].match = m]
      BY DEF FinishHash
    <2>3. req \in [Proc -> Request]
      BY <1>1 DEF TypeOK
    <2> HIDE DEF m
    <2>4. /\ req' \in [Proc -> Request]
          /\ req'[h].pc = "close"
          /\ req'[h].file = req[h].file
          /\ req'[h].want = req[h].want
          /\ req'[h].match = m
          /\ \A g \in Proc \ {h} : req'[g] = req[g]
      BY <2>1, <2>2, <2>3, HashedFacts
    <2> QED
      BY <2>4 DEF m
  <1>b. LET f == req[h].file IN
        /\ req[h].pc = "hash" /\ f \in File /\ f \in used /\ f \notin tmpDir
        /\ req[h].want \in Digest
        /\ mu[f] = NoProc
        /\ mu' = [mu EXCEPT ![f] = h]
        /\ synced' = synced \cup {f}
        /\ pos' = [pos EXCEPT ![f] = Len(data[f])]
        /\ UNCHANGED <<data, uploadDir, tmpDir, blobs, names, used, open, uploads, Size,
                       bsmu, acked, abandoned, outages>>
    BY <1>1 DEF FinishHash, RequestOK, WantOK, SessionOK, SessionPCs
  <1>3. TypeOK'
    BY <1>1, <1>2, <1>b DEF TypeOK
  <1>4. ASSUME NEW g \in Proc, g # h PROVE RequestOK(g)'
    BY <1>1, <1>2, <1>b, <1>4
      DEF TypeOK, FilesInv, RequestOK, WantOK, SessionOK, SizingOK, FinishOK, PutOK, DrainOK,
          ReaderOK, Sealed, SessionPCs, SizingPCs, LockedPCs, PutPCs
  <1>5. RequestOK(h)'
    BY <1>1, <1>2, <1>b
      DEF TypeOK, HashMatches, RequestOK, WantOK, SessionOK, SizingOK, FinishOK, PutOK, DrainOK,
          ReaderOK, Sealed, SessionPCs, SizingPCs, LockedPCs, PutPCs
  <1>6. FilesInv' /\ BlobsInv'
    BY <1>1, <1>2, <1>b DEF TypeOK, FilesInv, BlobsInv, Sealed
  <1> QED
    BY <1>3, <1>4, <1>5, <1>6 DEF IInv

\* Finish that cannot read the file may have synced it, and ends.
LEMMA FinishReadFailsKeeps ==
    ASSUME IInv, NEW h \in Proc, FinishReadFails(h)
    PROVE  IInv'
  <1> USE ConstantsAssumption DEF diskVars, uploadVars, historyVars
  <1>1. TypeOK /\ FilesInv /\ BlobsInv /\ \A g \in Proc : RequestOK(g)
    BY DEF IInv
  <1>2. /\ req' \in [Proc -> Request]
        /\ \A g \in Proc \ {h} : req'[g] = req[g]
        /\ req'[h].pc = "idle"
    BY <1>1, EndsFacts DEF FinishReadFails, TypeOK
  <1>b. LET f == req[h].file IN
        /\ f \in File
        /\ synced \subseteq synced' /\ synced' \subseteq synced \cup {f}
        /\ abandoned' = abandoned \cup {f}
        /\ UNCHANGED <<data, uploadDir, tmpDir, blobs, names, used, open, uploads, pos, Size,
                       mu, bsmu, acked, outages>>
    BY <1>1 DEF FinishReadFails, RequestOK, SessionOK, SessionPCs
  <1>3. TypeOK'
    BY <1>1, <1>2, <1>b DEF TypeOK
  <1>4. ASSUME NEW g \in Proc, g # h PROVE RequestOK(g)'
    BY <1>1, <1>2, <1>b, <1>4
      DEF RequestOK, WantOK, SessionOK, SizingOK, FinishOK, PutOK, DrainOK, ReaderOK, Sealed
  <1>5. RequestOK(h)'
    BY <1>2, EndedOK
  <1>6. FilesInv' /\ BlobsInv'
    BY <1>1, <1>b DEF FilesInv, BlobsInv, Sealed
  <1> QED
    BY <1>3, <1>4, <1>5, <1>6 DEF IInv

\* Closing the hashed file seals it.
LEMMA FinishCloseKeeps == ASSUME IInv, NEW h \in Proc, FinishClose(h) PROVE IInv'
  <1> USE ConstantsAssumption DEF diskVars, uploadVars, historyVars
  <1>1. TypeOK /\ FilesInv /\ BlobsInv /\ \A g \in Proc : RequestOK(g)
    BY DEF IInv
  <1>2. /\ req' \in [Proc -> Request]
        /\ \A g \in Proc \ {h} : req'[g] = req[g]
        /\ \/ req'[h].pc = "idle"
           \/ /\ req'[h].pc = "stat" /\ req[h].match /\ req'[h].match
              /\ req'[h].file = req[h].file /\ req'[h].want = req[h].want
    BY <1>1, GoesFacts, EndsFacts DEF FinishClose, TypeOK, PCs
  <1>b. LET f == req[h].file IN
        /\ req[h].pc = "close" /\ f \in File /\ f \in used /\ f \notin tmpDir
        /\ f \in synced /\ mu[f] = h /\ req[h].want \in Digest
        /\ req[h].match => DigestOf(data[f]) = req[h].want
        /\ open' = open \ {f}
        /\ \/ req'[h].pc = "stat" /\ mu' = mu
           \/ req'[h].pc = "idle" /\ mu' = [mu EXCEPT ![f] = NoProc]
        /\ uploadDir' \subseteq uploadDir /\ abandoned' \subseteq abandoned \cup {f}
        /\ UNCHANGED <<data, synced, tmpDir, blobs, names, used, uploads, pos, Size, bsmu,
                       acked, outages>>
    BY <1>1, GoesFacts, EndsFacts, Labels
      DEF FinishClose, Unlock, TypeOK, RequestOK, WantOK, SessionOK, SizingOK, FinishOK,
          SessionPCs, SizingPCs, LockedPCs
  <1>3. TypeOK'
    BY <1>1, <1>2, <1>b DEF TypeOK
  <1>4. ASSUME NEW g \in Proc, g # h PROVE RequestOK(g)'
    BY <1>1, <1>2, <1>b, <1>4
      DEF TypeOK, FilesInv, RequestOK, WantOK, SessionOK, SizingOK, FinishOK, PutOK, DrainOK,
          ReaderOK, Sealed, SessionPCs, SizingPCs, LockedPCs, PutPCs
  <1>5. RequestOK(h)'
    BY <1>1, <1>2, <1>b
      DEF TypeOK, RequestOK, WantOK, SessionOK, SizingOK, FinishOK, PutOK, DrainOK, ReaderOK,
          Sealed, SessionPCs, SizingPCs, LockedPCs, PutPCs
  <1>6. FilesInv' /\ BlobsInv'
    BY <1>1, <1>2, <1>b DEF TypeOK, FilesInv, BlobsInv, Sealed
  <1> QED
    BY <1>3, <1>4, <1>5, <1>6 DEF IInv

\* Finish finds the blob, or is about to rename a sealed file.
LEMMA FinishStatKeeps == ASSUME IInv, NEW h \in Proc, FinishStat(h) PROVE IInv'
  <1> USE ConstantsAssumption DEF diskVars, uploadVars, historyVars
  <1>1. TypeOK /\ FilesInv /\ BlobsInv /\ \A g \in Proc : RequestOK(g)
    BY DEF IInv
  <1>2. /\ req' \in [Proc -> Request]
        /\ \A g \in Proc \ {h} : req'[g] = req[g]
        /\ \/ req'[h].pc = "idle"
           \/ /\ req'[h].pc = "rename"
              /\ req'[h].match = req[h].match
              /\ req'[h].file = req[h].file /\ req'[h].want = req[h].want
    BY <1>1, GoesFacts, EndsFacts DEF FinishStat, TypeOK, PCs
  <1>b. LET f == req[h].file IN
        /\ req[h].pc = "stat" /\ f \in File /\ f \in used /\ f \notin tmpDir
        /\ f \in synced /\ f \notin open /\ mu[f] = h /\ req[h].want \in Digest
        /\ req[h].match /\ DigestOf(data[f]) = req[h].want
        /\ \/ /\ req'[h].pc = "rename" /\ mu' = mu /\ uploadDir' = uploadDir
              /\ acked' = acked
           \/ /\ req'[h].pc = "idle"
              /\ mu' = [mu EXCEPT ![f] = NoProc] /\ uploadDir' = uploadDir \ {f}
              /\ acked' \subseteq acked \cup {req[h].want}
        /\ UNCHANGED <<data, synced, tmpDir, blobs, names, used, open, uploads, pos, Size,
                       bsmu, abandoned, outages>>
    BY <1>1, GoesFacts, EndsFacts, Labels
      DEF FinishStat, Unlock, Acknowledge, TypeOK, RequestOK, WantOK, SessionOK, SizingOK,
          FinishOK, SessionPCs, SizingPCs, LockedPCs
  <1>3. TypeOK'
    BY <1>1, <1>2, <1>b DEF TypeOK
  <1>4. ASSUME NEW g \in Proc, g # h PROVE RequestOK(g)'
    <2>1. req'[g] = req[g] /\ RequestOK(g)
      BY <1>1, <1>2, <1>4
    <2>2. FinishOK(g)' /\ SizingOK(g)'
      BY <1>1, <1>b, <1>4, <2>1
        DEF TypeOK, RequestOK, SessionOK, SizingOK, FinishOK, SessionPCs, SizingPCs,
            LockedPCs
    <2>3. WantOK(g)' /\ SessionOK(g)' /\ PutOK(g)' /\ DrainOK(g)' /\ ReaderOK(g)'
      BY <1>b, <2>1
        DEF RequestOK, WantOK, SessionOK, PutOK, DrainOK, ReaderOK, Sealed
    <2> QED
      BY <2>2, <2>3 DEF RequestOK
  <1>5. RequestOK(h)'
    BY <1>1, <1>2, <1>b
      DEF TypeOK, RequestOK, WantOK, SessionOK, SizingOK, FinishOK, PutOK, DrainOK, ReaderOK,
          Sealed, SessionPCs, SizingPCs, LockedPCs, PutPCs
  <1>6. FilesInv' /\ BlobsInv'
    BY <1>1, <1>2, <1>b DEF TypeOK, FilesInv, BlobsInv, Sealed
  <1> QED
    BY <1>3, <1>4, <1>5, <1>6 DEF IInv

\* An entry that changes stays an entry.
LEMMA NamesType ==
    ASSUME TypeOK, NEW d \in Digest, NEW f \in File \cup {NoFile}, Names(d, f)
    PROVE  /\ blobs' \in [Digest -> File \cup {NoFile}]
           /\ names' \in [Digest -> SUBSET (File \cup {NoFile})]
           /\ blobs'[d] = f /\ names'[d] = names[d] \cup {f}
           /\ \A e \in Digest \ {d} : blobs'[e] = blobs[e] /\ names'[e] = names[e]
  BY DEF TypeOK, Names

\* The file Finish commits is sealed and has the content it was asked for.
LEMMA FinishRenameKeeps == ASSUME IInv, NEW h \in Proc, FinishRename(h) PROVE IInv'
  <1> USE ConstantsAssumption DEF Names, diskVars, uploadVars, historyVars
  <1>1. TypeOK /\ FilesInv /\ BlobsInv /\ \A g \in Proc : RequestOK(g)
    BY DEF IInv
  <1>2. /\ req' \in [Proc -> Request]
        /\ \A g \in Proc \ {h} : req'[g] = req[g]
        /\ req'[h].pc = "idle"
    BY <1>1, EndsFacts DEF FinishRename, TypeOK
  <1>n. req[h].want \in Digest /\ req[h].file \in File
    BY <1>1 DEF FinishRename, RequestOK, WantOK, SessionOK, SessionPCs
  <1>m. /\ blobs' \in [Digest -> File \cup {NoFile}]
        /\ names' \in [Digest -> SUBSET (File \cup {NoFile})]
    BY <1>1, <1>n, NamesType DEF FinishRename
  <1>3. TypeOK'
    BY <1>1, <1>2, <1>n, <1>m DEF FinishRename, Unlock, Acknowledge, TypeOK
  <1>4. ASSUME NEW g \in Proc, g # h PROVE RequestOK(g)'
    BY <1>1, <1>2, <1>4
      DEF FinishRename, Unlock, Acknowledge, TypeOK, Request, FilesInv, RequestOK,
          WantOK, SessionOK, SizingOK, FinishOK, PutOK, DrainOK, ReaderOK, Sealed, SessionPCs, SizingPCs,
          LockedPCs, PutPCs
  <1>5. RequestOK(h)'
    BY <1>2, EndedOK
  <1>6. FilesInv' /\ BlobsInv'
    <2>1. /\ blobs'[req[h].want] = req[h].file
          /\ names'[req[h].want] = names[req[h].want] \cup {req[h].file}
          /\ \A e \in Digest \ {req[h].want} :
                blobs'[e] = blobs[e] /\ names'[e] = names[e]
      BY <1>1, <1>n, NamesType DEF FinishRename
    <2>2. /\ Sealed(req[h].file) /\ DigestOf(data[req[h].file]) = req[h].want
          /\ UNCHANGED <<data, synced, tmpDir, used, open, uploads>>
      BY <1>1, <1>n
        DEF FinishRename, RequestOK, SessionOK, FinishOK, Sealed, SessionPCs, LockedPCs
    <2> QED
      BY <1>1, <1>n, <2>1, <2>2 DEF FilesInv, BlobsInv, Sealed
  <1> QED
    BY <1>3, <1>4, <1>5, <1>6 DEF IInv

\* Finish gives up and removes a file nobody else uses.
LEMMA FinishFailsKeeps == ASSUME IInv, NEW h \in Proc, FinishFails(h) PROVE IInv'
  <1> USE ConstantsAssumption DEF diskVars, uploadVars, historyVars
  <1>1. TypeOK /\ FilesInv /\ BlobsInv /\ \A g \in Proc : RequestOK(g)
    BY DEF IInv
  <1>2. /\ req' \in [Proc -> Request]
        /\ \A g \in Proc \ {h} : req'[g] = req[g]
        /\ req'[h].pc = "idle"
    BY <1>1, EndsFacts DEF FinishFails, TypeOK
  <1>3. TypeOK'
    BY <1>1, <1>2
      DEF FinishFails, Unlock, TypeOK, Request, RequestOK, WantOK, SessionOK, PutOK,
          SessionPCs, SizingPCs, LockedPCs, PutPCs
  <1>4. ASSUME NEW g \in Proc, g # h PROVE RequestOK(g)'
    BY <1>1, <1>2, <1>4
      DEF FinishFails, Unlock, TypeOK, Request, FilesInv, RequestOK, WantOK,
          SessionOK, SizingOK, FinishOK, PutOK, DrainOK, ReaderOK, Sealed, SessionPCs, SizingPCs, LockedPCs,
          PutPCs
  <1>5. RequestOK(h)'
    BY <1>2, EndedOK
  <1>6. FilesInv' /\ BlobsInv'
    BY <1>1, <1>2
      DEF FinishFails, Unlock, TypeOK, Request, FilesInv, BlobsInv, RequestOK,
          WantOK, SessionOK, SizingOK, FinishOK, PutOK, DrainOK, ReaderOK, Sealed, SessionPCs, SizingPCs,
          LockedPCs, PutPCs
  <1> QED
    BY <1>3, <1>4, <1>5, <1>6 DEF IInv

\* Cancel closes a file: that can only seal it.
LEMMA CancelRemoveKeeps == ASSUME IInv, NEW h \in Proc, CancelRemove(h) PROVE IInv'
  <1> USE ConstantsAssumption DEF diskVars, uploadVars, historyVars
  <1>1. TypeOK /\ FilesInv /\ BlobsInv /\ \A g \in Proc : RequestOK(g)
    BY DEF IInv
  <1>2. /\ req' \in [Proc -> Request]
        /\ \A g \in Proc \ {h} : req'[g] = req[g]
        /\ req'[h].pc = "idle"
    BY <1>1, EndsFacts DEF CancelRemove, TypeOK
  <1>3. TypeOK'
    BY <1>1, <1>2
      DEF CancelRemove, TypeOK, Request, RequestOK, WantOK, SessionOK, PutOK,
          SessionPCs, SizingPCs, LockedPCs, PutPCs
  <1>4. ASSUME NEW g \in Proc, g # h PROVE RequestOK(g)'
    BY <1>1, <1>2, <1>4
      DEF CancelRemove, TypeOK, Request, FilesInv, RequestOK, WantOK, SessionOK, SizingOK,
          FinishOK, PutOK, DrainOK, ReaderOK, Sealed, SessionPCs, SizingPCs, LockedPCs, PutPCs
  <1>5. RequestOK(h)'
    BY <1>2, EndedOK
  <1>6. FilesInv' /\ BlobsInv'
    BY <1>1, <1>2
      DEF CancelRemove, TypeOK, Request, FilesInv, BlobsInv, RequestOK, WantOK,
          SessionOK, SizingOK, FinishOK, PutOK, DrainOK, ReaderOK, Sealed, SessionPCs, SizingPCs, LockedPCs,
          PutPCs
  <1> QED
    BY <1>3, <1>4, <1>5, <1>6 DEF IInv

\* Put finds a blob of the announced size and keeps BlobStore.mu, which was free.
LEMMA PutDedupKeeps == ASSUME IInv, NEW h \in Proc, PutDedup(h) PROVE IInv'
  <1> USE ConstantsAssumption DEF diskVars, uploadVars, historyVars
  <1>1. TypeOK /\ FilesInv /\ BlobsInv /\ \A g \in Proc : RequestOK(g)
    BY DEF IInv
  <1>2. /\ req' \in [Proc -> Request]
        /\ \A g \in Proc \ {h} : req'[g] = req[g]
        /\ req'[h].pc = "putDrain" /\ req'[h].want = req[h].want
    BY <1>1, GoesFacts, Labels DEF PutDedup, TypeOK
  <1>b. /\ req[h].want \in Digest /\ blobs[req[h].want] # NoFile
        /\ bsmu = NoProc /\ bsmu' = h
        /\ UNCHANGED <<data, synced, uploadDir, tmpDir, blobs, names, used, open, uploads,
                       pos, Size, mu, acked, abandoned, outages>>
    BY <1>1 DEF PutDedup, Deduplicates, RequestOK, WantOK
  <1>3. TypeOK'
    BY <1>1, <1>2, <1>b DEF TypeOK
  <1>4. ASSUME NEW g \in Proc, g # h PROVE RequestOK(g)'
    BY <1>1, <1>2, <1>b, <1>4
      DEF RequestOK, WantOK, SessionOK, SizingOK, FinishOK, PutOK, DrainOK, ReaderOK, Sealed,
          PutPCs
  <1>5. RequestOK(h)'
    BY <1>2, <1>b
      DEF RequestOK, WantOK, SessionOK, SizingOK, FinishOK, PutOK, DrainOK, ReaderOK,
          SessionPCs, SizingPCs, LockedPCs, PutPCs
  <1>6. FilesInv' /\ BlobsInv'
    BY <1>1, <1>b DEF FilesInv, BlobsInv, Sealed
  <1> QED
    BY <1>3, <1>4, <1>5, <1>6 DEF IInv

\* Put has drained the body, releases BlobStore.mu and stores nothing.
LEMMA PutDrainKeeps == ASSUME IInv, NEW h \in Proc, PutDrain(h) PROVE IInv'
  <1> USE ConstantsAssumption DEF diskVars, uploadVars, historyVars
  <1>1. TypeOK /\ FilesInv /\ BlobsInv /\ \A g \in Proc : RequestOK(g)
    BY DEF IInv
  <1>2. /\ req' \in [Proc -> Request]
        /\ \A g \in Proc \ {h} : req'[g] = req[g]
        /\ req'[h].pc = "idle"
    BY <1>1, EndsFacts DEF PutDrain, TypeOK
  <1>b. /\ req[h].want \in Digest /\ bsmu = h /\ bsmu' = NoProc
        /\ acked' = acked \cup {req[h].want}
        /\ UNCHANGED <<data, synced, uploadDir, tmpDir, blobs, names, used, open, uploads,
                       pos, Size, mu, abandoned, outages>>
    BY <1>1 DEF PutDrain, Acknowledge, RequestOK, WantOK, DrainOK
  <1>3. TypeOK'
    BY <1>1, <1>2, <1>b DEF TypeOK
  <1>4. ASSUME NEW g \in Proc, g # h PROVE RequestOK(g)'
    BY <1>1, <1>2, <1>b, <1>4
      DEF RequestOK, WantOK, SessionOK, SizingOK, FinishOK, PutOK, DrainOK, ReaderOK, Sealed
  <1>5. RequestOK(h)'
    BY <1>2, EndedOK
  <1>6. FilesInv' /\ BlobsInv'
    BY <1>1, <1>b DEF FilesInv, BlobsInv, Sealed
  <1> QED
    BY <1>3, <1>4, <1>5, <1>6 DEF IInv

\* Put without a temporary file stores nothing.
LEMMA PutCreateFailsKeeps ==
    ASSUME IInv, NEW h \in Proc, PutCreateFails(h)
    PROVE  IInv'
  <1> USE ConstantsAssumption DEF diskVars, uploadVars, historyVars
  <1>1. TypeOK /\ FilesInv /\ BlobsInv /\ \A g \in Proc : RequestOK(g)
    BY DEF IInv
  <1>2. /\ req' \in [Proc -> Request]
        /\ \A g \in Proc \ {h} : req'[g] = req[g]
        /\ req'[h].pc = "idle"
    BY <1>1, EndsFacts DEF PutCreateFails, TypeOK
  <1>3. Quiet
    BY <1>1 DEF PutCreateFails, Quiet, TypeOK
  <1>4. RequestOK(h)'
    BY <1>2, EndedOK
  <1> QED
    BY <1>2, <1>3, <1>4, QuietKeeps

\* The verified body is the whole file: the preallocated zeros are overwritten
\* because an announced size must match.
LEMMA PutCommitKeeps == ASSUME IInv, NEW h \in Proc, PutCommit(h) PROVE IInv'
  <1> USE ConstantsAssumption DEF Names, diskVars, uploadVars, historyVars
  <1>1. TypeOK /\ FilesInv /\ BlobsInv /\ \A g \in Proc : RequestOK(g)
    BY DEF IInv
  <1>2. /\ req' \in [Proc -> Request]
        /\ \A g \in Proc \ {h} : req'[g] = req[g]
        /\ req'[h].pc = "idle"
    BY <1>1, EndsFacts DEF PutCommit, PutEnds, TypeOK
  <1>b. DigestOf(data[req[h].file]) = req[h].want
    BY <1>1 DEF PutCommit, PutAccepts, RequestOK, PutOK
  <1>3. TypeOK'
    BY <1>1, <1>2
      DEF PutCommit, PutEnds, Acknowledge, TypeOK, Request, RequestOK, WantOK,
          SessionOK, PutOK, SessionPCs, SizingPCs, LockedPCs, PutPCs
  <1>4. ASSUME NEW g \in Proc, g # h PROVE RequestOK(g)'
    BY <1>1, <1>2, <1>4
      DEF PutCommit, PutEnds, Acknowledge, TypeOK, Request, FilesInv, RequestOK,
          WantOK, SessionOK, SizingOK, FinishOK, PutOK, DrainOK, ReaderOK, Sealed, SessionPCs, SizingPCs,
          LockedPCs, PutPCs
  <1>5. RequestOK(h)'
    BY <1>2, EndedOK
  <1>6. FilesInv' /\ BlobsInv'
    BY <1>1, <1>2, <1>b
      DEF PutCommit, PutEnds, Acknowledge, TypeOK, Request, FilesInv, BlobsInv,
          RequestOK, WantOK, SessionOK, SizingOK, FinishOK, PutOK, DrainOK, ReaderOK, Sealed,
          SessionPCs, SizingPCs, LockedPCs, PutPCs
  <1> QED
    BY <1>3, <1>4, <1>5, <1>6 DEF IInv

\* A failed check removes the temporary file and commits nothing.
LEMMA PutRejectsKeeps == ASSUME IInv, NEW h \in Proc, PutRejects(h) PROVE IInv'
  <1> USE ConstantsAssumption DEF diskVars, uploadVars, historyVars
  <1>1. TypeOK /\ FilesInv /\ BlobsInv /\ \A g \in Proc : RequestOK(g)
    BY DEF IInv
  <1>2. /\ req' \in [Proc -> Request]
        /\ \A g \in Proc \ {h} : req'[g] = req[g]
        /\ req'[h].pc = "idle"
    BY <1>1, EndsFacts DEF PutRejects, PutEnds, TypeOK
  <1>3. TypeOK'
    BY <1>1, <1>2
      DEF PutRejects, PutEnds, TypeOK, Request, RequestOK, WantOK, SessionOK, PutOK,
          SessionPCs, SizingPCs, LockedPCs, PutPCs
  <1>4. ASSUME NEW g \in Proc, g # h PROVE RequestOK(g)'
    BY <1>1, <1>2, <1>4
      DEF PutRejects, PutEnds, TypeOK, Request, FilesInv, RequestOK, WantOK,
          SessionOK, SizingOK, FinishOK, PutOK, DrainOK, ReaderOK, Sealed, SessionPCs, SizingPCs, LockedPCs,
          PutPCs
  <1>5. RequestOK(h)'
    BY <1>2, EndedOK
  <1>6. FilesInv' /\ BlobsInv'
    BY <1>1, <1>2
      DEF PutRejects, PutEnds, TypeOK, Request, FilesInv, BlobsInv, RequestOK,
          WantOK, SessionOK, SizingOK, FinishOK, PutOK, DrainOK, ReaderOK, Sealed, SessionPCs, SizingPCs,
          LockedPCs, PutPCs
  <1> QED
    BY <1>3, <1>4, <1>5, <1>6 DEF IInv

\* A broken body removes the temporary file and commits nothing.
LEMMA PutBreaksKeeps == ASSUME IInv, NEW h \in Proc, PutBreaks(h) PROVE IInv'
  <1> USE ConstantsAssumption DEF diskVars, uploadVars, historyVars
  <1>1. TypeOK /\ FilesInv /\ BlobsInv /\ \A g \in Proc : RequestOK(g)
    BY DEF IInv
  <1>2. /\ req' \in [Proc -> Request]
        /\ \A g \in Proc \ {h} : req'[g] = req[g]
        /\ req'[h].pc = "idle"
    BY <1>1, EndsFacts DEF PutBreaks, PutEnds, TypeOK
  <1>3. TypeOK'
    BY <1>1, <1>2
      DEF PutBreaks, PutEnds, TypeOK, Request, RequestOK, WantOK, SessionOK, PutOK,
          SessionPCs, SizingPCs, LockedPCs, PutPCs
  <1>4. ASSUME NEW g \in Proc, g # h PROVE RequestOK(g)'
    BY <1>1, <1>2, <1>4
      DEF PutBreaks, PutEnds, TypeOK, Request, FilesInv, RequestOK, WantOK,
          SessionOK, SizingOK, FinishOK, PutOK, DrainOK, ReaderOK, Sealed, SessionPCs, SizingPCs, LockedPCs,
          PutPCs
  <1>5. RequestOK(h)'
    BY <1>2, EndedOK
  <1>6. FilesInv' /\ BlobsInv'
    BY <1>1, <1>2
      DEF PutBreaks, PutEnds, TypeOK, Request, FilesInv, BlobsInv, RequestOK,
          WantOK, SessionOK, SizingOK, FinishOK, PutOK, DrainOK, ReaderOK, Sealed, SessionPCs, SizingPCs,
          LockedPCs, PutPCs
  <1> QED
    BY <1>3, <1>4, <1>5, <1>6 DEF IInv

\* A reader that is done changes nothing.
LEMMA GetDoneKeeps == ASSUME IInv, NEW h \in Proc, GetDone(h) PROVE IInv'
  <1> USE ConstantsAssumption DEF diskVars, uploadVars, historyVars
  <1>1. TypeOK /\ FilesInv /\ BlobsInv /\ \A g \in Proc : RequestOK(g)
    BY DEF IInv
  <1>2. /\ req' \in [Proc -> Request]
        /\ \A g \in Proc \ {h} : req'[g] = req[g]
        /\ req'[h].pc = "idle"
    BY <1>1, EndsFacts DEF GetDone, TypeOK
  <1>3. Quiet
    BY <1>1 DEF GetDone, Quiet, TypeOK
  <1>4. RequestOK(h)'
    BY <1>2, EndedOK
  <1> QED
    BY <1>2, <1>3, <1>4, QuietKeeps

\* A reader gets the file of a committed blob, which is sealed.
LEMMA GetOpenKeeps == ASSUME IInv, NEW h \in Proc, GetOpen(h) PROVE IInv'
  <1> USE ConstantsAssumption DEF diskVars, uploadVars, historyVars
  <1>1. TypeOK /\ FilesInv /\ BlobsInv /\ \A g \in Proc : RequestOK(g)
    BY DEF IInv
  <1>2. /\ req' \in [Proc -> Request]
        /\ \A g \in Proc \ {h} : req'[g] = req[g]
        /\ \/ req'[h].pc = "idle"
           \/ /\ req'[h].pc = "serve"
              /\ blobs[req[h].want] # NoFile
              /\ req'[h].file = blobs[req[h].want] /\ req'[h].want = req[h].want
    <2>1. blobs[req[h].want] \in File \cup {NoFile}
      BY <1>1 DEF GetOpen, TypeOK, RequestOK, WantOK
    <2>2. req \in [Proc -> Request]
      BY <1>1 DEF TypeOK
    <2>3. CASE blobs[req[h].want] = NoFile
      BY <2>2, <2>3, EndsFacts DEF GetOpen
    <2>4. CASE blobs[req[h].want] # NoFile
      <3>1. req' = [req EXCEPT ![h].pc = "serve", ![h].file = blobs[req[h].want]]
        BY <2>4 DEF GetOpen
      <3> QED
        BY <2>1, <2>2, <2>4, <3>1, OpenedFacts
    <2> QED
      BY <2>3, <2>4
  <1>b. /\ req[h].pc = "get" /\ req[h].want \in Digest
        /\ UNCHANGED <<data, synced, uploadDir, tmpDir, blobs, names, used, open, uploads,
                       pos, Size, mu, bsmu, acked, abandoned, outages>>
    BY <1>1 DEF GetOpen, RequestOK, WantOK
  <1>3. Quiet
    BY <1>1 DEF GetOpen, Quiet, TypeOK
  <1>4. RequestOK(h)'
    BY <1>1, <1>2, <1>b
      DEF TypeOK, BlobsInv, RequestOK, WantOK, SessionOK, SizingOK, FinishOK, PutOK, DrainOK,
          ReaderOK, Sealed, SessionPCs, SizingPCs, LockedPCs, PutPCs
  <1> QED
    BY <1>2, <1>3, <1>4, QuietKeeps

\* The temporary file of Put is new: no session and no blob is behind it.
LEMMA PutCreateKeeps == ASSUME IInv, NEW h \in Proc, PutCreate(h) PROVE IInv'
  <1> USE ConstantsAssumption DEF diskVars, uploadVars, historyVars
  <1>1. TypeOK /\ FilesInv /\ BlobsInv /\ \A g \in Proc : RequestOK(g)
    BY DEF IInv
  <1>0. PICK f \in File \ used :
           /\ used' = used \cup {f}
           /\ open' = open \cup {f}
           /\ tmpDir' = tmpDir \cup {f}
           /\ \E n \in {0, req[h].num} : data' = [data EXCEPT ![f] = Zeros(n)]
           /\ req' = [req EXCEPT ![h].pc = "putCopy", ![h].file = f]
    BY DEF PutCreate
  <1>2. /\ req' \in [Proc -> Request]
        /\ \A g \in Proc \ {h} : req'[g] = req[g]
        /\ req'[h].pc = "putCopy" /\ req'[h].file = f
        /\ req'[h].want = req[h].want /\ req'[h].num = req[h].num
        /\ req[h].pc = "putWait" /\ req[h].num \in Nat
        /\ bsmu = NoProc /\ bsmu' = h
        /\ UNCHANGED <<synced, uploadDir, blobs, names, uploads, pos, Size, mu, acked,
                       abandoned, outages>>
    BY <1>0, <1>1, CreatedFacts DEF PutCreate, TypeOK, RequestOK, PutOK
  <1>c. PICK n \in {0, req[h].num} : data' = [data EXCEPT ![f] = Zeros(n)]
    BY <1>0
  <1>d. data' \in [File -> Seq(Byte)] /\ Len(data'[f]) \in {0, req[h].num}
    <2>1. Zeros(n) \in Seq(Byte) /\ Len(Zeros(n)) = n
      BY <1>2, ZerosType
    <2> QED
      BY <1>1, <1>c, <2>1 DEF TypeOK
  <1>3. TypeOK'
    BY <1>0, <1>1, <1>2, <1>d DEF TypeOK
  <1>4. ASSUME NEW g \in Proc, g # h PROVE RequestOK(g)'
    BY <1>0, <1>1, <1>2, <1>4
      DEF TypeOK, Request, FilesInv, RequestOK, WantOK, SessionOK, SizingOK, FinishOK, PutOK,
          DrainOK, ReaderOK, Sealed, SessionPCs, SizingPCs, LockedPCs, PutPCs
  <1>5. RequestOK(h)'
    BY <1>0, <1>1, <1>2, <1>d
      DEF RequestOK, WantOK, SessionOK, SizingOK, FinishOK, PutOK, DrainOK, ReaderOK,
          SessionPCs, SizingPCs, LockedPCs, PutPCs
  <1>6. FilesInv' /\ BlobsInv'
    BY <1>1, <1>2, <1>0, ZerosType
      DEF TypeOK, Request, FilesInv, BlobsInv, RequestOK, WantOK, SessionOK, SizingOK,
          FinishOK, PutOK, DrainOK, ReaderOK, Sealed, SessionPCs, SizingPCs, LockedPCs, PutPCs
  <1> QED
    BY <1>3, <1>4, <1>5, <1>6 DEF IInv

\* The body lands in a file only this request can reach.
LEMMA PutCopyKeeps == ASSUME IInv, NEW h \in Proc, PutCopy(h) PROVE IInv'
  <1> USE ConstantsAssumption DEF diskVars, uploadVars, historyVars
  <1>1. TypeOK /\ FilesInv /\ BlobsInv /\ \A g \in Proc : RequestOK(g)
    BY DEF IInv
  <1>2. /\ req' \in [Proc -> Request]
        /\ \A g \in Proc \ {h} : req'[g] = req[g]
        /\ req'[h].pc = "putCommit" /\ req'[h].file = req[h].file
        /\ req'[h].want = req[h].want /\ req'[h].num = req[h].num
        /\ req'[h].body = req[h].body /\ req[h].body \in Seq(Byte)
    BY <1>1, GoesFacts DEF PutCopy, TypeOK, Request, PCs
  <1>3. TypeOK'
    BY <1>1, <1>2, ZerosType, WriteToType
      DEF PutCopy, TypeOK, Request, RequestOK, WantOK, SessionOK, PutOK, SessionPCs, SizingPCs,
          LockedPCs, PutPCs
  <1>4. ASSUME NEW g \in Proc, g # h PROVE RequestOK(g)'
    BY <1>1, <1>2, <1>4
      DEF PutCopy, TypeOK, Request, FilesInv, RequestOK, WantOK, SessionOK, SizingOK,
          FinishOK, PutOK, DrainOK, ReaderOK, Sealed, SessionPCs, SizingPCs, LockedPCs, PutPCs
  <1>5. RequestOK(h)'
    <2> DEFINE f == req[h].file
    <2>1. /\ req[h].pc = "putCopy" /\ req[h].want \in Digest /\ req[h].num \in Nat
          /\ f \in File /\ f \in tmpDir /\ f \in open /\ bsmu = h
          /\ data[f] \in Seq(Byte) /\ Len(data[f]) \in {0, req[h].num}
      BY <1>1 DEF PutCopy, TypeOK, RequestOK, WantOK, PutOK, PutPCs
    <2>2. /\ data'[f] = WriteTo(data[f], 0, req[h].body)
          /\ UNCHANGED <<tmpDir, open, bsmu>>
      BY <1>1, <2>1 DEF PutCopy, TypeOK
    <2>3. (req[h].num > 0 => Len(req[h].body) = req[h].num)
          => Len(data[f]) <= Len(req[h].body)
      BY <1>2, <2>1
    <2>4. (req[h].num > 0 => Len(req[h].body) = req[h].num)
          => data'[f] = req[h].body
      BY <1>2, <2>1, <2>2, <2>3, WriteToWhole
    <2> QED
      BY <1>2, <2>1, <2>2, <2>4
        DEF RequestOK, WantOK, SessionOK, SizingOK, FinishOK, PutOK, DrainOK, ReaderOK,
            SessionPCs, SizingPCs, LockedPCs, PutPCs
  <1>6. FilesInv' /\ BlobsInv'
    BY <1>1, <1>2
      DEF PutCopy, TypeOK, Request, FilesInv, BlobsInv, RequestOK, WantOK,
          SessionOK, SizingOK, FinishOK, PutOK, DrainOK, ReaderOK, Sealed, SessionPCs, SizingPCs, LockedPCs,
          PutPCs
  <1> QED
    BY <1>3, <1>4, <1>5, <1>6 DEF IInv

\* What the copy of Upload.Write and WriteAt does: it appends to or overwrites one
\* file, moves the handle and takes upload.mu.
LEMMA CopyFacts ==
    ASSUME IInv, NEW h \in Proc, Write(h), req[h].file \in open, CopyBody(h)
    PROVE  LET f == req[h].file
               p == IF req[h].num = NoOffset THEN pos[f] ELSE req[h].num IN
           \E n \in 0 .. Len(req[h].body) :
              /\ p \in Nat /\ n \in Nat
              /\ data'[f] = IF n = 0 THEN data[f]
                            ELSE WriteTo(data[f], p, Prefix(req[h].body, n))
              /\ data' \in [File -> Seq(Byte)]
              /\ \A e \in File \ {f} : data'[e] = data[e]
              /\ pos' = [pos EXCEPT ![f] = p + n]
              /\ synced' = IF n = 0 THEN synced ELSE synced \ {f}
              /\ mu' = [mu EXCEPT ![f] = h]
              /\ req' \in [Proc -> Request]
              /\ \A g \in Proc \ {h} : req'[g] = req[g]
              /\ req'[h].pc = IF req[h].pc = "write" THEN "size" ELSE "sizeThenFinish"
              /\ req'[h].file = f /\ req'[h].want = req[h].want
              /\ req'[h].num = req[h].num
              /\ req'[h].body = Prefix(req[h].body, n)
  <1> DEFINE f == req[h].file
             p == IF req[h].num = NoOffset THEN pos[f] ELSE req[h].num
             l == IF req[h].pc = "write" THEN "size" ELSE "sizeThenFinish"
  <1>1. TypeOK /\ f \in File /\ req[h] \in Request
    BY DEF IInv, TypeOK, Write, RequestOK, SessionOK, SessionPCs
  <1>2. p \in Nat /\ req[h].body \in Seq(Byte) /\ l \in PCs
    BY <1>1, Labels DEF TypeOK, Request
  <1>3. PICK n \in 0 .. Len(req[h].body) :
           /\ data' = [data EXCEPT ![f] =
                 IF n = 0 THEN @ ELSE WriteTo(@, p, Prefix(req[h].body, n))]
           /\ pos' = [pos EXCEPT ![f] = p + n]
           /\ synced' = IF n = 0 THEN synced ELSE synced \ {f}
           /\ mu' = [mu EXCEPT ![f] = h]
           /\ req' = [req EXCEPT ![h].pc = l, ![h].body = Prefix(req[h].body, n),
                                 ![h].match = (n = Len(req[h].body))]
    BY DEF CopyBody
  <1> DEFINE c == Prefix(req[h].body, n)
             m == (n = Len(req[h].body))
  <1>4. n \in Nat /\ c \in Seq(Byte) /\ m \in BOOLEAN
    BY <1>2, PrefixType
  <1>5. data[f] \in Seq(Byte) /\ WriteTo(data[f], p, c) \in Seq(Byte)
    <2>1. data[f] \in Seq(Byte)
      BY <1>1 DEF TypeOK
    <2> HIDE DEF f, p, c
    <2> QED
      BY <1>2, <1>4, <2>1, WriteToType
  <1>6. /\ data'[f] = IF n = 0 THEN data[f] ELSE WriteTo(data[f], p, c)
        /\ data' \in [File -> Seq(Byte)]
        /\ \A e \in File \ {f} : data'[e] = data[e]
    BY <1>1, <1>3, <1>5 DEF TypeOK
  <1>7. req \in [Proc -> Request] /\ req' = [req EXCEPT ![h].pc = l, ![h].body = c,
                                                       ![h].match = m]
    BY <1>1, <1>3 DEF TypeOK
  <1> DEFINE r == [pc |-> l, file |-> req[h].file, want |-> req[h].want, body |-> c,
                  num |-> req[h].num, match |-> m]
  <1> HIDE DEF l, c, m, f, p
  <1>r. r \in Request
    BY <1>1, <1>2, <1>4 DEF Request
  <1>s. req'[h] = r /\ \A g \in Proc \ {h} : req'[g] = req[g]
    BY <1>1, <1>7 DEF Request
  <1>t. req' \in [Proc -> Request]
    <2> HIDE DEF r
    <2> QED
      BY <1>7, <1>r, <1>s
  <1>8. /\ req' \in [Proc -> Request]
        /\ \A g \in Proc \ {h} : req'[g] = req[g]
        /\ req'[h].pc = l
        /\ req'[h].file = req[h].file /\ req'[h].want = req[h].want
        /\ req'[h].num = req[h].num /\ req'[h].body = c
    BY <1>s, <1>t
  <1> QED
    BY <1>2, <1>3, <1>4, <1>6, <1>8 DEF l, c, f, p

\* Upload.Write and WriteAt touch one open session file whose upload.mu is free:
\* neither a hashed file, nor a temporary one, nor a committed one.
LEMMA WriteKeeps == ASSUME IInv, NEW h \in Proc, Write(h) PROVE IInv'
  <1> USE ConstantsAssumption DEF diskVars, uploadVars, historyVars
  <1>1. TypeOK /\ FilesInv /\ BlobsInv /\ \A g \in Proc : RequestOK(g)
    BY DEF IInv
  <1> DEFINE f == req[h].file
  <1>a. /\ f \in File /\ f \in used /\ f \notin tmpDir /\ mu[f] = NoProc
        /\ req[h].pc \in {"write", "writeThenFinish"}
        /\ req[h].pc = "writeThenFinish" => req[h].want \in Digest
        /\ UNCHANGED <<uploadDir, tmpDir, blobs, names, used, open, uploads, Size, bsmu,
                       acked, abandoned, outages>>
    BY <1>1 DEF Write, TypeOK, Request, RequestOK, WantOK, SessionOK, SessionPCs
  <1>b. /\ req' \in [Proc -> Request]
        /\ \A g \in Proc \ {h} : req'[g] = req[g]
        /\ \/ req'[h].pc = "idle"
           \/ /\ \/ req'[h].pc \in {"size", "sizeThenFinish"} /\ mu'[f] = h
                 \/ req'[h].pc = "finish"
              /\ req'[h].pc # "size" => req[h].pc = "writeThenFinish"
              /\ req'[h].file = f /\ req'[h].want = req[h].want
        /\ data' \in [File -> Seq(Byte)] /\ synced' \subseteq File
        /\ pos' \in [File -> Nat] /\ mu' \in [File -> Proc \cup {NoProc}]
        /\ f \notin open => data' = data /\ synced' = synced
        /\ \A e \in File \ {f} :
              /\ data'[e] = data[e]
              /\ e \in synced <=> e \in synced'
              /\ mu'[e] = mu[e]
    <2>1. CASE f \notin open
      <3>1. UNCHANGED <<data, pos, synced, mu>>
        BY <2>1 DEF Write
      <3>2. /\ req' \in [Proc -> Request]
            /\ \A g \in Proc \ {h} : req'[g] = req[g]
            /\ \/ req'[h].pc = "idle"
               \/ /\ req'[h].pc = "finish" /\ req[h].pc = "writeThenFinish"
                  /\ req'[h].file = f /\ req'[h].want = req[h].want
        BY <1>1, <2>1, GoesFacts, EndsFacts, Labels DEF Write, TypeOK
      <3> QED
        BY <1>1, <2>1, <3>1, <3>2 DEF TypeOK
    <2>2. CASE f \in open
      <3>1. CopyBody(h)
        BY <2>2 DEF Write
      <3> DEFINE p == IF req[h].num = NoOffset THEN pos[f] ELSE req[h].num
      <3>2. PICK n \in 0 .. Len(req[h].body) :
              /\ p \in Nat /\ n \in Nat
              /\ data' \in [File -> Seq(Byte)]
              /\ \A e \in File \ {f} : data'[e] = data[e]
              /\ pos' = [pos EXCEPT ![f] = p + n]
              /\ synced' = IF n = 0 THEN synced ELSE synced \ {f}
              /\ mu' = [mu EXCEPT ![f] = h]
              /\ req' \in [Proc -> Request]
              /\ \A g \in Proc \ {h} : req'[g] = req[g]
              /\ req'[h].pc = IF req[h].pc = "write" THEN "size" ELSE "sizeThenFinish"
              /\ req'[h].file = f /\ req'[h].want = req[h].want
        BY <2>2, <3>1, CopyFacts
      <3> HIDE DEF p
      <3> QED
        BY <1>1, <1>a, <2>2, <3>2 DEF TypeOK
    <2> QED
      BY <2>1, <2>2
  <1> HIDE DEF f
  <1>3. TypeOK'
    BY <1>1, <1>a, <1>b DEF TypeOK
  <1>4. ASSUME NEW g \in Proc, g # h PROVE RequestOK(g)'
    <2>1. req'[g] = req[g] /\ RequestOK(g)
      BY <1>1, <1>b, <1>4
    <2>2. WantOK(g)' /\ SessionOK(g)'
      BY <2>1, <1>a DEF RequestOK, WantOK, SessionOK
    <2>3. FinishOK(g)' /\ SizingOK(g)'
      BY <1>1, <2>1, <1>a, <1>b
        DEF TypeOK, RequestOK, SessionOK, SizingOK, FinishOK, SessionPCs, SizingPCs,
            LockedPCs
    <2>4. PutOK(g)'
      BY <2>1, <1>a, <1>b DEF RequestOK, PutOK, PutPCs
    <2>5. ReaderOK(g)'
      <3> SUFFICES ASSUME req[g].pc = "serve"
                   PROVE  /\ Sealed(req[g].file)'
                          /\ DigestOf(data'[req[g].file]) = req[g].want
        BY <2>1 DEF ReaderOK, Sealed
      <3>1. Sealed(req[g].file) /\ DigestOf(data[req[g].file]) = req[g].want
        BY <2>1 DEF RequestOK, ReaderOK
      <3> QED
        BY <2>1, <3>1, <1>a, <1>b DEF Sealed
    <2>6. DrainOK(g)'
      BY <2>1, <1>a DEF RequestOK, DrainOK
    <2> QED
      BY <2>2, <2>3, <2>4, <2>5, <2>6 DEF RequestOK
  <1>5. RequestOK(h)'
    BY <1>1, <1>a, <1>b
      DEF TypeOK, f, RequestOK, WantOK, SessionOK, SizingOK, FinishOK, PutOK, DrainOK,
          ReaderOK, Sealed, SessionPCs, SizingPCs, LockedPCs, PutPCs
  <1>6. FilesInv' /\ BlobsInv'
    BY <1>1, <1>a, <1>b DEF TypeOK, FilesInv, BlobsInv, Sealed
  <1> QED
    BY <1>3, <1>4, <1>5, <1>6 DEF IInv

\* The answer to a PATCH and the last call of a PUT are requests.
LEMMA SizedType ==
    ASSUME NEW f \in File, NEW d \in Digest, NEW n \in Nat
    PROVE  /\ NewReq("finish", f, d, <<>>, NoOffset) \in Request
           /\ NewReq("answer", f, NoDigest, <<>>, n) \in Request
  BY EmptyBody, Labels DEF NewReq, Request, PCs

\* Size never shrinks.
LEMMA NewSizeGrows ==
    ASSUME NEW h, NEW n \in Nat, Size[req[h].file] \in Nat,
           req[h].num # NoOffset => req[h].num \in Nat
    PROVE  NewSize(h, n) \in Nat /\ Size[req[h].file] <= NewSize(h, n)
  BY DEF NewSize

\* Size grows and upload.mu, which its holder had, is free.
LEMMA SetSizeKeeps == ASSUME IInv, NEW h \in Proc, SetSize(h) PROVE IInv'
  <1> USE ConstantsAssumption DEF diskVars, uploadVars, historyVars
  <1>1. TypeOK /\ FilesInv /\ BlobsInv /\ \A g \in Proc : RequestOK(g)
    BY DEF IInv
  <1> DEFINE f == req[h].file
  <1>2. /\ req[h].pc \in {"size", "sizeThenFinish"} /\ mu[f] = h
        /\ req[h].pc = "sizeThenFinish" => req[h].want \in Digest
        /\ f \in File /\ f \in used /\ f \notin tmpDir
        /\ UNCHANGED <<data, synced, uploadDir, tmpDir, blobs, names, used, open, uploads,
                       pos, bsmu, acked, abandoned, outages>>
        /\ mu' = [mu EXCEPT ![f] = NoProc]
    BY <1>1
      DEF SetSize, Unlock, RequestOK, WantOK, SessionOK, SizingOK, SessionPCs, SizingPCs
  <1>3. Size' \in [File -> Nat]
    <2>1. req[h] \in Request
      BY <1>1 DEF TypeOK
    <2>2. /\ Size[f] \in Nat /\ Len(req[h].body) \in Nat
          /\ req[h].num # NoOffset => req[h].num \in Nat
      BY <1>1, <1>2, <2>1 DEF TypeOK, Request
    <2>3. NewSize(h, Len(req[h].body)) \in Nat
      BY <2>2, NewSizeGrows
    <2> QED
      BY <1>1, <2>3 DEF SetSize, TypeOK
  <1>4. /\ req' \in [Proc -> Request]
        /\ \A g \in Proc \ {h} : req'[g] = req[g]
        /\ \/ req'[h].pc = "idle"
           \/ req'[h].pc = "answer" /\ req'[h].file = f
           \/ /\ req'[h].pc = "finish" /\ req[h].pc = "sizeThenFinish"
              /\ req'[h].file = f /\ req'[h].want = req[h].want
    <2>1. CASE req[h].pc = "sizeThenFinish"
      <3>1. req' = [req EXCEPT ![h] = NewReq("finish", f, req[h].want, <<>>, NoOffset)]
        BY <2>1 DEF SetSize
      <3>2. NewReq("finish", f, req[h].want, <<>>, NoOffset) \in Request
        BY <1>2, <2>1, SizedType
      <3>3. /\ NewReq("finish", f, req[h].want, <<>>, NoOffset).pc = "finish"
            /\ NewReq("finish", f, req[h].want, <<>>, NoOffset).file = f
            /\ NewReq("finish", f, req[h].want, <<>>, NoOffset).want = req[h].want
        BY DEF NewReq
      <3> QED
        BY <1>1, <2>1, <3>1, <3>2, <3>3 DEF TypeOK
    <2>2. CASE req[h].pc = "size" /\ req[h].match
      <3>1. req' = [req EXCEPT ![h] = NewReq("answer", f, NoDigest, <<>>, pos[f])]
        BY <2>2 DEF SetSize
      <3>2. NewReq("answer", f, NoDigest, <<>>, pos[f]) \in Request
        BY <1>1, <1>2, EmptyBody, Labels DEF TypeOK, NewReq, Request, PCs
      <3>3. /\ NewReq("answer", f, NoDigest, <<>>, pos[f]).pc = "answer"
            /\ NewReq("answer", f, NoDigest, <<>>, pos[f]).file = f
        BY DEF NewReq
      <3> QED
        BY <1>1, <3>1, <3>2, <3>3 DEF TypeOK
    <2>3. CASE req[h].pc = "size" /\ ~req[h].match
      BY <1>1, <2>3, EndsFacts DEF SetSize, TypeOK
    <2> QED
      BY <1>2, <2>1, <2>2, <2>3
  <1>5. TypeOK'
    BY <1>1, <1>2, <1>3, <1>4 DEF TypeOK
  <1>6. ASSUME NEW g \in Proc, g # h PROVE RequestOK(g)'
    <2>1. req'[g] = req[g] /\ RequestOK(g)
      BY <1>1, <1>4, <1>6
    <2> HIDE DEF f
    <2> QED
      BY <1>1, <1>2, <1>6, <2>1
        DEF TypeOK, RequestOK, WantOK, SessionOK, SizingOK, FinishOK, PutOK, DrainOK,
            ReaderOK, Sealed, SessionPCs, SizingPCs, LockedPCs, PutPCs
  <1> HIDE DEF f
  <1>7. RequestOK(h)'
    BY <1>2, <1>4
      DEF RequestOK, WantOK, SessionOK, SizingOK, FinishOK, PutOK, DrainOK, ReaderOK,
          SessionPCs, SizingPCs, LockedPCs, PutPCs
  <1>8. FilesInv' /\ BlobsInv'
    BY <1>1, <1>2 DEF FilesInv, BlobsInv, Sealed
  <1> QED
    BY <1>5, <1>6, <1>7, <1>8 DEF IInv

\* The answer to a PATCH.
LEMMA AnswerKeeps == ASSUME IInv, NEW h \in Proc, Answer(h) PROVE IInv'
  <1>1. /\ req' \in [Proc -> Request]
        /\ \A g \in Proc \ {h} : req'[g] = req[g]
        /\ req'[h].pc = "idle"
    BY EndsFacts DEF Answer, IInv, TypeOK
  <1>2. RequestOK(h)'
    BY <1>1, EndedOK
  <1>3. Quiet
    BY DEF Answer, Quiet, IInv, TypeOK, diskVars, uploadVars, historyVars
  <1> QED
    BY <1>1, <1>2, <1>3, QuietKeeps

\* Start makes a new file.
LEMMA StartKeeps == ASSUME IInv, Start PROVE IInv'
  <1> USE ConstantsAssumption DEF diskVars, uploadVars, historyVars
  <1>1. TypeOK /\ FilesInv /\ BlobsInv /\ \A g \in Proc : RequestOK(g)
    BY DEF IInv
  <1>2. TypeOK'
    BY <1>1 DEF Start, TypeOK
  <1>3. ASSUME NEW g \in Proc PROVE RequestOK(g)'
    BY <1>1
      DEF Start, TypeOK, FilesInv, RequestOK, WantOK, SessionOK, SizingOK, FinishOK, PutOK,
          DrainOK, ReaderOK, Sealed, SessionPCs, SizingPCs, LockedPCs, PutPCs
  <1>4. FilesInv' /\ BlobsInv'
    BY <1>1 DEF Start, TypeOK, FilesInv, BlobsInv, Sealed
  <1> QED
    BY <1>2, <1>3, <1>4 DEF IInv

\* The cleaner closes files under the writers: that can only seal them.
LEMMA CleanupStaleKeeps == ASSUME IInv, CleanupStale PROVE IInv'
  <1> USE ConstantsAssumption DEF diskVars, uploadVars, historyVars
  <1>1. TypeOK /\ FilesInv /\ BlobsInv /\ \A g \in Proc : RequestOK(g)
    BY DEF IInv
  <1>2. TypeOK'
    BY <1>1 DEF CleanupStale, TypeOK
  <1>3. ASSUME NEW g \in Proc PROVE RequestOK(g)'
    BY <1>1
      DEF CleanupStale, TypeOK, FilesInv, RequestOK, WantOK, SessionOK, SizingOK, FinishOK,
          PutOK, DrainOK, ReaderOK, Sealed, SessionPCs, SizingPCs, LockedPCs, PutPCs
  <1>4. FilesInv' /\ BlobsInv'
    BY <1>1 DEF CleanupStale, TypeOK, FilesInv, BlobsInv, Sealed
  <1> QED
    BY <1>2, <1>3, <1>4 DEF IInv

\* A deleted blob keeps its bytes for those who still read it.
LEMMA DeleteBlobKeeps == ASSUME IInv, DeleteBlob PROVE IInv'
  <1> USE ConstantsAssumption DEF Names, uploadVars
  <1>1. TypeOK /\ FilesInv /\ BlobsInv /\ \A g \in Proc : RequestOK(g)
    BY DEF IInv
  <1>2. TypeOK'
    BY <1>1 DEF DeleteBlob, TypeOK
  <1>3. ASSUME NEW g \in Proc PROVE RequestOK(g)'
    BY <1>1
      DEF DeleteBlob, RequestOK, WantOK, SessionOK, SizingOK, FinishOK, PutOK, DrainOK,
          ReaderOK, Sealed
  <1>4. FilesInv' /\ BlobsInv'
    BY <1>1 DEF DeleteBlob, TypeOK, FilesInv, BlobsInv, Sealed
  <1> QED
    BY <1>2, <1>3, <1>4 DEF IInv

\* After a restart no request and no lock is left.
LEMMA RestartsClean ==
    ASSUME IInv, Restarts
    PROVE  /\ req' \in [Proc -> Request]
           /\ \A g \in Proc : RequestOK(g)'
           /\ FilesInv'
           /\ UNCHANGED <<synced, uploadDir, tmpDir, used>> /\ open' = {}
           /\ abandoned' \subseteq File
  <1>1. req' \in [Proc -> Request] /\ \A g \in Proc : req'[g].pc = "idle"
    BY IdleType DEF Restarts
  <1>2. \A g \in Proc : RequestOK(g)'
    BY <1>1, EndedOK
  <1> QED
    BY <1>1, <1>2 DEF Restarts, IInv, TypeOK, FilesInv

\* A crash of the process changes nothing on disk.
LEMMA CrashKeeps == ASSUME IInv, Crash PROVE IInv'
  <1>1. TypeOK /\ BlobsInv
    BY DEF IInv
  <1>2. TypeOK'
    BY <1>1, RestartsClean, ConstantsAssumption DEF Crash, Restarts, TypeOK
  <1>3. BlobsInv'
    BY <1>1, RestartsClean DEF Crash, BlobsInv, Sealed
  <1> QED
    BY <1>2, <1>3, RestartsClean DEF Crash, IInv

\* A power loss cuts only files that were never synced, and no entry of a digest ever
\* named one of them.
LEMMA PowerLossKeeps == ASSUME IInv, PowerLoss PROVE IInv'
  <1> USE ConstantsAssumption
  <1>1. TypeOK /\ BlobsInv
    BY DEF IInv
  <1>2. /\ data' \in [File -> Seq(Byte)]
        /\ \A f \in synced : data'[f] = data[f]
    <2>1. PICK cut \in [used \ synced -> 0 .. MaxLen] :
             data' = [f \in File |-> IF f \in used \ synced
                                     THEN Prefix(data[f], cut[f])
                                     ELSE data[f]]
      BY DEF PowerLoss
    <2>2. ASSUME NEW f \in File, f \in used \ synced
          PROVE  Prefix(data[f], cut[f]) \in Seq(Byte)
      BY <1>1, <2>2, PrefixType DEF TypeOK
    <2> QED
      BY <1>1, <2>1, <2>2 DEF TypeOK
  <1>3. /\ blobs' \in [Digest -> File \cup {NoFile}]
        /\ \A d \in Digest : blobs'[d] \in names[d]
        /\ names' = [d \in Digest |-> {blobs'[d]}]
        /\ acked' \subseteq acked
    BY DEF PowerLoss
  <1>4. TypeOK'
    BY <1>1, <1>2, <1>3, RestartsClean DEF PowerLoss, Restarts, TypeOK
  <1>5. BlobsInv'
    BY <1>1, <1>2, <1>3, RestartsClean DEF PowerLoss, TypeOK, BlobsInv, Sealed
  <1> QED
    BY <1>4, <1>5, RestartsClean DEF PowerLoss, IInv

\* Every step of the server, its clients or the machine keeps IInv.
LEMMA NextIInv == IInv /\ [Next]_vars => IInv'
  <1> SUFFICES ASSUME IInv, [Next]_vars PROVE IInv'
    OBVIOUS
  <1>1. CASE UNCHANGED vars
    BY <1>1
      DEF vars, diskVars, uploadVars, historyVars, IInv, TypeOK, FilesInv, BlobsInv,
          RequestOK, WantOK, SessionOK, SizingOK, FinishOK, PutOK, DrainOK, ReaderOK, Sealed
  <1>2. ASSUME NEW h \in Proc, NewRequest(h) PROVE IInv'
    BY <1>2, UploadChunkKeeps, FinishUploadKeeps, CancelTakeKeeps, PutBlobKeeps,
       GetBlobKeeps
      DEF NewRequest
  <1>3. ASSUME NEW h \in Proc, ServerStep(h) PROVE IInv'
    BY <1>3, FinishTakeKeeps, FinishHashKeeps, FinishReadFailsKeeps,
       FinishCloseKeeps, FinishStatKeeps, FinishRenameKeeps, FinishFailsKeeps,
       CancelRemoveKeeps, PutDedupKeeps, PutCreateKeeps, PutCreateFailsKeeps,
       PutCommitKeeps, PutRejectsKeeps, GetOpenKeeps, SetSizeKeeps, AnswerKeeps
      DEF ServerStep
  <1>4. ASSUME NEW h \in Proc, ClientStep(h) PROVE IInv'
    BY <1>4, WriteKeeps, PutDrainKeeps, PutCopyKeeps, PutBreaksKeeps, GetDoneKeeps
      DEF ClientStep
  <1>5. CASE Start \/ CleanupStale \/ DeleteBlob \/ Crash \/ PowerLoss
    BY <1>5, StartKeeps, CleanupStaleKeeps, DeleteBlobKeeps, CrashKeeps, PowerLossKeeps
  <1> QED
    BY <1>1, <1>2, <1>3, <1>4, <1>5 DEF Next

\* The invariant holds in every state of every behaviour.
LEMMA Invariance == Spec => []IInv
  BY InitIInv, NextIInv, PTL DEF Spec

-----------------------------------------------------------------------------
(* Theorems *)

\* No handler stores a value outside its type: sizes and positions stay natural
\* numbers and files stay sequences of bytes, for all bodies and offsets.
THEOREM TypeCorrect == Spec => []TypeOK
  <1>1. IInv => TypeOK
    BY DEF IInv
  <1> QED
    BY <1>1, Invariance, PTL

\* Every file under blobs/ hashes to its name: UploadManager.Finish and
\* BlobStore.Put never commit bytes other than the ones they verified, and
\* nobody changes them afterwards.
THEOREM Integrity == Spec => []BlobIntegrity
  <1>1. IInv => BlobIntegrity
    BY DEF IInv, BlobsInv, BlobIntegrity
  <1> QED
    BY <1>1, Invariance, PTL

\* A reader that BlobStore.Get handed out reads the content its digest names
\* until it is closed, although it holds no lock.
THEOREM Readers == Spec => []ReadersSeeDigest
  <1>1. IInv => ReadersSeeDigest
    BY DEF IInv, RequestOK, ReaderOK, ReadersSeeDigest
  <1> QED
    BY <1>1, Invariance, PTL

\* What Put or Finish reported stored is there until BlobStore.Delete removes it or
\* the machine loses power: deduplication, a rename over another upload's blob, the
\* clean-up of failed uploads and crashes of the process lose nothing.
THEOREM StaysStored == Spec => []AckedPresent
  <1>1. Init => AckedPresent
    BY DEF Init, AckedPresent
  <1>2. IInv /\ AckedPresent /\ [Next]_vars => AckedPresent'
    <2> SUFFICES ASSUME IInv, AckedPresent, [Next]_vars PROVE AckedPresent'
      OBVIOUS
    <2> USE ConstantsAssumption DEF Names, diskVars, uploadVars, historyVars
    <2>1. /\ blobs \in [Digest -> File \cup {NoFile}]
          /\ acked \subseteq Digest
          /\ \A h \in Proc : RequestOK(h)
      BY DEF IInv, TypeOK
    <2>2. CASE UNCHANGED vars
      BY <2>2 DEF vars, AckedPresent
    <2>3. ASSUME NEW h \in Proc, FinishRename(h) PROVE AckedPresent'
      BY <2>1, <2>3
        DEF FinishRename, Acknowledge, AckedPresent, RequestOK, WantOK, SessionOK,
            SessionPCs
    <2>4. ASSUME NEW h \in Proc, PutCommit(h) PROVE AckedPresent'
      BY <2>1, <2>4
        DEF PutCommit, Acknowledge, AckedPresent, RequestOK, WantOK, PutOK, PutPCs
    <2>5. ASSUME NEW h \in Proc, FinishStat(h) PROVE AckedPresent'
      BY <2>5 DEF FinishStat, Acknowledge, AckedPresent
    <2>6. ASSUME NEW h \in Proc, PutDrain(h) PROVE AckedPresent'
      BY <2>1, <2>6 DEF PutDrain, Acknowledge, AckedPresent, RequestOK, DrainOK
    <2>7. CASE DeleteBlob
      BY <2>1, <2>7 DEF DeleteBlob, AckedPresent
    <2>8. CASE UNCHANGED <<blobs, acked>>
      BY <2>8 DEF AckedPresent
    <2> QED
      <3>1. ASSUME NEW h \in Proc, NewRequest(h) PROVE UNCHANGED <<blobs, acked>>
        BY <3>1
          DEF NewRequest, UploadChunk, FinishUpload, CancelTake, PutBlob, GetBlob
      <3>2. ASSUME NEW h \in Proc, ServerStep(h) PROVE AckedPresent'
        BY <2>3, <2>4, <2>5, <2>8, <3>2
          DEF ServerStep, FinishTake, FinishHash, FinishReadFails, FinishClose,
              FinishFails, CancelRemove, PutDedup, PutCreate, PutCreateFails, PutRejects,
              GetOpen, SetSize, Answer
      <3>3. ASSUME NEW h \in Proc, ClientStep(h) PROVE AckedPresent'
        BY <2>6, <2>8, <3>3 DEF ClientStep, Write, PutCopy, PutBreaks, GetDone
      <3>4. CASE Start \/ CleanupStale \/ Crash
        BY <3>4, <2>8 DEF Start, CleanupStale, Crash
      <3>5. CASE PowerLoss
        BY <3>5 DEF PowerLoss, AckedPresent
      <3> QED
        BY <2>2, <2>7, <2>8, <3>1, <3>2, <3>3, <3>4, <3>5 DEF Next
  <1> QED
    BY <1>1, <1>2, Invariance, PTL DEF Spec

-----------------------------------------------------------------------------
(* The content store *)

\* The bytes of a sealed file stay what they are.
LEMMA SealedKept ==
    ASSUME IInv, [Next]_vars, NEW f, Sealed(f)
    PROVE  data'[f] = data[f]
  <1> USE DEF diskVars, uploadVars, historyVars
  <1>1. TypeOK /\ f \in File /\ f \in used /\ f \in synced /\ f \notin open
    BY DEF IInv, Sealed
  <1>2. CASE UNCHANGED data
    BY <1>2
  <1>3. ASSUME NEW h \in Proc, Write(h) PROVE data'[f] = data[f]
    <2>1. CASE req[h].file \in open /\ CopyBody(h)
      <3>1. f # req[h].file
        BY <1>1, <2>1
      <3>2. QED
        BY <1>1, <2>1, <3>1 DEF CopyBody, TypeOK
    <2>2. CASE UNCHANGED data
      BY <2>2
    <2> QED
      BY <1>3, <2>1, <2>2 DEF Write
  <1>4. ASSUME NEW h \in Proc, PutCreate(h) PROVE data'[f] = data[f]
    BY <1>1, <1>4 DEF PutCreate, TypeOK
  <1>5. ASSUME NEW h \in Proc, PutCopy(h) PROVE data'[f] = data[f]
    <2>1. req[h].file \in open
      BY <1>5 DEF PutCopy, IInv, RequestOK, PutOK, PutPCs
    <2>2. f # req[h].file
      BY <1>1, <2>1
    <2> QED
      BY <1>1, <1>5, <2>2 DEF PutCopy, TypeOK
  <1>6. CASE Crash \/ PowerLoss
    BY <1>1, <1>6 DEF Crash, PowerLoss
  <1>7. ASSUME NEW h \in Proc, NewRequest(h) PROVE UNCHANGED data
    BY <1>7 DEF NewRequest, UploadChunk, FinishUpload, CancelTake, PutBlob, GetBlob
  <1>8. ASSUME NEW h \in Proc, ServerStep(h) PROVE data'[f] = data[f]
    BY <1>2, <1>4, <1>8
      DEF ServerStep, FinishTake, FinishHash, FinishReadFails, FinishClose, FinishStat,
          FinishRename, FinishFails, CancelRemove, PutDedup, PutCreateFails, PutCommit,
          PutRejects, GetOpen, SetSize, Answer
  <1>9. ASSUME NEW h \in Proc, ClientStep(h) PROVE data'[f] = data[f]
    BY <1>2, <1>3, <1>5, <1>9 DEF ClientStep, PutDrain, PutBreaks, GetDone
  <1>10. CASE Start \/ CleanupStale \/ DeleteBlob
    BY <1>10 DEF Start, CleanupStale, DeleteBlob
  <1>11. CASE UNCHANGED vars
    BY <1>11 DEF vars
  <1> QED
    BY <1>6, <1>7, <1>8, <1>9, <1>10, <1>11 DEF Next

\* A step other than a power loss commits or removes at most one blob.
LEMMA OneBlob ==
    ASSUME IInv, [Next]_vars, ~ PowerLoss
    PROVE  \/ UNCHANGED blobs
           \/ \E d \in Digest : blobs' = [blobs EXCEPT ![d] = blobs'[d]]
  <1> USE DEF Names, diskVars, uploadVars, historyVars
  <1>1. blobs \in [Digest -> File \cup {NoFile}]
    BY DEF IInv, TypeOK
  <1>2. ASSUME NEW h \in Proc, FinishRename(h)
        PROVE  \E d \in Digest : blobs' = [blobs EXCEPT ![d] = blobs'[d]]
    <2>1. req[h].want \in Digest
      BY <1>2 DEF FinishRename, IInv, RequestOK, WantOK
    <2> QED
      BY <1>1, <1>2, <2>1 DEF FinishRename
  <1>3. ASSUME NEW h \in Proc, PutCommit(h)
        PROVE  \E d \in Digest : blobs' = [blobs EXCEPT ![d] = blobs'[d]]
    <2>1. req[h].want \in Digest
      BY <1>3 DEF PutCommit, IInv, RequestOK, WantOK
    <2> QED
      BY <1>1, <1>3, <2>1 DEF PutCommit
  <1>4. CASE DeleteBlob
    BY <1>1, <1>4 DEF DeleteBlob
  <1>5. ASSUME NEW h \in Proc, NewRequest(h) PROVE UNCHANGED blobs
    BY <1>5 DEF NewRequest, UploadChunk, FinishUpload, CancelTake, PutBlob, GetBlob
  <1>6. ASSUME NEW h \in Proc, ServerStep(h), ~ FinishRename(h), ~ PutCommit(h)
        PROVE  UNCHANGED blobs
    BY <1>6
      DEF ServerStep, FinishTake, FinishHash, FinishReadFails, FinishClose, FinishStat,
          FinishFails, CancelRemove, PutDedup, PutCreate, PutCreateFails, PutRejects,
          GetOpen, SetSize, Answer
  <1>7. ASSUME NEW h \in Proc, ClientStep(h) PROVE UNCHANGED blobs
    BY <1>7 DEF ClientStep, Write, PutDrain, PutCopy, PutBreaks, GetDone
  <1>8. CASE Start \/ CleanupStale \/ Crash
    BY <1>8 DEF Start, CleanupStale, Crash
  <1>9. CASE UNCHANGED vars
    BY <1>9 DEF vars
  <1> QED
    BY <1>2, <1>3, <1>4, <1>5, <1>6, <1>7, <1>8, <1>9 DEF Next

\* An empty registry is an empty content store.
LEMMA StoreInit == Init => Store!Init
  BY DEF Init, Store!Init, stored

\* A step of the registry is a step of the content store or leaves it as it is: what
\* appears under a digest hashes to it, and nothing else changes with it.
LEMMA StoreStep ==
    ASSUME IInv, [Next]_vars
    PROVE  [Store!Next]_<<stored, outages>>
  <1>1. IInv'
    BY NextIInv
  <1>2. /\ blobs \in [Digest -> File \cup {NoFile}]
        /\ blobs' \in [Digest -> File \cup {NoFile}]
        /\ data' \in [File -> Seq(Byte)]
    BY <1>1 DEF IInv, TypeOK
  <1>3. ASSUME NEW d \in Digest, blobs'[d] = blobs[d]
        PROVE  stored'[d] = stored[d]
    <2>1. CASE blobs[d] = NoFile
      BY <1>3, <2>1 DEF stored
    <2>2. CASE blobs[d] # NoFile
      <3>1. Sealed(blobs[d])
        BY <2>2 DEF IInv, BlobsInv
      <3>2. data'[blobs[d]] = data[blobs[d]]
        BY <3>1, SealedKept
      <3> QED
        BY <1>3, <2>2, <3>2 DEF stored
    <2> QED
      BY <2>1, <2>2
  <1>p. CASE PowerLoss
    <2>1. outages' = outages + 1
      BY <1>p DEF PowerLoss
    <2>2. stored' = [d \in Digest |-> stored'[d]]
      BY DEF stored
    <2>3. ASSUME NEW d \in Digest, stored'[d] # NoContent
          PROVE  DigestOf(stored'[d]) = d
      <3>1. blobs'[d] # NoFile /\ stored'[d] = data'[blobs'[d]]
        BY <2>3 DEF stored
      <3>2. DigestOf(data'[blobs'[d]]) = d
        BY <1>1, <3>1 DEF IInv, BlobsInv
      <3> QED
        BY <3>1, <3>2
    <2> QED
      BY <2>1, <2>2, <2>3 DEF Store!Next, Store!PowerLoss
  <1>o. ASSUME ~ PowerLoss PROVE UNCHANGED outages
    BY <1>o
      DEF Next, vars, diskVars, uploadVars, historyVars, Acknowledge, NewRequest,
          UploadChunk, FinishUpload, CancelTake, PutBlob, GetBlob, ServerStep, SetSize,
          Answer, FinishTake, FinishHash, FinishReadFails, FinishClose, FinishStat,
          FinishRename, FinishFails, CancelRemove, PutDedup, PutCreate, PutCreateFails,
          PutCommit, PutRejects, GetOpen, ClientStep, Write, PutDrain, PutCopy,
          PutBreaks, GetDone, Start, CleanupStale, DeleteBlob, Crash
  <1>4. CASE ~ PowerLoss /\ UNCHANGED blobs
    <2>1. \A d \in Digest : stored'[d] = stored[d]
      BY <1>3, <1>4
    <2>2. stored' = stored
      BY <2>1 DEF stored
    <2> QED
      BY <1>4, <1>o, <2>2
  <1>5. ASSUME ~ PowerLoss, NEW d \in Digest, blobs' = [blobs EXCEPT ![d] = blobs'[d]]
        PROVE  Store!Next
    <2>1. \A e \in Digest \ {d} : blobs'[e] = blobs[e]
      BY <1>2, <1>5
    <2>2. \A e \in Digest \ {d} : stored'[e] = stored[e]
      BY <1>3, <2>1
    <2>3. stored' = [stored EXCEPT ![d] = stored'[d]]
      BY <2>2 DEF stored
    <2>4. CASE blobs'[d] = NoFile
      <3>1. stored'[d] = NoContent
        BY <2>4 DEF stored
      <3>2. Store!RemoveBlob(d)
        BY <1>5, <1>o, <2>3, <3>1 DEF Store!RemoveBlob
      <3> QED
        BY <3>2 DEF Store!Next
    <2>5. CASE blobs'[d] # NoFile
      <3>1. blobs'[d] \in File /\ stored'[d] = data'[blobs'[d]]
        BY <1>2, <2>5 DEF stored
      <3>2. DigestOf(data'[blobs'[d]]) = d
        BY <1>1, <2>5 DEF IInv, BlobsInv
      <3>3. stored'[d] # NoContent
        BY <1>2, <3>1, ConstantsAssumption
      <3>4. Store!StoreBlob(d)
        BY <1>5, <1>o, <2>3, <3>1, <3>2, <3>3 DEF Store!StoreBlob
      <3> QED
        BY <3>4 DEF Store!Next
    <2> QED
      BY <2>4, <2>5
  <1> QED
    BY <1>p, <1>4, <1>5, OneBlob

\* The uploads, Put and Delete of the code implement a map from digests to the content
\* that hashes to them: each of their many steps is one step of that map or none, a
\* crash between any two is none, and a power loss leaves such a map again.
THEOREM Refinement == Spec => ImplementsContentStore
  <1>1. ASSUME IInv, [Next]_vars PROVE [Store!Next]_<<stored, outages>>
    BY <1>1, StoreStep
  <1>2. QED
    BY <1>1, StoreInit, Invariance, PTL DEF Spec, Store!Spec, ImplementsContentStore

-----------------------------------------------------------------------------
(* Files that nobody forgets *)

TakenPCs == {"hash", "close", "stat", "rename", "cancel"}

\* NoLeakedFiles, with the call that the holder of BlobStore.mu is in: a Put that only
\* drains the body has no file.
UploadsOwned ==
    \A f \in uploadDir \ abandoned :
        \/ f \in uploads
        \/ \E h \in Proc : req[h].file = f /\ req[h].pc \in TakenPCs
TmpOwned ==
    \A f \in tmpDir \ abandoned :
        bsmu \in Proc /\ req[bsmu].file = f /\ req[bsmu].pc \in PutPCs

OwnedInv == UploadsOwned /\ TmpOwned

\* A request that takes one step: the others stay where they are.
Moves(h) == \A g \in Proc \ {h} : req'[g] = req[g]

\* A step of a request that has taken no session, and leaves the sessions alone.
LEMMA UploadsStay ==
    ASSUME UploadsOwned, NEW h \in Proc, Moves(h), req[h].pc \notin TakenPCs,
           UNCHANGED <<uploadDir, uploads, abandoned>>
    PROVE  UploadsOwned'
  BY DEF UploadsOwned, Moves

\* A step of a request that has no temporary file, and leaves BlobStore.mu alone.
LEMMA TmpStay ==
    ASSUME TmpOwned, NEW h \in Proc, Moves(h), req[h].pc \notin PutPCs,
           UNCHANGED <<tmpDir, bsmu>>, abandoned \subseteq abandoned'
    PROVE  TmpOwned'
  BY DEF TmpOwned, Moves

\* A step of a request that gives up its session's file, or keeps it for its next call.
LEMMA TakenMoves ==
    ASSUME UploadsOwned, NEW h \in Proc, Moves(h),
           uploads' = uploads \/ uploads' = uploads \ {req[h].file},
           abandoned \subseteq abandoned',
           uploadDir' \subseteq uploadDir,
           \/ req[h].file \notin uploadDir' \ abandoned'
           \/ req'[h].file = req[h].file /\ req'[h].pc \in TakenPCs
    PROVE  UploadsOwned'
  BY DEF UploadsOwned, Moves

\* What the steps of a Finish and of a Cancel do to the upload directory.
LEMMA FinishOwned ==
    ASSUME IInv, OwnedInv, NEW h \in Proc,
           \/ FinishTake(h) \/ FinishHash(h) \/ FinishReadFails(h) \/ FinishClose(h)
           \/ FinishStat(h) \/ FinishRename(h) \/ FinishFails(h) \/ CancelRemove(h)
    PROVE  OwnedInv'
  <1> USE DEF diskVars, uploadVars, historyVars
  <1>1. req \in [Proc -> Request] /\ UploadsOwned /\ TmpOwned
    BY DEF IInv, TypeOK, OwnedInv
  <1>2. CASE FinishTake(h)
    <2>1. CASE req[h].file \in uploads
      <3>1. Goes(h, "hash")
        BY <1>2, <2>1 DEF FinishTake
      <3>2. Moves(h) /\ req'[h].file = req[h].file /\ req'[h].pc = "hash"
        BY <1>1, <3>1, GoesFacts, Labels DEF Moves
      <3>3. UploadsOwned'
        BY <1>1, <1>2, <3>2, TakenMoves DEF FinishTake, TakenPCs
      <3>4. TmpOwned'
        BY <1>1, <1>2, <3>2, TmpStay DEF FinishTake, PutPCs
      <3> QED
        BY <3>3, <3>4 DEF OwnedInv
    <2>2. CASE req[h].file \notin uploads
      <3>1. Ends(h) /\ uploads' = uploads
        BY <1>2, <2>2 DEF FinishTake
      <3>2. Moves(h)
        BY <1>1, <3>1, EndsFacts DEF Moves
      <3>3. UploadsOwned'
        BY <1>1, <1>2, <3>1, <3>2, UploadsStay DEF FinishTake, TakenPCs
      <3>4. TmpOwned'
        BY <1>1, <1>2, <3>2, TmpStay DEF FinishTake, PutPCs
      <3> QED
        BY <3>3, <3>4 DEF OwnedInv
    <2> QED
      BY <2>1, <2>2
  <1>3. CASE FinishHash(h)
    <2>1. Moves(h) /\ req'[h].file = req[h].file /\ req'[h].pc = "close"
      BY <1>1, <1>3, HashedFacts, HashMatchesType DEF FinishHash, Moves
    <2>2. UploadsOwned'
      BY <1>1, <1>3, <2>1, TakenMoves DEF FinishHash, TakenPCs
    <2>3. TmpOwned'
      BY <1>1, <1>3, <2>1, TmpStay DEF FinishHash, PutPCs
    <2> QED
      BY <2>2, <2>3 DEF OwnedInv
  <1>4. CASE FinishReadFails(h)
    <2>1. Moves(h)
      BY <1>1, <1>4, EndsFacts DEF FinishReadFails, Moves
    <2>2. UploadsOwned'
      BY <1>1, <1>4, <2>1, TakenMoves DEF FinishReadFails
    <2>3. TmpOwned'
      BY <1>1, <1>4, <2>1, TmpStay DEF FinishReadFails, PutPCs
    <2> QED
      BY <2>2, <2>3 DEF OwnedInv
  <1>5. CASE FinishClose(h)
    <2>1. /\ Moves(h)
          /\ abandoned \subseteq abandoned' /\ uploadDir' \subseteq uploadDir
          /\ \/ req[h].file \notin uploadDir' \ abandoned'
             \/ req'[h].file = req[h].file /\ req'[h].pc \in TakenPCs
      <3>1. CASE Ends(h) /\ req[h].file \notin uploadDir' \ abandoned'
        BY <1>1, <1>5, <3>1, EndsFacts DEF FinishClose, Moves
      <3>2. CASE Goes(h, "stat")
        BY <1>1, <1>5, <3>2, GoesFacts, Labels DEF FinishClose, Moves, TakenPCs
      <3> QED
        BY <1>5, <3>1, <3>2 DEF FinishClose
    <2>2. UploadsOwned'
      BY <1>1, <1>5, <2>1, TakenMoves DEF FinishClose
    <2>3. TmpOwned'
      BY <1>1, <1>5, <2>1, TmpStay DEF FinishClose, PutPCs
    <2> QED
      BY <2>2, <2>3 DEF OwnedInv
  <1>6. CASE FinishStat(h)
    <2>1. /\ Moves(h)
          /\ uploadDir' \subseteq uploadDir /\ abandoned' = abandoned
          /\ \/ req[h].file \notin uploadDir' \ abandoned'
             \/ req'[h].file = req[h].file /\ req'[h].pc \in TakenPCs
      <3>1. CASE Ends(h) /\ req[h].file \notin uploadDir'
        BY <1>1, <1>6, <3>1, EndsFacts DEF FinishStat, Acknowledge, Moves
      <3>2. CASE Goes(h, "rename")
        BY <1>1, <1>6, <3>2, GoesFacts, Labels DEF FinishStat, Acknowledge, Moves, TakenPCs
      <3> QED
        BY <1>6, <3>1, <3>2 DEF FinishStat
    <2>2. UploadsOwned'
      BY <1>1, <1>6, <2>1, TakenMoves DEF FinishStat
    <2>3. TmpOwned'
      BY <1>1, <1>6, <2>1, TmpStay DEF FinishStat, PutPCs
    <2> QED
      BY <2>2, <2>3 DEF OwnedInv
  <1>7. CASE FinishRename(h) \/ FinishFails(h) \/ CancelRemove(h)
    <2>1. /\ Ends(h) /\ uploadDir' = uploadDir \ {req[h].file}
          /\ UNCHANGED <<uploads, tmpDir, bsmu, abandoned>> /\ req[h].pc \notin PutPCs
      BY <1>7 DEF FinishRename, FinishFails, CancelRemove, Acknowledge, PutPCs
    <2>2. Moves(h)
      BY <1>1, <2>1, EndsFacts DEF Moves
    <2>3. UploadsOwned'
      BY <1>1, <2>1, <2>2, TakenMoves
    <2>4. TmpOwned'
      BY <1>1, <2>1, <2>2, TmpStay
    <2> QED
      BY <2>3, <2>4 DEF OwnedInv
  <1> QED
    BY <1>2, <1>3, <1>4, <1>5, <1>6, <1>7

\* What Put does to the temporary files.
LEMMA PutOwned ==
    ASSUME IInv, OwnedInv, NEW h \in Proc,
           \/ PutDedup(h) \/ PutDrain(h) \/ PutCreate(h) \/ PutCreateFails(h)
           \/ PutCopy(h) \/ PutCommit(h) \/ PutBreaks(h) \/ PutRejects(h)
    PROVE  OwnedInv'
  <1> USE ConstantsAssumption DEF diskVars, uploadVars, historyVars
  <1>1. /\ req \in [Proc -> Request] /\ UploadsOwned /\ TmpOwned
        /\ RequestOK(h) /\ used \subseteq File /\ tmpDir \subseteq used
    BY DEF IInv, TypeOK, FilesInv, OwnedInv
  <1>2. CASE PutDedup(h)
    <2>1. Moves(h)
      BY <1>1, <1>2, GoesFacts, Labels DEF PutDedup, Moves
    <2>2. UploadsOwned'
      BY <1>1, <1>2, <2>1, UploadsStay DEF PutDedup, TakenPCs
    <2>3. TmpOwned'
      BY <1>1, <1>2 DEF PutDedup, TmpOwned
    <2> QED
      BY <2>2, <2>3 DEF OwnedInv
  <1>3. CASE PutDrain(h)
    <2>1. Moves(h)
      BY <1>1, <1>3, EndsFacts DEF PutDrain, Moves
    <2>2. UploadsOwned'
      BY <1>1, <1>3, <2>1, UploadsStay DEF PutDrain, Acknowledge, TakenPCs
    <2>3. bsmu = h /\ req[h].pc \notin PutPCs
      BY <1>1, <1>3 DEF PutDrain, RequestOK, DrainOK, PutPCs
    <2>4. TmpOwned'
      BY <1>1, <1>3, <2>3 DEF PutDrain, Acknowledge, TmpOwned
    <2> QED
      BY <2>2, <2>4 DEF OwnedInv
  <1>4. CASE PutCreate(h)
    <2>1. PICK f \in File \ used :
             /\ tmpDir' = tmpDir \cup {f}
             /\ req' = [req EXCEPT ![h].pc = "putCopy", ![h].file = f]
      BY <1>4 DEF PutCreate
    <2>2. Moves(h) /\ req'[h].file = f /\ req'[h].pc = "putCopy"
      BY <1>1, <2>1, CreatedFacts DEF Moves
    <2>3. UploadsOwned'
      BY <1>1, <1>4, <2>2, UploadsStay DEF PutCreate, TakenPCs
    <2>4. tmpDir \subseteq abandoned
      BY <1>1, <1>4 DEF PutCreate, TmpOwned
    <2>5. TmpOwned'
      BY <1>4, <2>1, <2>2, <2>4 DEF PutCreate, TmpOwned, PutPCs
    <2> QED
      BY <2>3, <2>5 DEF OwnedInv
  <1>5. CASE PutCreateFails(h)
    <2>1. Moves(h)
      BY <1>1, <1>5, EndsFacts DEF PutCreateFails, Moves
    <2>2. UploadsOwned'
      BY <1>1, <1>5, <2>1, UploadsStay DEF PutCreateFails, TakenPCs
    <2>3. TmpOwned'
      BY <1>1, <1>5, <2>1, TmpStay DEF PutCreateFails, PutPCs
    <2> QED
      BY <2>2, <2>3 DEF OwnedInv
  <1>6. CASE PutCopy(h)
    <2>1. Moves(h) /\ req'[h].file = req[h].file /\ req'[h].pc = "putCommit"
      BY <1>1, <1>6, GoesFacts, Labels DEF PutCopy, Moves
    <2>2. UploadsOwned'
      BY <1>1, <1>6, <2>1, UploadsStay DEF PutCopy, TakenPCs
    <2>3. TmpOwned'
      BY <1>1, <1>6, <2>1 DEF PutCopy, TmpOwned, Moves, PutPCs
    <2> QED
      BY <2>2, <2>3 DEF OwnedInv
  <1>7. CASE PutCommit(h) \/ PutBreaks(h) \/ PutRejects(h)
    <2>1. /\ req[h].pc \in PutPCs /\ Ends(h) /\ tmpDir' = tmpDir \ {req[h].file}
          /\ UNCHANGED <<uploadDir, uploads, abandoned>>
      BY <1>7 DEF PutCommit, PutBreaks, PutRejects, PutEnds, PutPCs, Acknowledge
    <2>2. Moves(h)
      BY <1>1, <2>1, EndsFacts DEF Moves
    <2>3. UploadsOwned'
      BY <1>1, <2>1, <2>2, UploadsStay DEF TakenPCs, PutPCs
    <2>4. bsmu = h
      BY <1>1, <2>1 DEF RequestOK, PutOK
    <2>5. TmpOwned'
      BY <1>1, <2>1, <2>4 DEF TmpOwned
    <2> QED
      BY <2>3, <2>5 DEF OwnedInv
  <1> QED
    BY <1>2, <1>3, <1>4, <1>5, <1>6, <1>7

\* What the other steps do: a request that begins, writes or reads has no file of its
\* own, a Cancel takes its session, and a crash leaves files that nobody owns.
LEMMA OthersOwned ==
    ASSUME IInv, OwnedInv,
           \/ \E h \in Proc : \/ NewRequest(h) \/ Write(h) \/ SetSize(h) \/ Answer(h)
                             \/ GetOpen(h) \/ GetDone(h)
           \/ Start \/ CleanupStale \/ DeleteBlob \/ Crash \/ PowerLoss
           \/ UNCHANGED vars
    PROVE  OwnedInv'
  <1> USE ConstantsAssumption DEF diskVars, uploadVars, historyVars
  <1>1. req \in [Proc -> Request] /\ UploadsOwned /\ TmpOwned
    BY DEF IInv, TypeOK, OwnedInv
  <1>2. ASSUME NEW h \in Proc,
               \/ UploadChunk(h) \/ FinishUpload(h) \/ PutBlob(h) \/ GetBlob(h)
               \/ Write(h) \/ SetSize(h) \/ Answer(h) \/ GetOpen(h) \/ GetDone(h)
        PROVE  OwnedInv'
    <2>1. /\ req[h].pc \notin TakenPCs \cup PutPCs
          /\ UNCHANGED <<uploadDir, uploads, abandoned, tmpDir, bsmu>>
      BY <1>2 DEF UploadChunk, FinishUpload, PutBlob, GetBlob, Begin, Write, SetSize,
                  Answer, GetOpen, GetDone, TakenPCs, PutPCs
    <2>2. Moves(h)
      BY <1>1, <1>2 DEF UploadChunk, FinishUpload, PutBlob, GetBlob, Begin, Write,
                        CopyBody, SetSize, Answer, GetOpen, GetDone, Ends, Goes, Moves
    <2>3. UploadsOwned' /\ TmpOwned'
      BY <1>1, <2>1, <2>2, UploadsStay, TmpStay
    <2> QED
      BY <2>3 DEF OwnedInv
  <1>3. ASSUME NEW h \in Proc, CancelTake(h) PROVE OwnedInv'
    <2>1. PICK f \in uploads :
             /\ Begin(h, NewReq("cancel", f, NoDigest, <<>>, NoOffset))
             /\ uploads' = uploads \ {f}
      BY <1>3 DEF CancelTake
    <2>2. Moves(h) /\ req'[h].file = f /\ req'[h].pc = "cancel" /\ req[h].pc = "idle"
      BY <1>1, <2>1 DEF Begin, NewReq, Moves
    <2>3. UNCHANGED <<uploadDir, abandoned, tmpDir, bsmu>>
      BY <1>3 DEF CancelTake
    <2>4. UploadsOwned'
      BY <1>1, <2>1, <2>2, <2>3 DEF UploadsOwned, Moves, TakenPCs
    <2>5. TmpOwned'
      BY <1>1, <2>2, <2>3, TmpStay DEF PutPCs
    <2> QED
      BY <2>4, <2>5 DEF OwnedInv
  <1>4. CASE Start \/ CleanupStale \/ DeleteBlob
    BY <1>1, <1>4 DEF Start, CleanupStale, DeleteBlob, OwnedInv, UploadsOwned, TmpOwned
  <1>5. CASE Crash \/ PowerLoss
    BY <1>5 DEF Crash, PowerLoss, Restarts, OwnedInv, UploadsOwned, TmpOwned
  <1>6. CASE UNCHANGED vars
    BY <1>1, <1>6 DEF vars, OwnedInv, UploadsOwned, TmpOwned
  <1> QED
    BY <1>2, <1>3, <1>4, <1>5, <1>6 DEF NewRequest

\* No error path of Finish, Cancel or Put forgets its file: what lies in uploads/ or
\* beside a blob has an owner that removes it, except after a crash and where Finish
\* could not read or close it.
THEOREM NothingLeaks == Spec => []NoLeakedFiles
  <1>1. Init => OwnedInv
    BY DEF Init, OwnedInv, UploadsOwned, TmpOwned
  <1>2. ASSUME IInv, OwnedInv, [Next]_vars PROVE OwnedInv'
    BY <1>2, FinishOwned, PutOwned, OthersOwned DEF Next, ServerStep, ClientStep
  <1>3. OwnedInv => NoLeakedFiles
    BY ConstantsAssumption DEF OwnedInv, UploadsOwned, TmpOwned, NoLeakedFiles, TakenPCs
  <1> QED
    BY <1>1, <1>2, <1>3, Invariance, PTL DEF Spec

-----------------------------------------------------------------------------
(* The offset to resume from *)

\* A Write that has copied its bytes: Size will cover them.
Sizing(h) ==
    req[h].pc \in SizingPCs =>
        /\ Len(data[req[h].file]) <= NewSize(h, Len(req[h].body))
        /\ pos[req[h].file] <= NewSize(h, Len(req[h].body))

\* A PATCH about to answer: Size covers its bytes.
Answering(h) == req[h].pc = "answer" => req[h].num <= Size[req[h].file]

\* The file that a Finish or a Cancel closes belongs to no session any more.
Taken(h) == req[h].pc \in TakenPCs => req[h].file \notin uploads

\* Neither the file of a session nor the place of its handle is beyond Size while
\* nobody holds upload.mu, and a file that was never used is empty.
SizeInv ==
    /\ uploads \subseteq open
    /\ \A f \in open \ tmpDir :
          mu[f] = NoProc => Len(data[f]) <= Size[f] /\ pos[f] <= Size[f]
    /\ \A f \in File \ used : data[f] = <<>> /\ pos[f] = 0
    /\ \A h \in Proc : Sizing(h) /\ Answering(h) /\ Taken(h)

\* A file ends where it ended, or where the last write to it did.
LEMMA WriteToLen ==
    ASSUME NEW bytes \in Seq(Byte), NEW c \in Seq(Byte), NEW p \in Nat
    PROVE  Len(WriteTo(bytes, p, c)) =
             IF p + Len(c) > Len(bytes) THEN p + Len(c) ELSE Len(bytes)
  <1> DEFINE n == IF p + Len(c) > Len(bytes) THEN p + Len(c) ELSE Len(bytes)
  <1>1. n \in Nat
    OBVIOUS
  <1>2. WriteTo(bytes, p, c) \in [1 .. n -> Byte]
    BY ConstantsAssumption DEF WriteTo
  <1> QED
    BY <1>1, <1>2, FunctionIsSeq

\* What arrives of a body is as long as what was copied of it.
LEMMA PrefixLen ==
    ASSUME NEW bytes \in Seq(Byte), NEW n \in 0 .. Len(bytes)
    PROVE  Len(Prefix(bytes, n)) = n
  <1>1. n \in Nat /\ (IF n < Len(bytes) THEN n ELSE Len(bytes)) = n
    OBVIOUS
  <1>2. Prefix(bytes, n) \in [1 .. n -> Byte]
    BY <1>1 DEF Prefix
  <1> QED
    BY <1>1, <1>2, FunctionIsSeq

\* A step that leaves alone the sessions nobody writes to, and the files of those who
\* are about to set Size or to answer.
Undisturbed(f) == data'[f] = data[f] /\ pos'[f] = pos[f] /\ Size'[f] = Size[f]

LEMMA ElsewhereSize ==
    ASSUME SizeInv, uploads' \subseteq open', used \subseteq used',
           \A h \in Proc : Taken(h)',
           \A f \in open' \ tmpDir' : mu'[f] = NoProc =>
              f \in open \ tmpDir /\ mu[f] = NoProc /\ Undisturbed(f),
           \A f \in File \ used' : Undisturbed(f),
           \A h \in Proc : req'[h].pc \in SizingPCs \cup {"answer"} =>
              req'[h] = req[h] /\ Undisturbed(req[h].file)
    PROVE  SizeInv'
  <1>1. ASSUME NEW h \in Proc PROVE Sizing(h)'
    <2> SUFFICES ASSUME req'[h].pc \in SizingPCs PROVE Sizing(h)'
      BY DEF Sizing
    <2>1. req'[h] = req[h] /\ Undisturbed(req[h].file) /\ Sizing(h)
      BY DEF SizeInv
    <2>2. NewSize(h, Len(req[h].body))' = NewSize(h, Len(req[h].body))
      BY <2>1 DEF Undisturbed, NewSize
    <2> QED
      BY <2>1, <2>2 DEF Undisturbed, Sizing
  <1>2. ASSUME NEW h \in Proc PROVE Answering(h)'
    BY DEF SizeInv, Answering, Undisturbed
  <1> QED
    BY <1>1, <1>2 DEF SizeInv, Undisturbed

\* The bytes of Write and WriteAt: Size, once it is set, will cover them.
LEMMA WriteSize ==
    ASSUME IInv, SizeInv, NEW h \in Proc, Write(h), req[h].file \in open
    PROVE  SizeInv'
  <1> DEFINE f == req[h].file
             c == req[h].body
             p == IF req[h].num = NoOffset THEN pos[f] ELSE req[h].num
  <1>1. TypeOK /\ \A g \in Proc : RequestOK(g)
    BY DEF IInv
  <1>2. /\ UNCHANGED <<used, uploads, open, tmpDir, Size>> /\ mu[f] = NoProc
        /\ CopyBody(h)
    BY DEF Write
  <1>3. f \in File /\ f \in used /\ f \notin tmpDir
    BY <1>1 DEF Write, RequestOK, SessionOK, SessionPCs
  <1>4. c \in Seq(Byte) /\ (req[h].num # NoOffset => req[h].num \in Nat)
    BY <1>1 DEF TypeOK, Request
  <1>5. /\ data[f] \in Seq(Byte) /\ pos[f] \in Nat /\ Size[f] \in Nat
        /\ Len(data[f]) \in Nat
        /\ Len(data[f]) <= Size[f] /\ pos[f] <= Size[f]
    BY <1>1, <1>2, <1>3 DEF TypeOK, SizeInv
  <1>6. PICK n \in 0 .. Len(c) :
           /\ p \in Nat /\ n \in Nat
           /\ data'[f] = IF n = 0 THEN data[f] ELSE WriteTo(data[f], p, Prefix(c, n))
           /\ \A e \in File \ {f} : data'[e] = data[e]
           /\ pos' = [pos EXCEPT ![f] = p + n]
           /\ mu' = [mu EXCEPT ![f] = h]
           /\ \A g \in Proc \ {h} : req'[g] = req[g]
           /\ req'[h].pc \in SizingPCs
           /\ req'[h].file = f /\ req'[h].num = req[h].num
           /\ req'[h].body = Prefix(c, n)
    BY <1>2, CopyFacts DEF SizingPCs
  <1>7. Prefix(c, n) \in Seq(Byte) /\ Len(Prefix(c, n)) = n
    <2> HIDE DEF f, c, p
    <2>1. Prefix(c, n) \in Seq(Byte)
      BY <1>4, <1>6, PrefixType
    <2>2. Len(Prefix(c, n)) = n
      BY <1>4, PrefixLen
    <2> QED
      BY <2>1, <2>2
  <1>8. Sizing(h)'
    <2>1. Len(WriteTo(data[f], p, Prefix(c, n)))
            = IF p + n > Len(data[f]) THEN p + n ELSE Len(data[f])
      <3> HIDE DEF f, c, p
      <3>1. \A k \in Seq(Byte) : Len(WriteTo(data[f], p, k)) =
               IF p + Len(k) > Len(data[f]) THEN p + Len(k) ELSE Len(data[f])
        BY <1>5, <1>6, WriteToLen
      <3> QED
        BY <1>7, <3>1
    <2>2. NewSize(h, n) \in Nat /\ p + n <= NewSize(h, n) /\ Size[f] <= NewSize(h, n)
      BY <1>4, <1>5, <1>6 DEF NewSize
    <2>3. pos'[f] = p + n
      BY <1>1, <1>3, <1>6 DEF TypeOK
    <2>4. Len(data'[f]) <= NewSize(h, n)
      <3>1. CASE n = 0
        BY <1>5, <1>6, <2>2, <3>1
      <3>2. CASE n # 0
        <4>1. Len(data'[f]) = IF p + n > Len(data[f]) THEN p + n ELSE Len(data[f])
          BY <1>6, <2>1, <3>2
        <4> HIDE DEF f, c, p
        <4> QED
          BY <1>5, <1>6, <2>2, <4>1
      <3> QED
        BY <3>1, <3>2
    <2>5. NewSize(h, Len(req[h].body))' = NewSize(h, n)
      BY <1>2, <1>6, <1>7 DEF NewSize
    <2> QED
      BY <1>6, <2>2, <2>3, <2>4, <2>5 DEF Sizing
  <1> HIDE DEF f, c, p
  <1>9. \A e \in File \ {f} : Undisturbed(e)
    BY <1>1, <1>2, <1>6 DEF TypeOK, Undisturbed
  <1>10. ASSUME NEW g \in Proc, g # h PROVE Sizing(g)'
    <2> SUFFICES ASSUME req'[g].pc \in SizingPCs PROVE Sizing(g)'
      BY DEF Sizing
    <2>1. req'[g] = req[g] /\ Sizing(g) /\ req[g].pc \in SizingPCs
      BY <1>6, <1>10 DEF SizeInv
    <2>2. req[g].file \in File /\ mu[req[g].file] = g
      BY <1>1, <2>1 DEF RequestOK, SessionOK, SizingOK, SessionPCs, SizingPCs
    <2>3. req[g].file # f
      BY <1>2, <2>2, ConstantsAssumption
    <2>4. Undisturbed(req[g].file)
      BY <1>9, <2>2, <2>3
    <2>5. NewSize(g, Len(req[g].body))' = NewSize(g, Len(req[g].body))
      BY <2>1, <2>4 DEF Undisturbed, NewSize
    <2> QED
      BY <2>1, <2>4, <2>5 DEF Undisturbed, Sizing
  <1>11. ASSUME NEW g \in Proc PROVE Answering(g)'
    BY <1>2, <1>6 DEF SizeInv, Answering, SizingPCs
  <1>t. ASSUME NEW g \in Proc PROVE Taken(g)'
    BY <1>2, <1>6 DEF SizeInv, Taken, TakenPCs, SizingPCs
  <1>12. ASSUME NEW e \in open' \ tmpDir', mu'[e] = NoProc
         PROVE  Len(data'[e]) <= Size'[e] /\ pos'[e] <= Size'[e]
    <2>1. e \in File /\ e \in open \ tmpDir
      BY <1>1, <1>2 DEF TypeOK
    <2>2. e # f /\ mu[e] = NoProc
      BY <1>1, <1>3, <1>6, <1>12, <2>1, ConstantsAssumption DEF TypeOK
    <2>3. Undisturbed(e)
      BY <1>9, <2>1, <2>2
    <2> QED
      BY <2>1, <2>2, <2>3 DEF SizeInv, Undisturbed
  <1> QED
    BY <1>2, <1>3, <1>8, <1>9, <1>10, <1>11, <1>12, <1>t DEF SizeInv, Undisturbed

\* Once Size is set it covers the file, the handle and what the PATCH wrote.
LEMMA SetSizeSize ==
    ASSUME IInv, SizeInv, NEW h \in Proc, SetSize(h)
    PROVE  SizeInv'
  <1> USE DEF diskVars, historyVars
  <1> DEFINE f == req[h].file
             n == Len(req[h].body)
  <1>1. TypeOK /\ \A g \in Proc : RequestOK(g)
    BY DEF IInv
  <1>2. /\ req[h].pc \in SizingPCs
        /\ Size' = [Size EXCEPT ![f] = NewSize(h, n)]
        /\ mu' = [mu EXCEPT ![f] = NoProc]
        /\ UNCHANGED <<data, pos, used, uploads, open, tmpDir>>
    BY DEF SetSize, Unlock, SizingPCs
  <1>3. f \in File /\ f \notin tmpDir /\ Size[f] \in Nat /\ n \in Nat /\ pos[f] \in Nat
    <2>1. f \in File /\ f \notin tmpDir
      BY <1>1, <1>2 DEF RequestOK, SessionOK, SessionPCs, SizingPCs
    <2>2. req[h].body \in Seq(Byte)
      BY <1>1 DEF TypeOK, Request
    <2> QED
      BY <1>1, <2>1, <2>2 DEF TypeOK
  <1>4. req[h].num # NoOffset => req[h].num \in Nat
    BY <1>1 DEF TypeOK, Request
  <1>5. NewSize(h, n) \in Nat /\ Size[f] <= NewSize(h, n)
    BY <1>3, <1>4, NewSizeGrows
  <1>6. Size'[f] = NewSize(h, n) /\ Len(data[f]) <= Size'[f] /\ pos[f] <= Size'[f]
    BY <1>1, <1>2, <1>3 DEF TypeOK, SizeInv, Sizing
  <1>7. /\ \A g \in Proc \ {h} : req'[g] = req[g]
        /\ req'[h].pc \notin SizingPCs \cup TakenPCs
        /\ req'[h].pc = "answer" => req'[h].file = f /\ req'[h].num = pos[f]
    <2>1. CASE req' = [req EXCEPT ![h] =
                        NewReq("finish", f, req[h].want, <<>>, NoOffset)]
      <3>1. NewReq("finish", f, req[h].want, <<>>, NoOffset).pc = "finish"
        BY DEF NewReq
      <3> QED
        BY <1>1, <2>1, <3>1 DEF TypeOK, SizingPCs, TakenPCs
    <2>2. CASE req' = [req EXCEPT ![h] = NewReq("answer", f, NoDigest, <<>>, pos[f])]
      <3>1. /\ NewReq("answer", f, NoDigest, <<>>, pos[f]).pc = "answer"
            /\ NewReq("answer", f, NoDigest, <<>>, pos[f]).file = f
            /\ NewReq("answer", f, NoDigest, <<>>, pos[f]).num = pos[f]
        BY DEF NewReq
      <3> QED
        BY <1>1, <2>2, <3>1 DEF TypeOK, SizingPCs, TakenPCs
    <2>3. CASE Ends(h)
      BY <1>1, <2>3, EndsFacts DEF TypeOK, SizingPCs, TakenPCs
    <2> QED
      BY <2>1, <2>2, <2>3 DEF SetSize
  <1> HIDE DEF f, n
  <1>8. \A e \in File \ {f} : Undisturbed(e)
    BY <1>1, <1>2 DEF TypeOK, Undisturbed
  <1>9. ASSUME NEW g \in Proc PROVE Sizing(g)'
    <2> SUFFICES ASSUME req'[g].pc \in SizingPCs PROVE Sizing(g)'
      BY DEF Sizing
    <2>1. g # h /\ req'[g] = req[g] /\ Sizing(g) /\ req[g].pc \in SizingPCs
      BY <1>7 DEF SizeInv
    <2>2. req[g].file \in File /\ mu[req[g].file] = g /\ mu[f] = h
      BY <1>1, <1>2, <2>1
        DEF f, RequestOK, SessionOK, SizingOK, SessionPCs, SizingPCs
    <2>3. Undisturbed(req[g].file)
      BY <1>8, <2>1, <2>2
    <2>4. NewSize(g, Len(req[g].body))' = NewSize(g, Len(req[g].body))
      BY <2>1, <2>3 DEF Undisturbed, NewSize
    <2> QED
      BY <2>1, <2>3, <2>4 DEF Undisturbed, Sizing
  <1>10. ASSUME NEW g \in Proc PROVE Answering(g)'
    <2> SUFFICES ASSUME req'[g].pc = "answer" PROVE req'[g].num <= Size'[req'[g].file]
      BY DEF Answering
    <2>1. CASE g = h
      BY <1>6, <1>7, <2>1
    <2>2. CASE g # h
      <3>1. /\ req'[g] = req[g] /\ req[g].file \in File
            /\ req[g].num <= Size[req[g].file]
        BY <1>1, <1>7, <2>2 DEF SizeInv, Answering, RequestOK, SessionOK, SessionPCs
      <3>2. req[g].num \in Nat \cup {NoOffset}
        BY <1>1 DEF TypeOK, Request
      <3>3. CASE req[g].file # f
        BY <1>8, <3>1, <3>3 DEF Undisturbed
      <3>4. CASE req[g].file = f
        BY <1>3, <1>5, <1>6, <3>1, <3>2, <3>4 DEF NoOffset
      <3> QED
        BY <3>3, <3>4
    <2> QED
      BY <2>1, <2>2
  <1>11. ASSUME NEW e \in open' \ tmpDir', mu'[e] = NoProc
         PROVE  Len(data'[e]) <= Size'[e] /\ pos'[e] <= Size'[e]
    <2>1. e \in File /\ e \in open \ tmpDir
      BY <1>1, <1>2 DEF TypeOK
    <2>2. CASE e = f
      BY <1>2, <1>6, <2>2
    <2>3. CASE e # f
      <3>1. mu[e] = NoProc /\ Undisturbed(e)
        BY <1>1, <1>2, <1>8, <1>11, <2>1, <2>3 DEF TypeOK
      <3> QED
        BY <2>1, <3>1 DEF SizeInv, Undisturbed
    <2> QED
      BY <2>2, <2>3
  <1>t. ASSUME NEW g \in Proc PROVE Taken(g)'
    BY <1>2, <1>7 DEF SizeInv, Taken
  <1> QED
    BY <1>2, <1>9, <1>10, <1>11, <1>t DEF SizeInv

\* A request that goes on without holding, or beginning to hold, what ElsewhereSize is
\* about.
LEMMA MovesAlong ==
    ASSUME IInv, SizeInv, NEW h \in Proc, Moves(h),
           req'[h].pc \notin SizingPCs \cup {"answer"}, Taken(h)',
           UNCHANGED <<data, pos, Size, used>>, uploads' \subseteq open',
           uploads' \subseteq uploads,
           \A f \in open' \ tmpDir' : mu'[f] = NoProc => f \in open \ tmpDir /\ mu[f] = NoProc
    PROVE  SizeInv'
  <1>1. \A f : Undisturbed(f)
    BY DEF Undisturbed
  <1>2. \A g \in Proc : req'[g].pc \in SizingPCs \cup {"answer"} => req'[g] = req[g]
    BY DEF Moves
  <1>3. \A g \in Proc : Taken(g)'
    BY DEF SizeInv, Taken, Moves
  <1> QED
    BY <1>1, <1>2, <1>3, ElsewhereSize

\* The steps of a request that write to no file.
LEMMA RequestSize ==
    ASSUME IInv, SizeInv, NEW h \in Proc,
           \/ NewRequest(h) \/ Answer(h) \/ FinishTake(h) \/ FinishReadFails(h)
           \/ FinishClose(h) \/ FinishStat(h) \/ FinishRename(h) \/ FinishFails(h)
           \/ CancelRemove(h) \/ PutDedup(h) \/ PutCreateFails(h) \/ PutCommit(h)
           \/ PutRejects(h) \/ GetOpen(h) \/ PutDrain(h) \/ PutBreaks(h) \/ GetDone(h)
           \/ Write(h) /\ req[h].file \notin open
    PROVE  SizeInv'
  <1> USE DEF diskVars, uploadVars, historyVars
  <1>1. TypeOK /\ FilesInv /\ RequestOK(h) /\ uploads \subseteq open
    BY DEF IInv, SizeInv
  <1>2. req \in [Proc -> Request]
    BY <1>1 DEF TypeOK
  <1>3. CASE UploadChunk(h) \/ FinishUpload(h) \/ PutBlob(h) \/ GetBlob(h)
    <2>1. \E l \in {"write", "finish", "writeThenFinish", "putWait", "get"} :
             \E f, d, c, n : Begin(h, NewReq(l, f, d, c, n))
      BY <1>3 DEF UploadChunk, FinishUpload, PutBlob, GetBlob
    <2>2. /\ Moves(h) /\ req'[h].pc \notin SizingPCs \cup {"answer"}
          /\ req'[h].pc \notin TakenPCs
      BY <1>2, <2>1 DEF Begin, Moves, NewReq, SizingPCs, TakenPCs
    <2>3. UNCHANGED <<data, pos, Size, used, uploads, open, tmpDir, mu>>
      BY <1>3 DEF UploadChunk, FinishUpload, PutBlob, GetBlob
    <2> QED
      BY <1>1, <2>2, <2>3, MovesAlong DEF Taken
  <1>4. CASE CancelTake(h)
    <2>1. PICK f \in uploads :
             /\ Begin(h, NewReq("cancel", f, NoDigest, <<>>, NoOffset))
             /\ uploads' = uploads \ {f}
      BY <1>4 DEF CancelTake
    <2>2. /\ Moves(h) /\ req'[h].pc \notin SizingPCs \cup {"answer"}
          /\ Taken(h)'
      BY <1>2, <2>1 DEF Begin, Moves, NewReq, SizingPCs, Taken
    <2>3. UNCHANGED <<data, pos, Size, used, open, tmpDir, mu>> /\ uploads' \subseteq uploads
      BY <1>4, <2>1 DEF CancelTake
    <2> QED
      BY <1>1, <2>2, <2>3, MovesAlong
  <1>5. ASSUME \/ Ends(h)
               \/ \E l \in PCs \ (SizingPCs \cup {"answer"}) : Goes(h, l)
        PROVE  /\ Moves(h) /\ req'[h].pc \notin SizingPCs \cup {"answer"}
               /\ req'[h].pc = "idle" \/ req'[h].file = req[h].file
    BY <1>2, <1>5, EndsFacts, GoesFacts DEF Moves, SizingPCs
  <1>l. \A l \in {"hash", "finish", "stat", "rename", "putDrain"} :
          l \in PCs \ (SizingPCs \cup {"answer"})
    BY DEF PCs, SizingPCs
  <1>6. CASE \/ Answer(h) \/ FinishTake(h) \/ FinishReadFails(h) \/ PutDedup(h)
             \/ PutCreateFails(h) \/ PutDrain(h) \/ GetDone(h)
             \/ Write(h) /\ req[h].file \notin open
    <2>1. /\ UNCHANGED <<data, pos, Size, used, open, tmpDir, mu>>
          /\ uploads' \subseteq uploads
      BY <1>6
        DEF Answer, FinishTake, FinishReadFails, PutDedup, PutCreateFails, PutDrain,
            GetDone, Write
    <2>2. Moves(h) /\ req'[h].pc \notin SizingPCs \cup {"answer"}
      BY <1>5, <1>6, <1>l
        DEF Answer, FinishTake, FinishReadFails, PutDedup, PutCreateFails, PutDrain,
            GetDone, Write
    <2>3. Taken(h)'
      <3>1. CASE FinishTake(h) /\ req[h].file \in uploads
        <4>1. Goes(h, "hash") /\ uploads' = uploads \ {req[h].file}
          BY <3>1 DEF FinishTake
        <4> QED
          BY <1>2, <4>1, GoesFacts, Labels DEF Taken
      <3>2. CASE Ends(h)
        BY <1>2, <3>2, EndsFacts DEF Taken, TakenPCs
      <3>3. ASSUME NEW l \in {"finish", "putDrain"}, Goes(h, l) PROVE Taken(h)'
        BY <1>2, <3>3, GoesFacts, Labels DEF Taken, TakenPCs
      <3> QED
        BY <1>6, <3>1, <3>2, <3>3
          DEF Answer, FinishTake, FinishReadFails, PutDedup, PutCreateFails, PutDrain,
              GetDone, Write
    <2> QED
      BY <1>1, <2>1, <2>2, <2>3, MovesAlong
  <1>7. CASE FinishClose(h) \/ FinishStat(h) \/ FinishRename(h) \/ FinishFails(h)
    <2>1. req[h].file \in File
      BY <1>1, <1>7
        DEF FinishClose, FinishStat, FinishRename, FinishFails, RequestOK, SessionOK,
            SessionPCs
    <2>2. /\ UNCHANGED <<data, pos, Size, used, uploads, tmpDir>>
          /\ open' = open \ {req[h].file}
          /\ mu' = mu \/ mu' = [mu EXCEPT ![req[h].file] = NoProc]
      BY <1>1, <1>7
        DEF FinishClose, FinishStat, FinishRename, FinishFails, Unlock, RequestOK,
            FinishOK, LockedPCs
    <2>3. \A f \in open' : mu'[f] = mu[f]
      BY <1>1, <2>1, <2>2 DEF TypeOK
    <2>4. /\ Moves(h) /\ req'[h].pc \notin SizingPCs \cup {"answer"}
          /\ req'[h].pc = "idle" \/ req'[h].file = req[h].file
      BY <1>5, <1>7, <1>l DEF FinishClose, FinishStat, FinishRename, FinishFails
    <2>5. req[h].file \notin uploads
      BY <1>7 DEF FinishClose, FinishStat, FinishRename, FinishFails, SizeInv, Taken,
                  TakenPCs
    <2>6. uploads' \subseteq open' /\ Taken(h)'
      BY <1>1, <2>2, <2>4, <2>5 DEF Taken, TakenPCs
    <2> QED
      BY <2>2, <2>3, <2>4, <2>6, MovesAlong
  <1>8. CASE CancelRemove(h) \/ PutCommit(h) \/ PutRejects(h) \/ PutBreaks(h)
    <2>1. /\ UNCHANGED <<data, pos, Size, used, uploads, mu>>
          /\ open' = open \ {req[h].file}
          /\ tmpDir \ {req[h].file} \subseteq tmpDir'
          /\ Ends(h)
      BY <1>8 DEF CancelRemove, PutCommit, PutRejects, PutBreaks, PutEnds
    <2>2. req[h].file \notin uploads
      <3>1. CASE CancelRemove(h)
        BY <3>1 DEF CancelRemove, SizeInv, Taken, TakenPCs
      <3>2. CASE PutCommit(h) \/ PutRejects(h) \/ PutBreaks(h)
        BY <1>1, <3>2 DEF PutCommit, PutRejects, PutBreaks, FilesInv, RequestOK, PutOK,
                          PutPCs
      <3> QED
        BY <1>8, <3>1, <3>2
    <2>3. Moves(h) /\ req'[h].pc = "idle"
      BY <1>2, <2>1, EndsFacts DEF Moves
    <2>4. /\ uploads' \subseteq open' /\ Taken(h)'
          /\ req'[h].pc \notin SizingPCs \cup {"answer"}
      BY <1>1, <2>1, <2>2, <2>3 DEF Taken, TakenPCs, SizingPCs
    <2>5. \A f \in open' \ tmpDir' : f \in open \ tmpDir /\ mu'[f] = mu[f]
      BY <2>1
    <2> QED
      BY <2>1, <2>3, <2>4, <2>5, MovesAlong
  <1>9. CASE GetOpen(h)
    <2>1. Moves(h) /\ req'[h].pc \in {"idle", "serve"}
      BY <1>2, <1>9, EndsFacts DEF GetOpen, Moves, Request
    <2>2. UNCHANGED <<data, pos, Size, used, uploads, open, tmpDir, mu>>
      BY <1>9 DEF GetOpen
    <2> QED
      BY <1>1, <2>1, <2>2, MovesAlong DEF Taken, TakenPCs, SizingPCs
  <1> QED
    BY <1>3, <1>4, <1>6, <1>7, <1>8, <1>9 DEF NewRequest

\* The steps that touch the files of no session, or make the session's file.
LEMMA OthersSize ==
    ASSUME IInv, SizeInv,
           \/ \E h \in Proc : FinishHash(h) \/ PutCreate(h) \/ PutCopy(h)
           \/ Start \/ CleanupStale \/ DeleteBlob \/ Crash \/ PowerLoss
           \/ UNCHANGED vars
    PROVE  SizeInv'
  <1> USE ConstantsAssumption DEF diskVars, uploadVars, historyVars
  <1>1. /\ TypeOK /\ uploads \subseteq used /\ uploads \cap tmpDir = {}
        /\ tmpDir \subseteq used /\ \A h \in Proc : RequestOK(h)
        /\ uploads \subseteq open /\ \A h \in Proc : Taken(h)
    BY DEF IInv, FilesInv, SizeInv
  <1>2. \A g \in Proc : req[g].pc \in SizingPCs \cup {"answer"} =>
           /\ req[g].file \in File /\ req[g].file \in used /\ req[g].file \notin tmpDir
           /\ req[g].pc \in SizingPCs => mu[req[g].file] = g
    BY <1>1 DEF RequestOK, SessionOK, SizingOK, SessionPCs, SizingPCs
  <1>3. ASSUME NEW h \in Proc, FinishHash(h) PROVE SizeInv'
    <2>1. /\ req[h].file \in File /\ req[h].file \in used /\ mu[req[h].file] = NoProc
          /\ req[h].file \notin uploads
      BY <1>1, <1>3
        DEF FinishHash, RequestOK, SessionOK, SessionPCs, Taken, TakenPCs
    <2>2. /\ UNCHANGED <<data, Size, used, uploads, open, tmpDir>>
          /\ pos' = [pos EXCEPT ![req[h].file] = Len(data[req[h].file])]
          /\ mu' = [mu EXCEPT ![req[h].file] = h]
      BY <1>3 DEF FinishHash
    <2>3. \A e \in File \ {req[h].file} : Undisturbed(e) /\ mu'[e] = mu[e]
      BY <1>1, <2>2 DEF TypeOK, Undisturbed
    <2>4. /\ \A g \in Proc \ {h} : req'[g] = req[g]
          /\ req'[h].pc = "close" /\ req'[h].file = req[h].file
      <3> DEFINE m == HashMatches(h)
      <3>1. m \in BOOLEAN
        BY HashMatchesType
      <3>2. req' = [req EXCEPT ![h].pc = "close", ![h].match = m]
        BY <1>3 DEF FinishHash
      <3>3. req \in [Proc -> Request]
        BY <1>1 DEF TypeOK
      <3> HIDE DEF m
      <3> QED
        BY <3>1, <3>2, <3>3, HashedFacts
    <2>5. /\ Size' = Size /\ data' = data
          /\ \A g \in Proc : Taken(g)'
      BY <1>1, <2>1, <2>2, <2>4 DEF Taken
    <2>6. ASSUME NEW g \in Proc PROVE Sizing(g)' /\ Answering(g)'
      <3>1. CASE req'[g].pc \in SizingPCs
        <4>1. req'[g] = req[g] /\ Sizing(g) /\ req[g].file \in File \ {req[h].file}
          BY <1>2, <2>1, <2>4, <3>1 DEF SizeInv, SizingPCs
        <4>2. NewSize(g, Len(req[g].body))' = NewSize(g, Len(req[g].body))
          BY <2>5, <4>1 DEF NewSize
        <4> QED
          BY <2>3, <3>1, <4>1, <4>2 DEF Sizing, Answering, Undisturbed, SizingPCs
      <3>2. CASE req'[g].pc \notin SizingPCs
        BY <2>4, <2>5, <3>2 DEF SizeInv, Sizing, Answering
      <3> QED
        BY <3>1, <3>2
    <2>7. ASSUME NEW e \in open' \ tmpDir', mu'[e] = NoProc
          PROVE  Len(data'[e]) <= Size'[e] /\ pos'[e] <= Size'[e]
      <3>1. e \in File /\ e \in open \ tmpDir /\ e # req[h].file
        BY <1>1, <2>1, <2>2, <2>7 DEF TypeOK
      <3> QED
        BY <2>3, <2>7, <3>1 DEF SizeInv, Undisturbed
    <2>8. \A e \in File \ used' : data'[e] = <<>> /\ pos'[e] = 0
      BY <2>1, <2>2, <2>3 DEF SizeInv, Undisturbed
    <2> QED
      BY <1>1, <2>2, <2>5, <2>6, <2>7, <2>8 DEF SizeInv
  <1>4. ASSUME NEW h \in Proc, PutCreate(h) PROVE SizeInv'
    <2>1. PICK f \in File \ used :
             /\ used' = used \cup {f} /\ open' = open \cup {f}
             /\ tmpDir' = tmpDir \cup {f}
             /\ \E n \in {0, req[h].num} : data' = [data EXCEPT ![f] = Zeros(n)]
             /\ req' = [req EXCEPT ![h].pc = "putCopy", ![h].file = f]
      BY <1>4 DEF PutCreate
    <2>2. UNCHANGED <<pos, Size, uploads, mu>>
      BY <1>4 DEF PutCreate
    <2>3. \A e \in File \ {f} : Undisturbed(e)
      BY <1>1, <2>1, <2>2 DEF TypeOK, Undisturbed
    <2>4. req'[h].pc = "putCopy" /\ \A g \in Proc \ {h} : req'[g] = req[g]
      BY <1>1, <2>1, CreatedFacts DEF TypeOK
    <2>5. \A g \in Proc : Taken(g)'
      BY <1>1, <2>2, <2>4 DEF Taken, TakenPCs
    <2>6. \A g \in Proc : req'[g].pc \in SizingPCs \cup {"answer"} =>
             req'[g] = req[g] /\ Undisturbed(req[g].file)
      BY <1>2, <2>1, <2>3, <2>4 DEF SizingPCs
    <2>7. \A e \in open' \ tmpDir' : e \in open \ tmpDir /\ e # f /\ e \in File
      BY <1>1, <2>1 DEF TypeOK
    <2> QED
      BY <1>1, <2>1, <2>2, <2>3, <2>5, <2>6, <2>7, ElsewhereSize
  <1>5. ASSUME NEW h \in Proc, PutCopy(h) PROVE SizeInv'
    <2>1. req[h].file \in File /\ req[h].file \in used /\ req[h].file \in tmpDir
      BY <1>1, <1>5 DEF PutCopy, RequestOK, PutOK, PutPCs
    <2>2. UNCHANGED <<pos, Size, uploads, used, open, tmpDir, mu>>
      BY <1>5 DEF PutCopy
    <2>3. \A e \in File \ {req[h].file} : Undisturbed(e)
      BY <1>1, <1>5, <2>2 DEF PutCopy, TypeOK, Undisturbed
    <2>4. req'[h].pc = "putCommit" /\ \A g \in Proc \ {h} : req'[g] = req[g]
      BY <1>1, <1>5, GoesFacts, Labels DEF PutCopy, TypeOK
    <2>5. \A g \in Proc : Taken(g)'
      BY <1>1, <2>2, <2>4 DEF Taken, TakenPCs
    <2>6. \A g \in Proc : req'[g].pc \in SizingPCs \cup {"answer"} =>
             req'[g] = req[g] /\ Undisturbed(req[g].file)
      BY <1>2, <2>1, <2>3, <2>4 DEF SizingPCs
    <2>7. \A e \in open' \ tmpDir' : e \in open \ tmpDir /\ e # req[h].file /\ e \in File
      BY <1>1, <2>1, <2>2 DEF TypeOK
    <2> QED
      BY <1>1, <2>1, <2>2, <2>3, <2>5, <2>6, <2>7, ElsewhereSize
  <1>6. CASE Start
    <2>1. PICK f \in File \ used :
             /\ used' = used \cup {f} /\ uploads' = uploads \cup {f}
             /\ open' = open \cup {f}
      BY <1>6 DEF Start
    <2>2. UNCHANGED <<data, pos, Size, req, tmpDir, mu>>
      BY <1>6 DEF Start
    <2>3. Len(data[f]) <= Size[f] /\ pos[f] <= Size[f]
      <3>1. data[f] = <<>> /\ pos[f] = 0 /\ Size[f] \in Nat
        BY <1>1, <2>1 DEF SizeInv, TypeOK
      <3>2. Len(<<>>) = 0
        OBVIOUS
      <3> QED
        BY <3>1, <3>2
    <2>4. \A g \in Proc : Taken(g)'
      BY <1>1, <2>1, <2>2 DEF Taken, RequestOK, SessionOK, SessionPCs, TakenPCs
    <2>5. \A g \in Proc : Sizing(g)' /\ Answering(g)'
      BY <2>2 DEF SizeInv, Sizing, Answering, NewSize
    <2> QED
      BY <2>1, <2>2, <2>3, <2>4, <2>5 DEF SizeInv
  <1>7. CASE Crash \/ PowerLoss
    <2>1. Restarts
      BY <1>7 DEF Crash, PowerLoss
    <2>2. /\ uploads' = {} /\ open' = {} /\ UNCHANGED used
          /\ \A f \in File : pos'[f] = 0
          /\ \A h \in Proc : req'[h].pc = "idle"
      BY <2>1, IdleType DEF Restarts
    <2>3. \A f \in File \ used : data'[f] = data[f]
      BY <1>1, <1>7 DEF Crash, PowerLoss
    <2> QED
      BY <2>2, <2>3 DEF SizeInv, Sizing, Answering, Taken, SizingPCs, TakenPCs
  <1>8. CASE CleanupStale \/ DeleteBlob \/ UNCHANGED vars
    <2>1. /\ UNCHANGED <<data, pos, Size, req, tmpDir, mu, used>>
          /\ uploads' \subseteq uploads /\ uploads' \subseteq open' /\ open' \subseteq open
      BY <1>1, <1>8 DEF CleanupStale, DeleteBlob, vars
    <2>2. \A g \in Proc : Taken(g)'
      BY <1>1, <2>1 DEF Taken
    <2>3. \A f : Undisturbed(f)
      BY <2>1 DEF Undisturbed
    <2> QED
      BY <2>1, <2>2, <2>3, ElsewhereSize
  <1> QED
    BY <1>3, <1>4, <1>5, <1>6, <1>7, <1>8

\* Upload.Size, which a client is told to resume from, is short of the session's file
\* only while a Write holds upload.mu, and the Range of a PATCH's answer, which is read
\* without that lock, covers the bytes of that PATCH: writes at the handle's place, at
\* an offset, and writes that break off half way move them in step.
THEOREM OffsetCovers == Spec => []SizeCoversFile
  <1>1. Init => SizeInv
    BY IdleType DEF Init, SizeInv, Sizing, Answering, Taken, SizingPCs, TakenPCs
  <1>2. ASSUME IInv, SizeInv, [Next]_vars PROVE SizeInv'
    <2>1. ASSUME NEW h \in Proc, ServerStep(h) PROVE SizeInv'
      BY <1>2, <2>1, RequestSize, SetSizeSize, OthersSize DEF ServerStep
    <2>2. ASSUME NEW h \in Proc, ClientStep(h) PROVE SizeInv'
      BY <1>2, <2>2, RequestSize, WriteSize, OthersSize DEF ClientStep
    <2>3. ASSUME NEW h \in Proc, NewRequest(h) PROVE SizeInv'
      BY <1>2, <2>3, RequestSize
    <2>4. CASE \/ Start \/ CleanupStale \/ DeleteBlob \/ Crash \/ PowerLoss
               \/ UNCHANGED vars
      BY <1>2, <2>4, OthersSize
    <2> QED
      BY <1>2, <2>1, <2>2, <2>3, <2>4 DEF Next
  <1>3. IInv /\ SizeInv => SizeCoversFile
    BY DEF IInv, FilesInv, SizeInv, Answering, SizeCoversFile
  <1> QED
    BY <1>1, <1>2, <1>3, Invariance, PTL DEF Spec
=============================================================================
