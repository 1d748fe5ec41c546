----------------------------- MODULE MirrorProofs -----------------------------
(***************************************************************************)
(* TypeOK, ServedStored and Backed for every number of requests,           *)
(* repositories, digests and failures.                                     *)
(*                                                                         *)
(* Both rest on one fact: a digest that was put, that failed to be put or  *)
(* that was deleted is one of the three from then on.  A request carries   *)
(* it from Put to the record and the link.  A client gets the body before  *)
(* that, from the one transfer that holds the lock of the store.           *)
(***************************************************************************)
EXTENDS Mirror, TLAPS

Kept == stored \cup failed \cup dropped

\* A request for a tag goes through put and record, one for a blob through exists and
\* the transfer; both have Put behind them when they come to link.
RequestOK(q, kept) ==
    /\ q.pc # "idle" => q.repo \in Repo /\ q.ref \in Tag \cup Blob
    /\ q.pc \in {"put", "record"} => q.ref \in Tag /\ q.dgst \in Manifest
    /\ q.pc \in {"exists", "lock", "stream", "finish"} => q.ref \in Blob
    /\ q.ref \in Blob => q.dgst = q.ref
    /\ q.pc \in {"record", "link"} => q.dgst \in kept

\* A transfer holds the lock.
Locked == \A p \in Proc : req[p].pc \in {"stream", "finish"} => mu = p

\* What a client has got went through Put, or is with the transfer that holds the lock.
Passed ==
    \A b \in got :
        \/ b \in Kept
        \/ \E p \in Proc : mu = p /\ req[p].pc = "finish" /\ req[p].dgst = b

IInv ==
    /\ TypeOK
    /\ Backed
    /\ Locked
    /\ Passed
    /\ \A p \in Proc : RequestOK(req[p], Kept)

-----------------------------------------------------------------------------
(* What every step relies on *)

\* A goroutine between two requests is of the right type and claims nothing.
LEMMA IdleOK == Idle \in Request /\ \A kept : RequestOK(Idle, kept)
  BY ConstantsAssumption DEF Idle, Request, RequestOK, Digest

\* The bound is never passed.
LEMMA TroubleOK ==
    ASSUME trouble \in 0 .. MaxTrouble, Trouble \/ UNCHANGED trouble
    PROVE  trouble' \in 0 .. MaxTrouble
  BY ConstantsAssumption DEF Trouble

\* BlobStore.Put of a digest, whatever comes of it, makes the digest a kept one and
\* lets go of no other.
LEMMA PutKeeps ==
    ASSUME TypeOK, NEW d \in Digest, Puts(d) \/ PutFails(d)
    PROVE  /\ Kept \subseteq Kept' /\ d \in Kept'
           /\ stored' \subseteq Digest /\ failed' \subseteq Digest
           /\ dropped' \subseteq Digest
           /\ trouble' \in 0 .. MaxTrouble
  <1>1. trouble' \in 0 .. MaxTrouble
    BY TroubleOK DEF TypeOK, Puts, PutFails
  <1> QED
    BY <1>1 DEF TypeOK, Puts, PutFails, Kept

\* A step that changes one request and lets go of nothing keeps what all requests
\* rely on.
LEMMA OthersKeep ==
    ASSUME NEW p \in Proc, NEW q \in Request, req \in [Proc -> Request],
           \A x \in Proc : RequestOK(req[x], Kept),
           req' = [req EXCEPT ![p] = q], RequestOK(q, Kept'),
           Kept \subseteq Kept'
    PROVE  req' \in [Proc -> Request] /\ (\A x \in Proc : RequestOK(req[x], Kept))'
  <1>1. req' \in [Proc -> Request]
    OBVIOUS
  <1>2. ASSUME NEW x \in Proc PROVE RequestOK(req[x], Kept)'
    <2>1. CASE x = p
      BY <2>1 DEF RequestOK
    <2>2. CASE x # p
      <3>1. req'[x] = req[x]
        BY <2>2
      <3> QED
        BY <3>1 DEF RequestOK
    <2> QED
      BY <2>1, <2>2
  <1> QED
    BY <1>1, <1>2

\* The same when no request changes.
LEMMA AllKeep ==
    ASSUME \A x \in Proc : RequestOK(req[x], Kept), UNCHANGED req, Kept \subseteq Kept'
    PROVE  (\A x \in Proc : RequestOK(req[x], Kept))'
  BY DEF RequestOK

\* A step of a request that transfers nothing and lets go of nothing leaves the transfer
\* where it is.
LEMMA NoTransfer ==
    ASSUME Locked, Passed, NEW p \in Proc, NEW q \in Request, req \in [Proc -> Request],
           req' = [req EXCEPT ![p] = q], UNCHANGED mu, Kept \subseteq Kept',
           {req[p].pc, q.pc} \cap {"stream", "finish"} = {},
           got' \subseteq got \cup Kept'
    PROVE  Locked' /\ Passed'
  <1>1. \A x \in Proc : req'[x] = IF x = p THEN q ELSE req[x]
    OBVIOUS
  <1>2. Locked'
    BY <1>1 DEF Locked
  <1>3. ASSUME NEW b \in got'
        PROVE  \/ b \in Kept'
               \/ \E x \in Proc : mu' = x /\ req'[x].pc = "finish" /\ req'[x].dgst = b
    <2>1. CASE b \in Kept'
      BY <2>1
    <2>2. CASE b \in got /\ b \notin Kept'
      <3>1. PICK x \in Proc : mu = x /\ req[x].pc = "finish" /\ req[x].dgst = b
        BY <2>2 DEF Passed
      <3>2. req'[x] = req[x]
        BY <1>1, <3>1
      <3> QED
        BY <3>1, <3>2
    <2> QED
      BY <1>3, <2>1, <2>2
  <1> QED
    BY <1>2, <1>3 DEF Passed

\* Nor does a step without a request.
LEMMA NoRequest ==
    ASSUME Locked, Passed, UNCHANGED <<req, mu>>, Kept \subseteq Kept',
           got' \subseteq got \cup Kept'
    PROVE  Locked' /\ Passed'
  BY DEF Locked, Passed

-----------------------------------------------------------------------------
(* The world *)

\* The initial state has no record, no link and no request.
LEMMA InitIInv == Init => IInv
  <1> SUFFICES ASSUME Init PROVE IInv
    OBVIOUS
  <1>1. TypeOK
    BY ConstantsAssumption, IdleOK DEF Init, TypeOK
  <1>2. \A p \in Proc : RequestOK(req[p], Kept)
    BY IdleOK DEF Init
  <1>3. Locked /\ Passed
    BY DEF Init, Locked, Passed, Idle
  <1> QED
    BY <1>1, <1>2, <1>3 DEF IInv, Init, Backed

\* Upstream and clients let go of no digest, and records and links only shrink.
LEMMA WorldIInv ==
    ASSUME IInv, World
    PROVE  IInv'
  <1> USE DEF db, history
  <1>1. TypeOK
    BY DEF IInv
  <1>2. Kept \subseteq Kept'
    BY <1>1 DEF World, Retag, DeleteManifest, DeleteBlob, TokenExpires, Kept
  <1>3. UNCHANGED <<req, got, mu>>
    BY DEF World, Retag, DeleteManifest, DeleteBlob, TokenExpires
  <1>4. (\A x \in Proc : RequestOK(req[x], Kept))'
    BY <1>2, <1>3, AllKeep DEF IInv
  <1>5. Locked' /\ Passed'
    BY <1>2, <1>3, NoRequest DEF IInv
  <1>6. ASSUME NEW r \in Repo, NEW t \in Tag, NEW m \in Manifest, Retag(r, t, m)
        PROVE  TypeOK' /\ Backed'
    <2>1. trouble' \in 0 .. MaxTrouble
      BY <1>1, <1>6, TroubleOK DEF TypeOK, Retag
    <2> QED
      BY <1>1, <1>6, <2>1 DEF IInv, TypeOK, Retag, Backed
  <1>7. ASSUME NEW r \in Repo, NEW t \in Tag, DeleteManifest(r, t)
        PROVE  TypeOK' /\ Backed'
    <2>1. trouble' \in 0 .. MaxTrouble
      BY <1>1, <1>7, TroubleOK DEF TypeOK, DeleteManifest
    <2>2. TypeOK'
      BY <1>1, <1>7, <2>1 DEF TypeOK, DeleteManifest
    <2>3. \A x \in Repo : records'[x] \subseteq records[x] /\ links'[x] = links[x]
      BY <1>1, <1>7 DEF TypeOK, DeleteManifest
    <2> QED
      BY <1>2, <2>2, <2>3 DEF IInv, Backed, Kept
  <1>8. ASSUME NEW r \in Repo, NEW d \in Digest, DeleteBlob(r, d)
        PROVE  TypeOK' /\ Backed'
    <2>1. trouble' \in 0 .. MaxTrouble
      BY <1>1, <1>8, TroubleOK DEF TypeOK, DeleteBlob
    <2>2. TypeOK'
      BY <1>1, <1>8, <2>1 DEF TypeOK, DeleteBlob
    <2>3. \A x \in Repo : records'[x] = records[x] /\ links'[x] \subseteq links[x]
      BY <1>1, <1>8 DEF TypeOK, DeleteBlob
    <2> QED
      BY <1>2, <2>2, <2>3 DEF IInv, Backed, Kept
  <1>9. ASSUME TokenExpires PROVE TypeOK' /\ Backed'
    BY <1>1, <1>9 DEF IInv, TypeOK, TokenExpires, Backed
  <1> QED
    BY <1>4, <1>5, <1>6, <1>7, <1>8, <1>9 DEF World, IInv

-----------------------------------------------------------------------------
(* Requests *)

\* A step that only moves a request on, with its token and the bound.
LEMMA MovesOn ==
    ASSUME IInv, NEW p \in Proc, NEW q \in Request,
           req' = [req EXCEPT ![p] = q], RequestOK(q, Kept),
           {req[p].pc, q.pc} \cap {"stream", "finish"} = {},
           UNCHANGED <<upstream, stored, db, mu, history>>,
           token' \in Repo \cup {None}, Trouble \/ UNCHANGED trouble
    PROVE  IInv'
  <1> USE DEF db, history
  <1>1. RequestOK(q, Kept') /\ Kept \subseteq Kept'
    BY DEF RequestOK, Kept
  <1>2. req' \in [Proc -> Request] /\ (\A x \in Proc : RequestOK(req[x], Kept))'
    BY <1>1, OthersKeep DEF IInv, TypeOK
  <1>3. trouble' \in 0 .. MaxTrouble
    BY TroubleOK DEF IInv, TypeOK
  <1>4. TypeOK'
    BY <1>2, <1>3 DEF IInv, TypeOK
  <1>5. Locked' /\ Passed'
    <2>1. got' \subseteq got \cup Kept' /\ UNCHANGED mu
      OBVIOUS
    <2> QED
      BY <1>1, <2>1, NoTransfer DEF IInv, TypeOK
  <1> QED
    BY <1>2, <1>4, <1>5 DEF IInv, Backed

\* GetManifest and GetBlob of a client that has to wait, getDockerHubToken, and what
\* upstream answers: nothing is written yet.
LEMMA AsksIInv ==
    ASSUME IInv, NEW p \in Proc,
           \/ \E r \in Repo, t \in Tag : GetManifest(p, r, t)
           \/ GetToken(p) \/ RequestToken(p) \/ Refused(p) \/ FetchManifest(p)
           \/ FetchBlob(p)
    PROVE  IInv'
  <1>1. req \in [Proc -> Request] /\ RequestOK(req[p], Kept) /\ token \in Repo \cup {None}
    BY DEF IInv, TypeOK
  <1>2. ASSUME NEW r \in Repo, NEW t \in Tag, GetManifest(p, r, t) PROVE IInv'
    <2> DEFINE q == [Idle EXCEPT !.pc = "token", !.repo = r, !.ref = t]
    <2>1. q \in Request /\ RequestOK(q, Kept)
      BY ConstantsAssumption DEF Idle, Request, RequestOK, Digest
    <2>2. q.pc = "token" /\ Idle.pc = "idle"
      BY DEF Idle
    <2>3. req[p].pc = "idle" /\ req' = [req EXCEPT ![p] = q]
      BY <1>2, <2>2 DEF GetManifest
    <2> HIDE DEF q
    <2> QED
      BY <1>1, <1>2, <2>1, <2>2, <2>3, MovesOn DEF GetManifest
  <1>3. CASE GetToken(p) \/ RequestToken(p)
    <2>1. req[p].repo \in Repo /\ req[p].pc \in {"token", "ask"}
      BY <1>1, <1>3 DEF GetToken, RequestToken, RequestOK
    <2>2. PICK pc \in {"ask", "fetch"}, tok \in Repo \cup {None} :
             req' = [req EXCEPT ![p] = [req[p] EXCEPT !.pc = pc, !.token = tok]]
      <3>1. ASSUME NEW pc \in {"ask", "fetch"}, req' = [req EXCEPT ![p].pc = pc]
            PROVE  req' = [req EXCEPT ![p] = [req[p] EXCEPT !.pc = pc,
                                                            !.token = req[p].token]]
        BY <1>1, <3>1 DEF Request
      <3>2. req[p].token \in Repo \cup {None}
        BY <1>1 DEF Request
      <3> QED
        BY <1>1, <1>3, <2>1, <3>1, <3>2 DEF GetToken, RequestToken, Goes
    <2> DEFINE q == [req[p] EXCEPT !.pc = pc, !.token = tok]
    <2>3. q \in Request /\ RequestOK(q, Kept) /\ q.pc = pc
      BY <1>1, <2>1 DEF Request, RequestOK
    <2>4. token' \in Repo \cup {None}
      BY <1>1, <1>3, <2>1 DEF GetToken, RequestToken
    <2>5. Trouble \/ UNCHANGED trouble
      BY <1>3 DEF GetToken, RequestToken
    <2>6. UNCHANGED <<upstream, stored, db, mu, history>>
      BY <1>3 DEF GetToken, RequestToken
    <2>7. {req[p].pc, q.pc} \cap {"stream", "finish"} = {}
      BY <2>1, <2>3
    <2> QED
      BY <2>2, <2>3, <2>4, <2>5, <2>6, <2>7, MovesOn
  <1>4. CASE Refused(p)
    <2>1. UNCHANGED <<upstream, stored, db, mu, history>> /\ UNCHANGED token
          /\ (Trouble \/ UNCHANGED trouble)
          /\ req[p].pc = "fetch" /\ Idle.pc = "idle"
      BY <1>4 DEF Refused, Idle
    <2> QED
      BY <1>1, <1>4, <2>1, IdleOK, MovesOn DEF Refused, Ends
  <1>5. CASE FetchManifest(p)
    <2> DEFINE q == [req[p] EXCEPT !.pc = "put", !.dgst = upstream[req[p].repo][req[p].ref]]
    <2>1. upstream[req[p].repo][req[p].ref] \in Manifest
      BY <1>1, <1>5 DEF FetchManifest, RequestOK, IInv, TypeOK
    <2>2. q \in Request /\ RequestOK(q, Kept) /\ q.pc = "put" /\ req[p].pc = "fetch"
      BY <1>1, <1>5, <2>1, ConstantsAssumption
        DEF FetchManifest, Request, RequestOK, Digest
    <2> QED
      BY <1>1, <1>5, <2>2, MovesOn DEF FetchManifest
  <1>6. CASE FetchBlob(p)
    <2> DEFINE q == [req[p] EXCEPT !.pc = "lock"]
    <2>1. q \in Request /\ RequestOK(q, Kept) /\ q.pc = "lock" /\ req[p].pc = "fetch"
      BY <1>1, <1>6 DEF FetchBlob, Request, RequestOK
    <2> QED
      BY <1>1, <1>6, <2>1, MovesOn DEF FetchBlob, Goes
  <1> QED
    BY <1>2, <1>3, <1>4, <1>5, <1>6

\* GetManifest of the proxy puts the manifest.
LEMMA StoreManifestIInv ==
    ASSUME IInv, NEW p \in Proc, StoreManifest(p)
    PROVE  IInv'
  <1> USE DEF db, history
  <1>1. TypeOK /\ req \in [Proc -> Request] /\ RequestOK(req[p], Kept)
    BY DEF IInv, TypeOK
  <1> DEFINE d == req[p].dgst
             q == [req[p] EXCEPT !.pc = "record"]
  <1>2. d \in Digest /\ (Puts(d) \/ PutFails(d))
    BY <1>1 DEF StoreManifest, RequestOK, Digest
  <1>3. /\ Kept \subseteq Kept' /\ d \in Kept'
        /\ stored' \subseteq Digest /\ failed' \subseteq Digest
        /\ dropped' \subseteq Digest /\ trouble' \in 0 .. MaxTrouble
    BY <1>1, <1>2, PutKeeps
  <1>4. /\ q \in Request /\ RequestOK(q, Kept') /\ req' = [req EXCEPT ![p] = q]
        /\ q.pc = "record" /\ req[p].pc = "put"
    BY <1>1, <1>3 DEF StoreManifest, Goes, Request, RequestOK
  <1>5. UNCHANGED <<upstream, records, tags, links, token, got, mu>>
    BY DEF StoreManifest
  <1>6. req' \in [Proc -> Request] /\ (\A x \in Proc : RequestOK(req[x], Kept))'
    BY <1>1, <1>3, <1>4, OthersKeep DEF IInv
  <1>7. Locked' /\ Passed'
    BY <1>1, <1>3, <1>4, <1>5, NoTransfer DEF IInv
  <1>8. TypeOK'
    BY <1>1, <1>3, <1>5, <1>6 DEF TypeOK
  <1> QED
    BY <1>3, <1>5, <1>6, <1>7, <1>8 DEF IInv, Backed, Kept

\* The transfer takes the lock; no other one has it.
LEMMA StreamIInv ==
    ASSUME IInv, NEW p \in Proc, Stream(p)
    PROVE  IInv'
  <1> USE DEF db, history
  <1>1. TypeOK /\ req \in [Proc -> Request] /\ RequestOK(req[p], Kept)
    BY DEF IInv, TypeOK
  <1> DEFINE q == [req[p] EXCEPT !.pc = "stream"]
  <1>2. q \in Request /\ RequestOK(q, Kept) /\ req' = [req EXCEPT ![p] = q]
    BY <1>1 DEF Stream, Goes, Request, RequestOK
  <1>3. /\ UNCHANGED <<upstream, stored, db, token, history, trouble>>
        /\ mu = None /\ mu' = p
    BY DEF Stream
  <1>4. Kept' = Kept
    BY <1>3 DEF Kept
  <1>5. req' \in [Proc -> Request] /\ (\A x \in Proc : RequestOK(req[x], Kept))'
    BY <1>1, <1>2, <1>4, OthersKeep DEF IInv
  <1>6. \A x \in Proc : x # p => req'[x] = req[x]
    BY <1>1, <1>2
  <1>7. Locked'
    BY <1>3, <1>6, ConstantsAssumption DEF IInv, Locked
  <1>8. Passed'
    <2>1. got \subseteq Kept
      BY <1>3, ConstantsAssumption DEF IInv, Passed
    <2> QED
      BY <1>3, <1>4, <2>1 DEF Passed
  <1>9. TypeOK'
    BY <1>1, <1>3, <1>5 DEF TypeOK
  <1> QED
    BY <1>3, <1>5, <1>7, <1>8, <1>9 DEF IInv, Backed

\* The client gets the blob from the transfer that holds the lock.
LEMMA ClientReadsIInv ==
    ASSUME IInv, NEW p \in Proc, ClientReads(p)
    PROVE  IInv'
  <1> USE DEF db
  <1>1. TypeOK /\ req \in [Proc -> Request] /\ RequestOK(req[p], Kept)
    BY DEF IInv, TypeOK
  <1> DEFINE q == [req[p] EXCEPT !.pc = "finish"]
  <1>2. /\ q \in Request /\ RequestOK(q, Kept) /\ req' = [req EXCEPT ![p] = q]
        /\ q.pc = "finish" /\ q.dgst = req[p].dgst
    BY <1>1 DEF ClientReads, Goes, Request, RequestOK
  <1>3. /\ UNCHANGED <<upstream, stored, db, mu, token, failed, dropped, trouble>>
        /\ req[p].pc = "stream" /\ got' = got \cup {req[p].dgst}
    BY DEF ClientReads
  <1>4. Kept' = Kept /\ mu = p /\ req[p].dgst \in Blob
    BY <1>1, <1>3 DEF Kept, IInv, Locked, RequestOK
  <1>5. req' \in [Proc -> Request] /\ (\A x \in Proc : RequestOK(req[x], Kept))'
    BY <1>1, <1>2, <1>4, OthersKeep DEF IInv
  <1>6. (\A x \in Proc : x # p => req'[x] = req[x]) /\ req'[p] = q
    BY <1>1, <1>2
  <1>7. Locked'
    BY <1>3, <1>4, <1>6 DEF IInv, Locked
  <1>8. Passed'
    <2>1. got \subseteq Kept
      BY <1>3, <1>4 DEF IInv, Passed
    <2> HIDE DEF q
    <2> QED
      BY <1>2, <1>3, <1>4, <1>6, <2>1 DEF Passed
  <1>9. TypeOK'
    BY <1>1, <1>3, <1>4, <1>5 DEF TypeOK
  <1> QED
    BY <1>3, <1>5, <1>7, <1>8, <1>9 DEF IInv, Backed

\* Put of a transfer returns and gives the lock back: what its client has got went
\* through Put now.
LEMMA TransferEndsIInv ==
    ASSUME IInv, NEW p \in Proc, Stream_Breaks(p) \/ Put_Return(p)
    PROVE  IInv'
  <1> USE DEF db, history
  <1>1. TypeOK /\ req \in [Proc -> Request] /\ RequestOK(req[p], Kept)
    BY DEF IInv, TypeOK
  <1> DEFINE d == req[p].dgst
             q == [req[p] EXCEPT !.pc = "link"]
  <1>2. /\ d \in Digest /\ (Puts(d) \/ PutFails(d))
        /\ req[p].pc \in {"stream", "finish"} /\ mu = p
    BY <1>1 DEF Stream_Breaks, Put_Return, RequestOK, Digest, IInv, Locked
  <1>3. /\ Kept \subseteq Kept' /\ d \in Kept'
        /\ stored' \subseteq Digest /\ failed' \subseteq Digest
        /\ dropped' \subseteq Digest /\ trouble' \in 0 .. MaxTrouble
    BY <1>1, <1>2, PutKeeps
  <1>4. /\ q \in Request /\ RequestOK(q, Kept') /\ req' = [req EXCEPT ![p] = q]
        /\ q.pc = "link"
    BY <1>1, <1>2, <1>3 DEF Stream_Breaks, Put_Return, Goes, Request, RequestOK
  <1>5. UNCHANGED <<upstream, records, tags, links, token, got>> /\ mu' = None
    BY DEF Stream_Breaks, Put_Return
  <1>6. req' \in [Proc -> Request] /\ (\A x \in Proc : RequestOK(req[x], Kept))'
    BY <1>1, <1>3, <1>4, OthersKeep DEF IInv
  <1>7. (\A x \in Proc : x # p => req'[x] = req[x]) /\ req'[p] = q
    BY <1>1, <1>4
  <1>8. Locked'
    <2> HIDE DEF q
    <2> QED
      BY <1>2, <1>4, <1>7 DEF IInv, Locked
  <1>9. Passed'
    BY <1>2, <1>3, <1>5 DEF IInv, Passed
  <1>10. TypeOK'
    BY <1>1, <1>3, <1>5, <1>6 DEF TypeOK
  <1> QED
    BY <1>3, <1>5, <1>6, <1>8, <1>9, <1>10 DEF IInv, Backed, Kept

\* What was put is recorded.
LEMMA PutManifestIInv ==
    ASSUME IInv, NEW p \in Proc, PutManifest(p)
    PROVE  IInv'
  <1> USE DEF db, history
  <1>1. TypeOK /\ req \in [Proc -> Request] /\ RequestOK(req[p], Kept)
    BY DEF IInv, TypeOK
  <1>2. /\ req[p].pc = "record" /\ req[p].dgst \in Manifest /\ req[p].dgst \in Kept
        /\ req[p].repo \in Repo /\ req[p].ref \in Tag
    BY <1>1 DEF PutManifest, RequestOK
  <1>3. UNCHANGED <<stored, failed, dropped, got, upstream, links, mu, token>>
        /\ (Trouble \/ UNCHANGED trouble)
    BY DEF PutManifest
  <1> DEFINE q == [req[p] EXCEPT !.pc = "link"]
  <1>4. /\ q \in Request /\ RequestOK(q, Kept') /\ req' = [req EXCEPT ![p] = q]
        /\ q.pc = "link"
    BY <1>1, <1>2, <1>3 DEF PutManifest, Goes, Request, RequestOK, Kept
  <1>5. req' \in [Proc -> Request] /\ (\A x \in Proc : RequestOK(req[x], Kept))'
    BY <1>1, <1>3, <1>4, OthersKeep DEF IInv, Kept
  <1>6. trouble' \in 0 .. MaxTrouble
    BY <1>1, <1>3, TroubleOK DEF TypeOK
  <1>7. /\ records' \in [Repo -> SUBSET Manifest]
        /\ tags' \in [Repo -> [Tag -> Manifest \cup {None}]]
        /\ \A x \in Repo : records'[x] \subseteq records[x] \cup {req[p].dgst}
    <2>1. CASE UNCHANGED <<records, tags>>
      BY <1>1, <2>1 DEF TypeOK
    <2>2. CASE /\ records' = [records EXCEPT ![req[p].repo] = @ \cup {req[p].dgst}]
               /\ tags' = [tags EXCEPT ![req[p].repo][req[p].ref] = req[p].dgst]
      BY <1>1, <1>2, <2>2 DEF TypeOK
    <2> QED
      BY <2>1, <2>2 DEF PutManifest
  <1>8. TypeOK'
    BY <1>1, <1>3, <1>5, <1>6, <1>7 DEF TypeOK
  <1>9. Backed'
    BY <1>2, <1>3, <1>7 DEF IInv, Backed, Kept
  <1>10. Locked' /\ Passed'
    <2>1. Kept \subseteq Kept' /\ got' \subseteq got \cup Kept'
      BY <1>3 DEF Kept
    <2> QED
      BY <1>1, <1>2, <1>3, <1>4, <2>1, NoTransfer DEF IInv
  <1> QED
    BY <1>3, <1>5, <1>8, <1>9, <1>10 DEF IInv

\* What was put is linked.
LEMMA LinkIInv ==
    ASSUME IInv, NEW p \in Proc, Link(p)
    PROVE  IInv'
  <1> USE DEF db, history
  <1>1. TypeOK /\ req \in [Proc -> Request] /\ RequestOK(req[p], Kept)
    BY DEF IInv, TypeOK
  <1>2. /\ req[p].pc = "link" /\ req[p].dgst \in Kept /\ req[p].repo \in Repo
        /\ Kept \subseteq Digest
    BY <1>1 DEF Link, RequestOK, TypeOK, Kept
  <1>3. UNCHANGED <<stored, failed, dropped, got, upstream, records, tags, mu, token,
                    trouble>>
    BY DEF Link
  <1>4. /\ Idle \in Request /\ RequestOK(Idle, Kept') /\ req' = [req EXCEPT ![p] = Idle]
        /\ Idle.pc = "idle"
    BY IdleOK DEF Link, Ends, Idle
  <1>5. req' \in [Proc -> Request] /\ (\A x \in Proc : RequestOK(req[x], Kept))'
    BY <1>1, <1>3, <1>4, OthersKeep DEF IInv, Kept
  <1>6. /\ links' \in [Repo -> SUBSET Digest]
        /\ \A x \in Repo : links'[x] \subseteq links[x] \cup {req[p].dgst}
    BY <1>1, <1>2 DEF Link, TypeOK
  <1>7. TypeOK'
    BY <1>1, <1>3, <1>5, <1>6 DEF TypeOK
  <1>8. Backed'
    BY <1>2, <1>3, <1>6 DEF IInv, Backed, Kept
  <1>9. Locked' /\ Passed'
    <2>1. Kept \subseteq Kept' /\ got' \subseteq got \cup Kept'
      BY <1>3 DEF Kept
    <2> QED
      BY <1>1, <1>2, <1>3, <1>4, <2>1, NoTransfer DEF IInv
  <1> QED
    BY <1>3, <1>5, <1>7, <1>8, <1>9 DEF IInv

\* A client gets a blob that is in the store, or has to wait for upstream.
LEMMA ServesIInv ==
    ASSUME IInv, NEW p \in Proc,
           \/ \E r \in Repo, b \in Blob : GetBlob(p, r, b)
           \/ Proxy_Exists(p)
    PROVE  IInv'
  <1> USE DEF db, history
  <1>1. TypeOK /\ req \in [Proc -> Request] /\ RequestOK(req[p], Kept)
    BY DEF IInv, TypeOK
  <1>2. UNCHANGED <<upstream, stored, records, tags, links, mu, token, failed, dropped,
                    trouble>>
    BY DEF GetBlob, Proxy_Exists
  <1>3. Kept' = Kept
    BY <1>2 DEF Kept
  <1>4. got' \subseteq Blob /\ got' \subseteq got \cup Kept'
    <2>1. ASSUME NEW r \in Repo, NEW b \in Blob, GetBlob(p, r, b)
          PROVE  got' \subseteq Blob /\ got' \subseteq got \cup Kept'
      BY <1>1, <1>3, <2>1 DEF GetBlob, TypeOK, Kept
    <2>2. CASE Proxy_Exists(p)
      BY <1>1, <1>3, <2>2 DEF Proxy_Exists, RequestOK, TypeOK, Kept
    <2> QED
      BY <2>1, <2>2
  <1>5. \/ UNCHANGED req
        \/ \E q \in Request : /\ req' = [req EXCEPT ![p] = q] /\ RequestOK(q, Kept')
                               /\ {req[p].pc, q.pc} \cap {"stream", "finish"} = {}
    <2>1. ASSUME NEW r \in Repo, NEW b \in Blob, GetBlob(p, r, b), ~ UNCHANGED req
          PROVE  \E q \in Request : /\ req' = [req EXCEPT ![p] = q] /\ RequestOK(q, Kept')
                                     /\ {req[p].pc, q.pc} \cap {"stream", "finish"} = {}
      <3> DEFINE q == [Idle EXCEPT !.pc = "exists", !.repo = r, !.ref = b, !.dgst = b]
      <3>1. q \in Request /\ RequestOK(q, Kept')
        BY ConstantsAssumption DEF Idle, Request, RequestOK, Digest
      <3>2. q.pc = "exists" /\ Idle.pc = "idle"
        BY DEF Idle
      <3>3. req[p].pc = "idle" /\ req' = [req EXCEPT ![p] = q]
        BY <2>1, <3>2 DEF GetBlob
      <3> HIDE DEF q
      <3> QED
        BY <3>1, <3>2, <3>3
    <2>2. CASE Proxy_Exists(p) /\ Ends(p)
      <3>1. Idle.pc = "idle" /\ req[p].pc = "exists"
        BY <2>2 DEF Idle, Proxy_Exists
      <3> QED
        BY <2>2, <3>1, IdleOK DEF Ends
    <2>3. CASE Proxy_Exists(p) /\ Goes(p, "token")
      <3> DEFINE q == [req[p] EXCEPT !.pc = "token"]
      <3>1. q \in Request /\ RequestOK(q, Kept') /\ q.pc = "token" /\ req[p].pc = "exists"
        BY <1>1, <2>3 DEF Proxy_Exists, Request, RequestOK
      <3>2. req' = [req EXCEPT ![p] = q]
        BY <1>1, <2>3 DEF Goes
      <3> HIDE DEF q
      <3> QED
        BY <3>1, <3>2
    <2> QED
      BY <2>1, <2>2, <2>3 DEF Proxy_Exists
  <1>6. /\ req' \in [Proc -> Request] /\ (\A x \in Proc : RequestOK(req[x], Kept))'
        /\ Locked' /\ Passed'
    <2>1. Kept \subseteq Kept' /\ UNCHANGED mu
      BY <1>2, <1>3
    <2>2. CASE UNCHANGED req
      BY <1>1, <1>4, <2>1, <2>2, AllKeep, NoRequest DEF IInv
    <2>3. ASSUME NEW q \in Request, req' = [req EXCEPT ![p] = q], RequestOK(q, Kept'),
                 {req[p].pc, q.pc} \cap {"stream", "finish"} = {}
          PROVE  /\ req' \in [Proc -> Request] /\ (\A x \in Proc : RequestOK(req[x], Kept))'
                 /\ Locked' /\ Passed'
      BY <1>1, <1>4, <2>1, <2>3, OthersKeep, NoTransfer DEF IInv
    <2> QED
      BY <1>5, <2>2, <2>3
  <1>7. TypeOK'
    BY <1>1, <1>2, <1>4, <1>6 DEF TypeOK
  <1> QED
    BY <1>2, <1>6, <1>7 DEF IInv, Backed

-----------------------------------------------------------------------------
(* Theorems *)

\* The invariant holds in every state.
LEMMA Invariance == Spec => []IInv
  <1>1. IInv /\ [Next]_vars => IInv'
    <2> SUFFICES ASSUME IInv, [Next]_vars PROVE IInv'
      OBVIOUS
    <2>1. CASE UNCHANGED vars
      <3> USE <2>1 DEF vars, db, history
      <3>1. TypeOK'
        BY DEF IInv, TypeOK
      <3>2. (\A x \in Proc : RequestOK(req[x], Kept))'
        BY AllKeep DEF IInv, Kept
      <3>3. Locked' /\ Passed'
        BY NoRequest DEF IInv, Kept
      <3> QED
        BY <3>1, <3>2, <3>3 DEF IInv, Backed
    <2>2. ASSUME NEW p \in Proc, Step(p) PROVE IInv'
      BY <2>2, AsksIInv, StoreManifestIInv, PutManifestIInv, LinkIInv, ServesIInv,
         StreamIInv, TransferEndsIInv DEF Step
    <2> QED
      BY <2>1, <2>2, WorldIInv, AsksIInv, ServesIInv, ClientReadsIInv, TransferEndsIInv
        DEF Next, Arrives
  <1> QED
    BY InitIInv, <1>1, PTL DEF Spec

\* No handler of the proxy stores a value outside its type: a request that records has
\* a manifest and a tag, one that streams a blob.
THEOREM TypeCorrect == Spec => []TypeOK
  <1>1. IInv => TypeOK
    BY DEF IInv
  <1> QED
    BY <1>1, Invariance, PTL

\* Whoever looks into the store finds what any client has got to the last byte, unless
\* writing it failed or somebody deleted it since: the client has the last byte before the
\* rename, but Put does not give the lock back before.
THEOREM SeenStored == Spec => []ServedStored
  <1>1. IInv => ServedStored
    BY ConstantsAssumption DEF IInv, Passed, ServedStored, Kept
  <1> QED
    BY <1>1, Invariance, PTL

\* What the proxy recorded or linked went through Put, however requests for the same
\* digest and deletes interleave.
THEOREM StoredFirst == Spec => []Backed
  <1>1. IInv => Backed
    BY DEF IInv
  <1> QED
    BY <1>1, Invariance, PTL
=============================================================================
