---------------------------- MODULE RegistryProofs ----------------------------
(***************************************************************************)
(* TypeOK, ManifestsComplete, BlobsProtected, TagsResolve and              *)
(* CacheFollowsTag for every number of requests, repositories, manifests   *)
(* and crashes, whichever kinds of requests clients send.                  *)
(*                                                                         *)
(* Types come first.  Each of the others has an inductive invariant of its *)
(* own, that says what a request in progress carries from one of its calls *)
(* to the next.                                                            *)
(***************************************************************************)
EXTENDS Registry, FiniteSetTheorems, TLAPS

\* The entries of the cache.
Entries == {k \in Repo \X Ref : cache[k[1]][k[2]] # None}

\* What the handlers have put into a request when they come to a call.
ReqOK(q) ==
    /\ q.pc # "idle" => q.repo \in Repo
    /\ q.pc \in {"check", "store", "record", "fetch", "proxy"} =>
          q.ref \in Ref /\ q.dgst \in Manifest
    /\ q.pc \in {"mount", "link", "fetch"} => q.todo \in Seq(Digest)
    /\ q.pc = "mount" => q.ref = None
    /\ q.pc = "link" /\ q.ref # None => q.dgst \in Manifest
    /\ q.pc = "forget" => q.todo \in Seq(Ref) /\ q.todo # <<>>
    /\ q.pc \in {"read", "fill"} => q.ref \in Ref
    /\ q.pc = "fill" => q.dgst \in Manifest
    /\ q.pc \in {"mount", "count", "delete"} => q.dgst \in Digest
    /\ q.pc = "purge" => \A k \in q.keys : k[2] = q.repo

Typed ==
    /\ TypeOK
    /\ IsFiniteSet(Entries)
    /\ \A h \in Proc : ReqOK(req[h])

\* A request that another one's transaction may have marked, and nothing more.
Same(new, old) ==
    /\ new.pc = old.pc /\ new.repo = old.repo /\ new.ref = old.ref
    /\ new.dgst = old.dgst /\ new.todo = old.todo /\ new.keys = old.keys
    /\ old.conflict => new.conflict

Moves(h, q) ==
    /\ req' \in [Proc -> Request]
    /\ req'[h] = q
    /\ \A g \in Proc \ {h} : Same(req'[g], req[g])

-----------------------------------------------------------------------------
(* Sequences and requests *)

\* What a loop visits: the first element, and then the rest.
LEMMA Visits ==
    ASSUME NEW S, NEW s \in Seq(S), s # <<>>
    PROVE  /\ Head(s) \in S /\ Tail(s) \in Seq(S)
           /\ Range(s) = {Head(s)} \cup Range(Tail(s))
  <1>1. Head(s) \in S /\ Tail(s) \in Seq(S) /\ Len(s) \in Nat \ {0}
        /\ DOMAIN s = 1 .. Len(s) /\ DOMAIN Tail(s) = 1 .. Len(s) - 1
    OBVIOUS
  <1>2. Head(s) = s[1] /\ \A i \in 1 .. Len(s) - 1 : Tail(s)[i] = s[i + 1]
    OBVIOUS
  <1>3. ASSUME NEW x \in Range(s) PROVE x \in {Head(s)} \cup Range(Tail(s))
    <2>1. PICK i \in 1 .. Len(s) : x = s[i]
      BY <1>1 DEF Range
    <2>2. CASE i = 1
      BY <1>2, <2>1, <2>2
    <2>3. CASE i # 1
      <3>1. i - 1 \in 1 .. Len(s) - 1 /\ x = Tail(s)[i - 1]
        BY <1>1, <1>2, <2>1, <2>3
      <3> QED
        BY <1>1, <3>1 DEF Range
    <2> QED
      BY <2>2, <2>3
  <1>4. ASSUME NEW x \in {Head(s)} \cup Range(Tail(s)) PROVE x \in Range(s)
    <2>1. CASE x = Head(s)
      BY <1>1, <1>2, <2>1 DEF Range
    <2>2. CASE x \in Range(Tail(s))
      <3>1. PICK i \in 1 .. Len(s) - 1 : x = Tail(s)[i]
        BY <1>1, <2>2 DEF Range
      <3>2. i + 1 \in 1 .. Len(s) /\ x = s[i + 1]
        BY <1>1, <1>2, <3>1
      <3> QED
        BY <1>1, <3>2 DEF Range
    <2> QED
      BY <2>1, <2>2
  <1> QED
    BY <1>1, <1>3, <1>4

\* Of two elements one is left.
LEMMA TailLeft ==
    ASSUME NEW S, NEW s \in Seq(S), Len(s) > 1
    PROVE  Tail(s) # <<>>
  <1>1. DOMAIN Tail(s) = 1 .. Len(s) - 1 /\ Len(s) \in Nat
    OBVIOUS
  <1>2. 1 \in DOMAIN Tail(s)
    BY <1>1
  <1>3. DOMAIN << >> = {}
    OBVIOUS
  <1> QED
    BY <1>2, <1>3

\* The manifest and what it names are what Record leaves to link.
LEMMA LinksOf ==
    ASSUME NEW m \in Manifest
    PROVE  /\ RefsOf[m] \in Seq(Blob) /\ RefsOf[m] \in Seq(Digest)
           /\ <<m>> \o RefsOf[m] \in Seq(Digest)
           /\ Range(<<m>> \o RefsOf[m]) = {m} \cup Range(RefsOf[m])
  <1> DEFINE s == <<m>> \o RefsOf[m]
  <1>1. RefsOf[m] \in Seq(Blob)
    BY ConstantsAssumption
  <1>2. RefsOf[m] \in Seq(Digest)
    BY <1>1 DEF Digest
  <1>3. <<m>> \in Seq(Digest)
    BY DEF Digest
  <1>4. s \in Seq(Digest) /\ s # <<>> /\ Head(s) = m /\ Tail(s) = RefsOf[m]
    BY <1>2, <1>3
  <1> HIDE DEF s
  <1>5. Range(s) = {m} \cup Range(RefsOf[m])
    BY <1>4, Visits
  <1> QED
    BY <1>1, <1>2, <1>4, <1>5 DEF s

\* What an import stores: what the manifest names, and then the manifest.
LEMMA FetchOf ==
    ASSUME NEW m \in Manifest
    PROVE  /\ RefsOf[m] \o <<m>> \in Seq(Digest)
           /\ {m} \cup Range(RefsOf[m]) \subseteq Range(RefsOf[m] \o <<m>>)
  <1> DEFINE f == RefsOf[m]
             s == f \o <<m>>
  <1>1. f \in Seq(Digest) /\ <<m>> \in Seq(Digest) /\ <<m>>[1] = m
    BY ConstantsAssumption DEF Digest
  <1> HIDE DEF f
  <1>2. /\ s \in Seq(Digest) /\ DOMAIN s = 1 .. Len(f) + 1 /\ Len(f) \in Nat
        /\ s[Len(f) + 1] = m /\ DOMAIN f = 1 .. Len(f)
        /\ \A i \in 1 .. Len(f) : s[i] = f[i]
    BY <1>1
  <1> HIDE DEF s
  <1>3. m \in Range(s)
    BY <1>2 DEF Range
  <1>4. ASSUME NEW d \in Range(f) PROVE d \in Range(s)
    <2>1. PICK i \in 1 .. Len(f) : d = f[i]
      BY <1>2 DEF Range
    <2>2. i \in DOMAIN s /\ d = s[i]
      BY <1>2, <2>1
    <2> QED
      BY <2>2 DEF Range
  <1> QED
    BY <1>2, <1>3, <1>4 DEF f, s

\* Digests and references are what a loop of a request may have to visit.
LEMMA SeqTypes ==
    /\ Seq(Digest) \subseteq Seq(Digest \cup Ref)
    /\ Seq(Ref) \subseteq Seq(Digest \cup Ref)
  OBVIOUS

\* A goroutine without a request.
LEMMA IdleOK == Idle \in Request /\ ReqOK(Idle) /\ Idle.pc = "idle"
  BY DEF Idle, NewReq, Request, PCs, ReqOK

\* A step without a transaction.
LEMMA BecomesMoves ==
    ASSUME req \in [Proc -> Request], NEW h \in Proc, NEW q \in Request, Becomes(h, q)
    PROVE  Moves(h, q)
  BY DEF Becomes, Moves, Same

\* A step with one: the others go on as they were, some of them marked.
LEMMA CommitsMoves ==
    ASSUME req \in [Proc -> Request], NEW h \in Proc, NEW q \in Request, NEW W,
           Commits(h, q, W)
    PROVE  /\ Moves(h, q)
           /\ \A g \in Proc \ {h} :
                 req'[g].conflict <=> (req[g].conflict \/ req[g].keys \cap W # {})
  <1>1. ASSUME NEW g \in Proc \ {h}
        PROVE  /\ req'[g] = [req[g] EXCEPT !.conflict = @ \/ req[g].keys \cap W # {}]
               /\ req'[g] \in Request /\ Same(req'[g], req[g])
               /\ req'[g].conflict <=> (req[g].conflict \/ req[g].keys \cap W # {})
    <2>1. req'[g] = [req[g] EXCEPT !.conflict = @ \/ req[g].keys \cap W # {}]
      BY DEF Commits
    <2>2. PICK b \in BOOLEAN : b <=> (req[g].conflict \/ req[g].keys \cap W # {})
      OBVIOUS
    <2>3. req[g] \in Request /\ req[g].conflict \in BOOLEAN
      BY DEF Request
    <2>4. req'[g] = [req[g] EXCEPT !.conflict = b]
      BY <2>1, <2>2, <2>3
    <2>5. req'[g] \in Request /\ Same(req'[g], req[g]) /\ req'[g].conflict = b
      BY <2>2, <2>3, <2>4 DEF Request, Same
    <2> QED
      BY <2>1, <2>2, <2>5
  <1>2. req'[h] = q /\ req' = [g \in Proc |-> req'[g]]
    BY DEF Commits
  <1> QED
    BY <1>1, <1>2 DEF Moves

\* A step that moves one request keeps what the others carry.
LEMMA MovesKeeps ==
    ASSUME NEW h \in Proc, NEW q, Moves(h, q), ReqOK(q), \A g \in Proc : ReqOK(req[g])
    PROVE  \A g \in Proc : ReqOK(req'[g])
  <1>1. ASSUME NEW g \in Proc \ {h} PROVE ReqOK(req'[g])
    BY DEF Moves, Same, ReqOK
  <1> QED
    BY <1>1 DEF Moves

-----------------------------------------------------------------------------
(* Types: each lemma also tells what becomes of the request *)

DbOK ==
    /\ stored \subseteq Digest
    /\ manifests \subseteq Repo \X Manifest
    /\ tags \in [Repo -> [Tag -> Manifest \cup {None}]]
    /\ repos \subseteq Repo
    /\ br \subseteq Digest \X Repo
    /\ rb \subseteq Repo \X Digest
    /\ dropped \subseteq Digest
    /\ revoked \subseteq Repo \X Manifest
    /\ excused \subseteq Digest \X Repo
    /\ proxied \subseteq Repo \X Manifest
    /\ crashes \in 0 .. MaxCrashes

CacheOK ==
    /\ cache \in [Repo -> [Ref -> Manifest \cup {None}]]
    /\ IsFiniteSet(Entries) /\ Cardinality(Entries) <= Capacity
    /\ late \subseteq Repo \X Tag
    /\ bypassed \subseteq Repo \X Tag

\* The parts of Typed.
LEMMA TypedParts ==
    Typed <=> /\ DbOK /\ CacheOK /\ req \in [Proc -> Request]
              /\ \A h \in Proc : ReqOK(req[h])
  BY DEF Typed, TypeOK, DbOK, CacheOK, Entries

\* A request moves on and the stores keep their types.
LEMMA TypedStep ==
    ASSUME Typed, NEW h \in Proc, NEW q, Moves(h, q), ReqOK(q), DbOK', CacheOK'
    PROVE  Typed'
  <1>1. (\A g \in Proc : ReqOK(req[g]))'
    BY MovesKeeps DEF Typed
  <1>2. (req \in [Proc -> Request])'
    BY DEF Moves
  <1> QED
    BY <1>1, <1>2 DEF Typed, TypeOK, DbOK, CacheOK, Entries

\* The cache is left alone.
LEMMA CacheSame == ASSUME Typed, UNCHANGED cached PROVE CacheOK'
  BY TypedParts DEF CacheOK, Entries, cached

\* Everything but the requests is left alone.
LEMMA AllSame ==
    ASSUME Typed, UNCHANGED <<stored, db, cached, history>>
    PROVE  DbOK' /\ CacheOK'
  BY TypedParts, CacheSame DEF DbOK, db, history

\* A request ends and leaves everything else alone.
LEMMA EndsTyped ==
    ASSUME Typed, NEW h \in Proc, Ends(h), DbOK', CacheOK'
    PROVE  Typed' /\ Moves(h, Idle)
  <1>1. Moves(h, Idle)
    BY IdleOK, BecomesMoves DEF Ends, Typed, TypeOK
  <1> QED
    BY <1>1, IdleOK, TypedStep

\* A request goes on as q.
LEMMA BecomesTyped ==
    ASSUME Typed, NEW h \in Proc, NEW q \in Request, Becomes(h, q), ReqOK(q), DbOK', CacheOK'
    PROVE  Typed' /\ Moves(h, q)
  <1>1. Moves(h, q)
    BY BecomesMoves DEF Typed, TypeOK
  <1> QED
    BY <1>1, TypedStep

\* A PUT of a manifest begins.
LEMMA PutManifestTyped ==
    ASSUME Typed, NEW h \in Proc, PutManifest(h)
    PROVE  /\ Typed' /\ req[h].pc = "idle"
           /\ \E q : /\ Moves(h, q) /\ q.pc = "check" /\ q.dgst \in Manifest
                      /\ q.todo = RefsOf[q.dgst]
  <1>1. PICK r \in Repo, ref \in Ref, m \in Manifest :
           Begin(h, NewReq("check", r, ref, m, RefsOf[m]))
    BY DEF PutManifest
  <1> DEFINE q == NewReq("check", r, ref, m, RefsOf[m])
  <1>2. /\ RefsOf[m] \in Seq(Digest \cup Ref) /\ "check" \in PCs
        /\ m \in Digest \cup {None} /\ ref \in Ref \cup {None}
    BY LinksOf, SeqTypes DEF PCs, Digest
  <1>3. /\ q \in Request /\ q.pc = "check" /\ q.repo = r /\ q.ref = ref /\ q.dgst = m
        /\ q.todo = RefsOf[m]
    BY <1>2 DEF NewReq, Request
  <1>4. ReqOK(q)
    BY <1>3 DEF ReqOK
  <1>5. DbOK' /\ CacheOK'
    BY AllSame DEF PutManifest
  <1> HIDE DEF q
  <1>6. Becomes(h, q) /\ req[h].pc = "idle"
    BY <1>1 DEF Begin, q
  <1>7. Typed' /\ Moves(h, q)
    BY <1>3, <1>4, <1>5, <1>6, BecomesTyped
  <1> QED
    BY <1>3, <1>6, <1>7

\* The next check, or the end of the checks.
LEMMA CheckTyped ==
    ASSUME Typed, NEW h \in Proc, Check(h)
    PROVE  /\ Typed'
           /\ \/ Moves(h, Idle)
              \/ /\ req[h].todo = <<>>
                 /\ Moves(h, [req[h] EXCEPT !.pc = "store"])
              \/ /\ req[h].todo # <<>> /\ Head(req[h].todo) \in stored
                 /\ Moves(h, [req[h] EXCEPT !.todo = Tail(@)])
  <1>1. req[h] \in Request /\ ReqOK(req[h]) /\ req[h].pc = "check" /\ DbOK' /\ CacheOK'
    BY AllSame DEF Check, Typed, TypeOK
  <1>2. CASE req[h].todo = <<>> /\ Goes(h, "store")
    <2> DEFINE q == [req[h] EXCEPT !.pc = "store"]
    <2>1. q \in Request /\ ReqOK(q)
      BY <1>1 DEF Request, PCs, ReqOK
    <2>2. Becomes(h, q)
      BY <1>2 DEF Goes
    <2> HIDE DEF q
    <2>3. Typed' /\ Moves(h, q)
      BY <1>1, <2>1, <2>2, BecomesTyped
    <2> QED
      BY <1>2, <2>3 DEF q
  <1>3. CASE /\ req[h].todo # <<>> /\ Head(req[h].todo) \in stored
             /\ Becomes(h, [req[h] EXCEPT !.todo = Tail(@)])
    <2> DEFINE q == [req[h] EXCEPT !.todo = Tail(@)]
    <2>1. Tail(req[h].todo) \in Seq(Digest \cup Ref)
      BY <1>1, <1>3, Visits DEF Request
    <2>2. q \in Request /\ ReqOK(q)
      BY <1>1, <2>1 DEF Request, ReqOK
    <2> HIDE DEF q
    <2>3. Typed' /\ Moves(h, q)
      BY <1>1, <1>3, <2>2, BecomesTyped DEF q
    <2> QED
      BY <1>3, <2>3 DEF q
  <1>4. CASE Ends(h)
    BY <1>1, <1>4, EndsTyped
  <1> QED
    BY <1>2, <1>3, <1>4 DEF Check

\* The manifest is stored, or the request ends.
LEMMA StoreManifestTyped ==
    ASSUME Typed, NEW h \in Proc, StoreManifest(h)
    PROVE  /\ Typed' /\ req[h].dgst \in Manifest
           /\ Moves(h, Idle) \/ Moves(h, [req[h] EXCEPT !.pc = "record"])
  <1> USE DEF db, cached
  <1>1. /\ req[h] \in Request /\ ReqOK(req[h]) /\ req[h].pc = "store"
        /\ req[h].dgst \in Manifest
    BY DEF StoreManifest, Typed, TypeOK, ReqOK
  <1>2. DbOK' /\ CacheOK'
    BY <1>1, CacheSame, TypedParts DEF StoreManifest, DbOK, Digest
  <1>3. CASE Goes(h, "record")
    <2> DEFINE q == [req[h] EXCEPT !.pc = "record"]
    <2>1. q \in Request /\ ReqOK(q)
      BY <1>1 DEF Request, PCs, ReqOK
    <2>2. Becomes(h, q)
      BY <1>3 DEF Goes
    <2> HIDE DEF q
    <2> QED
      BY <1>1, <1>2, <2>1, <2>2, BecomesTyped DEF q
  <1> QED
    BY <1>1, <1>2, <1>3, EndsTyped DEF StoreManifest

\* What Record writes.
LEMMA RecordTyped ==
    ASSUME Typed, NEW h \in Proc, Record(h)
    PROVE  LET r == req[h].repo
               m == req[h].dgst
               t == req[h].ref
               W == {<<"m", r, m>>} \cup {<<"t", r, u>> : u \in {t} \cap Tag}
           IN  /\ Typed' /\ r \in Repo /\ m \in Manifest /\ t \in Ref
               /\ Moves(h, [req[h] EXCEPT !.pc = "link", !.todo = <<m>> \o RefsOf[m]])
               /\ \A g \in Proc \ {h} :
                     req'[g].conflict <=> (req[g].conflict \/ req[g].keys \cap W # {})
               /\ \A x \in Repo, u \in Tag :
                     tags'[x][u] = IF x = r /\ u = t THEN m ELSE tags[x][u]
  <1> DEFINE r == req[h].repo
             m == req[h].dgst
             t == req[h].ref
             q == [req[h] EXCEPT !.pc = "link", !.todo = <<m>> \o RefsOf[m]]
             W == {<<"m", r, m>>} \cup {<<"t", r, u>> : u \in {t} \cap Tag}
  <1>1. /\ req \in [Proc -> Request] /\ req[h] \in Request /\ ReqOK(req[h])
        /\ r \in Repo /\ m \in Manifest /\ t \in Ref
    BY DEF Record, Typed, TypeOK, ReqOK
  <1>2. <<m>> \o RefsOf[m] \in Seq(Digest) /\ <<m>> \o RefsOf[m] \in Seq(Digest \cup Ref)
    BY <1>1, LinksOf, SeqTypes
  <1>3. q \in Request /\ ReqOK(q)
    <2>1. q \in Request /\ q.pc = "link" /\ q.repo = r /\ q.ref = t /\ q.dgst = m
          /\ q.todo = <<m>> \o RefsOf[m]
      BY <1>1, <1>2 DEF Request, PCs
    <2> QED
      BY <1>1, <1>2, <2>1 DEF ReqOK
  <1>4. Commits(h, q, W)
    BY DEF Record
  <1>5. /\ manifests' = manifests \cup {<<r, m>>} /\ repos' = repos \cup {r}
        /\ revoked' = revoked \ {<<r, m>>}
        /\ proxied' = proxied \ {<<r, m>>}
        /\ UNCHANGED <<stored, br, rb, dropped, excused, crashes>> /\ UNCHANGED cached
    BY DEF Record, cached
  <1>6. /\ tags' \in [Repo -> [Tag -> Manifest \cup {None}]]
        /\ \A x \in Repo, u \in Tag :
              tags'[x][u] = IF x = r /\ u = t THEN m ELSE tags[x][u]
    <2>1. tags \in [Repo -> [Tag -> Manifest \cup {None}]]
      BY DEF Typed, TypeOK
    <2>2. tags' = IF t \in Tag THEN [tags EXCEPT ![r][t] = m] ELSE tags
      BY DEF Record
    <2> HIDE DEF r, m, t
    <2> QED
      BY <1>1, <2>1, <2>2
  <1>7. DbOK' /\ CacheOK'
    BY <1>1, <1>5, <1>6, CacheSame, TypedParts DEF DbOK
  <1> HIDE DEF q, W, r, m, t
  <1>8. /\ Moves(h, q)
        /\ \A g \in Proc \ {h} :
              req'[g].conflict <=> (req[g].conflict \/ req[g].keys \cap W # {})
    BY <1>1, <1>3, <1>4, CommitsMoves
  <1>9. Typed'
    BY <1>3, <1>7, <1>8, TypedStep
  <1> QED
    BY <1>1, <1>6, <1>8, <1>9 DEF q, W, r, m, t

\* A link is made.
LEMMA LinkTyped ==
    ASSUME Typed, NEW h \in Proc, Link(h)
    PROVE  /\ Typed' /\ req[h].todo \in Seq(Digest)
           /\ Moves(h, [req[h] EXCEPT !.todo = Tail(@)])
  <1> DEFINE r == req[h].repo
             d == Head(req[h].todo)
             q == [req[h] EXCEPT !.todo = Tail(@)]
  <1>1. /\ req \in [Proc -> Request] /\ req[h] \in Request /\ ReqOK(req[h])
        /\ r \in Repo /\ req[h].todo \in Seq(Digest) /\ req[h].todo # <<>>
        /\ req[h].pc = "link"
    BY DEF Link, Typed, TypeOK, ReqOK
  <1>2. d \in Digest /\ Tail(req[h].todo) \in Seq(Digest)
        /\ Tail(req[h].todo) \in Seq(Digest \cup Ref)
    BY <1>1, Visits, SeqTypes
  <1>3. q \in Request /\ ReqOK(q)
    BY <1>1, <1>2 DEF Request, ReqOK
  <1>4. DbOK' /\ CacheOK'
    BY <1>1, <1>2, CacheSame, TypedParts DEF Link, DbOK
  <1> HIDE DEF q
  <1>5. Moves(h, q)
    BY <1>1, <1>3, CommitsMoves DEF Link, q
  <1> QED
    BY <1>1, <1>3, <1>4, <1>5, TypedStep DEF q

\* All is linked.
LEMMA LinkedTyped ==
    ASSUME Typed, NEW h \in Proc, Linked(h)
    PROVE  /\ Typed'
           /\ \/ req[h].ref = None /\ Moves(h, Idle)
              \/ /\ req[h].ref \in Ref
                 /\ Moves(h, [req[h] EXCEPT !.pc = "forget",
                                            !.todo = <<req[h].ref, req[h].dgst>>])
  <1> DEFINE todo == <<req[h].ref, req[h].dgst>>
             q == [req[h] EXCEPT !.pc = "forget", !.todo = todo]
  <1>1. req[h] \in Request /\ ReqOK(req[h]) /\ req[h].pc = "link" /\ DbOK' /\ CacheOK'
    BY AllSame DEF Linked, Typed, TypeOK
  <1>2. CASE req[h].ref # None
    <2>1. req[h].ref \in Ref /\ req[h].dgst \in Manifest /\ req[h].repo \in Repo
      BY <1>1, <1>2 DEF ReqOK, Request
    <2>2. todo \in Seq(Ref) /\ todo # <<>> /\ todo \in Seq(Digest \cup Ref)
      BY <2>1, SeqTypes DEF Ref
    <2> HIDE DEF todo
    <2>3. q \in Request /\ q.pc = "forget" /\ q.repo = req[h].repo /\ q.todo = todo
      BY <1>1, <2>2 DEF Request, PCs
    <2> HIDE DEF q
    <2>4. ReqOK(q)
      BY <2>1, <2>2, <2>3 DEF ReqOK
    <2>5. Becomes(h, q)
      BY <1>2 DEF Linked, q, todo
    <2> QED
      BY <1>1, <2>1, <2>3, <2>4, <2>5, BecomesTyped DEF q, todo
  <1>3. CASE req[h].ref = None
    BY <1>1, <1>3, EndsTyped DEF Linked
  <1> QED
    BY <1>2, <1>3

\* An entry of the cache is forgotten.
LEMMA ForgetTyped ==
    ASSUME Typed, NEW h \in Proc, Forget(h)
    PROVE  /\ Typed' /\ req[h].repo \in Repo /\ Head(req[h].todo) \in Ref
           /\ \A x \in Repo, u \in Ref :
                 cache'[x][u] = IF x = req[h].repo /\ u = Head(req[h].todo) THEN None
                                ELSE cache[x][u]
           /\ Moves(h, Idle) \/ Moves(h, [req[h] EXCEPT !.todo = Tail(@)])
  <1> DEFINE r == req[h].repo
             ref == Head(req[h].todo)
             q == [req[h] EXCEPT !.todo = Tail(@)]
  <1>1. /\ req[h] \in Request /\ ReqOK(req[h]) /\ req[h].pc = "forget" /\ r \in Repo
        /\ req[h].todo \in Seq(Ref) /\ req[h].todo # <<>>
    BY DEF Forget, Typed, TypeOK, ReqOK
  <1>2. ref \in Ref /\ Tail(req[h].todo) \in Seq(Ref)
        /\ Tail(req[h].todo) \in Seq(Digest \cup Ref)
    BY <1>1, Visits, SeqTypes
  <1>3. DbOK'
    BY TypedParts DEF Forget, DbOK, db, history
  <1>4. /\ cache' \in [Repo -> [Ref -> Manifest \cup {None}]]
        /\ \A x \in Repo, u \in Ref :
              cache'[x][u] = IF x = r /\ u = ref THEN None ELSE cache[x][u]
    <2>1. cache' = [cache EXCEPT ![r][ref] = None]
      BY DEF Forget
    <2>2. cache \in [Repo -> [Ref -> Manifest \cup {None}]]
      BY DEF Typed, TypeOK
    <2> HIDE DEF r, ref
    <2> QED
      BY <1>1, <1>2, <2>1, <2>2
  <1>5. Entries' \in SUBSET Entries
    BY <1>4 DEF Entries
  <1>6. CacheOK'
    <2>1. /\ IsFiniteSet(Entries) /\ Cardinality(Entries) <= Capacity
          /\ late \subseteq Repo \X Tag /\ bypassed \subseteq Repo \X Tag
      BY TypedParts DEF CacheOK
    <2>2. IsFiniteSet(Entries') /\ Cardinality(Entries') <= Cardinality(Entries)
      BY <1>5, <2>1, FS_Subset
    <2>3. {Cardinality(Entries), Cardinality(Entries'), Capacity} \subseteq Nat
      BY <2>1, <2>2, FS_CardinalityType, ConstantsAssumption
    <2>4. Cardinality(Entries') <= Capacity
      BY <2>1, <2>2, <2>3
    <2>5. late' \subseteq Repo \X Tag /\ bypassed' \subseteq Repo \X Tag
      BY <2>1 DEF Forget
    <2> QED
      BY <1>4, <2>2, <2>4, <2>5 DEF CacheOK
  <1>7. CASE Ends(h)
    BY <1>1, <1>2, <1>3, <1>4, <1>6, <1>7, EndsTyped
  <1>8. CASE Len(req[h].todo) > 1 /\ Becomes(h, q)
    <2>1. Tail(req[h].todo) # <<>>
      BY <1>1, <1>8, TailLeft
    <2>2. q \in Request /\ ReqOK(q)
      BY <1>1, <1>2, <2>1 DEF Request, ReqOK
    <2> HIDE DEF q
    <2> QED
      BY <1>1, <1>2, <1>3, <1>4, <1>6, <1>8, <2>2, BecomesTyped DEF q
  <1> QED
    BY <1>7, <1>8 DEF Forget

\* A GET begins, and reads the metadata.
LEMMA GetManifestTyped ==
    ASSUME Typed, NEW h \in Proc, GetManifest(h)
    PROVE  /\ Typed' /\ req[h].pc = "idle"
           /\ \E q : Moves(h, q) /\ q.pc = "read"
  <1>1. PICK r \in Repo, ref \in Ref : Begin(h, NewReq("read", r, ref, None, <<>>))
    BY DEF GetManifest
  <1> DEFINE q == NewReq("read", r, ref, None, <<>>)
  <1>2. q \in Request /\ q.pc = "read" /\ q.repo = r /\ q.ref = ref
    BY DEF NewReq, Request, PCs
  <1>3. DbOK' /\ CacheOK'
    BY AllSame DEF GetManifest
  <1> HIDE DEF q
  <1>4. ReqOK(q)
    BY <1>2 DEF ReqOK
  <1> QED
    BY <1>1, <1>2, <1>3, <1>4, BecomesTyped DEF Begin, q

\* The answer of the metadata store.
LEMMA ReadMetaTyped ==
    ASSUME Typed, NEW h \in Proc, ReadMeta(h)
    PROVE  /\ Typed'
           /\ \/ Moves(h, Idle)
              \/ Moves(h, [req[h] EXCEPT !.pc = "fill",
                                         !.dgst = Resolve(req[h].repo, req[h].ref)])
  <1> DEFINE d == Resolve(req[h].repo, req[h].ref)
             q == [req[h] EXCEPT !.pc = "fill", !.dgst = d]
  <1>1. /\ req[h] \in Request /\ ReqOK(req[h]) /\ req[h].pc = "read" /\ DbOK' /\ CacheOK'
        /\ req[h].repo \in Repo /\ req[h].ref \in Ref
    BY AllSame DEF ReadMeta, Typed, TypeOK, ReqOK
  <1>2. CASE d # None
    <2>1. d \in Manifest
      BY <1>2 DEF Resolve, Typed, TypeOK
    <2> HIDE DEF d
    <2>2. q \in Request /\ q.pc = "fill" /\ q.repo = req[h].repo /\ q.ref = req[h].ref
          /\ q.dgst = d
      BY <1>1, <2>1 DEF Request, PCs, Digest
    <2> HIDE DEF q
    <2>3. ReqOK(q)
      BY <1>1, <2>1, <2>2 DEF ReqOK
    <2>4. Becomes(h, q)
      BY <1>2 DEF ReadMeta, q, d
    <2> QED
      BY <1>1, <2>2, <2>3, <2>4, BecomesTyped DEF q, d
  <1>3. CASE d = None
    BY <1>1, <1>3, EndsTyped DEF ReadMeta
  <1> QED
    BY <1>2, <1>3

\* An entry is set, and another one evicted if there is no room.
LEMMA FillTyped ==
    ASSUME Typed, NEW h \in Proc, Fill(h)
    PROVE  /\ Typed' /\ Moves(h, Idle) /\ req[h].dgst \in Manifest
           /\ \A x \in Repo, u \in Ref :
                 \/ cache'[x][u] = None
                 \/ cache'[x][u] = IF x = req[h].repo /\ u = req[h].ref THEN req[h].dgst
                                   ELSE cache[x][u]
  <1> DEFINE r == req[h].repo
             ref == req[h].ref
             m == req[h].dgst
             kept == Entries \cup {<<r, ref>>}
             filled == [cache EXCEPT ![r][ref] = m]
  <1>1. /\ req[h].pc = "fill" /\ r \in Repo /\ ref \in Ref /\ m \in Manifest
        /\ cache \in [Repo -> [Ref -> Manifest \cup {None}]]
        /\ IsFiniteSet(Entries) /\ Cardinality(Entries) <= Capacity
        /\ late \subseteq Repo \X Tag /\ bypassed \subseteq Repo \X Tag
    BY DEF Fill, Typed, TypeOK, ReqOK, Entries
  <1>2. DbOK'
    BY TypedParts DEF Fill, DbOK, db, history
  <1>3. \/ Cardinality(kept) <= Capacity /\ cache' = filled
        \/ /\ Cardinality(kept) > Capacity
           /\ \E k \in kept \ {<<r, ref>>} : cache' = [filled EXCEPT ![k[1]][k[2]] = None]
    BY DEF Fill, Entries
  <1>4. late' \subseteq Repo \X Tag /\ bypassed' \subseteq Repo \X Tag
    BY <1>1 DEF Fill
  <1> HIDE DEF r, ref, m
  <1>5. /\ filled \in [Repo -> [Ref -> Manifest \cup {None}]]
        /\ \A x \in Repo, u \in Ref :
              filled[x][u] = IF x = r /\ u = ref THEN m ELSE cache[x][u]
    BY <1>1
  <1>6. IsFiniteSet(kept) /\ Cardinality(kept) \in Nat
        /\ Cardinality(kept) <= Cardinality(Entries) + 1 /\ Cardinality(Entries) \in Nat
    <2>1. /\ IsFiniteSet(kept)
          /\ Cardinality(kept) = IF <<r, ref>> \in Entries THEN Cardinality(Entries)
                                                         ELSE Cardinality(Entries) + 1
      BY <1>1, FS_AddElement
    <2>2. Cardinality(Entries) \in Nat
      BY <1>1, FS_CardinalityType
    <2> QED
      BY <2>1, <2>2
  <1>7. CASE Cardinality(kept) <= Capacity /\ cache' = filled
    <2>1. Entries' \in SUBSET kept
      BY <1>5, <1>7 DEF Entries
    <2>2. IsFiniteSet(Entries') /\ Cardinality(Entries') <= Cardinality(kept)
      BY <1>6, <2>1, FS_Subset
    <2>3. Cardinality(Entries') \in Nat
      BY <2>2, FS_CardinalityType
    <2>4. Cardinality(Entries') <= Capacity
      BY <1>6, <1>7, <2>2, <2>3, ConstantsAssumption
    <2>5. CacheOK'
      BY <1>4, <1>5, <1>7, <2>2, <2>4 DEF CacheOK
    <2> QED
      BY <1>1, <1>2, <1>5, <1>7, <2>5, EndsTyped DEF Fill, r, ref, m
  <1>8. ASSUME NEW k \in kept \ {<<r, ref>>}, cache' = [filled EXCEPT ![k[1]][k[2]] = None]
        PROVE  /\ CacheOK'
               /\ \A x \in Repo, u \in Ref : cache'[x][u] \in {None, filled[x][u]}
    <2>1. PICK x0 \in Repo, u0 \in Ref : k = <<x0, u0>>
      BY DEF Entries
    <2>2. cache' = [filled EXCEPT ![x0][u0] = None]
      BY <1>8, <2>1
    <2> HIDE DEF filled
    <2>3. /\ cache' \in [Repo -> [Ref -> Manifest \cup {None}]]
          /\ \A x \in Repo, u \in Ref :
                cache'[x][u] = IF x = x0 /\ u = u0 THEN None ELSE filled[x][u]
      BY <1>5, <2>2
    <2>4. Entries' \in SUBSET (kept \ {k})
      BY <1>5, <2>1, <2>3 DEF Entries
    <2>5. /\ IsFiniteSet(kept \ {k})
          /\ Cardinality(kept \ {k}) = Cardinality(kept) - 1
      BY <1>6, FS_RemoveElement
    <2>6. /\ IsFiniteSet(Entries')
          /\ Cardinality(Entries') <= Cardinality(kept \ {k})
      BY <2>4, <2>5, FS_Subset
    <2>7. Cardinality(Entries') \in Nat
      BY <2>6, FS_CardinalityType
    <2>8. Cardinality(Entries') <= Capacity
      BY <1>1, <1>6, <2>5, <2>6, <2>7, ConstantsAssumption
    <2> QED
      BY <1>4, <2>3, <2>6, <2>8 DEF CacheOK
  <1>9. CASE \E k \in kept \ {<<r, ref>>} : cache' = [filled EXCEPT ![k[1]][k[2]] = None]
    <2>1. /\ CacheOK'
          /\ \A x \in Repo, u \in Ref : cache'[x][u] \in {None, filled[x][u]}
      BY <1>8, <1>9
    <2> QED
      BY <1>1, <1>2, <1>5, <2>1, EndsTyped DEF Fill, r, ref, m
  <1> QED
    BY <1>3, <1>7, <1>9

\* A manifest is deleted, and its tag with it.
LEMMA DeleteManifestTyped ==
    ASSUME Typed, NEW h \in Proc, DeleteManifest(h)
    PROVE  /\ Typed' /\ req[h].pc = "idle"
           /\ \E r \in Repo, ref \in Ref, d \in Manifest, q \in Request :
                 /\ d = IF ref \in Tag THEN tags[r][ref] ELSE ref
                 /\ Moves(h, q) /\ q.pc = "forget"
                 /\ manifests' = manifests \ {<<r, d>>}
                 /\ revoked' = revoked \cup {<<r, d>>}
                 /\ \A x \in Repo, u \in Tag :
                       tags'[x][u] = IF x = r /\ u = ref THEN None ELSE tags[x][u]
                 /\ \A g \in Proc \ {h} :
                       req'[g].conflict <=>
                           \/ req[g].conflict
                           \/ req[g].keys \cap ({<<"m", r, d>>} \cup
                                {<<"t", r, t>> : t \in {ref} \cap Tag}) # {}
  <1>1. PICK r \in Repo, ref \in Ref :
           LET d == IF ref \in Tag THEN tags[r][ref] ELSE ref IN
           /\ req[h].pc = "idle"
           /\ d # None
           /\ manifests' = manifests \ {<<r, d>>}
           /\ tags' = IF ref \in Tag THEN [tags EXCEPT ![r][ref] = None] ELSE tags
           /\ revoked' = revoked \cup {<<r, d>>}
           /\ Commits(h, NewReq("forget", r, ref, None, <<ref>>),
                      {<<"m", r, d>>} \cup {<<"t", r, t>> : t \in {ref} \cap Tag})
           /\ UNCHANGED <<stored, repos, br, rb, cached, dropped, excused, proxied,
                          crashes>>
    BY DEF DeleteManifest
  <1> DEFINE d == IF ref \in Tag THEN tags[r][ref] ELSE ref
             q == NewReq("forget", r, ref, None, <<ref>>)
             W == {<<"m", r, d>>} \cup {<<"t", r, t>> : t \in {ref} \cap Tag}
  <1>2. d \in Manifest
    BY <1>1 DEF Typed, TypeOK, Ref
  <1>3. /\ req[h].pc = "idle"
        /\ manifests' = manifests \ {<<r, d>>}
        /\ tags' = IF ref \in Tag THEN [tags EXCEPT ![r][ref] = None] ELSE tags
        /\ revoked' = revoked \cup {<<r, d>>}
        /\ Commits(h, q, W)
        /\ UNCHANGED <<stored, repos, br, rb, dropped, excused, proxied, crashes>>
        /\ UNCHANGED cached
    BY <1>1 DEF cached
  <1> HIDE DEF W
  <1>4. <<ref>> \in Seq(Ref) /\ <<ref>> # <<>> /\ <<ref>> \in Seq(Digest \cup Ref)
    BY SeqTypes
  <1>5. q \in Request /\ q.pc = "forget" /\ q.repo = r /\ q.todo = <<ref>>
    BY <1>4 DEF NewReq, Request, PCs
  <1> HIDE DEF q
  <1>6. ReqOK(q)
    BY <1>4, <1>5 DEF ReqOK
  <1>7. req \in [Proc -> Request] /\ tags \in [Repo -> [Tag -> Manifest \cup {None}]]
    BY DEF Typed, TypeOK
  <1>8. /\ Moves(h, q)
        /\ \A g \in Proc \ {h} :
              req'[g].conflict <=> (req[g].conflict \/ req[g].keys \cap W # {})
    BY <1>3, <1>5, <1>7, CommitsMoves
  <1>9. /\ tags' \in [Repo -> [Tag -> Manifest \cup {None}]]
        /\ \A x \in Repo, u \in Tag :
              tags'[x][u] = IF x = r /\ u = ref THEN None ELSE tags[x][u]
    BY <1>3, <1>7
  <1>10. DbOK' /\ CacheOK'
    <2> HIDE DEF d
    <2> QED
      BY <1>2, <1>3, <1>9, CacheSame, TypedParts DEF DbOK
  <1>11. Typed'
    BY <1>6, <1>8, <1>10, TypedStep
  <1> QED
    BY <1>2, <1>3, <1>5, <1>8, <1>9, <1>11 DEF W

\* An upload ends: the blob is stored and is to be linked.
LEMMA UploadBlobTyped ==
    ASSUME Typed, NEW h \in Proc, UploadBlob(h)
    PROVE  /\ Typed' /\ req[h].pc = "idle"
           /\ stored \cup dropped \subseteq stored' \cup dropped'
           /\ \E q : Moves(h, q) /\ q.pc = "link" /\ q.ref = None
  <1>1. PICK r \in Repo, b \in Blob :
           /\ Begin(h, NewReq("link", r, None, b, <<b>>))
           /\ stored' = stored \cup {b}
           /\ dropped' = dropped \ {b}
           /\ UNCHANGED <<db, cached, revoked, excused, proxied, crashes>>
    BY DEF UploadBlob
  <1> DEFINE q == NewReq("link", r, None, b, <<b>>)
  <1>2. b \in Digest /\ <<b>> \in Seq(Digest) /\ <<b>> \in Seq(Digest \cup Ref)
    BY SeqTypes DEF Digest
  <1>3. q \in Request /\ q.pc = "link" /\ q.repo = r /\ q.ref = None /\ q.todo = <<b>>
    BY <1>2 DEF NewReq, Request, PCs
  <1>4. Becomes(h, q) /\ req[h].pc = "idle"
    BY <1>1 DEF Begin
  <1> HIDE DEF q
  <1>5. ReqOK(q)
    BY <1>2, <1>3 DEF ReqOK
  <1>6. DbOK' /\ CacheOK'
    BY <1>1, <1>2, CacheSame, TypedParts DEF DbOK, db, cached
  <1>7. Typed' /\ Moves(h, q)
    BY <1>3, <1>4, <1>5, <1>6, BecomesTyped
  <1> QED
    BY <1>1, <1>3, <1>4, <1>7

\* A mount begins.
LEMMA MountBlobTyped ==
    ASSUME Typed, NEW h \in Proc, MountBlob(h)
    PROVE  /\ Typed' /\ req[h].pc = "idle"
           /\ \E q : Moves(h, q) /\ q.pc = "mount"
  <1>1. PICK r \in Repo, b \in Blob : Begin(h, NewReq("mount", r, None, b, <<b>>))
    BY DEF MountBlob
  <1> DEFINE q == NewReq("mount", r, None, b, <<b>>)
  <1>2. b \in Digest /\ <<b>> \in Seq(Digest) /\ <<b>> \in Seq(Digest \cup Ref)
    BY SeqTypes DEF Digest
  <1>3. q \in Request /\ q.pc = "mount" /\ q.repo = r /\ q.ref = None /\ q.todo = <<b>>
        /\ q.dgst = b
    BY <1>2 DEF NewReq, Request, PCs
  <1>4. Becomes(h, q) /\ req[h].pc = "idle"
    BY <1>1 DEF Begin
  <1> HIDE DEF q
  <1>5. ReqOK(q)
    BY <1>2, <1>3 DEF ReqOK
  <1>6. DbOK' /\ CacheOK'
    BY AllSame DEF MountBlob
  <1> QED
    BY <1>3, <1>4, <1>5, <1>6, BecomesTyped

\* The blob is there to be linked, or the client must upload it.
LEMMA MountExistsTyped ==
    ASSUME Typed, NEW h \in Proc, MountExists(h)
    PROVE  /\ Typed' /\ req[h].ref = None
           /\ Moves(h, Idle) \/ Moves(h, [req[h] EXCEPT !.pc = "link"])
  <1> DEFINE q == [req[h] EXCEPT !.pc = "link"]
  <1>1. /\ req[h] \in Request /\ ReqOK(req[h]) /\ req[h].pc = "mount" /\ DbOK' /\ CacheOK'
        /\ req[h].ref = None
    BY AllSame DEF MountExists, Typed, TypeOK, ReqOK
  <1>2. CASE Goes(h, "link")
    <2>1. q \in Request /\ ReqOK(q)
      BY <1>1 DEF Request, PCs, ReqOK
    <2>2. Becomes(h, q)
      BY <1>2 DEF Goes
    <2> HIDE DEF q
    <2> QED
      BY <1>1, <2>1, <2>2, BecomesTyped DEF q
  <1> QED
    BY <1>1, <1>2, EndsTyped DEF MountExists

\* A blob is unlinked from a repository.
LEMMA DeleteBlobTyped ==
    ASSUME Typed, NEW h \in Proc, DeleteBlob(h)
    PROVE  /\ Typed' /\ req[h].pc = "idle" /\ br \cup excused \subseteq br' \cup excused'
           /\ UNCHANGED <<stored, dropped, manifests, tags, revoked, proxied, cached>>
           /\ \E q : Moves(h, q) /\ q.pc = "count"
  <1>1. PICK r \in Repo, d \in Digest :
           /\ req[h].pc = "idle"
           /\ br' = br \ {<<d, r>>}
           /\ rb' = rb \ {<<r, d>>}
           /\ excused' = excused \cup ({<<d, r>>} \cap br)
           /\ Commits(h, NewReq("count", r, None, d, <<>>), {<<"rb", r, d>>})
           /\ UNCHANGED <<stored, manifests, tags, repos, cached, dropped, revoked,
                          proxied, crashes>>
    BY DEF DeleteBlob
  <1> DEFINE q == NewReq("count", r, None, d, <<>>)
  <1>2. q \in Request /\ q.pc = "count" /\ q.repo = r /\ q.ref = None /\ q.dgst = d
    BY DEF NewReq, Request, PCs
  <1>3. Commits(h, q, {<<"rb", r, d>>}) /\ UNCHANGED cached
    BY <1>1 DEF cached
  <1> HIDE DEF q
  <1>4. ReqOK(q)
    BY <1>2 DEF ReqOK
  <1>5. DbOK' /\ CacheOK'
    BY <1>1, <1>3, CacheSame, TypedParts DEF DbOK
  <1>6. Moves(h, q)
    BY <1>2, <1>3, CommitsMoves DEF Typed, TypeOK
  <1> QED
    BY <1>1, <1>2, <1>3, <1>4, <1>5, <1>6, TypedStep

\* The repositories that link the blob are counted.
LEMMA CountTyped ==
    ASSUME Typed, NEW h \in Proc, Count(h)
    PROVE  /\ Typed'
           /\ Moves(h, Idle) \/ Moves(h, [req[h] EXCEPT !.pc = "delete"])
  <1> DEFINE q == [req[h] EXCEPT !.pc = "delete"]
  <1>1. req[h] \in Request /\ ReqOK(req[h]) /\ req[h].pc = "count" /\ DbOK' /\ CacheOK'
    BY AllSame DEF Count, Typed, TypeOK
  <1>2. CASE Goes(h, "delete")
    <2>1. q \in Request /\ ReqOK(q)
      BY <1>1 DEF Request, PCs, ReqOK
    <2>2. Becomes(h, q)
      BY <1>2 DEF Goes
    <2> HIDE DEF q
    <2> QED
      BY <1>1, <2>1, <2>2, BecomesTyped DEF q
  <1> QED
    BY <1>1, <1>2, EndsTyped DEF Count

\* The blob is deleted.
LEMMA DropTyped ==
    ASSUME Typed, NEW h \in Proc, Drop(h)
    PROVE  /\ Typed' /\ Moves(h, Idle) /\ stored \cup dropped \subseteq stored' \cup dropped'
  <1>1. req[h].dgst \in Digest
    BY DEF Drop, Typed, TypeOK, ReqOK
  <1>2. DbOK' /\ CacheOK'
    BY <1>1, CacheSame, TypedParts DEF Drop, DbOK, db, cached
  <1> QED
    BY <1>2, EndsTyped DEF Drop

\* The keys of a repository are read.
LEMMA DeleteRepositoryTyped ==
    ASSUME Typed, NEW h \in Proc, DeleteRepository(h)
    PROVE  /\ Typed' /\ req[h].pc = "idle"
           /\ \E q : /\ Moves(h, q) /\ q.pc = "purge" /\ q.repo \in Repo
                      /\ \A t \in Tag : tags[q.repo][t] # None => <<"t", q.repo, t>> \in q.keys
  <1>1. PICK r \in Repo :
          LET read == {<<"m", r, m>> : m \in {m \in Manifest : <<r, m>> \in manifests}}
                 \cup {<<"t", r, t>> : t \in {t \in Tag : tags[r][t] # None}}
                 \cup {<<"rb", r, d>> : d \in {d \in Digest : <<r, d>> \in rb}}
          IN  Begin(h, [NewReq("purge", r, None, None, <<>>) EXCEPT !.keys = read])
    BY DEF DeleteRepository
  <1> DEFINE read == {<<"m", r, m>> : m \in {m \in Manifest : <<r, m>> \in manifests}}
                 \cup {<<"t", r, t>> : t \in {t \in Tag : tags[r][t] # None}}
                 \cup {<<"rb", r, d>> : d \in {d \in Digest : <<r, d>> \in rb}}
             new == NewReq("purge", r, None, None, <<>>)
             q == [new EXCEPT !.keys = read]
  <1>2. read \in SUBSET DbKey /\ \A k \in read : k[2] = r
    <2>1. ASSUME NEW k \in read PROVE k \in DbKey /\ k[2] = r
      <3>1. CASE k \in {<<"m", r, m>> : m \in {m \in Manifest : <<r, m>> \in manifests}}
        <4>1. PICK m \in Manifest : k = <<"m", r, m>>
          BY <3>1
        <4> QED
          BY <4>1 DEF DbKey
      <3>2. CASE k \in {<<"t", r, t>> : t \in {t \in Tag : tags[r][t] # None}}
        BY <3>2 DEF DbKey
      <3>3. CASE k \in {<<"rb", r, d>> : d \in {d \in Digest : <<r, d>> \in rb}}
        <4>1. PICK d \in Digest : k = <<"rb", r, d>>
          BY <3>3
        <4> QED
          BY <4>1 DEF DbKey
      <3> QED
        BY <3>1, <3>2, <3>3
    <2> QED
      BY <2>1
  <1>3. \A t \in Tag : tags[r][t] # None => <<"t", r, t>> \in read
    OBVIOUS
  <1>4. Becomes(h, q) /\ req[h].pc = "idle"
    BY <1>1 DEF Begin
  <1> HIDE DEF read
  <1>5. q \in Request /\ q.pc = "purge" /\ q.repo = r /\ q.keys = read
    <2>1. new \in Request /\ new.pc = "purge" /\ new.repo = r
      BY DEF NewReq, Request, PCs
    <2> HIDE DEF new
    <2> QED
      BY <1>2, <2>1 DEF Request
  <1> HIDE DEF q
  <1>6. ReqOK(q)
    BY <1>2, <1>5 DEF ReqOK
  <1>7. DbOK' /\ CacheOK'
    BY AllSame DEF DeleteRepository
  <1>8. Typed' /\ Moves(h, q)
    BY <1>4, <1>5, <1>6, <1>7, BecomesTyped
  <1> QED
    BY <1>3, <1>4, <1>5, <1>8

\* They are deleted.
LEMMA PurgeTyped ==
    ASSUME Typed, NEW h \in Proc, Purge(h)
    PROVE  /\ Typed' /\ Moves(h, Idle) /\ req[h].repo \in Repo
           /\ \A g \in Proc \ {h} :
                 req'[g].conflict <=> (req[g].conflict \/ req[g].keys \cap req[h].keys # {})
           /\ \A x \in Repo, u \in Tag :
                 tags'[x][u] = IF x = req[h].repo /\ <<"t", x, u>> \in req[h].keys THEN None
                               ELSE tags[x][u]
  <1> DEFINE r == req[h].repo
             keys == req[h].keys
  <1>1. /\ r \in Repo /\ req \in [Proc -> Request]
        /\ tags \in [Repo -> [Tag -> Manifest \cup {None}]]
    BY DEF Purge, Typed, TypeOK, ReqOK
  <1>2. tags' = [tags EXCEPT ![r] =
                   [t \in Tag |-> IF <<"t", r, t>> \in keys THEN None ELSE tags[r][t]]]
    BY DEF Purge
  <1>3. /\ tags' \in [Repo -> [Tag -> Manifest \cup {None}]]
        /\ \A x \in Repo, u \in Tag :
              tags'[x][u] = IF x = r /\ <<"t", x, u>> \in keys THEN None ELSE tags[x][u]
    <2> HIDE DEF r, keys
    <2> QED
      BY <1>1, <1>2
  <1>4. DbOK' /\ CacheOK'
    BY <1>3, CacheSame, TypedParts DEF Purge, DbOK, history
  <1>5. /\ Moves(h, Idle)
        /\ \A g \in Proc \ {h} :
              req'[g].conflict <=> (req[g].conflict \/ req[g].keys \cap keys # {})
    BY <1>1, IdleOK, CommitsMoves DEF Purge
  <1> QED
    BY <1>1, <1>3, <1>4, <1>5, IdleOK, TypedStep

\* A transaction fails.
LEMMA ConflictsTyped ==
    ASSUME Typed, NEW h \in Proc, RecordConflicts(h) \/ PurgeConflicts(h)
    PROVE  Typed' /\ Moves(h, Idle) /\ UNCHANGED <<stored, db, cached, history>>
  <1>1. Ends(h) /\ UNCHANGED <<stored, db, cached, history>>
    BY DEF RecordConflicts, PurgeConflicts
  <1> QED
    BY <1>1, AllSame, EndsTyped

\* An import begins, with all that is to be stored or with the manifest alone.
LEMMA ImportManifestTyped ==
    ASSUME Typed, NEW h \in Proc, ImportManifest(h) \/ ProxyManifest(h)
    PROVE  /\ Typed' /\ req[h].pc = "idle"
           /\ \E q : /\ Moves(h, q) /\ q.pc \in {"fetch", "proxy"}
                     /\ q.pc = "fetch" =>
                           {q.dgst} \cup Range(RefsOf[q.dgst]) \subseteq Range(q.todo)
  <1>1. PICK r \in Repo, ref \in Ref, m \in Manifest :
           \/ Begin(h, NewReq("fetch", r, ref, m, RefsOf[m] \o <<m>>))
           \/ Begin(h, NewReq("proxy", r, ref, m, <<m>>))
    BY DEF ImportManifest, ProxyManifest
  <1>2. DbOK' /\ CacheOK'
    BY AllSame DEF ImportManifest, ProxyManifest
  <1>3. m \in Digest
    BY DEF Digest
  <1>4. CASE Begin(h, NewReq("fetch", r, ref, m, RefsOf[m] \o <<m>>))
    <2> DEFINE s == RefsOf[m] \o <<m>>
               q == NewReq("fetch", r, ref, m, s)
    <2>1. s \in Seq(Digest) /\ s \in Seq(Digest \cup Ref)
          /\ {m} \cup Range(RefsOf[m]) \subseteq Range(s)
      BY FetchOf, SeqTypes
    <2>2. Becomes(h, q) /\ req[h].pc = "idle"
      BY <1>4 DEF Begin
    <2> HIDE DEF s
    <2>3. q \in Request /\ q.pc = "fetch" /\ q.repo = r /\ q.ref = ref /\ q.dgst = m
          /\ q.todo = s
      BY <1>3, <2>1 DEF NewReq, Request, PCs
    <2> HIDE DEF q
    <2>4. ReqOK(q)
      BY <2>1, <2>3 DEF ReqOK
    <2>5. Typed' /\ Moves(h, q)
      BY <1>2, <2>2, <2>3, <2>4, BecomesTyped
    <2> QED
      BY <2>1, <2>2, <2>3, <2>5
  <1>5. CASE Begin(h, NewReq("proxy", r, ref, m, <<m>>))
    <2> DEFINE q == NewReq("proxy", r, ref, m, <<m>>)
    <2>1. <<m>> \in Seq(Digest) /\ <<m>> \in Seq(Digest \cup Ref)
      BY <1>3, SeqTypes
    <2>2. Becomes(h, q) /\ req[h].pc = "idle"
      BY <1>5 DEF Begin
    <2>3. q \in Request /\ q.pc = "proxy" /\ q.repo = r /\ q.ref = ref /\ q.dgst = m
      BY <1>3, <2>1 DEF NewReq, Request, PCs
    <2> HIDE DEF q
    <2>4. ReqOK(q)
      BY <2>3 DEF ReqOK
    <2>5. Typed' /\ Moves(h, q)
      BY <1>2, <2>2, <2>3, <2>4, BecomesTyped
    <2> QED
      BY <2>2, <2>3, <2>5
  <1> QED
    BY <1>1, <1>4, <1>5

\* The next blob of an import is stored, or the import ends.
LEMMA FetchTyped ==
    ASSUME Typed, NEW h \in Proc, Fetch(h)
    PROVE  /\ Typed' /\ req[h].todo \in Seq(Digest)
           /\ stored \cup dropped \subseteq stored' \cup dropped'
           /\ \/ Moves(h, Idle)
              \/ /\ Moves(h, [req[h] EXCEPT !.todo = Tail(@)])
                 /\ Head(req[h].todo) \in stored'
  <1> DEFINE q == [req[h] EXCEPT !.todo = Tail(@)]
  <1>1. /\ req[h] \in Request /\ ReqOK(req[h]) /\ req[h].pc = "fetch"
        /\ req[h].todo \in Seq(Digest) /\ req[h].todo # <<>>
    BY DEF Fetch, Typed, TypeOK, ReqOK
  <1>2. Head(req[h].todo) \in Digest /\ Tail(req[h].todo) \in Seq(Digest)
        /\ Tail(req[h].todo) \in Seq(Digest \cup Ref)
    BY <1>1, Visits, SeqTypes
  <1>3. DbOK' /\ CacheOK' /\ stored \cup dropped \subseteq stored' \cup dropped'
    BY <1>2, CacheSame, TypedParts DEF Fetch, DbOK, db, cached
  <1>4. CASE Ends(h)
    BY <1>1, <1>3, <1>4, EndsTyped
  <1>5. CASE Becomes(h, q) /\ stored' = stored \cup {Head(req[h].todo)}
    <2>1. q \in Request /\ ReqOK(q)
      BY <1>1, <1>2 DEF Request, ReqOK
    <2> HIDE DEF q
    <2>2. Typed' /\ Moves(h, q)
      BY <1>3, <1>5, <2>1, BecomesTyped
    <2> QED
      BY <1>1, <1>3, <1>5, <2>2 DEF q
  <1> QED
    BY <1>4, <1>5 DEF Fetch

\* The manifest of a proxy is stored, or not.
LEMMA ProxyTyped ==
    ASSUME Typed, NEW h \in Proc, Proxy(h)
    PROVE  /\ Typed' /\ stored \cup dropped \subseteq stored' \cup dropped'
           /\ \E q : Moves(h, q) /\ q.pc \in {"idle", "proxy"}
  <1> DEFINE q == [req[h] EXCEPT !.todo = <<>>]
  <1>1. /\ req[h] \in Request /\ ReqOK(req[h]) /\ req[h].pc = "proxy"
        /\ req[h].dgst \in Digest
    BY DEF Proxy, Typed, TypeOK, ReqOK, Digest
  <1>2. DbOK' /\ CacheOK' /\ stored \cup dropped \subseteq stored' \cup dropped'
    BY <1>1, CacheSame, TypedParts DEF Proxy, DbOK, db, cached
  <1>3. CASE Ends(h)
    BY <1>2, <1>3, EndsTyped, IdleOK
  <1>4. CASE Becomes(h, q)
    <2>1. <<>> \in Seq(Digest \cup Ref)
      OBVIOUS
    <2>2. q \in Request /\ q.pc = "proxy" /\ q.repo = req[h].repo
          /\ q.ref = req[h].ref /\ q.dgst = req[h].dgst
      BY <1>1, <2>1 DEF Request
    <2>3. ReqOK(q)
      BY <1>1, <2>2 DEF ReqOK
    <2> HIDE DEF q
    <2> QED
      BY <1>2, <1>4, <2>2, <2>3, BecomesTyped
  <1> QED
    BY <1>3, <1>4 DEF Proxy

\* What an import has still to link.
Links(q) == IF q.pc = "fetch" THEN <<q.dgst>> \o RefsOf[q.dgst] ELSE <<q.dgst>>

\* A request that links what it is given.
LEMMA LinkReq ==
    ASSUME NEW r \in Repo, NEW m \in Manifest, NEW s \in Seq(Digest)
    PROVE  LET q == NewReq("link", r, None, m, s)
           IN  /\ q \in Request /\ ReqOK(q) /\ q.pc = "link" /\ q.repo = r
               /\ q.ref = None /\ q.todo = s
  <1> DEFINE q == NewReq("link", r, None, m, s)
  <1>1. s \in Seq(Digest \cup Ref) /\ m \in Digest
    BY SeqTypes DEF Digest
  <1>2. q \in Request /\ q.pc = "link" /\ q.repo = r /\ q.ref = None /\ q.todo = s
    BY <1>1 DEF NewReq, Request, PCs
  <1> HIDE DEF q
  <1>3. ReqOK(q)
    BY <1>2 DEF ReqOK
  <1> QED
    BY <1>2, <1>3 DEF q

\* What Import writes.
LEMMA ImportTyped ==
    ASSUME Typed, NEW h \in Proc, Import(h)
    PROVE  LET r == req[h].repo
               m == req[h].dgst
               t == req[h].ref
               W == {<<"m", r, m>>} \cup {<<"t", r, u>> : u \in {t} \cap Tag}
               q == NewReq("link", r, None, m, Links(req[h]))
           IN  /\ Typed' /\ r \in Repo /\ m \in Manifest /\ t \in Ref
               /\ q.pc = "link" /\ q.repo = r /\ q.ref = None
               /\ q.todo = Links(req[h])
               /\ Moves(h, q)
               /\ \A g \in Proc \ {h} :
                     req'[g].conflict <=> (req[g].conflict \/ req[g].keys \cap W # {})
               /\ \A x \in Repo, u \in Tag :
                     tags'[x][u] = IF x = r /\ u = t THEN m ELSE tags[x][u]
  <1> DEFINE r == req[h].repo
             m == req[h].dgst
             t == req[h].ref
             q == NewReq("link", r, None, m, Links(req[h]))
             W == {<<"m", r, m>>} \cup {<<"t", r, u>> : u \in {t} \cap Tag}
  <1>1. /\ req \in [Proc -> Request] /\ r \in Repo /\ m \in Manifest /\ t \in Ref
    BY DEF Import, Typed, TypeOK, ReqOK
  <1>2. Links(req[h]) \in Seq(Digest)
    <2> HIDE DEF m
    <2>1. <<m>> \o RefsOf[m] \in Seq(Digest)
      BY <1>1, LinksOf
    <2>2. m \in Digest
      BY <1>1 DEF Digest
    <2>3. <<m>> \in Seq(Digest)
      BY <2>2
    <2> QED
      BY <2>1, <2>3 DEF Links, m
  <1>3. /\ q \in Request /\ ReqOK(q) /\ q.pc = "link" /\ q.repo = r /\ q.ref = None
        /\ q.todo = Links(req[h])
    BY <1>1, <1>2, LinkReq
  <1>4. Commits(h, q, W)
    BY DEF Import, Links
  <1>5. /\ manifests' = manifests \cup {<<r, m>>} /\ repos' = repos \cup {r}
        /\ revoked' = revoked \ {<<r, m>>}
        /\ proxied' \subseteq proxied \cup {<<r, m>>}
        /\ UNCHANGED <<stored, br, rb, dropped, excused, crashes>>
        /\ UNCHANGED <<cache, late>>
    BY DEF Import
  <1>6. /\ tags' \in [Repo -> [Tag -> Manifest \cup {None}]]
        /\ \A x \in Repo, u \in Tag :
              tags'[x][u] = IF x = r /\ u = t THEN m ELSE tags[x][u]
    <2>1. tags \in [Repo -> [Tag -> Manifest \cup {None}]]
      BY DEF Typed, TypeOK
    <2>2. tags' = IF t \in Tag THEN [tags EXCEPT ![r][t] = m] ELSE tags
      BY DEF Import
    <2> HIDE DEF r, m, t
    <2> QED
      BY <1>1, <2>1, <2>2
  <1>7. DbOK'
    BY <1>1, <1>5, <1>6, TypedParts DEF DbOK
  <1>8. CacheOK'
    <2>1. bypassed' = IF t \in Tag /\ cache[r][t] \notin {None, m}
                      THEN bypassed \cup {<<r, t>>} ELSE bypassed
      BY DEF Import
    <2> HIDE DEF r, m, t
    <2> QED
      BY <1>1, <1>5, <2>1, TypedParts DEF CacheOK, Entries
  <1> HIDE DEF q, W, r, m, t
  <1>9. /\ Moves(h, q)
        /\ \A g \in Proc \ {h} :
              req'[g].conflict <=> (req[g].conflict \/ req[g].keys \cap W # {})
    BY <1>1, <1>3, <1>4, CommitsMoves
  <1>10. Typed'
    BY <1>3, <1>7, <1>8, <1>9, TypedStep
  <1> QED
    BY <1>1, <1>3, <1>6, <1>9, <1>10 DEF q, W, r, m, t

\* An import is not recorded.
LEMMA ImportConflictsTyped ==
    ASSUME Typed, NEW h \in Proc, ImportConflicts(h)
    PROVE  /\ Typed' /\ UNCHANGED <<stored, db, cached, history>>
           /\ \E q : Moves(h, q) /\ q.pc \in {"idle", "link"} /\ q.ref = None
  <1>1. UNCHANGED <<stored, db, cached, history>> /\ DbOK' /\ CacheOK'
    BY AllSame DEF ImportConflicts
  <1>2. CASE Ends(h)
    BY <1>1, <1>2, EndsTyped, IdleOK DEF Idle, NewReq
  <1>3. CASE Becomes(h, NewReq("link", req[h].repo, None, req[h].dgst, <<req[h].dgst>>))
    <2> DEFINE q == NewReq("link", req[h].repo, None, req[h].dgst, <<req[h].dgst>>)
    <2>1. req[h].repo \in Repo /\ req[h].dgst \in Manifest
      BY DEF ImportConflicts, Typed, ReqOK
    <2>2. <<req[h].dgst>> \in Seq(Digest)
      BY <2>1 DEF Digest
    <2>3. q \in Request /\ ReqOK(q) /\ q.pc = "link" /\ q.ref = None
      BY <2>1, <2>2, LinkReq
    <2> HIDE DEF q
    <2> QED
      BY <1>1, <1>3, <2>3, BecomesTyped DEF q
  <1> QED
    BY <1>1, <1>2, <1>3 DEF ImportConflicts

\* A crash.
LEMMA CrashTyped == ASSUME Typed, Crash PROVE Typed'
  <1>1. DbOK'
    <2>1. excused' \subseteq Digest \X Repo
      <3>1. ASSUME NEW g \in Proc, req[g].pc = "link", NEW i \in DOMAIN req[g].todo
            PROVE  <<req[g].todo[i], req[g].repo>> \in Digest \X Repo
        BY <3>1 DEF Typed, ReqOK
      <3>2. excused \subseteq Digest \X Repo
        BY DEF Typed, TypeOK
      <3> QED
        BY <3>1, <3>2 DEF Crash
    <2>2. crashes' \in 0 .. MaxCrashes
      BY ConstantsAssumption DEF Crash, Typed, TypeOK
    <2> QED
      BY <2>1, <2>2, TypedParts DEF Crash, DbOK, db
  <1>2. CacheOK'
    <2>1. cache' = [r \in Repo |-> [ref \in Ref |-> None]] /\ late' = {} /\ bypassed' = {}
      BY DEF Crash
    <2>2. Entries' = {}
      BY <2>1 DEF Entries
    <2>3. IsFiniteSet(Entries') /\ Cardinality(Entries') = 0
      BY <2>2, FS_EmptySet
    <2> QED
      BY <2>1, <2>3, ConstantsAssumption DEF CacheOK
  <1>3. (req \in [Proc -> Request])' /\ (\A h \in Proc : ReqOK(req[h]))'
    BY IdleOK DEF Crash
  <1> QED
    BY <1>1, <1>2, <1>3 DEF Typed, TypeOK, DbOK, CacheOK, Entries

\* The server starts.
LEMMA InitTyped == Init => Typed
  <1> SUFFICES ASSUME Init PROVE Typed
    OBVIOUS
  <1>1. DbOK
    BY ConstantsAssumption DEF Init, DbOK
  <1>2. CacheOK
    <2>1. Entries = {}
      BY DEF Init, Entries
    <2>2. IsFiniteSet(Entries) /\ Cardinality(Entries) = 0
      BY <2>1, FS_EmptySet
    <2> QED
      BY <2>2, ConstantsAssumption DEF Init, CacheOK
  <1>3. req \in [Proc -> Request] /\ \A h \in Proc : ReqOK(req[h])
    BY IdleOK DEF Init
  <1> QED
    BY <1>1, <1>2, <1>3, TypedParts

\* Nothing happens.
LEMMA StutterTyped == ASSUME Typed, UNCHANGED vars PROVE Typed'
  BY DEF Typed, TypeOK, Entries, vars, db, cached, history

\* The steps of a request keep the types.
LEMMA StepTyped == ASSUME Typed, [Next]_vars PROVE Typed'
  <1>1. ASSUME NEW h \in Proc, NewRequest(h) PROVE Typed'
    BY <1>1, PutManifestTyped, GetManifestTyped, DeleteManifestTyped, UploadBlobTyped,
       MountBlobTyped, DeleteBlobTyped, DeleteRepositoryTyped, ImportManifestTyped
       DEF NewRequest
  <1>2. ASSUME NEW h \in Proc, HandlerStep(h) PROVE Typed'
    BY <1>2, CheckTyped, StoreManifestTyped, RecordTyped, ConflictsTyped, LinkTyped,
       LinkedTyped, ForgetTyped, ReadMetaTyped, FillTyped, MountExistsTyped, CountTyped,
       DropTyped, PurgeTyped, FetchTyped, ProxyTyped, ImportTyped, ImportConflictsTyped
       DEF HandlerStep
  <1> QED
    BY <1>1, <1>2, CrashTyped, StutterTyped DEF Next

\* Always typed, with what every request carries.
LEMMA AlwaysTyped == Spec => []Typed
  BY InitTyped, StepTyped, PTL DEF Spec

\* The stores, the links, the cache and the requests keep their types and the cache
\* its capacity, in every interleaving of the handlers of handlers.go.
THEOREM TypeCorrect == Spec => []TypeOK
  <1>1. Typed => TypeOK
    BY DEF Typed
  <1> QED
    BY <1>1, AlwaysTyped, PTL

-----------------------------------------------------------------------------
(* ManifestsComplete *)

\* What a PUT has checked or an import has stored, and what they have still to visit.
Held(q, kept) ==
    /\ q.pc = "check" => Range(RefsOf[q.dgst]) \subseteq kept \cup Range(q.todo)
    /\ q.pc = "store" => Range(RefsOf[q.dgst]) \subseteq kept
    /\ q.pc = "record" => {q.dgst} \cup Range(RefsOf[q.dgst]) \subseteq kept
    /\ q.pc = "fetch" =>
          {q.dgst} \cup Range(RefsOf[q.dgst]) \subseteq kept \cup Range(q.todo)

\* The records that came after what they name.
Vouched == manifests \ proxied

Complete ==
    /\ ManifestsComplete
    /\ \A h \in Proc : Held(req[h], stored \cup dropped)

\* What was stored once stays stored or is known as dropped.
LEMMA CompleteStep ==
    ASSUME Complete, NEW h \in Proc, NEW q, Moves(h, q),
           stored \cup dropped \subseteq stored' \cup dropped',
           Held(q, stored' \cup dropped'),
           \A x \in Vouched' \ Vouched :
               {x[2]} \cup Range(RefsOf[x[2]]) \subseteq stored' \cup dropped'
    PROVE  Complete'
  <1>1. ASSUME NEW x \in Vouched'
        PROVE  {x[2]} \cup Range(RefsOf[x[2]]) \subseteq stored' \cup dropped'
    BY DEF Complete, ManifestsComplete, Vouched
  <1>2. ASSUME NEW g \in Proc PROVE Held(req'[g], stored' \cup dropped')
    <2>1. CASE g = h
      BY <2>1 DEF Moves
    <2>2. CASE g # h
      BY <2>2 DEF Complete, Moves, Same, Held
    <2> QED
      BY <2>1, <2>2
  <1> QED
    BY <1>1, <1>2 DEF Complete, ManifestsComplete, Vouched

\* A request that is not on its way to Record.
LEMMA CompleteQuiet ==
    ASSUME Complete, NEW h \in Proc, NEW q, Moves(h, q),
           q.pc \notin {"check", "store", "record", "fetch"},
           stored \cup dropped \subseteq stored' \cup dropped', Vouched' \subseteq Vouched
    PROVE  Complete'
  BY CompleteStep DEF Held

\* A check finds the blob in the store; after the last one all were found.
LEMMA CheckComplete == ASSUME Typed, Complete, NEW h \in Proc, Check(h) PROVE Complete'
  <1> USE DEF Vouched
  <1>1. UNCHANGED <<stored, dropped, manifests, proxied>>
    BY DEF Check, db, history
  <1>2. req[h] \in Request /\ req[h].pc = "check" /\ Held(req[h], stored \cup dropped)
    BY DEF Check, Typed, TypeOK, Complete
  <1>3. CASE Moves(h, Idle)
    BY <1>1, <1>3, CompleteQuiet, IdleOK
  <1>4. CASE req[h].todo = <<>> /\ Moves(h, [req[h] EXCEPT !.pc = "store"])
    <2> DEFINE q == [req[h] EXCEPT !.pc = "store"]
    <2>1. q.pc = "store" /\ q.dgst = req[h].dgst
      BY <1>2 DEF Request
    <2>2. Range(<<>>) = {}
      BY DEF Range
    <2>3. Moves(h, q)
      BY <1>4
    <2> HIDE DEF q
    <2>4. Held(q, stored' \cup dropped')
      BY <1>1, <1>2, <1>4, <2>1, <2>2 DEF Held
    <2> QED
      BY <1>1, <2>3, <2>4, CompleteStep
  <1>5. CASE /\ req[h].todo # <<>> /\ Head(req[h].todo) \in stored
             /\ Moves(h, [req[h] EXCEPT !.todo = Tail(@)])
    <2> DEFINE q == [req[h] EXCEPT !.todo = Tail(@)]
    <2>1. q.pc = "check" /\ q.dgst = req[h].dgst /\ q.todo = Tail(req[h].todo)
      BY <1>2 DEF Request
    <2>2. Range(req[h].todo) = {Head(req[h].todo)} \cup Range(Tail(req[h].todo))
      BY <1>2, <1>5, Visits DEF Request
    <2>3. Moves(h, q)
      BY <1>5
    <2> HIDE DEF q
    <2>4. Held(q, stored' \cup dropped')
      BY <1>1, <1>2, <1>5, <2>1, <2>2 DEF Held
    <2> QED
      BY <1>1, <2>3, <2>4, CompleteStep
  <1> QED
    BY <1>3, <1>4, <1>5, CheckTyped

\* The manifest itself is stored.
LEMMA StoreManifestComplete ==
    ASSUME Typed, Complete, NEW h \in Proc, StoreManifest(h) PROVE Complete'
  <1> USE DEF Vouched
  <1>1. /\ stored \cup dropped \subseteq stored' \cup dropped' /\ UNCHANGED <<manifests, proxied>>
        /\ req[h].pc = "store" /\ req[h] \in Request /\ Held(req[h], stored \cup dropped)
    BY DEF StoreManifest, db, Complete, Typed, TypeOK
  <1>2. CASE Ends(h)
    <2>1. Moves(h, Idle)
      BY <1>2, IdleOK, BecomesMoves DEF Ends, Typed, TypeOK
    <2> QED
      BY <1>1, <2>1, IdleOK, CompleteQuiet
  <1>3. CASE stored' = stored \cup {req[h].dgst} /\ Goes(h, "record")
    <2> DEFINE q == [req[h] EXCEPT !.pc = "record"]
    <2>1. q \in Request /\ q.pc = "record" /\ q.dgst = req[h].dgst
      BY <1>1 DEF Request, PCs
    <2>2. Becomes(h, q)
      BY <1>3 DEF Goes
    <2> HIDE DEF q
    <2>3. Moves(h, q)
      BY <2>1, <2>2, BecomesMoves DEF Typed, TypeOK
    <2>4. Held(q, stored' \cup dropped')
      BY <1>1, <1>3, <2>1 DEF Held
    <2> QED
      BY <1>1, <2>3, <2>4, CompleteStep
  <1> QED
    BY <1>2, <1>3 DEF StoreManifest

\* The manifest is recorded, with all it names.
LEMMA RecordComplete == ASSUME Typed, Complete, NEW h \in Proc, Record(h) PROVE Complete'
  <1> DEFINE m == req[h].dgst
             q == [req[h] EXCEPT !.pc = "link", !.todo = <<m>> \o RefsOf[m]]
  <1>1. /\ UNCHANGED <<stored, dropped>> /\ Vouched' = Vouched \cup {<<req[h].repo, m>>}
        /\ req[h].pc = "record" /\ req[h] \in Request /\ Held(req[h], stored \cup dropped)
    BY DEF Record, Complete, Typed, TypeOK, Vouched
  <1>2. Moves(h, q)
    BY RecordTyped
  <1>3. q.pc = "link"
    BY <1>1 DEF Request
  <1>4. {m} \cup Range(RefsOf[m]) \subseteq stored' \cup dropped'
    BY <1>1 DEF Held
  <1> HIDE DEF q, m
  <1>5. \A x \in Vouched' \ Vouched :
            {x[2]} \cup Range(RefsOf[x[2]]) \subseteq stored' \cup dropped'
    BY <1>1, <1>4
  <1>6. Held(q, stored' \cup dropped')
    BY <1>3 DEF Held
  <1> QED
    BY <1>1, <1>2, <1>5, <1>6, CompleteStep

\* An import stores the next blob.
LEMMA FetchComplete == ASSUME Typed, Complete, NEW h \in Proc, Fetch(h) PROVE Complete'
  <1> USE DEF Vouched
  <1>1. /\ UNCHANGED <<manifests, proxied>> /\ req[h].pc = "fetch" /\ req[h] \in Request
        /\ Held(req[h], stored \cup dropped) /\ req[h].todo # <<>>
    BY DEF Fetch, db, Complete, Typed, TypeOK
  <1>2. /\ stored \cup dropped \subseteq stored' \cup dropped'
        /\ req[h].todo \in Seq(Digest)
    BY FetchTyped
  <1>3. CASE Moves(h, Idle)
    BY <1>1, <1>2, <1>3, CompleteQuiet, IdleOK
  <1>4. CASE /\ Moves(h, [req[h] EXCEPT !.todo = Tail(@)])
             /\ Head(req[h].todo) \in stored'
    <2> DEFINE q == [req[h] EXCEPT !.todo = Tail(@)]
    <2>1. q.pc = "fetch" /\ q.dgst = req[h].dgst /\ q.todo = Tail(req[h].todo)
      BY <1>1 DEF Request
    <2>2. Range(req[h].todo) = {Head(req[h].todo)} \cup Range(Tail(req[h].todo))
      BY <1>1, <1>2, Visits
    <2>3. Moves(h, q)
      BY <1>4
    <2> HIDE DEF q
    <2>4. Held(q, stored' \cup dropped')
      BY <1>1, <1>2, <1>4, <2>1, <2>2 DEF Held
    <2> QED
      BY <1>1, <1>2, <2>3, <2>4, CompleteStep
  <1> QED
    BY <1>3, <1>4, FetchTyped

\* An import is recorded: with all it names, or it is proxied.
LEMMA ImportComplete == ASSUME Typed, Complete, NEW h \in Proc, Import(h) PROVE Complete'
  <1> DEFINE m == req[h].dgst
             q == NewReq("link", req[h].repo, None, m, Links(req[h]))
  <1>1. /\ UNCHANGED <<stored, dropped>> /\ req[h].pc \in {"fetch", "proxy"}
        /\ req[h].todo = <<>> /\ Held(req[h], stored \cup dropped)
    BY DEF Import, Complete
  <1>2. /\ req[h].pc = "fetch" => Vouched' = Vouched \cup {<<req[h].repo, m>>}
        /\ req[h].pc = "proxy" => Vouched' \subseteq Vouched
    BY DEF Import, Vouched
  <1>3. Moves(h, q) /\ q.pc = "link"
    BY ImportTyped
  <1>4. Range(<<>>) = {}
    BY DEF Range
  <1>5. req[h].pc = "fetch" => {m} \cup Range(RefsOf[m]) \subseteq stored' \cup dropped'
    BY <1>1, <1>4 DEF Held
  <1> HIDE DEF q, m
  <1>6. \A x \in Vouched' \ Vouched :
            {x[2]} \cup Range(RefsOf[x[2]]) \subseteq stored' \cup dropped'
    BY <1>1, <1>2, <1>5
  <1>7. Held(q, stored' \cup dropped')
    BY <1>3 DEF Held
  <1> QED
    BY <1>1, <1>3, <1>6, <1>7, CompleteStep

\* A PUT begins with everything to check.
LEMMA PutManifestComplete ==
    ASSUME Typed, Complete, NEW h \in Proc, PutManifest(h) PROVE Complete'
  <1> USE DEF Vouched
  <1>1. PICK q : /\ Moves(h, q) /\ q.pc = "check" /\ q.dgst \in Manifest
                 /\ q.todo = RefsOf[q.dgst]
    BY PutManifestTyped
  <1>2. UNCHANGED <<stored, dropped, manifests, proxied>>
    BY DEF PutManifest, db, history
  <1>3. Held(q, stored' \cup dropped')
    BY <1>1 DEF Held
  <1> QED
    BY <1>1, <1>2, <1>3, CompleteStep

\* A request moves on, and neither stores, drops nor records anything.
LEMMA CompleteOther ==
    ASSUME Typed, Complete, NEW h \in Proc,
           UNCHANGED <<stored, dropped>>, Vouched' \subseteq Vouched,
           \E q : Moves(h, q) /\ q.pc \notin {"check", "store", "record", "fetch"}
    PROVE  Complete'
  BY CompleteQuiet

\* Every other request.
LEMMA NewRequestComplete ==
    ASSUME Typed, Complete, NEW h \in Proc, NewRequest(h) PROVE Complete'
  <1> USE DEF db, history, cached, Vouched
  <1>1. CASE PutManifest(h)
    BY <1>1, PutManifestComplete
  <1>2. CASE GetManifest(h)
    BY <1>2, GetManifestTyped, CompleteOther DEF GetManifest
  <1>3. CASE DeleteManifest(h)
    <2>1. Vouched' \subseteq Vouched /\ UNCHANGED <<stored, dropped>>
      BY <1>3 DEF DeleteManifest
    <2>2. PICK q : Moves(h, q) /\ q.pc = "forget"
      BY <1>3, DeleteManifestTyped
    <2> QED
      BY <2>1, <2>2, CompleteOther
  <1>4. CASE UploadBlob(h)
    <2>1. UNCHANGED <<manifests, proxied>>
      BY <1>4 DEF UploadBlob
    <2> QED
      BY <1>4, <2>1, UploadBlobTyped, CompleteQuiet
  <1>5. CASE MountBlob(h)
    BY <1>5, MountBlobTyped, CompleteOther DEF MountBlob
  <1>6. CASE DeleteBlob(h)
    BY <1>6, DeleteBlobTyped, CompleteOther
  <1>7. CASE DeleteRepository(h)
    <2>1. PICK q : Moves(h, q) /\ q.pc = "purge"
      BY <1>7, DeleteRepositoryTyped
    <2> QED
      BY <1>7, <2>1, CompleteOther DEF DeleteRepository
  <1>8. CASE ImportManifest(h) \/ ProxyManifest(h)
    <2>1. PICK q : /\ Moves(h, q) /\ q.pc \in {"fetch", "proxy"}
                   /\ q.pc = "fetch" =>
                         {q.dgst} \cup Range(RefsOf[q.dgst]) \subseteq Range(q.todo)
      BY <1>8, ImportManifestTyped
    <2>2. UNCHANGED <<stored, dropped, manifests, proxied>>
      BY <1>8 DEF ImportManifest, ProxyManifest
    <2>3. Held(q, stored' \cup dropped')
      BY <2>1 DEF Held
    <2> QED
      BY <2>1, <2>2, <2>3, CompleteStep
  <1> QED
    BY <1>1, <1>2, <1>3, <1>4, <1>5, <1>6, <1>7, <1>8 DEF NewRequest

\* Every other call.
LEMMA HandlerComplete ==
    ASSUME Typed, Complete, NEW h \in Proc, HandlerStep(h) PROVE Complete'
  <1> USE DEF db, history, cached, Vouched
  <1>1. req[h] \in Request
    BY DEF Typed, TypeOK
  <1>2. CASE Check(h) \/ StoreManifest(h) \/ Record(h)
    BY <1>2, CheckComplete, StoreManifestComplete, RecordComplete
  <1>3. CASE RecordConflicts(h) \/ PurgeConflicts(h)
    BY <1>3, ConflictsTyped, IdleOK, CompleteOther
  <1>4. CASE Link(h)
    <2>1. [req[h] EXCEPT !.todo = Tail(@)].pc = "link"
      BY <1>1, <1>4 DEF Link, Request
    <2> QED
      BY <1>4, <2>1, LinkTyped, CompleteOther DEF Link
  <1>5. CASE Linked(h)
    <2>1. [req[h] EXCEPT !.pc = "forget", !.todo = <<req[h].ref, req[h].dgst>>].pc = "forget"
      BY <1>1 DEF Request
    <2>2. UNCHANGED <<stored, dropped, manifests, proxied>>
      BY <1>5 DEF Linked
    <2> QED
      BY <1>5, <2>1, <2>2, LinkedTyped, IdleOK, CompleteOther
  <1>6. CASE Forget(h)
    <2>1. [req[h] EXCEPT !.todo = Tail(@)].pc = "forget"
      BY <1>1, <1>6 DEF Forget, Request
    <2>2. UNCHANGED <<stored, dropped, manifests, proxied>>
      BY <1>6 DEF Forget
    <2> QED
      BY <1>6, <2>1, <2>2, ForgetTyped, IdleOK, CompleteOther
  <1>7. CASE ReadMeta(h)
    <2>1. [req[h] EXCEPT !.pc = "fill", !.dgst = Resolve(req[h].repo, req[h].ref)].pc = "fill"
      BY <1>1 DEF Request
    <2>2. UNCHANGED <<stored, dropped, manifests, proxied>>
      BY <1>7 DEF ReadMeta
    <2> QED
      BY <1>7, <2>1, <2>2, ReadMetaTyped, IdleOK, CompleteOther
  <1>8. CASE Fill(h)
    <2>1. UNCHANGED <<stored, dropped, manifests, proxied>>
      BY <1>8 DEF Fill
    <2> QED
      BY <1>8, <2>1, FillTyped, IdleOK, CompleteOther
  <1>9. CASE MountExists(h)
    <2>1. [req[h] EXCEPT !.pc = "link"].pc = "link"
      BY <1>1 DEF Request
    <2> QED
      BY <1>9, <2>1, MountExistsTyped, IdleOK, CompleteOther DEF MountExists
  <1>10. CASE Count(h)
    <2>1. [req[h] EXCEPT !.pc = "delete"].pc = "delete"
      BY <1>1 DEF Request
    <2> QED
      BY <1>10, <2>1, CountTyped, IdleOK, CompleteOther DEF Count
  <1>11. CASE Drop(h)
    <2>1. UNCHANGED <<manifests, proxied>>
      BY <1>11 DEF Drop
    <2> QED
      BY <1>11, <2>1, DropTyped, IdleOK, CompleteQuiet
  <1>12. CASE Purge(h)
    <2>1. UNCHANGED <<stored, dropped>> /\ Vouched' \subseteq Vouched
      BY <1>12 DEF Purge
    <2> QED
      BY <1>12, <2>1, PurgeTyped, IdleOK, CompleteOther
  <1>13. CASE Proxy(h)
    <2>1. UNCHANGED <<manifests, proxied>>
      BY <1>13 DEF Proxy
    <2> QED
      BY <1>13, <2>1, ProxyTyped, CompleteQuiet
  <1>14. CASE ImportConflicts(h)
    <2>1. UNCHANGED <<stored, dropped, manifests, proxied>>
      BY <1>14 DEF ImportConflicts
    <2>2. \E q : Moves(h, q) /\ q.pc \in {"idle", "link"}
      BY <1>14, ImportConflictsTyped
    <2> QED
      BY <2>1, <2>2, CompleteOther
  <1> QED
    BY <1>2, <1>3, <1>4, <1>5, <1>6, <1>7, <1>8, <1>9, <1>10, <1>11, <1>12, <1>13, <1>14,
       FetchComplete, ImportComplete DEF HandlerStep

\* A PUT, sync or Clone records a manifest only after everything it names was
\* stored, and what was stored is gone only by a DELETE of the blob, however the writers
\* interleave between their checks and PutManifest.
THEOREM RecordedComplete == Spec => []ManifestsComplete
  <1>1. Init => Complete
    BY IdleOK DEF Init, Complete, ManifestsComplete, Held
  <1>2. ASSUME Typed, Complete, [Next]_vars PROVE Complete'
    <2>1. CASE Crash
      BY <1>2, <2>1, IdleOK DEF Crash, Complete, ManifestsComplete, Held, db
    <2>2. CASE UNCHANGED vars
      BY <1>2, <2>2 DEF vars, Complete, ManifestsComplete, db, history
    <2> QED
      BY <1>2, <2>1, <2>2, NewRequestComplete, HandlerComplete DEF Next
  <1>3. Complete => ManifestsComplete
    BY DEF Complete
  <1> QED
    BY <1>1, <1>2, <1>3, AlwaysTyped, PTL DEF Spec

-----------------------------------------------------------------------------
(* BlobsProtected, which is inductive as it stands *)

Linking(q, r, d) == q.pc = "link" /\ q.repo = r /\ d \in Range(q.todo)

\* Nothing is recorded, no link is lost without a cause, and h was not linking.
LEMMA ProtectedStep ==
    ASSUME BlobsProtected, NEW h \in Proc, NEW q, Moves(h, q), Vouched' \subseteq Vouched,
           br \cup excused \subseteq br' \cup excused',
           req[h].pc # "link" \/ req[h].todo = <<>>
    PROVE  BlobsProtected'
  <1> SUFFICES ASSUME NEW x \in Vouched', NEW d \in {x[2]} \cup Range(RefsOf[x[2]])
               PROVE  \/ <<d, x[1]>> \in br' \cup excused'
                      \/ \E g \in Proc : Linking(req'[g], x[1], d)
    BY DEF BlobsProtected, Linking, Vouched
  <1>1. CASE <<d, x[1]>> \in br \cup excused
    BY <1>1
  <1>2. ASSUME NEW g \in Proc, Linking(req[g], x[1], d)
        PROVE  \E f \in Proc : Linking(req'[f], x[1], d)
    <2>1. Range(<<>>) = {}
      BY DEF Range
    <2>2. g # h
      BY <1>2, <2>1 DEF Linking
    <2> QED
      BY <1>2, <2>2 DEF Moves, Same, Linking
  <1> QED
    BY <1>1, <1>2 DEF BlobsProtected, Linking, Vouched

\* The writer that records a manifest is about to link it and all it names.
LEMMA WriterProtects ==
    ASSUME BlobsProtected, NEW h \in Proc, NEW q, Moves(h, q), NEW r, NEW m \in Manifest,
           UNCHANGED <<br, excused>>, req[h].pc # "link",
           \/ Vouched' \subseteq Vouched
           \/ /\ Vouched' = Vouched \cup {<<r, m>>}
              /\ q.pc = "link" /\ q.repo = r /\ q.todo = <<m>> \o RefsOf[m]
    PROVE  BlobsProtected'
  <1>1. CASE Vouched' \subseteq Vouched
    BY <1>1, ProtectedStep
  <1>2. CASE /\ Vouched' = Vouched \cup {<<r, m>>}
             /\ q.pc = "link" /\ q.repo = r /\ q.todo = <<m>> \o RefsOf[m]
    <2>1. Range(q.todo) = {m} \cup Range(RefsOf[m])
      BY <1>2, LinksOf
    <2> SUFFICES ASSUME NEW x \in Vouched', NEW d \in {x[2]} \cup Range(RefsOf[x[2]])
                 PROVE  \/ <<d, x[1]>> \in br' \cup excused'
                        \/ \E g \in Proc : Linking(req'[g], x[1], d)
      BY DEF BlobsProtected, Linking, Vouched
    <2>2. CASE x = <<r, m>>
      <3>1. Linking(req'[h], x[1], d)
        BY <1>2, <2>1, <2>2 DEF Moves, Linking
      <3> QED
        BY <3>1
    <2>3. CASE x \in Vouched
      <3>1. ASSUME NEW g \in Proc, Linking(req[g], x[1], d)
            PROVE  Linking(req'[g], x[1], d)
        <4>1. g # h
          BY <3>1 DEF Linking
        <4> QED
          BY <3>1, <4>1 DEF Moves, Same, Linking
      <3> QED
        BY <2>3, <3>1 DEF BlobsProtected, Linking, Vouched
    <2> QED
      BY <1>2, <2>2, <2>3
  <1> QED
    BY <1>1, <1>2

\* A PUT records a manifest.
LEMMA RecordProtected ==
    ASSUME Typed, BlobsProtected, NEW h \in Proc, Record(h) PROVE BlobsProtected'
  <1> DEFINE r == req[h].repo
             m == req[h].dgst
             q == [req[h] EXCEPT !.pc = "link", !.todo = <<m>> \o RefsOf[m]]
  <1>1. /\ UNCHANGED <<br, excused>> /\ Vouched' = Vouched \cup {<<r, m>>}
        /\ req[h].pc = "record" /\ req[h] \in Request
    BY DEF Record, Typed, TypeOK, Vouched
  <1>2. Moves(h, q) /\ m \in Manifest
    BY RecordTyped
  <1>3. q.pc = "link" /\ q.repo = r /\ q.todo = <<m>> \o RefsOf[m]
    BY <1>1 DEF Request
  <1> HIDE DEF q, m, r
  <1> QED
    BY <1>1, <1>2, <1>3, WriterProtects

\* An import does.
LEMMA ImportProtected ==
    ASSUME Typed, BlobsProtected, NEW h \in Proc, Import(h) PROVE BlobsProtected'
  <1> DEFINE r == req[h].repo
             m == req[h].dgst
             q == NewReq("link", r, None, m, Links(req[h]))
  <1>1. UNCHANGED <<br, excused>> /\ req[h].pc \in {"fetch", "proxy"}
    BY DEF Import
  <1>2. /\ req[h].pc = "fetch" => Vouched' = Vouched \cup {<<r, m>>}
        /\ req[h].pc = "proxy" => Vouched' \subseteq Vouched
    BY DEF Import, Vouched
  <1>3. Moves(h, q) /\ m \in Manifest /\ q.pc = "link" /\ q.repo = r
        /\ q.todo = Links(req[h])
    BY ImportTyped
  <1>4. req[h].pc = "fetch" => q.todo = <<m>> \o RefsOf[m]
    BY <1>3 DEF Links
  <1> HIDE DEF q, m, r
  <1> QED
    BY <1>1, <1>2, <1>3, <1>4, WriterProtects

\* A link is made, and the next one is to come.
LEMMA LinkProtected ==
    ASSUME Typed, BlobsProtected, NEW h \in Proc, Link(h) PROVE BlobsProtected'
  <1> DEFINE q == [req[h] EXCEPT !.todo = Tail(@)]
             r == req[h].repo
             e == Head(req[h].todo)
  <1>1. /\ UNCHANGED <<manifests, proxied>> /\ req[h].pc = "link" /\ req[h] \in Request
        /\ br' = br \cup {<<e, r>>} /\ excused' = excused \ {<<e, r>>} /\ req[h].todo # <<>>
    BY DEF Link, Typed, TypeOK
  <1>2. Moves(h, q) /\ req[h].todo \in Seq(Digest)
    BY LinkTyped
  <1>3. Range(req[h].todo) = {e} \cup Range(Tail(req[h].todo))
    BY <1>1, <1>2, Visits
  <1>4. q.pc = "link" /\ q.repo = r /\ q.todo = Tail(req[h].todo)
    BY <1>1 DEF Request
  <1> HIDE DEF q, e
  <1> SUFFICES ASSUME NEW x \in Vouched, NEW d \in {x[2]} \cup Range(RefsOf[x[2]])
               PROVE  \/ <<d, x[1]>> \in br' \cup excused'
                      \/ \E g \in Proc : Linking(req'[g], x[1], d)
    BY <1>1 DEF BlobsProtected, Linking, Vouched
  <1>5. ASSUME NEW g \in Proc, Linking(req[g], x[1], d)
        PROVE  \/ <<d, x[1]>> \in br' \cup excused'
               \/ Linking(req'[g], x[1], d)
    <2>1. CASE g = h
      BY <1>1, <1>2, <1>3, <1>4, <1>5, <2>1 DEF Moves, Linking
    <2>2. CASE g # h
      BY <1>2, <1>5, <2>2 DEF Moves, Same, Linking
    <2> QED
      BY <2>1, <2>2
  <1> QED
    BY <1>1, <1>5 DEF BlobsProtected, Linking, Vouched

\* A crash excuses what the handlers had still to link.
LEMMA CrashProtected == ASSUME Typed, BlobsProtected, Crash PROVE BlobsProtected'
  <1>1. UNCHANGED <<br, manifests, proxied>> /\ excused \subseteq excused'
    BY DEF Crash, db
  <1>2. ASSUME NEW h \in Proc, NEW r, NEW d, Linking(req[h], r, d)
        PROVE  <<d, r>> \in excused'
    <2>1. PICK i \in DOMAIN req[h].todo : d = req[h].todo[i]
      BY <1>2 DEF Linking, Range
    <2> QED
      BY <1>2, <2>1 DEF Crash, Linking
  <1> QED
    BY <1>1, <1>2 DEF BlobsProtected, Linking, Vouched

\* A manifest of a repository never loses a link to what it names but by a DELETE of
\* that blob in that repository or by a crash before it was made: handleDeleteBlob in
\* another repository finds the link in GetBlobRepos.
THEOREM LinksProtect == Spec => []BlobsProtected
  <1>1. Init => BlobsProtected
    BY DEF Init, BlobsProtected
  <1>2. ASSUME Typed, BlobsProtected, NEW h \in Proc, NewRequest(h) PROVE BlobsProtected'
    <2> USE <1>2 DEF db, history, cached, Vouched
    <2>1. CASE PutManifest(h)
      BY <2>1, PutManifestTyped, ProtectedStep DEF PutManifest
    <2>2. CASE GetManifest(h)
      BY <2>2, GetManifestTyped, ProtectedStep DEF GetManifest
    <2>3. CASE DeleteManifest(h)
      <3>1. Vouched' \subseteq Vouched /\ UNCHANGED <<br, excused>>
        BY <2>3 DEF DeleteManifest
      <3>2. req[h].pc = "idle" /\ \E q : Moves(h, q)
        BY <2>3, DeleteManifestTyped
      <3> QED
        BY <3>1, <3>2, ProtectedStep
    <2>4. CASE UploadBlob(h)
      <3>1. UNCHANGED <<manifests, proxied, br, excused>>
        BY <2>4 DEF UploadBlob
      <3> QED
        BY <2>4, <3>1, UploadBlobTyped, ProtectedStep
    <2>5. CASE MountBlob(h)
      BY <2>5, MountBlobTyped, ProtectedStep DEF MountBlob
    <2>6. CASE DeleteBlob(h)
      BY <2>6, DeleteBlobTyped, ProtectedStep
    <2>7. CASE DeleteRepository(h)
      BY <2>7, DeleteRepositoryTyped, ProtectedStep DEF DeleteRepository
    <2>8. CASE ImportManifest(h) \/ ProxyManifest(h)
      BY <2>8, ImportManifestTyped, ProtectedStep DEF ImportManifest, ProxyManifest
    <2> QED
      BY <2>1, <2>2, <2>3, <2>4, <2>5, <2>6, <2>7, <2>8 DEF NewRequest
  <1>3. ASSUME Typed, BlobsProtected, NEW h \in Proc, HandlerStep(h) PROVE BlobsProtected'
    <2> USE <1>3 DEF db, history, cached, Vouched
    <2>1. CASE Record(h) \/ Link(h) \/ Import(h)
      BY <2>1, RecordProtected, LinkProtected, ImportProtected
    <2>2. CASE Purge(h)
      <3>1. UNCHANGED <<br, excused>> /\ Vouched' \subseteq Vouched /\ req[h].pc = "purge"
        BY <2>2 DEF Purge
      <3> QED
        BY <2>2, <3>1, PurgeTyped, ProtectedStep
    <2>3. CASE ~(Record(h) \/ Link(h) \/ Import(h) \/ Purge(h))
      <3>1. /\ UNCHANGED <<manifests, proxied, br, excused>>
            /\ req[h].pc # "link" \/ req[h].todo = <<>>
        BY <2>3 DEF HandlerStep, Check, StoreManifest, RecordConflicts, Linked, Forget,
              ReadMeta, Fill, MountExists, Count, Drop, PurgeConflicts, Fetch, Proxy,
              ImportConflicts
      <3>2. \E q : Moves(h, q)
        <4>1. CASE Check(h)
          BY <4>1, CheckTyped
        <4>2. CASE StoreManifest(h)
          BY <4>2, StoreManifestTyped
        <4>3. CASE RecordConflicts(h) \/ PurgeConflicts(h)
          BY <4>3, ConflictsTyped
        <4>4. CASE Linked(h)
          BY <4>4, LinkedTyped
        <4>5. CASE Forget(h)
          BY <4>5, ForgetTyped
        <4>6. CASE ReadMeta(h) \/ Fill(h)
          BY <4>6, ReadMetaTyped, FillTyped
        <4>7. CASE MountExists(h) \/ Count(h) \/ Drop(h)
          BY <4>7, MountExistsTyped, CountTyped, DropTyped
        <4>8. CASE Fetch(h) \/ Proxy(h) \/ ImportConflicts(h)
          BY <4>8, FetchTyped, ProxyTyped, ImportConflictsTyped
        <4> QED
          BY <2>3, <4>1, <4>2, <4>3, <4>4, <4>5, <4>6, <4>7, <4>8 DEF HandlerStep
      <3> QED
        BY <3>1, <3>2, ProtectedStep
    <2> QED
      BY <2>1, <2>2, <2>3
  <1>4. ASSUME BlobsProtected, UNCHANGED vars PROVE BlobsProtected'
    BY <1>4 DEF BlobsProtected, vars, db, history
  <1>5. ASSUME Typed, BlobsProtected, [Next]_vars PROVE BlobsProtected'
    BY <1>2, <1>3, <1>4, <1>5, CrashProtected DEF Next
  <1> QED
    BY <1>1, <1>5, AlwaysTyped, PTL DEF Spec

-----------------------------------------------------------------------------
(* TagsResolve *)

\* A DeleteRepository that will commit has read the tag of every manifest it has read:
\* a tag that came later marked it.
TagsRead(q, T) ==
    q.pc = "purge" /\ ~q.conflict =>
        \A t \in Tag :
            T[q.repo][t] # None /\ <<"m", q.repo, T[q.repo][t]>> \in q.keys
                => <<"t", q.repo, t>> \in q.keys

TagsInv == TagsResolve /\ \A h \in Proc : TagsRead(req[h], tags)

\* Tags and manifests are left alone.
LEMMA TagsStep ==
    ASSUME TagsInv, NEW h \in Proc, NEW q, Moves(h, q), TagsRead(q, tags),
           UNCHANGED <<tags, manifests, revoked>>
    PROVE  TagsInv'
  <1>1. ASSUME NEW g \in Proc PROVE TagsRead(req'[g], tags)
    <2>1. CASE g = h
      BY <2>1 DEF Moves
    <2>2. CASE g # h
      BY <2>2 DEF TagsInv, Moves, Same, TagsRead
    <2> QED
      BY <2>1, <2>2
  <1> QED
    BY <1>1 DEF TagsInv, TagsResolve

\* A tag and its manifest are written in one transaction.
LEMMA WritesTag ==
    ASSUME Typed, TagsInv, NEW h \in Proc, NEW q, Moves(h, q), q.pc = "link", NEW W,
           NEW r \in Repo, NEW m \in Manifest, NEW t \in Ref, <<"m", r, m>> \in W,
           manifests' = manifests \cup {<<r, m>>}, revoked' = revoked \ {<<r, m>>},
           \A g \in Proc \ {h} :
              req'[g].conflict <=> (req[g].conflict \/ req[g].keys \cap W # {}),
           \A x \in Repo, u \in Tag :
              tags'[x][u] = IF x = r /\ u = t THEN m ELSE tags[x][u]
    PROVE  TagsInv'
  <1>1. ASSUME NEW g \in Proc PROVE TagsRead(req'[g], tags')
    <2>1. CASE g = h
      BY <2>1 DEF Moves, TagsRead
    <2>2. CASE g # h
      <3> SUFFICES ASSUME req'[g].pc = "purge", ~req'[g].conflict, NEW u \in Tag,
                          tags'[req'[g].repo][u] # None,
                          <<"m", req'[g].repo, tags'[req'[g].repo][u]>> \in req'[g].keys
                   PROVE  <<"t", req'[g].repo, u>> \in req'[g].keys
        BY DEF TagsRead
      <3>1. Same(req'[g], req[g]) /\ ~req[g].conflict /\ req[g].keys \cap W = {}
        BY <2>2 DEF Moves
      <3>2. req[g].repo \in Repo
        BY <3>1 DEF Same, Typed, ReqOK
      <3>3. ~(req[g].repo = r /\ u = t)
        BY <3>1, <3>2 DEF Same
      <3>4. tags'[req[g].repo][u] = tags[req[g].repo][u]
        BY <3>2, <3>3
      <3> QED
        BY <3>1, <3>4 DEF Same, TagsInv, TagsRead
    <2> QED
      BY <2>1, <2>2
  <1>2. TagsResolve'
    <2> SUFFICES ASSUME NEW x \in Repo, NEW u \in Tag, tags'[x][u] # None
                 PROVE  <<x, tags'[x][u]>> \in manifests' \cup revoked'
      BY DEF TagsResolve
    <2>1. CASE x = r /\ u = t
      BY <2>1
    <2>2. CASE ~(x = r /\ u = t)
      <3>1. tags'[x][u] = tags[x][u]
        BY <2>2
      <3> QED
        BY <3>1 DEF TagsInv, TagsResolve
    <2> QED
      BY <2>1, <2>2
  <1> QED
    BY <1>1, <1>2 DEF TagsInv

\* A PUT writes it.
LEMMA RecordTags == ASSUME Typed, TagsInv, NEW h \in Proc, Record(h) PROVE TagsInv'
  <1> DEFINE r == req[h].repo
             m == req[h].dgst
             t == req[h].ref
             q == [req[h] EXCEPT !.pc = "link", !.todo = <<m>> \o RefsOf[m]]
             W == {<<"m", r, m>>} \cup {<<"t", r, u>> : u \in {t} \cap Tag}
  <1>1. manifests' = manifests \cup {<<r, m>>} /\ revoked' = revoked \ {<<r, m>>}
    BY DEF Record
  <1>2. /\ r \in Repo /\ m \in Manifest /\ t \in Ref /\ Moves(h, q)
        /\ \A g \in Proc \ {h} :
              req'[g].conflict <=> (req[g].conflict \/ req[g].keys \cap W # {})
        /\ \A x \in Repo, u \in Tag :
              tags'[x][u] = IF x = r /\ u = t THEN m ELSE tags[x][u]
    BY RecordTyped
  <1>3. q.pc = "link" /\ <<"m", r, m>> \in W
    BY DEF Typed, TypeOK, Request
  <1> HIDE DEF q, W, r, m, t
  <1> QED
    BY <1>1, <1>2, <1>3, WritesTag

\* An import does.
LEMMA ImportTags == ASSUME Typed, TagsInv, NEW h \in Proc, Import(h) PROVE TagsInv'
  <1> DEFINE r == req[h].repo
             m == req[h].dgst
             t == req[h].ref
             q == NewReq("link", r, None, m, Links(req[h]))
             W == {<<"m", r, m>>} \cup {<<"t", r, u>> : u \in {t} \cap Tag}
  <1>1. manifests' = manifests \cup {<<r, m>>} /\ revoked' = revoked \ {<<r, m>>}
    BY DEF Import
  <1>2. /\ r \in Repo /\ m \in Manifest /\ t \in Ref /\ Moves(h, q) /\ q.pc = "link"
        /\ \A g \in Proc \ {h} :
              req'[g].conflict <=> (req[g].conflict \/ req[g].keys \cap W # {})
        /\ \A x \in Repo, u \in Tag :
              tags'[x][u] = IF x = r /\ u = t THEN m ELSE tags[x][u]
    BY ImportTyped
  <1>3. <<"m", r, m>> \in W
    OBVIOUS
  <1> HIDE DEF q, W, r, m, t
  <1> QED
    BY <1>1, <1>2, <1>3, WritesTag

\* A manifest is deleted: a tag that led to it may stay.
LEMMA DeleteManifestTags ==
    ASSUME Typed, TagsInv, NEW h \in Proc, DeleteManifest(h) PROVE TagsInv'
  <1>1. PICK r \in Repo, ref \in Ref, d \in Manifest, q \in Request :
           /\ Moves(h, q) /\ q.pc = "forget"
           /\ manifests' = manifests \ {<<r, d>>}
           /\ revoked' = revoked \cup {<<r, d>>}
           /\ \A x \in Repo, u \in Tag :
                 tags'[x][u] = IF x = r /\ u = ref THEN None ELSE tags[x][u]
    BY DeleteManifestTyped
  <1>2. ASSUME NEW g \in Proc PROVE TagsRead(req'[g], tags')
    <2>1. CASE g = h
      BY <1>1, <2>1 DEF Moves, TagsRead
    <2>2. CASE g # h /\ req[g].pc = "purge"
      <3>1. req[g].repo \in Repo /\ TagsRead(req[g], tags) /\ Same(req'[g], req[g])
        BY <1>1, <2>2 DEF Typed, ReqOK, TagsInv, Moves
      <3>2. \A u \in Tag : tags'[req[g].repo][u] \in {None, tags[req[g].repo][u]}
        BY <1>1, <3>1
      <3> QED
        BY <3>1, <3>2 DEF Same, TagsRead
    <2>3. CASE g # h /\ req[g].pc # "purge"
      BY <1>1, <2>3 DEF Moves, Same, TagsRead
    <2> QED
      BY <2>1, <2>2, <2>3
  <1>3. TagsResolve'
    BY <1>1 DEF TagsInv, TagsResolve
  <1> QED
    BY <1>2, <1>3 DEF TagsInv

\* The keys of a repository go together.
LEMMA PurgeTags == ASSUME Typed, TagsInv, NEW h \in Proc, Purge(h) PROVE TagsInv'
  <1> DEFINE r == req[h].repo
             keys == req[h].keys
  <1>1. /\ r \in Repo /\ req[h].pc = "purge" /\ ~req[h].conflict
        /\ manifests' = {x \in manifests : <<"m", x[1], x[2]>> \notin keys}
        /\ UNCHANGED revoked
        /\ \A k \in keys : k[2] = r
        /\ TagsRead(req[h], tags)
    BY DEF Purge, history, Typed, ReqOK, TagsInv
  <1>2. /\ Moves(h, Idle)
        /\ \A x \in Repo, u \in Tag :
              tags'[x][u] = IF x = r /\ <<"t", x, u>> \in keys THEN None ELSE tags[x][u]
    BY PurgeTyped
  <1> HIDE DEF r, keys
  <1>3. ASSUME NEW g \in Proc PROVE TagsRead(req'[g], tags')
    <2>1. CASE g = h
      BY <1>2, <2>1, IdleOK DEF Moves, TagsRead
    <2>2. CASE g # h /\ req[g].pc = "purge"
      <3>1. req[g].repo \in Repo /\ TagsRead(req[g], tags) /\ Same(req'[g], req[g])
        BY <1>2, <2>2 DEF Typed, ReqOK, TagsInv, Moves
      <3>2. \A u \in Tag : tags'[req[g].repo][u] \in {None, tags[req[g].repo][u]}
        BY <1>2, <3>1
      <3> QED
        BY <3>1, <3>2 DEF Same, TagsRead
    <2>3. CASE g # h /\ req[g].pc # "purge"
      BY <1>2, <2>3 DEF Moves, Same, TagsRead
    <2> QED
      BY <2>1, <2>2, <2>3
  <1>4. TagsResolve'
    <2> SUFFICES ASSUME NEW x \in Repo, NEW u \in Tag, tags'[x][u] # None
                 PROVE  <<x, tags'[x][u]>> \in manifests' \cup revoked'
      BY DEF TagsResolve
    <2>1. tags'[x][u] = tags[x][u] /\ ~(x = r /\ <<"t", x, u>> \in keys)
      BY <1>2
    <2>2. <<x, tags[x][u]>> \in manifests \cup revoked
      BY <2>1 DEF TagsInv, TagsResolve
    <2>3. <<"m", x, tags[x][u]>> \notin keys
      <3> SUFFICES ASSUME <<"m", x, tags[x][u]>> \in keys PROVE FALSE
        OBVIOUS
      <3>1. x = r
        <4>1. <<"m", x, tags[x][u]>>[2] = r
          BY <1>1
        <4> QED
          BY <4>1
      <3> QED
        BY <1>1, <2>1, <3>1 DEF TagsRead, r, keys
    <2> QED
      BY <1>1, <2>1, <2>2, <2>3
  <1> QED
    BY <1>3, <1>4 DEF TagsInv

\* Any other call of a handler.
LEMMA HandlerTags ==
    ASSUME Typed, TagsInv, NEW h \in Proc, HandlerStep(h) PROVE TagsInv'
  <1> USE DEF db, history, cached
  <1>1. CASE Record(h) \/ Purge(h) \/ Import(h)
    BY <1>1, RecordTags, PurgeTags, ImportTags
  <1>2. CASE ~(Record(h) \/ Purge(h) \/ Import(h))
    <2>1. UNCHANGED <<tags, manifests, revoked>>
      BY <1>2 DEF HandlerStep, Check, StoreManifest, RecordConflicts, Link, Linked, Forget,
            ReadMeta, Fill, MountExists, Count, Drop, PurgeConflicts, Fetch, Proxy,
            ImportConflicts
    <2>2. req[h] \in Request
      BY DEF Typed, TypeOK
    <2>3. \E q : Moves(h, q) /\ q.pc # "purge"
      <3>1. CASE Check(h)
        <4>1. [req[h] EXCEPT !.pc = "store"].pc = "store"
              /\ [req[h] EXCEPT !.todo = Tail(@)].pc = "check"
          BY <2>2, <3>1 DEF Check, Request
        <4> QED
          BY <3>1, <4>1, CheckTyped, IdleOK
      <3>2. CASE StoreManifest(h)
        <4>1. [req[h] EXCEPT !.pc = "record"].pc = "record"
          BY <2>2 DEF Request
        <4> QED
          BY <3>2, <4>1, StoreManifestTyped, IdleOK
      <3>3. CASE RecordConflicts(h) \/ PurgeConflicts(h)
        BY <3>3, ConflictsTyped, IdleOK
      <3>4. CASE Link(h)
        <4>1. [req[h] EXCEPT !.todo = Tail(@)].pc = "link"
          BY <2>2, <3>4 DEF Link, Request
        <4> QED
          BY <3>4, <4>1, LinkTyped
      <3>5. CASE Linked(h)
        <4>1. [req[h] EXCEPT !.pc = "forget",
                             !.todo = <<req[h].ref, req[h].dgst>>].pc = "forget"
          BY <2>2 DEF Request
        <4> QED
          BY <3>5, <4>1, LinkedTyped, IdleOK
      <3>6. CASE Forget(h)
        <4>1. [req[h] EXCEPT !.todo = Tail(@)].pc = "forget"
          BY <2>2, <3>6 DEF Forget, Request
        <4> QED
          BY <3>6, <4>1, ForgetTyped, IdleOK
      <3>7. CASE ReadMeta(h)
        <4>1. [req[h] EXCEPT !.pc = "fill",
                             !.dgst = Resolve(req[h].repo, req[h].ref)].pc = "fill"
          BY <2>2 DEF Request
        <4> QED
          BY <3>7, <4>1, ReadMetaTyped, IdleOK
      <3>8. CASE Fill(h) \/ Drop(h)
        BY <3>8, FillTyped, DropTyped, IdleOK
      <3>9. CASE MountExists(h)
        <4>1. [req[h] EXCEPT !.pc = "link"].pc = "link"
          BY <2>2 DEF Request
        <4> QED
          BY <3>9, <4>1, MountExistsTyped, IdleOK
      <3>10. CASE Count(h)
        <4>1. [req[h] EXCEPT !.pc = "delete"].pc = "delete"
          BY <2>2 DEF Request
        <4> QED
          BY <3>10, <4>1, CountTyped, IdleOK
      <3>11. CASE Fetch(h)
        <4>1. [req[h] EXCEPT !.todo = Tail(@)].pc = "fetch"
          BY <2>2, <3>11 DEF Fetch, Request
        <4> QED
          BY <3>11, <4>1, FetchTyped, IdleOK
      <3>12. CASE Proxy(h) \/ ImportConflicts(h)
        BY <3>12, ProxyTyped, ImportConflictsTyped
      <3> QED
        BY <1>2, <3>1, <3>2, <3>3, <3>4, <3>5, <3>6, <3>7, <3>8, <3>9, <3>10, <3>11, <3>12
           DEF HandlerStep
    <2> QED
      BY <2>1, <2>3, TagsStep DEF TagsRead
  <1> QED
    BY <1>1, <1>2

\* A request begins.
LEMMA NewRequestTags ==
    ASSUME Typed, TagsInv, NEW h \in Proc, NewRequest(h) PROVE TagsInv'
  <1> USE DEF db, history, cached
  <1>1. CASE PutManifest(h)
    BY <1>1, PutManifestTyped, TagsStep DEF PutManifest, TagsRead
  <1>2. CASE GetManifest(h)
    BY <1>2, GetManifestTyped, TagsStep DEF GetManifest, TagsRead
  <1>3. CASE DeleteManifest(h)
    BY <1>3, DeleteManifestTags
  <1>4. CASE UploadBlob(h)
    <2>1. UNCHANGED <<tags, manifests, revoked>>
      BY <1>4 DEF UploadBlob
    <2> QED
      BY <1>4, <2>1, UploadBlobTyped, TagsStep DEF TagsRead
  <1>5. CASE MountBlob(h)
    BY <1>5, MountBlobTyped, TagsStep DEF MountBlob, TagsRead
  <1>6. CASE DeleteBlob(h)
    BY <1>6, DeleteBlobTyped, TagsStep DEF TagsRead
  <1>7. CASE DeleteRepository(h)
    <2>1. PICK q : /\ Moves(h, q)
                   /\ \A t \in Tag : tags[q.repo][t] # None => <<"t", q.repo, t>> \in q.keys
      BY <1>7, DeleteRepositoryTyped
    <2>2. UNCHANGED <<tags, manifests, revoked>>
      BY <1>7 DEF DeleteRepository
    <2> QED
      BY <2>1, <2>2, TagsStep DEF TagsRead
  <1>8. CASE ImportManifest(h) \/ ProxyManifest(h)
    <2>1. UNCHANGED <<tags, manifests, revoked>>
      BY <1>8 DEF ImportManifest, ProxyManifest
    <2>2. PICK q : Moves(h, q) /\ q.pc \in {"fetch", "proxy"}
      BY <1>8, ImportManifestTyped
    <2> QED
      BY <2>1, <2>2, TagsStep DEF TagsRead
  <1> QED
    BY <1>1, <1>2, <1>3, <1>4, <1>5, <1>6, <1>7, <1>8 DEF NewRequest

\* No interleaving of the transactions of PutManifest, DeleteManifest and
\* DeleteRepository leaves a tag whose manifest is gone without a DELETE of it.
THEOREM TagsLead == Spec => []TagsResolve
  <1>1. Init => TagsInv
    BY IdleOK DEF Init, TagsInv, TagsResolve, TagsRead
  <1>2. ASSUME Typed, TagsInv, [Next]_vars PROVE TagsInv'
    <2>1. CASE Crash
      BY <1>2, <2>1, IdleOK DEF Crash, TagsInv, TagsResolve, TagsRead, db
    <2>2. CASE UNCHANGED vars
      BY <1>2, <2>2 DEF vars, TagsInv, TagsResolve, db, history
    <2> QED
      BY <1>2, <2>1, <2>2, NewRequestTags, HandlerTags DEF Next
  <1>3. TagsInv => TagsResolve
    BY DEF TagsInv
  <1> QED
    BY <1>1, <1>2, <1>3, AlwaysTyped, PTL DEF Spec

-----------------------------------------------------------------------------
(* CacheFollowsTag *)

\* The PUT that moved a tag, on its way to the cache.Delete of that tag.
Invalidates(q, r, t) ==
    /\ q.repo = r /\ q.ref = t
    /\ q.pc = "link" \/ (q.pc = "forget" /\ Head(q.todo) = t)

CacheInv ==
    \A r \in Repo, t \in Tag :
        tags[r][t] # None /\ cache[r][t] \notin {None, tags[r][t]} =>
            \/ <<r, t>> \in late \cup bypassed
            \/ \E h \in Proc : Invalidates(req[h], r, t)

\* No tag moves, no entry is set, and h is not on its way to a cache.Delete of a tag.
LEMMA CacheStep ==
    ASSUME CacheInv, NEW h \in Proc, NEW q, Moves(h, q), UNCHANGED cached,
           \A r \in Repo, t \in Tag :
              /\ tags'[r][t] \in {None, tags[r][t]}
              /\ Invalidates(req[h], r, t) => Invalidates(q, r, t)
    PROVE  CacheInv'
  <1> SUFFICES ASSUME NEW r \in Repo, NEW t \in Tag, tags'[r][t] # None,
                      cache'[r][t] \notin {None, tags'[r][t]},
                      <<r, t>> \notin late' \cup bypassed'
               PROVE  \E g \in Proc : Invalidates(req'[g], r, t)
    BY DEF CacheInv
  <1>1. PICK g \in Proc : Invalidates(req[g], r, t)
    BY DEF CacheInv, cached
  <1>2. CASE g = h
    BY <1>1, <1>2 DEF Moves
  <1>3. CASE g # h
    BY <1>1, <1>3 DEF Moves, Same, Invalidates
  <1> QED
    BY <1>2, <1>3

\* A tag moves, and its PUT is on its way.
LEMMA RecordCache == ASSUME Typed, CacheInv, NEW h \in Proc, Record(h) PROVE CacheInv'
  <1> DEFINE m == req[h].dgst
             q == [req[h] EXCEPT !.pc = "link", !.todo = <<m>> \o RefsOf[m]]
  <1>1. UNCHANGED <<cache, late, bypassed>> /\ req[h] \in Request /\ req[h].pc = "record"
    BY DEF Record, cached, Typed, TypeOK
  <1>2. /\ Moves(h, q)
        /\ \A x \in Repo, u \in Tag :
              tags'[x][u] = IF x = req[h].repo /\ u = req[h].ref THEN m ELSE tags[x][u]
    BY RecordTyped
  <1>3. q.pc = "link" /\ q.repo = req[h].repo /\ q.ref = req[h].ref
    BY <1>1 DEF Request
  <1> HIDE DEF q, m
  <1> SUFFICES ASSUME NEW r \in Repo, NEW t \in Tag, tags'[r][t] # None,
                      cache'[r][t] \notin {None, tags'[r][t]},
                      <<r, t>> \notin late' \cup bypassed'
               PROVE  \E g \in Proc : Invalidates(req'[g], r, t)
    BY DEF CacheInv
  <1>4. CASE r = req[h].repo /\ t = req[h].ref
    <2>1. Invalidates(req'[h], r, t)
      BY <1>2, <1>3, <1>4 DEF Moves, Invalidates
    <2> QED
      BY <2>1
  <1>5. CASE ~(r = req[h].repo /\ t = req[h].ref)
    <2>1. tags'[r][t] = tags[r][t]
      BY <1>2, <1>5
    <2>2. PICK g \in Proc : Invalidates(req[g], r, t)
      BY <1>1, <2>1 DEF CacheInv
    <2>3. g # h
      BY <1>1, <2>2 DEF Invalidates
    <2>4. Invalidates(req'[g], r, t)
      BY <1>2, <2>2, <2>3 DEF Moves, Same, Invalidates
    <2> QED
      BY <2>4
  <1> QED
    BY <1>4, <1>5

\* An import moves a tag away from its entry, if it has another one.
LEMMA ImportCache == ASSUME Typed, CacheInv, NEW h \in Proc, Import(h) PROVE CacheInv'
  <1> DEFINE x == req[h].repo
             e == req[h].ref
             m == req[h].dgst
  <1>1. /\ UNCHANGED <<cache, late>> /\ req[h].pc \in {"fetch", "proxy"}
        /\ bypassed' = IF e \in Tag /\ cache[x][e] \notin {None, m}
                       THEN bypassed \cup {<<x, e>>} ELSE bypassed
    BY DEF Import
  <1>2. /\ \E q : Moves(h, q)
        /\ \A r \in Repo, u \in Tag :
              tags'[r][u] = IF r = x /\ u = e THEN m ELSE tags[r][u]
    BY ImportTyped
  <1> HIDE DEF x, e, m
  <1> SUFFICES ASSUME NEW r \in Repo, NEW t \in Tag, tags'[r][t] # None,
                      cache'[r][t] \notin {None, tags'[r][t]},
                      <<r, t>> \notin late' \cup bypassed'
               PROVE  \E g \in Proc : Invalidates(req'[g], r, t)
    BY DEF CacheInv
  <1>3. ~(r = x /\ t = e)
    BY <1>1, <1>2
  <1>4. tags'[r][t] = tags[r][t] /\ <<r, t>> \notin late \cup bypassed
    BY <1>1, <1>2, <1>3
  <1>5. PICK g \in Proc : Invalidates(req[g], r, t)
    BY <1>1, <1>4 DEF CacheInv
  <1>6. g # h
    BY <1>1, <1>5 DEF Invalidates
  <1>7. Invalidates(req'[g], r, t)
    BY <1>2, <1>5, <1>6 DEF Moves, Same, Invalidates
  <1> QED
    BY <1>7

\* The PUT has made its links: the tag comes first.
LEMMA LinkedCache == ASSUME Typed, CacheInv, NEW h \in Proc, Linked(h) PROVE CacheInv'
  <1> DEFINE todo == <<req[h].ref, req[h].dgst>>
             q == [req[h] EXCEPT !.pc = "forget", !.todo = todo]
  <1>1. UNCHANGED cached /\ UNCHANGED tags /\ req[h] \in Request
    BY DEF Linked, db, Typed, TypeOK
  <1>2. CASE req[h].ref = None /\ Moves(h, Idle)
    <2>1. \A r \in Repo, t \in Tag : ~Invalidates(req[h], r, t)
      BY <1>2, ConstantsAssumption DEF Invalidates
    <2> QED
      BY <1>1, <1>2, <2>1, CacheStep
  <1>3. CASE Moves(h, q)
    <2>1. Head(todo) = req[h].ref
      OBVIOUS
    <2> HIDE DEF todo
    <2>2. q.pc = "forget" /\ q.repo = req[h].repo /\ q.ref = req[h].ref /\ q.todo = todo
      BY <1>1 DEF Request
    <2> HIDE DEF q
    <2>3. \A r \in Repo, t \in Tag : Invalidates(req[h], r, t) => Invalidates(q, r, t)
      BY <2>1, <2>2 DEF Invalidates
    <2> QED
      BY <1>1, <1>3, <2>3, CacheStep
  <1> QED
    BY <1>2, <1>3, LinkedTyped

\* An entry is forgotten: it is no longer in the cache.
LEMMA ForgetCache == ASSUME Typed, CacheInv, NEW h \in Proc, Forget(h) PROVE CacheInv'
  <1> DEFINE x == req[h].repo
             e == Head(req[h].todo)
  <1>1. /\ UNCHANGED tags /\ late' = late \ {<<x, e>>} /\ req[h].pc = "forget"
        /\ bypassed' = bypassed \ {<<x, e>>}
    BY DEF Forget, db
  <1>2. /\ \A r \in Repo, u \in Ref :
              cache'[r][u] = IF r = x /\ u = e THEN None ELSE cache[r][u]
        /\ \E q : Moves(h, q)
    BY ForgetTyped
  <1> SUFFICES ASSUME NEW r \in Repo, NEW t \in Tag, tags'[r][t] # None,
                      cache'[r][t] \notin {None, tags'[r][t]},
                      <<r, t>> \notin late' \cup bypassed'
               PROVE  \E g \in Proc : Invalidates(req'[g], r, t)
    BY DEF CacheInv
  <1>3. t \in Ref
    BY DEF Ref
  <1>4. ~(r = x /\ t = e) /\ cache'[r][t] = cache[r][t]
    BY <1>2, <1>3
  <1>5. <<r, t>> \notin late \cup bypassed
    BY <1>1, <1>4
  <1>6. PICK g \in Proc : Invalidates(req[g], r, t)
    BY <1>1, <1>4, <1>5 DEF CacheInv
  <1>7. g # h
    BY <1>1, <1>4, <1>6 DEF Invalidates
  <1>8. Invalidates(req'[g], r, t)
    BY <1>2, <1>6, <1>7 DEF Moves, Same, Invalidates
  <1> QED
    BY <1>8

\* A GET sets an entry: it is the tag's, or it is late.
LEMMA FillCache == ASSUME Typed, CacheInv, NEW h \in Proc, Fill(h) PROVE CacheInv'
  <1> DEFINE x == req[h].repo
             e == req[h].ref
  <1>1. /\ UNCHANGED tags /\ req[h].pc = "fill"
        /\ late' = IF e \in Tag /\ Resolve(x, e) # req[h].dgst
                   THEN late \cup {<<x, e>>} ELSE late \ {<<x, e>>}
        /\ bypassed' = bypassed \ {<<x, e>>}
    BY DEF Fill, db
  <1>2. /\ \A r \in Repo, u \in Ref :
              \/ cache'[r][u] = None
              \/ cache'[r][u] = IF r = x /\ u = e THEN req[h].dgst ELSE cache[r][u]
        /\ Moves(h, Idle) /\ req[h].dgst \in Manifest
    BY FillTyped
  <1> SUFFICES ASSUME NEW r \in Repo, NEW t \in Tag, tags'[r][t] # None,
                      cache'[r][t] \notin {None, tags'[r][t]},
                      <<r, t>> \notin late' \cup bypassed'
               PROVE  \E g \in Proc : Invalidates(req'[g], r, t)
    BY DEF CacheInv
  <1>3. t \in Ref
    BY DEF Ref
  <1>4. ~(r = x /\ t = e)
    <2> SUFFICES ASSUME r = x, t = e PROVE FALSE
      OBVIOUS
    <2>1. cache'[r][t] = req[h].dgst
      BY <1>2, <1>3
    <2>2. Resolve(x, e) = req[h].dgst
      BY <1>1
    <2>3. req[h].dgst # None
      BY <1>2, ConstantsAssumption DEF Digest
    <2>4. tags[r][t] = req[h].dgst
      BY <2>2, <2>3 DEF Resolve
    <2> QED
      BY <1>1, <2>1, <2>4
  <1>5. cache'[r][t] = cache[r][t] /\ <<r, t>> \notin late \cup bypassed
    BY <1>1, <1>2, <1>3, <1>4
  <1>6. PICK g \in Proc : Invalidates(req[g], r, t)
    BY <1>1, <1>5 DEF CacheInv
  <1>7. g # h
    BY <1>1, <1>6 DEF Invalidates
  <1>8. Invalidates(req'[g], r, t)
    BY <1>2, <1>6, <1>7 DEF Moves, Same, Invalidates
  <1> QED
    BY <1>8

\* A request that was not on its way to a cache.Delete.
LEMMA CacheQuiet ==
    ASSUME CacheInv, NEW h \in Proc, \E q : Moves(h, q), UNCHANGED cached, UNCHANGED tags,
           req[h].pc \notin {"link", "forget"}
    PROVE  CacheInv'
  BY CacheStep DEF Invalidates

\* Any other call of a handler.
LEMMA HandlerCache ==
    ASSUME Typed, CacheInv, NEW h \in Proc, HandlerStep(h) PROVE CacheInv'
  <1>1. CASE Record(h) \/ Linked(h) \/ Forget(h) \/ Fill(h) \/ Import(h)
    BY <1>1, RecordCache, LinkedCache, ForgetCache, FillCache, ImportCache
  <1>2. CASE Check(h)
    <2>1. \E q : Moves(h, q)
      BY <1>2, CheckTyped
    <2> QED
      BY <1>2, <2>1, CacheQuiet DEF Check, db
  <1>3. CASE StoreManifest(h)
    <2>1. \E q : Moves(h, q)
      BY <1>3, StoreManifestTyped
    <2>2. req[h].pc = "store" /\ UNCHANGED cached /\ UNCHANGED tags
      BY <1>3 DEF StoreManifest, db, cached
    <2> QED
      BY <2>1, <2>2, CacheQuiet
  <1>4. CASE RecordConflicts(h) \/ PurgeConflicts(h)
    <2>1. req[h].pc \in {"record", "purge"} /\ UNCHANGED cached /\ UNCHANGED tags
      BY <1>4, ConflictsTyped DEF RecordConflicts, PurgeConflicts, db
    <2> QED
      BY <1>4, <2>1, ConflictsTyped, CacheQuiet
  <1>5. CASE Link(h)
    <2> DEFINE q == [req[h] EXCEPT !.todo = Tail(@)]
    <2>1. /\ req[h] \in Request /\ req[h].pc = "link" /\ UNCHANGED cached /\ UNCHANGED tags
      BY <1>5 DEF Link, cached, Typed, TypeOK
    <2>2. q.pc = "link" /\ q.repo = req[h].repo /\ q.ref = req[h].ref
      BY <2>1 DEF Request
    <2>3. Moves(h, q)
      BY <1>5, LinkTyped
    <2> HIDE DEF q
    <2>4. \A r \in Repo, t \in Tag : Invalidates(req[h], r, t) => Invalidates(q, r, t)
      BY <2>1, <2>2 DEF Invalidates
    <2> QED
      BY <2>1, <2>3, <2>4, CacheStep
  <1>6. CASE ReadMeta(h)
    <2>1. \E q : Moves(h, q)
      BY <1>6, ReadMetaTyped
    <2>2. req[h].pc = "read" /\ UNCHANGED cached /\ UNCHANGED tags
      BY <1>6 DEF ReadMeta, db
    <2> QED
      BY <2>1, <2>2, CacheQuiet
  <1>7. CASE MountExists(h) \/ Count(h)
    <2>1. \E q : Moves(h, q)
      BY <1>7, MountExistsTyped, CountTyped
    <2>2. req[h].pc \in {"mount", "count"} /\ UNCHANGED cached /\ UNCHANGED tags
      BY <1>7 DEF MountExists, Count, db
    <2> QED
      BY <2>1, <2>2, CacheQuiet
  <1>8. CASE Drop(h)
    <2>1. \E q : Moves(h, q)
      BY <1>8, DropTyped
    <2>2. req[h].pc = "delete" /\ UNCHANGED cached /\ UNCHANGED tags
      BY <1>8 DEF Drop, db, cached
    <2> QED
      BY <2>1, <2>2, CacheQuiet
  <1>9. CASE Purge(h)
    <2>1. /\ Moves(h, Idle)
          /\ \A x \in Repo, u \in Tag : tags'[x][u] \in {None, tags[x][u]}
      BY <1>9, PurgeTyped
    <2>2. req[h].pc = "purge" /\ UNCHANGED cached
      BY <1>9 DEF Purge
    <2>3. \A r \in Repo, t \in Tag : ~Invalidates(req[h], r, t)
      BY <2>2 DEF Invalidates
    <2> QED
      BY <2>1, <2>2, <2>3, CacheStep
  <1>10. CASE Fetch(h) \/ Proxy(h) \/ ImportConflicts(h)
    <2>1. \E q : Moves(h, q)
      BY <1>10, FetchTyped, ProxyTyped, ImportConflictsTyped
    <2>2. req[h].pc \in {"fetch", "proxy"} /\ UNCHANGED cached /\ UNCHANGED tags
      BY <1>10 DEF Fetch, Proxy, ImportConflicts, db, cached
    <2> QED
      BY <2>1, <2>2, CacheQuiet
  <1> QED
    BY <1>1, <1>2, <1>3, <1>4, <1>5, <1>6, <1>7, <1>8, <1>9, <1>10 DEF HandlerStep

\* A request begins.
LEMMA NewRequestCache ==
    ASSUME Typed, CacheInv, NEW h \in Proc, NewRequest(h) PROVE CacheInv'
  <1>1. CASE PutManifest(h)
    BY <1>1, PutManifestTyped, CacheQuiet DEF PutManifest, db
  <1>2. CASE GetManifest(h)
    BY <1>2, GetManifestTyped, CacheQuiet DEF GetManifest, db
  <1>3. CASE DeleteManifest(h)
    <2>1. PICK q : Moves(h, q) /\ req[h].pc = "idle"
      BY <1>3, DeleteManifestTyped
    <2>2. \A x \in Repo, u \in Tag : tags'[x][u] \in {None, tags[x][u]}
      BY <1>3, DeleteManifestTyped
    <2>3. UNCHANGED cached
      BY <1>3 DEF DeleteManifest, cached
    <2>4. \A r \in Repo, t \in Tag : ~Invalidates(req[h], r, t)
      BY <2>1 DEF Invalidates
    <2> QED
      BY <2>1, <2>2, <2>3, <2>4, CacheStep
  <1>4. CASE UploadBlob(h)
    <2>1. UNCHANGED cached /\ UNCHANGED tags
      BY <1>4 DEF UploadBlob, db, cached
    <2> QED
      BY <1>4, <2>1, UploadBlobTyped, CacheQuiet
  <1>5. CASE MountBlob(h)
    BY <1>5, MountBlobTyped, CacheQuiet DEF MountBlob, db
  <1>6. CASE DeleteBlob(h)
    <2>1. UNCHANGED cached /\ UNCHANGED tags
      BY <1>6, DeleteBlobTyped DEF cached
    <2> QED
      BY <1>6, <2>1, DeleteBlobTyped, CacheQuiet
  <1>7. CASE DeleteRepository(h)
    BY <1>7, DeleteRepositoryTyped, CacheQuiet DEF DeleteRepository, db
  <1>8. CASE ImportManifest(h) \/ ProxyManifest(h)
    BY <1>8, ImportManifestTyped, CacheQuiet DEF ImportManifest, ProxyManifest, db
  <1> QED
    BY <1>1, <1>2, <1>3, <1>4, <1>5, <1>6, <1>7, <1>8 DEF NewRequest

\* The cache serves what a tag names, unless the PUT that moved the tag is on its way
\* to its cache.Delete, a GET set the entry from metadata it had read before, or sync,
\* the cloner or the mirror moved the tag, which never touch Handler.cache.
THEOREM CacheCurrent == Spec => []CacheFollowsTag
  <1>1. Init => CacheInv
    BY DEF Init, CacheInv
  <1>2. ASSUME Typed, CacheInv, [Next]_vars PROVE CacheInv'
    <2>1. CASE Crash
      BY <2>1 DEF Crash, CacheInv, Ref
    <2>2. CASE UNCHANGED vars
      BY <1>2, <2>2 DEF vars, CacheInv, db, cached
    <2> QED
      BY <1>2, <2>1, <2>2, NewRequestCache, HandlerCache DEF Next
  <1>3. CacheInv => CacheFollowsTag
    BY DEF CacheInv, CacheFollowsTag, Invalidates
  <1> QED
    BY <1>1, <1>2, <1>3, AlwaysTyped, PTL DEF Spec
=============================================================================
