------------------------------ MODULE MeshProofs ------------------------------
(***************************************************************************)
(* TypeOK, RingAgreement, NearestOwn and FoundInView for every set of      *)
(* nodes and keys, every ring, replication factor and queue, and whatever  *)
(* memberlist reports.                                                     *)
(*                                                                         *)
(* Everything rests on one fact about hash.go: whatever Add and Remove     *)
(* were called, and in which order, the ring is RingOf the members.        *)
(* RingAgreement follows at once; NearestOwn is then a statement about     *)
(* RingOf alone, which is arithmetic on a circle; and FoundInView follows  *)
(* because the view a put was made in determines its primary for ever.     *)
(***************************************************************************)
EXTENDS Mesh, FiniteSetTheorems, WellFoundedInduction, TLAPS

-----------------------------------------------------------------------------
(* Add and Remove *)

Places(S) == UNION {Points[n] : n \in S}

\* A virtual node belongs to one node.
LEMMA Owner ==
    ASSUME NEW S \in SUBSET Node, NEW n \in S, NEW h \in Points[n]
    PROVE  (CHOOSE m \in S : h \in Points[m]) = n
  <1>1. \A m \in S : h \in Points[m] => m = n
    BY HashAssumption
  <1> QED
    BY <1>1

\* What is where on the ring of S.
LEMMA RingNodes ==
    ASSUME NEW S \in SUBSET Node
    PROVE  /\ RingOf(S).members = S /\ RingOf(S).ring = Places(S)
           /\ DOMAIN RingOf(S).nodes = Places(S)
           /\ RingOf(S).nodes \in [Places(S) -> S]
           /\ \A n \in S : \A h \in Points[n] : RingOf(S).nodes[h] = n
           /\ Places(S) \subseteq 0 .. RingSize - 1
  <1>1. /\ RingOf(S).members = S /\ RingOf(S).ring = Places(S)
        /\ RingOf(S).nodes = [h \in Places(S) |-> CHOOSE n \in S : h \in Points[n]]
    BY DEF RingOf, Places
  <1>2. ASSUME NEW n \in S, NEW h \in Points[n] PROVE RingOf(S).nodes[h] = n
    <2>1. h \in Places(S)
      BY DEF Places
    <2> QED
      BY <1>1, <2>1, Owner
  <1>3. ASSUME NEW h \in Places(S) PROVE RingOf(S).nodes[h] \in S
    <2>1. PICK n \in S : h \in Points[n]
      BY DEF Places
    <2> QED
      BY <1>2, <2>1
  <1>4. Places(S) \subseteq 0 .. RingSize - 1
    BY HashAssumption DEF Places
  <1> QED
    BY <1>1, <1>2, <1>3, <1>4

\* Two rings are the same if their places have the same nodes.
LEMMA SameRing ==
    ASSUME NEW S \in SUBSET Node, NEW f, f = [h \in Places(S) |-> f[h]],
           \A n \in S : \A h \in Points[n] : f[h] = n
    PROVE  RingOf(S) = [members |-> S, ring |-> Places(S), nodes |-> f]
  <1> DEFINE g == RingOf(S).nodes
  <1>1. g = [h \in Places(S) |-> g[h]] /\ \A n \in S : \A h \in Points[n] : g[h] = n
    BY RingNodes
  <1>2. RingOf(S) = [members |-> S, ring |-> Places(S), nodes |-> g]
    BY DEF RingOf, Places
  <1> HIDE DEF g
  <1>3. \A h \in Places(S) : f[h] = g[h]
    BY <1>1 DEF Places
  <1>4. f = g
    BY <1>1, <1>3
  <1> QED
    BY <1>2, <1>4

\* Add makes the ring of one member more.
LEMMA AddRing ==
    ASSUME NEW S \in SUBSET Node, NEW n \in Node
    PROVE  Add(RingOf(S), n) = RingOf(S \cup {n})
  <1> DEFINE c == RingOf(S)
             T == S \cup {n}
             f == [h \in Places(S) \cup Points[n] |-> IF h \in Points[n] THEN n ELSE c.nodes[h]]
  <1>1. /\ c.members = S /\ c.ring = Places(S) /\ DOMAIN c.nodes = Places(S)
        /\ \A m \in S : \A h \in Points[m] : c.nodes[h] = m
    BY RingNodes
  <1>2. CASE n \in S
    <2>1. T = S
      BY <1>2
    <2>2. Add(c, n) = c
      BY <1>1, <1>2 DEF Add
    <2> QED
      BY <2>1, <2>2
  <1>3. CASE n \notin S
    <2>1. Places(T) = Places(S) \cup Points[n]
      BY DEF Places
    <2>2. Add(c, n) = [members |-> T, ring |-> Places(T), nodes |-> f]
      BY <1>1, <1>3, <2>1 DEF Add
    <2>3. \A m \in T : \A h \in Points[m] : f[h] = m
      <3> SUFFICES ASSUME NEW m \in T, NEW h \in Points[m] PROVE f[h] = m
        OBVIOUS
      <3>1. h \in Places(S) \cup Points[n]
        BY <2>1 DEF Places
      <3>2. CASE m = n
        BY <3>1, <3>2
      <3>3. CASE m # n
        <4>1. h \notin Points[n]
          BY <3>3, HashAssumption
        <4> QED
          BY <1>1, <3>1, <3>3, <4>1
      <3> QED
        BY <3>2, <3>3
    <2>4. f = [h \in Places(T) |-> f[h]]
      BY <2>1
    <2> HIDE DEF f
    <2>5. RingOf(T) = [members |-> T, ring |-> Places(T), nodes |-> f]
      BY <2>3, <2>4, SameRing
    <2> QED
      BY <2>2, <2>5
  <1> QED
    BY <1>2, <1>3

\* Remove makes the ring of one member less.
LEMMA RemoveRing ==
    ASSUME NEW S \in SUBSET Node, NEW n \in Node
    PROVE  Remove(RingOf(S), n) = RingOf(S \ {n})
  <1> DEFINE c == RingOf(S)
             T == S \ {n}
             f == [h \in Places(S) \ Points[n] |-> c.nodes[h]]
  <1>1. /\ c.members = S /\ c.ring = Places(S) /\ DOMAIN c.nodes = Places(S)
        /\ \A m \in S : \A h \in Points[m] : c.nodes[h] = m
    BY RingNodes
  <1>2. CASE n \notin S
    <2>1. T = S
      BY <1>2
    <2>2. Remove(c, n) = c
      BY <1>1, <1>2 DEF Remove
    <2> QED
      BY <2>1, <2>2
  <1>3. CASE n \in S
    <2>1. Places(T) = Places(S) \ Points[n]
      <3>1. ASSUME NEW h \in Places(T) PROVE h \in Places(S) \ Points[n]
        <4>1. PICK m \in T : h \in Points[m]
          BY DEF Places
        <4>2. h \notin Points[n]
          BY <4>1, HashAssumption
        <4> QED
          BY <4>1, <4>2 DEF Places
      <3>2. ASSUME NEW h \in Places(S) \ Points[n] PROVE h \in Places(T)
        BY DEF Places
      <3> QED
        BY <3>1, <3>2
    <2>2. Remove(c, n) = [members |-> T, ring |-> Places(T), nodes |-> f]
      <3>1. Restrict(c.nodes, DOMAIN c.nodes \ Points[n]) = f
        BY <1>1 DEF Restrict
      <3>2. DOMAIN f = Places(T)
        BY <2>1
      <3> HIDE DEF f
      <3>3. {h \in c.ring : h \in DOMAIN f} = Places(T)
        BY <1>1, <2>1, <3>2
      <3> QED
        BY <1>1, <1>3, <3>1, <3>3 DEF Remove
    <2>3. \A m \in T : \A h \in Points[m] : f[h] = m
      <3> SUFFICES ASSUME NEW m \in T, NEW h \in Points[m] PROVE f[h] = m
        OBVIOUS
      <3>1. h \in Places(S) \ Points[n]
        BY <2>1 DEF Places
      <3> QED
        BY <1>1, <3>1
    <2>4. f = [h \in Places(T) |-> f[h]]
      BY <2>1
    <2> HIDE DEF f
    <2>5. RingOf(T) = [members |-> T, ring |-> Places(T), nodes |-> f]
      BY <2>3, <2>4, SameRing
    <2> QED
      BY <2>2, <2>5
  <1> QED
    BY <1>2, <1>3

\* A node begins alone.
LEMMA NewClusterRing == ASSUME NEW n \in Node PROVE NewCluster(n) = RingOf({n})
  <1> DEFINE f == NewConsistentHash.nodes
  <1>1. f = [h \in Places({}) |-> f[h]] /\ Places({}) = {}
    BY DEF NewConsistentHash, Places
  <1>2. NewConsistentHash = [members |-> {}, ring |-> {}, nodes |-> f]
    BY DEF NewConsistentHash
  <1> HIDE DEF f
  <1>3. NewConsistentHash = RingOf({})
    BY <1>1, <1>2, SameRing
  <1>4. {} \cup {n} = {n}
    OBVIOUS
  <1> QED
    BY <1>3, <1>4, AddRing DEF NewCluster

-----------------------------------------------------------------------------
(* Get and GetN: a turn around the ring *)

\* Every non-empty set of natural numbers has a least element, which Min is.
LEMMA MinOK ==
    ASSUME NEW T \in SUBSET Nat, T # {}
    PROVE  Min(T) \in T /\ \A y \in T : Min(T) <= y
  <1> DEFINE R == OpToRel(<, Nat)
  <1>1. IsWellFoundedOn(R, Nat)
    BY NatLessThanWellFounded
  <1>2. \A x, y \in Nat : (<<y, x>> \in R) <=> y < x
    BY DEF OpToRel
  <1> HIDE DEF R
  <1>3. PICK x \in T : \A y \in T : ~ (<<y, x>> \in R)
    BY <1>1, WFMin
  <1>4. \A y \in T : ~ (y < x)
    BY <1>2, <1>3, Zenon
  <1>5. x \in Nat
    OBVIOUS
  <1>6. \A y \in T : x <= y
    BY <1>4, <1>5
  <1> QED
    BY <1>6 DEF Min

\* The way from y up to x.
Way(x, y) == (x - y) % RingSize

\* It is a difference, or a turn more.
LEMMA WayIs ==
    ASSUME NEW x \in 0 .. RingSize - 1, NEW y \in 0 .. RingSize - 1
    PROVE  /\ Way(x, y) = IF x >= y THEN x - y ELSE x - y + RingSize
           /\ Way(x, y) \in Nat
  <1>1. Way(x, y) = IF x >= y THEN x - y ELSE x - y + RingSize
    BY HashAssumption DEF Way
  <1> QED
    BY <1>1, HashAssumption

\* The way from a to x is the rest of the way from y, if a comes first.
LEMMA WayRest ==
    ASSUME NEW x \in 0 .. RingSize - 1, NEW y \in 0 .. RingSize - 1,
           NEW a \in 0 .. RingSize - 1, Way(a, y) <= Way(x, y)
    PROVE  Way(x, a) = Way(x, y) - Way(a, y)
  <1>1. /\ Way(a, y) = IF a >= y THEN a - y ELSE a - y + RingSize
        /\ Way(x, y) = IF x >= y THEN x - y ELSE x - y + RingSize
        /\ Way(x, a) = IF x >= a THEN x - a ELSE x - a + RingSize
    BY WayIs
  <1> QED
    BY <1>1, HashAssumption

\* The search finds the first place from the key on.
LEMMA SearchFirst ==
    ASSUME NEW S \in SUBSET Node, S # {}, NEW h \in 0 .. RingSize - 1
    PROVE  /\ Places(S) # {} /\ Search(RingOf(S), h) \in Places(S)
           /\ \A p \in Places(S) : Way(Search(RingOf(S), h), h) <= Way(p, h)
  <1> DEFINE R == Places(S)
             from == {p \in R : p >= h}
  <1>1. R # {} /\ R \subseteq 0 .. RingSize - 1 /\ R \in SUBSET Nat /\ from \in SUBSET Nat
    <2>1. R # {}
      BY HashAssumption DEF Places
    <2>2. R \subseteq 0 .. RingSize - 1
      BY RingNodes
    <2> QED
      BY <2>1, <2>2
  <1>2. Search(RingOf(S), h) = IF from = {} THEN Min(R) ELSE Min(from)
    BY RingNodes DEF Search
  <1> HIDE DEF R
  <1>3. CASE from = {}
    <2>1. Min(R) \in R /\ \A y \in R : Min(R) <= y
      BY <1>1, MinOK
    <2>2. Min(R) \in 0 .. RingSize - 1 /\ Min(R) < h
      <3>1. Min(R) \in 0 .. RingSize - 1
        BY <1>1, <2>1
      <3>2. ~(Min(R) >= h)
        BY <1>3, <2>1
      <3> QED
        BY <3>1, <3>2
    <2>3. ASSUME NEW p \in R PROVE Way(Min(R), h) <= Way(p, h)
      <3>1. p \in 0 .. RingSize - 1 /\ p < h /\ Min(R) <= p
        BY <1>1, <1>3, <2>1
      <3>2. Way(Min(R), h) = Min(R) - h + RingSize /\ Way(p, h) = p - h + RingSize
        BY <2>2, <3>1, WayIs
      <3> QED
        BY <2>2, <3>1, <3>2, HashAssumption
    <2> QED
      BY <1>1, <1>2, <1>3, <2>1, <2>3 DEF R
  <1>4. CASE from # {}
    <2> DEFINE a == Min(from)
    <2>1. a \in from /\ \A y \in from : a <= y
      BY <1>1, <1>4, MinOK
    <2> HIDE DEF a
    <2>2. a \in R /\ a \in 0 .. RingSize - 1 /\ a >= h
      BY <1>1, <2>1
    <2>3. ASSUME NEW p \in R PROVE Way(a, h) <= Way(p, h)
      <3>1. p \in 0 .. RingSize - 1 /\ (p >= h => a <= p)
        BY <1>1, <2>1
      <3>2. /\ Way(a, h) = a - h
            /\ Way(p, h) = IF p >= h THEN p - h ELSE p - h + RingSize
        BY <2>2, <3>1, WayIs
      <3> QED
        BY <2>2, <3>1, <3>2, HashAssumption
    <2> QED
      BY <1>1, <1>2, <1>4, <2>2, <2>3 DEF R, a
  <1> QED
    BY <1>3, <1>4

\* The distance of a node is that of its nearest place.
LEMMA DistanceIs ==
    ASSUME NEW m \in Node, NEW k \in Key
    PROVE  /\ Distance(m, k) \in Nat
           /\ \E p \in Points[m] : Distance(m, k) = Way(p, HashOf[k])
           /\ \A p \in Points[m] : Distance(m, k) <= Way(p, HashOf[k])
  <1> DEFINE D == {Way(p, HashOf[k]) : p \in Points[m]}
  <1>1. /\ HashOf[k] \in 0 .. RingSize - 1 /\ Points[m] # {}
        /\ Points[m] \subseteq 0 .. RingSize - 1
    BY HashAssumption
  <1>2. \A p \in Points[m] : Way(p, HashOf[k]) \in Nat
    BY <1>1, WayIs
  <1>3. D \in SUBSET Nat /\ D # {}
    BY <1>1, <1>2
  <1>4. Distance(m, k) = Min(D)
    BY DEF Distance, Way
  <1>5. Min(D) \in D /\ \A y \in D : Min(D) <= y
    BY <1>3, MinOK
  <1> QED
    BY <1>3, <1>4, <1>5

\* The members nearer to the key than some way.
Nearer(S, k, w) == {o \in S : Distance(o, k) < w}

\* What the loop of GetN has met before it comes to p.
LEMMA BeforeIs ==
    ASSUME NEW S \in SUBSET Node, S # {}, NEW k \in Key, NEW p \in Places(S)
    PROVE  Before(RingOf(S), k, p) = Nearer(S, k, Way(p, HashOf[k]))
  <1> DEFINE c == RingOf(S)
             h == HashOf[k]
             start == Search(c, h)
  <1>1. /\ c.ring = Places(S) /\ \A n \in S : \A q \in Points[n] : c.nodes[q] = n
        /\ Places(S) \subseteq 0 .. RingSize - 1 /\ h \in 0 .. RingSize - 1
    BY RingNodes, HashAssumption
  <1>2. start \in Places(S) /\ \A q \in Places(S) : Way(start, h) <= Way(q, h)
    BY <1>1, SearchFirst
  <1>3. Before(c, k, p) = {c.nodes[q] : q \in {o \in Places(S) : Way(o, start) < Way(p, start)}}
    BY <1>1 DEF Before, Way
  <1> HIDE DEF start, h
  <1>4. ASSUME NEW q \in Places(S)
        PROVE  Way(q, start) < Way(p, start) <=> Way(q, h) < Way(p, h)
    <2>1. Way(q, start) = Way(q, h) - Way(start, h)
      BY <1>1, <1>2, WayRest
    <2>2. Way(p, start) = Way(p, h) - Way(start, h)
      BY <1>1, <1>2, WayRest
    <2>3. {Way(q, h), Way(p, h), Way(start, h)} \subseteq Nat
      BY <1>1, <1>2, WayIs
    <2> QED
      BY <2>1, <2>2, <2>3
  <1>5. Before(c, k, p) = {c.nodes[q] : q \in {o \in Places(S) : Way(o, h) < Way(p, h)}}
    BY <1>3, <1>4
  <1>6. Way(p, h) \in Nat
    BY <1>1, WayIs
  <1>7. ASSUME NEW q \in Places(S), Way(q, h) < Way(p, h)
        PROVE  c.nodes[q] \in Nearer(S, k, Way(p, h))
    <2>1. PICK n \in S : q \in Points[n]
      BY DEF Places
    <2>2. Distance(n, k) \in Nat /\ Distance(n, k) <= Way(q, h) /\ Way(q, h) \in Nat
      BY <1>1, <2>1, DistanceIs, WayIs DEF h
    <2> QED
      BY <1>1, <1>6, <1>7, <2>1, <2>2 DEF Nearer
  <1>8. ASSUME NEW n \in Nearer(S, k, Way(p, h))
        PROVE  \E q \in Places(S) : Way(q, h) < Way(p, h) /\ c.nodes[q] = n
    <2>1. n \in S /\ Distance(n, k) < Way(p, h)
      BY DEF Nearer
    <2>2. PICK q \in Points[n] : Distance(n, k) = Way(q, h)
      BY <2>1, DistanceIs DEF h
    <2> QED
      BY <1>1, <2>1, <2>2 DEF Places
  <1> HIDE DEF c
  <1>9. Before(c, k, p) = Nearer(S, k, Way(p, h))
    BY <1>5, <1>7, <1>8
  <1> QED
    BY <1>9 DEF c, h

\* Members are finitely many, because the places are.
LEMMA MembersFinite == ASSUME NEW S \in SUBSET Node PROVE IsFiniteSet(S)
  <1>1. RingSize - 1 \in Int /\ Places(S) \in SUBSET (0 .. RingSize - 1)
    BY RingNodes, HashAssumption
  <1>2. IsFiniteSet(0 .. RingSize - 1)
    BY <1>1, FS_Interval
  <1>3. IsFiniteSet(Places(S))
    BY <1>1, <1>2, FS_Subset
  <1>4. ASSUME NEW n \in S PROVE \E h \in Places(S) : RingOf(S).nodes[h] = n
    <2>1. PICK h \in Points[n] : TRUE
      BY HashAssumption
    <2>2. RingOf(S).nodes[h] = n
      BY RingNodes
    <2>3. h \in Places(S)
      BY DEF Places
    <2> QED
      BY <2>2, <2>3
  <1>5. RingOf(S).nodes \in Surjection(Places(S), S)
    BY <1>4, RingNodes DEF Surjection
  <1> QED
    BY <1>3, <1>5, FS_Surjection

\* GetN finds the members to which fewer than n others are nearer.
LEMMA ReplicasAre ==
    ASSUME NEW S \in SUBSET Node, NEW k \in Key, NEW n \in Nat
    PROVE  GetN(RingOf(S), k, n) =
               {m \in S : Cardinality(Nearer(S, k, Distance(m, k))) < n}
  <1> DEFINE c == RingOf(S)
             h == HashOf[k]
             card(w) == Cardinality(Nearer(S, k, w))
  <1>1. /\ c.ring = Places(S) /\ \A m \in S : \A q \in Points[m] : c.nodes[q] = m
        /\ Places(S) \subseteq 0 .. RingSize - 1 /\ h \in 0 .. RingSize - 1
    BY RingNodes, HashAssumption
  <1>2. \A p \in Places(S) : S # {}
    BY DEF Places
  <1>3. \A p \in Places(S) : Before(c, k, p) = Nearer(S, k, Way(p, h))
    BY <1>2, BeforeIs
  <1>4. GetN(c, k, n) = {c.nodes[p] : p \in {q \in Places(S) : card(Way(q, h)) < n}}
    BY <1>1, <1>3 DEF GetN
  <1>5. ASSUME NEW w \in Nat, NEW v \in Nat, w <= v
        PROVE  card(w) \in Nat /\ card(v) \in Nat /\ card(w) <= card(v)
    <2>1. Nearer(S, k, w) \in SUBSET Nearer(S, k, v)
      BY <1>5, DistanceIs DEF Nearer
    <2>2. Nearer(S, k, v) \in SUBSET S
      BY DEF Nearer
    <2>3. IsFiniteSet(Nearer(S, k, v))
      BY <2>2, MembersFinite, FS_Subset
    <2>4. IsFiniteSet(Nearer(S, k, w)) /\ card(w) <= card(v)
      BY <2>1, <2>3, FS_Subset
    <2> QED
      BY <2>3, <2>4, FS_CardinalityType
  <1> HIDE DEF card
  <1>6. ASSUME NEW p \in Places(S), card(Way(p, h)) < n
        PROVE  c.nodes[p] \in {m \in S : card(Distance(m, k)) < n}
    <2>1. PICK m \in S : p \in Points[m]
      BY DEF Places
    <2>2. Distance(m, k) \in Nat /\ Distance(m, k) <= Way(p, h) /\ Way(p, h) \in Nat
      BY <1>1, <2>1, DistanceIs, WayIs
    <2>3. card(Distance(m, k)) < n
      BY <1>5, <1>6, <2>2
    <2> QED
      BY <1>1, <2>1, <2>3
  <1>7. ASSUME NEW m \in S, card(Distance(m, k)) < n
        PROVE  \E p \in Places(S) : card(Way(p, h)) < n /\ c.nodes[p] = m
    <2>1. PICK p \in Points[m] : Distance(m, k) = Way(p, h)
      BY DistanceIs
    <2> QED
      BY <1>1, <1>7, <2>1 DEF Places
  <1> HIDE DEF c, h
  <1>8. GetN(c, k, n) = {m \in S : card(Distance(m, k)) < n}
    BY <1>4, <1>6, <1>7
  <1> QED
    BY <1>8 DEF c, card

\* Get finds a member to which none is nearer.
LEMMA PrimaryIs ==
    ASSUME NEW S \in SUBSET Node, NEW k \in Key
    PROVE  /\ S = {} => Get(RingOf(S), k, None) = None
           /\ S # {} => /\ Get(RingOf(S), k, None) \in S
                        /\ Nearer(S, k, Distance(Get(RingOf(S), k, None), k)) = {}
  <1> DEFINE c == RingOf(S)
             h == HashOf[k]
             start == Search(c, h)
  <1>1. /\ c.ring = Places(S) /\ \A m \in S : \A q \in Points[m] : c.nodes[q] = m
        /\ Places(S) \subseteq 0 .. RingSize - 1 /\ h \in 0 .. RingSize - 1
    BY RingNodes, HashAssumption
  <1>2. CASE S = {}
    <2>1. c.ring = {}
      BY <1>1, <1>2 DEF Places
    <2> QED
      BY <1>2, <2>1 DEF Get
  <1>3. CASE S # {}
    <2>1. /\ Places(S) # {} /\ start \in Places(S)
          /\ \A q \in Places(S) : Way(start, h) <= Way(q, h)
      BY <1>1, <1>3, SearchFirst
    <2>2. Get(c, k, None) = c.nodes[start]
      BY <1>1, <2>1 DEF Get
    <2>3. PICK m \in S : start \in Points[m]
      BY <2>1 DEF Places
    <2> HIDE DEF start
    <2>4. Get(c, k, None) = m
      BY <1>1, <2>2, <2>3
    <2>5. Distance(m, k) <= Way(start, h) /\ Distance(m, k) \in Nat /\ Way(start, h) \in Nat
      BY <1>1, <2>1, <2>3, DistanceIs, WayIs
    <2>6. ASSUME NEW o \in S PROVE ~(Distance(o, k) < Distance(m, k))
      <3>1. PICK q \in Points[o] : Distance(o, k) = Way(q, h)
        BY DistanceIs
      <3>2. q \in Places(S)
        BY DEF Places
      <3>3. Way(start, h) <= Way(q, h) /\ Way(q, h) \in Nat
        BY <1>1, <2>1, <3>2, WayIs
      <3> QED
        BY <2>5, <3>1, <3>3
    <2> QED
      BY <1>3, <2>4, <2>6 DEF Nearer
  <1> QED
    BY <1>2, <1>3

-----------------------------------------------------------------------------
(* The inductive invariant *)

Rings == {RingOf(S) : S \in SUBSET Node}

\* The primary of a put is that of the view it was chosen in.
PutOK(q) ==
    /\ q.pc # "idle" => q.dgst \in Key
    /\ q.pc = "send" => /\ q.primary \in Node
                        /\ q.primary = Get(RingOf(q.view), q.dgst, None)

\* Who has sources to pull from knows what to pull.
SyncOK(s) == s.sources # {} => s.dgst \in Key

ClusterOK == hash \in [Node -> Rings] /\ up \subseteq Node /\ closed \subseteq up
StoreOK == blobs \in [Node -> SUBSET Key] /\ links \in [Node -> SUBSET Key]
PutsOK == put \in [Node -> Put] /\ \A n \in Node : PutOK(put[n])
QueuesOK ==
    /\ queue \in [Node -> Seq(Job)]
    /\ \A n \in Node : Len(queue[n]) <= QueueSize
    /\ worker \in [Node -> Job \cup {NoJob}]
SyncsOK == sync \in [Node -> Sync] /\ \A n \in Node : SyncOK(sync[n])
BoundsOK ==
    /\ acked \in [Key -> (SUBSET Node) \cup {None}]
    /\ calls \in 0 .. MaxCalls
    /\ trouble \in 0 .. MaxTrouble

\* What was acknowledged in a view is with the primary of that view.
PrimaryHas ==
    \A k \in Key : acked[k] \notin {None, {}} =>
        k \in blobs[Get(RingOf(acked[k]), k, None)]

Typed == ClusterOK /\ StoreOK /\ PutsOK /\ QueuesOK /\ SyncsOK /\ BoundsOK

Grows == \A n \in Node : blobs[n] \subseteq blobs'[n]

\* The ring of a node is that of its members.
LEMMA RingIs ==
    ASSUME ClusterOK, NEW n \in Node
    PROVE  hash[n].members \in SUBSET Node /\ hash[n] = RingOf(hash[n].members)
  <1>1. PICK S \in SUBSET Node : hash[n] = RingOf(S)
    BY DEF ClusterOK, Rings
  <1> QED
    BY <1>1, RingNodes

\* The primary and the replicas a node computes are members it knows.
LEMMA ChosenOK ==
    ASSUME ClusterOK, NEW n \in Node, NEW k \in Key
    PROVE  /\ GetPrimaryNode(n, k) = Get(RingOf(hash[n].members), k, None)
           /\ GetPrimaryNode(n, k) \in Node \cup {None}
           /\ GetReplicaNodes(n, k) \subseteq Node
  <1>1. hash[n].members \in SUBSET Node /\ hash[n] = RingOf(hash[n].members)
    BY RingIs
  <1>2. GetPrimaryNode(n, k) \in Node \cup {None}
    BY <1>1, PrimaryIs DEF GetPrimaryNode
  <1>3. GetReplicaNodes(n, k) \subseteq hash[n].members
    BY <1>1, ReplicasAre, ConstantsAssumption DEF GetReplicaNodes
  <1> QED
    BY <1>1, <1>2, <1>3 DEF GetPrimaryNode

\* A view that acknowledged a blob has a primary, which keeps the blob.
LEMMA PrimaryKeeps ==
    ASSUME Typed, PrimaryHas, Grows, UNCHANGED acked PROVE PrimaryHas'
  <1> SUFFICES ASSUME NEW k \in Key, acked[k] \notin {None, {}}
               PROVE  k \in blobs'[Get(RingOf(acked[k]), k, None)]
    BY DEF PrimaryHas
  <1>1. acked[k] \in SUBSET Node
    BY DEF Typed, BoundsOK
  <1>2. Get(RingOf(acked[k]), k, None) \in Node
    BY <1>1, PrimaryIs
  <1> QED
    BY <1>2 DEF PrimaryHas, Grows

\* A view acknowledges a blob that its primary has.
LEMMA PrimaryAcks ==
    ASSUME Typed, PrimaryHas, Grows, NEW k \in Key, NEW view \in SUBSET Node, Acks(k, view),
           view # {} => k \in blobs'[Get(RingOf(view), k, None)]
    PROVE  PrimaryHas' /\ acked' \in [Key -> (SUBSET Node) \cup {None}]
  <1>1. acked \in [Key -> (SUBSET Node) \cup {None}]
    BY DEF Typed, BoundsOK
  <1>2. acked' = [acked EXCEPT ![k] = view]
    BY DEF Acks
  <1>3. ASSUME NEW j \in Key, acked'[j] \notin {None, {}}
        PROVE  j \in blobs'[Get(RingOf(acked'[j]), j, None)]
    <2>1. CASE j = k
      BY <1>1, <1>2, <1>3, <2>1
    <2>2. CASE j # k
      <3>1. acked'[j] = acked[j] /\ acked[j] \in SUBSET Node
        BY <1>1, <1>2, <1>3, <2>2
      <3>2. Get(RingOf(acked[j]), j, None) \in Node
        BY <1>3, <3>1, PrimaryIs
      <3> QED
        BY <1>3, <3>1, <3>2 DEF PrimaryHas, Grows
    <2> QED
      BY <2>1, <2>2
  <1> QED
    BY <1>1, <1>2, <1>3 DEF PrimaryHas

\* A blob is stored somewhere.
LEMMA StoresOK ==
    ASSUME Typed, NEW m \in Node, NEW k \in Key, blobs' = [blobs EXCEPT ![m] = @ \cup {k}],
           UNCHANGED links
    PROVE  StoreOK' /\ Grows /\ k \in blobs'[m]
  BY DEF Typed, StoreOK, Grows

\* Nothing is stored.
LEMMA StoresNothing == ASSUME Typed, UNCHANGED blobs PROVE Grows
  BY DEF Grows

\* The bounds count on.
LEMMA CountsOn ==
    ASSUME Typed, UNCHANGED acked, Called \/ UNCHANGED calls, Trouble \/ UNCHANGED trouble
    PROVE  BoundsOK'
  BY ConstantsAssumption DEF Typed, BoundsOK, Called, Trouble

\* The parts that an action leaves alone.
LEMMA Untouched ==
    ASSUME Typed
    PROVE  /\ UNCHANGED cluster => ClusterOK'
           /\ UNCHANGED <<blobs, links>> => StoreOK'
           /\ UNCHANGED put => PutsOK'
           /\ UNCHANGED <<queue, worker>> => QueuesOK'
           /\ UNCHANGED sync => SyncsOK'
           /\ UNCHANGED <<acked, bounds>> => BoundsOK'
  BY DEF Typed, cluster, bounds, ClusterOK, StoreOK, PutsOK, QueuesOK, SyncsOK, BoundsOK

IInv == Typed /\ PrimaryHas

-----------------------------------------------------------------------------
(* Membership *)

\* A join or a leave makes the ring of other members; a restart begins alone.
LEMMA NotifyIInv ==
    ASSUME IInv, NEW n \in Node, NEW m \in Node,
           NotifyJoin(n, m) \/ NotifyLeave(n, m) \/ Restart(n)
    PROVE  IInv'
  <1>1. /\ Typed /\ PrimaryHas
        /\ Trouble \/ UNCHANGED trouble
        /\ UNCHANGED <<blobs, links, put, queue, worker, sync, acked, calls>>
    BY DEF IInv, NotifyJoin, NotifyLeave, Restart, bounds
  <1>2. PICK c : /\ hash' = [hash EXCEPT ![n] = c]
                 /\ c \in {Add(hash[n], m), Remove(hash[n], m), NewCluster(n)}
    BY DEF NotifyJoin, NotifyLeave, Restart
  <1>3. c \in Rings
    <2> DEFINE S == hash[n].members
    <2>1. S \in SUBSET Node /\ hash[n] = RingOf(S)
      BY <1>1, RingIs DEF Typed
    <2> HIDE DEF S
    <2>2. /\ Add(hash[n], m) = RingOf(S \cup {m}) /\ Remove(hash[n], m) = RingOf(S \ {m})
          /\ NewCluster(n) = RingOf({n})
      BY <2>1, AddRing, RemoveRing, NewClusterRing
    <2> QED
      BY <1>2, <2>1, <2>2 DEF Rings
  <1>4. ClusterOK'
    <2>1. up' \subseteq Node /\ closed' \subseteq up'
      BY <1>1 DEF Typed, ClusterOK, NotifyJoin, NotifyLeave, Restart
    <2> QED
      BY <1>1, <1>2, <1>3, <2>1 DEF Typed, ClusterOK
  <1>5. BoundsOK'
    BY <1>1, CountsOn
  <1>6. PrimaryHas'
    BY <1>1, StoresNothing, PrimaryKeeps
  <1> QED
    BY <1>1, <1>4, <1>5, <1>6, Untouched DEF IInv, Typed

\* A node that dies keeps its blobs, and its ring until it starts again.
LEMMA LosesIInv ==
    ASSUME IInv, NEW n \in Node, Loses(n), Called \/ UNCHANGED calls
    PROVE  IInv'
  <1>1. Typed /\ PrimaryHas /\ UNCHANGED <<hash, blobs, links, acked>> /\ Trouble
    BY DEF IInv, Loses
  <1>2. ClusterOK'
    BY <1>1 DEF Loses, Typed, ClusterOK
  <1>3. PutsOK'
    <2>1. NoPut \in Put /\ PutOK(NoPut)
      BY DEF NoPut, Put, PutOK
    <2> QED
      BY <1>1, <2>1 DEF Loses, Typed, PutsOK
  <1>4. QueuesOK'
    <2>1. <<>> \in Seq(Job) /\ Len(<<>>) <= QueueSize
      BY ConstantsAssumption
    <2> QED
      BY <1>1, <2>1 DEF Loses, Typed, QueuesOK
  <1>5. SyncsOK'
    <2>1. NoSync \in Sync /\ SyncOK(NoSync)
      BY DEF NoSync, Sync, SyncOK
    <2> QED
      BY <1>1, <2>1 DEF Loses, Typed, SyncsOK
  <1>6. BoundsOK'
    BY <1>1, CountsOn
  <1>7. PrimaryHas'
    BY <1>1, StoresNothing, PrimaryKeeps
  <1> QED
    BY <1>1, <1>2, <1>3, <1>4, <1>5, <1>6, <1>7, Untouched DEF IInv, Typed

-----------------------------------------------------------------------------
(* Routing *)

\* A put ends.
LEMMA EndsOK == ASSUME Typed, NEW n \in Node, Ends(n) PROVE PutsOK'
  <1>1. NoPut \in Put /\ PutOK(NoPut)
    BY DEF NoPut, Put, PutOK
  <1> QED
    BY <1>1 DEF Ends, Typed, PutsOK

\* A put goes on as q.
LEMMA PutGoesOn ==
    ASSUME Typed, NEW n \in Node, NEW q \in Put, PutOK(q), put' = [put EXCEPT ![n] = q]
    PROVE  PutsOK'
  BY DEF Typed, PutsOK

\* The local primary stores the blob; any other node will ask the ring again.
LEMMA PutBlobIInv ==
    ASSUME IInv, NEW n \in Node, NEW k \in Key, PutBlob(n, k) PROVE IInv'
  <1>1. /\ Typed /\ PrimaryHas /\ Called /\ UNCHANGED trouble
        /\ UNCHANGED cluster /\ UNCHANGED links /\ UNCHANGED <<queue, worker>>
        /\ UNCHANGED sync
    BY DEF IInv, PutBlob
  <1>2. ClusterOK' /\ QueuesOK' /\ SyncsOK'
    BY <1>1, Untouched
  <1>3. CASE IsLocalPrimary(n, k) /\ Stores(n, k) /\ Acks(k, hash[n].members) /\ UNCHANGED put
    <2>1. StoreOK' /\ Grows /\ k \in blobs'[n]
      BY <1>1, <1>3, StoresOK DEF Stores
    <2>2. hash[n].members \in SUBSET Node /\ Get(RingOf(hash[n].members), k, None) = n
      BY <1>1, <1>3, RingIs, ChosenOK DEF Typed, IsLocalPrimary
    <2>3. PrimaryHas' /\ acked' \in [Key -> (SUBSET Node) \cup {None}]
      BY <1>1, <1>3, <2>1, <2>2, PrimaryAcks
    <2>4. BoundsOK'
      BY <1>1, <2>3, ConstantsAssumption DEF Typed, BoundsOK, Called
    <2> QED
      BY <1>1, <1>2, <1>3, <2>1, <2>3, <2>4, Untouched DEF IInv, Typed
  <1>4. CASE /\ put' = [put EXCEPT ![n] = [NoPut EXCEPT !.pc = "primary", !.dgst = k]]
             /\ UNCHANGED <<blobs, acked>>
    <2> DEFINE q == [NoPut EXCEPT !.pc = "primary", !.dgst = k]
    <2>1. q \in Put /\ PutOK(q)
      BY DEF NoPut, Put, PutOK
    <2> HIDE DEF q
    <2>2. PutsOK'
      BY <1>1, <1>4, <2>1, PutGoesOn DEF q
    <2>3. BoundsOK' /\ PrimaryHas' /\ StoreOK'
      BY <1>1, <1>4, CountsOn, StoresNothing, PrimaryKeeps, Untouched
    <2> QED
      BY <1>2, <2>2, <2>3 DEF IInv, Typed
  <1> QED
    BY <1>3, <1>4 DEF PutBlob

\* A node stores the blob itself, and no view promises it.
LEMMA KeepsLocally ==
    ASSUME IInv, NEW n \in Node, NEW k \in Key, Stores(n, k), Acks(k, {}), Ends(n),
           UNCHANGED cluster, UNCHANGED links, UNCHANGED <<queue, worker>>, UNCHANGED sync,
           UNCHANGED bounds
    PROVE  IInv'
  <1>1. Typed /\ PrimaryHas
    BY DEF IInv
  <1>2. StoreOK' /\ Grows
    BY <1>1, StoresOK DEF Stores
  <1>3. PrimaryHas' /\ acked' \in [Key -> (SUBSET Node) \cup {None}]
    BY <1>1, <1>2, PrimaryAcks
  <1>4. BoundsOK'
    BY <1>1, <1>3 DEF Typed, BoundsOK, bounds
  <1> QED
    BY <1>1, <1>2, <1>3, <1>4, EndsOK, Untouched DEF IInv, Typed

\* The primary is chosen, with the view it was chosen in.
LEMMA PutBlob_PrimaryIInv ==
    ASSUME IInv, NEW n \in Node, PutBlob_Primary(n) PROVE IInv'
  <1> DEFINE k == put[n].dgst
             p == GetPrimaryNode(n, k)
  <1>1. /\ Typed /\ PrimaryHas /\ UNCHANGED cluster /\ UNCHANGED links
        /\ UNCHANGED <<queue, worker>> /\ UNCHANGED sync /\ UNCHANGED bounds
        /\ put[n].pc = "primary"
    BY DEF IInv, PutBlob_Primary
  <1>2. put[n] \in Put /\ k \in Key
    BY <1>1 DEF Typed, PutsOK, PutOK
  <1>3. CASE p = None
    BY <1>1, <1>2, <1>3, KeepsLocally DEF PutBlob_Primary
  <1>4. CASE p # None
    <2>1. /\ put' = [put EXCEPT ![n].pc = "send", ![n].primary = p,
                                ![n].view = hash[n].members]
          /\ UNCHANGED <<blobs, acked>>
      BY <1>4 DEF PutBlob_Primary
    <2>2. /\ p \in Node /\ p = Get(RingOf(hash[n].members), k, None)
          /\ hash[n].members \in SUBSET Node
      BY <1>1, <1>2, <1>4, ChosenOK, RingIs DEF Typed
    <2> HIDE DEF k, p
    <2> DEFINE q == [put[n] EXCEPT !.pc = "send", !.primary = p, !.view = hash[n].members]
    <2>3. put' = [put EXCEPT ![n] = q]
      BY <1>1, <2>1 DEF Typed, PutsOK
    <2>4. /\ q \in Put /\ q.pc = "send" /\ q.primary = p /\ q.view = hash[n].members
          /\ q.dgst = k
      BY <1>2, <2>2 DEF Put, k
    <2> HIDE DEF q
    <2>5. PutOK(q)
      BY <1>2, <2>2, <2>4 DEF PutOK
    <2>6. PutsOK'
      BY <1>1, <2>3, <2>4, <2>5, PutGoesOn
    <2>7. PrimaryHas' /\ StoreOK' /\ BoundsOK'
      BY <1>1, <2>1, StoresNothing, PrimaryKeeps, Untouched
    <2> QED
      BY <1>1, <2>6, <2>7, Untouched DEF IInv, Typed
  <1> QED
    BY <1>3, <1>4

\* The primary is gone from the list.
LEMMA PutBlob_FallbackIInv ==
    ASSUME IInv, NEW n \in Node, PutBlob_Fallback(n) PROVE IInv'
  <1>1. put[n].dgst \in Key
    BY DEF IInv, Typed, PutsOK, PutOK, PutBlob_Fallback
  <1> QED
    BY <1>1, KeepsLocally DEF PutBlob_Fallback

\* A request to store a blob on m, however it ends.
LEMMA RequestOK ==
    ASSUME Typed, NEW m \in Node, NEW k \in Key, UNCHANGED links,
           Delivered(m, k) \/ AnswerLost(m, k) \/ NotDelivered(m)
    PROVE  /\ StoreOK' /\ Grows
           /\ Trouble \/ UNCHANGED trouble
           /\ Delivered(m, k) => k \in blobs'[m]
  <1>1. CASE Delivered(m, k) \/ AnswerLost(m, k)
    BY <1>1, StoresOK DEF Delivered, AnswerLost
  <1>2. CASE NotDelivered(m)
    <2>1. UNCHANGED blobs /\ (Trouble \/ UNCHANGED trouble)
      BY <1>2 DEF NotDelivered
    <2>2. StoreOK' /\ Grows
      BY <2>1, StoresNothing, Untouched
    <2>3. Delivered(m, k) => k \in blobs'[m]
      BY StoresOK DEF Delivered
    <2> QED
      BY <2>1, <2>2, <2>3
  <1> QED
    BY <1>1, <1>2

\* The primary of the view stores the blob before the sender hears of success.
LEMMA PutBlob_SendIInv ==
    ASSUME IInv, NEW n \in Node, PutBlob_Send(n) PROVE IInv'
  <1> DEFINE p == put[n].primary
             k == put[n].dgst
             view == put[n].view
  <1>1. /\ Typed /\ PrimaryHas /\ UNCHANGED cluster /\ UNCHANGED links
        /\ UNCHANGED <<queue, worker>> /\ UNCHANGED sync /\ UNCHANGED calls
        /\ put[n].pc = "send" /\ Ends(n)
    BY DEF IInv, PutBlob_Send
  <1>2. /\ p \in Node /\ k \in Key /\ view \in SUBSET Node /\ p = Get(RingOf(view), k, None)
    BY <1>1 DEF Typed, PutsOK, PutOK, Put
  <1>3. \/ Delivered(p, k) /\ Acks(k, view)
        \/ (AnswerLost(p, k) \/ NotDelivered(p)) /\ UNCHANGED acked
    BY DEF PutBlob_Send
  <1> HIDE DEF p, k, view
  <1>4. /\ StoreOK' /\ Grows
        /\ Trouble \/ UNCHANGED trouble
        /\ Delivered(p, k) => k \in blobs'[p]
    BY <1>1, <1>2, <1>3, RequestOK
  <1>5. PrimaryHas' /\ acked' \in [Key -> (SUBSET Node) \cup {None}]
    <2>1. CASE Delivered(p, k) /\ Acks(k, view)
      BY <1>1, <1>2, <1>4, <2>1, PrimaryAcks
    <2>2. CASE UNCHANGED acked
      BY <1>1, <1>4, <2>2, PrimaryKeeps DEF Typed, BoundsOK
    <2> QED
      BY <1>3, <2>1, <2>2
  <1>6. BoundsOK'
    BY <1>1, <1>4, <1>5, ConstantsAssumption DEF Typed, BoundsOK, Trouble
  <1> QED
    BY <1>1, <1>4, <1>5, <1>6, EndsOK, Untouched DEF IInv, Typed

\* A manifest is pushed.
LEMMA LinkBlobIInv ==
    ASSUME IInv, NEW n \in Node, NEW k \in Key, LinkBlobToRepo(n, k) PROVE IInv'
  <1>1. /\ Typed /\ PrimaryHas /\ UNCHANGED cluster /\ UNCHANGED blobs /\ UNCHANGED put
        /\ UNCHANGED <<queue, worker>> /\ UNCHANGED sync /\ UNCHANGED acked /\ Called
        /\ UNCHANGED trouble /\ links' = [links EXCEPT ![n] = @ \cup {k}]
    BY DEF IInv, LinkBlobToRepo
  <1>2. StoreOK'
    BY <1>1 DEF Typed, StoreOK
  <1>3. BoundsOK' /\ PrimaryHas'
    BY <1>1, CountsOn, StoresNothing, PrimaryKeeps
  <1> QED
    BY <1>1, <1>2, <1>3, Untouched DEF IInv, Typed

-----------------------------------------------------------------------------
(* Replication *)

\* The queue takes the job, drops it, or the node dies of a closed channel.
LEMMA ReplicateIInv ==
    ASSUME IInv, NEW n \in Node, NEW k \in Key, Replicate(n, k) PROVE IInv'
  <1> DEFINE targets == GetReplicaNodes(n, k) \ {n}
             job == [dgst |-> k, targets |-> targets]
  <1>1. Typed /\ PrimaryHas /\ Called
    BY DEF IInv, Replicate
  <1>2. CASE /\ Len(queue[n]) < QueueSize
             /\ queue' = [queue EXCEPT ![n] = Append(@, job)]
             /\ UNCHANGED <<cluster, blobs, links, put, worker, sync, acked, trouble>>
    <2>1. targets \subseteq Node
      BY <1>1, ChosenOK DEF Typed
    <2> HIDE DEF targets
    <2>2. job \in Job
      BY <2>1 DEF Job
    <2> HIDE DEF job
    <2>3. queue[n] \in Seq(Job)
      BY <1>1 DEF Typed, QueuesOK
    <2>4. /\ Append(queue[n], job) \in Seq(Job)
          /\ Len(Append(queue[n], job)) = Len(queue[n]) + 1 /\ Len(queue[n]) \in Nat
      BY <2>2, <2>3
    <2>5. Len(Append(queue[n], job)) <= QueueSize
      BY <1>2, <2>4, ConstantsAssumption
    <2>6. QueuesOK'
      <3> DEFINE s == Append(queue[n], job)
      <3>1. queue' = [queue EXCEPT ![n] = s] /\ s \in Seq(Job) /\ Len(s) <= QueueSize
        BY <1>2, <2>4, <2>5
      <3> HIDE DEF s
      <3> QED
        BY <1>1, <1>2, <3>1 DEF Typed, QueuesOK
    <2>7. BoundsOK' /\ PrimaryHas'
      BY <1>1, <1>2, CountsOn, StoresNothing, PrimaryKeeps
    <2>8. ClusterOK' /\ StoreOK' /\ PutsOK' /\ SyncsOK'
      BY <1>1, <1>2, Untouched
    <2> QED
      BY <2>6, <2>7, <2>8 DEF IInv, Typed
  <1>3. CASE Loses(n)
    BY <1>1, <1>3, LosesIInv
  <1> QED
    BY <1>2, <1>3 DEF Replicate

\* The worker takes the first job.
LEMMA Worker_TakeIInv == ASSUME IInv, NEW n \in Node, Worker_Take(n) PROVE IInv'
  <1>1. /\ Typed /\ PrimaryHas /\ UNCHANGED cluster /\ UNCHANGED <<blobs, links>>
        /\ UNCHANGED put /\ UNCHANGED sync /\ UNCHANGED <<acked, bounds>>
    BY DEF IInv, Worker_Take
  <1> DEFINE s == Tail(queue[n])
             job == Head(queue[n])
  <1>2. /\ queue[n] \in Seq(Job) /\ queue[n] # <<>> /\ Len(queue[n]) <= QueueSize
        /\ queue' = [queue EXCEPT ![n] = s] /\ worker' = [worker EXCEPT ![n] = job]
    BY <1>1 DEF Worker_Take, Typed, QueuesOK
  <1>3. /\ s \in Seq(Job) /\ job \in Job /\ Len(queue[n]) \in Nat
        /\ Len(s) = Len(queue[n]) - 1
    BY <1>2
  <1>4. Len(s) <= QueueSize
    BY <1>2, <1>3, ConstantsAssumption
  <1> HIDE DEF s, job
  <1>5. QueuesOK'
    BY <1>1, <1>2, <1>3, <1>4 DEF Typed, QueuesOK
  <1>6. PrimaryHas'
    BY <1>1, StoresNothing, PrimaryKeeps
  <1> QED
    BY <1>1, <1>5, <1>6, Untouched DEF IInv, Typed

\* A target of the job gets the blob, or not.
LEMMA ProcessJobIInv ==
    ASSUME IInv, NEW n \in Node, NEW m \in Node, ProcessJob(n, m) PROVE IInv'
  <1> DEFINE w == worker[n]
             v == IF w.targets = {m} THEN NoJob ELSE [w EXCEPT !.targets = @ \ {m}]
  <1>1. /\ Typed /\ PrimaryHas /\ UNCHANGED cluster /\ UNCHANGED links /\ UNCHANGED put
        /\ UNCHANGED queue /\ UNCHANGED sync /\ UNCHANGED acked /\ UNCHANGED calls
        /\ m \in w.targets
    BY DEF IInv, ProcessJob
  <1>2. worker' = [worker EXCEPT ![n] = v] /\ w \in Job
    <2>1. worker' = [worker EXCEPT ![n] = v]
      BY DEF ProcessJob, Worker_Next
    <2>2. w \in Job \cup {NoJob}
      BY <1>1 DEF Typed, QueuesOK
    <2>3. w # NoJob
      BY <1>1 DEF NoJob
    <2> QED
      BY <2>1, <2>2, <2>3
  <1>3. v \in Job \cup {NoJob} /\ w.dgst \in Key
    BY <1>2 DEF Job
  <1>4. QueuesOK'
    <2> HIDE DEF v, w
    <2> QED
      BY <1>1, <1>2, <1>3 DEF Typed, QueuesOK
  <1>5. /\ StoreOK' /\ Grows
        /\ Trouble \/ UNCHANGED trouble
    <2>1. CASE UNCHANGED <<blobs, trouble>>
      BY <1>1, <2>1, StoresNothing, Untouched
    <2>2. CASE Delivered(m, w.dgst) \/ NotDelivered(m)
      BY <1>1, <1>3, <2>2, RequestOK
    <2> QED
      BY <2>1, <2>2 DEF ProcessJob
  <1>6. BoundsOK' /\ PrimaryHas'
    BY <1>1, <1>5, CountsOn, PrimaryKeeps
  <1> QED
    BY <1>1, <1>4, <1>5, <1>6, Untouched DEF IInv, Typed

\* The replicator and the anti-entropy of a node stop.
LEMMA StopIInv == ASSUME IInv, NEW n \in Node, Stop(n) PROVE IInv'
  <1>1. /\ Typed /\ PrimaryHas /\ UNCHANGED <<hash, up>> /\ UNCHANGED <<blobs, links>>
        /\ UNCHANGED put /\ UNCHANGED acked /\ Called /\ UNCHANGED trouble
    BY DEF IInv, Stop
  <1>2. ClusterOK'
    BY <1>1 DEF Stop, Typed, ClusterOK
  <1>3. QueuesOK'
    <2>1. <<>> \in Seq(Job) /\ Len(<<>>) <= QueueSize
      BY ConstantsAssumption
    <2> QED
      BY <1>1, <2>1 DEF Stop, Typed, QueuesOK
  <1>4. SyncsOK'
    <2>1. NoSync \in Sync /\ SyncOK(NoSync)
      BY DEF NoSync, Sync, SyncOK
    <2> QED
      BY <1>1, <2>1 DEF Stop, Typed, SyncsOK
  <1>5. BoundsOK' /\ PrimaryHas'
    BY <1>1, CountsOn, StoresNothing, PrimaryKeeps
  <1> QED
    BY <1>1, <1>2, <1>3, <1>4, <1>5, Untouched DEF IInv, Typed

-----------------------------------------------------------------------------
(* Anti-entropy *)

\* A pass goes on as s.
LEMMA SyncGoesOn ==
    ASSUME Typed, NEW n \in Node, NEW s \in Sync, SyncOK(s), sync' = [sync EXCEPT ![n] = s]
    PROVE  SyncsOK'
  BY DEF Typed, SyncsOK

\* A pass begins.
LEMMA AntiEntropyIInv == ASSUME IInv, NEW n \in Node, AntiEntropy(n) PROVE IInv'
  <1>1. /\ Typed /\ PrimaryHas /\ UNCHANGED cluster /\ UNCHANGED <<blobs, links>>
        /\ UNCHANGED put /\ UNCHANGED <<queue, worker>> /\ UNCHANGED <<acked, bounds>>
    BY DEF IInv, AntiEntropy
  <1> DEFINE s == [sync[n] EXCEPT !.todo = links[n]]
  <1>2. sync' = [sync EXCEPT ![n] = s]
    BY <1>1 DEF AntiEntropy, Typed, SyncsOK
  <1>3. s \in Sync /\ SyncOK(s)
    BY <1>1 DEF Typed, SyncsOK, StoreOK, Sync, SyncOK
  <1> HIDE DEF s
  <1>4. SyncsOK'
    BY <1>1, <1>2, <1>3, SyncGoesOn
  <1>5. PrimaryHas'
    BY <1>1, StoresNothing, PrimaryKeeps
  <1> QED
    BY <1>1, <1>4, <1>5, Untouched DEF IInv, Typed

\* A digest is looked at.
LEMMA AntiEntropy_LookIInv ==
    ASSUME IInv, NEW n \in Node, NEW k \in Key, AntiEntropy_Look(n, k) PROVE IInv'
  <1> DEFINE replicas == GetReplicaNodes(n, k)
             missing == n \in replicas /\ k \notin blobs[n] /\ replicas # {n}
             s == [todo    |-> sync[n].todo \ {k},
                   dgst    |-> IF missing THEN k ELSE None,
                   sources |-> IF missing THEN replicas \ {n} ELSE {}]
  <1>1. /\ Typed /\ PrimaryHas /\ UNCHANGED cluster /\ UNCHANGED <<blobs, links>>
        /\ UNCHANGED put /\ UNCHANGED <<queue, worker>> /\ UNCHANGED <<acked, bounds>>
    BY DEF IInv, AntiEntropy_Look
  <1>2. sync' = [sync EXCEPT ![n] = s]
    BY DEF AntiEntropy_Look
  <1>3. s \in Sync /\ SyncOK(s)
    <2>1. replicas \subseteq Node /\ sync[n].todo \subseteq Key
      BY <1>1, ChosenOK DEF Typed, SyncsOK, Sync
    <2> HIDE DEF replicas
    <2> QED
      BY <2>1 DEF Sync, SyncOK
  <1> HIDE DEF s
  <1>4. SyncsOK'
    BY <1>1, <1>2, <1>3, SyncGoesOn
  <1>5. PrimaryHas'
    BY <1>1, StoresNothing, PrimaryKeeps
  <1> QED
    BY <1>1, <1>4, <1>5, Untouched DEF IInv, Typed

\* A source sends the blob, or the next one is asked.
LEMMA PullFromNodeIInv ==
    ASSUME IInv, NEW n \in Node, NEW m \in Node, PullFromNode(n, m) PROVE IInv'
  <1> DEFINE k == sync[n].dgst
             done == [sync EXCEPT ![n].dgst = None, ![n].sources = {}]
  <1>1. /\ Typed /\ PrimaryHas /\ UNCHANGED cluster /\ UNCHANGED links /\ UNCHANGED put
        /\ UNCHANGED <<queue, worker>> /\ UNCHANGED acked /\ UNCHANGED calls
        /\ m \in sync[n].sources
    BY DEF IInv, PullFromNode
  <1>2. k \in Key /\ sync[n] \in Sync /\ sync \in [Node -> Sync]
    BY <1>1 DEF Typed, SyncsOK, SyncOK
  <1>3. SyncsOK'
    <2> DEFINE s == [sync[n] EXCEPT !.dgst = None, !.sources = {}]
               t == [sync[n] EXCEPT !.sources = @ \ {m}]
    <2>1. s \in Sync /\ SyncOK(s) /\ t \in Sync /\ SyncOK(t)
      BY <1>2 DEF Sync, SyncOK
    <2>2. done = [sync EXCEPT ![n] = s]
      BY <1>2
    <2>3. [sync EXCEPT ![n].sources = @ \ {m}] = [sync EXCEPT ![n] = t]
      BY <1>2
    <2>4. sync' \in {done, [sync EXCEPT ![n].sources = @ \ {m}]}
      BY DEF PullFromNode
    <2> HIDE DEF s, t, done
    <2> QED
      BY <1>1, <2>1, <2>2, <2>3, <2>4, SyncGoesOn
  <1>4. /\ StoreOK' /\ Grows
        /\ Trouble \/ UNCHANGED trouble
    <2>1. CASE Stores(n, k) /\ UNCHANGED trouble
      BY <1>1, <1>2, <2>1, StoresOK DEF Stores
    <2>2. CASE UNCHANGED <<blobs, trouble>>
      BY <1>1, <2>2, StoresNothing, Untouched
    <2>3. CASE NotDelivered(m)
      BY <1>1, <1>2, <2>3, RequestOK
    <2> QED
      BY <2>1, <2>2, <2>3 DEF PullFromNode
  <1>5. BoundsOK' /\ PrimaryHas'
    BY <1>1, <1>4, CountsOn, PrimaryKeeps
  <1> QED
    BY <1>1, <1>3, <1>4, <1>5, Untouched DEF IInv, Typed

-----------------------------------------------------------------------------
(* The theorems *)

\* The mesh begins.
LEMMA InitIInv == Init => IInv
  <1> SUFFICES ASSUME Init PROVE IInv
    OBVIOUS
  <1>1. ClusterOK
    <2>1. ASSUME NEW n \in Node PROVE hash[n] \in Rings
      BY NewClusterRing, ConstantsAssumption DEF Init, Rings
    <2>2. hash = [n \in Node |-> hash[n]]
      BY DEF Init
    <2> QED
      BY <2>1, <2>2 DEF Init, ClusterOK
  <1>2. PutsOK
    BY DEF Init, PutsOK, PutOK, Put, NoPut
  <1>3. QueuesOK
    <2>1. <<>> \in Seq(Job) /\ Len(<<>>) <= QueueSize
      BY ConstantsAssumption
    <2> QED
      BY <2>1 DEF Init, QueuesOK
  <1>4. SyncsOK
    BY DEF Init, SyncsOK, SyncOK, Sync, NoSync
  <1>5. StoreOK /\ BoundsOK /\ PrimaryHas
    BY ConstantsAssumption DEF Init, StoreOK, BoundsOK, PrimaryHas
  <1> QED
    BY <1>1, <1>2, <1>3, <1>4, <1>5 DEF IInv, Typed

\* Every step keeps the invariant.
LEMMA StepIInv == ASSUME IInv, [Next]_vars PROVE IInv'
  <1>1. ASSUME NEW n \in Node, Membership(n) PROVE IInv'
    BY <1>1, NotifyIInv, LosesIInv DEF Membership, Crash
  <1>2. ASSUME NEW n \in Node, Routing(n) PROVE IInv'
    BY <1>2, PutBlobIInv, LinkBlobIInv, PutBlob_PrimaryIInv, PutBlob_FallbackIInv,
       PutBlob_SendIInv DEF Routing
  <1>3. ASSUME NEW n \in Node, Replication(n) PROVE IInv'
    BY <1>3, ReplicateIInv, Worker_TakeIInv, ProcessJobIInv, StopIInv DEF Replication
  <1>4. ASSUME NEW n \in Node, Pulling(n) PROVE IInv'
    BY <1>4, AntiEntropyIInv, AntiEntropy_LookIInv, PullFromNodeIInv DEF Pulling
  <1>5. CASE UNCHANGED vars
    <2>1. Typed'
      BY <1>5, Untouched DEF IInv, Typed, vars
    <2>2. PrimaryHas'
      BY <1>5, StoresNothing, PrimaryKeeps DEF IInv, vars
    <2> QED
      BY <2>1, <2>2 DEF IInv
  <1> QED
    BY <1>1, <1>2, <1>3, <1>4, <1>5 DEF Next

\* The invariant holds always.
LEMMA Always == Spec => []IInv
  BY InitIInv, StepIInv, PTL DEF Spec

\* Rings, stores, puts, queues and passes keep their types and the queue its capacity,
\* whatever memberlist reports and however requests end.
THEOREM TypeCorrect == Spec => []TypeOK
  <1>1. ASSUME IInv PROVE TypeOK
    <2>1. ASSUME NEW n \in Node PROVE ConsistentHash(hash[n])
      <3> DEFINE S == hash[n].members
      <3>1. S \in SUBSET Node /\ hash[n] = RingOf(S)
        BY <1>1, RingIs DEF IInv, Typed
      <3> HIDE DEF S
      <3>2. /\ hash[n].members = S /\ hash[n].ring = Places(S)
            /\ hash[n].nodes \in [Places(S) -> S] /\ Places(S) \subseteq 0 .. RingSize - 1
        BY <3>1, RingNodes
      <3> QED
        BY <3>1, <3>2 DEF ConsistentHash
    <2> QED
      BY <1>1, <2>1 DEF IInv, Typed, ClusterOK, StoreOK, PutsOK, QueuesOK, SyncsOK,
            BoundsOK, TypeOK
  <1> QED
    BY <1>1, Always, PTL

\* Nodes with the same members have the same ring, in whatever order gossip.go told each
\* of them of joins and leaves: Add and Remove of hash.go depend on no history.
THEOREM RingsAgree == Spec => []RingAgreement
  <1>1. ASSUME IInv PROVE RingAgreement
    BY <1>1, RingIs DEF IInv, Typed, RingAgreement
  <1> QED
    BY <1>1, Always, PTL

\* GetPrimaryNode and GetReplicaNodes compute the members nearest to the key, clockwise,
\* for every ring that Add and Remove can make and every key.
THEOREM NearestChosen == Spec => []NearestOwn
  <1>1. ASSUME IInv PROVE NearestOwn
    <2> SUFFICES ASSUME NEW n \in Node, NEW k \in Key
                 PROVE  LET members == hash[n].members
                            nearer(m) == {o \in members : Distance(o, k) < Distance(m, k)}
                        IN  /\ GetReplicaNodes(n, k) =
                                  {m \in members : Cardinality(nearer(m)) < ReplicationFactor}
                            /\ members # {} => nearer(GetPrimaryNode(n, k)) = {}
      BY DEF NearestOwn
    <2> DEFINE S == hash[n].members
    <2>1. S \in SUBSET Node /\ hash[n] = RingOf(S)
      BY <1>1, RingIs DEF IInv, Typed
    <2> HIDE DEF S
    <2>2. GetReplicaNodes(n, k) =
              {m \in S : Cardinality(Nearer(S, k, Distance(m, k))) < ReplicationFactor}
      BY <2>1, ReplicasAre, ConstantsAssumption DEF GetReplicaNodes
    <2>3. S # {} => Nearer(S, k, Distance(GetPrimaryNode(n, k), k)) = {}
      BY <2>1, PrimaryIs DEF GetPrimaryNode
    <2> QED
      BY <2>2, <2>3 DEF Nearer, S
  <1> QED
    BY <1>1, Always, PTL

\* A blob whose PutBlob succeeded in a view is found by GetBlob and HasBlob of every node
\* that has this view while its primary runs, whatever joined, left or crashed between.
THEOREM PutsFound == Spec => []FoundInView
  <1>1. ASSUME IInv PROVE FoundInView
    <2> SUFFICES ASSUME NEW n \in up, NEW k \in Key, acked[k] \notin {None, {}},
                        hash[n].members = acked[k], GetPrimaryNode(n, k) \in up
                 PROVE  HasBlob(n, k)
      BY DEF FoundInView
    <2>1. n \in Node /\ up \subseteq Node
      BY <1>1 DEF IInv, Typed, ClusterOK
    <2>2. GetPrimaryNode(n, k) = Get(RingOf(acked[k]), k, None)
      BY <1>1, <2>1, ChosenOK DEF IInv, Typed
    <2>3. k \in blobs[GetPrimaryNode(n, k)]
      BY <1>1, <2>2 DEF IInv, PrimaryHas
    <2>4. GetPrimaryNode(n, k) # None
      BY <2>1, ConstantsAssumption
    <2> QED
      BY <2>3, <2>4 DEF HasBlob
  <1> QED
    BY <1>1, Always, PTL
=============================================================================
