------------------------------ MODULE HashRing ------------------------------
(***************************************************************************)
(* internal/mesh/hash.go: the consistent hash ring of one node.            *)
(*                                                                         *)
(* A ring is the value of a ConsistentHash.  Its sorted slice of hashes is *)
(* the set of these numbers: Get and GetN look at it in increasing order   *)
(* and begin again at the smallest.                                        *)
(***************************************************************************)
EXTENDS Integers, FiniteSets, Functions, FiniteSetsExt

CONSTANTS
    Node,      \* node IDs
    Key,       \* digests
    RingSize,  \* hashes are 0 .. RingSize - 1, 2^32 in the code
    Points,    \* the hashes of a node's virtual nodes
    HashOf     \* the hash of a key

\* CRC-32 separates the virtual nodes; hash.go would let one take the place of
\* another.
ASSUME HashAssumption ==
    /\ RingSize \in Nat \ {0}
    /\ Points \in [Node -> (SUBSET (0 .. RingSize - 1)) \ {{}}]
    /\ \A m, n \in Node : m # n => Points[m] \cap Points[n] = {}
    /\ HashOf \in [Key -> 0 .. RingSize - 1]

\* Every hash of the ring has a node.
ConsistentHash(c) ==
    /\ c.members \subseteq Node
    /\ c.ring \subseteq 0 .. RingSize - 1
    /\ c.nodes \in [c.ring -> Node]

NewConsistentHash ==
    [members |-> {}, ring |-> {}, nodes |-> [h \in {} |-> CHOOSE n \in Node : TRUE]]

\* As if the loop over the virtual nodes of a newcomer began at the second.
Add_Partly(c, n) ==
    IF n \in c.members THEN c
    ELSE LET fresh == IF c.ring = {} THEN Points[n] ELSE Points[n] \ {Min(Points[n])} IN
         [members |-> c.members \cup {n},
          ring    |-> c.ring \cup fresh,
          nodes   |-> [h \in DOMAIN c.nodes \cup fresh |->
                         IF h \in fresh THEN n ELSE c.nodes[h]]]

Add(c, n) ==
    IF n \in c.members THEN c
    ELSE [members |-> c.members \cup {n},
          ring    |-> c.ring \cup Points[n],
          nodes   |-> [h \in DOMAIN c.nodes \cup Points[n] |->
                         IF h \in Points[n] THEN n ELSE c.nodes[h]]]

Remove(c, n) ==
    IF n \notin c.members THEN c
    ELSE LET left == Restrict(c.nodes, DOMAIN c.nodes \ Points[n]) IN
         [members |-> c.members \ {n},
          ring    |-> {h \in c.ring : h \in DOMAIN left},
          nodes   |-> left]

\* The ring of a set of members, however it came about.
RingOf(S) ==
    LET ring == UNION {Points[n] : n \in S} IN
    [members |-> S,
     ring    |-> ring,
     nodes   |-> [h \in ring |-> CHOOSE n \in S : h \in Points[n]]]

\* As if a search past the end stopped at the last hash.
Search_NoWrap(c, h) ==
    LET from == {p \in c.ring : p >= h} IN
    IF from = {} THEN Max(c.ring) ELSE Min(from)

\* sort.Search for the first hash that is not below h, and the wrap-around.
Search(c, h) ==
    LET from == {p \in c.ring : p >= h} IN
    IF from = {} THEN Min(c.ring) ELSE Min(from)

\* The owner of a key; the code returns "" for an empty ring.
Get(c, key, none) ==
    IF c.ring = {} THEN none ELSE c.nodes[Search(c, HashOf[key])]

\* The nodes that the loop of GetN, which begins at the key's place and goes up,
\* past the end to the beginning, meets before it comes to p.
Before(c, key, p) ==
    LET start == Search(c, HashOf[key])
        steps(q) == (q - start) % RingSize
    IN  {c.nodes[q] : q \in {o \in c.ring : steps(o) < steps(p)}}

\* The loop comes to p if it has not met n nodes before.  With a member that owns no
\* place it would never end.
GetN(c, key, n) ==
    {c.nodes[p] : p \in {q \in c.ring : Cardinality(Before(c, key, q)) < n}}
=============================================================================
