----------------------------- MODULE MCRegistry -----------------------------
(* Instances of Registry for TLC. *)
EXTENDS Registry, TLC

CONSTANTS b1, m1, m2

\* m1 names a blob, if there is one; m2 is an index, whose children
\* handlePutManifest neither checks nor links.
MCRefsOf == [m \in Manifest |-> IF m = m1 /\ b1 \in Blob THEN <<b1>> ELSE <<>>]

\* Manifests differ by the blobs they name; without blobs they do not.
Symmetry == Permutations(Proc) \cup Permutations(Repo)
              \cup (IF Blob = {} THEN Permutations(Manifest) ELSE {})
=============================================================================
