------------------------------- MODULE MCMesh -------------------------------
(* Instances of Mesh for TLC. *)
EXTENDS Mesh, TLC

CONSTANTS n1, n2, n3, k1

\* Two virtual nodes each; a turn from k1 begins past the last of them, meets n1
\* twice in a row, and the others in turn.
MCPoints == n1 :> {1, 2} @@ n2 :> {4, 9} @@ n3 :> {6, 11}
MCHashOf == k1 :> 12
=============================================================================
