------------------------------ MODULE MCMirror ------------------------------
(* Instances of Mirror for TLC. *)
EXTENDS Mirror, TLC

CONSTANTS r1, r2, t1, b1, m1, m2

\* Two repositories that share an image.
MCUpstream == r1 :> (t1 :> m1) @@ r2 :> (t1 :> m1)
MCWanted == {<<r1, t1>>, <<r2, t1>>, <<r1, b1>>}
=============================================================================
