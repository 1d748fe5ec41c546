---------------------------- MODULE MCCollector ----------------------------
(* Instances of Collector for TLC. *)
EXTENDS Collector, TLC

CONSTANTS b1, m1, m2, r1, r2, t1, t2

\* m1 is an image with one blob, m2 an index that names it.
MCRefsOf == m1 :> {b1} @@ m2 :> {}
MCChildrenOf == m1 :> {} @@ m2 :> {m1}

\* One repository with two tags, and another where images are pushed by digest.
MCNames == {<<r1, t1>>, <<r1, t2>>, <<r2, None>>}
=============================================================================
