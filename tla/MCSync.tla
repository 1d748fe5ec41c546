------------------------------- MODULE MCSync -------------------------------
(* Instances of Sync for TLC. *)
EXTENDS Sync, TLC

CONSTANTS j1, j2, s1, s2, r1, t1, b1, b2, m1, m2

\* m1 is an image with a config and a layer, m2 an index that names it.
MCConfigOf == m1 :> b1 @@ m2 :> None
MCLayersOf == m1 :> {b2} @@ m2 :> {}
MCChildrenOf == m1 :> {} @@ m2 :> {m1}
MCUpstream == s1 :> (r1 :> (t1 :> m2)) @@ s2 :> (r1 :> (t1 :> m1))
MCUpstreamOne == s1 :> (r1 :> (t1 :> m2))

\* j1 goes on, j2 runs once, from another registry.
MCType == j1 :> "registry" @@ j2 :> "quay"
MCSourceOf == j1 :> s1 @@ j2 :> s2
MCSchedule == j1 :> "interval" @@ j2 :> "none"
MCMode == j1 :> "continuous" @@ j2 :> "once"
MCIncluded == j1 :> {t1} @@ j2 :> {t1}

\* j1 alone.
MCRegistryOnly == j1 :> "registry"
MCOneSource == j1 :> s1
MCInterval == j1 :> "interval"
MCContinuous == j1 :> "continuous"
MCAllTags == j1 :> {t1}
=============================================================================
