---------------------------- MODULE MCReplication ----------------------------
(* Instances of Replication for TLC. *)
EXTENDS Replication

CONSTANTS n1, n2

\* Downloads at one instance, clones at the other.
MCWork == {<<"download", n1>>, <<"clone", n2>>}
=============================================================================
