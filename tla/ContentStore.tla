---------------------------- MODULE ContentStore ----------------------------
(***************************************************************************)
(* What the blob store promises its callers: a map from digests to the     *)
(* content that hashes to them.  A step stores one blob or removes one;    *)
(* what a digest names can be gone, and can never be something else.  When *)
(* the power fails, blobs may go and come back, all at once.               *)
(***************************************************************************)
EXTENDS Naturals

CONSTANTS Digest, DigestOf(_), NoContent

VARIABLES store, outages

Init == store = [d \in Digest |-> NoContent] /\ outages = 0

StoreBlob(d) ==
    /\ store'[d] # NoContent
    /\ DigestOf(store'[d]) = d
    /\ store' = [store EXCEPT ![d] = store'[d]]
    /\ UNCHANGED outages

RemoveBlob(d) ==
    /\ store' = [store EXCEPT ![d] = NoContent]
    /\ UNCHANGED outages

PowerLoss ==
    /\ outages' = outages + 1
    /\ store' = [d \in Digest |-> store'[d]]
    /\ \A d \in Digest : store'[d] # NoContent => DigestOf(store'[d]) = d

Next == PowerLoss \/ \E d \in Digest : StoreBlob(d) \/ RemoveBlob(d)

Spec == Init /\ [][Next]_<<store, outages>>
=============================================================================
