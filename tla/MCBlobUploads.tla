--------------------------- MODULE MCBlobUploads ---------------------------
(* BlobUploads for TLC: two digests, one of them of a content that ends in a *)
(* zero byte, so that holes and preallocated zeros can be taken for content. *)
EXTENDS BlobUploads, TLC

CONSTANTS d1, d2

MCDigestOf(c) == CASE c = <<1>> -> d1 [] c = <<1, 0>> -> d2 [] OTHER -> NoDigest
MCChunk == {<<1>>, <<1, 0>>}
MCOneChunk == {<<1>>}
Symmetry == Permutations(Proc) \cup Permutations(File)
=============================================================================
