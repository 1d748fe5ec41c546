SPECIFICATION Spec
CONSTANTS
    Proc = {p1, p2}
    File = {f1, f2}
    d1 = d1
    d2 = d2
    Digest = {d1, d2}
    Byte = {0, 1}
    Zero = 0
    Chunk <- MCChunk
    Offsets = {1}
    Sizes = {2}
    DigestOf <- MCDigestOf
    MaxLen = 2
    MaxOutages = 1
    NoFile = NoFile
    NoProc = NoProc
    NoDigest = NoDigest
    NoContent = NoContent
SYMMETRY Symmetry
INVARIANTS
    TypeOK
    BlobIntegrity
    ReadersSeeDigest
    AckedPresent
    NoLeakedFiles
    SizeCoversFile
PROPERTY
    ImplementsContentStore
