SPECIFICATION FairSpec
CONSTANTS
    Proc = {p1, p2}
    File = {f1, f2}
    d1 = d1
    d2 = d2
    Digest = {d1}
    Byte = {0, 1}
    Zero = 0
    Chunk <- MCOneChunk
    Offsets = {}
    Sizes = {0, 1}
    DigestOf <- MCDigestOf
    MaxLen = 1
    MaxOutages = 0
    NoFile = NoFile
    NoProc = NoProc
    NoDigest = NoDigest
    NoContent = NoContent
PROPERTIES
    RequestsEnd
