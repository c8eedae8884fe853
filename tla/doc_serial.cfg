CONSTANTS
    d1 = d1
    d2 = d2
    w1 = w1
    w2 = w2
    r1 = r1
    Docs = {d1}
    Writers = {w1, w2}
    Readers = {r1}
    MaxVersion = 3
    MaxFaults = 3
    MaxChunks = 2
    ChunkCount <- LongThenShort
    Overlap = FALSE
SPECIFICATION Spec
INVARIANTS ReadyIsWhole NothingHidden MirrorInSync NoStaleBytes
PROPERTIES StaysDeleted
