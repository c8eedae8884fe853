CONSTANTS
    d1 = d1
    d2 = d2
    w1 = w1
    w2 = w2
    r1 = r1
    Docs = {d1}
    Writers = {w1, w2}
    Readers = {}
    MaxVersion = 2
    MaxFaults = 1
    MaxChunks = 2
    ChunkCount <- LongThenShort
    Overlap = TRUE
SPECIFICATION RetrySpec
PROPERTIES DeleteConverges
