SPECIFICATION Spec
CONSTANTS
    Clients = {c1, c2}
    Sessions = {"s1"}
    Keys = {"k1", "k2"}
    Candidates = {"a", "b", "c", "d"}
    Runs = {"r1", "r2", "r3"}
    Detail <- MCDetail
    Batch <- MCBatch
    Rejections <- MCRejections
    SoftTTL = 1
    HardTTL = 2
    MaxTime = 2
    MaxDelivered = 2
SYMMETRY ClientSymmetry
INVARIANTS RevisionChain RunAtomic EmbeddingFresh DeliveredOnce FoundCurrent
PROPERTIES HistoryStable ImplementsContract
