SPECIFICATION FairSpec
CONSTANTS
    Notes = {n1, n2}
    Manual = {m1}
    Users = {u1, u2}
    Limit = 1
    MaxCalls = 4
    MaxFaults = 1
    Nobody = Nobody
INVARIANTS AcceptedHasTodo CompletedOnce
PROPERTIES CompletionKept EventuallySuggested
CHECK_DEADLOCK FALSE
