SPECIFICATION FairSpec
CONSTANTS
    Nodes = {n1, n2, n3}
    Blobs = {b1, b2, b3}
    None = None
    BorrowThenCopy = FALSE
    n1 = n1
    n2 = n2
    n3 = n3
    Plans <- MCPlans
PROPERTIES
    ReleaseSafe
    ReadsReady
    ReleasedEventually
