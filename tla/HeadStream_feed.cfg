\* Heads from overlapping sessions and polls reach the handler; the abstract feed.
SPECIFICATION FairSpec
CONSTANTS
    MaxBlock = 2
    Endpoints = 2
    Buffer = 1
    MaxSessions = 2
INVARIANTS NoDuplicateHead NewestKept
PROPERTIES ImplementsFeed HeadReachesHandler
