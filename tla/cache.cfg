SPECIFICATION FairSpec
CONSTANTS
    a = a
    b = b
    pa = pa
    pb = pb
    None = None
    Callers = {a, b}
    Clients = {pa, pb}
    ClientOf <- TwoClients
    MaxVersion = 3
    Size <- Sizes
    Readable = {1, 3}
    Valid = {1, 3}
    HasETag = TRUE
    Workloads <- OneOrTwo
INVARIANT TagsVouch
PROPERTY AnswersCurrent
PROPERTY CopyKept
PROPERTY RejectionLasts
PROPERTY Heals
PROPERTY CallsReturn
CHECK_DEADLOCK FALSE
