SPECIFICATION FairSpec
CONSTANTS
    a = a
    b = b
    None = None
    Processes = {a, b}
    MaxVersion = 2
    Workloads <- OneOrTwo
PROPERTY OnlyCorruptDeleted
INVARIANT FlipRefused
 
