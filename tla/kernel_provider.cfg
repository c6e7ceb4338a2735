SPECIFICATION ProviderSpec
CONSTANTS
    a = a
    b = b
    gap = gap
    over = over
    bad = bad
    Nil = Nil
    Callers = {a, b}
    Keys = {gap, over, bad}
    Holds <- Three
    Targets = {1, 2}
    Epochs = {1, 2, 3}
    Makers = {"Open", "NewProvider"}
    MaxReaders = 3
    MaxKernels = 2
    MaxFaults = 1
INVARIANT AnswersAsLoaded
PROPERTY AnswersFromOpen
INVARIANT NothingLeaks
