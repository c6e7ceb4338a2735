SPECIFICATION FairSpec
CONSTANTS
    a = a
    b = b
    None = None
    Callers = {a, b}
    Urls = {"built in", "mirror"}
    Home = "built in"
    Approx = 1
    MaxSize = 2
    Interval = 2
    MaxRetries = 1
    MaxChanges = 2
    MaxCalls = 3
PROPERTY PolicyObeyed
PROPERTY CachedServed
PROPERTY Paced
PROPERTY CallsReturn
CHECK_DEADLOCK FALSE
