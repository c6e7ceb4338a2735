SPECIFICATION FairSpec
CONSTANTS
    g1 = g1
    g2 = g2
    Lookers = {g1, g2}
    Resetter = Resetter
    Never = Never
    Cooldowns = {0, 2}
    Bulletins = {"full", "short"}
    MaxTime = 2
INVARIANT SettledIsFinal
PROPERTY ChoiceStands
PROPERTY CoverageKept
PROPERTY FetchesApart
PROPERTY LookupsReturn
