SPECIFICATION Spec
CONSTANTS
    b1 = b1
    b2 = b2
    b3 = b3
    Blocks = {b1, b2, b3}
    None = None
    Problems <- Given
    Transitions <- Costs
    SlewCost <- SlewCosts
    Horizon = 7
    MaxPasses = 3
    Tenure = 2
INVARIANT CadenceKept
CHECK_DEADLOCK FALSE
