SPECIFICATION Spec
CONSTANTS
    Record <- ThreeSteps
    Days <- SevenDays
    Dats <- NearbyValues
    MaxEntries = 3
    BuiltIn = BuiltIn
INVARIANT PastUnaffected
