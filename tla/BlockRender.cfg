CONSTANTS
    Budget = 8
    Header = 1
    Receipt = 1
    MaxRows = 2
    Inputs <- UpToFive
SPECIFICATION Spec
INVARIANTS
    WithinBudget
    NothingCrowdedOut
    HintAccounts
    AnchorAccounts
CHECK_DEADLOCK FALSE
