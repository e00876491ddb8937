CONSTANTS
    Histories <- Conversations
    Queues <- Waiting
    MaxState = 8
    MaxRequest = 10
    Empty = 1
    Envelope = 1
    Cap = 2
    Unit = 3
    Rates = {1, 2}
    Window = 4
    Minimum = 3
    Fallback = 2
    Ceiling = 2
    Margin <- Bound
SPECIFICATION Spec
INVARIANTS
    WithinBudgets
    NothingElseFits
    FoldMakesRoom
    MinimumKept
    BestKept
    ThresholdFollows
