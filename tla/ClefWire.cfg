CONSTANTS
    Ids <- SixIds
    Points <- MixedPoints
    Values = {0, 1, 2}
    MaxQuestions = 3
    MaxAsked = 4
SPECIFICATION Spec
INVARIANTS
    TypeOK
    RoundTrip
    WireIsLegal
