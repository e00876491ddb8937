CONSTANTS
    a = a
    b = b
    laya = laya
    h1 = h1
    h2 = h2
    Chains = {a}
    Providers = {laya, h1, h2}
    Laya = laya
    Order <- LocalThenTwo
    Reasons = {"timeout", "malformed"}
    Triggers = {"timeout"}
    MaxRetries = 1
    Cooldown = 2
    Window = 3
    Limit = 2
SPECIFICATION FairSpec
INVARIANTS
    NoEgressWhileTripped
    CoolingExplained
    SkippedOnlyAfterError
    NeverCallsCooling
PROPERTIES
    BreakerPromise
    RequestEnds
    LocalReturns
    BreakerHeals
