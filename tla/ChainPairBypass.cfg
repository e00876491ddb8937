CONSTANTS
    a = a
    b = b
    laya = laya
    h1 = h1
    h2 = h2
    Chains = {a, b}
    Providers = {laya, h1}
    Laya = laya
    Order <- TwoLocalFirst
    Reasons = {"timeout"}
    Triggers = {"timeout"}
    MaxRetries = 0
    Cooldown = 1
    Window = 2
    Limit = 1
SPECIFICATION Spec
PROPERTIES
    NoEgressPastTrip
