CONSTANTS
    a1 = a1
    a2 = a2
    a3 = a3
    t1 = t1
    s1 = s1
    s2 = s2
    s3 = s3
    Anchors = {a1, a2, a3}
    Tools = {}
    Sessions = {s1, s2, s3}
    Bypassed = {s3}
    NoSession = none
    Owner <- TwoOwners
    Rank <- RankTwo
    Size <- SizesTwo
    Room = 2
    Cap = 1
    BatchWindow = 2
    MaxDropped = 1
    StoreMayFail = TRUE
SPECIFICATION Spec
INVARIANTS
    KeptIsIndexed
    IndexIsOwn
    UnscoredIsHonest
PROPERTIES
    KeptReachesPrompt
