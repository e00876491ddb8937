CONSTANTS
    a1 = a1
    a2 = a2
    a3 = a3
    t1 = t1
    s1 = s1
    s2 = s2
    s3 = s3
    Anchors = {a1, a2, a3}
    Tools = {}
    Sessions = {s1}
    Bypassed = {}
    NoSession = none
    Owner <- WithSummary
    Rank <- RankSummary
    Size <- SizesSummary
    Room = 2
    Cap = 2
    BatchWindow = 2
    MaxDropped = 2
    StoreMayFail = FALSE
SPECIFICATION Spec
INVARIANTS
    StoredKeptIsIndexed
