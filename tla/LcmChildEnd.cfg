CONSTANTS
    Texts = {a, b}
    NoText = none
    Fresh = 1
    Fanin = 2
    MaxDepth = 2
    Retain = 1
    MaxSessions = 2
    MaxEvents = 6
SYMMETRY Alike
CHECK_DEADLOCK FALSE
SPECIFICATION Spec
INVARIANTS
    ChildLosesNothing
