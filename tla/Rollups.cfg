CONSTANTS
    w = w
    LastDay = 2
    Aggregates = {w}
    Covers <- CoversWeek
    Place <- InOrder
    Requests <- Targets
    Nodes = {1,3}
    From <- FromTwo
    To <- ToTwo
    Under <- UnderTwo
    Old = {1}
    Builders = {b1, b2}
    Nobody = nobody
    Orphan = orphan
    Limit = 1
    DayBudget = 1
SYMMETRY Alike
SPECIFICATION Spec
INVARIANTS
    TypeOK
    ReadyIsCurrent
    NothingForgotten
    ServesCurrent
