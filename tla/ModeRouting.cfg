CONSTANTS
    ts = ts
    op = op
    cf = cf
    Hosted = {ts, op, cf}
    Typesafe = ts
    Openrouter = op
    Clef = cf
    Laya = laya
    None = none
    WrittenPins = {none, ts, op, cf}
    FallbackOrders <- AllOrders
SPECIFICATION Spec
INVARIANTS
    TypeOK
    OrderSound
    ModeDecides
PROPERTIES
    SideIsStable
