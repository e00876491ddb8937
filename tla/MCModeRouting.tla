--------------------------- MODULE MCModeRouting ---------------------------
EXTENDS ModeRouting
CONSTANTS ts, op, cf

ThreeHosted == {ts, op, cf}

\* Every order without repetition of one, two or three hosted providers.
AllOrders == {o \in UNION {[1..n -> ThreeHosted] : n \in 1..3} :
                \A i, j \in DOMAIN o : o[i] = o[j] => i = j}

\* The shipped order and the order that names Clef alone.
ShippedOrders == {<<ts, op>>, <<cf>>}

=============================================================================
