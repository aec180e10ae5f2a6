SPECIFICATION FairSpec
CONSTANTS
    n1 = n1
    n2 = n2
    p1 = p1
    p2 = p2
    c1 = c1
    Nodes = {n1, n2}
    First = n1
    Producers = {p1, p2}
    Consumers = {c1}
    MaxOffset = 2
    MaxMoves = 1
CHECK_DEADLOCK FALSE
INVARIANTS
    TypeOK
    StreamGapless
    AcksTrue
PROPERTIES
    StreamDelivers
    ProduceAnswered
