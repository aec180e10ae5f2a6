SPECIFICATION FairSpec
CONSTANTS
    NoNode = NoNode
    NoClient = NoClient
    Nodes = {n1, n2}
    First = n1
    Clients = {c1, c2}
    MaxMoves = 1
    MaxBreaks = 2
    MaxPicks = 3
CHECK_DEADLOCK FALSE
INVARIANTS
    TypeOK
    ConsumePicks
    FairTurns
PROPERTIES
    LeaderFound
    ConsumeFound
