SPECIFICATION FairSpec
CONSTANTS
    n1 = n1
    n2 = n2
    n3 = n3
    a1 = a1
    a2 = a2
    a3 = a3
    a4 = a4
    NoNode = NoNode
    First = n1
    Initial = {n1, n2, n3}
    Nodes = {n1, n2, n3}
    Addresses = {a1, a2, a3, a4}
    AddressesOf <- OwnAddresses
    MaxStarts = 1
    MaxElections = 1
CHECK_DEADLOCK FALSE
INVARIANTS
    TypeOK
    LeaderIsServer
PROPERTIES
    Converges
    JoinTakesEffect
