SPECIFICATION Spec
CONSTANTS
    NoRecord = NoRecord
    Hole = Hole
    Nodes = {n1, n2, n3}
    First = n1
    Records = {a, b}
    MaxTerm = 3
    MaxIndex = 4
    MaxRestarts = 0
CHECK_DEADLOCK FALSE
INVARIANTS
    ReplicasAgree
    LeaderComplete
