SPECIFICATION Spec
CONSTANTS
    NoRecord = NoRecord
    Hole = Hole
    Nodes = {n1, n2, n3}
    First = n1
    Records = {a}
    MaxTerm = 3
    MaxIndex = 4
    MaxRestarts = 1
CHECK_DEADLOCK FALSE
INVARIANTS
    LeaderComplete
