SPECIFICATION Spec
CONSTANTS
    NoRecord = NoRecord
    Hole = Hole
    Nodes = {n1, n2}
    First = n1
    Records = {a, b}
    MaxTerm = 1
    MaxIndex = 4
    MaxRestarts = 2
CHECK_DEADLOCK FALSE
INVARIANTS
    ReplicasAgree
