SPECIFICATION Spec
CONSTANTS
    j1 = j1  j2 = j2  j3 = j3
    NoJob = NoJob
    Jobs = {j1, j2, j3}
    MaxFaults = 0
SYMMETRY JobSymmetry
INVARIANTS
    NoBusyAfterReply
CHECK_DEADLOCK FALSE
