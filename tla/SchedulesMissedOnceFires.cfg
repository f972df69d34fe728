SPECIFICATION Spec
CONSTANTS
    Absent = Absent
    Kinds <- MCKinds
    MaxGen = 2
    MaxSlot = 1
    MaxEdits = 1
    MaxUpsets = 0
    MaxRev = 4
    LateTools = TRUE
INVARIANT MissedOnceFires
CHECK_DEADLOCK FALSE
