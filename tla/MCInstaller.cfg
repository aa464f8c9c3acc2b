SPECIFICATION Spec
CONSTANTS
    i1 = i1
    e1 = e1
    Releases = {1, 2}
    Items = {i1}
    Edits = {e1}
    MaxOps = 2
    MaxFaults = 3
CHECK_DEADLOCK FALSE
INVARIANTS
    TypeOK
    NothingLost
    RecoveryRestores
    
PROPERTIES
    OwnedAlone
    ShellEditsKept
