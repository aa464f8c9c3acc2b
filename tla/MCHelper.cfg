SPECIFICATION Spec
CONSTANTS
    Runs = {a}
    NoRun = NoRun
    Units = {"systemd"}
    Raising = {}
    MaxStarts = 1
INVARIANTS
    StoppedRunLeavesNobody
