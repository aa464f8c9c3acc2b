SPECIFICATION Spec
CONSTANTS
    Runs = {a}
    NoRun = NoRun
    Units = {"systemd"}
    Raising = {}
    MaxStarts = 2
INVARIANTS
    StopIsNoFailure
