SPECIFICATION Spec
CONSTANTS
    Runs = {a, b}
    NoRun = NoRun
    Units = {"systemd", "shell"}
    Raising = {"preparing", "launched", "showing", "recording"}
    MaxStarts = 2
SYMMETRY Symmetry
INVARIANTS
    TypeOK
    NoStrayChild
    RecordedChildIsSwept
    SuccessIsShown
    CompleteCaptureIsFinal
PROPERTIES
    KeepsPromise
