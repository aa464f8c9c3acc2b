SPECIFICATION Spec
CONSTANTS
    Runs = {a, b}
    NoRun = NoRun
    Folders = {standard, chosen}
    RunsDir = standard
    NoFolder = NoFolder
    Days = {1, 2}
    MaxTime = 3
SYMMETRY Symmetry
INVARIANTS
    TypeOK
    ResultsAndFailuresSurvive
    FilesAreFound
PROPERTIES
    RemovesOnlyTheApproved
