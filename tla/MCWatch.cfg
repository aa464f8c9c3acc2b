SPECIFICATION FairSpec
CONSTANTS
    Runs = {a}
    NoRun = NoRun
    Units = {"systemd", "shell"}
    Raising = {"preparing", "launched", "showing", "recording"}
    MaxStarts = 2
PROPERTIES
    CancelFreesWorker
    DeadlineFreesWorker
