SPECIFICATION Spec
CONSTANTS
    i1 = i1
    i2 = i2
    Slots <- MCSlots
    Commands <- Removals
    Apps <- MCApps
    Steps <- MCSteps
    MacOS = TRUE
INVARIANTS
    RemovedDeletesFiles
