SPECIFICATION Spec
CONSTANTS
    i1 = i1
    i2 = i2
    Slots <- MCSlots
    Commands <- MCCommands
    Apps <- MCApps
    Steps <- MCSteps
    MacOS = TRUE
SYMMETRY Symmetry
INVARIANTS
    TypeOK
    OrphansExplained
    DownIsAccountedFor
PROPERTIES
    Implements
