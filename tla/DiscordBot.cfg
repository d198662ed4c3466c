SPECIFICATION Spec
CONSTANTS
    Handlers <- MCHandlers
    Names <- MCNames
    Admin = "admin-notifications"
    Payloads <- MCPayloads
    MaxCopies = 2
INVARIANTS
    TypeOK
    SetUpExplained
