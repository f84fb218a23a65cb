CONSTANTS
    Rows = {r1, r2}
    NoFile = NoFile
    MaxDamages = 0
    DiskMayFill = TRUE
    MovesMayFail = FALSE
SPECIFICATION Spec
PROPERTY WalIsNotDeleted
