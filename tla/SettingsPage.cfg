CONSTANTS
    Blank = Blank
    Stored = Stored
    Typed = Typed
    Imported = Imported
    None = None
    MaxSaves = 2
    MaxActs = 1
SPECIFICATION Spec
INVARIANT BlankIsConfirmed
CHECK_DEADLOCK FALSE
