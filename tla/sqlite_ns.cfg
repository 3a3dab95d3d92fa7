SPECIFICATION SqliteSpec
CONSTANTS
    a = a
    b = b
    Names = {a, b}
    Inos = {1, 3, 4}
    SqlFails = TRUE
    MaxCuts = 2
SYMMETRY Symmetry
INVARIANTS SqliteTypeOK LinksCounted EntriesResolve RenameKeepsSource NoEntryBelowRemoved
CHECK_DEADLOCK FALSE
