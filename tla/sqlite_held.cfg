SPECIFICATION SqliteSpec
CONSTANTS
    a = a
    b = b
    Names = {a, b}
    Inos = {1, 3, 4}
    SqlFails = FALSE
    MaxCuts = 1
SYMMETRY Symmetry
INVARIANTS HeldExist
CHECK_DEADLOCK FALSE
