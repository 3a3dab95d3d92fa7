SPECIFICATION RedbSpec
CONSTANTS
    a = a
    b = b
    Names = {a, b}
    Inos = {1, 2, 3, 4}
SYMMETRY Symmetry
INVARIANTS TypeOK LinksCounted EntriesResolve HeldExist RowsOwned NoEntryBelowRemoved
PROPERTIES NamesRefined
