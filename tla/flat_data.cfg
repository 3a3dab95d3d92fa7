SPECIFICATION FlatSpec
CONSTANTS
    f1 = f1
    f2 = f2
    h1 = h1
    h2 = h2
    Root = Root
    None = None
    Files = {f1, f2}
    Dirs = {}
    ParentOf <- InRoot
    Bytes = {0, 1}
    MaxLen = 2
    Writeback = TRUE
    Ttl = FALSE
    StoreFails = TRUE
    AnswersLost = {}
    OthersWrite = {}
    Handles = {h1, h2}
SYMMETRY Symmetry
INVARIANTS FlatTypeOK ContentKept ReadsContent
CONSTRAINT NoneSpoiled
