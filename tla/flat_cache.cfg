SPECIFICATION FlatSpec
CONSTANTS
    f1 = f1
    d1 = d1
    h1 = h1
    Root = Root
    None = None
    Files = {f1}
    Dirs = {d1}
    ParentOf <- InDir
    Bytes = {0, 1}
    MaxLen = 1
    Writeback = FALSE
    Ttl = TRUE
    StoreFails = TRUE
    AnswersLost = {f1}
    OthersWrite <- OthersData
    Handles = {h1}
INVARIANTS ContentKept ReadsContent CachesFresh
PROPERTIES ReadsRefined
