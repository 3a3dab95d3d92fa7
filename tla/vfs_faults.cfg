SPECIFICATION VfsSpec
CONSTANTS
    i1 = i1
    fuse = fuse
    fl = fl
    Slices = {1, 2, 3}
    NoSlice = 0
    Inodes = {i1}
    NoInode = NoInode
    ChunkBlocks = 1
    Tasks = {fuse, fl}
    Fuse = fuse
    Flushers = {fl}
    Workers = {}
    UseWal = FALSE
    UseDisk = FALSE
    L1Evicts = TRUE
    CanCrash = TRUE
    IoFails = TRUE
    MetaFails = TRUE
    MaxChanges = 2
INVARIANTS ContentKept RefsNotDeleted FsyncStores
