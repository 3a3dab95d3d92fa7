SPECIFICATION VfsSpec
CONSTANTS
    i1 = i1
    fuse = fuse
    w1 = w1
    Slices = {1, 2, 3, 4, 5}
    NoSlice = 0
    Inodes = {i1}
    NoInode = NoInode
    ChunkBlocks = 2
    Tasks = {fuse, w1}
    Fuse = fuse
    Flushers = {}
    Workers = {w1}
    UseWal = FALSE
    UseDisk = FALSE
    L1Evicts = FALSE
    CanCrash = FALSE
    IoFails = FALSE
    MetaFails = FALSE
    MaxChanges = 3
INVARIANTS VfsTypeOK ContentKept ReadsContent RefsNotDeleted FsyncStores
