SPECIFICATION VfsSpec
CONSTANTS
    i1 = i1
    i2 = i2
    fuse = fuse
    fl = fl
    Slices = {1, 2, 3}
    NoSlice = 0
    Inodes = {i1, i2}
    NoInode = NoInode
    ChunkBlocks = 1
    Tasks = {fuse, fl}
    Fuse = fuse
    Flushers = {fl}
    Workers = {}
    UseWal = FALSE
    UseDisk = FALSE
    L1Evicts = FALSE
    CanCrash = FALSE
    IoFails = FALSE
    MetaFails = FALSE
    MaxChanges = 2
SYMMETRY Symmetry
INVARIANTS FsyncStores
