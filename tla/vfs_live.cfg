SPECIFICATION FairVfsSpec
CONSTANTS
    i1 = i1
    fuse = fuse
    fl = fl
    w1 = w1
    Slices = {1, 2, 3}
    NoSlice = 0
    Inodes = {i1}
    NoInode = NoInode
    ChunkBlocks = 1
    Tasks = {fuse, fl, w1}
    Fuse = fuse
    Flushers = {fl}
    Workers = {w1}
    UseWal = FALSE
    UseDisk = FALSE
    L1Evicts = FALSE
    CanCrash = FALSE
    IoFails = FALSE
    MetaFails = FALSE
    MaxChanges = 2
PROPERTIES ReleasedStored MarkedStored
ACTION_CONSTRAINT NoReads
