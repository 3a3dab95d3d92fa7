SPECIFICATION Spec
CONSTANTS
    s1 = s1
    s2 = s2
    t1 = t1
    t2 = t2
    Slices = {s1, s2}
    NoSlice = NoSlice
    Tasks = {t1, t2}
    UseWal = FALSE
    UseDisk = TRUE
    L1Evicts = FALSE
    IoFails = TRUE
    CanCrash = FALSE
SYMMETRY Symmetry
INVARIANTS TypeOK NoSliceLost ReadsSucceed
