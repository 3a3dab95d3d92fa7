SPECIFICATION Spec
CONSTANTS
    s1 = s1
    s2 = s2
    t1 = t1
    Slices = {s1, s2}
    NoSlice = NoSlice
    Tasks = {t1}
    UseWal = TRUE
    UseDisk = TRUE
    L1Evicts = TRUE
    IoFails = TRUE
    CanCrash = TRUE
SYMMETRY Symmetry
INVARIANTS Recoverable ReadsSucceed
