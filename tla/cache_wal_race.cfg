SPECIFICATION Spec
CONSTANTS
    s1 = s1
    s2 = s2
    t1 = t1
    t2 = t2
    Slices = {s1, s2}
    NoSlice = NoSlice
    Tasks = {t1, t2}
    UseWal = TRUE
    UseDisk = FALSE
    L1Evicts = FALSE
    IoFails = TRUE
    CanCrash = TRUE
SYMMETRY Symmetry
INVARIANTS Recoverable
