SPECIFICATION Spec
CONSTANTS
    Orders = {o1, o2, o3}
    Submissions = {s1, s2}
    MaxSize = 2
SYMMETRY LedgerSymmetry
INVARIANT RealBookExact
INVARIANT PaperBookExact
PROPERTY ReduceOnlyNeverGrows
CHECK_DEADLOCK FALSE
