SPECIFICATION Spec
CONSTANTS
    UserIds = {u1, u2, u3}
    Wallets = {w1, w2}
    Telegrams = {t1, t2}
    Nonces = {n1, n2, n3}
    Requests = {r1, r2, r3, r4}
    MaxUnbinds = 1
SYMMETRY BindingSymmetry
INVARIANT WalletsDistinct
INVARIANT NoncesOneShot
INVARIANT NoOrphanUsers
PROPERTY BoundByProof
CHECK_DEADLOCK FALSE
