CONSTANTS
    Cells = {c1, c2}
    Lans = {l1, l2}
    Particles = {p1}
    Users = {u1}
    Owner = o1
SPECIFICATION Spec
SYMMETRY Symmetry
INVARIANTS
    OkIsPackaged
    FaultFreeIsSound
    PackagesConsistent
