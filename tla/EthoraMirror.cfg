CONSTANTS
    Ids = {i1, i2, i3}
    Deleters = {d1, d2}
SPECIFICATION Spec
SYMMETRY Symmetry
INVARIANTS
    TypeOK
    UnreportedIsGone
