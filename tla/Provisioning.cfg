CONSTANTS
    UserIds = {u1, u2}
    Servers = {s1}
    Clients = {c1, c2}
SPECIFICATION Spec
SYMMETRY Symmetry
INVARIANTS
    TypeOK
    OneSystemAccount
    SettledPurgeLeavesNothing
PROPERTIES
    MirrorOutlivesAccount
    SystemOutlivesWipe
