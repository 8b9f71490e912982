CONSTANTS
    Users = {u1, u2}
    Connections = {c1, c2, c3}
    None = None
SPECIFICATION Spec
INVARIANTS
    TypeOK
    NavbarShowsCurrent
PROPERTIES
    ImplementsTabSession
