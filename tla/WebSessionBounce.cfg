CONSTANTS
    ann = ann
    bob = bob
    None = None
    Users = {ann, bob}
    Admins = {ann}
    MaxRevocations = 1
    MaxInFlight = 2
SPECIFICATION Spec
PROPERTY DroppedTokenLeadsToLogin
