CONSTANTS
    UserIds = {u1, u2}
    Emails = {e1, e2}
    Passwords = {p1, p2}
    Requests = {r1, r2}
    Operator = operator
    MaxVersion = 2
    MaxTokens = 1
SPECIFICATION Spec
SYMMETRY Symmetry
INVARIANTS
    TypeOK
    TokenProvesPassword
    EmailUnique
    RestoreAnswersTrue
PROPERTIES
    RevocationPermanent
    NoStalePrivilege
    ImplementsSessionTable
    ImplementsDirectory
