CONSTANTS
    UserIds = {u1, u2, u3}
    ChatIds = {c1}
    Requests = {r1, r2}
    MaxMessages = 1
    MaxAdmins = 1
    MaxDeleted = 1
SPECIFICATION Spec
SYMMETRY Symmetry
INVARIANTS
    TypeOK
    RostersSound
    GroupsArePrivate
PROPERTIES
    ChatsOnlyAdvance
    OnlyOwnersInvite
    ImplementsChatRooms
