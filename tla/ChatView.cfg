CONSTANTS
    Chats = {c1, c2}
    None = None
    Page = 2
    MaxMessages = 3
    MaxSwitches = 1
    MaxInFlight = 2
SPECIFICATION Spec
INVARIANTS
    TypeOK
    ButtonsComeBack
PROPERTIES
    RefreshHeals
