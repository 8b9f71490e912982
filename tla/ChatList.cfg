CONSTANTS
    Tabs = {t1, t2}
    Chats = {c1, c2}
SPECIFICATION Spec
INVARIANTS
    ListIsKept
