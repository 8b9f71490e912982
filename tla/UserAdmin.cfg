CONSTANTS
    Users <- MCOne
    Fields = {"email"}
    Values = {v1, v2}
    Passwords = {p}
    Blank = Blank
    None = None
    PageSize = 1
    Slots = {s1, s2}
    MaxOffset = 1
SPECIFICATION Spec
INVARIANTS
    OnlyTypedIsSent
    SavingIsOneSave
PROPERTIES
    ButtonsComeBack
