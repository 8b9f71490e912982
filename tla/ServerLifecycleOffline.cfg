CONSTANTS
    UserIds = {u1, u2}
    Servers = {s1}
    Clients = {cli, http}
    Http = {http}
    None = None
    Configs <- MCConfigs
SPECIFICATION Spec
PROPERTIES
    SystemConnects
