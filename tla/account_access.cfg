SPECIFICATION AccessSpec
CONSTANTS
    None = None
    Owners = {o1, o2}
    Ids = {i1}
    Contents = {a}
    WriteKeys = {k1}
    MaxVersion = 1
    MaxKeyVersion = 1
    MaxBackups = 0
    Links = {l1, l2}
    Credentials = {p1}
    Connections = {n1}
    Calls = {r1}
    Tools <- CalledTools
    Grants <- CredentialGrants
    LinkLimit = 1
    LinkWindow = 2
    LinkTtl = 1
    SessionTtl = 2
    CredentialTtls = {2}
    MaxTime = 2
SYMMETRY Symmetric
INVARIANTS
    LinkQuota
PROPERTIES
    DeletedGoesQuiet
    OnlyOwnerManages
    ClosedStaysClosed
CHECK_DEADLOCK FALSE
