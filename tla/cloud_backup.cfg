SPECIFICATION CloudSpec
CONSTANTS
    None = None
    Owners = {o1, o2}
    Ids = {i1, i2}
    Contents = {a}
    WriteKeys = {k1}
    MaxVersion = 2
    MaxKeyVersion = 2
    MaxBackups = 1
INVARIANTS
    CloudTypeOK
    ForgottenStaysForgotten
    VectorCurrent
    KeysNotAhead
    WriteKeysTraceable
