SPECIFICATION Spec
CONSTANTS
    Null = Null
    i1 = i1
    i2 = i2
    a = a
    b = b
    k1 = k1
    Ids = {i1, i2}
    Contents = {a, b}
    Keys = {k1}
    Clients = {c1, c2}
    Commands <- DiscardCommands
PROPERTIES
    DiscardsOnlyCandidates
