SPECIFICATION GatewaySpec
CONSTANTS
    Null = Null
    a1 = a1
    b1 = b1
    i1 = i1
    i2 = i2
    ka = ka
    ka2 = ka2
    kb = kb
    lesson = lesson
    moved = moved
    note = note
    Ids = {i1, i2}
    Contents = {lesson, moved, note}
    Keys = {ka, ka2, kb}
    Commands <- GatewayCommands
    Tenants = {"A", "B"}
    Spaces = {"Work", "MBA"}
    Kinds = {"lesson", "mental_note"}
    Connections = {a1, b1}
    Principal <- Principals
    SentBy <- KeyTenant
    SpaceOf <- TextSpace
    KindOf <- TextKind
    Rank <- Order
    Calls = {r1, r2}
    Similarity <- Closest
    Score <- Relevance
    Queries <- Recalls
INVARIANTS
    RestoreAnswersRight
    RecallFaithful
PROPERTIES
    EachTenantAlone
    RevocationHolds
