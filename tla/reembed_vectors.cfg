SPECIFICATION ReembedSpec
CONSTANTS
    None = None
    NoJob = NoJob
    e1 = e1
    e2 = e2
    n1 = n1
    n2 = n2
    d1 = d1
    d2 = d2
    i1 = i1
    o1 = o1
    Owners = {o1}
    Ids = {i1}
    Contents = {a, b}
    WriteKeys = {k1}
    MaxVersion = 2
    MaxKeyVersion = 1
    MaxBackups = 2
    Envelopes = {e1, e2}
    Nonce <- NonceOf
    Principal <- PrincipalOf
    DedupeKeys = {d1, d2}
    Refs <- JobRefs
    Requests <- Jobs
    Runners = {r1, r2}
    MaxAttempts = 1
    MaxCancels = 1
    MaxRestarts = 0
SYMMETRY Symmetric
INVARIANTS
    VectorFresh
