SPECIFICATION WorkerSpec
CONSTANTS
    NoJob = NoJob
    e1 = e1
    e2 = e2
    n1 = n1
    n2 = n2
    d1 = d1
    d2 = d2
    ref = ref
    Nonce <- NonceOf
    DedupeKeys = {d1, d2}
    Refs = {ref}
    Envelopes = {e1, e2}
    Requests <- Contending
    Runners = {r1, r2}
    MaxAttempts = 2
    MaxCancels = 1
    MaxRestarts = 1
SYMMETRY Symmetric
INVARIANTS
    OneJobPerKey
    RetryBudget
PROPERTIES
    OnlyOverlapsRevise
