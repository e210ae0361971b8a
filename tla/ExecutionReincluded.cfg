SPECIFICATION FairSpec
CONSTANTS
    b1 = b1  c1 = c1  c2 = c2  d1 = d1  d2 = d2  v1 = v1
    r1 = r1  r2 = r2  e1 = e1  e2 = e2  t1 = t1
    Burns = {b1}
    Boxes = {d1, d2, v1}
    Candidates = {c1}
    Reservations = {r1}
    LegacyTxs = {}
    BurnOf <- SingleBurnOf
    DupOf <- SingleDupOf
    VaultOf <- SingleVaultOf
    CandidateOf <- SingleCandidateOf
    BurnsOf <- NoBurnsOf
    Executors = {e1}
    MaxHeight = 4
    MaxFork = 1
    MaxReorgDepth = 1
    RequiredConfirmations = 2
PROPERTY BuriedAttemptResolved
