SPECIFICATION Spec
CONSTANTS
    b1 = b1  c1 = c1  c2 = c2  d1 = d1  d2 = d2  v1 = v1
    r1 = r1  r2 = r2  e1 = e1  e2 = e2  t1 = t1
    Burns = {b1}
    Boxes = {d1, d2, v1}
    Candidates = {c1, c2}
    Reservations = {r1, r2}
    LegacyTxs = {t1}
    BurnOf <- RacingBurnOf
    DupOf <- RacingDupOf
    VaultOf <- RacingVaultOf
    CandidateOf <- RacingCandidateOf
    BurnsOf <- LegacyBurnsOf
    Executors = {e1, e2}
    MaxHeight = 1
    MaxFork = 0
    MaxReorgDepth = 0
    RequiredConfirmations = 1
SYMMETRY Symmetry
PROPERTIES
    ImplementsPayoutOnce
    BroadcastAuthorised
