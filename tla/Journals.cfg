SPECIFICATION JournalsSpec
CONSTANTS
    b1 = b1  b2 = b2
    c1 = c1  c2 = c2
    d1 = d1  v1 = v1  v2 = v2
    r1 = r1  r2 = r2  r3 = r3
    t1 = t1  t2 = t2
    Burns = {b1, b2}
    Boxes = {d1, v1, v2}
    Candidates = {c1, c2}
    Reservations = {r1, r2, r3}
    LegacyTxs = {t1, t2}
    BurnOf <- MCBurnOf
    DupOf <- MCDupOf
    VaultOf <- MCVaultOf
    CandidateOf <- MCCandidateOf
    BurnsOf <- MCBurnsOf
    MaxHeight = 2
    MaxFork = 0
    RequiredConfirmations = 2
INVARIANTS
    OneAttemptEver
    AttemptHasAuthority
    AttemptRowsValid
    ClaimsExclusive
    SubmittedRowsClaimed
PROPERTIES
    LifecyclesMoveForward
