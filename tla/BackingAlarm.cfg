CONSTANTS
    b1 = b1
    c1 = c1
    d1 = d1
    l1 = l1
    t1 = t1
    x1 = x1
    Burns = {b1}
    Boxes = {x1}
    Candidates = {c1}
    BurnOf <- MCBurnOf
    DupOf <- MCBox
    VaultOf <- MCBox
    Reservations = {}
    CandidateOf <- MCCandidateOf
    LegacyTxs = {t1}
    BurnsOf <- MCBurnsOf
    MaxHeight = 3
    MaxFork = 1
    RequiredConfirmations = 2
    Deposits = {d1}
    Losses = {l1}
    Amount <- MCAmount
    MaxSideHeight = 3
    MaxBranches = 1
    MaxDepth = 1
    MaxSideDepth = 2
    ReaderLag = 1
    TickGrowth = 1
SPECIFICATION OneSwitchSpec
INVARIANTS ClearMeansBacked DeficitExplained
PROPERTY AlarmKeepsDeciding
