CONSTANTS
    h1 = h1
    h2 = h2
    p = p
    root = root
    Txs <- MCNone
    ProfileOf <- MCHeartbeats
    LegacyKeys <- MCLegacyKeys
    ChainTxs <- MCChainTxs
    ParentOf <- MCRivals
    Root = root
    SourceOf <- MCSourceOf
    InputsOf <- MCInputsOf
    Heights <- MCHeights
    JournalBlocks <- MCBlocks
    MaxHeight = 4
    MaxBranches = 1
    MaxDepth = 3
    Final = 2
    AbandonDelay = 1
    LookupsFail = TRUE
    TickGrowth = 1
    MaxCrashes = 0
SPECIFICATION RetryingSpec
PROPERTY PhantomKeyPurged
