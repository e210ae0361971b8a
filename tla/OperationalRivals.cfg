CONSTANTS
    h1 = h1
    h2 = h2
    p = p
    root = root
    Txs <- MCTxs
    ProfileOf <- MCHeartbeats
    LegacyKeys <- MCLegacyKeys
    ChainTxs <- MCChainTxs
    ParentOf <- MCRivals
    Root = root
    SourceOf <- MCSourceOf
    InputsOf <- MCInputsOf
    Heights <- MCHeights
    JournalBlocks <- MCBlocks
    MaxHeight = 4
    MaxBranches = 1
    MaxDepth = 2
    Final = 2
    AbandonDelay = 1
    LookupsFail = TRUE
    TickGrowth = 1
    MaxCrashes = 1
SPECIFICATION Spec
INVARIANTS KeysOfConfirmed NoneQuarantined
PROPERTIES HistoryKept ActiveHeld
