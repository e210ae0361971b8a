CONSTANTS
    h1 = h1
    h2 = h2
    h3 = h3
    p = p
    root = root
    Txs <- MCSuccession
    ProfileOf <- MCKinds
    LegacyKeys <- MCLegacyKeys
    ChainTxs <- MCChainTxs
    ParentOf <- MCChain
    Root = root
    SourceOf <- MCSourceOf
    InputsOf <- MCInputsOf
    Heights <- MCHeights
    JournalBlocks <- MCBlocks
    MaxHeight = 4
    MaxBranches = 1
    MaxDepth = 2
    Final = 2
    AbandonDelay = 1
    LookupsFail = TRUE
    TickGrowth = 1
    MaxCrashes = 0
SPECIFICATION ReorgSpec

INVARIANT ConfirmedWhereMined
PROPERTIES StaleReconciled FinalConfirmed PhantomPurgedByReads
