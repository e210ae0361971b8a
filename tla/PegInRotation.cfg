CONSTANTS
    lock1 = lock1
    lock2 = lock2
    commit1 = commit1
    commit2 = commit2
    refund = refund
    root = root
    PegIns <- MCTwo
    CommitOf <- MCCommitOf
    LockOf <- MCLockOf
    Kinds <- MCExact
    Retained <- MCMinted
    Txs <- MCTxs
    ProfileOf <- MCProfileOf
    SourceOf <- MCSourceOf
    InputsOf <- MCInputsOf
    LegacyKeys <- MCNone
    ChainTxs <- MCTwoChain
    ParentOf <- MCParentOf
    Root = root
    Heights <- MCHeights
    JournalBlocks <- MCBlocks
    MintBlocks <- MCMintBlocks
    MaxHeight = 3
    MaxBranches = 0
    MaxDepth = 2
    Confirms = 2
    Recollection = "holding"
    BatchLimit = 1
    PageLimit = 1
    ReadsFail = FALSE
    MaxMints = 2
    MaxCrashes = 0
SPECIFICATION FairSpec

PROPERTIES LateMintQuarantined LostMintReset
