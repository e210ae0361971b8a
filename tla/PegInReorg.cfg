CONSTANTS
    lock1 = lock1
    lock2 = lock2
    commit1 = commit1
    commit2 = commit2
    refund = refund
    root = root
    PegIns <- MCOne
    CommitOf <- MCCommitOf
    LockOf <- MCLockOf
    Kinds <- MCExactOrLegacy
    Retained <- MCSubmitted
    Txs <- MCTxs
    ProfileOf <- MCProfileOf
    SourceOf <- MCSourceOf
    InputsOf <- MCInputsOf
    LegacyKeys <- MCNone
    ChainTxs <- MCPlainChain
    ParentOf <- MCParentOf
    Root = root
    Heights <- MCHeights
    JournalBlocks <- MCBlocks
    MintBlocks <- MCMintBlocks
    MaxHeight = 4
    MaxBranches = 1
    MaxDepth = 2
    Confirms = 2
    Recollection = "holding"
    BatchLimit = 1
    PageLimit = 1
    ReadsFail = FALSE
    MaxMints = 2
    MaxCrashes = 0
SPECIFICATION FairSpec

INVARIANT InFlightNeverHeld
PROPERTIES SelectionResumes LostCommitmentContained
