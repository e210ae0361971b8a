CONSTANTS
    lock1 = lock1
    lock2 = lock2
    commit1 = commit1
    commit2 = commit2
    refund = refund
    root = root
    PegIns <- MCOne
    CommitOf <- MCCommitOf
    LockOf <- MCLockOf
    Kinds <- MCKinds
    Retained <- MCAll
    Txs <- MCTxs
    ProfileOf <- MCProfileOf
    SourceOf <- MCSourceOf
    InputsOf <- MCInputsOf
    LegacyKeys <- MCNone
    ChainTxs <- MCRefundChain
    ParentOf <- MCParentOf
    Root = root
    Heights <- MCHeights
    JournalBlocks <- MCBlocks
    MintBlocks <- MCMintBlocks
    MaxHeight = 4
    MaxBranches = 1
    MaxDepth = 2
    Confirms = 2
    Recollection = "authorising"
    BatchLimit = 1
    PageLimit = 1
    ReadsFail = TRUE
    MaxMints = 1
    MaxCrashes = 1
SPECIFICATION Spec

INVARIANTS ReceiptBuried DisplacementNoticed GivenUpSafely ReceiptAgreesWithAttempt
PROPERTIES MintAbandonedOnlyIfGone ImplementsPegInJournal
