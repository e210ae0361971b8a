---------------------------- MODULE MCPegInDaemon ----------------------------
(* Peg-ins 1 and 2 with their locks and commitments, and the refund of the   *)
(* first lock.                                                               *)
EXTENDS PegInDaemon

CONSTANTS lock1, lock2, commit1, commit2, refund, root

MCOne == {1}
MCTwo == {1, 2}
MCNone == {}
MCCommitOf == [p \in PegIns |-> IF p = 1 THEN commit1 ELSE commit2]
MCLockOf == [p \in PegIns |-> IF p = 1 THEN lock1 ELSE lock2]
MCExact == {"exact"}
MCExactOrLegacy == {"exact", "legacy"}
MCKinds == PegInKinds
MCTxs == {CommitOf[p] : p \in PegIns}
MCProfileOf == [t \in Txs |-> "vault"]
MCRefundChain == {lock1, commit1, refund}
MCPlainChain == {lock1, commit1}
MCTwoChain == {lock1, commit1, lock2, commit2}
MCParentOf == [t \in ChainTxs |->
    CASE t \in {lock1, lock2} -> root
      [] t = commit2 -> lock2
      [] OTHER -> lock1]
MCSourceOf == [t \in Txs |-> ParentOf[t]]
MCInputsOf == [t \in Txs |-> {ParentOf[t]}]
MCHeights == 1..MaxHeight
MCBlocks == Blocks
MCMintBlocks == 1..MaxMints
MCAll == {"absent", "detected", "consume_submitted", "consume_confirmed", "minting", "minted"}
MCMinted == {"minted"}
MCSubmitted == {"minting", "minted"}
=============================================================================
