------------------------- MODULE MCOperationalDaemon -------------------------
(* Operational transactions h1 and h2 and the Phase 1 transaction p: rival    *)
(* heartbeats that spend its output, or a heartbeat and an SCS update.        *)
EXTENDS OperationalDaemon

CONSTANTS h1, h2, p, root

MCTxs == {h1, h2}
MCHeartbeats == [t \in Txs |-> "dup"]
MCLegacyKeys == {p}
MCChainTxs == Txs \cup LegacyKeys
MCRivals == [t \in ChainTxs |-> IF t = p THEN root ELSE p]
MCNone == {}
MCSourceOf == [t \in Txs |-> ParentOf[t]]
MCInputsOf == [t \in Txs |-> {ParentOf[t]}]
MCHeights == 1..MaxHeight
MCBlocks == Blocks
=============================================================================
