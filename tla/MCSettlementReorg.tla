------------------------- MODULE MCSettlementReorg -------------------------
(* The instance of MCSettlementExecution, with reorganisations remembered.   *)
EXTENDS MCSettlementExecution, SettlementReorg
=============================================================================
