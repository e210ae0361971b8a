-------------------------- MODULE MCOperationalReorg --------------------------
(* OperationalDaemon with an SCS update, or a heartbeat and its successor, at *)
(* most one failing read, and a history of the faults.                        *)
EXTENDS MCOperationalDaemon, OperationalReorg

CONSTANT h3     \* a heartbeat that spends the DUP box h1 leaves

MCSuccession == {h1, h2, h3}
MCKinds == [t \in Txs |-> IF t = h2 THEN "scs" ELSE "dup"]
MCChain == [t \in ChainTxs |-> IF t = h1 THEN p ELSE IF t = h3 THEN h1 ELSE root]

VARIABLES
    executed,       \* the transactions that are executed
    faulted         \* history: whether a read failed or the quorum expired

history == <<executed, faulted>>

ReorgInit ==
    /\ Init /\ DepthsInit
    /\ executed \in {{h1, h3}, {h2}} /\ faulted = FALSE

\* A step of the daemon that gets what it reads.
DaemonReads ==
    Start \/ BeginTick \/ DetectReorg \/ DetectNone \/ Scan \/ Purge \/ Reconcile

\* The successor is executed once its predecessor is confirmed, in behaviours without
\* faults and reverted burns.
Fault ==
    /\ ~faulted /\ ~Recorded(h3)
    /\ ReadFails \/ DetectUnavailable
    /\ faulted' = TRUE
    /\ UNCHANGED executed

Succeeds ==
    /\ ~faulted /\ \A k \in LegacyKeys : phase1[k] = "phase1_created"
    /\ In(h1, {"confirmed"})

ReorgNext ==
    /\ \/ Fault
       \/ /\ \/ DaemonReads
             \/ ~Recorded(h3) /\ \E k \in LegacyKeys : RevertBurn(k)
             \/ \E t \in executed : Execute(t) /\ (t = h3 => Succeeds)
             \/ MoveChain
          /\ UNCHANGED history
    /\ Remember

ReorgSpec == ReorgInit /\ [][ReorgNext]_<<vars, depths, history>> /\ WF_vars(DaemonReads)

Stale(t) == In(t, {"confirmed"}) /\ ~Canonical(attempt[t].block)

\* A confirmation whose block was reorganised away does not stay, unless a read
\* failed: the next tick detects it, and the scan binds the row to its new block or
\* reopens it, also when a successor was journaled in the meantime and is active
\* under the same unique index.
StaleReconciled == \A t \in Txs : Stale(t) ~> (~Stale(t) \/ faulted)

\* handleErgoReorg: unless a read failed, the key of a Phase 1 transaction that left
\* the chain leaves the local history.
PhantomPurgedByReads ==
    \A k \in LegacyKeys :
        (k \in avl /\ ~Mined(k)) ~> (k \notin avl \/ Mined(k) \/ faulted)
=============================================================================
