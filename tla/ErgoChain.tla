------------------------------ MODULE ErgoChain ------------------------------
(***************************************************************************)
(* The Ergo network as the relayer uses it: transactions that were handed   *)
(* to it may enter and leave the mempool, be mined, and be displaced by a    *)
(* reorganisation.  Not code of the repository: what is assumed of it is     *)
(* that a longer branch replaces the tip, that two transactions spending a   *)
(* common box are never in the same chain, and that a block displaced by a   *)
(* longer branch does not come back.                                         *)
(***************************************************************************)
EXTENDS SettlementTables

CONSTANT MaxReorgDepth      \* deepest reorganisation

ASSUME ReorgAssumption == MaxReorgDepth \in Nat

VARIABLES
    tip,            \* the best block
    included,       \* the block of the best chain that holds a candidate's transaction
    pool,           \* candidates whose transaction is in the mempool
    broadcasts      \* how often a candidate's transaction was handed to the network

chain == <<tip, included, pool, broadcasts>>

ChainTypeOK ==
    /\ tip \in Blocks
    /\ included \in [Candidates -> Blocks \cup {NoBlock}]
    /\ pool \in SUBSET Candidates
    /\ broadcasts \in [Candidates -> Nat]

ChainInit ==
    /\ tip = [height |-> 1, fork |-> 0]
    /\ included = [c \in Candidates |-> NoBlock]
    /\ pool = {}
    /\ broadcasts = [c \in Candidates |-> 0]

Known(c) == broadcasts[c] > 0

\* Transactions of the new branch: none spends a box another one spends.
SpendOnce(placed) ==
    \A c, d \in Candidates :
        placed[c] # NoBlock /\ placed[d] # NoBlock /\ c # d
            => {DupOf[c], VaultOf[c]} \cap {DupOf[d], VaultOf[d]} = {}

\* The transactions S go into block b, `kept' stay where they are.
Place(S, b, kept) ==
    [c \in Candidates |-> IF c \in S THEN b ELSE IF c \in kept THEN included[c] ELSE NoBlock]

Mine(S) ==
    LET next == [tip EXCEPT !.height = tip.height + 1]
        placed == Place(S, next, {c \in Candidates : included[c] # NoBlock}) IN
    /\ tip.height < MaxHeight
    /\ \A c \in S : Known(c) /\ included[c] = NoBlock
    /\ SpendOnce(placed)
    /\ tip' = next
    /\ included' = placed
    /\ pool' = pool \ S
    /\ UNCHANGED broadcasts

\* A branch that forks off `depth' blocks below the tip overtakes it by one
\* block; it holds the transactions S in its block of height h, and those it
\* displaces and does not hold go back to the mempool.
Reorg(depth, h, S) ==
    LET base == tip.height - depth
        kept == {c \in Candidates : included[c] # NoBlock /\ included[c].height <= base}
        placed == Place(S, [height |-> h, fork |-> tip.fork + 1], kept) IN
    /\ tip.height < MaxHeight /\ tip.fork < MaxFork
    /\ depth < tip.height
    /\ h > base
    /\ \A c \in S : Known(c) /\ c \notin kept
    /\ SpendOnce(placed)
    /\ tip' = [height |-> tip.height + 1, fork |-> tip.fork + 1]
    /\ included' = placed
    /\ pool' = (pool \cup {c \in Candidates : included[c] # NoBlock /\ c \notin kept}) \ S
    /\ UNCHANGED broadcasts

\* A node or one of its peers offers the transaction to the mempool again.
EnterPool(c) ==
    /\ Known(c) /\ included[c] = NoBlock
    /\ pool' = pool \cup {c}
    /\ UNCHANGED <<tip, included, broadcasts>>

LeavePool(c) ==
    /\ c \in pool
    /\ pool' = pool \ {c}
    /\ UNCHANGED <<tip, included, broadcasts>>

\* Handing a transaction to the network.
Broadcast(c) ==
    /\ broadcasts' = [broadcasts EXCEPT ![c] = broadcasts[c] + 1]
    /\ UNCHANGED <<tip, included, pool>>

ChainNext ==
    \/ \E S \in SUBSET Candidates : Mine(S)
    \/ \E depth \in 1..MaxReorgDepth, h \in 1..(tip.height + 1), S \in SUBSET Candidates :
          Reorg(depth, h, S)
    \/ \E c \in Candidates : EnterPool(c) \/ LeavePool(c)

\* One stable read of a transaction by two sources that agree.
View(c) == ObservationOf(included[c], c \in pool, tip)

\* Its transaction has the confirmations the policy asks for.
Buried(c) == View(c).status = "confirmed_final"
=============================================================================
