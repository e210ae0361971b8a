----------------------------- MODULE ErgoBranches -----------------------------
(***************************************************************************)
(* The Ergo chain with its branches, as a client that reads headers by       *)
(* height sees it.  Not code of the repository.  The best branch is the      *)
(* sequence of its blocks' branch numbers; another branch, possibly a        *)
(* shorter one with more work, may replace its last blocks at any time, and  *)
(* a branch that was left never becomes the best one again.  A transaction   *)
(* spends the output of its parent, so it is mined after its parent and at   *)
(* most one child of a transaction is in a branch; the children of the root  *)
(* spend boxes of their own.                                                 *)
(***************************************************************************)
EXTENDS Naturals, Sequences, FiniteSets

CONSTANTS
    ChainTxs,       \* transactions
    ParentOf,       \* the transaction whose output a transaction spends
    Root,           \* the parent of the first ones
    MaxHeight,      \* bound on the height
    MaxBranches,    \* bound on the number of reorganisations
    MaxDepth        \* bound on the blocks one of them replaces

ASSUME BranchesAssumption ==
    /\ MaxHeight \in Nat /\ MaxBranches \in Nat /\ MaxDepth \in Nat
    /\ ParentOf \in [ChainTxs -> ChainTxs \cup {Root}]

VARIABLES
    best,           \* the branch number of each block of the best branch
    branches,       \* reorganisations so far
    minedAt,        \* height at which the best branch holds a transaction, or 0
    sent            \* transactions that were handed to the network

branchVars == <<best, branches, minedAt, sent>>

NoBlock == [height |-> 0]
Blocks == [height : 1..MaxHeight, branch : 0..MaxBranches]
BlockAt(h) == [height |-> h, branch |-> best[h]]
Canonical(b) == b.height \in DOMAIN best /\ best[b.height] = b.branch
Tip == BlockAt(Len(best))

BranchesTypeOK ==
    /\ best \in Seq(0..MaxBranches) /\ Len(best) \in 1..MaxHeight
    /\ branches \in 0..MaxBranches
    /\ minedAt \in [ChainTxs -> 0..MaxHeight]
    /\ sent \subseteq ChainTxs

Mined(t) == minedAt[t] > 0
Confirmations(t) == Len(best) - minedAt[t] + 1

\* A placement that a branch may hold.
Consistent(placed) ==
    \A t \in ChainTxs : placed[t] > 0 /\ ParentOf[t] # Root =>
        /\ placed[ParentOf[t]] \in 1..placed[t]
        /\ \A u \in ChainTxs \ {t} : placed[u] > 0 => ParentOf[u] # ParentOf[t]

Mine(S) ==
    LET placed == [t \in ChainTxs |-> IF t \in S THEN Len(best) + 1 ELSE minedAt[t]] IN
    /\ Len(best) < MaxHeight
    /\ \A t \in S : t \in sent /\ ~Mined(t)
    /\ Consistent(placed)
    /\ best' = Append(best, best[Len(best)])
    /\ minedAt' = placed
    /\ UNCHANGED <<branches, sent>>

\* The last `depth' blocks are replaced by `length' others, and the first of
\* them holds the transactions S.
SwitchBranch(depth, length, S) ==
    LET base == Len(best) - depth
        placed == [t \in ChainTxs |->
                     IF t \in S THEN base + 1 ELSE IF minedAt[t] <= base THEN minedAt[t] ELSE 0] IN
    /\ branches < MaxBranches
    /\ base > 0 /\ base + length <= MaxHeight
    /\ \A t \in S : t \in sent /\ (minedAt[t] = 0 \/ minedAt[t] > base)
    /\ Consistent(placed)
    /\ branches' = branches + 1
    /\ best' = [h \in 1..(base + length) |-> IF h <= base THEN best[h] ELSE branches + 1]
    /\ minedAt' = placed
    /\ UNCHANGED sent

ChainStep ==
    \/ \E S \in SUBSET ChainTxs : Mine(S)
    \/ \E depth \in 1..MaxDepth : \E length \in 1..(depth + 1), S \in SUBSET ChainTxs :
          SwitchBranch(depth, length, S)
=============================================================================
