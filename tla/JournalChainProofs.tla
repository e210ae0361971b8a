-------------------------- MODULE JournalChainProofs --------------------------
(***************************************************************************)
(* Proofs about what the daemon's models of consolidation and of peg-ins are *)
(* both built from, for every value of the constants: the Ergo chain with    *)
(* its branches (what a new block and a change of branches leave of the      *)
(* blocks and transactions that a client has read), and the journal of       *)
(* operational transactions.                                                 *)
(***************************************************************************)
EXTENDS OperationalJournal, ErgoBranches, TLAPS

-----------------------------------------------------------------------------
(* The chain. *)

\* A sequence is a function on an interval, and conversely.
LEMMA SeqFunction ==
    ASSUME NEW S, NEW s \in Seq(S)
    PROVE  Len(s) \in Nat /\ s \in [1..Len(s) -> S]
  OBVIOUS

LEMMA FunctionSeq ==
    ASSUME NEW S, NEW n \in Nat, NEW f \in [1..n -> S]
    PROVE  f \in Seq(S) /\ Len(f) = n
  OBVIOUS

\* A transaction is mined within the best branch.
MinedInBest == \A t \in ChainTxs : minedAt[t] <= Len(best)

ChainInv == BranchesTypeOK /\ MinedInBest

\* A block at a height of the best branch.
LEMMA BlockAtType ==
    ASSUME BranchesTypeOK, NEW h \in DOMAIN best
    PROVE  BlockAt(h) \in Blocks
<1>1. h \in 1..MaxHeight /\ best[h] \in 0..MaxBranches
  BY BranchesAssumption DEF BranchesTypeOK
<1> QED
  BY <1>1, Zenon DEF BlockAt, Blocks

LEMMA MineKeepsInv ==
    ASSUME ChainInv, NEW S \in SUBSET ChainTxs, Mine(S)
    PROVE  ChainInv'
<1>1. best \in Seq(0..MaxBranches) /\ Len(best) \in 1..MaxHeight /\ best[Len(best)] \in 0..MaxBranches
  BY BranchesAssumption DEF ChainInv, BranchesTypeOK
<1>2. best' \in Seq(0..MaxBranches) /\ Len(best') = Len(best) + 1
  BY <1>1 DEF Mine
<1>3. Len(best') \in 1..MaxHeight
  BY <1>1, <1>2, BranchesAssumption DEF Mine
<1>4. minedAt' \in [ChainTxs -> 0..MaxHeight] /\ \A t \in ChainTxs : minedAt'[t] <= Len(best')
  BY <1>1, <1>2, <1>3, BranchesAssumption DEF Mine, ChainInv, BranchesTypeOK, MinedInBest
<1> QED
  BY <1>2, <1>3, <1>4, Zenon DEF Mine, ChainInv, BranchesTypeOK, MinedInBest

LEMMA SwitchKeepsInv ==
    ASSUME ChainInv, NEW depth \in 1..MaxDepth, NEW length \in 1..(depth + 1),
           NEW S \in SUBSET ChainTxs, SwitchBranch(depth, length, S)
    PROVE  ChainInv'
<1> DEFINE base == Len(best) - depth
<1>1. /\ best \in Seq(0..MaxBranches) /\ Len(best) \in 1..MaxHeight
      /\ branches \in 0..MaxBranches /\ branches + 1 \in 0..MaxBranches
      /\ base \in 1..Len(best) /\ base + length \in 1..MaxHeight /\ length \in Nat \ {0}
  BY BranchesAssumption DEF ChainInv, BranchesTypeOK, SwitchBranch
<1>2. best' = [h \in 1..(base + length) |-> IF h <= base THEN best[h] ELSE branches + 1]
  BY Zenon DEF SwitchBranch
<1>3. base \in Nat /\ base + length \in Nat
  BY <1>1, BranchesAssumption
<1>4. best' \in Seq(0..MaxBranches) /\ Len(best') = base + length
  <2>1. PICK n \in Nat : n = base + length
    BY <1>3, Zenon
  <2>2. PICK m \in Nat : m = Len(best) /\ best \in [1..m -> 0..MaxBranches]
    BY <1>1, SeqFunction, Zenon
  <2> HIDE DEF base
  <2>3. \A h \in 1..n : (IF h <= base THEN best[h] ELSE branches + 1) \in 0..MaxBranches
    BY <1>1, <1>3, <2>1, <2>2
  <2>4. best' \in [1..n -> 0..MaxBranches]
    BY <1>2, <2>1, <2>3, Zenon
  <2> QED
    BY <2>1, <2>4, FunctionSeq, Zenon
<1>5. minedAt' \in [ChainTxs -> 0..MaxHeight] /\ \A t \in ChainTxs : minedAt'[t] <= Len(best')
  <2>1. minedAt' = [t \in ChainTxs |-> IF t \in S THEN base + 1
                                       ELSE IF minedAt[t] <= base THEN minedAt[t] ELSE 0]
    BY Zenon DEF SwitchBranch
  <2>2. minedAt \in [ChainTxs -> 0..MaxHeight]
    BY Zenon DEF ChainInv, BranchesTypeOK
  <2>3. base \in Nat /\ base + 1 \in 0..MaxHeight /\ base + 1 <= Len(best') /\ base <= Len(best')
    BY <1>1, <1>4, BranchesAssumption
  <2>4. Len(best') \in Nat
    BY <1>1, <1>4
  <2> HIDE DEF base
  <2> QED
    BY <2>1, <2>2, <2>3, <2>4, BranchesAssumption
<1> QED
  BY <1>1, <1>4, <1>5, Zenon DEF SwitchBranch, ChainInv, BranchesTypeOK, MinedInBest

-----------------------------------------------------------------------------
(* What a step of the chain leaves. *)

\* Later blocks are of later branches, and the last one is of the latest.
BranchOrder ==
    /\ \A i \in DOMAIN best : best[i] <= branches
    /\ best[Len(best)] = branches

\* The best branch keeps its blocks up to `base' and what they hold; the blocks
\* above are new.
KeptTo(base) ==
    /\ base \in 1..Len(best)
    /\ \A h \in 1..base : h \in DOMAIN best' /\ best'[h] = best[h]
    /\ \A t \in ChainTxs : minedAt[t] \in 1..base => minedAt'[t] = minedAt[t]
    /\ Len(best') > base
    /\ \/ /\ base = Len(best) /\ branches' = branches
          /\ \A h \in DOMAIN best' : h > base => best'[h] = best[Len(best)]
       \/ /\ branches' = branches + 1
          /\ \A h \in DOMAIN best' : h > base => best'[h] = branches'

LEMMA MineKeeps ==
    ASSUME ChainInv, NEW S \in SUBSET ChainTxs, Mine(S)
    PROVE  KeptTo(Len(best))
<1>1. best \in Seq(0..MaxBranches) /\ Len(best) \in 1..MaxHeight /\ best[Len(best)] \in 0..MaxBranches
  BY BranchesAssumption DEF ChainInv, BranchesTypeOK
<1>2. /\ Len(best') = Len(best) + 1 /\ best' \in Seq(0..MaxBranches)
      /\ \A i \in 1..Len(best) : best'[i] = best[i]
      /\ best'[Len(best) + 1] = best[Len(best)]
  BY <1>1 DEF Mine
<1>3. DOMAIN best = 1..Len(best) /\ DOMAIN best' = 1..(Len(best) + 1) /\ Len(best) \in Nat \ {0}
  BY <1>1, <1>2, BranchesAssumption
<1>4. branches' = branches
  BY Zenon DEF Mine
<1>5. \A t \in ChainTxs : minedAt[t] \in 1..Len(best) => minedAt'[t] = minedAt[t]
  BY <1>3 DEF Mine, Mined
<1>6. \A h \in DOMAIN best' : h > Len(best) => best'[h] = best[Len(best)]
  BY <1>2, <1>3
<1> QED
  BY <1>2, <1>3, <1>4, <1>5, <1>6 DEF KeptTo

LEMMA SwitchKeeps ==
    ASSUME ChainInv, NEW depth \in 1..MaxDepth, NEW length \in 1..(depth + 1),
           NEW S \in SUBSET ChainTxs, SwitchBranch(depth, length, S)
    PROVE  KeptTo(Len(best) - depth)
<1> DEFINE base == Len(best) - depth
<1>1. /\ best \in Seq(0..MaxBranches) /\ Len(best) \in 1..MaxHeight
      /\ branches \in 0..MaxBranches
      /\ base \in 1..Len(best) /\ base + length \in 1..MaxHeight /\ length \in Nat \ {0}
  BY BranchesAssumption DEF ChainInv, BranchesTypeOK, SwitchBranch
<1>2. best' = [h \in 1..(base + length) |-> IF h <= base THEN best[h] ELSE branches + 1]
  BY Zenon DEF SwitchBranch
<1>3. base + length \in Nat
  BY <1>1, BranchesAssumption
<1>4. Len(best') = base + length
  <2> HIDE DEF base
  <2> QED
    BY <1>2, <1>3
<1>5. /\ minedAt' = [t \in ChainTxs |-> IF t \in S THEN base + 1
                                        ELSE IF minedAt[t] <= base THEN minedAt[t] ELSE 0]
      /\ \A t \in S : minedAt[t] = 0 \/ minedAt[t] > base
      /\ branches' = branches + 1
  BY Zenon DEF SwitchBranch
<1>6. base \in Nat /\ branches \in Nat /\ length \in Nat /\ DOMAIN best = 1..Len(best)
  BY <1>1, BranchesAssumption
<1> HIDE DEF base
<1>0. DOMAIN best' = 1..(base + length)
  BY <1>2, Zenon
<1>7. \A i \in 1..(base + length) : /\ i <= base => i \in DOMAIN best /\ best'[i] = best[i]
                                    /\ i > base => best'[i] = branches + 1
  BY <1>1, <1>2, <1>6
<1>8. ASSUME NEW t \in ChainTxs, minedAt[t] \in 1..base PROVE minedAt'[t] = minedAt[t]
  BY <1>5, <1>0, <1>6, <1>8
<1>9. Len(best') > base
  BY <1>4, <1>0, <1>6, <1>1
<1>10. \A h \in 1..base : h \in DOMAIN best' /\ best'[h] = best[h]
  BY <1>1, <1>0, <1>6, <1>7
<1>11. \A h \in DOMAIN best' : h > base => best'[h] = branches'
  BY <1>5, <1>0, <1>6, <1>7, Zenon
<1>12. KeptTo(base)
  BY <1>1, <1>5, <1>8, <1>9, <1>10, <1>11, Zenon DEF KeptTo
<1> QED
  BY <1>12, Zenon DEF base

\* The facts about the numbers and lengths that the lemmas below need.
LEMMA BranchNumbers ==
    ASSUME ChainInv
    PROVE  /\ Len(best) \in Nat \ {0} /\ DOMAIN best = 1..Len(best) /\ branches \in Nat
           /\ \A h \in DOMAIN best : best[h] \in Nat
  BY BranchesAssumption DEF ChainInv, BranchesTypeOK

LEMMA StepKeeps ==
    ASSUME ChainInv, ChainStep
    PROVE  ChainInv' /\ \E base \in 1..Len(best) : KeptTo(base)
<1>1. ASSUME NEW S \in SUBSET ChainTxs, Mine(S)
      PROVE  ChainInv' /\ \E base \in 1..Len(best) : KeptTo(base)
  BY <1>1, MineKeeps, MineKeepsInv, Zenon DEF KeptTo
<1>2. ASSUME NEW depth \in 1..MaxDepth, NEW length \in 1..(depth + 1),
             NEW S \in SUBSET ChainTxs, SwitchBranch(depth, length, S)
      PROVE  ChainInv' /\ \E base \in 1..Len(best) : KeptTo(base)
  BY <1>2, SwitchKeeps, SwitchKeepsInv, Zenon DEF KeptTo
<1> QED
  BY <1>1, <1>2, Zenon DEF ChainStep

\* The same in the form the lemmas below use it.
LEMMA StepEffect ==
    ASSUME ChainInv, BranchOrder, ChainStep
    PROVE  \E base \in Nat :
             /\ base > 0 /\ base <= Len(best) /\ base < Len(best')
             /\ \A h \in 1..base : h \in DOMAIN best /\ h \in DOMAIN best' /\ best'[h] = best[h]
             /\ \A t \in ChainTxs : minedAt[t] \in 1..base => minedAt'[t] = minedAt[t]
             /\ branches' \in {branches, branches + 1}
             /\ branches' = branches => base = Len(best)
             /\ \A h \in DOMAIN best' : h > base => best'[h] = branches'
             /\ Len(best') \in Nat /\ DOMAIN best' = 1..Len(best')
<1>1. PICK base \in 1..Len(best) : KeptTo(base)
  BY StepKeeps, Zenon
<1>2. /\ Len(best) \in Nat \ {0} /\ DOMAIN best = 1..Len(best) /\ branches \in Nat
  BY BranchNumbers, Zenon
<1>3. Len(best') \in Nat \ {0} /\ DOMAIN best' = 1..Len(best')
  BY StepKeeps, BranchesAssumption DEF ChainInv, BranchesTypeOK
<1>4. base \in Nat /\ base > 0 /\ base <= Len(best)
  BY <1>2
<1>5. best[Len(best)] = branches
  BY Zenon DEF BranchOrder
<1>6. /\ branches' \in {branches, branches + 1}
      /\ branches' = branches => base = Len(best)
      /\ \A h \in DOMAIN best' : h > base => best'[h] = branches'
  <2>1. CASE /\ base = Len(best) /\ branches' = branches
             /\ \A h \in DOMAIN best' : h > base => best'[h] = best[Len(best)]
    BY <1>5, <2>1, Zenon
  <2>2. CASE /\ branches' = branches + 1
             /\ \A h \in DOMAIN best' : h > base => best'[h] = branches'
    <3>1. branches' # branches
      BY <1>2, <2>2
    <3> QED
      BY <2>2, <3>1, Zenon
  <2> QED
    BY <1>1, <2>1, <2>2, Zenon DEF KeptTo
<1>7. \A h \in 1..base : h \in DOMAIN best
  BY <1>2, <1>4
<1>8. Len(best') > base
  BY <1>1, Zenon DEF KeptTo
<1>9. base < Len(best')
  BY <1>3, <1>4, <1>8, Zenon
<1>10. /\ \A h \in 1..base : h \in DOMAIN best' /\ best'[h] = best[h]
       /\ \A t \in ChainTxs : minedAt[t] \in 1..base => minedAt'[t] = minedAt[t]
  BY <1>1, Zenon DEF KeptTo
<1> QED
  BY <1>3, <1>4, <1>6, <1>7, <1>9, <1>10, Zenon

LEMMA StepKeepsOrder ==
    ASSUME ChainInv, ChainStep, BranchOrder
    PROVE  BranchOrder'
<1>1. PICK base \in Nat :
             /\ base > 0 /\ base <= Len(best) /\ base < Len(best')
             /\ \A h \in 1..base : h \in DOMAIN best /\ h \in DOMAIN best' /\ best'[h] = best[h]
             /\ branches' \in {branches, branches + 1}
             /\ \A h \in DOMAIN best' : h > base => best'[h] = branches'
             /\ Len(best') \in Nat /\ DOMAIN best' = 1..Len(best')
  BY StepEffect, Zenon
<1>2. branches \in Nat /\ \A h \in DOMAIN best : best[h] \in Nat /\ best[h] <= branches
  BY BranchNumbers, Zenon DEF BranchOrder
<1>3. Len(best') \in DOMAIN best'
  BY <1>1
<1>4. best'[Len(best')] = branches'
  BY <1>1, <1>3, Zenon
<1>5. ASSUME NEW h \in DOMAIN best' PROVE best'[h] <= branches'
  BY <1>1, <1>2
<1> QED
  BY <1>4, <1>5, Zenon DEF BranchOrder

\* A block that survives a step has kept what it holds.
LEMMA StepKeepsMined ==
    ASSUME ChainInv, ChainStep, BranchOrder, NEW h \in DOMAIN best,
           h \in DOMAIN best', best'[h] = best[h], NEW t \in ChainTxs, minedAt[t] = h
    PROVE  minedAt'[t] = h
<1>1. PICK base \in Nat :
             /\ base > 0
             /\ \A u \in ChainTxs : minedAt[u] \in 1..base => minedAt'[u] = minedAt[u]
             /\ branches' \in {branches, branches + 1}
             /\ branches' = branches => base = Len(best)
             /\ \A i \in DOMAIN best' : i > base => best'[i] = branches'
  BY StepEffect, Zenon
<1>2. /\ branches \in Nat /\ best[h] \in Nat /\ best[h] <= branches
      /\ Len(best) \in Nat /\ h \in 1..Len(best)
  BY BranchNumbers, Zenon DEF BranchOrder
<1>3. h \in 1..base
  BY <1>1, <1>2
<1> QED
  BY <1>1, <1>3, Zenon

-----------------------------------------------------------------------------
(* Blocks a client has read. *)

\* The block was on the best branch once.
WasBest(b) ==
    /\ b \in Blocks
    /\ b.branch <= branches
    /\ b.branch = branches => b.height <= Len(best)

\* A transaction is in block b.
Holds(b, t) == Canonical(b) /\ minedAt[t] = b.height

LEMMA CanonicalWasBest ==
    ASSUME ChainInv, BranchOrder, NEW b \in Blocks, Canonical(b)
    PROVE  WasBest(b)
  BY BranchNumbers DEF BranchOrder, WasBest, Canonical

LEMMA BlockAtCanonical ==
    ASSUME ChainInv, NEW h \in DOMAIN best
    PROVE  BlockAt(h) \in Blocks /\ Canonical(BlockAt(h)) /\ BlockAt(h).height = h
  BY BlockAtType, Zenon DEF ChainInv, BlockAt, Canonical

LEMMA TipRange == ASSUME ChainInv PROVE Tip \in Blocks /\ Canonical(Tip) /\ Tip.height = Len(best)
<1>1. Len(best) \in DOMAIN best
  BY BranchNumbers
<1> QED
  BY <1>1, BlockAtCanonical, Zenon DEF Tip

LEMMA MinedRange ==
    ASSUME ChainInv, NEW t \in ChainTxs, Mined(t)
    PROVE  minedAt[t] \in DOMAIN best /\ minedAt[t] \in Nat
  BY BranchNumbers, BranchesAssumption DEF ChainInv, BranchesTypeOK, MinedInBest, Mined

\* A block that was left never comes back, and a block that is still there has
\* kept everything below it.
LEMMA BlocksStay ==
    ASSUME ChainInv, BranchOrder, ChainStep, NEW b, WasBest(b)
    PROVE  /\ WasBest(b)'
           /\ Canonical(b)' =>
                 /\ Canonical(b)
                 /\ \A c \in Blocks : Canonical(c) /\ c.height <= b.height => Canonical(c)'
                 /\ \A c \in Blocks, t \in ChainTxs :
                       Holds(c, t) /\ c.height <= b.height => Holds(c, t)'
<1>1. PICK base \in Nat :
             /\ base > 0 /\ base <= Len(best) /\ base < Len(best')
             /\ \A h \in 1..base : h \in DOMAIN best /\ h \in DOMAIN best' /\ best'[h] = best[h]
             /\ \A t \in ChainTxs : minedAt[t] \in 1..base => minedAt'[t] = minedAt[t]
             /\ branches' \in {branches, branches + 1}
             /\ branches' = branches => base = Len(best)
             /\ \A h \in DOMAIN best' : h > base => best'[h] = branches'
             /\ Len(best') \in Nat
  BY StepEffect, Zenon
<1>2. Len(best) \in Nat /\ branches \in Nat
  BY BranchNumbers, Zenon
<1>3. /\ b \in Blocks /\ b.height \in Nat /\ b.height > 0 /\ b.branch \in Nat
      /\ b.branch <= branches /\ (b.branch = branches => b.height <= Len(best))
  BY BranchesAssumption DEF WasBest, Blocks
<1>4. WasBest(b)'
  <2>1. b.branch <= branches' /\ (b.branch = branches' => b.height <= Len(best'))
    BY <1>1, <1>2, <1>3
  <2> QED
    BY <1>3, <2>1, Zenon DEF WasBest
<1>5. ASSUME Canonical(b)' PROVE b.height <= base
  <2>1. b.height \in DOMAIN best' /\ best'[b.height] = b.branch
    BY <1>5, Zenon DEF Canonical
  <2> QED
    BY <1>1, <1>2, <1>3, <2>1
<1>6. ASSUME Canonical(b)', NEW c \in Blocks, c.height <= b.height
      PROVE  c.height \in 1..base
  BY <1>1, <1>3, <1>5, <1>6, BranchesAssumption DEF Blocks
<1>7. ASSUME Canonical(b)', NEW c \in Blocks, Canonical(c), c.height <= b.height
      PROVE  Canonical(c)' /\ \A t \in ChainTxs : minedAt[t] = c.height => minedAt'[t] = c.height
  BY <1>1, <1>6, <1>7, Zenon DEF Canonical
<1>8. ASSUME Canonical(b)' PROVE Canonical(b)
  BY <1>1, <1>3, <1>6, <1>8 DEF Canonical
<1> QED
  BY <1>4, <1>7, <1>8, Zenon DEF Holds

-----------------------------------------------------------------------------
(* The journal. *)

JournalInv == JournalTypeOK /\ OneActive /\ KeysOfConfirmed /\ RowsValid

\* A table whose rows in S were abandoned.
LEMMA AbandonedRows ==
    ASSUME attempt \in [Txs -> Rows \cup {NoRow}], NEW S \in SUBSET Txs,
           \A t \in S : In(t, Active)
    PROVE  /\ Abandoned(S) \in [Txs -> Rows \cup {NoRow}]
           /\ \A t \in Txs \ S : Abandoned(S)[t] = attempt[t]
           /\ \A t \in S : /\ attempt[t] \in Rows
                           /\ Abandoned(S)[t] \in Rows
                           /\ Abandoned(S)[t].status = "abandoned"
                           /\ Abandoned(S)[t].disposition = attempt[t].disposition
                           /\ Abandoned(S)[t].block = attempt[t].block
                           /\ Abandoned(S)[t].at = attempt[t].at
<1>1. \A t \in S : attempt[t] \in Rows
  BY DEF In, Active, NoRow
<1> QED
  BY <1>1 DEF Abandoned, Rows, Statuses

\* An empty journal satisfies the invariant.
LEMMA JournalInitial == JournalInit => JournalInv
  BY TxsAssumption
     DEF JournalInit, JournalInv, JournalTypeOK, OneActive, KeysOfConfirmed, RowsValid, NoRow,
         In, Active, Recorded

\* Reservation.
LEMMA ReserveKeepsInv ==
    ASSUME JournalInv, NEW t \in Txs, NEW h \in Heights, Reserve(t, h)
    PROVE  JournalInv'
<1> DEFINE row == [status |-> "pending", disposition |-> "none", block |-> Unconfirmed, at |-> h]
<1>1. row \in Rows /\ row.status = "pending" /\ row.disposition = "none"
  BY Zenon DEF Rows, Statuses
<1>2. attempt'[t] = row /\ \A u \in Txs \ {t} : attempt'[u] = attempt[u]
  BY Zenon DEF Reserve, JournalInv, JournalTypeOK
<1>3. attempt' \in [Txs -> Rows \cup {NoRow}] /\ avl' = avl
  BY <1>1, Zenon DEF Reserve, JournalInv, JournalTypeOK
<1>4. JournalTypeOK'
  BY <1>3, Zenon DEF JournalInv, JournalTypeOK
<1> HIDE DEF row
<1>5. OneActive'
  BY <1>1, <1>2 DEF Reserve, Unopposed, JournalInv, OneActive, In, Active, SameProfile
<1>6. KeysOfConfirmed'
  BY <1>1, <1>2, <1>3 DEF Reserve, Recorded, NoRow, JournalInv, KeysOfConfirmed, In
<1>7. RowsValid'
  BY <1>1, <1>2, Zenon DEF JournalInv, RowsValid, In, Recorded
<1> QED
  BY <1>4, <1>5, <1>6, <1>7, Zenon DEF JournalInv

\* Finalization.
LEMMA FinalizeKeepsInv ==
    ASSUME JournalInv, NEW t \in Txs, NEW d \in {"accepted", "ambiguous"}, Finalize(t, d)
    PROVE  JournalInv'
<1>1. attempt[t] \in Rows
  BY DEF Finalize, In, JournalInv, JournalTypeOK, NoRow
<1>2. /\ attempt'[t] \in Rows /\ attempt'[t].status = d /\ attempt'[t].disposition = d
      /\ \A u \in Txs \ {t} : attempt'[u] = attempt[u]
      /\ attempt' \in [Txs -> Rows \cup {NoRow}]
      /\ avl' = avl
  BY <1>1, Zenon DEF Finalize, JournalInv, JournalTypeOK, Rows, Statuses
<1>3. JournalTypeOK'
  BY <1>2, Zenon DEF JournalInv, JournalTypeOK
<1>4. OneActive'
  BY <1>2 DEF Finalize, JournalInv, OneActive, In, Active
<1>5. KeysOfConfirmed'
  BY <1>2, Zenon DEF Finalize, JournalInv, KeysOfConfirmed, In
<1>6. RowsValid'
  BY <1>2, Zenon DEF JournalInv, RowsValid, In, Recorded
<1> QED
  BY <1>3, <1>4, <1>5, <1>6, Zenon DEF JournalInv

\* Confirmation.
LEMMA ConfirmKeepsInv ==
    ASSUME JournalInv, NEW t \in Txs, NEW b \in JournalBlocks, Confirm(t, b)
    PROVE  JournalInv'
<1> DEFINE S == Rivals(t)
<1>1. S \in SUBSET Txs /\ t \notin S /\ \A u \in S : In(u, Active)
  BY Zenon DEF Rivals, SameProfile
<1>2. attempt[t] \in Rows
  BY DEF Confirm, In, Reconcilable, Active, JournalInv, JournalTypeOK, NoRow
<1>3. /\ Abandoned(S) \in [Txs -> Rows \cup {NoRow}]
      /\ \A u \in Txs \ S : Abandoned(S)[u] = attempt[u]
      /\ \A u \in S : /\ attempt[u] \in Rows
                      /\ Abandoned(S)[u] \in Rows
                      /\ Abandoned(S)[u].status = "abandoned"
                      /\ Abandoned(S)[u].disposition = attempt[u].disposition
  BY <1>1, AbandonedRows, Zenon DEF JournalInv, JournalTypeOK
<1>4. attempt' = [Abandoned(S) EXCEPT ![t].status = "confirmed", ![t].block = b]
  BY Zenon DEF Confirm
<1> HIDE DEF S
<1>5. /\ attempt' \in [Txs -> Rows \cup {NoRow}]
      /\ attempt'[t] \in Rows /\ attempt'[t].status = "confirmed" /\ attempt'[t].block = b
      /\ attempt'[t].disposition = attempt[t].disposition
      /\ \A u \in Txs \ {t} : attempt'[u] = Abandoned(S)[u]
  <2>1. Abandoned(S)[t] = attempt[t]
    BY <1>1, <1>3, Zenon
  <2> QED
    BY <1>1, <1>2, <1>3, <1>4, <2>1 DEF Rows, Statuses
<1>6. JournalTypeOK'
  BY <1>5, Zenon DEF JournalInv, JournalTypeOK, Confirm
<1>7. \A u \in Txs : (In(u, Active))' => In(u, Active) /\ u # t
  BY <1>1, <1>3, <1>5, Zenon DEF In, Active
<1>8. OneActive'
  BY <1>7, Zenon DEF JournalInv, OneActive
<1>9. KeysOfConfirmed'
  <2>1. \A u \in Txs \ {t} : (In(u, {"confirmed"}))' <=> In(u, {"confirmed"})
    BY <1>1, <1>3, <1>5 DEF In, Active
  <2> QED
    BY <1>5, <2>1 DEF JournalInv, KeysOfConfirmed, Confirm, In, Reconcilable, Active
<1>10. RowsValid'
  <2>1. ASSUME NEW u \in Txs, attempt'[u] # NoRow
        PROVE  /\ attempt'[u].disposition = "none" => attempt'[u].status \notin {"accepted", "ambiguous"}
               /\ attempt'[u].disposition # "none" =>
                    attempt'[u].status \in {attempt'[u].disposition, "confirmed", "abandoned", "quarantined"}
               /\ attempt'[u].status = "confirmed" => attempt'[u].block # Unconfirmed
    <3>1. CASE u = t
      BY <3>1, <1>5, TxsAssumption, Zenon
    <3>2. CASE u \in S
      BY <3>2, <1>1, <1>3, <1>5, Zenon
    <3>3. CASE u # t /\ u \notin S
      BY <2>1, <3>3, <1>3, <1>5 DEF JournalInv, RowsValid, Recorded, In
    <3> QED
      BY <3>1, <3>2, <3>3, Zenon
  <2> QED
    BY <2>1, Zenon DEF RowsValid, Recorded, In
<1> QED
  BY <1>6, <1>8, <1>9, <1>10, Zenon DEF JournalInv

\* Rebinding.
LEMMA RebindKeepsInv ==
    ASSUME JournalInv, NEW t \in Txs, NEW b \in JournalBlocks, Rebind(t, b)
    PROVE  JournalInv'
<1>1. attempt[t] \in Rows
  BY DEF Rebind, In, JournalInv, JournalTypeOK, NoRow
<1>2. /\ attempt'[t] \in Rows /\ attempt'[t].status = attempt[t].status /\ attempt'[t].block = b
      /\ attempt'[t].disposition = attempt[t].disposition
      /\ \A u \in Txs \ {t} : attempt'[u] = attempt[u]
      /\ attempt' \in [Txs -> Rows \cup {NoRow}]
      /\ avl' = avl
  BY <1>1, Zenon DEF Rebind, JournalInv, JournalTypeOK, Rows
<1>3. JournalTypeOK'
  BY <1>2, Zenon DEF JournalInv, JournalTypeOK
<1>4. OneActive'
  BY <1>2, Zenon DEF JournalInv, OneActive, In
<1>5. KeysOfConfirmed'
  BY <1>2, Zenon DEF JournalInv, KeysOfConfirmed, In
<1>6. RowsValid'
  BY <1>1, <1>2, TxsAssumption DEF Rebind, JournalInv, RowsValid, In, Recorded, Rows, NoRow
<1> QED
  BY <1>3, <1>4, <1>5, <1>6, Zenon DEF JournalInv

\* Reopening.
LEMMA ReopenKeepsInv ==
    ASSUME JournalInv, NEW t \in Txs, Reopen(t)
    PROVE  JournalInv'
<1> DEFINE S == MakeWay(t)
<1>1. S \in SUBSET Txs /\ t \notin S /\ \A u \in S : In(u, Active)
  BY Zenon DEF MakeWay, Rivals, SameProfile
<1>2. attempt[t] \in Rows
  BY DEF Reopen, In, JournalInv, JournalTypeOK, NoRow
<1>3. /\ Abandoned(S) \in [Txs -> Rows \cup {NoRow}]
      /\ \A u \in Txs \ S : Abandoned(S)[u] = attempt[u]
      /\ \A u \in S : /\ attempt[u] \in Rows
                      /\ Abandoned(S)[u] \in Rows
                      /\ Abandoned(S)[u].status = "abandoned"
                      /\ Abandoned(S)[u].disposition = attempt[u].disposition
  BY <1>1, AbandonedRows, Zenon DEF JournalInv, JournalTypeOK
<1>4. /\ attempt[t].status = "confirmed"
      /\ \A u \in Txs \ S : In(u, Active) =>
            /\ SourceOf[u] # SourceOf[t]
            /\ SameProfile(t, u) => ProfileOf[t] \notin Singleton
      /\ attempt' = [Abandoned(S) EXCEPT ![t].status = StatusBefore(t), ![t].block = Unconfirmed]
  BY Zenon DEF Reopen, Unopposed, In
<1> HIDE DEF S
<1>5. /\ StatusBefore(t) \in Active
      /\ StatusBefore(t) = attempt[t].disposition \/ StatusBefore(t) = "pending"
      /\ attempt[t].disposition = "none" <=> StatusBefore(t) = "pending"
  BY <1>2, Zenon DEF StatusBefore, Active, Rows
<1>6. /\ attempt' \in [Txs -> Rows \cup {NoRow}]
      /\ attempt'[t] \in Rows /\ attempt'[t].status = StatusBefore(t)
      /\ attempt'[t].disposition = attempt[t].disposition
      /\ \A u \in Txs \ {t} : attempt'[u] = Abandoned(S)[u]
  <2>1. Abandoned(S)[t] = attempt[t]
    BY <1>1, <1>3, Zenon
  <2>2. StatusBefore(t) \in Statuses
    BY <1>5, Zenon DEF Statuses, Active
  <2> QED
    BY <1>1, <1>2, <1>3, <1>4, <2>1, <2>2 DEF Rows
<1>7. JournalTypeOK'
  BY <1>6, Zenon DEF JournalInv, JournalTypeOK, Reopen
<1>8. \A u \in Txs \ {t} : (In(u, Active))' => In(u, Active) /\ u \notin S
  BY <1>1, <1>3, <1>6 DEF In, Active
<1>9. OneActive'
  BY <1>4, <1>8, Zenon DEF JournalInv, OneActive, SameProfile
<1>10. KeysOfConfirmed'
  <2>1. \A u \in Txs \ {t} : (In(u, {"confirmed"}))' <=> In(u, {"confirmed"})
    BY <1>1, <1>3, <1>6 DEF In, Active
  <2>2. ~(In(t, {"confirmed"}))'
    BY <1>5, <1>6, Zenon DEF In, Active
  <2> QED
    BY <2>1, <2>2, Zenon DEF JournalInv, KeysOfConfirmed, Reopen
<1>11. RowsValid'
  <2>1. ASSUME NEW u \in Txs, attempt'[u] # NoRow
        PROVE  /\ attempt'[u].disposition = "none" => attempt'[u].status \notin {"accepted", "ambiguous"}
               /\ attempt'[u].disposition # "none" =>
                    attempt'[u].status \in {attempt'[u].disposition, "confirmed", "abandoned", "quarantined"}
               /\ attempt'[u].status = "confirmed" => attempt'[u].block # Unconfirmed
    <3>1. CASE u = t
      BY <3>1, <1>5, <1>6, Zenon DEF Active
    <3>2. CASE u \in S
      BY <3>2, <1>1, <1>3, <1>6, Zenon
    <3>3. CASE u # t /\ u \notin S
      BY <2>1, <3>3, <1>3, <1>6 DEF JournalInv, RowsValid, Recorded, In
    <3> QED
      BY <3>1, <3>2, <3>3, Zenon
  <2> QED
    BY <2>1, Zenon DEF RowsValid, Recorded, In
<1> QED
  BY <1>7, <1>9, <1>10, <1>11, Zenon DEF JournalInv

\* Abandonment.
LEMMA AbandonKeepsInv ==
    ASSUME JournalInv, NEW t \in Txs, Abandon(t)
    PROVE  JournalInv'
<1>1. /\ attempt' = Abandoned({t}) /\ avl' = avl
      /\ Abandoned({t}) \in [Txs -> Rows \cup {NoRow}]
      /\ \A u \in Txs \ {t} : attempt'[u] = attempt[u]
      /\ attempt'[t].status = "abandoned"
  BY AbandonedRows DEF Abandon, JournalInv, JournalTypeOK
<1>2. JournalTypeOK'
  BY <1>1, Zenon DEF JournalInv, JournalTypeOK
<1>3. OneActive'
  BY <1>1, Zenon DEF JournalInv, OneActive, In, Active
<1>4. KeysOfConfirmed'
  BY <1>1, Zenon DEF Abandon, JournalInv, KeysOfConfirmed, In, Active
<1>5. RowsValid'
  BY <1>1 DEF JournalInv, RowsValid, In, Recorded
<1> QED
  BY <1>2, <1>3, <1>4, <1>5, Zenon DEF JournalInv

\* Quarantine.
LEMMA QuarantineKeepsInv ==
    ASSUME JournalInv, NEW t \in Txs, Quarantine(t)
    PROVE  JournalInv'
<1>1. attempt[t] \in Rows
  BY Zenon DEF Quarantine, Recorded, JournalInv, JournalTypeOK
<1>2. /\ attempt' \in [Txs -> Rows \cup {NoRow}]
      /\ \A u \in Txs \ {t} : attempt'[u] = attempt[u]
      /\ attempt'[t].status = "quarantined"
  BY <1>1, Zenon DEF Quarantine, JournalInv, JournalTypeOK, Rows, Statuses
<1>3. JournalTypeOK'
  BY <1>2, Zenon DEF Quarantine, JournalInv, JournalTypeOK
<1>4. OneActive'
  BY <1>2, Zenon DEF JournalInv, OneActive, In, Active
<1>5. KeysOfConfirmed'
  BY <1>2, Zenon DEF Quarantine, JournalInv, KeysOfConfirmed, In
<1>6. RowsValid'
  BY <1>2, Zenon DEF JournalInv, RowsValid, In, Recorded
<1> QED
  BY <1>3, <1>4, <1>5, <1>6, Zenon DEF JournalInv

\* The removal of an earlier settlement's key.
LEMMA RemoveAvlKeyKeepsInv ==
    ASSUME JournalInv, NEW k \in LegacyKeys, RemoveAvlKey(k)
    PROVE  JournalInv'
  BY TxsAssumption, Zenon
     DEF RemoveAvlKey, JournalInv, JournalTypeOK, OneActive, KeysOfConfirmed, RowsValid, In, Recorded

\* Every transaction of the journal keeps the invariant.
LEMMA JournalStep == JournalInv /\ [JournalNext]_journal => JournalInv'
<1> SUFFICES ASSUME JournalInv, [JournalNext]_journal PROVE JournalInv'
  BY Zenon
<1>1. CASE UNCHANGED journal
  BY <1>1, Zenon
     DEF journal, JournalInv, JournalTypeOK, OneActive, KeysOfConfirmed, RowsValid, In, Recorded
<1>2. CASE \E t \in Txs, h \in Heights : Reserve(t, h)
  BY <1>2, ReserveKeepsInv, Zenon
<1>3. CASE \E t \in Txs, d \in {"accepted", "ambiguous"} : Finalize(t, d)
  BY <1>3, FinalizeKeepsInv, Zenon
<1>4. CASE \E t \in Txs, b \in JournalBlocks : Confirm(t, b) \/ Rebind(t, b)
  BY <1>4, ConfirmKeepsInv, RebindKeepsInv, Zenon
<1>5. CASE \E t \in Txs : Reopen(t) \/ Abandon(t) \/ Quarantine(t)
  BY <1>5, ReopenKeepsInv, AbandonKeepsInv, QuarantineKeepsInv, Zenon
<1>6. CASE \E k \in LegacyKeys : RemoveAvlKey(k)
  BY <1>6, RemoveAvlKeyKeepsInv, Zenon
<1> QED
  BY <1>1, <1>2, <1>3, <1>4, <1>5, <1>6, Zenon DEF JournalNext

\* Whatever order the operations of state-tracker.ts on operational attempts
\* come in, every row passes the table's CHECKs, at most one attempt of a
\* singleton profile and one for a box is active, and the AVL history holds
\* exactly the keys of the confirmed heartbeats.
THEOREM OperationalJournalCorrect ==
    JournalSpec => [](JournalTypeOK /\ OneActive /\ KeysOfConfirmed /\ RowsValid)
  BY JournalInitial, JournalStep, PTL DEF JournalSpec, JournalInv

\* A heartbeat's key is in avl_tree_history exactly while its attempt is confirmed.
THEOREM KeysOfConfirmedHolds == JournalSpec => []KeysOfConfirmed
  BY OperationalJournalCorrect, PTL

-----------------------------------------------------------------------------
\* What one row keeps in a step.
Kept(u) ==
    /\ attempt'[u].at = attempt[u].at
    /\ attempt[u].disposition # "none" => attempt'[u].disposition = attempt[u].disposition
    /\ In(u, {"quarantined"}) => attempt'[u] = attempt[u]

\* A confirmation and a reopening keep the history of every row.
LEMMA SupersedingKeeps ==
    ASSUME JournalInv, NEW t \in Txs, In(t, {"confirmed"} \cup Reconcilable), NEW S \in SUBSET Txs,
           \A u \in S : In(u, Active) /\ u # t,
           NEW st \in Statuses, NEW b \in JournalBlocks \cup {Unconfirmed},
           attempt' = [Abandoned(S) EXCEPT ![t].status = st, ![t].block = b],
           NEW u \in Txs, Recorded(u)
    PROVE  Kept(u)
<1>1. attempt[t] \in Rows /\ t \notin S
  BY DEF JournalInv, JournalTypeOK, In, Reconcilable, Active, NoRow
<1>2. /\ Abandoned(S) \in [Txs -> Rows \cup {NoRow}]
      /\ \A v \in Txs \ S : Abandoned(S)[v] = attempt[v]
      /\ \A v \in S : /\ attempt[v] \in Rows
                      /\ Abandoned(S)[v] \in Rows
                      /\ Abandoned(S)[v].disposition = attempt[v].disposition
                      /\ Abandoned(S)[v].at = attempt[v].at
  BY AbandonedRows, Zenon DEF JournalInv, JournalTypeOK
<1>3. CASE u = t
  <2>1. /\ attempt'[t].at = attempt[t].at
        /\ attempt'[t].disposition = attempt[t].disposition
    BY <1>1, <1>2, Zenon DEF Rows
  <2> QED
    BY <1>3, <2>1, Zenon DEF Kept, In, Reconcilable, Active
<1>4. CASE u # t
  <2>1. attempt'[u] = Abandoned(S)[u]
    BY <1>2, <1>4, Zenon
  <2> QED
    BY <1>2, <2>1, Zenon DEF Kept, In, Active
<1> QED
  BY <1>3, <1>4, Zenon

\* A step of the journal keeps the history of every row.
LEMMA HistoryStep ==
    ASSUME JournalInv, JournalNext, NEW u \in Txs, Recorded(u)
    PROVE  Kept(u)
<1>1. ASSUME NEW t \in Txs, NEW h \in Heights, Reserve(t, h) PROVE Kept(u)
  BY <1>1, Zenon DEF Reserve, Recorded, Kept, JournalInv, JournalTypeOK
<1>2. ASSUME NEW t \in Txs, NEW d \in {"accepted", "ambiguous"}, Finalize(t, d) PROVE Kept(u)
  <2>1. attempt[t] \in Rows /\ attempt[t].disposition = "none" /\ attempt[t].status = "pending"
    BY <1>2 DEF Finalize, In, JournalInv, JournalTypeOK, RowsValid, Recorded, NoRow, Rows
  <2> QED
    BY <1>2, <2>1, Zenon DEF Finalize, Kept, In, JournalInv, JournalTypeOK, Rows
<1>3. ASSUME NEW t \in Txs, NEW b \in JournalBlocks, Confirm(t, b) PROVE Kept(u)
  BY <1>3, SupersedingKeeps, Zenon DEF Confirm, Rivals, SameProfile, In, Statuses
<1>4. ASSUME NEW t \in Txs, NEW b \in JournalBlocks, Rebind(t, b) PROVE Kept(u)
  <2>1. attempt[t] \in Rows /\ attempt[t].status = "confirmed"
    BY <1>4 DEF Rebind, In, JournalInv, JournalTypeOK, NoRow
  <2> QED
    BY <1>4, <2>1, Zenon DEF Rebind, Kept, In, JournalInv, JournalTypeOK, Rows
<1>5. ASSUME NEW t \in Txs, Reopen(t) PROVE Kept(u)
  <2> DEFINE S == MakeWay(t)
  <2>1. S \in SUBSET Txs /\ \A v \in S : In(v, Active) /\ v # t
    BY Zenon DEF MakeWay, Rivals, SameProfile
  <2>2. attempt[t] \in Rows
    BY <1>5 DEF Reopen, In, JournalInv, JournalTypeOK, NoRow
  <2>3. StatusBefore(t) \in Statuses
    BY <2>2, Zenon DEF StatusBefore, Statuses, Rows
  <2>4. attempt' = [Abandoned(S) EXCEPT ![t].status = StatusBefore(t), ![t].block = Unconfirmed]
    BY <1>5, Zenon DEF Reopen
  <2>5. In(t, {"confirmed"} \cup Reconcilable)
    BY <1>5, Zenon DEF Reopen, In
  <2> HIDE DEF S
  <2> QED
    BY <2>1, <2>3, <2>4, <2>5, SupersedingKeeps, Zenon
<1>6. ASSUME NEW t \in Txs, Abandon(t) PROVE Kept(u)
  BY <1>6, AbandonedRows DEF Abandon, Kept, In, Active, JournalInv, JournalTypeOK
<1>7. ASSUME NEW t \in Txs, Quarantine(t) PROVE Kept(u)
  <2>1. attempt[t] \in Rows /\ attempt[t].status # "quarantined"
    BY <1>7, Zenon DEF Quarantine, Recorded, In, JournalInv, JournalTypeOK
  <2> QED
    BY <1>7, <2>1, Zenon DEF Quarantine, Kept, In, JournalInv, JournalTypeOK, Rows
<1>8. ASSUME NEW k \in LegacyKeys, RemoveAvlKey(k) PROVE Kept(u)
  BY <1>8, Zenon DEF RemoveAvlKey, Kept
<1> QED
  BY <1>1, <1>2, <1>3, <1>4, <1>5, <1>6, <1>7, <1>8, Zenon DEF JournalNext

\* No operation rewrites what the submission of an attempt answered or when it
\* was attempted, and a quarantined attempt stays as it is.
THEOREM HistoryKeptHolds == JournalSpec => HistoryKept
<1>1. JournalInv /\ [JournalNext]_journal
      => [\A t \in Txs : Recorded(t) =>
            /\ attempt'[t].at = attempt[t].at
            /\ attempt[t].disposition # "none" => attempt'[t].disposition = attempt[t].disposition
            /\ In(t, {"quarantined"}) => attempt'[t] = attempt[t]]_journal
  BY HistoryStep, Zenon DEF Kept
<1> QED
  BY <1>1, JournalInitial, JournalStep, PTL DEF JournalSpec, HistoryKept
=============================================================================
