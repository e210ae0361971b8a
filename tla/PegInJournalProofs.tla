------------------------- MODULE PegInJournalProofs -------------------------
(***************************************************************************)
(* Proofs about the peg-in tables, for every set of peg-ins, commitments    *)
(* and blocks: what each operation of state-tracker.ts does to one row,     *)
(* that none of them disturbs another row, and what the steps of the        *)
(* daemon, by their classes, leave of the rows, of the daemon's place and   *)
(* of the mints.                                                            *)
(***************************************************************************)
EXTENDS PegInInvariants

-----------------------------------------------------------------------------
(* What a step of the operational journal does to the rows. *)

\* Beside t, only rows that were active change.
OnlyAttempt(t) ==
    /\ attempt' \in [Txs -> Rows \cup {NoRow}]
    /\ \A u \in Txs \ {t} : attempt'[u] = attempt[u] \/ In(u, Active)

LEMMA ConfirmEffect ==
    ASSUME attempt \in [Txs -> Rows \cup {NoRow}], NEW t \in Txs, NEW b \in JournalBlocks,
           Confirm(t, b)
    PROVE  OnlyAttempt(t) /\ attempt'[t].status = "confirmed" /\ attempt'[t].block = b
<1> DEFINE S == Rivals(t)
<1>1. S \in SUBSET Txs /\ t \notin S /\ \A u \in S : In(u, Active)
  BY Zenon DEF Rivals, SameProfile
<1>2. attempt[t] \in Rows
  BY DEF Confirm, In, Reconcilable, Active, NoRow
<1>3. /\ Abandoned(S) \in [Txs -> Rows \cup {NoRow}]
      /\ \A u \in Txs \ S : Abandoned(S)[u] = attempt[u]
  BY <1>1, AbandonedRows, Zenon
<1>4. attempt' = [Abandoned(S) EXCEPT ![t].status = "confirmed", ![t].block = b]
  BY Zenon DEF Confirm
<1> HIDE DEF S
<1>5. Abandoned(S)[t] = attempt[t]
  BY <1>1, <1>3, Zenon
<1>6. /\ attempt' \in [Txs -> Rows \cup {NoRow}]
      /\ attempt'[t].status = "confirmed" /\ attempt'[t].block = b
      /\ \A u \in Txs \ {t} : attempt'[u] = Abandoned(S)[u]
  BY <1>2, <1>3, <1>4, <1>5, Zenon DEF Rows, Statuses
<1> QED
  BY <1>1, <1>3, <1>6, Zenon DEF OnlyAttempt

LEMMA AbandonEffect ==
    ASSUME attempt \in [Txs -> Rows \cup {NoRow}], NEW t \in Txs, Abandon(t)
    PROVE  OnlyAttempt(t) /\ attempt'[t].status = "abandoned"
  BY AbandonedRows, Zenon DEF Abandon, OnlyAttempt

LEMMA QuarantineEffect ==
    ASSUME attempt \in [Txs -> Rows \cup {NoRow}], NEW t \in Txs, Quarantine(t)
    PROVE  OnlyAttempt(t) /\ attempt'[t].status = "quarantined"
<1>1. attempt[t] \in Rows
  BY Zenon DEF Quarantine, Recorded
<1> QED
  BY <1>1, Zenon DEF Quarantine, OnlyAttempt, Rows, Statuses

-----------------------------------------------------------------------------
(* What an operation on one row leaves of the others. *)

OnlyRow(p) ==
    /\ \A q \in PegIns \ {p} : pegIn'[q] = pegIn[q] /\ mint'[q] = mint[q]
    /\ \A u \in Txs \ {CommitOf[p]} : attempt'[u] = attempt[u] \/ In(u, Active)
    /\ incidents \subseteq incidents'
    /\ externalHold => externalHold'

LEMMA OthersKept ==
    ASSUME TablesInv, NEW p \in PegIns, OnlyRow(p), NEW q \in PegIns, q # p
    PROVE  SafeRow(q)' /\ AgreeingRow(q)'
<1>1. CommitOf[q] \in Txs \ {CommitOf[p]} /\ SafeRow(q) /\ AgreeingRow(q)
  BY PegInsAssumption, Zenon DEF TablesInv
<1>2. pegIn'[q] = pegIn[q] /\ mint'[q] = mint[q]
  BY Zenon DEF OnlyRow
<1>3. attempt'[CommitOf[q]] = attempt[CommitOf[q]] \/ In(CommitOf[q], Active)
  BY <1>1, Zenon DEF OnlyRow
<1>4. SafeRow(q)'
  BY <1>1, <1>2, <1>3, Zenon DEF SafeRow, IsIn, In, Active, OnlyRow
<1>5. AgreeingRow(q)'
  BY <1>1, <1>2, <1>3 DEF AgreeingRow, IsIn, In, Active, HasReceipt, Known, Recorded, NoRow
<1> QED
  BY <1>4, <1>5, Zenon

-----------------------------------------------------------------------------
(* The operations. *)

\* What has to be shown of an operation on the row p.
KeepsRow(p) == TablesTypeOK' /\ OnlyRow(p) /\ SafeRow(p)' /\ AgreeingRow(p)'

AllStatuses == Pending \cup Submitted \cup GivenUp

LEMMA RowPresent ==
    ASSUME NEW p, NEW S, IsIn(p, S), "absent" \notin S
    PROVE  Known(p)
  BY DEF IsIn, Known, NoPegIn

LEMMA KnownRow ==
    ASSUME TablesInv, NEW p \in PegIns, Known(p) \/ IsIn(p, AllStatuses)
    PROVE  pegIn[p] \in PegInRows
  BY DEF TablesInv, TablesTypeOK, Known, IsIn, NoPegIn, AllStatuses, Pending, Submitted, GivenUp

\* An operation that writes one row of peg_in_events and nothing else.
LEMMA RowOnly ==
    ASSUME TablesInv, NEW p \in PegIns, NEW row \in PegInRows, Update(p, row),
           UNCHANGED <<mint, hold, incidents, externalHold, attempt>>,
           \/ row.status \notin GivenUp
           \/ row.status = pegIn[p].status /\ row.commit = pegIn[p].commit,
           \/ row.receipt = Unconfirmed
           \/ Known(p) /\ row.receipt = pegIn[p].receipt /\ ~IsIn(p, GivenUp)
           \/ row.status \in GivenUp
    PROVE  KeepsRow(p)
<1>1. pegIn' \in [PegIns -> PegInRows \cup {NoPegIn}] /\ pegIn'[p] = row
      /\ \A q \in PegIns \ {p} : pegIn'[q] = pegIn[q]
  BY Zenon DEF Update, TablesInv, TablesTypeOK
<1>2. TablesTypeOK'
  BY <1>1, Zenon DEF TablesInv, TablesTypeOK
<1>3. OnlyRow(p)
  BY <1>1, Zenon DEF OnlyRow
<1>4. SafeRow(p)'
  BY <1>1, Zenon DEF SafeRow, TablesInv, IsIn, In, GivenUp
<1>5. AgreeingRow(p)'
  BY <1>1, Zenon DEF AgreeingRow, TablesInv, IsIn, In, HasReceipt, Known, Recorded
<1> QED
  BY <1>2, <1>3, <1>4, <1>5, Zenon DEF KeepsRow

LEMMA InsertKeeps ==
    ASSUME TablesInv, NEW p \in PegIns, NEW class \in Classes,
           InsertPegIn(p, class)
    PROVE  KeepsRow(p)
<1> DEFINE row == [status |-> "detected", class |-> class, commit |-> FALSE, receipt |-> Unconfirmed,
                   hash |-> FALSE]
<1>1. row \in PegInRows /\ row.status = "detected" /\ row.receipt = Unconfirmed
  BY Zenon DEF PegInRows, Pending
<1>2. pegIn' = [pegIn EXCEPT ![p] = row] /\ UNCHANGED <<mint, hold, incidents, externalHold, attempt>>
  BY Zenon DEF InsertPegIn, journal
<1> HIDE DEF row
<1>3. pegIn' \in [PegIns -> PegInRows \cup {NoPegIn}] /\ pegIn'[p] = row
      /\ \A q \in PegIns \ {p} : pegIn'[q] = pegIn[q]
  BY <1>1, <1>2, Zenon DEF TablesInv, TablesTypeOK
<1>4. TablesTypeOK'
  BY <1>2, <1>3, Zenon DEF TablesInv, TablesTypeOK
<1> QED
  BY <1>1, <1>2, <1>3, <1>4, Zenon DEF KeepsRow, OnlyRow, SafeRow, AgreeingRow, IsIn, HasReceipt, GivenUp

LEMMA ClassificationKeeps ==
    ASSUME TablesInv, NEW p \in PegIns, NEW class \in LegacyClasses, UpdateClassification(p, class)
    PROVE  KeepsRow(p)
<1> DEFINE row == [pegIn[p] EXCEPT !.class = class]
<1>1. pegIn[p] \in PegInRows
  BY KnownRow, Zenon DEF UpdateClassification
<1> class \in Classes
  BY Zenon DEF Classes
<1>2. /\ row \in PegInRows /\ row.status = pegIn[p].status /\ row.commit = pegIn[p].commit
      /\ row.receipt = pegIn[p].receipt
  BY <1>1, Zenon DEF PegInRows
<1>3. Update(p, row) /\ UNCHANGED <<mint, hold, incidents, externalHold, attempt>> /\ Known(p)
  BY Zenon DEF UpdateClassification, journal
<1> HIDE DEF row
<1> QED
  BY <1>2, <1>3, RowOnly, Zenon DEF IsIn

LEMMA SubmittedKeeps ==
    ASSUME TablesInv, NEW p \in PegIns, RecordConsumeSubmitted(p)
    PROVE  KeepsRow(p)
<1> DEFINE row == [pegIn[p] EXCEPT !.status = "consume_submitted", !.commit = TRUE,
                                  !.receipt = Unconfirmed]
<1>1. pegIn[p] \in PegInRows
  BY KnownRow, Zenon DEF RecordConsumeSubmitted, IsIn, AllStatuses, Pending
<1>2. row \in PegInRows /\ row.status = "consume_submitted" /\ row.receipt = Unconfirmed
  BY <1>1, Zenon DEF PegInRows, Pending
<1>3. Update(p, row) /\ UNCHANGED <<mint, hold, incidents, externalHold, attempt>>
  BY Zenon DEF RecordConsumeSubmitted, journal
<1> HIDE DEF row
<1>4. row.status \notin GivenUp
  BY <1>2, Zenon DEF GivenUp
<1> QED
  BY <1>2, <1>3, <1>4, RowOnly, Zenon

LEMMA BeginMintKeeps ==
    ASSUME TablesInv, NEW p \in PegIns, BeginMint(p)
    PROVE  KeepsRow(p)
<1> DEFINE row == [pegIn[p] EXCEPT !.status = "minting"]
<1>1. pegIn[p] \in PegInRows /\ ~IsIn(p, GivenUp)
  BY KnownRow, Zenon DEF BeginMint, IsIn, AllStatuses, Pending, GivenUp
<1>2. row \in PegInRows /\ row.status = "minting" /\ row.receipt = pegIn[p].receipt
  BY <1>1, Zenon DEF PegInRows, Pending
<1>3. Update(p, row) /\ UNCHANGED <<mint, hold, incidents, externalHold, attempt>>
  BY Zenon DEF BeginMint, journal
<1>4. Known(p)
  BY DEF BeginMint, Known, IsIn, NoPegIn
<1> HIDE DEF row
<1>5. row.status \notin GivenUp
  BY <1>2, Zenon DEF GivenUp
<1> QED
  BY <1>1, <1>2, <1>3, <1>4, <1>5, RowOnly, Zenon

\* A confirmed commitment: the row and its attempt get the same block.
LEMMA ConfirmedKeeps ==
    ASSUME TablesInv, NEW p \in PegIns, NEW b \in JournalBlocks, RecordConsumeConfirmed(p, b)
    PROVE  KeepsRow(p)
<1> DEFINE row == [pegIn[p] EXCEPT !.status = "consume_confirmed", !.receipt = b]
           t == CommitOf[p]
<1>1. pegIn[p] \in PegInRows
  BY KnownRow, Zenon DEF RecordConsumeConfirmed, IsIn, AllStatuses, Pending
<1>2. row \in PegInRows /\ row.status = "consume_confirmed" /\ row.receipt = b
  BY <1>1, Zenon DEF PegInRows, Pending
<1>3. /\ pegIn' = [pegIn EXCEPT ![p] = row] /\ UNCHANGED <<mint, hold, incidents, externalHold>>
      /\ \/ ~Recorded(t) /\ UNCHANGED attempt
         \/ Confirm(t, b)
         \/ In(t, {"confirmed"}) /\ attempt[t].block = b /\ UNCHANGED attempt
  BY Zenon DEF RecordConsumeConfirmed, Update, journal
<1>4. t \in Txs /\ attempt \in [Txs -> Rows \cup {NoRow}]
  BY PegInsAssumption, Zenon DEF TablesInv, TablesTypeOK
<1> HIDE DEF row, t
<1>5. OnlyAttempt(t) /\ (~Recorded(t)' \/ ((In(t, {"confirmed"}))' /\ attempt'[t].block = b))
  <2>1. CASE Confirm(t, b)
    <3>1. OnlyAttempt(t) /\ attempt'[t].status = "confirmed" /\ attempt'[t].block = b
      BY <1>4, <2>1, ConfirmEffect, Zenon
    <3> QED
      BY <3>1, Zenon DEF In
  <2>2. CASE UNCHANGED attempt /\ (~Recorded(t) \/ (In(t, {"confirmed"}) /\ attempt[t].block = b))
    BY <1>4, <2>2, Zenon DEF OnlyAttempt, Recorded, In
  <2> QED
    BY <1>3, <2>1, <2>2, Zenon
<1>6. pegIn' \in [PegIns -> PegInRows \cup {NoPegIn}] /\ pegIn'[p] = row
      /\ \A q \in PegIns \ {p} : pegIn'[q] = pegIn[q]
  BY <1>2, <1>3, Zenon DEF TablesInv, TablesTypeOK
<1>7. TablesTypeOK'
  BY <1>3, <1>5, <1>6, Zenon DEF TablesInv, TablesTypeOK, OnlyAttempt
<1>8. OnlyRow(p)
  BY <1>3, <1>5, <1>6, Zenon DEF OnlyRow, OnlyAttempt, t
<1>9. SafeRow(p)'
  BY <1>2, <1>6, Zenon DEF SafeRow, IsIn, GivenUp
<1>10. AgreeingRow(p)'
  BY <1>2, <1>5, <1>6, Zenon DEF AgreeingRow, t
<1> QED
  BY <1>7, <1>8, <1>9, <1>10, Zenon DEF KeepsRow

LEMMA ResetCommitKeeps ==
    ASSUME TablesInv, NEW p \in PegIns, ResetCommit(p)
    PROVE  KeepsRow(p)
<1> DEFINE row == [pegIn[p] EXCEPT !.status = "detected", !.commit = FALSE, !.receipt = Unconfirmed]
           t == CommitOf[p]
<1>1. pegIn[p] \in PegInRows
  BY KnownRow, Zenon DEF ResetCommit, IsIn, AllStatuses, Pending
<1>2. row \in PegInRows /\ row.status = "detected" /\ row.receipt = Unconfirmed
  BY <1>1, Zenon DEF PegInRows, Pending
<1>3. /\ pegIn' = [pegIn EXCEPT ![p] = row] /\ UNCHANGED <<mint, hold, incidents, externalHold>>
      /\ Abandon(t) \/ Quarantine(t) \/ UNCHANGED attempt
  BY Zenon DEF ResetCommit, Update, journal
<1>4. t \in Txs /\ attempt \in [Txs -> Rows \cup {NoRow}]
  BY PegInsAssumption, Zenon DEF TablesInv, TablesTypeOK
<1> HIDE DEF row, t
<1>5. OnlyAttempt(t)
  BY <1>3, <1>4, AbandonEffect, QuarantineEffect, Zenon DEF OnlyAttempt
<1>6. pegIn' \in [PegIns -> PegInRows \cup {NoPegIn}] /\ pegIn'[p] = row
      /\ \A q \in PegIns \ {p} : pegIn'[q] = pegIn[q]
  BY <1>2, <1>3, Zenon DEF TablesInv, TablesTypeOK
<1>7. TablesTypeOK'
  BY <1>3, <1>5, <1>6, Zenon DEF TablesInv, TablesTypeOK, OnlyAttempt
<1>8. OnlyRow(p)
  BY <1>3, <1>5, <1>6, Zenon DEF OnlyRow, OnlyAttempt, t
<1>9. SafeRow(p)' /\ AgreeingRow(p)'
  BY <1>2, <1>6, Zenon DEF SafeRow, AgreeingRow, HasReceipt, IsIn, GivenUp
<1> QED
  BY <1>7, <1>8, <1>9, Zenon DEF KeepsRow

\* A row that is given up takes its mint and its commitment with it.
LEMMA GiveUpKeeps ==
    ASSUME TablesInv, NEW p \in PegIns, Known(p), NEW status \in GivenUp, GiveUp(p, status),
           UNCHANGED hold, incidents' \in SUBSET PegIns, incidents \subseteq incidents',
           externalHold' = externalHold, status = "incident" => p \in incidents' /\ externalHold
    PROVE  KeepsRow(p)
<1> DEFINE row == [pegIn[p] EXCEPT !.status = status]
           t == CommitOf[p]
<1>1. pegIn[p] \in PegInRows
  BY KnownRow, Zenon
<1>2. row \in PegInRows /\ row.status = status /\ row.commit = pegIn[p].commit
  BY <1>1, Zenon DEF PegInRows
<1>3. t \in Txs /\ attempt \in [Txs -> Rows \cup {NoRow}]
  BY PegInsAssumption, Zenon DEF TablesInv, TablesTypeOK
<1>4. /\ pegIn' = [pegIn EXCEPT ![p] = row]
      /\ Quarantine(t) \/ (UNCHANGED attempt /\ (pegIn[p].commit => ~Recorded(t) \/ In(t, {"quarantined"})))
  BY Zenon DEF GiveUp, Update, journal
<1>5. /\ mint' \in [PegIns -> MintRows] /\ mint'[p].status \notin LiveMint
      /\ \A q \in PegIns \ {p} : mint'[q] = mint[q]
  <2>1. mint' = [mint EXCEPT ![p].status = IF mint[p].status \in LiveMint THEN "quarantined" ELSE mint[p].status]
    BY Zenon DEF GiveUp
  <2>2. mint \in [PegIns -> MintRows]
    BY Zenon DEF TablesInv, TablesTypeOK
  <2> QED
    BY <2>1, <2>2, Zenon DEF MintRows, LiveMint
<1> HIDE DEF row, t
<1>6. OnlyAttempt(t) /\ (pegIn[p].commit => (In(t, {"none", "quarantined"}))')
  <2>1. CASE Quarantine(t)
    <3>1. OnlyAttempt(t) /\ attempt'[t].status = "quarantined"
      BY <1>3, <2>1, QuarantineEffect, Zenon
    <3> QED
      BY <3>1, Zenon DEF In
  <2>2. CASE UNCHANGED attempt /\ (pegIn[p].commit => ~Recorded(t) \/ In(t, {"quarantined"}))
    BY <1>3, <2>2 DEF OnlyAttempt, Recorded, In, NoRow
  <2> QED
    BY <1>4, <2>1, <2>2, Zenon
<1>7. pegIn' \in [PegIns -> PegInRows \cup {NoPegIn}] /\ pegIn'[p] = row
      /\ \A q \in PegIns \ {p} : pegIn'[q] = pegIn[q]
  BY <1>2, <1>4, Zenon DEF TablesInv, TablesTypeOK
<1>8. TablesTypeOK'
  BY <1>5, <1>6, <1>7, Zenon DEF TablesInv, TablesTypeOK, OnlyAttempt
<1>9. OnlyRow(p)
  BY <1>5, <1>6, <1>7, Zenon DEF OnlyRow, OnlyAttempt, t
<1>10. SafeRow(p)'
  BY <1>2, <1>5, <1>6, <1>7, Zenon DEF SafeRow, IsIn, t
<1>11. AgreeingRow(p)'
  BY <1>2, <1>7, Zenon DEF AgreeingRow, IsIn
<1> QED
  BY <1>8, <1>9, <1>10, <1>11, Zenon DEF KeepsRow

-----------------------------------------------------------------------------
(* The mint. *)

\* An operation on a row and its mint attempt.
LEMMA MintKeeps ==
    ASSUME TablesInv, NEW p \in PegIns, Known(p), NEW row \in PegInRows, Update(p, row),
           NEW m \in MintRows, mint' = [mint EXCEPT ![p] = m],
           UNCHANGED <<hold, incidents, externalHold, attempt>>,
           row.status \notin GivenUp, row.receipt = pegIn[p].receipt, ~IsIn(p, GivenUp)
    PROVE  KeepsRow(p)
<1>1. pegIn' \in [PegIns -> PegInRows \cup {NoPegIn}] /\ pegIn'[p] = row
      /\ \A q \in PegIns \ {p} : pegIn'[q] = pegIn[q]
  BY Zenon DEF Update, TablesInv, TablesTypeOK
<1>2. mint' \in [PegIns -> MintRows] /\ \A q \in PegIns \ {p} : mint'[q] = mint[q]
  BY Zenon DEF TablesInv, TablesTypeOK
<1>3. TablesTypeOK'
  BY <1>1, <1>2, Zenon DEF TablesInv, TablesTypeOK
<1>4. OnlyRow(p)
  BY <1>1, <1>2, Zenon DEF OnlyRow
<1>5. SafeRow(p)'
  BY <1>1, Zenon DEF SafeRow, IsIn, GivenUp
<1>6. AgreeingRow(p)'
  BY <1>1, Zenon DEF AgreeingRow, TablesInv, IsIn, In, HasReceipt, Known, Recorded
<1> QED
  BY <1>3, <1>4, <1>5, <1>6, Zenon DEF KeepsRow

LEMMA MintStatus ==
    ASSUME TablesInv, NEW p \in PegIns, NEW st \in {"confirmed", "abandoned"},
           mint' = [mint EXCEPT ![p].status = st] \/ mint' = [mint EXCEPT ![p].status = @]
    PROVE  \E m \in MintRows : mint' = [mint EXCEPT ![p] = m]
<1>1. mint[p] \in MintRows
  BY Zenon DEF TablesInv, TablesTypeOK
<1>2. [mint[p] EXCEPT !.status = st] \in MintRows /\ [mint[p] EXCEPT !.status = mint[p].status] \in MintRows
  BY <1>1, Zenon DEF MintRows
<1> QED
  BY <1>2, Zenon

\* The rows these operations are for.
LEMMA MintRow ==
    ASSUME TablesInv, NEW p \in PegIns, IsIn(p, Submitted \cup {"consume_confirmed"})
    PROVE  pegIn[p] \in PegInRows /\ Known(p) /\ ~IsIn(p, GivenUp)
<1>1. pegIn[p].status \in {"minting", "minted", "consume_confirmed"}
  BY Zenon DEF IsIn, Submitted
<1>2. pegIn[p] \in PegInRows
  BY <1>1, KnownRow, Zenon DEF IsIn, AllStatuses, Pending, Submitted
<1> QED
  BY <1>1, <1>2 DEF Known, NoPegIn, IsIn, GivenUp

LEMMA RecordMintedKeeps ==
    ASSUME TablesInv, NEW p \in PegIns, RecordMinted(p)
    PROVE  KeepsRow(p)
<1> DEFINE row == [pegIn[p] EXCEPT !.status = "minted"]
<1>1. pegIn[p] \in PegInRows /\ Known(p) /\ ~IsIn(p, GivenUp)
  BY MintRow, Zenon DEF RecordMinted, IsIn, Submitted
<1>2. row \in PegInRows /\ row.status \notin GivenUp /\ row.receipt = pegIn[p].receipt
  BY <1>1, Zenon DEF PegInRows, Submitted, GivenUp
<1>3. Update(p, row) /\ UNCHANGED <<hold, incidents, externalHold, attempt>>
  BY Zenon DEF RecordMinted, journal
<1>4. \E m \in MintRows : mint' = [mint EXCEPT ![p] = m]
  BY MintStatus, Zenon DEF RecordMinted
<1> HIDE DEF row
<1> QED
  BY <1>1, <1>2, <1>3, <1>4, MintKeeps, Zenon

LEMMA ResetMintKeeps ==
    ASSUME TablesInv, NEW p \in PegIns, ResetMintForRetry(p)
    PROVE  KeepsRow(p)
<1> DEFINE row == [pegIn[p] EXCEPT !.status = "consume_confirmed", !.hash = FALSE]
<1>1. pegIn[p] \in PegInRows /\ Known(p) /\ ~IsIn(p, GivenUp)
  BY MintRow, Zenon DEF ResetMintForRetry, IsIn, Submitted
<1>2. row \in PegInRows /\ row.status \notin GivenUp /\ row.receipt = pegIn[p].receipt
  BY <1>1, Zenon DEF PegInRows, Pending, GivenUp
<1>3. Update(p, row) /\ UNCHANGED <<hold, incidents, externalHold, attempt>>
  BY Zenon DEF ResetMintForRetry, journal
<1>4. \E m \in MintRows : mint' = [mint EXCEPT ![p] = m]
  BY MintStatus, Zenon DEF ResetMintForRetry
<1> HIDE DEF row
<1> QED
  BY <1>1, <1>2, <1>3, <1>4, MintKeeps, Zenon

LEMMA ConfirmMintKeeps ==
    ASSUME TablesInv, NEW p \in PegIns, NEW b \in MintBlocks, ConfirmMintRecovery(p, b)
    PROVE  KeepsRow(p)
<1> DEFINE row == [pegIn[p] EXCEPT !.status = "minted", !.hash = TRUE]
           m == [status |-> "confirmed", evidence |-> b]
<1>1. pegIn[p] \in PegInRows /\ Known(p) /\ ~IsIn(p, GivenUp)
  BY MintRow, Zenon DEF ConfirmMintRecovery, IsIn, Submitted
<1>2. row \in PegInRows /\ row.status \notin GivenUp /\ row.receipt = pegIn[p].receipt
  BY <1>1, Zenon DEF PegInRows, Submitted, GivenUp
<1>3. Update(p, row) /\ UNCHANGED <<hold, incidents, externalHold, attempt>>
  BY Zenon DEF ConfirmMintRecovery, journal
<1>4. m \in MintRows /\ mint' = [mint EXCEPT ![p] = m]
  BY Zenon DEF ConfirmMintRecovery, MintRows
<1> HIDE DEF row, m
<1> QED
  BY <1>1, <1>2, <1>3, <1>4, MintKeeps, Zenon

-----------------------------------------------------------------------------

\* Every operation on a peg-in keeps what its row promises.
LEMMA OperationKeeps ==
    ASSUME TablesInv, NEW p \in PegIns,
           \/ InsertPegIn(p, ActiveClass) \/ InsertPegIn(p, "legacy_unminted_refundable")
           \/ RecordConsumeSubmitted(p) \/ ResetCommit(p) \/ MarkCommitInvalid(p)
           \/ BeginMint(p) \/ RecordMinted(p) \/ ResetMintForRetry(p) \/ MarkIncident(p)
           \/ \E class \in LegacyClasses : UpdateClassification(p, class)
           \/ \E b \in JournalBlocks : RecordConsumeConfirmed(p, b)
           \/ \E m \in MintBlocks : ConfirmMintRecovery(p, m)
           \/ \E d \in {"deferred", "quarantined"} : RecordReconciliation(p, d)
    PROVE  KeepsRow(p)
<1>1. CASE InsertPegIn(p, ActiveClass) \/ InsertPegIn(p, "legacy_unminted_refundable")
  BY <1>1, InsertKeeps, Zenon DEF Classes, LegacyClasses
<1>2. CASE RecordConsumeSubmitted(p) \/ ResetCommit(p) \/ BeginMint(p)
  BY <1>2, SubmittedKeeps, ResetCommitKeeps, BeginMintKeeps, Zenon
<1>3. CASE RecordMinted(p) \/ ResetMintForRetry(p) \/ \E m \in MintBlocks : ConfirmMintRecovery(p, m)
  BY <1>3, RecordMintedKeeps, ResetMintKeeps, ConfirmMintKeeps, Zenon
<1>4. CASE \/ \E class \in LegacyClasses : UpdateClassification(p, class)
           \/ \E b \in JournalBlocks : RecordConsumeConfirmed(p, b)
  BY <1>4, ClassificationKeeps, ConfirmedKeeps, Zenon
<1>5. CASE MarkCommitInvalid(p)
  <2>1. Known(p) /\ GiveUp(p, "commit_invalid") /\ UNCHANGED <<hold, incidents, externalHold>>
    BY <1>5 DEF MarkCommitInvalid, Known, IsIn, NoPegIn, Pending
  <2>2. incidents' \in SUBSET PegIns /\ "commit_invalid" \in GivenUp
    BY <2>1, Zenon DEF TablesInv, TablesTypeOK, GivenUp
  <2> QED
    BY <2>1, <2>2, GiveUpKeeps, Zenon
<1>6. CASE MarkIncident(p)
  <2>1. /\ Known(p) /\ externalHold /\ GiveUp(p, "incident") /\ UNCHANGED <<hold, externalHold>>
        /\ incidents' = incidents \cup {p}
    BY <1>6, Zenon DEF MarkIncident
  <2>2. incidents' \in SUBSET PegIns /\ "incident" \in GivenUp
    BY <2>1, Zenon DEF TablesInv, TablesTypeOK, GivenUp
  <2> QED
    BY <2>1, <2>2, GiveUpKeeps, Zenon
<1>7. CASE \E d \in {"deferred", "quarantined"} : RecordReconciliation(p, d)
  <2>1. UNCHANGED <<pegIn, mint, incidents, externalHold, attempt>>
    BY <1>7, Zenon DEF RecordReconciliation, journal
  <2>2. hold' \in [PegIns -> {"none", "deferred", "quarantined"}]
    BY <1>7, Zenon DEF RecordReconciliation, TablesInv, TablesTypeOK
  <2>3. TablesTypeOK' /\ OnlyRow(p)
    BY <2>1, <2>2, Zenon DEF TablesInv, TablesTypeOK, OnlyRow
  <2>4. SafeRow(p) /\ AgreeingRow(p)
    BY Zenon DEF TablesInv
  <2> QED
    BY <2>1, <2>3, <2>4, Zenon
       DEF KeepsRow, SafeRow, AgreeingRow, IsIn, In, HasReceipt, Known, Recorded
<1> QED
  BY <1>1, <1>2, <1>3, <1>4, <1>5, <1>6, <1>7, Zenon

\* The tables' invariant is inductive.
LEMMA TablesStep == TablesInv /\ [PegInJournalNext]_pegInVars => TablesInv'
<1> SUFFICES ASSUME TablesInv, [PegInJournalNext]_pegInVars PROVE TablesInv'
  BY Zenon
<1>1. ASSUME NEW p \in PegIns, KeepsRow(p) PROVE TablesInv'
  <2>1. \A q \in PegIns : q # p => SafeRow(q)' /\ AgreeingRow(q)'
    BY <1>1, OthersKept, Zenon DEF KeepsRow
  <2> QED
    BY <1>1, <2>1, Zenon DEF KeepsRow, TablesInv
<1>2. CASE HoldFundsRelease \/ UNCHANGED pegInVars
  <2>1. UNCHANGED <<pegIn, mint, hold, incidents, attempt>> /\ (externalHold' = TRUE \/ externalHold' = externalHold)
    BY <1>2, Zenon DEF HoldFundsRelease, pegInVars, pegInTables, journal
  <2>2. TablesTypeOK'
    BY <2>1, Zenon DEF TablesInv, TablesTypeOK
  <2>3. ASSUME NEW p \in PegIns PROVE SafeRow(p)' /\ AgreeingRow(p)'
    BY <2>1 DEF TablesInv, SafeRow, AgreeingRow, IsIn, In, HasReceipt, Known, Recorded
  <2> QED
    BY <2>2, <2>3, Zenon DEF TablesInv
<1> QED
  BY <1>1, <1>2, OperationKeeps, Zenon DEF PegInJournalNext

LEMMA TablesPromise == TablesInv => GivenUpSafely /\ ReceiptAgreesWithAttempt
  BY Zenon DEF TablesInv, SafeRow, AgreeingRow, GivenUpSafely, ReceiptAgreesWithAttempt

-----------------------------------------------------------------------------
(* What a step of the daemon does to one row. *)

LEMMA RowKept ==
    ASSUME NEW p \in PegIns, pegIn'[p] = pegIn[p], mint'[p] = mint[p], hold'[p] = hold[p] \/ work.place = "record"
    PROVE  RowEffect(p)
  BY Zenon DEF RowEffect, Known, IsIn, HasReceipt

\* Of an update of one row that is in the table.
LEMMA UpdatedRow ==
    ASSUME TablesInv, NEW p \in PegIns, Known(p), NEW row \in PegInRows, pegIn' = [pegIn EXCEPT ![p] = row]
    PROVE  /\ pegIn'[p] = row /\ Known(p)' /\ pegIn[p] \in PegInRows
           /\ \A q \in PegIns \ {p} : pegIn'[q] = pegIn[q]
<1>1. row # NoPegIn
  BY DEF PegInRows, NoPegIn
<1>2. pegIn'[p] = row /\ \A q \in PegIns \ {p} : pegIn'[q] = pegIn[q]
  BY Zenon DEF TablesInv, TablesTypeOK
<1>3. pegIn[p] \in PegInRows
  BY KnownRow, Zenon
<1> QED
  BY <1>1, <1>2, <1>3, Zenon DEF Known

LEMMA OneRow ==
    ASSUME NEW p \in PegIns, RowEffect(p), UNCHANGED hold,
           \A q \in PegIns \ {p} : pegIn'[q] = pegIn[q] /\ mint'[q] = mint[q]
    PROVE  AllRows
<1> SUFFICES ASSUME NEW q \in PegIns, q # p PROVE RowEffect(q)
  BY Zenon DEF AllRows
<1> QED
  BY RowKept, Zenon

LEMMA InsertEffect ==
    ASSUME TablesInv, NEW p \in PegIns, NEW class, InsertPegIn(p, class) PROVE AllRows
<1>1. /\ pegIn'[p] = [status |-> "detected", class |-> class, commit |-> FALSE, receipt |-> Unconfirmed, hash |-> FALSE]
      /\ \A q \in PegIns \ {p} : pegIn'[q] = pegIn[q]
      /\ UNCHANGED <<mint, hold>> /\ ~Known(p)
  BY Zenon DEF TablesInv, TablesTypeOK, InsertPegIn
<1>2. ~IsIn(p, Submitted)' /\ ~IsIn(p, {"minting"})' /\ ~HasReceipt(p)' /\ IsIn(p, {"detected"})'
  BY <1>1 DEF IsIn, Submitted, HasReceipt
<1>3. RowEffect(p)
  BY <1>1, <1>2, Zenon DEF RowEffect
<1> QED
  BY <1>1, <1>3, OneRow, Zenon

LEMMA ReconciliationEffect ==
    ASSUME NEW p \in PegIns, NEW d, RecordReconciliation(p, d), work.place = "record" PROVE AllRows
  BY RowKept, Zenon DEF AllRows, RecordReconciliation

LEMMA ClassificationEffect ==
    ASSUME TablesInv, NEW p \in PegIns, p = Job, work.place \in Classifying, NEW class \in LegacyClasses,
           UpdateClassification(p, class)
    PROVE  AllRows
<1> DEFINE row == [pegIn[p] EXCEPT !.class = class]
<1>1. Known(p) /\ pegIn' = [pegIn EXCEPT ![p] = row] /\ UNCHANGED <<mint, hold>>
  BY Zenon DEF UpdateClassification, Update
<1>2. pegIn[p] \in PegInRows
  BY <1>1, KnownRow, Zenon
<1> class \in Classes
  BY Zenon DEF Classes
<1>3. /\ row \in PegInRows /\ row.status = pegIn[p].status /\ row.receipt = pegIn[p].receipt
      /\ row.class = class
  BY <1>2, Zenon DEF PegInRows
<1>4. class # ActiveClass
  BY Zenon DEF ActiveClass, LegacyClasses
<1> HIDE DEF row
<1>5. pegIn'[p] = row /\ Known(p)' /\ \A q \in PegIns \ {p} : pegIn'[q] = pegIn[q]
  BY <1>1, <1>3, UpdatedRow, Zenon
<1>6. RowEffect(p)
  BY <1>1, <1>3, <1>4, <1>5, Zenon DEF RowEffect, IsIn, HasReceipt
<1> QED
  BY <1>1, <1>5, <1>6, OneRow, Zenon

LEMMA ConfirmedEffect ==
    ASSUME TablesInv, NEW p \in PegIns, p = Job, work.place = "vault", work.seen \in Blocks,
           RecordConsumeConfirmed(p, work.seen)
    PROVE  AllRows
<1> DEFINE row == [pegIn[p] EXCEPT !.status = "consume_confirmed", !.receipt = work.seen]
<1>1. pegIn' = [pegIn EXCEPT ![p] = row] /\ UNCHANGED <<mint, hold>> /\ work.seen \in JournalBlocks
  BY PegInDaemonAssumption, Zenon DEF RecordConsumeConfirmed, Update
<1>2. pegIn[p] \in PegInRows /\ Known(p)
  BY KnownRow DEF RecordConsumeConfirmed, IsIn, AllStatuses, Pending, Known, NoPegIn
<1>3. /\ row \in PegInRows /\ row.status = "consume_confirmed" /\ row.receipt = work.seen
      /\ row.class = pegIn[p].class
  BY <1>1, <1>2, Zenon DEF PegInRows, Pending
<1>4. HasReceipt(p) => pegIn[p].receipt = work.seen
  BY Zenon DEF RecordConsumeConfirmed, HasReceipt
<1> HIDE DEF row
<1>5. pegIn'[p] = row /\ Known(p)' /\ \A q \in PegIns \ {p} : pegIn'[q] = pegIn[q]
  BY <1>1, <1>2, <1>3, UpdatedRow, Zenon
<1>6. ~IsIn(p, Submitted)' /\ ~IsIn(p, {"minting"})'
  BY <1>3, <1>5, Zenon DEF IsIn, Submitted
<1>7. HasReceipt(p) => HasReceipt(p)'
  BY <1>3, <1>4, <1>5, Zenon DEF HasReceipt
<1>8. RowEffect(p)
  BY <1>1, <1>2, <1>3, <1>5, <1>6, <1>7, Zenon DEF RowEffect
<1> QED
  BY <1>1, <1>5, <1>8, OneRow, Zenon

LEMMA ResetCommitEffect ==
    ASSUME TablesInv, NEW p \in PegIns, p = Job, VisitEnds, ResetCommit(p)
    PROVE  AllRows
<1> DEFINE row == [pegIn[p] EXCEPT !.status = "detected", !.commit = FALSE, !.receipt = Unconfirmed]
<1>1. pegIn' = [pegIn EXCEPT ![p] = row] /\ UNCHANGED <<mint, hold>>
  BY Zenon DEF ResetCommit, Update
<1>2. pegIn[p] \in PegInRows /\ Known(p)
  BY KnownRow DEF ResetCommit, IsIn, AllStatuses, Pending, Known, NoPegIn
<1>3. /\ row \in PegInRows /\ row.status = "detected" /\ row.receipt = Unconfirmed
      /\ row.class = pegIn[p].class
  BY <1>2, Zenon DEF PegInRows, Pending
<1> HIDE DEF row
<1>4. pegIn'[p] = row /\ Known(p)' /\ \A q \in PegIns \ {p} : pegIn'[q] = pegIn[q]
  BY <1>1, <1>2, <1>3, UpdatedRow, Zenon
<1>5. ~IsIn(p, Submitted)' /\ ~IsIn(p, {"minting"})' /\ ~HasReceipt(p)'
  BY <1>3, <1>4, Zenon DEF IsIn, Submitted, HasReceipt
<1>6. RowEffect(p)
  BY <1>1, <1>2, <1>3, <1>4, <1>5, Zenon DEF RowEffect
<1> QED
  BY <1>1, <1>4, <1>6, OneRow, Zenon

LEMMA GiveUpEffect ==
    ASSUME TablesInv, NEW p \in PegIns, Known(p), NEW status \in GivenUp, GiveUp(p, status), UNCHANGED hold
    PROVE  AllRows
<1> DEFINE row == [pegIn[p] EXCEPT !.status = status]
           s == IF mint[p].status \in LiveMint THEN "quarantined" ELSE mint[p].status
<1>1. pegIn' = [pegIn EXCEPT ![p] = row] /\ mint' = [mint EXCEPT ![p].status = s]
  BY Zenon DEF GiveUp, Update
<1>2. pegIn[p] \in PegInRows
  BY KnownRow, Zenon
<1>3. /\ row \in PegInRows /\ row.status = status /\ row.receipt = pegIn[p].receipt
      /\ row.class = pegIn[p].class
  BY <1>2, Zenon DEF PegInRows
<1>4. /\ s = "abandoned" => mint[p].status = "abandoned"
      /\ s \in LiveMint \cup {"none", "rejected", "confirmed", "abandoned", "quarantined"}
  BY Zenon DEF LiveMint, TablesInv, TablesTypeOK, MintRows
<1> HIDE DEF row, s
<1>5. pegIn'[p] = row /\ Known(p)' /\ \A q \in PegIns \ {p} : pegIn'[q] = pegIn[q]
  BY <1>1, <1>3, UpdatedRow, Zenon
<1>6. /\ mint'[p].status = s /\ mint'[p].evidence = mint[p].evidence
      /\ \A q \in PegIns \ {p} : mint'[q] = mint[q]
  BY <1>1, Zenon DEF TablesInv, TablesTypeOK, MintRows
<1>7. ~IsIn(p, Submitted)' /\ ~IsIn(p, {"minting"})'
  BY <1>3, <1>5, Zenon DEF IsIn, Submitted, GivenUp
<1>8. HasReceipt(p)' <=> HasReceipt(p)
  BY <1>3, <1>5, Zenon DEF HasReceipt
<1>9. RowEffect(p)
  BY <1>3, <1>4, <1>5, <1>6, <1>7, <1>8, Zenon DEF RowEffect
<1> QED
  BY <1>5, <1>6, <1>9, OneRow, Zenon

\* Of an operation on the mint of a submitted or a confirmed row.
LEMMA MintRowEffect ==
    ASSUME TablesInv, NEW p \in PegIns, p = Job, work.place \in Resolving, IsIn(p, AllStatuses), HasReceipt(p),
           NEW row \in PegInRows, row.status \in {"minted", "consume_confirmed"},
           row.receipt = pegIn[p].receipt, row.class = pegIn[p].class, pegIn' = [pegIn EXCEPT ![p] = row],
           NEW m \in MintRows,
           mint' = [mint EXCEPT ![p] = m], UNCHANGED hold,
           m.evidence = mint[p].evidence \/ m.evidence = side[p].block,
           m.status = "abandoned" => mint[p].status = "abandoned" \/ MintGone(p)
    PROVE  AllRows
<1>1. pegIn[p] \in PegInRows /\ Known(p)
  BY KnownRow DEF IsIn, AllStatuses, Pending, Submitted, GivenUp, Known, NoPegIn
<1>2. pegIn'[p] = row /\ Known(p)' /\ \A q \in PegIns \ {p} : pegIn'[q] = pegIn[q]
  BY <1>1, UpdatedRow, Zenon
<1>3. mint'[p] = m /\ \A q \in PegIns \ {p} : mint'[q] = mint[q]
  BY Zenon DEF TablesInv, TablesTypeOK
<1>4. ~IsIn(p, {"minting"})'
  BY <1>2, Zenon DEF IsIn
<1>5. HasReceipt(p)'
  BY <1>2, Zenon DEF HasReceipt
<1>6. RowEffect(p)
  BY <1>1, <1>2, <1>3, <1>4, <1>5, Zenon DEF RowEffect
<1> QED
  BY <1>2, <1>3, <1>6, OneRow, Zenon

LEMMA MintedEffect ==
    ASSUME TablesInv, NEW p \in PegIns, p = Job, work.place \in Resolving, RecordMinted(p)
    PROVE  AllRows
<1> DEFINE m == [mint[p] EXCEPT !.status = IF mint[p].status = "accepted" THEN "confirmed" ELSE mint[p].status]
<1>1. IsIn(p, AllStatuses) /\ HasReceipt(p)
  BY Zenon DEF RecordMinted, IsIn, AllStatuses, Pending, Submitted
<1>2. pegIn[p] \in PegInRows
  BY <1>1, KnownRow, Zenon
<1>3. mint[p] \in MintRows
  BY Zenon DEF TablesInv, TablesTypeOK
<1>4. m \in MintRows /\ m.evidence = mint[p].evidence /\ (m.status = "abandoned" => mint[p].status = "abandoned")
  BY <1>3, Zenon DEF MintRows
<1>5. mint' = [mint EXCEPT ![p] = m] /\ UNCHANGED hold
  BY Zenon DEF RecordMinted
<1> DEFINE row == [pegIn[p] EXCEPT !.status = "minted"]
<1>6. /\ row \in PegInRows /\ row.status = "minted" /\ row.receipt = pegIn[p].receipt
      /\ row.class = pegIn[p].class
  BY <1>2, Zenon DEF PegInRows, Submitted
<1>7. pegIn' = [pegIn EXCEPT ![p] = row]
  BY Zenon DEF RecordMinted, Update
<1> HIDE DEF m, row
<1> QED
  BY <1>1, <1>4, <1>5, <1>6, <1>7, MintRowEffect, Zenon

LEMMA RecoveryEffect ==
    ASSUME TablesInv, NEW p \in PegIns, p = Job, work.place \in Resolving, side[p].block \in MintBlocks,
           ConfirmMintRecovery(p, side[p].block)
    PROVE  AllRows
<1> DEFINE m == [status |-> "confirmed", evidence |-> side[p].block]
<1>1. IsIn(p, AllStatuses) /\ HasReceipt(p)
  BY Zenon DEF ConfirmMintRecovery, IsIn, AllStatuses
<1>2. m \in MintRows /\ m.evidence = side[p].block /\ m.status # "abandoned"
  BY Zenon DEF MintRows
<1>3. mint' = [mint EXCEPT ![p] = m] /\ UNCHANGED hold
  BY Zenon DEF ConfirmMintRecovery
<1>4. pegIn[p] \in PegInRows
  BY <1>1, KnownRow, Zenon
<1> DEFINE row == [pegIn[p] EXCEPT !.status = "minted", !.hash = TRUE]
<1>5. /\ row \in PegInRows /\ row.status = "minted" /\ row.receipt = pegIn[p].receipt
      /\ row.class = pegIn[p].class
  BY <1>4, Zenon DEF PegInRows, Submitted
<1>6. pegIn' = [pegIn EXCEPT ![p] = row]
  BY Zenon DEF ConfirmMintRecovery, Update
<1> HIDE DEF m, row
<1> QED
  BY <1>1, <1>2, <1>3, <1>5, <1>6, MintRowEffect, Zenon

LEMMA ResetMintEffect ==
    ASSUME TablesInv, NEW p \in PegIns, p = Job, work.place \in Resolving, ResetMintForRetry(p), MintGone(p)
    PROVE  AllRows
<1> DEFINE m == [mint[p] EXCEPT !.status = IF mint[p].status \in LiveMint \cup {"confirmed"} THEN "abandoned"
                                           ELSE mint[p].status]
<1>1. IsIn(p, AllStatuses) /\ HasReceipt(p)
  BY Zenon DEF ResetMintForRetry, IsIn, AllStatuses
<1>2. mint[p] \in MintRows
  BY Zenon DEF TablesInv, TablesTypeOK
<1>3. m \in MintRows /\ m.evidence = mint[p].evidence
  BY <1>2, Zenon DEF MintRows
<1>4. mint' = [mint EXCEPT ![p] = m] /\ UNCHANGED hold
  BY Zenon DEF ResetMintForRetry
<1>5. pegIn[p] \in PegInRows
  BY <1>1, KnownRow, Zenon
<1> DEFINE row == [pegIn[p] EXCEPT !.status = "consume_confirmed", !.hash = FALSE]
<1>6. /\ row \in PegInRows /\ row.status = "consume_confirmed" /\ row.receipt = pegIn[p].receipt
      /\ row.class = pegIn[p].class
  BY <1>5, Zenon DEF PegInRows, Pending
<1>7. pegIn' = [pegIn EXCEPT ![p] = row]
  BY Zenon DEF ResetMintForRetry, Update
<1> HIDE DEF m, row
<1> QED
  BY <1>1, <1>3, <1>4, <1>6, <1>7, MintRowEffect, Zenon

LEMMA NothingWritten == ASSUME UNCHANGED <<pegIn, mint, hold>> PROVE AllRows
  BY RowKept, Zenon DEF AllRows

LEMMA VisitRows ==
    ASSUME TablesInv, WorkInv, MintsInv, VisitStep
    PROVE  AllRows /\ TablesMove
<1>1. PICK p \in PegIns : p = Job
  BY Zenon DEF VisitStep, WorkInv, Job
<1>2. CASE Tables
  BY <1>2, NothingWritten, Zenon DEF Tables, pegInVars, pegInTables, TablesMove
<1>3. CASE WritesReceipt
  <2>1. work.place = "vault" /\ work.seen \in Blocks /\ RecordConsumeConfirmed(p, work.seen)
    BY <1>1, <1>3, Zenon DEF WritesReceipt, WorkInv
  <2>2. TablesMove
    BY <2>1, PegInDaemonAssumption, Zenon DEF TablesMove, PegInJournalNext
  <2> QED
    BY <1>1, <2>1, <2>2, ConfirmedEffect, Zenon
<1>4. CASE GivesWay /\ ResetCommit(p)
  BY <1>1, <1>4, ResetCommitEffect, Zenon DEF GivesWay, TablesMove, PegInJournalNext
<1>5. CASE GivesWay /\ MarkCommitInvalid(p)
  <2>1. GiveUp(p, "commit_invalid") /\ UNCHANGED hold /\ "commit_invalid" \in GivenUp /\ Known(p)
    BY <1>5 DEF MarkCommitInvalid, GivenUp, IsIn, Known, NoPegIn, Pending
  <2> QED
    BY <1>5, <2>1, GiveUpEffect, Zenon DEF TablesMove, PegInJournalNext
<1>6. CASE Concludes /\ RecordMinted(p)
  BY <1>1, <1>6, MintedEffect, Zenon DEF Concludes, TablesMove, PegInJournalNext
<1>7. CASE Concludes /\ ConfirmMintRecovery(p, side[p].block) /\ side[p].deep
  <2>1. side[p].block \in MintBlocks
    BY <1>7, PegInDaemonAssumption DEF MintsInv, Mints
  <2> QED
    BY <1>1, <1>7, <2>1, RecoveryEffect, Zenon DEF Concludes, TablesMove, PegInJournalNext
<1>8. CASE /\ work.place \in Resolving /\ ResetMintForRetry(p)
           /\ mint[p].status \in LiveMint => work.place = "expiry" /\ side[p].expired
           /\ work.place # "expiry" => side[p].block = 0
  <2>1. MintGone(p)
    BY <1>1, <1>8, Zenon DEF MintGone, MintsInv, Job, NoMintBlock
  <2> QED
    BY <1>1, <1>8, <2>1, ResetMintEffect, Zenon DEF TablesMove, PegInJournalNext
<1>9. CASE Classifies
  BY <1>1, <1>9, ClassificationEffect, Zenon DEF Classifies, Classifying, TablesMove, PegInJournalNext
<1>10. CASE HoldFundsRelease
  BY <1>10, NothingWritten, Zenon DEF HoldFundsRelease, pegInTables, TablesMove, PegInJournalNext
<1>11. CASE MarkIncident(p)
  <2>1. GiveUp(p, "incident") /\ UNCHANGED hold /\ "incident" \in GivenUp /\ Known(p)
    BY <1>11, Zenon DEF MarkIncident, GivenUp
  <2> QED
    BY <1>11, <2>1, GiveUpEffect, Zenon DEF TablesMove, PegInJournalNext
<1> QED
  BY <1>1, <1>2, <1>3, <1>4, <1>5, <1>6, <1>7, <1>8, <1>9, <1>10, <1>11, Zenon
     DEF VisitStep, FindsTx, FindsHeader, FindsSpent, Resolves, ReadsAgain, ToIncident, GoesOn,
         GivesWay, Concludes, OpensIncident

LEMMA TickRows == ASSUME TablesInv, TickStep PROVE AllRows /\ TablesMove
<1>1. CASE Tables
  BY <1>1, NothingWritten, Zenon DEF Tables, pegInVars, pegInTables, TablesMove
<1>2. CASE Registers
  BY <1>2, InsertEffect, Zenon DEF Registers, TablesMove, PegInJournalNext
<1>3. CASE RecordsHold
  BY <1>3, ReconciliationEffect, Zenon DEF RecordsHold, TablesMove, PegInJournalNext
<1> QED
  BY <1>1, <1>2, <1>3, Zenon
     DEF TickStep, Starts, BeginsTick, DetectsReorg, DetectsNone, GoesIdle, MovesOn, BeginsPass, Takes,
         EndsPass, Crashes, Still

-----------------------------------------------------------------------------
(* Where the daemon is. *)

LEMMA VisitEndsWork ==
    ASSUME WorkInv, AllRows, work.place \in Visiting, VisitEnds
    PROVE  WorkInv'
<1>1. \A p \in work.todo : p \in PegIns /\ Known(p)'
  BY Zenon DEF WorkInv, Works, AllRows, RowEffect
<1>2. CASE work'.place = "idle"
  BY <1>2, Zenon DEF VisitEnds, WorkInv, Visiting, Reading, Resolving, Classifying
<1>3. CASE /\ work'.place = "next" /\ work'.job = NoJob /\ work'.stage = "minted"
           /\ work'.todo \subseteq work.todo
  <2>1. \A p \in work'.todo : Known(p)'
    BY <1>1, <1>3, Zenon
  <2> QED
    BY <1>3, <2>1, Zenon DEF VisitEnds, WorkInv, Visiting, Reading, Resolving, Classifying
<1> QED
  BY <1>2, <1>3, Zenon DEF VisitEnds

LEMMA SameVisitWork ==
    ASSUME WorkInv, AllRows, work.place \in Visiting, SameVisit, NEW p \in PegIns, p = Job,
           work'.place \in Reading \cup Resolving =>
              /\ work.place \in Reading \cup Resolving
              /\ (work'.stage \in {"minted", "retry"}) <=> (work.pass # "pending")
              /\ work'.place \in Resolving \/ work'.stage \notin {"submitted", "canonical"} => HasReceipt(p)',
           work'.place \in Classifying => work.place \in Classifying,
           work'.place = "vault" => work'.seen \in Blocks
    PROVE  WorkInv'
<1>1. \A q \in work.todo : q \in PegIns /\ Known(q)'
  BY Zenon DEF WorkInv, Works, AllRows, RowEffect
<1>2. Known(p) /\ RowEffect(p) /\ work.job = p
  BY Zenon DEF WorkInv, AllRows, Job
<1>3. Known(p)' /\ work'.job = p /\ work'.todo = work.todo /\ work'.pass = work.pass /\ work' \in Works
  BY <1>2, Zenon DEF SameVisit, RowEffect
<1>4. work.place \in Reading \cup Resolving => pegIn'[p].class = ActiveClass
  <2>1. work.place \in Reading \cup Resolving => work.place \notin Classifying /\ pegIn[p].class = ActiveClass
    BY <1>2, Zenon DEF Reading, Resolving, Classifying, WorkInv
  <2> QED
    BY <1>2, <2>1, Zenon DEF RowEffect
<1>5. work.place \in Classifying => pegIn'[p].class # ActiveClass
  BY <1>2, Zenon DEF WorkInv, RowEffect
<1>6. work'.place # "next" /\ work'.place \in Visiting
  BY Zenon DEF SameVisit, Visiting, Reading, Resolving, Classifying
<1> QED
  BY <1>1, <1>3, <1>4, <1>5, <1>6, Zenon DEF WorkInv

\* While a visit goes on, the row keeps its receipt.
LEMMA ReceiptStays ==
    ASSUME WorkInv, AllRows, SameVisit, NEW p \in PegIns, p = Job, work.place \in Visiting, HasReceipt(p)
    PROVE  HasReceipt(p)'
<1>1. Known(p) /\ RowEffect(p)
  BY Zenon DEF WorkInv, AllRows, Job
<1>2. ~VisitEnds
  BY Zenon DEF VisitEnds, SameVisit, Visiting, Reading, Resolving, Classifying
<1> QED
  BY <1>1, <1>2, Zenon DEF RowEffect

LEMMA VisitKeepsWork == ASSUME TablesInv, WorkInv, AllRows, VisitStep PROVE WorkInv'
<1>1. PICK p \in PegIns : p = Job
  BY Zenon DEF VisitStep, WorkInv, Job
<1>2. /\ work.place \in Visiting /\ work \in Works /\ work.job = p
      /\ work.place \in Reading \cup Resolving =>
            /\ (work.stage \in {"minted", "retry"}) <=> (work.pass # "pending")
            /\ work.place \in Resolving \/ work.stage \notin {"submitted", "canonical"} => HasReceipt(p)
  BY <1>1, Zenon DEF VisitStep, WorkInv, Job
<1>3. CASE VisitEnds
  BY <1>2, <1>3, VisitEndsWork, Zenon
<1>4. CASE SameVisit /\ work'.place \in {"incident", "held"}
  BY <1>1, <1>2, <1>4, SameVisitWork, Zenon DEF Reading, Resolving, Classifying
<1>5. CASE GoesOn("legacySource", "legacyProcessed")
  BY <1>1, <1>2, <1>5, SameVisitWork, Zenon DEF GoesOn, Reading, Resolving, Classifying
<1>6. CASE FindsTx \/ FindsHeader \/ FindsSpent
  <2>1. /\ SameVisit /\ work.place \in Reading /\ work'.place \in Reading /\ work'.stage = work.stage
        /\ work'.place = "vault" => work.seen # NoBlock /\ work'.seen = work.seen
    BY <1>6, Zenon DEF FindsTx, FindsHeader, FindsSpent, GoesOn, Reading
  <2>2. work'.place = "vault" => work'.seen \in Blocks
    BY <1>2, <2>1, Zenon DEF Works
  <2>3. work'.place \notin Resolving \cup Classifying
    BY <2>1, Zenon DEF Reading, Resolving, Classifying
  <2>4. HasReceipt(p) => HasReceipt(p)'
    BY <1>1, <1>2, <2>1, ReceiptStays, Zenon
  <2> QED
    BY <1>1, <1>2, <2>1, <2>2, <2>3, <2>4, SameVisitWork, Zenon
<1>7. CASE Resolves
  <2>1. /\ SameVisit /\ work.place \in Reading \cup Resolving /\ work'.place \in Resolving
        /\ work'.stage = work.stage /\ HasReceipt(p)
    BY <1>1, <1>2, <1>7, Zenon DEF Resolves, GoesOn, Reading, Resolving
  <2>2. work'.place \notin Reading \cup Classifying /\ work'.place # "vault"
    BY <2>1, Zenon DEF Reading, Resolving, Classifying
  <2>3. HasReceipt(p)'
    BY <1>1, <1>2, <2>1, ReceiptStays, Zenon
  <2> QED
    BY <1>1, <1>2, <2>1, <2>2, <2>3, SameVisitWork, Zenon
<1>8. CASE ReadsAgain
  <2>1. /\ SameVisit /\ work.place = "processed" /\ work'.place = "tx"
        /\ work'.stage = IF work.pass = "pending" THEN "beforeMint" ELSE "retry"
    BY <1>8, Zenon DEF ReadsAgain, GoesOn
  <2>2. work.place \in Resolving /\ work'.place \in Reading /\ work'.place \notin Classifying /\ work'.place # "vault"
    BY <2>1, Zenon DEF Reading, Resolving, Classifying
  <2>3. HasReceipt(p)'
    BY <1>1, <1>2, <2>1, <2>2, ReceiptStays, Zenon
  <2> QED
    BY <1>1, <1>2, <2>1, <2>2, <2>3, SameVisitWork, Zenon
<1>9. CASE WritesReceipt
  <2>1. /\ SameVisit /\ work.place = "vault" /\ work.place \in Reading
        /\ work.stage \in {"submitted", "canonical"}
        /\ work'.place \in {"tx", "processed"} /\ work'.stage \in {"submitted", "canonical"}
        /\ work'.place \notin Classifying /\ work'.place # "vault"
    BY <1>9, Zenon DEF WritesReceipt, Reading, Classifying
  <2>2. work.pass = "pending" /\ work.seen \in JournalBlocks
    BY <1>2, <2>1, PegInDaemonAssumption, Zenon DEF WorkInv
  <2>3. pegIn' = [pegIn EXCEPT ![p] = [pegIn[p] EXCEPT !.status = "consume_confirmed", !.receipt = work.seen]]
    BY <1>1, <1>9, Zenon DEF WritesReceipt, RecordConsumeConfirmed, Update
  <2>4. pegIn[p] \in PegInRows
    BY <1>2, KnownRow, Zenon DEF WorkInv
  <2>5. pegIn'[p].receipt = work.seen
    BY <2>3, <2>4, Zenon DEF TablesInv, TablesTypeOK, PegInRows
  <2>6. HasReceipt(p)'
    BY <2>2, <2>5, TxsAssumption, Zenon DEF HasReceipt
  <2> QED
    BY <1>1, <1>2, <2>1, <2>2, <2>6, SameVisitWork, Zenon
<1> QED
  BY <1>3, <1>4, <1>5, <1>6, <1>7, <1>8, <1>9, Zenon
     DEF VisitStep, ToIncident, GoesOn, GivesWay, Concludes, Classifies, OpensIncident

LEMMA PassBeginsWork ==
    ASSUME NEW pass, NEW S \in SUBSET PegIns, PassBegins(pass, S), \A p \in S : Known(p)'
    PROVE  WorkInv'
  BY Zenon DEF PassBegins, WorkInv, Visiting, Reading, Resolving, Classifying

LEMMA AwayWork ==
    ASSUME work' \in Works, work'.place \in Between \cup {"idle", "down", "detect"}
    PROVE  WorkInv'
  BY Zenon DEF WorkInv, Between, Visiting, Reading, Resolving, Classifying

LEMMA TickKeepsWork == ASSUME WorkInv, AllRows, TickStep PROVE WorkInv'
<1>1. CASE Starts \/ DetectsReorg
  <2>1. AllSubmitted \in SUBSET PegIns /\ PassBegins("all", AllSubmitted) /\ Tables
    BY <1>1, Zenon DEF Starts, DetectsReorg, AllSubmitted, Still
  <2>2. \A p \in AllSubmitted : Known(p)
    BY RowPresent, Zenon DEF AllSubmitted, Submitted
  <2>3. \A p \in AllSubmitted : Known(p)'
    BY <2>1, <2>2, Zenon DEF AllRows, RowEffect
  <2> HIDE DEF AllSubmitted
  <2> QED
    BY <2>1, <2>3, PassBeginsWork, Zenon
<1>2. CASE BeginsPass
  <2>1. PICK pass \in {"legacy", "pending", "batch"}, S \in SUBSET PegIns :
            PassBegins(pass, S) /\ \A p \in S : Known(p)
    BY <1>2, Zenon DEF BeginsPass
  <2>2. \A p \in S : Known(p)'
    BY <2>1, Zenon DEF AllRows, RowEffect
  <2> QED
    BY <2>1, <2>2, PassBeginsWork, Zenon
<1>3. CASE Takes
  <2>1. PICK p \in work.todo :
          /\ work'.job = p /\ work'.todo = work.todo \ {p} /\ work'.pass = work.pass
          /\ \/ work'.place = "legacySource" /\ pegIn[p].class # ActiveClass
             \/ /\ work'.place = "tx" /\ pegIn[p].class = ActiveClass
                /\ \/ work.pass = "pending" /\ work'.stage \in {"submitted", "canonical"}
                   \/ work.pass # "pending" /\ work'.stage = work.stage /\ HasReceipt(p)
             \/ work'.place = "incident"
    BY <1>3, Zenon DEF Takes
  <2>2. work.place = "next" /\ work' \in Works /\ work \in Works /\ work.stage = "minted" /\ UNCHANGED pegIn
    BY <1>3, Zenon DEF Takes, WorkInv, Still, Tables, pegInVars, pegInTables
  <2>3. p \in PegIns /\ Known(p) /\ \A q \in work.todo : Known(q)
    BY <2>2, Zenon DEF WorkInv, Works
  <2> QED
    BY <2>1, <2>2, <2>3, Zenon DEF WorkInv, Visiting, Reading, Resolving, Classifying, Known, HasReceipt
<1>4. CASE BeginsTick \/ DetectsNone \/ GoesIdle \/ MovesOn \/ EndsPass \/ Registers \/ RecordsHold \/ Crashes
  <2>1. work' \in Works /\ work'.place \in Between \cup {"idle", "down", "detect"}
    BY <1>4, Zenon DEF BeginsTick, DetectsNone, GoesIdle, MovesOn, EndsPass, Registers, RecordsHold, Crashes, Between
  <2> QED
    BY <2>1, AwayWork, Zenon
<1> QED
  BY <1>1, <1>2, <1>3, <1>4, Zenon DEF TickStep

-----------------------------------------------------------------------------
(* Rows of earlier contracts, and the mints. *)

LEMMA RowsKeepClass == ASSUME WorkInv, ClassInv, AllRows PROVE ClassInv'
<1> SUFFICES ASSUME NEW p \in PegIns, Known(p)', pegIn'[p].class # ActiveClass
             PROVE  ~HasReceipt(p)'
  BY Zenon DEF ClassInv
<1>1. RowEffect(p)
  BY Zenon DEF AllRows
<1>2. CASE ~Known(p)
  BY <1>1, <1>2, Zenon DEF RowEffect
<1>3. CASE Known(p)
  <2>1. pegIn[p].class # ActiveClass
    BY <1>1, <1>3, Zenon DEF RowEffect, WorkInv, Job
  <2>2. ~HasReceipt(p)
    BY <1>3, <2>1, Zenon DEF ClassInv
  <2>3. ~(p = Job /\ work.place = "vault")
    BY <2>1, Zenon DEF WorkInv, Job, Reading
  <2> QED
    BY <1>1, <1>3, <2>2, <2>3, Zenon DEF RowEffect
<1> QED
  BY <1>2, <1>3, Zenon

LEMMA StepKeepsMints ==
    ASSUME MintsInv, AllRows, UNCHANGED side,
           work'.place = "expiry" => side[work.job].block = 0 /\ work'.job = work.job /\ UNCHANGED mint
    PROVE  MintsInv'
<1>1. \A p \in PegIns : mint'[p].evidence \in {mint[p].evidence, side[p].block}
  BY Zenon DEF AllRows, RowEffect
<1>2. work'.place = "expiry" /\ mint'[work'.job].evidence # NoMintBlock =>
          side'[work'.job].block # mint'[work'.job].evidence
  BY Zenon DEF NoMintBlock
<1> QED
  BY <1>1, <1>2, Zenon DEF MintsInv

LEMMA VisitKeepsMints == ASSUME MintsInv, AllRows, VisitStep PROVE MintsInv'
<1>1. UNCHANGED side
  BY Zenon DEF VisitStep, chains
<1>2. work'.place = "expiry" => side[work.job].block = 0 /\ work'.job = work.job /\ UNCHANGED mint
  <2>1. work'.place = "expiry" => Resolves
    BY Zenon DEF VisitStep, FindsTx, FindsHeader, FindsSpent, ReadsAgain, ToIncident, GoesOn, WritesReceipt,
           GivesWay, VisitEnds, Concludes, Classifies, OpensIncident
  <2>2. Resolves /\ work'.place = "expiry" => side[Job].block = 0 /\ SameVisit /\ Tables
    BY Zenon DEF Resolves, GoesOn
  <2> QED
    BY <2>1, <2>2, Zenon DEF Job, SameVisit, Tables, pegInVars, pegInTables
<1> QED
  BY <1>1, <1>2, StepKeepsMints, Zenon

LEMMA TickKeepsMints == ASSUME MintsInv, AllRows, TickStep PROVE MintsInv'
<1>1. UNCHANGED side
  BY Zenon DEF TickStep, Starts, BeginsTick, DetectsReorg, DetectsNone, GoesIdle, MovesOn, BeginsPass, Takes,
         EndsPass, Registers, RecordsHold, Crashes, Still, chains
<1>2. work'.place # "expiry"
  BY Zenon DEF TickStep, Starts, BeginsTick, DetectsReorg, DetectsNone, GoesIdle, MovesOn, BeginsPass, Takes,
         EndsPass, Registers, RecordsHold, Crashes, Between, PassBegins
<1> QED
  BY <1>1, <1>2, StepKeepsMints, Zenon

LEMMA OneMint ==
    ASSUME TablesInv, MintsInv, NEW p \in PegIns, NEW m \in Mints, side' = [side EXCEPT ![p] = m], UNCHANGED <<mint, work>>,
           m.deep => m.block > 0, m.block <= m.mined, m.mined >= side[p].mined,
           m.block \in {0, side[p].block} \/ m.block > side[p].mined
    PROVE  MintsInv'
<1>1. /\ side \in [PegIns -> Mints] /\ side[p].mined \in Nat /\ m.mined \in Nat /\ m.block \in Nat
      /\ side[p].block \in Nat /\ mint[p].evidence <= side[p].mined
  BY PegInDaemonAssumption DEF MintsInv, Mints
<1>2. side' \in [PegIns -> Mints] /\ side'[p] = m /\ \A q \in PegIns \ {p} : side'[q] = side[q]
  BY <1>1, Zenon
<1>3. mint[p].evidence <= m.mined
  <2>1. mint[p].evidence \in Nat
    BY PegInDaemonAssumption DEF TablesInv, TablesTypeOK, MintRows, NoMintBlock
  <2> QED
    BY <1>1, <2>1
<1>4. ASSUME NEW q \in PegIns
      PROVE  /\ side'[q].deep => side'[q].block > 0
             /\ side'[q].block <= side'[q].mined /\ mint'[q].evidence <= side'[q].mined
  BY <1>2, <1>3, Zenon DEF MintsInv
<1>5. ASSUME work.place = "expiry", mint[work.job].evidence # NoMintBlock
      PROVE  side'[work.job].block # mint[work.job].evidence
  <2>1. side[work.job].block # mint[work.job].evidence
    BY <1>5, Zenon DEF MintsInv
  <2>2. CASE work.job # p
    BY <2>1, <2>2
  <2>3. CASE work.job = p
    BY <1>1, <1>2, <1>5, <2>1, <2>3 DEF NoMintBlock
  <2> QED
    BY <2>2, <2>3, Zenon
<1> QED
  BY <1>2, <1>4, <1>5, Zenon DEF MintsInv

LEMMA MoveMintKeepsMints == ASSUME TablesInv, MintsInv, NEW p \in PegIns, MoveMint(p) PROVE MintsInv'
<1>1. /\ side \in [PegIns -> Mints] /\ UNCHANGED <<mint, work>>
      /\ side[p].block \in 0..MaxMints /\ side[p].mined \in 0..MaxMints /\ MaxMints \in Nat
      /\ side[p].block <= side[p].mined /\ mint[p].evidence <= side[p].mined
  BY PegInDaemonAssumption, Zenon DEF MintsInv, MoveMint, Mints, Daemon, pegInVars, pegInTables
<1>2. CASE side[p].block = 0 /\ side[p].mined < MaxMints /\ side' = [side EXCEPT ![p].block = side[p].mined + 1, ![p].mined = side[p].mined + 1]
  <2> DEFINE m == [side[p] EXCEPT !.block = side[p].mined + 1, !.mined = side[p].mined + 1]
  <2>1. /\ m \in Mints /\ m.block = side[p].mined + 1 /\ m.mined = side[p].mined + 1
        /\ m.block > 0 /\ m.block > side[p].mined
    BY <1>1, <1>2 DEF Mints
  <2>2. side' = [side EXCEPT ![p] = m]
    BY <1>2, Zenon
  <2> HIDE DEF m
  <2>3. m.block <= m.mined /\ m.mined >= side[p].mined
    BY <1>1, <2>1
  <2> QED
    BY <1>1, <2>1, <2>2, <2>3, OneMint, Zenon
<1>3. CASE side[p].block > 0 /\ side' = [side EXCEPT ![p].deep = TRUE]
  <2> DEFINE m == [side[p] EXCEPT !.deep = TRUE]
  <2>1. m \in Mints /\ m.block = side[p].block /\ m.mined = side[p].mined
    BY <1>1, <1>3, Zenon DEF Mints
  <2>2. side' = [side EXCEPT ![p] = m]
    BY <1>3, Zenon
  <2> HIDE DEF m
  <2>3. m.mined >= side[p].mined /\ m.block <= m.mined
    BY <1>1, <2>1
  <2> QED
    BY <1>1, <1>3, <2>1, <2>2, <2>3, OneMint, Zenon
<1>4. CASE side' = [side EXCEPT ![p].block = 0, ![p].deep = FALSE]
  <2> DEFINE m == [side[p] EXCEPT !.block = 0, !.deep = FALSE]
  <2>1. m \in Mints /\ m.block = 0 /\ m.mined = side[p].mined
    <3> DEFINE v == [side[p] EXCEPT !.block = 0]
    <3>1. v \in Mints /\ v.block = 0 /\ v.mined = side[p].mined
      BY <1>1 DEF Mints
    <3>2. m = [v EXCEPT !.deep = FALSE]
      BY Zenon
    <3> HIDE DEF v, m
    <3> QED
      BY <3>1, <3>2, Zenon DEF Mints
  <2>2. side' = [side EXCEPT ![p] = m]
    BY <1>4, Zenon
  <2>3. ~m.deep
    <3>1. side[p] \in Mints
      BY <1>1, Zenon
    <3>2. DOMAIN side[p] = {"sent", "block", "mined", "deep", "expired"}
      BY <3>1, Zenon DEF Mints
    <3> QED
      BY <3>2, Zenon
  <2> HIDE DEF m
  <2>4. m.mined >= side[p].mined /\ m.block <= m.mined
    BY <1>1, <2>1
  <2> QED
    BY <1>1, <2>1, <2>2, <2>3, <2>4, OneMint, Zenon
<1>5. CASE side' = [side EXCEPT ![p].expired = TRUE]
  <2> DEFINE m == [side[p] EXCEPT !.expired = TRUE]
  <2>1. m \in Mints /\ m.block = side[p].block /\ m.mined = side[p].mined
    BY <1>1, <1>5, Zenon DEF Mints
  <2>2. m.deep <=> side[p].deep
    BY <1>1, Zenon DEF Mints
  <2>3. side' = [side EXCEPT ![p] = m]
    BY <1>5, Zenon
  <2> HIDE DEF m
  <2>4. m.mined >= side[p].mined /\ m.block <= m.mined
    BY <1>1, <2>1
  <2>5. m.deep => m.block > 0
    BY <2>1, <2>2, Zenon DEF MintsInv
  <2> QED
    BY <1>1, <2>1, <2>3, <2>4, <2>5, OneMint, Zenon
<1> QED
  BY <1>2, <1>3, <1>4, <1>5, Zenon DEF MoveMint
=============================================================================
