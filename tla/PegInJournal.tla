----------------------------- MODULE PegInJournal -----------------------------
(***************************************************************************)
(* The peg-in tables of state-tracker.ts: peg_in_events with the trigger     *)
(* that freezes a row under a reconciliation hold,                           *)
(* peg_in_mint_transport_attempts with the trigger that quarantines the      *)
(* attempts of a row that is given up, peg_in_reconciliation_state,          *)
(* peg_in_safety_incidents, and the funds-release hold kept in a file.  The  *)
(* operational attempt of a commitment is in the journal of                  *)
(* OperationalJournal.  One SQLite transaction is one action; an operation   *)
(* that throws changes nothing and is not enabled.                           *)
(***************************************************************************)
EXTENDS OperationalJournal, Sequences

CONSTANTS
    PegIns,         \* row ids of peg_in_events
    CommitOf,       \* the commitment transaction of a peg-in
    MintBlocks      \* sidechain blocks, the evidence of a confirmed mint

NoMintBlock == 0
ActiveClass == "active_committed_vault"
LegacyClasses == {"legacy_unminted_refundable", "legacy_minted_requires_migration",
                  "legacy_already_consumed"}
\* "unknown" is what the migration gives the rows that were there before it.
Classes == {ActiveClass, "unknown"} \cup LegacyClasses

ASSUME PegInsAssumption ==
    /\ PegIns \subseteq Nat \ {0}
    /\ CommitOf \in [PegIns -> Txs]
    /\ \A p, q \in PegIns : CommitOf[p] = CommitOf[q] => p = q
    /\ NoMintBlock \notin MintBlocks
    /\ \A t \in Txs : ProfileOf[t] = "vault"

VARIABLES
    pegIn,          \* peg_in_events
    mint,           \* the latest attempt of each in peg_in_mint_transport_attempts
    hold,           \* the disposition of its reconciliation hold
    observed,       \* the held peg-ins by their latest_journal_id
    incidents,      \* peg-ins named in peg_in_safety_incidents
    externalHold    \* the funds-release hold file

pegInTables == <<pegIn, mint, hold, observed, incidents>>
pegInVars == <<pegInTables, externalHold, journal>>

Pending == {"detected", "confirmed", "consume_submitted", "consume_confirmed", "minting"}
Submitted == {"minting", "minted"}
GivenUp == {"commit_invalid", "incident", "failed"}
LiveMint == {"pending", "accepted", "ambiguous"}

PegInRows == [status : Pending \cup Submitted \cup GivenUp, class : Classes,
              commit : BOOLEAN, receipt : JournalBlocks \cup {Unconfirmed}, hash : BOOLEAN]
NoPegIn == [status |-> "absent"]
MintRows == [status : LiveMint \cup {"none", "rejected", "confirmed", "abandoned", "quarantined"},
             evidence : MintBlocks \cup {NoMintBlock}]

PegInTypeOK ==
    /\ JournalTypeOK
    /\ pegIn \in [PegIns -> PegInRows \cup {NoPegIn}]
    /\ mint \in [PegIns -> MintRows]
    /\ hold \in [PegIns -> {"none", "deferred", "quarantined"}]
    /\ observed \in Seq(PegIns)
    /\ incidents \subseteq PegIns
    /\ externalHold \in BOOLEAN

Known(p) == pegIn[p] # NoPegIn
IsIn(p, S) == pegIn[p].status \in S
HasReceipt(p) == pegIn[p].receipt # Unconfirmed

\* The hold's trigger: a held row may only be given up.
Permitted(p, row) ==
    hold[p] # "none" =>
        \/ row = pegIn[p]
        \/ row.status \in GivenUp /\ row = [pegIn[p] EXCEPT !.status = row.status]

\* An update of one row.
Update(p, row) == Permitted(p, row) /\ pegIn' = [pegIn EXCEPT ![p] = row]

-----------------------------------------------------------------------------
(* The commitment. *)

\* Registered with the classification its lock address gives it.
InsertPegIn(p, class) ==
    /\ ~Known(p)
    /\ pegIn' = [pegIn EXCEPT ![p] = [status |-> "detected", class |-> class,
                                     commit |-> FALSE, receipt |-> Unconfirmed, hash |-> FALSE]]
    /\ UNCHANGED <<mint, hold, observed, incidents, externalHold, journal>>

UpdateClassification(p, class) ==
    /\ Known(p)
    /\ Update(p, [pegIn[p] EXCEPT !.class = class])
    /\ UNCHANGED <<mint, hold, observed, incidents, externalHold, journal>>

RecordConsumeSubmitted(p) ==
    /\ IsIn(p, {"detected", "confirmed", "consume_submitted"})
    /\ Update(p, [pegIn[p] EXCEPT !.status = "consume_submitted", !.commit = TRUE,
                                  !.receipt = Unconfirmed])
    /\ UNCHANGED <<mint, hold, observed, incidents, externalHold, journal>>

\* Mutant: the operational attempt is left to its own reconciliation.
RecordConsumeConfirmedAlone(p, b) ==
    /\ IsIn(p, {"consume_submitted", "consume_confirmed"})
    /\ pegIn[p].commit
    /\ pegIn[p].receipt \in {Unconfirmed, b}
    /\ Update(p, [pegIn[p] EXCEPT !.status = "consume_confirmed", !.receipt = b])
    /\ UNCHANGED <<mint, hold, observed, incidents, externalHold, journal>>

\* The operational attempt is confirmed in the same transaction, which fails
\* when the attempt is quarantined or confirmed in another block.
RecordConsumeConfirmed(p, b) ==
    LET t == CommitOf[p] IN
    /\ IsIn(p, {"consume_submitted", "consume_confirmed"})
    /\ pegIn[p].commit
    /\ pegIn[p].receipt \in {Unconfirmed, b}
    /\ Update(p, [pegIn[p] EXCEPT !.status = "consume_confirmed", !.receipt = b])
    /\ \/ ~Recorded(t) /\ UNCHANGED journal
       \/ Confirm(t, b)
       \/ In(t, {"confirmed"}) /\ attempt[t].block = b /\ UNCHANGED journal
    /\ UNCHANGED <<mint, hold, observed, incidents, externalHold>>

\* An active attempt is abandoned, a confirmed one quarantined.
ResetCommit(p) ==
    LET t == CommitOf[p] IN
    /\ IsIn(p, {"consume_submitted", "consume_confirmed"})
    /\ Update(p, [pegIn[p] EXCEPT !.status = "detected", !.commit = FALSE,
                                  !.receipt = Unconfirmed])
    /\ \/ pegIn[p].commit /\ Abandon(t)
       \/ pegIn[p].commit /\ In(t, {"confirmed"}) /\ Quarantine(t)
       \/ ~(pegIn[p].commit /\ In(t, Active \cup {"confirmed"})) /\ UNCHANGED journal
    /\ UNCHANGED <<mint, hold, observed, incidents, externalHold>>

\* Mutant: the attempt to mint stays live.
GiveUpMintLive(p, status) ==
    LET t == CommitOf[p] IN
    /\ Update(p, [pegIn[p] EXCEPT !.status = status])
    /\ UNCHANGED mint
    /\ \/ pegIn[p].commit /\ Quarantine(t)
       \/ ~(pegIn[p].commit /\ Recorded(t) /\ ~In(t, {"quarantined"})) /\ UNCHANGED journal

\* A row that is given up takes its transports with it: its mint attempt by a
\* trigger, the attempt of its commitment in the same transaction.
GiveUp(p, status) ==
    LET t == CommitOf[p] IN
    /\ Update(p, [pegIn[p] EXCEPT !.status = status])
    /\ mint' = [mint EXCEPT ![p].status = IF @ \in LiveMint THEN "quarantined" ELSE @]
    /\ \/ pegIn[p].commit /\ Quarantine(t)
       \/ ~(pegIn[p].commit /\ Recorded(t) /\ ~In(t, {"quarantined"})) /\ UNCHANGED journal

MarkCommitInvalid(p) ==
    /\ IsIn(p, (Pending \ {"minting"}) \cup {"commit_invalid"})
    /\ GiveUp(p, "commit_invalid")
    /\ UNCHANGED <<hold, observed, incidents, externalHold>>

-----------------------------------------------------------------------------
(* The mint. *)

BeginMint(p) ==
    /\ IsIn(p, {"consume_confirmed", "minting"}) /\ HasReceipt(p)
    /\ Update(p, [pegIn[p] EXCEPT !.status = "minting"])
    /\ UNCHANGED <<mint, hold, observed, incidents, externalHold, journal>>

\* Without a transaction hash: the sidechain says that the box was processed.
RecordMinted(p) ==
    /\ IsIn(p, {"consume_confirmed", "minting", "minted"}) /\ HasReceipt(p)
    /\ Update(p, [pegIn[p] EXCEPT !.status = "minted"])
    /\ mint' = [mint EXCEPT ![p].status = IF @ = "accepted" THEN "confirmed" ELSE @]
    /\ UNCHANGED <<hold, observed, incidents, externalHold, journal>>

\* The exact transaction of the attempt was found in block m.  Evidence that is
\* already retained must agree.
ConfirmMintRecovery(p, m) ==
    /\ mint[p].status \in LiveMint \cup {"confirmed"}
    /\ mint[p].evidence \in {NoMintBlock, m}
    /\ IsIn(p, Submitted) /\ HasReceipt(p)
    /\ Update(p, [pegIn[p] EXCEPT !.status = "minted", !.hash = TRUE])
    /\ mint' = [mint EXCEPT ![p] = [status |-> "confirmed", evidence |-> m]]
    /\ UNCHANGED <<hold, observed, incidents, externalHold, journal>>

ResetMintForRetry(p) ==
    /\ IsIn(p, Submitted) /\ HasReceipt(p)
    /\ Update(p, [pegIn[p] EXCEPT !.status = "consume_confirmed", !.hash = FALSE])
    /\ mint' = [mint EXCEPT ![p].status = IF @ \in LiveMint \cup {"confirmed"}
                                          THEN "abandoned" ELSE @]
    /\ UNCHANGED <<hold, observed, incidents, externalHold, journal>>

-----------------------------------------------------------------------------
(* Holds and incidents. *)

\* ensureExternalFundsReleaseHold: the file, before the tables.
HoldFundsRelease ==
    /\ externalHold' = TRUE
    /\ UNCHANGED <<pegInTables, journal>>

\* The transaction of markPegInIncident.
MarkIncident(p) ==
    /\ Known(p) /\ externalHold
    /\ GiveUp(p, "incident")
    /\ incidents' = incidents \cup {p}
    /\ UNCHANGED <<hold, observed, externalHold>>

\* A hold is renewed by later observations and never removed.
RecordReconciliation(p, disposition) ==
    /\ Known(p)
    /\ hold' = [hold EXCEPT ![p] = disposition]
    /\ observed' = Append(SelectSeq(observed, LAMBDA q : q # p), p)
    /\ UNCHANGED <<pegIn, mint, incidents, externalHold, journal>>

CircuitBreakerOpen ==
    \/ externalHold
    \/ incidents # {}
    \/ \E p \in PegIns : IsIn(p, {"incident"}) \/ (IsIn(p, Submitted) /\ ~HasReceipt(p))

PegInJournalNext ==
    \/ HoldFundsRelease
    \/ \E p \in PegIns :
        \/ InsertPegIn(p, ActiveClass) \/ InsertPegIn(p, "legacy_unminted_refundable")
        \/ RecordConsumeSubmitted(p) \/ ResetCommit(p) \/ MarkCommitInvalid(p)
        \/ BeginMint(p) \/ RecordMinted(p) \/ ResetMintForRetry(p) \/ MarkIncident(p)
        \/ \E class \in LegacyClasses : UpdateClassification(p, class)
        \/ \E b \in JournalBlocks : RecordConsumeConfirmed(p, b)
        \/ \E m \in MintBlocks : ConfirmMintRecovery(p, m)
        \/ \E d \in {"deferred", "quarantined"} : RecordReconciliation(p, d)
-----------------------------------------------------------------------------
\* An incident never stands without its record and the hold on the release of
\* funds, through failures and crashes between the file and the tables, and a
\* row that was given up leaves no transport that could still act for it.
GivenUpSafely ==
    \A p \in PegIns :
        /\ IsIn(p, {"incident"}) => p \in incidents /\ externalHold
        /\ IsIn(p, GivenUp) =>
              /\ mint[p].status \notin LiveMint
              /\ pegIn[p].commit => In(CommitOf[p], {"none", "quarantined"})

\* The two journals of a commitment agree: a row with a receipt has an
\* operational attempt that is confirmed in the same block, or none.
ReceiptAgreesWithAttempt ==
    \A p \in PegIns : Known(p) /\ HasReceipt(p) /\ ~IsIn(p, GivenUp) =>
        \/ ~Recorded(CommitOf[p])
        \/ In(CommitOf[p], {"confirmed"}) /\ attempt[CommitOf[p]].block = pegIn[p].receipt
=============================================================================
