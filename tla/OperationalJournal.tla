-------------------------- MODULE OperationalJournal --------------------------
(***************************************************************************)
(* The journal of Ergo operational transactions in state-tracker.ts: the     *)
(* table ergo_operational_transaction_attempts with its CHECKs and its two   *)
(* partial unique indexes, and the keys that confirmed DUP heartbeats add to *)
(* avl_tree_history.  One SQLite transaction is one action; an operation     *)
(* that throws changes nothing and is not enabled.                           *)
(***************************************************************************)
EXTENDS Naturals, FiniteSets

CONSTANTS
    Txs,            \* expected transaction ids
    ProfileOf,      \* a transaction's operation profile
    SourceOf,       \* its first input, the box the operation moves on
    InputsOf,       \* all of its inputs
    LegacyKeys,     \* keys of avl_tree_history that no heartbeat added
    Heights,        \* Ergo heights
    JournalBlocks   \* block identities (height and header id)

Profiles == {"vault", "scs", "dup", "reward", "genesis"}
Singleton == Profiles \ {"vault"}
Superseding == {"scs", "dup"}
Unconfirmed == [height |-> 0]

ASSUME TxsAssumption ==
    /\ ProfileOf \in [Txs -> Profiles]
    /\ \A t \in Txs : SourceOf[t] \in InputsOf[t]
    /\ Heights \subseteq Nat
    /\ Txs \cap LegacyKeys = {}
    /\ Unconfirmed \notin JournalBlocks

VARIABLES
    attempt,        \* the table, keyed by expected_tx_id
    avl             \* avl_tree_history; a heartbeat's key is named by its transaction

journal == <<attempt, avl>>

NoRow == [status |-> "none"]

Statuses == {"pending", "accepted", "ambiguous", "confirmed", "abandoned", "quarantined"}
Active == {"pending", "accepted", "ambiguous"}
Reconcilable == Active \cup {"abandoned"}

Rows == [status : Statuses, disposition : {"none", "accepted", "ambiguous"},
         block : JournalBlocks \cup {Unconfirmed}, at : Heights]

\* Every row is one of the table, and only confirmed heartbeats and earlier
\* settlements have keys.
JournalTypeOK ==
    /\ attempt \in [Txs -> Rows \cup {NoRow}]
    /\ avl \subseteq Txs \cup LegacyKeys

JournalInit ==
    /\ attempt = [t \in Txs |-> NoRow]
    /\ avl = LegacyKeys

Recorded(t) == attempt[t] # NoRow
In(t, S) == attempt[t].status \in S
SameProfile(t, u) == u # t /\ ProfileOf[u] = ProfileOf[t]

\* Rows S become abandoned.
Abandoned(S) ==
    [t \in Txs |-> IF t \in S THEN [attempt[t] EXCEPT !.status = "abandoned"] ELSE attempt[t]]

-----------------------------------------------------------------------------
\* The two unique indexes let t be active beside the active rows outside S.
Unopposed(t, S) ==
    \A u \in Txs \ S : In(u, Active) =>
        /\ SourceOf[u] # SourceOf[t]
        /\ SameProfile(t, u) => ProfileOf[t] \notin Singleton

\* A transaction is journaled once, under the two unique indexes; a reward box
\* that any earlier row of the profile spends is refused.
Reserve(t, h) ==
    /\ ~Recorded(t) /\ Unopposed(t, {})
    /\ ProfileOf[t] = "reward" =>
          \A u \in Txs : Recorded(u) /\ SameProfile(t, u) => InputsOf[u] \cap InputsOf[t] = {}
    /\ attempt' = [attempt EXCEPT ![t] =
          [status |-> "pending", disposition |-> "none", block |-> Unconfirmed, at |-> h]]
    /\ UNCHANGED avl

\* An answer that comes after the row has moved on changes nothing.
Finalize(t, disposition) ==
    /\ In(t, {"pending"})
    /\ attempt' = [attempt EXCEPT ![t].status = disposition, ![t].disposition = disposition]
    /\ UNCHANGED avl

\* The rows a confirmation, or the reopening of a confirmed row, supersedes.
Rivals(t) ==
    {u \in Txs : /\ SameProfile(t, u) /\ In(u, Active)
                 /\ ProfileOf[t] \in Superseding \/ SourceOf[u] = SourceOf[t]}

\* Mutant: the heartbeat's key is not committed.
ConfirmWithoutKey(t, b) ==
    /\ In(t, Reconcilable)
    /\ attempt' = [Abandoned(Rivals(t)) EXCEPT ![t].status = "confirmed", ![t].block = b]
    /\ UNCHANGED avl

\* Confirming again the block that is recorded succeeds and changes nothing.
Confirm(t, b) ==
    /\ In(t, Reconcilable)
    /\ attempt' = [Abandoned(Rivals(t)) EXCEPT ![t].status = "confirmed", ![t].block = b]
    /\ avl' = IF ProfileOf[t] = "dup" THEN avl \cup {t} ELSE avl

Rebind(t, b) ==
    /\ In(t, {"confirmed"})
    /\ ProfileOf[t] = "dup" => t \in avl
    /\ attempt' = [attempt EXCEPT ![t].block = b]
    /\ UNCHANGED avl

StatusBefore(t) == IF attempt[t].disposition = "none" THEN "pending" ELSE attempt[t].disposition

\* The rows that make way for a confirmed row that is reopened.
MakeWay(t) == IF ProfileOf[t] \in Superseding THEN Rivals(t) ELSE {}

\* Mutant: the heartbeat's key stays in the history.
ReopenKeepingKey(t) ==
    /\ In(t, {"confirmed"}) /\ Unopposed(t, MakeWay(t))
    /\ attempt' = [Abandoned(MakeWay(t))
                     EXCEPT ![t].status = StatusBefore(t), ![t].block = Unconfirmed]
    /\ UNCHANGED avl

\* Mutant: the row starts afresh.
ReopenAfresh(t) ==
    /\ In(t, {"confirmed"}) /\ Unopposed(t, MakeWay(t))
    /\ attempt' = [Abandoned(MakeWay(t))
                     EXCEPT ![t].status = "pending", ![t].disposition = "none",
                            ![t].block = Unconfirmed]
    /\ avl' = IF ProfileOf[t] = "dup" THEN avl \ {t} ELSE avl

\* Mutant: a row stays confirmed while another one of its profile is active.
ReopenUnlessActive(t) ==
    /\ In(t, {"confirmed"})
    /\ IF Unopposed(t, {})
       THEN /\ attempt' = [attempt EXCEPT ![t].status = StatusBefore(t), ![t].block = Unconfirmed]
            /\ avl' = IF ProfileOf[t] = "dup" THEN avl \ {t} ELSE avl
       ELSE UNCHANGED journal

\* The row gets back the status it had before its confirmation; the index on
\* the source refuses it while a row of another profile moves the same box.
Reopen(t) ==
    /\ In(t, {"confirmed"}) /\ Unopposed(t, MakeWay(t))
    /\ attempt' = [Abandoned(MakeWay(t))
                     EXCEPT ![t].status = StatusBefore(t), ![t].block = Unconfirmed]
    /\ avl' = IF ProfileOf[t] = "dup" THEN avl \ {t} ELSE avl

Abandon(t) ==
    /\ In(t, Active)
    /\ attempt' = Abandoned({t})
    /\ UNCHANGED avl

\* The confirmation a quarantined row had stays in its columns.
Quarantine(t) ==
    /\ Recorded(t) /\ ~In(t, {"quarantined"})
    /\ attempt' = [attempt EXCEPT ![t].status = "quarantined"]
    /\ avl' = IF In(t, {"confirmed"}) /\ ProfileOf[t] = "dup" THEN avl \ {t} ELSE avl

\* removeAvlKey, which the reorganisation handler calls for a peg-out's key.
RemoveAvlKey(k) ==
    /\ k \in LegacyKeys
    /\ avl' = avl \ {k}
    /\ UNCHANGED attempt

JournalNext ==
    \/ \E t \in Txs, h \in Heights : Reserve(t, h)
    \/ \E t \in Txs, d \in {"accepted", "ambiguous"} : Finalize(t, d)
    \/ \E t \in Txs, b \in JournalBlocks : Confirm(t, b) \/ Rebind(t, b)
    \/ \E t \in Txs : Reopen(t) \/ Abandon(t) \/ Quarantine(t)
    \/ \E k \in LegacyKeys : RemoveAvlKey(k)

JournalSpec == JournalInit /\ [][JournalNext]_journal

-----------------------------------------------------------------------------
\* At most one row of a singleton profile, and one row that moves a box, is
\* active: the daemon stops ("multiple active DUP heartbeat attempts violate
\* the static profile") when it finds two.
OneActive ==
    \A t, u \in Txs : In(t, Active) /\ In(u, Active) /\ t # u =>
        /\ SourceOf[t] # SourceOf[u]
        /\ ProfileOf[t] = ProfileOf[u] => ProfileOf[t] \notin Singleton

\* A heartbeat's key is in avl_tree_history exactly while its attempt is
\* confirmed: aggregate settlements build their AVL proofs on these keys, and
\* the daemon quarantines a confirmed heartbeat without its key.
KeysOfConfirmed ==
    \A t \in Txs : t \in avl <=> In(t, {"confirmed"}) /\ ProfileOf[t] = "dup"

\* No operation ever leaves a row the table's CHECK constraints refuse: a
\* finalized row does not go back to pending, an unfinalized one is never
\* accepted or ambiguous, and a confirmed one names its block.
RowsValid ==
    \A t \in Txs : Recorded(t) =>
        /\ attempt[t].disposition = "none" => ~In(t, {"accepted", "ambiguous"})
        /\ attempt[t].disposition # "none" =>
              In(t, {attempt[t].disposition, "confirmed", "abandoned", "quarantined"})
        /\ In(t, {"confirmed"}) => attempt[t].block # Unconfirmed

\* What a row was told by its submission, and the height it was attempted at,
\* are never rewritten; a quarantined row never changes again.
HistoryKept ==
    [][\A t \in Txs : Recorded(t) =>
          /\ attempt'[t].at = attempt[t].at
          /\ attempt[t].disposition # "none" => attempt'[t].disposition = attempt[t].disposition
          /\ In(t, {"quarantined"}) => attempt'[t] = attempt[t]]_journal
=============================================================================
