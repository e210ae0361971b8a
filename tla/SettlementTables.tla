-------------------------- MODULE SettlementTables --------------------------
(***************************************************************************)
(* The tables of the relayer's SQLite database that settle a peg-out        *)
(* (relayer/src/state-tracker.ts), and the triggers that tie them together. *)
(* Every journal operation is one immediate transaction, so each is one     *)
(* action of the modules that extend this one.                              *)
(*                                                                          *)
(* A digest, identifier or address is a member of a constant set.  What a   *)
(* row binds for good (the burn, DUP box and vault of a candidate, the      *)
(* candidate of a reservation, the burns of a legacy attempt) is a constant *)
(* function of its identifier: the code derives the identifier from them.   *)
(***************************************************************************)
EXTENDS Naturals, FiniteSets

CONSTANTS
    Burns,                  \* peg-out burn events of the sidechain
    Boxes,                  \* Ergo boxes: DUP successors and vaults
    Candidates,             \* settlement candidates, one Ergo transaction each
    BurnOf, DupOf, VaultOf, \* what a candidate pays and the boxes it spends
    Reservations,           \* execution reservations
    CandidateOf,            \* the candidate a reservation authorises
    LegacyTxs,              \* transactions of the legacy aggregate journal
    BurnsOf,                \* the burns a legacy transaction pays
    MaxHeight,              \* bound: highest Ergo block
    MaxFork,                \* bound: highest fork number of a block
    RequiredConfirmations   \* finality policy

ASSUME BindingAssumption ==
    /\ BurnOf \in [Candidates -> Burns]
    /\ DupOf \in [Candidates -> Boxes]
    /\ VaultOf \in [Candidates -> Boxes]
    /\ CandidateOf \in [Reservations -> Candidates]
    /\ BurnsOf \in [LegacyTxs -> SUBSET Burns]

ASSUME BoundAssumption ==
    /\ MaxHeight \in Nat \ {0} /\ MaxFork \in Nat
    /\ RequiredConfirmations \in Nat \ {0}

VARIABLES
    pegOut,         \* peg_out_events.status of a burn
    candidate,      \* authenticated_settlement_candidates.status
    reservation,    \* authenticated_settlement_execution_reservations.status
    attempt,        \* authenticated_settlement_submission_attempts, per reservation
    aggregate       \* aggregate_settlement_attempts.status

tables == <<pegOut, candidate, reservation, attempt, aggregate>>

-----------------------------------------------------------------------------
(* Ergo observations. *)

\* A block is its height and the fork it was mined on; its header id is both.
Blocks == [height : 1..MaxHeight, fork : 0..MaxFork]
NoBlock == [height |-> 0, fork |-> 0]

\* Mutant: the tip's own block is counted twice.
ObservationOfOneEarly(inclusion, inMempool, tip) ==
    [status |-> CASE inclusion # NoBlock
                       /\ tip.height - inclusion.height + 2 >= RequiredConfirmations
                         -> "confirmed_final"
                  [] inclusion # NoBlock
                       /\ tip.height - inclusion.height + 2 < RequiredConfirmations
                         -> "confirmed_pre_finality"
                  [] inclusion = NoBlock /\ inMempool -> "mempool"
                  [] OTHER -> "absent",
     inclusion |-> inclusion,
     tip |-> tip]

\* The classification of one stable read of a transaction under the finality
\* policy: `inclusion' is the block that holds it, `tip' the tip it was read at.
ObservationOf(inclusion, inMempool, tip) ==
    [status |-> CASE inclusion # NoBlock
                       /\ tip.height - inclusion.height + 1 >= RequiredConfirmations
                         -> "confirmed_final"
                  [] inclusion # NoBlock
                       /\ tip.height - inclusion.height + 1 < RequiredConfirmations
                         -> "confirmed_pre_finality"
                  [] inclusion = NoBlock /\ inMempool -> "mempool"
                  [] OTHER -> "absent",
     inclusion |-> inclusion,
     tip |-> tip]

ObservationStatus == {"absent", "mempool", "confirmed_pre_finality", "confirmed_final"}
Observation ==
    [status : ObservationStatus, inclusion : Blocks \cup {NoBlock}, tip : Blocks]
NoObservation == [status |-> "none", inclusion |-> NoBlock, tip |-> NoBlock]

\* The observations some Ergo chain can give rise to.
StableObservations ==
    {o \in Observation :
        /\ o.inclusion.height <= o.tip.height
        /\ \E m \in BOOLEAN : o = ObservationOf(o.inclusion, m, o.tip)}

InBlock(o) == o.status \in {"confirmed_pre_finality", "confirmed_final"}

-----------------------------------------------------------------------------
(* Rows. *)

PegOutStatus ==
    {"detected", "confirmed", "aggregate_submitted", "phase2_unlocked", "burn_reverted"}
CandidateStatus == {"prepared", "check_passed", "invalidated"}
ReservationStatus == {"active", "revoked"}
AggregateStatus == {"pending", "submitted", "confirmed", "abandoned"}

Attempt ==
    [status : {"pending", "rejected", "submitted", "confirmed", "quarantined"},
     disposition : {"none", "accepted", "rejected", "ambiguous"},
     reason : {"none", "execution_reservation_revoked",
               "confirmed_transaction_disappeared", "confirmed_transaction_reorged"},
     observation : Observation \cup {NoObservation}]

\* No row.
NoAttempt == [status |-> "absent", disposition |-> "none", reason |-> "none",
              observation |-> NoObservation]

TablesTypeOK ==
    /\ pegOut \in [Burns -> PegOutStatus \cup {"absent"}]
    /\ candidate \in [Candidates -> CandidateStatus \cup {"absent"}]
    /\ reservation \in [Reservations -> ReservationStatus \cup {"absent"}]
    /\ attempt \in [Reservations -> Attempt \cup {NoAttempt}]
    /\ aggregate \in [LegacyTxs -> AggregateStatus \cup {"absent"}]

\* An empty database.
TablesInit ==
    /\ pegOut = [b \in Burns |-> "absent"]
    /\ candidate = [c \in Candidates |-> "absent"]
    /\ reservation = [r \in Reservations |-> "absent"]
    /\ attempt = [r \in Reservations |-> NoAttempt]
    /\ aggregate = [t \in LegacyTxs |-> "absent"]

-----------------------------------------------------------------------------
(* What the guards of the journal operations ask of the tables. *)

\* Rows still awaiting settlement: the only ones a candidate may act on.
Unsettled(b) == pegOut[b] \in {"detected", "confirmed"}

ActiveCandidate(c) == candidate[c] \in {"prepared", "check_passed"}

\* Two candidates compete when they share a burn, a DUP input or a vault.
Compete(c, d) ==
    BurnOf[c] = BurnOf[d] \/ DupOf[c] = DupOf[d] \/ VaultOf[c] = VaultOf[d]

ReservationsOf(C) == {r \in Reservations : CandidateOf[r] \in C}
ReservationsForBurns(B) == {r \in Reservations : BurnOf[CandidateOf[r]] \in B}

ActiveAggregate(t) == aggregate[t] \in {"pending", "submitted"}

-----------------------------------------------------------------------------
(* The triggers: revoking an active reservation quarantines its attempt. *)

\* Mutant: the trigger spares a confirmed attempt.
RevokeSparesConfirmed(R) ==
    LET revoked == {r \in R : reservation[r] = "active"} IN
    /\ reservation' = [r \in Reservations |->
                          IF r \in revoked THEN "revoked" ELSE reservation[r]]
    /\ attempt' = [r \in Reservations |->
                      IF r \in revoked
                         /\ attempt[r].status \notin {"absent", "quarantined", "confirmed"}
                      THEN [attempt[r] EXCEPT !.status = "quarantined",
                                              !.reason = "execution_reservation_revoked"]
                      ELSE attempt[r]]

Revoke(R) ==
    LET revoked == {r \in R : reservation[r] = "active"} IN
    /\ reservation' = [r \in Reservations |->
                          IF r \in revoked THEN "revoked" ELSE reservation[r]]
    /\ attempt' = [r \in Reservations |->
                      IF r \in revoked /\ attempt[r].status \notin {"absent", "quarantined"}
                      THEN [attempt[r] EXCEPT !.status = "quarantined",
                                              !.reason = "execution_reservation_revoked"]
                      ELSE attempt[r]]

\* The candidates of C that are active become invalid, with the trigger on them.
Invalidate(C) ==
    LET changed == {c \in C : ActiveCandidate(c)} IN
    /\ candidate' = [c \in Candidates |->
                        IF c \in changed THEN "invalidated" ELSE candidate[c]]
    /\ Revoke(ReservationsOf(changed))

\* The burns whose row changes, in the eyes of the trigger on peg_out_events:
\* only detected -> confirmed leaves the reservations alone.
Drifted(new) ==
    {b \in Burns : pegOut[b] # new[b] /\ ~(pegOut[b] = "detected" /\ new[b] = "confirmed")}

\* Peg-out rows take the statuses `new', with the trigger on them.
SetPegOuts(new) ==
    /\ pegOut' = new
    /\ Revoke(ReservationsForBurns(Drifted(new)))

=============================================================================
