------------------------- MODULE SettlementJournals -------------------------
(***************************************************************************)
(* Both settlement journals over the same tables, driven in any order: by   *)
(* the daemon, by executors, by an operator's tool, before and after a       *)
(* restart.  A caller reads the tables, awaits the network and then calls an *)
(* operation, so nothing but the operations' own guards orders them.         *)
(***************************************************************************)
EXTENDS AuthenticatedJournal, AggregateClaims

\* What the daemon does to peg-out rows as it watches the sidechain.
PegOutNext ==
    \E b \in Burns :
        \/ InsertPegOut(b)
        \/ CompletePegOut(b)
        \/ RepairDetectedPegOut(b)
        \/ MarkPegOutBurnReverted(b)
        \/ \E s \in {"detected", "confirmed", "burn_reverted"} : UpdatePegOutStatus(b, s)

\* What preparation, recovery and reconciliation do to candidates.
CandidateNext ==
    \/ \E c \in Candidates :
          \/ RecordCandidate(c)
          \/ RecordRecoveredCandidate(c)
          \/ InvalidateCandidate(c)
    \/ InvalidateActiveCandidates

\* What an execution does to its candidate, reservation and attempt.
ExecutionNext ==
    \/ \E c \in Candidates : MarkCandidateCheckPassed(c)
    \/ \E r \in Reservations :
          \/ ReserveExecution(r)
          \/ ReserveTransportAttempt(r)
          \/ \E d \in {"accepted", "rejected", "ambiguous"} : FinalizeAttempt(r, d)
          \/ \E o \in StableObservations : RecordObservation(r, o)

JournalsNext == PegOutNext \/ CandidateNext \/ ExecutionNext \/ AggregateNext

JournalsSpec == TablesInit /\ [][JournalsNext]_tables

-----------------------------------------------------------------------------
(* Invariants. *)

\* Types of the tables.
TypeOK == TablesTypeOK

\* An active reservation is authority that still stands: the triggers revoke it
\* in the same transaction that invalidates its candidate or moves its peg-out
\* row away from the unsettled statuses.
ActiveReservationIsCurrent ==
    \A r \in Reservations : reservation[r] = "active" => CurrentAuthority(r)

\* At most one active reservation per burn, DUP input and vault.
ReservationsExclusive ==
    \A q, r \in Reservations :
        reservation[q] = "active" /\ reservation[r] = "active"
            /\ Compete(CandidateOf[q], CandidateOf[r]) => q = r

\* At most one submission attempt was ever written for a burn, a DUP input or a
\* vault: no rejection, revocation, quarantine or restart opens a second one.
OneAttemptEver ==
    \A q, r \in Reservations :
        attempt[q].status # "absent" /\ attempt[r].status # "absent"
            /\ Compete(CandidateOf[q], CandidateOf[r]) => q = r

\* An attempt that is not quarantined still has its authority behind it: what
\* revokes a reservation quarantines its attempt at once, even a confirmed one.
AttemptHasAuthority ==
    \A r \in Reservations :
        attempt[r].status \notin {"absent", "quarantined"} => CurrentAuthority(r)

\* Every attempt row is one the row mapper accepts: it never throws on a row
\* that the operations and the triggers wrote.
AttemptRowsValid ==
    \A r \in Reservations :
        LET a == attempt[r] IN
        /\ a.status = "pending" => a.disposition \in {"none", "ambiguous"}
        /\ a.status = "rejected" => a.disposition = "rejected"
        /\ a.status \in {"submitted", "confirmed"} => a.disposition = "accepted"
        /\ a.status = "quarantined" <=> a.reason # "none"
        /\ a.status = "confirmed" => a.observation.status = "confirmed_final"

\* A burn is never claimed twice: neither by an active reservation and an active
\* legacy attempt, nor by two active legacy attempts.
ClaimsExclusive ==
    \A t \in LegacyTxs : ActiveAggregate(t) =>
        /\ \A r \in ReservationsForBurns(BurnsOf[t]) : reservation[r] # "active"
        /\ \A u \in LegacyTxs \ {t} : ActiveAggregate(u) => BurnsOf[u] \cap BurnsOf[t] = {}

\* A submitted peg-out row always has the active legacy attempt that submitted it.
SubmittedRowsClaimed ==
    \A b \in Burns : pegOut[b] = "aggregate_submitted" =>
        \E t \in LegacyTxs : aggregate[t] = "submitted" /\ b \in BurnsOf[t]

-----------------------------------------------------------------------------
(* What a step may never do. *)

\* Lifecycles only move forward, although triggers, observations, answers and late
\* status updates come in any order.  A quarantine is final, a rejected or confirmed
\* attempt can only be quarantined, and no attempt is ever removed; a revoked
\* reservation, an invalidated candidate and a reverted burn stay so.
LifecyclesMoveForward ==
    [][/\ \A r \in Reservations :
             LET old == attempt[r].status
                 new == attempt'[r].status IN
             old # new =>
                 \/ old = "absent" /\ new = "pending"
                 \/ old = "pending" /\ new \in {"rejected", "submitted", "confirmed", "quarantined"}
                 \/ old = "submitted" /\ new \in {"confirmed", "quarantined"}
                 \/ old \in {"rejected", "confirmed"} /\ new = "quarantined"
       /\ \A r \in Reservations : reservation[r] = "revoked" => reservation'[r] = "revoked"
       /\ \A c \in Candidates : candidate[c] = "invalidated" => candidate'[c] = "invalidated"
       /\ \A b \in Burns : pegOut[b] = "burn_reverted" => pegOut'[b] = "burn_reverted"]_tables
=============================================================================
