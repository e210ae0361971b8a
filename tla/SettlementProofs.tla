--------------------------- MODULE SettlementProofs ---------------------------
(***************************************************************************)
(* Proofs about the settlement of burns, for every set of burns, candidates, *)
(* reservations and legacy transactions, any number of concurrent runs and   *)
(* any chain: that the two journals keep their invariants, that executions   *)
(* drive the tables only through the journals, that a payout is claimed      *)
(* before it is broadcast and broadcast at most once, and that a recorded    *)
(* confirmation names the block on the chain.                                *)
(***************************************************************************)
EXTENDS SettlementReorg, TLAPS

-----------------------------------------------------------------------------
(* The journals.  Most operations only take authority away.  RevokingStep    *)
(* says what they share: they revoke a set of reservations, and every        *)
(* reservation outside it keeps the candidate and peg-out row it rests on.   *)
(* One lemma carries the invariant through such a step; the four operations  *)
(* that give authority or write an attempt are treated one by one.           *)

\* An attempt that is not quarantined has an active reservation.
AttemptReserved ==
    \A r \in Reservations :
        attempt[r].status \notin {"absent", "quarantined"} => reservation[r] = "active"

\* The inductive invariant of the authenticated journal.
JournalInv ==
    /\ TypeOK
    /\ ActiveReservationIsCurrent
    /\ AttemptReserved
    /\ OneAttemptEver
    /\ ReservationsExclusive
    /\ AttemptRowsValid

\* A step that revokes R and leaves standing what the others rest on.
RevokingStep(R) ==
    /\ Revoke(R)
    /\ \A r \in Reservations \ R :
          CurrentAuthority(r) => candidate'[CandidateOf[r]] = "check_passed"
                                 /\ pegOut'[BurnOf[CandidateOf[r]]] \in {"detected", "confirmed"}

LEMMA CandidateTypes ==
    \A r \in Reservations : CandidateOf[r] \in Candidates /\ BurnOf[CandidateOf[r]] \in Burns
  BY BindingAssumption, Zenon

\* What Revoke does to one reservation and its attempt.
LEMMA RevokeEffect ==
    ASSUME TypeOK, NEW R \in SUBSET Reservations, Revoke(R)
    PROVE  /\ reservation' \in [Reservations -> ReservationStatus \cup {"absent"}]
           /\ attempt' \in [Reservations -> Attempt \cup {NoAttempt}]
           /\ \A r \in Reservations :
                 /\ reservation'[r] = "active" => reservation[r] = "active" /\ r \notin R
                 /\ reservation'[r] = "active" => attempt'[r] = attempt[r]
                 /\ attempt'[r].status = "absent" <=> attempt[r].status = "absent"
                 /\ \/ attempt'[r] = attempt[r] /\ reservation'[r] = reservation[r]
                    \/ /\ reservation[r] = "active" /\ reservation'[r] = "revoked"
                       /\ attempt'[r].status \in {"absent", "quarantined"}
                       /\ \/ attempt'[r] = attempt[r]
                          \/ attempt'[r].status = "quarantined" /\ attempt'[r].reason # "none"
  <1> DEFINE revoked == {r \in R : reservation[r] = "active"}
  <1>1. reservation' = [r \in Reservations |->
                          IF r \in revoked THEN "revoked" ELSE reservation[r]]
    BY Zenon DEF Revoke
  <1>2. attempt' = [r \in Reservations |->
                      IF r \in revoked /\ attempt[r].status \notin {"absent", "quarantined"}
                      THEN [attempt[r] EXCEPT !.status = "quarantined",
                                              !.reason = "execution_reservation_revoked"]
                      ELSE attempt[r]]
    BY Zenon DEF Revoke
  <1>3. reservation' \in [Reservations -> ReservationStatus \cup {"absent"}]
    BY <1>1, Zenon DEF TypeOK, TablesTypeOK, ReservationStatus
  <1>4. ASSUME NEW r \in Reservations
        PROVE  /\ attempt'[r] \in Attempt \cup {NoAttempt}
               /\ attempt'[r].status = "absent" <=> attempt[r].status = "absent"
               /\ r \notin revoked => attempt'[r] = attempt[r]
               /\ r \in revoked => /\ attempt'[r].status \in {"absent", "quarantined"}
                                   /\ \/ attempt'[r] = attempt[r]
                                      \/ /\ attempt'[r].status = "quarantined"
                                         /\ attempt'[r].reason # "none"
    <2>1. attempt[r] \in Attempt \cup {NoAttempt}
      BY Zenon DEF TypeOK, TablesTypeOK
    <2>2. attempt'[r] = IF r \in revoked /\ attempt[r].status \notin {"absent", "quarantined"}
                        THEN [attempt[r] EXCEPT !.status = "quarantined",
                                                !.reason = "execution_reservation_revoked"]
                        ELSE attempt[r]
      BY <1>2, Zenon
    <2> HIDE DEF revoked
    <2>3. CASE r \in revoked /\ attempt[r].status \notin {"absent", "quarantined"}
      <3>1. attempt[r] \in Attempt
        BY <2>1, <2>3 DEF NoAttempt
      <3>2. /\ attempt'[r] \in Attempt
            /\ attempt'[r].status = "quarantined"
            /\ attempt'[r].reason = "execution_reservation_revoked"
        BY <2>2, <2>3, <3>1, Zenon DEF Attempt
      <3> QED BY <2>3, <3>2, Zenon
    <2>4. CASE ~(r \in revoked /\ attempt[r].status \notin {"absent", "quarantined"})
      <3>1. attempt'[r] = attempt[r]
        BY <2>2, <2>4, Zenon
      <3> QED BY <2>1, <2>4, <3>1, Zenon
    <2> QED BY <2>3, <2>4, Zenon
  <1>5. attempt' \in [Reservations -> Attempt \cup {NoAttempt}]
    BY <1>2, <1>4, Zenon
  <1>6. ASSUME NEW r \in Reservations
        PROVE  /\ r \in revoked => reservation'[r] = "revoked" /\ reservation[r] = "active"
               /\ r \notin revoked => reservation'[r] = reservation[r]
               /\ reservation'[r] = "active" => r \notin R
    BY <1>1, Zenon
  <1> HIDE DEF revoked
  <1> QED BY <1>3, <1>4, <1>5, <1>6, Zenon

\* A revoking step keeps everything that is said of reservations and attempts.
LEMMA RevokingStepPreserves ==
    ASSUME JournalInv, NEW R \in SUBSET Reservations, RevokingStep(R), TypeOK'
    PROVE  JournalInv'
  <1>1. \A r \in Reservations :
           /\ reservation'[r] = "active" => reservation[r] = "active" /\ r \notin R
           /\ reservation'[r] = "active" => attempt'[r] = attempt[r]
           /\ attempt'[r].status = "absent" <=> attempt[r].status = "absent"
           /\ \/ attempt'[r] = attempt[r] /\ reservation'[r] = reservation[r]
              \/ /\ attempt'[r].status \in {"absent", "quarantined"}
                 /\ \/ attempt'[r] = attempt[r]
                    \/ attempt'[r].status = "quarantined" /\ attempt'[r].reason # "none"
    BY RevokeEffect, Zenon DEF RevokingStep, JournalInv
  <1>2. ActiveReservationIsCurrent'
    BY <1>1, CandidateTypes, Zenon
    DEF JournalInv, ActiveReservationIsCurrent, RevokingStep, CurrentAuthority, Unsettled
  <1>3. AttemptReserved'
    BY <1>1, Zenon DEF JournalInv, AttemptReserved
  <1>4. OneAttemptEver'
    BY <1>1, Zenon DEF JournalInv, OneAttemptEver, Compete
  <1>5. ReservationsExclusive'
    BY <1>1, Zenon DEF JournalInv, ReservationsExclusive, Compete
  <1>6. AttemptRowsValid'
    BY <1>1 DEF JournalInv, AttemptRowsValid
  <1> QED BY <1>2, <1>3, <1>4, <1>5, <1>6, Zenon DEF JournalInv

\* A step that leaves reservations and attempts alone revokes nothing.
LEMMA NothingRevoked ==
    ASSUME TypeOK, UNCHANGED <<reservation, attempt>>
    PROVE  Revoke({})
  BY Zenon DEF TypeOK, TablesTypeOK, Revoke

-----------------------------------------------------------------------------
(* The operations that revoke. *)

\* What is left of TypeOK once the revocation is accounted for.
LEMMA RevokingTypes ==
    ASSUME TypeOK, NEW R \in SUBSET Reservations, Revoke(R),
           pegOut' \in [Burns -> PegOutStatus \cup {"absent"}],
           candidate' \in [Candidates -> CandidateStatus \cup {"absent"}],
           aggregate' \in [LegacyTxs -> AggregateStatus \cup {"absent"}]
    PROVE  TypeOK'
  BY RevokeEffect, Zenon DEF TypeOK, TablesTypeOK

\* New statuses of peg-out rows revoke what rests on the rows that drift.
LEMMA SetPegOutsRevokes ==
    ASSUME TypeOK, NEW new \in [Burns -> PegOutStatus \cup {"absent"}],
           SetPegOuts(new), UNCHANGED candidate,
           aggregate' \in [LegacyTxs -> AggregateStatus \cup {"absent"}]
    PROVE  TypeOK' /\ \E R \in SUBSET Reservations : RevokingStep(R)
  <1> DEFINE R == ReservationsForBurns(Drifted(new))
  <1>1. R \in SUBSET Reservations /\ Revoke(R) /\ pegOut' = new
    BY Zenon DEF SetPegOuts, ReservationsForBurns
  <1>2. ASSUME NEW r \in Reservations \ R, CurrentAuthority(r)
        PROVE  /\ candidate'[CandidateOf[r]] = "check_passed"
               /\ pegOut'[BurnOf[CandidateOf[r]]] \in {"detected", "confirmed"}
    BY <1>1, <1>2, CandidateTypes, Zenon
    DEF ReservationsForBurns, Drifted, CurrentAuthority, Unsettled
  <1>3. RevokingStep(R)
    BY <1>1, <1>2, Zenon DEF RevokingStep
  <1>4. TypeOK'
    BY <1>1, RevokingTypes, Zenon DEF TypeOK, TablesTypeOK
  <1> QED BY <1>1, <1>3, <1>4, Zenon

LEMMA PegOutOperationsRevoke ==
    ASSUME TypeOK, NEW b \in Burns,
           \/ InsertPegOut(b)
           \/ CompletePegOut(b)
           \/ RepairDetectedPegOut(b)
           \/ MarkPegOutBurnReverted(b)
           \/ \E s \in {"detected", "confirmed", "burn_reverted"} : UpdatePegOutStatus(b, s)
    PROVE  TypeOK' /\ \E R \in SUBSET Reservations : RevokingStep(R)
  <1>1. CASE InsertPegOut(b)
    <2>1. Revoke({}) /\ TypeOK'
      BY <1>1, NothingRevoked, Zenon DEF InsertPegOut, TypeOK, TablesTypeOK, PegOutStatus
    <2>2. RevokingStep({})
      BY <1>1, <2>1, CandidateTypes, Zenon
      DEF InsertPegOut, RevokingStep, CurrentAuthority, Unsettled, TypeOK, TablesTypeOK
    <2> QED BY <2>1, <2>2, Zenon
  <1>2. CASE CompletePegOut(b)
    <2> DEFINE R == ReservationsForBurns({b})
    <2>1. R \in SUBSET Reservations /\ Revoke(R)
      BY <1>2, Zenon DEF CompletePegOut, ReservationsForBurns
    <2>2. RevokingStep(R)
      BY <1>2, <2>1, Zenon DEF CompletePegOut, RevokingStep, CurrentAuthority, Unsettled
    <2>3. TypeOK'
      BY <1>2, <2>1, RevokingTypes, Zenon DEF CompletePegOut, TypeOK, TablesTypeOK
    <2> QED BY <2>1, <2>2, <2>3, Zenon
  <1>3. CASE RepairDetectedPegOut(b)
    <2> DEFINE R == ReservationsForBurns({b})
    <2>1. R \in SUBSET Reservations /\ Revoke(R)
      BY <1>3, Zenon DEF RepairDetectedPegOut, ReservationsForBurns
    <2>2. RevokingStep(R)
      BY <1>3, <2>1, CandidateTypes, Zenon
      DEF RepairDetectedPegOut, RevokingStep, CurrentAuthority, Unsettled, ReservationsForBurns
    <2>3. TypeOK'
      BY <1>3, <2>1, RevokingTypes, Zenon
      DEF RepairDetectedPegOut, TypeOK, TablesTypeOK, CandidateStatus
    <2> QED BY <2>1, <2>2, <2>3, Zenon
  <1>4. CASE MarkPegOutBurnReverted(b)
    <2> DEFINE stale == {c \in Candidates : BurnOf[c] = b /\ ActiveCandidate(c)}
               R == ReservationsOf(stale) \cup ReservationsForBurns(Drifted(pegOut'))
    <2>1. R \in SUBSET Reservations /\ Revoke(R)
      BY <1>4, Zenon DEF MarkPegOutBurnReverted, ReservationsForBurns, ReservationsOf
    <2>2. ASSUME NEW r \in Reservations \ R, CurrentAuthority(r)
          PROVE  /\ candidate'[CandidateOf[r]] = "check_passed"
                 /\ pegOut'[BurnOf[CandidateOf[r]]] \in {"detected", "confirmed"}
      BY <1>4, <2>2, CandidateTypes, Zenon
      DEF MarkPegOutBurnReverted, CurrentAuthority, Unsettled, ReservationsForBurns,
          ReservationsOf, Drifted
    <2>3. RevokingStep(R)
      BY <2>1, <2>2, Zenon DEF RevokingStep
    <2>4. TypeOK'
      BY <1>4, <2>1, RevokingTypes, Zenon
      DEF MarkPegOutBurnReverted, TypeOK, TablesTypeOK, CandidateStatus, PegOutStatus
    <2> QED BY <2>1, <2>3, <2>4, Zenon
  <1>5. ASSUME NEW s \in {"detected", "confirmed", "burn_reverted"}, UpdatePegOutStatus(b, s)
        PROVE  TypeOK' /\ \E R \in SUBSET Reservations : RevokingStep(R)
    BY <1>5, SetPegOutsRevokes, Zenon DEF UpdatePegOutStatus, TypeOK, TablesTypeOK, PegOutStatus
  <1> QED BY <1>1, <1>2, <1>3, <1>4, <1>5, Zenon

\* Invalidation revokes every reservation of a candidate it changes.
LEMMA InvalidateRevokes ==
    ASSUME TypeOK, NEW C \in SUBSET Candidates, Invalidate(C), UNCHANGED <<pegOut, aggregate>>
    PROVE  TypeOK' /\ \E R \in SUBSET Reservations : RevokingStep(R)
  <1> DEFINE changed == {c \in C : ActiveCandidate(c)}
             R == ReservationsOf(changed)
  <1>1. R \in SUBSET Reservations /\ Revoke(R)
    BY Zenon DEF Invalidate, ReservationsOf
  <1>2. RevokingStep(R)
    BY <1>1, CandidateTypes, Zenon
    DEF Invalidate, RevokingStep, CurrentAuthority, Unsettled, ReservationsOf, ActiveCandidate
  <1>3. TypeOK'
    BY <1>1, RevokingTypes, Zenon DEF Invalidate, TypeOK, TablesTypeOK, CandidateStatus
  <1> QED BY <1>1, <1>2, <1>3, Zenon

LEMMA CandidateOperationsRevoke ==
    ASSUME TypeOK, NEW c \in Candidates,
           \/ RecordCandidate(c)
           \/ RecordRecoveredCandidate(c)
           \/ MarkCandidateCheckPassed(c)
           \/ InvalidateCandidate(c)
           \/ InvalidateActiveCandidates
    PROVE  TypeOK' /\ \E R \in SUBSET Reservations : RevokingStep(R)
  <1>1. CASE RecordCandidate(c)
    <2>1. Revoke({}) /\ TypeOK'
      BY <1>1, NothingRevoked, Zenon DEF RecordCandidate, TypeOK, TablesTypeOK, CandidateStatus
    <2>2. RevokingStep({})
      BY <1>1, <2>1, CandidateTypes, Zenon
      DEF RecordCandidate, RevokingStep, CurrentAuthority, Unsettled, TypeOK, TablesTypeOK
    <2> QED BY <2>1, <2>2, Zenon
  <1>2. CASE RecordRecoveredCandidate(c)
    <2> DEFINE R == ReservationsOf({c})
    <2>1. R \in SUBSET Reservations /\ Revoke(R)
      BY <1>2, Zenon DEF RecordRecoveredCandidate, ReservationsOf
    <2>2. BurnOf[c] \in Burns
      BY BindingAssumption, Zenon
    <2>3. RevokingStep(R)
      BY <1>2, <2>1, <2>2, CandidateTypes, Zenon
      DEF RecordRecoveredCandidate, RevokingStep, CurrentAuthority, Unsettled, ReservationsOf,
          TypeOK, TablesTypeOK
    <2>4. /\ pegOut' \in [Burns -> PegOutStatus \cup {"absent"}]
          /\ candidate' \in [Candidates -> CandidateStatus \cup {"absent"}]
          /\ aggregate' \in [LegacyTxs -> AggregateStatus \cup {"absent"}]
      BY <1>2, <2>2, Zenon
      DEF RecordRecoveredCandidate, TypeOK, TablesTypeOK, CandidateStatus, PegOutStatus
    <2>5. TypeOK'
      BY <2>1, <2>4, RevokingTypes, Zenon
    <2> QED BY <2>1, <2>3, <2>5, Zenon
  <1>3. CASE MarkCandidateCheckPassed(c)
    <2> DEFINE R == ReservationsOf({c})
    <2>1. R \in SUBSET Reservations /\ Revoke(R)
      BY <1>3, Zenon DEF MarkCandidateCheckPassed, ReservationsOf
    <2>2. RevokingStep(R)
      BY <1>3, <2>1, CandidateTypes, Zenon
      DEF MarkCandidateCheckPassed, RevokingStep, CurrentAuthority, Unsettled, ReservationsOf,
          TypeOK, TablesTypeOK
    <2>3. TypeOK'
      BY <1>3, <2>1, RevokingTypes, Zenon
      DEF MarkCandidateCheckPassed, TypeOK, TablesTypeOK, CandidateStatus
    <2> QED BY <2>1, <2>2, <2>3, Zenon
  <1>4. CASE InvalidateCandidate(c)
    BY <1>4, InvalidateRevokes, {c} \in SUBSET Candidates, Zenon DEF InvalidateCandidate
  <1>5. CASE InvalidateActiveCandidates
    BY <1>5, InvalidateRevokes, Candidates \in SUBSET Candidates, Zenon DEF InvalidateActiveCandidates
  <1> QED BY <1>1, <1>2, <1>3, <1>4, <1>5, Zenon

LEMMA MoveBurnsType ==
    ASSUME TypeOK, NEW t \in LegacyTxs,
           NEW from \in PegOutStatus, NEW to \in PegOutStatus
    PROVE  MoveBurns(t, from, to) \in [Burns -> PegOutStatus \cup {"absent"}]
  BY Zenon DEF MoveBurns, TypeOK, TablesTypeOK

LEMMA AggregateOperationsRevoke ==
    ASSUME TypeOK, AggregateNext
    PROVE  TypeOK' /\ \E R \in SUBSET Reservations : RevokingStep(R)
  <1>1. PICK t \in LegacyTxs :
           \/ RecordAggregateAttempt(t)
           \/ MarkAggregateAttemptSubmitted(t)
           \/ RestoreAggregateAttempt(t)
           \/ RollBackAggregateAttempt(t)
           \/ ConfirmSubmittedAggregate(t)
           \/ MarkAggregateAttemptAbandoned(t)
           \/ \E B \in SUBSET BurnsOf[t] : InvalidatePendingAggregate(t, B)
           \/ AbandonSubmittedAggregate(t)
           \/ AbandonPendingAggregateTransport(t)
    BY Zenon DEF AggregateNext
  <1>2. CASE \/ RecordAggregateAttempt(t)
             \/ MarkAggregateAttemptSubmitted(t)
             \/ MarkAggregateAttemptAbandoned(t)
             \/ AbandonPendingAggregateTransport(t)
    <2>1. UNCHANGED <<pegOut, candidate, reservation, attempt>> /\ TypeOK'
      BY <1>2, Zenon
      DEF RecordAggregateAttempt, MarkAggregateAttemptSubmitted, MarkAggregateAttemptAbandoned,
          AbandonPendingAggregateTransport, TypeOK, TablesTypeOK, AggregateStatus
    <2>2. RevokingStep({})
      BY <2>1, NothingRevoked, Zenon DEF RevokingStep, CurrentAuthority, Unsettled
    <2> QED BY <2>1, <2>2, Zenon
  <1>3. CASE RestoreAggregateAttempt(t)
    <2> DEFINE new == [b \in Burns |->
                         IF b \in BurnsOf[t] THEN "aggregate_submitted" ELSE pegOut[b]]
    <2>1. new \in [Burns -> PegOutStatus \cup {"absent"}]
      BY Zenon DEF TypeOK, TablesTypeOK, PegOutStatus
    <2>2. /\ SetPegOuts(new) /\ UNCHANGED candidate
          /\ aggregate' \in [LegacyTxs -> AggregateStatus \cup {"absent"}]
      BY <1>3, Zenon DEF RestoreAggregateAttempt, TypeOK, TablesTypeOK, AggregateStatus
    <2> HIDE DEF new
    <2> QED BY <2>1, <2>2, SetPegOutsRevokes, Zenon
  <1>4. CASE RollBackAggregateAttempt(t) \/ AbandonSubmittedAggregate(t)
    <2> DEFINE new == MoveBurns(t, "aggregate_submitted", "detected")
    <2>1. new \in [Burns -> PegOutStatus \cup {"absent"}]
      BY MoveBurnsType, Zenon DEF PegOutStatus
    <2>2. /\ SetPegOuts(new) /\ UNCHANGED candidate
          /\ aggregate' \in [LegacyTxs -> AggregateStatus \cup {"absent"}]
      BY <1>4, Zenon DEF RollBackAggregateAttempt, AbandonSubmittedAggregate, TypeOK, TablesTypeOK,
                  AggregateStatus
    <2> HIDE DEF new
    <2> QED BY <2>1, <2>2, SetPegOutsRevokes, Zenon
  <1>5. CASE ConfirmSubmittedAggregate(t)
    <2> DEFINE new == MoveBurns(t, "aggregate_submitted", "phase2_unlocked")
    <2>1. new \in [Burns -> PegOutStatus \cup {"absent"}]
      BY MoveBurnsType, Zenon DEF PegOutStatus
    <2>2. /\ SetPegOuts(new) /\ UNCHANGED candidate
          /\ aggregate' \in [LegacyTxs -> AggregateStatus \cup {"absent"}]
      BY <1>5, Zenon DEF ConfirmSubmittedAggregate, TypeOK, TablesTypeOK, AggregateStatus
    <2> HIDE DEF new
    <2> QED BY <2>1, <2>2, SetPegOutsRevokes, Zenon
  <1>6. ASSUME NEW B \in SUBSET BurnsOf[t], InvalidatePendingAggregate(t, B)
        PROVE  TypeOK' /\ \E R \in SUBSET Reservations : RevokingStep(R)
    <2> DEFINE stale == {c \in Candidates : BurnOf[c] \in B /\ ActiveCandidate(c)}
               R == ReservationsOf(stale) \cup ReservationsForBurns(Drifted(pegOut'))
    <2>1. R \in SUBSET Reservations /\ Revoke(R)
      BY <1>6, Zenon DEF InvalidatePendingAggregate, ReservationsForBurns, ReservationsOf
    <2>2. ASSUME NEW r \in Reservations \ R, CurrentAuthority(r)
          PROVE  /\ candidate'[CandidateOf[r]] = "check_passed"
                 /\ pegOut'[BurnOf[CandidateOf[r]]] \in {"detected", "confirmed"}
      BY <1>6, <2>2, CandidateTypes, Zenon
      DEF InvalidatePendingAggregate, CurrentAuthority, Unsettled, ReservationsForBurns,
          ReservationsOf, Drifted, ActiveCandidate
    <2>3. RevokingStep(R)
      BY <2>1, <2>2, Zenon DEF RevokingStep
    <2>4. TypeOK'
      BY <1>6, <2>1, RevokingTypes, Zenon
      DEF InvalidatePendingAggregate, TypeOK, TablesTypeOK, CandidateStatus, PegOutStatus,
          AggregateStatus
    <2> QED BY <2>1, <2>3, <2>4, Zenon
  <1> QED BY <1>1, <1>2, <1>3, <1>4, <1>5, <1>6, Zenon

-----------------------------------------------------------------------------
(* The operations that give authority or write an attempt. *)

LEMMA ReserveExecutionPreserves ==
    ASSUME JournalInv, NEW r \in Reservations, ReserveExecution(r)
    PROVE  JournalInv'
  <1>1. TypeOK'
    BY Zenon DEF JournalInv, ReserveExecution, TypeOK, TablesTypeOK, ReservationStatus
  <1>2. \A q \in Reservations :
           reservation'[q] = "active" <=> (reservation[q] = "active" \/ q = r)
    BY Zenon DEF JournalInv, ReserveExecution, TypeOK, TablesTypeOK
  <1>3. ActiveReservationIsCurrent'
    BY <1>2, Zenon DEF JournalInv, ActiveReservationIsCurrent, ReserveExecution, MayReserve,
                CurrentAuthority, Unsettled
  <1>4. AttemptReserved'
    BY <1>2, Zenon DEF JournalInv, AttemptReserved, ReserveExecution
  <1>5. ReservationsExclusive'
    BY <1>2, Zenon DEF JournalInv, ReservationsExclusive, ReserveExecution, MayReserve, Compete
  <1>6. OneAttemptEver' /\ AttemptRowsValid'
    BY Zenon DEF JournalInv, OneAttemptEver, AttemptRowsValid, ReserveExecution, Compete
  <1> QED BY <1>1, <1>3, <1>4, <1>5, <1>6, Zenon DEF JournalInv

LEMMA ReserveTransportAttemptPreserves ==
    ASSUME JournalInv, NEW r \in Reservations, ReserveTransportAttempt(r)
    PROVE  JournalInv'
  <1> DEFINE new == [NoAttempt EXCEPT !.status = "pending"]
  <1>1. new = [status |-> "pending", disposition |-> "none", reason |-> "none",
               observation |-> NoObservation]
    BY DEF NoAttempt
  <1>2. \A q \in Reservations : attempt'[q] = IF q = r THEN new ELSE attempt[q]
    BY Zenon DEF JournalInv, ReserveTransportAttempt, TypeOK, TablesTypeOK
  <1>3. TypeOK'
    <2>1. new \in Attempt
      BY <1>1, Zenon DEF Attempt
    <2> HIDE DEF new
    <2> QED BY <2>1, Zenon DEF JournalInv, ReserveTransportAttempt, TypeOK, TablesTypeOK, new
  <1>4. new.status = "pending" /\ new.disposition = "none" /\ new.reason = "none"
    BY <1>1, Zenon
  <1> HIDE DEF new
  <1>5. ActiveReservationIsCurrent' /\ ReservationsExclusive'
    BY Zenon DEF JournalInv, ActiveReservationIsCurrent, ReservationsExclusive,
           ReserveTransportAttempt, CurrentAuthority, Unsettled, Compete
  <1>6. AttemptReserved'
    BY <1>2, <1>4, Zenon DEF JournalInv, AttemptReserved, ReserveTransportAttempt, CurrentAuthority
  <1>7. OneAttemptEver'
    BY <1>2, <1>4 DEF JournalInv, OneAttemptEver, ReserveTransportAttempt, NoPriorAttempt, Compete
  <1>8. AttemptRowsValid'
    BY <1>2, <1>4, Zenon DEF JournalInv, AttemptRowsValid
  <1> QED BY <1>3, <1>5, <1>6, <1>7, <1>8, Zenon DEF JournalInv

\* A rewritten row of an attempt that exists and is not quarantined.
LEMMA RewrittenAttemptPreserves ==
    ASSUME JournalInv, NEW r \in Reservations, NEW a \in Attempt,
           reservation[r] = "active", attempt[r].status # "absent",
           attempt' = [attempt EXCEPT ![r] = a],
           UNCHANGED <<pegOut, candidate, reservation, aggregate>>,
           /\ a.status = "pending" => a.disposition \in {"none", "ambiguous"}
           /\ a.status = "rejected" => a.disposition = "rejected"
           /\ a.status \in {"submitted", "confirmed"} => a.disposition = "accepted"
           /\ a.status = "quarantined" <=> a.reason # "none"
           /\ a.status = "confirmed" => a.observation.status = "confirmed_final"
    PROVE  JournalInv'
  <1>1. \A q \in Reservations : attempt'[q] = IF q = r THEN a ELSE attempt[q]
    BY Zenon DEF JournalInv, TypeOK, TablesTypeOK
  <1>2. TypeOK'
    BY Zenon DEF JournalInv, TypeOK, TablesTypeOK
  <1>3. ActiveReservationIsCurrent' /\ ReservationsExclusive'
    BY DEF JournalInv, ActiveReservationIsCurrent, ReservationsExclusive,
           CurrentAuthority, Unsettled, Compete
  <1>4. AttemptReserved'
    BY <1>1, Zenon DEF JournalInv, AttemptReserved
  <1>5. OneAttemptEver'
    BY <1>1 DEF JournalInv, OneAttemptEver, Compete
  <1>6. AttemptRowsValid'
    BY <1>1 DEF JournalInv, AttemptRowsValid
  <1> QED BY <1>2, <1>3, <1>4, <1>5, <1>6, Zenon DEF JournalInv

LEMMA FinalizeAttemptPreserves ==
    ASSUME JournalInv, NEW r \in Reservations,
           NEW d \in {"accepted", "rejected", "ambiguous"}, FinalizeAttempt(r, d)
    PROVE  JournalInv'
  <1> DEFINE s == CASE d = "accepted" -> "submitted"
                    [] d = "rejected" -> "rejected"
                    [] d = "ambiguous" -> "pending"
             a == [attempt[r] EXCEPT !.disposition = d, !.status = s]
  <1>1. attempt[r] \in Attempt
    BY DEF JournalInv, TypeOK, TablesTypeOK, FinalizeAttempt, NoAttempt
  <1>2. /\ s \in {"submitted", "rejected", "pending"}
        /\ s = "submitted" <=> d = "accepted"
        /\ s = "rejected" <=> d = "rejected"
        /\ s = "pending" <=> d = "ambiguous"
    BY Zenon
  <1>3. attempt' = [attempt EXCEPT ![r] = a]
    BY Zenon DEF FinalizeAttempt
  <1>4. attempt[r].status = "pending" /\ attempt[r].reason = "none"
    BY Zenon DEF FinalizeAttempt, JournalInv, AttemptRowsValid
  <1> HIDE DEF s
  <1>5. /\ a \in Attempt /\ a.status = s /\ a.disposition = d
        /\ a.reason = attempt[r].reason /\ a.observation = attempt[r].observation
    BY <1>1, <1>2, Zenon DEF Attempt
  <1>6. /\ a.status = "pending" => a.disposition \in {"none", "ambiguous"}
        /\ a.status = "rejected" => a.disposition = "rejected"
        /\ a.status \in {"submitted", "confirmed"} => a.disposition = "accepted"
        /\ a.status = "quarantined" <=> a.reason # "none"
        /\ a.status = "confirmed" => a.observation.status = "confirmed_final"
    BY <1>2, <1>4, <1>5, Zenon
  <1> HIDE DEF a
  <1>7. /\ reservation[r] = "active" /\ attempt[r].status # "absent"
        /\ UNCHANGED <<pegOut, candidate, reservation, aggregate>>
    BY <1>4, Zenon DEF FinalizeAttempt
  <1> QED BY <1>3, <1>5, <1>6, <1>7, RewrittenAttemptPreserves, Zenon

\* A row the mapper accepts.
Valid(x) ==
    /\ x \in Attempt
    /\ x.status = "pending" => x.disposition \in {"none", "ambiguous"}
    /\ x.status = "rejected" => x.disposition = "rejected"
    /\ x.status \in {"submitted", "confirmed"} => x.disposition = "accepted"
    /\ x.status = "quarantined" <=> x.reason # "none"
    /\ x.status = "confirmed" => x.observation.status = "confirmed_final"

\* What an observation makes of an attempt is again such a row.
LEMMA ObservedValid ==
    ASSUME JournalInv, NEW r \in Reservations, NEW o \in Observation, RecordObservation(r, o)
    PROVE  Valid(Observed(r, o)) /\ reservation[r] = "active" /\ attempt[r].status # "absent"
  <1> USE DEF Valid
  <1> DEFINE a == attempt[r]
             Quarantine(why) ==
                 [a EXCEPT !.status = "quarantined", !.reason = why, !.observation = o]
             Seen(status) ==
                 [a EXCEPT !.status = status, !.disposition = "accepted", !.observation = o]
  <1>1. a.status \in {"pending", "submitted", "confirmed"}
    BY Zenon DEF RecordObservation, MayRecordObservation
  <1>2. a \in Attempt /\ reservation[r] = "active"
    BY <1>1 DEF JournalInv, TypeOK, TablesTypeOK, NoAttempt, AttemptReserved
  <1>3. /\ a.reason = "none"
        /\ a.status = "pending" => a.disposition \in {"none", "ambiguous"}
        /\ a.status \in {"submitted", "confirmed"} => a.disposition = "accepted"
    BY <1>1, Zenon DEF JournalInv, AttemptRowsValid
  <1>4. ASSUME NEW why \in {"execution_reservation_revoked",
                 "confirmed_transaction_disappeared", "confirmed_transaction_reorged"}
        PROVE  Valid(Quarantine(why))
    <2>1. /\ Quarantine(why) \in Attempt
          /\ Quarantine(why).status = "quarantined" /\ Quarantine(why).reason = why
      BY <1>2, Zenon DEF Attempt
    <2> HIDE DEF Quarantine
    <2> QED BY <2>1, Zenon
  <1>5. Valid(Seen("submitted"))
    <2>1. /\ Seen("submitted") \in Attempt
          /\ Seen("submitted").status = "submitted" /\ Seen("submitted").reason = a.reason
          /\ Seen("submitted").disposition = "accepted"
      BY <1>2, Zenon DEF Attempt
    <2> HIDE DEF Seen
    <2> QED BY <1>3, <2>1, Zenon
  <1>6. ASSUME o.status = "confirmed_final"
        PROVE  Valid(Seen("confirmed"))
    <2>1. /\ Seen("confirmed") \in Attempt
          /\ Seen("confirmed").status = "confirmed" /\ Seen("confirmed").reason = a.reason
          /\ Seen("confirmed").disposition = "accepted"
          /\ Seen("confirmed").observation = o
      BY <1>2, Zenon DEF Attempt
    <2> HIDE DEF Seen
    <2> QED BY <1>3, <1>6, <2>1, Zenon
  <1>7. ASSUME a.status # "confirmed"
        PROVE  Valid([a EXCEPT !.observation = o])
    <2> DEFINE x == [a EXCEPT !.observation = o]
    <2>1. /\ x \in Attempt /\ x.status = a.status /\ x.reason = a.reason
          /\ x.disposition = a.disposition
      BY <1>2, Zenon DEF Attempt
    <2> HIDE DEF x
    <2>2. Valid(x)
      BY <1>1, <1>3, <1>7, <2>1, Zenon
    <2> QED BY <2>2, Zenon DEF x
  <1>8. Valid(Observed(r, o))
    <2>1. CASE a.status = "confirmed" /\ ~SameInclusion(a.observation, o)
      <3>1. Observed(r, o) = Quarantine("confirmed_transaction_reorged")
        BY <1>2, <2>1, Zenon DEF Observed
      <3> QED BY <1>4, <3>1, Zenon
    <2>2. CASE a.status = "confirmed" /\ SameInclusion(a.observation, o)
               /\ o.status # "confirmed_final"
      <3>1. Observed(r, o) = Quarantine("confirmed_transaction_disappeared")
        BY <1>2, <2>2, Zenon DEF Observed
      <3> QED BY <1>4, <3>1, Zenon
    <2>3. CASE o.status = "confirmed_final"
               /\ (a.status = "confirmed" => SameInclusion(a.observation, o))
      <3>1. Observed(r, o) = Seen("confirmed")
        BY <1>2, <2>3, Zenon DEF Observed
      <3> QED BY <1>6, <2>3, <3>1, Zenon
    <2>4. CASE a.status # "confirmed" /\ o.status \in {"mempool", "confirmed_pre_finality"}
      <3>1. Observed(r, o) = Seen("submitted")
        BY <1>2, <2>4, Zenon DEF Observed
      <3> QED BY <1>5, <3>1, Zenon
    <2>5. CASE a.status # "confirmed" /\ o.status = "absent"
      <3>1. Observed(r, o) = [a EXCEPT !.observation = o]
        BY <1>2, <2>5, Zenon DEF Observed
      <3> QED BY <1>7, <2>5, <3>1, Zenon
    <2>6. o.status \in ObservationStatus
      BY Zenon DEF Observation
    <2> HIDE DEF Valid, a
    <2> QED BY <2>1, <2>2, <2>3, <2>4, <2>5, <2>6, Zenon DEF ObservationStatus
  <1> QED BY <1>1, <1>2, <1>8, Zenon

LEMMA RecordObservationPreserves ==
    ASSUME JournalInv, NEW r \in Reservations, NEW o \in Observation, RecordObservation(r, o)
    PROVE  JournalInv'
  <1>1. Valid(Observed(r, o)) /\ reservation[r] = "active" /\ attempt[r].status # "absent"
    BY ObservedValid, Zenon
  <1>2. /\ attempt' = [attempt EXCEPT ![r] = Observed(r, o)]
        /\ UNCHANGED <<pegOut, candidate, reservation, aggregate>>
    BY Zenon DEF RecordObservation
  <1> QED BY <1>1, <1>2, RewrittenAttemptPreserves, Zenon DEF Valid

-----------------------------------------------------------------------------
(* The theorems. *)

LEMMA JournalInvInit == TablesInit => JournalInv
  <1> SUFFICES ASSUME TablesInit PROVE JournalInv
    BY Zenon
  <1>1. TypeOK
    BY Zenon DEF TablesInit, TypeOK, TablesTypeOK
  <1>2. \A r \in Reservations : /\ reservation[r] = "absent"
                                 /\ attempt[r].status = "absent"
                                 /\ attempt[r].reason = "none"
    BY Zenon DEF TablesInit, NoAttempt
  <1>3. ActiveReservationIsCurrent /\ AttemptReserved /\ OneAttemptEver
        /\ ReservationsExclusive /\ AttemptRowsValid
    BY <1>2, Zenon DEF ActiveReservationIsCurrent, AttemptReserved, OneAttemptEver,
                ReservationsExclusive, AttemptRowsValid
  <1> QED BY <1>1, <1>3, Zenon DEF JournalInv

LEMMA JournalInvStep == JournalInv /\ [JournalsNext]_tables => JournalInv'
  <1> SUFFICES ASSUME JournalInv, [JournalsNext]_tables PROVE JournalInv'
    BY Zenon
  <1>0. TypeOK
    BY Zenon DEF JournalInv
  <1>1. ASSUME TypeOK' /\ \E R \in SUBSET Reservations : RevokingStep(R)
        PROVE  JournalInv'
    BY <1>1, RevokingStepPreserves, Zenon
  <1>2. ASSUME NEW b \in Burns,
               \/ InsertPegOut(b)
               \/ CompletePegOut(b)
               \/ RepairDetectedPegOut(b)
               \/ MarkPegOutBurnReverted(b)
               \/ \E s \in {"detected", "confirmed", "burn_reverted"} : UpdatePegOutStatus(b, s)
        PROVE  JournalInv'
    BY <1>0, <1>1, <1>2, PegOutOperationsRevoke, Zenon
  <1>3. ASSUME NEW c \in Candidates,
               \/ RecordCandidate(c)
               \/ RecordRecoveredCandidate(c)
               \/ MarkCandidateCheckPassed(c)
               \/ InvalidateCandidate(c)
        PROVE  JournalInv'
    BY <1>0, <1>1, <1>3, CandidateOperationsRevoke, Zenon
  <1>4. CASE InvalidateActiveCandidates
    <2>1. PICK c \in Candidates : ActiveCandidate(c)
      BY <1>4, Zenon DEF InvalidateActiveCandidates
    <2> QED BY <1>0, <1>1, <1>4, <2>1, CandidateOperationsRevoke, Zenon
  <1>5. ASSUME NEW r \in Reservations,
               \/ ReserveExecution(r)
               \/ ReserveTransportAttempt(r)
               \/ \E d \in {"accepted", "rejected", "ambiguous"} : FinalizeAttempt(r, d)
               \/ \E o \in StableObservations : RecordObservation(r, o)
        PROVE  JournalInv'
    <2>1. StableObservations \subseteq Observation
      BY Zenon DEF StableObservations
    <2> QED BY <1>5, <2>1, ReserveExecutionPreserves, ReserveTransportAttemptPreserves,
               FinalizeAttemptPreserves, RecordObservationPreserves, Zenon
  <1>6. CASE AggregateNext
    BY <1>0, <1>1, <1>6, AggregateOperationsRevoke, Zenon
  <1>7. CASE UNCHANGED tables
    BY <1>7 DEF tables, JournalInv, TypeOK, TablesTypeOK, ActiveReservationIsCurrent,
                AttemptReserved, OneAttemptEver, ReservationsExclusive, AttemptRowsValid,
                CurrentAuthority, Unsettled, Compete
  <1> QED BY <1>2, <1>3, <1>4, <1>5, <1>6, <1>7, Zenon DEF JournalsNext, PegOutNext, CandidateNext, ExecutionNext

\* The authenticated journal's invariants hold in every state the operations of
\* both journals can reach, in whatever order callers interleave them.
THEOREM JournalCorrect == JournalsSpec => []JournalInv
  <1> QED BY JournalInvInit, JournalInvStep, PTL DEF JournalsSpec

\* Rows only ever hold the statuses, dispositions and observations of their type.
THEOREM TypeCorrect == JournalsSpec => []TypeOK
  <1>1. JournalInv => TypeOK
    BY Zenon DEF JournalInv
  <1> QED BY <1>1, JournalCorrect, PTL

\* reserveAuthenticatedSettlementTransportAttempt writes at most one attempt, ever,
\* for a burn, a DUP input and a vault.
THEOREM OneAttemptEverHolds == JournalsSpec => []OneAttemptEver
  <1>1. JournalInv => OneAttemptEver
    BY Zenon DEF JournalInv
  <1> QED BY <1>1, JournalCorrect, PTL

\* Behind every attempt that is not quarantined stand an active reservation, a
\* checked candidate and an unsettled burn: the triggers leave no gap.
THEOREM AttemptHasAuthorityHolds == JournalsSpec => []AttemptHasAuthority
  <1>1. JournalInv => AttemptHasAuthority
    BY Zenon DEF JournalInv, AttemptReserved, ActiveReservationIsCurrent, AttemptHasAuthority
  <1> QED BY <1>1, JournalCorrect, PTL

\* The row mapper accepts every attempt row that the operations and triggers write.
THEOREM AttemptRowsValidHolds == JournalsSpec => []AttemptRowsValid
  <1>1. JournalInv => AttemptRowsValid
    BY Zenon DEF JournalInv
  <1> QED BY <1>1, JournalCorrect, PTL

-----------------------------------------------------------------------------
(* Exclusion between the two journals. *)

NoNewReservation ==
    \A r \in Reservations : reservation'[r] = "active" => reservation[r] = "active"

NoNewAggregate ==
    \A t \in LegacyTxs : aggregate'[t] \in {"pending", "submitted"} => ActiveAggregate(t)

LEMMA RevokingStepReservesNothing ==
    ASSUME TypeOK, \E R \in SUBSET Reservations : RevokingStep(R)
    PROVE  NoNewReservation
  BY RevokeEffect, Zenon DEF RevokingStep, NoNewReservation

LEMMA ClaimsKept ==
    ASSUME ClaimsExclusive, NoNewReservation, NoNewAggregate
    PROVE  ClaimsExclusive'
  BY Zenon DEF ClaimsExclusive, NoNewReservation, NoNewAggregate, ActiveAggregate, ReservationsForBurns

LEMMA ClaimsStep == TypeOK /\ ClaimsExclusive /\ [JournalsNext]_tables => ClaimsExclusive'
  <1> SUFFICES ASSUME TypeOK, ClaimsExclusive, [JournalsNext]_tables PROVE ClaimsExclusive'
    BY Zenon
  <1>1. ASSUME UNCHANGED aggregate, NoNewReservation PROVE ClaimsExclusive'
    BY <1>1, ClaimsKept, Zenon DEF NoNewAggregate, ActiveAggregate
  <1>2. ASSUME NEW b \in Burns,
               \/ InsertPegOut(b)
               \/ CompletePegOut(b)
               \/ RepairDetectedPegOut(b)
               \/ MarkPegOutBurnReverted(b)
               \/ \E s \in {"detected", "confirmed", "burn_reverted"} : UpdatePegOutStatus(b, s)
        PROVE  ClaimsExclusive'
    <2>1. UNCHANGED aggregate
      BY <1>2, Zenon DEF InsertPegOut, CompletePegOut, RepairDetectedPegOut, MarkPegOutBurnReverted,
                  UpdatePegOutStatus
    <2> QED BY <1>1, <1>2, <2>1, PegOutOperationsRevoke, RevokingStepReservesNothing, Zenon
  <1>3. ASSUME NEW c \in Candidates,
               \/ RecordCandidate(c)
               \/ RecordRecoveredCandidate(c)
               \/ MarkCandidateCheckPassed(c)
               \/ InvalidateCandidate(c)
               \/ InvalidateActiveCandidates
        PROVE  ClaimsExclusive'
    <2>1. UNCHANGED aggregate
      BY <1>3, Zenon DEF RecordCandidate, RecordRecoveredCandidate, MarkCandidateCheckPassed,
                  InvalidateCandidate, InvalidateActiveCandidates
    <2> QED BY <1>1, <1>3, <2>1, CandidateOperationsRevoke, RevokingStepReservesNothing, Zenon
  <1>4. CASE InvalidateActiveCandidates
    <2>1. PICK c \in Candidates : ActiveCandidate(c)
      BY <1>4, Zenon DEF InvalidateActiveCandidates
    <2> QED BY <1>3, <1>4, <2>1, Zenon
  <1>5. ASSUME NEW r \in Reservations, ReserveExecution(r)
        PROVE  ClaimsExclusive'
    <2>1. \A q \in Reservations :
             reservation'[q] = "active" => reservation[q] = "active" \/ q = r
      BY <1>5, Zenon DEF ReserveExecution, TypeOK, TablesTypeOK
    <2> QED BY <1>5, <2>1, Zenon DEF ReserveExecution, MayReserve, ClaimsExclusive, ActiveAggregate,
                              ReservationsForBurns
  <1>6. ASSUME NEW r \in Reservations,
               \/ ReserveTransportAttempt(r)
               \/ \E d \in {"accepted", "rejected", "ambiguous"} : FinalizeAttempt(r, d)
               \/ \E o \in StableObservations : RecordObservation(r, o)
        PROVE  ClaimsExclusive'
    <2>1. UNCHANGED <<reservation, aggregate>>
      BY <1>6, Zenon DEF ReserveTransportAttempt, FinalizeAttempt, RecordObservation
    <2> QED BY <1>1, <2>1, Zenon DEF NoNewReservation
  <1>7. CASE AggregateNext
    <2>1. NoNewReservation
      BY <1>7, AggregateOperationsRevoke, RevokingStepReservesNothing, Zenon
    <2>2. PICK t \in LegacyTxs :
             \/ RecordAggregateAttempt(t)
             \/ MarkAggregateAttemptSubmitted(t)
             \/ RestoreAggregateAttempt(t)
             \/ RollBackAggregateAttempt(t)
             \/ ConfirmSubmittedAggregate(t)
             \/ MarkAggregateAttemptAbandoned(t)
             \/ \E B \in SUBSET BurnsOf[t] : InvalidatePendingAggregate(t, B)
             \/ AbandonSubmittedAggregate(t)
             \/ AbandonPendingAggregateTransport(t)
      BY <1>7, Zenon DEF AggregateNext
    <2>3. CASE RecordAggregateAttempt(t)
      <3>1. \A u \in LegacyTxs :
               aggregate'[u] \in {"pending", "submitted"} => ActiveAggregate(u) \/ u = t
        BY <2>3, Zenon DEF RecordAggregateAttempt, ActiveAggregate, TypeOK, TablesTypeOK
      <3> QED BY <2>3, <3>1, Zenon DEF RecordAggregateAttempt, ClaimsExclusive, ActiveAggregate,
                                ReservationsForBurns
    <2>4. CASE ~RecordAggregateAttempt(t)
      <3>1. ActiveAggregate(t) /\ \E s \in AggregateStatus : aggregate' = [aggregate EXCEPT ![t] = s]
        BY <2>2, <2>4, Zenon
        DEF MarkAggregateAttemptSubmitted, RestoreAggregateAttempt, RollBackAggregateAttempt,
            ConfirmSubmittedAggregate, MarkAggregateAttemptAbandoned, InvalidatePendingAggregate,
            AbandonSubmittedAggregate, AbandonPendingAggregateTransport, ActiveAggregate,
            AggregateStatus
      <3>2. NoNewAggregate
        BY <3>1, Zenon DEF NoNewAggregate, ActiveAggregate, TypeOK, TablesTypeOK
      <3> QED BY <2>1, <3>2, ClaimsKept, Zenon
    <2> QED BY <2>3, <2>4, Zenon
  <1>8. CASE UNCHANGED tables
    BY <1>1, <1>8, Zenon DEF tables, NoNewReservation
  <1> QED BY <1>2, <1>3, <1>4, <1>5, <1>6, <1>7, <1>8, Zenon DEF JournalsNext, PegOutNext, CandidateNext, ExecutionNext

\* A burn is never claimed by both journals, nor by two legacy attempts: the guards
\* of reserveAuthenticatedSettlementExecution and recordAggregateSettlementAttempt
\* exclude each other whatever happens between them.
THEOREM ClaimsExclusiveHolds == JournalsSpec => []ClaimsExclusive
  <1>1. TablesInit => ClaimsExclusive
    BY Zenon DEF TablesInit, ClaimsExclusive, ActiveAggregate
  <1> QED BY <1>1, ClaimsStep, TypeCorrect, PTL DEF JournalsSpec

-----------------------------------------------------------------------------
(* The legacy attempt behind a submitted row. *)

\* No burn becomes submitted, and no submitted attempt gives its burns up.
LEMMA SubmittedKept ==
    ASSUME SubmittedRowsClaimed,
           \A b \in Burns : pegOut'[b] = "aggregate_submitted" => pegOut[b] = "aggregate_submitted",
           \A t \in LegacyTxs : aggregate[t] = "submitted" => aggregate'[t] = "submitted"
    PROVE  SubmittedRowsClaimed'
  BY Zenon DEF SubmittedRowsClaimed

\* An attempt that stops being submitted takes every row of its burns with it.
LEMMA SubmittedReleased ==
    ASSUME TypeOK, SubmittedRowsClaimed, NEW t \in LegacyTxs, NEW to \in PegOutStatus,
           NEW s \in AggregateStatus,
           to # "aggregate_submitted",
           pegOut' = MoveBurns(t, "aggregate_submitted", to),
           aggregate' = [aggregate EXCEPT ![t] = s]
    PROVE  SubmittedRowsClaimed'
  <1> SUFFICES ASSUME NEW b \in Burns, pegOut'[b] = "aggregate_submitted"
               PROVE  \E u \in LegacyTxs : aggregate'[u] = "submitted" /\ b \in BurnsOf[u]
    BY Zenon DEF SubmittedRowsClaimed
  <1>1. pegOut[b] = "aggregate_submitted" /\ b \notin BurnsOf[t]
    BY Zenon DEF MoveBurns
  <1>2. PICK u \in LegacyTxs : aggregate[u] = "submitted" /\ b \in BurnsOf[u]
    BY <1>1, Zenon DEF SubmittedRowsClaimed
  <1>3. aggregate'[u] = "submitted"
    BY <1>1, <1>2, Zenon DEF TypeOK, TablesTypeOK
  <1> QED BY <1>2, <1>3, Zenon

LEMMA SubmittedStep ==
    TypeOK /\ SubmittedRowsClaimed /\ [JournalsNext]_tables => SubmittedRowsClaimed'
  <1> SUFFICES ASSUME TypeOK, SubmittedRowsClaimed, [JournalsNext]_tables
               PROVE  SubmittedRowsClaimed'
    BY Zenon
  <1>1. ASSUME UNCHANGED aggregate,
               \A b \in Burns : pegOut'[b] = "aggregate_submitted" => pegOut[b] = "aggregate_submitted"
        PROVE  SubmittedRowsClaimed'
    BY <1>1, SubmittedKept, Zenon
  <1>2. ASSUME NEW b \in Burns,
               \/ InsertPegOut(b)
               \/ CompletePegOut(b)
               \/ RepairDetectedPegOut(b)
               \/ MarkPegOutBurnReverted(b)
               \/ \E s \in {"detected", "confirmed", "burn_reverted"} : UpdatePegOutStatus(b, s)
        PROVE  SubmittedRowsClaimed'
    <2>1. UNCHANGED aggregate
      BY <1>2, Zenon DEF InsertPegOut, CompletePegOut, RepairDetectedPegOut, MarkPegOutBurnReverted,
                  UpdatePegOutStatus
    <2>2. \A x \in Burns : pegOut'[x] = "aggregate_submitted" => pegOut[x] = "aggregate_submitted"
      BY <1>2, Zenon DEF InsertPegOut, CompletePegOut, RepairDetectedPegOut, MarkPegOutBurnReverted,
                  UpdatePegOutStatus, SetPegOuts, TypeOK, TablesTypeOK
    <2> QED BY <1>1, <2>1, <2>2, Zenon
  <1>3. ASSUME NEW c \in Candidates,
               \/ RecordCandidate(c)
               \/ RecordRecoveredCandidate(c)
               \/ MarkCandidateCheckPassed(c)
               \/ InvalidateCandidate(c)
        PROVE  SubmittedRowsClaimed'
    <2>1. UNCHANGED aggregate
      BY <1>3, Zenon DEF RecordCandidate, RecordRecoveredCandidate, MarkCandidateCheckPassed,
                  InvalidateCandidate
    <2>2. \A x \in Burns : pegOut'[x] = "aggregate_submitted" => pegOut[x] = "aggregate_submitted"
      BY <1>3, Zenon DEF RecordCandidate, RecordRecoveredCandidate, MarkCandidateCheckPassed,
                  InvalidateCandidate, TypeOK, TablesTypeOK
    <2> QED BY <1>1, <2>1, <2>2, Zenon
  <1>4. CASE InvalidateActiveCandidates
    BY <1>1, <1>4, Zenon DEF InvalidateActiveCandidates
  <1>5. ASSUME NEW r \in Reservations,
               \/ ReserveExecution(r)
               \/ ReserveTransportAttempt(r)
               \/ \E d \in {"accepted", "rejected", "ambiguous"} : FinalizeAttempt(r, d)
               \/ \E o \in StableObservations : RecordObservation(r, o)
        PROVE  SubmittedRowsClaimed'
    BY <1>1, <1>5, Zenon DEF ReserveExecution, ReserveTransportAttempt, FinalizeAttempt, RecordObservation
  <1>6. CASE AggregateNext
    <2>1. PICK t \in LegacyTxs :
             \/ RecordAggregateAttempt(t)
             \/ MarkAggregateAttemptSubmitted(t)
             \/ RestoreAggregateAttempt(t)
             \/ RollBackAggregateAttempt(t)
             \/ ConfirmSubmittedAggregate(t)
             \/ MarkAggregateAttemptAbandoned(t)
             \/ \E B \in SUBSET BurnsOf[t] : InvalidatePendingAggregate(t, B)
             \/ AbandonSubmittedAggregate(t)
             \/ AbandonPendingAggregateTransport(t)
      BY <1>6, Zenon DEF AggregateNext
    <2>2. CASE \/ RecordAggregateAttempt(t)
               \/ MarkAggregateAttemptSubmitted(t)
               \/ MarkAggregateAttemptAbandoned(t)
               \/ AbandonPendingAggregateTransport(t)
               \/ \E B \in SUBSET BurnsOf[t] : InvalidatePendingAggregate(t, B)
      <3>1. \A u \in LegacyTxs : aggregate[u] = "submitted" => aggregate'[u] = "submitted"
        BY <2>2, Zenon DEF RecordAggregateAttempt, MarkAggregateAttemptSubmitted,
                    MarkAggregateAttemptAbandoned, AbandonPendingAggregateTransport,
                    InvalidatePendingAggregate, TypeOK, TablesTypeOK
      <3>2. \A b \in Burns : pegOut'[b] = "aggregate_submitted" => pegOut[b] = "aggregate_submitted"
        BY <2>2, Zenon DEF RecordAggregateAttempt, MarkAggregateAttemptSubmitted,
                    MarkAggregateAttemptAbandoned, AbandonPendingAggregateTransport,
                    InvalidatePendingAggregate
      <3> QED BY <3>1, <3>2, SubmittedKept, Zenon
    <2>3. CASE RestoreAggregateAttempt(t)
      <3>1. /\ \A u \in LegacyTxs : aggregate[u] = "submitted" => aggregate'[u] = "submitted"
            /\ aggregate'[t] = "submitted"
        BY <2>3, Zenon DEF RestoreAggregateAttempt, TypeOK, TablesTypeOK
      <3>2. \A b \in Burns : pegOut'[b] = "aggregate_submitted" =>
               pegOut[b] = "aggregate_submitted" \/ b \in BurnsOf[t]
        BY <2>3, Zenon DEF RestoreAggregateAttempt, SetPegOuts
      <3> QED BY <3>1, <3>2, Zenon DEF SubmittedRowsClaimed
    <2>4. CASE RollBackAggregateAttempt(t)
      BY <2>4, SubmittedReleased, Zenon
      DEF RollBackAggregateAttempt, SetPegOuts, AggregateStatus, PegOutStatus
    <2>5. CASE ConfirmSubmittedAggregate(t)
      BY <2>5, SubmittedReleased, Zenon
      DEF ConfirmSubmittedAggregate, SetPegOuts, AggregateStatus, PegOutStatus
    <2>6. CASE AbandonSubmittedAggregate(t)
      BY <2>6, SubmittedReleased, Zenon
      DEF AbandonSubmittedAggregate, SetPegOuts, AggregateStatus, PegOutStatus
    <2> QED BY <2>1, <2>2, <2>3, <2>4, <2>5, <2>6, Zenon
  <1>7. CASE UNCHANGED tables
    BY <1>1, <1>7, Zenon DEF tables
  <1> QED BY <1>2, <1>3, <1>4, <1>5, <1>6, <1>7, Zenon DEF JournalsNext, PegOutNext, CandidateNext, ExecutionNext

\* A row that waits for a legacy settlement always has the submitted attempt that
\* pays it: rolling back, confirming and giving up an attempt move its rows in the
\* same transaction, and no other operation makes a row wait.
THEOREM SubmittedRowsClaimedHolds == JournalsSpec => []SubmittedRowsClaimed
  <1>1. TablesInit => SubmittedRowsClaimed
    BY Zenon DEF TablesInit, SubmittedRowsClaimed
  <1> QED BY <1>1, SubmittedStep, TypeCorrect, PTL DEF JournalsSpec

-----------------------------------------------------------------------------
(* Lifecycles. *)

\* What a step may do to the status of an attempt, and to a reservation.
Forward(r) ==
    LET old == attempt[r].status
        new == attempt'[r].status IN
    old # new =>
        \/ old = "absent" /\ new = "pending"
        \/ old = "pending" /\ new \in {"rejected", "submitted", "confirmed", "quarantined"}
        \/ old = "submitted" /\ new \in {"confirmed", "quarantined"}
        \/ old \in {"rejected", "confirmed"} /\ new = "quarantined"

AuthorityForward ==
    \A r \in Reservations :
        Forward(r) /\ (reservation[r] = "revoked" => reservation'[r] = "revoked")

RowsForward ==
    /\ \A c \in Candidates : candidate[c] = "invalidated" => candidate'[c] = "invalidated"
    /\ \A b \in Burns : pegOut[b] = "burn_reverted" => pegOut'[b] = "burn_reverted"

LEMMA RevokeMovesForward ==
    ASSUME TypeOK, \E R \in SUBSET Reservations : RevokingStep(R)
    PROVE  AuthorityForward
  <1>1. PICK R \in SUBSET Reservations : Revoke(R)
    BY Zenon DEF RevokingStep
  <1> SUFFICES ASSUME NEW r \in Reservations
               PROVE  Forward(r) /\ (reservation[r] = "revoked" => reservation'[r] = "revoked")
    BY Zenon DEF AuthorityForward
  <1>2. /\ attempt'[r].status = "absent" <=> attempt[r].status = "absent"
        /\ \/ attempt'[r] = attempt[r] /\ reservation'[r] = reservation[r]
           \/ /\ reservation[r] = "active" /\ reservation'[r] = "revoked"
              /\ attempt'[r].status \in {"absent", "quarantined"}
    BY <1>1, RevokeEffect, Zenon
  <1>3. attempt[r].status \in {"absent", "pending", "rejected", "submitted", "confirmed", "quarantined"}
    BY DEF TypeOK, TablesTypeOK, Attempt, NoAttempt
  <1> QED BY <1>2, <1>3, Zenon DEF Forward

LEMMA PegOutRowsForward ==
    ASSUME TypeOK, NEW b \in Burns,
           \/ InsertPegOut(b)
           \/ CompletePegOut(b)
           \/ RepairDetectedPegOut(b)
           \/ MarkPegOutBurnReverted(b)
           \/ \E s \in {"detected", "confirmed", "burn_reverted"} : UpdatePegOutStatus(b, s)
    PROVE  RowsForward
  BY Zenon DEF InsertPegOut, CompletePegOut, RepairDetectedPegOut, MarkPegOutBurnReverted,
         UpdatePegOutStatus, SetPegOuts, RowsForward, TypeOK, TablesTypeOK

LEMMA CandidateRowsForward ==
    ASSUME TypeOK, NEW c \in Candidates,
           \/ RecordCandidate(c)
           \/ RecordRecoveredCandidate(c)
           \/ MarkCandidateCheckPassed(c)
           \/ InvalidateCandidate(c)
           \/ InvalidateActiveCandidates
    PROVE  RowsForward
  <1>1. CASE RecordCandidate(c)
    BY <1>1, Zenon DEF RecordCandidate, RowsForward, TypeOK, TablesTypeOK
  <1>2. CASE RecordRecoveredCandidate(c)
    BY <1>2, Zenon DEF RecordRecoveredCandidate, RowsForward, TypeOK, TablesTypeOK
  <1>3. CASE MarkCandidateCheckPassed(c)
    BY <1>3, Zenon DEF MarkCandidateCheckPassed, RowsForward, TypeOK, TablesTypeOK
  <1>4. CASE InvalidateCandidate(c) \/ InvalidateActiveCandidates
    BY <1>4, Zenon DEF InvalidateCandidate, InvalidateActiveCandidates, Invalidate, RowsForward
  <1> QED BY <1>1, <1>2, <1>3, <1>4, Zenon

LEMMA AggregateRowsForward ==
    ASSUME TypeOK, AggregateNext
    PROVE  RowsForward
  <1>1. PICK t \in LegacyTxs :
           \/ RecordAggregateAttempt(t)
           \/ MarkAggregateAttemptSubmitted(t)
           \/ RestoreAggregateAttempt(t)
           \/ RollBackAggregateAttempt(t)
           \/ ConfirmSubmittedAggregate(t)
           \/ MarkAggregateAttemptAbandoned(t)
           \/ \E B \in SUBSET BurnsOf[t] : InvalidatePendingAggregate(t, B)
           \/ AbandonSubmittedAggregate(t)
           \/ AbandonPendingAggregateTransport(t)
    BY Zenon DEF AggregateNext
  <1>2. CASE \/ RecordAggregateAttempt(t)
             \/ MarkAggregateAttemptSubmitted(t)
             \/ MarkAggregateAttemptAbandoned(t)
             \/ AbandonPendingAggregateTransport(t)
    BY <1>2, Zenon DEF RecordAggregateAttempt, MarkAggregateAttemptSubmitted, RowsForward,
                MarkAggregateAttemptAbandoned, AbandonPendingAggregateTransport
  <1>3. CASE RestoreAggregateAttempt(t)
    BY <1>3, Zenon DEF RestoreAggregateAttempt, BurnsIn, SetPegOuts, RowsForward
  <1>4. CASE RollBackAggregateAttempt(t) \/ ConfirmSubmittedAggregate(t) \/ AbandonSubmittedAggregate(t)
    BY <1>4, Zenon DEF RollBackAggregateAttempt, ConfirmSubmittedAggregate, AbandonSubmittedAggregate,
                SetPegOuts, MoveBurns, RowsForward
  <1>5. ASSUME NEW B \in SUBSET BurnsOf[t], InvalidatePendingAggregate(t, B)
        PROVE  RowsForward
    BY <1>5, Zenon DEF InvalidatePendingAggregate, RowsForward
  <1> QED BY <1>1, <1>2, <1>3, <1>4, <1>5, Zenon

\* The status an observation gives an attempt.
LEMMA ObservedForward ==
    ASSUME JournalInv, NEW r \in Reservations, NEW o \in Observation, RecordObservation(r, o)
    PROVE  AuthorityForward
  <1> DEFINE a == attempt[r]
  <1>1. /\ a.status \in {"pending", "submitted", "confirmed"} /\ a \in Attempt
        /\ attempt \in [Reservations -> Attempt \cup {NoAttempt}]
    BY DEF RecordObservation, MayRecordObservation, JournalInv, TypeOK, TablesTypeOK, NoAttempt
  <1>2. o.status \in ObservationStatus
    BY Zenon DEF Observation
  <1>3. /\ Observed(r, o).status \in {a.status, "submitted", "confirmed", "quarantined"}
        /\ a.status = "confirmed" => Observed(r, o).status \in {"confirmed", "quarantined"}
    BY <1>1, <1>2, Zenon DEF Observed, Attempt, ObservationStatus
  <1>4. attempt' = [attempt EXCEPT ![r] = Observed(r, o)] /\ UNCHANGED reservation
    BY Zenon DEF RecordObservation
  <1>5. \A q \in Reservations : Forward(q)
    BY <1>1, <1>3, <1>4, Zenon DEF Forward
  <1> QED BY <1>4, <1>5, Zenon DEF AuthorityForward

LEMMA ExecutionMovesForward ==
    ASSUME JournalInv, NEW r \in Reservations,
           \/ ReserveExecution(r)
           \/ ReserveTransportAttempt(r)
           \/ \E d \in {"accepted", "rejected", "ambiguous"} : FinalizeAttempt(r, d)
           \/ \E o \in StableObservations : RecordObservation(r, o)
    PROVE  AuthorityForward /\ RowsForward
  <1>1. RowsForward
    BY Zenon DEF ReserveExecution, ReserveTransportAttempt, FinalizeAttempt, RecordObservation, RowsForward
  <1>2. CASE ReserveExecution(r)
    <2>1. \A q \in Reservations : reservation[q] = "revoked" => reservation'[q] = "revoked"
      BY <1>2, Zenon DEF ReserveExecution, JournalInv, TypeOK, TablesTypeOK
    <2>2. \A q \in Reservations : Forward(q)
      BY <1>2, Zenon DEF ReserveExecution, Forward
    <2> QED BY <1>1, <2>1, <2>2, Zenon DEF AuthorityForward
  <1>3. CASE ReserveTransportAttempt(r)
    <2>1. attempt[r].status = "absent"
      BY <1>3, CandidateTypes, Zenon DEF ReserveTransportAttempt, NoPriorAttempt, Compete
    <2>2. \A q \in Reservations : attempt'[q].status = IF q = r THEN "pending" ELSE attempt[q].status
      BY <1>3, Zenon DEF ReserveTransportAttempt, JournalInv, TypeOK, TablesTypeOK, NoAttempt
    <2>3. \A q \in Reservations : Forward(q)
      BY <2>1, <2>2, Zenon DEF Forward
    <2>4. UNCHANGED reservation
      BY <1>3, Zenon DEF ReserveTransportAttempt
    <2> QED BY <1>1, <2>3, <2>4, Zenon DEF AuthorityForward
  <1>4. ASSUME NEW d \in {"accepted", "rejected", "ambiguous"}, FinalizeAttempt(r, d)
        PROVE  AuthorityForward
    <2>1. attempt[r] \in Attempt /\ attempt[r].status = "pending"
      BY <1>4 DEF JournalInv, TypeOK, TablesTypeOK, FinalizeAttempt, NoAttempt
    <2>2. /\ attempt'[r].status \in {"submitted", "rejected", "pending"}
          /\ \A q \in Reservations \ {r} : attempt'[q] = attempt[q]
      BY <1>4, <2>1, Zenon DEF FinalizeAttempt, JournalInv, TypeOK, TablesTypeOK, Attempt
    <2> QED BY <1>4, <2>1, <2>2, Zenon DEF FinalizeAttempt, AuthorityForward, Forward
  <1>5. ASSUME NEW o \in StableObservations, RecordObservation(r, o)
        PROVE  AuthorityForward
    BY <1>5, ObservedForward, Zenon DEF StableObservations
  <1> QED BY <1>1, <1>2, <1>3, <1>4, <1>5, Zenon

LEMMA ForwardStep == JournalInv /\ [JournalsNext]_tables => AuthorityForward /\ RowsForward
  <1> SUFFICES ASSUME JournalInv, [JournalsNext]_tables PROVE AuthorityForward /\ RowsForward
    BY Zenon
  <1>0. TypeOK
    BY Zenon DEF JournalInv
  <1>1. ASSUME NEW b \in Burns,
               \/ InsertPegOut(b)
               \/ CompletePegOut(b)
               \/ RepairDetectedPegOut(b)
               \/ MarkPegOutBurnReverted(b)
               \/ \E s \in {"detected", "confirmed", "burn_reverted"} : UpdatePegOutStatus(b, s)
        PROVE  AuthorityForward /\ RowsForward
    BY <1>0, <1>1, PegOutOperationsRevoke, RevokeMovesForward, PegOutRowsForward, Zenon
  <1>2. ASSUME NEW c \in Candidates,
               \/ RecordCandidate(c)
               \/ RecordRecoveredCandidate(c)
               \/ MarkCandidateCheckPassed(c)
               \/ InvalidateCandidate(c)
               \/ InvalidateActiveCandidates
        PROVE  AuthorityForward /\ RowsForward
    BY <1>0, <1>2, CandidateOperationsRevoke, RevokeMovesForward, CandidateRowsForward, Zenon
  <1>3. CASE InvalidateActiveCandidates
    <2>1. PICK c \in Candidates : ActiveCandidate(c)
      BY <1>3, Zenon DEF InvalidateActiveCandidates
    <2> QED BY <1>2, <1>3, <2>1, Zenon
  <1>4. CASE AggregateNext
    BY <1>0, <1>4, AggregateOperationsRevoke, RevokeMovesForward, AggregateRowsForward, Zenon
  <1>5. CASE UNCHANGED tables
    BY <1>5, Zenon DEF tables, AuthorityForward, Forward, RowsForward
  <1> QED BY <1>1, <1>2, <1>3, <1>4, <1>5, ExecutionMovesForward, Zenon
          DEF JournalsNext, PegOutNext, CandidateNext, ExecutionNext

\* Whatever the order of triggers, answers, observations and late status updates,
\* no operation takes an attempt, a reservation, a candidate or a reverted burn
\* back to where it was.
THEOREM LifecyclesMoveForwardHolds == JournalsSpec => LifecyclesMoveForward
  <1>1. JournalInv /\ [JournalsNext]_tables =>
          [/\ \A r \in Reservations :
                 LET old == attempt[r].status
                     new == attempt'[r].status IN
                 old # new =>
                     \/ old = "absent" /\ new = "pending"
                     \/ old = "pending" /\ new \in {"rejected", "submitted", "confirmed", "quarantined"}
                     \/ old = "submitted" /\ new \in {"confirmed", "quarantined"}
                     \/ old \in {"rejected", "confirmed"} /\ new = "quarantined"
           /\ \A r \in Reservations : reservation[r] = "revoked" => reservation'[r] = "revoked"
           /\ \A c \in Candidates : candidate[c] = "invalidated" => candidate'[c] = "invalidated"
           /\ \A b \in Burns : pegOut[b] = "burn_reverted" => pegOut'[b] = "burn_reverted"]_tables
    BY ForwardStep, Zenon DEF AuthorityForward, Forward, RowsForward
  <1> QED BY <1>1, JournalCorrect, PTL DEF JournalsSpec, LifecyclesMoveForward

-----------------------------------------------------------------------------
(* Executions. *)

\* A transaction is never in a block above the tip.
BelowTip == \A c \in Candidates : included[c].height <= tip.height

\* What runs and reconciliation hold are observations the chain once gave.
ViewsStable ==
    /\ \A e \in Executors : At(e, "observed") => run[e].view \in StableObservations
    /\ monitor # Idle => monitor.view \in StableObservations

ProcessInv == ChainTypeOK /\ RunsTypeOK /\ BelowTip /\ ViewsStable

-----------------------------------------------------------------------------
(* The chain. *)

LEMMA BlockTypes ==
    /\ \A b \in Blocks : b.height \in Nat /\ b.fork \in Nat
                         /\ b.height <= MaxHeight /\ b.fork <= MaxFork /\ b.height > 0
                         /\ b = [height |-> b.height, fork |-> b.fork]
    /\ NoBlock.height = 0
    /\ NoBlock \notin Blocks
    /\ \A h, f \in Nat : h > 0 /\ h <= MaxHeight /\ f <= MaxFork
                            => [height |-> h, fork |-> f] \in Blocks
  BY BoundAssumption DEF Blocks, NoBlock

LEMMA ObservationTypes ==
    ASSUME NEW i \in Blocks \cup {NoBlock}, NEW t \in Blocks, NEW m \in BOOLEAN
    PROVE  ObservationOf(i, m, t) \in Observation
  <1> DEFINE s == ObservationOf(i, m, t).status
  <1>1. s \in ObservationStatus
    BY BlockTypes, BoundAssumption, Zenon DEF ObservationOf, ObservationStatus
  <1>2. ObservationOf(i, m, t) = [status |-> s, inclusion |-> i, tip |-> t]
    BY DEF ObservationOf
  <1> HIDE DEF s
  <1> QED BY <1>1, <1>2 DEF Observation

\* A stable read is one of the observations the journal is checked with.
LEMMA ViewStable ==
    ASSUME ChainTypeOK, BelowTip, NEW c \in Candidates
    PROVE  View(c) \in StableObservations
  <1>1. included[c] \in Blocks \cup {NoBlock} /\ tip \in Blocks
    BY Zenon DEF ChainTypeOK
  <1> DEFINE m == c \in pool
  <1>m. m \in BOOLEAN /\ View(c) = ObservationOf(included[c], m, tip)
    BY DEF View
  <1>3. View(c).inclusion = included[c] /\ View(c).tip = tip
    BY Zenon DEF View, ObservationOf
  <1> HIDE DEF m
  <1>2. View(c) \in Observation
    BY <1>1, <1>m, ObservationTypes, Zenon
  <1>4. View(c).inclusion.height <= View(c).tip.height
    BY <1>3, Zenon DEF BelowTip
  <1>5. \E n \in BOOLEAN : View(c) = ObservationOf(View(c).inclusion, n, View(c).tip)
    BY <1>3, <1>m, Zenon
  <1> QED BY <1>2, <1>4, <1>5, Zenon DEF StableObservations

LEMMA ChainStep ==
    ASSUME ChainTypeOK, BelowTip, ChainNext
    PROVE  ChainTypeOK' /\ BelowTip' /\ UNCHANGED broadcasts
  <1> USE BlockTypes, BoundAssumption
  <1>1. tip \in Blocks /\ included \in [Candidates -> Blocks \cup {NoBlock}]
        /\ tip.height \in Nat /\ tip.fork \in Nat
    BY Zenon DEF ChainTypeOK
  <1>2. ASSUME NEW S \in SUBSET Candidates, Mine(S)
        PROVE  ChainTypeOK' /\ BelowTip' /\ UNCHANGED broadcasts
    <2> DEFINE next == [tip EXCEPT !.height = tip.height + 1]
    <2>1. next = [height |-> tip.height + 1, fork |-> tip.fork] /\ next \in Blocks
      BY <1>1, <1>2 DEF Mine
    <2>2. /\ tip' = next
          /\ included' = Place(S, next, {c \in Candidates : included[c] # NoBlock})
          /\ pool' = pool \ S /\ UNCHANGED broadcasts
      BY <1>2, Zenon DEF Mine
    <2> HIDE DEF next
    <2>3. ChainTypeOK'
      BY <1>1, <2>1, <2>2, Zenon DEF ChainTypeOK, Place
    <2>4. ASSUME NEW c \in Candidates PROVE included'[c].height <= tip'.height
      <3>1. included'[c] = next \/ included'[c] = included[c] \/ included'[c] = NoBlock
        BY <2>2, Zenon DEF Place
      <3>2. included[c].height <= tip.height /\ included[c].height \in Nat
        BY <1>1 DEF BelowTip
      <3>3. tip'.height = tip.height + 1 /\ next.height = tip.height + 1
        BY <2>1, <2>2, Zenon
      <3> QED BY <1>1, <3>1, <3>2, <3>3
    <2> QED BY <2>2, <2>3, <2>4, Zenon DEF BelowTip
  <1>3. ASSUME NEW depth \in 1..MaxReorgDepth, NEW h \in 1..(tip.height + 1),
               NEW S \in SUBSET Candidates, Reorg(depth, h, S)
        PROVE  ChainTypeOK' /\ BelowTip' /\ UNCHANGED broadcasts
    <2> DEFINE kept == {c \in Candidates : included[c] # NoBlock
                                           /\ included[c].height <= tip.height - depth}
               b == [height |-> h, fork |-> tip.fork + 1]
               next == [height |-> tip.height + 1, fork |-> tip.fork + 1]
    <2>1. b \in Blocks /\ next \in Blocks
      BY <1>1, <1>3 DEF Reorg
    <2>2. /\ tip' = next
          /\ included' = Place(S, b, kept)
          /\ pool' = (pool \cup {c \in Candidates : included[c] # NoBlock /\ c \notin kept}) \ S
          /\ UNCHANGED broadcasts
      BY <1>3, Zenon DEF Reorg
    <2>3. b.height = h /\ next.height = tip.height + 1
      BY Zenon
    <2> HIDE DEF b, next, kept
    <2>4. ChainTypeOK'
      BY <1>1, <2>1, <2>2, Zenon DEF ChainTypeOK, Place
    <2>5. ASSUME NEW c \in Candidates PROVE included'[c].height <= tip'.height
      <3>1. included'[c] = b \/ included'[c] = included[c] \/ included'[c] = NoBlock
        BY <2>2, Zenon DEF Place
      <3>2. included[c].height <= tip.height /\ included[c].height \in Nat
        BY <1>1 DEF BelowTip
      <3> QED BY <1>1, <2>2, <2>3, <3>1, <3>2
    <2> QED BY <2>2, <2>4, <2>5, Zenon DEF BelowTip
  <1>4. ASSUME NEW c \in Candidates, EnterPool(c) \/ LeavePool(c)
        PROVE  ChainTypeOK' /\ BelowTip' /\ UNCHANGED broadcasts
    BY <1>4, Zenon DEF EnterPool, LeavePool, ChainTypeOK, BelowTip
  <1> QED BY <1>2, <1>3, <1>4, Zenon DEF ChainNext

-----------------------------------------------------------------------------
(* Every step is a step of the journals, or leaves the tables alone. *)

LEMMA RunTypes ==
    ASSUME RunsTypeOK, NEW e \in Executors, run[e].phase # "idle"
    PROVE  /\ Job(e) \in Reservations /\ run[e].phase \in Phases
           /\ run[e].view \in Observation \cup {NoObservation}
           /\ run[e] = [phase |-> run[e].phase, job |-> Job(e), view |-> run[e].view]
  BY DEF RunsTypeOK, Idle, Job

LEMMA MonitorTypes ==
    ASSUME RunsTypeOK, monitor # Idle
    PROVE  monitor.job \in Reservations /\ monitor.view \in Observation
  BY Zenon DEF RunsTypeOK

LEMMA StepRefinesJournals ==
    ASSUME ProcessInv, [Next]_vars
    PROVE  [JournalsNext]_tables
  <1> USE DEF JournalsNext
  <1>1. ASSUME NEW e \in Executors, Execute(e)
        PROVE  [JournalsNext]_tables
    <2>1. CASE UNCHANGED tables
      BY <2>1, Zenon
    <2>2. CASE RecordCheck(e)
      <3>1. CandidateOf[Job(e)] \in Candidates
        BY <2>2, RunTypes, CandidateTypes, Zenon DEF ProcessInv, RecordCheck, At
      <3> QED BY <2>2, <3>1, Zenon DEF RecordCheck, ExecutionNext
    <2>3. CASE Reserve(e)
      <3>1. Job(e) \in Reservations
        BY <2>3, RunTypes, Zenon DEF ProcessInv, Reserve, At
      <3> QED BY <2>3, <3>1, Zenon DEF Reserve, ExecutionNext
    <2>4. CASE ReserveTransport(e)
      <3>1. Job(e) \in Reservations
        BY <2>4, RunTypes, Zenon DEF ProcessInv, ReserveTransport, At
      <3> QED BY <2>4, <3>1, Zenon DEF ReserveTransport, ExecutionNext
    <2>5. ASSUME NEW d \in {"accepted", "rejected", "ambiguous"}, Finalize(e, d)
          PROVE  [JournalsNext]_tables
      <3>1. Job(e) \in Reservations
        BY <2>5, RunTypes, Zenon DEF ProcessInv, Finalize, At
      <3> QED BY <2>5, <3>1, Zenon DEF Finalize, ExecutionNext
    <2>6. CASE RecordConfirmation(e)
      <3>1. Job(e) \in Reservations
        BY <2>6, RunTypes, Zenon DEF ProcessInv, RecordConfirmation, At
      <3>2. run[e].view \in StableObservations
        BY <2>6, Zenon DEF ProcessInv, ViewsStable, RecordConfirmation
      <3> QED BY <2>6, <3>1, <3>2, Zenon DEF RecordConfirmation, ExecutionNext
    <2> QED
      BY <1>1, <2>1, <2>2, <2>3, <2>4, <2>5, <2>6, Zenon
      DEF Execute, Prepare, BeginHandoff, Submit, ObserveConfirmation, EndRun
  <1>2. ASSUME NEW r \in Reservations, Observe(r)
        PROVE  [JournalsNext]_tables
    BY <1>2, Zenon DEF Observe
  <1>3. CASE Reconcile
    <2>1. monitor.job \in Reservations /\ monitor.view \in StableObservations
      BY <1>3, MonitorTypes, Zenon DEF Reconcile, ProcessInv, ViewsStable
    <2> QED BY <1>3, <2>1, Zenon DEF Reconcile, ExecutionNext
  <1>4. CASE (PegOutNext \/ CandidateNext \/ AggregateNext) /\ UNCHANGED <<chain, processes>>
    BY <1>4, Zenon
  <1>5. CASE ChainNext /\ UNCHANGED <<tables, processes>>
    BY <1>5, Zenon
  <1>6. CASE UNCHANGED vars
    BY <1>6, Zenon DEF vars
  <1> QED BY <1>1, <1>2, <1>3, <1>4, <1>5, <1>6, Zenon DEF Next

-----------------------------------------------------------------------------
(* The processes. *)

\* A run that moves on keeps its types, and takes an observation only from the chain.
LEMMA RunStep ==
    ASSUME ProcessInv, NEW e \in Executors,
           NEW x \in [phase : Phases, job : Reservations,
                       view : Observation \cup {NoObservation}] \cup {Idle},
           x.phase = "observed" => x.view \in StableObservations,
           run' = [run EXCEPT ![e] = x], UNCHANGED monitor
    PROVE  RunsTypeOK' /\ ViewsStable'
  <1>1. \A f \in Executors : run'[f] = IF f = e THEN x ELSE run[f]
    BY Zenon DEF ProcessInv, RunsTypeOK
  <1>2. RunsTypeOK'
    BY Zenon DEF ProcessInv, RunsTypeOK
  <1>3. ViewsStable'
    BY <1>1, Zenon DEF ProcessInv, ViewsStable, At
  <1> QED BY <1>2, <1>3, Zenon

LEMMA GotoStep ==
    ASSUME ProcessInv, NEW e \in Executors, run[e].phase # "idle",
           NEW phase \in Phases \ {"observed"}, Goto(e, phase), UNCHANGED monitor
    PROVE  RunsTypeOK' /\ ViewsStable'
  <1> DEFINE x == [run[e] EXCEPT !.phase = phase]
  <1>1. /\ x \in [phase : Phases, job : Reservations, view : Observation \cup {NoObservation}]
        /\ x.phase = phase
    <2>1. /\ Job(e) \in Reservations /\ run[e].view \in Observation \cup {NoObservation}
          /\ run[e] = [phase |-> run[e].phase, job |-> Job(e), view |-> run[e].view]
      BY RunTypes, Zenon DEF ProcessInv
    <2>2. x = [phase |-> phase, job |-> Job(e), view |-> run[e].view]
      BY <2>1
    <2> QED BY <2>1, <2>2, Zenon
  <1>2. run' = [run EXCEPT ![e] = x]
    BY Zenon DEF Goto
  <1> HIDE DEF x
  <1> QED BY <1>1, <1>2, RunStep, Zenon

LEMMA IdleStep ==
    ASSUME ProcessInv, NEW e \in Executors, run' = [run EXCEPT ![e] = Idle], UNCHANGED monitor
    PROVE  RunsTypeOK' /\ ViewsStable'
  <1>1. Idle.phase = "idle"
    BY Zenon DEF Idle
  <1> QED BY <1>1, RunStep, Zenon

LEMMA ExecuteKeepsProcesses ==
    ASSUME ProcessInv, NEW e \in Executors, Execute(e)
    PROVE  ProcessInv'
  <1> USE DEF Phases
  <1>1. CASE \E r \in Reservations : Prepare(e, r)
    <2>1. PICK r \in Reservations : Prepare(e, r)
      BY <1>1, Zenon
    <2> DEFINE x == [phase |-> "preparing", job |-> r, view |-> NoObservation]
    <2>2. /\ x \in [phase : Phases, job : Reservations,
                     view : Observation \cup {NoObservation}]
          /\ x.phase # "observed"
      BY Zenon
    <2>3. run' = [run EXCEPT ![e] = x] /\ UNCHANGED <<chain, monitor>>
      BY <2>1, Zenon DEF Prepare
    <2> HIDE DEF x
    <2>4. RunsTypeOK' /\ ViewsStable'
      BY <2>2, <2>3, RunStep, Zenon
    <2> QED BY <2>3, <2>4, Zenon DEF ProcessInv, chain, ChainTypeOK, BelowTip
  <1>2. CASE RecordCheck(e) \/ Reserve(e) \/ BeginHandoff(e) \/ ReserveTransport(e)
    <2>1. /\ run[e].phase # "idle" /\ UNCHANGED <<chain, monitor>>
          /\ \E phase \in Phases \ {"observed"} : Goto(e, phase)
      BY <1>2, Zenon DEF RecordCheck, Reserve, BeginHandoff, ReserveTransport, At
    <2>2. RunsTypeOK' /\ ViewsStable'
      BY <2>1, GotoStep, Zenon
    <2> QED BY <2>1, <2>2, Zenon DEF ProcessInv, chain, ChainTypeOK, BelowTip
  <1>3. CASE Submit(e)
    <2>1. run[e].phase # "idle" /\ Goto(e, "sent") /\ UNCHANGED monitor
          /\ Broadcast(CandidateOf[Job(e)])
      BY <1>3, Zenon DEF Submit, At
    <2>2. RunsTypeOK' /\ ViewsStable'
      BY <2>1, GotoStep, Zenon
    <2>3. CandidateOf[Job(e)] \in Candidates
      BY <2>1, RunTypes, CandidateTypes, Zenon DEF ProcessInv
    <2>4. ChainTypeOK' /\ BelowTip'
      BY <2>1, <2>3 DEF ProcessInv, Broadcast, ChainTypeOK, BelowTip
    <2> QED BY <2>2, <2>4, Zenon DEF ProcessInv
  <1>4. CASE \E d \in {"accepted", "rejected", "ambiguous"} : Finalize(e, d)
    <2>1. /\ run[e].phase # "idle" /\ UNCHANGED <<chain, monitor>>
          /\ Goto(e, "accepted") \/ run' = [run EXCEPT ![e] = Idle]
      BY <1>4, Zenon DEF Finalize, At
    <2>2. RunsTypeOK' /\ ViewsStable'
      BY <2>1, GotoStep, IdleStep, Zenon
    <2> QED BY <2>1, <2>2, Zenon DEF ProcessInv, chain, ChainTypeOK, BelowTip
  <1>5. CASE ObserveConfirmation(e)
    <2> DEFINE c == CandidateOf[Job(e)]
               x == [run[e] EXCEPT !.phase = "observed", !.view = View(c)]
    <2>1. /\ run[e].phase # "idle" /\ UNCHANGED <<chain, monitor>>
          /\ run' = [run EXCEPT ![e] = x]
      BY <1>5, Zenon DEF ObserveConfirmation, At
    <2>2. Job(e) \in Reservations /\ c \in Candidates
      BY <2>1, RunTypes, CandidateTypes, Zenon DEF ProcessInv
    <2>3. View(c) \in StableObservations /\ View(c) \in Observation
      BY <2>2, ViewStable, Zenon DEF ProcessInv, StableObservations
    <2>4. /\ x \in [phase : Phases, job : Reservations,
                     view : Observation \cup {NoObservation}]
          /\ x.view = View(c)
      <3> HIDE DEF c
      <3>1. run[e] \in [phase : Phases, job : Reservations,
                        view : Observation \cup {NoObservation}]
        BY <2>1 DEF ProcessInv, RunsTypeOK, Idle
      <3> DEFINE w == View(c)
                 y == [run[e] EXCEPT !.phase = "observed", !.view = w]
      <3>2. w \in Observation
        BY <2>3, Zenon
      <3> HIDE DEF w
      <3>4. /\ y \in [phase : Phases, job : Reservations,
                       view : Observation \cup {NoObservation}]
            /\ y.view = w
        BY <3>1, <3>2, Zenon
      <3> QED BY <3>4, Zenon DEF w
    <2> HIDE DEF x, c
    <2>5. RunsTypeOK' /\ ViewsStable'
      BY <2>1, <2>3, <2>4, RunStep, Zenon
    <2> QED BY <2>1, <2>5, Zenon DEF ProcessInv, chain, ChainTypeOK, BelowTip
  <1>6. CASE RecordConfirmation(e) \/ EndRun(e)
    <2>1. run' = [run EXCEPT ![e] = Idle] /\ UNCHANGED <<chain, monitor>>
      BY <1>6, Zenon DEF RecordConfirmation, EndRun
    <2>2. RunsTypeOK' /\ ViewsStable'
      BY <2>1, IdleStep, Zenon
    <2> QED BY <2>1, <2>2, Zenon DEF ProcessInv, chain, ChainTypeOK, BelowTip
  <1> QED BY <1>1, <1>2, <1>3, <1>4, <1>5, <1>6, Zenon DEF Execute

LEMMA ProcessInvStep == ProcessInv /\ [Next]_vars => ProcessInv'
  <1> SUFFICES ASSUME ProcessInv, [Next]_vars PROVE ProcessInv'
    BY Zenon
  <1>1. CASE \E e \in Executors : Execute(e)
    BY <1>1, ExecuteKeepsProcesses, Zenon
  <1>2. CASE \E r \in Reservations : Observe(r)
    <2>1. PICK r \in Reservations : Observe(r)
      BY <1>2, Zenon
    <2>2. CandidateOf[r] \in Candidates
      BY CandidateTypes, Zenon
    <2> DEFINE v == View(CandidateOf[r])
    <2>3. v \in StableObservations /\ v \in Observation
      BY <2>2, ViewStable, Zenon DEF ProcessInv, StableObservations
    <2>4. monitor' = [phase |-> "observed", job |-> r, view |-> v]
          /\ UNCHANGED <<chain, run>>
      BY <2>1, Zenon DEF Observe
    <2> HIDE DEF v
    <2>5. RunsTypeOK'
      BY <2>3, <2>4, Zenon DEF ProcessInv, RunsTypeOK
    <2>6. ViewsStable'
      BY <2>3, <2>4, Zenon DEF ProcessInv, ViewsStable, At
    <2> QED BY <2>4, <2>5, <2>6, Zenon DEF ProcessInv, chain, ChainTypeOK, BelowTip
  <1>3. CASE Reconcile
    BY <1>3, Zenon DEF Reconcile, ProcessInv, chain, ChainTypeOK, BelowTip, RunsTypeOK, ViewsStable, At
  <1>4. CASE ChainNext /\ UNCHANGED <<tables, processes>>
    <2>1. RunsTypeOK' /\ ViewsStable'
      BY <1>4, Zenon DEF ProcessInv, processes, RunsTypeOK, ViewsStable, At
    <2> QED BY <1>4, <2>1, ChainStep, Zenon DEF ProcessInv
  <1>5. CASE UNCHANGED <<chain, processes>>
    BY <1>5, Zenon DEF chain, processes, ProcessInv, ChainTypeOK, BelowTip, RunsTypeOK, ViewsStable, At
  <1> QED BY <1>1, <1>2, <1>3, <1>4, <1>5, Zenon DEF Next, vars

LEMMA ProcessInvInit == Init => ProcessInv
  <1> SUFFICES ASSUME Init PROVE ProcessInv
    BY Zenon
  <1>1. tip \in Blocks
    BY BoundAssumption DEF Init, ChainInit, Blocks
  <1> QED BY <1>1 DEF Init, ChainInit, ProcessInv, ChainTypeOK, BelowTip, RunsTypeOK,
                      ViewsStable, Idle, At, NoBlock

\* Runs of the lifecycle, reconciliation and the daemon, interleaved in any way,
\* take the tables only through steps of the journals: what is proved of the
\* journals holds of the whole.
THEOREM ExecutionImplementsJournals == Spec => ImplementsJournals
  <1>1. Init => TablesInit
    BY Zenon DEF Init
  <1>2. ProcessInv /\ [Next]_vars => [JournalsNext]_tables
    BY StepRefinesJournals, Zenon
  <1> QED BY <1>1, <1>2, ProcessInvInit, ProcessInvStep, PTL
          DEF Spec, ImplementsJournals, JournalsSpec

\* The invariants of the journals hold while executions run.
THEOREM ExecutionKeepsJournalInv == Spec => []JournalInv
  BY ExecutionImplementsJournals, JournalCorrect, PTL DEF ImplementsJournals

-----------------------------------------------------------------------------
(* A payout is claimed first, and broadcast once. *)

\* What is broadcast is claimed; a run about to broadcast holds a claim nobody
\* has broadcast, and is the only one to hold it.
ClaimInv ==
    /\ \A c \in Candidates : broadcasts[c] # 0 => c \in Claimed
    /\ \A e \in Executors : At(e, "journaled") =>
          attempt[Job(e)].status # "absent" /\ broadcasts[CandidateOf[Job(e)]] = 0
    /\ \A e, f \in Executors :
          At(e, "journaled") /\ At(f, "journaled")
              /\ CandidateOf[Job(e)] = CandidateOf[Job(f)] => e = f

\* No attempt appears or disappears.
SameAttempts ==
    \A r \in Reservations : attempt'[r].status = "absent" <=> attempt[r].status = "absent"

LEMMA RevokingStepKeepsAttempts ==
    ASSUME TypeOK, \E R \in SUBSET Reservations : RevokingStep(R)
    PROVE  SameAttempts
  BY RevokeEffect DEF RevokingStep, SameAttempts

\* Only reserveAuthenticatedSettlementTransportAttempt adds an attempt.
LEMMA OthersKeepAttempts ==
    ASSUME JournalInv,
           \/ PegOutNext \/ CandidateNext \/ AggregateNext
           \/ \E c \in Candidates : MarkCandidateCheckPassed(c)
           \/ \E r \in Reservations :
                 \/ ReserveExecution(r)
                 \/ \E d \in {"accepted", "rejected", "ambiguous"} : FinalizeAttempt(r, d)
                 \/ \E o \in Observation : RecordObservation(r, o)
           \/ UNCHANGED tables
    PROVE  SameAttempts
  <1>0. TypeOK
    BY Zenon DEF JournalInv
  <1>1. CASE PegOutNext
    BY <1>0, <1>1, PegOutOperationsRevoke, RevokingStepKeepsAttempts, Zenon DEF PegOutNext
  <1>2. CASE CandidateNext \/ \E c \in Candidates : MarkCandidateCheckPassed(c)
    <2>1. ASSUME NEW c \in Candidates,
                 \/ RecordCandidate(c)
                 \/ RecordRecoveredCandidate(c)
                 \/ MarkCandidateCheckPassed(c)
                 \/ InvalidateCandidate(c)
                 \/ InvalidateActiveCandidates
          PROVE  SameAttempts
      BY <1>0, <2>1, CandidateOperationsRevoke, RevokingStepKeepsAttempts, Zenon
    <2>2. CASE InvalidateActiveCandidates
      <3>1. PICK c \in Candidates : ActiveCandidate(c)
        BY <2>2, Zenon DEF InvalidateActiveCandidates
      <3> QED BY <2>1, <2>2, <3>1, Zenon
    <2> QED BY <1>2, <2>1, <2>2, Zenon DEF CandidateNext
  <1>3. CASE AggregateNext
    BY <1>0, <1>3, AggregateOperationsRevoke, RevokingStepKeepsAttempts, Zenon
  <1>4. ASSUME NEW r \in Reservations, NEW a, a.status # "absent", attempt[r].status # "absent",
               attempt' = [attempt EXCEPT ![r] = a]
        PROVE  SameAttempts
    BY <1>0, <1>4, Zenon DEF TypeOK, TablesTypeOK, SameAttempts
  <1>5. ASSUME NEW r \in Reservations,
               NEW d \in {"accepted", "rejected", "ambiguous"}, FinalizeAttempt(r, d)
        PROVE  SameAttempts
    <2> DEFINE s == CASE d = "accepted" -> "submitted"
                      [] d = "rejected" -> "rejected"
                      [] d = "ambiguous" -> "pending"
               a == [attempt[r] EXCEPT !.disposition = d, !.status = s]
    <2> HIDE DEF s, a
    <2>0. attempt[r] \in Attempt \cup {NoAttempt} /\ attempt[r].status = "pending"
      BY <1>0, <1>5, Zenon DEF TypeOK, TablesTypeOK, FinalizeAttempt
    <2>1. attempt[r] \in Attempt /\ attempt[r].status # "absent"
      BY <2>0 DEF NoAttempt
    <2> USE DEF s, a
    <2>2. s # "absent"
      BY Zenon
    <2>3. attempt' = [attempt EXCEPT ![r] = a]
      BY <1>5, Zenon DEF FinalizeAttempt
    <2> HIDE DEF s
    <2>4. a.status # "absent"
      BY <2>1, <2>2, Zenon DEF Attempt
    <2> HIDE DEF a
    <2> QED BY <1>4, <2>1, <2>3, <2>4, Zenon
  <1>6. ASSUME NEW r \in Reservations, NEW o \in Observation, RecordObservation(r, o)
        PROVE  SameAttempts
    <2>1. attempt[r].status # "absent" /\ attempt' = [attempt EXCEPT ![r] = Observed(r, o)]
      BY <1>6, Zenon DEF RecordObservation, MayRecordObservation
    <2>2. Observed(r, o).status # "absent"
      BY <1>6, ObservedValid, Zenon DEF Valid, Attempt
    <2> QED BY <1>4, <2>1, <2>2, Zenon
  <1>7. CASE UNCHANGED attempt
    BY <1>7, Zenon DEF SameAttempts
  <1> QED BY <1>1, <1>2, <1>3, <1>5, <1>6, <1>7, Zenon DEF ReserveExecution, tables

LEMMA ClaimedKept ==
    ASSUME SameAttempts
    PROVE  Claimed' = Claimed
  BY Zenon DEF SameAttempts, Claimed

\* No run reaches "journaled", nothing is claimed and nothing is broadcast.
Quiet ==
    /\ SameAttempts
    /\ UNCHANGED broadcasts
    /\ \A e \in Executors : run'[e].phase = "journaled" => run'[e] = run[e]

LEMMA QuietStep ==
    ASSUME ProcessInv, ClaimInv, Quiet
    PROVE  ClaimInv' /\ UNCHANGED Payout!vars
  <1>1. Claimed' = Claimed
    BY ClaimedKept, Zenon DEF Quiet
  <1>2. \A e \in Executors : run'[e].phase = "journaled" =>
           /\ run[e].phase = "journaled" /\ run'[e].job = run[e].job
           /\ run[e].job \in Reservations
    BY RunTypes, Zenon DEF ProcessInv, Quiet, Job
  <1>3. ClaimInv'
    BY <1>1, <1>2 DEF ClaimInv, Quiet, SameAttempts, At, Job
  <1> QED BY <1>1, <1>3, Zenon DEF Quiet, Payout!vars

\* A run that moves anywhere but to "journaled".
LEMMA QuietMove ==
    ASSUME ProcessInv, NEW e \in Executors, NEW x, x.phase # "journaled",
           run' = [run EXCEPT ![e] = x], SameAttempts, UNCHANGED broadcasts
    PROVE  Quiet
  <1>1. \A f \in Executors : run'[f] = IF f = e THEN x ELSE run[f]
    BY Zenon DEF ProcessInv, RunsTypeOK
  <1> QED BY <1>1, Zenon DEF Quiet

LEMMA QuietGoto ==
    ASSUME ProcessInv, NEW e \in Executors, run[e].phase # "idle", NEW phase,
           phase # "journaled", Goto(e, phase), SameAttempts, UNCHANGED broadcasts
    PROVE  Quiet
  <1>1. run[e] = [phase |-> run[e].phase, job |-> Job(e), view |-> run[e].view]
    BY RunTypes, Zenon DEF ProcessInv
  <1> DEFINE x == [run[e] EXCEPT !.phase = phase]
  <1>2. x.phase = phase /\ run' = [run EXCEPT ![e] = x]
    BY <1>1, Zenon DEF Goto
  <1> HIDE DEF x
  <1> QED BY <1>2, QuietMove, Zenon

\* The attempt is written: a claim.
LEMMA ReserveTransportClaims ==
    ASSUME JournalInv, ProcessInv, ClaimInv, NEW e \in Executors, ReserveTransport(e)
    PROVE  ClaimInv' /\ Payout!Next
  <1> DEFINE r == Job(e)
             c == CandidateOf[r]
  <1>1. /\ r \in Reservations /\ c \in Candidates
        /\ run[e] = [phase |-> run[e].phase, job |-> r, view |-> run[e].view]
    BY RunTypes, CandidateTypes, Zenon DEF ProcessInv, ReserveTransport, At
  <1>2. /\ \A q \in Reservations : attempt[q].status # "absent" => ~Compete(CandidateOf[q], c)
        /\ attempt' = [attempt EXCEPT ![r] = [NoAttempt EXCEPT !.status = "pending"]]
        /\ Goto(e, "journaled") /\ UNCHANGED broadcasts
    BY Zenon DEF ReserveTransport, ReserveTransportAttempt, NoPriorAttempt, chain
  <1>3. \A q \in Reservations : attempt'[q].status # "absent" <=>
                                  (attempt[q].status # "absent" \/ q = r)
    BY <1>1, <1>2, Zenon DEF JournalInv, TypeOK, TablesTypeOK, NoAttempt
  <1>4. \A f \in Executors : run'[f].phase = "journaled" =>
           \/ f = e /\ run'[f].job = r
           \/ f # e /\ run[f].phase = "journaled" /\ run'[f].job = run[f].job
              /\ run[f].job \in Reservations
    <2>1. run'[e] = [phase |-> "journaled", job |-> r, view |-> run[e].view]
      BY <1>1, <1>2 DEF Goto, ProcessInv, RunsTypeOK
    <2>2. \A f \in Executors : f # e => run'[f] = run[f]
      BY <1>2, Zenon DEF Goto, ProcessInv, RunsTypeOK
    <2>3. \A f \in Executors : run[f].phase = "journaled" => run[f].job \in Reservations
      BY RunTypes, Zenon DEF ProcessInv, Job
    <2> HIDE DEF c, r
    <2> QED BY <2>1, <2>2, <2>3
  <1> HIDE DEF c, r
  <1>5. Claimed' = Claimed \cup {c}
    BY <1>1, <1>3, Zenon DEF Claimed, c
  <1>6. \A d \in Claimed : d \in Candidates /\ ~Compete(d, c)
    BY <1>2, CandidateTypes, Zenon DEF Claimed
  <1>7. broadcasts[c] = 0
    BY <1>1, <1>6, Zenon DEF ClaimInv, Compete
  <1>8. \A f \in Executors : At(f, "journaled") => CandidateOf[Job(f)] # c
    <2> SUFFICES ASSUME NEW f \in Executors, At(f, "journaled") PROVE CandidateOf[Job(f)] # c
      BY Zenon
    <2>1. Job(f) \in Reservations /\ attempt[Job(f)].status # "absent"
      BY RunTypes, Zenon DEF ProcessInv, ClaimInv, At
    <2> QED BY <1>2, <2>1, Zenon DEF Compete
  <1>9. ClaimInv'
    <2>1. \A d \in Candidates : broadcasts'[d] # 0 => d \in Claimed'
      BY <1>2, <1>5, Zenon DEF ClaimInv
    <2>2. \A f \in Executors : run'[f].phase = "journaled" =>
             attempt'[run'[f].job].status # "absent" /\ broadcasts'[CandidateOf[run'[f].job]] = 0
      BY <1>1, <1>2, <1>3, <1>4, <1>7, Zenon DEF ClaimInv, At, Job, c
    <2>3. \A f, g \in Executors :
             run'[f].phase = "journaled" /\ run'[g].phase = "journaled"
                 /\ CandidateOf[run'[f].job] = CandidateOf[run'[g].job] => f = g
      BY <1>4, <1>8 DEF ClaimInv, At, Job, c
    <2> QED BY <2>1, <2>2, <2>3, Zenon DEF ClaimInv, At, Job
  <1>10. Payout!Claim(c)
    BY <1>2, <1>5, <1>6, Zenon DEF Payout!Claim
  <1> QED BY <1>1, <1>9, <1>10, Zenon DEF Payout!Next

\* The transaction is handed over: a broadcast of a claim nobody has broadcast.
LEMMA SubmitSends ==
    ASSUME JournalInv, ProcessInv, ClaimInv, NEW e \in Executors, Submit(e)
    PROVE  ClaimInv' /\ Payout!Next
  <1> DEFINE r == Job(e)
             c == CandidateOf[r]
  <1>1. /\ r \in Reservations /\ c \in Candidates
        /\ run[e] = [phase |-> run[e].phase, job |-> r, view |-> run[e].view]
    BY RunTypes, CandidateTypes, Zenon DEF ProcessInv, Submit, At
  <1>2. /\ attempt[r].status # "absent" /\ broadcasts[c] = 0
        /\ broadcasts' = [broadcasts EXCEPT ![c] = broadcasts[c] + 1]
        /\ Goto(e, "sent") /\ UNCHANGED attempt
    BY Zenon DEF Submit, Broadcast, ClaimInv, tables
  <1>3. c \in Claimed /\ Claimed' = Claimed
    BY <1>1, <1>2, Zenon DEF Claimed
  <1>4. \A f \in Executors : run'[f].phase = "journaled" =>
           /\ f # e /\ run[f].phase = "journaled" /\ run'[f].job = run[f].job
           /\ run[f].job \in Reservations
    <2>1. run'[e] = [phase |-> "sent", job |-> r, view |-> run[e].view]
      BY <1>1, <1>2 DEF Goto, ProcessInv, RunsTypeOK
    <2>2. \A f \in Executors : f # e => run'[f] = run[f]
      BY <1>2, Zenon DEF Goto, ProcessInv, RunsTypeOK
    <2>3. \A f \in Executors : run[f].phase = "journaled" => run[f].job \in Reservations
      BY RunTypes, Zenon DEF ProcessInv, Job
    <2> HIDE DEF c, r
    <2> QED BY <2>1, <2>2, <2>3
  <1>5. \A f \in Executors : At(f, "journaled") /\ f # e => CandidateOf[Job(f)] # c
    BY Zenon DEF ClaimInv, Submit
  <1>6. \A d \in Candidates : broadcasts'[d] = IF d = c THEN 1 ELSE broadcasts[d]
    BY <1>1, <1>2 DEF ProcessInv, ChainTypeOK
  <1> HIDE DEF c, r
  <1>7. ClaimInv'
    BY <1>2, <1>3, <1>4, <1>5, <1>6, CandidateTypes DEF ClaimInv, At, Job
  <1>8. Payout!Send(c)
    BY <1>2, <1>3 DEF Payout!Send
  <1> QED BY <1>1, <1>7, <1>8, Zenon DEF Payout!Next

\* Every other step of a run.
LEMMA RunIsQuiet ==
    ASSUME JournalInv, ProcessInv, NEW e \in Executors, Execute(e),
           ~ReserveTransport(e), ~Submit(e)
    PROVE  Quiet
  <1>0. UNCHANGED tables => SameAttempts
    BY Zenon DEF tables, SameAttempts
  <1>1. CASE \E r \in Reservations : Prepare(e, r)
    <2>1. PICK r \in Reservations : Prepare(e, r)
      BY <1>1, Zenon
    <2> DEFINE x == [phase |-> "preparing", job |-> r, view |-> NoObservation]
    <2>2. x.phase # "journaled"
      BY Zenon
    <2>3. run' = [run EXCEPT ![e] = x] /\ UNCHANGED <<tables, chain>>
      BY <2>1, Zenon DEF Prepare
    <2> HIDE DEF x
    <2> QED BY <1>0, <2>2, <2>3, QuietMove, Zenon DEF chain
  <1>2. CASE RecordCheck(e)
    <2>1. run[e].phase # "idle" /\ Goto(e, "checked") /\ UNCHANGED chain
          /\ (MarkCandidateCheckPassed(CandidateOf[Job(e)]) \/ UNCHANGED tables)
      BY <1>2, Zenon DEF RecordCheck, At
    <2>2. CandidateOf[Job(e)] \in Candidates
      BY <2>1, RunTypes, CandidateTypes, Zenon DEF ProcessInv
    <2>3. SameAttempts
      BY <2>1, <2>2, OthersKeepAttempts, Zenon
    <2> QED BY <2>1, <2>3, QuietGoto, Zenon DEF chain
  <1>3. CASE Reserve(e)
    <2>1. run[e].phase # "idle" /\ Goto(e, "reserved") /\ UNCHANGED chain
          /\ (ReserveExecution(Job(e)) \/ UNCHANGED tables)
      BY <1>3, Zenon DEF Reserve, At
    <2>2. Job(e) \in Reservations
      BY <2>1, RunTypes, Zenon DEF ProcessInv
    <2>3. SameAttempts
      BY <2>1, <2>2, OthersKeepAttempts, Zenon
    <2> QED BY <2>1, <2>3, QuietGoto, Zenon DEF chain
  <1>4. CASE BeginHandoff(e)
    <2>1. run[e].phase # "idle" /\ Goto(e, "revalidating") /\ UNCHANGED <<tables, chain>>
      BY <1>4, Zenon DEF BeginHandoff, At
    <2> QED BY <1>0, <2>1, QuietGoto, Zenon DEF chain
  <1>5. ASSUME NEW d \in {"accepted", "rejected", "ambiguous"}, Finalize(e, d)
        PROVE  Quiet
    <2>1. /\ run[e].phase # "idle" /\ FinalizeAttempt(Job(e), d) /\ UNCHANGED chain
          /\ Goto(e, "accepted") \/ run' = [run EXCEPT ![e] = Idle]
      BY <1>5, Zenon DEF Finalize, At
    <2>2. Job(e) \in Reservations
      BY <2>1, RunTypes, Zenon DEF ProcessInv
    <2>3. SameAttempts
      BY <2>1, <2>2, OthersKeepAttempts, Zenon
    <2>4. Idle.phase # "journaled"
      BY Zenon DEF Idle
    <2> QED BY <2>1, <2>3, <2>4, QuietGoto, QuietMove, Zenon DEF chain
  <1>6. CASE ObserveConfirmation(e)
    <2> DEFINE w == View(CandidateOf[Job(e)])
               x == [run[e] EXCEPT !.phase = "observed", !.view = w]
    <2>1. run[e].phase # "idle" /\ run' = [run EXCEPT ![e] = x] /\ UNCHANGED <<tables, chain>>
      BY <1>6, Zenon DEF ObserveConfirmation, At
    <2> HIDE DEF w
    <2>2. run[e] = [phase |-> run[e].phase, job |-> Job(e), view |-> run[e].view]
      BY <2>1, RunTypes, Zenon DEF ProcessInv
    <2>3. x.phase # "journaled"
      BY <2>2, Zenon
    <2> HIDE DEF x
    <2> QED BY <1>0, <2>1, <2>3, QuietMove, Zenon DEF chain
  <1>7. CASE RecordConfirmation(e)
    <2>1. run[e].phase = "observed" /\ RecordObservation(Job(e), run[e].view)
          /\ run' = [run EXCEPT ![e] = Idle] /\ UNCHANGED chain
      BY <1>7, Zenon DEF RecordConfirmation, At
    <2>2. Job(e) \in Reservations /\ run[e].view \in Observation
      BY <2>1, RunTypes, Zenon DEF ProcessInv, ViewsStable, StableObservations, At
    <2>3. SameAttempts
      BY <2>1, <2>2, OthersKeepAttempts, Zenon
    <2>4. Idle.phase # "journaled"
      BY Zenon DEF Idle
    <2> QED BY <2>1, <2>3, <2>4, QuietMove, Zenon DEF chain
  <1>8. CASE EndRun(e)
    <2>1. run' = [run EXCEPT ![e] = Idle] /\ UNCHANGED <<tables, chain>>
      BY <1>8, Zenon DEF EndRun
    <2>2. Idle.phase # "journaled"
      BY Zenon DEF Idle
    <2> QED BY <1>0, <2>1, <2>2, QuietMove, Zenon DEF chain
  <1> QED BY <1>1, <1>2, <1>3, <1>4, <1>5, <1>6, <1>7, <1>8, Zenon DEF Execute

LEMMA OthersAreQuiet ==
    ASSUME JournalInv, ProcessInv, [Next]_vars, ~(\E e \in Executors : Execute(e))
    PROVE  Quiet
  <1>0. UNCHANGED tables => SameAttempts
    BY Zenon DEF tables, SameAttempts
  <1>1. CASE \E r \in Reservations : Observe(r)
    BY <1>0, <1>1, Zenon DEF Observe, chain, Quiet
  <1>2. CASE Reconcile
    <2>1. /\ UNCHANGED <<chain, run>> /\ monitor # Idle
          /\ RecordObservation(monitor.job, monitor.view) \/ UNCHANGED tables
      BY <1>2, Zenon DEF Reconcile
    <2>2. monitor.job \in Reservations /\ monitor.view \in Observation
      BY <2>1, MonitorTypes, Zenon DEF ProcessInv
    <2>3. SameAttempts
      BY <2>1, <2>2, OthersKeepAttempts, Zenon
    <2> QED BY <2>1, <2>3, Zenon DEF Quiet, chain
  <1>3. CASE (PegOutNext \/ CandidateNext \/ AggregateNext) /\ UNCHANGED <<chain, processes>>
    <2>1. SameAttempts
      BY <1>3, OthersKeepAttempts, Zenon
    <2> QED BY <1>3, <2>1, Zenon DEF Quiet, chain, processes
  <1>4. CASE ChainNext /\ UNCHANGED <<tables, processes>>
    <2>1. UNCHANGED broadcasts
      BY <1>4, Zenon DEF ChainNext, Mine, Reorg, EnterPool, LeavePool
    <2> QED BY <1>0, <1>4, <2>1, Zenon DEF Quiet, processes
  <1>5. CASE UNCHANGED vars
    BY <1>0, <1>5, Zenon DEF vars, chain, processes, Quiet
  <1> QED BY <1>1, <1>2, <1>3, <1>4, <1>5, Zenon DEF Next

LEMMA ClaimInvInit == Init => ClaimInv
  BY DEF Init, ChainInit, ClaimInv, At, Idle

LEMMA PayoutInit == Init => Payout!Init
  <1> SUFFICES ASSUME Init PROVE Payout!Init
    BY Zenon
  <1>1. \A r \in Reservations : attempt[r].status = "absent"
    BY Zenon DEF Init, TablesInit, NoAttempt
  <1> QED BY <1>1, Zenon DEF Init, ChainInit, Payout!Init, Claimed

LEMMA PayoutStep ==
    ASSUME JournalInv, ProcessInv, ClaimInv, [Next]_vars
    PROVE  ClaimInv' /\ [Payout!Next]_(Payout!vars)
  <1>1. CASE \E e \in Executors : Execute(e)
    <2>1. PICK e \in Executors : Execute(e)
      BY <1>1, Zenon
    <2> QED BY <2>1, ReserveTransportClaims, SubmitSends, RunIsQuiet, QuietStep, Zenon
  <1>2. CASE ~(\E e \in Executors : Execute(e))
    BY <1>2, OthersAreQuiet, QuietStep, Zenon
  <1> QED BY <1>1, <1>2, Zenon

\* Whatever runs overlap, fail, crash or start over, a settlement transaction
\* reaches the network only after its durable attempt, at most once, and never
\* beside one that pays the same burn or spends the same DUP box or vault: the
\* order of reserveTransport and submit in executeReservedHandoff, with the
\* refusals of reserveAuthenticatedSettlementTransportAttempt.
THEOREM ExecutionImplementsPayoutOnce == Spec => ImplementsPayoutOnce
  <1>1. JournalInv /\ ProcessInv /\ ClaimInv /\ [Next]_vars
           => ClaimInv' /\ [Payout!Next]_(Payout!vars)
    BY PayoutStep, Zenon
  <1>2. Spec => []ProcessInv
    BY ProcessInvInit, ProcessInvStep, PTL DEF Spec
  <1> QED BY <1>1, <1>2, ClaimInvInit, PayoutInit, ExecutionKeepsJournalInv, PTL
          DEF Spec, ImplementsPayoutOnce, Payout!Spec

\* Tables, chain and processes keep their types in every interleaving.
THEOREM ExecutionTypeCorrect == Spec => []ExecutionTypeOK
  <1>1. JournalInv /\ ProcessInv => ExecutionTypeOK
    BY Zenon DEF JournalInv, ProcessInv, ExecutionTypeOK
  <1>2. Spec => []ProcessInv
    BY ProcessInvInit, ProcessInvStep, PTL DEF Spec
  <1> QED BY <1>1, <1>2, ExecutionKeepsJournalInv, PTL

-----------------------------------------------------------------------------
(* What stands behind a broadcast. *)

\* An attempt that nobody has answered or seen.
Fresh(a) ==
    a.status = "pending" /\ a.disposition = "none" /\ a.observation.status \in {"none", "absent"}

Unsent(c) == broadcasts[c] = 0

\* The network knows nothing of a transaction that was not handed to it, so
\* whatever was observed of it shows it absent, and nobody has its answer; as long
\* as its reservation stands, the attempt of a run about to broadcast is fresh.
HandoffInv ==
    /\ \A c \in Candidates : Unsent(c) => included[c] = NoBlock /\ c \notin pool
    /\ \A e \in Executors : At(e, "observed") /\ Unsent(CandidateOf[Job(e)]) =>
          run[e].view.status = "absent"
    /\ monitor # Idle /\ Unsent(CandidateOf[monitor.job]) => monitor.view.status = "absent"
    /\ \A e \in Executors : At(e, "sent") => ~Unsent(CandidateOf[Job(e)])
    /\ \A e \in Executors : At(e, "journaled") =>
          /\ reservation[Job(e)] # "absent"
          /\ reservation[Job(e)] = "active" => Fresh(attempt[Job(e)])

\* A step that opens no closed reservation and leaves the attempts of the active
\* ones alone.
AuthorityKept ==
    \A r \in Reservations : reservation[r] # "absent" =>
        /\ reservation'[r] # "absent"
        /\ reservation'[r] = "active" => reservation[r] = "active" /\ attempt'[r] = attempt[r]

LEMMA RevokingKeepsAuthority ==
    ASSUME TypeOK, \E R \in SUBSET Reservations : RevokingStep(R)
    PROVE  AuthorityKept
  BY RevokeEffect, Zenon DEF RevokingStep, AuthorityKept

LEMMA OthersKeepAuthority ==
    ASSUME JournalInv,
           \/ PegOutNext \/ CandidateNext \/ AggregateNext
           \/ \E c \in Candidates : MarkCandidateCheckPassed(c)
           \/ \E r \in Reservations : ReserveExecution(r)
           \/ UNCHANGED tables
    PROVE  AuthorityKept
  <1>0. TypeOK
    BY Zenon DEF JournalInv
  <1>1. CASE PegOutNext
    BY <1>0, <1>1, PegOutOperationsRevoke, RevokingKeepsAuthority, Zenon DEF PegOutNext
  <1>2. CASE CandidateNext \/ \E c \in Candidates : MarkCandidateCheckPassed(c)
    <2>1. ASSUME NEW c \in Candidates,
                 \/ RecordCandidate(c)
                 \/ RecordRecoveredCandidate(c)
                 \/ MarkCandidateCheckPassed(c)
                 \/ InvalidateCandidate(c)
                 \/ InvalidateActiveCandidates
          PROVE  AuthorityKept
      BY <1>0, <2>1, CandidateOperationsRevoke, RevokingKeepsAuthority, Zenon
    <2>2. CASE InvalidateActiveCandidates
      <3>1. PICK c \in Candidates : ActiveCandidate(c)
        BY <2>2, Zenon DEF InvalidateActiveCandidates
      <3> QED BY <2>1, <2>2, <3>1, Zenon
    <2> QED BY <1>2, <2>1, <2>2, Zenon DEF CandidateNext
  <1>3. CASE AggregateNext
    BY <1>0, <1>3, AggregateOperationsRevoke, RevokingKeepsAuthority, Zenon
  <1>4. CASE \E r \in Reservations : ReserveExecution(r)
    BY <1>0, <1>4, Zenon DEF ReserveExecution, TypeOK, TablesTypeOK, AuthorityKept
  <1>5. CASE UNCHANGED tables
    BY <1>5, Zenon DEF tables, AuthorityKept
  <1> QED BY <1>1, <1>2, <1>3, <1>4, <1>5, Zenon

\* What a chain that knows nothing of a transaction shows of it.
LEMMA UnsentAbsent ==
    ASSUME ProcessInv, HandoffInv, NEW c \in Candidates, Unsent(c)
    PROVE  View(c).status = "absent"
  BY Zenon DEF HandoffInv, View, ObservationOf

\* A step of the network keeps what was not handed over unknown.
LEMMA ChainKeepsUnsent ==
    ASSUME ProcessInv, HandoffInv, ChainNext
    PROVE  \A c \in Candidates : Unsent(c)' => included'[c] = NoBlock /\ c \notin pool'
  <1> SUFFICES ASSUME NEW c \in Candidates, broadcasts'[c] = 0
               PROVE  included'[c] = NoBlock /\ c \notin pool'
    BY Zenon DEF Unsent
  <1>1. UNCHANGED broadcasts
    BY ChainStep, Zenon DEF ProcessInv
  <1>2. Unsent(c) /\ ~Known(c) /\ included[c] = NoBlock /\ c \notin pool
    BY <1>1 DEF HandoffInv, Unsent, Known
  <1>3. ASSUME NEW S \in SUBSET Candidates, Mine(S)
        PROVE  included'[c] = NoBlock /\ c \notin pool'
    BY <1>2, <1>3, Zenon DEF Mine, Place
  <1>4. ASSUME NEW depth \in 1..MaxReorgDepth, NEW h \in 1..(tip.height + 1),
               NEW S \in SUBSET Candidates, Reorg(depth, h, S)
        PROVE  included'[c] = NoBlock /\ c \notin pool'
    <2> DEFINE kept == {d \in Candidates : included[d] # NoBlock
                                           /\ included[d].height <= tip.height - depth}
               b == [height |-> h, fork |-> tip.fork + 1]
    <2>1. /\ \A d \in S : Known(d)
          /\ included' = Place(S, b, kept)
          /\ pool' = (pool \cup {d \in Candidates : included[d] # NoBlock /\ d \notin kept}) \ S
      BY <1>4, Zenon DEF Reorg
    <2>2. c \notin S /\ c \notin kept
      BY <1>2, <2>1, Zenon
    <2> HIDE DEF b, kept
    <2> QED BY <1>2, <2>1, <2>2, Zenon DEF Place
  <1>5. ASSUME NEW d \in Candidates, EnterPool(d) \/ LeavePool(d)
        PROVE  included'[c] = NoBlock /\ c \notin pool'
    BY <1>2, <1>5, Zenon DEF EnterPool, LeavePool
  <1> QED BY <1>3, <1>4, <1>5, Zenon DEF ChainNext

\* A step that changes neither the network nor any other run's part.
LEMMA MoveKeepsHandoff ==
    ASSUME JournalInv, ProcessInv, ClaimInv, HandoffInv, UNCHANGED <<chain, monitor>>,
           NEW e \in Executors, NEW x, run' = [run EXCEPT ![e] = x],
           x.phase = "observed" /\ Unsent(CandidateOf[x.job]) => x.view.status = "absent",
           x.phase = "sent" => ~Unsent(CandidateOf[x.job]),
           x.phase = "journaled" => /\ reservation'[x.job] # "absent"
                                    /\ reservation'[x.job] = "active" => Fresh(attempt'[x.job]),
           \A f \in Executors \ {e} : At(f, "journaled") =>
              /\ reservation'[Job(f)] # "absent"
              /\ reservation'[Job(f)] = "active" => Fresh(attempt'[Job(f)])
    PROVE  HandoffInv'
  <1>1. \A f \in Executors : run'[f] = IF f = e THEN x ELSE run[f]
    BY Zenon DEF ProcessInv, RunsTypeOK
  <1>2. UNCHANGED <<tip, included, pool, broadcasts, monitor>>
    BY Zenon DEF chain
  <1>3. \A f \in Executors : run'[f].phase = "observed" /\ broadcasts'[CandidateOf[run'[f].job]] = 0
           => run'[f].view.status = "absent"
    BY <1>1, <1>2 DEF HandoffInv, At, Job, Unsent
  <1>4. \A f \in Executors : run'[f].phase = "sent" => broadcasts'[CandidateOf[run'[f].job]] # 0
    BY <1>1, <1>2 DEF HandoffInv, At, Job, Unsent
  <1>5. \A f \in Executors : run'[f].phase = "journaled" =>
           /\ reservation'[run'[f].job] # "absent"
           /\ reservation'[run'[f].job] = "active" => Fresh(attempt'[run'[f].job])
    BY <1>1, Zenon DEF At, Job
  <1> QED BY <1>2, <1>3, <1>4, <1>5 DEF HandoffInv, At, Job, Unsent, Fresh

\* Runs about to broadcast keep what they hold while AuthorityKept.
LEMMA FreshKept ==
    ASSUME ProcessInv, HandoffInv, AuthorityKept
    PROVE  \A f \in Executors : At(f, "journaled") =>
              /\ reservation'[Job(f)] # "absent"
              /\ reservation'[Job(f)] = "active" => Fresh(attempt'[Job(f)])
  <1>1. \A f \in Executors : At(f, "journaled") => Job(f) \in Reservations
    BY RunTypes, Zenon DEF ProcessInv, At
  <1> QED BY <1>1, Zenon DEF HandoffInv, AuthorityKept

\* Recording an observation takes nothing from a run about to broadcast: of a
\* transaction that was not handed over it only records the absence.
LEMMA FreshObserved ==
    ASSUME JournalInv, ProcessInv, ClaimInv, HandoffInv,
           NEW r \in Reservations, NEW o \in Observation, RecordObservation(r, o),
           Unsent(CandidateOf[r]) => o.status = "absent"
    PROVE  \A f \in Executors : At(f, "journaled") =>
              /\ reservation'[Job(f)] # "absent"
              /\ reservation'[Job(f)] = "active" => Fresh(attempt'[Job(f)])
  <1> SUFFICES ASSUME NEW f \in Executors, At(f, "journaled")
               PROVE  /\ reservation'[Job(f)] # "absent"
                      /\ reservation'[Job(f)] = "active" => Fresh(attempt'[Job(f)])
    BY Zenon
  <1>1. /\ Job(f) \in Reservations /\ Unsent(CandidateOf[Job(f)])
        /\ reservation[Job(f)] # "absent"
        /\ reservation[Job(f)] = "active" => Fresh(attempt[Job(f)])
    BY RunTypes, Zenon DEF ProcessInv, ClaimInv, HandoffInv, At, Unsent
  <1>2. /\ UNCHANGED reservation
        /\ attempt' = [attempt EXCEPT ![r] = Observed(r, o)]
        /\ attempt \in [Reservations -> Attempt \cup {NoAttempt}]
    BY Zenon DEF RecordObservation, JournalInv, TypeOK, TablesTypeOK
  <1>3. CASE Job(f) # r
    BY <1>1, <1>2, <1>3, Zenon
  <1>4. CASE Job(f) = r /\ reservation[r] # "active"
    BY <1>1, <1>2, <1>4, Zenon
  <1>5. CASE Job(f) = r /\ reservation[r] = "active"
    <2> DEFINE a == attempt[r]
    <2>1. o.status = "absent" /\ Fresh(a)
      BY <1>1, <1>5, Zenon
    <2>2. a \in Attempt
      BY <1>2, <2>1 DEF Fresh, NoAttempt
    <2>3. Observed(r, o) = [a EXCEPT !.observation = o]
      BY <1>5, <2>1, Zenon DEF Observed, Fresh
    <2>4. Fresh(Observed(r, o))
      BY <2>1, <2>2, <2>3, Zenon DEF Fresh, Attempt
    <2> QED BY <1>1, <1>2, <1>5, <2>4, Zenon
  <1> QED BY <1>3, <1>4, <1>5, Zenon

\* A run that changes its phase only.
LEMMA GotoKeepsHandoff ==
    ASSUME JournalInv, ProcessInv, ClaimInv, HandoffInv, UNCHANGED <<chain, monitor>>,
           NEW e \in Executors, run[e].phase # "idle", NEW phase, Goto(e, phase),
           phase \notin {"observed", "sent", "journaled"}, AuthorityKept
    PROVE  HandoffInv'
  <1>1. run[e] = [phase |-> run[e].phase, job |-> Job(e), view |-> run[e].view]
    BY RunTypes, Zenon DEF ProcessInv
  <1> DEFINE x == [run[e] EXCEPT !.phase = phase]
  <1>2. x.phase = phase /\ run' = [run EXCEPT ![e] = x]
    BY <1>1, Zenon DEF Goto
  <1> HIDE DEF x
  <1> QED BY <1>2, FreshKept, MoveKeepsHandoff, Zenon

LEMMA IdleKeepsHandoff ==
    ASSUME JournalInv, ProcessInv, ClaimInv, HandoffInv, UNCHANGED <<chain, monitor>>,
           NEW e \in Executors, run' = [run EXCEPT ![e] = Idle],
           \A f \in Executors \ {e} : At(f, "journaled") =>
              /\ reservation'[Job(f)] # "absent"
              /\ reservation'[Job(f)] = "active" => Fresh(attempt'[Job(f)])
    PROVE  HandoffInv'
  <1>1. Idle.phase = "idle"
    BY Zenon DEF Idle
  <1> QED BY <1>1, MoveKeepsHandoff, Zenon

LEMMA ReserveTransportKeepsHandoff ==
    ASSUME JournalInv, ProcessInv, ClaimInv, HandoffInv, NEW e \in Executors, ReserveTransport(e)
    PROVE  HandoffInv'
  <1> DEFINE r == Job(e)
             x == [run[e] EXCEPT !.phase = "journaled"]
             a == [NoAttempt EXCEPT !.status = "pending"]
  <1>1. /\ r \in Reservations
        /\ run[e] = [phase |-> run[e].phase, job |-> r, view |-> run[e].view]
    BY RunTypes, Zenon DEF ProcessInv, ReserveTransport, At
  <1>2. /\ \A q \in Reservations : attempt[q].status # "absent" => ~Compete(CandidateOf[q], CandidateOf[r])
        /\ attempt' = [attempt EXCEPT ![r] = a] /\ UNCHANGED reservation
        /\ reservation[r] = "active"
        /\ run' = [run EXCEPT ![e] = x] /\ UNCHANGED <<chain, monitor>>
    BY Zenon DEF ReserveTransport, ReserveTransportAttempt, NoPriorAttempt, CurrentAuthority, Goto
  <1>3. x.phase = "journaled" /\ x.job = r
    BY <1>1
  <1>4. Fresh(a)
    BY Zenon DEF NoAttempt, NoObservation, Fresh
  <1> HIDE DEF x, a
  <1>5. attempt'[r] = a /\ \A q \in Reservations \ {r} : attempt'[q] = attempt[q]
    BY <1>1, <1>2, Zenon DEF JournalInv, TypeOK, TablesTypeOK
  <1>6. \A f \in Executors \ {e} : At(f, "journaled") => Job(f) \in Reservations \ {r}
    BY <1>1, <1>2, RunTypes, Zenon DEF ProcessInv, ClaimInv, At, Compete
  <1>7. \A f \in Executors \ {e} : At(f, "journaled") =>
           /\ reservation'[Job(f)] # "absent"
           /\ reservation'[Job(f)] = "active" => Fresh(attempt'[Job(f)])
    BY <1>2, <1>5, <1>6, Zenon DEF HandoffInv
  <1> HIDE DEF r
  <1> QED BY <1>2, <1>3, <1>4, <1>5, <1>7, MoveKeepsHandoff, Zenon

LEMMA SubmitKeepsHandoff ==
    ASSUME JournalInv, ProcessInv, ClaimInv, HandoffInv, NEW e \in Executors, Submit(e)
    PROVE  HandoffInv'
  <1> DEFINE r == Job(e)
             c == CandidateOf[r]
             x == [run[e] EXCEPT !.phase = "sent"]
  <1>1. /\ r \in Reservations /\ c \in Candidates
        /\ run[e] = [phase |-> run[e].phase, job |-> r, view |-> run[e].view]
    BY RunTypes, CandidateTypes, Zenon DEF ProcessInv, Submit, At
  <1>2. /\ broadcasts' = [broadcasts EXCEPT ![c] = broadcasts[c] + 1]
        /\ UNCHANGED <<included, pool, tip, monitor, reservation, attempt>>
        /\ run' = [run EXCEPT ![e] = x]
    BY Zenon DEF Submit, Broadcast, tables, Goto
  <1>3. x.phase = "sent" /\ x.job = r
    BY <1>1
  <1> HIDE DEF x
  <1>4. /\ \A d \in Candidates : broadcasts'[d] = 0 => broadcasts[d] = 0 /\ d # c
        /\ broadcasts'[c] # 0
    BY <1>1, <1>2 DEF ProcessInv, ChainTypeOK
  <1>5. \A f \in Executors : run'[f] = IF f = e THEN x ELSE run[f]
    BY <1>2, Zenon DEF ProcessInv, RunsTypeOK
  <1>6. \A f \in Executors : run[f].phase # "idle" => CandidateOf[run[f].job] \in Candidates
    BY RunTypes, CandidateTypes, Zenon DEF ProcessInv, Job
  <1>7. monitor # Idle => CandidateOf[monitor.job] \in Candidates
    BY MonitorTypes, CandidateTypes, Zenon DEF ProcessInv
  <1> HIDE DEF c, r
  <1>8. \A d \in Candidates : broadcasts'[d] = 0 => included'[d] = NoBlock /\ d \notin pool'
    BY <1>2, <1>4, Zenon DEF HandoffInv, Unsent
  <1>9. \A f \in Executors : run'[f].phase = "observed" /\ broadcasts'[CandidateOf[run'[f].job]] = 0
           => run'[f].view.status = "absent"
    BY <1>3, <1>4, <1>5, <1>6 DEF HandoffInv, At, Job, Unsent
  <1>10. \A f \in Executors : run'[f].phase = "sent" => broadcasts'[CandidateOf[run'[f].job]] # 0
    BY <1>3, <1>4, <1>5, <1>6 DEF HandoffInv, At, Job, Unsent, c
  <1>11. monitor' # Idle /\ broadcasts'[CandidateOf[monitor'.job]] = 0 => monitor'.view.status = "absent"
    BY <1>2, <1>4, <1>7, Zenon DEF HandoffInv, Unsent
  <1>12. \A f \in Executors : run'[f].phase = "journaled" =>
           /\ reservation'[run'[f].job] # "absent"
           /\ reservation'[run'[f].job] = "active" => Fresh(attempt'[run'[f].job])
    BY <1>2, <1>3, <1>5 DEF HandoffInv, At, Job
  <1> QED BY <1>8, <1>9, <1>10, <1>11, <1>12, Zenon DEF HandoffInv, At, Job, Unsent, Fresh

LEMMA ExecuteKeepsHandoff ==
    ASSUME JournalInv, ProcessInv, ClaimInv, HandoffInv, NEW e \in Executors, Execute(e)
    PROVE  HandoffInv'
  <1>0. UNCHANGED tables => AuthorityKept
    BY OthersKeepAuthority, Zenon
  <1>1. CASE \E r \in Reservations : Prepare(e, r)
    <2>1. PICK r \in Reservations : Prepare(e, r)
      BY <1>1, Zenon
    <2> DEFINE x == [phase |-> "preparing", job |-> r, view |-> NoObservation]
    <2>2. x.phase = "preparing"
      BY Zenon
    <2>3. run' = [run EXCEPT ![e] = x] /\ UNCHANGED <<tables, chain, monitor>>
      BY <2>1, Zenon DEF Prepare
    <2> HIDE DEF x
    <2> QED BY <1>0, <2>2, <2>3, FreshKept, MoveKeepsHandoff, Zenon
  <1>2. CASE RecordCheck(e)
    <2>1. run[e].phase # "idle" /\ Goto(e, "checked") /\ UNCHANGED <<chain, monitor>>
          /\ (MarkCandidateCheckPassed(CandidateOf[Job(e)]) \/ UNCHANGED tables)
      BY <1>2, Zenon DEF RecordCheck, At
    <2>2. CandidateOf[Job(e)] \in Candidates
      BY <2>1, RunTypes, CandidateTypes, Zenon DEF ProcessInv
    <2>3. AuthorityKept
      BY <2>1, <2>2, OthersKeepAuthority, Zenon
    <2> QED BY <2>1, <2>3, GotoKeepsHandoff, Zenon
  <1>3. CASE Reserve(e)
    <2>1. run[e].phase # "idle" /\ Goto(e, "reserved") /\ UNCHANGED <<chain, monitor>>
          /\ (ReserveExecution(Job(e)) \/ UNCHANGED tables)
      BY <1>3, Zenon DEF Reserve, At
    <2>2. Job(e) \in Reservations
      BY <2>1, RunTypes, Zenon DEF ProcessInv
    <2>3. AuthorityKept
      BY <2>1, <2>2, OthersKeepAuthority, Zenon
    <2> QED BY <2>1, <2>3, GotoKeepsHandoff, Zenon
  <1>4. CASE BeginHandoff(e)
    <2>1. /\ run[e].phase # "idle" /\ Goto(e, "revalidating")
          /\ UNCHANGED <<tables, chain, monitor>>
      BY <1>4, Zenon DEF BeginHandoff, At
    <2> QED BY <1>0, <2>1, GotoKeepsHandoff, Zenon
  <1>5. ASSUME NEW d \in {"accepted", "rejected", "ambiguous"}, Finalize(e, d)
        PROVE  HandoffInv'
    <2>1. /\ run[e].phase = "sent" /\ FinalizeAttempt(Job(e), d) /\ UNCHANGED <<chain, monitor>>
          /\ Goto(e, "accepted") \/ run' = [run EXCEPT ![e] = Idle]
      BY <1>5, Zenon DEF Finalize, At
    <2>2. /\ Job(e) \in Reservations
          /\ run[e] = [phase |-> run[e].phase, job |-> Job(e), view |-> run[e].view]
      BY <2>1, RunTypes, Zenon DEF ProcessInv
    <2>3. \A f \in Executors : At(f, "journaled") => Job(f) \in Reservations \ {Job(e)}
      BY <2>1, RunTypes, Zenon DEF ProcessInv, ClaimInv, HandoffInv, At, Unsent
    <2>4. UNCHANGED reservation /\ \A q \in Reservations \ {Job(e)} : attempt'[q] = attempt[q]
      BY <2>1, <2>2, Zenon DEF FinalizeAttempt, JournalInv, TypeOK, TablesTypeOK
    <2>5. \A f \in Executors \ {e} : At(f, "journaled") =>
             /\ reservation'[Job(f)] # "absent"
             /\ reservation'[Job(f)] = "active" => Fresh(attempt'[Job(f)])
      BY <2>3, <2>4, Zenon DEF HandoffInv
    <2>6. CASE Goto(e, "accepted")
      <3> DEFINE x == [run[e] EXCEPT !.phase = "accepted"]
      <3>1. x.phase = "accepted" /\ run' = [run EXCEPT ![e] = x]
        BY <2>2, <2>6, Zenon DEF Goto
      <3> HIDE DEF x
      <3> QED BY <2>1, <2>5, <3>1, MoveKeepsHandoff, Zenon
    <2> QED BY <2>1, <2>5, <2>6, IdleKeepsHandoff, Zenon
  <1>6. CASE ObserveConfirmation(e)
    <2> DEFINE w == View(CandidateOf[Job(e)])
               x == [run[e] EXCEPT !.phase = "observed", !.view = w]
    <2>1. /\ run[e].phase # "idle" /\ run' = [run EXCEPT ![e] = x]
          /\ UNCHANGED <<tables, chain, monitor>>
      BY <1>6, Zenon DEF ObserveConfirmation, At
    <2>2. /\ CandidateOf[Job(e)] \in Candidates
          /\ run[e] = [phase |-> run[e].phase, job |-> Job(e), view |-> run[e].view]
      BY <2>1, RunTypes, CandidateTypes, Zenon DEF ProcessInv
    <2>3. Unsent(CandidateOf[Job(e)]) => w.status = "absent"
      BY <2>2, UnsentAbsent, Zenon
    <2> HIDE DEF w
    <2>4. x.phase = "observed" /\ x.job = Job(e) /\ x.view = w
      BY <2>2
    <2> HIDE DEF x
    <2> QED BY <1>0, <2>1, <2>3, <2>4, FreshKept, MoveKeepsHandoff, Zenon
  <1>7. CASE RecordConfirmation(e)
    <2>1. run[e].phase = "observed" /\ RecordObservation(Job(e), run[e].view)
          /\ run' = [run EXCEPT ![e] = Idle] /\ UNCHANGED <<chain, monitor>>
      BY <1>7, Zenon DEF RecordConfirmation, At
    <2>2. /\ Job(e) \in Reservations /\ run[e].view \in Observation
          /\ Unsent(CandidateOf[Job(e)]) => run[e].view.status = "absent"
      BY <2>1, RunTypes, Zenon DEF ProcessInv, ViewsStable, StableObservations, At, HandoffInv
    <2> QED BY <2>1, <2>2, FreshObserved, IdleKeepsHandoff, Zenon
  <1>8. CASE EndRun(e)
    BY <1>0, <1>8, FreshKept, IdleKeepsHandoff, Zenon DEF EndRun
  <1> QED BY <1>1, <1>2, <1>3, <1>4, <1>5, <1>6, <1>7, <1>8, ReserveTransportKeepsHandoff,
             SubmitKeepsHandoff, Zenon DEF Execute

\* Runs stay where they are, and the network as it was.
LEMMA StillKeepsHandoff ==
    ASSUME ProcessInv, HandoffInv, UNCHANGED <<chain, run>>,
           monitor' # Idle /\ Unsent(CandidateOf[monitor'.job]) => monitor'.view.status = "absent",
           \A f \in Executors : At(f, "journaled") =>
              /\ reservation'[Job(f)] # "absent"
              /\ reservation'[Job(f)] = "active" => Fresh(attempt'[Job(f)])
    PROVE  HandoffInv'
  BY Zenon DEF HandoffInv, chain, At, Job, Unsent, Fresh

LEMMA HandoffStep ==
    ASSUME JournalInv, ProcessInv, ClaimInv, HandoffInv, [Next]_vars
    PROVE  HandoffInv'
  <1>0. UNCHANGED tables => AuthorityKept
    BY OthersKeepAuthority, Zenon
  <1>1. CASE \E e \in Executors : Execute(e)
    BY <1>1, ExecuteKeepsHandoff, Zenon
  <1>2. ASSUME NEW r \in Reservations, Observe(r)
        PROVE  HandoffInv'
    <2> DEFINE w == View(CandidateOf[r])
    <2>1. CandidateOf[r] \in Candidates
      BY CandidateTypes, Zenon
    <2>2. monitor' = [phase |-> "observed", job |-> r, view |-> w]
          /\ UNCHANGED <<tables, chain, run>>
      BY <1>2, Zenon DEF Observe
    <2>3. Unsent(CandidateOf[r]) => w.status = "absent"
      BY <2>1, UnsentAbsent, Zenon
    <2> HIDE DEF w
    <2>4. monitor'.job = r /\ monitor'.view = w
      BY <2>2, Zenon
    <2> QED BY <1>0, <2>2, <2>3, <2>4, FreshKept, StillKeepsHandoff, Zenon
  <1>3. CASE Reconcile
    <2>1. /\ UNCHANGED <<chain, run>> /\ monitor # Idle /\ monitor' = Idle
          /\ RecordObservation(monitor.job, monitor.view) \/ UNCHANGED tables
      BY <1>3, Zenon DEF Reconcile
    <2>2. /\ monitor.job \in Reservations /\ monitor.view \in Observation
          /\ Unsent(CandidateOf[monitor.job]) => monitor.view.status = "absent"
      BY <2>1, MonitorTypes, Zenon DEF ProcessInv, HandoffInv
    <2> QED BY <1>0, <2>1, <2>2, FreshKept, FreshObserved, StillKeepsHandoff, Zenon
  <1>4. CASE (PegOutNext \/ CandidateNext \/ AggregateNext) /\ UNCHANGED <<chain, processes>>
    <2>1. AuthorityKept
      BY <1>4, OthersKeepAuthority, Zenon
    <2>2. UNCHANGED <<chain, run, monitor>>
      BY <1>4, Zenon DEF processes
    <2> QED BY <2>1, <2>2, FreshKept, StillKeepsHandoff, Zenon DEF HandoffInv
  <1>5. CASE ChainNext /\ UNCHANGED <<tables, processes>>
    <2>1. UNCHANGED <<run, monitor, reservation, attempt, broadcasts>>
      BY <1>5, ChainStep, Zenon DEF processes, tables, ProcessInv
    <2>2. \A c \in Candidates : Unsent(c)' => included'[c] = NoBlock /\ c \notin pool'
      BY <1>5, ChainKeepsUnsent, Zenon
    <2> QED BY <2>1, <2>2, Zenon DEF HandoffInv, At, Job, Unsent, Fresh
  <1>6. CASE UNCHANGED vars
    <2>1. UNCHANGED <<run, monitor, reservation, attempt, broadcasts, included, pool>>
      BY <1>6, Zenon DEF vars, tables, chain, processes
    <2> QED BY <2>1, Zenon DEF HandoffInv, At, Job, Unsent, Fresh
  <1> QED BY <1>1, <1>2, <1>3, <1>4, <1>5, <1>6, Zenon DEF Next

\* Only the submission of a run hands a transaction over, and it finds the
\* attempt of that run fresh.
LEMMA BroadcastStep ==
    ASSUME JournalInv, ProcessInv, ClaimInv, HandoffInv, [Next]_vars,
           NEW c \in Candidates, broadcasts'[c] > broadcasts[c]
    PROVE  \E r \in Reservations :
              /\ CandidateOf[r] = c
              /\ CurrentAuthority(r)
              /\ attempt[r].status = "pending" /\ attempt[r].disposition = "none"
              /\ attempt[r].observation.status \in {"none", "absent"}
  <1>0. broadcasts[c] \in Nat
    BY Zenon DEF ProcessInv, ChainTypeOK
  <1>1. ~Quiet
    BY <1>0 DEF Quiet
  <1>2. PICK e \in Executors : Execute(e)
    BY <1>1, OthersAreQuiet, Zenon
  <1>3. ReserveTransport(e) \/ Submit(e)
    BY <1>1, <1>2, RunIsQuiet, Zenon
  <1>4. CASE ReserveTransport(e)
    BY <1>0, <1>4 DEF ReserveTransport, chain
  <1>5. CASE Submit(e)
    <2>1. Job(e) \in Reservations /\ CandidateOf[Job(e)] \in Candidates
      BY <1>5, RunTypes, CandidateTypes, Zenon DEF ProcessInv, Submit, At
    <2>2. c = CandidateOf[Job(e)]
      BY <1>0, <1>5, <2>1 DEF Submit, Broadcast, ProcessInv, ChainTypeOK
    <2>3. CurrentAuthority(Job(e)) /\ Fresh(attempt[Job(e)])
      BY <1>5, Zenon DEF Submit, HandoffInv, CurrentAuthority
    <2> QED BY <2>1, <2>2, <2>3, Zenon DEF Fresh
  <1> QED BY <1>3, <1>4, <1>5, Zenon

LEMMA HandoffInit == Init => HandoffInv
  BY DEF Init, ChainInit, HandoffInv, At, Idle

\* Whatever happened while the approval was awaited, a transaction is handed over
\* only with its authority standing and its attempt unanswered and unseen: the
\* authority that submit reads again excludes every attempt that was quarantined,
\* and no reconciliation or other run can have answered it.
THEOREM BroadcastAuthorisedHolds == Spec => BroadcastAuthorised
  <1>1. JournalInv /\ ProcessInv /\ ClaimInv /\ [Next]_vars => ClaimInv'
    BY PayoutStep, Zenon
  <1>2. JournalInv /\ ProcessInv /\ ClaimInv /\ HandoffInv /\ [Next]_vars => HandoffInv'
    BY HandoffStep, Zenon
  <1>3. JournalInv /\ ProcessInv /\ ClaimInv /\ HandoffInv /\ [Next]_vars =>
          [\A c \in Candidates : broadcasts'[c] > broadcasts[c] =>
             \E r \in Reservations :
                 /\ CandidateOf[r] = c
                 /\ CurrentAuthority(r)
                 /\ attempt[r].status = "pending" /\ attempt[r].disposition = "none"
                 /\ attempt[r].observation.status \in {"none", "absent"}]_vars
    BY BroadcastStep, Zenon
  <1>4. Spec => []ProcessInv
    BY ProcessInvInit, ProcessInvStep, PTL DEF Spec
  <1> QED BY <1>1, <1>2, <1>3, <1>4, ClaimInvInit, HandoffInit, ExecutionKeepsJournalInv, PTL
          DEF Spec, BroadcastAuthorised

-----------------------------------------------------------------------------
(* Confirmations on a chain whose reorganisations stay shallow. *)

\* What a final observation o says of c is true of the chain, and is buried under
\* the confirmations the policy asks for.
StillFinal(o, c) ==
    o.status = "confirmed_final" =>
        /\ included[c] = o.inclusion /\ o.inclusion \in Blocks
        /\ tip.height + 1 >= o.inclusion.height + RequiredConfirmations

\* Of every observation that a run or reconciliation still holds and may yet
\* record, as of the recorded ones.
FinalInv ==
    /\ \A r \in Reservations : attempt[r].status = "confirmed" =>
          StillFinal(attempt[r].observation, CandidateOf[r])
    /\ \A e \in Executors : At(e, "observed") => StillFinal(run[e].view, CandidateOf[Job(e)])
    /\ monitor # Idle => StillFinal(monitor.view, CandidateOf[monitor.job])

ReorgInv == deepest \in Nat /\ (deepest < RequiredConfirmations => FinalInv)

\* A step that confirms no attempt, and leaves the confirmed ones as they are.
ConfirmsNothing ==
    \A r \in Reservations : attempt'[r].status = "confirmed" => attempt'[r] = attempt[r]

LEMMA RevokingConfirmsNothing ==
    ASSUME TypeOK, \E R \in SUBSET Reservations : RevokingStep(R)
    PROVE  ConfirmsNothing
  BY RevokeEffect, Zenon DEF RevokingStep, ConfirmsNothing

\* Only recordAuthenticatedSettlementTransportObservation confirms.
LEMMA OthersConfirmNothing ==
    ASSUME JournalInv,
           \/ PegOutNext \/ CandidateNext \/ AggregateNext
           \/ \E c \in Candidates : MarkCandidateCheckPassed(c)
           \/ \E r \in Reservations :
                 \/ ReserveExecution(r) \/ ReserveTransportAttempt(r)
                 \/ \E d \in {"accepted", "rejected", "ambiguous"} : FinalizeAttempt(r, d)
           \/ UNCHANGED tables
    PROVE  ConfirmsNothing
  <1>0. TypeOK
    BY Zenon DEF JournalInv
  <1>1. CASE PegOutNext
    BY <1>0, <1>1, PegOutOperationsRevoke, RevokingConfirmsNothing, Zenon DEF PegOutNext
  <1>2. CASE CandidateNext \/ \E c \in Candidates : MarkCandidateCheckPassed(c)
    <2>1. ASSUME NEW c \in Candidates,
                 \/ RecordCandidate(c)
                 \/ RecordRecoveredCandidate(c)
                 \/ MarkCandidateCheckPassed(c)
                 \/ InvalidateCandidate(c)
                 \/ InvalidateActiveCandidates
          PROVE  ConfirmsNothing
      BY <1>0, <2>1, CandidateOperationsRevoke, RevokingConfirmsNothing, Zenon
    <2>2. CASE InvalidateActiveCandidates
      <3>1. PICK c \in Candidates : ActiveCandidate(c)
        BY <2>2, Zenon DEF InvalidateActiveCandidates
      <3> QED BY <2>1, <2>2, <3>1, Zenon
    <2> QED BY <1>2, <2>1, <2>2, Zenon DEF CandidateNext
  <1>3. CASE AggregateNext
    BY <1>0, <1>3, AggregateOperationsRevoke, RevokingConfirmsNothing, Zenon
  <1>4. CASE \E r \in Reservations : ReserveExecution(r)
    BY <1>4, Zenon DEF ReserveExecution, ConfirmsNothing
  <1>5. CASE \E r \in Reservations : ReserveTransportAttempt(r)
    BY <1>0, <1>5, Zenon DEF ReserveTransportAttempt, ConfirmsNothing, TypeOK, TablesTypeOK, NoAttempt
  <1>6. ASSUME NEW r \in Reservations,
               NEW d \in {"accepted", "rejected", "ambiguous"}, FinalizeAttempt(r, d)
        PROVE  ConfirmsNothing
    <2>0. attempt[r] \in Attempt \cup {NoAttempt} /\ attempt[r].status = "pending"
      BY <1>0, <1>6, Zenon DEF TypeOK, TablesTypeOK, FinalizeAttempt
    <2>1. attempt[r] \in Attempt
      BY <2>0 DEF NoAttempt
    <2>2. /\ attempt'[r].status \in {"submitted", "rejected", "pending"}
          /\ \A q \in Reservations \ {r} : attempt'[q] = attempt[q]
      BY <1>0, <1>6, <2>0, <2>1, Zenon DEF TypeOK, TablesTypeOK, FinalizeAttempt, Attempt
    <2> QED BY <2>2, Zenon DEF ConfirmsNothing
  <1>7. CASE UNCHANGED tables
    BY <1>7, Zenon DEF tables, ConfirmsNothing
  <1> QED BY <1>1, <1>2, <1>3, <1>4, <1>5, <1>6, <1>7, Zenon

\* An attempt that an observation confirms has that observation.
LEMMA ObservedConfirms ==
    ASSUME JournalInv, NEW r \in Reservations, NEW o \in Observation, RecordObservation(r, o)
    PROVE  /\ \A q \in Reservations \ {r} : attempt'[q] = attempt[q]
           /\ attempt'[r].status = "confirmed" => attempt'[r].observation = o
  <1> DEFINE a == attempt[r]
  <1>1. /\ a.status \in {"pending", "submitted", "confirmed"} /\ a \in Attempt
        /\ attempt \in [Reservations -> Attempt \cup {NoAttempt}]
    BY DEF RecordObservation, MayRecordObservation, JournalInv, TypeOK, TablesTypeOK, NoAttempt
  <1>2. o.status \in ObservationStatus
    BY Zenon DEF Observation
  <1>3. Observed(r, o).observation = o
    BY <1>1, <1>2, Zenon DEF Observed, Attempt, ObservationStatus
  <1>4. attempt' = [attempt EXCEPT ![r] = Observed(r, o)]
    BY Zenon DEF RecordObservation
  <1> QED BY <1>1, <1>3, <1>4, Zenon

\* What the chain shows as final is final.
LEMMA ViewFinal ==
    ASSUME ProcessInv, NEW c \in Candidates
    PROVE  StillFinal(View(c), c)
  <1>1. included[c] \in Blocks \cup {NoBlock} /\ tip \in Blocks
    BY Zenon DEF ProcessInv, ChainTypeOK
  <1>2. View(c).inclusion = included[c]
    BY Zenon DEF View, ObservationOf
  <1>3. View(c).status = "confirmed_final" =>
          included[c] # NoBlock /\ tip.height - included[c].height + 1 >= RequiredConfirmations
    BY Zenon DEF View, ObservationOf
  <1> QED BY <1>1, <1>2, <1>3, BlockTypes, BoundAssumption DEF StillFinal

\* Neither a block nor a reorganisation shallower than its confirmations moves a
\* transaction that is final.
LEMMA FinalKept ==
    ASSUME ProcessInv, NEW c \in Candidates, included[c] \in Blocks,
           tip.height + 1 >= included[c].height + RequiredConfirmations,
           \/ \E S \in SUBSET Candidates : Mine(S)
           \/ \E depth \in 1..MaxReorgDepth, h \in 1..(tip.height + 1), S \in SUBSET Candidates :
                 Reorg(depth, h, S) /\ depth < RequiredConfirmations
    PROVE  included'[c] = included[c] /\ tip'.height >= tip.height
  <1>1. /\ tip \in Blocks /\ tip.height \in Nat /\ tip.fork \in Nat /\ included[c].height \in Nat
        /\ tip = [height |-> tip.height, fork |-> tip.fork] /\ included[c] # NoBlock
    BY BlockTypes, Zenon DEF ProcessInv, ChainTypeOK
  <1>2. ASSUME NEW S \in SUBSET Candidates, Mine(S)
        PROVE  included'[c] = included[c] /\ tip'.height >= tip.height
    <2>1. tip'.height = tip.height + 1
      BY <1>1, <1>2, Zenon DEF Mine
    <2>2. included'[c] = included[c]
      BY <1>1, <1>2, Zenon DEF Mine, Place
    <2> QED BY <1>1, <2>1, <2>2
  <1>3. ASSUME NEW depth \in 1..MaxReorgDepth, NEW h \in 1..(tip.height + 1),
               NEW S \in SUBSET Candidates, Reorg(depth, h, S), depth < RequiredConfirmations
        PROVE  included'[c] = included[c] /\ tip'.height >= tip.height
    <2> DEFINE kept == {d \in Candidates : included[d] # NoBlock
                                           /\ included[d].height <= tip.height - depth}
    <2>1. c \in kept
      BY <1>1, <1>3, BoundAssumption, ReorgAssumption
    <2>2. /\ included' = Place(S, [height |-> h, fork |-> tip.fork + 1], kept)
          /\ c \notin S /\ tip'.height = tip.height + 1
      BY <1>3, <2>1, Zenon DEF Reorg
    <2> HIDE DEF kept
    <2> QED BY <1>1, <2>1, <2>2 DEF Place
  <1> QED BY <1>2, <1>3, Zenon

\* The chain moves under the processes, no deeper than the confirmations.
LEMMA ChainKeepsFinal ==
    ASSUME ProcessInv, ProcessInv', FinalInv, UNCHANGED <<tables, processes>>,
           \/ \E S \in SUBSET Candidates : Mine(S)
           \/ \E depth \in 1..MaxReorgDepth, h \in 1..(tip.height + 1), S \in SUBSET Candidates :
                 Reorg(depth, h, S) /\ depth < RequiredConfirmations
           \/ UNCHANGED <<tip, included>>
    PROVE  FinalInv'
  <1>0. tip.height \in Nat /\ tip'.height \in Nat
    BY BlockTypes, Zenon DEF ProcessInv, ChainTypeOK
  <1>1. ASSUME NEW o, NEW c \in Candidates, StillFinal(o, c), o.status = "confirmed_final"
        PROVE  /\ included'[c] = o.inclusion /\ o.inclusion \in Blocks
               /\ tip'.height + 1 >= o.inclusion.height + RequiredConfirmations
    <2>1. /\ included[c] = o.inclusion /\ o.inclusion \in Blocks /\ o.inclusion.height \in Nat
          /\ tip.height + 1 >= o.inclusion.height + RequiredConfirmations
      BY <1>1, BlockTypes, Zenon DEF StillFinal
    <2>2. included'[c] = included[c] /\ tip'.height >= tip.height
      <3>1. CASE UNCHANGED <<tip, included>>
        BY <1>0, <3>1
      <3> QED BY <2>1, <3>1, FinalKept, Zenon
    <2> QED BY <1>0, <2>1, <2>2, BoundAssumption
  <1>2. UNCHANGED <<attempt, run, monitor>>
    BY Zenon DEF tables, processes
  <1>3. \A r \in Reservations : CandidateOf[r] \in Candidates
    BY CandidateTypes, Zenon
  <1>4. \A r \in Reservations : attempt'[r].status = "confirmed" =>
           StillFinal(attempt[r].observation, CandidateOf[r])'
    BY <1>1, <1>2, <1>3, Zenon DEF FinalInv, StillFinal
  <1>5. \A e \in Executors : At(e, "observed")' => StillFinal(run[e].view, CandidateOf[Job(e)])'
    <2> SUFFICES ASSUME NEW e \in Executors, At(e, "observed")'
                 PROVE  StillFinal(run[e].view, CandidateOf[Job(e)])'
      BY Zenon
    <2>1. At(e, "observed") /\ Job(e) \in Reservations
      BY <1>2, RunTypes, Zenon DEF ProcessInv, At
    <2> QED BY <1>1, <1>2, <1>3, <2>1, Zenon DEF FinalInv, StillFinal, Job
  <1>6. (monitor # Idle)' => StillFinal(monitor.view, CandidateOf[monitor.job])'
    BY <1>1, <1>2, <1>3, MonitorTypes, Zenon DEF FinalInv, StillFinal, ProcessInv, Idle
  <1> QED BY <1>4, <1>5, <1>6, Zenon DEF FinalInv

\* A run moves on and the chain stays.
LEMMA MoveKeepsFinal ==
    ASSUME ProcessInv, FinalInv, UNCHANGED <<tip, included, monitor>>,
           NEW e \in Executors, NEW x, run' = [run EXCEPT ![e] = x],
           x.phase = "observed" => StillFinal(x.view, CandidateOf[x.job]),
           \A r \in Reservations : attempt'[r].status = "confirmed" =>
              StillFinal(attempt'[r].observation, CandidateOf[r])
    PROVE  FinalInv'
  <1>1. \A f \in Executors : run'[f] = IF f = e THEN x ELSE run[f]
    BY Zenon DEF ProcessInv, RunsTypeOK
  <1>2. \A f \in Executors : At(f, "observed")' => StillFinal(run[f].view, CandidateOf[Job(f)])'
    BY <1>1 DEF FinalInv, StillFinal, At, Job
  <1> QED BY <1>2, Zenon DEF FinalInv, StillFinal, Idle

\* A run that changes its phase only, or ends.
LEMMA GotoKeepsFinal ==
    ASSUME ProcessInv, FinalInv, UNCHANGED <<tip, included, monitor>>, ConfirmsNothing,
           NEW e \in Executors, run[e].phase # "idle",
           \/ run' = [run EXCEPT ![e] = Idle]
           \/ \E phase \in Phases \ {"observed"} : Goto(e, phase)
    PROVE  FinalInv'
  <1>1. \A r \in Reservations : attempt'[r].status = "confirmed" =>
           StillFinal(attempt'[r].observation, CandidateOf[r])
    BY Zenon DEF ConfirmsNothing, FinalInv
  <1>2. CASE run' = [run EXCEPT ![e] = Idle]
    <2>1. Idle.phase # "observed"
      BY Zenon DEF Idle
    <2> QED BY <1>1, <1>2, <2>1, MoveKeepsFinal, Zenon
  <1>3. ASSUME NEW phase \in Phases \ {"observed"}, Goto(e, phase) PROVE FinalInv'
    <2>1. run[e] = [phase |-> run[e].phase, job |-> Job(e), view |-> run[e].view]
      BY RunTypes, Zenon DEF ProcessInv
    <2> DEFINE x == [run[e] EXCEPT !.phase = phase]
    <2>2. x.phase = phase /\ run' = [run EXCEPT ![e] = x]
      BY <1>3, <2>1, Zenon DEF Goto
    <2> HIDE DEF x
    <2> QED BY <1>1, <2>2, MoveKeepsFinal, Zenon
  <1> QED BY <1>2, <1>3, Zenon

LEMMA ExecuteKeepsFinal ==
    ASSUME JournalInv, ProcessInv, FinalInv, NEW e \in Executors, Execute(e)
    PROVE  FinalInv'
  <1> USE DEF Phases
  <1>0. UNCHANGED tables => ConfirmsNothing
    BY OthersConfirmNothing, Zenon
  <1>1. CASE \E r \in Reservations : Prepare(e, r)
    <2>1. PICK r \in Reservations : Prepare(e, r)
      BY <1>1, Zenon
    <2> DEFINE x == [phase |-> "preparing", job |-> r, view |-> NoObservation]
    <2>2. x.phase = "preparing"
      BY Zenon
    <2>3. run' = [run EXCEPT ![e] = x] /\ UNCHANGED <<attempt, tip, included, monitor>>
      BY <2>1, Zenon DEF Prepare, tables, chain
    <2> HIDE DEF x
    <2> QED BY <2>2, <2>3, MoveKeepsFinal, Zenon DEF FinalInv
  <1>2. CASE RecordCheck(e)
    <2>1. /\ run[e].phase # "idle" /\ Goto(e, "checked") /\ UNCHANGED <<tip, included, monitor>>
          /\ (MarkCandidateCheckPassed(CandidateOf[Job(e)]) \/ UNCHANGED tables)
      BY <1>2, Zenon DEF RecordCheck, At, chain
    <2>2. CandidateOf[Job(e)] \in Candidates
      BY <2>1, RunTypes, CandidateTypes, Zenon DEF ProcessInv
    <2>3. ConfirmsNothing
      BY <2>1, <2>2, OthersConfirmNothing, Zenon
    <2> QED BY <2>1, <2>3, GotoKeepsFinal, Zenon
  <1>3. CASE Reserve(e) \/ ReserveTransport(e)
    <2>1. /\ run[e].phase # "idle" /\ UNCHANGED <<tip, included, monitor>>
          /\ \E phase \in Phases \ {"observed"} : Goto(e, phase)
          /\ (ReserveExecution(Job(e)) \/ ReserveTransportAttempt(Job(e)) \/ UNCHANGED tables)
      BY <1>3, Zenon DEF Reserve, ReserveTransport, At, chain
    <2>2. Job(e) \in Reservations
      BY <2>1, RunTypes, Zenon DEF ProcessInv
    <2>3. ConfirmsNothing
      BY <2>1, <2>2, OthersConfirmNothing, Zenon
    <2> QED BY <2>1, <2>3, GotoKeepsFinal, Zenon
  <1>4. CASE BeginHandoff(e) \/ Submit(e) \/ EndRun(e)
    <2>1. /\ run[e].phase # "idle" /\ UNCHANGED <<tip, included, monitor, tables>>
          /\ \/ run' = [run EXCEPT ![e] = Idle]
             \/ \E phase \in Phases \ {"observed"} : Goto(e, phase)
      BY <1>4, Zenon DEF BeginHandoff, Submit, EndRun, Broadcast, At, chain
    <2> QED BY <1>0, <2>1, GotoKeepsFinal, Zenon
  <1>5. ASSUME NEW d \in {"accepted", "rejected", "ambiguous"}, Finalize(e, d)
        PROVE  FinalInv'
    <2>1. /\ run[e].phase # "idle" /\ FinalizeAttempt(Job(e), d)
          /\ UNCHANGED <<tip, included, monitor>>
          /\ \/ run' = [run EXCEPT ![e] = Idle]
             \/ \E phase \in Phases \ {"observed"} : Goto(e, phase)
      BY <1>5, Zenon DEF Finalize, At, chain
    <2>2. Job(e) \in Reservations
      BY <2>1, RunTypes, Zenon DEF ProcessInv
    <2>3. ConfirmsNothing
      BY <2>1, <2>2, OthersConfirmNothing, Zenon
    <2> QED BY <2>1, <2>3, GotoKeepsFinal, Zenon
  <1>6. CASE ObserveConfirmation(e)
    <2> DEFINE w == View(CandidateOf[Job(e)])
               x == [run[e] EXCEPT !.phase = "observed", !.view = w]
    <2>1. /\ run[e].phase # "idle" /\ run' = [run EXCEPT ![e] = x]
          /\ UNCHANGED <<attempt, tip, included, monitor>>
      BY <1>6, Zenon DEF ObserveConfirmation, At, tables, chain
    <2>2. /\ CandidateOf[Job(e)] \in Candidates
          /\ run[e] = [phase |-> run[e].phase, job |-> Job(e), view |-> run[e].view]
      BY <2>1, RunTypes, CandidateTypes, Zenon DEF ProcessInv
    <2>3. StillFinal(w, CandidateOf[Job(e)])
      BY <2>2, ViewFinal, Zenon
    <2> HIDE DEF w
    <2>4. x.job = Job(e) /\ x.view = w
      BY <2>2
    <2> HIDE DEF x
    <2> QED BY <2>1, <2>3, <2>4, MoveKeepsFinal, Zenon DEF FinalInv
  <1>7. CASE RecordConfirmation(e)
    <2>1. /\ At(e, "observed") /\ RecordObservation(Job(e), run[e].view)
          /\ run' = [run EXCEPT ![e] = Idle] /\ UNCHANGED <<tip, included, monitor>>
      BY <1>7, Zenon DEF RecordConfirmation, chain
    <2>2. /\ Job(e) \in Reservations /\ run[e].view \in Observation
          /\ StillFinal(run[e].view, CandidateOf[Job(e)])
      BY <2>1, RunTypes, Zenon DEF ProcessInv, ViewsStable, StableObservations, At, FinalInv
    <2>3. \A r \in Reservations : attempt'[r].status = "confirmed" =>
             StillFinal(attempt'[r].observation, CandidateOf[r])
      BY <2>1, <2>2, ObservedConfirms DEF FinalInv
    <2>4. Idle.phase # "observed"
      BY Zenon DEF Idle
    <2> QED BY <2>1, <2>3, <2>4, MoveKeepsFinal, Zenon
  <1> QED BY <1>1, <1>2, <1>3, <1>4, <1>5, <1>6, <1>7, Zenon DEF Execute

\* Steps of a chain that is not reorganised.
LEMMA StepKeepsFinal ==
    ASSUME JournalInv, ProcessInv, ProcessInv', FinalInv, [Next]_vars, tip'.fork = tip.fork
    PROVE  FinalInv'
  <1>0. tip \in Blocks /\ tip.fork \in Nat
    BY BlockTypes, Zenon DEF ProcessInv, ChainTypeOK
  <1>1. CASE \E e \in Executors : Execute(e)
    BY <1>1, ExecuteKeepsFinal, Zenon
  <1>2. ASSUME NEW r \in Reservations, Observe(r)
        PROVE  FinalInv'
    <2> DEFINE w == View(CandidateOf[r])
    <2>1. StillFinal(w, CandidateOf[r])
      BY CandidateTypes, ViewFinal, Zenon
    <2>2. monitor' = [phase |-> "observed", job |-> r, view |-> w]
          /\ UNCHANGED <<attempt, tip, included, run>>
      BY <1>2, Zenon DEF Observe, tables, chain
    <2> HIDE DEF w
    <2>3. monitor'.job = r /\ monitor'.view = w
      BY <2>2, Zenon
    <2> QED BY <2>1, <2>2, <2>3, Zenon DEF FinalInv, StillFinal, At, Job
  <1>3. CASE Reconcile
    <2>1. /\ UNCHANGED <<tip, included, run>> /\ monitor # Idle /\ monitor' = Idle
          /\ RecordObservation(monitor.job, monitor.view) \/ UNCHANGED attempt
      BY <1>3, Zenon DEF Reconcile, tables, chain
    <2>2. /\ monitor.job \in Reservations /\ monitor.view \in Observation
          /\ StillFinal(monitor.view, CandidateOf[monitor.job])
      BY <2>1, MonitorTypes, Zenon DEF ProcessInv, FinalInv
    <2>3. \A r \in Reservations : attempt'[r].status = "confirmed" =>
             StillFinal(attempt'[r].observation, CandidateOf[r])
      BY <2>1, <2>2, ObservedConfirms DEF FinalInv
    <2> QED BY <2>1, <2>3, Zenon DEF FinalInv, StillFinal, At, Job, Idle
  <1>4. CASE (PegOutNext \/ CandidateNext \/ AggregateNext) /\ UNCHANGED <<chain, processes>>
    <2>1. ConfirmsNothing
      BY <1>4, OthersConfirmNothing, Zenon
    <2>2. UNCHANGED <<tip, included, run, monitor>>
      BY <1>4, Zenon DEF chain, processes
    <2> QED BY <2>1, <2>2, Zenon DEF ConfirmsNothing, FinalInv, StillFinal, At, Job, Idle
  <1>5. CASE ChainNext /\ UNCHANGED <<tables, processes>>
    <2>1. (\E S \in SUBSET Candidates : Mine(S)) \/ UNCHANGED <<tip, included>>
      <3>1. ASSUME NEW depth \in 1..MaxReorgDepth, NEW h \in 1..(tip.height + 1),
                   NEW S \in SUBSET Candidates, Reorg(depth, h, S)
            PROVE  FALSE
        <4>1. tip' = [height |-> tip.height + 1, fork |-> tip.fork + 1]
          BY <3>1, Zenon DEF Reorg
        <4> QED BY <1>0, <4>1
      <3> QED BY <1>5, <3>1, Zenon DEF ChainNext, EnterPool, LeavePool
    <2> QED BY <1>5, <2>1, ChainKeepsFinal, Zenon
  <1>6. CASE UNCHANGED vars
    <2>1. UNCHANGED <<attempt, tip, included, run, monitor>>
      BY <1>6, Zenon DEF vars, tables, chain, processes
    <2> QED BY <2>1, Zenon DEF FinalInv, StillFinal, At, Job, Idle
  <1> QED BY <1>1, <1>2, <1>3, <1>4, <1>5, <1>6, Zenon DEF Next

\* Only the chain itself moves the tip.
LEMMA TipMoves ==
    ASSUME Next, tip' # tip
    PROVE  UNCHANGED <<tables, processes>>
  <1>1. ASSUME NEW e \in Executors, Execute(e) PROVE UNCHANGED tip
    BY <1>1, Zenon DEF Execute, Prepare, RecordCheck, Reserve, BeginHandoff, ReserveTransport, Submit,
                Finalize, ObserveConfirmation, RecordConfirmation, EndRun, Broadcast, chain
  <1>2. ASSUME NEW r \in Reservations, Observe(r) PROVE UNCHANGED tip
    BY <1>2, Zenon DEF Observe, chain
  <1>3. Reconcile => UNCHANGED tip
    BY Zenon DEF Reconcile, chain
  <1> QED BY <1>1, <1>2, <1>3, Zenon DEF Next, chain

LEMMA ReorgStep ==
    ASSUME JournalInv, ProcessInv, ProcessInv', ReorgInv, [ReorgNext]_ReorgVars
    PROVE  ReorgInv'
  <1>1. CASE UNCHANGED ReorgVars
    <2>1. deepest' = deepest /\ UNCHANGED vars
      BY <1>1, Zenon DEF ReorgVars
    <2>2. tip'.fork = tip.fork
      BY <2>1, Zenon DEF vars, chain
    <2> QED BY <2>1, <2>2, StepKeepsFinal, Zenon DEF ReorgInv
  <1>2. CASE ReorgNext /\ tip'.fork = tip.fork
    BY <1>2, StepKeepsFinal, Zenon DEF ReorgNext, ReorgInv
  <1>3. CASE ReorgNext /\ tip'.fork # tip.fork
    <2>1. UNCHANGED <<tables, processes>>
      BY <1>3, TipMoves, Zenon DEF ReorgNext
    <2>2. PICK depth \in 1..MaxReorgDepth, h \in 1..(tip.height + 1), S \in SUBSET Candidates :
             /\ Reorg(depth, h, S)
             /\ deepest' = IF depth > deepest THEN depth ELSE deepest
      BY <1>3, Zenon DEF ReorgNext
    <2>3. deepest' \in Nat /\ depth <= deepest' /\ deepest <= deepest'
      BY <2>2, ReorgAssumption DEF ReorgInv
    <2>4. ASSUME deepest' < RequiredConfirmations PROVE FinalInv'
      <3>1. depth < RequiredConfirmations /\ FinalInv
        BY <2>3, <2>4, BoundAssumption, ReorgAssumption DEF ReorgInv
      <3> QED BY <2>1, <2>2, <3>1, ChainKeepsFinal, Zenon
    <2> QED BY <2>3, <2>4, Zenon DEF ReorgInv
  <1> QED BY <1>1, <1>2, <1>3, Zenon

LEMMA ReorgInvInit == ReorgInit => ReorgInv
  <1>1. ASSUME ReorgInit PROVE FinalInv
    <2>1. \A r \in Reservations : attempt[r].status # "confirmed"
      BY <1>1, Zenon DEF ReorgInit, Init, TablesInit, NoAttempt
    <2>2. monitor = Idle /\ \A e \in Executors : ~At(e, "observed")
      BY <1>1, Zenon DEF ReorgInit, Init, At, Idle
    <2> QED BY <2>1, <2>2, Zenon DEF FinalInv
  <1> QED BY <1>1 DEF ReorgInit, ReorgInv

\* As long as no reorganisation is as deep as the confirmations the policy asks for,
\* a confirmed attempt names the block that holds its transaction.  It holds however
\* long a run or reconciliation awaited between reading the chain and recording what
\* it read, because what it read stays true meanwhile.
THEOREM ConfirmedOnChainHolds == ReorgSpec => []ConfirmedOnChain
  <1>1. ReorgInit => Init
    BY Zenon DEF ReorgInit
  <1>2. [ReorgNext]_ReorgVars => [Next]_vars
    BY Zenon DEF ReorgNext, ReorgVars
  <1>3. ReorgSpec => []JournalInv /\ []ProcessInv
    <2>1. ReorgSpec => Spec
      BY <1>1, <1>2, PTL DEF ReorgSpec, Spec
    <2>2. Spec => []ProcessInv
      BY ProcessInvInit, ProcessInvStep, PTL DEF Spec
    <2> QED BY <2>1, <2>2, ExecutionKeepsJournalInv, PTL
  <1>4. JournalInv /\ ProcessInv /\ ProcessInv' /\ ReorgInv /\ [ReorgNext]_ReorgVars => ReorgInv'
    BY ReorgStep, Zenon
  <1>5. JournalInv /\ ReorgInv => ConfirmedOnChain
    BY Zenon DEF JournalInv, AttemptRowsValid, ReorgInv, FinalInv, StillFinal, ConfirmedOnChain
  <1> QED BY <1>3, <1>4, <1>5, ReorgInvInit, PTL DEF ReorgSpec
=============================================================================
