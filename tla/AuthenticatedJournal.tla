------------------------ MODULE AuthenticatedJournal ------------------------
(***************************************************************************)
(* The authenticated settlement journal: a candidate is prepared for a burn *)
(* and checked; a reservation gives one executor the right to settle it; a   *)
(* submission attempt is written before the transaction is sent, and records *)
(* what the network answered and what was later seen on the Ergo chain.      *)
(*                                                                          *)
(* One action per operation of state-tracker.ts.  An operation that throws   *)
(* rolls its transaction back and changes nothing, so its refusals are the   *)
(* negated guards.                                                           *)
(***************************************************************************)
EXTENDS SettlementTables

-----------------------------------------------------------------------------
(* Peg-out rows. *)

InsertPegOut(b) ==
    /\ pegOut[b] = "absent"
    /\ pegOut' = [pegOut EXCEPT ![b] = "detected"]
    /\ UNCHANGED <<candidate, reservation, attempt, aggregate>>

\* A second scan of the burn completes the fields the row lacks (COALESCE).
CompletePegOut(b) ==
    /\ pegOut[b] # "absent"
    /\ Revoke(ReservationsForBurns({b}))
    /\ UNCHANGED <<pegOut, candidate, aggregate>>

\* A detected row is rewritten with repaired semantics.
RepairDetectedPegOut(b) ==
    LET stale == {c \in Candidates : BurnOf[c] = b /\ ActiveCandidate(c)} IN
    /\ pegOut[b] = "detected"
    /\ candidate' = [c \in Candidates |->
                        IF c \in stale THEN "invalidated" ELSE candidate[c]]
    /\ Revoke(ReservationsForBurns({b}))
    /\ UNCHANGED <<pegOut, aggregate>>

UpdatePegOutStatus(b, status) ==
    /\ pegOut[b] # "absent"
    /\ pegOut[b] # "burn_reverted" \/ status = "burn_reverted"
    /\ SetPegOuts([pegOut EXCEPT ![b] = status])
    /\ UNCHANGED <<candidate, aggregate>>

\* The sidechain no longer has the burn.
MarkPegOutBurnReverted(b) ==
    LET stale == {c \in Candidates : BurnOf[c] = b /\ ActiveCandidate(c)} IN
    /\ pegOut[b] \notin {"absent", "phase2_unlocked"}
    /\ pegOut' = [pegOut EXCEPT ![b] = "burn_reverted"]
    /\ candidate' = [c \in Candidates |->
                        IF c \in stale THEN "invalidated" ELSE candidate[c]]
    /\ Revoke(ReservationsOf(stale) \cup ReservationsForBurns(Drifted(pegOut')))
    /\ UNCHANGED aggregate

-----------------------------------------------------------------------------
(* Candidates. *)

MayRecord(c) == \A d \in Candidates : ActiveCandidate(d) => ~Compete(c, d)

RecordCandidate(c) ==
    /\ Unsettled(BurnOf[c])
    /\ candidate[c] = "absent"
    /\ MayRecord(c)
    /\ candidate' = [candidate EXCEPT ![c] = "prepared"]
    /\ UNCHANGED <<pegOut, reservation, attempt, aggregate>>

\* Recovery after the loss of the database re-creates the burn and its
\* candidate, and never any authority beyond "prepared".
RecordRecoveredCandidate(c) ==
    LET inserted == IF pegOut[BurnOf[c]] = "absent"
                    THEN [pegOut EXCEPT ![BurnOf[c]] = "detected"] ELSE pegOut IN
    /\ inserted[BurnOf[c]] \in {"detected", "confirmed"}
    /\ candidate[c] = "prepared" \/ (candidate[c] = "absent" /\ MayRecord(c))
    /\ pegOut' = inserted
    /\ candidate' = [candidate EXCEPT ![c] = "prepared"]
    /\ Revoke(ReservationsOf({c}))
    /\ UNCHANGED aggregate

MarkCandidateCheckPassed(c) ==
    /\ candidate[c] = "prepared"
    /\ Unsettled(BurnOf[c])
    /\ candidate' = [candidate EXCEPT ![c] = "check_passed"]
    /\ Revoke(ReservationsOf({c}))
    /\ UNCHANGED <<pegOut, aggregate>>

InvalidateCandidate(c) ==
    /\ ActiveCandidate(c)
    /\ Invalidate({c})
    /\ UNCHANGED <<pegOut, aggregate>>

InvalidateActiveCandidates ==
    /\ \E c \in Candidates : ActiveCandidate(c)
    /\ Invalidate(Candidates)
    /\ UNCHANGED <<pegOut, aggregate>>

-----------------------------------------------------------------------------
(* Execution reservations. *)

\* The right to act on a reservation, as re-read before every step.
CurrentAuthority(r) ==
    /\ reservation[r] = "active"
    /\ candidate[CandidateOf[r]] = "check_passed"
    /\ Unsettled(BurnOf[CandidateOf[r]])

MayReserve(r) ==
    LET c == CandidateOf[r] IN
    /\ candidate[c] = "check_passed"
    /\ Unsettled(BurnOf[c])
    /\ \A t \in LegacyTxs : ActiveAggregate(t) => BurnOf[c] \notin BurnsOf[t]
    /\ \A q \in Reservations : reservation[q] = "active" => ~Compete(CandidateOf[q], c)

ReserveExecution(r) ==
    /\ reservation[r] = "absent"
    /\ MayReserve(r)
    /\ reservation' = [reservation EXCEPT ![r] = "active"]
    /\ UNCHANGED <<pegOut, candidate, attempt, aggregate>>

-----------------------------------------------------------------------------
(* Submission attempts. *)

\* Mutant: a quarantined attempt is forgotten.
NoOpenAttempt(c) ==
    \A q \in Reservations :
        attempt[q].status \notin {"absent", "quarantined"} => ~Compete(CandidateOf[q], c)

\* An attempt excludes every later one on the same burn or boxes, whatever
\* became of it.
NoPriorAttempt(c) ==
    \A q \in Reservations :
        attempt[q].status # "absent" => ~Compete(CandidateOf[q], c)

ReserveTransportAttempt(r) ==
    /\ CurrentAuthority(r)
    /\ NoPriorAttempt(CandidateOf[r])
    /\ attempt' = [attempt EXCEPT ![r] = [NoAttempt EXCEPT !.status = "pending"]]
    /\ UNCHANGED <<pegOut, candidate, reservation, aggregate>>

\* The answer of the network; nothing overwrites one that is already known.
FinalizeAttempt(r, disposition) ==
    /\ attempt[r].status = "pending"
    /\ attempt[r].disposition = "none"
    /\ reservation[r] = "active"
    /\ attempt' = [attempt EXCEPT ![r] =
          [attempt[r] EXCEPT
              !.disposition = disposition,
              !.status = CASE disposition = "accepted" -> "submitted"
                           [] disposition = "rejected" -> "rejected"
                           [] disposition = "ambiguous" -> "pending"]]
    /\ UNCHANGED <<pegOut, candidate, reservation, aggregate>>

SameInclusion(p, o) == InBlock(p) /\ InBlock(o) => p.inclusion = o.inclusion

\* The observed tip does not fall behind, or switch at the same height.
TipAdvances(p, o) ==
    o.tip.height > p.tip.height \/ o.tip = p.tip

\* Mutant: a quarantined attempt still takes observations.
MayRecordObservationAlways(r, o) ==
    LET a == attempt[r]
        seen == a.observation # NoObservation
        lost == a.status = "confirmed"
                /\ (~SameInclusion(a.observation, o) \/ o.status # "confirmed_final") IN
    /\ a.status \in {"pending", "submitted", "confirmed", "quarantined"}
    /\ seen /\ ~lost => TipAdvances(a.observation, o)
    /\ seen /\ a.status # "confirmed" => SameInclusion(a.observation, o)

MayRecordObservation(r, o) ==
    LET a == attempt[r]
        seen == a.observation # NoObservation
        lost == a.status = "confirmed"
                /\ (~SameInclusion(a.observation, o) \/ o.status # "confirmed_final") IN
    /\ a.status \in {"pending", "submitted", "confirmed"}
    /\ seen /\ ~lost => TipAdvances(a.observation, o)
    /\ seen /\ a.status # "confirmed" => SameInclusion(a.observation, o)

\* Mutant: seeing the transaction does not settle what the submitter answered.
ObservedOnly(r, o) ==
    LET a == attempt[r] IN
    CASE reservation[r] # "active" ->
            [a EXCEPT !.status = "quarantined", !.reason = "execution_reservation_revoked"]
      [] reservation[r] = "active" /\ o.status = "confirmed_final" ->
            [a EXCEPT !.status = "confirmed", !.observation = o]
      [] reservation[r] = "active" /\ o.status \in {"mempool", "confirmed_pre_finality"} ->
            [a EXCEPT !.status = "submitted", !.observation = o]
      [] OTHER -> [a EXCEPT !.observation = o]

\* What an observation makes of an attempt.
Observed(r, o) ==
    LET a == attempt[r]
        Quarantine(why) ==
            [a EXCEPT !.status = "quarantined", !.reason = why, !.observation = o]
        Seen(status) ==
            [a EXCEPT !.status = status, !.disposition = "accepted", !.observation = o] IN
    CASE reservation[r] # "active" -> Quarantine("execution_reservation_revoked")
      [] reservation[r] = "active" /\ a.status = "confirmed"
           /\ ~SameInclusion(a.observation, o)
             -> Quarantine("confirmed_transaction_reorged")
      [] reservation[r] = "active" /\ a.status = "confirmed"
           /\ SameInclusion(a.observation, o) /\ o.status # "confirmed_final"
             -> Quarantine("confirmed_transaction_disappeared")
      [] reservation[r] = "active" /\ o.status = "confirmed_final"
           /\ (a.status = "confirmed" => SameInclusion(a.observation, o))
             -> Seen("confirmed")
      [] reservation[r] = "active" /\ a.status # "confirmed"
           /\ o.status \in {"mempool", "confirmed_pre_finality"}
             -> Seen("submitted")
      [] OTHER -> [a EXCEPT !.observation = o]

RecordObservation(r, o) ==
    /\ MayRecordObservation(r, o)
    /\ attempt' = [attempt EXCEPT ![r] = Observed(r, o)]
    /\ UNCHANGED <<pegOut, candidate, reservation, aggregate>>

=============================================================================
