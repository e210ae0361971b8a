-------------------------- MODULE AggregateClaims --------------------------
(***************************************************************************)
(* The legacy aggregate settlement journal as the other journals see it:    *)
(* which transaction claims which burns, and what each operation does to the *)
(* peg-out rows.  Its lifecycle version, transport reservation and recorded  *)
(* observation decide when an operation is allowed; here an operation is     *)
(* allowed whenever the statuses permit.                                     *)
(***************************************************************************)
EXTENDS SettlementTables

\* Rows of the burns of t in status `from' take status `to'.
MoveBurns(t, from, to) ==
    [b \in Burns |-> IF b \in BurnsOf[t] /\ pegOut[b] = from THEN to ELSE pegOut[b]]

BurnsIn(t, S) == \A b \in BurnsOf[t] : pegOut[b] \in S

\* Mutant: admission does not look at the reservations.
RecordUnreservedAggregateAttempt(t) ==
    /\ aggregate[t] \in {"absent", "abandoned"}
    /\ \A b \in BurnsOf[t] : pegOut[b] # "absent"
    /\ \A u \in LegacyTxs \ {t} : ActiveAggregate(u) => BurnsOf[u] \cap BurnsOf[t] = {}
    /\ aggregate' = [aggregate EXCEPT ![t] = "pending"]
    /\ UNCHANGED <<pegOut, candidate, reservation, attempt>>

\* Admission, also of an abandoned attempt: no active reservation and no
\* other active attempt holds one of its burns.
RecordAggregateAttempt(t) ==
    /\ aggregate[t] \in {"absent", "abandoned"}
    /\ \A r \in ReservationsForBurns(BurnsOf[t]) : reservation[r] # "active"
    /\ \A b \in BurnsOf[t] : pegOut[b] # "absent"
    /\ \A u \in LegacyTxs \ {t} : ActiveAggregate(u) => BurnsOf[u] \cap BurnsOf[t] = {}
    /\ aggregate' = [aggregate EXCEPT ![t] = "pending"]
    /\ UNCHANGED <<pegOut, candidate, reservation, attempt>>

MarkAggregateAttemptSubmitted(t) ==
    /\ aggregate[t] = "pending"
    /\ aggregate' = [aggregate EXCEPT ![t] = "submitted"]
    /\ UNCHANGED <<pegOut, candidate, reservation, attempt>>

\* Recovery sees the transaction in the mempool or in a block.
RestoreAggregateAttempt(t) ==
    /\ ActiveAggregate(t)
    /\ BurnsIn(t, {"detected", "confirmed", "aggregate_submitted"})
    /\ aggregate' = [aggregate EXCEPT ![t] = "submitted"]
    /\ SetPegOuts([b \in Burns |->
                      IF b \in BurnsOf[t] THEN "aggregate_submitted" ELSE pegOut[b]])
    /\ UNCHANGED candidate

\* Recovery finds a transaction gone that it had seen in a block, not yet final.
RollBackAggregateAttempt(t) ==
    /\ aggregate[t] = "submitted"
    /\ BurnsIn(t, {"detected", "confirmed", "aggregate_submitted"})
    /\ aggregate' = [aggregate EXCEPT ![t] = "pending"]
    /\ SetPegOuts(MoveBurns(t, "aggregate_submitted", "detected"))
    /\ UNCHANGED candidate

ConfirmSubmittedAggregate(t) ==
    /\ aggregate[t] = "submitted"
    /\ BurnsIn(t, {"aggregate_submitted"})
    /\ aggregate' = [aggregate EXCEPT ![t] = "confirmed"]
    /\ SetPegOuts(MoveBurns(t, "aggregate_submitted", "phase2_unlocked"))
    /\ UNCHANGED candidate

\* Given up before it was ever handed to the network.
MarkAggregateAttemptAbandoned(t) ==
    /\ aggregate[t] = "pending"
    /\ aggregate' = [aggregate EXCEPT ![t] = "abandoned"]
    /\ UNCHANGED <<pegOut, candidate, reservation, attempt>>

\* Given up because the sidechain no longer has the burns B.
InvalidatePendingAggregate(t, B) ==
    LET stale == {c \in Candidates : BurnOf[c] \in B /\ ActiveCandidate(c)} IN
    /\ aggregate[t] = "pending"
    /\ B \subseteq BurnsOf[t]
    /\ \A b \in B : pegOut[b] \notin {"absent", "phase2_unlocked"}
    /\ aggregate' = [aggregate EXCEPT ![t] = "abandoned"]
    /\ pegOut' = [b \in Burns |-> IF b \in B THEN "burn_reverted" ELSE pegOut[b]]
    /\ candidate' = [c \in Candidates |->
                        IF c \in stale THEN "invalidated" ELSE candidate[c]]
    /\ Revoke(ReservationsOf(stale) \cup ReservationsForBurns(Drifted(pegOut')))

\* Mutant: the rows stay submitted.
AbandonSubmittedAttemptOnly(t) ==
    /\ aggregate[t] = "submitted"
    /\ BurnsIn(t, {"detected", "confirmed", "aggregate_submitted"})
    /\ aggregate' = [aggregate EXCEPT ![t] = "abandoned"]
    /\ UNCHANGED <<pegOut, candidate, reservation, attempt>>

\* Given up because two sources saw neither the transaction nor its mempool entry.
AbandonSubmittedAggregate(t) ==
    /\ aggregate[t] = "submitted"
    /\ BurnsIn(t, {"detected", "confirmed", "aggregate_submitted"})
    /\ aggregate' = [aggregate EXCEPT ![t] = "abandoned"]
    /\ SetPegOuts(MoveBurns(t, "aggregate_submitted", "detected"))
    /\ UNCHANGED candidate

AbandonPendingAggregateTransport(t) ==
    /\ aggregate[t] = "pending"
    /\ BurnsIn(t, {"detected", "confirmed", "burn_reverted"})
    /\ aggregate' = [aggregate EXCEPT ![t] = "abandoned"]
    /\ UNCHANGED <<pegOut, candidate, reservation, attempt>>

AggregateNext ==
    \E t \in LegacyTxs :
        \/ RecordAggregateAttempt(t)
        \/ MarkAggregateAttemptSubmitted(t)
        \/ RestoreAggregateAttempt(t)
        \/ RollBackAggregateAttempt(t)
        \/ ConfirmSubmittedAggregate(t)
        \/ MarkAggregateAttemptAbandoned(t)
        \/ \E B \in SUBSET BurnsOf[t] : InvalidatePendingAggregate(t, B)
        \/ AbandonSubmittedAggregate(t)
        \/ AbandonPendingAggregateTransport(t)

=============================================================================
