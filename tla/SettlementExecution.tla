------------------------- MODULE SettlementExecution -------------------------
(***************************************************************************)
(* The execution of authenticated settlements: concurrent runs of the        *)
(* lifecycle in relayer-core/authenticated-settlement-execution-lifecycle.ts *)
(* behind the adapters of                                                    *)
(* authenticated-settlement-reserved-execution-compatibility.ts, the         *)
(* reconciliation that observes durable attempts, the rest of the daemon     *)
(* working on the same tables, and the Ergo network.                         *)
(*                                                                          *)
(* A run is cut where it awaits: what it learnt before may be stale after.   *)
(* A rejected await, a refused operation and the death of the process all    *)
(* end a run wherever it is, and only the tables survive.                    *)
(***************************************************************************)
EXTENDS SettlementJournals, ErgoChain

CONSTANT Executors          \* concurrent runs of the lifecycle

VARIABLES
    run,            \* where a run is, for which reservation, and what it observed
    monitor         \* the attempt reconciliation looks at, and what it observed

processes == <<run, monitor>>
vars == <<tables, chain, processes>>

Phases == {"preparing", "checked", "reserved", "revalidating", "journaled", "sent",
           "accepted", "observed"}
Idle == [phase |-> "idle", view |-> NoObservation]

RunsTypeOK ==
    /\ run \in [Executors ->
                  [phase : Phases, job : Reservations, view : Observation \cup {NoObservation}]
                  \cup {Idle}]
    /\ monitor \in [phase : {"observed"}, job : Reservations, view : Observation] \cup {Idle}

Init ==
    /\ TablesInit
    /\ ChainInit
    /\ run = [e \in Executors |-> Idle]
    /\ monitor = Idle

-----------------------------------------------------------------------------
(* One run of the lifecycle. *)

At(e, phase) == run[e].phase = phase
Job(e) == run[e].job
Goto(e, phase) == run' = [run EXCEPT ![e] = [run[e] EXCEPT !.phase = phase]]

\* It takes up a candidate and awaits revalidation, signer, checker and the
\* stable views of both chains.
Prepare(e, r) ==
    /\ At(e, "idle")
    /\ ActiveCandidate(CandidateOf[r])
    /\ run' = [run EXCEPT ![e] = [phase |-> "preparing", job |-> r, view |-> NoObservation]]
    /\ UNCHANGED <<tables, chain, monitor>>

\* The check is journaled; an exact replay of a journaled check succeeds too.
RecordCheck(e) ==
    LET c == CandidateOf[Job(e)] IN
    /\ At(e, "preparing")
    /\ \/ MarkCandidateCheckPassed(c)
       \/ /\ candidate[c] = "check_passed" /\ Unsettled(BurnOf[c])
          /\ UNCHANGED tables
    /\ Goto(e, "checked")
    /\ UNCHANGED <<chain, monitor>>

\* So does an exact replay of an active reservation: two runs may then hold it.
Reserve(e) ==
    /\ At(e, "checked")
    /\ \/ ReserveExecution(Job(e))
       \/ CurrentAuthority(Job(e)) /\ UNCHANGED tables
    /\ Goto(e, "reserved")
    /\ UNCHANGED <<chain, monitor>>

\* Authority is read again before the immediate revalidation is awaited.
BeginHandoff(e) ==
    /\ At(e, "reserved")
    /\ CurrentAuthority(Job(e))
    /\ Goto(e, "revalidating")
    /\ UNCHANGED <<tables, chain, monitor>>

\* Mutant: a pending attempt of the same reservation is taken for a replay.
ReserveTransportReplay(e) ==
    /\ At(e, "revalidating")
    /\ CurrentAuthority(Job(e))
    /\ \/ ReserveTransportAttempt(Job(e))
       \/ attempt[Job(e)].status = "pending" /\ UNCHANGED tables
    /\ Goto(e, "journaled")
    /\ UNCHANGED <<chain, monitor>>

\* The durable attempt, written before anything can reach the network.
ReserveTransport(e) ==
    /\ At(e, "revalidating")
    /\ ReserveTransportAttempt(Job(e))
    /\ Goto(e, "journaled")
    /\ UNCHANGED <<chain, monitor>>

\* Mutant: authority is not read again after the approval was awaited.
SubmitUnchecked(e) ==
    /\ At(e, "journaled")
    /\ Broadcast(CandidateOf[Job(e)])
    /\ Goto(e, "sent")
    /\ UNCHANGED <<tables, monitor>>

\* After the approval was awaited, authority is read once more and the
\* transaction is handed over without another await in between.
Submit(e) ==
    /\ At(e, "journaled")
    /\ CurrentAuthority(Job(e))
    /\ Broadcast(CandidateOf[Job(e)])
    /\ Goto(e, "sent")
    /\ UNCHANGED <<tables, monitor>>

\* The answer is journaled: only an accepted submission goes on to observe.
Finalize(e, disposition) ==
    /\ At(e, "sent")
    /\ FinalizeAttempt(Job(e), disposition)
    /\ IF disposition = "accepted" THEN Goto(e, "accepted")
       ELSE run' = [run EXCEPT ![e] = Idle]
    /\ UNCHANGED <<chain, monitor>>

ObserveConfirmation(e) ==
    /\ At(e, "accepted")
    /\ run' = [run EXCEPT ![e] = [run[e] EXCEPT !.phase = "observed",
                                                !.view = View(CandidateOf[Job(e)])]]
    /\ UNCHANGED <<tables, chain, monitor>>

RecordConfirmation(e) ==
    /\ At(e, "observed")
    /\ RecordObservation(Job(e), run[e].view)
    /\ run' = [run EXCEPT ![e] = Idle]
    /\ UNCHANGED <<chain, monitor>>

\* A throw, a refused operation, a lost response or a crash.
EndRun(e) ==
    /\ ~At(e, "idle")
    /\ run' = [run EXCEPT ![e] = Idle]
    /\ UNCHANGED <<tables, chain, monitor>>

Execute(e) ==
    \/ \E r \in Reservations : Prepare(e, r)
    \/ RecordCheck(e)
    \/ Reserve(e)
    \/ BeginHandoff(e)
    \/ ReserveTransport(e)
    \/ Submit(e)
    \/ \E d \in {"accepted", "rejected", "ambiguous"} : Finalize(e, d)
    \/ ObserveConfirmation(e)
    \/ RecordConfirmation(e)
    \/ EndRun(e)

-----------------------------------------------------------------------------
(* Reconciliation: it observes, never submits. *)


\* Mutant: an attempt without an answer is not observed.
ObservableAnswered(r) == attempt[r].status \in {"submitted", "confirmed"}

Observable(r) == attempt[r].status \in {"pending", "submitted", "confirmed"}

Observe(r) ==
    /\ monitor = Idle
    /\ Observable(r)
    /\ monitor' = [phase |-> "observed", job |-> r, view |-> View(CandidateOf[r])]
    /\ UNCHANGED <<tables, chain, run>>

\* Mutant: the observation is written whatever became of the attempt meanwhile.
ReconcileAlways ==
    /\ monitor # Idle
    /\ attempt' = [attempt EXCEPT ![monitor.job] = Observed(monitor.job, monitor.view)]
    /\ monitor' = Idle
    /\ UNCHANGED <<pegOut, candidate, reservation, aggregate, chain, run>>

\* A refused observation fails this attempt only, and is taken afresh later.
Reconcile ==
    /\ monitor # Idle
    /\ \/ RecordObservation(monitor.job, monitor.view)
       \/ ~MayRecordObservation(monitor.job, monitor.view) /\ UNCHANGED tables
    /\ monitor' = Idle
    /\ UNCHANGED <<chain, run>>

-----------------------------------------------------------------------------
Next ==
    \/ \E e \in Executors : Execute(e)
    \/ \E r \in Reservations : Observe(r)
    \/ Reconcile
    \/ (PegOutNext \/ CandidateNext \/ AggregateNext) /\ UNCHANGED <<chain, processes>>
    \/ ChainNext /\ UNCHANGED <<tables, processes>>

Spec == Init /\ [][Next]_vars

\* Nothing in the repository schedules reconciliation, and nothing is assumed of the
\* runs: these say what a caller and the network would have to provide.  A caller
\* that keeps reconciling observes every observable attempt again and again, and
\* records or drops what it saw.
Reconciling ==
    /\ \A r \in Reservations : SF_vars(Observe(r))
    /\ WF_vars(Reconcile)

BlocksCome == WF_vars(Mine({}) /\ UNCHANGED <<tables, processes>>)

FairSpec == Spec /\ Reconciling /\ BlocksCome

-----------------------------------------------------------------------------
(* Safety. *)

\* Types of the tables, the chain and the processes.
ExecutionTypeOK == TypeOK /\ ChainTypeOK /\ RunsTypeOK

\* The transactions some durable attempt names.
Claimed == {CandidateOf[r] : r \in {q \in Reservations : attempt[q].status # "absent"}}

Payout == INSTANCE PayoutOnce WITH
    claimed <- Claimed,
    Conflicts <- {p \in Candidates \X Candidates : Compete(p[1], p[2])}

\* Whatever runs overlap, fail, crash or start over, a settlement transaction
\* reaches the network only after its durable attempt, at most once, and never
\* beside one that pays the same burn or spends the same DUP box or vault.
ImplementsPayoutOnce == Payout!Spec

\* Runs, reconciliation and daemon together only do to the tables what the
\* journal operations allow in any order.
ImplementsJournals == JournalsSpec

\* When a transaction is handed over, an active reservation, a checked candidate
\* and an unsettled burn still stand behind it, and its attempt is pending: not
\* answered, not quarantined and never seen on the chain.
BroadcastAuthorised ==
    [][\A c \in Candidates : broadcasts'[c] > broadcasts[c] =>
          \E r \in Reservations :
              /\ CandidateOf[r] = c
              /\ CurrentAuthority(r)
              /\ attempt[r].status = "pending" /\ attempt[r].disposition = "none"
              /\ attempt[r].observation.status \in {"none", "absent"}]_vars

-----------------------------------------------------------------------------
(* What reconciliation achieves for a caller that keeps running it. *)

\* The block recorded for an attempt is not the one that holds its transaction.
Displaced(r) ==
    /\ InBlock(attempt[r].observation)
    /\ included[CandidateOf[r]] # attempt[r].observation.inclusion


Unresolved(r) == attempt[r].status \in {"pending", "submitted"}

\* If reconciliation keeps being run and blocks keep coming, an attempt stays
\* unresolved for ever only if its transaction does not stay buried, or was
\* recorded in another block before it was final.
UnresolvedOnlyIfDisplaced ==
    Reconciling /\ BlocksCome => \A r \in Reservations :
        <>[]Unresolved(r) => <>[](~Buried(CandidateOf[r]) \/ Displaced(r))

\* For a caller that keeps reconciling (FairSpec), every attempt whose transaction
\* stays buried is eventually resolved: confirmed, or quarantined when its inclusion
\* changed.
BuriedAttemptResolved ==
    \A r \in Reservations :
        <>[]Buried(CandidateOf[r]) => []<>~Unresolved(r)
=============================================================================
