--------------------------- MODULE FundsAuthority ---------------------------
(***************************************************************************)
(* The funds execution authority of state-tracker.ts: one process at a time  *)
(* holds an exclusive lease, kept in a lock file and in a row of the         *)
(* database, and funds are released only under it while the circuit breaker  *)
(* is closed.  A hold is a marker file; a hold whose marker cannot be        *)
(* written falls back on removing the continuity witness and on a row that   *)
(* nobody owns.                                                              *)
(*                                                                          *)
(* Processes share files and database.  A file operation is one step, an     *)
(* immediate transaction excludes the other writers of the database but not  *)
(* the changes of files, and a process may die between any two steps.        *)
(***************************************************************************)
EXTENDS Naturals, FiniteSets

CONSTANTS
    Processes,          \* processes that open the database for writing
    MaxEpochs,          \* leases ever taken
    MaxTransports,      \* transports ever started
    MaxCrashes,
    MaxFaults           \* kinds of faults of the media, each at most once

ASSUME FundsAssumption ==
    /\ MaxEpochs \in Nat /\ MaxTransports \in Nat
    /\ MaxCrashes \in Nat /\ MaxFaults \in Nat

VARIABLES
    lock,               \* the execution lock file exists
    marker,             \* the hold marker has a directory entry
    witness,            \* the continuity witness is current
    row,                \* funds_execution_authority: the epoch, 0 if there is no row
    incident,           \* peg_in_safety_incidents has a row
    established,        \* local_continuity_state is established
    proc,               \* the processes
    epochs,             \* leases taken so far
    transports,         \* transports started
    crashes, faults, history

files == <<lock, marker, witness>>
database == <<row, incident, established>>
bounds == <<epochs, crashes, faults>>
vars == <<files, database, proc, transports, bounds, history>>

Unowned == MaxEpochs + 1                \* the epoch of a row written for recovery only
Epochs == 1..MaxEpochs
Faults == {"lock lost", "backup restored", "witness kept", "no sentinel"}

Places == {"closed", "open", "marking", "unwitness", "sentinel", "last resort",
           "recording", "locked", "withdrawing", "releasing", "reading", "checking", "cleared"}
Jobs == {"none", "open", "hold", "incident", "authorize", "transport"}
NoView == [row |-> 0, incident |-> FALSE]
Closed == [place |-> "closed", job |-> "none", lease |-> 0, retained |-> FALSE, ticket |-> 0,
           view |-> NoView, latched |-> FALSE, warned |-> FALSE]

States == [place : Places, job : Jobs, lease : 0..MaxEpochs, retained : BOOLEAN,
           ticket : 0..MaxEpochs, view : [row : 0..Unowned, incident : BOOLEAN],
           latched : BOOLEAN, warned : BOOLEAN]

\* reported: a hold was asked for, and its caller was told that it stands.
\* shadowed: the row a failed hold relied on was the lease of another process.
\* died: a process died while it held the lease.
History == [reported : BOOLEAN, shadowed : BOOLEAN, died : BOOLEAN]

FundsTypeOK ==
    /\ lock \in BOOLEAN /\ marker \in BOOLEAN /\ witness \in BOOLEAN
    /\ incident \in BOOLEAN /\ established \in BOOLEAN
    /\ row \in 0..Unowned
    /\ proc \in [Processes -> States]
    /\ epochs \in 0..MaxEpochs
    /\ transports \in Nat /\ crashes \in Nat
    /\ faults \subseteq Faults
    /\ history \in History

\* A fresh database requires recovery; one whose continuity was established has
\* its witness.
Init ==
    /\ lock = FALSE /\ marker = FALSE
    /\ established \in BOOLEAN /\ witness = established
    /\ row = 0 /\ incident = FALSE
    /\ proc = [p \in Processes |-> Closed]
    /\ epochs = 0 /\ transports = 0 /\ crashes = 0 /\ faults = {}
    /\ history = [reported |-> FALSE, shadowed |-> FALSE, died |-> FALSE]

At(p, place) == proc[p].place = place
Lease(p) == proc[p].lease
Become(p, rec) == proc' = [proc EXCEPT ![p] = rec]
Goto(p, place) == Become(p, [proc[p] EXCEPT !.place = place])
Idle(p, rec) == [rec EXCEPT !.place = "open", !.job = "none", !.view = NoView, !.warned = FALSE]

\* Nobody is inside an immediate transaction.
Unlocked == \A q \in Processes : proc[q].place \notin {"checking", "cleared"}

MayFail(f) == f \notin faults /\ Cardinality(faults) < MaxFaults

\* Another process holds the authority: nothing may be written without it.
Writable(p) == lock => Lease(p) # 0

-----------------------------------------------------------------------------
(* Opening and closing the database. *)

\* The constructor refuses a retained lock, and holds a database whose
\* continuity was not established.
Open(p) ==
    /\ At(p, "closed")
    /\ ~lock
    /\ Become(p, IF established THEN [Closed EXCEPT !.place = "open"]
                 ELSE [Closed EXCEPT !.place = "marking", !.job = "open"])
    /\ UNCHANGED <<files, database, transports, bounds, history>>

Owned(p) == Lease(p) # 0 /\ ~proc[p].retained /\ lock /\ row = Lease(p)

\* What p leaves behind when it ends or forgets its lease without releasing it.
Abandons(p) ==
    history' = [history EXCEPT !.died = @ \/ (Lease(p) # 0 /\ row = Lease(p))]

\* close releases a lease first; when that throws, lock and row stay.
Close(p) ==
    /\ At(p, "open")
    /\ ~Owned(p)
    /\ Become(p, Closed)
    /\ Abandons(p)
    /\ UNCHANGED <<files, database, transports, bounds>>

Crash(p) ==
    /\ ~At(p, "closed")
    /\ crashes < MaxCrashes
    /\ crashes' = crashes + 1
    /\ Become(p, Closed)
    /\ Abandons(p)
    /\ UNCHANGED <<files, database, transports, epochs, faults>>

-----------------------------------------------------------------------------
(* The lease. *)

\* Mutant: a lock that exists is removed by the cleanup of the failed attempt.
BeginAcquireRemoving(p) ==
    /\ At(p, "open") /\ Lease(p) = 0 /\ ~proc[p].retained
    /\ Goto(p, IF lock THEN "withdrawing" ELSE "locked")
    /\ lock' = TRUE
    /\ UNCHANGED <<marker, witness, database, transports, bounds, history>>

\* The lock file is created exclusively: an existing one is an error, and stays.
BeginAcquire(p) ==
    /\ At(p, "open") /\ Lease(p) = 0 /\ ~proc[p].retained
    /\ ~lock
    /\ Goto(p, "locked")
    /\ lock' = TRUE
    /\ UNCHANGED <<marker, witness, database, transports, bounds, history>>

\* Mutant: a retained row is replaced.
TakeRowReplacing(p) ==
    /\ At(p, "locked")
    /\ Unlocked /\ epochs < MaxEpochs
    /\ epochs' = epochs + 1 /\ row' = epochs + 1
    /\ Become(p, [proc[p] EXCEPT !.place = "open", !.lease = epochs + 1])
    /\ UNCHANGED <<files, incident, established, transports, crashes, faults, history>>

\* The row is inserted if there is none.
TakeRow(p) ==
    /\ At(p, "locked")
    /\ Unlocked /\ epochs < MaxEpochs
    /\ row = 0
    /\ epochs' = epochs + 1 /\ row' = epochs + 1
    /\ Become(p, [proc[p] EXCEPT !.place = "open", !.lease = epochs + 1])
    /\ UNCHANGED <<files, incident, established, transports, crashes, faults, history>>

\* A retained row, or a failed write of lock file or row.
AcquireFails(p) ==
    /\ At(p, "locked")
    /\ Goto(p, "withdrawing")
    /\ UNCHANGED <<files, database, transports, bounds, history>>

\* The lock is unlinked by its path; when that fails it stays.
Withdraw(p) ==
    /\ At(p, "withdrawing")
    /\ lock' \in {FALSE, lock}
    /\ Goto(p, "open")
    /\ UNCHANGED <<marker, witness, database, transports, bounds, history>>

BeginRelease(p) ==
    /\ At(p, "open")
    /\ Owned(p)
    /\ Unlocked
    /\ row' = 0
    /\ Goto(p, "releasing")
    /\ UNCHANGED <<files, incident, established, transports, bounds, history>>

EndRelease(p) ==
    /\ At(p, "releasing")
    /\ lock' \in {FALSE, lock}
    /\ Become(p, [proc[p] EXCEPT !.place = "open", !.lease = 0])
    /\ UNCHANGED <<marker, witness, database, transports, bounds, history>>

\* The lease is forgotten, lock and row stay: the row could not be deleted, or
\* the authority is retained for recovery.
ReleaseFails(p) ==
    /\ At(p, "open")
    /\ Owned(p) \/ (Lease(p) # 0 /\ proc[p].retained)
    /\ Become(p, [proc[p] EXCEPT !.lease = 0])
    /\ Abandons(p)
    /\ UNCHANGED <<files, database, transports, bounds>>

-----------------------------------------------------------------------------
(* The hold. *)

Hold(p, job) ==
    /\ At(p, "open")
    /\ Writable(p)
    /\ Become(p, [proc[p] EXCEPT !.place = "marking", !.job = job])
    /\ UNCHANGED <<files, database, transports, bounds, history>>

\* The marker is created, or exists already.
Mark(p) ==
    /\ At(p, "marking")
    /\ marker' = TRUE
    /\ Become(p, IF proc[p].job = "incident" THEN [proc[p] EXCEPT !.place = "recording"]
                 ELSE Idle(p, proc[p]))
    /\ history' = [history EXCEPT !.reported = TRUE]
    /\ UNCHANGED <<lock, witness, database, transports, bounds>>

\* Mutant: the process goes on as if it had not failed.
MarkFailsForgotten(p) ==
    /\ At(p, "marking") /\ ~marker
    /\ marker' \in BOOLEAN
    /\ Goto(p, "unwitness")
    /\ UNCHANGED <<lock, witness, database, transports, bounds, history>>

\* It could not be created, or was created and not written.
MarkFails(p) ==
    /\ At(p, "marking") /\ ~marker
    /\ marker' \in BOOLEAN
    /\ Become(p, [proc[p] EXCEPT !.place = "unwitness", !.retained = TRUE])
    /\ UNCHANGED <<lock, witness, database, transports, bounds, history>>

RemoveWitness(p) ==
    /\ At(p, "unwitness")
    /\ witness' = FALSE
    /\ Goto(p, "sentinel")
    /\ UNCHANGED <<lock, marker, database, transports, bounds, history>>

WitnessStays(p) ==
    /\ At(p, "unwitness") /\ witness
    /\ MayFail("witness kept")
    /\ faults' = faults \cup {"witness kept"}
    /\ Goto(p, "last resort")
    /\ UNCHANGED <<files, database, transports, epochs, crashes, history>>

\* The failed hold throws; a constructor leaves no object behind.
Throw(p) == Become(p, IF proc[p].job = "open" THEN Closed ELSE Idle(p, proc[p]))

\* The row is inserted unless there is one, of whomever.
InsertSentinel(p) ==
    /\ proc[p].place \in {"sentinel", "last resort"}
    /\ Unlocked
    /\ row' = IF row = 0 THEN Unowned ELSE row
    /\ history' = [history EXCEPT
          !.reported = TRUE,
          !.shadowed = @ \/ (row # 0 /\ \E q \in Processes \ {p} : Lease(q) = row)]
    /\ Throw(p)
    /\ UNCHANGED <<files, incident, established, transports, bounds>>

\* Without the witness removed either, the caller is told that nothing stands.
SentinelFails(p) ==
    /\ proc[p].place \in {"sentinel", "last resort"}
    /\ MayFail("no sentinel")
    /\ faults' = faults \cup {"no sentinel"}
    /\ history' = [history EXCEPT !.reported = @ \/ At(p, "sentinel")]
    /\ Throw(p)
    /\ UNCHANGED <<files, database, transports, epochs, crashes>>

\* The incident's own row; when it cannot be written the hold stands.
RecordIncident(p) ==
    /\ At(p, "recording")
    /\ Unlocked
    /\ incident' \in {TRUE, incident}
    /\ Become(p, Idle(p, proc[p]))
    /\ UNCHANGED <<files, row, established, transports, bounds, history>>

-----------------------------------------------------------------------------
(* The circuit breaker, and the release of funds. *)

\* The database is read as it was when the read began, the files as they are.
View == [row |-> row, incident |-> incident]

\* Mutant: only the database counts.
BreakerOpenInDatabase(p, view) ==
    view.incident \/ ~established \/ proc[p].retained \/ (view.row # 0 /\ ~lock)

BreakerOpen(p, view) ==
    \/ view.incident \/ ~established
    \/ ~witness \/ marker
    \/ proc[p].retained \/ (view.row # 0 /\ ~lock)

\* The daemon latches an open breaker until it is restarted: it looks once in its
\* constructor, before it takes the lease, and then in every tick.
Observe(p) ==
    /\ At(p, "open") /\ ~proc[p].latched
    /\ Become(p, [proc[p] EXCEPT !.place = "reading", !.view = View])
    /\ UNCHANGED <<files, database, transports, bounds, history>>

EndObserve(p) ==
    /\ At(p, "reading")
    /\ LET open == BreakerOpen(p, proc[p].view) IN
       Become(p, [Idle(p, proc[p]) EXCEPT !.latched = @ \/ open])
    /\ UNCHANGED <<files, database, transports, bounds, history>>

\* An authorisation, or the start of a transport under an earlier one, takes the
\* write lock of the database before it looks.
Begin(p, job) ==
    /\ At(p, "open") /\ ~proc[p].retained
    /\ job = "transport" => Writable(p) /\ proc[p].ticket # 0 /\ transports < MaxTransports
    /\ Unlocked
    /\ Become(p, [proc[p] EXCEPT !.place = "checking", !.job = job, !.view = View,
                                 !.warned = history.reported])
    /\ UNCHANGED <<files, database, transports, bounds, history>>

Authorised(p) ==
    /\ ~BreakerOpen(p, proc[p].view)
    /\ Owned(p)
    /\ proc[p].job = "transport" => proc[p].ticket = Lease(p)

Check(p) ==
    /\ At(p, "checking")
    /\ IF Authorised(p) THEN Goto(p, "cleared") ELSE Become(p, Idle(p, proc[p]))
    /\ UNCHANGED <<files, database, transports, bounds, history>>

\* The transport is started inside the transaction.
Commit(p) ==
    /\ At(p, "cleared")
    /\ IF proc[p].job = "transport"
       THEN transports' = transports + 1 /\ Become(p, Idle(p, proc[p]))
       ELSE /\ Become(p, [Idle(p, proc[p]) EXCEPT !.ticket = Lease(p)])
            /\ UNCHANGED transports
    /\ UNCHANGED <<files, database, bounds, history>>

-----------------------------------------------------------------------------
(* Faults of the media. *)

\* The lock file is lost while it is in use.
LoseLock ==
    /\ lock
    /\ MayFail("lock lost")
    /\ faults' = faults \cup {"lock lost"}
    /\ lock' = FALSE
    /\ UNCHANGED <<marker, witness, database, proc, transports, epochs, crashes, history>>

\* A stale clean backup of the database takes its place; the files stay.
RestoreBackup ==
    /\ \A p \in Processes : At(p, "closed")
    /\ MayFail("backup restored")
    /\ faults' = faults \cup {"backup restored"}
    /\ row' = 0 /\ incident' = FALSE
    /\ UNCHANGED <<files, established, proc, transports, epochs, crashes, history>>

-----------------------------------------------------------------------------
Lifetime(p) == Open(p) \/ Close(p) \/ Crash(p)
Leasing(p) ==
    \/ BeginAcquire(p) \/ TakeRow(p) \/ AcquireFails(p) \/ Withdraw(p)
    \/ BeginRelease(p) \/ EndRelease(p) \/ ReleaseFails(p)
Holding(p) ==
    \/ \E job \in {"hold", "incident"} : Hold(p, job)
    \/ Mark(p) \/ MarkFails(p) \/ RemoveWitness(p) \/ WitnessStays(p)
    \/ InsertSentinel(p) \/ SentinelFails(p) \/ RecordIncident(p)
Releasing(p) ==
    \/ Observe(p) \/ EndObserve(p)
    \/ \E job \in {"authorize", "transport"} : Begin(p, job)
    \/ Check(p) \/ Commit(p)

Next ==
    \/ \E p \in Processes : Lifetime(p) \/ Leasing(p) \/ Holding(p) \/ Releasing(p)
    \/ LoseLock \/ RestoreBackup

Spec == Init /\ [][Next]_vars

-----------------------------------------------------------------------------
\* A process that acts under a lease: it has not begun to give it back.
Holder(p) == Lease(p) # 0 /\ ~At(p, "releasing")

\* However processes race for the lock, lose it, fail half-way, die or restore
\* an old database, at most one acts under a lease, and the row is its own.
OneHolder ==
    \A p \in Processes : Holder(p) =>
        row = Lease(p) /\ \A q \in Processes : Holder(q) => q = p

\* After a process ended without giving its lease back nobody acts under a
\* lease again, also if the lock file is lost or the database is an old one.
LeaseNotInherited ==
    history.died /\ ~({"lock lost", "backup restored"} \subseteq faults) =>
        \A p \in Processes : ~Holder(p)

\* What stands in the way of a release: files or continuity keep the breaker of every
\* process open, or the row is one that no process may act under.  (While a lock file
\* is there, the row alone does not open the breaker of a process without lease.)
DurablyHeld ==
    \/ ~established \/ marker \/ ~witness
    \/ row # 0 /\ \A p \in Processes : Holder(p) => proc[p].retained

SingleFault == \A f, g \in faults : f = g

\* A hold whose caller was told that it stands keeps standing in the way, although
\* its marker could not be written and one thing more went wrong.  The row is
\* no help when it is the lease of another process, which will delete it.
HoldKept ==
    (history.reported /\ SingleFault /\ ~history.shadowed) => DurablyHeld

\* A process that looks under its lease latches the breaker for a reason: what others
\* do with the lock and the row while it reads never looks to it like a retained
\* authority.  (Before it has the lease it may read the row of a process that then
\* gives row and lock back, and latch for nothing.)
HolderNotMisled ==
    [][\A p \in Processes :
          Holder(p) /\ ~proc[p].latched /\ proc'[p].latched =>
              \/ ~established \/ marker \/ ~witness \/ incident
              \/ proc[p].retained \/ "lock lost" \in faults]_vars

\* A transport starts only under a lease that is still the one in the database,
\* and never when a hold had been reported before its last check began.
TransportAuthorised ==
    [][\A p \in Processes :
          (transports' # transports /\ At(p, "cleared") /\ ~At(p, "cleared")') =>
              /\ OneHolder /\ Holder(p)
              /\ ~(proc[p].warned /\ SingleFault /\ ~history.shadowed)
              /\ ~incident]_vars
=============================================================================
