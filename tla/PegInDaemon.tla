------------------------------ MODULE PegInDaemon ------------------------------
(***************************************************************************)
(* Peg-ins in the relayer daemon: the transition coordinator of              *)
(* peg-in-transition.ts (observeCommitment, advance, reconcileMinted), its   *)
(* callers in relayer-daemon.ts (processPegIns, reconcilePegIns with its     *)
(* cursor, the reorganisation path of tick) and the recollection of          *)
(* peg-in-runtime-reconciliation.ts.                                         *)
(*                                                                          *)
(* The daemon is one process that awaits one read after the other, and both  *)
(* chains move at every await.  Nobody else writes the rows, so the row a    *)
(* job was selected with is the row of the table.  A crash loses everything  *)
(* but the tables and the hold file.                                         *)
(***************************************************************************)
EXTENDS PegInJournal, ErgoBranches

CONSTANTS
    LockOf,         \* the transaction that created a peg-in's lock box
    Kinds,          \* kinds of peg-ins that occur
    Retained,       \* statuses in which an earlier release may have left a row
    Confirms,       \* pegInCommitConfirmations
    Recollection,   \* what the runtime recollection is and answers
    BatchLimit,     \* rows of a periodic reconciliation
    PageLimit,      \* rows of a recollection
    ReadsFail,      \* whether reads and writes of incidents may fail
    MaxMints,       \* bound on the blocks a mint is mined in
    MaxCrashes      \* bound on crashes

\* "off": not configured.  "holding": the pass of the repository, which holds
\* rows and never authorises selection.  "authorising": the other answer the
\* daemon is written for, which no pass of the repository gives.
Recollections == {"off", "holding", "authorising"}

\* A lock of an earlier contract, or one of the active contract whose commitment
\* creates the exact vault or another box.
PegInKinds == {"exact", "inexact", "legacy"}

ASSUME PegInDaemonAssumption ==
    /\ LockOf \in [PegIns -> ChainTxs] /\ Kinds \subseteq PegInKinds
    /\ Retained \subseteq {"absent"} \cup Pending \cup Submitted
    /\ Txs \subseteq ChainTxs /\ \A p \in PegIns : ParentOf[CommitOf[p]] = LockOf[p]
    /\ JournalBlocks = Blocks /\ MintBlocks = 1..MaxMints /\ Heights = 1..MaxHeight
    /\ Confirms \in Nat \ {0} /\ Recollection \in Recollections
    /\ BatchLimit \in Nat \ {0} /\ PageLimit \in Nat \ {0}
    /\ MaxHeight > Confirms /\ MaxMints \in Nat \ {0}
    /\ ReadsFail \in BOOLEAN /\ MaxCrashes \in Nat

VARIABLES
    kind,           \* what a peg-in is
    side,           \* the mint of each peg-in on the sidechain
    highest,        \* history: the greatest height so far
    deepest,        \* history: how far below it a reorganisation has reached
    baseline,       \* lastErgoHeight and lastErgoHeaderId
    reorgPending,   \* pegInReorgReconciliationPending
    fundsHeld,      \* fundsReleaseHoldOpen
    cursor,         \* peg_in_reconcile_cursor
    work,           \* where the daemon is
    crashes

chains == <<branchVars, kind, side, highest, deepest>>
memory == <<baseline, reorgPending, fundsHeld>>
vars == <<pegInVars, chains, memory, cursor, work, crashes>>

Places == {"down", "idle", "detect", "next", "tx", "header", "source", "vault", "processed",
           "still", "confirmation", "expiry", "legacySource", "legacyProcessed", "incident",
           "held", "select", "register", "recollect", "record", "gate", "cycle"}

NoJob == 0
Idle == [place |-> "idle", tip |-> NoBlock, pass |-> "all", starting |-> FALSE, todo |-> {},
         job |-> NoJob, stage |-> "minted", seen |-> NoBlock, answer |-> FALSE,
         canonical |-> FALSE, conclusive |-> TRUE, suspect |-> {}, last |-> 0]
Down == [Idle EXCEPT !.place = "down"]

Works == [place : Places, tip : Blocks \cup {NoBlock}, pass : {"all", "batch", "legacy", "pending"},
          starting : BOOLEAN, todo : SUBSET PegIns, job : PegIns \cup {NoJob},
          stage : {"submitted", "canonical", "beforeMint", "minted", "retry"},
          seen : Blocks \cup {NoBlock}, answer : BOOLEAN, canonical : BOOLEAN,
          conclusive : BOOLEAN, suspect : SUBSET PegIns, last : PegIns \cup {0}]

Mints == [sent : BOOLEAN, block : 0..MaxMints, mined : 0..MaxMints, deep : BOOLEAN,
          expired : BOOLEAN]

\* Every table, both chains and the daemon's memory have their types.
PegInDaemonTypeOK ==
    /\ PegInTypeOK /\ BranchesTypeOK
    /\ kind \in [PegIns -> Kinds] /\ side \in [PegIns -> Mints]
    /\ highest \in 1..MaxHeight /\ deepest \in 0..MaxHeight
    /\ baseline \in Blocks \cup {NoBlock}
    /\ reorgPending \in BOOLEAN /\ fundsHeld \in BOOLEAN
    /\ cursor \in PegIns \cup {0}
    /\ work \in Works
    /\ crashes \in 0..MaxCrashes

-----------------------------------------------------------------------------
(* What earlier releases left behind: they submitted commitments and mints,  *)
(* this one only observes them.  The chain holds the lock in its first block *)
(* and a commitment that was confirmed in its second, which is deep enough.  *)

InitialBlock(h) == [height |-> h, branch |-> 0]

NoMint == [status |-> "none", evidence |-> NoMintBlock]
MintedIn(status) == [status |-> status, evidence |-> 1]

ClassOf(k) == IF k = "legacy" THEN "legacy_unminted_refundable" ELSE ActiveClass

\* Rows from before the migration have not been classified yet.
ClassesLeft(k) == {ClassOf(k)} \cup (IF k = "legacy" THEN {"unknown"} ELSE {})

RowsLeft(k, status) ==
    IF status = "absent" THEN {NoPegIn}
    ELSE [status : {status}, class : ClassesLeft(k), hash : {FALSE},
          commit : {k # "legacy" /\ status # "detected"},
          receipt : IF k # "exact" \/ status \in {"detected", "consume_submitted"}
                    THEN {Unconfirmed}
                    ELSE {InitialBlock(2), Unconfirmed}]

AttemptsLeft(row) ==
    IF row = NoPegIn \/ ~row.commit THEN {NoRow}
    ELSE {NoRow} \cup
         [status : {IF row.receipt = Unconfirmed THEN "accepted" ELSE "confirmed"},
          disposition : {"accepted"}, block : {row.receipt}, at : {1}]

\* A live attempt belongs to a minting row; an accepted or a confirmed one
\* keeps the block it was confirmed in.
MintsLeft(row) ==
    CASE row.status = "minting" -> {NoMint, [NoMint EXCEPT !.status = "pending"], MintedIn("accepted")}
      [] row.status = "minted" -> {NoMint, MintedIn("confirmed")}
      [] OTHER -> {NoMint}

\* Such a block is still there.
SideOf(row, m) ==
    LET block == IF row.status = "minted" \/ m.evidence # NoMintBlock THEN 1 ELSE 0 IN
    [sent |-> row.status \in Submitted, block |-> block, mined |-> block, deep |-> block > 0,
     expired |-> FALSE]

Left ==
    {l \in UNION {[kind : {k}, row : RowsLeft(k, s), attempt : UNION {AttemptsLeft(r) : r \in RowsLeft(k, s)},
                   mint : UNION {MintsLeft(r) : r \in RowsLeft(k, s)}] : k \in Kinds, s \in Retained} :
        /\ l.attempt \in AttemptsLeft(l.row)
        /\ l.mint \in MintsLeft(l.row)
        /\ l.kind = "inexact" => l.row.status \in {"absent", "detected", "consume_submitted"}
        /\ l.kind = "legacy" => /\ l.row.status \in {"absent", "detected", "confirmed", "minting", "minted"}
                                /\ l.mint = NoMint}

Init ==
    /\ best = [h \in 1..(Confirms + 1) |-> 0] /\ branches = 0
    /\ highest = Confirms + 1 /\ deepest = 0
    /\ \E left \in [PegIns -> Left] :
          LET committed == {p \in PegIns : left[p].row # NoPegIn /\ left[p].row.commit} IN
          /\ kind = [p \in PegIns |-> left[p].kind]
          /\ pegIn = [p \in PegIns |-> left[p].row]
          /\ attempt = [t \in Txs |-> IF \E p \in PegIns : CommitOf[p] = t
                                      THEN left[CHOOSE p \in PegIns : CommitOf[p] = t].attempt
                                      ELSE NoRow]
          /\ mint = [p \in PegIns |-> left[p].mint]
          /\ side = [p \in PegIns |-> SideOf(left[p].row, left[p].mint)]
          /\ sent = ChainTxs \ {CommitOf[p] : p \in PegIns \ committed}
          /\ minedAt = [t \in ChainTxs |->
                IF \E p \in committed : t = CommitOf[p] /\ ~IsIn(p, {"consume_submitted"}) THEN 2
                ELSE IF \E p \in PegIns : t = LockOf[p] THEN 1 ELSE 0]
    /\ avl = LegacyKeys
    /\ hold = [p \in PegIns |-> "none"] /\ observed = <<>> /\ incidents = {} /\ externalHold = FALSE
    /\ baseline = NoBlock /\ reorgPending = TRUE /\ fundsHeld = FALSE
    /\ cursor = 0 /\ work = Down /\ crashes = 0

-----------------------------------------------------------------------------
(* Reorganisation detection in start and tick. *)

At(place) == work.place = place
Job == work.job
Tables == UNCHANGED pegInVars
Chains == UNCHANGED chains
Aside == UNCHANGED <<chains, memory, cursor, crashes>>
Go(place) == work' = [work EXCEPT !.place = place]

\* A pass over rows with the tip its tick began with.
Over(pass, S) == [Idle EXCEPT !.place = "next", !.tip = work.tip, !.pass = pass, !.todo = S]

\* Startup takes the tip as its baseline and runs the handler.
Start ==
    /\ At("down")
    /\ baseline' = Tip
    /\ work' = [Idle EXCEPT !.place = "next", !.tip = Tip, !.starting = TRUE,
                            !.todo = {p \in PegIns : IsIn(p, Submitted)}]
    /\ Tables /\ Chains /\ UNCHANGED <<reorgPending, fundsHeld, cursor, crashes>>

BeginTick ==
    /\ At("idle")
    /\ work' = [Idle EXCEPT !.place = "detect", !.tip = Tip]
    /\ Tables /\ Aside

\* Mutant: only a lower tip is taken for a reorganisation.
DetectLowerTip ==
    /\ At("detect")
    /\ IF work.tip.height < baseline.height \/ reorgPending
       THEN work' = Over("all", {p \in PegIns : IsIn(p, Submitted)}) /\ UNCHANGED baseline
       ELSE work' = [work EXCEPT !.place = "select"] /\ baseline' = work.tip
    /\ Tables /\ Chains /\ UNCHANGED <<reorgPending, fundsHeld, cursor, crashes>>

\* Mutant: a pending reconciliation waits for the next reorganisation.
DetectOnly ==
    /\ At("detect")
    /\ work.tip.height > baseline.height => baseline.height \in DOMAIN best
    /\ IF (work.tip.height > baseline.height /\ ~Canonical(baseline))
          \/ (work.tip.height <= baseline.height /\ work.tip # baseline)
       THEN work' = Over("all", {p \in PegIns : IsIn(p, Submitted)}) /\ UNCHANGED baseline
       ELSE work' = [work EXCEPT !.place = "select"] /\ baseline' = work.tip
    /\ Tables /\ Chains /\ UNCHANGED <<reorgPending, fundsHeld, cursor, crashes>>

\* A lower tip, or another header where the last one was.
Detect ==
    /\ At("detect")
    /\ work.tip.height > baseline.height => baseline.height \in DOMAIN best
    /\ LET reorg == IF work.tip.height > baseline.height THEN ~Canonical(baseline)
                    ELSE work.tip # baseline IN
       IF reorg \/ reorgPending
       THEN work' = Over("all", {p \in PegIns : IsIn(p, Submitted)}) /\ UNCHANGED baseline
       ELSE work' = [work EXCEPT !.place = "select"] /\ baseline' = work.tip
    /\ Tables /\ Chains /\ UNCHANGED <<reorgPending, fundsHeld, cursor, crashes>>

\* The read quorum expires, or the header cannot be read: the tick ends and the
\* baseline stays.
EndTickEarly ==
    /\ \/ ReadsFail /\ work.place \in {"detect", "select", "cycle"}
       \/ At("detect") /\ work.tip.height > baseline.height /\ baseline.height \notin DOMAIN best
    /\ work' = Idle
    /\ Tables /\ Aside

-----------------------------------------------------------------------------
(* Passes over rows. *)

Observing(stage) ==
    [work EXCEPT !.place = "tx", !.stage = stage, !.seen = NoBlock, !.answer = FALSE,
                 !.canonical = FALSE]

\* The job is done; `conclusive' is whether its result was.
Done(conclusive) ==
    [work EXCEPT !.place = "next", !.job = NoJob, !.stage = "minted", !.seen = NoBlock,
                 !.answer = FALSE, !.canonical = FALSE,
                 !.conclusive = work.conclusive /\ conclusive]

\* An operation throws: reconciliation goes on with the next row, and advance
\* ends the tick.
Thrown == IF work.pass = "pending" THEN Idle ELSE Done(FALSE)

\* Submitted rows are listed by id; pending ones by the height of their lock,
\* which may be any order of ids.
First(p) ==
    /\ p \in work.todo
    /\ work.pass \in {"all", "batch"} => \A q \in work.todo : p <= q

\* advance asks for the release of funds to be authorised; reconcileMinted
\* wants a receipt.
Take(p) ==
    LET taken == [work EXCEPT !.job = p, !.todo = @ \ {p}] IN
    /\ At("next") /\ First(p)
    /\ work' = IF pegIn[p].class # ActiveClass THEN [taken EXCEPT !.place = "legacySource"]
               ELSE IF work.pass = "pending"
               THEN IF CircuitBreakerOpen THEN Idle
                    ELSE IF IsIn(p, {"consume_submitted"})
                    THEN [taken EXCEPT !.place = "tx", !.stage = "submitted"]
                    ELSE [taken EXCEPT !.place = "tx", !.stage = "canonical"]
               ELSE IF HasReceipt(p) THEN [taken EXCEPT !.place = "tx"]
               ELSE [taken EXCEPT !.place = "incident"]
    /\ Tables /\ Aside

TakeJob == \E p \in work.todo : Take(p)

\* Mutant: selection goes on after an inconclusive pass.
EndReconciliationAnyway ==
    /\ At("next") /\ work.todo = {} /\ work.pass = "all"
    /\ reorgPending' = FALSE /\ baseline' = work.tip
    /\ work' = IF work.starting THEN Idle ELSE [Idle EXCEPT !.place = "select", !.tip = work.tip]
    /\ Tables /\ Chains /\ UNCHANGED <<fundsHeld, cursor, crashes>>

\* A pass over all mint-submitted rows decides whether selection may go on; the
\* tip this tick began with becomes the baseline, unless the quorum expires.
EndReconciliation ==
    /\ At("next") /\ work.todo = {} /\ work.pass = "all"
    /\ reorgPending' = ~work.conclusive
    /\ \/ /\ baseline' = work.tip
          /\ work' = IF work.starting THEN Idle ELSE [Idle EXCEPT !.place = "select", !.tip = work.tip]
       \/ ReadsFail /\ ~work.starting /\ work' = Idle /\ UNCHANGED baseline
    /\ Tables /\ Chains /\ UNCHANGED <<fundsHeld, cursor, crashes>>

SourceUnspent(p) ==
    /\ Mined(LockOf[p])
    /\ \A t \in ChainTxs : Mined(t) => ParentOf[t] # LockOf[p]

VaultUnspent(p) ==
    /\ Mined(CommitOf[p])
    /\ \A t \in ChainTxs : Mined(t) => ParentOf[t] # CommitOf[p]

\* scanForPegIns finds the lock boxes that are deep enough.
Select ==
    /\ At("select")
    /\ work' = IF reorgPending THEN [work EXCEPT !.place = "cycle"]
               ELSE [Over("pending", {p \in PegIns : /\ ~Known(p) /\ SourceUnspent(p)
                                                     /\ work.tip.height - minedAt[LockOf[p]] + 1 >= Confirms})
                       EXCEPT !.place = "register"]
    /\ Tables /\ Aside

Register ==
    /\ At("register")
    /\ IF work.todo = {} THEN Tables /\ Go("recollect")
       ELSE \E p \in work.todo : /\ First(p) /\ InsertPegIn(p, ClassOf(kind[p]))
                                 /\ work' = [work EXCEPT !.todo = @ \ {p}]
    /\ Aside

\* The recollection reconstructs both chains at one moment (the route is read
\* again after the frontier and must agree) and holds every pending row with
\* what they show: one mint without its vault makes all of it inconsistent.
Route(p) ==
    IF SourceUnspent(p) THEN "refundable"
    ELSE IF ~Mined(CommitOf[p]) \/ kind[p] = "inexact" THEN "other"
    ELSE IF Confirmations(CommitOf[p]) < Confirms THEN "commit_pending" ELSE "committed"

\* A row of an earlier contract has no committed vault, which is expected of a
\* row that is as far as that.
Expected(p) ==
    CASE pegIn[p].class # ActiveClass ->
           /\ pegIn[p].class = "legacy_unminted_refundable" /\ Mined(LockOf[p])
           /\ ~IsIn(p, {"consume_confirmed", "minting", "minted"})
      [] IsIn(p, {"detected", "confirmed"}) -> Route(p) = "refundable"
      [] IsIn(p, {"consume_submitted"}) -> Route(p) # "other"
      [] OTHER -> Route(p) = "committed"

Disposition(p) ==
    IF /\ \A q \in PegIns : side[q].block > 0 => kind[q] # "legacy" /\ Route(q) = "committed"
       /\ Expected(p)
       /\ side[p].block > 0 => IsIn(p, {"minting"})
    THEN "deferred" ELSE "quarantined"

\* Rows without a hold by id, then the others by the age of their last
\* observation.
Ahead(p, q) ==
    \/ hold[p] = "none" /\ (hold[q] = "none" => p < q)
    \/ /\ hold[p] # "none" /\ hold[q] # "none"
       /\ \E i, j \in DOMAIN observed : i < j /\ observed[i] = p /\ observed[j] = q

\* Mutant: every page begins with the first row.
PageById ==
    LET pending == {p \in PegIns : IsIn(p, Pending)} IN
    {p \in pending : Cardinality({q \in pending : q < p}) < PageLimit}

\* The next page.
Page ==
    LET pending == {p \in PegIns : IsIn(p, Pending)} IN
    {p \in pending : Cardinality({q \in pending : Ahead(q, p)}) < PageLimit}

\* The pass of the repository never authorises a selection.
Recollect ==
    /\ At("recollect")
    /\ work' = CASE Recollection = "off" -> [work EXCEPT !.place = "cycle"]
                 [] Recollection = "holding" ->
                      [work EXCEPT !.place = "record", !.todo = Page,
                                   !.suspect = {p \in PegIns : Known(p) /\ Disposition(p) = "quarantined"}]
                 [] Recollection = "authorising" ->
                      Over("legacy", {p \in PegIns : /\ IsIn(p, Pending) /\ hold[p] = "none"
                                                     /\ pegIn[p].class \notin {ActiveClass, "legacy_already_consumed"}})
    /\ Tables /\ Aside

RecordHold ==
    /\ At("record")
    /\ IF work.todo = {} THEN Tables /\ work' = [Idle EXCEPT !.place = "cycle", !.tip = work.tip]
       ELSE \E p \in work.todo :
            /\ \A q \in work.todo \ {p} : Ahead(p, q)
            /\ RecordReconciliation(p, IF p \in work.suspect THEN "quarantined" ELSE "deferred")
            /\ work' = [work EXCEPT !.todo = @ \ {p}]
    /\ Aside

EndClassification ==
    /\ At("next") /\ work.todo = {} /\ work.pass = "legacy"
    /\ Go("gate") /\ Tables /\ Aside

\* isFundsReleaseHeld, then the historical rows one after the other.
PassGate ==
    /\ At("gate")
    /\ fundsHeld' = (fundsHeld \/ CircuitBreakerOpen)
    /\ work' = IF fundsHeld' THEN [work EXCEPT !.place = "cycle"]
               ELSE Over("pending", {p \in PegIns : /\ IsIn(p, Pending \ {"detected", "confirmed"})
                                                    /\ hold[p] = "none" /\ pegIn[p].class = ActiveClass})
    /\ Tables /\ Chains /\ UNCHANGED <<baseline, reorgPending, cursor, crashes>>

EndSelection ==
    /\ At("next") /\ work.todo = {} /\ work.pass = "pending"
    /\ Go("cycle") /\ Tables /\ Aside

\* getPegInReconciliationBatch: the minted rows after the cursor, or from the
\* first one when there are none.
Batch ==
    LET minted == {p \in PegIns : IsIn(p, {"minted"})}
        after == {p \in minted : p > cursor}
        from == IF after # {} THEN after ELSE minted IN
    {p \in from : Cardinality({q \in from : q < p}) < BatchLimit}

\* Every hundredth cycle.
BeginPeriodic ==
    /\ At("cycle")
    /\ \E last \in Batch : /\ \A p \in Batch : p <= last
                           /\ work' = [Over("batch", Batch) EXCEPT !.last = last]
    /\ Tables /\ Aside

\* Mutant: the cursor is not advanced.
EndPeriodicInPlace ==
    /\ At("next") /\ work.todo = {} /\ work.pass = "batch"
    /\ work' = Idle
    /\ Tables /\ Chains /\ UNCHANGED <<memory, cursor, crashes>>

EndPeriodic ==
    /\ At("next") /\ work.todo = {} /\ work.pass = "batch"
    /\ cursor' = work.last
    /\ work' = Idle
    /\ Tables /\ Chains /\ UNCHANGED <<memory, crashes>>

EndTick ==
    /\ At("cycle")
    /\ work' = Idle
    /\ Tables /\ Aside

-----------------------------------------------------------------------------
(* observeCommitment: the transaction with the mempool, a header, the source *)
(* box and the vault box are read one after the other.                       *)

\* Opening an incident, as the result of a job.
Incident == Tables /\ Go("incident")

\* Mutant: a conflict is uncertain for a submitted mint as well.
LoseUncertain(outcome) ==
    IF outcome = "conflict" THEN Tables /\ work' = Done(FALSE)
    ELSE IF work.pass # "pending" \/ IsIn(Job, {"minting"}) THEN Incident
    ELSE /\ IF outcome = "reorged" THEN ResetCommit(Job) ELSE MarkCommitInvalid(Job)
         /\ work' = Done(FALSE)

\* What a job does with a commitment that is lost or not what it should be.
Lose(outcome) ==
    IF work.pass # "pending" \/ IsIn(Job, {"minting"}) THEN Incident
    ELSE /\ CASE outcome = "reorged" -> ResetCommit(Job)
              [] outcome = "invalid" -> MarkCommitInvalid(Job)
              [] outcome = "conflict" -> Tables
         /\ work' = Done(FALSE)

\* What it does with one that is confirmed in the block it saw.
Found ==
    CASE work.stage = "submitted" ->
           RecordConsumeConfirmed(Job, work.seen) /\ work' = Observing("canonical")
      [] work.stage = "canonical" /\ ~HasReceipt(Job) ->
           RecordConsumeConfirmed(Job, work.seen) /\ Go("processed")
      [] work.stage \in {"canonical", "minted"} /\ HasReceipt(Job) -> Tables /\ Go("processed")
      [] work.stage = "beforeMint" -> Tables /\ work' = Done(FALSE)
      [] work.stage = "retry" -> Tables /\ Go("still")

Conclude(outcome) ==
    CASE outcome \in {"pending", "uncertain"} -> Tables /\ work' = Done(FALSE)
      [] outcome \in {"reorged", "invalid", "conflict"} -> Lose(outcome)
      [] outcome = "confirmed" -> Found

\* A transaction that was sent and is not mined may be in the mempool or not.
ReadTx ==
    LET t == CommitOf[Job]
        seen == IF Mined(t) THEN BlockAt(minedAt[t]) ELSE NoBlock
        known == IF Mined(t) THEN seen.height
                 ELSE IF HasReceipt(Job) THEN pegIn[Job].receipt.height ELSE 0 IN
    /\ At("tx")
    /\ IF work.tip.height < known THEN Conclude("uncertain")
       ELSE /\ \E pool \in {p \in BOOLEAN : p => t \in sent /\ ~Mined(t)} :
                  work' = [work EXCEPT !.seen = seen, !.answer = pool,
                             !.place = IF Mined(t) \/ HasReceipt(Job) THEN "header" ELSE "source"]
            /\ Tables
    /\ Aside

\* Mutant: one confirmation short.
HeaderOutcomeShallow(h) ==
    LET deep == work.tip.height - work.seen.height + 2 >= Confirms IN
    IF h \notin DOMAIN best THEN "uncertain"
    ELSE IF work.seen = NoBlock \/ ~Canonical(work.seen) THEN "open"
    ELSE IF ~deep /\ ~HasReceipt(Job) THEN "pending"
    ELSE IF kind[Job] = "inexact" THEN "invalid"
    ELSE IF HasReceipt(Job) /\ pegIn[Job].receipt # work.seen THEN "conflict"
    ELSE IF deep THEN "open" ELSE "pending"

\* Of a transaction that was found: the header at its height, its depth below
\* the tip the tick began with, and the receipt its block gives.
HeaderOutcome(h) ==
    LET deep == work.tip.height - work.seen.height + 1 >= Confirms IN
    IF h \notin DOMAIN best THEN "uncertain"
    ELSE IF work.seen = NoBlock \/ ~Canonical(work.seen) THEN "open"
    ELSE IF ~deep /\ ~HasReceipt(Job) THEN "pending"
    ELSE IF kind[Job] = "inexact" THEN "invalid"
    ELSE IF HasReceipt(Job) /\ pegIn[Job].receipt # work.seen THEN "conflict"
    ELSE IF deep THEN "open" ELSE "pending"

ReadHeader ==
    LET b == IF work.seen = NoBlock THEN pegIn[Job].receipt ELSE work.seen
        outcome == HeaderOutcome(b.height) IN
    /\ At("header")
    /\ IF outcome = "open"
       THEN work' = [work EXCEPT !.place = "source", !.canonical = Canonical(b)] /\ Tables
       ELSE Conclude(outcome)
    /\ Aside

SourceOutcome(unspent) ==
    IF work.seen = NoBlock /\ ~HasReceipt(Job) /\ work.answer THEN "pending"
    ELSE IF work.seen # NoBlock /\ work.canonical THEN IF unspent THEN "conflict" ELSE "open"
    ELSE IF work.canonical THEN IF unspent THEN "conflict" ELSE "uncertain"
    ELSE IF unspent THEN "reorged" ELSE "conflict"

ReadSource ==
    LET outcome == SourceOutcome(SourceUnspent(Job)) IN
    /\ At("source")
    /\ IF outcome = "open" THEN Go("vault") /\ Tables ELSE Conclude(outcome)
    /\ Aside

NeedsVault == work.stage \in {"submitted", "beforeMint", "retry"}

ReadVault ==
    /\ At("vault")
    /\ Conclude(IF NeedsVault /\ ~VaultUnspent(Job) THEN "uncertain" ELSE "confirmed")
    /\ Aside
-----------------------------------------------------------------------------
(* The mint on the sidechain. *)

\* An operation on the tables that the hold's trigger or a conflict may refuse.
OrThrown(possible, operation) ==
    IF possible THEN operation /\ work' = Done(TRUE) ELSE Tables /\ work' = Thrown

\* Without an attempt the row is minted by the sidechain's word alone; with one
\* that is over, the mint is somebody else's; otherwise its receipt is read.
Recover ==
    IF mint[Job].status = "none"
    THEN IF work.pass = "pending" \/ IsIn(Job, {"minting"})
         THEN OrThrown(hold[Job] = "none", RecordMinted(Job))
         ELSE Tables /\ work' = Done(TRUE)
    ELSE IF mint[Job].status \in LiveMint \cup {"confirmed"} THEN Tables /\ Go("confirmation")
    ELSE Incident

\* isBoxProcessed, read a second time before a mint is reset.
ReadProcessed ==
    /\ At("processed")
    /\ IF side[Job].block > 0 THEN Recover
       ELSE Tables /\ work' = Observing(IF work.pass = "pending" THEN "beforeMint" ELSE "retry")
    /\ Aside

ReadStillAbsent ==
    /\ At("still")
    /\ IF side[Job].block > 0 THEN Recover
       ELSE IF mint[Job].status \in LiveMint THEN Tables /\ Go("expiry")
       ELSE OrThrown(hold[Job] = "none", ResetMintForRetry(Job))
    /\ Aside

ReadConfirmation ==
    /\ At("confirmation")
    /\ IF ~side[Job].deep THEN Tables /\ work' = Done(FALSE)
       ELSE OrThrown(/\ mint[Job].evidence \in {NoMintBlock, side[Job].block}
                     /\ hold[Job] = "none" \/ IsIn(Job, {"minted"})
                     /\ IsIn(Job, Submitted),
                     ConfirmMintRecovery(Job, side[Job].block))
    /\ Aside

\* Mutant: absence is enough, whatever the window of the attempt.
ReadExpiryIgnored ==
    /\ At("expiry")
    /\ OrThrown(hold[Job] = "none", ResetMintForRetry(Job))
    /\ Aside

ReadExpiry ==
    /\ At("expiry")
    /\ IF ~side[Job].expired THEN Tables /\ work' = Done(FALSE)
       ELSE OrThrown(hold[Job] = "none", ResetMintForRetry(Job))
    /\ Aside

-----------------------------------------------------------------------------
(* Rows of earlier lock contracts: source box, then isBoxProcessed. *)

ReadLegacySource ==
    /\ At("legacySource")
    /\ work' = [work EXCEPT !.place = "legacyProcessed", !.answer = SourceUnspent(Job)]
    /\ Tables /\ Aside

Classification(unspent, processed) ==
    IF ~unspent THEN "legacy_already_consumed"
    ELSE IF processed THEN "legacy_minted_requires_migration" ELSE "legacy_unminted_refundable"

ReadLegacyProcessed ==
    LET class == Classification(work.answer, side[Job].block > 0)
        minted == class = "legacy_minted_requires_migration" IN
    /\ At("legacyProcessed")
    /\ fundsHeld' = (fundsHeld \/ minted)
    /\ \/ /\ UpdateClassification(Job, class)
          /\ IF minted THEN Go("incident") ELSE work' = Done(TRUE)
       \/ /\ ~Permitted(Job, [pegIn[Job] EXCEPT !.class = class])
          /\ Tables /\ work' = Done(FALSE)
    /\ Chains /\ UNCHANGED <<baseline, reorgPending, cursor, crashes>>

-----------------------------------------------------------------------------
(* An incident: the hold file, then the tables. *)

HoldForIncident ==
    /\ At("incident")
    /\ HoldFundsRelease
    /\ Go("held")
    /\ Aside

\* advance stops the pass at an incident, whether it was persisted or not.
AfterIncident(persisted) ==
    IF work.pass = "pending" THEN [Done(persisted) EXCEPT !.todo = {}] ELSE Done(persisted)

\* Mutant: the row is marked without its incident record.
OpenIncidentUnrecorded ==
    /\ At("held")
    /\ GiveUp(Job, "incident")
    /\ fundsHeld' = TRUE
    /\ work' = AfterIncident(TRUE)
    /\ Chains /\ UNCHANGED <<hold, observed, incidents, externalHold, baseline, reorgPending, cursor, crashes>>

OpenIncident ==
    /\ At("held")
    /\ MarkIncident(Job)
    /\ fundsHeld' = TRUE
    /\ work' = AfterIncident(TRUE)
    /\ Chains /\ UNCHANGED <<baseline, reorgPending, cursor, crashes>>

IncidentNotPersisted ==
    /\ ReadsFail /\ work.place \in {"incident", "held"}
    /\ fundsHeld' = TRUE
    /\ work' = AfterIncident(FALSE)
    /\ Tables /\ Chains /\ UNCHANGED <<baseline, reorgPending, cursor, crashes>>

ReadFails ==
    /\ ReadsFail
    /\ work.place \in {"tx", "header", "source", "vault", "processed", "still", "confirmation",
                       "expiry", "legacySource", "legacyProcessed", "recollect"}
    /\ work' = IF At("recollect") THEN [work EXCEPT !.place = "cycle"] ELSE Done(FALSE)
    /\ Tables /\ Aside

\* Memory starts over with its defaults.
Crash ==
    /\ crashes < MaxCrashes /\ ~At("down")
    /\ crashes' = crashes + 1
    /\ work' = Down /\ baseline' = NoBlock /\ reorgPending' = TRUE /\ fundsHeld' = FALSE
    /\ Tables /\ Chains /\ UNCHANGED cursor

-----------------------------------------------------------------------------
(* The two chains. *)

Daemon == <<pegInVars, memory, cursor, work, crashes>>

MoveChain ==
    /\ ChainStep
    /\ highest' = IF Len(best') > highest THEN Len(best') ELSE highest
    /\ LET lost == {h \in DOMAIN best : h \notin DOMAIN best' \/ best'[h] # best[h]}
           lowest == CHOOSE h \in lost : \A g \in lost : h <= g
           reach == IF lost = {} THEN 0 ELSE highest - lowest + 1 IN
       deepest' = IF reach > deepest THEN reach ELSE deepest
    /\ UNCHANGED <<kind, side, Daemon>>

\* A mint that was submitted may be mined at any time, even after the window of
\* its live attempt; its block may be displaced, and the mint mined again in
\* another one.
MoveMint(p) ==
    /\ \/ /\ side[p].sent /\ side[p].block = 0 /\ side[p].mined < MaxMints
          /\ side' = [side EXCEPT ![p].block = side[p].mined + 1, ![p].mined = @ + 1]
       \/ side[p].block > 0 /\ ~side[p].deep /\ side' = [side EXCEPT ![p].deep = TRUE]
       \/ side[p].block > 0 /\ side' = [side EXCEPT ![p].block = 0, ![p].deep = FALSE]
       \/ mint[p].status \in LiveMint /\ ~side[p].expired /\ side' = [side EXCEPT ![p].expired = TRUE]
    /\ UNCHANGED <<branchVars, kind, highest, deepest, Daemon>>
-----------------------------------------------------------------------------
Tick ==
    \/ BeginTick \/ Detect \/ EndReconciliation
    \/ Select \/ Register \/ Recollect \/ RecordHold
    \/ EndClassification \/ PassGate \/ EndSelection
    \/ BeginPeriodic \/ EndPeriodic \/ EndTick

Visit ==
    \/ TakeJob \/ ReadTx \/ ReadHeader \/ ReadSource \/ ReadVault
    \/ ReadProcessed \/ ReadStillAbsent \/ ReadConfirmation \/ ReadExpiry
    \/ ReadLegacySource \/ ReadLegacyProcessed
    \/ HoldForIncident \/ OpenIncident

Fault == EndTickEarly \/ ReadFails \/ IncidentNotPersisted \/ Crash

Next ==
    \/ Start \/ Tick \/ Visit \/ Fault
    \/ MoveChain
    \/ \E p \in PegIns : MoveMint(p)

Spec == Init /\ [][Next]_vars

\* The loop never stops, every hundredth cycle is periodic, and blocks keep
\* coming.
Fairness ==
    /\ WF_vars(Start \/ Tick \/ Visit \/ EndTickEarly)
    /\ SF_vars(BeginPeriodic)
    /\ WF_vars(MoveChain /\ minedAt' = minedAt /\ branches' = branches)

FairSpec == Spec /\ Fairness
-----------------------------------------------------------------------------
(* Safety. *)

InItsReceipt(p) ==
    Canonical(pegIn[p].receipt) /\ minedAt[CommitOf[p]] = pegIn[p].receipt.height

\* A receipt is written from a header, a depth and a vault that were read one
\* after the other below the tip the tick began with, which may be gone by then.
\* As long as no reorganisation reached as deep as the confirmations asked for,
\* the commitment is still in the very block of its receipt.
ReceiptBuried ==
    deepest < Confirms => \A p \in PegIns : Known(p) /\ HasReceipt(p) => InItsReceipt(p)

\* Whenever a commitment behind a submitted mint is displaced, the daemon either
\* knows that a reconciliation is due or finds its baseline displaced when it
\* next looks, however reads, ticks and reorganisations interleave.
DisplacementNoticed ==
    ~At("down") /\ ~reorgPending /\ Canonical(baseline) =>
        \A p \in PegIns : IsIn(p, Submitted) /\ HasReceipt(p) => InItsReceipt(p)

\* resetPegInMintForRetry gives up an attempt that was live only after its window,
\* and one that is known to have been mined only once it is not in that block any
\* more.  (It may still be mined later: LateMintQuarantined is about that.)
MintAbandonedOnlyIfGone ==
    [][\A p \in PegIns : mint[p].status # "abandoned" /\ mint'[p].status = "abandoned" =>
          /\ mint[p].status \in LiveMint => side[p].expired
          /\ mint[p].evidence # NoMintBlock => side[p].block # mint[p].evidence]_vars

InFlight(p) == IsIn(p, {"minting"}) /\ pegIn[p].class = ActiveClass

\* A hold freezes its row.  The recollection that puts them on pending rows, those
\* with a mint in flight included, only comes after a pass that resolved all of
\* these: no row of the active contract whose mint may still be in flight is ever
\* put under a hold, which would refuse to record what became of it.  (A row of an
\* earlier contract is: its pass only classifies it and leaves it minting.)
InFlightNeverHeld ==
    \A p \in PegIns : InFlight(p) => hold[p] = "none"

\* The daemon does to the tables what the journal's operations allow.
ImplementsPegInJournal == [][PegInJournalNext]_pegInVars

-----------------------------------------------------------------------------
(* Liveness. *)

\* A commitment that is displaced under a submitted mint ends in an incident, or
\* in a hold when the mint was reset in the meantime.
LostCommitmentContained ==
    \A p \in PegIns :
        (IsIn(p, Submitted) /\ HasReceipt(p) /\ ~Canonical(pegIn[p].receipt))
            ~> (IsIn(p, {"incident"}) \/ hold[p] # "none")

Buried(p) == Mined(CommitOf[p]) /\ Confirmations(CommitOf[p]) >= Confirms

\* What keeps the visit of a row from a conclusion: for one of an earlier contract,
\* a hold that froze it with another classification.
Unresolvable(p) ==
    /\ IsIn(p, Submitted)
    /\ IF pegIn[p].class # ActiveClass
       THEN /\ hold[p] # "none"
            /\ pegIn[p].class # Classification(SourceUnspent(p), side[p].block > 0)
       ELSE \/ ~Buried(p)
            \/ side[p].block = 0 /\ (~VaultUnspent(p) \/ (mint[p].status \in LiveMint /\ ~side[p].expired))
            \/ /\ side[p].block > 0
               /\ ~side[p].deep \/ mint[p].evidence \notin {NoMintBlock, side[p].block}

\* Selection stays held after startup or a reorganisation only as long as some
\* mint-submitted row really cannot be resolved.
SelectionResumes ==
    <>[]reorgPending => <>[](\E p \in PegIns : Unresolvable(p))

\* A mint that shows up after its row was reset is found, whatever the page of
\* rows a recollection looks at, and its row quarantined.
LateMintQuarantined ==
    \A p \in PegIns :
        []<>~reorgPending /\ <>[](IsIn(p, Pending \ {"minting"}) /\ side[p].block > 0)
            => <>[](hold[p] = "quarantined")

\* A minted row whose mint has disappeared does not stay minted while its vault
\* stands, whatever the batch the periodic reconciliation looks at.
LostMintReset ==
    \A p \in PegIns :
        ~<>[](IsIn(p, {"minted"}) /\ side[p].block = 0 /\ Buried(p) /\ VaultUnspent(p))
=============================================================================
