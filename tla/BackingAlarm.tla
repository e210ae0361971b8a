---------------------------- MODULE BackingAlarm ----------------------------
(***************************************************************************)
(* The peg-out half of a daemon tick (relayer-daemon.ts, processPegOuts and  *)
(* checkSolvencyInvariant): it pins a sidechain block, makes the journal     *)
(* hold every burn up to it, compares supply and liabilities at the pin with *)
(* the vault at the admitted Ergo tip, and holds the release of funds when   *)
(* the backing is short or cannot be established; only a pass that ends      *)
(* clear may prepare a settlement candidate.                                 *)
(*                                                                          *)
(* Both chains move between its awaits and other processes work on the same  *)
(* tables.  A deposit is its vault box on Ergo and its mint on the           *)
(* sidechain, a burn is its event on the sidechain and its payout on Ergo,   *)
(* and a loss is an Ergo transaction that takes backing away for nothing     *)
(* (storage rent).                                                           *)
(***************************************************************************)
EXTENDS SettlementJournals, Integers, Sequences, FiniteSetsExt

CONSTANTS
    Deposits, Losses,
    Amount,             \* the value of a deposit, burn or loss
    MaxSideHeight,      \* bound: highest sidechain block
    MaxBranches,        \* bound: reorganisations of each chain
    MaxDepth,           \* bound: Ergo blocks one of them replaces
    MaxSideDepth,       \* bound: sidechain blocks one of them replaces
    ReaderLag,          \* how far the two sidechain readers may be apart
    TickGrowth          \* Ergo blocks that may come while a quorum decision is current

ASSUME LedgerAssumption ==
    /\ IsFiniteSet(Deposits \cup Burns \cup Losses)
    /\ Amount \in [Deposits \cup Burns \cup Losses -> Nat \ {0}]

\* A decision of the quorum lapses long before a new block is final.
ASSUME GrowthAssumption ==
    /\ MaxBranches \in Nat /\ MaxDepth \in Nat /\ TickGrowth \in Nat
    /\ TickGrowth < RequiredConfirmations

VARIABLES
    main, mainBranches, paidAt,     \* Ergo: best branch, reorganisations, where mined
    side, sideBranches, sideAt,     \* the sidechain, likewise
    offered,        \* what may be mined: everything, at any time
    lapsed,         \* the quorum's decision on the admitted tip is no longer current
    rowBlock,       \* peg_out_events: the sidechain block of a burn's row
    pass,           \* the tick: where it is and what it has read
    held,           \* the durable hold on the release of funds
    highWater       \* lastSidechainHeight

ledgers == <<main, mainBranches, paidAt, side, sideBranches, sideAt, offered>>
chains == <<ledgers, lapsed>>
daemon == <<pass, held, highWater>>
vars == <<tables, chains, rowBlock, daemon>>

MainTxs == Deposits \cup Burns \cup Losses
SideTxs == Deposits \cup Burns

Main == INSTANCE ErgoBranches WITH
    ChainTxs <- MainTxs, ParentOf <- [t \in MainTxs |-> "root"], Root <- "root",
    best <- main, branches <- mainBranches, minedAt <- paidAt, sent <- offered

Side == INSTANCE ErgoBranches WITH
    ChainTxs <- SideTxs, ParentOf <- [t \in SideTxs |-> "root"], Root <- "root",
    MaxHeight <- MaxSideHeight, MaxDepth <- MaxSideDepth,
    best <- side, branches <- sideBranches, minedAt <- sideAt, sent <- offered

-----------------------------------------------------------------------------
(* The two ledgers. *)

Total(S) == MapThenSumSet(LAMBDA x : Amount[x], S)

\* What the best branch of Ergo holds in the vault.
Vault ==
    Total({d \in Deposits : Main!Mined(d)})
        - Total({x \in Burns \cup Losses : Main!Mined(x)})

UpTo(S, h) == {x \in S : Side!Mined(x) /\ sideAt[x] <= h}
Supply(h) == Total(UpTo(Deposits, h)) - Total(UpTo(Burns, h))

Paid == {b \in Burns : Main!Mined(b)}
FinallyPaid(b) == Main!Mined(b) /\ Main!Confirmations(b) >= RequiredConfirmations

\* Supply at sidechain height h and its burns that are not paid exceed the vault.
Short(h) == Supply(h) + Total(UpTo(Burns, h) \ Paid) > Vault

-----------------------------------------------------------------------------
(* The tick: what it has read, and the chains that move under it. *)

NoPass == [at |-> "idle", tip |-> Main!NoBlock, settled |-> Main!NoBlock, pin |-> Side!NoBlock,
           supply |-> 0, burns |-> {}, short |-> FALSE, vault |-> 0, paid |-> {},
           counted |-> {}, unlocked |-> {}, job |-> {}]

At(step) == pass.at = step
Goto(step) == pass' = [pass EXCEPT !.at = step]

\* requireCurrentErgoReadQuorumDecision.
QuorumCurrent == ~lapsed

\* The last block that can count as final while the decision is current.
LastFinal ==
    LET h == Len(main) + TickGrowth + 1 - RequiredConfirmations IN
    IF h \in DOMAIN main THEN Main!BlockAt(h) ELSE Main!NoBlock

\* Nothing leaves the vault that is not in it; a payout proves its burn.  When more
\* than TickGrowth blocks have come, the decision of the running tick has lapsed.
MainStep ==
    /\ Main!ChainStep
    /\ Vault' >= 0
    /\ \A b \in Burns : b \in Paid' \ Paid => Side!Mined(b)
    /\ lapsed' = (~At("idle") /\ (lapsed \/ Len(main)' > pass.tip.height + TickGrowth))
    /\ UNCHANGED <<side, sideBranches, sideAt>>

\* A deposit is minted once its vault box exists; only supply can be burnt.
SideStep ==
    /\ Side!ChainStep
    /\ \A h \in 1..Len(side') : Supply(h)' >= 0
    /\ \A d \in Deposits : Side!Mined(d)' /\ ~Side!Mined(d) => Main!Mined(d)
    /\ UNCHANGED <<main, mainBranches, paidAt, lapsed>>

-----------------------------------------------------------------------------
(* The tick, up to the inventory. *)

Max2(m, n) == IF m > n THEN m ELSE n

\* The sidechain fell below the highest block seen: active candidates are
\* invalidated and nothing is observed in this tick.
RollbackTick ==
    /\ At("idle")
    /\ Len(side) < highWater
    /\ Invalidate(Candidates)
    /\ UNCHANGED <<pegOut, aggregate, chains, rowBlock, daemon>>

\* A DUP heartbeat is quarantined or not final: the tick passes the peg-outs by, and
\* nothing is held.  A tick that ends earlier (no quorum, a height or a header that
\* cannot be read) changes nothing here.
PegOutsGated ==
    /\ At("idle")
    /\ Len(side) >= highWater
    /\ highWater' = Len(side)
    /\ UNCHANGED <<tables, chains, rowBlock, pass, held>>

\* The quorum admits the Ergo tip, the sidechain height is read, and the operational
\* journal lets the peg-outs be processed.
BeginTick ==
    /\ At("idle")
    /\ Len(side) >= highWater
    /\ highWater' = Len(side)
    /\ pass' = [NoPass EXCEPT !.at = "started", !.tip = Main!Tip, !.settled = LastFinal]
    /\ UNCHANGED <<tables, chains, rowBlock, held>>

\* insertPegOut refuses a burn whose row has another block.
InsertRefused(b) == pegOut[b] # "absent" /\ rowBlock[b] # Side!BlockAt(sideAt[b])

\* A reverted burn that is back is compared with its row and not inserted.
Conflicts(b) == pegOut[b] # "burn_reverted" /\ InsertRefused(b)

\* Mutant: supply is read a block before the pin.
ObserveEarlierSupply(h) ==
    LET found == UpTo(Burns, h)
        fresh == {b \in found : pegOut[b] = "absent"} IN
    /\ At("started")
    /\ h \in Max2(1, Len(side) - ReaderLag)..Len(side)
    /\ \A b \in found : ~Conflicts(b)
    /\ pegOut' = [b \in Burns |-> IF b \in fresh THEN "detected" ELSE pegOut[b]]
    /\ rowBlock' = [b \in Burns |->
                      IF b \in fresh THEN Side!BlockAt(sideAt[b]) ELSE rowBlock[b]]
    /\ pass' = [pass EXCEPT !.at = "inventoried", !.pin = Side!BlockAt(h),
                            !.supply = Supply(Max2(1, h - 1)), !.burns = found, !.short = Short(h)]
    /\ UNCHANGED <<candidate, reservation, attempt, aggregate, chains, held, highWater>>

\* The complete inventory up to the pinned height, persisted in one transaction.
Observe(h) ==
    LET found == UpTo(Burns, h)
        fresh == {b \in found : pegOut[b] = "absent"} IN
    /\ At("started")
    /\ h \in Max2(1, Len(side) - ReaderLag)..Len(side)
    /\ \A b \in found : ~Conflicts(b)
    /\ pegOut' = [b \in Burns |-> IF b \in fresh THEN "detected" ELSE pegOut[b]]
    /\ rowBlock' = [b \in Burns |->
                      IF b \in fresh THEN Side!BlockAt(sideAt[b]) ELSE rowBlock[b]]
    /\ pass' = [pass EXCEPT !.at = "inventoried", !.pin = Side!BlockAt(h),
                            !.supply = Supply(h), !.burns = found, !.short = Short(h)]
    /\ UNCHANGED <<candidate, reservation, attempt, aggregate, chains, held, highWater>>

EndTick ==
    /\ pass' = NoPass
    /\ lapsed' = FALSE
    /\ UNCHANGED <<ledgers, rowBlock, highWater>>

\* holdFundsReleaseForUnavailableBackingAlarm.
Unavailable ==
    /\ held' = TRUE
    /\ EndTick
    /\ UNCHANGED tables

\* A row conflicts, or a reader fails or disagrees: no inventory in this tick.
ObserveFails == At("started") /\ Unavailable

Revalidate ==
    /\ At("inventoried")
    /\ Side!Canonical(pass.pin)
    /\ Goto("pinned")
    /\ UNCHANGED <<tables, chains, rowBlock, held, highWater>>

RevalidateFails == At("inventoried") /\ Unavailable

\* The decision expired before the alarm: the tick goes no further.
QuorumExpires ==
    /\ At("started") \/ At("pinned")
    /\ EndTick
    /\ UNCHANGED <<tables, held>>

-----------------------------------------------------------------------------
(* Terminal liabilities: which burns are still owed. *)

RowsIn(S) == {b \in Burns : pegOut[b] \in S}
Covered(b) == rowBlock[b].height <= pass.pin.height

\* Every active journal agrees with the rows of its burns.
JournalsAgree ==
    /\ \A t \in LegacyTxs : aggregate[t] = "pending" => BurnsIn(t, {"detected", "confirmed"})
    /\ \A t \in LegacyTxs : aggregate[t] = "submitted" =>
          BurnsIn(t, {"aggregate_submitted"}) /\ BurnsOf[t] \subseteq pass.burns
    /\ \A b \in RowsIn({"aggregate_submitted"}) :
          \E t \in LegacyTxs : aggregate[t] = "submitted" /\ b \in BurnsOf[t]
    /\ \A r \in Reservations : attempt[r].status \in {"pending", "submitted"} =>
          ActiveCandidate(CandidateOf[r])

\* Rows that claim an end are believed only as far as the pinned chain bears
\* them out: submitted and unlocked burns must be in it, reverted ones covered.
RowsResolvable ==
    /\ RowsIn({"aggregate_submitted", "phase2_unlocked"}) \subseteq pass.burns
    /\ \A b \in RowsIn({"aggregate_submitted", "phase2_unlocked", "burn_reverted"}) : Covered(b)

\* Mutant: a reverted burn is written off for good.
RetainedNotReverted == RowsIn({"detected", "confirmed", "aggregate_submitted"})

\* Burns that stay liabilities: also a reverted one that is back.
Retained ==
    RowsIn({"detected", "confirmed", "aggregate_submitted"})
        \cup (RowsIn({"burn_reverted"}) \cap pass.burns)

\* The vault is read at the admitted tip, then the journals.
Resolve ==
    /\ At("pinned") /\ QuorumCurrent
    /\ Main!Tip = pass.tip
    /\ JournalsAgree /\ RowsResolvable
    /\ LET unlocked == RowsIn({"phase2_unlocked"}) IN
       pass' = [pass EXCEPT !.at = IF unlocked = {} THEN "resolved" ELSE "resolving",
                            !.vault = Vault, !.paid = Paid,
                            !.counted = Retained, !.unlocked = unlocked]
    /\ UNCHANGED <<tables, chains, rowBlock, held, highWater>>

\* An unlocked burn is dropped only if its payout is reconstructed and final.
Reconstruct ==
    /\ At("resolving")
    /\ \A b \in pass.unlocked : FinallyPaid(b)
    /\ Goto("resolved")
    /\ UNCHANGED <<tables, chains, rowBlock, held, highWater>>

\* A read fails or changes under the alarm, a row cannot be resolved, or the
\* decision expires: the backing is not established.
AlarmFails ==
    (At("pinned") \/ At("resolving") \/ At("resolved")) /\ Unavailable

\* projectCrossLedgerBackingAlarm.
Required == pass.supply + Total(pass.counted)

\* Mutant: a deficit is reported and nothing is held.
DecideReportOnly ==
    /\ At("resolved") /\ QuorumCurrent
    /\ Side!Canonical(pass.pin)
    /\ Goto(IF Required > pass.vault THEN "deficit" ELSE "clear")
    /\ UNCHANGED <<tables, chains, rowBlock, held, highWater>>

Decide ==
    /\ At("resolved") /\ QuorumCurrent
    /\ Side!Canonical(pass.pin)
    /\ IF Required > pass.vault THEN held' = TRUE /\ Goto("deficit")
       ELSE Goto("clear") /\ UNCHANGED held
    /\ UNCHANGED <<tables, chains, rowBlock, highWater>>

-----------------------------------------------------------------------------
(* What follows the alarm. *)

\* One pending burn is taken up if nothing is held and no candidate is active.
Select(b) ==
    /\ At("clear") /\ ~held
    /\ Unsettled(b)
    /\ \A t \in LegacyTxs : ActiveAggregate(t) => b \notin BurnsOf[t]
    /\ \A c \in Candidates : ~ActiveCandidate(c)
    /\ pass' = [pass EXCEPT !.at = "preparing", !.job = {b}]
    /\ UNCHANGED <<tables, chains, rowBlock, held, highWater>>

\* Its proof was collected from the row's block.
Prepare(c) ==
    /\ At("preparing") /\ BurnOf[c] \in pass.job
    /\ Side!Mined(BurnOf[c]) /\ rowBlock[BurnOf[c]] = Side!BlockAt(sideAt[BurnOf[c]])
    /\ RecordCandidate(c)
    /\ EndTick
    /\ UNCHANGED held

\* An operational failure leaves the row to be tried again.
PrepareFails ==
    /\ At("preparing")
    /\ \E b \in pass.job : UpdatePegOutStatus(b, "detected") \/ UNCHANGED tables
    /\ EndTick
    /\ UNCHANGED held

\* Nothing is taken up, or nothing may be.
NothingSelected ==
    /\ At("clear") \/ At("deficit")
    /\ EndTick
    /\ UNCHANGED <<tables, held>>

\* A restart: the high-water mark starts again from the persisted cursor, which
\* follows complete inventories and lags behind.  A crash within a pass leaves
\* what an expired decision leaves.
Restart ==
    /\ At("idle")
    /\ highWater' \in 0..highWater
    /\ UNCHANGED <<tables, chains, rowBlock, pass, held>>

-----------------------------------------------------------------------------
\* What a pass does once it has begun.
PassStep ==
    \/ \E h \in 1..MaxSideHeight : Observe(h)
    \/ Revalidate \/ Resolve \/ Reconstruct \/ Decide
    \/ ObserveFails \/ RevalidateFails \/ AlarmFails \/ QuorumExpires
    \/ \E b \in Burns : Select(b)
    \/ \E c \in Candidates : Prepare(c)
    \/ PrepareFails \/ NothingSelected

Tick == RollbackTick \/ PegOutsGated \/ BeginTick \/ PassStep

\* The rest of the daemon works on the tables between two passes.
RestOfTick ==
    /\ At("idle")
    /\ \/ AggregateNext
       \/ \E b \in Burns : MarkPegOutBurnReverted(b)
       \/ \E c \in Candidates : InvalidateCandidate(c)

\* The operator's recovery tool works on them at any time.  Its steps are taken
\* where the pass next reads the tables: elsewhere they make no difference to it.
OperatorRecovery ==
    /\ pass.at \in {"pinned", "clear", "preparing"}
    /\ \E t \in LegacyTxs : AbandonSubmittedAggregate(t) \/ AbandonPendingAggregateTransport(t)

Next ==
    \/ Tick
    \/ Restart
    \/ (RestOfTick \/ OperatorRecovery) /\ UNCHANGED <<chains, rowBlock, daemon>>
    \/ (MainStep \/ SideStep) /\ UNCHANGED <<tables, rowBlock, daemon>>

Init ==
    /\ TablesInit
    /\ main = <<0>> /\ side = <<0>>
    /\ mainBranches = 0 /\ sideBranches = 0
    /\ paidAt = [t \in MainTxs |-> IF t \in Deposits THEN 1 ELSE 0]
    /\ sideAt = [t \in SideTxs |-> IF t \in Deposits THEN 1 ELSE 0]
    /\ offered = MainTxs
    /\ lapsed = FALSE
    /\ rowBlock = [b \in Burns |-> Side!NoBlock]
    /\ pass = NoPass
    /\ held = FALSE
    /\ highWater = 0

Spec == Init /\ [][Next]_vars

\* A pass that has begun goes on: each of its awaits returns or throws.  Whether
\* another one ever begins is not assumed.
Fairness == WF_vars(PassStep)

FairSpec == Spec /\ Fairness

-----------------------------------------------------------------------------
(* Properties. *)

\* No reorganisation since the tip was admitted was as deep as finality.
FinalityKept == pass.settled = Main!NoBlock \/ Main!Canonical(pass.settled)

\* A pass ends clear only if, when supply and burns were read, the vault covered
\* the supply at the pin and every burn of the pinned chain that was not paid:
\* whatever the journals say, and whatever moved between the reads, provided that
\* no reorganisation within the pass replaced a block that counts as final.
ClearMeansBacked == At("clear") /\ FinalityKept => ~pass.short

\* A pass reports more than is owed only for burns that the pinned chain does not
\* hold, or that were already paid when the vault was read.
DeficitExplained ==
    At("deficit") /\ ~pass.short =>
        \E b \in pass.counted : b \notin pass.burns \/ b \in pass.paid

\* The alarm does not fall silent while it is asked: if passes keep beginning and no
\* more of them end because the quorum's decision lapsed (processPegOuts returns
\* without a hold), passes keep ending clear or the release of funds is held.
AlarmKeepsDeciding ==
    []<>At("started") /\ <>[][~QuorumExpires]_vars => []<>(held \/ At("clear"))
=============================================================================
