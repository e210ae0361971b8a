-------------------------- MODULE PegInInvariants ---------------------------
(***************************************************************************)
(* The inductive invariant of the daemon that handles peg-ins, conjunct by  *)
(* conjunct, and the classes its steps fall into: what a step may write,    *)
(* and where the daemon goes.  The proofs are in PegInJournalProofs,        *)
(* PegInBlockProofs and PegInDaemonProofs.                                  *)
(***************************************************************************)
EXTENDS PegInDaemon, JournalChainProofs

\* What one row promises: its part of GivenUpSafely and of ReceiptAgreesWithAttempt.
SafeRow(p) ==
    /\ IsIn(p, {"incident"}) => p \in incidents /\ externalHold
    /\ IsIn(p, GivenUp) =>
          /\ mint[p].status \notin LiveMint
          /\ pegIn[p].commit => In(CommitOf[p], {"none", "quarantined"})

AgreeingRow(p) ==
    Known(p) /\ HasReceipt(p) /\ ~IsIn(p, GivenUp) =>
        \/ ~Recorded(CommitOf[p])
        \/ In(CommitOf[p], {"confirmed"}) /\ attempt[CommitOf[p]].block = pegIn[p].receipt

TablesTypeOK ==
    /\ attempt \in [Txs -> Rows \cup {NoRow}]
    /\ pegIn \in [PegIns -> PegInRows \cup {NoPegIn}]
    /\ mint \in [PegIns -> MintRows]
    /\ hold \in [PegIns -> {"none", "deferred", "quarantined"}]
    /\ incidents \subseteq PegIns
    /\ externalHold \in BOOLEAN

TablesInv ==
    /\ TablesTypeOK
    /\ \A p \in PegIns : SafeRow(p) /\ AgreeingRow(p)

-----------------------------------------------------------------------------
(* The daemon. *)

\* The daemon is at work on one row: it reads the commitment, resolves the mint
\* of a commitment it has found, or classifies a row of an earlier contract.
Reading == {"tx", "header", "source", "vault"}
Resolving == {"processed", "still", "confirmation", "expiry"}
Classifying == {"legacySource", "legacyProcessed"}
Visiting == Reading \cup Resolving \cup Classifying \cup {"incident", "held"}
Passing == Visiting \cup {"next"}

\* What only happens in a tick that selects rows.
Selecting ==
    \/ work.place \in {"register", "recollect", "record", "gate"}
    \/ work.place \in Passing /\ work.pass \in {"legacy", "pending"}

\* Of the work: whether the pass is still conclusive, and whether the header of
\* the commitment's block was found.
Conclusive == work.conclusive
Headed == work.canonical

\* Where the daemon is, and the row it is at.
WorkInv ==
    /\ work \in Works
    /\ work.place = "next" => work.stage = "minted" /\ work.job = NoJob /\ \A p \in work.todo : Known(p)
    /\ work.place \in Visiting => work.job \in PegIns /\ Known(work.job) /\ \A p \in work.todo : Known(p)
    /\ work.place \in Reading \cup Resolving =>
          /\ pegIn[work.job].class = ActiveClass
          /\ (work.stage \in {"minted", "retry"}) <=> (work.pass # "pending")
          /\ work.place \in Resolving \/ work.stage \notin {"submitted", "canonical"} => HasReceipt(work.job)
    /\ work.place \in Classifying => pegIn[work.job].class # ActiveClass
    /\ work.place = "vault" => work.seen \in Blocks

\* Rows of earlier contracts have no commitment that was confirmed here.
ClassInv ==
    \A p \in PegIns : Known(p) /\ pegIn[p].class # ActiveClass =>
        ~HasReceipt(p)

\* The mints on the sidechain, and the blocks retained as their evidence.
MintsInv ==
    /\ side \in [PegIns -> Mints]
    /\ \A p \in PegIns :
          /\ side[p].deep => side[p].block > 0
          /\ side[p].block <= side[p].mined /\ mint[p].evidence <= side[p].mined
    /\ work.place = "expiry" /\ mint[work.job].evidence # NoMintBlock =>
          side[work.job].block # mint[work.job].evidence

\* Mints in flight: a pass over all submitted rows that is still conclusive has
\* them ahead of it, and where rows are selected there are none.
FlightInv ==
    /\ reorgPending \in BOOLEAN
    /\ \A p \in PegIns : InFlight(p) => hold[p] = "none"
    /\ ~reorgPending => \A p \in PegIns : ~InFlight(p)
    /\ Selecting => ~reorgPending
    /\ work.place = "down" => reorgPending
    /\ work.place \in Passing /\ work.pass = "all" /\ Conclusive =>
          \A p \in PegIns : InFlight(p) => p \in work.todo \cup {work.job}

\* The rows a displaced commitment matters for.
AtRisk(p) == IsIn(p, Submitted) /\ HasReceipt(p)

\* The daemon is at a row whose commitment it has found in block `seen'.
Vouching ==
    \/ work.place = "source" /\ Headed /\ work.seen # NoBlock
    \/ work.place \in {"vault"} \cup Resolving

Ticking == work.place \notin {"down", "idle"}

\* The blocks the daemon remembers.
MemoryInv ==
    /\ work.place # "down" => WasBest(baseline)
    /\ Ticking => WasBest(work.tip)
    /\ Ticking /\ work.place # "detect" /\ ~(work.place \in Passing /\ work.pass = "all") =>
          work.tip = baseline

\* A receipt names a block that was there, and not above what the daemon knows.
ReceiptInv ==
    \A p \in PegIns : Known(p) /\ HasReceipt(p) =>
        /\ WasBest(pegIn[p].receipt)
        /\ Canonical(pegIn[p].receipt) =>
              /\ Ticking => pegIn[p].receipt.height <= work.tip.height
              /\ work.place # "down" => pegIn[p].receipt.height <= baseline.height

\* What the daemon has read of the commitment of its row.
SeenInv ==
    /\ work.place \in (Reading \ {"tx"}) \cup Resolving /\ work.seen # NoBlock =>
          /\ WasBest(work.seen) /\ work.seen.height <= work.tip.height
          /\ Canonical(work.seen) => minedAt[CommitOf[work.job]] = work.seen.height
    /\ Vouching =>
          /\ work.seen \in Blocks
          /\ work.tip.height - work.seen.height + 1 >= Confirms
          /\ HasReceipt(work.job) => pegIn[work.job].receipt = work.seen
          /\ Canonical(work.seen) => work.seen.height <= baseline.height
          /\ Canonical(work.tip) \/ Canonical(baseline) => Holds(work.seen, CommitOf[work.job])

\* A row is in order as far as blocks the daemon remembers are still there.
InOrder(p) ==
    Canonical(work.tip) \/ Canonical(baseline) => Holds(pegIn[p].receipt, CommitOf[p])

NoticedInv ==
    /\ ~reorgPending => \A p \in PegIns : AtRisk(p) /\ Canonical(baseline) => Holds(pegIn[p].receipt, CommitOf[p])
    /\ work.place \in Passing /\ work.pass = "all" /\ Conclusive =>
          \A p \in PegIns : AtRisk(p) => p \in work.todo \cup {work.job} \/ InOrder(p)

\* On a chain that replaces no block with enough confirmations.
BuriedInv ==
    /\ highest \in Nat /\ deepest \in Nat /\ Len(best) <= highest
    /\ Ticking => work.tip.height <= highest
    /\ deepest < Confirms =>
          /\ \A p \in PegIns : Known(p) /\ HasReceipt(p) =>
                /\ Holds(pegIn[p].receipt, CommitOf[p])
                /\ pegIn[p].receipt.height + Confirms <= highest + 1
          /\ (/\ work.place \in (Reading \ {"tx"}) \cup Resolving /\ work.seen # NoBlock
              /\ work.tip.height - work.seen.height + 1 >= Confirms)
                => Holds(work.seen, CommitOf[work.job])

-----------------------------------------------------------------------------
(* What a step of a visit does: which operation it performs on the row, and  *)
(* where the daemon goes.                                                    *)

\* The visit goes on.
SameVisit ==
    /\ work' \in Works /\ work'.place \in Visiting
    /\ work'.job = work.job /\ work'.pass = work.pass /\ work'.todo = work.todo
    /\ work'.tip = work.tip /\ (Conclusive' <=> Conclusive)

\* It is over, and with it the tick if the pass was one that selects rows.
VisitEnds ==
    /\ work' \in Works
    /\ \/ work'.place = "idle"
       \/ /\ work'.place = "next" /\ work'.job = NoJob /\ work'.stage = "minted"
          /\ work'.pass = work.pass /\ work'.tip = work.tip
          /\ work'.todo \subseteq work.todo
          /\ work.pass # "pending" => work'.todo = work.todo

\* Nothing is written.
GoesOn(place, next) ==
    /\ Tables /\ SameVisit /\ work.place = place /\ work'.place = next

FindsTx ==
    /\ \E next \in {"header", "source"} : GoesOn("tx", next)
    /\ work'.stage = work.stage
    /\ work'.seen # NoBlock =>
          /\ Mined(CommitOf[Job]) /\ work'.seen = BlockAt(minedAt[CommitOf[Job]])
          /\ work'.seen.height <= work.tip.height /\ work'.place = "header"

FindsHeader ==
    /\ GoesOn("header", "source")
    /\ work'.stage = work.stage /\ work'.seen = work.seen
    /\ Headed' /\ work.seen # NoBlock =>
          /\ Canonical(work.seen) /\ work.tip.height - work.seen.height + 1 >= Confirms
          /\ HasReceipt(Job) => pegIn[Job].receipt = work.seen

FindsSpent ==
    /\ GoesOn("source", "vault") /\ Headed /\ work.seen # NoBlock
    /\ work'.stage = work.stage /\ work'.seen = work.seen

\* The commitment is where it should be: on to the mint.
Resolves ==
    /\ \/ GoesOn("vault", "processed") /\ HasReceipt(Job) /\ work.stage \in {"canonical", "minted"}
       \/ GoesOn("vault", "still") /\ work.stage = "retry"
       \/ GoesOn("processed", "confirmation") \/ GoesOn("still", "confirmation")
       \/ GoesOn("still", "expiry") /\ side[Job].block = 0
    /\ work'.stage = work.stage /\ work'.seen = work.seen

\* Everything is read once more before a mint or its reset.
ReadsAgain ==
    /\ GoesOn("processed", "tx")
    /\ work'.stage = IF work.pass = "pending" THEN "beforeMint" ELSE "retry"

ToIncident == \E place \in Reading \cup Resolving : GoesOn(place, "incident")

WritesReceipt ==
    /\ work.place = "vault" /\ work.stage \in {"submitted", "canonical"}
    /\ RecordConsumeConfirmed(Job, work.seen)
    /\ SameVisit
    /\ \/ work'.place = "tx" /\ work'.stage = "canonical"
       \/ work'.place = "processed" /\ work'.stage = work.stage /\ work'.seen = work.seen

\* The result is not conclusive.
GivesWay ==
    /\ VisitEnds /\ (work'.place = "next" => ~Conclusive')
    /\ \/ Tables
       \/ work.pass = "pending" /\ work.place \in Reading /\ (ResetCommit(Job) \/ MarkCommitInvalid(Job))

\* The result is.
Concludes ==
    /\ VisitEnds /\ (work'.place = "next" /\ Conclusive' => Conclusive)
    /\ work.place \in Resolving
    /\ \/ Tables /\ ~IsIn(Job, {"minting"})
       \/ RecordMinted(Job)
       \/ ConfirmMintRecovery(Job, side[Job].block) /\ side[Job].deep
       \/ /\ ResetMintForRetry(Job)
          /\ mint[Job].status \in LiveMint => work.place = "expiry" /\ side[Job].expired
          /\ work.place # "expiry" => side[Job].block = 0

Classifies ==
    /\ work.place = "legacyProcessed"
    /\ \E class \in LegacyClasses : UpdateClassification(Job, class)
    /\ \/ VisitEnds /\ (work'.place = "next" /\ Conclusive' => Conclusive)
       \/ SameVisit /\ work'.place = "incident"

OpensIncident ==
    \/ work.place = "incident" /\ HoldFundsRelease /\ SameVisit /\ work'.place = "held"
    \/ work.place = "held" /\ MarkIncident(Job) /\ VisitEnds /\ (work'.place = "next" /\ Conclusive' => Conclusive)

VisitStep ==
    /\ UNCHANGED <<chains, baseline, reorgPending>>
    /\ work.place \in Visiting
    /\ \/ FindsTx \/ FindsHeader \/ FindsSpent \/ Resolves \/ ReadsAgain \/ ToIncident
       \/ GoesOn("legacySource", "legacyProcessed")
       \/ WritesReceipt \/ GivesWay \/ Concludes \/ Classifies \/ OpensIncident

Between == {"select", "register", "recollect", "record", "gate", "cycle"}

\* A pass over rows begins.
PassBegins(pass, S) ==
    /\ work' \in Works /\ work'.place = "next" /\ work'.pass = pass /\ work'.todo = S
    /\ work'.stage = "minted" /\ work'.job = NoJob

Still == Tables /\ UNCHANGED <<chains, baseline, reorgPending>>

AllSubmitted == {p \in PegIns : IsIn(p, Submitted)}

Starts ==
    /\ work.place = "down" /\ PassBegins("all", AllSubmitted) /\ work'.tip = Tip
    /\ Tables /\ UNCHANGED <<chains, reorgPending>> /\ baseline' = Tip

BeginsTick == work.place = "idle" /\ Still /\ work' \in Works /\ work'.place = "detect" /\ work'.tip = Tip

DetectsReorg ==
    /\ work.place = "detect" /\ Still
    /\ PassBegins("all", AllSubmitted) /\ work'.tip = work.tip

DetectsNone ==
    /\ work.place = "detect" /\ work' \in Works /\ work'.place = "select" /\ work'.tip = work.tip
    /\ Tables /\ UNCHANGED <<chains, reorgPending>> /\ baseline' = work.tip
    /\ ~reorgPending
    /\ work.tip = baseline \/ (Canonical(baseline) /\ work.tip.height > baseline.height)

GoesIdle == Still /\ work.place # "down" /\ work' \in Works /\ work'.place = "idle"

MovesOn ==
    /\ Still
    /\ work.place \in Between \/ (work.place = "next" /\ work.pass # "all")
    /\ work' \in Works /\ work'.place \in Between \ {"select"} /\ work'.tip = work.tip
    /\ work'.place # "cycle" => ~reorgPending

BeginsPass ==
    /\ Still /\ work.place \in Between
    /\ \E pass \in {"legacy", "pending", "batch"}, S \in SUBSET PegIns :
          /\ PassBegins(pass, S)
          /\ \A p \in S : Known(p)
          /\ pass # "batch" => ~reorgPending
    /\ work'.tip = work.tip

\* The next row is taken.
Takes ==
    /\ work.place = "next" /\ Still /\ work' \in Works
    /\ \E p \in work.todo :
          /\ work'.job = p /\ work'.todo = work.todo \ {p} /\ work'.pass = work.pass
          /\ work'.tip = work.tip /\ (Conclusive' <=> Conclusive)
          /\ \/ work'.place = "legacySource" /\ pegIn[p].class # ActiveClass
             \/ /\ work'.place = "tx" /\ pegIn[p].class = ActiveClass
                /\ \/ work.pass = "pending" /\ work'.stage \in {"submitted", "canonical"}
                   \/ work.pass # "pending" /\ work'.stage = work.stage /\ HasReceipt(p)
             \/ work'.place = "incident"

EndsPass ==
    /\ work.place = "next" /\ work.todo = {} /\ work.pass = "all"
    /\ Tables /\ UNCHANGED chains
    /\ reorgPending' \in BOOLEAN /\ (~reorgPending' => Conclusive)
    /\ work' \in Works
    /\ \/ baseline' = work.tip /\ work'.place = "select" /\ work'.tip = work.tip
       \/ baseline' = work.tip /\ work'.place = "idle"
       \/ baseline' = baseline /\ work'.place = "idle"

Registers ==
    /\ work.place = "register" /\ UNCHANGED <<chains, baseline, reorgPending>>
    /\ \E p \in PegIns : InsertPegIn(p, ActiveClass) \/ InsertPegIn(p, "legacy_unminted_refundable")
    /\ work' \in Works /\ work'.place = "register" /\ work'.tip = work.tip

RecordsHold ==
    /\ work.place = "record" /\ UNCHANGED <<chains, baseline, reorgPending>>
    /\ \E p \in PegIns, d \in {"deferred", "quarantined"} : RecordReconciliation(p, d)
    /\ work' \in Works /\ work'.place = "record" /\ work'.tip = work.tip

Crashes ==
    /\ Tables /\ UNCHANGED chains
    /\ work' \in Works /\ work'.place = "down" /\ reorgPending' = TRUE

TickStep ==
    \/ Starts \/ BeginsTick \/ DetectsReorg \/ DetectsNone \/ GoesIdle \/ MovesOn \/ BeginsPass
    \/ Takes \/ EndsPass \/ Registers \/ RecordsHold \/ Crashes

\* An attempt to mint that is given up cannot be the one that minted.
MintGone(p) ==
    /\ mint[p].status \in LiveMint => side[p].expired
    /\ mint[p].evidence # NoMintBlock => side[p].block # mint[p].evidence

RowEffect(p) ==
    /\ Known(p) => Known(p)'
    /\ Known(p)' /\ ~Known(p) => ~HasReceipt(p)' /\ IsIn(p, {"detected"})'
    /\ IsIn(p, {"minting"})' => IsIn(p, {"minting"})
    /\ IsIn(p, Submitted)' => IsIn(p, Submitted) \/ (p = Job /\ work.place \in Resolving)
    /\ Known(p) /\ HasReceipt(p)' =>
          \/ HasReceipt(p) /\ pegIn'[p].receipt = pegIn[p].receipt
          \/ p = Job /\ work.place = "vault" /\ pegIn'[p].receipt = work.seen /\ ~IsIn(p, Submitted)'
    /\ Known(p) /\ HasReceipt(p) /\ ~HasReceipt(p)' => p = Job /\ VisitEnds
    /\ Known(p) => \/ pegIn'[p].class = pegIn[p].class
                   \/ p = Job /\ work.place \in Classifying /\ pegIn'[p].class # ActiveClass
    /\ hold'[p] = hold[p] \/ work.place = "record"
    /\ mint'[p].evidence = mint[p].evidence \/ (p = Job /\ mint'[p].evidence = side[p].block)
    /\ mint[p].status # "abandoned" /\ mint'[p].status = "abandoned" => MintGone(p)

AllRows == \A p \in PegIns : RowEffect(p)

TablesMove == [PegInJournalNext]_pegInVars
=============================================================================
