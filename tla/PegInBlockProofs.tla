-------------------------- MODULE PegInBlockProofs --------------------------
(***************************************************************************)
(* Proofs about what the daemon remembers of the Ergo chain and of the      *)
(* mints in flight, for every length and depth of the chain and every       *)
(* number of confirmations: the steps of the daemon, by their classes, and  *)
(* those of the chain keep its part of the invariant.                       *)
(***************************************************************************)
EXTENDS PegInInvariants

LEMMA CommitMinable == ASSUME NEW p \in PegIns PROVE CommitOf[p] \in ChainTxs
  BY PegInsAssumption, PegInDaemonAssumption, Zenon

LEMMA RowOfKnown == ASSUME TablesInv, NEW p \in PegIns, Known(p) PROVE pegIn[p] \in PegInRows
  BY Zenon DEF TablesInv, TablesTypeOK, Known, NoPegIn

-----------------------------------------------------------------------------
(* Mints in flight. *)

LEMMA FlightBefore == ASSUME AllRows, NEW q \in PegIns, InFlight(q)' PROVE InFlight(q)
<1>1. RowEffect(q) /\ IsIn(q, {"minting"})' /\ pegIn'[q].class = ActiveClass
  BY Zenon DEF AllRows, InFlight
<1>2. IsIn(q, {"minting"})
  BY <1>1, Zenon DEF RowEffect
<1>3. Known(q)
  BY <1>2 DEF IsIn, Known, NoPegIn
<1> QED
  BY <1>1, <1>2, <1>3, Zenon DEF RowEffect, InFlight

LEMMA StatusAfter ==
    ASSUME TablesInv, NEW p \in PegIns, Known(p), NEW row, pegIn' = [pegIn EXCEPT ![p] = row],
           NEW status, row.status = status
    PROVE  pegIn'[p].status = status
  BY Zenon DEF TablesInv, TablesTypeOK

\* A row whose visit ends conclusively has no mint in flight any more, and is at
\* no risk unless its commitment was found.
LEMMA ConcludedJob ==
    ASSUME TablesInv, WorkInv, ClassInv, AllRows, VisitStep, VisitEnds, work'.place = "next", Conclusive',
           NEW p \in PegIns, p = Job
    PROVE  /\ Conclusive /\ ~InFlight(p)'
           /\ AtRisk(p)' => work.place \in Resolving
<1>1. Known(p) /\ pegIn[p] \in PegInRows /\ RowEffect(p)
  BY RowOfKnown, Zenon DEF VisitStep, WorkInv, Job, AllRows
<1>2. ~SameVisit
  BY Zenon DEF SameVisit, Visiting, Reading, Resolving, Classifying
<1>3. Concludes \/ Classifies \/ (work.place = "held" /\ MarkIncident(p))
  BY <1>2, Zenon DEF VisitStep, FindsTx, FindsHeader, FindsSpent, Resolves, ReadsAgain, ToIncident, GoesOn, WritesReceipt,
              GivesWay, OpensIncident
<1>4. Conclusive
  BY <1>2, Zenon DEF VisitStep, FindsTx, FindsHeader, FindsSpent, Resolves, ReadsAgain, ToIncident, GoesOn, WritesReceipt,
              GivesWay, OpensIncident, Concludes, Classifies
<1>5. CASE Concludes
  <2>1. work.place \in Resolving
    BY <1>5, Zenon DEF Concludes
  <2>2. CASE Tables /\ ~IsIn(p, {"minting"})
    BY <1>4, <2>1, <2>2, Zenon DEF Tables, pegInVars, pegInTables, IsIn, InFlight
  <2>3. CASE RecordMinted(p) \/ ConfirmMintRecovery(p, side[p].block)
    <3>1. pegIn'[p].status = "minted"
      <4>1. CASE RecordMinted(p)
        <5> DEFINE row == [pegIn[p] EXCEPT !.status = "minted"]
        <5>1. row.status = "minted"
          BY <1>1, Zenon DEF PegInRows
        <5>2. pegIn' = [pegIn EXCEPT ![p] = row]
          BY <4>1, Zenon DEF RecordMinted, Update
        <5> HIDE DEF row
        <5> QED
          BY <1>1, <5>1, <5>2, StatusAfter, Zenon
      <4>2. CASE ConfirmMintRecovery(p, side[p].block)
        <5> DEFINE row == [pegIn[p] EXCEPT !.status = "minted", !.hash = TRUE]
        <5>1. row.status = "minted"
          BY <1>1, Zenon DEF PegInRows
        <5>2. pegIn' = [pegIn EXCEPT ![p] = row]
          BY <4>2, Zenon DEF ConfirmMintRecovery, Update
        <5> HIDE DEF row
        <5> QED
          BY <1>1, <5>1, <5>2, StatusAfter, Zenon
      <4> QED
        BY <2>3, <4>1, <4>2, Zenon
    <3> QED
      BY <1>4, <2>1, <3>1, Zenon DEF IsIn, InFlight
  <2>4. CASE ResetMintForRetry(p)
    <3> DEFINE row == [pegIn[p] EXCEPT !.status = "consume_confirmed", !.hash = FALSE]
    <3>1. row.status = "consume_confirmed"
      BY <1>1, Zenon DEF PegInRows
    <3>2. pegIn' = [pegIn EXCEPT ![p] = row]
      BY <2>4, Zenon DEF ResetMintForRetry, Update
    <3> HIDE DEF row
    <3>3. pegIn'[p].status = "consume_confirmed"
      BY <1>1, <3>1, <3>2, StatusAfter, Zenon
    <3> QED
      BY <1>4, <2>1, <3>3, Zenon DEF IsIn, InFlight
  <2> QED
    BY <1>4, <1>5, <2>1, <2>2, <2>3, <2>4, Zenon DEF Concludes
<1>6. CASE Classifies
  <2>1. work.place \in Classifying /\ work.place # "vault" /\ pegIn[p].class # ActiveClass
    BY <1>6, Zenon DEF Classifies, Classifying, WorkInv, Job
  <2>2. ~HasReceipt(p) /\ pegIn'[p].class # ActiveClass
    BY <1>1, <2>1, Zenon DEF ClassInv, RowEffect
  <2> QED
    BY <1>1, <1>4, <2>1, <2>2, Zenon DEF RowEffect, AtRisk, InFlight
<1>7. CASE MarkIncident(p)
  <2> DEFINE row == [pegIn[p] EXCEPT !.status = "incident"]
  <2>1. row.status = "incident"
    BY <1>1, Zenon DEF PegInRows
  <2>2. pegIn' = [pegIn EXCEPT ![p] = row]
    BY <1>7, Zenon DEF MarkIncident, GiveUp, Update
  <2> HIDE DEF row
  <2>3. pegIn'[p].status = "incident"
    BY <1>1, <2>1, <2>2, StatusAfter, Zenon
  <2> QED
    BY <1>4, <2>3, Zenon DEF IsIn, AtRisk, Submitted, InFlight
<1> QED
  BY <1>3, <1>5, <1>6, <1>7, Zenon

\* A visit goes on or ends.
LEMMA VisitEither == ASSUME VisitStep PROVE SameVisit \/ VisitEnds
  BY Zenon DEF VisitStep, FindsTx, FindsHeader, FindsSpent, Resolves, ReadsAgain, ToIncident, GoesOn, WritesReceipt,
         GivesWay, Concludes, Classifies, OpensIncident

LEMMA VisitKeepsFlight ==
    ASSUME TablesInv, WorkInv, ClassInv, FlightInv, AllRows, VisitStep PROVE FlightInv'
<1>1. PICK p \in PegIns : p = Job
  BY Zenon DEF VisitStep, WorkInv, Job
<1>2. work.place \in Visiting /\ UNCHANGED reorgPending /\ work.job = p
  BY <1>1, Zenon DEF VisitStep, Job
<1>3. \A q \in PegIns : (InFlight(q)' => InFlight(q)) /\ hold'[q] = hold[q]
  BY <1>2, FlightBefore, Zenon DEF AllRows, RowEffect, Visiting, Reading, Resolving, Classifying
<1>4. /\ work'.place \in Passing => work'.pass = work.pass
      /\ work'.place \in Passing \cup {"idle"}
  BY VisitEither, Zenon DEF SameVisit, VisitEnds, Passing, Visiting, Reading, Resolving, Classifying
<1>5. Selecting' => Selecting
  BY <1>2, <1>4, Zenon DEF Selecting, Passing, Visiting, Reading, Resolving, Classifying
<1>6. work'.place # "down"
  BY <1>4, Zenon DEF Passing, Visiting, Reading, Resolving, Classifying
<1>7. ASSUME work'.place \in Passing, work'.pass = "all", Conclusive', NEW q \in PegIns, InFlight(q)'
      PROVE  q \in work'.todo \cup {work'.job}
  <2>1. InFlight(q) /\ work.pass = "all"
    BY <1>3, <1>4, <1>7, Zenon
  <2>2. CASE SameVisit
    <3>1. Conclusive /\ work'.todo = work.todo /\ work'.job = work.job
      BY <1>7, <2>2, Zenon DEF SameVisit
    <3> QED
      BY <1>2, <2>1, <3>1, Zenon DEF FlightInv, Passing
  <2>3. CASE VisitEnds
    <3>1. work'.place = "next" /\ work'.todo = work.todo
      BY <1>7, <2>1, <2>3, Zenon DEF VisitEnds, Passing, Visiting, Reading, Resolving, Classifying
    <3>2. Conclusive /\ ~InFlight(p)'
      BY <1>1, <1>7, <2>3, <3>1, ConcludedJob, Zenon
    <3>3. q \in work.todo \cup {p} /\ q # p
      BY <1>2, <1>7, <2>1, <3>2, Zenon DEF FlightInv, Passing
    <3> QED
      BY <3>1, <3>3, Zenon
  <2> QED
    BY <2>2, <2>3, VisitEither, Zenon
<1> QED
  BY <1>2, <1>3, <1>5, <1>6, <1>7, Zenon DEF FlightInv

LEMMA TickKeepsFlight ==
    ASSUME WorkInv, FlightInv, AllRows, TickStep PROVE FlightInv'
<1>1. \A q \in PegIns : InFlight(q)' => InFlight(q) /\ hold'[q] = "none"
  BY FlightBefore, Zenon DEF AllRows, RowEffect, FlightInv, Selecting
<1>2. CASE Starts \/ DetectsReorg
  <2>1. PassBegins("all", AllSubmitted) /\ UNCHANGED reorgPending
    BY <1>2, Zenon DEF Starts, DetectsReorg, Still
  <2>2. /\ work'.place = "next" /\ work'.pass = "all"
        /\ \A q \in PegIns : InFlight(q) => q \in work'.todo
    BY <2>1, Zenon DEF PassBegins, AllSubmitted, IsIn, Submitted, InFlight
  <2> QED
    BY <1>1, <2>1, <2>2, Zenon DEF FlightInv, Selecting
<1>3. CASE BeginsPass
  <2>1. PICK pass \in {"legacy", "pending", "batch"}, S \in SUBSET PegIns :
            PassBegins(pass, S) /\ (pass # "batch" => ~reorgPending)
    BY <1>3, Zenon DEF BeginsPass
  <2>2. work'.place = "next" /\ work'.pass = pass /\ UNCHANGED reorgPending
    BY <1>3, <2>1, Zenon DEF PassBegins, BeginsPass, Still
  <2> QED
    BY <1>1, <2>1, <2>2, Zenon DEF FlightInv, Selecting
<1>4. CASE Takes
  <2>1. PICK p \in work.todo :
          /\ work'.job = p /\ work'.todo = work.todo \ {p} /\ work'.pass = work.pass
          /\ work'.place \in Visiting /\ (Conclusive' <=> Conclusive)
    BY <1>4, Zenon DEF Takes, Visiting, Reading, Classifying
  <2>2. work.place = "next" /\ work.job = NoJob /\ UNCHANGED reorgPending /\ work'.place # "down"
    BY <1>4, <2>1, Zenon DEF Takes, Still, WorkInv, Visiting, Reading, Resolving, Classifying
  <2>3. Selecting' => Selecting
    BY <2>1, <2>2, Zenon DEF Selecting, Passing, Visiting, Reading, Resolving, Classifying
  <2>4. NoJob \notin PegIns
    BY PegInsAssumption, Zenon DEF NoJob
  <2>5. work'.pass = "all" /\ Conclusive' => \A q \in PegIns : InFlight(q) => q \in work'.todo \cup {work'.job}
    BY <2>1, <2>2, <2>4, Zenon DEF FlightInv, Passing
  <2> QED
    BY <1>1, <2>2, <2>3, <2>5, Zenon DEF FlightInv
<1>5. CASE EndsPass
  <2>1. /\ work.place = "next" /\ work.todo = {} /\ work.pass = "all" /\ work.job = NoJob
        /\ reorgPending' \in BOOLEAN /\ (~reorgPending' => Conclusive) /\ work'.place \in {"select", "idle"}
    BY <1>5, Zenon DEF EndsPass, WorkInv
  <2>2. NoJob \notin PegIns
    BY PegInsAssumption, Zenon DEF NoJob
  <2>3. ~reorgPending' => \A q \in PegIns : ~InFlight(q)
    BY <2>1, <2>2, Zenon DEF FlightInv, Passing
  <2>4. ~Selecting' /\ work'.place # "down" /\ work'.place \notin Passing
    BY <2>1, Zenon DEF Selecting, Passing, Visiting, Reading, Resolving, Classifying
  <2> QED
    BY <1>1, <2>1, <2>3, <2>4, Zenon DEF FlightInv
<1>6. CASE Crashes
  <2>1. reorgPending' = TRUE /\ ~Selecting' /\ work'.place \notin Passing
    BY <1>6, Zenon DEF Crashes, Selecting, Passing, Visiting, Reading, Resolving, Classifying
  <2> QED
    BY <1>1, <2>1, Zenon DEF FlightInv
<1>7. CASE BeginsTick \/ DetectsNone \/ GoesIdle \/ MovesOn \/ Registers \/ RecordsHold
  <2>1. UNCHANGED reorgPending /\ work'.place \in Between \cup {"idle", "detect"}
    BY <1>7, Zenon DEF BeginsTick, DetectsNone, GoesIdle, MovesOn, Registers, RecordsHold, Between, Still
  <2>2. work'.place \notin Passing /\ work'.place # "down"
    BY <2>1, Zenon DEF Between, Passing, Visiting, Reading, Resolving, Classifying
  <2>3. Selecting' => ~reorgPending
    BY <1>7, <2>2, Zenon DEF BeginsTick, DetectsNone, GoesIdle, MovesOn, Registers, RecordsHold, Selecting, FlightInv
  <2> QED
    BY <1>1, <2>1, <2>2, <2>3, Zenon DEF FlightInv
<1> QED
  BY <1>2, <1>3, <1>4, <1>5, <1>6, <1>7, Zenon DEF TickStep

-----------------------------------------------------------------------------
(* The blocks the daemon remembers, while it visits a row. *)

LEMMA VisitKeepsMemory == ASSUME MemoryInv, VisitStep PROVE MemoryInv'
<1>1. /\ UNCHANGED <<best, branches, baseline>> /\ work.place \in Visiting
      /\ work.place \in Passing /\ work.place \notin {"down", "idle", "detect"}
  BY Zenon DEF VisitStep, chains, branchVars, Passing, Visiting, Reading, Resolving, Classifying
<1>2. \/ work'.place = "idle"
      \/ /\ work'.tip = work.tip /\ work'.pass = work.pass /\ work'.place \in Passing
         /\ work'.place \notin {"down", "idle", "detect"}
  BY VisitEither, Zenon DEF SameVisit, VisitEnds, Passing, Visiting, Reading, Resolving, Classifying
<1>3. WasBest(baseline) /\ WasBest(work.tip)
  BY <1>1, Zenon DEF MemoryInv, Ticking
<1>4. WasBest(baseline)'
  BY <1>1, <1>3, Zenon DEF WasBest
<1>5. CASE work'.place = "idle"
  BY <1>4, <1>5, Zenon DEF MemoryInv, Ticking
<1>6. CASE /\ work'.tip = work.tip /\ work'.pass = work.pass /\ work'.place \in Passing
           /\ work'.place \notin {"down", "idle", "detect"}
  <2>1. WasBest(work.tip)'
    BY <1>1, <1>3, <1>6, Zenon DEF WasBest
  <2>2. work.pass # "all" => work.tip = baseline
    BY <1>1, Zenon DEF MemoryInv, Ticking
  <2> QED
    BY <1>1, <1>4, <1>6, <2>1, <2>2, Zenon DEF MemoryInv
<1> QED
  BY <1>2, <1>5, <1>6, Zenon

\* A receipt after a step of a visit: the one before it, or the block the
\* commitment was found in.
LEMMA ReceiptAfter ==
    ASSUME WorkInv, AllRows, NEW p \in PegIns, Known(p)', HasReceipt(p)'
    PROVE  /\ Known(p)
           /\ \/ HasReceipt(p) /\ pegIn'[p].receipt = pegIn[p].receipt
              \/ p = Job /\ work.place = "vault" /\ pegIn'[p].receipt = work.seen /\ ~IsIn(p, Submitted)'
<1>1. RowEffect(p)
  BY Zenon DEF AllRows
<1> QED
  BY <1>1, Zenon DEF RowEffect

LEMMA VisitKeepsReceipts ==
    ASSUME WorkInv, AllRows, ReceiptInv, SeenInv, VisitStep PROVE ReceiptInv'
<1>1. /\ UNCHANGED <<best, branches, baseline>> /\ Ticking /\ work.place # "down"
      /\ work'.place # "idle" => work'.tip = work.tip
  BY VisitEither, Zenon DEF VisitStep, chains, branchVars, Ticking, Visiting, Reading, Resolving, Classifying,
                     SameVisit, VisitEnds
<1> SUFFICES ASSUME NEW p \in PegIns, Known(p)', HasReceipt(p)'
             PROVE  /\ WasBest(pegIn[p].receipt)'
                    /\ Canonical(pegIn[p].receipt)' =>
                          /\ Ticking' => pegIn'[p].receipt.height <= work'.tip.height
                          /\ work'.place # "down" => pegIn'[p].receipt.height <= baseline'.height
  BY Zenon DEF ReceiptInv
<1> DEFINE r == pegIn'[p].receipt
<1>2. WasBest(r) /\ (Canonical(r) => r.height <= work.tip.height /\ r.height <= baseline.height)
  <2>1. CASE Known(p) /\ HasReceipt(p) /\ pegIn'[p].receipt = pegIn[p].receipt
    BY <1>1, <2>1, Zenon DEF ReceiptInv
  <2>2. CASE work.place = "vault" /\ pegIn'[p].receipt = work.seen
    <3>1. Vouching /\ work.place \in (Reading \ {"tx"}) \cup Resolving
      BY <2>2, Zenon DEF Vouching, Reading
    <3>2. work.seen # NoBlock
      BY <2>2, PegInDaemonAssumption, TxsAssumption, Zenon DEF WorkInv, Unconfirmed, NoBlock
    <3> QED
      BY <2>2, <3>1, <3>2, Zenon DEF SeenInv
  <2> QED
    BY <2>1, <2>2, ReceiptAfter, Zenon
<1>3. WasBest(pegIn[p].receipt)'
  BY <1>1, <1>2, Zenon DEF WasBest
<1>4. Canonical(pegIn[p].receipt)' => Canonical(r)
  BY <1>1, Zenon DEF Canonical
<1>5. Ticking' => work'.tip = work.tip
  BY <1>1, Zenon DEF Ticking
<1> HIDE DEF r
<1> QED
  BY <1>1, <1>2, <1>3, <1>4, <1>5, Zenon DEF r

\* Where what the daemon has read comes from.
Later == (Reading \ {"tx"}) \cup Resolving

LEMMA SeenNext ==
    ASSUME VisitStep, work'.place \in Later
    PROVE  /\ SameVisit
           /\ \/ FindsTx
              \/ FindsHeader /\ work.place \in Later /\ work'.seen = work.seen
              \/ work.place \in Later /\ work'.seen = work.seen /\ work'.place # "source" /\ Vouching
<1>1. work'.place \notin {"idle", "next", "tx", "incident", "held", "legacyProcessed"}
  BY Zenon DEF Later, Reading, Resolving
<1>2. FindsTx \/ FindsHeader \/ FindsSpent \/ Resolves \/ WritesReceipt
  BY <1>1, Zenon DEF VisitStep, ReadsAgain, ToIncident, GoesOn, GivesWay, VisitEnds, Concludes, Classifies, OpensIncident
<1>3. SameVisit
  BY <1>2, Zenon DEF FindsTx, FindsHeader, FindsSpent, Resolves, WritesReceipt, GoesOn
<1>4. CASE FindsHeader
  BY <1>3, <1>4, Zenon DEF FindsHeader, GoesOn, Later, Reading
<1>5. CASE FindsSpent
  BY <1>3, <1>5, Zenon DEF FindsSpent, GoesOn, Later, Reading, Vouching
<1>6. CASE Resolves
  BY <1>3, <1>6, Zenon DEF Resolves, GoesOn, Later, Reading, Resolving, Vouching
<1>7. CASE WritesReceipt
  BY <1>1, <1>3, <1>7, Zenon DEF WritesReceipt, Later, Reading, Vouching
<1> QED
  BY <1>2, <1>3, <1>4, <1>5, <1>6, <1>7, Zenon

LEMMA VouchingNext ==
    ASSUME VisitStep, Vouching'
    PROVE  /\ SameVisit /\ work'.seen = work.seen /\ work.place \in Later
           /\ Vouching \/ (FindsHeader /\ Headed' /\ work.seen # NoBlock)
<1>1. work'.place \in Later
  BY Zenon DEF Vouching, Later, Reading, Resolving
<1>2. ~FindsTx
  <2>1. SUFFICES ASSUME FindsTx PROVE FALSE
    BY Zenon
  <2>2. work'.place \in {"header", "source"} /\ (work'.seen # NoBlock => work'.place = "header")
    BY <2>1, Zenon DEF FindsTx, GoesOn
  <2> QED
    BY <2>2, Zenon DEF Vouching, Resolving
<1>3. CASE FindsHeader /\ work.place \in Later /\ work'.seen = work.seen
  <2>1. work'.place = "source"
    BY <1>3, Zenon DEF FindsHeader, GoesOn
  <2>2. Headed' /\ work'.seen # NoBlock
    BY <2>1, Zenon DEF Vouching, Resolving
  <2> QED
    BY <1>1, <1>3, <2>2, SeenNext, Zenon
<1> QED
  BY <1>1, <1>2, <1>3, SeenNext, Zenon

LEMMA VisitKeepsFirstSeen ==
    ASSUME ChainInv, BranchOrder, WorkInv, SeenInv, VisitStep, work'.place \in Later, work'.seen # NoBlock
    PROVE  /\ WasBest(work.seen)' /\ work'.seen.height <= work'.tip.height
           /\ Canonical(work.seen)' => minedAt'[CommitOf[work'.job]] = work'.seen.height
<1>1. /\ UNCHANGED <<best, branches, minedAt>> /\ SameVisit /\ work'.tip = work.tip /\ work'.job = work.job
      /\ work.job \in PegIns
  BY SeenNext, Zenon DEF VisitStep, chains, branchVars, SameVisit, WorkInv
<1> DEFINE b == work'.seen
           t == CommitOf[work.job]
<1>2. WasBest(b) /\ b.height <= work.tip.height /\ (Canonical(b) => minedAt[t] = b.height)
  <2>1. CASE FindsTx
    <3>1. Mined(t) /\ b = BlockAt(minedAt[t]) /\ b.height <= work.tip.height
      BY <2>1, Zenon DEF FindsTx, Job
    <3>2. t \in ChainTxs
      BY <1>1, CommitMinable, Zenon
    <3>3. minedAt[t] \in DOMAIN best
      BY <3>1, <3>2, MinedRange, Zenon
    <3>4. b \in Blocks /\ Canonical(b) /\ b.height = minedAt[t]
      BY <3>1, <3>3, BlockAtCanonical, Zenon
    <3> HIDE DEF b, t
    <3>5. WasBest(b)
      BY <3>4, CanonicalWasBest, Zenon
    <3> QED
      BY <3>1, <3>4, <3>5, Zenon
  <2>2. CASE work.place \in Later /\ work'.seen = work.seen
    BY <2>2, Zenon DEF SeenInv, Later
  <2> QED
    BY <2>1, <2>2, SeenNext, Zenon
<1>3. WasBest(work.seen)'
  BY <1>1, <1>2, Zenon DEF WasBest
<1>4. Canonical(work.seen)' => Canonical(b)
  BY <1>1, Zenon DEF Canonical
<1> QED
  BY <1>1, <1>2, <1>3, <1>4, Zenon

LEMMA VisitKeepsVouching ==
    ASSUME WorkInv, AllRows, MemoryInv, ReceiptInv, SeenInv, VisitStep, Vouching'
    PROVE  /\ work'.seen \in Blocks
           /\ work'.tip.height - work'.seen.height + 1 >= Confirms
           /\ HasReceipt(work.job)' => pegIn'[work'.job].receipt = work'.seen
           /\ Canonical(work.seen)' => work'.seen.height <= baseline'.height
           /\ Canonical(work.tip)' \/ Canonical(baseline)' => Holds(work.seen, CommitOf[work.job])'
<1>1. /\ UNCHANGED <<best, branches, minedAt, baseline>> /\ SameVisit /\ work'.tip = work.tip /\ work'.job = work.job
      /\ work'.seen = work.seen /\ work.place \in Later /\ work.place \in Reading \cup Resolving
      /\ work.place \in Visiting /\ work.place # "detect" /\ work.place # "down"
      /\ Ticking /\ work \in Works
  BY VouchingNext, Zenon DEF VisitStep, chains, branchVars, SameVisit, WorkInv, Later, Reading, Resolving, Ticking,
                      Visiting, Classifying
<1>2. PICK p \in PegIns : p = work.job /\ p = Job
  BY <1>1, Zenon DEF WorkInv, Job
<1> DEFINE b == work.seen
           t == CommitOf[p]
           good == /\ b \in Blocks /\ work.tip.height - b.height + 1 >= Confirms
                   /\ HasReceipt(p) => pegIn[p].receipt = b
                   /\ Canonical(b) => b.height <= baseline.height
                   /\ Canonical(work.tip) \/ Canonical(baseline) => Holds(b, t)
<1>3. good
  <2>1. CASE Vouching
    BY <1>2, <2>1, Zenon DEF SeenInv
  <2>2. CASE FindsHeader /\ Headed' /\ work.seen # NoBlock
    <3>1. /\ Canonical(b) /\ work.tip.height - b.height + 1 >= Confirms
          /\ HasReceipt(p) => pegIn[p].receipt = b
      BY <1>2, <2>2, Zenon DEF FindsHeader
    <3>2. /\ b \in Blocks /\ b.height <= work.tip.height /\ (Canonical(b) => minedAt[t] = b.height)
      BY <1>1, <1>2, <2>2, Zenon DEF SeenInv, Later, Works
    <3>3. b.height <= baseline.height
      <4>1. CASE work.pass # "all"
        <5>1. work.tip = baseline
          BY <1>1, <4>1, Zenon DEF MemoryInv
        <5> QED
          BY <3>2, <5>1, Zenon
      <4>2. CASE work.pass = "all"
        <5>1. HasReceipt(p) /\ Known(p)
          BY <1>1, <1>2, <4>2, Zenon DEF WorkInv
        <5> QED
          BY <1>1, <3>1, <5>1, Zenon DEF ReceiptInv
      <4> QED
        BY <4>1, <4>2, Zenon
    <3>4. Holds(b, t)
      BY <3>1, <3>2, Zenon DEF Holds
    <3> QED
      BY <3>1, <3>2, <3>3, <3>4, Zenon
  <2> QED
    BY <2>1, <2>2, VouchingNext, Zenon
<1>4. HasReceipt(p)' => pegIn'[p].receipt = b
  <2>1. Known(p) /\ RowEffect(p)
    BY <1>1, <1>2, Zenon DEF WorkInv, AllRows
  <2> QED
    BY <1>3, <2>1, Zenon DEF RowEffect
<1>5. /\ Canonical(work.seen)' => Canonical(b)
      /\ Canonical(work.tip)' => Canonical(work.tip)
      /\ Canonical(baseline)' => Canonical(baseline)
      /\ Holds(b, t) => Holds(work.seen, CommitOf[work.job])'
  BY <1>1, <1>2, Zenon DEF Canonical, Holds
<1>6. HasReceipt(work.job)' => HasReceipt(p)'
  BY <1>1, <1>2, Zenon DEF HasReceipt
<1> QED
  BY <1>1, <1>2, <1>3, <1>4, <1>5, <1>6, Zenon

LEMMA VisitKeepsSeen ==
    ASSUME ChainInv, BranchOrder, WorkInv, AllRows, MemoryInv, ReceiptInv, SeenInv, VisitStep
    PROVE  SeenInv'
  BY VisitKeepsFirstSeen, VisitKeepsVouching, Zenon DEF SeenInv, Later

\* A row that is at risk after a step was before it, or is the one that is
\* being resolved.
LEMMA AtRiskAfter ==
    ASSUME WorkInv, AllRows, NEW p \in PegIns, AtRisk(p)'
    PROVE  /\ pegIn'[p].receipt = pegIn[p].receipt /\ HasReceipt(p)
           /\ AtRisk(p) \/ (p = Job /\ work.place \in Resolving)
<1>1. RowEffect(p) /\ IsIn(p, Submitted)' /\ HasReceipt(p)'
  BY Zenon DEF AllRows, AtRisk
<1>2. Known(p)'
  BY <1>1 DEF IsIn, Known, NoPegIn, Submitted
<1>3. Known(p) /\ HasReceipt(p) /\ pegIn'[p].receipt = pegIn[p].receipt
  BY <1>1, <1>2, Zenon DEF RowEffect
<1>4. IsIn(p, Submitted) \/ (p = Job /\ work.place \in Resolving)
  BY <1>1, Zenon DEF RowEffect
<1> QED
  BY <1>3, <1>4, Zenon DEF AtRisk

LEMMA ResolvingInOrder ==
    ASSUME SeenInv, NEW p \in PegIns, p = Job, work.place \in Resolving, HasReceipt(p)
    PROVE  InOrder(p)
<1>1. Vouching /\ p = work.job
  BY Zenon DEF Vouching, Job
<1> QED
  BY <1>1, Zenon DEF SeenInv, InOrder

LEMMA VisitKeepsNoticed ==
    ASSUME TablesInv, WorkInv, ClassInv, AllRows, SeenInv, NoticedInv, VisitStep PROVE NoticedInv'
<1>1. /\ UNCHANGED <<best, branches, minedAt, baseline, reorgPending>> /\ work.place \in Passing
      /\ work'.place \in Passing => work'.tip = work.tip /\ work'.pass = work.pass
  BY VisitEither, Zenon DEF VisitStep, chains, branchVars, Passing, SameVisit, VisitEnds, Visiting, Reading, Resolving,
                     Classifying
<1>2. PICK j \in PegIns : j = Job /\ j = work.job
  BY Zenon DEF VisitStep, WorkInv, Job
<1>3. ASSUME ~reorgPending', NEW p \in PegIns, AtRisk(p)', Canonical(baseline)'
      PROVE  Holds(pegIn[p].receipt, CommitOf[p])'
  <2>1. pegIn'[p].receipt = pegIn[p].receipt /\ HasReceipt(p) /\ (AtRisk(p) \/ (p = Job /\ work.place \in Resolving))
    BY <1>3, AtRiskAfter, Zenon
  <2>2. Canonical(baseline)
    BY <1>1, <1>3, Zenon DEF Canonical
  <2>3. Holds(pegIn[p].receipt, CommitOf[p])
    <3>1. CASE AtRisk(p)
      BY <1>1, <1>3, <2>2, <3>1, Zenon DEF NoticedInv
    <3>2. CASE p = Job /\ work.place \in Resolving
      BY <2>1, <2>2, <3>2, ResolvingInOrder, Zenon DEF InOrder
    <3> QED
      BY <2>1, <3>1, <3>2, Zenon
  <2> QED
    BY <1>1, <2>1, <2>3, Zenon DEF Holds, Canonical
<1>4. ASSUME work'.place \in Passing, work'.pass = "all", Conclusive', NEW p \in PegIns, AtRisk(p)',
             p \notin work'.todo \cup {work'.job}
      PROVE  InOrder(p)'
  <2>1. pegIn'[p].receipt = pegIn[p].receipt /\ HasReceipt(p) /\ (AtRisk(p) \/ (p = Job /\ work.place \in Resolving))
    BY <1>4, AtRiskAfter, Zenon
  <2>2. work.pass = "all" /\ work'.tip = work.tip
    BY <1>1, <1>4, Zenon
  <2>3. InOrder(p)
    <3>1. CASE SameVisit
      <4>1. p # Job /\ p \notin work.todo \cup {work.job} /\ Conclusive
        BY <1>2, <1>4, <3>1, Zenon DEF SameVisit
      <4> QED
        BY <1>1, <2>1, <2>2, <4>1, Zenon DEF NoticedInv
    <3>2. CASE VisitEnds
      <4>1. work'.place = "next" /\ work'.todo = work.todo
        BY <1>4, <2>2, <3>2, Zenon DEF VisitEnds, Passing, Visiting, Reading, Resolving, Classifying
      <4>2. Conclusive /\ (AtRisk(j)' => work.place \in Resolving)
        BY <1>2, <1>4, <3>2, <4>1, ConcludedJob, Zenon
      <4>3. CASE p = j
        BY <1>2, <1>4, <2>1, <4>2, <4>3, ResolvingInOrder, Zenon
      <4>4. CASE p # j
        <5>1. AtRisk(p) /\ p \notin work.todo \cup {work.job}
          BY <1>2, <1>4, <2>1, <4>1, <4>4, Zenon
        <5> QED
          BY <1>1, <2>2, <4>2, <5>1, Zenon DEF NoticedInv
      <4> QED
        BY <4>3, <4>4, Zenon
    <3> QED
      BY <3>1, <3>2, VisitEither, Zenon
  <2> QED
    BY <1>1, <2>1, <2>2, <2>3, Zenon DEF InOrder, Holds, Canonical
<1> QED
  BY <1>3, <1>4, Zenon DEF NoticedInv

LEMMA VisitKeepsBuried ==
    ASSUME ChainInv, BranchOrder, WorkInv, AllRows, MemoryInv, SeenInv, BuriedInv, VisitStep PROVE BuriedInv'
<1>1. /\ UNCHANGED <<best, branches, minedAt, highest, deepest>> /\ Ticking /\ work.place \in Visiting
      /\ work'.place # "idle" => work'.tip = work.tip
  BY VisitEither, Zenon DEF VisitStep, chains, branchVars, Ticking, Visiting, Reading, Resolving, Classifying,
                     SameVisit, VisitEnds
<1>2. PICK j \in PegIns : j = Job /\ j = work.job
  BY Zenon DEF VisitStep, WorkInv, Job
<1>3. highest \in Nat /\ deepest \in Nat /\ work.tip.height <= highest /\ work.tip \in Blocks
  BY <1>1, Zenon DEF BuriedInv, MemoryInv, WasBest
<1>4. ASSUME deepest < Confirms, NEW p \in PegIns, Known(p)', HasReceipt(p)'
      PROVE  /\ Holds(pegIn[p].receipt, CommitOf[p])'
             /\ pegIn'[p].receipt.height + Confirms <= highest + 1
  <2> DEFINE r == pegIn'[p].receipt
  <2>1. Holds(r, CommitOf[p]) /\ r.height + Confirms <= highest + 1
    <3>1. CASE Known(p) /\ HasReceipt(p) /\ pegIn'[p].receipt = pegIn[p].receipt
      BY <1>4, <3>1, Zenon DEF BuriedInv
    <3>2. CASE p = Job /\ work.place = "vault" /\ pegIn'[p].receipt = work.seen
      <4>1. Vouching /\ work.place \in (Reading \ {"tx"}) \cup Resolving
        BY <3>2, Zenon DEF Vouching, Reading
      <4>2. work.seen \in Blocks /\ work.tip.height - work.seen.height + 1 >= Confirms
        BY <4>1, Zenon DEF SeenInv
      <4>3. work.seen # NoBlock
        BY <4>2, PegInDaemonAssumption, TxsAssumption, Zenon DEF Unconfirmed, NoBlock
      <4>4. Holds(work.seen, CommitOf[work.job])
        BY <1>4, <4>1, <4>2, <4>3, Zenon DEF BuriedInv
      <4>5. work.seen.height \in Nat /\ work.tip.height \in Nat /\ Confirms \in Nat
        BY <1>3, <4>2, BranchesAssumption, PegInDaemonAssumption DEF Blocks
      <4>6. work.seen.height + Confirms <= highest + 1
        BY <1>3, <4>2, <4>5
      <4> QED
        BY <1>2, <3>2, <4>4, <4>6, Zenon
    <3> QED
      BY <1>4, <3>1, <3>2, ReceiptAfter, Zenon
  <2> QED
    BY <1>1, <2>1, Zenon DEF Holds, Canonical
<1>5. ASSUME deepest < Confirms, work'.place \in (Reading \ {"tx"}) \cup Resolving, work'.seen # NoBlock,
             work'.tip.height - work'.seen.height + 1 >= Confirms
      PROVE  Holds(work.seen, CommitOf[work.job])'
  <2>1. work'.place \in Later
    BY <1>5, Zenon DEF Later
  <2>2. SameVisit /\ work'.tip = work.tip /\ work'.job = work.job
    BY <2>1, SeenNext, Zenon DEF SameVisit
  <2> DEFINE b == work'.seen
             t == CommitOf[work.job]
  <2>3. Holds(b, t)
    <3>1. CASE FindsTx
      <4>1. Mined(t) /\ b = BlockAt(minedAt[t])
        BY <1>5, <3>1, Zenon DEF FindsTx, Job
      <4>2. t \in ChainTxs
        BY <1>2, CommitMinable, Zenon
      <4>3. minedAt[t] \in DOMAIN best
        BY <4>1, <4>2, MinedRange, Zenon
      <4> QED
        BY <4>1, <4>3, BlockAtCanonical, Zenon DEF Holds
    <3>2. CASE work.place \in Later /\ work'.seen = work.seen
      BY <1>5, <2>2, <3>2, Zenon DEF BuriedInv, Later
    <3> QED
      BY <2>1, <3>1, <3>2, SeenNext, Zenon
  <2> QED
    BY <1>1, <2>2, <2>3, Zenon DEF Holds, Canonical
<1>6. Ticking' => work'.tip.height <= highest
  BY <1>1, <1>3, Zenon DEF Ticking
<1> QED
  BY <1>1, <1>4, <1>5, <1>6, Zenon DEF BuriedInv

-----------------------------------------------------------------------------
(* The same between the rows. *)

LEMMA TickChains == ASSUME TickStep PROVE UNCHANGED <<best, branches, minedAt, highest, deepest>>
  BY Zenon DEF TickStep, Starts, BeginsTick, DetectsReorg, DetectsNone, GoesIdle, MovesOn, BeginsPass, Takes,
         EndsPass, Registers, RecordsHold, Crashes, Still, chains, branchVars

\* Where a tick has its tip from, and what becomes of the baseline.
LEMMA TickBlocks ==
    ASSUME TickStep
    PROVE  /\ Ticking' => work'.tip = Tip \/ (Ticking /\ work'.tip = work.tip)
           /\ work'.place # "down" =>
                 \/ baseline' = Tip
                 \/ Ticking /\ baseline' = work.tip
                 \/ work.place # "down" /\ baseline' = baseline
<1>1. CASE Starts
  BY <1>1, Zenon DEF Starts
<1>2. CASE BeginsTick \/ DetectsReorg
  BY <1>2, Zenon DEF BeginsTick, DetectsReorg, Still, Ticking
<1>3. CASE DetectsNone \/ EndsPass
  BY <1>3, Zenon DEF DetectsNone, EndsPass, Ticking
<1>4. CASE GoesIdle
  BY <1>4, Zenon DEF GoesIdle, Still, Ticking
<1>5. CASE MovesOn \/ BeginsPass \/ Takes
  BY <1>5, Zenon DEF MovesOn, BeginsPass, Takes, Still, Ticking, Between
<1>6. CASE Registers \/ RecordsHold
  BY <1>6, Zenon DEF Registers, RecordsHold, Ticking
<1>7. CASE Crashes
  BY <1>7, Zenon DEF Crashes, Ticking
<1> QED
  BY <1>1, <1>2, <1>3, <1>4, <1>5, <1>6, <1>7, Zenon DEF TickStep

LEMMA TipWasBest == ASSUME ChainInv, BranchOrder PROVE WasBest(Tip)
<1>1. PICK b : b = Tip
  BY Zenon
<1>2. b \in Blocks /\ Canonical(b)
  BY <1>1, TipRange, Zenon
<1> QED
  BY <1>1, <1>2, CanonicalWasBest, Zenon

LEMMA TickKeepsMemory ==
    ASSUME ChainInv, BranchOrder, MemoryInv, TickStep PROVE MemoryInv'
<1>1. UNCHANGED <<best, branches>>
  BY TickChains, Zenon
<1>2. WasBest(Tip) /\ (Ticking => WasBest(work.tip)) /\ (work.place # "down" => WasBest(baseline))
  BY TipWasBest, Zenon DEF MemoryInv
<1>3. work'.place # "down" => WasBest(baseline)'
  BY <1>1, <1>2, TickBlocks, Zenon DEF WasBest
<1>4. Ticking' => WasBest(work.tip)'
  BY <1>1, <1>2, TickBlocks, Zenon DEF WasBest
<1>5. ASSUME Ticking', work'.place # "detect", ~(work'.place \in Passing /\ work'.pass = "all")
      PROVE  work'.tip = baseline'
  <2>1. CASE Starts \/ DetectsReorg
    BY <1>5, <2>1, Zenon DEF Starts, DetectsReorg, PassBegins, Passing
  <2>2. CASE BeginsTick \/ GoesIdle \/ Crashes
    BY <1>5, <2>2, Zenon DEF BeginsTick, GoesIdle, Crashes, Ticking
  <2>3. CASE DetectsNone \/ EndsPass
    BY <1>5, <2>3, Zenon DEF DetectsNone, EndsPass, Ticking
  <2>4. CASE MovesOn \/ BeginsPass \/ Registers \/ RecordsHold
    <3>1. /\ Ticking /\ work.place # "detect" /\ ~(work.place \in Passing /\ work.pass = "all")
          /\ work'.tip = work.tip /\ baseline' = baseline
      BY <2>4, Zenon DEF MovesOn, BeginsPass, Registers, RecordsHold, Still, Ticking, Between, Passing, Visiting, Reading,
                  Resolving, Classifying
    <3> QED
      BY <3>1, Zenon DEF MemoryInv
  <2>5. CASE Takes
    <3>1. /\ work.place = "next" /\ work'.tip = work.tip /\ baseline' = baseline /\ work'.pass = work.pass
          /\ work'.place \in Passing
      BY <2>5, Zenon DEF Takes, Still, Passing, Visiting, Reading, Classifying
    <3> QED
      BY <1>5, <3>1, Zenon DEF MemoryInv, Ticking
  <2> QED
    BY <2>1, <2>2, <2>3, <2>4, <2>5, Zenon DEF TickStep
<1> QED
  BY <1>3, <1>4, <1>5, Zenon DEF MemoryInv

\* Rows get no receipt between visits.
LEMMA TickReceipt ==
    ASSUME WorkInv, AllRows, TickStep, NEW p \in PegIns, Known(p)', HasReceipt(p)'
    PROVE  Known(p) /\ HasReceipt(p) /\ pegIn'[p].receipt = pegIn[p].receipt
<1>1. work.place # "vault" \/ UNCHANGED pegIn
  BY Zenon DEF TickStep, Starts, BeginsTick, DetectsReorg, DetectsNone, GoesIdle, MovesOn, BeginsPass, Takes,
         EndsPass, Registers, RecordsHold, Crashes, Still, Tables, pegInVars, pegInTables
<1> QED
  BY <1>1, ReceiptAfter, Zenon DEF Known, HasReceipt

LEMMA TickKeepsReceipts ==
    ASSUME ChainInv, BranchOrder, WorkInv, AllRows, ReceiptInv, TickStep PROVE ReceiptInv'
<1>1. UNCHANGED <<best, branches>>
  BY TickChains, Zenon
<1> SUFFICES ASSUME NEW p \in PegIns, Known(p)', HasReceipt(p)'
             PROVE  /\ WasBest(pegIn[p].receipt)'
                    /\ Canonical(pegIn[p].receipt)' =>
                          /\ Ticking' => pegIn'[p].receipt.height <= work'.tip.height
                          /\ work'.place # "down" => pegIn'[p].receipt.height <= baseline'.height
  BY Zenon DEF ReceiptInv
<1>2. Known(p) /\ HasReceipt(p) /\ pegIn'[p].receipt = pegIn[p].receipt
  BY TickReceipt, Zenon
<1> DEFINE r == pegIn[p].receipt
<1>3. /\ WasBest(r)
      /\ Canonical(r) => /\ Ticking => r.height <= work.tip.height
                         /\ work.place # "down" => r.height <= baseline.height
  BY <1>2, Zenon DEF ReceiptInv
<1>4. Canonical(r) => r.height <= Tip.height
  <2>1. Tip.height = Len(best) /\ DOMAIN best = 1..Len(best) /\ Len(best) \in Nat
    BY TipRange, BranchNumbers, Zenon
  <2> QED
    BY <2>1 DEF Canonical
<1>5. WasBest(pegIn[p].receipt)'
  BY <1>1, <1>2, <1>3, Zenon DEF WasBest
<1>6. Canonical(pegIn[p].receipt)' => Canonical(r)
  BY <1>1, <1>2, Zenon DEF Canonical
<1> HIDE DEF r
<1> QED
  BY <1>2, <1>3, <1>4, <1>5, <1>6, TickBlocks, Zenon DEF r

LEMMA TickKeepsSeen == ASSUME TickStep PROVE SeenInv'
<1>1. work'.place \notin (Reading \ {"tx"}) \cup Resolving
  BY Zenon DEF TickStep, Starts, BeginsTick, DetectsReorg, DetectsNone, GoesIdle, MovesOn, BeginsPass, Takes,
         EndsPass, Registers, RecordsHold, Crashes, Between, PassBegins, Reading, Resolving
<1>2. ~Vouching'
  BY <1>1, Zenon DEF Vouching, Reading
<1> QED
  BY <1>1, <1>2, Zenon DEF SeenInv

LEMMA TickAtRisk ==
    ASSUME WorkInv, AllRows, TickStep, NEW p \in PegIns, AtRisk(p)'
    PROVE  AtRisk(p) /\ pegIn'[p].receipt = pegIn[p].receipt
<1>1. work.place \notin Resolving \/ UNCHANGED pegIn
  BY Zenon DEF TickStep, Starts, BeginsTick, DetectsReorg, DetectsNone, GoesIdle, MovesOn, BeginsPass, Takes,
         EndsPass, Registers, RecordsHold, Crashes, Still, Tables, pegInVars, pegInTables, Resolving
<1> QED
  BY <1>1, AtRiskAfter, Zenon DEF AtRisk, IsIn, HasReceipt

\* The conclusion of a reconciliation, and a tick that finds no reorganisation,
\* leave a baseline below which every row at risk is in order.
LEMMA TickKeepsNoticed ==
    ASSUME WorkInv, FlightInv, AllRows, NoticedInv, TickStep PROVE NoticedInv'
<1>1. UNCHANGED <<best, branches, minedAt>>
  BY TickChains, Zenon
<1>2. ASSUME ~reorgPending', NEW p \in PegIns, AtRisk(p)', Canonical(baseline)'
      PROVE  Holds(pegIn[p].receipt, CommitOf[p])'
  <2>1. AtRisk(p) /\ pegIn'[p].receipt = pegIn[p].receipt
    BY <1>2, TickAtRisk, Zenon
  <2>2. Holds(pegIn[p].receipt, CommitOf[p])
    <3>1. CASE Starts \/ Crashes
      BY <1>2, <3>1, Zenon DEF Starts, Crashes, FlightInv
    <3>2. CASE DetectsNone
      <4>1. ~reorgPending /\ baseline' = work.tip /\ (work.tip = baseline \/ Canonical(baseline))
        BY <3>2, Zenon DEF DetectsNone
      <4>2. Canonical(baseline)
        BY <1>1, <1>2, <4>1, Zenon DEF Canonical
      <4> QED
        BY <2>1, <4>1, <4>2, Zenon DEF NoticedInv
    <3>3. CASE EndsPass
      <4>1. /\ work.place = "next" /\ work.todo = {} /\ work.pass = "all" /\ work.job = NoJob /\ Conclusive
            /\ baseline' \in {baseline, work.tip}
        BY <1>2, <3>3, Zenon DEF EndsPass, WorkInv
      <4>2. p \notin work.todo \cup {work.job}
        BY <4>1, PegInsAssumption, Zenon DEF NoJob
      <4>3. InOrder(p)
        BY <2>1, <4>1, <4>2, Zenon DEF NoticedInv, Passing
      <4>4. Canonical(baseline) \/ Canonical(work.tip)
        BY <1>1, <1>2, <4>1, Zenon DEF Canonical
      <4> QED
        BY <4>3, <4>4, Zenon DEF InOrder
    <3>4. CASE UNCHANGED <<baseline, reorgPending>>
      <4>1. Canonical(baseline)
        BY <1>1, <1>2, <3>4, Zenon DEF Canonical
      <4> QED
        BY <1>2, <2>1, <3>4, <4>1, Zenon DEF NoticedInv
    <3> QED
      BY <3>1, <3>2, <3>3, <3>4, Zenon
         DEF TickStep, BeginsTick, DetectsReorg, GoesIdle, MovesOn, BeginsPass, Takes, Registers, RecordsHold, Still
  <2> QED
    BY <1>1, <2>1, <2>2, Zenon DEF Holds, Canonical
<1>3. ASSUME work'.place \in Passing, work'.pass = "all", Conclusive', NEW p \in PegIns, AtRisk(p)',
             p \notin work'.todo \cup {work'.job}
      PROVE  InOrder(p)'
  <2>1. AtRisk(p) /\ pegIn'[p].receipt = pegIn[p].receipt
    BY <1>3, TickAtRisk, Zenon
  <2>2. CASE Starts \/ DetectsReorg
    <3>1. work'.todo = AllSubmitted
      BY <2>2, Zenon DEF Starts, DetectsReorg, PassBegins
    <3> QED
      BY <1>3, <2>1, <3>1, Zenon DEF AllSubmitted, AtRisk
  <2>3. CASE BeginsPass
    BY <1>3, <2>3, Zenon DEF BeginsPass, PassBegins
  <2>4. CASE Takes
    <3>1. /\ work.place = "next" /\ work'.tip = work.tip /\ baseline' = baseline /\ work.pass = "all"
          /\ work.todo \subseteq work'.todo \cup {work'.job} /\ Conclusive /\ work.job = NoJob
      BY <1>3, <2>4, Zenon DEF Takes, Still, WorkInv
    <3>2. p \notin work.todo \cup {work.job}
      BY <1>3, <3>1, PegInsAssumption, Zenon DEF NoJob
    <3>3. InOrder(p)
      BY <2>1, <3>1, <3>2, Zenon DEF NoticedInv, Passing
    <3> QED
      BY <1>1, <2>1, <3>1, <3>3, Zenon DEF InOrder, Holds, Canonical
  <2>5. CASE BeginsTick \/ DetectsNone \/ GoesIdle \/ MovesOn \/ EndsPass \/ Registers \/ RecordsHold \/ Crashes
    BY <1>3, <2>5, Zenon DEF BeginsTick, DetectsNone, GoesIdle, MovesOn, EndsPass, Registers, RecordsHold, Crashes, Between,
                      Passing, Visiting, Reading, Resolving, Classifying
  <2> QED
    BY <2>2, <2>3, <2>4, <2>5, Zenon DEF TickStep
<1> QED
  BY <1>2, <1>3, Zenon DEF NoticedInv

LEMMA TickKeepsBuried ==
    ASSUME ChainInv, WorkInv, AllRows, BuriedInv, TickStep PROVE BuriedInv'
<1>1. UNCHANGED <<best, branches, minedAt, highest, deepest>>
  BY TickChains, Zenon
<1>2. Tip.height <= highest /\ (Ticking => work.tip.height <= highest)
  BY TipRange, Zenon DEF BuriedInv
<1>3. Ticking' => work'.tip.height <= highest
  BY <1>2, TickBlocks, Zenon
<1>4. work'.place \notin (Reading \ {"tx"}) \cup Resolving
  BY Zenon DEF TickStep, Starts, BeginsTick, DetectsReorg, DetectsNone, GoesIdle, MovesOn, BeginsPass, Takes,
         EndsPass, Registers, RecordsHold, Crashes, Between, PassBegins, Reading, Resolving
<1>5. ASSUME deepest < Confirms, NEW p \in PegIns, Known(p)', HasReceipt(p)'
      PROVE  /\ Holds(pegIn[p].receipt, CommitOf[p])'
             /\ pegIn'[p].receipt.height + Confirms <= highest + 1
  <2>1. Known(p) /\ HasReceipt(p) /\ pegIn'[p].receipt = pegIn[p].receipt
    BY <1>5, TickReceipt, Zenon
  <2>2. Holds(pegIn[p].receipt, CommitOf[p]) /\ pegIn[p].receipt.height + Confirms <= highest + 1
    BY <1>5, <2>1, Zenon DEF BuriedInv
  <2> QED
    BY <1>1, <2>1, <2>2, Zenon DEF Holds, Canonical
<1> QED
  BY <1>1, <1>3, <1>4, <1>5, Zenon DEF BuriedInv

-----------------------------------------------------------------------------
(* The same when the Ergo chain moves. *)

LEMMA ChainKeepsMemory ==
    ASSUME ChainInv, BranchOrder, ChainStep, MemoryInv, UNCHANGED <<work, baseline>> PROVE MemoryInv'
<1>1. PICK tip, base : tip = work.tip /\ base = baseline
  BY Zenon
<1>2. (Ticking => WasBest(tip)') /\ (work.place # "down" => WasBest(base)')
  BY <1>1, BlocksStay, Zenon DEF MemoryInv
<1>3. (Ticking => WasBest(work.tip)') /\ (work.place # "down" => WasBest(baseline)')
  BY <1>1, <1>2, Zenon DEF WasBest
<1> QED
  BY <1>3, Zenon DEF MemoryInv, Ticking

LEMMA ChainKeepsReceipts ==
    ASSUME ChainInv, BranchOrder, ChainStep, ReceiptInv, UNCHANGED <<work, baseline, pegIn>> PROVE ReceiptInv'
<1> SUFFICES ASSUME NEW p \in PegIns, Known(p), HasReceipt(p)
             PROVE  /\ WasBest(pegIn[p].receipt)'
                    /\ Canonical(pegIn[p].receipt)' =>
                          /\ Ticking => pegIn[p].receipt.height <= work.tip.height
                          /\ work.place # "down" => pegIn[p].receipt.height <= baseline.height
  BY Zenon DEF ReceiptInv, Ticking, Known, HasReceipt
<1>1. PICK r : r = pegIn[p].receipt
  BY Zenon
<1>2. /\ WasBest(r)
      /\ Canonical(r) => /\ Ticking => r.height <= work.tip.height
                         /\ work.place # "down" => r.height <= baseline.height
  BY <1>1, Zenon DEF ReceiptInv
<1>3. WasBest(r)' /\ (Canonical(r)' => Canonical(r))
  BY <1>2, BlocksStay, Zenon
<1>4. WasBest(pegIn[p].receipt)' /\ (Canonical(pegIn[p].receipt)' => Canonical(r)')
  BY <1>1, <1>3, Zenon DEF WasBest, Canonical
<1> QED
  BY <1>1, <1>2, <1>3, <1>4, Zenon

\* A commitment in order stays so as long as the block of the tip or of the
\* baseline stays.
LEMMA OrderStays ==
    ASSUME ChainInv, BranchOrder, ChainStep, NEW tip, NEW base, WasBest(tip), WasBest(base),
           NEW r \in Blocks, NEW t \in ChainTxs,
           Canonical(r) => r.height <= tip.height /\ r.height <= base.height,
           Canonical(tip) \/ Canonical(base) => Holds(r, t),
           Canonical(tip)' \/ Canonical(base)'
    PROVE  Holds(r, t)'
<1>1. CASE Canonical(tip)'
  <2>1. Canonical(tip)
    BY <1>1, BlocksStay, Zenon
  <2>2. Holds(r, t) /\ r.height <= tip.height
    BY <2>1, Zenon DEF Holds
  <2> QED
    BY <1>1, <2>2, BlocksStay, Zenon
<1>2. CASE Canonical(base)'
  <2>1. Canonical(base)
    BY <1>2, BlocksStay, Zenon
  <2>2. Holds(r, t) /\ r.height <= base.height
    BY <2>1, Zenon DEF Holds
  <2> QED
    BY <1>2, <2>2, BlocksStay, Zenon
<1> QED
  BY <1>1, <1>2, Zenon

LEMMA ChainKeepsSeen ==
    ASSUME ChainInv, BranchOrder, ChainStep, WorkInv, MemoryInv, SeenInv, UNCHANGED <<work, baseline, pegIn>>
    PROVE  SeenInv'
<1>1. PICK tip, base, b, j : tip = work.tip /\ base = baseline /\ b = work.seen /\ j = work.job
  BY Zenon
<1>2. ASSUME work.place \in (Reading \ {"tx"}) \cup Resolving, work.seen # NoBlock
      PROVE  /\ WasBest(b)' /\ b.height <= tip.height /\ b \in Blocks
             /\ Canonical(b)' => minedAt'[CommitOf[j]] = b.height
  <2>1. WasBest(b) /\ b.height <= tip.height /\ (Canonical(b) => minedAt[CommitOf[j]] = b.height)
    BY <1>1, <1>2, Zenon DEF SeenInv
  <2>2. b \in Blocks
    BY <2>1, Zenon DEF WasBest
  <2>3. j \in PegIns
    BY <1>1, <1>2, Zenon DEF WorkInv, Visiting
  <2>4. CommitOf[j] \in ChainTxs
    BY <2>3, CommitMinable, Zenon
  <2>5. WasBest(b)'
    BY <2>1, BlocksStay, Zenon
  <2>6. ASSUME Canonical(b)' PROVE minedAt'[CommitOf[j]] = b.height
    <3>1. Canonical(b)
      BY <2>1, <2>6, BlocksStay, Zenon
    <3>2. Holds(b, CommitOf[j]) /\ b.height <= b.height
      BY <2>1, <2>2, <3>1, BranchesAssumption DEF Holds, Blocks
    <3>3. Holds(b, CommitOf[j])'
      BY <2>1, <2>2, <2>4, <2>6, <3>2, BlocksStay, Zenon
    <3> QED
      BY <3>3, Zenon DEF Holds
  <2> QED
    BY <2>1, <2>2, <2>5, <2>6, Zenon
<1>3. ASSUME Vouching
      PROVE  /\ b \in Blocks /\ tip.height - b.height + 1 >= Confirms
             /\ HasReceipt(j) => pegIn[j].receipt = b
             /\ Canonical(b)' => b.height <= base.height
             /\ Canonical(tip)' \/ Canonical(base)' => Holds(b, CommitOf[j])'
  <2>1. /\ b \in Blocks /\ tip.height - b.height + 1 >= Confirms
        /\ HasReceipt(j) => pegIn[j].receipt = b
        /\ Canonical(b) => b.height <= base.height
        /\ Canonical(tip) \/ Canonical(base) => Holds(b, CommitOf[j])
    BY <1>1, <1>3, Zenon DEF SeenInv
  <2>2. /\ work.place \in (Reading \ {"tx"}) \cup Resolving /\ work.place \in Visiting
        /\ Ticking /\ work.place # "down"
    BY <1>3, Zenon DEF Vouching, Reading, Resolving, Visiting, Ticking
  <2>3. b # NoBlock
    BY <2>1, PegInDaemonAssumption, TxsAssumption, Zenon DEF Unconfirmed, NoBlock
  <2>4. WasBest(b) /\ b.height <= tip.height /\ WasBest(tip) /\ WasBest(base)
    BY <1>1, <2>2, <2>3, Zenon DEF SeenInv, MemoryInv
  <2>5. j \in PegIns
    BY <1>1, <2>2, Zenon DEF WorkInv
  <2>6. CommitOf[j] \in ChainTxs
    BY <2>5, CommitMinable, Zenon
  <2>7. Canonical(b)' => Canonical(b)
    BY <2>4, BlocksStay, Zenon
  <2>8. Canonical(tip)' \/ Canonical(base)' => Holds(b, CommitOf[j])'
    BY <2>1, <2>4, <2>6, OrderStays, Zenon
  <2> QED
    BY <2>1, <2>7, <2>8, Zenon
<1>4. /\ WasBest(work.seen)' <=> WasBest(b)'
      /\ Canonical(work.seen)' <=> Canonical(b)'
      /\ Canonical(work.tip)' <=> Canonical(tip)'
      /\ Canonical(baseline)' <=> Canonical(base)'
      /\ Holds(work.seen, CommitOf[work.job])' <=> Holds(b, CommitOf[j])'
  BY <1>1, Zenon DEF WasBest, Canonical, Holds
<1>5. Vouching' => Vouching
  BY Zenon DEF Vouching, Headed
<1>6. HasReceipt(work.job)' <=> HasReceipt(j)
  BY <1>1, Zenon DEF HasReceipt
<1> QED
  BY <1>1, <1>2, <1>3, <1>4, <1>5, <1>6, Zenon DEF SeenInv

LEMMA ChainKeepsNoticed ==
    ASSUME ChainInv, BranchOrder, ChainStep, FlightInv, MemoryInv, ReceiptInv, NoticedInv,
           UNCHANGED <<work, baseline, pegIn, reorgPending>>
    PROVE  NoticedInv'
<1>1. PICK tip, base : tip = work.tip /\ base = baseline
  BY Zenon
<1>2. ASSUME NEW p \in PegIns, AtRisk(p)
      PROVE  /\ CommitOf[p] \in ChainTxs /\ pegIn[p].receipt \in Blocks
             /\ Canonical(pegIn[p].receipt) =>
                   /\ Ticking => pegIn[p].receipt.height <= tip.height
                   /\ work.place # "down" => pegIn[p].receipt.height <= base.height
  <2>1. Known(p) /\ HasReceipt(p)
    BY <1>2 DEF AtRisk, IsIn, Known, NoPegIn, Submitted
  <2> QED
    BY <1>1, <2>1, CommitMinable, Zenon DEF ReceiptInv, WasBest
<1>3. /\ Canonical(work.tip)' <=> Canonical(tip)'
      /\ Canonical(baseline)' <=> Canonical(base)'
      /\ \A p \in PegIns : AtRisk(p)' <=> AtRisk(p)
  BY <1>1, Zenon DEF Canonical, AtRisk, IsIn, HasReceipt
<1>4. ASSUME ~reorgPending, NEW p \in PegIns, AtRisk(p), Canonical(base)'
      PROVE  Holds(pegIn[p].receipt, CommitOf[p])'
  <2>1. PICK r \in Blocks : r = pegIn[p].receipt
    BY <1>2, <1>4, Zenon
  <2>2. work.place # "down"
    BY <1>4, Zenon DEF FlightInv
  <2>3. WasBest(base)
    BY <1>1, <2>2, Zenon DEF MemoryInv
  <2>4. /\ Canonical(r) => r.height <= base.height
        /\ Canonical(base) => Holds(r, CommitOf[p])
    BY <1>1, <1>2, <1>4, <2>1, <2>2, Zenon DEF NoticedInv
  <2>5. CommitOf[p] \in ChainTxs
    BY <1>2, <1>4, Zenon
  <2>6. Holds(r, CommitOf[p])'
    BY <1>4, <2>3, <2>4, <2>5, OrderStays, Zenon
  <2> QED
    BY <2>1, <2>6, Zenon DEF Holds, Canonical
<1>5. ASSUME work.place \in Passing, work.pass = "all", Conclusive, NEW p \in PegIns, AtRisk(p),
             p \notin work.todo \cup {work.job}
      PROVE  InOrder(p)'
  <2>1. PICK r \in Blocks : r = pegIn[p].receipt
    BY <1>2, <1>5, Zenon
  <2>2. work.place # "down" /\ Ticking
    BY <1>5, Zenon DEF Ticking, Passing, Visiting, Reading, Resolving, Classifying
  <2>3. WasBest(base) /\ WasBest(tip)
    BY <1>1, <2>2, Zenon DEF MemoryInv
  <2>4. Canonical(r) => r.height <= tip.height /\ r.height <= base.height
    BY <1>2, <1>5, <2>1, <2>2, Zenon
  <2>5. Canonical(tip) \/ Canonical(base) => Holds(r, CommitOf[p])
    BY <1>1, <1>5, <2>1, Zenon DEF NoticedInv, InOrder
  <2>6. CommitOf[p] \in ChainTxs
    BY <1>2, <1>5, Zenon
  <2>7. Canonical(tip)' \/ Canonical(base)' => Holds(r, CommitOf[p])'
    BY <2>3, <2>4, <2>5, <2>6, OrderStays, Zenon
  <2>8. Holds(r, CommitOf[p])' => Holds(pegIn[p].receipt, CommitOf[p])'
    BY <2>1, Zenon DEF Holds, Canonical
  <2> QED
    BY <1>3, <2>7, <2>8, Zenon DEF InOrder
<1>6. Conclusive' <=> Conclusive
  BY Zenon DEF Conclusive
<1> QED
  BY <1>3, <1>4, <1>5, <1>6, Zenon DEF NoticedInv

\* How deep a reorganisation reaches below the greatest height, and what it
\* leaves.
LEMMA ReachLeaves ==
    ASSUME ChainInv, BranchOrder, MoveChain, highest \in Nat, deepest \in Nat, Len(best) <= highest
    PROVE  /\ deepest' \in Nat
           /\ deepest' < Confirms =>
                 /\ deepest < Confirms
                 /\ \A c \in Blocks, t \in ChainTxs :
                       Holds(c, t) /\ c.height + Confirms <= highest + 1 => Holds(c, t)'
<1>1. ChainStep
  BY Zenon DEF MoveChain
<1>2. PICK n \in Nat : n = Len(best) /\ DOMAIN best = 1..n
  BY BranchNumbers, Zenon
<1>3. PICK base \in Nat :
             /\ base > 0 /\ base <= n
             /\ \A h \in 1..base : h \in DOMAIN best /\ h \in DOMAIN best' /\ best'[h] = best[h]
             /\ \A t \in ChainTxs : minedAt[t] \in 1..base => minedAt'[t] = minedAt[t]
             /\ branches' \in {branches, branches + 1}
             /\ branches' = branches => base = n
             /\ \A h \in DOMAIN best' : h > base => best'[h] = branches'
  BY <1>1, <1>2, StepEffect, Zenon
<1>4. branches \in Nat /\ \A h \in 1..n : best[h] \in Nat /\ best[h] <= branches
  BY <1>2, BranchNumbers, Zenon DEF BranchOrder
<1> DEFINE lost == {h \in DOMAIN best : h \notin DOMAIN best' \/ best'[h] # best[h]}
           lowest == CHOOSE h \in lost : \A g \in lost : h <= g
           reach == IF lost = {} THEN 0 ELSE highest - lowest + 1
<1>5. lost = (base + 1)..n
  <2>1. ASSUME NEW h \in lost PROVE h \in (base + 1)..n
    <3>1. h \in 1..n /\ (h \in 1..base => FALSE)
      BY <1>2, <1>3, Zenon
    <3> QED
      BY <3>1
  <2>2. ASSUME NEW h \in (base + 1)..n PROVE h \in lost
    <3>1. h \in 1..n /\ h > base /\ base # n
      OBVIOUS
    <3>2. branches' = branches + 1
      BY <1>3, <3>1, Zenon
    <3>3. h \in DOMAIN best' => best'[h] = branches + 1
      BY <1>3, <3>1, <3>2, Zenon
    <3>4. best[h] # branches + 1
      BY <1>4, <3>1
    <3> QED
      BY <1>2, <3>1, <3>3, <3>4, Zenon
  <2> HIDE DEF lost
  <2> QED
    BY <2>1, <2>2, Zenon
<1>6. deepest' = IF reach > deepest THEN reach ELSE deepest
  BY Zenon DEF MoveChain
<1> HIDE DEF lost
<1>7. base = n \/ lowest = base + 1
  <2>1. CASE base < n
    <3>1. base + 1 \in lost /\ \A h \in lost : base + 1 <= h /\ h \in Nat
      BY <1>5, <2>1
    <3>2. lowest \in lost /\ \A h \in lost : lowest <= h
      BY <3>1, Zenon
    <3> HIDE DEF lowest
    <3> QED
      BY <3>1, <3>2
  <2> QED
    BY <1>3, <2>1
<1>8. lost = {} <=> base = n
  <2>1. base < n => n \in lost
    BY <1>5
  <2>2. base = n => lost = {}
    BY <1>5
  <2> QED
    BY <1>3, <2>1, <2>2
<1>9. Confirms \in Nat
  BY PegInDaemonAssumption, Zenon
<1> HIDE DEF lowest
<1>10. reach = IF base = n THEN 0 ELSE highest - base
  BY <1>2, <1>3, <1>7, <1>8
<1> HIDE DEF reach
<1>11. deepest' \in Nat
  BY <1>2, <1>3, <1>6, <1>10
<1>12. ASSUME deepest' < Confirms PROVE deepest < Confirms /\ (base = n \/ highest - base < Confirms)
  BY <1>2, <1>3, <1>6, <1>9, <1>10, <1>12
<1>13. ASSUME deepest' < Confirms,
              NEW c \in Blocks, NEW t \in ChainTxs, Holds(c, t), c.height + Confirms <= highest + 1
       PROVE  Holds(c, t)'
  <2>1. c.height \in 1..n /\ best[c.height] = c.branch /\ minedAt[t] = c.height
    BY <1>2, <1>13, Zenon DEF Holds, Canonical
  <2>2. c.height \in 1..base
    BY <1>9, <1>12, <1>13, <2>1
  <2> QED
    BY <1>3, <2>1, <2>2, Zenon DEF Holds, Canonical
<1> QED
  BY <1>11, <1>12, <1>13, Zenon

LEMMA ChainKeepsBuried ==
    ASSUME ChainInv, BranchOrder, MoveChain, WorkInv, MemoryInv, ReceiptInv, SeenInv, BuriedInv
    PROVE  BuriedInv'
<1>1. UNCHANGED <<work, baseline, pegIn>> /\ ChainStep
  BY Zenon DEF MoveChain, Daemon, pegInVars, pegInTables, memory
<1>2. highest \in Nat /\ deepest \in Nat /\ Len(best) <= highest
  BY Zenon DEF BuriedInv
<1>3. Len(best') \in Nat /\ Len(best) \in Nat
  BY <1>1, StepEffect, BranchNumbers, Zenon
<1>4. highest' \in Nat /\ highest <= highest' /\ Len(best') <= highest'
  BY <1>2, <1>3 DEF MoveChain
<1>5. deepest' \in Nat
  BY <1>2, ReachLeaves, Zenon
<1>6. Ticking' => work'.tip.height <= highest'
  <2>1. Ticking => work.tip.height <= highest /\ work.tip \in Blocks
    BY Zenon DEF BuriedInv, MemoryInv, WasBest
  <2>2. Ticking => work.tip.height \in Nat
    BY <2>1, BranchesAssumption DEF Blocks
  <2> QED
    BY <1>1, <1>2, <1>4, <2>1, <2>2 DEF Ticking
<1>7. ASSUME deepest' < Confirms
      PROVE  /\ \A p \in PegIns : (Known(p) /\ HasReceipt(p))' =>
                   /\ Holds(pegIn[p].receipt, CommitOf[p])'
                   /\ pegIn'[p].receipt.height + Confirms <= highest' + 1
             /\ (/\ work.place \in (Reading \ {"tx"}) \cup Resolving /\ work.seen # NoBlock
                 /\ work.tip.height - work.seen.height + 1 >= Confirms)
                   => Holds(work.seen, CommitOf[work.job])'
  <2>1. /\ deepest < Confirms
        /\ \A c \in Blocks, t \in ChainTxs :
              Holds(c, t) /\ c.height + Confirms <= highest + 1 => Holds(c, t)'
    BY <1>2, <1>7, ReachLeaves, Zenon
  <2>2. ASSUME NEW p \in PegIns, Known(p), HasReceipt(p)
        PROVE  Holds(pegIn[p].receipt, CommitOf[p])' /\ pegIn[p].receipt.height + Confirms <= highest' + 1
    <3>1. PICK r : r = pegIn[p].receipt
      BY Zenon
    <3>2. r \in Blocks /\ CommitOf[p] \in ChainTxs
      BY <2>2, <3>1, CommitMinable, Zenon DEF ReceiptInv, WasBest
    <3>3. Holds(r, CommitOf[p]) /\ r.height + Confirms <= highest + 1
      BY <2>1, <2>2, <3>1, Zenon DEF BuriedInv
    <3>4. Holds(r, CommitOf[p])'
      BY <2>1, <3>2, <3>3, Zenon
    <3>5. r.height \in Nat /\ Confirms \in Nat
      BY <3>2, BranchesAssumption, PegInDaemonAssumption DEF Blocks
    <3>6. r.height + Confirms <= highest' + 1
      BY <1>2, <1>4, <3>3, <3>5
    <3> QED
      BY <1>1, <3>1, <3>4, <3>6, Zenon DEF Holds, Canonical
  <2>3. ASSUME work.place \in (Reading \ {"tx"}) \cup Resolving, work.seen # NoBlock,
               work.tip.height - work.seen.height + 1 >= Confirms
        PROVE  Holds(work.seen, CommitOf[work.job])'
    <3>1. PICK b, j : b = work.seen /\ j = work.job
      BY Zenon
    <3>2. b \in Blocks /\ j \in PegIns /\ work.tip \in Blocks /\ work.tip.height <= highest
      BY <2>3, <3>1, Zenon DEF SeenInv, WasBest, WorkInv, Visiting, MemoryInv, BuriedInv, Ticking, Reading, Resolving
    <3>3. Holds(b, CommitOf[j]) /\ CommitOf[j] \in ChainTxs
      BY <2>1, <2>3, <3>1, <3>2, CommitMinable, Zenon DEF BuriedInv
    <3>4. b.height \in Nat /\ work.tip.height \in Nat /\ Confirms \in Nat
      BY <3>2, BranchesAssumption, PegInDaemonAssumption DEF Blocks
    <3>5. b.height + Confirms <= highest + 1
      BY <1>2, <2>3, <3>1, <3>2, <3>4
    <3>6. Holds(b, CommitOf[j])'
      BY <2>1, <3>2, <3>3, <3>5, Zenon
    <3> QED
      BY <1>1, <3>1, <3>6, Zenon DEF Holds, Canonical
  <2> QED
    BY <1>1, <2>2, <2>3, Zenon DEF Known, HasReceipt
<1> QED
  BY <1>1, <1>4, <1>5, <1>6, <1>7, Zenon DEF BuriedInv
=============================================================================
