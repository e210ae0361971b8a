------------------------- MODULE PegInDaemonProofs --------------------------
(***************************************************************************)
(* Proofs about the daemon's handling of peg-ins, for every set of peg-ins, *)
(* every length and depth of the Ergo chain, every number of confirmations  *)
(* and whatever the reads, the crashes and the two chains do in between.    *)
(***************************************************************************)
EXTENDS PegInJournalProofs, PegInBlockProofs

-----------------------------------------------------------------------------
(* The records the daemon goes through. *)

LEMMA IdleFields ==
    /\ Idle \in Works /\ Idle.place = "idle" /\ Idle.job = NoJob /\ Idle.pass = "all"
    /\ Idle.todo = {} /\ Idle.tip = NoBlock /\ Idle.conclusive = TRUE
  BY Zenon DEF Idle, Works, Places

LEMMA DownFields == Down \in Works /\ Down.place = "down" /\ Down.tip = NoBlock /\ Down.job = NoJob
  BY Zenon DEF Down, Idle, Works, Places

LEMMA GoFields ==
    ASSUME work \in Works, NEW place \in Places
    PROVE  LET w == [work EXCEPT !.place = place] IN
           /\ w \in Works /\ w.place = place
           /\ w.job = work.job /\ w.stage = work.stage /\ w.seen = work.seen
           /\ w.tip = work.tip /\ w.pass = work.pass /\ w.todo = work.todo
           /\ w.conclusive = work.conclusive /\ w.canonical = work.canonical
           /\ w.starting = work.starting
  BY Zenon DEF Works

LEMMA DoneFields ==
    ASSUME work \in Works, NEW c \in BOOLEAN
    PROVE  /\ Done(c) \in Works /\ Done(c).place = "next" /\ Done(c).job = NoJob
           /\ Done(c).tip = work.tip /\ Done(c).pass = work.pass /\ Done(c).todo = work.todo
           /\ Done(c).starting = work.starting
           /\ Done(c).stage = "minted"
<1>1. (work.conclusive /\ c) \in BOOLEAN
  BY Zenon DEF Works
<1> DEFINE flag == work.conclusive /\ c
<1>2. Done(c) = [work EXCEPT !.place = "next", !.job = NoJob, !.stage = "minted", !.seen = NoBlock,
                 !.answer = FALSE, !.canonical = FALSE, !.conclusive = flag]
  BY Zenon DEF Done
<1> HIDE DEF flag
<1>3. flag \in BOOLEAN
  BY <1>1, Zenon DEF flag
<1> QED
  BY <1>2, <1>3, Zenon DEF Works, Places

LEMMA DoneConclusive ==
    ASSUME work \in Works, NEW c \in BOOLEAN
    PROVE  Done(c).conclusive = (work.conclusive /\ c)
<1> DEFINE flag == work.conclusive /\ c
<1>1. Done(c) = [work EXCEPT !.place = "next", !.job = NoJob, !.stage = "minted", !.seen = NoBlock,
                 !.answer = FALSE, !.canonical = FALSE, !.conclusive = flag]
  BY Zenon DEF Done
<1> HIDE DEF flag
<1>2. Done(c).conclusive = flag
  BY <1>1, Zenon DEF Works
<1> QED
  BY <1>2, Zenon DEF flag

LEMMA ObservingFields ==
    ASSUME work \in Works, NEW w,
           NEW stage \in {"submitted", "canonical", "beforeMint", "minted", "retry"},
           w = Observing(stage)
    PROVE  /\ w \in Works /\ w.place = "tx" /\ w.stage = stage
           /\ w.job = work.job /\ w.tip = work.tip /\ w.pass = work.pass /\ w.todo = work.todo
           /\ w.conclusive = work.conclusive /\ w.starting = work.starting
<1>1. w = [work EXCEPT !.place = "tx", !.stage = stage, !.seen = NoBlock, !.answer = FALSE,
                       !.canonical = FALSE]
  BY Zenon DEF Observing
<1>2. w \in Works
  BY <1>1, Zenon DEF Works, Places
<1> QED
  BY <1>1, <1>2 DEF Works

LEMMA OverFields ==
    ASSUME work \in Works, NEW w, NEW pass \in {"all", "batch", "legacy", "pending"},
           NEW S \in SUBSET PegIns, w = Over(pass, S)
    PROVE  /\ w \in Works /\ w.place = "next" /\ w.tip = work.tip /\ w.pass = pass
           /\ w.todo = S /\ w.job = NoJob /\ w.conclusive = TRUE
<1>1. w = [place |-> "next", tip |-> work.tip, pass |-> pass, starting |-> FALSE, todo |-> S,
           job |-> NoJob, stage |-> "minted", seen |-> NoBlock, answer |-> FALSE,
           canonical |-> FALSE, conclusive |-> TRUE, suspect |-> {}, last |-> 0]
  BY Zenon DEF Over, Idle
<1>2. work.tip \in Blocks \cup {NoBlock} /\ "next" \in Places /\ NoBlock \in Blocks \cup {NoBlock}
  BY Zenon DEF Works, Places
<1>3. w \in Works
  BY <1>1, <1>2 DEF Works
<1> QED
  BY <1>1, <1>3

LEMMA AfterIncidentFields ==
    ASSUME work \in Works, NEW c \in BOOLEAN, NEW w, w = AfterIncident(c)
    PROVE  /\ w \in Works /\ w.place = "next" /\ w.job = NoJob
           /\ w.tip = work.tip /\ w.pass = work.pass
           /\ work.pass # "pending" => w = Done(c)
<1>1. /\ Done(c) \in Works /\ Done(c).place = "next" /\ Done(c).job = NoJob
      /\ Done(c).tip = work.tip /\ Done(c).pass = work.pass
  BY DoneFields, Zenon
<1>2. CASE work.pass = "pending"
  <2>1. w = [Done(c) EXCEPT !.todo = {}]
    BY <1>2, Zenon DEF AfterIncident
  <2> QED
    BY <1>1, <1>2, <2>1 DEF Works
<1>3. CASE work.pass # "pending"
  BY <1>1, <1>3, Zenon DEF AfterIncident
<1> QED
  BY <1>2, <1>3, Zenon

-----------------------------------------------------------------------------
(* The steps of a visit. *)

LEMMA EndsDone ==
    ASSUME work \in Works, NEW c \in BOOLEAN, work' = Done(c) \/ work' = AfterIncident(c)
    PROVE  VisitEnds /\ (Conclusive' => Conclusive /\ c)
<1>1. /\ Done(c) \in Works /\ Done(c).place = "next" /\ Done(c).job = NoJob /\ Done(c).stage = "minted"
      /\ Done(c).tip = work.tip /\ Done(c).pass = work.pass /\ Done(c).todo = work.todo
      /\ Done(c).conclusive = (work.conclusive /\ c)
  BY DoneFields, DoneConclusive, Zenon
<1>2. CASE work' = Done(c)
  <2>1. VisitEnds
    BY <1>1, <1>2, Zenon DEF VisitEnds
  <2> QED
    BY <1>1, <1>2, <2>1, Zenon DEF Conclusive
<1>3. CASE work' = [Done(c) EXCEPT !.todo = {}] /\ work.pass = "pending"
  <2>1. VisitEnds /\ work'.conclusive = Done(c).conclusive
    BY <1>1, <1>3, Zenon DEF VisitEnds, Works
  <2> QED
    BY <1>1, <2>1, Zenon DEF Conclusive
<1> QED
  BY <1>2, <1>3, Zenon DEF AfterIncident

LEMMA EndsThrown ==
    ASSUME work \in Works, work' = Thrown
    PROVE  VisitEnds /\ (work'.place = "next" => ~Conclusive')
<1>1. CASE work' = Idle
  BY <1>1, IdleFields, Zenon DEF VisitEnds
<1>2. CASE work' = Done(FALSE)
  BY <1>2, EndsDone, Zenon
<1> QED
  BY <1>1, <1>2, Zenon DEF Thrown

LEMMA GoFits ==
    ASSUME WorkInv, Job \in PegIns, NEW place \in Visiting, Go(place), Tables
    PROVE  /\ GoesOn(work.place, place)
           /\ work'.stage = work.stage /\ work'.seen = work.seen
<1>1. place \in Places
  BY Zenon DEF Visiting, Reading, Resolving, Classifying, Places
<1>2. /\ work' \in Works /\ work'.place = place
      /\ work'.job = work.job /\ work'.stage = work.stage /\ work'.seen = work.seen
      /\ work'.tip = work.tip /\ work'.pass = work.pass /\ work'.todo = work.todo
      /\ work'.conclusive = work.conclusive
  BY <1>1, GoFields, Zenon DEF Go, WorkInv
<1>3. Conclusive' <=> Conclusive
  BY <1>2, Zenon DEF Conclusive
<1> QED
  BY <1>2, <1>3, Zenon DEF GoesOn, SameVisit

LEMMA IncidentStep ==
    ASSUME WorkInv, work.place \in Reading \cup Resolving, Incident
    PROVE  ToIncident
  BY GoFits, Zenon DEF Incident, ToIncident, WorkInv, Visiting, Job

LEMMA LoseStep ==
    ASSUME WorkInv, work.place \in Reading, NEW outcome \in {"reorged", "invalid", "conflict"},
           Lose(outcome)
    PROVE  ToIncident \/ GivesWay
<1>1. CASE work.pass # "pending" \/ IsIn(Job, {"minting"})
  BY <1>1, IncidentStep, Zenon DEF Lose
<1>2. CASE work.pass = "pending" /\ ~IsIn(Job, {"minting"})
  <2>1. work' = Done(FALSE)
    BY <1>2, Zenon DEF Lose
  <2>2. VisitEnds /\ ~Conclusive'
    BY <2>1, EndsDone, Zenon DEF WorkInv
  <2>3. Tables \/ ResetCommit(Job) \/ MarkCommitInvalid(Job)
    BY <1>2, Zenon DEF Lose
  <2> QED
    BY <1>2, <2>2, <2>3, Zenon DEF GivesWay
<1> QED
  BY <1>1, <1>2, Zenon

LEMMA WaitStep ==
    ASSUME WorkInv, NEW outcome \in {"pending", "uncertain", "reorged", "invalid", "conflict"},
           work.place \in Reading, Conclude(outcome)
    PROVE  ToIncident \/ GivesWay
<1>1. CASE outcome \in {"pending", "uncertain"}
  <2>1. Tables /\ work' = Done(FALSE)
    BY <1>1, Zenon DEF Conclude
  <2>2. VisitEnds /\ ~Conclusive'
    BY <2>1, EndsDone, Zenon DEF WorkInv
  <2> QED
    BY <2>1, <2>2, Zenon DEF GivesWay
<1>2. CASE outcome \in {"reorged", "invalid", "conflict"}
  <2>1. Lose(outcome)
    BY <1>2, Zenon DEF Conclude
  <2> QED
    BY <1>2, <2>1, LoseStep, Zenon
<1> QED
  BY <1>1, <1>2, Zenon

-----------------------------------------------------------------------------
(* The reads of a commitment. *)

LEMMA CommitTx == ASSUME NEW p \in PegIns PROVE CommitOf[p] \in ChainTxs /\ LockOf[p] \in ChainTxs
  BY PegInsAssumption, PegInDaemonAssumption, Zenon

LEMMA ReadTxStep ==
    ASSUME WorkInv, ChainInv, Ticking => work.tip \in Blocks, ReadTx
    PROVE  VisitStep
<1> DEFINE t == CommitOf[Job]
           seen == IF Mined(t) THEN BlockAt(minedAt[t]) ELSE NoBlock
           known == IF Mined(t) THEN seen.height
                    ELSE IF HasReceipt(Job) THEN pegIn[Job].receipt.height ELSE 0
           place == IF Mined(t) \/ HasReceipt(Job) THEN "header" ELSE "source"
<1>1. /\ work.place = "tx" /\ Job \in PegIns /\ work \in Works
      /\ UNCHANGED <<chains, baseline, reorgPending>>
  BY Zenon DEF ReadTx, At, WorkInv, Visiting, Reading, Aside, memory, Job
<1>2. CASE work.tip.height < known
  <2>1. Conclude("uncertain")
    BY <1>2, Zenon DEF ReadTx
  <2> QED
    BY <1>1, <2>1, WaitStep, Zenon DEF VisitStep, Visiting, Reading
<1>3. CASE ~(work.tip.height < known)
  <2>1. PICK pool \in BOOLEAN : work' = [work EXCEPT !.seen = seen, !.answer = pool, !.place = place]
    BY <1>3, Zenon DEF ReadTx
  <2>2. Tables
    BY <1>3, Zenon DEF ReadTx
  <2>3. t \in ChainTxs
    BY <1>1, CommitTx, Zenon
  <2>4. /\ seen \in Blocks \cup {NoBlock}
        /\ seen # NoBlock => Mined(t) /\ seen = BlockAt(minedAt[t]) /\ seen.height = minedAt[t] /\ known = minedAt[t]
    BY <2>3, MinedRange, BlockAtCanonical, Zenon
  <2>5. place \in {"header", "source"} /\ (Mined(t) => place = "header")
    BY Zenon
  <2>6. work.tip.height \in Nat
    BY <1>1, BranchesAssumption DEF Ticking, Blocks
  <2>7. seen # NoBlock => seen.height <= work.tip.height
    <3>1. Mined(t) => minedAt[t] \in Nat
      BY <2>3, MinedRange, Zenon
    <3> HIDE DEF seen, known, t
    <3> QED
      BY <1>3, <2>4, <2>6, <3>1
  <2> HIDE DEF seen, known, place
  <2>8. /\ work' \in Works /\ work'.place = place /\ work'.seen = seen /\ work'.stage = work.stage
        /\ work'.job = work.job /\ work'.pass = work.pass /\ work'.todo = work.todo
        /\ work'.tip = work.tip /\ work'.conclusive = work.conclusive
    <3>1. seen \in Blocks \cup {NoBlock} /\ place \in {"header", "source"} /\ pool \in BOOLEAN
      BY <2>4, <2>5, Zenon
    <3> HIDE DEF t
    <3> QED
      BY <1>1, <2>1, <3>1, Zenon DEF Works, Places
  <2>9. Conclusive' <=> Conclusive
    BY <2>8, Zenon DEF Conclusive
  <2>10. GoesOn("tx", place)
    BY <1>1, <2>2, <2>5, <2>8, <2>9, Zenon DEF GoesOn, SameVisit, Visiting, Reading
  <2>11. FindsTx
    BY <2>4, <2>5, <2>7, <2>8, <2>10, Zenon DEF FindsTx
  <2> QED
    BY <1>1, <2>11, Zenon DEF VisitStep, Visiting, Reading
<1> QED
  BY <1>2, <1>3, Zenon

LEMMA ReadHeaderStep == ASSUME WorkInv, ReadHeader PROVE VisitStep
<1> DEFINE b == IF work.seen = NoBlock THEN pegIn[Job].receipt ELSE work.seen
           outcome == HeaderOutcome(b.height)
           flag == Canonical(b)
<1>1. /\ work.place = "header" /\ Job \in PegIns /\ work \in Works
      /\ UNCHANGED <<chains, baseline, reorgPending>>
  BY Zenon DEF ReadHeader, At, WorkInv, Visiting, Reading, Aside, memory, Job
<1>2. outcome \in {"uncertain", "open", "pending", "invalid", "conflict"}
  BY Zenon DEF HeaderOutcome
<1>3. CASE outcome # "open"
  <2>1. Conclude(outcome)
    BY <1>3, Zenon DEF ReadHeader
  <2> HIDE DEF outcome
  <2> QED
    BY <1>1, <1>2, <1>3, <2>1, WaitStep, Zenon DEF VisitStep, Visiting, Reading
<1>4. CASE outcome = "open"
  <2>1. work' = [work EXCEPT !.place = "source", !.canonical = flag] /\ Tables
    BY <1>4, Zenon DEF ReadHeader
  <2>2. flag \in BOOLEAN
    BY Zenon DEF Canonical
  <2>3. work.seen # NoBlock /\ flag =>
          /\ Canonical(work.seen) /\ work.tip.height - work.seen.height + 1 >= Confirms
          /\ HasReceipt(Job) => pegIn[Job].receipt = work.seen
    BY <1>4, Zenon DEF HeaderOutcome
  <2> HIDE DEF flag
  <2>4. /\ work' \in Works /\ work'.place = "source" /\ work'.seen = work.seen
        /\ work'.stage = work.stage
        /\ work'.job = work.job /\ work'.pass = work.pass /\ work'.todo = work.todo
        /\ work'.tip = work.tip /\ work'.conclusive = work.conclusive /\ work'.canonical = flag
    BY <1>1, <2>1, <2>2, Zenon DEF Works, Places
  <2>5. (Conclusive' <=> Conclusive) /\ (Headed' <=> flag)
    BY <2>4, Zenon DEF Conclusive, Headed
  <2>6. GoesOn("header", "source")
    BY <1>1, <2>1, <2>4, <2>5, Zenon DEF GoesOn, SameVisit, Visiting, Reading
  <2>7. FindsHeader
    BY <2>3, <2>4, <2>5, <2>6, Zenon DEF FindsHeader
  <2> QED
    BY <1>1, <2>7, Zenon DEF VisitStep, Visiting, Reading
<1> QED
  BY <1>3, <1>4, Zenon

LEMMA ReadSourceStep == ASSUME WorkInv, ReadSource PROVE VisitStep
<1> DEFINE outcome == SourceOutcome(SourceUnspent(Job))
<1>1. /\ work.place = "source" /\ Job \in PegIns /\ work \in Works
      /\ UNCHANGED <<chains, baseline, reorgPending>>
  BY Zenon DEF ReadSource, At, WorkInv, Visiting, Reading, Aside, memory, Job
<1>2. outcome \in {"pending", "conflict", "open", "uncertain", "reorged"}
  BY Zenon DEF SourceOutcome
<1>3. CASE outcome # "open"
  <2>1. Conclude(outcome)
    BY <1>3, Zenon DEF ReadSource
  <2> HIDE DEF outcome
  <2> QED
    BY <1>1, <1>2, <1>3, <2>1, WaitStep, Zenon DEF VisitStep, Visiting, Reading
<1>4. CASE outcome = "open"
  <2>1. Go("vault") /\ Tables
    BY <1>4, Zenon DEF ReadSource
  <2>2. work.canonical /\ work.seen # NoBlock
    BY <1>4, Zenon DEF SourceOutcome
  <2>3. Headed
    BY <2>2, Zenon DEF Headed
  <2>4. "vault" \in Visiting
    BY Zenon DEF Visiting, Reading
  <2>5. FindsSpent
    BY <1>1, <2>1, <2>2, <2>3, <2>4, GoFits, Zenon DEF FindsSpent
  <2> QED
    BY <1>1, <2>5, Zenon DEF VisitStep, Visiting, Reading
<1> QED
  BY <1>3, <1>4, Zenon

LEMMA ObserveAgain ==
    ASSUME work \in Works, NEW stage \in {"submitted", "canonical", "beforeMint", "minted", "retry"},
           work' = Observing(stage)
    PROVE  SameVisit /\ work'.place = "tx" /\ work'.stage = stage
<1>1. /\ work' \in Works /\ work'.place = "tx" /\ work'.stage = stage
      /\ work'.job = work.job /\ work'.tip = work.tip /\ work'.pass = work.pass
      /\ work'.todo = work.todo /\ work'.conclusive = work.conclusive
  BY ObservingFields, Zenon
<1>2. Conclusive' <=> Conclusive
  BY <1>1, Zenon DEF Conclusive
<1> QED
  BY <1>1, <1>2, Zenon DEF SameVisit, Visiting, Reading

LEMMA GoSame ==
    ASSUME WorkInv, NEW place \in Visiting, Go(place)
    PROVE  SameVisit /\ work'.place = place /\ work'.stage = work.stage /\ work'.seen = work.seen
<1>1. place \in Places
  BY Zenon DEF Visiting, Reading, Resolving, Classifying, Places
<1>2. /\ work' \in Works /\ work'.place = place
      /\ work'.job = work.job /\ work'.stage = work.stage /\ work'.seen = work.seen
      /\ work'.tip = work.tip /\ work'.pass = work.pass /\ work'.todo = work.todo
      /\ work'.conclusive = work.conclusive
  BY <1>1, GoFields, Zenon DEF Go, WorkInv
<1>3. Conclusive' <=> Conclusive
  BY <1>2, Zenon DEF Conclusive
<1> QED
  BY <1>2, <1>3, Zenon DEF SameVisit

LEMMA FoundStep ==
    ASSUME WorkInv, work.place = "vault", Found
    PROVE  WritesReceipt \/ Resolves \/ GivesWay
<1>1. work.stage \in {"submitted", "canonical", "beforeMint", "minted", "retry"} /\ work \in Works
  BY Zenon DEF WorkInv, Works
<1>2. work.stage = "minted" => HasReceipt(Job)
  BY Zenon DEF WorkInv, Reading, Job
<1>3. "processed" \in Visiting /\ "still" \in Visiting
  BY Zenon DEF Visiting, Resolving
<1>4. CASE work.stage = "submitted"
  <2>1. RecordConsumeConfirmed(Job, work.seen) /\ work' = Observing("canonical")
    BY <1>4, Zenon DEF Found
  <2> QED
    BY <1>1, <1>4, <2>1, ObserveAgain, Zenon DEF WritesReceipt
<1>5. CASE work.stage = "canonical" /\ ~HasReceipt(Job)
  <2>1. RecordConsumeConfirmed(Job, work.seen) /\ Go("processed")
    BY <1>5, Zenon DEF Found
  <2> QED
    BY <1>3, <1>5, <2>1, GoSame, Zenon DEF WritesReceipt
<1>6. CASE work.stage \in {"canonical", "minted"} /\ HasReceipt(Job)
  <2>1. Tables /\ Go("processed")
    BY <1>6, Zenon DEF Found
  <2> QED
    BY <1>3, <1>6, <2>1, GoSame, Zenon DEF Resolves, GoesOn
<1>7. CASE work.stage = "beforeMint"
  <2>1. Tables /\ work' = Done(FALSE)
    BY <1>7, Zenon DEF Found
  <2> QED
    BY <1>1, <2>1, EndsDone, Zenon DEF GivesWay
<1>8. CASE work.stage = "retry"
  <2>1. Tables /\ Go("still")
    BY <1>8, Zenon DEF Found
  <2> QED
    BY <1>3, <1>8, <2>1, GoSame, Zenon DEF Resolves, GoesOn
<1> QED
  BY <1>1, <1>2, <1>4, <1>5, <1>6, <1>7, <1>8, Zenon

LEMMA ReadVaultStep == ASSUME WorkInv, ReadVault PROVE VisitStep
<1>1. work.place = "vault" /\ UNCHANGED <<chains, baseline, reorgPending>>
  BY Zenon DEF ReadVault, At, Aside, memory
<1>2. CASE Conclude("uncertain")
  BY <1>1, <1>2, WaitStep, Zenon DEF VisitStep, Visiting, Reading
<1>3. CASE Conclude("confirmed")
  BY <1>1, <1>3, FoundStep, Zenon DEF Conclude, VisitStep, Visiting, Reading
<1> QED
  BY <1>2, <1>3, Zenon DEF ReadVault

-----------------------------------------------------------------------------
(* The mint. *)

LEMMA OrThrownStep ==
    ASSUME WorkInv, work.place \in Resolving,
           \/ RecordMinted(Job) /\ work' = Done(TRUE)
           \/ Tables /\ ~IsIn(Job, {"minting"}) /\ work' = Done(TRUE)
           \/ ConfirmMintRecovery(Job, side[Job].block) /\ side[Job].deep /\ work' = Done(TRUE)
           \/ /\ ResetMintForRetry(Job) /\ work' = Done(TRUE)
              /\ mint[Job].status \in LiveMint => work.place = "expiry" /\ side[Job].expired
              /\ work.place # "expiry" => side[Job].block = 0
           \/ Tables /\ work' = Done(FALSE)
           \/ Tables /\ work' = Thrown
    PROVE  GivesWay \/ Concludes
<1>1. work \in Works
  BY Zenon DEF WorkInv
<1>2. CASE Tables /\ work' = Done(FALSE)
  BY <1>1, <1>2, EndsDone, Zenon DEF GivesWay
<1>3. CASE Tables /\ work' = Thrown
  BY <1>1, <1>3, EndsThrown, Zenon DEF GivesWay
<1>4. CASE work' = Done(TRUE)
  <2>1. VisitEnds /\ (Conclusive' => Conclusive)
    BY <1>1, <1>4, EndsDone, Zenon
  <2> QED
    BY <1>2, <1>3, <2>1, Zenon DEF Concludes
<1> QED
  BY <1>2, <1>3, <1>4, Zenon

LEMMA RecoverStep ==
    ASSUME WorkInv, work.place \in {"processed", "still"}, Recover
    PROVE  GivesWay \/ Concludes \/ Resolves \/ ToIncident
<1>1. work.place \in Resolving /\ "confirmation" \in Visiting
  BY Zenon DEF Resolving, Visiting
<1>2. CASE Tables /\ Go("confirmation")
  BY <1>1, <1>2, GoSame, Zenon DEF Resolves, GoesOn
<1>3. CASE Incident
  BY <1>1, <1>3, IncidentStep, Zenon
<1>4. CASE Tables /\ work' = Done(TRUE) /\ ~IsIn(Job, {"minting"})
  BY <1>1, <1>4, OrThrownStep, Zenon
<1>5. CASE OrThrown(hold[Job] = "none", RecordMinted(Job))
  <2>1. (RecordMinted(Job) /\ work' = Done(TRUE)) \/ (Tables /\ work' = Thrown)
    BY <1>5, Zenon DEF OrThrown
  <2> QED
    BY <1>1, <2>1, OrThrownStep, Zenon
<1> QED
  BY <1>2, <1>3, <1>4, <1>5, Zenon DEF Recover

LEMMA ReadProcessedStep == ASSUME WorkInv, ReadProcessed PROVE VisitStep
<1>1. work.place = "processed" /\ UNCHANGED <<chains, baseline, reorgPending>> /\ work \in Works
  BY Zenon DEF ReadProcessed, At, Aside, memory, WorkInv
<1>2. CASE Recover
  BY <1>1, <1>2, RecoverStep, Zenon DEF VisitStep, Visiting, Resolving
<1>3. CASE Tables /\ work' = Observing(IF work.pass = "pending" THEN "beforeMint" ELSE "retry")
  <2>1. ReadsAgain
    BY <1>1, <1>3, ObserveAgain, Zenon DEF ReadsAgain, GoesOn
  <2> QED
    BY <1>1, <2>1, Zenon DEF VisitStep, Visiting, Resolving
<1> QED
  BY <1>2, <1>3, Zenon DEF ReadProcessed

LEMMA ResetStep ==
    ASSUME OrThrown(hold[Job] = "none", ResetMintForRetry(Job))
    PROVE  (ResetMintForRetry(Job) /\ work' = Done(TRUE)) \/ (Tables /\ work' = Thrown)
  BY Zenon DEF OrThrown

LEMMA ReadStillAbsentStep == ASSUME WorkInv, MintsInv, ReadStillAbsent PROVE VisitStep
<1>1. /\ work.place = "still" /\ UNCHANGED <<chains, baseline, reorgPending>> /\ work \in Works
      /\ work.place \in Resolving /\ "expiry" \in Visiting /\ work.place \in Visiting
      /\ Job \in PegIns
  BY Zenon DEF ReadStillAbsent, At, Aside, memory, WorkInv, Resolving, Visiting, Job
<1>2. CASE Recover
  BY <1>1, <1>2, RecoverStep, Zenon DEF VisitStep
<1>3. CASE ~(side[Job].block > 0)
  <2>1. side[Job].block = 0
    <3>1. side[Job] \in Mints
      BY <1>1, Zenon DEF MintsInv
    <3> QED
      BY <1>3, <3>1 DEF Mints
  <2>2. CASE Tables /\ Go("expiry")
    BY <1>1, <2>1, <2>2, GoSame, Zenon DEF Resolves, GoesOn, VisitStep
  <2>3. CASE ~(mint[Job].status \in LiveMint) /\ OrThrown(hold[Job] = "none", ResetMintForRetry(Job))
    BY <1>1, <2>1, <2>3, ResetStep, OrThrownStep, Zenon DEF VisitStep
  <2> QED
    BY <1>3, <2>2, <2>3, Zenon DEF ReadStillAbsent
<1> QED
  BY <1>2, <1>3, Zenon DEF ReadStillAbsent

LEMMA ReadConfirmationStep == ASSUME WorkInv, ReadConfirmation PROVE VisitStep
<1>1. /\ work.place = "confirmation" /\ UNCHANGED <<chains, baseline, reorgPending>>
      /\ work.place \in Resolving /\ work.place \in Visiting
  BY Zenon DEF ReadConfirmation, At, Aside, memory, Resolving, Visiting
<1>2. \/ Tables /\ work' = Done(FALSE)
      \/ ConfirmMintRecovery(Job, side[Job].block) /\ side[Job].deep /\ work' = Done(TRUE)
      \/ Tables /\ work' = Thrown
  BY Zenon DEF ReadConfirmation, OrThrown
<1> QED
  BY <1>1, <1>2, OrThrownStep, Zenon DEF VisitStep

LEMMA ReadExpiryStep == ASSUME WorkInv, ReadExpiry PROVE VisitStep
<1>1. /\ work.place = "expiry" /\ UNCHANGED <<chains, baseline, reorgPending>>
      /\ work.place \in Resolving /\ work.place \in Visiting
  BY Zenon DEF ReadExpiry, At, Aside, memory, Resolving, Visiting
<1>2. \/ Tables /\ work' = Done(FALSE)
      \/ ResetMintForRetry(Job) /\ side[Job].expired /\ work' = Done(TRUE)
      \/ Tables /\ work' = Thrown
  BY Zenon DEF ReadExpiry, OrThrown
<1> QED
  BY <1>1, <1>2, OrThrownStep, Zenon DEF VisitStep

-----------------------------------------------------------------------------
(* Rows of earlier contracts, incidents and failures. *)

LEMMA ReadLegacySourceStep == ASSUME WorkInv, ReadLegacySource PROVE VisitStep
<1> DEFINE unspent == SourceUnspent(Job)
<1>1. /\ work.place = "legacySource" /\ UNCHANGED <<chains, baseline, reorgPending>>
      /\ work \in Works /\ work.place \in Visiting /\ "legacyProcessed" \in Visiting
  BY Zenon DEF ReadLegacySource, At, Aside, memory, WorkInv, Visiting, Classifying
<1>2. work' = [work EXCEPT !.place = "legacyProcessed", !.answer = unspent] /\ Tables
  BY Zenon DEF ReadLegacySource
<1>3. unspent \in BOOLEAN
  BY Zenon DEF SourceUnspent
<1> HIDE DEF unspent
<1>4. /\ work' \in Works /\ work'.place = "legacyProcessed"
      /\ work'.job = work.job /\ work'.pass = work.pass /\ work'.todo = work.todo
      /\ work'.tip = work.tip /\ work'.conclusive = work.conclusive
  BY <1>1, <1>2, <1>3, Zenon DEF Works, Places
<1>5. Conclusive' <=> Conclusive
  BY <1>4, Zenon DEF Conclusive
<1> QED
  BY <1>1, <1>2, <1>4, <1>5, Zenon DEF VisitStep, GoesOn, SameVisit

LEMMA ReadLegacyProcessedStep == ASSUME WorkInv, ReadLegacyProcessed PROVE VisitStep
<1> DEFINE class == Classification(work.answer, side[Job].block > 0)
<1>1. /\ work.place = "legacyProcessed" /\ UNCHANGED <<chains, baseline, reorgPending>>
      /\ work \in Works /\ work.place \in Visiting /\ "incident" \in Visiting
  BY Zenon DEF ReadLegacyProcessed, At, Chains, WorkInv, Visiting, Classifying
<1>2. class \in LegacyClasses
  BY Zenon DEF Classification, LegacyClasses
<1>3. \/ UpdateClassification(Job, class) /\ (Go("incident") \/ work' = Done(TRUE))
      \/ Tables /\ work' = Done(FALSE)
  BY Zenon DEF ReadLegacyProcessed
<1> HIDE DEF class
<1>4. CASE UpdateClassification(Job, class) /\ Go("incident")
  BY <1>1, <1>2, <1>4, GoSame, Zenon DEF Classifies, VisitStep
<1>5. CASE UpdateClassification(Job, class) /\ work' = Done(TRUE)
  BY <1>1, <1>2, <1>5, EndsDone, Zenon DEF Classifies, VisitStep
<1>6. CASE Tables /\ work' = Done(FALSE)
  BY <1>1, <1>6, EndsDone, Zenon DEF GivesWay, VisitStep
<1> QED
  BY <1>3, <1>4, <1>5, <1>6, Zenon

LEMMA HoldForIncidentStep == ASSUME WorkInv, HoldForIncident PROVE VisitStep
<1>1. /\ work.place = "incident" /\ UNCHANGED <<chains, baseline, reorgPending>>
      /\ work.place \in Visiting /\ "held" \in Visiting /\ HoldFundsRelease /\ Go("held")
  BY Zenon DEF HoldForIncident, At, Aside, memory, Visiting
<1> QED
  BY <1>1, GoSame, Zenon DEF OpensIncident, VisitStep

LEMMA OpenIncidentStep == ASSUME WorkInv, OpenIncident PROVE VisitStep
<1>1. /\ work.place = "held" /\ UNCHANGED <<chains, baseline, reorgPending>>
      /\ work.place \in Visiting /\ MarkIncident(Job) /\ work' = AfterIncident(TRUE) /\ work \in Works
  BY Zenon DEF OpenIncident, At, Chains, Visiting, WorkInv
<1> QED
  BY <1>1, EndsDone, Zenon DEF OpensIncident, VisitStep

LEMMA IncidentNotPersistedStep == ASSUME WorkInv, IncidentNotPersisted PROVE VisitStep
<1>1. /\ UNCHANGED <<chains, baseline, reorgPending>> /\ Tables
      /\ work.place \in Visiting /\ work' = AfterIncident(FALSE) /\ work \in Works
  BY Zenon DEF IncidentNotPersisted, Chains, Visiting, WorkInv
<1> QED
  BY <1>1, EndsDone, Zenon DEF GivesWay, VisitStep

LEMMA ReadFailsStep == ASSUME WorkInv, ReadFails, work.place # "recollect" PROVE VisitStep
<1>1. /\ UNCHANGED <<chains, baseline, reorgPending>> /\ Tables
      /\ work.place \in Visiting /\ work' = Done(FALSE) /\ work \in Works
  BY Zenon DEF ReadFails, Aside, memory, At, Visiting, Reading, Resolving, Classifying, WorkInv
<1> QED
  BY <1>1, EndsDone, Zenon DEF GivesWay, VisitStep

\* Every step of the daemon at a row is one of these.
LEMMA EveryVisit ==
    ASSUME WorkInv, MintsInv, ChainInv, Ticking => work.tip \in Blocks,
           \/ Visit /\ ~TakeJob
           \/ IncidentNotPersisted
           \/ ReadFails /\ work.place # "recollect"
    PROVE  VisitStep
  BY ReadTxStep, ReadHeaderStep, ReadSourceStep, ReadVaultStep, ReadProcessedStep,
     ReadStillAbsentStep, ReadConfirmationStep, ReadExpiryStep, ReadLegacySourceStep,
     ReadLegacyProcessedStep, HoldForIncidentStep, OpenIncidentStep, IncidentNotPersistedStep,
     ReadFailsStep, Zenon
     DEF Visit

-----------------------------------------------------------------------------
(* The other steps of a tick. *)

\* A pass as the daemon's operators set it up.
LEMMA OverBegins ==
    ASSUME work \in Works, NEW pass \in {"all", "batch", "legacy", "pending"},
           NEW S \in SUBSET PegIns, work' = Over(pass, S)
    PROVE  PassBegins(pass, S) /\ work'.tip = work.tip
<1>1. work' = [place |-> "next", tip |-> work.tip, pass |-> pass, starting |-> FALSE, todo |-> S,
               job |-> NoJob, stage |-> "minted", seen |-> NoBlock, answer |-> FALSE,
               canonical |-> FALSE, conclusive |-> TRUE, suspect |-> {}, last |-> 0]
  BY Zenon DEF Over, Idle
<1>2. work' \in Works
  BY OverFields, Zenon
<1> QED
  BY <1>1, <1>2 DEF PassBegins

LEMMA StartStep == ASSUME ChainInv, Start PROVE Starts
<1>1. Tip \in Blocks
  BY TipRange, Zenon
<1>2. work' = [place |-> "next", tip |-> Tip, pass |-> "all", starting |-> TRUE, todo |-> AllSubmitted,
               job |-> NoJob, stage |-> "minted", seen |-> NoBlock, answer |-> FALSE,
               canonical |-> FALSE, conclusive |-> TRUE, suspect |-> {}, last |-> 0]
  BY Zenon DEF Start, Idle, AllSubmitted
<1>3. AllSubmitted \in SUBSET PegIns
  BY Zenon DEF AllSubmitted
<1>4. PassBegins("all", AllSubmitted) /\ work'.tip = Tip
  BY <1>1, <1>2, <1>3, Zenon DEF PassBegins, Works, Places
<1> QED
  BY <1>4, Zenon DEF Start, Starts, At, Chains

LEMMA BeginTickStep == ASSUME ChainInv, BeginTick PROVE BeginsTick
<1>1. Tip \in Blocks
  BY TipRange, Zenon
<1>2. work' = [Idle EXCEPT !.place = "detect", !.tip = Tip]
  BY Zenon DEF BeginTick
<1>3. work' \in Works /\ work'.place = "detect" /\ work'.tip = Tip
  BY <1>1, <1>2, IdleFields, Zenon DEF Works, Places
<1> QED
  BY <1>3, Zenon DEF BeginTick, BeginsTick, At, Aside, Still, memory

LEMMA DetectStep == ASSUME work \in Works, Detect PROVE DetectsReorg \/ DetectsNone
<1> DEFINE reorg == IF work.tip.height > baseline.height THEN ~Canonical(baseline) ELSE work.tip # baseline
<1>1. /\ work.place = "detect" /\ Tables /\ UNCHANGED <<chains, reorgPending>>
  BY Zenon DEF Detect, At, Chains
<1>2. CASE reorg \/ reorgPending
  <2>1. work' = Over("all", AllSubmitted) /\ UNCHANGED baseline /\ AllSubmitted \in SUBSET PegIns
    BY <1>2, Zenon DEF Detect, AllSubmitted
  <2>2. PassBegins("all", AllSubmitted) /\ work'.tip = work.tip
    BY <2>1, OverBegins, Zenon
  <2> QED
    BY <1>1, <2>1, <2>2, Zenon DEF DetectsReorg, Still
<1>3. CASE ~(reorg \/ reorgPending)
  <2>1. work' = [work EXCEPT !.place = "select"] /\ baseline' = work.tip
    BY <1>3, Zenon DEF Detect
  <2>2. work' \in Works /\ work'.place = "select" /\ work'.tip = work.tip
    BY <2>1, Zenon DEF Works, Places
  <2> QED
    BY <1>1, <1>3, <2>1, <2>2, Zenon DEF DetectsNone
<1> QED
  BY <1>2, <1>3, Zenon

LEMMA IdleSteps ==
    ASSUME EndTickEarly \/ EndPeriodic \/ EndTick
    PROVE  GoesIdle
<1>1. work' = Idle /\ Still /\ work.place # "down"
  BY Zenon DEF EndTickEarly, EndPeriodic, EndTick, At, Still, Chains, Aside, memory
<1> QED
  BY <1>1, IdleFields, Zenon DEF GoesIdle

LEMMA CrashStep == ASSUME Crash PROVE Crashes
  BY DownFields, Zenon DEF Crash, Crashes, Chains

LEMMA TakeStep == ASSUME WorkInv, NEW p \in work.todo, Take(p) PROVE Takes \/ GoesIdle
<1> DEFINE taken == [work EXCEPT !.job = p, !.todo = work.todo \ {p}]
<1>1. work.place = "next" /\ Still /\ work \in Works /\ p \in PegIns
  BY Zenon DEF Take, At, Aside, Still, memory, WorkInv, Works
<1>2. ASSUME NEW w, NEW place \in {"legacySource", "tx", "incident"}, w = [taken EXCEPT !.place = place]
      PROVE  /\ w \in Works /\ w.place = place /\ w.job = p /\ w.todo = work.todo \ {p}
             /\ w.pass = work.pass /\ w.tip = work.tip /\ w.stage = work.stage
             /\ w.conclusive = work.conclusive
  BY <1>1, <1>2, Zenon DEF Works, Places
<1>3. ASSUME NEW w, NEW stage \in {"submitted", "canonical"},
             w = [taken EXCEPT !.place = "tx", !.stage = stage]
      PROVE  /\ w \in Works /\ w.place = "tx" /\ w.job = p /\ w.todo = work.todo \ {p}
             /\ w.pass = work.pass /\ w.tip = work.tip /\ w.stage = stage
             /\ w.conclusive = work.conclusive
  BY <1>1, <1>3, Zenon DEF Works, Places
<1>4. \/ work' = [taken EXCEPT !.place = "legacySource"] /\ pegIn[p].class # ActiveClass
      \/ work' = Idle
      \/ /\ work.pass = "pending" /\ pegIn[p].class = ActiveClass
         /\ \E stage \in {"submitted", "canonical"} : work' = [taken EXCEPT !.place = "tx", !.stage = stage]
      \/ /\ work.pass # "pending" /\ pegIn[p].class = ActiveClass /\ HasReceipt(p)
         /\ work' = [taken EXCEPT !.place = "tx"]
      \/ work' = [taken EXCEPT !.place = "incident"]
  BY Zenon DEF Take
<1> HIDE DEF taken
<1>5. CASE work' = Idle
  BY <1>1, <1>5, IdleFields, Zenon DEF GoesIdle
<1>6. ASSUME work'.conclusive = work.conclusive PROVE Conclusive' <=> Conclusive
  BY <1>6, Zenon DEF Conclusive
<1>7. CASE work' = [taken EXCEPT !.place = "legacySource"] /\ pegIn[p].class # ActiveClass
  <2>1. "legacySource" \in {"legacySource", "tx", "incident"}
    BY Zenon
  <2> QED
    BY <1>1, <1>2, <1>6, <1>7, <2>1, Zenon DEF Takes
<1>8. CASE /\ work.pass = "pending" /\ pegIn[p].class = ActiveClass
           /\ \E stage \in {"submitted", "canonical"} : work' = [taken EXCEPT !.place = "tx", !.stage = stage]
  <2>1. PICK stage \in {"submitted", "canonical"} : work' = [taken EXCEPT !.place = "tx", !.stage = stage]
    BY <1>8, Zenon
  <2>2. /\ work' \in Works /\ work'.place = "tx" /\ work'.job = p /\ work'.todo = work.todo \ {p}
        /\ work'.pass = work.pass /\ work'.tip = work.tip /\ work'.stage = stage
        /\ work'.conclusive = work.conclusive
    BY <1>3, <2>1, Zenon
  <2> QED
    BY <1>1, <1>6, <1>8, <2>1, <2>2, Zenon DEF Takes
<1>9. CASE /\ work.pass # "pending" /\ pegIn[p].class = ActiveClass /\ HasReceipt(p)
           /\ work' = [taken EXCEPT !.place = "tx"]
  <2>1. "tx" \in {"legacySource", "tx", "incident"}
    BY Zenon
  <2> QED
    BY <1>1, <1>2, <1>6, <1>9, <2>1, Zenon DEF Takes
<1>10. CASE work' = [taken EXCEPT !.place = "incident"]
  <2>1. "incident" \in {"legacySource", "tx", "incident"}
    BY Zenon
  <2> QED
    BY <1>1, <1>2, <1>6, <1>10, <2>1, Zenon DEF Takes
<1> QED
  BY <1>4, <1>5, <1>7, <1>8, <1>9, <1>10, Zenon

LEMMA IdleAt ==
    ASSUME work \in Works, NEW place \in Between, NEW w, w = [Idle EXCEPT !.place = place, !.tip = work.tip]
    PROVE  w \in Works /\ w.place = place /\ w.tip = work.tip
<1>1. ASSUME NEW b \in Blocks \cup {NoBlock}
      PROVE  [Idle EXCEPT !.place = place, !.tip = b] \in Works
  <2> DEFINE v == [Idle EXCEPT !.tip = b]
  <2>1. v \in Works
    BY IdleFields DEF Works
  <2>2. [Idle EXCEPT !.place = place, !.tip = b] = [v EXCEPT !.place = place]
    BY Zenon DEF Idle
  <2> HIDE DEF v
  <2>3. [v EXCEPT !.place = place] \in Works
    BY <2>1 DEF Works, Between, Places
  <2> QED
    BY <2>2, <2>3, Zenon
<1>2. work.tip \in Blocks \cup {NoBlock}
  BY Zenon DEF Works
<1>3. w \in Works
  BY <1>1, <1>2, Zenon
<1>4. w = [place |-> place, tip |-> work.tip, pass |-> "all", starting |-> FALSE, todo |-> {},
           job |-> NoJob, stage |-> "minted", seen |-> NoBlock, answer |-> FALSE,
           canonical |-> FALSE, conclusive |-> TRUE, suspect |-> {}, last |-> 0]
  BY Zenon DEF Idle
<1> QED
  BY <1>3, <1>4, Zenon

LEMMA EndReconciliationStep == ASSUME WorkInv, EndReconciliation PROVE EndsPass
<1>1. /\ work.place = "next" /\ work.todo = {} /\ work.pass = "all" /\ Tables /\ UNCHANGED chains
      /\ work \in Works
  BY Zenon DEF EndReconciliation, At, Chains, WorkInv
<1>2. work.conclusive \in BOOLEAN
  BY <1>1, Zenon DEF Works
<1>3. reorgPending' \in BOOLEAN /\ (~reorgPending' => Conclusive)
  BY <1>2, Zenon DEF EndReconciliation, Conclusive
<1>4. CASE work' = Idle
  BY <1>1, <1>3, <1>4, IdleFields, Zenon DEF EndReconciliation, EndsPass
<1>5. CASE work' = [Idle EXCEPT !.place = "select", !.tip = work.tip] /\ baseline' = work.tip
  <2>1. work' \in Works /\ work'.place = "select" /\ work'.tip = work.tip
    BY <1>1, <1>5, IdleAt, Zenon DEF Between
  <2> QED
    BY <1>1, <1>3, <1>5, <2>1, Zenon DEF EndsPass
<1> QED
  BY <1>4, <1>5, Zenon DEF EndReconciliation

LEMMA GoBetween ==
    ASSUME work \in Works, NEW place \in Between, work' = [work EXCEPT !.place = place]
    PROVE  work' \in Works /\ work'.place = place /\ work'.tip = work.tip
  BY Zenon DEF Works, Between, Places

LEMMA SelectStep == ASSUME WorkInv, Select PROVE MovesOn
<1>1. work.place = "select" /\ Still /\ work \in Works
  BY Zenon DEF Select, At, Aside, Still, memory, WorkInv
<1>2. CASE reorgPending
  <2>1. work' = [work EXCEPT !.place = "cycle"]
    BY <1>2, Zenon DEF Select
  <2> QED
    BY <1>1, <2>1, GoBetween, Zenon DEF MovesOn, Between
<1>3. CASE ~reorgPending
  <2> DEFINE S == {p \in PegIns : /\ ~Known(p) /\ SourceUnspent(p)
                                  /\ work.tip.height - minedAt[LockOf[p]] + 1 >= Confirms}
  <2>1. work' = [Over("pending", S) EXCEPT !.place = "register"]
    BY <1>3, Zenon DEF Select
  <2>2. S \in SUBSET PegIns
    BY Zenon
  <2> HIDE DEF S
  <2>3. Over("pending", S) \in Works /\ Over("pending", S).tip = work.tip
    BY <1>1, <2>2, OverFields, Zenon
  <2>4. work' \in Works /\ work'.place = "register" /\ work'.tip = work.tip
    BY <2>1, <2>3, Zenon DEF Works, Places
  <2> QED
    BY <1>1, <1>3, <2>4, Zenon DEF MovesOn, Between
<1> QED
  BY <1>2, <1>3, Zenon

\* Rows that are selected by their status are rows of the table.
LEMMA SelectedKnown ==
    ASSUME NEW p, NEW S, IsIn(p, S), "absent" \notin S
    PROVE  Known(p)
  BY DEF IsIn, Known, NoPegIn

LEMMA SelectingTick ==
    ASSUME FlightInv, work.place \in {"register", "recollect", "record", "gate"}
    PROVE  ~reorgPending
  BY Zenon DEF FlightInv, Selecting

LEMMA RegisterStep == ASSUME WorkInv, FlightInv, Register PROVE Registers \/ MovesOn
<1>1. /\ work.place = "register" /\ UNCHANGED <<chains, baseline, reorgPending>> /\ work \in Works
      /\ ~reorgPending
  BY SelectingTick, Zenon DEF Register, At, Aside, memory, WorkInv
<1>2. CASE work.todo = {}
  <2>1. Tables /\ work' = [work EXCEPT !.place = "recollect"]
    BY <1>2, Zenon DEF Register, Go
  <2> QED
    BY <1>1, <2>1, GoBetween, Zenon DEF MovesOn, Between, Still
<1>3. CASE work.todo # {}
  <2>1. PICK p \in work.todo : /\ InsertPegIn(p, ClassOf(kind[p]))
                               /\ work' = [work EXCEPT !.todo = work.todo \ {p}]
    BY <1>3, Zenon DEF Register
  <2>2. p \in PegIns
    BY <1>1, Zenon DEF Works
  <2>3. InsertPegIn(p, ActiveClass) \/ InsertPegIn(p, "legacy_unminted_refundable")
    BY <2>1, Zenon DEF ClassOf
  <2>4. work' \in Works /\ work'.place = "register" /\ work'.tip = work.tip
    BY <1>1, <2>1, Zenon DEF Works
  <2> QED
    BY <1>1, <2>2, <2>3, <2>4, Zenon DEF Registers
<1> QED
  BY <1>2, <1>3, Zenon

LEMMA RecordHoldStep == ASSUME WorkInv, FlightInv, RecordHold PROVE RecordsHold \/ MovesOn
<1>1. /\ work.place = "record" /\ UNCHANGED <<chains, baseline, reorgPending>> /\ work \in Works
      /\ ~reorgPending
  BY SelectingTick, Zenon DEF RecordHold, At, Aside, memory, WorkInv
<1>2. CASE work.todo = {}
  <2>1. Tables /\ work' = [Idle EXCEPT !.place = "cycle", !.tip = work.tip]
    BY <1>2, Zenon DEF RecordHold
  <2>2. work' \in Works /\ work'.place = "cycle" /\ work'.tip = work.tip
    BY <1>1, <2>1, IdleAt, Zenon DEF Between
  <2> QED
    BY <1>1, <2>1, <2>2, Zenon DEF MovesOn, Between, Still
<1>3. CASE work.todo # {}
  <2>1. PICK p \in work.todo :
            /\ RecordReconciliation(p, IF p \in work.suspect THEN "quarantined" ELSE "deferred")
            /\ work' = [work EXCEPT !.todo = work.todo \ {p}]
    BY <1>3, Zenon DEF RecordHold
  <2>2. p \in PegIns
    BY <1>1, Zenon DEF Works
  <2>3. work' \in Works /\ work'.place = "record" /\ work'.tip = work.tip
    BY <1>1, <2>1, Zenon DEF Works
  <2>4. \E d \in {"deferred", "quarantined"} : RecordReconciliation(p, d)
    BY <2>1, Zenon
  <2> QED
    BY <1>1, <2>2, <2>3, <2>4, Zenon DEF RecordsHold
<1> QED
  BY <1>2, <1>3, Zenon

LEMMA OverStep ==
    ASSUME WorkInv, Still, work.place \in Between, NEW pass \in {"legacy", "pending"}, NEW S \in SUBSET PegIns,
           work' = Over(pass, S), \A p \in S : Known(p), ~reorgPending
    PROVE  BeginsPass
<1>1. PassBegins(pass, S) /\ work'.tip = work.tip
  BY OverBegins, Zenon DEF WorkInv
<1> QED
  BY <1>1, Zenon DEF BeginsPass

LEMMA RecollectStep == ASSUME WorkInv, FlightInv, Recollect PROVE MovesOn \/ BeginsPass
<1>1. work.place = "recollect" /\ Still /\ work \in Works /\ ~reorgPending
  BY SelectingTick, Zenon DEF Recollect, At, Aside, Still, memory, WorkInv
<1>2. CASE Recollection = "off"
  <2>1. work' = [work EXCEPT !.place = "cycle"]
    BY <1>2, Zenon DEF Recollect
  <2> QED
    BY <1>1, <2>1, GoBetween, Zenon DEF MovesOn, Between
<1>3. CASE Recollection = "holding"
  <2> DEFINE S == {p \in PegIns : Known(p) /\ Disposition(p) = "quarantined"}
  <2>1. work' = [work EXCEPT !.place = "record", !.todo = Page, !.suspect = S]
    BY <1>3, Zenon DEF Recollect
  <2>2. S \in SUBSET PegIns /\ Page \in SUBSET PegIns
    BY Zenon DEF Page
  <2> HIDE DEF S
  <2>3. work' \in Works /\ work'.place = "record" /\ work'.tip = work.tip
    BY <1>1, <2>1, <2>2, Zenon DEF Works, Places
  <2> QED
    BY <1>1, <2>3, Zenon DEF MovesOn, Between
<1>4. CASE Recollection = "authorising"
  <2> DEFINE S == {p \in PegIns : /\ IsIn(p, Pending) /\ hold[p] = "none"
                                  /\ pegIn[p].class \notin {ActiveClass, "legacy_already_consumed"}}
  <2>1. work' = Over("legacy", S)
    BY <1>4, Zenon DEF Recollect
  <2>2. \A p \in S : Known(p)
    BY SelectedKnown, Zenon DEF Pending
  <2>3. S \in SUBSET PegIns
    BY Zenon
  <2> HIDE DEF S
  <2> QED
    BY <1>1, <2>1, <2>2, <2>3, OverStep, Zenon DEF Between
<1> QED
  BY <1>2, <1>3, <1>4, PegInDaemonAssumption, Zenon DEF Recollections

LEMMA PassGateStep == ASSUME WorkInv, FlightInv, PassGate PROVE MovesOn \/ BeginsPass
<1>1. work.place = "gate" /\ Still /\ work \in Works /\ ~reorgPending
  BY SelectingTick, Zenon DEF PassGate, At, Chains, Still, WorkInv
<1>2. CASE work' = [work EXCEPT !.place = "cycle"]
  BY <1>1, <1>2, GoBetween, Zenon DEF MovesOn, Between
<1>3. CASE work' # [work EXCEPT !.place = "cycle"]
  <2> DEFINE S == {p \in PegIns : /\ IsIn(p, Pending \ {"detected", "confirmed"})
                                  /\ hold[p] = "none" /\ pegIn[p].class = ActiveClass}
  <2>1. work' = Over("pending", S)
    BY <1>3, Zenon DEF PassGate
  <2>2. \A p \in S : Known(p)
    BY SelectedKnown, Zenon DEF Pending
  <2>3. S \in SUBSET PegIns
    BY Zenon
  <2> HIDE DEF S
  <2> QED
    BY <1>1, <2>1, <2>2, <2>3, OverStep, Zenon DEF Between
<1> QED
  BY <1>2, <1>3, Zenon

LEMMA BeginPeriodicStep == ASSUME WorkInv, BeginPeriodic PROVE BeginsPass
<1>1. work.place = "cycle" /\ Still /\ work \in Works
  BY Zenon DEF BeginPeriodic, At, Aside, Still, memory, WorkInv
<1>2. PICK last \in Batch : work' = [Over("batch", Batch) EXCEPT !.last = last]
  BY Zenon DEF BeginPeriodic
<1>3. Batch \in SUBSET PegIns /\ \A p \in Batch : Known(p)
  BY SelectedKnown, Zenon DEF Batch
<1>4. work' = [place |-> "next", tip |-> work.tip, pass |-> "batch", starting |-> FALSE, todo |-> Batch,
               job |-> NoJob, stage |-> "minted", seen |-> NoBlock, answer |-> FALSE,
               canonical |-> FALSE, conclusive |-> TRUE, suspect |-> {}, last |-> last]
  BY <1>2, Zenon DEF Over, Idle
<1>5. work.tip \in Blocks \cup {NoBlock} /\ "next" \in Places /\ NoBlock \in Blocks \cup {NoBlock}
  BY <1>1, Zenon DEF Works, Places
<1>6. work' \in Works
  BY <1>3, <1>4, <1>5, Zenon DEF Works
<1>8. PassBegins("batch", Batch) /\ work'.tip = work.tip
  BY <1>4, <1>6, Zenon DEF PassBegins
<1> QED
  BY <1>1, <1>3, <1>8, Zenon DEF BeginsPass, Between

LEMMA EndSelectionStep ==
    ASSUME WorkInv, FlightInv, EndClassification \/ EndSelection \/ (ReadFails /\ work.place = "recollect")
    PROVE  MovesOn
<1>1. work \in Works /\ Still
  BY Zenon DEF WorkInv, EndClassification, EndSelection, ReadFails, Aside, Still, memory
<1>2. CASE EndClassification
  <2>1. work.place = "next" /\ work.pass = "legacy" /\ work' = [work EXCEPT !.place = "gate"]
    BY <1>2, Zenon DEF EndClassification, At, Go
  <2>2. ~reorgPending
    BY <2>1, Zenon DEF FlightInv, Selecting, Passing
  <2> QED
    BY <1>1, <2>1, <2>2, GoBetween, Zenon DEF MovesOn, Between
<1>3. CASE EndSelection
  <2>1. work.place = "next" /\ work.pass = "pending" /\ work' = [work EXCEPT !.place = "cycle"]
    BY <1>3, Zenon DEF EndSelection, At, Go
  <2> QED
    BY <1>1, <2>1, GoBetween, Zenon DEF MovesOn, Between
<1>4. CASE ReadFails /\ work.place = "recollect"
  <2>1. work' = [work EXCEPT !.place = "cycle"]
    BY <1>4, Zenon DEF ReadFails, At
  <2> QED
    BY <1>1, <1>4, <2>1, GoBetween, Zenon DEF MovesOn, Between
<1> QED
  BY <1>2, <1>3, <1>4, Zenon

\* Every step of the daemon between the rows is one of these.
LEMMA EveryTick ==
    ASSUME WorkInv, FlightInv, ChainInv,
           \/ Start \/ Tick \/ TakeJob \/ EndTickEarly \/ Crash
           \/ ReadFails /\ work.place = "recollect"
    PROVE  TickStep
<1>1. work \in Works
  BY Zenon DEF WorkInv
<1> QED
  BY <1>1, StartStep, BeginTickStep, DetectStep, IdleSteps, CrashStep, TakeStep, EndReconciliationStep,
     SelectStep, RegisterStep, RecordHoldStep, RecollectStep, PassGateStep, BeginPeriodicStep,
     EndSelectionStep, Zenon
     DEF Tick, TakeJob, TickStep

-----------------------------------------------------------------------------
(* All of it together. *)

PegInInv ==
    /\ TablesInv /\ ChainInv /\ BranchOrder
    /\ WorkInv /\ ClassInv /\ MintsInv /\ FlightInv
    /\ MemoryInv /\ ReceiptInv /\ SeenInv /\ NoticedInv /\ BuriedInv

\* Everything but the mints on the sidechain.
BesideMints ==
    /\ TablesInv /\ ChainInv /\ BranchOrder
    /\ WorkInv /\ ClassInv /\ FlightInv
    /\ MemoryInv /\ ReceiptInv /\ SeenInv /\ NoticedInv /\ BuriedInv

LEMMA AsideKeeps ==
    ASSUME BesideMints, UNCHANGED <<branchVars, highest, deepest, Daemon>>
    PROVE  BesideMints' /\ TablesMove
<1>1. /\ UNCHANGED <<best, branches, minedAt, sent, highest, deepest>>
      /\ UNCHANGED <<work, baseline, reorgPending>>
      /\ UNCHANGED <<pegIn, mint, hold, incidents, externalHold, attempt>>
      /\ UNCHANGED pegInVars
  BY Zenon DEF branchVars, Daemon, memory, pegInVars, pegInTables, journal
<1>2. TablesMove
  BY <1>1, Zenon DEF TablesMove
<1>3. TablesInv'
  BY <1>2, TablesStep, Zenon DEF BesideMints, TablesMove
<1>4. ChainInv' /\ BranchOrder'
  BY <1>1, Zenon DEF BesideMints, ChainInv, BranchesTypeOK, MinedInBest, BranchOrder
<1>5. WorkInv' /\ ClassInv'
  BY <1>1, Zenon DEF BesideMints, WorkInv, ClassInv, Known, HasReceipt, IsIn
<1>6. FlightInv'
  BY <1>1, Zenon DEF BesideMints, FlightInv, InFlight, Selecting, Conclusive, IsIn
<1>7. MemoryInv' /\ ReceiptInv'
  BY <1>1, Zenon DEF BesideMints, MemoryInv, ReceiptInv, Ticking, WasBest, Canonical, Known, HasReceipt
<1>8. SeenInv'
  BY <1>1, Zenon DEF BesideMints, SeenInv, Vouching, Headed, Holds, Canonical, WasBest, HasReceipt
<1>9. NoticedInv'
  BY <1>1, Zenon DEF BesideMints, NoticedInv, AtRisk, InOrder, Conclusive, Holds, Canonical, IsIn, HasReceipt
<1>10. BuriedInv'
  BY <1>1, Zenon DEF BesideMints, BuriedInv, Ticking, Holds, Canonical, Known, HasReceipt
<1> QED
  BY <1>2, <1>3, <1>4, <1>5, <1>6, <1>7, <1>8, <1>9, <1>10, Zenon DEF BesideMints

LEMMA VisitKeeps == ASSUME PegInInv, VisitStep PROVE PegInInv' /\ TablesMove /\ AllRows
<1>1. AllRows /\ TablesMove
  BY VisitRows, Zenon DEF PegInInv
<1>2. TablesInv'
  BY <1>1, TablesStep, Zenon DEF PegInInv, TablesMove
<1>3. ChainInv' /\ BranchOrder'
  <2>1. UNCHANGED <<best, branches, minedAt, sent>>
    BY Zenon DEF VisitStep, chains, branchVars
  <2> QED
    BY <2>1, Zenon DEF PegInInv, ChainInv, BranchesTypeOK, MinedInBest, BranchOrder
<1>4. WorkInv' /\ ClassInv' /\ MintsInv' /\ FlightInv'
  BY <1>1, VisitKeepsWork, RowsKeepClass, VisitKeepsMints, VisitKeepsFlight, Zenon DEF PegInInv
<1>5. MemoryInv' /\ ReceiptInv' /\ SeenInv'
  BY <1>1, VisitKeepsMemory, VisitKeepsReceipts, VisitKeepsSeen, Zenon DEF PegInInv
<1>6. NoticedInv' /\ BuriedInv'
  BY <1>1, VisitKeepsNoticed, VisitKeepsBuried, Zenon DEF PegInInv
<1> QED
  BY <1>1, <1>2, <1>3, <1>4, <1>5, <1>6, Zenon DEF PegInInv

LEMMA TickKeeps == ASSUME PegInInv, TickStep PROVE PegInInv' /\ TablesMove /\ AllRows
<1>1. AllRows /\ TablesMove
  BY TickRows, Zenon DEF PegInInv
<1>2. TablesInv'
  BY <1>1, TablesStep, Zenon DEF PegInInv, TablesMove
<1>3. ChainInv' /\ BranchOrder'
  <2>1. UNCHANGED <<best, branches, minedAt, sent>>
    BY Zenon DEF TickStep, Starts, BeginsTick, DetectsReorg, DetectsNone, GoesIdle, MovesOn, BeginsPass, Takes,
           EndsPass, Registers, RecordsHold, Crashes, Still, chains, branchVars
  <2> QED
    BY <2>1, Zenon DEF PegInInv, ChainInv, BranchesTypeOK, MinedInBest, BranchOrder
<1>4. WorkInv' /\ ClassInv' /\ MintsInv' /\ FlightInv'
  BY <1>1, TickKeepsWork, RowsKeepClass, TickKeepsMints, TickKeepsFlight, Zenon DEF PegInInv
<1>5. MemoryInv' /\ ReceiptInv' /\ SeenInv'
  BY <1>1, TickKeepsMemory, TickKeepsReceipts, TickKeepsSeen, Zenon DEF PegInInv
<1>6. NoticedInv' /\ BuriedInv'
  BY <1>1, TickKeepsNoticed, TickKeepsBuried, Zenon DEF PegInInv
<1> QED
  BY <1>1, <1>2, <1>3, <1>4, <1>5, <1>6, Zenon DEF PegInInv

LEMMA ChainKeeps == ASSUME PegInInv, MoveChain PROVE PegInInv' /\ TablesMove
<1>1. /\ ChainStep /\ UNCHANGED <<work, baseline, reorgPending, side>>
      /\ UNCHANGED <<pegIn, mint, hold, incidents, externalHold, attempt>> /\ UNCHANGED pegInVars
  BY Zenon DEF MoveChain, Daemon, memory, pegInVars, pegInTables, journal
<1>2. TablesMove
  BY <1>1, Zenon DEF TablesMove
<1>3. TablesInv'
  BY <1>2, TablesStep, Zenon DEF PegInInv, TablesMove
<1>4. ChainInv' /\ BranchOrder'
  BY <1>1, StepKeeps, StepKeepsOrder, Zenon DEF PegInInv
<1>5. WorkInv' /\ ClassInv' /\ MintsInv'
  <2>1. WorkInv' /\ ClassInv'
    BY <1>1, Zenon DEF PegInInv, WorkInv, ClassInv, Known, HasReceipt, IsIn
  <2>2. MintsInv'
    BY <1>1, Zenon DEF PegInInv, MintsInv
  <2> QED
    BY <2>1, <2>2, Zenon
<1>6. FlightInv'
  BY <1>1, Zenon DEF PegInInv, FlightInv, InFlight, Selecting, Conclusive, IsIn
<1>7. MemoryInv' /\ ReceiptInv' /\ SeenInv'
  BY <1>1, ChainKeepsMemory, ChainKeepsReceipts, ChainKeepsSeen, Zenon DEF PegInInv
<1>8. NoticedInv' /\ BuriedInv'
  BY <1>1, ChainKeepsNoticed, ChainKeepsBuried, Zenon DEF PegInInv
<1> QED
  BY <1>2, <1>3, <1>4, <1>5, <1>6, <1>7, <1>8, Zenon DEF PegInInv

LEMMA MintKeepsInv == ASSUME PegInInv, NEW p \in PegIns, MoveMint(p) PROVE PegInInv' /\ TablesMove
<1>1. UNCHANGED <<branchVars, highest, deepest, Daemon>>
  BY Zenon DEF MoveMint
<1>2. MintsInv'
  BY MoveMintKeepsMints, Zenon DEF PegInInv
<1>3. BesideMints
  BY Zenon DEF PegInInv, BesideMints
<1>4. BesideMints' /\ TablesMove
  BY <1>1, <1>3, AsideKeeps, Zenon
<1> QED
  BY <1>2, <1>4, Zenon DEF PegInInv, BesideMints

\* Each step is one of the daemon at a row, one of its tick, or one of a chain.
LEMMA EveryStep ==
    ASSUME PegInInv, Next
    PROVE  VisitStep \/ TickStep \/ MoveChain \/ \E p \in PegIns : MoveMint(p)
<1>1. Ticking => work.tip \in Blocks
  BY Zenon DEF PegInInv, MemoryInv, WasBest
<1>2. CASE \/ Visit /\ ~TakeJob
           \/ IncidentNotPersisted
           \/ ReadFails /\ work.place # "recollect"
  BY <1>1, <1>2, EveryVisit, Zenon DEF PegInInv
<1>3. CASE \/ Start \/ Tick \/ TakeJob \/ EndTickEarly \/ Crash
           \/ ReadFails /\ work.place = "recollect"
  BY <1>3, EveryTick, Zenon DEF PegInInv
<1> QED
  BY <1>2, <1>3, Zenon DEF Next, Fault

LEMMA PegInStep == ASSUME PegInInv, [Next]_vars PROVE PegInInv' /\ TablesMove
<1>1. CASE UNCHANGED vars
  <2>1. UNCHANGED <<branchVars, highest, deepest, Daemon>> /\ UNCHANGED <<side, mint, work>>
    BY <1>1, Zenon DEF vars, chains, Daemon, pegInVars, pegInTables
  <2>2. BesideMints' /\ TablesMove
    BY <2>1, AsideKeeps, Zenon DEF PegInInv, BesideMints
  <2>3. MintsInv'
    BY <2>1, Zenon DEF PegInInv, MintsInv
  <2> QED
    BY <2>2, <2>3, Zenon DEF PegInInv, BesideMints
<1>2. CASE Next
  BY <1>2, EveryStep, VisitKeeps, TickKeeps, ChainKeeps, MintKeepsInv, Zenon
<1> QED
  BY <1>1, <1>2, Zenon

-----------------------------------------------------------------------------
(* Where it begins. *)

\* What an earlier release may have left of a peg-in.
LEMMA LeftRow ==
    ASSUME NEW l \in Left
    PROVE  /\ l.row \in PegInRows \cup {NoPegIn} /\ l.attempt \in Rows \cup {NoRow}
           /\ l.row # NoPegIn =>
                 /\ l.row.status \in Pending \cup Submitted
                 /\ l.row.receipt # Unconfirmed =>
                       /\ l.row.receipt = InitialBlock(2) /\ l.row.class = ActiveClass
                       /\ l.row.commit /\ l.row.status # "consume_submitted"
                       /\ l.attempt # NoRow => l.attempt.status = "confirmed" /\ l.attempt.block = l.row.receipt
                 /\ l.row.class # ActiveClass => l.row.receipt = Unconfirmed
<1>1. PICK k \in Kinds, s \in Retained :
             l \in [kind : {k}, row : RowsLeft(k, s), attempt : UNION {AttemptsLeft(r) : r \in RowsLeft(k, s)},
                    mint : UNION {MintsLeft(r) : r \in RowsLeft(k, s)}]
  <2> DEFINE F(k, s) == [kind : {k}, row : RowsLeft(k, s),
                         attempt : UNION {AttemptsLeft(r) : r \in RowsLeft(k, s)},
                         mint : UNION {MintsLeft(r) : r \in RowsLeft(k, s)}]
  <2>1. l \in UNION {F(k, s) : k \in Kinds, s \in Retained}
    BY DEF Left
  <2> HIDE DEF F
  <2>2. \E k \in Kinds, s \in Retained : l \in F(k, s)
    BY <2>1
  <2> QED
    BY <2>2, Zenon DEF F
<1>2. /\ l.kind = k /\ l.row \in RowsLeft(k, s) /\ l.attempt \in AttemptsLeft(l.row)
  BY <1>1 DEF Left
<1>3. /\ k \in {"exact", "inexact", "legacy"} /\ s \in {"absent"} \cup Pending \cup Submitted
      /\ JournalBlocks = Blocks /\ Heights = 1..MaxHeight /\ Confirms \in Nat \ {0} /\ MaxHeight > Confirms
      /\ MaxHeight \in Nat /\ MaxBranches \in Nat
  BY PegInDaemonAssumption, BranchesAssumption, Zenon DEF PegInKinds
<1>4. InitialBlock(2) \in Blocks /\ 1 \in Heights
  BY <1>3 DEF InitialBlock, Blocks
<1>5. CASE s = "absent"
  BY <1>2, <1>5, Zenon DEF RowsLeft, AttemptsLeft
<1>6. CASE s # "absent"
  <2> DEFINE cs == {k # "legacy" /\ s # "detected"}
             rs == IF k # "exact" \/ s \in {"detected", "consume_submitted"} THEN {Unconfirmed}
                   ELSE {InitialBlock(2), Unconfirmed}
  <2>1. l.row \in [status : {s}, class : ClassesLeft(k), hash : {FALSE}, commit : cs, receipt : rs]
    BY <1>2, <1>6, Zenon DEF RowsLeft
  <2>2. rs \subseteq Blocks \cup {Unconfirmed} /\ cs \subseteq BOOLEAN
    BY <1>4, Zenon
  <2>3. /\ ClassesLeft(k) \subseteq Classes
        /\ k # "legacy" => ClassesLeft(k) = {ActiveClass}
        /\ k = "legacy" => ActiveClass \notin ClassesLeft(k)
    BY Zenon DEF ClassesLeft, ClassOf, ActiveClass, Classes, LegacyClasses
  <2>4. l.row \in PegInRows /\ l.row # NoPegIn
    <3> HIDE DEF cs, rs
    <3>1. l.row \in PegInRows
      BY <1>3, <1>6, <2>1, <2>2, <2>3, Zenon DEF PegInRows
    <3>2. l.row.status = s
      BY <2>1, Zenon
    <3> QED
      BY <1>6, <3>1, <3>2 DEF NoPegIn
  <2>5. /\ l.row.status = s /\ l.row.class \in ClassesLeft(k) /\ l.row.receipt \in rs /\ l.row.commit \in cs
    <3> HIDE DEF cs, rs
    <3> QED
      BY <2>1, Zenon
  <2>6. s \in Pending \cup Submitted
    BY <1>3, <1>6, Zenon
  <2>7. /\ l.attempt \in Rows \cup {NoRow}
        /\ l.row.receipt # Unconfirmed /\ l.attempt # NoRow =>
              l.attempt.status = "confirmed" /\ l.attempt.block = l.row.receipt
    <3>1. l.attempt = NoRow \/
             l.attempt \in [status : {IF l.row.receipt = Unconfirmed THEN "accepted" ELSE "confirmed"},
                            disposition : {"accepted"}, block : {l.row.receipt}, at : {1}]
      BY <1>2, Zenon DEF AttemptsLeft
    <3>2. l.row.receipt \in JournalBlocks \cup {Unconfirmed}
      BY <1>3, <2>2, <2>5, Zenon
    <3> QED
      BY <1>4, <3>1, <3>2, Zenon DEF Rows, Statuses
  <2>8. l.row.receipt # Unconfirmed => l.row.receipt = InitialBlock(2) /\ k = "exact" /\ s # "detected" /\ s # "consume_submitted"
    BY <2>5, Zenon
  <2>9. k = "exact" /\ s # "detected" => l.row.commit
    <3>1. l.row.commit = (k # "legacy" /\ s # "detected")
      BY <2>5, Zenon
    <3> QED
      BY <3>1, Zenon
  <2>10. l.row.class # ActiveClass => l.row.receipt = Unconfirmed
    <3> HIDE DEF cs, rs
    <3>1. k = "legacy" => l.row.receipt = Unconfirmed
      BY <2>8, Zenon
    <3>2. k # "legacy" => l.row.class = ActiveClass
      BY <2>3, <2>5, Zenon
    <3> QED
      BY <3>1, <3>2, Zenon
  <2> HIDE DEF cs, rs
  <2> QED
    BY <1>3, <2>3, <2>4, <2>5, <2>6, <2>7, <2>8, <2>9, <2>10, Zenon
<1> QED
  BY <1>5, <1>6, Zenon

LEMMA LeftMint ==
    ASSUME NEW l \in Left
    PROVE  /\ l.mint \in MintRows /\ SideOf(l.row, l.mint) \in Mints
           /\ SideOf(l.row, l.mint).deep => SideOf(l.row, l.mint).block > 0
           /\ SideOf(l.row, l.mint).block <= SideOf(l.row, l.mint).mined
           /\ l.mint.evidence <= SideOf(l.row, l.mint).mined
<1>1. l.mint \in MintsLeft(l.row)
  BY DEF Left
<1>2. MintBlocks = 1..MaxMints /\ MaxMints \in Nat \ {0}
  BY PegInDaemonAssumption, Zenon
<1>3. l.mint \in {NoMint, [status |-> "pending", evidence |-> NoMintBlock], MintedIn("accepted"), MintedIn("confirmed")}
  BY <1>1, Zenon DEF MintsLeft, NoMint
<1>4. l.mint \in MintRows /\ l.mint.evidence \in {0, 1}
  BY <1>2, <1>3 DEF MintRows, NoMint, MintedIn, LiveMint, NoMintBlock
<1> DEFINE block == IF l.row.status = "minted" \/ l.mint.evidence # NoMintBlock THEN 1 ELSE 0
<1>5. block \in 0..MaxMints /\ block \in {0, 1} /\ l.mint.evidence <= block
  BY <1>2, <1>4 DEF NoMintBlock
<1>6. SideOf(l.row, l.mint) = [sent |-> l.row.status \in Submitted, block |-> block, mined |-> block,
                               deep |-> block > 0, expired |-> FALSE]
  BY Zenon DEF SideOf
<1> HIDE DEF block
<1>7. SideOf(l.row, l.mint) \in Mints
  BY <1>5, <1>6 DEF Mints
<1>8. /\ SideOf(l.row, l.mint).block = block /\ SideOf(l.row, l.mint).mined = block
      /\ SideOf(l.row, l.mint).deep = (block > 0)
  BY <1>6
<1>9. block <= block
  BY <1>5
<1>10. SideOf(l.row, l.mint).deep => SideOf(l.row, l.mint).block > 0
  BY <1>8, Zenon
<1> QED
  BY <1>4, <1>5, <1>7, <1>8, <1>9, <1>10, Zenon

LEMMA InitChain == ASSUME Init PROVE ChainInv /\ BranchOrder
<1>1. PICK n \in Nat : n = Confirms + 1 /\ n \in 1..MaxHeight /\ n >= 2
  BY PegInDaemonAssumption, BranchesAssumption
<1>2. best = [h \in 1..n |-> 0] /\ branches = 0
  BY <1>1, Zenon DEF Init
<1>3. MaxBranches \in Nat /\ MaxHeight \in Nat
  BY BranchesAssumption, Zenon
<1>4. best \in Seq(0..MaxBranches) /\ Len(best) = n /\ \A h \in 1..n : best[h] = 0
  BY <1>1, <1>2, <1>3
<1>5. minedAt \in [ChainTxs -> {0, 1, 2}] /\ sent \subseteq ChainTxs
  BY DEF Init
<1>6. BranchesTypeOK
  BY <1>1, <1>2, <1>3, <1>4, <1>5 DEF BranchesTypeOK
<1>7. MinedInBest
  BY <1>1, <1>4, <1>5 DEF MinedInBest
<1>8. BranchOrder
  BY <1>1, <1>2, <1>4 DEF BranchOrder
<1> QED
  BY <1>6, <1>7, <1>8, Zenon DEF ChainInv

LEMMA InitInv == Init => PegInInv
<1> SUFFICES ASSUME Init PROVE PegInInv
  BY Zenon
<1>1. PICK left \in [PegIns -> Left] :
          /\ pegIn = [p \in PegIns |-> left[p].row]
          /\ attempt = [t \in Txs |-> IF \E p \in PegIns : CommitOf[p] = t
                                      THEN left[CHOOSE p \in PegIns : CommitOf[p] = t].attempt
                                      ELSE NoRow]
          /\ mint = [p \in PegIns |-> left[p].mint]
          /\ side = [p \in PegIns |-> SideOf(left[p].row, left[p].mint)]
          /\ minedAt = [t \in ChainTxs |->
                IF \E p \in {p \in PegIns : left[p].row # NoPegIn /\ left[p].row.commit} :
                      t = CommitOf[p] /\ ~IsIn(p, {"consume_submitted"}) THEN 2
                ELSE IF \E p \in PegIns : t = LockOf[p] THEN 1 ELSE 0]
  BY Zenon DEF Init
<1>2. /\ hold = [p \in PegIns |-> "none"] /\ incidents = {} /\ externalHold = FALSE
      /\ reorgPending = TRUE /\ work = Down /\ highest = Confirms + 1 /\ deepest = 0
      /\ best = [h \in 1..(Confirms + 1) |-> 0] /\ branches = 0
  BY Zenon DEF Init
<1>3. ASSUME NEW p \in PegIns
      PROVE  /\ pegIn[p] = left[p].row /\ left[p] \in Left /\ mint[p] = left[p].mint
             /\ attempt[CommitOf[p]] = left[p].attempt
             /\ side[p] = SideOf(left[p].row, left[p].mint)
  <2>1. CommitOf[p] \in Txs /\ (CHOOSE q \in PegIns : CommitOf[q] = CommitOf[p]) = p
    BY PegInsAssumption, Zenon
  <2> QED
    BY <1>1, <2>1, Zenon
<1>4. ASSUME NEW p \in PegIns, Known(p)
      PROVE  /\ pegIn[p] \in PegInRows /\ IsIn(p, Pending \cup Submitted)
             /\ HasReceipt(p) =>
                   /\ pegIn[p].receipt = InitialBlock(2) /\ minedAt[CommitOf[p]] = 2
                   /\ attempt[CommitOf[p]] # NoRow =>
                         attempt[CommitOf[p]].status = "confirmed" /\ attempt[CommitOf[p]].block = pegIn[p].receipt
             /\ pegIn[p].class # ActiveClass => ~HasReceipt(p)
  <2>1. PICK l \in Left : l = left[p] /\ pegIn[p] = l.row /\ attempt[CommitOf[p]] = l.attempt
    BY <1>3, Zenon
  <2>2. l.row # NoPegIn
    BY <1>4, <2>1, Zenon DEF Known
  <2>3. /\ l.row \in PegInRows /\ l.row.status \in Pending \cup Submitted
        /\ l.row.receipt # Unconfirmed =>
              /\ l.row.receipt = InitialBlock(2) /\ l.row.commit /\ l.row.status # "consume_submitted"
              /\ l.attempt # NoRow => l.attempt.status = "confirmed" /\ l.attempt.block = l.row.receipt
        /\ l.row.class # ActiveClass => l.row.receipt = Unconfirmed
    BY <2>2, LeftRow, Zenon
  <2>4. l.row.commit /\ l.row.status # "consume_submitted" => minedAt[CommitOf[p]] = 2
    BY <1>1, <2>1, <2>2, CommitTx, Zenon DEF IsIn
  <2> QED
    BY <2>1, <2>3, <2>4, Zenon DEF IsIn, HasReceipt
<1>5. TablesInv
  <2>1. attempt \in [Txs -> Rows \cup {NoRow}]
    <3>1. ASSUME NEW t \in Txs PROVE attempt[t] \in Rows \cup {NoRow}
      <4>1. CASE \E p \in PegIns : CommitOf[p] = t
        <5>1. PICK p \in PegIns : CommitOf[p] = t
          BY <4>1, Zenon
        <5> QED
          BY <1>3, <5>1, LeftRow, Zenon
      <4>2. CASE ~\E p \in PegIns : CommitOf[p] = t
        BY <1>1, <4>2, Zenon
      <4> QED
        BY <4>1, <4>2, Zenon
    <3> QED
      BY <1>1, <3>1, Zenon
  <2>2. pegIn \in [PegIns -> PegInRows \cup {NoPegIn}] /\ mint \in [PegIns -> MintRows]
    BY <1>1, <1>3, LeftRow, LeftMint, Zenon
  <2>3. \A p \in PegIns : ~IsIn(p, GivenUp)
    BY <1>4 DEF IsIn, Known, NoPegIn, GivenUp, Pending, Submitted
  <2>4. \A p \in PegIns : SafeRow(p)
    BY <2>3, Zenon DEF SafeRow, IsIn, GivenUp
  <2>5. \A p \in PegIns : AgreeingRow(p)
    BY <1>4, Zenon DEF AgreeingRow, Recorded, In
  <2> QED
    BY <1>2, <2>1, <2>2, <2>4, <2>5, Zenon DEF TablesInv, TablesTypeOK
<1>6. ChainInv /\ BranchOrder
  BY InitChain, Zenon
<1>7. /\ work \in Works /\ work.place = "down"
      /\ "down" \notin Passing \cup Visiting \cup {"register", "recollect", "record", "gate"}
  BY <1>2, DownFields, Zenon DEF Passing, Visiting, Reading, Resolving, Classifying
<1>8. WorkInv /\ ClassInv /\ SeenInv
  BY <1>4, <1>7, Zenon DEF WorkInv, ClassInv, SeenInv, Vouching, Visiting, Reading, Resolving, Classifying
<1>9. MintsInv
  BY <1>1, <1>3, <1>7, LeftMint, Zenon DEF MintsInv
<1>10. FlightInv /\ NoticedInv
  BY <1>2, <1>7, Zenon DEF FlightInv, NoticedInv, Selecting
<1>11. MemoryInv
  BY <1>7, Zenon DEF MemoryInv, Ticking
<1>12. /\ Confirms \in Nat \ {0} /\ MaxHeight \in Nat /\ MaxHeight > Confirms /\ MaxBranches \in Nat
  BY PegInDaemonAssumption, BranchesAssumption, Zenon
<1>13. InitialBlock(2) \in Blocks /\ Canonical(InitialBlock(2)) /\ InitialBlock(2).height = 2
  BY <1>2, <1>12 DEF InitialBlock, Blocks, Canonical
<1>14. ReceiptInv
  <2>1. WasBest(InitialBlock(2))
    BY <1>6, <1>13, CanonicalWasBest, Zenon
  <2> QED
    BY <1>4, <1>7, <2>1, Zenon DEF ReceiptInv, Ticking
<1>15. BuriedInv
  <2>1. Len(best) = Confirms + 1
    BY <1>2, <1>12
  <2>2. ~Ticking /\ work.place \notin (Reading \ {"tx"}) \cup Resolving
    BY <1>7, Zenon DEF Ticking, Visiting
  <2>3. ASSUME NEW p \in PegIns, Known(p), HasReceipt(p)
        PROVE  Holds(pegIn[p].receipt, CommitOf[p]) /\ pegIn[p].receipt.height + Confirms <= highest + 1
    BY <1>2, <1>4, <1>12, <1>13, <2>3 DEF Holds
  <2> QED
    BY <1>2, <1>12, <2>1, <2>2, <2>3 DEF BuriedInv
<1> QED
  BY <1>5, <1>6, <1>8, <1>9, <1>10, <1>11, <1>14, <1>15, Zenon DEF PegInInv

-----------------------------------------------------------------------------
(* What holds of the daemon. *)

LEMMA InvKept == PegInInv /\ [Next]_vars => PegInInv'
  BY PegInStep, Zenon

\* The work, the tables, the chains and the daemon's memory stay in step: the
\* invariant the theorems below are read off.
THEOREM PegInInvariant == Spec => []PegInInv
  BY InitInv, InvKept, PTL DEF Spec

\* Every step of the daemon does one journal operation to the tables, or none.
THEOREM DaemonImplementsPegInJournal == Spec => ImplementsPegInJournal
<1>1. PegInInv /\ [Next]_vars => [PegInJournalNext]_pegInVars
  BY PegInStep, Zenon DEF TablesMove
<1> QED
  BY <1>1, InitInv, InvKept, PTL DEF Spec, ImplementsPegInJournal

\* An incident has its record and the hold on the release of funds, and a row
\* that was given up no transport that could still act for it.
THEOREM GivenUpSafelyHolds == Spec => []GivenUpSafely
<1>1. PegInInv => GivenUpSafely
  BY TablesPromise, Zenon DEF PegInInv
<1> QED
  BY <1>1, PegInInvariant, PTL

\* The receipt of a row and the operational attempt of its commitment name the
\* same block.
THEOREM ReceiptAgreesWithAttemptHolds == Spec => []ReceiptAgreesWithAttempt
<1>1. PegInInv => ReceiptAgreesWithAttempt
  BY TablesPromise, Zenon DEF PegInInv
<1> QED
  BY <1>1, PegInInvariant, PTL

\* No row of the active contract whose mint may still be in flight is put under a
\* hold.
THEOREM InFlightNeverHeldHolds == Spec => []InFlightNeverHeld
<1>1. PegInInv => InFlightNeverHeld
  BY Zenon DEF PegInInv, FlightInv, InFlightNeverHeld
<1> QED
  BY <1>1, PegInInvariant, PTL

\* A displaced commitment behind a submitted mint never goes unnoticed: either a
\* reconciliation is due, or the baseline is displaced as well.
THEOREM DisplacementNoticedHolds == Spec => []DisplacementNoticed
<1>1. PegInInv => DisplacementNoticed
  BY Zenon DEF PegInInv, NoticedInv, DisplacementNoticed, AtRisk, Holds, InItsReceipt
<1> QED
  BY <1>1, PegInInvariant, PTL

\* While no reorganisation reaches as deep as the confirmations asked for, a
\* commitment is in the block of its receipt.
THEOREM ReceiptBuriedHolds == Spec => []ReceiptBuried
<1>1. PegInInv => ReceiptBuried
  BY Zenon DEF PegInInv, BuriedInv, ReceiptBuried, Holds, InItsReceipt
<1> QED
  BY <1>1, PegInInvariant, PTL

\* An attempt to mint is abandoned only after its window if it was live, and only
\* once its block is gone if it was mined.
THEOREM MintAbandonedOnlyIfGoneHolds == Spec => MintAbandonedOnlyIfGone
<1>1. PegInInv /\ [Next]_vars
      => [\A p \in PegIns : mint[p].status # "abandoned" /\ mint'[p].status = "abandoned" =>
            /\ mint[p].status \in LiveMint => side[p].expired
            /\ mint[p].evidence # NoMintBlock => side[p].block # mint[p].evidence]_vars
  <2> SUFFICES ASSUME PegInInv, Next
               PROVE  \A p \in PegIns : mint[p].status # "abandoned" /\ mint'[p].status = "abandoned" => MintGone(p)
    BY Zenon DEF MintGone
  <2>1. CASE VisitStep \/ TickStep
    BY <2>1, VisitKeeps, TickKeeps, Zenon DEF AllRows, RowEffect
  <2>2. CASE MoveChain \/ \E p \in PegIns : MoveMint(p)
    <3>1. UNCHANGED mint
      BY <2>2, Zenon DEF MoveChain, MoveMint, Daemon, pegInVars, pegInTables
    <3> QED
      BY <3>1, Zenon
  <2> QED
    BY <2>1, <2>2, EveryStep, Zenon
<1> QED
  BY <1>1, InitInv, InvKept, PTL DEF Spec, MintAbandonedOnlyIfGone
=============================================================================
