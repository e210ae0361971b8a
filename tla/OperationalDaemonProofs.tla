----------------------- MODULE OperationalDaemonProofs ------------------------
(***************************************************************************)
(* Proofs about the daemon that reconciles operational transactions: it only *)
(* uses the journal as the journal allows, and its scan after a              *)
(* reorganisation never meets a confirmed heartbeat without its key.  They   *)
(* hold for every chain bound, finality depth and number of failures.        *)
(***************************************************************************)
EXTENDS OperationalReorg, JournalChainProofs

\* What the daemon's places say of the rows it still has to look at.
TickInv ==
    /\ tick.place \in {"scan", "scan header", "scan absent"} =>
          tick.todo \subseteq {t \in Txs : In(t, {"confirmed"})}
    /\ tick.place \in {"scan header", "scan absent"} => tick.tx \in tick.todo
    /\ tick.place \in {"pass", "header", "absent", "source"} => tick.todo \subseteq Txs
    /\ tick.place \in {"header", "source"} => tick.tx \in Txs

DaemonInv == JournalInv /\ ChainInv /\ DaemonTypeOK /\ TickInv /\ NoneQuarantined

-----------------------------------------------------------------------------
(* The records the daemon goes through. *)

LEMMA DownType == Down \in Ticks
  BY BranchesAssumption DEF Down, Ticks, Places, Superseding

LEMMA IdleType ==
    /\ [Down EXCEPT !.place = "idle"] \in Ticks
    /\ [Down EXCEPT !.place = "idle"].place = "idle"
  BY DownType, Zenon DEF Ticks, Places

LEMMA HandlerType ==
    ASSUME NEW tip \in Blocks \cup {NoBlock}, NEW next \in {"idle", "pass"}
    PROVE  /\ Handler(tip, next) \in Ticks
           /\ Handler(tip, next).place = "scan"
           /\ Handler(tip, next).todo \subseteq {t \in Txs : In(t, {"confirmed"})}
<1>1. {t \in Txs : In(t, {"confirmed"}) /\ ProfileOf[t] \in Superseding} \in SUBSET ChainTxs
  BY DaemonAssumption, Zenon
<1> QED
  BY <1>1, DownType, Zenon DEF Handler, Down, Ticks, Places

LEMMA PassType ==
    ASSUME tick \in Ticks, NEW profile \in Superseding
    PROVE  /\ Pass(profile) \in Ticks
           /\ Pass(profile).place = "pass"
           /\ Pass(profile).todo \subseteq Txs
<1>1. {t \in Txs : In(t, Reconcilable) /\ ProfileOf[t] = profile} \in SUBSET ChainTxs
  BY DaemonAssumption, Zenon
<1> QED
  BY <1>1, DownType, Zenon DEF Pass, Down, Ticks, Places

LEMMA ScannedType ==
    ASSUME tick \in Ticks, NEW t
    PROVE  /\ Scanned(t) \in Ticks
           /\ Scanned(t).place = "scan"
           /\ Scanned(t).todo = tick.todo \ {t}
  BY Zenon DEF Scanned, Ticks, Places

LEMMA PurgedType ==
    ASSUME tick \in Ticks, NEW k
    PROVE  Purged(k) \in Ticks /\ Purged(k).place = "purge"
  BY Zenon DEF Purged, Ticks, Places

LEMMA PassedType ==
    ASSUME tick \in Ticks, NEW t, NEW held \in BOOLEAN
    PROVE  /\ Passed(t, held) \in Ticks
           /\ Passed(t, held).place \in {"pass", "absent"}
           /\ Passed(t, held).todo = tick.todo \ {t}
<1> DEFINE flag == tick.inFlight \/ held
           place == IF t \in tick.todo THEN "pass" ELSE "absent"
<1>1. flag \in BOOLEAN
  BY Zenon DEF Ticks
<1>2. place \in {"pass", "absent"}
  BY Zenon
<1>3. Passed(t, held) =
        [tick EXCEPT !.place = place, !.todo = tick.todo \ {t}, !.absent = tick.absent \ {t},
                     !.tx = NoTx, !.inFlight = flag]
  BY Zenon DEF Passed
<1>4. place \in Places /\ tick.todo \ {t} \in SUBSET ChainTxs /\ tick.absent \ {t} \in SUBSET Txs
  BY Zenon DEF Places, Ticks
<1> HIDE DEF flag, place
<1>5. Passed(t, held) \in Ticks
  BY <1>1, <1>3, <1>4, Zenon DEF Ticks
<1>6. Passed(t, held).place = place /\ Passed(t, held).todo = tick.todo \ {t}
  BY <1>3, Zenon DEF Ticks
<1> QED
  BY <1>2, <1>5, <1>6, Zenon

LEMMA SeenType ==
    ASSUME ChainInv, NEW t \in ChainTxs, Mined(t)
    PROVE  Seen(t) \in [height : 0..MaxHeight, confirmations : 0..MaxHeight]
<1>1. minedAt[t] \in 1..Len(best) /\ Len(best) \in 1..MaxHeight
  BY BranchesAssumption DEF ChainInv, BranchesTypeOK, MinedInBest, Mined
<1>2. Len(best) - minedAt[t] + 1 \in 0..MaxHeight /\ minedAt[t] \in 0..MaxHeight
  BY <1>1, BranchesAssumption
<1> QED
  BY <1>2, Zenon DEF Seen, Confirmations

LEMMA ReadHeaderType ==
    ASSUME tick \in Ticks, ChainInv, NEW t \in ChainTxs, Mined(t)
    PROVE  /\ ReadHeader(t) \in Ticks
           /\ ReadHeader(t).place = "header"
           /\ ReadHeader(t).todo = tick.todo
           /\ ReadHeader(t).tx = t
  BY SeenType, Zenon DEF ReadHeader, Ticks, Places

-----------------------------------------------------------------------------
(* What a step on one row leaves alone in the others. *)

LEMMA ConfirmedRow ==
    ASSUME JournalInv, NEW t \in Txs, In(t, {"confirmed"})
    PROVE  attempt[t] \in Rows /\ attempt \in [Txs -> Rows \cup {NoRow}]
  BY DEF In, JournalInv, JournalTypeOK, NoRow

LEMMA SupersedingRows ==
    ASSUME JournalInv, NEW t \in Txs, Recorded(t), NEW S \in SUBSET Txs,
           \A u \in S : In(u, Active) /\ u # t,
           NEW st, NEW b,
           attempt' = [Abandoned(S) EXCEPT ![t].status = st, ![t].block = b],
           NEW u \in Txs
    PROVE  /\ u # t /\ In(u, {"confirmed"}) => (In(u, {"confirmed"}))'
           /\ u # t /\ (In(u, {"quarantined"}))' => In(u, {"quarantined"})
           /\ attempt'[t].status = st
<1>1. /\ Abandoned(S) \in [Txs -> Rows \cup {NoRow}]
      /\ \A v \in Txs \ S : Abandoned(S)[v] = attempt[v]
      /\ \A v \in S : Abandoned(S)[v].status = "abandoned"
  BY AbandonedRows, Zenon DEF JournalInv, JournalTypeOK
<1>2. attempt[t] \in Rows /\ Abandoned(S)[t] = attempt[t]
  BY <1>1, Zenon DEF JournalInv, JournalTypeOK, Recorded
<1>3. attempt'[t].status = st
  BY <1>1, <1>2, Zenon DEF Rows
<1>4. u # t => attempt'[u] = Abandoned(S)[u]
  BY <1>1, Zenon
<1> QED
  BY <1>1, <1>3, <1>4, Zenon DEF In, Active

LEMMA ReopenRows ==
    ASSUME JournalInv, NEW t \in Txs, Reopen(t), NEW u \in Txs
    PROVE  /\ u # t /\ In(u, {"confirmed"}) => (In(u, {"confirmed"}))'
           /\ (In(u, {"quarantined"}))' => In(u, {"quarantined"})
<1> DEFINE S == MakeWay(t)
<1>1. S \in SUBSET Txs /\ \A v \in S : In(v, Active) /\ v # t
  BY Zenon DEF MakeWay, Rivals, SameProfile
<1>2. attempt[t] \in Rows /\ Recorded(t)
  BY DEF Reopen, In, JournalInv, JournalTypeOK, NoRow, Recorded
<1>3. StatusBefore(t) # "quarantined"
  BY <1>2, Zenon DEF StatusBefore, Rows
<1>4. attempt' = [Abandoned(S) EXCEPT ![t].status = StatusBefore(t), ![t].block = Unconfirmed]
  BY Zenon DEF Reopen
<1> HIDE DEF S
<1>5. /\ u # t /\ In(u, {"confirmed"}) => (In(u, {"confirmed"}))'
      /\ u # t /\ (In(u, {"quarantined"}))' => In(u, {"quarantined"})
      /\ attempt'[t].status = StatusBefore(t)
  BY <1>1, <1>2, <1>4, SupersedingRows, Zenon
<1> QED
  BY <1>3, <1>5, Zenon DEF In

LEMMA ConfirmRows ==
    ASSUME JournalInv, NEW t \in Txs, NEW b, Confirm(t, b), NEW u \in Txs
    PROVE  (In(u, {"quarantined"}))' => In(u, {"quarantined"})
<1>1. Recorded(t)
  BY DEF Confirm, In, Reconcilable, Active, NoRow, Recorded
<1>2. Rivals(t) \in SUBSET Txs /\ \A v \in Rivals(t) : In(v, Active) /\ v # t
  BY Zenon DEF Rivals, SameProfile
<1>3. attempt' = [Abandoned(Rivals(t)) EXCEPT ![t].status = "confirmed", ![t].block = b]
  BY Zenon DEF Confirm
<1>4. /\ u # t /\ (In(u, {"quarantined"}))' => In(u, {"quarantined"})
      /\ attempt'[t].status = "confirmed"
  BY <1>1, <1>2, <1>3, SupersedingRows, Zenon
<1> QED
  BY <1>4, Zenon DEF In

-----------------------------------------------------------------------------
(* The steps of the daemon. *)

\* What has to be shown of a step.
Keeps == [JournalNext]_journal /\ DaemonTypeOK' /\ TickInv' /\ NoneQuarantined'

\* A step that leaves the tables alone.
LEMMA QuietStep ==
    ASSUME DaemonInv, UNCHANGED <<journal, phase1, execution>>, crashes' \in 0..MaxCrashes,
           baseline' \in Blocks \cup {NoBlock}, tick' \in Ticks, TickInv'
    PROVE  Keeps
  BY Zenon DEF DaemonInv, Keeps, DaemonTypeOK, NoneQuarantined, In, journal

LEMMA TipType ==
    ASSUME ChainInv PROVE Tip \in Blocks
<1>1. Len(best) \in DOMAIN best
  BY BranchesAssumption DEF ChainInv, BranchesTypeOK
<1> QED
  BY <1>1, BlockAtType, Zenon DEF Tip, ChainInv

LEMMA StartKeeps == ASSUME DaemonInv, Start PROVE Keeps
<1>1. /\ tick' \in Ticks /\ tick'.place = "scan"
      /\ tick'.todo \subseteq {t \in Txs : In(t, {"confirmed"})}
  BY TipType, HandlerType, Zenon DEF Start, DaemonInv
<1>2. TickInv'
  BY <1>1, Zenon DEF Start, journal, TickInv, In
<1> QED
  BY <1>1, <1>2, TipType, QuietStep, Zenon DEF Start, Unmoved, DaemonInv, DaemonTypeOK

LEMMA BeginTickKeeps == ASSUME DaemonInv, BeginTick PROVE Keeps
<1>1. Tip \in Blocks
  BY TipType, Zenon DEF DaemonInv
<1>2. tick' \in Ticks /\ tick'.place = "detect"
  BY <1>1, DownType, Zenon DEF BeginTick, Ticks, Places
<1>3. TickInv'
  BY <1>2, Zenon DEF TickInv
<1> QED
  BY <1>2, <1>3, QuietStep, Zenon DEF BeginTick, Unmoved, DaemonInv, DaemonTypeOK

LEMMA DetectKeeps == ASSUME DaemonInv, Detect PROVE Keeps
<1>1. tick \in Ticks /\ tick.tip \in Blocks \cup {NoBlock}
  BY Zenon DEF DaemonInv, DaemonTypeOK, Ticks
<1>2. CASE DetectReorg
  <2>1. /\ tick' \in Ticks /\ tick'.place = "scan"
        /\ tick'.todo \subseteq {t \in Txs : In(t, {"confirmed"})}
    BY <1>1, <1>2, HandlerType, Zenon DEF DetectReorg
  <2>2. TickInv'
    BY <1>2, <2>1, Zenon DEF DetectReorg, journal, TickInv, In
  <2> QED
    BY <1>2, <2>1, <2>2, QuietStep, Zenon DEF DetectReorg, Unmoved, DaemonInv, DaemonTypeOK
<1>3. CASE DetectNone
  <2>1. tick' \in Ticks /\ tick'.place = "pass" /\ tick'.todo \subseteq Txs
    BY <1>1, <1>3, PassType, Zenon DEF DetectNone, Superseding
  <2>2. TickInv'
    BY <2>1, Zenon DEF TickInv
  <2> QED
    BY <1>1, <1>3, <2>1, <2>2, QuietStep, Zenon DEF DetectNone, Unmoved, DaemonInv, DaemonTypeOK
<1>4. CASE DetectUnavailable
  <2>1. tick' \in Ticks /\ tick'.place = "idle"
    BY <1>4, IdleType, Zenon DEF DetectUnavailable
  <2>2. TickInv'
    BY <2>1, Zenon DEF TickInv
  <2> QED
    BY <1>4, <2>1, <2>2, QuietStep, Zenon DEF DetectUnavailable, Unmoved, DaemonInv, DaemonTypeOK
<1> QED
  BY <1>2, <1>3, <1>4, Zenon DEF Detect

LEMMA QuorumExpiresKeeps == ASSUME DaemonInv, QuorumExpires PROVE Keeps
<1>1. tick' \in Ticks /\ tick'.place = "idle"
  BY IdleType, Zenon DEF QuorumExpires
<1>2. TickInv'
  BY <1>1, Zenon DEF TickInv
<1> QED
  BY <1>1, <1>2, QuietStep, Zenon DEF QuorumExpires, Unmoved, DaemonInv, DaemonTypeOK

\* A scanned row leaves the rows still to be scanned confirmed.
LEMMA ScannedKeeps ==
    ASSUME DaemonInv, tick.place \in {"scan", "scan header", "scan absent"},
           NEW t \in Txs, tick' = Scanned(t), UNCHANGED <<phase1, baseline, execution, crashes>>,
           UNCHANGED journal \/ Reopen(t) \/ (\E b \in Blocks : Rebind(t, b))
    PROVE  Keeps
<1>1. tick \in Ticks /\ tick' \in Ticks /\ tick'.place = "scan" /\ tick'.todo = tick.todo \ {t}
  BY ScannedType, Zenon DEF DaemonInv, DaemonTypeOK
<1>2. /\ \A u \in Txs \ {t} : In(u, {"confirmed"}) => (In(u, {"confirmed"}))'
      /\ \A u \in Txs : (In(u, {"quarantined"}))' => In(u, {"quarantined"})
  <2>1. CASE UNCHANGED journal
    BY <2>1, Zenon DEF journal, In
  <2>2. CASE Reopen(t)
    BY <2>2, ReopenRows, Zenon DEF DaemonInv
  <2>3. CASE \E b \in Blocks : Rebind(t, b)
    <3>1. PICK b \in Blocks : Rebind(t, b)
      BY <2>3, Zenon
    <3>2. attempt[t] \in Rows /\ attempt \in [Txs -> Rows \cup {NoRow}]
      <4>1. In(t, {"confirmed"})
        BY <3>1, Zenon DEF Rebind
      <4> QED
        BY <4>1, ConfirmedRow, Zenon DEF DaemonInv
    <3>3. /\ attempt'[t] = [attempt[t] EXCEPT !.block = b]
          /\ \A u \in Txs \ {t} : attempt'[u] = attempt[u]
      BY <3>1, <3>2, Zenon DEF Rebind
    <3>4. attempt'[t].status = attempt[t].status
      BY <3>2, <3>3, Zenon DEF Rows
    <3> QED
      BY <3>3, <3>4, Zenon DEF In
  <2> QED
    BY <2>1, <2>2, <2>3, Zenon
<1>3. TickInv'
  BY <1>1, <1>2, Zenon DEF TickInv, DaemonInv
<1>4. NoneQuarantined'
  BY <1>2, Zenon DEF DaemonInv, NoneQuarantined
<1>5. [JournalNext]_journal
  BY DaemonAssumption, Zenon DEF JournalNext
<1>6. DaemonTypeOK'
  BY <1>1, Zenon DEF DaemonInv, DaemonTypeOK
<1> QED
  BY <1>3, <1>4, <1>5, <1>6, Zenon DEF Keeps

LEMMA ScanAttemptKeeps == ASSUME DaemonInv, NEW t \in Txs, ScanAttempt(t) PROVE Keeps
<1>1. /\ tick \in Ticks /\ tick.place = "scan" /\ t \in tick.todo
      /\ tick.todo \subseteq {u \in Txs : In(u, {"confirmed"})} /\ In(t, {"confirmed"})
      /\ UNCHANGED <<phase1, baseline, execution, crashes>>
  BY Zenon DEF ScanAttempt, At, Unmoved, DaemonInv, DaemonTypeOK, TickInv
<1>2. ProfileOf[t] = "dup" => t \in avl
  BY <1>1, Zenon DEF DaemonInv, JournalInv, KeysOfConfirmed
<1>3. CASE Reopen(t) /\ tick' = Scanned(t)
  BY <1>1, <1>3, ScannedKeeps, Zenon
<1>4. CASE /\ Mined(t) /\ UNCHANGED journal
           /\ tick' = [tick EXCEPT !.place = "scan header", !.tx = t, !.seen = Seen(t)]
  <2>1. t \in ChainTxs /\ Seen(t) \in [height : 0..MaxHeight, confirmations : 0..MaxHeight]
    BY <1>4, SeenType, DaemonAssumption, Zenon DEF DaemonInv
  <2>2. tick' \in Ticks /\ tick'.place = "scan header" /\ tick'.tx = t /\ tick'.todo = tick.todo
    BY <1>1, <1>4, <2>1, Zenon DEF Ticks, Places
  <2>3. TickInv'
    BY <1>1, <1>4, <2>2, Zenon DEF TickInv, In, journal
  <2> QED
    BY <1>1, <1>4, <2>2, <2>3, QuietStep, Zenon DEF DaemonInv, DaemonTypeOK
<1>5. CASE UNCHANGED journal /\ tick' = [tick EXCEPT !.place = "scan absent", !.tx = t]
  <2>1. tick' \in Ticks /\ tick'.place = "scan absent" /\ tick'.tx = t /\ tick'.todo = tick.todo
    BY <1>1, <1>5, DaemonAssumption, Zenon DEF Ticks, Places
  <2>2. TickInv'
    BY <1>1, <1>5, <2>1, Zenon DEF TickInv, In, journal
  <2> QED
    BY <1>1, <1>5, <2>1, <2>2, QuietStep, Zenon DEF DaemonInv, DaemonTypeOK
<1> QED
  BY <1>2, <1>3, <1>4, <1>5, Zenon DEF ScanAttempt

LEMMA ScanFailsKeeps == ASSUME DaemonInv, NEW t \in Txs, ScanFails(t) PROVE Keeps
  BY ScannedKeeps, Zenon DEF ScanFails, At, Unmoved

LEMMA ScanHeaderKeeps == ASSUME DaemonInv, ScanHeader PROVE Keeps
<1> DEFINE t == tick.tx
<1>1. tick.place = "scan header" /\ t \in Txs /\ tick' = Scanned(t)
      /\ UNCHANGED <<phase1, baseline, execution, crashes>>
  BY Zenon DEF ScanHeader, At, Unmoved, DaemonInv, TickInv
<1>2. UNCHANGED journal \/ Reopen(t) \/ (\E b \in Blocks : Rebind(t, b))
  BY BlockAtType, Zenon DEF ScanHeader, HeaderKnown, DaemonInv, ChainInv
<1> QED
  BY <1>1, <1>2, ScannedKeeps, Zenon

LEMMA ScanAbsentKeeps == ASSUME DaemonInv, ScanAbsent PROVE Keeps
<1> DEFINE t == tick.tx
<1>1. tick.place = "scan absent" /\ t \in Txs /\ tick' = Scanned(t)
      /\ UNCHANGED <<phase1, baseline, execution, crashes>>
  BY Zenon DEF ScanAbsent, At, Unmoved, DaemonInv, TickInv
<1>2. UNCHANGED journal \/ Reopen(t)
  BY Zenon DEF ScanAbsent
<1> QED
  BY <1>1, <1>2, ScannedKeeps, Zenon

LEMMA EndScanKeeps == ASSUME DaemonInv, EndScan PROVE Keeps
<1>1. {k \in LegacyKeys : phase1[k] \in {"phase1_created", "burn_reverted"}} \in SUBSET ChainTxs
  BY DaemonAssumption, Zenon
<1>2. tick' \in Ticks /\ tick'.place = "purge"
  BY <1>1, Zenon DEF EndScan, DaemonInv, DaemonTypeOK, Ticks, Places
<1>3. TickInv'
  BY <1>2, Zenon DEF TickInv
<1> QED
  BY <1>2, <1>3, QuietStep, Zenon DEF EndScan, Unmoved, DaemonInv, DaemonTypeOK

\* The rows of the retired path.
LEMMA PurgeKeyKeeps == ASSUME DaemonInv, NEW k \in LegacyKeys, PurgeKey(k) PROVE Keeps
<1>1. tick \in Ticks /\ UNCHANGED <<phase1, baseline, execution, crashes>>
  BY Zenon DEF PurgeKey, Unmoved, DaemonInv, DaemonTypeOK
<1>2. tick' \in Ticks /\ tick'.place \in {"purge", "purged"}
  <2>1. CASE tick' = Purged(k)
    BY <1>1, <2>1, PurgedType, Zenon
  <2>2. CASE tick' = [tick EXCEPT !.place = "purged", !.tx = k]
    BY <1>1, <2>2, DaemonAssumption, Zenon DEF Ticks, Places
  <2> QED
    BY <2>1, <2>2, Zenon DEF PurgeKey
<1>3. RemoveAvlKey(k) \/ UNCHANGED journal
  BY Zenon DEF PurgeKey
<1>4. attempt' = attempt
  BY <1>3, Zenon DEF RemoveAvlKey, journal
<1>5. TickInv'
  BY <1>2, Zenon DEF TickInv
<1>6. NoneQuarantined'
  BY <1>4, Zenon DEF DaemonInv, NoneQuarantined, In
<1>7. DaemonTypeOK'
  BY <1>1, <1>2, Zenon DEF DaemonInv, DaemonTypeOK
<1> QED
  BY <1>3, <1>5, <1>6, <1>7, Zenon DEF Keeps, JournalNext

LEMMA PurgeFailsKeeps == ASSUME DaemonInv, NEW k \in LegacyKeys, PurgeFails(k) PROVE Keeps
<1>1. tick' \in Ticks /\ tick'.place = "purge"
  BY PurgedType, Zenon DEF PurgeFails, DaemonInv, DaemonTypeOK
<1>2. TickInv'
  BY <1>1, Zenon DEF TickInv
<1> QED
  BY <1>1, <1>2, QuietStep, Zenon DEF PurgeFails, Unmoved, DaemonInv, DaemonTypeOK

LEMMA ResetRowKeeps == ASSUME DaemonInv, ResetRow PROVE Keeps
<1>1. tick' \in Ticks /\ tick'.place = "purge"
  BY PurgedType, Zenon DEF ResetRow, DaemonInv, DaemonTypeOK
<1>2. TickInv'
  BY <1>1, Zenon DEF TickInv
<1>3. DaemonTypeOK'
  BY <1>1, Zenon DEF ResetRow, Unmoved, DaemonInv, DaemonTypeOK
<1>4. NoneQuarantined'
  BY Zenon DEF ResetRow, journal, DaemonInv, NoneQuarantined, In
<1> QED
  BY <1>2, <1>3, <1>4, Zenon DEF Keeps, ResetRow

LEMMA EndHandlerKeeps == ASSUME DaemonInv, EndHandler PROVE Keeps
<1>1. tick \in Ticks /\ tick.tip \in Blocks \cup {NoBlock}
  BY Zenon DEF DaemonInv, DaemonTypeOK, Ticks
<1>2. tick' \in Ticks /\ (tick'.place = "idle" \/ (tick'.place = "pass" /\ tick'.todo \subseteq Txs))
  BY <1>1, PassType, IdleType, Zenon DEF EndHandler, Superseding
<1>3. TickInv'
  BY <1>2, Zenon DEF TickInv
<1> QED
  BY <1>1, <1>2, <1>3, QuietStep, Zenon DEF EndHandler, Unmoved, DaemonInv, DaemonTypeOK

LEMMA RevertBurnKeeps == ASSUME DaemonInv, NEW k \in LegacyKeys, RevertBurn(k) PROVE Keeps
<1>1. DaemonTypeOK'
  BY Zenon DEF RevertBurn, Unmoved, DaemonInv, DaemonTypeOK
<1>2. TickInv' /\ NoneQuarantined'
  BY Zenon DEF RevertBurn, journal, DaemonInv, TickInv, NoneQuarantined, In
<1> QED
  BY <1>1, <1>2, Zenon DEF Keeps, RevertBurn

\* The pass over one row ends, or keeps its records.
LEMMA PassStep ==
    ASSUME DaemonInv, tick.place \in {"pass", "header", "absent", "source"},
           UNCHANGED <<journal, phase1, baseline, execution, crashes>>, NEW t \in Txs,
           \/ tick' = Passed(t, TRUE) \/ tick' = Passed(t, FALSE)
           \/ tick' = [Down EXCEPT !.place = "idle"]
           \/ Mined(t) /\ tick' = ReadHeader(t)
           \/ tick' = [tick EXCEPT !.todo = tick.todo \ {t}, !.absent = tick.absent \cup {t}]
                /\ tick.place = "pass"
           \/ tick' = [tick EXCEPT !.place = "source", !.tx = t]
    PROVE  Keeps
<1>1. tick \in Ticks /\ tick.todo \subseteq Txs /\ t \in ChainTxs /\ ChainInv
  BY DaemonAssumption, Zenon DEF DaemonInv, DaemonTypeOK, TickInv
<1>2. /\ tick' \in Ticks
      /\ \/ tick'.place = "idle"
         \/ tick'.place \in {"pass", "absent"} /\ tick'.todo \subseteq Txs
         \/ tick'.place \in {"header", "source"} /\ tick'.todo \subseteq Txs /\ tick'.tx = t
  <2>1. ASSUME NEW held \in BOOLEAN, tick' = Passed(t, held)
        PROVE  tick' \in Ticks /\ tick'.place \in {"pass", "absent"} /\ tick'.todo \subseteq Txs
    BY <1>1, <2>1, PassedType
  <2>2. CASE tick' = [Down EXCEPT !.place = "idle"]
    BY <2>2, IdleType, Zenon
  <2>3. CASE Mined(t) /\ tick' = ReadHeader(t)
    BY <1>1, <2>3, ReadHeaderType, Zenon
  <2>4. CASE tick' = [tick EXCEPT !.todo = tick.todo \ {t}, !.absent = tick.absent \cup {t}]
              /\ tick.place = "pass"
    BY <1>1, <2>4, Zenon DEF Ticks
  <2>5. CASE tick' = [tick EXCEPT !.place = "source", !.tx = t]
    BY <1>1, <2>5, Zenon DEF Ticks, Places
  <2> QED
    BY <2>1, <2>2, <2>3, <2>4, <2>5, Zenon
<1>3. TickInv'
  BY <1>2, Zenon DEF TickInv
<1> QED
  BY <1>2, <1>3, QuietStep, Zenon DEF DaemonInv, DaemonTypeOK

LEMMA PassAttemptKeeps == ASSUME DaemonInv, NEW t \in Txs, PassAttempt(t) PROVE Keeps
  BY PassStep, Zenon DEF PassAttempt, At, Unmoved

LEMMA AbsentAttemptKeeps == ASSUME DaemonInv, NEW t \in Txs, AbsentAttempt(t) PROVE Keeps
  BY PassStep, Zenon DEF AbsentAttempt, At, Unmoved

LEMMA PassFailsKeeps == ASSUME DaemonInv, NEW t \in Txs, PassFails(t) PROVE Keeps
  BY PassStep, Zenon DEF PassFails, Unread, At, Unmoved

\* A row that is confirmed or abandoned is passed.
LEMMA DecidedKeeps ==
    ASSUME DaemonInv, tick.place \in {"header", "source"},
           UNCHANGED <<phase1, baseline, execution, crashes>>, NEW t \in Txs, tick' = Passed(t, FALSE),
           JournalNext, \A u \in Txs : (In(u, {"quarantined"}))' => In(u, {"quarantined"})
    PROVE  Keeps
<1>1. tick \in Ticks /\ tick.todo \subseteq Txs
  BY Zenon DEF DaemonInv, DaemonTypeOK, TickInv
<1>2. tick' \in Ticks /\ tick'.place \in {"pass", "absent"} /\ tick'.todo \subseteq Txs
  BY <1>1, PassedType, Zenon
<1>3. TickInv'
  BY <1>2, Zenon DEF TickInv
<1>4. DaemonTypeOK'
  BY <1>2, Zenon DEF DaemonInv, DaemonTypeOK
<1>5. NoneQuarantined'
  BY Zenon DEF DaemonInv, NoneQuarantined
<1> QED
  BY <1>3, <1>4, <1>5, Zenon DEF Keeps

LEMMA ConfirmIfFinalKeeps == ASSUME DaemonInv, ConfirmIfFinal PROVE Keeps
<1> DEFINE t == tick.tx
           b == BlockAt(tick.seen.height)
<1>1. tick.place = "header" /\ t \in Txs /\ UNCHANGED <<phase1, baseline, execution, crashes>>
  BY Zenon DEF ConfirmIfFinal, At, Unmoved, DaemonInv, TickInv
<1>2. CASE HeaderKnown(tick.seen.height) /\ Confirm(t, b) /\ tick' = Passed(t, FALSE)
  <2>1. b \in JournalBlocks
    BY <1>2, BlockAtType, DaemonAssumption, Zenon DEF HeaderKnown, DaemonInv, ChainInv
  <2>2. JournalNext
    BY <1>1, <1>2, <2>1, Zenon DEF JournalNext
  <2>3. \A u \in Txs : (In(u, {"quarantined"}))' => In(u, {"quarantined"})
    BY <1>1, <1>2, ConfirmRows, Zenon DEF DaemonInv
  <2> QED
    BY <1>1, <1>2, <2>2, <2>3, DecidedKeeps, Zenon
<1>3. CASE (tick' = Passed(t, TRUE) \/ tick' = Unread(t)) /\ UNCHANGED journal
  BY <1>1, <1>3, PassStep, Zenon DEF Unread
<1> QED
  BY <1>2, <1>3, Zenon DEF ConfirmIfFinal

LEMMA AbandonIfUnspentKeeps == ASSUME DaemonInv, AbandonIfUnspent PROVE Keeps
<1> DEFINE t == tick.tx
<1>1. tick.place = "source" /\ t \in Txs /\ UNCHANGED <<phase1, baseline, execution, crashes>>
  BY Zenon DEF AbandonIfUnspent, At, Unmoved, DaemonInv, TickInv
<1>2. CASE Abandon(t) /\ tick' = Passed(t, FALSE)
  <2>1. JournalNext
    BY <1>1, <1>2, Zenon DEF JournalNext
  <2>2. \A u \in Txs : (In(u, {"quarantined"}))' => In(u, {"quarantined"})
    BY <1>1, <1>2, AbandonedRows, Zenon DEF Abandon, In, DaemonInv, JournalInv, JournalTypeOK
  <2> QED
    BY <1>1, <1>2, <2>1, <2>2, DecidedKeeps, Zenon
<1>3. CASE tick' = Passed(t, TRUE) /\ UNCHANGED journal
  BY <1>1, <1>3, PassStep, Zenon
<1> QED
  BY <1>2, <1>3, Zenon DEF AbandonIfUnspent

LEMMA EndPassKeeps == ASSUME DaemonInv, EndPass PROVE Keeps
<1>1. tick' \in Ticks /\ tick'.place = "absent" /\ tick'.todo \subseteq Txs
  BY Zenon DEF EndPass, DaemonInv, DaemonTypeOK, Ticks, Places
<1>2. TickInv'
  BY <1>1, Zenon DEF TickInv
<1> QED
  BY <1>1, <1>2, QuietStep, Zenon DEF EndPass, Unmoved, DaemonInv, DaemonTypeOK

LEMMA EndAbsentKeeps == ASSUME DaemonInv, EndAbsent PROVE Keeps
<1>1. tick' \in Ticks /\ tick'.place \in {"gate", "idle"}
  <2>1. CASE tick' = [tick EXCEPT !.place = "gate"]
    BY <2>1, Zenon DEF DaemonInv, DaemonTypeOK, Ticks, Places
  <2> QED
    BY <2>1, IdleType, Zenon DEF EndAbsent
<1>2. TickInv'
  BY <1>1, Zenon DEF TickInv
<1> QED
  BY <1>1, <1>2, QuietStep, Zenon DEF EndAbsent, Unmoved, DaemonInv, DaemonTypeOK

LEMMA LeaveGateKeeps == ASSUME DaemonInv, LeaveGate PROVE Keeps
<1>1. tick' \in Ticks /\ tick'.place = "pass" /\ tick'.todo \subseteq Txs
  BY PassType, Zenon DEF LeaveGate, DaemonInv, DaemonTypeOK, Superseding
<1>2. TickInv'
  BY <1>1, Zenon DEF TickInv
<1> QED
  BY <1>1, <1>2, QuietStep, Zenon DEF LeaveGate, Unmoved, DaemonInv, DaemonTypeOK

LEMMA CrashKeeps == ASSUME DaemonInv, Crash PROVE Keeps
<1>1. tick' \in Ticks /\ tick'.place = "down"
  BY DownType, Zenon DEF Crash, Down
<1>2. TickInv'
  BY <1>1, Zenon DEF TickInv
<1>3. crashes' \in 0..MaxCrashes
  BY DaemonAssumption DEF Crash, DaemonInv, DaemonTypeOK
<1> QED
  BY <1>1, <1>2, <1>3, QuietStep, Zenon DEF Crash

-----------------------------------------------------------------------------
(* The steps beside the daemon. *)

LEMMA ExecuteKeeps == ASSUME DaemonInv, NEW t \in Txs, Execute(t) PROVE Keeps
<1>1. /\ UNCHANGED <<phase1, baseline, tick, crashes>>
      /\ execution' \in [Txs -> {"idle", "journaled", "submitted"}]
  BY Zenon DEF Execute, ReserveAttempt, Submit, FinalizeAttempt, EndExecution, Others, DaemonInv, DaemonTypeOK
<1>2. DaemonTypeOK'
  BY <1>1, Zenon DEF DaemonInv, DaemonTypeOK
<1>3. Len(best) \in Heights /\ attempt \in [Txs -> Rows \cup {NoRow}]
  BY DaemonAssumption, Zenon DEF DaemonInv, ChainInv, BranchesTypeOK, JournalInv, JournalTypeOK
<1>4. \/ Reserve(t, Len(best)) \/ (\E d \in {"accepted", "ambiguous"} : Finalize(t, d))
      \/ UNCHANGED journal
  BY Zenon DEF Execute, ReserveAttempt, Submit, FinalizeAttempt, EndExecution
<1>5. [JournalNext]_journal
  BY <1>3, <1>4, Zenon DEF JournalNext
<1>6. /\ \A u \in Txs : In(u, {"confirmed"}) => (In(u, {"confirmed"}))'
      /\ \A u \in Txs : (In(u, {"quarantined"}))' => In(u, {"quarantined"})
  <2>1. CASE Reserve(t, Len(best))
    BY <1>3, <2>1 DEF Reserve, Recorded, In, NoRow
  <2>2. ASSUME NEW d \in {"accepted", "ambiguous"}, Finalize(t, d)
        PROVE  /\ \A u \in Txs \ {t} : attempt'[u] = attempt[u]
               /\ attempt[t].status = "pending" /\ attempt'[t].status = d
    <3>1. attempt[t].status = "pending" /\ attempt[t] \in Rows
      BY <1>3, <2>2 DEF Finalize, In, NoRow
    <3> QED
      BY <1>3, <2>2, <3>1, Zenon DEF Finalize, Rows
  <2>3. CASE UNCHANGED journal
    BY <2>3, Zenon DEF In, journal
  <2> QED
    BY <1>4, <2>1, <2>2, <2>3, Zenon DEF In
<1>7. TickInv'
  BY <1>1, <1>6, Zenon DEF DaemonInv, TickInv
<1>8. NoneQuarantined'
  BY <1>6, Zenon DEF DaemonInv, NoneQuarantined
<1> QED
  BY <1>2, <1>5, <1>7, <1>8, Zenon DEF Keeps

LEMMA MoveChainKeeps == ASSUME DaemonInv, MoveChain PROVE Keeps /\ ChainInv'
<1>1. ChainInv'
  BY StepKeeps, Zenon DEF MoveChain, DaemonInv
<1>2. DaemonTypeOK' /\ TickInv' /\ NoneQuarantined'
  BY Zenon DEF MoveChain, daemon, journal, DaemonInv, DaemonTypeOK, TickInv, NoneQuarantined, In
<1> QED
  BY <1>1, <1>2, Zenon DEF Keeps, MoveChain

-----------------------------------------------------------------------------
LEMMA InitialInv == Init => DaemonInv
<1> SUFFICES ASSUME Init PROVE DaemonInv
  BY Zenon
<1>1. JournalInv
  BY JournalInitial, Zenon DEF Init
<1>2. best \in Seq(0..MaxBranches) /\ Len(best) = 2
  BY BranchesAssumption DEF Init
<1>3. ChainInv
  BY <1>2, DaemonAssumption, BranchesAssumption DEF Init, ChainInv, BranchesTypeOK, MinedInBest
<1>4. DaemonTypeOK
  BY DownType, DaemonAssumption DEF Init, DaemonTypeOK
<1>5. TickInv
  BY Zenon DEF Init, TickInv, Down
<1>6. NoneQuarantined
  BY Zenon DEF Init, JournalInit, NoneQuarantined, In, NoRow
<1> QED
  BY <1>1, <1>3, <1>4, <1>5, <1>6, Zenon DEF DaemonInv

\* Every step of the system is a step of the journal and keeps the invariant.
LEMMA EveryStep == ASSUME DaemonInv, [Next]_vars PROVE Keeps /\ ChainInv'
<1>1. CASE MoveChain
  BY <1>1, MoveChainKeeps, Zenon
<1>2. CASE \E t \in Txs : Execute(t)
  <2>1. Keeps
    BY <1>2, ExecuteKeeps, Zenon
  <2>2. UNCHANGED <<best, branches, minedAt>> /\ sent' \subseteq ChainTxs
    BY <1>2, DaemonAssumption, Zenon
       DEF Execute, ReserveAttempt, Submit, FinalizeAttempt, EndExecution, branchVars,
           DaemonInv, ChainInv, BranchesTypeOK
  <2> QED
    BY <2>1, <2>2, Zenon DEF DaemonInv, ChainInv, BranchesTypeOK, MinedInBest
<1>3. CASE Daemon
  <2>1. Keeps
    BY <1>3, StartKeeps, BeginTickKeeps, DetectKeeps, ScanAttemptKeeps, ScanHeaderKeeps,
       ScanAbsentKeeps, EndScanKeeps, PurgeKeyKeeps, ResetRowKeeps, EndHandlerKeeps,
       PassAttemptKeeps, AbsentAttemptKeeps, ConfirmIfFinalKeeps, EndPassKeeps,
       AbandonIfUnspentKeeps, EndAbsentKeeps, LeaveGateKeeps, Zenon
       DEF Daemon, Scan, Purge, Reconcile
  <2>2. UNCHANGED branchVars
    BY <1>3, Zenon
       DEF Daemon, Detect, Scan, Purge, Reconcile, Start, BeginTick, DetectReorg, DetectNone,
           DetectUnavailable, ScanAttempt, ScanHeader, ScanAbsent, EndScan, PurgeKey, ResetRow,
           EndHandler, PassAttempt, AbsentAttempt, ConfirmIfFinal, EndPass, AbandonIfUnspent,
           EndAbsent, LeaveGate, Unmoved
  <2> QED
    BY <2>1, <2>2, Zenon DEF DaemonInv, ChainInv, BranchesTypeOK, MinedInBest, branchVars
<1>4. CASE ReadFails \/ Crash \/ (\E k \in LegacyKeys : RevertBurn(k))
  <2>1. Keeps
    BY <1>4, ScanFailsKeeps, PassFailsKeeps, PurgeFailsKeeps, QuorumExpiresKeeps, CrashKeeps,
       RevertBurnKeeps, Zenon
       DEF ReadFails
  <2>2. UNCHANGED branchVars
    BY <1>4, Zenon DEF ReadFails, ScanFails, PassFails, PurgeFails, QuorumExpires, Crash, RevertBurn, Unmoved
  <2> QED
    BY <2>1, <2>2, Zenon DEF DaemonInv, ChainInv, BranchesTypeOK, MinedInBest, branchVars
<1>5. CASE UNCHANGED vars
  <2>1. UNCHANGED <<attempt, avl, best, branches, minedAt, sent, phase1, baseline, tick, execution, crashes>>
    BY <1>5, Zenon DEF vars, journal, branchVars, daemon
  <2> QED
    BY <2>1, Zenon DEF Keeps, DaemonInv, ChainInv, BranchesTypeOK, MinedInBest, DaemonTypeOK, TickInv,
                NoneQuarantined, In, journal
<1> QED
  BY <1>1, <1>2, <1>3, <1>4, <1>5, Zenon DEF Next

\* The daemon's invariant is inductive.
LEMMA DaemonStep == DaemonInv /\ [Next]_vars => DaemonInv'
  BY EveryStep, JournalStep, Zenon DEF Keeps, DaemonInv

LEMMA DaemonInvariant == Spec => []DaemonInv
  BY InitialInv, DaemonStep, PTL DEF Spec

\* Whatever the chain, the executions and failing reads do, the daemon uses the
\* journal only through its operations, so everything that holds of the
\* journal's rows holds of the daemon's.
THEOREM DaemonImplementsJournal == Spec => JournalSpec
<1>1. Init => JournalInit
  BY Zenon DEF Init
<1>2. DaemonInv /\ [Next]_vars => [JournalNext]_journal
  BY EveryStep, Zenon DEF Keeps
<1> QED
  BY <1>1, <1>2, DaemonInvariant, PTL DEF Spec, JournalSpec

\* Every table and every process of the daemon's model keeps its type.
THEOREM DaemonTypeCorrect == Spec => []TypeOK
<1>1. DaemonInv => TypeOK
  BY Zenon DEF DaemonInv, JournalInv, ChainInv, TypeOK
<1> QED
  BY <1>1, DaemonInvariant, PTL

\* reconcileConfirmedOperationalTransactionsAfterReorg never finds a confirmed
\* heartbeat without its AVL key, so no heartbeat is quarantined and peg-outs
\* are never held by one.
THEOREM NoneQuarantinedHolds == Spec => []NoneQuarantined
<1>1. DaemonInv => NoneQuarantined
  BY Zenon DEF DaemonInv
<1> QED
  BY <1>1, DaemonInvariant, PTL

-----------------------------------------------------------------------------
(* What the passes leave behind. *)

LEMMA PassedFields ==
    ASSUME tick \in Ticks, NEW t, NEW held \in BOOLEAN
    PROVE  /\ Passed(t, held).todo = tick.todo \ {t}
           /\ Passed(t, held).absent = tick.absent \ {t}
           /\ Passed(t, held).inFlight = (tick.inFlight \/ held)
  BY Zenon DEF Passed, Ticks

\* The rows the pass still has to look at.
Open == tick.todo \cup tick.absent

LEMMA ActiveHeldStep ==
    ASSUME DaemonInv, [Next]_vars, NEW t \in Txs,
           tick.place \in {"pass", "header", "absent", "source"},
           t \in Open, t \notin Open', tick'.place \in {"pass", "absent"}, In(t, Active)'
    PROVE  tick'.inFlight
<1>0. tick \in Ticks
  BY Zenon DEF DaemonInv, DaemonTypeOK
<1>1. tick' # tick
  BY Zenon DEF Open
<1>2. ASSUME NEW u, tick' = Passed(u, TRUE) PROVE tick'.inFlight
  BY <1>0, <1>2, PassedFields, Zenon
<1>3. ASSUME NEW u, tick' = Passed(u, FALSE) PROVE t = u
  BY <1>0, <1>3, PassedFields DEF Open
<1>4. ASSUME NEW u, \/ tick' = ReadHeader(u)
                    \/ tick' = [tick EXCEPT !.place = "source", !.tx = u]
                    \/ tick' = [tick EXCEPT !.todo = tick.todo \ {u}, !.absent = tick.absent \cup {u}]
                    \/ tick' = [tick EXCEPT !.place = "absent"]
      PROVE  FALSE
  <2>1. CASE tick' = ReadHeader(u) \/ tick' = [tick EXCEPT !.place = "source", !.tx = u]
    <3>1. tick'.todo = tick.todo /\ tick'.absent = tick.absent
      BY <1>0, <2>1, Zenon DEF ReadHeader, Ticks
    <3> QED BY <3>1, Zenon DEF Open
  <2>2. CASE tick' = [tick EXCEPT !.todo = tick.todo \ {u}, !.absent = tick.absent \cup {u}]
    <3>1. tick'.todo = tick.todo \ {u} /\ tick'.absent = tick.absent \cup {u}
      BY <1>0, <2>2, Zenon DEF Ticks
    <3> QED BY <3>1, Zenon DEF Open
  <2>3. CASE tick' = [tick EXCEPT !.place = "absent"]
    <3>1. tick'.todo = tick.todo /\ tick'.absent = tick.absent
      BY <1>0, <2>3, Zenon DEF Ticks
    <3> QED BY <3>1, Zenon DEF Open
  <2> QED BY <1>4, <2>1, <2>2, <2>3, Zenon
<1>5. CASE \E u \in Txs : PassAttempt(u)
  BY <1>2, <1>3, <1>4, <1>5, Zenon DEF PassAttempt, journal, In, Reconcilable
<1>6. CASE \E u \in Txs : AbsentAttempt(u)
  BY <1>2, <1>3, <1>4, <1>6, Zenon DEF AbsentAttempt, journal, In
<1>7. CASE ConfirmIfFinal
  <2>1. ASSUME NEW b, Confirm(tick.tx, b), tick' = Passed(tick.tx, FALSE) PROVE FALSE
    <3>1. t = tick.tx
      BY <1>3, <2>1, Zenon
    <3>2. Recorded(t)
      BY <2>1, <3>1 DEF Confirm, In, Reconcilable, Active, NoRow, Recorded
    <3>3. Rivals(t) \in SUBSET Txs /\ \A v \in Rivals(t) : In(v, Active) /\ v # t
      BY Zenon DEF Rivals, SameProfile
    <3>4. attempt' = [Abandoned(Rivals(t)) EXCEPT ![t].status = "confirmed", ![t].block = b]
      BY <2>1, <3>1, Zenon DEF Confirm
    <3>5. attempt'[t].status = "confirmed"
      BY <3>2, <3>3, <3>4, SupersedingRows, Zenon DEF DaemonInv
    <3> QED BY <3>5, Zenon DEF In, Active
  <2>2. [Down EXCEPT !.place = "idle"].place = "idle"
    BY IdleType, Zenon
  <2> QED BY <1>2, <1>7, <2>1, <2>2, Zenon DEF ConfirmIfFinal, Unread
<1>8. CASE AbandonIfUnspent
  <2>1. ASSUME Abandon(tick.tx), tick' = Passed(tick.tx, FALSE) PROVE FALSE
    <3>1. t = tick.tx
      BY <1>3, <2>1, Zenon
    <3>2. attempt'[t].status = "abandoned"
      BY <2>1, <3>1, AbandonedRows DEF Abandon, In, DaemonInv, JournalInv, JournalTypeOK
    <3> QED BY <3>2, Zenon DEF In, Active
  <2> QED BY <1>2, <1>8, <2>1, Zenon DEF AbandonIfUnspent
<1>9. CASE \E u \in Txs : PassFails(u)
  <2>1. [Down EXCEPT !.place = "idle"].place = "idle"
    BY IdleType, Zenon
  <2> QED BY <1>2, <1>9, <2>1, Zenon DEF PassFails, Unread
<1>10. CASE EndPass
  BY <1>4, <1>10, Zenon DEF EndPass
<1>11. CASE EndAbsent \/ QuorumExpires
  <2>1. [Down EXCEPT !.place = "idle"].place = "idle"
    BY IdleType, Zenon
  <2>2. [tick EXCEPT !.place = "gate"].place = "gate"
    BY <1>0, Zenon DEF Ticks
  <2> QED BY <1>11, <2>1, <2>2, Zenon DEF EndAbsent, QuorumExpires
<1>12. CASE Crash
  BY <1>12, Zenon DEF Crash, Down
\* The other steps of the daemon are taken elsewhere, and the others leave it be.
<1>13. ~(\/ Start \/ BeginTick \/ Detect \/ Scan \/ Purge \/ LeaveGate
         \/ (\E u \in Txs : ScanFails(u)) \/ (\E k \in LegacyKeys : PurgeFails(k)))
  BY Zenon DEF Start, BeginTick, Detect, DetectReorg, DetectNone, DetectUnavailable, Scan, ScanAttempt,
         ScanHeader, ScanAbsent, EndScan, Purge, PurgeKey, ResetRow, EndHandler, LeaveGate,
         ScanFails, PurgeFails, At
<1>14. ~((\E k \in LegacyKeys : RevertBurn(k)) \/ (\E u \in Txs : Execute(u)) \/ MoveChain
         \/ UNCHANGED vars)
  BY <1>1, Zenon DEF RevertBurn, Execute, ReserveAttempt, Submit, FinalizeAttempt, EndExecution, Others,
              MoveChain, daemon, vars
<1> QED
  BY <1>5, <1>6, <1>7, <1>8, <1>9, <1>10, <1>11, <1>12, <1>13, <1>14, Zenon
  DEF Next, Daemon, ReadFails, Reconcile

\* Whatever the chain, the executions and failing reads do while a pass awaits, a
\* heartbeat that the pass leaves active holds peg-out processing for this tick.
THEOREM ActiveHeldHolds == Spec => ActiveHeld
<1>1. DaemonInv /\ [Next]_vars =>
        [\A t \in Txs :
            LET open == tick.todo \cup tick.absent IN
            /\ tick.place \in {"pass", "header", "absent", "source"}
            /\ t \in open /\ t \notin tick'.todo \cup tick'.absent
            /\ tick'.place \in {"pass", "absent"}
            /\ In(t, Active)'
            => tick'.inFlight]_vars
  BY ActiveHeldStep, Zenon DEF Open
<1> QED
  BY <1>1, DaemonInvariant, PTL DEF Spec, ActiveHeld

-----------------------------------------------------------------------------
(* Confirmations on a chain that never replaces a final block. *)

\* The transaction is in block h, which was final.
Placed(t, h) == h \in settled /\ minedAt[t] = h

\* What the daemon read before it asks for the header is still true, if it read
\* enough confirmations; so is what it recorded.
WhereInv ==
    /\ settled \subseteq DOMAIN best
    /\ \A t \in Txs : In(t, {"confirmed"}) =>
          Placed(t, attempt[t].block.height) /\ attempt[t].block = BlockAt(minedAt[t])
    /\ tick.place \in {"header", "scan header"} /\ tick.seen.confirmations >= Final =>
          Placed(tick.tx, tick.seen.height)

DepthsInv ==
    /\ BranchOrder
    /\ Deep(best) \subseteq settled
    /\ shallow \in BOOLEAN
    /\ shallow => WhereInv

LEMMA RememberBoolean ==
    ASSUME shallow \in BOOLEAN, Remember
    PROVE  /\ shallow' \in BOOLEAN
           /\ shallow' => shallow /\ \A h \in settled : h \in DOMAIN best' /\ best'[h] = best[h]
           /\ settled' = settled \cup Deep(best')
  BY Zenon DEF Remember

LEMMA MoveChainKeepsWhere ==
    ASSUME DaemonInv, DepthsInv, MoveChain, Remember
    PROVE  DepthsInv'
<1>1. /\ BranchOrder'
      /\ \A h \in DOMAIN best : h \in DOMAIN best' /\ best'[h] = best[h] =>
            \A t \in ChainTxs : minedAt[t] = h => minedAt'[t] = h
  BY StepKeepsOrder, StepKeepsMined, Zenon DEF MoveChain, DaemonInv, DepthsInv
<1>2. UNCHANGED <<attempt, tick>>
  BY Zenon DEF MoveChain, journal, daemon
<1>3. Deep(best') \subseteq settled' /\ Deep(best') \subseteq DOMAIN best' /\ shallow' \in BOOLEAN
  BY RememberBoolean, Zenon DEF DepthsInv, Deep
<1>4. ASSUME shallow' PROVE WhereInv'
  <2>1. WhereInv /\ \A h \in settled : h \in DOMAIN best' /\ best'[h] = best[h] /\ h \in settled'
    BY <1>4, RememberBoolean, Zenon DEF DepthsInv
  <2>2. settled' \subseteq DOMAIN best'
    BY <1>3, <2>1, RememberBoolean, Zenon DEF DepthsInv
  <2>3. ASSUME NEW t \in ChainTxs, NEW h, Placed(t, h)
        PROVE  h \in settled' /\ minedAt'[t] = h /\ minedAt[t] = h /\ best'[h] = best[h]
    BY <1>1, <2>1, <2>3, Zenon DEF Placed, WhereInv
  <2>4. Txs \subseteq ChainTxs
    BY DaemonAssumption, Zenon
  <2>5. ASSUME NEW t \in Txs, (In(t, {"confirmed"}))'
        PROVE  /\ Placed(t, attempt[t].block.height)'
               /\ (attempt[t].block = BlockAt(minedAt[t]))'
    <3>1. Placed(t, attempt[t].block.height) /\ attempt[t].block = BlockAt(minedAt[t])
      BY <1>2, <2>1, <2>5, Zenon DEF WhereInv, In
    <3> QED
      BY <1>2, <2>3, <2>4, <3>1 DEF Placed, BlockAt
  <2>6. tick'.place \in {"header", "scan header"} /\ tick'.seen.confirmations >= Final =>
          Placed(tick.tx, tick.seen.height)'
    <3>1. tick.place \in {"header", "scan header"} => tick.tx \in ChainTxs
      BY <2>4, Zenon DEF DaemonInv, TickInv
    <3> QED
      BY <1>2, <2>1, <2>3, <3>1 DEF Placed, WhereInv
  <2> QED
    BY <2>2, <2>5, <2>6, Zenon DEF WhereInv
<1> QED
  BY <1>1, <1>3, <1>4, Zenon DEF DepthsInv

\* A step that confirms no attempt and binds none to another block.
BindsNothing == \A t \in Txs : (In(t, {"confirmed"}))' => attempt'[t] = attempt[t]

\* A step after which the daemon still asks for the same header, or asks for the
\* one of a transaction it has just read.
AsksFresh ==
    tick'.place \in {"header", "scan header"} =>
        \/ tick' = tick
        \/ \E t \in Txs : Mined(t) /\ tick'.tx = t /\ tick'.seen = Seen(t)

\* A step on the row t whose header is asked for, after enough confirmations.
BindsTo(t, b) ==
    /\ tick.place \in {"header", "scan header"} /\ t = tick.tx
    /\ tick.seen.confirmations >= Final /\ b = BlockAt(tick.seen.height)
    /\ attempt'[t].block = b
    /\ \A u \in Txs \ {t} : (In(u, {"confirmed"}))' => attempt'[u] = attempt[u]

LEMMA StillKeepsWhere ==
    ASSUME DaemonInv, DepthsInv, Remember, UNCHANGED <<best, branches, minedAt>>,
           AsksFresh, BindsNothing \/ \E t, b : BindsTo(t, b)
    PROVE  DepthsInv'
<1>1. settled' = settled
  BY RememberBoolean, Zenon DEF DepthsInv
<1>2. shallow' \in BOOLEAN /\ (shallow' => shallow)
  BY RememberBoolean, Zenon DEF DepthsInv
<1>3. ASSUME shallow' PROVE WhereInv'
  <2>1. WhereInv
    BY <1>2, <1>3, Zenon DEF DepthsInv
  <2>2. ASSUME NEW t \in Txs, (In(t, {"confirmed"}))'
        PROVE  /\ Placed(t, attempt[t].block.height)'
               /\ (attempt[t].block = BlockAt(minedAt[t]))'
    <3>1. CASE attempt'[t] = attempt[t]
      BY <1>1, <2>1, <2>2, <3>1, Zenon DEF WhereInv, Placed, BlockAt, In
    <3>2. ASSUME NEW b, BindsTo(t, b)
          PROVE  /\ Placed(t, attempt[t].block.height)'
                 /\ (attempt[t].block = BlockAt(minedAt[t]))'
      <4>1. attempt'[t].block = BlockAt(tick.seen.height) /\ Placed(t, tick.seen.height)
        BY <2>1, <3>2, Zenon DEF BindsTo, WhereInv
      <4>2. attempt'[t].block.height = tick.seen.height
        BY <4>1 DEF BlockAt
      <4> QED
        BY <1>1, <4>1, <4>2, Zenon DEF Placed, BlockAt
    <3> QED
      BY <2>2, <3>1, <3>2, Zenon DEF BindsNothing, BindsTo
  <2>3. tick'.place \in {"header", "scan header"} /\ tick'.seen.confirmations >= Final =>
          Placed(tick.tx, tick.seen.height)'
    <3>1. ASSUME NEW t \in Txs, Mined(t), Seen(t).confirmations >= Final
          PROVE  Placed(t, Seen(t).height)
      <4>1. t \in ChainTxs /\ minedAt[t] \in 1..Len(best) /\ Len(best) \in Nat
        BY <3>1, DaemonAssumption, BranchesAssumption
           DEF DaemonInv, ChainInv, BranchesTypeOK, MinedInBest, Mined
      <4>2. Seen(t).height = minedAt[t] /\ Len(best) - minedAt[t] + 1 >= Final
        BY <3>1, Zenon DEF Seen, Confirmations
      <4>3. minedAt[t] \in DOMAIN best
        BY <4>1 DEF DaemonInv, ChainInv, BranchesTypeOK
      <4>4. minedAt[t] \in Deep(best)
        BY <4>1, <4>2, <4>3, DaemonAssumption DEF Deep
      <4> QED
        BY <4>2, <4>4, Zenon DEF Placed, DepthsInv
    <3>2. tick'.place \in {"header", "scan header"} /\ tick'.seen.confirmations >= Final =>
            Placed(tick'.tx, tick'.seen.height)
      BY <2>1, <3>1, Zenon DEF AsksFresh, WhereInv
    <3> QED
      BY <1>1, <3>2, Zenon DEF Placed
  <2> QED
    BY <1>1, <2>1, <2>2, <2>3, Zenon DEF WhereInv
<1> QED
  BY <1>1, <1>2, <1>3, Zenon DEF DepthsInv, Deep, BranchOrder

\* The rows beside the one that is confirmed or reopened.
Superseded(S, t, st, b) == [Abandoned(S) EXCEPT ![t].status = st, ![t].block = b]

LEMMA SupersedingBinds ==
    ASSUME JournalInv, NEW t \in Txs, Recorded(t), NEW S \in SUBSET Txs,
           \A u \in S : In(u, Active) /\ u # t, NEW st, NEW b,
           attempt' = Superseded(S, t, st, b),
           NEW u \in Txs
    PROVE  /\ attempt'[t].status = st /\ attempt'[t].block = b
           /\ u # t /\ (In(u, {"confirmed"}))' => attempt'[u] = attempt[u]
<1>1. /\ Abandoned(S) \in [Txs -> Rows \cup {NoRow}]
      /\ \A v \in Txs \ S : Abandoned(S)[v] = attempt[v]
      /\ \A v \in S : Abandoned(S)[v].status = "abandoned"
  BY AbandonedRows, Zenon DEF JournalInv, JournalTypeOK
<1>2. attempt[t] \in Rows /\ Abandoned(S)[t] = attempt[t]
  BY <1>1, Zenon DEF JournalInv, JournalTypeOK, Recorded
<1>3. attempt'[t].status = st /\ attempt'[t].block = b
  BY <1>1, <1>2, Zenon DEF Superseded, Rows
<1>4. u # t => attempt'[u] = Abandoned(S)[u]
  BY <1>1, Zenon DEF Superseded
<1> QED
  BY <1>1, <1>3, <1>4, Zenon DEF In

LEMMA OthersBindNothing ==
    ASSUME JournalInv, NEW t \in Txs,
           \/ \E h : Reserve(t, h)
           \/ \E d \in {"accepted", "ambiguous"} : Finalize(t, d)
           \/ Reopen(t) \/ Abandon(t)
           \/ UNCHANGED attempt
    PROVE  BindsNothing
<1>0. attempt \in [Txs -> Rows \cup {NoRow}]
  BY Zenon DEF JournalInv, JournalTypeOK
<1>1. CASE \E h : Reserve(t, h)
  BY <1>0, <1>1 DEF Reserve, BindsNothing, In
<1>2. ASSUME NEW d \in {"accepted", "ambiguous"}, Finalize(t, d)
      PROVE  BindsNothing
  <2>1. attempt[t] \in Rows
    BY <1>0, <1>2 DEF Finalize, In, NoRow
  <2>2. attempt'[t].status = d /\ \A u \in Txs \ {t} : attempt'[u] = attempt[u]
    BY <1>0, <1>2, <2>1, Zenon DEF Finalize, Rows
  <2> QED
    BY <2>2, Zenon DEF BindsNothing, In
<1>3. CASE Reopen(t)
  <2> DEFINE S == MakeWay(t)
  <2>1. S \in SUBSET Txs /\ \A v \in S : In(v, Active) /\ v # t
    BY Zenon DEF MakeWay, Rivals, SameProfile
  <2>2. attempt[t] \in Rows /\ Recorded(t)
    BY <1>3 DEF Reopen, In, JournalInv, JournalTypeOK, NoRow, Recorded
  <2>3. StatusBefore(t) # "confirmed"
    BY <2>2, Zenon DEF StatusBefore, Rows
  <2>4. attempt' = Superseded(S, t, StatusBefore(t), Unconfirmed)
    BY <1>3, Zenon DEF Reopen, Superseded
  <2> HIDE DEF S
  <2>5. ASSUME NEW u \in Txs
        PROVE  /\ attempt'[t].status = StatusBefore(t)
               /\ u # t /\ (In(u, {"confirmed"}))' => attempt'[u] = attempt[u]
    BY <2>1, <2>2, <2>4, SupersedingBinds
  <2> QED
    BY <2>3, <2>5, Zenon DEF BindsNothing, In
<1>4. CASE Abandon(t)
  BY <1>0, <1>4, AbandonedRows, Zenon DEF Abandon, BindsNothing, In
<1>5. CASE UNCHANGED attempt
  BY <1>5, Zenon DEF BindsNothing
<1> QED
  BY <1>1, <1>2, <1>3, <1>4, <1>5, Zenon

\* The daemon asks for no header.
LEMMA PlaceAsksFresh ==
    ASSUME tick'.place \notin {"header", "scan header"} \/ tick' = tick
    PROVE  AsksFresh
  BY Zenon DEF AsksFresh

LEMMA PassedAsksFresh ==
    ASSUME DaemonInv, NEW t, \/ tick' = Passed(t, TRUE) \/ tick' = Passed(t, FALSE)
                             \/ tick' = Scanned(t) \/ tick' = Purged(t)
                             \/ tick' = [Down EXCEPT !.place = "idle"]
    PROVE  AsksFresh
<1>1. tick \in Ticks
  BY Zenon DEF DaemonInv, DaemonTypeOK
<1>2. tick'.place \notin {"header", "scan header"}
  BY <1>1, PassedType, ScannedType, PurgedType, IdleType, Zenon
<1> QED
  BY <1>2, PlaceAsksFresh, Zenon

\* The two steps that record where a transaction was mined.
LEMMA ConfirmBinds ==
    ASSUME DaemonInv, ConfirmIfFinal
    PROVE  AsksFresh /\ (BindsNothing \/ \E t, b : BindsTo(t, b))
<1> DEFINE t == tick.tx
           b == BlockAt(tick.seen.height)
<1>1. tick.place = "header" /\ t \in Txs
  BY Zenon DEF ConfirmIfFinal, At, DaemonInv, TickInv
<1>2. AsksFresh
  BY PassedAsksFresh, Zenon DEF ConfirmIfFinal, Unread
<1>3. CASE Confirm(t, b) /\ tick.seen.confirmations >= Final
  <2>1. Recorded(t)
    BY <1>3 DEF Confirm, In, Reconcilable, Active, NoRow, Recorded
  <2>2. Rivals(t) \in SUBSET Txs /\ \A v \in Rivals(t) : In(v, Active) /\ v # t
    BY Zenon DEF Rivals, SameProfile
  <2>3. attempt' = Superseded(Rivals(t), t, "confirmed", b)
    BY <1>3, Zenon DEF Confirm, Superseded
  <2>4. ASSUME NEW u \in Txs
        PROVE  /\ attempt'[t].block = b
               /\ u # t /\ (In(u, {"confirmed"}))' => attempt'[u] = attempt[u]
    <3>1. JournalInv
      BY Zenon DEF DaemonInv
    <3> HIDE DEF b, t
    <3> QED
      BY <1>1, <2>1, <2>2, <2>3, <3>1, SupersedingBinds
  <2>5. BindsTo(t, b)
    BY <1>1, <1>3, <2>4, Zenon DEF BindsTo
  <2> QED
    BY <1>2, <2>5, Zenon
<1>4. CASE UNCHANGED journal
  BY <1>2, <1>4, Zenon DEF journal, BindsNothing
<1> QED
  BY <1>3, <1>4, Zenon DEF ConfirmIfFinal

LEMMA ScanHeaderBinds ==
    ASSUME DaemonInv, ScanHeader
    PROVE  AsksFresh /\ (BindsNothing \/ \E t, b : BindsTo(t, b))
<1> DEFINE t == tick.tx
           b == BlockAt(tick.seen.height)
<1>1. tick.place = "scan header" /\ t \in Txs
  BY Zenon DEF ScanHeader, At, DaemonInv, TickInv
<1>2. AsksFresh
  BY PassedAsksFresh, Zenon DEF ScanHeader
<1>3. CASE Rebind(t, b) /\ tick.seen.confirmations >= Final
  <2>1. attempt \in [Txs -> Rows \cup {NoRow}] /\ attempt[t] \in Rows
    <3>1. attempt \in [Txs -> Rows \cup {NoRow}] /\ attempt[t].status = "confirmed"
      BY <1>3, Zenon DEF DaemonInv, JournalInv, JournalTypeOK, Rebind, In
    <3>2. attempt[t] \in Rows \cup {NoRow}
      BY <1>1, <3>1, Zenon
    <3> QED
      BY <3>1, <3>2 DEF NoRow
  <2>2. attempt'[t].block = b /\ \A u \in Txs \ {t} : attempt'[u] = attempt[u]
    BY <1>1, <1>3, <2>1, Zenon DEF Rebind, Rows
  <2>3. BindsTo(t, b)
    BY <1>1, <1>3, <2>2, Zenon DEF BindsTo
  <2> QED
    BY <1>2, <2>3, Zenon
<1>4. CASE Reopen(t) \/ UNCHANGED journal
  BY <1>1, <1>2, <1>4, OthersBindNothing, Zenon DEF journal, DaemonInv
<1>5. tick.seen.confirmations \in Nat /\ Final \in Nat
  BY DaemonAssumption, BranchesAssumption DEF DaemonInv, DaemonTypeOK, Ticks
<1>6. tick.seen.confirmations < Final \/ tick.seen.confirmations >= Final
  BY <1>5
<1> QED
  BY <1>3, <1>4, <1>6, Zenon DEF ScanHeader

\* The steps that read the chain or begin another part of the tick.
LEMMA ReadsAskFresh ==
    ASSUME DaemonInv, NEW t \in Txs,
           PassAttempt(t) \/ AbsentAttempt(t) \/ ScanAttempt(t) \/ PassFails(t) \/ ScanFails(t)
    PROVE  AsksFresh
<1>0. tick \in Ticks /\ ChainInv /\ t \in ChainTxs
  BY DaemonAssumption, Zenon DEF DaemonInv, DaemonTypeOK
<1>1. CASE tick' = ReadHeader(t) /\ Mined(t)
  BY <1>0, <1>1, ReadHeaderType, Zenon DEF AsksFresh, ReadHeader, Ticks
<1>2. CASE tick' = [tick EXCEPT !.place = "scan header", !.tx = t, !.seen = Seen(t)] /\ Mined(t)
  BY <1>0, <1>2, Zenon DEF AsksFresh, Ticks
<1>3. CASE \/ tick' = [tick EXCEPT !.place = "source", !.tx = t]
           \/ tick' = [tick EXCEPT !.place = "scan absent", !.tx = t]
  BY <1>0, <1>3, PlaceAsksFresh, Zenon DEF Ticks
<1>4. CASE At("pass") /\ tick' = [tick EXCEPT !.todo = tick.todo \ {t}, !.absent = tick.absent \cup {t}]
  BY <1>0, <1>4, PlaceAsksFresh, Zenon DEF Ticks, At
<1>5. CASE \/ tick' = Passed(t, TRUE) \/ tick' = Passed(t, FALSE) \/ tick' = Scanned(t)
           \/ tick' = [Down EXCEPT !.place = "idle"]
  BY <1>5, PassedAsksFresh, Zenon
<1> QED
  BY <1>1, <1>2, <1>3, <1>4, <1>5, Zenon
     DEF PassAttempt, AbsentAttempt, ScanAttempt, PassFails, Unread, ScanFails

LEMMA OthersAskFresh ==
    ASSUME DaemonInv,
           \/ Start \/ BeginTick \/ Detect \/ ScanAbsent \/ EndScan \/ Purge
           \/ EndPass \/ AbandonIfUnspent \/ EndAbsent \/ LeaveGate
           \/ (\E k \in LegacyKeys : PurgeFails(k)) \/ QuorumExpires \/ Crash
    PROVE  AsksFresh
<1>0. tick \in Ticks /\ baseline \in Blocks \cup {NoBlock}
  BY Zenon DEF DaemonInv, DaemonTypeOK
<1>1. CASE \/ (\E tip, next : tick' = Handler(tip, next))
           \/ (\E profile : tick' = Pass(profile))
           \/ tick' = [Down EXCEPT !.place = "detect", !.tip = Tip]
           \/ tick' = Down
  <2>1. \A tip, next : Handler(tip, next).place = "scan"
    BY Zenon DEF Handler, Down
  <2>2. \A profile : Pass(profile).place = "pass"
    BY Zenon DEF Pass, Down
  <2>3. [Down EXCEPT !.place = "detect", !.tip = Tip].place = "detect" /\ Down.place = "down"
    BY Zenon DEF Down
  <2>4. tick'.place \in {"scan", "pass", "detect", "down"}
    BY <1>1, <2>1, <2>2, <2>3, Zenon
  <2> QED
    BY <2>4, PlaceAsksFresh, Zenon
<1>2. CASE \E t : \/ tick' = Passed(t, TRUE) \/ tick' = Passed(t, FALSE)
                  \/ tick' = Scanned(t) \/ tick' = Purged(t)
                  \/ tick' = [Down EXCEPT !.place = "idle"]
  BY <1>2, PassedAsksFresh, Zenon
<1>3. CASE \/ (\E todo : tick' = [tick EXCEPT !.place = "purge", !.todo = todo])
           \/ (\E k : tick' = [tick EXCEPT !.place = "purged", !.tx = k])
           \/ tick' = [tick EXCEPT !.place = "absent"]
           \/ tick' = [tick EXCEPT !.place = "gate"]
  <2>1. tick'.place \in {"purge", "purged", "absent", "gate"}
    BY <1>0, <1>3, Zenon DEF Ticks
  <2> QED
    BY <2>1, PlaceAsksFresh, Zenon
<1>4. CASE Start \/ BeginTick \/ Detect \/ LeaveGate \/ Crash \/ QuorumExpires
  BY <1>1, <1>2, <1>4, Zenon
     DEF Start, BeginTick, Detect, DetectReorg, DetectNone, DetectUnavailable, LeaveGate, Crash,
         QuorumExpires
<1>5. CASE ScanAbsent \/ EndScan \/ AbandonIfUnspent \/ EndPass \/ EndAbsent
  BY <1>2, <1>3, <1>5, Zenon DEF ScanAbsent, EndScan, AbandonIfUnspent, EndPass, EndAbsent
<1>6. CASE Purge \/ (\E k \in LegacyKeys : PurgeFails(k))
  BY <1>1, <1>2, <1>3, <1>6, Zenon DEF Purge, PurgeKey, ResetRow, EndHandler, PurgeFails
<1> QED
  BY <1>4, <1>5, <1>6, Zenon

\* The journal's operations in these steps confirm nothing.
LEMMA OthersBind ==
    ASSUME DaemonInv,
           \/ \E t \in Txs : \/ PassAttempt(t) \/ AbsentAttempt(t) \/ ScanAttempt(t)
                             \/ PassFails(t) \/ ScanFails(t) \/ Execute(t)
           \/ Start \/ BeginTick \/ Detect \/ ScanAbsent \/ EndScan \/ Purge
           \/ EndPass \/ AbandonIfUnspent \/ EndAbsent \/ LeaveGate
           \/ (\E k \in LegacyKeys : PurgeFails(k) \/ RevertBurn(k)) \/ QuorumExpires \/ Crash
    PROVE  BindsNothing
<1>0. JournalInv
  BY Zenon DEF DaemonInv
<1>1. CASE UNCHANGED attempt
  BY <1>1, Zenon DEF BindsNothing
<1>2. CASE \/ Start \/ BeginTick \/ Detect \/ EndScan \/ Purge \/ EndPass \/ EndAbsent \/ LeaveGate
           \/ (\E k \in LegacyKeys : PurgeFails(k) \/ RevertBurn(k)) \/ QuorumExpires \/ Crash
           \/ \E t \in Txs : PassAttempt(t) \/ AbsentAttempt(t) \/ PassFails(t) \/ ScanFails(t)
  <2>1. UNCHANGED attempt
    BY <1>2, Zenon DEF Start, BeginTick, Detect, DetectReorg, DetectNone, DetectUnavailable, EndScan, Purge,
                PurgeKey, RemoveAvlKey, ResetRow, EndHandler, EndPass, EndAbsent, LeaveGate,
                PurgeFails, RevertBurn, QuorumExpires, Crash, PassAttempt, AbsentAttempt,
                PassFails, ScanFails, journal
  <2> QED
    BY <1>1, <2>1, Zenon
<1>3. ASSUME NEW t \in Txs, ScanAttempt(t) \/ Execute(t) PROVE BindsNothing
  <2>1. CASE Quarantine(t)
    <3>1. attempt \in [Txs -> Rows \cup {NoRow}] /\ attempt[t] \in Rows
      BY <1>0, <2>1, Zenon DEF JournalInv, JournalTypeOK, Quarantine, Recorded
    <3>2. attempt'[t].status = "quarantined" /\ \A u \in Txs \ {t} : attempt'[u] = attempt[u]
      BY <2>1, <3>1, Zenon DEF Quarantine, Rows
    <3> QED
      BY <3>2, Zenon DEF BindsNothing, In
  <2>2. \/ UNCHANGED attempt \/ Quarantine(t) \/ Reopen(t) \/ (\E h : Reserve(t, h))
        \/ \E d \in {"accepted", "ambiguous"} : Finalize(t, d)
    BY <1>3, Zenon DEF ScanAttempt, Execute, ReserveAttempt, Submit, FinalizeAttempt, EndExecution, journal
  <2> QED
    BY <1>0, <2>1, <2>2, OthersBindNothing, Zenon
<1>4. CASE ScanAbsent \/ AbandonIfUnspent
  <2>1. tick.tx \in Txs
    BY <1>4, Zenon DEF ScanAbsent, AbandonIfUnspent, At, DaemonInv, TickInv
  <2>2. UNCHANGED attempt \/ Reopen(tick.tx) \/ Abandon(tick.tx)
    BY <1>4, Zenon DEF ScanAbsent, AbandonIfUnspent, journal
  <2> QED
    BY <1>0, <2>1, <2>2, OthersBindNothing, Zenon
<1> QED
  BY <1>2, <1>3, <1>4, Zenon

LEMMA DepthsStep == ASSUME DaemonInv, DepthsInv, [Next /\ Remember]_<<vars, depths>> PROVE DepthsInv'
<1>1. CASE MoveChain /\ Remember
  BY <1>1, MoveChainKeepsWhere, Zenon
<1>2. CASE (Daemon \/ ReadFails \/ Crash) /\ Remember
  <2>1. UNCHANGED branchVars
    <3>1. CASE Daemon
      BY <3>1, Zenon
         DEF Daemon, Detect, Scan, Purge, Reconcile, Start, BeginTick, DetectReorg, DetectNone,
             DetectUnavailable, ScanAttempt, ScanHeader, ScanAbsent, EndScan, PurgeKey, ResetRow,
             EndHandler, PassAttempt, AbsentAttempt, ConfirmIfFinal, EndPass, AbandonIfUnspent,
             EndAbsent, LeaveGate, Unmoved
    <3>2. CASE ReadFails \/ Crash
      BY <3>2, Zenon DEF ReadFails, ScanFails, PassFails, PurgeFails, QuorumExpires, Crash, Unmoved
    <3> QED
      BY <1>2, <3>1, <3>2, Zenon
  <2>2. AsksFresh /\ (BindsNothing \/ \E t, b : BindsTo(t, b))
    BY <1>2, ConfirmBinds, ScanHeaderBinds, ReadsAskFresh, OthersAskFresh, OthersBind, Zenon
       DEF Daemon, Scan, Reconcile, ReadFails
  <2> QED
    BY <1>2, <2>1, <2>2, StillKeepsWhere, Zenon DEF branchVars
<1>3. CASE ((\E k \in LegacyKeys : RevertBurn(k)) \/ (\E t \in Txs : Execute(t))) /\ Remember
  <2>1. UNCHANGED <<best, branches, minedAt, tick>>
    BY <1>3, Zenon DEF RevertBurn, Execute, ReserveAttempt, Submit, FinalizeAttempt, EndExecution, Others,
                Unmoved, branchVars
  <2>2. AsksFresh /\ BindsNothing
    BY <1>3, <2>1, OthersBind, PlaceAsksFresh, Zenon
  <2> QED
    BY <1>3, <2>1, <2>2, StillKeepsWhere, Zenon
<1>4. CASE UNCHANGED <<vars, depths>>
  <2>1. UNCHANGED <<attempt, best, branches, minedAt, tick, settled, shallow>>
    BY <1>4, Zenon DEF vars, journal, branchVars, daemon, depths
  <2> QED
    BY <2>1, Zenon DEF DepthsInv, WhereInv, Deep, Placed, BlockAt, In, BranchOrder
<1> QED
  BY <1>1, <1>2, <1>3, <1>4, Zenon DEF Next

LEMMA DepthsInvInit == ASSUME Init, DepthsInit PROVE DepthsInv
<1>1. settled = Deep(best) /\ shallow = TRUE
  BY Zenon DEF DepthsInit
<1>2. Deep(best) \subseteq DOMAIN best
  BY Zenon DEF Deep
<1>3. BranchOrder
  BY DEF Init, BranchOrder
<1>4. \A t \in Txs : ~In(t, {"confirmed"})
  BY Zenon DEF Init, JournalInit, In, NoRow
<1>5. tick.place = "down"
  BY Zenon DEF Init, Down
<1> QED
  BY <1>1, <1>2, <1>3, <1>4, <1>5, Zenon DEF DepthsInv, WhereInv

\* Of every journal of operational transactions: as long as no reorganisation
\* replaces a block that had Final confirmations, a confirmed attempt names the
\* block that holds its transaction, although the daemon reads the inclusion and
\* the header in two awaits and the chain moves between them.
THEOREM ConfirmedWhereMinedHolds == DepthsSpec => []ConfirmedWhereMined
<1>1. Init /\ DepthsInit => DaemonInv /\ DepthsInv
  BY InitialInv, DepthsInvInit, Zenon
<1>2. DaemonInv /\ DepthsInv /\ [Next /\ Remember]_<<vars, depths>> => DaemonInv' /\ DepthsInv'
  BY DaemonStep, DepthsStep, Zenon
<1>3. DaemonInv /\ DepthsInv => ConfirmedWhereMined
  <2> SUFFICES ASSUME DaemonInv, DepthsInv, shallow, NEW t \in Txs, In(t, {"confirmed"})
               PROVE  Mined(t) /\ attempt[t].block = BlockAt(minedAt[t])
    BY Zenon DEF ConfirmedWhereMined
  <2>1. minedAt[t] \in DOMAIN best /\ attempt[t].block = BlockAt(minedAt[t])
    BY Zenon DEF DepthsInv, WhereInv, Placed
  <2> QED
    BY <2>1 DEF Mined, DaemonInv, ChainInv, BranchesTypeOK
<1> QED
  BY <1>1, <1>2, <1>3, PTL DEF DepthsSpec
=============================================================================
