--------------------------- MODULE OperationalDaemon ---------------------------
(***************************************************************************)
(* How the relayer daemon keeps its journal of operational transactions and  *)
(* its AVL history in step with the Ergo chain: reorganisation detection in  *)
(* tick, handleErgoReorg with its two scans, the reconciliation passes over  *)
(* DUP heartbeats and SCS updates, and executions of the operational         *)
(* lifecycle that reserve, submit and finalize beside it.                    *)
(*                                                                          *)
(* The daemon is one process that awaits one read of the node after the      *)
(* other; the chain and the executions move at every await.  A crash loses   *)
(* everything but the tables.                                                *)
(***************************************************************************)
EXTENDS OperationalJournal, ErgoBranches

CONSTANTS
    Final,          \* confirmations of a final transaction
    AbandonDelay,   \* blocks before an absent transaction may be abandoned
    LookupsFail,    \* whether reads of the node may fail and the read quorum expire
    TickGrowth,     \* blocks by which the chain may outgrow the tip a tick began with
    MaxCrashes      \* bound on crashes of the daemon

ASSUME DaemonAssumption ==
    /\ Final \in Nat \ {0} /\ AbandonDelay \in Nat /\ TickGrowth \in Nat /\ MaxCrashes \in Nat
    /\ LookupsFail \in BOOLEAN
    /\ JournalBlocks = Blocks /\ Heights = 1..MaxHeight /\ MaxHeight >= 2
    /\ ChainTxs = Txs \cup LegacyKeys
    /\ \A t \in Txs : SourceOf[t] = ParentOf[t]
    /\ \A t, u \in Txs : SourceOf[t] = SourceOf[u] => ProfileOf[t] = ProfileOf[u]

VARIABLES
    phase1,         \* peg-out rows of the retired two-phase path, named by their AVL key
    baseline,       \* lastErgoHeight and lastErgoHeaderId
    tick,           \* where the daemon is
    execution,      \* executions of the operational lifecycle
    crashes         \* crashes so far

daemon == <<phase1, baseline, tick, execution, crashes>>
vars == <<journal, branchVars, daemon>>

Places == {"down", "idle", "detect", "scan", "scan header", "scan absent", "purge", "purged",
           "pass", "header", "absent", "source", "gate"}

NoTx == "none"
Down == [place |-> "down", tip |-> NoBlock, next |-> "idle", profile |-> "dup", todo |-> {},
         absent |-> {}, tx |-> NoTx, seen |-> [height |-> 0, confirmations |-> 0],
         inFlight |-> FALSE]

Ticks == [place : Places, tip : Blocks \cup {NoBlock}, next : {"idle", "pass"},
          profile : Superseding, todo : SUBSET ChainTxs, absent : SUBSET Txs,
          tx : ChainTxs \cup {NoTx},
          seen : [height : 0..MaxHeight, confirmations : 0..MaxHeight],
          inFlight : BOOLEAN]

DaemonTypeOK ==
    /\ phase1 \in [LegacyKeys -> {"phase1_created", "burn_reverted", "detected", "cleared"}]
    /\ baseline \in Blocks \cup {NoBlock}
    /\ tick \in Ticks
    /\ execution \in [Txs -> {"idle", "journaled", "submitted"}]
    /\ crashes \in 0..MaxCrashes

\* Every table and every process has its type.
TypeOK == JournalTypeOK /\ BranchesTypeOK /\ DaemonTypeOK

\* The rows of the retired path have their transaction mined and their key
\* committed; no operational transaction was journaled yet.
Init ==
    /\ JournalInit
    /\ best = <<0, 0>> /\ branches = 0
    /\ minedAt = [t \in ChainTxs |-> IF t \in LegacyKeys THEN 2 ELSE 0]
    /\ sent = LegacyKeys
    /\ phase1 = [k \in LegacyKeys |-> "phase1_created"]
    /\ baseline = NoBlock
    /\ tick = Down
    /\ execution = [t \in Txs |-> "idle"]
    /\ crashes = 0

At(place) == tick.place = place
Unmoved == UNCHANGED <<branchVars, execution, crashes>>
Seen(t) == [height |-> minedAt[t], confirmations |-> Confirmations(t)]

\* The header the node has at a height; the read fails above its best block.
HeaderKnown(h) == h \in DOMAIN best

-----------------------------------------------------------------------------
(* Reorganisation detection. *)

Handler(tip, next) ==
    [Down EXCEPT !.place = "scan", !.tip = tip, !.next = next,
                 !.todo = {t \in Txs : In(t, {"confirmed"}) /\ ProfileOf[t] \in Superseding}]

\* Mutant: abandoned attempts are not looked at again.
PassOfActive(profile) ==
    [Down EXCEPT !.place = "pass", !.tip = tick.tip, !.profile = profile,
                 !.todo = {t \in Txs : In(t, Active) /\ ProfileOf[t] = profile}]

Pass(profile) ==
    [Down EXCEPT !.place = "pass", !.tip = tick.tip, !.profile = profile,
                 !.todo = {t \in Txs : In(t, Reconcilable) /\ ProfileOf[t] = profile}]

\* Startup takes the tip as its baseline and runs the handler once.
Start ==
    /\ At("down")
    /\ baseline' = Tip
    /\ tick' = Handler(Tip, "idle")
    /\ UNCHANGED <<journal, phase1>> /\ Unmoved

BeginTick ==
    /\ At("idle")
    /\ tick' = [Down EXCEPT !.place = "detect", !.tip = Tip]
    /\ UNCHANGED <<journal, phase1, baseline>> /\ Unmoved

\* A lower tip, another header in its place, or another header where the last
\* tip was.
ReorgSeen ==
    \/ tick.tip.height < baseline.height
    \/ tick.tip.height = baseline.height /\ tick.tip # baseline
    \/ tick.tip.height > baseline.height /\ HeaderKnown(baseline.height) /\ ~Canonical(baseline)

NoReorgSeen ==
    \/ tick.tip = baseline
    \/ tick.tip.height > baseline.height /\ Canonical(baseline)

DetectReorg ==
    /\ At("detect") /\ ReorgSeen
    /\ tick' = Handler(tick.tip, "pass")
    /\ UNCHANGED <<journal, phase1, baseline>> /\ Unmoved

DetectNone ==
    /\ At("detect") /\ NoReorgSeen
    /\ baseline' = tick.tip
    /\ tick' = Pass("dup")
    /\ UNCHANGED <<journal, phase1>> /\ Unmoved

\* Without the header the cycle is held and the baseline kept.
DetectUnavailable ==
    /\ At("detect")
    /\ tick.tip.height > baseline.height
    /\ LookupsFail \/ ~HeaderKnown(baseline.height)
    /\ tick' = [Down EXCEPT !.place = "idle"]
    /\ UNCHANGED <<journal, phase1, baseline>> /\ Unmoved

\* requireCurrentErgoReadQuorumDecision ends the tick where the quorum's
\* decision has expired: before the handler, before the baseline is moved,
\* before the pass over heartbeats, and before peg-outs and the SCS pass.
QuorumExpires ==
    /\ LookupsFail
    /\ \/ tick.place \in {"detect", "gate"}
       \/ At("purge") /\ tick.todo = {} /\ tick.next = "pass"
       \/ tick = Pass("dup")
    /\ tick' = [Down EXCEPT !.place = "idle"]
    /\ UNCHANGED <<journal, phase1, baseline>> /\ Unmoved

-----------------------------------------------------------------------------
(* reconcileConfirmedOperationalTransactionsAfterReorg. *)

Scanned(t) == [tick EXCEPT !.place = "scan", !.todo = tick.todo \ {t}, !.tx = NoTx]

\* The node does not know the transaction: a row that lost its depth is
\* reopened at once, another one once its block is found replaced.
ScanAttempt(t) ==
    /\ At("scan") /\ t \in tick.todo
    /\ IF ProfileOf[t] = "dup" /\ t \notin avl
       THEN Quarantine(t) /\ tick' = Scanned(t)
       ELSE IF Mined(t)
       THEN /\ tick' = [tick EXCEPT !.place = "scan header", !.tx = t, !.seen = Seen(t)]
            /\ UNCHANGED journal
       ELSE IF tick.tip.height + 1 < Final + attempt[t].block.height
       THEN Reopen(t) /\ tick' = Scanned(t)
       ELSE /\ tick' = [tick EXCEPT !.place = "scan absent", !.tx = t]
            /\ UNCHANGED journal
    /\ UNCHANGED <<phase1, baseline>> /\ Unmoved

\* A read of the scan fails: the attempt is skipped.
ScanFails(t) ==
    /\ LookupsFail
    /\ \/ At("scan") /\ t \in tick.todo
       \/ tick.place \in {"scan header", "scan absent"} /\ t = tick.tx
    /\ tick' = Scanned(t)
    /\ UNCHANGED <<journal, phase1, baseline>> /\ Unmoved

\* The header of the inclusion is a second read.
ScanHeader ==
    LET t == tick.tx
        h == tick.seen.height IN
    /\ At("scan header")
    /\ IF ~HeaderKnown(h) THEN UNCHANGED journal
       ELSE IF tick.seen.confirmations < Final THEN Reopen(t)
       ELSE IF BlockAt(h) # attempt[t].block THEN Rebind(t, BlockAt(h))
       ELSE UNCHANGED journal
    /\ tick' = Scanned(t)
    /\ UNCHANGED <<phase1, baseline>> /\ Unmoved

ScanAbsent ==
    LET t == tick.tx
        b == attempt[t].block IN
    /\ At("scan absent")
    /\ IF HeaderKnown(b.height) /\ ~Canonical(b) THEN Reopen(t) ELSE UNCHANGED journal
    /\ tick' = Scanned(t)
    /\ UNCHANGED <<phase1, baseline>> /\ Unmoved

\* Mutant: rows whose burn was reverted are not looked at.
EndScanOfCreated ==
    /\ At("scan") /\ tick.todo = {}
    /\ tick' = [tick EXCEPT !.place = "purge", !.todo = {k \in LegacyKeys : phase1[k] = "phase1_created"}]
    /\ UNCHANGED <<journal, phase1, baseline>> /\ Unmoved

EndScan ==
    /\ At("scan") /\ tick.todo = {}
    /\ tick' = [tick EXCEPT !.place = "purge",
                            !.todo = {k \in LegacyKeys : phase1[k] \in {"phase1_created", "burn_reverted"}}]
    /\ UNCHANGED <<journal, phase1, baseline>> /\ Unmoved

-----------------------------------------------------------------------------
(* handleErgoReorg over the rows of the retired path. *)

Purged(k) == [tick EXCEPT !.place = "purge", !.todo = tick.todo \ {k}, !.tx = NoTx]

PurgeKey(k) ==
    /\ At("purge") /\ k \in tick.todo
    /\ IF k \in avl /\ ~Mined(k)
       THEN RemoveAvlKey(k) /\ tick' = [tick EXCEPT !.place = "purged", !.tx = k]
       ELSE tick' = Purged(k) /\ UNCHANGED journal
    /\ UNCHANGED <<phase1, baseline>> /\ Unmoved

PurgeFails(k) ==
    /\ At("purge") /\ k \in tick.todo
    /\ LookupsFail
    /\ tick' = Purged(k)
    /\ UNCHANGED <<journal, phase1, baseline>> /\ Unmoved

\* resetPegOutToDetected or clearPhase1Artifacts, a write of its own.
ResetRow ==
    LET k == tick.tx IN
    /\ At("purged")
    /\ phase1' = [phase1 EXCEPT ![k] = IF phase1[k] = "phase1_created" THEN "detected" ELSE "cleared"]
    /\ tick' = Purged(k)
    /\ UNCHANGED <<journal, baseline>> /\ Unmoved

\* The tip this tick began with becomes the baseline, whatever was skipped.
EndHandler ==
    /\ At("purge") /\ tick.todo = {}
    /\ baseline' = tick.tip
    /\ tick' = IF tick.next = "pass" THEN Pass("dup") ELSE [Down EXCEPT !.place = "idle"]
    /\ UNCHANGED <<journal, phase1>> /\ Unmoved

\* processPhase2Unlocks finds the burn of a legacy row reverted.
RevertBurn(k) ==
    /\ At("idle") /\ phase1[k] = "phase1_created"
    /\ phase1' = [phase1 EXCEPT ![k] = "burn_reverted"]
    /\ UNCHANGED <<journal, baseline, tick>> /\ Unmoved
-----------------------------------------------------------------------------
(* confirmPendingDupHeartbeats and reconcileHistoricalScsAttempts. *)

\* The pass is done with t; `held' keeps what depends on the profile waiting.
Passed(t, held) ==
    [tick EXCEPT !.place = IF t \in tick.todo THEN "pass" ELSE "absent",
                 !.todo = tick.todo \ {t}, !.absent = tick.absent \ {t}, !.tx = NoTx,
                 !.inFlight = tick.inFlight \/ held]

ReadHeader(t) == [tick EXCEPT !.place = "header", !.tx = t, !.seen = Seen(t)]

PassAttempt(t) ==
    /\ At("pass") /\ t \in tick.todo
    /\ tick' = IF ~In(t, Reconcilable) THEN Passed(t, FALSE)
               ELSE IF Mined(t) THEN ReadHeader(t)
               ELSE [tick EXCEPT !.todo = tick.todo \ {t}, !.absent = tick.absent \cup {t}]
    /\ UNCHANGED <<journal, phase1, baseline>> /\ Unmoved

\* A read that fails holds the DUP pass; the SCS pass ends on it, unless it is the
\* second look at an absent transaction.
Unread(t) ==
    IF tick.profile = "scs" /\ ~At("absent") THEN [Down EXCEPT !.place = "idle"] ELSE Passed(t, TRUE)

\* Mutant: one confirmation too few is enough.
ConfirmOneEarly ==
    LET t == tick.tx IN
    /\ At("header")
    /\ IF ~HeaderKnown(tick.seen.height)
       THEN tick' = Unread(t) /\ UNCHANGED journal
       ELSE IF tick.seen.confirmations + 1 >= Final
       THEN Confirm(t, BlockAt(tick.seen.height)) /\ tick' = Passed(t, FALSE)
       ELSE tick' = Passed(t, TRUE) /\ UNCHANGED journal
    /\ UNCHANGED <<phase1, baseline>> /\ Unmoved

\* The header at the inclusion height is a second read; a transaction that is deep
\* enough is confirmed in that block.
ConfirmIfFinal ==
    LET t == tick.tx IN
    /\ At("header")
    /\ IF ~HeaderKnown(tick.seen.height)
       THEN tick' = Unread(t) /\ UNCHANGED journal
       ELSE IF tick.seen.confirmations >= Final
       THEN Confirm(t, BlockAt(tick.seen.height)) /\ tick' = Passed(t, FALSE)
       ELSE tick' = Passed(t, TRUE) /\ UNCHANGED journal
    /\ UNCHANGED <<phase1, baseline>> /\ Unmoved

EndPass ==
    /\ At("pass") /\ tick.todo = {}
    /\ tick' = [tick EXCEPT !.place = "absent"]
    /\ UNCHANGED <<journal, phase1, baseline>> /\ Unmoved

\* Mutant: an absent transaction does not hold peg-outs.
AbsentNeverHeld(t) ==
    /\ At("absent") /\ t \in tick.absent
    /\ tick' = IF In(t, Active) /\ Mined(t) THEN ReadHeader(t)
               ELSE IF In(t, Active) /\ tick.tip.height > attempt[t].at + AbandonDelay
               THEN [tick EXCEPT !.place = "source", !.tx = t]
               ELSE Passed(t, FALSE)
    /\ UNCHANGED <<journal, phase1, baseline>> /\ Unmoved

\* Absent transactions are looked up again; one that is still absent is held
\* for a while, and while the mempool holds a spend of the singleton.
AbsentAttempt(t) ==
    /\ At("absent") /\ t \in tick.absent
    /\ \/ /\ ~In(t, Active)
          /\ tick' = Passed(t, FALSE)
       \/ /\ In(t, Active) /\ Mined(t)
          /\ tick' = ReadHeader(t)
       \/ /\ In(t, Active) /\ ~Mined(t)
          /\ \/ tick.tip.height <= attempt[t].at + AbandonDelay
             \/ \E u \in sent : ~Mined(u)
          /\ tick' = Passed(t, TRUE)
       \/ /\ In(t, Active) /\ ~Mined(t)
          /\ tick.tip.height > attempt[t].at + AbandonDelay
          /\ tick' = [tick EXCEPT !.place = "source", !.tx = t]
    /\ UNCHANGED <<journal, phase1, baseline>> /\ Unmoved

SourceUnspent(t) ==
    IF ParentOf[t] = Root THEN ~Mined(t)
    ELSE Mined(ParentOf[t]) /\ \A u \in ChainTxs : Mined(u) => ParentOf[u] # ParentOf[t]

AbandonIfUnspent ==
    LET t == tick.tx IN
    /\ At("source")
    /\ IF SourceUnspent(t)
       THEN Abandon(t) /\ tick' = Passed(t, FALSE)
       ELSE tick' = Passed(t, TRUE) /\ UNCHANGED journal
    /\ UNCHANGED <<phase1, baseline>> /\ Unmoved

\* The read of the source ends either pass when it fails.
PassFails(t) ==
    /\ LookupsFail
    /\ \/ At("pass") /\ t \in tick.todo
       \/ At("absent") /\ t \in tick.absent /\ In(t, Active)
       \/ tick.place \in {"header", "source"} /\ t = tick.tx
    /\ tick' = IF At("source") THEN [Down EXCEPT !.place = "idle"] ELSE Unread(t)
    /\ UNCHANGED <<journal, phase1, baseline>> /\ Unmoved

EndAbsent ==
    /\ At("absent") /\ tick.absent = {}
    /\ tick' = IF tick.profile = "dup" THEN [tick EXCEPT !.place = "gate"]
               ELSE [Down EXCEPT !.place = "idle"]
    /\ UNCHANGED <<journal, phase1, baseline>> /\ Unmoved

\* Peg-outs are processed here, unless the pass was held or a heartbeat is
\* quarantined; then comes the SCS pass.
LeaveGate ==
    /\ At("gate")
    /\ tick' = Pass("scs")
    /\ UNCHANGED <<journal, phase1, baseline>> /\ Unmoved

Crash ==
    /\ ~At("down") /\ crashes < MaxCrashes
    /\ crashes' = crashes + 1
    /\ tick' = Down /\ baseline' = NoBlock
    /\ UNCHANGED <<journal, phase1, branchVars, execution>>

-----------------------------------------------------------------------------
(* executeErgoOperationalTransaction, in the daemon or beside it. *)

Others == UNCHANGED <<phase1, baseline, tick, crashes>>

ReserveAttempt(t) ==
    /\ execution[t] = "idle"
    /\ Reserve(t, Len(best))
    /\ execution' = [execution EXCEPT ![t] = "journaled"]
    /\ UNCHANGED branchVars /\ Others

\* The submission may be lost on its way.
Submit(t) ==
    /\ execution[t] = "journaled"
    /\ execution' = [execution EXCEPT ![t] = "submitted"]
    /\ sent' \in {sent, sent \cup {t}}
    /\ UNCHANGED <<journal, best, branches, minedAt>> /\ Others

FinalizeAttempt(t) ==
    /\ execution[t] = "submitted"
    /\ \/ t \in sent /\ Finalize(t, "accepted")
       \/ Finalize(t, "ambiguous")
    /\ execution' = [execution EXCEPT ![t] = "idle"]
    /\ UNCHANGED branchVars /\ Others

\* It throws, or its process dies.
EndExecution(t) ==
    /\ execution[t] # "idle"
    /\ execution' = [execution EXCEPT ![t] = "idle"]
    /\ UNCHANGED <<journal, branchVars>> /\ Others

Execute(t) == ReserveAttempt(t) \/ Submit(t) \/ FinalizeAttempt(t) \/ EndExecution(t)

\* A tick does not outlast TickGrowth blocks.
MoveChain ==
    /\ ChainStep
    /\ tick.tip # NoBlock => Len(best') <= tick.tip.height + TickGrowth
    /\ UNCHANGED <<journal, daemon>>

Detect == DetectReorg \/ DetectNone \/ DetectUnavailable
Scan == (\E t \in Txs : ScanAttempt(t)) \/ ScanHeader \/ ScanAbsent \/ EndScan
Purge == (\E k \in LegacyKeys : PurgeKey(k)) \/ ResetRow \/ EndHandler
Reconcile ==
    \/ \E t \in Txs : PassAttempt(t) \/ AbsentAttempt(t)
    \/ ConfirmIfFinal \/ EndPass \/ AbandonIfUnspent \/ EndAbsent \/ LeaveGate
Daemon == Start \/ BeginTick \/ Detect \/ Scan \/ Purge \/ Reconcile
ReadFails ==
    \/ \E t \in Txs : ScanFails(t) \/ PassFails(t)
    \/ \E k \in LegacyKeys : PurgeFails(k)
    \/ QuorumExpires

Next ==
    \/ Daemon \/ ReadFails \/ Crash
    \/ \E k \in LegacyKeys : RevertBurn(k)
    \/ \E t \in Txs : Execute(t)
    \/ MoveChain

\* A lookup that is tried again and again succeeds, and the quorum does not
\* expire at the same point of every tick.
RetriesSucceed ==
    /\ SF_vars(DetectReorg \/ DetectNone)
    /\ SF_vars(EndHandler)
    /\ SF_vars(EndPass)
    /\ SF_vars(LeaveGate)
    /\ \A k \in LegacyKeys : SF_vars(PurgeKey(k))
    /\ \A t \in Txs : SF_vars(PassAttempt(t))
    /\ SF_vars(ConfirmIfFinal)

Spec == Init /\ [][Next]_vars
\* The daemon keeps ticking.
FairSpec == Spec /\ WF_vars(Daemon)
RetryingSpec == FairSpec /\ RetriesSucceed
-----------------------------------------------------------------------------
IsFinal(t) == Mined(t) /\ Confirmations(t) >= Final

\* Every journaled transaction that stays final in the chain ends up confirmed,
\* also one that was abandoned or superseded before it was mined.
FinalConfirmed ==
    \A t \in Txs : (Recorded(t) /\ IsFinal(t)) ~> (In(t, {"confirmed"}) \/ ~IsFinal(t))

\* handleErgoReorg: the key of a Phase 1 transaction that left the chain leaves
\* the local history ("don't purge, retry next cycle" when a read fails).
PhantomKeyPurged ==
    \A k \in LegacyKeys : (k \in avl /\ ~Mined(k)) ~> (k \notin avl \/ Mined(k))

\* The daemon's pass never leaves a heartbeat active without holding peg-out
\* processing for this tick.
ActiveHeld ==
    [][\A t \in Txs :
          LET open == tick.todo \cup tick.absent IN
          /\ tick.place \in {"pass", "header", "absent", "source"}
          /\ t \in open /\ t \notin tick'.todo \cup tick'.absent
          /\ tick'.place \in {"pass", "absent"}
          /\ In(t, Active)'
          => tick'.inFlight]_vars

\* The quarantine of confirmed heartbeats without a key, which would hold
\* peg-outs for ever, is never reached.
NoneQuarantined == \A t \in Txs : ~In(t, {"quarantined"})
=============================================================================
