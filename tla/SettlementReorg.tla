--------------------------- MODULE SettlementReorg ---------------------------
(* SettlementExecution on a chain that remembers its deepest reorganisation. *)
EXTENDS SettlementExecution

VARIABLE deepest            \* history: how deep a reorganisation went

ReorgVars == <<vars, deepest>>

ReorgInit == Init /\ deepest = 0

ReorgNext ==
    /\ Next
    /\ \/ tip'.fork = tip.fork /\ UNCHANGED deepest
       \/ /\ tip'.fork # tip.fork
          /\ \E depth \in 1..MaxReorgDepth, h \in 1..(tip.height + 1), S \in SUBSET Candidates :
                /\ Reorg(depth, h, S)
                /\ deepest' = IF depth > deepest THEN depth ELSE deepest

ReorgSpec == ReorgInit /\ [][ReorgNext]_ReorgVars

\* As long as no reorganisation was as deep as the confirmations the policy asks
\* for, a confirmed attempt's transaction is in the block that was recorded for
\* it, however old the observation was when it was recorded.
ConfirmedOnChain ==
    deepest < RequiredConfirmations =>
        \A r \in Reservations : attempt[r].status = "confirmed" =>
            included[CandidateOf[r]] = attempt[r].observation.inclusion
=============================================================================
