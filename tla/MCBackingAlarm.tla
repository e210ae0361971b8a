---------------------------- MODULE MCBackingAlarm ----------------------------
(* One deposit that is burnt again, its legacy payout and its settlement      *)
(* candidate, and a loss; one reorganisation, of either chain.                *)
EXTENDS BackingAlarm

CONSTANTS b1, c1, d1, l1, t1, x1

MCBurnOf == [c \in {c1} |-> b1]
MCBox == [c \in {c1} |-> x1]
MCCandidateOf == [r \in {} |-> c1]
MCBurnsOf == [t \in {t1} |-> {b1}]
MCAmount == [x \in {b1, d1, l1} |-> 1]

\* Bound: MaxBranches is for the two chains together.
OneSwitchNext == Next /\ mainBranches' + sideBranches' <= MaxBranches

OneSwitchSpec == Init /\ [][OneSwitchNext]_vars /\ Fairness
=============================================================================
