----------------------------- MODULE PayoutOnce -----------------------------
(***************************************************************************)
(* What the authenticated settlement promises of a payout: a transaction is  *)
(* claimed before it is handed to the network, it is handed over at most     *)
(* once, and no transaction it conflicts with is ever claimed.               *)
(***************************************************************************)
EXTENDS Naturals

CONSTANTS
    Candidates,     \* settlement transactions
    Conflicts       \* pairs that pay the same burn or spend a common box

VARIABLES claimed, broadcasts

vars == <<claimed, broadcasts>>

Init ==
    /\ claimed = {}
    /\ broadcasts = [c \in Candidates |-> 0]

Claim(c) ==
    /\ \A d \in claimed : <<d, c>> \notin Conflicts
    /\ claimed' = claimed \cup {c}
    /\ UNCHANGED broadcasts

Send(c) ==
    /\ c \in claimed
    /\ broadcasts[c] = 0
    /\ broadcasts' = [broadcasts EXCEPT ![c] = 1]
    /\ UNCHANGED claimed

Next == \E c \in Candidates : Claim(c) \/ Send(c)

Spec == Init /\ [][Next]_vars
=============================================================================
