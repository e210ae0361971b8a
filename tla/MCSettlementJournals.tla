------------------------ MODULE MCSettlementJournals ------------------------
(* c1 settles burn b1 and c2 burn b2, from one DUP box; c1 can be authorised    *)
(* twice.  t1 is a legacy batch of both burns, t2 a legacy single settlement    *)
(* of b1.                                                                       *)
EXTENDS SettlementJournals, TLC

CONSTANTS b1, b2, c1, c2, d1, v1, v2, r1, r2, r3, t1, t2

MCBurnOf == c1 :> b1 @@ c2 :> b2
MCDupOf == c1 :> d1 @@ c2 :> d1
MCVaultOf == c1 :> v1 @@ c2 :> v2
MCCandidateOf == r1 :> c1 @@ r2 :> c1 @@ r3 :> c2
MCBurnsOf == t1 :> {b1, b2} @@ t2 :> {b1}
=============================================================================
