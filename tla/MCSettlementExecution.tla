----------------------- MODULE MCSettlementExecution -----------------------
(* c1 and c2 settle burn b1 from different DUP boxes and one vault. *)
EXTENDS SettlementExecution, TLC

CONSTANTS b1, c1, c2, d1, d2, v1, r1, r2, e1, e2, t1

\* Competing candidates of one burn.
RacingBurnOf == c1 :> b1 @@ c2 :> b1
RacingDupOf == c1 :> d1 @@ c2 :> d2
RacingVaultOf == c1 :> v1 @@ c2 :> v1
RacingCandidateOf == r1 :> c1 @@ r2 :> c2

\* One candidate on a chain that reorganises.
SingleBurnOf == c1 :> b1
SingleDupOf == c1 :> d1
SingleVaultOf == c1 :> v1
SingleCandidateOf == r1 :> c1

\* With and without a legacy transaction that claims the burn too.
LegacyBurnsOf == t1 :> {b1}
NoBurnsOf == [t \in {} |-> {}]

Symmetry == Permutations(Executors)
=============================================================================
