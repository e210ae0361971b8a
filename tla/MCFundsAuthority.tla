-------------------------- MODULE MCFundsAuthority --------------------------
(* Two processes with one database. *)
EXTENDS FundsAuthority, TLC

CONSTANTS p1, p2

MCProcesses == {p1, p2}
Symmetry == Permutations(Processes)
=============================================================================
