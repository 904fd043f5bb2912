----------------------------- MODULE MCCreateDiff -----------------------------
(***************************************************************************)
(* CreateDiff for TLC: the processes are interchangeable.                  *)
(***************************************************************************)
EXTENDS CreateDiff, TLC

RunnerSymmetry == Permutations(Runners)

=============================================================================
