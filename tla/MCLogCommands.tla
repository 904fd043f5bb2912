---------------------------- MODULE MCLogCommands ----------------------------
(***************************************************************************)
(* LogCommands for TLC: the processes are interchangeable.                 *)
(***************************************************************************)
EXTENDS LogCommands, TLC

ProcSymmetry == Permutations(Procs)

=============================================================================
