------------------------------ MODULE MCPipeline ------------------------------
(***************************************************************************)
(* Pipeline for TLC, with the scripts of the README.                       *)
(***************************************************************************)
EXTENDS Pipeline, TLC

ScriptSymmetry == Permutations(Scripts)

\* README, "How it works in detail".
DetailedScript == <<"catchup", "get-log", "catchup", "create-diff">>

\* README, "Usage".
ShortScript == <<"get-log --catchup", "create-diff">>

Detailed == {DetailedScript}
Mixed    == {DetailedScript, ShortScript}

=============================================================================
