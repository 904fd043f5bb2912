------------------------------ MODULE MCRecovery ------------------------------
(***************************************************************************)
(* Recovery for TLC: two versions of a node and a way of the same id; a    *)
(* table may lose its first column, so that the others move, or may have   *)
(* no redaction_id, which get-log does not accept.                         *)
(***************************************************************************)
EXTENDS Recovery

NodeV1 == Object("n", 3, 1, 5)
NodeV2 == Object("n", 3, 2, 5)
WayV1  == Object("w", 3, 1, 6)

OldLayout == <<"other", "id", "changeset_id", "version", "redaction_id">>
NewLayout == <<"id", "changeset_id", "version", "redaction_id", "other">>
BadLayout == <<"id", "changeset_id", "version">>

MCObjects     == {NodeV1, NodeV2, WayV1}
MCLayouts     == {OldLayout, NewLayout, BadLayout}
MCFirstLayout == OldLayout

=============================================================================
