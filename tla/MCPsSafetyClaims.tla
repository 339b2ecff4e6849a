-------------------------- MODULE MCPsSafetyClaims --------------------------
(***************************************************************************)
(* The statement, on the boxes and results of MCPsSafety.                  *)
(***************************************************************************)
EXTENDS PsSafetyClaims

Near   == [objectness |-> 90, x |-> 256, y |-> 108, width |-> 128, height |-> 180]
Beside == [objectness |-> 90, x |-> 500, y |-> 108, width |-> 128, height |-> 180]

ClaimBoxes   == {Near, Beside}
ClaimResults == {[ok |-> TRUE, class_id |-> person]}
=============================================================================
