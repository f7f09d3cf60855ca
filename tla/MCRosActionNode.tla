--------------------------- MODULE MCRosActionNode ---------------------------
(* An instance of RosActionNode for TLC: executions that succeed, fail, are  *)
(* rejected or halted, each followed by another one.                         *)
EXTENDS RosActionNode
=============================================================================
