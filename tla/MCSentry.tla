------------------------------ MODULE MCSentry ------------------------------
(* Instances of Sentry for TLC.  The hit points are those around the two   *)
(* thresholds; 209 stands for all below, also for the 0 of a failed read.  *)
EXTENDS Sentry

FewHps == {209, 349, 350}

MCPoses == {"main", "main1", "home", "ap_position1", "w1", "w2"}

Row(pose, wait) == [kind |-> "ok", pose |-> pose, wait |-> wait]

TwoWaypoints == <<Row("w1", 2), [kind |-> "bad", pose |-> "main", wait |-> 0], Row("w2", 0)>>

TwoFiles == {TwoWaypoints, <<Row("w2", 1), Row("w1", 0)>>}
=============================================================================
