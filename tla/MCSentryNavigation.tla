------------------------ MODULE MCSentryNavigation ------------------------
(* Instances of SentryNavigation for TLC: places far from each other, no   *)
(* patrol, and two or fewer hit points.                                    *)
EXTENDS SentryNavigation

MCPoses == {"main", "main1", "home", "ap_position1"}
MCNear == {<<p, p>> : p \in MCPoses}
NoFile == {<<>>}
=============================================================================
