-------------------------- MODULE MCGoalPoseBridge --------------------------
(* Instances of GoalPoseBridge for TLC: two patrol points closer than the  *)
(* tolerance and one far from both.                                        *)
EXTENDS GoalPoseBridge

CONSTANTS ap1, ap1b, home

MCPoses == {ap1, ap1b, home}

\* Two poses far apart are enough for the liveness run.
TwoPoses == {ap1, home}

TwoNear == {<<p, p>> : p \in TwoPoses}

MCNear == {<<p, p>> : p \in MCPoses} \cup {<<ap1, ap1b>>, <<ap1b, ap1>>}
=============================================================================
