------------------------------ MODULE SoleGoal ------------------------------
(***************************************************************************)
(* What a user of goal_pose_bridge.cpp may rely on (comment at :12-16): at *)
(* any time the node owns at most one goal, the one it sent last, and the  *)
(* only goals it ever asks the server to cancel are older ones.            *)
(***************************************************************************)
EXTENDS Naturals

VARIABLES
  sent,     \* how many goals were sent; the last one is number sent
  owned,    \* the goal the node could still cancel, 0 for none
  cancels   \* goals whose cancellation was asked for and not yet handled

soleVars == <<sent, owned, cancels>>

SoleInit == sent = 0 /\ owned = 0 /\ cancels = {}

\* A new goal replaces the owned one, which is the only one cancelled.
Replace ==
  /\ sent' = sent + 1
  /\ owned' = 0
  /\ cancels' = cancels \cup ({owned} \ {0})

\* The goal sent last becomes, or stops being, the owned one.
Own == sent > 0 /\ owned' = sent /\ UNCHANGED <<sent, cancels>>

Disown == owned' = 0 /\ UNCHANGED <<sent, cancels>>

\* Cancel requests reach the server, or are lost with it.
Handled == cancels' \in SUBSET cancels /\ UNCHANGED <<sent, owned>>

SoleNext == Replace \/ Own \/ Disown \/ Handled

SoleSpec == SoleInit /\ [][SoleNext]_soleVars
=============================================================================
