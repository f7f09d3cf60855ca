-------------------------- MODULE SentryNavigation --------------------------
(***************************************************************************)
(* The navigation chain of bringup_sim_bt.launch.py and                    *)
(* bringup_real_bt.launch.py: the decision process publishes poses on      *)
(* /goal_pose, the bridge turns them into goals, Nav2 drives the robot.    *)
(* The topic keeps the last TopicDepth poses the bridge has not taken yet. *)
(***************************************************************************)
EXTENDS Sentry

CONSTANTS
  Near, MaxGoals, MaxFaults, MaxCrashes, Prompt,
  TopicDepth     \* depth of the bridge's subscription (10 in the code)

ASSUME DepthAssumption == TopicDepth \in Nat \ {0}

VARIABLES
  have_last_goal, last_goal, goal_counter, current_goal_handle, heard, target,
  client, goal_req, goal_resp, cancel_req, server, nav, faults, crashes,
  topic          \* poses on /goal_pose, oldest first

B == INSTANCE GoalPoseBridge

ASSUME ChainAssumption ==
  B!PoseAssumption /\ B!NearAssumption /\ B!BoundAssumption /\ B!PromptAssumption

decisionVars == <<tree, memory, seen, bb, age, timer, out, wanted, inbox, csv>>
bridgeVars == <<have_last_goal, last_goal, goal_counter, current_goal_handle, heard, target,
                client, goal_req, goal_resp, cancel_req, server, nav, faults, crashes>>
chainVars == <<decisionVars, robot, bridgeVars, topic>>

ChainInit == Init /\ B!Init /\ topic = <<>>

KeepLast(s) ==
  IF Len(s) > TopicDepth THEN SubSeq(s, Len(s) - TopicDepth + 1, Len(s)) ELSE s

\* The tree runs, and what it publishes is queued for the bridge.
Publish ==
  /\ TickTree
  /\ topic' = KeepLast(topic \o out')
  /\ UNCHANGED bridgeVars

ReadStatus(s) == Receive(s) /\ UNCHANGED <<bridgeVars, topic>>

\* The bridge takes the oldest pose.
Take ==
  /\ topic # <<>>
  /\ B!GoalCallback(Head(topic))
  /\ topic' = Tail(topic)
  /\ UNCHANGED <<decisionVars, robot>>

GoalResponse == B!GoalResponse /\ UNCHANGED <<decisionVars, robot, topic>>

GoalResult(g) == B!GoalResult(g) /\ UNCHANGED <<decisionVars, robot, topic>>

TakeGoal == B!TakeGoal /\ UNCHANGED <<decisionVars, robot, topic>>

TakeCancel(g) == B!TakeCancel(g) /\ UNCHANGED <<decisionVars, robot, topic>>

\* A goal succeeds when the robot has got there.
Arrive(g) ==
  /\ B!Succeed(g)
  /\ robot' = target[g]
  /\ UNCHANGED <<decisionVars, topic>>

Abort(g) == B!Abort(g) /\ UNCHANGED <<decisionVars, robot, topic>>

Lifecycle ==
  /\ B!Configure \/ B!Activate \/ B!Deactivate \/ B!Crash
  /\ UNCHANGED <<decisionVars, robot, topic>>

GoalIds == B!GoalIds

ChainNext ==
  \/ Publish
  \/ \E s \in Statuses : ReadStatus(s)
  \/ Take
  \/ GoalResponse
  \/ \E g \in GoalIds : GoalResult(g)
  \/ TakeGoal
  \/ \E g \in GoalIds : TakeCancel(g)
  \/ \E g \in GoalIds : Arrive(g)
  \/ \E g \in GoalIds : Abort(g)
  \/ Lifecycle

ChainSpec == ChainInit /\ [][ChainNext]_chainVars

\* Whether Publish changes anything, as TickMatters in module Sentry.
PublishMatters == TickMatters \/ KeepLast(topic \o After.out) # topic

\* WF_chainVars(Publish), written out as TicksGoOn in module Sentry.
PublishingGoesOn == []<>~PublishMatters \/ []<><<Publish>>_chainVars

\* The main loop and both executors keep running, Nav2 drives, and the
\* lifecycle manager brings Nav2 up.
ChainFairness ==
  /\ PublishingGoesOn
  /\ WF_chainVars(Take)
  /\ WF_chainVars(GoalResponse)
  /\ WF_chainVars(TakeGoal)
  /\ \A g \in GoalIds : /\ WF_chainVars(GoalResult(g))
                        /\ WF_chainVars(TakeCancel(g))
                        /\ WF_chainVars(Arrive(g))
  /\ WF_chainVars((B!Configure \/ B!Activate) /\ UNCHANGED <<decisionVars, robot, topic>>)

FairChainSpec == ChainSpec /\ ChainFairness

-----------------------------------------------------------------------------
\* cod_behavior/README.md:37-38 and goal_pose_bridge.cpp:97-98: when the hit
\* points stay low the robot gets home, even if Nav2 is not up yet or fails
\* on the way (in the behaviours that stay within the bound on goals).
Low == seen # NoStatus /\ seen.hp < 210

LowHpGetsHome ==
  [](goal_counter < MaxGoals) => (<>[]Low => <>(robot = "home"))

\* Nothing the tree published is still on its way to the server.
Delivered == topic = <<>> /\ goal_req = <<>>

\* What cod_behavior and goal_pose_bridge achieve together: whatever poses are
\* filtered, dropped with the queue full or replaced on the way, and whatever
\* answers are late, the server drives only where the tree published last.
DrivesWhereWanted ==
  Delivered => \A g \in GoalIds : server[g] = "active" => <<target[g], wanted>> \in Near

\* While the robot retreats that is home, unless the retreat starts within the
\* interval after home was published last (never with Interval <= 1).
RetreatDrivesHome ==
  Retreating /\ Delivered => \A g \in GoalIds : server[g] = "active" => target[g] = "home"
=============================================================================
