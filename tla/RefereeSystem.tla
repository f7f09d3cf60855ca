----------------------------- MODULE RefereeSystem -----------------------------
(***************************************************************************)
(* The chain of launch/referee_simulator.launch.py: the match and the      *)
(* decisions of module Referee, obeyed by referee_executor of module       *)
(* RefereeExecutor, which drives the robot home through Nav2.  The         *)
(* processes are joined by the topic of the decisions.                     *)
(***************************************************************************)
EXTENDS Naturals, Sequences

CONSTANTS
  MaxHp, MaxAmmo, HeatLimit, PreparationTime, SelfCheckTime, RunningTime, Depth, MaxCommands,
  MaxGoals, MaxFaults

VARIABLES
  stage, stage_time_left, hp, ammo, heat, alive, commands, game_topic, robot_topic,
  current_stage, last_robot_status, decision_topic,                     \* Referee
  current_decision, retreat_active, sent, goal_req, cancel_all, awaited,
  server, nav, faults, missed, exposed, forgotten                       \* RefereeExecutor

R == INSTANCE Referee
E == INSTANCE RefereeExecutor

ASSUME ParameterAssumption == R!ParameterAssumption
ASSUME BoundAssumption == E!BoundAssumption

matchVars == <<stage, stage_time_left, hp, ammo, heat, alive, commands, game_topic, robot_topic,
               current_stage, last_robot_status>>
executorVars == <<current_decision, retreat_active, sent, goal_req, cancel_all, awaited, server,
                  nav, faults, missed, exposed, forgotten>>
vars == <<matchVars, decision_topic, executorVars>>

Init == R!Init /\ E!Init

-----------------------------------------------------------------------------
\* The next decision reaches decision_callback, which ignores a repeated one.
ReadDecision ==
  /\ decision_topic # <<>>
  /\ decision_topic' = Tail(decision_topic)
  /\ \/ E!DecisionCallback(Head(decision_topic))
     \/ Head(decision_topic) = current_decision /\ UNCHANGED executorVars
  /\ UNCHANGED matchVars

\* Steps of the match, and of Nav2 and its answers.
Match == R!Next /\ UNCHANGED executorVars
Results == (\E g \in E!GoalIds : E!RetreatResult(g)) /\ UNCHANGED <<matchVars, decision_topic>>
Requests == (E!TakeGoal \/ E!TakeCancel) /\ UNCHANGED <<matchVars, decision_topic>>
Driving ==
  /\ E!Lifecycle \/ \E g \in E!GoalIds : E!Succeed(g) \/ E!Abort(g)
  /\ UNCHANGED <<matchVars, decision_topic>>

Next == Match \/ ReadDecision \/ Results \/ Requests \/ Driving

Spec == Init /\ [][Next]_vars

\* The simulator's timer fires every second, the three nodes keep spinning, and
\* Nav2 handles requests; it need not reach a goal, nor come up.
Fairness ==
  /\ WF_vars(R!Timer /\ UNCHANGED executorVars)
  /\ WF_vars(R!ReadGame /\ UNCHANGED executorVars)
  /\ WF_vars(R!ReadRobot /\ UNCHANGED executorVars)
  /\ WF_vars(ReadDecision) /\ WF_vars(Results) /\ WF_vars(Requests)

FairSpec == Spec /\ Fairness

-----------------------------------------------------------------------------
TypeOK == R!TypeOK /\ E!TypeOK

Settled == game_topic = <<>> /\ robot_topic = <<>> /\ decision_topic = <<>>

\* decision_node.cpp:42-57: whatever order the two topics were read in, the executor
\* in the end obeys the decision that the status read last calls for.
DecisionIsCurrent ==
  Settled /\ last_robot_status # R!DefaultStatus =>
    current_decision = R!Evaluate(current_stage, last_robot_status)

\* referee_executor.cpp:41-55: once the cancel requests were handled, the robot drives
\* home under another decision than RETREAT only with a goal that the cancel request
\* overtook, or that the node forgot when the result of an earlier retreat came.
NoStrayRetreat == E!NoStrayRetreat

\* referee_executor.cpp:46-53: the goal of the retreat that is called for is cancelled
\* only if a cancel request was still on its way when the goal was sent.
RetreatIsNotCancelled == E!RetreatIsNotCancelled

\* referee_executor.cpp:78,85: while the decision is RETREAT the node knows of the goal
\* that runs, unless the result of an earlier retreat came after it was sent.
RunningIsKnown == E!RunningIsKnown

\* referee_simulator_node.cpp:91-99: the match always ends (running out of hit
\* points does not end it earlier), and although the simulator leaves right after
\* its last message the executor is shut down and the robot driven nowhere, but
\* with a goal that a cancel request overtook.
GameOverShutsDown ==
  <>[](/\ ~alive /\ current_decision = "SHUTDOWN"
       /\ \A g \in E!GoalIds : server[g] = "active" => g \in missed)
=============================================================================
