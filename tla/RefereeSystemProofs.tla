------------------------- MODULE RefereeSystemProofs -------------------------
(* The executor's promises in the chain of referee_simulator.launch.py: every  *)
(* step of the chain is one of the executor or leaves it alone, for any match, *)
(* whatever the commands, the depth of the topics and the order in which they  *)
(* are read.                                                                   *)
EXTENDS RefereeSystem, SequenceTheorems, TLAPS

EP == INSTANCE RefereeExecutorProofs

-----------------------------------------------------------------------------
(* What travels on the topics.                                             *)

TopicsTyped ==
  /\ stage \in R!Stages /\ current_stage \in R!Stages
  /\ game_topic \in Seq(R!Stages) /\ decision_topic \in Seq(R!Decisions)

(* A topic keeps the type of its messages, also when it drops one.         *)
LEMMA PutKeeps ==
  ASSUME NEW S, NEW topic \in Seq(S), NEW m \in S
  PROVE  R!Put(topic, m) \in Seq(S)
  <1>1. Depth \in Nat \ {0}
    BY ParameterAssumption DEF R!ParameterAssumption
  <1>2. CASE Len(topic) < Depth
    BY <1>2 DEF R!Put
  <1>3. CASE ~(Len(topic) < Depth)
    <2>1. topic # <<>>
      BY <1>1, <1>3
    <2>2. Tail(topic) \in Seq(S)
      BY <2>1
    <2> QED
      BY <1>3, <2>2 DEF R!Put
  <1> QED
    BY <1>2, <1>3

(* Every stage calls for a decision.                                       *)
LEMMA EvaluateDecides ==
  ASSUME NEW s \in R!Stages, NEW r
  PROVE  R!Evaluate(s, r) \in R!Decisions
  <1>1. R!EvaluateRunning(r) \in R!Decisions
    BY DEF R!EvaluateRunning, R!Decisions
  <1> QED
    BY <1>1 DEF R!Evaluate, R!Stages, R!Decisions

LEMMA TopicsStayTyped ==
  ASSUME TopicsTyped, [Next]_vars
  PROVE  TopicsTyped'
  <1> USE DEF TopicsTyped
  <1>1. CASE R!Timer
    <2>1. stage' \in R!Stages
      BY <1>1 DEF R!Timer, R!TimerPreparation, R!TimerSelfCheck, R!TimerRunning,
                  R!TimerGameOver, R!Stages
    <2>2. game_topic' \in Seq(R!Stages)
      BY <1>1, <2>1, PutKeeps DEF R!Timer, R!PublishStatus
    <2> QED
      BY <1>1, <2>1, <2>2 DEF R!Timer
  <1>2. CASE R!Command
    BY <1>2 DEF R!Command, R!SwitchTo, R!SetStatus, R!Stages
  <1>3. CASE R!ReadGame
    <2>1. current_stage' \in R!Stages /\ game_topic' \in Seq(R!Stages) /\ UNCHANGED stage
      BY <1>3 DEF R!ReadGame, R!simVars
    <2>2. decision_topic' \in Seq(R!Decisions)
      BY <1>3, <2>1, EvaluateDecides, PutKeeps DEF R!ReadGame
    <2> QED
      BY <2>1, <2>2
  <1>4. CASE R!ReadRobot
    <2>1. UNCHANGED <<stage, current_stage, game_topic>>
      BY <1>4 DEF R!ReadRobot, R!simVars
    <2>2. decision_topic' \in Seq(R!Decisions)
      BY <1>4, EvaluateDecides, PutKeeps DEF R!ReadRobot
    <2> QED
      BY <2>1, <2>2
  <1>5. CASE ReadDecision
    BY <1>5 DEF ReadDecision, matchVars
  <1>6. CASE UNCHANGED <<matchVars, decision_topic>>
    BY <1>6 DEF matchVars
  <1> QED
    BY <1>1, <1>2, <1>3, <1>4, <1>5, <1>6
    DEF Next, Match, R!Next, Results, Requests, Driving, vars

-----------------------------------------------------------------------------
(* The executor within the chain.                                          *)

LEMMA SameBounds == EP!BoundAssumption
  BY BoundAssumption DEF E!BoundAssumption, EP!BoundAssumption

LEMMA SameInit == E!Init => EP!Init
  BY DEF E!Init, EP!Init, E!GoalIds, EP!GoalIds

(* The decision that is read is one the executor knows, or repeats the current *)
(* one.                                                                        *)
LEMMA DecisionStep ==
  ASSUME TopicsTyped, ReadDecision
  PROVE  [EP!Next]_(EP!vars)
  <1>1. Head(decision_topic) \in EP!Decisions
    BY DEF TopicsTyped, ReadDecision, R!Decisions, EP!Decisions
  <1>2. CASE E!DecisionCallback(Head(decision_topic))
    <2>1. EP!DecisionCallback(Head(decision_topic))
      BY <1>2 DEF E!DecisionCallback, E!Stop, E!CancelAll, E!Ready, E!Retreat, E!LeaveRetreat,
                  E!Stopping, E!GoalIds, EP!DecisionCallback, EP!Stop, EP!CancelAll, EP!Ready,
                  EP!Retreat, EP!LeaveRetreat, EP!Stopping, EP!GoalIds
    <2> QED
      BY <1>1, <2>1 DEF EP!Next
  <1>3. CASE UNCHANGED executorVars
    BY <1>3 DEF executorVars, EP!vars, EP!nodeVars, EP!history
  <1> QED
    BY <1>2, <1>3 DEF ReadDecision

LEMMA ServerStep ==
  ASSUME Results \/ Requests \/ Driving
  PROVE  EP!Next
  <1>1. CASE Results
    BY <1>1 DEF Results, E!GoalIds, EP!GoalIds, E!RetreatResult, EP!RetreatResult,
                E!Ended, EP!Ended, EP!Next
  <1>2. CASE Requests
    BY <1>2 DEF Requests, E!TakeGoal, EP!TakeGoal, E!TakeCancel, EP!TakeCancel, E!End, EP!End,
                E!GoalIds, EP!GoalIds, E!Ready, EP!Ready, E!nodeVars, EP!nodeVars, E!history,
                EP!history, E!ToSet, EP!ToSet, EP!Next
  <1>3. ASSUME NEW g \in E!GoalIds, E!Succeed(g) \/ E!Abort(g) PROVE EP!Next
    BY <1>3 DEF E!Succeed, EP!Succeed, E!Abort, EP!Abort, E!GoalIds, EP!GoalIds, E!nodeVars,
                EP!nodeVars, E!history, EP!history, EP!Next
  <1>4. CASE E!Lifecycle
    BY <1>4 DEF E!Lifecycle, EP!Lifecycle, E!End, EP!End, E!GoalIds, EP!GoalIds, E!nodeVars,
                EP!nodeVars, E!history, EP!history, EP!Next
  <1> QED
    BY <1>1, <1>2, <1>3, <1>4 DEF Driving

(* A step of the chain is a step of the executor or leaves it alone.           *)
LEMMA StepIsExecutors ==
  ASSUME TopicsTyped, [Next]_vars
  PROVE  [EP!Next]_(EP!vars)
  <1>1. CASE Match \/ UNCHANGED vars
    BY <1>1 DEF Match, vars, executorVars, EP!vars, EP!nodeVars, EP!history
  <1>2. CASE Next /\ ~Match
    BY <1>2, DecisionStep, ServerStep DEF Next
  <1> QED
    BY <1>1, <1>2

(* The chain implements the executor: the match and its topics only choose     *)
(* the decisions that reach decision_callback (referee_executor.cpp:38), and   *)
(* never one the node does not know.                                           *)
THEOREM ImplementsExecutor == Spec => EP!Spec
  <1>1. Init => TopicsTyped /\ EP!Init
    BY SameInit DEF Init, R!Init, TopicsTyped, R!Stages
  <1>2. TopicsTyped /\ [Next]_vars => TopicsTyped'
    BY TopicsStayTyped
  <1>3. TopicsTyped /\ [Next]_vars => [EP!Next]_(EP!vars)
    BY StepIsExecutors
  <1> QED
    BY <1>1, <1>2, <1>3, PTL DEF Spec, EP!Spec

(* referee_executor.cpp:41-55: whatever the match, and however late Nav2        *)
(* answers, once the cancel requests were handled the robot drives to the       *)
(* origin under another decision than RETREAT only with a goal that a cancel    *)
(* request overtook or that the node forgot.                                    *)
THEOREM RetreatEndsWithDecision == Spec => []NoStrayRetreat
  <1>1. EP!Spec => []EP!NoStrayRetreat
    BY SameBounds, EP!RetreatEndsWithDecision
  <1>2. EP!NoStrayRetreat => NoStrayRetreat
    BY DEF NoStrayRetreat, E!NoStrayRetreat, EP!NoStrayRetreat, E!GoalIds, EP!GoalIds
  <1> QED
    BY <1>1, <1>2, ImplementsExecutor, PTL

(* referee_executor.cpp:46-53: whatever the match, and however late Nav2        *)
(* answers, the goal of the retreat that is called for is cancelled only if a   *)
(* cancel request was on its way when the goal was sent.                        *)
THEOREM RetreatIsSafe == Spec => []RetreatIsNotCancelled
  <1>1. EP!Spec => []EP!RetreatIsNotCancelled
    BY SameBounds, EP!RetreatIsSafe
  <1>2. EP!RetreatIsNotCancelled => RetreatIsNotCancelled
    BY DEF RetreatIsNotCancelled, E!RetreatIsNotCancelled, EP!RetreatIsNotCancelled
  <1> QED
    BY <1>1, <1>2, ImplementsExecutor, PTL

(* referee_executor.cpp:78,85: whatever the match, and however late Nav2        *)
(* answers, during a retreat the node knows of the goal that runs, unless the   *)
(* result of an earlier retreat came after the goal was sent.                   *)
THEOREM RetreatIsKnown == Spec => []RunningIsKnown
  <1>1. EP!Spec => []EP!RunningIsKnown
    BY SameBounds, EP!RetreatIsKnown
  <1>2. EP!RunningIsKnown => RunningIsKnown
    BY DEF RunningIsKnown, E!RunningIsKnown, EP!RunningIsKnown, E!GoalIds, EP!GoalIds
  <1> QED
    BY <1>1, <1>2, ImplementsExecutor, PTL

-----------------------------------------------------------------------------
(* The decision the executor obeys.                                        *)

\* What decision_node decided last is the newest message that travels, or has
\* been obeyed.
LastDecision ==
  IF decision_topic = <<>> THEN current_decision ELSE decision_topic[Len(decision_topic)]

Evaluated == R!Evaluate(current_stage, last_robot_status)

\* It is what the statuses read last call for: from the first message on, and
\* from the first robot status on even after the message was read.
NewestIsCurrent ==
  decision_topic # <<>> \/ last_robot_status # R!DefaultStatus => LastDecision = Evaluated

(* A topic that drops messages drops the oldest.                           *)
LEMMA PutIsNewest ==
  ASSUME NEW S, NEW topic \in Seq(S), NEW m \in S
  PROVE  R!Put(topic, m) # <<>> /\ R!Put(topic, m)[Len(R!Put(topic, m))] = m
  <1>1. Depth \in Nat \ {0}
    BY ParameterAssumption DEF R!ParameterAssumption
  <1>2. \A s \in Seq(S) : Append(s, m) # <<>> /\ Append(s, m)[Len(Append(s, m))] = m
    OBVIOUS
  <1>3. CASE Len(topic) < Depth
    BY <1>2, <1>3 DEF R!Put
  <1>4. CASE ~(Len(topic) < Depth)
    <2>1. Tail(topic) \in Seq(S)
      BY <1>1, <1>4
    <2> QED
      BY <1>2, <1>4, <2>1 DEF R!Put
  <1> QED
    BY <1>3, <1>4

(* decision_node.cpp:49-57: every robot status is evaluated.               *)
LEMMA RobotStatusIsEvaluated ==
  ASSUME TopicsTyped, R!ReadRobot
  PROVE  NewestIsCurrent'
  <1>1. decision_topic' = R!Put(decision_topic, Evaluated') /\ Evaluated' \in R!Decisions
    BY EvaluateDecides DEF R!ReadRobot, TopicsTyped, Evaluated
  <1> QED
    BY <1>1, PutIsNewest DEF TopicsTyped, NewestIsCurrent, LastDecision

(* decision_node.cpp:42-47: a stage that does not change needs no          *)
(* evaluation.                                                             *)
LEMMA GameStatusIsEvaluated ==
  ASSUME TopicsTyped, NewestIsCurrent, R!ReadGame, UNCHANGED executorVars
  PROVE  NewestIsCurrent'
  <1>1. UNCHANGED <<last_robot_status, current_decision>>
    BY DEF R!ReadGame, executorVars
  <1>2. CASE current_stage' = current_stage
    BY <1>1, <1>2 DEF R!ReadGame, NewestIsCurrent, LastDecision, Evaluated
  <1>3. CASE current_stage' # current_stage
    <2>1. current_stage' \in R!Stages
      BY DEF R!ReadGame, TopicsTyped
    <2>2. decision_topic' = R!Put(decision_topic, Evaluated') /\ Evaluated' \in R!Decisions
      BY <1>1, <1>3, <2>1, EvaluateDecides DEF R!ReadGame, Evaluated
    <2> QED
      BY <2>2, PutIsNewest DEF TopicsTyped, NewestIsCurrent, LastDecision
  <1> QED
    BY <1>2, <1>3

(* referee_executor.cpp:38-40: the decision that is read is obeyed, or was *)
(* obeyed already.                                                         *)
LEMMA DecisionIsObeyed ==
  ASSUME TopicsTyped, NewestIsCurrent, ReadDecision
  PROVE  NewestIsCurrent'
  <1>1. current_decision' = Head(decision_topic)
    BY DEF ReadDecision, E!DecisionCallback, executorVars
  <1>2. Evaluated' = Evaluated /\ UNCHANGED last_robot_status
    BY DEF ReadDecision, matchVars, Evaluated
  <1>3. LastDecision = Evaluated
    BY DEF ReadDecision, NewestIsCurrent
  <1>4. CASE decision_topic' = <<>>
    <2>1. Len(decision_topic) = 1
      <3>1. Len(decision_topic') = Len(decision_topic) - 1 /\ Len(decision_topic) \in Nat
        BY DEF ReadDecision, TopicsTyped
      <3> QED
        BY <1>4, <3>1
    <2> QED
      BY <1>1, <1>2, <1>3, <1>4, <2>1 DEF ReadDecision, TopicsTyped, NewestIsCurrent, LastDecision
  <1>5. CASE decision_topic' # <<>>
    <2>1. decision_topic'[Len(decision_topic')] = decision_topic[Len(decision_topic)]
      BY <1>5 DEF ReadDecision, TopicsTyped
    <2> QED
      BY <1>2, <1>3, <1>5, <2>1 DEF ReadDecision, NewestIsCurrent, LastDecision
  <1> QED
    BY <1>4, <1>5

LEMMA NewestStaysCurrent ==
  ASSUME TopicsTyped, NewestIsCurrent, [Next]_vars
  PROVE  NewestIsCurrent'
  <1>1. CASE Match
    <2>1. CASE R!Timer \/ R!Command
      BY <1>1, <2>1 DEF Match, R!Timer, R!Command, executorVars, NewestIsCurrent, LastDecision,
                        Evaluated
    <2> QED
      BY <1>1, <2>1, RobotStatusIsEvaluated, GameStatusIsEvaluated DEF Match, R!Next
  <1>2. CASE ReadDecision
    BY <1>2, DecisionIsObeyed
  <1>3. CASE Results \/ Requests \/ Driving \/ UNCHANGED vars
    <2>1. UNCHANGED <<decision_topic, current_stage, last_robot_status, current_decision>>
      BY <1>3 DEF Results, Requests, Driving, E!RetreatResult, E!TakeGoal, E!TakeCancel,
                  E!Succeed, E!Abort, E!Lifecycle, E!nodeVars, matchVars, executorVars, vars
    <2> QED
      BY <2>1 DEF NewestIsCurrent, LastDecision, Evaluated
  <1> QED
    BY <1>1, <1>2, <1>3 DEF Next

(* decision_node.cpp:42-57 and referee_executor.cpp:38-40: whatever the    *)
(* order in which game and robot status are read, and however many         *)
(* messages the topics drop, the executor obeys, once the topics are       *)
(* empty, the decision that the statuses read last call for.               *)
THEOREM ObeysCurrentDecision == Spec => []DecisionIsCurrent
  <1>1. Init => TopicsTyped /\ NewestIsCurrent
    BY DEF Init, R!Init, TopicsTyped, R!Stages, NewestIsCurrent
  <1>2. TopicsTyped /\ NewestIsCurrent /\ [Next]_vars => TopicsTyped' /\ NewestIsCurrent'
    BY TopicsStayTyped, NewestStaysCurrent
  <1>3. NewestIsCurrent => DecisionIsCurrent
    BY DEF NewestIsCurrent, LastDecision, Evaluated, DecisionIsCurrent, Settled
  <1> QED
    BY <1>1, <1>2, <1>3, PTL DEF Spec
=============================================================================
