------------------------------- MODULE Referee -------------------------------
(***************************************************************************)
(* The match of rm_referee_simulator (launch/referee_simulator.launch.py): *)
(* referee_simulator_node plays it and publishes the game and the robot    *)
(* status on two topics, and decision_node turns them into decisions.  The *)
(* processes share nothing but topics, each of which keeps at most Depth   *)
(* messages, so game and robot status can be read in either order.  Who    *)
(* obeys the decisions is in module RefereeSystem.                         *)
(***************************************************************************)
EXTENDS Naturals, Integers, Sequences, FiniteSets

CONSTANTS
  MaxHp, MaxAmmo, HeatLimit,                    \* parameters of the simulator
  PreparationTime, SelfCheckTime, RunningTime,  \* seconds
  Depth,                                        \* depth of every topic
  MaxCommands                                   \* bound: commands of the operator

\* RefereeSystem, which gives the constants their values, assumes it.
ParameterAssumption ==
  /\ {MaxHp, MaxAmmo, HeatLimit, Depth} \subseteq Nat \ {0}
  /\ {PreparationTime, SelfCheckTime, RunningTime} \subseteq Nat \ {0}
  /\ MaxCommands \in Nat

Stages == {"PREPARATION", "SELF_CHECK", "RUNNING", "GAME_OVER"}

Decisions == {"IDLE", "PATROL", "ENGAGE", "RETREAT", "CAUTIOUS", "COOLDOWN", "SHUTDOWN"}

RobotStatus == [hp : 0 .. MaxHp, max_hp : {0, MaxHp}, ammo : 0 .. MaxAmmo,
                heat : 0 .. HeatLimit, heat_limit : {0, HeatLimit}]

\* A RobotStatus no message has filled yet.
DefaultStatus == [hp |-> 0, max_hp |-> 0, ammo |-> 0, heat |-> 0, heat_limit |-> 0]

VARIABLES
  stage, stage_time_left, hp, ammo, heat,  \* referee_simulator_node
  alive,                                   \* it has not shut down
  commands,                                \* commands it has handled
  game_topic, robot_topic,
  current_stage, last_robot_status,        \* decision_node
  decision_topic

simVars == <<stage, stage_time_left, hp, ammo, heat, alive, commands>>
vars == <<simVars, game_topic, robot_topic, current_stage, last_robot_status,
          decision_topic>>

TypeOK ==
  /\ stage \in Stages /\ current_stage \in Stages
  /\ stage_time_left \in Int /\ alive \in BOOLEAN
  /\ commands \in 0 .. MaxCommands
  /\ hp \in 0 .. MaxHp /\ ammo \in 0 .. MaxAmmo /\ heat \in 0 .. HeatLimit
  /\ game_topic \in Seq(Stages) /\ robot_topic \in Seq(RobotStatus)
  /\ last_robot_status \in RobotStatus
  /\ decision_topic \in Seq(Decisions)

Init ==
  /\ stage = "PREPARATION" /\ stage_time_left = PreparationTime
  /\ hp = MaxHp /\ ammo = MaxAmmo /\ heat = 0
  /\ alive = TRUE /\ commands = 0
  /\ game_topic = <<>> /\ robot_topic = <<>> /\ decision_topic = <<>>
  /\ current_stage = "PREPARATION" /\ last_robot_status = DefaultStatus

\* A topic keeps its newest messages.
Put(topic, m) ==
  IF Len(topic) < Depth THEN Append(topic, m) ELSE Append(Tail(topic), m)

AtLeast0(n) == IF n < 0 THEN 0 ELSE n

-----------------------------------------------------------------------------
(* referee_simulator_node.                                                 *)

Status(h, a, t) ==
  [hp |-> h, max_hp |-> MaxHp, ammo |-> a, heat |-> t, heat_limit |-> HeatLimit]

\* publish_status, with the values the handler leaves behind.
PublishStatus ==
  /\ game_topic' = Put(game_topic, stage')
  /\ robot_topic' = Put(robot_topic, Status(hp', ammo', heat'))

\* timer_callback, once a second: what each stage does before publishing.
TimerPreparation ==
  /\ stage = "PREPARATION"
  /\ IF stage_time_left <= 1
     THEN stage' = "SELF_CHECK" /\ stage_time_left' = SelfCheckTime
     ELSE stage' = stage /\ stage_time_left' = stage_time_left - 1
  /\ UNCHANGED <<hp, ammo, heat, alive>>

TimerSelfCheck ==
  /\ stage = "SELF_CHECK"
  /\ hp' = MaxHp /\ ammo' = MaxAmmo /\ heat' = 0
  /\ IF stage_time_left <= 1
     THEN stage' = "RUNNING" /\ stage_time_left' = RunningTime
     ELSE stage' = stage /\ stage_time_left' = stage_time_left - 1
  /\ UNCHANGED alive

TimerRunning ==
  /\ stage = "RUNNING"
  /\ heat' = AtLeast0(heat - 5)
  /\ stage_time_left' = stage_time_left - 1
  /\ IF stage_time_left <= 1
     THEN stage' = "GAME_OVER" /\ alive' = FALSE
     ELSE UNCHANGED <<stage, alive>>
  /\ UNCHANGED <<hp, ammo>>

TimerGameOver ==
  /\ stage = "GAME_OVER"
  /\ alive' = FALSE
  /\ stage_time_left' = stage_time_left - 1
  /\ UNCHANGED <<stage, hp, ammo, heat>>

\* Mutant: the end of the match is not published.
MutantTimerLeavesSilently ==
  /\ alive
  /\ TimerPreparation \/ TimerSelfCheck \/ TimerRunning \/ TimerGameOver
  /\ IF alive' THEN PublishStatus ELSE UNCHANGED <<game_topic, robot_topic>>
  /\ UNCHANGED <<commands, current_stage, last_robot_status, decision_topic>>

Timer ==
  /\ alive
  /\ TimerPreparation \/ TimerSelfCheck \/ TimerRunning \/ TimerGameOver
  /\ PublishStatus
  /\ UNCHANGED <<commands, current_stage, last_robot_status, decision_topic>>

\* cmd_callback: the eight commands of /referee/cmd; nothing is published.
SwitchTo(s, time) ==
  /\ stage' = s /\ stage_time_left' = time
  /\ UNCHANGED <<hp, ammo, heat>>

SetStatus(h, a, t) ==
  /\ hp' = h /\ ammo' = a /\ heat' = t
  /\ UNCHANGED <<stage, stage_time_left>>

Command ==
  /\ alive
  /\ commands < MaxCommands
  /\ commands' = commands + 1
  /\ \/ SwitchTo("PREPARATION", PreparationTime)
     \/ SwitchTo("SELF_CHECK", SelfCheckTime)
     \/ SwitchTo("RUNNING", RunningTime)
     \/ SwitchTo("GAME_OVER", stage_time_left)
     \/ SetStatus(AtLeast0(hp - 100), ammo, heat)
     \/ SetStatus(hp, AtLeast0(ammo - 20), heat)
     \/ SetStatus(hp, ammo, IF heat + 40 < HeatLimit THEN heat + 40 ELSE HeatLimit)
     \/ SetStatus(MaxHp, MaxAmmo, 0)
  /\ UNCHANGED <<alive, game_topic, robot_topic, current_stage, last_robot_status,
                 decision_topic>>

-----------------------------------------------------------------------------
(* decision_node.                                                          *)

\* n / d <= k / 10 and n / d >= k / 10 as the code computes them: with d = 0
\* the quotient is not a number and both comparisons are false.
RatioAtMost(n, d, k) == d > 0 /\ 10 * n <= k * d
RatioAtLeast(n, d, k) == d > 0 /\ 10 * n >= k * d

\* evaluate_running with the default thresholds; the ratio of ammunition is
\* 1 or 0, whatever the maximum, so ammo_low_ratio and
\* ammo_conservative_ratio both ask whether there is none left.
Hot(r, k) == RatioAtLeast(r.heat, r.heat_limit, k)

EvaluateRunning(r) ==
  CASE RatioAtMost(r.hp, r.max_hp, 2) \/ r.ammo = 0 -> "RETREAT"
    [] OTHER ->
       CASE Hot(r, 8) -> "COOLDOWN"
         [] ~Hot(r, 8) /\ RatioAtMost(r.hp, r.max_hp, 4) -> "CAUTIOUS"
         [] ~Hot(r, 8) /\ ~RatioAtMost(r.hp, r.max_hp, 4) /\ Hot(r, 5) ->
              IF r.ammo = 0 THEN "PATROL" ELSE "CAUTIOUS"
         [] OTHER -> "ENGAGE"

Evaluate(s, r) ==
  CASE s \in {"PREPARATION", "SELF_CHECK"} -> "IDLE"
    [] s = "RUNNING" -> EvaluateRunning(r)
    [] s = "GAME_OVER" -> "SHUTDOWN"

\* Mutant: only the robot status is evaluated.
MutantReadGameSilently ==
  /\ game_topic # <<>>
  /\ current_stage' = Head(game_topic)
  /\ game_topic' = Tail(game_topic)
  /\ UNCHANGED <<simVars, robot_topic, last_robot_status, decision_topic>>

\* game_status_callback: only a new stage is evaluated.
ReadGame ==
  /\ game_topic # <<>>
  /\ current_stage' = Head(game_topic)
  /\ decision_topic' = IF current_stage' = current_stage THEN decision_topic
                       ELSE Put(decision_topic, Evaluate(current_stage', last_robot_status))
  /\ game_topic' = Tail(game_topic)
  /\ UNCHANGED <<simVars, robot_topic, last_robot_status>>

\* robot_status_callback: every message is evaluated.
ReadRobot ==
  /\ robot_topic # <<>>
  /\ last_robot_status' = Head(robot_topic)
  /\ decision_topic' = Put(decision_topic, Evaluate(current_stage, last_robot_status'))
  /\ robot_topic' = Tail(robot_topic)
  /\ UNCHANGED <<simVars, game_topic, current_stage>>

Next == Timer \/ Command \/ ReadGame \/ ReadRobot

Spec == Init /\ [][Next]_vars
=============================================================================
