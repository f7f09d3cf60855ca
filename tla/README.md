# TLA+ verification of the sentry's navigation and referee software

This directory holds TLA+ modules, TLC configurations and TLAPS proofs about the
robot software in this repository: the path from a decision of the behaviour
tree to a goal that Nav2 drives to, the referee chain of the simulation, and, of
the packages below them, the threads of the lidar driver, the joining of scans and
imu samples in the lidar odometry, and the choice among candidate trajectories in
the local planner.
`PROJECT.json` lists components, runs, mutants, findings, hazards and theorems,
and maps every definition to the source lines it stands for.

## 1. The system

ROS 2 processes that share nothing but topics, services and actions:

```
 COD_Serial / referee_to_serial_bridge
        | /SerialReceiveData  (hp, zone_status)
        v
 cod_behavior  --/goal_pose-->  goal_pose_bridge --goal, cancel--> Nav2
 (tree of cod_bt/*.xml)              <--response, result--           |
        ^------------------------- robot position (tf) --------------'

 referee_simulator_node --game, robot status--> decision_node
        --/decision--> referee_executor --goal, cancel all--> Nav2

 lidar --packets--> livox_ros_driver2 --scans, imu--> FAST_LIO --odometry, tf--> Nav2
                                                       Nav2's controller: teb_local_planner
```

| component | state it keeps | operations |
|---|---|---|
| `goal_pose_bridge` | `have_last_goal_`, `last_goal_`, `goal_counter_`, `current_goal_handle_` | `goal_callback`, `goal_response_callback`, `result_callback` |
| `cod_behavior` | the tree's running nodes, its blackboard, last status message, publication times | main loop (10 ms) that ticks the tree once, leaves of `action.h` and `condition.h` |
| `cod_bt` trees | none (data) | six XML files; four of them navigate through `/goal_pose` |
| `behaviortree_ros2` | per node: publisher, throttle time, goal handle, result | `RosTopicPubNode`, `RosActionNode`, `TreeExecutionServer` |
| `referee_simulator_node` | stage, time left, hp, ammunition, heat | 1 s timer, eight commands of `/referee/cmd` |
| `decision_node` | current stage, last robot status | two subscriptions, each followed by an evaluation |
| `referee_executor` | current decision, `retreat_active_` | `decision_callback`, `retreat_result_callback`, a 20 ms timer for zero velocity |
| `referee_to_serial_bridge`, `COD_Serial` | newest status / serial port | forward the status as `/SerialReceiveData` |
| `icp_registration` | map-to-odom transform under one lock | cloud and initial-pose callbacks, publisher thread |
| `livox_ros_driver2` | per lidar a ring of frames, an imu queue, the options not acknowledged yet; two semaphores | packet callbacks and answers (threads of the SDK), `RawDataProcess`, two poll threads, the destructor |
| `FAST_LIO` | queues of scans, of their times and of imu samples; the group being joined; the filter and the map | three subscriptions, a 10 ms timer, in one thread |
| `teb_local_planner` | candidate trajectories and their classes in two parallel containers, pointers to the best one and to that of the initial plan | one call of `computeVelocityCommands` per control cycle |
| everything else | `point_lio`, perception filters, optimisation of one trajectory, Gazebo assets | upstream or numerical, see section 8 |

**What is hard.** The nodes that decide where to drive spin in one thread each, so
there the difficulty is between processes. Goals, responses, results and cancel requests of one action
travel on different services: a response may come after a newer goal was sent,
a cancel request may overtake the goal it follows or fall behind the goal that
replaces it. Nav2 rejects goals until it is active, may abort any goal, and may
crash; whether a lost goal is repeated depends on what the tree publishes later
and on the duplicate filter of the bridge. The tree's publisher nodes report
success while they are throttled, its Sequences remember a child while the
reactive nodes above them restart, and blackboard entries outlive the branches
that wrote them. Game and robot status are two topics and can be read in either
order. The lidar driver has five threads that share rings without a lock and a
semaphore whose count is read without its lock; its lidars answer requests late,
twice or with an error. The odometry joins two streams of which either may lose
messages, run ahead or be late, and takes scans of no point at all. The planner
keeps two containers and three pointers in step while candidates are dropped,
added and removed in the middle of a search. All places where this bites are listed with their lines under "hazards".

**What makes each component correct.** The bridge: it owns at most one goal, the
newest, cancels older goals only, suppresses a pose only when it is already
being driven to or reached, and repeats what failed. The decision process: low
hit points win over everything, the robot is then sent home and nowhere else,
the place to hold is published again and again, the patrol visits every
waypoint. Both together: a robot low in hit points gets home. The referee chain:
the decision obeyed is the one the newest status calls for, a match ends with
the executor shut down, a retreat lasts as long as the decision that asked for
it and is cancelled by nothing else, save in the races between goals, cancel requests and
results that the executor leaves open, which are named. The driver: frames are published whole, in
order and without waiting for later ones, only from configured lidars, and its
destructor returns. The odometry: every scan keeps its time, the filter is
predicted through the time between scans once, stamps increase, as long as no sensor's
time jumps back. The planner: a
velocity comes from a trajectory that was checked, candidates are distinct, and a
control cycle ends.

## 2. Modules

| module | models | role |
|---|---|---|
| `GoalPoseBridge` | `rm_bt_bridge/src/goal_pose_bridge.cpp`, with an external action client and Nav2 server | detailed specification, properties, inductive invariant |
| `SoleGoal` | what a user of the bridge may rely on | abstract specification that `GoalPoseBridge` implements |
| `GoalPoseBridgeProofs` | | theorems and proofs about `GoalPoseBridge` and its duplicate filter |
| `BehaviorTree` | how BehaviorTree.CPP ticks Sequence, reactive and decorator nodes (external) | pure operators over a "world" record |
| `SentryTrees` | leaves of `cod_behavior`, `RosTopicPubNode`; `cod_behavior/cod_bt/singlenav_basic.xml`, `basic_tree.xml`, `singlenav_tree.xml`, `test.xml` | one operator per leaf, branch and tree |
| `Sentry` | main loop of `cod_behavior` and what surrounds the process | detailed specification |
| `HomeGuard` | the promise about low hit points | abstract specification that `Sentry` implements |
| `SentryNavigation` | the processes of `bringup_sim_bt.launch.py` on the path of a goal | composes `Sentry`, the topic `/goal_pose` and `GoalPoseBridge` |
| `SentryProofs` | | theorems about the decision process and about the chain |
| `RosActionNode` | `bt_action_node.hpp` with the leaves of `action.h` that derive from it, and an external action client and server | detailed specification |
| `RosActionNodeProofs` | | theorems about the leaf |
| `Referee` | `referee_simulator_node.cpp`, `decision_node.cpp` | two processes and three topics |
| `RefereeExecutor` | `referee_executor.cpp` with an external action client and server | detailed specification |
| `RefereeSystem` | the processes of `referee_simulator.launch.py` | composes `Referee` and `RefereeExecutor` by the topic of the decisions |
| `RefereeExecutorProofs`, `RefereeSystemProofs` | | theorems about the executor alone, and about the composition |
| `LidarQueue` | the ring of `livox_ros_driver2/.../comm/ldq.cpp` | operators on a queue |
| `LivoxDriver` | threads, queues, semaphores and configuration of `livox_ros_driver2` | detailed specification |
| `LivoxDriverProofs` | | lemmas about the ring and theorems about the driver |
| `LidarOdometry` | `FAST_LIO/src/laserMapping.cpp`, `IMU_Processing.hpp` | detailed specification |
| `LidarOdometryProofs` | | theorems about queues, times and points of scans |
| `HomotopyPlanner` | `teb_local_planner`'s `homotopy_class_planner.cpp/.h/.hpp` with the caller in `teb_local_planner_ros.cpp` | detailed specification |
| `HomotopyPlannerProofs` | | theorems about the candidates and the command |
| `MC...` | | values of the constants for TLC |

### GoalPoseBridge

The variables named as in the code are the members of the node (the trailing
underscore dropped; handle 0 is the null pointer). `target`, `client`,
`goal_req`, `goal_resp`, `cancel_req`, `server` and `nav` are the rest of the
world: what the action client and the server know of each goal, the messages
between them and the lifecycle state of Nav2. `heard` only records the last
publication, for the properties.

* `GoalCallback` is `goal_callback` (:46-110) as one step: the duplicate filter
  and the readiness test lead to `GoalIgnored`, otherwise `GoalSent` cancels the
  goal held, sends a new one and sets `last_goal`. `have_last_goal` is left
  alone there, as in the code. The orientation of a pose takes no part in the
  filter; poses are model values and `Near` says which are closer than
  `goal_change_tolerance`.
* `GoalResponse`, `GoalResult` are the two callbacks (:78-103), preceded by what
  the client library does with the message. Both ignore a superseded goal by its
  number. A response of a server that is down leaves the goal `"orphan"`: the
  request for its result is never answered.
* `TakeGoal`, `TakeCancel`, `Succeed`, `Abort`, `Configure`, `Activate`,
  `Deactivate`, `Crash` are Nav2. Requests of goals arrive in order; cancel
  requests at any time. A newer goal preempts the older one, which is then
  reported aborted.
* `Prompt = TRUE` restricts publications to moments at which no goal is
  unanswered. It stands for responses faster than the 500 ms between two
  publications and is used by the liveness runs only: every publication that is
  not a duplicate replaces the goal before, so with slower responses no goal
  would ever be owned.

### BehaviorTree, SentryTrees, Sentry

A tick of a node is an operator from a *world*, the record of all that a tick reads and
writes, to a status and the world after it. `BehaviorTree` says what the control nodes do
with the results of their children; `SentryTrees` has an operator for every leaf, which is
the `tick`, `onStart` or `onRunning` of a class in `action.h` or `condition.h`, for every
branch of an XML file, named for what it does (`Home`, `PatrolZone`, `Reach`, ...), and for
every tree. What a running node keeps is in `memory`: the child a Sequence stopped at, 1 for
a leaf that runs, 0 for a node that does not. The sibling branches that a reactive node
halts are listed where it ends, as the map from a node to the child it is below.

`Sentry!TickTree` is one round of the loop of `cod_behavior.cpp:142-149`. Between ticks a
status message arrives (`Receive`), the robot gets to the place published last or loses its
position (`Move`), the waypoint file is replaced (`ReplaceFile`). Time is counted in ticks,
saturating at the interval that matters. `wanted` records the pose published last, for `Move`
and for the properties. `tree` is the parameter `cod_bt_path`; a run may start
several trees. The parser of the waypoint file is modelled by which rows it
keeps: rows it skips, and a row whose waiting time does not parse but whose
pose was pushed already. `TestTree` keeps no memory for its `ReactiveSequence`, which starts
at its first child in every tick.

### SentryNavigation

Extends `Sentry` and instantiates `GoalPoseBridge`; `ChainSpec` is the specification of
both. What a tick publishes goes to `topic`, the bridge's subscription, which keeps its newest
`TopicDepth` poses (`Publish`, `KeepLast`); `Take` hands the oldest to `GoalCallback`. A goal
that succeeds puts the robot at its target (`Arrive`). The waypoint file is not replaced
here, and localisation not lost.

### RosActionNode

`Start` is the first `tick` of an execution, `Poll` a later one: `spin_some`
handles the `n` oldest responses and the results in `done`, any part of what has
arrived, and then the tick waits, gives up, ends or goes on (`PollWaits`,
`PollRejected`, `PollRunning`). `Halt` is `halt` with `cancelGoal`, which blocks;
it is a step from the state in which what it waits for is there, or one that
does not wait that long. The variables `goal_received`, `future_goal_handle`,
`goal_handle`, `result` are the members. `alive` turns false when an exception
leaves the tree or a null handle is used. `late` counts the answers that came
after `server_timeout`. The parent may tick or halt the leaf at any time, which
covers every tree. A server that crashes, feedback (the leaves only print it) and
action names read from the blackboard (no tree does that) are left out.

### Referee, RefereeExecutor, RefereeSystem

`Timer` is `timer_callback` with the publication at its end, `Command` the eight
cases of `cmd_callback`; an end of match stops the simulator after its last
publication. `ReadGame` and `ReadRobot` are the subscriptions of the decision
node with the evaluation they trigger: the stage only when it changes, the robot
status always. Ratios are compared by cross-multiplication; a zero maximum makes
every comparison false, as NaN does. `RefereeExecutor!DecisionCallback` has
three disjuncts, one per group of decisions; its server is that of the bridge's
model with one difference that matters: a cancel request names no goal.
`RefereeSystem` instantiates both; `ReadDecision` hands the oldest decision on the
topic to `DecisionCallback`, or drops it if it repeats the current one.

Decisions may follow each other within milliseconds (a change of stage, then a robot
status), so nothing keeps the executor's model from handling one while goals, cancel
requests or results of the decisions before are under way, in any number and any order.
Cancel requests are all alike and are counted in `cancel_all`. Three histories name the
goals to which the code's races happen: a goal that a cancel request overtook is `missed`,
one sent while a cancel request was on its way is `exposed`, and one whose flag the result
of an earlier goal cleared is `forgotten`. The properties say that nothing but these races
goes wrong, and section 3 lists what they lead to.

### LidarQueue, LivoxDriver

A frame is named by the value the write index had when it was pushed, so that a
reader can be seen to get an older frame, or one that is being written (`Torn`).
Pushing is two steps, the copy into the slot (`WriteSlot`) and the new index
(`PushUpdate`), as is popping; indexes are remainders modulo `Word`, 2^32 in the
code, and slots remainders modulo `Capacity`.

* `BuildFrame`, `StorePart`, `PushPart`, `LookAgain`, `Signal` are `RawDataProcess`
  down to `Lds::PushLidarData`, with a step between any two accesses to what another
  thread uses. `Signalled` is what a thread does after an unlocked `GetCount`.
* `PollPcd`, `WaitPcd`, `PrePop`, `PopPublish` are `PointCloudDataPollThread` and
  `Lddc::DistributePointCloudData`; `PollImu` is the other poll thread, coarser
  because its queue is locked. `ImuPacket` and `ImuSignal` are the SDK's side of it, which
  does not signal when the reader has emptied the queue again.
* `LidarInfoChange` and `Acknowledge` are the callbacks of
  `livox_lidar_callback.cpp`: the bits of the options asked for, cleared one by one.
  `acked` is a history of what was acknowledged.
* `Destroy` is `~DriverNode`: the exit flag, the promise, and the two joins.

A frame has some points or none; whether a frame is due is an input; a part is one
lidar's share of a frame. An imu queue longer than `MaxImu` counts as that long, and
may be so again after a pop. Left out: the parsing of the configuration file,
coordinates, playback of recorded files, the layout of messages, and the
configuration of a lidar's own network addresses.

### LidarOdometry

Times are ticks. A scan is the time it began, the offset of its last point and its
size; the size after downsampling is taken for the one before. `ScanArrives` and
`ImuArrives` are the subscriptions, `TimerCallback` the timer with all it calls:
`Pushed`, `ScanEnds`, `IsComplete` and `ImuUpTo` are `sync_packages`, `Process`
is `ImuProcess::Process` with `IMU_init` and `UndistortPcl`, `Register` the rest of
the callback. The mean scan time is an exact average in the code and any time between
the old mean and the new scan's here. Of the filter only the time it was predicted
through is kept (`predicted`): every step of the prediction in `UndistortPcl` is
clipped to the end of the scan before, as in the code. `last_lidar_end_time_` is
never initialised by the code; it begins as any of `Heap`. The time of either sensor may
jump back, as it does when a simulation or a recording restarts, `MaxJumps` times in all and
by `MaxBack` at most (`MayJump`); what the two subscriptions clear then is in `ScanArrives`
and `ImuArrives`. `lidar_jumps` and `imu_jumps` are histories of the jumps, `dropped` counts
the scans a jump dropped while their times stayed queued.

### HomotopyPlanner

A trajectory is an identity; its homotopy class is what is calculated for it
once a cycle (`paths` in `RenewOldTebs`: obstacles move, so it can be any), and a
signature that is not finite is `Invalid`, equal to nothing. Two signatures are
equal in the code if they differ by less than a threshold; here equality is exact.
The actions are the stages of `HomotopyClassPlanner::plan` in their order, one
`ExplorePath` per path the graph search finds, and then `computeVelocityCommands`:
divergence, the loop of `isTrajectoryFeasible` (`InfeasibleTeb` until
`FeasibleTeb`), and the failures that clear the planner. Costs are open:
`SelectBestTeb` may take any trajectory that has one, or stay with the last. Which
trajectory collides is open too. `RemoveTeb`, `RenewOldTebs` and `DropTebs` treat the
two containers as the code does when their sizes differ.

## 3. What the runs check

Each run is a `.cfg` here; `tlc -config <run>.cfg <module>.tla`.

| run | module | question | bounds |
|---|---|---|---|
| `BridgeSafety` | `MCGoalPoseBridge` | Is the node's handle always that of the newest goal and known to the client, are only replaced goals cancelled, does the filter swallow only redundant poses, does Nav2 drive only to the pose heard last, does the node implement `SoleGoal`? | 3 poses (two within the tolerance), 3 goals, 2 faults, 1 crash, responses arbitrarily late |
| `BridgeRetries` | `MCGoalPoseBridge` | Is a pose that keeps being published reached in spite of failures, and then left alone? | 2 poses, 4 goals, 2 faults, no crash, prompt responses |
| `SentryDecides` | `MCSentry` | Does each of the four trees wait for a status and put the retreat first, do those without a patrol repeat the place to hold, does `test.xml` send home a robot that stays low, does the patrol advance only after the wait and visit every waypoint for ever? | hp 209, 349, 350, both zones, two files of two waypoints (one with a bad row), throttle 3, wait 2 |
| `ChainHome` | `MCSentryNavigation` | With `test.xml`, does a robot low in hit points get home through the bridge and Nav2? | hp 0, topic of 2, 5 goals, 2 faults, prompt responses |
| `ChainFollows` | `MCSentryNavigation` | With `basic_tree.xml`, does the server drive only where the tree published last, and home while the robot retreats? | hp 0 and 400, topic of 2, 3 goals, 1 crash, responses arbitrarily late, throttle 1 |
| `RefereeMatch` | `MCReferee` | Is the decision obeyed the one the newest status calls for, does a retreat outlive its decision, get cancelled or be unknown to the node only in the races named `missed`, `exposed` and `forgotten`, and does every match end shut down? | hp 150, 20 shots, heat limit 40, stages of 1, 1, 2 s, queues of 2, 1 command, 3 goals, 1 fault, answers arbitrarily late |
| `ActionReports` | `MCRosActionNode` | Does a leaf with a goal of its own always report, report the result of that goal, and leave no goal behind? | 4 goals, 2 faults, 1 late answer |
| `LivoxDriver` | `MCLivoxDriver` | Are frames whole, in order and not stuck, is a lidar published only after it was configured, does the node end? | one lidar the file does not name, 2 options, ring of 2, indexes modulo 4, imu queue saturating at 1 |
| `LidarSync` | `LidarOdometry` | Do scans keep their times, is the filter predicted through exactly the time between scans, do stamps increase, is every scan taken? | scans at 0, 4, .., 16, samples at 3, 6, 12, 15, 20, any of them lost; 1 or 6 points; last offset 1 or 4; uninitialised time 0 or 30; one stream up to 4 ahead; the time of one sensor jumps back once, by 4 at most |
| `TebCycle` | `HomotopyPlanner` | Do the containers stay parallel, are candidates distinct, is the velocity from a checked trajectory, does a cycle end? | 2 classes and the invalid one, 3 trajectories, 2 in the best class, any number of cycles |

Two runs end in a violation; each refutes one sentence of the repository.

| run | property | what the code does |
|---|---|---|
| `BridgeCrash` | `KeepsRetrying` | A server that crashes after accepting a goal never sends its result; `have_last_goal_` stays true, and after the restart every publication of that pose is dropped. The comment at `goal_pose_bridge.cpp:97-98` promises a retry. `BridgeRetries` shows the promise kept without crashes. |
| `ActionHalt` | `HaltIsSurvived` | A second execution of a `RosActionNode` keeps the handle of the first; halted before its own goal is answered, it asks for the result of a goal the client has forgotten, and the exception ends the process. `SendNav2Goal::onHalt` tries to catch just that (`action.h:114-116`), but `cancelGoal` throws before `onHalt` is called. |

More disagreements the models show, not kept as runs:

* A waypoint file that is replaced by a shorter one leaves `wp_idx` past its end, and
  `GetCurrentWaypoint` fails from then on (`PatrolGoesOn` fails with such a pair of
  files; `PubNav2Goal_Patrol.md:154-155`).
* With `singlenav_basic.xml` in the chain home is published once; when the bridge
  drops it or Nav2 aborts it nothing repeats it (`LowHpGetsHome` fails; the bridge
  relies on the tree for that, `goal_pose_bridge.cpp:97-98`).
* `laserMapping.cpp:300` clears `lidar_buffer` when the time of scans jumps back, but
  not `time_buffer`: if scans were waiting, every later scan is processed with the time of
  another. `ScanKeepsItsStamp` excepts the behaviours in which a jump dropped scans
  (`dropped`) and no others; without the exception `LidarSync` finds the wrong time.
* `homotopy_class_planner.h:237` says `removeTeb` removes the trajectory; once a best
  trajectory has an invalid class the containers differ in size and it removes
  nothing, so that the loop at `homotopy_class_planner.cpp:703` need not end while
  it holds the lock of the configuration (`InfeasibleIsRemoved` fails; `CycleEnds`
  excepts these cycles).
* `homotopy_class_planner.cpp:713-715` gives up when the plan is the same as before;
  `selectBestTeb` has reset `last_best_teb_` by then if the trajectory was removed,
  so the test is passed by. The lock that should "also prevent candidate from
  deletion" (:439) is read nowhere.
* `teb_local_planner_ros.cpp:388-391` assigns the footprint the wrong way round, and
  `setSpeedLimit` scales the base velocities in place (:1046, :1053), so that two
  limits in a row multiply.
* In `livox_ros_driver2`, `pub_handler.cpp:168` divides by a number of points taken
  from a packet; `lds.cpp:117` lets the queue of an imu nobody reads grow without a
  bound; with the message type that only ROS 1 publishes, `lddc.cpp:122-133` loops
  for ever, as nothing is popped.
* `bringup_real_bt.launch.py:120-121` gives the argument `lio` the default `fast_lio`,
  which matches neither of the values it is compared with, `fastlio` (:213) and
  `pointlio` (:233): without the argument no odometry starts.
* `singlenav_basic.xml:21-26` with `bt_topic_pub_node.hpp:200`: a retreat that
  starts within 500 ms of the last publication of home gets SUCCESS from
  `PubNav2Goal` without a publication, goes on to `StayHome` and never publishes
  home (`LowHpSendsHome` fails for that tree; the reactive branch of `test.xml`
  repairs it, see `ReactiveBranchSendsHome`).
* `goal_pose_bridge.cpp:106` overwrites `last_goal_` before the server accepts
  the goal, while `have_last_goal_` may still be true from the one before; the
  comment at :85 says only accepted goals take part in the filter.
* `singlenav_tree.xml:44,52` bind `current_wait_sec` and the wait to literals, so
  every wait is five seconds, whatever `PubNav2Goal_Patrol.md:87` says of the
  file's `wait_sec`.
* `decision_node.cpp:94,102,117`: the ratio of ammunition is 0 or 1, and 0 has
  led to RETREAT before the branch at :117 asks for it, so that branch cannot be
  taken.
* `referee_executor.cpp:43,52`: a late cancel-all ends the retreat that was sent after it,
  while the decision is RETREAT and nothing sends another (`RetreatIsNotCancelled` fails
  without the exception `exposed`); it is the danger `goal_pose_bridge.cpp:15-16` warns of.
  One that overtakes its goal finds nothing to cancel, and the robot drives on to the origin
  under another decision, also after SHUTDOWN (`NoStrayRetreat` and `GameOverShutsDown`
  fail without `missed`).
* `referee_executor.cpp:85`: the result of an earlier retreat clears the flag of the one that
  runs now; the next decision then cancels nothing (`RunningIsKnown` and `NoStrayRetreat`
  fail without `forgotten`). No text of the repository claims otherwise, so these three are
  exceptions of the properties and not findings.
* `cod_behavior/README.md:37-38` gives as the trigger for going home that less than 30% of
  the hit points are left, 120 of the 400 the process starts with (`cod_behavior.cpp:130`).
  `condition.h:24` tests `hp < 210` and logs `hp < 150` (:25), `condition.h:77` tests
  `hp >= 350` and logs `hp >= 300` (:78). The robot therefore goes home at 209 hit points,
  and stays there up to 350, against the README and against the log. `HomeHasPriority`
  holds for the numbers that are tested and would fail for either of the other pairs.
* `bt_topic_pub_node.hpp:198-202` in `singlenav_tree.xml:45-53`: the zone is taken for one
  tick while the robot waits at a waypoint, and `ap_position1` is published. Back in the
  patrol within 500 ms of the last publication of the waypoint nothing is published,
  `WaitUntilReached` still finds the robot within its tolerance, the wait runs and the next
  waypoint is taken, while Nav2 was sent to `ap_position1` last: `SentToWaypoint` fails with a
  throttle of 4 ticks and a wait of 2. `PubNav2Goal_Patrol.md:157` says the robot navigates to
  that waypoint again before it waits, and `:48` that it waits there.
* `bt_action_node.hpp:541-561`: when the server rejects the goal a halt waits for,
  the null handle is used (`HaltUsesNull`); `:424`: so is it when the result of a
  goal that was given up arrives before the next one is answered (`PollUsesNull`).

### The properties

* `SuppressionIsRedundant`: with nothing about the newest goal under way and no
  crash so far, a filter that is on means that goal runs or has succeeded and is
  for the pose remembered. Without the crash clause `BridgeCrash` shows it wrong.
* `OwnsOneGoal`: the specification implements `SoleGoal` with the goal counter,
  the handle and the travelling cancel requests as its variables.
* `HomeHasPriority`: `Sentry` implements `HomeGuard` (start below 210, stop at
  350, the numbers the code tests and not those its README or its log give, see above; the
  last pose of a tick is home exactly while retreating, allowing for
  the tick in which the retreat ends). `retreating` is "the home branch is
  running", so the property ties the tree's memory to the messages.
* `WaitsForStatus`: the pose published last, not only in this tick, is main or none.
* `AdvancesAfterWait`, `PatrolGoesOn`: an action property about every change of
  `wp_idx`, and that each waypoint is visited infinitely often once messages,
  file and localisation settle.
* `DrivesWhereHeard`, `DrivesWhereWanted`: once every goal reached the server (and the topic
  is empty) it drives nowhere but to the pose the bridge heard (the tree published) last, up
  to the tolerance. A pose may have been dropped because the server was down, filtered as a
  repetition, or pushed out of the topic; a goal may have been rejected or preempted.
* `RetreatDrivesHome`: the same while the tree is retreating, where the pose is home. It
  relates the memory of the tree to the goals at the server, with a topic, a filter and four
  message queues between them.
* `DecisionIsCurrent`: when all queues are empty the executor obeys
  `Evaluate` of the newest stage and status, whatever the order of reading.
* `RunningIsKnown`, `NoStrayRetreat`, `RetreatIsNotCancelled`: the flag
  `retreat_active_`, the decision and the server agree, however many decisions come before
  Nav2 answers, except about the very goals that were overtaken by a cancel request, sent
  under one, or forgotten when an old result came.
* `OwnsItsGoal`, `ReportsOwnResult`: while no answer was late, what is under way
  at the server is the goal of the present execution of the leaf, and what the
  leaf reports is that goal's result. With one late answer both fail: the goal
  that was given up runs on, and its result is taken for that of the next one.
  `Reports` (a running leaf ends) holds all the same.

* `FrameIsIntact`: while a frame is copied out, it is the oldest one, whole, and the
  writer is not in its slot, wherever the two indexes wrap around.
* `PushedIsPublished`, `FullRingDrains`: no wakeup is lost by the unlocked look at the
  semaphore, neither for a frame after which no other comes nor for a ring that was
  full before its lidar sampled. Both assume that the reader catches up at times.
* `SamplingIsConfigured` relates the state of a lidar to all that it acknowledged
  since the start; `ShutdownEnds`: the destructor joins two threads that may wait for
  data, and returns as long as data comes.
* `ScanKeepsItsStamp`: queue of scans and queue of times stay in step, also after a jump
  back of time, unless that dropped scans which waited.
  `PredictsToScanEnd`: until the time of samples jumps back, between two scans the steps of the prediction add up to the
  time between their ends, also when scans between them were not undistorted or
  samples came late. `OdometryMovesOn`: a short scan borrows the mean duration, but no
  odometry is stamped before its predecessor until the time of scans jumps back.
  `RegistersTheScan`: a scan is
  registered with its own points, or, without samples, with exactly those undistorted last,
  which `IMU_Processing.hpp:344` leaves in place. `ScanIsTaken`: no scan waits for a
  sample that need not come, unless a jump made it wait.
* `ClassesAreAligned`: parallel containers, after any erasure, or the one way in which
  they are not. `CandidatesAreDistinct`: limits on trajectories and on those of a
  class hold across cycles. `PrefersPlansClass`: what the initial plan's discount is
  given to has its class. `CommandIsFeasible`, `CycleEnds`: the feasibility loop ends
  and what it drives along is what it checked.

Every property of a passing run has a mutant in `PROJECT.json`: an operator
`Mutant...` next to the definition it replaces, with which the run fails. Examples
are a handle kept from a superseded goal, cancel-all instead of cancelling one
goal, a throttle that restarts when it skips, a patrol index that does not wrap.

### Bounds

Three goals let one be superseded unanswered, one be replaced with its handle
held and a third be current; two faults let a retry fail as well. A crash at any
point of these is enough to lose each kind of message. The hit points are the
values at and next to the thresholds; a value between them behaves like 349. The
throttle lasts three ticks instead of fifty (500 ms at 10 ms): enough for
a branch to be left, another one entered and the first entered again within the
interval, which is all the length decides. `WaitTicks` stands for five seconds in
the same way. Queues of
two drop messages in the referee model. One command reaches the heat limit of 40, empties
a magazine of 20 shots or leaves a third of the 150 hit points, so that one command leads to
each decision that can be taken. A match of that length retreats twice, first when it is seen
running before any robot status (no ammunition), which is what a cancel request, a result and
a goal need to meet in any order; three goals are more than it asks for. Each of the exceptions
`missed`, `exposed` and `forgotten` is reached. In `LivoxDriver` a
ring of two can be empty, half full and full, and its indexes wrap after two
rounds, so every relation of the two occurs; the proofs cover all other sizes and
any number of lidars. In `LidarSync` the samples fall before, at and after the ends
of scans, any may be lost so that a scan has none, and 30 stands for an uninitialised time after all
scans. One jump back, of either sensor, comes when scans or samples wait and when none do; a
jump by 4 goes back behind a whole scan. Three trajectories allow one best, one other of its class and one of another
class, with the limit on them reached. Bounds on goals, faults, crashes and commands are
conjuncts of the guards; liveness properties speak of the behaviours that stay
below the bound on goals, and runs with such bounds do not check deadlock, since
the bounded model may stop. `ChainHome` has one hit-point value because every
state of the tree multiplies those of the bridge; what changing values do to the
tree is the subject of `SentryDecides`, and to the chain, without liveness, of `ChainFollows`.
There two hit points let retreats begin and end, three goals let one be superseded before it
was answered, and a throttle of one tick never holds a publication back.

## 4. Fairness

* Weak fairness of callbacks and deliveries: each process spins an executor that
  is never blocked by another process (`rclcpp::spin`), so what has arrived is
  handled in the end.
* Weak fairness of `TickTree`, `Timer` and `Poll`: an endless loop, a wall timer, and
  a parent that keeps ticking a running leaf. `Poll` is fair when it handles all that
  has arrived: a spin handles one message at least, and nothing arrives for ever.
* Weak fairness of `Configure` and `Activate`: the lifecycle manager the launch
  files start brings Nav2 up. `Deactivate`, `Abort` and `Crash` are never forced.
* Weak fairness of `Succeed` (`Arrive`, `Move`): a goal that is neither replaced
  nor failed is reached. This is an assumption about Nav2.
* `BridgeRetries` adds that a pose heard last is heard again, which the tree does
  every 500 ms (`KeepsPublishing` of `SentryDecides` is that promise seen from the
  tree); `SentryNavigation` needs no such assumption, its poses come from
  `TickTree`.
* `TicksGoOn` and `PublishingGoesOn` are weak fairness of `TickTree` and `Publish` with the
  meaning of `ENABLED` written out: a tick is possible in every state, so what it needs is
  that it would change something (`TickMatters`). TLC evaluates that many times faster.
* `RefereeSystem`: the simulator's wall timer, the callbacks of the three nodes, and
  Nav2's handling of requests and their results. Nav2 need not come up or reach a goal.
* `LivoxDriver`: each thread runs on (`Store`, `ImuSignal`, `PollPoints`, `PollImu`),
  and so does the destructor once it was entered. Packets, announcements, answers
  and the start of the destructor are never forced. That the reader catches up with
  the writer, and that data keeps coming where a property needs it, is not fairness
  but the hypothesis of that property (`CatchesUp`, `KeepsSending`).
* `LidarOdometry`: the 10 ms timer. `HomotopyPlanner`: the thread of the controller
  runs a cycle to its end (`Cycle`); the next need not be started, and the graph
  search finds finitely many paths.
* No fairness for status messages, lost localisation, new files or commands.

## 5. What is proved

Of each theorem the constants are arbitrary, within the assumptions named in the
module that declares them (positive sizes, natural bounds, a ring smaller than the
word and dividing it).

| module | theorem | statement |
|---|---|---|
| `GoalPoseBridgeProofs` | `InvariantHolds` | `Spec => []IndInv` |
| | `TypeCorrect` | `Spec => []TypeOK` |
| | `CancelIsSelective` | `Spec => []CancelSparesNewest` |
| | `NewestSurvives` | `Spec => []NewestNeverCanceled` |
| | `HandleStaysLive` | `Spec => []HandleIsLive` |
| | `ImplementsSoleGoal` | `Spec => OwnsOneGoal` |
| | `FilterIsHarmless` | `Spec => []SuppressionIsRedundant` |
| | `DrivesToLastPose` | `Spec => []DrivesWhereHeard` |
| `SentryProofs` | `AlwaysIndInv` | `Spec => []IndInv` |
| | `TypeCorrect` | `Spec => []TypeOK` |
| | `StatusComesFirst` | `Spec => []WaitsForStatus` |
| | `HomeComesFirst` | `WaypointsApart => (Spec => HomeHasPriority)` |
| | `WholeWaitFirst` | `Spec => AdvancesAfterWait` |
| | `ImplementsBridge` | the chain implements the bridge's `Spec` |
| | `ChainDrivesWhereWanted` | `ChainSpec => []DrivesWhereWanted` |
| | `RetreatHeadsHome` | `HomeApart => (ChainSpec /\ RetreatsApart => []RetreatDrivesHome)` |
| | `UnthrottledHeadsHome` | `Interval <= 1 /\ HomeApart => (ChainSpec => []RetreatDrivesHome)` |
| `RefereeExecutorProofs` | `InvariantHolds`, and one theorem for each of the next three properties | `Spec => []Inv` |
| `RefereeSystemProofs` | `ImplementsExecutor` | the composition implements the executor's `Spec` |
| | `RetreatEndsWithDecision` | `Spec => []NoStrayRetreat` |
| | `RetreatIsSafe` | `Spec => []RetreatIsNotCancelled` |
| | `RetreatIsKnown` | `Spec => []RunningIsKnown` |
| | `ObeysCurrentDecision` | `Spec => []DecisionIsCurrent` |
| `RosActionNodeProofs` | `InvariantHolds` | `Spec => []Inv` |
| | `TypeCorrect` | `Spec => []TypeOK` |
| | `LeavesNoGoalBehind` | `Spec => []OwnsItsGoal` |
| | `ReportIsOwn` | `Spec => ReportsOwnResult` |
| `LivoxDriverProofs` | `InvariantHolds` | `Spec => []Inv` |
| | `TypeCorrect` | `Spec => []TypeOK` |
| | `FramesAreIntact` | `Spec => []FrameIsIntact` |
| | `OnlyConfiguredSample` | `Spec => []SamplingIsConfigured` |
| `LidarOdometryProofs` | `RegistersOwnScan` | `Spec => RegistersTheScan` |
| | `PredictsExactly` | `Spec => PredictsToScanEnd` |
| | `KeepsStamps` | `Spec => []ScanKeepsItsStamp` |
| | `OdometryIsOrdered` | `ScansFollow => (Spec => []OdometryMovesOn)` |
| `HomotopyPlannerProofs` | `InvariantHolds` | `Spec => []Inv` |
| | `StaysAligned` | `Spec => []ClassesAreAligned` |
| | `PlanIsPreferred` | `Spec => []PrefersPlansClass` |
| | `StaysDistinct` | `Spec => []CandidatesAreDistinct` |
| | `CommandsAreFeasible` | `Spec => []CommandIsFeasible` |

**The bridge**, prompt or not. None of the safety
properties is inductive. `HandleIsLive` breaks if a response to the newest goal
can arrive after that goal's result; `NewestNeverCanceled` breaks if a cancel
request can name it. `IndInv` therefore adds that goals not yet sent are unknown to
client and server (`FreshGoals`), that requests and responses are queued in the
order of their numbers, each at most once and each for a goal the client still
counts as sent (`RequestsInOrder`, `ResponsesInOrder`), and that every travelling
cancel request names an older goal (`CancelsOlder`). One lemma per action shows that
the action keeps it; the steps of the server that touch no queue share one. The
refinement follows from the invariant step by step: a response or a result
changes the handle only when its number is the counter. For the filter one more
invariant is needed, on top of `IndInv` and only as long as nothing crashed: every
goal counted as sent has its request or its response under way (`FollowedUp`), the
server knows what it accepted (`AcceptedAreKnown`), and a filter that is on is about
a goal not answered yet, running or reached (`FilterIsAboutNewest`).

That the server drives to the pose heard last holds with crashes, too. A pose is
swallowed in two cases. Either the server is down, and then nothing is under way, because
a server that goes down ends its goals and loses its requests; or the pose is close to the
one the filter remembers, which is that of the goal sent last. `NewestIsDriven` says the two
things this needs: a goal that runs, unless requests are waiting, is the newest, and the
filter's pose is the newest goal's. `DrivingInv` adds that while anything is under way that
goal's pose is close to the one heard.

**The decision process**, for all four trees, any files, places, hit points, intervals and
waiting times. Each operator of `SentryTrees` has a lemma, its contract, that says which
world it leaves and which status it returns as far as the nodes above it rely on them: a
publisher appends its own pose or nothing, a Sequence keeps the child it stopped at,
a reactive node halts all children but one, a branch that fails has published nothing. The
contract of a tree follows from those of its branches (`Chooses`), that of a whole tick
(`Ticks`) from the trees', and no proof above a contract opens the operator. The invariant
`IndInv` is needed because the trees remember: a retreat under way has a status message
behind it and a halted one forgot its child (`TickInv`); the wait belongs to the third
child of the Sequence that visits a waypoint, so that what interrupts a visit ends the wait
(`VisitInv`); and while a visit runs, index, list of waypoints and goal on the blackboard
agree (`AtWaypoint`), although the file may be replaced: `LoadWaypoints` runs again only
after the patrol was halted, and then no visit is under way. `WaitsForStatus` is a part of
`IndInv`. `HomeComesFirst` has one hypothesis, `WaypointsApart`: no waypoint file sends the
patrol to the home pose. Without it a patrol publishes home without retreating, which
`HomeGuard` does not allow, and nobody would mind.

**The chain.** The tree and the topic only choose the poses that `goal_callback` is called
with, so each step of the chain is a step of the bridge or leaves it alone, and the chain
implements the bridge (`ImplementsBridge`): what is proved of the bridge alone holds with
every tree. `ChainInv` joins the invariants of both sides with the one fact about the topic:
the pose published last is its newest message or, once it is empty, the one heard last
(`NewestIsHeard`; a topic that is full drops its oldest). `DrivesWhereWanted` follows.
`RetreatHeadsHome` needs that home is published when a retreat starts (`RetreatIsWanted`).
A retreat that starts less than 500 ms after home was published, in the retreat before it,
publishes nothing (see `singlenav_basic.xml:21-26` among the disagreements of section 3);
`RetreatsApart` says that this does not happen, for any interval, and with intervals of at
most one tick it cannot (`UnthrottledHeadsHome`). `HomeApart` says that no other place
is within the bridge's tolerance of home, in which the filter would take it for home.

**The executor**, however late Nav2 answers. The flag `retreat_active_` says nothing about
which goal runs, and a cancel request names none, so none of the three promises is inductive.
A goal is under way while its request travels or the server runs it. The invariant says of
every such goal that a cancel request is on its way, that it was missed or forgotten, or that
it is the newest, the flag is set and the decision is RETREAT (`UnderWayIsCovered`): leaving
RETREAT either sends a cancel request, or the flag is down and the goal was forgotten; a
cancel request that is handled ends what runs and leaves what travels `missed`. A cancel
request that is under way during a retreat was so when its goal was sent, since only another
decision sends one (`CancelIsOld`), and during a retreat the flag is set while anything is
under way, or was cleared by an old result (`RetreatIsNoted`). `FreshGoals` and
`RequestsInOrder` are as for the bridge. `RefereeSystemProofs` carries the
three promises over to the whole chain: every step of the match is a step of the
executor or leaves it alone, for which only the topics' types are needed.

**The decision obeyed.** `DecisionIsCurrent` speaks of empty topics only,
so it says nothing while a decision travels. `NewestIsCurrent` says that what the statuses
read last call for is the newest message of the topic or, once that is empty, the decision
obeyed. A topic that is full drops its oldest message, never the newest; a game status
that changes no stage needs no evaluation; and before the first robot status the
invariant speaks of travelling messages only, since nothing has been decided.

**The leaf with a goal of its own.** `OwnsItsGoal` is not inductive: a response in the
queue may be about any goal. While every answer came in time and no exception left the
tree, the leaf is either `Resting`, with nothing travelling and every goal finished, or
`Executing` at one of three stages: its request travels (`Asked`), the one response does
(`AnswerTravels`), or the goal was accepted and the handle is its own (`Driven`). A
halt that is answered in time waits until the goal it cancels is over, so that no cancel
request is left and the leaf is at rest again. What survives late answers is kept apart: goals not sent are unknown
(`FreshGoals`) and accepted ones known to the server (`AcceptedAreKnown`).

**The lidar driver.** The indexes wrap around, so nothing can be said of the ring by
comparing them. The first part of `LivoxDriverProofs` describes a ring by two numbers that do not wrap,
the frames popped so far and the frames queued (`HoldsFrames`), and shows what each
operation does to them; it rests on a handful of lemmas about remainders.
The invariant adds that the writer, between its test and its push, is at a
ring with room, and the reader, between its copy and its pop, at a ring with a
frame (`WriterInPlace`, `ReaderInPlace`): each thread's step can only help the other.
For the configuration, every option of a lidar that was asked is awaited or
acknowledged (`OptionsAccounted`); the last bit cleared thus completes them.

**The lidar odometry.** Four invariants, from none of which the code's timing can be read
off. That a scan is registered with its own points needs only that nothing was undistorted
before the imu was initialised (`NothingUndistorted`). That it keeps its stamp needs the
queues parallel and in order (`QueuesAreParallel`) and that a scan taken in an earlier call
of `sync_packages`, which returned without samples, is still at the front
(`TakenIsOldest`), as long as no jump of time dropped a scan (`dropped = 0`); a jump that finds
no scan waiting keeps both (`StampsInv`). That stamps increase needs in addition that a mean
duration is known as soon as a scan of several points was taken and is as long as some scan
(`MeanIsKnown`), and that the last odometry belongs to a scan begun before all that wait (`OdometryIsPast`).
`ScansFollow` says that a scan ends before the next one begins, which a lidar that scans on
continuously guarantees; a mean that ran ahead of the next scan would otherwise stamp two
odometries out of order.
`OdometryMovesOn` is claimed until the time of scans jumps back, since the odometry's stamps
follow it.
That the prediction is exact (`PredictsExactly`) is a telescoping sum over the samples of a
scan. The recursive function in `Prediction` is not unfolded by induction but through the
first number for which the claim would fail (`LeastNumber`), after which `CoveredByStep` gives the
contradiction. The invariant places the end of the last undistorted scan between the sample
used last and those that wait, so that exactly the first step is clipped.

**The planner**, for any number of classes and of trajectories. The containers need not be
parallel: a best trajectory with an invalid class is kept without it. `BestUnlisted` says
what is true then: it is the first, nothing else is missing, it stays the best until the
selection, and if no trajectory in the list is the best after the selection, none has a
cost, so that a second selection, which resets both pointers, finds nothing and ends in a
failure that clears the planner. Aligned containers, the
plan's class and the command follow from that, together with `PlanIsOfItsClass` and with
`Types`, which says that a trajectory is listed once. What the code erases is described by
the places that stay; the lemmas at the top of the module number the elements of a finite set
of numbers (`Rank`, `Place`: an element's rank grows with it, and each rank is taken), and
show what remains of a sequence (`PickedElements`). `AddedAreFew` counts what
`addEquivalenceClassIfNew` lets through: every place it admits has fewer admitted places of
its class before it than the class has room. `PointerAssumption` says that a null pointer is
no trajectory. Of the selection only what the two containers can tell is used: costs are open.

**Only model-checked:** the liveness properties, which need `ENABLED` and so are out of the
prover's reach: `KeepsRetrying`, `KeepsPublishing`, `ReactiveBranchSendsHome`,
`PatrolGoesOn`, `LowHpGetsHome`, `GameOverShutsDown`, `Reports`, `PushedIsPublished`,
`FullRingDrains`, `ShutdownEnds`, `ScanIsTaken`, `CycleEnds`. Every invariant and every action
property of a passing run has a theorem, some under hypotheses that the table shows and the
paragraphs above explain.

## 6. Hazards

The list in `PROJECT.json` names 40 places in the code that a test would hardly
reach. Most have a property. The others say why not: nothing in the repository
promises what should happen there (a retreat that is not tried again, frames that
are not resynchronised), or the code is in a part that is not modelled.

## 7. What could come next

* The `multiplenav` trees, whose first leaf is a `RosActionNode`: both that leaf and
  the bridge would then drive Nav2.
* `point_lio`, whose queues are those of `LidarOdometry` but which updates the filter
  point by point.

## 8. Not modelled

* `referee_keyboard` is terminal input; what it sends is `Referee!Command`.
  `referee_to_serial_bridge` repeats the newest status; what arrives is
  `Sentry!Receive`.
* `COD_Serial` reads bytes without looking for the start of a frame. What it leads to
  after a lost byte is any status, which the hit points of the `Sentry` runs include.
* `fake_vel_transform` and `icp_registration` are real-valued geometry around one
  lock and one flag.
* Of `FAST_LIO` the filter, the k-d tree and the preprocessing of points, of
  `teb_local_planner` the optimisation of one trajectory, the costs, the geometry
  of the graph search and the conversion of obstacles: real-valued numbers that no
  finite set stands for. `point_lio` is the alternative to `FAST_LIO` that the launch
  argument `lio` selects with the value `pointlio` (`bringup_real_bt.launch.py:233`).
* Of `livox_ros_driver2` the parsing of the configuration file, coordinates, playback
  and message layout.
* `TreeExecutionServer` and the subscriber, service and logger wrappers of
  `behaviortree_ros2` are instantiated by no executable and used by no tree.
* The perception filters are stateless conversions; the Gazebo packages are assets and
  a plugin of the simulator. Vendored headers (`matplotlibcpp.h`, the IKFoM toolkit)
  are third-party code.
* Logging, markers and the `/cmd_vel` zero command of the executor are left out, as no
  modelled state depends on them.
