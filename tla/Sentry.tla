------------------------------- MODULE Sentry -------------------------------
(***************************************************************************)
(* The decision process cod_behavior: its main loop (cod_behavior.cpp:     *)
(* 142-149) ticks the tree that was loaded, every leaf runs inside that    *)
(* tick, and status messages, the robot's position and the waypoint file   *)
(* change between ticks.                                                   *)
(*                                                                         *)
(* Time is counted in ticks: age[p] is the time since the PubNav2Goal p    *)
(* last published, as far as it matters (at most Interval, also before the *)
(* first publication), timer that since WaitDuration started (at most      *)
(* WaitTicks).                                                             *)
(***************************************************************************)
EXTENDS SentryTrees

CONSTANTS
  Trees,         \* trees the process may be started with
  Hps,           \* hit points that status messages carry
  Zones,         \* and the values of their zone_status
  Poses,         \* places of the map: main, home, ... and the waypoints
  NoPose,        \* the position is not known (no transform)
  Files          \* contents the waypoint file may have: sequences of rows

ASSUME TreesAssumption == Trees \subseteq TreeNames
ASSUME PlacesAssumption == {"main", "main1", "home", "ap_position1"} \subseteq Poses
ASSUME FilesAssumption == \A f \in Files : LoadedPoses(f) \in Seq(Poses)

Statuses == [hp : Hps, zone : Zones]

ASSUME StatusAssumption ==
  Hps \subseteq Nat /\ Zones \subseteq BOOLEAN /\ NoStatus \notin Statuses

VARIABLES
  tree,           \* name of the tree (parameter cod_bt_path)
  memory,         \* what running nodes of the tree keep, see BehaviorTree
  seen,           \* WriteToBlackboard: the last message read
  bb,             \* blackboard of the patrol: waypoints, wp_idx, current_goal
  age, timer,     \* clocks
  out,            \* poses published on /goal_pose in the last tick
  wanted,         \* the pose published last, in any tick
  inbox,          \* newest status message not read yet
  csv,            \* the waypoint file
  robot           \* where the robot is

treeVars == <<memory, seen, bb, age, timer, out, wanted>>
vars == <<tree, treeVars, inbox, csv, robot>>

-----------------------------------------------------------------------------
(* The process and its surroundings.                                       *)

Init ==
  /\ tree \in Trees
  /\ memory = [n \in Nodes |-> 0]
  /\ seen = NoStatus
  /\ bb = [waypoints |-> <<>>, wait_times |-> <<>>, wp_idx |-> 0, current_goal |-> NoPose]
  /\ age = [p \in Publishers |-> Interval]
  /\ timer = 0
  /\ out = <<>>
  /\ wanted = NoPose
  /\ inbox = NoStatus
  /\ csv \in Files
  /\ robot = NoPose

Older(n, limit) == IF n < limit THEN n + 1 ELSE n

\* The world that a tick of the tree finds, and the one that it leaves.
Before ==
  [memory |-> memory, seen |-> seen, bb |-> bb,
   age |-> [p \in Publishers |-> Older(age[p], Interval)], timer |-> Older(timer, WaitTicks),
   out |-> <<>>, inbox |-> inbox, csv |-> csv, robot |-> robot]

After == TickOnce(tree, Before)

LastOf(after) == IF after.out = <<>> THEN wanted ELSE after.out[Len(after.out)]

\* One round of the main loop: sleep, then tick the tree once.
TickTree ==
  /\ \E after \in {After} :
       /\ memory' = after.memory /\ seen' = after.seen /\ bb' = after.bb
       /\ age' = after.age /\ timer' = after.timer
       /\ out' = after.out /\ wanted' = LastOf(after)
       /\ inbox' = after.inbox
  /\ UNCHANGED <<tree, csv, robot>>

\* The serial node, or the referee bridge of the simulation, publishes.
Receive(s) == inbox' = s /\ UNCHANGED <<tree, treeVars, csv, robot>>

\* The robot gets where it was sent last, or localisation loses it.
Move(p) ==
  /\ p \in {wanted, NoPose} \ {robot}
  /\ robot' = p
  /\ UNCHANGED <<tree, treeVars, inbox, csv>>

\* The waypoint file is replaced while the robot patrols.
ReplaceFile(f) == csv # f /\ csv' = f /\ UNCHANGED <<tree, treeVars, inbox, robot>>

Next ==
  \/ TickTree
  \/ \E s \in Statuses : Receive(s)
  \/ \E p \in Poses \cup {NoPose} : Move(p)
  \/ \E f \in Files : ReplaceFile(f)

Spec == Init /\ [][Next]_vars

\* Whether a tick changes anything: ENABLED <<TickTree>>_vars.
TickMatters ==
  \E after \in {After} :
    <<after.memory, after.seen, after.bb, after.age, after.timer, after.out, LastOf(after),
      after.inbox>> # <<memory, seen, bb, age, timer, out, wanted, inbox>>

\* WF_vars(TickTree), written out, because TLC is slow to find whether it is enabled.
TicksGoOn == []<>~TickMatters \/ []<><<TickTree>>_vars

\* The loop of cod_behavior.cpp:142-149 never stops, and Nav2 brings the
\* robot where it was sent last.
Fairness == TicksGoOn /\ WF_vars(wanted # NoPose /\ Move(wanted))

FairSpec == Spec /\ Fairness

TypeOK ==
  /\ seen \in Statuses \cup {NoStatus} /\ inbox \in Statuses \cup {NoStatus}
  /\ bb.wp_idx \in Nat
  /\ bb.current_goal \in Poses \cup {NoPose}
  /\ age \in [Publishers -> 0 .. Interval]
  /\ timer \in 0 .. WaitTicks
  /\ out \in Seq(Poses) /\ wanted \in Poses \cup {NoPose} /\ robot \in Poses \cup {NoPose}
  /\ csv \in Files
  /\ memory \in [Nodes -> 0 .. 3]
  /\ tree \in Trees

-----------------------------------------------------------------------------
(* Going home.                                                             *)

Retreating == memory["home"] # 0

\* cod_behavior/README.md:56: going home to recover has the highest
\* priority.  Whatever the tree was doing, it starts at the tick that reads
\* hit points below 210, ends only at one of 350 or more, and while it lasts
\* no other place is the one published last in a tick.  The two numbers are
\* those condition.h:24,77 tests; the README's trigger, below 30% (:38), and
\* the numbers condition.h:25,78 logs, 150 and 300, differ from them, and of
\* those nothing is claimed: at 209 the robot goes home already.
Guard == INSTANCE HomeGuard WITH hp <- Hp(seen), retreating <- Retreating, goals <- out

HomeHasPriority == Guard!GuardSpec

\* cod_behavior/README.md:37-38: a robot that stays low in hit points is in
\* the end sent home, and nowhere else.
LowHpSendsHome == <>[]Retreating => <>[](wanted = "home")

\* bt_topic_pub_node.hpp:190-202 skips publications and relies on the tree to
\* come back to the node: the reactive branch of test.xml does.
ReactiveBranchSendsHome == tree = "test" => LowHpSendsHome

\* action.h:418-419: no patrol starts, and nothing but the main goal is sent,
\* before a status message was read, although the blackboard holds defaults
\* that would allow it.
WaitsForStatus == seen = NoStatus => wanted \in {"main", NoPose}

-----------------------------------------------------------------------------
(* Holding a place and patrolling.                                         *)

\* Messages report full health, and zone as given, from now on.
Calm(zone) ==
  /\ seen # NoStatus => seen.hp >= 350 /\ seen.zone = zone
  /\ inbox # NoStatus => inbox.hp >= 350 /\ inbox.zone = zone
  /\ seen # NoStatus \/ inbox # NoStatus

\* goal_pose_bridge.cpp:97 counts on the tree to send a goal again: the
\* place to hold is published for ever as long as it should be held.
Held == IF tree = "test" THEN "main1" ELSE "main"

KeepsPublishing ==
  tree # "singlenav_tree" => (<>[]Calm(FALSE) => []<>(out = <<Held>>))

\* PubNav2Goal_Patrol.md:87-88,154-157: the next waypoint is taken only after
\* the whole wait, never in a tick that interrupts the patrol, and the one left
\* behind is the one that was waited for, also if the file changed meanwhile.
AdvancesAfterWait ==
  [][bb'.wp_idx # bb.wp_idx =>
       /\ timer + 1 >= WaitTicks
       /\ bb'.wp_idx = (bb.wp_idx + 1) % Len(bb.waypoints)
       /\ bb.current_goal = bb.waypoints[bb.wp_idx + 1]
       /\ seen' # NoStatus /\ Hp(seen') >= 210 /\ ~ZoneStatus(seen') /\ ~Retreating']_vars

\* PubNav2Goal_Patrol.md:48,85: the robot waits where it was sent last.
SentToWaypoint == [][bb'.wp_idx # bb.wp_idx => wanted = bb.current_goal]_vars

\* PubNav2Goal_Patrol.md:152-157: however often the patrol is interrupted or
\* its file replaced, it visits every waypoint again and again afterwards.
PatrolGoesOn ==
  tree = "singlenav_tree" =>
    \A f \in Files :
      <>[](Calm(FALSE) /\ csv = f /\ robot # NoPose) =>
        \A i \in 1 .. Len(LoadedPoses(f)) : []<>(bb.wp_idx = i - 1 /\ robot = LoadedPoses(f)[i])
=============================================================================
