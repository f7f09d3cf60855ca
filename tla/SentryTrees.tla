----------------------------- MODULE SentryTrees -----------------------------
(***************************************************************************)
(* The leaves of cod_behavior and the behaviour trees of                   *)
(* cod_behavior/cod_bt that navigate by publishing on /goal_pose, composed *)
(* of the control nodes of module BehaviorTree.                            *)
(*                                                                         *)
(* A world is a record of what a tick reads and writes: memory, seen, bb,  *)
(* age, timer, out, inbox, csv and robot, the variables of module Sentry.  *)
(***************************************************************************)
EXTENDS BehaviorTree, Sequences, SequencesExt

CONSTANTS
  NoStatus,      \* no status message
  Interval,      \* min_pub_interval_ms, in ticks
  WaitTicks      \* the five seconds of WaitDuration, in ticks

ASSUME TimeAssumption == Interval \in Nat /\ WaitTicks \in Nat \ {0}

\* The nodes that keep something while they run, and the instances of PubNav2Goal.
Nodes == {"root", "home", "goHome", "patrol", "visit", "reach", "wait"}
Publishers == {"toMain", "toHome", "holdMain", "toWaypoint", "toPosition1", "toMain1"}

-----------------------------------------------------------------------------
(* The waypoint file (include.h:43-107).  A row is [kind, pose, wait]; kind *)
(* "bad" stands for the rows that are skipped (too few columns, a number    *)
(* that does not parse), "badwait" for one whose wait_sec does not parse:   *)
(* its pose is pushed before the exception, its waiting time is not.        *)

Kept(rows, kinds) == SelectSeq(rows, LAMBDA r : r.kind \in kinds)

LoadedPoses(rows) ==
  LET kept == Kept(rows, {"ok", "badwait"}) IN [i \in 1 .. Len(kept) |-> kept[i].pose]

LoadedWaits(rows) == LET kept == Kept(rows, {"ok"}) IN [i \in 1 .. Len(kept) |-> kept[i].wait]

-----------------------------------------------------------------------------
(* The leaves.                                                             *)

\* The blackboard before the first message (cod_behavior.cpp:130-131).
Hp(status) == IF status = NoStatus THEN 400 ELSE status.hp
ZoneStatus(status) == status # NoStatus /\ status.zone

\* Mutant: the leaf succeeds before any message arrived.
MutantWriteDefaults(w) ==
  Success([w EXCEPT !.seen = IF w.inbox = NoStatus THEN w.seen ELSE w.inbox,
                    !.inbox = NoStatus])

\* spin_some of the leaf's own node reads every queued message; the last wins.
WriteToBlackboard(w) ==
  LET got == IF w.inbox = NoStatus THEN w.seen ELSE w.inbox
  IN Test(got # NoStatus, [w EXCEPT !.seen = got, !.inbox = NoStatus])

HpCondition(w) == Test(Hp(w.seen) < 210, w)
StayHome(w) == IF Hp(w.seen) >= 350 THEN Success(w) ELSE Running(w)
ZsCondition(w) == Test(ZoneStatus(w.seen), w)

\* Mutant: a skipped publication restarts the interval.
MutantThrottleRestarts(n, pose, w) ==
  Success([w EXCEPT !.out = IF w.age[n] < Interval THEN @ ELSE Append(@, pose), !.age[n] = 0])

\* RosTopicPubNode::tick: inside the interval nothing is published, and the
\* node succeeds all the same.
PubNav2Goal(n, pose, w) ==
  Success(IF w.age[n] < Interval THEN w
          ELSE [w EXCEPT !.out = Append(@, pose), !.age[n] = 0])

LoadWaypoints(w) ==
  IF LoadedPoses(w.csv) = <<>> THEN Failure(w)
  ELSE Success([w EXCEPT !.bb.waypoints = LoadedPoses(w.csv),
                         !.bb.wait_times = LoadedWaits(w.csv)])

\* The waiting time goes to a port that is bound to a literal: it is lost.
GetCurrentWaypoint(w) ==
  IF w.bb.wp_idx >= Len(w.bb.waypoints) THEN Failure(w)
  ELSE Success([w EXCEPT !.bb.current_goal = w.bb.waypoints[w.bb.wp_idx + 1]])

\* onStart always runs once; without a transform the node keeps waiting.
WaitUntilReached(w) ==
  IF w.memory["reach"] # 0 /\ w.robot = w.bb.current_goal
  THEN Success(Remember("reach", 0, w)) ELSE Running(Remember("reach", 1, w))

\* Mutant: the comparison with the elapsed time is the wrong way round.
MutantWaitEndsEarly(w) ==
  IF w.memory["wait"] # 0 /\ w.timer <= WaitTicks THEN Success(Remember("wait", 0, w))
  ELSE Running(Remember("wait", 1, [w EXCEPT !.timer = 0]))

\* duration_sec is 5 in the trees.
WaitDuration(w) ==
  IF w.memory["wait"] = 0 THEN Running(Remember("wait", 1, [w EXCEPT !.timer = 0]))
  ELSE IF w.timer < WaitTicks THEN Running(w)
  ELSE Success(Remember("wait", 0, w))

\* Mutant: the index does not wrap around.
MutantNextWaypoint(w) == Success([w EXCEPT !.bb.wp_idx = @ + 1])

NextWaypoint(w) == Success([w EXCEPT !.bb.wp_idx = (@ + 1) % Len(w.bb.waypoints)])

-----------------------------------------------------------------------------
(* The branches, and the trees made of them.                               *)

\* The node between HpCondition and the end of the branch that goes home: a
\* Sequence, and in test.xml a ReactiveSequence.
GoHome(w) ==
  LET go   == InOrder("goHome", w, 1, Success(w), PubNav2Goal("toHome", "home", w))
      stay == InOrder("goHome", w, 2, go, StayHome(go.w))
  IN  SequenceEnds("goHome", {}, stay)

KeepGoingHome(w) ==
  LET go   == Child(1, PubNav2Goal("toHome", "home", w))
      stay == Then(2, "SUCCESS", go, StayHome(go.w))
  IN  ReactiveEnds(<<>>, stay)

Home(kind, w) ==
  LET low  == InOrder("home", w, 1, Success(w), HpCondition(w))
      gone == InOrder("home", w, 2, low,
                      IF kind = "Sequence" THEN GoHome(low.w) ELSE KeepGoingHome(low.w))
  IN  SequenceEnds("home", {"goHome"}, gone)

\* ReactiveSequences that hold main, or patrol, as long as the zone is not taken.
HoldMain(w) ==
  LET clear == Child(1, Inverter(ZsCondition(w)))
      hold  == Then(2, "SUCCESS", clear, PubNav2Goal("holdMain", "main", clear.w))
  IN  ReactiveEnds(<<>>, hold)

Reach(w) ==
  LET go    == Child(1, PubNav2Goal("toWaypoint", w.bb.current_goal, w))
      there == Then(2, "SUCCESS", go, WaitUntilReached(go.w))
  IN  ReactiveEnds([reach |-> 2], there)

Visit(w) ==
  LET get   == InOrder("visit", w, 1, Success(w), GetCurrentWaypoint(w))
      reach == InOrder("visit", w, 2, get, Reach(get.w))
      wait  == InOrder("visit", w, 3, reach, WaitDuration(reach.w))
      next  == InOrder("visit", w, 4, wait, NextWaypoint(wait.w))
  IN  SequenceEnds("visit", {"reach", "wait"}, next)

Patrol(w) ==
  LET load   == InOrder("patrol", w, 1, Success(w), LoadWaypoints(w))
      visits == InOrder("patrol", w, 2, load, KeepRunningUntilFailure(Visit(load.w)))
  IN  SequenceEnds("patrol", {"visit", "reach", "wait"}, visits)

PatrolZone(w) ==
  LET clear == Child(1, Inverter(ZsCondition(w)))
      body  == Then(2, "SUCCESS", clear, Patrol(clear.w))
  IN  ReactiveEnds([patrol |-> 2, visit |-> 2, reach |-> 2, wait |-> 2], body)

\* What the ReactiveFallback of each tree makes of its choices.  The first one is
\* taken as long as no status message was received.
Unread(w) == Child(1, Inverter(WriteToBlackboard(w)))

SinglenavBasic(w) ==
  LET unread == Unread(w)
      home   == Then(2, "FAILURE", unread, Home("Sequence", unread.w))
      hold   == Then(3, "FAILURE", home, HoldMain(home.w))
      idle   == Then(4, "FAILURE", hold, Success(hold.w))
  IN  ReactiveEnds([home |-> 2, goHome |-> 2], idle)

BasicTree(w) ==
  LET unread == Unread(w)
      home   == Then(2, "FAILURE", unread, Home("Sequence", unread.w))
      hold   == Then(3, "FAILURE", home, HoldMain(home.w))
      leave  == Then(4, "FAILURE", hold, PubNav2Goal("toPosition1", "ap_position1", hold.w))
      idle   == Then(5, "FAILURE", leave, Success(leave.w))
  IN  ReactiveEnds([home |-> 2, goHome |-> 2], idle)

\* Mutant: the patrol comes before the branch that goes home.
MutantSinglenavTree(w) ==
  LET unread == Unread(w)
      patrol == Then(2, "FAILURE", unread, PatrolZone(unread.w))
      home   == Then(3, "FAILURE", patrol, Home("Sequence", patrol.w))
      leave  == Then(4, "FAILURE", home, PubNav2Goal("toPosition1", "ap_position1", home.w))
  IN  ReactiveEnds([patrol |-> 2, visit |-> 2, reach |-> 2, wait |-> 2, home |-> 3, goHome |-> 3],
                   leave)

SinglenavTree(w) ==
  LET unread == Unread(w)
      home   == Then(2, "FAILURE", unread, Home("Sequence", unread.w))
      patrol == Then(3, "FAILURE", home, PatrolZone(home.w))
      leave  == Then(4, "FAILURE", patrol, PubNav2Goal("toPosition1", "ap_position1", patrol.w))
      idle   == Then(5, "FAILURE", leave, Success(leave.w))
  IN  ReactiveEnds([home |-> 2, goHome |-> 2, patrol |-> 3, visit |-> 3, reach |-> 3, wait |-> 3],
                   idle)

TestTree(w) ==
  LET unread == Unread(w)
      home   == Then(2, "FAILURE", unread, Home("ReactiveSequence", unread.w))
      leave  == Then(3, "FAILURE", home, PubNav2Goal("toMain1", "main1", home.w))
      idle   == Then(4, "FAILURE", leave, Success(leave.w))
  IN  ReactiveEnds([home |-> 2, goHome |-> 2], idle)

\* The files of cod_bt, one of which cod_bt_path names.
TreeNames == {"singlenav_basic", "basic_tree", "singlenav_tree", "test"}

Choose(name, w) ==
  CASE name = "singlenav_basic" -> SinglenavBasic(w)
    [] name = "basic_tree"      -> BasicTree(w)
    [] name = "singlenav_tree"  -> SinglenavTree(w)
    [] name = "test"            -> TestTree(w)

\* Tree::tickOnce.  All trees drive to main once, then keep choosing.
TickOnce(name, w) ==
  LET main   == InOrder("root", w, 1, Success(w), PubNav2Goal("toMain", "main", w))
      choice == InOrder("root", w, 2, main, KeepRunningUntilFailure(Choose(name, main.w)))
  IN  SequenceEnds("root", Nodes, choice).w
=============================================================================
