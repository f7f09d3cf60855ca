---------------------------- MODULE RosActionNode ----------------------------
(***************************************************************************)
(* behaviortree_ros2/bt_action_node.hpp: a leaf of the tree that sends an  *)
(* action goal of its own and runs until the result is in.  SendNav2Goal,  *)
(* FollowWaypointsAction and NavigateThroughPosesAction of action.h are    *)
(* such leaves (the second turns a success with missed waypoints into a    *)
(* failure, which is left out).                                            *)
(*                                                                         *)
(* The parent ticks the leaf (Start when it is idle, Poll while it runs)   *)
(* or halts it.  Messages from the server are handled only while one of    *)
(* these calls spins the executor of the leaf; Poll handles any part of    *)
(* what has arrived.  Halt blocks; its waiting is not modelled: it is a    *)
(* step from the moment at which what it waits for is there.               *)
(*                                                                         *)
(* The action client and the Nav2 server are external, as in module        *)
(* GoalPoseBridge.                                                         *)
(***************************************************************************)
EXTENDS Naturals, Sequences

CONSTANTS
  MaxGoals,   \* bound: goals the leaf sends
  MaxFaults,  \* bound: failed goals and lifecycle changes of the server
  MaxLate     \* bound: answers that take longer than server_timeout (5 s)

ASSUME BoundAssumption == MaxGoals \in Nat /\ MaxFaults \in Nat /\ MaxLate \in Nat

GoalIds == 1 .. MaxGoals

NoHandle == 0

VARIABLES
  status,        \* of the leaf; the parent resets a finished leaf to IDLE
  outcome,       \* how the last call ended
  goal_received, future_goal_handle, goal_handle, result,
  alive,         \* no exception left the tree, no null handle was used
  sent,          \* goals sent so far
  client,        \* client[g]: what the action client knows of goal g
  goal_req,      \* goals on their way to the server, oldest first
  goal_resp,     \* responses on their way back, oldest first
  cancel_req,    \* goals named by a cancel request that is still travelling
  server,        \* server[g]: what the server made of goal g
  nav,           \* lifecycle of the server
  faults,
  late           \* answers the leaf did not wait for

leafVars == <<status, outcome, goal_received, future_goal_handle, goal_handle, result, alive,
              late>>
clientVars == <<sent, client, goal_req, goal_resp, cancel_req>>
serverVars == <<server, nav, faults>>
vars == <<leafVars, clientVars, serverVars>>

Ready == nav \in {"inactive", "active"}

Terminal == {"succeeded", "aborted", "canceled"}

TypeOK ==
  /\ status \in {"IDLE", "RUNNING"}
  /\ outcome \in {"none", "RUNNING", "SUCCESS", "FAILURE", "halted"}
  /\ goal_received \in BOOLEAN /\ alive \in BOOLEAN
  /\ {future_goal_handle, goal_handle} \subseteq GoalIds \cup {NoHandle}
  /\ result \in Terminal \cup {"unknown"}
  /\ sent \in 0 .. MaxGoals
  /\ client \in [GoalIds -> {"none", "sent", "accepted", "rejected", "done"}]
  /\ goal_req \in Seq(GoalIds)
  /\ goal_resp \in Seq([id : GoalIds, ok : BOOLEAN])
  /\ cancel_req \in SUBSET GoalIds
  /\ server \in [GoalIds -> {"none", "active"} \cup Terminal]
  /\ nav \in {"down", "inactive", "active"}
  /\ faults \in 0 .. MaxFaults
  /\ late \in 0 .. MaxLate

Init ==
  /\ status = "IDLE" /\ outcome = "none"
  /\ goal_received = FALSE
  /\ future_goal_handle = NoHandle /\ goal_handle = NoHandle
  /\ result = "unknown"
  /\ alive = TRUE
  /\ sent = 0
  /\ client = [g \in GoalIds |-> "none"]
  /\ goal_req = <<>> /\ goal_resp = <<>> /\ cancel_req = {}
  /\ server = [g \in GoalIds |-> "none"]
  /\ nav = "down"
  /\ faults = 0 /\ late = 0

-----------------------------------------------------------------------------
(* The first tick.                                                         *)

\* Mutants: the result of the last goal, and the note that its handle was
\* received, survive.
MutantKeepResult == goal_received' = FALSE /\ UNCHANGED result
MutantKeepReceived == result' = "unknown" /\ UNCHANGED goal_received

\* goal_handle_ is not among what a new execution resets.
Reset == goal_received' = FALSE /\ result' = "unknown"

\* setGoal finds no goal to send, or the server is not there.
StartFails ==
  /\ Reset
  /\ future_goal_handle' = NoHandle
  /\ outcome' = "FAILURE"
  /\ UNCHANGED <<status, clientVars>>

Send ==
  /\ sent < MaxGoals
  /\ sent' = sent + 1
  /\ client' = [client EXCEPT ![sent + 1] = "sent"]
  /\ goal_req' = Append(goal_req, sent + 1)
  /\ UNCHANGED <<goal_resp, cancel_req>>

StartSends ==
  /\ Ready
  /\ Reset
  /\ Send
  /\ future_goal_handle' = sent'
  /\ status' = "RUNNING" /\ outcome' = "RUNNING"

Start ==
  /\ alive /\ status = "IDLE"
  /\ StartFails \/ StartSends
  /\ UNCHANGED <<goal_handle, alive, late, serverVars>>

-----------------------------------------------------------------------------
(* The later ticks.                                                        *)

\* Goals whose result has arrived; the client asked for it when it handled
\* the response.
Arrived == {g \in GoalIds : client[g] = "accepted" /\ server[g] \in Terminal}

\* What the client knows, after the step, of the goal whose response is awaited.
ResponseNow == IF future_goal_handle = NoHandle THEN "none" ELSE client'[future_goal_handle]

TooLate == late < MaxLate /\ late' = late + 1

Answer(r) == IF r.ok THEN "accepted" ELSE "rejected"

\* What the client knows after the n oldest responses and the results of done.
Told(n, done) ==
  [g \in GoalIds |->
     IF g \in done THEN "done"
     ELSE IF \E i \in 1 .. n : goal_resp[i].id = g
          THEN Answer(goal_resp[CHOOSE i \in 1 .. n : goal_resp[i].id = g])
          ELSE client[g]]

\* result_callback keeps the result only if goal_handle_ names its goal.
Noted(done) == IF goal_handle \in done THEN server[goal_handle] ELSE result

\* The callback reads through goal_handle_ even when there is none.
PollUsesNull(done) ==
  /\ done # {} /\ goal_handle = NoHandle
  /\ alive' = FALSE
  /\ UNCHANGED <<status, outcome, goal_received, future_goal_handle, goal_handle, result, late>>

\* No response yet: keep waiting, or give the goal up.
PollWaits(done) ==
  /\ done # {} => goal_handle # NoHandle
  /\ ~goal_received /\ ResponseNow = "sent"
  /\ \/ status' = status /\ outcome' = "RUNNING" /\ late' = late
     \/ TooLate /\ status' = "IDLE" /\ outcome' = "FAILURE"
  /\ result' = Noted(done)
  /\ UNCHANGED <<goal_received, future_goal_handle, goal_handle, alive>>

PollRejected(done) ==
  /\ done # {} => goal_handle # NoHandle
  /\ ~goal_received /\ ResponseNow = "rejected"
  /\ goal_received' = TRUE
  /\ goal_handle' = NoHandle /\ future_goal_handle' = NoHandle
  /\ status' = "IDLE" /\ outcome' = "FAILURE"
  /\ result' = Noted(done)
  /\ UNCHANGED <<alive, late>>

\* The goal runs; a result ends the leaf.
PollRunning(done) ==
  /\ done # {} => goal_handle # NoHandle
  /\ goal_received \/ ResponseNow = "accepted"
  /\ goal_received' = TRUE
  /\ goal_handle' = IF goal_received THEN goal_handle ELSE future_goal_handle
  /\ future_goal_handle' = NoHandle
  /\ result' = Noted(done)
  /\ IF result' = "unknown"
     THEN status' = status /\ outcome' = "RUNNING"
     ELSE /\ status' = "IDLE"
          /\ outcome' = IF result' = "succeeded" THEN "SUCCESS" ELSE "FAILURE"
  /\ UNCHANGED <<alive, late>>

Poll(n, done) ==
  /\ alive /\ status = "RUNNING"
  /\ client' = Told(n, done)
  /\ goal_resp' = SubSeq(goal_resp, n + 1, Len(goal_resp))
  /\ PollUsesNull(done) \/ PollWaits(done) \/ PollRejected(done) \/ PollRunning(done)
  /\ UNCHANGED <<sent, goal_req, cancel_req, serverVars>>

-----------------------------------------------------------------------------
(* halt and cancelGoal.                                                    *)

\* The request for the result of a goal the client has forgotten throws,
\* before onHalt is reached.
HaltThrows ==
  /\ goal_handle # NoHandle
  /\ client[goal_handle] # "accepted"
  /\ alive' = FALSE
  /\ UNCHANGED <<status, outcome, future_goal_handle, goal_handle, result, late,
                 clientVars, serverVars>>

\* Without a handle the call waits for the response ...
AnswerArrived == \E i \in DOMAIN goal_resp : goal_resp[i].id = future_goal_handle

\* ... and leaves the goal alone when none comes in time.
HaltGivesUp ==
  /\ goal_handle = NoHandle /\ ~AnswerArrived /\ TooLate
  /\ status' = "IDLE" /\ outcome' = "halted"
  /\ UNCHANGED <<future_goal_handle, goal_handle, result, alive, clientVars, serverVars>>

\* A rejection leaves a null handle, which is used all the same.
HaltUsesNull ==
  /\ goal_handle = NoHandle
  /\ \E i \in DOMAIN goal_resp : goal_resp[i].id = future_goal_handle /\ ~goal_resp[i].ok
  /\ alive' = FALSE
  /\ UNCHANGED <<status, outcome, future_goal_handle, goal_handle, result, late,
                 clientVars, serverVars>>

\* Mutant: the goal is given up without a word to the server.
MutantCancelNothing(g, told) ==
  /\ client' = told
  /\ UNCHANGED <<server, cancel_req, result, late>>

\* Goal g is cancelled and its result awaited; without an answer in time
\* the cancel request travels on.
Cancel(g, told) ==
  \/ /\ Ready
     /\ server' = [server EXCEPT ![g] = IF @ = "active" THEN "canceled" ELSE @]
     /\ client' = [told EXCEPT ![g] = "done"]
     /\ result' = server'[g]
     /\ UNCHANGED <<cancel_req, late>>
  \/ /\ TooLate
     /\ cancel_req' = cancel_req \cup {g}
     /\ client' = told
     /\ UNCHANGED <<server, result>>

\* The goal that goal_handle_ names is cancelled.
HaltCancels ==
  /\ goal_handle # NoHandle
  /\ client[goal_handle] = "accepted"
  /\ Cancel(goal_handle, client)
  /\ UNCHANGED <<future_goal_handle, goal_handle, goal_resp>>
  /\ status' = "IDLE" /\ outcome' = "halted"
  /\ UNCHANGED <<alive, sent, goal_req, nav, faults>>

\* The response arrives during the halt.
HaltTakesHandle ==
  /\ goal_handle = NoHandle
  /\ \E i \in DOMAIN goal_resp :
       /\ goal_resp[i].id = future_goal_handle /\ goal_resp[i].ok
       /\ goal_resp' = SubSeq(goal_resp, i + 1, Len(goal_resp))
       /\ Cancel(future_goal_handle, Told(i, {}))
  /\ goal_handle' = future_goal_handle
  /\ future_goal_handle' = NoHandle
  /\ status' = "IDLE" /\ outcome' = "halted"
  /\ UNCHANGED <<alive, sent, goal_req, nav, faults>>

Halt ==
  /\ alive /\ status = "RUNNING"
  /\ HaltThrows \/ HaltGivesUp \/ HaltUsesNull \/ HaltCancels \/ HaltTakesHandle
  /\ UNCHANGED goal_received

-----------------------------------------------------------------------------
(* The Nav2 action server (external).                                      *)

\* An active server accepts the oldest request and ends the goal it was
\* running, an inactive one rejects it.
TakeGoal ==
  /\ goal_req # <<>> /\ Ready
  /\ goal_req' = Tail(goal_req)
  /\ goal_resp' = Append(goal_resp, [id |-> Head(goal_req), ok |-> nav = "active"])
  /\ server' = IF nav = "active"
               THEN [g \in GoalIds |-> CASE g = Head(goal_req) -> "active"
                                         [] g # Head(goal_req) /\ server[g] = "active" -> "aborted"
                                         [] OTHER -> server[g]]
               ELSE server
  /\ UNCHANGED <<leafVars, sent, client, cancel_req, nav, faults>>

TakeCancel(g) ==
  /\ g \in cancel_req /\ Ready
  /\ cancel_req' = cancel_req \ {g}
  /\ server' = [server EXCEPT ![g] = IF @ = "active" THEN "canceled" ELSE @]
  /\ UNCHANGED <<leafVars, sent, client, goal_req, goal_resp, nav, faults>>

Succeed(g) ==
  /\ server[g] = "active"
  /\ server' = [server EXCEPT ![g] = "succeeded"]
  /\ UNCHANGED <<leafVars, clientVars, nav, faults>>

Abort(g) ==
  /\ server[g] = "active"
  /\ faults < MaxFaults /\ faults' = faults + 1
  /\ server' = [server EXCEPT ![g] = "aborted"]
  /\ UNCHANGED <<leafVars, clientVars, nav>>

\* The lifecycle manager brings the server up one state at a time.
BringUp ==
  /\ nav # "active"
  /\ nav' = IF nav = "down" THEN "inactive" ELSE "active"
  /\ UNCHANGED <<leafVars, clientVars, server, faults>>

\* Leaving the active state ends the running goal.
Deactivate ==
  /\ nav = "active"
  /\ faults < MaxFaults /\ faults' = faults + 1
  /\ nav' = "inactive"
  /\ server' = [g \in GoalIds |-> IF server[g] = "active" THEN "aborted" ELSE server[g]]
  /\ UNCHANGED <<leafVars, clientVars>>

-----------------------------------------------------------------------------
PollSome == \E n \in 0 .. Len(goal_resp), done \in SUBSET Arrived : Poll(n, done)

Next ==
  \/ Start
  \/ PollSome
  \/ Halt
  \/ TakeGoal
  \/ \E g \in GoalIds : TakeCancel(g)
  \/ \E g \in GoalIds : Succeed(g)
  \/ \E g \in GoalIds : Abort(g)
  \/ BringUp
  \/ Deactivate

Spec == Init /\ [][Next]_vars

\* The parent keeps ticking a leaf that runs, so that what has arrived is
\* handled in the end; the server answers, drives and comes up.
Fairness ==
  /\ WF_vars(Poll(Len(goal_resp), Arrived))
  /\ WF_vars(TakeGoal)
  /\ \A g \in GoalIds : WF_vars(TakeCancel(g)) /\ WF_vars(Succeed(g))
  /\ WF_vars(BringUp)

FairSpec == Spec /\ Fairness

-----------------------------------------------------------------------------
\* Goal g runs, or will run as soon as its request arrives.
UnderWay(g) == server[g] = "active" \/ \E i \in DOMAIN goal_req : goal_req[i] = g

\* ros_behavior_wrappers.md:31-32: halting the leaf cancels its goal, and a
\* leaf that has finished leaves none behind: what is under way is the goal
\* of the present execution (unless an answer came too late: the leaf forgets
\* goals it could not cancel).
OwnsItsGoal ==
  alive /\ late = 0 => \A g \in GoalIds : UnderWay(g) => status = "RUNNING" /\ g = sent

\* bt_action_node.hpp:381-406: what the leaf reports is the result of the goal
\* it sent in this execution, never that of an earlier one
\* (unless an answer came too late: the old handle then takes the old result).
ReportsOwnResult ==
  [][late' = 0 /\ status = "RUNNING" /\ status' = "IDLE" /\ outcome' # "halted" =>
       IF outcome' = "SUCCESS" THEN server[sent] = "succeeded"
                               ELSE server[sent] \in {"none", "aborted"}]_vars

\* A leaf that runs reports in the end, whatever Nav2 does, unless it is halted.
Reports == status = "RUNNING" ~> status = "IDLE" \/ ~alive

\* action.h:115-117: the process must survive a halt, also when the handle has
\* become invalid.
HaltIsSurvived == [][Halt /\ goal_handle # NoHandle => alive']_vars
=============================================================================
