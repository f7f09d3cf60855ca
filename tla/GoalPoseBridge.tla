--------------------------- MODULE GoalPoseBridge ---------------------------
(***************************************************************************)
(* rm_bt_bridge/src/goal_pose_bridge.cpp: the node that turns the poses    *)
(* the behaviour tree publishes on /goal_pose into goals of the Nav2       *)
(* action /navigate_to_pose.                                               *)
(*                                                                         *)
(* The node spins in one thread, so each of its callbacks is one action:   *)
(* GoalCallback (the subscription), GoalResponse and GoalResult (the two   *)
(* callbacks of SendGoalOptions).  The rest is external: the rclcpp_action *)
(* client below the node, and the Nav2 server, which rejects goals while   *)
(* it is not active, lets the newest accepted goal preempt the older one,  *)
(* and can crash and come back.  Goal requests arrive in the order they    *)
(* were sent; cancel requests use another service, so they can overtake    *)
(* goal requests or fall behind them.                                      *)
(***************************************************************************)
EXTENDS Naturals, Sequences

CONSTANTS
  Poses,        \* the poses the behaviour tree publishes
  NoPose,       \* the value-initialised last_goal_
  Near,         \* pairs of poses closer than goal_change_tolerance
  MaxGoals,     \* bound: goals the node sends
  MaxFaults,    \* bound: failed goals and lifecycle changes of the server
  MaxCrashes,   \* bound: crashes of the server
  Prompt        \* TRUE: a response comes back before the next publication

ASSUME PoseAssumption == NoPose \notin Poses
ASSUME NearAssumption == Near \subseteq Poses \X Poses /\ \A p \in Poses : <<p, p>> \in Near
ASSUME BoundAssumption == MaxGoals \in Nat /\ MaxFaults \in Nat /\ MaxCrashes \in Nat
ASSUME PromptAssumption == Prompt \in BOOLEAN

GoalIds == 1 .. MaxGoals

NoHandle == 0

VARIABLES
  have_last_goal, last_goal, goal_counter, current_goal_handle,
  heard,        \* the pose goal_callback was called with last
  target,       \* target[g]: the pose goal g was sent with
  client,       \* client[g]: what the action client knows of goal g
  goal_req,     \* goals on their way to the server, oldest first
  goal_resp,    \* responses on their way back, oldest first
  cancel_req,   \* goals named by a cancel request that is still travelling
  server,       \* server[g]: what the server made of goal g
  nav,          \* lifecycle of the server process
  faults, crashes

bridgeVars == <<have_last_goal, last_goal, goal_counter, current_goal_handle>>
navVars == <<server, nav, faults, crashes>>
vars == <<bridgeVars, heard, target, client, goal_req, goal_resp, cancel_req, navVars>>

\* Nav2 states in which action_server_is_ready() holds.
Ready == nav \in {"inactive", "active"}

Terminal == {"succeeded", "aborted", "canceled"}

TypeOK ==
  /\ have_last_goal \in BOOLEAN
  /\ last_goal \in Poses \cup {NoPose}
  /\ goal_counter \in 0 .. MaxGoals
  /\ current_goal_handle \in GoalIds \cup {NoHandle}
  /\ heard \in Poses \cup {NoPose}
  /\ target \in [GoalIds -> Poses \cup {NoPose}]
  /\ client \in [GoalIds -> {"none", "sent", "accepted", "rejected", "done", "orphan"}]
  /\ goal_req \in Seq(GoalIds)
  /\ goal_resp \in Seq([id : GoalIds, ok : BOOLEAN])
  /\ cancel_req \in SUBSET GoalIds
  /\ server \in [GoalIds -> {"none", "active", "lost"} \cup Terminal]
  /\ nav \in {"down", "inactive", "active"}
  /\ faults \in 0 .. MaxFaults
  /\ crashes \in 0 .. MaxCrashes

Init ==
  /\ have_last_goal = FALSE
  /\ last_goal = NoPose
  /\ goal_counter = 0
  /\ current_goal_handle = NoHandle
  /\ heard = NoPose
  /\ target = [g \in GoalIds |-> NoPose]
  /\ client = [g \in GoalIds |-> "none"]
  /\ goal_req = <<>>
  /\ goal_resp = <<>>
  /\ cancel_req = {}
  /\ server = [g \in GoalIds |-> "none"]
  /\ nav = "down"
  /\ faults = 0
  /\ crashes = 0

-----------------------------------------------------------------------------
(* The subscription callback goal_callback.                                *)

\* Mutant: after the first accepted goal every publication is a duplicate.
MutantAnyPoseIsDuplicate(p) == have_last_goal

IsDuplicate(p) == have_last_goal /\ <<last_goal, p>> \in Near

\* Mutant: async_cancel_all_goals, which reaches the new goal as well.
MutantCancelAllGoals == cancel_req \cup {g \in GoalIds : g <= goal_counter + 1}

\* Cancel requests after the node released the goal it holds, if any.
CancelCurrent == cancel_req \cup ({current_goal_handle} \ {NoHandle})

\* The publication is ignored: a duplicate, or the server is not there.
GoalIgnored(p) ==
  /\ IsDuplicate(p) \/ ~Ready
  /\ heard' = p
  /\ UNCHANGED <<bridgeVars, target, client, goal_req, goal_resp, cancel_req, navVars>>

\* The publication becomes a new goal.
GoalSent(p) ==
  /\ ~IsDuplicate(p)
  /\ Ready
  /\ goal_counter < MaxGoals
  /\ cancel_req' = CancelCurrent
  /\ current_goal_handle' = NoHandle
  /\ goal_counter' = goal_counter + 1
  /\ goal_req' = Append(goal_req, goal_counter + 1)
  /\ target' = [target EXCEPT ![goal_counter + 1] = p]
  /\ client' = [client EXCEPT ![goal_counter + 1] = "sent"]
  /\ last_goal' = p
  /\ heard' = p
  /\ UNCHANGED <<have_last_goal, goal_resp, navVars>>

GoalCallback(p) ==
  /\ Prompt => goal_req = <<>> /\ goal_resp = <<>>
  /\ GoalIgnored(p) \/ GoalSent(p)

-----------------------------------------------------------------------------
(* The callbacks of SendGoalOptions, each behind the client's own work.    *)

\* Mutant: the handle of a superseded goal is kept.
MutantOnAnyResponse(r) ==
  /\ have_last_goal' = r.ok
  /\ current_goal_handle' = IF r.ok THEN r.id ELSE current_goal_handle

\* goal_response_callback for goal r.id: only the newest goal counts.
OnResponse(r) ==
  IF r.id = goal_counter
  THEN /\ have_last_goal' = r.ok
       /\ current_goal_handle' = IF r.ok THEN r.id ELSE current_goal_handle
  ELSE UNCHANGED <<have_last_goal, current_goal_handle>>

\* The client takes a response, calls the node back and, if the goal was
\* accepted, asks the server for its result.  A server that is down never
\* answers that request.
GoalResponse ==
  /\ goal_resp # <<>>
  /\ LET r == Head(goal_resp) IN
       /\ OnResponse(r)
       /\ client' = [client EXCEPT ![r.id] = CASE ~r.ok -> "rejected"
                                               [] r.ok /\ Ready -> "accepted"
                                               [] OTHER -> "orphan"]
  /\ goal_resp' = Tail(goal_resp)
  /\ UNCHANGED <<last_goal, goal_counter, heard, target, goal_req, cancel_req, navVars>>

\* Mutant: a failed goal stays in the duplicate filter.
MutantOnResultKeepsFilter(g, code) ==
  IF g = goal_counter
  THEN current_goal_handle' = NoHandle /\ UNCHANGED have_last_goal
  ELSE UNCHANGED <<have_last_goal, current_goal_handle>>

\* result_callback for goal g with the result code of the server.
OnResult(g, code) ==
  IF g = goal_counter
  THEN /\ current_goal_handle' = NoHandle
       /\ have_last_goal' = (have_last_goal /\ code = "succeeded")
  ELSE UNCHANGED <<have_last_goal, current_goal_handle>>

\* The result of an accepted goal reaches the client.  A server that came
\* back after a crash answers UNKNOWN for a goal it has lost.
GoalResult(g) ==
  /\ client[g] = "accepted"
  /\ server[g] \in Terminal \cup {"lost"}
  /\ OnResult(g, server[g])
  /\ client' = [client EXCEPT ![g] = "done"]
  /\ UNCHANGED <<last_goal, goal_counter, heard, target, goal_req, goal_resp,
                 cancel_req, navVars>>

-----------------------------------------------------------------------------
(* The Nav2 action server (external).                                      *)

\* The answer to the oldest goal request: an active server accepts it and
\* ends the goal it was running, an inactive one rejects it.
TakeGoal ==
  /\ goal_req # <<>>
  /\ Ready
  /\ LET g == Head(goal_req) IN
       /\ goal_resp' = Append(goal_resp, [id |-> g, ok |-> nav = "active"])
       /\ server' = IF nav = "active"
                    THEN [h \in GoalIds |-> CASE h = g -> "active"
                                              [] h # g /\ server[h] = "active" -> "aborted"
                                              [] OTHER -> server[h]]
                    ELSE server
  /\ goal_req' = Tail(goal_req)
  /\ UNCHANGED <<bridgeVars, heard, target, client, cancel_req, nav, faults, crashes>>

\* A cancel request ends the goal it names, if that goal still runs.
TakeCancel(g) ==
  /\ g \in cancel_req
  /\ Ready
  /\ cancel_req' = cancel_req \ {g}
  /\ server' = IF server[g] = "active" THEN [server EXCEPT ![g] = "canceled"] ELSE server
  /\ UNCHANGED <<bridgeVars, heard, target, client, goal_req, goal_resp, nav, faults, crashes>>

Finish(g, code) ==
  /\ server[g] = "active"
  /\ server' = [server EXCEPT ![g] = code]
  /\ UNCHANGED <<bridgeVars, heard, target, client, goal_req, goal_resp, cancel_req,
                 nav, crashes>>

Succeed(g) == Finish(g, "succeeded") /\ UNCHANGED faults

Abort(g) ==
  /\ faults < MaxFaults
  /\ Finish(g, "aborted")
  /\ faults' = faults + 1

Configure ==
  /\ nav = "down"
  /\ nav' = "inactive"
  /\ UNCHANGED <<bridgeVars, heard, target, client, goal_req, goal_resp, cancel_req,
                 server, faults, crashes>>

Activate ==
  /\ nav = "inactive"
  /\ nav' = "active"
  /\ UNCHANGED <<bridgeVars, heard, target, client, goal_req, goal_resp, cancel_req,
                 server, faults, crashes>>

\* Leaving the active state ends the running goal.
Deactivate ==
  /\ nav = "active"
  /\ faults < MaxFaults
  /\ faults' = faults + 1
  /\ nav' = "inactive"
  /\ server' = [g \in GoalIds |-> IF server[g] = "active" THEN "aborted" ELSE server[g]]
  /\ UNCHANGED <<bridgeVars, heard, target, client, goal_req, goal_resp, cancel_req, crashes>>

\* The server dies with its goals and the requests it did not answer; the
\* last responses may die with it.
Crash ==
  /\ Ready
  /\ crashes < MaxCrashes
  /\ crashes' = crashes + 1
  /\ nav' = "down"
  /\ server' = [g \in GoalIds |-> IF server[g] = "none" THEN "none" ELSE "lost"]
  /\ client' = [g \in GoalIds |-> IF client[g] = "accepted" THEN "orphan" ELSE client[g]]
  /\ goal_req' = <<>>
  /\ cancel_req' = {}
  /\ \E k \in 0 .. Len(goal_resp) : goal_resp' = SubSeq(goal_resp, 1, k)
  /\ UNCHANGED <<bridgeVars, heard, target, faults>>

-----------------------------------------------------------------------------
Next ==
  \/ \E p \in Poses : GoalCallback(p)
  \/ GoalResponse
  \/ \E g \in GoalIds : GoalResult(g)
  \/ TakeGoal
  \/ \E g \in GoalIds : TakeCancel(g)
  \/ \E g \in GoalIds : Succeed(g)
  \/ \E g \in GoalIds : Abort(g)
  \/ Configure
  \/ Activate
  \/ Deactivate
  \/ Crash

Spec == Init /\ [][Next]_vars

(***************************************************************************)
(* Fairness: the executors of both processes keep spinning, so what can be *)
(* delivered is delivered; navigation ends; the lifecycle manager brings   *)
(* the server up; and the tree, whose publisher nodes run again after each *)
(* 500 ms, keeps publishing the pose it wants.                             *)
(***************************************************************************)
Fairness ==
  /\ WF_vars(GoalResponse)
  /\ \A g \in GoalIds : WF_vars(GoalResult(g)) /\ WF_vars(TakeCancel(g)) /\ WF_vars(Succeed(g))
  /\ WF_vars(TakeGoal)
  /\ WF_vars(Configure)
  /\ WF_vars(Activate)
  /\ \A p \in Poses : WF_vars(heard = p /\ GoalCallback(p))

FairSpec == Spec /\ Fairness

-----------------------------------------------------------------------------
(* What the node promises.                                                 *)

\* goal_pose_bridge.cpp:15-16: only the goal being replaced is cancelled, so
\* a cancel request, however late, never names the goal sent last.
CancelSparesNewest == goal_counter \notin cancel_req

\* goal_pose_bridge.cpp:16: the goal sent last is never ended by a cancel
\* request of the node, whatever the order in which the requests arrive.
NewestNeverCanceled == \A g \in GoalIds : g = goal_counter => server[g] # "canceled"

\* goal_pose_bridge.cpp:48-76: once the server has taken every goal, it
\* drives nowhere but to the pose that was published last, up to the tolerance,
\* although a pose that comes while the server is down is dropped.
DrivesWhereHeard ==
  goal_req = <<>> => \A g \in GoalIds : server[g] = "active" => <<target[g], heard>> \in Near

\* The handle the node keeps is that of the goal sent last, and the client
\* still awaits its result: async_cancel_goal on a goal the client has
\* forgotten throws out of goal_callback and ends the node.
HandleIsLive ==
  current_goal_handle # NoHandle =>
    /\ current_goal_handle = goal_counter
    /\ client[current_goal_handle] \in {"accepted", "orphan"}

\* Nothing about the newest goal is still on its way to the node.
Settled ==
  /\ goal_req = <<>> /\ goal_resp = <<>>
  /\ \A g \in GoalIds : client[g] = "accepted" => server[g] = "active"

\* goal_pose_bridge.cpp:13,48,96-98: publications are suppressed only while
\* they would change nothing, that is while the goal they repeat is being
\* driven to or has been reached (unless the server crashed, see KeepsRetrying).
SuppressionIsRedundant ==
  have_last_goal /\ Settled /\ crashes = 0 =>
    /\ server[goal_counter] \in {"active", "succeeded"}
    /\ target[goal_counter] = last_goal

\* The goal sent last was for p, up to the tolerance, and was reached.
Reached(p) ==
  /\ goal_counter # 0
  /\ server[goal_counter] = "succeeded"
  /\ <<target[goal_counter], p>> \in Near

\* goal_pose_bridge.cpp:97-98: a pose that keeps being published is reached,
\* and never sent again, even when navigation to it fails or is rejected
\* first (in the behaviours that stay within the bound on goals).
KeepsRetrying ==
  [](goal_counter < MaxGoals) =>
    \A p \in Poses : <>[](heard = p) => <>[]Reached(p)

\* goal_pose_bridge.cpp:12-16: with all its callbacks and with a server that
\* answers late, fails or crashes, the node implements the abstract client
\* that owns one goal and cancels older ones only.
Sole == INSTANCE SoleGoal
          WITH sent <- goal_counter, owned <- current_goal_handle, cancels <- cancel_req

OwnsOneGoal == Sole!SoleSpec

-----------------------------------------------------------------------------
(* The inductive invariant behind the safety properties.                   *)

\* Goals not sent yet are unknown to everybody.
FreshGoals ==
  \A g \in GoalIds : g > goal_counter => client[g] = "none" /\ server[g] = "none"

\* Requests travel in the order of their numbers, and nobody answered them.
RequestsInOrder ==
  /\ \A i \in DOMAIN goal_req :
        /\ goal_req[i] <= goal_counter
        /\ client[goal_req[i]] = "sent"
        /\ server[goal_req[i]] = "none"
  /\ \A i, j \in DOMAIN goal_req : i < j => goal_req[i] < goal_req[j]

\* So do responses, which are older than every request still travelling.
ResponsesInOrder ==
  /\ \A i \in DOMAIN goal_resp :
        /\ goal_resp[i].id <= goal_counter
        /\ client[goal_resp[i].id] = "sent"
  /\ \A i, j \in DOMAIN goal_resp : i < j => goal_resp[i].id < goal_resp[j].id
  /\ \A i \in DOMAIN goal_resp, j \in DOMAIN goal_req : goal_resp[i].id < goal_req[j]

CancelsOlder == \A g \in cancel_req : g < goal_counter

IndInv ==
  /\ TypeOK
  /\ FreshGoals
  /\ RequestsInOrder
  /\ ResponsesInOrder
  /\ CancelsOlder
  /\ HandleIsLive
  /\ NewestNeverCanceled
=============================================================================
