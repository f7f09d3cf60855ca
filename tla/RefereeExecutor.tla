--------------------------- MODULE RefereeExecutor ---------------------------
(***************************************************************************)
(* rm_referee_simulator/src/referee_executor.cpp: the node that drives the *)
(* robot home while the decision is RETREAT.  It knows only whether a      *)
(* retreat is active, not which goal that is: it ends a retreat with       *)
(* async_cancel_all_goals and takes any result as the end of the retreat.  *)
(*                                                                         *)
(* Its single thread makes every callback one action: DecisionCallback and *)
(* RetreatResult.  The action client and the Nav2 server are external.     *)
(* Goal requests and cancel requests use two services of the server, so    *)
(* either may overtake the other.                                          *)
(***************************************************************************)
EXTENDS Naturals, Sequences, SequencesExt

CONSTANTS
  MaxGoals,   \* bound: goals the node sends
  MaxFaults   \* bound: failed goals and lifecycle changes of the server

\* RefereeSystem, which gives the constants their values, assumes it.
BoundAssumption == MaxGoals \in Nat /\ MaxFaults \in Nat

GoalIds == 1 .. MaxGoals

Decisions == {"IDLE", "PATROL", "ENGAGE", "RETREAT", "CAUTIOUS", "COOLDOWN", "SHUTDOWN"}

\* Decisions in which the robot stays where it is.
Stopping == {"IDLE", "SHUTDOWN"}

Ended == {"succeeded", "aborted", "canceled"}

VARIABLES
  current_decision, retreat_active,
  sent,        \* goals sent so far
  goal_req,    \* goals on their way to the server, oldest first
  cancel_all,  \* requests to cancel all goals on their way to the server
  awaited,     \* goals whose response or result the client awaits
  server,      \* server[g]: what the server made of goal g
  nav,         \* lifecycle of the server
  faults,
  missed,      \* history: goals still on their way when a cancel request was handled
  exposed,     \* history: goals sent while a cancel request was on its way
  forgotten    \* history: goals whose flag the result of an earlier goal cleared

nodeVars == <<current_decision, retreat_active>>
history == <<missed, exposed, forgotten>>
vars == <<nodeVars, sent, goal_req, cancel_all, awaited, server, nav, faults, history>>

Ready == nav \in {"inactive", "active"}

TypeOK ==
  /\ current_decision \in Decisions
  /\ retreat_active \in BOOLEAN
  /\ sent \in 0 .. MaxGoals
  /\ goal_req \in Seq(GoalIds)
  /\ cancel_all \in Nat
  /\ awaited \in SUBSET GoalIds
  /\ server \in [GoalIds -> {"none", "active", "rejected"} \cup Ended]
  /\ nav \in {"down", "inactive", "active"}
  /\ faults \in 0 .. MaxFaults
  /\ missed \in SUBSET GoalIds /\ exposed \in SUBSET GoalIds /\ forgotten \in SUBSET GoalIds

Init ==
  /\ current_decision = "ENGAGE"
  /\ retreat_active = FALSE
  /\ sent = 0
  /\ goal_req = <<>>
  /\ cancel_all = 0
  /\ awaited = {}
  /\ server = [g \in GoalIds |-> "none"]
  /\ nav = "down"
  /\ faults = 0
  /\ missed = {} /\ exposed = {} /\ forgotten = {}

-----------------------------------------------------------------------------
(* decision_callback.                                                      *)

\* async_cancel_all_goals; nobody hears it when there is no server.
CancelAll == cancel_all' = IF Ready THEN cancel_all + 1 ELSE cancel_all

\* IDLE and SHUTDOWN end every goal and leave retreat_active as it is.
Stop(d) ==
  /\ d \in Stopping
  /\ CancelAll
  /\ UNCHANGED <<retreat_active, sent, goal_req, awaited>>

\* Mutants: a new retreat cancels everything first; the new retreat is not noted.
MutantRetreatCancelsFirst(d) ==
  /\ d = "RETREAT" /\ Ready /\ sent < MaxGoals
  /\ sent' = sent + 1 /\ goal_req' = Append(goal_req, sent + 1)
  /\ awaited' = awaited \cup {sent + 1} /\ retreat_active' = TRUE
  /\ CancelAll

MutantRetreatUnnoted(d) ==
  /\ d = "RETREAT" /\ Ready /\ sent < MaxGoals
  /\ sent' = sent + 1 /\ goal_req' = Append(goal_req, sent + 1)
  /\ awaited' = awaited \cup {sent + 1}
  /\ UNCHANGED <<cancel_all, retreat_active>>

\* send_retreat_goal gives up after two seconds without a server.
Retreat(d) ==
  /\ d = "RETREAT"
  /\ IF Ready
     THEN /\ sent < MaxGoals
          /\ sent' = sent + 1
          /\ goal_req' = Append(goal_req, sent + 1)
          /\ awaited' = awaited \cup {sent + 1}
          /\ retreat_active' = TRUE
     ELSE UNCHANGED <<sent, goal_req, awaited, retreat_active>>
  /\ UNCHANGED cancel_all

\* Mutant: the flag is cleared and nothing is cancelled.
MutantLeaveWithoutCancel(d) ==
  /\ d \notin Stopping \cup {"RETREAT"}
  /\ retreat_active' = FALSE
  /\ UNCHANGED <<cancel_all, sent, goal_req, awaited>>

\* Any other decision ends the retreat, if there is one.
LeaveRetreat(d) ==
  /\ d \notin Stopping \cup {"RETREAT"}
  /\ IF retreat_active THEN CancelAll ELSE UNCHANGED cancel_all
  /\ retreat_active' = FALSE
  /\ UNCHANGED <<sent, goal_req, awaited>>

\* A decision that repeats the current one is ignored.
DecisionCallback(d) ==
  /\ d # current_decision
  /\ current_decision' = d
  /\ Stop(d) \/ Retreat(d) \/ LeaveRetreat(d)
  /\ exposed' = exposed \cup {g \in GoalIds : g = sent' /\ g # sent /\ cancel_all > 0}
  /\ UNCHANGED <<server, nav, faults, missed, forgotten>>

-----------------------------------------------------------------------------
(* The result of goal g, or its rejection, which has no callback, reaches  *)
(* the node.                                                               *)

RetreatResult(g) ==
  /\ g \in awaited
  /\ server[g] \in Ended \cup {"rejected"}
  /\ awaited' = awaited \ {g}
  /\ retreat_active' = (retreat_active /\ server[g] = "rejected")
  /\ forgotten' = IF current_decision = "RETREAT" /\ retreat_active /\ ~retreat_active' /\ g # sent
                  THEN forgotten \cup {sent} ELSE forgotten
  /\ UNCHANGED <<current_decision, sent, goal_req, cancel_all, server, nav, faults, missed, exposed>>

-----------------------------------------------------------------------------
(* The Nav2 action server (external).                                      *)

End(status) == [g \in GoalIds |-> IF server[g] = "active" THEN status ELSE server[g]]

\* An active server accepts the oldest request and drops the goal it ran.
TakeGoal ==
  /\ goal_req # <<>>
  /\ Ready
  /\ server' = IF nav = "active"
               THEN [End("aborted") EXCEPT ![Head(goal_req)] = "active"]
               ELSE [server EXCEPT ![Head(goal_req)] = "rejected"]
  /\ goal_req' = Tail(goal_req)
  /\ UNCHANGED <<nodeVars, sent, cancel_all, awaited, nav, faults, history>>

\* Cancel requests are alike, so that their number is all there is to know.
TakeCancel ==
  /\ cancel_all > 0
  /\ Ready
  /\ server' = End("canceled")
  /\ cancel_all' = cancel_all - 1
  /\ missed' = missed \cup ToSet(goal_req)
  /\ UNCHANGED <<nodeVars, sent, goal_req, awaited, nav, faults, exposed, forgotten>>

Succeed(g) ==
  /\ server[g] = "active"
  /\ server' = [server EXCEPT ![g] = "succeeded"]
  /\ UNCHANGED <<nodeVars, sent, goal_req, cancel_all, awaited, nav, faults, history>>

Abort(g) ==
  /\ server[g] = "active"
  /\ faults < MaxFaults
  /\ faults' = faults + 1
  /\ server' = [server EXCEPT ![g] = "aborted"]
  /\ UNCHANGED <<nodeVars, sent, goal_req, cancel_all, awaited, nav, history>>

\* The lifecycle manager brings the server up, and may deactivate it.
Lifecycle ==
  /\ \/ nav = "down" /\ nav' = "inactive" /\ UNCHANGED <<server, faults>>
     \/ nav = "inactive" /\ nav' = "active" /\ UNCHANGED <<server, faults>>
     \/ /\ nav = "active" /\ faults < MaxFaults
        /\ nav' = "inactive" /\ faults' = faults + 1 /\ server' = End("aborted")
  /\ UNCHANGED <<nodeVars, sent, goal_req, cancel_all, awaited, history>>

-----------------------------------------------------------------------------
Next ==
  \/ \E d \in Decisions : DecisionCallback(d)
  \/ \E g \in GoalIds : RetreatResult(g)
  \/ TakeGoal
  \/ TakeCancel
  \/ \E g \in GoalIds : Succeed(g)
  \/ \E g \in GoalIds : Abort(g)
  \/ Lifecycle

Spec == Init /\ [][Next]_vars

-----------------------------------------------------------------------------
(* What the node promises.                                                 *)

\* referee_executor.cpp:41-55: once the cancel requests were handled, the robot
\* drives to the origin under another decision than RETREAT only with a goal
\* that the cancel request overtook, or that the node forgot because the result
\* of an earlier retreat cleared its flag: nothing else lets a retreat outlive
\* the decision that asked for it.
NoStrayRetreat ==
  cancel_all = 0 /\ current_decision # "RETREAT" =>
    \A g \in GoalIds : server[g] = "active" => g \in missed \cup forgotten

\* referee_executor.cpp:46-53: while the decision is RETREAT, the goal that carries
\* it is cancelled, by a node that cancels goals without naming them, only if a
\* cancel request was still on its way when the goal was sent.
RetreatIsNotCancelled ==
  current_decision = "RETREAT" /\ sent # 0 /\ server[sent] = "canceled" => sent \in exposed

\* referee_executor.cpp:78,85: while the decision is RETREAT, a goal that runs is
\* known to the node, so that the next decision can end it, unless the result
\* of an earlier retreat came after the goal was sent and cleared the flag.
RunningIsKnown ==
  current_decision = "RETREAT" =>
    \A g \in GoalIds : server[g] = "active" => retreat_active \/ sent \in forgotten
=============================================================================
