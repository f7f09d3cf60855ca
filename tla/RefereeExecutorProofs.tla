------------------------ MODULE RefereeExecutorProofs ------------------------
(* What referee_executor promises however late Nav2 answers and in whatever  *)
(* order its requests arrive, for any number of goals and failures, although *)
(* the node does not know which goal is its retreat and cancels goals        *)
(* without naming them.                                                      *)
EXTENDS RefereeExecutor, SequenceTheorems, TLAPS

-----------------------------------------------------------------------------
(* The inductive invariant.                                                *)

\* Goals not sent yet are unknown to the server, and it hears of nothing before it
\* is up.
FreshGoals ==
  /\ \A g \in GoalIds : g > sent => server[g] = "none"
  /\ ~Ready => sent = 0 /\ cancel_all = 0

\* The goals on their way are the newest ones, in the order they were sent, and
\* only the newest that arrived may run.
RequestsInOrder ==
  /\ \A i \in DOMAIN goal_req :
       goal_req[i] = sent - Len(goal_req) + i /\ server[goal_req[i]] = "none"
  /\ \A g \in GoalIds : server[g] = "active" => nav = "active" /\ g = sent - Len(goal_req)

UnderWay(g) == server[g] = "active" \/ \E i \in DOMAIN goal_req : goal_req[i] = g

\* A goal under way is about to be cancelled, or the retreat that is called for and
\* known, or one that a cancel request missed or the node forgot.
UnderWayIsCovered ==
  \A g \in GoalIds : UnderWay(g) =>
    \/ cancel_all > 0
    \/ g \in missed \cup forgotten
    \/ g = sent /\ retreat_active /\ current_decision = "RETREAT"

\* A cancel request that is on its way during a retreat was so at its start.
CancelIsOld == cancel_all > 0 /\ current_decision = "RETREAT" => sent \in exposed

\* As long as the retreat that is called for is under way, the node knows it, or
\* forgot it when the result of another one came.
RetreatIsNoted ==
  current_decision = "RETREAT" =>
    \A g \in GoalIds : UnderWay(g) => retreat_active \/ sent \in forgotten

Inv ==
  /\ TypeOK /\ FreshGoals /\ RequestsInOrder /\ UnderWayIsCovered
  /\ CancelIsOld /\ RetreatIsNoted /\ RetreatIsNotCancelled

-----------------------------------------------------------------------------
LEMMA InitEstablishes == BoundAssumption /\ Init => Inv
  <1> SUFFICES ASSUME BoundAssumption, Init PROVE Inv
    OBVIOUS
  <1>1. TypeOK
    <2>1. goal_req \in Seq(GoalIds) /\ sent \in 0 .. MaxGoals /\ faults \in 0 .. MaxFaults
      BY DEF BoundAssumption, Init
    <2> QED
      BY <2>1 DEF Init, TypeOK, Decisions
  <1>2. DOMAIN goal_req = {}
    BY DEF Init
  <1> QED
    BY <1>1, <1>2 DEF Init, Inv, FreshGoals, RequestsInOrder, UnderWayIsCovered, UnderWay,
                      CancelIsOld, RetreatIsNoted, RetreatIsNotCancelled

LEMMA RequestElements ==
  ASSUME Inv
  PROVE  /\ DOMAIN goal_req = 1 .. Len(goal_req) /\ Len(goal_req) \in Nat
         /\ \A i \in 1 .. Len(goal_req) : goal_req[i] \in GoalIds
         /\ sent \in Nat /\ \A g \in GoalIds : g \in Nat /\ g >= 1 /\ g <= MaxGoals
  <1>1. goal_req \in Seq(GoalIds) /\ sent \in 0 .. MaxGoals
    BY DEF Inv, TypeOK
  <1>2. DOMAIN goal_req = 1 .. Len(goal_req) /\ Len(goal_req) \in Nat
    BY <1>1
  <1>3. \A i \in 1 .. Len(goal_req) : goal_req[i] \in GoalIds
    BY <1>1
  <1>4. \A g \in 1 .. MaxGoals : g \in Nat /\ g >= 1 /\ g <= MaxGoals
    OBVIOUS
  <1> QED
    BY <1>1, <1>2, <1>3, <1>4 DEF GoalIds

(* The goal sent last is the last to travel; once it is at the server, nothing *)
(* travels any more.                                                           *)
LEMMA NewestTravelsLast ==
  ASSUME Inv, sent \in GoalIds, server[sent] # "none"
  PROVE  goal_req = <<>>
  <1>1. ASSUME Len(goal_req) # 0 PROVE FALSE
    <2>1. Len(goal_req) \in DOMAIN goal_req /\ sent - Len(goal_req) + Len(goal_req) = sent
      BY <1>1, RequestElements
    <2> QED
      BY <2>1 DEF Inv, RequestsInOrder
  <1> QED
    BY <1>1, RequestElements DEF Inv, TypeOK

(* Before the server is up, nothing is under way.                              *)
LEMMA NothingBeforeServer ==
  ASSUME Inv, ~Ready
  PROVE  /\ sent = 0 /\ cancel_all = 0
         /\ \A g \in GoalIds : ~UnderWay(g)
  <1>1. sent = 0 /\ cancel_all = 0
    BY DEF Inv, FreshGoals
  <1>2. \A i \in DOMAIN goal_req : FALSE
    <2>1. \A i \in 1 .. Len(goal_req) :
            goal_req[i] = 0 - Len(goal_req) + i /\ goal_req[i] \in GoalIds
      BY <1>1, RequestElements DEF Inv, RequestsInOrder
    <2> QED
      BY <2>1, RequestElements
  <1>3. \A g \in GoalIds : server[g] # "active"
    BY DEF Inv, RequestsInOrder, Ready
  <1> QED
    BY <1>1, <1>2, <1>3 DEF UnderWay

-----------------------------------------------------------------------------
(* The callbacks of the node.                                              *)

LEMMA LeavingKeeps ==
  ASSUME Inv, NEW d \in Decisions, DecisionCallback(d), Stop(d) \/ LeaveRetreat(d)
  PROVE  Inv'
  <1>1. d # "RETREAT" /\ current_decision' = d
    BY DEF DecisionCallback, Stop, LeaveRetreat, Stopping
  <1>2. UNCHANGED <<sent, goal_req, awaited, server, nav, faults, missed, forgotten>>
    BY DEF DecisionCallback, Stop, LeaveRetreat
  <1>3. exposed' = exposed
    BY <1>2 DEF DecisionCallback
  <1>4. /\ cancel_all' \in Nat /\ retreat_active' \in BOOLEAN
        /\ cancel_all' >= cancel_all /\ (~Ready => cancel_all' = cancel_all)
        /\ ~Ready \/ ~retreat_active \/ cancel_all' > 0
    <2>1. cancel_all \in Nat /\ retreat_active \in BOOLEAN
      BY DEF Inv, TypeOK
    <2>2. CancelAll => /\ cancel_all' \in Nat /\ cancel_all' >= cancel_all
                       /\ IF Ready THEN cancel_all' > 0 ELSE cancel_all' = cancel_all
      BY <2>1 DEF CancelAll
    <2>3. CASE CancelAll /\ retreat_active' \in BOOLEAN
      BY <2>2, <2>3
    <2>4. CASE cancel_all' = cancel_all /\ ~retreat_active /\ retreat_active' = FALSE
      <3>1. cancel_all' \in Nat /\ cancel_all' >= cancel_all
        BY <2>1, <2>4
      <3>2. retreat_active' \in BOOLEAN
        BY <2>4
      <3> QED
        BY <2>4, <3>1, <3>2
    <2> QED
      BY <2>1, <2>3, <2>4 DEF Stop, LeaveRetreat
  <1>5. TypeOK'
    BY <1>1, <1>2, <1>3, <1>4 DEF Inv, TypeOK
  <1>6. FreshGoals' /\ RequestsInOrder'
    BY <1>2, <1>4 DEF Inv, FreshGoals, RequestsInOrder, Ready
  <1>7. UnderWayIsCovered'
    <2>1. \A g \in GoalIds : UnderWay(g)' <=> UnderWay(g)
      BY <1>2 DEF UnderWay
    <2>2. cancel_all > 0 => cancel_all' > 0
      BY <1>4 DEF Inv, TypeOK
    <2> QED
      BY <1>2, <1>4, <2>1, <2>2, NothingBeforeServer DEF Inv, UnderWayIsCovered
  <1> QED
    BY <1>1, <1>5, <1>6, <1>7 DEF Inv, CancelIsOld, RetreatIsNoted, RetreatIsNotCancelled

\* A retreat begins.
LEMMA SendingKeeps ==
  ASSUME BoundAssumption, Inv, DecisionCallback("RETREAT"), Retreat("RETREAT"), Ready
  PROVE  Inv'
  <1> DEFINE n == Len(goal_req)
  <1>1. /\ current_decision # "RETREAT" /\ current_decision' = "RETREAT"
        /\ sent < MaxGoals /\ sent' = sent + 1 /\ goal_req' = Append(goal_req, sent + 1)
        /\ awaited' = awaited \cup {sent + 1} /\ retreat_active' = TRUE
        /\ UNCHANGED <<cancel_all, server, nav, faults, missed, forgotten>>
    BY DEF DecisionCallback, Retreat
  <1>2. /\ sent \in Nat /\ sent + 1 \in GoalIds /\ sent' \in 0 .. MaxGoals
        /\ \A g \in GoalIds : g > sent + 1 => g > sent
    BY <1>1 DEF BoundAssumption, Inv, TypeOK, GoalIds
  <1>3. exposed' \in SUBSET GoalIds /\ (cancel_all > 0 => sent' \in exposed')
    BY <1>1, <1>2 DEF DecisionCallback, Inv, TypeOK
  <1>4. server[sent + 1] = "none"
    <2>1. sent + 1 > sent
      BY <1>2
    <2> QED
      BY <1>2, <2>1 DEF Inv, FreshGoals
  <1>5. /\ n \in Nat /\ goal_req' \in Seq(GoalIds) /\ Len(goal_req') = n + 1
        /\ DOMAIN goal_req = 1 .. n /\ DOMAIN goal_req' = 1 .. n + 1
        /\ goal_req'[n + 1] = sent'
        /\ \A i \in 1 .. n : goal_req'[i] = goal_req[i]
    BY <1>1, <1>2 DEF Inv, TypeOK
  <1> HIDE DEF n
  <1>6. TypeOK'
    BY <1>1, <1>2, <1>3, <1>5 DEF Inv, TypeOK, Decisions
  <1>7. FreshGoals'
    BY <1>1, <1>2 DEF Inv, FreshGoals, Ready
  <1>8. RequestsInOrder'
    <2>1. \A i \in 1 .. n + 1 : goal_req'[i] = sent' - (n + 1) + i /\ server[goal_req'[i]] = "none"
      <3>1. \A i \in 1 .. n : goal_req[i] = sent - n + i /\ server[goal_req[i]] = "none"
        BY <1>5 DEF Inv, RequestsInOrder, n
      <3>2. \A i \in 1 .. n : goal_req'[i] = sent' - (n + 1) + i /\ server[goal_req'[i]] = "none"
        BY <1>1, <1>2, <1>5, <3>1
      <3>3. goal_req'[n + 1] = sent' - (n + 1) + (n + 1) /\ server[goal_req'[n + 1]] = "none"
        BY <1>1, <1>2, <1>4, <1>5
      <3> QED
        BY <1>5, <3>2, <3>3
    <2>2. sent' - (n + 1) = sent - n
      BY <1>1, <1>2, <1>5
    <2>3. \A g \in GoalIds : server[g] = "active" => nav = "active" /\ g = sent - n
      BY DEF Inv, RequestsInOrder, n
    <2> QED
      BY <1>1, <1>5, <2>1, <2>2, <2>3 DEF RequestsInOrder
  <1>9. UnderWayIsCovered'
    <2>1. ASSUME NEW g \in GoalIds, UnderWay(g)'
          PROVE  UnderWay(g) \/ g = sent'
      BY <1>1, <1>5, <2>1 DEF UnderWay
    <2>2. \A g \in GoalIds : UnderWay(g) => cancel_all > 0 \/ g \in missed \cup forgotten
      BY <1>1 DEF Inv, UnderWayIsCovered
    <2> QED
      BY <1>1, <2>1, <2>2 DEF UnderWayIsCovered
  <1>10. CancelIsOld' /\ RetreatIsNoted' /\ RetreatIsNotCancelled'
    BY <1>1, <1>3, <1>4 DEF CancelIsOld, RetreatIsNoted, RetreatIsNotCancelled
  <1> QED
    BY <1>6, <1>7, <1>8, <1>9, <1>10 DEF Inv

LEMMA RetreatKeeps ==
  ASSUME BoundAssumption, Inv, NEW d \in Decisions, DecisionCallback(d), Retreat(d)
  PROVE  Inv'
  <1>1. d = "RETREAT" /\ current_decision' = "RETREAT"
    BY DEF DecisionCallback, Retreat
  <1>2. CASE Ready
    BY <1>1, <1>2, SendingKeeps
  <1>3. CASE ~Ready
    <2>1. UNCHANGED <<sent, goal_req, awaited, retreat_active, cancel_all, server, nav, faults,
                      missed, forgotten>>
      BY <1>1, <1>3 DEF DecisionCallback, Retreat
    <2>2. exposed' = exposed
      BY <2>1 DEF DecisionCallback
    <2>3. sent = 0 /\ cancel_all = 0 /\ \A g \in GoalIds : ~UnderWay(g)
      BY <1>3, NothingBeforeServer
    <2>4. \A g \in GoalIds : ~UnderWay(g)'
      BY <2>1, <2>3 DEF UnderWay
    <2>5. TypeOK' /\ FreshGoals' /\ RequestsInOrder'
      BY <1>1, <2>1, <2>2 DEF Inv, TypeOK, Decisions, FreshGoals, RequestsInOrder, Ready
    <2> QED
      BY <2>1, <2>3, <2>4, <2>5
      DEF Inv, UnderWayIsCovered, CancelIsOld, RetreatIsNoted, RetreatIsNotCancelled
  <1> QED
    BY <1>2, <1>3

(* A result ends what it is about; if that was not the goal sent last, the goal *)
(* sent last is forgotten.                                                     *)
LEMMA ResultKeeps ==
  ASSUME Inv, NEW g \in GoalIds, RetreatResult(g)
  PROVE  Inv'
  <1>1. UNCHANGED <<current_decision, sent, goal_req, cancel_all, server, nav, faults, missed,
                    exposed>>
    BY DEF RetreatResult
  <1>2. server[g] # "none" /\ server[g] # "active"
    BY DEF RetreatResult, Ended
  <1>3. sent \in GoalIds
    <2>1. ~(g > sent)
      BY <1>2 DEF Inv, FreshGoals
    <2> QED
      BY <2>1 DEF Inv, TypeOK, GoalIds
  <1>4. TypeOK'
    BY <1>1, <1>3 DEF RetreatResult, Inv, TypeOK
  <1>5. FreshGoals' /\ RequestsInOrder'
    BY <1>1 DEF Inv, FreshGoals, RequestsInOrder, Ready
  <1>6. \A h \in GoalIds : UnderWay(h)' <=> UnderWay(h)
    BY <1>1 DEF UnderWay
  <1>7. \/ retreat_active' = retreat_active
        \/ current_decision # "RETREAT"
        \/ sent \in forgotten'
        \/ \A h \in GoalIds : ~UnderWay(h)
    <2>1. CASE g = sent
      <3>1. goal_req = <<>> /\ DOMAIN goal_req = {}
        BY <1>2, <1>3, <2>1, NewestTravelsLast
      <3>2. \A h \in GoalIds : server[h] = "active" => h = sent
        <4>1. Len(goal_req) = 0 /\ sent - 0 = sent
          BY <3>1, RequestElements
        <4> QED
          BY <4>1 DEF Inv, RequestsInOrder
      <3> QED
        BY <1>2, <2>1, <3>1, <3>2 DEF UnderWay
    <2>2. CASE g # sent
      BY <2>2 DEF RetreatResult, Inv, TypeOK
    <2> QED
      BY <2>1, <2>2
  <1>8. forgotten \subseteq forgotten'
    BY DEF RetreatResult
  <1>9. UnderWayIsCovered'
    BY <1>1, <1>6, <1>7, <1>8 DEF Inv, UnderWayIsCovered
  <1>10. RetreatIsNoted'
    BY <1>1, <1>6, <1>7, <1>8 DEF Inv, RetreatIsNoted
  <1> QED
    BY <1>1, <1>4, <1>5, <1>9, <1>10 DEF Inv, CancelIsOld, RetreatIsNotCancelled

-----------------------------------------------------------------------------
(* The steps of the server.                                                *)

\* The server starts nothing that was not under way; what is under way when it
\* has handled a cancel request is missed.
ServerActs ==
  /\ UNCHANGED <<current_decision, retreat_active, sent, exposed, forgotten>>
  /\ missed \subseteq missed'
  /\ \A g \in GoalIds : UnderWay(g)' => UnderWay(g)
  /\ \/ cancel_all' = cancel_all
     \/ cancel_all > 0 /\ \A g \in GoalIds : UnderWay(g)' => g \in missed'
  /\ sent # 0 /\ server'[sent] = "canceled" => server[sent] = "canceled" \/ cancel_all > 0

LEMMA ServerActsKeeps ==
  ASSUME Inv, ServerActs, TypeOK', FreshGoals', RequestsInOrder'
  PROVE  Inv'
  <1>1. UnderWayIsCovered'
    BY DEF ServerActs, Inv, UnderWayIsCovered
  <1>2. CancelIsOld'
    BY DEF ServerActs, Inv, CancelIsOld
  <1>3. RetreatIsNoted'
    BY DEF ServerActs, Inv, RetreatIsNoted
  <1>4. RetreatIsNotCancelled'
    BY DEF ServerActs, Inv, CancelIsOld, RetreatIsNotCancelled
  <1> QED
    BY <1>1, <1>2, <1>3, <1>4 DEF Inv

LEMMA TakeGoalKeeps ==
  ASSUME Inv, TakeGoal
  PROVE  Inv'
  <1> DEFINE n == Len(goal_req)
             first == goal_req[1]
  <1>1. /\ n \in Nat /\ n >= 1 /\ DOMAIN goal_req = 1 .. n /\ sent \in Nat
        /\ Head(goal_req) = first /\ first \in GoalIds
        /\ \A i \in 1 .. n : goal_req[i] \in GoalIds /\ goal_req[i] = sent - n + i
                             /\ server[goal_req[i]] = "none"
    <2>1. n \in Nat /\ DOMAIN goal_req = 1 .. n /\ sent \in Nat
          /\ \A i \in 1 .. n : goal_req[i] \in GoalIds
      BY RequestElements
    <2>2. n # 0 /\ Head(goal_req) = first
      BY DEF TakeGoal, Inv, TypeOK
    <2>3. \A i \in 1 .. n : goal_req[i] = sent - n + i /\ server[goal_req[i]] = "none"
      BY <2>1 DEF Inv, RequestsInOrder
    <2> QED
      BY <2>1, <2>2, <2>3
  <1>2. /\ goal_req' \in Seq(GoalIds) /\ Len(goal_req') = n - 1
        /\ DOMAIN goal_req' = 1 .. n - 1
        /\ \A i \in 1 .. n - 1 : goal_req'[i] = goal_req[i + 1] /\ i + 1 \in 1 .. n
    BY <1>1 DEF TakeGoal, Inv, TypeOK
  <1>3. UNCHANGED <<current_decision, retreat_active, sent, cancel_all, awaited, nav, faults,
                    missed, exposed, forgotten>>
    BY DEF TakeGoal, nodeVars, history
  <1> HIDE DEF n, first
  <1>4. /\ server' \in [GoalIds -> {"none", "active", "rejected"} \cup Ended]
        /\ server'[first] \in {"active", "rejected"}
        /\ \A g \in GoalIds : /\ server[g] = "none" /\ g # first => server'[g] = "none"
                              /\ server'[g] = "active" => nav = "active" /\ g = first
                              /\ server'[g] = "canceled" => server[g] = "canceled"
    <2>1. \A g \in GoalIds : server[g] = "active" => nav = "active"
      BY DEF Inv, RequestsInOrder
    <2> QED
      BY <1>1, <2>1 DEF TakeGoal, Inv, TypeOK, End, Ended
  <1>5. first = sent - n + 1 /\ first <= sent
    BY <1>1 DEF first
  <1>6. TypeOK'
    BY <1>2, <1>3, <1>4 DEF Inv, TypeOK
  <1>7. FreshGoals'
    <2>1. \A g \in GoalIds : g > sent => g # first
      BY <1>1, <1>5 DEF GoalIds
    <2> QED
      BY <1>3, <1>4, <2>1 DEF Inv, FreshGoals, Ready
  <1>8. RequestsInOrder'
    <2>1. \A i \in 1 .. n - 1 : goal_req'[i] = sent - (n - 1) + i /\ goal_req'[i] # first
                                /\ server[goal_req'[i]] = "none" /\ goal_req'[i] \in GoalIds
      BY <1>1, <1>2, <1>5
    <2>2. sent - (n - 1) = first
      BY <1>1, <1>5
    <2> QED
      BY <1>2, <1>3, <1>4, <2>1, <2>2 DEF RequestsInOrder
  <1>9. ServerActs
    <2>1. \A g \in GoalIds : UnderWay(g)' => UnderWay(g)
      <3>1. \A g \in GoalIds : server'[g] = "active" => g = goal_req[1] /\ 1 \in DOMAIN goal_req
        BY <1>1, <1>4 DEF first
      <3>2. \A i \in DOMAIN goal_req' : goal_req'[i] = goal_req[i + 1] /\ i + 1 \in DOMAIN goal_req
        BY <1>1, <1>2
      <3> QED
        BY <3>1, <3>2 DEF UnderWay
    <2>2. sent # 0 => sent \in GoalIds
      BY <1>1 DEF Inv, TypeOK, GoalIds
    <2> QED
      BY <1>3, <1>4, <2>1, <2>2 DEF ServerActs
  <1> QED
    BY <1>6, <1>7, <1>8, <1>9, ServerActsKeeps

\* Goals end with a status, or nothing does; nothing is taken off the queue.
GoalsEnd(status) ==
  /\ server' \in [GoalIds -> {"none", "active", "rejected"} \cup Ended]
  /\ \A g \in GoalIds : server'[g] = server[g]
                        \/ (server[g] = "active" /\ server'[g] = status)
  /\ UNCHANGED <<nodeVars, sent, goal_req, awaited, exposed, forgotten>>
  /\ nav' \in {"inactive", "active"} /\ faults' \in 0 .. MaxFaults
  /\ nav' = nav \/ \A g \in GoalIds : server'[g] # "active"
  /\ \/ UNCHANGED <<cancel_all, missed>>
     \/ /\ cancel_all > 0 /\ cancel_all' = cancel_all - 1 /\ missed' = missed \cup ToSet(goal_req)
        /\ \A g \in GoalIds : server'[g] # "active"
  /\ status = "canceled" => cancel_all > 0

LEMMA EndingKeeps ==
  ASSUME Inv, NEW status \in Ended, GoalsEnd(status)
  PROVE  Inv'
  <1> USE DEF GoalsEnd, nodeVars
  <1>1. /\ ToSet(goal_req) = {goal_req[i] : i \in DOMAIN goal_req}
        /\ ToSet(goal_req) \subseteq GoalIds
    BY RequestElements DEF ToSet
  <1>2. TypeOK'
    <2>1. cancel_all' \in Nat /\ missed' \in SUBSET GoalIds
      BY <1>1 DEF Inv, TypeOK
    <2> QED
      BY <2>1 DEF Inv, TypeOK
  <1>3. FreshGoals'
    BY DEF Inv, FreshGoals, Ready, Ended
  <1>4. RequestsInOrder'
    <2>1. \A g \in GoalIds : /\ server[g] = "none" => server'[g] = "none"
                             /\ server'[g] = "active" => server[g] = "active" /\ nav' = nav
      BY DEF Ended
    <2> QED
      BY <2>1, RequestElements DEF Inv, RequestsInOrder
  <1>5. ServerActs
    <2>1. \A g \in GoalIds : server'[g] = "active" => server[g] = "active"
      BY DEF Ended
    <2>2. \A g \in GoalIds : UnderWay(g)' => UnderWay(g)
      BY <2>1 DEF UnderWay
    <2>3. \/ cancel_all' = cancel_all
          \/ cancel_all > 0 /\ \A g \in GoalIds : UnderWay(g)' => g \in missed'
      BY <1>1 DEF UnderWay
    <2>4. sent # 0 => sent \in GoalIds
      BY DEF Inv, TypeOK, GoalIds
    <2> QED
      BY <2>2, <2>3, <2>4 DEF ServerActs
  <1> QED
    BY <1>2, <1>3, <1>4, <1>5, ServerActsKeeps

LEMMA ServerKeeps ==
  ASSUME BoundAssumption, Inv, TakeCancel \/ Lifecycle \/ \E g \in GoalIds : Succeed(g) \/ Abort(g)
  PROVE  Inv'
  <1>1. /\ server \in [GoalIds -> {"none", "active", "rejected"} \cup Ended]
        /\ faults \in 0 .. MaxFaults /\ nav \in {"down", "inactive", "active"}
        /\ {"canceled", "aborted", "succeeded"} \subseteq Ended
    BY DEF Inv, TypeOK, Ended
  <1>2. \A status \in Ended :
          /\ End(status) \in [GoalIds -> {"none", "active", "rejected"} \cup Ended]
          /\ \A g \in GoalIds : End(status)[g] = server[g]
                                \/ (server[g] = "active" /\ End(status)[g] = status)
          /\ \A g \in GoalIds : End(status)[g] # "active"
    BY <1>1 DEF End, Ended
  <1>3. \A g \in GoalIds : server[g] = "active" => nav = "active"
    BY DEF Inv, RequestsInOrder
  <1>4. CASE TakeCancel
    <2>1. GoalsEnd("canceled")
      BY <1>1, <1>2, <1>4 DEF TakeCancel, GoalsEnd, Ready
    <2> QED
      BY <1>1, <2>1, EndingKeeps
  <1>5. ASSUME NEW g \in GoalIds, Succeed(g) PROVE Inv'
    <2>1. GoalsEnd("succeeded")
      BY <1>1, <1>3, <1>5 DEF Succeed, GoalsEnd, history
    <2> QED
      BY <1>1, <2>1, EndingKeeps
  <1>6. ASSUME NEW g \in GoalIds, Abort(g) PROVE Inv'
    <2>1. faults' \in 0 .. MaxFaults
      BY <1>1, <1>6 DEF BoundAssumption, Abort
    <2>2. GoalsEnd("aborted")
      BY <1>1, <1>3, <1>6, <2>1 DEF Abort, GoalsEnd, history
    <2> QED
      BY <1>1, <2>2, EndingKeeps
  <1>7. CASE Lifecycle
    <2>1. UNCHANGED <<nodeVars, sent, goal_req, awaited, cancel_all, history>>
      BY <1>7 DEF Lifecycle
    <2>2. CASE nav # "active" /\ nav' \in {"inactive", "active"} /\ UNCHANGED <<server, faults>>
      <3>1. GoalsEnd("aborted")
        BY <1>1, <1>3, <2>1, <2>2 DEF GoalsEnd, history
      <3> QED
        BY <1>1, <3>1, EndingKeeps
    <2>3. CASE /\ faults < MaxFaults /\ nav' = "inactive" /\ faults' = faults + 1
               /\ server' = End("aborted")
      <3>1. faults' \in 0 .. MaxFaults
        BY <1>1, <2>3 DEF BoundAssumption
      <3>2. GoalsEnd("aborted")
        BY <1>1, <1>2, <2>1, <2>3, <3>1 DEF GoalsEnd, history
      <3> QED
        BY <1>1, <3>2, EndingKeeps
    <2> QED
      BY <1>7, <2>2, <2>3 DEF Lifecycle
  <1> QED
    BY <1>4, <1>5, <1>6, <1>7

LEMMA StutterKeeps ==
  ASSUME Inv, UNCHANGED vars
  PROVE  Inv'
  <1> USE DEF vars, nodeVars, history
  <1>1. TypeOK' /\ FreshGoals' /\ RequestsInOrder'
    BY DEF Inv, TypeOK, FreshGoals, RequestsInOrder, Ready
  <1>2. \A g \in GoalIds : UnderWay(g)' <=> UnderWay(g)
    BY DEF UnderWay
  <1> QED
    BY <1>1, <1>2 DEF Inv, UnderWayIsCovered, CancelIsOld, RetreatIsNoted, RetreatIsNotCancelled

LEMMA StepKeeps ==
  ASSUME BoundAssumption, Inv, [Next]_vars
  PROVE  Inv'
  <1>1. ASSUME NEW d \in Decisions, DecisionCallback(d) PROVE Inv'
    BY <1>1, LeavingKeeps, RetreatKeeps DEF DecisionCallback
  <1> QED
    BY <1>1, StutterKeeps, ResultKeeps, TakeGoalKeeps, ServerKeeps DEF Next

-----------------------------------------------------------------------------
(* However late Nav2 answers, every reachable state of referee_executor.cpp    *)
(* satisfies the invariant.                                                    *)
THEOREM InvariantHolds == BoundAssumption => (Spec => []Inv)
  <1> SUFFICES ASSUME BoundAssumption PROVE Spec => []Inv
    OBVIOUS
  <1>1. Init => Inv
    BY InitEstablishes
  <1>2. Inv /\ [Next]_vars => Inv'
    BY StepKeeps
  <1> QED
    BY <1>1, <1>2, PTL DEF Spec

(* referee_executor.cpp:41-55: once the cancel requests were handled, the robot *)
(* drives to the origin under another decision than RETREAT only with a goal    *)
(* that a cancel request overtook or that the node forgot.                      *)
THEOREM RetreatEndsWithDecision == BoundAssumption => (Spec => []NoStrayRetreat)
  <1> SUFFICES ASSUME BoundAssumption PROVE Spec => []NoStrayRetreat
    OBVIOUS
  <1>1. Inv => NoStrayRetreat
    BY DEF NoStrayRetreat, Inv, UnderWayIsCovered, UnderWay
  <1> QED
    BY <1>1, InvariantHolds, PTL

(* referee_executor.cpp:46-53: the goal of the retreat that is called for is    *)
(* cancelled only if a cancel request was on its way when it was sent.          *)
THEOREM RetreatIsSafe == BoundAssumption => (Spec => []RetreatIsNotCancelled)
  <1> SUFFICES ASSUME BoundAssumption PROVE Spec => []RetreatIsNotCancelled
    OBVIOUS
  <1>1. Inv => RetreatIsNotCancelled
    BY DEF Inv
  <1> QED
    BY <1>1, InvariantHolds, PTL

(* referee_executor.cpp:78,85: while the decision is RETREAT the node knows of  *)
(* the goal that runs, unless the result of an earlier one came after it was    *)
(* sent.                                                                        *)
THEOREM RetreatIsKnown == BoundAssumption => (Spec => []RunningIsKnown)
  <1> SUFFICES ASSUME BoundAssumption PROVE Spec => []RunningIsKnown
    OBVIOUS
  <1>1. Inv => RunningIsKnown
    BY DEF RunningIsKnown, Inv, RetreatIsNoted, UnderWay
  <1> QED
    BY <1>1, InvariantHolds, PTL
=============================================================================
