------------------------ MODULE GoalPoseBridgeProofs ------------------------
(* The safety of GoalPoseBridge for any poses, tolerance and bounds.       *)
EXTENDS GoalPoseBridge, SequenceTheorems, TLAPS

(* The initial states satisfy the invariant: nothing was sent yet.         *)
LEMMA InitEstablishes == Init => IndInv
  <1> SUFFICES ASSUME Init PROVE IndInv
    OBVIOUS
  <1> USE BoundAssumption DEF Init, GoalIds, NoHandle
  <1>1. TypeOK
    <2>1. goal_req \in Seq(GoalIds) /\ goal_resp \in Seq([id : GoalIds, ok : BOOLEAN])
      OBVIOUS
    <2>2. /\ client \in [GoalIds -> {"none", "sent", "accepted", "rejected", "done", "orphan"}]
          /\ server \in [GoalIds -> {"none", "active", "lost"} \cup Terminal]
          /\ target \in [GoalIds -> Poses \cup {NoPose}]
      OBVIOUS
    <2>3. /\ goal_counter \in 0 .. MaxGoals /\ faults \in 0 .. MaxFaults
          /\ crashes \in 0 .. MaxCrashes
      OBVIOUS
    <2> QED
      BY <2>1, <2>2, <2>3 DEF TypeOK
  <1>2. FreshGoals /\ CancelsOlder /\ HandleIsLive /\ NewestNeverCanceled
    BY DEF FreshGoals, CancelsOlder, HandleIsLive, NewestNeverCanceled
  <1>3. RequestsInOrder /\ ResponsesInOrder
    BY DEF RequestsInOrder, ResponsesInOrder
  <1> QED
    BY <1>1, <1>2, <1>3 DEF IndInv

(* The elements and indices of a sequence.                                 *)
LEMMA SeqElements ==
  ASSUME NEW S, NEW s \in Seq(S)
  PROVE  /\ Len(s) \in Nat /\ DOMAIN s = 1 .. Len(s)
         /\ \A i \in DOMAIN s : s[i] \in S
  OBVIOUS

(* Both queues hold goal numbers.                                          *)
LEMMA QueueElements ==
  ASSUME TypeOK
  PROVE  /\ \A i \in DOMAIN goal_req : goal_req[i] \in GoalIds
         /\ \A i \in DOMAIN goal_resp : goal_resp[i].id \in GoalIds /\ goal_resp[i].ok \in BOOLEAN
  <1>1. goal_req \in Seq(GoalIds) /\ goal_resp \in Seq([id : GoalIds, ok : BOOLEAN])
    BY DEF TypeOK
  <1>2. \A i \in DOMAIN goal_resp : goal_resp[i] \in [id : GoalIds, ok : BOOLEAN]
    BY <1>1, SeqElements, Zenon
  <1>3. \A i \in DOMAIN goal_req : goal_req[i] \in GoalIds
    BY <1>1, SeqElements, Zenon
  <1> QED
    BY <1>2, <1>3

(* A publication that is filtered out or dropped changes only heard.      *)
LEMMA IgnoredKeeps ==
  ASSUME IndInv, NEW p \in Poses, GoalIgnored(p)
  PROVE  IndInv'
  BY DEF IndInv, GoalIgnored, bridgeVars, navVars, TypeOK, FreshGoals, RequestsInOrder,
         ResponsesInOrder, CancelsOlder, HandleIsLive, NewestNeverCanceled

(* goal_callback (:46-110) sending a goal: the number is fresh and the     *)
(* handle given up for cancelling is older than it.                        *)
LEMMA SentKeeps ==
  ASSUME IndInv, NEW p \in Poses, GoalSent(p)
  PROVE  IndInv'
  <1> DEFINE n == goal_counter + 1
  <1> USE BoundAssumption DEF GoalIds, NoHandle
  <1>0. /\ n \in GoalIds /\ n \in Nat /\ goal_counter \in Nat
        /\ client[n] = "none" /\ server[n] = "none"
    BY DEF IndInv, TypeOK, FreshGoals, GoalSent
  <1>1. TypeOK'
    BY <1>0 DEF IndInv, TypeOK, GoalSent, CancelCurrent, navVars
  <1>2. FreshGoals'
    BY <1>0 DEF IndInv, TypeOK, FreshGoals, GoalSent, navVars
  <1>3. goal_req \in Seq(GoalIds) /\ goal_resp \in Seq([id : GoalIds, ok : BOOLEAN])
    BY DEF IndInv, TypeOK
  <1>4. RequestsInOrder'
    <2>1. \A i \in DOMAIN goal_req : goal_req[i] \in GoalIds /\ goal_req[i] # n
      BY <1>0, <1>3 DEF IndInv, RequestsInOrder
    <2>2. /\ DOMAIN goal_req' = 1 .. (Len(goal_req) + 1)
          /\ \A i \in DOMAIN goal_req : goal_req'[i] = goal_req[i]
          /\ goal_req'[Len(goal_req) + 1] = n
      BY <1>0, <1>3 DEF GoalSent
    <2>3. ASSUME NEW i \in DOMAIN goal_req'
          PROVE  /\ goal_req'[i] <= goal_counter'
                 /\ client'[goal_req'[i]] = "sent"
                 /\ server'[goal_req'[i]] = "none"
      BY <1>0, <1>3, <2>1, <2>2 DEF IndInv, TypeOK, RequestsInOrder, GoalSent, navVars
    <2>4. ASSUME NEW i \in DOMAIN goal_req', NEW j \in DOMAIN goal_req', i < j
          PROVE  goal_req'[i] < goal_req'[j]
      BY <1>0, <1>3, <2>1, <2>2, <2>4 DEF IndInv, RequestsInOrder
    <2> QED
      BY <2>3, <2>4 DEF RequestsInOrder
  <1>5. ResponsesInOrder'
    <2>1. \A i \in DOMAIN goal_resp : goal_resp[i].id \in GoalIds /\ goal_resp[i].id < n
      BY <1>0, QueueElements DEF IndInv, ResponsesInOrder
    <2>2. /\ DOMAIN goal_req' = 1 .. (Len(goal_req) + 1)
          /\ \A i \in DOMAIN goal_req : goal_req'[i] = goal_req[i]
          /\ goal_req'[Len(goal_req) + 1] = n
          /\ goal_resp' = goal_resp
      BY <1>0, <1>3 DEF GoalSent
    <2>3. \A i \in DOMAIN goal_resp : /\ goal_resp[i].id <= goal_counter'
                                      /\ client'[goal_resp[i].id] = "sent"
      BY <1>0, <2>1 DEF IndInv, TypeOK, ResponsesInOrder, GoalSent
    <2>4. ASSUME NEW i \in DOMAIN goal_resp, NEW j \in DOMAIN goal_req'
          PROVE  goal_resp[i].id < goal_req'[j]
      <3>1. Len(goal_req) \in Nat /\ DOMAIN goal_req = 1 .. Len(goal_req)
        BY <1>3, SeqElements
      <3>2. CASE j \in DOMAIN goal_req
        BY <2>2, <3>2 DEF IndInv, ResponsesInOrder
      <3>3. CASE j = Len(goal_req) + 1
        BY <2>1, <2>2, <3>3
      <3> QED
        BY <2>2, <3>1, <3>2, <3>3
    <2> QED
      BY <2>2, <2>3, <2>4 DEF IndInv, ResponsesInOrder
  <1>6. CancelsOlder'
    BY <1>0 DEF IndInv, TypeOK, CancelsOlder, HandleIsLive, GoalSent, CancelCurrent
  <1>7. HandleIsLive' /\ NewestNeverCanceled'
    BY <1>0 DEF HandleIsLive, NewestNeverCanceled, GoalSent, navVars
  <1> QED
    BY <1>1, <1>2, <1>4, <1>5, <1>6, <1>7 DEF IndInv

(* goal_response_callback (:78-91): the answered goal leaves the response  *)
(* queue, and only the goal sent last becomes the owned one.               *)
LEMMA ResponseKeeps ==
  ASSUME IndInv, GoalResponse
  PROVE  IndInv'
  <1> DEFINE r == Head(goal_resp)
  <1> USE BoundAssumption DEF GoalIds, NoHandle
  <1>1. /\ goal_resp \in Seq([id : GoalIds, ok : BOOLEAN]) /\ goal_resp # <<>>
        /\ goal_req' = goal_req /\ goal_counter' = goal_counter /\ server' = server
    BY DEF IndInv, TypeOK, GoalResponse, navVars
  <1>2. /\ Len(goal_resp) \in Nat \ {0} /\ DOMAIN goal_resp = 1 .. Len(goal_resp)
        /\ r = goal_resp[1]
        /\ DOMAIN goal_resp' = 1 .. (Len(goal_resp) - 1)
        /\ \A i \in DOMAIN goal_resp' : goal_resp'[i] = goal_resp[i + 1]
    BY <1>1 DEF GoalResponse
  <1>3. /\ r.id \in GoalIds /\ r.ok \in BOOLEAN /\ client[r.id] = "sent"
        /\ r.id <= goal_counter
    BY <1>2, QueueElements DEF IndInv, ResponsesInOrder
  <1>4. /\ client'[r.id] \in {"accepted", "rejected", "orphan"}
        /\ r.ok => client'[r.id] \in {"accepted", "orphan"}
        /\ \A g \in GoalIds : g # r.id => client'[g] = client[g]
        /\ client' \in [GoalIds -> {"none", "sent", "accepted", "rejected", "done", "orphan"}]
    BY <1>3 DEF IndInv, TypeOK, GoalResponse
  <1>5. TypeOK'
    <2>1. goal_resp' \in Seq([id : GoalIds, ok : BOOLEAN])
      BY <1>1 DEF GoalResponse
    <2>2. /\ have_last_goal' \in BOOLEAN
          /\ current_goal_handle' \in GoalIds \cup {NoHandle}
      BY <1>3 DEF IndInv, TypeOK, GoalResponse, OnResponse
    <2> QED
      BY <1>4, <2>1, <2>2 DEF IndInv, TypeOK, GoalResponse, navVars
  <1>6. FreshGoals'
    BY <1>1, <1>3, <1>4 DEF IndInv, TypeOK, FreshGoals
  <1>7. RequestsInOrder'
    <2>1. \A i \in DOMAIN goal_req : goal_req[i] \in GoalIds /\ goal_req[i] # r.id
      BY <1>2, <1>3, QueueElements DEF IndInv, ResponsesInOrder
    <2> QED
      BY <1>1, <1>4, <2>1 DEF IndInv, RequestsInOrder
  <1>8. ResponsesInOrder'
    <2>1. \A i \in DOMAIN goal_resp' : i + 1 \in DOMAIN goal_resp /\ 1 < i + 1
      BY <1>2
    <2>2. ASSUME NEW i \in DOMAIN goal_resp'
          PROVE  goal_resp'[i].id <= goal_counter /\ client'[goal_resp'[i].id] = "sent"
      <3>1. goal_resp[i + 1].id \in GoalIds /\ goal_resp[i + 1].id # r.id
        BY <1>2, <1>3, <2>1, QueueElements DEF IndInv, ResponsesInOrder
      <3> QED
        BY <1>2, <1>4, <2>1, <3>1 DEF IndInv, ResponsesInOrder
    <2>3. \A i, j \in DOMAIN goal_resp' : i < j => goal_resp'[i].id < goal_resp'[j].id
      BY <1>2, <2>1 DEF IndInv, ResponsesInOrder
    <2>4. \A i \in DOMAIN goal_resp', j \in DOMAIN goal_req : goal_resp'[i].id < goal_req[j]
      BY <1>2, <2>1 DEF IndInv, ResponsesInOrder
    <2> QED
      BY <1>1, <2>2, <2>3, <2>4 DEF ResponsesInOrder
  <1>9. CancelsOlder' /\ NewestNeverCanceled'
    BY <1>1 DEF IndInv, CancelsOlder, NewestNeverCanceled, GoalResponse
  <1>10. HandleIsLive'
    <2>1. current_goal_handle # NoHandle => current_goal_handle # r.id
      BY <1>3 DEF IndInv, HandleIsLive
    <2>2. current_goal_handle # NoHandle => current_goal_handle \in GoalIds
      BY DEF IndInv, TypeOK
    <2> QED
      BY <1>1, <1>3, <1>4, <2>1, <2>2 DEF IndInv, HandleIsLive, GoalResponse, OnResponse
  <1> QED
    BY <1>5, <1>6, <1>7, <1>8, <1>9, <1>10 DEF IndInv

(* result_callback (:92-103): the handle is given up with its goal.        *)
LEMMA ResultKeeps ==
  ASSUME IndInv, NEW g \in GoalIds, GoalResult(g)
  PROVE  IndInv'
  <1> USE BoundAssumption DEF GoalIds, NoHandle
  <1>1. /\ goal_req' = goal_req /\ goal_resp' = goal_resp /\ goal_counter' = goal_counter
        /\ server' = server /\ cancel_req' = cancel_req
        /\ client[g] = "accepted" /\ client'[g] = "done"
        /\ \A h \in GoalIds : h # g => client'[h] = client[h]
    BY DEF IndInv, TypeOK, GoalResult, navVars
  <1>2. TypeOK'
    BY DEF IndInv, TypeOK, GoalResult, OnResult, navVars
  <1>3. FreshGoals'
    BY <1>1 DEF IndInv, TypeOK, FreshGoals
  <1>4. RequestsInOrder' /\ ResponsesInOrder'
    <2>1. \A i \in DOMAIN goal_req : goal_req[i] \in GoalIds /\ goal_req[i] # g
      BY <1>1, QueueElements DEF IndInv, RequestsInOrder
    <2>2. \A i \in DOMAIN goal_resp : goal_resp[i].id \in GoalIds /\ goal_resp[i].id # g
      BY <1>1, QueueElements DEF IndInv, ResponsesInOrder
    <2> QED
      BY <1>1, <2>1, <2>2 DEF IndInv, RequestsInOrder, ResponsesInOrder
  <1>5. CancelsOlder' /\ NewestNeverCanceled'
    BY <1>1 DEF IndInv, CancelsOlder, NewestNeverCanceled
  <1>6. HandleIsLive'
    BY <1>1 DEF IndInv, TypeOK, HandleIsLive, GoalResult, OnResult
  <1> QED
    BY <1>2, <1>3, <1>4, <1>5, <1>6 DEF IndInv

(* The server answers the oldest request: its number moves from one queue  *)
(* to the end of the other.                                                *)
LEMMA TakeGoalKeeps ==
  ASSUME IndInv, TakeGoal
  PROVE  IndInv'
  <1> DEFINE q == Head(goal_req)
             n == Len(goal_resp)
  <1> USE BoundAssumption DEF GoalIds, NoHandle
  <1>1. /\ goal_req \in Seq(GoalIds) /\ goal_req # <<>>
        /\ goal_resp \in Seq([id : GoalIds, ok : BOOLEAN])
        /\ client' = client /\ goal_counter' = goal_counter /\ cancel_req' = cancel_req
    BY DEF IndInv, TypeOK, TakeGoal, bridgeVars
  <1>2. /\ Len(goal_req) \in Nat \ {0} /\ DOMAIN goal_req = 1 .. Len(goal_req)
        /\ q = goal_req[1]
        /\ DOMAIN goal_req' = 1 .. (Len(goal_req) - 1)
        /\ \A i \in DOMAIN goal_req' : goal_req'[i] = goal_req[i + 1]
    BY <1>1 DEF TakeGoal
  <1>3. q \in GoalIds /\ client[q] = "sent" /\ server[q] = "none" /\ q <= goal_counter
    BY <1>2, QueueElements DEF IndInv, RequestsInOrder
  <1>4. /\ n \in Nat /\ DOMAIN goal_resp = 1 .. n
        /\ DOMAIN goal_resp' = 1 .. (n + 1)
        /\ \A i \in DOMAIN goal_resp : goal_resp'[i] = goal_resp[i]
        /\ goal_resp'[n + 1].id = q
        /\ goal_resp' \in Seq([id : GoalIds, ok : BOOLEAN])
    <2>1. [id |-> q, ok |-> nav = "active"] \in [id : GoalIds, ok : BOOLEAN]
      BY <1>3
    <2> QED
      BY <1>1, <2>1 DEF TakeGoal
  <1>5. /\ server' \in [GoalIds -> {"none", "active", "lost"} \cup Terminal]
        /\ \A g \in GoalIds : g # q /\ server[g] = "none" => server'[g] = "none"
        /\ \A g \in GoalIds : server'[g] = "canceled" => server[g] = "canceled"
    BY <1>3 DEF IndInv, TypeOK, TakeGoal, Terminal
  <1>6. \A i \in DOMAIN goal_req' : i + 1 \in DOMAIN goal_req /\ 1 < i + 1
    BY <1>2
  <1>7. TypeOK'
    <2>1. goal_req' \in Seq(GoalIds)
      BY <1>1 DEF TakeGoal
    <2> QED
      BY <1>4, <1>5, <2>1 DEF IndInv, TypeOK, TakeGoal, bridgeVars
  <1>8. FreshGoals'
    BY <1>1, <1>3, <1>5 DEF IndInv, TypeOK, FreshGoals
  <1>9. RequestsInOrder'
    <2>1. ASSUME NEW i \in DOMAIN goal_req'
          PROVE  /\ goal_req'[i] <= goal_counter /\ client[goal_req'[i]] = "sent"
                 /\ server'[goal_req'[i]] = "none"
      <3>1. goal_req[i + 1] \in GoalIds /\ goal_req[i + 1] # q
        BY <1>2, <1>3, <1>6, QueueElements DEF IndInv, RequestsInOrder
      <3> QED
        BY <1>2, <1>5, <1>6, <3>1 DEF IndInv, RequestsInOrder
    <2>2. \A i, j \in DOMAIN goal_req' : i < j => goal_req'[i] < goal_req'[j]
      BY <1>2, <1>6 DEF IndInv, RequestsInOrder
    <2> QED
      BY <1>1, <2>1, <2>2 DEF RequestsInOrder
  <1>10. ResponsesInOrder'
    <2>1. \A i \in DOMAIN goal_resp : goal_resp[i].id \in GoalIds /\ goal_resp[i].id < q
      BY <1>2, QueueElements DEF IndInv, ResponsesInOrder
    <2>2. \A i \in DOMAIN goal_req' : goal_req'[i] \in GoalIds /\ q < goal_req'[i]
      BY <1>2, <1>6, QueueElements DEF IndInv, RequestsInOrder
    <2>3. ASSUME NEW i \in DOMAIN goal_resp'
          PROVE  /\ goal_resp'[i].id <= goal_counter
                 /\ client[goal_resp'[i].id] = "sent"
                 /\ goal_resp'[i].id <= q /\ goal_resp'[i].id \in Nat
      <3>1. CASE i \in DOMAIN goal_resp
        BY <1>3, <1>4, <2>1, <3>1 DEF IndInv, ResponsesInOrder
      <3>2. CASE i = n + 1
        BY <1>3, <1>4, <3>2
      <3> QED
        BY <1>4, <3>1, <3>2
    <2>4. ASSUME NEW i \in DOMAIN goal_resp', NEW j \in DOMAIN goal_resp', i < j
          PROVE  goal_resp'[i].id < goal_resp'[j].id
      <3>1. CASE j \in DOMAIN goal_resp
        BY <1>4, <2>4, <3>1 DEF IndInv, ResponsesInOrder
      <3>2. CASE j = n + 1
        BY <1>4, <2>1, <2>4, <3>2
      <3> QED
        BY <1>4, <3>1, <3>2
    <2>5. \A i \in DOMAIN goal_resp', j \in DOMAIN goal_req' : goal_resp'[i].id < goal_req'[j]
      BY <1>3, <2>2, <2>3
    <2> QED
      BY <1>1, <2>3, <2>4, <2>5 DEF ResponsesInOrder
  <1>11. CancelsOlder' /\ HandleIsLive'
    BY <1>1 DEF IndInv, CancelsOlder, HandleIsLive, TakeGoal, bridgeVars
  <1>12. NewestNeverCanceled'
    BY <1>1, <1>5 DEF IndInv, NewestNeverCanceled
  <1> QED
    BY <1>7, <1>8, <1>9, <1>10, <1>11, <1>12 DEF IndInv

(* Steps of the server that touch no queue: what they change of server[g]  *)
(* concerns goals it has accepted, and they never cancel the newest one.   *)
LEMMA ServerKeeps ==
  ASSUME IndInv,
         UNCHANGED <<bridgeVars, heard, target, client, goal_req, goal_resp>>,
         cancel_req' \in SUBSET cancel_req,
         server' \in [GoalIds -> {"none", "active", "lost"} \cup Terminal],
         nav' \in {"down", "inactive", "active"},
         faults' \in 0 .. MaxFaults, crashes' = crashes,
         \A g \in GoalIds : server[g] = "none" => server'[g] = "none",
         \A g \in GoalIds : server'[g] = "canceled" /\ server[g] # "canceled"
                              => g \in cancel_req
  PROVE  IndInv'
  <1> USE BoundAssumption DEF GoalIds, NoHandle, bridgeVars
  <1>1. TypeOK'
    BY DEF IndInv, TypeOK
  <1>2. FreshGoals' /\ CancelsOlder' /\ HandleIsLive'
    BY DEF IndInv, TypeOK, FreshGoals, CancelsOlder, HandleIsLive
  <1>3. RequestsInOrder' /\ ResponsesInOrder'
    BY QueueElements DEF IndInv, RequestsInOrder, ResponsesInOrder
  <1>4. NewestNeverCanceled'
    BY DEF IndInv, TypeOK, CancelsOlder, NewestNeverCanceled
  <1> QED
    BY <1>1, <1>2, <1>3, <1>4 DEF IndInv

(* A crash drops the requests and keeps a prefix of the responses.         *)
LEMMA CrashKeeps ==
  ASSUME IndInv, Crash
  PROVE  IndInv'
  <1> USE BoundAssumption DEF GoalIds, NoHandle
  <1>1. PICK k \in 0 .. Len(goal_resp) : goal_resp' = SubSeq(goal_resp, 1, k)
    BY DEF Crash
  <1>2. /\ goal_resp \in Seq([id : GoalIds, ok : BOOLEAN])
        /\ goal_req' = <<>> /\ cancel_req' = {} /\ goal_counter' = goal_counter
        /\ current_goal_handle' = current_goal_handle
        /\ client' = [g \in GoalIds |-> IF client[g] = "accepted" THEN "orphan" ELSE client[g]]
        /\ server' = [g \in GoalIds |-> IF server[g] = "none" THEN "none" ELSE "lost"]
    BY DEF IndInv, TypeOK, Crash, bridgeVars
  <1>3. /\ Len(goal_resp) \in Nat /\ DOMAIN goal_resp = 1 .. Len(goal_resp)
        /\ goal_resp' \in Seq([id : GoalIds, ok : BOOLEAN])
        /\ DOMAIN goal_resp' = 1 .. k
        /\ \A i \in DOMAIN goal_resp' : i \in DOMAIN goal_resp /\ goal_resp'[i] = goal_resp[i]
    <2>1. Len(goal_resp) \in Nat /\ DOMAIN goal_resp = 1 .. Len(goal_resp)
      BY <1>2
    <2>2. k \in Nat /\ k <= Len(goal_resp)
      BY <2>1
    <2>3. \A i \in 1 .. k : i \in 1 .. Len(goal_resp)
      BY <2>1, <2>2
    <2>4. goal_resp' = [i \in 1 .. k |-> goal_resp[i]]
      BY <1>1, <1>2, <2>1, <2>2
    <2>5. goal_resp' \in Seq([id : GoalIds, ok : BOOLEAN])
      <3>1. \A i \in 1 .. k : goal_resp[i] \in [id : GoalIds, ok : BOOLEAN]
        BY <1>2, <2>1, <2>3, SeqElements, Zenon
      <3> QED
        BY <1>1, <2>2, <3>1, SubSeqProperties
    <2> QED
      BY <2>1, <2>3, <2>4, <2>5
  <1>4. TypeOK'
    <2>1. /\ client' \in [GoalIds -> {"none", "sent", "accepted", "rejected", "done", "orphan"}]
          /\ server' \in [GoalIds -> {"none", "active", "lost"} \cup Terminal]
      BY <1>2 DEF IndInv, TypeOK
    <2>2. goal_req' \in Seq(GoalIds) /\ cancel_req' \in SUBSET GoalIds
      BY <1>2
    <2>3. crashes' \in 0 .. MaxCrashes /\ nav' \in {"down", "inactive", "active"}
      BY DEF IndInv, TypeOK, Crash
    <2> QED
      BY <1>3, <2>1, <2>2, <2>3 DEF IndInv, TypeOK, Crash, bridgeVars
  <1>5. FreshGoals' /\ CancelsOlder' /\ NewestNeverCanceled'
    BY <1>2 DEF IndInv, TypeOK, FreshGoals, CancelsOlder, NewestNeverCanceled
  <1>6. RequestsInOrder'
    BY <1>2 DEF RequestsInOrder
  <1>7. ResponsesInOrder'
    <2>1. DOMAIN goal_req' = {}
      BY <1>2
    <2>2. \A i \in DOMAIN goal_resp' : /\ goal_resp'[i].id <= goal_counter
                                       /\ client'[goal_resp'[i].id] = "sent"
      BY <1>2, <1>3, QueueElements DEF IndInv, ResponsesInOrder
    <2>3. \A i, j \in DOMAIN goal_resp' : i < j => goal_resp'[i].id < goal_resp'[j].id
      BY <1>3 DEF IndInv, ResponsesInOrder
    <2> QED
      BY <1>2, <2>1, <2>2, <2>3 DEF ResponsesInOrder
  <1>8. HandleIsLive'
    BY <1>2 DEF IndInv, TypeOK, HandleIsLive
  <1> QED
    BY <1>4, <1>5, <1>6, <1>7, <1>8 DEF IndInv

(* Every step of the node, the client and the server keeps the invariant.  *)
LEMMA NextKeeps == IndInv /\ [Next]_vars => IndInv'
  <1> SUFFICES ASSUME IndInv, [Next]_vars PROVE IndInv'
    OBVIOUS
  <1>1. ASSUME NEW p \in Poses, GoalCallback(p) PROVE IndInv'
    BY <1>1, IgnoredKeeps, SentKeeps DEF GoalCallback
  <1>2. CASE GoalResponse
    BY <1>2, ResponseKeeps
  <1>3. ASSUME NEW g \in GoalIds, GoalResult(g) PROVE IndInv'
    BY <1>3, ResultKeeps
  <1>4. CASE TakeGoal
    BY <1>4, TakeGoalKeeps
  <1>5. ASSUME NEW g \in GoalIds, TakeCancel(g) PROVE IndInv'
    <2>1. /\ server' \in [GoalIds -> {"none", "active", "lost"} \cup Terminal]
          /\ cancel_req' \in SUBSET cancel_req
          /\ \A h \in GoalIds : server[h] = "none" => server'[h] = "none"
          /\ \A h \in GoalIds : server'[h] = "canceled" /\ server[h] # "canceled"
                                  => h \in cancel_req
      BY <1>5 DEF IndInv, TypeOK, TakeCancel, Terminal
    <2>2. nav' = nav /\ faults' = faults /\ crashes' = crashes
      BY <1>5 DEF TakeCancel
    <2> QED
      BY <1>5, <2>1, <2>2, ServerKeeps DEF IndInv, TypeOK, TakeCancel
  <1>6. ASSUME NEW g \in GoalIds, Succeed(g) \/ Abort(g) PROVE IndInv'
    <2>1. /\ server' \in [GoalIds -> {"none", "active", "lost"} \cup Terminal]
          /\ \A h \in GoalIds : server[h] = "none" => server'[h] = "none"
          /\ \A h \in GoalIds : server'[h] = "canceled" => server[h] = "canceled"
      BY <1>6 DEF IndInv, TypeOK, Succeed, Abort, Finish, Terminal
    <2>2. faults' \in 0 .. MaxFaults
      BY <1>6, BoundAssumption DEF IndInv, TypeOK, Succeed, Abort
    <2>3. /\ UNCHANGED <<bridgeVars, heard, target, client, goal_req, goal_resp>>
          /\ cancel_req' = cancel_req /\ nav' = nav /\ crashes' = crashes
      BY <1>6 DEF Succeed, Abort, Finish
    <2> QED
      BY <2>1, <2>2, <2>3, ServerKeeps DEF IndInv, TypeOK
  <1>7. CASE Configure \/ Activate
    BY <1>7, ServerKeeps DEF Configure, Activate, IndInv, TypeOK
  <1>8. CASE Deactivate
    <2>1. /\ server' \in [GoalIds -> {"none", "active", "lost"} \cup Terminal]
          /\ \A h \in GoalIds : server[h] = "none" => server'[h] = "none"
          /\ \A h \in GoalIds : server'[h] = "canceled" => server[h] = "canceled"
      BY <1>8 DEF IndInv, TypeOK, Deactivate, Terminal
    <2>2. faults' \in 0 .. MaxFaults
      BY <1>8, BoundAssumption DEF IndInv, TypeOK, Deactivate
    <2> QED
      BY <1>8, <2>1, <2>2, ServerKeeps DEF IndInv, TypeOK, Deactivate
  <1>9. CASE Crash
    BY <1>9, CrashKeeps
  <1>10. CASE UNCHANGED vars
    BY <1>10, QueueElements DEF vars, bridgeVars, navVars, IndInv, TypeOK, FreshGoals,
       RequestsInOrder, ResponsesInOrder, CancelsOlder, HandleIsLive, NewestNeverCanceled
  <1> QED
    BY <1>1, <1>2, <1>3, <1>4, <1>5, <1>6, <1>7, <1>8, <1>9, <1>10 DEF Next

(* The invariant holds in every reachable state.                           *)
THEOREM InvariantHolds == Spec => []IndInv
  BY InitEstablishes, NextKeeps, PTL DEF Spec

(* Every variable keeps its type.                                          *)
THEOREM TypeCorrect == Spec => []TypeOK
  <1>1. IndInv => TypeOK
    BY DEF IndInv
  <1> QED
    BY <1>1, InvariantHolds, PTL

(* goal_pose_bridge.cpp:15-16: no cancel request names the newest goal.    *)
THEOREM CancelIsSelective == Spec => []CancelSparesNewest
  <1>1. IndInv => CancelSparesNewest
    BY BoundAssumption DEF IndInv, TypeOK, CancelsOlder, CancelSparesNewest
  <1> QED
    BY <1>1, InvariantHolds, PTL

(* The server never ends the newest goal because the node asked it to.     *)
THEOREM NewestSurvives == Spec => []NewestNeverCanceled
  <1>1. IndInv => NewestNeverCanceled
    BY DEF IndInv
  <1> QED
    BY <1>1, InvariantHolds, PTL

(* async_cancel_goal is only called with a handle the client still knows.  *)
THEOREM HandleStaysLive == Spec => []HandleIsLive
  <1>1. IndInv => HandleIsLive
    BY DEF IndInv
  <1> QED
    BY <1>1, InvariantHolds, PTL

(* Every step of the detailed node is a step of the abstract client.       *)
LEMMA StepIsSole == IndInv /\ IndInv' /\ [Next]_vars => [Sole!SoleNext]_(Sole!soleVars)
  <1> SUFFICES ASSUME IndInv, IndInv', [Next]_vars
               PROVE  Sole!SoleNext \/ UNCHANGED Sole!soleVars
    BY Zenon
  <1> USE DEF Sole!SoleNext, Sole!soleVars, Sole!Replace, Sole!Own, Sole!Disown, Sole!Handled
  <1>1. ASSUME NEW p \in Poses, GoalCallback(p)
        PROVE  Sole!SoleNext \/ UNCHANGED Sole!soleVars
    BY <1>1 DEF GoalCallback, GoalIgnored, GoalSent, CancelCurrent, bridgeVars, NoHandle
  <1>2. CASE GoalResponse
    <2>1. Head(goal_resp).id \in GoalIds
      BY <1>2, QueueElements DEF IndInv, TypeOK, GoalResponse
    <2> QED
      BY <1>2, <2>1, BoundAssumption DEF GoalResponse, OnResponse, GoalIds
  <1>3. ASSUME NEW g \in GoalIds, GoalResult(g)
        PROVE  Sole!SoleNext \/ UNCHANGED Sole!soleVars
    BY <1>3 DEF GoalResult, OnResult, NoHandle
  <1>4. ASSUME NEW g \in GoalIds, TakeCancel(g)
        PROVE  Sole!SoleNext \/ UNCHANGED Sole!soleVars
    BY <1>4 DEF TakeCancel, bridgeVars
  <1>5. CASE TakeGoal \/ Configure \/ Activate \/ Deactivate
    BY <1>5 DEF TakeGoal, Configure, Activate, Deactivate, bridgeVars
  <1>6. ASSUME NEW g \in GoalIds, Succeed(g) \/ Abort(g)
        PROVE  Sole!SoleNext \/ UNCHANGED Sole!soleVars
    BY <1>6 DEF Succeed, Abort, Finish, bridgeVars
  <1>7. CASE Crash
    BY <1>7 DEF Crash, bridgeVars
  <1>8. CASE UNCHANGED vars
    BY <1>8 DEF vars, bridgeVars
  <1> QED
    BY <1>1, <1>2, <1>3, <1>4, <1>5, <1>6, <1>7, <1>8 DEF Next

(* goal_pose_bridge.cpp:12-16: the node implements the abstract client.    *)
THEOREM ImplementsSoleGoal == Spec => OwnsOneGoal
  <1>1. Init => Sole!SoleInit
    BY DEF Init, NoHandle, Sole!SoleInit
  <1> QED
    BY <1>1, InvariantHolds, StepIsSole, PTL DEF Spec, OwnsOneGoal, Sole!SoleSpec


-----------------------------------------------------------------------------
(* That the duplicate filter swallows only redundant poses until the       *)
(* server crashes, and what holds till then.                               *)

\* Without a crash no message is lost: a goal counted as sent has its request or
\* its response under way.
FollowedUp ==
  \A g \in GoalIds : client[g] = "sent" =>
    \/ \E i \in DOMAIN goal_req : goal_req[i] = g
    \/ \E i \in DOMAIN goal_resp : goal_resp[i].id = g

KnownGoals == {g \in GoalIds : server[g] \in {"active"} \cup Terminal}

\* The server is there to be asked for the result of a goal it accepted.
AcceptedAreKnown ==
  /\ \A i \in DOMAIN goal_resp : Ready /\ (goal_resp[i].ok => goal_resp[i].id \in KnownGoals)
  /\ \A g \in GoalIds : client[g] = "accepted" => g \in KnownGoals

\* A filter that is on is about a goal that was not answered yet, runs, or was
\* reached, and the newest goal is for the pose the filter remembers.
FilterIsAboutNewest ==
  /\ goal_counter # 0 => target[goal_counter] = last_goal
  /\ have_last_goal =>
       /\ goal_counter # 0
       /\ \/ client[goal_counter] \in {"sent", "accepted"}
          \/ client[goal_counter] = "done" /\ server[goal_counter] = "succeeded"

NothingLost == FollowedUp /\ AcceptedAreKnown /\ FilterIsAboutNewest

FilterInv == IndInv /\ (crashes = 0 => NothingLost)

-----------------------------------------------------------------------------
LEMMA CounterIsGoal ==
  ASSUME IndInv
  PROVE  /\ goal_counter \in Nat /\ (goal_counter # 0 => goal_counter \in GoalIds)
         /\ goal_req \in Seq(GoalIds) /\ goal_resp \in Seq([id : GoalIds, ok : BOOLEAN])
         /\ Len(goal_req) \in Nat /\ DOMAIN goal_req = 1 .. Len(goal_req)
         /\ Len(goal_resp) \in Nat /\ DOMAIN goal_resp = 1 .. Len(goal_resp)
  <1>1. goal_counter \in 0 .. MaxGoals /\ goal_req \in Seq(GoalIds)
        /\ goal_resp \in Seq([id : GoalIds, ok : BOOLEAN])
    BY DEF IndInv, TypeOK
  <1> QED
    BY <1>1, BoundAssumption DEF GoalIds

LEMMA FilterInit == Init => FilterInv
  <1> SUFFICES ASSUME Init PROVE NothingLost
    BY InitEstablishes DEF FilterInv
  <1>1. DOMAIN goal_resp = {}
    BY DEF Init
  <1> QED
    BY <1>1 DEF Init, NothingLost, FollowedUp, AcceptedAreKnown, FilterIsAboutNewest

LEMMA SentLosesNothing ==
  ASSUME IndInv, NothingLost, NEW p \in Poses, GoalSent(p)
  PROVE  NothingLost'
  <1> DEFINE n == goal_counter + 1
  <1>1. n \in GoalIds /\ n # 0 /\ goal_counter' = n
    BY CounterIsGoal, BoundAssumption DEF GoalSent, GoalIds
  <1>2. /\ target' = [target EXCEPT ![n] = p] /\ last_goal' = p
        /\ client' = [client EXCEPT ![n] = "sent"] /\ goal_req' = Append(goal_req, n)
        /\ UNCHANGED <<have_last_goal, goal_resp, server, nav>>
    BY DEF GoalSent, navVars
  <1>3. client \in [GoalIds -> {"none", "sent", "accepted", "rejected", "done", "orphan"}]
        /\ target \in [GoalIds -> Poses \cup {NoPose}]
    BY DEF IndInv, TypeOK
  <1> HIDE DEF n
  <1>4. /\ client'[n] = "sent" /\ target'[n] = p
        /\ \A g \in GoalIds \ {n} : client'[g] = client[g]
    BY <1>1, <1>2, <1>3
  <1>5. /\ DOMAIN goal_req' = 1 .. Len(goal_req) + 1 /\ goal_req'[Len(goal_req) + 1] = n
        /\ \A i \in DOMAIN goal_req : i \in DOMAIN goal_req' /\ goal_req'[i] = goal_req[i]
    BY <1>1, <1>2, CounterIsGoal
  <1>6. FollowedUp'
    <2>1. Len(goal_req) + 1 \in DOMAIN goal_req'
      BY <1>5, CounterIsGoal
    <2> QED
      BY <1>2, <1>4, <1>5, <2>1 DEF NothingLost, FollowedUp
  <1>7. AcceptedAreKnown'
    BY <1>2, <1>4 DEF NothingLost, AcceptedAreKnown, KnownGoals, Ready
  <1>8. FilterIsAboutNewest'
    BY <1>1, <1>2, <1>4 DEF FilterIsAboutNewest
  <1> QED
    BY <1>6, <1>7, <1>8 DEF NothingLost

LEMMA ResponseLosesNothing ==
  ASSUME IndInv, NothingLost, GoalResponse
  PROVE  NothingLost'
  <1> DEFINE r == Head(goal_resp)
  <1>1. /\ 1 \in DOMAIN goal_resp /\ r = goal_resp[1] /\ r.id \in GoalIds /\ r.ok \in BOOLEAN
    <2>1. goal_resp # <<>>
      BY DEF GoalResponse
    <2>2. 1 \in DOMAIN goal_resp /\ r = goal_resp[1]
      BY <2>1, CounterIsGoal
    <2> QED
      BY <2>2, QueueElements DEF IndInv
  <1>2. Ready /\ (r.ok => r.id \in KnownGoals)
    BY <1>1 DEF NothingLost, AcceptedAreKnown
  <1>3. client' = [client EXCEPT ![r.id] = IF r.ok THEN "accepted" ELSE "rejected"]
    BY <1>1, <1>2 DEF GoalResponse
  <1>4. /\ OnResponse(r) /\ goal_resp' = Tail(goal_resp)
        /\ UNCHANGED <<last_goal, goal_counter, target, goal_req, server, nav>>
    BY DEF GoalResponse, navVars
  <1>5. client \in [GoalIds -> {"none", "sent", "accepted", "rejected", "done", "orphan"}]
    BY DEF IndInv, TypeOK
  <1> HIDE DEF r
  <1>6. /\ client'[r.id] = IF r.ok THEN "accepted" ELSE "rejected"
        /\ \A g \in GoalIds : g # r.id => client'[g] = client[g]
    BY <1>1, <1>3, <1>5
  <1>7. /\ \A i \in DOMAIN goal_resp' : i + 1 \in DOMAIN goal_resp /\ goal_resp'[i] = goal_resp[i + 1]
        /\ \A i \in DOMAIN goal_resp : i # 1 =>
             i - 1 \in DOMAIN goal_resp' /\ goal_resp'[i - 1] = goal_resp[i]
    BY <1>1, <1>4, CounterIsGoal
  <1>8. FollowedUp'
    <2> SUFFICES ASSUME NEW g \in GoalIds, client'[g] = "sent"
                 PROVE  \/ \E i \in DOMAIN goal_req' : goal_req'[i] = g
                        \/ \E i \in DOMAIN goal_resp' : goal_resp'[i].id = g
      BY DEF FollowedUp
    <2>1. g # r.id /\ client[g] = "sent"
      BY <1>6
    <2>2. CASE \E i \in DOMAIN goal_req : goal_req[i] = g
      BY <1>4, <2>2
    <2>3. CASE \E i \in DOMAIN goal_resp : goal_resp[i].id = g
      <3>1. PICK i \in DOMAIN goal_resp : goal_resp[i].id = g
        BY <2>3
      <3>2. i # 1
        BY <1>1, <2>1, <3>1
      <3> QED
        BY <1>7, <3>1, <3>2
    <2> QED
      BY <2>1, <2>2, <2>3 DEF NothingLost, FollowedUp
  <1>9. AcceptedAreKnown'
    <2>1. \A i \in DOMAIN goal_resp' : Ready' /\ (goal_resp'[i].ok => goal_resp'[i].id \in KnownGoals')
      BY <1>4, <1>7 DEF NothingLost, AcceptedAreKnown, KnownGoals, Ready
    <2>2. \A g \in GoalIds : client'[g] = "accepted" => g \in KnownGoals'
      BY <1>2, <1>4, <1>6 DEF NothingLost, AcceptedAreKnown, KnownGoals
    <2> QED
      BY <2>1, <2>2 DEF AcceptedAreKnown
  <1>10. FilterIsAboutNewest'
    <2>1. goal_counter # 0 => target'[goal_counter] = last_goal'
      BY <1>4 DEF NothingLost, FilterIsAboutNewest
    <2>2. CASE r.id = goal_counter
      <3>1. have_last_goal' = r.ok /\ goal_counter # 0
        BY <1>1, <1>4, <2>2, BoundAssumption DEF OnResponse, GoalIds
      <3> QED
        BY <1>4, <1>6, <2>1, <2>2, <3>1 DEF FilterIsAboutNewest
    <2>3. CASE r.id # goal_counter
      <3>1. have_last_goal' = have_last_goal
        BY <1>4, <2>3 DEF OnResponse
      <3>2. goal_counter # 0 => client'[goal_counter] = client[goal_counter]
        BY <1>6, <2>3, CounterIsGoal
      <3> QED
        BY <1>4, <2>1, <3>1, <3>2 DEF NothingLost, FilterIsAboutNewest
    <2> QED
      BY <2>2, <2>3
  <1> QED
    BY <1>8, <1>9, <1>10 DEF NothingLost

LEMMA ResultLosesNothing ==
  ASSUME IndInv, NothingLost, NEW g \in GoalIds, GoalResult(g)
  PROVE  NothingLost'
  <1>1. /\ client[g] = "accepted" /\ client' = [client EXCEPT ![g] = "done"]
        /\ OnResult(g, server[g])
        /\ UNCHANGED <<last_goal, goal_counter, target, goal_req, goal_resp, server, nav>>
    BY DEF GoalResult, navVars
  <1>2. client \in [GoalIds -> {"none", "sent", "accepted", "rejected", "done", "orphan"}]
    BY DEF IndInv, TypeOK
  <1>3. client'[g] = "done" /\ \A h \in GoalIds : h # g => client'[h] = client[h]
    BY <1>1, <1>2
  <1>4. FollowedUp' /\ AcceptedAreKnown'
    BY <1>1, <1>3 DEF NothingLost, FollowedUp, AcceptedAreKnown, KnownGoals, Ready
  <1>5. FilterIsAboutNewest'
    BY <1>1, <1>3, CounterIsGoal DEF NothingLost, FilterIsAboutNewest, OnResult
  <1> QED
    BY <1>4, <1>5 DEF NothingLost

LEMMA TakeGoalLosesNothing ==
  ASSUME IndInv, NothingLost, TakeGoal
  PROVE  NothingLost'
  <1> DEFINE g == Head(goal_req)
  <1> DEFINE r == [id |-> g, ok |-> nav = "active"]
  <1>1. 1 \in DOMAIN goal_req /\ g = goal_req[1] /\ g \in GoalIds /\ client[g] = "sent"
    <2>1. goal_req # <<>>
      BY DEF TakeGoal
    <2>2. 1 \in DOMAIN goal_req /\ g = goal_req[1]
      BY <2>1, CounterIsGoal
    <2> QED
      BY <2>2, QueueElements DEF IndInv, RequestsInOrder
  <1>2. /\ Ready /\ goal_req' = Tail(goal_req) /\ goal_resp' = Append(goal_resp, r)
        /\ UNCHANGED <<bridgeVars, target, client, nav>>
    BY DEF TakeGoal
  <1>3. /\ nav = "active" => server'[g] = "active"
        /\ \A h \in GoalIds : h # g => server'[h] = server[h]
                                       \/ (server[h] = "active" /\ server'[h] = "aborted")
    BY <1>1 DEF TakeGoal, IndInv, TypeOK
  <1>4. r \in [id : GoalIds, ok : BOOLEAN] /\ r.id = g /\ (r.ok => nav = "active")
    BY <1>1
  <1> HIDE DEF g, r
  <1>5. /\ \A i \in DOMAIN goal_req : i # 1 =>
             i - 1 \in DOMAIN goal_req' /\ goal_req'[i - 1] = goal_req[i]
    BY <1>1, <1>2, CounterIsGoal
  <1>6. /\ DOMAIN goal_resp' = 1 .. Len(goal_resp) + 1 /\ goal_resp'[Len(goal_resp) + 1] = r
        /\ Len(goal_resp) + 1 \in DOMAIN goal_resp'
        /\ \A i \in DOMAIN goal_resp : i \in DOMAIN goal_resp' /\ goal_resp'[i] = goal_resp[i]
        /\ \A i \in DOMAIN goal_resp' : i # Len(goal_resp) + 1 => i \in DOMAIN goal_resp
    BY <1>2, <1>4, CounterIsGoal
  <1>7. FollowedUp'
    <2> SUFFICES ASSUME NEW h \in GoalIds, client'[h] = "sent"
                 PROVE  \/ \E i \in DOMAIN goal_req' : goal_req'[i] = h
                        \/ \E i \in DOMAIN goal_resp' : goal_resp'[i].id = h
      BY DEF FollowedUp
    <2>1. CASE h = g
      BY <1>4, <1>6, <2>1
    <2>2. ASSUME NEW i \in DOMAIN goal_req, goal_req[i] = h, h # g
          PROVE  \E j \in DOMAIN goal_req' : goal_req'[j] = h
      BY <1>1, <1>5, <2>2
    <2>3. ASSUME NEW i \in DOMAIN goal_resp, goal_resp[i].id = h
          PROVE  \E j \in DOMAIN goal_resp' : goal_resp'[j].id = h
      BY <1>6, <2>3
    <2>4. client[h] = "sent"
      BY <1>2
    <2> QED
      BY <2>1, <2>2, <2>3, <2>4 DEF NothingLost, FollowedUp
  <1>8. AcceptedAreKnown'
    <2>1. \A h \in GoalIds : h # g /\ h \in KnownGoals => h \in KnownGoals'
      BY <1>3 DEF KnownGoals, Terminal
    <2>2. \A i \in DOMAIN goal_resp : goal_resp[i].id \in GoalIds /\ goal_resp[i].id # g
      <3>1. \A i \in DOMAIN goal_resp : goal_resp[i].id < g
        BY <1>1 DEF IndInv, ResponsesInOrder
      <3> QED
        BY <1>1, <3>1, QueueElements DEF IndInv, GoalIds
    <2>3. \A i \in DOMAIN goal_resp' : Ready' /\ (goal_resp'[i].ok => goal_resp'[i].id \in KnownGoals')
      <3> SUFFICES ASSUME NEW i \in DOMAIN goal_resp'
                   PROVE  goal_resp'[i].ok => goal_resp'[i].id \in KnownGoals'
        BY <1>2 DEF Ready
      <3>1. CASE i = Len(goal_resp) + 1
        BY <1>3, <1>4, <1>6, <3>1 DEF KnownGoals
      <3>2. CASE i \in DOMAIN goal_resp
        BY <1>6, <2>1, <2>2, <3>2 DEF NothingLost, AcceptedAreKnown
      <3> QED
        BY <1>6, <3>1, <3>2
    <2>4. \A h \in GoalIds : client'[h] = "accepted" => h \in KnownGoals'
      BY <1>1, <1>2, <2>1 DEF NothingLost, AcceptedAreKnown
    <2> QED
      BY <2>3, <2>4 DEF AcceptedAreKnown
  <1>9. FilterIsAboutNewest'
    BY <1>1, <1>2, <1>3, CounterIsGoal DEF NothingLost, FilterIsAboutNewest, bridgeVars
  <1> QED
    BY <1>7, <1>8, <1>9 DEF NothingLost

(* Steps of the server that touch neither queue.                           *)
LEMMA ServerLosesNothing ==
  ASSUME IndInv, NothingLost, UNCHANGED <<bridgeVars, target, client, goal_req, goal_resp>>,
         \A g \in GoalIds : server'[g] = server[g]
                            \/ (server[g] = "active" /\ server'[g] \in Terminal),
         Ready => Ready'
  PROVE  NothingLost'
  <1>1. \A g \in GoalIds : g \in KnownGoals => g \in KnownGoals'
    BY DEF KnownGoals
  <1>2. AcceptedAreKnown'
    BY <1>1, QueueElements DEF NothingLost, AcceptedAreKnown, IndInv
  <1>3. FollowedUp'
    BY DEF NothingLost, FollowedUp
  <1>4. FilterIsAboutNewest'
    BY CounterIsGoal DEF NothingLost, FilterIsAboutNewest, bridgeVars
  <1> QED
    BY <1>2, <1>3, <1>4 DEF NothingLost

LEMMA FilterStep == FilterInv /\ [Next]_vars => FilterInv'
  <1> SUFFICES ASSUME IndInv, NothingLost, [Next]_vars, crashes' = 0 \/ crashes' = crashes,
                      ~Crash
               PROVE  NothingLost'
    <2>1. FilterInv /\ [Next]_vars => IndInv'
      BY NextKeeps DEF FilterInv
    <2>2. IndInv /\ crashes # 0 /\ [Next]_vars => crashes' # 0
      <3> SUFFICES ASSUME IndInv, crashes # 0, [Next]_vars PROVE crashes' # 0
        OBVIOUS
      <3>1. crashes \in Nat
        BY BoundAssumption DEF IndInv, TypeOK
      <3>2. crashes' = crashes \/ crashes' = crashes + 1
        BY DEF Next, vars, navVars, GoalCallback, GoalIgnored, GoalSent, GoalResponse, GoalResult,
               TakeGoal, TakeCancel, Succeed, Abort, Finish, Configure, Activate, Deactivate, Crash
      <3> QED
        BY <3>1, <3>2
    <2>3. IndInv /\ Crash => crashes' # 0
      BY BoundAssumption DEF IndInv, TypeOK, Crash
    <2> QED
      BY <2>1, <2>2, <2>3 DEF FilterInv
  <1>1. ASSUME NEW p \in Poses, GoalCallback(p) PROVE NothingLost'
    <2>1. CASE GoalIgnored(p)
      BY <2>1, ServerLosesNothing DEF GoalIgnored, navVars, Ready
    <2> QED
      BY <1>1, <2>1, SentLosesNothing DEF GoalCallback
  <1>2. ASSUME NEW g \in GoalIds, TakeCancel(g) PROVE NothingLost'
    <2>1. \A h \in GoalIds : server'[h] = server[h]
                             \/ (server[h] = "active" /\ server'[h] \in Terminal)
      BY <1>2 DEF TakeCancel, IndInv, TypeOK, Terminal
    <2> QED
      BY <1>2, <2>1, ServerLosesNothing DEF TakeCancel, Ready
  <1>3. ASSUME NEW g \in GoalIds, Succeed(g) \/ Abort(g) PROVE NothingLost'
    <2>1. \A h \in GoalIds : server'[h] = server[h]
                             \/ (server[h] = "active" /\ server'[h] \in Terminal)
      BY <1>3 DEF Succeed, Abort, Finish, IndInv, TypeOK, Terminal
    <2> QED
      BY <1>3, <2>1, ServerLosesNothing DEF Succeed, Abort, Finish, Ready
  <1>4. CASE Configure \/ Activate
    BY <1>4, ServerLosesNothing DEF Configure, Activate, Ready
  <1>5. CASE Deactivate
    <2>1. \A h \in GoalIds : server'[h] = server[h]
                             \/ (server[h] = "active" /\ server'[h] \in Terminal)
      BY <1>5 DEF Deactivate, Terminal
    <2> QED
      BY <1>5, <2>1, ServerLosesNothing DEF Deactivate, Ready
  <1>6. CASE UNCHANGED vars
    BY <1>6, ServerLosesNothing DEF vars, navVars, Ready
  <1> QED
    BY <1>1, <1>2, <1>3, <1>4, <1>5, <1>6, ResponseLosesNothing, ResultLosesNothing,
       TakeGoalLosesNothing DEF Next

-----------------------------------------------------------------------------
(* goal_pose_bridge.cpp:13,48,96-98: until the server crashes, a publication   *)
(* is suppressed only while the goal it repeats runs or has been reached.      *)
THEOREM FilterIsHarmless == Spec => []SuppressionIsRedundant
  <1>1. Spec => []FilterInv
    BY FilterInit, FilterStep, PTL DEF Spec
  <1>2. FilterInv => SuppressionIsRedundant
    <2> SUFFICES ASSUME IndInv, NothingLost, have_last_goal, Settled
                 PROVE  /\ server[goal_counter] \in {"active", "succeeded"}
                        /\ target[goal_counter] = last_goal
      BY DEF FilterInv, SuppressionIsRedundant
    <2>1. goal_counter # 0 /\ goal_counter \in GoalIds
      BY CounterIsGoal DEF NothingLost, FilterIsAboutNewest
    <2>2. client[goal_counter] # "sent"
      <3>1. DOMAIN goal_req = {} /\ DOMAIN goal_resp = {}
        BY DEF Settled
      <3> QED
        BY <2>1, <3>1 DEF NothingLost, FollowedUp
    <2> QED
      BY <2>1, <2>2 DEF NothingLost, FilterIsAboutNewest, Settled
  <1> QED
    BY <1>1, <1>2, PTL

-----------------------------------------------------------------------------
(* That the server drives to the pose that was heard last.                 *)

\* The server drives somewhere only while it is up, and to the goal sent last
\* unless that is still on its way; the goal sent last is for the pose the
\* filter remembers.
NewestIsDriven ==
  /\ \A g \in GoalIds : server[g] = "active" =>
       nav = "active" /\ (goal_req = <<>> => g = goal_counter)
  /\ goal_req # <<>> => Ready /\ goal_req[Len(goal_req)] = goal_counter
  /\ have_last_goal => goal_counter # 0
  /\ goal_counter # 0 => target[goal_counter] = last_goal

\* Something was sent that is not over yet.
Driving == goal_req # <<>> \/ \E g \in GoalIds : server[g] = "active"

DrivingInv == NewestIsDriven /\ (Driving => <<target[goal_counter], heard>> \in Near)

(* A pose that is dropped is one the newest goal is for already, or finds  *)
(* the server down, and then nothing is under way.                         *)
LEMMA IgnoredStillDriven ==
  ASSUME IndInv, DrivingInv, NEW p \in Poses, GoalIgnored(p)
  PROVE  DrivingInv'
  <1>1. UNCHANGED <<have_last_goal, last_goal, goal_counter, target, goal_req, server, nav>>
    BY DEF GoalIgnored, bridgeVars, navVars
  <1>2. NewestIsDriven'
    BY <1>1 DEF DrivingInv, NewestIsDriven, Ready
  <1>3. Driving' => <<target[goal_counter], p>> \in Near
    <2>1. CASE IsDuplicate(p)
      BY <2>1 DEF IsDuplicate, DrivingInv, NewestIsDriven
    <2>2. CASE ~Ready
      BY <1>1, <2>2 DEF Ready, Driving, DrivingInv, NewestIsDriven
    <2> QED
      BY <2>1, <2>2 DEF GoalIgnored
  <1> QED
    BY <1>1, <1>2, <1>3 DEF DrivingInv, GoalIgnored

(* A pose that is sent becomes the newest goal.                            *)
LEMMA SentIsDriven ==
  ASSUME IndInv, DrivingInv, NEW p \in Poses, GoalSent(p)
  PROVE  DrivingInv'
  <1> DEFINE n == goal_counter + 1
  <1>1. /\ n \in GoalIds /\ n # 0 /\ goal_req \in Seq(GoalIds)
        /\ target \in [GoalIds -> Poses \cup {NoPose}]
    BY BoundAssumption DEF IndInv, TypeOK, GoalSent, GoalIds
  <1>2. /\ goal_req' # <<>> /\ goal_req'[Len(goal_req')] = n /\ goal_counter' = n
        /\ target'[n] = p /\ last_goal' = p /\ heard' = p /\ server' = server /\ nav' = nav
    BY <1>1 DEF GoalSent, navVars
  <1>3. NewestIsDriven'
    BY <1>1, <1>2 DEF DrivingInv, NewestIsDriven, GoalSent, Ready
  <1>4. <<p, p>> \in Near
    BY NearAssumption
  <1> QED
    BY <1>2, <1>3, <1>4 DEF DrivingInv

(* The server takes the oldest goal: what it drove to before ends, and the *)
(* last goal it takes is the newest.                                       *)
LEMMA TakenIsDriven ==
  ASSUME IndInv, DrivingInv, TakeGoal
  PROVE  DrivingInv'
  <1>1. goal_req \in Seq(GoalIds) /\ goal_req # <<>> /\ goal_req' = Tail(goal_req)
    BY DEF IndInv, TypeOK, TakeGoal
  <1>2. /\ Len(goal_req) \in Nat \ {0} /\ Head(goal_req) = goal_req[1]
        /\ goal_req' = <<>> => Len(goal_req) = 1
        /\ goal_req' # <<>> => goal_req'[Len(goal_req')] = goal_req[Len(goal_req)]
    <2>1. /\ Len(goal_req) \in Nat \ {0} /\ Head(goal_req) = goal_req[1]
          /\ Len(goal_req') = Len(goal_req) - 1
          /\ goal_req' = <<>> <=> Len(goal_req') = 0
          /\ \A i \in 1 .. Len(goal_req') : goal_req'[i] = goal_req[i + 1]
      <3>1. Len(goal_req) \in Nat \ {0} /\ Head(goal_req) = goal_req[1]
        BY <1>1
      <3>2. Len(goal_req') = Len(goal_req) - 1 /\ goal_req' \in Seq(GoalIds)
        BY <1>1
      <3>3. goal_req' = <<>> <=> Len(goal_req') = 0
        BY <3>2, EmptySeq
      <3>4. \A i \in 1 .. Len(goal_req') : goal_req'[i] = goal_req[i + 1]
        BY <1>1, <3>2
      <3> QED
        BY <3>1, <3>2, <3>3, <3>4
    <2>2. goal_req' # <<>> => Len(goal_req') \in 1 .. Len(goal_req')
      BY <2>1
    <2>3. goal_req' # <<>> => goal_req'[Len(goal_req')] = goal_req[Len(goal_req') + 1]
      BY <2>1, <2>2
    <2>4. Len(goal_req') + 1 = Len(goal_req)
      BY <2>1
    <2> QED
      BY <2>1, <2>3, <2>4
  <1>3. /\ UNCHANGED <<have_last_goal, last_goal, goal_counter, target, heard, nav>> /\ Ready
        /\ \A h \in GoalIds : server'[h] = "active" =>
             nav = "active" /\ h = Head(goal_req)
    <2>1. server \in [GoalIds -> {"none", "active", "lost"} \cup Terminal]
      BY DEF IndInv, TypeOK
    <2> QED
      BY <2>1 DEF TakeGoal, bridgeVars, DrivingInv, NewestIsDriven
  <1>4. NewestIsDriven'
    BY <1>1, <1>2, <1>3 DEF DrivingInv, NewestIsDriven, Ready
  <1> QED
    BY <1>1, <1>3, <1>4 DEF DrivingInv, Driving

(* The other steps end goals, or change what is known of them.             *)
LEMMA OthersStillDriven ==
  ASSUME IndInv, DrivingInv, UNCHANGED <<last_goal, goal_counter, target, heard>>,
         goal_req' \in {goal_req, <<>>}, goal_req' # <<>> => Ready',
         have_last_goal' => goal_counter # 0,
         \A g \in GoalIds : server'[g] = "active" =>
           server[g] = "active" /\ nav' = nav /\ goal_req' = goal_req
  PROVE  DrivingInv'
  <1>1. NewestIsDriven'
    BY DEF DrivingInv, NewestIsDriven
  <1>2. Driving' => Driving
    BY DEF Driving
  <1> QED
    BY <1>1, <1>2 DEF DrivingInv

LEMMA DrivingStep == IndInv /\ DrivingInv /\ [Next]_vars => DrivingInv'
  <1> SUFFICES ASSUME IndInv, DrivingInv, [Next]_vars PROVE DrivingInv'
    OBVIOUS
  <1>0. server \in [GoalIds -> {"none", "active", "lost"} \cup Terminal]
    BY DEF IndInv, TypeOK
  <1>1. ASSUME NEW p \in Poses, GoalCallback(p) PROVE DrivingInv'
    BY <1>1, IgnoredStillDriven, SentIsDriven DEF GoalCallback
  <1>2. CASE GoalResponse
    <2>1. Head(goal_resp).id # 0
      <3>1. goal_resp \in Seq([id : GoalIds, ok : BOOLEAN]) /\ goal_resp # <<>>
        BY <1>2 DEF IndInv, TypeOK, GoalResponse
      <3>2. 1 \in DOMAIN goal_resp /\ Head(goal_resp) = goal_resp[1]
        BY <3>1
      <3> QED
        BY <3>2, QueueElements DEF IndInv, GoalIds
    <2>2. have_last_goal' => goal_counter # 0
      <3>1. CASE Head(goal_resp).id = goal_counter
        BY <2>1, <3>1
      <3>2. CASE Head(goal_resp).id # goal_counter
        BY <1>2, <3>2 DEF GoalResponse, OnResponse, DrivingInv, NewestIsDriven
      <3> QED
        BY <3>1, <3>2
    <2> QED
      BY <1>2, <2>2, OthersStillDriven DEF GoalResponse, navVars, Ready, DrivingInv, NewestIsDriven
  <1>3. ASSUME NEW g \in GoalIds, GoalResult(g) PROVE DrivingInv'
    <2>1. have_last_goal' => goal_counter # 0
      BY <1>3 DEF GoalResult, OnResult, DrivingInv, NewestIsDriven
    <2> QED
      BY <1>3, <2>1, OthersStillDriven DEF GoalResult, navVars, Ready, DrivingInv, NewestIsDriven
  <1>4. CASE TakeGoal
    BY <1>4, TakenIsDriven
  <1>5. ASSUME NEW g \in GoalIds, TakeCancel(g) PROVE DrivingInv'
    BY <1>0, <1>5, OthersStillDriven
       DEF TakeCancel, bridgeVars, Ready, DrivingInv, NewestIsDriven
  <1>6. ASSUME NEW g \in GoalIds, Succeed(g) \/ Abort(g) PROVE DrivingInv'
    BY <1>0, <1>6, OthersStillDriven
       DEF Succeed, Abort, Finish, bridgeVars, Ready, DrivingInv, NewestIsDriven
  <1>7. CASE Configure \/ Activate \/ Deactivate
    BY <1>0, <1>7, OthersStillDriven
       DEF Configure, Activate, Deactivate, bridgeVars, Ready, DrivingInv, NewestIsDriven
  <1>8. CASE Crash
    BY <1>0, <1>8, OthersStillDriven DEF Crash, bridgeVars, DrivingInv, NewestIsDriven
  <1>9. CASE UNCHANGED vars
    BY <1>9, OthersStillDriven DEF vars, bridgeVars, navVars, Ready, DrivingInv, NewestIsDriven
  <1> QED
    BY <1>1, <1>2, <1>3, <1>4, <1>5, <1>6, <1>7, <1>8, <1>9 DEF Next

(* goal_pose_bridge.cpp:48-76: once the server has taken every goal, it    *)
(* drives nowhere but to the pose that was published last, up to the       *)
(* tolerance, for any order of answers, failures and crashes of the server.*)
THEOREM DrivesToLastPose == Spec => []DrivesWhereHeard
  <1>1. Init => DrivingInv
    BY DEF Init, DrivingInv, NewestIsDriven, Driving
  <1>2. IndInv /\ DrivingInv => DrivesWhereHeard
    BY DEF DrivingInv, NewestIsDriven, Driving, DrivesWhereHeard
  <1> QED
    BY <1>1, <1>2, DrivingStep, InvariantHolds, PTL DEF Spec

=============================================================================
