------------------------ MODULE RosActionNodeProofs ------------------------
(* That a leaf which sends an action goal of its own owns the only goal that *)
(* is under way, and reports the result of that goal, for any number of      *)
(* goals and failures, as long as every answer comes in time and the process *)
(* survives.                                                                 *)
EXTENDS RosActionNode, SequenceTheorems, TLAPS

-----------------------------------------------------------------------------
(* The inductive invariant.                                                *)

\* Goals not sent yet are unknown to everybody, and no message is about them.
FreshGoals ==
  /\ \A g \in GoalIds : g > sent => client[g] = "none" /\ server[g] = "none"
  /\ \A i \in DOMAIN goal_req : goal_req[i] <= sent
  /\ \A i \in DOMAIN goal_resp : goal_resp[i].id <= sent

KnownGoals == {g \in GoalIds : server[g] \in {"active"} \cup Terminal}

\* The server knows the goals it accepted.
AcceptedAreKnown ==
  /\ \A i \in DOMAIN goal_resp : goal_resp[i].ok => goal_resp[i].id \in KnownGoals
  /\ \A g \in GoalIds : client[g] = "accepted" => g \in KnownGoals

\* Neither the client nor the server has anything left to do for goal g.
Finished(g) == client[g] \notin {"sent", "accepted"} /\ server[g] # "active"

\* Between two executions nothing is under way.
Resting ==
  /\ status = "IDLE"
  /\ goal_req = <<>> /\ goal_resp = <<>>
  /\ \A g \in GoalIds : Finished(g)

\* Three stages of an execution: the request travels, ...
Asked ==
  /\ ~goal_received /\ future_goal_handle = sent
  /\ goal_req = <<sent>> /\ goal_resp = <<>>
  /\ client[sent] = "sent" /\ server[sent] = "none"

\* ... the response travels, ...
AnswerTravels ==
  /\ ~goal_received /\ future_goal_handle = sent
  /\ goal_req = <<>> /\ Len(goal_resp) = 1 /\ goal_resp[1].id = sent
  /\ client[sent] = "sent"
  /\ IF goal_resp[1].ok THEN server[sent] \in {"active", "succeeded", "aborted"}
                        ELSE server[sent] = "none"

\* ... and the goal was accepted.
Driven ==
  /\ goal_received /\ goal_handle = sent
  /\ goal_req = <<>> /\ goal_resp = <<>>
  /\ client[sent] = "accepted" /\ server[sent] \in {"active", "succeeded", "aborted"}

Executing ==
  /\ status = "RUNNING" /\ sent \in GoalIds /\ result = "unknown"
  /\ Asked \/ AnswerTravels \/ Driven
  /\ \A g \in GoalIds : g # sent => Finished(g)

\* No goal is given up, so that no cancel request travels.
OneGoal == alive /\ late = 0 => cancel_req = {} /\ (Resting \/ Executing)

Inv == TypeOK /\ FreshGoals /\ AcceptedAreKnown /\ OneGoal

-----------------------------------------------------------------------------
(* The queues.                                                             *)

Responses == [id : GoalIds, ok : BOOLEAN]

(* The elements and indices of a sequence, and of what is left of it after *)
(* the first n.                                                            *)
LEMMA SeqElements ==
  ASSUME NEW S, NEW s \in Seq(S)
  PROVE  /\ Len(s) \in Nat /\ DOMAIN s = 1 .. Len(s)
         /\ \A i \in DOMAIN s : s[i] \in S
  OBVIOUS

LEMMA RestElements ==
  ASSUME NEW S, NEW s \in Seq(S), NEW n \in 0 .. Len(s)
  PROVE  LET rest == SubSeq(s, n + 1, Len(s))
         IN  /\ rest \in Seq(S)
             /\ \A i \in DOMAIN rest : n + i \in DOMAIN s /\ rest[i] = s[n + i]
  <1> DEFINE rest == SubSeq(s, n + 1, Len(s))
  <1>1. Len(s) \in Nat
    BY SeqElements
  <1>2. \A i \in n + 1 .. Len(s) : s[i] \in S
    BY SeqElements
  <1>3. /\ rest \in Seq(S)
        /\ Len(rest) = IF n + 1 <= Len(s) THEN Len(s) - (n + 1) + 1 ELSE 0
        /\ \A i \in 1 .. Len(s) - (n + 1) + 1 : rest[i] = s[n + 1 + i - 1]
    BY <1>1, <1>2, SubSeqProperties
  <1> HIDE DEF rest
  <1>4. Len(rest) = IF n + 1 <= Len(s) THEN Len(s) - (n + 1) + 1 ELSE 0
    BY <1>3
  <1>5. Len(rest) = Len(s) - n
    BY <1>1, <1>4
  <1>6. DOMAIN rest = 1 .. Len(s) - n
    BY <1>3, <1>5, SeqElements
  <1>7. Len(s) - (n + 1) + 1 = Len(s) - n /\ \A i \in 1 .. Len(s) - n : n + 1 + i - 1 = n + i
    BY <1>1
  <1>8. \A i \in DOMAIN rest : n + i \in DOMAIN s
    BY <1>1, <1>6
  <1> QED
    BY <1>3, <1>6, <1>7, <1>8 DEF rest

(* What the client knows after n responses and some results: every goal it *)
(* holds for accepted is known to the server.                              *)
LEMMA ToldIsKnown ==
  ASSUME TypeOK, FreshGoals, AcceptedAreKnown,
         NEW n \in 0 .. Len(goal_resp), NEW done \in SUBSET Arrived
  PROVE  /\ Told(n, done) \in [GoalIds -> {"none", "sent", "accepted", "rejected", "done"}]
         /\ \A g \in GoalIds : g > sent => Told(n, done)[g] = "none"
         /\ \A g \in GoalIds : Told(n, done)[g] = "accepted" => g \in KnownGoals
  <1>1. goal_resp \in Seq(Responses) /\ sent \in Nat
    BY BoundAssumption DEF TypeOK, Responses
  <1>2. \A i \in 1 .. n : i \in DOMAIN goal_resp /\ goal_resp[i] \in Responses
    BY <1>1, SeqElements
  <1> SUFFICES ASSUME NEW g \in GoalIds
               PROVE  /\ Told(n, done)[g] \in {"none", "sent", "accepted", "rejected", "done"}
                      /\ g > sent => Told(n, done)[g] = "none"
                      /\ Told(n, done)[g] = "accepted" => g \in KnownGoals
    BY Zenon DEF Told
  <1> DEFINE hit(i) == goal_resp[i].id = g
             at == CHOOSE i \in 1 .. n : hit(i)
  <1>3. Told(n, done)[g] = IF g \in done THEN "done"
                           ELSE IF \E i \in 1 .. n : hit(i) THEN Answer(goal_resp[at])
                           ELSE client[g]
    BY DEF Told
  <1>4. g \in done => client[g] = "accepted"
    BY DEF Arrived
  <1>5. CASE g \in done
    BY <1>3, <1>4, <1>5 DEF FreshGoals
  <1>6. CASE g \notin done /\ \E i \in 1 .. n : hit(i)
    <2>1. at \in 1 .. n /\ hit(at)
      BY <1>6
    <2>2. at \in DOMAIN goal_resp /\ goal_resp[at].id = g /\ goal_resp[at].ok \in BOOLEAN
      BY <1>2, <2>1 DEF Responses
    <2>3. g <= sent /\ (goal_resp[at].ok => g \in KnownGoals)
      BY <2>2 DEF FreshGoals, AcceptedAreKnown
    <2>4. Told(n, done)[g] = IF goal_resp[at].ok THEN "accepted" ELSE "rejected"
      BY <1>3, <1>6 DEF Answer
    <2> QED
      BY <1>1, <2>3, <2>4 DEF GoalIds
  <1>7. CASE g \notin done /\ ~\E i \in 1 .. n : hit(i)
    BY <1>3, <1>7 DEF TypeOK, FreshGoals, AcceptedAreKnown
  <1> QED
    BY <1>5, <1>6, <1>7

-----------------------------------------------------------------------------
LEMMA InitEstablishes == Init => Inv
  <1> SUFFICES ASSUME Init PROVE Inv
    OBVIOUS
  <1> USE BoundAssumption DEF Init, GoalIds, NoHandle
  <1>1. TypeOK
    <2>1. goal_req \in Seq(GoalIds) /\ goal_resp \in Seq([id : GoalIds, ok : BOOLEAN])
      OBVIOUS
    <2>2. /\ client \in [GoalIds -> {"none", "sent", "accepted", "rejected", "done"}]
          /\ server \in [GoalIds -> {"none", "active"} \cup Terminal]
      OBVIOUS
    <2>3. sent \in 0 .. MaxGoals /\ faults \in 0 .. MaxFaults /\ late \in 0 .. MaxLate
      OBVIOUS
    <2> QED
      BY <2>1, <2>2, <2>3 DEF TypeOK
  <1>2. FreshGoals /\ AcceptedAreKnown
    BY DEF FreshGoals, AcceptedAreKnown
  <1>3. OneGoal
    BY DEF OneGoal, Resting, Finished
  <1> QED
    BY <1>1, <1>2, <1>3 DEF Inv

(* Facts about the queues and counters that most steps need.               *)
LEMMA QueueElements ==
  ASSUME TypeOK
  PROVE  /\ sent \in Nat /\ late \in Nat /\ (sent # 0 => sent \in GoalIds)
         /\ goal_req \in Seq(GoalIds) /\ goal_resp \in Seq(Responses)
         /\ Len(goal_req) \in Nat /\ DOMAIN goal_req = 1 .. Len(goal_req)
         /\ Len(goal_resp) \in Nat /\ DOMAIN goal_resp = 1 .. Len(goal_resp)
         /\ \A i \in DOMAIN goal_req : goal_req[i] \in GoalIds
         /\ \A i \in DOMAIN goal_resp : goal_resp[i].id \in GoalIds /\ goal_resp[i].ok \in BOOLEAN
  <1>1. /\ sent \in 0 .. MaxGoals /\ late \in 0 .. MaxLate
        /\ goal_req \in Seq(GoalIds) /\ goal_resp \in Seq(Responses)
    BY DEF TypeOK, Responses
  <1>2. sent \in Nat /\ late \in Nat /\ (sent # 0 => sent \in GoalIds)
    BY <1>1, BoundAssumption DEF GoalIds
  <1>3. /\ Len(goal_req) \in Nat /\ DOMAIN goal_req = 1 .. Len(goal_req)
        /\ \A i \in DOMAIN goal_req : goal_req[i] \in GoalIds
    BY <1>1, SeqElements
  <1>4. /\ Len(goal_resp) \in Nat /\ DOMAIN goal_resp = 1 .. Len(goal_resp)
        /\ \A i \in DOMAIN goal_resp : goal_resp[i] \in Responses
    BY <1>1, SeqElements
  <1>5. \A i \in DOMAIN goal_resp : goal_resp[i].id \in GoalIds /\ goal_resp[i].ok \in BOOLEAN
    BY <1>4 DEF Responses
  <1> QED
    BY <1>1, <1>2, <1>3, <1>4, <1>5

(* The first tick (:244-321): the goal that is sent is new to everybody.   *)
LEMMA SendsKeeps ==
  ASSUME Inv, Start, StartSends
  PROVE  Inv'
  <1> DEFINE n == sent + 1
  <1> USE DEF Start, StartSends, Send, Reset, serverVars
  <1>0. sent \in Nat /\ MaxGoals \in Nat
    BY BoundAssumption, QueueElements DEF Inv
  <1>1. /\ n \in GoalIds /\ n \in Nat /\ sent \in Nat /\ sent' = n
        /\ client[n] = "none" /\ server[n] = "none" /\ server' = server
    BY <1>0 DEF Inv, FreshGoals, GoalIds
  <1>2. /\ goal_req' \in Seq(GoalIds) /\ Len(goal_req') = Len(goal_req) + 1
        /\ \A i \in 1 .. Len(goal_req) : goal_req'[i] = goal_req[i]
        /\ goal_req'[Len(goal_req) + 1] = n
    BY <1>1, QueueElements DEF Inv
  <1>3. TypeOK'
    <2>1. sent' \in 0 .. MaxGoals
      BY <1>0, <1>1 DEF GoalIds
    <2>2. client' \in [GoalIds -> {"none", "sent", "accepted", "rejected", "done"}]
      BY <1>1 DEF Inv, TypeOK
    <2> QED
      BY <1>1, <1>2, <2>1, <2>2 DEF Inv, TypeOK
  <1>4. FreshGoals'
    <2>1. ASSUME NEW i \in DOMAIN goal_req' PROVE goal_req'[i] <= n
      <3>1. CASE i = Len(goal_req) + 1
        BY <1>1, <1>2, <3>1
      <3>2. CASE i \in 1 .. Len(goal_req)
        <4>1. goal_req[i] \in GoalIds /\ goal_req[i] <= sent
          BY <3>2, QueueElements DEF Inv, FreshGoals
        <4> QED
          BY <1>1, <1>2, <3>2, <4>1 DEF GoalIds
      <3>3. DOMAIN goal_req' = 1 .. Len(goal_req) + 1
        BY <1>2, SeqElements
      <3>4. Len(goal_req) \in Nat
        BY QueueElements DEF Inv
      <3> QED
        BY <3>1, <3>2, <3>3, <3>4
    <2>2. ASSUME NEW i \in DOMAIN goal_resp PROVE goal_resp[i].id <= n
      <3>1. goal_resp[i].id \in GoalIds /\ goal_resp[i].id <= sent
        BY QueueElements DEF Inv, FreshGoals
      <3> QED
        BY <1>1, <3>1 DEF GoalIds
    <2>3. ASSUME NEW g \in GoalIds, g > n PROVE client'[g] = "none" /\ server'[g] = "none"
      BY <1>1, <2>3 DEF Inv, FreshGoals, TypeOK, GoalIds
    <2> QED
      BY <1>1, <2>1, <2>2, <2>3 DEF FreshGoals
  <1>5. AcceptedAreKnown'
    <2>1. KnownGoals' = KnownGoals
      BY <1>1 DEF KnownGoals
    <2> QED
      BY <1>1, <2>1 DEF Inv, AcceptedAreKnown, TypeOK
  <1>6. OneGoal'
    <2> SUFFICES ASSUME alive, late = 0
                 PROVE  cancel_req = {} /\ Executing'
      BY DEF OneGoal
    <2>1. cancel_req = {} /\ Resting
      BY DEF Inv, OneGoal, Executing
    <2>2. goal_req' = <<n>> /\ goal_resp' = <<>>
      BY <2>1 DEF Resting
    <2>3. \A g \in GoalIds : g # n => Finished(g)'
      BY <1>1, <2>1 DEF Resting, Finished, Inv, TypeOK
    <2>4. client'[n] = "sent" /\ future_goal_handle' = n /\ ~goal_received'
      BY <1>1 DEF Inv, TypeOK
    <2>5. Asked'
      BY <1>1, <2>2, <2>4 DEF Asked
    <2> QED
      BY <1>1, <2>1, <2>3, <2>5 DEF Executing
  <1> QED
    BY <1>3, <1>4, <1>5, <1>6 DEF Inv

LEMMA StartKeeps ==
  ASSUME Inv, Start
  PROVE  Inv'
  <1>1. CASE StartFails
    BY <1>1 DEF Start, StartFails, Reset, clientVars, serverVars, Inv, TypeOK, FreshGoals,
                AcceptedAreKnown, KnownGoals, OneGoal, Resting, Executing, Finished, NoHandle
  <1> QED
    BY <1>1, SendsKeeps DEF Start

-----------------------------------------------------------------------------
(* The later ticks.                                                        *)

(* Only an answer that takes too long counts.                              *)
LEMMA LateGrows ==
  ASSUME TypeOK, TooLate
  PROVE  late' \in 0 .. MaxLate /\ late' # 0
  BY BoundAssumption DEF TooLate, TypeOK

LEMMA PollIsLateOnce ==
  ASSUME TypeOK, NEW n, NEW done, Poll(n, done)
  PROVE  UNCHANGED late \/ TooLate
  BY DEF Poll, PollUsesNull, PollWaits, PollRejected, PollRunning

(* Whatever is handled, the types hold and nothing is heard of a goal that *)
(* was not sent.                                                           *)
LEMMA PollKeepsTypes ==
  ASSUME TypeOK, FreshGoals, AcceptedAreKnown,
         NEW n \in 0 .. Len(goal_resp), NEW done \in SUBSET Arrived, Poll(n, done)
  PROVE  TypeOK' /\ FreshGoals' /\ AcceptedAreKnown'
  <1>1. /\ goal_resp' \in Seq(Responses)
        /\ \A i \in DOMAIN goal_resp' : n + i \in DOMAIN goal_resp /\ goal_resp'[i] = goal_resp[n + i]
    BY QueueElements, RestElements DEF Poll
  <1>2. UNCHANGED <<sent, goal_req, cancel_req, server, nav, faults>> /\ client' = Told(n, done)
    BY DEF Poll, serverVars
  <1>3. goal_handle \in done => Noted(done) \in Terminal
    BY DEF Noted, Arrived
  <1>4. result' \in Terminal \cup {"unknown"}
    BY <1>3 DEF TypeOK, Poll, PollUsesNull, PollWaits, PollRejected, PollRunning, Noted
  <1>5. /\ status' \in {"IDLE", "RUNNING"} /\ goal_received' \in BOOLEAN /\ alive' \in BOOLEAN
        /\ outcome' \in {"none", "RUNNING", "SUCCESS", "FAILURE", "halted"}
        /\ {future_goal_handle', goal_handle'} \subseteq GoalIds \cup {NoHandle}
    BY DEF TypeOK, Poll, PollUsesNull, PollWaits, PollRejected, PollRunning
  <1>6. late' \in 0 .. MaxLate
    BY PollIsLateOnce, LateGrows DEF TypeOK
  <1>7. TypeOK'
    BY <1>1, <1>2, <1>4, <1>5, <1>6, ToldIsKnown DEF TypeOK, Responses
  <1>8. FreshGoals'
    BY <1>1, <1>2, ToldIsKnown DEF FreshGoals
  <1>9. AcceptedAreKnown'
    <2>1. KnownGoals' = KnownGoals
      BY <1>2 DEF KnownGoals
    <2> QED
      BY <1>1, <1>2, <2>1, ToldIsKnown DEF AcceptedAreKnown
  <1> QED
    BY <1>7, <1>8, <1>9

(* The request travels: there is nothing to handle.                        *)
LEMMA PollAsked ==
  ASSUME Inv, alive, late = 0, Executing, Asked,
         NEW n \in 0 .. Len(goal_resp), NEW done \in SUBSET Arrived, Poll(n, done), late' = 0
  PROVE  Executing' /\ status' = "RUNNING"
  <1>1. n = 0 /\ done = {}
    BY DEF Asked, Arrived, Executing, Finished
  <1>2. client' = client
    BY <1>1 DEF Poll, Told, Inv, TypeOK
  <1>3. goal_resp' = <<>> /\ UNCHANGED <<sent, goal_req, cancel_req, server>>
    BY <1>1 DEF Poll, serverVars, Asked
  <1>4. ResponseNow = "sent"
    BY <1>2 DEF ResponseNow, Asked, Executing, GoalIds, NoHandle
  <1>5. UNCHANGED <<status, result, goal_received, future_goal_handle>>
    <2>1. ~TooLate
      BY LateGrows DEF Inv
    <2>2. PollWaits({})
      BY <1>1, <1>4 DEF Poll, PollUsesNull, PollRejected, PollRunning, Asked
    <2> QED
      BY <2>1, <2>2 DEF PollWaits, Noted
  <1> QED
    BY <1>2, <1>3, <1>5 DEF Executing, Asked, Finished

(* The response travels: it is handled now or later.                       *)
LEMMA PollAnswered ==
  ASSUME Inv, alive, late = 0, Executing, AnswerTravels,
         NEW n \in 0 .. Len(goal_resp), NEW done \in SUBSET Arrived, Poll(n, done), late' = 0
  PROVE  IF status' = "IDLE"
         THEN Resting' /\ outcome' = "FAILURE" /\ server[sent] = "none"
         ELSE Executing'
  <1>0. /\ sent \in GoalIds /\ sent # NoHandle /\ n \in {0, 1} /\ done = {}
        /\ goal_resp[1].ok \in BOOLEAN
    BY QueueElements DEF AnswerTravels, Executing, Arrived, Finished, GoalIds, NoHandle, Inv
  <1>1. UNCHANGED <<sent, goal_req, cancel_req, server>>
    BY DEF Poll, serverVars
  <1>2. CASE n = 0
    <2>1. client' = client
      BY <1>0, <1>2 DEF Poll, Told, Inv, TypeOK
    <2>2. goal_resp' = goal_resp
      BY <1>2, QueueElements, SubSeqFull DEF Poll, Inv
    <2>3. ResponseNow = "sent"
      BY <1>0, <2>1 DEF ResponseNow, AnswerTravels
    <2>4. UNCHANGED <<status, result, goal_received, future_goal_handle>>
      <3>1. ~TooLate
        BY LateGrows DEF Inv
      <3>2. PollWaits({})
        BY <1>0, <2>3 DEF Poll, PollUsesNull, PollRejected, PollRunning, AnswerTravels
      <3> QED
        BY <3>1, <3>2 DEF PollWaits, Noted
    <2> QED
      BY <1>1, <2>1, <2>2, <2>4 DEF Executing, AnswerTravels, Finished
  <1>3. CASE n = 1
    <2>1. client' = [client EXCEPT ![sent] = Answer(goal_resp[1])]
      <3>1. client' = Told(1, {})
        BY <1>0, <1>3 DEF Poll
      <3>2. \A i \in 1 .. 1 : i = 1
        OBVIOUS
      <3>3. ASSUME NEW g \in GoalIds
            PROVE  Told(1, {})[g] = IF g = sent THEN Answer(goal_resp[1]) ELSE client[g]
        <4>1. (\E i \in 1 .. 1 : goal_resp[i].id = g) <=> g = sent
          BY <3>2 DEF AnswerTravels
        <4>2. g = sent => (CHOOSE i \in 1 .. 1 : goal_resp[i].id = g) = 1
          BY <3>2 DEF AnswerTravels
        <4> QED
          BY <4>1, <4>2 DEF Told
      <3> QED
        BY <1>0, <3>1, <3>3 DEF Told, Inv, TypeOK
    <2>2. goal_resp' = <<>>
      BY <1>3, QueueElements, SubSeqEmpty DEF Poll, Inv, AnswerTravels
    <2>3. ResponseNow = Answer(goal_resp[1])
      BY <1>0, <2>1 DEF ResponseNow, AnswerTravels, Inv, TypeOK
    <2>4. CASE goal_resp[1].ok
      <3>1. ResponseNow = "accepted"
        BY <2>3, <2>4 DEF Answer
      <3>2. goal_received' /\ goal_handle' = sent /\ UNCHANGED <<result, status>>
        BY <1>0, <3>1 DEF Poll, PollUsesNull, PollWaits, PollRejected, PollRunning, Noted,
                          AnswerTravels, Executing
      <3>3. client'[sent] = "accepted" /\ \A g \in GoalIds : g # sent => client'[g] = client[g]
        BY <1>0, <2>1, <2>4 DEF Answer, Inv, TypeOK
      <3>4. Driven'
        BY <1>1, <2>2, <2>4, <3>2, <3>3 DEF Driven, AnswerTravels
      <3> QED
        BY <1>0, <1>1, <3>2, <3>3, <3>4 DEF Executing, Finished
    <2>5. CASE ~goal_resp[1].ok
      <3>1. ResponseNow = "rejected"
        BY <2>3, <2>5 DEF Answer
      <3>2. status' = "IDLE" /\ outcome' = "FAILURE"
        BY <1>0, <3>1 DEF Poll, PollUsesNull, PollWaits, PollRejected, PollRunning, Noted,
                          AnswerTravels, Executing
      <3>3. client'[sent] = "rejected" /\ \A g \in GoalIds : g # sent => client'[g] = client[g]
        BY <1>0, <2>1, <2>5 DEF Answer, Inv, TypeOK
      <3>4. server[sent] = "none"
        BY <2>5 DEF AnswerTravels
      <3>5. Resting'
        BY <1>1, <2>2, <3>2, <3>3, <3>4 DEF Resting, Finished, Executing, AnswerTravels
      <3> QED
        BY <3>2, <3>4, <3>5
    <2> QED
      BY <1>0, <2>4, <2>5
  <1> QED
    BY <1>0, <1>2, <1>3

(* The goal was accepted: its result, once it is handled, is reported.     *)
LEMMA PollDriven ==
  ASSUME Inv, alive, late = 0, Executing, Driven,
         NEW n \in 0 .. Len(goal_resp), NEW done \in SUBSET Arrived, Poll(n, done), late' = 0
  PROVE  IF status' = "IDLE"
         THEN /\ Resting'
              /\ IF outcome' = "SUCCESS" THEN server[sent] = "succeeded" ELSE server[sent] = "aborted"
         ELSE Executing'
  <1>0. /\ sent \in GoalIds /\ sent # NoHandle /\ n = 0 /\ done \subseteq {sent}
        /\ server[sent] \in {"active", "succeeded", "aborted"}
    BY QueueElements DEF Driven, Executing, Arrived, Finished, GoalIds, NoHandle, Inv
  <1>1. goal_resp' = <<>> /\ UNCHANGED <<sent, goal_req, cancel_req, server>>
    BY <1>0 DEF Poll, serverVars, Driven
  <1>2. client' = [g \in GoalIds |-> IF g \in done THEN "done" ELSE client[g]]
    BY <1>0 DEF Poll, Told
  <1>3. PollRunning(done)
    BY <1>0 DEF Poll, PollUsesNull, PollWaits, PollRejected, Driven
  <1>4. goal_received' /\ goal_handle' = sent
    BY <1>3 DEF PollRunning, Driven
  <1>5. CASE done = {}
    <2>1. UNCHANGED <<result, status>>
      BY <1>3, <1>5 DEF PollRunning, Noted, Executing
    <2>2. \A g \in GoalIds : client'[g] = client[g]
      BY <1>2, <1>5
    <2> QED
      BY <1>0, <1>1, <1>4, <2>1, <2>2 DEF Executing, Driven, Finished
  <1>6. CASE done = {sent}
    <2>1. result' = server[sent] /\ server[sent] \in {"succeeded", "aborted"}
      BY <1>0, <1>3, <1>6 DEF PollRunning, Noted, Driven, Arrived, Terminal
    <2>2. /\ status' = "IDLE"
          /\ outcome' = IF server[sent] = "succeeded" THEN "SUCCESS" ELSE "FAILURE"
      BY <1>3, <2>1 DEF PollRunning
    <2>3. Resting'
      BY <1>0, <1>1, <1>2, <1>6, <2>1, <2>2 DEF Resting, Finished, Executing, Driven
    <2> QED
      BY <2>1, <2>2, <2>3
  <1> QED
    BY <1>0, <1>5, <1>6

(* tick (:324-406) with every answer in time: the leaf goes on, or ends    *)
(* with what became of the goal it sent.                                   *)
LEMMA PollInTime ==
  ASSUME Inv, NEW n \in 0 .. Len(goal_resp), NEW done \in SUBSET Arrived, Poll(n, done), late' = 0
  PROVE  /\ alive' => cancel_req' = {} /\ (Resting' \/ Executing')
         /\ status' = "IDLE" => IF outcome' = "SUCCESS" THEN server[sent] = "succeeded"
                                                       ELSE server[sent] \in {"none", "aborted"}
  <1>1. late = 0 /\ alive /\ status = "RUNNING"
    BY PollIsLateOnce, LateGrows DEF Inv, Poll
  <1>2. cancel_req = {} /\ cancel_req' = {} /\ Executing
    BY <1>1 DEF Inv, OneGoal, Resting, Poll
  <1> QED
    BY <1>1, <1>2, PollAsked, PollAnswered, PollDriven DEF Executing

LEMMA PollKeeps ==
  ASSUME Inv, NEW n \in 0 .. Len(goal_resp), NEW done \in SUBSET Arrived, Poll(n, done)
  PROVE  Inv'
  BY PollKeepsTypes, PollInTime DEF Inv, OneGoal

-----------------------------------------------------------------------------
(* halt.                                                                   *)

\* What the client may be told, whatever it knew.
MayKnow(told) ==
  /\ told \in [GoalIds -> {"none", "sent", "accepted", "rejected", "done"}]
  /\ \A g \in GoalIds : g > sent => told[g] = "none"
  /\ \A g \in GoalIds : told[g] = "accepted" => g \in KnownGoals

(* cancelGoal (:526-573): a goal the server knows is cancelled.            *)
LEMMA CancelKeepsTypes ==
  ASSUME TypeOK, FreshGoals, NEW told, MayKnow(told),
         NEW g \in KnownGoals, g <= sent, Cancel(g, told), UNCHANGED sent
  PROVE  /\ MayKnow(client)' /\ server' \in [GoalIds -> {"none", "active"} \cup Terminal]
         /\ \A h \in GoalIds : h > sent => server'[h] = "none"
         /\ KnownGoals \subseteq KnownGoals'
         /\ cancel_req' \in SUBSET GoalIds
         /\ result' \in Terminal \cup {"unknown"} /\ late' \in 0 .. MaxLate
         /\ late' = 0 => /\ UNCHANGED cancel_req /\ client' = [told EXCEPT ![g] = "done"]
                         /\ server'[g] # "active"
                         /\ \A h \in GoalIds : h # g => server'[h] = server[h]
  <1>1. g \in GoalIds /\ server[g] \in {"active"} \cup Terminal /\ sent \in Nat /\ g \in Nat
    BY QueueElements DEF KnownGoals, GoalIds
  <1>2. CASE UNCHANGED <<cancel_req, late>> /\ client' = [told EXCEPT ![g] = "done"]
             /\ server' = [server EXCEPT ![g] = IF @ = "active" THEN "canceled" ELSE @]
             /\ result' = server'[g]
    <2>1. /\ server' \in [GoalIds -> {"none", "active"} \cup Terminal]
          /\ server'[g] \in Terminal /\ \A h \in GoalIds : h # g => server'[h] = server[h]
      BY <1>1, <1>2 DEF TypeOK, Terminal
    <2>2. \A h \in GoalIds : h > sent => h # g
      BY <1>1 DEF GoalIds
    <2>3. KnownGoals \subseteq KnownGoals'
      BY <2>1 DEF KnownGoals
    <2>4. MayKnow(client)'
      BY <1>1, <1>2, <2>2, <2>3 DEF MayKnow
    <2> QED
      BY <1>2, <2>1, <2>2, <2>3, <2>4 DEF TypeOK, FreshGoals, Terminal
  <1>3. CASE TooLate /\ cancel_req' = cancel_req \cup {g} /\ client' = told
             /\ UNCHANGED <<server, result>>
    <2>1. KnownGoals' = KnownGoals
      BY <1>3 DEF KnownGoals
    <2> QED
      BY <1>1, <1>3, <2>1, LateGrows DEF MayKnow, TypeOK, FreshGoals
  <1> QED
    BY <1>2, <1>3 DEF Cancel

LEMMA HaltCancelsKeeps ==
  ASSUME Inv, alive, status = "RUNNING", HaltCancels, UNCHANGED goal_received
  PROVE  Inv'
  <1>1. goal_handle \in GoalIds /\ goal_handle \in KnownGoals /\ goal_handle <= sent
    <2>1. goal_handle \in GoalIds /\ client[goal_handle] # "none"
      BY DEF HaltCancels, Inv, TypeOK
    <2> QED
      BY <2>1, QueueElements DEF HaltCancels, Inv, FreshGoals, AcceptedAreKnown, GoalIds
  <1>2. MayKnow(client)
    BY DEF MayKnow, Inv, TypeOK, FreshGoals, AcceptedAreKnown
  <1>3. Cancel(goal_handle, client) /\ UNCHANGED <<sent, goal_req, goal_resp, nav, faults, alive,
                                                   future_goal_handle, goal_handle>>
        /\ status' = "IDLE" /\ outcome' = "halted"
    BY DEF HaltCancels
  <1>4. TypeOK'
    BY <1>1, <1>2, <1>3, CancelKeepsTypes DEF Inv, TypeOK, MayKnow
  <1>5. FreshGoals' /\ AcceptedAreKnown'
    BY <1>1, <1>2, <1>3, CancelKeepsTypes DEF Inv, FreshGoals, AcceptedAreKnown, MayKnow
  <1>6. OneGoal'
    <2> SUFFICES ASSUME late' = 0 PROVE cancel_req' = {} /\ Resting'
      BY DEF OneGoal
    <2>1. late = 0
      BY LateGrows DEF Inv, HaltCancels, Cancel
    <2>2. cancel_req = {} /\ Executing
      BY <2>1 DEF Inv, OneGoal, Resting
    <2>3. goal_handle = sent /\ Driven
      BY <1>1, <2>2 DEF Executing, Asked, AnswerTravels, Driven, Finished, HaltCancels
    <2>4. /\ cancel_req' = {} /\ client' = [client EXCEPT ![sent] = "done"]
          /\ server'[sent] # "active" /\ \A h \in GoalIds : h # sent => server'[h] = server[h]
      BY <1>1, <1>2, <1>3, <2>2, <2>3, CancelKeepsTypes DEF Inv
    <2>5. \A h \in GoalIds : Finished(h)'
      BY <2>2, <2>4 DEF Executing, Finished, Inv, TypeOK
    <2> QED
      BY <1>3, <2>3, <2>4, <2>5 DEF Resting, Driven
  <1> QED
    BY <1>4, <1>5, <1>6 DEF Inv

(* The wait for the handle (:533-548).                                     *)
LEMMA HaltTakesHandleKeeps ==
  ASSUME Inv, alive, status = "RUNNING", HaltTakesHandle, UNCHANGED goal_received
  PROVE  Inv'
  <1> DEFINE g == future_goal_handle
  <1>1. PICK i \in DOMAIN goal_resp :
          /\ goal_resp[i].id = g /\ goal_resp[i].ok
          /\ goal_resp' = SubSeq(goal_resp, i + 1, Len(goal_resp))
          /\ Cancel(g, Told(i, {}))
    BY DEF HaltTakesHandle
  <1>2. i \in 0 .. Len(goal_resp) /\ i \in 1 .. Len(goal_resp) /\ {} \in SUBSET Arrived
    BY QueueElements DEF Inv
  <1>3. g \in GoalIds /\ g \in KnownGoals /\ g <= sent
    BY <1>1, QueueElements DEF Inv, FreshGoals, AcceptedAreKnown
  <1>4. MayKnow(Told(i, {}))
    BY <1>2, ToldIsKnown DEF MayKnow, Inv
  <1>5. UNCHANGED <<sent, goal_req, nav, faults, alive>> /\ status' = "IDLE" /\ outcome' = "halted"
        /\ goal_handle' = g /\ future_goal_handle' = NoHandle
    BY DEF HaltTakesHandle
  <1>6. /\ goal_resp' \in Seq(Responses)
        /\ \A j \in DOMAIN goal_resp' : i + j \in DOMAIN goal_resp /\ goal_resp'[j] = goal_resp[i + j]
    BY <1>1, <1>2, QueueElements, RestElements DEF Inv
  <1>7. TypeOK'
    BY <1>1, <1>3, <1>4, <1>5, <1>6, CancelKeepsTypes DEF Inv, TypeOK, MayKnow, Responses
  <1>8. FreshGoals' /\ AcceptedAreKnown'
    <2>1. /\ MayKnow(client)' /\ KnownGoals \subseteq KnownGoals'
          /\ \A h \in GoalIds : h > sent => server'[h] = "none"
      BY <1>1, <1>3, <1>4, <1>5, CancelKeepsTypes DEF Inv
    <2>2. \A j \in DOMAIN goal_resp' : goal_resp'[j].id <= sent
      BY <1>6 DEF Inv, FreshGoals
    <2>3. \A j \in DOMAIN goal_resp' : goal_resp'[j].ok => goal_resp'[j].id \in KnownGoals'
      BY <1>6, <2>1 DEF Inv, AcceptedAreKnown
    <2>4. FreshGoals'
      BY <1>5, <2>1, <2>2 DEF Inv, FreshGoals, MayKnow
    <2> QED
      BY <2>1, <2>3, <2>4 DEF AcceptedAreKnown, MayKnow
  <1>9. OneGoal'
    <2> SUFFICES ASSUME late' = 0 PROVE cancel_req' = {} /\ Resting'
      BY DEF OneGoal
    <2>1. late = 0
      BY <1>1, LateGrows DEF Inv, Cancel
    <2>2. cancel_req = {} /\ Executing
      BY <2>1 DEF Inv, OneGoal, Resting
    <2>3. Len(goal_resp) = 1 /\ AnswerTravels /\ i = 1 /\ g = sent
      BY <1>2, <2>2 DEF Executing, Asked, AnswerTravels, Driven
    <2>4. goal_resp' = <<>>
      BY <1>1, <2>3, QueueElements, SubSeqEmpty DEF Inv
    <2>5. /\ cancel_req' = {} /\ client' = [Told(1, {}) EXCEPT ![sent] = "done"]
          /\ server'[sent] # "active" /\ \A h \in GoalIds : h # sent => server'[h] = server[h]
      BY <1>1, <1>3, <1>4, <1>5, <2>2, <2>3, CancelKeepsTypes DEF Inv
    <2>6. \A h \in GoalIds : h # sent => client'[h] = client[h]
      <3>1. \A h \in GoalIds : h # sent => Told(1, {})[h] = client[h]
        <4>1. \A k \in 1 .. 1 : k = 1
          OBVIOUS
        <4> QED
          BY <2>3, <4>1 DEF Told, AnswerTravels
      <3> QED
        BY <1>4, <2>3, <2>5, <3>1 DEF MayKnow
    <2>7. client'[sent] = "done"
      BY <1>3, <1>4, <2>3, <2>5 DEF MayKnow
    <2>8. \A h \in GoalIds : Finished(h)'
      BY <2>2, <2>5, <2>6, <2>7 DEF Executing, Finished
    <2> QED
      BY <1>5, <2>3, <2>4, <2>5, <2>8 DEF Resting, AnswerTravels
  <1> QED
    BY <1>7, <1>8, <1>9 DEF Inv

LEMMA HaltKeeps ==
  ASSUME Inv, Halt
  PROVE  Inv'
  <1>1. CASE HaltThrows \/ HaltUsesNull
    BY <1>1 DEF Halt, HaltThrows, HaltUsesNull, clientVars, serverVars, Inv, TypeOK, FreshGoals,
                AcceptedAreKnown, KnownGoals, OneGoal
  <1>2. CASE HaltGivesUp
    <2>1. late' \in 0 .. MaxLate /\ late' # 0
      BY <1>2, LateGrows DEF Inv, HaltGivesUp
    <2> QED
      BY <1>2, <2>1 DEF Halt, HaltGivesUp, clientVars, serverVars, Inv, TypeOK, FreshGoals,
                        AcceptedAreKnown, KnownGoals, OneGoal
  <1> QED
    BY <1>1, <1>2, HaltCancelsKeeps, HaltTakesHandleKeeps DEF Halt

-----------------------------------------------------------------------------
(* The server.                                                             *)

(* The newest goal is taken: a goal that was running before is aborted.    *)
LEMMA TakeGoalKeeps ==
  ASSUME Inv, TakeGoal
  PROVE  Inv'
  <1> DEFINE q == Head(goal_req)
             r == [id |-> q, ok |-> nav = "active"]
             n == Len(goal_resp)
  <1>1. /\ UNCHANGED <<leafVars, sent, client, cancel_req, nav, faults>>
        /\ goal_req # <<>> /\ goal_req' = Tail(goal_req) /\ goal_resp' = Append(goal_resp, r)
    BY DEF TakeGoal
  <1>2. /\ UNCHANGED <<status, outcome, goal_received, future_goal_handle, goal_handle, result>>
        /\ UNCHANGED <<alive, late>>
    BY <1>1 DEF leafVars
  <1>3. /\ q \in GoalIds /\ q <= sent /\ q = goal_req[1]
        /\ goal_req' \in Seq(GoalIds)
        /\ \A i \in DOMAIN goal_req' : i + 1 \in DOMAIN goal_req /\ goal_req'[i] = goal_req[i + 1]
    <2>1. goal_req \in Seq(GoalIds) /\ 1 \in DOMAIN goal_req /\ q = goal_req[1]
      BY <1>1, QueueElements DEF Inv
    <2>2. /\ goal_req' \in Seq(GoalIds)
          /\ \A i \in DOMAIN goal_req' : i + 1 \in DOMAIN goal_req /\ goal_req'[i] = goal_req[i + 1]
      BY <1>1, <2>1
    <2> QED
      BY <2>1, <2>2, QueueElements DEF Inv, FreshGoals
  <1>4. /\ n \in Nat /\ goal_resp' \in Seq(Responses) /\ DOMAIN goal_resp' = 1 .. n + 1
        /\ \A i \in 1 .. n : goal_resp'[i] = goal_resp[i]
        /\ goal_resp'[n + 1] = r
    <2>1. r \in Responses
      BY <1>3 DEF Responses
    <2>2. goal_resp \in Seq(Responses) /\ n \in Nat
      BY QueueElements DEF Inv
    <2> QED
      BY <1>1, <2>1, <2>2
  <1>5. /\ server' \in [GoalIds -> {"none", "active"} \cup Terminal]
        /\ nav = "active" => server'[q] = "active"
        /\ nav # "active" => server' = server
        /\ \A g \in GoalIds : g # q /\ server[g] # "active" => server'[g] = server[g]
    BY <1>3 DEF TakeGoal, Inv, TypeOK, Terminal
  <1>6. KnownGoals \subseteq KnownGoals' /\ (r.ok => q \in KnownGoals')
    BY <1>3, <1>5 DEF KnownGoals, TakeGoal, Terminal
  <1>7. TypeOK'
    BY <1>1, <1>2, <1>3, <1>4, <1>5 DEF Inv, TypeOK, Responses
  <1>8. FreshGoals'
    <2>1. \A g \in GoalIds : g > sent => g # q
      BY <1>3, QueueElements DEF Inv, GoalIds
    <2>2. \A g \in GoalIds : g > sent => client'[g] = "none" /\ server'[g] = "none"
      BY <1>1, <1>5, <2>1 DEF Inv, FreshGoals
    <2>3. \A i \in DOMAIN goal_req' : goal_req'[i] <= sent
      BY <1>3 DEF Inv, FreshGoals
    <2>4. ASSUME NEW i \in DOMAIN goal_resp' PROVE goal_resp'[i].id <= sent
      <3>1. CASE i \in 1 .. n
        BY <1>4, <3>1, QueueElements DEF Inv, FreshGoals
      <3>2. CASE i = n + 1
        BY <1>3, <1>4, <3>2
      <3> QED
        BY <1>4, <3>1, <3>2
    <2> QED
      BY <1>1, <2>2, <2>3, <2>4 DEF FreshGoals
  <1>9. AcceptedAreKnown'
    <2>1. \A i \in DOMAIN goal_resp' : goal_resp'[i].ok => goal_resp'[i].id \in KnownGoals'
      BY <1>4, <1>6, QueueElements DEF Inv, AcceptedAreKnown
    <2> QED
      BY <1>1, <1>6, <2>1 DEF Inv, AcceptedAreKnown
  <1>10. OneGoal'
    <2> SUFFICES ASSUME alive, late = 0 PROVE Executing'
      BY <1>1, <1>2 DEF OneGoal, Inv
    <2>1. Executing /\ Asked
      BY <1>1 DEF Inv, OneGoal, Resting, Executing, AnswerTravels, Driven
    <2>2. q = sent /\ goal_req' = <<>> /\ n = 0
      BY <1>1, <2>1 DEF Asked
    <2>3. Len(goal_resp') = 1 /\ goal_resp'[1] = r
      BY <1>4, <2>2, SeqElements
    <2>4. IF goal_resp'[1].ok THEN server'[sent] = "active" ELSE server'[sent] = "none"
      <3>1. r.id = q /\ (r.ok <=> nav = "active")
        OBVIOUS
      <3> QED
        BY <1>5, <2>1, <2>2, <2>3, <3>1 DEF Asked
    <2>5. AnswerTravels'
      BY <1>1, <1>2, <2>1, <2>2, <2>3, <2>4 DEF AnswerTravels, Asked
    <2>6. \A g \in GoalIds : g # sent => Finished(g)'
      BY <1>1, <1>5, <2>1, <2>2 DEF Executing, Finished
    <2> QED
      BY <1>1, <1>2, <2>1, <2>5, <2>6 DEF Executing
  <1> QED
    BY <1>7, <1>8, <1>9, <1>10 DEF Inv

(* Steps that touch no queue: a goal that runs goes on or ends, and nothing *)
(* else changes of it.                                                      *)
LEMMA EndingKeeps ==
  ASSUME Inv, UNCHANGED <<leafVars, sent, client, goal_req, goal_resp>>,
         cancel_req' \subseteq cancel_req,
         server' \in [GoalIds -> {"none", "active"} \cup Terminal],
         \A g \in GoalIds : server'[g] # server[g] => server[g] = "active" /\ server'[g] \in Terminal,
         \A g \in GoalIds : server'[g] = "canceled" /\ server[g] = "active" => g \in cancel_req,
         nav' \in {"down", "inactive", "active"}, faults' \in 0 .. MaxFaults
  PROVE  Inv'
  <1>1. /\ UNCHANGED <<status, outcome, goal_received, future_goal_handle, goal_handle, result>>
        /\ UNCHANGED <<alive, late>>
    BY DEF leafVars
  <1>2. KnownGoals \subseteq KnownGoals'
    BY DEF KnownGoals
  <1>3. TypeOK' /\ FreshGoals' /\ AcceptedAreKnown'
    BY <1>1, <1>2 DEF Inv, TypeOK, FreshGoals, AcceptedAreKnown
  <1>4. OneGoal'
    <2> SUFFICES ASSUME alive, late = 0, cancel_req = {}, Resting \/ Executing
                 PROVE  cancel_req' = {} /\ (Resting' \/ Executing')
      BY <1>1 DEF OneGoal, Inv
    <2>1. cancel_req' = {}
      OBVIOUS
    <2>2. \A g \in GoalIds : Finished(g) => Finished(g)'
      BY DEF Finished, Terminal
    <2>3. CASE Resting
      BY <1>1, <2>1, <2>2, <2>3 DEF Resting
    <2>4. CASE Executing
      <3>1. server[sent] \in {"active", "succeeded", "aborted"} =>
              server'[sent] \in {"active", "succeeded", "aborted"}
        BY <2>4 DEF Executing, Terminal
      <3>2. server[sent] = "none" => server'[sent] = "none"
        BY <2>4 DEF Executing
      <3>3. Asked' \/ AnswerTravels' \/ Driven'
        BY <1>1, <2>4, <3>1, <3>2 DEF Executing, Asked, AnswerTravels, Driven
      <3> QED
        BY <1>1, <2>1, <2>2, <2>4, <3>3 DEF Executing
    <2> QED
      BY <2>3, <2>4
  <1> QED
    BY <1>3, <1>4 DEF Inv

LEMMA ServerKeeps ==
  ASSUME Inv, \/ \E g \in GoalIds : TakeCancel(g) \/ Succeed(g) \/ Abort(g)
              \/ BringUp \/ Deactivate
  PROVE  Inv'
  <1> USE DEF clientVars
  <1>0. /\ server \in [GoalIds -> {"none", "active"} \cup Terminal]
        /\ nav \in {"down", "inactive", "active"} /\ faults \in 0 .. MaxFaults
    BY DEF Inv, TypeOK
  <1>1. faults < MaxFaults => faults + 1 \in 0 .. MaxFaults
    BY <1>0, BoundAssumption
  <1>2. ASSUME NEW g \in GoalIds, TakeCancel(g) PROVE Inv'
    BY <1>0, <1>2, EndingKeeps DEF TakeCancel, Terminal
  <1>3. ASSUME NEW g \in GoalIds, Succeed(g) PROVE Inv'
    BY <1>0, <1>3, EndingKeeps DEF Succeed, Terminal
  <1>4. ASSUME NEW g \in GoalIds, Abort(g) PROVE Inv'
    BY <1>0, <1>1, <1>4, EndingKeeps DEF Abort, Terminal
  <1>5. CASE BringUp
    BY <1>0, <1>5, EndingKeeps DEF BringUp
  <1>6. CASE Deactivate
    BY <1>0, <1>1, <1>6, EndingKeeps DEF Deactivate, Terminal
  <1> QED
    BY <1>2, <1>3, <1>4, <1>5, <1>6

LEMMA NextKeeps == Inv /\ [Next]_vars => Inv'
  <1> SUFFICES ASSUME Inv, [Next]_vars PROVE Inv'
    OBVIOUS
  <1>1. CASE UNCHANGED vars
    BY <1>1 DEF vars, leafVars, clientVars, serverVars, Inv, TypeOK, FreshGoals,
                AcceptedAreKnown, KnownGoals, OneGoal, Resting, Executing, Asked, AnswerTravels,
                Driven, Finished
  <1>2. CASE Next
    BY <1>2, StartKeeps, PollKeeps, HaltKeeps, TakeGoalKeeps, ServerKeeps DEF Next, PollSome
  <1> QED
    BY <1>1, <1>2

-----------------------------------------------------------------------------
(* The theorems.                                                           *)

(* The goal the leaf drives is known at every stage of an execution, as    *)
(* long as the answers come in time.                                       *)
THEOREM InvariantHolds == Spec => []Inv
  BY InitEstablishes, NextKeeps, PTL DEF Spec

(* The types of the leaf's members and of what travels between it and the  *)
(* server (bt_action_node.hpp:80-100, 244-406, 526-573).                   *)
THEOREM TypeCorrect == Spec => []TypeOK
  BY InvariantHolds, PTL DEF Inv

(* ros_behavior_wrappers.md:31-32: what is under way is the goal of the    *)
(* present execution; a leaf that was halted or has finished leaves no     *)
(* goal behind.                                                            *)
THEOREM LeavesNoGoalBehind == Spec => []OwnsItsGoal
  <1>1. Inv => OwnsItsGoal
    <2> SUFFICES ASSUME Inv, alive, late = 0, NEW g \in GoalIds, UnderWay(g)
                 PROVE  status = "RUNNING" /\ g = sent
      BY DEF OwnsItsGoal
    <2>1. CASE Resting
      BY <2>1 DEF Resting, Finished, UnderWay
    <2>2. CASE Executing
      <3>1. \A i \in DOMAIN goal_req : goal_req[i] = sent
        BY <2>2 DEF Executing, Asked, AnswerTravels, Driven
      <3> QED
        BY <2>2, <3>1 DEF Executing, Finished, UnderWay
    <2> QED
      BY <2>1, <2>2 DEF Inv, OneGoal
  <1> QED
    BY <1>1, InvariantHolds, PTL

(* bt_action_node.hpp:381-406: what the leaf reports is the result of the  *)
(* goal it sent in this execution.                                         *)
THEOREM ReportIsOwn == Spec => ReportsOwnResult
  <1> DEFINE Reported ==
        late' = 0 /\ status = "RUNNING" /\ status' = "IDLE" /\ outcome' # "halted" =>
          IF outcome' = "SUCCESS" THEN server[sent] = "succeeded"
                                  ELSE server[sent] \in {"none", "aborted"}
  <1>1. Inv /\ [Next]_vars => Reported
    <2> SUFFICES ASSUME Inv, [Next]_vars, late' = 0, status = "RUNNING", status' = "IDLE",
                        outcome' # "halted"
                 PROVE  IF outcome' = "SUCCESS" THEN server[sent] = "succeeded"
                                                ELSE server[sent] \in {"none", "aborted"}
      OBVIOUS
    <2>1. CASE PollSome
      BY <2>1, PollInTime DEF PollSome
    <2>2. ~Start
      BY DEF Start
    <2>3. ~Halt
      BY DEF Halt, HaltThrows, HaltGivesUp, HaltUsesNull, HaltCancels, HaltTakesHandle
    <2>4. CASE UNCHANGED status
      BY <2>4
    <2>5. TakeGoal \/ BringUp \/ Deactivate \/ (\E g \in GoalIds : TakeCancel(g) \/ Succeed(g) \/ Abort(g))
            => UNCHANGED status
      BY DEF TakeGoal, BringUp, Deactivate, TakeCancel, Succeed, Abort, leafVars
    <2> QED
      BY <2>1, <2>2, <2>3, <2>4, <2>5 DEF Next, vars, leafVars
  <1> QED
    BY <1>1, InvariantHolds, PTL DEF ReportsOwnResult, Spec

=============================================================================
