---------------------------- MODULE SentryProofs ----------------------------
(***************************************************************************)
(* The safety of the decision process, for every tree, any waypoint files, *)
(* hit points and places, and any interval and waiting time; and of the    *)
(* chain from the tree to Nav2, in the last part.                          *)
(*                                                                         *)
(* Every operator that ticks a node has a lemma, its contract: the world   *)
(* it leaves and the status it returns, as far as the nodes above it rely  *)
(* on them.  The contract of a tree follows from those of its branches,    *)
(* that of a tick from the trees', and the invariant from the tick's.      *)
(***************************************************************************)
EXTENDS SentryNavigation, SequenceTheorems, TLAPS

-----------------------------------------------------------------------------
(* The worlds that ticks start from and leave, and the results of a tick.  *)

\* The poses of all waypoint files, and the lists of waiting times.
Stops == {p \in Poses : \E f \in Files : \E i \in 1 .. Len(LoadedPoses(f)) : LoadedPoses(f)[i] = p}
Waits == {LoadedWaits(f) : f \in Files} \cup {<<>>}
Messages == Statuses \cup {NoStatus}
Boards == [waypoints : Seq(Stops), wait_times : Waits, wp_idx : Nat,
           current_goal : Stops \cup {NoPose}]
Worlds == [memory : [Nodes -> 0 .. 3], seen : Messages, bb : Boards,
           age : [Publishers -> 0 .. Interval], timer : 0 .. WaitTicks, out : Seq(Poses),
           inbox : Messages, csv : Files, robot : Poses \cup {NoPose}]
Results == [s : {"SUCCESS", "FAILURE", "RUNNING"}, w : Worlds, at : 0 .. 5]

\* What the operators below leave as it was.
Sensed(v, w) == v.seen = w.seen /\ v.inbox = w.inbox /\ v.csv = w.csv /\ v.robot = w.robot
Untouched(v, w) == Sensed(v, w) /\ v.bb = w.bb /\ v.timer = w.timer
OnlyMemory(v, w) == Untouched(v, w) /\ v.age = w.age /\ v.out = w.out

\* At most pose p was published, by n.
Published(v, w, n, p) ==
  /\ \A m \in Publishers \ {n} : v.age[m] = w.age[m]
  /\ v.out \in {w.out, Append(w.out, p)}

-----------------------------------------------------------------------------
(* The control nodes.                                                      *)

(* A node that succeeds, fails or runs leaves the world it is given alone.   *)
LEMMA StatusContract ==
  ASSUME NEW w \in Worlds
  PROVE  /\ Success(w) \in Results /\ Success(w).s = "SUCCESS" /\ Success(w).w = w
         /\ Failure(w) \in Results /\ Failure(w).s = "FAILURE" /\ Failure(w).w = w
         /\ Running(w) \in Results /\ Running(w).s = "RUNNING" /\ Running(w).w = w
BY DEF Success, Failure, Running, Result, Results

(* Noting which child was ticked last changes neither its status nor the     *)
(* world.                                                                    *)
LEMMA ChildContract ==
  ASSUME NEW r \in Results, NEW i \in 0 .. 5
  PROVE  /\ Child(i, r) \in Results /\ Child(i, r).at = i
         /\ Child(i, r).s = r.s /\ Child(i, r).w = r.w
BY DEF Child, Results

(* A node that keeps its place changes nothing else, and nothing of other    *)
(* nodes.                                                                    *)
LEMMA RememberContract ==
  ASSUME NEW w \in Worlds, NEW n \in Nodes, NEW i \in 0 .. 3
  PROVE  /\ Remember(n, i, w) \in Worlds
         /\ OnlyMemory(Remember(n, i, w), w)
         /\ Remember(n, i, w).memory[n] = i
         /\ \A m \in Nodes \ {n} : Remember(n, i, w).memory[m] = w.memory[m]
BY DEF Remember, Worlds, OnlyMemory, Untouched, Sensed

(* Halting nodes forgets what they kept, and changes nothing else.           *)
LEMMA HaltContract ==
  ASSUME NEW w \in Worlds, NEW names
  PROVE  /\ Halt(names, w) \in Worlds
         /\ OnlyMemory(Halt(names, w), w)
         /\ \A n \in Nodes : Halt(names, w).memory[n] = IF n \in names THEN 0 ELSE w.memory[n]
BY DEF Halt, Worlds, OnlyMemory, Untouched, Sensed

(* A Sequence that runs keeps the child it stopped at; one that is done      *)
(* forgets it, and what the nodes below it kept.                             *)
LEMMA SequenceEndsContract ==
  ASSUME NEW r \in Results, NEW n \in Nodes, NEW below,
         r.s = "RUNNING" => r.at \in 0 .. 3
  PROVE  LET e == SequenceEnds(n, below, r)
         IN  /\ e \in Results /\ e.s = r.s /\ OnlyMemory(e.w, r.w)
             /\ r.s = "RUNNING" =>
                  /\ e.w.memory[n] = r.at
                  /\ \A m \in Nodes \ {n} : e.w.memory[m] = r.w.memory[m]
             /\ r.s # "RUNNING" =>
                  \A m \in Nodes :
                    e.w.memory[m] = IF m \in {n} \cup below THEN 0 ELSE r.w.memory[m]
<1>1. r.w \in Worlds /\ r.s \in {"SUCCESS", "FAILURE", "RUNNING"}
  BY DEF Results
<1>2. CASE r.s = "RUNNING"
  <2>1. SequenceEnds(n, below, r) = Running(Remember(n, r.at, r.w))
    BY <1>2 DEF SequenceEnds
  <2>2. /\ Remember(n, r.at, r.w) \in Worlds
        /\ OnlyMemory(Remember(n, r.at, r.w), r.w)
        /\ Remember(n, r.at, r.w).memory[n] = r.at
        /\ \A m \in Nodes \ {n} : Remember(n, r.at, r.w).memory[m] = r.w.memory[m]
    BY <1>1, <1>2, RememberContract
  <2>3. /\ SequenceEnds(n, below, r) \in Results
        /\ SequenceEnds(n, below, r).s = "RUNNING"
        /\ SequenceEnds(n, below, r).w = Remember(n, r.at, r.w)
    BY <2>1, <2>2, StatusContract
  <2> QED BY <1>2, <2>2, <2>3
<1>3. CASE r.s # "RUNNING"
  <2>1. SequenceEnds(n, below, r) = Result(r.s, Halt({n} \cup below, r.w))
    BY <1>3 DEF SequenceEnds
  <2>2. Halt({n} \cup below, r.w) \in Worlds
    BY <1>1, HaltContract
  <2>3. /\ SequenceEnds(n, below, r) \in Results
        /\ SequenceEnds(n, below, r).s = r.s
        /\ SequenceEnds(n, below, r).w = Halt({n} \cup below, r.w)
    BY <1>1, <2>1, <2>2 DEF Result, Results
  <2> QED BY <1>1, <1>3, <2>3, HaltContract
<1> QED BY <1>2, <1>3

(* A reactive node halts every child but the one that runs.                  *)
LEMMA ReactiveEndsContract ==
  ASSUME NEW r \in Results, NEW below
  PROVE  LET e == ReactiveEnds(below, r)
         IN  /\ e \in Results /\ e.s = r.s /\ OnlyMemory(e.w, r.w)
             /\ \A m \in Nodes :
                  e.w.memory[m] =
                    IF m \in DOMAIN below /\ (r.s # "RUNNING" \/ below[m] # r.at)
                    THEN 0 ELSE r.w.memory[m]
<1> DEFINE names == {n \in DOMAIN below : r.s # "RUNNING" \/ below[n] # r.at}
<1>1. r.w \in Worlds /\ r.s \in {"SUCCESS", "FAILURE", "RUNNING"}
  BY DEF Results
<1>2. ReactiveEnds(below, r) = Result(r.s, Halt(names, r.w))
  BY DEF ReactiveEnds
<1>3. \A m \in Nodes : m \in names <=> m \in DOMAIN below /\ (r.s # "RUNNING" \/ below[m] # r.at)
  OBVIOUS
<1> HIDE DEF names
<1>4. Halt(names, r.w) \in Worlds
  BY <1>1, HaltContract
<1>5. /\ ReactiveEnds(below, r) \in Results
      /\ ReactiveEnds(below, r).s = r.s
      /\ ReactiveEnds(below, r).w = Halt(names, r.w)
  BY <1>1, <1>2, <1>4 DEF Result, Results
<1> QED BY <1>1, <1>3, <1>5, HaltContract

-----------------------------------------------------------------------------
(* The leaves.                                                             *)

\* The node remembers when it published, and nothing else of the world
\* changes but the poses that are on their way.
LEMMA PublishContract ==
  ASSUME NEW w \in Worlds, NEW n \in Publishers, NEW p \in Poses
  PROVE  LET r == PubNav2Goal(n, p, w)
         IN  /\ r \in Results /\ r.s = "SUCCESS"
             /\ Untouched(r.w, w) /\ r.w.memory = w.memory
             /\ Published(r.w, w, n, p)
             /\ w.age[n] = Interval => r.w.out = Append(w.out, p)
<1> DEFINE r == PubNav2Goal(n, p, w)
           v == [w EXCEPT !.out = Append(w.out, p)]
           u == [v EXCEPT !.age[n] = 0]
<1>1. CASE w.age[n] < Interval
  <2>1. r = Success(w)
    BY <1>1 DEF PubNav2Goal
  <2>2. r \in Results /\ r.s = "SUCCESS" /\ r.w = w
    BY <2>1, StatusContract
  <2>3. w.age[n] # Interval
    BY <1>1, TimeAssumption
  <2> QED BY <2>2, <2>3 DEF Untouched, Sensed, Published
<1>2. CASE ~(w.age[n] < Interval)
  <2>1. r = Success(u)
    BY <1>2 DEF PubNav2Goal
  <2>2. Append(w.out, p) \in Seq(Poses)
    BY DEF Worlds
  <2>3. /\ v \in Worlds
        /\ Untouched(v, w) /\ v.memory = w.memory /\ v.age = w.age
        /\ v.out = Append(w.out, p)
    BY <2>2 DEF Worlds, Untouched, Sensed
  <2> HIDE DEF v
  <2>4. [v.age EXCEPT ![n] = 0] \in [Publishers -> 0 .. Interval]
    BY <2>3, TimeAssumption DEF Worlds
  <2>5. u = [v EXCEPT !.age = [v.age EXCEPT ![n] = 0]]
    OBVIOUS
  <2>6. /\ u \in Worlds
        /\ Untouched(u, v) /\ u.memory = v.memory /\ u.out = v.out
        /\ u.age = [v.age EXCEPT ![n] = 0]
    BY <2>3, <2>4, <2>5 DEF Worlds, Untouched, Sensed
  <2> HIDE DEF u
  <2>7. \A m \in Publishers \ {n} : u.age[m] = w.age[m]
    BY <2>3, <2>6 DEF Worlds
  <2>8. r \in Results /\ r.s = "SUCCESS" /\ r.w = u
    BY <2>1, <2>6, StatusContract
  <2> QED BY <2>3, <2>6, <2>7, <2>8 DEF Untouched, Sensed, Published
<1> QED BY <1>1, <1>2

(* Inverter swaps success and failure (singlenav_basic.xml:15).              *)
LEMMA InverterContract ==
  ASSUME NEW r \in Results
  PROVE  /\ Inverter(r) \in Results /\ Inverter(r).w = r.w
         /\ r.s = "SUCCESS" => Inverter(r).s = "FAILURE"
         /\ r.s = "FAILURE" => Inverter(r).s = "SUCCESS"
BY DEF Inverter, Results

(* The first child of every tree succeeds, and so keeps the tree from the    *)
(* others, until a message was read; from then on it fails and leaves the    *)
(* newest message in seen (action.h:381-448).                                *)
LEMMA UnreadContract ==
  ASSUME NEW w \in Worlds
  PROVE  LET r == Unread(w)
         IN  /\ r \in Results /\ r.at = 1
             /\ r.w.memory = w.memory /\ r.w.bb = w.bb /\ r.w.age = w.age
             /\ r.w.timer = w.timer /\ r.w.out = w.out /\ r.w.csv = w.csv /\ r.w.robot = w.robot
             /\ r.w.seen = IF w.inbox = NoStatus THEN w.seen ELSE w.inbox
             /\ r.s = IF r.w.seen = NoStatus THEN "SUCCESS" ELSE "FAILURE"
<1> DEFINE got == IF w.inbox = NoStatus THEN w.seen ELSE w.inbox
           v == [w EXCEPT !.seen = got, !.inbox = NoStatus]
           t == WriteToBlackboard(w)
           i == Inverter(t)
<1>1. got \in Messages /\ NoStatus \in Messages
  BY DEF Worlds, Messages
<1>2. v = [[w EXCEPT !.seen = got] EXCEPT !.inbox = NoStatus]
  OBVIOUS
<1>3. t = Test(got # NoStatus, v)
  BY DEF WriteToBlackboard
<1>4. Unread(w) = Child(1, i)
  BY DEF Unread
<1> HIDE DEF got
<1> DEFINE u == [w EXCEPT !.seen = got]
<1>5. /\ u \in Worlds /\ u.seen = got
      /\ u.memory = w.memory /\ u.bb = w.bb /\ u.age = w.age
      /\ u.timer = w.timer /\ u.out = w.out /\ u.csv = w.csv /\ u.robot = w.robot
  BY <1>1 DEF Worlds
<1>6. v = [u EXCEPT !.inbox = NoStatus]
  BY <1>2
<1> HIDE DEF u, v
<1>7. /\ v \in Worlds /\ v.seen = got
      /\ v.memory = w.memory /\ v.bb = w.bb /\ v.age = w.age
      /\ v.timer = w.timer /\ v.out = w.out /\ v.csv = w.csv /\ v.robot = w.robot
  BY <1>1, <1>5, <1>6 DEF Worlds
<1>8. t \in Results /\ t.w = v /\ t.s = IF got = NoStatus THEN "FAILURE" ELSE "SUCCESS"
  BY <1>3, <1>7, StatusContract DEF Test
<1> HIDE DEF t
<1>9. i \in Results /\ i.w = v /\ i.s = IF got = NoStatus THEN "SUCCESS" ELSE "FAILURE"
  BY <1>8, InverterContract
<1> HIDE DEF i
<1>10. /\ Unread(w) \in Results /\ Unread(w).at = 1
       /\ Unread(w).w = v /\ Unread(w).s = i.s
  BY <1>4, <1>9, ChildContract
<1> QED BY <1>7, <1>9, <1>10 DEF got

-----------------------------------------------------------------------------
(* The branch that goes home.                                              *)

(* The two conditions on hit points (condition.h:5-31,59-84) read the last   *)
(* message, or the default of cod_behavior.cpp:130, and change nothing.      *)
LEMMA HpFacts ==
  ASSUME NEW w \in Worlds
  PROVE  /\ Hp(w.seen) \in Nat
         /\ HpCondition(w) \in Results /\ HpCondition(w).w = w
         /\ HpCondition(w).s = IF Hp(w.seen) < 210 THEN "SUCCESS" ELSE "FAILURE"
         /\ StayHome(w) \in Results /\ StayHome(w).w = w
         /\ StayHome(w).s = IF Hp(w.seen) >= 350 THEN "SUCCESS" ELSE "RUNNING"
<1>1. w.seen \in Messages
  BY DEF Worlds
<1>2. Hp(w.seen) \in Nat
  <2>1. CASE w.seen = NoStatus
    BY <2>1 DEF Hp
  <2>2. CASE w.seen # NoStatus
    <3>1. Hps \subseteq Nat
      BY StatusAssumption
    <3>2. w.seen.hp \in Hps
      BY <1>1, <2>2 DEF Messages, Statuses
    <3>3. w.seen.hp \in Nat
      BY <3>1, <3>2
    <3> QED BY <2>2, <3>3 DEF Hp
  <2> QED BY <2>1, <2>2
<1> QED BY <1>2, StatusContract DEF HpCondition, StayHome, Test

\* What both versions of the branch behind HpCondition do in world w.
Recovers(r, w) ==
  /\ r \in Results
  /\ r.s = IF Hp(w.seen) >= 350 THEN "SUCCESS" ELSE "RUNNING"
  /\ Untouched(r.w, w) /\ Published(r.w, w, "toHome", "home")
  /\ r.w.memory["goHome"] \in {0, 2}
  /\ \A n \in Nodes \ {"goHome"} : r.w.memory[n] = w.memory[n]
  /\ w.memory["goHome"] = 0 /\ w.age["toHome"] = Interval => r.w.out = Append(w.out, "home")

(* The Sequence of three trees recovers: it publishes home, at most once for *)
(* each visit, and runs until the hit points are restored.                   *)
LEMMA GoHomeRecovers ==
  ASSUME NEW w \in Worlds, w.memory["goHome"] \in {0, 2}
  PROVE  Recovers(GoHome(w), w)
<1> DEFINE p == PubNav2Goal("toHome", "home", w)
           go == InOrder("goHome", w, 1, Success(w), p)
           st == StayHome(go.w)
           stay == InOrder("goHome", w, 2, go, st)
<1>1. GoHome(w) = SequenceEnds("goHome", {}, stay)
  BY DEF GoHome
<1>2. /\ p \in Results /\ p.s = "SUCCESS"
      /\ Untouched(p.w, w) /\ p.w.memory = w.memory
      /\ Published(p.w, w, "toHome", "home")
      /\ w.age["toHome"] = Interval => p.w.out = Append(w.out, "home")
  BY PublishContract, PlacesAssumption DEF Publishers
<1>3. Success(w) \in Results /\ Success(w).s = "SUCCESS" /\ Success(w).w = w
  BY StatusContract
<1> HIDE DEF p
<1>4. Child(1, p) \in Results /\ Child(1, p).s = p.s /\ Child(1, p).w = p.w
  BY <1>2, ChildContract
<1>5. /\ go \in Results /\ go.s = "SUCCESS"
      /\ Untouched(go.w, w) /\ go.w.memory = w.memory
      /\ Published(go.w, w, "toHome", "home")
      /\ w.memory["goHome"] = 0 /\ w.age["toHome"] = Interval => go.w.out = Append(w.out, "home")
  BY <1>2, <1>3, <1>4 DEF InOrder, ResumesAt, Untouched, Sensed, Published
<1> HIDE DEF go
<1>6. go.w \in Worlds /\ go.w.seen = w.seen
  BY <1>5 DEF Results, Untouched, Sensed
<1>7. st \in Results /\ st.w = go.w /\ st.s = IF Hp(w.seen) >= 350 THEN "SUCCESS" ELSE "RUNNING"
  BY <1>6, HpFacts
<1> HIDE DEF st
<1>8. stay = Child(2, st)
  BY <1>5 DEF InOrder, ResumesAt
<1>9. stay \in Results /\ stay.at = 2 /\ stay.s = st.s /\ stay.w = go.w
  BY <1>7, <1>8, ChildContract
<1> HIDE DEF stay
<1>10. "goHome" \in Nodes
  BY DEF Nodes
<1>11. /\ GoHome(w) \in Results /\ GoHome(w).s = st.s /\ OnlyMemory(GoHome(w).w, go.w)
       /\ GoHome(w).w.memory["goHome"] \in {0, 2}
       /\ \A m \in Nodes \ {"goHome"} : GoHome(w).w.memory[m] = go.w.memory[m]
  BY <1>1, <1>9, <1>10, <1>7, SequenceEndsContract
<1> QED BY <1>5, <1>7, <1>11 DEF Recovers, OnlyMemory, Untouched, Sensed, Published

(* The ReactiveSequence of test.xml recovers as well, and publishes home     *)
(* again at every tick that is outside the interval.                         *)
LEMMA KeepGoingHomeRecovers ==
  ASSUME NEW w \in Worlds, w.memory["goHome"] \in {0, 2}
  PROVE  Recovers(KeepGoingHome(w), w)
<1> DEFINE p == PubNav2Goal("toHome", "home", w)
           go == Child(1, p)
           st == StayHome(go.w)
           stay == Then(2, "SUCCESS", go, st)
<1>1. KeepGoingHome(w) = ReactiveEnds(<<>>, stay)
  BY DEF KeepGoingHome
<1>2. /\ p \in Results /\ p.s = "SUCCESS"
      /\ Untouched(p.w, w) /\ p.w.memory = w.memory
      /\ Published(p.w, w, "toHome", "home")
      /\ w.age["toHome"] = Interval => p.w.out = Append(w.out, "home")
  BY PublishContract, PlacesAssumption DEF Publishers
<1> HIDE DEF p
<1>3. go \in Results /\ go.s = "SUCCESS" /\ go.w = p.w
  BY <1>2, ChildContract
<1> HIDE DEF go
<1>4. go.w \in Worlds /\ go.w.seen = w.seen
  BY <1>2, <1>3 DEF Results, Untouched, Sensed
<1>5. st \in Results /\ st.w = go.w /\ st.s = IF Hp(w.seen) >= 350 THEN "SUCCESS" ELSE "RUNNING"
  BY <1>4, HpFacts
<1> HIDE DEF st
<1>6. stay = Child(2, st)
  BY <1>3 DEF Then
<1>7. stay \in Results /\ stay.s = st.s /\ stay.w = go.w
  BY <1>5, <1>6, ChildContract
<1> HIDE DEF stay
<1>8. DOMAIN <<>> = {}
  OBVIOUS
<1>9. /\ KeepGoingHome(w) \in Results /\ KeepGoingHome(w).s = st.s
      /\ OnlyMemory(KeepGoingHome(w).w, go.w)
      /\ \A m \in Nodes : KeepGoingHome(w).w.memory[m] = go.w.memory[m]
  BY <1>1, <1>7, <1>8, ReactiveEndsContract
<1>10. "goHome" \in Nodes
  BY DEF Nodes
<1> QED BY <1>2, <1>3, <1>5, <1>9, <1>10
        DEF Recovers, OnlyMemory, Untouched, Sensed, Published

\* What the branch that goes home does in world w.
GoesHome(r, w) ==
  /\ r \in Results
  /\ r.s = IF w.memory["home"] = 0 /\ Hp(w.seen) >= 210 THEN "FAILURE"
           ELSE IF Hp(w.seen) >= 350 THEN "SUCCESS" ELSE "RUNNING"
  /\ Untouched(r.w, w) /\ Published(r.w, w, "toHome", "home")
  /\ r.w.memory["home"] = IF r.s = "RUNNING" THEN 2 ELSE 0
  /\ r.w.memory["goHome"] \in {0, 2}
  /\ r.w.memory["home"] = 0 => r.w.memory["goHome"] = 0
  /\ \A n \in Nodes \ {"home", "goHome"} : r.w.memory[n] = w.memory[n]
  /\ r.s = "FAILURE" => r.w.age = w.age /\ r.w.out = w.out
  /\ r.s # "FAILURE" /\ w.memory["goHome"] = 0 /\ w.age["toHome"] = Interval =>
       r.w.out = Append(w.out, "home")

(* The branch that goes home starts below 210 hit points, ends at 350, and   *)
(* sends the robot to no other place, whichever of the two nodes it is made  *)
(* of.                                                                       *)
LEMMA HomeContract ==
  ASSUME NEW w \in Worlds, w.memory["home"] \in {0, 2}, w.memory["goHome"] \in {0, 2}, NEW kind
  PROVE  GoesHome(Home(kind, w), w)
<1> DEFINE test == HpCondition(w)
           low == InOrder("home", w, 1, Success(w), test)
           go == IF kind = "Sequence" THEN GoHome(low.w) ELSE KeepGoingHome(low.w)
           gone == InOrder("home", w, 2, low, go)
           r == Home(kind, w)
<1>1. r = SequenceEnds("home", {"goHome"}, gone)
  BY DEF Home
<1>2. /\ Hp(w.seen) \in Nat
      /\ test \in Results /\ test.w = w
      /\ test.s = IF Hp(w.seen) < 210 THEN "SUCCESS" ELSE "FAILURE"
  BY HpFacts
<1>3. Success(w) \in Results /\ Success(w).s = "SUCCESS" /\ Success(w).w = w
  BY StatusContract
<1> HIDE DEF test
<1>4. Child(1, test) \in Results /\ Child(1, test).s = test.s /\ Child(1, test).w = w
      /\ Child(1, test).at = 1
  BY <1>2, ChildContract
<1>5. /\ low \in Results /\ low.w = w
      /\ low.s = IF w.memory["home"] = 0 /\ ~(Hp(w.seen) < 210) THEN "FAILURE" ELSE "SUCCESS"
      /\ low.s = "FAILURE" => low.at = 1
  BY <1>2, <1>3, <1>4 DEF InOrder, ResumesAt
<1> HIDE DEF low
<1>6. "home" \in Nodes /\ "goHome" \in Nodes
  BY DEF Nodes
<1>7. Recovers(go, w)
  BY <1>5, GoHomeRecovers, KeepGoingHomeRecovers
<1> HIDE DEF go
<1>8. CASE low.s = "FAILURE"
  <2>1. gone = low
    BY <1>8 DEF InOrder
  <2>2. /\ r \in Results /\ r.s = "FAILURE" /\ OnlyMemory(r.w, w)
        /\ \A m \in Nodes : r.w.memory[m] = IF m \in {"home", "goHome"} THEN 0 ELSE w.memory[m]
    BY <1>1, <1>5, <1>6, <1>8, <2>1, SequenceEndsContract
  <2> QED
    BY <1>2, <1>5, <1>6, <1>8, <2>2 DEF GoesHome, OnlyMemory, Untouched, Sensed, Published
<1>9. CASE low.s = "SUCCESS"
  <2>1. gone = Child(2, go)
    BY <1>9 DEF InOrder, ResumesAt
  <2>2. gone \in Results /\ gone.at = 2 /\ gone.s = go.s /\ gone.w = go.w
    BY <1>7, <2>1, ChildContract DEF Recovers
  <2> HIDE DEF gone
  <2>3. go.s \in {"SUCCESS", "RUNNING"}
    BY <1>7 DEF Recovers
  <2>4. /\ r \in Results /\ r.s = go.s /\ OnlyMemory(r.w, go.w)
        /\ r.s = "RUNNING" =>
             /\ r.w.memory["home"] = 2
             /\ \A m \in Nodes \ {"home"} : r.w.memory[m] = go.w.memory[m]
        /\ r.s # "RUNNING" =>
             \A m \in Nodes : r.w.memory[m] = IF m \in {"home", "goHome"} THEN 0 ELSE go.w.memory[m]
    BY <1>1, <1>6, <2>2, SequenceEndsContract
  <2> HIDE DEF r
  <2>5. \A n \in Nodes \ {"home", "goHome"} : r.w.memory[n] = w.memory[n]
    BY <1>7, <2>3, <2>4 DEF Recovers
  <2>6. r.w.memory["goHome"] \in {0, 2}
    BY <1>6, <1>7, <2>3, <2>4 DEF Recovers
  <2>6a. r.w.memory["home"] = 0 => r.w.memory["goHome"] = 0
    BY <1>6, <2>3, <2>4
  <2>7. r.s = IF w.memory["home"] = 0 /\ Hp(w.seen) >= 210 THEN "FAILURE"
              ELSE IF Hp(w.seen) >= 350 THEN "SUCCESS" ELSE "RUNNING"
    BY <1>2, <1>5, <1>7, <1>9, <2>4 DEF Recovers
  <2>8. Untouched(r.w, w) /\ Published(r.w, w, "toHome", "home")
    BY <1>7, <2>4 DEF Recovers, OnlyMemory, Untouched, Sensed, Published
  <2>9. r.w.memory["home"] = IF r.s = "RUNNING" THEN 2 ELSE 0
    BY <1>6, <2>4
  <2>10. w.memory["goHome"] = 0 /\ w.age["toHome"] = Interval => r.w.out = Append(w.out, "home")
    BY <1>7, <2>4 DEF Recovers, OnlyMemory
  <2>11. r.s # "FAILURE"
    BY <2>3, <2>4
  <2>12. GoesHome(r, w)
    BY <2>4, <2>5, <2>6, <2>6a, <2>7, <2>8, <2>9, <2>10, <2>11 DEF GoesHome
  <2> QED BY <2>12 DEF r
<1> QED BY <1>5, <1>8, <1>9

-----------------------------------------------------------------------------
(* The other branches.                                                     *)

\* What a branch that only holds or leaves a place does in world w: at most it
\* publishes pose p.
HoldsPlace(r, w, n, p) ==
  /\ r \in Results
  /\ Untouched(r.w, w) /\ Published(r.w, w, n, p)
  /\ \A m \in Nodes : r.w.memory[m] = w.memory[m]

(* A branch behind an inverted ZsCondition fails when the zone is taken      *)
(* (condition.h:33-57).                                                      *)
LEMMA ZoneFacts ==
  ASSUME NEW w \in Worlds
  PROVE  LET r == Child(1, Inverter(ZsCondition(w)))
         IN  /\ r \in Results /\ r.at = 1 /\ r.w = w
             /\ r.s = IF ZoneStatus(w.seen) THEN "FAILURE" ELSE "SUCCESS"
<1>1. /\ ZsCondition(w) \in Results /\ ZsCondition(w).w = w
      /\ ZsCondition(w).s = IF ZoneStatus(w.seen) THEN "SUCCESS" ELSE "FAILURE"
  BY StatusContract DEF ZsCondition, Test
<1>2. /\ Inverter(ZsCondition(w)) \in Results /\ Inverter(ZsCondition(w)).w = w
      /\ Inverter(ZsCondition(w)).s = IF ZoneStatus(w.seen) THEN "FAILURE" ELSE "SUCCESS"
  BY <1>1, InverterContract
<1> QED BY <1>2, ChildContract

(* The branch that holds main publishes nothing else, and nothing when it    *)
(* fails.                                                                    *)
LEMMA HoldMainContract ==
  ASSUME NEW w \in Worlds
  PROVE  /\ HoldsPlace(HoldMain(w), w, "holdMain", "main")
         /\ HoldMain(w).s = IF ZoneStatus(w.seen) THEN "FAILURE" ELSE "SUCCESS"
         /\ HoldMain(w).s = "FAILURE" => HoldMain(w).w.out = w.out
<1> DEFINE clear == Child(1, Inverter(ZsCondition(w)))
           p == PubNav2Goal("holdMain", "main", clear.w)
           hold == Then(2, "SUCCESS", clear, p)
           r == HoldMain(w)
<1>1. r = ReactiveEnds(<<>>, hold)
  BY DEF HoldMain
<1>2. /\ clear \in Results /\ clear.w = w
      /\ clear.s = IF ZoneStatus(w.seen) THEN "FAILURE" ELSE "SUCCESS"
  BY ZoneFacts
<1> HIDE DEF clear
<1>3. p \in Results /\ p.s = "SUCCESS" /\ Untouched(p.w, w) /\ p.w.memory = w.memory
      /\ Published(p.w, w, "holdMain", "main")
  BY <1>2, PublishContract, PlacesAssumption DEF Publishers
<1> HIDE DEF p
<1>4. Child(2, p) \in Results /\ Child(2, p).s = p.s /\ Child(2, p).w = p.w
  BY <1>3, ChildContract
<1>5. /\ hold \in Results /\ hold.s = clear.s
      /\ Untouched(hold.w, w) /\ hold.w.memory = w.memory
      /\ Published(hold.w, w, "holdMain", "main")
      /\ hold.s = "FAILURE" => hold.w.out = w.out
  BY <1>2, <1>3, <1>4 DEF Then, Untouched, Sensed, Published
<1> HIDE DEF hold
<1>6. DOMAIN <<>> = {}
  OBVIOUS
<1>7. /\ r \in Results /\ r.s = hold.s /\ OnlyMemory(r.w, hold.w)
      /\ \A m \in Nodes : r.w.memory[m] = hold.w.memory[m]
  BY <1>1, <1>5, <1>6, ReactiveEndsContract
<1> QED BY <1>2, <1>5, <1>7 DEF HoldsPlace, OnlyMemory, Untouched, Sensed, Published

-----------------------------------------------------------------------------
(* The patrol.                                                             *)

\* The blackboard of a patrol that is on its way to, or waits at, a waypoint.
AtWaypoint(board) ==
  /\ board.wp_idx < Len(board.waypoints)
  /\ board.current_goal = board.waypoints[board.wp_idx + 1]

(* A patrol under way is sent to a place of a waypoint file.                 *)
LEMMA WaypointIsStop ==
  ASSUME NEW board \in Boards, AtWaypoint(board)
  PROVE  board.current_goal \in Stops /\ board.current_goal \in Poses
<1>1. board.waypoints \in Seq(Stops) /\ board.wp_idx \in Nat
  BY DEF Boards
<1>2. board.wp_idx + 1 \in 1 .. Len(board.waypoints)
  BY <1>1 DEF AtWaypoint
<1>3. board.current_goal \in Stops
  BY <1>1, <1>2 DEF AtWaypoint
<1> QED BY <1>3 DEF Stops

\* What the leaves and the branch of a patrol may change: the blackboard, the
\* time of the wait, what they keep, and what toWaypoint publishes.
PatrolFrame(v, w) ==
  /\ Sensed(v, w)
  /\ \A m \in Publishers \ {"toWaypoint"} : v.age[m] = w.age[m]
  /\ v.out = w.out \/ \E p \in Stops : v.out = Append(w.out, p)

(* GetCurrentWaypoint (action.h:498-549) succeeds only with the goal that    *)
(* the index points to.                                                      *)
LEMMA GetCurrentWaypointContract ==
  ASSUME NEW w \in Worlds
  PROVE  LET r == GetCurrentWaypoint(w)
         IN  /\ r \in Results /\ r.w.memory = w.memory /\ r.w.timer = w.timer
             /\ Sensed(r.w, w) /\ r.w.age = w.age /\ r.w.out = w.out
             /\ r.w.bb.waypoints = w.bb.waypoints /\ r.w.bb.wp_idx = w.bb.wp_idx
             /\ \/ r.s = "FAILURE"
                \/ r.s = "SUCCESS" /\ AtWaypoint(r.w.bb)
<1> DEFINE r == GetCurrentWaypoint(w)
           goal == w.bb.waypoints[w.bb.wp_idx + 1]
           board == [w.bb EXCEPT !.current_goal = goal]
           v == [w EXCEPT !.bb = board]
<1>1. w.bb \in Boards
  BY DEF Worlds
<1>2. w.bb.waypoints \in Seq(Stops) /\ w.bb.wp_idx \in Nat
  BY <1>1 DEF Boards
<1>3. CASE w.bb.wp_idx >= Len(w.bb.waypoints)
  <2>1. r = Failure(w)
    BY <1>3 DEF GetCurrentWaypoint
  <2>2. r \in Results /\ r.s = "FAILURE" /\ r.w = w
    BY <2>1, StatusContract
  <2> QED BY <2>2 DEF Sensed
<1>4. CASE ~(w.bb.wp_idx >= Len(w.bb.waypoints))
  <2>1. r = Success(v)
    BY <1>4 DEF GetCurrentWaypoint
  <2>2. w.bb.wp_idx + 1 \in 1 .. Len(w.bb.waypoints) /\ w.bb.wp_idx < Len(w.bb.waypoints)
    BY <1>2, <1>4
  <2>3. goal \in Stops
    BY <1>2, <2>2
  <2> HIDE DEF goal
  <2>4. /\ board \in Boards /\ board.waypoints = w.bb.waypoints
        /\ board.wp_idx = w.bb.wp_idx /\ board.current_goal = goal
    BY <1>1, <2>3 DEF Boards
  <2> HIDE DEF board
  <2>5. AtWaypoint(board)
    BY <2>2, <2>4 DEF AtWaypoint, goal
  <2>6. /\ v \in Worlds /\ v.bb = board /\ v.memory = w.memory /\ v.timer = w.timer
        /\ Sensed(v, w) /\ v.age = w.age /\ v.out = w.out
    BY <2>4 DEF Worlds, Sensed
  <2> HIDE DEF v
  <2>7. r \in Results /\ r.s = "SUCCESS" /\ r.w = v
    BY <2>1, <2>6, StatusContract
  <2> QED BY <2>4, <2>5, <2>6, <2>7
<1> QED BY <1>3, <1>4

(* WaitUntilReached (action.h:552-620) never fails, so the visit is never    *)
(* abandoned there.                                                          *)
LEMMA WaitUntilReachedContract ==
  ASSUME NEW w \in Worlds
  PROVE  LET r == WaitUntilReached(w)
         IN  /\ r \in Results /\ r.s \in {"SUCCESS", "RUNNING"} /\ OnlyMemory(r.w, w)
             /\ \A n \in Nodes \ {"reach"} : r.w.memory[n] = w.memory[n]
<1>1. \A i \in {0, 1} :
        /\ Remember("reach", i, w) \in Worlds /\ OnlyMemory(Remember("reach", i, w), w)
        /\ \A n \in Nodes \ {"reach"} : Remember("reach", i, w).memory[n] = w.memory[n]
  BY RememberContract DEF Nodes
<1>2. CASE w.memory["reach"] # 0 /\ w.robot = w.bb.current_goal
  <2>1. WaitUntilReached(w) = Success(Remember("reach", 0, w))
    BY <1>2 DEF WaitUntilReached
  <2> QED BY <1>1, <2>1, StatusContract
<1>3. CASE ~(w.memory["reach"] # 0 /\ w.robot = w.bb.current_goal)
  <2>1. WaitUntilReached(w) = Running(Remember("reach", 1, w))
    BY <1>3 DEF WaitUntilReached
  <2> QED BY <1>1, <2>1, StatusContract
<1> QED BY <1>2, <1>3

(* The ReactiveSequence that drives to a waypoint (singlenav_tree.xml:45-48) *)
(* never fails and leaves the blackboard alone.                              *)
LEMMA ReachContract ==
  ASSUME NEW w \in Worlds, AtWaypoint(w.bb)
  PROVE  LET r == Reach(w)
         IN  /\ r \in Results /\ r.s \in {"SUCCESS", "RUNNING"}
             /\ PatrolFrame(r.w, w) /\ r.w.bb = w.bb /\ r.w.timer = w.timer
             /\ \A n \in Nodes \ {"reach"} : r.w.memory[n] = w.memory[n]
<1> DEFINE goal == w.bb.current_goal
           p == PubNav2Goal("toWaypoint", goal, w)
           go == Child(1, p)
           arrive == WaitUntilReached(go.w)
           there == Then(2, "SUCCESS", go, arrive)
           r == Reach(w)
<1>1. r = ReactiveEnds([reach |-> 2], there)
  BY DEF Reach
<1>2. goal \in Stops /\ goal \in Poses
  BY WaypointIsStop DEF Worlds
<1> HIDE DEF goal
<1>3. p \in Results /\ p.s = "SUCCESS" /\ Untouched(p.w, w) /\ p.w.memory = w.memory
      /\ Published(p.w, w, "toWaypoint", goal)
  BY <1>2, PublishContract DEF Publishers
<1> HIDE DEF p
<1>4. go \in Results /\ go.s = "SUCCESS" /\ go.w = p.w
  BY <1>3, ChildContract
<1> HIDE DEF go
<1>5. p.w \in Worlds
  BY <1>3 DEF Results
<1>6. /\ arrive \in Results /\ arrive.s \in {"SUCCESS", "RUNNING"} /\ OnlyMemory(arrive.w, p.w)
      /\ \A n \in Nodes \ {"reach"} : arrive.w.memory[n] = p.w.memory[n]
  BY <1>4, <1>5, WaitUntilReachedContract
<1> HIDE DEF arrive
<1>7. there = Child(2, arrive)
  BY <1>4 DEF Then
<1>8. there \in Results /\ there.s = arrive.s /\ there.w = arrive.w
  BY <1>6, <1>7, ChildContract
<1> HIDE DEF there
<1>9. DOMAIN [reach |-> 2] = {"reach"}
  OBVIOUS
<1>10. /\ r \in Results /\ r.s = there.s /\ OnlyMemory(r.w, there.w)
       /\ \A n \in Nodes \ {"reach"} : r.w.memory[n] = there.w.memory[n]
  BY <1>1, <1>8, <1>9, ReactiveEndsContract
<1> HIDE DEF r
<1>11. PatrolFrame(r.w, w)
  BY <1>2, <1>3, <1>6, <1>8, <1>10
     DEF PatrolFrame, OnlyMemory, Untouched, Sensed, Published
<1>12. r.w.bb = w.bb /\ r.w.timer = w.timer
  BY <1>3, <1>6, <1>8, <1>10 DEF OnlyMemory, Untouched
<1>13. \A n \in Nodes \ {"reach"} : r.w.memory[n] = w.memory[n]
  BY <1>3, <1>6, <1>8, <1>10
<1> QED BY <1>6, <1>8, <1>10, <1>11, <1>12, <1>13 DEF r

(* WaitDuration (action.h:623-666) succeeds only if it was running, and its  *)
(* time is over.                                                             *)
LEMMA WaitDurationContract ==
  ASSUME NEW w \in Worlds
  PROVE  LET r == WaitDuration(w)
         IN  /\ r \in Results /\ r.s \in {"SUCCESS", "RUNNING"}
             /\ Sensed(r.w, w) /\ r.w.age = w.age /\ r.w.out = w.out /\ r.w.bb = w.bb
             /\ \A n \in Nodes \ {"wait"} : r.w.memory[n] = w.memory[n]
             /\ r.s = "SUCCESS" =>
                  w.memory["wait"] # 0 /\ w.timer >= WaitTicks /\ r.w.memory["wait"] = 0
<1> DEFINE r == WaitDuration(w)
           v == [w EXCEPT !.timer = 0]
<1>0. "wait" \in Nodes /\ 1 \in 0 .. 3
  BY DEF Nodes
<1>0a. 0 \in 0 .. WaitTicks
  BY TimeAssumption
<1>1. /\ v \in Worlds
      /\ v.memory = w.memory /\ Sensed(v, w) /\ v.age = w.age /\ v.out = w.out /\ v.bb = w.bb
  BY <1>0a DEF Worlds, Sensed
<1> HIDE DEF v
<1>2. CASE w.memory["wait"] = 0
  <2>1. r = Running(Remember("wait", 1, v))
    BY <1>2 DEF WaitDuration, v
  <2>2. /\ Remember("wait", 1, v) \in Worlds /\ OnlyMemory(Remember("wait", 1, v), v)
        /\ \A n \in Nodes \ {"wait"} : Remember("wait", 1, v).memory[n] = v.memory[n]
    BY <1>0, <1>1, RememberContract
  <2>3. r \in Results /\ r.s = "RUNNING" /\ r.w = Remember("wait", 1, v)
    BY <2>1, <2>2, StatusContract
  <2> QED BY <1>1, <2>2, <2>3 DEF OnlyMemory, Untouched, Sensed
<1>3. CASE w.memory["wait"] # 0 /\ w.timer < WaitTicks
  <2>1. r = Running(w)
    BY <1>3 DEF WaitDuration
  <2>2. r \in Results /\ r.s = "RUNNING" /\ r.w = w
    BY <2>1, StatusContract
  <2> QED BY <2>2 DEF Sensed
<1>4. CASE w.memory["wait"] # 0 /\ ~(w.timer < WaitTicks)
  <2>1. r = Success(Remember("wait", 0, w))
    BY <1>4 DEF WaitDuration
  <2>2. /\ Remember("wait", 0, w) \in Worlds /\ OnlyMemory(Remember("wait", 0, w), w)
        /\ Remember("wait", 0, w).memory["wait"] = 0
        /\ \A n \in Nodes \ {"wait"} : Remember("wait", 0, w).memory[n] = w.memory[n]
    BY <1>0, RememberContract
  <2>3. r \in Results /\ r.s = "SUCCESS" /\ r.w = Remember("wait", 0, w)
    BY <2>1, <2>2, StatusContract
  <2>4. w.timer \in Nat
    BY TimeAssumption DEF Worlds
  <2>5. w.timer >= WaitTicks
    BY <1>4, <2>4, TimeAssumption
  <2> QED BY <1>4, <2>2, <2>3, <2>5 DEF OnlyMemory, Untouched, Sensed
<1> QED BY <1>2, <1>3, <1>4

(* NextWaypoint (action.h:669-700) takes the next index, or the first after  *)
(* the last, and is never asked with no waypoints loaded.                    *)
LEMMA NextWaypointContract ==
  ASSUME NEW w \in Worlds, AtWaypoint(w.bb)
  PROVE  LET r == NextWaypoint(w)
         IN  /\ r \in Results /\ r.s = "SUCCESS" /\ r.w.memory = w.memory
             /\ Sensed(r.w, w) /\ r.w.age = w.age /\ r.w.out = w.out
             /\ r.w.bb.waypoints = w.bb.waypoints
             /\ r.w.bb.wp_idx = (w.bb.wp_idx + 1) % Len(w.bb.waypoints)
<1> DEFINE r == NextWaypoint(w)
           next == (w.bb.wp_idx + 1) % Len(w.bb.waypoints)
           board == [w.bb EXCEPT !.wp_idx = next]
           v == [w EXCEPT !.bb = board]
<1>1. w.bb \in Boards
  BY DEF Worlds
<1>2. w.bb.waypoints \in Seq(Stops) /\ w.bb.wp_idx \in Nat
  BY <1>1 DEF Boards
<1>3. Len(w.bb.waypoints) \in Nat \ {0}
  BY <1>2 DEF AtWaypoint
<1>4. next \in Nat
  BY <1>2, <1>3
<1>5. r = Success(v)
  BY DEF NextWaypoint
<1> HIDE DEF next
<1>6. board \in Boards /\ board.waypoints = w.bb.waypoints /\ board.wp_idx = next
  BY <1>1, <1>4 DEF Boards
<1> HIDE DEF board
<1>7. /\ v \in Worlds /\ v.bb = board /\ v.memory = w.memory
      /\ Sensed(v, w) /\ v.age = w.age /\ v.out = w.out
  BY <1>6 DEF Worlds, Sensed
<1> HIDE DEF v
<1>8. r \in Results /\ r.s = "SUCCESS" /\ r.w = v
  BY <1>5, <1>7, StatusContract
<1> QED BY <1>6, <1>7, <1>8 DEF next

\* What a patrol keeps between ticks: the wait belongs to the last child of
\* visit that runs, and a visit under way has a waypoint.
VisitInv(w) ==
  /\ w.memory["visit"] \in {0, 2, 3}
  /\ w.memory["wait"] # 0 => w.memory["visit"] = 3
  /\ w.memory["visit"] # 0 => AtWaypoint(w.bb)

\* The index moves only at the end of the wait.
Advances(r, w) ==
  r.w.bb.wp_idx # w.bb.wp_idx =>
    /\ w.memory["visit"] = 3 /\ w.timer >= WaitTicks
    /\ r.w.bb.wp_idx = (w.bb.wp_idx + 1) % Len(w.bb.waypoints)

Visits(r, w) ==
  /\ r \in Results /\ PatrolFrame(r.w, w) /\ VisitInv(r.w) /\ Advances(r, w)
  /\ \A n \in Nodes \ {"visit", "reach", "wait"} : r.w.memory[n] = w.memory[n]
  /\ r.s = "FAILURE" => r.w.out = w.out

(* Of two steps of a patrol at most one publishes, so together they stay in  *)
(* the frame.                                                                *)
LEMMA PatrolFrameIsTransitive ==
  ASSUME NEW u, NEW v, NEW w, PatrolFrame(u, v), PatrolFrame(v, w), u.out = v.out \/ v.out = w.out
  PROVE  PatrolFrame(u, w)
BY DEF PatrolFrame, Sensed

(* A tick of a visit, wherever the last one left it: the index moves only in *)
(* a tick that finds the wait over, and every running wait is at the         *)
(* waypoint of the index.                                                    *)
LEMMA VisitContract ==
  ASSUME NEW w \in Worlds, VisitInv(w)
  PROVE  Visits(Visit(w), w)
<1> DEFINE first == GetCurrentWaypoint(w)
           get == InOrder("visit", w, 1, Success(w), first)
           second == Reach(get.w)
           reach == InOrder("visit", w, 2, get, second)
           third == WaitDuration(reach.w)
           wait == InOrder("visit", w, 3, reach, third)
           fourth == NextWaypoint(wait.w)
           next == InOrder("visit", w, 4, wait, fourth)
           r == Visit(w)
<1>1. r = SequenceEnds("visit", {"reach", "wait"}, next)
  BY DEF Visit
<1>2. {"visit", "reach", "wait"} \subseteq Nodes
  BY DEF Nodes
<1>3. PatrolFrame(w, w)
  BY DEF PatrolFrame, Sensed
<1>4. /\ get \in Results /\ get.w.memory = w.memory /\ get.w.timer = w.timer
      /\ PatrolFrame(get.w, w) /\ get.w.out = w.out
      /\ get.w.bb.waypoints = w.bb.waypoints /\ get.w.bb.wp_idx = w.bb.wp_idx
      /\ \/ get.s = "FAILURE"
         \/ get.s = "SUCCESS" /\ AtWaypoint(get.w.bb)
  <2>1. CASE w.memory["visit"] = 0
    <3>1. /\ first \in Results /\ first.w.memory = w.memory /\ first.w.timer = w.timer
          /\ Sensed(first.w, w) /\ first.w.age = w.age /\ first.w.out = w.out
          /\ first.w.bb.waypoints = w.bb.waypoints /\ first.w.bb.wp_idx = w.bb.wp_idx
          /\ \/ first.s = "FAILURE"
             \/ first.s = "SUCCESS" /\ AtWaypoint(first.w.bb)
      BY GetCurrentWaypointContract
    <3> HIDE DEF first
    <3>2. get = Child(1, first)
      BY <2>1, StatusContract DEF InOrder, ResumesAt
    <3>3. get \in Results /\ get.s = first.s /\ get.w = first.w
      BY <3>1, <3>2, ChildContract
    <3> HIDE DEF get
    <3> QED BY <3>1, <3>3 DEF PatrolFrame
  <2>2. CASE w.memory["visit"] # 0
    <3>1. get = Success(w)
      BY <2>2 DEF InOrder, ResumesAt, VisitInv
    <3>2. get \in Results /\ get.s = "SUCCESS" /\ get.w = w
      BY <3>1, StatusContract
    <3> HIDE DEF get
    <3> QED BY <1>3, <2>2, <3>2 DEF VisitInv
  <2> QED BY <2>1, <2>2
<1> HIDE DEF first, get
<1>5. /\ reach \in Results /\ reach.w.timer = w.timer
      /\ PatrolFrame(reach.w, w) /\ reach.w.bb = get.w.bb
      /\ \A n \in Nodes \ {"reach"} : reach.w.memory[n] = w.memory[n]
      /\ \/ reach = get /\ reach.s = "FAILURE"
         \/ reach.s = "RUNNING" /\ reach.at = 2 /\ w.memory["visit"] \in {0, 2} /\ get.s = "SUCCESS"
         \/ reach.s = "SUCCESS" /\ get.s = "SUCCESS"
  <2>1. CASE get.s = "FAILURE" \/ w.memory["visit"] = 3
    <3>1. reach = get
      BY <1>4, <2>1 DEF InOrder, ResumesAt
    <3> HIDE DEF reach
    <3> QED BY <1>4, <3>1
  <2>2. CASE get.s = "SUCCESS" /\ w.memory["visit"] # 3
    <3>1. get.w \in Worlds /\ AtWaypoint(get.w.bb)
      BY <1>4, <2>2 DEF Results
    <3>2. /\ second \in Results /\ second.s \in {"SUCCESS", "RUNNING"}
          /\ PatrolFrame(second.w, get.w) /\ second.w.bb = get.w.bb
          /\ second.w.timer = get.w.timer
          /\ \A n \in Nodes \ {"reach"} : second.w.memory[n] = get.w.memory[n]
      BY <3>1, ReachContract
    <3> HIDE DEF second
    <3>3. w.memory["visit"] \in {0, 2}
      BY <2>2 DEF VisitInv
    <3>4. reach = Child(2, second)
      BY <2>2, <3>3 DEF InOrder, ResumesAt
    <3>5. reach \in Results /\ reach.at = 2 /\ reach.s = second.s /\ reach.w = second.w
      BY <3>2, <3>4, ChildContract
    <3> HIDE DEF reach
    <3>6. PatrolFrame(reach.w, w)
      BY <1>4, <3>2, <3>5, PatrolFrameIsTransitive
    <3> QED BY <1>4, <2>2, <3>2, <3>3, <3>5, <3>6
  <2> QED BY <1>4, <2>1, <2>2
<1> HIDE DEF second, reach
<1>6. /\ wait \in Results /\ PatrolFrame(wait.w, w) /\ wait.w.bb = get.w.bb
      /\ \A n \in Nodes \ {"reach", "wait"} : wait.w.memory[n] = w.memory[n]
      /\ \/ wait = reach /\ wait.s # "SUCCESS"
         \/ wait.s = "RUNNING" /\ wait.at = 3 /\ get.s = "SUCCESS"
         \/ /\ wait.s = "SUCCESS" /\ get.s = "SUCCESS"
            /\ w.memory["visit"] = 3 /\ w.timer >= WaitTicks
  <2>1. CASE reach.s # "SUCCESS"
    <3>1. wait = reach
      BY <2>1 DEF InOrder
    <3> HIDE DEF wait
    <3> QED BY <1>5, <2>1, <3>1
  <2>2. CASE reach.s = "SUCCESS"
    <3>1. reach.w \in Worlds
      BY <1>5 DEF Results
    <3>2. /\ third \in Results /\ third.s \in {"SUCCESS", "RUNNING"}
          /\ Sensed(third.w, reach.w) /\ third.w.age = reach.w.age
          /\ third.w.out = reach.w.out /\ third.w.bb = reach.w.bb
          /\ \A n \in Nodes \ {"wait"} : third.w.memory[n] = reach.w.memory[n]
          /\ third.s = "SUCCESS" => reach.w.memory["wait"] # 0 /\ reach.w.timer >= WaitTicks
      BY <3>1, WaitDurationContract
    <3> HIDE DEF third
    <3>3. wait = Child(3, third)
      BY <2>2 DEF InOrder, ResumesAt, VisitInv
    <3>4. wait \in Results /\ wait.at = 3 /\ wait.s = third.s /\ wait.w = third.w
      BY <3>2, <3>3, ChildContract
    <3> HIDE DEF wait
    <3>5. PatrolFrame(wait.w, w)
      BY <1>5, <3>2, <3>4 DEF PatrolFrame, Sensed
    <3>6. wait.s = "SUCCESS" => w.memory["visit"] = 3 /\ w.timer >= WaitTicks
      BY <1>2, <1>5, <3>2, <3>4 DEF VisitInv
    <3>7. get.s = "SUCCESS"
      BY <1>5, <2>2
    <3> QED BY <1>5, <3>2, <3>4, <3>5, <3>6, <3>7
  <2> QED BY <2>1, <2>2
<1> HIDE DEF third, wait
<1>7. /\ next \in Results /\ PatrolFrame(next.w, w)
      /\ \A n \in Nodes \ {"reach", "wait"} : next.w.memory[n] = w.memory[n]
      /\ \/ next = wait /\ wait.s # "SUCCESS"
         \/ /\ next.s = "SUCCESS" /\ w.memory["visit"] = 3 /\ w.timer >= WaitTicks
            /\ next.w.bb.wp_idx = (w.bb.wp_idx + 1) % Len(w.bb.waypoints)
  <2>1. CASE wait.s # "SUCCESS"
    <3>1. next = wait
      BY <2>1 DEF InOrder
    <3> HIDE DEF next
    <3> QED BY <1>6, <2>1, <3>1
  <2>2. CASE wait.s = "SUCCESS"
    <3>1. wait.w \in Worlds /\ AtWaypoint(wait.w.bb)
      BY <1>4, <1>5, <1>6, <2>2 DEF Results
    <3>2. /\ fourth \in Results /\ fourth.s = "SUCCESS" /\ fourth.w.memory = wait.w.memory
          /\ Sensed(fourth.w, wait.w) /\ fourth.w.age = wait.w.age
          /\ fourth.w.out = wait.w.out
          /\ fourth.w.bb.wp_idx = (wait.w.bb.wp_idx + 1) % Len(wait.w.bb.waypoints)
      BY <3>1, NextWaypointContract
    <3> HIDE DEF fourth
    <3>3. next = Child(4, fourth)
      BY <2>2 DEF InOrder, ResumesAt, VisitInv
    <3>4. next \in Results /\ next.s = fourth.s /\ next.w = fourth.w
      BY <3>2, <3>3, ChildContract
    <3> HIDE DEF next
    <3>5. PatrolFrame(next.w, w)
      BY <1>6, <3>2, <3>4 DEF PatrolFrame, Sensed
    <3>6. next.w.bb.wp_idx = (w.bb.wp_idx + 1) % Len(w.bb.waypoints)
      BY <1>4, <1>6, <3>2, <3>4
    <3>7. w.memory["visit"] = 3 /\ w.timer >= WaitTicks
      BY <1>5, <1>6, <2>2
    <3> QED BY <1>6, <3>2, <3>4, <3>5, <3>6, <3>7
  <2> QED BY <2>1, <2>2
<1> HIDE DEF fourth, next
<1>8. next.s # "RUNNING" \/ next.at \in {2, 3}
  BY <1>4, <1>5, <1>6, <1>7
<1>9. CASE next.s # "RUNNING"
  <2>1. /\ r \in Results /\ r.s = next.s /\ OnlyMemory(r.w, next.w)
        /\ \A m \in Nodes :
             r.w.memory[m] = IF m \in {"visit", "reach", "wait"} THEN 0 ELSE next.w.memory[m]
    <3>1. next \in Results /\ "visit" \in Nodes
      BY <1>2, <1>7
    <3> QED BY <1>1, <1>9, <3>1, SequenceEndsContract
  <2> HIDE DEF r
  <2>2. VisitInv(r.w)
    BY <1>2, <2>1 DEF VisitInv
  <2>3. r.w.bb = next.w.bb
    BY <2>1 DEF OnlyMemory, Untouched
  <2>4. Advances(r, w)
    BY <1>4, <1>5, <1>6, <1>7, <2>3 DEF Advances
  <2>5. PatrolFrame(r.w, w)
    BY <1>7, <2>1 DEF PatrolFrame, OnlyMemory, Untouched, Sensed
  <2>6. ASSUME r.s = "FAILURE" PROVE r.w.out = w.out
    <3>1. next = wait /\ next.s = "FAILURE"
      BY <1>7, <2>1, <2>6
    <3>2. next = reach
      BY <1>6, <3>1
    <3>3. next = get
      BY <1>5, <3>1, <3>2
    <3>4. r.w.out = next.w.out
      BY <2>1 DEF OnlyMemory
    <3> QED BY <1>4, <3>3, <3>4
  <2>7. Visits(r, w)
    BY <1>2, <1>7, <2>1, <2>2, <2>4, <2>5, <2>6 DEF Visits
  <2> QED BY <2>7 DEF r
<1>10. CASE next.s = "RUNNING"
  <2>1. next = wait /\ get.s = "SUCCESS" /\ AtWaypoint(next.w.bb)
    BY <1>4, <1>5, <1>6, <1>7, <1>10
  <2>2. /\ r \in Results /\ r.s = "RUNNING" /\ OnlyMemory(r.w, next.w)
        /\ r.w.memory["visit"] = next.at
        /\ \A m \in Nodes \ {"visit"} : r.w.memory[m] = next.w.memory[m]
    <3>1. next \in Results /\ next.at \in 0 .. 3 /\ "visit" \in Nodes
      BY <1>2, <1>7, <1>8, <1>10
    <3> QED BY <1>1, <1>10, <3>1, SequenceEndsContract
  <2> HIDE DEF r
  <2>3. r.w.bb = next.w.bb
    BY <2>2 DEF OnlyMemory, Untouched
  <2>4. next.at = 2 => r.w.memory["wait"] = 0
    <3>1. SUFFICES ASSUME next.at = 2 PROVE next.w.memory["wait"] = 0
      BY <1>2, <2>2
    <3>2. wait = reach /\ w.memory["visit"] \in {0, 2}
      BY <1>4, <1>5, <1>6, <1>10, <2>1, <3>1
    <3> QED BY <1>2, <1>5, <2>1, <3>2 DEF VisitInv
  <2>5. VisitInv(r.w)
    BY <1>8, <1>10, <2>1, <2>2, <2>3, <2>4 DEF VisitInv
  <2>6. Advances(r, w)
    BY <1>4, <1>6, <2>1, <2>3 DEF Advances
  <2>7. PatrolFrame(r.w, w)
    BY <1>7, <2>2 DEF PatrolFrame, OnlyMemory, Untouched, Sensed
  <2>8. Visits(r, w)
    BY <1>2, <1>7, <2>2, <2>5, <2>6, <2>7 DEF Visits
  <2> QED BY <2>8 DEF r
<1> QED BY <1>9, <1>10

(* What include.h:48-109 loads from a file are poses of that file.           *)
LEMMA LoadedPosesAreStops ==
  ASSUME NEW f \in Files
  PROVE  LoadedPoses(f) \in Seq(Stops)
<1>1. LoadedPoses(f) \in Seq(Poses)
  BY FilesAssumption
<1>2. \A i \in 1 .. Len(LoadedPoses(f)) : LoadedPoses(f)[i] \in Stops
  BY <1>1 DEF Stops
<1> QED BY <1>1, <1>2

(* LoadWaypoints (action.h:453-495) replaces the waypoints, never the index. *)
LEMMA LoadWaypointsContract ==
  ASSUME NEW w \in Worlds
  PROVE  LET r == LoadWaypoints(w)
         IN  /\ r \in Results /\ r.s \in {"SUCCESS", "FAILURE"} /\ r.w.memory = w.memory
             /\ PatrolFrame(r.w, w) /\ r.w.out = w.out /\ r.w.timer = w.timer
             /\ r.w.bb.wp_idx = w.bb.wp_idx
<1> DEFINE r == LoadWaypoints(w)
           poses == LoadedPoses(w.csv)
           waits == LoadedWaits(w.csv)
           board == [w.bb EXCEPT !.waypoints = poses, !.wait_times = waits]
           v == [w EXCEPT !.bb = board]
<1>1. CASE poses = <<>>
  <2>1. r = Failure(w)
    BY <1>1 DEF LoadWaypoints
  <2>2. r \in Results /\ r.s = "FAILURE" /\ r.w = w
    BY <2>1, StatusContract
  <2> QED BY <2>2 DEF PatrolFrame, Sensed
<1>2. CASE poses # <<>>
  <2>1. w.csv \in Files /\ w.bb \in Boards
    BY DEF Worlds
  <2>2. poses \in Seq(Stops) /\ waits \in Waits
    BY <2>1, LoadedPosesAreStops DEF Waits
  <2>3. r = Success([w EXCEPT !.bb.waypoints = poses, !.bb.wait_times = waits])
    BY <1>2 DEF LoadWaypoints
  <2> HIDE DEF poses, waits
  <2> DEFINE half == [w.bb EXCEPT !.waypoints = poses]
             u == [w EXCEPT !.bb = half]
             full == [half EXCEPT !.wait_times = waits]
             t == [u EXCEPT !.bb = full]
  <2>4. half \in Boards /\ half.wp_idx = w.bb.wp_idx
    BY <2>1, <2>2 DEF Boards
  <2>5. u \in Worlds /\ u.bb = half /\ u.memory = w.memory /\ u.timer = w.timer
        /\ Sensed(u, w) /\ u.age = w.age /\ u.out = w.out
    <3> HIDE DEF half
    <3> QED BY <2>4 DEF Worlds, Sensed
  <2>6. r = Success(t)
    <3>1. t = [w EXCEPT !.bb.waypoints = poses, !.bb.wait_times = waits]
      BY <2>5
    <3> QED BY <2>3, <3>1
  <2> HIDE DEF half, u
  <2>7. full \in Boards /\ full.wp_idx = w.bb.wp_idx
    BY <2>2, <2>4 DEF Boards
  <2> HIDE DEF full
  <2>8. t \in Worlds /\ t.bb = full /\ t.memory = w.memory /\ t.timer = w.timer
        /\ Sensed(t, w) /\ t.age = w.age /\ t.out = w.out
    BY <2>5, <2>7 DEF Worlds, Sensed
  <2> HIDE DEF t
  <2>9. r \in Results /\ r.s = "SUCCESS" /\ r.w = t
    BY <2>6, <2>8, StatusContract
  <2> QED BY <2>7, <2>8, <2>9 DEF PatrolFrame
<1> QED BY <1>1, <1>2

(* KeepRunningUntilFailure makes a success of the tree a reason to be ticked *)
(* again.                                                                    *)
LEMMA KeepRunningContract ==
  ASSUME NEW r \in Results
  PROVE  LET k == KeepRunningUntilFailure(r)
         IN  /\ k \in Results /\ k.w = r.w
             /\ k.s = IF r.s = "FAILURE" THEN "FAILURE" ELSE "RUNNING"
BY DEF KeepRunningUntilFailure, Results

PatrolInv(w) ==
  /\ VisitInv(w)
  /\ w.memory["patrol"] \in {0, 2}
  /\ w.memory["visit"] # 0 => w.memory["patrol"] = 2

PatrolNodes == {"patrol", "visit", "reach", "wait"}

Patrols(r, w) ==
  /\ r \in Results /\ PatrolFrame(r.w, w) /\ PatrolInv(r.w) /\ Advances(r, w)
  /\ \A n \in Nodes \ PatrolNodes : r.w.memory[n] = w.memory[n]
  /\ r.s = "FAILURE" => r.w.out = w.out

\* A patrol that is halted keeps nothing but the blackboard.
LEMMA HaltedPatrol ==
  ASSUME NEW w, \A n \in PatrolNodes : w.memory[n] = 0
  PROVE  PatrolInv(w)
BY DEF PatrolInv, VisitInv, PatrolNodes

(* A tick of the whole patrol keeps what the visits rely on, although the    *)
(* waypoints are loaded anew each time it starts.                            *)
LEMMA PatrolContract ==
  ASSUME NEW w \in Worlds, PatrolInv(w)
  PROVE  Patrols(Patrol(w), w)
<1> DEFINE first == LoadWaypoints(w)
           load == InOrder("patrol", w, 1, Success(w), first)
           visit == Visit(load.w)
           keep == KeepRunningUntilFailure(visit)
           visits == InOrder("patrol", w, 2, load, keep)
           r == Patrol(w)
<1>1. r = SequenceEnds("patrol", {"visit", "reach", "wait"}, visits)
  BY DEF Patrol
<1>2. PatrolNodes \subseteq Nodes
  BY DEF Nodes, PatrolNodes
<1>3. PatrolFrame(w, w)
  BY DEF PatrolFrame, Sensed
<1>4. /\ load \in Results /\ load.s \in {"SUCCESS", "FAILURE"}
      /\ load.w.memory = w.memory /\ PatrolFrame(load.w, w) /\ load.w.out = w.out
      /\ load.w.timer = w.timer /\ load.w.bb.wp_idx = w.bb.wp_idx
      /\ w.memory["visit"] # 0 => load.w = w
  <2>1. CASE w.memory["patrol"] = 0
    <3>1. /\ first \in Results /\ first.s \in {"SUCCESS", "FAILURE"}
          /\ first.w.memory = w.memory /\ PatrolFrame(first.w, w) /\ first.w.out = w.out
          /\ first.w.timer = w.timer /\ first.w.bb.wp_idx = w.bb.wp_idx
      BY LoadWaypointsContract
    <3> HIDE DEF first
    <3>2. load = Child(1, first)
      BY <2>1, StatusContract DEF InOrder, ResumesAt
    <3>3. load \in Results /\ load.s = first.s /\ load.w = first.w
      BY <3>1, <3>2, ChildContract
    <3> HIDE DEF load
    <3> QED BY <2>1, <3>1, <3>3 DEF PatrolInv
  <2>2. CASE w.memory["patrol"] = 2
    <3>1. load = Success(w)
      BY <2>2 DEF InOrder, ResumesAt
    <3>2. load \in Results /\ load.s = "SUCCESS" /\ load.w = w
      BY <3>1, StatusContract
    <3> HIDE DEF load
    <3> QED BY <1>3, <3>2
  <2> QED BY <2>1, <2>2 DEF PatrolInv
<1> HIDE DEF first, load
<1>5. CASE load.s = "FAILURE"
  <2>1. visits = load
    BY <1>5 DEF InOrder
  <2>2. "patrol" \in Nodes
    BY DEF Nodes
  <2>3. /\ r \in Results /\ OnlyMemory(r.w, load.w)
        /\ \A m \in Nodes : r.w.memory[m] = IF m \in PatrolNodes THEN 0 ELSE load.w.memory[m]
    BY <1>1, <1>4, <1>5, <2>1, <2>2, SequenceEndsContract DEF PatrolNodes
  <2> HIDE DEF r
  <2>4. PatrolFrame(r.w, w) /\ r.w.bb = load.w.bb /\ r.w.out = w.out
    BY <1>4, <2>3 DEF PatrolFrame, OnlyMemory, Untouched, Sensed
  <2>5. PatrolInv(r.w)
    BY <1>2, <2>3, HaltedPatrol
  <2>6. Patrols(r, w)
    BY <1>4, <2>3, <2>4, <2>5 DEF Patrols, Advances
  <2> QED BY <2>6 DEF r
<1>6. CASE load.s = "SUCCESS"
  <2>1. load.w \in Worlds /\ VisitInv(load.w)
    <3>1. load.w \in Worlds
      BY <1>4 DEF Results
    <3>2. VisitInv(load.w)
      BY <1>4 DEF PatrolInv, VisitInv
    <3> QED BY <3>1, <3>2
  <2>2. Visits(visit, load.w)
    BY <2>1, VisitContract
  <2> HIDE DEF visit
  <2>3. keep \in Results /\ keep.w = visit.w
        /\ keep.s = IF visit.s = "FAILURE" THEN "FAILURE" ELSE "RUNNING"
    BY <2>2, KeepRunningContract DEF Visits
  <2> HIDE DEF keep
  <2>4. visits = Child(2, keep)
    BY <1>6 DEF InOrder, ResumesAt, PatrolInv
  <2>5. visits \in Results /\ visits.at = 2 /\ visits.s = keep.s /\ visits.w = visit.w
    BY <2>3, <2>4, ChildContract
  <2> HIDE DEF visits
  <2>6. "patrol" \in Nodes /\ "visit" \in Nodes
    BY DEF Nodes
  <2>7. PatrolFrame(visit.w, w)
    BY <1>4, <2>2, PatrolFrameIsTransitive DEF Visits
  <2>8. \A n \in Nodes \ {"visit", "reach", "wait"} : visit.w.memory[n] = w.memory[n]
    BY <1>4, <2>2 DEF Visits
  <2>9. visit.w.bb.wp_idx # w.bb.wp_idx =>
          /\ w.memory["visit"] = 3 /\ w.timer >= WaitTicks
          /\ visit.w.bb.wp_idx = (w.bb.wp_idx + 1) % Len(w.bb.waypoints)
    BY <1>4, <2>2 DEF Visits, Advances
  <2>10. /\ r \in Results /\ r.s = keep.s /\ OnlyMemory(r.w, visit.w)
         /\ r.s = "RUNNING" =>
              /\ r.w.memory["patrol"] = 2
              /\ \A m \in Nodes \ {"patrol"} : r.w.memory[m] = visit.w.memory[m]
         /\ r.s # "RUNNING" =>
              \A m \in Nodes : r.w.memory[m] = IF m \in PatrolNodes THEN 0 ELSE visit.w.memory[m]
    BY <1>1, <2>5, <2>6, SequenceEndsContract DEF PatrolNodes
  <2> HIDE DEF r
  <2>11. PatrolFrame(r.w, w) /\ r.w.bb = visit.w.bb
    BY <2>7, <2>10 DEF PatrolFrame, OnlyMemory, Untouched, Sensed
  <2>12. Advances(r, w)
    BY <2>9, <2>11 DEF Advances
  <2>13. \A n \in Nodes \ PatrolNodes : r.w.memory[n] = w.memory[n]
    BY <2>8, <2>10 DEF PatrolNodes
  <2>14. PatrolInv(r.w)
    <3>1. CASE r.s = "RUNNING"
      <4>1. "wait" \in Nodes
        BY DEF Nodes
      <4>2. VisitInv(visit.w)
        BY <2>2 DEF Visits
      <4>3. VisitInv(r.w)
        BY <2>6, <2>10, <2>11, <3>1, <4>1, <4>2 DEF VisitInv
      <4> QED BY <2>10, <3>1, <4>3 DEF PatrolInv
    <3>2. CASE r.s # "RUNNING"
      BY <1>2, <2>10, <3>2, HaltedPatrol
    <3> QED BY <3>1, <3>2
  <2>15. r.s = "FAILURE" => r.w.out = w.out
    BY <1>4, <2>2, <2>3, <2>10 DEF Visits, OnlyMemory
  <2>16. Patrols(r, w)
    BY <2>10, <2>11, <2>12, <2>13, <2>14, <2>15 DEF Patrols
  <2> QED BY <2>16 DEF r
<1> QED BY <1>4, <1>5, <1>6

(* The patrol is ticked, and so its index moves, only while the zone is not  *)
(* taken.                                                                    *)
LEMMA PatrolZoneContract ==
  ASSUME NEW w \in Worlds, PatrolInv(w)
  PROVE  /\ Patrols(PatrolZone(w), w)
         /\ PatrolZone(w).w.bb.wp_idx # w.bb.wp_idx => ~ZoneStatus(w.seen)
<1> DEFINE clear == Child(1, Inverter(ZsCondition(w)))
           patrol == Patrol(clear.w)
           body == Then(2, "SUCCESS", clear, patrol)
           below == [patrol |-> 2, visit |-> 2, reach |-> 2, wait |-> 2]
           r == PatrolZone(w)
<1>1. r = ReactiveEnds(below, body)
  BY DEF PatrolZone
<1>2. DOMAIN below = PatrolNodes /\ \A n \in PatrolNodes : below[n] = 2
  BY DEF PatrolNodes
<1> HIDE DEF below
<1>3. /\ clear \in Results /\ clear.at = 1 /\ clear.w = w
      /\ clear.s = IF ZoneStatus(w.seen) THEN "FAILURE" ELSE "SUCCESS"
  BY ZoneFacts
<1> HIDE DEF clear
<1>4. Patrols(patrol, w)
  BY <1>3, PatrolContract
<1> HIDE DEF patrol
<1>5. PatrolNodes \subseteq Nodes
  BY DEF Nodes, PatrolNodes
<1>6. PatrolFrame(w, w)
  BY DEF PatrolFrame, Sensed
<1>7. CASE clear.s = "FAILURE"
  <2>1. body = clear
    BY <1>7 DEF Then
  <2>2. /\ r \in Results /\ OnlyMemory(r.w, w)
        /\ \A m \in Nodes : r.w.memory[m] = IF m \in PatrolNodes THEN 0 ELSE w.memory[m]
    BY <1>1, <1>2, <1>3, <1>7, <2>1, ReactiveEndsContract
  <2> HIDE DEF r
  <2>3. PatrolFrame(r.w, w) /\ r.w.bb = w.bb /\ r.w.out = w.out
    BY <1>6, <2>2 DEF PatrolFrame, OnlyMemory, Untouched, Sensed
  <2>4. PatrolInv(r.w)
    BY <1>5, <2>2, HaltedPatrol
  <2>5. Patrols(r, w)
    BY <2>2, <2>3, <2>4 DEF Patrols, Advances
  <2> QED BY <2>3, <2>5 DEF r
<1>8. CASE clear.s = "SUCCESS"
  <2>1. body = Child(2, patrol)
    BY <1>8 DEF Then
  <2>2. body \in Results /\ body.at = 2 /\ body.s = patrol.s /\ body.w = patrol.w
    BY <1>4, <2>1, ChildContract DEF Patrols
  <2> HIDE DEF body
  <2>3. /\ r \in Results /\ r.s = patrol.s /\ OnlyMemory(r.w, patrol.w)
        /\ \A m \in Nodes :
             r.w.memory[m] = IF m \in PatrolNodes /\ r.s # "RUNNING" THEN 0 ELSE patrol.w.memory[m]
    BY <1>1, <1>2, <2>2, ReactiveEndsContract
  <2> HIDE DEF r
  <2>4. PatrolFrame(r.w, w) /\ r.w.bb = patrol.w.bb
    BY <1>4, <2>3 DEF Patrols, PatrolFrame, OnlyMemory, Untouched, Sensed
  <2>5. PatrolInv(r.w)
    <3>1. CASE r.s = "RUNNING"
      <4>1. "patrol" \in Nodes /\ "visit" \in Nodes /\ "wait" \in Nodes
        BY DEF Nodes
      <4> QED BY <1>4, <2>3, <2>4, <3>1, <4>1 DEF Patrols, PatrolInv, VisitInv
    <3>2. CASE r.s # "RUNNING"
      BY <1>5, <2>3, <3>2, HaltedPatrol
    <3> QED BY <3>1, <3>2
  <2>6. Advances(r, w)
    BY <1>4, <2>4 DEF Patrols, Advances
  <2>7. \A n \in Nodes \ PatrolNodes : r.w.memory[n] = w.memory[n]
    BY <1>4, <2>3 DEF Patrols
  <2>8. Patrols(r, w)
    BY <1>4, <2>3, <2>4, <2>5, <2>6, <2>7 DEF Patrols, OnlyMemory
  <2> QED BY <1>3, <1>8, <2>8 DEF r
<1> QED BY <1>3, <1>7, <1>8

-----------------------------------------------------------------------------
(* The trees.                                                              *)

\* What holds of the world whenever the tree chooses: a retreat has a status
\* message behind it.
TickInv(w) ==
  /\ w.memory["home"] \in {0, 2} /\ w.memory["goHome"] \in {0, 2}
  /\ w.memory["home"] = 0 => w.memory["goHome"] = 0
  /\ w.memory["home"] # 0 => w.seen # NoStatus
  /\ PatrolInv(w)

\* What the tree may do besides going home.
Continues(r, w) ==
  /\ r \in Results
  /\ Sensed(r.w, w) /\ PatrolInv(r.w) /\ Advances(r, w)
  /\ \A n \in Nodes \ PatrolNodes : r.w.memory[n] = w.memory[n]
  /\ r.w.bb.wp_idx # w.bb.wp_idx => ~ZoneStatus(w.seen)
  /\ \/ r.w.out = w.out
     \/ \E p \in Poses : r.w.out = Append(w.out, p) /\ (p = "home" => "home" \in Stops)

Rests(r, w) == Continues(r, w) /\ r.s # "FAILURE" /\ r.at \in {3, 4, 5}

\* What the tree does when it chooses.
Chooses(r, w) ==
  /\ r \in Results /\ r.s # "FAILURE" /\ TickInv(r.w)
  /\ r.w.memory["root"] = w.memory["root"] /\ r.w.csv = w.csv /\ r.w.robot = w.robot
  /\ r.w.memory["home"] # 0 <=> Hp(r.w.seen) < IF w.memory["home"] # 0 THEN 350 ELSE 210
  /\ r.w.seen = IF w.inbox = NoStatus THEN w.seen ELSE w.inbox
  /\ r.w.seen = NoStatus => r.w.out = w.out
  /\ \/ r.w.out = w.out
     \/ \E p \in Poses :
          /\ r.w.out = Append(w.out, p)
          /\ r.w.memory["home"] # 0 => p = "home"
          /\ p = "home" => r.w.memory["home"] # 0 \/ w.memory["home"] # 0 \/ "home" \in Stops
  /\ r.w.memory["home"] # 0 /\ w.memory["goHome"] = 0 /\ w.age["toHome"] = Interval =>
       r.w.out # w.out
  /\ Advances(r, w)
  /\ r.w.bb.wp_idx # w.bb.wp_idx =>
       /\ r.w.seen # NoStatus /\ Hp(r.w.seen) >= 210 /\ ~ZoneStatus(r.w.seen)
       /\ r.w.memory["home"] = 0

\* The children that a ReactiveFallback halts when another one runs: the branch
\* that goes home, its second, and the patrol, its third child, if there is one.
IsBelow(below) ==
  /\ DOMAIN below = {"home", "goHome"} \/ DOMAIN below = {"home", "goHome"} \cup PatrolNodes
  /\ below["home"] = 2 /\ below["goHome"] = 2
  /\ \A n \in PatrolNodes \cap DOMAIN below : below[n] = 3

(* A sequence is never the same with one more element.                       *)
LEMMA SameOut ==
  ASSUME NEW w \in Worlds, NEW p
  PROVE  Append(w.out, p) # w.out
<1>1. w.out \in Seq(Poses)
  BY DEF Worlds
<1>2. Len(Append(w.out, p)) = Len(w.out) + 1 /\ Len(w.out) \in Nat
  BY <1>1
<1> QED BY <1>2

\* What ReactiveEnds does to the memory of the branches.
LEMMA EndsContract ==
  ASSUME NEW r \in Results, NEW below, IsBelow(below), PatrolInv(r.w)
  PROVE  LET e == ReactiveEnds(below, r)
         IN  /\ e \in Results /\ e.s = r.s /\ OnlyMemory(e.w, r.w)
             /\ e.w.memory["root"] = r.w.memory["root"]
             /\ IF r.s = "RUNNING" /\ r.at = 2
                THEN /\ e.w.memory["home"] = r.w.memory["home"]
                     /\ e.w.memory["goHome"] = r.w.memory["goHome"]
                ELSE e.w.memory["home"] = 0 /\ e.w.memory["goHome"] = 0
             /\ PatrolInv(e.w)
<1> DEFINE e == ReactiveEnds(below, r)
<1>1. /\ e \in Results /\ e.s = r.s /\ OnlyMemory(e.w, r.w)
      /\ \A m \in Nodes :
           e.w.memory[m] =
             IF m \in DOMAIN below /\ (r.s # "RUNNING" \/ below[m] # r.at)
             THEN 0 ELSE r.w.memory[m]
  BY ReactiveEndsContract
<1> HIDE DEF e
<1>2. {"root", "home", "goHome"} \subseteq Nodes \ PatrolNodes /\ PatrolNodes \subseteq Nodes
  BY DEF Nodes, PatrolNodes
<1>3. e.w.memory["root"] = r.w.memory["root"]
  <2>1. "root" \notin DOMAIN below
    BY <1>2 DEF IsBelow
  <2> QED BY <1>1, <1>2, <2>1
<1>4. IF r.s = "RUNNING" /\ r.at = 2
      THEN /\ e.w.memory["home"] = r.w.memory["home"]
           /\ e.w.memory["goHome"] = r.w.memory["goHome"]
      ELSE e.w.memory["home"] = 0 /\ e.w.memory["goHome"] = 0
  BY <1>1, <1>2 DEF IsBelow
<1>5. \/ \A m \in PatrolNodes : e.w.memory[m] = 0
      \/ \A m \in PatrolNodes : e.w.memory[m] = r.w.memory[m]
  <2>1. CASE PatrolNodes \cap DOMAIN below = {}
    BY <1>1, <1>2, <2>1
  <2>2. CASE PatrolNodes \subseteq DOMAIN below /\ (r.s # "RUNNING" \/ 3 # r.at)
    BY <1>1, <1>2, <2>2 DEF IsBelow
  <2>3. CASE PatrolNodes \subseteq DOMAIN below /\ ~(r.s # "RUNNING" \/ 3 # r.at)
    BY <1>1, <1>2, <2>3 DEF IsBelow
  <2>4. \/ PatrolNodes \cap DOMAIN below = {}
        \/ PatrolNodes \subseteq DOMAIN below
    BY <1>2 DEF IsBelow, PatrolNodes
  <2> QED BY <2>1, <2>2, <2>3, <2>4
<1>6. PatrolInv(e.w)
  <2>1. CASE \A m \in PatrolNodes : e.w.memory[m] = 0
    BY <2>1, HaltedPatrol
  <2>2. CASE \A m \in PatrolNodes : e.w.memory[m] = r.w.memory[m]
    <3>1. e.w.bb = r.w.bb
      BY <1>1 DEF OnlyMemory, Untouched
    <3> QED BY <2>2, <3>1 DEF PatrolInv, VisitInv, PatrolNodes
  <2> QED BY <1>5, <2>1, <2>2
<1> QED BY <1>1, <1>3, <1>4, <1>6 DEF e

(* What the four trees have in common: the robot goes home if it must, and   *)
(* what is below that branch is ticked, and publishes, only otherwise.       *)
(* Whatever was running there when the robot has to go home is halted in the *)
(* same tick.                                                                *)
LEMMA ChoiceContract ==
  ASSUME NEW w \in Worlds, TickInv(w), NEW kind, NEW rest, NEW below, IsBelow(below),
         Then(2, "FAILURE", Unread(w), Home(kind, Unread(w).w)).s = "FAILURE" =>
           Rests(rest, Then(2, "FAILURE", Unread(w), Home(kind, Unread(w).w)).w)
  PROVE  LET home == Then(2, "FAILURE", Unread(w), Home(kind, Unread(w).w))
         IN  Chooses(ReactiveEnds(below, IF home.s = "FAILURE" THEN rest ELSE home), w)
<1> DEFINE unread == Unread(w)
           h == Home(kind, unread.w)
           home == Then(2, "FAILURE", unread, h)
           last == IF home.s = "FAILURE" THEN rest ELSE home
           e == ReactiveEnds(below, last)
<1>1. /\ unread \in Results /\ unread.at = 1
      /\ unread.w.memory = w.memory /\ unread.w.bb = w.bb /\ unread.w.age = w.age
      /\ unread.w.timer = w.timer /\ unread.w.out = w.out /\ unread.w.csv = w.csv
      /\ unread.w.robot = w.robot
      /\ unread.w.seen = IF w.inbox = NoStatus THEN w.seen ELSE w.inbox
      /\ unread.s = IF unread.w.seen = NoStatus THEN "SUCCESS" ELSE "FAILURE"
  BY UnreadContract
<1>2. home.s = "FAILURE" => Rests(rest, home.w)
  OBVIOUS
<1> HIDE DEF unread
<1>3. unread.w \in Worlds /\ TickInv(unread.w) /\ PatrolInv(unread.w)
  BY <1>1 DEF Results, TickInv, PatrolInv, VisitInv
<1>4. {"root", "home", "goHome"} \subseteq Nodes \ PatrolNodes /\ PatrolNodes \subseteq Nodes
  BY DEF Nodes, PatrolNodes
<1>5. CASE unread.s = "SUCCESS"
  <2>1. home = unread
    BY <1>5 DEF Then
  <2>2. last = unread
    BY <1>5, <2>1
  <2>3. /\ e \in Results /\ e.s = "SUCCESS" /\ OnlyMemory(e.w, unread.w)
        /\ e.w.memory["root"] = unread.w.memory["root"]
        /\ e.w.memory["home"] = 0 /\ e.w.memory["goHome"] = 0 /\ PatrolInv(e.w)
    BY <1>1, <1>3, <1>5, <2>2, EndsContract
  <2> HIDE DEF e
  <2>4. e.w.seen = unread.w.seen /\ e.w.seen = NoStatus /\ w.seen = NoStatus
        /\ w.memory["home"] = 0
    BY <1>1, <1>5, <2>3 DEF OnlyMemory, Untouched, Sensed, TickInv
  <2>5. Hp(e.w.seen) = 400
    BY <2>4 DEF Hp
  <2>6. e.w.out = w.out /\ e.w.bb = w.bb /\ e.w.csv = w.csv /\ e.w.robot = w.robot
    BY <1>1, <2>3 DEF OnlyMemory, Untouched, Sensed
  <2>7. Chooses(e, w)
    BY <1>1, <2>3, <2>4, <2>5, <2>6 DEF Chooses, TickInv, Advances
  <2> QED BY <2>7 DEF e, last, home, h, unread
<1>6. CASE unread.s = "FAILURE"
  <2>1. GoesHome(h, unread.w)
    BY <1>3, HomeContract DEF TickInv
  <2> HIDE DEF h
  <2>2. home = Child(2, h)
    BY <1>6 DEF Then
  <2>3. home \in Results /\ home.at = 2 /\ home.s = h.s /\ home.w = h.w
    BY <2>1, <2>2, ChildContract DEF GoesHome
  <2> HIDE DEF home
  <2>4. h.w.seen = unread.w.seen /\ unread.w.seen # NoStatus /\ Hp(unread.w.seen) \in Nat
        /\ h.w.csv = w.csv /\ h.w.robot = w.robot /\ h.w.bb = w.bb /\ h.w.timer = w.timer
        /\ h.w.memory["root"] = w.memory["root"] /\ h.w.memory["goHome"] \in {0, 2}
    BY <1>1, <1>3, <1>4, <1>6, <2>1, HpFacts DEF GoesHome, Untouched, Sensed
  <2>5. PatrolInv(h.w)
    BY <1>3, <1>4, <2>1, <2>4, <1>1 DEF GoesHome, PatrolInv, VisitInv, PatrolNodes
  <2>6. CASE h.s = "FAILURE"
    <3>1. last = rest /\ Rests(rest, h.w)
      BY <1>2, <2>3, <2>6
    <3>2. rest \in Results /\ rest.s # "FAILURE" /\ rest.at # 2 /\ PatrolInv(rest.w)
      BY <3>1 DEF Rests, Continues
    <3>3. /\ e \in Results /\ e.s # "FAILURE" /\ OnlyMemory(e.w, rest.w)
          /\ e.w.memory["root"] = rest.w.memory["root"]
          /\ e.w.memory["home"] = 0 /\ e.w.memory["goHome"] = 0 /\ PatrolInv(e.w)
      BY <3>1, <3>2, EndsContract
    <3> HIDE DEF e, last
    <3>4. w.memory["home"] = 0 /\ Hp(unread.w.seen) >= 210 /\ h.w.out = w.out
      BY <1>1, <2>1, <2>4, <2>6 DEF GoesHome
    <3>5. e.w.seen = unread.w.seen /\ e.w.csv = w.csv /\ e.w.robot = w.robot
          /\ e.w.bb = rest.w.bb /\ e.w.out = rest.w.out
          /\ e.w.memory["root"] = w.memory["root"]
      BY <1>4, <2>4, <3>1, <3>3 DEF Rests, Continues, OnlyMemory, Untouched, Sensed
    <3>6. \/ e.w.out = w.out
          \/ \E p \in Poses : e.w.out = Append(w.out, p) /\ (p = "home" => "home" \in Stops)
      BY <3>1, <3>4, <3>5 DEF Rests, Continues
    <3>7. \A n \in PatrolNodes : h.w.memory[n] = w.memory[n]
      BY <1>1, <1>4, <2>1 DEF GoesHome, PatrolNodes
    <3>8. Advances(e, w)
      <4>1. "visit" \in PatrolNodes
        BY DEF PatrolNodes
      <4> QED BY <2>4, <3>1, <3>5, <3>7, <4>1 DEF Rests, Continues, Advances
    <3>9. e.w.bb.wp_idx # w.bb.wp_idx => ~ZoneStatus(unread.w.seen)
      BY <2>4, <3>1, <3>5 DEF Rests, Continues
    <3>10. TickInv(e.w)
      BY <3>3 DEF TickInv
    <3>11. e.w.memory["home"] # 0 <=> Hp(e.w.seen) < IF w.memory["home"] # 0 THEN 350 ELSE 210
      BY <2>4, <3>3, <3>4, <3>5
    <3>12. Chooses(e, w)
      BY <1>1, <2>4, <3>3, <3>4, <3>5, <3>6, <3>8, <3>9, <3>10, <3>11 DEF Chooses
    <3> QED BY <3>12 DEF e, last, home, h, unread
  <2>7. CASE h.s # "FAILURE"
    <3>1. last = home
      BY <2>3, <2>7
    <3>2. /\ e \in Results /\ e.s = h.s /\ OnlyMemory(e.w, h.w)
          /\ e.w.memory["root"] = h.w.memory["root"]
          /\ IF h.s = "RUNNING"
             THEN /\ e.w.memory["home"] = h.w.memory["home"]
                  /\ e.w.memory["goHome"] = h.w.memory["goHome"]
             ELSE e.w.memory["home"] = 0 /\ e.w.memory["goHome"] = 0
          /\ PatrolInv(e.w)
      BY <2>3, <2>5, <3>1, EndsContract
    <3> HIDE DEF e, last
    <3>3. /\ e.w.seen = unread.w.seen /\ e.w.csv = w.csv /\ e.w.robot = w.robot
          /\ e.w.bb = w.bb /\ e.w.out = h.w.out /\ e.w.memory["root"] = w.memory["root"]
      BY <2>4, <3>2 DEF OnlyMemory, Untouched, Sensed
    <3>4. /\ e.w.memory["home"] = IF h.s = "RUNNING" THEN 2 ELSE 0
          /\ e.w.memory["goHome"] \in {0, 2}
          /\ e.w.memory["home"] = 0 => e.w.memory["goHome"] = 0
      BY <2>1, <2>4, <3>2 DEF GoesHome
    <3>5. /\ h.s = IF Hp(unread.w.seen) >= 350 THEN "SUCCESS" ELSE "RUNNING"
          /\ ~(w.memory["home"] = 0 /\ Hp(unread.w.seen) >= 210)
      BY <1>1, <2>1, <2>7 DEF GoesHome
    <3>6. e.w.memory["home"] # 0 <=> Hp(e.w.seen) < IF w.memory["home"] # 0 THEN 350 ELSE 210
      BY <2>4, <3>3, <3>4, <3>5
    <3>7. e.w.memory["home"] # 0 \/ w.memory["home"] # 0
      BY <2>4, <3>4, <3>5
    <3>8. e.w.out \in {w.out, Append(w.out, "home")} /\ "home" \in Poses
      BY <1>1, <2>1, <3>3, PlacesAssumption DEF GoesHome, Published
    <3>9. w.memory["goHome"] = 0 /\ w.age["toHome"] = Interval => e.w.out # w.out
      BY <1>1, <2>1, <2>7, <3>3, SameOut DEF GoesHome
    <3>10. TickInv(e.w)
      BY <2>4, <3>2, <3>3, <3>4 DEF TickInv
    <3>11. Advances(e, w)
      BY <3>3 DEF Advances
    <3>12. Chooses(e, w)
      BY <1>1, <2>4, <2>7, <3>2, <3>3, <3>6, <3>7, <3>8, <3>9, <3>10, <3>11 DEF Chooses
    <3> QED BY <3>12 DEF e, last, home, h, unread
  <2> QED BY <2>6, <2>7
<1> QED BY <1>1, <1>5, <1>6

(* A branch that is one PubNav2Goal holds its place.                         *)
LEMMA LeaveContract ==
  ASSUME NEW w \in Worlds, NEW n \in Publishers, NEW p \in Poses
  PROVE  HoldsPlace(PubNav2Goal(n, p, w), w, n, p) /\ PubNav2Goal(n, p, w).s = "SUCCESS"
BY PublishContract DEF HoldsPlace

(* The last branch of a tree does nothing.                                   *)
LEMMA IdleContract ==
  ASSUME NEW w \in Worlds
  PROVE  HoldsPlace(Success(w), w, "toMain", "main") /\ Success(w).s = "SUCCESS"
BY StatusContract DEF HoldsPlace, Untouched, Sensed, Published

(* Being the third, fourth or fifth child makes no difference to what a      *)
(* branch does.                                                              *)
LEMMA ChildContinues ==
  ASSUME NEW w \in Worlds, NEW r, Continues(r, w), NEW i \in 3 .. 5
  PROVE  /\ Continues(Child(i, r), w)
         /\ Child(i, r).s = r.s /\ Child(i, r).w = r.w /\ Child(i, r).at = i
<1>1. r \in Results /\ i \in 0 .. 5
  BY DEF Continues
<1>2. /\ Child(i, r) \in Results /\ Child(i, r).s = r.s /\ Child(i, r).w = r.w
      /\ Child(i, r).at = i
  BY <1>1, ChildContract
<1> QED BY <1>2 DEF Continues, Advances

(* Doing nothing is one of the things a tree may do besides going home.      *)
LEMMA NothingContinues ==
  ASSUME NEW w \in Worlds, PatrolInv(w)
  PROVE  Continues(Success(w), w)
BY StatusContract DEF Continues, Sensed, Advances

\* A branch that holds a place, after one that published nothing.
LEMMA HoldsContinues ==
  ASSUME NEW w \in Worlds, NEW q, Continues(q, w), q.w.out = w.out,
         NEW r, NEW n, NEW p \in Poses, HoldsPlace(r, q.w, n, p), p # "home"
  PROVE  Continues(r, w)
<1>1. Sensed(r.w, w) /\ r.w.bb = q.w.bb /\ r.w.out \in {w.out, Append(w.out, p)}
  BY DEF Continues, HoldsPlace, Untouched, Sensed, Published
<1>2. PatrolInv(r.w)
  <2>1. \A m \in PatrolNodes : r.w.memory[m] = q.w.memory[m]
    BY DEF HoldsPlace, PatrolNodes, Nodes
  <2>2. PatrolInv(q.w)
    BY DEF Continues
  <2> QED BY <1>1, <2>1, <2>2 DEF PatrolInv, VisitInv, PatrolNodes
<1>3. \A m \in Nodes \ PatrolNodes : r.w.memory[m] = w.memory[m]
  BY DEF Continues, HoldsPlace
<1>4. Advances(r, w)
  BY <1>1 DEF Continues, Advances
<1>5. r.w.bb.wp_idx # w.bb.wp_idx => ~ZoneStatus(w.seen)
  BY <1>1 DEF Continues
<1>6. r \in Results
  BY DEF HoldsPlace
<1> QED BY <1>1, <1>2, <1>3, <1>4, <1>5, <1>6 DEF Continues

(* So is patrolling; a patrol that fails has published nothing.              *)
LEMMA PatrolContinues ==
  ASSUME NEW w \in Worlds, PatrolInv(w)
  PROVE  /\ Continues(PatrolZone(w), w)
         /\ PatrolZone(w).s = "FAILURE" => PatrolZone(w).w.out = w.out
<1>1. Patrols(PatrolZone(w), w)
  BY PatrolZoneContract
<1>2. PatrolZone(w).w.bb.wp_idx # w.bb.wp_idx => ~ZoneStatus(w.seen)
  BY PatrolZoneContract
<1>3. Stops \subseteq Poses
  BY DEF Stops
<1> QED BY <1>1, <1>2, <1>3 DEF Continues, Patrols, PatrolFrame

\* What is left when the robot need not go home starts in a world like w.
LEMMA NotHome ==
  ASSUME NEW w \in Worlds, TickInv(w), NEW kind
  PROVE  LET home == Then(2, "FAILURE", Unread(w), Home(kind, Unread(w).w))
         IN  home.s = "FAILURE" => home.w \in Worlds /\ PatrolInv(home.w)
<1> DEFINE unread == Unread(w)
           h == Home(kind, unread.w)
           home == Then(2, "FAILURE", unread, h)
<1>1. SUFFICES ASSUME home.s = "FAILURE" PROVE home.w \in Worlds /\ PatrolInv(home.w)
  OBVIOUS
<1>2. /\ unread \in Results
      /\ unread.w.memory = w.memory /\ unread.w.bb = w.bb
      /\ unread.w.seen = IF w.inbox = NoStatus THEN w.seen ELSE w.inbox
      /\ unread.s = IF unread.w.seen = NoStatus THEN "SUCCESS" ELSE "FAILURE"
  BY UnreadContract
<1> HIDE DEF unread
<1>3. unread.s = "FAILURE" /\ home = Child(2, h)
  BY <1>1, <1>2 DEF Then
<1>4. unread.w \in Worlds /\ unread.w.memory["home"] \in {0, 2}
      /\ unread.w.memory["goHome"] \in {0, 2} /\ PatrolInv(unread.w)
  BY <1>2 DEF Results, TickInv, PatrolInv, VisitInv
<1>5. GoesHome(h, unread.w)
  BY <1>4, HomeContract
<1> HIDE DEF h
<1>6. home.w = h.w /\ h.w \in Worlds
  BY <1>3, <1>5, ChildContract DEF GoesHome, Results
<1>7. \A n \in PatrolNodes : h.w.memory[n] = unread.w.memory[n]
  BY <1>5 DEF GoesHome, PatrolNodes, Nodes
<1>8. h.w.bb = unread.w.bb
  BY <1>5 DEF GoesHome, Untouched
<1> QED BY <1>4, <1>6, <1>7, <1>8 DEF PatrolInv, VisitInv, PatrolNodes

(* The list of nodes below the branches of a tree without a patrol.          *)
LEMMA BelowHome == IsBelow([home |-> 2, goHome |-> 2])
BY DEF IsBelow, PatrolNodes

(* The list of nodes below the branches of singlenav_tree.xml.               *)
LEMMA BelowPatrol ==
  IsBelow([home |-> 2, goHome |-> 2, patrol |-> 3, visit |-> 3, reach |-> 3, wait |-> 3])
BY DEF IsBelow, PatrolNodes

(* singlenav_basic.xml: go home, hold main, or do nothing.                   *)
LEMMA SinglenavBasicContract ==
  ASSUME NEW w \in Worlds, TickInv(w)
  PROVE  Chooses(SinglenavBasic(w), w)
<1> DEFINE home == Then(2, "FAILURE", Unread(w), Home("Sequence", Unread(w).w))
           main == HoldMain(home.w)
           hold == Child(3, main)
           rest == Then(4, "FAILURE", hold, Success(hold.w))
           below == [home |-> 2, goHome |-> 2]
<1>1. SinglenavBasic(w) = ReactiveEnds(below, IF home.s = "FAILURE" THEN rest ELSE home)
  BY DEF SinglenavBasic, Then
<1>2. ASSUME home.s = "FAILURE" PROVE Rests(rest, home.w)
  <2>1. home.w \in Worlds /\ PatrolInv(home.w)
    BY <1>2, NotHome
  <2> HIDE DEF home
  <2>2. /\ HoldsPlace(main, home.w, "holdMain", "main")
        /\ main.s = "FAILURE" => main.w.out = home.w.out
    BY <2>1, HoldMainContract
  <2> HIDE DEF main
  <2>3. Continues(main, home.w)
    <3>1. Continues(Success(home.w), home.w) /\ Success(home.w).w = home.w
      BY <2>1, NothingContinues, StatusContract
    <3>2. "main" \in Poses /\ "main" # "home"
      BY PlacesAssumption
    <3> QED BY <2>1, <2>2, <3>1, <3>2, HoldsContinues
  <2>4. Continues(hold, home.w) /\ hold.s = main.s /\ hold.w = main.w /\ hold.at = 3
    BY <2>1, <2>3, ChildContinues
  <2> HIDE DEF hold
  <2>5. CASE hold.s = "FAILURE"
    <3>1. rest = Child(4, Success(hold.w))
      BY <2>5 DEF Then
    <3>2. hold.w \in Worlds /\ hold.w.out = home.w.out
      BY <2>2, <2>4, <2>5 DEF Continues, Results
    <3>3. HoldsPlace(Success(hold.w), hold.w, "toMain", "main") /\ Success(hold.w).s = "SUCCESS"
      BY <3>2, IdleContract
    <3>4. Continues(Success(hold.w), home.w)
      <4>1. "main" \in Poses /\ "main" # "home"
        BY PlacesAssumption
      <4> QED BY <2>1, <2>4, <3>2, <3>3, <4>1, HoldsContinues
    <3>5. Continues(rest, home.w) /\ rest.s = "SUCCESS" /\ rest.at = 4
      BY <2>1, <3>1, <3>3, <3>4, ChildContinues
    <3> QED BY <3>5 DEF Rests
  <2>6. CASE hold.s # "FAILURE"
    <3>1. rest = hold
      BY <2>6 DEF Then
    <3> QED BY <2>4, <2>6, <3>1 DEF Rests
  <2> QED BY <2>5, <2>6
<1> HIDE DEF rest, below
<1>3. IsBelow(below)
  BY BelowHome DEF below
<1> QED BY <1>1, <1>2, <1>3, ChoiceContract

(* basic_tree.xml: go home, hold main, or leave for ap_position1.            *)
LEMMA BasicTreeContract ==
  ASSUME NEW w \in Worlds, TickInv(w)
  PROVE  Chooses(BasicTree(w), w)
<1> DEFINE home == Then(2, "FAILURE", Unread(w), Home("Sequence", Unread(w).w))
           main == HoldMain(home.w)
           hold == Child(3, main)
           away == PubNav2Goal("toPosition1", "ap_position1", hold.w)
           leave == Then(4, "FAILURE", hold, away)
           rest == Then(5, "FAILURE", leave, Success(leave.w))
           below == [home |-> 2, goHome |-> 2]
<1>1. BasicTree(w) = ReactiveEnds(below, IF home.s = "FAILURE" THEN rest ELSE home)
  BY DEF BasicTree, Then
<1>2. ASSUME home.s = "FAILURE" PROVE Rests(rest, home.w)
  <2>1. home.w \in Worlds /\ PatrolInv(home.w)
    BY <1>2, NotHome
  <2> HIDE DEF home
  <2>2. /\ HoldsPlace(main, home.w, "holdMain", "main")
        /\ main.s = "FAILURE" => main.w.out = home.w.out
    BY <2>1, HoldMainContract
  <2> HIDE DEF main
  <2>3. Continues(main, home.w)
    <3>1. Continues(Success(home.w), home.w) /\ Success(home.w).w = home.w
      BY <2>1, NothingContinues, StatusContract
    <3>2. "main" \in Poses /\ "main" # "home"
      BY PlacesAssumption
    <3> QED BY <2>1, <2>2, <3>1, <3>2, HoldsContinues
  <2>4. Continues(hold, home.w) /\ hold.s = main.s /\ hold.w = main.w /\ hold.at = 3
    BY <2>1, <2>3, ChildContinues
  <2> HIDE DEF hold
  <2>5. CASE hold.s = "FAILURE"
    <3>1. leave = Child(4, away)
      BY <2>5 DEF Then
    <3>2. hold.w \in Worlds /\ hold.w.out = home.w.out
      BY <2>2, <2>4, <2>5 DEF Continues, Results
    <3>3. "ap_position1" \in Poses /\ "ap_position1" # "home" /\ "toPosition1" \in Publishers
      BY PlacesAssumption DEF Publishers
    <3>4. HoldsPlace(away, hold.w, "toPosition1", "ap_position1") /\ away.s = "SUCCESS"
      BY <3>2, <3>3, LeaveContract
    <3> HIDE DEF away
    <3>5. Continues(away, home.w)
      BY <2>1, <2>4, <3>2, <3>3, <3>4, HoldsContinues
    <3>6. Continues(leave, home.w) /\ leave.s = "SUCCESS" /\ leave.at = 4
      BY <2>1, <3>1, <3>4, <3>5, ChildContinues
    <3> HIDE DEF leave
    <3>7. rest = leave
      BY <3>6 DEF Then
    <3> QED BY <3>6, <3>7 DEF Rests
  <2>6. CASE hold.s # "FAILURE"
    <3>1. rest = hold
      BY <2>6 DEF Then
    <3> QED BY <2>4, <2>6, <3>1 DEF Rests
  <2> QED BY <2>5, <2>6
<1> HIDE DEF rest, below
<1>3. IsBelow(below)
  BY BelowHome DEF below
<1> QED BY <1>1, <1>2, <1>3, ChoiceContract

(* singlenav_tree.xml: go home, patrol, or leave for ap_position1.           *)
LEMMA SinglenavTreeContract ==
  ASSUME NEW w \in Worlds, TickInv(w)
  PROVE  Chooses(SinglenavTree(w), w)
<1> DEFINE home == Then(2, "FAILURE", Unread(w), Home("Sequence", Unread(w).w))
           zone == PatrolZone(home.w)
           patrol == Child(3, zone)
           away == PubNav2Goal("toPosition1", "ap_position1", patrol.w)
           leave == Then(4, "FAILURE", patrol, away)
           rest == Then(5, "FAILURE", leave, Success(leave.w))
           below == [home |-> 2, goHome |-> 2, patrol |-> 3, visit |-> 3, reach |-> 3, wait |-> 3]
<1>1. SinglenavTree(w) = ReactiveEnds(below, IF home.s = "FAILURE" THEN rest ELSE home)
  BY DEF SinglenavTree, Then
<1>2. ASSUME home.s = "FAILURE" PROVE Rests(rest, home.w)
  <2>1. home.w \in Worlds /\ PatrolInv(home.w)
    BY <1>2, NotHome
  <2> HIDE DEF home
  <2>2. /\ Continues(zone, home.w)
        /\ zone.s = "FAILURE" => zone.w.out = home.w.out
    BY <2>1, PatrolContinues
  <2> HIDE DEF zone
  <2>3. Continues(patrol, home.w) /\ patrol.s = zone.s /\ patrol.w = zone.w /\ patrol.at = 3
    BY <2>1, <2>2, ChildContinues
  <2> HIDE DEF patrol
  <2>4. CASE patrol.s = "FAILURE"
    <3>1. leave = Child(4, away)
      BY <2>4 DEF Then
    <3>2. patrol.w \in Worlds /\ patrol.w.out = home.w.out
      BY <2>2, <2>3, <2>4 DEF Continues, Results
    <3>3. "ap_position1" \in Poses /\ "ap_position1" # "home" /\ "toPosition1" \in Publishers
      BY PlacesAssumption DEF Publishers
    <3>4. HoldsPlace(away, patrol.w, "toPosition1", "ap_position1") /\ away.s = "SUCCESS"
      BY <3>2, <3>3, LeaveContract
    <3> HIDE DEF away
    <3>5. Continues(away, home.w)
      BY <2>1, <2>3, <3>2, <3>3, <3>4, HoldsContinues
    <3>6. Continues(leave, home.w) /\ leave.s = "SUCCESS" /\ leave.at = 4
      BY <2>1, <3>1, <3>4, <3>5, ChildContinues
    <3> HIDE DEF leave
    <3>7. rest = leave
      BY <3>6 DEF Then
    <3> QED BY <3>6, <3>7 DEF Rests
  <2>5. CASE patrol.s # "FAILURE"
    <3>1. rest = patrol
      BY <2>5 DEF Then
    <3> QED BY <2>3, <2>5, <3>1 DEF Rests
  <2> QED BY <2>4, <2>5
<1> HIDE DEF rest, below
<1>3. IsBelow(below)
  BY BelowPatrol DEF below
<1> QED BY <1>1, <1>2, <1>3, ChoiceContract

(* test.xml: go home, or drive to main1.                                     *)
LEMMA TestTreeContract ==
  ASSUME NEW w \in Worlds, TickInv(w)
  PROVE  Chooses(TestTree(w), w)
<1> DEFINE home == Then(2, "FAILURE", Unread(w), Home("ReactiveSequence", Unread(w).w))
           away == PubNav2Goal("toMain1", "main1", home.w)
           leave == Child(3, away)
           rest == Then(4, "FAILURE", leave, Success(leave.w))
           below == [home |-> 2, goHome |-> 2]
<1>1. TestTree(w) = ReactiveEnds(below, IF home.s = "FAILURE" THEN rest ELSE home)
  BY DEF TestTree, Then
<1>2. ASSUME home.s = "FAILURE" PROVE Rests(rest, home.w)
  <2>1. home.w \in Worlds /\ PatrolInv(home.w)
    BY <1>2, NotHome
  <2> HIDE DEF home
  <2>2. "main1" \in Poses /\ "main1" # "home" /\ "toMain1" \in Publishers
    BY PlacesAssumption DEF Publishers
  <2>3. HoldsPlace(away, home.w, "toMain1", "main1") /\ away.s = "SUCCESS"
    BY <2>1, <2>2, LeaveContract
  <2> HIDE DEF away
  <2>4. Continues(Success(home.w), home.w) /\ Success(home.w).w = home.w
    BY <2>1, NothingContinues, StatusContract
  <2>5. Continues(away, home.w)
    BY <2>1, <2>2, <2>3, <2>4, HoldsContinues
  <2>6. Continues(leave, home.w) /\ leave.s = "SUCCESS" /\ leave.at = 3
    BY <2>1, <2>3, <2>5, ChildContinues
  <2> HIDE DEF leave
  <2>7. rest = leave
    BY <2>6 DEF Then
  <2> QED BY <2>6, <2>7 DEF Rests
<1> HIDE DEF rest, below
<1>3. IsBelow(below)
  BY BelowHome DEF below
<1> QED BY <1>1, <1>2, <1>3, ChoiceContract

-----------------------------------------------------------------------------
(* A tick.                                                                 *)

(* So every tree the process may be started with goes home first.            *)
LEMMA ChooseContract ==
  ASSUME NEW w \in Worlds, TickInv(w), NEW name \in TreeNames
  PROVE  Chooses(Choose(name, w), w)
<1>1. Choose(name, w) \in {SinglenavBasic(w), BasicTree(w), SinglenavTree(w), TestTree(w)}
  BY DEF Choose, TreeNames
<1> QED
  BY <1>1, SinglenavBasicContract, BasicTreeContract, SinglenavTreeContract, TestTreeContract

\* Before the first choice nobody went home.
RootInv(w) ==
  /\ w.memory["root"] \in {0, 2}
  /\ w.memory["root"] = 0 => w.memory["goHome"] = 0 /\ w.age["toHome"] = Interval

LastPose(w) == w.out[Len(w.out)]

\* What one tick of any tree does to a world in which nothing was published yet.
Ticks(v, w) ==
  /\ v \in Worlds /\ TickInv(v) /\ v.memory["root"] = 2
  /\ v.csv = w.csv /\ v.robot = w.robot
  /\ v.seen = IF w.inbox = NoStatus THEN w.seen ELSE w.inbox
  /\ v.memory["home"] # 0 <=> Hp(v.seen) < IF w.memory["home"] # 0 THEN 350 ELSE 210
  /\ v.out # <<>> =>
       /\ v.seen = NoStatus => LastPose(v) = "main"
       /\ v.memory["home"] # 0 => LastPose(v) = "home"
       /\ LastPose(v) = "home" =>
            v.memory["home"] # 0 \/ w.memory["home"] # 0 \/ "home" \in Stops
  /\ v.memory["home"] # 0 /\ w.memory["home"] = 0 /\ w.age["toHome"] = Interval => v.out # <<>>
  /\ Advances([w |-> v], w)
  /\ v.bb.wp_idx # w.bb.wp_idx =>
       /\ v.seen # NoStatus /\ Hp(v.seen) >= 210 /\ ~ZoneStatus(v.seen)
       /\ v.memory["home"] = 0

(* The pose published last is the one appended last.                         *)
LEMMA LastOfAppend ==
  ASSUME NEW s \in Seq(Poses), NEW p \in Poses
  PROVE  LET t == Append(s, p) IN t # <<>> /\ t[Len(t)] = p
<1>1. Len(Append(s, p)) = Len(s) + 1 /\ Append(s, p)[Len(s) + 1] = p /\ Len(s) \in Nat
  OBVIOUS
<1>2. Len(<<>>) = 0
  OBVIOUS
<1> QED BY <1>1, <1>2

(* One tick of any tree, with the drive to main that comes before the first  *)
(* choice: until a message was read nothing but main is published; while the *)
(* robot retreats the last pose published is home.                           *)
LEMMA TickContract ==
  ASSUME NEW w \in Worlds, TickInv(w), RootInv(w), w.out = <<>>, NEW name \in TreeNames
  PROVE  Ticks(TickOnce(name, w), w)
<1> DEFINE p == PubNav2Goal("toMain", "main", w)
           main == InOrder("root", w, 1, Success(w), p)
           choose == Choose(name, main.w)
           keep == KeepRunningUntilFailure(choose)
           choice == InOrder("root", w, 2, main, keep)
           e == SequenceEnds("root", Nodes, choice)
           v == TickOnce(name, w)
<1>1. v = e.w
  BY DEF TickOnce
<1>2. /\ main \in Results /\ main.s = "SUCCESS" /\ main.w.memory = w.memory
      /\ Untouched(main.w, w) /\ main.w.age["toHome"] = w.age["toHome"]
      /\ main.w.out \in {<<>>, <<"main">>}
      /\ w.memory["root"] # 0 => main.w.out = <<>>
  <2>1. CASE w.memory["root"] = 0
    <3>1. "main" \in Poses /\ "toMain" \in Publishers /\ "toHome" \in Publishers \ {"toMain"}
      BY PlacesAssumption DEF Publishers
    <3>2. p \in Results /\ p.s = "SUCCESS" /\ Untouched(p.w, w) /\ p.w.memory = w.memory
          /\ Published(p.w, w, "toMain", "main")
      BY <3>1, PublishContract
    <3> HIDE DEF p
    <3>3. main = Child(1, p)
      BY <2>1, StatusContract DEF InOrder, ResumesAt
    <3>4. main \in Results /\ main.s = "SUCCESS" /\ main.w = p.w
      BY <3>2, <3>3, ChildContract
    <3> HIDE DEF main
    <3>5. Append(<<>>, "main") = <<"main">>
      OBVIOUS
    <3> QED BY <2>1, <3>1, <3>2, <3>4, <3>5 DEF Published
  <2>2. CASE w.memory["root"] = 2
    <3>1. main = Success(w)
      BY <2>2 DEF InOrder, ResumesAt
    <3>2. main \in Results /\ main.s = "SUCCESS" /\ main.w = w
      BY <3>1, StatusContract
    <3> HIDE DEF main
    <3> QED BY <3>2 DEF Untouched, Sensed
  <2> QED BY <2>1, <2>2 DEF RootInv
<1> HIDE DEF p, main
<1>3. main.w \in Worlds /\ TickInv(main.w)
  BY <1>2 DEF Results, TickInv, PatrolInv, VisitInv, Untouched, Sensed
<1>4. Chooses(choose, main.w)
  BY <1>3, ChooseContract
<1> HIDE DEF choose
<1>5. keep \in Results /\ keep.s = "RUNNING" /\ keep.w = choose.w
  BY <1>4, KeepRunningContract DEF Chooses
<1> HIDE DEF keep
<1>6. choice = Child(2, keep)
  BY <1>2 DEF InOrder, ResumesAt, RootInv
<1>7. choice \in Results /\ choice.at = 2 /\ choice.s = "RUNNING" /\ choice.w = choose.w
  BY <1>5, <1>6, ChildContract
<1> HIDE DEF choice
<1>8. "root" \in Nodes /\ {"home", "goHome", "patrol", "visit", "wait"} \subseteq Nodes \ {"root"}
  BY DEF Nodes
<1>9. /\ e \in Results /\ OnlyMemory(e.w, choose.w) /\ e.w.memory["root"] = 2
      /\ \A m \in Nodes \ {"root"} : e.w.memory[m] = choose.w.memory[m]
  BY <1>7, <1>8, SequenceEndsContract
<1> HIDE DEF e
<1>10. v \in Worlds /\ v.memory["root"] = 2 /\ v.memory["home"] = choose.w.memory["home"]
       /\ v.seen = choose.w.seen /\ v.bb = choose.w.bb /\ v.out = choose.w.out
       /\ v.csv = choose.w.csv /\ v.robot = choose.w.robot
  BY <1>1, <1>8, <1>9 DEF Results, OnlyMemory, Untouched, Sensed
<1>11. TickInv(v)
  BY <1>1, <1>4, <1>8, <1>9, <1>10 DEF Chooses, TickInv, PatrolInv, VisitInv
<1> HIDE DEF v
<1>12. v.memory["home"] # 0 <=> Hp(v.seen) < IF w.memory["home"] # 0 THEN 350 ELSE 210
  BY <1>2, <1>4, <1>10 DEF Chooses
<1>13. v.csv = w.csv /\ v.robot = w.robot /\ v.seen = IF w.inbox = NoStatus THEN w.seen ELSE w.inbox
  BY <1>2, <1>4, <1>10 DEF Chooses, Untouched, Sensed
<1>14. Advances([w |-> v], w)
  BY <1>2, <1>4, <1>10 DEF Chooses, Advances, Untouched
<1>15. v.bb.wp_idx # w.bb.wp_idx =>
         /\ v.seen # NoStatus /\ Hp(v.seen) >= 210 /\ ~ZoneStatus(v.seen)
         /\ v.memory["home"] = 0
  BY <1>2, <1>4, <1>10 DEF Chooses, Untouched
<1>16. ASSUME v.out # <<>>
       PROVE  /\ v.seen = NoStatus => LastPose(v) = "main"
              /\ v.memory["home"] # 0 => LastPose(v) = "home"
              /\ LastPose(v) = "home" =>
                   v.memory["home"] # 0 \/ w.memory["home"] # 0 \/ "home" \in Stops
  <2>1. CASE v.out = main.w.out
    <3>1. v.out = <<"main">> /\ w.memory["root"] = 0
      BY <1>2, <1>16, <2>1 DEF RootInv
    <3>2. LastPose(v) = "main"
      BY <3>1 DEF LastPose
    <3>3. v.memory["home"] = 0
      BY <1>2, <1>4, <1>10, <2>1, <3>1 DEF Chooses, RootInv
    <3> QED BY <3>2, <3>3
  <2>2. CASE v.out # main.w.out
    <3>1. PICK q \in Poses :
            /\ v.out = Append(main.w.out, q)
            /\ v.memory["home"] # 0 => q = "home"
            /\ q = "home" => v.memory["home"] # 0 \/ w.memory["home"] # 0 \/ "home" \in Stops
      BY <1>2, <1>4, <1>10, <2>2 DEF Chooses
    <3>2. main.w.out \in Seq(Poses)
      BY <1>3 DEF Worlds
    <3>3. LastPose(v) = q
      BY <3>1, <3>2, LastOfAppend DEF LastPose
    <3>4. v.seen # NoStatus
      BY <1>4, <1>10, <2>2 DEF Chooses
    <3> QED BY <3>1, <3>3, <3>4
  <2> QED BY <2>1, <2>2
<1>17. ASSUME v.memory["home"] # 0, w.memory["home"] = 0, w.age["toHome"] = Interval
       PROVE  v.out # <<>>
  <2>1. v.out # main.w.out
    BY <1>2, <1>4, <1>10, <1>17 DEF Chooses, TickInv
  <2>2. PICK q \in Poses : v.out = Append(main.w.out, q)
    BY <1>4, <1>10, <2>1 DEF Chooses
  <2>3. main.w.out \in Seq(Poses)
    BY <1>3 DEF Worlds
  <2> QED BY <2>2, <2>3, LastOfAppend
<1>18. Ticks(v, w)
  BY <1>10, <1>11, <1>12, <1>13, <1>14, <1>15, <1>16, <1>17 DEF Ticks
<1> QED BY <1>18 DEF v

-----------------------------------------------------------------------------
(* The process.                                                            *)

\* The world of the present state.
Now == [memory |-> memory, seen |-> seen, bb |-> bb, age |-> age, timer |-> timer,
        out |-> out, inbox |-> inbox, csv |-> csv, robot |-> robot]

\* The inductive invariant.
IndInv ==
  /\ tree \in Trees /\ Now \in Worlds /\ wanted \in Poses \cup {NoPose}
  /\ TickInv(Now) /\ RootInv(Now)
  /\ WaitsForStatus

(* The invariant holds when the process starts.                              *)
LEMMA InitInv == Init => IndInv
<1> SUFFICES ASSUME Init PROVE IndInv
  OBVIOUS
<1>1. /\ memory = [n \in Nodes |-> 0] /\ memory \in [Nodes -> 0 .. 3]
      /\ \A n \in {"root", "home", "goHome", "patrol", "visit", "wait"} : memory[n] = 0
  BY DEF Init, Nodes
<1>2. bb \in Boards
  <2>1. <<>> \in Seq(Stops) /\ <<>> \in Waits
    BY DEF Waits
  <2> QED BY <2>1 DEF Init, Boards
<1>3. /\ age \in [Publishers -> 0 .. Interval] /\ age["toHome"] = Interval
      /\ timer \in 0 .. WaitTicks
  <2>1. Interval \in 0 .. Interval /\ 0 \in 0 .. WaitTicks
    BY TimeAssumption
  <2> QED BY <2>1 DEF Init, Publishers
<1>4. Now \in Worlds
  BY <1>1, <1>2, <1>3 DEF Init, Now, Worlds, Messages
<1>5. TickInv(Now)
  BY <1>1 DEF Now, TickInv, PatrolInv, VisitInv
<1>6. RootInv(Now)
  BY <1>1, <1>3 DEF Now, RootInv
<1> QED BY <1>4, <1>5, <1>6 DEF Init, IndInv, WaitsForStatus

(* Clocks stop at their limit, and only there: nothing else looks older than *)
(* it is.                                                                    *)
LEMMA OlderContract ==
  ASSUME NEW limit \in Nat, NEW n \in 0 .. limit
  PROVE  /\ Older(n, limit) \in 0 .. limit
         /\ Older(limit, limit) = limit
         /\ Older(n, limit) >= limit => n + 1 >= limit
BY DEF Older

\* The world that a tick finds is one that the contracts are about.
LEMMA BeforeContract ==
  ASSUME IndInv
  PROVE  /\ Before \in Worlds /\ TickInv(Before) /\ RootInv(Before)
         /\ Before.out = <<>> /\ Before.bb = bb /\ Before.seen = seen /\ Before.inbox = inbox
         /\ Before.memory = memory /\ Before.csv = csv /\ Before.robot = robot
         /\ Before.timer = Older(timer, WaitTicks)
<1>1. /\ memory \in [Nodes -> 0 .. 3] /\ seen \in Messages /\ bb \in Boards
      /\ age \in [Publishers -> 0 .. Interval] /\ timer \in 0 .. WaitTicks
      /\ inbox \in Messages /\ csv \in Files /\ robot \in Poses \cup {NoPose}
  BY DEF IndInv, Now, Worlds
<1> DEFINE older == [p \in Publishers |-> Older(age[p], Interval)]
<1>2. older \in [Publishers -> 0 .. Interval]
  BY <1>1, OlderContract, TimeAssumption
<1>3. Older(timer, WaitTicks) \in 0 .. WaitTicks
  BY <1>1, OlderContract, TimeAssumption
<1>4. <<>> \in Seq(Poses)
  OBVIOUS
<1>5. age["toHome"] = Interval => older["toHome"] = Interval
  <2>1. "toHome" \in Publishers /\ Older(Interval, Interval) = Interval
    BY TimeAssumption DEF Publishers, Older
  <2> QED BY <2>1
<1>6. Before.age = older
  BY DEF Before
<1> HIDE DEF older
<1>7. /\ Before.out = <<>> /\ Before.bb = bb /\ Before.seen = seen /\ Before.inbox = inbox
      /\ Before.memory = memory /\ Before.csv = csv /\ Before.robot = robot
      /\ Before.timer = Older(timer, WaitTicks)
  BY DEF Before
<1>8. Before \in Worlds
  BY <1>1, <1>2, <1>3, <1>4 DEF Before, Worlds, older
<1>9. TickInv(Before)
  BY <1>7 DEF IndInv, Now, TickInv, PatrolInv, VisitInv
<1>10. RootInv(Before)
  BY <1>5, <1>6, <1>7 DEF IndInv, Now, RootInv
<1> QED BY <1>7, <1>8, <1>9, <1>10

\* A tick of the process is a tick of the tree.
LEMMA TickTreeTicks ==
  ASSUME IndInv, TickTree
  PROVE  /\ Ticks(After, Before)
         /\ memory' = After.memory /\ seen' = After.seen /\ bb' = After.bb /\ out' = After.out
         /\ age' = After.age /\ timer' = After.timer /\ inbox' = After.inbox
         /\ csv' = After.csv /\ robot' = After.robot
         /\ wanted' = LastOf(After) /\ tree' = tree
<1>1. tree \in TreeNames
  BY TreesAssumption DEF IndInv
<1>2. Ticks(After, Before)
  BY <1>1, BeforeContract, TickContract DEF After
<1>3. After.csv = csv /\ After.robot = robot
  BY <1>2, BeforeContract DEF Ticks
<1> QED BY <1>2, <1>3 DEF TickTree

(* Wherever the robot gets, the invariant is not about it.                   *)
LEMMA RobotMoves ==
  ASSUME IndInv, UNCHANGED <<tree, treeVars, inbox, csv>>, robot' \in Poses \cup {NoPose}
  PROVE  IndInv'
<1>1. /\ memory \in [Nodes -> 0 .. 3] /\ seen \in Messages /\ bb \in Boards
      /\ age \in [Publishers -> 0 .. Interval] /\ timer \in 0 .. WaitTicks
      /\ out \in Seq(Poses) /\ inbox \in Messages /\ csv \in Files
  BY DEF IndInv, Now, Worlds
<1>2. (Now \in Worlds)'
  BY <1>1 DEF treeVars, Now, Worlds
<1>3. TickInv(Now)' /\ RootInv(Now)'
  BY DEF IndInv, treeVars, Now, TickInv, RootInv, PatrolInv, VisitInv
<1> QED BY <1>2, <1>3 DEF IndInv, treeVars, WaitsForStatus

(* A message may arrive at any time.                                         *)
LEMMA MessageArrives ==
  ASSUME IndInv, NEW s \in Statuses, Receive(s)
  PROVE  IndInv'
<1>1. /\ memory \in [Nodes -> 0 .. 3] /\ seen \in Messages /\ bb \in Boards
      /\ age \in [Publishers -> 0 .. Interval] /\ timer \in 0 .. WaitTicks
      /\ out \in Seq(Poses) /\ csv \in Files /\ robot \in Poses \cup {NoPose}
  BY DEF IndInv, Now, Worlds
<1>2. s \in Messages
  BY DEF Messages
<1>3. (Now \in Worlds)'
  BY <1>1, <1>2 DEF Receive, treeVars, Now, Worlds
<1>4. TickInv(Now)' /\ RootInv(Now)'
  BY DEF IndInv, Receive, treeVars, Now, TickInv, RootInv, PatrolInv, VisitInv
<1> QED BY <1>3, <1>4 DEF IndInv, Receive, treeVars, WaitsForStatus

(* A tick of the tree keeps the invariant.                                   *)
LEMMA TickKeeps ==
  ASSUME IndInv, TickTree
  PROVE  IndInv'
<1>1. /\ Ticks(After, Before)
      /\ memory' = After.memory /\ seen' = After.seen /\ bb' = After.bb /\ out' = After.out
      /\ age' = After.age /\ timer' = After.timer /\ inbox' = After.inbox
      /\ csv' = After.csv /\ robot' = After.robot
      /\ wanted' = LastOf(After) /\ tree' = tree
  BY TickTreeTicks
<1>2. After \in Worlds /\ TickInv(After) /\ After.memory["root"] = 2
  BY <1>1 DEF Ticks
<1>3. (Now \in Worlds)'
  BY <1>1, <1>2 DEF Now, Worlds
<1>4. TickInv(Now)' /\ RootInv(Now)'
  BY <1>1, <1>2 DEF Now, TickInv, RootInv, PatrolInv, VisitInv
<1>5. wanted' \in Poses \cup {NoPose} /\ (After.out # <<>> => wanted' = LastPose(After))
  <2>1. CASE After.out = <<>>
    BY <1>1, <2>1 DEF LastOf, IndInv
  <2>2. CASE After.out # <<>>
    <3>1. After.out \in Seq(Poses)
      BY <1>2 DEF Worlds
    <3>2. Len(After.out) \in 1 .. Len(After.out)
      BY <2>2, <3>1
    <3>3. After.out[Len(After.out)] \in Poses
      BY <3>1, <3>2
    <3> QED BY <1>1, <2>2, <3>3 DEF LastOf, LastPose
  <2> QED BY <2>1, <2>2
<1>6. WaitsForStatus'
  <2>1. SUFFICES ASSUME seen' = NoStatus PROVE wanted' \in {"main", NoPose}
    BY DEF WaitsForStatus
  <2>2. CASE After.out = <<>>
    <3>1. wanted' = wanted
      BY <1>1, <2>2 DEF LastOf
    <3>2. seen = NoStatus
      BY <1>1, <2>1, BeforeContract DEF Ticks
    <3> QED BY <3>1, <3>2 DEF IndInv, WaitsForStatus
  <2>3. CASE After.out # <<>>
    BY <1>1, <1>5, <2>1, <2>3 DEF Ticks
  <2> QED BY <2>2, <2>3
<1> QED BY <1>1, <1>3, <1>4, <1>5, <1>6 DEF IndInv

(* Every step of the process and of its surroundings keeps the invariant.    *)
LEMMA NextInv == IndInv /\ [Next]_vars => IndInv'
<1> SUFFICES ASSUME IndInv, [Next]_vars PROVE IndInv'
  OBVIOUS
<1>1. CASE TickTree
  BY <1>1, TickKeeps
<1>2. ASSUME NEW s \in Statuses, Receive(s) PROVE IndInv'
  BY <1>2, MessageArrives
<1>3. ASSUME NEW p \in Poses \cup {NoPose}, Move(p) PROVE IndInv'
  BY <1>3, RobotMoves DEF Move
<1>4. ASSUME NEW f \in Files, ReplaceFile(f) PROVE IndInv'
  <2>1. (Now \in Worlds)'
    BY <1>4 DEF IndInv, ReplaceFile, treeVars, Now, Worlds
  <2>2. TickInv(Now)' /\ RootInv(Now)'
    BY <1>4 DEF IndInv, ReplaceFile, treeVars, Now, TickInv, RootInv, PatrolInv, VisitInv
  <2> QED BY <1>4, <2>1, <2>2 DEF IndInv, ReplaceFile, treeVars, WaitsForStatus
<1>5. CASE UNCHANGED vars
  BY <1>5 DEF IndInv, vars, treeVars, Now, Worlds, TickInv, RootInv, PatrolInv, VisitInv,
              AtWaypoint, WaitsForStatus
<1> QED BY <1>1, <1>2, <1>3, <1>4, <1>5 DEF Next

(* The inductive invariant of the decision process, for every tree, any      *)
(* files, hit points and places, and any interval and waiting time.          *)
THEOREM AlwaysIndInv == Spec => []IndInv
BY InitInv, NextInv, PTL DEF Spec

(* The variables keep their types; in particular no tree publishes a pose    *)
(* that is not a place of the map, although current_goal starts as none      *)
(* (action.h:498-549).                                                       *)
THEOREM TypeCorrect == Spec => []TypeOK
<1>1. IndInv => TypeOK
  <2> SUFFICES ASSUME IndInv PROVE TypeOK
    OBVIOUS
  <2>1. /\ memory \in [Nodes -> 0 .. 3] /\ seen \in Messages /\ bb \in Boards
        /\ age \in [Publishers -> 0 .. Interval] /\ timer \in 0 .. WaitTicks
        /\ out \in Seq(Poses)
        /\ inbox \in Messages /\ csv \in Files /\ robot \in Poses \cup {NoPose}
    BY DEF IndInv, Now, Worlds
  <2>2. bb.wp_idx \in Nat /\ bb.current_goal \in Poses \cup {NoPose}
    BY <2>1 DEF Boards, Stops
  <2> QED BY <2>1, <2>2 DEF TypeOK, IndInv, Messages
<1> QED BY <1>1, AlwaysIndInv, PTL

(* Until a status message was read nothing but main was sent to the robot    *)
(* (action.h:418-419), although the defaults of the blackboard               *)
(* (cod_behavior.cpp:130-131) would let it patrol.                           *)
THEOREM StatusComesFirst == Spec => []WaitsForStatus
<1>1. IndInv => WaitsForStatus
  BY DEF IndInv
<1> QED BY <1>1, AlwaysIndInv, PTL

\* No waypoint of any file is the place to recover at.
WaypointsApart == "home" \notin Stops

\* One step does what HomeGuard asks.
LEMMA StepGuarded ==
  ASSUME WaypointsApart, IndInv, [Next]_vars
  PROVE  [Guard!GuardNext]_(Guard!guardVars)
<1>1. CASE TickTree
  <2>1. /\ Ticks(After, Before)
        /\ memory' = After.memory /\ seen' = After.seen /\ out' = After.out
    BY <1>1, TickTreeTicks
  <2>2. Before.memory = memory
    BY BeforeContract
  <2>3. Guard!Decided
    BY <2>1, <2>2 DEF Ticks, Guard!Decided, Retreating
  <2>4. Guard!Sends
    <3>1. SUFFICES ASSUME out' # <<>>
                   PROVE  /\ Retreating' => out'[Len(out')] = "home"
                          /\ out'[Len(out')] = "home" => Retreating \/ Retreating'
      BY DEF Guard!Sends
    <3> QED BY <2>1, <2>2, <3>1 DEF Ticks, LastPose, WaypointsApart, Retreating
  <2> QED BY <2>3, <2>4 DEF Guard!GuardNext
<1>2. CASE UNCHANGED treeVars
  BY <1>2 DEF treeVars, Guard!guardVars, Retreating
<1>3. TickTree \/ UNCHANGED treeVars
  BY DEF Next, Receive, Move, ReplaceFile, vars
<1> QED BY <1>1, <1>2, <1>3

(* The priority of going home (cod_behavior/README.md:56) refines HomeGuard  *)
(* for every tree: it starts at the very tick that reads low hit points,     *)
(* ends only when they are restored, and the last pose of a tick is home     *)
(* while it lasts, and only then. The one hypothesis is that no waypoint     *)
(* file sends the patrol to the home pose.                                   *)
THEOREM HomeComesFirst == WaypointsApart => (Spec => HomeHasPriority)
<1> SUFFICES ASSUME WaypointsApart PROVE Spec => HomeHasPriority
  OBVIOUS
<1>1. Init => Guard!GuardInit
  BY DEF Init, Guard!GuardInit, Hp, Retreating, Nodes
<1>2. IndInv /\ [Next]_vars => [Guard!GuardNext]_(Guard!guardVars)
  BY StepGuarded
<1> QED BY <1>1, <1>2, AlwaysIndInv, PTL DEF Spec, HomeHasPriority, Guard!GuardSpec

(* The next waypoint is taken only after the whole wait and never in a tick  *)
(* that interrupts the patrol, and the one left behind is the one that was   *)
(* waited for (PubNav2Goal_Patrol.md:87-88,154-157), for any files that      *)
(* replace each other in between.                                            *)
THEOREM WholeWaitFirst == Spec => AdvancesAfterWait
<1> DEFINE Advance == bb'.wp_idx # bb.wp_idx =>
             /\ timer + 1 >= WaitTicks
             /\ bb'.wp_idx = (bb.wp_idx + 1) % Len(bb.waypoints)
             /\ bb.current_goal = bb.waypoints[bb.wp_idx + 1]
             /\ seen' # NoStatus /\ Hp(seen') >= 210 /\ ~ZoneStatus(seen') /\ ~Retreating'
<1>1. IndInv /\ [Next]_vars => [Advance]_vars
  <2> SUFFICES ASSUME IndInv, [Next]_vars, bb'.wp_idx # bb.wp_idx PROVE Advance
    OBVIOUS
  <2>1. TickTree
    BY DEF Next, Receive, Move, ReplaceFile, vars, treeVars
  <2>2. /\ Ticks(After, Before)
        /\ memory' = After.memory /\ seen' = After.seen /\ bb' = After.bb
    BY <2>1, TickTreeTicks
  <2>3. /\ Before.bb = bb /\ Before.memory = memory /\ Before.timer = Older(timer, WaitTicks)
    BY BeforeContract
  <2>4. /\ memory["visit"] = 3 /\ Older(timer, WaitTicks) >= WaitTicks
        /\ bb'.wp_idx = (bb.wp_idx + 1) % Len(bb.waypoints)
    BY <2>2, <2>3 DEF Ticks, Advances
  <2>5. timer + 1 >= WaitTicks
    <3>1. timer \in 0 .. WaitTicks /\ WaitTicks \in Nat
      BY TimeAssumption DEF IndInv, Now, Worlds
    <3> QED BY <2>4, <3>1, OlderContract
  <2>6. bb.current_goal = bb.waypoints[bb.wp_idx + 1]
    BY <2>4 DEF IndInv, Now, TickInv, PatrolInv, VisitInv, AtWaypoint
  <2>7. seen' # NoStatus /\ Hp(seen') >= 210 /\ ~ZoneStatus(seen') /\ ~Retreating'
    BY <2>2, <2>3 DEF Ticks, Retreating
  <2> QED BY <2>4, <2>5, <2>6, <2>7
<1> QED BY <1>1, AlwaysIndInv, PTL DEF Spec, AdvancesAfterWait

-----------------------------------------------------------------------------
(* Retreats that start when the interval of the last one's publication is  *)
(* over.                                                                   *)

RetreatIsWanted == Retreating => wanted = "home"

\* A retreat that starts finds the interval of toHome over at the next tick.
StartsApart == Retreating' /\ ~Retreating => age["toHome"] + 1 >= Interval

(* So the tick that starts it may publish.                                   *)
LEMMA IntervalIsOver ==
  ASSUME IndInv, age["toHome"] + 1 >= Interval
  PROVE  Before.age["toHome"] = Interval
<1>1. age["toHome"] \in 0 .. Interval /\ Interval \in Nat
  BY TimeAssumption DEF IndInv, Now, Worlds, Publishers
<1>2. "toHome" \in Publishers
  BY DEF Publishers
<1>3. Before.age["toHome"] = Older(age["toHome"], Interval)
  BY <1>2 DEF Before
<1> QED BY <1>1, <1>3 DEF Older

(* The tick that starts a retreat publishes home, and no later one publishes *)
(* anything else.                                                            *)
LEMMA TickKeepsRetreat ==
  ASSUME IndInv, StartsApart, RetreatIsWanted, TickTree
  PROVE  RetreatIsWanted'
<1>1. /\ Ticks(After, Before) /\ memory' = After.memory /\ wanted' = LastOf(After)
  BY TickTreeTicks
<1>2. Before.memory = memory
  BY BeforeContract
<1>3. SUFFICES ASSUME After.memory["home"] # 0 PROVE wanted' = "home"
  BY <1>1 DEF RetreatIsWanted, Retreating
<1>4. CASE After.out = <<>>
  <2>1. memory["home"] # 0
    <3>1. SUFFICES ASSUME memory["home"] = 0 PROVE FALSE
      OBVIOUS
    <3>2. Before.age["toHome"] = Interval
      BY <1>1, <1>3, <3>1, IntervalIsOver DEF StartsApart, Retreating
    <3> QED BY <1>1, <1>2, <1>3, <1>4, <3>1, <3>2 DEF Ticks
  <2> QED BY <1>1, <1>4, <2>1 DEF LastOf, RetreatIsWanted, Retreating
<1>5. CASE After.out # <<>>
  BY <1>1, <1>3, <1>5 DEF Ticks, LastOf, LastPose
<1> QED BY <1>4, <1>5

-----------------------------------------------------------------------------
(* The bridge within the chain.                                            *)

BP == INSTANCE GoalPoseBridgeProofs

LEMMA SameAssumptions ==
  BP!PoseAssumption /\ BP!NearAssumption /\ BP!BoundAssumption /\ BP!PromptAssumption
BY ChainAssumption DEF B!PoseAssumption, B!NearAssumption, B!BoundAssumption,
   B!PromptAssumption, BP!PoseAssumption, BP!NearAssumption, BP!BoundAssumption,
   BP!PromptAssumption

LEMMA SameInit == B!Init => BP!Init
BY DEF B!Init, BP!Init, B!GoalIds, BP!GoalIds, B!NoHandle, BP!NoHandle

(* A pose that is taken from the topic is one the bridge may be called with. *)
LEMMA TakeStep ==
  ASSUME topic \in Seq(Poses), Take
  PROVE  BP!Next
<1>1. Head(topic) \in Poses
  BY DEF Take
<1>2. BP!GoalCallback(Head(topic))
  BY DEF Take, B!GoalCallback, BP!GoalCallback, B!GoalIgnored, BP!GoalIgnored, B!GoalSent,
         BP!GoalSent, B!IsDuplicate, BP!IsDuplicate, B!Ready, BP!Ready, B!CancelCurrent,
         BP!CancelCurrent, B!NoHandle, BP!NoHandle, B!bridgeVars, BP!bridgeVars, B!navVars,
         BP!navVars
<1> QED BY <1>1, <1>2 DEF BP!Next

(* The callbacks of the action client.                                       *)
LEMMA ClientStep ==
  ASSUME GoalResponse \/ \E g \in GoalIds : GoalResult(g)
  PROVE  BP!Next
<1>1. CASE GoalResponse
  BY <1>1 DEF GoalResponse, B!GoalResponse, BP!GoalResponse, B!OnResponse, BP!OnResponse,
     B!Ready, BP!Ready, B!navVars, BP!navVars, BP!Next
<1>2. ASSUME NEW g \in GoalIds, GoalResult(g) PROVE BP!Next
  <2>1. BP!GoalResult(g)
    BY <1>2 DEF GoalResult, B!GoalResult, BP!GoalResult, B!OnResult, BP!OnResult, B!Terminal,
       BP!Terminal, B!NoHandle, BP!NoHandle, B!navVars, BP!navVars
  <2> QED BY <2>1 DEF GoalIds, B!GoalIds, BP!GoalIds, BP!Next
<1> QED BY <1>1, <1>2

(* What the server does.                                                     *)
LEMMA ServerStep ==
  ASSUME TakeGoal \/ Lifecycle \/ \E g \in GoalIds : TakeCancel(g) \/ Arrive(g) \/ Abort(g)
  PROVE  BP!Next
<1>1. CASE TakeGoal
  BY <1>1 DEF TakeGoal, B!TakeGoal, BP!TakeGoal, B!Ready, BP!Ready, B!GoalIds, BP!GoalIds,
     B!bridgeVars, BP!bridgeVars, BP!Next
<1>2. CASE Lifecycle
  BY <1>2 DEF Lifecycle, B!Configure, BP!Configure, B!Activate, BP!Activate, B!Deactivate,
     BP!Deactivate, B!Crash, BP!Crash, B!Ready, BP!Ready, B!GoalIds, BP!GoalIds,
     B!bridgeVars, BP!bridgeVars, BP!Next
<1>3. ASSUME NEW g \in GoalIds, TakeCancel(g) \/ Arrive(g) \/ Abort(g) PROVE BP!Next
  <2>1. BP!TakeCancel(g) \/ BP!Succeed(g) \/ BP!Abort(g)
    BY <1>3 DEF TakeCancel, B!TakeCancel, BP!TakeCancel, Arrive, B!Succeed, BP!Succeed, Abort,
       B!Abort, BP!Abort, B!Finish, BP!Finish, B!Ready, BP!Ready, B!bridgeVars, BP!bridgeVars
  <2> QED BY <2>1 DEF GoalIds, B!GoalIds, BP!GoalIds, BP!Next
<1> QED BY <1>1, <1>2, <1>3

(* A step of the chain is a step of the bridge and its server, or leaves     *)
(* them alone.                                                               *)
LEMMA StepIsBridges ==
  ASSUME topic \in Seq(Poses), [ChainNext]_chainVars
  PROVE  [BP!Next]_(BP!vars)
<1>1. CASE Publish \/ (\E s \in Statuses : ReadStatus(s)) \/ UNCHANGED chainVars
  BY <1>1 DEF Publish, ReadStatus, chainVars, bridgeVars, BP!vars, BP!bridgeVars, BP!navVars
<1>2. CASE ChainNext /\ ~(Publish \/ \E s \in Statuses : ReadStatus(s))
  BY <1>2, TakeStep, ClientStep, ServerStep DEF ChainNext
<1> QED BY <1>1, <1>2

-----------------------------------------------------------------------------
(* The chain.                                                              *)

\* The pose published last is the newest on the topic, or was heard last.
NewestIsHeard ==
  IF topic = <<>> THEN heard = wanted ELSE topic[Len(topic)] = wanted

ChainInv ==
  /\ IndInv
  /\ topic \in Seq(Poses) /\ NewestIsHeard
  /\ BP!IndInv /\ BP!DrivingInv

(* A topic that drops poses drops the oldest.                                *)
LEMMA NewestIsKept ==
  ASSUME NEW s \in Seq(Poses)
  PROVE  /\ KeepLast(s) \in Seq(Poses)
         /\ s = <<>> => KeepLast(s) = <<>>
         /\ s # <<>> => KeepLast(s) # <<>> /\ KeepLast(s)[Len(KeepLast(s))] = s[Len(s)]
<1>1. Len(s) \in Nat /\ TopicDepth \in Nat \ {0} /\ (s = <<>> <=> Len(s) = 0)
  BY DepthAssumption, EmptySeq
<1>2. CASE Len(s) <= TopicDepth
  BY <1>1, <1>2 DEF KeepLast
<1>3. CASE Len(s) > TopicDepth
  <2> DEFINE m == Len(s) - TopicDepth + 1
             t == SubSeq(s, m, Len(s))
  <2>1. KeepLast(s) = t
    BY <1>3 DEF KeepLast
  <2>2. m \in 1 .. Len(s)
    BY <1>1, <1>3
  <2>3. t \in Seq(Poses) /\ Len(t) = Len(s) - m + 1 /\ \A i \in 1 .. Len(t) : t[i] = s[m + i - 1]
    BY <1>1, <2>2, SubSeqProperties
  <2> HIDE DEF t
  <2>4. Len(t) = TopicDepth
    BY <1>1, <1>3, <2>3
  <2>5. TopicDepth \in 1 .. Len(t) /\ m + TopicDepth - 1 = Len(s)
    BY <1>1, <2>4
  <2>6. t[Len(t)] = s[Len(s)]
    BY <2>3, <2>4, <2>5
  <2>7. t # <<>>
    BY <1>1, <2>3, <2>4, EmptySeq
  <2> QED BY <1>1, <1>3, <2>1, <2>3, <2>6, <2>7
<1> QED BY <1>1, <1>2, <1>3

(* What is published in a tick is the newest on the topic after it.          *)
LEMMA PublishedIsNewest ==
  ASSUME ChainInv, Publish
  PROVE  topic' \in Seq(Poses) /\ NewestIsHeard'
<1>1. IndInv'
  BY TickKeeps DEF ChainInv, Publish
<1>2. out' \in Seq(Poses) /\ topic \in Seq(Poses)
  BY <1>1 DEF ChainInv, IndInv, Now, Worlds
<1>3. out' = After.out /\ wanted' = LastOf(After) /\ heard' = heard
  BY TickTreeTicks DEF ChainInv, Publish, bridgeVars
<1> DEFINE s == topic \o out'
<1>4. topic' = KeepLast(s)
  BY DEF Publish
<1>5. s \in Seq(Poses) /\ Len(s) = Len(topic) + Len(out') /\ Len(topic) \in Nat /\ Len(out') \in Nat
  BY <1>2
<1>6. CASE out' = <<>>
  <2>1. s = topic /\ wanted' = wanted
    BY <1>2, <1>3, <1>6 DEF LastOf
  <2> QED BY <1>2, <1>3, <1>4, <2>1, NewestIsKept DEF ChainInv, NewestIsHeard
<1>7. CASE out' # <<>>
  <2>1. Len(out') \in 1 .. Len(out')
    BY <1>2, <1>7, EmptySeq
  <2>2. s # <<>> /\ s[Len(s)] = out'[Len(out')]
    BY <1>2, <1>5, <2>1
  <2>3. wanted' = s[Len(s)]
    BY <1>3, <1>7, <2>2 DEF LastOf
  <2> HIDE DEF s
  <2>4. topic' \in Seq(Poses) /\ topic' # <<>> /\ topic'[Len(topic')] = s[Len(s)]
    BY <1>4, <1>5, <2>2, NewestIsKept
  <2> QED BY <2>3, <2>4 DEF NewestIsHeard
<1> QED BY <1>6, <1>7

(* The bridge hears the poses in the order in which they were published.     *)
LEMMA TakenIsHeard ==
  ASSUME ChainInv, Take
  PROVE  topic' \in Seq(Poses) /\ NewestIsHeard'
<1>1. topic \in Seq(Poses) /\ topic # <<>> /\ topic' = Tail(topic)
  BY DEF ChainInv, Take
<1>2. heard' = Head(topic) /\ wanted' = wanted
  BY DEF Take, B!GoalCallback, B!GoalIgnored, B!GoalSent, decisionVars
<1>3. Len(topic) \in Nat \ {0} /\ Head(topic) = topic[1]
  BY <1>1
<1>4. topic' \in Seq(Poses) /\ Len(topic') = Len(topic) - 1
  BY <1>1
<1>5. topic' = <<>> <=> Len(topic) = 1
  <2>1. topic' = <<>> <=> Len(topic') = 0
    BY <1>4, EmptySeq
  <2> QED BY <1>3, <1>4, <2>1
<1>6. \A i \in 1 .. Len(topic') : topic'[i] = topic[i + 1]
  BY <1>1, <1>4
<1>7. CASE topic' = <<>>
  BY <1>1, <1>2, <1>3, <1>5, <1>7 DEF ChainInv, NewestIsHeard
<1>8. CASE topic' # <<>>
  <2>1. Len(topic') \in 1 .. Len(topic') /\ Len(topic') + 1 = Len(topic)
    BY <1>3, <1>4, <1>5, <1>8
  <2>2. topic'[Len(topic')] = topic[Len(topic)]
    BY <1>6, <2>1
  <2> QED BY <1>1, <1>2, <1>8, <2>2 DEF ChainInv, NewestIsHeard
<1> QED BY <1>4, <1>7, <1>8

LEMMA ChainInitInv == ChainInit => ChainInv
<1> SUFFICES ASSUME ChainInit PROVE ChainInv
  OBVIOUS
<1>1. BP!Init
  BY SameInit DEF ChainInit
<1>2. BP!IndInv
  BY <1>1, SameAssumptions, BP!InitEstablishes
<1>3. BP!DrivingInv
  BY <1>1 DEF BP!Init, BP!DrivingInv, BP!NewestIsDriven, BP!Driving
<1>4. NewestIsHeard /\ topic \in Seq(Poses)
  BY DEF ChainInit, Init, B!Init, NewestIsHeard
<1> QED BY <1>2, <1>3, <1>4, InitInv DEF ChainInit, ChainInv

(* Every step of the chain keeps its invariant.                              *)
LEMMA ChainNextInv == ChainInv /\ [ChainNext]_chainVars => ChainInv'
<1> SUFFICES ASSUME ChainInv, [ChainNext]_chainVars PROVE ChainInv'
  OBVIOUS
<1>1. [BP!Next]_(BP!vars)
  BY StepIsBridges DEF ChainInv
<1>2. BP!IndInv' /\ BP!DrivingInv'
  BY <1>1, SameAssumptions, BP!NextKeeps, BP!DrivingStep DEF ChainInv
<1>3. CASE Publish
  BY <1>2, <1>3, TickKeeps, PublishedIsNewest DEF ChainInv, Publish
<1>4. ASSUME NEW s \in Statuses, ReadStatus(s) PROVE ChainInv'
  <2>1. IndInv'
    BY <1>4, MessageArrives DEF ReadStatus, ChainInv
  <2> QED BY <1>2, <1>4, <2>1 DEF ReadStatus, Receive, treeVars, bridgeVars, ChainInv, NewestIsHeard
<1>5. CASE Take
  <2>1. IndInv'
    BY <1>5, RobotMoves DEF ChainInv, Take, decisionVars, treeVars, IndInv, Now, Worlds
  <2> QED BY <1>2, <1>5, <2>1, TakenIsHeard DEF ChainInv
<1>6. ASSUME UNCHANGED <<decisionVars, topic, heard>>, robot' \in Poses \cup {NoPose}
      PROVE  ChainInv'
  <2>1. IndInv'
    BY <1>6, RobotMoves DEF ChainInv, decisionVars, treeVars
  <2> QED BY <1>2, <1>6, <2>1 DEF decisionVars, ChainInv, NewestIsHeard
<1>7. robot \in Poses \cup {NoPose}
  BY DEF ChainInv, IndInv, Now, Worlds
<1>8. ASSUME NEW g \in GoalIds, Arrive(g) PROVE ChainInv'
  <2>1. target \in [GoalIds -> Poses \cup {NoPose}]
    BY DEF ChainInv, BP!IndInv, BP!TypeOK, BP!GoalIds, GoalIds, B!GoalIds
  <2> QED BY <1>6, <1>8, <2>1 DEF Arrive, B!Succeed, B!Finish
<1>9. CASE GoalResponse \/ TakeGoal \/ Lifecycle
           \/ \E g \in GoalIds : GoalResult(g) \/ TakeCancel(g) \/ Abort(g)
  BY <1>6, <1>7, <1>9 DEF GoalResponse, B!GoalResponse, TakeGoal, B!TakeGoal, Lifecycle,
     B!Configure, B!Activate, B!Deactivate, B!Crash, GoalResult, B!GoalResult, TakeCancel,
     B!TakeCancel, Abort, B!Abort, B!Finish
<1>10. CASE UNCHANGED chainVars
  BY <1>6, <1>7, <1>10 DEF chainVars, bridgeVars
<1> QED BY <1>3, <1>4, <1>5, <1>8, <1>9, <1>10 DEF ChainNext

THEOREM ChainHolds == ChainSpec => []ChainInv
BY ChainInitInv, ChainNextInv, PTL DEF ChainSpec

(* The chain implements the bridge of module GoalPoseBridge: the tree and    *)
(* the topic only choose the poses that goal_callback is called with         *)
(* (goal_pose_bridge.cpp:27-29), so all that is proved of the bridge holds   *)
(* for it.                                                                   *)
THEOREM ImplementsBridge == ChainSpec => BP!Spec
<1>1. ChainInit => BP!Init
  BY SameInit DEF ChainInit
<1>2. ChainInv /\ [ChainNext]_chainVars => [BP!Next]_(BP!vars)
  BY StepIsBridges DEF ChainInv
<1> QED BY <1>1, <1>2, ChainHolds, PTL DEF ChainSpec, BP!Spec

(* Whatever the tree, the poses that the topic drops, the answers that come  *)
(* late, and the failures and crashes of Nav2: once nothing is under way the *)
(* server drives only to the pose that the tree published last               *)
(* (goal_pose_bridge.cpp:46-110, cod_behavior/README.md:37-38).              *)
THEOREM ChainDrivesWhereWanted == ChainSpec => []DrivesWhereWanted
<1>1. ChainInv => DrivesWhereWanted
  <2> SUFFICES ASSUME ChainInv, Delivered, NEW g \in GoalIds, server[g] = "active"
               PROVE  <<target[g], wanted>> \in Near
    BY DEF DrivesWhereWanted
  <2>1. heard = wanted /\ goal_req = <<>> /\ g \in BP!GoalIds
    BY DEF ChainInv, NewestIsHeard, Delivered, GoalIds, B!GoalIds, BP!GoalIds
  <2>2. g = goal_counter /\ <<target[goal_counter], heard>> \in Near
    BY <2>1 DEF ChainInv, BP!DrivingInv, BP!NewestIsDriven, BP!Driving
  <2> QED BY <2>1, <2>2
<1> QED BY <1>1, ChainHolds, PTL

\* No other place is within the tolerance of home.
HomeApart == \A p \in Poses : <<p, "home">> \in Near => p = "home"

\* No retreat starts within the interval after the last publication of home.
RetreatsApart == [][StartsApart]_chainVars

(* Low hit points (cod_behavior/README.md:37-38): while the robot retreats   *)
(* and nothing is under way, the server drives it nowhere but home, for      *)
(* every tree and any interval, if no retreat starts so soon after the one   *)
(* before that home is not published (bt_topic_pub_node.hpp:198-202).        *)
THEOREM RetreatHeadsHome == HomeApart => (ChainSpec /\ RetreatsApart => []RetreatDrivesHome)
<1> SUFFICES ASSUME HomeApart PROVE ChainSpec /\ RetreatsApart => []RetreatDrivesHome
  OBVIOUS
<1>1. ChainInit => RetreatIsWanted
  BY DEF ChainInit, Init, RetreatIsWanted, Retreating, Nodes
<1>2. ChainInv /\ RetreatIsWanted /\ [ChainNext]_chainVars /\ [StartsApart]_chainVars
        => RetreatIsWanted'
  <2> SUFFICES ASSUME ChainInv, RetreatIsWanted, [ChainNext]_chainVars, [StartsApart]_chainVars
               PROVE  RetreatIsWanted'
    OBVIOUS
  <2>1. CASE Publish /\ StartsApart
    BY <2>1, TickKeepsRetreat DEF Publish, ChainInv
  <2>2. CASE UNCHANGED <<memory, wanted>>
    BY <2>2 DEF RetreatIsWanted, Retreating
  <2>3. Publish \/ UNCHANGED <<memory, wanted>>
    BY DEF ChainNext, ReadStatus, Receive, treeVars, Take, GoalResponse, GoalResult, TakeGoal,
           TakeCancel, Arrive, Abort, Lifecycle, decisionVars, chainVars
  <2>4. StartsApart \/ UNCHANGED <<memory, wanted>>
    BY DEF chainVars, decisionVars
  <2> QED BY <2>1, <2>2, <2>3, <2>4
<1>3. RetreatIsWanted /\ ChainInv /\ DrivesWhereWanted => RetreatDrivesHome
  <2> SUFFICES ASSUME RetreatIsWanted, ChainInv, DrivesWhereWanted, Retreating, Delivered,
                      NEW g \in GoalIds, server[g] = "active"
               PROVE  target[g] = "home"
    BY DEF RetreatDrivesHome
  <2>1. <<target[g], "home">> \in Near
    BY DEF DrivesWhereWanted, RetreatIsWanted
  <2>2. Near \subseteq Poses \X Poses
    BY ChainAssumption DEF B!NearAssumption
  <2>3. target[g] \in Poses
    BY <2>1, <2>2
  <2> QED BY <2>1, <2>3 DEF HomeApart
<1> QED
  BY <1>1, <1>2, <1>3, ChainHolds, ChainDrivesWhereWanted, PTL DEF ChainSpec, RetreatsApart

(* A publisher that is never held back sends every retreat home: an interval *)
(* of at most one tick is over when the next tick comes.                     *)
THEOREM UnthrottledHeadsHome ==
  Interval <= 1 /\ HomeApart => (ChainSpec => []RetreatDrivesHome)
<1> SUFFICES ASSUME Interval <= 1, HomeApart PROVE ChainSpec => []RetreatDrivesHome
  OBVIOUS
<1>1. ChainInv => age["toHome"] + 1 >= Interval
  <2>1. SUFFICES ASSUME ChainInv PROVE age["toHome"] + 1 >= Interval
    OBVIOUS
  <2>2. age["toHome"] \in 0 .. Interval /\ Interval \in Nat
    BY <2>1, TimeAssumption DEF ChainInv, IndInv, Now, Worlds, Publishers
  <2> QED BY <2>2
<1>2. ChainInv /\ [ChainNext]_chainVars => [StartsApart]_chainVars
  BY <1>1 DEF StartsApart
<1>3. ChainSpec => RetreatsApart
  BY <1>2, ChainHolds, PTL DEF ChainSpec, RetreatsApart
<1> QED BY <1>3, RetreatHeadsHome
=============================================================================
