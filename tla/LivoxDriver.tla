------------------------------ MODULE LivoxDriver ------------------------------
(***************************************************************************)
(* livox_ros_driver2: the driver of the lidar.  Its threads:               *)
(*   - the SDK's (external) bring point and imu packets, changes of a      *)
(*     lidar's state, and the answers to the requests that configure it;   *)
(*   - RawDataProcess collects points and cuts them into frames;           *)
(*   - PointCloudDataPollThread and ImuDataPollThread publish what was     *)
(*     queued, each woken by a semaphore that is signalled only if an      *)
(*     unlocked look at its count finds it at zero;                        *)
(*   - the main thread ends the node in the destructor of DriverNode.      *)
(*                                                                         *)
(* A lidar is named by its cache index.  Points are counted as some or     *)
(* none, and time as whether a frame is due.                               *)
(***************************************************************************)
EXTENDS LidarQueue, Sequences, FiniteSets, Functions

CONSTANTS
  LidarCount,  \* indexes that are polled, kMaxSourceLidar in the code
  Configured,  \* lidars of the user's config file
  Options,     \* Options[l]: what the driver sets when lidar l announces itself
  ImuLidars,   \* lidars that send imu data
  MaxImu       \* bound: an imu queue of this length may be any longer one

Lidars == 1 .. LidarCount

ASSUME LidarAssumption ==
  /\ LidarCount \in Nat \ {0}
  /\ Configured \in SUBSET Lidars /\ ImuLidars \in SUBSET Lidars
  /\ DOMAIN Options = Lidars
ASSUME BoundAssumption == MaxImu \in Nat \ {0}

AllOptions == UNION {Options[l] : l \in Lidars}

VARIABLES
  frame,           \* lidars whose part of the current frame is not stored yet
  proc,            \* where RawDataProcess is
  data,            \* ring of each lidar
  pcd_semaphore, poll, pkg,
  imu_data,        \* length of each imu queue
  imu_semaphore,
  sdk,             \* the lidar whose sample was just pushed, or Idle
  imu_poll,
  map_index,       \* lidars that have an index
  set_bits, connect_state,
  acked,           \* options a lidar has acknowledged (history)
  request_exit, exit_signal, main

pubVars == <<frame, proc>>
pcdVars == <<poll, pkg>>
imuVars == <<imu_data, imu_semaphore, sdk, imu_poll>>
cfgVars == <<map_index, set_bits, connect_state, acked>>
exitVars == <<request_exit, exit_signal, main>>
vars == <<pubVars, data, pcd_semaphore, pcdVars, imuVars, cfgVars, exitVars>>

ProcAt == {"pop", "store", "write", "pushed", "count"}

\* The thread of the SDK is at no imu queue.
Idle == 0

\* A poll thread stands at one of these points, and at a lidar.
PollAt == {"round", "wait", "scan", "inner", "update", "ended"}

TypeOK ==
  /\ frame \in Seq(Lidars) /\ proc \in ProcAt
  /\ data \in [Lidars -> Queue] /\ pcd_semaphore \in Nat
  /\ poll \in [at : PollAt, lidar : 1 .. LidarCount + 1] /\ pkg \in Index \cup {Torn}
  /\ imu_data \in [Lidars -> 0 .. MaxImu] /\ imu_semaphore \in Nat
  /\ sdk \in Idle .. LidarCount
  /\ imu_poll \in [at : PollAt, lidar : 1 .. LidarCount + 1]
  /\ map_index \in SUBSET Lidars
  /\ set_bits \in [Lidars -> SUBSET AllOptions] /\ acked \in [Lidars -> SUBSET AllOptions]
  /\ connect_state \in [Lidars -> {"Off", "Sampling"}]
  /\ request_exit \in BOOLEAN /\ exit_signal \in BOOLEAN
  /\ main \in {"run", "exiting", "join_pcd", "join_imu", "ended"}

Init ==
  /\ frame = <<>> /\ proc = "pop"
  /\ data = [l \in Lidars |-> InitQueue] /\ pcd_semaphore = 0
  /\ poll = [at |-> "round", lidar |-> 1] /\ pkg = Torn
  /\ imu_data = [l \in Lidars |-> 0] /\ imu_semaphore = 0 /\ sdk = Idle
  /\ imu_poll = [at |-> "round", lidar |-> 1]
  /\ map_index = Configured
  /\ set_bits = [l \in Lidars |-> {}]
  /\ acked = [l \in Lidars |-> {}]
  /\ connect_state = [l \in Lidars |-> "Off"]
  /\ request_exit = FALSE /\ exit_signal = FALSE /\ main = "run"

-----------------------------------------------------------------------------
(* The SDK's threads (external) and the callbacks they run.                *)

\* Mutant: off by one.
MutantSignalled(count) == IF count < 0 THEN count + 1 ELSE count

\* What a thread that finds work queued does to the semaphore.
Signalled(count) == IF count <= 0 THEN count + 1 ELSE count

\* OnLivoxLidarPointCloudCallback and StorageImuData, for imu data.
ImuPacket(l) ==
  /\ l \in ImuLidars
  /\ sdk = Idle
  /\ IF l \in map_index
     THEN /\ imu_data' = [imu_data EXCEPT ![l] = IF @ = MaxImu THEN @ ELSE @ + 1]
          /\ sdk' = l
     ELSE UNCHANGED <<imu_data, sdk>>
  /\ UNCHANGED <<frame, proc, data, pcd_semaphore, pcdVars,
                 imu_semaphore, imu_poll, cfgVars, exitVars>>

\* Only this thread signals, so what GetCount found still holds at Signal.  The
\* test before it found a sample, unless the reader has taken all of them by now.
ImuSignal ==
  /\ sdk \in Lidars
  /\ \/ imu_semaphore' = Signalled(imu_semaphore)
     \/ imu_data[sdk] = 0 /\ UNCHANGED imu_semaphore
  /\ sdk' = Idle
  /\ UNCHANGED <<pubVars, data, pcd_semaphore, pcdVars, imu_data, imu_poll, cfgVars, exitVars>>

\* LidarInfoChangeCallback: the options are asked for and their bits set under
\* one lock.  A lidar the file does not name gets an index and nothing else, and
\* so a device whose options are all zero rather than -1: when it announces
\* itself again, every option is set.
LidarInfoChange(l) ==
  /\ IF l \in map_index
     THEN set_bits' = [set_bits EXCEPT ![l] = Options[l]] /\ UNCHANGED map_index
     ELSE map_index' = map_index \cup {l} /\ UNCHANGED set_bits
  /\ UNCHANGED <<connect_state, acked, pubVars, data, pcd_semaphore, pcdVars, imuVars,
                 exitVars>>

\* Mutant: the first acknowledged option is enough.
MutantAcknowledge(l, o) ==
  /\ o \in set_bits[l]
  /\ acked' = [acked EXCEPT ![l] = @ \cup {o}]
  /\ set_bits' = [set_bits EXCEPT ![l] = @ \ {o}]
  /\ connect_state' = [connect_state EXCEPT ![l] = "Sampling"]
  /\ UNCHANGED <<map_index, pubVars, data, pcd_semaphore, pcdVars, imuVars, exitVars>>

\* SetDataTypeCallback, SetPatternModeCallback, SetBlindSpotCallback and
\* SetDualEmitCallback with success.  After a timeout they ask again, and after
\* a failure they do nothing, so that the bit waits for an answer to a request
\* of the next announcement.
Acknowledge(l, o) ==
  /\ o \in set_bits[l]
  /\ acked' = [acked EXCEPT ![l] = @ \cup {o}]
  /\ set_bits' = [set_bits EXCEPT ![l] = @ \ {o}]
  /\ connect_state' =
       [connect_state EXCEPT ![l] = IF set_bits'[l] = {} THEN "Sampling" ELSE @]
  /\ UNCHANGED <<map_index, pubVars, data, pcd_semaphore, pcdVars, imuVars, exitVars>>

-----------------------------------------------------------------------------
(* RawDataProcess.                                                         *)

\* A packet of lidar l makes a frame due.  CheckTimer takes the points of l
\* alone if the packet that came last, of whatever lidar, was synchronised, and
\* otherwise those of every lidar that has any, in the order of their handles.
BuildFrame(l, others) ==
  /\ proc = "pop"
  /\ LET parts == {l} \cup others
     IN  frame' \in {f \in [1 .. Cardinality(parts) -> parts] : IsInjective(f)}
  /\ proc' = "store"
  /\ UNCHANGED <<data, pcd_semaphore, pcdVars, imuVars, cfgVars, exitVars>>

\* The next lidar of the frame, or the next packet.
NextPart ==
  /\ frame' = Tail(frame)
  /\ proc' = IF Tail(frame) = <<>> THEN "pop" ELSE "store"

\* Mutant: a frame that finds the ring full is dropped without a signal.
MutantStorePartSilently ==
  /\ proc = "store"
  /\ LET l == Head(frame)
     IN  IF l \notin map_index \/ QueueIsFull(data[l]) THEN NextPart /\ UNCHANGED data
         ELSE /\ data' = [data EXCEPT ![l] = WriteSlot(@)]
              /\ proc' = "write" /\ UNCHANGED frame
  /\ UNCHANGED <<pcd_semaphore, pcdVars, imuVars, cfgVars, exitVars>>

\* StoragePointData and PushLidarData: a frame without an index is dropped,
\* and one that finds the ring full is dropped too but wakes the reader.
StorePart ==
  /\ proc = "store"
  /\ LET l == Head(frame)
     IN  IF l \notin map_index THEN NextPart /\ UNCHANGED data
         ELSE IF QueueIsFull(data[l])
         THEN proc' = "count" /\ UNCHANGED <<frame, data>>
         ELSE /\ data' = [data EXCEPT ![l] = WriteSlot(@)]
              /\ proc' = "write" /\ UNCHANGED frame
  /\ UNCHANGED <<pcd_semaphore, pcdVars, imuVars, cfgVars, exitVars>>

PushPart ==
  /\ proc = "write"
  /\ data' = [data EXCEPT ![Head(frame)] = PushUpdate(@)]
  /\ proc' = "pushed"
  /\ UNCHANGED <<frame, pcd_semaphore, pcdVars, imuVars, cfgVars, exitVars>>

\* The reader may have taken the frame already.
LookAgain ==
  /\ proc = "pushed"
  /\ IF QueueIsEmpty(data[Head(frame)]) THEN NextPart
     ELSE proc' = "count" /\ UNCHANGED frame
  /\ UNCHANGED <<data, pcd_semaphore, pcdVars, imuVars, cfgVars, exitVars>>

Signal ==
  /\ proc = "count"
  /\ pcd_semaphore' = Signalled(pcd_semaphore)
  /\ NextPart
  /\ UNCHANGED <<data, pcdVars, imuVars, cfgVars, exitVars>>

-----------------------------------------------------------------------------
(* The poll threads.  What they share: where a thread goes next.           *)

Goto(p, at) == [p EXCEPT !.at = at]

\* The loop of either thread: it ends once the future is ready, and waits
\* unless the node is ending.
Round(p) == Goto(p, IF exit_signal THEN "ended" ELSE IF request_exit THEN "round" ELSE "wait")

\* The loop over the lidars of both Distribute functions; a lidar that samples
\* goes on sampling.
Scan(p, empty) ==
  IF p.lidar > LidarCount THEN [at |-> "round", lidar |-> 1]
  ELSE IF connect_state[p.lidar] # "Sampling" \/ request_exit \/ empty
  THEN [p EXCEPT !.lidar = @ + 1]
  ELSE Goto(p, "inner")

\* DistributePointCloudData and PollingLidarPointCloudData.
PollPcd ==
  /\ \/ poll.at = "round" /\ poll' = Round(poll)
     \/ /\ poll.at = "scan"
        /\ poll' = Scan(poll, poll.lidar \in Lidars /\ QueueIsEmpty(data[poll.lidar]))
  /\ UNCHANGED <<pubVars, data, pcd_semaphore, pkg, imuVars, cfgVars, exitVars>>

WaitPcd ==
  /\ poll.at = "wait"
  /\ pcd_semaphore > 0
  /\ pcd_semaphore' = pcd_semaphore - 1
  /\ poll' = [at |-> "scan", lidar |-> 1]
  /\ UNCHANGED <<pubVars, data, pkg, imuVars, cfgVars, exitVars>>

\* PublishPointcloud2, PublishCustomPointcloud and
\* PublishPointcloud2AndCustomMsg: they go on until the ring is empty, even if
\* the node is ending.
PrePop ==
  /\ poll.at = "inner"
  /\ IF QueueIsEmpty(data[poll.lidar])
     THEN poll' = Goto(poll, "scan") /\ UNCHANGED pkg
     ELSE poll' = Goto(poll, "update") /\ pkg' = QueuePrePop(data[poll.lidar])
  /\ UNCHANGED <<pubVars, data, pcd_semaphore, imuVars, cfgVars, exitVars>>

PopPublish ==
  /\ poll.at = "update"
  /\ data' = [data EXCEPT ![poll.lidar] = QueuePopUpdate(@)]
  /\ pkg' = Torn
  /\ poll' = Goto(poll, "inner")
  /\ UNCHANGED <<pubVars, pcd_semaphore, imuVars, cfgVars, exitVars>>

\* DistributeImuData, PollingLidarImuData and PublishImuData.
PollImu ==
  /\ \/ /\ imu_poll.at = "round"
        /\ imu_poll' = Round(imu_poll) /\ UNCHANGED <<imu_data, imu_semaphore>>
     \/ /\ imu_poll.at = "wait" /\ imu_semaphore > 0
        /\ imu_semaphore' = imu_semaphore - 1
        /\ imu_poll' = [at |-> "scan", lidar |-> 1] /\ UNCHANGED imu_data
     \/ /\ imu_poll.at = "scan"
        /\ LET l == imu_poll.lidar
               next == Scan(imu_poll, l \in Lidars /\ imu_data[l] = 0)
           IN  IF next.at = "inner"
               THEN /\ \E left \in {imu_data[l] - 1} \cup ({imu_data[l]} \cap {MaxImu}) :
                         imu_data' = [imu_data EXCEPT ![l] = left]
                    /\ UNCHANGED imu_poll
               ELSE imu_poll' = next /\ UNCHANGED imu_data
        /\ UNCHANGED imu_semaphore
  /\ UNCHANGED <<pubVars, data, pcd_semaphore, pcdVars, sdk, cfgVars, exitVars>>

-----------------------------------------------------------------------------
(* ~DriverNode.                                                            *)

\* Mutant: the promise is never kept.
MutantDestroy ==
  /\ \/ main = "run" /\ main' = "join_pcd" /\ request_exit' = TRUE
     \/ main = "join_pcd" /\ poll.at = "ended" /\ main' = "join_imu" /\ UNCHANGED request_exit
     \/ main = "join_imu" /\ imu_poll.at = "ended" /\ main' = "ended" /\ UNCHANGED request_exit
  /\ UNCHANGED <<exit_signal, pubVars, data, pcd_semaphore, pcdVars, imuVars, cfgVars>>

Destroy ==
  /\ \/ main = "run" /\ main' = "exiting" /\ request_exit' = TRUE /\ UNCHANGED exit_signal
     \/ main = "exiting" /\ main' = "join_pcd" /\ exit_signal' = TRUE /\ UNCHANGED request_exit
     \/ /\ main = "join_pcd" /\ poll.at = "ended"
        /\ main' = "join_imu" /\ UNCHANGED <<request_exit, exit_signal>>
     \/ /\ main = "join_imu" /\ imu_poll.at = "ended"
        /\ main' = "ended" /\ UNCHANGED <<request_exit, exit_signal>>
  /\ UNCHANGED <<pubVars, data, pcd_semaphore, pcdVars, imuVars, cfgVars>>

-----------------------------------------------------------------------------
SdkNext ==
  \E l \in Lidars :
    \/ ImuPacket(l) \/ LidarInfoChange(l)
    \/ \E o \in Options[l] : Acknowledge(l, o)

Store == StorePart \/ PushPart \/ LookAgain \/ Signal

Process == Store \/ \E l \in Lidars, others \in SUBSET Lidars : BuildFrame(l, others)

PollPoints == PollPcd \/ WaitPcd \/ PrePop \/ PopPublish

Next == SdkNext \/ ImuSignal \/ Process \/ PollPoints \/ PollImu \/ Destroy

Spec == Init /\ [][Next]_vars

\* Every thread keeps running, but no packet need come.
Fairness ==
  /\ WF_vars(Store) /\ WF_vars(ImuSignal) /\ WF_vars(PollPoints) /\ WF_vars(PollImu)
  /\ WF_vars(Destroy /\ main # "run")

FairSpec == Spec /\ Fairness

-----------------------------------------------------------------------------
(* What the driver promises.                                               *)

\* ldq.cpp, without a lock between the two threads: the frame being copied out
\* is the oldest one that was not published yet, whole, and its slot is not
\* written to before it is given back, also when the indexes wrap around.
FrameIsIntact ==
  poll.at = "update" =>
    LET q == data[poll.lidar]
    IN  ~QueueIsEmpty(q) /\ pkg = q.rd_idx /\ QueuePrePop(q) = pkg

\* livox_lidar_callback.cpp:58-90: data of a lidar is published only after the
\* lidar acknowledged every option of the configuration at least once, whatever
\* was refused, asked again or announced again between.
SamplingIsConfigured ==
  \A l \in Lidars : connect_state[l] = "Sampling" => acked[l] = Options[l]

\* The reader always comes back to its loop: frames arrive more slowly than they
\* are published.
CatchesUp == []<>(poll.at \in {"round", "wait", "ended"})

\* A lidar keeps sending enough points for a frame.
KeepsSending(l) == []<>(proc = "store" /\ Head(frame) = l)

\* lds.cpp:184-195: the unlocked look at the semaphore loses no wakeup: a frame
\* pushed for a sampling lidar is published although no other frame follows.
PushedIsPublished ==
  CatchesUp =>
    \A l \in Lidars :
      (proc = "pushed" /\ Head(frame) = l /\ connect_state[l] = "Sampling")
        ~> (QueueIsEmpty(data[l]) \/ request_exit)

\* lds.cpp:191-195: a ring that filled up before its lidar was sampling does not
\* stay full while the lidar keeps sending.
FullRingDrains ==
  \A l \in Lidars :
    CatchesUp /\ KeepsSending(l) =>
      ((QueueIsFull(data[l]) /\ connect_state[l] = "Sampling")
         ~> (~QueueIsFull(data[l]) \/ request_exit))

\* driver_node.cpp:34-39: the destructor returns as long as points and imu data
\* of some lidar keep coming; nothing but data wakes the threads it waits for.
ShutdownEnds ==
  CatchesUp /\ []<>(proc = "count") /\ []<>(sdk \in Lidars)
    => (request_exit ~> main = "ended")
=============================================================================
