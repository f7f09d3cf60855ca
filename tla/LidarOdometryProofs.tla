------------------------ MODULE LidarOdometryProofs ------------------------
(* What laserMapping promises of the times and points it works with, for any *)
(* scans and imu samples, however they are interleaved or lost, and wherever  *)
(* their times jump back to.                                                 *)
EXTENDS LidarOdometry, SequenceTheorems, FiniteSetTheorems, TLAPS

-----------------------------------------------------------------------------
(* The inductive invariants.                                               *)

\* Until the imu is initialised no scan was undistorted.
NothingUndistorted == imu_need_init_ => feats_undistort = NoScan

MeasFields == {"lidar", "lidar_beg_time", "lidar_end_time", "imu"}

Types ==
  /\ lidar_buffer \in Seq(Scan) /\ time_buffer \in Seq(ScanTimes)
  /\ last_timestamp_lidar \in ScanTimes \cup {None}
  /\ lidar_mean_scantime \in Nat
  /\ DOMAIN meas = MeasFields /\ meas.lidar \in Scan \cup {NoScan}
  /\ meas.lidar_beg_time \in Nat /\ meas.lidar_end_time \in Nat
  /\ feats_undistort \in Scan \cup {NoScan}
  /\ odom \in Int \X Int

\* The two queues of a scan and of its time are parallel, and scans wait in the
\* order in which they began.
QueuesAreParallel ==
  /\ Len(lidar_buffer) = Len(time_buffer)
  /\ \A i \in DOMAIN lidar_buffer :
       time_buffer[i] = lidar_buffer[i].stamp /\ time_buffer[i] <= last_timestamp_lidar
  /\ \A i, j \in DOMAIN time_buffer : i < j => time_buffer[i] < time_buffer[j]

\* A scan that was taken is still the oldest.
TakenIsOldest ==
  lidar_pushed =>
    /\ lidar_buffer # <<>>
    /\ meas.lidar = lidar_buffer[1] /\ meas.lidar_beg_time = time_buffer[1]

\* What a scan may last.
Plausible(d) == d = 0 \/ \E o \in Offsets : d <= o

\* A mean is known as soon as a scan of several points was taken, and the scan that
\* was taken then lasts.
MeanIsKnown ==
  /\ Plausible(lidar_mean_scantime)
  /\ feats_undistort.size > 1 => lidar_mean_scantime > 0
  /\ lidar_pushed =>
       /\ meas.lidar.size > 1 => lidar_mean_scantime > 0
       /\ lidar_mean_scantime > 0 => meas.lidar_beg_time < meas.lidar_end_time
       /\ Plausible(meas.lidar_end_time - meas.lidar_beg_time)

StampInv == Types /\ QueuesAreParallel /\ TakenIsOldest /\ ScanKeepsItsStamp /\ MeanIsKnown

\* Scans are dropped only by a jump back.
JumpsCounted ==
  /\ lidar_jumps \in Nat /\ dropped \in Nat
  /\ lidar_jumps = 0 => dropped = 0

\* The last odometry is that of a scan which began before all that wait.
OdometryIsPast ==
  odom[2] # None =>
    \E s \in ScanTimes, o \in Offsets :
      /\ odom[2] <= s + o /\ s <= last_timestamp_lidar
      /\ \A i \in DOMAIN time_buffer : s < time_buffer[i]

OdometryInv == lidar_jumps = 0 /\ StampInv /\ OdometryIsPast /\ OdometryMovesOn

\* A scan ends before the next one begins (the lidar turns or scans on).
ScansFollow == \A s, t \in ScanTimes, o \in Offsets : s < t => s + o <= t

-----------------------------------------------------------------------------
(* What is registered are the points of the scan.                          *)

RegisterInv == NothingUndistorted /\ DOMAIN meas = MeasFields

\* What sync_packages takes: what it took before, or the scan at the front.
LEMMA PushedIsFront ==
  ASSUME DOMAIN meas = MeasFields, NEW p \in Pushed
  PROVE  /\ DOMAIN p[1] = MeasFields
         /\ \/ lidar_pushed /\ p = <<meas, lidar_mean_scantime>>
            \/ /\ ~lidar_pushed
               /\ \E e \in ScanEnds(Head(lidar_buffer)) :
                    /\ p[1].lidar = Head(lidar_buffer)
                    /\ p[1].lidar_beg_time = Head(time_buffer)
                    /\ p[1].lidar_end_time = Head(time_buffer) + e.lasts
                    /\ p[2] = e.mean
<1>1. CASE lidar_pushed
  BY <1>1 DEF Pushed
<1>2. CASE ~lidar_pushed
  <2>1. PICK e \in ScanEnds(Head(lidar_buffer)) :
          p = <<[meas EXCEPT !.lidar = Head(lidar_buffer),
                             !.lidar_beg_time = Head(time_buffer),
                             !.lidar_end_time = Head(time_buffer) + e.lasts], e.mean>>
    BY <1>2 DEF Pushed
  <2> DEFINE taken == [meas EXCEPT !.lidar = Head(lidar_buffer),
                                   !.lidar_beg_time = Head(time_buffer),
                                   !.lidar_end_time = Head(time_buffer) + e.lasts]
  <2>2. p[1] = taken /\ p[2] = e.mean
    BY <2>1
  <2>3. /\ DOMAIN taken = MeasFields /\ taken.lidar = Head(lidar_buffer)
        /\ taken.lidar_beg_time = Head(time_buffer)
        /\ taken.lidar_end_time = Head(time_buffer) + e.lasts
    BY DEF MeasFields
  <2> HIDE DEF taken
  <2> QED  BY <1>2, <2>2, <2>3
<1> QED  BY <1>1, <1>2

\* The group that is processed is the scan with its samples.
LEMMA GroupIsScan ==
  ASSUME NEW m, DOMAIN m = MeasFields, Synced(m)
  PROVE  /\ DOMAIN meas' = MeasFields
         /\ meas'.lidar = m.lidar /\ meas'.lidar_beg_time = m.lidar_beg_time
         /\ meas'.lidar_end_time = m.lidar_end_time
  BY DEF Synced, MeasFields

\* Either the scan was undistorted, or there is nothing to register, or the points
\* undistorted last are registered again.
LEMMA SyncedUndistorts ==
  ASSUME RegisterInv, NEW m, DOMAIN m = MeasFields, Synced(m)
  PROVE  /\ NothingUndistorted'
         /\ odom' # odom =>
              feats_undistort' = IF meas'.imu = <<>> THEN feats_undistort ELSE meas'.lidar
<1> DEFINE group == [m EXCEPT !.imu = SubSeq(imu_buffer, 1, ImuUpTo(m.lidar_end_time))]
<1>1. meas' = group /\ meas'.lidar = m.lidar /\ group.lidar = m.lidar
  BY GroupIsScan DEF Synced
<1> HIDE DEF group
<1>2. CASE flg_first_scan
  BY <1>2 DEF Synced, procVars, RegisterInv, NothingUndistorted
<1>3. CASE ~flg_first_scan
  <2>1. Process(group) /\ Register(m.lidar_end_time)
    BY <1>3 DEF Synced, group
  <2>2. CASE group.imu = <<>>
    BY <1>1, <2>1, <2>2 DEF Process, procVars, RegisterInv, NothingUndistorted
  <2>3. CASE group.imu # <<>> /\ imu_need_init_
    <3>1. feats_undistort' = NoScan
      BY <2>1, <2>3 DEF Process, IMU_init, RegisterInv, NothingUndistorted
    <3>2. feats_undistort'.size = 0
      BY <3>1 DEF NoScan
    <3> QED  BY <2>1, <3>1, <3>2 DEF Register, NothingUndistorted
  <2>4. CASE group.imu # <<>> /\ ~imu_need_init_
    <3>1. feats_undistort' = group.lidar /\ ~imu_need_init_'
      BY <2>1, <2>4 DEF Process, UndistortPcl
    <3> QED  BY <1>1, <2>4, <3>1 DEF NothingUndistorted
  <2> QED  BY <2>2, <2>3, <2>4
<1> QED  BY <1>2, <1>3

LEMMA RegisterStep ==
  ASSUME RegisterInv, [Next]_vars
  PROVE  /\ RegisterInv'
         /\ [odom' # odom =>
               feats_undistort' = IF meas'.imu = <<>> THEN feats_undistort ELSE meas'.lidar]_vars
<1>1. CASE (\E scan \in Scan : ScanArrives(scan)) \/ (\E time \in ImuTimes : ImuArrives(time))
  BY <1>1 DEF ScanArrives, ImuArrives, RegisterInv, NothingUndistorted, procVars, syncVars,
              mapVars
<1>2. CASE TimerCallback
  <2>1. PICK p \in Pushed : IF IsComplete(p[1]) THEN Synced(p[1])
                            ELSE meas' = p[1] /\ UNCHANGED <<procVars, mapVars>>
    BY <1>2 DEF TimerCallback
  <2>2. DOMAIN p[1] = MeasFields
    BY PushedIsFront DEF RegisterInv
  <2>3. CASE IsComplete(p[1])
    BY <2>1, <2>2, <2>3, SyncedUndistorts, GroupIsScan DEF RegisterInv
  <2>4. CASE ~IsComplete(p[1])
    BY <2>1, <2>2, <2>4 DEF RegisterInv, NothingUndistorted, procVars, mapVars
  <2> QED  BY <2>3, <2>4
<1>3. CASE UNCHANGED vars
  BY <1>3 DEF vars, RegisterInv, NothingUndistorted, procVars, syncVars, mapVars
<1> QED  BY <1>1, <1>2, <1>3 DEF Next

\* IMU_Processing.hpp:344, laserMapping.cpp:1006-1091: a new odometry comes of the
\* points of the scan it is stamped with, if a sample belonged to that scan, and else
\* of the very points that were undistorted last, once more.
THEOREM RegistersOwnScan == Spec => RegistersTheScan
<1>1. Init => RegisterInv
  BY DEF Init, RegisterInv, NothingUndistorted, MeasFields
<1> QED  BY <1>1, RegisterStep, PTL DEF Spec, RegistersTheScan

-----------------------------------------------------------------------------
(* Scans keep their stamps.                                                *)

LEMMA ScanFields ==
  ASSUME NEW scan \in Scan
  PROVE  /\ scan.stamp \in ScanTimes /\ scan.stamp \in Nat
         /\ scan.last \in Nat /\ scan.size \in Nat
         /\ scan.size > 1 => scan.last \in Offsets /\ scan.last > 0
<1>1. ScanTimes \subseteq Nat /\ Sizes \subseteq Nat /\ Offsets \subseteq Nat \ {0}
  BY TimeAssumption, ScanAssumption
<1>2. CASE scan \in [stamp : ScanTimes, last : {0}, size : Sizes \cap 0 .. 1]
  <2>1. scan.stamp \in ScanTimes /\ scan.last = 0 /\ scan.size \in 0 .. 1
    BY <1>2
  <2>2. scan.last \in Nat /\ scan.size \in Nat /\ ~(scan.size > 1)
    BY <2>1
  <2>3. scan.stamp \in Nat
    BY <1>1, <2>1
  <2> QED  BY <2>1, <2>2, <2>3
<1>3. CASE scan \in [stamp : ScanTimes, last : Offsets, size : Sizes \ 0 .. 1]
  <2>1. scan.stamp \in ScanTimes /\ scan.last \in Offsets /\ scan.size \in Sizes
    BY <1>3
  <2>2. scan.stamp \in Nat /\ scan.last \in Nat \ {0} /\ scan.size \in Nat
    BY <1>1, <2>1
  <2> QED  BY <2>1, <2>2
<1> QED  BY <1>2, <1>3 DEF Scan

\* A scan of several points lasts, and so does every later one.
LEMMA ScanEndsLast ==
  ASSUME NEW scan \in Scan, lidar_mean_scantime \in Nat, Plausible(lidar_mean_scantime),
         NEW e \in ScanEnds(scan)
  PROVE  /\ e.lasts \in Nat /\ e.mean \in Nat
         /\ Plausible(e.lasts) /\ Plausible(e.mean)
         /\ scan.size > 1 \/ lidar_mean_scantime > 0 => e.mean > 0
         /\ e.mean > 0 => e.lasts > 0
<1> USE ScanFields, ScanAssumption
<1>1. CASE scan.size <= 1 \/ 2 * scan.last < lidar_mean_scantime
  <2>1. e = [lasts |-> lidar_mean_scantime, mean |-> lidar_mean_scantime]
    BY <1>1 DEF ScanEnds
  <2> QED  BY <1>1, <2>1
<1>2. CASE ~(scan.size <= 1 \/ 2 * scan.last < lidar_mean_scantime)
  <2>1. scan.last \in Offsets /\ scan.last > 0
    BY <1>2
  <2>2. CASE lidar_mean_scantime = 0
    <3>1. e = [lasts |-> scan.last, mean |-> scan.last]
      BY <1>2, <2>2 DEF ScanEnds
    <3> QED  BY <2>1, <3>1 DEF Plausible
  <2>3. CASE lidar_mean_scantime # 0
    <3>1. e \in [lasts : {scan.last},
                 mean : (lidar_mean_scantime .. scan.last) \cup (scan.last .. lidar_mean_scantime)]
      BY <1>2, <2>3 DEF ScanEnds
    <3>2. /\ e.lasts = scan.last
          /\ \/ lidar_mean_scantime <= e.mean /\ e.mean <= scan.last
             \/ scan.last <= e.mean /\ e.mean <= lidar_mean_scantime
          /\ e.mean \in Int
      BY <3>1
    <3>3. PICK o \in Offsets : lidar_mean_scantime <= o
      BY <2>3 DEF Plausible
    <3>4. e.mean <= scan.last \/ e.mean <= o
      BY <3>2, <3>3
    <3>5. Plausible(e.lasts)
      BY <2>1, <3>2 DEF Plausible
    <3>6. e.mean > 0 /\ e.mean \in Nat
      BY <2>1, <2>3, <3>2
    <3>7. Plausible(e.mean)
      BY <2>1, <3>3, <3>4 DEF Plausible
    <3> QED  BY <2>1, <3>2, <3>5, <3>6, <3>7
  <2> QED  BY <2>2, <2>3
<1> QED  BY <1>1, <1>2

\* The queues as functions of positions.
LEMMA QueueElements ==
  ASSUME StampInv
  PROVE  /\ Len(lidar_buffer) \in Nat /\ Len(time_buffer) = Len(lidar_buffer)
         /\ DOMAIN lidar_buffer = 1 .. Len(lidar_buffer)
         /\ DOMAIN time_buffer = 1 .. Len(lidar_buffer)
         /\ \A i \in 1 .. Len(lidar_buffer) :
              /\ lidar_buffer[i] \in Scan
              /\ time_buffer[i] \in ScanTimes /\ time_buffer[i] \in Nat
              /\ time_buffer[i] = lidar_buffer[i].stamp
         /\ last_timestamp_lidar \in Int
<1>1. /\ Len(lidar_buffer) \in Nat /\ DOMAIN lidar_buffer = 1 .. Len(lidar_buffer)
      /\ \A i \in 1 .. Len(lidar_buffer) : lidar_buffer[i] \in Scan
  BY DEF StampInv, Types
<1>2. /\ DOMAIN time_buffer = 1 .. Len(time_buffer)
      /\ \A i \in 1 .. Len(time_buffer) : time_buffer[i] \in ScanTimes
  BY DEF StampInv, Types
<1>3. Len(time_buffer) = Len(lidar_buffer)
  BY DEF StampInv, QueuesAreParallel
<1>4. ScanTimes \subseteq Nat
  BY TimeAssumption
<1>5. last_timestamp_lidar \in Int
  BY <1>4 DEF StampInv, Types, None
<1>6. \A i \in 1 .. Len(lidar_buffer) : time_buffer[i] = lidar_buffer[i].stamp
  BY <1>1 DEF StampInv, QueuesAreParallel
<1> QED  BY <1>1, <1>2, <1>3, <1>4, <1>5, <1>6

\* The scan that is taken is the oldest, and it lasts once a mean is known.
LEMMA TakenLasts ==
  ASSUME StampInv, lidar_buffer # <<>>, NEW p \in Pushed
  PROVE  /\ DOMAIN p[1] = MeasFields
         /\ p[1].lidar = lidar_buffer[1] /\ p[1].lidar_beg_time = time_buffer[1]
         /\ p[1].lidar_end_time \in Nat
         /\ p[2] \in Nat /\ Plausible(p[2])
         /\ p[1].lidar.size > 1 \/ lidar_mean_scantime > 0 => p[2] > 0
         /\ p[2] > 0 => p[1].lidar_beg_time < p[1].lidar_end_time
         /\ Plausible(p[1].lidar_end_time - p[1].lidar_beg_time)
<1>1. /\ DOMAIN p[1] = MeasFields
      /\ \/ lidar_pushed /\ p = <<meas, lidar_mean_scantime>>
         \/ /\ ~lidar_pushed
            /\ \E e \in ScanEnds(Head(lidar_buffer)) :
                 /\ p[1].lidar = Head(lidar_buffer)
                 /\ p[1].lidar_beg_time = Head(time_buffer)
                 /\ p[1].lidar_end_time = Head(time_buffer) + e.lasts
                 /\ p[2] = e.mean
  BY PushedIsFront DEF StampInv, Types
<1>2. CASE lidar_pushed
  <2>1. p[1] = meas /\ p[2] = lidar_mean_scantime
    BY <1>1, <1>2
  <2>2. meas.lidar = lidar_buffer[1] /\ meas.lidar_beg_time = time_buffer[1]
    BY <1>2 DEF StampInv, TakenIsOldest
  <2>3. /\ meas.lidar_end_time \in Nat /\ lidar_mean_scantime \in Nat
        /\ meas.lidar.size > 1 \/ lidar_mean_scantime > 0 => lidar_mean_scantime > 0
    BY <1>2 DEF StampInv, Types, MeanIsKnown
  <2>4. /\ Plausible(lidar_mean_scantime)
        /\ lidar_mean_scantime > 0 => meas.lidar_beg_time < meas.lidar_end_time
        /\ Plausible(meas.lidar_end_time - meas.lidar_beg_time)
    BY <1>2 DEF StampInv, MeanIsKnown
  <2> QED  BY <1>1, <2>1, <2>2, <2>3, <2>4
<1>3. CASE ~lidar_pushed
  <2>1. /\ Len(lidar_buffer) > 0
        /\ Head(lidar_buffer) = lidar_buffer[1] /\ Head(time_buffer) = time_buffer[1]
    BY QueueElements DEF StampInv, Types
  <2>2. lidar_buffer[1] \in Scan /\ time_buffer[1] \in Nat
    BY <2>1, QueueElements
  <2>3. PICK e \in ScanEnds(lidar_buffer[1]) :
          /\ p[1].lidar = lidar_buffer[1] /\ p[1].lidar_beg_time = time_buffer[1]
          /\ p[1].lidar_end_time = time_buffer[1] + e.lasts /\ p[2] = e.mean
    BY <1>1, <1>3, <2>1
  <2>4. /\ e.lasts \in Nat /\ e.mean \in Nat
        /\ Plausible(e.lasts) /\ Plausible(e.mean)
        /\ lidar_buffer[1].size > 1 \/ lidar_mean_scantime > 0 => e.mean > 0
        /\ e.mean > 0 => e.lasts > 0
    BY <2>2, ScanEndsLast DEF StampInv, Types, MeanIsKnown
  <2>5. p[1].lidar_end_time - p[1].lidar_beg_time = e.lasts
    BY <2>2, <2>3, <2>4
  <2> QED  BY <1>1, <2>2, <2>3, <2>4, <2>5
<1> QED  BY <1>2, <1>3

\* What is left of the queues when the oldest scan leaves them.
LEMMA TailElements ==
  ASSUME StampInv, lidar_buffer # <<>>
  PROVE  /\ Tail(lidar_buffer) \in Seq(Scan) /\ Tail(time_buffer) \in Seq(ScanTimes)
         /\ Len(lidar_buffer) \in Nat \ {0}
         /\ Len(Tail(lidar_buffer)) = Len(lidar_buffer) - 1
         /\ Len(Tail(time_buffer)) = Len(lidar_buffer) - 1
         /\ \A i \in 1 .. Len(lidar_buffer) - 1 :
              /\ Tail(lidar_buffer)[i] = lidar_buffer[i + 1]
              /\ Tail(time_buffer)[i] = time_buffer[i + 1]
<1>1. lidar_buffer \in Seq(Scan) /\ time_buffer \in Seq(ScanTimes)
  BY DEF StampInv, Types
<1>2. Len(lidar_buffer) \in Nat /\ Len(time_buffer) = Len(lidar_buffer)
  BY QueueElements
<1>3. Len(lidar_buffer) # 0
  BY <1>1
<1>4. time_buffer # <<>>
  BY <1>1, <1>2, <1>3
<1> QED  BY <1>1, <1>2, <1>3, <1>4

\* The parallel queues stay so when the oldest scan leaves them.
LEMMA PopKeepsQueues ==
  ASSUME StampInv, lidar_buffer # <<>>, PopScan, UNCHANGED last_timestamp_lidar
  PROVE  QueuesAreParallel'
<1>1. lidar_buffer' = Tail(lidar_buffer) /\ time_buffer' = Tail(time_buffer)
  BY DEF PopScan
<1>2. /\ DOMAIN (lidar_buffer') = 1 .. Len(lidar_buffer) - 1
      /\ DOMAIN (time_buffer') = 1 .. Len(lidar_buffer) - 1
      /\ Len(lidar_buffer') = Len(time_buffer')
  BY <1>1, TailElements
<1>3. ASSUME NEW i \in 1 .. Len(lidar_buffer) - 1
      PROVE  time_buffer'[i] = lidar_buffer'[i].stamp /\ time_buffer'[i] <= last_timestamp_lidar'
  <2>1. i + 1 \in 1 .. Len(lidar_buffer)
    BY QueueElements
  <2>2. time_buffer'[i] = time_buffer[i + 1] /\ lidar_buffer'[i] = lidar_buffer[i + 1]
    BY <1>1, TailElements
  <2>3. time_buffer[i + 1] = lidar_buffer[i + 1].stamp /\ time_buffer[i + 1] <= last_timestamp_lidar
    BY <2>1, QueueElements DEF StampInv, QueuesAreParallel
  <2> QED  BY <2>2, <2>3
<1>4. ASSUME NEW i \in 1 .. Len(lidar_buffer) - 1, NEW j \in 1 .. Len(lidar_buffer) - 1, i < j
      PROVE  time_buffer'[i] < time_buffer'[j]
  <2>1. i + 1 \in DOMAIN time_buffer /\ j + 1 \in DOMAIN time_buffer /\ i + 1 < j + 1
    BY <1>4, QueueElements
  <2>2. time_buffer'[i] = time_buffer[i + 1] /\ time_buffer'[j] = time_buffer[j + 1]
    BY <1>1, TailElements
  <2> QED  BY <2>1, <2>2 DEF StampInv, QueuesAreParallel
<1> QED  BY <1>2, <1>3, <1>4 DEF QueuesAreParallel

\* What processing a group may change.
LEMMA SyncedEffects ==
  ASSUME NEW m, DOMAIN m = MeasFields, Synced(m)
  PROVE  /\ PopScan /\ lidar_pushed' = FALSE
         /\ feats_undistort' = feats_undistort \/ feats_undistort' = m.lidar
         /\ \/ odom' = odom
            \/ odom' = <<odom[2], m.lidar_end_time>> /\ ~(feats_undistort'.size < 5)
<1> DEFINE group == [m EXCEPT !.imu = SubSeq(imu_buffer, 1, ImuUpTo(m.lidar_end_time))]
<1>1. group.lidar = m.lidar
  BY DEF MeasFields
<1>2. IF flg_first_scan
      THEN flg_first_scan' = FALSE /\ UNCHANGED <<procVars, ikdtree, odom>>
      ELSE Process(group) /\ Register(m.lidar_end_time)
  BY DEF Synced
<1> HIDE DEF group
<1>3. PopScan /\ lidar_pushed' = FALSE
  BY DEF Synced
<1>4. feats_undistort' = feats_undistort \/ feats_undistort' = m.lidar
  BY <1>1, <1>2 DEF procVars, Process, IMU_init, UndistortPcl
<1>5. \/ odom' = odom
      \/ odom' = <<odom[2], m.lidar_end_time>> /\ ~(feats_undistort'.size < 5)
  BY <1>2 DEF Register
<1> QED  BY <1>3, <1>4, <1>5

\* What a jump back leaves in the queue of scans.
LEMMA ScanArrivesAppends ==
  ASSUME JumpsCounted, NEW scan \in Scan, ScanArrives(scan), lidar_buffer \in Seq(Scan)
  PROVE  /\ JumpsCounted' /\ (dropped' = 0 => dropped = 0)
         /\ dropped' = 0 => lidar_buffer' = Append(lidar_buffer, scan)
         /\ dropped' = 0 /\ lidar_buffer # <<>> => ~(scan.stamp < last_timestamp_lidar)
         /\ lidar_jumps' = 0 => lidar_jumps = 0 /\ ~(scan.stamp < last_timestamp_lidar)
<1>1. Len(lidar_buffer) \in Nat /\ (Len(lidar_buffer) = 0 => lidar_buffer = <<>>)
  OBVIOUS
<1>2. CASE scan.stamp < last_timestamp_lidar
  <2>1. /\ lidar_jumps' = lidar_jumps + 1 /\ dropped' = dropped + Len(lidar_buffer)
        /\ lidar_buffer' = <<scan>>
    BY <1>2 DEF ScanArrives
  <2>2. dropped' = 0 => dropped = 0 /\ lidar_buffer = <<>>
    BY <1>1, <2>1 DEF JumpsCounted
  <2>3. JumpsCounted' /\ lidar_jumps' # 0
    BY <1>1, <2>1 DEF JumpsCounted
  <2> QED  BY <2>1, <2>2, <2>3
<1>3. CASE ~(scan.stamp < last_timestamp_lidar)
  <2>1. UNCHANGED <<lidar_jumps, dropped>> /\ lidar_buffer' = Append(lidar_buffer, scan)
    BY <1>3 DEF ScanArrives
  <2> QED  BY <1>3, <2>1 DEF JumpsCounted
<1> QED  BY <1>2, <1>3

LEMMA ScanArrivesKeepsStamps ==
  ASSUME StampInv, JumpsCounted, NEW scan \in Scan, ScanArrives(scan), dropped' = 0
  PROVE  /\ StampInv'
         /\ time_buffer' = Append(time_buffer, scan.stamp)
         /\ last_timestamp_lidar' = scan.stamp
<1>1. /\ scan.stamp \in ScanTimes /\ scan.stamp \in Nat
      /\ last_timestamp_lidar \in Int
  BY ScanFields, QueueElements
<1>2. /\ lidar_buffer' = Append(lidar_buffer, scan) /\ dropped = 0
      /\ time_buffer' = Append(time_buffer, scan.stamp) /\ last_timestamp_lidar' = scan.stamp
      /\ lidar_buffer = <<>> \/ last_timestamp_lidar < scan.stamp
  <2>1. /\ lidar_buffer' = Append(lidar_buffer, scan) /\ dropped = 0
        /\ lidar_buffer = <<>> \/ ~(scan.stamp < last_timestamp_lidar)
    BY ScanArrivesAppends DEF StampInv, Types
  <2>2. /\ time_buffer' = Append(time_buffer, scan.stamp) /\ last_timestamp_lidar' = scan.stamp
        /\ scan.stamp # last_timestamp_lidar
    BY DEF ScanArrives
  <2> QED  BY <1>1, <2>1, <2>2
<1>3. UNCHANGED <<lidar_mean_scantime, lidar_pushed, meas, feats_undistort, odom>>
  BY DEF ScanArrives, syncVars, procVars, mapVars
<1> DEFINE n == Len(lidar_buffer)
<1>4. /\ n \in Nat /\ Len(lidar_buffer') = n + 1 /\ Len(time_buffer') = n + 1
      /\ DOMAIN (lidar_buffer') = 1 .. n + 1 /\ DOMAIN (time_buffer') = 1 .. n + 1
      /\ lidar_buffer' \in Seq(Scan) /\ time_buffer' \in Seq(ScanTimes)
      /\ lidar_buffer'[n + 1] = scan /\ time_buffer'[n + 1] = scan.stamp
      /\ \A i \in 1 .. n : lidar_buffer'[i] = lidar_buffer[i] /\ time_buffer'[i] = time_buffer[i]
  BY <1>1, <1>2, QueueElements DEF StampInv, Types
<1>5. Types'
  BY <1>1, <1>2, <1>3, <1>4 DEF StampInv, Types
<1>6. QueuesAreParallel'
  <2>1. \A i \in 1 .. n : /\ time_buffer[i] = lidar_buffer[i].stamp /\ time_buffer[i] \in Nat
                          /\ time_buffer[i] <= last_timestamp_lidar
    BY QueueElements DEF StampInv, QueuesAreParallel
  <2>2. \A i \in 1 .. n : time_buffer[i] < scan.stamp
    <3>1. CASE lidar_buffer = <<>>
      BY <3>1
    <3>2. CASE last_timestamp_lidar < scan.stamp
      BY <1>1, <2>1, <3>2
    <3> QED  BY <1>2, <3>1, <3>2
  <2>3. \A i, j \in 1 .. n : i < j => time_buffer[i] < time_buffer[j]
    BY QueueElements DEF StampInv, QueuesAreParallel
  <2>4. ASSUME NEW i \in 1 .. n + 1
        PROVE  time_buffer'[i] = lidar_buffer'[i].stamp /\ time_buffer'[i] <= last_timestamp_lidar'
    <3>1. CASE i = n + 1
      BY <1>1, <1>2, <1>4, <3>1
    <3>2. CASE i \in 1 .. n
      <4>1. time_buffer'[i] = time_buffer[i] /\ lidar_buffer'[i] = lidar_buffer[i]
        BY <1>4, <3>2
      <4>2. time_buffer[i] = lidar_buffer[i].stamp
        BY <2>1, <3>2
      <4>3. time_buffer[i] <= scan.stamp
        BY <1>1, <2>1, <2>2, <3>2
      <4> QED  BY <1>2, <4>1, <4>2, <4>3
    <3> QED  BY <1>4, <3>1, <3>2
  <2>5. ASSUME NEW i \in 1 .. n + 1, NEW j \in 1 .. n + 1, i < j
        PROVE  time_buffer'[i] < time_buffer'[j]
    <3>1. i \in 1 .. n /\ (j = n + 1 \/ j \in 1 .. n)
      BY <1>4, <2>5
    <3> QED  BY <1>4, <2>2, <2>3, <2>5, <3>1
  <2> QED  BY <1>4, <2>4, <2>5 DEF QueuesAreParallel
<1>7. TakenIsOldest'
  <2>1. lidar_buffer # <<>> => 1 \in 1 .. n
    BY <1>4 DEF StampInv, Types
  <2>2. lidar_buffer' # <<>>
    BY <1>4
  <2> QED  BY <1>3, <1>4, <2>1, <2>2 DEF StampInv, TakenIsOldest
<1>8. ScanKeepsItsStamp' /\ MeanIsKnown'
  BY <1>2, <1>3 DEF StampInv, ScanKeepsItsStamp, MeanIsKnown, Plausible
<1> QED  BY <1>1, <1>2, <1>5, <1>6, <1>7, <1>8 DEF StampInv

LEMMA ImuArrivesKeepsStamps ==
  ASSUME StampInv, NEW time \in ImuTimes, ImuArrives(time)
  PROVE  StampInv'
  BY DEF ImuArrives, lidarVars, syncVars, procVars, mapVars, StampInv, Types, QueuesAreParallel,
         TakenIsOldest, ScanKeepsItsStamp, MeanIsKnown, Plausible

\* A timer that finds the samples of the whole scan processes the scan, else it
\* remembers what it took.
LEMMA TimerCases ==
  ASSUME TimerCallback
  PROVE  /\ lidar_buffer # <<>> /\ UNCHANGED last_timestamp_lidar
         /\ \E p \in Pushed :
              /\ lidar_mean_scantime' = p[2]
              /\ \/ Synced(p[1])
                 \/ /\ lidar_pushed' = TRUE /\ meas' = p[1]
                    /\ UNCHANGED <<lidar_buffer, time_buffer, feats_undistort, odom>>
  BY DEF TimerCallback, procVars, mapVars

LEMMA TimerKeepsStamps ==
  ASSUME StampInv, TimerCallback
  PROVE  StampInv'
<1>1. /\ lidar_buffer # <<>> /\ UNCHANGED last_timestamp_lidar
      /\ \E p \in Pushed :
           /\ lidar_mean_scantime' = p[2]
           /\ \/ Synced(p[1])
              \/ /\ lidar_pushed' = TRUE /\ meas' = p[1]
                 /\ UNCHANGED <<lidar_buffer, time_buffer, feats_undistort, odom>>
  BY TimerCases
<1>2. PICK p \in Pushed :
           /\ lidar_mean_scantime' = p[2]
           /\ \/ Synced(p[1])
              \/ /\ lidar_pushed' = TRUE /\ meas' = p[1]
                 /\ UNCHANGED <<lidar_buffer, time_buffer, feats_undistort, odom>>
  BY <1>1
<1> DEFINE m == p[1]
<1>3. /\ DOMAIN m = MeasFields
      /\ m.lidar = lidar_buffer[1] /\ m.lidar_beg_time = time_buffer[1]
      /\ m.lidar_end_time \in Nat
      /\ lidar_mean_scantime' \in Nat /\ Plausible(lidar_mean_scantime')
      /\ m.lidar.size > 1 \/ lidar_mean_scantime > 0 => lidar_mean_scantime' > 0
      /\ lidar_mean_scantime' > 0 => m.lidar_beg_time < m.lidar_end_time
      /\ Plausible(m.lidar_end_time - m.lidar_beg_time)
  BY <1>1, <1>2, TakenLasts
<1> HIDE DEF m
<1>4. 1 \in 1 .. Len(lidar_buffer)
  BY <1>1, TailElements
<1>5. m.lidar \in Scan /\ m.lidar_beg_time \in Nat /\ m.lidar_beg_time = m.lidar.stamp
  BY <1>3, <1>4, QueueElements
<1>6. /\ meas'.lidar = m.lidar /\ meas'.lidar_beg_time = m.lidar_beg_time
      /\ meas'.lidar_end_time = m.lidar_end_time /\ DOMAIN meas' = MeasFields
  BY <1>2, <1>3, GroupIsScan DEF m
<1>7. CASE Synced(m)
  <2>1. /\ PopScan /\ lidar_pushed' = FALSE
        /\ feats_undistort' = feats_undistort \/ feats_undistort' = m.lidar
        /\ \/ odom' = odom
           \/ odom' = <<odom[2], m.lidar_end_time>> /\ ~(feats_undistort'.size < 5)
    BY <1>3, <1>7, SyncedEffects
  <2>2. lidar_buffer' \in Seq(Scan) /\ time_buffer' \in Seq(ScanTimes)
    BY <1>1, <2>1, TailElements DEF PopScan
  <2>3. odom' \in Int \X Int
    <3>1. odom \in Int \X Int
      BY DEF StampInv, Types
    <3> QED  BY <1>3, <2>1, <3>1
  <2>4. feats_undistort' \in Scan \cup {NoScan}
    BY <1>5, <2>1 DEF StampInv, Types
  <2>5. last_timestamp_lidar' \in ScanTimes \cup {None}
    BY <1>1 DEF StampInv, Types
  <2>6. Types'
    BY <1>3, <1>5, <1>6, <2>2, <2>3, <2>4, <2>5 DEF Types
  <2>7. QueuesAreParallel'
    BY <1>1, <2>1, PopKeepsQueues
  <2>8. feats_undistort'.size > 1 => lidar_mean_scantime' > 0
    BY <1>3, <2>1 DEF StampInv, MeanIsKnown
  <2> QED  BY <1>3, <1>5, <1>6, <2>1, <2>6, <2>7, <2>8
           DEF StampInv, TakenIsOldest, ScanKeepsItsStamp, MeanIsKnown, Plausible
<1>8. CASE ~Synced(m)
  <2>1. /\ lidar_pushed' = TRUE
        /\ UNCHANGED <<lidar_buffer, time_buffer, feats_undistort, odom>>
    BY <1>2, <1>8 DEF m
  <2>2. Types'
    BY <1>1, <1>3, <1>5, <1>6, <2>1 DEF StampInv, Types
  <2>3. QueuesAreParallel'
    BY <1>1, <2>1 DEF StampInv, QueuesAreParallel
  <2>4. TakenIsOldest'
    BY <1>1, <1>3, <1>6, <2>1 DEF TakenIsOldest
  <2>5. feats_undistort'.size > 1 => lidar_mean_scantime' > 0
    BY <1>3, <2>1 DEF StampInv, MeanIsKnown
  <2>6. MeanIsKnown'
    BY <1>3, <1>6, <2>5 DEF MeanIsKnown, Plausible
  <2>7. ScanKeepsItsStamp'
    BY <1>5, <1>6 DEF ScanKeepsItsStamp
  <2> QED  BY <2>2, <2>3, <2>4, <2>6, <2>7 DEF StampInv
<1> QED  BY <1>7, <1>8

LEMMA StampInit ==
  ASSUME Init
  PROVE  StampInv
<1>1. Types
  BY DEF Init, Types, MeasFields, None
<1>2. QueuesAreParallel
  BY DEF Init, QueuesAreParallel
<1> QED  BY <1>1, <1>2 DEF Init, StampInv, TakenIsOldest, ScanKeepsItsStamp, MeanIsKnown,
                           Plausible, NoScan

\* Only scans that arrive count as jumps.
LEMMA OthersCountNothing ==
  ASSUME [Next]_vars, ~(\E scan \in Scan : ScanArrives(scan))
  PROVE  UNCHANGED <<lidar_jumps, dropped>>
  BY DEF Next, ImuArrives, TimerCallback, vars, lidarVars

\* The stamps are right as long as nothing was dropped.
StampsInv == JumpsCounted /\ (dropped = 0 => StampInv) /\ lidar_buffer \in Seq(Scan)

LEMMA StampStep ==
  ASSUME StampsInv, [Next]_vars
  PROVE  StampsInv'
<1>1. lidar_buffer' \in Seq(Scan)
  <2>1. \/ \E scan \in Scan : lidar_buffer' = <<scan>> \/ lidar_buffer' = Append(lidar_buffer, scan)
        \/ lidar_buffer' = lidar_buffer
        \/ lidar_buffer # <<>> /\ lidar_buffer' = Tail(lidar_buffer)
    BY DEF Next, ScanArrives, ImuArrives, TimerCallback, Synced, PopScan, vars, lidarVars
  <2>2. lidar_buffer \in Seq(Scan)
    BY DEF StampsInv
  <2>3. \A scan \in Scan : <<scan>> \in Seq(Scan) /\ Append(lidar_buffer, scan) \in Seq(Scan)
    BY <2>2
  <2>4. lidar_buffer # <<>> => Tail(lidar_buffer) \in Seq(Scan)
    BY <2>2
  <2> QED  BY <2>1, <2>2, <2>3, <2>4
<1>2. ASSUME NEW scan \in Scan, ScanArrives(scan)
      PROVE  JumpsCounted' /\ (dropped' = 0 => StampInv')
  <2>1. JumpsCounted' /\ (dropped' = 0 => dropped = 0)
    BY <1>2, ScanArrivesAppends DEF StampsInv
  <2> QED  BY <1>2, <2>1, ScanArrivesKeepsStamps DEF StampsInv
<1>3. CASE ~(\E scan \in Scan : ScanArrives(scan))
  <2>1. UNCHANGED <<lidar_jumps, dropped>>
    BY <1>3, OthersCountNothing
  <2>2. ASSUME StampInv, NEW time \in ImuTimes, ImuArrives(time)
        PROVE  StampInv'
    BY <2>2, ImuArrivesKeepsStamps
  <2>3. ASSUME StampInv, TimerCallback
        PROVE  StampInv'
    BY <2>3, TimerKeepsStamps
  <2>4. ASSUME StampInv, UNCHANGED vars
        PROVE  StampInv'
    BY <2>4 DEF vars, lidarVars, syncVars, procVars, mapVars, StampInv, Types,
                QueuesAreParallel, TakenIsOldest, ScanKeepsItsStamp, MeanIsKnown, Plausible
  <2>5. StampInv => StampInv'
    BY <1>3, <2>2, <2>3, <2>4 DEF Next
  <2>6. JumpsCounted' /\ dropped' = dropped
    BY <2>1 DEF StampsInv, JumpsCounted
  <2> QED  BY <1>1, <2>5, <2>6 DEF StampsInv
<1> QED  BY <1>1, <1>2, <1>3 DEF StampsInv

LEMMA StampsInit ==
  ASSUME Init
  PROVE  StampsInv
<1>1. JumpsCounted
  BY DEF Init, JumpsCounted
<1>2. lidar_buffer \in Seq(Scan)
  BY DEF Init
<1> QED  BY <1>1, <1>2, StampInit DEF StampsInv

\* laserMapping.cpp:297-310, 400-401: a scan is processed with the time it began, also
\* after the time of the scans jumped back, until a jump drops scans that wait and
\* leaves their times.
THEOREM KeepsStamps == Spec => []ScanKeepsItsStamp
<1>1. Init => StampsInv
  BY StampsInit
<1>2. StampsInv /\ [Next]_vars => StampsInv'
  BY StampStep
<1>3. StampsInv => ScanKeepsItsStamp
  BY DEF StampsInv, StampInv, ScanKeepsItsStamp
<1> QED  BY <1>1, <1>2, <1>3, PTL DEF Spec

-----------------------------------------------------------------------------
(* The odometry's stamp moves on.                                          *)

LEMMA ScanArrivesMovesOn ==
  ASSUME OdometryInv, JumpsCounted, NEW scan \in Scan, ScanArrives(scan), lidar_jumps' = 0
  PROVE  OdometryIsPast' /\ OdometryMovesOn'
<1>1. StampInv
  BY DEF OdometryInv
<1>2. /\ time_buffer' = Append(time_buffer, scan.stamp) /\ scan.stamp \in Nat
      /\ last_timestamp_lidar < scan.stamp /\ last_timestamp_lidar' = scan.stamp
      /\ UNCHANGED odom
  <2>1. ~(scan.stamp < last_timestamp_lidar)
    BY <1>1, ScanArrivesAppends DEF StampInv, Types
  <2>2. scan.stamp \in Nat /\ last_timestamp_lidar \in Int
    BY <1>1, ScanFields, QueueElements
  <2> QED  BY <2>1, <2>2 DEF ScanArrives, mapVars
<1>3. OdometryMovesOn'
  BY <1>2 DEF OdometryInv, OdometryMovesOn
<1>4. ASSUME odom'[2] # None
      PROVE  OdometryIsPast'
  <2>1. PICK s \in ScanTimes, o \in Offsets :
          /\ odom[2] <= s + o /\ s <= last_timestamp_lidar
          /\ \A i \in DOMAIN time_buffer : s < time_buffer[i]
    BY <1>2, <1>4 DEF OdometryInv, OdometryIsPast
  <2>2. s \in Nat /\ last_timestamp_lidar \in Int
    BY <1>1, QueueElements, TimeAssumption
  <2>3. s < scan.stamp /\ s <= last_timestamp_lidar'
    BY <1>2, <2>1, <2>2
  <2>4. ASSUME NEW i \in DOMAIN (time_buffer')
        PROVE  s < time_buffer'[i]
    <3>1. time_buffer \in Seq(ScanTimes) /\ Len(time_buffer) \in Nat
      BY <1>1 DEF StampInv, Types
    <3>2. /\ DOMAIN (time_buffer') = 1 .. Len(time_buffer) + 1
          /\ time_buffer'[Len(time_buffer) + 1] = scan.stamp
          /\ \A k \in 1 .. Len(time_buffer) : time_buffer'[k] = time_buffer[k]
      BY <1>2, <3>1, AppendProperties, ScanFields
    <3>3. DOMAIN time_buffer = 1 .. Len(time_buffer)
      BY <3>1
    <3>4. i = Len(time_buffer) + 1 \/ i \in 1 .. Len(time_buffer)
      BY <3>1, <3>2
    <3> QED  BY <2>1, <2>3, <3>2, <3>3, <3>4
  <2> QED  BY <1>2, <2>1, <2>3, <2>4 DEF OdometryIsPast
<1> QED  BY <1>3, <1>4 DEF OdometryIsPast

\* The odometry of the oldest scan is later than the last one and before the next scan.
LEMMA TimerMovesOn ==
  ASSUME OdometryInv, ScansFollow, TimerCallback
  PROVE  OdometryIsPast' /\ OdometryMovesOn'
<1>1. StampInv
  BY DEF OdometryInv
<1>2. lidar_buffer # <<>> /\ UNCHANGED last_timestamp_lidar
  BY TimerCases
<1>3. PICK p \in Pushed :
        /\ lidar_mean_scantime' = p[2]
        /\ \/ Synced(p[1])
           \/ UNCHANGED <<time_buffer, odom>>
  BY TimerCases
<1>4. /\ DOMAIN p[1] = MeasFields
      /\ p[1].lidar_beg_time = time_buffer[1] /\ p[1].lidar_end_time \in Nat
      /\ p[2] > 0 => p[1].lidar_beg_time < p[1].lidar_end_time
      /\ Plausible(p[1].lidar_end_time - p[1].lidar_beg_time)
  BY <1>1, <1>2, TakenLasts
<1> DEFINE beg == p[1].lidar_beg_time
           end == p[1].lidar_end_time
<1>5. CASE UNCHANGED <<time_buffer, odom>>
  BY <1>2, <1>5 DEF OdometryInv, OdometryIsPast, OdometryMovesOn
<1>6. CASE Synced(p[1])
  <2>1. /\ PopScan
        /\ odom' = odom \/ (odom' = <<odom[2], end>> /\ ~(feats_undistort'.size < 5))
    BY <1>4, <1>6, SyncedEffects
  <2>2. /\ Len(lidar_buffer) \in Nat /\ 1 \in 1 .. Len(lidar_buffer)
        /\ DOMAIN time_buffer = 1 .. Len(lidar_buffer)
        /\ \A i \in 1 .. Len(lidar_buffer) : time_buffer[i] \in ScanTimes /\ time_buffer[i] \in Nat
        /\ last_timestamp_lidar \in Int
    BY <1>1, <1>2, QueueElements, TailElements
  <2>3. /\ DOMAIN (time_buffer') = 1 .. Len(lidar_buffer) - 1
        /\ \A i \in 1 .. Len(lidar_buffer) - 1 :
             time_buffer'[i] = time_buffer[i + 1] /\ i + 1 \in 1 .. Len(lidar_buffer)
    BY <1>1, <1>2, <2>1, <2>2, TailElements DEF PopScan, StampInv, Types
  <2>4. beg \in ScanTimes /\ beg \in Nat /\ beg <= last_timestamp_lidar /\ end \in Nat
    <3>1. time_buffer[1] <= last_timestamp_lidar
      BY <1>1, <2>2, QueueElements DEF StampInv, QueuesAreParallel
    <3> QED  BY <1>4, <2>2, <3>1
  <2>5. CASE odom' = odom
    <3>1. OdometryMovesOn'
      BY <2>5 DEF OdometryInv, OdometryMovesOn
    <3>2. ASSUME odom'[2] # None
          PROVE  OdometryIsPast'
      <4>1. PICK s \in ScanTimes, o \in Offsets :
              /\ odom[2] <= s + o /\ s <= last_timestamp_lidar
              /\ \A i \in DOMAIN time_buffer : s < time_buffer[i]
        BY <2>5, <3>2 DEF OdometryInv, OdometryIsPast
      <4>2. \A i \in DOMAIN (time_buffer') : s < time_buffer'[i]
        BY <2>2, <2>3, <4>1
      <4> QED  BY <1>2, <2>5, <4>1, <4>2 DEF OdometryIsPast
    <3> QED  BY <3>1, <3>2 DEF OdometryIsPast
  <2>6. CASE odom' = <<odom[2], end>> /\ ~(feats_undistort'.size < 5)
    <3>1. odom'[1] = odom[2] /\ odom'[2] = end /\ odom[2] \in Int
      BY <1>1, <2>6 DEF StampInv, Types
    <3>2. beg < end
      <4>1. StampInv'
        BY <1>1, TimerKeepsStamps
      <4>2. feats_undistort' \in Scan \cup {NoScan}
        BY <4>1 DEF StampInv, Types
      <4>3. feats_undistort'.size \in Nat
        BY <4>2, ScanFields DEF NoScan
      <4>4. feats_undistort'.size > 1
        BY <2>6, <4>3
      <4>5. p[2] > 0
        BY <1>3, <4>1, <4>4 DEF StampInv, MeanIsKnown
      <4> QED  BY <1>4, <4>5
    <3>3. PICK l \in Offsets : end - beg <= l
      BY <1>4, <2>4, <3>2 DEF Plausible
    <3>4. l \in Nat
      BY ScanAssumption
    <3>5. end <= beg + l
      BY <2>4, <3>3, <3>4
    <3>6. \A i \in DOMAIN (time_buffer') : beg < time_buffer'[i]
      <4>1. ASSUME NEW i \in 1 .. Len(lidar_buffer) - 1
            PROVE  time_buffer[1] < time_buffer[i + 1]
        <5>1. 1 \in DOMAIN time_buffer /\ i + 1 \in DOMAIN time_buffer /\ 1 < i + 1
          BY <2>2
        <5> QED  BY <1>1, <5>1 DEF StampInv, QueuesAreParallel
      <4> QED  BY <1>4, <2>3, <4>1
    <3>7. OdometryIsPast'
      BY <1>2, <2>4, <3>1, <3>5, <3>6 DEF OdometryIsPast
    <3>8. odom[2] < end
      <4>1. CASE odom[2] = None
        BY <2>4, <4>1 DEF None
      <4>2. CASE odom[2] # None
        <5>1. PICK s \in ScanTimes, o \in Offsets :
                odom[2] <= s + o /\ s < beg
          BY <1>4, <2>2, <4>2 DEF OdometryInv, OdometryIsPast
        <5>2. s + o <= beg
          BY <2>4, <5>1 DEF ScansFollow
        <5>3. s \in Nat /\ o \in Nat
          BY TimeAssumption, ScanAssumption
        <5> QED  BY <2>4, <3>1, <3>2, <5>1, <5>2, <5>3
      <4> QED  BY <4>1, <4>2
    <3> QED  BY <3>1, <3>7, <3>8 DEF OdometryMovesOn
  <2> QED  BY <2>1, <2>5, <2>6
<1> QED  BY <1>3, <1>5, <1>6

LEMMA OdometryStep ==
  ASSUME StampsInv, OdometryInv, ScansFollow, [Next]_vars, lidar_jumps' = 0
  PROVE  OdometryInv'
<1>1. StampInv'
  <2>1. StampsInv'
    BY StampStep
  <2> QED  BY <2>1 DEF StampsInv, JumpsCounted
<1>2. ASSUME NEW scan \in Scan, ScanArrives(scan)
      PROVE  OdometryIsPast' /\ OdometryMovesOn'
  BY <1>2, ScanArrivesMovesOn DEF StampsInv
<1>3. ASSUME TimerCallback
      PROVE  OdometryIsPast' /\ OdometryMovesOn'
  BY <1>3, TimerMovesOn
<1>4. ASSUME UNCHANGED <<time_buffer, last_timestamp_lidar, odom>>
      PROVE  OdometryIsPast' /\ OdometryMovesOn'
  BY <1>4 DEF OdometryInv, OdometryIsPast, OdometryMovesOn
<1>5. ASSUME (\E time \in ImuTimes : ImuArrives(time)) \/ UNCHANGED vars
      PROVE  UNCHANGED <<time_buffer, last_timestamp_lidar, odom>>
  BY <1>5 DEF ImuArrives, vars, lidarVars, mapVars
<1> QED  BY <1>1, <1>2, <1>3, <1>4, <1>5 DEF Next, OdometryInv

\* laserMapping.cpp:402-416, 636: the odometry's stamp always moves on, also after
\* scans that are too short to tell their end and however long the first samples take,
\* as long as scans do not overlap and until their time jumps back.
THEOREM OdometryIsOrdered == ScansFollow => (Spec => []OdometryMovesOn)
<1> SUFFICES ASSUME ScansFollow PROVE Spec => []OdometryMovesOn
  OBVIOUS
<1> DEFINE OInv == StampsInv /\ (lidar_jumps = 0 => OdometryInv)
<1>1. Init => OInv
  <2>1. Init => odom[2] = None /\ lidar_jumps = 0
    BY DEF Init
  <2> QED  BY <2>1, StampInit, StampsInit DEF OdometryInv, OdometryIsPast, OdometryMovesOn
<1>2. OInv /\ [Next]_vars => OInv'
  <2> SUFFICES ASSUME OInv, [Next]_vars PROVE OInv'
    OBVIOUS
  <2>1. lidar_jumps' = 0 => lidar_jumps = 0
    <3>1. ASSUME NEW scan \in Scan, ScanArrives(scan)
          PROVE  lidar_jumps' = 0 => lidar_jumps = 0
      BY <3>1, ScanArrivesAppends DEF StampsInv
    <3> QED  BY <3>1, OthersCountNothing
  <2> QED  BY <2>1, StampStep, OdometryStep
<1>3. OInv => OdometryMovesOn
  BY DEF OdometryInv, OdometryMovesOn
<1> HIDE DEF OInv
<1> QED  BY <1>1, <1>2, <1>3, PTL DEF Spec

-----------------------------------------------------------------------------
(* The prediction covers the time between the ends of two scans.           *)

ClockTypes ==
  /\ lidar_buffer \in Seq(Scan) /\ time_buffer \in Seq(ScanTimes)
  /\ Len(lidar_buffer) <= Len(time_buffer)
  /\ lidar_mean_scantime \in Nat /\ Plausible(lidar_mean_scantime)
  /\ DOMAIN meas = MeasFields /\ meas.lidar_end_time \in Nat
  /\ imu_buffer \in Seq(ImuTimes) /\ last_timestamp_imu \in ImuTimes \cup {None}
  /\ last_imu_ \in Nat /\ last_lidar_end_time_ \in Nat /\ imu_jumps \in Nat

\* Once a scan was undistorted, the end of the last one lies between the sample that
\* was used last and those that wait, until their time jumps back.
EndBetweenSamples ==
  imu_jumps = 0 /\ predicted # None =>
    /\ ~imu_need_init_
    /\ last_imu_ <= last_lidar_end_time_ /\ last_lidar_end_time_ <= last_timestamp_imu
    /\ \A i \in DOMAIN imu_buffer : last_lidar_end_time_ < imu_buffer[i]

PredictionInv == ClockTypes /\ EndBetweenSamples

\* Of the numbers up to n some are least, because 1 .. k grows with k.
LEMMA LeastNumber ==
  ASSUME NEW n \in Nat, NEW S \in SUBSET (1 .. n), S # {}
  PROVE  \E k \in S : \A i \in S : k <= i
<1> DEFINE U == 1 .. n
           T == {1 .. k : k \in S}
<1>1. IsFiniteSet(U)
  BY FS_Interval
<1>2. \A k \in S : 1 .. k \in SUBSET U
  OBVIOUS
<1>3. T \subseteq FiniteSubsetsOf(U) /\ T # {}
  <2>1. FiniteSubsetsOf(U) = SUBSET U
    BY <1>1, FS_FiniteSubsetsOfFinite
  <2>2. T \subseteq SUBSET U /\ T # {}
    BY <1>2
  <2> HIDE DEF T, U
  <2> QED  BY <2>1, <2>2
<1>4. IsWellFoundedOn(StrictSubsetOrdering(U), FiniteSubsetsOf(U))
  BY FS_StrictSubsetOrderingWellFounded
<1>5. PICK x \in T : \A y \in T : ~(<<y, x>> \in StrictSubsetOrdering(U))
  BY <1>3, <1>4, WFMin
<1>6. PICK k \in S : x = 1 .. k
  BY <1>5
<1>7. ASSUME NEW i \in S
      PROVE  k <= i
  <2>1. i \in Nat /\ k \in Nat /\ k >= 1
    OBVIOUS
  <2>2. CASE i < k
    <3>1. 1 .. i \subseteq 1 .. k /\ k \in 1 .. k /\ k \notin 1 .. i
      BY <2>1, <2>2
    <3>2. 1 .. i \in SUBSET U /\ 1 .. k \in SUBSET U /\ 1 .. i # 1 .. k
      BY <1>2, <3>1
    <3>3. <<1 .. i, 1 .. k>> \in StrictSubsetOrdering(U)
      BY <3>1, <3>2 DEF StrictSubsetOrdering
    <3> QED  BY <1>5, <1>6, <3>3
  <2> QED  BY <2>1, <2>2
<1> QED  BY <1>7

\* So some are greatest.
LEMMA MaxIsGreatest ==
  ASSUME NEW n \in Nat, NEW S \in SUBSET (1 .. n), S # {}
  PROVE  Max(S) \in S /\ \A i \in S : i <= Max(S)
<1> DEFINE gaps == {n + 1 - i : i \in S}
<1>1. gaps \in SUBSET (1 .. n) /\ gaps # {}
  OBVIOUS
<1>2. PICK g \in gaps : \A h \in gaps : g <= h
  BY <1>1, LeastNumber
<1>3. PICK k \in S : g = n + 1 - k
  BY <1>2
<1>4. ASSUME NEW i \in S
      PROVE  i <= k
  <2>1. n + 1 - i \in gaps /\ i \in Nat /\ k \in Nat
    OBVIOUS
  <2> QED  BY <1>2, <1>3, <2>1
<1>5. \E x \in S : \A y \in S : x >= y
  BY <1>4
<1> QED  BY <1>5 DEF Max

\* The later of two times.
LEMMA MaxOfTwo ==
  ASSUME NEW a \in Int, NEW b \in Int
  PROVE  Max({a, b}) = IF a >= b THEN a ELSE b
  BY DEF Max

\* From the second sample on, all that are used come after the end of the last scan.
Starts(times) ==
  /\ times \in Seq(Nat) /\ times # <<>>
  /\ times[1] <= last_lidar_end_time_
  /\ \A i \in 2 .. Len(times) : last_lidar_end_time_ < times[i]

\* Every step but the first goes from sample to sample.
LEMMA StepTimes ==
  ASSUME NEW times, Starts(times), last_lidar_end_time_ \in Nat, NEW i \in 2 .. Len(times)
  PROVE  /\ times[i] \in Nat /\ times[i - 1] \in Nat
         /\ StepTime(times[i - 1], times[i]) =
              IF i = 2 THEN times[i] - last_lidar_end_time_ ELSE times[i] - times[i - 1]
<1>1. times[i] \in Nat /\ times[i - 1] \in Nat /\ last_lidar_end_time_ < times[i]
  BY DEF Starts
<1>2. Max({times[i - 1], last_lidar_end_time_}) =
        IF times[i - 1] >= last_lidar_end_time_ THEN times[i - 1] ELSE last_lidar_end_time_
  BY <1>1, MaxOfTwo
<1>3. StepTime(times[i - 1], times[i]) = times[i] - Max({times[i - 1], last_lidar_end_time_})
  BY <1>1 DEF StepTime
<1>4. CASE i = 2
  <2>1. times[i - 1] <= last_lidar_end_time_
    BY <1>4 DEF Starts
  <2> QED  BY <1>1, <1>2, <1>3, <1>4, <2>1
<1>5. CASE i # 2
  <2>1. i - 1 \in 2 .. Len(times)
    BY <1>5 DEF Starts
  <2>2. last_lidar_end_time_ < times[i - 1]
    BY <2>1 DEF Starts
  <2> QED  BY <1>1, <1>2, <1>3, <1>5, <2>2
<1> QED  BY <1>4, <1>5, <1>1

\* The time predicted through when the last sample is reached.
LEMMA CoveredByStep ==
  ASSUME NEW times, Starts(times), last_lidar_end_time_ \in Nat,
         NEW f, f = [i \in 1 .. Len(times) |->
                       IF i = 1 THEN 0 ELSE f[i - 1] + StepTime(times[i - 1], times[i])]
  PROVE  \A i \in 1 .. Len(times) : f[i] = IF i = 1 THEN 0 ELSE times[i] - last_lidar_end_time_
<1> DEFINE n == Len(times)
           Reached(i) == IF i = 1 THEN 0 ELSE times[i] - last_lidar_end_time_
           wrong == {i \in 1 .. n : f[i] # Reached(i)}
<1>1. n \in Nat
  BY DEF Starts
<1>2. ASSUME wrong # {}
      PROVE  FALSE
  <2>1. PICK k \in wrong : \A i \in wrong : k <= i
    <3>1. wrong \in SUBSET (1 .. n)
      OBVIOUS
    <3> HIDE DEF wrong
    <3> QED  BY <1>1, <1>2, <3>1, LeastNumber
  <2>2. k \in 1 .. n /\ f[k] # Reached(k)
    OBVIOUS
  <2>3. f[k] = IF k = 1 THEN 0 ELSE f[k - 1] + StepTime(times[k - 1], times[k])
    BY <2>2
  <2>4. k \in 2 .. n
    BY <1>1, <2>2, <2>3
  <2>5. f[k - 1] = Reached(k - 1)
    <3>1. k - 1 \in 1 .. n /\ ~(k <= k - 1)
      BY <1>1, <2>4
    <3> QED  BY <2>1, <3>1
  <2>6. /\ times[k] \in Nat /\ times[k - 1] \in Nat
        /\ StepTime(times[k - 1], times[k]) =
             IF k = 2 THEN times[k] - last_lidar_end_time_ ELSE times[k] - times[k - 1]
    BY <2>4, StepTimes
  <2>7. f[k] = f[k - 1] + StepTime(times[k - 1], times[k])
    BY <2>3, <2>4
  <2>8. CASE k = 2
    <3>1. f[k - 1] = 0
      BY <2>5, <2>8
    <3> QED  BY <2>2, <2>6, <2>7, <2>8, <3>1
  <2>9. CASE k # 2
    <3>1. f[k - 1] = times[k - 1] - last_lidar_end_time_
      BY <2>4, <2>5, <2>9
    <3>2. f[k] = times[k] - last_lidar_end_time_
      BY <2>6, <2>7, <2>9, <3>1
    <3> QED  BY <2>2, <2>4, <3>2
  <2> QED  BY <2>8, <2>9
<1> QED  BY <1>2

\* The prediction covers the time from the end of the last scan to the end of this one.
LEMMA PredictionReachesEnd ==
  ASSUME NEW times, Starts(times), Len(times) > 1, last_lidar_end_time_ \in Nat,
         NEW end \in Nat, Last(times) <= end
  PROVE  Prediction(times, end) = end - last_lidar_end_time_
<1> DEFINE n == Len(times)
           Eq(f) == f = [i \in 1 .. Len(times) |->
                           IF i = 1 THEN 0 ELSE f[i - 1] + StepTime(times[i - 1], times[i])]
           covered == CHOOSE f : Eq(f)
           reached == [i \in 1 .. n |-> IF i = 1 THEN 0 ELSE times[i] - last_lidar_end_time_]
<1>1. n \in Nat /\ n > 1 /\ times[n] \in Nat /\ Last(times) = times[n]
  BY DEF Starts, Last
<1>2. Eq(reached)
  <2>1. ASSUME NEW i \in 1 .. n
        PROVE  reached[i] = IF i = 1 THEN 0
                            ELSE reached[i - 1] + StepTime(times[i - 1], times[i])
    <3>1. CASE i = 1
      BY <3>1
    <3>2. CASE i # 1
      <4>1. i \in 2 .. n /\ i - 1 \in 1 .. n
        BY <1>1, <3>2
      <4>2. /\ times[i] \in Nat /\ times[i - 1] \in Nat
            /\ StepTime(times[i - 1], times[i]) =
                 IF i = 2 THEN times[i] - last_lidar_end_time_ ELSE times[i] - times[i - 1]
        BY <4>1, StepTimes
      <4>3. /\ reached[i] = times[i] - last_lidar_end_time_
            /\ reached[i - 1] = IF i = 2 THEN 0 ELSE times[i - 1] - last_lidar_end_time_
        BY <3>2, <4>1
      <4> HIDE DEF reached
      <4> QED  BY <3>2, <4>2, <4>3
    <3> QED  BY <3>1, <3>2
  <2> QED  BY <2>1
<1>3. Eq(covered)
  <2> HIDE DEF Eq
  <2> QED  BY <1>2
<1>4. covered[n] = times[n] - last_lidar_end_time_
  <2> HIDE DEF covered
  <2>1. \A i \in 1 .. Len(times) : covered[i] = IF i = 1 THEN 0 ELSE times[i] - last_lidar_end_time_
    BY <1>3, CoveredByStep
  <2> QED  BY <1>1, <2>1
<1>5. Max({end - times[n], times[n] - end}) = end - times[n]
  BY <1>1, MaxOfTwo
<1>6. Prediction(times, end) = covered[n] + Max({end - Last(times), Last(times) - end})
  BY DEF Prediction
<1> HIDE DEF covered
<1> QED  BY <1>1, <1>4, <1>5, <1>6

\* What sync_packages takes ends at some time, and keeps the mean's type.
LEMMA PushedEnds ==
  ASSUME ClockTypes, lidar_buffer # <<>>, NEW p \in Pushed
  PROVE  /\ DOMAIN p[1] = MeasFields /\ p[1].lidar_end_time \in Nat
         /\ p[2] \in Nat /\ Plausible(p[2])
<1>1. /\ DOMAIN p[1] = MeasFields
      /\ \/ lidar_pushed /\ p = <<meas, lidar_mean_scantime>>
         \/ /\ ~lidar_pushed
            /\ \E e \in ScanEnds(Head(lidar_buffer)) :
                 /\ p[1].lidar = Head(lidar_buffer)
                 /\ p[1].lidar_beg_time = Head(time_buffer)
                 /\ p[1].lidar_end_time = Head(time_buffer) + e.lasts
                 /\ p[2] = e.mean
  BY PushedIsFront DEF ClockTypes
<1>2. CASE lidar_pushed
  <2>1. p[1] = meas /\ p[2] = lidar_mean_scantime
    BY <1>1, <1>2
  <2> QED  BY <1>1, <2>1 DEF ClockTypes
<1>3. CASE ~lidar_pushed
  <2>1. PICK e \in ScanEnds(Head(lidar_buffer)) :
          p[1].lidar_end_time = Head(time_buffer) + e.lasts /\ p[2] = e.mean
    BY <1>1, <1>3
  <2>2. Head(lidar_buffer) \in Scan
    BY DEF ClockTypes
  <2>3. Head(time_buffer) \in Nat
    <3>1. lidar_buffer \in Seq(Scan) /\ time_buffer \in Seq(ScanTimes)
          /\ Len(lidar_buffer) <= Len(time_buffer)
      BY DEF ClockTypes
    <3>2. Len(lidar_buffer) \in Nat \ {0} /\ Len(time_buffer) \in Nat
      BY <3>1
    <3>3. time_buffer # <<>>
      BY <3>1, <3>2
    <3>4. Head(time_buffer) \in ScanTimes
      BY <3>1, <3>3
    <3> QED  BY <3>4, TimeAssumption
  <2>4. e.lasts \in Nat /\ e.mean \in Nat /\ Plausible(e.mean)
    BY <2>1, <2>2, ScanEndsLast DEF ClockTypes
  <2> QED  BY <1>1, <2>1, <2>3, <2>4
<1> QED  BY <1>2, <1>3

\* The samples that belong to a scan are not after its end, and the others are, unless
\* none belongs to it.
LEMMA SamplesUpToEnd ==
  ASSUME imu_buffer \in Seq(ImuTimes), imu_buffer # <<>>, NEW end \in Nat
  PROVE  /\ ImuUpTo(end) \in 0 .. Len(imu_buffer)
         /\ ImuUpTo(end) > 0 =>
              /\ imu_buffer[ImuUpTo(end)] <= end
              /\ \A i \in ImuUpTo(end) + 1 .. Len(imu_buffer) : end < imu_buffer[i]
<1> DEFINE n == Len(imu_buffer)
           early == {i \in DOMAIN imu_buffer : imu_buffer[i] <= end}
<1>1. /\ n \in Nat /\ DOMAIN imu_buffer = 1 .. n
      /\ \A i \in 1 .. n : imu_buffer[i] \in Nat
  <2>1. n \in Nat /\ DOMAIN imu_buffer = 1 .. n /\ \A i \in 1 .. n : imu_buffer[i] \in ImuTimes
    OBVIOUS
  <2>2. ImuTimes \subseteq Nat
    BY TimeAssumption
  <2> QED  BY <2>1, <2>2
<1>2. CASE early = {} \/ Head(imu_buffer) = end
  <2>1. ImuUpTo(end) = 0
    BY <1>2 DEF ImuUpTo
  <2> QED  BY <1>1, <2>1
<1>3. CASE early # {} /\ Head(imu_buffer) # end
  <2>1. ImuUpTo(end) = Max(early)
    BY <1>3 DEF ImuUpTo
  <2>2. early \in SUBSET (1 .. n)
    BY <1>1
  <2>3. Max(early) \in early /\ \A i \in early : i <= Max(early)
    <3> HIDE DEF early, n
    <3> QED  BY <1>1, <1>3, <2>2, MaxIsGreatest
  <2> DEFINE k == Max(early)
  <2>4. k \in 1 .. n /\ imu_buffer[k] <= end
    BY <2>2, <2>3
  <2>5. ASSUME NEW i \in k + 1 .. n
        PROVE  end < imu_buffer[i]
    <3>1. i \in 1 .. n /\ ~(i <= k)
      BY <1>1, <2>4
    <3>2. i \notin early
      BY <2>3, <3>1
    <3>3. ~(imu_buffer[i] <= end)
      BY <1>1, <3>1, <3>2
    <3> QED  BY <1>1, <3>1, <3>3
  <2> QED  BY <2>1, <2>4, <2>5
<1> QED  BY <1>2, <1>3

LEMMA ImuArrivesPredicts ==
  ASSUME PredictionInv, NEW time \in ImuTimes, ImuArrives(time)
  PROVE  PredictionInv'
<1>1. /\ last_timestamp_imu' = time
      /\ UNCHANGED <<lidar_buffer, time_buffer, lidar_mean_scantime, meas, last_imu_,
                     last_lidar_end_time_, imu_need_init_, predicted>>
  BY DEF ImuArrives, lidarVars, syncVars, procVars
<1>2. imu_buffer \in Seq(ImuTimes) /\ time \in Nat /\ last_timestamp_imu \in Int
  <2>1. ImuTimes \subseteq Nat
    BY TimeAssumption
  <2> QED  BY <2>1 DEF PredictionInv, ClockTypes, None
<1>3. CASE time < last_timestamp_imu
  <2>1. imu_buffer' = <<time>> /\ imu_jumps' = imu_jumps + 1
    BY <1>3 DEF ImuArrives
  <2>2. imu_buffer' \in Seq(ImuTimes) /\ imu_jumps' \in Nat /\ imu_jumps' # 0
    BY <2>1 DEF PredictionInv, ClockTypes
  <2>3. ClockTypes'
    BY <1>1, <2>2 DEF PredictionInv, ClockTypes, Plausible
  <2> QED  BY <2>2, <2>3 DEF PredictionInv, EndBetweenSamples
<1>4. CASE ~(time < last_timestamp_imu)
  <2>1. /\ imu_buffer' = Append(imu_buffer, time) /\ imu_jumps' = imu_jumps
        /\ last_timestamp_imu < time
    BY <1>2, <1>4 DEF ImuArrives
  <2>2. /\ Len(imu_buffer) \in Nat /\ DOMAIN imu_buffer = 1 .. Len(imu_buffer)
        /\ imu_buffer' \in Seq(ImuTimes) /\ DOMAIN (imu_buffer') = 1 .. Len(imu_buffer) + 1
        /\ imu_buffer'[Len(imu_buffer) + 1] = time
        /\ \A i \in 1 .. Len(imu_buffer) : imu_buffer'[i] = imu_buffer[i]
    BY <1>2, <2>1
  <2>3. ClockTypes'
    BY <1>1, <2>1, <2>2 DEF PredictionInv, ClockTypes, Plausible
  <2>4. ASSUME imu_jumps' = 0, predicted' # None
        PROVE  EndBetweenSamples'
    <3>1. /\ ~imu_need_init_' /\ last_imu_' <= last_lidar_end_time_'
          /\ last_lidar_end_time_ <= last_timestamp_imu
          /\ \A i \in 1 .. Len(imu_buffer) : last_lidar_end_time_ < imu_buffer[i]
      BY <1>1, <2>1, <2>2, <2>4 DEF PredictionInv, EndBetweenSamples
    <3>2. last_lidar_end_time_ < time
      BY <1>1, <1>2, <2>1, <3>1 DEF PredictionInv, ClockTypes
    <3>3. ASSUME NEW i \in DOMAIN (imu_buffer')
          PROVE  last_lidar_end_time_ < imu_buffer'[i]
      <4>1. i = Len(imu_buffer) + 1 \/ i \in 1 .. Len(imu_buffer)
        BY <2>2
      <4> QED  BY <2>2, <3>1, <3>2, <4>1
    <3>4. last_lidar_end_time_ <= time
      BY <1>2, <3>2 DEF PredictionInv, ClockTypes
    <3> QED  BY <1>1, <3>1, <3>3, <3>4 DEF EndBetweenSamples
  <2> QED  BY <2>3, <2>4 DEF PredictionInv, EndBetweenSamples
<1> QED  BY <1>3, <1>4

LEMMA ScanArrivesPredicts ==
  ASSUME PredictionInv, NEW scan \in Scan, ScanArrives(scan)
  PROVE  PredictionInv'
<1>1. /\ lidar_buffer' = <<scan>> \/ lidar_buffer' = Append(lidar_buffer, scan)
      /\ time_buffer' = Append(time_buffer, scan.stamp)
      /\ UNCHANGED <<imu_buffer, last_timestamp_imu, imu_jumps, lidar_mean_scantime, meas,
                     last_imu_, last_lidar_end_time_, imu_need_init_, predicted>>
  BY DEF ScanArrives, imuVars, syncVars, procVars
<1>2. /\ lidar_buffer \in Seq(Scan) /\ time_buffer \in Seq(ScanTimes)
      /\ Len(lidar_buffer) <= Len(time_buffer) /\ scan.stamp \in ScanTimes
  BY ScanFields DEF PredictionInv, ClockTypes
<1>3. time_buffer' \in Seq(ScanTimes) /\ Len(time_buffer') = Len(time_buffer) + 1
  BY <1>1, <1>2
<1>4. lidar_buffer' \in Seq(Scan) /\ Len(lidar_buffer') <= Len(time_buffer) + 1
  <2>1. Len(lidar_buffer) \in Nat /\ Len(time_buffer) \in Nat
    BY <1>2
  <2>2. CASE lidar_buffer' = <<scan>>
    BY <2>1, <2>2
  <2>3. CASE lidar_buffer' = Append(lidar_buffer, scan)
    <3>1. Len(lidar_buffer') = Len(lidar_buffer) + 1 /\ lidar_buffer' \in Seq(Scan)
      BY <1>2, <2>3
    <3> QED  BY <1>2, <2>1, <3>1
  <2> QED  BY <1>1, <2>2, <2>3
<1>5. ClockTypes'
  BY <1>1, <1>3, <1>4 DEF PredictionInv, ClockTypes, Plausible
<1> QED  BY <1>1, <1>5 DEF PredictionInv, EndBetweenSamples

\* The samples of a scan follow the one used last.
LEMMA SamplesStart ==
  ASSUME PredictionInv, imu_jumps = 0, predicted # None, NEW k \in 1 .. Len(imu_buffer)
  PROVE  LET times == <<last_imu_>> \o SubSeq(imu_buffer, 1, k)
         IN  Starts(times) /\ Len(times) > 1 /\ Last(times) = imu_buffer[k]
<1> DEFINE taken == SubSeq(imu_buffer, 1, k)
           times == <<last_imu_>> \o taken
<1>1. imu_buffer \in Seq(Nat)
  <2>1. ImuTimes \subseteq Nat
    BY TimeAssumption
  <2>2. imu_buffer \in Seq(ImuTimes)
    BY DEF PredictionInv, ClockTypes
  <2> QED  BY <2>1, <2>2, SeqMonotonic
<1>2. Len(imu_buffer) \in Nat /\ DOMAIN imu_buffer = 1 .. Len(imu_buffer)
  BY <1>1
<1>3. taken \in Seq(Nat) /\ Len(taken) = k /\ \A i \in 1 .. k : taken[i] = imu_buffer[i]
  BY <1>1, <1>2
<1>4. last_imu_ \in Nat /\ <<last_imu_>> \in Seq(Nat) /\ Len(<<last_imu_>>) = 1
  BY DEF PredictionInv, ClockTypes
<1> HIDE DEF taken
<1>5. /\ times \in Seq(Nat) /\ Len(times) = k + 1 /\ times[1] = last_imu_
      /\ \A i \in 2 .. k + 1 : times[i] = taken[i - 1]
  BY <1>2, <1>3, <1>4
<1>6. /\ last_imu_ <= last_lidar_end_time_
      /\ \A i \in 1 .. Len(imu_buffer) : last_lidar_end_time_ < imu_buffer[i]
  BY <1>2 DEF PredictionInv, EndBetweenSamples
<1> HIDE DEF times
<1>7. ASSUME NEW i \in 2 .. k + 1
      PROVE  last_lidar_end_time_ < times[i]
  <2>1. i - 1 \in 1 .. k /\ i - 1 \in 1 .. Len(imu_buffer)
    BY <1>2
  <2> QED  BY <1>3, <1>5, <1>6, <2>1
<1>8. Len(times) > 1 /\ times # <<>>
  BY <1>2, <1>5
<1>9. Last(times) = imu_buffer[k]
  <2>1. k + 1 \in 2 .. k + 1 /\ k \in 1 .. k /\ (k + 1) - 1 = k
    BY <1>2
  <2>2. times[k + 1] = imu_buffer[k]
    BY <1>3, <1>5, <2>1
  <2> QED  BY <1>5, <2>2 DEF Last
<1>10. Starts(times)
  BY <1>5, <1>6, <1>7, <1>8 DEF Starts
<1> QED  BY <1>8, <1>9, <1>10 DEF times, taken

\* What a scan leaves of the samples.
LEMMA SamplesLeft ==
  ASSUME imu_buffer \in Seq(ImuTimes), NEW k \in 0 .. Len(imu_buffer)
  PROVE  LET left == SubSeq(imu_buffer, k + 1, Len(imu_buffer))
         IN  /\ left \in Seq(ImuTimes) /\ DOMAIN left = 1 .. Len(imu_buffer) - k
             /\ \A i \in DOMAIN left :
                  left[i] = imu_buffer[i + k] /\ i + k \in k + 1 .. Len(imu_buffer)
<1> DEFINE left == SubSeq(imu_buffer, k + 1, Len(imu_buffer))
<1>1. Len(imu_buffer) \in Nat /\ k \in Nat
  OBVIOUS
<1>2. left \in Seq(ImuTimes) /\ Len(left) = Len(imu_buffer) - k
  BY <1>1
<1>3. \A i \in 1 .. Len(imu_buffer) - k : left[i] = imu_buffer[i + k]
  BY <1>1
<1>4. DOMAIN left = 1 .. Len(imu_buffer) - k
  <2> HIDE DEF left
  <2> QED  BY <1>2
<1> HIDE DEF left
<1>5. \A i \in DOMAIN left : i + k \in k + 1 .. Len(imu_buffer)
  BY <1>1, <1>4
<1> QED  BY <1>2, <1>3, <1>4, <1>5 DEF left

\* A scan that is processed leaves the types as they are.
LEMMA SyncedKeepsTypes ==
  ASSUME PredictionInv, lidar_buffer # <<>>, imu_buffer # <<>>,
         NEW m, DOMAIN m = MeasFields, m.lidar_end_time \in Nat, Synced(m),
         lidar_mean_scantime' \in Nat, Plausible(lidar_mean_scantime'),
         UNCHANGED <<last_timestamp_imu, imu_jumps>>, last_imu_' \in Nat, last_lidar_end_time_' \in Nat
  PROVE  ClockTypes'
<1>1. /\ lidar_buffer' = Tail(lidar_buffer) /\ time_buffer' = Tail(time_buffer)
      /\ imu_buffer' = SubSeq(imu_buffer, ImuUpTo(m.lidar_end_time) + 1, Len(imu_buffer))
  BY DEF Synced, PopScan
<1>2. DOMAIN meas' = MeasFields /\ meas'.lidar_end_time \in Nat
  BY GroupIsScan
<1>3. imu_buffer' \in Seq(ImuTimes)
  <2>1. imu_buffer \in Seq(ImuTimes)
    BY DEF PredictionInv, ClockTypes
  <2>2. ImuUpTo(m.lidar_end_time) \in 0 .. Len(imu_buffer)
    BY <2>1, SamplesUpToEnd
  <2> QED  BY <1>1, <2>1, <2>2, SamplesLeft
<1>4. lidar_buffer' \in Seq(Scan) /\ time_buffer' \in Seq(ScanTimes)
      /\ Len(lidar_buffer') <= Len(time_buffer')
  <2>1. lidar_buffer \in Seq(Scan) /\ time_buffer \in Seq(ScanTimes)
        /\ Len(lidar_buffer) <= Len(time_buffer)
    BY DEF PredictionInv, ClockTypes
  <2>2. Len(lidar_buffer) \in Nat \ {0} /\ Len(time_buffer) \in Nat
    BY <2>1
  <2>3. time_buffer # <<>>
    BY <2>1, <2>2
  <2>4. /\ Tail(lidar_buffer) \in Seq(Scan) /\ Tail(time_buffer) \in Seq(ScanTimes)
        /\ Len(Tail(lidar_buffer)) = Len(lidar_buffer) - 1
        /\ Len(Tail(time_buffer)) = Len(time_buffer) - 1
    BY <2>1, <2>3
  <2> QED  BY <1>1, <2>1, <2>2, <2>4
<1> QED  BY <1>2, <1>3, <1>4 DEF PredictionInv, ClockTypes, Plausible

\* A scan that is undistorted moves the end up to the sample used last, and was predicted
\* through from end to end.
LEMMA SyncedPredicts ==
  ASSUME PredictionInv, lidar_buffer # <<>>, imu_buffer # <<>>,
         NEW m, DOMAIN m = MeasFields, m.lidar_end_time \in Nat, Synced(m), IsComplete(m),
         UNCHANGED <<last_timestamp_imu, imu_jumps>>
  PROVE  /\ last_imu_' \in Nat /\ last_lidar_end_time_' \in Nat
         /\ EndBetweenSamples'
         /\ imu_jumps = 0 /\ predicted # None /\ last_lidar_end_time_' # last_lidar_end_time_
              => predicted' = last_lidar_end_time_' - last_lidar_end_time_
<1> DEFINE end == m.lidar_end_time
           k == ImuUpTo(m.lidar_end_time)
           n == Len(imu_buffer)
           taken == SubSeq(imu_buffer, 1, ImuUpTo(m.lidar_end_time))
           group == [m EXCEPT !.imu = SubSeq(imu_buffer, 1, ImuUpTo(m.lidar_end_time))]
<1>1. group.imu = taken /\ group.lidar_end_time = end
  BY DEF MeasFields
<1>2. /\ imu_buffer' = SubSeq(imu_buffer, k + 1, n)
      /\ UNCHANGED procVars \/ Process(group)
  BY DEF Synced
<1>3. imu_buffer \in Seq(ImuTimes) /\ last_imu_ \in Nat /\ last_lidar_end_time_ \in Nat
  BY DEF PredictionInv, ClockTypes
<1>4. /\ k \in 0 .. n
      /\ k > 0 => imu_buffer[k] <= end /\ \A i \in k + 1 .. n : end < imu_buffer[i]
  BY <1>3, SamplesUpToEnd
<1>5. end \in Nat /\ end <= last_timestamp_imu /\ n \in Nat
  <2>1. last_timestamp_imu \in Int
    <3>1. ImuTimes \subseteq Nat
      BY TimeAssumption
    <3>2. last_timestamp_imu \in ImuTimes \cup {None}
      BY DEF PredictionInv, ClockTypes
    <3> QED  BY <3>1, <3>2 DEF None
  <2> QED  BY <1>3, <2>1 DEF IsComplete
<1> HIDE DEF end, group
<1>6. \A i \in DOMAIN (imu_buffer') :
        imu_buffer'[i] = imu_buffer[i + k] /\ i + k \in k + 1 .. n
  BY <1>2, <1>3, <1>4, SamplesLeft
<1>7. k > 0 => /\ taken # <<>> /\ Last(taken) = imu_buffer[k] /\ imu_buffer[k] \in Nat
  <2>1. SUFFICES ASSUME k > 0 PROVE taken # <<>> /\ Last(taken) = imu_buffer[k] /\ imu_buffer[k] \in Nat
    OBVIOUS
  <2>2. k \in 1 .. n
    BY <1>4, <1>5, <2>1
  <2>3. imu_buffer[k] \in ImuTimes
    BY <1>3, <2>2
  <2>4. Len(taken) = k /\ taken[k] = imu_buffer[k] /\ taken \in Seq(ImuTimes)
    BY <1>3, <1>5, <2>2
  <2> HIDE DEF taken, k
  <2>5. taken # <<>>
    BY <2>1, <2>4
  <2> QED  BY <2>3, <2>4, <2>5, TimeAssumption DEF Last
<1>8. k = 0 => taken = <<>>
  BY <1>3
<1> HIDE DEF k, taken
<1>9. CASE UNCHANGED procVars
  <2>1. UNCHANGED <<last_imu_, last_lidar_end_time_, imu_need_init_, predicted>>
    BY <1>9 DEF procVars
  <2>2. ASSUME imu_jumps = 0, predicted' # None
        PROVE  \A i \in DOMAIN (imu_buffer') : last_lidar_end_time_ < imu_buffer'[i]
    <3>1. \A i \in 1 .. n : last_lidar_end_time_ < imu_buffer[i]
      BY <1>3, <2>1, <2>2 DEF PredictionInv, EndBetweenSamples
    <3>2. ASSUME NEW i \in DOMAIN (imu_buffer')
          PROVE  last_lidar_end_time_ < imu_buffer'[i]
      <4>1. i + k \in 1 .. n
        BY <1>4, <1>6
      <4> QED  BY <1>6, <3>1, <4>1
    <3> QED  BY <3>2
  <2> QED  BY <1>3, <2>1, <2>2 DEF PredictionInv, EndBetweenSamples
<1>10. CASE k = 0 /\ Process(group)
  BY <1>1, <1>8, <1>9, <1>10 DEF Process
<1>11. CASE k > 0 /\ Process(group) /\ imu_need_init_
  <2>1. IMU_init(group)
    BY <1>1, <1>7, <1>11 DEF Process
  <2>2. /\ last_imu_' = imu_buffer[k]
        /\ UNCHANGED <<last_lidar_end_time_, predicted>>
    BY <1>1, <1>7, <1>11, <2>1 DEF IMU_init
  <2>3. imu_jumps = 0 => predicted = None
    BY <1>11 DEF PredictionInv, EndBetweenSamples
  <2> QED  BY <1>3, <1>7, <1>11, <2>2, <2>3 DEF EndBetweenSamples
<1>12. CASE k > 0 /\ Process(group) /\ ~imu_need_init_
  <2>1. UndistortPcl(group)
    BY <1>1, <1>7, <1>12 DEF Process
  <2>2. /\ predicted' = Prediction(<<last_imu_>> \o taken, end)
        /\ last_imu_' = imu_buffer[k] /\ last_lidar_end_time_' = end
        /\ ~imu_need_init_'
    BY <1>1, <1>7, <1>12, <2>1 DEF UndistortPcl
  <2>3. \A i \in DOMAIN (imu_buffer') : end < imu_buffer'[i]
    BY <1>4, <1>6, <1>12
  <2>4. imu_buffer[k] <= end
    BY <1>4, <1>12
  <2>5. EndBetweenSamples'
    BY <1>5, <2>2, <2>3, <2>4 DEF EndBetweenSamples
  <2>6. ASSUME imu_jumps = 0, predicted # None
        PROVE  predicted' = end - last_lidar_end_time_
    <3> DEFINE times == <<last_imu_>> \o SubSeq(imu_buffer, 1, k)
    <3>1. k \in 1 .. n
      BY <1>4, <1>5, <1>12
    <3>2. Starts(times) /\ Len(times) > 1 /\ Last(times) = imu_buffer[k]
      BY <2>6, <3>1, SamplesStart
    <3>3. times = <<last_imu_>> \o taken
      BY DEF taken, k
    <3> HIDE DEF times
    <3>4. Prediction(times, end) = end - last_lidar_end_time_
      BY <1>3, <1>5, <2>4, <3>2, PredictionReachesEnd
    <3> QED  BY <2>2, <3>3, <3>4
  <2> QED  BY <1>5, <1>7, <1>12, <2>2, <2>5, <2>6
<1>13. k = 0 \/ k > 0
  BY <1>4
<1> QED  BY <1>2, <1>9, <1>10, <1>11, <1>12, <1>13

\* Whether the scan waits or is processed.
LEMMA TimerPredicts ==
  ASSUME PredictionInv, TimerCallback
  PROVE  /\ PredictionInv'
         /\ imu_jumps = 0 /\ predicted # None /\ last_lidar_end_time_' # last_lidar_end_time_
              => predicted' = last_lidar_end_time_' - last_lidar_end_time_
<1>1. /\ lidar_buffer # <<>> /\ imu_buffer # <<>> /\ UNCHANGED <<last_timestamp_imu, imu_jumps>>
      /\ \E p \in Pushed :
           /\ lidar_mean_scantime' = p[2]
           /\ IF IsComplete(p[1]) THEN Synced(p[1])
              ELSE /\ meas' = p[1]
                   /\ UNCHANGED <<lidar_buffer, time_buffer, imu_buffer, procVars, mapVars>>
  BY DEF TimerCallback
<1>2. PICK p \in Pushed :
        /\ lidar_mean_scantime' = p[2]
        /\ IF IsComplete(p[1]) THEN Synced(p[1])
           ELSE /\ meas' = p[1]
                /\ UNCHANGED <<lidar_buffer, time_buffer, imu_buffer, procVars, mapVars>>
  BY <1>1
<1>3. /\ DOMAIN p[1] = MeasFields /\ p[1].lidar_end_time \in Nat
      /\ lidar_mean_scantime' \in Nat /\ Plausible(lidar_mean_scantime')
  BY <1>1, <1>2, PushedEnds DEF PredictionInv
<1>4. CASE IsComplete(p[1])
  <2>1. Synced(p[1])
    BY <1>2, <1>4
  <2>2. /\ last_imu_' \in Nat /\ last_lidar_end_time_' \in Nat
        /\ EndBetweenSamples'
        /\ imu_jumps = 0 /\ predicted # None /\ last_lidar_end_time_' # last_lidar_end_time_
             => predicted' = last_lidar_end_time_' - last_lidar_end_time_
    BY <1>1, <1>3, <1>4, <2>1, SyncedPredicts
  <2>3. ClockTypes'
    BY <1>1, <1>3, <2>1, <2>2, SyncedKeepsTypes
  <2> QED  BY <2>2, <2>3 DEF PredictionInv
<1>5. CASE ~IsComplete(p[1])
  <2>1. /\ meas' = p[1]
        /\ UNCHANGED <<lidar_buffer, time_buffer, imu_buffer, last_imu_, last_lidar_end_time_,
                       imu_need_init_, predicted>>
    BY <1>2, <1>5 DEF procVars
  <2>2. ClockTypes'
    BY <1>1, <1>3, <2>1 DEF PredictionInv, ClockTypes, Plausible
  <2>3. EndBetweenSamples'
    BY <1>1, <2>1 DEF PredictionInv, EndBetweenSamples
  <2> QED  BY <2>1, <2>2, <2>3 DEF PredictionInv
<1> QED  BY <1>4, <1>5

LEMMA PredictionStep ==
  ASSUME PredictionInv, [Next]_vars
  PROVE  /\ PredictionInv'
         /\ [imu_jumps = 0 /\ predicted # None /\ last_lidar_end_time_' # last_lidar_end_time_
               => predicted' = last_lidar_end_time_' - last_lidar_end_time_]_vars
<1>1. ASSUME NEW scan \in Scan, ScanArrives(scan)
      PROVE  PredictionInv' /\ UNCHANGED last_lidar_end_time_
  BY <1>1, ScanArrivesPredicts DEF ScanArrives, procVars
<1>2. ASSUME NEW time \in ImuTimes, ImuArrives(time)
      PROVE  PredictionInv' /\ UNCHANGED last_lidar_end_time_
  BY <1>2, ImuArrivesPredicts DEF ImuArrives, procVars
<1>3. CASE TimerCallback
  BY <1>3, TimerPredicts
<1>4. CASE UNCHANGED vars
  BY <1>4 DEF vars, lidarVars, imuVars, syncVars, procVars, mapVars, PredictionInv, ClockTypes,
              EndBetweenSamples, Plausible
<1> QED  BY <1>1, <1>2, <1>3, <1>4 DEF Next

\* IMU_Processing.hpp:241-295, laserMapping.cpp:429-437: from one undistorted scan to the
\* next the filter is predicted through exactly the time between their ends, whatever
\* samples were lost or taken with scans that were not undistorted, until the time of
\* the samples jumps back.
THEOREM PredictsExactly == Spec => PredictsToScanEnd
<1>1. Init => PredictionInv
  <2>1. ASSUME Init
        PROVE  ClockTypes
    <3>1. last_lidar_end_time_ \in Nat
      BY <2>1, InitAssumption DEF Init
    <3> QED  BY <2>1, <3>1 DEF Init, ClockTypes, Plausible, MeasFields, None
  <2> QED  BY <2>1 DEF Init, PredictionInv, EndBetweenSamples
<1> QED  BY <1>1, PredictionStep, PTL DEF Spec, PredictsToScanEnd

=============================================================================
