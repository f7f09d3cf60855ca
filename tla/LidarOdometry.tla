----------------------------- MODULE LidarOdometry -----------------------------
(***************************************************************************)
(* FAST_LIO's laserMapping: scans and imu samples are queued as they       *)
(* arrive, a timer joins a scan with the samples taken during it, predicts *)
(* the filter through the samples, undistorts the scan, registers it in    *)
(* the map and publishes the odometry with the time of the scan's end.     *)
(* One thread spins, so that a callback is a step.                         *)
(*                                                                         *)
(* Times are ticks.  A scan is the time it began, the offset of its last   *)
(* point and its size; downsampling keeps the size.  An imu sample is its  *)
(* time.  Of the filter only the time it was predicted through is kept.    *)
(***************************************************************************)
EXTENDS Integers, Sequences, SequencesExt, FiniteSetsExt

CONSTANTS
  ScanTimes,      \* when a scan may begin
  ImuTimes,       \* when an imu sample may be taken
  Sizes,          \* points of a scan
  Offsets,        \* offset of the last point of a scan that has several
  MAX_INI_COUNT,  \* samples the imu's initialisation needs
  Heap,           \* what a member that is never initialised may hold
  Skew,           \* bound: how far one sensor's messages may be ahead of the other's
  MaxJumps,       \* bound: how often the time of a sensor jumps back
  MaxBack         \* bound: how far it jumps back

ASSUME TimeAssumption == ScanTimes \in SUBSET Nat /\ ImuTimes \in SUBSET Nat
ASSUME ScanAssumption == Sizes \in SUBSET Nat /\ Offsets \in SUBSET (Nat \ {0})
ASSUME InitAssumption == MAX_INI_COUNT \in Nat /\ Heap \in SUBSET Nat
ASSUME LoopAssumption == Skew \in Nat /\ MaxJumps \in Nat /\ MaxBack \in Nat

None == -1

Scan ==
  [stamp : ScanTimes, last : {0}, size : Sizes \cap 0 .. 1] \cup
  [stamp : ScanTimes, last : Offsets, size : Sizes \ 0 .. 1]

\* meas.lidar and feats_undistort before the first scan.
NoScan == [stamp |-> None, last |-> 0, size |-> 0]

VARIABLES
  lidar_buffer, time_buffer, last_timestamp_lidar,  \* last_timestamp_lidar: None before the first
  imu_buffer, last_timestamp_imu,
  lidar_mean_scantime,   \* 0 before the first scan that counts
  lidar_pushed, meas,
  flg_first_scan,
  imu_need_init_, init_iter_num, last_imu_, last_lidar_end_time_,
  feats_undistort,
  ikdtree,               \* whether the map exists
  odom,                  \* stamps of the last two odometries
  predicted,             \* history: time the last scan's prediction covered
  lidar_jumps, imu_jumps,  \* history: how often the time of scans, of samples jumped back
  dropped                \* history: scans a jump dropped while their times stayed queued

lidarVars == <<lidar_buffer, time_buffer, last_timestamp_lidar, lidar_jumps, dropped>>
imuVars == <<imu_buffer, last_timestamp_imu, imu_jumps>>
syncVars == <<lidar_mean_scantime, lidar_pushed, meas>>
procVars == <<imu_need_init_, init_iter_num, last_imu_, last_lidar_end_time_, feats_undistort,
              predicted>>
mapVars == <<flg_first_scan, ikdtree, odom>>
vars == <<lidarVars, imuVars, syncVars, procVars, mapVars>>

Init ==
  /\ lidar_buffer = <<>> /\ time_buffer = <<>> /\ last_timestamp_lidar = None
  /\ imu_buffer = <<>> /\ last_timestamp_imu = None
  /\ lidar_mean_scantime = 0 /\ lidar_pushed = FALSE
  /\ meas = [lidar |-> NoScan, lidar_beg_time |-> 0, lidar_end_time |-> 0, imu |-> <<>>]
  /\ flg_first_scan = TRUE
  /\ imu_need_init_ = TRUE /\ init_iter_num = 1 /\ last_imu_ = 0
  /\ last_lidar_end_time_ \in Heap
  /\ feats_undistort = NoScan /\ ikdtree = FALSE /\ odom = <<None, None>> /\ predicted = None
  /\ lidar_jumps = 0 /\ imu_jumps = 0 /\ dropped = 0

-----------------------------------------------------------------------------
(* The sensors' callbacks.                                                 *)

\* The time of a sensor may jump back, as when a simulation or a recording restarts.
MayJump(time, last) == lidar_jumps + imu_jumps < MaxJumps /\ last - time <= MaxBack

\* standard_pcl_cbk and livox_pcl_cbk.  A scan whose time jumped back clears the
\* scans that wait, but not their times.
ScanArrives(scan) ==
  LET jumps == scan.stamp < last_timestamp_lidar
  IN  /\ scan.stamp # last_timestamp_lidar
      /\ jumps => MayJump(scan.stamp, last_timestamp_lidar)
      /\ scan.stamp <= last_timestamp_imu + Skew
      /\ lidar_buffer' = IF jumps THEN <<scan>> ELSE Append(lidar_buffer, scan)
      /\ time_buffer' = Append(time_buffer, scan.stamp)
      /\ last_timestamp_lidar' = scan.stamp
      /\ lidar_jumps' = IF jumps THEN lidar_jumps + 1 ELSE lidar_jumps
      /\ dropped' = IF jumps THEN dropped + Len(lidar_buffer) ELSE dropped
      /\ UNCHANGED <<imuVars, syncVars, procVars, mapVars>>

\* imu_cbk.  A sample may be lost; one whose time jumped back clears those that wait.
ImuArrives(time) ==
  LET jumps == time < last_timestamp_imu
  IN  /\ time # last_timestamp_imu
      /\ jumps => MayJump(time, last_timestamp_imu)
      /\ time <= last_timestamp_lidar + Skew
      /\ imu_buffer' = IF jumps THEN <<time>> ELSE Append(imu_buffer, time)
      /\ last_timestamp_imu' = time
      /\ imu_jumps' = IF jumps THEN imu_jumps + 1 ELSE imu_jumps
      /\ UNCHANGED <<lidarVars, syncVars, procVars, mapVars>>

-----------------------------------------------------------------------------
(* sync_packages.                                                          *)

\* Mutant: a scan that is too short ends as it begins.
MutantScanEnds(scan) ==
  {[lasts |-> scan.last,
    mean |-> IF lidar_mean_scantime = 0 THEN scan.last ELSE lidar_mean_scantime]}

\* How long the scan lasts, and the mean after it.  The mean is the exact average
\* in the code, and here any time between the old one and the new scan's.
ScanEnds(scan) ==
  IF scan.size <= 1 \/ 2 * scan.last < lidar_mean_scantime
  THEN {[lasts |-> lidar_mean_scantime, mean |-> lidar_mean_scantime]}
  ELSE IF lidar_mean_scantime = 0 THEN {[lasts |-> scan.last, mean |-> scan.last]}
  ELSE [lasts : {scan.last},
        mean : (lidar_mean_scantime .. scan.last) \cup (scan.last .. lidar_mean_scantime)]

\* The scan at the front, taken once, with the mean after it.
Pushed ==
  IF lidar_pushed THEN {<<meas, lidar_mean_scantime>>}
  ELSE {<<[meas EXCEPT !.lidar = Head(lidar_buffer),
                       !.lidar_beg_time = Head(time_buffer),
                       !.lidar_end_time = Head(time_buffer) + e.lasts], e.mean>> :
          e \in ScanEnds(Head(lidar_buffer))}

\* The samples of a scan that ends at end: up to the first one that is not
\* before it, which belongs to the scan if it comes at that very time.
ImuUpTo(end) == LET early == {i \in DOMAIN imu_buffer : imu_buffer[i] <= end}
                IN  IF early = {} \/ Head(imu_buffer) = end THEN 0 ELSE Max(early)

-----------------------------------------------------------------------------
(* ImuProcess.                                                             *)

\* Mutant: predicted from sample to sample.
MutantStepTime(head, tail) ==
  IF tail < last_lidar_end_time_ THEN 0 ELSE tail - head

\* UndistortPcl: a sample before the end of the last scan is skipped, and the
\* first that is not is predicted from that end.
StepTime(head, tail) ==
  IF tail < last_lidar_end_time_ THEN 0 ELSE tail - Max({head, last_lidar_end_time_})

\* covered[i] is the time predicted through when sample i is reached.
Prediction(times, end) ==
  LET covered[i \in 1 .. Len(times)] ==
        IF i = 1 THEN 0 ELSE covered[i - 1] + StepTime(times[i - 1], times[i])
  IN  covered[Len(times)] + Max({end - Last(times), Last(times) - end})

UndistortPcl(m) ==
  /\ feats_undistort' = m.lidar
  /\ predicted' = Prediction(<<last_imu_>> \o m.imu, m.lidar_end_time)
  /\ last_imu_' = Last(m.imu)
  /\ last_lidar_end_time_' = m.lidar_end_time
  /\ UNCHANGED <<imu_need_init_, init_iter_num>>

\* IMU_init counts the samples it averages.
IMU_init(m) ==
  /\ init_iter_num' = init_iter_num + Len(m.imu)
  /\ imu_need_init_' = (init_iter_num' <= MAX_INI_COUNT)
  /\ last_imu_' = Last(m.imu)
  /\ UNCHANGED <<last_lidar_end_time_, feats_undistort, predicted>>

\* Mutant: a scan whose samples begin before it is skipped.
MutantProcess(m) ==
  IF m.imu = <<>> \/ Head(m.imu) < m.lidar_beg_time THEN UNCHANGED procVars
  ELSE IF imu_need_init_ THEN IMU_init(m) ELSE UndistortPcl(m)

\* Without a sample nothing is done, and feats_undistort stays what it was.
Process(m) ==
  IF m.imu = <<>> THEN UNCHANGED procVars
  ELSE IF imu_need_init_ THEN IMU_init(m) ELSE UndistortPcl(m)

-----------------------------------------------------------------------------
(* timer_callback.                                                         *)

\* The scan is registered and the odometry published.  The first usable scan
\* becomes the map.
Register(end) ==
  IF feats_undistort'.size = 0 THEN UNCHANGED <<ikdtree, odom>>
  ELSE IF ~ikdtree THEN ikdtree' = (feats_undistort'.size > 5) /\ UNCHANGED odom
  ELSE IF feats_undistort'.size < 5 THEN UNCHANGED <<ikdtree, odom>>
  ELSE odom' = <<odom[2], end>> /\ UNCHANGED ikdtree

\* Mutant: the stamp of a scan stays queued.
MutantPopScan == lidar_buffer' = Tail(lidar_buffer) /\ UNCHANGED time_buffer

PopScan == lidar_buffer' = Tail(lidar_buffer) /\ time_buffer' = Tail(time_buffer)

\* sync_packages found the samples of the whole scan.
Synced(m) ==
  LET taken == ImuUpTo(m.lidar_end_time)
      group == [m EXCEPT !.imu = SubSeq(imu_buffer, 1, taken)]
  IN  /\ meas' = group
      /\ imu_buffer' = SubSeq(imu_buffer, taken + 1, Len(imu_buffer))
      /\ PopScan
      /\ lidar_pushed' = FALSE
      /\ IF flg_first_scan
         THEN flg_first_scan' = FALSE /\ UNCHANGED <<procVars, ikdtree, odom>>
         ELSE /\ Process(group)
              /\ Register(m.lidar_end_time)
              /\ UNCHANGED flg_first_scan

\* Mutant: a scan waits for a sample after its end.
MutantIsComplete(m) == last_timestamp_imu > m.lidar_end_time + 1

IsComplete(m) == last_timestamp_imu >= m.lidar_end_time

TimerCallback ==
  /\ lidar_buffer # <<>> /\ imu_buffer # <<>>
  /\ \E p \in Pushed :
       /\ lidar_mean_scantime' = p[2]
       /\ IF IsComplete(p[1]) THEN Synced(p[1])
          ELSE /\ lidar_pushed' = TRUE /\ meas' = p[1]
               /\ UNCHANGED <<lidar_buffer, time_buffer, imu_buffer, procVars, mapVars>>
  /\ UNCHANGED <<last_timestamp_lidar, last_timestamp_imu, lidar_jumps, imu_jumps, dropped>>

-----------------------------------------------------------------------------
Next ==
  \/ \E scan \in Scan : ScanArrives(scan)
  \/ \E time \in ImuTimes : ImuArrives(time)
  \/ TimerCallback

Spec == Init /\ [][Next]_vars

\* The timer fires every 10 ms; no scan or sample need come.
FairSpec == Spec /\ WF_vars(TimerCallback)

-----------------------------------------------------------------------------
(* What the odometry promises.                                             *)

\* laserMapping.cpp:297-310, 400-401: a scan is processed with the time it began, also
\* after the time of the scans jumped back, until a jump drops scans that wait: their
\* times stay queued (:300), and every later scan is given the time of an earlier one.
ScanKeepsItsStamp ==
  dropped = 0 /\ meas.lidar # NoScan => meas.lidar_beg_time = meas.lidar.stamp

\* IMU_Processing.hpp:241-295, laserMapping.cpp:429-437: from one scan that is
\* undistorted to the next the filter is predicted through exactly the time that
\* passed between their ends, whatever samples were lost, came late, or were
\* taken with a scan that was not undistorted, and wherever the time of the scans
\* jumps back to; but not after the time of the samples jumped back.
PredictsToScanEnd ==
  [][imu_jumps = 0 /\ predicted # None /\ last_lidar_end_time_' # last_lidar_end_time_
       => predicted' = last_lidar_end_time_' - last_lidar_end_time_]_vars

\* laserMapping.cpp:402-416, 636: the odometry's stamp always moves on, also
\* after scans that are too short to tell their end, until the time of the scans
\* jumps back.
OdometryMovesOn == lidar_jumps = 0 /\ odom[2] # None => odom[1] < odom[2]

\* IMU_Processing.hpp:344, laserMapping.cpp:1006-1091: what is registered under a
\* scan's stamp are the points of that scan; if no sample belonged to it, the points
\* undistorted last, with which an earlier scan was processed, are registered under it.
RegistersTheScan ==
  [][odom' # odom =>
       feats_undistort' = IF meas'.imu = <<>> THEN feats_undistort ELSE meas'.lidar]_vars

\* laserMapping.cpp:393-425: scans wait only until the samples reach their end,
\* and never for a sample that need not come, unless one was given the time of
\* another (see ScanKeepsItsStamp), the time of the samples jumps back, or that of
\* the scans did and the samples that wait were used up before.
ScanIsTaken ==
  LET Due == /\ lidar_buffer # <<>>
             /\ \A o \in Offsets : last_timestamp_imu >= Head(lidar_buffer).stamp + o
      UsedUp == lidar_jumps > 0 /\ imu_buffer = <<>>
  IN  Due ~> (~Due \/ dropped > 0 \/ imu_jumps > 0 \/ UsedUp)
=============================================================================
