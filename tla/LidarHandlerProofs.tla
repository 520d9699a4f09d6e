------------------------- MODULE LidarHandlerProofs -------------------------
(***************************************************************************)
(* Proofs about the Coin D4 handler for all values of its constants.  The  *)
(* inductive invariant IInv is the conjunction of the parts below; each    *)
(* theorem at the end follows from it.                                     *)
(***************************************************************************)
EXTENDS LidarHandler, TLAPS

OffStages == {"idle", "dtorGrab", "dtorPublish", "destroyed"}

\* Each thread exists only while the owner is between its start and its join.
ThreadsFollowOwner ==
    /\ owner \in OffStages => grab = "none"
    /\ owner \in OffStages \cup {"spawned", "grabbing", "published", "joinGrab"}
         => publish = "none"
    /\ ~serial_connected => grab = "none" /\ publish = "none"

\* A scan that is handed over has a first node, so it has a node; so has the
\* scan in the buffer once it is announced.
CountedScans ==
    /\ scan_head # 0 => scan_count > 0
    /\ grab \in {"freq", "lock", "copy", "count", "unlock"} => scan_head # 0
    /\ is_signalled \/ publish \in {"check", "checked"} => scan_node_count > 0

\* The grab thread believes the device runs only when it was told to run, and
\* a restart that was tried is under way or done.
DeviceFollows ==
    /\ grab = "wait" => wait_speed_right
    /\ grab # "none" /\ wait_speed_right => motor = "on"
    /\ lidar_restart_try =>
         IF grab = "none" THEN since_ok = "ended"
         ELSE \/ /\ lidar_trap_restart
                 /\ grab \in {"top", "status", "changed", "trap", "done"}
              \/ wait_speed_right /\ since_ok = "restarted"
              \/ ~wait_speed_right /\ since_ok \in {"ended", "restarted"}

\* Ring numbers grow from the buffer to the scan being collected to the last
\* ring seen.
RingsGrow ==
    /\ scan_head <= rings
    /\ scan_node_buf.head <= rings
    /\ grab \in {"freq", "lock", "copy", "count", "unlock"} => scan_head < rings
    /\ scan_head # 0 /\ grab \notin {"count", "unlock"} => scan_node_buf.head < scan_head
    /\ grab \in {"count", "unlock"} => scan_node_buf.head = scan_head
    /\ is_signalled \/ publish \in {"check", "checked", "parse", "read"}
         => scan_node_buf.head # 0

\* A scan that is being collected has a start time, that of its first ring
\* unless the thread is new; a completed one ends with the last ring.
TimesFollowRings ==
    /\ scan_head # 0 => tim.start # 0
    /\ ~fresh_thread => scan_head # 0
    /\ grab \in {"freq", "lock", "copy"} => tim.end = rings
    /\ grab \in {"count", "unlock"} => tim.start = rings
    /\ ~fresh_thread /\ grab \notin {"count", "unlock"} => tim.start = scan_head

\* The scan in the buffer has its own time and, once it is announced, its own
\* count.
BufferAgrees ==
    /\ scan_time.end = scan_node_buf.last
    /\ scan_node_buf.first \/ scan_time.start = scan_node_buf.head
    /\ scan_node_buf.head # 0 => /\ scan_node_buf.head < scan_node_buf.last
                                 /\ scan_node_buf.len > 0
    /\ grab # "count" => scan_node_count = scan_node_buf.len
    /\ grab = "count" => scan_count = scan_node_buf.len

\* So has the scan that was parsed.
OutscanAgrees ==
    publish \in {"unlock", "publish"} =>
        /\ outscan.count = outscan.nodes.len
        /\ outscan.time.end = outscan.nodes.last
        /\ outscan.nodes.head # 0 /\ outscan.nodes.head < outscan.nodes.last
        /\ outscan.filled \/ outscan.count >= MaxScanNodes
        /\ outscan.nodes.first \/ outscan.time.start = outscan.nodes.head

\* How often the scan in the buffer was published, is being published, and will
\* be published on the event that is set.
Served  == IF published.last = scan_node_buf.head THEN published.times ELSE 0
Serving == IF \/ publish \in {"check", "checked", "parse", "read"}
              \/ /\ publish \in {"unlock", "publish"}
                 /\ outscan.nodes.head = scan_node_buf.head
           THEN 1 ELSE 0
Pending == IF is_signalled THEN 1 ELSE 0

\* Scans are published in order; one is published on its own event and at most
\* on one set before it.
AtMostTwice ==
    /\ published.last <= scan_node_buf.head
    /\ publish \in {"unlock", "publish"} =>
         /\ published.last <= outscan.nodes.head
         /\ outscan.nodes.head <= scan_node_buf.head
         /\ outscan.nodes.head = published.last => published.times <= 1
    /\ grab = "count" =>
         /\ published.last < scan_node_buf.head
         /\ publish \in {"unlock", "publish"} => outscan.nodes.head < scan_node_buf.head
    /\ Served + Serving + Pending <= 2

IInv ==
    /\ TypeOK
    /\ LockHeldInside
    /\ ThreadsFollowOwner
    /\ CountedScans
    /\ DeviceFollows
    /\ RingsGrow
    /\ TimesFollowRings
    /\ BufferAgrees
    /\ OutscanAgrees
    /\ AtMostTwice
    /\ MotorOffWhenDeactivated

-----------------------------------------------------------------------------
(* The variables behind the frames of the actions. *)
USE DEF ownerVars, serialVars, statusVars, localVars, grabVars, bufVars, sharedVars,
        pubVars, deviceVars, ownerStatus, UnchangedByOwner, UnchangedByGrab,
        UnchangedByPublish, UnchangedByJudge, UnchangedByHandOver

LEMMA CapacityFact ==
    /\ ScanCapacity \in Nat /\ ScanCapacity > 1
    /\ 0 \in 0..ScanCapacity - 1 /\ 1 \in 0..ScanCapacity - 1
<1>1. ScanCapacity \in Nat /\ ScanCapacity > 1
  BY LidarAssumption DEF LidarAssumption
<1> QED  BY <1>1

LEMMA TypeInit == Init => TypeOK
<1> SUFFICES ASSUME Init PROVE TypeOK
  OBVIOUS
<1> USE CapacityFact DEF Init, NoScan, NoTime, EmptyOutscan, Timers,
        ScanType, TimeType
<1>1. OwnerTypes  BY DEF OwnerTypes
<1>2. StatusTypes  BY DEF StatusTypes
<1>3. GrabTypes  BY DEF GrabTypes
<1>4. BufferTypes  BY DEF BufferTypes
<1>5. PublishTypes  BY DEF PublishTypes
<1> QED  BY <1>1, <1>2, <1>3, <1>4, <1>5 DEF TypeOK

LEMMA TypeStep == TypeOK /\ [Next]_vars => TypeOK'
<1> SUFFICES ASSUME TypeOK, [Next]_vars PROVE TypeOK'
  OBVIOUS
<1> USE CapacityFact DEF TypeOK
<1>1. CASE ActivateGrab
  <2>1. CASE serial_connected
    <3>1. /\ skip_grab' = FALSE /\ activations' = activations + 1 /\ owner' = "spawned"
          /\ UNCHANGED <<serialVars, skip_publish, publisher>>
          /\ UNCHANGED <<tim, rings>> /\ grab' = "top" /\ scan_count' = 0 /\ scan_head' = 0
          /\ fresh_thread' = TRUE /\ wait_speed_right' = FALSE
      BY <1>1, <2>1 DEF ActivateGrab
    <3>2. activations' \in Nat
      BY <3>1 DEF OwnerTypes
    <3>8. skip_grab' \in BOOLEAN
      BY <3>1
    <3>3. fresh_thread' \in BOOLEAN /\ wait_speed_right' \in BOOLEAN
      BY <3>1
    <3>4. OwnerTypes'  BY <3>1, <3>2, <3>8 DEF OwnerTypes
    <3>5. GrabTypes'  BY <3>1, <3>3 DEF GrabTypes
    <3>6. StatusTypes'  BY <1>1 DEF StatusTypes, ActivateGrab, Timers
    <3>7. BufferTypes' /\ PublishTypes'  BY <1>1 DEF BufferTypes, PublishTypes, ActivateGrab
    <3> QED  BY <3>4, <3>5, <3>6, <3>7
  <2>2. CASE ~serial_connected
    BY <1>1, <2>2 DEF ActivateGrab, OwnerTypes, StatusTypes, GrabTypes, BufferTypes,
       PublishTypes
  <2> QED  BY <2>1, <2>2
<1>2. CASE SetReady
  BY <1>2 DEF OwnerTypes, StatusTypes, GrabTypes, BufferTypes, PublishTypes, SetReady
<1>3. CASE ActivatePublish
  <2>1. OwnerTypes'  BY <1>3 DEF OwnerTypes, ActivatePublish
  <2>2. StatusTypes'  BY <1>3 DEF StatusTypes, ActivatePublish, Timers
  <2>3. GrabTypes'  BY <1>3 DEF GrabTypes, ActivatePublish
  <2>4. BufferTypes'  BY <1>3 DEF BufferTypes, ActivatePublish
  <2>5. PublishTypes'  BY <1>3 DEF PublishTypes, ActivatePublish
  <2> QED  BY <2>1, <2>2, <2>3, <2>4, <2>5
<1>4. CASE StopPublish
  BY <1>4 DEF OwnerTypes, StatusTypes, GrabTypes, BufferTypes, PublishTypes, StopPublish
<1>5. CASE JoinPublish
  BY <1>5 DEF OwnerTypes, StatusTypes, GrabTypes, BufferTypes, PublishTypes, JoinPublish, Joined
<1>6. CASE StopGrab
  <2>1. OwnerTypes'  BY <1>6 DEF OwnerTypes, StopGrab
  <2>2. StatusTypes'  BY <1>6 DEF StatusTypes, StopGrab, Timers
  <2>3. GrabTypes'  BY <1>6 DEF GrabTypes, StopGrab
  <2>4. BufferTypes'  BY <1>6 DEF BufferTypes, StopGrab
  <2>5. PublishTypes'  BY <1>6 DEF PublishTypes, StopGrab
  <2> QED  BY <2>1, <2>2, <2>3, <2>4, <2>5
<1>7. CASE JoinGrab
  <2>1. OwnerTypes'  BY <1>7 DEF OwnerTypes, JoinGrab, Joined, WriteEndLidar
  <2>2. StatusTypes'  BY <1>7 DEF StatusTypes, JoinGrab, Joined, WriteEndLidar, Reaches, Timers
  <2>3. GrabTypes'  BY <1>7 DEF GrabTypes, JoinGrab, Joined, WriteEndLidar
  <2>4. BufferTypes'  BY <1>7 DEF BufferTypes, JoinGrab, Joined, WriteEndLidar
  <2>5. PublishTypes'  BY <1>7 DEF PublishTypes, JoinGrab, Joined, WriteEndLidar
  <2> QED  BY <2>1, <2>2, <2>3, <2>4, <2>5
<1>8. CASE Destroy
  BY <1>8 DEF OwnerTypes, StatusTypes, GrabTypes, BufferTypes, PublishTypes, Destroy
<1>9. CASE DtorJoinGrab
  BY <1>9 DEF OwnerTypes, StatusTypes, GrabTypes, BufferTypes, PublishTypes, DtorJoinGrab, Joined
<1>10. CASE DtorJoinPublish
  <2>1. OwnerTypes'  BY <1>10 DEF OwnerTypes, DtorJoinPublish, Joined
  <2>2. StatusTypes'  BY <1>10 DEF StatusTypes, DtorJoinPublish, Joined, Timers
  <2>3. GrabTypes'  BY <1>10 DEF GrabTypes, DtorJoinPublish, Joined
  <2>4. BufferTypes'  BY <1>10 DEF BufferTypes, DtorJoinPublish, Joined
  <2>5. PublishTypes'  BY <1>10 DEF PublishTypes, DtorJoinPublish, Joined
  <2> QED  BY <2>1, <2>2, <2>3, <2>4, <2>5
<1>11. CASE GrabTop
  BY <1>11 DEF OwnerTypes, StatusTypes, GrabTypes, BufferTypes, PublishTypes, GrabTop
<1>12. CASE JudgeStatus
  BY <1>12 DEF OwnerTypes, StatusTypes, GrabTypes, BufferTypes, PublishTypes, JudgeStatus
<1>13. CASE JudgeChanged
  <2>1. OwnerTypes'  BY <1>13 DEF OwnerTypes, JudgeChanged, Settle, Restart
  <2>2. StatusTypes'  BY <1>13 DEF StatusTypes, JudgeChanged, Settle, Restart, Timers
  <2>3. GrabTypes'  BY <1>13 DEF GrabTypes, JudgeChanged, Settle, Restart
  <2>4. BufferTypes'  BY <1>13 DEF BufferTypes, JudgeChanged, Settle, Restart
  <2>5. PublishTypes'  BY <1>13 DEF PublishTypes, JudgeChanged, Settle, Restart
  <2> QED  BY <2>1, <2>2, <2>3, <2>4, <2>5
<1>14. CASE JudgeTrap
  <2>1. OwnerTypes'  BY <1>14 DEF OwnerTypes, JudgeTrap, Settle, Restart, WriteEndLidar
  <2>2. StatusTypes'  BY <1>14 DEF StatusTypes, JudgeTrap, Settle, Restart, WriteEndLidar, Reaches, Timers
  <2>3. GrabTypes'  BY <1>14 DEF GrabTypes, JudgeTrap, Settle, Restart, WriteEndLidar
  <2>4. BufferTypes'  BY <1>14 DEF BufferTypes, JudgeTrap, Settle, Restart, WriteEndLidar
  <2>5. PublishTypes'  BY <1>14 DEF PublishTypes, JudgeTrap, Settle, Restart, WriteEndLidar
  <2> QED  BY <2>1, <2>2, <2>3, <2>4, <2>5
<1>15. CASE JudgeStart
  <2>1. OwnerTypes'  BY <1>15 DEF OwnerTypes, JudgeStart, Restart, WriteStartLidar
  <2>2. StatusTypes'  BY <1>15 DEF StatusTypes, JudgeStart, Restart, WriteStartLidar, Reaches, Timers
  <2>3. GrabTypes'  BY <1>15 DEF GrabTypes, JudgeStart, Restart, WriteStartLidar
  <2>4. BufferTypes'  BY <1>15 DEF BufferTypes, JudgeStart, Restart, WriteStartLidar
  <2>5. PublishTypes'  BY <1>15 DEF PublishTypes, JudgeStart, Restart, WriteStartLidar
  <2> QED  BY <2>1, <2>2, <2>3, <2>4, <2>5
<1>16. CASE WaitScanData
  <2>1. OwnerTypes'  BY <1>16 DEF OwnerTypes, WaitScanData, Batch, Silence, RingStart, Appended, Restart
  <2>2. StatusTypes'  BY <1>16 DEF StatusTypes, WaitScanData, NoData, TryRestart, ReportStuck, NoReport, Restart, Timers
  <2>3. GrabTypes'  BY <1>16 DEF GrabTypes, WaitScanData, Batch, Silence, RingStart, Appended, Restart, TimeType
  <2>4. BufferTypes'  BY <1>16 DEF BufferTypes, WaitScanData, Batch, Silence, RingStart, Appended, Restart, ScanType, TimeType
  <2>5. PublishTypes'  BY <1>16 DEF PublishTypes, WaitScanData, Batch, Silence, RingStart, Appended, Restart, ScanType, TimeType, EmptyOutscan, NoScan, NoTime
  <2> QED  BY <2>1, <2>2, <2>3, <2>4, <2>5
<1>17. CASE CheckFrequency
  <2>1. OwnerTypes'  BY <1>17 DEF OwnerTypes, CheckFrequency, Restart
  <2>2. StatusTypes'  BY <1>17 DEF StatusTypes, CheckFrequency, Restart, Timers
  <2>3. GrabTypes'  BY <1>17 DEF GrabTypes, CheckFrequency, Restart
  <2>4. BufferTypes'  BY <1>17 DEF BufferTypes, CheckFrequency, Restart
  <2>5. PublishTypes'  BY <1>17 DEF PublishTypes, CheckFrequency, Restart
  <2> QED  BY <2>1, <2>2, <2>3, <2>4, <2>5
<1>18. CASE GrabLock
  BY <1>18 DEF OwnerTypes, StatusTypes, GrabTypes, BufferTypes, PublishTypes, GrabLock, Lock
<1>19. CASE CopyScan
  BY <1>19 DEF OwnerTypes, StatusTypes, GrabTypes, BufferTypes, PublishTypes, CopyScan, ScanType, TimeType
<1>20. CASE SetEvent
  BY <1>20 DEF OwnerTypes, StatusTypes, GrabTypes, BufferTypes, PublishTypes, SetEvent, Signal
<1>21. CASE GrabUnlock
  <2>1. OwnerTypes'  BY <1>21 DEF OwnerTypes, GrabUnlock
  <2>2. StatusTypes'  BY <1>21 DEF StatusTypes, GrabUnlock, Timers
  <2>3. GrabTypes'  BY <1>21 DEF GrabTypes, GrabUnlock
  <2>4. BufferTypes'  BY <1>21 DEF BufferTypes, GrabUnlock
  <2>5. PublishTypes'  BY <1>21 DEF PublishTypes, GrabUnlock
  <2> QED  BY <2>1, <2>2, <2>3, <2>4, <2>5
<1>22. CASE Warmup
  BY <1>22 DEF OwnerTypes, StatusTypes, GrabTypes, BufferTypes, PublishTypes, Warmup
<1>23. CASE PublishTop
  BY <1>23 DEF OwnerTypes, StatusTypes, GrabTypes, BufferTypes, PublishTypes, PublishTop
<1>24. CASE WaitEvent
  <2>1. OwnerTypes'  BY <1>24 DEF OwnerTypes, WaitEvent, AutoReset
  <2>2. StatusTypes'  BY <1>24 DEF StatusTypes, WaitEvent, AutoReset, Timers
  <2>3. GrabTypes'  BY <1>24 DEF GrabTypes, WaitEvent, AutoReset
  <2>4. BufferTypes'  BY <1>24 DEF BufferTypes, WaitEvent, AutoReset
  <2>5. PublishTypes'  BY <1>24 DEF PublishTypes, WaitEvent, AutoReset
  <2> QED  BY <2>1, <2>2, <2>3, <2>4, <2>5
<1>25. CASE Wake
  <2>1. OwnerTypes'  BY <1>25 DEF OwnerTypes, Wake, AutoReset
  <2>2. StatusTypes'  BY <1>25 DEF StatusTypes, Wake, AutoReset, Timers
  <2>3. GrabTypes'  BY <1>25 DEF GrabTypes, Wake, AutoReset
  <2>4. BufferTypes'  BY <1>25 DEF BufferTypes, Wake, AutoReset
  <2>5. PublishTypes'  BY <1>25 DEF PublishTypes, Wake, AutoReset
  <2> QED  BY <2>1, <2>2, <2>3, <2>4, <2>5
<1>26. CASE SpuriousWake
  BY <1>26 DEF OwnerTypes, StatusTypes, GrabTypes, BufferTypes, PublishTypes, SpuriousWake
<1>27. CASE Timeout
  BY <1>27 DEF OwnerTypes, StatusTypes, GrabTypes, BufferTypes, PublishTypes, Timeout
<1>28. CASE CheckLock
  BY <1>28 DEF OwnerTypes, StatusTypes, GrabTypes, BufferTypes, PublishTypes, CheckLock, Lock
<1>29. CASE CheckCount
  BY <1>29 DEF OwnerTypes, StatusTypes, GrabTypes, BufferTypes, PublishTypes, CheckCount
<1>30. CASE ParseLock
  BY <1>30 DEF OwnerTypes, StatusTypes, GrabTypes, BufferTypes, PublishTypes, ParseLock, Lock
<1>31. CASE ParseScan
  BY <1>31 DEF OwnerTypes, StatusTypes, GrabTypes, BufferTypes, PublishTypes, ParseScan, ScanType, TimeType
<1>32. CASE ParseUnlock
  BY <1>32 DEF OwnerTypes, StatusTypes, GrabTypes, BufferTypes, PublishTypes, ParseUnlock
<1>33. CASE PublishScan
  BY <1>33 DEF OwnerTypes, StatusTypes, GrabTypes, BufferTypes, PublishTypes, PublishScan, ScanType, TimeType, EmptyOutscan, NoScan, NoTime
<1>34. ASSUME NEW t \in Timers, Elapse(t) PROVE TypeOK'
  BY <1>34 DEF OwnerTypes, StatusTypes, GrabTypes, BufferTypes, PublishTypes, Elapse, Timers
<1>35. CASE UNCHANGED vars
  BY <1>35 DEF OwnerTypes, StatusTypes, GrabTypes, BufferTypes, PublishTypes, vars
<1>36. CASE StartLidar
  <2>1. OwnerTypes'  BY <1>36 DEF OwnerTypes, StartLidar, Restart, WriteStartLidar
  <2>2. StatusTypes'  BY <1>36 DEF StatusTypes, StartLidar, Restart, WriteStartLidar, Reaches, Timers
  <2>3. GrabTypes'  BY <1>36 DEF GrabTypes, StartLidar, Restart, WriteStartLidar
  <2>4. BufferTypes'  BY <1>36 DEF BufferTypes, StartLidar, Restart, WriteStartLidar
  <2>5. PublishTypes'  BY <1>36 DEF PublishTypes, StartLidar, Restart, WriteStartLidar
  <2> QED  BY <2>1, <2>2, <2>3, <2>4, <2>5
<1> QED
  BY <1>1, <1>2, <1>3, <1>4, <1>5, <1>6, <1>7, <1>8, <1>9, <1>10, <1>11, <1>12, <1>13, <1>14, <1>15, <1>16, <1>17, <1>18, <1>19, <1>20, <1>21, <1>22, <1>23, <1>24, <1>25, <1>26, <1>27, <1>28, <1>29, <1>30, <1>31, <1>32, <1>33, <1>34, <1>35, <1>36
     DEF Next, Owner, GrabThread, PublishThread, Halted

-----------------------------------------------------------------------------
(* What the threads leave alone. *)

LEMMA OwnerFrame == Owner => UnchangedByOwner
  BY DEF Owner, ActivateGrab, SetReady, ActivatePublish, StopPublish, JoinPublish,
     StopGrab, JoinGrab, Destroy, DtorJoinGrab, DtorJoinPublish

LEMMA GrabFrame == GrabThread => UnchangedByGrab
  BY DEF GrabThread, GrabTop, JudgeStatus, JudgeChanged, JudgeTrap, JudgeStart, StartLidar,
     WaitScanData, CheckFrequency, GrabLock, CopyScan, SetEvent, Signal, GrabUnlock

LEMMA PublishFrame == PublishThread => UnchangedByPublish
  BY DEF PublishThread, Warmup, PublishTop, WaitEvent, Wake, SpuriousWake, Timeout,
     CheckLock, CheckCount, ParseLock, ParseScan, ParseUnlock, PublishScan

-----------------------------------------------------------------------------
(* Each part of IInv is preserved. *)

LEMMA ThreadsStep == TypeOK /\ ThreadsFollowOwner /\ [Next]_vars => ThreadsFollowOwner'
<1> SUFFICES ASSUME TypeOK, ThreadsFollowOwner, [Next]_vars PROVE ThreadsFollowOwner'
  OBVIOUS
<1> USE DEF ThreadsFollowOwner, OffStages
<1>1. CASE Owner
  <2>1. CASE ActivateGrab  BY <2>1 DEF ActivateGrab
  <2>2. CASE SetReady  BY <2>2 DEF SetReady
  <2>3. CASE ActivatePublish  BY <2>3 DEF ActivatePublish
  <2>4. CASE StopPublish  BY <2>4 DEF StopPublish
  <2>5. CASE JoinPublish  BY <2>5 DEF JoinPublish, Joined
  <2>6. CASE StopGrab  BY <2>6 DEF StopGrab
  <2>7. CASE JoinGrab  BY <2>7 DEF JoinGrab, Joined
  <2>8. CASE Destroy  BY <2>8 DEF Destroy
  <2>9. CASE DtorJoinGrab  BY <2>9 DEF DtorJoinGrab, Joined
  <2>10. CASE DtorJoinPublish  BY <2>10 DEF DtorJoinPublish, Joined
  <2> QED  BY <1>1, <2>1, <2>2, <2>3, <2>4, <2>5, <2>6, <2>7, <2>8, <2>9, <2>10 DEF Owner
<1>2. CASE GrabThread
  BY <1>2, GrabFrame DEF GrabThread, GrabTop, JudgeStatus, JudgeChanged, JudgeTrap, JudgeStart, StartLidar,
     WaitScanData, CheckFrequency, GrabLock, CopyScan, SetEvent, Signal, GrabUnlock
<1>3. CASE PublishThread
  BY <1>3, PublishFrame DEF PublishThread, Warmup, PublishTop, WaitEvent, Wake, SpuriousWake, Timeout,
     CheckLock, CheckCount, ParseLock, ParseScan, ParseUnlock, PublishScan
<1>4. ASSUME NEW t \in Timers, Elapse(t) PROVE ThreadsFollowOwner'
  BY <1>4 DEF Elapse
<1>5. CASE UNCHANGED vars
  BY <1>5 DEF vars
<1> QED
  BY <1>1, <1>2, <1>3, <1>4, <1>5 DEF Next, Halted

\* The early return of check_data_synchronization keeps the lock, so this part
\* needs CountedScans.
LEMMA LockStep ==
  /\ TypeOK /\ ThreadsFollowOwner /\ CountedScans /\ LockHeldInside /\ [Next]_vars
  => LockHeldInside'
<1> SUFFICES ASSUME TypeOK, ThreadsFollowOwner, CountedScans, LockHeldInside, [Next]_vars
             PROVE LockHeldInside'
  OBVIOUS
<1> USE DEF ThreadsFollowOwner, OffStages, LockHeldInside
<1>1. CASE Owner
  <2>1. CASE ActivateGrab  BY <2>1 DEF ActivateGrab
  <2>2. CASE SetReady  BY <2>2 DEF SetReady
  <2>3. CASE ActivatePublish  BY <2>3 DEF ActivatePublish
  <2>4. CASE StopPublish  BY <2>4 DEF StopPublish
  <2>5. CASE JoinPublish  BY <2>5 DEF JoinPublish, Joined
  <2>6. CASE StopGrab  BY <2>6 DEF StopGrab
  <2>7. CASE JoinGrab  BY <2>7 DEF JoinGrab, Joined
  <2>8. CASE Destroy  BY <2>8 DEF Destroy
  <2>9. CASE DtorJoinGrab  BY <2>9 DEF DtorJoinGrab, Joined
  <2>10. CASE DtorJoinPublish  BY <2>10 DEF DtorJoinPublish, Joined
  <2> QED  BY <1>1, <2>1, <2>2, <2>3, <2>4, <2>5, <2>6, <2>7, <2>8, <2>9, <2>10 DEF Owner
<1>2. CASE GrabThread
  BY <1>2, GrabFrame DEF GrabThread, Lock, GrabTop, JudgeStatus, JudgeChanged, JudgeTrap, JudgeStart, StartLidar,
     WaitScanData, CheckFrequency, GrabLock, CopyScan, SetEvent, Signal, GrabUnlock
<1>3. CASE PublishThread
  <2>1. CASE Warmup  BY <2>1 DEF Warmup
  <2>2. CASE PublishTop  BY <2>2 DEF PublishTop
  <2>3. CASE WaitEvent  BY <2>3 DEF WaitEvent
  <2>4. CASE Wake  BY <2>4 DEF Wake
  <2>5. CASE SpuriousWake  BY <2>5 DEF SpuriousWake
  <2>6. CASE Timeout  BY <2>6 DEF Timeout
  <2>7. CASE CheckLock  BY <2>7 DEF CheckLock, Lock
  <2>8. CASE CheckCount  BY <2>8 DEF CheckCount, CountedScans, TypeOK, BufferTypes
  <2>9. CASE ParseLock  BY <2>9 DEF ParseLock, Lock
  <2>10. CASE ParseScan  BY <2>10 DEF ParseScan
  <2>11. CASE ParseUnlock  BY <2>11 DEF ParseUnlock
  <2>12. CASE PublishScan  BY <2>12 DEF PublishScan
  <2> QED  BY <1>3, <2>1, <2>2, <2>3, <2>4, <2>5, <2>6, <2>7, <2>8, <2>9, <2>10, <2>11, <2>12 DEF PublishThread
<1>4. ASSUME NEW t \in Timers, Elapse(t) PROVE LockHeldInside'
  BY <1>4 DEF Elapse
<1>5. CASE UNCHANGED vars
  BY <1>5 DEF vars
<1> QED
  BY <1>1, <1>2, <1>3, <1>4, <1>5 DEF Next, Halted

LEMMA CountStep ==
  TypeOK /\ LockHeldInside /\ ThreadsFollowOwner /\ CountedScans /\ [Next]_vars
  => CountedScans'
<1> SUFFICES ASSUME TypeOK, LockHeldInside, ThreadsFollowOwner, CountedScans, [Next]_vars
             PROVE CountedScans'
  OBVIOUS
<1> USE DEF CountedScans, TypeOK, GrabTypes, BufferTypes
<1>1. CASE Owner
  <2>1. CASE ActivateGrab  BY <2>1 DEF ActivateGrab
  <2>2. CASE SetReady  BY <2>2 DEF SetReady
  <2>3. CASE ActivatePublish  BY <2>3 DEF ActivatePublish, ThreadsFollowOwner
  <2>4. CASE StopPublish  BY <2>4 DEF StopPublish
  <2>5. CASE JoinPublish  BY <2>5 DEF JoinPublish, Joined
  <2>6. CASE StopGrab  BY <2>6 DEF StopGrab
  <2>7. CASE JoinGrab  BY <2>7 DEF JoinGrab, Joined
  <2>8. CASE Destroy  BY <2>8 DEF Destroy
  <2>9. CASE DtorJoinGrab  BY <2>9 DEF DtorJoinGrab, Joined
  <2>10. CASE DtorJoinPublish  BY <2>10 DEF DtorJoinPublish, Joined
  <2> QED  BY <1>1, <2>1, <2>2, <2>3, <2>4, <2>5, <2>6, <2>7, <2>8, <2>9, <2>10 DEF Owner
<1>2. CASE GrabThread
  <2>1. CASE GrabTop  BY <2>1, CapacityFact DEF GrabTop
  <2>2. CASE JudgeStatus  BY <2>2, CapacityFact DEF JudgeStatus
  <2>3. CASE JudgeChanged  BY <2>3, CapacityFact DEF JudgeChanged, Settle
  <2>4. CASE JudgeTrap  BY <2>4, CapacityFact DEF JudgeTrap, Settle
  <2>5. CASE JudgeStart  BY <2>5, CapacityFact DEF JudgeStart
  <2>12. CASE StartLidar  BY <2>12, CapacityFact DEF StartLidar
  <2>6. CASE WaitScanData  BY <2>6, CapacityFact DEF WaitScanData, Batch, Silence, Appended
  <2>7. CASE CheckFrequency  BY <2>7, CapacityFact DEF CheckFrequency
  <2>8. CASE GrabLock  BY <2>8, CapacityFact DEF GrabLock, Lock
  <2>9. CASE CopyScan  BY <2>9, CapacityFact DEF CopyScan
  <2>10. CASE SetEvent  BY <2>10, CapacityFact DEF SetEvent, Signal
  <2>11. CASE GrabUnlock  BY <2>11, CapacityFact DEF GrabUnlock
  <2> QED  BY <1>2, <2>1, <2>2, <2>3, <2>4, <2>5, <2>6, <2>7, <2>8, <2>9, <2>10, <2>11, <2>12 DEF GrabThread
<1>3. CASE PublishThread
  BY <1>3, PublishFrame DEF PublishThread, AutoReset, Lock, Warmup, PublishTop, WaitEvent, Wake, SpuriousWake, Timeout, CheckLock,
     CheckCount, ParseLock, ParseScan, ParseUnlock, PublishScan
<1>4. ASSUME NEW t \in Timers, Elapse(t) PROVE CountedScans'
  BY <1>4 DEF Elapse
<1>5. CASE UNCHANGED vars
  BY <1>5 DEF vars
<1> QED
  BY <1>1, <1>2, <1>3, <1>4, <1>5 DEF Next, Halted

LEMMA DeviceStep ==
  TypeOK /\ ThreadsFollowOwner /\ DeviceFollows /\ [Next]_vars => DeviceFollows'
<1> SUFFICES ASSUME TypeOK, ThreadsFollowOwner, DeviceFollows, [Next]_vars
             PROVE DeviceFollows'
  OBVIOUS
<1> USE DEF DeviceFollows, TypeOK, GrabTypes, StatusTypes
<1>1. CASE Owner
  <2>1. CASE ActivateGrab  BY <2>1 DEF ActivateGrab, ThreadsFollowOwner, OffStages
  <2>2. CASE SetReady  BY <2>2 DEF SetReady
  <2>3. CASE ActivatePublish  BY <2>3 DEF ActivatePublish
  <2>4. CASE StopPublish  BY <2>4 DEF StopPublish
  <2>5. CASE JoinPublish  BY <2>5 DEF JoinPublish, Joined
  <2>6. CASE StopGrab  BY <2>6 DEF StopGrab
  <2>7. CASE JoinGrab  BY <2>7 DEF JoinGrab, Joined, WriteEndLidar
  <2>8. CASE Destroy  BY <2>8 DEF Destroy
  <2>9. CASE DtorJoinGrab  BY <2>9 DEF DtorJoinGrab, Joined, ThreadsFollowOwner, OffStages
  <2>10. CASE DtorJoinPublish  BY <2>10 DEF DtorJoinPublish, Joined
  <2> QED  BY <1>1, <2>1, <2>2, <2>3, <2>4, <2>5, <2>6, <2>7, <2>8, <2>9, <2>10 DEF Owner
<1>2. CASE GrabThread
  <2>1. CASE GrabTop  BY <2>1 DEF GrabTop
  <2>2. CASE JudgeStatus  BY <2>2 DEF JudgeStatus
  <2>3. CASE JudgeChanged  BY <2>3 DEF JudgeChanged, Settle
  <2>4. CASE JudgeTrap  BY <2>4 DEF JudgeTrap, Settle, WriteEndLidar
  <2>5. CASE JudgeStart  BY <2>5 DEF JudgeStart
  <2>12. CASE StartLidar  BY <2>12 DEF StartLidar, WriteStartLidar
  <2>6. CASE WaitScanData
    <3>1. /\ grab = "wait" /\ grab' \in {"top", "freq"}
          /\ UNCHANGED <<wait_speed_right, motor>>
      BY <2>6 DEF WaitScanData
    <3>2. CASE ~lidar_restart_try'
      BY <3>1, <3>2
    <3>3. CASE lidar_restart_try'
      <4>1. since_ok' = since_ok
        BY <2>6, <3>3 DEF WaitScanData
      <4>2. lidar_restart_try \/ (lidar_trap_restart' /\ grab' = "top")
        <5>1. PICK b \in IF spinning THEN Batch ELSE {Silence} :
                /\ IF b.ok THEN lidar_restart_try' = FALSE ELSE NoData
                /\ grab' = IF b.sync /\ scan_head # 0 THEN "freq" ELSE "top"
          BY <2>6, Zenon DEF WaitScanData
        <5>2. b.sync => b.ok
          BY DEF Batch, Silence
        <5>3. ~b.ok /\ NoData /\ grab' = "top"
          BY <3>3, <5>1, <5>2
        <5> QED  BY <3>3, <5>3 DEF NoData, TryRestart, ReportStuck, NoReport
      <4> QED  BY <3>1, <4>1, <4>2, <3>3
    <3> QED  BY <3>2, <3>3
  <2>7. CASE CheckFrequency  BY <2>7 DEF CheckFrequency
  <2>8. CASE GrabLock  BY <2>8 DEF GrabLock
  <2>9. CASE CopyScan  BY <2>9 DEF CopyScan
  <2>10. CASE SetEvent  BY <2>10 DEF SetEvent, Signal, CountedScans
  <2>11. CASE GrabUnlock  BY <2>11 DEF GrabUnlock
  <2> QED  BY <1>2, <2>1, <2>2, <2>3, <2>4, <2>5, <2>6, <2>7, <2>8, <2>9, <2>10, <2>11, <2>12 DEF GrabThread
<1>3. CASE PublishThread
  BY <1>3, PublishFrame
<1>4. ASSUME NEW t \in Timers, Elapse(t) PROVE DeviceFollows'
  BY <1>4 DEF Elapse
<1>5. CASE UNCHANGED vars
  BY <1>5 DEF vars
<1> QED
  BY <1>1, <1>2, <1>3, <1>4, <1>5 DEF Next, Halted

LEMMA RingsStep ==
  /\ TypeOK /\ LockHeldInside /\ ThreadsFollowOwner /\ CountedScans /\ RingsGrow
  /\ [Next]_vars
  => RingsGrow'
<1> SUFFICES ASSUME TypeOK, LockHeldInside, ThreadsFollowOwner, CountedScans, RingsGrow,
                    [Next]_vars
             PROVE RingsGrow'
  OBVIOUS
<1> USE DEF RingsGrow, TypeOK, GrabTypes, BufferTypes
<1>1. CASE Owner
  <2>1. CASE ActivateGrab  BY <2>1 DEF ActivateGrab, ThreadsFollowOwner, OffStages
  <2>2. CASE SetReady  BY <2>2 DEF SetReady
  <2>3. CASE ActivatePublish  BY <2>3 DEF ActivatePublish
  <2>4. CASE StopPublish  BY <2>4 DEF StopPublish
  <2>5. CASE JoinPublish  BY <2>5 DEF JoinPublish, Joined
  <2>6. CASE StopGrab  BY <2>6 DEF StopGrab
  <2>7. CASE JoinGrab  BY <2>7 DEF JoinGrab, Joined
  <2>8. CASE Destroy  BY <2>8 DEF Destroy
  <2>9. CASE DtorJoinGrab  BY <2>9 DEF DtorJoinGrab, Joined
  <2>10. CASE DtorJoinPublish  BY <2>10 DEF DtorJoinPublish, Joined
  <2> QED  BY <1>1, <2>1, <2>2, <2>3, <2>4, <2>5, <2>6, <2>7, <2>8, <2>9, <2>10 DEF Owner
<1>2. CASE GrabThread
  <2>1. CASE GrabTop  BY <2>1 DEF GrabTop
  <2>2. CASE JudgeStatus  BY <2>2 DEF JudgeStatus
  <2>3. CASE JudgeChanged  BY <2>3 DEF JudgeChanged
  <2>4. CASE JudgeTrap  BY <2>4 DEF JudgeTrap
  <2>5. CASE JudgeStart  BY <2>5 DEF JudgeStart
  <2>12. CASE StartLidar  BY <2>12 DEF StartLidar
  <2>6. CASE WaitScanData
    <3>1. /\ grab = "wait" /\ grab' \in {"top", "freq"}
          /\ UNCHANGED <<scan_node_buf, is_signalled, publish>>
      BY <2>6 DEF WaitScanData
    <3>2. /\ rings' \in Nat /\ rings' >= rings
          /\ scan_head' = scan_head \/ (scan_head = 0 /\ scan_head' = rings' /\ rings' > rings)
          /\ grab' = "freq" => scan_head # 0 /\ scan_head' = scan_head /\ rings' > rings
      BY <2>6 DEF WaitScanData, Batch, Silence
    <3> QED  BY <3>1, <3>2 DEF ScanType
  <2>7. CASE CheckFrequency  BY <2>7 DEF CheckFrequency
  <2>8. CASE GrabLock  BY <2>8 DEF GrabLock, Lock
  <2>9. CASE CopyScan  BY <2>9 DEF CopyScan, ScanType, LockHeldInside, CountedScans
  <2>10. CASE SetEvent  BY <2>10 DEF SetEvent, Signal, CountedScans
  <2>11. CASE GrabUnlock  BY <2>11 DEF GrabUnlock, CountedScans
  <2> QED  BY <1>2, <2>1, <2>2, <2>3, <2>4, <2>5, <2>6, <2>7, <2>8, <2>9, <2>10, <2>11, <2>12 DEF GrabThread
<1>3. CASE PublishThread
  BY <1>3, PublishFrame DEF PublishThread, AutoReset, Lock, Warmup, PublishTop, WaitEvent, Wake, SpuriousWake, Timeout, CheckLock,
     CheckCount, ParseLock, ParseScan, ParseUnlock, PublishScan
<1>4. ASSUME NEW t \in Timers, Elapse(t) PROVE RingsGrow'
  BY <1>4 DEF Elapse
<1>5. CASE UNCHANGED vars
  BY <1>5 DEF vars
<1> QED
  BY <1>1, <1>2, <1>3, <1>4, <1>5 DEF Next, Halted

LEMMA TimesStep ==
  /\ TypeOK /\ CountedScans /\ ThreadsFollowOwner /\ RingsGrow /\ TimesFollowRings
  /\ [Next]_vars
  => TimesFollowRings'
<1> SUFFICES ASSUME TypeOK, CountedScans, ThreadsFollowOwner, RingsGrow, TimesFollowRings, [Next]_vars
             PROVE TimesFollowRings'
  OBVIOUS
<1> USE DEF TimesFollowRings, TypeOK, GrabTypes, TimeType
<1>1. CASE Owner
  <2>1. CASE ActivateGrab  BY <2>1 DEF ActivateGrab, ThreadsFollowOwner, OffStages
  <2>2. CASE SetReady  BY <2>2 DEF SetReady
  <2>3. CASE ActivatePublish  BY <2>3 DEF ActivatePublish
  <2>4. CASE StopPublish  BY <2>4 DEF StopPublish
  <2>5. CASE JoinPublish  BY <2>5 DEF JoinPublish, Joined
  <2>6. CASE StopGrab  BY <2>6 DEF StopGrab
  <2>7. CASE JoinGrab  BY <2>7 DEF JoinGrab, Joined
  <2>8. CASE Destroy  BY <2>8 DEF Destroy
  <2>9. CASE DtorJoinGrab  BY <2>9 DEF DtorJoinGrab, Joined
  <2>10. CASE DtorJoinPublish  BY <2>10 DEF DtorJoinPublish, Joined
  <2> QED  BY <1>1, <2>1, <2>2, <2>3, <2>4, <2>5, <2>6, <2>7, <2>8, <2>9, <2>10 DEF Owner
<1>2. CASE GrabThread
  <2>1. CASE GrabTop  BY <2>1 DEF GrabTop
  <2>2. CASE JudgeStatus  BY <2>2 DEF JudgeStatus
  <2>3. CASE JudgeChanged  BY <2>3 DEF JudgeChanged
  <2>4. CASE JudgeTrap  BY <2>4 DEF JudgeTrap
  <2>5. CASE JudgeStart  BY <2>5 DEF JudgeStart
  <2>6. CASE WaitScanData
    <3>1. /\ grab = "wait" /\ grab' \in {"top", "freq"}
          /\ fresh_thread' = fresh_thread
      BY <2>6 DEF WaitScanData
    <3>2. tim.start # 0 => tim'.start = tim.start
      BY <2>6 DEF WaitScanData, Batch, Silence, RingStart
    <3>3. grab' = "freq" => scan_head # 0 /\ tim'.end = rings'
      BY <2>6 DEF WaitScanData, Batch, Silence, RingStart
    <3>4. \/ scan_head' = scan_head
          \/ scan_head = 0 /\ scan_head' # 0 /\ tim'.start # 0
      BY <2>6 DEF WaitScanData, Batch, Silence, RingStart
    <3> QED  BY <3>1, <3>2, <3>3, <3>4
  <2>7. CASE CheckFrequency  BY <2>7 DEF CheckFrequency
  <2>8. CASE GrabLock  BY <2>8 DEF GrabLock
  <2>9. CASE CopyScan  BY <2>9 DEF CopyScan, RingsGrow, CountedScans
  <2>10. CASE SetEvent  BY <2>10 DEF SetEvent, Signal
  <2>11. CASE GrabUnlock  BY <2>11 DEF GrabUnlock, RingsGrow, CountedScans
  <2>12. CASE StartLidar  BY <2>12 DEF StartLidar
  <2> QED  BY <1>2, <2>1, <2>2, <2>3, <2>4, <2>5, <2>6, <2>7, <2>8, <2>9, <2>10, <2>11, <2>12 DEF GrabThread
<1>3. CASE PublishThread
  BY <1>3, PublishFrame
<1>4. ASSUME NEW t \in Timers, Elapse(t) PROVE TimesFollowRings'
  BY <1>4 DEF Elapse
<1>5. CASE UNCHANGED vars
  BY <1>5 DEF vars
<1> QED
  BY <1>1, <1>2, <1>3, <1>4, <1>5 DEF Next, Halted

LEMMA BufferStep ==
  /\ TypeOK /\ ThreadsFollowOwner /\ CountedScans /\ RingsGrow /\ TimesFollowRings /\ BufferAgrees
  /\ [Next]_vars
  => BufferAgrees'
<1> SUFFICES ASSUME TypeOK, ThreadsFollowOwner, CountedScans, RingsGrow, TimesFollowRings, BufferAgrees, [Next]_vars
             PROVE BufferAgrees'
  OBVIOUS
<1> USE DEF BufferAgrees, TypeOK, GrabTypes, BufferTypes, ScanType, TimeType
<1>1. CASE Owner
  <2>1. CASE ActivateGrab  BY <2>1 DEF ActivateGrab, ThreadsFollowOwner, OffStages
  <2>2. CASE SetReady  BY <2>2 DEF SetReady
  <2>3. CASE ActivatePublish  BY <2>3 DEF ActivatePublish
  <2>4. CASE StopPublish  BY <2>4 DEF StopPublish
  <2>5. CASE JoinPublish  BY <2>5 DEF JoinPublish, Joined
  <2>6. CASE StopGrab  BY <2>6 DEF StopGrab
  <2>7. CASE JoinGrab  BY <2>7 DEF JoinGrab, Joined
  <2>8. CASE Destroy  BY <2>8 DEF Destroy
  <2>9. CASE DtorJoinGrab  BY <2>9 DEF DtorJoinGrab, Joined
  <2>10. CASE DtorJoinPublish  BY <2>10 DEF DtorJoinPublish, Joined
  <2> QED  BY <1>1, <2>1, <2>2, <2>3, <2>4, <2>5, <2>6, <2>7, <2>8, <2>9, <2>10 DEF Owner
<1>2. CASE GrabThread
  <2>1. CASE GrabTop  BY <2>1 DEF GrabTop
  <2>2. CASE JudgeStatus  BY <2>2 DEF JudgeStatus
  <2>3. CASE JudgeChanged  BY <2>3 DEF JudgeChanged
  <2>4. CASE JudgeTrap  BY <2>4 DEF JudgeTrap
  <2>5. CASE JudgeStart  BY <2>5 DEF JudgeStart
  <2>6. CASE WaitScanData  BY <2>6 DEF WaitScanData
  <2>7. CASE CheckFrequency  BY <2>7 DEF CheckFrequency
  <2>8. CASE GrabLock  BY <2>8 DEF GrabLock
  <2>9. CASE CopyScan  BY <2>9 DEF CopyScan, TimesFollowRings, RingsGrow, CountedScans
  <2>10. CASE SetEvent  BY <2>10 DEF SetEvent, Signal
  <2>11. CASE GrabUnlock  BY <2>11 DEF GrabUnlock
  <2>12. CASE StartLidar  BY <2>12 DEF StartLidar
  <2> QED  BY <1>2, <2>1, <2>2, <2>3, <2>4, <2>5, <2>6, <2>7, <2>8, <2>9, <2>10, <2>11, <2>12 DEF GrabThread
<1>3. CASE PublishThread
  BY <1>3, PublishFrame
<1>4. ASSUME NEW t \in Timers, Elapse(t) PROVE BufferAgrees'
  BY <1>4 DEF Elapse
<1>5. CASE UNCHANGED vars
  BY <1>5 DEF vars
<1> QED
  BY <1>1, <1>2, <1>3, <1>4, <1>5 DEF Next, Halted

LEMMA OutscanStep ==
  /\ TypeOK /\ LockHeldInside /\ ThreadsFollowOwner /\ CountedScans /\ RingsGrow /\ BufferAgrees /\ OutscanAgrees
  /\ [Next]_vars
  => OutscanAgrees'
<1> SUFFICES ASSUME TypeOK, LockHeldInside, ThreadsFollowOwner, CountedScans, RingsGrow, BufferAgrees, OutscanAgrees, [Next]_vars
             PROVE OutscanAgrees'
  OBVIOUS
<1> USE DEF OutscanAgrees
<1>1. CASE Owner
  <2>1. CASE ActivateGrab  BY <2>1 DEF ActivateGrab
  <2>2. CASE SetReady  BY <2>2 DEF SetReady
  <2>3. CASE ActivatePublish  BY <2>3 DEF ActivatePublish
  <2>4. CASE StopPublish  BY <2>4 DEF StopPublish
  <2>5. CASE JoinPublish  BY <2>5 DEF JoinPublish, Joined
  <2>6. CASE StopGrab  BY <2>6 DEF StopGrab
  <2>7. CASE JoinGrab  BY <2>7 DEF JoinGrab, Joined
  <2>8. CASE Destroy  BY <2>8 DEF Destroy
  <2>9. CASE DtorJoinGrab  BY <2>9 DEF DtorJoinGrab, Joined
  <2>10. CASE DtorJoinPublish  BY <2>10 DEF DtorJoinPublish, Joined
  <2> QED  BY <1>1, <2>1, <2>2, <2>3, <2>4, <2>5, <2>6, <2>7, <2>8, <2>9, <2>10 DEF Owner
<1>2. CASE GrabThread
  BY <1>2, GrabFrame
<1>3. CASE PublishThread
  <2>1. CASE Warmup  BY <2>1 DEF Warmup
  <2>2. CASE PublishTop  BY <2>2 DEF PublishTop
  <2>3. CASE WaitEvent  BY <2>3 DEF WaitEvent, AutoReset
  <2>4. CASE Wake  BY <2>4 DEF Wake, AutoReset
  <2>5. CASE SpuriousWake  BY <2>5 DEF SpuriousWake
  <2>6. CASE Timeout  BY <2>6 DEF Timeout
  <2>7. CASE CheckLock  BY <2>7 DEF CheckLock, Lock
  <2>8. CASE CheckCount  BY <2>8 DEF CheckCount
  <2>9. CASE ParseLock  BY <2>9 DEF ParseLock, Lock
  <2>10. CASE ParseScan
    <3>1. grab # "count" /\ scan_node_buf.head # 0
      BY <2>10 DEF ParseScan, LockHeldInside, RingsGrow
    <3>2. /\ scan_node_count = scan_node_buf.len /\ scan_node_buf.len > 0
          /\ scan_node_buf.head < scan_node_buf.last
          /\ scan_time.end = scan_node_buf.last
          /\ scan_node_buf.first \/ scan_time.start = scan_node_buf.head
      BY <3>1 DEF BufferAgrees
    <3>3. scan_node_count \in Nat /\ MaxScanNodes \in Nat
      BY CapacityFact, LidarAssumption DEF LidarAssumption, TypeOK, BufferTypes
    <3>4. outscan'.filled \/ scan_node_count >= MaxScanNodes
      <4>1. CASE scan_node_count >= MaxScanNodes
        BY <4>1
      <4>2. CASE scan_node_count < MaxScanNodes
        <5>1. (0 < scan_node_count /\ scan_node_count < MaxScanNodes) = TRUE
          BY <3>2, <3>3, <4>2
        <5>2. outscan'.filled = (0 < scan_node_count /\ scan_node_count < MaxScanNodes)
          BY <2>10 DEF ParseScan
        <5> QED  BY <5>1, <5>2, Zenon
      <4> QED  BY <3>3, <4>1, <4>2
    <3>5. /\ outscan'.count = scan_node_count /\ outscan'.nodes = scan_node_buf
          /\ outscan'.time = scan_time
      BY <2>10 DEF ParseScan
    <3> QED  BY <3>1, <3>2, <3>4, <3>5
  <2>11. CASE ParseUnlock  BY <2>11 DEF ParseUnlock
  <2>12. CASE PublishScan  BY <2>12 DEF PublishScan
  <2> QED  BY <1>3, <2>1, <2>2, <2>3, <2>4, <2>5, <2>6, <2>7, <2>8, <2>9, <2>10, <2>11, <2>12 DEF PublishThread
<1>4. ASSUME NEW t \in Timers, Elapse(t) PROVE OutscanAgrees'
  BY <1>4 DEF Elapse
<1>5. CASE UNCHANGED vars
  BY <1>5 DEF vars
<1> QED
  BY <1>1, <1>2, <1>3, <1>4, <1>5 DEF Next, Halted

LEMMA TwiceStep ==
  /\ TypeOK /\ LockHeldInside /\ ThreadsFollowOwner /\ CountedScans /\ RingsGrow /\ AtMostTwice
  /\ [Next]_vars
  => AtMostTwice'
<1> SUFFICES ASSUME TypeOK, LockHeldInside, ThreadsFollowOwner, CountedScans, RingsGrow, AtMostTwice, [Next]_vars
             PROVE AtMostTwice'
  OBVIOUS
<1> USE DEF AtMostTwice, Served, Serving, Pending, TypeOK, BufferTypes, PublishTypes, ScanType
<1>1. CASE Owner
  <2>1. CASE ActivateGrab  BY <2>1 DEF ActivateGrab
  <2>2. CASE SetReady  BY <2>2 DEF SetReady
  <2>3. CASE ActivatePublish  BY <2>3 DEF ActivatePublish, ThreadsFollowOwner
  <2>4. CASE StopPublish  BY <2>4 DEF StopPublish
  <2>5. CASE JoinPublish  BY <2>5 DEF JoinPublish, Joined
  <2>6. CASE StopGrab  BY <2>6 DEF StopGrab
  <2>7. CASE JoinGrab  BY <2>7 DEF JoinGrab, Joined
  <2>8. CASE Destroy  BY <2>8 DEF Destroy
  <2>9. CASE DtorJoinGrab  BY <2>9 DEF DtorJoinGrab, Joined
  <2>10. CASE DtorJoinPublish  BY <2>10 DEF DtorJoinPublish, Joined
  <2> QED  BY <1>1, <2>1, <2>2, <2>3, <2>4, <2>5, <2>6, <2>7, <2>8, <2>9, <2>10 DEF Owner
<1>2. CASE GrabThread
  <2>1. CASE GrabTop  BY <2>1 DEF GrabTop
  <2>2. CASE JudgeStatus  BY <2>2 DEF JudgeStatus
  <2>3. CASE JudgeChanged  BY <2>3 DEF JudgeChanged
  <2>4. CASE JudgeTrap  BY <2>4 DEF JudgeTrap
  <2>5. CASE JudgeStart  BY <2>5 DEF JudgeStart
  <2>6. CASE WaitScanData  BY <2>6 DEF WaitScanData
  <2>7. CASE CheckFrequency  BY <2>7 DEF CheckFrequency
  <2>8. CASE GrabLock  BY <2>8 DEF GrabLock
  <2>9. CASE CopyScan  BY <2>9 DEF CopyScan, RingsGrow, CountedScans, LockHeldInside, GrabTypes
  <2>10. CASE SetEvent  BY <2>10 DEF SetEvent, Signal, LockHeldInside
  <2>11. CASE GrabUnlock  BY <2>11 DEF GrabUnlock
  <2>12. CASE StartLidar  BY <2>12 DEF StartLidar
  <2> QED  BY <1>2, <2>1, <2>2, <2>3, <2>4, <2>5, <2>6, <2>7, <2>8, <2>9, <2>10, <2>11, <2>12 DEF GrabThread
<1>3. CASE PublishThread
  <2>1. CASE Warmup  BY <2>1 DEF Warmup
  <2>2. CASE PublishTop  BY <2>2 DEF PublishTop
  <2>3. CASE WaitEvent  BY <2>3 DEF WaitEvent, AutoReset
  <2>4. CASE Wake  BY <2>4 DEF Wake, AutoReset
  <2>5. CASE SpuriousWake  BY <2>5 DEF SpuriousWake
  <2>6. CASE Timeout  BY <2>6 DEF Timeout
  <2>7. CASE CheckLock  BY <2>7 DEF CheckLock, Lock
  <2>8. CASE CheckCount  BY <2>8 DEF CheckCount, CountedScans
  <2>9. CASE ParseLock  BY <2>9 DEF ParseLock, Lock
  <2>10. CASE ParseScan  BY <2>10 DEF ParseScan, LockHeldInside, RingsGrow
  <2>11. CASE ParseUnlock  BY <2>11 DEF ParseUnlock
  <2>12. CASE PublishScan  BY <2>12 DEF PublishScan
  <2> QED  BY <1>3, <2>1, <2>2, <2>3, <2>4, <2>5, <2>6, <2>7, <2>8, <2>9, <2>10, <2>11, <2>12 DEF PublishThread
<1>4. ASSUME NEW t \in Timers, Elapse(t) PROVE AtMostTwice'
  BY <1>4 DEF Elapse
<1>5. CASE UNCHANGED vars
  BY <1>5 DEF vars
<1> QED
  BY <1>1, <1>2, <1>3, <1>4, <1>5 DEF Next, Halted

LEMMA MotorStep ==
  TypeOK /\ ThreadsFollowOwner /\ MotorOffWhenDeactivated /\ [Next]_vars
  => MotorOffWhenDeactivated'
<1> SUFFICES ASSUME TypeOK, ThreadsFollowOwner, MotorOffWhenDeactivated, [Next]_vars
             PROVE MotorOffWhenDeactivated'
  OBVIOUS
<1> USE DEF MotorOffWhenDeactivated, TypeOK, OwnerTypes
<1>1. CASE Owner
  <2>1. CASE ActivateGrab  BY <2>1 DEF ActivateGrab
  <2>2. CASE SetReady  BY <2>2 DEF SetReady
  <2>3. CASE ActivatePublish  BY <2>3 DEF ActivatePublish
  <2>4. CASE StopPublish  BY <2>4 DEF StopPublish
  <2>5. CASE JoinPublish  BY <2>5 DEF JoinPublish, Joined
  <2>6. CASE StopGrab  BY <2>6 DEF StopGrab
  <2>7. CASE JoinGrab  BY <2>7 DEF JoinGrab, WriteEndLidar
  <2>8. CASE Destroy  BY <2>8 DEF Destroy
  <2>9. CASE DtorJoinGrab  BY <2>9 DEF DtorJoinGrab, Joined
  <2>10. CASE DtorJoinPublish  BY <2>10 DEF DtorJoinPublish, Joined
  <2> QED  BY <1>1, <2>1, <2>2, <2>3, <2>4, <2>5, <2>6, <2>7, <2>8, <2>9, <2>10 DEF Owner
<1>2. CASE GrabThread
  BY <1>2, GrabFrame DEF ThreadsFollowOwner, OffStages, GrabThread, GrabTop, JudgeStatus, JudgeChanged, JudgeTrap, JudgeStart, StartLidar, WaitScanData,
     CheckFrequency, GrabLock, CopyScan, SetEvent, Signal, GrabUnlock
<1>3. CASE PublishThread
  BY <1>3, PublishFrame
<1>4. ASSUME NEW t \in Timers, Elapse(t) PROVE MotorOffWhenDeactivated'
  BY <1>4 DEF Elapse
<1>5. CASE UNCHANGED vars
  BY <1>5 DEF vars
<1> QED
  BY <1>1, <1>2, <1>3, <1>4, <1>5 DEF Next, Halted

-----------------------------------------------------------------------------

LEMMA InvInit == Init => IInv
<1> SUFFICES ASSUME Init PROVE IInv
  OBVIOUS
<1>1. TypeOK  BY TypeInit
<1>2. LockHeldInside /\ ThreadsFollowOwner /\ CountedScans /\ MotorOffWhenDeactivated
  BY DEF Init, LockHeldInside, ThreadsFollowOwner, CountedScans, MotorOffWhenDeactivated,
     OffStages
<1>3. DeviceFollows /\ RingsGrow
  BY DEF Init, DeviceFollows, RingsGrow, NoScan
<1>4. TimesFollowRings /\ BufferAgrees /\ OutscanAgrees /\ AtMostTwice
  BY DEF Init, TimesFollowRings, BufferAgrees, OutscanAgrees, AtMostTwice, Served, Serving,
     Pending, NoScan, NoTime
<1> QED  BY <1>1, <1>2, <1>3, <1>4 DEF IInv

LEMMA InvStep == IInv /\ [Next]_vars => IInv'
  BY TypeStep, ThreadsStep, LockStep, CountStep, DeviceStep, RingsStep, TimesStep, BufferStep,
     OutscanStep, TwiceStep, MotorStep DEF IInv

LEMMA Invariance == Spec => []IInv
  BY InvInit, InvStep, PTL DEF Spec

\* Every variable keeps its type; local_scan and scan_node_buf_ never overflow.
THEOREM TypeCorrect == Spec => []TypeOK
<1>1. IInv => TypeOK  BY DEF IInv
<1> QED  BY <1>1, Invariance, PTL

\* lock_ is held exactly inside the critical sections: the early return of
\* check_data_synchronization that keeps it is never taken.
THEOREM LockSafe == Spec => []LockHeldInside
<1>1. IInv => LockHeldInside  BY DEF IInv
<1> QED  BY <1>1, Invariance, PTL

\* A deactivated device has been told to stop, whatever the grab thread did.
THEOREM MotorSafe == Spec => []MotorOffWhenDeactivated
<1>1. IInv => MotorOffWhenDeactivated  BY DEF IInv
<1> QED  BY <1>1, Invariance, PTL

\* The grab thread waits for data only from a device it has started.
THEOREM WaitSafe == Spec => []WaitsOnStartedDevice
<1>1. IInv => WaitsOnStartedDevice  BY DEF IInv, DeviceFollows, WaitsOnStartedDevice
<1> QED  BY <1>1, Invariance, PTL

\* A device is reported stuck only after a power cycle since its last good data.
THEOREM StuckSafe == Spec => []StuckMeansPowerCycled
<1>1. IInv => StuckMeansPowerCycled  BY DEF IInv, DeviceFollows, StuckMeansPowerCycled
<1> QED  BY <1>1, Invariance, PTL

\* A published scan has its own count, nodes and end time, whatever the grab
\* thread does between the two critical sections of the publish thread.
THEOREM WholeSafe == Spec => []PublishedScanIsWhole
<1>1. IInv => PublishedScanIsWhole  BY DEF IInv, OutscanAgrees, PublishedScanIsWhole
<1> QED  BY <1>1, Invariance, PTL

\* Its duration starts with its first ring, but for a new thread's first scan.
THEOREM SpanSafe == Spec => []ScanTimeSpansTheScan
<1>1. IInv => ScanTimeSpansTheScan  BY DEF IInv, OutscanAgrees, ScanTimeSpansTheScan
<1> QED  BY <1>1, Invariance, PTL

\* Scans are published in order and none a third time.
THEOREM OrderSafe == Spec => PublishedInOrder
<1> DEFINE InOrder == \/ published'.last > published.last
                      \/ published'.last = published.last /\ published'.times <= 2
<1>1. IInv /\ [Next]_vars => [InOrder]_published
  <2> SUFFICES ASSUME IInv, [Next]_vars, published' # published  PROVE InOrder
    OBVIOUS
  <2>1. PublishScan
    BY OwnerFrame, GrabFrame DEF Next, Owner, Halted, Elapse, vars, PublishThread, Warmup,
       PublishTop, WaitEvent, Wake, SpuriousWake, Timeout, CheckLock, CheckCount, ParseLock,
       ParseScan, ParseUnlock
  <2>2. /\ published.last \in Nat /\ published.times \in Nat
        /\ outscan.nodes.head \in Nat /\ published.last <= outscan.nodes.head
        /\ outscan.nodes.head = published.last => published.times <= 1
    BY <2>1 DEF IInv, TypeOK, PublishTypes, ScanType, AtMostTwice, PublishScan
  <2> QED  BY <2>1, <2>2 DEF PublishScan
<1> QED  BY <1>1, Invariance, PTL DEF Spec, PublishedInOrder

-----------------------------------------------------------------------------
(* The handler implements the mailbox, step by step. *)

LEMMA MailboxInit == Init => Mailbox!Init
  BY DEF Init, Mailbox!Init, NoScan

LEMMA MailboxStep == IInv /\ [Next]_vars => [Mailbox!Next]_(Mailbox!mailVars)
<1> SUFFICES ASSUME IInv, [Next]_vars PROVE [Mailbox!Next]_(Mailbox!mailVars)
  OBVIOUS
<1> USE DEF IInv, Mailbox!mailVars
<1>1. CASE Owner
  <2>1. CASE ActivateGrab  BY <2>1 DEF ActivateGrab, ThreadsFollowOwner, OffStages
  <2>2. CASE SetReady  BY <2>2 DEF SetReady
  <2>3. CASE ActivatePublish  BY <2>3 DEF ActivatePublish, ThreadsFollowOwner, OffStages
  <2>4. CASE StopPublish  BY <2>4 DEF StopPublish
  <2>5. CASE JoinPublish  BY <2>5 DEF JoinPublish, Joined
  <2>6. CASE StopGrab  BY <2>6 DEF StopGrab
  <2>7. CASE JoinGrab  BY <2>7 DEF JoinGrab, Joined
  <2>8. CASE Destroy  BY <2>8 DEF Destroy
  <2>9. CASE DtorJoinGrab  BY <2>9 DEF DtorJoinGrab, Joined
  <2>10. CASE DtorJoinPublish  BY <2>10 DEF DtorJoinPublish, Joined
  <2> QED  BY <1>1, <2>1, <2>2, <2>3, <2>4, <2>5, <2>6, <2>7, <2>8, <2>9, <2>10 DEF Owner
<1>2. CASE GrabThread
  <2>1. CASE GrabTop  BY <2>1 DEF GrabTop
  <2>2. CASE JudgeStatus  BY <2>2 DEF JudgeStatus
  <2>3. CASE JudgeChanged  BY <2>3 DEF JudgeChanged
  <2>4. CASE JudgeTrap  BY <2>4 DEF JudgeTrap
  <2>5. CASE JudgeStart  BY <2>5 DEF JudgeStart
  <2>12. CASE StartLidar  BY <2>12 DEF StartLidar
  <2>6. CASE WaitScanData  BY <2>6 DEF WaitScanData
  <2>7. CASE CheckFrequency  BY <2>7 DEF CheckFrequency
  <2>8. CASE GrabLock  BY <2>8 DEF GrabLock, Lock
  <2>9. CASE CopyScan  BY <2>9 DEF CopyScan, Mailbox!Next, Mailbox!Write, RingsGrow, TypeOK,
       BufferTypes, GrabTypes, ScanType, CountedScans
  <2>10. CASE SetEvent  BY <2>10 DEF SetEvent, Signal, Mailbox!Next, Mailbox!Announce
  <2>11. CASE GrabUnlock  BY <2>11 DEF GrabUnlock
  <2> QED  BY <1>2, <2>1, <2>2, <2>3, <2>4, <2>5, <2>6, <2>7, <2>8, <2>9, <2>10, <2>11, <2>12 DEF GrabThread
<1>3. CASE PublishThread
  <2>1. CASE Warmup  BY <2>1 DEF Warmup
  <2>2. CASE PublishTop  BY <2>2 DEF PublishTop
  <2>3. CASE WaitEvent
    <3>1. CASE is_signalled
      BY <2>3, <3>1 DEF WaitEvent, AutoReset, Mailbox!Next, Mailbox!Accept
    <3>2. CASE ~is_signalled
      <4>1. is_signalled' = is_signalled
        BY <2>3, <3>2 DEF WaitEvent, AutoReset, TypeOK, BufferTypes
      <4> QED  BY <2>3, <3>2, <4>1 DEF WaitEvent
    <3> QED  BY <3>1, <3>2
  <2>4. CASE Wake  BY <2>4 DEF Wake, AutoReset, Mailbox!Next, Mailbox!Accept
  <2>5. CASE SpuriousWake  BY <2>5 DEF SpuriousWake
  <2>6. CASE Timeout  BY <2>6 DEF Timeout
  <2>7. CASE CheckLock  BY <2>7 DEF CheckLock, Lock
  <2>8. CASE CheckCount  BY <2>8 DEF CheckCount, CountedScans, TypeOK, BufferTypes
  <2>9. CASE ParseLock  BY <2>9 DEF ParseLock, Lock
  <2>10. CASE ParseScan  BY <2>10 DEF ParseScan, Mailbox!Next, Mailbox!Fetch, RingsGrow,
       LockHeldInside
  <2>11. CASE ParseUnlock  BY <2>11 DEF ParseUnlock
  <2>12. CASE PublishScan  BY <2>12 DEF PublishScan
  <2> QED  BY <1>3, <2>1, <2>2, <2>3, <2>4, <2>5, <2>6, <2>7, <2>8, <2>9, <2>10, <2>11, <2>12 DEF PublishThread
<1>4. ASSUME NEW t \in Timers, Elapse(t) PROVE UNCHANGED Mailbox!mailVars
  BY <1>4 DEF Elapse
<1>5. CASE UNCHANGED vars
  BY <1>5 DEF vars
<1> QED
  BY <1>1, <1>2, <1>3, <1>4, <1>5 DEF Next, Halted

\* The buffer, data_event_ and the critical sections are a mailbox for the
\* latest scan.
THEOREM MailboxRefined == Spec => ImplementsMailbox
  BY MailboxInit, MailboxStep, Invariance, PTL DEF Spec, Mailbox!Spec, ImplementsMailbox
=============================================================================
