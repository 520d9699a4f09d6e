---------------------------- MODULE LidarHandler ----------------------------
(***************************************************************************)
(* The Coin D4 lidar driver: CoinD4BaseHandler with the publisher of       *)
(* CoinD4LifecycleHandler, driven by its owner the way SingleCoinD4Node    *)
(* drives it, but through several activations.  Three threads share the    *)
(* handler: the owner (constructor, activate, deactivate, destructor), the *)
(* grab thread, which reads the serial port and assembles scans, and the   *)
(* publish thread, which waits on data_event_ and publishes.  An action is *)
(* the code between two points where another thread can be observed.       *)
(*                                                                         *)
(* Time is abstracted to the set "elapsed" of the delays that have run     *)
(* out since they were last restarted: "status" (1000 ms since             *)
(* lidar_status_time), "system" (3000 ms since system_start_time), "freq"  *)
(* (30000 ms since lidar_frequency_abnormal_time).  The instant of a ring  *)
(* start is the number of the ring (1, 2, ...); 0 is the unset time.       *)
(***************************************************************************)
EXTENDS LidarBatch

CONSTANTS
    ScanCapacity,     (* size of local_scan and scan_node_buf_ (1000)      *)
    MaxScanNodes,     (* MAX_SCAN_NODES, first size that is dropped (800)  *)
    Version,          (* the "version" parameter                           *)
    SpuriousWakeups,  (* may pthread_cond_timedwait return unsignalled?    *)
    LossyCommands,    (* may write_data fail?  No caller looks             *)
    MaxActivations,   (* bound: activations of the handler                 *)
    MaxRings          (* bound: ring-start packets seen                    *)

ASSUME LidarAssumption ==
    /\ ScanCapacity \in Nat /\ ScanCapacity > 1
    /\ MaxScanNodes \in Nat
    /\ Version \in Nat
    /\ SpuriousWakeups \in BOOLEAN
    /\ LossyCommands \in BOOLEAN
    /\ MaxActivations \in Nat
    /\ MaxRings \in Nat

VARIABLES
    owner, activations,             (* the owner's place, activations made *)
    serial_connected, serial_open,
    lidar_ready, lidar_last_status, close_lidar,     (* LidarHardwareStatus *)
    lidar_trap_restart, lidar_restart_try, lidar_abnormal_state,
    elapsed,                        (* the delays that have run out        *)
    grab, skip_grab,                (* grab thread: place, stop request    *)
    wait_speed_right, scan_count,   (*   its locals                        *)
    scan_head,                      (*   ring of local_scan[0], 0: not sync *)
    tim,                            (* tim_scan_start, tim_scan_end        *)
    lock,                           (* holder of lock_                     *)
    scan_node_buf, scan_node_count, scan_time,       (* guarded by lock_   *)
    is_signalled,                   (* data_event_                         *)
    publish, skip_publish, outscan, (* publish thread: place, stop, local  *)
    publisher,                      (* the LaserScan publisher             *)
    motor, spinning, rings,         (* the device: last command, rings     *)
    since_ok, fresh_thread, published                (* history            *)

ownerVars  == <<owner, activations>>
serialVars == <<serial_connected, serial_open>>
statusVars == <<lidar_ready, lidar_last_status, close_lidar,
                lidar_trap_restart, lidar_restart_try, lidar_abnormal_state>>
localVars  == <<wait_speed_right, scan_count, scan_head, fresh_thread>>
grabVars   == <<grab, skip_grab, localVars, tim>>
bufVars    == <<scan_node_buf, scan_node_count, scan_time>>
sharedVars == <<lock, bufVars, is_signalled>>
pubVars    == <<publish, skip_publish, publisher, outscan, published>>
deviceVars == <<motor, spinning, since_ok>>
ownerStatus == <<lidar_ready, lidar_last_status, close_lidar, lidar_trap_restart>>
vars == <<ownerVars, serialVars, statusVars, elapsed, grabVars, sharedVars, pubVars,
          deviceVars, rings>>

(* What no step of a thread changes. *)
UnchangedByOwner ==
    UNCHANGED <<serial_connected, lidar_restart_try, lidar_abnormal_state, tim,
                sharedVars, outscan, published, rings>>
UnchangedByGrab == UNCHANGED <<ownerVars, serialVars, lidar_ready, skip_grab, pubVars>>
UnchangedByPublish ==
    UNCHANGED <<ownerVars, serialVars, statusVars, elapsed, grabVars, bufVars,
                skip_publish, publisher, deviceVars, rings>>
(* Nor a step of judge_lidar_state, nor one that hands a scan over. *)
UnchangedByJudge ==
    /\ UnchangedByGrab
    /\ UNCHANGED <<lidar_restart_try, lidar_abnormal_state, scan_count, scan_head,
                   fresh_thread, tim, sharedVars, rings>>
UnchangedByHandOver ==
    /\ UnchangedByGrab
    /\ UNCHANGED <<statusVars, elapsed, wait_speed_right, deviceVars, rings>>

Timers == {"status", "system", "freq"}

\* LIDAR_VERSION values that judge_lidar_state starts: Mini_v1, Mini_v2, TOF.
StartVersions == {1, 2, 4}

NoScan == [head |-> 0, last |-> 0, len |-> 0, first |-> FALSE]
NoTime == [start |-> 0, end |-> 0]
EmptyOutscan == [filled |-> FALSE, count |-> 0, nodes |-> NoScan, time |-> NoTime]

Init ==
    /\ owner = "idle" /\ activations = 0
    /\ serial_connected \in BOOLEAN       \* init_lidar_port may fail
    /\ serial_open = serial_connected
    /\ lidar_ready = FALSE /\ lidar_last_status = FALSE /\ close_lidar = TRUE
    /\ lidar_trap_restart = FALSE /\ lidar_restart_try = FALSE
    /\ lidar_abnormal_state = {}
    /\ elapsed = Timers                   \* every time starts at 0
    /\ grab = "none" /\ skip_grab = FALSE
    /\ wait_speed_right = FALSE /\ scan_count = 0 /\ scan_head = 0
    /\ tim = NoTime
    /\ lock = "free"
    /\ scan_node_buf = NoScan /\ scan_node_count = 0 /\ scan_time = NoTime
    /\ is_signalled = FALSE
    /\ publish = "none" /\ skip_publish = FALSE
    /\ outscan = EmptyOutscan
    /\ publisher = "inactive"
    /\ motor \in {"off", "on"} /\ spinning = (motor = "on") /\ rings = 0
    /\ since_ok = "none" /\ fresh_thread = TRUE
    /\ published = [last |-> 0, times |-> 0]

-----------------------------------------------------------------------------
(* Commands written to the device, with the history since the last good    *)
(* data: "none", "ended" (end_lidar written), "restarted" (then started).  *)
(* A command that is lost leaves the device as it is.                      *)
Reaches(state) == spinning' \in {state} \cup (IF LossyCommands THEN {spinning} ELSE {})

WriteEndLidar ==
    /\ motor' = "off" /\ Reaches(FALSE)
    /\ since_ok' = "ended"

WriteStartLidar ==
    /\ motor' = "on" /\ Reaches(TRUE)
    /\ since_ok' = IF since_ok = "ended" THEN "restarted" ELSE since_ok

Restart(timers) == elapsed' = elapsed \ timers

(* judge_lidar_state before it waits for the device to settle; a mutant    *)
(* forgets that the device must be started again.                          *)
SettleOnly == Restart({"status"}) /\ UNCHANGED wait_speed_right
Settle == Restart({"status"}) /\ wait_speed_right' = FALSE

(* Locker::lock without a timeout; a mutant gives it one and ignores the   *)
(* result, as every caller does.                                           *)
LockOrGiveUp(thread) == lock' = IF lock = "free" THEN thread ELSE lock
Lock(thread) == lock = "free" /\ lock' = thread

(* Time passes. *)
Elapse(t) ==
    /\ t \notin elapsed
    /\ elapsed' = elapsed \cup {t}
    /\ UNCHANGED <<ownerVars, serialVars, statusVars, grabVars, sharedVars, pubVars,
                   deviceVars, rings>>

-----------------------------------------------------------------------------
(* The owner *)

(* activate_grab_thread up to the start of the thread, whose locals are    *)
(* fresh; lidar_status_time = 0 is long ago.                               *)
ActivateGrab ==
    /\ owner = "idle" /\ activations < MaxActivations
    /\ activations' = activations + 1
    /\ IF serial_connected
       THEN /\ skip_grab' = FALSE
            /\ grab' = "top"
            /\ wait_speed_right' = FALSE /\ scan_count' = 0 /\ scan_head' = 0
            /\ fresh_thread' = TRUE
            /\ elapsed' = elapsed \cup {"status"}
            /\ owner' = "spawned"
       ELSE /\ owner' = "grabbing"
            /\ UNCHANGED <<skip_grab, grab, localVars, elapsed>>
    /\ UnchangedByOwner
    /\ UNCHANGED <<serial_open, ownerStatus, publish, skip_publish, publisher, deviceVars>>

(* The end of activate_grab_thread: the thread is already running. *)
SetReady ==
    /\ owner = "spawned"
    /\ lidar_ready' = TRUE
    /\ owner' = "grabbing"
    /\ UnchangedByOwner
    /\ UNCHANGED <<activations, serial_open, lidar_last_status, close_lidar,
                   lidar_trap_restart, elapsed, grab, skip_grab, localVars, publish,
                   skip_publish, publisher, deviceVars>>

ActivatePublish ==
    /\ owner = "grabbing"
    /\ owner' = "up"
    /\ IF serial_connected
       THEN skip_publish' = FALSE /\ publisher' = "active" /\ publish' = "warmup"
       ELSE UNCHANGED <<skip_publish, publisher, publish>>
    /\ UnchangedByOwner
    /\ UNCHANGED <<activations, serial_open, ownerStatus, elapsed, grab, skip_grab,
                   localVars, deviceVars>>

(* deactivate_publish_thread, up to the join. *)
StopPublish ==
    /\ owner = "up"
    /\ skip_publish' = TRUE
    /\ owner' = "joinPublish"
    /\ UnchangedByOwner
    /\ UNCHANGED <<activations, serial_open, ownerStatus, elapsed, grab, skip_grab,
                   localVars, publish, publisher, deviceVars>>

(* A join waits for the end of the thread; a mutant detaches it instead.   *)
Detached(place, next) == next = place
Joined(place, next) == place \in {"none", "done"} /\ next = "none"

(* The join, then deactivate_scan_publisher. *)
JoinPublish ==
    /\ owner = "joinPublish" /\ Joined(publish, publish')
    /\ publisher' = "inactive"
    /\ owner' = "published"
    /\ UnchangedByOwner
    /\ UNCHANGED <<activations, serial_open, ownerStatus, elapsed, grab, skip_grab,
                   localVars, skip_publish, deviceVars>>

(* deactivate_grab_thread, up to the join. *)
StopGrab ==
    /\ owner = "published"
    /\ IF serial_connected
       THEN owner' = "joinGrab" /\ skip_grab' = TRUE
       ELSE owner' = "idle" /\ UNCHANGED skip_grab
    /\ UnchangedByOwner
    /\ UNCHANGED <<activations, serial_open, ownerStatus, elapsed, grab, localVars,
                   publish, skip_publish, publisher, deviceVars>>

(* The join of the grab thread, then the status reset and end_lidar. *)
JoinGrab ==
    /\ owner = "joinGrab" /\ Joined(grab, grab')
    /\ close_lidar' = TRUE /\ lidar_ready' = FALSE /\ lidar_last_status' = FALSE
    /\ lidar_trap_restart' = FALSE
    /\ WriteEndLidar
    /\ owner' = "idle"
    /\ UnchangedByOwner
    /\ UNCHANGED <<activations, serial_open, elapsed, skip_grab, localVars, publish,
                   skip_publish, publisher>>

(* The destructor: that of the derived class drops the publisher, then the *)
(* base class stops and joins whatever thread is left.                     *)
Destroy ==
    /\ owner = "idle"
    /\ publisher' = "destroyed"
    /\ skip_grab' = TRUE
    /\ owner' = "dtorGrab"
    /\ UnchangedByOwner
    /\ UNCHANGED <<activations, serial_open, ownerStatus, elapsed, grab, localVars,
                   publish, skip_publish, deviceVars>>

DtorJoinGrab ==
    /\ owner = "dtorGrab" /\ Joined(grab, grab')
    /\ skip_publish' = TRUE
    /\ owner' = "dtorPublish"
    /\ UnchangedByOwner
    /\ UNCHANGED <<activations, serial_open, ownerStatus, elapsed, skip_grab, localVars,
                   publish, publisher, deviceVars>>

DtorJoinPublish ==
    /\ owner = "dtorPublish" /\ Joined(publish, publish')
    /\ serial_open' = FALSE
    /\ lidar_ready' = FALSE /\ close_lidar' = TRUE
    /\ owner' = "destroyed"
    /\ UnchangedByOwner
    /\ UNCHANGED <<activations, lidar_last_status, lidar_trap_restart, elapsed, grab,
                   skip_grab, localVars, skip_publish, publisher, deviceVars>>

-----------------------------------------------------------------------------
(* The grab thread: judge_lidar_state, wait_scan_data, then the scan. *)

GrabTop ==
    /\ grab = "top"
    /\ grab' = IF skip_grab THEN "done" ELSE "status"
    /\ UnchangedByJudge
    /\ UNCHANGED <<lidar_last_status, close_lidar, lidar_trap_restart, elapsed,
                   wait_speed_right, deviceVars>>

(* judge_lidar_state reads lidar_ready twice: in the test ... *)
JudgeStatus ==
    /\ grab = "status"
    /\ grab' = IF lidar_ready # lidar_last_status \/ close_lidar
               THEN "changed" ELSE "trap"
    /\ UnchangedByJudge
    /\ UNCHANGED <<lidar_last_status, close_lidar, lidar_trap_restart, elapsed,
                   wait_speed_right, deviceVars>>

(* ... and in the assignment; the owner may have set it in between. *)
JudgeChanged ==
    /\ grab = "changed"
    /\ close_lidar' = FALSE
    /\ lidar_last_status' = lidar_ready
    /\ Settle
    /\ grab' = "trap"
    /\ UnchangedByJudge
    /\ UNCHANGED <<lidar_trap_restart, deviceVars>>

JudgeTrap ==
    /\ grab = "trap"
    /\ grab' = "start"
    /\ IF lidar_trap_restart
       THEN /\ lidar_trap_restart' = FALSE
            /\ Settle
            /\ WriteEndLidar
       ELSE UNCHANGED <<lidar_trap_restart, wait_speed_right, elapsed, deviceVars>>
    /\ UnchangedByJudge
    /\ UNCHANGED <<lidar_last_status, close_lidar>>

(* The start branch, up to the write to the device; the caller flushes and *)
(* delays when the device is not started.                                  *)
JudgeStart ==
    /\ grab = "start"
    /\ IF lidar_ready /\ ~wait_speed_right
       THEN IF "status" \in elapsed /\ Version \in StartVersions
            THEN grab' = "starting" /\ UNCHANGED elapsed
            ELSE grab' = "top" /\ Restart({"freq", "system"})
       ELSE /\ grab' = IF wait_speed_right THEN "wait" ELSE "top"
            /\ UNCHANGED elapsed
    /\ UnchangedByJudge
    /\ UNCHANGED <<lidar_last_status, close_lidar, lidar_trap_restart, wait_speed_right,
                   deviceVars>>

StartLidar ==
    /\ grab = "starting"
    /\ WriteStartLidar
    /\ wait_speed_right' = TRUE
    /\ Restart({"freq", "system"})
    /\ grab' = "wait"
    /\ UnchangedByJudge
    /\ UNCHANGED <<lidar_last_status, close_lidar, lidar_trap_restart>>

(* tim_scan_start is set once, tim_scan_end by every later ring start; a   *)
(* mutant moves the start instead.                                         *)
RingRestart(t, now) == [t EXCEPT !.start = now]
RingStart(t, now) ==
    IF t.start = 0 THEN [t EXCEPT !.start = now] ELSE [t EXCEPT !.end = now]

(* A full local_scan keeps overwriting its last entry.                     *)
Appended(count, n) == IF count + n < ScanCapacity THEN count + n ELSE ScanCapacity - 1

(* What a device that does not turn sends.                                 *)
Silence == [ok |-> FALSE, sync |-> FALSE, bad |-> FALSE, plain |-> 0]

(* Three seconds without data: restart once, then stuck.  A mutant goes on *)
(* in silence.                                                             *)
TryRestart ==
    /\ lidar_restart_try' = TRUE /\ lidar_trap_restart' = TRUE
    /\ UNCHANGED lidar_abnormal_state
ReportStuck ==
    /\ lidar_abnormal_state' = lidar_abnormal_state \cup {1}
    /\ UNCHANGED <<lidar_restart_try, lidar_trap_restart>>
NoReport == UNCHANGED <<lidar_restart_try, lidar_trap_restart, lidar_abnormal_state>>
NoDataUnreported ==
    \/ "system" \in elapsed /\ ~lidar_restart_try /\ TryRestart
    \/ ("system" \notin elapsed \/ lidar_restart_try) /\ NoReport
NoData ==
    \/ "system" \notin elapsed /\ NoReport
    \/ "system" \in elapsed /\ ~lidar_restart_try /\ TryRestart
    \/ "system" \in elapsed /\ lidar_restart_try /\ ReportStuck

(* After the call: the nodes, up to the sync node that completes a scan    *)
(* begun by another one.                                                   *)
WaitScanData ==
    /\ grab = "wait"
    /\ \E b \in IF spinning THEN Batch ELSE {Silence} :
         LET seen == (IF b.bad THEN 1 ELSE 0) + (IF b.sync THEN 1 ELSE 0)
             tim1 == IF b.bad THEN RingStart(tim, rings + 1) ELSE tim
         IN /\ rings + seen <= MaxRings
            /\ rings' = rings + seen
            /\ tim' = IF b.sync THEN RingStart(tim1, rings + seen) ELSE tim1
            /\ IF b.ok
               THEN /\ lidar_restart_try' = FALSE
                    /\ Restart({"system"})
                    /\ since_ok' = "none"
                    /\ UNCHANGED <<lidar_trap_restart, lidar_abnormal_state>>
               ELSE NoData /\ UNCHANGED <<elapsed, since_ok>>
            /\ IF b.sync /\ scan_head = 0
               THEN scan_head' = rings + seen /\ scan_count' = 1
               ELSE /\ scan_count' = Appended(scan_count, b.plain)
                    /\ UNCHANGED scan_head
            /\ grab' = IF b.sync /\ scan_head # 0 THEN "freq" ELSE "top"
    /\ UnchangedByGrab
    /\ UNCHANGED <<lidar_last_status, close_lidar, wait_speed_right, fresh_thread,
                   sharedVars, motor, spinning>>

(* The rotation frequency of the completed scan, good or abnormal. *)
CheckFrequency ==
    /\ grab = "freq"
    /\ grab' = "lock"
    /\ \/ Restart({"freq"}) /\ UNCHANGED lidar_abnormal_state
       \/ /\ lidar_abnormal_state' = IF "freq" \in elapsed
                                     THEN lidar_abnormal_state \cup {2}
                                     ELSE lidar_abnormal_state
          /\ UNCHANGED elapsed
    /\ UnchangedByGrab
    /\ UNCHANGED <<lidar_last_status, close_lidar, lidar_trap_restart, lidar_restart_try,
                   localVars, tim, sharedVars, deviceVars, rings>>

GrabLock ==
    /\ grab = "lock"
    /\ Lock("grab")
    /\ grab' = "copy"
    /\ UnchangedByHandOver
    /\ UNCHANGED <<scan_count, scan_head, fresh_thread, tim, bufVars, is_signalled>>

(* The times and the memcpy; the scan just read ends with the last ring. *)
CopyScan ==
    /\ grab = "copy"
    /\ scan_time' = tim
    /\ tim' = [tim EXCEPT !.start = tim.end]
    /\ scan_node_buf' = [head |-> scan_head, last |-> rings, len |-> scan_count,
                         first |-> fresh_thread]
    /\ grab' = "count"
    /\ UnchangedByHandOver
    /\ UNCHANGED <<scan_count, scan_head, fresh_thread, lock, scan_node_count, is_signalled>>

(* Event::set, which leaves an event that is set as it is. *)
Signal == is_signalled' = TRUE

(* scan_node_count_ and data_event_.set(). *)
SetEvent ==
    /\ grab = "count"
    /\ scan_node_count' = scan_count
    /\ Signal
    /\ grab' = "unlock"
    /\ UnchangedByHandOver
    /\ UNCHANGED <<scan_count, scan_head, fresh_thread, tim, lock, scan_node_buf, scan_time>>

(* The unlock; the sync node becomes the first node of the next scan. *)
GrabUnlock ==
    /\ grab = "unlock"
    /\ lock' = "free"
    /\ scan_head' = rings /\ scan_count' = 1 /\ fresh_thread' = FALSE
    /\ grab' = "top"
    /\ UnchangedByHandOver
    /\ UNCHANGED <<tim, bufVars, is_signalled>>

-----------------------------------------------------------------------------
(* The publish thread *)

Warmup ==
    /\ publish = "warmup"
    /\ publish' = "top"
    /\ UNCHANGED <<lock, is_signalled, outscan, published>> /\ UnchangedByPublish

PublishTop ==
    /\ publish = "top"
    /\ publish' = IF skip_publish THEN "done" ELSE "wait"
    /\ UNCHANGED <<lock, is_signalled, outscan, published>> /\ UnchangedByPublish

(* The event resets itself when it is taken; a mutant does not. *)
StaySignalled == UNCHANGED is_signalled
AutoReset == is_signalled' = FALSE

(* Event::wait: a signalled event is taken at once ... *)
WaitEvent ==
    /\ publish = "wait"
    /\ publish' = IF is_signalled THEN "check" ELSE "blocked"
    /\ AutoReset
    /\ UNCHANGED <<lock, outscan, published>> /\ UnchangedByPublish

(* ... or pthread_cond_timedwait returns 0: signalled, the event is taken; *)
(* woken spuriously, the assertion on _is_signalled aborts the process ... *)
Wake ==
    /\ publish = "blocked" /\ is_signalled
    /\ publish' = "check"
    /\ AutoReset
    /\ UNCHANGED <<lock, outscan, published>> /\ UnchangedByPublish

SpuriousWake ==
    /\ SpuriousWakeups
    /\ publish = "blocked" /\ ~is_signalled
    /\ publish' = "aborted"
    /\ UNCHANGED <<lock, is_signalled, outscan, published>> /\ UnchangedByPublish

(* ... or it times out, which leaves a signal that came too late.  Mutants: *)
(* the late signal is dropped; the wait has no timeout.                    *)
TimeoutDrops ==
    /\ publish = "blocked"
    /\ publish' = "top"
    /\ is_signalled' = FALSE
    /\ UNCHANGED <<lock, outscan, published>> /\ UnchangedByPublish

NoTimeout == publish = "blocked" /\ FALSE /\ UNCHANGED vars

Timeout ==
    /\ publish = "blocked"
    /\ publish' = "top"
    /\ UNCHANGED <<lock, is_signalled, outscan, published>> /\ UnchangedByPublish

(* check_data_synchronization after EVENT_OK. *)
CheckLock ==
    /\ publish = "check"
    /\ Lock("publish")
    /\ publish' = "checked"
    /\ UNCHANGED <<is_signalled, outscan, published>> /\ UnchangedByPublish

(* An empty buffer returns with lock_ still held. *)
CheckCount ==
    /\ publish = "checked"
    /\ IF scan_node_count = 0
       THEN publish' = "top" /\ UNCHANGED lock
       ELSE publish' = "parse" /\ lock' = "free"
    /\ UNCHANGED <<is_signalled, outscan, published>> /\ UnchangedByPublish

ParseLock ==
    /\ publish = "parse"
    /\ Lock("publish")
    /\ publish' = "read"
    /\ UNCHANGED <<is_signalled, outscan, published>> /\ UnchangedByPublish

(* parse_lidar_serial_data: too large a scan leaves outscan unset. *)
ParseScan ==
    /\ publish = "read"
    /\ outscan' = [filled |-> 0 < scan_node_count /\ scan_node_count < MaxScanNodes,
                   count |-> scan_node_count, nodes |-> scan_node_buf,
                   time |-> scan_time]
    /\ publish' = "unlock"
    /\ UNCHANGED <<lock, is_signalled, published>> /\ UnchangedByPublish

ParseUnlock ==
    /\ publish = "unlock"
    /\ lock' = "free"
    /\ publish' = "publish"
    /\ UNCHANGED <<is_signalled, outscan, published>> /\ UnchangedByPublish

(* publish_scan, of a filled scan or not; outscan ends with the iteration. *)
PublishScan ==
    /\ publish = "publish"
    /\ publish' = "top"
    /\ outscan' = EmptyOutscan
    /\ published' = [last  |-> outscan.nodes.head,
                     times |-> IF outscan.nodes.head = published.last
                               THEN published.times + 1 ELSE 1]
    /\ UNCHANGED <<lock, is_signalled>> /\ UnchangedByPublish

-----------------------------------------------------------------------------
Owner == \/ ActivateGrab \/ SetReady \/ ActivatePublish \/ StopPublish \/ JoinPublish
         \/ StopGrab \/ JoinGrab \/ Destroy \/ DtorJoinGrab \/ DtorJoinPublish

GrabThread == \/ GrabTop \/ JudgeStatus \/ JudgeChanged \/ JudgeTrap \/ JudgeStart
              \/ StartLidar \/ WaitScanData \/ CheckFrequency \/ GrabLock \/ CopyScan
              \/ SetEvent \/ GrabUnlock

PublishThread == \/ Warmup \/ PublishTop \/ WaitEvent \/ Wake \/ SpuriousWake \/ Timeout
                 \/ CheckLock \/ CheckCount \/ ParseLock \/ ParseScan \/ ParseUnlock
                 \/ PublishScan

(* The process has ended; its last state repeats. *)
Halted ==
    /\ owner = "destroyed" \/ publish = "aborted"
    /\ UNCHANGED vars

Next ==
    \/ publish # "aborted" /\ (Owner \/ GrabThread \/ PublishThread \/ \E t \in Timers : Elapse(t))
    \/ Halted

Spec == Init /\ [][Next]_vars

(* Threads are scheduled, sleeps and timed waits end, the delays that are  *)
(* waited for run out, and a call of the owner, once begun, goes on; the owner may   *)
(* stay up for ever.  Fairness of the threads is strong because lock_ is   *)
(* free for a whole rotation between two grabs: who wants it gets it.      *)
Fairness ==
    /\ SF_vars(GrabThread) /\ SF_vars(PublishThread)
    /\ WF_vars(Elapse("status")) /\ WF_vars(Elapse("system"))
    /\ WF_vars(SetReady \/ ActivatePublish \/ JoinPublish \/ StopGrab \/ JoinGrab
               \/ DtorJoinGrab \/ DtorJoinPublish)

FairSpec == Spec /\ Fairness

-----------------------------------------------------------------------------
(* Properties *)

ScanType == [head : Nat, last : Nat, len : 0..ScanCapacity - 1, first : BOOLEAN]
TimeType == [start : Nat, end : Nat]

OwnerTypes ==
    /\ owner \in {"idle", "spawned", "grabbing", "up", "joinPublish", "published",
                  "joinGrab", "dtorGrab", "dtorPublish", "destroyed"}
    /\ activations \in Nat
    /\ serial_connected \in BOOLEAN /\ serial_open \in BOOLEAN
    /\ skip_grab \in BOOLEAN /\ skip_publish \in BOOLEAN
    /\ publisher \in {"inactive", "active", "destroyed"}

StatusTypes ==
    /\ lidar_ready \in BOOLEAN /\ lidar_last_status \in BOOLEAN
    /\ close_lidar \in BOOLEAN
    /\ lidar_trap_restart \in BOOLEAN /\ lidar_restart_try \in BOOLEAN
    /\ lidar_abnormal_state \subseteq {1, 2}
    /\ elapsed \subseteq Timers
    /\ motor \in {"off", "on"} /\ spinning \in BOOLEAN
    /\ since_ok \in {"none", "ended", "restarted"}

GrabTypes ==
    /\ grab \in {"none", "top", "status", "changed", "trap", "start", "starting",
                 "wait", "freq", "lock", "copy", "count", "unlock", "done"}
    /\ wait_speed_right \in BOOLEAN /\ fresh_thread \in BOOLEAN
    /\ scan_count \in 0..ScanCapacity - 1
    /\ scan_head \in Nat /\ rings \in Nat
    /\ tim \in TimeType

BufferTypes ==
    /\ lock \in {"free", "grab", "publish"}
    /\ is_signalled \in BOOLEAN
    /\ scan_node_buf \in ScanType
    /\ scan_node_count \in 0..ScanCapacity - 1
    /\ scan_time \in TimeType

PublishTypes ==
    /\ publish \in {"none", "warmup", "top", "wait", "blocked", "aborted", "check",
                    "checked", "parse", "read", "unlock", "publish", "done"}
    /\ outscan \in [filled : BOOLEAN, count : 0..ScanCapacity - 1, nodes : ScanType,
                     time : TimeType]
    /\ published \in [last : Nat, times : Nat]

\* Every variable has its type; in particular a scan never outgrows local_scan
\* or scan_node_buf_, whatever the number of nodes before a sync node.
TypeOK == OwnerTypes /\ StatusTypes /\ GrabTypes /\ BufferTypes /\ PublishTypes

\* lock_ is held exactly by the thread inside a critical section.  The early
\* return of check_data_synchronization that keeps lock_ would leave it held by
\* a thread outside: it is never taken, because the event is set only after a
\* scan with at least one node.
LockHeldInside ==
    /\ lock = "grab"    <=> grab \in {"copy", "count", "unlock"}
    /\ lock = "publish" <=> publish \in {"checked", "read", "unlock"}

\* A scan that is published has the node count, the nodes and the end time of
\* one and the same rotation, although the count was checked in another
\* critical section; it is left unfilled only when it had MAX_SCAN_NODES nodes
\* or more.
PublishedScanIsWhole ==
    publish = "publish" =>
        /\ outscan.count = outscan.nodes.len
        /\ outscan.time.end = outscan.nodes.last
        /\ outscan.nodes.head # 0 /\ outscan.nodes.head < outscan.nodes.last
        /\ outscan.filled \/ outscan.count >= MaxScanNodes

\* The scan duration that is published starts at the ring that started the
\* scan, except for the first scan of an activation, whose tim_scan_start is
\* left over from before.
ScanTimeSpansTheScan ==
    publish = "publish" =>
        outscan.nodes.first \/ outscan.time.start = outscan.nodes.head

\* After deactivate_grab_thread returns the last command the device was given
\* is end_lidar: no start from the grab thread comes after it.
MotorOffWhenDeactivated ==
    serial_connected /\ activations > 0 /\ owner \in {"idle", "dtorGrab", "dtorPublish",
                                                     "destroyed"}
        => motor = "off"

\* The grab thread waits for scan data only from a device whose last command
\* is start_lidar, across status changes, restarts and activations.
WaitsOnStartedDevice == grab = "wait" => motor = "on"

\* When the grab thread can report "Detected lidar stuck" (restart already
\* tried, waiting for data) the device has been stopped and started since its
\* last good data, even when the try is left over from an earlier activation.
StuckMeansPowerCycled ==
    grab = "wait" /\ lidar_restart_try => since_ok = "restarted"

\* Scans are published in the order they were grabbed, and none more than
\* twice, also over a deactivation that leaves data_event_ signalled.
PublishedInOrder ==
    [][\/ published'.last > published.last
       \/ published'.last = published.last /\ published'.times <= 2]_published

\* The assertion of Event::wait (locker.hpp:192) never fails.
EventAssertHolds == publish # "aborted"

\* The handler implements the mailbox.
Mailbox == INSTANCE ScanMailbox WITH
    latest      <- scan_node_buf.head,
    unannounced <- grab = "count",
    pending     <- is_signalled,
    serving     <- publish \in {"check", "checked", "parse", "read"},
    fetched     <- IF publish \in {"unlock", "publish"} THEN outscan.nodes.head
                                                       ELSE published.last

\* The buffer, the event and the two critical sections together are a mailbox
\* for the latest scan.
ImplementsMailbox == Mailbox!Spec

\* Every deactivation and destruction that is begun returns: no join waits for
\* ever.
StopCompletes ==
    /\ owner = "joinPublish" ~> owner = "published"
    /\ owner = "joinGrab" ~> owner = "idle"
    /\ owner = "dtorGrab" ~> owner = "destroyed"

\* A scan whose event is set is published, or a later one is, unless the owner
\* stops the publish thread: no wakeup is lost.
SignalledScanIsPublished ==
    \A n \in 1..MaxRings :
        owner = "up" /\ is_signalled /\ scan_node_buf.head = n
            ~> published.last >= n \/ owner # "up"

\* The device of an activated handler comes to turn, or is reported stuck: one
\* lost start_lidar is made good by the restart, which is tried only once.
DeviceStarted ==
    owner = "up" /\ lidar_ready ~> spinning \/ 1 \in lidar_abnormal_state \/ owner # "up"
=============================================================================
