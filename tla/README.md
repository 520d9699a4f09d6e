# Verification of the lane_length_pkg robot software

TLA+ models, TLC runs and TLAPS proofs about the C++ and Arduino code of this
repository: the two lidar drivers, the TurtleBot3 control node with its
odometry and its commands, the localization node and the LED firmware. Paths below are relative
to `src/lane_length_pkg/`; a line such as `odometry.cpp:277` is a line of the
file of that name. `PROJECT.json` maps every definition to the lines it models.

## 1. Inventory

```
 lidar --serial--> coin_d4_driver  (grab thread | publish thread) --/scan--+
 lidar --serial--> ld08_driver     (receive thread | main loop)   --/scan--+
                                                                           v
 OpenCR <--serial--> turtlebot3_node --/joint_states,/imu--> odometry --/odom--> localization_slam
                       ^   ^   |  +--reset_odometry (service)---^          (EKF, map, map->odom TF)
                  /cmd_vel reset (service)
 serial console --> LED firmware
```

| Component | State it keeps | Operations | What is hard |
|---|---|---|---|
| **A. Coin D4 handler** `drivers/coin_d4_driver/src/coin_d4_base_handler.cpp`, `coin_d4_lifecycle_handler.cpp`, `locker.hpp` | hardware status flags, `local_scan`, the shared scan buffer with count and times, an auto-reset event, a lock, two threads, the publisher | construct, activate, deactivate, destroy; one iteration of the grab thread (`judge_lidar_state`, `wait_scan_data`, hand-over) and of the publish thread | three threads; status flags without synchronisation; a count checked and read in two critical sections; an early return that keeps the lock; timeouts racing signals; restart of a stuck device; state left over from the last activation |
| A'. Coin D4 protocol `lidar_data_processor.cpp` | position in a package, package index, checksums, ring times | `wait_package`, `wait_scan_data` | damaged and interrupted packages, resynchronisation |
| A''. serial port, timer `serial_port.cpp`, `timer.cpp`, `mtime.cpp` | descriptor, `is_open_`, the tty's settings, deadlines | `open`, `close`, `waitForData`, `read_data`, `write_data` | an open that fails half-way and is tried again; a remaining time taken before `pselect` and used after it; signals; a member time-out hidden by a local one |
| **B. LD08 driver** `drivers/ld08_driver/src/lipkg.cpp`, `main.cpp`, `cmd_interface_linux.cpp` | bytes and points not assembled, the `LaserScan` output, the flag `mIsFrameReady`, the port and its thread | `Parse`, `AssemblePacket`, `ToLaserscan`, the polling loop, `Open`, `Close` | output and flag shared without a lock; lost packets; rotations cut by an angle test; frames emptied by the filters |
| **C. TurtleBot3 odometry path** `src/control_cpp/turtlebot3.cpp`, `dynamixel_sdk_wrapper.cpp`, `sensors/joint_state.cpp`, `odometry.cpp`, `devices/reset.cpp`, `node_main.cpp` | the last register snapshot, positions and their differences, the pose and four function statics, the executor's thread | the publish timer, both joint state callbacks, the services `reset` and `reset_odometry` | failed reads, dropped messages, a one-cycle lag, a five-second sleep in the only executor thread, resets between messages, wrap of the heading |
| C'. TurtleBot3 commands `turtlebot3.cpp`, `devices/motor_power.cpp`, `devices/sound.cpp`, `devices/reset.cpp` | registers of the board, the queue of `cmd_vel`, the heartbeat counter | `cmd_vel`, motor power, sound, heartbeat, parameter events, the blocking reset | writes that fail unnoticed or are done and not answered, commands queued behind a blocked executor |
| C''. other sensors `sensors/imu.cpp`, `battery_state.cpp`, `sensor_state.cpp` | none | publish | none: registers copied into messages |
| **D. Localization** `src/perception_cpp/localization_slam.cpp` | EKF pose and covariance, last scan, odometry and its predecessor, log-odds grid | `odom_cb`, `scan_cb`, `imu_cb`, the timers `localization_step` and `publish_map` | lost, late and reset odometry; a scan used again by every timer tick; two places that undo the lidar's mounting; ray tracing and clamping at the map's edge. One thread (`rclcpp::spin`) runs all callbacks, so that `publish_map`, which reads `has_scan_` without the mutex, races with nothing. `imu_yaw_rate_` is stored and never used, although line 2 of the file says the node fuses `/imu` |
| **E. LED firmware** `firmware/led_pattern_controller/led_pattern_controller.ino` | five LEDs, an unfinished mask | one character at a time | an unfinished mask swallows later commands |
| F. Lane nodes, launch files, parameters, URDF | - | - | the Python nodes `README.md` describes are not in the repository |

What makes each one correct:

* **A**: lock discipline; a published scan is one rotation with its own count
  and time; scans are published in order and no announced one is lost; the
  device is started after it settled, power cycled before it is called stuck,
  and off once deactivated; deactivation returns.
* **B**: frames neither lose nor repeat points and join no two rotations unless
  points were lost; a frame is published, whole and once, unless one thread overtakes
  the other; a shutdown ends.
* **C**: whatever reads fail, messages are dropped and resets come in, the pose
  is the motion since its origin; a stop is reported in the end; a requested
  reset takes place; the velocity is that of the step.
* **A'**: nodes come from undamaged packages, once and in order; after damage or
  a time-out the parser finds its way back; a call returns a batch the grab
  thread can handle.
* **D**: the pose and the transform `map -> odom` stay with the odometry's frame,
  which only corrections move and turn; rays end at their return, cross each cell
  once and stay on their line; cells stay clamped and inside the grid; an obstacle
  on the map is a wall, displaced as far as the pose was wrong.
* **A''**: an open port is set as configured whatever was there before; a wait
  ends in its time, a call returns, and what a wait announced can be read.
* **C'**: the robot gets velocities in order and ends with the latest one unless
  its write was reported to have failed; a service that answers success is right.
* **E**: the LEDs show the last complete command; a repeated pattern is shown
  whatever a broken mask swallowed.

## 2. Plan

| Step | Module | Models | Runs | Theorems |
|---|---|---|---|---|
| done | `LidarHandler`, abstract `ScanMailbox`, `LidarHandlerProofs` | A | `lidar_safety`, `lidar_liveness`, `lidar_spurious` | all safety properties, refinement |
| done | `LidarPackets` over `LidarBatch`, `LidarPacketsProofs` | A' | `lidar_packets` | all properties |
| done | `SerialPort`, `SerialPortProofs` | A'' | `serial_port` | types, settings, waits, reads |
| done | `Ld08Driver`, `Ld08DriverProofs` | B, from the port to the topic | `ld08_frames` | all safety properties |
| done | `WheelOdometry`, abstract `Odometer`, `WheelOdometryProofs` | C | `odometry`, `odometry_heading` | types, travel, pose, heading, refinement |
| done | `DriveCommands`, `DriveCommandsProofs` | C' | `commands` | types, order, latest command, answers |
| done | `GridRay`, `TraceRay` | D, the ray loop | `trace_ray` | types, rectangle, line, cells drawn (in `LocalizationProofs`) |
| done | `Localization`, `LocalizationProofs` | D | `localization` | types, pose, transform, map |
| done | `LedController`, `LedControllerProofs` | E | `led` | types, last command, repeated patterns |

`LidarPackets` composes with `LidarHandler` through `LidarBatch`: the handler
takes any batch that module allows, and the parser is shown to give no other.
`SerialPort` shows what `LidarPackets` takes for granted: that a successful
`waitForData` means the bytes can be read, and that every wait ends.
`Localization` draws with `GridRay`, whose rays `TraceRay` shows to be those of
the loop. `DriveCommands` and `WheelOdometry` share the executor: both have the
five seconds of `Reset::command` in which no callback runs, each sees the
callbacks of the other as time that passes.

## 3. The models

### LidarHandler (component A) and ScanMailbox

One action is the code between two points at which another thread can notice a
difference. `owner`, `grab` and `publish` are the places of the three threads:
the owner runs `activate_grab_thread` (`ActivateGrab`, `SetReady`: the ready
flag is set after the thread runs), `activate_publish_thread`, the two
deactivations (stop request, then join) and the destructors (derived class
first). The grab thread is `GrabTop`, `JudgeStatus` and `JudgeChanged` (two
reads of `lidar_ready`), `JudgeTrap`, `JudgeStart`, `StartLidar`, `WaitScanData`,
`CheckFrequency`, `GrabLock`, `CopyScan`, `SetEvent`, `GrabUnlock`; the publish
thread is `Event::wait` (`WaitEvent`, `Wake`, `SpuriousWake`, `Timeout`),
`check_data_synchronization` (`CheckLock`, `CheckCount`),
`parse_lidar_serial_data` (`ParseLock`, `ParseScan`, `ParseUnlock`) and
`PublishScan`. The variables carry the names of the code's fields.

Abstractions: time is the set of delays that have run out (`elapsed`); a scan is
the number of its first ring, of its last ring and its node count; ring times
are ring numbers; the parser returns any batch `wait_scan_data` may return, with
one node in a ring-start package, as the device sends it. Nobody looks at what
`write_data` returned, so a command may be lost where `LossyCommands` says so;
`motor` is the last command, `spinning` what the device does. Data comes from a
turning device only: the handler flushes its input while it waits a second for the
device to settle. The handler is activated again only after it was
deactivated: `SingleCoinD4Node` activates once; the library class
`CoinD4LifecycleHandler` exists for lifecycle nodes, which do so repeatedly. Errors of the pthread calls themselves
(`EVENT_FAILED`) are left out.

The batches are those of module `LidarBatch`, which `LidarPackets` shows the
parser keeps to.

`ScanMailbox` is what the buffer, the event and the lock promise together: a
mailbox of the latest scan. `ImplementsMailbox` is the refinement.

### WheelOdometry (component C) and Odometer

Both nodes run in one `SingleThreadedExecutor` (`node_main.cpp`), so a callback
is an action: `PublishTimer(ok)` (a read that works or fails, then the
publication of last cycle's difference), `FirstJointState` (step time 0, so the
position is remembered and the pose stays), `JointStateCallback`, `Unpaired` (the
synchronizer drops a joint state), `ResetOdometry`. `Reset::command` sleeps in
the executor while the robot keeps moving and is therefore `ResetCommand` and
`CalibrationEnd`. `Drive` and `Turn` are the robot. Positions are encoder ticks,
the pose is kept in the two coordinates the code adds up linearly (sum of wheel
ticks, heading); `x` and `y`, which are `cos` and `sin` of these, are left out.
A message is stamped by a clock that moves on, so that only the first one has
step time 0. The recalibration's own effect on the IMU heading is not modelled.
`started_at`, `startup_read`, `covered`, `pose_origin` and `theta_origin` are
history that no action reads.

`Odometer` is what registers, differences, topic and sums promise together: a lossy
channel that samples places (of both wheels at once) and shows them in order, one
sample late, with the distance from an origin that resets move. It adds nothing up.
`ImplementsOdometer` is the refinement: its `sampled` is the topic and the
difference to be published next, its `place` the encoders less `Baseline`. If the
first read fails the baseline is 0, so the robot seems to begin elsewhere, but
keeps the promise from there. The heading is not in it, since a message
has the positions of one cycle and the heading of the next; `HeadingFollowsImu`
speaks of that.

### LidarPackets (component A')

One thread runs the parser, so an action is what it does between two places
where time may run out: `ReadHeader` reads as many bytes as the header lacks
(`waitForData` returns only when they are there: `Arrived`) and puts each through
the switch of `wait_package`; `ReadSamples` reads the samples, compares the
checksum and makes the first node; `NextSample` makes the others; `Timeout` is a
call that runs out of time, or fails because the port is closed. `Deliver` is the
end of `wait_package` and the test of `wait_scan_data` after it.

A byte is a value below 5 that carries what the parser tests of the real byte
(the two header bytes, the lowest bit, a count) and the place where it was sent.
The place stands for the checksum: sums agree for exactly the bytes of one
package, all there and undamaged. A 16-bit sum that happens to agree for damaged
bytes is therefore left out, and so are samples that look like a header. Also
left out are angles, distances, node indices and `has_package_error_`, which the
grab thread does not test, and `wait_speed_right` and `send_command`, which
nothing calls. `Disturb` is the line: it damages or loses a byte about to be read. Where a package
ends in the stream (`EndOf`), which package a place is in (`PackageAt`) and what is sent
there (`Sent`) are functions of the place; `Searched` is the loop of the search over
the bytes of one read.

`global_recv_buffer_` has 522 bytes (`lidar_data_processor.cpp:53`), and the read of the
samples (`:385-397`) does not compare the count with them: a damaged count of 175 and
more asks for up to 765 bytes where a sample has three. `RecvBufferSize` is that
room and `Overrun` the read that leaves it. What follows is undefined, so the model
ends there, and that the parser finds its way back is claimed only without it. On
the line of the devices with two bytes a sample (`M1C1_Mini_v1`) the largest count
fits and it cannot happen (`NeverOverrun`). Where a version with three bytes a sample
keeps its package in `package_buffer` the room is smaller, 522 bytes with the
header; `RecvBufferSize` stands for whichever is in use.

### Ld08Driver (component B)

The receive thread (`Receive`: a read, the parser, the search for a cut;
`ToLaserscan`; `FrameReady`) and the main loop (`Sleep`, `Poll`, `GetLaserScan`,
`Publish`, `ResetFrameReady`). A point is its number in the stream, its angle
the number modulo `Slots`. Packets with a bad CRC are points that never arrive.
`Filtered` stands for `Transform` and `NearFilter`: which points they drop is
decided by distances and confidences and is left open, point by point, and what
is left is sorted by the right-handed angle. Writing and copying `output` take
time, and a copy that overlaps a write is not `whole`. (Copying a `std::vector` while it is
assigned to is undefined; a mixture of two frames is the outcome modelled.) Nothing holds the receive thread back: `StartFrame`
looks neither at the flag nor at `main`, as in the code, so that frames are written
while the loop copies, or twice before it comes round. The history `late` says
whether the loop had copied the last frame when this one was begun (`Behind`). The loop
runs at 100 Hz and the lidar turns about six times a second, so it usually had; but the loop need
not be slow for it: after a stall of the receive thread the port holds more than
a rotation, and `AssemblePacket` makes a frame of each read.

`CmdInterfaceLinux` is in the same module, since its thread is the receive
thread: `Open` starts the thread and sets `mIsCmdOpened` afterwards (`Opened`), an
`Open` that fails leaves `main` polling without a thread, `Shutdown` is
`rclcpp::ok()` turning false, `Close` and `Join` are `CmdInterfaceLinux::Close`
(exit flag, handle, join). The exit flag is a function of `main`'s place. The
receive thread looks at the exit flag before each read (`RxContinues`) and reads
nothing when the handle is closed (`ReadNothing`). `mIsCmdOpened` is not initialised
before `Open` sets it, so that until then the thread may read or may not. Closing the handle while the thread is about to call
`FD_SET` with it is undefined; `HandleGone` is the outcome a hardened build makes
of it, and the step without it is the other.

### SerialPort (component A'')

One call runs at a time, because the handler joins its threads before it closes
the port. `Open(failing, ...)` is `init_lidar_port` with a new `SerialPort` object,
up to the call that fails; the settings are functions on the tty's flags, one per
`set_` function of the code, applied to whatever the last user left. `Close` is
the destructor's. `WaitForData` returns at once or enters its loop, which is
`Loop` (the remaining time is taken), `SelectReturns` (time-out, signal, error,
enough bytes, or too few), and `WakeUp` after the sleep; `Tick` passes time where
the code sleeps or blocks. `ReadData` reads once and `WriteData` writes once: a local
`Timeout timeout_` hides the member the handler has set, so both time-outs are
zero. `write_data` blocks if the output is full and a millisecond went by before
it asks for the remaining time: -1 ms becomes 2^32 - 1 ms in `timespec_from_ms`.
The tty is external: `Arrive`, `Drain`, `Unplug`. Bytes are counted. The descriptor of an
open that failed stays open, as in the code (`close()` returns at once because
`is_open_` is not set yet). The return value of `setDTR` is ignored by `open` and
has no action.

### DriveCommands (component C')

A callback of the executor is an action: `CmdVelCallback`, `Command` (motor power
and sound), `HeartbeatTimer`, `ParameterEvent`; the constructor is `Connect` and `Run`,
and `Reset::command` is `ResetCommand` and `CalibrationEnd` around its sleep. A
velocity is the number of the command. Each write is done, lost, or done and
unanswered, in which case `set_data_to_device` reports a failure. Before the node
runs nobody receives a command. What the OpenCR does with its registers, such as
stopping when the heartbeat stays away, is firmware outside the repository. A
calibration writes a register of its own (`imu_re_calibration`), which is left out
because nothing reads it.

### LedController (component E)

A turn of `loop` takes one character and is one action, whatever arrives:
`SkipNewline`, `ReadMaskBit`, `RejectMask`, `StartMask`, `ApplyPattern`, `InvalidInput`.
What the LEDs ought to show is computed from the whole input by `Meaning`, which
cuts it into the commands the sketch announces to the host and does not look at
the state of the sketch. The history `text` is that input without its ends of lines.

### GridRay and TraceRay (component D)

`GridRay` has the grid and the step of `trace_ray`; `TraceRay` runs the loop, one
iteration per action, from any cell of the grid to any cell within `Reach`, and
compares its path with `Ray`, which `Localization` uses: the loop comes to each cell
of the ray that is in the grid, to no other and to none twice, and marks only the
last, and that only if the beam returned (`RayIsDrawn`). So `Localization` may say what
`trace_ray` does to each cell of the grid at once (`TraceRay`); the beams of a scan
are drawn one after the other (`Updated`), because log-odds that reach a limit lose
what came before.

### Localization (component D)

One action per callback: `OdomCallback`, `ScanCallback`, `LocalizationStep`
(predict, match, draw, publish) and `PublishMap`. `Drive`, `Turn`, `ResetOdometry`,
`SenseOdometry` and `SenseScan` are the robot, its odometry node and its lidar;
a topic holds the last message until it is handled or replaced, so messages are
late or lost. The node's switches are chosen by `Init` from `Parameters`.

The unit of position is the 0.1 mm below which `ekf_predict` takes no notice of the
direction of a motion; a cell is `Resolution` units, and `WorldToGrid` is the floor
of the code. A beam is an integer vector of any direction, all beams of a lidar of
one length, and ranges count that length, so that a beam may cross many cells and
graze others. Headings are quarter turns, so that a vector turned by one is exact; a
quarter turn also stands for the 0.02 rad by which `scan_match` tries to turn the
pose. `Predicted` has the two cases of `localization_slam.cpp:347-348`: a step of at most one
unit goes forward along the pose's heading, whatever its direction. `scan_match`
tries 27 combinations of `dx`, `dy` and `dtheta` in the order of its loops
(`Trial`) and takes the first of the best. The covariance is left out: what the
update needs of it is the gain, whose cross terms may let each of the three move
all of them; what the gain may make of a shift and a turn is the constant `Gains`, which
the proofs leave open. `imu_cb` is left out because nothing reads what it stores.

`offset`, `slips` and `drawn` are history that no action reads. `offset` is where the
odometry's frame lies on the map: the first message puts it there, and a
correction moves and turns it as it moves and turns the pose. `slips` adds up
the steps that were taken in a direction of their own, and `drawn` has, for each scan on the map,
how the pose it was drawn at differs from the one it was taken at. `taken_at`
says of a scan where the robot was.

That a cell the map calls free holds no wall is not claimed, because it is not so: the
misses of one beam are drawn through cells that another beam's return has
marked, and a ray passes through the corner of cells whose wall the beam passed by.

Two things seen on the way: `lane_pipeline.launch.py` sets `map_frame` to `odom`
although the pose counts from the first odometry message, not from the
odometry's origin; and `scan_match` takes the first of equally good shifts, so
that along a featureless wall it drags a pose that was right (matching is off by
default).

Definitions marked `mutant` stand beside the one they are a wrong version of;
no specification uses them. They document which mistake each property catches.

## 4. Runs

| Run | Shows | Bounds and why they are enough |
|---|---|---|
| `lidar_safety` | lock discipline, whole scans, their times, motor and restart discipline, order of publication, refinement of the mailbox, over two activations, with spurious wakeups | batches of 1, a buffer of 3 and `MaxScanNodes` 2: a rotation overflows the buffer and becomes too large to publish; 4 rings: three scans, one more than buffer and event can hold; 2 activations: leftovers of one meet the next |
| `lidar_liveness` | no join waits for ever, no announced scan is lost; a device that may lose commands comes to turn (one lost start is made good by the restart) or is reported stuck | 1 activation, 2 rings, commands lost at will; no spurious wakeups, since one aborts the process |
| `lidar_spurious` | violation: the assertion in `Event::wait` fails | |
| `lidar_packets` | nodes are genuine and in order, the parser resynchronises unless it wrote past its buffer, batches are those of `LidarBatch` | two streams of 4 and 5 packages with ring starts among them, 2 samples of 3 bytes, a receive buffer of 10 bytes that the wrong count 3 stays within and 4 overruns, batches of 3 that a package overruns, 2 damaged or lost bytes anywhere, 2 time-outs anywhere: a fault in one package and another in the one that follows or in the search between them |
| `serial_port` | an open port is set as configured, waits end in time, announced bytes can be read, calls return | waits for 1 and 3 bytes and for 0, 2 and 7 ticks at 2 ticks a byte: less than a byte, more than a byte, more than all; buffers of 4 and 2 bytes and commands of 2, so that the output is empty, half full and full; every parity, stop bit and flow control, a tty left with no flag or all of them; 2 descriptors: one failed open before a good one |
| `ld08_frames` | points are kept, frames are one rotation unless points were lost; a message mixes two frames or repeats one only if a frame was begun before the loop had copied the last, and the topic never goes back; a frame that is complete while the loop is not between copy and reset is published; a shutdown at any moment ends | points 0 to 7, 3 per rotation, from any angle, reads of up to 2: two cuts and a part of a third rotation with every pattern of lost and invalid points and every speed of the two threads; each exception the properties name does occur: without it the property is violated |
| `commands` | velocities are written in order and the latest holds, answers are true, the last command arrives | a queue of 2 and 4 commands: the queue overflows twice; a counter of 2 values wraps; any number of requests, parameters and calibrations, every outcome of every write |
| `odometry` | with the IMU: the path of the positions is an `Odometer`, the heading is the turn since its origin; after a stop the odometry comes to report the place; a requested reset is done | 2 moves, a queue of 2 that overflows, one reset request at a time, headings of a circle of 4 so that the wrap is crossed |
| `odometry_heading` | violation: crossing the half turn the velocity jumps | 1 move |
| `trace_ray` | the ray loop stays near the line, marks its return, draws the cells `Localization` draws | a grid of 6 x 5 and ends up to 8 cells away: all slopes of that size, and rays that leave the grid |
| `localization` | the pose and the transform stay with the odometry's frame; every obstacle is a wall, displaced as a pose was wrong | a corner of a room on a grid of 6 x 6 cells of 4 units, 3 beams, one along the cells and two across them, of a lidar mounted backwards; moves of 3 units and of 1 backwards, turns, resets of the odometry, 2 in all; 2 scans: a stale one, two from two places on one map; 3 timer ticks: a wall drawn, found again, and a prediction in the frame that the correction turned; 2 outcomes of a correction; 3 sets of parameters, with matching, as launched, and with a map that is cleared and the identity transform. Every beam measures; one that fails (`NaN`) is left to the proofs |
| `led` | the LEDs show the last complete command, a repeated pattern is shown | all inputs of up to 8 characters of 6 kinds: a mask, complete or broken, and the start of what follows |

Properties that are proved for all values of the constants are not always run
again: the `TypeOK` of each module with proofs, `WaitsOnStartedDevice`, `OdometryWithinTravel`,
`PoseMatchesWheels` and `RayStaysInside` are in no run (but that of `Ld08Driver` is, because
it also says a frame is never empty; that of `Localization`, which bounds the log-odds,
held in a TLC run of its own), and the odometry without IMU
(`UseImu = FALSE`) is covered by the proofs alone.

`CHECK_DEADLOCK FALSE` is said of `lidar_packets` and `trace_ray`, where a stream and
a loop end, of `led`, whose input ends at its bound, and of `commands`, where the
process ends if no board answers. In `CleanPackagesArrive` a package counts as clean
if nothing went wrong in it or in the `Swallowed` bytes before it, the largest
package a wrong count can make; with 0, 10 or 12 bytes in its place the property is
violated.

**Fairness.** `LidarHandler`: the operating system schedules both threads; their
fairness is strong because `lock_` is free for a whole rotation between two
hand-overs, so that a thread that wants it gets it (a mutex alone would not
promise that). The second of settling and the three seconds without data run out, and the owner finishes a call it began;
it need not ever call `deactivate`. `WheelOdometry`: the executor serves each
callback that is ready before it waits again, hence strong fairness of the
timer, the topic and the service; the sleep ends; and the serial link does not
fail for ever (`SF(PublishTimer(TRUE))`), an assumption about the board.
`Ld08Driver`: both threads run; the lidar may stop, and nobody need ever shut the
node down. `DriveCommands`: both sleeps end, and the executor comes to every
callback that is ready again and again, hence strong fairness of
`CmdVelCallback`, which calibrations disable in between; nothing is assumed about
the outcome of a write. `SerialPort`: a thread that can go on without a signal goes on
(`Awake`: a blocked call waits for bytes, room or its time and for nothing else), time
passes, and a device with no flow control takes what is sent to it; with
`hardware` or `software` flow control it may hold a write up for ever, so that
`CallReturns` speaks of the ports without it (the handler's is one). `LidarPackets`,
`TraceRay`, `Localization` and `LedController` assume no fairness; their properties are
safety.

## 5. Findings

* **`locker.hpp:192`** `Event::wait` tests its condition with `if`: a spurious
  wakeup of `pthread_cond_timedwait`, which POSIX allows, reaches
  `assert(_is_signalled)` and aborts the driver (no build sets `NDEBUG`).
  Everything else holds with spurious wakeups allowed.
* **`odometry.cpp:277`** the IMU's `delta_theta` is not brought back into half a
  turn, so a small turn across +-pi is published as an angular velocity of about
  2 pi per step, and the position is moved with a heading wrong by pi. The
  heading itself stays right modulo a full turn (`HeadingFollowsImu`).

Remarks that no run is spent on, each seen while modelling:

* `lipkg.hpp:97`: `GetLaserScan` copies `output` without a lock, and `AssemblePacket`
  (`lipkg.cpp:194-196`) fills it again without a look at the flag: a loop that is held up, or
  a receive thread that catches up, makes it copy a message that is being
  overwritten, and a mixture of two frames is published although the flag said
  "Lidar data frame is ready" (`lipkg.hpp:83`). With `published.whole` for an invariant TLC
  finds it in the bounds of `ld08_frames`; `WholeUnlessLate` says that nothing else makes one.
* `main.cpp:84`: a flag that rises between `GetLaserScan` and `ResetFrameReady` is lost and
  its frame not published; `FrameIsPublished` leaves out these two steps of the loop.
* `lidar_data_processor.cpp:385`: the number of bytes read into `global_recv_buffer_` is
  the count of the package times the size of a sample, which the 522 bytes of the
  buffer (`:53`) do not bound for three-byte samples (see `LidarPackets`).
* `localization_slam.cpp:347`: a step of at most 0.1 mm is taken along the heading of the
  pose. A robot that creeps, or whose odometry comes often compared to the timer,
  drifts forward whatever it does, by at most twice these steps
  (`PoseFollowsOdometry`).
* `lipkg.cpp:177`: a frame is cut at the first fall of the angle, so the first frame
  holds a part of a rotation, unlike the comment above it says.
* `serial_port.cpp:322` and `:235`: the local `Timeout timeout_` hides the member, so
  that the two seconds the handler sets are never used (see `SerialPort`); a write
  that finds the output full may block until it drains.
* `serial_port.cpp:628-647`: an `open` that fails after the system call keeps its
  descriptor, since `close()` returns at once while `is_open_` is not set.
* `serial_port.cpp:459`: `set_parity` never clears `CMSPAR`; a tty left with it gives
  mark and space for odd and even. The handler asks for no parity.
* `devices/reset.cpp`: the service answers success whatever became of the write and
  whether or not `reset_odometry` was found.
* `turtlebot3.cpp:101`: `check_device_status` reads `device_status` from the local
  copy of the registers before the first `read_data_set` (`:205`) has filled it, so it
  sees 0 and never warns of motors that are not connected.
* `turtlebot3.cpp:367`: a `cmd_vel` write is not retried; a stop command whose packet
  is lost leaves the robot moving until the next one.

Properties that hold although they look doubtful: the early return of
`check_data_synchronization` that keeps `lock_` is never taken
(`LockHeldInside`); checking and reading the count in two critical sections is
harmless (`PublishedScanIsWhole`); a restart attempt left over from an earlier
activation cannot report a stuck device that was not power cycled
(`StuckMeansPowerCycled`); but a scan may be published twice
(`PublishedInOrder` bounds it), and one left over from an earlier activation is
published after the next.

## 6. Proofs

`LidarHandlerProofs` proves for all buffer sizes, batch sizes, versions,
activations and rings, from `LidarAssumption` alone: `TypeCorrect`, `LockSafe`,
`MotorSafe`, `WaitSafe`, `StuckSafe`, `WholeSafe`, `SpanSafe`, `OrderSafe` and
`MailboxRefined`. They follow from one inductive invariant `IInv`, because none is
inductive by itself:

* `ThreadsFollowOwner`: a thread exists only between its start and its join;
  without it `MotorOffWhenDeactivated` says nothing of a running grab thread.
* `CountedScans`: the event is set only when the buffer has a node; it makes the
  early return with the lock held impossible, which `LockHeldInside` needs.
* `DeviceFollows`: `wait_speed_right` implies a started device, and a restart
  tried is pending, under way or done; `WaitSafe` and `StuckSafe` follow.
* `RingsGrow`: ring numbers grow from the buffer to the scan being collected to
  the last ring; the refinement needs it (a mailbox write is of a later scan);
* `TimesFollowRings`: a completed scan ends with the last ring, and a thread that
  is not new started it at `scan_head`;
* `BufferAgrees`: outside the two statements between the copy and the count, the
  buffer, its count and its times are of one scan. With `LockHeldInside` the
  publish thread never parses between them, which makes `OutscanAgrees`, and with
  it `WholeSafe` and `SpanSafe`, although the count was checked in another section;
* `AtMostTwice`: of the scan in the buffer, the times it was published, is being
  published and is still announced add up to two at most. `OrderSafe` follows.

`WheelOdometryProofs` proves for every queue depth, start, number of moves and
size of the circle `TypeCorrect`, `TravelSafe`, `PoseSafe`, `HeadingSafe` and
`OdometerRefined`, with

* `PoseUntouched`: before the first message the pose is zero;
* `AccumulatorsAgree`: `last_diff_position` is `last_position` less the baseline,
  so that the differences telescope (`MovedFact`). This makes a sample of every
  publication: the place the encoders have, or the last sample again after a failed read;
* `PublishedCovered`: every position on its way is one the wheel had. A read is
  of the present position, which `covered` contains, and a failed one repeats a
  position that was read.

With `PoseMatchesWheels` a message that is taken shows the oldest sample
(`MeterTakes`), and what the full queue or the synchronizer drops is lost
from the front of the samples.

`LocalizationProofs` has three parts. The first proves for every world, lidar and set of
parameters `PoseSafe` and `TransformSafe`. The invariant `IInv` adds to the property what holds
before the first message and the types the rotations need. What makes it inductive:
a correction moves `offset` as it moves the pose, so that the difference of the two
places is only turned and keeps its length (`Moved`, `CorrectionFollows`); a prediction
keeps the difference as it is, but for a step of at most one unit, which adds at most
twice its length (`WrongDirection`, `PredictedFollows`), however often the frame was
turned before; and the transform differs from `offset` as the pose differs from what the odometry
says (`TransformFollows`). The lemmas about quarter turns say that turning by two
headings is turning by their sum.

The second part is about `trace_ray` and proves for every grid and every ray
`RayTypeCorrect`, `InsideSafe`, `LineSafe` and `DrawnSafe`. The invariant that makes them
inductive is `ErrorIsDistance`: `err` is `dx - dy + dx*j - dy*i` after `i` steps along x
and `j` along y. With it the tests of the loop keep the cursor within half a cell of
the line (`Near`), and a cursor so close to the line cannot leave the rectangle before
both ends are reached. Every iteration takes a step along the longer axis, so the
n-th cursor of the loop is the n-th of `Cursors` and no cell comes twice; a ray that
has left the grid does not come back (`StaysOutside`), so that the loop may end there.

The third part proves `MapSafe` and `TypeCorrect`. `MapInv` says that every range of the scan on
its way and of the last one is what the lidar measured where it was taken, or NaN,
and that log-odds are positive only in cells where a wall lies as a scan in `drawn` shows it.
A return drawn from any pose is the wall it came from, displaced as that pose
differs from the one the scan was taken at (`ReturnIsWall`: mounting, pose and the pose of the scan are
turns that add up). One beam raises no cell but that of its return (`BeamKeeps`), since
clamping changes no sign (`ClampedIs`), hence a scan (`UpdatedKeeps`), whatever the
cells the rest of the ray crosses.

What the theorems assume of the constants: the robot starts and stays outside the
walls, a hit does not lower log-odds and a miss does not raise them, and
`log_odds_min <= 0 <= log_odds_max`, as the defaults of the node and the launch file
have it. With other parameters the node would draw walls as free.

`SerialPortProofs` proves for every configuration, flags left over, buffer, count and
time-out `TypeCorrect`, `PortIsSet`, `WaitsEndInTime` and `ReadsAreWhole`. The parts of its `Inv`:
`Punctual` (inside `pselect` the time left is between zero and the time known before
it; a sleep, which ticks shorten together with the time left, ends on time),
`Kept` (announced bytes are there, since only the caller takes them) and
`Inherited` (the one flag that may differ from what the `set_` functions leave is
`CMSPAR`).

`DriveCommandsProofs` proves for every depth of the queue and number of commands
`TypeCorrect`, `LatestHolds`, `InOrder` and `AnswersAreTrue`. `Consecutive` says the queue holds the
latest commands without a gap, `Behind` that the board's velocity is older than all
of them; so a callback never writes an older velocity, and the one that empties
the queue has the latest command in its hands.

`LedControllerProofs` proves for inputs of any length `TypeCorrect`, `RepeatedIsShown` and
`LastCommandIsShown`. A character that is no bit ends a mask at its first coming (`Ends`);
while a mask goes on, a streak of bits is no longer than it (`Fits`), so the sixth
finds none. For the last command the sketch is compared with the text: it is always in
the last command that may have started (`Pending`), every earlier one has ended
(`Parsed`), and `rawMask` holds the bits of that one (`InMask`). A character leaves starts and
ends in the text before it as they were (`EndsKept`, `StartsKept`), so that it completes
that command or none, and the meaning of the text changes as the LEDs do
(`MeaningGrows`).

`Ld08DriverProofs` proves for every length of rotation and stream `TypeCorrect`, `PointsKept`
and `OneRotation`, whatever the loop does, from `FramesInv`: `mFrameTemp` is the end of what
was received and begins at a cut (`TempIsTheEnd`, `BaseIsACut`), frames hold points that
are behind it (`FramedIsBehind`), and all valid points behind it are in a frame, or in a
rotation none of whose points is (`BehindIsFramed`). That the points of a set in order
are a sequence with these points and no others (`InOrderIs`) is proved by the principle
of the least number. `CutDrop < Slots - 1` says that the fall of the angle
at the end of a rotation is large enough to be seen, which it is in the code: points are
less than a degree apart, and the code looks for a fall of more than 350 degrees.

`WholePublished` and `PublishedInOrder` hold for every speed of the two threads. The parts of
their `Inv`: `ThreadIsStarted`, `FlagStays` (the flag stays up until the loop takes it down),
`WrittenBehindIsLate` (what is written while the loop is behind was begun late),
`WholeMessages` (a message that is not whole is being written or was begun late),
`SerialsRise` (published, copied and written frames are in order) and `ShownAgainIsLate`, which
says of a flag over a frame already shown that its frame was begun late. Which points
make a frame plays no part.

`LidarPacketsProofs` proves for every stream of packages, number and size of samples,
number of faults and of time-outs and size of the receive buffer `TypeCorrect`, `NodesGenuine`, `InOrder`, `BatchesExpected` and
`CleanArrive`, up to a read that leaves the buffer, and `NeverOverrun`: there is none if the
largest count fits, as it does for two-byte samples (255 * 2 < 522). A read of the header goes through the search byte by byte, so what holds
between two bytes is a predicate `Parser(h, l, r)` of header, line and count of ring
times, which `ByteStep` shows each byte to keep. Its parts: what was read and what will
be read is in order and, where undamaged, as it was sent (`BytesAre`); the bytes of a
package that gave a node are no longer read (`Passed`), so no package gives its nodes
twice; and every clean package is on its way (`OnTheWay`): it is ahead, or the header is
its beginning, or its nodes are coming, or they are all there. A package that is ahead
stays on its way because no header that was begun before it reaches it (`Harmless`):
what precedes it for the length of the largest package is as sent, and a package
as sent ends where the next begins.

Each invariant was an invariant of a TLC run before it was proved.

Only model-checked: the liveness properties, since fairness and ENABLED are outside
the provers: `StopCompletes`, `SignalledScanIsPublished`, `DeviceStarted`, `FrameIsPublished`,
`ShutdownCompletes`, `StopIsReported`, `ResetServed`, `LastCommandArrives` and `CallReturns`. Every
safety property of a run is proved. That needed some definitions without `SelectSeq`,
`SortSeq` and the folds of the community modules, which are opaque to the provers;
recursive functions over the bytes of a read, the iterations of a ray, the beams of a
scan and the places of a text have a lemma each that they exist (`Iteration`), by
the principle of the least number, as the provers have no induction.

## 7. Not modelled

* What becomes of a Coin D4 that does not get `end_lidar` when the handler is
  deactivated: it turns on, and nothing in the code notices or repairs it.
  `MotorOffWhenDeactivated` is therefore about the last command written.
* `waitReadable` and `waitByteTimes` of the serial port, which no call reaches because
  the time-out of `read_data` is zero; `wait_speed_right` and `send_command` of the
  parser and `twist_publisher.hpp`, which nothing uses.
* The byte level of the LD08: header search and CRC appear as points that never
  arrive. The arithmetic of the filters, the EKF's covariance, `cos` and `sin`,
  message fields.
* The other sensors (C''), which copy registers and may be published before a read
  has filled the buffer they come from.
* ROS parameters beyond the switches of the localization node, launch files and
  URDF; the Python nodes, which are not in the repository; the build, install and
  log directories, which are generated.
