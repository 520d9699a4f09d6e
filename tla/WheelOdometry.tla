---------------------------- MODULE WheelOdometry ----------------------------
(***************************************************************************)
(* The path of the wheel positions through the TurtleBot3 control process: *)
(* OpenCR board -> DynamixelSDKWrapper::read_data_ -> JointState::publish  *)
(* -> topic joint_states -> Odometry, with the two services that reset the *)
(* pose (reset, which sleeps inside the executor, and reset_odometry).     *)
(*                                                                         *)
(* Both nodes are spun by one SingleThreadedExecutor (node_main.cpp:56), so *)
(* a callback is one action; only Reset::command, which sleeps while the   *)
(* robot keeps moving, is split.  Wheel positions are encoder ticks.  The  *)
(* pose is kept in the two coordinates the code accumulates linearly:      *)
(* s, the sum of both wheels' ticks (delta_s up to the constant r/2), and  *)
(* theta, in ticks of the wheel difference or in IMU heading units.        *)
(***************************************************************************)
EXTENDS Integers, Sequences, FiniteSets

CONSTANTS
    UseImu,        \* parameter odometry.use_imu (TRUE in param/*.yaml)
    QueueDepth,    \* KeepLast(10) of the publisher and of the subscriber
    StartTicks,    \* bound: the encoders start in 0 .. StartTicks
    MaxMoves,      \* bound: moves of the robot (so no int32_t overflows)
    HalfTurn,      \* heading units in half a turn
    MaxRequests    \* bound: reset_odometry requests waiting in the executor

ASSUME OdometryAssumption ==
    /\ UseImu \in BOOLEAN
    /\ QueueDepth \in Nat \ {0}
    /\ StartTicks \in Nat
    /\ MaxMoves \in Nat
    /\ HalfTurn \in Nat \ {0}
    /\ MaxRequests \in Nat

VARIABLES
    encoder,               \* true wheel positions, on the board
    yaw,                   \* heading given by the board's IMU, in Headings
    moves,                 \* how often the robot has moved
    read_data,             \* DynamixelSDKWrapper::read_data_: last good read
    last_position,         \* joint_state.cpp:27 (static)
    last_diff_position,    \* joint_state.cpp:27 (static)
    joint_states,          \* messages of the topic not handled yet
    last_joint_positions,  \* odometry.cpp:225 (static)
    timed,                 \* odometry.cpp:134/155: last_time has been set
    robot_pose,            \* robot_pose_
    last_theta,            \* odometry.cpp:251 (static)
    theta_initialized,     \* last_theta_initialized_
    executor,              \* what the executor's thread is doing
    odom_requests,         \* reset_odometry requests not served yet
    \* History, read by no action:
    started_at,            \* encoder when the control process started
    startup_read,          \* the first read_data_set (turtlebot3.cpp:205) worked
    covered,               \* per wheel, the positions between its extremes
    pose_origin,           \* joint position at which the pose was last zero
    theta_origin           \* IMU heading at which theta was last zero

boardVars == <<encoder, yaw, moves, covered>>
jointVars == <<read_data, last_position, last_diff_position>>
thetaVars == <<last_theta, theta_initialized, theta_origin>>
odomVars  == <<last_joint_positions, timed, robot_pose, thetaVars, pose_origin>>
startVars == <<started_at, startup_read>>
vars == <<boardVars, jointVars, joint_states, odomVars, executor,
          odom_requests, startVars>>

Wheels    == {"left", "right"}
Positions == [Wheels -> Int]
Headings  == (1 - HalfTurn) .. HalfTurn      \* atan2f of the orientation

Zero      == [w \in Wheels |-> 0]
Sum(p)    == p["left"] + p["right"]
Turned(p) == p["right"] - p["left"]
Minus(p, q) == [w \in Wheels |-> p[w] - q[w]]

-----------------------------------------------------------------------------
(* The constructors.  The encoders are where the board left them; the      *)
(* first read may fail, and then read_data_ still holds its zeros.         *)
Init ==
    /\ encoder \in [Wheels -> 0 .. StartTicks]
    /\ yaw \in Headings
    /\ moves = 0
    /\ startup_read \in BOOLEAN
    /\ read_data = IF startup_read THEN [position |-> encoder, imu |-> yaw]
                                   ELSE [position |-> Zero, imu |-> 0]
    /\ last_position = read_data.position
    /\ last_diff_position = Zero
    /\ joint_states = <<>>
    /\ last_joint_positions = Zero
    /\ timed = FALSE
    /\ robot_pose = [s |-> 0, theta |-> 0]
    /\ last_theta = 0
    /\ theta_initialized = FALSE
    /\ executor = "idle"
    /\ odom_requests = 0
    /\ started_at = encoder
    /\ covered = [w \in Wheels |-> {encoder[w]}]
    /\ pose_origin = Zero
    /\ theta_origin = 0

-----------------------------------------------------------------------------
(* The robot.                                                              *)

\* A wheel moves one tick; the control process does not notice.
Drive ==
    /\ moves < MaxMoves
    /\ moves' = moves + 1
    /\ \E w \in Wheels, d \in {-1, 1} :
          /\ encoder' = [encoder EXCEPT ![w] = @ + d]
          /\ covered' = [covered EXCEPT ![w] = @ \cup {encoder[w] + d}]
    /\ UNCHANGED <<yaw, jointVars, joint_states, odomVars, executor,
                   odom_requests, startVars>>

\* The headings one unit to the left and to the right of h, on the circle.
Neighbours(h) == {IF h = HalfTurn THEN 1 - HalfTurn ELSE h + 1,
                  IF h = 1 - HalfTurn THEN HalfTurn ELSE h - 1}

\* The robot turns by one heading unit.
Turn ==
    /\ moves < MaxMoves
    /\ moves' = moves + 1
    /\ UseImu
    /\ yaw' \in Neighbours(yaw)
    /\ UNCHANGED <<encoder, covered, jointVars, joint_states, odomVars,
                   executor, odom_requests, startVars>>

-----------------------------------------------------------------------------
(* The turtlebot3 node.                                                    *)

\* read_data_set: read_data_ keeps its old value when the read fails.
ReadDataSet(ok) ==
    read_data' = IF ok THEN [position |-> encoder, imu |-> yaw] ELSE read_data

\* JointState::publish adds the motion since the previous publication.
Moved(position) ==
    [w \in Wheels |-> last_diff_position[w] + (position[w] - last_position[w])]

\* A KeepLast queue drops its oldest message to take a new one.
Sent(queue, msg) ==
    IF Len(queue) < QueueDepth THEN Append(queue, msg)
                               ELSE Append(Tail(queue), msg)

\* JointState::publish sends a message on every timer tick.
PublishedOnChange(position, msg) ==                                \* mutant
    IF position # last_position THEN Sent(joint_states, msg) ELSE joint_states
Published(position, msg) == Sent(joint_states, msg)

\* The publish timer: read_data_set, then every sensor publishes what
\* read_data_ holds, fresh or not.  JointState publishes last_diff_position
\* before it adds the motion just read.
PublishTimer(ok) ==
    /\ executor = "idle"
    /\ ReadDataSet(ok)
    /\ joint_states' = Published(read_data'.position,
                          [position |-> last_diff_position, imu |-> read_data'.imu])
    /\ last_diff_position' = Moved(read_data'.position)
    /\ last_position' = read_data'.position
    /\ UNCHANGED <<boardVars, odomVars, executor, odom_requests, startVars>>

\* Reset::command up to its sleep of five seconds: nothing else runs.
ResetCommand ==
    /\ executor = "idle"
    /\ executor' = "calibrating"
    /\ UNCHANGED <<boardVars, jointVars, joint_states, odomVars, odom_requests,
                   startVars>>

\* The end of the sleep: the service is asked to reset the pose, unless
\* wait_for_service gave up after one second.
CalibrationEnd ==
    /\ executor = "calibrating"
    /\ executor' = "idle"
    /\ odom_requests' \in {odom_requests, odom_requests + 1}
    /\ odom_requests' <= MaxRequests
    /\ UNCHANGED <<boardVars, jointVars, joint_states, odomVars, startVars>>

\* Any other client of reset_odometry.
RequestOdomReset ==
    /\ odom_requests < MaxRequests
    /\ odom_requests' = odom_requests + 1
    /\ UNCHANGED <<boardVars, jointVars, joint_states, odomVars, executor,
                   startVars>>

-----------------------------------------------------------------------------
(* The diff_drive_controller node.                                         *)

\* The first joint state: last_time is initialised from it, step_time is 0
\* and calculate_odometry returns after the positions were remembered.
FirstJointState ==
    /\ executor = "idle"
    /\ joint_states # <<>>
    /\ ~timed
    /\ timed' = TRUE
    /\ last_joint_positions' = Head(joint_states).position
    /\ pose_origin' = Head(joint_states).position
    /\ joint_states' = Tail(joint_states)
    /\ UNCHANGED <<boardVars, jointVars, robot_pose, thetaVars, executor,
                   odom_requests, startVars>>

\* calculate_odometry: delta_s from both wheels ...
DeltaS(msg) == Sum(Minus(msg.position, last_joint_positions))

\* ... and the heading from the IMU if it is used, else from the wheels.
Theta(msg) ==
    IF UseImu THEN msg.imu ELSE Turned(Minus(msg.position, last_joint_positions))

DeltaThetaUninitialized(msg) ==                                    \* mutant
    IF UseImu THEN Theta(msg) - last_theta ELSE Theta(msg)
DeltaTheta(msg) ==
    IF UseImu
    THEN IF theta_initialized THEN Theta(msg) - last_theta ELSE 0
    ELSE Theta(msg)

\* Every later joint state (with its IMU message when use_imu).
JointStateCallback ==
    /\ executor = "idle"
    /\ joint_states # <<>>
    /\ timed
    /\ LET msg == Head(joint_states)
       IN /\ last_joint_positions' = msg.position
          /\ robot_pose' = [s     |-> robot_pose.s + DeltaS(msg),
                            theta |-> robot_pose.theta + DeltaTheta(msg)]
          /\ last_theta' = Theta(msg)
          /\ theta_initialized' = (theta_initialized \/ UseImu)
          /\ theta_origin' = IF UseImu /\ ~theta_initialized
                             THEN msg.imu ELSE theta_origin
    /\ joint_states' = Tail(joint_states)
    /\ UNCHANGED <<boardVars, jointVars, timed, pose_origin, executor,
                   odom_requests, startVars>>

\* The approximate-time synchronizer may find no IMU message for the oldest
\* joint state and drop it.
Unpaired ==
    /\ executor = "idle"
    /\ UseImu
    /\ joint_states # <<>>
    /\ joint_states' = Tail(joint_states)
    /\ UNCHANGED <<boardVars, jointVars, odomVars, executor, odom_requests,
                   startVars>>

\* Odometry::reset_odometry_callback: the pose and the velocity, nothing else.
ResetOdometryForgets ==                                            \* mutant
    /\ executor = "idle"
    /\ odom_requests > 0
    /\ odom_requests' = odom_requests - 1
    /\ robot_pose' = [s |-> 0, theta |-> 0]
    /\ last_joint_positions' = Zero
    /\ last_theta' = 0
    /\ pose_origin' = last_joint_positions
    /\ theta_origin' = last_theta
    /\ UNCHANGED <<boardVars, jointVars, joint_states, timed,
                   theta_initialized, executor, startVars>>
ResetOdometryDropped ==                                            \* mutant
    /\ executor = "idle"
    /\ odom_requests > 0
    /\ odom_requests' = odom_requests - 1
    /\ UNCHANGED <<boardVars, jointVars, joint_states, odomVars, executor,
                   startVars>>
ResetOdometry ==
    /\ executor = "idle"
    /\ odom_requests > 0
    /\ odom_requests' = odom_requests - 1
    /\ robot_pose' = [s |-> 0, theta |-> 0]
    /\ pose_origin' = last_joint_positions
    /\ theta_origin' = last_theta
    /\ UNCHANGED <<boardVars, jointVars, joint_states, last_joint_positions,
                   timed, last_theta, theta_initialized, executor, startVars>>

Next ==
    \/ Drive \/ Turn
    \/ \E ok \in BOOLEAN : PublishTimer(ok)
    \/ ResetCommand \/ CalibrationEnd \/ RequestOdomReset
    \/ FirstJointState \/ JointStateCallback \/ Unpaired \/ ResetOdometry

Spec == Init /\ [][Next]_vars

\* The executor serves every callback that became ready before it waits
\* again, so a callback ready again and again is run, although reset calls
\* can occupy the thread in between; the sleep ends; and the serial link
\* does not fail for ever (an assumption about the board).
Fairness ==
    /\ SF_vars(PublishTimer(TRUE))
    /\ SF_vars(FirstJointState)
    /\ SF_vars(JointStateCallback)
    /\ SF_vars(ResetOdometry)
    /\ WF_vars(CalibrationEnd)

FairSpec == Spec /\ Fairness

-----------------------------------------------------------------------------
(* Properties.                                                             *)

JointStates == [position : Positions, imu : Headings]

\* The types of all variables, and the bound of the topic's queue.
TypeOK ==
    /\ encoder \in Positions /\ yaw \in Headings /\ moves \in 0 .. MaxMoves
    /\ read_data \in [position : Positions, imu : Headings]
    /\ last_position \in Positions /\ last_diff_position \in Positions
    /\ joint_states \in Seq(JointStates) /\ Len(joint_states) <= QueueDepth
    /\ last_joint_positions \in Positions /\ timed \in BOOLEAN
    /\ robot_pose \in [s : Int, theta : Int]
    /\ last_theta \in Int /\ theta_initialized \in BOOLEAN
    /\ (UseImu => last_theta \in Headings)
    /\ executor \in {"idle", "calibrating"}
    /\ odom_requests \in 0 .. MaxRequests
    /\ started_at \in Positions /\ startup_read \in BOOLEAN
    /\ covered \in [Wheels -> SUBSET Int]
    /\ pose_origin \in Positions /\ theta_origin \in Int

\* Joint positions that are on their way to the odometry or have reached it.
Reported ==
    {last_joint_positions, last_diff_position} \cup
    {joint_states[i].position : i \in 1 .. Len(joint_states)}

\* If the first read worked, whatever reads fail and whatever messages are
\* dropped later, every wheel position JointState reports or the odometry
\* remembers is one the wheel really had since the start: joint_state.cpp's
\* differences neither lose a tick nor count one twice.
OdometryWithinTravel ==
    startup_read =>
        \A p \in Reported, w \in Wheels : p[w] + started_at[w] \in covered[w]

\* The pose is the wheel motion since pose_origin, the position of the first
\* joint state handled or of the last one before the latest reset: no
\* motion between two handled messages is lost or counted twice, also when
\* messages between them were dropped and when the reset came in between.
PoseMatchesWheels ==
    /\ robot_pose.s = Sum(last_joint_positions) - Sum(pose_origin)
    /\ ~UseImu =>
          robot_pose.theta = Turned(last_joint_positions) - Turned(pose_origin)

\* With the IMU the heading is the IMU's turn since the latest reset, or
\* since the first heading used, however many messages were dropped.
HeadingFollowsImu ==
    UseImu =>
        robot_pose.theta = IF theta_initialized THEN last_theta - theta_origin ELSE 0

\* The wheel positions JointState counts from.  If the first read failed
\* they are 0 and the robot seems to have moved by started_at.
Baseline == IF startup_read THEN started_at ELSE Zero

PositionsOf(queue) == [i \in 1 .. Len(queue) |-> queue[i].position]

\* The positions on their way to the odometry: those of the topic, then the
\* one that is published next.
Sampled == Append(PositionsOf(joint_states), last_diff_position)

Meter == INSTANCE Odometer WITH
    place     <- Minus(encoder, Baseline),
    sampled   <- Sampled,
    shown     <- last_joint_positions,
    started   <- timed,
    origin    <- pose_origin,
    travelled <- robot_pose.s

\* JointState's differences, the topic and calculate_odometry's sums together
\* are an odometer: whatever reads fail, messages are dropped and resets come
\* in, the odometry shows places where both wheels were at one time, in the
\* order the robot came to them, and the pose is the way from the origin to
\* the last of them.
ImplementsOdometer == Meter!Spec

\* When the robot has stopped (it moves at most MaxMoves times), the odometry
\* comes to report the position it stopped at and stays there: the motion
\* that JointState publishes one cycle late is published all the same,
\* whatever reads fail and messages are dropped.
StopIsReported == <>[](last_joint_positions = Minus(encoder, Baseline))

\* A requested reset of the pose takes place, although the executor is
\* blocked by calibrations and busy with other callbacks.
ResetServed == odom_requests > 0 ~> robot_pose = [s |-> 0, theta |-> 0]

\* What odometry.cpp:296 says of robot_vel_[2], which is DeltaTheta over the
\* step time: the angular velocity is the turn the robot made in the step,
\* the smallest one that leads from one heading to the next.
SmallestTurn(from, to) ==
    CHOOSE k \in Headings : (k - (to - from)) % (2 * HalfTurn) = 0
AngularVelocityIsTheTurn ==
    [][JointStateCallback /\ UseImu /\ theta_initialized =>
          DeltaTheta(Head(joint_states)) = SmallestTurn(last_theta, last_theta')]_vars
=============================================================================
