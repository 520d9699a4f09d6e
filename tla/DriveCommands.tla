---------------------------- MODULE DriveCommands ----------------------------
(***************************************************************************)
(* What the turtlebot3 node writes to the OpenCR board: velocities from    *)
(* topic cmd_vel, the services motor_power, sound and reset, the profile   *)
(* acceleration and the heartbeat.  One executor thread runs all callbacks *)
(* (node_main.cpp:56), so a callback is one action; the constructor and    *)
(* Reset::command sleep five seconds in that thread and are split there.   *)
(*                                                                         *)
(* A velocity command is named by its number among the published ones.  A  *)
(* write may be done, may be lost with its instruction packet (or refused  *)
(* by the board), or may be done and unanswered: the status packet is lost *)
(* and set_data_to_device reports a failure.                               *)
(***************************************************************************)
EXTENDS Naturals, Sequences

CONSTANTS
    QueueDepth,      \* KeepLast(10) of cmd_vel
    HeartbeatRange,  \* values of the uint8_t heartbeat counter: 256
    MaxCommands      \* bound: velocity commands that are published

ASSUME DriveAssumption ==
    /\ QueueDepth \in Nat \ {0}
    /\ HeartbeatRange \in Nat \ {0, 1}
    /\ MaxCommands \in Nat

VARIABLES
    executor,    \* what the thread is doing: construction, then callbacks
    published,   \* number of the latest command published on cmd_vel
    cmd_vel,     \* the subscription's queue
    registers,   \* the board's control table, as far as the node writes it
    count,       \* heartbeat_timer, static
    requests,    \* per service, the request that waits in the executor
    answers,     \* per service, the latest answer
    \* History, read by no action:
    unsure       \* latest command whose write was reported to have failed

serviceVars == <<requests, answers>>
cmdVars     == <<published, cmd_vel, unsure>>
vars == <<executor, cmdVars, registers, count, serviceVars>>

Services  == {"motor_power", "sound"}
Registers == Services \cup {"velocity", "acceleration", "heartbeat"}
Values    == 0 .. 1             \* SetBool, two sounds, two accelerations
Outcomes  == {"done", "lost", "unanswered"}
NoRequest == 2
NoAnswer  == [asked |-> NoRequest, success |-> FALSE]

-----------------------------------------------------------------------------
(* set_data_to_device, write_register.                                     *)

\* COMM_SUCCESS and no error in the status packet.
Succeeded(outcome) == outcome = "done"

Write(register, value, outcome) ==
    registers' = IF outcome = "lost" THEN registers
                                     ELSE [registers EXCEPT ![register] = value]

-----------------------------------------------------------------------------
(* The constructor of TurtleBot3.                                          *)

Init ==
    /\ executor = "connecting"
    /\ published = 0 /\ cmd_vel = <<>>
    /\ registers = [r \in Registers |-> 0]
    /\ count = 0
    /\ requests = [s \in Services |-> NoRequest]
    /\ answers = [s \in Services |-> NoAnswer]
    /\ unsure = 0

\* check_device_status: without a board the constructor throws and main ends;
\* else the gyro is calibrated, whatever became of that write.
Connect(ok) ==
    /\ executor = "connecting"
    /\ executor' = IF ok THEN "starting" ELSE "failed"
    /\ UNCHANGED <<cmdVars, registers, count, serviceVars>>

\* The rest of the constructor, up to run, which creates the timers and the
\* subscriptions.
Run ==
    /\ executor = "starting"
    /\ executor' = "idle"
    /\ UNCHANGED <<cmdVars, registers, count, serviceVars>>

-----------------------------------------------------------------------------
(* Topic cmd_vel.                                                          *)

\* Twist or TwistStamped, as enable_stamped_cmd_vel says: one subscription.
KeepFirst(queue, command) ==                                       \* mutant
    IF Len(queue) < QueueDepth THEN Append(queue, command) ELSE queue
KeepLast(queue, command) ==
    IF Len(queue) < QueueDepth THEN Append(queue, command)
                               ELSE Append(Tail(queue), command)

\* Somebody publishes a command; before the node runs nobody receives it.
PublishCommand ==
    /\ published < MaxCommands
    /\ executor \in {"idle", "calibrating"}
    /\ published' = published + 1
    /\ cmd_vel' = KeepLast(cmd_vel, published')
    /\ UNCHANGED <<executor, unsure, registers, count, serviceVars>>

\* cmd_vel_callback: both velocities and the zeros between them in one write,
\* whose result is only logged.
CmdVelRetried(outcome) ==                                          \* mutant
    /\ executor = "idle" /\ cmd_vel # <<>>
    /\ Write("velocity", Head(cmd_vel), outcome)
    /\ cmd_vel' = IF Succeeded(outcome) THEN Tail(cmd_vel)
                  ELSE KeepLast(Tail(cmd_vel), Head(cmd_vel))
    /\ unsure' = IF Succeeded(outcome) THEN unsure ELSE Head(cmd_vel)
    /\ UNCHANGED <<executor, published, count, serviceVars>>
CmdVelCallback(outcome) ==
    /\ executor = "idle" /\ cmd_vel # <<>>
    /\ Write("velocity", Head(cmd_vel), outcome)
    /\ cmd_vel' = Tail(cmd_vel)
    /\ unsure' = IF Succeeded(outcome) THEN unsure ELSE Head(cmd_vel)
    /\ UNCHANGED <<executor, published, count, serviceVars>>

-----------------------------------------------------------------------------
(* The services.                                                           *)

Request(service, value) ==
    /\ requests[service] = NoRequest
    /\ executor \in {"idle", "calibrating"}
    /\ requests' = [requests EXCEPT ![service] = value]
    /\ UNCHANGED <<executor, cmdVars, registers, count, answers>>

\* MotorPower::command and Sound::command answer what became of the write.
CommandAlwaysSucceeds(service, outcome) ==                         \* mutant
    /\ executor = "idle" /\ requests[service] # NoRequest
    /\ Write(service, requests[service], outcome)
    /\ answers' = [answers EXCEPT ![service] =
                      [asked |-> requests[service], success |-> TRUE]]
    /\ requests' = [requests EXCEPT ![service] = NoRequest]
    /\ UNCHANGED <<executor, cmdVars, count>>
Command(service, outcome) ==
    /\ executor = "idle" /\ requests[service] # NoRequest
    /\ Write(service, requests[service], outcome)
    /\ answers' = [answers EXCEPT ![service] =
                      [asked |-> requests[service], success |-> Succeeded(outcome)]]
    /\ requests' = [requests EXCEPT ![service] = NoRequest]
    /\ UNCHANGED <<executor, cmdVars, count>>

\* Reset::command starts a calibration, whatever became of the write, and
\* sleeps: the robot keeps the velocity it was given.
ResetCommand ==
    /\ executor = "idle"
    /\ executor' = "calibrating"
    /\ UNCHANGED <<cmdVars, registers, count, serviceVars>>

\* After the sleep it answers "Odom reset requested" and calls the service
\* reset_odometry if it finds it within a second (see WheelOdometry).
CalibrationEndFlushes ==                                           \* mutant
    /\ executor = "calibrating"
    /\ executor' = "idle"
    /\ cmd_vel' = <<>>
    /\ UNCHANGED <<published, unsure, registers, count, serviceVars>>
CalibrationEnd ==
    /\ executor = "calibrating"
    /\ executor' = "idle"
    /\ UNCHANGED <<cmdVars, registers, count, serviceVars>>

-----------------------------------------------------------------------------
(* Timers and parameters.                                                  *)

\* heartbeat_timer: the counter moves on also when its write fails.
HeartbeatTimer(outcome) ==
    /\ executor = "idle"
    /\ Write("heartbeat", count, outcome)
    /\ count' = (count + 1) % HeartbeatRange
    /\ UNCHANGED <<executor, cmdVars, serviceVars>>

\* motors.profile_acceleration was changed: both wheels in one write.
ParameterEvent(value, outcome) ==
    /\ executor = "idle"
    /\ Write("acceleration", value, outcome)
    /\ UNCHANGED <<executor, cmdVars, count, serviceVars>>

Callback ==
    \/ ResetCommand
    \/ \E outcome \in Outcomes :
          \/ CmdVelCallback(outcome) \/ HeartbeatTimer(outcome)
          \/ \E s \in Services : Command(s, outcome)
          \/ \E v \in Values : ParameterEvent(v, outcome)

Next ==
    \/ (\E ok \in BOOLEAN : Connect(ok)) \/ Run \/ CalibrationEnd
    \/ PublishCommand
    \/ \E s \in Services, v \in Values : Request(s, v)
    \/ Callback

Spec == Init /\ [][Next]_vars

\* The executor serves every callback that is ready before it waits again,
\* although calibrations occupy it in between; every sleep ends.
Fairness ==
    /\ WF_vars(Run) /\ WF_vars(CalibrationEnd)
    /\ SF_vars(\E outcome \in Outcomes : CmdVelCallback(outcome))

FairSpec == Spec /\ Fairness

-----------------------------------------------------------------------------
(* Properties.                                                             *)

\* The types of the variables and the bound of the queue.
TypeOK ==
    /\ executor \in {"connecting", "failed", "starting", "idle", "calibrating"}
    /\ published \in 0 .. MaxCommands /\ unsure \in 0 .. published
    /\ cmd_vel \in Seq(1 .. published) /\ Len(cmd_vel) <= QueueDepth
    /\ registers \in [Registers -> Nat]
    /\ count \in 0 .. HeartbeatRange - 1
    /\ requests \in [Services -> Values \cup {NoRequest}]
    /\ answers \in [Services -> [asked : Values \cup {NoRequest}, success : BOOLEAN]]

\* The robot never goes back to an older velocity than the one it has, not
\* even while the commands that piled up during a calibration are written in
\* a burst, or after failed writes (turtlebot3.cpp:367 does not retry).
CommandsInOrder == [][registers'["velocity"] >= registers["velocity"]]_vars

\* When no command waits the robot has the latest one, or the write of that
\* one was reported to have failed: whatever the queue dropped was older, and
\* a stop command is lost only with its own write.
LatestCommandHolds ==
    cmd_vel = <<>> => published \in {registers["velocity"], unsure}

\* A command that is not followed by another reaches the robot or is reported
\* to have failed, although the thread sleeps through calibrations.
LastCommandArrives ==
    \A n \in 1 .. MaxCommands :
        published = n ~> published # n \/ n \in {registers["velocity"], unsure}

\* A client of motor_power or sound that was told of success may rely on it:
\* the board has the value until another request is served.  (A client
\* that was told of a failure knows nothing: the write may have been done.)
AnswerIsTrue ==
    \A s \in Services : answers[s].success => registers[s] = answers[s].asked
=============================================================================
