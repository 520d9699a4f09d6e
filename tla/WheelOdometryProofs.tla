------------------------- MODULE WheelOdometryProofs -------------------------
(***************************************************************************)
(* Proofs about WheelOdometry for every value of its constants: any queue  *)
(* depth, any number of moves, failed reads and dropped messages anywhere. *)
(***************************************************************************)
EXTENDS WheelOdometry, TLAPS

-----------------------------------------------------------------------------
(* Helpers.                                                                *)

\* Sums and differences of positions are what arithmetic says they are.
LEMMA PositionFacts ==
    ASSUME NEW p \in Positions, NEW q \in Positions
    PROVE  /\ p["left"] \in Int /\ p["right"] \in Int
           /\ Zero \in Positions
           /\ Minus(p, q) \in Positions
           /\ Sum(p) \in Int /\ Turned(p) \in Int
           /\ Sum(Minus(p, q)) = Sum(p) - Sum(q)
           /\ Turned(Minus(p, q)) = Turned(p) - Turned(q)
BY DEF Positions, Wheels, Zero, Minus, Sum, Turned

\* What JointState adds up is the way from the baseline to the position read.
LEMMA MovedFact ==
    ASSUME NEW p \in Positions, last_position \in Positions, Baseline \in Positions,
           last_diff_position = Minus(last_position, Baseline)
    PROVE  Moved(p) = Minus(p, Baseline)
<1>1. \A w \in Wheels :
         last_diff_position[w] + (p[w] - last_position[w]) = p[w] - Baseline[w]
  <2> TAKE w \in Wheels
  <2>1. p[w] \in Int /\ last_position[w] \in Int /\ Baseline[w] \in Int
    BY DEF Positions
  <2>2. last_diff_position[w] = last_position[w] - Baseline[w]
    BY DEF Minus
  <2> HIDE DEF Baseline
  <2> QED BY <2>1, <2>2
<1> QED BY <1>1 DEF Moved, Minus

LEMMA BaselineType == TypeOK => Baseline \in Positions
BY DEF TypeOK, Baseline, Zero, Positions

LEMMA DepthFact == QueueDepth \in Nat \ {0}
BY OdometryAssumption DEF OdometryAssumption

LEMMA AppendFacts ==
    ASSUME NEW S, NEW rest \in Seq(S), NEW m \in S
    PROVE  /\ Append(rest, m) \in Seq(S)
           /\ Len(Append(rest, m)) = Len(rest) + 1
           /\ \A i \in 1 .. Len(rest) + 1 :
                Append(rest, m)[i] = IF i = Len(rest) + 1 THEN m ELSE rest[i]
OBVIOUS

\* Publishing keeps the queue within its depth, and every message in the
\* queue afterwards is the new one or was there before.
LEMMA SentFacts ==
    ASSUME NEW queue \in Seq(JointStates), Len(queue) <= QueueDepth,
           NEW msg \in JointStates
    PROVE  /\ Sent(queue, msg) \in Seq(JointStates)
           /\ Len(Sent(queue, msg)) <= QueueDepth
           /\ \A i \in 1 .. Len(Sent(queue, msg)) :
                 \/ Sent(queue, msg)[i] = msg
                 \/ \E j \in 1 .. Len(queue) : Sent(queue, msg)[i] = queue[j]
<1>0. QueueDepth \in Nat \ {0}
  BY DepthFact
<1>1. CASE Len(queue) < QueueDepth
  <2>1. Sent(queue, msg) = Append(queue, msg)
    BY <1>1 DEF Sent
  <2> QED BY <1>0, <1>1, <2>1
<1>2. CASE ~(Len(queue) < QueueDepth)
  <2>1. Sent(queue, msg) = Append(Tail(queue), msg)
    BY <1>2 DEF Sent
  <2>2. queue # <<>>
    BY <1>0, <1>2
  <2>3. /\ Tail(queue) \in Seq(JointStates)
        /\ Len(Tail(queue)) = Len(queue) - 1
        /\ \A i \in 1 .. Len(Tail(queue)) : Tail(queue)[i] = queue[i + 1]
    BY <2>2
  <2>4. Len(queue) \in Nat /\ Len(queue) = QueueDepth /\ Len(queue) > 0
    BY <1>0, <1>2
  <2> DEFINE rest == Tail(queue)
  <2>5. /\ Append(rest, msg) \in Seq(JointStates)
        /\ Len(Append(rest, msg)) = Len(rest) + 1
        /\ \A i \in 1 .. Len(rest) + 1 :
             Append(rest, msg)[i] = IF i = Len(rest) + 1 THEN msg ELSE rest[i]
    BY <2>3, AppendFacts
  <2>6. \A i \in 1 .. Len(queue) :
           \/ Append(rest, msg)[i] = msg
           \/ /\ i + 1 \in 1 .. Len(queue)
              /\ Append(rest, msg)[i] = queue[i + 1]
    BY <2>3, <2>4, <2>5
  <2> HIDE DEF rest
  <2> QED BY <2>1, <2>3, <2>4, <2>5, <2>6 DEF rest
<1> QED BY <1>1, <1>2

\* Taking the oldest message.
LEMMA TakenFacts ==
    ASSUME NEW queue \in Seq(JointStates), queue # <<>>
    PROVE  /\ Len(queue) \in Nat
           /\ Head(queue) \in JointStates
           /\ Head(queue).position \in Positions /\ Head(queue).imu \in Headings
           /\ Head(queue) = queue[1] /\ 1 \in 1 .. Len(queue)
           /\ Tail(queue) \in Seq(JointStates)
           /\ Len(Tail(queue)) = Len(queue) - 1
           /\ \A i \in 1 .. Len(Tail(queue)) : \E j \in 1 .. Len(queue) :
                 Tail(queue)[i] = queue[j]
<1>1. Head(queue) \in JointStates /\ Head(queue) = queue[1] /\ 1 \in 1 .. Len(queue)
  OBVIOUS
<1>2. /\ Tail(queue) \in Seq(JointStates)
      /\ Len(Tail(queue)) = Len(queue) - 1
      /\ \A i \in 1 .. Len(Tail(queue)) : Tail(queue)[i] = queue[i + 1]
  OBVIOUS
<1>3. \A i \in 1 .. Len(Tail(queue)) : i + 1 \in 1 .. Len(queue)
  BY <1>2
<1> QED BY <1>1, <1>2, <1>3 DEF JointStates

-----------------------------------------------------------------------------
(* The inductive invariant.                                                *)

\* Before the first joint state is handled the pose is still zero.
PoseUntouched ==
    ~timed => robot_pose.s = 0 /\ (~UseImu => robot_pose.theta = 0)

\* JointState's two accumulators always describe one and the same position,
\* that of the last good read, which with a good first read the wheel passed.
AccumulatorsAgree ==
    /\ last_position = read_data.position
    /\ last_diff_position = Minus(last_position, Baseline)
    /\ startup_read =>
         \A w \in Wheels : encoder[w] \in covered[w] /\ last_position[w] \in covered[w]

PublishedCovered ==
    startup_read =>
        \A w \in Wheels :
           /\ last_joint_positions[w] + started_at[w] \in covered[w]
           /\ \A i \in 1 .. Len(joint_states) :
                joint_states[i].position[w] + started_at[w] \in covered[w]

IInv ==
    /\ TypeOK
    /\ PoseUntouched
    /\ AccumulatorsAgree
    /\ PublishedCovered
    /\ PoseMatchesWheels
    /\ HeadingFollowsImu

-----------------------------------------------------------------------------
(* Type correctness.                                                       *)

LEMMA HeadingFacts ==
    /\ Headings \subseteq Int
    /\ 0 \in Headings
    /\ 1 \in Headings
BY OdometryAssumption DEF OdometryAssumption, Headings

LEMMA InitType == Init => TypeOK
<1> SUFFICES ASSUME Init PROVE TypeOK
  OBVIOUS
<1>1. encoder \in Positions /\ Zero \in Positions
  BY OdometryAssumption DEF Init, Positions, Zero, OdometryAssumption
<1>2. read_data \in [position : Positions, imu : Headings]
  <2>1. CASE startup_read
    BY <1>1, <2>1 DEF Init
  <2>2. CASE ~startup_read
    BY <1>1, <2>2, HeadingFacts DEF Init
  <2> QED BY <2>1, <2>2
<1>3. joint_states \in Seq(JointStates) /\ Len(joint_states) <= QueueDepth
  BY OdometryAssumption DEF Init, OdometryAssumption
<1>4. covered \in [Wheels -> SUBSET Int]
  BY <1>1 DEF Init, Positions
<1>5. yaw \in Headings /\ moves \in 0 .. MaxMoves /\ odom_requests \in 0 .. MaxRequests
  BY OdometryAssumption DEF Init, OdometryAssumption
<1>6. timed \in BOOLEAN /\ theta_initialized \in BOOLEAN /\ startup_read \in BOOLEAN
  BY DEF Init
<1> QED BY <1>1, <1>2, <1>3, <1>4, <1>5, <1>6, HeadingFacts DEF Init, TypeOK

LEMMA TypeStep == TypeOK /\ [Next]_vars => TypeOK'
<1> SUFFICES ASSUME TypeOK, [Next]_vars PROVE TypeOK'
  OBVIOUS
<1> USE DEF boardVars, jointVars, odomVars, thetaVars, startVars
<1>1. CASE Drive
  <2>1. PICK w \in Wheels, d \in {-1, 1} :
           /\ encoder' = [encoder EXCEPT ![w] = @ + d]
           /\ covered' = [covered EXCEPT ![w] = @ \cup {encoder[w] + d}]
    BY <1>1 DEF Drive
  <2>2. encoder' \in Positions /\ encoder[w] + d \in Int
    BY <2>1 DEF TypeOK, Positions
  <2>3. covered' \in [Wheels -> SUBSET Int]
    BY <2>1, <2>2 DEF TypeOK
  <2>4. moves' \in 0 .. MaxMoves
    BY <1>1, OdometryAssumption DEF Drive, TypeOK, OdometryAssumption
  <2> QED BY <1>1, <2>2, <2>3, <2>4 DEF Drive, TypeOK
<1>2. CASE Turn
  <2>1. yaw' \in Headings
    BY <1>2, OdometryAssumption
    DEF Turn, TypeOK, Neighbours, Headings, OdometryAssumption
  <2>2. moves' \in 0 .. MaxMoves
    BY <1>2, OdometryAssumption DEF Turn, TypeOK, OdometryAssumption
  <2> QED BY <1>2, <2>1, <2>2 DEF Turn, TypeOK
<1>3. ASSUME NEW ok \in BOOLEAN, PublishTimer(ok)
      PROVE  TypeOK'
  <2> DEFINE msg == [position |-> last_diff_position, imu |-> read_data'.imu]
  <2>1. read_data' \in [position : Positions, imu : Headings]
    <3>1. CASE ok
      BY <1>3, <3>1 DEF PublishTimer, ReadDataSet, TypeOK
    <3>2. CASE ~ok
      BY <1>3, <3>2 DEF PublishTimer, ReadDataSet, TypeOK
    <3> QED BY <3>1, <3>2
  <2>2. msg \in JointStates
    BY <2>1 DEF TypeOK, JointStates
  <2>3. joint_states' = Sent(joint_states, msg)
    BY <1>3 DEF PublishTimer, ReadDataSet, Published
  <2>4. joint_states' \in Seq(JointStates) /\ Len(joint_states') <= QueueDepth
    BY <2>2, <2>3, SentFacts DEF TypeOK
  <2>5. last_diff_position' \in Positions
    BY <1>3, <2>1 DEF PublishTimer, ReadDataSet, Moved, TypeOK, Positions
  <2> QED BY <1>3, <2>1, <2>4, <2>5 DEF PublishTimer, ReadDataSet, TypeOK
<1>4. CASE ResetCommand
  BY <1>4 DEF ResetCommand, TypeOK
<1>5. CASE CalibrationEnd
  <2>1. odom_requests' \in 0 .. MaxRequests
    BY <1>5, OdometryAssumption DEF CalibrationEnd, TypeOK, OdometryAssumption
  <2> QED BY <1>5, <2>1 DEF CalibrationEnd, TypeOK
<1>6. CASE RequestOdomReset
  <2>1. odom_requests' \in 0 .. MaxRequests
    BY <1>6, OdometryAssumption DEF RequestOdomReset, TypeOK, OdometryAssumption
  <2> QED BY <1>6, <2>1 DEF RequestOdomReset, TypeOK
<1>7. CASE FirstJointState
  <2>1. joint_states' \in Seq(JointStates) /\ Len(joint_states') <= QueueDepth
    BY <1>7, TakenFacts, DepthFact DEF FirstJointState, TypeOK
  <2>2. Head(joint_states).position \in Positions
    BY <1>7, TakenFacts DEF FirstJointState, TypeOK
  <2>3. timed' \in BOOLEAN
    BY <1>7 DEF FirstJointState
  <2> QED BY <1>7, <2>1, <2>2, <2>3 DEF FirstJointState, TypeOK
<1>8. CASE JointStateCallback
  <2> DEFINE msg == Head(joint_states)
  <2>1. /\ joint_states' \in Seq(JointStates) /\ Len(joint_states') <= QueueDepth
        /\ msg \in JointStates /\ msg.position \in Positions /\ msg.imu \in Headings
    BY <1>8, TakenFacts, DepthFact DEF JointStateCallback, TypeOK
  <2>2. DeltaS(msg) \in Int /\ Turned(Minus(msg.position, last_joint_positions)) \in Int
    BY <2>1, PositionFacts DEF DeltaS, TypeOK
  <2>3. Theta(msg) \in Int /\ (UseImu => Theta(msg) \in Headings)
    BY <2>1, <2>2, HeadingFacts DEF Theta
  <2>4. DeltaTheta(msg) \in Int
    BY <2>3 DEF DeltaTheta, TypeOK
  <2>5. robot_pose' \in [s : Int, theta : Int]
    BY <1>8, <2>2, <2>4 DEF JointStateCallback, TypeOK
  <2>6. theta_initialized' \in BOOLEAN
    BY <1>8, OdometryAssumption DEF JointStateCallback, TypeOK, OdometryAssumption
  <2>7. theta_origin' \in Int
    BY <1>8, <2>1, HeadingFacts DEF JointStateCallback, TypeOK
  <2>8. last_theta' = Theta(msg) /\ last_joint_positions' = msg.position
    BY <1>8 DEF JointStateCallback
  <2> QED BY <1>8, <2>1, <2>3, <2>5, <2>6, <2>7, <2>8 DEF JointStateCallback, TypeOK
<1>9. CASE Unpaired
  BY <1>9, TakenFacts, DepthFact DEF Unpaired, TypeOK
<1>10. CASE ResetOdometry
  <2>1. odom_requests' \in 0 .. MaxRequests
    BY <1>10, OdometryAssumption DEF ResetOdometry, TypeOK, OdometryAssumption
  <2> QED BY <1>10, <2>1 DEF ResetOdometry, TypeOK
<1>11. CASE UNCHANGED vars
  BY <1>11 DEF vars, TypeOK
<1> QED BY <1>1, <1>2, <1>3, <1>4, <1>5, <1>6, <1>7, <1>8, <1>9, <1>10, <1>11 DEF Next

-----------------------------------------------------------------------------
(* The invariants.                                                         *)

LEMMA InitInv == Init => IInv
<1> SUFFICES ASSUME Init PROVE IInv
  OBVIOUS
<1>1. TypeOK
  BY InitType
<1>2. \A w \in Wheels : encoder[w] \in Int /\ Zero[w] = 0
  BY <1>1 DEF TypeOK, Positions, Zero
<1>3. AccumulatorsAgree
  <2>1. last_position = Baseline /\ last_position \in Positions
    BY <1>1 DEF Init, Baseline, TypeOK
  <2>2. last_diff_position = Minus(last_position, Baseline)
    BY <2>1 DEF Init, Minus, Zero, Positions
  <2> QED BY <1>2, <2>2 DEF Init, AccumulatorsAgree
<1>4. PublishedCovered
  BY <1>2 DEF Init, PublishedCovered
<1>5. PoseMatchesWheels
  BY DEF Init, PoseMatchesWheels, Sum, Turned, Zero, Wheels
<1> QED BY <1>1, <1>3, <1>4, <1>5 DEF Init, IInv, PoseUntouched, HeadingFollowsImu

\* The steps that change neither the pose nor what it is compared with.
LEMMA PoseFrame ==
    ASSUME IInv, UNCHANGED odomVars
    PROVE  PoseUntouched' /\ PoseMatchesWheels' /\ HeadingFollowsImu'
BY DEF IInv, odomVars, thetaVars, PoseUntouched, PoseMatchesWheels, HeadingFollowsImu

\* The steps that change neither JointState, nor the robot.
LEMMA JointFrame ==
    ASSUME IInv, UNCHANGED <<boardVars, jointVars, startVars>>
    PROVE  AccumulatorsAgree'
BY DEF IInv, boardVars, jointVars, startVars, AccumulatorsAgree, Baseline

\* A wheel that moves keeps every position it had before.
LEMMA DriveStep == IInv /\ Drive => IInv'
<1> SUFFICES ASSUME IInv, Drive PROVE IInv'
  OBVIOUS
<1> USE DEF jointVars, odomVars, thetaVars, startVars
<1>1. TypeOK'
  BY TypeStep DEF IInv, Next
<1>2. PICK w \in Wheels, d \in {-1, 1} :
         /\ encoder' = [encoder EXCEPT ![w] = @ + d]
         /\ covered' = [covered EXCEPT ![w] = @ \cup {encoder[w] + d}]
  BY DEF Drive
<1>3. \A v \in Wheels : covered[v] \subseteq covered'[v]
  BY <1>2 DEF IInv, TypeOK
<1>4. startup_read => \A v \in Wheels : encoder'[v] \in covered'[v]
  BY <1>2 DEF IInv, TypeOK, Positions, AccumulatorsAgree
<1>5. AccumulatorsAgree'
  BY <1>3, <1>4 DEF IInv, AccumulatorsAgree, Baseline, Drive
<1>6. PublishedCovered'
  BY <1>3 DEF IInv, PublishedCovered, Drive
<1>7. PoseUntouched' /\ PoseMatchesWheels' /\ HeadingFollowsImu'
  BY PoseFrame DEF Drive
<1> QED BY <1>1, <1>5, <1>6, <1>7 DEF IInv

LEMMA PublishStep == ASSUME IInv, NEW ok \in BOOLEAN, PublishTimer(ok) PROVE IInv'
<1> DEFINE msg == [position |-> last_diff_position, imu |-> read_data'.imu]
<1>1. TypeOK'
  BY TypeStep DEF IInv, Next
<1>2. last_position' = read_data'.position
  BY DEF PublishTimer, ReadDataSet
<1>3. UNCHANGED <<boardVars, odomVars, startVars>>
  BY DEF PublishTimer, ReadDataSet
<1>4. last_diff_position' = Moved(last_position')
  BY <1>2 DEF PublishTimer, ReadDataSet
<1>5. last_position' = encoder \/ last_position' = last_position
  <2>1. CASE ok
    BY <1>2, <2>1 DEF PublishTimer, ReadDataSet
  <2>2. CASE ~ok
    BY <1>2, <2>2 DEF PublishTimer, ReadDataSet, IInv, AccumulatorsAgree
  <2> QED BY <2>1, <2>2
<1>6. AccumulatorsAgree'
  <2>1. last_diff_position' = Minus(last_position', Baseline)
    BY <1>1, <1>4, MovedFact, BaselineType DEF IInv, TypeOK, AccumulatorsAgree
  <2>2. Baseline' = Baseline
    BY <1>3 DEF Baseline, startVars
  <2>3. startup_read =>
           \A w \in Wheels : encoder[w] \in covered[w] /\ last_position'[w] \in covered[w]
    BY <1>5 DEF IInv, AccumulatorsAgree
  <2> QED BY <1>2, <1>3, <2>1, <2>2, <2>3 DEF AccumulatorsAgree, boardVars, startVars
<1>7. PublishedCovered'
  <2> SUFFICES ASSUME startup_read
               PROVE  \A w \in Wheels :
                         /\ last_joint_positions[w] + started_at[w] \in covered[w]
                         /\ \A i \in 1 .. Len(joint_states') :
                              joint_states'[i].position[w] + started_at[w] \in covered[w]
    BY <1>3 DEF PublishedCovered, boardVars, odomVars, startVars
  <2>1. msg \in JointStates /\ joint_states' = Sent(joint_states, msg)
    BY <1>1 DEF PublishTimer, ReadDataSet, Published, IInv, TypeOK, JointStates
  <2>2. \A i \in 1 .. Len(joint_states') :
           \/ joint_states'[i] = msg
           \/ \E j \in 1 .. Len(joint_states) : joint_states'[i] = joint_states[j]
    <3>1. joint_states \in Seq(JointStates) /\ Len(joint_states) <= QueueDepth
      BY DEF IInv, TypeOK
    <3>2. Sent(joint_states, msg) = joint_states'
      BY <2>1
    <3>3. \A i \in 1 .. Len(Sent(joint_states, msg)) :
             \/ Sent(joint_states, msg)[i] = msg
             \/ \E j \in 1 .. Len(joint_states) :
                   Sent(joint_states, msg)[i] = joint_states[j]
      <4> HIDE DEF msg
      <4>1. msg \in JointStates
        BY <2>1
      <4> QED BY <3>1, <4>1, SentFacts
    <3> QED BY <3>2, <3>3
  <2>3. \A w \in Wheels : msg.position[w] + started_at[w] \in covered[w]
    <3> TAKE w \in Wheels
    <3>1. /\ last_diff_position[w] = last_position[w] - started_at[w]
          /\ last_position[w] \in covered[w]
      BY DEF IInv, AccumulatorsAgree, Baseline, Minus
    <3>2. last_position[w] \in Int /\ started_at[w] \in Int
      BY DEF IInv, TypeOK, Positions
    <3> QED BY <3>1, <3>2
  <2> QED BY <2>2, <2>3 DEF IInv, PublishedCovered
<1>8. PoseUntouched' /\ PoseMatchesWheels' /\ HeadingFollowsImu'
  BY <1>3, PoseFrame
<1> QED BY <1>1, <1>6, <1>7, <1>8 DEF IInv

\* Taking a message moves a covered position into last_joint_positions.
LEMMA TakeStep ==
    ASSUME IInv, joint_states # <<>>,
           UNCHANGED <<boardVars, startVars>>,
           joint_states' = Tail(joint_states),
           last_joint_positions' \in {last_joint_positions, Head(joint_states).position}
    PROVE  PublishedCovered'
<1> SUFFICES ASSUME startup_read
             PROVE  \A w \in Wheels :
                       /\ last_joint_positions'[w] + started_at[w] \in covered[w]
                       /\ \A i \in 1 .. Len(joint_states') :
                            joint_states'[i].position[w] + started_at[w] \in covered[w]
  BY DEF PublishedCovered, boardVars, startVars
<1>1. /\ Head(joint_states) = joint_states[1] /\ 1 \in 1 .. Len(joint_states)
      /\ \A i \in 1 .. Len(joint_states') : \E j \in 1 .. Len(joint_states) :
            joint_states'[i] = joint_states[j]
  BY TakenFacts DEF IInv, TypeOK
<1> QED BY <1>1 DEF IInv, PublishedCovered

LEMMA FirstStep == IInv /\ FirstJointState => IInv'
<1> SUFFICES ASSUME IInv, FirstJointState PROVE IInv'
  OBVIOUS
<1>1. TypeOK'
  BY TypeStep DEF IInv, Next
<1>2. AccumulatorsAgree'
  BY JointFrame DEF FirstJointState
<1>3. PublishedCovered'
  BY TakeStep DEF FirstJointState
<1>4. Head(joint_states).position \in Positions
  BY TakenFacts DEF FirstJointState, IInv, TypeOK
<1>5. PoseMatchesWheels'
  <2>1. /\ last_joint_positions' = Head(joint_states).position
        /\ pose_origin' = Head(joint_states).position
        /\ robot_pose' = robot_pose
    BY DEF FirstJointState
  <2>2. /\ Sum(Head(joint_states).position) \in Int
        /\ Turned(Head(joint_states).position) \in Int
    BY <1>4, PositionFacts
  <2> QED BY <2>1, <2>2 DEF FirstJointState, IInv, PoseUntouched, PoseMatchesWheels
<1>6. PoseUntouched' /\ HeadingFollowsImu'
  BY DEF FirstJointState, thetaVars, IInv, PoseUntouched, HeadingFollowsImu
<1> QED BY <1>1, <1>2, <1>3, <1>5, <1>6 DEF IInv

LEMMA CallbackStep == IInv /\ JointStateCallback => IInv'
<1> SUFFICES ASSUME IInv, JointStateCallback PROVE IInv'
  OBVIOUS
<1> DEFINE msg == Head(joint_states)
<1>1. TypeOK'
  BY TypeStep DEF IInv, Next
<1>2. AccumulatorsAgree'
  BY JointFrame DEF JointStateCallback
<1>3. PublishedCovered'
  BY TakeStep DEF JointStateCallback
<1>4. msg.position \in Positions /\ msg.imu \in Headings /\ msg.imu \in Int
  BY TakenFacts, HeadingFacts DEF JointStateCallback, IInv, TypeOK
<1>5. /\ last_joint_positions' = msg.position
      /\ robot_pose'.s = robot_pose.s + DeltaS(msg)
      /\ robot_pose'.theta = robot_pose.theta + DeltaTheta(msg)
      /\ last_theta' = Theta(msg)
      /\ pose_origin' = pose_origin
      /\ timed' = TRUE
  BY DEF JointStateCallback
<1>6. /\ DeltaS(msg) = Sum(msg.position) - Sum(last_joint_positions)
      /\ Turned(Minus(msg.position, last_joint_positions))
           = Turned(msg.position) - Turned(last_joint_positions)
      /\ Sum(msg.position) \in Int /\ Sum(last_joint_positions) \in Int
      /\ Turned(msg.position) \in Int /\ Turned(last_joint_positions) \in Int
      /\ Sum(pose_origin) \in Int /\ Turned(pose_origin) \in Int
  BY <1>4, PositionFacts DEF DeltaS, IInv, TypeOK
<1>7. PoseMatchesWheels'
  <2>1. robot_pose.s \in Int /\ robot_pose.theta \in Int
    BY DEF IInv, TypeOK
  <2>2. robot_pose'.s = Sum(last_joint_positions') - Sum(pose_origin')
    BY <1>5, <1>6, <2>1 DEF IInv, PoseMatchesWheels
  <2>3. ASSUME ~UseImu
        PROVE  robot_pose'.theta = Turned(last_joint_positions') - Turned(pose_origin')
    BY <1>5, <1>6, <2>1, <2>3 DEF IInv, PoseMatchesWheels, DeltaTheta, Theta
  <2> QED BY <2>2, <2>3 DEF PoseMatchesWheels
<1>8. HeadingFollowsImu'
  <2> SUFFICES ASSUME UseImu
               PROVE  theta_initialized' /\ robot_pose'.theta = last_theta' - theta_origin'
    BY DEF HeadingFollowsImu
  <2>0. last_theta \in Int /\ theta_origin \in Int /\ Theta(msg) = msg.imu
    BY <1>1, HeadingFacts DEF IInv, TypeOK, Theta
  <2>1. CASE theta_initialized
    <3>1. DeltaTheta(msg) = msg.imu - last_theta
      BY <2>0, <2>1 DEF DeltaTheta
    <3>2. robot_pose.theta = last_theta - theta_origin
      BY <2>1 DEF IInv, HeadingFollowsImu
    <3>3. theta_initialized' /\ theta_origin' = theta_origin
      BY <2>1 DEF JointStateCallback
    <3> QED BY <1>4, <1>5, <2>0, <3>1, <3>2, <3>3
  <2>2. CASE ~theta_initialized
    <3>1. DeltaTheta(msg) = 0
      BY <2>2 DEF DeltaTheta
    <3>2. robot_pose.theta = 0
      BY <2>2 DEF IInv, HeadingFollowsImu
    <3>3. theta_initialized' /\ theta_origin' = msg.imu
      BY <2>2 DEF JointStateCallback
    <3> QED BY <1>4, <1>5, <2>0, <3>1, <3>2, <3>3
  <2> QED BY <2>1, <2>2
<1>9. PoseUntouched'
  BY <1>5 DEF PoseUntouched
<1> QED BY <1>1, <1>2, <1>3, <1>7, <1>8, <1>9 DEF IInv

LEMMA ResetStep == IInv /\ ResetOdometry => IInv'
<1> SUFFICES ASSUME IInv, ResetOdometry PROVE IInv'
  OBVIOUS
<1>1. TypeOK'
  BY TypeStep DEF IInv, Next
<1>2. AccumulatorsAgree'
  BY JointFrame DEF ResetOdometry
<1>3. PublishedCovered'
  BY DEF ResetOdometry, IInv, PublishedCovered, boardVars, startVars
<1>4. PoseMatchesWheels'
  <2>1. Sum(last_joint_positions) \in Int /\ Turned(last_joint_positions) \in Int
    BY PositionFacts DEF IInv, TypeOK
  <2> QED BY <2>1 DEF ResetOdometry, PoseMatchesWheels
<1>5. HeadingFollowsImu'
  <2>1. last_theta \in Int
    BY DEF IInv, TypeOK
  <2> QED BY <2>1 DEF ResetOdometry, HeadingFollowsImu
<1>6. PoseUntouched'
  BY DEF ResetOdometry, PoseUntouched
<1> QED BY <1>1, <1>2, <1>3, <1>4, <1>5, <1>6 DEF IInv

\* The steps that touch neither positions nor messages.
LEMMA QuietStep ==
    ASSUME IInv, [Next]_vars, UNCHANGED <<boardVars, jointVars, joint_states,
                                          odomVars, startVars>>
    PROVE  IInv'
<1>1. TypeOK'
  BY TypeStep DEF IInv
<1>2. PublishedCovered'
  BY DEF IInv, PublishedCovered, boardVars, odomVars, startVars
<1> QED BY <1>1, <1>2, PoseFrame, JointFrame DEF IInv

LEMMA InvStep == IInv /\ [Next]_vars => IInv'
<1> SUFFICES ASSUME IInv, [Next]_vars PROVE IInv'
  OBVIOUS
<1>1. CASE Drive
  BY <1>1, DriveStep
<1>2. CASE Turn
  <2>1. TypeOK'
    BY TypeStep DEF IInv
  <2>2. AccumulatorsAgree' /\ PublishedCovered'
    BY <1>2 DEF Turn, IInv, AccumulatorsAgree, Baseline, PublishedCovered,
                jointVars, odomVars, startVars
  <2> QED BY <1>2, <2>1, <2>2, PoseFrame DEF Turn, IInv
<1>3. CASE \E ok \in BOOLEAN : PublishTimer(ok)
  BY <1>3, PublishStep
<1>4. CASE ResetCommand \/ CalibrationEnd \/ RequestOdomReset
  BY <1>4, QuietStep DEF ResetCommand, CalibrationEnd, RequestOdomReset
<1>5. CASE FirstJointState
  BY <1>5, FirstStep
<1>6. CASE JointStateCallback
  BY <1>6, CallbackStep
<1>7. CASE Unpaired
  <2>1. TypeOK'
    BY TypeStep DEF IInv
  <2>2. PublishedCovered'
    <3>1. UNCHANGED last_joint_positions
      BY <1>7 DEF Unpaired, odomVars
    <3> QED BY <1>7, <3>1, TakeStep DEF Unpaired
  <2> QED BY <1>7, <2>1, <2>2, PoseFrame, JointFrame DEF Unpaired, IInv
<1>8. CASE ResetOdometry
  BY <1>8, ResetStep
<1>9. CASE UNCHANGED vars
  BY <1>9, QuietStep DEF vars
<1> QED BY <1>1, <1>2, <1>3, <1>4, <1>5, <1>6, <1>7, <1>8, <1>9 DEF Next

LEMMA Invariance == Spec => []IInv
BY InitInv, InvStep, PTL DEF Spec

-----------------------------------------------------------------------------
(* The theorems.                                                           *)

\* Every reachable state is well typed; no queue outgrows its depth.
THEOREM TypeCorrect == Spec => []TypeOK
<1>1. IInv => TypeOK
  BY DEF IInv
<1> QED BY <1>1, Invariance, PTL

\* With a good first read, every wheel position that is published or
\* remembered is one the wheel passed, whatever reads and messages are lost.
THEOREM TravelSafe == Spec => []OdometryWithinTravel
<1>1. IInv => OdometryWithinTravel
  <2> SUFFICES ASSUME IInv, startup_read, NEW p \in Reported, NEW w \in Wheels
               PROVE  p[w] + started_at[w] \in covered[w]
    BY DEF OdometryWithinTravel
  <2>1. CASE p = last_diff_position
    <3>1. last_position[w] \in Int /\ started_at[w] \in Int
      BY DEF IInv, TypeOK, Positions
    <3> QED BY <2>1, <3>1 DEF IInv, AccumulatorsAgree, Baseline, Minus
  <2>2. CASE p = last_joint_positions
    BY <2>2 DEF IInv, PublishedCovered
  <2>3. CASE \E i \in 1 .. Len(joint_states) : p = joint_states[i].position
    BY <2>3 DEF IInv, PublishedCovered
  <2> QED BY <2>1, <2>2, <2>3 DEF Reported
<1> QED BY <1>1, Invariance, PTL

\* The pose is exactly the wheel motion since its origin: dropped messages,
\* failed reads and resets lose nothing else and count nothing twice.
THEOREM PoseSafe == Spec => []PoseMatchesWheels
<1>1. IInv => PoseMatchesWheels
  BY DEF IInv
<1> QED BY <1>1, Invariance, PTL

\* With the IMU, the heading is the IMU's turn since its origin.
THEOREM HeadingSafe == Spec => []HeadingFollowsImu
<1>1. IInv => HeadingFollowsImu
  BY DEF IInv
<1> QED BY <1>1, Invariance, PTL

-----------------------------------------------------------------------------
(* The refinement of Odometer.                                             *)

LEMMA PositionsOfFacts ==
    ASSUME NEW queue \in Seq(JointStates)
    PROVE  /\ PositionsOf(queue) \in Seq(Positions)
           /\ Len(PositionsOf(queue)) = Len(queue)
           /\ \A i \in 1 .. Len(queue) : PositionsOf(queue)[i] = queue[i].position
<1>1. \A i \in 1 .. Len(queue) : queue[i] \in JointStates
  OBVIOUS
<1>2. \A i \in 1 .. Len(queue) : queue[i].position \in Positions
  BY <1>1 DEF JointStates
<1>3. Len(queue) \in Nat
  OBVIOUS
<1> QED BY <1>2, <1>3 DEF PositionsOf

\* The positions of a queue with one more behind them.
LEMMA SampledFacts ==
    ASSUME NEW queue \in Seq(JointStates), NEW next \in Positions
    PROVE  /\ Append(PositionsOf(queue), next) \in Seq(Positions)
           /\ Len(Append(PositionsOf(queue), next)) = Len(queue) + 1
           /\ Append(PositionsOf(queue), next)[Len(queue) + 1] = next
           /\ \A i \in 1 .. Len(queue) :
                 Append(PositionsOf(queue), next)[i] = queue[i].position
<1> DEFINE ps == PositionsOf(queue)
<1>1. /\ ps \in Seq(Positions) /\ Len(ps) = Len(queue) /\ Len(queue) \in Nat
      /\ \A i \in 1 .. Len(queue) : ps[i] = queue[i].position
  BY PositionsOfFacts
<1> HIDE DEF ps
<1>2. /\ Append(ps, next) \in Seq(Positions)
      /\ Len(Append(ps, next)) = Len(queue) + 1
      /\ Append(ps, next)[Len(queue) + 1] = next
      /\ \A i \in 1 .. Len(queue) : Append(ps, next)[i] = ps[i]
  BY <1>1
<1> QED BY <1>1, <1>2 DEF ps

\* Sequences with the same elements are the same.
LEMMA SameSequence ==
    ASSUME NEW s \in Seq(Positions), NEW t \in Seq(Positions), Len(s) = Len(t),
           \A i \in 1 .. Len(s) : s[i] = t[i]
    PROVE  s = t
OBVIOUS

LEMMA SampledTaken ==
    ASSUME NEW queue \in Seq(JointStates), queue # <<>>, NEW next \in Positions
    PROVE  /\ Len(Append(PositionsOf(queue), next)) > 1
           /\ Head(Append(PositionsOf(queue), next)) = Head(queue).position
           /\ Append(PositionsOf(Tail(queue)), next)
                = Tail(Append(PositionsOf(queue), next))
<1> DEFINE s == Append(PositionsOf(queue), next)
           t == Append(PositionsOf(Tail(queue)), next)
<1>1. /\ Tail(queue) \in Seq(JointStates) /\ Len(Tail(queue)) = Len(queue) - 1
      /\ \A i \in 1 .. Len(queue) - 1 : Tail(queue)[i] = queue[i + 1]
      /\ Head(queue) = queue[1] /\ Len(queue) \in Nat /\ Len(queue) > 0
  OBVIOUS
<1>2. /\ s \in Seq(Positions) /\ Len(s) = Len(queue) + 1 /\ s[Len(queue) + 1] = next
      /\ \A i \in 1 .. Len(queue) : s[i] = queue[i].position
  BY SampledFacts
<1>3. /\ t \in Seq(Positions) /\ Len(t) = Len(queue) /\ t[Len(queue)] = next
      /\ \A i \in 1 .. Len(queue) - 1 : t[i] = Tail(queue)[i].position
  <2> DEFINE rest == Tail(queue)
  <2>1. rest \in Seq(JointStates) /\ Len(rest) = Len(queue) - 1
    BY <1>1
  <2>2. Len(rest) + 1 = Len(queue)
    BY <1>1, <2>1
  <2> HIDE DEF rest
  <2>3. /\ Append(PositionsOf(rest), next) \in Seq(Positions)
        /\ Len(Append(PositionsOf(rest), next)) = Len(rest) + 1
        /\ Append(PositionsOf(rest), next)[Len(rest) + 1] = next
        /\ \A i \in 1 .. Len(rest) :
              Append(PositionsOf(rest), next)[i] = rest[i].position
    BY <2>1, SampledFacts
  <2> QED BY <2>1, <2>2, <2>3 DEF rest
<1> HIDE DEF s, t
<1>4. /\ Tail(s) \in Seq(Positions) /\ Len(Tail(s)) = Len(queue)
      /\ \A i \in 1 .. Len(queue) : Tail(s)[i] = s[i + 1]
      /\ Head(s) = s[1]
  BY <1>1, <1>2
<1>5. \A i \in 1 .. Len(t) : t[i] = Tail(s)[i]
  <2> SUFFICES ASSUME NEW i \in 1 .. Len(queue) PROVE t[i] = Tail(s)[i]
    BY <1>3
  <2>1. CASE i = Len(queue)
    BY <1>1, <1>2, <1>3, <1>4, <2>1
  <2>2. CASE i # Len(queue)
    <3>0. Len(queue) \in Nat
      BY <1>1
    <3>1. i \in 1 .. Len(queue) - 1 /\ i + 1 \in 1 .. Len(queue)
      BY <2>2, <3>0
    <3>2. t[i] = queue[i + 1].position
      BY <1>1, <1>3, <3>1
    <3>3. Tail(s)[i] = queue[i + 1].position
      BY <1>2, <1>4, <3>1
    <3> QED BY <3>2, <3>3
  <2> QED BY <2>1, <2>2
<1>6. t = Tail(s)
  BY <1>3, <1>4, <1>5, SameSequence
<1>7. Head(s) = Head(queue).position /\ Len(s) > 1
  BY <1>1, <1>2, <1>4
<1> QED BY <1>6, <1>7 DEF s, t

LEMMA SampledAppended ==
    ASSUME NEW queue \in Seq(JointStates), NEW msg \in JointStates
    PROVE  PositionsOf(Append(queue, msg)) = Append(PositionsOf(queue), msg.position)
<1> DEFINE s == PositionsOf(Append(queue, msg))
           t == Append(PositionsOf(queue), msg.position)
<1>1. /\ Append(queue, msg) \in Seq(JointStates) /\ Len(queue) \in Nat
      /\ Len(Append(queue, msg)) = Len(queue) + 1
      /\ \A i \in 1 .. Len(queue) : Append(queue, msg)[i] = queue[i]
      /\ Append(queue, msg)[Len(queue) + 1] = msg
  OBVIOUS
<1>2. /\ s \in Seq(Positions) /\ Len(s) = Len(queue) + 1
      /\ \A i \in 1 .. Len(queue) + 1 : s[i] = Append(queue, msg)[i].position
  BY <1>1, PositionsOfFacts
<1>3. msg.position \in Positions
  BY DEF JointStates
<1>4. /\ t \in Seq(Positions) /\ Len(t) = Len(queue) + 1
      /\ t[Len(queue) + 1] = msg.position
      /\ \A i \in 1 .. Len(queue) : t[i] = queue[i].position
  <2> DEFINE p == msg.position
  <2>1. p \in Positions
    BY <1>3
  <2> HIDE DEF p
  <2>2. /\ Append(PositionsOf(queue), p) \in Seq(Positions)
        /\ Len(Append(PositionsOf(queue), p)) = Len(queue) + 1
        /\ Append(PositionsOf(queue), p)[Len(queue) + 1] = p
        /\ \A i \in 1 .. Len(queue) :
              Append(PositionsOf(queue), p)[i] = queue[i].position
    BY <2>1, SampledFacts
  <2> QED BY <2>2 DEF p
<1> HIDE DEF s, t
<1>5. \A i \in 1 .. Len(s) : s[i] = t[i]
  <2> SUFFICES ASSUME NEW i \in 1 .. Len(queue) + 1 PROVE s[i] = t[i]
    BY <1>2
  <2>1. CASE i = Len(queue) + 1
    BY <1>1, <1>2, <1>4, <2>1
  <2>2. CASE i # Len(queue) + 1
    <3>1. i \in 1 .. Len(queue)
      BY <1>1, <2>2
    <3> QED BY <1>1, <1>2, <1>4, <3>1
  <2> QED BY <2>1, <2>2
<1>6. s = t
  BY <1>2, <1>4, <1>5, SameSequence
<1> QED BY <1>6 DEF s, t


LEMMA MeterNames ==
    /\ Meter!Wheels = Wheels /\ Meter!Places = Positions /\ Meter!Start = Zero
    /\ \A p : Meter!Ticks(p) = Sum(p)
BY DEF Meter!Wheels, Wheels, Meter!Places, Positions, Meter!Start, Zero,
       Meter!Ticks, Sum

LEMMA MeterInit == Init => Meter!Init
<1> SUFFICES ASSUME Init PROVE Meter!Init
  OBVIOUS
<1>1. Minus(encoder, Baseline) \in Positions
  BY InitType, BaselineType, PositionFacts DEF TypeOK
<1>2. Sampled = <<Zero>>
  BY DEF Init, Sampled, PositionsOf
<1> QED BY <1>1, <1>2, MeterNames DEF Init, Meter!Init

\* A robot that moves is somewhere else from the baseline as well.
LEMMA MeterMoves == IInv /\ Drive => Meter!Move
<1> SUFFICES ASSUME IInv, Drive PROVE Meter!Move
  OBVIOUS
<1>1. PICK w \in Wheels, d \in {-1, 1} : encoder' = [encoder EXCEPT ![w] = @ + d]
  BY DEF Drive
<1>2. encoder \in Positions /\ Baseline \in Positions /\ Baseline' = Baseline
  BY BaselineType DEF IInv, TypeOK, Drive, startVars, Baseline
<1>3. Minus(encoder', Baseline) = [Minus(encoder, Baseline) EXCEPT ![w] = @ + d]
  <2>1. \A v \in Wheels : encoder[v] \in Int /\ Baseline[v] \in Int
    BY <1>2 DEF Positions
  <2>2. \A v \in Wheels : encoder'[v] = IF v = w THEN encoder[v] + d ELSE encoder[v]
    BY <1>1, <1>2 DEF Positions
  <2>3. \A v \in Wheels : encoder'[v] - Baseline[v]
           = IF v = w THEN (encoder[v] - Baseline[v]) + d ELSE encoder[v] - Baseline[v]
    BY <2>1, <2>2
  <2> HIDE DEF Baseline
  <2> QED BY <2>3 DEF Minus
<1>4. UNCHANGED <<Sampled, last_joint_positions, timed, pose_origin, robot_pose.s>>
  BY DEF Drive, jointVars, odomVars, Sampled
<1> QED BY <1>1, <1>2, <1>3, <1>4, MeterNames DEF Meter!Move

\* What the queue has lost, the samples have lost.
LEMMA MeterSamples ==
    ASSUME IInv, NEW ok \in BOOLEAN, PublishTimer(ok)
    PROVE  Meter!Sample
<1> DEFINE msg == [position |-> last_diff_position, imu |-> read_data'.imu]
           new == last_diff_position'
<1>1. /\ last_diff_position' = Moved(read_data'.position)
      /\ joint_states' = Sent(joint_states, msg)
      /\ read_data' = IF ok THEN [position |-> encoder, imu |-> yaw] ELSE read_data
      /\ UNCHANGED <<boardVars, odomVars, startVars>>
  BY DEF PublishTimer, ReadDataSet, Published
<1>2. TypeOK /\ TypeOK'
  BY TypeStep DEF IInv, Next
<1>3. /\ joint_states \in Seq(JointStates) /\ last_diff_position \in Positions
      /\ read_data'.position \in Positions /\ new \in Positions
      /\ Baseline \in Positions /\ msg \in JointStates
  BY <1>2, BaselineType DEF TypeOK, JointStates
<1>4. new = Minus(read_data'.position, Baseline)
  BY <1>1, <1>2, <1>3, MovedFact DEF TypeOK, IInv, AccumulatorsAgree
<1>5. Sampled[Len(Sampled)] = last_diff_position
  <2>1. Len(Sampled) = Len(joint_states) + 1
    BY <1>3, SampledFacts DEF Sampled
  <2> QED BY <1>3, <2>1, SampledFacts DEF Sampled
<1>6. new \in {Minus(encoder, Baseline), Sampled[Len(Sampled)]}
  <2>1. CASE ok
    BY <1>1, <1>4, <2>1
  <2>2. CASE ~ok
    BY <1>1, <1>4, <1>5, <2>2 DEF IInv, AccumulatorsAgree
  <2> QED BY <2>1, <2>2
<1>7. Sampled' = Append(PositionsOf(joint_states'), new)
  BY DEF Sampled
<1>8. \/ Sampled' = Append(Sampled, new)
      \/ Len(Sampled) > 1 /\ Sampled' = Append(Tail(Sampled), new)
  <2>1. CASE Len(joint_states) < QueueDepth
    <3>1. joint_states' = Append(joint_states, msg)
      BY <1>1, <2>1 DEF Sent
    <3>2. PositionsOf(joint_states') = Sampled
      BY <1>3, <3>1, SampledAppended DEF Sampled
    <3> QED BY <1>7, <3>2
  <2>2. CASE ~(Len(joint_states) < QueueDepth)
    <3>1. joint_states' = Append(Tail(joint_states), msg)
      BY <1>1, <2>2 DEF Sent
    <3>2. joint_states # <<>> /\ Tail(joint_states) \in Seq(JointStates)
      BY <1>3, <2>2, DepthFact
    <3>3. PositionsOf(joint_states')
            = Append(PositionsOf(Tail(joint_states)), last_diff_position)
      BY <1>3, <3>1, <3>2, SampledAppended
    <3>4. Len(Sampled) > 1 /\ PositionsOf(joint_states') = Tail(Sampled)
      BY <1>3, <3>2, <3>3, SampledTaken DEF Sampled
    <3> QED BY <1>7, <3>4
  <2> QED BY <2>1, <2>2
<1>9. UNCHANGED <<Minus(encoder, Baseline), last_joint_positions, timed,
                  pose_origin, robot_pose.s>>
  BY <1>1 DEF boardVars, odomVars, startVars, Baseline
<1> HIDE DEF new
<1> QED BY <1>6, <1>8, <1>9 DEF Meter!Sample

\* Taking a message takes the oldest sample.
LEMMA MeterTakes ==
    ASSUME IInv, joint_states # <<>>, joint_states' = Tail(joint_states),
           UNCHANGED last_diff_position
    PROVE  /\ Len(Sampled) > 1
           /\ Sampled' = Tail(Sampled)
           /\ Head(Sampled) = Head(joint_states).position
<1>1. joint_states \in Seq(JointStates) /\ last_diff_position \in Positions
  BY DEF IInv, TypeOK
<1> QED BY <1>1, SampledTaken DEF Sampled

LEMMA MeterStep == IInv /\ [Next]_vars => [Meter!Next]_(Meter!odometerVars)
<1> SUFFICES ASSUME IInv, [Next]_vars PROVE [Meter!Next]_(Meter!odometerVars)
  OBVIOUS
<1>0. IInv'
  BY InvStep
<1>1. CASE Drive
  BY <1>1, MeterMoves DEF Meter!Next
<1>2. ASSUME NEW ok \in BOOLEAN, PublishTimer(ok)
      PROVE  Meter!Next
  BY <1>2, MeterSamples DEF Meter!Next
<1>3. CASE Turn \/ ResetCommand \/ CalibrationEnd \/ RequestOdomReset \/ UNCHANGED vars
  <2>1. UNCHANGED <<encoder, jointVars, joint_states, odomVars, startVars>>
    BY <1>3 DEF Turn, ResetCommand, CalibrationEnd, RequestOdomReset, vars, boardVars
  <2>2. UNCHANGED Sampled /\ UNCHANGED Minus(encoder, Baseline)
    BY <2>1 DEF jointVars, startVars, Sampled, Baseline
  <2> QED BY <2>1, <2>2 DEF odomVars, Meter!odometerVars
<1>4. CASE FirstJointState
  <2>1. UNCHANGED Minus(encoder, Baseline)
    BY <1>4 DEF FirstJointState, boardVars, startVars, Baseline
  <2>2. /\ Len(Sampled) > 1 /\ Sampled' = Tail(Sampled)
        /\ last_joint_positions' = Head(Sampled) /\ pose_origin' = Head(Sampled)
    BY <1>4, MeterTakes DEF FirstJointState, jointVars
  <2>3. robot_pose'.s = Sum(last_joint_positions') - Sum(pose_origin')
    BY <1>0 DEF IInv, PoseMatchesWheels
  <2>4. timed' = TRUE /\ timed = FALSE
    BY <1>4 DEF FirstJointState, IInv, TypeOK
  <2>5. Meter!Show
    BY <2>1, <2>2, <2>3, <2>4, MeterNames DEF Meter!Show
  <2> QED BY <2>5 DEF Meter!Next
<1>5. CASE JointStateCallback
  <2>1. UNCHANGED Minus(encoder, Baseline)
    BY <1>5 DEF JointStateCallback, boardVars, startVars, Baseline
  <2>2. /\ Len(Sampled) > 1 /\ Sampled' = Tail(Sampled)
        /\ last_joint_positions' = Head(Sampled) /\ pose_origin' = pose_origin
    BY <1>5, MeterTakes DEF JointStateCallback, jointVars
  <2>3. robot_pose'.s = Sum(last_joint_positions') - Sum(pose_origin')
    BY <1>0 DEF IInv, PoseMatchesWheels
  <2>4. timed' = TRUE /\ timed = TRUE
    BY <1>5 DEF JointStateCallback, IInv, TypeOK
  <2>5. Meter!Show
    BY <2>1, <2>2, <2>3, <2>4, MeterNames DEF Meter!Show
  <2> QED BY <2>5 DEF Meter!Next
<1>6. CASE Unpaired
  <2>1. UNCHANGED Minus(encoder, Baseline)
    BY <1>6 DEF Unpaired, boardVars, startVars, Baseline
  <2>2. Len(Sampled) > 1 /\ Sampled' = Tail(Sampled)
    BY <1>6, MeterTakes DEF Unpaired, jointVars
  <2>3. Meter!Lose
    BY <1>6, <2>1, <2>2 DEF Unpaired, odomVars, Meter!Lose
  <2> QED BY <2>3 DEF Meter!Next
<1>7. CASE ResetOdometry
  <2>1. UNCHANGED <<Minus(encoder, Baseline), Sampled, last_joint_positions, timed>>
    BY <1>7 DEF ResetOdometry, boardVars, jointVars, startVars, Baseline, Sampled
  <2>2. pose_origin' = last_joint_positions /\ robot_pose'.s = 0
    BY <1>7 DEF ResetOdometry
  <2>3. Meter!Reset
    BY <2>1, <2>2 DEF Meter!Reset
  <2> QED BY <2>3 DEF Meter!Next
<1> QED BY <1>1, <1>2, <1>3, <1>4, <1>5, <1>6, <1>7 DEF Next

\* The odometry is an odometer: it shows places the robot was at, in order,
\* and its pose is the way from the origin to the one shown last.
THEOREM OdometerRefined == Spec => ImplementsOdometer
BY MeterInit, MeterStep, Invariance, PTL DEF Spec, Meter!Spec, ImplementsOdometer
=============================================================================
