----------------------------- MODULE Localization -----------------------------
(***************************************************************************)
(* The node localization_slam: dead reckoning from odometry messages, a    *)
(* correction by matching the last scan with the map, the map drawn from   *)
(* the last scan, and what is published of them.                           *)
(*                                                                         *)
(* rclcpp::spin runs the callbacks one at a time, so each is one action.   *)
(* The unit of position is the 1e-4 m below which ekf_predict ignores the  *)
(* direction of a motion; a cell is Resolution units wide.  A beam has any *)
(* direction.  Headings are quarter turns, so that a vector turned by one  *)
(* is exact; a quarter turn also stands for the 0.02 rad by which scan     *)
(* matching tries to turn the pose.  Log-odds are in tenths.               *)
(*                                                                         *)
(* The robot, its odometry and the lidar are external: a robot that drives *)
(* among Walls, and topics that hold the last message until it is handled  *)
(* or replaced.  They say what the map should show.                        *)
(***************************************************************************)
EXTENDS GridRay, Sequences, FiniteSets

CONSTANTS
    None,            \* no message, no scan
    Parameters,      \* the parameter sets the node may be started with
    MapOrigin,       \* parameters map_origin_x and map_origin_y
    Resolution,      \* parameter map_resolution
    MatchStep,       \* the 0.02 m of dxy_steps
    Gains,           \* bound: what the filter may make of a shift and a turn
    ScanMatchRange,  \* parameter scan_match_max_range, as a range
    ScanMatchSkip,   \* parameter scan_match_skip
    YawOffset,       \* parameter scan_yaw_offset_deg, in quarter turns
    IgnoreSector,    \* directions between scan_ignore_angle_min and _max
    IgnoreRange,     \* parameter scan_ignore_range_max_m, as a range
    LogOddsHit, LogOddsMiss, LogOddsMax, LogOddsMin,
    Beams,           \* the lidar: its beams, vectors of one length; ranges
                     \* are counted in that length
    RangeMin,        \* range_min of its messages
    RangeMax,        \* range_max of its messages
    Dropouts,        \* beams the lidar sometimes fails to measure
    Walls,           \* the world: places a beam ends at
    Starts,          \* the world: poses the robot may start in
    Strides,         \* the world: how far the robot goes in one move
    MaxMoves,        \* bound: moves of the robot and resets of its odometry
    MaxScans,        \* bound: scans taken
    MaxSteps         \* bound: timer ticks

Headings == 0 .. 3
Poses    == [x : Int, y : Int, theta : Headings]
Origin   == [x |-> 0, y |-> 0, theta |-> 0]
Inf      == RangeMax + 1      \* a beam without a return
NaN      == -1                \* a beam the lidar could not measure

Flags == [use_scan_matching : BOOLEAN, clear_map_each_update : BOOLEAN,
          publish_map_odom_tf : BOOLEAN, identity_map_odom_tf : BOOLEAN,
          publish_map : BOOLEAN, scan_ignore_all_ranges : BOOLEAN]

ASSUME LocalizationAssumption ==
    /\ Parameters \subseteq Flags
    /\ Walls \subseteq Int \X Int /\ Strides \subseteq Int
    /\ Starts \subseteq Poses /\ \A p \in Starts : << p.x, p.y >> \notin Walls
    /\ MapOrigin \in Int \X Int
    /\ Resolution \in Nat \ {0} /\ MatchStep \in Nat
    /\ Gains \subseteq Int \X Int \X Int
    /\ ScanMatchRange \in Nat \ {0} /\ ScanMatchSkip \in Nat \ {0}
    /\ YawOffset \in Headings
    /\ Beams \in Seq(Int \X Int)
    /\ RangeMax \in Nat \ {0} /\ RangeMin \in 0 .. RangeMax
    /\ LogOddsHit \in Int /\ LogOddsMiss \in Int
    /\ LogOddsMiss <= 0 /\ 0 <= LogOddsHit
    /\ LogOddsMin \in Int /\ LogOddsMax \in Int
    /\ LogOddsMin <= 0 /\ 0 <= LogOddsMax

VARIABLES
    param,        \* the parameters of this run
    odom,         \* odom_x_, odom_y_, odom_theta_
    prev_odom,    \* prev_odom_x_, prev_odom_y_, prev_odom_theta_
    has_odom,     \* has_odom_
    pose,         \* x_, y_, theta_: what /pose says after every step
    last_scan,    \* last_scan_; has_scan_ is last_scan # None
    log_odds,     \* log_odds_
    tf,           \* the last map -> odom transform sent
    map,          \* the last /map published
    \* The world:
    robot,        \* pose of the robot
    odom_origin,  \* where the odometry was last zero
    odom_topic,   \* odometry message not handled yet
    scan_topic,   \* scan not handled yet
    moves, scans, steps,
    \* History, read by no action:
    offset,       \* where the odometry's frame is, as the corrections move it
    slips,        \* how far the pose went in steps of unknown direction
    drawn         \* from the world to the map, for each scan on the map

worldVars   == <<robot, odom_origin, moves>>
topicVars   == <<odom_topic, scan_topic, scans>>
odomVars    == <<odom, prev_odom, has_odom>>
poseVars    == <<pose, offset, slips>>
mapVars     == <<log_odds, drawn>>
vars == <<param, odomVars, poseVars, last_scan, mapVars, tf, map, worldVars,
          topicVars, steps>>
-----------------------------------------------------------------------------
(* Positions and headings.                                                 *)

Turned(q, v) == CASE q = 0 -> v
                  [] q = 1 -> << -v[2],  v[1] >>
                  [] q = 2 -> << -v[1], -v[2] >>
                  [] q = 3 -> <<  v[2], -v[1] >>

Plus(u, v)  == << u[1] + v[1], u[2] + v[2] >>
Minus(u, v) == << u[1] - v[1], u[2] - v[2] >>
At(p)       == << p.x, p.y >>
Pose(v, q)  == [x |-> v[1], y |-> v[2], theta |-> q % 4]

\* Pose q of the frame whose pose is p; its inverse is the pose of q in p.
Compose(p, q) == Pose(Plus(At(p), Turned(p.theta, At(q))), p.theta + q.theta)
InFrame(p, q) ==
    Pose(Turned((-p.theta) % 4, Minus(At(q), At(p))), q.theta - p.theta)

\* How far apart two places are along x and y together.
Apart(u, v) == Distance(u[1], v[1]) + Distance(u[2], v[2])

\* floor of the quotient
WorldToGrid(v) == << (v[1] - MapOrigin[1]) \div Resolution,
                     (v[2] - MapOrigin[2]) \div Resolution >>
-----------------------------------------------------------------------------
(* The beams of a scan.                                                    *)

\* mutant: the mounting of the lidar forgotten.
SensorDirection(i) == Beams[i]

LocalDirection(i) == Turned(YawOffset, Beams[i])

\* Where beam i of a robot at p is at range r.
EndOfBeam(p, i, r) ==
    LET v == LocalDirection(i)
    IN  Plus(At(p), Turned(p.theta, << r * v[1], r * v[2] >>))

\* i += sm_skip_
UsedBeams == {i \in 1 .. Len(Beams) : (i - 1) % ScanMatchSkip = 0}

\* The sector hides every range, or only the near ones.
Ignored(i, r) ==
    /\ LocalDirection(i) \in IgnoreSector
    /\ param.scan_ignore_all_ranges \/ (r # Inf /\ r <= IgnoreRange)

\* The beams update_occupancy_grid draws.
Drawn(scan) ==
    {i \in UsedBeams : /\ scan.ranges[i] # NaN
                       /\ scan.ranges[i] >= RangeMin
                       /\ ~Ignored(i, scan.ranges[i])}

\* The beams scan_match compares with the map.
InRange(r) == r # Inf /\ r <= ScanMatchRange

Endpoints(scan) == {i \in Drawn(scan) : InRange(scan.ranges[i])}

ShorterOf(a, b) == IF a < b THEN a ELSE b
-----------------------------------------------------------------------------
(* The occupancy grid.                                                     *)

Clamped(v) == IF v < LogOddsMin THEN LogOddsMin
              ELSE IF v > LogOddsMax THEN LogOddsMax ELSE v

\* Every cell of the ray is free but the last, which a return marks.  The loop
\* comes to a cell once (RayIsDrawn of TraceRay).
TraceRay(grid, from, to, mark_hit) ==
    LET cells == {Ray(from, to)[i] : i \in 1 .. RayLength(from, to) + 1}
    IN  [c \in Cells |->
            IF c \notin cells THEN grid[c]
            ELSE Clamped(grid[c] + (IF c = to /\ mark_hit THEN LogOddsHit ELSE LogOddsMiss))]

DrawBeam(grid, p, i, r) ==
    LET mark_hit == InRange(r)
        ray_len  == IF mark_hit THEN r ELSE ShorterOf(ScanMatchRange, RangeMax)
    IN  TraceRay(grid, WorldToGrid(At(p)),
                 WorldToGrid(EndOfBeam(p, i, ray_len)), mark_hit)

CanDraw(p) == last_scan # None /\ InGrid(WorldToGrid(At(p)))

\* update_occupancy_grid, with the pose after this step's prediction: beam after
\* beam, because log-odds that reach a limit lose what came before.
Updated(grid, p) ==
    LET grids[i \in 0 .. Len(Beams)] ==
            IF i = 0 THEN grid
            ELSE IF i \in Drawn(last_scan)
                 THEN DrawBeam(grids[i - 1], p, i, last_scan.ranges[i])
                 ELSE grids[i - 1]
    IN  IF CanDraw(p) THEN grids[Len(Beams)] ELSE grid

EmptyGrid == [c \in Cells |-> 0]
-----------------------------------------------------------------------------
(* The extended Kalman filter, without its covariance.                     *)

\* The motion between the last message a step used and the latest.
Motion == Minus(At(odom), At(prev_odom))

\* d_trans <= 1e-4, and d_trans itself where that is so.
IsSmall(v)     == v[1] * v[1] + v[2] * v[2] <= 1
SmallLength(v) == Distance(v[1], 0) + Distance(v[2], 0)

\* mutant: prev_odom_theta_ taken for the old heading.
PredictedWithNewHeading ==
    LET dtheta == (odom.theta - prev_odom.theta) % 4
        turn   == (pose.theta - odom.theta) % 4
        motion == IF IsSmall(Motion)
                  THEN Turned(pose.theta, << SmallLength(Motion), 0 >>)
                  ELSE Turned(turn, Motion)
    IN  IF has_odom THEN Pose(Plus(At(pose), motion), pose.theta + dtheta) ELSE pose

\* Odometry differences are turned from the odometry's frame to the map's:
\* when d_rot1 is computed prev_odom_theta_ already is the new heading.  A
\* small one has d_rot1 = 0: it goes forward, whatever its direction.
Predicted ==
    LET dtheta == (odom.theta - prev_odom.theta) % 4
        turn   == (pose.theta - odom.theta + dtheta) % 4
        motion == IF IsSmall(Motion)
                  THEN Turned(pose.theta, << SmallLength(Motion), 0 >>)
                  ELSE Turned(turn, Motion)
    IN  IF has_odom THEN Pose(Plus(At(pose), motion), pose.theta + dtheta) ELSE pose

Occupied(cell) == InGrid(cell) /\ log_odds[cell] > 5

Score(p) ==
    Cardinality({i \in Endpoints(last_scan) :
        Occupied(WorldToGrid(EndOfBeam(p, i, last_scan.ranges[i])))})

\* dx, dy and dtheta in the order of the three loops; the first of the best is
\* taken.
Trials       == 0 .. 26
Trial(k)     == << MatchStep * ((k \div 9) - 1), MatchStep * (((k \div 3) % 3) - 1), (k % 3) - 1 >>
NoCorrection == << 0, 0, 0 >>

Corrected(p, c) == Pose(Plus(At(p), << c[1], c[2] >>), p.theta + c[3])

BestTrial(p) ==
    LET score == [k \in Trials |-> Score(Corrected(p, Trial(k)))]
    IN  Trial(CHOOSE k \in Trials :
                 \A j \in Trials :
                     score[j] < score[k] \/ (score[j] = score[k] /\ k <= j))

\* What the gain may make of the best trial: its cross terms let a shift or a
\* turn move the pose in every direction.
Gained(z) == IF z = NoCorrection THEN {z} ELSE Gains

\* What scan_match and ekf_update may add to the pose: nothing without a scan
\* and unless some end point lies on an occupied cell.
Corrections(p) ==
    IF /\ param.use_scan_matching
       /\ last_scan # None
       /\ Score(Corrected(p, BestTrial(p))) > 0
    THEN Gained(BestTrial(p))
    ELSE {NoCorrection}
-----------------------------------------------------------------------------
Init ==
    /\ param \in Parameters
    /\ robot \in Starts
    /\ odom_origin = [robot EXCEPT !.x = 0]
    /\ odom = Origin /\ prev_odom = Origin /\ has_odom = FALSE
    /\ pose = Origin
    /\ last_scan = None
    /\ log_odds = EmptyGrid
    /\ tf = None /\ map = None
    /\ odom_topic = None /\ scan_topic = None
    /\ moves = 0 /\ scans = 0 /\ steps = 0
    /\ offset = Origin /\ slips = 0
    /\ drawn = {}
-----------------------------------------------------------------------------
(* The world.                                                              *)

Drive(stride) ==
    /\ moves < MaxMoves
    /\ robot' = Compose(robot, Pose(<< stride, 0 >>, 0))
    /\ At(robot') \notin Walls
    /\ moves' = moves + 1
    /\ UNCHANGED <<param, odomVars, poseVars, last_scan, mapVars, tf, map,
                   odom_origin, topicVars, steps>>

Turn ==
    /\ moves < MaxMoves
    /\ robot' = [robot EXCEPT !.theta = (@ + 1) % 4]
    /\ moves' = moves + 1
    /\ UNCHANGED <<param, odomVars, poseVars, last_scan, mapVars, tf, map,
                   odom_origin, topicVars, steps>>

\* Service reset_odometry of the odometry node.
ResetOdometry ==
    /\ moves < MaxMoves
    /\ moves' = moves + 1
    /\ odom_origin' = robot
    /\ UNCHANGED <<param, odomVars, poseVars, last_scan, mapVars, tf, map,
                   robot, topicVars, steps>>

SenseOdometry ==
    /\ odom_topic' = InFrame(odom_origin, robot)
    /\ UNCHANGED <<param, odomVars, poseVars, last_scan, mapVars, tf, map,
                   worldVars, scan_topic, scans, steps>>

\* The distance to the first wall in the direction of beam i of a lidar that is
\* mounted turned by YawOffset.
Measured(i) ==
    LET mounted  == Compose(robot, [Origin EXCEPT !.theta = YawOffset])
        place(r) == Plus(At(mounted), Turned(mounted.theta, << r * Beams[i][1], r * Beams[i][2] >>))
        walls    == {r \in 1 .. RangeMax : place(r) \in Walls}
    IN  IF walls = {} THEN Inf ELSE CHOOSE r \in walls : \A s \in walls : r <= s

\* A scan; one beam may have failed.
SenseScan ==
    /\ scans < MaxScans
    /\ scans' = scans + 1
    /\ \E lost \in Dropouts \cup {0} :
          scan_topic' = [ranges |-> [i \in 1 .. Len(Beams) |->
                                        IF i = lost THEN NaN ELSE Measured(i)],
                         taken_at |-> robot]
    /\ UNCHANGED <<param, odomVars, poseVars, last_scan, mapVars, tf, map,
                   worldVars, odom_topic, steps>>
-----------------------------------------------------------------------------
(* The node.                                                               *)

\* odom_cb: the first message is also where differences start from.
OdomCallback ==
    /\ odom_topic # None
    /\ odom_topic' = None
    /\ odom' = odom_topic
    /\ has_odom' = TRUE
    /\ IF has_odom
       THEN UNCHANGED <<prev_odom, offset>>
       ELSE /\ prev_odom' = odom_topic
            /\ offset' = Compose(pose, InFrame(odom_topic, Origin))
    /\ UNCHANGED <<param, pose, slips, last_scan, mapVars, tf, map, worldVars,
                   scan_topic, scans, steps>>

ScanCallback ==
    /\ scan_topic # None
    /\ scan_topic' = None
    /\ last_scan' = scan_topic
    /\ UNCHANGED <<param, odomVars, poseVars, mapVars, tf, map, worldVars,
                   odom_topic, scans, steps>>

\* mutant: the odometry's position is not turned into the map's frame.
MapToOdomUnturned(p) ==
    IF param.identity_map_odom_tf
    THEN Origin
    ELSE Pose(Minus(At(p), At(odom)), p.theta - odom.theta)

\* publish_tf: map -> base after base -> odom.
MapToOdom(p) ==
    LET theta == (p.theta - odom.theta) % 4
    IN  IF param.identity_map_odom_tf
        THEN Origin
        ELSE Pose(Minus(At(p), Turned(theta, At(odom))), theta)

\* From the world to the map: the scan was taken at one pose and is drawn as if
\* it had been taken at p.
Displacement(p) == Compose(p, InFrame(last_scan.taken_at, Origin))

\* localization_step: predict, correct, draw, publish.
LocalizationStep ==
    /\ steps < MaxSteps
    /\ steps' = steps + 1
    /\ prev_odom' = IF has_odom THEN odom ELSE prev_odom
    /\ \E c \in Corrections(Predicted) :
          /\ pose' = Corrected(Predicted, c)
          /\ offset' = Compose(pose', InFrame(Predicted, offset))
    /\ slips' = slips + (IF has_odom /\ IsSmall(Motion) THEN SmallLength(Motion) ELSE 0)
    /\ log_odds' = Updated(IF param.clear_map_each_update THEN EmptyGrid ELSE log_odds,
                           pose')
    /\ drawn' = (IF param.clear_map_each_update THEN {} ELSE drawn)
                 \cup (IF CanDraw(pose') THEN {Displacement(pose')} ELSE {})
    /\ tf' = IF param.publish_map_odom_tf /\ has_odom THEN MapToOdom(pose') ELSE tf
    /\ UNCHANGED <<param, odom, has_odom, last_scan, map, worldVars, topicVars>>

\* publish_map: a probability below, at or above one half.
PublishMap ==
    /\ param.publish_map
    /\ last_scan # None
    /\ map' = [c \in Cells |-> IF log_odds[c] = 0 THEN "unknown"
                               ELSE IF log_odds[c] < 0 THEN "free" ELSE "occupied"]
    /\ UNCHANGED <<param, odomVars, poseVars, last_scan, mapVars, tf, worldVars,
                   topicVars, steps>>

Next ==
    \/ \E stride \in Strides : Drive(stride)
    \/ Turn \/ ResetOdometry \/ SenseOdometry \/ SenseScan
    \/ OdomCallback \/ ScanCallback \/ LocalizationStep \/ PublishMap

Spec == Init /\ [][Next]_vars
-----------------------------------------------------------------------------
(* Properties.                                                             *)

Messages(T) == T \cup {None}
Scans == [ranges : [1 .. Len(Beams) -> -1 .. Inf], taken_at : Poses]

\* The variables have their types, and log-odds stay within their limits.
TypeOK ==
    /\ param \in Flags
    /\ {robot, odom_origin, odom, prev_odom, pose, offset} \subseteq Poses
    /\ has_odom \in BOOLEAN /\ slips \in Nat /\ drawn \subseteq Poses
    /\ last_scan \in Messages(Scans) /\ scan_topic \in Messages(Scans)
    /\ odom_topic \in Messages(Poses)
    /\ log_odds \in [Cells -> LogOddsMin .. LogOddsMax]
    /\ tf \in Messages(Poses)
    /\ map \in Messages([Cells -> {"unknown", "free", "occupied"}])

\* Whatever odometry messages are lost, delayed or reset to zero, and however
\* often the timer runs between them, the pose is where the last message a step
\* used places the robot in the odometry's frame.  Only the corrections by
\* matching move and turn that frame, all at once; the heading is exact, and the
\* place but for the steps that went forward in place of their own direction.
PoseFollowsOdometry ==
    has_odom => LET p == Compose(offset, prev_odom)
                IN  pose.theta = p.theta /\ Apart(At(pose), At(p)) <= 2 * slips

\* The map -> odom transform that is sent is that frame: between corrections it
\* stays where it is however the robot moves, apart from those steps.
TransformIsTheFrame ==
    tf # None =>
        IF param.identity_map_odom_tf THEN tf = Origin
        ELSE tf.theta = offset.theta /\ Apart(At(tf), At(offset)) <= 2 * slips

\* The cell where a wall is shown by a scan drawn with displacement d.
CellOf(d, w) == WorldToGrid(At(Compose(d, Pose(w, 0))))

\* The map shows no obstacle that is not there, neither the log-odds that matching
\* uses nor the map that is published: whatever scans are stale and wherever the
\* node believed itself, each occupied cell is that of a wall, displaced as the
\* pose of one of the scans on the map was wrong.  A map that is cleared at each
\* step shows the walls of one scan.
NoPhantomObstacle ==
    [][\A c \in Cells :
          log_odds'[c] > 0 \/ (map' # map /\ map'[c] = "occupied")
              => \E d \in drawn', w \in Walls : c = CellOf(d, w)]_<<mapVars, map>>
=============================================================================
