-------------------------- MODULE LocalizationProofs --------------------------
(***************************************************************************)
(* For every map, lidar, world and choice of parameters, and whatever is   *)
(* lost or reset: the pose is where the odometry places the robot in a     *)
(* frame that the corrections by scan matching move and turn, but for the  *)
(* steps that were too small to have a direction, and the transform that   *)
(* is sent is that frame.                                                  *)
(*                                                                         *)
(* The second part is about the loop of trace_ray, on maps of every size:  *)
(* its cursor stays between the two ends of the ray, never more than half  *)
(* a cell off the line, and stops at the return.  With i and j the cells   *)
(* taken along each axis the loop keeps                                    *)
(*     err = dx - dy + dx * j - dy * i,                                    *)
(* and dx * j - dy * i is how far the cursor is off the line.  Hence the   *)
(* cursor of the loop is that of Ray, and no cell of a ray comes twice:    *)
(* the loop updates them as the TraceRay of Localization does.             *)
(*                                                                         *)
(* The third part is about the map: log-odds are positive only where a     *)
(* scan on the map had a return, and that is the cell of a wall, displaced *)
(* as the pose was wrong.                                                  *)
(***************************************************************************)
EXTENDS Localization, TraceRay, WellFoundedInduction, TLAPS

Vectors == Int \X Int

\* The part of the state the pose depends on.
PoseTypes ==
    /\ robot \in Poses /\ odom_origin \in Poses
    /\ odom_topic \in Messages(Poses)
    /\ odom \in Poses /\ prev_odom \in Poses
    /\ pose \in Poses /\ offset \in Poses
    /\ has_odom \in BOOLEAN /\ slips \in Nat

\* Before the first message no transform is sent.
TransformSent == tf # None => has_odom /\ param.publish_map_odom_tf

IInv == PoseTypes /\ PoseFollowsOdometry /\ TransformSent /\ TransformIsTheFrame
-----------------------------------------------------------------------------
(* Quarter turns.                                                          *)

LEMMA Quarters ==
    ASSUME NEW a \in Headings, NEW b \in Headings
    PROVE  /\ (a + b) % 4 \in Headings /\ (a - b) % 4 \in Headings
           /\ a % 4 = a /\ (-a) % 4 \in Headings
BY SMTT(30) DEF Headings

\* The turn of ekf_predict and the one of publish_tf are both the heading of the
\* odometry's frame on the map.
LEMMA TurnOfTheFrame ==
    ASSUME NEW a \in Headings, NEW b \in Headings, NEW f \in Headings
    PROVE  /\ (((f + a) % 4) - b + ((b - a) % 4)) % 4 = f
           /\ (((f + a) % 4) + ((b - a) % 4)) % 4 = (f + b) % 4
           /\ (((f + b) % 4) - b) % 4 = f
BY SMTT(60) DEF Headings

\* A frame that is moved from one pose to another is turned by the difference of
\* their headings.
LEMMA TurnOfTheMove ==
    ASSUME NEW a \in Headings, NEW b \in Headings, NEW f \in Headings, NEW g \in Headings
    PROVE  /\ (a + ((-b) % 4)) % 4 = (a - b) % 4
           /\ (a + ((f - b) % 4)) % 4 = (((a - b) % 4) + f) % 4
           /\ b = (f + g) % 4 => (((a + ((f - b) % 4)) % 4) + g) % 4 = a
BY SMTT(60) DEF Headings

LEMMA Components ==
    ASSUME NEW p \in Poses
    PROVE  /\ p.x \in Int /\ p.y \in Int /\ p.theta \in Headings
           /\ At(p) = << p.x, p.y >> /\ At(p) \in Vectors
BY DEF Poses, At, Vectors

LEMMA TurnedTypes ==
    ASSUME NEW q \in Headings, NEW v \in Vectors
    PROVE  Turned(q, v) \in Vectors
<1>1. v[1] \in Int /\ v[2] \in Int /\ v = << v[1], v[2] >>
  BY DEF Vectors
<1>2. q = 0 \/ q = 1 \/ q = 2 \/ q = 3
  BY DEF Headings
<1>3. CASE q = 0
  BY <1>3 DEF Turned
<1>4. CASE q = 1
  BY <1>1, <1>4 DEF Turned, Vectors
<1>5. CASE q = 2
  BY <1>1, <1>5 DEF Turned, Vectors
<1>6. CASE q = 3
  BY <1>1, <1>6 DEF Turned, Vectors
<1> QED
  BY <1>2, <1>3, <1>4, <1>5, <1>6

LEMMA Sums ==
    ASSUME NEW u \in Vectors, NEW v \in Vectors, NEW w \in Vectors
    PROVE  /\ Plus(u, v) \in Vectors /\ Minus(u, v) \in Vectors
           /\ Plus(Plus(u, v), w) = Plus(Plus(u, w), v)
           /\ Plus(Plus(u, v), w) = Plus(u, Plus(v, w))
           /\ Minus(Plus(u, v), w) = Plus(Minus(u, w), v)
BY DEF Vectors, Plus, Minus

LEMMA PoseParts ==
    ASSUME NEW v \in Vectors, NEW q \in Int
    PROVE  /\ Pose(v, q) \in Poses
           /\ At(Pose(v, q)) = v
           /\ Pose(v, q).theta = q % 4 /\ q % 4 \in Headings
<1>1. v[1] \in Int /\ v[2] \in Int /\ v = << v[1], v[2] >>
  BY DEF Vectors
<1>2. q % 4 \in Headings
  BY SMTT(30) DEF Headings
<1> QED
  BY <1>1, <1>2 DEF Pose, Poses, At

LEMMA InFrameParts ==
    ASSUME NEW p \in Poses, NEW q \in Poses
    PROVE  /\ InFrame(p, q) \in Poses
           /\ At(InFrame(p, q)) = Turned((-p.theta) % 4, Minus(At(q), At(p)))
           /\ InFrame(p, q).theta = (q.theta - p.theta) % 4
<1>1. /\ p.theta \in Headings /\ At(p) \in Vectors
      /\ q.theta \in Headings /\ At(q) \in Vectors
  BY Components
<1>2. (-p.theta) % 4 \in Headings
  BY <1>1, Quarters
<1>3. Turned((-p.theta) % 4, Minus(At(q), At(p))) \in Vectors
  BY <1>1, <1>2, Sums, TurnedTypes
<1>4. q.theta - p.theta \in Int
  BY <1>1 DEF Headings
<1> QED
  BY <1>3, <1>4, PoseParts DEF InFrame

LEMMA OriginParts ==
    Origin \in Poses /\ At(Origin) = << 0, 0 >> /\ Origin.theta = 0 /\ << 0, 0 >> \in Vectors
BY DEF Origin, Poses, Headings, At, Vectors

LEMMA TurnedTwice ==
    ASSUME NEW a \in Headings, NEW b \in Headings, NEW v \in Vectors
    PROVE  Turned(a, Turned(b, v)) = Turned((a + b) % 4, v)
<1>1. v[1] \in Int /\ v[2] \in Int /\ v = << v[1], v[2] >>
  BY DEF Vectors
<1>2. (a = 0 \/ a = 1 \/ a = 2 \/ a = 3) /\ (b = 0 \/ b = 1 \/ b = 2 \/ b = 3)
  BY DEF Headings
<1>3. /\ (0 + b) % 4 = b /\ (1 + 3) % 4 = 0 /\ (1 + 1) % 4 = 2 /\ (1 + 2) % 4 = 3
      /\ (1 + 0) % 4 = 1 /\ (2 + 0) % 4 = 2 /\ (2 + 1) % 4 = 3 /\ (2 + 2) % 4 = 0
      /\ (2 + 3) % 4 = 1 /\ (3 + 0) % 4 = 3 /\ (3 + 1) % 4 = 0 /\ (3 + 2) % 4 = 1
      /\ (3 + 3) % 4 = 2
  BY <1>2, SMTT(30)
<1>4. \A x \in Int, y \in Int :
         /\ Turned(0, << x, y >>) = << x, y >> /\ Turned(1, << x, y >>) = << -y, x >>
         /\ Turned(2, << x, y >>) = << -x, -y >> /\ Turned(3, << x, y >>) = << y, -x >>
  BY DEF Turned
<1>5. PICK x \in Int, y \in Int, m \in Int, n \in Int :
         v = << x, y >> /\ m = -x /\ n = -y /\ -m = x /\ -n = y
  BY <1>1
<1>6. /\ Turned(0, v) = << x, y >> /\ Turned(1, v) = << n, x >>
      /\ Turned(2, v) = << m, n >> /\ Turned(3, v) = << y, m >>
  BY <1>4, <1>5
<1>7. CASE a = 0
  BY <1>2, <1>3, <1>4, <1>5, <1>6, <1>7
<1>8. CASE a = 1
  <2>1. /\ Turned(1, << x, y >>) = << n, x >> /\ Turned(1, << n, x >>) = << m, n >>
        /\ Turned(1, << m, n >>) = << y, m >> /\ Turned(1, << y, m >>) = << x, y >>
    BY <1>4, <1>5
  <2> QED
    BY <1>2, <1>3, <1>6, <1>8, <2>1
<1>9. CASE a = 2
  <2>1. /\ Turned(2, << x, y >>) = << m, n >> /\ Turned(2, << n, x >>) = << y, m >>
        /\ Turned(2, << m, n >>) = << x, y >> /\ Turned(2, << y, m >>) = << n, x >>
    BY <1>4, <1>5
  <2> QED
    BY <1>2, <1>3, <1>6, <1>9, <2>1
<1>10. CASE a = 3
  <2>1. /\ Turned(3, << x, y >>) = << y, m >> /\ Turned(3, << n, x >>) = << x, y >>
        /\ Turned(3, << m, n >>) = << n, x >> /\ Turned(3, << y, m >>) = << m, n >>
    BY <1>4, <1>5
  <2> QED
    BY <1>2, <1>3, <1>6, <1>10, <2>1
<1> QED
  BY <1>2, <1>7, <1>8, <1>9, <1>10

LEMMA TurnedSum ==
    ASSUME NEW q \in Headings, NEW u \in Vectors, NEW v \in Vectors
    PROVE  Turned(q, Plus(u, v)) = Plus(Turned(q, u), Turned(q, v))
<1>1. /\ u[1] \in Int /\ u[2] \in Int /\ v[1] \in Int /\ v[2] \in Int
  BY DEF Vectors
<1>2. q = 0 \/ q = 1 \/ q = 2 \/ q = 3
  BY DEF Headings
<1> QED
  BY <1>1, <1>2 DEF Turned, Plus

LEMMA ComposeParts ==
    ASSUME NEW p \in Poses, NEW q \in Poses
    PROVE  /\ Compose(p, q) \in Poses
           /\ At(Compose(p, q)) = Plus(At(p), Turned(p.theta, At(q)))
           /\ Compose(p, q).theta = (p.theta + q.theta) % 4
<1>1. /\ p.theta \in Headings /\ At(p) \in Vectors
      /\ q.theta \in Headings /\ At(q) \in Vectors
  BY Components
<1>2. Plus(At(p), Turned(p.theta, At(q))) \in Vectors
  BY <1>1, Sums, TurnedTypes
<1>3. p.theta + q.theta \in Int
  BY <1>1 DEF Headings
<1> QED
  BY <1>2, <1>3, PoseParts DEF Compose

\* Distances along the axes: those of the places that ekf_predict, ekf_update and
\* publish_tf move alike stay the same.
LEMMA Lengths ==
    ASSUME NEW u \in Vectors, NEW v \in Vectors, NEW w \in Vectors
    PROVE  /\ Apart(u, v) \in Nat
           /\ Apart(u, u) = 0
           /\ Apart(Plus(u, w), Plus(v, w)) = Apart(u, v)
           /\ Apart(Minus(u, w), Minus(v, w)) = Apart(u, v)
           /\ Apart(w, Plus(w, Minus(v, u))) = Apart(u, v)
<1>1. PICK a \in Int, b \in Int, c \in Int, d \in Int, e \in Int, f \in Int :
         u = << a, b >> /\ v = << c, d >> /\ w = << e, f >>
  BY DEF Vectors
<1>2. \A x, y, z \in Int :
         /\ Distance(x, y) \in Nat /\ Distance(x, x) = 0
         /\ Distance(x + z, y + z) = Distance(x, y)
         /\ Distance(x - z, y - z) = Distance(x, y)
         /\ Distance(z, z + (y - x)) = Distance(x, y)
  BY DEF Distance
<1>3. /\ Apart(u, v) = Distance(a, c) + Distance(b, d)
      /\ Apart(u, u) = Distance(a, a) + Distance(b, b)
      /\ Apart(Plus(u, w), Plus(v, w)) = Distance(a + e, c + e) + Distance(b + f, d + f)
      /\ Apart(Minus(u, w), Minus(v, w)) = Distance(a - e, c - e) + Distance(b - f, d - f)
      /\ Apart(w, Plus(w, Minus(v, u))) = Distance(e, e + (c - a)) + Distance(f, f + (d - b))
  BY <1>1 DEF Apart, Plus, Minus
<1>4. /\ Distance(a, c) \in Nat /\ Distance(b, d) \in Nat
      /\ Distance(a, a) = 0 /\ Distance(b, b) = 0
  BY <1>2
<1>5. /\ Distance(a + e, c + e) = Distance(a, c) /\ Distance(b + f, d + f) = Distance(b, d)
      /\ Distance(a - e, c - e) = Distance(a, c) /\ Distance(b - f, d - f) = Distance(b, d)
      /\ Distance(e, e + (c - a)) = Distance(a, c) /\ Distance(f, f + (d - b)) = Distance(b, d)
  BY <1>2
<1>6. Distance(a, c) + Distance(b, d) \in Nat
  BY <1>4
<1> QED
  BY <1>3, <1>4, <1>5, <1>6

LEMMA TurnedLength ==
    ASSUME NEW q \in Headings, NEW u \in Vectors, NEW v \in Vectors
    PROVE  Apart(Turned(q, u), Turned(q, v)) = Apart(u, v)
<1>1. PICK a \in Int, b \in Int, c \in Int, d \in Int : u = << a, b >> /\ v = << c, d >>
  BY DEF Vectors
<1>2. \A x, y \in Int : Distance(-x, -y) = Distance(x, y) /\ Distance(x, y) \in Int
  BY DEF Distance
<1>3. Apart(u, v) = Distance(a, c) + Distance(b, d)
  BY <1>1 DEF Apart
<1>4. q = 0 \/ q = 1 \/ q = 2 \/ q = 3
  BY DEF Headings
<1>5. CASE q = 0
  BY <1>5 DEF Turned
<1>6. CASE q = 1
  <2>1. Apart(Turned(q, u), Turned(q, v)) = Distance(-b, -d) + Distance(a, c)
    BY <1>1, <1>6 DEF Apart, Turned
  <2> QED
    BY <1>2, <1>3, <2>1
<1>7. CASE q = 2
  <2>1. Apart(Turned(q, u), Turned(q, v)) = Distance(-a, -c) + Distance(-b, -d)
    BY <1>1, <1>7 DEF Apart, Turned
  <2> QED
    BY <1>2, <1>3, <2>1
<1>8. CASE q = 3
  <2>1. Apart(Turned(q, u), Turned(q, v)) = Distance(b, d) + Distance(-a, -c)
    BY <1>1, <1>8 DEF Apart, Turned
  <2> QED
    BY <1>2, <1>3, <2>1
<1> QED
  BY <1>4, <1>5, <1>6, <1>7, <1>8

\* A step that goes as far as it should, in the wrong direction, is off by at most
\* twice its length.
LEMMA WrongDirection ==
    ASSUME NEW u \in Vectors, NEW v \in Vectors, NEW m \in Vectors,
           NEW p \in Headings, NEW q \in Headings
    PROVE  /\ SmallLength(m) \in Nat
           /\ << SmallLength(m), 0 >> \in Vectors
           /\ Apart(Plus(u, Turned(p, << SmallLength(m), 0 >>)), Plus(v, Turned(q, m)))
                <= Apart(u, v) + 2 * SmallLength(m)
<1>1. PICK a \in Int, b \in Int, c \in Int, d \in Int, e \in Int, f \in Int :
         u = << a, b >> /\ v = << c, d >> /\ m = << e, f >>
  BY DEF Vectors
<1>2. PICK l \in Nat : l = SmallLength(m) /\ l = Distance(e, 0) + Distance(f, 0)
  <2>1. SmallLength(m) = Distance(e, 0) + Distance(f, 0)
    BY <1>1 DEF SmallLength
  <2>2. \A x \in Int : Distance(x, 0) \in Nat
    BY DEF Distance
  <2>3. Distance(e, 0) + Distance(f, 0) \in Nat
    BY <2>2
  <2> QED
    BY <2>1, <2>3
<1>3. << l, 0 >> \in Vectors
  BY DEF Vectors
<1>4. PICK g \in Int, h \in Int : /\ Turned(p, << l, 0 >>) = << g, h >>
                                  /\ Distance(g, 0) + Distance(h, 0) <= l
  <2>1. p = 0 \/ p = 1 \/ p = 2 \/ p = 3
    BY DEF Headings
  <2>2. \/ Turned(p, << l, 0 >>) = << l, 0 >>  \/ Turned(p, << l, 0 >>) = << 0, l >>
        \/ Turned(p, << l, 0 >>) = << -l, 0 >> \/ Turned(p, << l, 0 >>) = << 0, -l >>
    BY <2>1 DEF Turned
  <2>3. /\ Distance(l, 0) = l /\ Distance(-l, 0) = l /\ Distance(0, 0) = 0
        /\ l \in Int /\ -l \in Int
    BY DEF Distance
  <2> QED
    BY <2>2, <2>3
<1>5. PICK i \in Int, j \in Int : /\ Turned(q, m) = << i, j >>
                                  /\ Distance(i, 0) + Distance(j, 0) = l
  <2>1. q = 0 \/ q = 1 \/ q = 2 \/ q = 3
    BY DEF Headings
  <2>2. \/ Turned(q, m) = << e, f >>   \/ Turned(q, m) = << -f, e >>
        \/ Turned(q, m) = << -e, -f >> \/ Turned(q, m) = << f, -e >>
    BY <1>1, <2>1 DEF Turned
  <2>3. \A x \in Int : Distance(-x, 0) = Distance(x, 0) /\ Distance(x, 0) \in Int /\ -x \in Int
    BY DEF Distance
  <2> QED
    BY <1>2, <2>2, <2>3
<1>6. /\ Apart(Plus(u, Turned(p, << l, 0 >>)), Plus(v, Turned(q, m)))
           = Distance(a + g, c + i) + Distance(b + h, d + j)
      /\ Apart(u, v) = Distance(a, c) + Distance(b, d)
  BY <1>1, <1>4, <1>5 DEF Apart, Plus
<1>7. \A x, y, z, w \in Int : Distance(x + z, y + w) <= Distance(x, y) + Distance(z, 0) + Distance(w, 0)
  BY DEF Distance
<1>8. /\ Distance(a + g, c + i) <= Distance(a, c) + Distance(g, 0) + Distance(i, 0)
      /\ Distance(b + h, d + j) <= Distance(b, d) + Distance(h, 0) + Distance(j, 0)
  BY <1>7
<1>9. \A x, y \in Int : Distance(x, y) \in Int
  BY DEF Distance
<1>10. Distance(a + g, c + i) + Distance(b + h, d + j)
          <= Distance(a, c) + Distance(b, d) + 2 * l
  <2>1. /\ Distance(a + g, c + i) \in Int /\ Distance(b + h, d + j) \in Int
        /\ Distance(a, c) \in Int /\ Distance(b, d) \in Int
        /\ Distance(g, 0) \in Int /\ Distance(h, 0) \in Int
        /\ Distance(i, 0) \in Int /\ Distance(j, 0) \in Int
    <3>1. /\ a + g \in Int /\ c + i \in Int /\ b + h \in Int /\ d + j \in Int
      OBVIOUS
    <3>2. Distance(a + g, c + i) \in Int /\ Distance(b + h, d + j) \in Int
      BY <3>1 DEF Distance
    <3>3. 0 \in Int
      OBVIOUS
    <3> QED
      BY <1>9, <3>2, <3>3, Zenon
  <2> QED
    BY <1>4, <1>5, <1>8, <2>1
<1> QED
  BY <1>2, <1>3, <1>6, <1>10

\* Pose b of frame o, when the frame is moved as pose a is moved to p.
LEMMA Moved ==
    ASSUME NEW p \in Poses, NEW a \in Poses, NEW o \in Poses, NEW b \in Poses
    PROVE  /\ Compose(p, InFrame(a, o)) \in Poses
           /\ Compose(Compose(p, InFrame(a, o)), b) \in Poses
           /\ At(Compose(Compose(p, InFrame(a, o)), b))
                = Plus(At(p), Turned((p.theta - a.theta) % 4, Minus(At(Compose(o, b)), At(a))))
           /\ a.theta = Compose(o, b).theta
                => Compose(Compose(p, InFrame(a, o)), b).theta = p.theta
<1> DEFINE r == (p.theta - a.theta) % 4
           f == Compose(p, InFrame(a, o))
           d == Minus(At(o), At(a))
           t == Turned(o.theta, At(b))
<1>1. /\ p.theta \in Headings /\ At(p) \in Vectors
      /\ a.theta \in Headings /\ At(a) \in Vectors
      /\ o.theta \in Headings /\ At(o) \in Vectors
      /\ b.theta \in Headings /\ At(b) \in Vectors
  BY Components
<1>2. /\ r \in Headings /\ (-a.theta) % 4 \in Headings /\ d \in Vectors /\ t \in Vectors
      /\ (o.theta - a.theta) % 4 \in Headings
  BY <1>1, Quarters, Sums, TurnedTypes
<1>3. /\ InFrame(a, o) \in Poses
      /\ At(InFrame(a, o)) = Turned((-a.theta) % 4, d)
      /\ InFrame(a, o).theta = (o.theta - a.theta) % 4
  BY InFrameParts
<1>4. /\ f \in Poses
      /\ At(f) = Plus(At(p), Turned(p.theta, Turned((-a.theta) % 4, d)))
      /\ f.theta = (p.theta + ((o.theta - a.theta) % 4)) % 4
  BY <1>3, ComposeParts
<1>5. Turned(p.theta, Turned((-a.theta) % 4, d)) = Turned(r, d)
  <2>1. (p.theta + ((-a.theta) % 4)) % 4 = r
    BY <1>1, TurnOfTheMove
  <2> QED
    BY <1>1, <1>2, <2>1, TurnedTwice
<1>6. Turned(f.theta, At(b)) = Turned(r, t)
  <2>1. f.theta = (r + o.theta) % 4
    BY <1>1, <1>4, TurnOfTheMove
  <2> QED
    BY <1>1, <1>2, <2>1, TurnedTwice
<1>7. At(Compose(f, b)) = Plus(Plus(At(p), Turned(r, d)), Turned(r, t))
  BY <1>4, <1>5, <1>6, ComposeParts
<1>8. Plus(Plus(At(p), Turned(r, d)), Turned(r, t)) = Plus(At(p), Turned(r, Plus(d, t)))
  <2>1. Turned(r, d) \in Vectors /\ Turned(r, t) \in Vectors
    BY <1>2, TurnedTypes
  <2> HIDE DEF r, d, t
  <2> QED
    BY <1>1, <1>2, <2>1, Sums, TurnedSum
<1>9. Plus(d, t) = Minus(At(Compose(o, b)), At(a))
  BY <1>1, <1>2, ComposeParts, Sums
<1>10. ASSUME a.theta = Compose(o, b).theta PROVE Compose(f, b).theta = p.theta
  <2>1. a.theta = (o.theta + b.theta) % 4
    BY <1>10, ComposeParts
  <2>2. Compose(f, b).theta = (((p.theta + ((o.theta - a.theta) % 4)) % 4) + b.theta) % 4
    BY <1>4, ComposeParts
  <2> QED
    BY <1>1, <2>1, <2>2, TurnOfTheMove
<1>11. Compose(f, b) \in Poses
  BY <1>4, ComposeParts
<1> QED
  BY <1>4, <1>7, <1>8, <1>9, <1>10, <1>11

LEMMA InWorld ==
    ASSUME NEW a \in Poses
    PROVE  Compose(Origin, a).theta = a.theta /\ At(Compose(Origin, a)) = At(a)
<1>1. /\ At(a) \in Vectors /\ a.theta \in Headings
      /\ At(a)[1] \in Int /\ At(a)[2] \in Int /\ At(a) = << At(a)[1], At(a)[2] >>
  BY Components DEF Vectors
<1>2. Compose(Origin, a).theta = (0 + a.theta) % 4 /\ 0 + a.theta = a.theta
  BY <1>1, ComposeParts, OriginParts DEF Headings
<1>3. At(Compose(Origin, a)) = Plus(<< 0, 0 >>, At(a))
  <2>1. At(Compose(Origin, a)) = Plus(At(Origin), Turned(Origin.theta, At(a)))
    BY ComposeParts, OriginParts
  <2>2. Turned(0, At(a)) = At(a)
    BY DEF Turned
  <2> QED
    BY <2>1, <2>2, OriginParts
<1> QED
  BY <1>1, <1>2, <1>3, Quarters DEF Plus

\* Pose p is as far from where frame o says as d, and turned as it says.
Follows(p, o, a, d) ==
    LET q == Compose(o, a) IN p.theta = q.theta /\ Apart(At(p), At(q)) <= d

\* What the first message does: the frame is where the pose is.
LEMMA FirstMessage ==
    ASSUME NEW p \in Poses, NEW a \in Poses
    PROVE  Follows(p, Compose(p, InFrame(a, Origin)), a, 0)
<1> DEFINE f == Compose(p, InFrame(a, Origin))
<1>1. Compose(Origin, a).theta = a.theta /\ At(Compose(Origin, a)) = At(a)
  BY InWorld
<1>2. At(Compose(f, a)) = Plus(At(p), Turned((p.theta - a.theta) % 4, Minus(At(a), At(a))))
  BY <1>1, OriginParts, Moved
<1>3. Compose(f, a).theta = p.theta
  BY <1>1, OriginParts, Moved
<1>4. Apart(At(p), At(Compose(f, a))) = 0
  <2>1. /\ At(p) \in Vectors /\ At(a) \in Vectors
        /\ (p.theta - a.theta) % 4 \in Headings
    BY Components, Quarters
  <2>2. Minus(At(a), At(a)) = << 0, 0 >>
    BY <2>1 DEF Minus, Vectors
  <2>3. Turned((p.theta - a.theta) % 4, << 0, 0 >>) = << 0, 0 >>
    BY <2>1 DEF Turned, Headings
  <2>4. Plus(At(p), << 0, 0 >>) = At(p)
    BY <2>1 DEF Plus, Vectors
  <2> QED
    BY <1>2, <2>1, <2>2, <2>3, <2>4, Lengths
<1> QED
  BY <1>3, <1>4 DEF Follows

\* A correction moves and turns the frame with the pose.
LEMMA CorrectionFollows ==
    ASSUME NEW p \in Poses, NEW a \in Poses, NEW o \in Poses, NEW b \in Poses,
           NEW d \in Nat, Follows(a, o, b, d)
    PROVE  Follows(p, Compose(p, InFrame(a, o)), b, d)
<1> DEFINE f == Compose(p, InFrame(a, o))
           r == (p.theta - a.theta) % 4
           q == At(Compose(o, b))
<1>1. a.theta = Compose(o, b).theta /\ Apart(At(a), q) <= d
  BY DEF Follows
<1>2. /\ At(p) \in Vectors /\ At(a) \in Vectors /\ q \in Vectors /\ r \in Headings
  BY Components, Quarters, ComposeParts
<1>3. At(Compose(f, b)) = Plus(At(p), Turned(r, Minus(q, At(a))))
  BY Moved
<1>4. Compose(f, b).theta = p.theta
  BY <1>1, Moved
<1>5. Turned(r, Minus(q, At(a))) = Minus(Turned(r, q), Turned(r, At(a)))
  <2>1. r = 0 \/ r = 1 \/ r = 2 \/ r = 3
    BY <1>2 DEF Headings
  <2>2. PICK i \in Int, j \in Int, k \in Int, l \in Int : q = << i, j >> /\ At(a) = << k, l >>
    BY <1>2 DEF Vectors
  <2> HIDE DEF r, q
  <2>3. Minus(q, At(a)) = << i - k, j - l >>
    BY <2>2 DEF Minus
  <2> QED
    BY <2>1, <2>2, <2>3 DEF Turned, Minus
<1>6. Apart(At(p), At(Compose(f, b))) = Apart(At(a), q)
  <2>1. Turned(r, q) \in Vectors /\ Turned(r, At(a)) \in Vectors
    BY <1>2, TurnedTypes
  <2>2. Apart(At(p), Plus(At(p), Minus(Turned(r, q), Turned(r, At(a)))))
           = Apart(Turned(r, At(a)), Turned(r, q))
    BY <1>2, <2>1, Lengths
  <2> QED
    BY <1>2, <1>3, <1>5, <2>2, TurnedLength
<1> QED
  BY <1>1, <1>4, <1>6 DEF Follows

\* publish_tf from a pose that follows the odometry.
LEMMA TransformFollows ==
    ASSUME NEW p \in Poses, NEW o \in Poses, odom \in Poses, NEW d \in Nat,
           Follows(p, o, odom, d), ~param.identity_map_odom_tf
    PROVE  /\ MapToOdom(p) \in Poses
           /\ MapToOdom(p).theta = o.theta /\ Apart(At(MapToOdom(p)), At(o)) <= d
<1> DEFINE t == Turned(o.theta, At(odom))
           q == At(Compose(o, odom))
<1>1. /\ p.theta \in Headings /\ At(p) \in Vectors
      /\ o.theta \in Headings /\ At(o) \in Vectors
      /\ odom.theta \in Headings /\ At(odom) \in Vectors /\ t \in Vectors
  BY Components, TurnedTypes
<1>2. p.theta = (o.theta + odom.theta) % 4 /\ Apart(At(p), q) <= d /\ q = Plus(At(o), t)
  BY ComposeParts DEF Follows
<1>3. (p.theta - odom.theta) % 4 = o.theta
  BY <1>1, <1>2, TurnOfTheFrame
<1>4. MapToOdom(p) = Pose(Minus(At(p), t), o.theta)
  BY <1>3 DEF MapToOdom
<1>5. o.theta \in Int /\ o.theta % 4 = o.theta /\ Minus(At(p), t) \in Vectors
  BY <1>1, Quarters, Sums DEF Headings
<1>6. /\ MapToOdom(p) \in Poses /\ MapToOdom(p).theta = o.theta
      /\ At(MapToOdom(p)) = Minus(At(p), t)
  BY <1>4, <1>5, PoseParts
<1>7. Minus(q, t) = At(o)
  BY <1>1, <1>2 DEF Plus, Minus, Vectors
<1>8. Apart(Minus(At(p), t), At(o)) = Apart(At(p), q)
  <2>1. q \in Vectors
    BY <1>1, <1>2, Sums
  <2> HIDE DEF t, q
  <2> QED
    BY <1>1, <1>7, <2>1, Lengths
<1> QED
  BY <1>2, <1>6, <1>8

\* What ekf_predict adds to the error.
SlipOfStep == IF IsSmall(Motion) THEN SmallLength(Motion) ELSE 0

\* ekf_predict from any pose: the turn it applies is that of the frame.
LEMMA PredictedFollows ==
    ASSUME PoseTypes, has_odom, NEW d \in Nat, Follows(pose, offset, prev_odom, d)
    PROVE  /\ Predicted \in Poses /\ SlipOfStep \in Nat
           /\ Follows(Predicted, offset, odom, d + 2 * SlipOfStep)
<1> DEFINE o == offset
           a == prev_odom
           b == odom
           m == Minus(At(b), At(a))
           turn == (pose.theta - b.theta + ((b.theta - a.theta) % 4)) % 4
           step == IF IsSmall(m) THEN Turned(pose.theta, << SmallLength(m), 0 >>)
                   ELSE Turned(turn, m)
           q == At(Compose(o, a))
           t == At(Compose(o, b))
<1>1. /\ o \in Poses /\ a \in Poses /\ b \in Poses /\ pose \in Poses
      /\ o.theta \in Headings /\ a.theta \in Headings /\ b.theta \in Headings
      /\ At(o) \in Vectors /\ At(a) \in Vectors /\ At(b) \in Vectors
      /\ pose.theta \in Headings /\ At(pose) \in Vectors
  BY Components DEF PoseTypes
<1>2. /\ pose.theta = (o.theta + a.theta) % 4 /\ Apart(At(pose), q) <= d
      /\ q = Plus(At(o), Turned(o.theta, At(a)))
      /\ t = Plus(At(o), Turned(o.theta, At(b)))
      /\ Compose(o, b).theta = (o.theta + b.theta) % 4
  BY <1>1, ComposeParts DEF Follows
<1>3. /\ turn = o.theta
      /\ (pose.theta + ((b.theta - a.theta) % 4)) % 4 = (o.theta + b.theta) % 4
  BY <1>1, <1>2, TurnOfTheFrame
<1>4. m \in Vectors /\ q \in Vectors /\ t \in Vectors /\ Turned(o.theta, m) \in Vectors
  <2>1. m \in Vectors
    BY <1>1, Sums
  <2>2. q \in Vectors /\ t \in Vectors
    BY <1>1, ComposeParts, Components
  <2> HIDE DEF m
  <2> QED
    BY <1>1, <2>1, <2>2, TurnedTypes
<1>5. t = Plus(q, Turned(o.theta, m))
  <2>1. Plus(At(a), m) = At(b)
    BY <1>1 DEF Plus, Minus, Vectors
  <2>2. Turned(o.theta, At(b)) = Plus(Turned(o.theta, At(a)), Turned(o.theta, m))
    BY <1>1, <1>4, <2>1, TurnedSum
  <2>3. Turned(o.theta, At(a)) \in Vectors
    BY <1>1, TurnedTypes
  <2> HIDE DEF m
  <2> QED
    BY <1>1, <1>2, <1>4, <2>2, <2>3, Sums
<1>6. /\ SmallLength(m) \in Nat /\ << SmallLength(m), 0 >> \in Vectors
      /\ Apart(Plus(At(pose), Turned(pose.theta, << SmallLength(m), 0 >>)),
               Plus(q, Turned(o.theta, m))) <= Apart(At(pose), q) + 2 * SmallLength(m)
  BY <1>1, <1>4, WrongDirection
<1>7. Predicted = Pose(Plus(At(pose), step), pose.theta + ((b.theta - a.theta) % 4))
  BY DEF Predicted, Motion
<1>8. step \in Vectors
  BY <1>1, <1>3, <1>4, <1>6, TurnedTypes
<1>9. Plus(At(pose), step) \in Vectors /\ pose.theta + ((b.theta - a.theta) % 4) \in Int
  <2>1. (b.theta - a.theta) % 4 \in Headings
    BY <1>1, Quarters
  <2>2. pose.theta + ((b.theta - a.theta) % 4) \in Int
    BY <1>1, <2>1 DEF Headings
  <2> QED
    BY <1>1, <1>8, <2>2, Sums
<1>10. /\ Predicted \in Poses /\ At(Predicted) = Plus(At(pose), step)
       /\ Predicted.theta = Compose(o, b).theta
  <2> HIDE DEF step
  <2> QED
    BY <1>2, <1>3, <1>7, <1>9, PoseParts
<1>11. SlipOfStep = (IF IsSmall(m) THEN SmallLength(m) ELSE 0) /\ SlipOfStep \in Nat
  BY <1>6 DEF SlipOfStep, Motion
<1>12. Apart(At(Predicted), t) <= d + 2 * SlipOfStep
  <2>1. Apart(At(pose), q) \in Nat
    BY <1>1, <1>4, Lengths
  <2>2. CASE IsSmall(m)
    <3>1. At(Predicted) = Plus(At(pose), Turned(pose.theta, << SmallLength(m), 0 >>))
      BY <1>10, <2>2
    <3>2. Apart(At(Predicted), t) \in Nat
      BY <1>4, <1>9, <1>10, Lengths
    <3> HIDE DEF m, q, t
    <3> QED
      BY <1>2, <1>5, <1>6, <1>11, <2>1, <2>2, <3>1, <3>2
  <2>3. CASE ~IsSmall(m)
    <3>1. At(Predicted) = Plus(At(pose), Turned(o.theta, m))
      BY <1>3, <1>10, <2>3
    <3>2. Apart(At(Predicted), t) = Apart(At(pose), q)
      BY <1>1, <1>4, <1>5, <3>1, Lengths
    <3> QED
      BY <1>2, <1>11, <2>1, <2>3, <3>2
  <2> QED
    BY <2>2, <2>3
<1> QED
  BY <1>10, <1>11, <1>12 DEF Follows

LEMMA CorrectedTypes ==
    ASSUME NEW p \in Poses, NEW c \in Corrections(p)
    PROVE  Corrected(p, c) \in Poses
<1>1. c \in Int \X Int \X Int
  <2>1. Gains \subseteq Int \X Int \X Int
    BY LocalizationAssumption
  <2>2. NoCorrection \in Int \X Int \X Int
    BY DEF NoCorrection
  <2>3. \A z : Gained(z) \subseteq Int \X Int \X Int
    BY <2>1, <2>2 DEF Gained
  <2> QED
    BY <2>2, <2>3 DEF Corrections
<1>2. c[1] \in Int /\ c[2] \in Int /\ c[3] \in Int
  BY <1>1
<1>3. p.theta \in Headings /\ At(p) \in Vectors /\ << c[1], c[2] >> \in Vectors
  BY <1>2, Components DEF Vectors
<1>4. Plus(At(p), << c[1], c[2] >>) \in Vectors /\ p.theta + c[3] \in Int
  <2>1. Plus(At(p), << c[1], c[2] >>) \in Vectors
    BY <1>3, Sums
  <2>2. p.theta \in Int
    BY <1>3 DEF Headings
  <2>3. p.theta + c[3] \in Int
    BY <1>2, <2>2
  <2> QED
    BY <2>1, <2>3
<1> QED
  BY <1>4, PoseParts DEF Corrected
-----------------------------------------------------------------------------
LEMMA InitIInv == Init => IInv
<1> SUFFICES ASSUME Init PROVE IInv
  OBVIOUS
<1>1. robot \in Poses
  BY LocalizationAssumption DEF Init
<1>2. odom_origin \in Poses
  BY <1>1 DEF Init, Poses
<1>3. PoseTypes
  BY <1>1, <1>2, OriginParts DEF Init, PoseTypes, Messages
<1> QED
  BY <1>3 DEF Init, IInv, PoseFollowsOdometry, TransformSent, TransformIsTheFrame

\* A step that leaves the estimate alone only has to keep the types.
LEMMA Frame ==
    ASSUME IInv, UNCHANGED <<param, odomVars, poseVars, tf>>,
           robot' \in Poses, odom_origin' \in Poses,
           odom_topic' \in Messages(Poses)
    PROVE  IInv'
<1>1. UNCHANGED <<param, odom, prev_odom, has_odom, pose, offset, slips, tf>>
  BY DEF odomVars, poseVars
<1>2. PoseTypes'
  BY <1>1 DEF IInv, PoseTypes
<1>3. PoseFollowsOdometry' /\ TransformSent' /\ TransformIsTheFrame'
  BY <1>1 DEF IInv, PoseFollowsOdometry, TransformSent, TransformIsTheFrame
<1> QED
  BY <1>2, <1>3 DEF IInv

LEMMA KeepsWorld ==
    ASSUME IInv
    PROVE  /\ robot \in Poses /\ odom_origin \in Poses
           /\ odom_topic \in Messages(Poses)
BY DEF IInv, PoseTypes

LEMMA CallbackIInv ==
    ASSUME IInv, OdomCallback
    PROVE  IInv'
<1>1. /\ UNCHANGED <<param, pose, slips, tf>>
      /\ odom' = odom_topic /\ has_odom' = TRUE /\ odom_topic' = None
      /\ robot' = robot /\ odom_origin' = odom_origin
  BY DEF OdomCallback, worldVars
<1>2. odom_topic \in Poses /\ pose \in Poses /\ slips \in Nat
  BY DEF OdomCallback, IInv, PoseTypes, Messages
<1>3. CASE has_odom
  <2>1. prev_odom' = prev_odom /\ offset' = offset
    BY <1>3 DEF OdomCallback
  <2>2. PoseTypes'
    BY <1>1, <1>2, <2>1 DEF IInv, PoseTypes, Messages
  <2>3. PoseFollowsOdometry'
    BY <1>1, <1>3, <2>1 DEF IInv, PoseFollowsOdometry
  <2>4. TransformSent' /\ TransformIsTheFrame'
    BY <1>1, <2>1 DEF IInv, TransformSent, TransformIsTheFrame
  <2> QED
    BY <2>2, <2>3, <2>4 DEF IInv
<1>4. CASE ~has_odom
  <2>1. prev_odom' = odom_topic /\ offset' = Compose(pose, InFrame(odom_topic, Origin))
    BY <1>4 DEF OdomCallback
  <2>2. offset' \in Poses
    BY <1>2, <2>1, OriginParts, Moved
  <2>3. PoseTypes'
    BY <1>1, <1>2, <2>1, <2>2 DEF IInv, PoseTypes, Messages
  <2>4. Follows(pose', offset', prev_odom', 0)
    BY <1>1, <1>2, <2>1, FirstMessage
  <2>5. PoseFollowsOdometry'
    <3>1. /\ pose'.theta = Compose(offset', prev_odom').theta
          /\ Apart(At(pose'), At(Compose(offset', prev_odom'))) <= 0
      BY <2>4 DEF Follows
    <3>2. Apart(At(pose'), At(Compose(offset', prev_odom'))) \in Nat
      BY <1>1, <1>2, <2>1, <2>2, Components, ComposeParts, Lengths
    <3>3. Apart(At(pose'), At(Compose(offset', prev_odom'))) <= 2 * slips'
      BY <1>1, <1>2, <3>1, <3>2
    <3> QED
      BY <3>1, <3>3 DEF PoseFollowsOdometry
  <2>6. tf = None
    BY <1>4 DEF IInv, TransformSent
  <2>7. TransformSent' /\ TransformIsTheFrame'
    BY <1>1, <2>6 DEF TransformSent, TransformIsTheFrame
  <2> QED
    BY <2>3, <2>5, <2>7 DEF IInv
<1> QED
  BY <1>3, <1>4

LEMMA PredictedTypes ==
    ASSUME IInv
    PROVE  /\ Predicted \in Poses
           /\ has_odom => /\ SlipOfStep \in Nat
                          /\ Follows(Predicted, offset, odom, 2 * slips + 2 * SlipOfStep)
<1>1. CASE has_odom
  <2>1. Follows(pose, offset, prev_odom, 2 * slips) /\ 2 * slips \in Nat
    BY <1>1 DEF IInv, PoseFollowsOdometry, Follows, PoseTypes
  <2> QED
    BY <1>1, <2>1, PredictedFollows DEF IInv
<1>2. CASE ~has_odom
  BY <1>2 DEF Predicted, IInv, PoseTypes
<1> QED
  BY <1>1, <1>2

LEMMA StepIInv ==
    ASSUME IInv, LocalizationStep
    PROVE  IInv'
<1>1. PICK c \in Corrections(Predicted) : /\ pose' = Corrected(Predicted, c)
                                          /\ offset' = Compose(pose', InFrame(Predicted, offset))
  BY DEF LocalizationStep
<1>2. /\ UNCHANGED <<param, odom, has_odom>>
      /\ prev_odom' = (IF has_odom THEN odom ELSE prev_odom)
      /\ slips' = slips + (IF has_odom /\ IsSmall(Motion) THEN SmallLength(Motion) ELSE 0)
      /\ tf' = IF param.publish_map_odom_tf /\ has_odom THEN MapToOdom(pose') ELSE tf
      /\ robot' = robot /\ odom_origin' = odom_origin /\ odom_topic' = odom_topic
  BY DEF LocalizationStep, worldVars, topicVars
<1>3. /\ offset \in Poses /\ odom \in Poses /\ slips \in Nat /\ has_odom \in BOOLEAN
      /\ Predicted \in Poses
  BY PredictedTypes DEF IInv, PoseTypes
<1>4. pose' \in Poses
  BY <1>1, <1>3, CorrectedTypes
<1>5. offset' \in Poses
  BY <1>1, <1>3, <1>4, Moved
<1>6. /\ slips' \in Nat /\ 2 * slips' \in Nat
      /\ has_odom => 2 * slips' = 2 * slips + 2 * SlipOfStep
  <2>1. CASE has_odom
    <3>1. SlipOfStep \in Nat /\ slips' = slips + SlipOfStep
      BY <1>2, <2>1, PredictedTypes DEF SlipOfStep
    <3>2. slips + SlipOfStep \in Nat /\ 2 * (slips + SlipOfStep) \in Nat
          /\ 2 * (slips + SlipOfStep) = 2 * slips + 2 * SlipOfStep
      BY <1>3, <3>1
    <3> QED
      BY <3>1, <3>2
  <2>2. CASE ~has_odom
    <3>1. slips' = slips + 0
      BY <1>2, <2>2
    <3> QED
      BY <1>3, <2>2, <3>1
  <2> QED
    BY <2>1, <2>2
<1>7. PoseTypes'
  BY <1>2, <1>4, <1>5, <1>6 DEF IInv, PoseTypes
<1>8. CASE has_odom
  <2>1. Follows(pose', offset', odom, 2 * slips')
    <3>1. 2 * slips' \in Nat /\ Follows(Predicted, offset, odom, 2 * slips')
      BY <1>6, <1>8, PredictedTypes
    <3> QED
      BY <1>1, <1>3, <1>4, <3>1, CorrectionFollows
  <2>2. PoseFollowsOdometry'
    <3>1. prev_odom' = odom
      BY <1>2, <1>8
    <3>2. /\ pose'.theta = Compose(offset', prev_odom').theta
          /\ Apart(At(pose'), At(Compose(offset', prev_odom'))) <= 2 * slips'
      BY <2>1, <3>1 DEF Follows
    <3> QED
      BY <3>2 DEF PoseFollowsOdometry
  <2>3. CASE param.publish_map_odom_tf
    <3>1. tf' = MapToOdom(pose') /\ TransformSent'
      BY <1>2, <1>8, <2>3 DEF TransformSent
    <3>2. CASE param.identity_map_odom_tf
      <4>1. tf' = Origin /\ param'.identity_map_odom_tf
        BY <1>2, <3>1, <3>2 DEF MapToOdom
      <4>2. TransformIsTheFrame'
        BY <4>1, Zenon DEF TransformIsTheFrame
      <4> QED
        BY <1>7, <2>2, <3>1, <4>2 DEF IInv
    <3>3. CASE ~param.identity_map_odom_tf
      <4>1. 2 * slips' \in Nat
        BY <1>6
      <4>2. /\ MapToOdom(pose').theta = offset'.theta
            /\ Apart(At(MapToOdom(pose')), At(offset')) <= 2 * slips'
        BY <1>3, <1>4, <1>5, <2>1, <3>3, <4>1, TransformFollows
      <4>3. /\ ~param'.identity_map_odom_tf /\ tf'.theta = offset'.theta
            /\ Apart(At(tf'), At(offset')) <= 2 * slips'
        BY <1>2, <3>1, <3>3, <4>2
      <4>4. TransformIsTheFrame'
        BY <4>3 DEF TransformIsTheFrame
      <4> QED
        BY <1>7, <2>2, <3>1, <4>4 DEF IInv
    <3> QED
      BY <3>2, <3>3
  <2>4. CASE ~param.publish_map_odom_tf
    <3>1. tf = None /\ tf' = tf
      BY <1>2, <2>4 DEF IInv, TransformSent
    <3> QED
      BY <1>7, <2>2, <3>1 DEF IInv, TransformSent, TransformIsTheFrame
  <2> QED
    BY <2>3, <2>4
<1>9. CASE ~has_odom
  <2>1. ~has_odom' /\ tf = None /\ tf' = tf
    BY <1>2, <1>9 DEF IInv, TransformSent
  <2> QED
    BY <1>7, <2>1 DEF IInv, PoseFollowsOdometry, TransformSent, TransformIsTheFrame
<1> QED
  BY <1>8, <1>9

LEMMA NextIInv == IInv /\ [Next]_vars => IInv'
<1> SUFFICES ASSUME IInv, [Next]_vars PROVE IInv'
  OBVIOUS
<1>0. /\ robot \in Poses /\ odom_origin \in Poses
      /\ odom_topic \in Messages(Poses)
  BY KeepsWorld
<1>1. ASSUME NEW stride \in Strides, Drive(stride) PROVE IInv'
  <2>1. robot' \in Poses
    <3>1. << stride, 0 >> \in Vectors
      BY LocalizationAssumption DEF Vectors
    <3>2. Pose(<< stride, 0 >>, 0) \in Poses
      BY <3>1, PoseParts
    <3> QED
      BY <1>0, <1>1, <3>2, ComposeParts DEF Drive
  <2> QED
    BY <1>0, <1>1, <2>1, Frame DEF Drive, topicVars
<1>2. CASE Turn
  <2>1. robot' \in Poses
    <3>1. (robot.theta + 1) % 4 \in Headings
      BY <1>0, Components, Quarters DEF Headings
    <3> QED
      BY <1>0, <1>2, <3>1 DEF Turn, Poses
  <2> QED
    BY <1>0, <1>2, <2>1, Frame DEF Turn, topicVars
<1>3. CASE ResetOdometry
  BY <1>0, <1>3, Frame DEF ResetOdometry, topicVars
<1>4. CASE SenseOdometry
  <2>1. InFrame(odom_origin, robot) \in Poses
    BY <1>0, InFrameParts
  <2>2. odom_topic' \in Messages(Poses)
    BY <1>4, <2>1 DEF SenseOdometry, Messages
  <2> QED
    BY <1>0, <1>4, <2>2, Frame DEF SenseOdometry, worldVars
<1>5. CASE SenseScan
  BY <1>0, <1>5, Frame DEF SenseScan, worldVars
<1>6. CASE OdomCallback
  BY <1>6, CallbackIInv
<1>7. CASE ScanCallback
  BY <1>0, <1>7, Frame DEF ScanCallback, worldVars
<1>8. CASE LocalizationStep
  BY <1>8, StepIInv
<1>9. CASE PublishMap
  BY <1>0, <1>9, Frame DEF PublishMap, worldVars, topicVars
<1>10. CASE UNCHANGED vars
  BY <1>0, <1>10, Frame DEF vars, worldVars, topicVars
<1> QED
  BY <1>1, <1>2, <1>3, <1>4, <1>5, <1>6, <1>7, <1>8, <1>9, <1>10 DEF Next

LEMMA Inductive == Spec => []IInv
BY InitIInv, NextIInv, PTL DEF Spec

\* Dead reckoning is right for every sequence of messages, resets, ticks and
\* corrections: ekf_predict loses no motion that the odometry reported, applies
\* none twice and turns it as the pose is turned, but for the steps below 1e-4 m.
THEOREM PoseSafe == Spec => []PoseFollowsOdometry
<1>1. IInv => PoseFollowsOdometry
  BY DEF IInv
<1> QED
  BY <1>1, Inductive, PTL

\* The transform publish_tf sends is the frame the odometry is in on the map: the
\* corrections move and turn it, and the robot's motion does only by those steps.
THEOREM TransformSafe == Spec => []TransformIsTheFrame
<1>1. IInv => TransformIsTheFrame
  BY DEF IInv
<1> QED
  BY <1>1, Inductive, PTL

-----------------------------------------------------------------------------
(* The loop of trace_ray.                                                  *)

\* The bound on the distance from the line, for the whole numbers of a ray.
Near(dx, dy, i, j) ==
    /\ 2 * (dx * j - dy * i) <= (IF dx < dy THEN dy ELSE dx)
    /\ 2 * (dy * i - dx * j) <= (IF dx < dy THEN dy ELSE dx)

\* The products of the step below, in the form linear arithmetic needs.
LEMMA RayProducts ==
    ASSUME NEW d \in Nat, NEW m \in Nat, NEW k \in Nat, k <= m
    PROVE  /\ d * k \in Nat /\ d * m \in Nat
           /\ d * (k + 1) = d * k + d
           /\ k < m => d * k <= d * m - d
           /\ k = m => d * k = d * m
<1>1. d * k \in Nat /\ d * m \in Nat /\ d * (m - k) \in Nat
  BY SMTT(30)
<1>2. d * (k + 1) = d * k + d
  BY SMTT(30)
<1>3. d * m = d * k + d * (m - k)
  BY SMTT(30)
<1>4. ASSUME k < m PROVE d <= d * (m - k)
  <2>1. PICK n \in Nat : m - k = n + 1
    BY <1>4
  <2>2. d * (n + 1) = d * n + d /\ d * n \in Nat
    BY SMTT(30)
  <2> QED
    BY <2>1, <2>2
<1> QED
  BY <1>1, <1>2, <1>3, <1>4

\* On a diagonal the cursor stays on the line.
LEMMA Diagonal ==
    ASSUME NEW d \in Nat, d > 0, NEW i \in Nat, NEW j \in Nat,
           2 * (d * j - d * i) <= d, 2 * (d * i - d * j) <= d
    PROVE  d * j = d * i
<1>1. CASE i = j
  BY <1>1
<1>2. CASE i < j
  <2>1. d * i <= d * j - d /\ d * i \in Nat /\ d * j \in Nat
    BY <1>2, RayProducts
  <2> QED
    BY <2>1
<1>3. CASE j < i
  <2>1. d * j <= d * i - d /\ d * i \in Nat /\ d * j \in Nat
    BY <1>3, RayProducts
  <2> QED
    BY <2>1
<1> QED
  BY <1>1, <1>2, <1>3

\* One iteration, for the longer axis x: x is always stepped.
LEMMA StepAlongX ==
    ASSUME NEW dx \in Nat, NEW dy \in Nat, NEW i \in Nat, NEW j \in Nat,
           dy <= dx, i <= dx, j <= dy, ~(i = dx /\ j = dy),
           Near(dx, dy, i, j),
           NEW err \in Int, err = dx - dy + dx * j - dy * i
    PROVE  /\ 2 * err > -dy
           /\ i < dx
           /\ 2 * err < dx => j < dy /\ Near(dx, dy, i + 1, j + 1)
           /\ ~(2 * err < dx) => Near(dx, dy, i + 1, j)
<1>1. /\ dx * j \in Nat /\ dy * i \in Nat /\ dx * dy \in Nat
      /\ dx * (j + 1) = dx * j + dx
      /\ dy * (i + 1) = dy * i + dy
      /\ j < dy => dx * j <= dx * dy - dx
      /\ j = dy => dx * j = dx * dy
  BY RayProducts
<1>2. /\ i < dx => dy * i <= dy * dx - dy
      /\ i = dx => dy * i = dy * dx
      /\ dy * dx = dx * dy
  BY RayProducts, SMTT(30)
<1>3. 2 * (dx * j - dy * i) <= dx /\ 2 * (dy * i - dx * j) <= dx
  BY DEF Near
<1>4. dx > 0
  OBVIOUS
<1>5. dx = dy => dx * j = dy * i
  BY <1>3, <1>4, Diagonal
<1>6. i < dx
  BY <1>1, <1>2, <1>3, <1>4
<1>7. 2 * err > -dy
  BY <1>1, <1>3, <1>4, <1>5
<1>8. 2 * err < dx => j < dy
  BY <1>1, <1>2, <1>6
<1>9. 2 * err < dx => Near(dx, dy, i + 1, j + 1)
  BY <1>1, <1>3 DEF Near
<1>10. ~(2 * err < dx) => Near(dx, dy, i + 1, j)
  BY <1>1, <1>3 DEF Near
<1> QED
  BY <1>6, <1>7, <1>8, <1>9, <1>10

\* One iteration, for the longer axis y: y is always stepped.
LEMMA StepAlongY ==
    ASSUME NEW dx \in Nat, NEW dy \in Nat, NEW i \in Nat, NEW j \in Nat,
           dx < dy, i <= dx, j <= dy, ~(i = dx /\ j = dy),
           Near(dx, dy, i, j),
           NEW err \in Int, err = dx - dy + dx * j - dy * i
    PROVE  /\ 2 * err < dx
           /\ j < dy
           /\ 2 * err > -dy => i < dx /\ Near(dx, dy, i + 1, j + 1)
           /\ ~(2 * err > -dy) => Near(dx, dy, i, j + 1)
<1>1. /\ dx * j \in Nat /\ dy * i \in Nat /\ dx * dy \in Nat
      /\ dx * (j + 1) = dx * j + dx
      /\ dy * (i + 1) = dy * i + dy
      /\ j < dy => dx * j <= dx * dy - dx
      /\ j = dy => dx * j = dx * dy
  BY RayProducts
<1>2. /\ i < dx => dy * i <= dy * dx - dy
      /\ i = dx => dy * i = dy * dx
      /\ dy * dx = dx * dy
  BY RayProducts, SMTT(30)
<1>3. 2 * (dx * j - dy * i) <= dy /\ 2 * (dy * i - dx * j) <= dy
  BY DEF Near
<1>4. dy > 0
  OBVIOUS
<1>5. j < dy
  BY <1>1, <1>2, <1>3, <1>4
<1>6. 2 * err < dx
  BY <1>1, <1>3, <1>4
<1>7. 2 * err > -dy => i < dx
  BY <1>1, <1>2, <1>5
<1>8. 2 * err > -dy => Near(dx, dy, i + 1, j + 1)
  BY <1>1, <1>3 DEF Near
<1>9. ~(2 * err > -dy) => Near(dx, dy, i, j + 1)
  BY <1>1, <1>3 DEF Near
<1> QED
  BY <1>5, <1>6, <1>7, <1>8, <1>9
-----------------------------------------------------------------------------
(* What holds of the cursor r of a ray from f to t.                        *)

\* The cells gone along each axis, of those there are.
Gone(f, r, k) == Distance(f[k], r.cell[k])
All(f, t, k)  == Distance(f[k], t[k])

\* The cells gone along the longer axis: one more with every iteration.
Steps(f, t, r) == IF All(f, t, 1) < All(f, t, 2) THEN Gone(f, r, 2) ELSE Gone(f, r, 1)

\* r is between the ends and close to the line, and err says how far it is off.
OnRay(f, t, r) ==
    /\ r \in [cell : Int \X Int, err : Int]
    /\ \A k \in 1 .. 2 : /\ Gone(f, r, k) <= All(f, t, k)
                         /\ r.cell[k] = f[k] + Gone(f, r, k) * Direction(f[k], t[k])
    /\ r.err = All(f, t, 1) - All(f, t, 2)
                 + All(f, t, 1) * Gone(f, r, 2) - All(f, t, 2) * Gone(f, r, 1)
    /\ Near(All(f, t, 1), All(f, t, 2), Gone(f, r, 1), Gone(f, r, 2))

\* The cells taken along one axis, after a step of s cells in its direction.
LEMMA Advance ==
    ASSUME NEW a \in Int, NEW t \in Int, NEW c \in Int, NEW s \in {0, 1},
           c = a + Distance(a, c) * Direction(a, t)
    PROVE  /\ Distance(a, c + s * Direction(a, t)) = Distance(a, c) + s
           /\ c + s * Direction(a, t) = a + (Distance(a, c) + s) * Direction(a, t)
           /\ Distance(a, c) \in Nat /\ Distance(a, t) \in Nat
           /\ c + s * Direction(a, t) \in Int
<1>1. CASE a < t
  BY <1>1 DEF Distance, Direction
<1>2. CASE ~(a < t)
  BY <1>2 DEF Distance, Direction
<1> QED
  BY <1>1, <1>2

LEMMA Coordinates ==
    ASSUME NEW v \in Int \X Int
    PROVE  v[1] \in Int /\ v[2] \in Int /\ v = << v[1], v[2] >>
OBVIOUS

LEMMA Numbers ==
    ASSUME NEW f \in Int \X Int, NEW t \in Int \X Int, NEW r, OnRay(f, t, r)
    PROVE  /\ Gone(f, r, 1) \in Nat /\ Gone(f, r, 2) \in Nat
           /\ All(f, t, 1) \in Nat /\ All(f, t, 2) \in Nat
           /\ Gone(f, r, 1) <= All(f, t, 1) /\ Gone(f, r, 2) <= All(f, t, 2)
           /\ r.cell[1] = f[1] + Gone(f, r, 1) * Direction(f[1], t[1])
           /\ r.cell[2] = f[2] + Gone(f, r, 2) * Direction(f[2], t[2])
           /\ r.cell[1] \in Int /\ r.cell[2] \in Int /\ r.err \in Int
           /\ r.cell = << r.cell[1], r.cell[2] >>
<1>1. /\ f[1] \in Int /\ f[2] \in Int /\ t[1] \in Int /\ t[2] \in Int
  BY Coordinates
<1>2. r.cell \in Int \X Int /\ r.err \in Int
  BY DEF OnRay
<1>3. r.cell[1] \in Int /\ r.cell[2] \in Int /\ r.cell = << r.cell[1], r.cell[2] >>
  BY <1>2, Coordinates
<1>4. /\ Gone(f, r, 1) \in Nat /\ Gone(f, r, 2) \in Nat
      /\ All(f, t, 1) \in Nat /\ All(f, t, 2) \in Nat
  BY <1>1, <1>3 DEF Gone, All, Distance
<1>5. 1 \in 1 .. 2 /\ 2 \in 1 .. 2
  OBVIOUS
<1> QED
  BY <1>2, <1>3, <1>4, <1>5 DEF OnRay

\* Where both axes are done the cursor is at the target.
LEMMA BothGone ==
    ASSUME NEW f \in Int \X Int, NEW t \in Int \X Int, NEW r, OnRay(f, t, r),
           Gone(f, r, 1) = All(f, t, 1), Gone(f, r, 2) = All(f, t, 2)
    PROVE  r.cell = t
<1>1. /\ f[1] \in Int /\ f[2] \in Int /\ t[1] \in Int /\ t[2] \in Int
      /\ t = << t[1], t[2] >>
  BY Coordinates
<1>2. /\ f[1] + All(f, t, 1) * Direction(f[1], t[1]) = t[1]
      /\ f[2] + All(f, t, 2) * Direction(f[2], t[2]) = t[2]
  BY <1>1 DEF All, Distance, Direction
<1> QED
  BY <1>1, <1>2, Numbers

LEMMA StartOnRay ==
    ASSUME NEW f \in Int \X Int, NEW t \in Int \X Int
    PROVE  /\ OnRay(f, t, RayStart(f, t))
           /\ Steps(f, t, RayStart(f, t)) = 0
<1> DEFINE r == RayStart(f, t)
<1>1. /\ f[1] \in Int /\ f[2] \in Int /\ t[1] \in Int /\ t[2] \in Int
  BY Coordinates
<1>2. /\ r = [cell |-> f, err |-> All(f, t, 1) - All(f, t, 2)]
      /\ r.cell = f /\ r.err = All(f, t, 1) - All(f, t, 2)
  BY DEF RayStart, All
<1>3. /\ All(f, t, 1) \in Nat /\ All(f, t, 2) \in Nat
      /\ Gone(f, r, 1) = 0 /\ Gone(f, r, 2) = 0
  BY <1>1, <1>2 DEF Gone, All, Distance
<1>4. /\ Direction(f[1], t[1]) \in Int /\ Direction(f[2], t[2]) \in Int
  BY DEF Direction
<1>5. r \in [cell : Int \X Int, err : Int]
  BY <1>2, <1>3
<1> HIDE DEF r
<1>6. \A k \in 1 .. 2 : /\ Gone(f, r, k) <= All(f, t, k)
                        /\ r.cell[k] = f[k] + Gone(f, r, k) * Direction(f[k], t[k])
  BY <1>1, <1>2, <1>3, <1>4
<1>7. r.err = All(f, t, 1) - All(f, t, 2)
                 + All(f, t, 1) * Gone(f, r, 2) - All(f, t, 2) * Gone(f, r, 1)
  BY <1>2, <1>3
<1>8. Near(All(f, t, 1), All(f, t, 2), Gone(f, r, 1), Gone(f, r, 2))
  BY <1>3 DEF Near
<1>9. OnRay(f, t, r) /\ Steps(f, t, r) = 0
  BY <1>3, <1>5, <1>6, <1>7, <1>8 DEF OnRay, Steps
<1> QED
  BY <1>9 DEF r

\* One iteration of the loop on the cursor, before its end.
LEMMA StepOnRay ==
    ASSUME NEW f \in Int \X Int, NEW t \in Int \X Int, NEW r, OnRay(f, t, r), r.cell # t
    PROVE  LET next == RayStep(f, t, r)
           IN  /\ OnRay(f, t, next)
               /\ Steps(f, t, next) = Steps(f, t, r) + 1
               /\ Gone(f, r, 1) <= Gone(f, next, 1) /\ Gone(f, r, 2) <= Gone(f, next, 2)
<1> DEFINE DX == All(f, t, 1)
           DY == All(f, t, 2)
           i == Gone(f, r, 1)
           j == Gone(f, r, 2)
           sx == IF StepsX(f, t, r.err) THEN 1 ELSE 0
           sy == IF StepsY(f, t, r.err) THEN 1 ELSE 0
           next == RayStep(f, t, r)
<1>1. f[1] \in Int /\ f[2] \in Int /\ t[1] \in Int /\ t[2] \in Int
  BY Coordinates
<1>2. /\ r.cell[1] \in Int /\ r.cell[2] \in Int /\ r.err \in Int
      /\ i \in Nat /\ j \in Nat /\ DX \in Nat /\ DY \in Nat
      /\ i <= DX /\ j <= DY
      /\ r.cell[1] = f[1] + i * Direction(f[1], t[1])
      /\ r.cell[2] = f[2] + j * Direction(f[2], t[2])
  BY Numbers
<1>4. ~(i = DX /\ j = DY)
  BY BothGone
<1>5. sx \in {0, 1} /\ sy \in {0, 1}
  OBVIOUS
<1>6. /\ next.cell = << r.cell[1] + sx * Direction(f[1], t[1]),
                        r.cell[2] + sy * Direction(f[2], t[2]) >>
      /\ next.err = r.err - sx * DY + sy * DX
      /\ next = [cell |-> next.cell, err |-> next.err]
  BY DEF RayStep, All
<1>7. /\ Gone(f, next, 1) = i + sx
      /\ Gone(f, next, 2) = j + sy
      /\ next.cell[1] = f[1] + (i + sx) * Direction(f[1], t[1])
      /\ next.cell[2] = f[2] + (j + sy) * Direction(f[2], t[2])
      /\ next.cell[1] \in Int /\ next.cell[2] \in Int
  BY <1>1, <1>2, <1>5, <1>6, Advance DEF Gone
<1>8. /\ sx = 1 <=> 2 * r.err > -DY
      /\ sy = 1 <=> 2 * r.err < DX
  BY DEF StepsX, StepsY, All
<1>9. r.err = DX - DY + DX * j - DY * i /\ Near(DX, DY, i, j)
  BY DEF OnRay
<1>10. /\ i + sx <= DX /\ j + sy <= DY /\ Near(DX, DY, i + sx, j + sy)
       /\ DX < DY => sy = 1
       /\ ~(DX < DY) => sx = 1
  <2> HIDE DEF i, j, sx, sy, next, DX, DY
  <2>1. CASE DY <= DX
    <3>1. /\ 2 * r.err > -DY /\ i < DX
          /\ 2 * r.err < DX => j < DY /\ Near(DX, DY, i + 1, j + 1)
          /\ ~(2 * r.err < DX) => Near(DX, DY, i + 1, j)
      BY <2>1, <1>2, <1>4, <1>9, StepAlongX
    <3>2. sx = 1
      BY <3>1, <1>8
    <3>3. CASE sy = 1
      BY <3>1, <3>2, <3>3, <2>1, <1>2, <1>8
    <3>4. CASE sy = 0
      <4>1. j + sy = j /\ ~(2 * r.err < DX)
        BY <3>4, <1>2, <1>8
      <4> QED
        BY <4>1, <3>1, <3>2, <2>1, <1>2
    <3> QED
      BY <3>3, <3>4, <1>5
  <2>2. CASE DX < DY
    <3>1. /\ 2 * r.err < DX /\ j < DY
          /\ 2 * r.err > -DY => i < DX /\ Near(DX, DY, i + 1, j + 1)
          /\ ~(2 * r.err > -DY) => Near(DX, DY, i, j + 1)
      BY <2>2, <1>2, <1>4, <1>9, StepAlongY
    <3>2. sy = 1
      BY <3>1, <1>8
    <3>3. CASE sx = 1
      BY <3>1, <3>2, <3>3, <2>2, <1>2, <1>8
    <3>4. CASE sx = 0
      <4>1. i + sx = i /\ ~(2 * r.err > -DY)
        BY <3>4, <1>2, <1>8
      <4> QED
        BY <4>1, <3>1, <3>2, <2>2, <1>2
    <3> QED
      BY <3>3, <3>4, <1>5
  <2> QED
    BY <2>1, <2>2, <1>2
<1>11. next.err = DX - DY + DX * (j + sy) - DY * (i + sx)
  <2> HIDE DEF i, j, sx, sy, next, DX, DY
  <2>1. /\ DX * (j + 1) = DX * j + DX /\ DX * j \in Nat
        /\ DY * (i + 1) = DY * i + DY /\ DY * i \in Nat
    BY <1>2, RayProducts
  <2>2. DX * (j + sy) = DX * j + sy * DX
    BY <2>1, <1>2, <1>5
  <2>3. DY * (i + sx) = DY * i + sx * DY
    BY <2>1, <1>2, <1>5
  <2>4. sy * DX \in Int /\ sx * DY \in Int
    BY <1>2, <1>5
  <2> QED
    BY <2>1, <2>2, <2>3, <2>4, <1>2, <1>6, <1>9
<1>12. next.err \in Int
  <2> HIDE DEF i, j, sx, sy, next, DX, DY
  <2> QED
    BY <1>2, <1>5, <1>6
<1>13. next \in [cell : Int \X Int, err : Int]
  <2>1. next.cell \in Int \X Int
    BY <1>6, <1>7
  <2> QED
    BY <2>1, <1>6, <1>12
<1> HIDE DEF i, j, sx, sy, next, DX, DY
<1>14. \A k \in 1 .. 2 : /\ Gone(f, next, k) <= All(f, t, k)
                         /\ next.cell[k] = f[k] + Gone(f, next, k) * Direction(f[k], t[k])
  BY <1>7, <1>10 DEF DX, DY
<1>15. OnRay(f, t, next)
  BY <1>7, <1>10, <1>11, <1>13, <1>14 DEF OnRay, DX, DY
<1>16. Steps(f, t, next) = Steps(f, t, r) + 1
  BY <1>2, <1>7, <1>10 DEF Steps, DX, DY, i, j
<1>17. i <= Gone(f, next, 1) /\ j <= Gone(f, next, 2)
  BY <1>2, <1>5, <1>7
<1> QED
  BY <1>15, <1>16, <1>17 DEF next, i, j
-----------------------------------------------------------------------------
(* The cursors of a whole ray.                                             *)

\* The principle of the least number.
LEMMA Least ==
    ASSUME NEW T \in SUBSET Nat, T # {}
    PROVE  \E x \in T : \A y \in T : x <= y
<1>1. \E x \in T : \A y \in T : ~(<<y, x>> \in OpToRel(<, Nat))
  BY NatLessThanWellFounded, WFMin
<1>2. OpToRel(<, Nat) = {ss \in Nat \X Nat : ss[1] < ss[2]}
  BY DEF OpToRel
<1>3. PICK x \in T : \A y \in T : ~(<<y, x>> \in {ss \in Nat \X Nat : ss[1] < ss[2]})
  BY <1>1, <1>2, Zenon
<1>4. ASSUME NEW y \in T PROVE x <= y
  <2>1. ~(<<y, x>> \in {ss \in Nat \X Nat : ss[1] < ss[2]})
    BY <1>3
  <2>2. y \in Nat /\ x \in Nat
    OBVIOUS
  <2>3. ~(y < x)
    BY <2>1, <2>2
  <2> QED
    BY <2>2, <2>3
<1> QED
  BY <1>4

\* Induction on the numbers from m to n.
LEMMA Climb ==
    ASSUME NEW m \in Int, NEW n \in Int, NEW T, m \in T,
           \A i \in m .. n - 1 : i \in T => i + 1 \in T
    PROVE  \A i \in m .. n : i \in T
<1> SUFFICES ASSUME NEW i \in m .. n, i \notin T PROVE FALSE
  OBVIOUS
<1> DEFINE Missed == {k \in Nat : m + k <= n /\ m + k \notin T}
<1>1. i - m \in Missed
  OBVIOUS
<1>2. PICK k \in Missed : \A j \in Missed : k <= j
  BY <1>1, Least, Missed \in SUBSET Nat
<1>3. k # 0
  BY <1>2
<1>4. m + (k - 1) \in T
  <2>1. k - 1 \notin Missed /\ k - 1 \in Nat
    BY <1>2, <1>3
  <2> QED
    BY <2>1, <1>2
<1>5. m + (k - 1) \in m .. n - 1 /\ m + (k - 1) + 1 = m + k
  BY <1>2, <1>3
<1> QED
  BY <1>2, <1>4, <1>5

\* A function that starts from a and goes on with the elements that step gives
\* for their place and the one before them.
Iterates(f, n, a, step) ==
    f[0] = a /\ \A i \in 1 .. n : f[i] = step[<< i, f[i - 1] >>]

LEMMA Iteration ==
    ASSUME NEW n \in Nat, NEW S, NEW a \in S, NEW step \in [(1 .. n) \X S -> S]
    PROVE  \E f \in [0 .. n -> S] : Iterates(f, n, a, step)
<1> DEFINE Fits(f, m) == f[0] = a /\ \A i \in 1 .. m : f[i] = step[<< i, f[i - 1] >>]
           T == {m \in 0 .. n : \E f \in [0 .. m -> S] : Fits(f, m)}
<1>1. 0 \in T
  <2>1. [i \in 0 .. 0 |-> a] \in [0 .. 0 -> S] /\ Fits([i \in 0 .. 0 |-> a], 0)
    OBVIOUS
  <2>2. 0 \in 0 .. n
    OBVIOUS
  <2> HIDE DEF Fits
  <2> QED
    BY <2>1, <2>2
<1>2. \A m \in 0 .. n - 1 : m \in T => m + 1 \in T
  <2> SUFFICES ASSUME NEW m \in 0 .. n - 1, m \in T PROVE m + 1 \in T
    OBVIOUS
  <2>1. PICK f \in [0 .. m -> S] : Fits(f, m)
    OBVIOUS
  <2> DEFINE g == [i \in 0 .. m + 1 |-> IF i <= m THEN f[i] ELSE step[<< m + 1, f[m] >>]]
  <2>2. f[m] \in S /\ << m + 1, f[m] >> \in (1 .. n) \X S
    OBVIOUS
  <2>3. g \in [0 .. m + 1 -> S]
    BY <2>2
  <2>4. g[m + 1] = step[<< m + 1, f[m] >>] /\ \A i \in 0 .. m : g[i] = f[i]
    OBVIOUS
  <2> HIDE DEF g
  <2>5. g[0] = a
    BY <2>1, <2>4
  <2>6. ASSUME NEW i \in 1 .. m + 1 PROVE g[i] = step[<< i, g[i - 1] >>]
    <3>1. CASE i = m + 1
      BY <3>1, <2>4
    <3>2. CASE i \in 1 .. m
      <4>1. i \in 0 .. m /\ i - 1 \in 0 .. m
        BY <3>2
      <4> QED
        BY <3>2, <4>1, <2>1, <2>4
    <3> QED
      BY <3>1, <3>2
  <2>7. Fits(g, m + 1)
    BY <2>5, <2>6
  <2>8. m + 1 \in 0 .. n
    OBVIOUS
  <2> HIDE DEF Fits
  <2> QED
    BY <2>3, <2>7, <2>8
<1>3. n \in T
  <2>1. 0 \in Int /\ n \in Int /\ n \in 0 .. n
    OBVIOUS
  <2> HIDE DEF T
  <2>2. \A m \in 0 .. n : m \in T
    BY <1>1, <1>2, <2>1, Climb
  <2> QED
    BY <2>1, <2>2
<1> QED
  BY <1>3 DEF Iterates

LEMMA RayLengthIs ==
    ASSUME NEW f \in Int \X Int, NEW t \in Int \X Int
    PROVE  /\ RayLength(f, t) = IF All(f, t, 1) < All(f, t, 2) THEN All(f, t, 2)
                                                               ELSE All(f, t, 1)
           /\ RayLength(f, t) \in Nat
<1>1. /\ f[1] \in Int /\ f[2] \in Int /\ t[1] \in Int /\ t[2] \in Int
  BY Coordinates
<1>2. /\ All(f, t, 1) \in Nat /\ All(f, t, 2) \in Nat
  BY <1>1 DEF All, Distance
<1>3. RayLength(f, t) = IF All(f, t, 1) < All(f, t, 2) THEN All(f, t, 2)
                                                       ELSE All(f, t, 1)
  BY DEF RayLength, All
<1> QED
  BY <1>2, <1>3

\* The cursors of the loop, whose number is that of the iterations.
LEMMA CursorsStep ==
    ASSUME NEW f \in Int \X Int, NEW t \in Int \X Int
    PROVE  /\ Cursors(f, t)[0] = RayStart(f, t)
           /\ \A i \in 1 .. RayLength(f, t) :
                 Cursors(f, t)[i] = RayStep(f, t, Cursors(f, t)[i - 1])
<1> DEFINE n == RayLength(f, t)
           S == [cell : Int \X Int, err : Int]
           Body(g, i) == IF i = 0 THEN RayStart(f, t) ELSE RayStep(f, t, g[i - 1])
           step == [x \in (1 .. n) \X S |-> RayStep(f, t, x[2])]
           w == CHOOSE g : g = [i \in 0 .. n |-> Body(g, i)]
<1>1. /\ f[1] \in Int /\ f[2] \in Int /\ t[1] \in Int /\ t[2] \in Int /\ n \in Nat
  BY Coordinates, RayLengthIs
<1>2. RayStart(f, t) \in S
  BY StartOnRay DEF OnRay
<1>3. ASSUME NEW r \in S PROVE RayStep(f, t, r) \in S
  <2>1. r.cell[1] \in Int /\ r.cell[2] \in Int /\ r.err \in Int
    OBVIOUS
  <2>2. /\ Distance(f[1], t[1]) \in Int /\ Distance(f[2], t[2]) \in Int
        /\ Direction(f[1], t[1]) \in Int /\ Direction(f[2], t[2]) \in Int
    BY <1>1 DEF Distance, Direction
  <2> QED
    BY <2>1, <2>2 DEF RayStep
<1>4. step \in [(1 .. n) \X S -> S]
  <2> HIDE DEF S, n
  <2>1. \A x \in (1 .. n) \X S : x[2] \in S
    OBVIOUS
  <2> QED
    BY <1>3, <2>1
<1>5. \A i \in 1 .. n : \A r \in S : step[<< i, r >>] = RayStep(f, t, r)
  OBVIOUS
<1> HIDE DEF S, step, n
<1>6. PICK g \in [0 .. n -> S] : g[0] = RayStart(f, t)
                                 /\ \A i \in 1 .. n : g[i] = step[<< i, g[i - 1] >>]
  <2>1. \E g \in [0 .. n -> S] : Iterates(g, n, RayStart(f, t), step)
    BY <1>1, <1>2, <1>4, Iteration, Zenon
  <2> QED
    BY <2>1 DEF Iterates
<1>7. ASSUME NEW i \in 0 .. n PROVE g[i] = Body(g, i)
  <2>1. CASE i = 0
    BY <2>1, <1>6
  <2>2. CASE i # 0
    <3>1. i \in 1 .. n /\ i - 1 \in 0 .. n
      BY <2>2, <1>1
    <3>2. g[i - 1] \in S
      BY <3>1
    <3>3. g[i] = RayStep(f, t, g[i - 1])
      BY <3>1, <3>2, <1>5, <1>6
    <3> QED
      BY <3>3, <2>2
  <2> QED
    BY <2>1, <2>2
<1>8. g = [i \in 0 .. n |-> Body(g, i)]
  <2> HIDE DEF Body
  <2> QED
    BY <1>7
<1>9. w = [i \in 0 .. n |-> Body(w, i)]
  <2> HIDE DEF Body
  <2> QED
    BY <1>8
<1>10. Cursors(f, t) = w
  BY DEF Cursors, n
<1> HIDE DEF w
<1>11. w[0] = RayStart(f, t)
  BY <1>1, <1>9
<1>12. \A i \in 1 .. n : w[i] = RayStep(f, t, w[i - 1])
  <2> SUFFICES ASSUME NEW i \in 1 .. n PROVE w[i] = RayStep(f, t, w[i - 1])
    OBVIOUS
  <2>1. i \in 0 .. n /\ i # 0
    BY <1>1
  <2>2. w[i] = Body(w, i)
    <3> HIDE DEF Body
    <3> QED
      BY <1>9, <2>1
  <2> QED
    BY <2>1, <2>2
<1> QED
  BY <1>10, <1>11, <1>12 DEF n

\* Every cursor is on the ray, as many cells along the longer axis as there were
\* iterations.
LEMMA CursorsOnRay ==
    ASSUME NEW f \in Int \X Int, NEW t \in Int \X Int
    PROVE  \A i \in 0 .. RayLength(f, t) :
              /\ OnRay(f, t, Cursors(f, t)[i]) /\ Steps(f, t, Cursors(f, t)[i]) = i
<1> DEFINE n == RayLength(f, t)
           T == {i \in 0 .. n : /\ OnRay(f, t, Cursors(f, t)[i])
                                /\ Steps(f, t, Cursors(f, t)[i]) = i}
<1>1. n \in Nat
  BY RayLengthIs
<1>2. 0 \in T
  BY <1>1, CursorsStep, StartOnRay
<1>3. \A i \in 0 .. n - 1 : i \in T => i + 1 \in T
  <2> SUFFICES ASSUME NEW i \in 0 .. n - 1, i \in T PROVE i + 1 \in T
    OBVIOUS
  <2>1. PICK r : r = Cursors(f, t)[i] /\ OnRay(f, t, r) /\ Steps(f, t, r) = i
    OBVIOUS
  <2>2. i + 1 \in 1 .. n /\ (i + 1) - 1 = i /\ i \in Int
    BY <1>1
  <2>3. Cursors(f, t)[i + 1] = RayStep(f, t, r)
    BY <2>1, <2>2, CursorsStep
  <2>4. r.cell # t
    <3> SUFFICES ASSUME r.cell = t PROVE FALSE
      OBVIOUS
    <3>1. Gone(f, r, 1) = All(f, t, 1) /\ Gone(f, r, 2) = All(f, t, 2)
      BY DEF Gone, All
    <3>2. i = n
      BY <2>1, <3>1, RayLengthIs DEF Steps
    <3> QED
      BY <2>2, <3>2, <1>1
  <2>5. OnRay(f, t, RayStep(f, t, r)) /\ Steps(f, t, RayStep(f, t, r)) = i + 1
    BY <2>1, <2>4, StepOnRay
  <2>6. i + 1 \in 0 .. n
    BY <2>2, <1>1
  <2> QED
    BY <2>3, <2>5, <2>6
<1> HIDE DEF T
<1>4. 0 \in Int /\ n \in Int
  BY <1>1
<1>5. \A i \in 0 .. n : i \in T
  BY <1>2, <1>3, <1>4, Climb
<1> QED
  BY <1>5 DEF T

\* The ray ends at its target, and nowhere else.
LEMMA LastCursor ==
    ASSUME NEW f \in Int \X Int, NEW t \in Int \X Int, NEW i \in 0 .. RayLength(f, t)
    PROVE  Cursors(f, t)[i].cell = t <=> i = RayLength(f, t)
<1>1. PICK r : r = Cursors(f, t)[i] /\ OnRay(f, t, r) /\ Steps(f, t, r) = i
  BY CursorsOnRay
<1>2. ASSUME r.cell = t PROVE i = RayLength(f, t)
  <2>1. Gone(f, r, 1) = All(f, t, 1) /\ Gone(f, r, 2) = All(f, t, 2)
    BY <1>2 DEF Gone, All
  <2> QED
    BY <1>1, <2>1, RayLengthIs DEF Steps
<1>3. ASSUME i = RayLength(f, t), r.cell # t PROVE FALSE
  <2>1. PICK q : q = RayStep(f, t, r) /\ OnRay(f, t, q) /\ Steps(f, t, q) = i + 1
    BY <1>1, <1>3, StepOnRay
  <2>2. /\ Gone(f, q, 1) \in Nat /\ Gone(f, q, 2) \in Nat
        /\ All(f, t, 1) \in Nat /\ All(f, t, 2) \in Nat
        /\ Gone(f, q, 1) <= All(f, t, 1) /\ Gone(f, q, 2) <= All(f, t, 2)
    BY <2>1, Numbers
  <2>3. Steps(f, t, q) <= RayLength(f, t)
    BY <2>2, RayLengthIs DEF Steps
  <2> QED
    BY <1>3, <2>1, <2>3, RayLengthIs
<1> QED
  BY <1>1, <1>2, <1>3

\* A ray that has left the grid does not come back.
LEMMA StaysOutside ==
    ASSUME NEW f \in Cells, NEW t \in Int \X Int, NEW i \in 0 .. RayLength(f, t),
           Cursors(f, t)[i].cell \notin Cells
    PROVE  \A j \in i .. RayLength(f, t) : Cursors(f, t)[j].cell \notin Cells
<1> DEFINE n == RayLength(f, t)
           C == Cursors(f, t)
           r == C[i]
           T == {j \in i .. n : /\ Gone(f, r, 1) <= Gone(f, C[j], 1)
                                /\ Gone(f, r, 2) <= Gone(f, C[j], 2)}
<1>1. f \in Int \X Int /\ f[1] \in 0 .. MapWidth - 1 /\ f[2] \in 0 .. MapHeight - 1
  BY GridAssumption DEF Cells
<1>2. n \in Nat /\ i \in Int /\ n \in Int
  BY <1>1, RayLengthIs
<1>3. \A j \in 0 .. n : OnRay(f, t, C[j])
  BY <1>1, CursorsOnRay
<1>4. \A j \in 0 .. n :
        /\ Gone(f, C[j], 1) \in Nat /\ Gone(f, C[j], 2) \in Nat
        /\ C[j].cell[1] = f[1] + Gone(f, C[j], 1) * Direction(f[1], t[1])
        /\ C[j].cell[2] = f[2] + Gone(f, C[j], 2) * Direction(f[2], t[2])
        /\ C[j].cell = << C[j].cell[1], C[j].cell[2] >>
  <2> SUFFICES ASSUME NEW j \in 0 .. n
               PROVE  /\ Gone(f, C[j], 1) \in Nat /\ Gone(f, C[j], 2) \in Nat
                      /\ C[j].cell[1] = f[1] + Gone(f, C[j], 1) * Direction(f[1], t[1])
                      /\ C[j].cell[2] = f[2] + Gone(f, C[j], 2) * Direction(f[2], t[2])
                      /\ C[j].cell = << C[j].cell[1], C[j].cell[2] >>
    OBVIOUS
  <2> HIDE DEF C
  <2> QED
    BY <1>1, <1>3, Numbers
<1>5. i \in T
  <2> HIDE DEF C, n
  <2> QED
    BY <1>2, <1>4 DEF n
<1>6. \A j \in i .. n - 1 : j \in T => j + 1 \in T
  <2> SUFFICES ASSUME NEW j \in i .. n - 1, j \in T PROVE j + 1 \in T
    OBVIOUS
  <2>1. j \in 0 .. n /\ j + 1 \in 1 .. n /\ (j + 1) - 1 = j /\ j + 1 \in 0 .. n
        /\ j + 1 \in i .. n /\ j # n
    BY <1>2
  <2>2. C[j + 1] = RayStep(f, t, C[j])
    BY <2>1, <1>1, CursorsStep
  <2>3. C[j].cell # t
    BY <2>1, <1>1, LastCursor
  <2>4. /\ Gone(f, C[j], 1) <= Gone(f, C[j + 1], 1)
        /\ Gone(f, C[j], 2) <= Gone(f, C[j + 1], 2)
    BY <2>1, <2>2, <2>3, <1>1, <1>3, StepOnRay
  <2> HIDE DEF C, n
  <2>5. /\ Gone(f, r, 1) <= Gone(f, C[j], 1)
        /\ Gone(f, r, 2) <= Gone(f, C[j], 2)
    OBVIOUS
  <2>6. i \in 0 .. n
    BY DEF n
  <2> QED
    BY <2>1, <2>4, <2>5, <2>6, <1>4
<1> HIDE DEF T
<1>7. \A j \in i .. n : j \in T
  BY <1>2, <1>5, <1>6, Climb
<1> SUFFICES ASSUME NEW j \in i .. n, C[j].cell \in Cells PROVE FALSE
  OBVIOUS
<1>8. j \in 0 .. n /\ i \in 0 .. n
  BY <1>2
<1>9. PICK a \in Nat, b \in Nat, c \in Nat, d \in Nat :
         /\ a = Gone(f, C[i], 1) /\ b = Gone(f, C[i], 2)
         /\ c = Gone(f, C[j], 1) /\ d = Gone(f, C[j], 2)
         /\ a <= c /\ b <= d
  <2>1. j \in T
    BY <1>7
  <2> HIDE DEF C, n
  <2> QED
    BY <1>4, <1>8, <2>1 DEF T
<1> HIDE DEF C, n
<1>10. /\ C[i].cell = << f[1] + a * Direction(f[1], t[1]), f[2] + b * Direction(f[2], t[2]) >>
       /\ C[j].cell = << f[1] + c * Direction(f[1], t[1]), f[2] + d * Direction(f[2], t[2]) >>
  BY <1>4, <1>8, <1>9
<1>11. /\ f[1] + c * Direction(f[1], t[1]) \in 0 .. MapWidth - 1
       /\ f[2] + d * Direction(f[2], t[2]) \in 0 .. MapHeight - 1
  BY <1>10 DEF Cells
<1>12. /\ f[1] + a * Direction(f[1], t[1]) \in 0 .. MapWidth - 1
       /\ f[2] + b * Direction(f[2], t[2]) \in 0 .. MapHeight - 1
  BY <1>1, <1>9, <1>11, GridAssumption DEF Direction
<1>13. C[i].cell \in Cells
  BY <1>10, <1>12 DEF Cells
<1> QED
  BY <1>13 DEF C
-----------------------------------------------------------------------------
(* The steps of the loop.                                                  *)

RayTypes ==
    /\ from \in Cells /\ to \in Targets
    /\ mark_hit \in BOOLEAN /\ done \in BOOLEAN
    /\ path \in Seq(Cells)
    /\ hit \subseteq {to}

\* The cells updated are those of the first cursors, all of them in the grid; the
\* loop ends after the last one, or before the first one outside the grid.
Drawing ==
    /\ \A i \in 1 .. Len(path) : path[i] = Cursors(from, to)[i - 1].cell
    /\ ~done => /\ Len(path) \in 0 .. RayLength(from, to)
                /\ ray = Cursors(from, to)[Len(path)]
                /\ ray.cell \in Cells
                /\ hit = {}
    /\ done => /\ hit = IF mark_hit /\ to \in Cells THEN {to} ELSE {}
               /\ Len(path) \in 1 .. RayLength(from, to) + 1
               /\ Len(path) <= RayLength(from, to) =>
                     Cursors(from, to)[Len(path)].cell \notin Cells

RayIInv == RayTypes /\ OnRay(from, to, ray) /\ Drawing

LEMMA RayEnds ==
    ASSUME from \in Cells, to \in Targets
    PROVE  from \in Int \X Int /\ to \in Int \X Int
<1>1. MapWidth \in Nat /\ MapHeight \in Nat /\ Reach \in Nat
  BY GridAssumption, ReachAssumption
<1> QED
  BY <1>1 DEF Cells, Targets

LEMMA InitRayIInv == RayInit => RayIInv
<1> SUFFICES ASSUME RayInit PROVE RayIInv
  OBVIOUS
<1>1. from \in Int \X Int /\ to \in Int \X Int
  BY RayEnds DEF RayInit
<1>2. ray = RayStart(from, to) /\ RayLength(from, to) \in Nat /\ ray.cell = from
      /\ path = << >> /\ Len(path) = 0
  BY <1>1, RayLengthIs DEF RayInit, RayStart
<1>3. ray = Cursors(from, to)[0] /\ OnRay(from, to, ray)
  BY <1>1, <1>2, CursorsStep, StartOnRay
<1>4. RayTypes
  <2>1. path \in Seq(Cells) /\ hit \subseteq {to}
    BY DEF RayInit
  <2>2. done \in BOOLEAN
    BY DEF RayInit
  <2> QED
    BY <2>1, <2>2 DEF RayInit, RayTypes
<1>5. Drawing
  BY <1>2, <1>3 DEF RayInit, Drawing
<1> QED
  BY <1>3, <1>4, <1>5 DEF RayIInv

\* A cell is added to the path.
LEMMA PathGrows ==
    ASSUME RayIInv, ~done, Visit(ray.cell)
    PROVE  /\ path' \in Seq(Cells) /\ Len(path) \in Nat
           /\ Len(path') = Len(path) + 1
           /\ \A i \in 1 .. Len(path') : path'[i] = Cursors(from, to)[i - 1].cell
<1>1. /\ path \in Seq(Cells) /\ ray.cell \in Cells /\ Len(path) \in Nat
      /\ ray = Cursors(from, to)[Len(path)]
      /\ \A i \in 1 .. Len(path) : path[i] = Cursors(from, to)[i - 1].cell
  BY DEF RayIInv, RayTypes, Drawing
<1>2. path' = Append(path, ray.cell)
  BY <1>1 DEF Visit, InGrid
<1>3. /\ path' \in Seq(Cells) /\ Len(path') = Len(path) + 1
      /\ path'[Len(path) + 1] = ray.cell
      /\ \A i \in 1 .. Len(path) : path'[i] = path[i]
  BY <1>1, <1>2
<1>4. ASSUME NEW i \in 1 .. Len(path') PROVE path'[i] = Cursors(from, to)[i - 1].cell
  <2>1. CASE i = Len(path) + 1
    <3>1. i - 1 = Len(path)
      BY <2>1, <1>1
    <3> QED
      BY <2>1, <3>1, <1>1, <1>3
  <2>2. CASE i \in 1 .. Len(path)
    BY <2>2, <1>1, <1>3
  <2> QED
    BY <2>1, <2>2, <1>1, <1>3
<1> QED
  BY <1>1, <1>3, <1>4

LEMMA EndStep ==
    ASSUME RayIInv, DrawEnd PROVE RayIInv'
<1>1. /\ UNCHANGED <<from, to, mark_hit, ray>> /\ done' = TRUE /\ ~done
      /\ ray.cell = to /\ Visit(ray.cell)
      /\ hit' = IF mark_hit /\ to \in Cells THEN {to} ELSE {}
  BY DEF DrawEnd, InGrid
<1>2. from \in Int \X Int /\ to \in Int \X Int
  BY RayEnds DEF RayIInv, RayTypes
<1>3. /\ path' \in Seq(Cells) /\ Len(path) \in Nat
      /\ Len(path') = Len(path) + 1
      /\ \A i \in 1 .. Len(path') : path'[i] = Cursors(from, to)[i - 1].cell
  BY <1>1, PathGrows
<1>4. RayLength(from, to) \in Nat /\ Len(path) \in 0 .. RayLength(from, to)
      /\ ray = Cursors(from, to)[Len(path)]
  BY <1>1, <1>2, RayLengthIs DEF RayIInv, Drawing
<1>5. Len(path) = RayLength(from, to)
  BY <1>1, <1>2, <1>4, LastCursor
<1>6. Drawing'
  <2>1. /\ from' = from /\ to' = to /\ mark_hit' = mark_hit /\ ray' = ray /\ done' = TRUE
    BY <1>1
  <2>2. Len(path') = RayLength(from, to) + 1
    BY <1>3, <1>5
  <2> QED
    BY <1>1, <1>3, <1>4, <2>1, <2>2 DEF Drawing
<1>7. RayTypes'
  BY <1>1, <1>3 DEF RayIInv, RayTypes
<1>8. OnRay(from, to, ray)'
  BY <1>1 DEF RayIInv
<1> QED
  BY <1>6, <1>7, <1>8 DEF RayIInv

LEMMA FreeStep ==
    ASSUME RayIInv, DrawFree PROVE RayIInv'
<1>1. /\ from' = from /\ to' = to /\ mark_hit' = mark_hit /\ hit' = hit
      /\ ~done /\ ray.cell # to /\ Visit(ray.cell)
      /\ ray' = RayStep(from, to, ray)
      /\ done' = ~(ray'.cell \in Cells)
  BY DEF DrawFree, InGrid
<1>2. from \in Int \X Int /\ to \in Int \X Int
  BY RayEnds DEF RayIInv, RayTypes
<1>3. /\ path' \in Seq(Cells) /\ Len(path) \in Nat
      /\ Len(path') = Len(path) + 1
      /\ \A i \in 1 .. Len(path') : path'[i] = Cursors(from, to)[i - 1].cell
  BY <1>1, PathGrows
<1>4. RayLength(from, to) \in Nat /\ Len(path) \in 0 .. RayLength(from, to)
      /\ ray = Cursors(from, to)[Len(path)] /\ hit = {}
  BY <1>1, <1>2, RayLengthIs DEF RayIInv, Drawing
<1>5. Len(path) < RayLength(from, to)
  BY <1>1, <1>2, <1>4, LastCursor
<1>6. /\ Len(path') \in 1 .. RayLength(from, to) /\ Len(path') - 1 = Len(path)
      /\ Len(path') \in 0 .. RayLength(from, to)
      /\ Len(path') \in 1 .. RayLength(from, to) + 1
  BY <1>3, <1>4, <1>5
<1>7. ray' = Cursors(from, to)[Len(path')]
  BY <1>1, <1>2, <1>4, <1>6, CursorsStep
<1>8. OnRay(from, to, ray')
  BY <1>1, <1>2, StepOnRay DEF RayIInv
<1>9. RayTypes'
  <2>1. done' \in BOOLEAN
    BY <1>1
  <2> QED
    BY <1>1, <1>3, <2>1 DEF RayIInv, RayTypes
<1>10. ray'.cell \notin Cells => ~(mark_hit /\ to \in Cells)
  <2> SUFFICES ASSUME ray'.cell \notin Cells, to \in Cells PROVE FALSE
    OBVIOUS
  <2>1. /\ RayLength(from, to) \in Len(path') .. RayLength(from, to)
        /\ RayLength(from, to) \in 0 .. RayLength(from, to)
    BY <1>4, <1>6
  <2>2. Cursors(from, to)[RayLength(from, to)].cell = to
    BY <2>1, <1>2, LastCursor
  <2>3. from \in Cells
    BY DEF RayIInv, RayTypes
  <2> QED
    BY <2>1, <2>2, <2>3, <1>2, <1>6, <1>7, StaysOutside
<1>11. Drawing'
  <2>1. ~done' => ray'.cell \in Cells
    BY <1>1
  <2>2. done' => ray'.cell \notin Cells
    BY <1>1
  <2> QED
    BY <1>1, <1>3, <1>4, <1>6, <1>7, <1>10, <2>1, <2>2 DEF Drawing
<1> QED
  BY <1>1, <1>8, <1>9, <1>11 DEF RayIInv

LEMMA NextRayIInv == RayIInv /\ [RayNext]_rayVars => RayIInv'
<1> SUFFICES ASSUME RayIInv, [RayNext]_rayVars PROVE RayIInv'
  OBVIOUS
<1>1. CASE UNCHANGED rayVars
  BY <1>1 DEF rayVars, RayIInv, RayTypes, Drawing
<1> QED
  BY <1>1, EndStep, FreeStep DEF RayNext

LEMMA RayInductive == RaySpec => []RayIInv
BY InitRayIInv, NextRayIInv, PTL DEF RaySpec

\* The variables keep their types (RayTypeOK of TraceRay).
THEOREM RayTypeCorrect == RaySpec => []RayTypeOK
<1>1. RayIInv => RayTypeOK
  BY DEF RayIInv, RayTypes, OnRay, RayTypeOK
<1> QED
  BY <1>1, RayInductive, PTL

\* Rays of every length and slope end at their return: trace_ray never leaves
\* the rectangle between the two ends.
THEOREM InsideSafe == RaySpec => []RayStaysInside
<1>1. RayIInv => RayStaysInside
  BY DEF RayIInv, OnRay, Gone, All, RayStaysInside, Taken, Span
<1> QED
  BY <1>1, RayInductive, PTL

\* Rays of every length and slope are straight: trace_ray updates the nearest
\* cell of each column, or of each row.
THEOREM LineSafe == RaySpec => []RayIsNearTheLine
<1>1. RayIInv => RayIsNearTheLine
  <2> SUFFICES ASSUME RayIInv PROVE RayIsNearTheLine
    OBVIOUS
  <2>1. from \in Int \X Int /\ to \in Int \X Int
    BY RayEnds DEF RayIInv, RayTypes
  <2>2. PICK dx \in Nat, dy \in Nat, i \in Nat, j \in Nat :
           /\ dx = Span(1) /\ dy = Span(2) /\ i = Taken(1) /\ j = Taken(2)
           /\ Near(dx, dy, i, j)
    BY <2>1, Numbers DEF RayIInv, OnRay, Gone, All, Span, Taken
  <2>3. dx * j \in Nat /\ dy * i \in Nat
    BY SMTT(30)
  <2>4. RayLength(from, to) = IF dx < dy THEN dy ELSE dx
    BY <2>2 DEF RayLength, Span
  <2>5. /\ 2 * (dx * j - dy * i) <= RayLength(from, to)
        /\ 2 * (dy * i - dx * j) <= RayLength(from, to)
    BY <2>2, <2>4 DEF Near
  <2>6. 2 * Distance(dy * i, dx * j) <= RayLength(from, to)
    BY <2>3, <2>5 DEF Distance
  <2> QED
    BY <2>2, <2>6 DEF RayIsNearTheLine
<1> QED
  BY <1>1, RayInductive, PTL

\* Rays of every length and slope are drawn whole, each cell once, however early
\* the loop ends at the border of the grid.
THEOREM DrawnSafe == RaySpec => []RayIsDrawn
<1>1. RayIInv => RayIsDrawn
  <2> SUFFICES ASSUME RayIInv, done PROVE RayIsDrawn
    BY DEF RayIsDrawn
  <2> DEFINE n == RayLength(from, to)
             C == Cursors(from, to)
             k == Len(path)
  <2>1. from \in Cells /\ from \in Int \X Int /\ to \in Int \X Int
    BY RayEnds DEF RayIInv, RayTypes
  <2>2. /\ path \in Seq(Cells) /\ k \in 1 .. n + 1 /\ n \in Nat
        /\ k <= n => C[k].cell \notin Cells
        /\ \A i \in 1 .. k : path[i] = C[i - 1].cell
    BY <2>1, RayLengthIs DEF RayIInv, RayTypes, Drawing
  <2>3. \A i \in 1 .. n + 1 : Ray(from, to)[i] = C[i - 1].cell
    BY DEF Ray
  <2>4. \A i \in 0 .. n : Steps(from, to, C[i]) = i
    BY <2>1, CursorsOnRay
  <2>5. hit = IF mark_hit /\ InGrid(to) THEN {to} ELSE {}
    BY DEF RayIInv, Drawing, InGrid
  <2>6. ASSUME NEW i \in 1 .. k, NEW j \in 1 .. k, path[i] = path[j] PROVE i = j
    <3>1. i - 1 \in 0 .. n /\ j - 1 \in 0 .. n /\ i \in Int /\ j \in Int
      BY <2>2
    <3>2. C[i - 1].cell = C[j - 1].cell
      BY <2>2, <2>6
    <3>3. Steps(from, to, C[i - 1]) = Steps(from, to, C[j - 1])
      BY <3>2 DEF Steps, Gone
    <3>4. i - 1 = j - 1
      BY <3>1, <3>3, <2>4
    <3> QED
      BY <3>1, <3>4
  <2>7. ASSUME NEW i \in 1 .. k
        PROVE  path[i] \in {Ray(from, to)[j] : j \in 1 .. n + 1} \cap Cells
    <3>1. path[i] \in Cells
      BY <2>2
    <3>2. i \in 1 .. n + 1
      BY <2>2
    <3>3. path[i] = Ray(from, to)[i]
      BY <3>2, <2>2, <2>3
    <3> QED
      BY <3>1, <3>2, <3>3
  <2>8. ASSUME NEW j \in 1 .. n + 1, Ray(from, to)[j] \in Cells
        PROVE  Ray(from, to)[j] \in {path[i] : i \in 1 .. k}
    <3>1. CASE j \in 1 .. k
      BY <3>1, <2>2, <2>3
    <3>2. CASE j \notin 1 .. k
      <4>1. k \in 0 .. n /\ j - 1 \in k .. n /\ k <= n
        BY <3>2, <2>2
      <4>2. C[j - 1].cell \notin Cells
        BY <4>1, <2>1, <2>2, StaysOutside
      <4> QED
        BY <4>2, <2>3, <2>8
    <3> QED
      BY <3>1, <3>2
  <2> HIDE DEF n, C, k
  <2>9. {path[i] : i \in 1 .. k} = {Ray(from, to)[j] : j \in 1 .. n + 1} \cap Cells
    BY <2>7, <2>8
  <2> QED
    BY <2>5, <2>6, <2>9 DEF RayIsDrawn, n, k
<1> QED
  BY <1>1, RayInductive, PTL
-----------------------------------------------------------------------------
(* What the map shows.                                                     *)
(*                                                                         *)
(* MapInv says of every scan that its returns are walls, and of the grid   *)
(* that the log-odds are positive only where a scan on the map shows one.  *)

\* Where the lidar of a robot at q looks with beam i, at range r.
Place(q, i, r) ==
    Plus(At(q), Turned((q.theta + YawOffset) % 4, << r * Beams[i][1], r * Beams[i][2] >>))

ScanIs(s) ==
    /\ s \in Scans
    /\ \A i \in 1 .. Len(Beams) :
          s.ranges[i] = NaN \/ s.ranges[i] = Inf \/ Place(s.taken_at, i, s.ranges[i]) \in Walls

Grids == [Cells -> LogOddsMin .. LogOddsMax]
Maps  == [Cells -> {"unknown", "free", "occupied"}]

Shown(c, D) == \E d \in D, w \in Walls : c = CellOf(d, w)

GridIs(g, D) == \A c \in Cells : g[c] > 0 => Shown(c, D)

MapTypes ==
    /\ param \in Flags
    /\ log_odds \in Grids /\ drawn \subseteq Poses
    /\ tf \in Messages(Poses)
    /\ map \in Messages(Maps)

ScansAre ==
    /\ last_scan # None => ScanIs(last_scan)
    /\ scan_topic # None => ScanIs(scan_topic)

MapInv == MapTypes /\ ScansAre /\ GridIs(log_odds, drawn)
-----------------------------------------------------------------------------
(* Cells of a return.                                                      *)

LEMMA BeamTypes ==
    ASSUME NEW i \in 1 .. Len(Beams), NEW r \in Int
    PROVE  /\ << r * Beams[i][1], r * Beams[i][2] >> \in Vectors
           /\ LET v == LocalDirection(i)
              IN  << r * v[1], r * v[2] >>
                     = Turned(YawOffset, << r * Beams[i][1], r * Beams[i][2] >>)
<1>1. Beams[i] \in Int \X Int /\ YawOffset \in Headings
  BY LocalizationAssumption
<1>2. PICK x \in Int, y \in Int : Beams[i] = << x, y >>
  BY <1>1
<1>3. PICK a \in Int, b \in Int : a = r * x /\ b = r * y /\ r * (-x) = -a /\ r * (-y) = -b
  BY SMTT(30)
<1>4. Beams[i][1] = x /\ Beams[i][2] = y
  BY <1>2
<1>5. YawOffset = 0 \/ YawOffset = 1 \/ YawOffset = 2 \/ YawOffset = 3
  BY <1>1 DEF Headings
<1>6. << r * Beams[i][1], r * Beams[i][2] >> = << a, b >>
  BY <1>3, <1>4
<1>7. LET v == LocalDirection(i) IN << r * v[1], r * v[2] >> = Turned(YawOffset, << a, b >>)
  <2>1. CASE YawOffset = 0
    BY <1>2, <1>3, <2>1 DEF LocalDirection, Turned
  <2>2. CASE YawOffset = 1
    <3>1. LocalDirection(i) = << -y, x >> /\ Turned(YawOffset, << a, b >>) = << -b, a >>
      BY <1>2, <2>2 DEF LocalDirection, Turned
    <3> QED
      BY <1>3, <3>1
  <2>3. CASE YawOffset = 2
    <3>1. LocalDirection(i) = << -x, -y >> /\ Turned(YawOffset, << a, b >>) = << -a, -b >>
      BY <1>2, <2>3 DEF LocalDirection, Turned
    <3> QED
      BY <1>3, <3>1
  <2>4. CASE YawOffset = 3
    <3>1. LocalDirection(i) = << y, -x >> /\ Turned(YawOffset, << a, b >>) = << b, -a >>
      BY <1>2, <2>4 DEF LocalDirection, Turned
    <3> QED
      BY <1>3, <3>1
  <2> QED
    BY <1>5, <2>1, <2>2, <2>3, <2>4
<1>8. << a, b >> \in Vectors
  BY DEF Vectors
<1> QED
  BY <1>6, <1>7, <1>8

LEMMA TurnOfTheBeam ==
    ASSUME NEW a \in Headings, NEW b \in Headings, NEW y \in Headings
    PROVE  (((a - b) % 4) + ((b + y) % 4)) % 4 = (a + y) % 4
BY SMTT(60) DEF Headings

\* A return drawn from pose p is the wall that was measured, displaced as p is from
\* the pose the scan was taken at.
LEMMA ReturnIsWall ==
    ASSUME NEW p \in Poses, last_scan.taken_at \in Poses,
           NEW i \in 1 .. Len(Beams), NEW r \in Int
    PROVE  /\ Place(last_scan.taken_at, i, r) \in Vectors
           /\ WorldToGrid(EndOfBeam(p, i, r))
                = CellOf(Displacement(p), Place(last_scan.taken_at, i, r))
<1> DEFINE q == last_scan.taken_at
           v == << r * Beams[i][1], r * Beams[i][2] >>
           w == Place(q, i, r)
           s == (q.theta + YawOffset) % 4
           t == (p.theta - q.theta) % 4
<1>1. /\ p.theta \in Headings /\ At(p) \in Vectors
      /\ q.theta \in Headings /\ At(q) \in Vectors
      /\ YawOffset \in Headings /\ v \in Vectors
  BY Components, BeamTypes, LocalizationAssumption
<1>2. s \in Headings /\ t \in Headings /\ (p.theta + YawOffset) % 4 \in Headings
  BY <1>1, Quarters
<1>3. w = Plus(At(q), Turned(s, v)) /\ Turned(s, v) \in Vectors
  BY <1>1, <1>2, TurnedTypes DEF Place
<1>4. w \in Vectors
  BY <1>1, <1>3, Sums
<1>5. Pose(w, 0) \in Poses /\ At(Pose(w, 0)) = w
  BY <1>4, PoseParts
<1>6. At(Compose(Displacement(p), Pose(w, 0))) = Plus(At(p), Turned(t, Minus(w, At(q))))
  <2>1. At(Compose(Origin, Pose(w, 0))) = w
    BY <1>5, InWorld
  <2>2. At(Compose(Compose(p, InFrame(q, Origin)), Pose(w, 0)))
           = Plus(At(p), Turned(t, Minus(At(Compose(Origin, Pose(w, 0))), At(q))))
    BY <1>5, Moved, OriginParts
  <2> QED
    BY <2>1, <2>2 DEF Displacement
<1>7. Minus(w, At(q)) = Turned(s, v)
  <2> DEFINE u == Turned(s, v)
  <2>1. \A a, b \in Vectors : Minus(Plus(a, b), a) = b
    BY DEF Plus, Minus, Vectors
  <2> QED
    BY <1>1, <1>3, <2>1
<1>8. Turned(t, Turned(s, v)) = Turned((p.theta + YawOffset) % 4, v)
  BY <1>1, <1>2, TurnedTwice, TurnOfTheBeam
<1>9. EndOfBeam(p, i, r) = Plus(At(p), Turned((p.theta + YawOffset) % 4, v))
  <2>1. EndOfBeam(p, i, r) = Plus(At(p), Turned(p.theta, Turned(YawOffset, v)))
    BY BeamTypes DEF EndOfBeam
  <2> QED
    BY <1>1, <2>1, TurnedTwice
<1>10. EndOfBeam(p, i, r) = At(Compose(Displacement(p), Pose(w, 0)))
  BY <1>6, <1>7, <1>8, <1>9
<1> QED
  BY <1>4, <1>10 DEF CellOf

LEMMA ClampedIs ==
    ASSUME NEW v \in Int
    PROVE  /\ Clamped(v) \in LogOddsMin .. LogOddsMax
           /\ Clamped(v) > 0 => v > 0
BY LocalizationAssumption DEF Clamped

\* A beam makes positive only the cell of its return.
LEMMA BeamKeeps ==
    ASSUME NEW g \in Grids, NEW D, NEW p, NEW i, NEW r, GridIs(g, D),
           InRange(r) => Shown(WorldToGrid(EndOfBeam(p, i, r)), D)
    PROVE  DrawBeam(g, p, i, r) \in Grids /\ GridIs(DrawBeam(g, p, i, r), D)
<1> DEFINE marks == InRange(r)
           len == IF marks THEN r ELSE ShorterOf(ScanMatchRange, RangeMax)
           u == WorldToGrid(At(p))
           t == WorldToGrid(EndOfBeam(p, i, len))
           cells == {Ray(u, t)[j] : j \in 1 .. RayLength(u, t) + 1}
           h == DrawBeam(g, p, i, r)
<1>1. h = [c \in Cells |->
              IF c \notin cells THEN g[c]
              ELSE Clamped(g[c] + (IF c = t /\ marks THEN LogOddsHit ELSE LogOddsMiss))]
  BY DEF DrawBeam, TraceRay
<1>2. marks => Shown(t, D)
  OBVIOUS
<1> HIDE DEF cells, h, t, marks
<1>3. ASSUME NEW c \in Cells
      PROVE  h[c] \in LogOddsMin .. LogOddsMax /\ (h[c] > 0 => Shown(c, D))
  <2>1. /\ g[c] \in LogOddsMin .. LogOddsMax /\ g[c] \in Int
        /\ g[c] > 0 => Shown(c, D)
    BY LocalizationAssumption DEF Grids, GridIs
  <2>2. CASE c \notin cells
    <3>1. h[c] = g[c]
      BY <1>1, <2>2
    <3> QED
      BY <2>1, <3>1
  <2>3. CASE c \in cells /\ c = t /\ marks
    <3>1. h[c] = Clamped(g[c] + LogOddsHit) /\ g[c] + LogOddsHit \in Int
      BY <1>1, <2>1, <2>3, LocalizationAssumption
    <3> QED
      BY <1>2, <2>3, <3>1, ClampedIs
  <2>4. CASE c \in cells /\ ~(c = t /\ marks)
    <3>1. PICK v \in Int : v = g[c] + LogOddsMiss /\ v <= g[c]
      BY <2>1, LocalizationAssumption
    <3>2. h[c] = Clamped(v)
      BY <1>1, <2>4, <3>1
    <3>3. h[c] > 0 => g[c] > 0
      BY <2>1, <3>1, <3>2, ClampedIs
    <3> QED
      BY <2>1, <3>2, <3>3, ClampedIs
  <2> QED
    BY <2>2, <2>3, <2>4
<1>4. h \in Grids
  <2>1. h = [c \in Cells |-> h[c]]
    BY <1>1
  <2> QED
    BY <1>3, <2>1 DEF Grids
<1> QED
  BY <1>3, <1>4 DEF GridIs, h

\* What every beam keeps, update_occupancy_grid keeps.
LEMMA UpdatedKeeps ==
    ASSUME NEW S, NEW g \in S, NEW p,
           CanDraw(p) => \A h \in S : \A i \in Drawn(last_scan) :
                            DrawBeam(h, p, i, last_scan.ranges[i]) \in S
    PROVE  Updated(g, p) \in S
<1>1. CASE ~CanDraw(p)
  BY <1>1 DEF Updated
<1>2. CASE CanDraw(p)
  <2> DEFINE n == Len(Beams)
             After(h, i) == IF i \in Drawn(last_scan)
                            THEN DrawBeam(h, p, i, last_scan.ranges[i]) ELSE h
             Body(f, i) == IF i = 0 THEN g
                           ELSE IF i \in Drawn(last_scan)
                                THEN DrawBeam(f[i - 1], p, i, last_scan.ranges[i])
                                ELSE f[i - 1]
             after == [x \in (1 .. n) \X S |-> After(x[2], x[1])]
             w == CHOOSE f : f = [i \in 0 .. n |-> Body(f, i)]
  <2>1. n \in Nat
    BY LocalizationAssumption
  <2>2. ASSUME NEW h \in S, NEW i PROVE After(h, i) \in S
    BY <1>2
  <2>3. \A f : \A i : i # 0 => Body(f, i) = After(f[i - 1], i)
    OBVIOUS
  <2>4. \A f : Body(f, 0) = g
    OBVIOUS
  <2>5. Updated(g, p) = w[n]
    BY <1>2 DEF Updated
  <2> HIDE DEF n, After, Body
  <2>6. after \in [(1 .. n) \X S -> S]
    <3>1. \A x \in (1 .. n) \X S : x[2] \in S
      OBVIOUS
    <3> QED
      BY <2>2, <3>1
  <2>7. \A i \in 1 .. n : \A h \in S : after[<< i, h >>] = After(h, i)
    OBVIOUS
  <2> HIDE DEF after, w
  <2>8. PICK f \in [0 .. n -> S] : f[0] = g /\ \A i \in 1 .. n : f[i] = after[<< i, f[i - 1] >>]
    <3>1. \E f \in [0 .. n -> S] : Iterates(f, n, g, after)
      BY <2>1, <2>6, Iteration, Zenon
    <3> QED
      BY <3>1 DEF Iterates
  <2>9. ASSUME NEW i \in 0 .. n PROVE f[i] = Body(f, i)
    <3>1. CASE i = 0
      BY <3>1, <2>4, <2>8
    <3>2. CASE i # 0
      <4>1. i \in 1 .. n /\ i - 1 \in 0 .. n
        BY <3>2, <2>1
      <4>2. f[i - 1] \in S
        BY <4>1
      <4>3. f[i] = After(f[i - 1], i)
        BY <4>1, <4>2, <2>7, <2>8
      <4> QED
        BY <2>3, <3>2, <4>3
    <3> QED
      BY <3>1, <3>2
  <2>10. f = [i \in 0 .. n |-> Body(f, i)]
    BY <2>9
  <2>11. w = [i \in 0 .. n |-> Body(w, i)]
    BY <2>10 DEF w
  <2>12. w[0] \in S
    BY <2>1, <2>4, <2>11
  <2>13. \A i \in 0 .. n - 1 : w[i] \in S => w[i + 1] \in S
    <3> SUFFICES ASSUME NEW i \in 0 .. n - 1, w[i] \in S PROVE w[i + 1] \in S
      OBVIOUS
    <3>1. i + 1 \in 0 .. n /\ i + 1 # 0 /\ (i + 1) - 1 = i
      BY <2>1
    <3>2. w[i + 1] = Body(w, i + 1)
      BY <2>11, <3>1
    <3>3. w[i + 1] = After(w[i], i + 1)
      BY <2>3, <3>1, <3>2
    <3> QED
      BY <2>2, <3>3
  <2>14. \A i \in 0 .. n : w[i] \in S
    <3> DEFINE T == {i \in 0 .. n : w[i] \in S}
    <3>1. 0 \in T /\ 0 \in Int /\ n \in Int
      BY <2>1, <2>12
    <3>2. \A i \in 0 .. n - 1 : i \in T => i + 1 \in T
      <4>1. \A i \in 0 .. n - 1 : i + 1 \in 0 .. n
        BY <2>1
      <4> QED
        BY <2>13, <4>1
    <3> HIDE DEF T
    <3>3. \A i \in 0 .. n : i \in T
      BY <3>1, <3>2, Climb
    <3> QED
      BY <3>3 DEF T
  <2> QED
    BY <2>1, <2>5, <2>14
<1> QED
  BY <1>1, <1>2

\* Drawing the last scan from pose p shows its walls displaced with p.
LEMMA ScanKeeps ==
    ASSUME NEW g \in Grids, NEW D, GridIs(g, D), NEW p \in Poses,
           CanDraw(p) => ScanIs(last_scan) /\ Displacement(p) \in D
    PROVE  Updated(g, p) \in Grids /\ GridIs(Updated(g, p), D)
<1> DEFINE S == {h \in Grids : GridIs(h, D)}
<1>1. ASSUME CanDraw(p), NEW h \in S, NEW i \in Drawn(last_scan)
      PROVE  DrawBeam(h, p, i, last_scan.ranges[i]) \in S
  <2>1. i \in 1 .. Len(Beams) /\ last_scan.ranges[i] # NaN
    BY DEF Drawn, UsedBeams
  <2>2. PICK r : r = last_scan.ranges[i]
    OBVIOUS
  <2>3. /\ last_scan.taken_at \in Poses /\ r \in Int
        /\ r # Inf => Place(last_scan.taken_at, i, r) \in Walls
    <3>1. ScanIs(last_scan)
      BY <1>1
    <3>2. last_scan.taken_at \in Poses /\ r \in -1 .. Inf
      BY <2>1, <2>2, <3>1 DEF ScanIs, Scans
    <3>3. Inf \in Nat
      BY LocalizationAssumption DEF Inf
    <3> QED
      BY <2>1, <2>2, <3>1, <3>2, <3>3 DEF ScanIs
  <2>4. ASSUME InRange(r) PROVE Shown(WorldToGrid(EndOfBeam(p, i, r)), D)
    <3>1. Place(last_scan.taken_at, i, r) \in Walls
      BY <2>3, <2>4 DEF InRange
    <3>2. WorldToGrid(EndOfBeam(p, i, r))
             = CellOf(Displacement(p), Place(last_scan.taken_at, i, r))
      BY <2>1, <2>3, ReturnIsWall
    <3>3. Displacement(p) \in D
      BY <1>1
    <3> QED
      BY <3>1, <3>2, <3>3 DEF Shown
  <2>5. h \in Grids /\ GridIs(h, D)
    OBVIOUS
  <2> HIDE DEF S
  <2>6. DrawBeam(h, p, i, r) \in Grids /\ GridIs(DrawBeam(h, p, i, r), D)
    BY <2>4, <2>5, BeamKeeps
  <2> QED
    BY <2>2, <2>6 DEF S
<1>2. g \in S
  OBVIOUS
<1> HIDE DEF S
<1>3. Updated(g, p) \in S
  BY <1>1, <1>2, UpdatedKeeps
<1> QED
  BY <1>3 DEF S

\* The lidar measures the distance to a wall.
LEMMA MeasuredIs ==
    ASSUME IInv, NEW i \in 1 .. Len(Beams)
    PROVE  /\ Measured(i) \in 1 .. Inf
           /\ Measured(i) # Inf => Place(robot, i, Measured(i)) \in Walls
<1> DEFINE mounting == [Origin EXCEPT !.theta = YawOffset]
           mounted == Compose(robot, mounting)
           place(r) == Plus(At(mounted), Turned(mounted.theta, << r * Beams[i][1], r * Beams[i][2] >>))
           walls == {r \in 1 .. RangeMax : place(r) \in Walls}
<1>1. RangeMax \in Nat /\ Inf = RangeMax + 1
  BY LocalizationAssumption DEF Inf
<1>2. Measured(i) = IF walls = {} THEN Inf
                    ELSE CHOOSE r \in walls : \A s \in walls : r <= s
  BY DEF Measured
<1>3. At(mounted) = At(robot) /\ mounted.theta = (robot.theta + YawOffset) % 4
  <2>1. robot \in Poses /\ At(robot) \in Vectors /\ robot.theta \in Headings
    BY KeepsWorld, Components
  <2>2. /\ mounting = [x |-> 0, y |-> 0, theta |-> YawOffset]
        /\ mounting \in Poses /\ At(mounting) = << 0, 0 >> /\ mounting.theta = YawOffset
    <3>1. mounting = [x |-> 0, y |-> 0, theta |-> YawOffset]
      BY DEF Origin
    <3> HIDE DEF mounting
    <3>2. mounting \in Poses
      BY <3>1, LocalizationAssumption DEF Poses
    <3> QED
      BY <3>1, <3>2 DEF At
  <2>3. Turned(robot.theta, << 0, 0 >>) = << 0, 0 >>
    BY <2>1 DEF Turned, Headings
  <2>4. Plus(At(robot), << 0, 0 >>) = At(robot)
    BY <2>1 DEF Plus, Vectors
  <2> HIDE DEF mounting
  <2> QED
    BY <2>1, <2>2, <2>3, <2>4, ComposeParts
<1>4. \A r : place(r) = Place(robot, i, r)
  BY <1>3 DEF Place
<1>5. CASE walls = {}
  BY <1>1, <1>2, <1>5
<1>6. CASE walls # {}
  <2>1. walls \in SUBSET Nat
    BY <1>1
  <2>2. \E r \in walls : \A s \in walls : r <= s
    <3> HIDE DEF walls
    <3> QED
      BY <1>6, <2>1, Least
  <2>3. Measured(i) \in walls
    <3> HIDE DEF walls
    <3> QED
      BY <1>2, <1>6, <2>2
  <2>4. Measured(i) \in 1 .. RangeMax /\ place(Measured(i)) \in Walls
    <3> HIDE DEF place
    <3> QED
      BY <2>3
  <2> QED
    BY <1>1, <1>4, <2>4
<1> QED
  BY <1>5, <1>6
-----------------------------------------------------------------------------
LEMMA EmptyIs ==
    EmptyGrid \in Grids /\ \A D : GridIs(EmptyGrid, D)
BY LocalizationAssumption DEF EmptyGrid, Grids, GridIs

LEMMA InitMapInv == Init => MapInv
<1> SUFFICES ASSUME Init PROVE MapInv
  OBVIOUS
<1>1. MapTypes
  <2>1. param \in Flags
    BY LocalizationAssumption DEF Init
  <2> QED
    BY <2>1, EmptyIs DEF Init, MapTypes, Messages
<1>2. ScansAre
  BY DEF Init, ScansAre
<1> QED
  BY <1>1, <1>2, EmptyIs DEF Init, MapInv

\* A step that leaves the maps alone.
LEMMA MapFrame ==
    ASSUME MapInv, UNCHANGED <<param, mapVars, tf, map>>, ScansAre'
    PROVE  MapInv'
<1>1. UNCHANGED <<param, log_odds, drawn, tf, map>>
  BY DEF mapVars
<1>2. MapTypes'
  BY <1>1 DEF MapInv, MapTypes
<1>3. GridIs(log_odds, drawn)'
  BY <1>1 DEF MapInv, GridIs
<1> QED
  BY <1>2, <1>3 DEF MapInv

LEMMA SenseScanMapInv ==
    ASSUME IInv, MapInv, SenseScan
    PROVE  MapInv'
<1>1. PICK lost \in Dropouts \cup {0} :
         scan_topic' = [ranges |-> [i \in 1 .. Len(Beams) |->
                                       IF i = lost THEN NaN ELSE Measured(i)],
                        taken_at |-> robot]
  BY DEF SenseScan
<1>2. /\ scan_topic'.taken_at = robot
      /\ scan_topic'.ranges = [i \in 1 .. Len(Beams) |->
                                  IF i = lost THEN NaN ELSE Measured(i)]
      /\ scan_topic' = [ranges |-> scan_topic'.ranges, taken_at |-> scan_topic'.taken_at]
  BY <1>1
<1>3. ASSUME NEW i \in 1 .. Len(Beams)
      PROVE  /\ scan_topic'.ranges[i] \in -1 .. Inf
             /\ \/ scan_topic'.ranges[i] = NaN \/ scan_topic'.ranges[i] = Inf
                \/ Place(robot, i, scan_topic'.ranges[i]) \in Walls
  <2>1. Measured(i) \in 1 .. Inf /\ (Measured(i) # Inf => Place(robot, i, Measured(i)) \in Walls)
    BY MeasuredIs
  <2>2. Inf \in Nat
    BY LocalizationAssumption DEF Inf
  <2>3. scan_topic'.ranges[i] = NaN \/ scan_topic'.ranges[i] = Measured(i)
    BY <1>2
  <2> QED
    BY <2>1, <2>2, <2>3 DEF NaN
<1>4. robot \in Poses
  BY KeepsWorld
<1>5. scan_topic' \in Scans
  <2>1. scan_topic'.ranges \in [1 .. Len(Beams) -> -1 .. Inf]
    BY <1>2, <1>3
  <2> QED
    BY <1>2, <1>4, <2>1 DEF Scans
<1>6. ScanIs(scan_topic')
  BY <1>2, <1>3, <1>5 DEF ScanIs
<1>7. ScansAre'
  <2>1. last_scan' = last_scan
    BY DEF SenseScan
  <2>2. last_scan # None => ScanIs(last_scan)
    BY DEF MapInv, ScansAre
  <2> QED
    BY <1>6, <2>1, <2>2 DEF ScansAre
<1> QED
  BY <1>7, MapFrame DEF SenseScan

LEMMA PublishMapInv ==
    ASSUME MapInv, PublishMap
    PROVE  MapInv' /\ \A c \in Cells : map'[c] = "occupied" => Shown(c, drawn')
<1>1. /\ UNCHANGED <<param, log_odds, drawn, tf, last_scan, scan_topic>>
      /\ map' = [c \in Cells |-> IF log_odds[c] = 0 THEN "unknown"
                                 ELSE IF log_odds[c] < 0 THEN "free" ELSE "occupied"]
  BY DEF PublishMap, mapVars, topicVars
<1>2. ScansAre' /\ GridIs(log_odds, drawn)'
  BY <1>1 DEF MapInv, ScansAre, GridIs
<1>3. map' \in Maps
  BY <1>1 DEF Maps
<1>4. MapTypes'
  BY <1>1, <1>3 DEF MapInv, MapTypes, Messages
<1>5. ASSUME NEW c \in Cells, map'[c] = "occupied" PROVE Shown(c, drawn')
  <2>1. log_odds[c] \in Int
    BY LocalizationAssumption DEF MapInv, MapTypes, Grids
  <2>2. log_odds[c] > 0
    BY <1>1, <1>5, <2>1
  <2> QED
    BY <1>1, <2>2 DEF MapInv, GridIs
<1> QED
  BY <1>2, <1>4, <1>5 DEF MapInv

LEMMA StepMapInv ==
    ASSUME IInv, MapInv, LocalizationStep
    PROVE  MapInv'
<1> DEFINE base == IF param.clear_map_each_update THEN EmptyGrid ELSE log_odds
           kept == IF param.clear_map_each_update THEN {} ELSE drawn
<1>1. /\ UNCHANGED <<param, odom, map, last_scan, scan_topic>>
      /\ log_odds' = Updated(base, pose')
      /\ drawn' = kept \cup (IF CanDraw(pose') THEN {Displacement(pose')} ELSE {})
      /\ tf' = IF param.publish_map_odom_tf /\ has_odom THEN MapToOdom(pose') ELSE tf
  BY DEF LocalizationStep, topicVars
<1>2. ScansAre'
  BY <1>1 DEF MapInv, ScansAre
<1>3. pose' \in Poses
  <2>1. IInv'
    BY StepIInv
  <2> QED
    BY <2>1 DEF IInv, PoseTypes
<1>4. base \in Grids /\ kept \subseteq Poses /\ GridIs(base, kept)
  BY EmptyIs DEF MapInv, MapTypes
<1> HIDE DEF base, kept
<1>5. GridIs(base, drawn')
  BY <1>1, <1>4 DEF GridIs, Shown
<1>6. CanDraw(pose') => ScanIs(last_scan) /\ Displacement(pose') \in drawn'
  BY <1>1 DEF CanDraw, MapInv, ScansAre
<1>7. log_odds' \in Grids /\ GridIs(log_odds', drawn')
  BY <1>1, <1>3, <1>4, <1>5, <1>6, ScanKeeps
<1>8. drawn' \subseteq Poses
  <2>1. CanDraw(pose') => Displacement(pose') \in Poses
    <3>1. CanDraw(pose') => last_scan.taken_at \in Poses
      BY <1>6 DEF ScanIs, Scans
    <3> QED
      BY <1>3, <3>1, OriginParts, Moved DEF Displacement
  <2> QED
    BY <1>1, <1>4, <2>1
<1>9. tf' \in Messages(Poses)
  <2>1. CASE tf' = tf
    BY <2>1 DEF MapInv, MapTypes
  <2>2. CASE tf' = MapToOdom(pose')
    <3>1. odom \in Poses
      BY DEF IInv, PoseTypes
    <3>2. PICK q \in Headings : q = (pose'.theta - odom.theta) % 4
      BY <1>3, <3>1, Components, Quarters
    <3>3. Minus(At(pose'), Turned(q, At(odom))) \in Vectors /\ q \in Int
      BY <1>3, <3>1, <3>2, Components, Sums, TurnedTypes DEF Headings
    <3>4. Pose(Minus(At(pose'), Turned(q, At(odom))), q) \in Poses
      BY <3>3, PoseParts
    <3>5. MapToOdom(pose') \in Poses
      BY <3>2, <3>4, OriginParts DEF MapToOdom
    <3> QED
      BY <2>2, <3>5 DEF Messages
  <2> QED
    BY <1>1, <2>1, <2>2
<1>10. MapTypes'
  BY <1>1, <1>7, <1>8, <1>9 DEF MapInv, MapTypes
<1> QED
  BY <1>2, <1>7, <1>10 DEF MapInv

\* Only PublishMap changes the map.
MapIsTrue == \A c \in Cells : map'[c] = "occupied" => Shown(c, drawn')

LEMMA NextMapInv ==
    ASSUME IInv, MapInv, [Next]_vars
    PROVE  MapInv' /\ (map' # map => MapIsTrue)
<1>0. /\ last_scan # None => ScanIs(last_scan)
      /\ scan_topic # None => ScanIs(scan_topic)
  BY DEF MapInv, ScansAre
<1>1. ASSUME NEW stride \in Strides, Drive(stride) PROVE MapInv' /\ map' = map
  <2>1. ScansAre'
    BY <1>0, <1>1 DEF Drive, topicVars, ScansAre
  <2> QED
    BY <1>1, <2>1, MapFrame DEF Drive
<1>2. CASE Turn
  <2>1. ScansAre'
    BY <1>0, <1>2 DEF Turn, topicVars, ScansAre
  <2> QED
    BY <1>2, <2>1, MapFrame DEF Turn
<1>3. CASE ResetOdometry
  <2>1. ScansAre'
    BY <1>0, <1>3 DEF ResetOdometry, topicVars, ScansAre
  <2> QED
    BY <1>3, <2>1, MapFrame DEF ResetOdometry
<1>4. CASE SenseOdometry
  <2>1. ScansAre'
    BY <1>0, <1>4 DEF SenseOdometry, ScansAre
  <2> QED
    BY <1>4, <2>1, MapFrame DEF SenseOdometry
<1>5. CASE SenseScan
  BY <1>5, SenseScanMapInv DEF SenseScan
<1>6. CASE OdomCallback
  <2>1. ScansAre'
    BY <1>0, <1>6 DEF OdomCallback, ScansAre
  <2> QED
    BY <1>6, <2>1, MapFrame DEF OdomCallback
<1>7. CASE ScanCallback
  <2>1. ScansAre'
    BY <1>0, <1>7 DEF ScanCallback, ScansAre
  <2> QED
    BY <1>7, <2>1, MapFrame DEF ScanCallback
<1>8. CASE LocalizationStep
  BY <1>8, StepMapInv DEF LocalizationStep
<1>9. CASE PublishMap
  BY <1>9, PublishMapInv DEF MapIsTrue
<1>10. CASE UNCHANGED vars
  <2>1. ScansAre'
    BY <1>0, <1>10 DEF vars, topicVars, ScansAre
  <2> QED
    BY <1>10, <2>1, MapFrame DEF vars
<1> QED
  BY <1>1, <1>2, <1>3, <1>4, <1>5, <1>6, <1>7, <1>8, <1>9, <1>10 DEF Next

LEMMA MapInductive == Spec => [](IInv /\ MapInv)
<1>1. Init => IInv /\ MapInv
  BY InitIInv, InitMapInv
<1>2. (IInv /\ MapInv) /\ [Next]_vars => (IInv /\ MapInv)'
  BY NextIInv, NextMapInv
<1> QED
  BY <1>1, <1>2, PTL DEF Spec

\* No obstacle on the map that is not there, for every world, lidar mounting, grid,
\* direction of beam and limit of the log-odds, with stale scans and wrong poses:
\* update_occupancy_grid and publish_map call occupied only the cells of walls,
\* displaced as the pose was wrong when a scan was drawn.
THEOREM MapSafe == Spec => NoPhantomObstacle
<1>1. IInv /\ MapInv /\ [Next]_vars => GridIs(log_odds', drawn') /\ (map' # map => MapIsTrue)
  BY NextMapInv DEF MapInv
<1>2. IInv /\ MapInv /\ [Next]_vars
         => [\A c \in Cells :
                log_odds'[c] > 0 \/ (map' # map /\ map'[c] = "occupied")
                    => \E d \in drawn', w \in Walls : c = CellOf(d, w)]_<<mapVars, map>>
  BY <1>1 DEF GridIs, MapIsTrue, Shown
<1> QED
  BY <1>2, MapInductive, PTL DEF Spec, NoPhantomObstacle

\* The variables keep their types, and no log-odds leave their limits.
THEOREM TypeCorrect == Spec => []TypeOK
<1>1. IInv /\ MapInv => TypeOK
  <2> SUFFICES ASSUME IInv, MapInv PROVE TypeOK
    OBVIOUS
  <2>1. /\ {robot, odom_origin, odom, prev_odom, pose, offset} \subseteq Poses
        /\ has_odom \in BOOLEAN /\ slips \in Nat /\ param \in Flags
        /\ odom_topic \in Messages(Poses)
        /\ tf \in Messages(Poses) /\ drawn \subseteq Poses
    BY DEF IInv, PoseTypes, MapInv, MapTypes
  <2>2. last_scan \in Messages(Scans) /\ scan_topic \in Messages(Scans)
    BY DEF MapInv, ScansAre, ScanIs, Messages
  <2>3. /\ log_odds \in [Cells -> LogOddsMin .. LogOddsMax]
        /\ map \in Messages([Cells -> {"unknown", "free", "occupied"}])
    BY DEF MapInv, MapTypes, Grids, Maps
  <2> QED
    BY <2>1, <2>2, <2>3 DEF TypeOK
<1> QED
  BY <1>1, MapInductive, PTL
=============================================================================
