------------------------------- MODULE GridRay -------------------------------
(***************************************************************************)
(* Cells of the occupancy grid of localization_slam.cpp and the rays that  *)
(* trace_ray draws between them.  A cell is a pair <<gx, gy>>.  TraceRay   *)
(* runs the loop of trace_ray step by step; Localization draws whole rays. *)
(***************************************************************************)
EXTENDS Integers

CONSTANTS
    MapWidth,     \* parameter map_width
    MapHeight     \* parameter map_height

ASSUME GridAssumption ==
    /\ MapWidth \in Nat \ {0}
    /\ MapHeight \in Nat \ {0}

Cells == (0 .. MapWidth - 1) \X (0 .. MapHeight - 1)

InGrid(cell) == cell \in Cells

Distance(a, b) == IF a < b THEN b - a ELSE a - b

\* sx and sy: the loop leaves a coordinate alone when it never takes a step.
Direction(a, b) == IF a < b THEN 1 ELSE -1

\* Half a step from a horizontal or vertical line is where the next cell
\* changes; err is that distance, in units of 1 / (2 * length).
RayStart(from, to) ==
    [cell |-> from,
     err  |-> Distance(from[1], to[1]) - Distance(from[2], to[2])]

\* mutant: err not doubled.
StepsXUndoubled(from, to, err) == err > -Distance(from[2], to[2])

StepsX(from, to, err) == 2 * err > -Distance(from[2], to[2])
StepsY(from, to, err) == 2 * err <  Distance(from[1], to[1])

RayStep(from, to, ray) ==
    LET dx == Distance(from[1], to[1])
        dy == Distance(from[2], to[2])
        sx == IF StepsX(from, to, ray.err) THEN 1 ELSE 0
        sy == IF StepsY(from, to, ray.err) THEN 1 ELSE 0
    IN  [cell |-> << ray.cell[1] + sx * Direction(from[1], to[1]),
                     ray.cell[2] + sy * Direction(from[2], to[2]) >>,
         err  |-> ray.err - sx * dy + sy * dx]

RayLength(from, to) ==
    LET dx == Distance(from[1], to[1])
        dy == Distance(from[2], to[2])
    IN  IF dx < dy THEN dy ELSE dx

\* (cx, cy) and err after each iteration of the loop between two cells.
Cursors(from, to) ==
    LET walk[i \in 0 .. RayLength(from, to)] ==
            IF i = 0 THEN RayStart(from, to) ELSE RayStep(from, to, walk[i - 1])
    IN  walk

\* The cells of a ray, both ends included, in the order of the loop.
Ray(from, to) == [i \in 1 .. RayLength(from, to) + 1 |-> Cursors(from, to)[i - 1].cell]
=============================================================================
