------------------------------ MODULE TraceRay -------------------------------
(***************************************************************************)
(* The loop of LocalizationSlamNode::trace_ray, one iteration per step:    *)
(* from any cell of the grid to any cell within Reach of it, in the grid   *)
(* or outside.  path records the cells update_cell is called for.          *)
(***************************************************************************)
EXTENDS GridRay, Sequences

CONSTANT Reach    \* bound: how far a ray may end from its start

ASSUME ReachAssumption == Reach \in Nat

VARIABLES
    from,       \* (x0, y0), the robot's cell
    to,         \* (x1, y1), the cell of the return
    mark_hit,   \* the beam has a return within range
    ray,        \* (cx, cy) and err
    path,       \* cells updated so far
    hit,        \* cells updated with lo_hit_, all others with lo_miss_
    done        \* the loop was left

rayVars == <<from, to, mark_hit, ray, path, hit, done>>

Targets == (-Reach .. MapWidth + Reach) \X (-Reach .. MapHeight + Reach)

RayInit ==
    /\ from \in Cells
    /\ to \in Targets
    /\ Distance(from[1], to[1]) <= Reach
    /\ Distance(from[2], to[2]) <= Reach
    /\ mark_hit \in BOOLEAN
    /\ ray = RayStart(from, to)
    /\ path = << >>
    /\ hit = {}
    /\ done = FALSE

\* update_cell ignores a cell outside the grid.
Visit(cell) == path' = IF InGrid(cell) THEN Append(path, cell) ELSE path

\* mutant: a ray without a return marks its end all the same.
DrawEndAlwaysHit ==
    /\ ~done
    /\ ray.cell = to
    /\ Visit(to)
    /\ hit' = IF InGrid(to) THEN {to} ELSE {}
    /\ done' = TRUE
    /\ UNCHANGED <<from, to, mark_hit, ray>>

\* The cursor is at the target: the last cell, and the only one hit.
DrawEnd ==
    /\ ~done
    /\ ray.cell = to
    /\ Visit(to)
    /\ hit' = IF mark_hit /\ InGrid(to) THEN {to} ELSE {}
    /\ done' = TRUE
    /\ UNCHANGED <<from, to, mark_hit, ray>>

\* Any other cell is free; the loop ends where the ray leaves the grid.
DrawFree ==
    /\ ~done
    /\ ray.cell # to
    /\ Visit(ray.cell)
    /\ ray' = RayStep(from, to, ray)
    /\ done' = ~InGrid(ray'.cell)
    /\ UNCHANGED <<from, to, mark_hit, hit>>

RayNext == DrawEnd \/ DrawFree

RaySpec == RayInit /\ [][RayNext]_rayVars
-----------------------------------------------------------------------------
Taken(i) == Distance(from[i], ray.cell[i])
Span(i)  == Distance(from[i], to[i])

\* The variables have their types, and a path only holds cells of the grid.
RayTypeOK ==
    /\ from \in Cells /\ to \in Targets
    /\ mark_hit \in BOOLEAN /\ done \in BOOLEAN
    /\ ray.cell \in Int \X Int /\ ray.err \in Int
    /\ path \in Seq(Cells)
    /\ hit \subseteq {to}

\* The cursor stays in the rectangle between the two ends and on their side of
\* the start: no ray is drawn past its return, whatever the slope (trace_ray, which
\* has no other test for it).
RayStaysInside ==
    \A i \in 1 .. 2 :
        /\ Taken(i) <= Span(i)
        /\ ray.cell[i] = from[i] + Taken(i) * Direction(from[i], to[i])

\* The cursor is never more than half a cell off the straight line, measured
\* along the shorter axis: this is what err in trace_ray keeps track of.
RayIsNearTheLine ==
    2 * Distance(Span(2) * Taken(1), Span(1) * Taken(2)) <= RayLength(from, to)

\* When the loop ends the return in the grid has been marked and no other cell
\* has; the cells updated are those of the ray in the grid, each of them once: a
\* ray that has left the grid does not come back, so nothing is lost by ending it.
RayIsDrawn ==
    done =>
        /\ hit = IF mark_hit /\ InGrid(to) THEN {to} ELSE {}
        /\ \A i, j \in 1 .. Len(path) : path[i] = path[j] => i = j
        /\ {path[i] : i \in 1 .. Len(path)} =
              {Ray(from, to)[i] : i \in 1 .. RayLength(from, to) + 1} \cap Cells
=============================================================================
