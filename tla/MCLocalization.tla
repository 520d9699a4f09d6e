--------------------------- MODULE MCLocalization ----------------------------
(* A corner of a room, a lidar with beams along and across the cells that is *)
(* mounted backwards, as in lane_pipeline.launch.py, and three ways to start *)
(* the node.                                                                 *)
EXTENDS Localization

\* lane_pipeline.launch.py:192 with the transform and the map published.
LaunchFlags ==
    [use_scan_matching |-> FALSE, clear_map_each_update |-> FALSE,
     publish_map_odom_tf |-> TRUE, identity_map_odom_tf |-> FALSE,
     publish_map |-> TRUE, scan_ignore_all_ranges |-> TRUE]

\* With matching the map is not published: the property is about the log-odds too.
MCParameters == {[LaunchFlags EXCEPT !.use_scan_matching = TRUE,
                                     !.publish_map = FALSE,
                                     !.scan_ignore_all_ranges = FALSE],
                 LaunchFlags,
                 [LaunchFlags EXCEPT !.clear_map_each_update = TRUE,
                                     !.identity_map_odom_tf = TRUE]}

MCBeams     == <<<<5, 0>>, <<-3, 4>>, <<-4, -3>>>>
MCMapOrigin == <<-8, -8>>
MCWalls     == ((9 .. 13) \X (-1 .. 8)) \cup ((-10 .. 13) \X (9 .. 12))
MCStarts    == {[x |-> 2, y |-> 0, theta |-> 1]}
MCSector    == {<<-5, 0>>}
MCStrides   == {-1, 3}

\* A shift, and what a cross term of the gain makes of one.
MCGains     == {<<1, 0, 0>>, <<-1, 1, -1>>}

MCLogOddsMiss == -7
MCLogOddsMin  == -20
=============================================================================
