---------------------------- MODULE MCLidarPackets ----------------------------
(* Two pieces of a stream of packages, with ring starts among them. *)
EXTENDS LidarPackets

MCStreams == {<<FALSE, TRUE, FALSE, TRUE, FALSE>>, <<TRUE, FALSE, FALSE, TRUE>>}
=============================================================================
