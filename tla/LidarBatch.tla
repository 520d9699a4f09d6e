------------------------------ MODULE LidarBatch ------------------------------
(***************************************************************************)
(* What one call of LidarDataProcessor::wait_scan_data gives the grab      *)
(* thread.  LidarHandler takes any such batch; LidarPackets shows that the *)
(* parser gives no other.                                                  *)
(***************************************************************************)
EXTENDS Naturals

CONSTANT BatchSize    \* nodes asked of one call (128)

ASSUME BatchAssumption == BatchSize \in Nat \ {0}

\* A call returns "plain" nodes without the sync bit, then at most one with it:
\* it returns as soon as it has read one.  It fails only short of both.  A
\* ring-start package holds one node; a bad one stamps the time but yields
\* at most a plain node.
Batch == {b \in [ok : BOOLEAN, sync : BOOLEAN, bad : BOOLEAN, plain : 0..BatchSize] :
            /\ b.sync => b.ok
            /\ b.plain = BatchSize <=> b.ok /\ ~b.sync}
=============================================================================
