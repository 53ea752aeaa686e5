------------------------------ MODULE JobQueueMC ------------------------------
(***************************************************************************)
(* Small instances of JobQueue: two runs of one job whose handler refuses  *)
(* a second run while one is pending or running, on two nodes of one       *)
(* worker each; or one run alone.                                          *)
(***************************************************************************)
EXTENDS JobQueue, TLC

CONSTANTS r1, r2, w1, w2, scan

OwnHost == [w \in Workers |-> w]

ScanTwice == (r1 :> scan) @@ (r2 :> scan)
ScanOnce == r1 :> scan
=============================================================================
