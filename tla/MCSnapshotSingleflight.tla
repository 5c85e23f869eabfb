----------------------- MODULE MCSnapshotSingleflight ------------------------
(* Small instances of SnapshotSingleflight.  Callers, flights and topics are *)
(* interchangeable; the liveness run uses no symmetry.                        *)
EXTENDS SnapshotSingleflight, TLC

Interchangeable == Permutations(Caller) \cup Permutations(Flight)
==============================================================================
