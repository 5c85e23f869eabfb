--------------------------- MODULE MCAtomicCoordinator ---------------------------
(* Two callers of one asset.                                                    *)
EXTENDS AtomicCoordinator
================================================================================
