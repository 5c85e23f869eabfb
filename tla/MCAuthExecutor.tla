---------------------------- MODULE MCAuthExecutor -----------------------------
(* Small instances of AuthExecutor.  The run of safety alone treats calls as    *)
(* interchangeable; the one with liveness uses no symmetry.                     *)
EXTENDS AuthExecutor, TLC

Interchangeable == Permutations(Call)
================================================================================
