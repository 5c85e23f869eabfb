----------------------------- MODULE MCFxActivation -----------------------------
(* A small instance of FxActivation: one key, two revisions, three starts.     *)
EXTENDS FxActivation
================================================================================
