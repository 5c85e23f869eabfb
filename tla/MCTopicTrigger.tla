---------------------------- MODULE MCTopicTrigger -----------------------------
(* Small instances of TopicTrigger; the writer threads are interchangeable.    *)
EXTENDS TopicTrigger, TLC

Interchangeable == Permutations(Worker)
================================================================================
