------------------------- MODULE MCTopicSubscription -------------------------
(* Small instances of TopicSubscription.  Connections and accounts are       *)
(* interchangeable, which the safety runs use as a symmetry; the liveness     *)
(* runs do not.                                                              *)
EXTENDS TopicSubscription, TLC

Interchangeable == Permutations(Conn) \cup Permutations(Uid)
==============================================================================
