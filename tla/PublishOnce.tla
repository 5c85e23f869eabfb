------------------------------- MODULE PublishOnce -------------------------------
(***************************************************************************)
(* What the FX publication coordinator promises the subscribers of one      *)
(* asset: between two faults (a restart, a lost watermark, a takeover of    *)
(* the lineage) every content is delivered at most once and a newer one is  *)
(* never followed by an older one.  Only after a takeover may it stop        *)
(* remembering what it delivers.  It translates no code: AtomicCoordinator   *)
(* is shown to implement it.                                                *)
(***************************************************************************)
EXTENDS Naturals

CONSTANT MaxRev   \* bound: contents, numbered in the order they come to be

VARIABLES
    out,        \* the content delivered last (0: none)
    sends,      \* deliveries so far
    known,      \* the content the publisher remembers having delivered
    recording,  \* a delivery is remembered
    faults      \* faults so far

vars == <<out, sends, known, recording, faults>>

Content == 0..MaxRev

Init ==
    /\ out = 0
    /\ sends = 0
    /\ known = 0
    /\ recording = TRUE
    /\ faults = 0

\* A newer content is delivered and remembered.
Deliver ==
    /\ out' \in {r \in Content : r > known}
    /\ sends' = sends + 1
    /\ known' = out'
    /\ UNCHANGED <<recording, faults>>

\* Under a foreign watermark it is delivered and not remembered.
DeliverUnrecorded ==
    /\ ~recording
    /\ out' \in {r \in Content : r > known}
    /\ sends' = sends + 1
    /\ UNCHANGED <<known, recording, faults>>

\* The foreign watermark is out of the way.
RecordAgain ==
    /\ recording' = TRUE
    /\ UNCHANGED <<out, sends, known, faults>>

\* A fault may take the memory back.
Fault ==
    /\ faults' = faults + 1
    /\ known' \in Content
    /\ recording' \in BOOLEAN
    /\ UNCHANGED <<out, sends>>

Next == Deliver \/ DeliverUnrecorded \/ RecordAgain \/ Fault

Spec == Init /\ [][Next]_vars
================================================================================
