----------------------------- MODULE RoundLedger -----------------------------
(* The ledger of crawler rounds (d7_round_ledger.py) for one source: an         *)
(* invocation is registered, linked to a round and finished, by calls that may  *)
(* be repeated, contradictory or late.  Each carries a wall and a monotonic     *)
(* instant; whatever the wall clock does, a round is counted at most once, and  *)
(* not before its time.  One lock makes a call atomic.  The unit is a minute.   *)
(* What a lifecycle is called, and exit evidence, change counts only: of a      *)
(* lifecycle the model keeps whether it is terminal (conflicting or mixed).     *)
EXTENDS Integers

CONSTANTS
    Inv, Round,
    Close,      \* _CLOSE_DELAY
    Expiry,     \* _UNFINISHED_EXPIRY
    Late,       \* _W_LATE
    Freshness,  \* _REGISTRATION_FRESHNESS
    Skew,       \* _MAX_CLOCK_SKEW
    Offset,     \* bound: what the wall clock may be ahead
    MaxMinute,  \* bound: the monotonic clock stops here
    None

VARIABLES
    mono, ahead,   \* the monotonic clock; the wall clock is ahead of it
    start, fin,    \* when an invocation really started and finished
    last,          \* last_received_at and last_received_mono
    isolation,     \* clock_isolation: None, or how far ahead its candidate was
    book,          \* the records and indices
    stopped,       \* admission_stopped
    merged,        \* history: how often, and when first, a record was counted
    admitted       \* history: how often an invocation was registered

worldVars == <<mono, ahead, start, fin>>
stateVars == <<last, isolation, book, stopped, merged, admitted>>

Receipt == [w |-> mono + ahead, m |-> mono]
Before(p, q) == p.w < q.w \/ p.m < q.m
After(p, d) == [w |-> p.w + d, m |-> p.m + d]
Higher(a, b) == IF a > b THEN a ELSE b

Live(b, i) == b.entry[i] # None /\ b.entry[i].live
BucketEnd(i) == fin[i].w + 1
CloseOf(i) == After(fin[i], 1 + Close)

-----------------------------------------------------------------------------
(* The clocks                                                                *)

\* _clock_codes.  (A receipt whose monotonic half goes back changes nothing.)
Suspect(p) ==
    \/ isolation # None
    \/ last # None /\ \/ p.w < last.w
                      \/ ahead - (last.w - last.m) \notin -Skew..Skew

\* A suspect receipt is refused.  Steady ones re-anchor the clock in the end.
Refuse ==
    /\ Suspect(Receipt)
    /\ \/ isolation' = ahead /\ UNCHANGED last
       \/ isolation = ahead /\ isolation' = None /\ last' = Receipt
    /\ UNCHANGED <<worldVars, book, stopped, merged, admitted>>

-----------------------------------------------------------------------------
(* Closing, expiry and pruning: what every accepted call does first          *)

\* A tomb keeps what recognises a late or repeated call.
Tomb(e, retire, expired) ==
    [e EXCEPT !.live = FALSE, !.included = FALSE, !.retire = retire, !.expired = expired]

\* cohort_exact_from: no retired record started at or after it.
Exact(b, S) ==
    LET ends == {start[i].w + 1 : i \in S} \cup {b.exact}
    IN CHOOSE w \in ends : \A v \in ends : v <= w

Retire(b, S, retire, expired) ==
    [b EXCEPT !.entry = [i \in Inv |-> IF i \in S THEN Tomb(@[i], retire[i], expired)
                                       ELSE @[i]],
              !.exact = Exact(b, S)]

Retires(b) == [i \in Inv |-> IF Live(b, i) THEN b.entry[i].retire ELSE None]

Finished == {i \in Inv : Live(book, i) /\ book.entry[i].done}

Target_WallOnly == Receipt.w - Close

\* The minute to close up to by the wall clock, kept below the minute of every record
\* whose grace has not passed on the monotonic one.
Target ==
    LET wall == Receipt.w - Close
        early == {BucketEnd(i) - 1 : i \in {j \in Finished : /\ BucketEnd(j) <= wall
                                                             /\ mono < book.entry[j].retire.m}}
    IN IF early = {} THEN wall ELSE CHOOSE t \in early : \A s \in early : t <= s

Due == LET target == Target
       IN {i \in Finished : book.end < target /\ BucketEnd(i) <= target}

Closed == [Retire(book, Due, Retires(book), FALSE) EXCEPT !.end = Higher(@, Target)]

Expired(b) ==
    Retire(b, {i \in Inv : /\ Live(b, i) /\ ~b.entry[i].done
                           /\ ~Before(Receipt, After(start[i], Expiry))}, Retires(b), TRUE)

Pruned(b) ==
    LET S == {i \in Inv : /\ b.entry[i] # None /\ ~b.entry[i].live
                          /\ ~Before(Receipt, After(b.entry[i].retire, Late))}
    IN [b EXCEPT !.entry = [i \in Inv |-> IF i \in S THEN None ELSE @[i]],
                 !.owner = [r \in Round |-> IF @[r] \in S THEN None ELSE @[r]]]

Advanced == LET closed == Closed
                expired == Expired(closed)
            IN Pruned(expired)

\* What every accepted call does; b is the book it goes on with.
Accept ==
    LET counted == {i \in Due : book.entry[i].included} IN
    /\ ~Suspect(Receipt)
    /\ last' = Receipt
    /\ merged' = [i \in Inv |->
            IF i \notin counted THEN merged[i]
            ELSE [times |-> merged[i].times + 1,
                  at |-> IF merged[i].times = 0 THEN mono ELSE merged[i].at]]
    /\ UNCHANGED <<worldVars, isolation>>

-----------------------------------------------------------------------------
(* The calls                                                                 *)

\* _isolate: the record leaves the open counts.
Isolate(b, S, terminal) ==
    [b EXCEPT !.entry = [i \in Inv |->
        LET e == b.entry[i] IN
        IF i \in S /\ Live(b, i)
        THEN [e EXCEPT !.included = FALSE, !.terminal = e.terminal \/ terminal] ELSE e]]

NewRecord(i) ==
    [live |-> TRUE, conn |-> "unbound", round |-> None, terminal |-> FALSE,
     included |-> FALSE, done |-> FALSE, expired |-> TRUE, retire |-> After(start[i], Expiry)]

Admits(b, i) ==
    /\ b.entry[i] = None /\ start[i] # None /\ ~stopped
    /\ ~Before(Receipt, start[i])
    /\ ~Before(After(start[i], Freshness), Receipt)
    /\ start[i].w >= b.exact

\* register: a new record, a repetition or, with another start, a conflict.
Register(b, i) ==
    \/ /\ Admits(b, i)
       /\ book' = [b EXCEPT !.entry[i] = NewRecord(i)]
       /\ admitted' = [admitted EXCEPT ![i] = @ + 1]
       /\ UNCHANGED stopped
    \/ /\ Admits(b, i)       \* no room: from now on nobody is admitted
       /\ book' = b
       /\ stopped' = TRUE
       /\ UNCHANGED admitted
    \/ /\ Live(b, i)
       /\ book' = Isolate(b, {i}, TRUE)
       /\ UNCHANGED <<stopped, admitted>>

\* link_round: the round is claimed, unless another claims it or the contract differs.
LinkRound(b, i, r, good) ==
    /\ Live(b, i)
    /\ LET e == b.entry[i]
           other == b.owner[r]
       IN book' =
            IF (e.conn = "started" /\ e.round # r) \/ other \notin {None, i}
            THEN Isolate(b, {i, other}, TRUE)
            ELSE IF e.conn = "init_failed" \/ (e.conn = "started" /\ ~good)
            THEN Isolate(b, {i}, TRUE)
            ELSE IF ~good THEN Isolate(b, {i}, FALSE)
            ELSE [b EXCEPT !.owner[r] = i, !.entry[i].conn = "started", !.entry[i].round = r]
    /\ UNCHANGED <<stopped, admitted>>

\* report_init_failed: after the link it contradicts it.
InitFails(b, i) ==
    /\ Live(b, i) /\ ~Before(Receipt, start[i])
    /\ book' = IF b.entry[i].conn = "started" THEN Isolate(b, {i}, TRUE)
               ELSE [b EXCEPT !.entry[i].conn = "init_failed"]
    /\ UNCHANGED <<stopped, admitted>>

\* Snapshots, wrapper_exited, note_registration_error, repetitions and calls for a tomb:
\* only time passes.
Consult(b) == book' = b /\ UNCHANGED <<stopped, admitted>>

-----------------------------------------------------------------------------
\* A first finish is refused while the wall clock disagrees about its minute: closed
\* already though its time is not over, or over though it has not passed.
Verified(i, r) ==
    LET e == book.entry[i] IN
    Live(book, i) /\ e.conn = "started" /\ e.round = r /\ ~e.done
    /\ ~Before(fin[i], start[i]) /\ ~Before(Receipt, fin[i])
       => /\ ~(BucketEnd(i) <= book.end /\ Receipt.w < CloseOf(i).w)
          /\ ~(Receipt.w >= CloseOf(i).w /\ Receipt.m < CloseOf(i).m)

\* The report of a finish: as the first one, or with a detail too large to keep; of
\* another content or contract; not acceptable (malformed, or after the exit seen).
Report == {"sound", "large", "other", "mixed", "bad"}

\* A first finish after its minute is kept as a tomb only; in time it is included.
FirstFinish(b, i, fits) ==
    LET done == [b EXCEPT !.entry[i].done = TRUE, !.entry[i].retire = CloseOf(i)]
        late == [w |-> Higher(CloseOf(i).w, Receipt.w), m |-> Higher(CloseOf(i).m, Receipt.m)]
    IN IF Receipt.w >= CloseOf(i).w
       THEN Retire(done, {i}, [j \in Inv |-> late], FALSE)
       ELSE [done EXCEPT !.entry[i].included = fits]

Concluded(b, i, r, what) ==
    LET e == b.entry[i]
        other == b.owner[r]
    IN IF other \notin {None, i} THEN Isolate(b, {i, other}, TRUE)
       ELSE IF e.conn = "init_failed" THEN Isolate(b, {i}, TRUE)
       ELSE IF e.conn = "unbound" THEN Isolate(b, {i}, FALSE)
       ELSE IF \/ e.round # r \/ what = "mixed"
               \/ e.done /\ what = "other" THEN Isolate(b, {i}, TRUE)
       ELSE IF what = "bad" \/ Before(fin[i], start[i]) \/ Before(Receipt, fin[i])
            THEN Isolate(b, {i}, FALSE)
       ELSE IF e.terminal \/ e.done THEN b
       ELSE FirstFinish(b, i, what # "large")

Finish(b, i, r, what) ==
    /\ fin[i] # None /\ Live(b, i) /\ Verified(i, r)
    /\ LET c == Concluded(b, i, r, what)
           full == what = "large" /\ Live(c, i) /\ c.entry[i].done /\ ~b.entry[i].done
       IN /\ book' = c
          /\ stopped' \in {stopped, stopped \/ full}  \* the budget stops admission
    /\ UNCHANGED admitted

-----------------------------------------------------------------------------
(* The world                                                                 *)

Tick ==
    /\ mono < MaxMinute
    /\ mono' = mono + 1
    /\ UNCHANGED <<ahead, start, fin, stateVars>>

Jump ==
    /\ ahead' \in Offset \ {ahead}
    /\ UNCHANGED <<mono, start, fin, stateVars>>

\* The crawler samples both clocks as an invocation starts, and as its round finishes.
Begin(i) ==
    /\ start[i] = None
    /\ start' = [start EXCEPT ![i] = Receipt]
    /\ UNCHANGED <<mono, ahead, fin, stateVars>>

End(i) ==
    /\ start[i] # None /\ fin[i] = None
    /\ fin' = [fin EXCEPT ![i] = Receipt]
    /\ UNCHANGED <<mono, ahead, start, stateVars>>

-----------------------------------------------------------------------------
Init ==
    /\ mono = 0 /\ ahead = 0
    /\ start = [i \in Inv |-> None] /\ fin = [i \in Inv |-> None]
    /\ last = None /\ isolation = None
    /\ book = [entry |-> [i \in Inv |-> None], owner |-> [r \in Round |-> None],
               end |-> 0, exact |-> 0]
    /\ stopped = FALSE
    /\ merged = [i \in Inv |-> [times |-> 0, at |-> 0]]
    /\ admitted = [i \in Inv |-> 0]

Calls ==
    /\ Accept
    /\ \E b \in {Advanced} :
        \/ Consult(b)
        \/ \E i \in Inv :
            \/ Register(b, i)
            \/ InitFails(b, i)
            \/ \E r \in Round, good \in BOOLEAN : LinkRound(b, i, r, good)
            \/ \E r \in Round, what \in Report : Finish(b, i, r, what)

Next ==
    \/ Calls \/ Refuse
    \/ Tick \/ Jump
    \/ \E i \in Inv : Begin(i) \/ End(i)

Spec == Init /\ [][Next]_<<worldVars, stateVars>>

-----------------------------------------------------------------------------
\* A finished round enters the cumulative counts once.
CountedOnce == \A i \in Inv : merged[i].times <= 1

\* No round is closed before its minute and the grace have really passed, however the
\* wall clock jumped.
GraceKept == \A i \in Inv : merged[i].times > 0 => merged[i].at >= CloseOf(i).m

\* What is still counted as open belongs to no closed minute.
ClosedIsFinal == \A i \in Inv : Live(book, i) /\ book.entry[i].included => BucketEnd(i) > book.end

\* A cohort that the ledger answers for has lost no member.
CohortExact == \A i \in Inv : admitted[i] > 0 /\ start[i].w >= book.exact => Live(book, i)

\* Forgetting an identity does not let its registration in again.
RegisteredOnce == \A i \in Inv : admitted[i] <= 1

\* The index of rounds and the records agree, so the check that would stop the ledger
\* for good (_check_identity) never fires.
IdentityIntact ==
    \A r \in Round, i \in Inv :
        book.owner[r] = i <=> /\ book.entry[i] # None /\ book.entry[i].conn = "started"
                              /\ book.entry[i].round = r

\* What a ledger owes: each round at most once, not before its time, in no closed
\* minute, complete cohorts, one registration, one owner per round
\* (d7_round_ledger.py:1259-1385, 1426-1456, 1591-1613).
LedgerTruth ==
    /\ CountedOnce /\ GraceKept /\ ClosedIsFinal
    /\ CohortExact /\ RegisteredOnce /\ IdentityIntact
===============================================================================
