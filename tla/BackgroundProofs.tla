----------------------------- MODULE BackgroundProofs -----------------------------
(***************************************************************************)
(* Proofs about the parts of the program that stand alone, for any number   *)
(* of banks, ticks, sockets and calls.  A behaviour of MCBackground is one  *)
(* of a single part; each invariant speaks of the part that was picked, and *)
(* the variables of the others stand still.                                 *)
(***************************************************************************)
EXTENDS MCBackground, FiniteSetTheorems, SequenceTheorems, WellFoundedInduction, TLAPS

allVars == <<service, seleniumVars, alertVars, upbitVars, legacyVars, premiumVars,
             krxVars, ledgerVars>>

-----------------------------------------------------------------------------
(* The Upbit writers                                                         *)

UpbitCall == [tick : 1..MaxTime, at : {"guard", "got", "set", "stored"},
              got : 0..MaxTime, owned : BOOLEAN]

UpbitType ==
    /\ waiting \in Seq(1..MaxTime)
    /\ calls \subseteq UpbitCall
    /\ redis \in 0..MaxTime /\ memo \in 0..MaxTime

\* One call holds the lock.  Unless something has escaped the memory, this call
\* alone may be ahead of it, and what it will store is not behind it.
UpbitOrder ==
    /\ \A c, d \in Upbit!Owned : c = d
    /\ ~strayed =>
          /\ memo = 0 \/ memo = redis \/ \E c \in Upbit!Owned : c.at = "stored"
          /\ \A c \in Upbit!Owned :
                /\ c.at = "stored" => redis = c.tick
                /\ c.at = "got" => c.got = redis
                /\ c.at = "set" => Upbit!Bucket(c.tick) >= Upbit!Bucket(redis)
          /\ \A c \in calls : c.at = "stored" => c.owned

UpbitIInv == UpbitType /\ UpbitOrder /\ Upbit!NoTickForgotten

LEMMA BucketLemma ==
    /\ Upbit!Bucket(0) = 0
    /\ \A t \in 0..MaxTime : Upbit!Bucket(t) \in Nat
  BY UpbitAssumption DEF Upbit!Bucket

\* What a call becomes.
LEMMA UpbitCallLemma ==
    ASSUME NEW c \in UpbitCall, NEW at \in {"guard", "got", "set", "stored"}
    PROVE  /\ [c EXCEPT !.at = at] \in UpbitCall
           /\ [c EXCEPT !.at = at].tick = c.tick
           /\ [c EXCEPT !.at = at].at = at
           /\ [c EXCEPT !.at = at].owned <=> c.owned
  BY DEF UpbitCall

LEMMA UpbitInitHolds == Upbit!Init => UpbitIInv
  BY UpbitAssumption, EmptySeq, BucketLemma
  DEF Upbit!Init, Upbit!Time, Upbit!Owned, Upbit!NoTickForgotten,
      UpbitIInv, UpbitType, UpbitOrder

\* The calls after one of them has moved on to `d`, or has ended.
LEMMA UpbitMoves ==
    ASSUME UpbitIInv, NEW c \in calls, NEW d \in UpbitCall,
           calls' = (calls \ {c}) \cup {d}, d.owned <=> c.owned
    PROVE  /\ calls' \subseteq UpbitCall
           /\ \A a, b \in Upbit!Owned' : a = b
           /\ c.owned => Upbit!Owned' = {d} /\ Upbit!Owned = {c}
           /\ ~c.owned => Upbit!Owned' = Upbit!Owned
  BY DEF UpbitIInv, UpbitType, UpbitOrder, Upbit!Owned

LEMMA UpbitEnds ==
    ASSUME UpbitIInv, NEW c \in calls, calls' = calls \ {c}
    PROVE  /\ calls' \subseteq UpbitCall
           /\ \A a, b \in Upbit!Owned' : a = b
           /\ c.owned => Upbit!Owned' = {} /\ Upbit!Owned = {c}
           /\ ~c.owned => Upbit!Owned' = Upbit!Owned
  BY DEF UpbitIInv, UpbitType, UpbitOrder, Upbit!Owned

LEMMA UpbitSchedules ==
    ASSUME UpbitIInv, NEW t \in Upbit!Time, Upbit!Schedule(t) PROVE UpbitIInv'
<1>1. waiting' \in Seq(1..MaxTime)
  BY AppendProperties DEF UpbitIInv, UpbitType, Upbit!Schedule, Upbit!Time
<1>2. UNCHANGED <<calls, redis, memo, strayed>> /\ timer' # "none"
  BY DEF Upbit!Schedule
<1>. QED BY <1>1, <1>2
  DEF UpbitIInv, UpbitType, UpbitOrder, Upbit!Owned, Upbit!NoTickForgotten, Upbit!Bucket

LEMMA UpbitBegins == UpbitIInv /\ Upbit!Begin => UpbitIInv'
<1>. SUFFICES ASSUME UpbitIInv, Upbit!Begin PROVE UpbitIInv'
  OBVIOUS
<1>1. waiting' \in Seq(1..MaxTime) /\ Head(waiting) \in 1..MaxTime
  BY HeadTailProperties DEF UpbitIInv, UpbitType, Upbit!Begin
<1>2. PICK d : d = [tick |-> Head(waiting), at |-> "guard", got |-> 0, owned |-> TRUE]
  OBVIOUS
<1>3. d \in UpbitCall /\ d.owned /\ d.at = "guard"
  BY <1>1, <1>2, UpbitAssumption DEF UpbitCall
<1>4. calls' = calls \cup {d} /\ Upbit!Owned = {}
  BY <1>2 DEF Upbit!Begin, Upbit!LockFree
<1>5. Upbit!Owned' = {d}
  BY <1>3, <1>4 DEF Upbit!Owned
<1>6. UNCHANGED <<redis, memo, strayed, pending, timer>>
  BY DEF Upbit!Begin, Upbit!dbVars
<1>7. UpbitType'
  BY <1>1, <1>3, <1>4, <1>6 DEF UpbitIInv, UpbitType
<1>8. UpbitOrder'
  BY <1>3, <1>4, <1>5, <1>6 DEF UpbitIInv, UpbitOrder
<1>. QED BY <1>6, <1>7, <1>8 DEF UpbitIInv, Upbit!NoTickForgotten

\* What the guard lets through is not behind what it compared with.
LEMMA DecidedLemma ==
    ASSUME UpbitIInv, NEW c \in calls, NEW state \in 0..MaxTime, Upbit!Decided(c, state)
    PROVE  /\ calls' \subseteq UpbitCall
           /\ \A a, b \in Upbit!Owned' : a = b
           /\ c.owned => /\ Upbit!Owned = {c}
                         /\ \A a \in Upbit!Owned' :
                               /\ a.at = "set"
                               /\ Upbit!Bucket(a.tick) >= Upbit!Bucket(state)
           /\ ~c.owned => Upbit!Owned' = Upbit!Owned
           /\ \A a \in calls' : a.at = "stored" => a \in calls
<1>1. c \in UpbitCall /\ c.tick \in 0..MaxTime /\ calls \subseteq UpbitCall
  BY UpbitAssumption DEF UpbitIInv, UpbitType, UpbitCall
<1>2. CASE Upbit!Skipped(c.tick, state)
  <2>1. calls' = calls \ {c}
    BY <1>2 DEF Upbit!Decided
  <2>. QED BY <2>1, UpbitEnds
<1>3. CASE ~Upbit!Skipped(c.tick, state)
  <2>1. PICK d : d = [c EXCEPT !.at = "set"]
    OBVIOUS
  <2>2. calls' = (calls \ {c}) \cup {d}
    BY <1>3, <2>1 DEF Upbit!Decided
  <2>3. d \in UpbitCall /\ d.tick = c.tick /\ d.at = "set" /\ (d.owned <=> c.owned)
    BY <1>1, <2>1, UpbitCallLemma
  <2>4. Upbit!Bucket(c.tick) >= Upbit!Bucket(state)
    <3>1. state = 0 \/ ~(Upbit!Bucket(c.tick) < Upbit!Bucket(state))
      BY <1>3 DEF Upbit!Skipped
    <3>. QED BY <1>1, <3>1, BucketLemma
  <2>. QED BY <2>2, <2>3, <2>4, UpbitMoves
<1>. QED BY <1>2, <1>3

LEMMA UpbitGuards ==
    ASSUME UpbitIInv, NEW c \in calls, Upbit!Guard(c) PROVE UpbitIInv'
<1>1. /\ UNCHANGED <<waiting, redis, memo, strayed, pending, timer>>
      /\ c.at = "guard" /\ memo # 0 /\ Upbit!Decided(c, memo)
  BY DEF Upbit!Guard, Upbit!dbVars
<1>2. memo \in 0..MaxTime
  BY DEF UpbitIInv, UpbitType
<1>3. /\ calls' \subseteq UpbitCall
      /\ \A a, b \in Upbit!Owned' : a = b
      /\ c.owned => /\ Upbit!Owned = {c}
                    /\ \A a \in Upbit!Owned' :
                          /\ a.at = "set"
                          /\ Upbit!Bucket(a.tick) >= Upbit!Bucket(memo)
      /\ ~c.owned => Upbit!Owned' = Upbit!Owned
      /\ \A a \in calls' : a.at = "stored" => a \in calls
  BY <1>1, <1>2, DecidedLemma
<1>4. UpbitType'
  BY <1>1, <1>3 DEF UpbitIInv, UpbitType
<1>5. UpbitOrder'
  <2>1. CASE c.owned
    <3>1. ~strayed => memo = redis
      BY <1>1, <1>3, <2>1 DEF UpbitIInv, UpbitOrder
    <3>. QED BY <1>1, <1>3, <2>1, <3>1 DEF UpbitIInv, UpbitOrder, Upbit!Bucket
  <2>2. CASE ~c.owned
    BY <1>1, <1>3, <2>2 DEF UpbitIInv, UpbitOrder, Upbit!Bucket
  <2>. QED BY <2>1, <2>2
<1>. QED BY <1>1, <1>4, <1>5 DEF UpbitIInv, Upbit!NoTickForgotten

LEMMA UpbitGets ==
    ASSUME UpbitIInv, NEW c \in calls, Upbit!Gets(c) PROVE UpbitIInv'
<1>1. /\ UNCHANGED <<waiting, redis, memo, pending, timer>>
      /\ c.at = "guard" /\ memo = 0 /\ c \in UpbitCall
  BY DEF Upbit!Gets, Upbit!dbVars, UpbitIInv, UpbitType
<1>2. ASSUME redis # 0, calls' = (calls \ {c}) \cup {[c EXCEPT !.at = "got", !.got = redis]},
             UNCHANGED strayed
      PROVE  UpbitIInv'
  <2>1. PICK d : d = [c EXCEPT !.at = "got", !.got = redis]
    OBVIOUS
  <2>2. d \in UpbitCall /\ d.at = "got" /\ d.got = redis /\ (d.owned <=> c.owned)
    BY <1>1, <2>1 DEF UpbitCall, UpbitIInv, UpbitType
  <2>3. /\ calls' \subseteq UpbitCall
        /\ \A a, b \in Upbit!Owned' : a = b
        /\ c.owned => Upbit!Owned' = {d} /\ Upbit!Owned = {c}
        /\ ~c.owned => Upbit!Owned' = Upbit!Owned
    <3>1. calls' = (calls \ {c}) \cup {d}
      BY <1>2, <2>1
    <3>. QED BY <2>2, <3>1, UpbitMoves
  <2>4. UpbitType'
    BY <1>1, <2>3 DEF UpbitIInv, UpbitType
  <2>5. UpbitOrder'
    BY <1>1, <1>2, <2>1, <2>2, <2>3 DEF UpbitIInv, UpbitOrder, Upbit!Bucket
  <2>. QED BY <1>1, <2>4, <2>5 DEF UpbitIInv, Upbit!NoTickForgotten
<1>3. ASSUME calls' = (calls \ {c}) \cup {[c EXCEPT !.at = "set"]},
             strayed' = (strayed \/ redis # 0)
      PROVE  UpbitIInv'
  <2>1. PICK d : d = [c EXCEPT !.at = "set"]
    OBVIOUS
  <2>2. d \in UpbitCall /\ d.tick = c.tick /\ d.at = "set" /\ (d.owned <=> c.owned)
    BY <1>1, <2>1, UpbitCallLemma
  <2>3. /\ calls' \subseteq UpbitCall
        /\ \A a, b \in Upbit!Owned' : a = b
        /\ c.owned => Upbit!Owned' = {d} /\ Upbit!Owned = {c}
        /\ ~c.owned => Upbit!Owned' = Upbit!Owned
    BY <1>3, <2>1, <2>2, UpbitMoves
  <2>4. UpbitType'
    BY <1>1, <2>3 DEF UpbitIInv, UpbitType
  <2>5. redis = 0 => Upbit!Bucket(d.tick) >= Upbit!Bucket(redis)
    BY <2>2, BucketLemma, UpbitAssumption DEF UpbitCall
  <2>6. UpbitOrder'
    BY <1>1, <1>3, <2>1, <2>2, <2>3, <2>5 DEF UpbitIInv, UpbitOrder, Upbit!Bucket
  <2>. QED BY <1>1, <2>4, <2>6 DEF UpbitIInv, Upbit!NoTickForgotten
<1>. QED BY <1>2, <1>3 DEF Upbit!Gets

LEMMA UpbitRecalls ==
    ASSUME UpbitIInv, NEW c \in calls, Upbit!Recalls(c) PROVE UpbitIInv'
<1>1. /\ UNCHANGED <<waiting, redis, pending, timer>> /\ memo' = c.got
      /\ c.at = "got" /\ Upbit!Decided(c, c.got)
  BY DEF Upbit!Recalls, Upbit!dbVars
<1>2. strayed' <=> strayed \/ ~c.owned
  BY DEF Upbit!Recalls
<1>3. c.got \in 0..MaxTime
  BY DEF UpbitIInv, UpbitType, UpbitCall
<1>4. /\ calls' \subseteq UpbitCall
      /\ \A a, b \in Upbit!Owned' : a = b
      /\ c.owned => /\ Upbit!Owned = {c}
                    /\ \A a \in Upbit!Owned' :
                          /\ a.at = "set"
                          /\ Upbit!Bucket(a.tick) >= Upbit!Bucket(c.got)
      /\ ~c.owned => Upbit!Owned' = Upbit!Owned
      /\ \A a \in calls' : a.at = "stored" => a \in calls
  BY <1>1, <1>3, DecidedLemma
<1>5. UpbitType'
  BY <1>1, <1>3, <1>4 DEF UpbitIInv, UpbitType
<1>6. UpbitOrder'
  <2>1. ~strayed /\ c.owned => c.got = redis
    BY <1>1, <1>4 DEF UpbitIInv, UpbitOrder
  <2>. QED BY <1>1, <1>2, <1>4, <2>1 DEF UpbitIInv, UpbitOrder, Upbit!Bucket
<1>. QED BY <1>1, <1>5, <1>6 DEF UpbitIInv, Upbit!NoTickForgotten

LEMMA UpbitSets ==
    ASSUME UpbitIInv, NEW c \in calls, Upbit!Set(c)
    PROVE  /\ UpbitIInv'
           /\ strayed' \/ redis' = redis \/ Upbit!Bucket(redis)' >= Upbit!Bucket(redis)
<1>1. /\ UNCHANGED <<waiting, memo, pending, timer>>
      /\ c.at = "set" /\ c \in UpbitCall /\ c.tick \in 0..MaxTime
  BY UpbitAssumption DEF Upbit!Set, Upbit!dbVars, UpbitIInv, UpbitType, UpbitCall
<1>2. ASSUME redis' = c.tick, strayed' = (strayed \/ ~c.owned),
             calls' = (calls \ {c}) \cup {[c EXCEPT !.at = "stored"]}
      PROVE  /\ UpbitIInv'
             /\ strayed' \/ Upbit!Bucket(redis)' >= Upbit!Bucket(redis)
  <2>1. PICK d : d = [c EXCEPT !.at = "stored"]
    OBVIOUS
  <2>2. d \in UpbitCall /\ d.tick = c.tick /\ d.at = "stored" /\ (d.owned <=> c.owned)
    BY <1>1, <2>1, UpbitCallLemma
  <2>3. /\ calls' \subseteq UpbitCall
        /\ \A a, b \in Upbit!Owned' : a = b
        /\ c.owned => Upbit!Owned' = {d} /\ Upbit!Owned = {c}
        /\ ~c.owned => Upbit!Owned' = Upbit!Owned
    BY <1>2, <2>1, <2>2, UpbitMoves
  <2>4. UpbitType'
    BY <1>1, <1>2, <2>3 DEF UpbitIInv, UpbitType
  <2>5. strayed' <=> strayed \/ ~c.owned
    BY <1>2
  <2>6. UpbitOrder'
    BY <1>1, <1>2, <2>1, <2>2, <2>3, <2>5 DEF UpbitIInv, UpbitOrder
  <2>7. strayed' \/ Upbit!Bucket(redis)' >= Upbit!Bucket(redis)
    BY <1>1, <1>2, <2>3, <2>5 DEF UpbitIInv, UpbitOrder, Upbit!Bucket
  <2>. QED BY <1>1, <2>4, <2>6, <2>7 DEF UpbitIInv, Upbit!NoTickForgotten
<1>3. ASSUME calls' = calls \ {c}, redis' \in {redis, c.tick},
             strayed' \/ (redis' = redis /\ (strayed' <=> strayed))
      PROVE  UpbitIInv'
  <2>1. /\ calls' \subseteq UpbitCall
        /\ \A a, b \in Upbit!Owned' : a = b
        /\ c.owned => Upbit!Owned' = {} /\ Upbit!Owned = {c}
        /\ ~c.owned => Upbit!Owned' = Upbit!Owned
    BY <1>3, UpbitEnds
  <2>2. UpbitType'
    BY <1>1, <1>3, <2>1 DEF UpbitIInv, UpbitType
  <2>3. UpbitOrder'
    BY <1>1, <1>3, <2>1 DEF UpbitIInv, UpbitOrder, Upbit!Bucket
  <2>. QED BY <1>1, <2>2, <2>3 DEF UpbitIInv, Upbit!NoTickForgotten
<1>. QED BY <1>2, <1>3 DEF Upbit!Set

LEMMA UpbitRemembers ==
    ASSUME UpbitIInv, NEW c \in calls, Upbit!Remember(c) PROVE UpbitIInv'
<1>1. /\ UNCHANGED <<waiting, redis, strayed, pending, timer>> /\ memo' = c.tick
      /\ c.at = "stored" /\ c.tick \in 0..MaxTime /\ calls' = calls \ {c}
  BY UpbitAssumption DEF Upbit!Remember, Upbit!dbVars, UpbitIInv, UpbitType, UpbitCall
<1>2. /\ calls' \subseteq UpbitCall
      /\ \A a, b \in Upbit!Owned' : a = b
      /\ c.owned => Upbit!Owned' = {} /\ Upbit!Owned = {c}
  BY <1>1, UpbitEnds
<1>3. UpbitType'
  BY <1>1, <1>2 DEF UpbitIInv, UpbitType
<1>4. ~strayed => c.owned /\ redis = c.tick
  BY <1>1 DEF UpbitIInv, UpbitOrder, Upbit!Owned
<1>5. UpbitOrder'
  BY <1>1, <1>2, <1>4 DEF UpbitIInv, UpbitOrder
<1>. QED BY <1>1, <1>3, <1>5 DEF UpbitIInv, Upbit!NoTickForgotten

\* The calls of the session lose their task; one that has stored is seen.
LEMMA UpbitCuts == UpbitIInv /\ Upbit!DrainTimesOut => UpbitIInv'
<1>. SUFFICES ASSUME UpbitIInv, Upbit!DrainTimesOut PROVE UpbitIInv'
  OBVIOUS
<1>1. /\ waiting' = <<>> /\ UNCHANGED <<redis, memo, pending, timer>>
      /\ calls \subseteq UpbitCall
  BY DEF Upbit!DrainTimesOut, Upbit!dbVars, UpbitIInv, UpbitType
<1>2. PICK S \in SUBSET Upbit!Owned :
         /\ \A c \in Upbit!Owned \ S : c.at = "guard"
         /\ calls' = (calls \ Upbit!Owned) \cup {[c EXCEPT !.owned = FALSE] : c \in S}
         /\ strayed' = (strayed \/ \E c \in S : c.at = "stored")
  BY DEF Upbit!DrainTimesOut
<1>3. S \subseteq calls
  BY <1>2 DEF Upbit!Owned
<1>4. ASSUME NEW c \in S
      PROVE  /\ [c EXCEPT !.owned = FALSE] \in UpbitCall
             /\ [c EXCEPT !.owned = FALSE].at = c.at
             /\ ~[c EXCEPT !.owned = FALSE].owned
  <2>1. c \in UpbitCall
    BY <1>1, <1>3
  <2>. QED BY <2>1 DEF UpbitCall
<1>5. Upbit!Owned' = {}
  BY <1>2, <1>4 DEF Upbit!Owned
<1>6. UpbitType'
  BY <1>1, <1>2, <1>4, EmptySeq DEF UpbitIInv, UpbitType
<1>7. ~strayed' => ~strayed /\ \A c \in S : c.at # "stored"
  BY <1>2
<1>8. ~strayed' => \A c \in calls' : c.at # "stored"
  BY <1>2, <1>4, <1>7 DEF UpbitIInv, UpbitOrder, Upbit!Owned
<1>9. ~strayed' => memo = 0 \/ memo = redis
  BY <1>2, <1>7 DEF UpbitIInv, UpbitOrder
<1>10. UpbitOrder'
  BY <1>1, <1>5, <1>8, <1>9 DEF UpbitOrder
<1>. QED BY <1>1, <1>6, <1>10 DEF UpbitIInv, Upbit!NoTickForgotten

\* The database writer and the phases of a session leave the calls alone.
LEMMA UpbitRest ==
    ASSUME UpbitIInv,
           \/ Upbit!WindowEnds \/ Upbit!WriteEnds \/ Upbit!CloseBegins
           \/ Upbit!FlushEnds \/ Upbit!Drained \/ UNCHANGED upbitVars
    PROVE  UpbitIInv'
<1>. USE DEF Upbit!WindowEnds, Upbit!WriteEnds, Upbit!CloseBegins, Upbit!FlushEnds,
             Upbit!Drained, Upbit!Rescheduled, Upbit!redisVars, Upbit!dbVars, upbitVars
<1>1. UNCHANGED <<waiting, calls, redis, memo, strayed>>
  OBVIOUS
<1>2. Upbit!NoTickForgotten'
  BY DEF UpbitIInv, Upbit!NoTickForgotten
<1>3. UpbitType' /\ UpbitOrder'
  BY <1>1 DEF UpbitIInv, UpbitType, UpbitOrder, Upbit!Owned, Upbit!Bucket
<1>. QED BY <1>2, <1>3 DEF UpbitIInv

LEMMA UpbitStep ==
    UpbitIInv /\ (Upbit!Next \/ UNCHANGED upbitVars)
        => /\ UpbitIInv'
           /\ strayed' \/ redis' = redis \/ Upbit!Bucket(redis)' >= Upbit!Bucket(redis)
<1>. SUFFICES ASSUME UpbitIInv, Upbit!Next \/ UNCHANGED upbitVars
              PROVE  /\ UpbitIInv'
                     /\ \/ strayed' \/ redis' = redis
                        \/ Upbit!Bucket(redis)' >= Upbit!Bucket(redis)
  OBVIOUS
<1>1. ASSUME NEW t \in Upbit!Time, Upbit!Schedule(t) PROVE UpbitIInv' /\ redis' = redis
  BY <1>1, UpbitSchedules DEF Upbit!Schedule
<1>2. CASE Upbit!Begin
  BY <1>2, UpbitBegins DEF Upbit!Begin
<1>3. ASSUME NEW c \in calls,
             Upbit!Guard(c) \/ Upbit!Gets(c) \/ Upbit!Recalls(c) \/ Upbit!Remember(c)
      PROVE  UpbitIInv' /\ redis' = redis
  BY <1>3, UpbitGuards, UpbitGets, UpbitRecalls, UpbitRemembers
  DEF Upbit!Guard, Upbit!Gets, Upbit!Recalls, Upbit!Remember
<1>4. CASE Upbit!DrainTimesOut
  BY <1>4, UpbitCuts DEF Upbit!DrainTimesOut
<1>5. CASE \/ Upbit!WindowEnds \/ Upbit!WriteEnds \/ Upbit!CloseBegins
           \/ Upbit!FlushEnds \/ Upbit!Drained \/ UNCHANGED upbitVars
  BY <1>5, UpbitRest
  DEF Upbit!WindowEnds, Upbit!WriteEnds, Upbit!CloseBegins, Upbit!FlushEnds,
      Upbit!Drained, Upbit!redisVars, upbitVars
<1>. QED BY <1>1, <1>2, <1>3, <1>4, <1>5, UpbitSets DEF Upbit!Next

UpbitInv == service = "upbit" => UpbitIInv

LEMMA UpbitInvariant == Spec => []UpbitInv
<1>1. Init => UpbitInv
  BY UpbitInitHolds DEF Init, UpbitInv
<1>2. UpbitInv /\ [Next]_allVars
         => UpbitInv'
  <2>1. [Next]_allVars => service' = service
    BY DEF Next, allVars
  <2>2. service = "upbit" /\ [Next]_allVars => Upbit!Next \/ UNCHANGED upbitVars
    BY DEF Next, allVars
  <2>. QED BY <2>1, <2>2, UpbitStep DEF UpbitInv
<1>. QED BY <1>1, <1>2, PTL DEF Spec, allVars

-----------------------------------------------------------------------------
(* The browser queue                                                         *)

SeleniumType ==
    /\ queue \subseteq Selenium!Item /\ IsFiniteSet(queue)
    /\ \/ worker \in {Selenium!Waiting, Selenium!Ended, [at |-> "cancelling"]}
       \/ worker \in [at : {"running"}, item : Selenium!Item, overdue : BOOLEAN]

\* A running job leaves the room that its retry may need, and its bank is refused
\* to the cron jobs.
SeleniumRoom ==
    /\ Cardinality(queue) <= SoftLimit + 1
    /\ worker.at = "running" => Cardinality(queue) <= SoftLimit
                                /\ current = worker.item.bank

\* Shutdown has cancelled the worker before it joins it.
SeleniumEnds == ending = "joining" => worker.at \in {"cancelling", "ended"}

SeleniumIInv == SeleniumType /\ SeleniumRoom /\ SeleniumEnds /\ Selenium!QueueSound

LEMMA SeleniumInitHolds == Selenium!Init => SeleniumIInv
<1>. SUFFICES ASSUME Selenium!Init PROVE SeleniumIInv
  OBVIOUS
<1>1. IsFiniteSet(queue) /\ Cardinality(queue) = 0
  BY FS_EmptySet DEF Selenium!Init
<1>. QED
  BY <1>1, SeleniumAssumption
  DEF Selenium!Init, SeleniumIInv, SeleniumType, SeleniumRoom, SeleniumEnds,
      Selenium!QueueSound, Selenium!RetryNeverBlocks, Selenium!OneJobPerBank,
      Selenium!NoWorkerAfterShutdown, Selenium!Waiting

\* The instance counts as the library does.
LEMMA SeleniumCounts ==
    ASSUME NEW S PROVE Selenium!Cardinality(S) = Cardinality(S)
  BY DEF Selenium!Cardinality, Cardinality

\* One more item in the queue is one more at most.
LEMMA OneMoreItem ==
    ASSUME NEW S, IsFiniteSet(S), NEW i
    PROVE  /\ IsFiniteSet(S \cup {i})
           /\ Cardinality(S) \in Nat /\ Cardinality(S \cup {i}) \in Nat
           /\ Cardinality(S \cup {i}) <= Cardinality(S) + 1
<1>1. Cardinality(S) \in Nat
  BY FS_CardinalityType
<1>. QED BY <1>1, FS_AddElement

LEMMA SeleniumEnqueues ==
    ASSUME SeleniumIInv, NEW b \in Bank, Selenium!Enqueue(b)
    PROVE  SeleniumIInv'
<1>1. PICK i \in Selenium!Item : i.bank = b /\ queue' = queue \cup {i}
  BY DEF Selenium!Item, Selenium!Enqueue
<1>2. /\ IsFiniteSet(queue') /\ queue' \subseteq Selenium!Item
      /\ Cardinality(queue) \in Nat /\ Cardinality(queue') \in Nat
      /\ Cardinality(queue') <= Cardinality(queue) + 1
  BY <1>1, OneMoreItem DEF SeleniumIInv, SeleniumType
<1>3. SeleniumRoom'
  BY <1>2, SeleniumAssumption, SeleniumCounts
  DEF Selenium!Enqueue, Selenium!HasRoom, SeleniumIInv, SeleniumRoom
<1>4. \A j \in queue : j.bank # b
  BY DEF Selenium!Enqueue, Selenium!Busy
<1>5. Selenium!OneJobPerBank'
  BY <1>1, <1>4 DEF Selenium!Enqueue, Selenium!Busy, SeleniumIInv, SeleniumRoom,
         Selenium!QueueSound, Selenium!OneJobPerBank
<1>. QED
  BY <1>2, <1>3, <1>5
  DEF Selenium!Enqueue, SeleniumIInv, SeleniumType, SeleniumEnds, Selenium!QueueSound,
      Selenium!RetryNeverBlocks, Selenium!NoWorkerAfterShutdown

LEMMA SeleniumTakes ==
    ASSUME SeleniumIInv, NEW i \in Selenium!Item, Selenium!Take(i)
    PROVE  SeleniumIInv'
<1>1. /\ IsFiniteSet(queue') /\ queue' \subseteq Selenium!Item
      /\ Cardinality(queue) \in Nat /\ Cardinality(queue') = Cardinality(queue) - 1
  BY FS_RemoveElement, FS_CardinalityType DEF Selenium!Take, SeleniumIInv, SeleniumType
<1>2. /\ worker' \in [at : {"running"}, item : Selenium!Item, overdue : BOOLEAN]
      /\ worker'.at = "running" /\ worker'.item = i
  BY DEF Selenium!Take, Selenium!On
<1>3. SeleniumRoom'
  BY <1>1, <1>2, SeleniumAssumption DEF Selenium!Take, SeleniumIInv, SeleniumRoom
<1>4. Selenium!OneJobPerBank'
  BY <1>2
  DEF Selenium!Take, SeleniumIInv, Selenium!QueueSound, Selenium!OneJobPerBank
<1>5. ending # "joining" /\ ending # "down"
  BY DEF Selenium!Take, SeleniumIInv, SeleniumEnds, Selenium!Waiting, Selenium!Ended,
         Selenium!QueueSound, Selenium!NoWorkerAfterShutdown
<1>. QED
  BY <1>1, <1>2, <1>3, <1>4, <1>5
  DEF Selenium!Take, SeleniumIInv, SeleniumType, SeleniumEnds, Selenium!QueueSound,
      Selenium!RetryNeverBlocks, Selenium!NoWorkerAfterShutdown

\* The retry that a failed first attempt owes finds room.
LEMMA SeleniumFails ==
    ASSUME SeleniumIInv, Selenium!Fails
    PROVE  SeleniumIInv'
<1>1. /\ worker \in [at : {"running"}, item : Selenium!Item, overdue : BOOLEAN]
      /\ worker.at = "running" /\ current = worker.item.bank
      /\ Cardinality(queue) <= SoftLimit
  BY DEF Selenium!Fails, Selenium!Settled, SeleniumIInv, SeleniumType, SeleniumRoom,
         Selenium!Waiting, Selenium!Ended
<1>2. IsFiniteSet(queue) /\ Cardinality(queue) \in Nat /\ Cardinality(queue) < Capacity
  BY <1>1, FS_CardinalityType, SeleniumAssumption DEF SeleniumIInv, SeleniumType
<1>3. PICK i \in Selenium!Item :
          /\ i.bank = worker.item.bank /\ queue' = queue \cup {i}
          /\ worker' = Selenium!Waiting
  <2>1. [worker.item EXCEPT !.retry = TRUE] \in Selenium!Item
        /\ [worker.item EXCEPT !.retry = TRUE].bank = worker.item.bank
    BY <1>1 DEF Selenium!Item
  <2>. QED BY <1>2, <2>1, SeleniumCounts DEF Selenium!Fails
<1>4. /\ IsFiniteSet(queue') /\ queue' \subseteq Selenium!Item
      /\ Cardinality(queue') \in Nat /\ Cardinality(queue') <= Cardinality(queue) + 1
  BY <1>2, <1>3, OneMoreItem DEF SeleniumIInv, SeleniumType
<1>5. SeleniumRoom'
  BY <1>1, <1>2, <1>3, <1>4, SeleniumAssumption DEF SeleniumRoom, Selenium!Waiting
<1>6. Selenium!OneJobPerBank'
  BY <1>1, <1>3
  DEF SeleniumIInv, Selenium!QueueSound, Selenium!OneJobPerBank, Selenium!Waiting
<1>7. ending # "joining" /\ ending # "down"
  BY <1>1 DEF SeleniumIInv, SeleniumEnds, Selenium!Ended, Selenium!QueueSound,
              Selenium!NoWorkerAfterShutdown
<1>. QED
  BY <1>3, <1>4, <1>5, <1>6, <1>7
  DEF Selenium!Fails, SeleniumIInv, SeleniumType, SeleniumEnds, Selenium!QueueSound,
      Selenium!RetryNeverBlocks, Selenium!NoWorkerAfterShutdown, Selenium!Waiting

LEMMA SeleniumStep ==
    SeleniumIInv /\ (Selenium!Next \/ UNCHANGED seleniumVars) => SeleniumIInv'
<1>. SUFFICES ASSUME SeleniumIInv, Selenium!Next \/ UNCHANGED seleniumVars
              PROVE  SeleniumIInv'
  OBVIOUS
<1>. USE DEF SeleniumIInv, SeleniumType, SeleniumRoom, SeleniumEnds,
             Selenium!QueueSound, Selenium!RetryNeverBlocks, Selenium!OneJobPerBank,
             Selenium!NoWorkerAfterShutdown, Selenium!Waiting, Selenium!Ended
<1>1. ASSUME NEW b \in Bank, Selenium!OrphanExits(b) PROVE SeleniumIInv'
  BY <1>1 DEF Selenium!OrphanExits
<1>2. CASE Selenium!Overruns
  BY <1>2 DEF Selenium!Overruns
<1>3. CASE Selenium!Finishes \/ Selenium!CancelLands
  BY <1>3, FS_CardinalityType, SeleniumAssumption
  DEF Selenium!Finishes, Selenium!Settled, Selenium!CancelLands
<1>4. CASE Selenium!HealthCancels \/ Selenium!ShutdownCancels
  BY <1>4 DEF Selenium!HealthCancels, Selenium!ShutdownCancels, Selenium!Cancelled
<1>5. CASE Selenium!HealthResumes
  BY <1>5 DEF Selenium!HealthResumes, Selenium!MayRestart
<1>6. CASE Selenium!Signal \/ Selenium!ShutdownJoins \/ UNCHANGED seleniumVars
  BY <1>6 DEF Selenium!Signal, Selenium!ShutdownJoins, seleniumVars
<1>. QED BY <1>1, <1>2, <1>3, <1>4, <1>5, <1>6, SeleniumEnqueues, SeleniumTakes,
            SeleniumFails DEF Selenium!Next

SeleniumInv == service = "selenium" => SeleniumIInv

LEMMA SeleniumInvariant == Spec => []SeleniumInv
<1>1. Init => SeleniumInv
  BY SeleniumInitHolds DEF Init, SeleniumInv
<1>2. SeleniumInv /\ [Next]_allVars => SeleniumInv'
  <2>1. [Next]_allVars => service' = service
    BY DEF Next, allVars
  <2>2. service = "selenium" /\ [Next]_allVars
           => Selenium!Next \/ UNCHANGED seleniumVars
    BY DEF Next, allVars
  <2>. QED BY <2>1, <2>2, SeleniumStep DEF SeleniumInv
<1>. QED BY <1>1, <1>2, PTL DEF Spec, allVars

-----------------------------------------------------------------------------
(* The verdict on a subscription                                             *)

PremiumAsking == [at : {"asking"}, began : Int, held : BOOLEAN \cup {None},
                  strict : BOOLEAN, crossed : BOOLEAN]
PremiumReplied == [at : {"replied"}, reply : Premium!Reply, began : Int,
                   held : BOOLEAN \cup {None}, strict : BOOLEAN, crossed : BOOLEAN]

PremiumType ==
    /\ now \in Int /\ premium \in BOOLEAN /\ tainted \in BOOLEAN
    /\ seen \in [BOOLEAN -> Int]
    /\ entry = None \/ entry \in [value : BOOLEAN, at : Int]
    /\ call \in [Call -> {Premium!Idle} \cup PremiumAsking \cup PremiumReplied]

\* What the reply that travels says.
Said(r, b) == r.at = "replied" /\ r.reply = (IF b THEN "premium" ELSE "not")

\* What is seen now, and what the cache holds, is as old as its time says.
PremiumSeen ==
    /\ seen[premium] = now /\ premium \in since
    /\ \A b \in BOOLEAN : seen[b] <= now
    /\ entry # None => /\ seen[entry.value] >= entry.at - MaxCall
                       /\ tainted \/ entry.value \in since

\* A call that is under way: its reply is as recent as its question, and the value
\* it holds was younger than its stale age then.
CallSound(r) ==
    /\ r.began <= now /\ now - r.began <= MaxCall
    /\ \A b \in BOOLEAN :
          /\ Said(r, b) => seen[b] >= r.began /\ (r.crossed \/ b \in since)
          /\ r.held = b /\ b # None =>
                /\ seen[b] >= r.began - StaleTTL - MaxCall + 1
                /\ r.crossed \/ tainted \/ b \in since

PremiumCalls == \A c \in Call : call[c].at # "idle" => CallSound(call[c])

PremiumIInv == PremiumType /\ PremiumSeen /\ PremiumCalls /\ Premium!VerdictTrusted

LEMMA PremiumInitHolds == Premium!Init => PremiumIInv
<1>. SUFFICES ASSUME Premium!Init PROVE PremiumIInv
  OBVIOUS
<1>1. PremiumType
  <2>1. Premium!Never \in Int
    BY PremiumAssumption DEF Premium!Never
  <2>2. seen \in [BOOLEAN -> Int] /\ call \in [Call -> {Premium!Idle}]
    BY <2>1 DEF Premium!Init
  <2>. QED BY <2>2 DEF Premium!Init, PremiumType
<1>3. PremiumCalls
  BY DEF Premium!Init, PremiumCalls, Premium!Idle
<1>2. PremiumSeen
  BY PremiumAssumption DEF Premium!Init, PremiumSeen, Premium!Never
<1>. QED
  BY <1>1, <1>2, <1>3
  DEF Premium!Init, PremiumIInv, Premium!VerdictTrusted, Premium!VerdictRecent,
      Premium!WebhookSeen, Premium!Definite

\* A step that answers nobody.
LEMMA PremiumSilent ==
    ASSUME answer' = None PROVE Premium!VerdictTrusted'
BY DEF Premium!VerdictTrusted, Premium!VerdictRecent, Premium!WebhookSeen,
       Premium!Definite

LEMMA PremiumTicks ==
    ASSUME PremiumIInv, Premium!Tick PROVE PremiumIInv'
<1>. USE DEF Premium!Tick, PremiumIInv
<1>1. PremiumType'
  BY DEF PremiumType
<1>2. \A b \in BOOLEAN : seen'[b] >= seen[b] /\ seen'[b] <= now + 1
  BY DEF PremiumType, PremiumSeen
<1>3. PremiumSeen'
  BY <1>2, PremiumAssumption DEF PremiumType, PremiumSeen
<1>4. PremiumCalls'
  <2>. SUFFICES ASSUME NEW c \in Call, call[c].at # "idle" PROVE CallSound(call[c])'
    BY DEF PremiumCalls
  <2>1. CallSound(call[c]) /\ now - call[c].began < MaxCall
    BY DEF PremiumCalls, Premium!Idle
  <2>2. call[c].began \in Int /\ now \in Int /\ seen \in [BOOLEAN -> Int]
        /\ seen' \in [BOOLEAN -> Int]
    BY <1>1 DEF PremiumType, PremiumAsking, PremiumReplied, Premium!Idle
  <2>. QED BY <2>1, <2>2, <1>2, PremiumAssumption DEF CallSound, Said
<1>. QED BY <1>1, <1>3, <1>4, PremiumSilent

LEMMA PremiumChanges ==
    ASSUME PremiumIInv, Premium!Changes PROVE PremiumIInv'
<1>. USE DEF Premium!Changes, PremiumIInv
<1>1. PremiumType'
  BY DEF PremiumType
<1>2. \A b \in BOOLEAN : seen'[b] >= seen[b] /\ seen'[b] <= now
  BY DEF PremiumType, PremiumSeen
<1>3. PremiumSeen'
  BY <1>1, <1>2, PremiumAssumption DEF PremiumType, PremiumSeen
<1>4. PremiumCalls'
  <2>. SUFFICES ASSUME NEW c \in Call, call[c].at # "idle" PROVE CallSound(call[c])'
    BY DEF PremiumCalls
  <2>1. CallSound(call[c])
    BY DEF PremiumCalls
  <2>2. call[c].began \in Int /\ now \in Int /\ seen \in [BOOLEAN -> Int]
        /\ seen' \in [BOOLEAN -> Int]
    BY <1>1 DEF PremiumType, PremiumAsking, PremiumReplied, Premium!Idle
  <2>. QED BY <2>1, <2>2, <1>2, PremiumAssumption DEF CallSound, Said
<1>. QED BY <1>1, <1>3, <1>4, PremiumSilent

LEMMA PremiumForgets ==
    ASSUME PremiumIInv, Premium!Webhook \/ Premium!Evicted \/ Premium!Restart
    PROVE  PremiumIInv'
<1>. USE DEF PremiumIInv
<1>1. CASE Premium!Evicted
  <2>1. PremiumType' /\ PremiumSeen'
    BY <1>1 DEF Premium!Evicted, PremiumType, PremiumSeen
  <2>2. PremiumCalls'
    BY <1>1 DEF Premium!Evicted, PremiumCalls, CallSound, Said
  <2>. QED BY <1>1, <2>1, <2>2, PremiumSilent DEF Premium!Evicted
<1>2. CASE Premium!Restart
  <2>1. PremiumType' /\ PremiumSeen'
    BY <1>2 DEF Premium!Restart, PremiumType, PremiumSeen
  <2>2. PremiumCalls'
    BY <1>2 DEF Premium!Restart, PremiumCalls, Premium!Idle
  <2>. QED BY <1>2, <2>1, <2>2, PremiumSilent DEF Premium!Restart
<1>3. CASE Premium!Webhook
  <2>. USE <1>3 DEF Premium!Webhook
  <2>1. ASSUME NEW c \in Call, call[c] # Premium!Idle
        PROVE  /\ call'[c] \in PremiumAsking \cup PremiumReplied
               /\ call'[c].at = call[c].at /\ call'[c].began = call[c].began
               /\ call'[c].held = call[c].held /\ call'[c].crossed
               /\ call'[c].at = "replied" => call'[c].reply = call[c].reply
    <3>1. CASE call[c] \in PremiumAsking
      <4>1. call'[c] = [call[c] EXCEPT !.crossed = TRUE]
        BY <2>1
      <4>. QED BY <3>1, <4>1 DEF PremiumAsking
    <3>2. CASE call[c] \in PremiumReplied
      <4>1. call'[c] = [call[c] EXCEPT !.crossed = TRUE]
        BY <2>1
      <4>. QED BY <3>2, <4>1 DEF PremiumReplied
    <3>. QED BY <2>1, <3>1, <3>2 DEF PremiumType
  <2>2. PremiumType'
    <3>1. \A c \in Call :
             call'[c] \in {Premium!Idle} \cup PremiumAsking \cup PremiumReplied
      BY <2>1
    <3>. QED BY <3>1 DEF PremiumType
  <2>3. PremiumSeen'
    BY DEF PremiumType, PremiumSeen
  <2>4. PremiumCalls'
    <3>. SUFFICES ASSUME NEW c \in Call, call'[c].at # "idle"
                  PROVE  CallSound(call[c])'
      BY DEF PremiumCalls
    <3>1. call[c] # Premium!Idle
      BY DEF Premium!Idle
    <3>2. CallSound(call[c])
      BY <2>1, <3>1 DEF PremiumCalls, PremiumType, PremiumAsking, PremiumReplied
    <3>. QED BY <2>1, <3>1, <3>2 DEF CallSound, Said
  <2>. QED BY <2>2, <2>3, <2>4, PremiumSilent
<1>. QED BY <1>1, <1>2, <1>3

\* A call asks: what it holds, if anything, comes from the cache.
LEMMA PremiumAsks ==
    ASSUME PremiumIInv, NEW c \in Call, NEW held, NEW strict \in BOOLEAN,
           call' = Premium!Asks(c, held, strict),
           \/ held = None
           \/ entry # None /\ now - entry.at < StaleTTL /\ held = entry.value
    PROVE  /\ call' \in [Call -> {Premium!Idle} \cup PremiumAsking \cup PremiumReplied]
           /\ \A e \in Call : call'[e].at # "idle" => CallSound(call'[e])
<1>. USE DEF PremiumIInv
<1>1. held \in BOOLEAN \cup {None} /\ now \in Int
  BY DEF PremiumType
<1>2. PICK r \in PremiumAsking :
          /\ call' = [call EXCEPT ![c] = r]
          /\ r.began = now /\ r.held = held
  <2>. DEFINE r == [at |-> "asking", began |-> now, held |-> held,
                    strict |-> strict, crossed |-> FALSE]
  <2>1. r \in PremiumAsking /\ r.began = now /\ r.held = held
    BY <1>1 DEF PremiumAsking
  <2>2. call' = [call EXCEPT ![c] = r]
    BY DEF Premium!Asks
  <2>. QED BY <2>1, <2>2
<1>3. call' \in [Call -> {Premium!Idle} \cup PremiumAsking \cup PremiumReplied]
  BY <1>2 DEF PremiumType
<1>4. CallSound(r)
  <2>1. r.at = "asking"
    BY <1>2 DEF PremiumAsking
  <2>2. ASSUME NEW b \in BOOLEAN, held = b, b # None
        PROVE  seen[b] >= now - StaleTTL - MaxCall + 1 /\ (tainted \/ b \in since)
    <3>1. entry \in [value : BOOLEAN, at : Int] /\ now - entry.at < StaleTTL
          /\ entry.value = b
      BY <2>2 DEF PremiumType
    <3>. QED BY <2>2, <3>1, PremiumAssumption DEF PremiumType, PremiumSeen
  <2>. QED BY <1>1, <1>2, <2>1, <2>2, PremiumAssumption DEF CallSound, Said
<1>. QED BY <1>2, <1>3, <1>4 DEF PremiumCalls, PremiumType

\* A definite answer is sound if the value it rests on is.
LEMMA PremiumAnswers ==
    ASSUME NEW b \in BOOLEAN, answer'.verdict = Premium!Status(b),
           now' - seen'[b] < StaleTTL + 2 * MaxCall,
           answer'.crossed \/ tainted' \/ b \in since'
    PROVE  Premium!VerdictTrusted'
<1>1. CASE b = TRUE
  <2>1. Premium!Claim' = TRUE
    BY <1>1 DEF Premium!Status, Premium!Claim
  <2>. QED BY <1>1, <2>1 DEF Premium!VerdictTrusted, Premium!VerdictRecent, Premium!WebhookSeen
<1>2. CASE b = FALSE
  <2>1. Premium!Claim' = FALSE
    BY <1>2 DEF Premium!Status, Premium!Claim
  <2>. QED BY <1>2, <2>1 DEF Premium!VerdictTrusted, Premium!VerdictRecent, Premium!WebhookSeen
<1>. QED BY <1>1, <1>2

LEMMA PremiumUnsure ==
    ASSUME answer'.verdict = "pending" PROVE Premium!VerdictTrusted'
BY DEF Premium!VerdictTrusted, Premium!VerdictRecent, Premium!WebhookSeen,
       Premium!Definite

LEMMA PremiumVerifies ==
    ASSUME PremiumIInv, NEW c \in Call, Premium!Verify(c) \/ Premium!VerifyFresh(c)
    PROVE  PremiumIInv'
<1>. USE DEF PremiumIInv
<1>1. CASE Premium!VerifyFresh(c)
  <2>1. /\ call' \in [Call -> {Premium!Idle} \cup PremiumAsking \cup PremiumReplied]
        /\ \A e \in Call : call'[e].at # "idle" => CallSound(call'[e])
    BY <1>1, PremiumAsks DEF Premium!VerifyFresh
  <2>2. PremiumType' /\ PremiumSeen'
    BY <1>1, <2>1 DEF Premium!VerifyFresh, PremiumType, PremiumSeen
  <2>3. PremiumCalls'
    BY <1>1, <2>1 DEF Premium!VerifyFresh, PremiumCalls, CallSound, Said
  <2>. QED BY <1>1, <2>2, <2>3, PremiumSilent DEF Premium!VerifyFresh
<1>2. CASE Premium!Verify(c)
  <2>1. entry' = None \/ entry' = entry
    BY <1>2 DEF Premium!Verify, Premium!Held
  <2>2. CASE Premium!Fresh
    <3>1. entry \in [value : BOOLEAN, at : Int] /\ entry # None
          /\ now - entry.at < StaleTTL
      BY <2>2 DEF Premium!Fresh, Premium!Held, PremiumType
    <3>2. PremiumType' /\ PremiumSeen' /\ PremiumCalls'
      BY <1>2, <2>1, <2>2
      DEF Premium!Verify, PremiumType, PremiumSeen, PremiumCalls, CallSound, Said
    <3>3. answer'.verdict = Premium!Status(entry.value)
      BY <1>2, <2>2 DEF Premium!Verify
    <3>4. now' - seen'[entry.value] < StaleTTL + 2 * MaxCall
          /\ (tainted' \/ entry.value \in since')
      BY <1>2, <3>1, PremiumAssumption DEF Premium!Verify, PremiumType, PremiumSeen
    <3>5. PICK b \in BOOLEAN : b = entry.value
      BY <3>1
    <3>. QED BY <3>2, <3>3, <3>4, <3>5, PremiumAnswers
  <2>3. CASE ~Premium!Fresh
    <3>1. PICK held : /\ call' = Premium!Asks(c, held, FALSE)
                      /\ \/ held = None
                         \/ entry # None /\ now - entry.at < StaleTTL
                            /\ held = entry.value
      BY <1>2, <2>3 DEF Premium!Verify, Premium!Held
    <3>2. /\ call' \in [Call -> {Premium!Idle} \cup PremiumAsking \cup PremiumReplied]
          /\ \A e \in Call : call'[e].at # "idle" => CallSound(call'[e])
      BY <3>1, PremiumAsks
    <3>3. PremiumType' /\ PremiumSeen'
      BY <1>2, <2>1, <3>2 DEF Premium!Verify, PremiumType, PremiumSeen
    <3>4. PremiumCalls'
      BY <1>2, <3>2 DEF Premium!Verify, PremiumCalls, CallSound, Said
    <3>. QED BY <1>2, <2>3, <3>3, <3>4, PremiumSilent DEF Premium!Verify
  <2>. QED BY <2>2, <2>3
<1>. QED BY <1>1, <1>2

\* The provider answers with what holds at that moment.
LEMMA PremiumReplies ==
    ASSUME PremiumIInv, NEW c \in Call, NEW r \in Premium!Reply, Premium!Replies(c, r)
    PROVE  PremiumIInv'
<1>. USE DEF PremiumIInv
<1>1. call[c] \in PremiumAsking /\ CallSound(call[c]) /\ now \in Int
  BY DEF Premium!Replies, PremiumType, PremiumReplied, Premium!Idle, PremiumCalls
<1>2. PICK d \in PremiumReplied :
          /\ call' = [call EXCEPT ![c] = d]
          /\ d.reply = r /\ d.began = call[c].began /\ d.held = call[c].held
          /\ d.crossed = call[c].crossed
  <2>1. PICK began \in Int, held \in BOOLEAN \cup {None}, strict \in BOOLEAN,
             crossed \in BOOLEAN :
             /\ began = call[c].began /\ held = call[c].held
             /\ strict = call[c].strict /\ crossed = call[c].crossed
    BY <1>1 DEF PremiumAsking
  <2>. DEFINE d == [at |-> "replied", reply |-> r, began |-> began, held |-> held,
                    strict |-> strict, crossed |-> crossed]
  <2>2. d \in PremiumReplied /\ d.reply = r /\ d.began = began /\ d.held = held
        /\ d.crossed = crossed
    BY <2>1 DEF PremiumReplied
  <2>3. call' = [call EXCEPT ![c] = d]
    BY <2>1 DEF Premium!Replies
  <2>. QED BY <2>1, <2>2, <2>3
<1>3. PremiumType' /\ PremiumSeen'
  BY <1>2 DEF Premium!Replies, PremiumType, PremiumSeen
<1>4. CallSound(d)
  <2>1. ASSUME NEW b \in BOOLEAN, Said(d, b) PROVE b = premium
    BY <1>2, <2>1 DEF Premium!Replies, Said, PremiumType
  <2>. QED BY <1>1, <1>2, <2>1, PremiumAssumption
           DEF CallSound, PremiumSeen, PremiumType, PremiumAsking
<1>5. PremiumCalls'
  BY <1>2, <1>4 DEF Premium!Replies, PremiumCalls, PremiumType, CallSound, Said
<1>. QED BY <1>3, <1>5, PremiumSilent DEF Premium!Replies

\* A call that ends leaves the others as they were.
LEMMA PremiumSettles ==
    ASSUME PremiumIInv, NEW c \in Call, Premium!Settled(c),
           tainted' \in BOOLEAN, tainted => tainted'
    PROVE  /\ call' \in [Call -> {Premium!Idle} \cup PremiumAsking \cup PremiumReplied]
           /\ PremiumCalls'
<1>. USE DEF PremiumIInv, Premium!Settled
<1>1. call' \in [Call -> {Premium!Idle} \cup PremiumAsking \cup PremiumReplied]
  BY DEF PremiumType
<1>2. ASSUME NEW e \in Call, call'[e].at # "idle"
      PROVE  call'[e] = call[e] /\ CallSound(call[e])
  BY <1>2 DEF PremiumType, PremiumCalls, Premium!Idle
<1>. QED BY <1>1, <1>2 DEF PremiumCalls, CallSound, Said

\* A reply that determines was true when it was given, one request ago at most.
LEMMA PremiumDetermines ==
    ASSUME PremiumIInv, NEW c \in Call, Premium!Determines(c) PROVE PremiumIInv'
<1>. USE DEF PremiumIInv
<1>1. call[c] \in PremiumReplied /\ CallSound(call[c]) /\ now \in Int
  BY DEF Premium!Determines, PremiumType, PremiumAsking, Premium!Idle, PremiumCalls
<1>2. PICK b \in BOOLEAN :
          /\ Said(call[c], b) /\ b = Premium!Judged(call[c].reply)
          /\ \/ Premium!Stores(c, b)
             \/ Premium!Returns(c, "pending") /\ UNCHANGED <<entry, tainted>>
  <2>1. PICK b : /\ b = Premium!Judged(call[c].reply) /\ b # None
                 /\ \/ Premium!Stores(c, b)
                    \/ Premium!Returns(c, "pending") /\ UNCHANGED <<entry, tainted>>
    BY DEF Premium!Determines
  <2>2. b \in BOOLEAN /\ Said(call[c], b)
    BY <1>1, <2>1 DEF Premium!Judged, Said, PremiumReplied, Premium!Reply
  <2>. QED BY <2>1, <2>2
<1>3. Premium!Settled(c)
  BY DEF Premium!Determines
<1>4. seen[b] >= call[c].began /\ now - call[c].began <= MaxCall
      /\ call[c].began <= now /\ (call[c].crossed \/ b \in since)
  BY <1>1, <1>2 DEF CallSound
<1>5. CASE Premium!Stores(c, b)
  <2>1. /\ entry' = [value |-> b, at |-> now] /\ answer'.verdict = Premium!Status(b)
        /\ tainted' = (tainted \/ call[c].crossed)
        /\ answer'.crossed = call[c].crossed
    BY <1>5 DEF Premium!Stores, Premium!Returns
  <2>2. entry' \in [value : BOOLEAN, at : Int] /\ entry'.value = b /\ entry'.at = now
    BY <1>1, <2>1
  <2>3. tainted' \in BOOLEAN /\ (tainted => tainted')
    BY <2>1
  <2>4. PremiumType' /\ PremiumCalls'
    BY <1>3, <2>2, <2>3, PremiumSettles DEF PremiumType, Premium!Settled
  <2>5. PremiumSeen'
    BY <1>1, <1>3, <1>4, <2>1, <2>2, PremiumAssumption
    DEF PremiumType, PremiumSeen, Premium!Settled, PremiumReplied
  <2>6. now' - seen'[b] < StaleTTL + 2 * MaxCall
    BY <1>1, <1>3, <1>4, PremiumAssumption DEF PremiumType, Premium!Settled, PremiumReplied
  <2>7. answer'.crossed \/ tainted' \/ b \in since'
    BY <1>3, <1>4, <2>1 DEF Premium!Settled
  <2>. QED BY <2>1, <2>4, <2>5, <2>6, <2>7, PremiumAnswers
<1>6. CASE Premium!Returns(c, "pending") /\ UNCHANGED <<entry, tainted>>
  <2>1. PremiumType' /\ PremiumSeen' /\ PremiumCalls'
    BY <1>3, <1>6, PremiumSettles DEF PremiumType, PremiumSeen, Premium!Settled
  <2>. QED BY <1>6, <2>1, PremiumUnsure DEF Premium!Returns
<1>. QED BY <1>2, <1>5, <1>6

\* A call that learned nothing serves what it held; the cache keeps its age.
LEMMA PremiumLearnsNothing ==
    ASSUME PremiumIInv, NEW c \in Call, Premium!LearnsNothing(c) PROVE PremiumIInv'
<1>. USE DEF PremiumIInv
<1>1. call[c] \in PremiumReplied /\ CallSound(call[c]) /\ now \in Int
  BY DEF Premium!LearnsNothing, PremiumType, PremiumAsking, Premium!Idle, PremiumCalls
<1>2. Premium!Settled(c) /\ entry' = entry /\ tainted' = tainted
  BY DEF Premium!LearnsNothing, Premium!Fallback
<1>3. PremiumType' /\ PremiumSeen' /\ PremiumCalls'
  BY <1>2, PremiumSettles DEF PremiumType, PremiumSeen, Premium!Settled
<1>4. CASE Premium!Returns(c, "pending")
  BY <1>3, <1>4, PremiumUnsure DEF Premium!Returns
<1>5. CASE call[c].held # None /\ Premium!Returns(c, Premium!Status(call[c].held))
  <2>1. PICK b \in BOOLEAN : b = call[c].held /\ b # None
    BY <1>1, <1>5 DEF PremiumReplied
  <2>2. /\ seen[b] >= call[c].began - StaleTTL - MaxCall + 1
        /\ now - call[c].began <= MaxCall
        /\ call[c].crossed \/ tainted \/ b \in since
    BY <1>1, <2>1 DEF CallSound
  <2>3. now' - seen'[b] < StaleTTL + 2 * MaxCall
    BY <1>1, <1>2, <2>2, PremiumAssumption
    DEF PremiumType, Premium!Settled, PremiumReplied
  <2>4. answer'.verdict = Premium!Status(b) /\ answer'.crossed = call[c].crossed
    BY <1>5, <2>1 DEF Premium!Returns
  <2>5. answer'.crossed \/ tainted' \/ b \in since'
    BY <1>2, <2>2, <2>4 DEF Premium!Settled
  <2>. QED BY <1>3, <2>3, <2>4, <2>5, PremiumAnswers
<1>. QED BY <1>4, <1>5 DEF Premium!LearnsNothing

LEMMA PremiumStep ==
    PremiumIInv /\ (Premium!Next \/ UNCHANGED premiumVars) => PremiumIInv'
<1>. SUFFICES ASSUME PremiumIInv, Premium!Next \/ UNCHANGED premiumVars
              PROVE  PremiumIInv'
  OBVIOUS
<1>1. CASE UNCHANGED premiumVars
  BY <1>1
  DEF premiumVars, PremiumIInv, PremiumType, PremiumSeen, PremiumCalls, CallSound, Said,
      Premium!VerdictTrusted, Premium!VerdictRecent, Premium!WebhookSeen,
      Premium!Definite, Premium!Claim
<1>. QED
  BY <1>1, PremiumTicks, PremiumChanges, PremiumForgets, PremiumVerifies,
     PremiumReplies, PremiumDetermines, PremiumLearnsNothing
  DEF Premium!Next

PremiumInv == service = "premium" => PremiumIInv

LEMMA PremiumInvariant == Spec => []PremiumInv
<1>1. Init => PremiumInv
  BY PremiumInitHolds DEF Init, PremiumInv
<1>2. PremiumInv /\ [Next]_allVars => PremiumInv'
  <2>1. [Next]_allVars => service' = service
    BY DEF Next, allVars
  <2>2. service = "premium" /\ [Next]_allVars
           => Premium!Next \/ UNCHANGED premiumVars
    BY DEF Next, allVars
  <2>. QED BY <2>1, <2>2, PremiumStep DEF PremiumInv
<1>. QED BY <1>1, <1>2, PTL DEF Spec, allVars

-----------------------------------------------------------------------------
(* The /ws broadcast                                                         *)

LegacySock ==
    {Legacy!Gone, Legacy!Receiving, [at |-> "opened"]}
       \cup [at : {"sending"}, hit : BOOLEAN, payload : Nat]
       \cup [at : {"filling"}, payload : Nat]

LegacyJob ==
    {Legacy!Resting} \cup [at : {"read"}, seen : Nat]
       \cup [at : {"built", "stored"}, payload : Nat]
       \cup [at : {"sending"}, payload : Nat, to : SUBSET Conn, failed : SUBSET Conn]

LegacyType ==
    /\ version \in Nat /\ cache \in Nat /\ filler \in BOOLEAN
    /\ job \in LegacyJob
    /\ sock \in [Conn -> LegacySock] /\ last \in [Conn -> Nat]

\* No payload comes from the future, and no job has built one older than what an
\* earlier job has stored.
LegacyOrder ==
    /\ cache <= version
    /\ \A c \in Conn : sock[c].at = "filling" => sock[c].payload <= version
    /\ job.at \in {"built", "stored", "sending"} =>
          job.payload <= version /\ (filler \/ cache <= job.payload)

\* The job that runs has yet to send its payload to c, or will drop it.
Owed(c) == \/ job.at = "stored"
           \/ job.at = "sending" /\ c \in job.to \cup job.failed

\* A listed socket has, or is being sent, or is owed what the cache holds; before its
\* initial payload it has what a broadcast sent it.
LegacyServed ==
    filler \/
    \A c \in (listed \ unserved) \cap Conn :
       /\ sock[c].at \in {"receiving", "filling"} => Owed(c) \/ last[c] >= cache
       /\ sock[c].at = "sending" =>
             Owed(c) \/ last[c] >= cache \/ sock[c].payload >= cache
       /\ sock[c].at \in {"opened", "sending"} /\ last[c] # 0
             => Owed(c) \/ last[c] >= cache

LegacyIInv == LegacyType /\ LegacyOrder /\ LegacyServed /\ listed \subseteq Conn

LEMMA LegacyInitHolds == Legacy!Init => LegacyIInv
<1>. SUFFICES ASSUME Legacy!Init PROVE LegacyIInv
  OBVIOUS
<1>1. LegacyType
  <2>1. sock \in [Conn -> {Legacy!Gone}] /\ last \in [Conn -> Nat]
    BY DEF Legacy!Init
  <2>2. sock \in [Conn -> LegacySock]
    BY <2>1 DEF LegacySock
  <2>3. job \in LegacyJob
    BY DEF Legacy!Init, LegacyJob
  <2>4. version \in Nat /\ cache \in Nat
    BY DEF Legacy!Init
  <2>5. filler \in BOOLEAN
    BY DEF Legacy!Init
  <2>. QED BY <2>1, <2>2, <2>3, <2>4, <2>5 DEF LegacyType
<1>. QED BY <1>1 DEF Legacy!Init, LegacyIInv, LegacyOrder, LegacyServed, Legacy!Resting,
                     Legacy!Gone

LEMMA LegacyJobSteps ==
    ASSUME LegacyIInv,
           \/ Legacy!JobReads \/ Legacy!JobBuilds \/ Legacy!JobStores
           \/ Legacy!JobSends \/ Legacy!JobEnds
    PROVE  LegacyIInv'
<1>. USE DEF LegacyIInv, LegacyType, LegacyOrder, LegacyServed, LegacyJob, Owed,
             Legacy!Resting
<1>1. CASE Legacy!JobReads
  <2>1. PICK seen_ \in Nat : job' = [at |-> "read", seen |-> seen_]
    BY <1>1 DEF Legacy!JobReads, Legacy!Read
  <2>. QED BY <1>1, <2>1 DEF Legacy!JobReads
<1>2. CASE Legacy!JobBuilds
  <2>1. \/ job' = Legacy!Resting
        \/ /\ job' \in [at : {"built"}, payload : Nat] /\ job'.payload = version
    BY <1>2 DEF Legacy!JobBuilds
  <2>. QED BY <1>2, <2>1 DEF Legacy!JobBuilds
<1>3. CASE Legacy!JobStores
  <2>1. /\ job \in [at : {"built", "stored"}, payload : Nat]
        /\ job' \in [at : {"stored"}, payload : Nat] /\ job'.payload = job.payload
    BY <1>3 DEF Legacy!JobStores
  <2>2. LegacyServed'
    BY <1>3, <2>1 DEF Legacy!JobStores
  <2>3. \/ cache' = job.payload /\ filler' = FALSE
        \/ cache' = cache /\ filler' = filler
    BY <1>3 DEF Legacy!JobStores, Legacy!Stores
  <2>4. job.payload <= version /\ (filler \/ cache <= job.payload)
    BY <2>1
  <2>5. LegacyType'
    <3>1. cache' \in Nat /\ job' \in LegacyJob
      BY <2>1, <2>3
    <3>2. filler' \in BOOLEAN
      BY <2>3
    <3>. QED BY <1>3, <3>1, <3>2 DEF Legacy!JobStores
  <2>6. LegacyOrder'
    <3>1. cache' <= version
      BY <2>1, <2>3, <2>4
    <3>2. filler' \/ cache' <= job.payload
      BY <2>1, <2>3, <2>4
    <3>. QED BY <1>3, <2>1, <2>4, <3>1, <3>2 DEF Legacy!JobStores
  <2>. QED BY <1>3, <2>2, <2>5, <2>6 DEF Legacy!JobStores
<1>4. CASE Legacy!JobSends
  <2>1. /\ job \in [at : {"built", "stored"}, payload : Nat]
        /\ job' \in [at : {"sending"}, payload : Nat, to : SUBSET Conn,
                     failed : SUBSET Conn]
        /\ job'.payload = job.payload /\ job'.to = listed
    BY <1>4 DEF Legacy!JobSends
  <2>. QED BY <1>4, <2>1 DEF Legacy!JobSends
<1>5. CASE Legacy!JobEnds
  BY <1>5 DEF Legacy!JobEnds, Legacy!Remaining
<1>. QED BY <1>1, <1>2, <1>3, <1>4, <1>5

LEMMA LegacySending ==
    ASSUME LegacyIInv, NEW c \in Conn,
           Legacy!SendLands(c) \/ Legacy!SendFails(c)
    PROVE  LegacyIInv'
<1>. USE DEF LegacyIInv, LegacyType, LegacyOrder, LegacyServed, LegacyJob, Owed,
             Legacy!Resting
<1>1. CASE Legacy!SendLands(c)
  <2>1. /\ job \in [at : {"sending"}, payload : Nat, to : SUBSET Conn,
                    failed : SUBSET Conn]
        /\ job' = [job EXCEPT !.to = job.to \ {c}]
    BY <1>1 DEF Legacy!SendLands
  <2>2. /\ job' \in [at : {"sending"}, payload : Nat, to : SUBSET Conn,
                     failed : SUBSET Conn]
        /\ job'.payload = job.payload /\ job'.to = job.to \ {c}
        /\ job'.failed = job.failed
    BY <2>1
  <2>. QED BY <1>1, <2>1, <2>2 DEF Legacy!SendLands
<1>2. CASE Legacy!SendFails(c)
  <2>1. /\ job \in [at : {"sending"}, payload : Nat, to : SUBSET Conn,
                    failed : SUBSET Conn]
        /\ job' = [[job EXCEPT !.to = job.to \ {c}] EXCEPT !.failed = job.failed \cup {c}]
    BY <1>2 DEF Legacy!SendFails
  <2>2. /\ job' \in [at : {"sending"}, payload : Nat, to : SUBSET Conn,
                     failed : SUBSET Conn]
        /\ job'.payload = job.payload /\ job'.to = job.to \ {c}
        /\ job'.failed = job.failed \cup {c}
    BY <2>1
  <2>. QED BY <1>2, <2>1, <2>2 DEF Legacy!SendFails
<1>. QED BY <1>1, <1>2

LEMMA LegacyConnects ==
    ASSUME LegacyIInv, NEW c \in Conn, Legacy!Connect(c) \/ Legacy!Leaves(c)
    PROVE  LegacyIInv'
<1>1. sock \in [Conn -> LegacySock]
  BY DEF LegacyIInv, LegacyType
<1>2. PICK s \in {Legacy!Gone, [at |-> "opened"]} :
          /\ sock' = [sock EXCEPT ![c] = s]
          /\ s.at = "opened" => last'[c] = 0
  <2>1. CASE Legacy!Connect(c)
    BY <2>1 DEF Legacy!Connect, LegacyIInv, LegacyType
  <2>2. CASE Legacy!Leaves(c)
    BY <2>2 DEF Legacy!Leaves, Legacy!Gone
  <2>. QED BY <2>1, <2>2
<1>3. s.at \notin {"receiving", "filling", "sending"} /\ s \in LegacySock
  BY <1>2 DEF Legacy!Gone, LegacySock
<1>4. /\ sock' \in [Conn -> LegacySock] /\ sock'[c] = s
      /\ \A e \in Conn : e # c => sock'[e] = sock[e]
  BY <1>1, <1>2, <1>3
<1>5. /\ last' \in [Conn -> Nat] /\ \A e \in Conn : e # c => last'[e] = last[e]
      /\ listed' \subseteq Conn
      /\ \A e \in Conn : e # c /\ e \in listed' \ unserved' => e \in listed \ unserved
      /\ UNCHANGED <<version, cache, filler, job>>
  BY DEF LegacyIInv, LegacyType, Legacy!Connect, Legacy!Leaves
<1>6. LegacyType'
  BY <1>4, <1>5 DEF LegacyIInv, LegacyType
<1>7. LegacyOrder'
  BY <1>3, <1>4, <1>5 DEF LegacyIInv, LegacyOrder
<1>8. LegacyServed'
  BY <1>2, <1>3, <1>4, <1>5 DEF LegacyIInv, LegacyServed, Owed
<1>. QED BY <1>5, <1>6, <1>7, <1>8 DEF LegacyIInv

\* The initial payload is the cached one, or a newer one.
LEMMA LegacyInitialReads ==
    ASSUME LegacyIInv, NEW c \in Conn, Legacy!InitialReads(c)
    PROVE  LegacyIInv'
<1>1. PICK v \in {0, cache} :
          sock' = [sock EXCEPT ![c] = [at |-> "sending", hit |-> v # 0,
                                       payload |-> IF v # 0 THEN v ELSE version]]
  BY DEF Legacy!InitialReads, Legacy!Read
<1>2. PICK hit \in BOOLEAN, q \in Nat :
          /\ sock' = [sock EXCEPT ![c] = [at |-> "sending", hit |-> hit, payload |-> q]]
          /\ q >= cache
  <2>1. /\ (IF v # 0 THEN v ELSE version) \in Nat
        /\ (IF v # 0 THEN v ELSE version) >= cache
    BY <1>1 DEF LegacyIInv, LegacyType, LegacyOrder
  <2>2. (v # 0) \in BOOLEAN
    OBVIOUS
  <2>. QED BY <1>1, <2>1, <2>2
<1>3. PICK s \in [at : {"sending"}, hit : BOOLEAN, payload : Nat] :
          /\ sock' = [sock EXCEPT ![c] = s]
          /\ s.payload >= cache
  <2>. DEFINE s == [at |-> "sending", hit |-> hit, payload |-> q]
  <2>1. s.payload = q
    OBVIOUS
  <2>2. s \in [at : {"sending"}, hit : BOOLEAN, payload : Nat]
    OBVIOUS
  <2>. QED BY <1>2, <2>1, <2>2
<1>4. /\ sock' \in [Conn -> LegacySock] /\ sock'[c] = s /\ s.at = "sending"
      /\ \A e \in Conn : e # c => sock'[e] = sock[e]
  BY <1>3 DEF LegacyIInv, LegacyType, LegacySock
<1>5. UNCHANGED <<version, cache, filler, job, listed, last, unserved>>
      /\ sock[c].at = "opened"
  BY DEF Legacy!InitialReads, Legacy!At
<1>6. LegacyType' /\ LegacyOrder'
  BY <1>4, <1>5 DEF LegacyIInv, LegacyType, LegacyOrder
<1>7. LegacyServed'
  BY <1>3, <1>4, <1>5 DEF LegacyIInv, LegacyServed, Owed
<1>. QED BY <1>5, <1>6, <1>7 DEF LegacyIInv

LEMMA LegacyInitialSent ==
    ASSUME LegacyIInv, NEW c \in Conn, Legacy!InitialSent(c)
    PROVE  LegacyIInv'
<1>1. /\ sock[c] \in [at : {"sending"}, hit : BOOLEAN, payload : Nat]
      /\ sock[c].at = "sending"
  BY DEF Legacy!InitialSent, Legacy!At, LegacyIInv, LegacyType, LegacySock, Legacy!Gone,
         Legacy!Receiving
<1>2. PICK s \in LegacySock :
          /\ sock' = [sock EXCEPT ![c] = s]
          /\ s.at \in {"receiving", "filling"}
          /\ s.at = "filling" => s.payload = version
  <2>1. Legacy!Receiving \in LegacySock /\ Legacy!Receiving.at = "receiving"
    BY DEF LegacySock, Legacy!Receiving
  <2>2. /\ [at |-> "filling", payload |-> version] \in LegacySock
    BY DEF LegacySock, LegacyIInv, LegacyType
  <2>. QED BY <2>1, <2>2 DEF Legacy!InitialSent
<1>3. /\ sock' \in [Conn -> LegacySock] /\ sock'[c] = s
      /\ \A e \in Conn : e # c => sock'[e] = sock[e]
  BY <1>2 DEF LegacyIInv, LegacyType
<1>4. /\ last' \in [Conn -> Nat] /\ last'[c] = sock[c].payload
      /\ \A e \in Conn : e # c => last'[e] = last[e]
      /\ unserved \subseteq unserved'
      /\ c \notin unserved' => last[c] <= sock[c].payload
      /\ UNCHANGED <<version, cache, filler, job, listed>>
  BY <1>1 DEF Legacy!InitialSent, LegacyIInv, LegacyType
<1>5. LegacyType'
  BY <1>3, <1>4 DEF LegacyIInv, LegacyType
<1>6. LegacyOrder'
  BY <1>2, <1>3, <1>4 DEF LegacyIInv, LegacyType, LegacyOrder
<1>7. LegacyServed'
  <2>. SUFFICES ASSUME ~filler, NEW e \in Conn, e \in listed \ unserved'
                PROVE  /\ sock'[e].at \in {"receiving", "filling"}
                             => Owed(e) \/ last'[e] >= cache
                       /\ sock'[e].at = "sending"
                             => Owed(e) \/ last'[e] >= cache \/ sock'[e].payload >= cache
                       /\ sock'[e].at \in {"opened", "sending"} /\ last'[e] # 0
                             => Owed(e) \/ last'[e] >= cache
    BY <1>4 DEF LegacyServed, Owed
  <2>1. CASE e # c
    BY <1>3, <1>4, <2>1 DEF LegacyIInv, LegacyServed
  <2>2. CASE e = c
    <3>1. Owed(c) \/ last[c] >= cache \/ sock[c].payload >= cache
      BY <1>1, <1>4, <2>2 DEF LegacyIInv, LegacyServed
    <3>2. Owed(c) \/ sock[c].payload >= cache
      BY <1>1, <1>4, <2>2, <3>1 DEF LegacyIInv, LegacyType
    <3>. QED BY <1>2, <1>3, <1>4, <2>2, <3>2
  <2>. QED BY <2>1, <2>2
<1>. QED BY <1>4, <1>5, <1>6, <1>7 DEF LegacyIInv

\* A socket that receives nothing has what a broadcast sent it, or is set apart.
LEMMA LegacyInitialFails ==
    ASSUME LegacyIInv, NEW c \in Conn, Legacy!InitialFails(c)
    PROVE  LegacyIInv'
<1>1. /\ sock' \in [Conn -> LegacySock] /\ sock'[c].at = "receiving"
      /\ \A e \in Conn : e # c => sock'[e] = sock[e]
  BY DEF Legacy!InitialFails, LegacyIInv, LegacyType, LegacySock, Legacy!Receiving
<1>2. /\ UNCHANGED <<version, cache, filler, job, listed, last>>
      /\ unserved \subseteq unserved'
      /\ c \notin unserved' => last[c] # 0
      /\ sock[c].at \in {"opened", "sending"}
  BY DEF Legacy!InitialFails
<1>3. LegacyType' /\ LegacyOrder'
  BY <1>1, <1>2 DEF LegacyIInv, LegacyType, LegacyOrder
<1>4. LegacyServed'
  BY <1>1, <1>2 DEF LegacyIInv, LegacyServed, Owed
<1>. QED BY <1>2, <1>3, <1>4 DEF LegacyIInv

LEMMA LegacyFills ==
    ASSUME LegacyIInv, NEW c \in Conn, Legacy!Fills(c)
    PROVE  LegacyIInv'
<1>1. sock[c] \in [at : {"filling"}, payload : Nat] /\ sock[c].payload <= version
      /\ sock[c].at = "filling"
  BY DEF Legacy!Fills, Legacy!At, LegacyIInv, LegacyType, LegacyOrder, LegacySock,
         Legacy!Gone, Legacy!Receiving
<1>2. /\ sock' \in [Conn -> LegacySock] /\ sock'[c].at = "receiving"
      /\ \A e \in Conn : e # c => sock'[e] = sock[e]
  BY DEF Legacy!Fills, LegacyIInv, LegacyType, LegacySock, Legacy!Receiving
<1>3. UNCHANGED <<version, job, listed, last, unserved>>
  BY DEF Legacy!Fills
<1>4. CASE cache' = sock[c].payload /\ filler' = TRUE
  <2>1. LegacyType'
    BY <1>1, <1>2, <1>3, <1>4 DEF LegacyIInv, LegacyType
  <2>2. LegacyOrder'
    BY <1>1, <1>2, <1>3, <1>4 DEF LegacyIInv, LegacyOrder
  <2>. QED BY <1>3, <1>4, <2>1, <2>2 DEF LegacyIInv, LegacyServed
<1>5. CASE UNCHANGED <<cache, filler>>
  <2>1. LegacyType' /\ LegacyOrder'
    BY <1>1, <1>2, <1>3, <1>5 DEF LegacyIInv, LegacyType, LegacyOrder
  <2>2. LegacyServed'
    BY <1>1, <1>2, <1>3, <1>5 DEF LegacyIInv, LegacyServed, Owed
  <2>. QED BY <1>3, <2>1, <2>2 DEF LegacyIInv
<1>. QED BY <1>4, <1>5 DEF Legacy!Fills, Legacy!Stores

LEMMA LegacyStep ==
    LegacyIInv /\ (Legacy!Next \/ UNCHANGED legacyVars) => LegacyIInv'
<1>. SUFFICES ASSUME LegacyIInv, Legacy!Next \/ UNCHANGED legacyVars
              PROVE  LegacyIInv'
  OBVIOUS
<1>1. CASE Legacy!RateChanges
  <2>1. LegacyType' /\ LegacyServed'
    BY <1>1 DEF Legacy!RateChanges, LegacyIInv, LegacyType, LegacyServed, Owed
  <2>2. \A c \in Conn : sock[c].at = "filling" => sock[c].payload \in Nat
    BY DEF LegacyIInv, LegacyType, LegacySock, Legacy!Gone, Legacy!Receiving
  <2>3. job.at \in {"built", "stored", "sending"} => job.payload \in Nat
    BY DEF LegacyIInv, LegacyType, LegacyJob, Legacy!Resting
  <2>4. LegacyOrder'
    BY <1>1, <2>2, <2>3 DEF Legacy!RateChanges, LegacyIInv, LegacyType, LegacyOrder
  <2>. QED BY <1>1, <2>1, <2>4 DEF Legacy!RateChanges, LegacyIInv
<1>2. CASE Legacy!Evict
  <2>1. job.at \in {"built", "stored", "sending"} => job.payload \in Nat
    BY DEF LegacyIInv, LegacyType, LegacyJob, Legacy!Resting
  <2>2. LegacyType' /\ LegacyOrder'
    BY <1>2, <2>1 DEF Legacy!Evict, LegacyIInv, LegacyType, LegacyOrder
  <2>3. LegacyServed'
    BY <1>2 DEF Legacy!Evict, LegacyIInv, LegacyType, LegacyServed, Owed
  <2>. QED BY <1>2, <2>2, <2>3 DEF Legacy!Evict, LegacyIInv
<1>3. CASE UNCHANGED legacyVars
  BY <1>3 DEF legacyVars, LegacyIInv, LegacyType, LegacyOrder, LegacyServed, Owed
<1>. QED
  BY <1>1, <1>2, <1>3, LegacyJobSteps, LegacySending, LegacyConnects,
     LegacyInitialReads, LegacyInitialSent, LegacyInitialFails, LegacyFills
  DEF Legacy!Next

LegacyInv == service = "legacy" => LegacyIInv

LEMMA LegacyInvariant == Spec => []LegacyInv
<1>1. Init => LegacyInv
  BY LegacyInitHolds DEF Init, LegacyInv
<1>2. LegacyInv /\ [Next]_allVars => LegacyInv'
  <2>1. [Next]_allVars => service' = service
    BY DEF Next, allVars
  <2>2. service = "legacy" /\ [Next]_allVars => Legacy!Next \/ UNCHANGED legacyVars
    BY DEF Next, allVars
  <2>. QED BY <2>1, <2>2, LegacyStep DEF LegacyInv
<1>. QED BY <1>1, <1>2, PTL DEF Spec, allVars

-----------------------------------------------------------------------------
(* The alert                                                                 *)

AlertRow == [enabled : BOOLEAN, triggered : BOOLEAN, threshold : Level,
             repeat : BOOLEAN, recent : BOOLEAN]
AlertThread == [call : Task, at : {"sending", "persisting"}, epoch : 1..MaxEpoch]

AlertType ==
    /\ row \in AlertRow /\ epoch \in 1..MaxEpoch
    /\ pushed \in [1..MaxEpoch -> Nat] /\ unmarked \in [1..MaxEpoch -> Nat]
    /\ threads \subseteq AlertThread /\ IsFiniteSet(threads)

\* The in-flight guard: one task is past its conditions.
AlertTasks ==
    /\ DOMAIN task = Task
    /\ \A s, t \in Task :
          task[s].at \in {"refetching", "sending", "persisting"}
             /\ task[t].at \in {"refetching", "sending", "persisting"} => s = t
    /\ \A t \in Task : task[t].at \in {"sending", "persisting"} => task[t].epoch \in 1..epoch
    /\ \A c \in threads : c.epoch <= epoch

\* The pushes of an epoch, with those that the threads left behind may still deliver.
Due(e) == pushed[e] + Cardinality({c \in threads : c.at = "sending" /\ c.epoch = e})

\* Every push but one of an epoch has lost its mark; every one has while another is
\* on its way.
AlertBounded ==
    \A e \in 1..MaxEpoch :
       /\ Due(e) <= 1 + unmarked[e]
       /\ e > epoch => Due(e) = 0
       /\ \A t \in Task : task[t].at = "sending" /\ task[t].epoch = e
                             => Due(e) <= unmarked[e]

\* A row that allows delivery has no push of its epoch, but for those that lost
\* their mark and the one whose mark is under way.
AlertMarks ==
    \/ ~Alerts!DeliveryAllowed
    \/ \E t \in Task : task[t].at = "persisting" /\ task[t].epoch = epoch
    \/ Due(epoch) <= unmarked[epoch]

AlertIInv == AlertType /\ AlertTasks /\ AlertBounded /\ AlertMarks

LEMMA AlertInitHolds == Alerts!Init => AlertIInv
<1>. SUFFICES ASSUME Alerts!Init PROVE AlertIInv
  OBVIOUS
<1>1. IsFiniteSet(threads) /\ threads = {}
  BY FS_EmptySet DEF Alerts!Init
<1>2. AlertType
  <2>1. row \in AlertRow
    BY DEF Alerts!Init, AlertRow
  <2>. QED BY <1>1, <2>1, AlertsAssumption DEF Alerts!Init, Alerts!Epoch, AlertType
<1>3. \A e \in 1..MaxEpoch : Due(e) = 0
  <2>. SUFFICES ASSUME NEW e \in 1..MaxEpoch PROVE Due(e) = 0
    OBVIOUS
  <2>1. {c \in threads : c.at = "sending" /\ c.epoch = e} = {}
    BY <1>1
  <2>. QED BY <2>1, FS_EmptySet DEF Alerts!Init, Alerts!Epoch, Due
<1>. QED
  BY <1>1, <1>2, <1>3, AlertsAssumption
  DEF Alerts!Init, Alerts!Epoch, Alerts!Idle, AlertIInv, AlertType, AlertTasks,
      AlertBounded, AlertMarks

LEMMA DueType ==
    ASSUME AlertType, NEW e \in 1..MaxEpoch
    PROVE  /\ IsFiniteSet({c \in threads : c.at = "sending" /\ c.epoch = e})
           /\ Cardinality({c \in threads : c.at = "sending" /\ c.epoch = e}) \in Nat
           /\ Due(e) \in Nat /\ pushed[e] \in Nat /\ unmarked[e] \in Nat
           /\ pushed[e] <= Due(e)
<1>1. IsFiniteSet({c \in threads : c.at = "sending" /\ c.epoch = e})
  BY FS_Subset DEF AlertType
<1>2. Cardinality({c \in threads : c.at = "sending" /\ c.epoch = e}) \in Nat
  BY <1>1, FS_CardinalityType
<1>. QED BY <1>1, <1>2 DEF AlertType, Due

\* Steps before the settings are known, and those that only drop a task.
LEMMA AlertQuietly ==
    ASSUME AlertIInv, UNCHANGED <<row, threads, epoch, pushed, unmarked>>,
           DOMAIN task' = Task,
           \A s, t \in Task :
              task'[s].at \in {"refetching", "sending", "persisting"}
                 /\ task'[t].at \in {"refetching", "sending", "persisting"} => s = t,
           \A t \in Task : task'[t].at \in {"sending", "persisting"}
                              => task'[t] = task[t],
           \A t \in Task : task[t].at = "persisting" => task'[t] = task[t]
    PROVE  AlertIInv'
<1>1. \A e \in 1..MaxEpoch : Due(e)' = Due(e)
  BY DEF Due
<1>2. epoch \in 1..MaxEpoch
  BY DEF AlertIInv, AlertType
<1>3. AlertType' /\ AlertTasks'
  BY DEF AlertIInv, AlertType, AlertTasks
<1>4. AlertBounded'
  BY <1>1 DEF AlertIInv, AlertBounded
<1>5. AlertMarks'
  BY <1>1, <1>2 DEF AlertIInv, AlertMarks, Alerts!DeliveryAllowed
<1>. QED BY <1>3, <1>4, <1>5 DEF AlertIInv

LEMMA AlertEvaluates ==
    ASSUME AlertIInv, NEW t \in Task, NEW b, NEW rate,
           task' = [task EXCEPT ![t] = Alerts!Evaluated(b, rate)],
           task[t].at \notin {"refetching", "sending", "persisting"},
           UNCHANGED <<row, threads, epoch, pushed, unmarked>>
    PROVE  AlertIInv'
<1>1. DOMAIN task = Task
  BY DEF AlertIInv, AlertTasks
<1>2. \/ task'[t].at = "idle"
      \/ /\ task'[t].at = "refetching"
         /\ \A s \in Task : task[s].at \notin {"refetching", "sending", "persisting"}
  BY <1>1 DEF Alerts!Evaluated, Alerts!InFlight, Alerts!Idle
<1>3. \A s \in Task : s # t => task'[s] = task[s]
  BY <1>1
<1>4. DOMAIN task' = Task
  BY <1>1
<1>5. ASSUME NEW s \in Task, NEW u \in Task,
             task'[s].at \in {"refetching", "sending", "persisting"},
             task'[u].at \in {"refetching", "sending", "persisting"}
      PROVE  s = u
  BY <1>2, <1>3, <1>5 DEF AlertIInv, AlertTasks
<1>. QED BY <1>2, <1>3, <1>4, <1>5, AlertQuietly

LEMMA AlertLoads ==
    ASSUME AlertIInv,
           \/ \E t \in Task, rate \in Rate : Alerts!Observe(t, rate)
           \/ \E t \in Task : Alerts!Resume(t)
           \/ Alerts!LoaderReads \/ Alerts!LoaderPuts \/ Alerts!Expires
           \/ Alerts!CloseBegins \/ Alerts!Drained
    PROVE  AlertIInv'
<1>0. DOMAIN task = Task
  BY DEF AlertIInv, AlertTasks
<1>1. ASSUME NEW t \in Task, NEW rate \in Rate, Alerts!Observe(t, rate)
      PROVE  AlertIInv'
  <2>1. task[t].at = "idle"
    BY <1>1 DEF Alerts!Observe, Alerts!Idle
  <2>2. CASE cached # None
    BY <1>1, <2>1, <2>2, AlertEvaluates DEF Alerts!Observe
  <2>3. CASE cached = None
    <3>1. /\ task'[t].at = "loading" /\ \A s \in Task : s # t => task'[s] = task[s]
          /\ DOMAIN task' = Task
          /\ UNCHANGED <<row, threads, epoch, pushed, unmarked>>
      BY <1>0, <1>1, <2>3 DEF Alerts!Observe
    <3>2. ASSUME NEW s \in Task, NEW u \in Task,
                 task'[s].at \in {"refetching", "sending", "persisting"},
                 task'[u].at \in {"refetching", "sending", "persisting"}
          PROVE  s = u
      BY <3>1, <3>2 DEF AlertIInv, AlertTasks
    <3>. QED BY <2>1, <3>1, <3>2, AlertQuietly
  <2>. QED BY <2>2, <2>3
<1>2. ASSUME NEW t \in Task, Alerts!Resume(t) PROVE AlertIInv'
  BY <1>2, AlertEvaluates DEF Alerts!Resume
<1>3. CASE Alerts!LoaderPuts
  <2>1. /\ DOMAIN task' = Task /\ UNCHANGED <<row, threads, epoch, pushed, unmarked>>
        /\ \A t \in Task : \/ task'[t] = task[t]
                           \/ task[t].at = "loading" /\ task'[t].at = "loaded"
    BY <1>3 DEF Alerts!LoaderPuts
  <2>2. ASSUME NEW s \in Task, NEW u \in Task,
               task'[s].at \in {"refetching", "sending", "persisting"},
               task'[u].at \in {"refetching", "sending", "persisting"}
        PROVE  s = u
    BY <2>1, <2>2 DEF AlertIInv, AlertTasks
  <2>. QED BY <2>1, <2>2, AlertQuietly
<1>4. CASE Alerts!LoaderReads \/ Alerts!Expires \/ Alerts!CloseBegins \/ Alerts!Drained
  <2>1. UNCHANGED <<row, threads, epoch, pushed, unmarked, task>>
    BY <1>4 DEF Alerts!LoaderReads, Alerts!Expires, Alerts!CloseBegins, Alerts!Drained
  <2>. QED BY <1>0, <2>1, AlertQuietly DEF AlertIInv, AlertTasks
<1>. QED BY <1>1, <1>2, <1>3, <1>4

\* The second look at the row: a push begins only when all earlier ones of the epoch
\* have lost their mark.
LEMMA AlertRefetches ==
    ASSUME AlertIInv, NEW t \in Task, Alerts!Refetch(t)
    PROVE  AlertIInv'
<1>1. /\ DOMAIN task' = Task /\ UNCHANGED <<row, threads, epoch, pushed, unmarked>>
      /\ \A s \in Task : s # t => task'[s] = task[s]
      /\ \/ task'[t].at = "idle"
         \/ /\ task'[t].at = "sending" /\ task'[t].epoch = epoch
            /\ Alerts!DeliveryAllowed
  BY DEF AlertIInv, AlertTasks, Alerts!Refetch, Alerts!Idle
<1>2. \A s \in Task : s # t
         => task[s].at \notin {"refetching", "sending", "persisting"}
  BY DEF AlertIInv, AlertTasks, Alerts!Refetch
<1>3. \A e \in 1..MaxEpoch : Due(e)' = Due(e)
  BY <1>1 DEF Due
<1>4. epoch \in 1..MaxEpoch /\ task[t].at = "refetching"
  BY DEF AlertIInv, AlertType, Alerts!Refetch
<1>5. AlertType' /\ AlertTasks'
  BY <1>1, <1>2, <1>4 DEF AlertIInv, AlertType, AlertTasks
<1>6. Alerts!DeliveryAllowed => Due(epoch) <= unmarked[epoch]
  BY <1>2, <1>4 DEF AlertIInv, AlertMarks
<1>7. AlertBounded'
  BY <1>1, <1>2, <1>3, <1>4, <1>6 DEF AlertIInv, AlertBounded
<1>8. AlertMarks'
  BY <1>1, <1>3, <1>4, <1>6 DEF AlertMarks, Alerts!DeliveryAllowed
<1>. QED BY <1>5, <1>7, <1>8 DEF AlertIInv

LEMMA AlertSends ==
    ASSUME AlertIInv, NEW t \in Task, Alerts!Send(t)
    PROVE  AlertIInv'
<1>. DEFINE e == task[t].epoch
<1>1. task[t].at = "sending" /\ e \in 1..epoch /\ epoch \in 1..MaxEpoch
      /\ e \in 1..MaxEpoch /\ DOMAIN task = Task
  BY AlertsAssumption DEF AlertIInv, AlertType, AlertTasks, Alerts!Send
<1>2. Due(e) <= unmarked[e]
  BY <1>1 DEF AlertIInv, AlertBounded
<1>3. \A s \in Task : s # t
         => task[s].at \notin {"refetching", "sending", "persisting"}
            /\ task'[s] = task[s]
  BY <1>1 DEF AlertIInv, AlertTasks, Alerts!Send
<1>4. CASE /\ task' = [task EXCEPT ![t] = [at |-> "persisting", epoch |-> e]]
           /\ pushed' = [pushed EXCEPT ![e] = @ + 1]
  <2>0. UNCHANGED <<row, threads, epoch, unmarked>>
    BY DEF Alerts!Send
  <2>1. task'[t].at = "persisting" /\ task'[t].epoch = e /\ DOMAIN task' = Task
    BY <1>1, <1>4
  <2>2. PICK d \in 1..MaxEpoch : d = e
    BY <1>1
  <2>3. pushed' = [pushed EXCEPT ![d] = pushed[d] + 1]
    BY <1>4, <2>2
  <2>4. /\ pushed' \in [1..MaxEpoch -> Nat]
        /\ pushed'[d] = pushed[d] + 1
        /\ \A f \in 1..MaxEpoch : f # d => pushed'[f] = pushed[f]
    BY <2>2, <2>3 DEF AlertIInv, AlertType
  <2>5. /\ Due(d)' = Due(d) + 1
        /\ \A f \in 1..MaxEpoch : f # d => Due(f)' = Due(f)
    <3>1. \A f \in 1..MaxEpoch :
             Cardinality({c \in threads : c.at = "sending" /\ c.epoch = f}) \in Nat
      BY DueType DEF AlertIInv
    <3>2. \A f \in 1..MaxEpoch :
             Due(f)' = pushed'[f] + Cardinality({c \in threads : c.at = "sending"
                                                                 /\ c.epoch = f})
      BY <2>0 DEF Due
    <3>3. \A f \in 1..MaxEpoch : pushed[f] \in Nat
      BY DEF AlertIInv, AlertType
    <3>4. ASSUME NEW f \in 1..MaxEpoch PROVE Due(f)' = Due(f) + (pushed'[f] - pushed[f])
      <4>1. PICK n \in Nat : n = Cardinality({c \in threads : c.at = "sending"
                                                              /\ c.epoch = f})
        BY <3>1
      <4>2. Due(f)' = pushed'[f] + n
        BY <3>2, <4>1
      <4>3. Due(f) = pushed[f] + n
        BY <4>1 DEF Due
      <4>. QED BY <2>4, <3>3, <4>2, <4>3
    <3>5. \A f \in 1..MaxEpoch : Due(f) \in Nat
      BY DueType DEF AlertIInv
    <3>. QED BY <2>4, <3>3, <3>4, <3>5
  <2>6. AlertType' /\ AlertTasks'
    BY <1>1, <1>3, <2>0, <2>1, <2>4 DEF AlertIInv, AlertType, AlertTasks
  <2>7. Due(d) \in Nat /\ unmarked[d] \in Nat /\ Due(d) <= unmarked[d]
        /\ d <= epoch
    <3>1. Due(d) \in Nat /\ unmarked[d] \in Nat
      BY DueType DEF AlertIInv
    <3>. QED BY <1>1, <1>2, <2>2, <3>1
  <2>8. AlertBounded'
    BY <1>1, <1>3, <2>0, <2>1, <2>5, <2>7 DEF AlertIInv, AlertBounded
  <2>9. AlertMarks'
    <3>1. CASE d = epoch
      BY <2>0, <2>1, <2>2, <3>1 DEF AlertMarks
    <3>2. CASE d # epoch
      BY <1>1, <1>3, <2>0, <2>1, <2>2, <2>5, <3>2
      DEF AlertIInv, AlertMarks, Alerts!DeliveryAllowed
    <3>. QED BY <3>1, <3>2
  <2>. QED BY <2>6, <2>8, <2>9 DEF AlertIInv
<1>5. CASE task' = [task EXCEPT ![t] = Alerts!Idle] /\ UNCHANGED pushed
  <2>1. task'[t].at = "idle" /\ DOMAIN task' = Task
        /\ UNCHANGED <<row, threads, epoch, pushed, unmarked>>
    BY <1>1, <1>5 DEF Alerts!Idle, Alerts!Send
  <2>. QED BY <1>1, <1>3, <2>1, AlertQuietly
<1>. QED BY <1>4, <1>5 DEF Alerts!Send

\* The mark closes the row, whatever the user has made of it.
LEMMA AlertMarked ==
    ASSUME AlertType, row' = Alerts!Marked
    PROVE  row' \in AlertRow /\ ~Alerts!DeliveryAllowed'
<1>1. row \in AlertRow
  BY DEF AlertType
<1>2. CASE row.repeat
  <2>1. row' = [row EXCEPT !.enabled = row.enabled, !.triggered = row.triggered,
                           !.recent = TRUE]
    BY <1>2 DEF Alerts!Marked
  <2>2. row' \in AlertRow /\ row'.repeat = row.repeat /\ row'.recent = TRUE
    BY <1>1, <2>1 DEF AlertRow
  <2>. QED BY <1>2, <2>2 DEF Alerts!DeliveryAllowed
<1>3. CASE ~row.repeat
  <2>1. row' = [row EXCEPT !.enabled = FALSE, !.triggered = TRUE, !.recent = TRUE]
    BY <1>3 DEF Alerts!Marked
  <2>2. row' \in AlertRow /\ row'.enabled = FALSE
    BY <1>1, <2>1 DEF AlertRow
  <2>. QED BY <2>2 DEF Alerts!DeliveryAllowed
<1>. QED BY <1>2, <1>3

LEMMA AlertPersists ==
    ASSUME AlertIInv, NEW t \in Task, Alerts!Persist(t)
    PROVE  AlertIInv'
<1>. DEFINE e == task[t].epoch
<1>1. task[t].at = "persisting" /\ e \in 1..epoch /\ epoch \in 1..MaxEpoch
      /\ e \in 1..MaxEpoch /\ DOMAIN task = Task
      /\ UNCHANGED <<threads, epoch, pushed>>
  BY AlertsAssumption DEF AlertIInv, AlertType, AlertTasks, Alerts!Persist
<1>2. /\ \A s \in Task : task'[s].at \notin {"refetching", "sending", "persisting"}
      /\ DOMAIN task' = Task
  BY <1>1 DEF AlertIInv, AlertTasks, Alerts!Persist, Alerts!Idle
<1>3. \A f \in 1..MaxEpoch : Due(f)' = Due(f)
  BY <1>1 DEF Due
<1>4. AlertTasks'
  BY <1>1, <1>2 DEF AlertIInv, AlertTasks
<1>5. CASE row' = Alerts!Marked /\ UNCHANGED unmarked
  <2>1. row' \in AlertRow /\ ~Alerts!DeliveryAllowed'
    BY <1>5, AlertMarked DEF AlertIInv
  <2>2. AlertType'
    BY <1>1, <1>5, <2>1 DEF AlertIInv, AlertType
  <2>3. AlertBounded'
    BY <1>1, <1>2, <1>3, <1>5 DEF AlertIInv, AlertBounded
  <2>. QED BY <1>4, <2>1, <2>2, <2>3 DEF AlertIInv, AlertMarks
<1>6. CASE UNCHANGED row /\ unmarked' = [unmarked EXCEPT ![e] = @ + 1]
  <2>1. PICK d \in 1..MaxEpoch : d = e
    BY <1>1
  <2>2. /\ unmarked' \in [1..MaxEpoch -> Nat] /\ unmarked'[d] = unmarked[d] + 1
        /\ \A f \in 1..MaxEpoch : f # d => unmarked'[f] = unmarked[f]
    BY <1>6, <2>1 DEF AlertIInv, AlertType
  <2>3. AlertType'
    BY <1>1, <1>6, <2>2 DEF AlertIInv, AlertType
  <2>4. \A f \in 1..MaxEpoch :
           Due(f) \in Nat /\ unmarked[f] \in Nat /\ Due(f) <= 1 + unmarked[f]
    BY DueType DEF AlertIInv, AlertBounded
  <2>5. AlertBounded'
    BY <1>1, <1>2, <1>3, <2>2, <2>4 DEF AlertIInv, AlertBounded
  <2>6. AlertMarks'
    <3>1. CASE d = epoch
      BY <1>1, <1>3, <2>2, <2>4, <3>1 DEF AlertMarks
    <3>2. CASE d # epoch
      <4>1. \A s \in Task : ~(task[s].at = "persisting" /\ task[s].epoch = epoch)
        BY <1>1, <2>1, <3>2 DEF AlertIInv, AlertTasks
      <4>. QED BY <1>1, <1>3, <1>6, <2>2, <3>2, <4>1
               DEF AlertIInv, AlertMarks, Alerts!DeliveryAllowed
    <3>. QED BY <3>1, <3>2
  <2>. QED BY <1>4, <2>3, <2>5, <2>6 DEF AlertIInv
<1>. QED BY <1>5, <1>6 DEF Alerts!Persist

\* The row opens for delivery only with a new epoch.
LEMMA AlertArms ==
    ASSUME AlertIInv, UNCHANGED <<task, threads, pushed, unmarked>>,
           row' \in AlertRow, epoch < MaxEpoch,
           \/ epoch' = epoch + 1
           \/ epoch' = epoch /\ (Alerts!DeliveryAllowed' => Alerts!DeliveryAllowed)
    PROVE  AlertIInv'
<1>1. /\ epoch \in 1..MaxEpoch /\ epoch' \in 1..MaxEpoch
      /\ epoch' = epoch \/ epoch' = epoch + 1
  BY AlertsAssumption DEF AlertIInv, AlertType
<1>2. AlertType'
  BY <1>1 DEF AlertIInv, AlertType
<1>3. \A n \in 1..epoch : n \in 1..epoch'
  BY <1>1
<1>4. \A c \in threads : c.epoch \in 1..MaxEpoch
  BY DEF AlertIInv, AlertType, AlertThread
<1>5. AlertTasks'
  BY <1>1, <1>3, <1>4 DEF AlertIInv, AlertTasks
<1>6. \A e \in 1..MaxEpoch : Due(e)' = Due(e) /\ unmarked[e] \in Nat
  BY DEF Due, AlertIInv, AlertType
<1>7. AlertBounded'
  <2>1. \A e \in 1..MaxEpoch : e > epoch' => e > epoch
    BY <1>1
  <2>. QED BY <1>6, <2>1 DEF AlertIInv, AlertBounded
<1>8. AlertMarks'
  <2>1. CASE epoch' = epoch + 1
    <3>1. Due(epoch') = 0
      BY <1>1, <2>1 DEF AlertIInv, AlertBounded
    <3>2. PICK e \in 1..MaxEpoch : e = epoch'
      BY <1>1
    <3>3. Due(e)' = 0 /\ 0 <= unmarked[e]
      BY <1>6, <3>1, <3>2
    <3>. QED BY <3>2, <3>3 DEF AlertMarks
  <2>2. CASE epoch' = epoch /\ (Alerts!DeliveryAllowed' => Alerts!DeliveryAllowed)
    BY <1>1, <1>6, <2>2 DEF AlertIInv, AlertMarks
  <2>. QED BY <2>1, <2>2
<1>. QED BY <1>2, <1>5, <1>7, <1>8 DEF AlertIInv

LEMMA AlertPuts ==
    ASSUME AlertIInv, NEW asks \in {"keep", "on", "off"}, NEW level \in Level,
           NEW repeat \in BOOLEAN, Alerts!Put(asks, level, repeat)
    PROVE  AlertIInv'
<1>. DEFINE rearmed == \/ level # row.threshold \/ repeat # row.repeat
                       \/ asks = "on" /\ ~row.enabled
            wanted == IF asks = "keep" THEN row.enabled ELSE asks = "on"
<1>1. row \in AlertRow
  BY DEF AlertIInv, AlertType
<1>2. PICK enabled \in BOOLEAN, triggered \in BOOLEAN, recent \in BOOLEAN :
          /\ enabled <=> wanted \/ (repeat # row.repeat /\ asks # "off")
          /\ triggered <=> row.triggered /\ ~rearmed
          /\ recent <=> row.recent /\ ~rearmed
          /\ row' = [enabled |-> enabled, triggered |-> triggered,
                     threshold |-> level, repeat |-> repeat, recent |-> recent]
  <2>1. /\ (wanted \/ (repeat # row.repeat /\ asks # "off")) \in BOOLEAN
        /\ (row.triggered /\ ~rearmed) \in BOOLEAN /\ (row.recent /\ ~rearmed) \in BOOLEAN
    OBVIOUS
  <2>2. row' = [enabled |-> wanted \/ (repeat # row.repeat /\ asks # "off"),
                triggered |-> row.triggered /\ ~rearmed,
                threshold |-> level, repeat |-> repeat,
                recent |-> row.recent /\ ~rearmed]
    BY Zenon DEF Alerts!Put
  <2>. QED BY <2>1, <2>2, Zenon
<1>3. /\ row' \in AlertRow
      /\ row'.enabled = enabled /\ row'.triggered = triggered
      /\ row'.repeat = repeat /\ row'.recent = recent
  BY <1>2 DEF AlertRow
<1>4. UNCHANGED <<task, threads, pushed, unmarked>> /\ epoch < MaxEpoch
  BY DEF Alerts!Put
<1>5. CASE rearmed
  <2>1. epoch' = epoch + 1
    BY <1>5 DEF Alerts!Put
  <2>. QED BY <1>3, <1>4, <2>1, AlertArms
<1>6. CASE ~rearmed
  <2>1. epoch' = epoch
    BY <1>6 DEF Alerts!Put
  <2>2. (enabled => row.enabled) /\ repeat = row.repeat
        /\ (triggered <=> row.triggered) /\ (recent <=> row.recent)
    BY <1>1, <1>2, <1>6 DEF AlertRow
  <2>3. Alerts!DeliveryAllowed' => Alerts!DeliveryAllowed
    BY <1>1, <1>3, <2>2 DEF Alerts!DeliveryAllowed, AlertRow
  <2>. QED BY <1>3, <1>4, <2>1, <2>3, AlertArms
<1>. QED BY <1>5, <1>6

LEMMA AlertInterval ==
    ASSUME AlertIInv, Alerts!IntervalPasses
    PROVE  AlertIInv'
<1>1. row' \in AlertRow
  BY DEF Alerts!IntervalPasses, AlertIInv, AlertType, AlertRow
<1>. QED BY <1>1, AlertArms DEF Alerts!IntervalPasses

\* A thread that was left behind delivers its push, which was due, or marks the row.
LEMMA AlertThreads ==
    ASSUME AlertIInv, NEW k \in threads, Alerts!ThreadEnds(k)
    PROVE  AlertIInv'
<1>1. /\ k \in AlertThread /\ k.epoch \in 1..MaxEpoch /\ k.at \in {"sending", "persisting"}
      /\ threads' = threads \ {k} /\ UNCHANGED <<task, epoch, unmarked>>
  BY DEF AlertIInv, AlertType, AlertThread, Alerts!ThreadEnds
<1>2. IsFiniteSet(threads')
  BY <1>1, FS_RemoveElement DEF AlertIInv, AlertType
<1>3. AlertTasks'
  BY <1>1 DEF AlertIInv, AlertTasks
<1>4. ASSUME NEW f \in 1..MaxEpoch
      PROVE  Cardinality({c \in threads' : c.at = "sending" /\ c.epoch = f})
               = Cardinality({c \in threads : c.at = "sending" /\ c.epoch = f})
                   - (IF k.at = "sending" /\ k.epoch = f THEN 1 ELSE 0)
  <2>1. PICK R : R = {c \in threads : c.at = "sending" /\ c.epoch = f}
    OBVIOUS
  <2>2. IsFiniteSet(R) /\ Cardinality(R) \in Nat
    BY <2>1, DueType DEF AlertIInv
  <2>3. {c \in threads' : c.at = "sending" /\ c.epoch = f} = R \ {k}
    BY <1>1, <2>1
  <2>4. k \in R <=> k.at = "sending" /\ k.epoch = f
    BY <2>1
  <2>5. Cardinality(R \ {k}) = Cardinality(R) - (IF k \in R THEN 1 ELSE 0)
    BY <2>2, FS_RemoveElement
  <2>. QED BY <2>1, <2>3, <2>4, <2>5
<1>5. CASE k.at = "sending"
  <2>1. /\ pushed' \in [1..MaxEpoch -> Nat]
        /\ \A f \in 1..MaxEpoch :
              pushed'[f] = pushed[f] + (IF f = k.epoch THEN 1 ELSE 0)
        /\ row' = row
    <3>1. PICK e \in 1..MaxEpoch : e = k.epoch
      BY <1>1
    <3>2. pushed' = [pushed EXCEPT ![e] = pushed[e] + 1] /\ row' = row
      BY <1>5, <3>1 DEF Alerts!ThreadEnds
    <3>. QED BY <3>1, <3>2 DEF AlertIInv, AlertType
  <2>2. ASSUME NEW f \in 1..MaxEpoch PROVE Due(f)' = Due(f)
    <3>1. PICK n \in Nat :
              n = Cardinality({c \in threads : c.at = "sending" /\ c.epoch = f})
      BY DueType DEF AlertIInv
    <3>2. Cardinality({c \in threads' : c.at = "sending" /\ c.epoch = f})
            = n - (IF k.epoch = f THEN 1 ELSE 0)
      BY <1>4, <1>5, <3>1
    <3>3. Due(f) = pushed[f] + n /\ pushed[f] \in Nat
      BY <3>1 DEF Due, AlertIInv, AlertType
    <3>4. Due(f)' = pushed'[f] + (n - (IF k.epoch = f THEN 1 ELSE 0))
      BY <3>2 DEF Due
    <3>. QED BY <2>1, <3>3, <3>4
  <2>3. AlertType'
    BY <1>1, <1>2, <2>1 DEF AlertIInv, AlertType
  <2>4. epoch \in 1..MaxEpoch
    BY DEF AlertIInv, AlertType
  <2>5. AlertBounded' /\ AlertMarks'
    BY <1>1, <2>1, <2>2, <2>4
    DEF AlertIInv, AlertBounded, AlertMarks, Alerts!DeliveryAllowed
  <2>. QED BY <1>3, <2>3, <2>5 DEF AlertIInv
<1>6. CASE k.at = "persisting"
  <2>1. row' = Alerts!Marked /\ pushed' = pushed
    BY <1>6 DEF Alerts!ThreadEnds
  <2>2. row' \in AlertRow /\ ~Alerts!DeliveryAllowed'
    BY <2>1, AlertMarked DEF AlertIInv
  <2>3. ASSUME NEW f \in 1..MaxEpoch PROVE Due(f)' = Due(f)
    <3>1. Cardinality({c \in threads' : c.at = "sending" /\ c.epoch = f})
            = Cardinality({c \in threads : c.at = "sending" /\ c.epoch = f})
      BY <1>4, <1>6, DueType DEF AlertIInv
    <3>. QED BY <2>1, <3>1 DEF Due
  <2>4. AlertType'
    BY <1>1, <1>2, <2>1, <2>2 DEF AlertIInv, AlertType
  <2>5. AlertBounded'
    BY <1>1, <2>3 DEF AlertIInv, AlertBounded
  <2>. QED BY <1>3, <2>2, <2>4, <2>5 DEF AlertIInv, AlertMarks
<1>. QED BY <1>1, <1>5, <1>6

LEMMA AlertsCount ==
    ASSUME NEW S PROVE Alerts!Cardinality(S) = Cardinality(S)
  BY DEF Alerts!Cardinality, Cardinality

\* A drain leaves one call to a thread at most, and forgets one mark at most.
LEMMA AlertDrains ==
    ASSUME AlertIInv, Alerts!DrainTimesOut
    PROVE  AlertIInv'
<1>1. PICK S \in SUBSET Alerts!Called :
         /\ threads' = threads \cup {[call |-> t, at |-> task[t].at,
                                      epoch |-> task[t].epoch] : t \in S}
         /\ \A f \in 1..MaxEpoch :
               unmarked'[f] = unmarked[f]
                 + Cardinality({t \in Alerts!Called :
                                  /\ task[t].epoch = f
                                  /\ t \in S \/ task[t].at = "persisting"})
         /\ DOMAIN unmarked' = 1..MaxEpoch
         /\ unmarked' = [f \in 1..MaxEpoch |-> unmarked'[f]]
  BY AlertsCount DEF Alerts!DrainTimesOut, Alerts!Epoch
<1>2. /\ DOMAIN task' = Task /\ \A t \in Task : task'[t].at = "idle"
      /\ UNCHANGED <<row, epoch, pushed>> /\ epoch \in 1..MaxEpoch
  BY DEF Alerts!DrainTimesOut, Alerts!Idle, AlertIInv, AlertType
<1>3. CASE Alerts!Called = {}
  <2>1. threads' = threads
    BY <1>1, <1>3
  <2>2. ASSUME NEW f \in 1..MaxEpoch PROVE unmarked'[f] = unmarked[f]
    <3>1. {t \in Alerts!Called : /\ task[t].epoch = f
                                 /\ t \in S \/ task[t].at = "persisting"} = {}
      BY <1>3
    <3>. QED BY <1>1, <3>1, FS_EmptySet DEF AlertIInv, AlertType
  <2>3. unmarked' = unmarked
    BY <1>1, <2>2 DEF AlertIInv, AlertType
  <2>4. \A t \in Task : task[t].at # "persisting"
    BY <1>3 DEF Alerts!Called
  <2>. QED BY <1>2, <2>1, <2>3, <2>4, AlertQuietly
<1>4. ASSUME NEW t \in Alerts!Called PROVE AlertIInv'
  <2>1. /\ t \in Task /\ task[t].at \in {"sending", "persisting"}
        /\ task[t].epoch \in 1..epoch /\ task[t].epoch \in 1..MaxEpoch
        /\ Alerts!Called = {t}
    BY <1>4, AlertsAssumption DEF Alerts!Called, AlertIInv, AlertType, AlertTasks
  <2>2. PICK e \in 1..MaxEpoch : e = task[t].epoch
    BY <2>1
  <2>3. ASSUME NEW f \in 1..MaxEpoch
        PROVE  unmarked'[f] = unmarked[f]
                 + (IF f = e /\ (t \in S \/ task[t].at = "persisting") THEN 1 ELSE 0)
    <3>1. CASE f = e /\ (t \in S \/ task[t].at = "persisting")
      <4>1. {s \in Alerts!Called : /\ task[s].epoch = f
                                   /\ s \in S \/ task[s].at = "persisting"} = {t}
        BY <2>1, <2>2, <3>1
      <4>. QED BY <1>1, <3>1, <4>1, FS_Singleton
    <3>2. CASE ~(f = e /\ (t \in S \/ task[t].at = "persisting"))
      <4>1. {s \in Alerts!Called : /\ task[s].epoch = f
                                   /\ s \in S \/ task[s].at = "persisting"} = {}
        BY <2>1, <2>2, <3>2
      <4>. QED BY <1>1, <3>2, <4>1, FS_EmptySet
    <3>. QED BY <3>1, <3>2
  <2>4. PICK r \in AlertThread : /\ r = [call |-> t, at |-> task[t].at, epoch |-> e]
                                 /\ r.at = task[t].at /\ r.epoch = e
    <3>1. PICK at \in {"sending", "persisting"} : at = task[t].at
      BY <2>1
    <3>2. t \in Task /\ e \in 1..MaxEpoch
      BY <2>1, <2>2
    <3>. DEFINE r == [call |-> t, at |-> at, epoch |-> e]
    <3>3. r \in AlertThread
      BY <3>1, <3>2 DEF AlertThread
    <3>4. r.at = at /\ r.epoch = e
      OBVIOUS
    <3>5. r = [call |-> t, at |-> task[t].at, epoch |-> e]
      BY <3>1
    <3>. QED BY <3>1, <3>3, <3>4, <3>5
  <2>5. threads' = threads \cup (IF t \in S THEN {r} ELSE {})
    BY <1>1, <2>1, <2>2, <2>4
  <2>6. /\ threads' \subseteq AlertThread /\ IsFiniteSet(threads')
        /\ \A c \in threads' : c.epoch <= epoch
    <3>1. /\ threads \subseteq AlertThread /\ IsFiniteSet(threads)
          /\ \A c \in threads : c.epoch <= epoch
      BY DEF AlertIInv, AlertType, AlertTasks
    <3>2. IsFiniteSet(threads \cup {r})
      BY <3>1, FS_AddElement
    <3>3. r.epoch <= epoch
      BY <2>1, <2>2, <2>4
    <3>4. CASE t \in S
      BY <2>4, <2>5, <3>1, <3>2, <3>3, <3>4
    <3>5. CASE t \notin S
      BY <2>5, <3>1, <3>5
    <3>. QED BY <3>4, <3>5
  <2>7. ASSUME NEW f \in 1..MaxEpoch
        PROVE  /\ Due(f)' \in Nat
               /\ Due(f)' <= Due(f) + (IF f = e /\ t \in S /\ task[t].at = "sending"
                                       THEN 1 ELSE 0)
    <3>1. PICK R : R = {c \in threads : c.at = "sending" /\ c.epoch = f}
      OBVIOUS
    <3>2. IsFiniteSet(R) /\ Cardinality(R) \in Nat /\ pushed[f] \in Nat
      BY <3>1, DueType DEF AlertIInv
    <3>3. Due(f) = pushed[f] + Cardinality(R)
      BY <3>1 DEF Due
    <3>4. CASE f = e /\ t \in S /\ task[t].at = "sending"
      <4>1. {c \in threads' : c.at = "sending" /\ c.epoch = f} = R \cup {r}
        BY <2>4, <2>5, <3>1, <3>4
      <4>2. Due(f)' = pushed[f] + Cardinality(R \cup {r})
        BY <1>2, <4>1 DEF Due
      <4>3. Cardinality(R \cup {r}) \in Nat
            /\ Cardinality(R \cup {r}) <= Cardinality(R) + 1
        BY <3>2, OneMoreItem
      <4>. QED BY <3>2, <3>3, <3>4, <4>2, <4>3
    <3>5. CASE ~(f = e /\ t \in S /\ task[t].at = "sending")
      <4>1. {c \in threads' : c.at = "sending" /\ c.epoch = f} = R
        BY <2>4, <2>5, <3>1, <3>5
      <4>2. Due(f)' = pushed[f] + Cardinality(R)
        BY <1>2, <4>1 DEF Due
      <4>. QED BY <3>2, <3>3, <3>5, <4>2
    <3>. QED BY <3>4, <3>5
  <2>8. \A f \in 1..MaxEpoch : unmarked[f] \in Nat /\ Due(f) \in Nat
    BY DueType DEF AlertIInv
  <2>9. unmarked' \in [1..MaxEpoch -> Nat]
    BY <1>1, <2>3, <2>8
  <2>10. AlertType' /\ AlertTasks'
    BY <1>2, <2>6, <2>9 DEF AlertIInv, AlertType, AlertTasks
  <2>11. ASSUME NEW f \in 1..MaxEpoch
         PROVE  Due(f)' <= 1 + unmarked'[f] /\ (f > epoch => Due(f)' = 0)
    <3>1. /\ Due(f) <= 1 + unmarked[f] /\ (f > epoch => Due(f) = 0)
          /\ f = e /\ task[t].at = "sending" => Due(f) <= unmarked[f]
      BY <2>1, <2>2 DEF AlertIInv, AlertBounded
    <3>2. f > epoch => f # e
      BY <1>2, <2>1, <2>2
    <3>. QED BY <2>3, <2>7, <2>8, <3>1, <3>2
  <2>12. AlertBounded'
    BY <1>2, <2>11 DEF AlertBounded
  <2>13. ~Alerts!DeliveryAllowed \/ Due(epoch)' <= unmarked'[epoch]
    <3>1. CASE e = epoch
      <4>1. CASE task[t].at = "sending"
        <5>1. Due(e) <= unmarked[e]
          BY <2>1, <2>2, <4>1 DEF AlertIInv, AlertBounded
        <5>2. Due(e)' <= unmarked'[e]
          BY <2>3, <2>7, <2>8, <5>1
        <5>. QED BY <1>2, <3>1, <5>2
      <4>2. CASE task[t].at = "persisting"
        <5>1. Due(e) <= 1 + unmarked[e]
          BY DEF AlertIInv, AlertBounded
        <5>2. Due(e)' <= unmarked'[e]
          BY <2>3, <2>7, <2>8, <4>2, <5>1
        <5>. QED BY <1>2, <3>1, <5>2
      <4>. QED BY <2>1, <4>1, <4>2
    <3>2. CASE e # epoch
      <4>1. \A s \in Task : ~(task[s].at = "persisting" /\ task[s].epoch = epoch)
        BY <2>1, <2>2, <3>2 DEF AlertIInv, AlertTasks
      <4>2. ~Alerts!DeliveryAllowed \/ Due(epoch) <= unmarked[epoch]
        BY <4>1 DEF AlertIInv, AlertMarks
      <4>3. Due(epoch)' <= Due(epoch) /\ unmarked'[epoch] = unmarked[epoch]
        BY <1>2, <2>3, <2>7, <2>8, <3>2
      <4>. QED BY <1>2, <2>7, <2>8, <4>2, <4>3
    <3>. QED BY <3>1, <3>2
  <2>14. AlertMarks'
    BY <1>2, <2>13 DEF AlertMarks, Alerts!DeliveryAllowed
  <2>. QED BY <2>10, <2>12, <2>14 DEF AlertIInv
<1>. QED BY <1>3, <1>4

LEMMA AlertStep ==
    AlertIInv /\ (Alerts!Next \/ UNCHANGED alertVars) => AlertIInv'
<1>. SUFFICES ASSUME AlertIInv, Alerts!Next \/ UNCHANGED alertVars
              PROVE  AlertIInv'
  OBVIOUS
<1>1. CASE UNCHANGED alertVars
  <2>1. UNCHANGED <<row, task, threads, epoch, pushed, unmarked>>
    BY <1>1 DEF alertVars
  <2>2. \A e \in 1..MaxEpoch : Due(e)' = Due(e)
    BY <2>1 DEF Due
  <2>. QED BY <2>1, <2>2, AlertQuietly DEF AlertIInv, AlertTasks
<1>2. CASE \/ \E t \in Task : \/ \E rate \in Rate : Alerts!Observe(t, rate)
                             \/ Alerts!Resume(t)
           \/ Alerts!LoaderReads \/ Alerts!LoaderPuts \/ Alerts!Expires
           \/ Alerts!CloseBegins \/ Alerts!Drained
  BY <1>2, AlertLoads
<1>3. CASE \E t \in Task : Alerts!Refetch(t) \/ Alerts!Send(t) \/ Alerts!Persist(t)
  BY <1>3, AlertRefetches, AlertSends, AlertPersists
<1>4. CASE \/ Alerts!IntervalPasses
           \/ \E asks \in {"keep", "on", "off"}, level \in Level, repeat \in BOOLEAN :
                 Alerts!Put(asks, level, repeat)
  BY <1>4, AlertInterval, AlertPuts
<1>5. CASE Alerts!DrainTimesOut \/ \E c \in threads : Alerts!ThreadEnds(c)
  BY <1>5, AlertDrains, AlertThreads
<1>. QED BY <1>1, <1>2, <1>3, <1>4, <1>5 DEF Alerts!Next

AlertInv == service = "alerts" => AlertIInv

LEMMA AlertInvariant == Spec => []AlertInv
<1>1. Init => AlertInv
  BY AlertInitHolds DEF Init, AlertInv
<1>2. AlertInv /\ [Next]_allVars => AlertInv'
  <2>1. [Next]_allVars => service' = service
    BY DEF Next, allVars
  <2>2. service = "alerts" /\ [Next]_allVars => Alerts!Next \/ UNCHANGED alertVars
    BY DEF Next, allVars
  <2>. QED BY <2>1, <2>2, AlertStep DEF AlertInv
<1>. QED BY <1>1, <1>2, PTL DEF Spec, allVars

-----------------------------------------------------------------------------
(* The close of the KRX session                                              *)

CloseRow == \E r \in rows : r.rate = "close"

KrxRows == rows # {} /\ \A r \in rows : r.at \in 0..3

\* An ordinary tick is written before the end of the grace minute, the two paths
\* write after it.
KrxPhases ==
    /\ clock = "after" => window = "none"
    /\ flush \in {"inserting", "storing", "flagging"} => clock = "after"
    /\ rest \in {"asking", "deciding", "inserting", "storing", "stored"} => clock = "after"

\* A holiday has no frame, and no row to prove that the session traded.
KrxHoliday ==
    \/ traded
    \/ /\ rows = {[rate |-> "prev", at |-> 0]} /\ latest = "prev" /\ daily = None
       /\ window = "none" /\ flush = "none" /\ wsStored = {}
       /\ rest \notin {"inserting", "storing", "stored"}

\* What each path has stored.
KrxStored ==
    /\ wsStored \subseteq {"row", "redis"}
    /\ "row" \in wsStored => CloseRow
    /\ "redis" \in wsStored => latest = "close" /\ clock = "after"
    /\ rest \in {"storing", "stored"} => CloseRow
    /\ rest = "stored" => latest = "close"
    /\ daily \in {None, "close"}

\* The flag is set, and read, after both stores of the window writer.
KrxFlag ==
    /\ flag \in BOOLEAN
    /\ flag \/ flush = "flagging" \/ rest = "skipped" => wsStored = {"row", "redis"}

KrxIInv == KrxRows /\ KrxPhases /\ KrxHoliday /\ KrxStored /\ KrxFlag

LEMMA KrxInitHolds == Krx!Init => KrxIInv
<1>. SUFFICES ASSUME Krx!Init PROVE KrxIInv
  OBVIOUS
<1>1. rows = {[rate |-> "prev", at |-> 0]}
  BY DEF Krx!Init
<1>2. KrxRows
  BY <1>1 DEF KrxRows
<1>3. KrxPhases /\ KrxHoliday /\ KrxStored
  BY <1>1 DEF Krx!Init, KrxPhases, KrxHoliday, KrxStored
<1>4. KrxFlag
  BY DEF Krx!Init, KrxFlag
<1>. QED BY <1>2, <1>3, <1>4 DEF KrxIInv

LEMMA KrxNewest ==
    ASSUME KrxRows
    PROVE  /\ Krx!Newest \in rows /\ Krx!Newest.at \in 0..3
           /\ \A s \in rows : s.at <= Krx!Newest.at
<1>1. \E r \in rows : \A s \in rows : s.at <= r.at
  <2>1. CASE \E r \in rows : r.at = 3
    BY <2>1 DEF KrxRows
  <2>2. CASE (\A r \in rows : r.at # 3) /\ \E r \in rows : r.at = 2
    <3>1. PICK r \in rows : r.at = 2
      BY <2>2
    <3>. QED BY <2>2, <3>1 DEF KrxRows
  <2>3. CASE (\A r \in rows : r.at # 3 /\ r.at # 2) /\ \E r \in rows : r.at = 1
    <3>1. PICK r \in rows : r.at = 1
      BY <2>3
    <3>. QED BY <2>3, <3>1 DEF KrxRows
  <2>4. CASE \A r \in rows : r.at # 3 /\ r.at # 2 /\ r.at # 1
    <3>1. PICK r \in rows : r.at = 0
      BY <2>4 DEF KrxRows
    <3>. QED BY <2>4, <3>1 DEF KrxRows
  <2>. QED BY <2>1, <2>2, <2>3, <2>4
<1>. QED BY <1>1 DEF Krx!Newest, KrxRows

\* A path that inserts the close leaves a row of it, whether or not the newest was one.
LEMMA KrxInserts ==
    ASSUME KrxRows, NEW rate, NEW at \in 0..3,
           Krx!InsertsIfChanged(rate, at) \/ Krx!Inserts(rate, at)
    PROVE  /\ KrxRows' /\ rows \subseteq rows'
           /\ \E r \in rows' : r.rate = rate
<1>1. CASE rows' = rows \cup {[rate |-> rate, at |-> at]}
  <2>. DEFINE r == [rate |-> rate, at |-> at]
  <2>1. r.rate = rate /\ r.at = at
    OBVIOUS
  <2>2. rows' = rows \cup {r}
    BY <1>1
  <2>. HIDE DEF r
  <2>. QED BY <2>1, <2>2 DEF KrxRows
<1>2. CASE Krx!Newest.rate = rate /\ rows' = rows
  BY <1>2, KrxNewest DEF KrxRows
<1>. QED BY <1>1, <1>2 DEF Krx!InsertsIfChanged, Krx!Inserts

LEMMA KrxTicks ==
    ASSUME KrxIInv, NEW ok \in BOOLEAN, Krx!TickInserts(ok) \/ Krx!TickStores(ok)
    PROVE  KrxIInv'
<1>1. traded /\ clock # "after" /\ window \in {"inserting", "storing"}
  BY DEF KrxIInv, KrxPhases, KrxHoliday, Krx!TickInserts, Krx!TickStores
<1>2. CASE Krx!TickInserts(ok)
  <2>1. KrxRows' /\ rows \subseteq rows'
    <3>1. Krx!Stamp \in 0..3
      BY DEF Krx!Stamp
    <3>. QED BY <1>2, <3>1, KrxInserts DEF Krx!TickInserts, KrxIInv, KrxRows
  <2>2. UNCHANGED <<traded, clock, flush, rest, latest, flag, daily, wsStored>>
    BY <1>2 DEF Krx!TickInserts
  <2>. QED BY <1>1, <2>1, <2>2
           DEF KrxIInv, KrxPhases, KrxHoliday, KrxStored, KrxFlag, CloseRow
<1>3. CASE Krx!TickStores(ok)
  <2>1. UNCHANGED <<traded, clock, flush, rest, rows, flag, daily, wsStored>>
    BY <1>3 DEF Krx!TickStores
  <2>. QED BY <1>1, <2>1
           DEF KrxIInv, KrxRows, KrxPhases, KrxHoliday, KrxStored, KrxFlag, CloseRow
<1>. QED BY <1>2, <1>3

LEMMA KrxFlushes ==
    ASSUME KrxIInv, NEW ok \in BOOLEAN,
           Krx!FlushInserts(ok) \/ Krx!FlushStores(ok) \/ Krx!FlushFlags(ok)
    PROVE  KrxIInv'
<1>1. traded /\ clock = "after" /\ window = "none"
  BY DEF KrxIInv, KrxPhases, KrxHoliday, Krx!FlushInserts, Krx!FlushStores,
         Krx!FlushFlags
<1>2. CASE Krx!FlushInserts(ok)
  <2>1. /\ KrxRows' /\ rows \subseteq rows'
        /\ "row" \in wsStored' => CloseRow' \/ "row" \in wsStored
    <3>1. CASE ok
      BY <1>2, <3>1, KrxInserts DEF Krx!FlushInserts, Krx!Boundary, KrxIInv, CloseRow
    <3>2. CASE ~ok
      BY <1>2, <3>2 DEF Krx!FlushInserts, KrxIInv, KrxRows
    <3>. QED BY <3>1, <3>2
  <2>2. /\ wsStored \subseteq wsStored' /\ wsStored' \subseteq wsStored \cup {"row"}
        /\ flush' = "storing"
        /\ UNCHANGED <<traded, clock, window, rest, latest, flag, daily>>
    BY <1>2 DEF Krx!FlushInserts
  <2>. QED BY <1>1, <2>1, <2>2
           DEF KrxIInv, KrxPhases, KrxHoliday, KrxStored, KrxFlag, CloseRow
<1>3. CASE Krx!FlushStores(ok)
  <2>1. /\ wsStored' = wsStored \cup (IF ok THEN {"redis"} ELSE {})
        /\ latest' = (IF ok THEN "close" ELSE latest)
        /\ flush' = (IF wsStored' = {"row", "redis"} THEN "flagging" ELSE "done")
        /\ UNCHANGED <<traded, clock, window, rest, rows, flag, daily>>
    BY <1>3 DEF Krx!FlushStores, Krx!Captured
  <2>. QED BY <1>1, <2>1
           DEF KrxIInv, KrxRows, KrxPhases, KrxHoliday, KrxStored, KrxFlag, CloseRow
<1>4. CASE Krx!FlushFlags(ok)
  <2>1. /\ flush = "flagging" /\ flush' = "done"
        /\ flag' \in BOOLEAN /\ daily' \in {daily, "close"}
        /\ UNCHANGED <<traded, clock, window, rest, rows, latest, wsStored>>
    BY <1>4 DEF Krx!FlushFlags, Krx!Appends
  <2>. QED BY <1>1, <2>1
           DEF KrxIInv, KrxRows, KrxPhases, KrxHoliday, KrxStored, KrxFlag, CloseRow
<1>. QED BY <1>2, <1>3, <1>4

LEMMA KrxFalls ==
    ASSUME KrxIInv, NEW ok \in BOOLEAN,
           \/ Krx!RestEnters(ok) \/ Krx!RestWakes(ok) \/ Krx!RestAnswers(ok)
           \/ Krx!RestDecides(ok) \/ Krx!RestInserts(ok) \/ Krx!RestStores(ok)
    PROVE  KrxIInv'
<1>1. CASE Krx!RestEnters(ok) \/ Krx!RestWakes(ok)
  <2>1. /\ rest' = (IF flag /\ ok THEN "skipped" ELSE rest') /\ rest' # "stored"
        /\ rest' \notin {"deciding", "inserting", "storing"}
        /\ rest' = "asking" => clock = "after"
        /\ rest' = "skipped" => flag
        /\ UNCHANGED <<traded, clock, window, flush, rows, latest, flag, daily, wsStored>>
    BY <1>1 DEF Krx!RestEnters, Krx!RestWakes, Krx!RestReads
  <2>. QED BY <2>1 DEF KrxIInv, KrxRows, KrxPhases, KrxHoliday, KrxStored, KrxFlag, CloseRow
<1>2. CASE Krx!RestAnswers(ok)
  <2>1. /\ rest = "asking" /\ rest' \in {"deciding", "failed"}
        /\ UNCHANGED <<traded, clock, window, flush, rows, latest, flag, daily, wsStored>>
    BY <1>2 DEF Krx!RestAnswers
  <2>. QED BY <2>1 DEF KrxIInv, KrxRows, KrxPhases, KrxHoliday, KrxStored, KrxFlag, CloseRow
<1>3. CASE Krx!RestDecides(ok)
  <2>1. /\ rest = "deciding" /\ rest' \in {"failed", "rejected", "inserting", "blocked"}
        /\ rest' = "inserting" => Krx!Newest.at > 0
        /\ UNCHANGED <<traded, clock, window, flush, rows, latest, flag, daily, wsStored>>
    BY <1>3 DEF Krx!RestDecides, Krx!Evidence
  <2>2. rest' = "inserting" => traded
    <3>1. CASE ~traded
      <4>1. rows = {[rate |-> "prev", at |-> 0]} /\ Krx!Newest \in rows
        BY <3>1, KrxNewest DEF KrxIInv, KrxHoliday
      <4>2. Krx!Newest.at = 0
        BY <4>1
      <4>. QED BY <2>1, <4>2
    <3>. QED BY <3>1
  <2>. QED BY <2>1, <2>2
           DEF KrxIInv, KrxRows, KrxPhases, KrxHoliday, KrxStored, KrxFlag, CloseRow
<1>4. CASE Krx!RestInserts(ok)
  <2>1. /\ traded /\ clock = "after" /\ rest = "inserting"
        /\ rest' = (IF ok THEN "storing" ELSE "failed")
        /\ UNCHANGED <<traded, clock, window, flush, latest, flag, daily, wsStored>>
    BY <1>4 DEF Krx!RestInserts, KrxIInv, KrxPhases, KrxHoliday
  <2>2. /\ KrxRows' /\ rows \subseteq rows'
        /\ rest' = "storing" => CloseRow'
    <3>1. CASE ok
      BY <1>4, <2>1, <3>1, KrxInserts
      DEF Krx!RestInserts, Krx!Boundary, Krx!Quote, KrxIInv, CloseRow
    <3>2. CASE ~ok
      BY <1>4, <2>1, <3>2 DEF Krx!RestInserts, KrxIInv, KrxRows
    <3>. QED BY <3>1, <3>2
  <2>. QED BY <2>1, <2>2
           DEF KrxIInv, KrxPhases, KrxHoliday, KrxStored, KrxFlag, CloseRow
<1>5. CASE Krx!RestStores(ok)
  <2>1. /\ traded /\ clock = "after" /\ rest = "storing"
        /\ rest' = (IF ok THEN "stored" ELSE "failed")
        /\ latest' = (IF ok THEN "close" ELSE latest)
        /\ daily' \in {daily, "close"}
        /\ UNCHANGED <<traded, clock, window, flush, rows, flag, wsStored>>
    BY <1>5 DEF Krx!RestStores, Krx!Quote, Krx!Appends, KrxIInv, KrxPhases, KrxHoliday
  <2>. QED BY <2>1
           DEF KrxIInv, KrxRows, KrxPhases, KrxHoliday, KrxStored, KrxFlag, CloseRow
<1>. QED BY <1>1, <1>2, <1>3, <1>4, <1>5

LEMMA KrxStep ==
    KrxIInv /\ (Krx!Next \/ UNCHANGED krxVars) => KrxIInv'
<1>. SUFFICES ASSUME KrxIInv, Krx!Next \/ UNCHANGED krxVars
              PROVE  KrxIInv'
  OBVIOUS
<1>. USE DEF KrxIInv, KrxRows, KrxPhases, KrxHoliday, KrxStored, KrxFlag, CloseRow
<1>1. CASE Krx!ClockMoves
  BY <1>1 DEF Krx!ClockMoves
<1>2. CASE Krx!Frame
  BY <1>2 DEF Krx!Frame
<1>3. CASE Krx!Drops \/ Krx!Reconnects \/ UNCHANGED krxVars
  <2>1. UNCHANGED <<traded, clock, window, flush, rest, rows, latest, flag, daily,
                    wsStored>>
    BY <1>3 DEF Krx!Drops, Krx!Reconnects, krxVars
  <2>. QED BY <2>1
<1>4. CASE Krx!LeavesSession
  BY <1>4 DEF Krx!LeavesSession
<1>5. CASE Krx!WindowEnds
  BY <1>5 DEF Krx!WindowEnds
<1>6. CASE Krx!FlushWakes
  BY <1>6 DEF Krx!FlushWakes
<1>7. CASE Krx!Stop
  BY <1>7 DEF Krx!Stop
<1>. QED BY <1>1, <1>2, <1>3, <1>4, <1>5, <1>6, <1>7, KrxTicks, KrxFlushes, KrxFalls
         DEF Krx!Next

KrxInv == service = "krx" => KrxIInv

LEMMA KrxInvariant == Spec => []KrxInv
<1>1. Init => KrxInv
  BY KrxInitHolds DEF Init, KrxInv
<1>2. KrxInv /\ [Next]_allVars => KrxInv'
  <2>1. [Next]_allVars => service' = service
    BY DEF Next, allVars
  <2>2. service = "krx" /\ [Next]_allVars => Krx!Next \/ UNCHANGED krxVars
    BY DEF Next, allVars
  <2>. QED BY <2>1, <2>2, KrxStep DEF KrxInv
<1>. QED BY <1>1, <1>2, PTL DEF Spec, allVars

-----------------------------------------------------------------------------
(* The ledger of crawler rounds                                           *)

LedgerInstant == [w : Int, m : Int]

LedgerEntry ==
    [live : BOOLEAN, conn : {"unbound", "started", "init_failed"},
     round : Round \cup {None}, terminal : BOOLEAN, included : BOOLEAN,
     done : BOOLEAN, expired : BOOLEAN, retire : LedgerInstant]

LedgerBook ==
    [entry : [Inv -> LedgerEntry \cup {None}], owner : [Round -> Inv \cup {None}],
     end : Int, exact : Int]

LedgerType ==
    /\ mono \in Int /\ ahead \in Int
    /\ start \in [Inv -> LedgerInstant \cup {None}]
    /\ fin \in [Inv -> LedgerInstant \cup {None}]
    /\ book \in LedgerBook
    /\ admitted \in [Inv -> Nat]
    /\ merged \in [Inv -> [times : Nat, at : Int]]

\* What a book keeps of its records, before and after each part of a call: only a
\* finish is included, with its real instant; what was registered and is no longer
\* live lies before the exact cohorts; a round and its owner name each other.
Kept(b) ==
    /\ \A i \in Inv :
        /\ b.entry[i] # None => admitted[i] > 0
        /\ admitted[i] > 0 => start[i] # None
        /\ admitted[i] > 0 /\ start[i].w >= b.exact => Ledger!Live(b, i)
        /\ Ledger!Live(b, i) =>
              /\ b.entry[i].included => b.entry[i].done /\ Ledger!BucketEnd(i) > b.end
              /\ b.entry[i].done => fin[i] # None /\ b.entry[i].retire = Ledger!CloseOf(i)
    /\ \A r \in Round, i \in Inv :
        b.owner[r] = i <=> /\ b.entry[i] # None /\ b.entry[i].conn = "started"
                           /\ b.entry[i].round = r

\* What was counted is gone from the book, and was counted in its time.
LedgerCounts ==
    \A i \in Inv : merged[i].times > 0 =>
        /\ merged[i].times = 1 /\ merged[i].at >= Ledger!CloseOf(i).m
        /\ admitted[i] > 0 /\ fin[i] # None /\ ~Ledger!Live(book, i)

LedgerOnce == \A i \in Inv : admitted[i] <= 1

\* Finitely many instants were sampled.
LedgerBounded ==
    \E lo, hi \in Int : \A i \in Inv : /\ start[i] # None => start[i].w <= hi
                                       /\ fin[i] # None => fin[i].w >= lo

LedgerIInv == LedgerType /\ LedgerBounded /\ Kept(book) /\ LedgerCounts /\ LedgerOnce

-----------------------------------------------------------------------------
(* Extrema of sets of instants                                               *)

\* A set of integers bounded from below has a least member.
LEMMA LeastLemma ==
    ASSUME NEW S \in SUBSET Int, S # {}, NEW lo \in Int, \A x \in S : x >= lo
    PROVE  \E x \in S : \A y \in S : x <= y
<1>1. PICK R : R = OpToRel(<, Nat)
  OBVIOUS
<1>2. PICK T : T = {n \in Nat : n + lo \in S}
  OBVIOUS
<1>3. T \subseteq Nat /\ T # {}
  <2>1. PICK s \in S : TRUE
    OBVIOUS
  <2>2. s - lo \in Nat /\ (s - lo) + lo = s
    BY <2>1
  <2>. QED BY <1>2, <2>1, <2>2
<1>4. PICK n \in T : \A m \in T : ~(<<m, n>> \in R)
  BY <1>1, <1>3, NatLessThanWellFounded, WFMin, Zenon
<1>5. \A m \in T : n <= m
  <2>1. ASSUME NEW m \in T, m < n PROVE FALSE
    <3>1. <<m, n>> \in Nat \X Nat /\ <<m, n>>[1] = m /\ <<m, n>>[2] = n
      BY <1>3
    <3>2. <<m, n>> \in R
      BY <1>1, <2>1, <3>1 DEF OpToRel
    <3>. QED BY <1>4, <3>2
  <2>. QED BY <1>3, <2>1
<1>6. ASSUME NEW y \in S PROVE n + lo <= y
  <2>1. y - lo \in Nat /\ (y - lo) + lo = y
    OBVIOUS
  <2>2. n <= y - lo
    BY <1>2, <1>5, <2>1
  <2>. QED BY <1>3, <2>1, <2>2
<1>. QED BY <1>2, <1>6

\* A set of integers bounded from above has a greatest member.
LEMMA GreatestLemma ==
    ASSUME NEW S \in SUBSET Int, S # {}, NEW hi \in Int, \A x \in S : x <= hi
    PROVE  \E x \in S : \A y \in S : y <= x
<1>1. PICK T : T = {n \in Int : 0 - n \in S}
  OBVIOUS
<1>2. T \in SUBSET Int /\ T # {}
  <2>1. PICK s \in S : TRUE
    OBVIOUS
  <2>2. 0 - s \in Int /\ 0 - (0 - s) = s
    BY <2>1
  <2>. QED BY <1>1, <2>1, <2>2
<1>3. 0 - hi \in Int /\ \A x \in T : x >= 0 - hi
  BY <1>1
<1>4. PICK n \in T : \A m \in T : n <= m
  BY <1>2, <1>3, LeastLemma
<1>5. ASSUME NEW y \in S PROVE y <= 0 - n
  <2>1. 0 - y \in T
    BY <1>1
  <2>. QED BY <1>2, <1>4, <2>1
<1>. QED BY <1>1, <1>5


-----------------------------------------------------------------------------
(* What the parts of a call do to a book                                     *)

\* What live means for a record of a book.
LEMMA LedgerLive ==
    ASSUME NEW b \in LedgerBook, NEW i \in Inv
    PROVE  /\ Ledger!Live(b, i) <=> b.entry[i] # None /\ b.entry[i].live
           /\ b.entry[i] # None => b.entry[i] \in LedgerEntry
  BY DEF LedgerBook, Ledger!Live

TombOf(t, e) ==
    /\ t \in LedgerEntry /\ t # None /\ t.live = FALSE
    /\ t.conn = e.conn /\ t.round = e.round

\* A tomb keeps the record's connection and round.
LEMMA LedgerTombs ==
    ASSUME NEW e \in LedgerEntry, NEW r \in LedgerInstant, NEW t,
           t = Ledger!Tomb(e, r, FALSE) \/ t = Ledger!Tomb(e, r, TRUE)
    PROVE  TombOf(t, e)
<1>1. PICK t1 : t1 = [e EXCEPT !.live = FALSE]
  OBVIOUS
<1>2. t1 \in LedgerEntry /\ t1.live = FALSE /\ t1.conn = e.conn /\ t1.round = e.round
  BY <1>1 DEF LedgerEntry
<1>3. PICK t2 : t2 = [t1 EXCEPT !.included = FALSE]
  OBVIOUS
<1>4. t2 \in LedgerEntry /\ t2.live = FALSE /\ t2.conn = e.conn /\ t2.round = e.round
  BY <1>2, <1>3 DEF LedgerEntry
<1>5. PICK t3 : t3 = [t2 EXCEPT !.retire = r]
  OBVIOUS
<1>6. t3 \in LedgerEntry /\ t3.live = FALSE /\ t3.conn = e.conn /\ t3.round = e.round
  BY <1>4, <1>5 DEF LedgerEntry
<1>7. CASE t = Ledger!Tomb(e, r, FALSE)
  <2>1. t = [t3 EXCEPT !.expired = FALSE]
    BY <1>1, <1>3, <1>5, <1>7 DEF Ledger!Tomb, LedgerEntry
  <2>2. t \in LedgerEntry /\ t.live = FALSE /\ t.conn = e.conn /\ t.round = e.round
    BY <1>6, <2>1 DEF LedgerEntry
  <2>. QED BY <2>2, LedgerAssumption DEF LedgerEntry, LedgerInstant, TombOf
<1>8. CASE t = Ledger!Tomb(e, r, TRUE)
  <2>1. t = [t3 EXCEPT !.expired = TRUE]
    BY <1>1, <1>3, <1>5, <1>8 DEF Ledger!Tomb, LedgerEntry
  <2>2. t \in LedgerEntry /\ t.live = FALSE /\ t.conn = e.conn /\ t.round = e.round
    BY <1>6, <2>1 DEF LedgerEntry
  <2>. QED BY <2>2, LedgerAssumption DEF LedgerEntry, LedgerInstant, TombOf
<1>. QED BY <1>7, <1>8

\* The exact cohorts begin after every record that is retired.
LEMMA LedgerExact ==
    ASSUME LedgerType, LedgerBounded, NEW b \in LedgerBook, NEW S \in SUBSET Inv,
           \A i \in S : start[i] # None
    PROVE  /\ Ledger!Exact(b, S) \in Int /\ Ledger!Exact(b, S) >= b.exact
           /\ \A i \in S : Ledger!Exact(b, S) >= start[i].w + 1
<1>1. PICK hi \in Int : \A i \in Inv : start[i] # None => start[i].w <= hi
  BY DEF LedgerBounded
<1>2. PICK E : E = {start[i].w + 1 : i \in S} \cup {b.exact}
  OBVIOUS
<1>3. b.exact \in Int /\ \A i \in S : start[i].w \in Int
  BY DEF LedgerType, LedgerInstant, LedgerBook
<1>4. PICK top \in Int : top >= hi + 1 /\ top >= b.exact
  BY <1>3
<1>5. E \in SUBSET Int /\ E # {} /\ \A x \in E : x <= top
  BY <1>1, <1>2, <1>3, <1>4
<1>6. \E w \in E : \A v \in E : v <= w
  BY <1>5, GreatestLemma
<1>7. Ledger!Exact(b, S) \in E /\ \A v \in E : v <= Ledger!Exact(b, S)
  BY <1>2, <1>6 DEF Ledger!Exact
<1>. QED BY <1>2, <1>3, <1>5, <1>7

\* The book c is b without the live records of S, and as sound.
Follows(c, b, S) ==
    /\ c \in LedgerBook /\ Kept(c) /\ c.end = b.end
    /\ \A i \in Inv : Ledger!Live(c, i) <=> Ledger!Live(b, i) /\ i \notin S
    /\ \A i \in Inv \ S : c.entry[i] = b.entry[i]

\* Retiring live records leaves a sound book.
LEMMA LedgerRetires ==
    ASSUME LedgerType, LedgerBounded, NEW b \in LedgerBook, Kept(b),
           NEW S \in SUBSET Inv, \A i \in S : Ledger!Live(b, i),
           NEW retire, \A i \in S : retire[i] \in LedgerInstant, NEW c,
           c = Ledger!Retire(b, S, retire, FALSE) \/ c = Ledger!Retire(b, S, retire, TRUE)
    PROVE  Follows(c, b, S)
<1>1. \A i \in S : b.entry[i] \in LedgerEntry /\ admitted[i] > 0 /\ start[i] # None
  BY LedgerLive DEF Kept
<1>2. PICK ex : ex = Ledger!Exact(b, S)
  OBVIOUS
<1>3. /\ ex \in Int /\ ex >= b.exact /\ b.exact \in Int
      /\ \A i \in S : ex >= start[i].w + 1 /\ start[i].w \in Int
  BY <1>1, <1>2, LedgerExact DEF LedgerType, LedgerInstant, LedgerBook
<1>4. PICK en : /\ \/ en = [i \in Inv |-> IF i \in S THEN Ledger!Tomb(b.entry[i], retire[i], FALSE)
                                       ELSE b.entry[i]]
                   \/ en = [i \in Inv |-> IF i \in S THEN Ledger!Tomb(b.entry[i], retire[i], TRUE)
                                       ELSE b.entry[i]]
                /\ c = [[b EXCEPT !.entry = en] EXCEPT !.exact = ex]
  <2>1. CASE c = Ledger!Retire(b, S, retire, FALSE)
    BY <1>2, <2>1 DEF Ledger!Retire, LedgerBook
  <2>2. CASE c = Ledger!Retire(b, S, retire, TRUE)
    BY <1>2, <2>2 DEF Ledger!Retire, LedgerBook
  <2>. QED BY <2>1, <2>2
<1>6. \A i \in S : /\ en[i] \in LedgerEntry /\ en[i] # None /\ en[i].live = FALSE
                   /\ en[i].conn = b.entry[i].conn /\ en[i].round = b.entry[i].round
  <2>. TAKE i \in S
  <2>1. PICK e \in LedgerEntry : e = b.entry[i]
    BY <1>1
  <2>3. PICK r \in LedgerInstant : r = retire[i]
    OBVIOUS
  <2>2. PICK t : t = en[i]
    OBVIOUS
  <2>4. t = Ledger!Tomb(e, r, FALSE) \/ t = Ledger!Tomb(e, r, TRUE)
    BY <1>4, <2>1, <2>2, <2>3
  <2>5. TombOf(t, e)
    BY <2>4, LedgerTombs
  <2>. QED BY <2>1, <2>2, <2>5 DEF TombOf
<1>7. en \in [Inv -> LedgerEntry \cup {None}] /\ \A i \in Inv \ S : en[i] = b.entry[i]
  BY <1>4, <1>6 DEF LedgerBook
<1>8. /\ c \in LedgerBook /\ c.entry = en /\ c.exact = ex
      /\ c.end = b.end /\ c.owner = b.owner
  BY <1>3, <1>4, <1>7 DEF LedgerBook
<1>9. \A i \in Inv : Ledger!Live(c, i) <=> Ledger!Live(b, i) /\ i \notin S
  BY <1>6, <1>7, <1>8 DEF Ledger!Live
<1>10. ASSUME NEW i \in Inv, admitted[i] > 0, start[i].w >= c.exact
       PROVE  Ledger!Live(c, i)
  <2>1. start[i] # None /\ start[i].w \in Int
    BY <1>10 DEF Kept, LedgerType, LedgerInstant
  <2>2. i \notin S /\ start[i].w >= b.exact
    BY <1>3, <1>8, <1>10, <2>1
  <2>. QED BY <1>9, <1>10, <2>2 DEF Kept
<1>11. ASSUME NEW i \in Inv, Ledger!Live(c, i)
       PROVE  c.entry[i] = b.entry[i] /\ Ledger!Live(b, i)
  BY <1>7, <1>8, <1>9, <1>11
<1>12. ASSUME NEW r \in Round, NEW i \in Inv
       PROVE  c.owner[r] = i <=> /\ c.entry[i] # None /\ c.entry[i].conn = "started"
                                 /\ c.entry[i].round = r
  <2>1. CASE i \in S
    BY <1>1, <1>6, <1>8, <2>1, LedgerLive DEF Kept
  <2>2. CASE i \notin S
    BY <1>7, <1>8, <2>2 DEF Kept
  <2>. QED BY <2>1, <2>2
<1>13. ASSUME NEW i \in Inv
       PROVE  /\ c.entry[i] # None => admitted[i] > 0
              /\ admitted[i] > 0 => start[i] # None
  BY <1>1, <1>7, <1>8 DEF Kept
<1>14. Kept(c)
  BY <1>8, <1>10, <1>11, <1>12, <1>13 DEF Kept
<1>. QED BY <1>7, <1>8, <1>9, <1>14 DEF Follows

\* A record that has a finish, and where its minute and its grace end.
LEMMA LedgerFinished ==
    ASSUME LedgerType, NEW b \in LedgerBook, Kept(b), NEW i \in Inv,
           Ledger!Live(b, i), b.entry[i].done
    PROVE  /\ fin[i] # None /\ fin[i] \in LedgerInstant
           /\ Ledger!BucketEnd(i) \in Int /\ Ledger!BucketEnd(i) = fin[i].w + 1
           /\ Ledger!CloseOf(i) \in LedgerInstant
           /\ Ledger!CloseOf(i).w = Ledger!BucketEnd(i) + Close
           /\ b.entry[i].retire = Ledger!CloseOf(i)
<1>1. fin[i] # None /\ fin[i] \in LedgerInstant /\ b.entry[i].retire = Ledger!CloseOf(i)
  BY DEF Kept, LedgerType
<1>. QED BY <1>1, LedgerAssumption
         DEF LedgerInstant, Ledger!BucketEnd, Ledger!CloseOf, Ledger!After

\* The close never reaches a minute whose grace has not really passed.
LEMMA LedgerTarget ==
    ASSUME LedgerIInv
    PROVE  /\ Ledger!Target \in Int /\ mono + ahead - Close \in Int
           /\ Ledger!Target <= mono + ahead - Close
           /\ \A i \in Ledger!Finished :
                 Ledger!BucketEnd(i) <= mono + ahead - Close
                 /\ mono < book.entry[i].retire.m
                    => Ledger!Target <= Ledger!BucketEnd(i) - 1
<1>1. PICK lo \in Int : \A i \in Inv : fin[i] # None => fin[i].w >= lo
  BY DEF LedgerIInv, LedgerBounded
<1>2. PICK wall : wall = mono + ahead - Close
  OBVIOUS
<1>3. wall \in Int /\ Ledger!Receipt.w - Close = wall
  BY <1>2, LedgerAssumption DEF LedgerIInv, LedgerType, Ledger!Receipt
<1>4. PICK J : J = {j \in Ledger!Finished : /\ Ledger!BucketEnd(j) <= wall
                                            /\ mono < book.entry[j].retire.m}
  OBVIOUS
<1>5. PICK early : early = {Ledger!BucketEnd(i) - 1 : i \in J}
  OBVIOUS
<1>6. Ledger!Target = (IF early = {} THEN wall
                       ELSE CHOOSE t \in early : \A s \in early : t <= s)
  <2>. DEFINE K == {j \in Ledger!Finished : /\ Ledger!BucketEnd(j) <= Ledger!Receipt.w - Close
                                            /\ mono < book.entry[j].retire.m}
              W == {Ledger!BucketEnd(i) - 1 : i \in K}
  <2>1. W = early
    BY <1>3, <1>4, <1>5
  <2>2. Ledger!Target = (IF W = {} THEN Ledger!Receipt.w - Close
                         ELSE CHOOSE t \in W : \A s \in W : t <= s)
    BY Zenon DEF Ledger!Target
  <2>. HIDE DEF W
  <2>. QED BY <1>3, <2>1, <2>2
<1>7. \A j \in J : /\ Ledger!BucketEnd(j) \in Int /\ Ledger!BucketEnd(j) - 1 >= lo
                   /\ Ledger!BucketEnd(j) <= wall
  <2>. TAKE j \in J
  <2>1. j \in Inv /\ Ledger!Live(book, j) /\ book.entry[j].done
    BY <1>4 DEF Ledger!Finished
  <2>2. fin[j] # None /\ fin[j].w \in Int /\ Ledger!BucketEnd(j) = fin[j].w + 1
    BY <2>1, LedgerFinished DEF LedgerIInv, LedgerType, LedgerInstant
  <2>. QED BY <1>1, <1>4, <2>1, <2>2
<1>8. CASE early = {}
  <2>1. J = {}
    BY <1>5, <1>8
  <2>2. Ledger!Target = wall
    BY <1>6, <1>8
  <2>3. \A i \in Ledger!Finished :
           ~(Ledger!BucketEnd(i) <= wall /\ mono < book.entry[i].retire.m)
    BY <1>4, <2>1
  <2>. QED BY <1>2, <1>3, <2>2, <2>3
<1>9. CASE early # {}
  <2>1. early \in SUBSET Int /\ \A t \in early : t >= lo
    BY <1>5, <1>7
  <2>2. \E t \in early : \A s \in early : t <= s
    BY <1>9, <2>1, LeastLemma
  <2>3. Ledger!Target \in early /\ \A s \in early : Ledger!Target <= s
    BY <1>6, <1>9, <2>2
  <2>4. Ledger!Target \in Int /\ Ledger!Target <= wall
    BY <1>3, <1>5, <1>7, <2>3
  <2>5. \A j \in J : Ledger!Target <= Ledger!BucketEnd(j) - 1
    BY <1>5, <2>3
  <2>6. \A i \in Ledger!Finished :
           Ledger!BucketEnd(i) <= wall /\ mono < book.entry[i].retire.m => i \in J
    BY <1>4
  <2>. QED BY <1>2, <1>3, <2>4, <2>5, <2>6
<1>. QED BY <1>8, <1>9

\* What is retired by the passing of time keeps its instant.
LEMMA LedgerRetire ==
    ASSUME NEW b \in LedgerBook, NEW i \in Inv, Ledger!Live(b, i)
    PROVE  Ledger!Retires(b)[i] \in LedgerInstant
<1>1. b.entry[i] \in LedgerEntry
  BY LedgerLive
<1>. QED BY <1>1 DEF Ledger!Retires, LedgerEntry

\* A record that is due finished, and its minute and grace have passed.
LEMMA LedgerDue ==
    ASSUME LedgerIInv, NEW i \in Ledger!Due
    PROVE  /\ i \in Inv /\ Ledger!Live(book, i) /\ book.entry[i].done
           /\ book.end < Ledger!Target /\ Ledger!BucketEnd(i) <= Ledger!Target
           /\ fin[i] # None /\ Ledger!CloseOf(i).m \in Int /\ mono >= Ledger!CloseOf(i).m
<1>1. /\ i \in Ledger!Finished /\ book.end < Ledger!Target
      /\ Ledger!BucketEnd(i) <= Ledger!Target
  BY DEF Ledger!Due
<1>2. i \in Inv /\ Ledger!Live(book, i) /\ book.entry[i].done
  BY <1>1 DEF Ledger!Finished
<1>3. /\ fin[i] # None /\ Ledger!BucketEnd(i) \in Int
      /\ Ledger!CloseOf(i) \in LedgerInstant /\ book.entry[i].retire = Ledger!CloseOf(i)
  BY <1>2, LedgerFinished DEF LedgerIInv, LedgerType
<1>4. Ledger!CloseOf(i).m \in Int /\ mono \in Int
  BY <1>3 DEF LedgerInstant, LedgerIInv, LedgerType
<1>. QED BY <1>1, <1>2, <1>3, <1>4, LedgerTarget

\* Closing the minutes that are due leaves no live record in one of them.
LEMMA LedgerCloses ==
    ASSUME LedgerIInv, NEW c, c = Ledger!Closed
    PROVE  /\ c \in LedgerBook /\ Kept(c)
           /\ c.end >= book.end /\ c.end >= Ledger!Target
           /\ c.end = book.end \/ c.end = Ledger!Target
           /\ \A i \in Inv : Ledger!Live(c, i) =>
                 /\ Ledger!Live(book, i) /\ i \notin Ledger!Due
                 /\ c.entry[i] = book.entry[i]
<1>. DEFINE D == Ledger!Due
            T == Ledger!Target
<1>1. PICK a : a = Ledger!Retire(book, D, Ledger!Retires(book), FALSE)
  OBVIOUS
<1>2. LedgerType /\ LedgerBounded /\ book \in LedgerBook /\ Kept(book)
  BY DEF LedgerIInv, LedgerType
<1>3. D \in SUBSET Inv /\ \A i \in D : Ledger!Live(book, i)
  BY LedgerDue
<1>4. \A i \in D : Ledger!Retires(book)[i] \in LedgerInstant
  BY <1>2, <1>3, LedgerRetire
<1>5. Follows(a, book, D)
  <2>1. PICK retire : retire = Ledger!Retires(book)
    OBVIOUS
  <2>2. a = Ledger!Retire(book, D, retire, FALSE)
    BY <1>1, <2>1
  <2>3. \A i \in D : retire[i] \in LedgerInstant
    BY <1>4, <2>1
  <2>. HIDE DEF D
  <2>. QED BY <1>2, <1>3, <2>2, <2>3, LedgerRetires
<1>6. T \in Int /\ book.end \in Int
  BY <1>2, LedgerTarget DEF LedgerBook
<1>7. PICK e \in Int : /\ e = Ledger!Higher(a.end, T)
                       /\ e >= book.end /\ e >= T /\ (e = book.end \/ e = T)
  BY <1>5, <1>6 DEF Ledger!Higher, Follows
<1>8. c = [a EXCEPT !.end = e]
  BY <1>1, <1>5, <1>7 DEF Ledger!Closed, LedgerBook, Follows
<1>9. /\ c \in LedgerBook /\ c.end = e
      /\ c.entry = a.entry /\ c.exact = a.exact /\ c.owner = a.owner
  BY <1>5, <1>8 DEF LedgerBook, Follows
<1>10. \A i \in Inv : Ledger!Live(c, i) <=> Ledger!Live(a, i)
  BY <1>9 DEF Ledger!Live
<1>11. ASSUME NEW i \in Inv, Ledger!Live(c, i), c.entry[i].included
       PROVE  Ledger!BucketEnd(i) > c.end
  <2>1. /\ Ledger!Live(a, i) /\ Ledger!Live(book, i) /\ i \notin D
        /\ a.entry[i] = book.entry[i] /\ book.entry[i].included
    BY <1>5, <1>9, <1>10, <1>11 DEF Follows
  <2>2. book.entry[i].done /\ Ledger!BucketEnd(i) > book.end
    BY <1>2, <2>1 DEF Kept
  <2>3. Ledger!BucketEnd(i) \in Int
    BY <1>2, <2>1, <2>2, LedgerFinished
  <2>4. i \in Ledger!Finished
    BY <2>1, <2>2 DEF Ledger!Finished
  <2>5. ~(book.end < T) \/ Ledger!BucketEnd(i) > T
    BY <1>6, <2>1, <2>3, <2>4 DEF Ledger!Due
  <2>. QED BY <1>6, <1>7, <1>9, <2>2, <2>3, <2>5
<1>12. Kept(c)
  BY <1>5, <1>9, <1>10, <1>11 DEF Kept, Follows
<1>. QED BY <1>5, <1>7, <1>9, <1>10, <1>12 DEF Follows

\* The book c is b less some records, and as sound.
Thinner(c, b) ==
    /\ c \in LedgerBook /\ Kept(c) /\ c.end = b.end
    /\ \A i \in Inv : Ledger!Live(c, i) => /\ Ledger!Live(b, i)
                                           /\ c.entry[i] = b.entry[i]

\* Expiry takes live records out of the book and adds none.
LEMMA LedgerExpires ==
    ASSUME LedgerType, LedgerBounded, NEW b \in LedgerBook, Kept(b),
           NEW c, c = Ledger!Expired(b)
    PROVE  Thinner(c, b)
<1>1. PICK S \in SUBSET Inv :
          /\ \A i \in S : Ledger!Live(b, i)
          /\ c = Ledger!Retire(b, S, Ledger!Retires(b), TRUE)
  BY DEF Ledger!Expired
<1>2. PICK retire : retire = Ledger!Retires(b)
  OBVIOUS
<1>3. c = Ledger!Retire(b, S, retire, TRUE) /\ \A i \in S : retire[i] \in LedgerInstant
  BY <1>1, <1>2, LedgerRetire
<1>4. Follows(c, b, S)
  BY <1>1, <1>3, LedgerRetires
<1>. QED BY <1>4 DEF Follows, Thinner

\* Pruning drops tombs with their ownership and nothing else.
LEMMA LedgerPrunes ==
    ASSUME NEW b \in LedgerBook, Kept(b), NEW c, c = Ledger!Pruned(b)
    PROVE  Thinner(c, b)
<1>1. PICK S \in SUBSET Inv :
          /\ \A i \in S : b.entry[i] # None /\ ~Ledger!Live(b, i)
          /\ c = [b EXCEPT !.entry = [i \in Inv |-> IF i \in S THEN None ELSE @[i]],
                           !.owner = [r \in Round |-> IF @[r] \in S THEN None ELSE @[r]]]
  <2>. DEFINE S == {i \in Inv : /\ b.entry[i] # None /\ ~b.entry[i].live
                                /\ ~Ledger!Before(Ledger!Receipt,
                                                  Ledger!After(b.entry[i].retire, Late))}
  <2>1. S \in SUBSET Inv /\ \A i \in S : b.entry[i] # None /\ ~Ledger!Live(b, i)
    BY DEF Ledger!Live
  <2>2. c = [b EXCEPT !.entry = [i \in Inv |-> IF i \in S THEN None ELSE @[i]],
                      !.owner = [r \in Round |-> IF @[r] \in S THEN None ELSE @[r]]]
    BY Zenon DEF Ledger!Pruned
  <2>. HIDE DEF S
  <2>. QED BY <2>1, <2>2
<1>2. PICK en, ow :
          /\ en = [i \in Inv |-> IF i \in S THEN None ELSE b.entry[i]]
          /\ ow = [r \in Round |-> IF b.owner[r] \in S THEN None ELSE b.owner[r]]
  OBVIOUS
<1>3. c = [[b EXCEPT !.entry = en] EXCEPT !.owner = ow]
  BY <1>1, <1>2 DEF LedgerBook
<1>4. /\ en \in [Inv -> LedgerEntry \cup {None}] /\ ow \in [Round -> Inv \cup {None}]
      /\ \A i \in S : en[i] = None
      /\ \A i \in Inv \ S : en[i] = b.entry[i]
  BY <1>2 DEF LedgerBook
<1>5. /\ c \in LedgerBook /\ c.entry = en /\ c.owner = ow
      /\ c.end = b.end /\ c.exact = b.exact
  BY <1>3, <1>4 DEF LedgerBook
<1>6. \A i \in Inv : Ledger!Live(c, i) <=> Ledger!Live(b, i)
  BY <1>1, <1>4, <1>5 DEF Ledger!Live
<1>7. \A i \in Inv : Ledger!Live(c, i) => c.entry[i] = b.entry[i]
  BY <1>1, <1>4, <1>5, <1>6
<1>8. ASSUME NEW r \in Round, NEW i \in Inv
      PROVE  c.owner[r] = i <=> /\ c.entry[i] # None /\ c.entry[i].conn = "started"
                                /\ c.entry[i].round = r
  <2>1. b.owner[r] = i <=> /\ b.entry[i] # None /\ b.entry[i].conn = "started"
                           /\ b.entry[i].round = r
    BY DEF Kept
  <2>2. c.owner[r] = i <=> b.owner[r] = i /\ i \notin S
    BY <1>2, <1>5, LedgerAssumption
  <2>. QED BY <1>4, <1>5, <2>1, <2>2
<1>9. Kept(c)
  BY <1>4, <1>5, <1>6, <1>7, <1>8 DEF Kept
<1>. QED BY <1>5, <1>6, <1>7, <1>9 DEF Thinner

\* What time has done to the book when a call begins.
LEMMA LedgerAdvances ==
    ASSUME LedgerIInv, NEW c, c = Ledger!Advanced
    PROVE  /\ c \in LedgerBook /\ Kept(c)
           /\ c.end >= book.end /\ c.end >= Ledger!Target
           /\ c.end = book.end \/ c.end = Ledger!Target
           /\ \A i \in Inv : Ledger!Live(c, i) =>
                 /\ Ledger!Live(book, i) /\ i \notin Ledger!Due
                 /\ c.entry[i] = book.entry[i]
<1>1. PICK a : a = Ledger!Closed
  OBVIOUS
<1>2. PICK b : b = Ledger!Expired(a)
  OBVIOUS
<1>3. c = Ledger!Pruned(b)
  BY <1>1, <1>2 DEF Ledger!Advanced
<1>4. Thinner(b, a)
  BY <1>1, <1>2, LedgerCloses, LedgerExpires DEF LedgerIInv
<1>5. Thinner(c, b)
  BY <1>3, <1>4, LedgerPrunes DEF Thinner
<1>. QED BY <1>1, <1>4, <1>5, LedgerCloses DEF Thinner

\* A call changed records in ways that leave a sound book sound.
Continues(c, b) ==
    /\ c \in LedgerBook /\ Kept(c)
    /\ \A i \in Inv : Ledger!Live(c, i) => Ledger!Live(b, i)

\* A record keeps its round and its finish, and is included no more than before.
Softer(d, e) ==
    /\ d \in LedgerEntry /\ d # None /\ e # None
    /\ d.live <=> e.live
    /\ d.conn = "started" <=> e.conn = "started"
    /\ d.round = e.round /\ d.retire = e.retire
    /\ d.included => e.included
    /\ d.done <=> e.done

\* A book stays sound when records only lose their part in the counts.
LEMMA LedgerSoftens ==
    ASSUME NEW b \in LedgerBook, Kept(b), NEW en \in [Inv -> LedgerEntry \cup {None}],
           \A i \in Inv : en[i] = b.entry[i] \/ Softer(en[i], b.entry[i]),
           NEW c, c = [b EXCEPT !.entry = en]
    PROVE  Continues(c, b)
<1>1. /\ c \in LedgerBook /\ c.entry = en /\ c.owner = b.owner
      /\ c.end = b.end /\ c.exact = b.exact
  BY DEF LedgerBook
<1>2. ASSUME NEW i \in Inv PROVE Ledger!Live(c, i) <=> Ledger!Live(b, i)
  BY <1>1 DEF Ledger!Live, Softer
<1>3. ASSUME NEW i \in Inv, Ledger!Live(c, i)
      PROVE  /\ c.entry[i].included => c.entry[i].done /\ Ledger!BucketEnd(i) > c.end
             /\ c.entry[i].done => fin[i] # None /\ c.entry[i].retire = Ledger!CloseOf(i)
  <2>1. /\ b.entry[i].included => b.entry[i].done /\ Ledger!BucketEnd(i) > b.end
        /\ b.entry[i].done => fin[i] # None /\ b.entry[i].retire = Ledger!CloseOf(i)
    BY <1>2, <1>3 DEF Kept
  <2>. QED BY <1>1, <2>1 DEF Softer
<1>4. ASSUME NEW i \in Inv
      PROVE  /\ c.entry[i] # None => admitted[i] > 0
             /\ admitted[i] > 0 => start[i] # None
             /\ admitted[i] > 0 /\ start[i].w >= c.exact => Ledger!Live(c, i)
  BY <1>1, <1>2 DEF Kept, Softer
<1>5. ASSUME NEW r \in Round, NEW i \in Inv
      PROVE  c.owner[r] = i <=> /\ c.entry[i] # None /\ c.entry[i].conn = "started"
                                /\ c.entry[i].round = r
  BY <1>1 DEF Kept, Softer
<1>6. Kept(c)
  BY <1>3, <1>4, <1>5 DEF Kept
<1>. QED BY <1>1, <1>2, <1>6 DEF Continues

\* An isolated record loses its part in the counts.
LEMMA LedgerIsolated ==
    ASSUME NEW e \in LedgerEntry, NEW y \in BOOLEAN, NEW d,
           d = [[e EXCEPT !.included = FALSE] EXCEPT !.terminal = y]
    PROVE  Softer(d, e)
<1>1. e # None
  BY LedgerAssumption DEF LedgerEntry, LedgerInstant
<1>2. PICK d1 : d1 = [e EXCEPT !.included = FALSE]
  OBVIOUS
<1>3. /\ d1 \in LedgerEntry /\ d1.included = FALSE /\ d1.conn = e.conn
      /\ d1.round = e.round /\ d1.retire = e.retire
      /\ (d1.live <=> e.live) /\ (d1.done <=> e.done)
  BY <1>2 DEF LedgerEntry
<1>4. d = [d1 EXCEPT !.terminal = y]
  BY <1>2
<1>5. /\ d \in LedgerEntry /\ d.included = FALSE /\ d.conn = e.conn
      /\ d.round = e.round /\ d.retire = e.retire
      /\ (d.live <=> e.live) /\ (d.done <=> e.done)
  BY <1>3, <1>4 DEF LedgerEntry
<1>6. d # None
  BY <1>5, LedgerAssumption DEF LedgerEntry, LedgerInstant
<1>. QED BY <1>1, <1>5, <1>6 DEF Softer

\* Isolating records leaves a sound book.
LEMMA LedgerIsolates ==
    ASSUME NEW b \in LedgerBook, Kept(b), NEW S, NEW terminal \in BOOLEAN,
           NEW c, c = Ledger!Isolate(b, S, terminal)
    PROVE  Continues(c, b)
<1>1. PICK en : /\ c = [b EXCEPT !.entry = en] /\ en = [i \in Inv |-> en[i]]
                /\ \A i \in Inv :
                      IF i \in S /\ Ledger!Live(b, i)
                      THEN \E y \in BOOLEAN :
                              en[i] = [[b.entry[i] EXCEPT !.included = FALSE] EXCEPT !.terminal = y]
                      ELSE en[i] = b.entry[i]
  <2>1. PICK en : en = c.entry
    OBVIOUS
  <2>2. c = [b EXCEPT !.entry = en] /\ en = [i \in Inv |-> en[i]]
    BY <2>1 DEF Ledger!Isolate, LedgerBook
  <2>3. ASSUME NEW i \in Inv, ~(i \in S /\ Ledger!Live(b, i))
        PROVE  en[i] = b.entry[i]
    BY <2>1, <2>3 DEF Ledger!Isolate, LedgerBook
  <2>4. ASSUME NEW i \in Inv, i \in S /\ Ledger!Live(b, i)
        PROVE  \E y \in BOOLEAN :
                  en[i] = [[b.entry[i] EXCEPT !.included = FALSE] EXCEPT !.terminal = y]
    <3>1. PICK e \in LedgerEntry : e = b.entry[i]
      BY <2>4, LedgerLive
    <3>2. PICK y : y = (e.terminal \/ terminal)
      OBVIOUS
    <3>3. y \in BOOLEAN
      BY <3>2
    <3>4. en[i] = [e EXCEPT !.included = FALSE, !.terminal = y]
      BY <2>1, <2>4, <3>1, <3>2 DEF Ledger!Isolate, LedgerBook, LedgerEntry
    <3>5. en[i] = [[e EXCEPT !.included = FALSE] EXCEPT !.terminal = y]
      BY <3>4 DEF LedgerEntry
    <3>. QED BY <3>1, <3>3, <3>5
  <2>. QED BY <2>2, <2>3, <2>4
<1>2. ASSUME NEW i \in Inv PROVE en[i] = b.entry[i] \/ Softer(en[i], b.entry[i])
  <2>1. CASE i \in S /\ Ledger!Live(b, i)
    <3>1. PICK e \in LedgerEntry : e = b.entry[i]
      BY <2>1, LedgerLive
    <3>2. PICK d : d = en[i]
      OBVIOUS
    <3>3. PICK y \in BOOLEAN : d = [[e EXCEPT !.included = FALSE] EXCEPT !.terminal = y]
      BY <1>1, <2>1, <3>1, <3>2
    <3>. QED BY <3>1, <3>2, <3>3, LedgerIsolated
  <2>2. CASE ~(i \in S /\ Ledger!Live(b, i))
    BY <1>1, <2>2
  <2>. QED BY <2>1, <2>2
<1>3. en \in [Inv -> LedgerEntry \cup {None}]
  <2>1. \A i \in Inv : en[i] \in LedgerEntry \cup {None}
    BY <1>2 DEF Softer, LedgerBook
  <2>. QED BY <1>1, <2>1
<1>. QED BY <1>1, <1>2, <1>3, LedgerSoftens

\* A failed initialisation is bound to no round.
LEMMA LedgerInitFails ==
    ASSUME NEW b \in LedgerBook, Kept(b), NEW i \in Inv, Ledger!Live(b, i),
           b.entry[i].conn # "started",
           NEW c, c = [b EXCEPT !.entry[i].conn = "init_failed"]
    PROVE  Continues(c, b)
<1>1. PICK e \in LedgerEntry : e = b.entry[i] /\ e # None
  BY LedgerLive
<1>2. PICK d : d = [e EXCEPT !.conn = "init_failed"]
  OBVIOUS
<1>3. PICK en : en = [b.entry EXCEPT ![i] = d]
  OBVIOUS
<1>4. c = [b EXCEPT !.entry = en]
  BY <1>1, <1>2, <1>3 DEF LedgerBook
<1>5. d \in LedgerEntry
  BY <1>2 DEF LedgerEntry
<1>6. /\ d.conn = "init_failed" /\ d.round = e.round /\ d.retire = e.retire
      /\ (d.live <=> e.live) /\ (d.included <=> e.included) /\ (d.done <=> e.done)
  BY <1>2 DEF LedgerEntry
<1>7. Softer(d, e)
  BY <1>1, <1>5, <1>6, LedgerAssumption DEF Softer, LedgerEntry, LedgerInstant
<1>8. en \in [Inv -> LedgerEntry \cup {None}]
  BY <1>3, <1>5 DEF LedgerBook
<1>9. \A j \in Inv : en[j] = b.entry[j] \/ Softer(en[j], b.entry[j])
  BY <1>1, <1>3, <1>7 DEF LedgerBook
<1>. QED BY <1>4, <1>8, <1>9, LedgerSoftens

\* A round is claimed by one record.
LEMMA LedgerLinks ==
    ASSUME NEW b \in LedgerBook, Kept(b), NEW i \in Inv, NEW r \in Round,
           Ledger!Live(b, i), b.owner[r] \in {None, i}, b.entry[i].conn # "init_failed",
           ~(b.entry[i].conn = "started" /\ b.entry[i].round # r),
           NEW c, c = [b EXCEPT !.owner[r] = i, !.entry[i].conn = "started",
                                !.entry[i].round = r]
    PROVE  Continues(c, b)
<1>1. PICK e \in LedgerEntry : e = b.entry[i] /\ e # None /\ e.live
  BY LedgerLive
<1>2. PICK d : d = [[e EXCEPT !.conn = "started"] EXCEPT !.round = r]
  OBVIOUS
<1>3. PICK en, ow : en = [b.entry EXCEPT ![i] = d] /\ ow = [b.owner EXCEPT ![r] = i]
  OBVIOUS
<1>4. c = [[b EXCEPT !.owner = ow] EXCEPT !.entry = en]
  BY <1>1, <1>2, <1>3 DEF LedgerBook
<1>5. PICK d1 : d1 = [e EXCEPT !.conn = "started"]
  OBVIOUS
<1>6. /\ d1 \in LedgerEntry /\ d1.conn = "started" /\ d1.retire = e.retire
      /\ (d1.live <=> e.live) /\ (d1.included <=> e.included) /\ (d1.done <=> e.done)
  BY <1>5 DEF LedgerEntry
<1>7. d = [d1 EXCEPT !.round = r]
  BY <1>2, <1>5
<1>8. d \in LedgerEntry
  BY <1>6, <1>7 DEF LedgerEntry
<1>9. /\ d.conn = "started" /\ d.round = r /\ d.retire = e.retire
      /\ (d.live <=> e.live) /\ (d.included <=> e.included) /\ (d.done <=> e.done)
  BY <1>6, <1>7 DEF LedgerEntry
<1>10. d # None
  BY <1>8, LedgerAssumption DEF LedgerEntry, LedgerInstant
<1>11. en \in [Inv -> LedgerEntry \cup {None}] /\ ow \in [Round -> Inv \cup {None}]
  BY <1>3, <1>8 DEF LedgerBook
<1>12. /\ c \in LedgerBook /\ c.entry = en /\ c.owner = ow
       /\ c.end = b.end /\ c.exact = b.exact
  BY <1>4, <1>11 DEF LedgerBook
<1>13. /\ c.entry[i] = d
       /\ \A j \in Inv \ {i} : c.entry[j] = b.entry[j]
       /\ c.owner[r] = i
       /\ \A q \in Round \ {r} : c.owner[q] = b.owner[q]
  BY <1>3, <1>12 DEF LedgerBook
<1>14. \A j \in Inv : Ledger!Live(c, j) <=> Ledger!Live(b, j)
  BY <1>1, <1>9, <1>10, <1>13 DEF Ledger!Live
<1>15. ASSUME NEW q \in Round, NEW j \in Inv
       PROVE  c.owner[q] = j <=> /\ c.entry[j] # None /\ c.entry[j].conn = "started"
                                 /\ c.entry[j].round = q
  <2>1. b.owner[q] = j <=> /\ b.entry[j] # None /\ b.entry[j].conn = "started"
                           /\ b.entry[j].round = q
    BY DEF Kept
  <2>2. CASE j = i
    BY <1>1, <1>9, <1>10, <1>13, <2>1, <2>2
  <2>3. CASE j # i /\ q = r
    BY <1>13, <2>1, <2>3, LedgerAssumption
  <2>4. CASE j # i /\ q # r
    BY <1>13, <2>1, <2>4
  <2>. QED BY <2>2, <2>3, <2>4
<1>16. ASSUME NEW j \in Inv
       PROVE  /\ c.entry[j] # None => admitted[j] > 0
              /\ admitted[j] > 0 => start[j] # None
              /\ admitted[j] > 0 /\ start[j].w >= c.exact => Ledger!Live(c, j)
  BY <1>1, <1>12, <1>13, <1>14 DEF Kept
<1>17. ASSUME NEW j \in Inv, Ledger!Live(c, j)
       PROVE  /\ c.entry[j].included => c.entry[j].done /\ Ledger!BucketEnd(j) > c.end
              /\ c.entry[j].done => fin[j] # None /\ c.entry[j].retire = Ledger!CloseOf(j)
  <2>1. /\ b.entry[j].included => b.entry[j].done /\ Ledger!BucketEnd(j) > b.end
        /\ b.entry[j].done => fin[j] # None /\ b.entry[j].retire = Ledger!CloseOf(j)
    BY <1>14, <1>17 DEF Kept
  <2>. QED BY <1>1, <1>9, <1>12, <1>13, <2>1
<1>18. Kept(c)
  BY <1>15, <1>16, <1>17 DEF Kept
<1>. QED BY <1>12, <1>14, <1>18 DEF Continues

\* One live record is replaced by another of the same round.
LEMMA LedgerReplaces ==
    ASSUME NEW b \in LedgerBook, Kept(b), NEW i \in Inv, Ledger!Live(b, i),
           NEW d \in LedgerEntry, d.live, d.conn = b.entry[i].conn,
           d.round = b.entry[i].round,
           d.included => d.done /\ Ledger!BucketEnd(i) > b.end,
           d.done => fin[i] # None /\ d.retire = Ledger!CloseOf(i),
           NEW c, c = [b EXCEPT !.entry = [b.entry EXCEPT ![i] = d]]
    PROVE  Continues(c, b) /\ c.end = b.end /\ c.entry[i] = d
<1>1. /\ c \in LedgerBook /\ c.owner = b.owner /\ c.end = b.end /\ c.exact = b.exact
      /\ c.entry[i] = d /\ \A j \in Inv \ {i} : c.entry[j] = b.entry[j]
  BY DEF LedgerBook
<1>2. d # None /\ b.entry[i] # None
  BY LedgerLive, LedgerAssumption DEF LedgerEntry, LedgerInstant
<1>3. \A j \in Inv : Ledger!Live(c, j) <=> Ledger!Live(b, j)
  BY <1>1, <1>2 DEF Ledger!Live
<1>4. ASSUME NEW j \in Inv, Ledger!Live(c, j)
      PROVE  /\ c.entry[j].included => c.entry[j].done /\ Ledger!BucketEnd(j) > c.end
             /\ c.entry[j].done => fin[j] # None /\ c.entry[j].retire = Ledger!CloseOf(j)
  <2>1. CASE j = i
    BY <1>1, <2>1
  <2>2. CASE j # i
    BY <1>1, <1>3, <1>4, <2>2 DEF Kept
  <2>. QED BY <2>1, <2>2
<1>5. ASSUME NEW q \in Round, NEW j \in Inv
      PROVE  c.owner[q] = j <=> /\ c.entry[j] # None /\ c.entry[j].conn = "started"
                                /\ c.entry[j].round = q
  BY <1>1, <1>2 DEF Kept
<1>6. ASSUME NEW j \in Inv
      PROVE  /\ c.entry[j] # None => admitted[j] > 0
             /\ admitted[j] > 0 => start[j] # None
             /\ admitted[j] > 0 /\ start[j].w >= c.exact => Ledger!Live(c, j)
  BY <1>1, <1>2, <1>3 DEF Kept
<1>7. Kept(c)
  BY <1>4, <1>5, <1>6 DEF Kept
<1>. QED BY <1>1, <1>3, <1>7 DEF Continues

\* A first finish is included in a minute that is still open, or kept as a tomb.
LEMMA LedgerFinishes ==
    ASSUME LedgerType, LedgerBounded, NEW b \in LedgerBook, Kept(b), NEW i \in Inv,
           Ledger!Live(b, i), ~b.entry[i].done, fin[i] # None,
           Ledger!Receipt.w < Ledger!CloseOf(i).w => Ledger!BucketEnd(i) > b.end,
           NEW fits \in BOOLEAN, NEW c, c = Ledger!FirstFinish(b, i, fits)
    PROVE  Continues(c, b)
<1>1. PICK e \in LedgerEntry : e = b.entry[i] /\ e # None /\ e.live
  BY LedgerLive
<1>2. /\ Ledger!CloseOf(i) \in LedgerInstant /\ Ledger!Receipt \in LedgerInstant
  <2>1. fin[i] \in LedgerInstant
    BY DEF LedgerType
  <2>2. Ledger!CloseOf(i) \in LedgerInstant
    BY <2>1, LedgerAssumption DEF LedgerInstant, Ledger!CloseOf, Ledger!After
  <2>3. Ledger!Receipt \in LedgerInstant
    BY DEF LedgerType, LedgerInstant, Ledger!Receipt
  <2>. QED BY <2>2, <2>3
<1>3. PICK close \in LedgerInstant : close = Ledger!CloseOf(i)
  BY <1>2
<1>4. PICK d1 : d1 = [e EXCEPT !.done = TRUE]
  OBVIOUS
<1>5. /\ d1 \in LedgerEntry /\ d1.done = TRUE /\ d1.conn = e.conn /\ d1.round = e.round
      /\ (d1.live <=> e.live) /\ (d1.included <=> e.included)
  BY <1>4 DEF LedgerEntry
<1>6. PICK d : d = [d1 EXCEPT !.retire = close]
  OBVIOUS
<1>7. /\ d \in LedgerEntry /\ d.done = TRUE /\ d.conn = e.conn /\ d.round = e.round
      /\ d.retire = close /\ (d.live <=> e.live) /\ (d.included <=> e.included)
  BY <1>5, <1>6 DEF LedgerEntry
<1>8. ~e.included
  BY <1>1 DEF Kept
<1>9. PICK D : D = [b EXCEPT !.entry[i].done = TRUE, !.entry[i].retire = Ledger!CloseOf(i)]
  OBVIOUS
<1>10. D = [b EXCEPT !.entry = [b.entry EXCEPT ![i] = d]]
  BY <1>1, <1>3, <1>4, <1>6, <1>9 DEF LedgerBook
<1>11. Continues(D, b) /\ D.end = b.end /\ D.entry[i] = d
  BY <1>1, <1>3, <1>7, <1>8, <1>10, LedgerReplaces
<1>12. CASE Ledger!Receipt.w >= Ledger!CloseOf(i).w
  <2>1. PICK late : late = [w |-> Ledger!Higher(Ledger!CloseOf(i).w, Ledger!Receipt.w),
                            m |-> Ledger!Higher(Ledger!CloseOf(i).m, Ledger!Receipt.m)]
    OBVIOUS
  <2>2. late \in LedgerInstant
    BY <1>2, <2>1 DEF LedgerInstant, Ledger!Higher
  <2>3. PICK retire : retire = [j \in Inv |-> late]
    OBVIOUS
  <2>4. c = Ledger!Retire(D, {i}, retire, FALSE)
    BY <1>9, <1>12, <2>1, <2>3, Zenon DEF Ledger!FirstFinish
  <2>5. D \in LedgerBook /\ Kept(D)
    BY <1>11 DEF Continues
  <2>6. \A j \in {i} : Ledger!Live(D, j) /\ retire[j] \in LedgerInstant
    <3>1. Ledger!Live(D, i)
      BY <1>1, <1>7, <1>11, <2>5, LedgerAssumption, LedgerLive DEF LedgerEntry, LedgerInstant
    <3>. QED BY <2>2, <2>3, <3>1
  <2>7. Follows(c, D, {i})
    <3>1. {i} \in SUBSET Inv
      OBVIOUS
    <3>. QED BY <2>4, <2>5, <2>6, <3>1, LedgerRetires
  <2>. QED BY <1>11, <2>7 DEF Follows, Continues
<1>13. CASE ~(Ledger!Receipt.w >= Ledger!CloseOf(i).w)
  <2>1. c = [D EXCEPT !.entry[i].included = fits]
    BY <1>9, <1>13, Zenon DEF Ledger!FirstFinish
  <2>2. PICK g : g = [d EXCEPT !.included = fits]
    OBVIOUS
  <2>3. /\ g \in LedgerEntry /\ g.done = TRUE /\ g.conn = e.conn /\ g.round = e.round
        /\ g.retire = close /\ (g.live <=> e.live)
    BY <1>7, <2>2 DEF LedgerEntry
  <2>4. c = [D EXCEPT !.entry = [D.entry EXCEPT ![i] = g]]
    BY <1>11, <2>1, <2>2 DEF Continues, LedgerBook
  <2>5. Ledger!BucketEnd(i) > b.end
    BY <1>2, <1>13 DEF LedgerInstant
  <2>6. D \in LedgerBook /\ Kept(D)
    BY <1>11 DEF Continues
  <2>7. Ledger!Live(D, i)
    BY <1>1, <1>7, <1>11, <2>6, LedgerAssumption, LedgerLive DEF LedgerEntry, LedgerInstant
  <2>8. Continues(c, D)
    BY <1>1, <1>3, <1>7, <1>11, <2>3, <2>4, <2>5, <2>6, <2>7, LedgerReplaces
  <2>. QED BY <1>11, <2>8 DEF Continues
<1>. QED BY <1>12, <1>13

\* A finish report leaves a sound book.
LEMMA LedgerConcludes ==
    ASSUME LedgerIInv, NEW b, b = Ledger!Advanced, NEW i \in Inv, NEW r \in Round,
           NEW what \in Ledger!Report, fin[i] # None, Ledger!Live(b, i),
           Ledger!Verified(i, r), NEW c, c = Ledger!Concluded(b, i, r, what)
    PROVE  Continues(c, b)
<1>1. /\ b \in LedgerBook /\ Kept(b) /\ b.entry[i] \in LedgerEntry
      /\ b.end = book.end \/ b.end = Ledger!Target
      /\ Ledger!Live(book, i) /\ b.entry[i] = book.entry[i]
  BY LedgerAdvances, LedgerLive
<1>2. Continues(b, b)
  BY <1>1 DEF Continues
<1>3. PICK e : e = b.entry[i]
  OBVIOUS
<1>4. \/ \E S : c = Ledger!Isolate(b, S, TRUE) \/ c = Ledger!Isolate(b, S, FALSE)
      \/ c = b
      \/ /\ e.conn = "started" /\ e.round = r /\ ~e.done
         /\ ~Ledger!Before(fin[i], start[i]) /\ ~Ledger!Before(Ledger!Receipt, fin[i])
         /\ c = Ledger!FirstFinish(b, i, what # "large")
  BY <1>1, <1>3 DEF Ledger!Concluded, LedgerEntry
<1>5. CASE \E S : c = Ledger!Isolate(b, S, TRUE) \/ c = Ledger!Isolate(b, S, FALSE)
  BY <1>1, <1>5, LedgerIsolates
<1>6. CASE /\ e.conn = "started" /\ e.round = r /\ ~e.done
           /\ ~Ledger!Before(fin[i], start[i]) /\ ~Ledger!Before(Ledger!Receipt, fin[i])
           /\ c = Ledger!FirstFinish(b, i, what # "large")
  <2>1. ~(Ledger!BucketEnd(i) <= book.end /\ Ledger!Receipt.w < Ledger!CloseOf(i).w)
    BY <1>1, <1>3, <1>6 DEF Ledger!Verified
  <2>2. /\ fin[i].w \in Int /\ Ledger!BucketEnd(i) = fin[i].w + 1
        /\ Ledger!CloseOf(i).w = fin[i].w + 1 + Close
        /\ Ledger!Receipt.w = mono + ahead /\ mono \in Int /\ ahead \in Int
        /\ book.end \in Int
    <3>1. fin[i] \in LedgerInstant
      BY DEF LedgerIInv, LedgerType
    <3>2. Ledger!CloseOf(i).w = fin[i].w + (1 + Close)
      BY DEF Ledger!CloseOf, Ledger!After
    <3>. QED BY <3>1, <3>2, LedgerAssumption
         DEF LedgerInstant, Ledger!BucketEnd, Ledger!Receipt, LedgerIInv, LedgerType,
             LedgerBook
  <2>3. Ledger!Receipt.w < Ledger!CloseOf(i).w => Ledger!BucketEnd(i) > b.end
    BY <1>1, <2>1, <2>2, LedgerTarget, LedgerAssumption
  <2>4. PICK fits \in BOOLEAN : fits = (what # "large")
    OBVIOUS
  <2>5. c = Ledger!FirstFinish(b, i, fits)
    BY <1>6, <2>4
  <2>6. ~b.entry[i].done
    BY <1>3, <1>6
  <2>. QED BY <1>1, <2>3, <2>5, <2>6, LedgerFinishes DEF LedgerIInv
<1>. QED BY <1>2, <1>4, <1>5, <1>6

\* A registration is a new record of an invocation that was never admitted; any other
\* call leaves a sound book.
LEMMA LedgerCalls ==
    ASSUME LedgerIInv, Ledger!Calls, NEW b, b = Ledger!Advanced
    PROVE  \/ Continues(book', b) /\ admitted' = admitted
           \/ \E i \in Inv : /\ Ledger!Admits(b, i)
                             /\ book' = [b EXCEPT !.entry[i] = Ledger!NewRecord(i)]
                             /\ admitted' = [admitted EXCEPT ![i] = @ + 1]
<1>1. /\ b \in LedgerBook /\ Kept(b) /\ Continues(b, b)
      /\ \A i \in Inv : Ledger!Live(b, i) => b.entry[i] \in LedgerEntry
  BY LedgerAdvances, LedgerLive DEF Continues
<1>2. \/ Ledger!Consult(b)
      \/ \E i \in Inv :
            \/ Ledger!Register(b, i) \/ Ledger!InitFails(b, i)
            \/ \E r \in Round, good \in BOOLEAN : Ledger!LinkRound(b, i, r, good)
            \/ \E r \in Round, what \in Ledger!Report : Ledger!Finish(b, i, r, what)
  BY DEF Ledger!Calls
<1>3. CASE Ledger!Consult(b)
  BY <1>1, <1>3 DEF Ledger!Consult
<1>4. ASSUME NEW i \in Inv, Ledger!Register(b, i)
      PROVE  \/ Continues(book', b) /\ admitted' = admitted
             \/ /\ Ledger!Admits(b, i)
                /\ book' = [b EXCEPT !.entry[i] = Ledger!NewRecord(i)]
                /\ admitted' = [admitted EXCEPT ![i] = @ + 1]
  <2>1. CASE book' = Ledger!Isolate(b, {i}, TRUE) /\ admitted' = admitted
    <3>1. PICK c : c = book'
      OBVIOUS
    <3>. QED BY <1>1, <2>1, <3>1, LedgerIsolates
  <2>. QED BY <1>1, <1>4, <2>1 DEF Ledger!Register
<1>5. ASSUME NEW i \in Inv, Ledger!InitFails(b, i)
      PROVE  Continues(book', b) /\ admitted' = admitted
  <2>1. Ledger!Live(b, i) /\ admitted' = admitted
    BY <1>5 DEF Ledger!InitFails
  <2>2. PICK c : c = book'
    OBVIOUS
  <2>3. CASE b.entry[i].conn = "started"
    <3>1. c = Ledger!Isolate(b, {i}, TRUE)
      BY <1>5, <2>2, <2>3 DEF Ledger!InitFails
    <3>. QED BY <1>1, <2>1, <2>2, <3>1, LedgerIsolates
  <2>4. CASE b.entry[i].conn # "started"
    <3>1. c = [b EXCEPT !.entry[i].conn = "init_failed"]
      BY <1>5, <2>2, <2>4 DEF Ledger!InitFails
    <3>. QED BY <1>1, <2>1, <2>2, <2>4, <3>1, LedgerInitFails
  <2>. QED BY <2>3, <2>4
<1>6. ASSUME NEW i \in Inv, NEW r \in Round, NEW good \in BOOLEAN,
             Ledger!LinkRound(b, i, r, good)
      PROVE  Continues(book', b) /\ admitted' = admitted
  <2>1. Ledger!Live(b, i) /\ admitted' = admitted
    BY <1>6 DEF Ledger!LinkRound
  <2>2. PICK c : c = book'
    OBVIOUS
  <2>3. \/ \E S : c = Ledger!Isolate(b, S, TRUE) \/ c = Ledger!Isolate(b, S, FALSE)
        \/ /\ b.owner[r] \in {None, i} /\ b.entry[i].conn # "init_failed"
           /\ ~(b.entry[i].conn = "started" /\ b.entry[i].round # r)
           /\ c = [b EXCEPT !.owner[r] = i, !.entry[i].conn = "started",
                            !.entry[i].round = r]
    BY <1>6, <2>2, Zenon DEF Ledger!LinkRound
  <2>4. CASE \E S : c = Ledger!Isolate(b, S, TRUE) \/ c = Ledger!Isolate(b, S, FALSE)
    BY <1>1, <2>1, <2>2, <2>4, LedgerIsolates
  <2>. QED BY <1>1, <2>1, <2>2, <2>3, <2>4, LedgerLinks
<1>7. ASSUME NEW i \in Inv, NEW r \in Round, NEW what \in Ledger!Report,
             Ledger!Finish(b, i, r, what)
      PROVE  Continues(book', b) /\ admitted' = admitted
  <2>1. PICK c : c = Ledger!Concluded(b, i, r, what)
    OBVIOUS
  <2>2. /\ fin[i] # None /\ Ledger!Live(b, i) /\ Ledger!Verified(i, r)
        /\ book' = c /\ admitted' = admitted
    BY <1>7, <2>1, Zenon DEF Ledger!Finish
  <2>. QED BY <2>1, <2>2, LedgerConcludes
<1>. QED BY <1>2, <1>3, <1>4, <1>5, <1>6, <1>7

\* What has been counted once a call was accepted.
LEMMA LedgerAccepts ==
    ASSUME LedgerIInv, Ledger!Accept, NEW b, b = Ledger!Advanced
    PROVE  /\ merged' \in [Inv -> [times : Nat, at : Int]]
           /\ \A i \in Inv : merged'[i].times > 0 =>
                 /\ merged'[i].times = 1 /\ merged'[i].at >= Ledger!CloseOf(i).m
                 /\ admitted[i] > 0 /\ fin[i] # None /\ ~Ledger!Live(b, i)
<1>. DEFINE N(i) == [times |-> merged[i].times + 1,
                     at |-> IF merged[i].times = 0 THEN mono ELSE merged[i].at]
<1>1. PICK S : S = {i \in Ledger!Due : book.entry[i].included}
  OBVIOUS
<1>2. merged' = [i \in Inv |-> IF i \notin S THEN merged[i] ELSE N(i)]
  BY <1>1, Zenon DEF Ledger!Accept
<1>3. /\ merged \in [Inv -> [times : Nat, at : Int]] /\ mono \in Int
      /\ Kept(book) /\ book \in LedgerBook
  BY DEF LedgerIInv, LedgerType
<1>4. \A i \in Inv : N(i) \in [times : Nat, at : Int]
  BY <1>3
<1>5. merged' \in [Inv -> [times : Nat, at : Int]]
  BY <1>2, <1>3, <1>4
<1>6. ASSUME NEW i \in Inv, merged'[i].times > 0
      PROVE  /\ merged'[i].times = 1 /\ merged'[i].at >= Ledger!CloseOf(i).m
             /\ admitted[i] > 0 /\ fin[i] # None /\ ~Ledger!Live(b, i)
  <2>1. CASE i \in S
    <3>1. /\ i \in Ledger!Due /\ Ledger!Live(book, i) /\ fin[i] # None
          /\ mono >= Ledger!CloseOf(i).m
      BY <1>1, <2>1, LedgerDue
    <3>2. merged[i].times = 0
      BY <1>3, <3>1 DEF LedgerIInv, LedgerCounts
    <3>3. merged'[i].times = 1 /\ merged'[i].at = mono
      BY <1>2, <2>1, <3>2
    <3>4. admitted[i] > 0 /\ ~Ledger!Live(b, i)
      BY <1>3, <3>1, LedgerAdvances, LedgerLive DEF Kept
    <3>. QED BY <3>1, <3>3, <3>4
  <2>2. CASE i \notin S
    <3>1. merged'[i] = merged[i]
      BY <1>2, <2>2
    <3>. QED BY <1>6, <3>1, LedgerAdvances DEF LedgerIInv, LedgerCounts
  <2>. QED BY <2>1, <2>2
<1>. QED BY <1>5, <1>6

\* A registration adds one record, of an invocation not registered before.
LEMMA LedgerRegisters ==
    ASSUME LedgerType, NEW b \in LedgerBook, Kept(b), NEW i \in Inv,
           Ledger!Admits(b, i), UNCHANGED <<start, fin>>,
           book' = [b EXCEPT !.entry[i] = Ledger!NewRecord(i)],
           admitted' = [admitted EXCEPT ![i] = @ + 1]
    PROVE  /\ book' \in LedgerBook /\ Kept(book)'
           /\ admitted[i] = 0 /\ admitted' \in [Inv -> Nat]
           /\ admitted'[i] = 1 /\ \A j \in Inv \ {i} : admitted'[j] = admitted[j]
           /\ \A j \in Inv \ {i} : Ledger!Live(book, j)' <=> Ledger!Live(b, j)
<1>1. b.entry[i] = None /\ start[i] # None /\ start[i].w >= b.exact
  BY DEF Ledger!Admits
<1>2. admitted \in [Inv -> Nat] /\ start[i] \in LedgerInstant
  BY <1>1 DEF LedgerType
<1>3. admitted[i] = 0
  BY <1>1, <1>2 DEF Kept, Ledger!Live
<1>4. /\ admitted' \in [Inv -> Nat] /\ admitted'[i] = 1
      /\ \A j \in Inv \ {i} : admitted'[j] = admitted[j]
  BY <1>2, <1>3
<1>5. PICK d : d = Ledger!NewRecord(i)
  OBVIOUS
<1>6. d \in LedgerEntry
  <2>1. Ledger!After(start[i], Expiry) \in LedgerInstant
    BY <1>2, LedgerAssumption DEF LedgerInstant, Ledger!After
  <2>. QED BY <1>5, <2>1 DEF Ledger!NewRecord, LedgerEntry
<1>7. d.conn = "unbound" /\ d.live /\ ~d.included /\ ~d.done
  BY <1>5 DEF Ledger!NewRecord
<1>8. d # None
  BY <1>6, LedgerAssumption DEF LedgerEntry, LedgerInstant
<1>9. book' = [b EXCEPT !.entry = [b.entry EXCEPT ![i] = d]]
  BY <1>5 DEF LedgerBook
<1>10. /\ book' \in LedgerBook /\ book'.owner = b.owner /\ book'.end = b.end
       /\ book'.exact = b.exact /\ book'.entry[i] = d
       /\ \A j \in Inv \ {i} : book'.entry[j] = b.entry[j]
  BY <1>6, <1>9 DEF LedgerBook
<1>11. /\ Ledger!Live(book, i)'
       /\ \A j \in Inv \ {i} : Ledger!Live(book, j)' <=> Ledger!Live(b, j)
  BY <1>7, <1>8, <1>10 DEF Ledger!Live
<1>12. ASSUME NEW j \in Inv, Ledger!Live(book, j)'
       PROVE  /\ book'.entry[j].included => book'.entry[j].done /\ Ledger!BucketEnd(j)' > book'.end
              /\ book'.entry[j].done => fin'[j] # None /\ book'.entry[j].retire = Ledger!CloseOf(j)'
  <2>1. CASE j = i
    BY <1>7, <1>10, <2>1
  <2>2. CASE j # i
    BY <1>10, <1>11, <1>12, <2>2 DEF Kept, Ledger!BucketEnd, Ledger!CloseOf
  <2>. QED BY <2>1, <2>2
<1>13. ASSUME NEW j \in Inv
       PROVE  /\ book'.entry[j] # None => admitted'[j] > 0
              /\ admitted'[j] > 0 => start'[j] # None
              /\ admitted'[j] > 0 /\ start'[j].w >= book'.exact => Ledger!Live(book, j)'
  <2>1. CASE j = i
    BY <1>1, <1>4, <1>11, <2>1
  <2>2. CASE j # i
    BY <1>4, <1>10, <1>11, <2>2 DEF Kept
  <2>. QED BY <2>1, <2>2
<1>14. ASSUME NEW q \in Round, NEW j \in Inv
       PROVE  book'.owner[q] = j <=> /\ book'.entry[j] # None
                                     /\ book'.entry[j].conn = "started"
                                     /\ book'.entry[j].round = q
  BY <1>1, <1>7, <1>10 DEF Kept
<1>15. Kept(book)'
  BY <1>12, <1>13, <1>14 DEF Kept
<1>. QED BY <1>3, <1>4, <1>10, <1>11, <1>15

\* A call keeps the invariant, whether it is accepted or refused.
LEMMA LedgerCallStep == LedgerIInv /\ Ledger!Calls => LedgerIInv'
<1>. SUFFICES ASSUME LedgerIInv, Ledger!Calls PROVE LedgerIInv'
  OBVIOUS
<1>1. PICK b : b = Ledger!Advanced
  OBVIOUS
<1>2. Ledger!Accept /\ UNCHANGED <<mono, ahead, start, fin>>
  BY DEF Ledger!Calls, Ledger!Accept, Ledger!worldVars
<1>3. /\ merged' \in [Inv -> [times : Nat, at : Int]]
      /\ \A i \in Inv : merged'[i].times > 0 =>
            /\ merged'[i].times = 1 /\ merged'[i].at >= Ledger!CloseOf(i).m
            /\ admitted[i] > 0 /\ fin[i] # None /\ ~Ledger!Live(b, i)
  BY <1>1, <1>2, LedgerAccepts
<1>4. /\ b \in LedgerBook /\ Kept(b)
  BY <1>1, LedgerAdvances
<1>5. LedgerType /\ LedgerBounded /\ LedgerOnce
  BY DEF LedgerIInv
<1>6. LedgerBounded'
  BY <1>2, <1>5 DEF LedgerBounded
<1>7. \A i \in Inv : Ledger!CloseOf(i)' = Ledger!CloseOf(i)
                     /\ Ledger!BucketEnd(i)' = Ledger!BucketEnd(i)
  BY <1>2 DEF Ledger!CloseOf, Ledger!BucketEnd
<1>8. CASE Continues(book', b) /\ admitted' = admitted
  <2>1. PICK c : c = book'
    OBVIOUS
  <2>2. c \in LedgerBook /\ Kept(c) /\ \A i \in Inv : Ledger!Live(c, i) => Ledger!Live(b, i)
    BY <1>8, <2>1 DEF Continues
  <2>3. \A i \in Inv : Ledger!Live(book, i)' <=> Ledger!Live(c, i)
    BY <2>1 DEF Ledger!Live
  <2>4. Kept(book)'
    BY <1>2, <1>7, <1>8, <2>1, <2>2, <2>3 DEF Kept
  <2>5. LedgerType'
    BY <1>2, <1>3, <1>5, <1>8, <2>1, <2>2 DEF LedgerType
  <2>6. LedgerCounts'
    BY <1>2, <1>3, <1>7, <1>8, <2>2, <2>3 DEF LedgerCounts
  <2>. QED BY <1>5, <1>6, <1>8, <2>4, <2>5, <2>6 DEF LedgerIInv, LedgerOnce
<1>9. ASSUME NEW i \in Inv, Ledger!Admits(b, i),
             book' = [b EXCEPT !.entry[i] = Ledger!NewRecord(i)],
             admitted' = [admitted EXCEPT ![i] = @ + 1]
      PROVE  LedgerIInv'
  <2>1. /\ book' \in LedgerBook /\ Kept(book)'
        /\ admitted[i] = 0 /\ admitted' \in [Inv -> Nat]
        /\ admitted'[i] = 1 /\ \A j \in Inv \ {i} : admitted'[j] = admitted[j]
        /\ \A j \in Inv \ {i} : Ledger!Live(book, j)' <=> Ledger!Live(b, j)
    BY <1>2, <1>4, <1>5, <1>9, LedgerRegisters
  <2>2. LedgerType'
    BY <1>2, <1>3, <1>5, <2>1 DEF LedgerType
  <2>3. LedgerCounts'
    <3>1. ASSUME NEW j \in Inv, merged'[j].times > 0 PROVE j # i
      BY <1>3, <2>1, <3>1
    <3>. QED BY <1>2, <1>3, <1>7, <2>1, <3>1 DEF LedgerCounts
  <2>4. LedgerOnce'
    BY <1>5, <2>1 DEF LedgerOnce
  <2>. QED BY <1>6, <2>1, <2>2, <2>3, <2>4 DEF LedgerIInv
<1>. QED BY <1>1, <1>8, <1>9, LedgerCalls

\* The invariant holds of an empty book.
LEMMA LedgerInitHolds == Ledger!Init => LedgerIInv
<1>. SUFFICES ASSUME Ledger!Init PROVE LedgerIInv
  OBVIOUS
<1>1. /\ \A i \in Inv : start[i] = None /\ fin[i] = None /\ admitted[i] = 0
                        /\ merged[i] = [times |-> 0, at |-> 0]
      /\ mono = 0 /\ ahead = 0
  BY DEF Ledger!Init
<1>2. PICK en, ow : /\ en = [i \in Inv |-> None] /\ ow = [r \in Round |-> None]
                    /\ book = [entry |-> en, owner |-> ow, end |-> 0, exact |-> 0]
  BY DEF Ledger!Init
<1>3. book \in LedgerBook /\ book.entry = en /\ book.owner = ow
  BY <1>2 DEF LedgerBook
<1>4. LedgerType
  BY <1>1, <1>3 DEF Ledger!Init, LedgerType
<1>5. LedgerBounded
  BY <1>1 DEF LedgerBounded
<1>6. Kept(book)
  BY <1>1, <1>2, <1>3, LedgerAssumption DEF Kept, Ledger!Live
<1>7. LedgerCounts /\ LedgerOnce
  BY <1>1 DEF LedgerCounts, LedgerOnce
<1>. QED BY <1>4, <1>5, <1>6, <1>7 DEF LedgerIInv

\* The clocks move, and an invocation starts or finishes.
LEMMA LedgerWorld ==
    ASSUME LedgerIInv, UNCHANGED <<book, merged, admitted>>,
           mono' \in Int, ahead' \in Int,
           start' \in [Inv -> LedgerInstant \cup {None}],
           fin' \in [Inv -> LedgerInstant \cup {None}],
           \A i \in Inv : /\ start[i] # None => start'[i] = start[i]
                          /\ fin[i] # None => fin'[i] = fin[i],
           LedgerBounded'
    PROVE  LedgerIInv'
<1>1. LedgerType'
  BY DEF LedgerIInv, LedgerType
<1>2. \A i \in Inv : Ledger!Live(book, i)' <=> Ledger!Live(book, i)
  BY DEF Ledger!Live
<1>3. \A i \in Inv : fin[i] # None => /\ Ledger!CloseOf(i)' = Ledger!CloseOf(i)
                                      /\ Ledger!BucketEnd(i)' = Ledger!BucketEnd(i)
  BY DEF Ledger!CloseOf, Ledger!BucketEnd
<1>4. Kept(book)'
  <2>1. Kept(book)
    BY DEF LedgerIInv
  <2>. QED BY <1>2, <1>3, <2>1 DEF Kept
<1>5. LedgerCounts'
  <2>1. LedgerCounts
    BY DEF LedgerIInv
  <2>. QED BY <1>2, <1>3, <2>1 DEF LedgerCounts
<1>. QED BY <1>1, <1>4, <1>5 DEF LedgerIInv, LedgerOnce

\* An invocation that starts or finishes takes the present instant.
LEMMA LedgerSamples ==
    ASSUME LedgerIInv, NEW i \in Inv, Ledger!Begin(i) \/ Ledger!End(i)
    PROVE  LedgerIInv'
<1>1. Ledger!Receipt \in LedgerInstant
  BY DEF LedgerIInv, LedgerType, LedgerInstant, Ledger!Receipt
<1>2. PICK p \in LedgerInstant : p = Ledger!Receipt
  BY <1>1
<1>3. /\ start \in [Inv -> LedgerInstant \cup {None}]
      /\ fin \in [Inv -> LedgerInstant \cup {None}]
      /\ mono \in Int /\ ahead \in Int
  BY DEF LedgerIInv, LedgerType
<1>4. PICK lo, hi \in Int : \A j \in Inv : /\ start[j] # None => start[j].w <= hi
                                           /\ fin[j] # None => fin[j].w >= lo
  BY DEF LedgerIInv, LedgerBounded
<1>5. p.w \in Int
  BY DEF LedgerInstant
<1>6. \A j \in Inv : /\ start[j] # None => start[j].w \in Int
                     /\ fin[j] # None => fin[j].w \in Int
  BY <1>3 DEF LedgerInstant
<1>7. CASE Ledger!Begin(i)
  <2>1. /\ start[i] = None /\ start' = [start EXCEPT ![i] = p]
        /\ UNCHANGED <<mono, ahead, fin, book, merged, admitted>>
    BY <1>2, <1>7 DEF Ledger!Begin, Ledger!stateVars
  <2>2. PICK top \in Int : top >= hi /\ top >= p.w
    BY <1>5
  <2>3. \A j \in Inv : /\ start'[j] # None => start'[j].w <= top
                       /\ fin'[j] # None => fin'[j].w >= lo
    BY <1>3, <1>4, <1>5, <1>6, <2>1, <2>2
  <2>4. LedgerBounded'
    BY <2>3 DEF LedgerBounded
  <2>. QED BY <1>3, <2>1, <2>4, LedgerWorld
<1>8. CASE Ledger!End(i)
  <2>1. /\ fin[i] = None /\ fin' = [fin EXCEPT ![i] = p]
        /\ UNCHANGED <<mono, ahead, start, book, merged, admitted>>
    BY <1>2, <1>8 DEF Ledger!End, Ledger!stateVars
  <2>2. PICK bottom \in Int : bottom <= lo /\ bottom <= p.w
    BY <1>5
  <2>3. \A j \in Inv : /\ start'[j] # None => start'[j].w <= hi
                       /\ fin'[j] # None => fin'[j].w >= bottom
    BY <1>3, <1>4, <1>5, <1>6, <2>1, <2>2
  <2>4. LedgerBounded'
    BY <2>3 DEF LedgerBounded
  <2>. QED BY <1>3, <2>1, <2>4, LedgerWorld
<1>. QED BY <1>7, <1>8

LEMMA LedgerStep ==
    LedgerIInv /\ (Ledger!Next \/ UNCHANGED ledgerVars) => LedgerIInv'
<1>. SUFFICES ASSUME LedgerIInv, Ledger!Next \/ UNCHANGED ledgerVars
              PROVE  LedgerIInv'
  OBVIOUS
<1>1. CASE Ledger!Refuse \/ Ledger!Tick \/ Ledger!Jump \/ UNCHANGED ledgerVars
  <2>1. UNCHANGED <<start, fin, book, merged, admitted>>
    BY <1>1 DEF Ledger!Refuse, Ledger!Tick, Ledger!Jump, Ledger!worldVars,
                Ledger!stateVars, ledgerVars
  <2>2. mono' \in Int /\ ahead' \in Int
    BY <1>1, LedgerAssumption
    DEF Ledger!Refuse, Ledger!Tick, Ledger!Jump, Ledger!worldVars, ledgerVars,
        LedgerIInv, LedgerType
  <2>3. LedgerBounded'
    BY <2>1 DEF LedgerIInv, LedgerBounded
  <2>4. /\ start' \in [Inv -> LedgerInstant \cup {None}]
        /\ fin' \in [Inv -> LedgerInstant \cup {None}]
    BY <2>1 DEF LedgerIInv, LedgerType
  <2>. QED BY <2>1, <2>2, <2>3, <2>4, LedgerWorld
<1>. QED BY <1>1, LedgerCallStep, LedgerSamples DEF Ledger!Next

LedgerInv == service \in {"ledger", "clock"} => LedgerIInv

LEMMA LedgerInvariant == Spec => []LedgerInv
<1>1. Init => LedgerInv
  BY LedgerInitHolds DEF Init, LedgerInv
<1>2. LedgerInv /\ [Next]_allVars => LedgerInv'
  <2>1. [Next]_allVars => service' = service
    BY DEF Next, allVars
  <2>2. service \in {"ledger", "clock"} /\ [Next]_allVars
           => Ledger!Next \/ UNCHANGED ledgerVars
    BY DEF Next, allVars
  <2>. QED BY <2>1, <2>2, LedgerStep DEF LedgerInv
<1>. QED BY <1>1, <1>2, PTL DEF Spec, allVars

-----------------------------------------------------------------------------
(* Theorems                                                                  *)

\* Once a path has stored the close in both places no other write takes it back, the
\* fallback is spared only when both stores succeeded, a day without trading leaves
\* no close, and the daily row, if there is one, is the close.
THEOREM CloseStands == Spec => []CloseSettled
<1>1. KrxIInv => Krx!CloseSettled
  <2>. SUFFICES ASSUME KrxIInv PROVE Krx!CloseSettled
    OBVIOUS
  <2>1. Krx!CloseKept /\ Krx!FallbackTried /\ daily \in {None, "close"}
    BY DEF KrxIInv, KrxStored, KrxFlag, CloseRow, Krx!CloseKept, Krx!FallbackTried
  <2>2. Krx!NoPhantom
    BY KrxNewest DEF KrxIInv, KrxHoliday, Krx!NoPhantom
  <2>. QED BY <2>1, <2>2 DEF Krx!CloseSettled
<1>2. KrxInv => CloseSettled
  BY <1>1 DEF KrxInv, CloseSettled
<1>. QED BY <1>2, KrxInvariant, PTL

\* An armed alert is pushed once, and a repeating one once per interval, unless the
\* mark of the push was lost.
THEOREM PushedOnce == Spec => []OnePushPerArming
<1>1. AlertIInv => Alerts!OnePushPerArming
  <2>. SUFFICES ASSUME AlertIInv, NEW e \in 1..MaxEpoch
                PROVE  pushed[e] <= 1 + unmarked[e]
    BY DEF Alerts!OnePushPerArming, Alerts!Epoch
  <2>1. /\ Due(e) <= 1 + unmarked[e] /\ pushed[e] <= Due(e)
        /\ Due(e) \in Nat /\ pushed[e] \in Nat /\ unmarked[e] \in Nat
    BY DueType DEF AlertIInv, AlertBounded
  <2>. QED BY <2>1
<1>2. AlertInv => OnePushPerArming
  BY <1>1 DEF AlertInv, OnePushPerArming
<1>. QED BY <1>2, AlertInvariant, PTL

\* Between two runs of the broadcast no listed socket is behind the cached payload,
\* the one the next run compares with; three races are outside of it, an endpoint
\* that fills a miss, and an initial payload that is sent after a newer one or not at
\* all, until the next broadcast reaches that socket.
THEOREM BroadcastReachesAll == Spec => []NobodyLeftBehind
<1>1. LegacyIInv => Legacy!NobodyLeftBehind
  BY DEF LegacyIInv, LegacyServed, Owed, Legacy!NobodyLeftBehind, Legacy!Resting,
         Legacy!At
<1>2. LegacyInv => NobodyLeftBehind
  BY <1>1 DEF LegacyInv, NobodyLeftBehind
<1>. QED BY <1>2, LegacyInvariant, PTL

\* A definite verdict on a subscription was the provider's within the stale age and
\* the two requests around it, and, unless its call crossed a webhook or such a
\* call has stored its reply since, after the last webhook.
THEOREM VerdictsHold == Spec => []VerdictTrusted
<1>1. PremiumInv => VerdictTrusted
  BY DEF PremiumInv, PremiumIInv, VerdictTrusted
<1>. QED BY <1>1, PremiumInvariant, PTL

\* The browser worker never waits on the queue that only it empties, a bank waits
\* or runs once at most, and no worker survives the shutdown that joined it,
\* whatever the limits, as long as enqueue refuses below the queue's capacity.
THEOREM QueueStaysSound == Spec => []QueueSound
<1>1. SeleniumInv => QueueSound
  BY DEF SeleniumInv, SeleniumIInv, QueueSound
<1>. QED BY <1>1, SeleniumInvariant, PTL

\* A tick that waits for the database always has a window that will take it.
THEOREM TicksKept == Spec => []NoTickForgotten
<1>1. UpbitInv => NoTickForgotten
  BY DEF UpbitInv, UpbitIInv, NoTickForgotten
<1>. QED BY <1>1, UpbitInvariant, PTL

\* The stored USDT rate never goes back to an older bucket while every SET is
\* ordered by the memory: one call holds the lock from its guard to its memory.
THEOREM LatestInOrder == Spec => LatestNeverRegresses
<1>1. UpbitInv /\ [Next]_allVars
         => [strayed' \/ Upbit!Bucket(redis') >= Upbit!Bucket(redis)]_redis
  <2>1. service # "upbit" /\ [Next]_allVars => redis' = redis
    BY DEF Next, allVars, upbitVars
  <2>2. service = "upbit" /\ [Next]_allVars => Upbit!Next \/ UNCHANGED upbitVars
    BY DEF Next, allVars
  <2>. QED BY <2>1, <2>2, UpbitStep DEF UpbitInv
<1>. QED BY <1>1, UpbitInvariant, PTL
     DEF Spec, allVars, LatestNeverRegresses, Upbit!LatestNeverRegresses

\* Each round of the ledger is counted at most once, not before its minute and its
\* grace have really passed, in no closed minute and under one owner; a cohort that
\* the ledger answers for is complete, and no invocation is registered twice,
\* whatever the clocks and the calls do.
THEOREM LedgerTold == Spec => []LedgerTruth
<1>1. LedgerIInv => Ledger!LedgerTruth
  <2>. SUFFICES ASSUME LedgerIInv PROVE Ledger!LedgerTruth
    OBVIOUS
  <2>1. Kept(book) /\ LedgerCounts /\ LedgerOnce
    BY DEF LedgerIInv
  <2>2. Ledger!CountedOnce /\ Ledger!GraceKept
    <3>1. \A i \in Inv : merged[i].times \in Nat
      BY DEF LedgerIInv, LedgerType
    <3>. QED BY <2>1, <3>1 DEF LedgerCounts, Ledger!CountedOnce, Ledger!GraceKept
  <2>3. Ledger!ClosedIsFinal /\ Ledger!CohortExact /\ Ledger!IdentityIntact
    BY <2>1 DEF Kept, Ledger!ClosedIsFinal, Ledger!CohortExact, Ledger!IdentityIntact
  <2>4. Ledger!RegisteredOnce
    BY <2>1 DEF LedgerOnce, Ledger!RegisteredOnce
  <2>. QED BY <2>2, <2>3, <2>4 DEF Ledger!LedgerTruth
<1>2. LedgerInv => LedgerTruth
  BY <1>1 DEF LedgerInv, LedgerTruth
<1>. QED BY <1>2, LedgerInvariant, PTL

================================================================================
