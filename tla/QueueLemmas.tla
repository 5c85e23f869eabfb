------------------------------- MODULE QueueLemmas ------------------------------
(***************************************************************************)
(* What the queue operations of the models do to a sequence that holds no   *)
(* element twice: an element is appended, the head is taken, or one element *)
(* leaves from the middle.                                                  *)
(***************************************************************************)
EXTENDS Integers, Sequences, SequencesExt, SequenceTheorems, TLAPS

NoRepeats(s) == \A i, j \in 1..Len(s) : s[i] = s[j] => i = j

LEMMA RemoveAtLemma ==
    ASSUME NEW S, NEW s \in Seq(S), NEW i \in 1..Len(s)
    PROVE  /\ RemoveAt(s, i) \in Seq(S)
           /\ Len(RemoveAt(s, i)) = Len(s) - 1
           /\ \A j \in 1..(Len(s) - 1) :
                 RemoveAt(s, i)[j] = IF j < i THEN s[j] ELSE s[j + 1]
<1> DEFINE l == SubSeq(s, 1, i - 1)
           r == SubSeq(s, i + 1, Len(s))
<1>1. Len(s) \in Nat /\ \A j \in 1..Len(s) : s[j] \in S
  BY LenProperties, ElementOfSeq
<1>2. /\ l \in Seq(S) /\ Len(l) = i - 1
      /\ \A j \in 1..(i - 1) : l[j] = s[j]
  <2>1. \A j \in 1..(i - 1) : s[j] \in S
    BY <1>1
  <2>2. /\ l \in Seq(S)
        /\ Len(l) = IF 1 <= i - 1 THEN (i - 1) - 1 + 1 ELSE 0
        /\ \A j \in 1..((i - 1) - 1 + 1) : l[j] = s[1 + j - 1]
    BY <1>1, <2>1, SubSeqProperties
  <2>. QED BY <2>2, <1>1
<1>3. /\ r \in Seq(S) /\ Len(r) = Len(s) - i
      /\ \A j \in 1..(Len(s) - i) : r[j] = s[i + j]
  <2>1. \A j \in (i + 1)..Len(s) : s[j] \in S
    BY <1>1
  <2>2. /\ r \in Seq(S)
        /\ Len(r) = IF i + 1 <= Len(s) THEN Len(s) - (i + 1) + 1 ELSE 0
        /\ \A j \in 1..(Len(s) - (i + 1) + 1) : r[j] = s[(i + 1) + j - 1]
    BY <1>1, <2>1, SubSeqProperties
  <2>. QED BY <2>2, <1>1
<1>4. /\ l \o r \in Seq(S)
      /\ Len(l \o r) = Len(l) + Len(r)
      /\ \A j \in 1..(Len(l) + Len(r)) :
            (l \o r)[j] = IF j <= Len(l) THEN l[j] ELSE r[j - Len(l)]
  BY <1>2, <1>3, ConcatProperties
<1>5. RemoveAt(s, i) = l \o r
  BY DEF RemoveAt
<1>. HIDE DEF l, r
<1>6. ASSUME NEW j \in 1..(Len(s) - 1)
      PROVE  (l \o r)[j] = IF j < i THEN s[j] ELSE s[j + 1]
  <2>1. CASE j < i
    BY <1>1, <1>2, <1>3, <1>4, <2>1
  <2>2. CASE ~(j < i)
    <3>1. (l \o r)[j] = r[j - (i - 1)]
      BY <1>1, <1>2, <1>3, <1>4, <2>2
    <3>2. j - (i - 1) \in 1..(Len(s) - i) /\ i + (j - (i - 1)) = j + 1
      BY <1>1, <2>2
    <3>. QED BY <3>1, <3>2, <1>3, <2>2
  <2>. QED BY <2>1, <2>2
<1>. QED BY <1>1, <1>2, <1>3, <1>4, <1>5, <1>6

\* The elements of a sequence, by position.
LEMMA ElementsLemma ==
    ASSUME NEW S, NEW s \in Seq(S)
    PROVE  /\ \A x : x \in ToSet(s) <=> \E i \in 1..Len(s) : s[i] = x
           /\ Len(s) \in Nat /\ ToSet(s) \subseteq S
           /\ \A i \in 1..Len(s) : s[i] \in S
<1>1. DOMAIN s = 1..Len(s) /\ Len(s) \in Nat
  BY LenProperties
<1>2. \A i \in 1..Len(s) : s[i] \in S
  BY ElementOfSeq
<1>. QED BY <1>1, <1>2 DEF ToSet

LEMMA AppendQueue ==
    ASSUME NEW S, NEW s \in Seq(S), NoRepeats(s), NEW e \in S, e \notin ToSet(s)
    PROVE  /\ Append(s, e) \in Seq(S) /\ NoRepeats(Append(s, e))
           /\ ToSet(Append(s, e)) = ToSet(s) \cup {e}
<1>1. /\ Append(s, e) \in Seq(S) /\ Len(Append(s, e)) = Len(s) + 1
      /\ \A i \in 1..Len(s) : Append(s, e)[i] = s[i]
      /\ Append(s, e)[Len(s) + 1] = e
  BY AppendProperties
<1>2. /\ \A x : x \in ToSet(s) <=> \E i \in 1..Len(s) : s[i] = x
      /\ Len(s) \in Nat
  BY ElementsLemma
<1>3. \A x : x \in ToSet(Append(s, e)) <=> \E i \in 1..(Len(s) + 1) : Append(s, e)[i] = x
  BY <1>1, ElementsLemma
<1>4. \A x : x \in ToSet(Append(s, e)) <=> x \in ToSet(s) \cup {e}
  BY <1>1, <1>2, <1>3
<1>5. NoRepeats(Append(s, e))
  BY <1>1, <1>2 DEF NoRepeats
<1>. QED BY <1>1, <1>4, <1>5

LEMMA TailQueue ==
    ASSUME NEW S, NEW s \in Seq(S), NoRepeats(s), s # <<>>
    PROVE  /\ Tail(s) \in Seq(S) /\ NoRepeats(Tail(s))
           /\ Head(s) \in ToSet(s) /\ ToSet(Tail(s)) = ToSet(s) \ {Head(s)}
<1>1. /\ Tail(s) \in Seq(S) /\ Len(Tail(s)) = Len(s) - 1 /\ Head(s) = s[1]
      /\ \A i \in 1..Len(Tail(s)) : Tail(s)[i] = s[i + 1]
  BY HeadTailProperties
<1>2. /\ \A x : x \in ToSet(s) <=> \E i \in 1..Len(s) : s[i] = x
      /\ Len(s) \in Nat /\ Len(s) >= 1
  BY ElementsLemma, EmptySeq
<1>3. \A x : x \in ToSet(Tail(s)) <=> \E i \in 1..(Len(s) - 1) : s[i + 1] = x
  <2>1. \A x : x \in ToSet(Tail(s)) <=> \E i \in 1..Len(Tail(s)) : Tail(s)[i] = x
    BY <1>1, ElementsLemma
  <2>. QED BY <1>1, <2>1
<1>4. ASSUME NEW x PROVE x \in ToSet(Tail(s)) <=> x \in ToSet(s) \ {s[1]}
  <2>1. ASSUME NEW i \in 1..(Len(s) - 1), s[i + 1] = x PROVE x \in ToSet(s) \ {s[1]}
    BY <1>2, <2>1 DEF NoRepeats
  <2>2. ASSUME NEW i \in 1..Len(s), s[i] = x, x # s[1] PROVE x \in ToSet(Tail(s))
    <3>1. i - 1 \in 1..(Len(s) - 1) /\ (i - 1) + 1 = i
      BY <1>2, <2>2
    <3>. QED BY <1>3, <2>2, <3>1
  <2>. QED BY <1>2, <1>3, <2>1, <2>2
<1>5. NoRepeats(Tail(s))
  BY <1>1, <1>2 DEF NoRepeats
<1>. QED BY <1>1, <1>2, <1>4, <1>5

LEMMA RemoveFirstQueue ==
    ASSUME NEW S, NEW s \in Seq(S), NoRepeats(s), NEW e
    PROVE  /\ RemoveFirst(s, e) \in Seq(S) /\ NoRepeats(RemoveFirst(s, e))
           /\ ToSet(RemoveFirst(s, e)) = ToSet(s) \ {e}
<1>1. /\ \A x : x \in ToSet(s) <=> \E i \in 1..Len(s) : s[i] = x
      /\ Len(s) \in Nat
  BY ElementsLemma
<1>2. CASE ~ \E i \in 1..Len(s) : s[i] = e
  <2>1. RemoveFirst(s, e) = s
    BY <1>2 DEF RemoveFirst
  <2>. QED BY <1>1, <1>2, <2>1
<1>3. ASSUME NEW p \in 1..Len(s), s[p] = e PROVE RemoveFirst(s, e) = RemoveAt(s, p)
  <2>1. {i \in 1..Len(s) : s[i] = e} = {p}
    BY <1>3 DEF NoRepeats
  <2>2. SelectInSeq(s, LAMBDA v : v = e) = Min({p})
    BY <2>1 DEF SelectInSeq
  <2>3. Min({p}) = p
    BY <1>1 DEF Min
  <2>. QED BY <1>3, <2>2, <2>3 DEF RemoveFirst
<1>4. ASSUME NEW p \in 1..Len(s), s[p] = e
      PROVE  /\ RemoveAt(s, p) \in Seq(S) /\ NoRepeats(RemoveAt(s, p))
             /\ ToSet(RemoveAt(s, p)) = ToSet(s) \ {e}
  <2>1. /\ RemoveAt(s, p) \in Seq(S) /\ Len(RemoveAt(s, p)) = Len(s) - 1
        /\ \A j \in 1..(Len(s) - 1) :
              RemoveAt(s, p)[j] = IF j < p THEN s[j] ELSE s[j + 1]
    BY RemoveAtLemma
  <2>2. \A x : x \in ToSet(RemoveAt(s, p))
                 <=> \E j \in 1..(Len(s) - 1) : RemoveAt(s, p)[j] = x
    BY <2>1, ElementsLemma
  <2>3. NoRepeats(RemoveAt(s, p))
    BY <1>1, <2>1 DEF NoRepeats
  <2>4. ASSUME NEW x PROVE x \in ToSet(RemoveAt(s, p)) <=> x \in ToSet(s) \ {e}
    <3>1. ASSUME NEW j \in 1..(Len(s) - 1), RemoveAt(s, p)[j] = x
          PROVE  x \in ToSet(s) \ {e}
      <4>1. PICK i \in 1..Len(s) : i # p /\ s[i] = x
        BY <1>1, <2>1, <3>1
      <4>. QED BY <1>1, <1>4, <4>1 DEF NoRepeats
    <3>2. ASSUME NEW i \in 1..Len(s), s[i] = x, x # e PROVE x \in ToSet(RemoveAt(s, p))
      <4>1. CASE i < p
        BY <1>1, <2>1, <2>2, <3>2, <4>1
      <4>2. CASE i > p
        <5>1. i - 1 \in 1..(Len(s) - 1) /\ (i - 1) + 1 = i /\ ~(i - 1 < p)
          BY <1>1, <4>2
        <5>. QED BY <2>1, <2>2, <3>2, <5>1
      <4>. QED BY <1>1, <1>4, <3>2, <4>1, <4>2
    <3>. QED BY <1>1, <2>2, <3>1, <3>2
  <2>. QED BY <2>1, <2>3, <2>4
<1>. QED BY <1>2, <1>3, <1>4
================================================================================
