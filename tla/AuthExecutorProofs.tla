--------------------------- MODULE AuthExecutorProofs --------------------------
(***************************************************************************)
(* Proofs about AuthExecutor for every number of calls and threads.         *)
(*                                                                          *)
(* Structure relates the lifespan, the queue, the work items and the notes  *)
(* that were lost: queued items exist only while the pool runs, which is    *)
(* why a pool is started with no thread of the previous one at work.  On    *)
(* top of it, every step moves calls between the sets the ledger counts or  *)
(* lacks, so each counter changes with the cardinalities of its sets.       *)
(***************************************************************************)
EXTENDS AuthExecutor, QueueLemmas, FiniteSetTheorems

\* TypeOK before anything is known of the sign of the counters.
Shape ==
    /\ lifespan \in {"down", "starting", "serving", "draining"}
    /\ running \in BOOLEAN
    /\ loop \in Call \cup {NoCall}
    /\ queue \in Seq(Call)
    /\ threads \in 0..Workers
    /\ work \in [Call -> Work]
    /\ receipt \subseteq Call /\ leaked \subseteq Call
    /\ caller \in [Call -> {"absent", "waiting", "returned"}]
    /\ ledger \in [Counter -> Int]
    /\ lost \in LostNotes

QueueSound ==
    /\ \A i \in 1..Len(queue) : work[queue[i]] = "queued"
    /\ \A i, j \in 1..Len(queue) : queue[i] = queue[j] => i = j

Lifecycle ==
    /\ running <=> lifespan \in {"starting", "serving"}
    /\ loop # NoCall => running
    /\ \A c \in Call : work[c] = "queued" => running
    /\ lifespan = "down" => Busy = {}

Accepted == {c \in Call : work[c] # "absent"}

Calls ==
    /\ \A c \in Call : caller[c] = "absent" /\ loop # c => work[c] = "absent"
    /\ receipt \subseteq Executed
    /\ IsFiniteSet(Accepted)

\* What can have been lost of a call, by what became of it.
LostSound ==
    \A c \in Call :
        /\ c \in lost.depth =>
              work[c] \notin {"absent", "reserved"} /\ (c \in leaked \/ work[c] # "queued")
        /\ c \in lost.gauge => c \in receipt /\ work[c] \in {"recorded", "done"}
        /\ c \in lost.count => work[c] \in {"recorded", "done", "never"}

Structure == Shape /\ QueueSound /\ Lifecycle /\ Calls /\ LostSound

-----------------------------------------------------------------------------
(* Lemmas on sequences and sets                                             *)

LEMMA NonEmptyLemma ==
    ASSUME NEW s \in Seq(Call)
    PROVE  s # <<>> <=> Len(s) >= 1
  BY EmptySeq, LenProperties

\* A step that moves one call changes the set of accepted calls by that call.
LEMMA AcceptedLemma ==
    ASSUME Calls, NEW c \in Call, \A d \in Call \ {c} : work'[d] = work[d]
    PROVE  IsFiniteSet(Accepted')
<1>1. IsFiniteSet(Accepted \cup {c})
  BY FS_AddElement DEF Calls
<1>2. Accepted' \in SUBSET (Accepted \cup {c})
  BY DEF Accepted
<1>. QED BY <1>1, <1>2, FS_Subset

LEMMA LedgerFields ==
    ASSUME NEW l \in [Counter -> Int]
    PROVE  /\ l.submitted \in Int /\ l.submit_failed \in Int /\ l.started \in Int
           /\ l.never_started \in Int /\ l.in_flight \in Int /\ l.count \in Int
  BY DEF Counter

LEMMA LedgerUpdate ==
    ASSUME NEW l \in [Counter -> Int], NEW j, NEW k, NEW m \in Int, NEW n \in Int
    PROVE  [l EXCEPT ![j] = m, ![k] = n] \in [Counter -> Int]
  OBVIOUS

LEMMA LostFields ==
    ASSUME lost \in LostNotes
    PROVE  lost.depth \subseteq Call /\ lost.gauge \subseteq Call /\ lost.count \subseteq Call
  BY DEF LostNotes

LEMMA LosesTyped ==
    ASSUME Shape, NEW d \in SUBSET Call, NEW g \in SUBSET Call, NEW n \in SUBSET Call,
           Loses(d, g, n)
    PROVE  lost' \in LostNotes
  BY DEF Loses, LostNotes, Shape

\* A done callback that fails leaves the two counters of a cancellation apart.
LEMMA CancelledLedger ==
    ASSUME Shape, NEW cs \in SUBSET Call, IsFiniteSet(cs), CancelledIn(cs)
    PROVE  ledger' \in [Counter -> Int] /\ lost' \in LostNotes
<1>1. PICK un \in SUBSET (cs \ leaked) : \E uc \in SUBSET un :
        /\ ledger' = [ledger EXCEPT
                         !.never_started = @ + Cardinality((cs \ leaked) \ un),
                         !.count = @ + Cardinality((cs \ leaked) \ uc)]
        /\ Loses(un, {}, uc)
  BY DEF CancelledIn, NotesCancelled
<1>2. PICK uc \in SUBSET un :
        /\ ledger' = [ledger EXCEPT
                         !.never_started = @ + Cardinality((cs \ leaked) \ un),
                         !.count = @ + Cardinality((cs \ leaked) \ uc)]
        /\ Loses(un, {}, uc)
  BY <1>1
<1>. DEFINE m == Cardinality((cs \ leaked) \ un)
            n == Cardinality((cs \ leaked) \ uc)
<1>3. m \in Int /\ n \in Int
  <2>1. IsFiniteSet((cs \ leaked) \ un) /\ IsFiniteSet((cs \ leaked) \ uc)
    BY FS_Difference
  <2>. QED BY <2>1, FS_CardinalityType
<1>4. ledger' = [ledger EXCEPT !.never_started = @ + m, !.count = @ + n]
  BY <1>2
<1>. HIDE DEF m, n
<1>5. ledger \in [Counter -> Int]
  BY DEF Shape
<1>6. ledger.never_started + m \in Int /\ ledger.count + n \in Int
  BY <1>3, <1>5, LedgerFields
<1>7. lost' \in LostNotes
  BY <1>2, LosesTyped
<1>. QED BY <1>4, <1>5, <1>6, <1>7, LedgerUpdate

LEMMA FailureTyped ==
    ASSUME Shape, NEW c \in Call, NotesSubmitFailed(c)
    PROVE  ledger' \in [Counter -> Int] /\ lost' \in LostNotes
<1>1. CASE ledger' = [ledger EXCEPT !.submit_failed = @ + 1] /\ lost' = lost
  BY <1>1 DEF Shape, Counter
<1>2. CASE ledger' = ledger /\ Loses({c}, {}, {})
  BY <1>2, LosesTyped DEF Shape
<1>. QED BY <1>1, <1>2 DEF NotesSubmitFailed

\* A failed submit leaves what was lost sound.
LEMMA FailureLost ==
    ASSUME Shape, LostSound, NEW c \in Call, NotesSubmitFailed(c),
           work[c] = "reserved", NEW w, work' = [work EXCEPT ![c] = w],
           receipt' = receipt, leaked \subseteq leaked',
           w = "failed" \/ (w = "queued" /\ c \in leaked')
    PROVE  LostSound'
<1>1. /\ lost'.depth \subseteq lost.depth \cup {c} /\ lost'.gauge = lost.gauge
      /\ lost'.count = lost.count
  BY DEF NotesSubmitFailed, Loses
<1>2. work'[c] = w /\ \A d \in Call \ {c} : work'[d] = work[d]
  BY DEF Shape
<1>3. c \notin lost.gauge /\ c \notin lost.count
  BY DEF LostSound
<1>. QED BY <1>1, <1>2, <1>3 DEF LostSound

\* A cancellation leaves what was lost sound.
LEMMA CancelledLost ==
    ASSUME Shape, LostSound, NEW cs \in SUBSET Call, \A c \in cs : work[c] = "queued",
           CancelledIn(cs), receipt' = receipt, leaked' = leaked
    PROVE  LostSound'
<1>1. PICK un \in SUBSET (cs \ leaked) : \E uc \in SUBSET un : Loses(un, {}, uc)
  BY DEF CancelledIn, NotesCancelled
<1>2. PICK uc \in SUBSET un : Loses(un, {}, uc)
  BY <1>1
<1>3. /\ lost'.depth = lost.depth \cup un /\ lost'.gauge = lost.gauge
      /\ lost'.count = lost.count \cup uc
  BY <1>2 DEF Loses
<1>4. work' = [c \in Call |-> IF c \in cs THEN "never" ELSE work[c]]
  BY DEF CancelledIn
<1>. QED BY <1>3, <1>4 DEF LostSound, Shape

\* What was lost stays sound when one call moves on and nothing of it is lost.
LEMMA LostKept ==
    ASSUME Shape, LostSound, NEW c \in Call, NEW w, work' = [work EXCEPT ![c] = w],
           lost' = lost, receipt \subseteq receipt', leaked \subseteq leaked',
           w \notin {"absent", "reserved"} \/ work[c] \in {"absent", "reserved"},
           w = "queued" => work[c] \in {"absent", "reserved"},
           w = "done" \/ work[c] \notin {"recorded", "done", "never"},
           work[c] # "never"
    PROVE  LostSound'
  BY DEF LostSound, Shape

-----------------------------------------------------------------------------
(* Structure is inductive                                                   *)

LEMMA StructureInit == Init => Structure
<1>. SUFFICES ASSUME Init PROVE Structure
  OBVIOUS
<1>1. Shape
  <2>1. queue \in Seq(Call)
    BY EmptySeq DEF Init
  <2>2. threads \in 0..Workers
    BY WorkersAssumption DEF Init
  <2>3. ledger \in [Counter -> Int]
    BY DEF Init, ZeroLedger
  <2>4. running \in BOOLEAN
    BY DEF Init
  <2>5. lost \in LostNotes
    BY DEF Init, LostNotes
  <2>. QED BY <2>1, <2>2, <2>3, <2>4, <2>5 DEF Init, Shape, Work
<1>2. QueueSound
  BY EmptySeq DEF Init, QueueSound
<1>3. Lifecycle
  BY DEF Init, Lifecycle, Busy
<1>4. Calls
  <2>1. Accepted = {}
    BY DEF Init, Accepted
  <2>. QED BY <2>1, FS_EmptySet DEF Init, Calls
<1>5. LostSound
  BY DEF Init, LostSound
<1>. QED BY <1>1, <1>2, <1>3, <1>4, <1>5 DEF Structure

\* The queue is sound after a step that leaves it alone, takes no call out of
\* the state "queued" and so cannot disturb it.
LEMMA QueueKept ==
    ASSUME Shape, QueueSound, queue' = queue,
           \A c \in Call : work[c] = "queued" => work'[c] = "queued"
    PROVE  QueueSound'
<1>1. \A i \in 1..Len(queue) : queue[i] \in Call
  BY ElementOfSeq DEF Shape
<1>. QED BY <1>1 DEF QueueSound

\* A queue is empty while the pool does not run.
LEMMA StoppedQueueEmpty ==
    ASSUME Structure, ~running
    PROVE  queue = <<>>
<1>1. queue \in Seq(Call)
  BY DEF Structure, Shape
<1>2. SUFFICES ASSUME queue # <<>> PROVE FALSE
  OBVIOUS
<1>3. 1 \in 1..Len(queue)
  BY <1>1, <1>2, NonEmptyLemma, LenProperties
<1>4. queue[1] \in Call /\ work[queue[1]] = "queued"
  BY <1>1, <1>3, ElementOfSeq DEF Structure, QueueSound
<1>. QED BY <1>4 DEF Structure, Lifecycle

LEMMA CallerSteps ==
    ASSUME Structure, NEW c \in Call,
           NotReady(c) \/ Reserves(c) \/ SubmitFails(c) \/ Awaits(c) \/ Gets(c)
    PROVE  Structure'
<1>. USE DEF Structure
<1>1. Shape'
  <2>1. CASE NotReady(c) \/ Awaits(c) \/ Gets(c)
    BY <2>1, NoCallAssumption DEF Shape, NotReady, Awaits, Gets
  <2>2. CASE Reserves(c)
    BY <2>2 DEF Shape, Reserves, Work, Counter
  <2>3. CASE SubmitFails(c)
    <3>1. /\ loop' = NoCall /\ work' = [work EXCEPT ![c] = "failed"]
          /\ caller' = [caller EXCEPT ![c] = "returned"]
          /\ UNCHANGED <<lifespan, running, queue, threads, receipt, leaked>>
      BY <2>3 DEF SubmitFails
    <3>2. ledger' \in [Counter -> Int] /\ lost' \in LostNotes
      BY <2>3, FailureTyped DEF SubmitFails
    <3>. QED BY <3>1, <3>2 DEF Shape, Work
  <2>. QED BY <2>1, <2>2, <2>3
<1>2. QueueSound'
  <2>1. queue' = queue
    BY DEF NotReady, Reserves, SubmitFails, Awaits, Gets
  <2>2. \A d \in Call : work[d] = "queued" => work'[d] = "queued"
    BY NoCallAssumption
       DEF NotReady, Reserves, SubmitFails, Awaits, Gets, Calls, Shape
  <2>. QED BY <2>1, <2>2, QueueKept
<1>3. Lifecycle'
  <2>1. UNCHANGED <<lifespan, running>>
    BY DEF NotReady, Reserves, SubmitFails, Awaits, Gets
  <2>2. loop' # NoCall => running
    BY DEF Lifecycle, NotReady, Reserves, SubmitFails, Awaits, Gets
  <2>3. \A d \in Call : work'[d] = "queued" => work[d] = "queued"
    BY DEF Shape, NotReady, Reserves, SubmitFails, Awaits, Gets
  <2>4. Busy' \subseteq Busy
    BY DEF Busy, Shape, NotReady, Reserves, SubmitFails, Awaits, Gets
  <2>. QED BY <2>1, <2>2, <2>3, <2>4 DEF Lifecycle
<1>4. Calls'
  <2>1. \A d \in Call : caller'[d] = "absent" /\ loop' # d => work'[d] = "absent"
    BY NoCallAssumption
       DEF Shape, Calls, NotReady, Reserves, SubmitFails, Awaits, Gets
  <2>2. receipt' \subseteq Executed'
    BY NoCallAssumption
       DEF Shape, Calls, Executed, NotReady, Reserves, SubmitFails, Awaits, Gets
  <2>3. IsFiniteSet(Accepted')
    BY AcceptedLemma DEF Shape, NotReady, Reserves, SubmitFails, Awaits, Gets
  <2>. QED BY <2>1, <2>2, <2>3 DEF Calls
<1>5. LostSound'
  <2>1. CASE NotReady(c) \/ Awaits(c) \/ Gets(c)
    BY <2>1 DEF LostSound, NotReady, Awaits, Gets
  <2>2. CASE Reserves(c)
    <3>1. work[c] = "absent"
      BY <2>2, NoCallAssumption DEF Reserves, Calls
    <3>. QED BY <2>2, <3>1, LostKept DEF Reserves
  <2>3. CASE SubmitFails(c)
    BY <2>3, FailureLost DEF SubmitFails
  <2>. QED BY <2>1, <2>2, <2>3
<1>. QED BY <1>1, <1>2, <1>3, <1>4, <1>5

LEMMA EnqueueSteps ==
    ASSUME Structure, NEW c \in Call, Submits(c) \/ ThreadRefused(c)
    PROVE  Structure'
<1>. USE DEF Structure
<1>1. /\ queue' = Append(queue, c)
      /\ work[c] = "reserved" /\ work' = [work EXCEPT ![c] = "queued"]
      /\ UNCHANGED <<lifespan, running, receipt>>
      /\ loop = c /\ loop' \in {c, NoCall}
  BY DEF Submits, ThreadRefused
<1>2. Shape'
  <2>1. queue' \in Seq(Call)
    BY <1>1, AppendProperties DEF Shape
  <2>2. CASE Submits(c)
    BY <2>1, <2>2, WorkersAssumption DEF Shape, Submits, Work
  <2>3. CASE ThreadRefused(c)
    <3>1. /\ loop' = NoCall /\ leaked' = leaked \cup {c}
          /\ caller' = [caller EXCEPT ![c] = "returned"]
          /\ NotesSubmitFailed(c)
          /\ UNCHANGED <<lifespan, running, threads, receipt>>
      BY <2>3 DEF ThreadRefused
    <3>2. work' \in [Call -> Work]
      BY <1>1 DEF Shape, Work
    <3>3. ledger' \in [Counter -> Int] /\ lost' \in LostNotes
      BY <3>1, FailureTyped
    <3>4. caller' \in [Call -> {"absent", "waiting", "returned"}]
      BY <3>1 DEF Shape
    <3>. QED BY <2>1, <3>1, <3>2, <3>3, <3>4 DEF Shape
  <2>. QED BY <2>2, <2>3
<1>3. QueueSound'
  <2>1. /\ Len(queue) \in Nat /\ Len(queue') = Len(queue) + 1
        /\ \A i \in 1..Len(queue) : queue'[i] = queue[i] /\ queue[i] \in Call
        /\ queue'[Len(queue) + 1] = c
    BY <1>1, AppendProperties, ElementOfSeq, LenProperties DEF Shape
  <2>2. \A i \in 1..Len(queue) : queue[i] # c
    BY <1>1 DEF QueueSound
  <2>. QED BY <1>1, <2>1, <2>2 DEF QueueSound, Shape
<1>4. Lifecycle'
  <2>1. running
    BY <1>1, NoCallAssumption DEF Lifecycle
  <2>2. Busy' \subseteq Busy
    BY <1>1 DEF Busy, Shape
  <2>. QED BY <1>1, <2>1, <2>2 DEF Lifecycle
<1>5. Calls'
  <2>1. \A d \in Call : caller'[d] = "absent" /\ loop' # d => work'[d] = "absent"
    BY NoCallAssumption DEF Shape, Calls, Submits, ThreadRefused
  <2>2. receipt' \subseteq Executed'
    BY <1>1 DEF Shape, Calls, Executed
  <2>3. IsFiniteSet(Accepted')
    BY <1>1, AcceptedLemma DEF Shape
  <2>. QED BY <2>1, <2>2, <2>3 DEF Calls
<1>6. LostSound'
  <2>1. CASE Submits(c)
    BY <1>1, <2>1, LostKept DEF Submits
  <2>2. CASE ThreadRefused(c)
    BY <1>1, <2>2, FailureLost DEF ThreadRefused
  <2>. QED BY <2>1, <2>2
<1>. QED BY <1>2, <1>3, <1>4, <1>5, <1>6

LEMMA CancelledSteps ==
    ASSUME Structure, NEW c \in Call, CallerCancelled(c)
    PROVE  Structure'
<1>. USE DEF Structure
<1>1. /\ loop = NoCall /\ caller[c] = "waiting"
      /\ caller' = [caller EXCEPT ![c] = "returned"]
      /\ UNCHANGED <<lifespan, running, loop, threads, receipt, leaked>>
  BY DEF CallerCancelled
<1>2. CASE work[c] # "queued" /\ UNCHANGED <<queue, work, ledger, lost>>
  <2>1. Shape'
    BY <1>1, <1>2 DEF Shape
  <2>2. QueueSound'
    BY <1>2, QueueKept
  <2>3. Lifecycle'
    BY <1>1, <1>2 DEF Lifecycle, Busy
  <2>4. Calls'
    BY <1>1, <1>2 DEF Calls, Executed, Accepted, Shape
  <2>5. LostSound'
    BY <1>1, <1>2 DEF LostSound
  <2>. QED BY <2>1, <2>2, <2>3, <2>4, <2>5
<1>3. CASE /\ \E i \in 1..Len(queue) : queue[i] = c /\ queue' = RemoveAt(queue, i)
           /\ CancelledIn({c})
  <2>1. PICK i \in 1..Len(queue) : queue[i] = c /\ queue' = RemoveAt(queue, i)
    BY <1>3
  <2>2. /\ queue' \in Seq(Call) /\ Len(queue') = Len(queue) - 1
        /\ \A j \in 1..(Len(queue) - 1) :
              queue'[j] = IF j < i THEN queue[j] ELSE queue[j + 1]
    BY <2>1, RemoveAtLemma DEF Shape
  <2>3. Len(queue) \in Nat /\ \A j \in 1..Len(queue) : queue[j] \in Call
    BY LenProperties, ElementOfSeq DEF Shape
  <2>4. work' = [d \in Call |-> IF d = c THEN "never" ELSE work[d]]
    BY <1>3 DEF CancelledIn
  <2>5. work[c] = "queued"
    BY <2>1 DEF QueueSound
  <2>6. Shape'
    <3>2. ledger' \in [Counter -> Int] /\ lost' \in LostNotes
      BY <1>3, FS_Singleton, CancelledLedger
    <3>3. work' \in [Call -> Work]
      BY <2>4 DEF Shape, Work
    <3>. QED BY <1>1, <2>2, <3>2, <3>3 DEF Shape
  <2>7. QueueSound'
    <3>1. \A j \in 1..Len(queue') : \E k \in 1..Len(queue) :
             k # i /\ queue'[j] = queue[k] /\ k = (IF j < i THEN j ELSE j + 1)
      BY <2>2, <2>3
    <3>2. \A k \in 1..Len(queue) : k # i => queue[k] # c
      BY <2>1 DEF QueueSound
    <3>3. \A j \in 1..Len(queue') : work'[queue'[j]] = "queued"
      BY <2>3, <2>4, <3>1, <3>2 DEF QueueSound
    <3>4. ASSUME NEW j \in 1..Len(queue'), NEW k \in 1..Len(queue'),
                 queue'[j] = queue'[k]
          PROVE  j = k
      <4>1. PICK a \in 1..Len(queue) :
               queue'[j] = queue[a] /\ a = (IF j < i THEN j ELSE j + 1)
        BY <3>1
      <4>2. PICK b \in 1..Len(queue) :
               queue'[k] = queue[b] /\ b = (IF k < i THEN k ELSE k + 1)
        BY <3>1
      <4>3. a = b
        BY <3>4, <4>1, <4>2 DEF QueueSound
      <4>. QED BY <4>1, <4>2, <4>3, <2>2, <2>3
    <3>. QED BY <3>3, <3>4 DEF QueueSound
  <2>8. Lifecycle'
    <3>1. Busy' \subseteq Busy
      BY <2>4 DEF Busy
    <3>. QED BY <1>1, <2>4, <3>1 DEF Lifecycle
  <2>9. Calls'
    <3>1. IsFiniteSet(Accepted')
      BY <2>4, AcceptedLemma
    <3>2. receipt' \subseteq Executed'
      BY <1>1, <2>4, <2>5 DEF Calls, Executed
    <3>. QED BY <1>1, <2>4, <3>1, <3>2 DEF Calls, Shape
  <2>10. LostSound'
    BY <1>1, <1>3, <2>5, CancelledLost
  <2>. QED BY <2>6, <2>7, <2>8, <2>9, <2>10
<1>. QED BY <1>2, <1>3 DEF CallerCancelled

LEMMA DequeueSteps ==
    ASSUME Structure, NEW c \in Call, Dequeues(c)
    PROVE  Structure'
<1>. USE DEF Structure
<1>1. /\ queue # <<>> /\ c = Head(queue) /\ queue' = Tail(queue)
      /\ work' = [work EXCEPT ![c] = "dequeued"]
      /\ UNCHANGED <<lifespan, running, loop, threads, receipt, leaked, caller,
                     ledger, lost>>
  BY DEF Dequeues
<1>2. /\ Len(queue) \in Nat /\ Len(queue) >= 1
      /\ \A i \in 1..Len(queue) : queue[i] \in Call
      /\ queue' \in Seq(Call) /\ Len(queue') = Len(queue) - 1
      /\ \A i \in 1..Len(queue') : queue'[i] = queue[i + 1]
      /\ queue[1] = c
  BY <1>1, NonEmptyLemma, LenProperties, ElementOfSeq, HeadTailProperties DEF Shape
<1>3. work[c] = "queued"
  BY <1>2 DEF QueueSound
<1>4. running
  BY <1>3 DEF Lifecycle
<1>5. Shape'
  BY <1>1, <1>2 DEF Shape, Work
<1>6. QueueSound'
  <2>1. \A i \in 1..Len(queue') : i + 1 \in 1..Len(queue) /\ queue[i + 1] # c
    BY <1>2 DEF QueueSound
  <2>2. \A i \in 1..Len(queue') : work'[queue'[i]] = "queued"
    BY <1>1, <1>2, <2>1 DEF QueueSound, Shape
  <2>3. \A i, j \in 1..Len(queue') : queue'[i] = queue'[j] => i = j
    BY <1>2, <2>1 DEF QueueSound
  <2>. QED BY <2>2, <2>3 DEF QueueSound
<1>7. Lifecycle'
  BY <1>1, <1>4 DEF Lifecycle, Shape
<1>8. Calls'
  <2>1. IsFiniteSet(Accepted')
    BY <1>1, AcceptedLemma DEF Shape
  <2>2. receipt' \subseteq Executed'
    BY <1>1, <1>3 DEF Calls, Executed, Shape
  <2>. QED BY <1>1, <1>3, <2>1, <2>2 DEF Calls, Shape
<1>9. LostSound'
  BY <1>1, <1>3, LostKept
<1>. QED BY <1>5, <1>6, <1>7, <1>8, <1>9

LEMMA ThreadSteps ==
    ASSUME Structure, NEW c \in Call,
           NotesStart(c) \/ Records(c) \/ Unrecorded(c) \/ Finishes(c)
    PROVE  Structure'
<1>. USE DEF Structure
<1>1. /\ UNCHANGED <<lifespan, running, loop, queue, threads, leaked, caller>>
      /\ work[c] \in {"dequeued", "executing", "recorded"}
      /\ \E w \in {"executing", "recorded", "done"} : work' = [work EXCEPT ![c] = w]
      /\ receipt' \in {receipt, receipt \cup {c}}
  BY DEF NotesStart, Records, Unrecorded, Finishes
<1>2. Shape'
  <2>1. ledger' \in [Counter -> Int]
    <3>0. /\ ledger \in [Counter -> Int]
          /\ ledger.started \in Int /\ ledger.in_flight \in Int /\ ledger.count \in Int
      BY LedgerFields DEF Shape
    <3>1. CASE NotesStart(c)
      <4>1. \/ ledger' = [ledger EXCEPT !.started = @ + 1, !.in_flight = @ + 1]
            \/ ledger' = ledger
        BY <3>1 DEF NotesStart
      <4>2. ledger.started + 1 \in Int /\ ledger.in_flight + 1 \in Int
        BY <3>0
      <4>. QED BY <3>0, <4>1, <4>2, LedgerUpdate
    <3>2. CASE Records(c)
      <4>. DEFINE v == IF c \in receipt THEN ledger.in_flight - 1 ELSE ledger.in_flight
      <4>1. \/ ledger' = [ledger EXCEPT !.in_flight = v, !.count = ledger.count + 1]
            \/ ledger' = [ledger EXCEPT !.in_flight = v, !.in_flight = v]
        BY <3>2 DEF Records
      <4>2. v \in Int /\ ledger.count + 1 \in Int
        BY <3>0
      <4>. HIDE DEF v
      <4>. QED BY <3>0, <4>1, <4>2, LedgerUpdate
    <3>3. CASE Unrecorded(c) \/ Finishes(c)
      BY <3>3 DEF Shape, Unrecorded, Finishes
    <3>. QED BY <3>1, <3>2, <3>3
  <2>2. work' \in [Call -> Work]
    BY <1>1 DEF Shape, Work
  <2>3. lost' \in LostNotes
    <3>1. \/ lost' = lost \/ Loses({}, {}, {c}) \/ Loses({}, {c} \cap receipt, {c})
      BY DEF NotesStart, Records, Unrecorded, Finishes
    <3>. QED BY <3>1, LosesTyped DEF Shape
  <2>. QED BY <1>1, <2>1, <2>2, <2>3 DEF Shape
<1>3. QueueSound'
  BY <1>1, QueueKept DEF Shape
<1>4. Lifecycle'
  <2>1. lifespan # "down"
    BY <1>1 DEF Lifecycle, Busy
  <2>. QED BY <1>1, <2>1 DEF Lifecycle, Shape
<1>5. Calls'
  <2>1. IsFiniteSet(Accepted')
    BY <1>1, AcceptedLemma DEF Shape
  <2>2. receipt' \subseteq Executed'
    BY <1>1 DEF Calls, Executed, Shape
  <2>. QED BY <1>1, <2>1, <2>2 DEF Calls, Shape
<1>6. LostSound'
  <2>1. CASE NotesStart(c)
    BY <2>1, LostKept DEF NotesStart
  <2>2. CASE Finishes(c)
    BY <2>2, LostKept DEF Finishes
  <2>3. CASE Records(c) \/ Unrecorded(c)
    <3>1. /\ work' = [work EXCEPT ![c] = "recorded"] /\ receipt' = receipt
          /\ leaked' = leaked /\ work[c] \in {"dequeued", "executing"}
      BY <2>3 DEF Records, Unrecorded
    <3>2. \/ lost' = lost
          \/ /\ lost'.depth = lost.depth
             /\ lost'.gauge \in {lost.gauge, lost.gauge \cup ({c} \cap receipt)}
             /\ lost'.count = lost.count \cup {c}
      BY <2>3 DEF Records, Unrecorded, Loses
    <3>. QED BY <3>1, <3>2 DEF LostSound, Shape
  <2>. QED BY <2>1, <2>2, <2>3
<1>. QED BY <1>2, <1>3, <1>4, <1>5, <1>6

LEMMA LifespanSteps ==
    ASSUME Structure,
           Reset \/ Starts \/ Serves \/ BeginShutdown \/ AwaitShutdown \/ UNCHANGED vars
    PROVE  Structure'
<1>. USE DEF Structure
<1>1. CASE Reset \/ UNCHANGED vars
  <2>1. UNCHANGED <<lifespan, running, loop, queue, threads, work, receipt,
                    leaked, caller>>
    BY <1>1 DEF Reset, vars
  <2>2. ledger' \in [Counter -> Int]
    BY <1>1 DEF Reset, vars, Shape, ZeroLedger, Counter
  <2>3. lost' = lost \/ lost' = [lost EXCEPT !.count = {}]
    BY <1>1 DEF Reset, vars
  <2>4. Shape'
    BY <2>1, <2>2, <2>3 DEF Shape, LostNotes
  <2>5. QueueSound' /\ Lifecycle' /\ Calls'
    BY <2>1 DEF QueueSound, Lifecycle, Calls, Busy, Executed, Accepted
  <2>6. LostSound'
    BY <2>1, <2>3 DEF LostSound, Shape, LostNotes
  <2>. QED BY <2>4, <2>5, <2>6
<1>2. CASE Starts \/ Serves
  <2>1. /\ UNCHANGED <<loop, queue, threads, work, receipt, leaked, caller, ledger,
                       lost>>
        /\ running' /\ lifespan' \in {"starting", "serving"}
    BY <1>2 DEF Starts, Serves, Lifecycle
  <2>2. Shape'
    BY <1>2, <2>1 DEF Shape, Starts, Serves
  <2>3. QueueSound' /\ Lifecycle' /\ Calls' /\ LostSound'
    BY <2>1 DEF QueueSound, Lifecycle, Calls, Busy, Executed, Accepted, LostSound
  <2>. QED BY <2>2, <2>3
<1>3. CASE BeginShutdown
  <2>. DEFINE cs == {c \in Call : work[c] = "queued"}
  <2>1. /\ lifespan' = "draining" /\ running' = FALSE /\ queue' = <<>>
        /\ loop = NoCall /\ CancelledIn(cs)
        /\ UNCHANGED <<loop, threads, receipt, leaked, caller>>
    BY <1>3 DEF BeginShutdown
  <2>2. work' = [c \in Call |-> IF c \in cs THEN "never" ELSE work[c]]
    BY <2>1 DEF CancelledIn
  <2>3. IsFiniteSet(cs)
    <3>1. cs \in SUBSET Accepted
      BY DEF Accepted
    <3>. QED BY <3>1, FS_Subset DEF Calls
  <2>4. Shape'
    <3>1. ledger' \in [Counter -> Int] /\ lost' \in LostNotes
      BY <2>1, <2>3, CancelledLedger
    <3>2. work' \in [Call -> Work]
      BY <2>2 DEF Shape, Work
    <3>3. queue' \in Seq(Call)
      BY <2>1, EmptySeq
    <3>. QED BY <2>1, <3>1, <3>2, <3>3 DEF Shape
  <2>5. QueueSound'
    BY <2>1, EmptySeq DEF QueueSound
  <2>6. Lifecycle'
    BY <2>1, <2>2 DEF Lifecycle
  <2>7. Calls'
    <3>1. Accepted' = Accepted
      BY <2>2 DEF Accepted
    <3>2. receipt' \subseteq Executed'
      BY <2>1, <2>2 DEF Calls, Executed
    <3>. QED BY <2>1, <2>2, <3>1, <3>2 DEF Calls
  <2>8. LostSound'
    BY <2>1, CancelledLost
  <2>. QED BY <2>4, <2>5, <2>6, <2>7, <2>8
<1>4. CASE AwaitShutdown
  <2>1. /\ UNCHANGED <<running, loop, queue, work, receipt, leaked, caller, ledger,
                       lost>>
        /\ lifespan = "draining" /\ lifespan' = "down" /\ Busy = {} /\ threads' = 0
    BY <1>4 DEF AwaitShutdown
  <2>2. Shape'
    BY <2>1, WorkersAssumption DEF Shape
  <2>3. QueueSound' /\ Lifecycle' /\ Calls' /\ LostSound'
    BY <2>1 DEF QueueSound, Lifecycle, Calls, Busy, Executed, Accepted, LostSound
  <2>. QED BY <2>2, <2>3
<1>. QED BY <1>1, <1>2, <1>3, <1>4

LEMMA StructureNext == Structure /\ [Next]_vars => Structure'
<1>. SUFFICES ASSUME Structure, [Next]_vars PROVE Structure'
  OBVIOUS
<1>1. ASSUME NEW c \in Call,
             \/ NotReady(c) \/ Reserves(c) \/ Submission(c) \/ Gets(c)
             \/ CallerCancelled(c) \/ WorkerSteps(c)
      PROVE  Structure'
  BY <1>1, CallerSteps, EnqueueSteps, CancelledSteps, DequeueSteps, ThreadSteps
     DEF Submission, WorkerSteps
<1>2. CASE Reset \/ Starts \/ Serves \/ BeginShutdown \/ AwaitShutdown \/ UNCHANGED vars
  BY <1>2, LifespanSteps
<1>. QED BY <1>1, <1>2 DEF Next

LEMMA StructureHolds == Spec => []Structure
  BY StructureInit, StructureNext, PTL DEF Spec

-----------------------------------------------------------------------------
\* A pool is never started while a thread of the previous one is at work or an
\* item of its queue is left (PoolsNeverOverlap): the lifespan joins the threads
\* before it ends.
THEOREM PoolsSeparated == Spec => PoolsNeverOverlap
<1>1. Structure /\ [Next]_vars => [~running /\ running' => Busy = {} /\ queue = <<>>]_vars
  <2>. SUFFICES ASSUME Structure, Next, ~running, running'
                PROVE  Busy = {} /\ queue = <<>>
    OBVIOUS
  <2>1. Starts
    BY DEF Next, Submission, WorkerSteps, NotReady, Reserves, Submits, SubmitFails,
           ThreadRefused, Awaits, Gets, CallerCancelled, Dequeues, NotesStart,
           Records, Unrecorded, Finishes, Reset, Starts, Serves, BeginShutdown, AwaitShutdown
  <2>2. Busy = {}
    BY <2>1 DEF Starts, Structure, Lifecycle
  <2>. QED BY <2>2, StoppedQueueEmpty
<1>. QED BY <1>1, StructureHolds, PTL DEF Spec, PoolsNeverOverlap

-----------------------------------------------------------------------------
(* The ledger counts calls                                                  *)

Executing == {c \in receipt : work[c] = "executing"}

Balance ==
    /\ Queued = Cardinality(Waiting) + Cardinality(Unentered) + Cardinality(lost.depth)
    /\ ledger.count + Cardinality(lost.count)
          = ledger.started - ledger.in_flight + Cardinality(lost.gauge)
            + ledger.never_started + Cardinality(Unstruck) + Cardinality(UnenteredDone)

Counted == ledger \in [Counter -> Nat] /\ InFlightAccounted /\ LedgerBalanced

LEMMA CountedFinite ==
    ASSUME Structure
    PROVE  /\ IsFiniteSet(Waiting) /\ Cardinality(Waiting) \in Nat
           /\ IsFiniteSet(Unentered) /\ Cardinality(Unentered) \in Nat
           /\ IsFiniteSet(UnenteredDone) /\ Cardinality(UnenteredDone) \in Nat
           /\ IsFiniteSet(Executing) /\ Cardinality(Executing) \in Nat
           /\ IsFiniteSet(Unstruck) /\ Cardinality(Unstruck) \in Nat
           /\ IsFiniteSet(lost.depth) /\ Cardinality(lost.depth) \in Nat
           /\ IsFiniteSet(lost.gauge) /\ Cardinality(lost.gauge) \in Nat
           /\ IsFiniteSet(lost.count) /\ Cardinality(lost.count) \in Nat
<1>1. IsFiniteSet(Accepted)
  BY DEF Structure, Calls
<1>2. /\ Waiting \in SUBSET Accepted /\ Unentered \in SUBSET Accepted
      /\ UnenteredDone \in SUBSET Accepted /\ Executing \in SUBSET Accepted
  BY DEF Accepted, Waiting, Unentered, UnenteredDone, Executed, Executing,
         Structure, Shape
<1>3. /\ lost.depth \in SUBSET Accepted /\ lost.gauge \in SUBSET Accepted
      /\ lost.count \in SUBSET Accepted /\ Unstruck \in SUBSET Accepted
  BY LostFields DEF Accepted, Unstruck, Structure, Shape, LostSound
<1>4. /\ IsFiniteSet(Waiting) /\ IsFiniteSet(Unentered)
      /\ IsFiniteSet(UnenteredDone) /\ IsFiniteSet(Executing)
      /\ IsFiniteSet(lost.depth) /\ IsFiniteSet(lost.gauge)
      /\ IsFiniteSet(lost.count) /\ IsFiniteSet(Unstruck)
  BY <1>1, <1>2, <1>3, FS_Subset
<1>. QED BY <1>4, FS_CardinalityType

LEMMA CountedUnfold ==
    Counted <=> /\ ledger \in [Counter -> Nat]
                /\ ledger.in_flight = Cardinality(Executing) + Cardinality(lost.gauge)
                /\ leaked = {} => Balance
  BY DEF Counted, InFlightAccounted, LedgerBalanced, Balance, Executing

LEMMA CountedFold ==
    ASSUME ledger' \in [Counter -> Nat],
           ledger'.in_flight = Cardinality(Executing') + Cardinality(lost'.gauge),
           leaked' = {} => Balance'
    PROVE  Counted'
  BY DEF Counted, InFlightAccounted, LedgerBalanced, Balance, Executing

LEMMA NatFields ==
    ASSUME NEW l \in [Counter -> Nat]
    PROVE  /\ l.submitted \in Nat /\ l.submit_failed \in Nat /\ l.started \in Nat
           /\ l.never_started \in Nat /\ l.in_flight \in Nat /\ l.count \in Nat
  BY DEF Counter

LEMMA CountedInit == Init => Counted
<1>. SUFFICES ASSUME Init PROVE Counted
  OBVIOUS
<1>1. Waiting = {} /\ Unentered = {} /\ UnenteredDone = {} /\ Executing = {}
  BY DEF Init, Waiting, Unentered, UnenteredDone, Executed, Executing
<1>2. lost.depth = {} /\ lost.gauge = {} /\ lost.count = {} /\ Unstruck = {}
  BY DEF Init, Unstruck
<1>3. /\ ledger \in [Counter -> Nat]
      /\ ledger.submitted = 0 /\ ledger.submit_failed = 0 /\ ledger.started = 0
      /\ ledger.never_started = 0 /\ ledger.in_flight = 0 /\ ledger.count = 0
  BY DEF Init, ZeroLedger, Counter
<1>4. Balance
  BY <1>1, <1>2, <1>3, FS_EmptySet DEF Balance, Queued
<1>. QED BY <1>1, <1>2, <1>3, <1>4, FS_EmptySet, CountedUnfold

\* What a step does to one of the sets, in terms of its cardinality.
LEMMA Gain ==
    ASSUME NEW S, IsFiniteSet(S), NEW c, c \notin S
    PROVE  Cardinality(S \cup {c}) = Cardinality(S) + 1
  BY FS_AddElement

LEMMA Loss ==
    ASSUME NEW S, IsFiniteSet(S), NEW c \in S
    PROVE  Cardinality(S \ {c}) = Cardinality(S) - 1
  BY FS_RemoveElement

LEMMA Join ==
    ASSUME NEW S, IsFiniteSet(S), NEW T, IsFiniteSet(T), S \cap T = {}
    PROVE  Cardinality(S \cup T) = Cardinality(S) + Cardinality(T)
<1>1. Cardinality(S) \in Nat /\ Cardinality(T) \in Nat
  BY FS_CardinalityType
<1>2. Cardinality(S \cup T) = Cardinality(S) + Cardinality(T) - Cardinality(S \cap T)
  BY FS_Union
<1>3. Cardinality(S \cap T) = 0
  BY FS_EmptySet
<1>. QED BY <1>1, <1>2, <1>3

LEMMA Remainder ==
    ASSUME NEW S, IsFiniteSet(S), NEW T \in SUBSET S
    PROVE  Cardinality(S \ T) = Cardinality(S) - Cardinality(T)
<1>1. Cardinality(S \ T) = Cardinality(S) - Cardinality(S \cap T)
  BY FS_Difference
<1>2. S \cap T = T
  OBVIOUS
<1>. QED BY <1>1, <1>2

\* A step that changes neither the ledger nor one of the sets.
LEMMA SilentSteps ==
    ASSUME Structure, Counted, ledger' = ledger, leaked' = leaked, lost' = lost,
           Waiting' = Waiting, Unentered' = Unentered, Unstruck' = Unstruck,
           UnenteredDone' = UnenteredDone, Executing' = Executing
    PROVE  Counted'
<1>1. leaked = {} => Balance
  BY CountedUnfold
<1>2. leaked' = {} => Balance'
  BY <1>1 DEF Balance, Queued
<1>3. ledger \in [Counter -> Nat]
      /\ ledger.in_flight = Cardinality(Executing) + Cardinality(lost.gauge)
  BY CountedUnfold
<1>. QED BY <1>2, <1>3, CountedFold

LEMMA QuietSteps ==
    ASSUME Structure, Counted,
           \/ \E c \in Call : \/ NotReady(c) \/ Submits(c) \/ Awaits(c) \/ Gets(c)
                              \/ Dequeues(c) \/ Finishes(c)
           \/ Starts \/ Serves \/ AwaitShutdown \/ UNCHANGED vars
    PROVE  Counted'
<1>1. CASE \/ \E c \in Call : NotReady(c) \/ Awaits(c) \/ Gets(c)
           \/ Starts \/ Serves \/ AwaitShutdown \/ UNCHANGED vars
  <2>1. UNCHANGED <<work, receipt, leaked, ledger, lost>>
    BY <1>1 DEF NotReady, Awaits, Gets, Starts, Serves, AwaitShutdown, vars
  <2>2. /\ Waiting' = Waiting /\ Unentered' = Unentered /\ Unstruck' = Unstruck
        /\ UnenteredDone' = UnenteredDone /\ Executing' = Executing
    BY <2>1 DEF Waiting, Unentered, UnenteredDone, Executed, Executing, Unstruck
  <2>. QED BY <2>1, <2>2, SilentSteps
<1>2. ASSUME NEW c \in Call, Submits(c) \/ Dequeues(c) \/ Finishes(c)
      PROVE  Counted'
  <2>1. UNCHANGED <<receipt, leaked, ledger, lost>>
    BY <1>2 DEF Submits, Dequeues, Finishes
  <2>2. \/ /\ work[c] \in {"reserved", "queued"}
           /\ \E w \in {"queued", "dequeued"} : work' = [work EXCEPT ![c] = w]
        \/ work[c] = "recorded" /\ work' = [work EXCEPT ![c] = "done"]
    <3>1. CASE Dequeues(c)
      <4>1. queue # <<>> /\ c = Head(queue) /\ queue \in Seq(Call)
        BY <3>1 DEF Dequeues, Structure, Shape
      <4>2. 1 \in 1..Len(queue) /\ c = queue[1]
        BY <4>1, NonEmptyLemma, LenProperties
      <4>3. work[c] = "queued"
        BY <4>2 DEF Structure, QueueSound
      <4>. QED BY <3>1, <4>3 DEF Dequeues
    <3>. QED BY <1>2, <3>1 DEF Submits, Finishes
  <2>3. /\ Waiting' = Waiting /\ Unentered' = Unentered
        /\ UnenteredDone' = UnenteredDone /\ Executing' = Executing
    BY <2>1, <2>2
       DEF Waiting, Unentered, UnenteredDone, Executed, Executing, Structure, Shape
  <2>4. Unstruck' = Unstruck
    <3>1. \A d \in Call : work'[d] = "never" <=> work[d] = "never"
      BY <2>2 DEF Structure, Shape
    <3>. QED BY <2>1, <3>1, LostFields DEF Unstruck, Structure, Shape
  <2>. QED BY <2>1, <2>3, <2>4, SilentSteps
<1>. QED BY <1>1, <1>2

\* The unprimed side of every step below.
LEMMA CountedNow ==
    ASSUME Structure, Counted
    PROVE  /\ Cardinality(Waiting) \in Nat /\ Cardinality(Unentered) \in Nat
           /\ Cardinality(UnenteredDone) \in Nat /\ Cardinality(Executing) \in Nat
           /\ Cardinality(Unstruck) \in Nat /\ Cardinality(lost.depth) \in Nat
           /\ Cardinality(lost.gauge) \in Nat /\ Cardinality(lost.count) \in Nat
           /\ ledger \in [Counter -> Nat]
           /\ ledger.submitted \in Nat /\ ledger.submit_failed \in Nat
           /\ ledger.started \in Nat /\ ledger.never_started \in Nat
           /\ ledger.in_flight \in Nat /\ ledger.count \in Nat
           /\ ledger.in_flight = Cardinality(Executing) + Cardinality(lost.gauge)
           /\ leaked = {} => Balance
<1>1. ledger \in [Counter -> Nat]
  BY CountedUnfold
<1>. QED BY <1>1, CountedUnfold, CountedFinite, NatFields

LEMMA ReserveSteps ==
    ASSUME Structure, Counted, NEW c \in Call, Reserves(c)
    PROVE  Counted'
<1>1. /\ work[c] = "absent" /\ work' = [work EXCEPT ![c] = "reserved"]
      /\ ledger' = [ledger EXCEPT !.submitted = ledger.submitted + 1]
      /\ UNCHANGED <<receipt, leaked, lost>>
  BY NoCallAssumption DEF Reserves, Structure, Calls
<1>2. /\ Unentered' = Unentered /\ UnenteredDone' = UnenteredDone
      /\ Executing' = Executing /\ Unstruck' = Unstruck
  BY <1>1 DEF Unentered, UnenteredDone, Executed, Executing, Unstruck, Structure, Shape
<1>3. Cardinality(Waiting') = Cardinality(Waiting) + 1
  <2>1. c \notin Waiting /\ Waiting' = Waiting \cup {c}
    BY <1>1 DEF Waiting, Structure, Shape
  <2>. QED BY <2>1, CountedFinite, Gain
<1>4. /\ ledger' \in [Counter -> Nat]
      /\ ledger'.submitted = ledger.submitted + 1
      /\ ledger'.submit_failed = ledger.submit_failed
      /\ ledger'.started = ledger.started
      /\ ledger'.never_started = ledger.never_started
      /\ ledger'.in_flight = ledger.in_flight /\ ledger'.count = ledger.count
  BY <1>1, CountedNow DEF Counter
<1>5. lost' = lost
  BY <1>1
<1>6. ASSUME leaked' = {} PROVE Balance'
  <2>1. Balance
    BY <1>1, <1>6, CountedNow
  <2>. QED BY <1>2, <1>3, <1>4, <1>5, <2>1, CountedNow DEF Balance, Queued
<1>. QED BY <1>1, <1>2, <1>4, <1>6, CountedNow, CountedFold

\* A failed submit is entered, or the depth still holds the call.
LEMMA FailureSteps ==
    ASSUME Structure, Counted, NEW c \in Call, SubmitFails(c) \/ ThreadRefused(c)
    PROVE  Counted'
<1>1. /\ work[c] = "reserved" /\ receipt' = receipt /\ NotesSubmitFailed(c)
      /\ \E x \in {"failed", "queued"} : work' = [work EXCEPT ![c] = x]
  BY DEF SubmitFails, ThreadRefused
<1>2. lost'.gauge = lost.gauge /\ lost'.count = lost.count
  BY <1>1 DEF NotesSubmitFailed, Loses
<1>3. c \notin lost.depth
  BY <1>1 DEF Structure, LostSound
<1>4. /\ Unentered' = Unentered /\ UnenteredDone' = UnenteredDone
      /\ Executing' = Executing
  BY <1>1 DEF Unentered, UnenteredDone, Executed, Executing, Structure, Shape
<1>5. lost'.depth \in {lost.depth, lost.depth \cup {c}}
  BY <1>1 DEF NotesSubmitFailed, Loses
<1>6. Unstruck' = Unstruck
  <2>1. lost.depth \subseteq Call
    BY LostFields DEF Structure, Shape
  <2>. QED BY <1>1, <1>5, <2>1 DEF Unstruck, Structure, Shape
<1>7. /\ ledger' \in [Counter -> Nat]
      /\ ledger'.submitted = ledger.submitted
      /\ ledger'.started = ledger.started
      /\ ledger'.never_started = ledger.never_started
      /\ ledger'.in_flight = ledger.in_flight /\ ledger'.count = ledger.count
      /\ \/ ledger'.submit_failed = ledger.submit_failed + 1 /\ lost' = lost
         \/ ledger'.submit_failed = ledger.submit_failed /\ lost'.depth = lost.depth \cup {c}
  <2>1. CASE ledger' = [ledger EXCEPT !.submit_failed = @ + 1] /\ lost' = lost
    <3>1. ledger' = [ledger EXCEPT !.submit_failed = ledger.submit_failed + 1]
      BY <2>1
    <3>. QED BY <2>1, <3>1, CountedNow DEF Counter
  <2>2. CASE ledger' = ledger /\ Loses({c}, {}, {})
    BY <2>2, CountedNow DEF Loses
  <2>. QED BY <1>1, <2>1, <2>2 DEF NotesSubmitFailed
<1>8. leaked' = {} => Balance'
  <2>1. CASE SubmitFails(c)
    <3>1. leaked' = leaked /\ work' = [work EXCEPT ![c] = "failed"]
      BY <2>1 DEF SubmitFails
    <3>2. Cardinality(Waiting') = Cardinality(Waiting) - 1
      <4>1. c \in Waiting /\ Waiting' = Waiting \ {c}
        BY <1>1, <3>1 DEF Waiting, Structure, Shape
      <4>. QED BY <4>1, CountedFinite, Loss
    <3>3. Cardinality(lost.depth \cup {c}) = Cardinality(lost.depth) + 1
      BY <1>3, CountedFinite, Gain
    <3>4. ASSUME leaked' = {} PROVE Balance'
      <4>1. Balance
        BY <3>1, <3>4, CountedNow
      <4>2. /\ ledger'.submit_failed + Cardinality(lost'.depth)
                  = ledger.submit_failed + Cardinality(lost.depth) + 1
            /\ ledger'.submit_failed \in Nat /\ Cardinality(lost'.depth) \in Nat
        <5>1. ledger.submit_failed \in Nat /\ Cardinality(lost.depth) \in Nat
          BY CountedNow
        <5>2. CASE ledger'.submit_failed = ledger.submit_failed + 1 /\ lost' = lost
          <6>1. lost'.depth = lost.depth
            BY <5>2
          <6>. QED BY <5>1, <5>2, <6>1
        <5>3. CASE /\ ledger'.submit_failed = ledger.submit_failed
                   /\ lost'.depth = lost.depth \cup {c}
          BY <5>1, <5>3, <3>3
        <5>. QED BY <1>7, <5>2, <5>3
      <4>. QED BY <1>2, <1>4, <1>6, <1>7, <3>2, <4>1, <4>2, CountedNow
               DEF Balance, Queued
    <3>. QED BY <3>4
  <2>2. CASE ThreadRefused(c)
    BY <2>2 DEF ThreadRefused
  <2>. QED BY <2>1, <2>2
<1>. QED BY <1>2, <1>4, <1>7, <1>8, CountedNow, CountedFold

\* Each cancelled call is struck or still in the depth, and counted or lacking
\* in the count.
LEMMA CancelSteps ==
    ASSUME Structure, Counted, NEW cs \in SUBSET Call,
           \A c \in cs : work[c] = "queued",
           CancelledIn(cs), UNCHANGED <<receipt, leaked>>
    PROVE  Counted'
<1>. DEFINE ns == cs \ leaked
<1>1. work' = [c \in Call |-> IF c \in cs THEN "never" ELSE work[c]]
  BY DEF CancelledIn
<1>2. /\ Unentered' = Unentered /\ UnenteredDone' = UnenteredDone
      /\ Executing' = Executing /\ Waiting' = Waiting \ cs
      /\ cs \subseteq Waiting
  BY <1>1 DEF Unentered, UnenteredDone, Executed, Executing, Waiting, Structure, Shape
<1>3. IsFiniteSet(cs) /\ IsFiniteSet(ns) /\ (leaked = {} => ns = cs)
  <2>1. IsFiniteSet(cs)
    BY <1>2, CountedFinite, FS_Subset
  <2>. QED BY <2>1, FS_Difference
<1>4. PICK un \in SUBSET ns : \E uc \in SUBSET un :
        /\ ledger' = [ledger EXCEPT !.never_started = @ + Cardinality(ns \ un),
                                    !.count = @ + Cardinality(ns \ uc)]
        /\ Loses(un, {}, uc)
  BY DEF CancelledIn, NotesCancelled
<1>5. PICK uc \in SUBSET un :
        /\ ledger' = [ledger EXCEPT !.never_started = @ + Cardinality(ns \ un),
                                    !.count = @ + Cardinality(ns \ uc)]
        /\ Loses(un, {}, uc)
  BY <1>4
<1>6. IsFiniteSet(un) /\ IsFiniteSet(uc)
  BY <1>3, FS_Subset
<1>. DEFINE z == Cardinality(cs)
            s == Cardinality(ns \ un)
            k == Cardinality(ns \ uc)
            u == Cardinality(un)
            v == Cardinality(uc)
<1>7. z \in Nat /\ s \in Nat /\ k \in Nat /\ u \in Nat /\ v \in Nat
  <2>1. IsFiniteSet(ns \ un) /\ IsFiniteSet(ns \ uc)
    BY <1>3, FS_Difference
  <2>. QED BY <1>3, <1>6, <2>1, FS_CardinalityType
<1>8. leaked = {} => s = z - u /\ k = z - v
  BY <1>3, Remainder
<1>9. Cardinality(Waiting') = Cardinality(Waiting) - z
  BY <1>2, CountedFinite, Remainder
<1>10. /\ lost'.depth = lost.depth \cup un /\ lost'.gauge = lost.gauge
       /\ lost'.count = lost.count \cup uc
  BY <1>5 DEF Loses
<1>11. /\ lost.depth \cap un = {} /\ lost.count \cap uc = {} /\ Unstruck \cap un = {}
       /\ leaked = {} => Unstruck' = Unstruck \cup un
  <2>1. lost.depth \subseteq Call
    BY LostFields DEF Structure, Shape
  <2>2. \A c \in un : work[c] = "queued" /\ c \notin leaked /\ work'[c] = "never"
    BY <1>1
  <2>3. \A c \in un : c \notin lost.depth /\ c \notin lost.count
    BY <2>2 DEF Structure, LostSound
  <2>4. Unstruck \cap un = {}
    BY <2>3 DEF Unstruck
  <2>5. ASSUME leaked = {} PROVE Unstruck' = Unstruck \cup un
    <3>1. \A c \in lost.depth : c \notin cs
      BY <2>1, <2>5 DEF Structure, LostSound
    <3>2. \A c \in lost.depth : work'[c] = work[c]
      BY <1>1, <2>1, <3>1
    <3>. QED BY <1>10, <2>2, <3>2 DEF Unstruck
  <2>. QED BY <2>3, <2>4, <2>5
<1>12. /\ Cardinality(lost'.depth) = Cardinality(lost.depth) + u
       /\ Cardinality(lost'.count) = Cardinality(lost.count) + v
       /\ leaked = {} => Cardinality(Unstruck') = Cardinality(Unstruck) + u
  BY <1>6, <1>10, <1>11, CountedFinite, Join
<1>13. ledger' = [ledger EXCEPT !.never_started = ledger.never_started + s,
                                !.count = ledger.count + k]
  BY <1>5
<1>. HIDE DEF z, s, k, u, v
<1>14. /\ ledger' \in [Counter -> Nat]
       /\ ledger'.submitted = ledger.submitted
       /\ ledger'.submit_failed = ledger.submit_failed
       /\ ledger'.started = ledger.started
       /\ ledger'.never_started = ledger.never_started + s
       /\ ledger'.in_flight = ledger.in_flight /\ ledger'.count = ledger.count + k
  <2>. DEFINE m == ledger.never_started + s
              n == ledger.count + k
  <2>1. ledger \in [Counter -> Nat] /\ m \in Nat /\ n \in Nat
    BY <1>7, CountedNow
  <2>2. ledger' = [ledger EXCEPT !.never_started = m, !.count = n]
    BY <1>13
  <2>. HIDE DEF m, n
  <2>3. /\ ledger' \in [Counter -> Nat] /\ ledger'.never_started = m /\ ledger'.count = n
        /\ ledger'.submitted = ledger.submitted /\ ledger'.submit_failed = ledger.submit_failed
        /\ ledger'.started = ledger.started /\ ledger'.in_flight = ledger.in_flight
    BY <2>1, <2>2 DEF Counter
  <2>. QED BY <2>3 DEF m, n
<1>15. leaked' = {} => Balance'
  BY <1>2, <1>7, <1>8, <1>9, <1>10, <1>12, <1>14, CountedNow DEF Balance, Queued
<1>. QED BY <1>2, <1>10, <1>14, <1>15, CountedNow, CountedFold
LEMMA StartSteps ==
    ASSUME Structure, Counted, NEW c \in Call, NotesStart(c)
    PROVE  Counted'
<1>1. /\ work[c] = "dequeued" /\ work' = [work EXCEPT ![c] = "executing"]
      /\ leaked' = leaked /\ lost' = lost /\ c \notin receipt
  BY DEF NotesStart, Structure, Calls, Executed
<1>2. Cardinality(Waiting') = Cardinality(Waiting) - 1
  <2>1. c \in Waiting /\ Waiting' = Waiting \ {c}
    BY <1>1 DEF Waiting, Structure, Shape
  <2>. QED BY <2>1, CountedFinite, Loss
<1>3. UnenteredDone' = UnenteredDone
  BY <1>1 DEF UnenteredDone, Unentered, Executed, Structure, Shape, NotesStart
<1>4. Unstruck' = Unstruck
  BY <1>1, LostFields DEF Unstruck, Structure, Shape
<1>5. CASE /\ receipt' = receipt \cup {c}
           /\ ledger' = [ledger EXCEPT !.started = @ + 1, !.in_flight = @ + 1]
  <2>1. Unentered' = Unentered
    BY <1>1, <1>5 DEF Unentered, Executed, Structure, Shape
  <2>2. c \notin Executing /\ Executing' = Executing \cup {c}
    BY <1>1, <1>5 DEF Executing, Structure, Shape
  <2>3. Cardinality(Executing') = Cardinality(Executing) + 1
    BY <2>2, CountedFinite, Gain
  <2>4. /\ ledger' \in [Counter -> Nat]
        /\ ledger'.submitted = ledger.submitted
        /\ ledger'.submit_failed = ledger.submit_failed
        /\ ledger'.started = ledger.started + 1
        /\ ledger'.never_started = ledger.never_started
        /\ ledger'.in_flight = ledger.in_flight + 1 /\ ledger'.count = ledger.count
    <3>. DEFINE m == ledger.started + 1
                n == ledger.in_flight + 1
    <3>1. ledger \in [Counter -> Nat] /\ m \in Nat /\ n \in Nat
      BY CountedNow
    <3>2. ledger' = [ledger EXCEPT !.started = m, !.in_flight = n]
      BY <1>5
    <3>. HIDE DEF m, n
    <3>3. /\ ledger' \in [Counter -> Nat] /\ ledger'.started = m /\ ledger'.in_flight = n
          /\ ledger'.submitted = ledger.submitted /\ ledger'.submit_failed = ledger.submit_failed
          /\ ledger'.never_started = ledger.never_started /\ ledger'.count = ledger.count
      BY <3>1, <3>2 DEF Counter
    <3>. QED BY <3>3 DEF m, n
  <2>5. ASSUME leaked' = {} PROVE Balance'
    <3>1. Balance
      BY <1>1, <2>5, CountedNow
    <3>. QED BY <1>1, <1>2, <1>3, <1>4, <2>1, <2>4, <3>1, CountedNow DEF Balance, Queued
  <2>. QED BY <1>1, <2>3, <2>4, <2>5, CountedNow, CountedFold
<1>6. CASE UNCHANGED <<receipt, ledger>>
  <2>1. c \notin Unentered /\ Unentered' = Unentered \cup {c}
    BY <1>1, <1>6 DEF Unentered, Executed, Structure, Shape
  <2>2. Cardinality(Unentered') = Cardinality(Unentered) + 1
    BY <2>1, CountedFinite, Gain
  <2>3. Executing' = Executing
    BY <1>1, <1>6 DEF Executing, Structure, Shape
  <2>4. ASSUME leaked' = {} PROVE Balance'
    <3>1. Balance
      BY <1>1, <2>4, CountedNow
    <3>2. ledger' = ledger
      BY <1>6
    <3>. QED BY <1>1, <1>2, <1>3, <1>4, <2>2, <3>1, <3>2, CountedNow DEF Balance, Queued
  <2>. QED BY <1>1, <1>6, <2>3, <2>4, CountedNow, CountedFold
<1>. QED BY <1>5, <1>6 DEF NotesStart

\* How the sets change at the end of an item, whatever of it is recorded.
LEMMA EndSets ==
    ASSUME Structure, NEW c \in Call, Records(c) \/ Unrecorded(c)
    PROVE  /\ leaked' = leaked /\ lost'.depth = lost.depth /\ Unstruck' = Unstruck
           /\ work[c] = "executing" => Waiting' = Waiting /\ Unentered' = Unentered
           /\ work[c] = "dequeued" =>
                 /\ c \in Waiting /\ Waiting' = Waiting \ {c} /\ c \notin receipt
                 /\ c \notin Unentered /\ Unentered' = Unentered \cup {c}
           /\ c \in receipt => /\ c \in Executing /\ Executing' = Executing \ {c}
                              /\ UnenteredDone' = UnenteredDone
           /\ c \notin receipt => /\ Executing' = Executing /\ c \notin UnenteredDone
                                 /\ UnenteredDone' = UnenteredDone \cup {c}
           /\ c \notin lost.gauge /\ c \notin lost.count
<1>1. /\ work[c] \in {"dequeued", "executing"} /\ work' = [work EXCEPT ![c] = "recorded"]
      /\ leaked' = leaked /\ receipt' = receipt
  BY DEF Records, Unrecorded
<1>2. lost'.depth = lost.depth
  BY DEF Records, Unrecorded, Loses
<1>3. Unstruck' = Unstruck
  BY <1>1, <1>2, LostFields DEF Unstruck, Structure, Shape
<1>4. c \notin lost.gauge /\ c \notin lost.count
  BY <1>1 DEF Structure, LostSound
<1>5. work[c] = "executing" => Waiting' = Waiting /\ Unentered' = Unentered
  BY <1>1 DEF Waiting, Unentered, Executed, Structure, Shape
<1>6. work[c] = "dequeued" =>
         /\ c \in Waiting /\ Waiting' = Waiting \ {c} /\ c \notin receipt
         /\ c \notin Unentered /\ Unentered' = Unentered \cup {c}
  BY <1>1 DEF Waiting, Unentered, Executed, Structure, Shape, Calls
<1>7. c \in receipt => work[c] = "executing"
  BY <1>1 DEF Structure, Calls, Executed
<1>8. c \in receipt => /\ c \in Executing /\ Executing' = Executing \ {c}
                      /\ UnenteredDone' = UnenteredDone
  BY <1>1, <1>7 DEF Executing, UnenteredDone, Unentered, Executed, Structure, Shape
<1>9. c \notin receipt => /\ Executing' = Executing /\ c \notin UnenteredDone
                         /\ UnenteredDone' = UnenteredDone \cup {c}
  BY <1>1 DEF Executing, UnenteredDone, Unentered, Executed, Structure, Shape
<1>. QED BY <1>1, <1>2, <1>3, <1>4, <1>5, <1>6, <1>8, <1>9

\* The same in numbers.
LEMMA EndSizes ==
    ASSUME Structure, NEW c \in Call, Records(c) \/ Unrecorded(c)
    PROVE  /\ Cardinality(Waiting') + Cardinality(Unentered')
                 = Cardinality(Waiting) + Cardinality(Unentered)
           /\ c \in receipt =>
                 /\ Cardinality(Executing') = Cardinality(Executing) - 1
                 /\ Cardinality(Executing') \in Nat
                 /\ Cardinality(UnenteredDone') = Cardinality(UnenteredDone)
           /\ c \notin receipt =>
                 /\ Cardinality(Executing') = Cardinality(Executing)
                 /\ Cardinality(UnenteredDone') = Cardinality(UnenteredDone) + 1
<1>1. Cardinality(Waiting') + Cardinality(Unentered')
         = Cardinality(Waiting) + Cardinality(Unentered)
  <2>1. CASE work[c] = "executing"
    BY <2>1, EndSets
  <2>2. CASE work[c] = "dequeued"
    <3>1. Cardinality(Waiting') = Cardinality(Waiting) - 1
      BY <2>2, EndSets, CountedFinite, Loss
    <3>2. Cardinality(Unentered') = Cardinality(Unentered) + 1
      BY <2>2, EndSets, CountedFinite, Gain
    <3>. QED BY <3>1, <3>2, CountedFinite
  <2>. QED BY <2>1, <2>2 DEF Records, Unrecorded
<1>2. CASE c \in receipt
  <2>1. Cardinality(Executing') = Cardinality(Executing) - 1
    BY <1>2, EndSets, CountedFinite, Loss
  <2>2. IsFiniteSet(Executing')
    BY <1>2, EndSets, CountedFinite, FS_Subset
  <2>3. Cardinality(Executing') \in Nat
    BY <2>2, FS_CardinalityType
  <2>4. Cardinality(UnenteredDone') = Cardinality(UnenteredDone)
    BY <1>2, EndSets
  <2>. QED BY <1>1, <1>2, <2>1, <2>3, <2>4
<1>3. CASE c \notin receipt
  <2>1. Cardinality(Executing') = Cardinality(Executing)
    BY <1>3, EndSets
  <2>2. Cardinality(UnenteredDone') = Cardinality(UnenteredDone) + 1
    BY <1>3, EndSets, CountedFinite, Gain
  <2>. QED BY <1>1, <1>3, <2>1, <2>2
<1>. QED BY <1>2, <1>3

\* _record lowers the gauge of a noted start; the count follows or is lost.
LEMMA RecordSteps ==
    ASSUME Structure, Counted, NEW c \in Call, Records(c)
    PROVE  Counted'
<1>. DEFINE left == IF c \in receipt THEN ledger.in_flight - 1 ELSE ledger.in_flight
<1>1. left \in Nat /\ left = Cardinality(Executing') + Cardinality(lost.gauge)
  BY EndSizes, CountedNow
<1>2. lost'.gauge = lost.gauge /\ leaked' = leaked
  BY DEF Records, Loses
<1>3. ledger.in_flight - left = IF c \in receipt THEN 1 ELSE 0
  BY CountedNow
<1>4. \/ ledger' = [ledger EXCEPT !.in_flight = left, !.count = ledger.count + 1] /\ lost' = lost
      \/ ledger' = [ledger EXCEPT !.in_flight = left] /\ Loses({}, {}, {c})
  BY DEF Records
<1>. HIDE DEF left
<1>5. /\ ledger' \in [Counter -> Nat]
      /\ ledger'.submitted = ledger.submitted
      /\ ledger'.submit_failed = ledger.submit_failed
      /\ ledger'.started = ledger.started
      /\ ledger'.never_started = ledger.never_started
      /\ ledger'.in_flight = left
      /\ ledger'.count + Cardinality(lost'.count) = ledger.count + Cardinality(lost.count) + 1
  <2>1. CASE ledger' = [ledger EXCEPT !.in_flight = left, !.count = ledger.count + 1] /\ lost' = lost
    <3>. DEFINE n == ledger.count + 1
    <3>1. ledger \in [Counter -> Nat] /\ n \in Nat /\ ledger.count \in Nat
          /\ Cardinality(lost.count) \in Nat
      BY CountedNow
    <3>2. ledger' = [ledger EXCEPT !.in_flight = left, !.count = n]
      BY <2>1
    <3>3. Cardinality(lost'.count) = Cardinality(lost.count)
      BY <2>1
    <3>. HIDE DEF n
    <3>4. /\ ledger' \in [Counter -> Nat] /\ ledger'.in_flight = left /\ ledger'.count = n
          /\ ledger'.submitted = ledger.submitted /\ ledger'.submit_failed = ledger.submit_failed
          /\ ledger'.started = ledger.started /\ ledger'.never_started = ledger.never_started
      BY <1>1, <3>1, <3>2 DEF Counter
    <3>5. n = ledger.count + 1
      BY DEF n
    <3>. QED BY <3>1, <3>3, <3>4, <3>5
  <2>2. CASE ledger' = [ledger EXCEPT !.in_flight = left] /\ Loses({}, {}, {c})
    <3>1. ledger \in [Counter -> Nat] /\ ledger.count \in Nat
          /\ Cardinality(lost.count) \in Nat
      BY CountedNow
    <3>2. lost'.count = lost.count \cup {c}
      BY <2>2 DEF Loses
    <3>3. Cardinality(lost.count \cup {c}) = Cardinality(lost.count) + 1
      BY EndSets, CountedFinite, Gain
    <3>4. /\ ledger' \in [Counter -> Nat] /\ ledger'.in_flight = left
          /\ ledger'.count = ledger.count
          /\ ledger'.submitted = ledger.submitted /\ ledger'.submit_failed = ledger.submit_failed
          /\ ledger'.started = ledger.started /\ ledger'.never_started = ledger.never_started
      BY <1>1, <2>2, <3>1 DEF Counter
    <3>. QED BY <3>1, <3>2, <3>3, <3>4
  <2>. QED BY <1>4, <2>1, <2>2
<1>6. ASSUME leaked' = {} PROVE Balance'
  <2>1. Balance
    BY <1>2, <1>6, CountedNow
  <2>2. Cardinality(UnenteredDone') = Cardinality(UnenteredDone) + 1
                                        - (ledger.in_flight - left)
    BY <1>3, EndSizes, CountedNow
  <2>3. /\ Cardinality(Waiting') + Cardinality(Unentered')
              = Cardinality(Waiting) + Cardinality(Unentered)
        /\ lost'.depth = lost.depth /\ Unstruck' = Unstruck
    BY EndSizes, EndSets
  <2>4. Queued' = Cardinality(Waiting') + Cardinality(Unentered') + Cardinality(lost'.depth)
    BY <1>5, <2>1, <2>3, CountedNow DEF Balance, Queued
  <2>5. ledger'.count + Cardinality(lost'.count)
           = ledger'.started - ledger'.in_flight + Cardinality(lost'.gauge)
             + ledger'.never_started + Cardinality(Unstruck') + Cardinality(UnenteredDone')
    BY <1>1, <1>2, <1>5, <2>1, <2>2, <2>3, CountedNow DEF Balance
  <2>. QED BY <2>4, <2>5 DEF Balance
<1>. QED BY <1>1, <1>2, <1>5, <1>6, CountedFold

\* An end that is not recorded: the gauge keeps a noted start, the count lacks
\* the call.
LEMMA UnrecordedSteps ==
    ASSUME Structure, Counted, NEW c \in Call, Unrecorded(c)
    PROVE  Counted'
<1>1. /\ ledger' = ledger /\ leaked' = leaked
      /\ lost'.gauge = lost.gauge \cup ({c} \cap receipt)
      /\ lost'.count = lost.count \cup {c}
  BY DEF Unrecorded, Loses
<1>2. Cardinality(lost'.count) = Cardinality(lost.count) + 1
  BY <1>1, EndSets, CountedFinite, Gain
<1>3. /\ Cardinality(Executing') + Cardinality(lost'.gauge)
            = Cardinality(Executing) + Cardinality(lost.gauge)
      /\ Cardinality(UnenteredDone')
            = Cardinality(UnenteredDone) + IF c \in receipt THEN 0 ELSE 1
      /\ Cardinality(lost'.gauge)
            = Cardinality(lost.gauge) + IF c \in receipt THEN 1 ELSE 0
  <2>1. CASE c \in receipt
    <3>1. lost'.gauge = lost.gauge \cup {c}
      BY <1>1, <2>1
    <3>2. Cardinality(lost'.gauge) = Cardinality(lost.gauge) + 1
      BY <3>1, EndSets, CountedFinite, Gain
    <3>. QED BY <2>1, <3>2, EndSizes, CountedNow
  <2>2. CASE c \notin receipt
    <3>1. lost'.gauge = lost.gauge
      BY <1>1, <2>2
    <3>. QED BY <2>2, <3>1, EndSizes, CountedNow
  <2>. QED BY <2>1, <2>2
<1>4. ASSUME leaked' = {} PROVE Balance'
  <2>1. Balance
    BY <1>1, <1>4, CountedNow
  <2>2. Cardinality(lost'.gauge) + Cardinality(UnenteredDone')
           = Cardinality(lost.gauge) + Cardinality(UnenteredDone) + 1
        /\ Cardinality(lost'.gauge) \in Nat /\ Cardinality(UnenteredDone') \in Nat
    BY <1>3, EndSizes, CountedNow
  <2>3. /\ Cardinality(Waiting') + Cardinality(Unentered')
              = Cardinality(Waiting) + Cardinality(Unentered)
        /\ lost'.depth = lost.depth /\ Unstruck' = Unstruck
    BY EndSizes, EndSets
  <2>4. Queued' = Cardinality(Waiting') + Cardinality(Unentered') + Cardinality(lost'.depth)
    BY <1>1, <2>1, <2>3, CountedNow DEF Balance, Queued
  <2>5. ledger.count + Cardinality(lost.count) + 1
           = ledger.started - ledger.in_flight + Cardinality(lost'.gauge)
             + ledger.never_started + Cardinality(Unstruck') + Cardinality(UnenteredDone')
    <3>1. ledger.count + Cardinality(lost.count)
             = ledger.started - ledger.in_flight + Cardinality(lost.gauge)
               + ledger.never_started + Cardinality(Unstruck) + Cardinality(UnenteredDone)
      BY <2>1 DEF Balance
    <3>2. Cardinality(Unstruck') = Cardinality(Unstruck)
      BY <2>3
    <3>. QED BY <2>2, <3>1, <3>2, CountedNow
  <2>6. ledger'.count + Cardinality(lost'.count)
           = ledger'.started - ledger'.in_flight + Cardinality(lost'.gauge)
             + ledger'.never_started + Cardinality(Unstruck') + Cardinality(UnenteredDone')
    BY <1>1, <1>2, <2>5, CountedNow
  <2>. QED BY <2>4, <2>6 DEF Balance
<1>. QED BY <1>1, <1>3, <1>4, CountedNow, CountedFold

\* Where a reset is open and no submit has leaked an item, the ledger is right
\* about an idle lane.
LEMMA ResetIdle ==
    ASSUME Structure, Counted, Resettable
    PROVE  /\ ledger.in_flight = 0 /\ Executing = {} /\ lost.gauge = {}
           /\ leaked = {} => Waiting = {} /\ Unentered = {} /\ lost.depth = {}
<1>1. ledger.in_flight = 0 /\ Queued = 0
  BY CountedNow DEF Resettable
<1>2. Cardinality(Executing) = 0 /\ Cardinality(lost.gauge) = 0
  BY <1>1, CountedNow
<1>3. leaked = {} => /\ Cardinality(Waiting) = 0 /\ Cardinality(Unentered) = 0
                     /\ Cardinality(lost.depth) = 0
  <2>. SUFFICES ASSUME leaked = {}
                PROVE  /\ Cardinality(Waiting) = 0 /\ Cardinality(Unentered) = 0
                       /\ Cardinality(lost.depth) = 0
    OBVIOUS
  <2>1. Balance
    BY CountedNow
  <2>2. 0 = Cardinality(Waiting) + Cardinality(Unentered) + Cardinality(lost.depth)
    BY <1>1, <2>1 DEF Balance
  <2>3. /\ Cardinality(Waiting) \in Nat /\ Cardinality(Unentered) \in Nat
        /\ Cardinality(lost.depth) \in Nat
    BY CountedFinite
  <2>. QED BY <2>2, <2>3
<1>. QED BY <1>1, <1>2, <1>3, CountedFinite, FS_EmptySet

LEMMA ResetSteps ==
    ASSUME Structure, Counted, Reset
    PROVE  Counted'
<1>1. /\ UNCHANGED <<work, receipt, leaked>> /\ Resettable
      /\ lost' = [lost EXCEPT !.count = {}]
      /\ ledger' = [ZeroLedger EXCEPT !.in_flight = ledger.in_flight]
  BY DEF Reset
<1>2. /\ lost'.depth = lost.depth /\ lost'.gauge = lost.gauge /\ lost'.count = {}
  BY <1>1 DEF Structure, Shape, LostNotes
<1>3. /\ Waiting' = Waiting /\ Unentered' = Unentered /\ Unstruck' = Unstruck
      /\ UnenteredDone' = UnenteredDone /\ Executing' = Executing
  BY <1>1, <1>2 DEF Waiting, Unentered, UnenteredDone, Executed, Executing, Unstruck
<1>4. /\ ledger' \in [Counter -> Nat]
      /\ ledger'.submitted = 0 /\ ledger'.submit_failed = 0 /\ ledger'.started = 0
      /\ ledger'.never_started = 0 /\ ledger'.in_flight = 0 /\ ledger'.count = 0
  BY <1>1, ResetIdle DEF ZeroLedger, Counter
<1>5. ASSUME leaked' = {} PROVE Balance'
  <2>1. /\ Waiting' = {} /\ Unentered' = {} /\ lost'.depth = {} /\ lost'.gauge = {}
        /\ lost'.count = {}
    BY <1>1, <1>2, <1>3, <1>5, ResetIdle
  <2>2. UnenteredDone' = {} /\ Unstruck' = {}
    BY <2>1 DEF UnenteredDone, Unstruck
  <2>. QED BY <1>4, <2>1, <2>2, FS_EmptySet DEF Balance, Queued
<1>6. Executing' = {} /\ lost'.gauge = {}
  BY <1>1, <1>2, <1>3, ResetIdle
<1>. QED BY <1>4, <1>5, <1>6, FS_EmptySet, CountedFold

LEMMA CountedNext == Structure /\ Counted /\ [Next]_vars => Counted'
<1>. SUFFICES ASSUME Structure, Counted, [Next]_vars PROVE Counted'
  OBVIOUS
<1>1. ASSUME NEW c \in Call, CallerCancelled(c) PROVE Counted'
  <2>1. CASE work[c] # "queued" /\ UNCHANGED <<queue, work, ledger, lost>>
    <3>1. UNCHANGED <<work, receipt, leaked, ledger, lost>>
      BY <1>1, <2>1 DEF CallerCancelled
    <3>2. /\ Waiting' = Waiting /\ Unentered' = Unentered
          /\ UnenteredDone' = UnenteredDone /\ Executing' = Executing
          /\ Unstruck' = Unstruck
      BY <3>1 DEF Waiting, Unentered, UnenteredDone, Executed, Executing, Unstruck
    <3>. QED BY <3>1, <3>2, SilentSteps
  <2>2. CASE /\ \E i \in 1..Len(queue) : queue[i] = c /\ queue' = RemoveAt(queue, i)
             /\ CancelledIn({c})
    <3>1. work[c] = "queued"
      BY <2>2 DEF Structure, QueueSound
    <3>. QED BY <1>1, <2>2, <3>1, CancelSteps DEF CallerCancelled
  <2>. QED BY <1>1, <2>1, <2>2 DEF CallerCancelled
<1>2. ASSUME NEW c \in Call,
             NotReady(c) \/ Reserves(c) \/ Submission(c) \/ Gets(c) \/ WorkerSteps(c)
      PROVE  Counted'
  BY <1>2, QuietSteps, ReserveSteps, FailureSteps, StartSteps, RecordSteps,
     UnrecordedSteps
     DEF Submission, WorkerSteps
<1>3. CASE BeginShutdown
  BY <1>3, CancelSteps DEF BeginShutdown
<1>4. CASE Reset
  BY <1>4, ResetSteps
<1>5. CASE Starts \/ Serves \/ AwaitShutdown \/ UNCHANGED vars
  BY <1>5, QuietSteps
<1>. QED BY <1>1, <1>2, <1>3, <1>4, <1>5 DEF Next

LEMMA LedgerHolds == Spec => [](Structure /\ Counted)
<1>1. Init => Structure /\ Counted
  BY StructureInit, CountedInit
<1>2. Structure /\ Counted /\ [Next]_vars => (Structure /\ Counted)'
  BY StructureNext, CountedNext
<1>. QED BY <1>1, <1>2, PTL DEF Spec

\* The variables keep their types; in particular no counter of the ledger ever
\* becomes negative, the in_flight gauge included (TypeOK).
THEOREM TypeCorrect == Spec => []TypeOK
<1>1. Structure /\ Counted => TypeOK
  BY DEF Structure, Shape, Counted, TypeOK
<1>. QED BY <1>1, LedgerHolds, PTL

\* The in_flight gauge is the number of verifications in progress whose start was
\* entered plus the ends that were lost (InFlightAccounted): whatever notes fail
\* and whenever the pool restarts it drifts by those ends alone, and never low.
THEOREM InFlightIsAccounted == Spec => []InFlightAccounted
<1>1. Structure /\ Counted => InFlightAccounted
  BY DEF Counted
<1>. QED BY <1>1, LedgerHolds, PTL

\* Unless a submit raised behind a queued item, the ledger accounts for every
\* call once, or for the note of it that was lost (LedgerBalanced), across resets
\* and shutdowns.
THEOREM LedgerIsBalanced == Spec => []LedgerBalanced
<1>1. Structure /\ Counted => LedgerBalanced
  BY DEF Counted
<1>. QED BY <1>1, LedgerHolds, PTL

\* A reset opens only on an idle lane whose gauge and depth are right
\* (ResetOnlyBalanced), unless a submit raised behind a queued item.
THEOREM ResetsAreBalanced == Spec => ResetOnlyBalanced
<1>. DEFINE Idle == /\ Waiting = {} /\ \A c \in Call : work[c] # "executing"
                    /\ lost.gauge = {} /\ lost.depth = {}
<1>1. Structure /\ Counted => (Reset /\ leaked = {} => Idle)
  <2>. SUFFICES ASSUME Structure, Counted, Reset, leaked = {} PROVE Idle
    OBVIOUS
  <2>1. /\ Waiting = {} /\ Unentered = {} /\ Executing = {}
        /\ lost.gauge = {} /\ lost.depth = {}
    BY ResetIdle DEF Reset
  <2>2. \A c \in Call : work[c] # "executing"
    BY <2>1 DEF Unentered, Executed, Executing
  <2>. QED BY <2>1, <2>2
<1>2. Structure /\ Counted /\ [Next]_vars =>
         [Reset /\ leaked = {} =>
             /\ Waiting = {} /\ \A c \in Call : work[c] # "executing"
             /\ lost.gauge = {} /\ lost.depth = {}]_vars
  BY <1>1
<1>. QED BY <1>2, LedgerHolds, PTL DEF Spec, ResetOnlyBalanced

\* What the ledger's tests state of the derived queue depth (QueuedNeverNegative)
\* holds as long as no submit has raised behind a queued item.
THEOREM QueuedNonNegative == Spec => [](leaked = {} => QueuedNeverNegative)
<1>1. Structure /\ Counted => (leaked = {} => QueuedNeverNegative)
  BY CountedFinite DEF Counted, LedgerBalanced, QueuedNeverNegative
<1>. QED BY <1>1, LedgerHolds, PTL
================================================================================
