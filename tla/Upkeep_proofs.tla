---------------------------- MODULE Upkeep_proofs ----------------------------
(***************************************************************************)
(* What TLAPS proves of Upkeep for every depth of the queue, retry limit,  *)
(* batch and calendar, and every number of frames, usage events and        *)
(* starts.                                                                 *)
(***************************************************************************)
EXTENDS Upkeep, FiniteSetTheorems, SequenceTheorems, WellFoundedInduction, TLAPS

-----------------------------------------------------------------------------
(* The calendar.                                                           *)

\* A later minute is not in an earlier day.
LEMMA DayIsMonotone ==
  ASSUME NEW s \in Nat, NEW t \in Nat, s <= t
  PROVE  DayOf(s) \in Nat /\ DayOf(t) \in Nat /\ DayOf(s) <= DayOf(t)
<1>1. DayLen \in Nat \ {0}
  <2>1. PICK k \in 1 .. 48 : DayLen = k * HourLen
    BY RollupAssumption
  <2>2. HourLen \in Nat \ {0}
    BY RollupAssumption
  <2>3. \A h \in Nat \ {0} : k * h \in Nat \ {0}
    OBVIOUS
  <2>4. QED
    BY <2>1, <2>2, <2>3
<1>2. \A d \in Nat \ {0} : s \div d \in Nat /\ t \div d \in Nat /\ s \div d <= t \div d
  BY SMTT(30)
<1>3. QED
  BY <1>1, <1>2 DEF DayOf

-----------------------------------------------------------------------------
(* The operators of the frame writer.                                      *)

Entries(F) == [frame : F, attempts : 0 .. RetryLimit]

WriterOf(F) ==
  {w \in [queue : Seq(Entries(F)), waiting : BOOLEAN, drops : Nat] : Len(w.queue) <= Depth}

\* The queue is in the order of the frames' ids.
Ordered(w) ==
  \A i, j \in DOMAIN w.queue : i < j => w.queue[i].frame.id < w.queue[j].frame.id

\* Every waiting frame is newer than those of S.
NewerThan(w, S) == \A f \in S, i \in DOMAIN w.queue : f.id < w.queue[i].frame.id

\* What that says of its fields.
IsWriter(w, F) ==
  /\ w.queue \in Seq(Entries(F)) /\ w.drops \in Nat /\ w.waiting \in BOOLEAN
  /\ Len(w.queue) \in Nat /\ Len(w.queue) <= Depth
  /\ DOMAIN w.queue = 1 .. Len(w.queue)
  /\ \A i \in DOMAIN w.queue : /\ w.queue[i] \in Entries(F)
                               /\ w.queue[i].frame \in F
                               /\ w.queue[i].attempts \in 0 .. RetryLimit
  /\ w = [queue |-> w.queue, waiting |-> w.waiting, drops |-> w.drops]

LEMMA WriterFields ==
  ASSUME NEW F, NEW w \in WriterOf(F)
  PROVE  IsWriter(w, F)
<1>1. w \in [queue : Seq(Entries(F)), waiting : BOOLEAN, drops : Nat] /\ Len(w.queue) <= Depth
  BY DEF WriterOf
<1>2. w.queue \in Seq(Entries(F)) /\ w.drops \in Nat /\ w.waiting \in BOOLEAN
  BY <1>1
<1>3. /\ Len(w.queue) \in Nat /\ DOMAIN w.queue = 1 .. Len(w.queue)
      /\ \A i \in DOMAIN w.queue : w.queue[i] \in Entries(F)
  BY <1>2
<1>4. \A x \in Entries(F) : x.frame \in F /\ x.attempts \in 0 .. RetryLimit
  BY DEF Entries
<1>5. w = [queue |-> w.queue, waiting |-> w.waiting, drops |-> w.drops]
  BY <1>1
<1>6. QED
  BY <1>1, <1>2, <1>3, <1>4, <1>5 DEF IsWriter

\* A writer is known by its fields.
LEMMA WriterIntro ==
  ASSUME NEW F, NEW q \in Seq(Entries(F)), Len(q) <= Depth, NEW b \in BOOLEAN, NEW d \in Nat
  PROVE  [queue |-> q, waiting |-> b, drops |-> d] \in WriterOf(F)
BY DEF WriterOf

LEMMA SeqWidens ==
  ASSUME NEW A, NEW B, A \subseteq B, NEW s \in Seq(A)
  PROVE  s \in Seq(B)
<1>1. s \in [1 .. Len(s) -> A] /\ Len(s) \in Nat
  OBVIOUS
<1>2. s \in [1 .. Len(s) -> B]
  BY <1>1
<1>3. QED
  BY <1>1, <1>2

LEMMA WriterWidens ==
  ASSUME NEW F, NEW G, F \subseteq G, NEW w \in WriterOf(F)
  PROVE  w \in WriterOf(G)
<1>1. Entries(F) \subseteq Entries(G)
  BY DEF Entries
<1>2. IsWriter(w, F)
  BY WriterFields
<1>3. w.queue \in Seq(Entries(G))
  BY <1>1, <1>2, SeqWidens DEF IsWriter
<1>4. [queue |-> w.queue, waiting |-> w.waiting, drops |-> w.drops] \in WriterOf(G)
  BY <1>2, <1>3, WriterIntro DEF IsWriter
<1>5. QED
  BY <1>2, <1>4 DEF IsWriter

LEMMA NewWriterIsTyped ==
  ASSUME NEW F
  PROVE  NewWriter \in WriterOf(F) /\ Ordered(NewWriter)
         /\ \A S : NewerThan(NewWriter, S)
BY WriterAssumption DEF NewWriter, WriterOf, Ordered, NewerThan

\* A frame newer than all others goes to the end, if there is room.
LEMMA EnqueueKeeps ==
  ASSUME NEW F, NEW w \in WriterOf(F), NEW frame \in F, NEW S,
         F \subseteq [id : Nat, at : Nat],
         Ordered(w), NewerThan(w, S),
         \A i \in DOMAIN w.queue : w.queue[i].frame.id < frame.id,
         \A f \in S : f.id < frame.id
  PROVE  /\ Enqueue(w, frame) \in WriterOf(F)
         /\ Ordered(Enqueue(w, frame))
         /\ NewerThan(Enqueue(w, frame), S)
<1> USE WriterAssumption
<1>0. IsWriter(w, F)
  BY WriterFields
<1>1. CASE Len(w.queue) >= Depth
  <2> DEFINE full == [queue |-> w.queue, waiting |-> w.waiting, drops |-> w.drops + 1]
  <2>1. Enqueue(w, frame) = full
    BY <1>1, <1>0 DEF Enqueue, IsWriter
  <2>2. full \in WriterOf(F)
    BY <1>0, WriterIntro DEF IsWriter
  <2>3. full.queue = w.queue
    OBVIOUS
  <2> HIDE DEF full
  <2>4. Ordered(full) /\ NewerThan(full, S)
    BY <2>3 DEF Ordered, NewerThan
  <2>5. QED
    BY <2>1, <2>2, <2>4
<1>2. CASE ~(Len(w.queue) >= Depth)
  <2> DEFINE entry == [frame |-> frame, attempts |-> 0]
             q == Append(w.queue, entry)
  <2>1. entry \in Entries(F) /\ entry.frame = frame
    BY WriterAssumption DEF Entries
  <2>2. Enqueue(w, frame) = [w EXCEPT !.queue = q]
    BY <1>2 DEF Enqueue
  <2> HIDE DEF entry
  <2>3. /\ q \in Seq(Entries(F))
        /\ Len(q) = Len(w.queue) + 1
        /\ DOMAIN q = 1 .. Len(w.queue) + 1
        /\ \A i \in 1 .. Len(w.queue) : q[i] = w.queue[i]
        /\ q[Len(w.queue) + 1] = entry
    BY <2>1, <1>0 DEF IsWriter
  <2> HIDE DEF q
  <2>4. Enqueue(w, frame).queue = q /\ Enqueue(w, frame).drops = w.drops
        /\ Enqueue(w, frame).waiting = w.waiting
    BY <2>2, <1>0 DEF IsWriter
  <2>5. Enqueue(w, frame) \in WriterOf(F)
    BY <1>2, <2>2, <2>3, <1>0, SMTT(30) DEF WriterOf, IsWriter
  <2>6. Ordered(Enqueue(w, frame))
    <3> SUFFICES ASSUME NEW i \in DOMAIN q, NEW j \in DOMAIN q, i < j
                 PROVE  q[i].frame.id < q[j].frame.id
      BY <2>4 DEF Ordered
    <3>1. CASE j \in 1 .. Len(w.queue)
      BY <3>1, <2>3, <1>0, SMTT(30) DEF Ordered, IsWriter
    <3>2. CASE j = Len(w.queue) + 1
      BY <3>2, <2>1, <2>3, <1>0, SMTT(30) DEF IsWriter
    <3>3. QED
      BY <3>1, <3>2, <2>3, <1>0 DEF IsWriter
  <2>7. NewerThan(Enqueue(w, frame), S)
    BY <2>1, <2>3, <2>4, <1>0 DEF NewerThan, IsWriter
  <2>8. QED
    BY <2>5, <2>6, <2>7
<1>3. QED
  BY <1>1, <1>2

\* rest's queue is w's without the first n.
IsRest(rest, w, n) ==
  /\ n \in 0 .. Len(w.queue) /\ Len(rest.queue) = Len(w.queue) - n
  /\ \A i \in 1 .. Len(rest.queue) : rest.queue[i] = w.queue[n + i]

\* Without its first frames the queue is as it was, and newer than they were.
LEMMA RestKeeps ==
  ASSUME NEW F, NEW w, NEW rest, NEW n, NEW S,
         w \in WriterOf(F), rest \in WriterOf(F), IsRest(rest, w, n),
         F \subseteq [id : Nat, at : Nat],
         Ordered(w), NewerThan(w, S)
  PROVE  /\ Ordered(rest)
         /\ NewerThan(rest, S \cup {w.queue[i].frame : i \in 1 .. n})
<1> DEFINE q == rest.queue
<1>0. IsWriter(w, F) /\ IsWriter(rest, F)
  BY WriterFields
<1>1. n \in 0 .. Len(w.queue) /\ DOMAIN q = 1 .. Len(w.queue) - n
  BY <1>0 DEF IsWriter, IsRest
<1>4. \A i \in DOMAIN w.queue : w.queue[i].frame.id \in Nat
  BY <1>0 DEF IsWriter
<1>5. Ordered(rest)
  <2> SUFFICES ASSUME NEW i \in DOMAIN q, NEW j \in DOMAIN q, i < j
               PROVE  q[i].frame.id < q[j].frame.id
    BY Zenon DEF Ordered
  <2>1. /\ i \in 1 .. Len(w.queue) - n /\ j \in 1 .. Len(w.queue) - n
        /\ n \in 0 .. Len(w.queue) /\ Len(w.queue) \in Nat
    BY <1>0, <1>1 DEF IsWriter
  <2>2. n + i \in 1 .. Len(w.queue) /\ n + j \in 1 .. Len(w.queue) /\ n + i < n + j
    BY <2>1
  <2>3. n + i \in DOMAIN w.queue /\ n + j \in DOMAIN w.queue
    BY <1>0, <2>2 DEF IsWriter
  <2>4. q[i] = w.queue[n + i] /\ q[j] = w.queue[n + j]
    BY <1>0 DEF IsRest, IsWriter
  <2>5. QED
    BY <2>2, <2>3, <2>4, Zenon DEF Ordered
<1>6. NewerThan(rest, S \cup {w.queue[i].frame : i \in 1 .. n})
  <2> SUFFICES ASSUME NEW f \in S \cup {w.queue[i].frame : i \in 1 .. n}, NEW j \in DOMAIN q
               PROVE  f.id < q[j].frame.id
    BY Zenon DEF NewerThan
  <2>1. n + j \in DOMAIN w.queue /\ q[j] = w.queue[n + j]
    BY <1>1, <1>0 DEF IsWriter, IsRest
  <2>2. CASE f \in S
    BY <2>1, <2>2 DEF NewerThan
  <2>3. CASE f \in {w.queue[i].frame : i \in 1 .. n}
    <3>1. PICK i \in 1 .. n : f = w.queue[i].frame
      BY <2>3
    <3>2. i \in DOMAIN w.queue /\ i < n + j
      BY <1>1, <1>0 DEF IsWriter
    <3>3. QED
      BY <2>1, <3>1, <3>2 DEF Ordered
  <2>4. QED
    BY <2>2, <2>3
<1>7. QED
  BY <1>5, <1>6

LEMMA WrittenKeeps ==
  ASSUME NEW F, NEW w \in WriterOf(F), NEW S,
         F \subseteq [id : Nat, at : Nat],
         w.queue # <<>>, Ordered(w), NewerThan(w, S)
  PROVE  /\ Written(w) \in WriterOf(F) /\ Ordered(Written(w))
         /\ NewerThan(Written(w), S \cup {Head(w.queue).frame})
         /\ Head(w.queue).frame \in F
<1>0. IsWriter(w, F)
  BY WriterFields
<1>1. /\ Tail(w.queue) \in Seq(Entries(F))
      /\ Len(Tail(w.queue)) = Len(w.queue) - 1
      /\ \A i \in 1 .. Len(Tail(w.queue)) : Tail(w.queue)[i] = w.queue[1 + i]
      /\ 1 \in 0 .. Len(w.queue) /\ Head(w.queue) = w.queue[1]
  BY <1>0 DEF IsWriter
<1>2. Written(w) = [queue |-> Tail(w.queue), waiting |-> FALSE, drops |-> w.drops]
  BY DEF Written
<1>3. {w.queue[i].frame : i \in 1 .. 1} = {Head(w.queue).frame}
  BY <1>1
<1>4. w.drops \in Nat /\ Head(w.queue).frame \in F
  BY <1>0, <1>1 DEF IsWriter
<1>7. Written(w) \in WriterOf(F)
  BY <1>0, <1>1, <1>2, <1>4, WriterAssumption DEF IsWriter, WriterOf
<1>8. IsRest(Written(w), w, 1)
  BY <1>1, <1>2 DEF IsRest
<1>5. /\ Ordered(Written(w))
      /\ NewerThan(Written(w), S \cup {w.queue[i].frame : i \in 1 .. 1})
  BY <1>7, <1>8, RestKeeps
<1>6. QED
  BY <1>3, <1>4, <1>5, <1>7

\* A failed write counts an attempt at the front frame, or evicts it.
LEMMA FailedKeeps ==
  ASSUME NEW F, NEW w \in WriterOf(F), NEW S,
         F \subseteq [id : Nat, at : Nat],
         w.queue # <<>>, Ordered(w), NewerThan(w, S)
  PROVE  /\ Failed(w) \in WriterOf(F) /\ Ordered(Failed(w)) /\ NewerThan(Failed(w), S)
<1>0. IsWriter(w, F)
  BY WriterFields
<1>1. 1 \in DOMAIN w.queue /\ Head(w.queue) = w.queue[1]
  BY <1>0 DEF IsWriter
<1>2. CASE Head(w.queue).attempts >= RetryLimit
  <2>1. /\ Tail(w.queue) \in Seq(Entries(F))
        /\ Len(Tail(w.queue)) = Len(w.queue) - 1
        /\ \A i \in 1 .. Len(Tail(w.queue)) : Tail(w.queue)[i] = w.queue[1 + i]
        /\ 1 \in 0 .. Len(w.queue)
    BY <1>0 DEF IsWriter
  <2>2. Failed(w) = [queue |-> Tail(w.queue), waiting |-> FALSE, drops |-> w.drops + 1]
    BY <1>2 DEF Failed
  <2>3. w.drops + 1 \in Nat
    BY <1>0 DEF IsWriter
  <2>4. Failed(w) \in WriterOf(F)
    BY <1>0, <2>1, <2>2, <2>3, WriterAssumption DEF IsWriter, WriterOf
  <2>5. IsRest(Failed(w), w, 1)
    BY <2>1, <2>2 DEF IsRest
  <2>6. /\ Ordered(Failed(w))
        /\ NewerThan(Failed(w), S \cup {w.queue[i].frame : i \in 1 .. 1})
    BY <2>4, <2>5, RestKeeps
  <2>7. QED
    BY <2>4, <2>6 DEF NewerThan
<1>3. CASE ~(Head(w.queue).attempts >= RetryLimit)
  <2> DEFINE front == [w.queue[1] EXCEPT !.attempts = @ + 1]
             q == [w.queue EXCEPT ![1] = front]
             retried == [queue |-> q, waiting |-> TRUE, drops |-> w.drops]
  <2>1. front \in Entries(F) /\ front.frame = w.queue[1].frame
    <3>1. PICK f \in F, k \in 0 .. RetryLimit : w.queue[1] = [frame |-> f, attempts |-> k]
      BY <1>0, <1>1 DEF IsWriter, Entries
    <3>2. k + 1 \in 0 .. RetryLimit
      BY <3>1, <1>1, <1>3, WriterAssumption
    <3>3. front = [frame |-> f, attempts |-> k + 1]
      BY <3>1
    <3>4. QED
      BY <3>1, <3>2, <3>3 DEF Entries
  <2>2. Failed(w) = retried
    BY <1>3 DEF Failed
  <2> HIDE DEF front
  <2>3. /\ q \in Seq(Entries(F)) /\ Len(q) = Len(w.queue) /\ DOMAIN q = DOMAIN w.queue
        /\ \A i \in DOMAIN q : q[i].frame = w.queue[i].frame
    BY <1>0, <1>1, <2>1 DEF IsWriter
  <2> HIDE DEF q
  <2>4. retried.queue = q
    OBVIOUS
  <2>5. retried \in WriterOf(F)
    BY <1>0, <2>3, WriterIntro DEF IsWriter
  <2> HIDE DEF retried
  <2>6. Ordered(retried) /\ NewerThan(retried, S)
    BY <2>3, <2>4 DEF Ordered, NewerThan
  <2>7. QED
    BY <2>2, <2>5, <2>6
<1>4. QED
  BY <1>2, <1>3

\* However a flush ends, what it wrote was older than what is left.
LEMMA FlushedKeeps ==
  ASSUME NEW F, NEW w \in WriterOf(F), NEW S, NEW flush \in Flushes(w),
         F \subseteq [id : Nat, at : Nat],
         Ordered(w), NewerThan(w, S)
  PROVE  /\ Flushed(w, flush) \in WriterOf(F) /\ Ordered(Flushed(w, flush))
         /\ NewerThan(Flushed(w, flush), S \cup FlushWrote(w, flush))
         /\ FlushWrote(w, flush) \subseteq F
         /\ IsFiniteSet(FlushWrote(w, flush))
<1>0. IsWriter(w, F)
  BY WriterFields
<1> DEFINE through == {w.queue[i].frame : i \in 1 .. flush.done}
           q == SubSeq(w.queue, flush.done + 1, Len(w.queue))
<1>1. /\ flush.done \in 0 .. Len(w.queue)
      /\ flush.evicted \subseteq through
  BY DEF Flushes
<1>2. IsFiniteSet(through) /\ through \subseteq F
  <2> DEFINE n == flush.done
             at == [i \in 1 .. n |-> w.queue[i].frame]
  <2>1. IsFiniteSet(1 .. n)
    BY <1>0, <1>1, FS_Interval DEF IsWriter
  <2>2. at \in Surjection(1 .. n, through)
    BY DEF Surjection
  <2>3. IsFiniteSet(through)
    BY <2>1, <2>2, FS_Surjection
  <2>4. QED
    BY <1>0, <1>1, <2>3 DEF IsWriter
<1> HIDE DEF through
<1>3. Cardinality(flush.evicted) \in Nat /\ IsFiniteSet(FlushWrote(w, flush))
  BY <1>1, <1>2, FS_Subset, FS_CardinalityType DEF FlushWrote, through
<1>4. /\ q \in Seq(Entries(F)) /\ Len(q) = Len(w.queue) - flush.done
      /\ \A i \in 1 .. Len(q) : q[i] = w.queue[flush.done + i]
  <2>1. /\ w.queue \in Seq(Entries(F)) /\ Len(w.queue) \in Nat
        /\ flush.done \in 0 .. Len(w.queue)
    BY <1>0, <1>1 DEF IsWriter
  <2>2. \A i \in flush.done + 1 .. Len(w.queue) : w.queue[i] \in Entries(F)
    BY <2>1
  <2>3. /\ q \in Seq(Entries(F))
        /\ Len(q) = IF flush.done + 1 <= Len(w.queue)
                      THEN Len(w.queue) - (flush.done + 1) + 1 ELSE 0
        /\ \A i \in 1 .. Len(w.queue) - (flush.done + 1) + 1 :
             q[i] = w.queue[flush.done + 1 + i - 1]
    BY <2>1, <2>2, SubSeqProperties, SMTT(30)
  <2> HIDE DEF q
  <2>4. Len(q) = Len(w.queue) - flush.done
    BY <2>1, <2>3
  <2>5. ASSUME NEW i \in 1 .. Len(q)
        PROVE  q[i] = w.queue[flush.done + i]
    <3>1. /\ flush.done + 1 + i - 1 = flush.done + i
          /\ i \in 1 .. Len(w.queue) - (flush.done + 1) + 1
      BY <2>1, <2>4
    <3>2. QED
      BY <2>3, <3>1
  <2>6. QED
    BY <2>3, <2>4, <2>5
<1>5. Flushed(w, flush) = [queue |-> q, waiting |-> FALSE,
                           drops |-> w.drops + Cardinality(flush.evicted)]
  BY DEF Flushed
<1> HIDE DEF q
<1>6. w.drops + Cardinality(flush.evicted) \in Nat
  BY <1>0, <1>3 DEF IsWriter
<1>10. Flushed(w, flush) \in WriterOf(F)
  BY <1>0, <1>1, <1>4, <1>5, <1>6, WriterAssumption DEF IsWriter, WriterOf
<1>11. IsRest(Flushed(w, flush), w, flush.done)
  BY <1>1, <1>4, <1>5 DEF IsRest
<1>7. /\ Ordered(Flushed(w, flush))
      /\ NewerThan(Flushed(w, flush), S \cup {w.queue[i].frame : i \in 1 .. flush.done})
  BY <1>10, <1>11, RestKeeps
<1>8. FlushWrote(w, flush) \subseteq {w.queue[i].frame : i \in 1 .. flush.done}
  BY DEF FlushWrote
<1>9. QED
  BY <1>2, <1>3, <1>7, <1>8, <1>10 DEF NewerThan, through

LEMMA DiscardedKeeps ==
  ASSUME NEW F, NEW w \in WriterOf(F)
  PROVE  /\ Discarded(w) \in WriterOf(F) /\ Ordered(Discarded(w))
         /\ \A S : NewerThan(Discarded(w), S)
<1>0. IsWriter(w, F)
  BY WriterFields
<1>1. Discarded(w) = [queue |-> <<>>, waiting |-> FALSE, drops |-> w.drops + Len(w.queue)]
  BY DEF Discarded
<1>2. w.drops + Len(w.queue) \in Nat /\ <<>> \in Seq(Entries(F)) /\ Len(<<>>) <= Depth
  BY <1>0, WriterAssumption DEF IsWriter
<1>3. Discarded(w) \in WriterOf(F)
  BY <1>1, <1>2, WriterIntro
<1>4. QED
  BY <1>1, <1>3 DEF Ordered, NewerThan

-----------------------------------------------------------------------------
(* The operators of the process rollups.                                   *)

LEMMA MinutesAreFinite ==
  ASSUME NEW n \in Nat, NEW S, S \subseteq 0 .. n
  PROVE  IsFiniteSet(S)
<1>1. IsFiniteSet(0 .. n)
  BY FS_Interval, SMT
<1>2. S \in SUBSET (0 .. n)
  OBVIOUS
<1>3. QED
  BY <1>1, <1>2, FS_Subset, Zenon

\* A set of minutes up to now has a last one.
LEMMA LastExists ==
  ASSUME NEW n \in Nat, NEW S, S \subseteq 0 .. n, S # {}
  PROVE  \E x \in S : \A y \in S : y <= x
<1> DEFINE From(x) == {y \in S : x <= y}
           tails == {From(x) : x \in S}
<1>1. IsFiniteSet(S)
  BY MinutesAreFinite
<1>2. tails \subseteq FiniteSubsetsOf(S) /\ tails # {}
  <2>1. \A x \in S : From(x) \in SUBSET S
    OBVIOUS
  <2>2. \A x \in S : IsFiniteSet(From(x))
    BY <1>1, <2>1, FS_Subset, Zenon
  <2>3. \A x \in S : From(x) \in FiniteSubsetsOf(S)
    BY <2>1, <2>2, Zenon DEF FiniteSubsetsOf
  <2>4. QED
    BY <2>3
<1>3. IsWellFoundedOn(StrictSubsetOrdering(S), FiniteSubsetsOf(S))
  BY FS_StrictSubsetOrderingWellFounded
<1>4. PICK T \in tails : \A U \in tails : <<U, T>> \notin StrictSubsetOrdering(S)
  BY <1>2, <1>3, WFMin
<1>5. PICK x \in S : T = From(x)
  BY <1>4
<1>6. ASSUME NEW y \in S, ~(y <= x)
      PROVE  FALSE
  <2>1. From(y) \subseteq From(x) /\ x \in From(x) /\ x \notin From(y)
    <3>1. \A z \in S : z \in Nat
      OBVIOUS
    <3>2. x \in Nat /\ y \in Nat /\ x < y
      BY <1>6, <3>1
    <3>3. \A z \in Nat : y <= z => x <= z
      BY <3>2
    <3>4. From(y) \subseteq From(x)
      BY <3>1, <3>3
    <3>5. QED
      BY <3>2, <3>4
  <2>2. <<From(y), From(x)>> \in StrictSubsetOrdering(S)
    BY <2>1 DEF StrictSubsetOrdering
  <2>3. From(y) \in tails
    OBVIOUS
  <2>4. QED
    BY <1>4, <1>5, <2>2, <2>3
<1>7. QED
  BY <1>6

LEMMA LatestIsLast ==
  ASSUME NEW n \in Nat, NEW S, S \subseteq 0 .. n, NEW mark
  PROVE  /\ S = {} => Latest(mark, S) = mark
         /\ S # {} => Latest(mark, S) \in S /\ \A y \in S : y <= Latest(mark, S)
<1>1. CASE S = {}
  BY <1>1 DEF Latest
<1>2. CASE S # {}
  <2>1. \E x \in S : \A y \in S : y <= x
    BY <1>2, LastExists
  <2>2. QED
    BY <1>2, <2>1 DEF Latest
<1>3. QED
  BY <1>1, <1>2

\* LIMIT takes an initial part.
LEMMA LowestIsInitial ==
  ASSUME NEW n \in Nat, NEW S, S \subseteq 0 .. n, NEW k \in Nat,
         NEW x \in Lowest(k, S), NEW y \in S, y <= x
  PROVE  y \in Lowest(k, S)
<1> DEFINE Below(z) == {v \in S : v < z}
<1>1. IsFiniteSet(S)
  BY MinutesAreFinite
<1>2. x \in S /\ Cardinality(Below(x)) < k
  BY DEF Lowest
<1>3. Below(y) \subseteq Below(x) /\ Below(x) \subseteq S
  <2>1. \A z \in S : z \in Nat
    OBVIOUS
  <2>2. \A z \in Nat : z < y => z < x
    BY <1>2, <2>1
  <2>3. QED
    BY <2>1, <2>2
<1>4. IsFiniteSet(Below(x)) /\ IsFiniteSet(Below(y))
  BY <1>1, <1>3, FS_Subset
<1>5. Cardinality(Below(y)) <= Cardinality(Below(x))
  BY <1>3, <1>4, FS_Subset
<1>6. Cardinality(Below(y)) \in Nat /\ Cardinality(Below(x)) \in Nat
  BY <1>4, FS_CardinalityType
<1>7. Cardinality(Below(y)) < k
  BY <1>2, <1>5, <1>6
<1>8. QED
  BY <1>7 DEF Lowest

LEMMA DoneIsAStop ==
  ASSUME NEW S
  PROVE  Done(S) \in Stops(S)
<1>1. S \in Prefixes(S)
  BY DEF Prefixes
<1>2. Cardinality(S \ S) = 0
  <2>1. S \ S = {}
    OBVIOUS
  <2>2. QED
    BY <2>1, FS_EmptySet
<1>3. QED
  BY <1>1, <1>2 DEF Done, Stops

Mark0 == Nat \cup {NoMark}

RollupOf(F) ==
  [minute : SUBSET F, hour : SUBSET F, day : SUBSET F, minuteMark : Mark0, hourMark : Mark0]

\* No minute up to the checkpoint is missing, of those that were not late.
MinutesKept(r, fs, L) == \A f \in fs \ L : f.at <= r.minuteMark => f \in r.minute

LEMMA HourIsBefore ==
  ASSUME NEW t \in Nat
  PROVE  HourOf(t) \in 0 .. t
<1>1. HourLen \in Nat \ {0}
  BY RollupAssumption
<1>2. \A h \in Nat \ {0} : t % h \in 0 .. t
  BY SMTT(30)
<1>3. t % HourLen \in 0 .. t
  BY <1>1, <1>2
<1>4. QED
  BY <1>3 DEF HourOf

\* The minutes of a slice are old, new to the checkpoint, and rebuilt in order.
LEMMA MinutesRebuiltKeeps ==
  ASSUME NEW now \in Nat, NEW F, F \subseteq [id : Nat, at : 0 .. now],
         NEW r \in RollupOf(F), NEW fs \in SUBSET F, NEW L,
         NEW stop \in Stops(MinuteCandidates(r, fs, now)),
         MinutesKept(r, fs, L)
  PROVE  /\ MinutesRebuilt(r, fs, stop) \in RollupOf(F)
         /\ MinutesKept(MinutesRebuilt(r, fs, stop), fs, L)
<1> DEFINE all == {f.at : f \in {g \in fs : g.at < now /\ g.at > r.minuteMark}}
           minutes == MinuteCandidates(r, fs, now)
           r1 == MinutesRebuilt(r, fs, stop)
<1>1. all \subseteq 0 .. now /\ \A m \in all : m > r.minuteMark
  OBVIOUS
<1>2. minutes = Lowest(Batch, all)
  BY DEF MinuteCandidates
<1>3. minutes \subseteq all
  BY <1>2 DEF Lowest
<1>4. /\ stop[1] \subseteq minutes /\ stop[2] \subseteq stop[1]
      /\ \A x \in stop[2], y \in minutes : y < x => y \in stop[2]
  BY DEF Stops, Prefixes
<1> HIDE DEF all, minutes
<1>5. stop[2] \subseteq 0 .. now
  BY <1>1, <1>3, <1>4
<1>6. /\ r1.minute = {f \in r.minute : f.at \notin stop[1]} \cup {f \in fs : f.at \in stop[1]}
      /\ r1.hour = r.hour /\ r1.day = r.day /\ r1.hourMark = r.hourMark
      /\ r1.minuteMark = Latest(r.minuteMark, stop[2])
      /\ r1 = [minute |-> r1.minute, hour |-> r.hour, day |-> r.day,
               minuteMark |-> r1.minuteMark, hourMark |-> r.hourMark]
  BY DEF MinutesRebuilt
<1> HIDE DEF r1
<1>7. /\ r.minute \in SUBSET F /\ r.hour \in SUBSET F /\ r.day \in SUBSET F
      /\ r.minuteMark \in Mark0 /\ r.hourMark \in Mark0
  BY DEF RollupOf
<1>8. /\ stop[2] = {} => r1.minuteMark = r.minuteMark
      /\ stop[2] # {} => r1.minuteMark \in stop[2] /\ \A y \in stop[2] : y <= r1.minuteMark
  <2>1. /\ stop[2] = {} => Latest(r.minuteMark, stop[2]) = r.minuteMark
        /\ stop[2] # {} => /\ Latest(r.minuteMark, stop[2]) \in stop[2]
                           /\ \A y \in stop[2] : y <= Latest(r.minuteMark, stop[2])
    BY <1>5, LatestIsLast, Zenon
  <2>2. QED
    BY <1>6, <2>1
<1>9. r1 \in RollupOf(F)
  <2>1. r1.minuteMark \in Mark0
    BY <1>5, <1>7, <1>8 DEF Mark0
  <2>2. r1.minute \in SUBSET F
    BY <1>6, <1>7
  <2>3. QED
    BY <1>6, <1>7, <2>1, <2>2 DEF RollupOf
<1>10. MinutesKept(r1, fs, L)
  <2> SUFFICES ASSUME NEW f \in fs \ L, f.at <= r1.minuteMark
               PROVE  f \in r1.minute
    BY DEF MinutesKept
  <2>1. f.at \in 0 .. now /\ r.minuteMark \in Int
    BY <1>7 DEF Mark0, NoMark
  <2>2. CASE f.at <= r.minuteMark
    <3>1. f \in r.minute
      BY <2>2 DEF MinutesKept
    <3>2. f.at \notin stop[1]
      BY <1>1, <1>3, <1>4, <2>1, <2>2
    <3>3. QED
      BY <1>6, <3>1, <3>2
  <2>3. CASE f.at > r.minuteMark
    <3> DEFINE last == r1.minuteMark
    <3>1. stop[2] # {} /\ last \in stop[2]
      BY <1>8, <2>1, <2>3
    <3>2. last \in minutes /\ last \in 0 .. now /\ last < now
      BY <1>3, <1>4, <1>5, <3>1 DEF all
    <3>3. f.at \in all
      BY <2>1, <2>3, <3>2 DEF all
    <3>4. f.at \in minutes
      BY <1>1, <1>2, <3>2, <3>3, LowestIsInitial, RollupAssumption
    <3>5. f.at \in stop[2]
      BY <1>4, <2>1, <3>1, <3>2, <3>4
    <3>6. QED
      BY <1>4, <1>6, <3>5
  <2>4. QED
    BY <2>1, <2>2, <2>3
<1>11. QED
  BY <1>9, <1>10 DEF r1

LEMMA HoursRebuiltKeeps ==
  ASSUME NEW now \in Nat, NEW F, NEW r \in RollupOf(F),
         NEW hours, hours \subseteq 0 .. now, NEW stop \in Stops(hours)
  PROVE  /\ HoursRebuilt(r, stop) \in RollupOf(F)
         /\ HoursRebuilt(r, stop).minute = r.minute
         /\ HoursRebuilt(r, stop).minuteMark = r.minuteMark
<1> DEFINE r2 == HoursRebuilt(r, stop)
<1>1. stop[2] \subseteq 0 .. now
  BY DEF Stops, Prefixes
<1>2. /\ r2.hour = {f \in r.hour : HourOf(f.at) \notin stop[1]}
                     \cup {f \in r.minute : HourOf(f.at) \in stop[1]}
      /\ r2.minute = r.minute /\ r2.day = r.day /\ r2.minuteMark = r.minuteMark
      /\ r2.hourMark = Latest(r.hourMark, stop[2])
      /\ r2 = [minute |-> r.minute, hour |-> r2.hour, day |-> r.day,
               minuteMark |-> r.minuteMark, hourMark |-> r2.hourMark]
  BY DEF HoursRebuilt
<1> HIDE DEF r2
<1>3. /\ r.minute \in SUBSET F /\ r.hour \in SUBSET F /\ r.day \in SUBSET F
      /\ r.minuteMark \in Mark0 /\ r.hourMark \in Mark0
  BY DEF RollupOf
<1>4. /\ stop[2] = {} => r2.hourMark = r.hourMark
      /\ stop[2] # {} => r2.hourMark \in stop[2]
  <2>1. /\ stop[2] = {} => Latest(r.hourMark, stop[2]) = r.hourMark
        /\ stop[2] # {} => Latest(r.hourMark, stop[2]) \in stop[2]
    BY <1>1, LatestIsLast, Zenon
  <2>2. QED
    BY <1>2, <2>1
<1>5. r2.hourMark \in Mark0
  BY <1>1, <1>3, <1>4 DEF Mark0
<1>6. r2.hour \in SUBSET F
  BY <1>2, <1>3
<1>7. r2 \in RollupOf(F)
  BY <1>2, <1>3, <1>5, <1>6 DEF RollupOf
<1>8. QED
  BY <1>2, <1>7 DEF r2

LEMMA DaysRebuiltKeeps ==
  ASSUME NEW F, NEW r \in RollupOf(F), NEW days
  PROVE  /\ DaysRebuilt(r, days) \in RollupOf(F)
         /\ DaysRebuilt(r, days).minute = r.minute
         /\ DaysRebuilt(r, days).minuteMark = r.minuteMark
BY DEF DaysRebuilt, RollupOf

\* A slice, wherever it breaks off, checkpoints no minute it did not rebuild.
LEMMA SliceKeeps ==
  ASSUME NEW now \in Nat, NEW F, F \subseteq [id : Nat, at : 0 .. now],
         NEW r \in RollupOf(F), NEW fs \in SUBSET F, NEW L,
         NEW s \in Slices(r, fs, now), MinutesKept(r, fs, L)
  PROVE  s \in RollupOf(F) /\ MinutesKept(s, fs, L)
<1> DEFINE minutes == MinuteCandidates(r, fs, now)
           r1 == MinutesRebuilt(r, fs, Done(minutes))
           hours == HoursToRebuild(r1, minutes, now)
           r2 == HoursRebuilt(r1, Done(hours))
           ends1 == {MinutesRebuilt(r, fs, stop) : stop \in Stops(minutes)}
           ends2 == {HoursRebuilt(r1, stop) : stop \in Stops(hours)}
           ends3 == {DaysRebuilt(r2, days) : days \in Prefixes(AffectedDays(r1, minutes, now))}
<1>1. s \in ends1 \/ s \in ends2 \/ s \in ends3
  BY DEF Slices
<1>2. \A stop \in Stops(minutes) : /\ MinutesRebuilt(r, fs, stop) \in RollupOf(F)
                                   /\ MinutesKept(MinutesRebuilt(r, fs, stop), fs, L)
  BY MinutesRebuiltKeeps
<1>3. r1 \in RollupOf(F) /\ MinutesKept(r1, fs, L)
  BY <1>2, DoneIsAStop
<1>4. hours \subseteq 0 .. now
  <2>1. SUFFICES ASSUME NEW h \in AffectedHours(r1, minutes, now), h < HourOf(now), h > r1.hourMark
                 PROVE  h \in 0 .. now
    BY DEF HoursToRebuild
  <2>2. \A m \in minutes : m \in Nat
    BY DEF MinuteCandidates, Lowest
  <2>3. \A f \in r1.minute : f.at \in Nat
    BY <1>3 DEF RollupOf
  <2>4. h \in Nat
    <3>1. \A m \in Nat : HourOf(m) \in Nat
      BY HourIsBefore
    <3>2. h \in {HourOf(m) : m \in minutes} \/ h \in HourCandidates(r1, now)
      BY DEF AffectedHours
    <3>3. QED
      BY <2>2, <2>3, <3>1, <3>2 DEF HourCandidates, Lowest
  <2>5. QED
    BY <2>1, <2>4, HourIsBefore
<1> HIDE DEF minutes, r1, hours
<1>5. \A stop \in Stops(hours) : /\ HoursRebuilt(r1, stop) \in RollupOf(F)
                                 /\ HoursRebuilt(r1, stop).minute = r1.minute
                                 /\ HoursRebuilt(r1, stop).minuteMark = r1.minuteMark
  BY <1>3, <1>4, HoursRebuiltKeeps, ZenonT(30)
<1>6. r2 \in RollupOf(F) /\ r2.minute = r1.minute /\ r2.minuteMark = r1.minuteMark
  BY <1>5, DoneIsAStop
<1> HIDE DEF r2
<1>7. CASE s \in ends1
  BY <1>2, <1>7
<1>8. CASE s \in ends2
  BY <1>3, <1>5, <1>8 DEF MinutesKept
<1>9. CASE s \in ends3
  <2>1. \A days : /\ DaysRebuilt(r2, days) \in RollupOf(F)
                  /\ DaysRebuilt(r2, days).minute = r2.minute
                  /\ DaysRebuilt(r2, days).minuteMark = r2.minuteMark
    BY <1>6, DaysRebuiltKeeps
  <2>2. QED
    BY <1>3, <1>6, <1>9, <2>1 DEF MinutesKept
<1>10. QED
  BY <1>1, <1>7, <1>8, <1>9

-----------------------------------------------------------------------------
(* The inductive invariant.                                                *)

SessionsOf(F) == Seq([open : BOOLEAN, frames : SUBSET F])

Counters ==
  /\ load \in Loads /\ clock \in Nat /\ clock <= load.time
  /\ up \in BOOLEAN /\ paused \in BOOLEAN /\ due \in BOOLEAN /\ rested \in BOOLEAN
  /\ taken \in Nat /\ used \in Nat /\ gone \in Nat
  /\ outcome \in {"none", "ok", "failed"} /\ (up => outcome = "none")

\* Where the frames are.
Stores ==
  /\ frames \in SUBSET Frame /\ IsFiniteSet(frames)
  /\ late \in SUBSET Frame /\ tardy \in SUBSET Frame
  /\ rollup \in RollupOf(Frame) /\ MinutesKept(rollup, frames, late)
  /\ writer \in WriterOf(Frame) /\ Ordered(writer) /\ NewerThan(writer, frames)

\* Only the runtime session, the last one, may be open.
Closed(ss) == Len(ss) > 0 /\ \A i \in 1 .. Len(ss) - 1 : ~ss[i].open

Sessions == sessions \in SessionsOf(Frame) /\ Closed(sessions)

\* A stale day is today or earlier, and will be rebuilt.
Calendar ==
  /\ stale \in SUBSET Days /\ dirty \in SUBSET Days /\ first \in Mark0
  /\ \A d \in stale : d <= Today
  /\ StaleDaysAreDirty

IInv == Counters /\ Stores /\ Sessions /\ Calendar /\ EveryFrameIsAccountedFor

LEMMA NothingHappens ==
  ASSUME IInv, UNCHANGED vars
  PROVE  IInv'
BY DEF IInv, Counters, Stores, Sessions, Calendar, EveryFrameIsAccountedFor, StaleDaysAreDirty,
       Frame, Days, Today, vars, collected, daily, scheduler, process

\* The frames sampled so far stay frames.
LEMMA FrameWidens ==
  ASSUME Counters, Next
  PROVE  /\ Frame \subseteq Frame' /\ Frame \subseteq [id : Nat, at : Nat]
         /\ Frame \subseteq [id : Nat, at : 0 .. clock]
         /\ load' = load /\ clock' \in Nat /\ taken' \in Nat
<1>1. /\ clock' \in {clock, clock + 1} /\ taken' \in {taken, taken + 1} /\ load' = load
  <2>1. CASE Tick
    BY <2>1 DEF Tick, collected
  <2>2. CASE Sample \/ WriteNext \/ WriteFails \/ BackoffEnds \/ RollUp
    BY <2>2 DEF Sample, WriteNext, WriteFails, BackoffEnds, RollUp
  <2>3. CASE Use \/ DebounceEnds \/ RestEnds \/ Rebuild \/ RebuildFails
    BY <2>3 DEF Use, DebounceEnds, RestEnds, Rebuild, RebuildFails, collected
  <2>4. CASE SetPaused \/ Clear \/ ClearRefused
    BY <2>4 DEF SetPaused, Clear, ClearRefused, collected
  <2>5. CASE Shutdown \/ Crash \/ Start
    BY <2>5 DEF Shutdown, Crash, Start, collected
  <2>6. QED
    BY <2>1, <2>2, <2>3, <2>4, <2>5 DEF Next
<1>2. clock \in Nat /\ taken \in Nat
  BY DEF Counters
<1>3. 1 .. taken \subseteq 1 .. taken' /\ 0 .. clock \subseteq 0 .. clock'
  BY <1>1, <1>2
<1>4. QED
  BY <1>1, <1>2, <1>3 DEF Frame

\* The counters stay in range, and the process runs until shutdown replies.
LEMMA CountersKept ==
  ASSUME IInv, Next
  PROVE  Counters'
<1> USE DEF Counters
<1>1. Counters /\ load.time \in Nat
  BY LoadAssumption DEF IInv
<1>2. Cardinality(frames) \in Nat /\ Len(writer.queue) \in Nat /\ writer.drops \in Nat
  <2>1. IsWriter(writer, Frame)
    BY WriterFields DEF IInv, Stores
  <2>2. QED
    BY <2>1, FS_CardinalityType DEF IInv, Stores, IsWriter
<1>3. CASE Tick
  BY <1>1, <1>3 DEF Tick, collected, daily, process, scheduler
<1>4. CASE Sample \/ WriteNext \/ WriteFails \/ BackoffEnds \/ RollUp
  BY <1>1, <1>4 DEF Sample, WriteNext, WriteFails, BackoffEnds, RollUp, daily, process, scheduler
<1>5. CASE DebounceEnds \/ RestEnds \/ Rebuild \/ RebuildFails
  <2>1. due' \in BOOLEAN /\ rested' \in BOOLEAN
    BY <1>1, <1>5, Zenon DEF DebounceEnds, RestEnds, Rebuild, RebuildFails
  <2>2. UNCHANGED <<clock, load, taken, gone, used, up, paused, outcome>>
    BY <1>5 DEF DebounceEnds, RestEnds, Rebuild, RebuildFails, collected, process
  <2>3. QED
    BY <1>1, <2>1, <2>2
<1>6. CASE Use \/ SetPaused \/ ClearRefused
  <2>1. due' \in BOOLEAN
    <3>1. \E days : due' = (due /\ days = {})
      BY <1>6 DEF Use, SetPaused, ClearRefused, Mark
    <3>2. QED
      BY <3>1
  <2>2. /\ UNCHANGED <<clock, load, taken, up, outcome, rested>>
        /\ used' = used + 1 /\ paused' \in BOOLEAN
        /\ gone' = gone
    <3>1. CASE Use
      BY <1>1, <3>1 DEF Use, collected, process
    <3>2. CASE SetPaused
      BY <1>1, <3>2 DEF SetPaused, collected
    <3>3. CASE ClearRefused
      BY <1>1, <3>3 DEF ClearRefused, process
    <3>4. QED
      BY <1>6, <3>1, <3>2, <3>3
  <2>3. QED
    BY <1>1, <2>1, <2>2
<1>7. CASE Clear
  <2>1. due' \in BOOLEAN /\ rested' \in BOOLEAN
    BY <1>7, Zenon DEF Clear
  <2>2. gone' = gone + Cardinality(frames) /\ used' = used + 1
        /\ UNCHANGED <<clock, taken, up, paused, outcome, load>>
    BY <1>7 DEF Clear
  <2>3. QED
    BY <1>1, <1>2, <2>1, <2>2
<1>8. CASE Shutdown
  <2>1. /\ up' = FALSE /\ outcome' \in {"none", "ok", "failed"}
        /\ UNCHANGED <<clock, paused, taken, used, gone, due, rested, load>>
    BY <1>8 DEF Shutdown
  <2>2. QED
    BY <1>1, <2>1
<1>9. CASE Crash
  BY <1>1, <1>9 DEF Crash, collected, daily, scheduler
<1>10. CASE Start
  <2>1. up' \in BOOLEAN /\ paused' \in BOOLEAN /\ due' \in BOOLEAN /\ rested' \in BOOLEAN
    BY <1>10, Zenon DEF Start
  <2>2. gone' = gone + Len(writer.queue) + writer.drops /\ outcome' = "none"
        /\ UNCHANGED <<clock, taken, used, load>>
    BY <1>10 DEF Start
  <2>3. QED
    BY <1>1, <1>2, <2>1, <2>2
<1>11. QED
  BY <1>3, <1>4, <1>5, <1>6, <1>7, <1>8, <1>9, <1>10 DEF Next

LEMMA WriterMayWiden ==
  ASSUME IInv, Next
  PROVE  writer \in WriterOf(Frame') /\ IsWriter(writer, Frame)
BY FrameWidens, WriterWidens, WriterFields DEF IInv, Stores

\* The queue stays in the order of the ids, and newer than what is committed.
LEMMA WriterKept ==
  ASSUME IInv, Next
  PROVE  writer' \in WriterOf(Frame') /\ Ordered(writer') /\ NewerThan(writer', frames')
<1>1. /\ writer \in WriterOf(Frame) /\ Ordered(writer) /\ NewerThan(writer, frames)
      /\ frames \in SUBSET Frame /\ Counters
  BY DEF IInv, Stores
<1>2. /\ Frame \subseteq Frame' /\ Frame \subseteq [id : Nat, at : Nat]
      /\ Frame \subseteq [id : Nat, at : 0 .. clock]
  BY <1>1, FrameWidens
<1>3. IsWriter(writer, Frame) /\ writer \in WriterOf(Frame')
  BY WriterMayWiden
<1>4. CASE Sample
  <2> DEFINE frame == [id |-> taken + 1, at |-> clock]
  <2>1. frame \in Frame' /\ Frame' \subseteq [id : Nat, at : Nat] /\ frame.id = taken + 1
    BY <1>1, <1>4 DEF Sample, Frame, Counters
  <2>2. \A f \in Frame : f.id < taken + 1
    BY <1>1 DEF Frame, Counters
  <2>3. writer' = Enqueue(writer, frame) /\ frames' = frames
    BY <1>4 DEF Sample
  <2> HIDE DEF frame
  <2>4. \A i \in DOMAIN writer.queue : writer.queue[i].frame.id < frame.id
    BY <1>3, <2>1, <2>2 DEF IsWriter
  <2>5. \A f \in frames : f.id < frame.id
    BY <1>1, <2>1, <2>2
  <2>6. QED
    BY <1>1, <1>3, <2>1, <2>3, <2>4, <2>5, EnqueueKeeps
<1>5. CASE WriteNext
  <2>1. /\ writer' = Written(writer) /\ writer.queue # <<>>
        /\ frames' = frames \cup {Head(writer.queue).frame}
    BY <1>5 DEF WriteNext
  <2>2. /\ Written(writer) \in WriterOf(Frame) /\ Ordered(Written(writer))
        /\ NewerThan(Written(writer), frames \cup {Head(writer.queue).frame})
    BY <1>1, <1>2, <2>1, WrittenKeeps
  <2>3. QED
    BY <1>2, <2>1, <2>2, WriterWidens
<1>6. CASE WriteFails
  <2>1. writer' = Failed(writer) /\ writer.queue # <<>> /\ frames' = frames
    BY <1>6 DEF WriteFails
  <2>2. /\ Failed(writer) \in WriterOf(Frame) /\ Ordered(Failed(writer))
        /\ NewerThan(Failed(writer), frames)
    BY <1>1, <1>2, <2>1, FailedKeeps
  <2>3. QED
    BY <1>2, <2>1, <2>2, WriterWidens
<1>7. CASE BackoffEnds
  <2>1. /\ writer' = [writer EXCEPT !.waiting = FALSE] /\ frames' = frames
    BY <1>7 DEF BackoffEnds
  <2>2. writer' = [queue |-> writer.queue, waiting |-> FALSE, drops |-> writer.drops]
    BY <1>3, <2>1 DEF IsWriter
  <2>3. writer' \in WriterOf(Frame)
    BY <1>1, <2>2 DEF WriterOf
  <2>4. QED
    BY <1>1, <1>2, <2>1, <2>2, <2>3, WriterWidens DEF Ordered, NewerThan
<1>8. CASE Clear \/ ClearRefused
  <2>1. /\ writer' = Discarded(writer)
    BY <1>8 DEF Clear, ClearRefused
  <2>2. QED
    BY <1>3, <2>1, DiscardedKeeps
<1>9. CASE Shutdown
  <2>1. PICK flush \in Flushes(writer) : /\ writer' = Flushed(writer, flush)
                                         /\ frames' = frames \cup FlushWrote(writer, flush)
    BY <1>9 DEF Shutdown
  <2>2. /\ Flushed(writer, flush) \in WriterOf(Frame) /\ Ordered(Flushed(writer, flush))
        /\ NewerThan(Flushed(writer, flush), frames \cup FlushWrote(writer, flush))
    BY <1>1, <1>2, FlushedKeeps
  <2>3. QED
    BY <1>2, <2>1, <2>2, WriterWidens
<1>10. CASE Start
  BY <1>10, NewWriterIsTyped DEF Start
<1>11. CASE UNCHANGED <<writer, frames>>
  BY <1>1, <1>3, <1>11
<1>12. QED
  <2>1. CASE Tick \/ Use \/ DebounceEnds \/ RestEnds \/ Rebuild \/ RebuildFails \/ SetPaused \/ Crash
    BY <1>11, <2>1 DEF Tick, Use, DebounceEnds, RestEnds, Rebuild, RebuildFails, SetPaused, Crash,
                        collected
  <2>2. CASE RollUp
    BY <1>11, <2>2 DEF RollUp
  <2>3. QED
    BY <1>4, <1>5, <1>6, <1>7, <1>8, <1>9, <1>10, <2>1, <2>2 DEF Next

LEMMA RollupMayWiden ==
  ASSUME NEW F, NEW G, F \subseteq G, NEW r \in RollupOf(F)
  PROVE  r \in RollupOf(G)
BY DEF RollupOf

\* Frames committed after their minute's checkpoint are late, and no other.
LEMMA CommitKeepsMinutes ==
  ASSUME NEW new, MinutesKept(rollup, frames, late)
  PROVE  MinutesKept(rollup, frames \cup new, late \cup LateAmong(new))
BY DEF MinutesKept, LateAmong

LEMMA TardyAreFrames ==
  ASSUME NEW F, NEW fs \in SUBSET F, NEW r
  PROVE  TardyAmong(fs, r) \subseteq F /\ LateAmong(fs) \subseteq F
BY DEF TardyAmong, LateAmong

\* The committed frames and what is made of them.
LEMMA StoresKept ==
  ASSUME IInv, Next
  PROVE  Stores'
<1>1. /\ frames \in SUBSET Frame /\ IsFiniteSet(frames)
      /\ late \in SUBSET Frame /\ tardy \in SUBSET Frame
      /\ rollup \in RollupOf(Frame) /\ MinutesKept(rollup, frames, late)
      /\ writer \in WriterOf(Frame) /\ Ordered(writer) /\ NewerThan(writer, frames)
      /\ Counters /\ clock \in Nat
  BY DEF IInv, Stores, Counters
<1>2. /\ Frame \subseteq Frame' /\ Frame \subseteq [id : Nat, at : Nat]
      /\ Frame \subseteq [id : Nat, at : 0 .. clock]
  BY <1>1, FrameWidens
<1>3. IsWriter(writer, Frame)
  BY WriterMayWiden
<1>4. SUFFICES /\ frames' \in SUBSET Frame' /\ IsFiniteSet(frames')
               /\ late' \in SUBSET Frame' /\ tardy' \in SUBSET Frame'
               /\ rollup' \in RollupOf(Frame') /\ MinutesKept(rollup', frames', late')
  BY WriterKept DEF Stores
<1>5. rollup \in RollupOf(Frame')
  BY <1>1, <1>2, RollupMayWiden
<1>6. CASE UNCHANGED <<frames, late, tardy, rollup>>
  BY <1>1, <1>2, <1>5, <1>6
<1>7. CASE WriteNext
  <2> DEFINE frame == Head(writer.queue).frame
  <2>1. /\ writer.queue # <<>> /\ frames' = frames \cup {frame}
        /\ late' = late \cup LateAmong({frame})
        /\ tardy' = tardy \cup TardyAmong({frame}, rollup) /\ rollup' = rollup
    BY <1>7 DEF WriteNext
  <2>2. frame \in Frame
    BY <1>1, <1>2, <2>1, WrittenKeeps
  <2>3. TardyAmong({frame}, rollup) \subseteq Frame /\ LateAmong({frame}) \subseteq Frame
    BY <2>2, TardyAreFrames
  <2>4. MinutesKept(rollup, frames', late')
    BY <1>1, <2>1, CommitKeepsMinutes
  <2>5. IsFiniteSet(frames')
    BY <1>1, <2>1, FS_AddElement
  <2>6. QED
    BY <1>1, <1>2, <1>5, <2>1, <2>2, <2>3, <2>4, <2>5
<1>8. CASE RollUp
  <2>1. /\ rollup' \in Slices(rollup, frames, clock) /\ frames' = frames /\ late' = late
        /\ tardy' = tardy \cup TardyAmong(frames, rollup')
    BY <1>8 DEF RollUp
  <2>2. rollup' \in RollupOf(Frame) /\ MinutesKept(rollup', frames, late)
    BY <1>1, <1>2, <2>1, SliceKeeps
  <2>3. TardyAmong(frames, rollup') \subseteq Frame
    BY <1>1, TardyAreFrames
  <2>4. rollup' \in RollupOf(Frame')
    BY <1>2, <2>2, RollupMayWiden
  <2>5. QED
    BY <1>1, <1>2, <2>1, <2>2, <2>3, <2>4
<1>9. CASE Clear
  <2>1. /\ frames' = {} /\ late' = {} /\ tardy' = {}
        /\ rollup' = [EmptyRollup EXCEPT !.minuteMark = rollup.minuteMark,
                                         !.hourMark = rollup.hourMark]
    BY <1>9 DEF Clear
  <2>2. rollup' \in RollupOf(Frame')
    <3>1. rollup.minuteMark \in Mark0 /\ rollup.hourMark \in Mark0
      BY <1>1 DEF RollupOf
    <3>2. QED
      BY <2>1, <3>1 DEF RollupOf, EmptyRollup
  <2>3. MinutesKept(rollup', frames', late')
    BY <2>1 DEF MinutesKept
  <2>4. QED
    BY <2>1, <2>2, <2>3, FS_EmptySet
<1>10. CASE Shutdown
  <2>1. PICK flush \in Flushes(writer) :
          LET written == FlushWrote(writer, flush)
          IN /\ frames' = frames \cup written
             /\ late' = late \cup LateAmong(written)
             /\ rollup' \in IF FlushSucceeded(writer, flush)
                              THEN Slices(rollup, frames', clock) ELSE {rollup}
             /\ tardy' = tardy \cup TardyAmong(written, rollup) \cup TardyAmong(frames', rollup')
    BY <1>10 DEF Shutdown
  <2> DEFINE written == FlushWrote(writer, flush)
  <2>2. written \in SUBSET Frame /\ IsFiniteSet(written)
    BY <1>1, <1>2, FlushedKeeps
  <2> HIDE DEF written
  <2>3. /\ frames' = frames \cup written /\ late' = late \cup LateAmong(written)
        /\ rollup' \in Slices(rollup, frames', clock) \/ rollup' = rollup
        /\ tardy' = tardy \cup TardyAmong(written, rollup) \cup TardyAmong(frames', rollup')
    BY <2>1 DEF written
  <2>4. frames' \in SUBSET Frame /\ IsFiniteSet(frames')
    BY <1>1, <2>2, <2>3, FS_Union
  <2>5. MinutesKept(rollup, frames', late')
    BY <1>1, <2>3, CommitKeepsMinutes
  <2>6. rollup' \in RollupOf(Frame) /\ MinutesKept(rollup', frames', late')
    BY <1>1, <1>2, <2>3, <2>4, <2>5, SliceKeeps
  <2>7. /\ TardyAmong(written, rollup) \subseteq Frame /\ LateAmong(written) \subseteq Frame
        /\ TardyAmong(frames', rollup') \subseteq Frame
    BY <2>2, <2>4, TardyAreFrames
  <2>8. rollup' \in RollupOf(Frame')
    BY <1>2, <2>6, RollupMayWiden
  <2>9. late' \in SUBSET Frame' /\ tardy' \in SUBSET Frame'
    BY <1>1, <1>2, <2>3, <2>7
  <2>10. QED
    BY <1>2, <2>4, <2>6, <2>8, <2>9
<1>11. QED
  <2>1. CASE Tick \/ Use \/ DebounceEnds \/ RestEnds \/ Rebuild \/ RebuildFails \/ SetPaused \/ Crash
    BY <1>6, <2>1 DEF Tick, Use, DebounceEnds, RestEnds, Rebuild, RebuildFails, SetPaused, Crash,
                       collected
  <2>2. CASE Sample \/ WriteFails \/ BackoffEnds \/ ClearRefused \/ Start
    BY <1>6, <2>2 DEF Sample, WriteFails, BackoffEnds, ClearRefused, Start
  <2>3. QED
    BY <1>7, <1>8, <1>9, <1>10, <2>1, <2>2 DEF Next

-----------------------------------------------------------------------------
(* The collection sessions.                                                *)

Session(F) == [open : BOOLEAN, frames : SUBSET F]

\* One more session keeps the others closed, if the last of them is.
LEMMA AppendKeeps ==
  ASSUME NEW F, NEW ss \in SessionsOf(F), Closed(ss), ~ss[Len(ss)].open
  PROVE  /\ Append(ss, [open |-> TRUE, frames |-> {}]) \in SessionsOf(F)
         /\ Closed(Append(ss, [open |-> TRUE, frames |-> {}]))
<1> DEFINE fresh == [open |-> TRUE, frames |-> {}]
           more == Append(ss, fresh)
<1>1. fresh \in Session(F)
  BY DEF Session
<1>2. ss \in Seq(Session(F)) /\ Len(ss) \in Nat
  BY DEF SessionsOf, Session
<1> HIDE DEF fresh
<1>3. /\ more \in Seq(Session(F)) /\ Len(more) = Len(ss) + 1
      /\ \A i \in 1 .. Len(ss) : more[i] = ss[i]
  BY <1>1, <1>2
<1>4. Closed(more)
  BY <1>2, <1>3 DEF Closed
<1>5. QED
  BY <1>3, <1>4 DEF SessionsOf, Session, fresh

LEMMA OpenSessionKeeps ==
  ASSUME NEW F, NEW ss \in SessionsOf(F), Closed(ss)
  PROVE  WithOpenSession(ss) \in SessionsOf(F) /\ Closed(WithOpenSession(ss))
BY AppendKeeps DEF WithOpenSession

LEMMA LastIsASession ==
  ASSUME NEW F, NEW ss \in SessionsOf(F), Closed(ss)
  PROVE  ss[Len(ss)] \in Session(F) /\ Len(ss) \in DOMAIN ss /\ Len(ss) \in Nat
<1>1. ss \in Seq(Session(F))
  BY DEF SessionsOf, Session
<1>2. Len(ss) \in Nat /\ Len(ss) > 0
  BY <1>1 DEF Closed
<1>3. Len(ss) \in DOMAIN ss
  BY <1>1, <1>2
<1>4. QED
  BY <1>1, <1>2, <1>3

ChangesLast(changed, ss, t) == changed = [ss EXCEPT ![Len(ss)] = t]

\* A change to one session keeps the others.
LEMMA ChangeKeeps ==
  ASSUME NEW F, NEW ss \in SessionsOf(F), Closed(ss),
         NEW t \in Session(F), NEW changed, ChangesLast(changed, ss, t)
  PROVE  /\ changed \in SessionsOf(F) /\ Closed(changed)
         /\ Len(changed) = Len(ss) /\ DOMAIN changed = 1 .. Len(ss) /\ changed[Len(ss)] = t
<1>1. ss \in Seq(Session(F)) /\ Len(ss) \in Nat /\ Len(ss) \in DOMAIN ss
  BY DEF SessionsOf, Session, Closed
<1>2. /\ changed \in Seq(Session(F)) /\ Len(changed) = Len(ss)
      /\ \A i \in 1 .. Len(ss) - 1 : changed[i] = ss[i]
      /\ changed[Len(ss)] = t
  BY <1>1 DEF ChangesLast
<1>3. Closed(changed)
  BY <1>1, <1>2 DEF Closed
<1>4. changed \in SessionsOf(F)
  BY <1>2 DEF SessionsOf, Session
<1>5. DOMAIN changed = 1 .. Len(ss)
  BY <1>2
<1>6. QED
  BY <1>2, <1>3, <1>4, <1>5

\* Frames go into the last session, or into one opened for them.
LEMMA RecordedKeeps ==
  ASSUME NEW F, sessions \in SessionsOf(F), Closed(sessions), NEW fs \in SUBSET F
  PROVE  Recorded(fs) \in SessionsOf(F) /\ Closed(Recorded(fs))
<1>1. CASE fs = {}
  BY <1>1 DEF Recorded
<1>2. CASE fs # {}
  <2> DEFINE ss == WithOpenSession(sessions)
             t == [ss[Len(ss)] EXCEPT !.frames = @ \cup fs]
  <2>1. ss \in SessionsOf(F) /\ Closed(ss)
    BY OpenSessionKeeps
  <2>2. ChangesLast(Recorded(fs), ss, t)
    BY <1>2 DEF Recorded, ChangesLast
  <2> HIDE DEF ss
  <2>3. ss[Len(ss)] \in Session(F)
    BY <2>1, LastIsASession
  <2>4. t \in Session(F)
    BY <2>3 DEF Session
  <2> HIDE DEF t
  <2>5. QED
    BY <2>1, <2>2, <2>4, ChangeKeeps
<1>3. QED
  BY <1>1, <1>2

\* When the final close succeeds no session with frames is left open, though
\* an empty one may be.
LEMMA SessionEndsKeep ==
  ASSUME NEW F, NEW ss \in SessionsOf(F), Closed(ss), NEW end \in SessionEnds(ss)
  PROVE  /\ end.all \in SessionsOf(F) /\ Closed(end.all)
         /\ end.closed => \A i \in DOMAIN end.all : end.all[i].frames # {} => ~end.all[i].open
<1> DEFINE t == [ss[Len(ss)] EXCEPT !.open = FALSE]
           closed == [ss EXCEPT ![Len(ss)] = t]
<1>1. ss[Len(ss)] \in Session(F)
  BY LastIsASession
<1>2. t \in Session(F) /\ ~t.open
  BY <1>1 DEF Session
<1> HIDE DEF t
<1> HIDE DEF closed
<1>3. /\ closed \in SessionsOf(F) /\ Closed(closed)
      /\ Len(closed) = Len(ss) /\ DOMAIN closed = 1 .. Len(ss) /\ closed[Len(ss)] = t
  <2>1. ChangesLast(closed, ss, t)
    BY DEF closed, ChangesLast
  <2>2. t \in Session(F)
    BY <1>2
  <2>3. QED
    BY <2>1, <2>2, ChangeKeeps
<1>4. \/ end = [closed |-> FALSE, all |-> ss]
      \/ end = [closed |-> TRUE, all |-> closed]
      \/ end = [closed |-> TRUE, all |-> WithOpenSession(closed)]
  BY DEF SessionEnds, closed, t
<1>5. Len(ss) \in Nat
  BY DEF SessionsOf
<1>6. \A i \in 1 .. Len(ss) : ~closed[i].open
  BY <1>2, <1>3, <1>5 DEF Closed
<1>7. CASE end = [closed |-> FALSE, all |-> ss]
  BY <1>7
<1>8. CASE end = [closed |-> TRUE, all |-> closed]
  BY <1>3, <1>6, <1>8
<1>9. CASE end = [closed |-> TRUE, all |-> WithOpenSession(closed)]
  <2> DEFINE more == WithOpenSession(closed)
  <2>1. more \in SessionsOf(F) /\ Closed(more)
    BY <1>3, OpenSessionKeeps
  <2>2. more = Append(closed, [open |-> TRUE, frames |-> {}])
    BY <1>3, <1>5, <1>6 DEF WithOpenSession, Closed
  <2>3. closed \in Seq(Session(F))
    BY <1>3 DEF SessionsOf, Session
  <2>4. /\ DOMAIN more = 1 .. Len(ss) + 1 /\ more[Len(ss) + 1] = [open |-> TRUE, frames |-> {}]
        /\ \A i \in 1 .. Len(ss) : more[i] = closed[i]
    BY <1>3, <1>5, <2>2, <2>3
  <2>5. \A i \in DOMAIN more : more[i].frames # {} => ~more[i].open
    BY <1>5, <1>6, <2>4
  <2> HIDE DEF more
  <2>6. QED
    BY <1>9, <2>1, <2>5 DEF more
<1>10. QED
  BY <1>4, <1>7, <1>8, <1>9

LEMMA SessionsMayWiden ==
  ASSUME NEW F, NEW G, F \subseteq G, NEW ss \in SessionsOf(F)
  PROVE  ss \in SessionsOf(G)
<1>1. ss \in Seq(Session(F)) /\ Session(F) \subseteq Session(G)
  BY DEF SessionsOf, Session
<1>2. ss \in Seq(Session(G))
  BY <1>1, SeqWidens
<1>3. QED
  BY <1>2 DEF SessionsOf, Session

LEMMA SessionsKept ==
  ASSUME IInv, Next
  PROVE  Sessions'
<1>1. /\ sessions \in SessionsOf(Frame) /\ Closed(sessions) /\ Frame \subseteq Frame'
      /\ Frame \subseteq [id : Nat, at : Nat] /\ writer \in WriterOf(Frame)
      /\ Ordered(writer) /\ NewerThan(writer, frames)
  BY FrameWidens DEF IInv, Sessions, Stores
<1>2. SUFFICES sessions' \in SessionsOf(Frame) /\ Closed(sessions')
  BY <1>1, SessionsMayWiden DEF Sessions
<1>3. /\ sessions \in Seq(Session(Frame)) /\ Len(sessions) \in Nat
      /\ DOMAIN sessions = 1 .. Len(sessions)
  BY <1>1 DEF SessionsOf, Session
<1>4. CASE UNCHANGED sessions
  BY <1>1, <1>4
<1>5. CASE WriteNext
  <2> DEFINE frame == Head(writer.queue).frame
  <2>1. writer.queue # <<>> /\ sessions' = Recorded({frame})
    BY <1>5 DEF WriteNext
  <2>2. {frame} \in SUBSET Frame
    BY <1>1, <2>1, WrittenKeeps
  <2> HIDE DEF frame
  <2>3. QED
    BY <1>1, <2>1, <2>2, RecordedKeeps
<1>6. CASE Clear
  <2> DEFINE empty == [i \in DOMAIN sessions |-> [sessions[i] EXCEPT !.frames = {}]]
  <2>1. sessions' = empty
    BY <1>6 DEF Clear
  <2>2. \A i \in 1 .. Len(sessions) :
          empty[i] \in Session(Frame) /\ empty[i].open = sessions[i].open
    <3> SUFFICES ASSUME NEW i \in 1 .. Len(sessions)
                 PROVE  empty[i] \in Session(Frame) /\ empty[i].open = sessions[i].open
      OBVIOUS
    <3>1. empty[i] = [sessions[i] EXCEPT !.frames = {}] /\ sessions[i] \in Session(Frame)
      BY <1>3
    <3>2. QED
      BY <3>1 DEF Session
  <2>3. empty \in Seq(Session(Frame)) /\ Len(empty) = Len(sessions)
    <3>1. empty = [i \in 1 .. Len(sessions) |-> empty[i]]
      BY <1>3
    <3> HIDE DEF empty
    <3>2. QED
      BY <1>3, <2>2, <3>1
  <2> HIDE DEF empty
  <2>4. Closed(empty)
    BY <1>1, <1>3, <2>2, <2>3 DEF Closed
  <2>5. QED
    BY <2>1, <2>3, <2>4 DEF SessionsOf, Session
<1>7. CASE Shutdown
  <2>1. PICK flush \in Flushes(writer) :
          \E end \in SessionEnds(Recorded(FlushWrote(writer, flush))) : sessions' = end.all
    BY <1>7 DEF Shutdown
  <2>2. FlushWrote(writer, flush) \in SUBSET Frame
    BY <1>1, FlushedKeeps
  <2>3. /\ Recorded(FlushWrote(writer, flush)) \in SessionsOf(Frame)
        /\ Closed(Recorded(FlushWrote(writer, flush)))
    BY <1>1, <2>2, RecordedKeeps
  <2>4. QED
    BY <2>1, <2>3, SessionEndsKeep
<1>8. CASE Start
  <2> DEFINE shut == [i \in DOMAIN sessions |-> [sessions[i] EXCEPT !.open = FALSE]]
  <2>1. sessions' = Append(shut, [open |-> TRUE, frames |-> {}])
    BY <1>8 DEF Start
  <2>2. \A i \in 1 .. Len(sessions) : shut[i] \in Session(Frame) /\ ~shut[i].open
    <3> SUFFICES ASSUME NEW i \in 1 .. Len(sessions)
                 PROVE  shut[i] \in Session(Frame) /\ ~shut[i].open
      OBVIOUS
    <3>1. shut[i] = [sessions[i] EXCEPT !.open = FALSE] /\ sessions[i] \in Session(Frame)
      BY <1>3
    <3>2. QED
      BY <3>1 DEF Session
  <2>3. shut \in Seq(Session(Frame)) /\ Len(shut) = Len(sessions)
    <3>1. shut = [i \in 1 .. Len(sessions) |-> shut[i]]
      BY <1>3
    <3> HIDE DEF shut
    <3>2. QED
      BY <1>3, <2>2, <3>1
  <2> HIDE DEF shut
  <2>4. Closed(shut) /\ ~shut[Len(shut)].open
    BY <1>1, <1>3, <2>2, <2>3 DEF Closed
  <2>5. shut \in SessionsOf(Frame)
    BY <2>3 DEF SessionsOf, Session
  <2>6. QED
    BY <2>1, <2>4, <2>5, AppendKeeps
<1>9. QED
  <2>1. CASE Tick \/ Crash
    BY <1>4, <2>1 DEF Tick, Crash, process
  <2>2. CASE Sample \/ WriteFails \/ BackoffEnds \/ RollUp
    BY <1>4, <2>2 DEF Sample, WriteFails, BackoffEnds, RollUp, process
  <2>3. CASE Use \/ DebounceEnds \/ RestEnds \/ Rebuild \/ RebuildFails
    BY <1>4, <2>3 DEF Use, DebounceEnds, RestEnds, Rebuild, RebuildFails, process
  <2>4. CASE SetPaused \/ ClearRefused
    BY <1>4, <2>4 DEF SetPaused, ClearRefused, process
  <2>5. QED
    BY <1>5, <1>6, <1>7, <1>8, <2>1, <2>2, <2>3, <2>4 DEF Next

-----------------------------------------------------------------------------
(* The days.                                                               *)

\* What the scheduler's mark covers.
WillBeRebuilt(S, D, m) == m # NoMark => \A d \in S : d \in D \/ d < m - 1

FirstAfter(days) == IF first = NoMark /\ days # {} THEN Today ELSE first

\* A mark widens the dirty range to the days touched, and the first mark of a
\* process to all but those more than a day old.
LEMMA MarkKeeps ==
  ASSUME Counters, stale \in SUBSET Days, dirty \in SUBSET Days, first \in Mark0,
         \A d \in stale : d <= Today,
         WillBeRebuilt(stale, dirty, first), NEW days \in Touched
  PROVE  /\ days \subseteq Days /\ DirtyAfter(days) \in SUBSET Days
         /\ FirstAfter(days) \in Mark0 /\ \A d \in stale \cup days : d <= Today
         /\ WillBeRebuilt(stale \cup days, DirtyAfter(days), FirstAfter(days))
<1>1. load.time \in Nat /\ clock \in Nat /\ clock <= load.time
  BY LoadAssumption DEF Counters
<1>2. Today \in Nat /\ DayOf(load.time) \in Nat /\ Today <= DayOf(load.time)
  BY <1>1, DayIsMonotone DEF Today
<1>3. Today \in Days /\ \A d \in Days : d \in Nat
  BY <1>2 DEF Days
<1>4. days \subseteq Days /\ \A d \in days : d <= Today /\ d >= Today - 1
  <2>1. CASE days = {} \/ days = {Today}
    BY <1>2, <1>3, <2>1
  <2>2. CASE days = {d \in Days : d \in Today - 1 .. Today}
    BY <1>2, <1>3, <2>2
  <2>3. QED
    BY <2>1, <2>2 DEF Touched
<1>5. CASE days = {}
  BY <1>2, <1>5 DEF DirtyAfter, FirstAfter
<1>6. CASE days # {}
  <2> DEFINE marked == DirtyAfter(days)
  <2>1. marked = Span(dirty \cup Padded(clock))
    BY <1>6 DEF DirtyAfter
  <2>2. Padded(clock) = {d \in Days : d >= Today - 1 /\ d <= Today + 1}
    BY DEF Padded, Today
  <2> HIDE DEF marked
  <2>3. \A S \in SUBSET Days : S \subseteq Span(S) /\ Span(S) \subseteq Days
    BY <1>3 DEF Span
  <2>4. dirty \cup Padded(clock) \in SUBSET Days
    BY <2>2
  <2>5. dirty \subseteq marked /\ Padded(clock) \subseteq marked /\ marked \subseteq Days
    BY <2>1, <2>3, <2>4
  <2>6. days \subseteq marked
    BY <1>4, <1>2, <1>3, <2>2, <2>5
  <2>7. FirstAfter(days) \in Mark0
    BY <1>2 DEF FirstAfter, Mark0
  <2>8. WillBeRebuilt(stale \cup days, marked, FirstAfter(days))
    <3> SUFFICES ASSUME NEW d \in stale, d \notin marked, FirstAfter(days) # NoMark
                 PROVE  d < FirstAfter(days) - 1
      BY <2>6 DEF WillBeRebuilt
    <3>1. CASE first = NoMark
      <4>1. FirstAfter(days) = Today
        BY <1>6, <3>1 DEF FirstAfter
      <4>2. d \in Days /\ d \in Nat /\ d <= Today /\ d \notin Padded(clock)
        BY <1>3, <2>5
      <4>3. QED
        BY <1>2, <2>2, <4>1, <4>2
    <3>2. CASE first # NoMark
      BY <2>5, <3>2 DEF FirstAfter, WillBeRebuilt
    <3>3. QED
      BY <3>1, <3>2
  <2>9. QED
    BY <1>4, <2>5, <2>7, <2>8 DEF marked
<1>7. QED
  BY <1>5, <1>6

LEMMA CalendarKept ==
  ASSUME IInv, Next
  PROVE  Calendar'
<1>1. /\ Counters /\ stale \in SUBSET Days /\ dirty \in SUBSET Days /\ first \in Mark0
      /\ \A d \in stale : d <= Today
      /\ up => WillBeRebuilt(stale, dirty, first)
  BY DEF IInv, Calendar, StaleDaysAreDirty, WillBeRebuilt
<1>2. load' = load /\ Days' = Days
  BY <1>1, FrameWidens DEF Days
<1>3. SUFFICES /\ stale' \in SUBSET Days /\ dirty' \in SUBSET Days /\ first' \in Mark0
               /\ \A d \in stale' : d <= Today'
               /\ up' => WillBeRebuilt(stale', dirty', first')
  BY <1>2 DEF Calendar, StaleDaysAreDirty, WillBeRebuilt
<1>4. clock' = clock => Today' = Today
  BY DEF Today
<1>5. CASE Tick
  <2>1. clock' = clock + 1 /\ UNCHANGED <<stale, dirty, first, up>>
    BY <1>5 DEF Tick, daily, scheduler, process
  <2>2. Today \in Nat /\ Today' \in Nat /\ Today <= Today'
    BY <1>1, <2>1, DayIsMonotone DEF Counters, Today
  <2>3. \A d \in stale : d \in Nat
    <3>1. DayOf(load.time) \in Nat
      BY <1>1, LoadAssumption, DayIsMonotone DEF Counters
    <3>2. QED
      BY <1>1, <3>1 DEF Days
  <2>4. \A d \in stale : d <= Today'
    BY <1>1, <2>2, <2>3
  <2>5. QED
    BY <1>1, <2>1, <2>4
<1>6. CASE Use \/ SetPaused \/ ClearRefused
  <2>1. PICK days \in Touched : Mark(days)
    BY <1>6 DEF Use, SetPaused, ClearRefused
  <2>2. up /\ clock' = clock
    BY <1>6 DEF Use, SetPaused, ClearRefused
  <2>3. stale' = stale \cup days /\ dirty' = DirtyAfter(days) /\ first' = FirstAfter(days)
    BY <2>1 DEF Mark, FirstAfter
  <2>4. /\ days \subseteq Days /\ DirtyAfter(days) \in SUBSET Days
        /\ FirstAfter(days) \in Mark0 /\ \A d \in stale \cup days : d <= Today
        /\ WillBeRebuilt(stale \cup days, DirtyAfter(days), FirstAfter(days))
    BY <1>1, <2>2, MarkKeeps
  <2>5. QED
    BY <1>1, <1>4, <2>2, <2>3, <2>4
<1>7. CASE Rebuild
  <2>1. stale' = stale \ dirty /\ dirty' = {} /\ first' = first /\ up /\ clock' = clock
    BY <1>7 DEF Rebuild
  <2>2. WillBeRebuilt(stale', dirty', first')
    BY <1>1, <2>1 DEF WillBeRebuilt
  <2>3. QED
    BY <1>1, <1>4, <2>1, <2>2
<1>8. CASE Clear
  <2>1. stale' = {} /\ dirty' = {} /\ first' = NoMark
    BY <1>8 DEF Clear
  <2>2. QED
    BY <2>1 DEF WillBeRebuilt, Mark0
<1>9. CASE Shutdown
  <2>1. PICK rebuilt \in BOOLEAN, days \in IF used < load.usages THEN Touched ELSE {{}} :
          /\ stale' = (stale \cup days) \ (IF rebuilt THEN DirtyAfter(days) ELSE {})
          /\ dirty' = IF rebuilt THEN {} ELSE DirtyAfter(days)
          /\ first' = IF first = NoMark /\ days # {} THEN Today ELSE first
    BY <1>9 DEF Shutdown
  <2>2. days \in Touched /\ up /\ up' = FALSE /\ clock' = clock
    BY <1>9, <2>1 DEF Shutdown, Touched
  <2>3. /\ days \subseteq Days /\ DirtyAfter(days) \in SUBSET Days
        /\ FirstAfter(days) \in Mark0 /\ \A d \in stale \cup days : d <= Today
    BY <1>1, <2>2, MarkKeeps
  <2>4. stale' \subseteq stale \cup days /\ dirty' \in {{}, DirtyAfter(days)}
        /\ first' = FirstAfter(days)
    BY <2>1 DEF FirstAfter
  <2>5. QED
    BY <1>1, <1>4, <2>2, <2>3, <2>4
<1>10. CASE Start
  <2>1. stale' = stale /\ dirty' = {} /\ first' = NoMark /\ clock' = clock
    BY <1>10 DEF Start
  <2>2. QED
    BY <1>1, <1>4, <2>1 DEF WillBeRebuilt, Mark0
<1>11. CASE Crash
  <2>1. UNCHANGED <<stale, dirty, first, clock>> /\ ~up'
    BY <1>11 DEF Crash, daily, scheduler
  <2>2. QED
    BY <1>1, <1>4, <2>1
<1>12. CASE UNCHANGED <<clock, up, stale, dirty, first>>
  BY <1>1, <1>4, <1>12
<1>13. QED
  <2>1. CASE Sample \/ WriteNext \/ WriteFails \/ BackoffEnds \/ RollUp
    BY <1>12, <2>1 DEF Sample, WriteNext, WriteFails, BackoffEnds, RollUp, daily, scheduler, process
  <2>2. CASE DebounceEnds \/ RestEnds \/ RebuildFails
    BY <1>12, <2>2 DEF DebounceEnds, RestEnds, RebuildFails, process
  <2>3. QED
    BY <1>5, <1>6, <1>7, <1>8, <1>9, <1>10, <1>11, <2>1, <2>2 DEF Next

-----------------------------------------------------------------------------
(* The accounts.                                                           *)

\* The frames in different places of a queue are different, and none of them
\* is among those it is newer than.
LEMMA FlushCounts ==
  ASSUME NEW F, NEW w \in WriterOf(F), NEW S, IsFiniteSet(S), NEW flush \in Flushes(w),
         F \subseteq [id : Nat, at : Nat], S \subseteq F,
         Ordered(w), NewerThan(w, S)
  PROVE  Cardinality(S \cup FlushWrote(w, flush))
           + Len(Flushed(w, flush).queue) + Flushed(w, flush).drops
         = Cardinality(S) + Len(w.queue) + w.drops
<1> DEFINE n == flush.done
           through == {w.queue[i].frame : i \in 1 .. n}
           at == [i \in 1 .. n |-> w.queue[i].frame]
           wrote == FlushWrote(w, flush)
<1>1. IsWriter(w, F)
  BY WriterFields
<1>2. n \in 0 .. Len(w.queue) /\ flush.evicted \subseteq through /\ wrote = through \ flush.evicted
  BY DEF Flushes, FlushWrote
<1>3. /\ \A i \in 1 .. n : i \in DOMAIN w.queue /\ w.queue[i].frame.id \in Nat
      /\ \A i, j \in 1 .. n : w.queue[i].frame = w.queue[j].frame => i = j
  <2>1. \A i \in 1 .. n : i \in DOMAIN w.queue /\ w.queue[i].frame.id \in Nat
    BY <1>1, <1>2 DEF IsWriter
  <2>2. \A i, j \in 1 .. n : i < j => w.queue[i].frame.id < w.queue[j].frame.id
    BY <2>1 DEF Ordered
  <2>3. ASSUME NEW i \in 1 .. n, NEW j \in 1 .. n, w.queue[i].frame = w.queue[j].frame
        PROVE  i = j
    <3>1. ~(i < j) /\ ~(j < i)
      BY <2>1, <2>2, <2>3
    <3>2. QED
      BY <3>1
  <2>4. QED
    BY <2>1, <2>3
<1>4. IsFiniteSet(1 .. n) /\ Cardinality(1 .. n) = n
  <2>1. n \in Nat
    BY <1>1, <1>2 DEF IsWriter
  <2>2. IsFiniteSet(1 .. n) /\ Cardinality(1 .. n) = IF 1 > n THEN 0 ELSE n - 1 + 1
    <3>1. \A a, b \in Int : /\ IsFiniteSet(a .. b)
                             /\ Cardinality(a .. b) = IF a > b THEN 0 ELSE b - a + 1
      BY FS_Interval, Zenon
    <3>2. 1 \in Int /\ n \in Int
      BY <2>1
    <3>3. QED
      BY <3>1, <3>2
  <2>3. QED
    BY <2>1, <2>2
<1>5. at \in Surjection(1 .. n, through) /\ at \in Injection(1 .. n, through)
  BY <1>3 DEF Surjection, Injection, IsInjective
<1>6. IsFiniteSet(through) /\ Cardinality(through) = n
  BY <1>4, <1>5, FS_Surjection
<1>7. \A f \in through : f \notin S
  <2> SUFFICES ASSUME NEW i \in 1 .. n, w.queue[i].frame \in S
               PROVE  FALSE
    OBVIOUS
  <2>1. w.queue[i].frame.id < w.queue[i].frame.id
    BY <1>3 DEF NewerThan
  <2>2. QED
    BY <1>3, <2>1
<1> HIDE DEF through, wrote
<1>8. IsFiniteSet(wrote) /\ IsFiniteSet(flush.evicted)
  BY <1>2, <1>6, FS_Subset
<1>9. Cardinality(wrote) + Cardinality(flush.evicted) = n
  <2>1. wrote \cup flush.evicted = through /\ wrote \cap flush.evicted = {}
    BY <1>2
  <2>2. Cardinality(through)
          = Cardinality(wrote) + Cardinality(flush.evicted) - Cardinality({})
    BY <1>8, <2>1, FS_Union
  <2>3. QED
    BY <1>6, <1>8, <2>2, FS_EmptySet, FS_CardinalityType
<1>10. Cardinality(S \cup wrote) = Cardinality(S) + Cardinality(wrote)
  <2>1. S \cap wrote = {}
    BY <1>2, <1>7
  <2>2. Cardinality(S \cup wrote) = Cardinality(S) + Cardinality(wrote) - Cardinality({})
    BY <1>8, <2>1, FS_Union
  <2>3. QED
    BY <1>8, <2>2, FS_EmptySet, FS_CardinalityType
<1>11. /\ Flushed(w, flush).drops = w.drops + Cardinality(flush.evicted)
       /\ Len(Flushed(w, flush).queue) = Len(w.queue) - n
  <2>1. \A i \in n + 1 .. Len(w.queue) : w.queue[i] \in Entries(F)
    BY <1>1, <1>2 DEF IsWriter
  <2>2. Len(SubSeq(w.queue, n + 1, Len(w.queue)))
          = IF n + 1 <= Len(w.queue) THEN Len(w.queue) - (n + 1) + 1 ELSE 0
    BY <1>1, <1>2, <2>1, SubSeqProperties DEF IsWriter
  <2>3. Len(SubSeq(w.queue, n + 1, Len(w.queue))) = Len(w.queue) - n
    BY <1>1, <1>2, <2>2 DEF IsWriter
  <2>4. QED
    BY <2>3 DEF Flushed
<1>12. /\ Cardinality(S) \in Nat /\ Cardinality(wrote) \in Nat
       /\ Cardinality(flush.evicted) \in Nat /\ w.drops \in Nat /\ Len(w.queue) \in Nat /\ n \in Nat
  BY <1>1, <1>2, <1>8, FS_CardinalityType DEF IsWriter
<1>13. QED
  BY <1>9, <1>10, <1>11, <1>12 DEF wrote

LEMMA FramesAreAccountedFor ==
  ASSUME IInv, Next
  PROVE  EveryFrameIsAccountedFor'
<1> DEFINE count == Cardinality(frames)
<1>1. /\ frames \in SUBSET Frame /\ IsFiniteSet(frames) /\ writer \in WriterOf(Frame)
      /\ Ordered(writer) /\ NewerThan(writer, frames) /\ Frame \subseteq [id : Nat, at : Nat]
      /\ taken \in Nat /\ gone \in Nat
  BY FrameWidens DEF IInv, Stores, Counters
<1>2. /\ count \in Nat /\ Len(writer.queue) \in Nat /\ writer.drops \in Nat
      /\ writer.queue \in Seq(Entries(Frame))
      /\ IsWriter(writer, Frame)
  BY <1>1, FS_CardinalityType, WriterFields DEF IsWriter
<1>numbers. /\ count \in Nat /\ Len(writer.queue) \in Nat /\ writer.drops \in Nat
            /\ gone \in Nat /\ taken \in Nat
  BY <1>1, <1>2
<1>3. taken = count + Len(writer.queue) + writer.drops + gone
  BY DEF IInv, EveryFrameIsAccountedFor
<1> HIDE DEF count
<1>4. SUFFICES taken' = count' + Len(writer'.queue) + writer'.drops + gone'
  BY DEF EveryFrameIsAccountedFor, count
<1>5. frames' = frames => count' = count
  BY DEF count
<1>6. CASE Sample
  <2> DEFINE frame == [id |-> taken + 1, at |-> clock]
  <2>1. writer' = Enqueue(writer, frame) /\ frames' = frames /\ gone' = gone /\ taken' = taken + 1
    BY <1>6 DEF Sample
  <2> HIDE DEF frame
  <2>5. count' = count /\ gone' = gone /\ taken' = taken + 1
    BY <1>5, <2>1
  <2>2. CASE Len(writer.queue) >= Depth
    <3>1. writer'.queue = writer.queue /\ writer'.drops = writer.drops + 1
      BY <1>2, <2>1, <2>2 DEF Enqueue, IsWriter
    <3>2. count + Len(writer.queue) + (writer.drops + 1) + gone
            = count + Len(writer.queue) + writer.drops + gone + 1
      BY <1>numbers
    <3>3. QED
      BY <1>3, <2>5, <3>1, <3>2
  <2>3. CASE ~(Len(writer.queue) >= Depth)
    <3>1. /\ writer'.queue = Append(writer.queue, [frame |-> frame, attempts |-> 0])
          /\ writer'.drops = writer.drops
      BY <1>2, <2>1, <2>3 DEF Enqueue, IsWriter
    <3>2. Len(writer'.queue) = Len(writer.queue) + 1
      BY <1>2, <3>1
    <3>3. count + (Len(writer.queue) + 1) + writer.drops + gone
            = count + Len(writer.queue) + writer.drops + gone + 1
      BY <1>numbers
    <3>4. QED
      BY <1>3, <2>5, <3>1, <3>2, <3>3
  <2>4. QED
    BY <2>2, <2>3
<1>7. CASE WriteNext
  <2> DEFINE frame == Head(writer.queue).frame
  <2>1. /\ writer' = Written(writer) /\ writer.queue # <<>> /\ gone' = gone /\ taken' = taken
        /\ frames' = frames \cup {frame}
    BY <1>7 DEF WriteNext
  <2>2. 1 \in DOMAIN writer.queue /\ frame = writer.queue[1].frame /\ frame.id \in Nat
    BY <1>1, <1>2, <2>1 DEF IsWriter
  <2>3. frame \notin frames
    <3>1. ASSUME frame \in frames
          PROVE  frame.id < frame.id
      BY <1>1, <2>2, <3>1 DEF NewerThan
    <3>2. QED
      BY <2>2, <3>1
  <2> HIDE DEF frame
  <2>4. count' = count + 1
    BY <1>1, <2>1, <2>3, FS_AddElement DEF count
  <2>5. Len(writer'.queue) = Len(writer.queue) - 1 /\ writer'.drops = writer.drops
    <3>1. writer'.queue = Tail(writer.queue) /\ writer'.drops = writer.drops
      BY <2>1 DEF Written
    <3>2. QED
      BY <1>2, <2>1, <3>1
  <2>6. QED
    <3>1. gone' = gone /\ taken' = taken
      BY <2>1
    <3>2. Len(writer'.queue) \in Nat /\ Len(writer.queue) = Len(writer'.queue) + 1
      BY <1>numbers, <2>1, <2>5, <1>2, EmptySeq
    <3>3. PICK a \in Nat, b \in Nat, c \in Nat, d \in Nat :
            a = count /\ b = Len(writer'.queue) /\ c = writer.drops /\ d = gone
      BY <1>numbers, <3>2
    <3>4. (a + 1) + b + c + d = a + (b + 1) + c + d
      OBVIOUS
    <3>5. taken = a + (b + 1) + c + d
      BY <1>3, <3>2, <3>3, Zenon
    <3>6. count' + Len(writer'.queue) + writer'.drops + gone' = (a + 1) + b + c + d
      BY <2>4, <2>5, <3>1, <3>3, Zenon
    <3>7. QED
      BY <3>1, <3>4, <3>5, <3>6, Zenon
<1>8. CASE WriteFails
  <2>1. /\ writer' = Failed(writer) /\ writer.queue # <<>> /\ gone' = gone /\ taken' = taken
        /\ frames' = frames
    BY <1>8 DEF WriteFails
  <2>2. CASE Head(writer.queue).attempts >= RetryLimit
    <3>1. Len(writer'.queue) = Len(writer.queue) - 1 /\ writer'.drops = writer.drops + 1
      BY <1>2, <2>1, <2>2 DEF Failed
    <3>2. count' = count /\ gone' = gone /\ taken' = taken
      BY <1>5, <2>1
    <3>3. QED
      BY <1>numbers, <1>3, <3>1, <3>2, SMTT(30)
  <2>3. CASE ~(Head(writer.queue).attempts >= RetryLimit)
    <3>1. /\ writer'.queue = [writer.queue EXCEPT ![1].attempts = @ + 1]
          /\ writer'.drops = writer.drops
      BY <2>1, <2>3 DEF Failed
    <3>2. Len(writer'.queue) = Len(writer.queue)
      BY <1>2, <3>1
    <3>3. QED
      BY <1>numbers, <1>3, <1>5, <2>1, <3>1, <3>2
  <2>4. QED
    BY <2>2, <2>3
<1>9. CASE BackoffEnds
  <2>1. writer' = [writer EXCEPT !.waiting = FALSE] /\ frames' = frames /\ gone' = gone /\ taken' = taken
    BY <1>9 DEF BackoffEnds
  <2>2. writer'.queue = writer.queue /\ writer'.drops = writer.drops
    BY <1>2, <2>1 DEF IsWriter
  <2>3. QED
    BY <1>3, <1>5, <2>1, <2>2
<1>10. CASE Clear \/ ClearRefused
  <2>1. /\ writer' = Discarded(writer) /\ taken' = taken
        /\ \/ frames' = {} /\ gone' = gone + count
           \/ frames' = frames /\ gone' = gone
    BY <1>10 DEF Clear, ClearRefused, count
  <2>2. Len(writer'.queue) = 0 /\ writer'.drops = writer.drops + Len(writer.queue)
    BY <2>1 DEF Discarded
  <2>3. frames' = {} => count' = 0
    BY FS_EmptySet DEF count
  <2>4. QED
    BY <1>numbers, <1>3, <1>5, <2>1, <2>2, <2>3
<1>11. CASE Shutdown
  <2>1. PICK flush \in Flushes(writer) : /\ writer' = Flushed(writer, flush)
                                         /\ frames' = frames \cup FlushWrote(writer, flush)
    BY <1>11 DEF Shutdown
  <2>2. taken' = taken /\ gone' = gone
    BY <1>11 DEF Shutdown
  <2>3. count' + Len(writer'.queue) + writer'.drops
          = count + Len(writer.queue) + writer.drops
    BY <1>1, <2>1, FlushCounts DEF count
  <2>4. IsFiniteSet(frames') /\ writer' \in WriterOf(Frame')
    BY StoresKept DEF Stores
  <2>5. count' \in Nat /\ Len(writer'.queue) \in Nat /\ writer'.drops \in Nat
    <3>1. IsWriter(writer', Frame')
      BY <2>4, WriterFields
    <3>2. QED
      BY <2>4, <3>1, FS_CardinalityType DEF IsWriter, count
  <2>6. QED
    BY <1>numbers, <1>3, <2>2, <2>3, <2>5
<1>12. CASE Start
  <2>1. /\ writer' = NewWriter /\ gone' = gone + Len(writer.queue) + writer.drops
        /\ frames' = frames /\ taken' = taken
    BY <1>12 DEF Start
  <2>2. Len(writer'.queue) = 0 /\ writer'.drops = 0
    BY <2>1 DEF NewWriter
  <2>3. QED
    BY <1>numbers, <1>3, <1>5, <2>1, <2>2
<1>13. CASE UNCHANGED <<writer, frames, gone, taken>>
  BY <1>3, <1>5, <1>13
<1>14. QED
  <2>1. CASE Tick \/ Use \/ DebounceEnds \/ RestEnds \/ Rebuild \/ RebuildFails \/ SetPaused \/ Crash
    BY <1>13, <2>1 DEF Tick, Use, DebounceEnds, RestEnds, Rebuild, RebuildFails, SetPaused, Crash,
                        collected
  <2>2. CASE RollUp
    BY <1>13, <2>2 DEF RollUp
  <2>3. QED
    BY <1>6, <1>7, <1>8, <1>9, <1>10, <1>11, <1>12, <2>1, <2>2 DEF Next

-----------------------------------------------------------------------------
(* The theorems.                                                           *)

LEMMA InitHolds ==
  ASSUME Init
  PROVE  IInv
<1>1. Counters
  <2>1. up \in BOOLEAN /\ paused \in BOOLEAN /\ due \in BOOLEAN /\ rested \in BOOLEAN
    BY Zenon DEF Init
  <2>2. /\ load \in Loads /\ clock = 0 /\ outcome = "none" /\ taken = 0 /\ used = 0 /\ gone = 0
        /\ load.time \in Nat
    BY LoadAssumption DEF Init
  <2>3. QED
    BY <2>1, <2>2 DEF Counters
<1>2. Stores
  <2>1. writer = NewWriter /\ frames = {} /\ rollup = EmptyRollup /\ late = {} /\ tardy = {}
    BY DEF Init
  <2>2. rollup \in RollupOf(Frame)
    BY <2>1 DEF EmptyRollup, RollupOf, Mark0
  <2>3. MinutesKept(rollup, frames, late)
    BY <2>1 DEF MinutesKept
  <2>4. QED
    BY <2>1, <2>2, <2>3, NewWriterIsTyped, FS_EmptySet DEF Stores
<1>3. Sessions
  <2> DEFINE fresh == [open |-> TRUE, frames |-> {}]
  <2>1. sessions = <<fresh>>
    BY DEF Init
  <2>2. fresh \in Session(Frame)
    BY DEF Session
  <2> HIDE DEF fresh
  <2>3. sessions \in Seq(Session(Frame)) /\ Len(sessions) = 1
    BY <2>1, <2>2
  <2>4. QED
    BY <2>3 DEF Sessions, SessionsOf, Session, Closed
<1>4. Calendar
  BY DEF Init, Calendar, StaleDaysAreDirty, Mark0
<1>5. EveryFrameIsAccountedFor
  <2>1. taken = 0 /\ frames = {} /\ gone = 0 /\ Len(writer.queue) = 0 /\ writer.drops = 0
    BY DEF Init, NewWriter
  <2>2. QED
    BY <2>1, FS_EmptySet DEF EveryFrameIsAccountedFor
<1>6. QED
  BY <1>1, <1>2, <1>3, <1>4, <1>5 DEF IInv

LEMMA StepKeeps ==
  ASSUME IInv, [Next]_vars
  PROVE  IInv'
<1>1. CASE Next
  BY <1>1, CountersKept, StoresKept, SessionsKept, CalendarKept, FramesAreAccountedFor DEF IInv
<1>2. CASE UNCHANGED vars
  BY <1>2, NothingHappens
<1>3. QED
  BY <1>1, <1>2

\* The invariant is inductive: it holds in every reachable state.
THEOREM Inductive == Spec => []IInv
<1>1. Init => IInv
  BY InitHolds
<1>2. IInv /\ [Next]_vars => IInv'
  BY StepKeeps
<1>3. QED
  BY <1>1, <1>2, PTL DEF Spec

\* Every variable stays in its type: the queue never exceeds its depth, and an
\* entry never has more attempts than the retry limit (FrameWriter).
THEOREM TypeCorrect == Spec => []TypeOK
<1>1. IInv => TypeOK
  <2> SUFFICES ASSUME IInv
               PROVE  TypeOK
    OBVIOUS
  <2>1. Counters /\ Stores /\ Sessions /\ Calendar
    BY DEF IInv
  <2>2. /\ writer \in [queue : Seq([frame : Frame, attempts : 0 .. RetryLimit]),
                       waiting : BOOLEAN, drops : Nat]
        /\ Len(writer.queue) <= Depth
    BY <2>1 DEF Stores, WriterOf, Entries
  <2>3. /\ frames \in SUBSET Frame /\ late \in SUBSET Frame /\ tardy \in SUBSET Frame
        /\ rollup \in [minute : SUBSET Frame, hour : SUBSET Frame, day : SUBSET Frame,
                       minuteMark : Nat \cup {NoMark}, hourMark : Nat \cup {NoMark}]
    BY <2>1 DEF Stores, RollupOf, Mark0
  <2>4. /\ sessions \in Seq([open : BOOLEAN, frames : SUBSET Frame])
        /\ stale \in SUBSET Days /\ dirty \in SUBSET Days /\ first \in Nat \cup {NoMark}
    BY <2>1 DEF Sessions, SessionsOf, Calendar, Mark0
  <2>5. /\ load \in Loads /\ clock \in Nat /\ up \in BOOLEAN /\ paused \in BOOLEAN
        /\ due \in BOOLEAN /\ rested \in BOOLEAN /\ taken \in Nat /\ used \in Nat /\ gone \in Nat
        /\ outcome \in {"none", "ok", "failed"}
    BY <2>1 DEF Counters
  <2>6. QED
    BY <2>2, <2>3, <2>4, <2>5 DEF TypeOK
<1>2. QED
  BY <1>1, Inductive, PTL

\* Whatever is retried, evicted, flushed or discarded, frames are committed in
\* the order they were sampled.
THEOREM FramesCommitInOrder == Spec => []CommittedInOrder
<1>1. IInv => CommittedInOrder
  BY DEF IInv, Stores, Ordered, NewerThan, CommittedInOrder
<1>2. QED
  BY <1>1, Inductive, PTL

\* No frame is in two places or disappears uncounted, through failures,
\* flushes, clears, crashes and restarts.
THEOREM NoFrameGoesMissing == Spec => []EveryFrameIsAccountedFor
<1>1. IInv => EveryFrameIsAccountedFor
  BY DEF IInv
<1>2. QED
  BY <1>1, Inductive, PTL

\* The minute layer's checkpoint never passes a frame that was there, wherever
\* a slice breaks off (run_process_rollups).
THEOREM MinutesAreNotSkipped == Spec => []NoMinuteIsSkipped
<1>1. IInv => NoMinuteIsSkipped
  BY DEF IInv, Stores, MinutesKept, NoMinuteIsSkipped
<1>2. QED
  BY <1>1, Inductive, PTL

\* The dirty range of the daily rollup holds every day that has to be rebuilt.
THEOREM StaleDaysStayDirty == Spec => []StaleDaysAreDirty
<1>1. IInv => StaleDaysAreDirty
  BY DEF IInv, Calendar
<1>2. QED
  BY <1>1, Inductive, PTL

LEMMA OkShutdownStep ==
  ASSUME IInv, Next, up, outcome' = "ok"
  PROVE  /\ Frames(writer) \subseteq frames'
         /\ first' # NoMark => \A d \in stale' : d < first' - 1
         /\ \A i \in DOMAIN sessions' : sessions'[i].frames # {} => ~sessions'[i].open
<1>1. /\ Counters /\ stale \in SUBSET Days /\ dirty \in SUBSET Days /\ first \in Mark0
      /\ \A d \in stale : d <= Today
      /\ outcome = "none"
      /\ WillBeRebuilt(stale, dirty, first)
  BY DEF IInv, Calendar, StaleDaysAreDirty, WillBeRebuilt, Counters
<1>2. /\ sessions \in SessionsOf(Frame) /\ Closed(sessions) /\ writer \in WriterOf(Frame)
      /\ Ordered(writer) /\ NewerThan(writer, frames) /\ Frame \subseteq [id : Nat, at : Nat]
  BY FrameWidens DEF IInv, Sessions, Stores
<1>3. Shutdown
  <2>1. outcome' # outcome
    <3>1. outcome = "none"
      BY <1>1
    <3>2. QED
      BY <3>1, "none" # "ok", Zenon
  <2>2. ~(Tick \/ Crash)
    BY <2>1 DEF Tick, Crash, process
  <2>3. ~(Sample \/ WriteNext \/ WriteFails \/ BackoffEnds \/ RollUp)
    BY <2>1 DEF Sample, WriteNext, WriteFails, BackoffEnds, RollUp, process
  <2>4. ~(Use \/ DebounceEnds \/ RestEnds \/ Rebuild \/ RebuildFails)
    BY <2>1 DEF Use, DebounceEnds, RestEnds, Rebuild, RebuildFails, process
  <2>5. ~(SetPaused \/ Clear \/ ClearRefused \/ Start)
    BY <2>1 DEF SetPaused, Clear, ClearRefused, Start, process
  <2>6. QED
    BY <2>2, <2>3, <2>4, <2>5 DEF Next
<1>4. PICK flush \in Flushes(writer), rebuilt \in BOOLEAN,
           days \in IF used < load.usages THEN Touched ELSE {{}} :
      \E end \in SessionEnds(Recorded(FlushWrote(writer, flush))) :
        /\ stale' = (stale \cup days) \ (IF rebuilt THEN DirtyAfter(days) ELSE {})
        /\ first' = IF first = NoMark /\ days # {} THEN Today ELSE first
        /\ frames' = frames \cup FlushWrote(writer, flush)
        /\ sessions' = end.all
        /\ rebuilt /\ FlushSucceeded(writer, flush) /\ end.closed
  BY <1>3 DEF Shutdown
<1>5. Frames(writer) \subseteq frames'
  <2>1. IsWriter(writer, Frame)
    BY <1>2, WriterFields
  <2>2. FlushWrote(writer, flush) = {writer.queue[i].frame : i \in 1 .. Len(writer.queue)}
    BY <1>4 DEF FlushSucceeded, FlushWrote
  <2>3. QED
    BY <1>4, <2>1, <2>2 DEF Frames, IsWriter
<1>6. ASSUME first' # NoMark
      PROVE  \A d \in stale' : d < first' - 1
  <2>1. days \in Touched
    BY <1>4 DEF Touched
  <2>2. WillBeRebuilt(stale \cup days, DirtyAfter(days), FirstAfter(days))
    BY <1>1, <2>1, MarkKeeps
  <2>3. first' = FirstAfter(days) /\ stale' = (stale \cup days) \ DirtyAfter(days)
    BY <1>4 DEF FirstAfter
  <2>4. QED
    BY <1>6, <2>2, <2>3 DEF WillBeRebuilt
<1>7. \A i \in DOMAIN sessions' : sessions'[i].frames # {} => ~sessions'[i].open
  <2>1. FlushWrote(writer, flush) \in SUBSET Frame
    BY <1>2, FlushedKeeps
  <2>2. /\ Recorded(FlushWrote(writer, flush)) \in SessionsOf(Frame)
        /\ Closed(Recorded(FlushWrote(writer, flush)))
    BY <1>2, <2>1, RecordedKeeps
  <2>3. QED
    BY <1>4, <2>2, SessionEndsKeep
<1>8. QED
  BY <1>5, <1>6, <1>7

\* A shutdown that replies ok has left nothing undone.
THEOREM OkMeansFinished == Spec => OkShutdownFinishes
<1> DEFINE Finishes == up /\ outcome' = "ok" =>
             /\ Frames(writer) \subseteq frames'
             /\ first' # NoMark => \A d \in stale' : d < first' - 1
             /\ \A i \in DOMAIN sessions' : sessions'[i].frames # {} => ~sessions'[i].open
<1>1. IInv /\ [Next]_vars => [Finishes]_vars
  BY OkShutdownStep
<1>2. QED
  BY <1>1, Inductive, PTL DEF Spec, OkShutdownFinishes

-----------------------------------------------------------------------------
(* The hour layer, for every batch and calendar: an invariant of its own,  *)
(* over IInv.                                                              *)

HoursOf(S) == {HourOf(f.at) : f \in S}

\* The hours a slice looks at are not cut off.
FewHours(r) == Cardinality(HoursOf(r.minute)) <= Batch

\* No hour up to the checkpoint misses what its minutes count.
HoursComplete(r, T) ==
  FewHours(r) => \A f \in r.minute \ T : HourOf(f.at) <= r.hourMark => f \in r.hour

\* Rows count committed frames, and T has every frame the hours may miss.
HoursKept(r, fs, T) ==
  /\ r.minute \subseteq fs
  /\ TardyAmong(fs, r) \subseteq T
  /\ HoursComplete(r, T)

-----------------------------------------------------------------------------
(* The calendar, and sets of hours.                                        *)

\* What is not before an hour is not in an earlier one.
LEMMA HourHolds ==
  ASSUME NEW n \in Nat, NEW t \in Nat, HourOf(n) <= t
  PROVE  HourOf(n) <= HourOf(t)
<1>1. HourLen \in Nat \ {0}
  BY RollupAssumption
<1>2. \A h \in Nat \ {0} : n - (n % h) <= t => n - (n % h) <= t - (t % h)
  <2> SUFFICES ASSUME NEW h \in Nat \ {0}, n - (n % h) <= t
               PROVE  n - (n % h) <= t - (t % h)
    OBVIOUS
  <2> DEFINE a == n \div h
             b == t \div h
  <2>1. a \in Nat /\ b \in Nat /\ n - (n % h) = h * a /\ t - (t % h) = h * b
    BY SMTT(30)
  <2>2. t % h < h
    BY SMTT(30)
  <2> HIDE DEF a, b
  <2>3. CASE a <= b
    <3>1. h * a <= h * b
      BY <2>1, <2>3, SMTT(30)
    <3>2. QED
      BY <2>1, <3>1
  <2>4. CASE b + 1 <= a
    <3>1. h * (b + 1) <= h * a /\ h * (b + 1) = h * b + h
      BY <2>1, <2>4, SMTT(30)
    <3>2. h * a \in Nat /\ h * b \in Nat /\ t % h \in Nat
      BY <2>1, SMTT(30)
    <3>3. QED
      BY <2>1, <2>2, <3>1, <3>2
  <2>5. QED
    BY <2>1, <2>3, <2>4
<1>3. QED
  BY <1>1, <1>2 DEF HourOf

LEMMA HoursAreFinite ==
  ASSUME NEW now \in Nat, NEW S, S \subseteq [id : Nat, at : 0 .. now]
  PROVE  /\ IsFiniteSet(HoursOf(S)) /\ Cardinality(HoursOf(S)) \in Nat
         /\ HoursOf(S) \subseteq Nat
<1>1. HoursOf(S) \subseteq 0 .. now
  <2> SUFFICES ASSUME NEW f \in S
               PROVE  HourOf(f.at) \in 0 .. now
    BY DEF HoursOf
  <2>1. f.at \in 0 .. now
    OBVIOUS
  <2>2. f.at \in Nat /\ f.at <= now
    BY <2>1
  <2>3. HourOf(f.at) \in 0 .. f.at
    BY <2>2, HourIsBefore
  <2>4. QED
    BY <2>2, <2>3
<1>2. IsFiniteSet(HoursOf(S))
  BY <1>1, MinutesAreFinite
<1>3. QED
  BY <1>1, <1>2, FS_CardinalityType

\* Fewer rows have fewer hours.
LEMMA FewerHours ==
  ASSUME NEW now \in Nat, NEW r, NEW q, q.minute \subseteq [id : Nat, at : 0 .. now],
         r.minute \subseteq q.minute, FewHours(q)
  PROVE  FewHours(r)
<1>1. HoursOf(r.minute) \subseteq HoursOf(q.minute)
  BY DEF HoursOf
<1>2. IsFiniteSet(HoursOf(q.minute)) /\ Cardinality(HoursOf(q.minute)) \in Nat
  BY HoursAreFinite
<1>3. /\ IsFiniteSet(HoursOf(r.minute))
      /\ Cardinality(HoursOf(r.minute)) <= Cardinality(HoursOf(q.minute))
  BY <1>1, <1>2, FS_Subset
<1>4. Cardinality(HoursOf(r.minute)) \in Nat
  BY <1>3, FS_CardinalityType
<1>5. QED
  BY <1>2, <1>3, <1>4, RollupAssumption DEF FewHours

\* LIMIT leaves nothing out of a set that is no larger.
LEMMA LowestIsAll ==
  ASSUME NEW S, NEW All, S \subseteq All, All \subseteq Nat, IsFiniteSet(All),
         NEW n \in Nat, Cardinality(All) <= n, NEW x \in S
  PROVE  x \in Lowest(n, S)
<1> DEFINE Below == {y \in S : y < x}
<1>1. Below \subseteq All \ {x}
  <2>1. \A y \in Nat : ~(y < y)
    OBVIOUS
  <2>2. QED
    BY <2>1
<1>2. IsFiniteSet(All \ {x}) /\ Cardinality(All \ {x}) = Cardinality(All) - 1
  BY FS_RemoveElement
<1>3. IsFiniteSet(Below) /\ Cardinality(Below) <= Cardinality(All \ {x})
  BY <1>1, <1>2, FS_Subset
<1>4. Cardinality(Below) \in Nat /\ Cardinality(All) \in Nat
  BY <1>3, FS_CardinalityType
<1>5. Cardinality(Below) < n
  BY <1>2, <1>3, <1>4
<1>6. QED
  BY <1>5 DEF Lowest

-----------------------------------------------------------------------------
(* A slice.                                                                *)

\* New minute rows are of hours not checkpointed yet, or tardy.
LEMMA MinutesKeepHours ==
  ASSUME NEW now \in Nat, NEW F, F \subseteq [id : Nat, at : 0 .. now],
         NEW r \in RollupOf(F), NEW fs \in SUBSET F, NEW T, HoursKept(r, fs, T),
         NEW stop \in Stops(MinuteCandidates(r, fs, now))
  PROVE  HoursKept(MinutesRebuilt(r, fs, stop), fs, T)
<1> DEFINE r1 == MinutesRebuilt(r, fs, stop)
<1>1. /\ r1.minute = {f \in r.minute : f.at \notin stop[1]} \cup {f \in fs : f.at \in stop[1]}
      /\ r1.hour = r.hour /\ r1.hourMark = r.hourMark
  BY DEF MinutesRebuilt
<1> HIDE DEF r1
<1>2. r.minute \subseteq fs /\ TardyAmong(fs, r) \subseteq T /\ HoursComplete(r, T)
  BY DEF HoursKept
<1>3. r.minute \subseteq r1.minute /\ r1.minute \subseteq fs
  BY <1>1, <1>2
<1>4. TardyAmong(fs, r1) \subseteq T
  BY <1>1, <1>2, <1>3 DEF TardyAmong
<1>5. HoursComplete(r1, T)
  <2> SUFFICES ASSUME FewHours(r1), NEW f \in r1.minute \ T, HourOf(f.at) <= r1.hourMark
               PROVE  f \in r1.hour
    BY DEF HoursComplete
  <2>1. FewHours(r)
    <3>1. r1.minute \subseteq [id : Nat, at : 0 .. now]
      BY <1>3
    <3>2. QED
      BY <1>3, <3>1, FewerHours
  <2>2. f \in r.minute
    BY <1>1, <1>2, <1>3 DEF TardyAmong
  <2>3. QED
    BY <1>1, <1>2, <2>1, <2>2 DEF HoursComplete
<1>6. QED
  BY <1>3, <1>4, <1>5 DEF HoursKept, r1

\* The hours of a slice that are not cut off leave none out up to the last one.
LEMMA HoursKeepHours ==
  ASSUME NEW now \in Nat, NEW F, F \subseteq [id : Nat, at : 0 .. now],
         NEW r \in RollupOf(F), NEW fs \in SUBSET F, NEW T, HoursKept(r, fs, T),
         NEW minutes, minutes \subseteq Nat,
         NEW stop \in Stops(HoursToRebuild(r, minutes, now))
  PROVE  HoursKept(HoursRebuilt(r, stop), fs, T \cup TardyAmong(fs, HoursRebuilt(r, stop)))
<1> DEFINE r2 == HoursRebuilt(r, stop)
           hours == HoursToRebuild(r, minutes, now)
           T2 == T \cup TardyAmong(fs, r2)
           waiting == {f \in r.minute : f.at < HourOf(now) /\ f.at > r.hourMark}
<1>1. /\ r2.hour = {f \in r.hour : HourOf(f.at) \notin stop[1]}
                     \cup {f \in r.minute : HourOf(f.at) \in stop[1]}
      /\ r2.minute = r.minute /\ r2.hourMark = Latest(r.hourMark, stop[2])
  BY DEF HoursRebuilt
<1>2. /\ stop[1] \subseteq hours /\ stop[2] \subseteq stop[1]
      /\ \A x \in stop[2], y \in hours : y < x => y \in stop[2]
  BY DEF Stops, Prefixes
<1>3. /\ hours \subseteq 0 .. now
      /\ \A h \in hours : h < HourOf(now) /\ h > r.hourMark
  <2>1. \A f \in r.minute : f.at \in Nat
    BY DEF RollupOf
  <2>2. \A m \in Nat : HourOf(m) \in Nat
    BY HourIsBefore
  <2>3. \A h \in AffectedHours(r, minutes, now) : h \in Nat
    BY <2>1, <2>2 DEF AffectedHours, HourCandidates, Lowest
  <2>4. HourOf(now) \in 0 .. now
    BY HourIsBefore
  <2>5. QED
    BY <2>3, <2>4 DEF HoursToRebuild
<1> HIDE DEF r2, hours
<1>4. r.minute \subseteq fs /\ TardyAmong(fs, r) \subseteq T /\ HoursComplete(r, T)
  BY DEF HoursKept
<1>5. SUFFICES ASSUME FewHours(r2), NEW f \in r2.minute \ T2, HourOf(f.at) <= r2.hourMark
               PROVE  f \in r2.hour
  BY <1>1, <1>4 DEF HoursKept, HoursComplete, r2
<1>6. f \in r.minute /\ f \notin T /\ FewHours(r)
  BY <1>1, <1>5 DEF FewHours
<1>7. f.at \in Nat /\ f.at <= now /\ HourOf(f.at) \in 0 .. f.at /\ r.hourMark \in Int
  <2>1. f.at \in 0 .. now
    BY <1>6 DEF RollupOf
  <2>2. QED
    BY <2>1, HourIsBefore DEF RollupOf, Mark0, NoMark
<1>8. CASE HourOf(f.at) <= r.hourMark
  <2>1. f \in r.hour
    BY <1>4, <1>6, <1>8 DEF HoursComplete
  <2>2. QED
    BY <1>1, <1>6, <2>1
<1>9. CASE HourOf(f.at) > r.hourMark
  <2>1. stop[2] # {} /\ r2.hourMark \in stop[2]
    <3>1. stop[2] \subseteq 0 .. now
      BY <1>2, <1>3
    <3>2. /\ stop[2] = {} => Latest(r.hourMark, stop[2]) = r.hourMark
          /\ stop[2] # {} => Latest(r.hourMark, stop[2]) \in stop[2]
      BY <3>1, LatestIsLast, Zenon
    <3>3. QED
      BY <1>1, <1>5, <1>7, <1>9, <3>2
  <2>2. /\ r2.hourMark \in hours /\ r2.hourMark \in Nat
        /\ r2.hourMark < HourOf(now) /\ HourOf(now) \in Nat
    <3>1. HourOf(now) \in Nat
      BY HourIsBefore
    <3>2. r2.hourMark \in hours
      BY <1>2, <2>1
    <3>3. r2.hourMark \in 0 .. now /\ r2.hourMark < HourOf(now)
      BY <1>3, <3>2
    <3>4. QED
      BY <3>1, <3>2, <3>3
  <2>3. CASE HourOf(f.at) = r2.hourMark
    BY <1>1, <1>2, <1>6, <2>1, <2>3
  <2>4. CASE HourOf(f.at) < r2.hourMark
    <3>1. f.at < HourOf(now)
      BY <1>7, <2>2, <2>4, HourHolds
    <3>2. f \in waiting
      BY <1>6, <1>7, <1>9, <3>1
    <3>3. HourOf(f.at) \in Lowest(Batch, HoursOf(waiting))
      <4>1. HoursOf(waiting) \subseteq HoursOf(r.minute) /\ HourOf(f.at) \in HoursOf(waiting)
        BY <3>2 DEF HoursOf
      <4>2. r.minute \subseteq [id : Nat, at : 0 .. now]
        BY DEF RollupOf
      <4>3. IsFiniteSet(HoursOf(r.minute)) /\ HoursOf(r.minute) \subseteq Nat
        BY <4>2, HoursAreFinite
      <4>4. Cardinality(HoursOf(r.minute)) <= Batch /\ Batch \in Nat
        BY <1>6, RollupAssumption DEF FewHours
      <4>5. QED
        BY <4>1, <4>3, <4>4, LowestIsAll
    <3>4. HourOf(f.at) \in HourCandidates(r, now)
      BY <3>3 DEF HourCandidates, HoursOf
    <3>5. HourOf(f.at) \in hours
      BY <1>7, <1>9, <2>2, <2>4, <3>4 DEF hours, HoursToRebuild, AffectedHours
    <3>6. HourOf(f.at) \in stop[1]
      BY <1>2, <2>1, <2>4, <3>5
    <3>7. QED
      BY <1>1, <1>6, <3>6
  <2>5. QED
    BY <1>5, <1>7, <2>2, <2>3, <2>4
<1>10. QED
  BY <1>7, <1>8, <1>9

\* A slice, wherever it breaks off.
LEMMA SliceKeepsHours ==
  ASSUME NEW now \in Nat, NEW F, F \subseteq [id : Nat, at : 0 .. now],
         NEW r \in RollupOf(F), NEW fs \in SUBSET F, NEW T, HoursKept(r, fs, T),
         NEW s \in Slices(r, fs, now)
  PROVE  HoursKept(s, fs, T \cup TardyAmong(fs, s))
<1> DEFINE minutes == MinuteCandidates(r, fs, now)
           r1 == MinutesRebuilt(r, fs, Done(minutes))
           hours == HoursToRebuild(r1, minutes, now)
           r2 == HoursRebuilt(r1, Done(hours))
           ends1 == {MinutesRebuilt(r, fs, stop) : stop \in Stops(minutes)}
           ends2 == {HoursRebuilt(r1, stop) : stop \in Stops(hours)}
           ends3 == {DaysRebuilt(r2, days) : days \in Prefixes(AffectedDays(r1, minutes, now))}
<1>1. s \in ends1 \/ s \in ends2 \/ s \in ends3
  BY DEF Slices
<1>2. \A stop \in Stops(minutes) : HoursKept(MinutesRebuilt(r, fs, stop), fs, T)
  BY MinutesKeepHours
<1>3. r1 \in RollupOf(F) /\ HoursKept(r1, fs, T)
  <2>1. \A L : MinutesKept(r, fs, L) => r1 \in RollupOf(F)
    BY MinutesRebuiltKeeps, DoneIsAStop
  <2>2. MinutesKept(r, fs, fs)
    BY DEF MinutesKept
  <2>3. QED
    BY <1>2, <2>1, <2>2, DoneIsAStop
<1>4. minutes \subseteq Nat
  BY DEF MinuteCandidates, Lowest
<1> HIDE DEF minutes, r1
<1>5. \A stop \in Stops(hours) :
        HoursKept(HoursRebuilt(r1, stop), fs, T \cup TardyAmong(fs, HoursRebuilt(r1, stop)))
  BY <1>3, <1>4, HoursKeepHours
<1>6. HoursKept(r2, fs, T \cup TardyAmong(fs, r2))
  BY <1>5, DoneIsAStop
<1> HIDE DEF hours, r2
<1>7. CASE s \in ends1
  <2>1. HoursKept(s, fs, T)
    BY <1>2, <1>7
  <2>2. QED
    BY <2>1 DEF HoursKept, HoursComplete
<1>8. CASE s \in ends2
  BY <1>5, <1>8
<1>9. CASE s \in ends3
  <2>1. s.minute = r2.minute /\ s.hour = r2.hour /\ s.hourMark = r2.hourMark
    BY <1>9 DEF DaysRebuilt, r2, HoursRebuilt
  <2>2. QED
    BY <1>6, <2>1 DEF HoursKept, HoursComplete, FewHours, TardyAmong
<1>10. QED
  BY <1>1, <1>7, <1>8, <1>9

\* A frame that is committed after its hour was checkpointed is tardy.
LEMMA CommitKeepsHours ==
  ASSUME NEW r, NEW fs, NEW T, NEW new, HoursKept(r, fs, T)
  PROVE  HoursKept(r, fs \cup new, T \cup TardyAmong(new, r))
BY DEF HoursKept, HoursComplete, TardyAmong

-----------------------------------------------------------------------------
(* The invariant.                                                          *)

Hours == HoursKept(rollup, frames, tardy)

LEMMA InitHours ==
  ASSUME Init
  PROVE  Hours
BY DEF Init, Hours, HoursKept, HoursComplete, TardyAmong, EmptyRollup

LEMMA FrameIsPast == Frame \subseteq [id : Nat, at : 0 .. clock]
BY DEF Frame

LEMMA HoursStep ==
  ASSUME IInv, Hours, [Next]_vars
  PROVE  Hours'
<1>1. /\ clock \in Nat /\ frames \in SUBSET Frame /\ rollup \in RollupOf(Frame)
      /\ HoursKept(rollup, frames, tardy)
  BY DEF IInv, Counters, Stores, Hours
<1>2. Frame \subseteq [id : Nat, at : 0 .. clock]
  BY <1>1, FrameIsPast
<1>3. CASE UNCHANGED <<frames, tardy, rollup>>
  BY <1>1, <1>3 DEF Hours
<1>4. CASE WriteNext
  <2> DEFINE frame == Head(writer.queue).frame
  <2>1. /\ frames' = frames \cup {frame} /\ rollup' = rollup
        /\ tardy' = tardy \cup TardyAmong({frame}, rollup)
    BY <1>4 DEF WriteNext
  <2>2. QED
    BY <1>1, <2>1, CommitKeepsHours DEF Hours
<1>5. CASE RollUp
  <2>1. /\ rollup' \in Slices(rollup, frames, clock) /\ frames' = frames
        /\ tardy' = tardy \cup TardyAmong(frames, rollup')
    BY <1>5 DEF RollUp
  <2>2. QED
    BY <1>1, <1>2, <2>1, SliceKeepsHours DEF Hours
<1>6. CASE Clear
  BY <1>6 DEF Clear, Hours, HoursKept, HoursComplete, TardyAmong, EmptyRollup
<1>7. CASE Shutdown
  <2>1. PICK flush \in Flushes(writer) :
          LET written == FlushWrote(writer, flush)
          IN /\ frames' = frames \cup written
             /\ rollup' \in IF FlushSucceeded(writer, flush)
                              THEN Slices(rollup, frames', clock) ELSE {rollup}
             /\ tardy' = tardy \cup TardyAmong(written, rollup) \cup TardyAmong(frames', rollup')
    BY <1>7 DEF Shutdown
  <2> DEFINE written == FlushWrote(writer, flush)
             held == tardy \cup TardyAmong(written, rollup)
  <2>2. /\ frames' = frames \cup written /\ tardy' = held \cup TardyAmong(frames', rollup')
        /\ rollup' \in Slices(rollup, frames', clock) \/ rollup' = rollup
    BY <2>1
  <2>3. HoursKept(rollup, frames', held)
    BY <1>1, <2>2, CommitKeepsHours
  <2>4. frames' \in SUBSET Frame
    <3>1. /\ writer \in WriterOf(Frame) /\ Ordered(writer) /\ NewerThan(writer, frames)
          /\ Frame \subseteq [id : Nat, at : Nat]
      BY <1>2 DEF IInv, Stores
    <3>2. FlushWrote(writer, flush) \subseteq Frame
      BY <2>1, <3>1, FlushedKeeps
    <3>3. QED
      BY <1>1, <2>2, <3>2 DEF written
  <2> HIDE DEF held, written
  <2>5. CASE rollup' = rollup
    BY <2>2, <2>3, <2>5 DEF Hours, HoursKept, HoursComplete
  <2>6. CASE rollup' \in Slices(rollup, frames', clock)
    <3>1. HoursKept(rollup', frames', held \cup TardyAmong(frames', rollup'))
      BY <1>1, <1>2, <2>3, <2>4, <2>6, SliceKeepsHours
    <3>2. QED
      BY <2>2, <3>1 DEF Hours
  <2>7. QED
    BY <2>2, <2>5, <2>6
<1>8. QED
  <2>1. CASE UNCHANGED vars
    BY <1>3, <2>1 DEF vars, collected
  <2>2. CASE Tick \/ Use \/ DebounceEnds \/ RestEnds \/ Rebuild \/ RebuildFails \/ SetPaused \/ Crash
    BY <1>3, <2>2 DEF Tick, Use, DebounceEnds, RestEnds, Rebuild, RebuildFails, SetPaused, Crash,
                      collected
  <2>3. CASE Sample \/ WriteFails \/ BackoffEnds \/ ClearRefused \/ Start
    BY <1>3, <2>3 DEF Sample, WriteFails, BackoffEnds, ClearRefused, Start
  <2>4. QED
    BY <1>4, <1>5, <1>6, <1>7, <2>1, <2>2, <2>3 DEF Next

\* Neither checkpoint of the process rollups leaves a frame behind, wherever
\* their slices break off, up to Batch hours (run_process_rollups).
THEOREM RollupsSkipNothing == Spec => []NothingIsSkipped
<1>1. Init => Hours
  BY InitHours
<1>2. IInv /\ Hours /\ [Next]_vars => Hours'
  BY HoursStep
<1>3. Hours => NoHourIsSkipped
  BY DEF Hours, HoursKept, HoursComplete, FewHours, HoursOf, NoHourIsSkipped
<1>4. Spec => []Hours
  BY <1>1, <1>2, Inductive, PTL DEF Spec
<1>5. Spec => []NoHourIsSkipped
  BY <1>3, <1>4, PTL
<1>6. QED
  BY <1>5, MinutesAreNotSkipped, PTL DEF NothingIsSkipped
=============================================================================
