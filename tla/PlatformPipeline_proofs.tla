------------------------ MODULE PlatformPipeline_proofs ------------------------
(***************************************************************************)
(* What TLAPS proves of PlatformPipeline for every capacity of the lanes   *)
(* and every number of notifications.  Each safety property holds by the   *)
(* inductive invariant IInv, which adds to it what the next step needs:    *)
(* the types, where take_recovery keeps an overflow it has read, and that  *)
(* nothing applied is newer than last_applied_sequence.                    *)
(***************************************************************************)
EXTENDS PlatformPipeline, FiniteSetTheorems, TLAPS, WellFoundedInduction

\* A nonempty set of sequence numbers has a least element, and LeastOf is it.
LEMMA LeastOfIsLeast ==
  ASSUME NEW S \in SUBSET Nat, S # {}
  PROVE  LeastOf(S) \in S /\ \A t \in S : LeastOf(S) <= t
<1>1. PICK x \in S : \A y \in S : ~(<<y, x>> \in OpToRel(<, Nat))
  BY NatLessThanWellFounded, WFMin
<1>2. \A y \in S : ~(y < x)
  BY <1>1 DEF OpToRel
<1>3. \A y \in S : x <= y
  BY <1>2
<1>4. QED
  BY <1>3 DEF LeastOf

-----------------------------------------------------------------------------
(* The inductive invariant.                                                *)

\* Everything applied is at most last_applied_sequence.
AppliedIsOld == \A s \in Sequence : fate[s] = "applied" => s <= lastApplied

\* take_recovery holds a flag or a sequence only until it has them all.
OverflowInHand ==
  /\ taken.overflowed => pc \in {"takeDirtySequence", "requestRecovery"}
  /\ taken.first # 0 => pc = "requestRecovery"

IInv ==
  /\ TypeOK
  /\ RetryIsNeverOrphaned
  /\ AppliedIsOld
  /\ OverflowInHand
  /\ LossIsNeverForgotten

\* What Enqueue leaves behind: the pending queue only grows, a barrier that was
\* asked for stays asked for, and a rejected event asks for one.
LEMMA EnqueueKeeps ==
  ASSUME TypeOK,
         NEW S \in SUBSET Sequence,
         NEW asked \in 0 .. MaxEvents \union {Absent},
         Enqueue(S, asked)
  PROVE  /\ pending' \in SUBSET Sequence
         /\ pending \subseteq pending'
         /\ barrier' \in 0 .. MaxEvents \union {Absent}
         /\ asked # Absent => barrier' # Absent
         /\ fate' \in [Sequence -> {"none", "applied", "stale", "lost"}]
         /\ \A s \in Sequence : fate'[s] = "applied" => fate[s] = "applied"
         /\ uncovered' \in SUBSET Sequence
         /\ uncovered' # {} => uncovered # {} \/ barrier' # Absent
<1> DEFINE room == PendingCap - Cardinality(pending)
           kept == {s \in S : Cardinality({t \in S : t <= s}) <= room}
           rejected == S \ kept
<1> USE CapAssumption, NameAssumption
<1>1. kept \subseteq S /\ rejected \subseteq S
  OBVIOUS
<1>2. /\ pending' = pending \union kept
      /\ barrier' = IF rejected = {} THEN asked ELSE MergedBarrier(asked, LeastOf(rejected))
      /\ fate' = [s \in Sequence |-> IF s \in rejected THEN "lost" ELSE fate[s]]
      /\ uncovered' = uncovered \union rejected
  BY Zenon DEF Enqueue
<1> HIDE DEF kept, rejected
<1>3. rejected # {} => LeastOf(rejected) \in Sequence
  <2> SUFFICES ASSUME rejected # {} PROVE LeastOf(rejected) \in Sequence
    OBVIOUS
  <2>1. rejected \in SUBSET Nat
    BY <1>1 DEF Sequence
  <2>2. LeastOf(rejected) \in rejected
    BY <2>1, LeastOfIsLeast
  <2>3. QED
    BY <1>1, <2>2
<1>4. /\ barrier' \in 0 .. MaxEvents \union {Absent}
      /\ asked # Absent => barrier' # Absent
      /\ rejected # {} => barrier' # Absent
  BY <1>2, <1>3 DEF MergedBarrier, Sequence
<1>5. QED
  BY <1>1, <1>2, <1>4 DEF TypeOK

\* The sequences that take_recovery reads merge into a proper barrier.
LEMMA MergedIsTyped ==
  ASSUME TypeOK, NEW marked \in SUBSET (0 .. MaxEvents)
  PROVE  MergedBarrier(barrier, IF marked = {} THEN BeforeAll ELSE LeastOf(marked))
           \in 0 .. MaxEvents
<1> USE CapAssumption, NameAssumption
<1>1. CASE marked = {}
  BY <1>1 DEF TypeOK, MergedBarrier, BeforeAll
<1>2. CASE marked # {}
  <2>1. LeastOf(marked) \in 0 .. MaxEvents
    BY <1>2, LeastOfIsLeast, 0 .. MaxEvents \subseteq Nat
  <2>2. QED
    BY <1>2, <2>1 DEF TypeOK, MergedBarrier
<1>3. QED
  BY <1>1, <1>2

\* The event at the head of the queue is in the queue.
LEMMA HeadIsPending ==
  ASSUME TypeOK, NEW s \in NextEvent
  PROVE  s \in pending /\ s \in Sequence /\ (retry \in Sequence => s = retry)
BY DEF TypeOK, NextEvent

LEMMA LeastOfLane ==
  ASSUME NEW S \in SUBSET Sequence, S # {}
  PROVE  LeastOf(S) \in S
BY LeastOfIsLeast DEF Sequence

\* What take_recovery does to the queue when it has read the sequences.
LEMMA RequestRecoveryEffect ==
  ASSUME TypeOK, RequestRecovery
  PROVE  /\ pending' \in SUBSET Sequence
         /\ pending \subseteq pending'
         /\ barrier' \in 0 .. MaxEvents \union {Absent}
         /\ barrier # Absent \/ taken.overflowed \/ taken.first # 0 \/ overflowSeq # 0
              => barrier' # Absent
         /\ fate' \in [Sequence -> {"none", "applied", "stale", "lost"}]
         /\ \A s \in Sequence : fate'[s] = "applied" => fate[s] = "applied"
         /\ uncovered' \in SUBSET Sequence
         /\ uncovered' # {} => uncovered # {} \/ barrier' # Absent
<1> DEFINE marked == {taken.first, overflowSeq} \ {0}
           first == IF marked = {} THEN BeforeAll ELSE LeastOf(marked)
           recover == taken.overflowed \/ marked # {}
           asked == IF recover THEN MergedBarrier(barrier, first) ELSE barrier
<1> USE CapAssumption, NameAssumption
<1>1. MergedBarrier(barrier, first) \in 0 .. MaxEvents
  BY MergedIsTyped DEF TypeOK
<1>2. taken.overflowed \/ taken.first # 0 \/ overflowSeq # 0 => recover
  OBVIOUS
<1>3. Enqueue(taken.events, asked)
  BY Zenon DEF RequestRecovery
<1>4. taken.events \in SUBSET Sequence
  BY DEF TypeOK
<1> HIDE DEF marked, first, recover
<1>5. asked \in 0 .. MaxEvents \union {Absent}
  BY <1>1 DEF TypeOK
<1>6. recover \/ barrier # Absent => asked # Absent
  BY <1>1
<1> HIDE DEF asked
<1>7. QED
  BY <1>2, <1>3, <1>4, <1>5, <1>6, EnqueueKeeps

LEMMA TypeOKStep == TypeOK /\ [Next]_vars => TypeOK'
<1> SUFFICES ASSUME TypeOK, [Next]_vars PROVE TypeOK'
  OBVIOUS
<1> USE CapAssumption, NameAssumption
<1>Stamp. CASE Stamp
  BY <1>Stamp DEF Stamp, TypeOK, observer, lanes, flags, queue, Idle, SendSteps, Sequence
<1>SendNormal. CASE SendNormal
  <2>1. sending.seq \in Sequence
    BY <1>SendNormal DEF SendNormal, TypeOK, Idle
  <2>2. sending' \in {Idle} \union [seq : Sequence, step : SendSteps]
    BY <1>SendNormal DEF SendNormal, TypeOK, Idle, SendSteps
  <2>3. UNCHANGED <<next, critical, fallback, dirtySeq, overflow, overflowSeq, pc, taken, queue>>
    BY <1>SendNormal DEF SendNormal
  <2>4. CASE /\ normal' = normal \union {sending.seq}
             /\ UNCHANGED <<dirty, fate, uncovered>>
    BY <2>1, <2>2, <2>3, <2>4 DEF TypeOK, queue
  <2>5. CASE dirty' = TRUE /\ Lose(sending.seq) /\ UNCHANGED normal
    BY <2>1, <2>2, <2>3, <2>5 DEF TypeOK, queue, Lose
  <2>6. QED
    BY <1>SendNormal, <2>4, <2>5 DEF SendNormal
<1>SendCritical. CASE SendCritical
  <2>1. sending.seq \in Sequence
    BY <1>SendCritical DEF SendCritical, TypeOK, Idle
  <2>2. sending' \in {Idle} \union [seq : Sequence, step : SendSteps]
    BY <1>SendCritical DEF SendCritical, TypeOK, Idle, SendSteps
  <2>3. critical' \in SUBSET Sequence
    BY <1>SendCritical, <2>1 DEF SendCritical, TypeOK
  <2>4. dirty' \in BOOLEAN
    BY <1>SendCritical DEF SendCritical, TypeOK
  <2>5. QED
    BY <1>SendCritical, <2>2, <2>3, <2>4 DEF SendCritical, TypeOK, queue
<1>SendFallback. CASE SendFallback
  <2>1. sending.seq \in Sequence
    BY <1>SendFallback DEF SendFallback, TypeOK, Idle
  <2>2. sending' \in {Idle} \union [seq : Sequence, step : SendSteps]
    BY <1>SendFallback DEF SendFallback, TypeOK, Idle, SendSteps
  <2>3. UNCHANGED <<next, normal, critical, dirty, dirtySeq, overflowSeq, pc, taken, queue>>
    BY <1>SendFallback DEF SendFallback
  <2>4. CASE /\ fallback' = fallback \union {sending.seq}
             /\ UNCHANGED <<overflow, fate, uncovered>>
    BY <2>1, <2>2, <2>3, <2>4 DEF TypeOK, queue
  <2>5. CASE overflow' = TRUE /\ Lose(sending.seq) /\ UNCHANGED fallback
    BY <2>1, <2>2, <2>3, <2>5 DEF TypeOK, queue, Lose
  <2>6. QED
    BY <1>SendFallback, <2>4, <2>5 DEF SendFallback
<1>RecordDirty. CASE RecordDirty
  BY <1>RecordDirty DEF RecordDirty, TypeOK, observer, lanes, flags, queue, Idle, SendSteps, Sequence, RecordEarliest
<1>RecordOverflow. CASE RecordOverflow
  BY <1>RecordOverflow DEF RecordOverflow, TypeOK, observer, lanes, flags, queue, Idle, SendSteps, Sequence, RecordEarliest
<1>TakeFallback. CASE TakeFallback
  <2>1. taken' \in [events : SUBSET Sequence, dirty : BOOLEAN, overflowed : BOOLEAN,
                    first : 0 .. MaxEvents]
    <3>1. CASE taken' = Nothing
      BY <3>1 DEF Nothing
    <3>2. CASE taken' = [Nothing EXCEPT !.events = fallback]
      <4>1. taken' = [events |-> fallback, dirty |-> FALSE, overflowed |-> FALSE, first |-> 0]
        BY <3>2 DEF Nothing
      <4>2. QED
        BY <4>1 DEF TypeOK
    <3>3. QED
      BY <1>TakeFallback, <3>1, <3>2 DEF TakeFallback
  <2>2. fallback' \in SUBSET Sequence /\ pc' \in Steps
    BY <1>TakeFallback DEF TakeFallback, TypeOK, Steps
  <2>3. UNCHANGED <<observer, normal, critical, flags, queue, fate, uncovered>>
    BY <1>TakeFallback DEF TakeFallback
  <2>4. QED
    BY <2>1, <2>2, <2>3 DEF TypeOK, observer, flags, queue
<1>TakeDirty. CASE TakeDirty
  BY <1>TakeDirty DEF TakeDirty, TypeOK, observer, lanes, flags, queue, Steps
<1>TakeOverflow. CASE TakeOverflow
  BY <1>TakeOverflow DEF TakeOverflow, TypeOK, observer, lanes, flags, queue, Steps
<1>TakeDirtySequence. CASE TakeDirtySequence
  BY <1>TakeDirtySequence DEF TakeDirtySequence, TypeOK, observer, lanes, flags, queue, Steps
<1>RequestRecovery. CASE RequestRecovery
  <2>1. resync' \in BOOLEAN
    BY <1>RequestRecovery, Zenon DEF RequestRecovery, TypeOK
  <2>2. /\ overflowSeq' = 0
        /\ taken' = Nothing /\ pc' = "critical"
        /\ UNCHANGED <<observer, lanes, dirty, dirtySeq, overflow, lastApplied, retry, backoff>>
    BY <1>RequestRecovery, Zenon DEF RequestRecovery
  <2>3. QED
    BY <1>RequestRecovery, <2>1, <2>2, RequestRecoveryEffect
       DEF TypeOK, observer, lanes, Nothing, Steps
<1>CollectCritical. CASE CollectCritical
  BY <1>CollectCritical, LeastOfLane DEF CollectCritical, TypeOK, observer, lanes, flags, queue, Steps
<1>CollectNormal. CASE CollectNormal
  BY <1>CollectNormal, LeastOfLane DEF CollectNormal, TypeOK, observer, lanes, flags, queue, Steps
<1>DropStale. CASE DropStale
  BY <1>DropStale, HeadIsPending DEF DropStale, TypeOK, observer, lanes, flags, queue, Steps
<1>ApplyEvent. CASE ApplyEvent
  <2>1. PICK s \in NextEvent : /\ pending' = pending \ {s} /\ lastApplied' = s
                               /\ retry' = IF retry = s THEN NoTarget ELSE retry
                               /\ fate' = [fate EXCEPT ![s] = "applied"]
    BY <1>ApplyEvent DEF ApplyEvent
  <2>2. s \in Sequence /\ s \in 0 .. MaxEvents
    BY HeadIsPending DEF Sequence
  <2>3. UNCHANGED <<observer, lanes, flags, pc, taken, barrier, resync, backoff, uncovered>>
    BY <1>ApplyEvent DEF ApplyEvent
  <2>4. fate' \in [Sequence -> {"none", "applied", "stale", "lost"}]
    BY <2>1, <2>2 DEF TypeOK
  <2>5. pending' \in SUBSET Sequence /\ retry' \in Sequence \union {NoTarget, RecoveryGap}
    BY <2>1 DEF TypeOK
  <2>6. QED
    BY <2>1, <2>2, <2>3, <2>4, <2>5 DEF TypeOK, observer, lanes, flags
<1>EventFails. CASE EventFails
  BY <1>EventFails, HeadIsPending DEF EventFails, TypeOK, observer, lanes, flags, queue, Steps
<1>RecordGap. CASE RecordGap
  BY <1>RecordGap DEF RecordGap, TypeOK, observer, lanes, flags, queue, Steps, GapIsNext
<1>GapFails. CASE GapFails
  BY <1>GapFails DEF GapFails, TypeOK, observer, lanes, flags, queue, Steps
<1>DrainEnds. CASE DrainEnds
  BY <1>DrainEnds DEF DrainEnds, TypeOK, observer, lanes, flags, queue, Steps
<1>Wait. CASE Wait
  BY <1>Wait, LeastOfLane DEF Wait, TypeOK, observer, lanes, flags, queue, Steps
<1>Heartbeat. CASE Heartbeat
  BY <1>Heartbeat DEF Heartbeat, TypeOK, observer, lanes, flags, queue, Steps
<1>HeartbeatFails. CASE HeartbeatFails
  BY <1>HeartbeatFails DEF HeartbeatFails, TypeOK, observer, lanes, flags, queue, Steps, BeforeAll
<1>NoHeartbeat. CASE NoHeartbeat
  BY <1>NoHeartbeat DEF NoHeartbeat, TypeOK, observer, lanes, flags, queue, Steps
<1>BackoffExpires. CASE BackoffExpires
  BY <1>BackoffExpires DEF BackoffExpires, TypeOK, observer, lanes, flags, queue
<1>stutter. CASE UNCHANGED vars
  BY <1>stutter DEF TypeOK, vars, observer, lanes, flags, queue
<1> QED
  BY <1>Stamp, <1>SendNormal, <1>SendCritical, <1>SendFallback, <1>RecordDirty, <1>RecordOverflow,
     <1>TakeFallback, <1>TakeDirty, <1>TakeOverflow, <1>TakeDirtySequence, <1>RequestRecovery,
     <1>CollectCritical, <1>CollectNormal, <1>DropStale,
     <1>ApplyEvent, <1>EventFails, <1>RecordGap, <1>GapFails, <1>DrainEnds, <1>Wait,
     <1>Heartbeat, <1>HeartbeatFails, <1>NoHeartbeat, <1>BackoffExpires,
     <1>stutter DEF Next, Send, Collector

-----------------------------------------------------------------------------
(* The other conjuncts of the invariant.                                   *)

LEMMA RetryStep == TypeOK /\ RetryIsNeverOrphaned /\ [Next]_vars => RetryIsNeverOrphaned'
<1> SUFFICES ASSUME TypeOK, RetryIsNeverOrphaned, [Next]_vars PROVE RetryIsNeverOrphaned'
  OBVIOUS
<1> USE CapAssumption, NameAssumption
<1>1. ASSUME pending \subseteq pending', UNCHANGED <<lastApplied, retry>>,
             barrier # Absent => barrier' # Absent
      PROVE  RetryIsNeverOrphaned'
  BY <1>1 DEF RetryIsNeverOrphaned, IsStale
<1>2. CASE Stamp \/ Send \/ TakeFallback \/ TakeDirty \/ TakeOverflow \/ TakeDirtySequence
             \/ DrainEnds \/ NoHeartbeat
  <2>1. UNCHANGED queue
    BY <1>2 DEF Stamp, Send, SendNormal, SendCritical, SendFallback, RecordDirty, RecordOverflow,
                TakeFallback, TakeDirty, TakeOverflow, TakeDirtySequence, DrainEnds, NoHeartbeat, queue
  <2>2. QED
    BY <1>1, <2>1 DEF queue
<1>3. CASE RequestRecovery
  BY <1>1, <1>3, RequestRecoveryEffect, Zenon DEF RequestRecovery
<1>4. CASE CollectCritical \/ CollectNormal \/ Wait \/ Heartbeat \/ BackoffExpires
  BY <1>1, <1>4 DEF CollectCritical, CollectNormal, Wait, Heartbeat, BackoffExpires
<1>5. CASE DropStale
  <2>1. PICK s \in NextEvent : IsStale(s) /\ pending' = pending \ {s}
    BY <1>5 DEF DropStale
  <2>2. retry \notin Sequence
    BY <2>1, HeadIsPending DEF RetryIsNeverOrphaned
  <2>3. QED
    BY <1>5, <2>2 DEF DropStale, RetryIsNeverOrphaned
<1>6. CASE ApplyEvent
  <2>1. PICK s \in NextEvent : retry' = IF retry = s THEN NoTarget ELSE retry
    BY <1>6 DEF ApplyEvent
  <2>2. retry' \notin Sequence
    BY <2>1, HeadIsPending DEF Sequence
  <2>3. QED
    BY <1>6, <2>1, <2>2 DEF ApplyEvent, RetryIsNeverOrphaned
<1>7. CASE EventFails
  <2>1. PICK s \in NextEvent : ~IsStale(s) /\ retry' = s
    BY <1>7 DEF EventFails
  <2>2. s \in pending /\ s \in Sequence
    BY <2>1, HeadIsPending
  <2>3. QED
    BY <1>7, <2>1, <2>2 DEF EventFails, RetryIsNeverOrphaned, IsStale, Sequence
<1>8. CASE RecordGap \/ GapFails \/ HeartbeatFails
  BY <1>8 DEF RecordGap, GapFails, HeartbeatFails, GapIsNext, BeforeAll, Sequence, RetryIsNeverOrphaned
<1>9. CASE UNCHANGED vars
  BY <1>1, <1>9 DEF vars, queue
<1>10. QED
  BY <1>2, <1>3, <1>4, <1>5, <1>6, <1>7, <1>8, <1>9 DEF Next, Collector

\* No action but ApplyEvent marks an event applied, and last_applied_sequence
\* never goes back.
LEMMA AppliedStep ==
  TypeOK /\ [Next]_vars =>
    /\ lastApplied <= lastApplied'
    /\ \A s \in Sequence :
         fate[s] # "applied" /\ fate'[s] = "applied" => lastApplied < s /\ s <= lastApplied'
<1> SUFFICES ASSUME TypeOK, [Next]_vars
             PROVE  /\ lastApplied <= lastApplied'
                    /\ \A s \in Sequence :
                         fate[s] # "applied" /\ fate'[s] = "applied"
                           => lastApplied < s /\ s <= lastApplied'
  OBVIOUS
<1> USE CapAssumption, NameAssumption
<1>1. lastApplied \in Nat /\ \A s \in Sequence : s \in Nat
  BY DEF TypeOK, Sequence
<1>2. CASE UNCHANGED <<lastApplied, fate>>
  BY <1>1, <1>2
<1>3. CASE UNCHANGED lastApplied /\ \E s \in Sequence : Lose(s)
  BY <1>1, <1>3 DEF Lose, TypeOK
<1>4. CASE Stamp \/ RecordDirty \/ RecordOverflow \/ TakeFallback \/ TakeDirty
             \/ TakeOverflow \/ TakeDirtySequence \/ CollectCritical \/ CollectNormal \/ DrainEnds \/ Wait \/ BackoffExpires
  BY <1>2, <1>4 DEF Stamp, RecordDirty, RecordOverflow, TakeFallback, TakeDirty,
     TakeOverflow, TakeDirtySequence,
     CollectCritical, CollectNormal, DrainEnds, Wait, BackoffExpires, queue
<1>5. CASE EventFails \/ GapFails \/ Heartbeat \/ HeartbeatFails \/ NoHeartbeat \/ UNCHANGED vars
  BY <1>2, <1>5 DEF EventFails, GapFails, Heartbeat, HeartbeatFails, NoHeartbeat, queue, vars
<1>6. CASE SendNormal \/ SendCritical \/ SendFallback
  <2>1. sending.seq \in Sequence
    BY <1>6 DEF SendNormal, SendCritical, SendFallback, TypeOK, Idle
  <2>2. QED
    BY <1>2, <1>3, <1>6, <2>1 DEF SendNormal, SendCritical, SendFallback, queue
<1>7. CASE RequestRecovery
  <2>1. UNCHANGED lastApplied
    BY <1>7, Zenon DEF RequestRecovery
  <2>2. QED
    BY <1>1, <1>7, <2>1, RequestRecoveryEffect
<1>8. CASE DropStale
  BY <1>1, <1>8, HeadIsPending DEF DropStale, TypeOK
<1>9. CASE ApplyEvent
  <2>1. PICK s \in NextEvent : /\ ~IsStale(s) /\ lastApplied' = s
                               /\ fate' = [fate EXCEPT ![s] = "applied"]
    BY <1>9 DEF ApplyEvent
  <2>2. s \in Sequence
    BY HeadIsPending
  <2>3. QED
    BY <1>1, <2>1, <2>2 DEF IsStale, TypeOK
<1>10. CASE RecordGap
  BY <1>1, <1>10 DEF RecordGap, GapIsNext, TypeOK
<1>11. QED
  BY <1>4, <1>5, <1>6, <1>7, <1>8, <1>9, <1>10 DEF Next, Send, Collector

LEMMA AppliedIsOldStep == TypeOK /\ AppliedIsOld /\ [Next]_vars => AppliedIsOld'
<1> SUFFICES ASSUME TypeOK, AppliedIsOld, [Next]_vars,
                    NEW s \in Sequence, fate'[s] = "applied"
             PROVE  s <= lastApplied'
  BY DEF AppliedIsOld
<1>1. TypeOK'
  BY TypeOKStep
<1>2. lastApplied \in Nat /\ lastApplied' \in Nat /\ s \in Nat
  BY <1>1 DEF TypeOK, Sequence
<1>3. QED
  BY <1>2, AppliedStep DEF AppliedIsOld

LEMMA LossStep ==
  TypeOK /\ OverflowInHand /\ LossIsNeverForgotten /\ [Next]_vars
    => OverflowInHand' /\ LossIsNeverForgotten'
<1> SUFFICES ASSUME TypeOK, OverflowInHand, LossIsNeverForgotten, [Next]_vars
             PROVE  OverflowInHand' /\ LossIsNeverForgotten'
  OBVIOUS
<1> USE CapAssumption, NameAssumption
<1>1. ASSUME UNCHANGED <<taken, overflow, dirtySeq, overflowSeq, uncovered>>,
             pc \notin {"takeDirtySequence", "requestRecovery"},
             sending.step \in {"recordDirty", "recordOverflow"} => UNCHANGED sending,
             barrier # Absent => barrier' # Absent
      PROVE  OverflowInHand' /\ LossIsNeverForgotten'
  BY <1>1 DEF OverflowInHand, LossIsNeverForgotten
<1>2. CASE Stamp
  BY <1>2 DEF Stamp, OverflowInHand, LossIsNeverForgotten, Idle, flags, queue
<1>3. CASE SendNormal \/ SendCritical \/ SendFallback
  BY <1>3 DEF SendNormal, SendCritical, SendFallback, OverflowInHand, LossIsNeverForgotten, queue,
     TypeOK, Idle
<1>4. CASE RecordDirty \/ RecordOverflow
  <2>1. sending.seq \in Sequence
    BY <1>4 DEF RecordDirty, RecordOverflow, TypeOK, Idle
  <2>2. RecordEarliest(dirtySeq, sending.seq) # 0 /\ RecordEarliest(overflowSeq, sending.seq) # 0
    BY <2>1 DEF RecordEarliest, Sequence
  <2>3. QED
    BY <1>4, <2>2 DEF RecordDirty, RecordOverflow, OverflowInHand, LossIsNeverForgotten, lanes, queue
<1>5. CASE TakeFallback
  BY <1>5 DEF TakeFallback, OverflowInHand, LossIsNeverForgotten, Nothing, observer, flags, queue
<1>6. CASE TakeDirty \/ TakeOverflow \/ TakeDirtySequence
  <2>1. CASE TakeDirty
    BY <2>1 DEF TakeDirty, OverflowInHand, LossIsNeverForgotten, observer, lanes, queue, TypeOK
  <2>2. CASE TakeOverflow
    BY <2>2 DEF TakeOverflow, OverflowInHand, LossIsNeverForgotten, observer, lanes, queue, TypeOK
  <2>3. CASE TakeDirtySequence
    BY <2>3 DEF TakeDirtySequence, OverflowInHand, LossIsNeverForgotten, observer, lanes, queue,
       TypeOK
  <2>4. QED
    BY <1>6, <2>1, <2>2, <2>3
<1>7. CASE RequestRecovery
  <2>1. taken' = Nothing /\ UNCHANGED <<observer, overflow, dirtySeq>>
    BY <1>7, Zenon DEF RequestRecovery
  <2>2. QED
    BY <1>7, <2>1, RequestRecoveryEffect DEF OverflowInHand, LossIsNeverForgotten, Nothing, observer
<1>8. CASE RecordGap
  BY <1>8 DEF RecordGap, OverflowInHand, LossIsNeverForgotten, observer
<1>9. CASE CollectCritical \/ CollectNormal \/ DropStale \/ ApplyEvent \/ EventFails \/ GapFails
  BY <1>1, <1>9 DEF CollectCritical, CollectNormal, DropStale, ApplyEvent, EventFails, GapFails,
     observer, flags
<1>10. CASE DrainEnds \/ Wait \/ Heartbeat \/ HeartbeatFails \/ NoHeartbeat
  BY <1>1, <1>10 DEF DrainEnds, Wait, Heartbeat, HeartbeatFails, NoHeartbeat, BeforeAll,
     observer, flags, queue
<1>11. CASE BackoffExpires \/ UNCHANGED vars
  BY <1>11 DEF BackoffExpires, vars, observer, flags, queue, OverflowInHand, LossIsNeverForgotten
<1>12. QED
  BY <1>2, <1>3, <1>4, <1>5, <1>6, <1>7, <1>8, <1>9, <1>10, <1>11 DEF Next, Send, Collector

-----------------------------------------------------------------------------
(* The theorems.                                                           *)

LEMMA InitEstablishesIInv == Init => IInv
<1> USE CapAssumption, NameAssumption
<1> SUFFICES ASSUME Init PROVE IInv
  OBVIOUS
<1>1. taken \in [events : SUBSET Sequence, dirty : BOOLEAN, overflowed : BOOLEAN,
                   first : 0 .. MaxEvents]
      /\ ~taken.overflowed /\ taken.first = 0
  BY DEF Init, Nothing
<1>2. fate \in [Sequence -> {"none", "applied", "stale", "lost"}]
  BY DEF Init
<1>3. next \in 1 .. MaxEvents + 1 /\ 0 \in 0 .. MaxEvents
  BY DEF Init
<1>4. sending \in {Idle} \union [seq : Sequence, step : SendSteps]
  BY DEF Init
<1>5. TypeOK
  BY <1>1, <1>2, <1>3, <1>4 DEF Init, TypeOK, Steps
<1>6. QED
  BY <1>1, <1>5 DEF Init, IInv, RetryIsNeverOrphaned, AppliedIsOld, OverflowInHand,
     LossIsNeverForgotten, Sequence

\* The invariant holds of every behaviour, whatever the capacities.
THEOREM IInvAlways == Spec => []IInv
<1>1. Init => IInv
  BY InitEstablishesIInv
<1>2. IInv /\ [Next]_vars => IInv'
  BY TypeOKStep, RetryStep, AppliedIsOldStep, LossStep DEF IInv
<1>3. QED
  BY <1>1, <1>2, PTL DEF Spec

\* Type correctness: in particular last_applied_sequence, a barrier and a retry
\* target stay within the sequence numbers handed out, whatever is lost.
THEOREM TypeCorrect == Spec => []TypeOK
<1>1. IInv => TypeOK
  BY DEF IInv
<1>2. QED
  BY <1>1, IInvAlways, PTL

\* A retry target never outlives the queued event or the barrier it targets
\* (mark_success, mark_gap_success, request_recovery): nothing can make
\* has_pending_work true for ever with nothing to do.
THEOREM RetryTargetIsLive == Spec => []RetryIsNeverOrphaned
<1>1. IInv => RetryIsNeverOrphaned
  BY DEF IInv
<1>2. QED
  BY <1>1, IInvAlways, PTL

\* An overflow the observer thread saw stays announced in the atomics, in the
\* collector's hands or as a barrier until a recovery gap covers it.
THEOREM LossIsAnnounced == Spec => []LossIsNeverForgotten
<1>1. IInv => LossIsNeverForgotten
  BY DEF IInv
<1>2. QED
  BY <1>1, IInvAlways, PTL

\* Two events are never applied against the order Windows sent them in,
\* through whichever lanes they came (is_stale).
THEOREM OrderIsKept == Spec => AppliedInOrder
<1>1. IInv /\ [Next]_vars =>
        [\A s, t \in Sequence :
           fate[s] = "applied" /\ fate[t] # "applied" /\ fate'[t] = "applied" => s < t]_vars
  <2> SUFFICES ASSUME IInv, [Next]_vars, NEW s \in Sequence, NEW t \in Sequence,
                      fate[s] = "applied", fate[t] # "applied", fate'[t] = "applied"
               PROVE  s < t
    OBVIOUS
  <2>1. s <= lastApplied /\ lastApplied < t
    BY AppliedStep DEF IInv, AppliedIsOld
  <2>2. QED
    BY <2>1 DEF IInv, TypeOK, Sequence
<1>2. QED
  BY <1>1, IInvAlways, PTL DEF Spec, AppliedInOrder

-----------------------------------------------------------------------------
(* Every event in one place.                                               *)

\* Somewhere between the observer's send and its fate.
Held(s) ==
  s \in normal \/ s \in critical \/ s \in fallback \/ s \in taken.events \/ s \in pending

\* EveryEventInOnePlace without counting: the places exclude one another.
InOnePlace(s) ==
  /\ s < next <=> sending.seq = s \/ Held(s) \/ fate[s] # "none"
  /\ s \in normal => s \notin critical /\ s \notin fallback
  /\ s \in critical => s \notin fallback
  /\ s \in taken.events \/ s \in pending => s \notin normal /\ s \notin critical /\ s \notin fallback
  /\ s \in taken.events => s \notin pending
  /\ Held(s) => fate[s] = "none" /\ sending.seq # s
  /\ sending.seq = s => fate[s] \in {"none", "lost"}

\* What the observer still sends is not settled, and what it records is lost.
SendingIsKnown ==
  /\ sending.step \in {"normal", "critical", "fallback"} => fate[sending.seq] = "none"
  /\ sending.step \in {"recordDirty", "recordOverflow"} => fate[sending.seq] = "lost"

\* The collector holds drained events only while take_recovery runs.
EventsInHand ==
  taken.events # {} => pc \in {"takeDirty", "takeOverflow", "takeDirtySequence", "requestRecovery"}

Placed == SendingIsKnown /\ EventsInHand /\ \A s \in Sequence : InOnePlace(s)

LEMMA SendingIsTyped ==
  ASSUME TypeOK
  PROVE  /\ sending = Idle \/ (sending.seq \in Sequence /\ sending.step \in SendSteps)
         /\ Idle.seq \notin Sequence /\ Idle.step \notin SendSteps
         /\ sending.step # "idle" => sending.seq \in Sequence
BY DEF TypeOK, Idle, Sequence, SendSteps

\* What does not move stays where it is.
LEMMA UnmovedStays ==
  ASSUME Placed, UNCHANGED <<next, sending, normal, critical, fallback, pending, fate>>,
         taken'.events = taken.events, EventsInHand'
  PROVE  Placed'
BY DEF Placed, SendingIsKnown, InOnePlace, Held

LEMMA ObserverKeepsPlaces ==
  ASSUME TypeOK, Placed, Stamp \/ Send
  PROVE  Placed'
<1> USE CapAssumption, SendingIsTyped
<1>1. EventsInHand'
  BY DEF Stamp, Send, SendNormal, SendCritical, SendFallback, RecordDirty, RecordOverflow,
         Placed, EventsInHand
<1>2. next \in Nat /\ \A s \in Sequence : s \in Nat
  BY DEF TypeOK, Sequence
<1>3. CASE Stamp
  <2>1. /\ next \in Sequence /\ next' = next + 1 /\ sending = Idle
        /\ sending'.seq = next /\ sending'.step \in {"normal", "critical"}
        /\ UNCHANGED <<normal, critical, fallback, taken, pending, fate>>
    <3>1. next \in Sequence /\ next' = next + 1 /\ sending = Idle
      BY <1>2, <1>3 DEF Stamp, TypeOK, Sequence
    <3>2. PICK lane \in Lanes : sending' = [seq |-> next, step |-> lane]
      BY <1>3 DEF Stamp
    <3>3. UNCHANGED <<normal, critical, fallback, taken, pending, fate>>
      BY <1>3 DEF Stamp, lanes, queue
    <3>4. QED
      BY <3>1, <3>2, <3>3
  <2>2. ~Held(next) /\ fate[next] = "none"
    BY <1>2, <2>1 DEF Placed, InOnePlace
  <2>3. \A s \in Sequence : InOnePlace(s)'
    BY <1>2, <2>1, <2>2 DEF Placed, InOnePlace, Held
  <2>4. QED
    BY <1>1, <2>1, <2>2, <2>3 DEF Placed, SendingIsKnown
<1>4. ASSUME sending.step \in {"normal", "critical", "fallback"}, sending' = Idle,
             UNCHANGED <<next, taken, pending, fate>>,
             \/ normal' = normal \union {sending.seq} /\ UNCHANGED <<critical, fallback>>
             \/ critical' = critical \union {sending.seq} /\ UNCHANGED <<normal, fallback>>
             \/ fallback' = fallback \union {sending.seq} /\ UNCHANGED <<normal, critical>>
      PROVE  Placed'
  <2>1. sending.seq \in Sequence /\ fate[sending.seq] = "none" /\ ~Held(sending.seq)
    BY <1>4 DEF Placed, SendingIsKnown, InOnePlace
  <2>2. sending'.seq \notin Sequence /\ sending'.step \notin SendSteps
    BY <1>4
  <2>3. \A s \in Sequence : InOnePlace(s)'
    BY <1>4, <2>1, <2>2 DEF Placed, InOnePlace, Held
  <2>4. SendingIsKnown'
    BY <2>2 DEF SendingIsKnown, SendSteps
  <2>5. QED
    BY <1>1, <2>3, <2>4 DEF Placed
<1>5. ASSUME sending.step \in {"normal", "critical", "fallback"}, Lose(sending.seq),
             sending'.seq = sending.seq, sending'.step \in {"recordDirty", "recordOverflow"},
             UNCHANGED <<next, normal, critical, fallback, taken, pending>>
      PROVE  Placed'
  <2>1. sending.seq \in Sequence /\ fate[sending.seq] = "none" /\ ~Held(sending.seq)
    BY <1>5 DEF Placed, SendingIsKnown, InOnePlace
  <2>2. fate' = [fate EXCEPT ![sending.seq] = "lost"] /\ fate'[sending.seq] = "lost"
    BY <1>5, <2>1 DEF Lose, TypeOK
  <2>3. \A s \in Sequence : s # sending.seq => fate'[s] = fate[s]
    BY <2>1, <2>2 DEF TypeOK
  <2>4. \A s \in Sequence : InOnePlace(s)'
    BY <1>5, <2>1, <2>2, <2>3 DEF Placed, InOnePlace, Held
  <2>5. SendingIsKnown'
    BY <1>5, <2>2 DEF SendingIsKnown
  <2>6. QED
    BY <1>1, <2>4, <2>5 DEF Placed
<1>6. CASE SendNormal
  <2>1. UNCHANGED <<next, critical, fallback, taken, pending>> /\ sending.step = "normal"
    BY <1>6 DEF SendNormal, queue
  <2>2. CASE normal' = normal \union {sending.seq} /\ sending' = Idle /\ UNCHANGED fate
    BY <1>4, <2>1, <2>2
  <2>3. CASE /\ sending' = [sending EXCEPT !.step = "recordDirty"]
             /\ Lose(sending.seq) /\ UNCHANGED normal
    <3>1. sending'.seq = sending.seq /\ sending'.step = "recordDirty"
      BY <2>1, <2>3 DEF TypeOK, Idle
    <3>2. QED
      BY <1>5, <2>1, <2>3, <3>1
  <2>4. QED
    BY <1>6, <2>2, <2>3 DEF SendNormal
<1>7. CASE SendCritical
  <2>1. UNCHANGED <<next, normal, fallback, taken, pending, fate>> /\ sending.step = "critical"
    BY <1>7 DEF SendCritical, queue
  <2>2. CASE critical' = critical \union {sending.seq} /\ sending' = Idle
    BY <1>4, <2>1, <2>2
  <2>3. CASE sending' = [sending EXCEPT !.step = "fallback"] /\ UNCHANGED critical
    <3>1. sending'.seq = sending.seq /\ sending'.step = "fallback"
      BY <2>1, <2>3 DEF TypeOK, Idle
    <3>2. \A s \in Sequence : InOnePlace(s)'
      BY <2>1, <2>3, <3>1 DEF Placed, InOnePlace, Held
    <3>3. QED
      BY <1>1, <2>1, <3>1, <3>2 DEF Placed, SendingIsKnown
  <2>4. QED
    BY <1>7, <2>2, <2>3 DEF SendCritical
<1>8. CASE SendFallback
  <2>1. UNCHANGED <<next, normal, critical, taken, pending>> /\ sending.step = "fallback"
    BY <1>8 DEF SendFallback, queue
  <2>2. CASE fallback' = fallback \union {sending.seq} /\ sending' = Idle /\ UNCHANGED fate
    BY <1>4, <2>1, <2>2
  <2>3. CASE /\ sending' = [sending EXCEPT !.step = "recordOverflow"]
             /\ Lose(sending.seq) /\ UNCHANGED fallback
    <3>1. sending'.seq = sending.seq /\ sending'.step = "recordOverflow"
      BY <2>1, <2>3 DEF TypeOK, Idle
    <3>2. QED
      BY <1>5, <2>1, <2>3, <3>1
  <2>4. QED
    BY <1>8, <2>2, <2>3 DEF SendFallback
<1>9. CASE RecordDirty \/ RecordOverflow
  <2>1. /\ sending.step \in {"recordDirty", "recordOverflow"} /\ sending' = Idle
        /\ UNCHANGED <<next, normal, critical, fallback, taken, pending, fate>>
    BY <1>9 DEF RecordDirty, RecordOverflow, lanes, queue
  <2>2. sending.seq \in Sequence /\ fate[sending.seq] = "lost"
    BY <2>1 DEF Placed, SendingIsKnown
  <2>3. sending'.seq \notin Sequence /\ sending'.step \notin SendSteps
    BY <2>1
  <2>4. \A s \in Sequence : InOnePlace(s)'
    BY <2>1, <2>2, <2>3 DEF Placed, InOnePlace, Held
  <2>5. SendingIsKnown'
    BY <2>3 DEF SendingIsKnown, SendSteps
  <2>6. QED
    BY <1>1, <2>4, <2>5 DEF Placed
<1>10. QED
  BY <1>3, <1>6, <1>7, <1>8, <1>9 DEF Send

LEMMA CollectorKeepsPlaces ==
  ASSUME TypeOK, Placed, Collector
  PROVE  Placed'
<1> USE CapAssumption, NameAssumption, SendingIsTyped
<1>1. UNCHANGED <<next, sending>>
  BY DEF Collector, TakeFallback, TakeDirty, TakeOverflow, TakeDirtySequence, RequestRecovery,
         CollectCritical, CollectNormal, DropStale, ApplyEvent, EventFails, RecordGap, GapFails,
         DrainEnds, Wait, Heartbeat, HeartbeatFails, NoHeartbeat, observer
<1>2. CASE TakeFallback
  <2>1. /\ pc = "takeFallback" /\ pc' = "takeDirty"
        /\ UNCHANGED <<normal, critical, pending, fate>>
        /\ \/ taken'.events = fallback /\ fallback' = {}
           \/ taken'.events = {} /\ UNCHANGED fallback
    <3>1. [Nothing EXCEPT !.events = fallback].events = fallback /\ Nothing.events = {}
      BY DEF Nothing
    <3>2. QED
      BY <1>2, <3>1 DEF TakeFallback, queue
  <2>2. taken.events = {}
    BY <2>1 DEF Placed, EventsInHand
  <2>3. \A s \in Sequence : InOnePlace(s)'
    BY <1>1, <2>1, <2>2 DEF Placed, InOnePlace, Held
  <2>4. QED
    BY <1>1, <2>1, <2>3 DEF Placed, SendingIsKnown, EventsInHand
<1>3. CASE TakeDirty \/ TakeOverflow \/ TakeDirtySequence
  <2>1. /\ taken'.events = taken.events
        /\ pc' \in {"takeOverflow", "takeDirtySequence", "requestRecovery"}
        /\ UNCHANGED <<normal, critical, fallback, pending, fate>>
    BY <1>3 DEF TakeDirty, TakeOverflow, TakeDirtySequence, TypeOK, lanes, queue
  <2>2. QED
    BY <1>1, <2>1, UnmovedStays DEF EventsInHand
<1>4. CASE RequestRecovery
  <2>1. /\ UNCHANGED <<normal, critical, fallback>> /\ taken'.events = {} /\ pc' = "critical"
    <3>1. /\ taken' = Nothing /\ pc' = "critical"
          /\ UNCHANGED <<observer, lanes, dirty, dirtySeq, overflow, lastApplied, retry, backoff>>
      BY <1>4, Zenon DEF RequestRecovery
    <3>2. QED
      BY <3>1 DEF Nothing, lanes
  <2>2. \E rejected \in SUBSET taken.events :
          /\ pending' = pending \union (taken.events \ rejected)
          /\ fate' = [s \in Sequence |-> IF s \in rejected THEN "lost" ELSE fate[s]]
    <3> DEFINE room == PendingCap - Cardinality(pending)
               kept == {s \in taken.events : Cardinality({t \in taken.events : t <= s}) <= room}
    <3>1. \E asked : Enqueue(taken.events, asked)
      BY <1>4, Zenon DEF RequestRecovery
    <3>2. /\ pending' = pending \union kept
          /\ fate' = [s \in Sequence |-> IF s \in taken.events \ kept THEN "lost" ELSE fate[s]]
      BY <3>1, Zenon DEF Enqueue
    <3>3. kept = taken.events \ (taken.events \ kept)
      OBVIOUS
    <3> HIDE DEF kept
    <3>4. QED
      BY <3>2, <3>3
  <2>3. PICK rejected \in SUBSET taken.events :
          /\ pending' = pending \union (taken.events \ rejected)
          /\ fate' = [s \in Sequence |-> IF s \in rejected THEN "lost" ELSE fate[s]]
    BY <2>2
  <2>4. \A s \in Sequence : /\ s \in rejected => fate'[s] = "lost"
                            /\ s \notin rejected => fate'[s] = fate[s]
    BY <2>3
  <2>5. \A s \in Sequence : InOnePlace(s)'
    BY <1>1, <2>1, <2>3, <2>4 DEF Placed, InOnePlace, Held
  <2>6. sending.seq \notin rejected
    BY <2>3 DEF Placed, InOnePlace, Held, TypeOK
  <2>7. SendingIsKnown'
    BY <1>1, <2>4, <2>6 DEF Placed, SendingIsKnown, SendSteps
  <2>8. QED
    BY <2>1, <2>5, <2>7 DEF Placed, EventsInHand
<1>5. CASE CollectCritical \/ CollectNormal \/ Wait
  <2>1. UNCHANGED <<fallback, taken, fate>>
    BY <1>5 DEF CollectCritical, CollectNormal, Wait, flags
  <2>2. pc \notin {"takeDirty", "takeOverflow", "takeDirtySequence", "requestRecovery"}
    BY <1>5 DEF CollectCritical, CollectNormal, Wait
  <2>3. taken.events = {}
    BY <2>2 DEF Placed, EventsInHand
  <2>4. \/ UNCHANGED <<normal, critical, pending>>
        \/ \E s \in normal : /\ normal' = normal \ {s} /\ pending' = pending \union {s}
                             /\ UNCHANGED critical
        \/ \E s \in critical : /\ critical' = critical \ {s} /\ pending' = pending \union {s}
                               /\ UNCHANGED normal
    BY <1>5, LeastOfLane DEF CollectCritical, CollectNormal, Wait, TypeOK
  <2>5. \A s \in Sequence : InOnePlace(s)'
    BY <1>1, <2>1, <2>3, <2>4 DEF Placed, InOnePlace, Held
  <2>6. QED
    BY <1>1, <2>1, <2>3, <2>5 DEF Placed, SendingIsKnown, EventsInHand
<1>6. CASE DropStale \/ ApplyEvent
  <2>1. PICK s \in NextEvent, f \in {"stale", "applied"} :
          pending' = pending \ {s} /\ fate' = [fate EXCEPT ![s] = f]
    BY <1>6 DEF DropStale, ApplyEvent
  <2>2. UNCHANGED <<normal, critical, fallback, taken, pc>>
    BY <1>6 DEF DropStale, ApplyEvent, lanes
  <2>3. s \in pending /\ s \in Sequence /\ fate[s] = "none" /\ sending.seq # s
    BY HeadIsPending DEF Placed, InOnePlace, Held
  <2>4. /\ fate'[s] \in {"stale", "applied"}
        /\ \A t \in Sequence : t # s => fate'[t] = fate[t]
    BY <2>1, <2>3 DEF TypeOK
  <2>5. \A t \in Sequence : InOnePlace(t)'
    BY <1>1, <2>1, <2>2, <2>3, <2>4 DEF Placed, InOnePlace, Held
  <2>6. SendingIsKnown'
    BY <1>1, <2>3, <2>4 DEF Placed, SendingIsKnown, SendSteps
  <2>7. QED
    BY <2>2, <2>5, <2>6 DEF Placed, EventsInHand
<1>7. CASE EventFails \/ RecordGap \/ GapFails \/ DrainEnds \/ Heartbeat \/ HeartbeatFails \/ NoHeartbeat
  <2>1. /\ UNCHANGED <<normal, critical, fallback, pending, fate, taken>>
        /\ pc \notin {"takeDirty", "takeOverflow", "takeDirtySequence", "requestRecovery"}
    BY <1>7 DEF EventFails, RecordGap, GapFails, DrainEnds, Heartbeat, HeartbeatFails, NoHeartbeat,
                lanes, queue
  <2>2. taken.events = {}
    BY <2>1 DEF Placed, EventsInHand
  <2>3. QED
    BY <1>1, <2>1, <2>2, UnmovedStays DEF EventsInHand
<1>8. QED
  BY <1>2, <1>3, <1>4, <1>5, <1>6, <1>7 DEF Collector

LEMMA PlacedAlways == Spec => []Placed
<1>1. Init => Placed
  <2> SUFFICES ASSUME Init PROVE Placed
    OBVIOUS
  <2>1. \A s \in Sequence : InOnePlace(s)
    BY CapAssumption DEF Init, InOnePlace, Held, Idle, Nothing, Sequence
  <2>2. QED
    BY <2>1 DEF Init, Placed, SendingIsKnown, EventsInHand, Idle, Nothing
<1>2. TypeOK /\ Placed /\ [Next]_vars => Placed'
  <2>1. ASSUME TypeOK, Placed, BackoffExpires \/ UNCHANGED vars
        PROVE  Placed'
    BY <2>1, UnmovedStays DEF BackoffExpires, vars, observer, lanes, flags, queue, Placed,
       EventsInHand
  <2>2. QED
    BY <2>1, ObserverKeepsPlaces, CollectorKeepsPlaces DEF Next
<1>3. QED
  BY <1>1, <1>2, TypeCorrect, PTL DEF Spec

\* No event the observer stamped is in two places, or in none: across both
\* threads, the lanes, the fallback queue and the retries none is duplicated
\* or silently dropped.
THEOREM NoEventGoesMissing == Spec => []EveryEventInOnePlace
<1>1. TypeOK /\ Placed => EveryEventInOnePlace
  <2> SUFFICES ASSUME TypeOK, Placed, NEW s \in Sequence
               PROVE  Cardinality(Places(s)) = IF s < next THEN 1 ELSE 0
    BY DEF EveryEventInOnePlace
  <2> DEFINE names == {"sending", "normal", "critical", "fallback", "taken", "pending", "settled"}
  <2>1. InOnePlace(s)
    BY DEF Placed
  <2>2. /\ Places(s) \subseteq names
        /\ "sending" \in Places(s) <=> sending.seq = s /\ fate[s] # "lost"
        /\ "normal" \in Places(s) <=> s \in normal
        /\ "critical" \in Places(s) <=> s \in critical
        /\ "fallback" \in Places(s) <=> s \in fallback
        /\ "taken" \in Places(s) <=> s \in taken.events
        /\ "pending" \in Places(s) <=> s \in pending
        /\ "settled" \in Places(s) <=> fate[s] # "none"
    BY DEF Places
  <2>3. CASE ~(s < next)
    <3>1. Places(s) = {}
      BY <2>1, <2>2, <2>3 DEF InOnePlace, Held
    <3>2. QED
      BY <2>3, <3>1, FS_EmptySet
  <2>4. CASE s < next
    <3>1. \E p \in names : Places(s) = {p}
      BY <2>1, <2>2, <2>4 DEF InOnePlace, Held
    <3>2. PICK p \in names : Places(s) = {p}
      BY <3>1
    <3>3. Cardinality({p}) = 1
      BY FS_Singleton
    <3>4. QED
      BY <2>4, <3>2, <3>3
  <2>5. QED
    BY <2>3, <2>4
<1>2. QED
  BY <1>1, TypeCorrect, PlacedAlways, PTL
=============================================================================
