--------------------------- MODULE PlatformPipeline ---------------------------
(***************************************************************************)
(* How a Windows notification reaches the usage timeline.                  *)
(*                                                                         *)
(* The observer thread (platform/windows/session.rs) stamps each event     *)
(* with a process-wide sequence number and pushes it into a bounded lane:  *)
(* normal for foreground changes, critical for session and power changes,  *)
(* a fallback queue when critical is full.  When no lane takes it, flags   *)
(* and a first lost sequence are left in atomics.  The collector thread    *)
(* (run_collector, PendingPlatformEvents) takes the atomics, collects the  *)
(* lanes, and applies what is pending in sequence order, retrying a failed *)
(* head and recording a recovery gap for what was lost.                    *)
(*                                                                         *)
(* The two threads interleave at every atomic operation and every channel  *)
(* operation.  The observer is one thread, so a FIFO lane holds increasing *)
(* sequence numbers and is modelled by the set of them.  Sequence numbers  *)
(* start at 1; 0 stands for Option::None where the code has one.           *)
(***************************************************************************)
EXTENDS Integers, FiniteSets

CONSTANTS
  NormalCap, CriticalCap, FallbackCap, PendingCap,  \* lane and queue capacities
  MaxEvents,            \* bound: how many notifications Windows sends
  Lanes,                \* bound: the lanes they are for (in principle both)
  Absent,               \* no recovery_barrier
  NoTarget, RecoveryGap \* retry_target: None and Some(RecoveryGap)

ASSUME CapAssumption ==
  /\ NormalCap \in Nat /\ CriticalCap \in Nat /\ FallbackCap \in Nat /\ PendingCap \in Nat
  /\ MaxEvents \in Nat
  /\ Lanes \subseteq {"normal", "critical"}

ASSUME NameAssumption ==
  /\ Absent \notin Int /\ NoTarget \notin Int /\ RecoveryGap \notin Int
  /\ NoTarget # RecoveryGap

Sequence == 1 .. MaxEvents
BeforeAll == 0            \* a barrier with first_unknown_sequence None

VARIABLES
  next,         \* NEXT_PLATFORM_SEQUENCE
  sending,      \* the observer's event and the step of its send
  normal, critical, fallback,   \* the lanes
  dirty, dirtySeq,              \* OBSERVER_DIRTY, OBSERVER_DIRTY_SEQUENCE
  overflow, overflowSeq,        \* CRITICAL_OVERFLOW, CRITICAL_OVERFLOW_SEQUENCE
  pc, taken,    \* where the collector's loop is, and what take_recovery holds
  pending, lastApplied, barrier, resync, retry, backoff,  \* PendingPlatformEvents
  fate,         \* history: what became of each event
  uncovered     \* history: events lost since a gap was last recorded

lanes == <<normal, critical, fallback>>
flags == <<dirty, dirtySeq, overflow, overflowSeq>>
queue == <<pending, lastApplied, barrier, resync, retry, backoff>>
observer == <<next, sending>>
vars == <<observer, lanes, flags, pc, taken, queue, fate, uncovered>>

LeastOf(S) == CHOOSE s \in S : \A t \in S : s <= t

-----------------------------------------------------------------------------
(* The observer thread.                                                    *)

Idle == [seq |-> 0, step |-> "idle"]

\* A WinEvent (normal) or a session or power message (critical) is stamped.
Stamp ==
  /\ sending = Idle /\ next <= MaxEvents
  /\ next' = next + 1
  /\ \E lane \in Lanes : sending' = [seq |-> next, step |-> lane]
  /\ UNCHANGED <<lanes, flags, pc, taken, queue, fate, uncovered>>

Lose(s) == fate' = [fate EXCEPT ![s] = "lost"] /\ uncovered' = uncovered \union {s}

SendNormal ==
  /\ sending.step = "normal"
  /\ \/ /\ Cardinality(normal) < NormalCap
        /\ normal' = normal \union {sending.seq} /\ sending' = Idle
        /\ UNCHANGED <<dirty, fate, uncovered>>
     \/ /\ Cardinality(normal) >= NormalCap
        /\ dirty' = TRUE /\ sending' = [sending EXCEPT !.step = "recordDirty"]
        /\ Lose(sending.seq)
        /\ UNCHANGED normal
  /\ UNCHANGED <<next, critical, fallback, dirtySeq, overflow, overflowSeq, pc, taken, queue>>

SendCritical ==
  /\ sending.step = "critical"
  /\ \/ /\ Cardinality(critical) < CriticalCap
        /\ critical' = critical \union {sending.seq} /\ sending' = Idle
        /\ UNCHANGED dirty
     \/ /\ Cardinality(critical) >= CriticalCap
        /\ dirty' = TRUE /\ sending' = [sending EXCEPT !.step = "fallback"]
        /\ UNCHANGED critical
  /\ UNCHANGED <<next, normal, fallback, dirtySeq, overflow, overflowSeq, pc, taken, queue,
                 fate, uncovered>>

\* try_lock fails only while the collector is draining the fallback queue.
SendFallback ==
  /\ sending.step = "fallback"
  /\ \/ /\ Cardinality(fallback) < FallbackCap
        /\ fallback' = fallback \union {sending.seq} /\ sending' = Idle
        /\ UNCHANGED <<overflow, fate, uncovered>>
     \/ /\ Cardinality(fallback) >= FallbackCap \/ pc = "takeFallback"
        /\ overflow' = TRUE /\ sending' = [sending EXCEPT !.step = "recordOverflow"]
        /\ Lose(sending.seq)
        /\ UNCHANGED fallback
  /\ UNCHANGED <<next, normal, critical, dirty, dirtySeq, overflowSeq, pc, taken, queue>>

RecordEarliest(slot, s) == IF slot # 0 /\ slot <= s THEN slot ELSE s

RecordDirty ==
  /\ sending.step = "recordDirty"
  /\ dirtySeq' = RecordEarliest(dirtySeq, sending.seq)
  /\ sending' = Idle
  /\ UNCHANGED <<next, lanes, dirty, overflow, overflowSeq, pc, taken, queue, fate, uncovered>>

RecordOverflow ==
  /\ sending.step = "recordOverflow"
  /\ overflowSeq' = RecordEarliest(overflowSeq, sending.seq)
  /\ sending' = Idle
  /\ UNCHANGED <<next, lanes, dirty, dirtySeq, overflow, pc, taken, queue, fate, uncovered>>

-----------------------------------------------------------------------------
(* PendingPlatformEvents.                                                  *)

\* merge_first_unknown: BeforeAll is less than every sequence number.
MergedBarrier(current, first) ==
  IF current = Absent \/ first < current THEN first ELSE current

\* Mutant of IsStale: a late event is applied out of order.
IsStaleNever(s) == FALSE

IsStale(s) == s <= lastApplied

HasPendingWork == pending # {} \/ barrier # Absent \/ retry # NoTarget

\* The event next_event_index picks, as a set of at most one.
NextEvent ==
  IF retry \in Sequence THEN pending \intersect {retry}
  ELSE {s \in pending : s = LeastOf(pending) /\ (barrier = Absent \/ s < barrier)}

GapIsNext ==
  /\ barrier # Absent
  /\ barrier = BeforeAll \/ \A s \in pending : s >= barrier

\* Pushing the events S in order: those past the capacity are lost, and ask
\* for a recovery from the first of them on.
Enqueue(S, asked) ==
  LET room == PendingCap - Cardinality(pending)
      kept == {s \in S : Cardinality({t \in S : t <= s}) <= room}
      rejected == S \ kept
      first == LeastOf(rejected)
  IN /\ pending' = pending \union kept
     /\ barrier' = IF rejected = {} THEN asked ELSE MergedBarrier(asked, first)
     /\ fate' = [s \in Sequence |-> IF s \in rejected THEN "lost" ELSE fate[s]]
     /\ uncovered' = uncovered \union rejected

-----------------------------------------------------------------------------
(* The collector's loop: take_observer_recovery.                           *)

Nothing == [events |-> {}, dirty |-> FALSE, overflowed |-> FALSE, first |-> 0]

\* Mutant of TakeFallback: the queue is read but not drained.
TakeFallbackCopies ==
  /\ pc = "takeFallback"
  /\ taken' = [Nothing EXCEPT !.events = fallback]
  /\ pc' = "takeDirty"
  /\ UNCHANGED <<observer, lanes, flags, queue, fate, uncovered>>

\* The queue cannot be drained while the observer holds its lock.
TakeFallback ==
  /\ pc = "takeFallback"
  /\ \/ taken' = [Nothing EXCEPT !.events = fallback] /\ fallback' = {}
     \/ sending.step = "fallback" /\ taken' = Nothing /\ UNCHANGED fallback
  /\ pc' = "takeDirty"
  /\ UNCHANGED <<observer, normal, critical, flags, queue, fate, uncovered>>

TakeDirty ==
  /\ pc = "takeDirty" /\ pc' = "takeOverflow"
  /\ taken' = [taken EXCEPT !.dirty = dirty] /\ dirty' = FALSE
  /\ UNCHANGED <<observer, lanes, dirtySeq, overflow, overflowSeq, queue, fate, uncovered>>

TakeOverflow ==
  /\ pc = "takeOverflow" /\ pc' = "takeDirtySequence"
  /\ taken' = [taken EXCEPT !.overflowed = overflow] /\ overflow' = FALSE
  /\ UNCHANGED <<observer, lanes, dirty, dirtySeq, overflowSeq, queue, fate, uncovered>>

TakeDirtySequence ==
  /\ pc = "takeDirtySequence" /\ pc' = "requestRecovery"
  /\ taken' = [taken EXCEPT !.first = dirtySeq] /\ dirtySeq' = 0
  /\ UNCHANGED <<observer, lanes, dirty, overflow, overflowSeq, queue, fate, uncovered>>

\* Mutant of RequestRecovery: only the overflow flag asks for recovery.
RequestRecoveryOverflowOnly ==
  LET marked == {taken.first, overflowSeq} \ {0}
      first == IF marked = {} THEN BeforeAll ELSE LeastOf(marked)
      asked == IF taken.overflowed THEN MergedBarrier(barrier, first) ELSE barrier
  IN /\ pc = "requestRecovery"
     /\ overflowSeq' = 0
     /\ Enqueue(taken.events, asked)
     /\ resync' = TRUE
     /\ taken' = Nothing /\ pc' = "critical"
     /\ UNCHANGED <<observer, lanes, dirty, dirtySeq, overflow, lastApplied, retry, backoff>>

\* The last sequence is taken, a gap is requested before the earliest one (or
\* before everything), and the drained events are enqueued.
RequestRecovery ==
  LET marked == {taken.first, overflowSeq} \ {0}
      first == IF marked = {} THEN BeforeAll ELSE LeastOf(marked)
      recover == taken.overflowed \/ marked # {}
      asked == IF recover THEN MergedBarrier(barrier, first) ELSE barrier
  IN /\ pc = "requestRecovery"
     /\ overflowSeq' = 0
     /\ Enqueue(taken.events, asked)
     /\ resync' = (resync \/ recover \/ taken.dirty \/ barrier' # asked)
     /\ taken' = Nothing /\ pc' = "critical"
     /\ UNCHANGED <<observer, lanes, dirty, dirtySeq, overflow, lastApplied, retry, backoff>>

-----------------------------------------------------------------------------
(* collect_platform_events: rounds of one critical, then one normal event, *)
(* until a round finds nothing or the pending queue is full.               *)

Full == Cardinality(pending) >= PendingCap

CollectCritical ==
  /\ pc = "critical"
  /\ IF Full THEN pc' = "drain" /\ UNCHANGED <<critical, pending>>
     ELSE IF critical = {} THEN pc' = "normal" /\ UNCHANGED <<critical, pending>>
     ELSE /\ critical' = critical \ {LeastOf(critical)}
          /\ pending' = pending \union {LeastOf(critical)}
          /\ pc' = "normalAgain"
  /\ UNCHANGED <<observer, normal, fallback, flags, taken, lastApplied, barrier, resync, retry,
                 backoff, fate, uncovered>>

\* "normalAgain": this round progressed already, so another one follows.
CollectNormal ==
  /\ pc \in {"normal", "normalAgain"}
  /\ IF Full \/ normal = {}
     THEN /\ pc' = IF pc = "normal" THEN "drain" ELSE "critical"
          /\ UNCHANGED <<normal, pending>>
     ELSE /\ normal' = normal \ {LeastOf(normal)}
          /\ pending' = pending \union {LeastOf(normal)}
          /\ pc' = "critical"
  /\ UNCHANGED <<observer, critical, fallback, flags, taken, lastApplied, barrier, resync, retry,
                 backoff, fate, uncovered>>

-----------------------------------------------------------------------------
(* The drain loop: apply the head, record the gap, or stop.                *)

Ready == ~backoff

\* Something with a later sequence number was applied already.
DropStale ==
  /\ pc = "drain" /\ Ready
  /\ \E s \in NextEvent :
       /\ IsStale(s)
       /\ pending' = pending \ {s} /\ resync' = TRUE
       /\ fate' = [fate EXCEPT ![s] = "stale"]
  /\ UNCHANGED <<observer, lanes, flags, pc, taken, lastApplied, barrier, retry, backoff, uncovered>>

ApplyEvent ==
  /\ pc = "drain" /\ Ready
  /\ \E s \in NextEvent :
       /\ ~IsStale(s)
       /\ pending' = pending \ {s} /\ lastApplied' = s
       /\ retry' = IF retry = s THEN NoTarget ELSE retry
       /\ fate' = [fate EXCEPT ![s] = "applied"]
  /\ UNCHANGED <<observer, lanes, flags, pc, taken, barrier, resync, backoff, uncovered>>

\* Its identity cannot be resolved or its batch cannot be written.
EventFails ==
  /\ pc = "drain" /\ Ready
  /\ \E s \in NextEvent : ~IsStale(s) /\ retry' = s
  /\ backoff' = TRUE /\ pc' = "wait"
  /\ UNCHANGED <<observer, lanes, flags, taken, pending, lastApplied, barrier, resync, fate, uncovered>>

\* Mutant of RecordGap: the cutoff is computed for a barrier before all too.
RecordGapUnsaturated ==
  /\ pc = "drain" /\ Ready /\ NextEvent = {} /\ GapIsNext
  /\ lastApplied' = barrier - 1
  /\ barrier' = Absent /\ retry' = NoTarget
  /\ uncovered' = {}
  /\ UNCHANGED <<observer, lanes, flags, pc, taken, pending, resync, backoff, fate>>

\* Mutant of RecordGap: the retry target survives the gap it targets.
RecordGapKeepsTarget ==
  /\ pc = "drain" /\ Ready /\ NextEvent = {} /\ GapIsNext
  /\ lastApplied' = IF lastApplied < barrier THEN barrier - 1 ELSE lastApplied
  /\ barrier' = Absent
  /\ uncovered' = {}
  /\ UNCHANGED <<observer, lanes, flags, pc, taken, pending, resync, retry, backoff, fate>>

RecordGap ==
  /\ pc = "drain" /\ Ready /\ NextEvent = {} /\ GapIsNext
  /\ lastApplied' = IF lastApplied < barrier THEN barrier - 1 ELSE lastApplied
  /\ barrier' = Absent /\ retry' = NoTarget
  /\ uncovered' = {}
  /\ UNCHANGED <<observer, lanes, flags, pc, taken, pending, resync, backoff, fate>>

GapFails ==
  /\ pc = "drain" /\ Ready /\ NextEvent = {} /\ GapIsNext
  /\ retry' = RecoveryGap /\ backoff' = TRUE /\ pc' = "wait"
  /\ UNCHANGED <<observer, lanes, flags, taken, pending, lastApplied, barrier, resync, fate, uncovered>>

DrainEnds ==
  /\ pc = "drain"
  /\ backoff \/ (NextEvent = {} /\ ~GapIsNext)
  /\ pc' = "wait"
  /\ UNCHANGED <<observer, lanes, flags, taken, queue, fate, uncovered>>

BackoffExpires ==
  /\ backoff /\ backoff' = FALSE
  /\ UNCHANGED <<observer, lanes, flags, pc, taken, pending, lastApplied, barrier, resync, retry,
                 fate, uncovered>>

-----------------------------------------------------------------------------
(* The rest of an iteration: recv_timeout, which may hand over one normal  *)
(* event, and the heartbeat.                                               *)

Wait ==
  /\ pc = "wait" /\ pc' = "heartbeat"
  /\ IF HasPendingWork \/ backoff \/ normal = {} THEN UNCHANGED <<normal, pending>>
     ELSE /\ normal' = normal \ {LeastOf(normal)}
          /\ pending' = pending \union {LeastOf(normal)}
  /\ UNCHANGED <<observer, critical, fallback, flags, taken, lastApplied, barrier, resync, retry,
                 backoff, fate, uncovered>>

Heartbeat ==
  /\ pc = "heartbeat" /\ ~HasPendingWork /\ Ready
  /\ pc' = "takeFallback" /\ resync' = FALSE
  /\ UNCHANGED <<observer, lanes, flags, taken, pending, lastApplied, barrier, retry, backoff,
                 fate, uncovered>>

\* Mutant of HeartbeatFails: the retry is scheduled, the gap never requested.
HeartbeatFailsWithoutGap ==
  /\ pc = "heartbeat" /\ ~HasPendingWork /\ Ready
  /\ pc' = "takeFallback"
  /\ retry' = RecoveryGap /\ backoff' = TRUE
  /\ UNCHANGED <<observer, lanes, flags, taken, pending, lastApplied, barrier, resync, fate, uncovered>>

HeartbeatFails ==
  /\ pc = "heartbeat" /\ ~HasPendingWork /\ Ready
  /\ pc' = "takeFallback"
  /\ barrier' = BeforeAll /\ resync' = TRUE
  /\ retry' = RecoveryGap /\ backoff' = TRUE
  /\ UNCHANGED <<observer, lanes, flags, taken, pending, lastApplied, fate, uncovered>>

\* Work is pending, or no heartbeat is due yet.
NoHeartbeat ==
  /\ pc = "heartbeat"
  /\ HasPendingWork \/ backoff \/ ~resync
  /\ pc' = "takeFallback"
  /\ UNCHANGED <<observer, lanes, flags, taken, queue, fate, uncovered>>

-----------------------------------------------------------------------------

Init ==
  /\ next = 1 /\ sending = Idle
  /\ normal = {} /\ critical = {} /\ fallback = {}
  /\ dirty = FALSE /\ dirtySeq = 0 /\ overflow = FALSE /\ overflowSeq = 0
  /\ pc = "takeFallback" /\ taken = Nothing
  /\ pending = {} /\ lastApplied = 0 /\ barrier = Absent
  /\ resync = FALSE /\ retry = NoTarget /\ backoff = FALSE
  /\ fate = [s \in Sequence |-> "none"] /\ uncovered = {}

Send == SendNormal \/ SendCritical \/ SendFallback \/ RecordDirty \/ RecordOverflow

Collector ==
  \/ TakeFallback \/ TakeDirty \/ TakeOverflow \/ TakeDirtySequence \/ RequestRecovery
  \/ CollectCritical \/ CollectNormal
  \/ DropStale \/ ApplyEvent \/ EventFails \/ RecordGap \/ GapFails \/ DrainEnds
  \/ Wait \/ Heartbeat \/ HeartbeatFails \/ NoHeartbeat

Next == Stamp \/ Send \/ Collector \/ BackoffExpires

\* The threads are scheduled, a backoff ends, and a write that is retried for
\* ever succeeds at last; Windows need not send anything.
Fairness ==
  /\ WF_vars(Send) /\ WF_vars(Collector) /\ WF_vars(BackoffExpires)
  /\ SF_vars(ApplyEvent) /\ SF_vars(RecordGap) /\ SF_vars(Heartbeat)

Spec == Init /\ [][Next]_vars /\ Fairness

-----------------------------------------------------------------------------
(* What must hold.                                                         *)

Steps == {"takeFallback", "takeDirty", "takeOverflow", "takeDirtySequence", "requestRecovery",
          "critical", "normal", "normalAgain", "drain", "wait", "heartbeat"}
SendSteps == {"normal", "critical", "fallback", "recordDirty", "recordOverflow"}

\* The type invariant.
TypeOK ==
  /\ next \in 1 .. MaxEvents + 1
  /\ sending \in {Idle} \union [seq : Sequence, step : SendSteps]
  /\ normal \in SUBSET Sequence /\ critical \in SUBSET Sequence /\ fallback \in SUBSET Sequence
  /\ dirty \in BOOLEAN /\ overflow \in BOOLEAN
  /\ dirtySeq \in 0 .. MaxEvents /\ overflowSeq \in 0 .. MaxEvents
  /\ pc \in Steps
  /\ taken \in [events : SUBSET Sequence, dirty : BOOLEAN, overflowed : BOOLEAN,
               first : 0 .. MaxEvents]
  /\ pending \in SUBSET Sequence /\ lastApplied \in 0 .. MaxEvents
  /\ barrier \in 0 .. MaxEvents \union {Absent}
  /\ resync \in BOOLEAN /\ backoff \in BOOLEAN
  /\ retry \in Sequence \union {NoTarget, RecoveryGap}
  /\ fate \in [Sequence -> {"none", "applied", "stale", "lost"}]
  /\ uncovered \in SUBSET Sequence

\* A retry target never outlives what it targets.  retry_target alone counts
\* as pending work, so an orphan would stop heartbeats and controls for ever:
\* a targeted event is still queued and still newer than everything applied,
\* and a targeted gap still has its barrier.
RetryIsNeverOrphaned ==
  /\ retry \in Sequence => retry \in pending /\ ~IsStale(retry)
  /\ retry = RecoveryGap => barrier # Absent

\* Every stamped event is in exactly one place: with the observer, in a lane,
\* in the collector's hands, or settled (applied, dropped as stale, or lost).
Places(s) ==
  {p \in {"sending", "normal", "critical", "fallback", "taken", "pending", "settled"} :
     CASE p = "sending" -> sending.seq = s /\ fate[s] # "lost"
       [] p = "normal" -> s \in normal
       [] p = "critical" -> s \in critical
       [] p = "fallback" -> s \in fallback
       [] p = "taken" -> s \in taken.events
       [] p = "pending" -> s \in pending
       [] OTHER -> fate[s] # "none"}

EveryEventInOnePlace ==
  \A s \in Sequence : Cardinality(Places(s)) = IF s < next THEN 1 ELSE 0

\* A loss no gap covers yet is still announced somewhere on the way to the
\* barrier: between a flag and its sequence, in the atomics, with the
\* collector, or as the barrier itself.
LossIsNeverForgotten ==
  uncovered # {} =>
    \/ sending.step \in {"recordDirty", "recordOverflow"}
    \/ overflow \/ dirtySeq # 0 \/ overflowSeq # 0
    \/ taken.overflowed \/ taken.first # 0
    \/ barrier # Absent

\* Events reach the timeline in the order Windows sent them.
AppliedInOrder ==
  [][\A s, t \in Sequence :
       fate[s] = "applied" /\ fate[t] # "applied" /\ fate'[t] = "applied" => s < t]_vars

\* Whatever was sent, lost or failed, the pipeline settles again and again: no
\* event stays undelivered and no recovery undone, and (has_pending_work being
\* false) heartbeats and controls are served.
Settled ==
  /\ normal = {} /\ critical = {} /\ fallback = {} /\ taken.events = {}
  /\ ~HasPendingWork /\ ~resync /\ uncovered = {}

SettlesAgainAndAgain == []<>Settled

\* An overflow of the critical lane is recorded as a gap before any later
\* event is applied.
GapComesFirst ==
  [][\A t \in Sequence :
       fate[t] # "applied" /\ fate'[t] = "applied" => \A s \in uncovered : t < s]_vars
=============================================================================
