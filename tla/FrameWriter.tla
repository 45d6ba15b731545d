---------------------------- MODULE FrameWriter ----------------------------
(***************************************************************************)
(* The queue of snapshots on their way to the database (FrameWriter in     *)
(* src-tauri/src/db/writer.rs).  A writer is a record:                     *)
(*   queue    the waiting frames, each with the attempts made at it        *)
(*   waiting  the front frame is in its retry backoff                      *)
(*   drops    health.drop_count                                            *)
(* health.terminal_failure_count is compared only within a flush, where    *)
(* it grows exactly with the frames the flush evicts.                      *)
(***************************************************************************)
EXTENDS Naturals, Sequences, FiniteSets

CONSTANTS Depth,      \* max_queue_depth: 64 in the collector
          RetryLimit  \* retry_limit: 5; zero means one attempt

ASSUME WriterAssumption == Depth \in Nat \ {0} /\ RetryLimit \in Nat

NewWriter == [queue |-> <<>>, waiting |-> FALSE, drops |-> 0]

Frames(w) == {w.queue[i].frame : i \in DOMAIN w.queue}

\* Mutant of Enqueue: the depth is not checked.
EnqueueAnyway(w, frame) ==
  [w EXCEPT !.queue = Append(@, [frame |-> frame, attempts |-> 0])]

Enqueue(w, frame) ==
  IF Len(w.queue) >= Depth
    THEN [w EXCEPT !.drops = @ + 1]
    ELSE [w EXCEPT !.queue = Append(@, [frame |-> frame, attempts |-> 0])]

\* write_next_inner: the write succeeded, so the front frame leaves.
Written(w) == [queue |-> Tail(w.queue), waiting |-> FALSE, drops |-> w.drops]

\* Mutant of Failed: the retried frame goes to the back of the queue.
FailedToTheBack(w) ==
  [w EXCEPT !.queue = Append(Tail(@), [@[1] EXCEPT !.attempts = @ + 1]), !.waiting = TRUE]

\* Mutant of Failed: the attempt is not counted.
FailedUncounted(w) == [w EXCEPT !.waiting = TRUE]

\* write_next_inner: the write failed; past the limit the frame is evicted.
Failed(w) ==
  IF Head(w.queue).attempts >= RetryLimit
    THEN [queue |-> Tail(w.queue), waiting |-> FALSE, drops |-> w.drops + 1]
    ELSE [queue |-> [w.queue EXCEPT ![1].attempts = @ + 1],
          waiting |-> TRUE, drops |-> w.drops]

\* The ways flush_until_inner may end, backoff ignored: of the frames it got
\* through, some evicted, and the deadline not passed.
Flushes(w) ==
  UNION {[done : {n}, evicted : SUBSET {w.queue[i].frame : i \in 1 .. n}, inTime : BOOLEAN] :
           n \in 0 .. Len(w.queue)}

Flushed(w, flush) ==
  [queue |-> SubSeq(w.queue, flush.done + 1, Len(w.queue)),
   waiting |-> FALSE, drops |-> w.drops + Cardinality(flush.evicted)]

FlushWrote(w, flush) == {w.queue[i].frame : i \in 1 .. flush.done} \ flush.evicted

\* Mutant of FlushSucceeded: an evicted frame does not fail the flush.
FlushSucceededAnyway(w, flush) == flush.done = Len(w.queue) /\ flush.inTime

FlushSucceeded(w, flush) ==
  flush.done = Len(w.queue) /\ flush.evicted = {} /\ flush.inTime

\* Mutant of Discarded: what is discarded is not counted.
DiscardedUncounted(w) == [queue |-> <<>>, waiting |-> FALSE, drops |-> w.drops]

\* discard_for_explicit_clear
Discarded(w) == [queue |-> <<>>, waiting |-> FALSE, drops |-> w.drops + Len(w.queue)]
=============================================================================
