------------------------------- MODULE Upkeep -------------------------------
(***************************************************************************)
(* What run_collector does with frames and daily usage (src-tauri/src/     *)
(* collector/manager.rs): it queues snapshots, writes them one by one,     *)
(* rolls committed frames up, rebuilds the daily usage of the days its     *)
(* usage rows changed, clears the data, and on shutdown brings all of that *)
(* to an end against a deadline.  One step of this machine is one such     *)
(* operation; the collector's thread is the only one that runs them.       *)
(*   clock     the wall clock, in minutes                                  *)
(*   up        the process runs; paused is CollectorStatus's flag          *)
(*   writer    the FrameWriter                                             *)
(*   frames    the committed frames; rollup what was made of them          *)
(*   sessions  the collection sessions, the last of them the runtime one   *)
(*   stale     the days whose app_usage_daily rows are behind their usage  *)
(*   dirty     DailyRollupScheduler.dirty_range, as days; due and rested   *)
(*             its debounce and its minimum interval, when they are over   *)
(*   first     the day of the scheduler's first mark in this process       *)
(*   outcome   what shutdown replied                                       *)
(* taken, gone, late and tardy are history: the frames sampled so far; the *)
(* number of those no longer anywhere; the frames committed after their    *)
(* minute was checkpointed; and those not yet in a minute row when their   *)
(* hour was.  `load` bounds what happens in a behaviour.                   *)
(***************************************************************************)
EXTENDS FrameWriter, ProcessRollup

CONSTANT Loads   \* bounds: records [frames, usages, starts, time]

ASSUME LoadAssumption ==
  Loads \subseteq [frames : Nat, usages : Nat, starts : Nat, time : Nat]

VARIABLES clock, up, paused, writer, frames, rollup, sessions,
          stale, dirty, due, rested, first, outcome,
          taken, used, gone, late, tardy, load

collected == <<writer, frames, rollup, taken, gone, late, tardy>>
scheduler == <<dirty, due, rested, first>>
daily == <<stale, scheduler, used>>
process == <<up, paused, outcome, sessions>>
vars == <<clock, collected, daily, process, load>>

Days == 0 .. DayOf(load.time) + 1
Today == DayOf(clock)

Tick ==
  /\ clock < load.time
  /\ clock' = clock + 1
  /\ UNCHANGED <<collected, daily, process, load>>

-----------------------------------------------------------------------------
(* Frames.                                                                 *)

Sampling == up /\ ~paused

Sample ==
  /\ Sampling /\ taken < load.frames
  /\ taken' = taken + 1
  /\ writer' = Enqueue(writer, [id |-> taken + 1, at |-> clock])
  /\ UNCHANGED <<clock, frames, rollup, gone, late, tardy, daily, process, load>>

\* insert_snapshot writes into the runtime session and opens one if the last
\* was closed (ensure_runtime_session).
WithOpenSession(ss) == IF ss[Len(ss)].open THEN ss ELSE Append(ss, [open |-> TRUE, frames |-> {}])

Recorded(fs) ==
  IF fs = {} THEN sessions
  ELSE LET ss == WithOpenSession(sessions) IN [ss EXCEPT ![Len(ss)].frames = @ \cup fs]

\* The history of frames a checkpoint went past.
LateAmong(fs) == {f \in fs : f.at <= rollup.minuteMark}
TardyAmong(fs, r) == {f \in fs \ r.minute : HourOf(f.at) <= r.hourMark}

WriteNext ==
  /\ Sampling /\ writer.queue # <<>> /\ ~writer.waiting
  /\ writer' = Written(writer)
  /\ LET frame == Head(writer.queue).frame
     IN /\ frames' = frames \cup {frame}
        /\ sessions' = Recorded({frame})
        /\ late' = late \cup LateAmong({frame})
        /\ tardy' = tardy \cup TardyAmong({frame}, rollup)
  /\ UNCHANGED <<clock, rollup, taken, gone, daily, up, paused, outcome, load>>

WriteFails ==
  /\ Sampling /\ writer.queue # <<>> /\ ~writer.waiting
  /\ writer' = Failed(writer)
  /\ UNCHANGED <<clock, frames, rollup, taken, gone, late, tardy, daily, process, load>>

BackoffEnds ==
  /\ writer.waiting
  /\ writer' = [writer EXCEPT !.waiting = FALSE]
  /\ UNCHANGED <<clock, frames, rollup, taken, gone, late, tardy, daily, process, load>>

RollUp ==
  /\ Sampling
  /\ rollup' \in Slices(rollup, frames, clock)
  /\ tardy' = tardy \cup TardyAmong(frames, rollup')
  /\ UNCHANGED <<clock, writer, frames, taken, gone, late, daily, process, load>>

-----------------------------------------------------------------------------
(* Daily usage.                                                            *)

\* The days from the first to the last.
Span(S) == IF S = {} THEN {} ELSE {d \in Days : \E x, y \in S : x <= d /\ d <= y}

\* mark: a day on each side of the actions' times.
Padded(at) == {d \in Days : d >= DayOf(at) - 1 /\ d <= DayOf(at) + 1}

\* The days whose usage an event changes: its actions, if it has any, are
\* dated now but extend rows last touched today or the day before.
Touched == {{}, {Today}, {d \in Days : d \in Today - 1 .. Today}}

DirtyAfter(days) == IF days = {} THEN dirty ELSE Span(dirty \cup Padded(clock))

\* Their transaction commits, then mark.
Mark(days) ==
  /\ stale' = stale \cup days
  /\ dirty' = DirtyAfter(days)
  /\ due' = (due /\ days = {})
  /\ first' = IF first = NoMark /\ days # {} THEN Today ELSE first

Use ==
  /\ up /\ used < load.usages
  /\ used' = used + 1
  /\ \E days \in Touched \ {{}} : Mark(days)
  /\ UNCHANGED <<clock, collected, rested, process, load>>

DebounceEnds ==
  /\ dirty # {} /\ ~due
  /\ due' = TRUE
  /\ UNCHANGED <<clock, collected, stale, dirty, rested, first, used, process, load>>

RestEnds ==
  /\ ~rested
  /\ rested' = TRUE
  /\ UNCHANGED <<clock, collected, stale, dirty, due, first, used, process, load>>

\* Mutant of Rebuild: only while sampling.
RebuildWhenSampling ==
  /\ Sampling /\ dirty # {} /\ due /\ rested
  /\ stale' = stale \ dirty
  /\ dirty' = {} /\ due' = FALSE /\ rested' = FALSE
  /\ UNCHANGED <<clock, collected, first, used, process, load>>

\* run_daily_rollup, also while paused.
Rebuild ==
  /\ up /\ dirty # {} /\ due /\ rested
  /\ stale' = stale \ dirty
  /\ dirty' = {} /\ due' = FALSE /\ rested' = FALSE
  /\ UNCHANGED <<clock, collected, first, used, process, load>>

\* Mutant of RebuildFails: the range is not put back.
RebuildFailsForGood ==
  /\ up /\ dirty # {} /\ due /\ rested
  /\ dirty' = {} /\ due' = FALSE /\ rested' = FALSE
  /\ UNCHANGED <<clock, collected, stale, first, used, process, load>>

\* requeue: the range taken is put back, to be debounced again.
RebuildFails ==
  /\ up /\ dirty # {} /\ due /\ rested
  /\ due' = FALSE /\ rested' = FALSE
  /\ UNCHANGED <<clock, collected, stale, dirty, first, used, process, load>>

-----------------------------------------------------------------------------
(* Controls, shutdown and restart.                                         *)

\* SetPaused applies a Pause or a ResumeCollection event.
SetPaused ==
  /\ up /\ used < load.usages
  /\ used' = used + 1
  /\ \E days \in Touched : Mark(days)
  /\ paused' = ~paused
  /\ UNCHANGED <<clock, collected, rested, up, outcome, sessions, load>>

\* Clear: a Pause event, then the queue is discarded, then the tables are
\* emptied, the rows of the rollups with those they refer to.
Clear ==
  /\ up /\ used < load.usages
  /\ used' = used + 1
  /\ writer' = Discarded(writer)
  /\ frames' = {} /\ gone' = gone + Cardinality(frames)
  /\ rollup' = [EmptyRollup EXCEPT !.minuteMark = rollup.minuteMark,
                                   !.hourMark = rollup.hourMark]
  /\ sessions' = [i \in DOMAIN sessions |-> [sessions[i] EXCEPT !.frames = {}]]
  /\ late' = {} /\ tardy' = {}
  /\ stale' = {}
  /\ dirty' = {} /\ due' = FALSE /\ rested' = TRUE /\ first' = NoMark
  /\ UNCHANGED <<clock, taken, up, paused, outcome, load>>

\* The same when an active retention hold or a write refuses it.
ClearRefused ==
  /\ up /\ used < load.usages
  /\ used' = used + 1
  /\ writer' = Discarded(writer)
  /\ \E days \in Touched : Mark(days)
  /\ UNCHANGED <<clock, frames, rollup, taken, gone, late, tardy, rested, process, load>>

\* finish_collection_session may fail; the metadata sync after the loop may
\* still find something to write, in a session of its own if need be.
SessionEnds(ss) ==
  LET closed == [ss EXCEPT ![Len(ss)].open = FALSE]
  IN {[closed |-> FALSE, all |-> ss], [closed |-> TRUE, all |-> closed],
      [closed |-> TRUE, all |-> WithOpenSession(closed)]}

\* Stop the providers, end the usage, rebuild the days whatever the timers say,
\* flush the queue, run a slice if that went well, close the session.  Each may
\* fail on its own, by the deadline or in the database; `others` are the
\* failures that change nothing here.
Shutdown ==
  /\ up
  /\ \E flush \in Flushes(writer), rebuilt, others \in BOOLEAN,
        days \in IF used < load.usages THEN Touched ELSE {{}} :
     \E end \in SessionEnds(Recorded(FlushWrote(writer, flush))) :
       LET written == FlushWrote(writer, flush)
           flushed == FlushSucceeded(writer, flush)
       IN /\ stale' = (stale \cup days) \ (IF rebuilt THEN DirtyAfter(days) ELSE {})
          /\ dirty' = IF rebuilt THEN {} ELSE DirtyAfter(days)
          /\ first' = IF first = NoMark /\ days # {} THEN Today ELSE first
          /\ writer' = Flushed(writer, flush)
          /\ frames' = frames \cup written
          /\ late' = late \cup LateAmong(written)
          /\ rollup' \in IF flushed THEN Slices(rollup, frames', clock) ELSE {rollup}
          /\ tardy' = tardy \cup TardyAmong(written, rollup) \cup TardyAmong(frames', rollup')
          /\ sessions' = end.all
          /\ outcome' = IF /\ others /\ rebuilt /\ flushed
                           /\ rollup' = FullSlice(rollup, frames', clock)
                           /\ end.closed
                        THEN "ok" ELSE "failed"
  /\ up' = FALSE
  /\ UNCHANGED <<clock, paused, taken, used, gone, due, rested, load>>

Crash ==
  /\ up
  /\ up' = FALSE
  /\ UNCHANGED <<clock, collected, daily, paused, outcome, sessions, load>>

\* Database::open closes the sessions left open and starts one; what the last
\* process still had in memory is gone.
Start ==
  /\ ~up /\ Len(sessions) < load.starts
  /\ up' = TRUE /\ paused' = FALSE /\ outcome' = "none"
  /\ writer' = NewWriter /\ gone' = gone + Len(writer.queue) + writer.drops
  /\ sessions' = Append([i \in DOMAIN sessions |-> [sessions[i] EXCEPT !.open = FALSE]],
                        [open |-> TRUE, frames |-> {}])
  /\ dirty' = {} /\ due' = FALSE /\ rested' = TRUE /\ first' = NoMark
  /\ UNCHANGED <<clock, frames, rollup, taken, late, tardy, stale, used, load>>

Init ==
  /\ load \in Loads
  /\ clock = 0 /\ up = TRUE /\ paused = FALSE /\ outcome = "none"
  /\ writer = NewWriter /\ frames = {} /\ rollup = EmptyRollup
  /\ sessions = <<[open |-> TRUE, frames |-> {}]>>
  /\ stale = {} /\ dirty = {} /\ due = FALSE /\ rested = TRUE /\ first = NoMark
  /\ taken = 0 /\ used = 0 /\ gone = 0 /\ late = {} /\ tardy = {}

Next ==
  \/ Tick
  \/ Sample \/ WriteNext \/ WriteFails \/ BackoffEnds \/ RollUp
  \/ Use \/ DebounceEnds \/ RestEnds \/ Rebuild \/ RebuildFails
  \/ SetPaused \/ Clear \/ ClearRefused
  \/ Shutdown \/ Crash \/ Start

Spec == Init /\ [][Next]_vars

\* While the process runs and samples, its loop comes round: the front frame is
\* tried once its backoff is over, the scheduler's timers run out, and a
\* rebuild that is retried for ever does not fail every time.
Fairness ==
  /\ WF_vars(WriteNext \/ WriteFails) /\ WF_vars(BackoffEnds)
  /\ WF_vars(DebounceEnds) /\ WF_vars(RestEnds) /\ SF_vars(Rebuild)

FairSpec == Spec /\ Fairness

-----------------------------------------------------------------------------
(* What must hold.                                                         *)

Frame == [id : 1 .. taken, at : 0 .. clock]

\* The type invariant.
TypeOK ==
  /\ load \in Loads /\ clock \in Nat /\ up \in BOOLEAN /\ paused \in BOOLEAN
  /\ writer \in [queue : Seq([frame : Frame, attempts : 0 .. RetryLimit]),
                 waiting : BOOLEAN, drops : Nat]
  /\ Len(writer.queue) <= Depth
  /\ frames \in SUBSET Frame /\ late \in SUBSET Frame /\ tardy \in SUBSET Frame
  /\ rollup \in [minute : SUBSET Frame, hour : SUBSET Frame, day : SUBSET Frame,
                 minuteMark : Nat \cup {NoMark}, hourMark : Nat \cup {NoMark}]
  /\ sessions \in Seq([open : BOOLEAN, frames : SUBSET Frame])
  /\ stale \in SUBSET Days /\ dirty \in SUBSET Days
  /\ due \in BOOLEAN /\ rested \in BOOLEAN /\ first \in Nat \cup {NoMark}
  /\ taken \in Nat /\ used \in Nat /\ gone \in Nat
  /\ outcome \in {"none", "ok", "failed"}

\* A sampled frame is committed, waiting, dropped and counted as dropped, or
\* was cleared or lost with a process: it is never in two places, and none
\* disappears without being counted (FrameWriter's health and its queue).
EveryFrameIsAccountedFor ==
  taken = Cardinality(frames) + Len(writer.queue) + writer.drops + gone

\* Frames are committed in the order they were sampled, whatever is retried or
\* evicted: sample_frame.sequence and the LEAD of the minute layer rest on it.
CommittedInOrder ==
  /\ \A i, j \in DOMAIN writer.queue : i < j => writer.queue[i].frame.id < writer.queue[j].frame.id
  /\ \A f \in frames, i \in DOMAIN writer.queue : f.id < writer.queue[i].frame.id

\* A frame up to the minute layer's checkpoint is in its minute's rows, unless
\* it was committed too late.
NoMinuteIsSkipped ==
  \A f \in frames \ late : f.at <= rollup.minuteMark => f \in rollup.minute

\* What is in a minute's rows is in those of its hour, once that is
\* checkpointed, unless it came after: as long as the candidates of a slice
\* are not cut off at Batch hours.
NoHourIsSkipped ==
  Cardinality({HourOf(f.at) : f \in rollup.minute}) <= Batch =>
    \A f \in rollup.minute \ tardy : HourOf(f.at) <= rollup.hourMark => f \in rollup.hour

\* Neither checkpoint leaves anything behind, wherever a slice breaks off.
NothingIsSkipped == NoMinuteIsSkipped /\ NoHourIsSkipped

\* A day whose usage changed is rebuilt later: it stays in the dirty range
\* through failures, and the first mark after a crash brings it back, unless
\* the process was down for more than a day.
StaleDaysAreDirty ==
  up /\ first # NoMark => \A d \in stale : d \in dirty \/ d < first - 1

\* A shutdown that replies ok has committed every waiting frame, rebuilt every
\* day it knew of, and closed the session of every frame.
OkShutdownFinishes ==
  [][up /\ outcome' = "ok" =>
       /\ Frames(writer) \subseteq frames'
       /\ first' # NoMark => \A d \in stale' : d < first' - 1
       /\ \A i \in DOMAIN sessions' : sessions'[i].frames # {} => ~sessions'[i].open]_vars

\* However the writes fail, the queue drains when no more frames come: past the
\* retry limit the front frame is evicted and no longer holds up the others.
QueueDrains == []<>(writer.queue = <<>> \/ ~Sampling)

\* A stale day is rebuilt in the end: neither the debounce, which every mark
\* starts again, nor a failed rebuild starves it.
StaleDaysAreRebuilt == []<>(stale \cap dirty = {} \/ ~up)
=============================================================================
