---------------------------- MODULE UsageTimeline ----------------------------
(***************************************************************************)
(* The usage side of the collector: the interval engine, the rows it keeps *)
(* open in SQLite, and the run_collector loop of                           *)
(* src-tauri/src/collector/manager.rs that drives both with platform       *)
(* events, heartbeats, controls and recovery, over a clock, a user who     *)
(* pauses and clears, writes that fail, and a process that crashes and     *)
(* restarts.                                                               *)
(*                                                                         *)
(* What happens between an observer callback and the head of the pending   *)
(* queue is PlatformPipeline's subject.  Here a platform event is          *)
(* delivered up to MaxDelay after its stamp, and an overflow may ask for a *)
(* recovery gap at any time.                                               *)
(***************************************************************************)
EXTENDS UsageStore

CONSTANTS
  Kinds,          \* platform event types that occur (a bound; all of them in principle)
  Sessions,       \* session states current_computer_state may report besides a live one
  IdleThreshold,  \* settings.idle_threshold_seconds, in ticks
  StartTime,      \* the epoch time of the first start
  MaxTime,        \* bound: the clock stops here
  MaxDelay        \* bound: how late a platform event may be delivered

PlatformKinds == Ordered \union Excluding \union Recovering \union {"WindowsShutdown"}

ASSUME TimelineAssumption ==
  /\ Kinds \subseteq PlatformKinds
  /\ Sessions \subseteq {"locked", "disconnected", "unknown"}   \* never "sleep"
  /\ IdleThreshold \in Nat /\ MaxTime \in Nat /\ StartTime \in 0 .. MaxTime /\ MaxDelay \in Nat
  /\ StartTime > CheckpointInterval

VARIABLES
  engine,   \* IntervalEngine
  store,    \* the usage rows and UsagePersistenceState
  paused,   \* CollectorStatus.paused, what the user is shown
  gap,      \* recovery_barrier: "none", "after" queued events, or "before" them
  lastObs,  \* last_observation_ms
  process,  \* "running", "panicked" (the collector thread died) or "down"
  since,    \* when the process came up, or went down
  resumed,  \* history: when collection last (re)started; a Clear forgets it
  now,      \* the wall clock
  input     \* when the user last touched keyboard or mouse

vars == <<engine, store, paused, gap, lastObs, process, since, resumed, now, input>>
clock == <<now, input>>

Time == StartTime .. MaxTime
Boot == 0 .. MaxTime   \* 0 stands for a field that was never written

-----------------------------------------------------------------------------
(* apply_usage_event: preview the event, write its batch, commit both.     *)

Book == [engine |-> engine, store |-> store]

\* The writer would take the batch of event ev.
Fits(book, ev) == Accepted(book.store, Handle(book.engine, ev))

Applying(book, ev) ==
  LET w == Handle(book.engine, ev)
  IN [engine |-> Committed(w), store |-> Applied(book.store, w)]

Become(book) == engine' = book.engine /\ store' = book.store

\* The event is committed; its write may instead fail, which changes nothing.
Apply(ev) ==
  LET w == Handle(engine, ev)
  IN Accepted(store, w) /\ engine' = Committed(w) /\ store' = Applied(store, w)

-----------------------------------------------------------------------------
(* Platform events and the recovery gap.                                   *)

\* What capture_pending_platform_event may read from the operating system.
Foregrounds == App \union {None}
LiveState == IF now - input >= IdleThreshold THEN "idle" ELSE "active"
ObservableStates == {LiveState} \union Sessions

PlatformEvents ==
  LET Stamps == Later(since, now - MaxDelay) .. now
      Of(types, apps, states) ==
        {Event(t, at, a, s) : t \in Kinds \intersect types, at \in Stamps, a \in apps, s \in states}
  IN Of({"Foreground"}, App, {None})
     \union Of({"ForegroundUnavailable", "WindowsShutdown"} \union Excluding, {None}, {None})
     \union Of(Recovering, Foregrounds, ObservableStates)

\* The head of the pending queue is committed.  Nothing passes a "before" gap.
PlatformEvent ==
  /\ process = "running" /\ gap # "before"
  /\ \E ev \in PlatformEvents : Apply(ev)
  /\ UNCHANGED <<paused, gap, lastObs, process, since, resumed, clock>>

\* An observer lane overflowed: `after` the first lost sequence, or `before` all.
RequestRecovery ==
  /\ process = "running"
  /\ gap' \in IF gap = "before" THEN {"before"} ELSE {"after", "before"}
  /\ UNCHANGED <<engine, store, paused, lastObs, process, since, resumed, clock>>

RecordGap ==
  /\ process = "running" /\ gap # "none"
  /\ Apply(Event("ObserverGap", now, None, None))
  /\ gap' = "none"
  /\ UNCHANGED <<paused, lastObs, process, since, resumed, clock>>

-----------------------------------------------------------------------------
(* The heartbeat: when the user was last active, then a resync.            *)

Previous == IF lastObs = None THEN now ELSE lastObs

\* x.clamp(Previous, now); Rust panics when Previous > now.
Clamped(x) == Later(Previous, Earlier(x, now))

\* What the heartbeat says of the user before it resyncs.
Presence ==
  IF LiveState = "idle"
  THEN Event("IdleThresholdCrossed", Clamped(input + IdleThreshold), None, None)
  ELSE Event("UserActive", Clamped(input), None, None)

\* The book after the presence event, which only a live session has.
Probed(state) == IF state \in Live THEN Applying(Book, Presence) ELSE Book

HeartbeatDue == process = "running" /\ ~paused /\ gap = "none"

Heartbeat ==
  /\ HeartbeatDue
  /\ \E state \in ObservableStates, app \in Foregrounds :
       LET resync == Event("Resync", now, app, state)
       IN /\ state \in Live => Previous <= now /\ Fits(Book, Presence)
          /\ Fits(Probed(state), resync)
          /\ Become(Applying(Probed(state), resync))
  /\ lastObs' = now
  /\ UNCHANGED <<paused, gap, process, since, resumed, clock>>

\* Mutant of HeartbeatFails: memory is committed before the transaction.
HeartbeatFailsEagerly ==
  /\ HeartbeatDue
  /\ Previous <= now /\ engine' = Applying(Book, Presence).engine
  /\ gap' = "before"
  /\ UNCHANGED <<store, paused, lastObs, process, since, resumed, clock>>

\* One of the two writes fails; the one before it stays committed.
HeartbeatFails ==
  /\ HeartbeatDue
  /\ \/ Become(Book)
     \/ Previous <= now /\ Fits(Book, Presence) /\ Become(Applying(Book, Presence))
  /\ gap' = "before"
  /\ UNCHANGED <<paused, lastObs, process, since, resumed, clock>>

\* run_collector's locals are gone; the rows stay.
Forget == engine' = NewEngine /\ gap' = "none" /\ lastObs' = None

\* The clock went back past the last heartbeat: clamp's assertion fails.
HeartbeatPanics ==
  /\ HeartbeatDue /\ Previous > now
  /\ process' = "panicked" /\ Forget
  /\ UNCHANGED <<store, paused, since, resumed, clock>>

-----------------------------------------------------------------------------
(* Controls.  Each waits until no platform work is pending.                *)

ControlReady == process = "running" /\ gap = "none"

Stop(type) == Event(type, now, None, None)

\* The flag changes whether or not the write succeeds.
Pause ==
  /\ ControlReady
  /\ Apply(Stop("Pause")) \/ Become(Book)
  /\ paused' = TRUE
  /\ UNCHANGED <<gap, lastObs, process, since, resumed, clock>>

Resume ==
  /\ ControlReady
  /\ \/ /\ \E state \in ObservableStates, app \in Foregrounds :
             Apply(Event("ResumeCollection", now, app, state))
        /\ resumed' = IF engine.paused THEN now ELSE resumed
     \/ Become(Book) /\ UNCHANGED resumed
  /\ paused' = FALSE /\ lastObs' = now
  /\ UNCHANGED <<gap, process, since, clock>>

\* Clear seals the intervals, deletes, then starts from a fresh engine.
Clear ==
  /\ ControlReady
  /\ Fits(Book, Stop("Pause"))
  /\ engine' = NewEngine
  /\ store' = Cleared(Applying(Book, Stop("Pause")).store)
  /\ lastObs' = None /\ resumed' = since
  /\ UNCHANGED <<paused, gap, process, since, clock>>

\* The deletion is refused (a retention hold) or fails after the pause.
ClearRefused ==
  /\ ControlReady
  /\ Apply(Stop("Pause"))
  /\ UNCHANGED <<paused, gap, lastObs, process, since, resumed, clock>>

-----------------------------------------------------------------------------
(* The process.                                                            *)

Exit ==
  /\ Forget /\ paused' = FALSE
  /\ process' = "down" /\ since' = now
  /\ UNCHANGED <<resumed, clock>>

\* A shutdown past its deadline, or with work pending, skips the boundary.
Shutdown ==
  /\ process = "running"
  /\ LET boundary == Stop("Shutdown")
     IN \/ gap = "none" /\ Fits(Book, boundary) /\ store' = Applying(Book, boundary).store
        \/ UNCHANGED store
  /\ Exit

Crash ==
  /\ process # "down"
  /\ UNCHANGED store
  /\ Exit

\* Database::open recovers what was left open; the collector starts afresh.
Start ==
  /\ process = "down"
  /\ store' = Recovered(store, now)
  /\ process' = "running" /\ since' = now /\ resumed' = now
  /\ UNCHANGED <<engine, paused, gap, lastObs, clock>>

-----------------------------------------------------------------------------
(* The environment.                                                        *)

\* Time passes, and the user is at the keyboard at the end of it or not.
Tick ==
  /\ now < MaxTime
  /\ now' = now + 1
  /\ input' \in {input, now'}
  /\ UNCHANGED <<engine, store, paused, gap, lastObs, process, since, resumed>>

\* The wall clock is set back; idle time is measured on another clock
\* (and is cut off at StartTime, a bound).
ClockStepsBack ==
  /\ now' \in {t \in Time : t < now}
  /\ input' = Later(StartTime, input - (now - now'))
  /\ UNCHANGED <<engine, store, paused, gap, lastObs, process, since, resumed>>

Init ==
  /\ engine = NewEngine
  /\ store = [EmptyStore EXCEPT !.heartbeat = StartTime]
  /\ paused = FALSE /\ gap = "none" /\ lastObs = None
  /\ process = "running" /\ since = StartTime /\ resumed = StartTime
  /\ now = StartTime /\ input = StartTime

Next ==
  \/ PlatformEvent \/ RequestRecovery \/ RecordGap
  \/ Heartbeat \/ HeartbeatFails
  \/ Pause \/ Resume \/ Clear \/ ClearRefused
  \/ Shutdown \/ Crash \/ Start
  \/ Tick

Spec == Init /\ [][Next]_vars

\* The same system on a machine whose wall clock may be set back.
NextWithClockSteps == Next \/ HeartbeatPanics \/ ClockStepsBack

SpecWithClockSteps == Init /\ [][NextWithClockSteps]_vars

-----------------------------------------------------------------------------
(* What must hold.                                                         *)

OpenIntervals(V) == [on : {TRUE}, value : V, seen : Time] \union {NoInterval}
OpenRows(V) == [on : {TRUE}, value : V, start : Time, seen : Time] \union {NoRow}

\* The type invariant: the shapes run_collector keeps in its locals and in
\* the usage tables.
TypeOK ==
  /\ engine \in [fg : OpenIntervals(App), st : OpenIntervals(ComputerState),
                 last : Time \union {None}, paused : BOOLEAN]
  /\ store \in [fg : OpenRows(App), st : OpenRows(ComputerState),
                fgEnd : Boot, stEnd : Boot, fgCp : Boot, stCp : Boot, heartbeat : Boot]
  /\ paused \in BOOLEAN
  /\ gap \in {"none", "after", "before"}
  /\ lastObs \in Time \union {None}
  /\ process \in {"running", "panicked", "down"}
  /\ since \in Time /\ resumed \in Time /\ now \in Time
  /\ input \in Time

\* While the collector runs, what the engine believes is open is what the
\* database has open, and the row never claims more than the engine has seen.
\* apply_usage_event keeps this by committing memory after the transaction.
AxisMatches(interval, row) ==
  /\ interval.on = row.on
  /\ interval.value = row.value
  /\ row.start <= interval.seen /\ row.seen <= interval.seen

MemoryMatchesRows ==
  process = "running" => AxisMatches(engine.fg, store.fg) /\ AxisMatches(engine.st, store.st)

\* The writer never refuses the batch of an event that can be delivered: a
\* refused head of the queue is retried for ever and everything waits on it.
HeadIsNeverRefused ==
  process = "running" => \A ev \in PlatformEvents : Fits(Book, ev)

\* A paused engine keeps no interval open: no time is booked while collection
\* is stopped.
PausedEngineIsSealed ==
  process = "running" /\ engine.paused => ~store.fg.on /\ ~store.st.on

\* The open foreground row began no earlier than collection last (re)started:
\* an event stamped during a pause or before a restart backfills nothing.
NotBackfilled ==
  process = "running" /\ store.fg.on => store.fg.start >= resumed

\* Foreground rows are disjoint: the open one starts after every closed one.
ForegroundNeverOverlaps == store.fg.on => store.fg.start >= store.fgEnd

\* The same for computer state.
StateNeverOverlaps == store.st.on => store.st.start >= store.stEnd

\* An exclusion (lock, sleep, disconnect) or unknown state leaves no
\* foreground row open to count the excluded time.
ExclusionSealsForeground ==
  process = "running" /\ store.st.on /\ store.st.value \notin Live => ~store.fg.on

\* A crash loses less than one checkpoint interval: the database never lags
\* further behind what the engine has seen open.
CrashLosesLittle ==
  process = "running" =>
    /\ engine.fg.on => engine.fg.seen - store.fg.seen < CheckpointInterval
    /\ engine.st.on => engine.st.seen - store.heartbeat < CheckpointInterval

\* Startup recovery seals the intervals of the last process no later than that
\* process stopped: downtime is never counted.
DowntimeNeverCounted ==
  [][process = "down" /\ process' = "running"
       => store'.fgEnd <= since /\ store'.stEnd <= since]_vars

\* The foreground rows keep the promises of a time axis.
Foreground == INSTANCE IntervalAxis WITH row <- store.fg, end <- store.fgEnd
ForegroundIsAnAxis == Foreground!AxisSpec

\* An idle or active transition never splits the foreground interval: a row
\* of the same application is not closed and reopened in one heartbeat, unless
\* the heartbeat comes after a silence long enough to be a clock gap.
IdleNeverSplitsForeground ==
  [][store.fg.on /\ store'.fg.on /\ store'.fg.value = store.fg.value
       /\ (engine.last = None \/ now - engine.last <= GapThreshold)
       => store'.fg.start = store.fg.start]_vars

\* Collection that is not shown as paused is collecting.
RunningMeansCollecting == process = "running" /\ ~paused => ~engine.paused
=============================================================================
