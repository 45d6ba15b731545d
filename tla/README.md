# Verification of the collector

TLA+ models of the background process of *win-resources-timeline*: how Windows notifications become foreground and
computer-state intervals in SQLite, how metric providers are driven, how snapshots are queued, written and rolled up,
and how crashes of the machine are found in the event log; through bounded queues, retries, late answers, failed
writes, pauses, clears, shutdowns, crashes and restarts. TLC checks the models on small instances; TLAPS proves the
theorems listed below for every value of the constants.
All paths below are relative to the repository; `…/` stands for `src-tauri/src/`.

## 1. The system

| Component | State it keeps | Operations | Talks to | Hard behaviour | What makes it correct |
|---|---|---|---|---|---|
| Observer thread (`…/platform/windows/session.rs`, `foreground.rs`) | lane senders, a fallback queue, two flags and two sequence atomics | stamp, send, fall back, mark dirty or overflowed | the lanes and atomics read by the collector | two threads, lock-free flags, bounded lanes | no event in two places, no loss unannounced |
| Pending queue (`…/collector/manager.rs`, `PendingPlatformEvents`) | sorted queue, last applied sequence, recovery barrier, retry target and time | enqueue, merge a barrier, pick the head, drop stale, retry, record a gap | interval engine, writer | late, lost and retried events; queue at its limit | order, no orphaned retry, it settles |
| Interval engine (`…/collector/interval_engine.rs`) | the open foreground, the open computer state, last event time, paused | one handler per usage event, yields write actions | its batch goes to the writer | inverted and delayed timestamps, gaps, priorities of states | a batch the writer accepts; no time invented or double-booked |
| Usage persistence (`…/db/writer.rs`, `…/db/mod.rs`) | rows with an open end, their ids and last checkpoints, the heartbeat setting | apply a batch in one transaction, recover open intervals, start a session, clear | SQLite | crash between checkpoints, refused batch, refused clear | memory and rows agree; recovery counts no downtime |
| Collector loop (`run_collector`) | all of the above as locals, the status shown to the user | drain events, gap, heartbeat, pause, resume, clear, settings, shutdown | everything | partial failure, control order, clock steps | what is shown is what happens |
| Metric providers (`…/collector/provider.rs`) | per provider a worker thread, one pending call, a runtime; the desired and the effective plan | probe, start, reconfigure, sample, stop; pause, resume, new plan, shutdown | worker channels, with a deadline per call | answers after the deadline, loops that re-enter each other, dead workers | one call at a time, the user's intent wins, nobody is stranded |
| Frame writer (`FrameWriter` in `…/db/writer.rs`) | bounded queue with attempts and backoff, health | enqueue, write the head, flush, flush until a deadline, discard | SQLite | retry and eviction, deadline | every frame accounted for, order |
| Process rollups (`…/db/rollup.rs`) | two checkpoint settings, rows per minute, hour and day | a slice of minutes, hours and days that may stop anywhere | frames and rows | separate transactions, late frames, a slice broken off | a checkpoint passes nothing |
| Daily usage rollup (`DailyRollupScheduler`, `rebuild_daily_usage`) | dirty range, due and last-run times | mark, take when due, requeue | usage rows | debounce and rate limit, failed run, restart | no dirty day is forgotten |
| Shutdown, clear, collection sessions (`run_collector`) | the runtime session row | six steps against one deadline; open on demand, close | all of the above | any step fails | a reply of ok means it is done |
| Crash detector (`…/crash.rs`) | cursor, events, cases, holds | read a page, classify it in its context, build evidence, rebuild, release, prune | event log, SQLite | restart between pages, evidence that arrives late or moves the anchor | one case per crash, its evidence held and summed up |
| Boot identity, schema, queries, commands, tray, frontend, tools | | | | little, or no control | |

An event travels: Windows callback → stamp with a process-wide sequence number → lane (or fallback, or a lost-event
mark) → pending queue → captured and prepared (application and session state are read *now*) → interval engine
previews the batch → one SQLite transaction → memory is replaced. Heartbeats and controls run only when nothing is
pending. A snapshot travels: providers are sampled through their workers → `FrameWriter` queue → one transaction per
frame → minute, hour and day rows. The crash detector is a thread of its own that shares only the database.

## 2. Modules

| Module | Models | State and actions against the code |
|---|---|---|
| `IntervalEngine` | `interval_engine.rs`, as pure operators | A record for `IntervalEngine`; `Handle` is `handle`, one operator per handler. The list of actions is one batch per axis: at most one Close, then at most one Start or Checkpoint. |
| `UsageStore` | `apply_usage_actions`, `recover_open_intervals`, `start_runtime_session`'s heartbeat, `clear_collected_data` | A record for the open rows, the latest closed end of each table, the checkpoint times and the heartbeat setting. `Accepted` is the absence of every `usage_state_error`. |
| `UsageTimeline` | the usage side of `run_collector` over both | One action per branch: `PlatformEvent`, `RecordGap`, `Heartbeat`, `HeartbeatFails`, `Pause`, `Resume`, `Clear`, `ClearRefused`, `Shutdown`, `Crash`, `Start`; `HeartbeatPanics` and `ClockStepsBack` in `SpecWithClockSteps`. |
| `IntervalAxis` | nothing in the code: the promise of one time axis | The abstract specification `UsageTimeline` implements with `row <- store.fg, end <- store.fgEnd`. |
| `PlatformPipeline` | observer thread, lanes, atomics, `take_recovery`, `collect_platform_events`, `PendingPlatformEvents`, the drain loop | `sending` is the observer's program counter, `pc` the collector's; one action per channel or atomic operation. `fate` and `uncovered` are history variables. |
| `ProviderHost` | `ProviderHost`, `ProviderExecutor`, `provider_worker`, `call_with_context`, and the `MetricProvider` contract behind them | `agenda` is the host's call stack: a step per call the code is inside or has still to make, since an answer can change the plan, which is applied in the middle of the loop that received the answer. One action per kind of step; sending and awaiting an answer are two, with the worker between them. |
| `FrameWriter` | `FrameWriter`, as pure operators | A record of the queue, whether its head is in backoff, and the drop count. |
| `ProcessRollup` | a slice of `rollup.rs`, as pure operators | A record of what each layer counts and of both checkpoints; `Slices` is every point at which a slice may stop. |
| `Upkeep` | what `run_collector` does with frames, rollups, daily usage and collection sessions | One action per operation of the loop. `Shutdown` is the whole handler, with a choice at each of its steps; `late` and `tardy` name what the code knowingly lets through (section 5). |
| `CrashLog` | the pure half of `crash.rs`: episodes, anchors, correlation, keys | Operators over sets of events. |
| `CrashDetector` | the rest of `crash.rs`, on a machine that breaks off and boots again | The machine writes the log; `scan` is the thread's place in its round. A released hold stays in its table, inactive, as its row does. One action per transaction of the detector. `linked` is history. |
| `MCUsageTimeline`, `MCUsageEvents`, `MCPlatformPipeline`, `MCProviderHost`, `MCUpkeep`, `MCCrashDetector` | | instances for TLC |
| `IntervalEngine_proofs`, `UsageTimeline_proofs`, `PlatformPipeline_proofs`, `Upkeep_proofs`, `CrashDetector_proofs` | | theorems and their proofs |
| `ProviderHost_proofs`, `ProviderIntent_proofs`, `ProviderRuns_proofs` | | the proofs about `ProviderHost`, each module on the one before: types, calls and plans; what is not wanted does not run; what is wanted runs, and runs its plan |

`UsageTimeline` and `PlatformPipeline` meet at the head of the pending queue. The pipeline decides which event comes
next, or that a gap does; the timeline takes any event a Windows machine may have sent up to `MaxDelay` ago, and any
recovery request. That is more behaviour than the composition has, so what holds of `UsageTimeline` holds of both.
`Upkeep` composes `FrameWriter` and `ProcessRollup`; its samples and usage changes come at any time, which is more
than what providers and the timeline produce. `ProviderHost` takes any request at any time its loop is free.

What the modelling leaves out, on purpose:

- text: reasons, sources and qualities in rows, log lines, error messages;
- the two event types only tests construct (`ComputerState`, `Heartbeat`; both `allow(dead_code)`);
- boot-session rows, so also the mark a Windows shutdown leaves in them;
- the FIFO order inside a lane: the observer is one thread, sequence numbers grow, and a lane is the set of them;
- controls in the channel that normal events share, in `PlatformPipeline`;
- in `ClockStepsBack`, input older than `StartTime` is cut off at it;
- in `ProviderHost`: sampling intervals, lengths of backoff, failure counters, metadata. Generations are only compared
  with the one outstanding call, so a call carries "stale" and "accounted" instead;
- in `Upkeep` and below it: what a row sums up. A row stands for the frames it counts;
- in `CrashLog` and `CrashDetector`: `AbnormalRestart` (the native reader never makes one), `boot_id` (production
  events carry none), events that cannot be rendered, the limit of 4096 events in a context and the seven days of the
  first lookback (both out of reach of small instances), and `DetectorState`'s status text. The log is in the order of
  its times, record ids compare as numbers, a frame covers one unit of time, the pre-crash windows are collapsed to the
  narrowest, and keys without a boot compare equal anchors (their tolerance of 5 s is less than a unit).

## 3. Runs

| Run | Checks | Shows |
|---|---|---|
| `usage_lifecycle` | `NotBackfilled`, `CrashLosesLittle`, `DowntimeNeverCounted`, `ForegroundIsAnAxis` | Pauses, clears, failures, crashes and restarts over two applications: nothing backfilled, little lost, no downtime counted, and the foreground table refines `IntervalAxis`. |
| `usage_events` | `TypeOK`, `HeadIsNeverRefused`, `PausedEngineIsSealed`, `MemoryMatchesRows` | The writer accepts every deliverable event, a paused engine keeps nothing open, and memory and rows never part, also when the wall clock is set back. |
| `pipeline` | `TypeOK`, `RetryIsNeverOrphaned`, `EveryEventInOnePlace`, `LossIsNeverForgotten`, `AppliedInOrder`, `SettlesAgainAndAgain` | Two threads at every atomic step, with every lane overflowing and writes failing. |
| `providers` | `TypeOK`, `NeverStranded`, `PlansAgree`, `IntentWins`, `RunsItsPlan`, `OneCallAtATime` | Every operation of a provider may outlive its deadline and answer at any later moment, between new settings, pauses, resumes and a shutdown. |
| `providers_live` | `HostReturns`, `WantedRuns` | The nested loops end, also with a worker that dies or a probe that answers late; a provider that stays wanted runs again and again. |
| `upkeep` | `TypeOK`, `EveryFrameIsAccountedFor`, `CommittedInOrder`, `NothingIsSkipped`, `StaleDaysAreDirty`, `OkShutdownFinishes`, `QueueDrains`, `StaleDaysAreRebuilt` | Frames and daily usage through failed writes, slices broken off, clears, partly failed shutdowns, crashes and restarts. |
| `crashes` | `TypeOK`, `NoCrashIsMissed`, `OneCasePerCrash`, `HeldEvidenceStays`, `CasesSettle` | Two crashes of a machine, read in pages of one event, with a late WER report, restarts of the application, failed reads and builds, pruning, releases and rebuilds. |
| `usage_idle_split`, `usage_refused_clear`, `usage_exclusion`, `usage_state_overlap`, `pipeline_gap_order` | one documented promise each | the code breaks it (section 5) |

**Bounds.** Times are ticks.

- *Usage.* `GapThreshold` 1, `CheckpointInterval` 2 and `IdleThreshold` 2 over three clock values from `StartTime` 3
  leave room for a gap, a due checkpoint and an idle user in one behaviour; `MaxDelay` 1 delivers an event after one
  stamped later; `StartTime` is above `CheckpointInterval` as the epoch is above five seconds. `Kinds` and `Sessions`
  choose what a run may deliver: `usage_lifecycle` keeps to a foreground change and a lock so that the second
  application and symmetry fit; `usage_events` runs either a steady clock with a foreground change, a suspend and a
  Windows shutdown, or a clock that is also set back, with a nearer horizon and one event of every handler (lock and
  disconnect are handled as suspend is, resume and connect as unlock is).
- *Pipeline.* The lanes hold one event each, the pending queue two, and there are four notifications: the critical
  lane and its fallback overflow, and so does the pending queue.
- *Providers.* `providers` has one provider with two categories, so that plans differ, shrink and are disabled, and
  either all operations but the probe, or only the starts, may be late together. `providers_live` has one category and adds late
  probes and a worker that may die. `IntentWins`, `NeverStranded` and `WantedRuns` speak of behaviours in which probes
  are in time, `RunsItsPlan` of those in which samples are too: otherwise they are false (section 5). The program has two
  providers (`manager.rs:497-500`), which is beyond TLC within minutes: `NeverStranded`, `IntentWins`, `PlansAgree` and
  `OneCallAtATime` are stated, and proved, for any number. With two, the host's loops nest across providers, and the
  outer one overwrites a newer plan of the second. `RunsItsPlan` and the clauses about retries in `IntentWins` and about
  the runtimes' plans in `PlansAgree` are then false and say `Alone`: they hold of the one provider the run has.
- *Upkeep.* A queue of 2 and one retry evict and overflow; hours of 2 and days of 4 minutes over a clock of 4 (or 8)
  cross both boundaries; a batch of 2 is filled by a backlog of 3. The loads are three
  frames in one run of the process; two frames and a restart; a frame, a usage change and a restart; and three usage
  changes over several days with a restart.
- *Crashes.* The correlation window is 2 units, the pre-crash window 2, the post-crash one 1; a page holds one event,
  so every two records of one crash are split; only the newest case is held, and retention keeps nothing unheld.
  After a crash the log says so before the boot record, after it, or on both sides, and a WER report may follow.
  Boots may be 2 or 3 units apart: `OneCasePerCrash` is checked of both, `NoCrashIsMissed` speaks of the latter
  (`Apart`).

**Fairness.**

- `PlatformPipeline`: both threads are scheduled (`WF` of `Send` and of `Collector`) and a backoff ends (`WF`).
  `ApplyEvent`, `RecordGap` and `Heartbeat` are strongly fair: each is tried again and again every 50 ms against
  SQLite, and the claim is that the pipeline settles *if* the database does not fail for ever. Nothing obliges Windows
  to send anything.
- `ProviderHost`: the host's thread and the workers are scheduled (`WF`), a deadline passes, a retry falls due (`SF`:
  the loop looks at the clock only when it is free), and the collector samples again and again whatever else it does
  (`SF` of `SampleDue`). `WantedRuns` further assumes `StartsSucceed`: a start that is tried for ever is called in
  time and succeeds some time. No other call need ever succeed.
- `Upkeep`: while the process runs, its loop comes round: the head of the queue is tried, the timers run out (`WF`),
  and a rebuild that is retried for ever does not fail each time (`SF`). A write may fail for ever: `QueueDrains` holds
  because of eviction.
- `CrashDetector`: the thread begins its next round (`WF`), and neither the log nor the database fails each time
  (`SF` of the steps that move the cursor, catch up and build).
- `UsageTimeline` has only safety properties and no fairness.

## 4. Proofs

The eight proof modules are checked by `tlapm` with no omitted step. Constants are constrained only by the named
assumptions of the modules (`NoneAssumption`, `GapAssumption`, `CheckpointAssumption`, `TimelineAssumption`,
`CapAssumption`, `NameAssumption`, `WriterAssumption`, `RollupAssumption`, `LoadAssumption`, `ProvidersAssumption`,
`SlowAssumption`, `MortalAssumption`, `UnsetAssumption`, `CrashAssumption`), which TLC evaluates in the runs.

**Pipeline.** The inductive invariant is `TypeOK ∧ RetryIsNeverOrphaned ∧ AppliedIsOld ∧ OverflowInHand ∧
LossIsNeverForgotten`. `LossIsNeverForgotten` alone is not inductive: when the fallback queue is taken, `taken` is
overwritten, and only `OverflowInHand` says that it then holds no overflow. `RetryIsNeverOrphaned` needs the freshness
of its target, else `DropStale` would remove it. `AppliedIsOld` (nothing applied is newer than the last applied
sequence) turns `is_stale` into order: with it, `AppliedInOrder` follows from one lemma about what a step may apply
(`AppliedStep`). `EveryEventInOnePlace` is a second induction (`Placed`): each step moves an event from one place to one other.

**Engine.** `HandleReaches` is about one event: whatever the engine and the event, each axis comes out untouched or
sealed, newly started, or confirmed, and its batch is the one the writer can take for what was open. It is proved by
following each axis through the handlers; the timeline's proofs cite it instead of opening `Handle` again.

**Timeline.** The inductive invariant is `TypeOK`, that a running collector has a sound book (memory and rows agree on
each axis, a paused engine has nothing open, checkpoints and times are in range), and that a collector that is not
running has a new engine. From it: `MemoryMatchesRows` even under clock steps, `HeadIsNeverRefused` and
`PausedEngineIsSealed`.

**Times.** The second half of `UsageTimeline_proofs` adds what the book's times are bounded by. Their base is the last event's time, or the
start of the session; everything in the book lies at or before it, and every event is applied at an effective time at
or after it, starts and confirms there, and closes no earlier than its row was last seen. The exception is
`WindowsShutdown`, which uses its raw time. From this follow `NotBackfilled`, `DowntimeNeverCounted` and, with a lag
that ties what memory has seen to the last checkpoint in the database, `CrashLosesLittle`. The step of the refinement,
`ForegroundImplementsAxis`, assumes that no `WindowsShutdown` is delivered; TLC finds the refinement broken with one.

**Upkeep.** The inductive invariant is `Counters ∧ Stores ∧ Sessions ∧ Calendar ∧ EveryFrameIsAccountedFor`. The queue
is ordered and newer than everything committed, hence `CommittedInOrder`. A slice takes the oldest minutes up to its
limit and may stop after any of them, so the minute checkpoint passes nothing. Every mark covers the days it touches,
the first mark after a start covers the days left from before, and at most the last session is open: with these come
`StaleDaysAreDirty` and `OkShutdownFinishes`. The last part of the module does the hours: the rows count committed frames,
`tardy` has what the hours may have missed, and a backlog that is not cut off at `Batch` hours leaves nothing below
the last checkpointed hour out; with the minute half that is `NothingIsSkipped`.

**Providers.** The call stack is typed first: whatever answers arrive, only its innermost step can be one that sends or
awaits a call. With that, the invariant `Accounted` is that a call on its way is the one the innermost step waits for,
or one noted as pending; a sender has checked the latter and excludes the former, so the worker is idle:
`CallsAreNeverStacked`. The loops over the providers are functions on an index, so that no induction is needed to say
what is in them.

*Plans.* `plan` lags behind what the wishes and the capabilities give whenever an answer brings news. `PlanInHand` says
that the innermost step is then one that makes it agree, and that a start, whose answer may bring
news, has a `sync` next on the stack. With an empty stack there is no such step, hence the first half of `PlansComeBack`. The second half needs
that a plan once set is never unset (`Chosen`) and that a single provider is on its plan except while the step that
brings it there is innermost (`OnPlan`). Both speak of steps anywhere on the stack; `Begets` bounds what a step may
leave there.

*Intent.* `Intent` ties `started`, the life cycle and the pending call of a provider to each other (`Fits`) and says
that a provider which runs against the user's intent with its worker free has a step on the stack that stops it
(`Owed`). A late start that succeeds is the case it is for: `reconcile_completion` compares it with the intent of now
and leaves a clean-up. This holds for any number of providers. The clause about retries needs one more invariant
(`Cleared`: a retry that is not wanted has on the stack what clears it), and for it the order in which the loops of a
single provider nest (`Nested`). Together they give `WhatIsWantedWins`.

*Progress made safe.* `NobodyIsForgotten` is the safety half of "a wanted provider runs", for any number of providers.
Its heart is that a plan which wants a provider has reached the provider's runtime or is being carried there by a step
on the stack (`Carried`), and that the provider then runs, has a retry or a call, or has a step on the stack that will
start it (`Cared`). Both must survive the loops of one provider nesting inside those of another, where the outer loop
goes on with the older plan. `Ended` says why that does no harm: while a step that ends a provider is anywhere on the
stack, the user wants nothing of it, so an outer plan that is older may want less of a provider but not nothing. It
rests on the order in which loops nest (`Layered`: no probe and no stop waits above an application, and none that would
start a provider above a step that will end it, `Ends`) and on what answers may say: of a provider whose plan is off the
host never learns that it supports more, because its call is of an earlier intent (`Informed`, `Applied`). `Poised` is
what the step at the head, a late answer, an attempt or a stop, may rely on. All of these were checked by TLC with two
providers, in breadth over more than thirty million states and in random runs, before they were proved.

**Crash detector.** `DetectorTypes` has two parts that are not obvious. That the pure half yields well-formed crashes
crosses two recursions over data, the merging of candidates event by event and the filing of crashes one by one. The
library's induction theorems take an operator as a parameter, which the provers cannot instantiate, so each is proved by a least counterexample: of the arguments at
which the recursive function is not well typed, one that is smallest under inclusion or as a number, whose predecessor
is then well typed. That at most `Limit` holds are active after a case was filed is a fact about orders: of a finite set
under a strict total order, those with fewer than `Limit` elements before them are at most `Limit` (`FewBefore`).
`EvidenceIsHeld` rests on `Following`: the window of every active hold is around the anchor its case has now. Filing
moves both in one transaction (`create_case_and_hold_tx`), and neither changes elsewhere; the guards of pruning and
clearing speak of the holds, the property of the cases.

*Which crash.* `Facts` is a second inductive invariant, in four parts. `BootsOK` orders the boots and the times runs
broke off between them. `LogOK` puts every record in its boot (`Entry`): a startup record at the start, a crash record
only after a run that broke off, a shutdown only where the next boot knows of no crash. `SessionsOK` gives every boot
the application ran in one session, begun while it ran. `LinksOK` says that an event is read only when the session of
the running boot is there, so that no session of its own boot can come after it; hence an event that can be placed
always goes into the case of that session, whatever else is nearby. `EveryCrashIsOneCase` follows, for boots of any
length: `OneCasePerCrash` needs no spacing.

*No crash missed.* `ReadOK` adds that the cursor stands on an event of the log, that what is stored is exactly the
prefix it has passed, and `NoCrashIsMissed` itself. A page extends the prefix (`PageIsNext`), and everything logged at
the time of one of its events is in its context (`ContextHas`): so is a crash whose boot record fell into a later page.
What is left is that the pure half makes a candidate of it (`CrashHasCandidate`). If the boots are apart, the reboot a
startup record is taken to belong to is its own boot or the one before (`EpisodeOfReboot`; the latter if the
application began late in it and not at all after), whichever of the four anchors it gets lies after the end of the
last orderly run before that reboot (`NoShutdownBefore`), and so no shutdown hides it. Without `Apart` that fails, and
the code misses a crash (section 5).

`CrashAssumption` types the constants; it says that there is room for a page and for a hold, that the window in which a
boot record matches a session is at most the correlation window (`crash.rs:20` and `:23`: 30 and 5 minutes), and that
`None` is neither a cursor nor a key. All of `Facts` and `ReadOK` was checked by TLC before it was proved.

**Only model-checked.** All liveness (`SettlesAgainAndAgain`, `HostReturns`, `WantedRuns`, `QueueDrains`,
`StaleDaysAreRebuilt`, `CasesSettle`): the provers do not handle `ENABLED`. So is `RunsItsPlan`: it holds of one
provider with probes and samples in time, and as the program has two, a theorem that assumes one would say nothing of
it. Every other safety property of a passing run is a theorem, `ForegroundIsAnAxis` as the step of a refinement.

## 5. Where the code departs from its documents

Shown by a run:

1. `usage_idle_split`: the heartbeat reports the last input at a time that may lie before an event applied since the
   last heartbeat (`manager.rs:921-929`); the engine treats that inversion as a clock gap (`interval_engine.rs:312`)
   and splits the foreground row. `docs/upgrade/architecture.md:87` excludes that.
2. `usage_refused_clear`: a clear refused by a retention hold has paused the engine already (`manager.rs:780`) while
   the status shows a running collector.
3. `usage_exclusion`: an unlock, resume or connect event captures the session state when it is prepared; if the session
   is locked again by then, the exclusion opens and the foreground row stays open (`interval_engine.rs:466-476`).
   `resync` closes it in the same situation.
4. `usage_state_overlap`: a recovery gap opens `unknown` before the end of the computer-state row it closes
   (`interval_engine.rs:511-530`).
5. `pipeline_gap_order`: an overflow between `take_observer_recovery` and `collect_platform_events` becomes a gap only
   after a later critical event was applied (`manager.rs:532-551`).

Met while modelling, without a run of their own. The properties above are stated so that they hold in spite of these,
and each says so where it makes an exception.

- *Usage.* A wall clock set back below the last heartbeat makes `clamp` panic and ends the collector thread
  (`manager.rs:924`; `HeartbeatPanics`). `WindowsShutdown` uses its raw timestamp (`interval_engine.rs:281`) and can
  close a foreground row before it was last seen. A clear while paused leaves a fresh, unpaused engine under a status that
  says paused. A pause or resume whose write fails still changes the status. An event in the fallback queue may be
  overtaken by one from the lane and dropped as stale (counted as `stale` in the pipeline). `idle_for_ms` subtracts a
  32-bit tick from a 64-bit one (`activity.rs:53`).
- *Providers.* With two providers, an answer to the second that changes the plan while the loop applies an older one is
  applied in a nested loop and then overwritten by the outer one (`provider.rs:1393`): the second ends up on an older set
  of categories than the host announces, though never switched off (`NobodyIsForgotten`), and a start the outer loop
  sends for it may set up other categories than its runtime notes. A probe that answers late can leave a provider
  enabled, not started and with no retry (`provider.rs:1403`); and when its answer brings no news it leaves a disabled
  provider running, since only changed capabilities make the host look at what is left to clean up
  (`provider.rs:1302-1311`), where `docs/upgrade/architecture.md:110` and `docs/upgrade/collection-policy.md:73` have it
  stopped and its resources released. A plan that changed while a timed-out sample was outstanding
  is never applied to the running provider (`provider.rs:1469`). A stop that timed out is counted as a failure once
  more when its late answer is the timeout itself (`provider.rs:1261`, against the comment at `:730`). `docs/` promises
  otherwise on the first two (`docs/upgrade/architecture.md:109`, `docs/upgrade/collection-policy.md:107-108`).
- *Rollups.* An hour is checkpointed with only the first full batch of its backlog (`rollup.rs:107-116`; the frames are
  in `tardy`). A frame committed after its minute was checkpointed is in no row (`late`). With more hours waiting than
  a batch and slices broken off one after another, an hour in the middle is passed and never rebuilt: `NoHourIsSkipped`
  excludes that backlog. A daily row whose rebuild fails in the slice that closes the last hour of its date is not rebuilt.
- *Scheduler.* A day dirty at a crash is not rebuilt if the process stays down for more than a day.
- *Shutdown and clear.* The last metadata sync (`manager.rs:1008-1012`) may open a new collection session after the
  final close. `discard_for_explicit_clear` drops the queued frames even if the clear is then refused.
- *Crash detector.* A crash can be missed when boots follow one another within 30 minutes, where
  `docs/upgrade/crash-detection.md:8` has evidence of a crash make a case. A crash logged in a boot the application did
  not run in is taken to the nearest boot session in that window, also when that is the session of the boot that crashed
  (`crash.rs:575-615`, `:653-702`). Without a time of its own it is dated to the last observation before that session
  (`crash.rs:857-879`), and the orderly shutdown between the two drops it (`crash.rs:501-518`): boot 1 ends in order,
  boot 2 breaks off, boot 3 logs that and ends before the application runs, boot 4 reads it and makes no case. TLC
  finds this violation of `EvidenceMakesACase` with `Correlation` and `Pre` 3, `Page` 2, a crash record and a boot
  record at each start after a crash, and a load of four boots, no frames and no events until time 7; `NoCrashIsMissed`
  excludes it (`Apart`), as do its theorem and the run. One crash makes two cases when the application did not run in that boot and a page ends between
  6008 or 41 and the boot record. Two crashes within the correlation window become one case when the application did
  not run in between. A WER record written after that window, and followed by another crash within it, goes to the
  newer crash. An event logged before the cursor (a clock set back) is never read, and such a clock can make an orderly
  shutdown suppress a crash. A build that failed is not retried unless asked to, and a case older than the newest ten
  loses its hold at once, so its build fails for ever.

## 6. Not modelled, and the plan

Not modelled: the Windows baseline sampler and the NVIDIA and AMD adapters (foreign functions and parsing: what they
may answer is the environment of `ProviderHost`), the process selector and the queries (pure data), schema migration
(SQL text), commands, tray and frontend (thin over controls that are modelled at the collector's end), the
measurement tools (separate programs), and the tick arithmetic of `activity.rs` (one subtraction; a model would only
restate it). Most lines of the repository are of these kinds, which is why the models stand for a small share of its
lines.

Done: everything in section 2. Next, most important first:

1. Boot identity and the reconciliation of boot sessions, with the mark a Windows shutdown leaves, under
   `UsageTimeline` and `CrashDetector`, which both take boots as given.
2. The process selector against a reference definition over small sets of processes.
