------------------------- MODULE UsageTimeline_proofs -------------------------
(***************************************************************************)
(* What TLAPS proves of UsageTimeline for every set of applications, every *)
(* threshold and every length of the clock, with or without the clock      *)
(* being set back: the types, that memory and rows agree while the         *)
(* collector runs, and what follows from it.                               *)
(*                                                                         *)
(* The argument goes through IntervalEngine_proofs!HandleReaches: an event *)
(* leaves each axis in one of four ways, and the writer accepts each of    *)
(* them when the row matches the interval (AxisApplied).  Every action but *)
(* startup then commits such a batch or nothing.                           *)
(***************************************************************************)
EXTENDS UsageTimeline, IntervalEngine_proofs

Stores ==
  [fg : OpenRows(App), st : OpenRows(ComputerState),
   fgEnd : Boot, stEnd : Boot, fgCp : Boot, stCp : Boot, heartbeat : Boot]

Matches(e, s) == AxisMatches(e.fg, s.fg) /\ AxisMatches(e.st, s.st)

\* A book on which every event can be applied.
Sound(e, s) ==
  /\ e \in Engines(Time) /\ s \in Stores
  /\ Matches(e, s) /\ Stopped(e.fg, e.st, e.paused)

\* The inductive invariant: a running collector's book is sound, and any other
\* process has forgotten its engine.
IInv ==
  /\ TypeOK
  /\ process = "running" => Sound(engine, store)
  /\ process # "running" => engine = NewEngine

-----------------------------------------------------------------------------

LEMMA TimeIsNatural ==
  /\ Time \in SUBSET Nat /\ Time \subseteq Boot /\ 0 \in Boot /\ Boot \subseteq Nat
  /\ StartTime \in Time
BY TimelineAssumption DEF Time, Boot

LEMMA LaterIsTyped ==
  ASSUME NEW S \in SUBSET Nat, NEW s \in S, NEW t \in S
  PROVE  Later(s, t) \in S /\ Earlier(s, t) \in S
BY DEF Later, Earlier

LEMMA RowFields ==
  ASSUME NEW V, NEW row \in OpenRows(V)
  PROVE  /\ row.on => row \in [on : {TRUE}, value : V, start : Time, seen : Time]
         /\ ~row.on => row = NoRow
         /\ row.on \in BOOLEAN /\ ~NoRow.on
         /\ row.start \in Boot /\ row.seen \in Boot
<1>1. ~NoRow.on /\ NoRow.start = 0 /\ NoRow.seen = 0
  BY DEF NoRow
<1>2. CASE row = NoRow
  BY <1>1, <1>2, TimeIsNatural DEF NoRow
<1>3. CASE row \in [on : {TRUE}, value : V, start : Time, seen : Time]
  BY <1>1, <1>3, TimeIsNatural
<1>4. QED
  BY <1>2, <1>3 DEF OpenRows

\* The writer takes the batch of an axis whose row matches its interval, and
\* the row it leaves matches what the engine has open afterwards.
LEMMA AxisApplied ==
  ASSUME NEW V, NEW iv \in Intervals(V, Time), NEW axis \in Axes(V, Time),
         NEW row \in OpenRows(V), NEW cp \in Boot, NEW end \in Boot,
         AxisMatches(iv, row), Reached(iv, axis, Time)
  PROVE  /\ AxisAccepted(row, cp, axis)
         /\ RowAfter(row, cp, axis) \in OpenRows(V)
         /\ AxisMatches(axis.open, RowAfter(row, cp, axis))
         /\ EndAfter(row, end, axis) \in Boot
         /\ CheckpointAfter(cp, axis) \in Boot
<1> USE TimeIsNatural, NoneAssumption
<1>1. /\ row.on => row \in [on : {TRUE}, value : V, start : Time, seen : Time]
      /\ row.on \in BOOLEAN /\ row.start \in Boot /\ row.seen \in Boot
      /\ iv.on \in BOOLEAN
  BY RowFields, IntervalFields
<1>2. /\ axis.open \in Intervals(V, Time)
      /\ axis.close \in Time \union {None} /\ axis.at \in Boot
  BY DEF Axes
<1>3. EndAfter(row, end, axis) \in Boot
  BY <1>1, <1>2, LaterIsTyped DEF EndAfter
<1>4. CheckpointAfter(cp, axis) \in Boot
  BY <1>2 DEF CheckpointAfter
<1>5. iv.on = row.on /\ iv.value = row.value /\ row.start <= iv.seen /\ row.seen <= iv.seen
  BY DEF AxisMatches
<1>6. CASE Sealed(iv, axis, Time)
  <2>1. AxisAccepted(row, cp, axis)
    BY <1>5, <1>6 DEF Sealed, AxisAccepted
  <2>2. CASE axis.open = iv /\ axis.close = None
    <3>1. RowAfter(row, cp, axis) = row
      BY <1>6, <2>2 DEF Sealed, RowAfter
    <3>2. QED
      BY <1>3, <1>4, <2>1, <2>2, <3>1
  <2>3. CASE iv.on /\ axis.open = NoInterval /\ axis.close \in Time
    <3>1. RowAfter(row, cp, axis) = NoRow
      BY <1>6, <2>3 DEF Sealed, RowAfter
    <3>2. AxisMatches(NoInterval, NoRow)
      BY DEF AxisMatches, NoInterval, NoRow
    <3>3. QED
      BY <1>3, <1>4, <2>1, <2>3, <3>1, <3>2 DEF OpenRows
  <2>4. QED
    BY <1>6, <2>2, <2>3 DEF Sealed
<1>7. CASE Started(iv, axis, Time)
  <2>1. AxisAccepted(row, cp, axis)
    BY <1>5, <1>7 DEF Started, AxisAccepted
  <2>2. axis.open \in [on : {TRUE}, value : V, seen : Time] /\ axis.open.seen = axis.at
    BY <1>2, <1>7, IntervalFields DEF Started
  <2>3. RowAfter(row, cp, axis)
          = [on |-> TRUE, value |-> axis.open.value, start |-> axis.at, seen |-> axis.at]
    BY <1>7 DEF Started, RowAfter, Row
  <2>4. axis.at \in Time /\ axis.open.value \in V
    BY <1>7, <2>2 DEF Started
  <2>5. RowAfter(row, cp, axis) \in [on : {TRUE}, value : V, start : Time, seen : Time]
    BY <2>3, <2>4
  <2>6. AxisMatches(axis.open, RowAfter(row, cp, axis))
    <3> DEFINE after == RowAfter(row, cp, axis)
    <3>1. axis.at <= axis.at
      <4>1. axis.at \in Nat
        BY <2>4
      <4>2. QED
        BY <4>1
    <3>2. axis.open.on = TRUE /\ axis.open.seen = axis.at
      BY <2>2
    <3>3. /\ after.on = TRUE /\ after.value = axis.open.value
          /\ after.start = axis.at /\ after.seen = axis.at
      BY <2>3
    <3> HIDE DEF after
    <3>4. AxisMatches(axis.open, after)
      BY <3>1, <3>2, <3>3 DEF AxisMatches
    <3>5. QED
      BY <3>4 DEF after
  <2>7. QED
    BY <1>3, <1>4, <2>1, <2>5, <2>6 DEF OpenRows
<1>8. CASE Confirmed(iv, axis, Time)
  <2>1. /\ axis.then = "checkpoint" /\ axis.at \in Time /\ axis.close = None
        /\ iv.on /\ axis.open.on = TRUE /\ row.on
        /\ axis.open.value = iv.value /\ axis.open.seen = Later(iv.seen, axis.at)
    BY <1>2, <1>5, <1>8, IntervalFields DEF Confirmed
  <2>2. AxisAccepted(row, cp, axis)
    BY <2>1 DEF AxisAccepted
  <2>3. row \in [on : {TRUE}, value : V, start : Time, seen : Time]
    BY <1>1, <2>1
  <2>7. /\ row.start \in Nat /\ row.seen \in Nat /\ iv.seen \in Nat /\ axis.at \in Nat
        /\ row.value = iv.value /\ row.start <= iv.seen /\ row.seen <= iv.seen
    <3>1. iv \in [on : {TRUE}, value : V, seen : Time]
      BY <2>1, IntervalFields
    <3>2. QED
      BY <1>5, <2>1, <2>3, <3>1
  <2>4. CASE Due(cp, axis.at)
    <3>1. RowAfter(row, cp, axis)
            = [on |-> TRUE, value |-> row.value, start |-> row.start,
               seen |-> Later(row.seen, axis.at)]
      BY <2>1, <2>3, <2>4 DEF RowAfter
    <3>2. Later(row.seen, axis.at) \in Time
      BY <2>1, <2>3, LaterIsTyped
    <3>3. RowAfter(row, cp, axis) \in [on : {TRUE}, value : V, start : Time, seen : Time]
      BY <2>3, <3>1, <3>2
    <3>4. /\ row.start <= Later(iv.seen, axis.at)
          /\ Later(row.seen, axis.at) <= Later(iv.seen, axis.at)
      BY <2>7 DEF Later
    <3> DEFINE after == RowAfter(row, cp, axis)
    <3>5. /\ after.on = TRUE /\ after.value = row.value
          /\ after.start = row.start /\ after.seen = Later(row.seen, axis.at)
      BY <3>1
    <3> HIDE DEF after
    <3>6. AxisMatches(axis.open, after)
      BY <2>1, <2>7, <3>4, <3>5 DEF AxisMatches
    <3>7. QED
      BY <1>3, <1>4, <2>2, <3>3, <3>6 DEF OpenRows, after
  <2>5. CASE ~Due(cp, axis.at)
    <3>1. RowAfter(row, cp, axis) = row
      BY <2>1, <2>5 DEF RowAfter
    <3>2. /\ row.start <= Later(iv.seen, axis.at)
          /\ row.seen <= Later(iv.seen, axis.at)
      BY <2>7 DEF Later
    <3>3. AxisMatches(axis.open, row)
      BY <2>1, <2>3, <2>7, <3>2 DEF AxisMatches
    <3>4. QED
      BY <1>3, <1>4, <2>2, <3>1, <3>3
  <2>6. QED
    BY <2>4, <2>5
<1>9. QED
  BY <1>6, <1>7, <1>8 DEF Reached

LEMMA HeartbeatAfterIsTyped ==
  ASSUME NEW s \in Stores, NEW axis \in Axes(ComputerState, Time)
  PROVE  HeartbeatAfter(s, axis) \in Boot
<1>1. axis.close \in Time \union {None} /\ axis.at \in Boot /\ s.heartbeat \in Boot
  BY TimeIsNatural DEF Axes, Stores
<1>2. QED
  BY <1>1, TimeIsNatural, LaterIsTyped DEF HeartbeatAfter

\* Handling any event on a sound book: the writer accepts the batch, and the
\* book it commits is sound.
LEMMA HandledIsSound ==
  ASSUME NEW e, NEW s, Sound(e, s), NEW ev, WellFormed(ev, Time)
  PROVE  /\ Accepted(s, Handle(e, ev))
         /\ Sound(Committed(Handle(e, ev)), Applied(s, Handle(e, ev)))
<1> DEFINE w == Handle(e, ev)
<1>1. /\ e \in Engines(Time) /\ s \in Stores
      /\ AxisMatches(e.fg, s.fg) /\ AxisMatches(e.st, s.st)
      /\ Stopped(e.fg, e.st, e.paused)
  BY DEF Sound, Matches
<1>2. ReachedBoth(e, w, Time)
  BY <1>1, HandleReaches, TimeIsNatural
<1> HIDE DEF w
<1>3. /\ w.fg \in Axes(App, Time) /\ w.st \in Axes(ComputerState, Time)
      /\ w.last \in Time /\ w.paused \in BOOLEAN
      /\ Reached(e.fg, w.fg, Time) /\ Reached(e.st, w.st, Time)
      /\ Stopped(w.fg.open, w.st.open, w.paused)
  BY <1>2 DEF ReachedBoth, Works
<1>4. /\ e.fg \in Intervals(App, Time) /\ e.st \in Intervals(ComputerState, Time)
      /\ s.fg \in OpenRows(App) /\ s.st \in OpenRows(ComputerState)
      /\ s.fgCp \in Boot /\ s.stCp \in Boot /\ s.fgEnd \in Boot /\ s.stEnd \in Boot
  BY <1>1 DEF Engines, Stores
<1>5. /\ AxisAccepted(s.fg, s.fgCp, w.fg)
      /\ RowAfter(s.fg, s.fgCp, w.fg) \in OpenRows(App)
      /\ AxisMatches(w.fg.open, RowAfter(s.fg, s.fgCp, w.fg))
      /\ EndAfter(s.fg, s.fgEnd, w.fg) \in Boot
      /\ CheckpointAfter(s.fgCp, w.fg) \in Boot
  BY <1>1, <1>3, <1>4, AxisApplied
<1>6. /\ AxisAccepted(s.st, s.stCp, w.st)
      /\ RowAfter(s.st, s.stCp, w.st) \in OpenRows(ComputerState)
      /\ AxisMatches(w.st.open, RowAfter(s.st, s.stCp, w.st))
      /\ EndAfter(s.st, s.stEnd, w.st) \in Boot
      /\ CheckpointAfter(s.stCp, w.st) \in Boot
  BY <1>1, <1>3, <1>4, AxisApplied
<1>7. HeartbeatAfter(s, w.st) \in Boot
  BY <1>1, <1>3, HeartbeatAfterIsTyped
<1>8. Applied(s, w) \in Stores
  BY <1>5, <1>6, <1>7 DEF Applied, Stores
<1>9. Committed(w) \in Engines(Time)
  BY <1>3 DEF Committed, Engines, Axes
<1>10. /\ Committed(w).fg = w.fg.open /\ Committed(w).st = w.st.open
       /\ Committed(w).paused = w.paused
       /\ Applied(s, w).fg = RowAfter(s.fg, s.fgCp, w.fg)
       /\ Applied(s, w).st = RowAfter(s.st, s.stCp, w.st)
  BY DEF Committed, Applied
<1>11. Sound(Committed(w), Applied(s, w))
  BY <1>3, <1>5, <1>6, <1>8, <1>9, <1>10 DEF Sound, Matches
<1>12. Accepted(s, w)
  BY <1>5, <1>6 DEF Accepted
<1>13. QED
  BY <1>11, <1>12 DEF w

\* The same, as the actions say it.
LEMMA ApplyIsSound ==
  ASSUME Sound(engine, store), NEW ev, WellFormed(ev, Time)
  PROVE  /\ Fits(Book, ev)
         /\ Sound(Applying(Book, ev).engine, Applying(Book, ev).store)
         /\ Apply(ev) => Sound(engine', store')
<1>1. Book.engine = engine /\ Book.store = store
  BY DEF Book
<1>2. /\ Applying(Book, ev).engine = Committed(Handle(engine, ev))
      /\ Applying(Book, ev).store = Applied(store, Handle(engine, ev))
  BY <1>1 DEF Applying
<1>3. /\ Accepted(store, Handle(engine, ev))
      /\ Sound(Committed(Handle(engine, ev)), Applied(store, Handle(engine, ev)))
  BY HandledIsSound
<1>4. Apply(ev) => /\ engine' = Committed(Handle(engine, ev))
                   /\ store' = Applied(store, Handle(engine, ev))
  BY DEF Apply
<1>5. QED
  BY <1>1, <1>2, <1>3, <1>4 DEF Fits

-----------------------------------------------------------------------------
(* The events run_collector builds are well formed.                        *)

OthersOK ==
  /\ paused \in BOOLEAN /\ gap \in {"none", "after", "before"}
  /\ lastObs \in Time \union {None}
  /\ process \in {"running", "panicked", "down"}
  /\ since \in Time /\ resumed \in Time /\ now \in Time /\ input \in Time

LEMMA TypeOKParts ==
  /\ TypeOK <=> engine \in Engines(Time) /\ store \in Stores /\ OthersOK
  /\ TypeOK' <=> engine' \in Engines(Time) /\ store' \in Stores /\ OthersOK'
<1>1. \A V : OpenIntervals(V) = Intervals(V, Time)
  BY DEF OpenIntervals, Intervals
<1>2. QED
  BY <1>1 DEF TypeOK, OthersOK, Engines, Stores

LEMMA ObservableIsState ==
  /\ ObservableStates \subseteq ComputerState
  /\ Foregrounds \subseteq App \union {None}
BY TimelineAssumption DEF ObservableStates, LiveState, ComputerState, Live, Excluded, Foregrounds

LEMMA EventFields ==
  ASSUME NEW type, NEW at, NEW app, NEW state
  PROVE  /\ Event(type, at, app, state).type = type /\ Event(type, at, app, state).at = at
         /\ Event(type, at, app, state).app = app /\ Event(type, at, app, state).state = state
BY DEF Event

LEMMA PlatformEventIsWellFormed ==
  ASSUME OthersOK, NEW ev \in PlatformEvents
  PROVE  WellFormed(ev, Time)
<1> DEFINE Stamps == Later(since, now - MaxDelay) .. now
           Of(types, apps, states) ==
             {Event(t, at, a, s) : t \in Kinds \intersect types, at \in Stamps, a \in apps, s \in states}
<1>1. Stamps \subseteq Time
  <2>1. SUFFICES ASSUME NEW t \in Stamps PROVE t \in Time
    OBVIOUS
  <2>2. since \in Nat /\ now \in Nat /\ MaxDelay \in Nat /\ StartTime \in Nat /\ MaxTime \in Nat
        /\ StartTime <= since /\ now <= MaxTime
    BY TimelineAssumption DEF OthersOK, Time
  <2>3. QED
    BY <2>2 DEF Time, Later
<1> HIDE DEF Stamps
<1>2. \/ ev \in Of({"Foreground"}, App, {None})
      \/ ev \in Of({"ForegroundUnavailable", "WindowsShutdown"} \union Excluding, {None}, {None})
      \/ ev \in Of(Recovering, Foregrounds, ObservableStates)
  BY DEF PlatformEvents, Stamps
<1>3. CASE ev \in Of({"Foreground"}, App, {None})
  <2>1. PICK t \in {"Foreground"}, at \in Stamps, a \in App, s \in {None} :
          ev = Event(t, at, a, s)
    BY <1>3
  <2>2. ev.type = t /\ ev.at = at /\ ev.app = a /\ ev.state = s
    BY <2>1, EventFields
  <2>3. QED
    BY <1>1, <2>2 DEF WellFormed, Recovering
<1>4. CASE ev \in Of({"ForegroundUnavailable", "WindowsShutdown"} \union Excluding, {None}, {None})
  <2>1. PICK t \in {"ForegroundUnavailable", "WindowsShutdown"} \union Excluding, at \in Stamps, a \in {None}, s \in {None} :
          ev = Event(t, at, a, s)
    BY <1>4
  <2>2. ev.type = t /\ ev.at = at /\ ev.app = a /\ ev.state = s
    BY <2>1, EventFields
  <2>3. QED
    BY <1>1, <2>2 DEF WellFormed, Recovering, Excluding
<1>5. CASE ev \in Of(Recovering, Foregrounds, ObservableStates)
  <2>1. PICK t \in Recovering, at \in Stamps, a \in Foregrounds, s \in ObservableStates :
          ev = Event(t, at, a, s)
    BY <1>5
  <2>2. ev.type = t /\ ev.at = at /\ ev.app = a /\ ev.state = s
    BY <2>1, EventFields
  <2>3. QED
    BY <1>1, <2>2, ObservableIsState DEF WellFormed, Recovering
<1>6. QED
  BY <1>2, <1>3, <1>4, <1>5

\* Pause, Clear, Shutdown and the recovery gap are stamped with the clock.
LEMMA StampedNowIsWellFormed ==
  ASSUME OthersOK, NEW type \in {"Pause", "Shutdown", "ObserverGap"}
  PROVE  WellFormed(Event(type, now, None, None), Time)
BY EventFields DEF OthersOK, WellFormed, Recovering

LEMMA ObservedIsWellFormed ==
  ASSUME OthersOK, NEW type \in {"Resync", "ResumeCollection"},
         NEW state \in ObservableStates, NEW app \in Foregrounds
  PROVE  WellFormed(Event(type, now, app, state), Time)
BY EventFields, ObservableIsState DEF OthersOK, WellFormed

\* The last-input time is clamped between the last heartbeat and now.
LEMMA PresenceIsWellFormed ==
  ASSUME OthersOK
  PROVE  WellFormed(Presence, Time)
<1>1. ASSUME NEW x \in Int PROVE Clamped(x) \in Time
  BY TimelineAssumption DEF Clamped, Previous, Later, Earlier, OthersOK, Time
<1>2. input \in Int /\ input + IdleThreshold \in Int
  BY TimelineAssumption DEF OthersOK, Time
<1>3. PICK type \in {"IdleThresholdCrossed", "UserActive"}, x \in Int :
        Presence = Event(type, Clamped(x), None, None)
  BY <1>2 DEF Presence
<1>4. Clamped(x) \in Time
  BY <1>1
<1>5. QED
  BY <1>3, <1>4, EventFields DEF WellFormed, Recovering

-----------------------------------------------------------------------------
(* The steps.                                                              *)

LEMMA OthersStep == OthersOK /\ [NextWithClockSteps]_vars => OthersOK'
<1> SUFFICES ASSUME OthersOK, [NextWithClockSteps]_vars PROVE OthersOK'
  OBVIOUS
<1> USE DEF OthersOK, clock
<1>1. CASE PlatformEvent \/ RequestRecovery \/ RecordGap \/ Pause \/ Resume \/ Clear \/ ClearRefused
  BY <1>1 DEF PlatformEvent, RequestRecovery, RecordGap, Pause, Resume, Clear, ClearRefused
<1>2. CASE Heartbeat \/ HeartbeatFails \/ HeartbeatPanics
  BY <1>2 DEF Heartbeat, HeartbeatFails, HeartbeatPanics, Forget
<1>3. CASE Shutdown \/ Crash \/ Start
  BY <1>3 DEF Shutdown, Crash, Start, Exit, Forget
<1>4. CASE Tick
  <2>1. now + 1 \in Time
    BY <1>4, TimelineAssumption DEF Tick, Time
  <2>2. QED
    BY <1>4, <2>1 DEF Tick
<1>5. CASE ClockStepsBack
  <2>1. now' \in Time
    BY <1>5 DEF ClockStepsBack
  <2>2. Later(StartTime, input - (now - now')) \in Time
    <3>1. now' < now
      BY <1>5 DEF ClockStepsBack
    <3>2. now \in Nat /\ now' \in Nat /\ input \in Nat /\ input <= MaxTime
          /\ StartTime \in Nat /\ MaxTime \in Nat /\ StartTime <= MaxTime
      BY <2>1, TimelineAssumption DEF Time
    <3> DEFINE set == input - (now - now')
    <3>3. set \in Int /\ set <= MaxTime
      <4>1. \A i, n, m, top \in Nat : i <= top /\ m < n => i - (n - m) \in Int /\ i - (n - m) <= top
        OBVIOUS
      <4>2. QED
        BY <3>1, <3>2, <4>1
    <3> HIDE DEF set
    <3>4. Later(StartTime, set) \in Time
      BY <3>2, <3>3 DEF Later, Time
    <3>5. QED
      BY <3>4 DEF set
  <2>3. QED
    BY <1>5, <2>1, <2>2 DEF ClockStepsBack
<1>6. CASE UNCHANGED vars
  BY <1>6 DEF vars
<1>7. QED
  BY <1>1, <1>2, <1>3, <1>4, <1>5, <1>6 DEF NextWithClockSteps, Next

LEMMA NewEngineIsSound ==
  /\ NewEngine \in Engines(Time)
  /\ \A s \in Stores : s.fg = NoRow /\ s.st = NoRow => Sound(NewEngine, s)
<1>1. NewEngine \in Engines(Time)
  BY DEF NewEngine, Engines, Intervals
<1>2. AxisMatches(NoInterval, NoRow)
  BY DEF AxisMatches, NoInterval, NoRow
<1>3. Stopped(NewEngine.fg, NewEngine.st, NewEngine.paused)
  BY DEF NewEngine, Stopped
<1>4. NewEngine.fg = NoInterval /\ NewEngine.st = NoInterval
  BY DEF NewEngine
<1>5. QED
  BY <1>1, <1>2, <1>3, <1>4 DEF Sound, Matches

\* Startup recovery leaves nothing open.
LEMMA RecoveredIsSound ==
  ASSUME NEW s \in Stores, OthersOK
  PROVE  Recovered(s, now) \in Stores /\ Sound(NewEngine, Recovered(s, now))
<1> DEFINE stCutoff == Earlier(s.heartbeat, BeforeNow(now))
<1>1. now \in Boot /\ BeforeNow(now) \in Boot
  BY TimelineAssumption DEF OthersOK, Time, Boot, BeforeNow
<1>2. /\ s.heartbeat \in Boot /\ s.fgEnd \in Boot /\ s.stEnd \in Boot
      /\ s.fg \in OpenRows(App) /\ s.st \in OpenRows(ComputerState)
  BY DEF Stores
<1>3. stCutoff \in Boot
  BY <1>1, <1>2, LaterIsTyped, TimeIsNatural
<1>4. s.fg.start \in Boot /\ s.fg.seen \in Boot /\ s.st.start \in Boot
  BY <1>2, RowFields
<1>5. Recovered(s, now) = Resealed(s, s.fg.seen, stCutoff, now)
  BY DEF Recovered
<1> HIDE DEF stCutoff
<1>6. /\ Later(s.fgEnd, Later(s.fg.start, s.fg.seen)) \in Boot
      /\ Later(s.stEnd, Later(s.st.start, stCutoff)) \in Boot
  BY <1>2, <1>3, <1>4, LaterIsTyped, TimeIsNatural
<1>7. NoRow \in OpenRows(App) /\ NoRow \in OpenRows(ComputerState)
  BY DEF OpenRows
<1>8. Resealed(s, s.fg.seen, stCutoff, now) \in Stores
  BY <1>1, <1>2, <1>6, <1>7, TimeIsNatural DEF Resealed, Stores
<1>9. /\ Resealed(s, s.fg.seen, stCutoff, now).fg = NoRow
      /\ Resealed(s, s.fg.seen, stCutoff, now).st = NoRow
  BY DEF Resealed
<1>10. QED
  BY <1>5, <1>8, <1>9, NewEngineIsSound

\* A stopped book has no row open, so clearing it leaves nothing open.
LEMMA ClearedIsSound ==
  ASSUME Sound(engine, store), OthersOK
  PROVE  Sound(NewEngine, Cleared(Applying(Book, Stop("Pause")).store))
<1> DEFINE book == Applying(Book, Stop("Pause"))
<1>1. WellFormed(Stop("Pause"), Time)
  BY StampedNowIsWellFormed DEF Stop
<1>2. Sound(book.engine, book.store)
  BY <1>1, ApplyIsSound
<1>3. book.engine.paused = TRUE
  <2>1. Stop("Pause").type = "Pause"
    BY EventFields DEF Stop
  <2>2. Handle(engine, Stop("Pause")).paused = TRUE
    BY <1>1, <2>1, StopStops, TimeIsNatural DEF Sound
  <2>3. QED
    BY <2>2 DEF Applying, Book, Committed
<1> HIDE DEF book
<1>4. book.store.st = NoRow /\ book.store \in Stores
  BY <1>2, <1>3, RowFields DEF Sound, Stopped, Matches, AxisMatches, Stores
<1>5. /\ Cleared(book.store) \in Stores
      /\ Cleared(book.store).fg = NoRow /\ Cleared(book.store).st = NoRow
  BY <1>4, TimeIsNatural DEF Cleared, Stores, OpenRows
<1>6. Sound(NewEngine, Cleared(book.store))
  BY <1>5, NewEngineIsSound
<1>7. QED
  BY <1>6 DEF book

\* Both writes of a heartbeat keep the book sound.
LEMMA ProbedIsSound ==
  ASSUME Sound(engine, store), OthersOK, NEW state
  PROVE  Sound(Probed(state).engine, Probed(state).store)
BY PresenceIsWellFormed, ApplyIsSound DEF Probed, Book

LEMMA HeartbeatIsSound ==
  ASSUME Sound(engine, store), OthersOK, Heartbeat
  PROVE  Sound(engine', store')
<1>1. PICK state \in ObservableStates, app \in Foregrounds :
        Become(Applying(Probed(state), Event("Resync", now, app, state)))
  BY DEF Heartbeat
<1> DEFINE ev == Event("Resync", now, app, state)
           before == Probed(state)
<1>2. Sound(before.engine, before.store)
  BY ProbedIsSound
<1>3. WellFormed(ev, Time)
  BY ObservedIsWellFormed
<1> HIDE DEF ev, before
<1>4. /\ Applying(before, ev).engine = Committed(Handle(before.engine, ev))
      /\ Applying(before, ev).store = Applied(before.store, Handle(before.engine, ev))
  BY DEF Applying
<1>5. Sound(Applying(before, ev).engine, Applying(before, ev).store)
  BY <1>2, <1>3, <1>4, HandledIsSound
<1>6. QED
  BY <1>1, <1>5 DEF Become, ev, before

LEMMA IInvStep == IInv /\ [NextWithClockSteps]_vars => IInv'
<1> SUFFICES ASSUME IInv, [NextWithClockSteps]_vars PROVE IInv'
  OBVIOUS
<1>1. OthersOK /\ OthersOK'
  BY OthersStep, TypeOKParts DEF IInv
<1>2. engine \in Engines(Time) /\ store \in Stores
  BY TypeOKParts DEF IInv
<1>3. ASSUME process' = "running", Sound(engine', store') PROVE IInv'
  BY <1>1, <1>3, TypeOKParts DEF IInv, Sound
<1>4. ASSUME process' # "running", engine' = NewEngine, store' \in Stores PROVE IInv'
  BY <1>1, <1>4, TypeOKParts, NewEngineIsSound DEF IInv
<1>5. ASSUME UNCHANGED <<engine, store, process>> PROVE IInv'
  BY <1>1, <1>2, <1>5, TypeOKParts DEF IInv
<1>6. process = "running" => Sound(engine, store)
  BY DEF IInv
<1>7. Become(Book) => UNCHANGED <<engine, store>>
  BY DEF Become, Book
<1>8. CASE PlatformEvent
  BY <1>1, <1>3, <1>6, <1>8, PlatformEventIsWellFormed, ApplyIsSound DEF PlatformEvent
<1>9. CASE RequestRecovery \/ Tick \/ ClockStepsBack \/ UNCHANGED vars
  BY <1>5, <1>9 DEF RequestRecovery, Tick, ClockStepsBack, vars
<1>10. CASE RecordGap
  <2>1. WellFormed(Event("ObserverGap", now, None, None), Time)
    BY <1>1, StampedNowIsWellFormed
  <2>2. QED
    BY <1>3, <1>6, <1>10, <2>1, ApplyIsSound DEF RecordGap
<1>11. CASE Heartbeat
  <2>1. process = "running" /\ process' = "running"
    BY <1>11 DEF Heartbeat, HeartbeatDue
  <2>2. QED
    BY <1>1, <1>3, <1>6, <1>11, <2>1, HeartbeatIsSound
<1>12. CASE HeartbeatFails
  <2>1. process = "running" /\ process' = "running"
    BY <1>12 DEF HeartbeatFails, HeartbeatDue
  <2>2. CASE Become(Book)
    BY <1>5, <1>7, <2>1, <2>2
  <2>3. CASE Become(Applying(Book, Presence))
    <3>1. Sound(Applying(Book, Presence).engine, Applying(Book, Presence).store)
      BY <1>1, <1>6, <2>1, PresenceIsWellFormed, ApplyIsSound
    <3>2. QED
      BY <1>3, <2>1, <2>3, <3>1 DEF Become
  <2>4. QED
    BY <1>12, <2>2, <2>3 DEF HeartbeatFails
<1>13. CASE HeartbeatPanics
  BY <1>2, <1>4, <1>13 DEF HeartbeatPanics, Forget
<1>14. CASE Pause \/ ClearRefused
  <2>1. process = "running" /\ process' = "running" /\ (Apply(Stop("Pause")) \/ Become(Book))
    BY <1>14 DEF Pause, ClearRefused, ControlReady
  <2>2. WellFormed(Stop("Pause"), Time)
    BY <1>1, StampedNowIsWellFormed DEF Stop
  <2>3. QED
    BY <1>3, <1>5, <1>6, <1>7, <2>1, <2>2, ApplyIsSound
<1>15. CASE Resume
  <2>1. /\ process = "running" /\ process' = "running"
        /\ \/ \E state \in ObservableStates, app \in Foregrounds :
                Apply(Event("ResumeCollection", now, app, state))
           \/ Become(Book)
    BY <1>15 DEF Resume, ControlReady
  <2>2. CASE Become(Book)
    BY <1>5, <1>7, <2>1, <2>2
  <2>3. ASSUME NEW state \in ObservableStates, NEW app \in Foregrounds,
               Apply(Event("ResumeCollection", now, app, state))
        PROVE  IInv'
    <3>1. WellFormed(Event("ResumeCollection", now, app, state), Time)
      BY <1>1, ObservedIsWellFormed
    <3>2. QED
      BY <1>3, <1>6, <2>1, <2>3, <3>1, ApplyIsSound
  <2>4. QED
    BY <2>1, <2>2, <2>3
<1>16. CASE Clear
  <2>1. /\ process = "running" /\ process' = "running" /\ engine' = NewEngine
        /\ store' = Cleared(Applying(Book, Stop("Pause")).store)
    BY <1>16 DEF Clear, ControlReady
  <2>2. QED
    BY <1>1, <1>3, <1>6, <2>1, ClearedIsSound
<1>17. CASE Shutdown \/ Crash
  <2>1. process' # "running" /\ engine' = NewEngine
    BY <1>17 DEF Shutdown, Crash, Exit, Forget
  <2>2. CASE UNCHANGED store
    BY <1>2, <1>4, <2>1, <2>2
  <2>3. CASE process = "running" /\ store' = Applying(Book, Stop("Shutdown")).store
    <3>1. WellFormed(Stop("Shutdown"), Time)
      BY <1>1, StampedNowIsWellFormed DEF Stop
    <3>2. store' \in Stores
      BY <1>6, <2>3, <3>1, ApplyIsSound DEF Sound
    <3>3. QED
      BY <1>4, <2>1, <3>2
  <2>4. QED
    BY <1>17, <2>2, <2>3 DEF Shutdown, Crash
<1>18. CASE Start
  <2>1. process = "down" /\ process' = "running" /\ UNCHANGED engine /\ store' = Recovered(store, now)
    BY <1>18 DEF Start
  <2>2. engine = NewEngine
    BY <2>1 DEF IInv
  <2>3. QED
    BY <1>1, <1>2, <1>3, <2>1, <2>2, RecoveredIsSound
<1>19. QED
  BY <1>8, <1>9, <1>10, <1>11, <1>12, <1>13, <1>14, <1>15, <1>16, <1>17, <1>18
     DEF NextWithClockSteps, Next

LEMMA InitEstablishesIInv == Init => IInv
<1> SUFFICES ASSUME Init PROVE IInv
  OBVIOUS
<1>1. store \in Stores /\ store.fg = NoRow /\ store.st = NoRow
  BY TimeIsNatural DEF Init, EmptyStore, Stores, OpenRows
<1>2. OthersOK
  BY TimeIsNatural DEF Init, OthersOK
<1>3. engine = NewEngine /\ process = "running"
  BY DEF Init
<1>4. QED
  BY <1>1, <1>2, <1>3, NewEngineIsSound, TypeOKParts DEF IInv

-----------------------------------------------------------------------------
(* The theorems, for a wall clock that may be set back; Spec, whose clock  *)
(* only moves forward, is the special case SpecIsSpecWithClockSteps.       *)

LEMMA SpecIsSpecWithClockSteps == Spec => SpecWithClockSteps
<1>1. [Next]_vars => [NextWithClockSteps]_vars
  BY DEF NextWithClockSteps
<1>2. QED
  BY <1>1, PTL DEF Spec, SpecWithClockSteps

\* The invariant holds of every behaviour of run_collector, on a clock that may
\* be set back too.
THEOREM IInvAlways == SpecWithClockSteps => []IInv
<1>1. QED
  BY InitEstablishesIInv, IInvStep, PTL DEF SpecWithClockSteps

\* Type correctness: every row and open interval of a reachable state has
\* times the clock has shown, whatever the applications and the thresholds.
THEOREM TypeCorrect == Spec => []TypeOK
<1>1. IInv => TypeOK
  BY DEF IInv
<1>2. QED
  BY <1>1, IInvAlways, SpecIsSpecWithClockSteps, PTL

\* While the collector runs, the engine and the database agree on what is
\* open, through failed writes, refused and accepted clears, crashes and a
\* clock set back.
THEOREM MemoryAlwaysMatchesRows == SpecWithClockSteps => []MemoryMatchesRows
<1>1. IInv => MemoryMatchesRows
  BY DEF IInv, Sound, Matches, MemoryMatchesRows
<1>2. QED
  BY <1>1, IInvAlways, PTL

\* No platform event can be refused by the writer, so the head of the pending
\* queue is never stuck behind an invalid batch.
THEOREM HeadAlwaysFits == Spec => []HeadIsNeverRefused
<1>1. IInv => HeadIsNeverRefused
  <2> SUFFICES ASSUME IInv, process = "running", NEW ev \in PlatformEvents
               PROVE  Fits(Book, ev)
    BY DEF HeadIsNeverRefused
  <2>1. Sound(engine, store) /\ WellFormed(ev, Time)
    BY PlatformEventIsWellFormed, TypeOKParts DEF IInv
  <2>2. QED
    BY <2>1, ApplyIsSound
<1>2. QED
  BY <1>1, IInvAlways, SpecIsSpecWithClockSteps, PTL

\* Nothing is booked while the engine is paused: it keeps no row open, and
\* opens none whatever event arrives.
THEOREM PausedIsAlwaysSealed == Spec => []PausedEngineIsSealed
<1>1. IInv => PausedEngineIsSealed
  BY DEF IInv, Sound, Matches, AxisMatches, Stopped, PausedEngineIsSealed
<1>2. QED
  BY <1>1, IInvAlways, SpecIsSpecWithClockSteps, PTL

-----------------------------------------------------------------------------
(* The times, on a machine whose clock is never set back: nothing is       *)
(* backfilled, a crash loses little, downtime is not counted, and the      *)
(* foreground rows implement IntervalAxis.                                 *)
(*                                                                         *)
(* All four follow from one invariant (Times): everything in the book is   *)
(* no later than its base, which is the time of the last event, or of the  *)
(* start when there was none.  An event moves the base forward to its      *)
(* effective time, starts and confirms at that time (HandleIsTimed), and   *)
(* closes no earlier than what it closes was last seen, unless it is a     *)
(* WindowsShutdown, whose raw time is written.                             *)

(* The times an event writes.                                              *)

\* Started or confirmed at `at`; closed where it was last seen, or at `at`.
Dated(iv, axis, at) ==
  /\ axis.then # "nothing" => axis.at = at
  /\ axis.close # None => axis.close \in {iv.seen, at}

Checked(axis, at) == axis.then = "checkpoint" => axis.at = at

Timed(e, w, at) == w.last = at /\ Dated(e.fg, w.fg, at) /\ Checked(w.st, at)

\* Closing touches the close of an open axis and nothing else but the interval.
LEMMA ClosedFields ==
  ASSUME NEW V, NEW T, NEW axis \in Axes(V, T), NEW at
  PROVE  /\ CloseAxis(axis, at).then = axis.then /\ CloseAxis(axis, at).at = axis.at
         /\ CloseAxis(axis, at).close = IF axis.open.on THEN at ELSE axis.close
BY DEF CloseAxis, Axes

LEMMA ObservedFields ==
  ASSUME NEW V, NEW T, NEW axis \in Axes(V, T), NEW v, NEW at
  PROVE  /\ ObserveOn(axis, v, at).at = at
         /\ ObserveOn(axis, v, at).then = "checkpoint" => axis.open.on
         /\ ObserveOn(axis, v, at).close \in {axis.close, at}
<1>1. CASE axis.open.on /\ axis.open.value = v
  <2>1. ObserveOn(axis, v, at) = CheckpointOn(axis, at)
    BY <1>1 DEF ObserveOn
  <2>2. /\ CheckpointOn(axis, at).at = at /\ CheckpointOn(axis, at).close = axis.close
    BY DEF CheckpointOn, Axes
  <2>3. QED
    BY <1>1, <2>1, <2>2
<1>2. CASE ~(axis.open.on /\ axis.open.value = v)
  <2> DEFINE closed == CloseAxis(axis, at)
  <2>1. ObserveOn(axis, v, at) = StartOn(closed, v, at)
    BY <1>2 DEF ObserveOn
  <2>2. closed = [open |-> closed.open, close |-> closed.close, then |-> closed.then, at |-> closed.at]
    BY DEF CloseAxis, Axes
  <2>3. closed.close \in {axis.close, at}
    BY ClosedFields
  <2> HIDE DEF closed
  <2>4. /\ StartOn(closed, v, at).at = at /\ StartOn(closed, v, at).close = closed.close
        /\ StartOn(closed, v, at).then = "start"
    BY <2>2 DEF StartOn
  <2>5. QED
    BY <2>1, <2>3, <2>4
<1>3. QED
  BY <1>1, <1>2

LEMMA CloseForegroundTimed ==
  ASSUME NEW T, NEW e, NEW w \in Works(T), NEW L, NEW at, Timed(e, w, L),
         w.fg.open.on => at \in {e.fg.seen, L}
  PROVE  Timed(e, CloseForeground(w, at), L)
<1> DEFINE after == CloseForeground(w, at)
<1>1. /\ after.fg = CloseAxis(w.fg, at) /\ after.st = w.st /\ after.last = w.last
      /\ w.fg \in Axes(App, T)
  BY DEF CloseForeground, Works
<1> HIDE DEF after
<1>2. Dated(e.fg, CloseAxis(w.fg, at), L)
  BY <1>1, ClosedFields DEF Timed, Dated
<1>3. Timed(e, after, L)
  BY <1>1, <1>2 DEF Timed
<1>4. QED
  BY <1>3 DEF after

LEMMA CloseComputerStateTimed ==
  ASSUME NEW T, NEW e, NEW w \in Works(T), NEW L, NEW at, Timed(e, w, L)
  PROVE  Timed(e, CloseComputerState(w, at), L)
<1> DEFINE after == CloseComputerState(w, at)
<1>1. /\ after.st = CloseAxis(w.st, at) /\ after.fg = w.fg /\ after.last = w.last
      /\ w.st \in Axes(ComputerState, T)
  BY DEF CloseComputerState, Works
<1> HIDE DEF after
<1>2. Checked(CloseAxis(w.st, at), L)
  BY <1>1, ClosedFields DEF Timed, Checked
<1>3. Timed(e, after, L)
  BY <1>1, <1>2 DEF Timed
<1>4. QED
  BY <1>3 DEF after

LEMMA ObserveForegroundTimed ==
  ASSUME NEW T, NEW e, NEW w \in Works(T), NEW L, NEW app, Timed(e, w, L)
  PROVE  Timed(e, ObserveForeground(w, app, L), L)
<1>1. CASE ~ForegroundAllowed(w)
  BY <1>1 DEF ObserveForeground
<1>2. CASE ForegroundAllowed(w)
  <2> DEFINE after == ObserveForeground(w, app, L)
  <2>1. /\ after.fg = ObserveOn(w.fg, app, L) /\ after.st = w.st /\ after.last = w.last
        /\ w.fg \in Axes(App, T)
    BY <1>2 DEF ObserveForeground, Works
  <2> HIDE DEF after
  <2>2. Dated(e.fg, ObserveOn(w.fg, app, L), L)
    BY <2>1, ObservedFields DEF Timed, Dated
  <2>3. Timed(e, after, L)
    BY <2>1, <2>2 DEF Timed
  <2>4. QED
    BY <2>3 DEF after
<1>3. QED
  BY <1>1, <1>2

\* The recovery gap observes at an earlier time, on an axis it has closed.
LEMMA ObserveStateForcedTimed ==
  ASSUME NEW T, NEW e, NEW w \in Works(T), NEW L, NEW state, NEW at, Timed(e, w, L),
         w.st.open.on => at = L
  PROVE  Timed(e, ObserveStateForced(w, state, at), L)
<1>1. CASE w.paused
  BY <1>1 DEF ObserveStateForced
<1>2. CASE ~w.paused
  <2> DEFINE after == ObserveStateForced(w, state, at)
  <2>1. /\ after.st = ObserveOn(w.st, state, at) /\ after.fg = w.fg /\ after.last = w.last
        /\ w.st \in Axes(ComputerState, T)
    BY <1>2 DEF ObserveStateForced, Works
  <2> HIDE DEF after
  <2>2. Checked(ObserveOn(w.st, state, at), L)
    BY <2>1, ObservedFields DEF Checked
  <2>3. Timed(e, after, L)
    BY <2>1, <2>2 DEF Timed
  <2>4. QED
    BY <2>3 DEF after
<1>3. QED
  BY <1>1, <1>2

LEMMA ObserveStateTimed ==
  ASSUME NEW T, NEW e, NEW w \in Works(T), NEW L, NEW state, Timed(e, w, L)
  PROVE  Timed(e, ObserveState(w, state, L), L)
BY ObserveStateForcedTimed DEF ObserveState

LEMMA ReconcileTimed ==
  ASSUME NEW T, NEW e, NEW w \in Works(T), NEW L, NEW app, Timed(e, w, L)
  PROVE  Timed(e, ReconcileForeground(w, app, L), L)
BY ObserveForegroundTimed, CloseForegroundTimed DEF ReconcileForeground

\* Pausing and unpausing write nothing.
LEMMA PauseFlagTimed ==
  ASSUME NEW T, NEW e, NEW w \in Works(T), NEW L, NEW flag \in BOOLEAN, Timed(e, w, L)
  PROVE  Timed(e, [w EXCEPT !.paused = flag], L) /\ [w EXCEPT !.paused = flag] \in Works(T)
BY DEF Timed, Works

\* Preparing the timestamp moves the engine to the effective time, and a clock
\* gap closes where the intervals were last seen.
LEMMA PrepareTimed ==
  ASSUME NEW T \in SUBSET Nat, NEW e \in Engines(T), Stopped(e.fg, e.st, e.paused),
         NEW ev, ev.at \in T
  PROVE  Timed(e, PrepareTimestamp(e, ev), EffectiveTime(e, ev.at))
<1> DEFINE L == EffectiveTime(e, ev.at)
           w0 == [Working(e) EXCEPT !.last = L]
           w1 == IF CurrentState(w0) \in Excluded THEN w0 ELSE CloseForeground(w0, e.fg.seen)
           w2 == IF CurrentState(w1) \in Live THEN CloseComputerState(w1, e.st.seen) ELSE w1
<1>1. w0 = [fg |-> Axis(e.fg), st |-> Axis(e.st), last |-> L, paused |-> e.paused]
  BY DEF Working
<1>2. /\ e.fg \in Intervals(App, T) /\ e.st \in Intervals(ComputerState, T)
      /\ e.paused \in BOOLEAN /\ L \in T
  BY EffectiveTimeIsTyped DEF Engines
<1>3. PrepareTimestamp(e, ev) = IF ClockGap(e, ev) THEN w2 ELSE w0
  BY DEF PrepareTimestamp
<1>4. /\ Axis(e.fg) \in Axes(App, T) /\ Axis(e.st) \in Axes(ComputerState, T)
      /\ Axis(e.fg).open = e.fg /\ Axis(e.fg).close = None
      /\ Axis(e.fg).then = "nothing" /\ Axis(e.st).then = "nothing"
  BY <1>2 DEF Axis, Axes
<1> HIDE DEF L
<1>5. /\ w0 \in Works(T) /\ w0.last = L /\ w0.fg = Axis(e.fg) /\ w0.st = Axis(e.st)
  BY <1>1, <1>2, <1>4 DEF Works
<1>6. Sealed(e.fg, w0.fg, T) /\ (w0.fg.open.on => e.fg.seen \in T)
  <2>1. e.fg.on => e.fg.seen \in T
    BY <1>2, IntervalFields, ZenonT(30)
  <2>2. QED
    BY <1>4, <1>5, <2>1 DEF Sealed
<1> HIDE DEF w0
<1>7. Timed(e, w0, L)
  BY <1>4, <1>5 DEF Timed, Dated, Checked
<1>8. w1 \in Works(T) /\ Timed(e, w1, L)
  BY <1>5, <1>6, <1>7, CloseForegroundTimed, CloseForegroundSeals
<1> HIDE DEF w1
<1>9. Timed(e, w2, L)
  BY <1>8, CloseComputerStateTimed
<1> HIDE DEF w2
<1>10. QED
  BY <1>3, <1>7, <1>9 DEF L

LEMMA ExclusionTimed ==
  ASSUME NEW T \in SUBSET Nat, NEW e \in Engines(T), NEW w, SealedBoth(e, w, T),
         NEW L, Timed(e, w, L), NEW state
  PROVE  Timed(e, OnExclusion(w, state), L)
<1> DEFINE closed == CloseForeground(w, L)
<1>1. w \in Works(T) /\ Sealed(e.fg, w.fg, T) /\ L \in T /\ w.last = L
  BY DEF SealedBoth, Timed, Works
<1>2. closed \in Works(T) /\ Timed(e, closed, L)
  BY <1>1, CloseForegroundSeals, CloseForegroundTimed
<1> HIDE DEF closed
<1>3. OnExclusion(w, state) = ObserveStateForced(closed, state, L)
  BY <1>1 DEF OnExclusion, closed
<1>4. QED
  BY <1>2, <1>3, ObserveStateForcedTimed

LEMMA RecoveryTimed ==
  ASSUME NEW T \in SUBSET Nat, NEW e \in Engines(T), NEW w, SealedBoth(e, w, T),
         NEW L, Timed(e, w, L), NEW state \in ComputerState, NEW app
  PROVE  Timed(e, OnRecovery(w, state, app), L)
<1> DEFINE forced == ObserveStateForced(w, state, L)
<1>1. w \in Works(T) /\ Sealed(e.st, w.st, T) /\ L \in T /\ w.last = L
  BY DEF SealedBoth, Timed, Works
<1>2. forced \in Works(T) /\ Timed(e, forced, L)
  BY <1>1, ObserveStateForcedReaches, ObserveStateForcedTimed
<1> HIDE DEF forced
<1>3. OnRecovery(w, state, app) = ReconcileForeground(forced, app, L)
  BY <1>1 DEF OnRecovery, forced
<1>4. QED
  BY <1>2, <1>3, ReconcileTimed

LEMMA ResyncTimed ==
  ASSUME NEW T \in SUBSET Nat, NEW e \in Engines(T), NEW w, SealedBoth(e, w, T),
         NEW L, Timed(e, w, L), NEW state \in ComputerState, NEW app
  PROVE  Timed(e, OnResync(w, state, app), L)
<1> DEFINE sealed == IF state \in Live THEN w ELSE CloseForeground(w, L)
           forced == ObserveStateForced(sealed, state, L)
<1>1. /\ w \in Works(T) /\ Sealed(e.fg, w.fg, T) /\ Sealed(e.st, w.st, T)
      /\ L \in T /\ w.last = L
  BY DEF SealedBoth, Timed, Works
<1>2. sealed \in Works(T) /\ Timed(e, sealed, L) /\ sealed.st = w.st
  BY <1>1, CloseForegroundSeals, CloseForegroundTimed
<1> HIDE DEF sealed
<1>3. forced \in Works(T) /\ Timed(e, forced, L)
  BY <1>1, <1>2, ObserveStateForcedReaches, ObserveStateForcedTimed
<1> HIDE DEF forced
<1>4. OnResync(w, state, app) =
        IF w.paused THEN w
        ELSE IF ForegroundAllowed(forced) THEN ReconcileForeground(forced, app, L)
        ELSE CloseForeground(forced, L)
  BY <1>1 DEF OnResync, sealed, forced
<1>5. QED
  BY <1>3, <1>4, ReconcileTimed, CloseForegroundTimed

LEMMA ResumeCollectionTimed ==
  ASSUME NEW T \in SUBSET Nat, NEW e \in Engines(T), NEW w, SealedBoth(e, w, T),
         NEW L, Timed(e, w, L), NEW state \in ComputerState, NEW app
  PROVE  Timed(e, OnResumeCollection(w, state, app), L)
<1> DEFINE running == [w EXCEPT !.paused = FALSE]
           seen == ObserveState(running, state, L)
<1>1. w \in Works(T) /\ Sealed(e.st, w.st, T) /\ L \in T /\ w.last = L
  BY DEF SealedBoth, Timed, Works
<1>2. running \in Works(T) /\ Timed(e, running, L) /\ running.st = w.st
  BY <1>1, PauseFlagTimed, ZenonT(30) DEF Works
<1> HIDE DEF running
<1>3. seen \in Works(T) /\ Timed(e, seen, L)
  BY <1>1, <1>2, ObserveStateReaches, ObserveStateTimed
<1> HIDE DEF seen
<1>4. OnResumeCollection(w, state, app)
        = IF app = None THEN seen ELSE ObserveForeground(seen, app, L)
  BY <1>1 DEF OnResumeCollection, running, seen
<1>5. QED
  BY <1>3, <1>4, ObserveForegroundTimed

\* Both axes are closed and the flag is set, at the effective time.
LEMMA StopTimed ==
  ASSUME NEW T \in SUBSET Nat, NEW e \in Engines(T), NEW w, SealedBoth(e, w, T),
         NEW L, Timed(e, w, L)
  PROVE  Timed(e, OnStop(w, L), L)
<1> DEFINE closed == CloseForeground(w, L)
           sealed == CloseComputerState(closed, L)
<1>1. /\ w \in Works(T) /\ Sealed(e.fg, w.fg, T) /\ Sealed(e.st, w.st, T) /\ L \in T
  BY DEF SealedBoth, Timed, Works
<1>2. closed \in Works(T) /\ Timed(e, closed, L) /\ closed.st = w.st
  BY <1>1, CloseForegroundSeals, CloseForegroundTimed
<1> HIDE DEF closed
<1>3. sealed \in Works(T) /\ Timed(e, sealed, L)
  BY <1>1, <1>2, CloseComputerStateSeals, CloseComputerStateTimed
<1> HIDE DEF sealed
<1>4. OnStop(w, L) = [sealed EXCEPT !.paused = TRUE]
  BY DEF OnStop, sealed, closed
<1>5. Timed(e, [sealed EXCEPT !.paused = TRUE], L)
  BY <1>3, PauseFlagTimed
<1>6. QED
  BY <1>4, <1>5

LEMMA ObserverGapTimed ==
  ASSUME NEW T \in SUBSET Nat, NEW e \in Engines(T), NEW w, SealedBoth(e, w, T),
         NEW L, Timed(e, w, L)
  PROVE  Timed(e, OnObserverGap(w), L)
<1> DEFINE closed == CloseForeground(w, w.fg.open.seen)
           sealed == CloseComputerState(closed, w.st.open.seen)
<1>1. /\ w \in Works(T) /\ Sealed(e.fg, w.fg, T) /\ Sealed(e.st, w.st, T)
      /\ e.fg \in Intervals(App, T) /\ e.st \in Intervals(ComputerState, T)
  BY DEF SealedBoth, Engines
<1>2. /\ w.fg.open.on => w.fg.open = e.fg /\ e.fg.seen \in T
      /\ w.st.open.on => w.st.open = e.st /\ e.st.seen \in T
  <2>1. ~NoInterval.on
    BY DEF NoInterval
  <2>2. /\ w.fg.open.on => w.fg.open = e.fg
        /\ w.st.open.on => w.st.open = e.st
    BY <1>1, <2>1 DEF Sealed
  <2>3. (e.fg.on => e.fg.seen \in T) /\ (e.st.on => e.st.seen \in T)
    <3>1. e.fg.on => e.fg \in [on : {TRUE}, value : App, seen : T]
      BY <1>1, IntervalFields
    <3>2. e.st.on => e.st \in [on : {TRUE}, value : ComputerState, seen : T]
      BY <1>1, IntervalFields
    <3>3. QED
      BY <3>1, <3>2
  <2>4. QED
    BY <2>2, <2>3
<1>3. closed \in Works(T) /\ Timed(e, closed, L) /\ closed.st = w.st
  BY <1>1, <1>2, CloseForegroundSeals, CloseForegroundTimed
<1> HIDE DEF closed
<1>4. sealed \in Works(T) /\ Timed(e, sealed, L) /\ ~sealed.st.open.on
  BY <1>1, <1>2, <1>3, CloseComputerStateSeals, CloseComputerStateTimed
<1> HIDE DEF sealed
<1>5. PICK start : OnObserverGap(w)
        = IF w.paused THEN w ELSE ObserveStateForced(sealed, "unknown", start)
  BY DEF OnObserverGap, sealed, closed
<1>6. QED
  BY <1>1, <1>4, <1>5, ObserveStateForcedTimed

\* Whatever the event, the engine moves to the effective time, and whatever is
\* started or confirmed is so at that time.  Only the foreground close of a
\* WindowsShutdown is neither then nor when the row was last seen.
LEMMA HandleIsTimed ==
  ASSUME NEW T \in SUBSET Nat, NEW e \in Engines(T), Stopped(e.fg, e.st, e.paused),
         NEW ev, WellFormed(ev, T)
  PROVE  LET h == Handle(e, ev)
             L == EffectiveTime(e, ev.at)
         IN /\ h.last = L /\ (h.fg.then # "nothing" => h.fg.at = L) /\ Checked(h.st, L)
            /\ ev.type # "WindowsShutdown" => Timed(e, h, L)
<1> DEFINE w == PrepareTimestamp(e, ev)
           L == EffectiveTime(e, ev.at)
           h == Handle(e, ev)
<1>1. SealedBoth(e, w, T) /\ Timed(e, w, L)
  BY PrepareSeals, PrepareTimed DEF WellFormed
<1>2. w \in Works(T) /\ Sealed(e.st, w.st, T) /\ w.last = L /\ L \in T
  BY <1>1 DEF SealedBoth, Timed, Works
<1>3. h =
        CASE ev.type = "Foreground"            -> ObserveForeground(w, ev.app, w.last)
          [] ev.type = "ForegroundUnavailable" -> CloseForeground(w, w.last)
          [] ev.type = "IdleThresholdCrossed"  -> OnIdleThresholdCrossed(w)
          [] ev.type = "UserActive"            -> OnUserActive(w)
          [] ev.type \in Excluding             -> OnExclusion(w, ExclusionOf(ev.type))
          [] ev.type \in Recovering            -> OnRecovery(w, ev.state, ev.app)
          [] ev.type = "Resync"                -> OnResync(w, ev.state, ev.app)
          [] ev.type = "ObserverGap"           -> OnObserverGap(w)
          [] ev.type = "ResumeCollection"      -> OnResumeCollection(w, ev.state, ev.app)
          [] ev.type = "WindowsShutdown"       -> OnStop(w, ev.at)
          [] OTHER                             -> OnStop(w, w.last)
  BY DEF Handle
<1> HIDE DEF w, L, h
<1>4. SUFFICES IF ev.type # "WindowsShutdown" THEN Timed(e, h, L)
               ELSE h.last = L /\ h.fg.then = "nothing" /\ h.st.then = "nothing"
  BY <1>4 DEF Timed, Dated, Checked, h, L
<1>5. CASE ev.type \in {"Foreground", "ForegroundUnavailable"}
  <2>1. h \in {ObserveForeground(w, ev.app, L), CloseForeground(w, L)}
    BY <1>2, <1>3, <1>5 DEF Recovering, Excluding
  <2>2. QED
    BY <1>1, <1>2, <1>5, <2>1, ObserveForegroundTimed, CloseForegroundTimed
<1>6. CASE ev.type \in {"IdleThresholdCrossed", "UserActive"}
  <2>1. h \in {w, ObserveState(w, "idle", L), ObserveState(w, "active", L)}
    BY <1>2, <1>3, <1>6 DEF Recovering, Excluding, OnIdleThresholdCrossed, OnUserActive
  <2>2. QED
    BY <1>1, <1>2, <1>6, <2>1, ObserveStateTimed
<1>7. CASE ev.type \in Excluding
  <2>1. h = OnExclusion(w, ExclusionOf(ev.type)) /\ ev.type # "WindowsShutdown"
    BY <1>3, <1>7 DEF Recovering, Excluding
  <2>2. QED
    BY <1>1, <2>1, ExclusionTimed
<1>8. CASE ev.type \in Recovering \union {"Resync", "ResumeCollection"}
  <2>1. h \in {OnRecovery(w, ev.state, ev.app), OnResync(w, ev.state, ev.app),
               OnResumeCollection(w, ev.state, ev.app)}
        /\ ev.type # "WindowsShutdown"
    BY <1>3, <1>8 DEF Recovering, Excluding
  <2>2. ev.state \in ComputerState
    BY <1>8 DEF WellFormed
  <2>3. QED
    BY <1>1, <2>1, <2>2, RecoveryTimed, ResyncTimed, ResumeCollectionTimed
<1>9. CASE ev.type = "ObserverGap"
  <2>1. h = OnObserverGap(w)
    BY <1>3, <1>9 DEF Recovering, Excluding
  <2>2. QED
    BY <1>1, <1>9, <2>1, ObserverGapTimed
<1>10. CASE ev.type = "WindowsShutdown"
  <2>1. h = OnStop(w, ev.at)
    BY <1>3, <1>10 DEF Recovering, Excluding
  <2>2. /\ h.fg = CloseAxis(w.fg, ev.at) /\ h.st = CloseAxis(w.st, ev.at) /\ h.last = w.last
        /\ w.fg \in Axes(App, T) /\ w.st \in Axes(ComputerState, T)
    BY <1>2, <2>1 DEF OnStop, CloseComputerState, CloseForeground, Works
  <2>3. w.fg.then = "nothing" /\ w.st.then = "nothing"
    BY <1>1 DEF SealedBoth, Sealed
  <2>4. QED
    BY <1>2, <1>10, <2>2, <2>3, ClosedFields
<1>11. CASE ev.type \notin {"Foreground", "ForegroundUnavailable", "IdleThresholdCrossed",
                            "UserActive", "Resync", "ObserverGap", "ResumeCollection",
                            "WindowsShutdown"}
                           \union Excluding \union Recovering
  <2>1. h = OnStop(w, L)
    BY <1>2, <1>3, <1>11
  <2>2. QED
    BY <1>1, <1>11, <2>1, StopTimed
<1>12. QED
  BY <1>5, <1>6, <1>7, <1>8, <1>9, <1>10, <1>11

\* What the heartbeat says of the user never starts or confirms a foreground.
LEMMA PresenceSealsForeground ==
  ASSUME NEW T \in SUBSET Nat, NEW e \in Engines(T), Stopped(e.fg, e.st, e.paused),
         NEW ev, ev.at \in T, ev.type \in {"IdleThresholdCrossed", "UserActive"}
  PROVE  Sealed(e.fg, Handle(e, ev).fg, T)
<1> DEFINE w == PrepareTimestamp(e, ev)
<1>1. w \in Works(T) /\ Sealed(e.fg, w.fg, T) /\ Sealed(e.st, w.st, T) /\ w.last \in T
  BY PrepareSeals DEF SealedBoth, Works
<1>2. Handle(e, ev) \in {w, ObserveState(w, "idle", w.last), ObserveState(w, "active", w.last)}
  BY DEF Handle, Recovering, Excluding, OnIdleThresholdCrossed, OnUserActive
<1> HIDE DEF w
<1>3. "idle" \in ComputerState /\ "active" \in ComputerState
  BY DEF ComputerState, Live
<1>4. /\ ObserveState(w, "idle", w.last).fg = w.fg
      /\ ObserveState(w, "active", w.last).fg = w.fg
  BY <1>1, <1>3, ObserveStateReaches
<1>5. QED
  BY <1>1, <1>2, <1>4

-----------------------------------------------------------------------------
(* One axis of the book.                                                   *)

\* What is open lags behind `mark`, the time the database knows, by less than
\* a checkpoint interval; an axis without a checkpoint was marked at once.
Lag(iv, mark, cp) ==
  IF iv.on
  THEN \/ cp = 0 /\ iv.seen <= mark
       \/ cp <= mark /\ iv.seen < mark + CheckpointInterval
  ELSE cp = 0

\* The open row begins no earlier than the closed ones ended, and than `res`.
Orderly(row, end, res) == row.on => row.start >= end /\ row.start >= res

\* The steps of IntervalAxis but Erase, as a relation of rows.
AxisStep(r, end, s, fin) ==
  \/ s = r /\ fin = end
  \/ ~r.on /\ s.on /\ s.start >= end /\ s.seen = s.start /\ fin = end
  \/ r.on /\ s.seen >= r.seen /\ s = [r EXCEPT !.seen = s.seen] /\ fin = end
  \/ r.on /\ s = NoRow /\ fin >= r.seen /\ fin >= end
  \/ r.on /\ s.on /\ fin >= r.seen /\ fin >= end /\ s.start >= fin /\ s.seen = s.start

LEMMA LagStep ==
  ASSUME NEW V, NEW L \in Nat, L >= CheckpointInterval,
         NEW iv \in Intervals(V, 0 .. L), NEW axis \in Axes(V, 0 .. L),
         NEW cp \in Nat, NEW mark \in Nat, NEW marked \in Nat,
         Reached(iv, axis, 0 .. L), Checked(axis, L), Lag(iv, mark, cp),
         axis.then # "start" /\ axis.open.on => marked >= mark,
         axis.then = "start" => marked >= axis.at,
         axis.then = "checkpoint" /\ Due(cp, axis.at) => marked >= axis.at
  PROVE  Lag(axis.open, marked, CheckpointAfter(cp, axis))
<1> USE CheckpointAssumption
<1>1. iv.on \in BOOLEAN /\ (iv.on => iv.seen \in 0 .. L) /\ ~NoInterval.on
  <2>1. iv.on => iv \in [on : {TRUE}, value : V, seen : 0 .. L]
    BY IntervalFields
  <2>2. QED
    BY <2>1, IntervalFields
<1>2. None \notin 0 .. L
  BY NoneAssumption
<1>3. CASE Sealed(iv, axis, 0 .. L)
  <2>1. CASE axis.open = iv /\ axis.close = None
    <3>1. CheckpointAfter(cp, axis) = cp
      BY <1>3, <2>1 DEF CheckpointAfter, Sealed
    <3>2. CASE iv.on
      <4>1. marked >= mark /\ iv.seen \in Nat
        BY <1>1, <1>3, <2>1, <3>2 DEF Sealed
      <4>2. QED
        BY <2>1, <3>1, <3>2, <4>1 DEF Lag
    <3>3. QED
      BY <2>1, <3>1, <3>2 DEF Lag
  <2>2. CASE axis.open = NoInterval /\ axis.close \in 0 .. L
    <3>1. CheckpointAfter(cp, axis) = 0
      BY <1>2, <1>3, <2>2 DEF CheckpointAfter, Sealed
    <3>2. QED
      BY <1>1, <2>2, <3>1 DEF Lag
  <2>3. QED
    BY <1>3, <2>1, <2>2 DEF Sealed
<1>4. CASE Started(iv, axis, 0 .. L)
  <2>1. axis.open.on /\ axis.open.seen <= marked
    BY <1>4 DEF Started
  <2>2. CheckpointAfter(cp, axis) = 0
    BY <1>2, <1>4 DEF CheckpointAfter, Started, Lag
  <2>3. QED
    BY <2>1, <2>2 DEF Lag
<1>5. CASE Confirmed(iv, axis, 0 .. L)
  <2>1. /\ axis.then = "checkpoint" /\ axis.at = L /\ axis.close = None
        /\ iv.on /\ axis.open.on /\ axis.open.seen = Later(iv.seen, L)
    BY <1>5 DEF Confirmed, Checked
  <2>2. axis.open.seen = L
    BY <1>1, <2>1 DEF Later
  <2>3. CASE Due(cp, L)
    <3>1. CheckpointAfter(cp, axis) = L /\ marked >= L
      BY <2>1, <2>3 DEF CheckpointAfter
    <3>2. QED
      BY <2>1, <2>2, <3>1 DEF Lag
  <2>4. CASE ~Due(cp, L)
    <3>1. CheckpointAfter(cp, axis) = cp
      BY <2>1, <2>4 DEF CheckpointAfter
    <3>2. L < cp + CheckpointInterval
      BY <2>4 DEF Due
    <3>3. cp <= mark /\ marked >= mark
      BY <2>1, <3>2 DEF Lag
    <3>4. QED
      BY <2>1, <2>2, <3>1, <3>2, <3>3 DEF Lag
  <2>5. QED
    BY <2>3, <2>4
<1>6. QED
  BY <1>3, <1>4, <1>5 DEF Reached

\* Foreground: what the batch of an event at base L does to a row that keeps
\* its order, and that it is a step of IntervalAxis when it closes in time.
LEMMA ForegroundStep ==
  ASSUME NEW V, NEW L \in Nat, L >= CheckpointInterval,
         NEW iv \in Intervals(V, 0 .. L), NEW axis \in Axes(V, 0 .. L),
         NEW row \in OpenRows(V), NEW cp \in Boot, NEW end \in Boot, NEW res \in Nat,
         AxisMatches(iv, row), Reached(iv, axis, 0 .. L),
         axis.then # "nothing" => axis.at = L,
         Orderly(row, end, res), Lag(iv, row.seen, cp), end <= L, res <= L
  PROVE  LET after == RowAfter(row, cp, axis)
             fin == EndAfter(row, end, axis)
         IN /\ fin <= L /\ Orderly(after, fin, res)
            /\ Lag(axis.open, after.seen, CheckpointAfter(cp, axis))
            /\ ~row.on /\ after.on => after.start = L
            /\ Dated(iv, axis, L) => AxisStep(row, end, after, fin)
<1> DEFINE after == RowAfter(row, cp, axis)
           fin == EndAfter(row, end, axis)
<1>1. /\ row.on \in BOOLEAN /\ ~NoRow.on /\ ~NoInterval.on
      /\ row.on => row \in [on : {TRUE}, value : V, start : Nat, seen : Nat]
      /\ ~row.on => row = NoRow
      /\ row.start \in Nat /\ row.seen \in Nat /\ end \in Nat /\ cp \in Nat
  BY RowFields, TimeIsNatural DEF NoInterval
<1>2. /\ iv.on = row.on /\ iv.on \in BOOLEAN
      /\ iv.on => iv.seen \in 0 .. L /\ row.start <= iv.seen /\ row.seen <= iv.seen
  <2>1. iv.on => iv \in [on : {TRUE}, value : V, seen : 0 .. L]
    BY IntervalFields
  <2>2. QED
    BY <2>1, IntervalFields DEF AxisMatches
<1>3. None \notin 0 .. L
  BY NoneAssumption
<1>4. ASSUME axis.close = None PROVE fin = end
  BY <1>4 DEF EndAfter
<1>5. ASSUME row.on, axis.close \in 0 .. L
      PROVE  /\ fin \in Nat /\ fin <= L /\ fin >= end
             /\ Dated(iv, axis, L) => fin >= row.seen
  <2>1. fin = Later(end, Later(row.start, axis.close))
    BY <1>3, <1>5 DEF EndAfter
  <2>2. Dated(iv, axis, L) => axis.close >= row.seen
    <3>1. iv.seen >= row.seen /\ L >= row.seen
      BY <1>1, <1>2, <1>5
    <3>2. axis.close # None
      BY <1>3, <1>5
    <3>3. QED
      BY <3>1, <3>2 DEF Dated
  <2>3. QED
    BY <1>1, <1>2, <1>5, <2>1, <2>2 DEF Later
<1>6. CASE Sealed(iv, axis, 0 .. L)
  <2>1. CASE axis.open = iv /\ axis.close = None
    <3>1. after = row /\ fin = end
      BY <1>4, <1>6, <2>1 DEF Sealed, RowAfter
    <3> HIDE DEF after, fin
    <3>2. Lag(axis.open, after.seen, CheckpointAfter(cp, axis))
      BY <1>1, <1>6, <2>1, <3>1 DEF Sealed, CheckpointAfter
    <3>3. QED
      BY <3>1, <3>2 DEF AxisStep, after, fin
  <2>2. CASE iv.on /\ axis.open = NoInterval /\ axis.close \in 0 .. L
    <3>1. after = NoRow
      BY <1>3, <1>6, <2>2 DEF Sealed, RowAfter
    <3>2. fin <= L /\ fin >= end /\ (Dated(iv, axis, L) => fin >= row.seen)
      BY <1>2, <1>5, <2>2
    <3>3. CheckpointAfter(cp, axis) = 0
      BY <1>3, <1>6, <2>2 DEF Sealed, CheckpointAfter
    <3> HIDE DEF after, fin
    <3>4. Orderly(after, fin, res) /\ Lag(axis.open, after.seen, CheckpointAfter(cp, axis))
      BY <1>1, <2>2, <3>1, <3>3 DEF Orderly, Lag
    <3>5. QED
      BY <1>1, <1>2, <2>2, <3>1, <3>2, <3>4 DEF AxisStep, after, fin
  <2>3. QED
    BY <1>6, <2>1, <2>2 DEF Sealed
<1>7. CASE Started(iv, axis, 0 .. L)
  <2>1. axis.at = L /\ axis.then = "start" /\ axis.open.on /\ axis.open.seen = L
    BY <1>7 DEF Started
  <2>2. after.on /\ after.start = L /\ after.seen = L
    BY <2>1 DEF RowAfter, Row
  <2>3. CASE row.on
    <3>1. fin \in Nat /\ fin <= L /\ fin >= end /\ (Dated(iv, axis, L) => fin >= row.seen)
      BY <1>2, <1>5, <1>7, <2>3 DEF Started
    <3> HIDE DEF after, fin
    <3>2. Orderly(after, fin, res) /\ (Dated(iv, axis, L) => AxisStep(row, end, after, fin))
      BY <2>2, <2>3, <3>1 DEF Orderly, AxisStep
    <3>3. Lag(axis.open, after.seen, CheckpointAfter(cp, axis))
      BY <1>2, <1>3, <1>7, <2>1, <2>2, <2>3 DEF Started, CheckpointAfter, Lag
    <3>4. QED
      BY <2>3, <3>1, <3>2, <3>3 DEF after, fin
  <2>4. CASE ~row.on
    <3>1. fin = end
      BY <1>2, <1>4, <1>7, <2>4 DEF Started
    <3> HIDE DEF after, fin
    <3>2. Orderly(after, fin, res) /\ AxisStep(row, end, after, fin)
      BY <2>2, <2>4, <3>1 DEF Orderly, AxisStep
    <3>3. Lag(axis.open, after.seen, CheckpointAfter(cp, axis))
      BY <1>2, <1>7, <2>1, <2>2, <2>4 DEF Started, CheckpointAfter, Lag
    <3>4. QED
      BY <2>2, <3>1, <3>2, <3>3 DEF after, fin
  <2>5. QED
    BY <1>1, <2>3, <2>4
<1>8. CASE Confirmed(iv, axis, 0 .. L)
  <2>1. /\ axis.at = L /\ axis.then = "checkpoint" /\ axis.close = None
        /\ iv.on /\ row.on /\ axis.open.on
    BY <1>2, <1>8 DEF Confirmed
  <2>2. fin = end
    BY <1>4, <2>1
  <2>3. after = IF Due(cp, L) THEN [row EXCEPT !.seen = Later(row.seen, L)] ELSE row
    BY <2>1 DEF RowAfter
  <2>4. row = [on |-> row.on, value |-> row.value, start |-> row.start, seen |-> row.seen]
    BY <1>1, <2>1
  <2> HIDE DEF after, fin
  <2>5. /\ after.on /\ after.start = row.start /\ after.seen \in Nat /\ after.seen >= row.seen
        /\ after = [row EXCEPT !.seen = after.seen]
        /\ Due(cp, L) => after.seen >= L
    <3>1. CASE Due(cp, L)
      BY <1>1, <2>1, <2>3, <2>4, <3>1 DEF Later
    <3>2. CASE ~Due(cp, L)
      BY <1>1, <2>1, <2>3, <2>4, <3>2
    <3>3. QED
      BY <3>1, <3>2
  <2>6. Orderly(after, fin, res) /\ AxisStep(row, end, after, fin)
    BY <2>1, <2>2, <2>5 DEF Orderly, AxisStep
  <2>7. Lag(axis.open, after.seen, CheckpointAfter(cp, axis))
    BY <1>1, <1>8, <2>1, <2>5, LagStep DEF Reached, Checked
  <2>8. QED
    BY <2>1, <2>2, <2>6, <2>7 DEF after, fin
<1>9. QED
  BY <1>6, <1>7, <1>8 DEF Reached

\* Computer state: nothing is written past `top`, and the heartbeat setting
\* keeps up with what is open.
LEMMA StateStep ==
  ASSUME NEW L \in Nat, L >= CheckpointInterval, NEW top \in Nat, L <= top,
         NEW iv \in Intervals(ComputerState, 0 .. L),
         NEW axis \in Axes(ComputerState, 0 .. L), NEW s \in Stores,
         AxisMatches(iv, s.st), Reached(iv, axis, 0 .. L), Checked(axis, L),
         Lag(iv, s.heartbeat, s.stCp), s.stEnd <= top, s.heartbeat <= top
  PROVE  /\ EndAfter(s.st, s.stEnd, axis) <= top /\ HeartbeatAfter(s, axis) <= top
         /\ Lag(axis.open, HeartbeatAfter(s, axis), CheckpointAfter(s.stCp, axis))
<1> DEFINE beat == HeartbeatAfter(s, axis)
<1>1. /\ s.st \in OpenRows(ComputerState) /\ s.stCp \in Nat /\ s.stEnd \in Nat
      /\ s.heartbeat \in Nat
  BY TimeIsNatural DEF Stores
<1>2. /\ axis.close # None => axis.close \in Nat /\ axis.close <= L
      /\ axis.at \in Nat /\ axis.at <= L
  BY DEF Axes
<1>3. s.st.start \in Nat /\ s.st.start <= top
  <2>1. CASE s.st.on
    <3>1. iv.on /\ s.st.start <= iv.seen
      BY <2>1 DEF AxisMatches
    <3>2. iv.seen \in 0 .. L
      <4>1. iv \in [on : {TRUE}, value : ComputerState, seen : 0 .. L]
        BY <3>1, IntervalFields
      <4>2. QED
        BY <4>1
    <3>3. s.st.start \in Nat
      BY <1>1, RowFields, TimeIsNatural
    <3>4. QED
      BY <3>1, <3>2, <3>3
  <2>2. CASE ~s.st.on
    <3>1. s.st = NoRow
      BY <1>1, <2>2, RowFields
    <3>2. QED
      BY <3>1 DEF NoRow
  <2>3. QED
    BY <2>1, <2>2
<1>4. EndAfter(s.st, s.stEnd, axis) <= top
  <2>1. CASE axis.close = None
    BY <2>1 DEF EndAfter
  <2>2. CASE axis.close # None
    <3>1. EndAfter(s.st, s.stEnd, axis) = Later(s.stEnd, Later(s.st.start, axis.close))
      BY <2>2 DEF EndAfter
    <3>2. axis.close \in Nat /\ axis.close <= top
      BY <1>2, <2>2
    <3>3. QED
      BY <1>1, <1>3, <3>1, <3>2 DEF Later
  <2>3. QED
    BY <2>1, <2>2
<1>5. /\ beat \in Nat /\ beat <= top /\ beat >= s.heartbeat
      /\ axis.then = "start" => beat >= axis.at
      /\ axis.then = "checkpoint" /\ Due(s.stCp, axis.at) => beat >= axis.at
  <2> DEFINE closed == IF axis.close = None THEN s.heartbeat ELSE Later(s.heartbeat, axis.close)
  <2>1. closed \in Nat /\ closed <= top /\ closed >= s.heartbeat
    BY <1>1, <1>2 DEF Later
  <2>2. beat = IF axis.then = "start" \/ (axis.then = "checkpoint" /\ Due(s.stCp, axis.at))
               THEN Later(closed, axis.at) ELSE closed
    BY DEF HeartbeatAfter
  <2> HIDE DEF closed, beat
  <2>3. QED
    BY <1>1, <1>2, <2>1, <2>2 DEF Later
<1> HIDE DEF beat
<1>6. Lag(axis.open, beat, CheckpointAfter(s.stCp, axis))
  BY <1>1, <1>5, LagStep
<1>7. QED
  BY <1>4, <1>5, <1>6 DEF beat

-----------------------------------------------------------------------------
(* The book.                                                               *)

\* The time the engine has reached: that of the last event, or of the start.
Base(e, lo) == IF e.last = None THEN lo ELSE e.last

\* A book of a process that came up at `lo`, (re)started collecting at `res`
\* and has seen no time after `top`.
Times(e, s, lo, res, top) ==
  /\ lo \in Time /\ res \in Time /\ top \in Time
  /\ lo <= res /\ res <= Base(e, lo) /\ Base(e, lo) <= top
  /\ e.fg.on => e.fg.seen <= Base(e, lo)
  /\ e.st.on => e.st.seen <= Base(e, lo)
  /\ s.fgEnd <= Base(e, lo) /\ Orderly(s.fg, s.fgEnd, res)
  /\ Lag(e.fg, s.fg.seen, s.fgCp) /\ Lag(e.st, s.heartbeat, s.stCp)
  /\ s.stEnd <= top /\ s.heartbeat <= top

\* Nothing in the database is later than `top`.
NoneLater(s, top) ==
  /\ s.fg.start <= top /\ s.fg.seen <= top /\ s.fgEnd <= top
  /\ s.st.start <= top /\ s.stEnd <= top /\ s.heartbeat <= top

LEMMA BaseIsTyped ==
  ASSUME NEW e \in Engines(Time), NEW lo \in Time
  PROVE  Base(e, lo) \in Time
BY DEF Base, Engines

\* An interval seen by the base is one of a timeline that ends there.
LEMMA IntervalWithin ==
  ASSUME NEW V, NEW iv \in Intervals(V, Time), NEW L \in Nat, iv.on => iv.seen <= L
  PROVE  iv \in Intervals(V, 0 .. L)
<1>1. CASE iv = NoInterval
  BY <1>1 DEF Intervals
<1>2. CASE iv \in [on : {TRUE}, value : V, seen : Time]
  <2>1. iv.on /\ iv.seen \in Nat
    BY <1>2, TimeIsNatural
  <2>2. iv.seen \in 0 .. L
    BY <2>1
  <2>3. iv \in [on : {TRUE}, value : V, seen : 0 .. L]
    BY <1>2, <2>2
  <2>4. QED
    BY <2>3 DEF Intervals
<1>3. QED
  BY <1>1, <1>2 DEF Intervals

\* Handling an event stamped within the life of the process keeps the book's
\* times, and is a step of the foreground axis unless Windows shuts down.
LEMMA HandledInTime ==
  ASSUME NEW e, NEW s, NEW lo, NEW res, NEW top, Sound(e, s), Times(e, s, lo, res, top),
         NEW ev, WellFormed(ev, Time), lo <= ev.at, ev.at <= top
  PROVE  LET f == Committed(Handle(e, ev))
             t == Applied(s, Handle(e, ev))
         IN /\ Times(f, t, lo, res, top)
            /\ f.last = Later(Base(e, lo), ev.at)
            /\ ~s.fg.on /\ t.fg.on => t.fg.start = f.last
            /\ ev.type # "WindowsShutdown" => AxisStep(s.fg, s.fgEnd, t.fg, t.fgEnd)
<1> DEFINE h == Handle(e, ev)
           L == Later(Base(e, lo), ev.at)
           f == Committed(h)
           t == Applied(s, h)
<1>1. /\ e \in Engines(Time) /\ s \in Stores /\ Stopped(e.fg, e.st, e.paused)
      /\ AxisMatches(e.fg, s.fg) /\ AxisMatches(e.st, s.st)
      /\ lo \in Time /\ res \in Time /\ top \in Time /\ ev.at \in Time
  BY DEF Sound, Matches, Times, WellFormed
<1>2. /\ Base(e, lo) \in Nat /\ res <= Base(e, lo) /\ Base(e, lo) <= top /\ lo <= Base(e, lo)
      /\ lo \in Nat /\ res \in Nat /\ top \in Nat /\ ev.at \in Nat
      /\ lo >= CheckpointInterval
  <2>1. Base(e, lo) \in Nat /\ lo \in Nat /\ res \in Nat /\ top \in Nat /\ ev.at \in Nat
    BY <1>1, BaseIsTyped, TimeIsNatural
  <2>2. lo >= CheckpointInterval
    BY <1>1, TimelineAssumption, CheckpointAssumption DEF Time
  <2>3. QED
    BY <2>1, <2>2 DEF Times
<1>3. /\ L \in Nat /\ Base(e, lo) <= L /\ ev.at <= L /\ L <= top /\ L >= CheckpointInterval
      /\ res <= L
  BY <1>2, CheckpointAssumption DEF Later
<1>4. EffectiveTime(e, ev.at) = L
  BY <1>2 DEF EffectiveTime, Base, Later
<1>5. e \in Engines(0 .. L)
  <2>1. /\ e.fg \in Intervals(App, Time) /\ e.st \in Intervals(ComputerState, Time)
        /\ e.last \in Time \union {None} /\ e.paused \in BOOLEAN
    BY <1>1 DEF Engines
  <2>2. (e.fg.on => e.fg.seen <= L) /\ (e.st.on => e.st.seen <= L)
    <3>1. (e.fg.on => e.fg.seen \in Nat) /\ (e.st.on => e.st.seen \in Nat)
      <4>1. e.fg.on => e.fg \in [on : {TRUE}, value : App, seen : Time]
        BY <2>1, IntervalFields
      <4>2. e.st.on => e.st \in [on : {TRUE}, value : ComputerState, seen : Time]
        BY <2>1, IntervalFields
      <4>3. QED
        BY <4>1, <4>2, TimeIsNatural
    <3>2. QED
      BY <1>2, <1>3, <3>1 DEF Times
  <2>3. e.fg \in Intervals(App, 0 .. L) /\ e.st \in Intervals(ComputerState, 0 .. L)
    BY <1>3, <2>1, <2>2, IntervalWithin
  <2>4. e.last \in 0 .. L \union {None}
    BY <1>2, <1>3, <2>1 DEF Base
  <2>5. e = [fg |-> e.fg, st |-> e.st, last |-> e.last, paused |-> e.paused]
    BY <1>1 DEF Engines
  <2>6. QED
    BY <2>1, <2>3, <2>4, <2>5 DEF Engines
<1>6. WellFormed(ev, 0 .. L)
  BY <1>2, <1>3 DEF WellFormed
<1>7. 0 .. L \in SUBSET Nat
  BY <1>3
<1>8. ReachedBoth(e, h, 0 .. L)
  BY <1>1, <1>5, <1>6, <1>7, HandleReaches
<1>9. /\ h.last = L /\ (h.fg.then # "nothing" => h.fg.at = L) /\ Checked(h.st, L)
      /\ ev.type # "WindowsShutdown" => Dated(e.fg, h.fg, L)
  BY <1>1, <1>4, <1>5, <1>6, <1>7, HandleIsTimed DEF Timed
<1> HIDE DEF h, L
<1>10. /\ e.fg \in Intervals(App, 0 .. L) /\ e.st \in Intervals(ComputerState, 0 .. L)
       /\ h.fg \in Axes(App, 0 .. L) /\ h.st \in Axes(ComputerState, 0 .. L)
       /\ Reached(e.fg, h.fg, 0 .. L) /\ Reached(e.st, h.st, 0 .. L)
       /\ s.fg \in OpenRows(App) /\ s.fgCp \in Boot /\ s.fgEnd \in Boot
  BY <1>1, <1>5, <1>8 DEF Engines, ReachedBoth, Works, Stores
<1>11. /\ Orderly(s.fg, s.fgEnd, res) /\ Lag(e.fg, s.fg.seen, s.fgCp)
       /\ Lag(e.st, s.heartbeat, s.stCp) /\ s.fgEnd <= Base(e, lo)
       /\ s.stEnd <= top /\ s.heartbeat <= top
  BY DEF Times
<1>12. s.fgEnd <= L
  <2>1. s.fgEnd \in Nat
    BY <1>10, TimeIsNatural
  <2>2. QED
    BY <1>2, <1>3, <1>11, <2>1
<1>13. /\ t.fgEnd <= L /\ Orderly(t.fg, t.fgEnd, res) /\ Lag(f.fg, t.fg.seen, t.fgCp)
       /\ ~s.fg.on /\ t.fg.on => t.fg.start = L
       /\ ev.type # "WindowsShutdown" => AxisStep(s.fg, s.fgEnd, t.fg, t.fgEnd)
  <2>1. /\ t.fg = RowAfter(s.fg, s.fgCp, h.fg) /\ t.fgEnd = EndAfter(s.fg, s.fgEnd, h.fg)
        /\ t.fgCp = CheckpointAfter(s.fgCp, h.fg) /\ f.fg = h.fg.open
    BY DEF Applied, Committed
  <2> HIDE DEF t, f
  <2>2. QED
    BY <1>1, <1>2, <1>3, <1>9, <1>10, <1>11, <1>12, <2>1, ForegroundStep
<1>14. t.stEnd <= top /\ t.heartbeat <= top /\ Lag(f.st, t.heartbeat, t.stCp)
  <2>1. /\ t.stEnd = EndAfter(s.st, s.stEnd, h.st) /\ t.heartbeat = HeartbeatAfter(s, h.st)
        /\ t.stCp = CheckpointAfter(s.stCp, h.st) /\ f.st = h.st.open
    BY DEF Applied, Committed
  <2> HIDE DEF t, f
  <2>2. QED
    BY <1>1, <1>2, <1>3, <1>9, <1>10, <1>11, <2>1, StateStep
<1>15. f.last = L /\ Base(f, lo) = L
  <2>1. f.last = h.last
    BY DEF Committed
  <2>2. L # None
    BY <1>3, NoneAssumption
  <2>3. QED
    BY <1>9, <2>1, <2>2 DEF Base
<1>16. (f.fg.on => f.fg.seen <= L) /\ (f.st.on => f.st.seen <= L)
  <2>1. f.fg \in Intervals(App, 0 .. L) /\ f.st \in Intervals(ComputerState, 0 .. L)
    BY <1>10 DEF Committed, Axes
  <2> HIDE DEF f
  <2>2. f.fg.on => f.fg \in [on : {TRUE}, value : App, seen : 0 .. L]
    BY <2>1, IntervalFields
  <2>3. f.st.on => f.st \in [on : {TRUE}, value : ComputerState, seen : 0 .. L]
    BY <2>1, IntervalFields
  <2>4. f.fg.on => f.fg.seen \in 0 .. L
    BY <2>2
  <2>5. f.st.on => f.st.seen \in 0 .. L
    BY <2>3
  <2>6. QED
    BY <1>3, <2>4, <2>5
<1> HIDE DEF f, t
<1>17. Times(f, t, lo, res, top)
  <2>1. lo <= res
    BY DEF Times
  <2>2. QED
    BY <1>1, <1>3, <1>13, <1>14, <1>15, <1>16, <2>1 DEF Times
<1>18. QED
  BY <1>13, <1>15, <1>17 DEF f, t, h, L

\* A row is no later than what the engine has seen open, so neither is the book.
LEMMA TimesBound ==
  ASSUME NEW e, NEW s, NEW lo, NEW res, NEW top, Sound(e, s), Times(e, s, lo, res, top)
  PROVE  NoneLater(s, top)
<1>1. /\ e \in Engines(Time) /\ s \in Stores
      /\ AxisMatches(e.fg, s.fg) /\ AxisMatches(e.st, s.st)
      /\ lo \in Time /\ top \in Time
  BY DEF Sound, Matches, Times
<1>2. Base(e, lo) \in Nat /\ Base(e, lo) <= top /\ top \in Nat
  BY <1>1, BaseIsTyped, TimeIsNatural DEF Times
<1>3. ASSUME NEW V, NEW iv \in Intervals(V, Time), NEW row \in OpenRows(V),
             AxisMatches(iv, row), iv.on => iv.seen <= Base(e, lo)
      PROVE  row.start <= top /\ row.seen <= top
  <2>1. CASE ~row.on
    <3>1. row = NoRow
      BY <1>3, <2>1, RowFields
    <3>2. QED
      BY <1>2, <3>1 DEF NoRow
  <2>2. CASE row.on
    <3>1. iv.on /\ row.start <= iv.seen /\ row.seen <= iv.seen
      BY <1>3, <2>2 DEF AxisMatches
    <3>2. iv \in [on : {TRUE}, value : V, seen : Time]
      BY <1>3, <3>1, IntervalFields
    <3>3. iv.seen \in Nat /\ row.start \in Nat /\ row.seen \in Nat
      BY <1>3, <3>2, RowFields, TimeIsNatural
    <3>4. QED
      BY <1>2, <1>3, <3>1, <3>3
  <2>3. QED
    BY <2>1, <2>2
<1>4. s.fg.start <= top /\ s.fg.seen <= top
  <2>1. e.fg \in Intervals(App, Time) /\ s.fg \in OpenRows(App)
    BY <1>1 DEF Engines, Stores
  <2>2. QED
    BY <1>1, <1>3, <2>1 DEF Times
<1>5. s.st.start <= top
  <2>1. e.st \in Intervals(ComputerState, Time) /\ s.st \in OpenRows(ComputerState)
    BY <1>1 DEF Engines, Stores
  <2>2. QED
    BY <1>1, <1>3, <2>1 DEF Times
<1>6. s.fgEnd <= top
  <2>1. s.fgEnd \in Nat /\ s.fgEnd <= Base(e, lo)
    BY <1>1, TimeIsNatural DEF Stores, Times
  <2>2. QED
    BY <1>2, <2>1
<1>7. QED
  BY <1>4, <1>5, <1>6 DEF NoneLater, Times

\* A process that has just begun with nothing open.
LEMMA FreshInTime ==
  ASSUME NEW s \in Stores, s.fg = NoRow, s.fgCp = 0, s.stCp = 0,
         NEW lo \in Time, NEW top \in Time, lo <= top,
         s.fgEnd <= lo, s.stEnd <= top, s.heartbeat <= top
  PROVE  Times(NewEngine, s, lo, lo, top)
<1>1. Base(NewEngine, lo) = lo /\ ~NewEngine.fg.on /\ ~NewEngine.st.on
  BY DEF Base, NewEngine, NoInterval
<1>2. ~s.fg.on
  BY DEF NoRow
<1>3. lo \in Nat
  BY TimeIsNatural
<1>4. QED
  BY <1>1, <1>2, <1>3 DEF Times, Orderly, Lag

-----------------------------------------------------------------------------
(* The collector.                                                          *)

\* The inductive invariant: a running collector's book is in time, and a
\* database left behind holds nothing later than when it was.
InTime ==
  /\ IInv /\ process # "panicked" /\ since <= now
  /\ process = "running" =>
       /\ Times(engine, store, since, resumed, now)
       /\ lastObs # None => since <= lastObs /\ lastObs <= now
  /\ process = "down" => lastObs = None /\ NoneLater(store, since)

\* What a step may do to the foreground rows.
ForegroundMoves ==
  \/ AxisStep(store.fg, store.fgEnd, store'.fg, store'.fgEnd)
  \/ store'.fg = NoRow /\ store'.fgEnd = 0

LEMMA InitIsInTime == Init => InTime
<1> SUFFICES ASSUME Init PROVE InTime
  OBVIOUS
<1>1. IInv
  BY InitEstablishesIInv
<1>2. store \in Stores /\ StartTime \in Time /\ StartTime \in Nat
  BY <1>1, TypeOKParts, TimeIsNatural DEF IInv
<1>3. /\ store.fg = NoRow /\ store.fgCp = 0 /\ store.stCp = 0 /\ store.fgEnd = 0
      /\ store.stEnd = 0 /\ store.heartbeat = StartTime
  BY DEF Init, EmptyStore
<1>4. Times(NewEngine, store, StartTime, StartTime, StartTime)
  BY <1>2, <1>3, FreshInTime
<1>5. QED
  BY <1>1, <1>2, <1>4 DEF Init, InTime

\* The same as HandledInTime, as the actions say it.
LEMMA ApplyInTime ==
  ASSUME Sound(engine, store), Times(engine, store, since, resumed, now),
         NEW ev, WellFormed(ev, Time), since <= ev.at, ev.at <= now
  PROVE  LET f == Applying(Book, ev).engine
             t == Applying(Book, ev).store
         IN /\ Sound(f, t) /\ Times(f, t, since, resumed, now)
            /\ f.last = Later(Base(engine, since), ev.at)
            /\ ~store.fg.on /\ t.fg.on => t.fg.start = f.last
            /\ ev.type # "WindowsShutdown" => AxisStep(store.fg, store.fgEnd, t.fg, t.fgEnd)
            /\ Apply(ev) => engine' = f /\ store' = t
<1>1. /\ Applying(Book, ev).engine = Committed(Handle(engine, ev))
      /\ Applying(Book, ev).store = Applied(store, Handle(engine, ev))
  BY DEF Applying, Book
<1>2. Apply(ev) => /\ engine' = Committed(Handle(engine, ev))
                   /\ store' = Applied(store, Handle(engine, ev))
  BY DEF Apply
<1>3. QED
  BY <1>1, <1>2, HandledInTime, HandledIsSound

\* Platform events are stamped while the process runs and before they arrive.
LEMMA PlatformEventIsStamped ==
  ASSUME OthersOK, NEW ev \in PlatformEvents
  PROVE  since <= ev.at /\ ev.at <= now /\ ev.type \in Kinds
<1> DEFINE Stamps == Later(since, now - MaxDelay) .. now
<1>1. PICK t \in Kinds, at \in Stamps : \E a, s : ev = Event(t, at, a, s)
  BY DEF PlatformEvents
<1>2. ev.type = t /\ ev.at = at
  BY <1>1, EventFields
<1>3. since \in Nat /\ now \in Nat /\ MaxDelay \in Nat
  BY TimelineAssumption, TimeIsNatural DEF OthersOK
<1>4. at \in Nat /\ since <= at /\ at <= now
  BY <1>3 DEF Later
<1>5. QED
  BY <1>2, <1>4

\* The presence of the user is reported between the last heartbeat and now.
LEMMA PresenceIsStamped ==
  ASSUME OthersOK, since <= now, lastObs # None => since <= lastObs /\ lastObs <= now
  PROVE  /\ since <= Presence.at /\ Presence.at <= now
         /\ Presence.type \in {"IdleThresholdCrossed", "UserActive"}
<1>1. since \in Nat /\ now \in Nat /\ input \in Int /\ input + IdleThreshold \in Int
  BY TimelineAssumption, TimeIsNatural DEF OthersOK, Time
<1>2. Previous \in Nat /\ since <= Previous /\ Previous <= now
  BY <1>1, TimeIsNatural DEF Previous, OthersOK
<1>3. ASSUME NEW x \in Int PROVE since <= Clamped(x) /\ Clamped(x) <= now
  BY <1>1, <1>2 DEF Clamped, Later, Earlier
<1>4. \/ Presence = Event("IdleThresholdCrossed", Clamped(input + IdleThreshold), None, None)
      \/ Presence = Event("UserActive", Clamped(input), None, None)
  BY DEF Presence
<1>5. QED
  BY <1>1, <1>3, <1>4, EventFields

\* A heartbeat is two writes in one step.  The first at most seals the
\* foreground, so that together they are one step of the axis.
LEMMA SealedRow ==
  ASSUME NEW iv, NEW axis, NEW T \in SUBSET Nat, NEW row, NEW cp, NEW end,
         iv.on = row.on, Sealed(iv, axis, T)
  PROVE  \/ RowAfter(row, cp, axis) = row /\ EndAfter(row, end, axis) = end
         \/ row.on /\ RowAfter(row, cp, axis) = NoRow
<1>1. None \notin T
  BY NoneAssumption
<1>2. QED
  BY <1>1 DEF Sealed, RowAfter, EndAfter

LEMMA AxisStepsJoin ==
  ASSUME NEW V, NEW r \in OpenRows(V), NEW s, NEW t, NEW end, NEW mid, NEW fin,
         AxisStep(r, end, s, mid), AxisStep(s, mid, t, fin),
         (s = r /\ mid = end) \/ (r.on /\ s = NoRow)
  PROVE  AxisStep(r, end, t, fin)
<1>1. CASE s = r /\ mid = end
  BY <1>1
<1>2. CASE r.on /\ s = NoRow
  <2>1. ~s.on
    BY <1>2, RowFields
  <2>2. mid >= r.seen /\ mid >= end
    <3>1. \A x : [r EXCEPT !.seen = x].on = r.on
      BY <1>2, RowFields
    <3>2. s # r /\ ~\E x : s = [r EXCEPT !.seen = x]
      BY <1>2, <2>1, <3>1
    <3>3. QED
      BY <2>1, <3>2 DEF AxisStep
  <2>3. (t = NoRow /\ fin = mid) \/ (t.on /\ t.start >= mid /\ t.seen = t.start /\ fin = mid)
    BY <1>2, <2>1 DEF AxisStep
  <2>4. QED
    BY <1>2, <2>2, <2>3 DEF AxisStep
<1>3. QED
  BY <1>1, <1>2

LEMMA HeartbeatInTime ==
  ASSUME Sound(engine, store), Times(engine, store, since, resumed, now), OthersOK,
         since <= now, lastObs # None => since <= lastObs /\ lastObs <= now, Heartbeat
  PROVE  /\ Times(engine', store', since, resumed, now)
         /\ AxisStep(store.fg, store.fgEnd, store'.fg, store'.fgEnd)
<1>1. PICK state \in ObservableStates, app \in Foregrounds :
        Become(Applying(Probed(state), Event("Resync", now, app, state)))
  BY DEF Heartbeat
<1> DEFINE ev == Event("Resync", now, app, state)
           e == Probed(state).engine
           s == Probed(state).store
<1>2. /\ WellFormed(ev, Time) /\ since <= ev.at /\ ev.at <= now /\ ev.type = "Resync"
  <2>1. now \in Nat
    BY TimeIsNatural DEF OthersOK
  <2>2. QED
    BY <2>1, ObservedIsWellFormed, EventFields
<1>3. /\ engine' = Committed(Handle(e, ev)) /\ store' = Applied(s, Handle(e, ev))
  BY <1>1 DEF Become, Applying
<1>4. /\ Sound(e, s) /\ Times(e, s, since, resumed, now)
      /\ AxisStep(store.fg, store.fgEnd, s.fg, s.fgEnd)
      /\ (s.fg = store.fg /\ s.fgEnd = store.fgEnd) \/ (store.fg.on /\ s.fg = NoRow)
  <2>1. CASE state \notin Live
    <3>1. e = engine /\ s = store
      BY <2>1 DEF Probed, Book
    <3>2. QED
      BY <3>1 DEF AxisStep
  <2>2. CASE state \in Live
    <3>1. e = Applying(Book, Presence).engine /\ s = Applying(Book, Presence).store
      BY <2>2 DEF Probed
    <3>2. /\ WellFormed(Presence, Time) /\ since <= Presence.at /\ Presence.at <= now
          /\ Presence.type \in {"IdleThresholdCrossed", "UserActive"}
      BY PresenceIsWellFormed, PresenceIsStamped
    <3>3. /\ Sound(e, s) /\ Times(e, s, since, resumed, now)
          /\ AxisStep(store.fg, store.fgEnd, s.fg, s.fgEnd)
      BY <3>1, <3>2, ApplyInTime
    <3>4. Sealed(engine.fg, Handle(engine, Presence).fg, Time)
      <4>1. engine \in Engines(Time) /\ Stopped(engine.fg, engine.st, engine.paused)
        BY DEF Sound
      <4>2. Presence.at \in Time
        BY <3>2 DEF WellFormed
      <4>3. QED
        BY <3>2, <4>1, <4>2, PresenceSealsForeground, TimeIsNatural
    <3>5. /\ s.fg = RowAfter(store.fg, store.fgCp, Handle(engine, Presence).fg)
          /\ s.fgEnd = EndAfter(store.fg, store.fgEnd, Handle(engine, Presence).fg)
      BY <3>1 DEF Applying, Applied, Book
    <3>6. engine.fg.on = store.fg.on
      BY DEF Sound, Matches, AxisMatches
    <3>7. QED
      BY <3>3, <3>4, <3>5, <3>6, SealedRow, TimeIsNatural
  <2>3. QED
    BY <2>1, <2>2
<1> HIDE DEF ev, e, s
<1>5. /\ Times(engine', store', since, resumed, now)
      /\ AxisStep(s.fg, s.fgEnd, store'.fg, store'.fgEnd)
  BY <1>2, <1>3, <1>4, HandledInTime
<1>6. store.fg \in OpenRows(App)
  BY DEF Sound, Stores
<1>7. QED
  BY <1>4, <1>5, <1>6, AxisStepsJoin

\* Startup recovery writes nothing later than what it finds.
LEMMA RecoveredInTime ==
  ASSUME NEW s \in Stores, NEW lo \in Time, NEW at \in Time, lo <= at, NoneLater(s, lo)
  PROVE  LET r == Recovered(s, at)
         IN /\ r.fg = NoRow /\ r.fgCp = 0 /\ r.stCp = 0 /\ r.heartbeat = at
            /\ r.fgEnd <= lo /\ r.stEnd <= lo
            /\ AxisStep(s.fg, s.fgEnd, r.fg, r.fgEnd)
<1> DEFINE cutoff == Earlier(s.heartbeat, BeforeNow(at))
           r == Recovered(s, at)
<1>1. /\ lo \in Nat /\ at \in Nat /\ s.heartbeat \in Nat /\ s.fgEnd \in Nat /\ s.stEnd \in Nat
      /\ s.fg.start \in Nat /\ s.fg.seen \in Nat /\ s.st.start \in Nat
      /\ s.fg \in OpenRows(App)
  <2>1. s.fg \in OpenRows(App) /\ s.st \in OpenRows(ComputerState)
    BY DEF Stores
  <2>2. s.heartbeat \in Boot /\ s.fgEnd \in Boot /\ s.stEnd \in Boot
    BY DEF Stores
  <2>3. s.fg.start \in Boot /\ s.fg.seen \in Boot /\ s.st.start \in Boot
    BY <2>1, RowFields
  <2>4. QED
    BY <2>1, <2>2, <2>3, TimeIsNatural
<1>2. cutoff \in Nat /\ cutoff <= lo
  BY <1>1 DEF Earlier, BeforeNow, NoneLater
<1>3. /\ r.fg = NoRow /\ r.fgCp = 0 /\ r.stCp = 0 /\ r.heartbeat = at
      /\ r.fgEnd = IF s.fg.on THEN Later(s.fgEnd, Later(s.fg.start, s.fg.seen)) ELSE s.fgEnd
      /\ r.stEnd = IF s.st.on THEN Later(s.stEnd, Later(s.st.start, cutoff)) ELSE s.stEnd
  BY DEF Recovered, Resealed
<1> HIDE DEF cutoff, r
<1>4. r.fgEnd <= lo /\ r.stEnd <= lo
  BY <1>1, <1>2, <1>3 DEF Later, NoneLater
<1>5. AxisStep(s.fg, s.fgEnd, r.fg, r.fgEnd)
  <2>1. CASE s.fg.on
    <3>1. r.fgEnd >= s.fg.seen /\ r.fgEnd >= s.fgEnd
      BY <1>1, <1>3, <2>1 DEF Later
    <3>2. QED
      BY <1>3, <2>1, <3>1 DEF AxisStep
  <2>2. CASE ~s.fg.on
    <3>1. s.fg = NoRow
      BY <1>1, <2>2, RowFields
    <3>2. QED
      BY <1>3, <2>2, <3>1 DEF AxisStep
  <2>3. QED
    BY <2>1, <2>2
<1>6. QED
  BY <1>3, <1>4, <1>5 DEF r

LEMMA ClearedInTime ==
  ASSUME Sound(engine, store), Times(engine, store, since, resumed, now), OthersOK,
         since <= now
  PROVE  LET s == Cleared(Applying(Book, Stop("Pause")).store)
         IN /\ Times(NewEngine, s, since, since, now)
            /\ s.fg = NoRow /\ s.fgEnd = 0
<1> DEFINE b == Applying(Book, Stop("Pause")).store
           s == Cleared(b)
<1>1. s \in Stores
  BY ClearedIsSound DEF Sound
<1>2. b.stEnd <= now /\ b.heartbeat <= now
  <2>1. WellFormed(Stop("Pause"), Time) /\ Stop("Pause").at = now
    BY StampedNowIsWellFormed, EventFields DEF Stop
  <2>2. now \in Nat
    BY TimeIsNatural DEF OthersOK
  <2>3. QED
    BY <2>1, <2>2, ApplyInTime DEF Times
<1>3. Sound(Applying(Book, Stop("Pause")).engine, b)
  BY StampedNowIsWellFormed, ApplyIsSound DEF Stop
<1> HIDE DEF b
<1>4. b \in Stores
  BY <1>3 DEF Sound
<1>5. /\ s.fg = NoRow /\ s.fgEnd = 0 /\ s.fgCp = 0 /\ s.stCp = 0
      /\ s.stEnd = b.stEnd /\ s.heartbeat = b.heartbeat
  BY <1>4 DEF Cleared, Stores
<1> HIDE DEF s
<1>6. since \in Time /\ now \in Time /\ since \in Nat
  BY TimeIsNatural DEF OthersOK
<1>7. Times(NewEngine, s, since, since, now)
  BY <1>1, <1>2, <1>5, <1>6, FreshInTime
<1>8. QED
  BY <1>5, <1>7 DEF s, b

\* Every step keeps the times, and moves the foreground rows as an axis may.
LEMMA InTimeStep ==
  ASSUME InTime, [Next]_vars
  PROVE  /\ InTime'
         /\ "WindowsShutdown" \notin Kinds => ForegroundMoves
<1>1. IInv /\ IInv' /\ OthersOK /\ OthersOK' /\ store \in Stores
  <2>1. [NextWithClockSteps]_vars
    BY DEF NextWithClockSteps
  <2>2. QED
    BY <2>1, IInvStep, TypeOKParts DEF InTime, IInv
<1>2. /\ since \in Nat /\ now \in Nat /\ resumed \in Nat /\ since <= now
      /\ process \in {"running", "down"}
  BY <1>1, TimeIsNatural DEF InTime, OthersOK
<1>3. ASSUME process = "running"
      PROVE  /\ Sound(engine, store) /\ Times(engine, store, since, resumed, now)
             /\ lastObs # None => since <= lastObs /\ lastObs <= now
  BY <1>1, <1>3 DEF InTime, IInv
<1>4. ASSUME process' = "running", since' <= now',
             Times(engine', store', since', resumed', now'),
             lastObs' # None => since' <= lastObs' /\ lastObs' <= now'
      PROVE  InTime'
  BY <1>1, <1>4 DEF InTime
<1>5. ASSUME UNCHANGED <<store>> PROVE ForegroundMoves
  BY <1>5 DEF ForegroundMoves, AxisStep
<1>6. ASSUME NEW ev, WellFormed(ev, Time), since <= ev.at, ev.at <= now,
             ev.type # "WindowsShutdown" \/ "WindowsShutdown" \in Kinds,
             process = "running", process' = "running", UNCHANGED <<since, resumed, now>>,
             lastObs' \in {lastObs, now}, Apply(ev)
      PROVE  InTime' /\ ("WindowsShutdown" \notin Kinds => ForegroundMoves)
  <2>1. /\ Times(engine', store', since, resumed, now)
        /\ ev.type # "WindowsShutdown" => AxisStep(store.fg, store.fgEnd, store'.fg, store'.fgEnd)
    BY <1>3, <1>6, ApplyInTime
  <2>2. lastObs' # None => since' <= lastObs' /\ lastObs' <= now'
    BY <1>2, <1>3, <1>6
  <2>3. QED
    BY <1>2, <1>4, <1>6, <2>1, <2>2 DEF ForegroundMoves
<1>7. ASSUME process = "running", process' = "running", UNCHANGED <<engine, store, since, resumed, now>>,
             lastObs' \in {lastObs, now}
      PROVE  InTime' /\ ForegroundMoves
  <2>1. lastObs' # None => since' <= lastObs' /\ lastObs' <= now'
    BY <1>2, <1>3, <1>7
  <2>2. QED
    BY <1>2, <1>3, <1>4, <1>5, <1>7, <2>1
<1>8. Become(Book) => UNCHANGED <<engine, store>>
  BY DEF Become, Book
<1>9. ASSUME NEW type \in {"Pause", "Shutdown", "ObserverGap"}
      PROVE  LET ev == Event(type, now, None, None)
             IN WellFormed(ev, Time) /\ since <= ev.at /\ ev.at <= now /\ ev.type # "WindowsShutdown"
  BY <1>1, <1>2, StampedNowIsWellFormed, EventFields
<1>10. CASE PlatformEvent
  <2>1. PICK ev \in PlatformEvents : Apply(ev)
    BY <1>10 DEF PlatformEvent
  <2>2. WellFormed(ev, Time) /\ since <= ev.at /\ ev.at <= now /\ ev.type \in Kinds
    BY <1>1, PlatformEventIsWellFormed, PlatformEventIsStamped
  <2>3. QED
    BY <1>6, <1>10, <2>1, <2>2 DEF PlatformEvent, clock
<1>11. CASE RequestRecovery
  BY <1>7, <1>11 DEF RequestRecovery, clock
<1>12. CASE RecordGap
  BY <1>6, <1>9, <1>12 DEF RecordGap, clock
<1>13. CASE Heartbeat
  <2>1. /\ process = "running" /\ process' = "running" /\ lastObs' = now
        /\ UNCHANGED <<since, resumed, now>>
    BY <1>13 DEF Heartbeat, HeartbeatDue, clock
  <2>2. /\ Times(engine', store', since, resumed, now)
        /\ AxisStep(store.fg, store.fgEnd, store'.fg, store'.fgEnd)
    BY <1>1, <1>2, <1>3, <1>13, <2>1, HeartbeatInTime
  <2>3. QED
    BY <1>2, <1>4, <2>1, <2>2 DEF ForegroundMoves
<1>14. CASE HeartbeatFails
  <2>1. /\ process = "running" /\ process' = "running"
        /\ UNCHANGED <<since, resumed, now, lastObs>>
        /\ Become(Book) \/ Become(Applying(Book, Presence))
    BY <1>14 DEF HeartbeatFails, HeartbeatDue, clock
  <2>2. CASE Become(Book)
    BY <1>7, <1>8, <2>1, <2>2
  <2>3. CASE Become(Applying(Book, Presence))
    <3>1. /\ WellFormed(Presence, Time) /\ since <= Presence.at /\ Presence.at <= now
          /\ Presence.type # "WindowsShutdown"
      BY <1>1, <1>2, <1>3, <2>1, PresenceIsWellFormed, PresenceIsStamped
    <3>2. /\ Times(engine', store', since, resumed, now)
          /\ AxisStep(store.fg, store.fgEnd, store'.fg, store'.fgEnd)
      BY <1>3, <2>1, <2>3, <3>1, ApplyInTime DEF Become
    <3>3. QED
      BY <1>2, <1>3, <1>4, <2>1, <3>2 DEF ForegroundMoves
  <2>4. QED
    BY <2>1, <2>2, <2>3
<1>15. CASE Pause \/ ClearRefused
  <2>1. /\ process = "running" /\ process' = "running"
        /\ UNCHANGED <<since, resumed, now, lastObs>>
        /\ Apply(Stop("Pause")) \/ Become(Book)
    BY <1>15 DEF Pause, ClearRefused, ControlReady, clock
  <2>2. QED
    BY <1>6, <1>7, <1>8, <1>9, <2>1 DEF Stop
<1>16. CASE Resume
  <2>1. /\ process = "running" /\ process' = "running" /\ lastObs' = now
        /\ UNCHANGED <<since, now>>
    BY <1>16 DEF Resume, ControlReady, clock
  <2>2. CASE Become(Book) /\ UNCHANGED resumed
    BY <1>7, <1>8, <2>1, <2>2
  <2>3. ASSUME NEW state \in ObservableStates, NEW app \in Foregrounds,
               Apply(Event("ResumeCollection", now, app, state)),
               resumed' = IF engine.paused THEN now ELSE resumed
        PROVE  InTime' /\ ForegroundMoves
    <3> DEFINE ev == Event("ResumeCollection", now, app, state)
    <3>1. /\ WellFormed(ev, Time) /\ since <= ev.at /\ ev.at <= now /\ ev.at = now
          /\ ev.type # "WindowsShutdown"
      BY <1>1, <1>2, ObservedIsWellFormed, EventFields
    <3> HIDE DEF ev
    <3>2. /\ Times(engine', store', since, resumed, now)
          /\ engine'.last = Later(Base(engine, since), now)
          /\ ~store.fg.on /\ store'.fg.on => store'.fg.start = engine'.last
          /\ AxisStep(store.fg, store.fgEnd, store'.fg, store'.fgEnd)
      BY <1>3, <2>1, <2>3, <3>1, ApplyInTime DEF ev
    <3>3. CASE ~engine.paused
      BY <1>2, <1>4, <2>1, <2>3, <3>2, <3>3 DEF ForegroundMoves
    <3>4. CASE engine.paused
      <4>1. resumed' = now /\ ~store.fg.on
        BY <1>3, <2>1, <2>3, <3>4 DEF Sound, Matches, AxisMatches, Stopped
      <4>2. Base(engine, since) \in Nat /\ Base(engine, since) <= now
        <5>1. engine \in Engines(Time) /\ since \in Time
          BY <1>1, <1>3, <2>1 DEF Sound, OthersOK
        <5>2. QED
          BY <1>3, <2>1, <5>1, BaseIsTyped, TimeIsNatural DEF Times
      <4>3. engine'.last = now /\ Base(engine', since) = now
        <5>1. engine'.last = now
          BY <1>2, <3>2, <4>2 DEF Later
        <5>2. now # None
          BY <1>2, NoneAssumption
        <5>3. QED
          BY <5>1, <5>2 DEF Base
      <4>4. Orderly(store'.fg, store'.fgEnd, now)
        BY <1>2, <3>2, <4>1, <4>3 DEF Times, Orderly
      <4>5. Times(engine', store', since, now, now)
        BY <1>2, <3>2, <4>3, <4>4 DEF Times
      <4>6. QED
        BY <1>2, <1>4, <2>1, <3>2, <4>1, <4>5 DEF ForegroundMoves
    <3>5. QED
      BY <3>3, <3>4
  <2>4. QED
    BY <1>16, <2>2, <2>3 DEF Resume
<1>17. CASE Clear
  <2>1. /\ process = "running" /\ process' = "running" /\ engine' = NewEngine
        /\ store' = Cleared(Applying(Book, Stop("Pause")).store)
        /\ lastObs' = None /\ resumed' = since /\ UNCHANGED <<since, now>>
    BY <1>17 DEF Clear, ControlReady, clock
  <2>2. /\ Times(engine', store', since, since, now)
        /\ store'.fg = NoRow /\ store'.fgEnd = 0
    BY <1>1, <1>2, <1>3, <2>1, ClearedInTime
  <2>3. QED
    BY <1>2, <1>4, <2>1, <2>2 DEF ForegroundMoves
<1>18. ASSUME Exit, NoneLater(store', now) PROVE InTime'
  BY <1>1, <1>2, <1>18 DEF Exit, Forget, InTime, clock
<1>19. CASE Shutdown
  <2>1. process = "running" /\ Exit
    BY <1>19 DEF Shutdown
  <2>2. CASE UNCHANGED store
    <3>1. NoneLater(store', now)
      BY <1>3, <2>1, <2>2, TimesBound
    <3>2. QED
      BY <1>5, <1>18, <2>1, <2>2, <3>1
  <2>3. CASE store' = Applying(Book, Stop("Shutdown")).store
    <3>1. /\ WellFormed(Stop("Shutdown"), Time) /\ since <= Stop("Shutdown").at
          /\ Stop("Shutdown").at <= now /\ Stop("Shutdown").type # "WindowsShutdown"
      BY <1>9 DEF Stop
    <3> DEFINE e == Applying(Book, Stop("Shutdown")).engine
    <3>2. /\ Sound(e, store') /\ Times(e, store', since, resumed, now)
          /\ AxisStep(store.fg, store.fgEnd, store'.fg, store'.fgEnd)
      BY <1>3, <2>1, <2>3, <3>1, ApplyInTime
    <3>3. NoneLater(store', now)
      BY <3>2, TimesBound
    <3>4. QED
      BY <1>18, <2>1, <3>2, <3>3 DEF ForegroundMoves
  <2>4. QED
    BY <1>19, <2>2, <2>3 DEF Shutdown
<1>20. CASE Crash
  <2>1. process = "running" /\ Exit /\ UNCHANGED store
    BY <1>2, <1>20 DEF Crash
  <2>2. NoneLater(store', now)
    BY <1>3, <2>1, TimesBound
  <2>3. QED
    BY <1>5, <1>18, <2>1, <2>2
<1>21. CASE Start
  <2>1. /\ process = "down" /\ process' = "running" /\ store' = Recovered(store, now)
        /\ since' = now /\ resumed' = now /\ UNCHANGED <<engine, lastObs, now>>
    BY <1>21 DEF Start, clock
  <2>2. engine' = NewEngine /\ lastObs' = None /\ NoneLater(store, since)
    BY <1>1, <2>1 DEF InTime, IInv
  <2>3. since \in Time /\ now \in Time
    BY <1>1 DEF OthersOK
  <2>4. /\ store'.fg = NoRow /\ store'.fgCp = 0 /\ store'.stCp = 0 /\ store'.heartbeat = now
        /\ store'.fgEnd <= since /\ store'.stEnd <= since
        /\ AxisStep(store.fg, store.fgEnd, store'.fg, store'.fgEnd)
    BY <1>1, <1>2, <2>1, <2>2, <2>3, RecoveredInTime
  <2>5. store' \in Stores
    BY <1>1, TypeOKParts DEF IInv
  <2>6. store'.fgEnd <= now /\ store'.stEnd <= now
    <3>1. store'.fgEnd \in Nat /\ store'.stEnd \in Nat
      BY <2>5, TimeIsNatural DEF Stores
    <3>2. QED
      BY <1>2, <2>4, <3>1
  <2>7. Times(NewEngine, store', now, now, now)
    BY <1>2, <2>3, <2>4, <2>5, <2>6, FreshInTime
  <2>8. QED
    BY <1>2, <1>4, <2>1, <2>2, <2>4, <2>7 DEF ForegroundMoves
<1>22. CASE Tick
  <2>1. /\ now' = now + 1 /\ now' \in Time /\ now' \in Nat
        /\ UNCHANGED <<engine, store, lastObs, process, since, resumed>>
    BY <1>1, <1>22, TimeIsNatural DEF Tick, OthersOK
  <2>2. ASSUME process = "running" PROVE Times(engine', store', since', resumed', now')
    <3>1. /\ Base(engine, since) \in Nat /\ store.stEnd \in Nat /\ store.heartbeat \in Nat
      <4>1. engine \in Engines(Time) /\ since \in Time
        BY <1>1, <1>3, <2>2 DEF Sound, OthersOK
      <4>2. QED
        BY <1>1, <4>1, BaseIsTyped, TimeIsNatural DEF Stores
    <3>2. Times(engine, store, since, resumed, now)
      BY <1>3, <2>2
    <3>3. /\ Base(engine, since) <= now' /\ store.stEnd <= now' /\ store.heartbeat <= now'
      BY <1>2, <2>1, <3>1, <3>2 DEF Times
    <3>4. Times(engine, store, since, resumed, now')
      BY <2>1, <3>2, <3>3 DEF Times
    <3>5. QED
      BY <2>1, <3>4
  <2>3. lastObs # None => lastObs \in Nat
    BY <1>1, TimeIsNatural DEF OthersOK
  <2>4. CASE process = "running"
    <3>1. lastObs' # None => since' <= lastObs' /\ lastObs' <= now'
      BY <1>2, <1>3, <2>1, <2>3, <2>4
    <3>2. InTime'
      BY <1>2, <1>4, <2>1, <2>2, <2>4, <3>1
    <3>3. QED
      BY <1>5, <2>1, <3>2
  <2>5. CASE process = "down"
    <3>1. InTime'
      BY <1>1, <1>2, <2>1, <2>5 DEF InTime
    <3>2. QED
      BY <1>5, <2>1, <3>1
  <2>6. QED
    BY <1>2, <2>4, <2>5
<1>23. CASE UNCHANGED vars
  <2>1. InTime'
    BY <1>1, <1>2, <1>23 DEF InTime, vars
  <2>2. QED
    BY <1>5, <1>23, <2>1 DEF vars
<1>24. QED
  BY <1>10, <1>11, <1>12, <1>13, <1>14, <1>15, <1>16, <1>17, <1>19, <1>20, <1>21, <1>22, <1>23
     DEF Next

\* The induction: every reachable state's book is in time.
LEMMA InTimeAlways == Spec => []InTime
<1>1. Init => InTime
  BY InitIsInTime
<1>2. InTime /\ [Next]_vars => InTime'
  BY InTimeStep
<1>3. QED
  BY <1>1, <1>2, PTL DEF Spec

-----------------------------------------------------------------------------
(* The theorems.                                                           *)

\* No platform event, however late it is delivered, opens a foreground row
\* before collection last started or was resumed, whatever the delay bound,
\* the clock's length and the thresholds: also for a WindowsShutdown.
THEOREM NothingIsBackfilled == Spec => []NotBackfilled
<1>1. InTime => NotBackfilled
  BY DEF InTime, Times, Orderly, NotBackfilled
<1>2. QED
  BY <1>1, InTimeAlways, PTL

\* What a crash can lose is less than one checkpoint interval on either axis.
THEOREM CrashesLoseLittle == Spec => []CrashLosesLittle
<1>1. InTime => CrashLosesLittle
  <2> SUFFICES ASSUME InTime, process = "running"
               PROVE  /\ engine.fg.on => engine.fg.seen - store.fg.seen < CheckpointInterval
                      /\ engine.st.on => engine.st.seen - store.heartbeat < CheckpointInterval
    BY DEF CrashLosesLittle
  <2>1. /\ Lag(engine.fg, store.fg.seen, store.fgCp) /\ Lag(engine.st, store.heartbeat, store.stCp)
        /\ engine \in Engines(Time) /\ store \in Stores
    BY DEF InTime, IInv, Sound, Times
  <2>2. ASSUME NEW iv, NEW mark \in Nat, NEW cp, Lag(iv, mark, cp), iv.on, iv.seen \in Nat
        PROVE  iv.seen - mark < CheckpointInterval
    BY <2>2, CheckpointAssumption DEF Lag
  <2>3. /\ engine.fg \in Intervals(App, Time) /\ engine.st \in Intervals(ComputerState, Time)
        /\ store.fg \in OpenRows(App) /\ store.heartbeat \in Nat
    BY <2>1, TimeIsNatural DEF Engines, Stores
  <2>4. store.fg.seen \in Nat
    BY <2>3, RowFields, TimeIsNatural
  <2>5. engine.fg.on => engine.fg.seen \in Nat
    <3>1. engine.fg.on => engine.fg \in [on : {TRUE}, value : App, seen : Time]
      BY <2>3, IntervalFields
    <3>2. QED
      BY <3>1, TimeIsNatural
  <2>6. engine.st.on => engine.st.seen \in Nat
    <3>1. engine.st.on => engine.st \in [on : {TRUE}, value : ComputerState, seen : Time]
      BY <2>3, IntervalFields
    <3>2. QED
      BY <3>1, TimeIsNatural
  <2>7. QED
    BY <2>1, <2>2, <2>3, <2>4, <2>5, <2>6
<1>2. QED
  BY <1>1, InTimeAlways, PTL

\* Startup recovery ends no interval after the process that opened it did.
THEOREM DowntimeIsNotCounted == Spec => DowntimeNeverCounted
<1>1. InTime /\ [Next]_vars =>
        [process = "down" /\ process' = "running"
           => store'.fgEnd <= since /\ store'.stEnd <= since]_vars
  <2> SUFFICES ASSUME InTime, [Next]_vars, process = "down", process' = "running"
               PROVE  store'.fgEnd <= since /\ store'.stEnd <= since
    OBVIOUS
  <2>1. Start
    BY DEF Next, PlatformEvent, RequestRecovery, RecordGap, Heartbeat, HeartbeatFails,
           HeartbeatDue, Pause, Resume, Clear, ClearRefused, ControlReady, Shutdown, Crash,
           Tick, vars
  <2>2. store' = Recovered(store, now)
    BY <2>1 DEF Start
  <2>3. /\ store \in Stores /\ since \in Time /\ now \in Time /\ since <= now
        /\ NoneLater(store, since)
    BY TypeOKParts DEF InTime, IInv, OthersOK
  <2>4. QED
    BY <2>2, <2>3, RecoveredInTime
<1>2. QED
  BY <1>1, InTimeAlways, PTL DEF Spec, DowntimeNeverCounted

\* The foreground table implements the abstract axis: its intervals are
\* disjoint, only confirmed forward, and never sealed before they were last
\* confirmed.  The hypothesis is needed: a late WindowsShutdown is closed with
\* its raw time, before the row was last seen.
THEOREM ForegroundImplementsAxis ==
  ASSUME "WindowsShutdown" \notin Kinds
  PROVE  Spec => ForegroundIsAnAxis
<1>1. Init => Foreground!AxisInit
  BY DEF Init, EmptyStore, Foreground!AxisInit
<1>2. InTime /\ [Next]_vars => [Foreground!AxisNext]_(Foreground!axis)
  <2> SUFFICES ASSUME InTime, [Next]_vars PROVE [Foreground!AxisNext]_(Foreground!axis)
    OBVIOUS
  <2>1. ForegroundMoves
    BY InTimeStep
  <2>2. store.fg.on \in BOOLEAN
    <3>1. store.fg \in OpenRows(App)
      BY TypeOKParts DEF InTime, IInv, Stores
    <3>2. QED
      BY <3>1, RowFields
  <2>3. QED
    BY <2>1, <2>2
       DEF ForegroundMoves, AxisStep, Foreground!AxisNext, Foreground!axis, Foreground!Begin,
           Foreground!Confirm, Foreground!Seal, Foreground!Switch, Foreground!Erase,
           Foreground!AxisInit
<1>3. QED
  BY <1>1, <1>2, InTimeAlways, PTL DEF Spec, ForegroundIsAnAxis, Foreground!AxisSpec
=============================================================================
