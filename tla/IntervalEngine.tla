--------------------------- MODULE IntervalEngine ---------------------------
(***************************************************************************)
(* The pure interval state machine of                                      *)
(* src-tauri/src/collector/interval_engine.rs: what one usage event does   *)
(* to the two time axes, foreground and computer state, and which writes   *)
(* it hands to the database writer.                                        *)
(*                                                                         *)
(* IntervalEngine::handle pushes a list of actions.  On one axis a list    *)
(* never holds more than one Close followed by at most one Start or        *)
(* Checkpoint, so a list is modelled by one such batch per axis; the two   *)
(* axes are separate tables and the order across them cannot be observed.  *)
(* Reasons, sources and qualities are text in the rows and are left out.   *)
(***************************************************************************)
EXTENDS Integers

CONSTANTS
  App,            \* executables that can own the foreground window
  None,           \* Rust's Option::None
  GapThreshold    \* expected_heartbeat_ms * GAP_MULTIPLIER, in ticks

ASSUME NoneAssumption ==
  /\ None \notin App
  /\ None \notin {"active", "idle", "locked", "sleep", "disconnected", "unknown"}
  /\ None \notin Nat

ASSUME GapAssumption == GapThreshold \in Nat \ {0}

Live       == {"active", "idle"}
Excluded   == {"locked", "sleep", "disconnected"}
ComputerState == Live \union Excluded \union {"unknown"}

Earlier(s, t) == IF s < t THEN s ELSE t
Later(s, t)   == IF s < t THEN t ELSE s

-----------------------------------------------------------------------------
(* Axes and the writes an event produces on them.                          *)

\* No interval is open / an interval of value v is open, last seen at t.
NoInterval   == [on |-> FALSE, value |-> None, seen |-> 0]
Interval(v, t) == [on |-> TRUE, value |-> v, seen |-> t]

\* An axis while an event is handled: the open interval, and the batch so far.
Axis(interval) == [open |-> interval, close |-> None, then |-> "nothing", at |-> 0]

\* Mutant of CloseAxis: the close is written whether or not something is open.
CloseAxisAlways(axis, at) == [axis EXCEPT !.open = NoInterval, !.close = at]

CloseAxis(axis, at) ==
  IF axis.open.on THEN [axis EXCEPT !.open = NoInterval, !.close = at] ELSE axis

StartOn(axis, v, at) ==
  [axis EXCEPT !.open = Interval(v, at), !.then = "start", !.at = at]

CheckpointOn(axis, at) ==
  [axis EXCEPT !.open.seen = Later(@, at), !.then = "checkpoint", !.at = at]

\* Seeing v at time `at`: the same value is confirmed, another one replaces it.
ObserveOn(axis, v, at) ==
  IF axis.open.on /\ axis.open.value = v
  THEN CheckpointOn(axis, at)
  ELSE StartOn(CloseAxis(axis, at), v, at)

-----------------------------------------------------------------------------
(* The engine, and the engine while it handles an event.                   *)

NewEngine == [fg |-> NoInterval, st |-> NoInterval, last |-> None, paused |-> FALSE]

Working(e) == [fg |-> Axis(e.fg), st |-> Axis(e.st), last |-> e.last, paused |-> e.paused]

Committed(w) == [fg |-> w.fg.open, st |-> w.st.open, last |-> w.last, paused |-> w.paused]

CurrentState(w) == w.st.open.value

ForegroundAllowed(w) ==
  ~w.paused /\ CurrentState(w) \notin Excluded \union {"unknown"}

CloseForeground(w, at) == [w EXCEPT !.fg = CloseAxis(@, at)]
CloseComputerState(w, at) == [w EXCEPT !.st = CloseAxis(@, at)]

ObserveForeground(w, app, at) ==
  IF ForegroundAllowed(w) THEN [w EXCEPT !.fg = ObserveOn(@, app, at)] ELSE w

ObserveStateForced(w, state, at) ==
  IF w.paused THEN w ELSE [w EXCEPT !.st = ObserveOn(@, state, at)]

StateRank(state) ==
  CASE state = "sleep" -> 5
    [] state = "locked" -> 4
    [] state = "disconnected" -> 3
    [] state = "unknown" -> 2
    [] OTHER -> 1

CanReplaceState(current, next) ==
  \/ current = None
  \/ StateRank(next) >= StateRank(current)
  \/ current \in Live

ObserveState(w, state, at) ==
  IF CanReplaceState(CurrentState(w), state) THEN ObserveStateForced(w, state, at) ELSE w

ReconcileForeground(w, app, at) ==
  IF app = None THEN CloseForeground(w, at) ELSE ObserveForeground(w, app, at)

-----------------------------------------------------------------------------
(* Events.  Every event carries the same fields; `app` and `state` are     *)
(* None where the Rust variant has no such field.  ComputerState and       *)
(* Heartbeat are constructed only by tests (both are allow(dead_code)).    *)

Event(type, at, app, state) == [type |-> type, at |-> at, app |-> app, state |-> state]

Ordered    == {"Foreground", "ForegroundUnavailable"}
Continuous == {"IdleThresholdCrossed", "UserActive", "Resync"}
Recovering == {"Unlocked", "Resume", "Connected"}
Excluding  == {"Locked", "Suspend", "Disconnected"}

\* The exclusion state each boundary opens.
ExclusionOf(type) ==
  CASE type = "Locked" -> "locked" [] type = "Suspend" -> "sleep" [] OTHER -> "disconnected"

\* Mutant of EffectiveTime: the source's clock is believed.
EffectiveTimeRaw(e, at) == at

EffectiveTime(e, at) == IF e.last = None THEN at ELSE Later(e.last, at)

\* A silence longer than three heartbeats, or (on a continuously observed
\* timeline) a timestamp before the last one.  Boundaries are trusted.
ClockGap(e, ev) ==
  /\ e.last # None
  /\ \/ ev.type \in Ordered \union Continuous /\ ev.at - e.last > GapThreshold
     \/ ev.type \in Continuous /\ ev.at < e.last

PrepareTimestamp(e, ev) ==
  LET w0 == [Working(e) EXCEPT !.last = EffectiveTime(e, ev.at)]
      w1 == IF CurrentState(w0) \in Excluded THEN w0 ELSE CloseForeground(w0, e.fg.seen)
      w2 == IF CurrentState(w1) \in Live THEN CloseComputerState(w1, e.st.seen) ELSE w1
  IN IF ClockGap(e, ev) THEN w2 ELSE w0

-----------------------------------------------------------------------------
(* One operator per handler; `w` has its timestamp prepared already.       *)

OnIdleThresholdCrossed(w) ==
  IF CurrentState(w) = "active" THEN ObserveState(w, "idle", w.last) ELSE w

OnUserActive(w) ==
  IF CurrentState(w) = "idle" THEN ObserveState(w, "active", w.last) ELSE w

\* Locked, Suspend and Disconnected seal the foreground, then exclude.
OnExclusion(w, state) == ObserveStateForced(CloseForeground(w, w.last), state, w.last)

\* Unlocked, Resume and Connected force the captured state, then reconcile.
OnRecovery(w, state, app) ==
  ReconcileForeground(ObserveStateForced(w, state, w.last), app, w.last)

OnResync(w, state, app) ==
  LET sealed == IF state \in Live THEN w ELSE CloseForeground(w, w.last)
      forced == ObserveStateForced(sealed, state, w.last)
  IN IF w.paused THEN w
     ELSE IF ForegroundAllowed(forced) THEN ReconcileForeground(forced, app, w.last)
     ELSE CloseForeground(forced, w.last)

\* Mutant of OnObserverGap: an axis that is not open counts as cut off at 0.
OnObserverGapFromZero(w) ==
  LET start  == Earlier(Earlier(w.fg.open.seen, w.st.open.seen), w.last)
      sealed == CloseComputerState(CloseForeground(w, w.fg.open.seen), w.st.open.seen)
  IN IF w.paused THEN w ELSE ObserveStateForced(sealed, "unknown", start)

\* The recovery gap seals both axes where they were last seen and opens
\* `unknown` from the earlier of the two.
OnObserverGap(w) ==
  LET Cutoff(axis) == IF axis.open.on THEN axis.open.seen ELSE w.last
      start  == Earlier(Earlier(Cutoff(w.fg), Cutoff(w.st)), w.last)
      sealed == CloseComputerState(CloseForeground(w, w.fg.open.seen), w.st.open.seen)
  IN IF w.paused THEN w ELSE ObserveStateForced(sealed, "unknown", start)

\* Mutant of OnStop: the computer state is left open.
OnStopForegroundOnly(w, at) == [CloseForeground(w, at) EXCEPT !.paused = TRUE]

\* Pause and both shutdowns seal the two axes and stop the engine.
OnStop(w, at) ==
  [CloseComputerState(CloseForeground(w, at), at) EXCEPT !.paused = TRUE]

OnResumeCollection(w, state, app) ==
  LET seen == ObserveState([w EXCEPT !.paused = FALSE], state, w.last)
  IN IF app = None THEN seen ELSE ObserveForeground(seen, app, w.last)

\* Only WindowsShutdown uses the raw timestamp, not the effective one.
Handle(e, ev) ==
  LET w == PrepareTimestamp(e, ev) IN
  CASE ev.type = "Foreground"            -> ObserveForeground(w, ev.app, w.last)
    [] ev.type = "ForegroundUnavailable" -> CloseForeground(w, w.last)
    [] ev.type = "IdleThresholdCrossed"  -> OnIdleThresholdCrossed(w)
    [] ev.type = "UserActive"            -> OnUserActive(w)
    [] ev.type \in Excluding             -> OnExclusion(w, ExclusionOf(ev.type))
    [] ev.type \in Recovering            -> OnRecovery(w, ev.state, ev.app)
    [] ev.type = "Resync"                -> OnResync(w, ev.state, ev.app)
    [] ev.type = "ObserverGap"           -> OnObserverGap(w)
    [] ev.type = "ResumeCollection"      -> OnResumeCollection(w, ev.state, ev.app)
    [] ev.type = "WindowsShutdown"       -> OnStop(w, ev.at)
    [] OTHER                             -> OnStop(w, w.last)
=============================================================================
