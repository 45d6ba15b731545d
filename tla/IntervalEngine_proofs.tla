------------------------- MODULE IntervalEngine_proofs -------------------------
(***************************************************************************)
(* What TLAPS proves of IntervalEngine: whatever event is handled in       *)
(* whatever state, each axis is left in one of four ways (HandleReaches),  *)
(* and the writer can take the resulting batch.  Times range over any set  *)
(* T of natural numbers and values over any set V.                         *)
(***************************************************************************)
EXTENDS IntervalEngine, TLAPS

Intervals(V, T) == [on : {TRUE}, value : V, seen : T] \union {NoInterval}

Engines(T) ==
  [fg : Intervals(App, T), st : Intervals(ComputerState, T),
   last : T \union {None}, paused : BOOLEAN]

Axes(V, T) ==
  [open : Intervals(V, T), close : T \union {None},
   then : {"nothing", "start", "checkpoint"}, at : T \union {0}]

\* The axis that began with interval iv is untouched, or iv was closed.
Sealed(iv, axis, T) ==
  /\ axis.then = "nothing"
  /\ \/ axis.open = iv /\ axis.close = None
     \/ iv.on /\ axis.open = NoInterval /\ axis.close \in T

\* An interval was started, over the one that was open if there was one.
Started(iv, axis, T) ==
  /\ axis.then = "start" /\ axis.at \in T
  /\ axis.open.on /\ axis.open.seen = axis.at
  /\ IF iv.on THEN axis.close \in T ELSE axis.close = None

\* The open interval was seen again.
Confirmed(iv, axis, T) ==
  /\ axis.then = "checkpoint" /\ axis.at \in T /\ axis.close = None
  /\ iv.on /\ axis.open.on
  /\ axis.open.value = iv.value /\ axis.open.seen = Later(iv.seen, axis.at)

Reached(iv, axis, T) == Sealed(iv, axis, T) \/ Started(iv, axis, T) \/ Confirmed(iv, axis, T)

Works(T) ==
  [fg : Axes(App, T), st : Axes(ComputerState, T), last : T, paused : BOOLEAN]

\* A stopped engine has nothing open.
Stopped(fg, st, paused) == paused => ~fg.on /\ ~st.on

\* The stages of handling an event in engine e: both axes at most sealed; the
\* foreground at most sealed; anything.
SealedBoth(e, w, T) ==
  /\ w \in Works(T) /\ Sealed(e.fg, w.fg, T) /\ Sealed(e.st, w.st, T)
  /\ Stopped(w.fg.open, w.st.open, w.paused)

SealedForeground(e, w, T) ==
  /\ w \in Works(T) /\ Sealed(e.fg, w.fg, T) /\ Reached(e.st, w.st, T)
  /\ Stopped(w.fg.open, w.st.open, w.paused)

ReachedBoth(e, w, T) ==
  /\ w \in Works(T) /\ Reached(e.fg, w.fg, T) /\ Reached(e.st, w.st, T)
  /\ Stopped(w.fg.open, w.st.open, w.paused)

-----------------------------------------------------------------------------
(* One axis.                                                               *)

LEMMA IntervalFields ==
  ASSUME NEW V, NEW T, NEW iv \in Intervals(V, T)
  PROVE  /\ iv.on => iv \in [on : {TRUE}, value : V, seen : T]
         /\ ~iv.on => iv = NoInterval
         /\ iv.on \in BOOLEAN /\ ~NoInterval.on
<1>1. ~NoInterval.on
  BY DEF NoInterval
<1>2. CASE iv = NoInterval
  BY <1>1, <1>2 DEF NoInterval
<1>3. CASE iv \in [on : {TRUE}, value : V, seen : T]
  BY <1>1, <1>3
<1>4. QED
  BY <1>2, <1>3 DEF Intervals

LEMMA CloseAxisSeals ==
  ASSUME NEW V, NEW T, NEW iv \in Intervals(V, T), NEW axis \in Axes(V, T), NEW at,
         Sealed(iv, axis, T), axis.open.on => at \in T
  PROVE  /\ CloseAxis(axis, at) \in Axes(V, T)
         /\ Sealed(iv, CloseAxis(axis, at), T)
         /\ ~CloseAxis(axis, at).open.on
<1>1. CASE ~axis.open.on
  BY <1>1 DEF CloseAxis
<1>2. CASE axis.open.on
  <2> DEFINE closed == CloseAxis(axis, at)
  <2>1. closed = [open |-> NoInterval, close |-> at, then |-> axis.then, at |-> axis.at]
    BY <1>2 DEF CloseAxis, Axes
  <2>2. NoInterval \in Intervals(V, T) /\ at \in T
    BY <1>2 DEF Intervals
  <2>3. closed \in Axes(V, T)
    BY <2>1, <2>2 DEF Axes
  <2>4. iv.on
    BY <1>2, IntervalFields DEF Sealed
  <2>5. ~NoInterval.on
    BY IntervalFields
  <2>6. axis.then = "nothing"
    BY DEF Sealed
  <2>7. Sealed(iv, closed, T)
    BY <2>1, <2>2, <2>4, <2>6 DEF Sealed
  <2>8. QED
    BY <2>1, <2>3, <2>5, <2>7
<1>3. QED
  BY <1>1, <1>2

LEMMA ObserveOnReaches ==
  ASSUME NEW V, NEW T \in SUBSET Nat, NEW iv \in Intervals(V, T), NEW axis \in Axes(V, T),
         NEW v \in V, NEW at \in T, Sealed(iv, axis, T)
  PROVE  /\ ObserveOn(axis, v, at) \in Axes(V, T)
         /\ Reached(iv, ObserveOn(axis, v, at), T)
<1> DEFINE after == ObserveOn(axis, v, at)
<1>1. CASE axis.open.on /\ axis.open.value = v
  <2> DEFINE seen == [on |-> TRUE, value |-> axis.open.value, seen |-> Later(axis.open.seen, at)]
  <2>1. axis.open \in [on : {TRUE}, value : V, seen : T]
    BY <1>1, IntervalFields DEF Axes
  <2>2. after = CheckpointOn(axis, at)
    BY <1>1 DEF ObserveOn
  <2>3. after = [open |-> seen, close |-> axis.close, then |-> "checkpoint", at |-> at]
    BY <2>1, <2>2 DEF CheckpointOn, Axes
  <2>4. seen \in Intervals(V, T)
    BY <2>1 DEF Intervals, Later
  <2>5. axis.open = iv /\ axis.close = None
    BY <1>1, IntervalFields DEF Sealed
  <2>6. after \in Axes(V, T)
    BY <2>3, <2>4 DEF Axes
  <2>7. Confirmed(iv, after, T)
    BY <1>1, <2>3, <2>5 DEF Confirmed
  <2>8. QED
    BY <2>6, <2>7 DEF Reached
<1>2. CASE ~(axis.open.on /\ axis.open.value = v)
  <2> DEFINE closed == CloseAxis(axis, at)
  <2>1. closed \in Axes(V, T) /\ Sealed(iv, closed, T) /\ ~closed.open.on
    BY CloseAxisSeals
  <2>2. after = StartOn(closed, v, at)
    BY <1>2 DEF ObserveOn
  <2> HIDE DEF closed
  <2>3. after = [open |-> Interval(v, at), close |-> closed.close, then |-> "start", at |-> at]
    BY <2>1, <2>2 DEF StartOn, Axes
  <2>4. Interval(v, at) \in Intervals(V, T) /\ Interval(v, at).on /\ Interval(v, at).seen = at
    BY DEF Interval, Intervals
  <2>5. IF iv.on THEN closed.close \in T ELSE closed.close = None
    BY <2>1 DEF Sealed
  <2>6. QED
    BY <2>1, <2>3, <2>4, <2>5 DEF Axes, Reached, Started
<1>3. QED
  BY <1>1, <1>2

-----------------------------------------------------------------------------
(* The engine's helpers.                                                   *)

LEMMA CloseForegroundSeals ==
  ASSUME NEW T \in SUBSET Nat, NEW e \in Engines(T), NEW w \in Works(T), NEW at,
         Sealed(e.fg, w.fg, T), w.fg.open.on => at \in T
  PROVE  LET closed == CloseForeground(w, at)
         IN /\ closed \in Works(T)
            /\ Sealed(e.fg, closed.fg, T) /\ ~closed.fg.open.on
            /\ closed.st = w.st /\ closed.last = w.last /\ closed.paused = w.paused
<1>1. e.fg \in Intervals(App, T) /\ w.fg \in Axes(App, T)
  BY DEF Engines, Works
<1>2. CloseForeground(w, at)
        = [fg |-> CloseAxis(w.fg, at), st |-> w.st, last |-> w.last, paused |-> w.paused]
  BY DEF CloseForeground, Works
<1>3. /\ CloseAxis(w.fg, at) \in Axes(App, T)
      /\ Sealed(e.fg, CloseAxis(w.fg, at), T)
      /\ ~CloseAxis(w.fg, at).open.on
  BY <1>1, CloseAxisSeals
<1>4. QED
  BY <1>2, <1>3 DEF Works

LEMMA CloseComputerStateSeals ==
  ASSUME NEW T \in SUBSET Nat, NEW e \in Engines(T), NEW w \in Works(T), NEW at,
         Sealed(e.st, w.st, T), w.st.open.on => at \in T
  PROVE  LET closed == CloseComputerState(w, at)
         IN /\ closed \in Works(T)
            /\ Sealed(e.st, closed.st, T) /\ ~closed.st.open.on
            /\ closed.fg = w.fg /\ closed.last = w.last /\ closed.paused = w.paused
<1>1. e.st \in Intervals(ComputerState, T) /\ w.st \in Axes(ComputerState, T)
  BY DEF Engines, Works
<1>2. CloseComputerState(w, at)
        = [fg |-> w.fg, st |-> CloseAxis(w.st, at), last |-> w.last, paused |-> w.paused]
  BY DEF CloseComputerState, Works
<1>3. /\ CloseAxis(w.st, at) \in Axes(ComputerState, T)
      /\ Sealed(e.st, CloseAxis(w.st, at), T)
      /\ ~CloseAxis(w.st, at).open.on
  BY <1>1, CloseAxisSeals
<1>4. QED
  BY <1>2, <1>3 DEF Works

LEMMA ObserveForegroundReaches ==
  ASSUME NEW T \in SUBSET Nat, NEW e \in Engines(T), NEW w \in Works(T), NEW at \in T,
         NEW app \in App, Sealed(e.fg, w.fg, T)
  PROVE  LET seen == ObserveForeground(w, app, at)
         IN /\ seen \in Works(T) /\ Reached(e.fg, seen.fg, T)
            /\ seen.st = w.st /\ seen.last = w.last /\ seen.paused = w.paused
            /\ w.paused => seen = w
<1>1. e.fg \in Intervals(App, T) /\ w.fg \in Axes(App, T)
  BY DEF Engines, Works
<1>2. CASE ForegroundAllowed(w)
  <2>1. ObserveForeground(w, app, at)
          = [fg |-> ObserveOn(w.fg, app, at), st |-> w.st, last |-> w.last, paused |-> w.paused]
    BY <1>2 DEF ObserveForeground, Works
  <2>2. /\ ObserveOn(w.fg, app, at) \in Axes(App, T)
        /\ Reached(e.fg, ObserveOn(w.fg, app, at), T)
    BY <1>1, ObserveOnReaches
  <2>3. ~w.paused
    BY <1>2 DEF ForegroundAllowed
  <2>4. QED
    BY <2>1, <2>2, <2>3 DEF Works
<1>3. CASE ~ForegroundAllowed(w)
  BY <1>3 DEF ObserveForeground, Reached
<1>4. QED
  BY <1>2, <1>3

LEMMA ObserveStateForcedReaches ==
  ASSUME NEW T \in SUBSET Nat, NEW e \in Engines(T), NEW w \in Works(T), NEW at \in T,
         NEW state \in ComputerState, Sealed(e.st, w.st, T)
  PROVE  LET seen == ObserveStateForced(w, state, at)
         IN /\ seen \in Works(T) /\ Reached(e.st, seen.st, T)
            /\ seen.fg = w.fg /\ seen.last = w.last /\ seen.paused = w.paused
            /\ w.paused => seen = w
<1>1. e.st \in Intervals(ComputerState, T) /\ w.st \in Axes(ComputerState, T)
  BY DEF Engines, Works
<1>2. CASE ~w.paused
  <2>1. ObserveStateForced(w, state, at)
          = [fg |-> w.fg, st |-> ObserveOn(w.st, state, at), last |-> w.last, paused |-> w.paused]
    BY <1>2 DEF ObserveStateForced, Works
  <2>2. /\ ObserveOn(w.st, state, at) \in Axes(ComputerState, T)
        /\ Reached(e.st, ObserveOn(w.st, state, at), T)
    BY <1>1, ObserveOnReaches
  <2>3. QED
    BY <1>2, <2>1, <2>2 DEF Works
<1>3. CASE w.paused
  BY <1>3 DEF ObserveStateForced, Reached
<1>4. QED
  BY <1>2, <1>3

\* observe_computer_state forces the new state or leaves the engine as it is.
LEMMA ObserveStateReaches ==
  ASSUME NEW T \in SUBSET Nat, NEW e \in Engines(T), NEW w \in Works(T), NEW at \in T,
         NEW state \in ComputerState, Sealed(e.st, w.st, T)
  PROVE  LET seen == ObserveState(w, state, at)
         IN /\ seen \in Works(T) /\ Reached(e.st, seen.st, T)
            /\ seen.fg = w.fg /\ seen.last = w.last /\ seen.paused = w.paused
            /\ w.paused => seen = w
BY ObserveStateForcedReaches DEF ObserveState, Reached

\* reconcile_foreground observes what was captured, or closes.
LEMMA ReconcileReaches ==
  ASSUME NEW T \in SUBSET Nat, NEW e \in Engines(T), NEW w \in Works(T), NEW at \in T,
         NEW app \in App \union {None}, Sealed(e.fg, w.fg, T)
  PROVE  LET seen == ReconcileForeground(w, app, at)
         IN /\ seen \in Works(T) /\ Reached(e.fg, seen.fg, T)
            /\ seen.st = w.st /\ seen.last = w.last /\ seen.paused = w.paused
            /\ w.paused => seen = w \/ ~seen.fg.open.on
<1>1. CASE app = None
  BY <1>1, CloseForegroundSeals DEF ReconcileForeground, Reached
<1>2. CASE app # None
  BY <1>2, ObserveForegroundReaches DEF ReconcileForeground
<1>3. QED
  BY <1>1, <1>2

-----------------------------------------------------------------------------
(* The handlers.                                                           *)

LEMMA EffectiveTimeIsTyped ==
  ASSUME NEW T \in SUBSET Nat, NEW e \in Engines(T), NEW at \in T
  PROVE  EffectiveTime(e, at) \in T
BY DEF EffectiveTime, Later, Engines

\* A clock gap seals what was open where it was last seen.
LEMMA PrepareSeals ==
  ASSUME NEW T \in SUBSET Nat, NEW e \in Engines(T), Stopped(e.fg, e.st, e.paused),
         NEW ev, ev.at \in T
  PROVE  /\ SealedBoth(e, PrepareTimestamp(e, ev), T)
         /\ PrepareTimestamp(e, ev).paused = e.paused
<1> DEFINE w0 == [Working(e) EXCEPT !.last = EffectiveTime(e, ev.at)]
           w1 == IF CurrentState(w0) \in Excluded THEN w0 ELSE CloseForeground(w0, e.fg.seen)
           w2 == IF CurrentState(w1) \in Live THEN CloseComputerState(w1, e.st.seen) ELSE w1
<1>1. w0 = [fg |-> Axis(e.fg), st |-> Axis(e.st), last |-> EffectiveTime(e, ev.at),
            paused |-> e.paused]
  BY DEF Working
<1>2. /\ e.fg \in Intervals(App, T) /\ e.st \in Intervals(ComputerState, T)
      /\ e.paused \in BOOLEAN
  BY DEF Engines
<1>3. /\ Axis(e.fg) \in Axes(App, T) /\ Axis(e.st) \in Axes(ComputerState, T)
      /\ Sealed(e.fg, Axis(e.fg), T) /\ Sealed(e.st, Axis(e.st), T)
      /\ Axis(e.fg).open = e.fg /\ Axis(e.st).open = e.st
  BY <1>2 DEF Axis, Axes, Sealed
<1>4. EffectiveTime(e, ev.at) \in T
  BY EffectiveTimeIsTyped
<1>5. /\ w0 \in Works(T) /\ Sealed(e.fg, w0.fg, T) /\ Sealed(e.st, w0.st, T)
      /\ w0.fg.open = e.fg /\ w0.st.open = e.st /\ w0.paused = e.paused
  BY <1>1, <1>2, <1>3, <1>4 DEF Works
<1> HIDE DEF w0
<1>6. (e.fg.on => e.fg.seen \in T) /\ (e.st.on => e.st.seen \in T)
  BY <1>2, IntervalFields, ZenonT(30)
<1>7. /\ w1 \in Works(T) /\ Sealed(e.fg, w1.fg, T) /\ Sealed(e.st, w1.st, T)
      /\ w1.fg.open = e.fg \/ ~w1.fg.open.on
      /\ w1.st.open = e.st /\ w1.paused = e.paused
  BY <1>5, <1>6, CloseForegroundSeals
<1> HIDE DEF w1
<1>8. /\ w2 \in Works(T) /\ Sealed(e.fg, w2.fg, T) /\ Sealed(e.st, w2.st, T)
      /\ w2.fg.open = e.fg \/ ~w2.fg.open.on
      /\ w2.st.open = e.st \/ ~w2.st.open.on
      /\ w2.paused = e.paused
  BY <1>6, <1>7, CloseComputerStateSeals
<1> HIDE DEF w2
<1>9. PrepareTimestamp(e, ev) = w2 \/ PrepareTimestamp(e, ev) = w0
  BY DEF PrepareTimestamp, w0, w1, w2
<1>10. QED
  BY <1>5, <1>8, <1>9 DEF SealedBoth, Stopped

LEMMA ExclusionReaches ==
  ASSUME NEW T \in SUBSET Nat, NEW e \in Engines(T), NEW w, SealedBoth(e, w, T),
         NEW state \in ComputerState
  PROVE  ReachedBoth(e, OnExclusion(w, state), T)
<1> DEFINE closed == CloseForeground(w, w.last)
<1>1. w.last \in T
  BY DEF SealedBoth, Works
<1>2. /\ closed \in Works(T) /\ Sealed(e.fg, closed.fg, T) /\ ~closed.fg.open.on
      /\ closed.st = w.st /\ closed.paused = w.paused
  BY <1>1, CloseForegroundSeals DEF SealedBoth
<1> HIDE DEF closed
<1>3. OnExclusion(w, state) = ObserveStateForced(closed, state, w.last)
  BY DEF OnExclusion, closed
<1>4. QED
  BY <1>1, <1>2, <1>3, ObserveStateForcedReaches DEF SealedBoth, ReachedBoth, Reached, Stopped

LEMMA RecoveryReaches ==
  ASSUME NEW T \in SUBSET Nat, NEW e \in Engines(T), NEW w, SealedBoth(e, w, T),
         NEW state \in ComputerState, NEW app \in App \union {None}
  PROVE  ReachedBoth(e, OnRecovery(w, state, app), T)
<1> DEFINE forced == ObserveStateForced(w, state, w.last)
           after == ReconcileForeground(forced, app, w.last)
<1>1. /\ w \in Works(T) /\ w.last \in T
      /\ Sealed(e.fg, w.fg, T) /\ Sealed(e.st, w.st, T)
      /\ Stopped(w.fg.open, w.st.open, w.paused)
  BY DEF SealedBoth, Works
<1>2. /\ forced \in Works(T) /\ Reached(e.st, forced.st, T)
      /\ forced.fg = w.fg /\ forced.paused = w.paused
      /\ w.paused => forced = w
  BY <1>1, ObserveStateForcedReaches
<1> HIDE DEF forced
<1>3. /\ after \in Works(T) /\ Reached(e.fg, after.fg, T)
      /\ after.st = forced.st /\ after.paused = forced.paused
      /\ forced.paused => after = forced \/ ~after.fg.open.on
  BY <1>1, <1>2, ReconcileReaches
<1>4. OnRecovery(w, state, app) = after
  BY DEF OnRecovery, forced
<1> HIDE DEF after
<1>5. w.paused => ~after.fg.open.on /\ ~after.st.open.on
  BY <1>1, <1>2, <1>3 DEF Stopped
<1>6. QED
  BY <1>2, <1>3, <1>4, <1>5 DEF ReachedBoth, Stopped

LEMMA ResyncReaches ==
  ASSUME NEW T \in SUBSET Nat, NEW e \in Engines(T), NEW w, SealedBoth(e, w, T),
         NEW state \in ComputerState, NEW app \in App \union {None}
  PROVE  ReachedBoth(e, OnResync(w, state, app), T)
<1> DEFINE sealed == IF state \in Live THEN w ELSE CloseForeground(w, w.last)
           forced == ObserveStateForced(sealed, state, w.last)
<1>1. /\ w \in Works(T) /\ w.last \in T
      /\ Sealed(e.fg, w.fg, T) /\ Sealed(e.st, w.st, T)
      /\ Stopped(w.fg.open, w.st.open, w.paused)
  BY DEF SealedBoth, Works
<1>2. CASE w.paused
  BY <1>1, <1>2 DEF OnResync, ReachedBoth, Reached
<1>3. CASE ~w.paused
  <2>1. /\ sealed \in Works(T) /\ Sealed(e.fg, sealed.fg, T) /\ sealed.st = w.st
        /\ sealed.paused = w.paused
    BY <1>1, CloseForegroundSeals
  <2> HIDE DEF sealed
  <2>2. /\ forced \in Works(T) /\ Reached(e.st, forced.st, T)
        /\ forced.fg = sealed.fg /\ forced.paused = w.paused
    BY <1>1, <2>1, ObserveStateForcedReaches
  <2>3. OnResync(w, state, app) =
          IF ForegroundAllowed(forced) THEN ReconcileForeground(forced, app, w.last)
          ELSE CloseForeground(forced, w.last)
    BY <1>3 DEF OnResync, forced, sealed
  <2> HIDE DEF forced
  <2>4. CASE ForegroundAllowed(forced)
    BY <1>1, <1>3, <2>1, <2>2, <2>3, <2>4, ReconcileReaches DEF ReachedBoth, Stopped
  <2>5. CASE ~ForegroundAllowed(forced)
    BY <1>1, <1>3, <2>1, <2>2, <2>3, <2>5, CloseForegroundSeals DEF ReachedBoth, Reached, Stopped
  <2>6. QED
    BY <2>4, <2>5
<1>4. QED
  BY <1>1, <1>2, <1>3 DEF Works

LEMMA SealBothSeals ==
  ASSUME NEW T \in SUBSET Nat, NEW e \in Engines(T), NEW w, SealedBoth(e, w, T),
         NEW fgAt, NEW stAt,
         w.fg.open.on => fgAt \in T, w.st.open.on => stAt \in T
  PROVE  LET sealed == CloseComputerState(CloseForeground(w, fgAt), stAt)
         IN /\ sealed \in Works(T)
            /\ Sealed(e.fg, sealed.fg, T) /\ Sealed(e.st, sealed.st, T)
            /\ ~sealed.fg.open.on /\ ~sealed.st.open.on
            /\ sealed.last = w.last /\ sealed.paused = w.paused
<1> DEFINE closed == CloseForeground(w, fgAt)
<1>1. w \in Works(T) /\ Sealed(e.fg, w.fg, T) /\ Sealed(e.st, w.st, T)
  BY DEF SealedBoth
<1>2. /\ closed \in Works(T) /\ Sealed(e.fg, closed.fg, T) /\ ~closed.fg.open.on
      /\ closed.st = w.st /\ closed.last = w.last /\ closed.paused = w.paused
  BY <1>1, CloseForegroundSeals
<1> HIDE DEF closed
<1>3. QED
  BY <1>1, <1>2, CloseComputerStateSeals DEF closed

LEMMA ObserverGapReaches ==
  ASSUME NEW T \in SUBSET Nat, NEW e \in Engines(T), NEW w, SealedBoth(e, w, T)
  PROVE  ReachedBoth(e, OnObserverGap(w), T)
<1> DEFINE Cutoff(axis) == IF axis.open.on THEN axis.open.seen ELSE w.last
           start == Earlier(Earlier(Cutoff(w.fg), Cutoff(w.st)), w.last)
           sealed == CloseComputerState(CloseForeground(w, w.fg.open.seen), w.st.open.seen)
<1>1. /\ w \in Works(T) /\ w.last \in T /\ w.paused \in BOOLEAN
      /\ w.fg.open \in Intervals(App, T) /\ w.st.open \in Intervals(ComputerState, T)
  BY DEF SealedBoth, Works, Axes
<1>2. (w.fg.open.on => w.fg.open.seen \in T) /\ (w.st.open.on => w.st.open.seen \in T)
  <2>1. w.fg.open.on => w.fg.open.seen \in T
    BY <1>1, IntervalFields, ZenonT(30)
  <2>2. w.st.open.on => w.st.open.seen \in T
    BY <1>1, IntervalFields, ZenonT(30)
  <2>3. QED
    BY <2>1, <2>2
<1>3. /\ sealed \in Works(T)
      /\ Sealed(e.fg, sealed.fg, T) /\ Sealed(e.st, sealed.st, T)
      /\ ~sealed.fg.open.on /\ sealed.paused = w.paused
  BY <1>2, SealBothSeals
<1>4. start \in T
  BY <1>1, <1>2 DEF Earlier
<1>5. OnObserverGap(w) = IF w.paused THEN w ELSE ObserveStateForced(sealed, "unknown", start)
  BY DEF OnObserverGap
<1> HIDE DEF sealed, start
<1>6. CASE w.paused
  BY <1>5, <1>6 DEF SealedBoth, ReachedBoth, Reached
<1>7. CASE ~w.paused
  <2>1. "unknown" \in ComputerState
    BY DEF ComputerState
  <2>2. QED
    BY <1>3, <1>4, <1>5, <1>7, <2>1, ObserveStateForcedReaches DEF ReachedBoth, Reached, Stopped
<1>8. QED
  BY <1>6, <1>7

LEMMA StopReaches ==
  ASSUME NEW T \in SUBSET Nat, NEW e \in Engines(T), NEW w, SealedBoth(e, w, T),
         NEW at \in T
  PROVE  ReachedBoth(e, OnStop(w, at), T) /\ OnStop(w, at).paused = TRUE
<1> DEFINE sealed == CloseComputerState(CloseForeground(w, at), at)
<1>1. /\ sealed \in Works(T)
      /\ Sealed(e.fg, sealed.fg, T) /\ Sealed(e.st, sealed.st, T)
      /\ ~sealed.fg.open.on /\ ~sealed.st.open.on
  BY SealBothSeals
<1>2. OnStop(w, at) = [sealed EXCEPT !.paused = TRUE]
  BY DEF OnStop
<1> HIDE DEF sealed
<1>3. OnStop(w, at) = [fg |-> sealed.fg, st |-> sealed.st, last |-> sealed.last, paused |-> TRUE]
  BY <1>1, <1>2 DEF Works
<1>4. QED
  BY <1>1, <1>3 DEF Works, ReachedBoth, Reached, Stopped

LEMMA ResumeCollectionReaches ==
  ASSUME NEW T \in SUBSET Nat, NEW e \in Engines(T), NEW w, SealedBoth(e, w, T),
         NEW state \in ComputerState, NEW app \in App \union {None}
  PROVE  ReachedBoth(e, OnResumeCollection(w, state, app), T)
<1> DEFINE running == [w EXCEPT !.paused = FALSE]
           seen == ObserveState(running, state, w.last)
<1>1. /\ w \in Works(T) /\ w.last \in T
      /\ Sealed(e.fg, w.fg, T) /\ Sealed(e.st, w.st, T)
  BY DEF SealedBoth, Works
<1>2. /\ running \in Works(T) /\ running.paused = FALSE
      /\ running.fg = w.fg /\ running.st = w.st
  BY <1>1, FALSE \in BOOLEAN DEF Works
<1> HIDE DEF running
<1>3. /\ seen \in Works(T) /\ Reached(e.st, seen.st, T)
      /\ seen.fg = w.fg /\ seen.paused = FALSE
  BY <1>1, <1>2, ObserveStateReaches
<1> HIDE DEF seen
<1>4. OnResumeCollection(w, state, app) =
        IF app = None THEN seen ELSE ObserveForeground(seen, app, w.last)
  BY DEF OnResumeCollection, seen, running
<1>5. CASE app = None
  BY <1>1, <1>3, <1>4, <1>5 DEF ReachedBoth, Reached, Stopped
<1>6. CASE app # None
  <2> DEFINE after == ObserveForeground(seen, app, w.last)
  <2>1. app \in App /\ Sealed(e.fg, seen.fg, T)
    BY <1>1, <1>3, <1>6
  <2>2. /\ after \in Works(T) /\ Reached(e.fg, after.fg, T)
        /\ after.st = seen.st /\ after.paused = FALSE
    BY <1>1, <1>3, <2>1, ObserveForegroundReaches
  <2>3. OnResumeCollection(w, state, app) = after
    BY <1>4, <1>6
  <2> HIDE DEF after
  <2>4. QED
    BY <1>3, <2>2, <2>3 DEF ReachedBoth, Stopped
<1>7. QED
  BY <1>5, <1>6

\* An event that carries what its handler reads.
WellFormed(ev, T) ==
  /\ ev.at \in T
  /\ ev.app \in App \union {None}
  /\ ev.type = "Foreground" => ev.app \in App
  /\ ev.type \in Recovering \union {"Resync", "ResumeCollection"} => ev.state \in ComputerState

\* Whatever the event, the engine and each axis are left in one of the ways
\* above: a Start never follows an open interval without its Close, a
\* Checkpoint or a Close never comes without an open interval, and a stopped
\* engine opens nothing.
THEOREM HandleReaches ==
  ASSUME NEW T \in SUBSET Nat, NEW e \in Engines(T), Stopped(e.fg, e.st, e.paused),
         NEW ev, WellFormed(ev, T)
  PROVE  ReachedBoth(e, Handle(e, ev), T)
<1> DEFINE w == PrepareTimestamp(e, ev)
<1>1. SealedBoth(e, w, T)
  BY PrepareSeals DEF WellFormed
<1>2. /\ w \in Works(T) /\ w.last \in T
      /\ Sealed(e.fg, w.fg, T) /\ Sealed(e.st, w.st, T)
      /\ Stopped(w.fg.open, w.st.open, w.paused)
  BY <1>1 DEF SealedBoth, Works
<1>3. Handle(e, ev) =
        CASE ev.type = "Foreground"            -> ObserveForeground(w, ev.app, w.last)
          [] ev.type = "ForegroundUnavailable" -> CloseForeground(w, w.last)
          [] ev.type = "IdleThresholdCrossed"  -> OnIdleThresholdCrossed(w)
          [] ev.type = "UserActive"            -> OnUserActive(w)
          [] ev.type \in Excluding             -> OnExclusion(w, ExclusionOf(ev.type))
          [] ev.type \in Recovering            -> OnRecovery(w, ev.state, ev.app)
          [] ev.type = "Resync"                -> OnResync(w, ev.state, ev.app)
          [] ev.type = "ObserverGap"           -> OnObserverGap(w)
          [] ev.type = "ResumeCollection"      -> OnResumeCollection(w, ev.state, ev.app)
          [] ev.type = "WindowsShutdown"       -> OnStop(w, ev.at)
          [] OTHER                             -> OnStop(w, w.last)
  BY DEF Handle
<1> HIDE DEF w
<1>4. CASE ev.type = "Foreground"
  <2> DEFINE after == ObserveForeground(w, ev.app, w.last)
  <2>1. ev.app \in App
    BY <1>4 DEF WellFormed
  <2>2. /\ after \in Works(T) /\ Reached(e.fg, after.fg, T)
        /\ after.st = w.st /\ after.paused = w.paused /\ (w.paused => after = w)
    BY <1>2, <2>1, ObserveForegroundReaches
  <2>3. Handle(e, ev) = after
    BY <1>3, <1>4 DEF Recovering, Excluding
  <2> HIDE DEF after
  <2>4. QED
    BY <1>2, <2>2, <2>3 DEF ReachedBoth, Reached, Stopped
<1>5. CASE ev.type = "ForegroundUnavailable"
  <2> DEFINE after == CloseForeground(w, w.last)
  <2>1. /\ after \in Works(T) /\ Sealed(e.fg, after.fg, T) /\ ~after.fg.open.on
        /\ after.st = w.st /\ after.paused = w.paused
    BY <1>2, CloseForegroundSeals
  <2>2. Handle(e, ev) = after
    BY <1>3, <1>5 DEF Recovering, Excluding
  <2> HIDE DEF after
  <2>3. QED
    BY <1>2, <2>1, <2>2 DEF ReachedBoth, Reached, Stopped
<1>6. ASSUME NEW state \in ComputerState
      PROVE  ReachedBoth(e, ObserveState(w, state, w.last), T)
  <2> DEFINE after == ObserveState(w, state, w.last)
  <2>1. /\ after \in Works(T) /\ Reached(e.st, after.st, T)
        /\ after.fg = w.fg /\ after.paused = w.paused /\ (w.paused => after = w)
    BY <1>2, ObserveStateReaches
  <2> HIDE DEF after
  <2>2. ReachedBoth(e, after, T)
    BY <1>2, <2>1 DEF ReachedBoth, Reached, Stopped
  <2>3. QED
    BY <2>2 DEF after
<1>7. ReachedBoth(e, w, T) /\ "idle" \in ComputerState /\ "active" \in ComputerState
  BY <1>2 DEF ReachedBoth, Reached, ComputerState, Live
<1>8. CASE ev.type = "IdleThresholdCrossed"
  <2>1. Handle(e, ev) = OnIdleThresholdCrossed(w)
    BY <1>3, <1>8 DEF Recovering, Excluding
  <2>2. QED
    BY <1>6, <1>7, <2>1 DEF OnIdleThresholdCrossed
<1>9. CASE ev.type = "UserActive"
  <2>1. Handle(e, ev) = OnUserActive(w)
    BY <1>3, <1>9 DEF Recovering, Excluding
  <2>2. QED
    BY <1>6, <1>7, <2>1 DEF OnUserActive
<1>10. CASE ev.type \in Excluding
  <2>1. Handle(e, ev) = OnExclusion(w, ExclusionOf(ev.type))
    BY <1>3, <1>10 DEF Recovering, Excluding
  <2>2. ExclusionOf(ev.type) \in ComputerState
    BY <1>10 DEF Excluding, ExclusionOf, ComputerState, Excluded
  <2>3. QED
    BY <1>1, <2>1, <2>2, ExclusionReaches
<1>11. CASE ev.type \in Recovering
  <2>1. Handle(e, ev) = OnRecovery(w, ev.state, ev.app)
    BY <1>3, <1>11 DEF Recovering, Excluding
  <2>2. ev.state \in ComputerState /\ ev.app \in App \union {None}
    BY <1>11 DEF WellFormed
  <2>3. QED
    BY <1>1, <2>1, <2>2, RecoveryReaches
<1>12. CASE ev.type = "Resync"
  <2>1. Handle(e, ev) = OnResync(w, ev.state, ev.app)
    BY <1>3, <1>12 DEF Recovering, Excluding
  <2>2. ev.state \in ComputerState /\ ev.app \in App \union {None}
    BY <1>12 DEF WellFormed
  <2>3. QED
    BY <1>1, <2>1, <2>2, ResyncReaches
<1>13. CASE ev.type = "ObserverGap"
  <2>1. Handle(e, ev) = OnObserverGap(w)
    BY <1>3, <1>13 DEF Recovering, Excluding
  <2>2. QED
    BY <1>1, <2>1, ObserverGapReaches
<1>14. CASE ev.type = "ResumeCollection"
  <2>1. Handle(e, ev) = OnResumeCollection(w, ev.state, ev.app)
    BY <1>3, <1>14 DEF Recovering, Excluding
  <2>2. ev.state \in ComputerState /\ ev.app \in App \union {None}
    BY <1>14 DEF WellFormed
  <2>3. QED
    BY <1>1, <2>1, <2>2, ResumeCollectionReaches
<1>15. CASE ev.type \notin {"Foreground", "ForegroundUnavailable", "IdleThresholdCrossed",
                            "UserActive", "Resync", "ObserverGap", "ResumeCollection"}
                           \union Excluding \union Recovering
  <2>1. Handle(e, ev) = OnStop(w, ev.at) \/ Handle(e, ev) = OnStop(w, w.last)
    BY <1>3, <1>15
  <2>2. QED
    BY <1>1, <1>2, <2>1, StopReaches DEF WellFormed
<1>16. QED
  BY <1>4, <1>5, <1>8, <1>9, <1>10, <1>11, <1>12, <1>13, <1>14, <1>15

\* A Pause or a Shutdown leaves the engine stopped.
LEMMA StopStops ==
  ASSUME NEW T \in SUBSET Nat, NEW e \in Engines(T), Stopped(e.fg, e.st, e.paused),
         NEW ev, WellFormed(ev, T), ev.type \in {"Pause", "Shutdown"}
  PROVE  Handle(e, ev).paused = TRUE
<1> DEFINE w == PrepareTimestamp(e, ev)
<1>1. SealedBoth(e, w, T) /\ w.last \in T
  BY PrepareSeals DEF WellFormed, SealedBoth, Works
<1>2. Handle(e, ev) = OnStop(w, w.last)
  BY DEF Handle, Recovering, Excluding
<1> HIDE DEF w
<1>3. QED
  BY <1>1, <1>2, StopReaches
=============================================================================
