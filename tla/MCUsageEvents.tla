---------------------------- MODULE MCUsageEvents ----------------------------
(***************************************************************************)
(* UsageTimeline with a wall clock that only goes on and platform events   *)
(* of a few kinds, or with one that may also be set back, up to a nearer   *)
(* horizon, and platform events of every kind.                             *)
(***************************************************************************)
EXTENDS MCUsageTimeline

VARIABLE unsteady

NearerHorizon == MaxTime - 1

\* An observation, a boundary, and the one kind that closes with the raw time.
FartherKinds == {"Foreground", "Suspend", "WindowsShutdown"}

EventOfFartherKind ==
  /\ process = "running" /\ gap # "before"
  /\ \E ev \in {e \in PlatformEvents : e.type \in FartherKinds} : Apply(ev)
  /\ UNCHANGED <<paused, gap, lastObs, process, since, resumed, clock>>

EveryOtherStep ==
  \/ RequestRecovery \/ RecordGap \/ Heartbeat \/ HeartbeatFails
  \/ Pause \/ Resume \/ Clear \/ ClearRefused \/ Shutdown \/ Crash \/ Start \/ Tick

EventsInit == Init /\ unsteady \in BOOLEAN

EventsNext ==
  \/ ~unsteady /\ (EventOfFartherKind \/ EveryOtherStep) /\ UNCHANGED unsteady
  \/ unsteady /\ Next /\ now' <= NearerHorizon /\ UNCHANGED unsteady
  \/ unsteady /\ HeartbeatPanics /\ UNCHANGED unsteady
  \/ unsteady /\ ClockStepsBack /\ UNCHANGED unsteady

EventsSpec == EventsInit /\ [][EventsNext]_<<vars, unsteady>>
=============================================================================
