--------------------------- MODULE MCUsageTimeline ---------------------------
(***************************************************************************)
(* Instances of UsageTimeline for TLC.  Two applications, which are        *)
(* interchangeable, are enough for a switch; one is enough for a run that  *)
(* is not about switches.                                                  *)
(***************************************************************************)
EXTENDS UsageTimeline, TLC

CONSTANTS a, b

AppSymmetry == Permutations({a, b})

\* One observation and one boundary: room for a longer clock.
FewKinds == {"Foreground", "Locked"}

\* One platform event of every handler; Locked and Disconnected are handled as
\* Suspend is, Resume and Connected as Unlocked is.
EveryHandler ==
  {"Foreground", "ForegroundUnavailable", "Suspend", "Unlocked", "WindowsShutdown"}

OnlyForeground == {"Foreground"}

NoSessions == {}
Undetected == {"unknown"}
LockedSession == {"locked"}
=============================================================================
