-------------------------- MODULE MCPlatformPipeline --------------------------
(***************************************************************************)
(* Instances of PlatformPipeline for TLC.  There are more notifications    *)
(* than the critical lane and its fallback hold together, so that an       *)
(* overflow is reached.                                                    *)
(***************************************************************************)
EXTENDS PlatformPipeline

ASSUME OverflowIsReached == CriticalCap + FallbackCap < MaxEvents
=============================================================================
