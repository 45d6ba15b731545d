---------------------------- MODULE IntervalAxis ----------------------------
(***************************************************************************)
(* What one time axis of usage history promises its readers, and nothing   *)
(* about how: at most one interval is open; it is confirmed up to `seen`,  *)
(* which only moves forward; it is sealed no earlier than it was           *)
(* confirmed; and the next one begins no earlier than every sealed one     *)
(* ended.  `end` is the latest end of the sealed intervals, 0 for none.    *)
(***************************************************************************)
EXTENDS Integers

CONSTANT NoRow      \* an axis with no open interval: a record with on = FALSE

VARIABLES row, end

axis == <<row, end>>

AxisInit == row = NoRow /\ end = 0

Begin ==
  /\ ~row.on /\ row'.on
  /\ row'.start >= end /\ row'.seen = row'.start
  /\ UNCHANGED end

Confirm ==
  /\ row.on
  /\ row'.seen >= row.seen
  /\ row' = [row EXCEPT !.seen = row'.seen]
  /\ UNCHANGED end

Seal ==
  /\ row.on
  /\ row' = NoRow
  /\ end' >= row.seen /\ end' >= end

\* One interval replaces another without overlapping it.
Switch ==
  /\ row.on /\ row'.on
  /\ end' >= row.seen /\ end' >= end
  /\ row'.start >= end' /\ row'.seen = row'.start

Erase == AxisInit'

AxisNext == Begin \/ Confirm \/ Seal \/ Switch \/ Erase

AxisSpec == AxisInit /\ [][AxisNext]_axis
=============================================================================
