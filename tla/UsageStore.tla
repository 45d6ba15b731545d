----------------------------- MODULE UsageStore -----------------------------
(***************************************************************************)
(* The usage rows of the SQLite database and the writer operations on them *)
(* (src-tauri/src/db/writer.rs).  A store is a record:                     *)
(*   fg, st     the open row of foreground_interval and of                 *)
(*              computer_state_interval, or NoRow                          *)
(*   fgEnd,     the latest end of the closed rows of each table; 0 when    *)
(*   stEnd      there is none                                              *)
(*   fgCp, stCp UsagePersistenceState's last checkpoint of each axis       *)
(*   heartbeat  the runtime_usage_heartbeat_ms setting                     *)
(* A row's open id in UsagePersistenceState and the row with a NULL end    *)
(* change in the same transactions only, so one field stands for both.     *)
(***************************************************************************)
EXTENDS IntervalEngine

CONSTANT CheckpointInterval   \* USAGE_CHECKPOINT_INTERVAL_MS, in ticks

ASSUME CheckpointAssumption == CheckpointInterval \in Nat \ {0}

NoRow == [on |-> FALSE, value |-> None, start |-> 0, seen |-> 0]
Row(v, at) == [on |-> TRUE, value |-> v, start |-> at, seen |-> at]

EmptyStore == [fg |-> NoRow, st |-> NoRow, fgEnd |-> 0, stEnd |-> 0,
               fgCp |-> 0, stCp |-> 0, heartbeat |-> 0]

\* Mutant of Due: off by one.
DueLate(cp, at) == at - cp > CheckpointInterval

Due(cp, at) == at - cp >= CheckpointInterval

-----------------------------------------------------------------------------
(* apply_usage_actions: one transaction for the whole batch of an event.   *)

\* The writer refuses a batch that starts an interval while one is open, or
\* closes or checkpoints one that is not there (usage_state_error).
AxisAccepted(row, cp, axis) ==
  /\ axis.close # None => row.on
  /\ axis.then = "start" => ~row.on \/ axis.close # None
  /\ axis.then = "checkpoint" /\ Due(cp, axis.at) => row.on /\ axis.close = None

Accepted(s, w) == AxisAccepted(s.fg, s.fgCp, w.fg) /\ AxisAccepted(s.st, s.stCp, w.st)

RowAfter(row, cp, axis) ==
  CASE axis.then = "start" -> Row(axis.open.value, axis.at)
    [] axis.then = "checkpoint" /\ Due(cp, axis.at) -> [row EXCEPT !.seen = Later(@, axis.at)]
    [] axis.then = "nothing" /\ axis.close # None -> NoRow
    [] OTHER -> row

EndAfter(row, end, axis) ==
  IF axis.close = None THEN end ELSE Later(end, Later(row.start, axis.close))

CheckpointAfter(cp, axis) ==
  CASE axis.then = "checkpoint" /\ Due(cp, axis.at) -> axis.at
    [] axis.close # None -> 0
    [] OTHER -> cp

\* Every write on the computer-state table raises the heartbeat setting to it.
HeartbeatAfter(s, axis) ==
  LET closed == IF axis.close = None THEN s.heartbeat ELSE Later(s.heartbeat, axis.close)
  IN IF axis.then = "start" \/ (axis.then = "checkpoint" /\ Due(s.stCp, axis.at))
     THEN Later(closed, axis.at) ELSE closed

Applied(s, w) ==
  [fg    |-> RowAfter(s.fg, s.fgCp, w.fg),
   st    |-> RowAfter(s.st, s.stCp, w.st),
   fgEnd |-> EndAfter(s.fg, s.fgEnd, w.fg),
   stEnd |-> EndAfter(s.st, s.stEnd, w.st),
   fgCp  |-> CheckpointAfter(s.fgCp, w.fg),
   stCp  |-> CheckpointAfter(s.stCp, w.st),
   heartbeat |-> HeartbeatAfter(s, w.st)]

-----------------------------------------------------------------------------
(* Startup and explicit clear.                                             *)

\* Everything open is closed: foreground at fgCutoff, state at stCutoff, but
\* no row before its own start.
Resealed(s, fgCutoff, stCutoff, now) ==
  [fg |-> NoRow, st |-> NoRow,
   fgEnd |-> IF s.fg.on THEN Later(s.fgEnd, Later(s.fg.start, fgCutoff)) ELSE s.fgEnd,
   stEnd |-> IF s.st.on THEN Later(s.stEnd, Later(s.st.start, stCutoff)) ELSE s.stEnd,
   fgCp |-> 0, stCp |-> 0, heartbeat |-> now]

BeforeNow(now) == IF now = 0 THEN 0 ELSE now - 1

\* Mutant of Recovered: the new session's heartbeat is written first.
RecoveredAtNow(s, now) == Resealed(s, s.fg.seen, BeforeNow(now), now)

\* Mutant of Recovered: foreground, too, ends at the heartbeat.
RecoveredByHeartbeat(s, now) ==
  LET cutoff == Earlier(s.heartbeat, BeforeNow(now)) IN Resealed(s, cutoff, cutoff, now)

\* recover_open_intervals followed by start_runtime_session: foreground ends
\* where it was last seen, state at the persisted heartbeat but before now.
Recovered(s, now) == Resealed(s, s.fg.seen, Earlier(s.heartbeat, BeforeNow(now)), now)

\* clear_collected_data deletes the foreground rows and keeps the state rows.
Cleared(s) == [s EXCEPT !.fg = NoRow, !.fgEnd = 0, !.fgCp = 0, !.stCp = 0]
=============================================================================
