--------------------------- MODULE ProcessRollup ---------------------------
(***************************************************************************)
(* The process rollups (src-tauri/src/db/rollup.rs): minute rows made from *)
(* the frames, hour and day rows made from the minute rows, and the two    *)
(* checkpoint settings that let a later slice go on.  A rollup store is:   *)
(*   minute, hour, day      the frames the rows of each layer count        *)
(*   minuteMark, hourMark   the checkpoints, as bucket starts, or NoMark   *)
(* A frame is a record whose `at` is its minute; every frame carries a     *)
(* process snapshot, as those the minute layer reads do.  The weights and  *)
(* sums inside a row are left out: a row stands for the frames it counts.  *)
(***************************************************************************)
EXTENDS Integers, FiniteSets

CONSTANTS HourLen,  \* minutes in an hour
          DayLen,   \* minutes in a local day
          Batch     \* batch_size: 16 in the loop, 32 at shutdown

ASSUME RollupAssumption ==
  /\ HourLen \in Nat \ {0} /\ Batch \in Nat \ {0}
  /\ DayLen \in {k * HourLen : k \in 1..48}

NoMark == -1

EmptyRollup == [minute |-> {}, hour |-> {}, day |-> {},
                minuteMark |-> NoMark, hourMark |-> NoMark]

HourOf(minute) == minute - (minute % HourLen)   \* floor_bucket
DayOf(minute) == minute \div DayLen           \* local_date_for_timestamp

\* LIMIT n of an ascending query.
Lowest(n, S) == {x \in S : Cardinality({y \in S : y < x}) < n}

Latest(mark, S) == IF S = {} THEN mark ELSE CHOOSE x \in S : \A y \in S : y <= x

\* The ways to stop in a loop over S that for each bucket in turn writes its
\* rows and then its checkpoint: those rebuilt, and those also checkpointed.
Prefixes(S) == {T \in SUBSET S : \A x \in T, y \in S : y < x => y \in T}

Stops(S) == {p \in Prefixes(S) \X Prefixes(S) :
               p[2] \subseteq p[1] /\ Cardinality(p[1] \ p[2]) <= 1}
Done(S) == <<S, S>>

\* candidate_buckets: the complete minutes beyond the checkpoint.
MinuteCandidates(r, frames, now) ==
  Lowest(Batch, {f.at : f \in {g \in frames : g.at < now /\ g.at > r.minuteMark}})

\* rebuild_process_rollup_1m_bucket, then the checkpoint.
MinutesRebuilt(r, frames, stop) ==
  [minute |-> {f \in r.minute : f.at \notin stop[1]} \cup {f \in frames : f.at \in stop[1]},
   hour |-> r.hour, day |-> r.day,
   minuteMark |-> Latest(r.minuteMark, stop[2]), hourMark |-> r.hourMark]

\* candidate_rollup_hour_buckets, with the hours of the minutes just rebuilt.
HourCandidates(r, now) ==
  Lowest(Batch, {HourOf(f.at) : f \in {g \in r.minute : /\ g.at < HourOf(now)
                                                        /\ g.at > r.hourMark}})

\* Mutant of AffectedHours: an hour that failed is not taken up again.
AffectedHoursOnce(r, minutes, now) == {HourOf(m) : m \in minutes}

AffectedHours(r, minutes, now) == {HourOf(m) : m \in minutes} \cup HourCandidates(r, now)

\* Of the affected hours, those complete and beyond the checkpoint.
HoursToRebuild(r, minutes, now) ==
  {h \in AffectedHours(r, minutes, now) : h < HourOf(now) /\ h > r.hourMark}

\* rebuild_process_rollup_1h_bucket, then the checkpoint.
HoursRebuilt(r, stop) ==
  [minute |-> r.minute, day |-> r.day,
   hour |-> {f \in r.hour : HourOf(f.at) \notin stop[1]}
              \cup {f \in r.minute : HourOf(f.at) \in stop[1]},
   minuteMark |-> r.minuteMark, hourMark |-> Latest(r.hourMark, stop[2])]

AffectedDays(r, minutes, now) ==
  {DayOf(m) : m \in minutes} \cup {DayOf(h) : h \in HourCandidates(r, now)}

\* rebuild_app_resource_daily for each of the days.
DaysRebuilt(r, days) ==
  [r EXCEPT !.day = {f \in @ : DayOf(f.at) \notin days}
                      \cup {f \in r.minute : DayOf(f.at) \in days}]

\* run_process_rollups: one slice, which an error or a crash may end anywhere.
Slices(r, frames, now) ==
  LET minutes == MinuteCandidates(r, frames, now)
      r1 == MinutesRebuilt(r, frames, Done(minutes))
      hours == HoursToRebuild(r1, minutes, now)
      r2 == HoursRebuilt(r1, Done(hours))
  IN {MinutesRebuilt(r, frames, stop) : stop \in Stops(minutes)}
       \cup {HoursRebuilt(r1, stop) : stop \in Stops(hours)}
       \cup {DaysRebuilt(r2, days) : days \in Prefixes(AffectedDays(r1, minutes, now))}

\* The slice nothing cut short.
FullSlice(r, frames, now) ==
  LET minutes == MinuteCandidates(r, frames, now)
      r1 == MinutesRebuilt(r, frames, Done(minutes))
      r2 == HoursRebuilt(r1, Done(HoursToRebuild(r1, minutes, now)))
  IN DaysRebuilt(r2, AffectedDays(r1, minutes, now))
=============================================================================
