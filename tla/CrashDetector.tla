--------------------------- MODULE CrashDetector ---------------------------
(***************************************************************************)
(* The crash detector (src-tauri/src/crash.rs) on a machine that stops and *)
(* starts again: it reads the System log page by page, stores the events   *)
(* with its cursor, makes a case of each crash they show, holds the frames *)
(* around it, and builds the evidence of the case from them, the part      *)
(* after the crash once its time is over.                                  *)
(*   clock           the wall clock, in units that CrashLog's windows count *)
(*   on, boots, fell the machine: its boots, each with the time the run    *)
(*                   before it broke off, and when this run did            *)
(*   log             the System log, a sequence of CrashLog's events       *)
(*   up              the application runs                                  *)
(*   sessions        its boot sessions                                     *)
(*   frames          the committed sample frames, [boot, at]               *)
(*   stored, cursor, cases, holds   the detector's tables; a hold stays in *)
(*                   its table when it is released                         *)
(*   scan            the detector's thread: the part of its round, the     *)
(*                   time the round began and the cases left to build      *)
(* linked is history: which events went into which case.                   *)
(***************************************************************************)
EXTENDS CrashLog, FiniteSets

CONSTANTS Pre, Post,    \* CRASH_CASE_WINDOW_PRE_MS and ..._POST_MS
          Stabilise,    \* CRASH_POST_FINALIZATION_STABILIZATION_MS
          Page,         \* EVENT_SCAN_BATCH_SIZE
          Limit,        \* CRASH_RETENTION_CASE_LIMIT
          Keep,         \* how long frames are kept
          Startups,     \* what Windows may log at a start after a crash
          Loads         \* bounds: records [boots, frames, events, time]: how many
                        \* boots, when frames may be sampled, how many faults and
                        \* orders of the user, how late it gets

ASSUME CrashAssumption ==
  /\ {Pre, Post, Correlation, BootMatch} \subseteq Nat /\ BootMatch <= Correlation
  /\ {Page, Limit} \subseteq Nat \ {0}
  /\ None \notin [at : Nat, id : Nat] \cup {"session", "boot"} \X Nat
  /\ Startups \subseteq Seq([kind : Crashed \cup {"Boot"}, tells : BOOLEAN])
  /\ Loads \subseteq [boots : Nat, frames : SUBSET Nat, events : Nat, time : Nat \ {0}]

VARIABLES clock, on, boots, fell, log, up, sessions, frames,
          stored, cursor, cases, holds, scan, linked, happened, load

machine == <<on, boots, fell, log>>
tables == <<stored, cursor, cases, holds, linked>>
budget == <<happened, load>>
vars == <<clock, machine, up, sessions, frames, tables, scan, budget>>

\* A fault, or an order of the user: `load` says how many of them there are.
Happens == happened < load.events /\ happened' = happened + 1

AtRest == [phase |-> "rest", now |-> 0, todo |-> <<>>]

-----------------------------------------------------------------------------
(* The machine and the application.                                        *)

Tick ==
  /\ clock < load.time
  /\ clock' = clock + 1
  /\ UNCHANGED <<machine, up, sessions, frames, tables, scan, budget>>

Record(kind) == [kind |-> kind, tells |-> FALSE]

\* What is logged at the start of a boot, after one that broke off or not.
Logged(before, n, at, fallen) ==
  {before \o [i \in DOMAIN records |->
                [id |-> Len(before) + i, at |-> at, kind |-> records[i].kind,
                 prev |-> IF records[i].tells THEN fallen ELSE None, boot |-> n]] :
     records \in IF fallen = None THEN {<<Record("Boot")>>} ELSE Startups}

\* Starting takes time.
PowerOn ==
  /\ ~on /\ Len(boots) < load.boots /\ clock < load.time
  /\ clock' = clock + 1
  /\ on' = TRUE /\ fell' = None
  /\ boots' = Append(boots, [at |-> clock', fell |-> fell])
  /\ log' \in Logged(log, Len(boots'), clock', fell)
  /\ UNCHANGED <<up, sessions, frames, tables, scan, budget>>

\* Windows ends or just stops; the application does with it, told or not.
ShutDown ==
  /\ on /\ clock # boots[Len(boots)].at
  /\ on' = FALSE /\ up' = FALSE /\ scan' = AtRest
  /\ log' = Append(log, [id |-> Len(log) + 1, at |-> clock, kind |-> "Shutdown",
                         prev |-> None, boot |-> Len(boots)])
  /\ sessions' = {IF up /\ s.boot = Len(boots) THEN [s EXCEPT !.end = clock] ELSE s :
                    s \in sessions}
  /\ UNCHANGED <<clock, boots, fell, frames, tables, budget>>

BreaksOff ==
  /\ on /\ clock # boots[Len(boots)].at
  /\ on' = FALSE /\ up' = FALSE /\ scan' = AtRest
  /\ fell' = clock
  /\ UNCHANGED <<clock, boots, log, sessions, frames, tables, budget>>

\* Windows reports the dump of the crash before this boot, later.
WerReports ==
  /\ on /\ boots[Len(boots)].fell # None
  /\ \A i \in DOMAIN log : ~(log[i].kind = "Wer" /\ log[i].boot = Len(boots))
  /\ log' = Append(log, [id |-> Len(log) + 1, at |-> clock, kind |-> "Wer",
                         prev |-> None, boot |-> Len(boots)])
  /\ UNCHANGED <<clock, on, boots, fell, up, sessions, frames, tables, scan, budget>>

\* Database::open makes the boot's session before the detector starts.
AppStarts ==
  /\ on /\ ~up
  /\ up' = TRUE
  /\ sessions' =
       IF \E s \in sessions : s.boot = Len(boots) THEN sessions
       ELSE sessions \cup {[boot |-> Len(boots), at |-> boots[Len(boots)].at,
                            start |-> clock, end |-> None]}
  /\ UNCHANGED <<clock, machine, frames, tables, scan, budget>>

AppEnds ==
  /\ up /\ Happens
  /\ up' = FALSE /\ scan' = AtRest
  /\ UNCHANGED <<clock, machine, sessions, frames, tables, load>>

\* The collector commits a frame.
Sample ==
  /\ up /\ clock \in load.frames
  /\ frames' = frames \cup {[boot |-> Len(boots), at |-> clock]}
  /\ UNCHANGED <<clock, machine, up, sessions, tables, scan, budget>>

-----------------------------------------------------------------------------
(* Cases and their holds.                                                  *)

Overlaps(frame, from, to) == frame.at < to /\ frame.at + 1 > from

\* The frames in the evidence window around a time.
Evidence(anchor) == {f \in frames : Overlaps(f, anchor - Pre, anchor + Post)}

Active(hs) == {i \in DOMAIN hs : hs[i].active}
Held == {holds[i].case : i \in Active(holds)}

\* Mutant of Retained: no hold is released for a newer one.
RetainedAll(hs, cs) == hs

\* The holds of the newest cases stay active.
Retained(hs, cs) ==
  LET newer(i, j) == \/ cs[hs[i].case].anchor > cs[hs[j].case].anchor
                     \/ /\ cs[hs[i].case].anchor = cs[hs[j].case].anchor
                        /\ i > j
      kept == {j \in Active(hs) : Cardinality({i \in Active(hs) : newer(i, j)}) < Limit}
  IN [j \in DOMAIN hs |-> [hs[j] EXCEPT !.active = j \in kept]]

\* Mutant of Filed: the case keeps its status.
FiledAsItWas(case, crash) ==
  [case EXCEPT !.anchor = crash.anchor, !.rank = IF crash.rank > @ THEN crash.rank ELSE @]

\* A case that is known: its anchor follows the evidence, its classification
\* only grows, and it is to be built again.
Filed(case, crash) ==
  [case EXCEPT !.anchor = crash.anchor, !.rank = IF crash.rank > @ THEN crash.rank ELSE @,
               !.status = "pending"]

NewCase(crash) ==
  [key |-> crash.key, anchor |-> crash.anchor, rank |-> crash.rank,
   status |-> "pending", built |-> None]

Hold(id, anchor) == [case |-> id, anchor |-> anchor, active |-> TRUE]

\* Mutant of Holding: the hold stays where it was.
HoldingAsItWas(hs, id, anchor) ==
  IF \E i \in Active(hs) : hs[i].case = id THEN hs ELSE Append(hs, Hold(id, anchor))

\* The active hold of a case follows its anchor; there is one afterwards.
Holding(hs, id, anchor) ==
  IF \E i \in Active(hs) : hs[i].case = id
    THEN [i \in DOMAIN hs |-> IF i \in Active(hs) /\ hs[i].case = id
                                THEN [hs[i] EXCEPT !.anchor = anchor] ELSE hs[i]]
    ELSE Append(hs, Hold(id, anchor))

\* create_case_and_hold_tx; an unresolved crash is known by its anchor.
CreateCase(t, crash) ==
  LET known == {i \in DOMAIN t.cases : /\ t.cases[i].key = crash.key
                                       /\ crash.key = None => t.cases[i].anchor = crash.anchor}
      id == IF known = {} THEN Len(t.cases) + 1 ELSE CHOOSE i \in known : \A j \in known : i <= j
      cs == IF known = {} THEN Append(t.cases, NewCase(crash))
            ELSE [t.cases EXCEPT ![id] = Filed(@, crash)]
  IN [cases |-> cs, ids |-> t.ids \cup {id},
      holds |-> Retained(Holding(t.holds, id, crash.anchor), cs)]

\* Every crash in turn, in one transaction.
CreateCases(crashes) ==
  LET after[n \in 0 .. Len(crashes)] ==
        IF n = 0 THEN [cases |-> cases, holds |-> holds, ids |-> {}]
        ELSE CreateCase(after[n - 1], crashes[n])
  IN after[Len(crashes)]

-----------------------------------------------------------------------------
(* The detector's thread.                                                  *)

\* cursor_is_after
IsAfter(e, c) == c = None \/ e.at > c.at \/ (e.at = c.at /\ e.id > c.id)

\* The next page: in the order of the log, what is after the cursor.
NextPage ==
  LET fresh == {i \in DOMAIN log : IsAfter(log[i], cursor)}
  IN {log[i] : i \in {i \in fresh : Cardinality({j \in fresh : j <= i}) <= Page}}

CursorAfter(page) ==
  LET last == CHOOSE e \in page : \A f \in page : ~IsAfter(f, [at |-> e.at, id |-> e.id])
  IN [at |-> last.at, id |-> last.id]

\* Mutant of ContextOf: only the page itself is classified.
ContextOfPage(page, kept) ==
  [events |-> page, sessions |-> sessions, marks |-> {},
   keys |-> {cases[i].key : i \in DOMAIN cases} \ {None}]

\* persist_event_batch classifies the page with what is stored around it, and
\* load_crash_classification_context adds the boot sessions, the times other
\* boots were last observed, and the cases known by a reboot.
ContextOf(page, kept) ==
  LET from == (CHOOSE t \in {e.at : e \in page} : \A e \in page : t <= e.at) - Pre
      to == (CHOOSE t \in {e.at : e \in page} : \A e \in page : t >= e.at) + Correlation
  IN [events |-> {e \in kept : from <= e.at /\ e.at <= to},
      sessions |-> sessions,
      marks |-> {f.at + 1 : f \in {f \in frames : /\ f.boot # Len(boots)
                                                  /\ f.at < to /\ f.at + 1 >= from}}
                \cup {s.end : s \in {s \in sessions : /\ s.boot # Len(boots) /\ s.end # None
                                                      /\ s.end <= to /\ s.end >= from}},
      keys |-> {cases[i].key : i \in DOMAIN cases} \ {None}]

\* The crash events of a context with the case each goes into.
Links(c) ==
  UNION {{[event |-> e.id, boot |-> e.boot,
           case |-> IF x.key = None THEN <<"at", x.anchor>> ELSE x.key] : x \in Candidate(c, e)} :
           e \in Boundaries(c.events)}

\* Ids in order.
InOrder(ids) ==
  [n \in 1 .. Cardinality(ids) |-> CHOOSE i \in ids : Cardinality({j \in ids : j <= i}) = n]

BeginRound ==
  /\ up /\ scan.phase = "rest"
  /\ scan' = [phase |-> "read", now |-> clock, todo |-> <<>>]
  /\ UNCHANGED <<clock, machine, up, sessions, frames, tables, budget>>

MoveCursor ==
  /\ scan.phase = "read" /\ NextPage # {}
  /\ cursor' = CursorAfter(NextPage)

\* The crashes of a page get their cases and holds, and these are to be built.
Persist(links, made) ==
  /\ cases' = made.cases /\ holds' = made.holds
  /\ linked' = linked \cup links
  /\ scan' = [scan EXCEPT !.phase = IF made.ids = {} THEN "read" ELSE "build",
                          !.todo = InOrder(made.ids)]

\* scan_page: a page is read, and stored with the cursor.
ReadPage ==
  /\ MoveCursor
  /\ stored' = stored \cup NextPage
  /\ \E context \in {ContextOf(NextPage, stored')} :
       Persist(Links(context), CreateCases(Candidates(context)))
  /\ UNCHANGED <<clock, machine, up, sessions, frames, budget>>

\* The cases rebuild_due_cases takes, by the end of their windows.
Due ==
  {i \in DOMAIN cases :
     LET end == cases[i].anchor + Post
     IN /\ end <= scan.now
        /\ \/ cases[i].status \in {"pending", "post_pending"}
           \/ cases[i].status = "partial" /\ scan.now <= end + Stabilise}

DueInOrder ==
  LET before(i, j) == \/ cases[i].anchor < cases[j].anchor
                      \/ cases[i].anchor = cases[j].anchor /\ i <= j
  IN [n \in 1 .. Cardinality(Due) |->
        CHOOSE i \in Due : Cardinality({j \in Due : before(j, i)}) = n]

\* Nothing more to read.
CaughtUp ==
  /\ scan.phase = "read" /\ NextPage = {}
  /\ scan' = IF Due = {} THEN AtRest ELSE [scan EXCEPT !.phase = "due", !.todo = DueInOrder]
  /\ UNCHANGED <<clock, machine, up, sessions, frames, tables, budget>>

\* build_case_at: without an active hold it fails; otherwise the windows whose
\* time has come are summed up, and the case is complete if each has a frame.
Built(case, id, now) ==
  LET elapsed == now >= case.anchor + Post
      before == \E f \in frames : Overlaps(f, case.anchor - 1, case.anchor)
      after == \E f \in frames : Overlaps(f, case.anchor, case.anchor + Post)
  IN IF id \notin Held THEN [case EXCEPT !.status = "failed"]
     ELSE [case EXCEPT !.built = case.anchor,
                       !.status = IF ~elapsed THEN "post_pending"
                                  ELSE IF before /\ after THEN "complete" ELSE "partial"]

\* After the last case of a page the next page is read; a failure does not
\* matter there, but it ends the round among the cases that were due.
AfterBuild(failed) ==
  IF Len(scan.todo) > 1 /\ ~(failed /\ scan.phase = "due")
    THEN [scan EXCEPT !.todo = Tail(@)]
  ELSE IF scan.phase = "build" THEN [scan EXCEPT !.phase = "read", !.todo = <<>>]
  ELSE AtRest

Build ==
  /\ scan.todo # <<>>
  /\ LET id == Head(scan.todo)
     IN /\ cases' = [cases EXCEPT ![id] = Built(@, id, scan.now)]
        /\ scan' = AfterBuild(cases'[id].status = "failed")
  /\ UNCHANGED <<clock, machine, up, sessions, frames, stored, cursor, holds, linked, budget>>

\* The database fails: the case is marked, unless that fails as well.
BuildBreaks ==
  /\ scan.todo # <<>> /\ Happens
  /\ LET id == Head(scan.todo)
     IN cases' \in {cases, [cases EXCEPT ![id].status = "failed"]}
  /\ scan' = AfterBuild(TRUE)
  /\ UNCHANGED <<clock, machine, up, sessions, frames, stored, cursor, holds, linked, load>>

\* The log cannot be read, or the page not stored: the round is over.
ReadFails ==
  /\ scan.phase = "read" /\ Happens
  /\ scan' = AtRest
  /\ UNCHANGED <<clock, machine, up, sessions, frames, tables, load>>

-----------------------------------------------------------------------------
(* Retention and the user.                                                 *)

\* prune_system_samples: a batch of the oldest frames no active hold covers.
Prunable ==
  {f \in frames : /\ f.at < clock - Keep
                  /\ \A i \in Active(holds) :
                       ~Overlaps(f, holds[i].anchor - Pre, holds[i].anchor + Post)}

Prune ==
  /\ up
  /\ \E last \in Prunable : frames' = frames \ {f \in Prunable : f.at <= last.at}
  /\ UNCHANGED <<clock, machine, up, sessions, tables, scan, budget>>

\* clear_collected_data is refused while a hold is active.
Clear ==
  /\ up /\ Happens /\ Held = {}
  /\ frames' = {}
  /\ UNCHANGED <<clock, machine, up, sessions, tables, scan, load>>

\* release_crash_case_hold
Release ==
  /\ up /\ Happens
  /\ \E id \in Held :
       holds' = [i \in DOMAIN holds |-> [holds[i] EXCEPT !.active = @ /\ holds[i].case # id]]
  /\ UNCHANGED <<clock, machine, up, sessions, frames, stored, cursor, cases, linked,
                 scan, load>>

\* rebuild_crash_case
Rebuild ==
  /\ up /\ Happens
  /\ \E id \in DOMAIN cases : cases' = [cases EXCEPT ![id] = Built(@, id, clock)]
  /\ UNCHANGED <<clock, machine, up, sessions, frames, stored, cursor, holds, linked,
                 scan, load>>

\* The machine has started after a run that broke off.
Init ==
  /\ load \in Loads
  /\ clock = 1 /\ on = TRUE /\ fell = None /\ boots = <<[at |-> 1, fell |-> 0]>>
  /\ log \in Logged(<<>>, 1, 1, 0)
  /\ up = FALSE /\ sessions = {} /\ frames = {}
  /\ stored = {} /\ cursor = None /\ cases = <<>> /\ holds = <<>> /\ linked = {}
  /\ scan = AtRest
  /\ happened = 0

Next ==
  \/ Tick \/ PowerOn \/ ShutDown \/ BreaksOff \/ WerReports
  \/ AppStarts \/ AppEnds \/ Sample
  \/ BeginRound \/ ReadPage \/ CaughtUp \/ Build \/ BuildBreaks \/ ReadFails
  \/ Prune \/ Clear \/ Release \/ Rebuild

Spec == Init /\ [][Next]_vars

\* The detector's thread goes on, and neither the log nor the database fails
\* every time.  Only ReadPage moves the cursor.
Fairness ==
  /\ WF_vars(BeginRound) /\ SF_cursor(MoveCursor)
  /\ SF_vars(CaughtUp) /\ SF_vars(Build)

FairSpec == Spec /\ Fairness

-----------------------------------------------------------------------------
(* What must hold.                                                         *)

Time == 0 .. load.time

Events ==
  [id : DOMAIN log, at : Time, kind : Crashed \cup {"Boot", "Shutdown"},
   prev : Time \cup {None}, boot : DOMAIN boots]

\* The type invariant.
TypeOK ==
  /\ load \in Loads /\ clock \in Time /\ on \in BOOLEAN /\ up \in BOOLEAN
  /\ up => on
  /\ fell \in Time \cup {None}
  /\ boots \in Seq([at : Time, fell : Time \cup {None}])
  /\ log \in Seq(Events) /\ stored \subseteq {log[i] : i \in DOMAIN log}
  /\ sessions \subseteq [boot : DOMAIN boots, at : Time, start : Time, end : Time \cup {None}]
  /\ frames \subseteq [boot : DOMAIN boots, at : Time]
  /\ cursor \in [at : Time, id : DOMAIN log] \cup {None}
  /\ cases \in Seq([key : {None} \cup {"session", "boot"} \X Nat, anchor : Time,
                    rank : {2, 3}, built : Time \cup {None},
                    status : {"pending", "post_pending", "partial", "complete", "failed"}])
  /\ holds \in Seq([case : DOMAIN cases, anchor : Time, active : BOOLEAN])
  /\ Cardinality(Active(holds)) <= Limit
  /\ scan \in [phase : {"rest", "read", "build", "due"}, now : Time, todo : Seq(DOMAIN cases)]

Passed(e) == ~IsAfter(e, cursor)

\* The code can tell the reboot: the application ran in that boot, or the boot
\* is in the log as far as it was read, or the event says when it stopped.
Attributable(e) ==
  \/ \E s \in sessions : s.boot = e.boot
  \/ \E i \in DOMAIN log : log[i].kind = "Boot" /\ log[i].boot = e.boot /\ Passed(log[i])
  \/ Physical(e)

\* Evidence of a crash makes a case (docs/upgrade/crash-detection.md:8): however
\* the log falls into pages, and wherever a round, the application or the
\* machine breaks off, a crash the cursor has passed has its case.
EvidenceMakesACase ==
  \A i \in DOMAIN log :
    LET e == log[i]
    IN e.kind \in {"BugCheck", "Unexpected"} /\ Passed(e) /\ Attributable(e)
         => \E l \in linked : l.event = e.id

\* Between two starts of the machine lies more than CRASH_INCIDENT_CORRELATION_MS.
Apart == \A m, n \in DOMAIN boots : m < n => boots[n].at - boots[m].at > Correlation

\* So it is, if no two starts are close: the session of another boot may be the
\* nearest of a crash otherwise, and the end of the run before that boot hide it.
NoCrashIsMissed == Apart => EvidenceMakesACase

\* An event of a boot the application ran in, not too long after its start.
Placed(l) ==
  /\ \E s \in sessions : s.boot = l.boot
  /\ Within(log[l.event].at, boots[l.boot].at, Correlation)

\* The reports of one crash make one case and those of two crashes two, in any
\* order and however the pages fall, if the events can be placed.
OneCasePerCrash ==
  \A k, l \in linked : Placed(k) /\ Placed(l) => (k.case = l.case <=> k.boot = l.boot)

\* As long as a case is held, no frame of its evidence goes away.
HeldEvidenceStays ==
  [][\A id \in Held : Evidence(cases[id].anchor) \subseteq frames']_vars

Settled(case) ==
  \/ case.status = "failed"
  \/ case.status \in {"complete", "partial"} /\ case.built = case.anchor

\* A case whose time has come gets its evidence, for the time it is now known
\* to have stopped, or fails: nothing keeps it pending for ever.
CasesSettle ==
  []<>(~up \/ \A i \in DOMAIN cases : clock >= cases[i].anchor + Post => Settled(cases[i]))
=============================================================================
