------------------------------ MODULE CrashLog ------------------------------
(***************************************************************************)
(* How the crash detector reads a set of Windows events (the pure part of  *)
(* src-tauri/src/crash.rs): which reboot an event belongs to, when the     *)
(* machine stopped, and which events are one crash.                        *)
(*   An event is [id, at, kind, prev, boot]: its record id, the time it    *)
(* was logged, what classify_event_signal makes of it ("Wer" is the WER    *)
(* 1001 record, also a BugCheck), previous_shutdown_time_ms, and the boot  *)
(* it was logged in, which the code does not see.                          *)
(*   A boot session is [boot, at, start, end]; its row id grows with boot. *)
(*   A context is [events, sessions, marks, keys]: what                    *)
(* classify_events_with_episode_context is given.                          *)
(***************************************************************************)
EXTENDS Integers, Sequences

CONSTANTS BootMatch,    \* CRASH_BOOT_EPISODE_MATCH_MS
          Correlation,  \* CRASH_INCIDENT_CORRELATION_MS, also CRASH_REBOOT_MATCH_MS
          None          \* an absent time or key

Crashed == {"Wer", "BugCheck", "Unexpected"}

Distance(s, t) == IF s < t THEN t - s ELSE s - t
Within(s, t, w) == Distance(s, t) <= w

Boots(events) == {e \in events : e.kind = "Boot"}
Boundaries(events) == {e \in events : e.kind \in Crashed}

\* Of two events or two sessions just as near, the one that is taken.
Before(x, y) ==
  IF "id" \in DOMAIN x THEN x.id <= y.id
  ELSE x.at < y.at \/ (x.at = y.at /\ x.boot <= y.boot)

\* The last of S at or before t, the first after it, and the closest to it:
\* sets of at most one element.
LastUpTo(S, t, w) ==
  {x \in S : /\ x.at <= t /\ Within(x.at, t, w)
             /\ \A y \in S : y.at <= t => \/ y.at < x.at
                                           \/ (y.at = x.at /\ Before(y, x))}

FirstAfter(S, t, w) ==
  {x \in S : /\ x.at > t /\ Within(x.at, t, w)
             /\ \A y \in S : y.at > t => \/ y.at > x.at
                                          \/ (y.at = x.at /\ Before(x, y))}

Closest(S, t) ==
  {x \in S : \A y \in S : \/ Distance(x.at, t) < Distance(y.at, t)
                          \/ (Distance(x.at, t) = Distance(y.at, t) /\ Before(x, y))}

\* Mutant of Around: a WER record goes to the nearest boot as the others do.
AroundNearest(S, e, w) == Closest(LastUpTo(S, e.at, w) \cup FirstAfter(S, e.at, w), e.at)

\* Either side of the event, the past first if it is a WER record, which is
\* written some time after the reboot.
Around(S, e, w) ==
  LET past == LastUpTo(S, e.at, w)
      future == FirstAfter(S, e.at, w)
  IN IF e.kind = "Wer" /\ past # {} THEN past ELSE Closest(past \cup future, e.at)

-----------------------------------------------------------------------------
(* The reboot an event belongs to.                                         *)

\* episode_boot_for_boundary: nearby whatever the event, else further away.
BootOf(events, e) ==
  LET boots == Boots(events)
      near == LastUpTo(boots, e.at, BootMatch) \cup FirstAfter(boots, e.at, BootMatch)
  IN IF near # {} THEN Closest(near, e.at) ELSE Around(boots, e, Correlation)

\* boot_session_near: by the boot time or the first observation.
SessionNear(sessions, t) ==
  LET far(s) == IF Distance(s.at, t) <= Distance(s.start, t)
                  THEN Distance(s.at, t) ELSE Distance(s.start, t)
  IN {s \in sessions :
        far(s) <= BootMatch
        /\ \A r \in sessions : far(s) < far(r) \/ (far(s) = far(r) /\ s.boot <= r.boot)}

\* resolve_reboot_episode: a persisted session goes before any boot event, and
\* the boot event is then the one of that session.
SessionOf(c, direct, logged) ==
  IF direct # {} THEN direct ELSE UNION {SessionNear(c.sessions, b.at) : b \in logged}

BootEventOf(c, logged, session) ==
  IF session = {} THEN logged
  ELSE UNION {Closest({b \in Boots(c.events) : Within(b.at, s.at, BootMatch)}, s.at) :
                s \in session}

EpisodeOf(session, boot) ==
  [key |-> IF session # {} THEN {<<"session", s.boot>> : s \in session}
           ELSE {<<"boot", b.id>> : b \in boot},
   at |-> IF boot # {} THEN {b.at : b \in boot} ELSE {s.at : s \in session},
   session |-> {s.boot : s \in session}]

EpisodeFrom(c, logged, session) == EpisodeOf(session, BootEventOf(c, logged, session))

Episode(c, e) ==
  LET logged == BootOf(c.events, e)
  IN EpisodeFrom(c, logged, SessionOf(c, Around(c.sessions, e, Correlation), logged))

\* An event that says when the machine stopped.
Physical(e) == e.prev # None /\ e.prev <= e.at

\* has_objective_crash_support_for_wer: a WER record confirms a crash that
\* something else shows; without a time of its own it never is one by itself.
Supported(c, e, episode) ==
  \/ e.kind # "Wer" \/ Physical(e)
  \/ /\ episode.key # {}
     /\ \/ episode.key \subseteq c.keys
        \/ \E other \in Boundaries(c.events) :
             other.kind # "Wer" /\ Episode(c, other).key = episode.key

-----------------------------------------------------------------------------
(* When the machine stopped.                                               *)

\* has_intervening_boot
BootBetween(c, from, to, session) ==
  \/ \E b \in Boots(c.events) : b.at > from /\ b.at < to
  \/ \E s \in c.sessions : s.boot \notin session /\ s.at > from /\ s.at < to

\* collection_boundary_anchor_for_episode: the last observation before the
\* reboot, if it was still the same run of the machine.
LastSeen(c, e, episode) ==
  {m \in c.marks :
     \A boot \in episode.at :
       /\ m < boot
       /\ Within(m, e.at, Correlation) /\ Within(m, boot, Correlation)
       /\ ~BootBetween(c, m, boot, episode.session)}

\* The physical times the events of the same reboot carry.
Told(c, episode) ==
  {o.prev : o \in {o \in c.events : Physical(o) /\ Episode(c, o).key = episode.key}}

\* incident_anchor_for_boundary: the time and how good it is; none if the
\* event's reboot is not known either.
Anchors(e, episode, told, seen) ==
  IF Physical(e) THEN {[at |-> e.prev, quality |-> 3]}
  ELSE IF episode.key # {} /\ told # {}
    THEN {[at |-> CHOOSE t \in told : \A u \in told : Distance(t, e.at) <= Distance(u, e.at),
           quality |-> 3]}
  ELSE IF episode.at # {} /\ seen # {}
    THEN {[at |-> CHOOSE t \in seen : \A u \in seen : u <= t, quality |-> 2]}
  ELSE {[at |-> t, quality |-> 1] : t \in episode.at}

\* A normal shutdown between the time it stopped and the next boot.
StoppedCleanly(c, e, anchor) ==
  LET next == Closest({b \in Boots(c.events) :
                         b.at >= anchor /\ Within(b.at, anchor, Correlation)}, anchor)
      until == IF next # {} THEN {b.at : b \in next}
               ELSE {IF e.at > anchor THEN e.at ELSE anchor}
  IN \E s \in c.events : s.kind = "Shutdown" /\ s.at >= anchor /\ \A u \in until : s.at <= u

-----------------------------------------------------------------------------
(* The crashes (classify_events_with_episode_context).                     *)

\* classification_rank
Rank(kind) == IF kind = "Unexpected" THEN 2 ELSE 3

\* What a crash event amounts to by itself: at most one candidate.
CandidateOf(c, e, episode) ==
  {[key |-> IF episode.key = {} THEN None ELSE CHOOSE k \in episode.key : TRUE,
    rank |-> Rank(e.kind), anchor |-> a.at, quality |-> a.quality] :
     a \in {a \in Anchors(e, episode, Told(c, episode), LastSeen(c, e, episode)) :
             Supported(c, e, episode) /\ ~StoppedCleanly(c, e, a.at)}}

Candidate(c, e) == CandidateOf(c, e, Episode(c, e))

\* same_candidate_episode
Same(x, y) == x.key = y.key /\ (x.key = None => x.anchor = y.anchor)

\* The better of two candidates of one crash, with the better anchor.
Better(old, new) ==
  IF \/ new.rank > old.rank
     \/ new.rank = old.rank /\ new.quality > old.quality
    THEN IF old.quality > new.quality
           THEN [new EXCEPT !.anchor = old.anchor, !.quality = old.quality]
           ELSE new
    ELSE old

\* found is a sequence: what comes later in time joins or follows it.
Merge(found, candidates) ==
  IF candidates = {} THEN found
  ELSE LET new == CHOOSE x \in candidates : TRUE
       IN IF \E i \in DOMAIN found : Same(found[i], new)
            THEN [i \in DOMAIN found |->
                    IF Same(found[i], new) THEN Better(found[i], new) ELSE found[i]]
            ELSE Append(found, new)

\* The candidates of the events, taken in the order of their times.
Candidates(c) ==
  LET last(S) == CHOOSE e \in S : \A f \in S : f.at < e.at \/ (f.at = e.at /\ f.id <= e.id)
      joined(found, e) == Merge(found, Candidate(c, e))
      merged[S \in SUBSET Boundaries(c.events)] ==
        IF S = {} THEN <<>> ELSE joined(merged[S \ {last(S)}], last(S))
  IN merged[Boundaries(c.events)]
=============================================================================
